----------------------------- MODULE StackFrames -----------------------------
(* The stack frame of a function as backends/static/disasm/stack_frame.py reads   *)
(* it off the instructions, in step with a machine that executes them.            *)
(*                                                                                *)
(* A function is the straight line the analysis reads, of which one instruction   *)
(* comes at each step; branches are not followed, neither there nor here.  Places *)
(* of the stack are in pointers from where the stack pointer is at entry, 0,       *)
(* downwards negative; on x86 the return address is at 0 and the arguments that    *)
(* are passed on the stack start at 1, elsewhere they start at 0.  Instructions of *)
(* the same effect on the stack pointer (push, sub, stp with a pre-index, addi of  *)
(* a negative number) are one.  Registers other than the stack and the frame       *)
(* pointer, and the arguments passed in them, are left out; riscv stands for mips. *)
EXTENDS Integers, FiniteSets, FiniteSetsExt

CONSTANTS
    Abis,            \* architectures and calling conventions
    MaxInstructions, MaxAccesses,     \* bounds
    Deepest          \* bound: how far down the stack pointer goes

Families == {"x86", "arm64", "arm", "riscv"}
\* A pointer that is not set.
NoPlace == 99

ASSUME StackFramesAssumption ==
    /\ \A a \in Abis :
         /\ a.family \in Families /\ {a.win64, a.r7} \subseteq BOOLEAN
         /\ (a.win64 => a.family = "x86") /\ (a.r7 => a.family = "arm")
    /\ {MaxInstructions, MaxAccesses, Deepest} \subseteq Nat /\ Deepest < NoPlace

VARIABLES
    abi,             \* of the binary
    adjust, known,   \* stack_adjust and stack_adjust_known
    frameSize,       \* frame_size
    stackEntries,    \* stack_entries: kind, base and displacement of a location to offset and size
    anchor,          \* frame_arg_starts, of one frame pointer; NoPlace when there is none
    sp, fp,          \* the machine: how far its two pointers are below the entry
    lowest,          \* ghost: how far down sp has been
    accesses,        \* ghost: what the function has accessed, where, and whether the depth was known
    allocated,       \* ghost: whether it has allocated a size that is not known
    misread,         \* ghost: whether it has used a form that the analysis misreads
    instructions     \* bound: instructions so far

frameVars == <<abi, adjust, known, frameSize, stackEntries, anchor, sp, fp, lowest, accesses, allocated,
               misread, instructions>>

X86 == abi.family = "x86"
\* The families whose frame pointer is found (_extract_frame_pointer_anchor), and those
\* whose depth may be a lower bound.
Anchored == abi.family \in {"arm64", "arm"}
Bounded == abi.family \in {"x86", "arm64"}

\* stack_adjust never goes below 0.
AboveZero(n) == IF n > 0 THEN n ELSE 0

FramesInit ==
    /\ abi \in Abis
    /\ adjust = 0 /\ known = TRUE /\ frameSize = 0 /\ anchor = NoPlace
    /\ stackEntries = [k \in {} |-> [offset |-> 0, size |-> 0]]
    /\ sp = 0 /\ fp = NoPlace /\ lowest = 0 /\ accesses = {}
    /\ allocated = FALSE /\ misread = FALSE /\ instructions = 0

-----------------------------------------------------------------------------
(* What the analysis keeps of an access *)

\* _stack_arg_start_offset of a frame pointer.
ArgStart == IF abi.win64 THEN 6 ELSE 2

FrameArgStart == IF anchor # NoPlace THEN anchor ELSE ArgStart

Kind(kind, offset) == {[kind |-> kind, offset |-> offset]}

\* _classify_stack_access for the frame pointer: the kind and the normalised offset,
\* nothing for what it skips; only r7 has its variables above it listed.
FrameRelative(raw) ==
    IF raw < 0 THEN Kind("var", raw)
    ELSE IF raw >= FrameArgStart THEN Kind("arg", raw)
    ELSE IF abi.r7 /\ anchor # NoPlace THEN Kind("var", raw - anchor)
    ELSE {}

\* ... with the return address taken for an argument.
AccessKindReturn(base, raw, depth) ==
    IF base = "fp" THEN FrameRelative(raw)
    ELSE IF raw - depth < 0 THEN Kind("var", raw - depth)
    ELSE Kind("arg", IF X86 THEN raw - depth + 1 ELSE raw - depth)

\* ... and for the stack pointer.
AccessKind(base, raw, depth) ==
    IF base = "fp" THEN FrameRelative(raw)
    ELSE IF raw - depth < 0 THEN Kind("var", raw - depth)
    ELSE IF ~X86 THEN Kind("arg", raw - depth)
    ELSE IF raw - depth + 1 >= ArgStart THEN Kind("arg", raw - depth + 1)
    ELSE {}

\* _merge_stack_entry: of one location the largest access is kept.
Merged(found, base, raw, size) ==
    LET key(c) == <<c.kind, base, raw>>
        new == {c \in found : key(c) \notin DOMAIN stackEntries \/ stackEntries[key(c)].size < size}
        keys == {key(c) : c \in new}
    IN [k \in DOMAIN stackEntries \cup keys |->
            IF k \in keys THEN [offset |-> (CHOOSE c \in new : key(c) = k).offset, size |-> size]
            ELSE stackEntries[k]]

\* sp-relative accesses are skipped while the depth is not known, which only x86 and
\* arm64 keep track of.
Kept(base, raw, size, depth, sure) ==
    IF base = "sp" /\ ~sure THEN stackEntries ELSE Merged(AccessKind(base, raw, depth), base, raw, size)

Place(base, raw, s) == IF base = "fp" THEN raw - fp ELSE raw - s

-----------------------------------------------------------------------------
(* Instructions *)

\* Nothing more is claimed, nor asked, of a function that uses a misread form.
Fetch ==
    /\ ~misread /\ instructions < MaxInstructions
    /\ instructions' = instructions + 1 /\ abi' = abi

\* The analysis and the machine move their stack pointers; frame_size keeps the most.
PointerAt(estimate, sure, real) ==
    /\ adjust' = estimate /\ known' = sure /\ frameSize' = Max({frameSize, estimate})
    /\ sp' = real /\ lowest' = Max({lowest, real})

Still == UNCHANGED <<adjust, known, frameSize, sp, lowest>>

\* push, sub, stp with a pre-index, addi and stwu of a negative number.
Down ==
    /\ Fetch
    /\ \E n \in {1, 2} : sp + n <= Deepest /\ PointerAt(adjust + n, known, sp + n)
    /\ UNCHANGED <<stackEntries, anchor, fp, accesses, allocated, misread>>

\* pop, add, ldp with a post-index, addi of a positive number: what the function has
\* taken it may give back.
Up ==
    /\ Fetch
    /\ \E n \in {1, 2} : n <= sp /\ PointerAt(AboveZero(adjust - n), known, sp - n)
    /\ UNCHANGED <<stackEntries, anchor, fp, accesses, allocated, misread>>

\* sub and add of a register: from here the depth is a lower bound, unless something was
\* given back; other families than x86 and arm64 do not see it.
Allocate ==
    /\ Fetch
    /\ \E n \in {-2, -1, 1, 2} :
         /\ sp + n \in 0..Deepest /\ PointerAt(adjust, known /\ ~Bounded, sp + n)
         /\ misread' = (n < 0 \/ ~Bounded)
    /\ allocated' = TRUE
    /\ UNCHANGED <<stackEntries, anchor, fp, accesses>>

\* What moves the stack pointer unseen: the push of a call whose return address the
\* function pops, a callee that takes its arguments off the stack, enter, pushad.
MovesUnseen ==
    /\ Fetch
    /\ \E n \in {-2, -1, 1, 2} : sp + n \in 0..Deepest /\ PointerAt(adjust, known, sp + n)
    /\ misread' = TRUE
    /\ UNCHANGED <<stackEntries, anchor, fp, accesses, allocated>>

\* and of the stack pointer with -16: the analysis rounds its own depth, although the
\* stack pointer at entry is one word off a multiple of 16.
Align ==
    /\ Fetch /\ X86
    /\ LET real == IF sp % 2 = 0 THEN sp + 1 ELSE sp
           estimate == IF known THEN adjust + (adjust % 2) ELSE adjust
       IN real <= Deepest /\ PointerAt(estimate, known, real)
    /\ misread' = known
    /\ UNCHANGED <<stackEntries, anchor, fp, accesses, allocated>>

\* lea of the stack pointer, which is also read as an access; and the single store
\* and load of arm64 and arm with a pre-index or a post-index, whose access is read
\* after the stack pointer has moved.
MoveAndAccess ==
    /\ Fetch /\ abi.family # "riscv"
    /\ \E n \in {-2, -1, 1, 2} :
         LET estimate == AboveZero(adjust - n) IN
         /\ sp - n \in 0..Deepest
         /\ PointerAt(estimate, known, sp - n)
         /\ stackEntries' = Kept("sp", IF ~X86 /\ n > 0 THEN 0 ELSE n, 1, estimate, known)
    /\ misread' = TRUE
    /\ UNCHANGED <<anchor, fp, accesses, allocated>>

\* Where a frame pointer that is not looked for is taken to be: on x86 below the one that
\* was pushed, elsewhere at the entry.
UsualFrame == IF X86 THEN 1 ELSE 0

\* The frame pointer is set, `n' above the stack pointer.  The anchor is reckoned from the
\* depth, also from one that is a lower bound; without an anchor the usual place is taken.
SetFrame ==
    /\ Fetch
    /\ \E n \in IF X86 THEN {0} ELSE 0..sp :
         /\ fp' = sp - n
         /\ anchor' = IF Anchored THEN AboveZero(adjust - n) ELSE anchor
         /\ misread' = IF Anchored THEN ~known ELSE sp - n # UsualFrame
    /\ Still /\ UNCHANGED <<stackEntries, accesses, allocated>>

\* The depth after the stack pointer was set to the frame pointer plus n: x86 and arm64
\* take the plain form for the end of the frame, which a pop or a load that follows makes
\* true, and arm64 takes an added number for the depth; arm adds or subtracts it as if it
\* were of the stack pointer, and misses the plain form; riscv misses both.
DepthRestored(n) ==
    CASE Bounded /\ n = 0 -> 0
      [] abi.family = "arm64" /\ n > 0 -> n
      [] abi.family = "arm" -> AboveZero(adjust - n)
      [] OTHER -> adjust
\* On x86 the form with a number is a lea, which loses the depth.
KnownRestored(n) ==
    CASE Bounded /\ n = 0 -> TRUE
      [] X86 /\ n # 0 -> FALSE
      [] abi.family = "arm64" /\ n > 0 -> TRUE
      [] OTHER -> known

\* mov of the frame pointer into the stack pointer, and its forms with a number; a lea is
\* also read as an access.
RestoreFrame ==
    /\ Fetch /\ fp # NoPlace
    /\ \E n \in (-2)..2 :
         /\ fp - n \in 0..Deepest
         /\ PointerAt(DepthRestored(n), KnownRestored(n), fp - n)
         /\ stackEntries' = IF X86 /\ n # 0 THEN Kept("fp", n, 1, adjust, FALSE) ELSE stackEntries
         /\ misread' = ((X86 /\ n # 0) \/ DepthRestored(n) # fp - n)
    /\ UNCHANGED <<anchor, fp, accesses, allocated>>

\* leave.
Leave ==
    /\ Fetch /\ X86 /\ fp \in 1..Deepest
    /\ PointerAt(0, TRUE, fp - 1) /\ fp' = NoPlace
    /\ UNCHANGED <<stackEntries, anchor, accesses, allocated, misread>>

\* The function returns.  Only a ret ends the analysis: bx, or a pop of the program
\* counter, on arm does not, and what lies behind is read as if it were the function's.
Return ==
    /\ ~misread /\ instructions < MaxInstructions /\ sp = 0
    /\ instructions' = MaxInstructions /\ misread' = (abi.family = "arm")
    /\ Still /\ UNCHANGED <<abi, stackEntries, anchor, fp, accesses, allocated>>

\* Where the arguments on the stack start, above the shadow space of win64.
FirstArg == IF ~X86 THEN 0 ELSE IF abi.win64 THEN 5 ELSE 1

\* An access to the stack that the function may make: to its frame, to the word below
\* it, or to what its caller left it.
Access ==
    /\ Fetch /\ Cardinality(accesses) < MaxAccesses
    /\ \E base \in {"sp"} \cup (IF fp = NoPlace THEN {} ELSE {"fp"}),
          raw \in (-2)..(Deepest + 6), size \in {1, 2} :
         /\ Place(base, raw, sp) \in (-sp - 1)..(FirstArg + 1)
         /\ stackEntries' = Kept(base, raw, size, adjust, known)
         /\ accesses' = accesses \cup
                {[base |-> base, raw |-> raw, size |-> size, at |-> Place(base, raw, sp), sure |-> known]}
    /\ Still /\ UNCHANGED <<anchor, fp, allocated, misread>>

FramesNext ==
    \/ Down \/ Up \/ Allocate \/ MovesUnseen \/ Align \/ MoveAndAccess
    \/ SetFrame \/ RestoreFrame \/ Leave \/ Return \/ Access

FramesSpec == FramesInit /\ [][FramesNext]_frameVars

-----------------------------------------------------------------------------
FramesTypeOK ==
    /\ adjust \in Nat /\ frameSize \in Nat /\ {known, allocated, misread} \subseteq BOOLEAN
    /\ \A k \in DOMAIN stackEntries : k[1] \in {"var", "arg"} /\ k[2] \in {"sp", "fp"}
    /\ sp \in 0..Deepest /\ fp \in 0..Deepest \cup {NoPlace} /\ anchor \in 0..Deepest \cup {NoPlace}

\* What is told is true: unless the function uses a form that the analysis misreads, the
\* size is how deep the stack has been, or less when it has allocated what nobody knows;
\* what is listed is an access that was made, of its size; it is an argument only at or
\* above the first one and a variable only in the frame, so never the return address; and
\* its offset is its place (on x86 one argument has one offset through either register).
FrameRead ==
    ~misread =>
        /\ frameSize <= lowest /\ (frameSize = lowest \/ allocated)
        /\ \A k \in DOMAIN stackEntries :
             \E a \in accesses :
                /\ a.base = k[2] /\ a.raw = k[3] /\ a.size = stackEntries[k].size
                /\ IF k[1] = "arg" THEN a.at >= FirstArg ELSE a.at < 0
                /\ (X86 /\ k[1] = "arg") => stackEntries[k].offset = a.at + 1
                /\ (k[1] = "var" /\ (k[2] = "sp" \/ k[3] >= 0)) => stackEntries[k].offset = a.at

\* What _classify_stack_access leaves out: what the stack pointer reaches at a depth that
\* is not known; the return address and the shadow space; the variables above a frame
\* pointer that is not r7; and on riscv the first two arguments above it.
LeftOut(a) ==
    \/ a.base = "sp" /\ ~a.sure
    \/ 0 <= a.at /\ a.at < FirstArg
    \/ a.base = "fp" /\ a.raw >= 0 /\ a.at < 0 /\ ~abi.r7
    \/ a.base = "fp" /\ abi.family = "riscv" /\ a.raw \in {0, 1}

\* The location of an access, on its side of the return address, and whether it is
\* listed with a size that is not smaller.
Location(a) == <<IF a.at < 0 THEN "var" ELSE "arg", a.base, a.raw>>
IsListed(a) == Location(a) \in DOMAIN stackEntries /\ stackEntries[Location(a)].size >= a.size

\* Everything else is told.
FrameWhole == ~misread => \A a \in accesses : LeftOut(a) \/ IsListed(a)

\* The frame that is told has its type, and is the function's, no more and no less
\* (analyse_stack_frame, _update_x86_stack_adjust_state, _extract_frame_pointer_anchor,
\* _classify_stack_access, _merge_stack_entry).
FrameTold == FramesTypeOK /\ FrameRead /\ FrameWhole
=============================================================================
