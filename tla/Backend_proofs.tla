---------------------------- MODULE Backend_proofs ----------------------------
(***************************************************************************)
(* What the analyses of the backend tell of a binary, for every calling    *)
(* convention and any number of instructions, and what its cache keeps of  *)
(* their results, for any files, processes and limits; what its plugins    *)
(* may do, for any directories and consents; and what its graphs and its   *)
(* discovery of functions tell of any listing.                             *)
(***************************************************************************)
EXTENDS BasicBlocks, FunctionDiscovery, StackFrames, StaticCache, PluginRuntime, SequenceTheorems, FiniteSetTheorems,
        WellFoundedInduction, TLAPS

-----------------------------------------------------------------------------
(* Stack frames *)

\* Where the analysis stands while nothing was misread: its depth is the machine's as
\* long as it is known and a lower bound otherwise; only an allocation of unknown size
\* loses it; and the frame pointer is where the analysis believes it is.
InStep ==
    ~misread =>
        /\ adjust <= sp /\ (known => adjust = sp)
        /\ known \/ allocated
        /\ frameSize <= lowest /\ (frameSize = lowest \/ allocated)
        /\ sp <= lowest
        /\ Anchored => anchor = fp
        /\ ~Anchored => anchor = NoPlace /\ fp \in {UsualFrame, NoPlace}
        /\ ~Bounded => known

\* What is told of a location is true of an access that was made.
TrueOf(k, given, a) ==
    /\ a.base = k[2] /\ a.raw = k[3] /\ a.size = given.size
    /\ IF k[1] = "arg" THEN a.at >= FirstArg ELSE a.at < 0
    /\ (X86 /\ k[1] = "arg") => given.offset = a.at + 1
    /\ (k[1] = "var" /\ (k[2] = "sp" \/ k[3] >= 0)) => given.offset = a.at

EntriesTrue ==
    ~misread => \A k \in DOMAIN stackEntries : \E a \in accesses : TrueOf(k, stackEntries[k], a)

Sizes ==
    /\ \A k \in DOMAIN stackEntries : stackEntries[k].size \in Nat
    /\ \A a \in accesses : a.size \in Nat

FramesInv ==
    /\ FramesTypeOK /\ abi \in Abis /\ lowest \in Nat /\ Sizes
    /\ InStep /\ EntriesTrue /\ FrameWhole

LEMMA MaxOfTwo ==
    ASSUME NEW a \in Nat, NEW b \in Nat
    PROVE  /\ Max({a, b}) \in {a, b} /\ Max({a, b}) \in Nat
           /\ Max({a, b}) >= a /\ Max({a, b}) >= b
<1>1. \E x \in {a, b} : \A y \in {a, b} : x >= y
  <2>1. CASE a >= b
    BY <2>1
  <2>2. CASE ~(a >= b)
    BY <2>2
  <2>3. QED
    BY <2>1, <2>2
<1>2. Max({a, b}) \in {a, b} /\ \A y \in {a, b} : Max({a, b}) >= y
  BY <1>1 DEF Max
<1>3. QED
  BY <1>2

LEMMA AboveZeroIs ==
    ASSUME NEW n \in Int
    PROVE  /\ AboveZero(n) \in Nat /\ AboveZero(n) >= n
           /\ n >= 0 => AboveZero(n) = n
           /\ n <= 0 => AboveZero(n) = 0
  BY DEF AboveZero

\* What the type of the state says, one variable at a time.
LEMMA FramesTyped ==
    ASSUME FramesInv
    PROVE  /\ adjust \in Nat /\ frameSize \in Nat /\ lowest \in Nat /\ Deepest \in Nat
           /\ known \in BOOLEAN /\ allocated \in BOOLEAN /\ misread \in BOOLEAN
           /\ sp \in 0..Deepest /\ fp \in 0..Deepest \cup {NoPlace}
           /\ anchor \in 0..Deepest \cup {NoPlace}
           /\ abi.family \in Families /\ NoPlace \notin 0..Deepest /\ abi.r7 \in BOOLEAN
           /\ (abi.win64 => X86) /\ (abi.r7 => abi.family = "arm")
  BY StackFramesAssumption DEF FramesInv, FramesTypeOK, NoPlace, X86

LEMMA ArgsStart ==
    ASSUME FramesInv
    PROVE  /\ FirstArg \in Nat /\ ArgStart \in Nat \ {0}
           /\ X86 => ArgStart = FirstArg + 1
           /\ ~X86 => FirstArg = 0 /\ ArgStart = 2
  BY StackFramesAssumption DEF FramesInv, FirstArg, ArgStart, X86

-----------------------------------------------------------------------------
(* The pointers *)

LEMMA PointersTyped ==
    ASSUME FramesInv, NEW estimate \in Nat, NEW sure \in BOOLEAN, NEW real \in 0..Deepest,
           PointerAt(estimate, sure, real)
    PROVE  /\ adjust' = estimate /\ known' = sure /\ sp' = real
           /\ frameSize' \in {frameSize, estimate} /\ frameSize' \in Nat
           /\ frameSize' >= frameSize /\ frameSize' >= estimate
           /\ lowest' \in {lowest, real} /\ lowest' \in Nat
           /\ lowest' >= lowest /\ lowest' >= real
<1>1. frameSize \in Nat /\ lowest \in Nat /\ real \in Nat
  BY FramesTyped
<1>2. QED
  BY <1>1, MaxOfTwo DEF PointerAt

\* What depends on the calling convention alone stays.
SameFamily ==
    /\ (X86' <=> X86) /\ (Anchored' <=> Anchored) /\ (Bounded' <=> Bounded)
    /\ UsualFrame' = UsualFrame /\ FirstArg' = FirstArg
    /\ \A a : LeftOut(a)' <=> LeftOut(a)

LEMMA FamilyKept == abi' = abi => SameFamily
<1> SUFFICES ASSUME abi' = abi PROVE SameFamily
  OBVIOUS
<1>1. /\ (X86' <=> X86) /\ (Anchored' <=> Anchored) /\ (Bounded' <=> Bounded)
      /\ UsualFrame' = UsualFrame /\ FirstArg' = FirstArg
  BY DEF X86, Anchored, Bounded, UsualFrame, FirstArg
<1>2. \A a : LeftOut(a)' <=> LeftOut(a)
  BY <1>1 DEF LeftOut
<1>3. QED
  BY <1>1, <1>2 DEF SameFamily

\* The two pointers move together, or the depth is known to be a lower bound.
LEMMA MovedInStep ==
    ASSUME FramesInv, ~misread, abi' = abi,
           NEW estimate \in Nat, NEW sure \in BOOLEAN, NEW real \in 0..Deepest,
           PointerAt(estimate, sure, real),
           estimate <= real, sure => estimate = real,
           allocated => allocated', sure \/ allocated',
           ~Bounded => sure,
           Anchored => anchor' = fp',
           ~Anchored => anchor' = NoPlace /\ fp' \in {UsualFrame, NoPlace}
    PROVE  InStep'
<1>1. /\ adjust \in Nat /\ frameSize \in Nat /\ lowest \in Nat /\ sp \in Nat
      /\ frameSize <= lowest /\ (frameSize = lowest \/ allocated)
  BY FramesTyped DEF FramesInv, InStep
<1>2. /\ adjust' = estimate /\ (known' <=> sure) /\ sp' = real
      /\ frameSize' \in {frameSize, estimate} /\ frameSize' \in Nat
      /\ frameSize' >= frameSize /\ frameSize' >= estimate
      /\ lowest' \in {lowest, real} /\ lowest' \in Nat
      /\ lowest' >= lowest /\ lowest' >= real
  BY PointersTyped
<1>3. frameSize' <= lowest' /\ sp' <= lowest'
  BY <1>1, <1>2
<1>4. frameSize' = lowest' \/ allocated'
  <2>1. ASSUME ~allocated'
        PROVE  frameSize' = lowest'
    <3>1. frameSize = lowest /\ estimate = real
      BY <1>1, <2>1
    <3>2. QED
      BY <1>1, <1>2, <3>1
  <2>2. QED
    BY <2>1
<1>5. SameFamily
  BY FamilyKept
<1>6. QED
  BY <1>2, <1>3, <1>4, <1>5 DEF InStep, SameFamily

LEMMA TypesKept ==
    ASSUME FramesInv, abi' = abi, adjust' \in Nat, frameSize' \in Nat, lowest' \in Nat,
           known' \in BOOLEAN, allocated' \in BOOLEAN, misread' \in BOOLEAN,
           sp' \in 0..Deepest, fp' \in 0..Deepest \cup {NoPlace}, anchor' \in 0..Deepest \cup {NoPlace},
           \A k \in DOMAIN stackEntries' : k[1] \in {"var", "arg"} /\ k[2] \in {"sp", "fp"}
    PROVE  FramesTypeOK' /\ (abi \in Abis)' /\ (lowest \in Nat)'
  BY DEF FramesInv, FramesTypeOK

LEMMA EntriesKept ==
    ASSUME FramesInv, ~misread, UNCHANGED <<abi, stackEntries, accesses>>
    PROVE  EntriesTrue' /\ FrameWhole' /\ Sizes'
<1>1. SameFamily
  BY FamilyKept
<1>2. EntriesTrue'
  BY <1>1 DEF FramesInv, EntriesTrue, TrueOf, SameFamily
<1>3. FrameWhole'
  <2>1. SUFFICES ASSUME ~misread', NEW a \in accesses'
                 PROVE  (LeftOut(a) \/ IsListed(a))'
    BY DEF FrameWhole
  <2>2. LeftOut(a) \/ IsListed(a)
    BY <2>1 DEF FramesInv, FrameWhole
  <2>3. IsListed(a)' <=> IsListed(a)
    BY DEF IsListed
  <2>4. QED
    BY <1>1, <2>2, <2>3 DEF SameFamily
<1>4. Sizes'
  BY DEF FramesInv, Sizes
<1>5. QED
  BY <1>2, <1>3, <1>4

LEMMA OldKeys ==
    ASSUME FramesInv, UNCHANGED stackEntries
    PROVE  \A k \in DOMAIN stackEntries' : k[1] \in {"var", "arg"} /\ k[2] \in {"sp", "fp"}
  BY DEF FramesInv, FramesTypeOK

\* An instruction that moves the pointers and is read as what it does.
LEMMA MovedSafe ==
    ASSUME FramesInv, ~misread, UNCHANGED <<abi, stackEntries, accesses>>,
           NEW estimate \in Nat, NEW sure \in BOOLEAN, NEW real \in 0..Deepest,
           PointerAt(estimate, sure, real), allocated' \in BOOLEAN, misread' \in BOOLEAN,
           ~misread' => /\ estimate <= real /\ (sure => estimate = real)
                        /\ (allocated => allocated') /\ (sure \/ allocated')
                        /\ (~Bounded => sure),
           fp' \in {fp, NoPlace}, Anchored => fp' = fp, anchor' = anchor
    PROVE  FramesInv'
<1>1. /\ adjust' = estimate /\ known' = sure /\ sp' = real /\ frameSize' \in Nat /\ lowest' \in Nat
  BY PointersTyped
<1>2. FramesTypeOK' /\ (abi \in Abis)' /\ (lowest \in Nat)'
  BY <1>1, FramesTyped, TypesKept, OldKeys
<1>3. ASSUME ~misread'
      PROVE  InStep'
  <2>1. ~Anchored => anchor' = NoPlace /\ fp' \in {UsualFrame, NoPlace}
    BY DEF FramesInv, InStep
  <2>2. Anchored => anchor' = fp'
    BY DEF FramesInv, InStep
  <2>3. QED
    BY <1>3, <2>1, <2>2, MovedInStep
<1>4. ASSUME misread'
      PROVE  InStep'
  BY <1>4 DEF InStep
<1>5. EntriesTrue' /\ FrameWhole' /\ Sizes'
  BY EntriesKept
<1>6. QED
  BY <1>2, <1>3, <1>4, <1>5 DEF FramesInv

LEMMA DownSafe == FramesInv /\ Down => FramesInv'
<1> SUFFICES ASSUME FramesInv, Down PROVE FramesInv'
  OBVIOUS
<1>1. PICK n \in {1, 2} : sp + n <= Deepest /\ PointerAt(adjust + n, known, sp + n)
  BY DEF Down
<1>2. /\ ~misread /\ UNCHANGED <<abi, stackEntries, accesses, allocated, misread, fp, anchor>>
  BY DEF Down, Fetch
<1>3. /\ adjust \in Nat /\ sp \in 0..Deepest /\ Deepest \in Nat /\ known \in BOOLEAN
      /\ allocated \in BOOLEAN /\ misread \in BOOLEAN
  BY FramesTyped
<1>4. /\ adjust <= sp /\ (known => adjust = sp) /\ (known \/ allocated)
      /\ ~Bounded => known
  BY <1>2 DEF FramesInv, InStep
<1>5. adjust + n \in Nat /\ sp + n \in 0..Deepest /\ adjust + n <= sp + n /\ (known => adjust + n = sp + n)
  BY <1>1, <1>3, <1>4
<1>6. QED
  BY <1>1, <1>2, <1>3, <1>4, <1>5, MovedSafe

LEMMA UpSafe == FramesInv /\ Up => FramesInv'
<1> SUFFICES ASSUME FramesInv, Up PROVE FramesInv'
  OBVIOUS
<1>1. PICK n \in {1, 2} : n <= sp /\ PointerAt(AboveZero(adjust - n), known, sp - n)
  BY DEF Up
<1>2. /\ ~misread /\ UNCHANGED <<abi, stackEntries, accesses, allocated, misread, fp, anchor>>
  BY DEF Up, Fetch
<1>3. /\ adjust \in Nat /\ sp \in 0..Deepest /\ Deepest \in Nat /\ known \in BOOLEAN
      /\ allocated \in BOOLEAN /\ misread \in BOOLEAN
  BY FramesTyped
<1>4. /\ adjust <= sp /\ (known => adjust = sp) /\ (known \/ allocated)
      /\ ~Bounded => known
  BY <1>2 DEF FramesInv, InStep
<1>5. /\ AboveZero(adjust - n) \in Nat /\ sp - n \in 0..Deepest /\ AboveZero(adjust - n) <= sp - n
      /\ known => AboveZero(adjust - n) = sp - n
  <2>1. adjust - n \in Int
    BY <1>3
  <2>2. QED
    BY <1>1, <1>3, <1>4, <2>1, AboveZeroIs
<1>6. QED
  BY <1>1, <1>2, <1>3, <1>4, <1>5, MovedSafe

LEMMA AllocateSafe == FramesInv /\ Allocate => FramesInv'
<1> SUFFICES ASSUME FramesInv, Allocate PROVE FramesInv'
  OBVIOUS
<1> DEFINE sure == known /\ ~Bounded
<1>1. PICK n \in {-2, -1, 1, 2} :
          sp + n \in 0..Deepest /\ PointerAt(adjust, sure, sp + n) /\ misread' = (n < 0 \/ ~Bounded)
  BY DEF Allocate
<1>2. /\ ~misread /\ UNCHANGED <<abi, stackEntries, accesses, fp, anchor>>
      /\ allocated' = TRUE
  BY DEF Allocate, Fetch
<1>3. adjust \in Nat /\ sp \in 0..Deepest /\ Deepest \in Nat /\ adjust <= sp
  BY <1>2, FramesTyped DEF FramesInv, InStep
<1>4. sure \in BOOLEAN
  OBVIOUS
<1>5. misread' \in BOOLEAN /\ allocated' \in BOOLEAN
  BY <1>1, <1>2
<1>6. ~misread' => ~sure /\ Bounded /\ adjust <= sp + n
  <2>1. ~misread' => ~(n < 0) /\ Bounded
    BY <1>1
  <2>2. ~(n < 0) => adjust <= sp + n
    BY <1>1, <1>3
  <2>3. QED
    BY <2>1, <2>2
<1> HIDE DEF sure
<1>7. QED
  BY <1>1, <1>2, <1>3, <1>4, <1>5, <1>6, MovedSafe

LEMMA MovesUnseenSafe == FramesInv /\ MovesUnseen => FramesInv'
<1> SUFFICES ASSUME FramesInv, MovesUnseen PROVE FramesInv'
  OBVIOUS
<1>1. PICK n \in {-2, -1, 1, 2} : sp + n \in 0..Deepest /\ PointerAt(adjust, known, sp + n)
  BY DEF MovesUnseen
<1>2. /\ ~misread /\ UNCHANGED <<abi, stackEntries, accesses, fp, anchor, allocated>> /\ misread' = TRUE
  BY DEF MovesUnseen, Fetch
<1>3. adjust \in Nat /\ known \in BOOLEAN /\ allocated \in BOOLEAN
  BY FramesTyped
<1>4. QED
  BY <1>1, <1>2, <1>3, MovedSafe

LEMMA AlignSafe == FramesInv /\ Align => FramesInv'
<1> SUFFICES ASSUME FramesInv, Align PROVE FramesInv'
  OBVIOUS
<1> DEFINE real == IF sp % 2 = 0 THEN sp + 1 ELSE sp
           estimate == IF known THEN adjust + (adjust % 2) ELSE adjust
<1>1. real <= Deepest /\ PointerAt(estimate, known, real) /\ X86
  BY DEF Align
<1>2. /\ ~misread /\ UNCHANGED <<abi, stackEntries, accesses, allocated, fp, anchor>>
      /\ misread' = known
  BY DEF Align, Fetch
<1>3. /\ adjust \in Nat /\ sp \in 0..Deepest /\ Deepest \in Nat /\ known \in BOOLEAN
      /\ allocated \in BOOLEAN /\ adjust <= sp /\ (known \/ allocated)
  BY <1>2, FramesTyped DEF FramesInv, InStep
<1>4. real \in 0..Deepest /\ estimate \in Nat /\ sp <= real
  BY <1>1, <1>3
<1>5. ~known => estimate <= real
  BY <1>3, <1>4
<1>6. Bounded
  BY <1>1 DEF X86, Bounded
<1> HIDE DEF real, estimate
<1>7. QED
  BY <1>1, <1>2, <1>3, <1>4, <1>5, <1>6, MovedSafe

LEMMA LeaveSafe == FramesInv /\ Leave => FramesInv'
<1> SUFFICES ASSUME FramesInv, Leave PROVE FramesInv'
  OBVIOUS
<1>0. /\ X86 /\ PointerAt(0, TRUE, fp - 1) /\ fp' = NoPlace /\ fp \in 1..Deepest
      /\ ~misread /\ UNCHANGED <<abi, stackEntries, accesses, allocated, anchor, misread>>
  BY DEF Leave, Fetch
<1>1. fp - 1 = 0 /\ ~Anchored
  <2>1. ~Anchored /\ UsualFrame = 1
    BY <1>0 DEF X86, Anchored, UsualFrame
  <2>2. QED
    BY <1>0, <2>1, FramesTyped DEF FramesInv, InStep
<1> DEFINE sure == TRUE
           none == 0
<1>2. none \in 0..Deepest
  BY FramesTyped
<1>3. allocated' \in BOOLEAN /\ misread' \in BOOLEAN
  <2>1. allocated \in BOOLEAN /\ misread \in BOOLEAN
    BY FramesTyped
  <2>2. allocated' = allocated /\ misread' = misread
    BY <1>0
  <2>3. QED
    BY <2>1, <2>2, Zenon
<1>4. sure \in BOOLEAN /\ sure /\ none \in Nat /\ none <= none /\ PointerAt(none, sure, none)
  <2>1. none \in Nat /\ none <= none
    OBVIOUS
  <2>2. sure \in BOOLEAN /\ sure /\ PointerAt(none, sure, none)
    BY <1>0, <1>1, Zenon
  <2>3. QED
    BY <2>1, <2>2
<1>5. /\ UNCHANGED <<abi, stackEntries, accesses>> /\ anchor' = anchor
      /\ fp' \in {fp, NoPlace} /\ (Anchored => fp' = fp) /\ (allocated => allocated')
  BY <1>0, <1>1
<1> HIDE DEF sure, none
<1>6. QED
  BY <1>0, <1>1, <1>2, <1>3, <1>4, <1>5, MovedSafe

-----------------------------------------------------------------------------
(* The frame pointer *)

LEMMA SetFrameSafe == FramesInv /\ SetFrame => FramesInv'
<1> SUFFICES ASSUME FramesInv, SetFrame PROVE FramesInv'
  OBVIOUS
<1>1. /\ ~misread /\ UNCHANGED <<abi, stackEntries, accesses, allocated>>
      /\ UNCHANGED <<adjust, known, frameSize, sp, lowest>>
  BY DEF SetFrame, Fetch, Still
<1>2. PICK n \in IF X86 THEN {0} ELSE 0..sp :
         /\ fp' = sp - n
         /\ anchor' = IF Anchored THEN AboveZero(adjust - n) ELSE anchor
         /\ misread' = IF Anchored THEN ~known ELSE sp - n # UsualFrame
  BY DEF SetFrame
<1>3. /\ adjust \in Nat /\ frameSize \in Nat /\ lowest \in Nat /\ Deepest \in Nat
      /\ sp \in 0..Deepest /\ anchor \in 0..Deepest \cup {NoPlace}
      /\ adjust <= sp /\ (known => adjust = sp)
      /\ ~Anchored => anchor = NoPlace
  BY <1>1, FramesTyped DEF FramesInv, InStep
<1>4. known \in BOOLEAN /\ allocated \in BOOLEAN /\ misread' \in BOOLEAN
  BY <1>2, FramesTyped
<1>5. n \in 0..sp /\ sp - n \in 0..Deepest /\ adjust - n \in Int
  BY <1>2, <1>3
<1>6. AboveZero(adjust - n) \in 0..Deepest /\ (adjust = sp => AboveZero(adjust - n) = sp - n)
  BY <1>3, <1>5 DEF AboveZero
<1>7. fp' \in 0..Deepest /\ anchor' \in 0..Deepest \cup {NoPlace}
  BY <1>2, <1>3, <1>5, <1>6
<1>8. ~misread' => /\ Anchored => anchor' = fp'
                   /\ ~Anchored => anchor' = NoPlace /\ fp' \in {UsualFrame, NoPlace}
  BY <1>2, <1>3, <1>6
<1>9. FramesTypeOK' /\ (abi \in Abis)' /\ (lowest \in Nat)'
  <2>1. known' \in BOOLEAN /\ allocated' \in BOOLEAN
    BY <1>1, <1>4
  <2>2. QED
    BY <1>1, <1>3, <1>4, <1>7, <2>1, TypesKept, OldKeys
<1>10. InStep'
  <2>1. SameFamily
    BY <1>1, FamilyKept
  <2>2. QED
    BY <1>1, <1>8, <2>1 DEF FramesInv, InStep, SameFamily
<1>11. EntriesTrue' /\ FrameWhole' /\ Sizes'
  BY <1>1, EntriesKept
<1>12. QED
  BY <1>9, <1>10, <1>11 DEF FramesInv

LEMMA ReturnSafe == FramesInv /\ Return => FramesInv'
<1> SUFFICES ASSUME FramesInv, Return PROVE FramesInv'
  OBVIOUS
<1>1. /\ ~misread /\ UNCHANGED <<abi, stackEntries, anchor, fp, accesses, allocated>>
      /\ UNCHANGED <<adjust, known, frameSize, sp, lowest>> /\ misread' = (abi.family = "arm")
  BY DEF Return, Still
<1>2. SameFamily
  BY <1>1, FamilyKept
<1>3. known' \in BOOLEAN /\ allocated' \in BOOLEAN /\ misread' \in BOOLEAN
  BY <1>1, FramesTyped, Zenon
<1>4. FramesTypeOK' /\ (abi \in Abis)' /\ (lowest \in Nat)'
  BY <1>1, <1>3, FramesTyped, TypesKept, OldKeys
<1>5. InStep'
  BY <1>1, <1>2 DEF FramesInv, InStep, SameFamily
<1>6. EntriesTrue' /\ FrameWhole' /\ Sizes'
  BY <1>1, EntriesKept
<1>7. QED
  BY <1>4, <1>5, <1>6 DEF FramesInv

-----------------------------------------------------------------------------
(* Accesses *)

Tellings == [kind : {"var", "arg"}, offset : Int]

\* _classify_stack_access tells at most one thing of an access.
LEMMA OneTelling ==
    ASSUME FramesInv, NEW base \in {"sp", "fp"}, NEW raw \in Int, NEW depth \in Nat
    PROVE  \/ AccessKind(base, raw, depth) = {}
           \/ \E c \in Tellings : AccessKind(base, raw, depth) = {c}
<1>1. anchor \in Int
  BY FramesTyped, StackFramesAssumption DEF NoPlace
<1>2. raw - anchor \in Int /\ raw - depth \in Int /\ raw - depth + 1 \in Int
  BY <1>1
<1>3. ASSUME NEW kind \in {"var", "arg"}, NEW offset \in Int
      PROVE  \E c \in Tellings : Kind(kind, offset) = {c}
  BY DEF Kind, Tellings
<1>4. \/ FrameRelative(raw) = {}
      \/ \E c \in Tellings : FrameRelative(raw) = {c}
  BY <1>2, <1>3 DEF FrameRelative
<1>5. QED
  BY <1>2, <1>3, <1>4 DEF AccessKind

\* _merge_stack_entry keeps what was listed, or lists the access.
MergedTold(hits, base, raw, size, c, k) ==
    \/ k \in DOMAIN stackEntries /\ Merged(hits, base, raw, size)[k] = stackEntries[k]
    \/ /\ c \in hits /\ k = <<c.kind, base, raw>>
       /\ Merged(hits, base, raw, size)[k] = [offset |-> c.offset, size |-> size]

LEMMA MergedTells ==
    ASSUME FramesInv, NEW base \in {"sp", "fp"}, NEW raw, NEW size,
           NEW c \in Tellings, NEW hits, hits \in {{}, {c}},
           NEW k \in DOMAIN Merged(hits, base, raw, size)
    PROVE  MergedTold(hits, base, raw, size, c, k)
<1> DEFINE key(d) == <<d.kind, base, raw>>
           new == {d \in hits : key(d) \notin DOMAIN stackEntries \/ stackEntries[key(d)].size < size}
           keys == {key(d) : d \in new}
           merged == [l \in DOMAIN stackEntries \cup keys |->
                        IF l \in keys THEN [offset |-> (CHOOSE d \in new : key(d) = l).offset, size |-> size]
                        ELSE stackEntries[l]]
<1>1. Merged(hits, base, raw, size) = merged
  BY DEF Merged
<1>2. k \in DOMAIN stackEntries \cup keys
  BY <1>1
<1>3. CASE k \notin keys
  BY <1>1, <1>2, <1>3 DEF MergedTold
<1>4. CASE k \in keys
  <2>1. PICK d \in new : k = key(d)
    BY <1>4
  <2>2. d = c /\ c \in hits
    BY <2>1
  <2>3. \A e \in new : e = c
    OBVIOUS
  <2>4. (CHOOSE e \in new : key(e) = k) = c
    BY <2>1, <2>2, <2>3
  <2>5. merged[k] = [offset |-> c.offset, size |-> size]
    BY <1>2, <1>4, <2>4
  <2>6. QED
    BY <1>1, <2>1, <2>2, <2>5 DEF MergedTold
<1>5. QED
  BY <1>3, <1>4

\* The same of an access that is skipped while the depth is not known.
LEMMA KeptTells ==
    ASSUME FramesInv, NEW base \in {"sp", "fp"}, NEW raw \in Int, NEW size,
           NEW depth \in Nat, NEW sure \in BOOLEAN,
           NEW k \in DOMAIN Kept(base, raw, size, depth, sure)
    PROVE  \/ k \in DOMAIN stackEntries /\ Kept(base, raw, size, depth, sure)[k] = stackEntries[k]
           \/ \E c \in AccessKind(base, raw, depth) :
                 /\ base = "sp" => sure
                 /\ c \in Tellings /\ k = <<c.kind, base, raw>>
                 /\ Kept(base, raw, size, depth, sure)[k] = [offset |-> c.offset, size |-> size]
<1> DEFINE hits == AccessKind(base, raw, depth)
<1>1. ASSUME base = "sp" /\ ~sure
      PROVE  Kept(base, raw, size, depth, sure) = stackEntries
  BY <1>1 DEF Kept
<1>2. ASSUME ~(base = "sp" /\ ~sure)
      PROVE  Kept(base, raw, size, depth, sure) = Merged(hits, base, raw, size)
  BY <1>2 DEF Kept
<1>3. hits = {} \/ \E c \in Tellings : hits = {c}
  BY OneTelling
<1> HIDE DEF hits
<1>4. ASSUME ~(base = "sp" /\ ~sure)
      PROVE  \/ k \in DOMAIN stackEntries /\ Merged(hits, base, raw, size)[k] = stackEntries[k]
             \/ \E c \in hits :
                   /\ c \in Tellings /\ k = <<c.kind, base, raw>>
                   /\ Merged(hits, base, raw, size)[k] = [offset |-> c.offset, size |-> size]
  <2>1. k \in DOMAIN Merged(hits, base, raw, size)
    BY <1>2, <1>4
  <2>2. \E c \in Tellings : TRUE
    <3>1. [kind |-> "var", offset |-> 0] \in Tellings
      BY DEF Tellings
    <3>2. QED
      BY <3>1
  <2>3. PICK c \in Tellings : hits \in {{}, {c}}
    BY <1>3, <2>2
  <2>4. \/ k \in DOMAIN stackEntries /\ Merged(hits, base, raw, size)[k] = stackEntries[k]
        \/ /\ c \in hits /\ k = <<c.kind, base, raw>>
           /\ Merged(hits, base, raw, size)[k] = [offset |-> c.offset, size |-> size]
    <3>1. MergedTold(hits, base, raw, size, c, k)
      BY <2>1, <2>3, MergedTells
    <3>2. QED
      BY <3>1 DEF MergedTold
  <2>5. QED
    BY <2>4
<1>5. QED
  BY <1>1, <1>2, <1>4 DEF hits

\* What is kept stays typed, and no location is lost or loses size.
LEMMA KeysTyped ==
    ASSUME FramesInv, NEW base \in {"sp", "fp"}, NEW raw \in Int, NEW size \in Nat,
           NEW depth \in Nat, NEW sure \in BOOLEAN,
           NEW k \in DOMAIN Kept(base, raw, size, depth, sure)
    PROVE  /\ k[1] \in {"var", "arg"} /\ k[2] \in {"sp", "fp"}
           /\ Kept(base, raw, size, depth, sure)[k].size \in Nat
<1>1. CASE k \in DOMAIN stackEntries /\ Kept(base, raw, size, depth, sure)[k] = stackEntries[k]
  BY <1>1 DEF FramesInv, FramesTypeOK, Sizes
<1>2. ASSUME NEW c \in Tellings, k = <<c.kind, base, raw>>,
             Kept(base, raw, size, depth, sure)[k] = [offset |-> c.offset, size |-> size]
      PROVE  /\ k[1] \in {"var", "arg"} /\ k[2] \in {"sp", "fp"}
             /\ Kept(base, raw, size, depth, sure)[k].size \in Nat
  BY <1>2 DEF Tellings
<1>3. QED
  BY <1>1, <1>2, KeptTells

LargerAt(k, merged) == k \in DOMAIN merged /\ merged[k].size >= stackEntries[k].size

LEMMA MergedKeeps ==
    ASSUME FramesInv, NEW base \in {"sp", "fp"}, NEW raw, NEW size \in Nat,
           NEW c \in Tellings, NEW hits, hits \in {{}, {c}}, NEW k \in DOMAIN stackEntries
    PROVE  LargerAt(k, Merged(hits, base, raw, size))
<1> DEFINE key(d) == <<d.kind, base, raw>>
           new == {d \in hits : key(d) \notin DOMAIN stackEntries \/ stackEntries[key(d)].size < size}
           keys == {key(d) : d \in new}
           merged == [l \in DOMAIN stackEntries \cup keys |->
                        IF l \in keys THEN [offset |-> (CHOOSE d \in new : key(d) = l).offset, size |-> size]
                        ELSE stackEntries[l]]
<1>1. Merged(hits, base, raw, size) = merged
  BY DEF Merged
<1>2. k \in DOMAIN merged /\ stackEntries[k].size \in Nat
  BY DEF FramesInv, Sizes
<1>3. CASE k \notin keys
  <2>1. LET m == Merged(hits, base, raw, size) IN k \in DOMAIN m /\ m[k] = stackEntries[k]
    BY <1>1, <1>2, <1>3
  <2> HIDE DEF merged, keys, new, key
  <2>2. QED
    BY <1>2, <2>1 DEF LargerAt
<1>4. CASE k \in keys
  <2>1. stackEntries[k].size < size
    BY <1>4
  <2>2. merged[k].size = size
    BY <1>2, <1>4
  <2>3. QED
    BY <1>1, <1>2, <2>1, <2>2 DEF LargerAt
<1>5. QED
  BY <1>3, <1>4

\* What is told of an access is listed, with a size that is not smaller.
ToldAt(k, merged, size) == k \in DOMAIN merged /\ merged[k].size >= size

LEMMA MergedLists ==
    ASSUME FramesInv, NEW base \in {"sp", "fp"}, NEW raw, NEW size \in Nat,
           NEW c \in Tellings
    PROVE  ToldAt(<<c.kind, base, raw>>, Merged({c}, base, raw, size), size)
<1> DEFINE key(d) == <<d.kind, base, raw>>
           new == {d \in {c} : key(d) \notin DOMAIN stackEntries \/ stackEntries[key(d)].size < size}
           keys == {key(d) : d \in new}
           merged == [l \in DOMAIN stackEntries \cup keys |->
                        IF l \in keys THEN [offset |-> (CHOOSE d \in new : key(d) = l).offset, size |-> size]
                        ELSE stackEntries[l]]
           k == <<c.kind, base, raw>>
<1>1. Merged({c}, base, raw, size) = merged
  BY DEF Merged
<1>2. CASE k \in DOMAIN stackEntries /\ ~(stackEntries[k].size < size)
  <2>1. stackEntries[k].size \in Nat
    BY <1>2 DEF FramesInv, Sizes
  <2>2. k \notin keys
    BY <1>2
  <2>3. LET m == Merged({c}, base, raw, size) IN k \in DOMAIN m /\ m[k] = stackEntries[k]
    BY <1>1, <1>2, <2>2
  <2>4. stackEntries[k].size >= size
    BY <1>2, <2>1
  <2> HIDE DEF merged, keys, new, key, k
  <2>5. k \in DOMAIN Merged({c}, base, raw, size) /\ Merged({c}, base, raw, size)[k].size >= size
    BY <2>3, <2>4
  <2>6. QED
    BY <2>5 DEF ToldAt, k
<1>3. CASE k \notin DOMAIN stackEntries \/ stackEntries[k].size < size
  <2>1. c \in new
    BY <1>3
  <2>2. k \in keys
    BY <2>1
  <2>3. PICK value : value = [offset |-> (CHOOSE d \in new : key(d) = k).offset, size |-> size]
    OBVIOUS
  <2> HIDE DEF keys, new, key, k
  <2>4. k \in DOMAIN merged /\ merged[k] = value
    BY <2>2, <2>3
  <2>5. value.size = size
    BY <2>3
  <2> HIDE DEF merged
  <2>6. k \in DOMAIN Merged({c}, base, raw, size) /\ Merged({c}, base, raw, size)[k].size >= size
    BY <1>1, <2>4, <2>5
  <2>7. QED
    BY <2>6 DEF ToldAt, k
<1>4. QED
  BY <1>2, <1>3

LEMMA KeptKeeps ==
    ASSUME FramesInv, NEW base \in {"sp", "fp"}, NEW raw \in Int, NEW size \in Nat,
           NEW depth \in Nat, NEW sure \in BOOLEAN, NEW k \in DOMAIN stackEntries
    PROVE  LargerAt(k, Kept(base, raw, size, depth, sure))
<1> DEFINE hits == AccessKind(base, raw, depth)
<1>1. CASE base = "sp" /\ ~sure
  <2>1. Kept(base, raw, size, depth, sure) = stackEntries /\ stackEntries[k].size \in Nat
    BY <1>1 DEF Kept, FramesInv, Sizes
  <2>2. QED
    BY <2>1 DEF LargerAt
<1>2. CASE ~(base = "sp" /\ ~sure)
  <2>1. Kept(base, raw, size, depth, sure) = Merged(hits, base, raw, size)
    BY <1>2 DEF Kept
  <2>2. hits = {} \/ \E c \in Tellings : hits = {c}
    BY OneTelling
  <2>3. [kind |-> "var", offset |-> 0] \in Tellings
    BY DEF Tellings
  <2> HIDE DEF hits
  <2>4. PICK c \in Tellings : hits \in {{}, {c}}
    BY <2>2, <2>3
  <2>5. LargerAt(k, Merged(hits, base, raw, size))
    BY <2>4, MergedKeeps
  <2>6. QED
    BY <2>1, <2>5
<1>3. QED
  BY <1>1, <1>2

\* A form that is misread, with or without an access.
LEMMA LostSafe ==
    ASSUME FramesInv, abi' = abi, misread' = TRUE,
           NEW estimate \in Nat, NEW sure \in BOOLEAN, NEW real \in 0..Deepest,
           PointerAt(estimate, sure, real),
           UNCHANGED <<anchor, fp, accesses, allocated>>,
           NEW base \in {"sp", "fp"}, NEW raw \in Int, NEW depth \in Nat, NEW certain \in BOOLEAN,
           stackEntries' \in {stackEntries, Kept(base, raw, 1, depth, certain)}
    PROVE  FramesInv'
<1>1. allocated \in BOOLEAN /\ fp \in 0..Deepest \cup {NoPlace} /\ anchor \in 0..Deepest \cup {NoPlace}
  BY FramesTyped
<1>2. /\ \A k \in DOMAIN stackEntries' :
            /\ k[1] \in {"var", "arg"} /\ k[2] \in {"sp", "fp"}
            /\ stackEntries'[k].size \in Nat
  <2>1. CASE stackEntries' = stackEntries
    BY <2>1 DEF FramesInv, FramesTypeOK, Sizes
  <2>2. CASE stackEntries' = Kept(base, raw, 1, depth, certain)
    <3>1. 1 \in Nat
      OBVIOUS
    <3>2. QED
      BY <2>2, <3>1, KeysTyped
  <2>3. QED
    BY <2>1, <2>2
<1>3. adjust' \in Nat /\ frameSize' \in Nat /\ lowest' \in Nat /\ known' \in BOOLEAN /\ sp' \in 0..Deepest
  BY PointersTyped
<1>4. allocated' \in BOOLEAN /\ misread' \in BOOLEAN
  BY <1>1, Zenon
<1>5. FramesTypeOK' /\ (abi \in Abis)' /\ (lowest \in Nat)'
  BY <1>1, <1>2, <1>3, <1>4, TypesKept
<1>6. Sizes'
  BY <1>2 DEF FramesInv, Sizes
<1>7. QED
  BY <1>5, <1>6 DEF FramesInv, InStep, EntriesTrue, FrameWhole

LEMMA MoveAndAccessSafe == FramesInv /\ MoveAndAccess => FramesInv'
<1> SUFFICES ASSUME FramesInv, MoveAndAccess PROVE FramesInv'
  OBVIOUS
<1>1. PICK n \in {-2, -1, 1, 2} :
          /\ sp - n \in 0..Deepest
          /\ PointerAt(AboveZero(adjust - n), known, sp - n)
          /\ stackEntries' = Kept("sp", IF ~X86 /\ n > 0 THEN 0 ELSE n, 1, AboveZero(adjust - n), known)
  BY DEF MoveAndAccess
<1>2. /\ abi' = abi /\ misread' = TRUE /\ UNCHANGED <<anchor, fp, accesses, allocated>>
  BY DEF MoveAndAccess, Fetch
<1>3. adjust \in Nat /\ known \in BOOLEAN
  BY FramesTyped
<1>4. AboveZero(adjust - n) \in Nat
  <2>1. adjust - n \in Int
    BY <1>3
  <2>2. QED
    BY <2>1, AboveZeroIs
<1>5. PICK raw \in Int : raw = IF ~X86 /\ n > 0 THEN 0 ELSE n
  OBVIOUS
<1>6. PICK depth \in Nat : depth = AboveZero(adjust - n)
  BY <1>4
<1>7. stackEntries' = Kept("sp", raw, 1, depth, known) /\ PointerAt(depth, known, sp - n)
  BY <1>1, <1>5, <1>6
<1>8. QED
  BY <1>1, <1>2, <1>3, <1>7, LostSafe

LEMMA RestoreFrameSafe == FramesInv /\ RestoreFrame => FramesInv'
<1> SUFFICES ASSUME FramesInv, RestoreFrame PROVE FramesInv'
  OBVIOUS
<1>1. PICK n \in (-2)..2 :
         /\ fp - n \in 0..Deepest
         /\ PointerAt(DepthRestored(n), KnownRestored(n), fp - n)
         /\ stackEntries' = IF X86 /\ n # 0 THEN Kept("fp", n, 1, adjust, FALSE) ELSE stackEntries
         /\ misread' = ((X86 /\ n # 0) \/ DepthRestored(n) # fp - n)
  BY DEF RestoreFrame
<1>2. ~misread /\ UNCHANGED <<abi, anchor, fp, accesses, allocated>>
  BY DEF RestoreFrame, Fetch
<1>3. adjust \in Nat /\ known \in BOOLEAN /\ allocated \in BOOLEAN /\ (known \/ allocated) /\ (~Bounded => known)
  BY <1>2, FramesTyped DEF FramesInv, InStep
<1>4. PICK depth \in Nat : depth = DepthRestored(n)
  <2>1. adjust - n \in Int
    BY <1>3
  <2>2. DepthRestored(n) \in Nat
    BY <1>3, <2>1, AboveZeroIs DEF DepthRestored
  <2>3. QED
    BY <2>2
<1>5. PICK sure \in BOOLEAN : sure = KnownRestored(n)
  <2>1. KnownRestored(n) \in {TRUE, FALSE, known}
    BY DEF KnownRestored
  <2>2. KnownRestored(n) \in BOOLEAN
    BY <1>3, <2>1, Zenon
  <2>3. QED
    BY <2>2
<1>6. PointerAt(depth, sure, fp - n)
  BY <1>1, <1>4, <1>5
<1>7. CASE misread' = TRUE
  <2>1. stackEntries' \in {stackEntries, Kept("fp", n, 1, adjust, FALSE)}
    BY <1>1
  <2>2. n \in Int /\ FALSE \in BOOLEAN
    OBVIOUS
  <2>3. QED
    BY <1>1, <1>2, <1>3, <1>6, <1>7, <2>1, <2>2, LostSafe
<1>8. CASE misread' = FALSE
  <2>1. ~(X86 /\ n # 0) /\ depth = fp - n /\ stackEntries' = stackEntries
    BY <1>1, <1>4, <1>8
  <2>2. (sure \/ allocated) /\ (~Bounded => sure)
    BY <1>3, <1>5, <2>1 DEF KnownRestored
  <2>3. depth <= fp - n
    BY <2>1
  <2>4. allocated' \in BOOLEAN /\ misread' \in BOOLEAN /\ (sure \/ allocated')
    BY <1>2, <1>3, <1>8, <2>2, Zenon
  <2>5. QED
    BY <1>1, <1>2, <1>6, <1>8, <2>1, <2>2, <2>3, <2>4, MovedSafe
<1>9. misread' \in BOOLEAN
  BY <1>1
<1>10. QED
  BY <1>7, <1>8, <1>9

\* What the analysis tells of an access, while its depth is known and its frame
\* pointer is where it believes, is where the access goes.
LEMMA ToldTrue ==
    ASSUME FramesInv, ~misread, NEW base \in {"sp", "fp"}, NEW raw \in Int, NEW size,
           base = "fp" => fp # NoPlace, base = "sp" => known,
           NEW c \in AccessKind(base, raw, adjust)
    PROVE  TrueOf(<<c.kind, base, raw>>, [offset |-> c.offset, size |-> size],
                  [base |-> base, raw |-> raw, size |-> size, at |-> Place(base, raw, sp), sure |-> known])
<1> DEFINE k == <<c.kind, base, raw>>
           at == Place(base, raw, sp)
<1>1. SUFFICES /\ IF c.kind = "arg" THEN at >= FirstArg ELSE at < 0
               /\ (X86 /\ c.kind = "arg") => c.offset = at + 1
               /\ (c.kind = "var" /\ (base = "sp" \/ raw >= 0)) => c.offset = at
  BY DEF TrueOf
<1>2. /\ FirstArg \in Nat /\ ArgStart \in Nat \ {0}
      /\ X86 => ArgStart = FirstArg + 1
      /\ ~X86 => FirstArg = 0
  BY ArgsStart
<1>3. ASSUME base = "sp"
      PROVE  /\ IF c.kind = "arg" THEN at >= FirstArg ELSE at < 0
             /\ (X86 /\ c.kind = "arg") => c.offset = at + 1
             /\ c.kind = "var" => c.offset = at
  <2>1. adjust = sp /\ sp \in Nat
    BY <1>3, FramesTyped DEF FramesInv, InStep
  <2>2. at = raw - adjust /\ raw - adjust \in Int
    BY <1>3, <2>1 DEF Place
  <2>3. \/ at < 0 /\ c = [kind |-> "var", offset |-> at]
        \/ at >= 0 /\ ~X86 /\ c = [kind |-> "arg", offset |-> at]
        \/ at >= 0 /\ X86 /\ at + 1 >= ArgStart /\ c = [kind |-> "arg", offset |-> at + 1]
    BY <1>3, <2>2 DEF AccessKind, Kind
  <2>4. QED
    BY <1>2, <2>2, <2>3
<1>4. ASSUME base = "fp"
      PROVE  /\ IF c.kind = "arg" THEN at >= FirstArg ELSE at < 0
             /\ (X86 /\ c.kind = "arg") => c.offset = at + 1
             /\ (c.kind = "var" /\ raw >= 0) => c.offset = at
  <2>1. at = raw - fp /\ fp \in Nat
    BY <1>4, FramesTyped DEF Place
  <2>2. c \in FrameRelative(raw)
    BY <1>4 DEF AccessKind
  <2>3. CASE X86
    <3>1. fp = 1 /\ anchor = NoPlace
      BY <1>4, <2>3 DEF FramesInv, InStep, X86, Anchored, UsualFrame
    <3>2. \/ raw < 0 /\ c = [kind |-> "var", offset |-> raw]
          \/ raw >= ArgStart /\ c = [kind |-> "arg", offset |-> raw]
      BY <2>2, <3>1 DEF FrameRelative, FrameArgStart, Kind
    <3>3. QED
      BY <1>2, <2>1, <2>3, <3>1, <3>2
  <2>4. CASE Anchored
    <3>1. anchor = fp /\ anchor # NoPlace /\ ~X86
      BY <1>4, <2>4 DEF FramesInv, InStep, Anchored, X86
    <3>2. \/ raw < 0 /\ c.kind = "var"
          \/ raw >= fp /\ c.kind = "arg"
          \/ ~(raw >= fp) /\ c = [kind |-> "var", offset |-> raw - fp]
      BY <2>2, <3>1 DEF FrameRelative, FrameArgStart, Kind
    <3>3. QED
      BY <1>2, <2>1, <3>1, <3>2
  <2>5. CASE ~X86 /\ ~Anchored
    <3>1. anchor = NoPlace /\ fp = 0 /\ abi.family # "arm"
      BY <1>4, <2>5 DEF FramesInv, InStep, X86, Anchored, UsualFrame
    <3>2. \/ raw < 0 /\ c.kind = "var"
          \/ raw >= ArgStart /\ c.kind = "arg"
      BY <2>2, <3>1, FramesTyped DEF FrameRelative, FrameArgStart, Kind
    <3>3. QED
      BY <1>2, <2>1, <2>5, <3>1, <3>2
  <2>6. QED
    BY <2>3, <2>4, <2>5
<1>5. QED
  BY <1>3, <1>4

\* What is not left out is told, on its side of the return address.
LEMMA ToldOf ==
    ASSUME FramesInv, ~misread, NEW base \in {"sp", "fp"}, NEW raw \in Int, NEW size \in Nat,
           base = "fp" => fp # NoPlace,
           NEW a, a = [base |-> base, raw |-> raw, size |-> size, at |-> Place(base, raw, sp), sure |-> known],
           ~LeftOut(a)
    PROVE  /\ base = "sp" => known
           /\ \E c \in Tellings : AccessKind(base, raw, adjust) = {c} /\ <<c.kind, base, raw>> = Location(a)
<1>1. /\ FirstArg \in Nat /\ ArgStart \in Nat \ {0}
      /\ X86 => ArgStart = FirstArg + 1
      /\ ~X86 => FirstArg = 0 /\ ArgStart = 2
  BY ArgsStart
<1>2. /\ base = "sp" => known
      /\ a.at < 0 \/ a.at >= FirstArg
      /\ base = "fp" /\ raw >= 0 /\ a.at < 0 => abi.r7
      /\ base = "fp" /\ abi.family = "riscv" => raw \notin {0, 1}
  <2>1. a.at = Place(base, raw, sp) /\ Place(base, raw, sp) \in Int
    BY FramesTyped, StackFramesAssumption DEF Place, NoPlace
  <2>2. QED
    BY <1>1, <2>1 DEF LeftOut
<1>3. ASSUME NEW kind \in {"var", "arg"}, NEW offset \in Int
      PROVE  [kind |-> kind, offset |-> offset] \in Tellings
  BY DEF Tellings
<1>4. Location(a) = <<IF a.at < 0 THEN "var" ELSE "arg", base, raw>>
  BY DEF Location
<1>5. CASE base = "sp"
  <2>1. adjust = sp /\ sp \in Nat
    BY <1>2, <1>5, FramesTyped DEF FramesInv, InStep
  <2>2. a.at = raw - adjust /\ raw - adjust \in Int /\ raw - adjust + 1 \in Int
    BY <1>5, <2>1 DEF Place
  <2>3. CASE a.at < 0
    <3>1. AccessKind(base, raw, adjust) = {[kind |-> "var", offset |-> raw - adjust]}
      BY <1>5, <2>2, <2>3 DEF AccessKind, Kind
    <3>2. QED
      BY <1>2, <1>3, <1>4, <2>2, <2>3, <3>1
  <2>4. CASE ~(a.at < 0) /\ X86
    <3>1. AccessKind(base, raw, adjust) = {[kind |-> "arg", offset |-> raw - adjust + 1]}
      BY <1>1, <1>2, <1>5, <2>2, <2>4 DEF AccessKind, Kind
    <3>2. QED
      BY <1>2, <1>3, <1>4, <2>2, <2>4, <3>1
  <2>5. CASE ~(a.at < 0) /\ ~X86
    <3>1. AccessKind(base, raw, adjust) = {[kind |-> "arg", offset |-> raw - adjust]}
      BY <1>5, <2>2, <2>5 DEF AccessKind, Kind
    <3>2. QED
      BY <1>2, <1>3, <1>4, <2>2, <2>5, <3>1
  <2>6. QED
    BY <2>3, <2>4, <2>5
<1>6. CASE base = "fp"
  <2>1. a.at = raw - fp /\ fp \in Nat
    BY <1>6, FramesTyped DEF Place
  <2>2. AccessKind(base, raw, adjust) = FrameRelative(raw)
    BY <1>6 DEF AccessKind
  <2>3. CASE X86
    <3>1. fp = 1 /\ anchor = NoPlace /\ ~abi.r7
      BY <1>6, <2>3, FramesTyped DEF FramesInv, InStep, X86, Anchored, UsualFrame
    <3>2. CASE a.at < 0
      <4>1. raw < 0
        BY <1>2, <1>6, <3>1, <3>2
      <4>2. FrameRelative(raw) = {[kind |-> "var", offset |-> raw]}
        BY <4>1 DEF FrameRelative, Kind
      <4>3. QED
        BY <1>2, <1>3, <1>4, <1>6, <2>2, <3>2, <4>2
    <3>3. CASE ~(a.at < 0)
      <4>1. raw >= ArgStart /\ ~(raw < 0)
        BY <1>1, <1>2, <2>1, <2>3, <3>1, <3>3
      <4>2. FrameRelative(raw) = {[kind |-> "arg", offset |-> raw]}
        BY <3>1, <4>1 DEF FrameRelative, FrameArgStart, Kind
      <4>3. QED
        BY <1>2, <1>3, <1>4, <1>6, <2>2, <3>3, <4>2
    <3>4. QED
      BY <3>2, <3>3
  <2>4. CASE Anchored
    <3>1. anchor = fp /\ anchor # NoPlace /\ ~X86 /\ anchor \in Nat
      BY <1>6, <2>1, <2>4 DEF FramesInv, InStep, Anchored, X86
    <3>2. CASE raw < 0
      <4>1. FrameRelative(raw) = {[kind |-> "var", offset |-> raw]} /\ a.at < 0
        BY <2>1, <3>2 DEF FrameRelative, Kind
      <4>2. QED
        BY <1>2, <1>3, <1>4, <1>6, <2>2, <4>1
    <3>3. CASE raw >= fp
      <4>1. FrameRelative(raw) = {[kind |-> "arg", offset |-> raw]} /\ ~(a.at < 0)
        BY <2>1, <3>1, <3>3 DEF FrameRelative, FrameArgStart, Kind
      <4>2. QED
        BY <1>2, <1>3, <1>4, <1>6, <2>2, <4>1
    <3>4. CASE ~(raw < 0) /\ ~(raw >= fp)
      <4>1. a.at < 0 /\ abi.r7
        BY <1>2, <1>6, <2>1, <3>4
      <4>2. FrameRelative(raw) = {[kind |-> "var", offset |-> raw - anchor]}
        BY <3>1, <3>4, <4>1 DEF FrameRelative, FrameArgStart, Kind
      <4>3. raw - anchor \in Int
        BY <3>1
      <4>4. QED
        BY <1>2, <1>3, <1>4, <1>6, <2>2, <4>1, <4>2, <4>3
    <3>5. QED
      BY <3>2, <3>3, <3>4
  <2>5. CASE ~X86 /\ ~Anchored
    <3>1. anchor = NoPlace /\ fp = 0 /\ abi.family = "riscv"
      BY <1>6, <2>5, FramesTyped DEF FramesInv, InStep, X86, Anchored, UsualFrame, Families
    <3>2. CASE raw < 0
      <4>1. FrameRelative(raw) = {[kind |-> "var", offset |-> raw]} /\ a.at < 0
        BY <2>1, <3>1, <3>2 DEF FrameRelative, Kind
      <4>2. QED
        BY <1>2, <1>3, <1>4, <1>6, <2>2, <4>1
    <3>3. CASE ~(raw < 0)
      <4>1. raw >= 2 /\ ~(a.at < 0)
        BY <1>2, <1>6, <2>1, <3>1, <3>3
      <4>2. FrameRelative(raw) = {[kind |-> "arg", offset |-> raw]}
        BY <1>1, <2>5, <3>1, <4>1 DEF FrameRelative, FrameArgStart, Kind
      <4>3. QED
        BY <1>2, <1>3, <1>4, <1>6, <2>2, <4>1, <4>2
    <3>4. QED
      BY <3>2, <3>3
  <2>6. QED
    BY <2>3, <2>4, <2>5
<1>7. QED
  BY <1>5, <1>6

LEMMA AccessSafe == FramesInv /\ Access => FramesInv'
<1> SUFFICES ASSUME FramesInv, Access PROVE FramesInv'
  OBVIOUS
<1>1. PICK base \in {"sp"} \cup (IF fp = NoPlace THEN {} ELSE {"fp"}),
           raw \in (-2)..(Deepest + 6), size \in {1, 2} :
         /\ stackEntries' = Kept(base, raw, size, adjust, known)
         /\ accesses' = accesses \cup
                {[base |-> base, raw |-> raw, size |-> size, at |-> Place(base, raw, sp), sure |-> known]}
  BY DEF Access
<1>2. /\ ~misread /\ UNCHANGED <<abi, anchor, fp, allocated, misread>>
      /\ UNCHANGED <<adjust, known, frameSize, sp, lowest>>
  BY DEF Access, Fetch, Still
<1>3. /\ adjust \in Nat /\ frameSize \in Nat /\ lowest \in Nat /\ Deepest \in Nat
      /\ sp \in 0..Deepest /\ fp \in 0..Deepest \cup {NoPlace} /\ anchor \in 0..Deepest \cup {NoPlace}
  BY FramesTyped
<1>4. known \in BOOLEAN /\ allocated \in BOOLEAN /\ misread \in BOOLEAN
  BY FramesTyped
<1>5. base \in {"sp", "fp"} /\ (base = "fp" => fp # NoPlace) /\ raw \in Int
  BY <1>1, <1>3
<1>51. size \in Nat
  BY <1>1
<1>6. \A k \in DOMAIN stackEntries' :
          k[1] \in {"var", "arg"} /\ k[2] \in {"sp", "fp"} /\ stackEntries'[k].size \in Nat
  BY <1>1, <1>3, <1>4, <1>5, <1>51, KeysTyped
<1>7. known' \in BOOLEAN /\ allocated' \in BOOLEAN /\ misread' \in BOOLEAN
  BY <1>2, <1>4
<1>8. FramesTypeOK' /\ (abi \in Abis)' /\ (lowest \in Nat)'
  BY <1>2, <1>3, <1>6, <1>7, TypesKept
<1>9. InStep'
  <2>1. SameFamily
    BY <1>2, FamilyKept
  <2>2. QED
    BY <1>2, <2>1 DEF FramesInv, InStep, SameFamily
<1>10. EntriesTrue'
  <2> DEFINE mine == [base |-> base, raw |-> raw, size |-> size, at |-> Place(base, raw, sp), sure |-> known]
  <2>1. ASSUME NEW k \in DOMAIN stackEntries'
        PROVE  \E a \in accesses' : TrueOf(k, stackEntries'[k], a)
    <3>1. ASSUME k \in DOMAIN stackEntries, stackEntries'[k] = stackEntries[k]
          PROVE  \E a \in accesses' : TrueOf(k, stackEntries'[k], a)
      <4>1. \E a \in accesses : TrueOf(k, stackEntries[k], a)
        BY <1>2, <3>1 DEF FramesInv, EntriesTrue
      <4>2. accesses \subseteq accesses'
        BY <1>1
      <4>3. QED
        BY <3>1, <4>1, <4>2
    <3>2. ASSUME NEW c \in AccessKind(base, raw, adjust), base = "sp" => known,
                 k = <<c.kind, base, raw>>, stackEntries'[k] = [offset |-> c.offset, size |-> size]
          PROVE  \E a \in accesses' : TrueOf(k, stackEntries'[k], a)
      <4>1. TrueOf(k, stackEntries'[k], mine)
        BY <1>2, <1>5, <3>2, ToldTrue
      <4>2. mine \in accesses'
        BY <1>1
      <4>3. QED
        BY <4>1, <4>2
    <3>3. k \in DOMAIN Kept(base, raw, size, adjust, known)
      BY <1>1
    <3>4. QED
      BY <1>1, <1>3, <1>4, <1>5, <3>1, <3>2, <3>3, KeptTells
  <2>2. FirstArg' = FirstArg /\ (X86' <=> X86)
    BY <1>2 DEF FirstArg, X86
  <2>3. QED
    BY <2>1, <2>2 DEF EntriesTrue, TrueOf
<1>11. FrameWhole'
  <2>1. \A k \in DOMAIN stackEntries : LargerAt(k, stackEntries')
    BY <1>1, <1>3, <1>4, <1>5, <1>51, KeptKeeps
  <2>2. PICK new : new = [base |-> base, raw |-> raw, size |-> size, at |-> Place(base, raw, sp), sure |-> known]
    OBVIOUS
  <2>3. SUFFICES ASSUME NEW a \in accesses', ~LeftOut(a)
                 PROVE  IsListed(a)'
    <3>1. SameFamily
      BY <1>2, FamilyKept
    <3>2. ASSUME NEW a \in accesses'
          PROVE  LeftOut(a)' \/ IsListed(a)'
      BY <2>3, <3>1, <3>2 DEF SameFamily
    <3>3. QED
      BY <3>2 DEF FrameWhole
  <2>4. CASE a \in accesses
    <3>1. Location(a) \in DOMAIN stackEntries /\ stackEntries[Location(a)].size >= a.size
      BY <1>2, <2>3, <2>4 DEF FramesInv, FrameWhole, IsListed
    <3>2. Location(a) \in DOMAIN stackEntries' /\ stackEntries'[Location(a)].size >= stackEntries[Location(a)].size
      BY <2>1, <3>1 DEF LargerAt
    <3>3. a.size \in Nat /\ stackEntries[Location(a)].size \in Nat /\ stackEntries'[Location(a)].size \in Nat
      BY <1>6, <2>4, <3>1, <3>2 DEF FramesInv, Sizes
    <3>4. QED
      BY <3>1, <3>2, <3>3 DEF IsListed
  <2>5. CASE a = new
    <3>1. base = "sp" => known
      BY <1>2, <1>5, <1>51, <2>2, <2>3, <2>5, ToldOf
    <3>2. PICK c \in Tellings : AccessKind(base, raw, adjust) = {c} /\ <<c.kind, base, raw>> = Location(a)
      BY <1>2, <1>5, <1>51, <2>2, <2>3, <2>5, ToldOf
    <3>3. stackEntries' = Merged({c}, base, raw, size)
      BY <1>1, <3>1, <3>2 DEF Kept
    <3>4. ToldAt(Location(a), stackEntries', size)
      <4>1. ToldAt(<<c.kind, base, raw>>, Merged({c}, base, raw, size), size)
        BY <1>5, <1>51, MergedLists
      <4>2. QED
        BY <3>2, <3>3, <4>1
    <3>5. a.size = size
      BY <2>2, <2>5
    <3>6. QED
      BY <3>4, <3>5 DEF ToldAt, IsListed
  <2>6. a \in accesses \/ a = new
    BY <1>1, <2>2, <2>3
  <2>7. QED
    BY <2>4, <2>5, <2>6
<1>12. Sizes'
  <2>1. \A a \in accesses' : a.size \in Nat
    BY <1>1, <1>51 DEF FramesInv, Sizes
  <2>2. QED
    BY <1>6, <2>1 DEF Sizes
<1>13. QED
  BY <1>8, <1>9, <1>10, <1>11, <1>12 DEF FramesInv

-----------------------------------------------------------------------------
LEMMA FramesStart == FramesInit => FramesInv
<1> SUFFICES ASSUME FramesInit PROVE FramesInv
  OBVIOUS
<1>1. known \in BOOLEAN /\ allocated \in BOOLEAN /\ misread \in BOOLEAN
  BY DEF FramesInit
<1>2. DOMAIN stackEntries = {}
  BY DEF FramesInit
<1>3. Deepest \in Nat /\ abi.family \in Families
  BY StackFramesAssumption DEF FramesInit
<1>4. FramesTypeOK
  BY <1>1, <1>2, <1>3 DEF FramesInit, FramesTypeOK
<1>5. InStep
  BY <1>3 DEF FramesInit, InStep
<1>6. EntriesTrue
  BY <1>2 DEF EntriesTrue
<1>7. FrameWhole /\ Sizes
  BY <1>2 DEF FramesInit, FrameWhole, Sizes
<1>8. QED
  BY <1>4, <1>5, <1>6, <1>7 DEF FramesInit, FramesInv

LEMMA FramesStep == FramesInv /\ [FramesNext]_frameVars => FramesInv'
<1> SUFFICES ASSUME FramesInv, [FramesNext]_frameVars PROVE FramesInv'
  OBVIOUS
<1>1. ASSUME UNCHANGED frameVars
      PROVE  FramesInv'
  <2>1. SameFamily /\ UNCHANGED <<abi, stackEntries, accesses, misread>>
    BY <1>1, FamilyKept DEF frameVars
  <2>2. FramesTypeOK' /\ (abi \in Abis)' /\ (lowest \in Nat)' /\ Sizes'
    BY <1>1 DEF frameVars, FramesInv, FramesTypeOK, Sizes
  <2>3. InStep'
    BY <1>1, <2>1 DEF frameVars, FramesInv, InStep, SameFamily
  <2>4. EntriesTrue'
    BY <2>1 DEF FramesInv, EntriesTrue, TrueOf, SameFamily
  <2>5. FrameWhole'
    <3>1. SUFFICES ASSUME ~misread', NEW a \in accesses'
                   PROVE  (LeftOut(a) \/ IsListed(a))'
      BY DEF FrameWhole
    <3>2. LeftOut(a) \/ IsListed(a)
      BY <2>1, <3>1 DEF FramesInv, FrameWhole
    <3>3. IsListed(a)' <=> IsListed(a)
      BY <2>1 DEF IsListed
    <3>4. QED
      BY <2>1, <3>2, <3>3 DEF SameFamily
  <2>6. QED
    BY <2>2, <2>3, <2>4, <2>5 DEF FramesInv
<1>2. QED
  BY <1>1, DownSafe, UpSafe, AllocateSafe, MovesUnseenSafe, AlignSafe, MoveAndAccessSafe, SetFrameSafe,
     RestoreFrameSafe, LeaveSafe, ReturnSafe, AccessSafe DEF FramesNext

LEMMA FramesInductive == FramesSpec => []FramesInv
  BY FramesStart, FramesStep, PTL DEF FramesSpec

\* For every calling convention, any depth and any instructions: what the analysis
\* tells of a frame has its type, and unless the function uses a form it misreads, the
\* size is how deep the stack has been, every variable and argument listed is an
\* access that was made, on its side of the return address, and every access is listed
\* but the ones it leaves out (LeftOut).
THEOREM FramesAreTold == FramesSpec => []FrameTold
<1>1. FramesInv => FrameTold
  <2> SUFFICES ASSUME FramesInv PROVE FrameTold
    OBVIOUS
  <2>1. FramesTypeOK
    BY DEF FramesInv
  <2>2. ~misread => frameSize <= lowest /\ (frameSize = lowest \/ allocated)
    BY DEF FramesInv, InStep
  <2>3. ~misread => \A k \in DOMAIN stackEntries : \E a \in accesses : TrueOf(k, stackEntries[k], a)
    BY DEF FramesInv, EntriesTrue
  <2>4. FrameRead
    BY <2>2, <2>3 DEF FrameRead, TrueOf
  <2>5. FrameWhole
    BY DEF FramesInv
  <2>6. QED
    BY <2>1, <2>4, <2>5 DEF FrameTold
<1>2. QED
  BY <1>1, FramesInductive, PTL

-----------------------------------------------------------------------------
(* The cache of results *)

\* Every set of numbers has a least one.
LEMMA LeastNumber ==
    ASSUME NEW T \in SUBSET Nat, T # {}
    PROVE  \E n \in T : \A m \in T : n <= m
<1>1. \E n \in T : \A m \in T : ~(<<m, n>> \in OpToRel(<, Nat))
  BY NatLessThanWellFounded, WFMin
<1>2. PICK n \in T : \A m \in T : ~(<<m, n>> \in OpToRel(<, Nat))
  BY <1>1
<1>3. ASSUME NEW m \in T
      PROVE  n <= m
  <2>1. ~(m < n)
    BY <1>2, <1>3 DEF OpToRel
  <2>2. QED
    BY <2>1, <1>3
<1>4. QED
  BY <1>3

\* A finite set of numbers can be listed upwards; this is the order that KeptBut chooses.
Upwards(s, n) == \A i, j \in 1..n : i < j => s[i] < s[j]
Listed(S) == \E s \in [1..Cardinality(S) -> S] : Upwards(s, Cardinality(S))

LEMMA ListedEmpty == Listed({})
<1>1. Cardinality({}) = 0
  BY FS_EmptySet
<1>2. 1..0 = {}
  OBVIOUS
<1>3. [i \in {} |-> i] \in [1..0 -> {}] /\ Upwards([i \in {} |-> i], 0)
  BY <1>2 DEF Upwards
<1>4. QED
  BY <1>1, <1>3 DEF Listed

\* A new first number in front.
LEMMA ListedMore ==
    ASSUME NEW S \in SUBSET Nat, IsFiniteSet(S), NEW x \in S, \A y \in S : x <= y, Listed(S \ {x})
    PROVE  Listed(S)
<1> DEFINE n == Cardinality(S \ {x})
<1>1. /\ IsFiniteSet(S \ {x}) /\ n \in Nat /\ Cardinality(S) = n + 1
  <2>1. IsFiniteSet(S \ {x}) /\ n = Cardinality(S) - 1
    BY FS_RemoveElement
  <2>2. n \in Nat /\ Cardinality(S) \in Nat
    BY <2>1, FS_CardinalityType
  <2>3. QED
    BY <2>1, <2>2
<1>2. PICK s \in [1..n -> S \ {x}] : Upwards(s, n)
  BY DEF Listed
<1> HIDE DEF n
<1> DEFINE t == [i \in 1..(n + 1) |-> IF i = 1 THEN x ELSE s[i - 1]]
<1>3. \A i \in 1..(n + 1) : i # 1 => i - 1 \in 1..n /\ s[i - 1] \in S /\ s[i - 1] # x
  BY <1>1, <1>2
<1>4. t \in [1..(n + 1) -> S]
  BY <1>3
<1>5. ASSUME NEW i \in 1..(n + 1), NEW j \in 1..(n + 1), i < j
      PROVE  t[i] < t[j]
  <2> i \in Nat /\ j \in Nat /\ 1 <= i
    BY <1>1
  <2>0. j # 1
    BY <1>5
  <2>1. j # 1 /\ t[j] = s[j - 1] /\ s[j - 1] \in Nat /\ j - 1 \in 1..n
    BY <1>3, <2>0
  <2>2. CASE i = 1
    <3>1. t[i] = x /\ x <= s[j - 1] /\ x # s[j - 1] /\ x \in Nat
      BY <1>3, <2>1, <2>2
    <3>2. QED
      BY <2>1, <3>1
  <2>3. CASE i # 1
    <3>1. t[i] = s[i - 1] /\ i - 1 \in 1..n /\ i - 1 < j - 1
      BY <1>1, <1>3, <1>5, <2>3
    <3>2. s[i - 1] < s[j - 1]
      BY <1>2, <2>1, <3>1 DEF Upwards
    <3>3. QED
      BY <2>1, <3>1, <3>2
  <2>4. QED
    BY <2>2, <2>3
<1> HIDE DEF t
<1>6. Upwards(t, n + 1)
  BY <1>5 DEF Upwards
<1>7. QED
  BY <1>1, <1>4, <1>6 DEF Listed

LEMMA NumbersListed ==
    ASSUME NEW S \in SUBSET Nat, IsFiniteSet(S)
    PROVE  Listed(S)
<1> DEFINE Bad(n) == \E R \in SUBSET Nat : IsFiniteSet(R) /\ Cardinality(R) = n /\ ~Listed(R)
           T == {n \in Nat : Bad(n)}
<1>1. SUFFICES ASSUME T # {}
               PROVE  FALSE
  <2>1. Cardinality(S) \in Nat
    BY FS_CardinalityType
  <2>2. QED
    BY <1>1, <2>1
<1>2. PICK n \in T : \A m \in T : n <= m
  <2>1. T \in SUBSET Nat
    OBVIOUS
  <2>2. QED
    BY <1>1, <2>1, LeastNumber
<1>3. PICK R \in SUBSET Nat : IsFiniteSet(R) /\ Cardinality(R) = n /\ ~Listed(R)
  BY <1>2
<1>4. R # {}
  BY <1>3, ListedEmpty
<1>5. PICK x \in R : \A y \in R : x <= y
  BY <1>3, <1>4, LeastNumber
<1>6. IsFiniteSet(R \ {x}) /\ Cardinality(R \ {x}) = n - 1 /\ Cardinality(R \ {x}) \in Nat
  BY <1>3, <1>5, FS_RemoveElement, FS_CardinalityType
<1>7. CASE Listed(R \ {x})
  BY <1>3, <1>5, <1>7, ListedMore
<1>8. CASE ~Listed(R \ {x})
  <2>1. n - 1 \in T
    BY <1>3, <1>6, <1>8
  <2>2. n - 1 < n
    BY <1>2
  <2>3. n <= n - 1
    BY <1>2, <2>1
  <2>4. QED
    BY <1>2, <2>2, <2>3
<1>9. QED
  BY <1>7, <1>8

\* Such a list has every number of the set.
LEMMA ListedAll ==
    ASSUME NEW S \in SUBSET Nat, IsFiniteSet(S), NEW s \in [1..Cardinality(S) -> S],
           Upwards(s, Cardinality(S)), NEW x \in S
    PROVE  \E i \in 1..Cardinality(S) : s[i] = x
<1> DEFINE n == Cardinality(S)
           T == {s[i] : i \in 1..n}
<1>1. n \in Nat /\ T \in SUBSET S
  BY FS_CardinalityType
<1>2. \A i, j \in 1..n : s[i] = s[j] => i = j
  <2>1. ASSUME NEW i \in 1..n, NEW j \in 1..n, s[i] = s[j], i # j
        PROVE  FALSE
    <3>1. s[i] \in Nat /\ (i < j \/ j < i)
      <4>1. s[i] \in S
        OBVIOUS
      <4>2. i \in Int /\ j \in Int
        BY <1>1
      <4>3. i < j \/ j < i
        BY <2>1, <4>2
      <4>4. QED
        BY <4>1, <4>3
    <3>2. s[i] < s[j] \/ s[j] < s[i]
      BY <2>1, <3>1 DEF Upwards
    <3>3. QED
      BY <2>1, <3>1, <3>2
  <2>2. QED
    BY <2>1
<1>3. ExistsBijection(1..n, T)
  <2>1. s \in [1..n -> T] /\ (\A t \in T : \E i \in 1..n : s[i] = t)
    <3>1. \A i \in 1..n : s[i] \in T
      OBVIOUS
    <3>2. DOMAIN s = 1..n /\ s = [i \in 1..n |-> s[i]]
      OBVIOUS
    <3>3. s \in [1..n -> T]
      BY <3>1, <3>2
    <3>4. QED
      BY <3>3
  <2> HIDE DEF T
  <2>2. s \in Bijection(1..n, T)
    BY <1>2, <2>1 DEF Bijection, Injection, Surjection, IsInjective
  <2>3. QED
    BY <2>2 DEF ExistsBijection
<1>4. Cardinality(T) = n
  BY <1>1, <1>3, FS_CountingElements
<1>5. T = S
  BY <1>1, <1>4, FS_Subset
<1>6. QED
  BY <1>5

\* The rows that a deletion leaves, and where they were.
KeptBy(gone, n, order) ==
    /\ order \in [1..n -> DOMAIN entries]
    /\ KeptBut(gone) = [k \in 1..n |-> entries[order[k]]]
    /\ Upwards(order, n)
    /\ \A k \in 1..n : entries[order[k]] \notin gone
    /\ \A i \in DOMAIN entries : entries[i] \notin gone => \E k \in 1..n : order[k] = i

LEMMA KeptIs ==
    ASSUME NEW T, entries \in Seq(T), NEW gone
    PROVE  \E n \in Nat : \E order : KeptBy(gone, n, order)
<1> DEFINE kept == {i \in DOMAIN entries : entries[i] \notin gone}
           n == Cardinality(kept)
           order == CHOOSE s \in [1..n -> kept] : Upwards(s, n)
<1>1. /\ DOMAIN entries = 1..Len(entries) /\ Len(entries) \in Nat
  OBVIOUS
<1>2. kept \in SUBSET Nat /\ IsFiniteSet(kept)
  <2>1. IsFiniteSet(1..Len(entries))
    BY <1>1, FS_Interval
  <2>2. QED
    BY <1>1, <2>1, FS_Subset
<1>3. n \in Nat
  BY <1>2, FS_CardinalityType
<1>4. Listed(kept)
  BY <1>2, NumbersListed
<1>5. KeptBut(gone) = [k \in 1..n |-> entries[order[k]]]
  BY DEF KeptBut, Upwards
<1> HIDE DEF kept
<1>6. order \in [1..n -> kept] /\ Upwards(order, n)
  BY <1>4 DEF Listed
<1> HIDE DEF order
<1>7. \A i \in kept : \E k \in 1..n : order[k] = i
  BY <1>2, <1>6, ListedAll
<1>8. /\ \A i : i \in kept <=> (i \in DOMAIN entries /\ entries[i] \notin gone)
  BY DEF kept
<1> HIDE DEF n
<1>9. order \in [1..n -> DOMAIN entries] /\ \A k \in 1..n : entries[order[k]] \notin gone
  BY <1>6, <1>8
<1>10. KeptBy(gone, n, order)
  BY <1>5, <1>6, <1>7, <1>8, <1>9 DEF KeptBy
<1>11. QED
  BY <1>3, <1>10

OneOfAKey(seq) == \A i, j \in DOMAIN seq : seq[i].key = seq[j].key => i = j

LEMMA KeptFacts ==
    ASSUME NEW T, entries \in Seq(T), NEW gone
    PROVE  /\ KeptBut(gone) \in Seq(T)
           /\ \A e : e \in Range(KeptBut(gone)) <=> e \in Range(entries) /\ e \notin gone
           /\ OneOfAKey(entries) => OneOfAKey(KeptBut(gone))
<1>1. PICK n \in Nat : \E order : KeptBy(gone, n, order)
  BY KeptIs
<1>2. PICK order : KeptBy(gone, n, order)
  BY <1>1
<1> DEFINE left == KeptBut(gone)
<1>3. /\ DOMAIN left = 1..n /\ \A k \in 1..n : left[k] = entries[order[k]] /\ order[k] \in DOMAIN entries
  BY <1>2 DEF KeptBy
<1>4. left \in Seq(T)
  <2>1. \A i \in DOMAIN entries : entries[i] \in T
    OBVIOUS
  <2>2. left = [k \in 1..n |-> entries[order[k]]] /\ \A k \in 1..n : entries[order[k]] \in T
    BY <1>2, <1>3, <2>1 DEF KeptBy
  <2> HIDE DEF left
  <2>3. left \in [1..n -> T]
    BY <2>2
  <2>4. QED
    BY <2>3
<1> HIDE DEF left
<1>5. ASSUME NEW e
      PROVE  e \in Range(left) <=> e \in Range(entries) /\ e \notin gone
  <2>1. ASSUME e \in Range(left)
        PROVE  e \in Range(entries) /\ e \notin gone
    <3>1. PICK k \in 1..n : e = left[k]
      BY <1>3, <2>1 DEF Range
    <3>2. QED
      BY <1>2, <1>3, <3>1 DEF Range, KeptBy
  <2>2. ASSUME e \in Range(entries), e \notin gone
        PROVE  e \in Range(left)
    <3>1. PICK i \in DOMAIN entries : e = entries[i]
      BY <2>2 DEF Range
    <3>2. PICK k \in 1..n : order[k] = i
      BY <1>2, <2>2, <3>1 DEF KeptBy
    <3>3. QED
      BY <1>3, <3>1, <3>2 DEF Range
  <2>3. QED
    BY <2>1, <2>2
<1>6. ASSUME OneOfAKey(entries)
      PROVE  OneOfAKey(left)
  <2>1. ASSUME NEW i \in 1..n, NEW j \in 1..n, left[i].key = left[j].key
        PROVE  i = j
    <3>1. order[i] = order[j]
      BY <1>3, <1>6, <2>1 DEF OneOfAKey
    <3>2. order[i] \in Nat
      BY <1>3
    <3>3. ~(order[i] < order[j]) /\ ~(order[j] < order[i])
      BY <3>1, <3>2
    <3>4. ~(i < j) /\ ~(j < i)
      BY <1>2, <3>3 DEF Upwards, KeptBy
    <3>5. i \in Int /\ j \in Int
      OBVIOUS
    <3>6. QED
      BY <3>4, <3>5
  <2>2. QED
    BY <1>3, <2>1 DEF OneOfAKey
<1>7. QED
  BY <1>4, <1>5, <1>6 DEF left

\* The bytes of one row are its own.
LEMMA BytesOfOne ==
    ASSUME NEW e, Bytes[e.of] \in Nat
    PROVE  TotalOf(<<e>>) = Bytes[e.of]
<1> DEFINE one == <<e>>
           Pick(s) == CHOOSE x \in s : TRUE
           Sums(g) == [s \in SUBSET DOMAIN one |->
                          IF s = {} THEN 0 ELSE Bytes[one[CHOOSE x \in s : TRUE].of]
                                                    + g[s \ {CHOOSE x \in s : TRUE}]]
           total == CHOOSE g : g = Sums(g)
           sums == [s \in SUBSET DOMAIN one |-> IF s = {} THEN 0 ELSE Bytes[e.of]]
<1>1. TotalOf(one) = total[DOMAIN one]
  BY DEF TotalOf, FoldSeq, FoldFunction, FoldFunctionOnSet, MapThenFoldSet
<1>2. DOMAIN one = {1} /\ one[1] = e
  OBVIOUS
<1>3. sums = Sums(sums)
  <2>1. ASSUME NEW s \in SUBSET DOMAIN one
        PROVE  sums[s] = IF s = {} THEN 0 ELSE Bytes[one[CHOOSE x \in s : TRUE].of]
                                                    + sums[s \ {CHOOSE x \in s : TRUE}]
    <3>1. CASE s = {}
      BY <3>1
    <3>2. CASE s = {1}
      <4>1. (CHOOSE x \in s : TRUE) = 1 /\ s \ {1} = {}
        BY <3>2
      <4>2. sums[{}] = 0
        OBVIOUS
      <4>3. QED
        BY <1>2, <3>2, <4>1, <4>2
    <3>3. QED
      BY <1>2, <3>1, <3>2
  <2>2. QED
    BY <2>1
<1>4. total = Sums(total)
  <2> HIDE DEF sums
  <2>1. \E g : g = Sums(g)
    BY <1>3
  <2>2. QED
    BY <2>1
<1> HIDE DEF total
<1>5. total[{1}] = Bytes[one[CHOOSE x \in {1} : TRUE].of] + total[{1} \ {CHOOSE x \in {1} : TRUE}]
  BY <1>2, <1>4
<1>6. (CHOOSE x \in {1} : TRUE) = 1 /\ {1} \ {1} = {}
  OBVIOUS
<1>7. total[{}] = 0
  BY <1>4
<1>8. QED
  BY <1>1, <1>2, <1>5, <1>6, <1>7

LEMMA OneFits ==
    ASSUME NEW e \in EntrySet
    PROVE  Fits(<<e>>)
<1>1. Bytes[e.of] \in 1..MaxBytes /\ MaxBytes \in Nat /\ MaxEntries \in Nat \ {0}
  BY BytesAssumption DEF EntrySet
<1>2. TotalOf(<<e>>) = Bytes[e.of]
  BY <1>1, BytesOfOne
<1>3. Len(<<e>>) = 1
  OBVIOUS
<1>4. QED
  BY <1>1, <1>2, <1>3 DEF Fits

\* What the limits leave is the end of the table; it has the last row, and it would not
\* fit with the row before it.
LEMMA EnforceFacts ==
    ASSUME NEW seq \in Seq(EntrySet), seq # <<>>
    PROVE  \E n \in 0..(Len(seq) - 1) :
              /\ EnforceLimits(seq) = SubSeq(seq, n + 1, Len(seq))
              /\ Fits(SubSeq(seq, n + 1, Len(seq)))
              /\ n > 0 => ~Fits(SubSeq(seq, n, Len(seq)))
<1> DEFINE l == Len(seq)
           Fit(n) == Fits(SubSeq(seq, n + 1, l))
           First(n) == Fit(n) /\ \A k \in 0..(n - 1) : ~Fit(k)
           gone == CHOOSE n \in 0..l : First(n)
<1>1. l \in Nat /\ l > 0 /\ l \in DOMAIN seq
  OBVIOUS
<1>2. EnforceLimits(seq) = SubSeq(seq, gone + 1, l)
  BY DEF EnforceLimits
<1>3. Fit(l - 1)
  <2>1. (l - 1) + 1 = l
    BY <1>1
  <2>2. SubSeq(seq, l, l) = <<seq[l]>>
    <3>1. l \in 1..Len(seq) /\ l \in l..Len(seq) /\ l \in Int /\ l + 1 \in Int /\ l < l + 1
      BY <1>1
    <3>2. SubSeq(seq, l, l) = <<seq[l]>> \o SubSeq(seq, l + 1, l)
      BY <3>1, SubSeqRecursiveFirst
    <3>3. SubSeq(seq, l + 1, l) = <<>>
      BY <3>1, SubSeqEmpty
    <3>4. <<seq[l]>> \in Seq(EntrySet)
      BY <1>1
    <3>5. <<seq[l]>> \o <<>> = <<seq[l]>>
      BY <3>4, ConcatEmptySeq
    <3>6. QED
      BY <3>2, <3>3, <3>5
  <2>3. seq[l] \in EntrySet
    BY <1>1
  <2>4. QED
    BY <2>1, <2>2, <2>3, OneFits
<1> HIDE DEF Fit, l
<1>4. \E n \in 0..l : First(n)
  <2> DEFINE T == {n \in 0..l : Fit(n)}
  <2>1. l - 1 \in T /\ T \in SUBSET Nat
    BY <1>1, <1>3
  <2>2. PICK n \in T : \A m \in T : n <= m
    BY <2>1, LeastNumber
  <2>3. ASSUME NEW k \in 0..(n - 1)
        PROVE  ~Fit(k)
    <3>1. k \in 0..l /\ ~(n <= k)
      BY <1>1, <2>2, <2>3
    <3>2. QED
      BY <2>2, <3>1
  <2>4. QED
    BY <2>2, <2>3
<1> HIDE DEF First
<1>5. gone \in 0..l /\ First(gone)
  BY <1>4
<1> HIDE DEF gone
<1>6. gone \in 0..(l - 1)
  <2>1. CASE gone = l
    <3>1. l - 1 \in 0..(gone - 1)
      BY <1>1, <2>1
    <3>2. QED
      BY <1>3, <1>5, <3>1 DEF First
  <2>2. QED
    BY <1>1, <1>5, <2>1
<1>7. gone > 0 => ~Fits(SubSeq(seq, gone, l))
  <2>1. ASSUME gone > 0
        PROVE  ~Fit(gone - 1) /\ (gone - 1) + 1 = gone
    <3>1. gone - 1 \in 0..(gone - 1) /\ (gone - 1) + 1 = gone
      BY <1>1, <1>5, <2>1
    <3>2. QED
      BY <1>5, <3>1 DEF First
  <2>2. QED
    BY <2>1 DEF Fit
<1>8. Fits(SubSeq(seq, gone + 1, l))
  BY <1>5 DEF First, Fit
<1>9. QED
  BY <1>2, <1>6, <1>7, <1>8 DEF l

-----------------------------------------------------------------------------

\* What a row says is true: of the host's, where it comes from and when; of every one
\* that was stored undisturbed, what it was computed from.
RowTrue(e) ==
    /\ e.key.ns = "host" =>
           e.path = e.key.path /\ e.stat = e.key.stat /\ e.key.stat <= Stat(e.key.path)
    /\ e.quiet => e.of = Named(e.key)

Asking ==
    [step : {"select", "touch", "compute"}, role : {"host", "decompile"}, file : Files, key : KeySet,
     from : Nat]
Stamping ==
    [step : {"stamp"}, role : {"host", "decompile"}, file : Files, key : KeySet, from : Nat, of : Contents]
Putting == [step : {"put"}, entry : EntrySet]
Pruning ==
    [step : {"prune"}, doomed : SUBSET [key : KeySet, path : Files \cup {""}], gone : SUBSET Files]
ClientStates == {Resting} \cup Asking \cup Stamping \cup Putting \cup Pruning

\* A process knows the file as it was when it asked; decompile.py named it by that content.
AskedTrue(c) ==
    /\ c.from \in 1..Stat(c.file) /\ c.key.ns = c.role
    /\ c.role = "decompile" => c.key.content = past[c.file][c.from]
\* What it computed is of the file as it is, if nobody has written it since.
ComputedTrue(c) == c.from = Stat(c.file) => c.of = Current(c.file)
\* What it is about to delete of the host's was away, or was of an earlier time.
DoomedTrue(c) ==
    \A d \in c.doomed : d.key.ns = "host" =>
        d.path = d.key.path /\ (d.path \in c.gone \/ d.key.stat < Stat(d.path))

ClientTrue(c) ==
    /\ c \in Asking \cup Stamping => AskedTrue(c)
    /\ c \in Stamping => ComputedTrue(c)
    /\ c \in Putting => RowTrue(c.entry)
    /\ c \in Pruning => DoomedTrue(c)

CacheTypes ==
    /\ cacheScope \in CacheScopes /\ away \in SUBSET Files
    /\ past \in [Files -> Seq(Contents)]
    /\ \A f \in Files : Stat(f) \in 1..cacheScope.writes
    /\ entries \in Seq(EntrySet) /\ OneOfAKey(entries)
    /\ client \in [Clients -> ClientStates]

RowsTrue == \A e \in Range(entries) : RowTrue(e)
ClientsTrue == \A p \in Clients : ClientTrue(client[p])

CacheInv == CacheTypes /\ RowsTrue /\ ClientsTrue

\* The numbers of the scope.
LEMMA WritesNat ==
    ASSUME CacheTypes
    PROVE  cacheScope.writes \in Nat \ {0} /\ cacheScope.roles \subseteq {"host", "decompile"}
<1>1. cacheScope \in [roles : SUBSET Roles, writes : Nat \ {0}, moves : BOOLEAN]
  BY BytesAssumption DEF CacheTypes
<1>2. cacheScope.roles \in SUBSET Roles /\ cacheScope.writes \in Nat \ {0}
  BY <1>1
<1>3. QED
  BY <1>2, BytesAssumption

\* A process is in the set of its step.
LEMMA StepTells ==
    ASSUME NEW c \in ClientStates
    PROVE  /\ c.step \in {"rest", "select", "touch", "compute", "stamp", "put", "prune"}
           /\ c = Resting <=> c.step = "rest"
           /\ c \in Asking <=> c.step \in {"select", "touch", "compute"}
           /\ c \in Stamping <=> c.step = "stamp"
           /\ c \in Putting <=> c.step = "put"
           /\ c \in Pruning <=> c.step = "prune"
<1>1. Resting.step = "rest"
  BY DEF Resting
<1>2. \A x \in Asking : x.step \in {"select", "touch", "compute"}
  BY DEF Asking
<1>3. \A x \in Stamping : x.step = "stamp"
  BY DEF Stamping
<1>4. \A x \in Putting : x.step = "put"
  BY DEF Putting
<1>5. \A x \in Pruning : x.step = "prune"
  BY DEF Pruning
<1>6. QED
  BY <1>1, <1>2, <1>3, <1>4, <1>5 DEF ClientStates

LEMMA CacheTypesImply == CacheInv => CacheTypeOK
<1> SUFFICES ASSUME CacheInv
             PROVE  CacheTypeOK
  OBVIOUS
<1>1. past \in [Files -> UNION {[1..n -> Contents] : n \in 1..cacheScope.writes}]
  <2>1. ASSUME NEW f \in Files
        PROVE  past[f] \in UNION {[1..n -> Contents] : n \in 1..cacheScope.writes}
    <3>1. past[f] \in Seq(Contents) /\ Len(past[f]) \in 1..cacheScope.writes
      BY DEF CacheInv, CacheTypes, Stat
    <3>2. past[f] \in [1..Len(past[f]) -> Contents]
      BY <3>1
    <3>3. QED
      BY <3>1, <3>2
  <2>2. QED
    BY <2>1 DEF CacheInv, CacheTypes
<1>2. Range(entries) \subseteq EntrySet
  BY DEF CacheInv, CacheTypes, Range
<1>3. ASSUME NEW p \in Clients
      PROVE  client[p].step \in {"rest", "select", "touch", "compute", "stamp", "put", "prune"}
  <2>1. client[p] \in ClientStates
    BY DEF CacheInv, CacheTypes
  <2>2. QED
    BY <2>1, StepTells
<1>4. away \subseteq Files /\ OneOfAKey(entries)
  BY DEF CacheInv, CacheTypes
<1>5. QED
  BY <1>1, <1>2, <1>3, <1>4 DEF CacheTypeOK, OneOfAKey


\* What the file gives a process that asks.
LEMMA KeyFacts ==
    ASSUME CacheTypes, NEW f \in Files
    PROVE  /\ Stat(f) \in Nat /\ Stat(f) >= 1 /\ Stat(f) <= cacheScope.writes
           /\ past[f] \in Seq(Contents) /\ Current(f) \in Contents
           /\ \A role \in {"host", "decompile"} : Key(role, f) \in KeySet /\ Key(role, f).ns = role
           /\ Key("decompile", f).content = Current(f)
           /\ Key("host", f).path = f /\ Key("host", f).stat = Stat(f)
<1>1. Stat(f) \in 1..cacheScope.writes /\ cacheScope.writes \in Nat /\ past[f] \in Seq(Contents)
  BY WritesNat DEF CacheTypes
<1>2. Current(f) \in Contents
  BY <1>1 DEF Current, Stat
<1>3. Key("host", f) = [ns |-> "host", path |-> f, stat |-> Stat(f)]
  BY DEF Key
<1>4. Key("decompile", f) = [ns |-> "decompile", content |-> Current(f)]
  BY DEF Key
<1>5. Key("host", f) \in KeySet
  BY <1>1, <1>3 DEF KeySet
<1>6. Key("decompile", f) \in KeySet
  BY <1>2, <1>4 DEF KeySet
<1>7. QED
  BY <1>1, <1>2, <1>3, <1>4, <1>5, <1>6

\* A key of the host is of a file and a time.
LEMMA KeyTells ==
    ASSUME CacheTypes, NEW key \in KeySet
    PROVE  /\ key.ns \in {"host", "decompile"}
           /\ key.ns = "host" => key.path \in Files /\ key.stat \in Nat /\ key.stat >= 1
<1>1. cacheScope.writes \in Nat
  BY WritesNat
<1>2. CASE key \in [ns : {"host"}, path : Files, stat : 1..cacheScope.writes]
  BY <1>1, <1>2
<1>3. CASE key \in [ns : {"decompile"}, content : Contents]
  BY <1>3
<1>4. QED
  BY <1>2, <1>3 DEF KeySet

\* The sets of the states depend on the scope alone.
LEMMA SameSets ==
    ASSUME cacheScope' = cacheScope
    PROVE  KeySet' = KeySet /\ EntrySet' = EntrySet /\ ClientStates' = ClientStates
           /\ Asking' = Asking /\ Stamping' = Stamping /\ Putting' = Putting /\ Pruning' = Pruning
<1>1. KeySet' = KeySet
  BY DEF KeySet
<1>2. EntrySet' = EntrySet
  BY <1>1 DEF EntrySet
<1>3. Asking' = Asking /\ Stamping' = Stamping /\ Putting' = Putting /\ Pruning' = Pruning
  BY <1>1, <1>2 DEF Asking, Stamping, Putting, Pruning
<1>4. QED
  BY <1>1, <1>2, <1>3 DEF ClientStates

\* While the files stay, so does what is true of a row and of a process.
LEMMA SameTruth ==
    ASSUME UNCHANGED <<past, cacheScope>>
    PROVE  /\ \A e : RowTrue(e)' = RowTrue(e)
           /\ \A c : ClientTrue(c)' = ClientTrue(c)
<1>1. Asking' = Asking /\ Stamping' = Stamping /\ Putting' = Putting /\ Pruning' = Pruning
  BY SameSets
<1>2. ASSUME NEW e
      PROVE  RowTrue(e)' = RowTrue(e)
  BY DEF RowTrue, Named, Stat
<1>3. ASSUME NEW c
      PROVE  ClientTrue(c)' = ClientTrue(c)
  <2>1. RowTrue(c.entry)' = RowTrue(c.entry)
    BY <1>2
  <2>2. AskedTrue(c)' = AskedTrue(c) /\ ComputedTrue(c)' = ComputedTrue(c) /\ DoomedTrue(c)' = DoomedTrue(c)
    BY DEF AskedTrue, ComputedTrue, DoomedTrue, Current, Stat
  <2>3. QED
    BY <1>1, <2>1, <2>2 DEF ClientTrue
<1>4. QED
  BY <1>2, <1>3

\* A step of one process.
LEMMA OneStep ==
    ASSUME CacheInv, UNCHANGED <<past, away, cacheScope>>,
           NEW p \in Clients, NEW c \in ClientStates, ClientTrue(c),
           client' = [client EXCEPT ![p] = c],
           entries' \in Seq(EntrySet), OneOfAKey(entries'),
           \A e \in Range(entries') : RowTrue(e)
    PROVE  CacheInv'
<1>1. EntrySet' = EntrySet /\ ClientStates' = ClientStates
  BY SameSets
<1>2. CacheTypes'
  <2>1. client' \in [Clients -> ClientStates]
    BY DEF CacheInv, CacheTypes
  <2>2. \A f \in Files : Stat(f)' \in 1..cacheScope'.writes
    BY DEF CacheInv, CacheTypes, Stat
  <2>3. cacheScope' \in CacheScopes /\ away' \in SUBSET Files /\ past' \in [Files -> Seq(Contents)]
    BY DEF CacheInv, CacheTypes
  <2>4. OneOfAKey(entries)'
    BY DEF OneOfAKey
  <2>5. QED
    BY <1>1, <2>1, <2>2, <2>3, <2>4 DEF CacheTypes
<1>3. RowsTrue'
  <2>1. ASSUME NEW e \in Range(entries')
        PROVE  RowTrue(e)'
    BY SameTruth
  <2>2. Range(entries)' = Range(entries')
    BY DEF Range
  <2>3. QED
    BY <2>1, <2>2 DEF RowsTrue
<1>4. ClientsTrue'
  <2>1. ASSUME NEW q \in Clients
        PROVE  ClientTrue(client[q])'
    <3>1. PICK d : d = client'[q]
      OBVIOUS
    <3>2. ClientTrue(d)
      BY <3>1 DEF CacheInv, ClientsTrue, CacheTypes
    <3>3. ClientTrue(d)'
      BY <3>2, SameTruth
    <3>4. QED
      BY <3>1, <3>3
  <2>2. QED
    BY <2>1 DEF ClientsTrue
<1>5. QED
  BY <1>2, <1>3, <1>4 DEF CacheInv

\* ... of which the table is not part.
LEMMA QuietStep ==
    ASSUME CacheInv, UNCHANGED <<past, away, entries, cacheScope>>,
           NEW p \in Clients, NEW c \in ClientStates, ClientTrue(c),
           client' = [client EXCEPT ![p] = c]
    PROVE  CacheInv'
<1>1. entries' \in Seq(EntrySet) /\ OneOfAKey(entries') /\ \A e \in Range(entries') : RowTrue(e)
  BY DEF CacheInv, CacheTypes, RowsTrue
<1>2. QED
  BY <1>1, OneStep

\* A process that rests knows nothing.
LEMMA AtRest == Resting \in ClientStates /\ ClientTrue(Resting)
<1>1. Resting \in ClientStates
  BY DEF ClientStates
<1>2. Resting \notin Asking /\ Resting \notin Stamping /\ Resting \notin Putting /\ Resting \notin Pruning
  BY <1>1, StepTells
<1>3. QED
  BY <1>1, <1>2 DEF ClientTrue

-----------------------------------------------------------------------------

\* Rows of the table, in another order.
LEMMA Fewer ==
    ASSUME CacheInv, NEW gone
    PROVE  /\ KeptBut(gone) \in Seq(EntrySet) /\ OneOfAKey(KeptBut(gone))
           /\ \A e : e \in Range(KeptBut(gone)) <=> e \in Range(entries) /\ e \notin gone
           /\ \A e \in Range(KeptBut(gone)) : RowTrue(e)
<1>1. entries \in Seq(EntrySet) /\ OneOfAKey(entries)
  BY DEF CacheInv, CacheTypes
<1>2. KeptBut(gone) \in Seq(EntrySet) /\ OneOfAKey(KeptBut(gone))
  BY <1>1, KeptFacts
<1>3. \A e : e \in Range(KeptBut(gone)) <=> e \in Range(entries) /\ e \notin gone
  BY <1>1, KeptFacts
<1>4. QED
  BY <1>2, <1>3 DEF CacheInv, RowsTrue

\* A row at the end of a table from which its key was deleted.
LEMMA RowAdded ==
    ASSUME CacheInv, NEW e \in EntrySet, RowTrue(e)
    PROVE  LET seq == Append(KeptBut(Under(e.key)), e) IN
           /\ seq \in Seq(EntrySet) /\ seq # <<>> /\ OneOfAKey(seq)
           /\ \A x \in Range(seq) : RowTrue(x)
           /\ Len(seq) = Len(KeptBut(Under(e.key))) + 1 /\ Len(KeptBut(Under(e.key))) \in Nat
<1> DEFINE old == KeptBut(Under(e.key))
           seq == Append(old, e)
<1>1. old \in Seq(EntrySet) /\ OneOfAKey(old) /\ \A x \in Range(old) : RowTrue(x)
  BY Fewer
<1>2. \A x \in Range(old) : x.key # e.key
  BY Fewer DEF Under
<1> HIDE DEF old
<1>3. /\ seq \in Seq(EntrySet) /\ Len(seq) = Len(old) + 1 /\ Len(old) \in Nat
      /\ DOMAIN seq = 1..(Len(old) + 1) /\ DOMAIN old = 1..Len(old)
      /\ \A i \in DOMAIN old : seq[i] = old[i]
      /\ seq[Len(old) + 1] = e
  BY <1>1
<1>4. seq # <<>>
  BY <1>3
<1> HIDE DEF seq
<1>5. ASSUME NEW i \in DOMAIN seq
      PROVE  i \in DOMAIN old \/ i = Len(old) + 1
  BY <1>3
<1>6. OneOfAKey(seq)
  <2>1. ASSUME NEW i \in DOMAIN seq, NEW j \in DOMAIN seq, seq[i].key = seq[j].key
        PROVE  i = j
    <3>1. \A k \in DOMAIN old : seq[k].key # e.key
      BY <1>2, <1>3 DEF Range
    <3>2. QED
      BY <1>1, <1>3, <1>5, <2>1, <3>1 DEF OneOfAKey
  <2>2. QED
    BY <2>1 DEF OneOfAKey
<1>7. \A x \in Range(seq) : RowTrue(x)
  <2>1. ASSUME NEW i \in DOMAIN seq
        PROVE  RowTrue(seq[i])
    BY <1>1, <1>3, <1>5 DEF Range
  <2>2. QED
    BY <2>1 DEF Range
<1>8. QED
  BY <1>3, <1>4, <1>6, <1>7 DEF seq, old

\* The end of a table.
LEMMA EndOf ==
    ASSUME NEW seq \in Seq(EntrySet), OneOfAKey(seq), NEW n \in 0..(Len(seq) - 1)
    PROVE  LET end == SubSeq(seq, n + 1, Len(seq)) IN
           /\ end \in Seq(EntrySet) /\ OneOfAKey(end) /\ Len(end) = Len(seq) - n
           /\ \A i \in 1..Len(end) : end[i] = seq[i + n]
           /\ Range(end) \subseteq Range(seq)
<1> DEFINE l == Len(seq)
           end == SubSeq(seq, n + 1, l)
<1>1. l \in Nat /\ DOMAIN seq = 1..l /\ n \in Nat /\ n < l
  OBVIOUS
<1>2. end = [i \in 1..(l - n) |-> seq[i + n]]
  BY <1>1
<1>3. \A i \in 1..(l - n) : i + n \in 1..l
  BY <1>1
<1>4. end \in Seq(EntrySet) /\ Len(end) = l - n /\ DOMAIN end = 1..(l - n)
  <2>1. \A i \in 1..l : seq[i] \in EntrySet
    BY <1>1
  <2>2. end \in [1..(l - n) -> EntrySet]
    BY <1>2, <1>3, <2>1
  <2>3. l - n \in Nat
    BY <1>1
  <2> HIDE DEF end, l
  <2>4. QED
    BY <2>2, <2>3
<1>5. \A i \in 1..(l - n) : end[i] = seq[i + n]
  BY <1>2
<1> HIDE DEF end
<1>6. OneOfAKey(end)
  <2>1. ASSUME NEW i \in 1..(l - n), NEW j \in 1..(l - n), end[i].key = end[j].key
        PROVE  i = j
    <3>1. i + n = j + n
      BY <1>1, <1>3, <1>5, <2>1 DEF OneOfAKey
    <3>2. i \in Int /\ j \in Int
      OBVIOUS
    <3>3. QED
      BY <1>1, <3>1, <3>2
  <2>2. QED
    BY <1>4, <2>1 DEF OneOfAKey
<1>7. Range(end) \subseteq Range(seq)
  BY <1>1, <1>3, <1>4, <1>5 DEF Range
<1>8. QED
  BY <1>4, <1>5, <1>6, <1>7 DEF end

-----------------------------------------------------------------------------
(* The steps of a process *)

LEMMA AskKeeps == ASSUME CacheInv, NEW p \in Clients, Ask(p) PROVE CacheInv'
<1>1. PICK role \in cacheScope.roles, f \in Files \ away :
          client' = [client EXCEPT ![p] =
              [step |-> "select", role |-> role, file |-> f, key |-> Key(role, f), from |-> Stat(f)]]
  BY DEF Ask
<1> DEFINE c == [step |-> "select", role |-> role, file |-> f, key |-> Key(role, f), from |-> Stat(f)]
<1>2. role \in {"host", "decompile"} /\ f \in Files
  BY WritesNat DEF CacheInv
<1>3. /\ Stat(f) \in Nat /\ Stat(f) >= 1 /\ Key(role, f) \in KeySet /\ Key(role, f).ns = role
      /\ Key("decompile", f).content = Current(f)
  BY <1>2, KeyFacts DEF CacheInv
<1>4. c \in Asking
  BY <1>2, <1>3 DEF Asking
<1>5. c \in ClientStates /\ c \notin Stamping /\ c \notin Putting /\ c \notin Pruning
  BY <1>4, StepTells DEF ClientStates
<1>6. AskedTrue(c)
  <2>1. c.from \in 1..Stat(c.file)
    BY <1>3
  <2>2. c.role = "decompile" => c.key.content = past[c.file][c.from]
    BY <1>3 DEF Current
  <2>3. QED
    BY <1>3, <2>1, <2>2 DEF AskedTrue
<1>7. ClientTrue(c)
  BY <1>5, <1>6 DEF ClientTrue
<1>8. QED
  BY <1>1, <1>5, <1>7, QuietStep DEF Ask

\* What a process that has its key knows.
LEMMA ClientKnown ==
    ASSUME CacheInv, NEW p \in Clients
    PROVE  /\ client[p] \in ClientStates
           /\ client[p].step \in {"select", "touch", "compute"} => client[p] \in Asking /\ AskedTrue(client[p])
           /\ client[p].step = "stamp" =>
                  client[p] \in Stamping /\ AskedTrue(client[p]) /\ ComputedTrue(client[p])
           /\ client[p].step = "put" =>
                  client[p] \in Putting /\ client[p].entry \in EntrySet /\ RowTrue(client[p].entry)
           /\ client[p].step = "prune" => client[p] \in Pruning /\ DoomedTrue(client[p])
<1>1. client[p] \in ClientStates /\ ClientTrue(client[p])
  BY DEF CacheInv, CacheTypes, ClientsTrue
<1>2. client[p] \in Putting => client[p].entry \in EntrySet
  BY DEF Putting
<1>3. QED
  BY <1>1, <1>2, StepTells DEF ClientTrue

LEMMA SelectKeeps == ASSUME CacheInv, NEW p \in Clients, Select(p) PROVE CacheInv'
<1> DEFINE c == client[p]
           next == IF Found(c.key) # {} THEN "touch" ELSE "compute"
           d == [c EXCEPT !.step = next]
<1>1. c \in Asking /\ AskedTrue(c)
  BY ClientKnown DEF Select
<1>2. client' = [client EXCEPT ![p] = d]
  BY DEF Select
<1>3. next \in {"select", "touch", "compute"}
  OBVIOUS
<1> HIDE DEF c, next
<1>4. d \in Asking /\ d.from = c.from /\ d.file = c.file /\ d.key = c.key /\ d.role = c.role
  BY <1>1, <1>3 DEF Asking
<1> HIDE DEF d
<1>5. d \in ClientStates /\ d \notin Stamping /\ d \notin Putting /\ d \notin Pruning
  BY <1>4, StepTells DEF ClientStates
<1>6. ClientTrue(d)
  BY <1>1, <1>4, <1>5 DEF ClientTrue, AskedTrue
<1>7. QED
  BY <1>2, <1>5, <1>6, QuietStep DEF Select

LEMMA TouchKeeps == ASSUME CacheInv, NEW p \in Clients, Touch(p) PROVE CacheInv'
<1> DEFINE key == client[p].key
           hit == Found(key)
           i == CHOOSE j \in hit : TRUE
<1>1. entries' \in Seq(EntrySet) /\ OneOfAKey(entries') /\ \A e \in Range(entries') : RowTrue(e)
  <2>1. CASE hit = {}
    <3>1. entries' = entries
      BY <2>1 DEF Touch
    <3>2. QED
      BY <3>1 DEF CacheInv, CacheTypes, RowsTrue
  <2>2. CASE hit # {}
    <3>1. i \in DOMAIN entries /\ entries[i].key = key
      BY <2>2 DEF Found
    <3>2. entries' = Append(KeptBut(Under(entries[i].key)), entries[i])
      BY <2>2, <3>1 DEF Touch
    <3>3. entries[i] \in EntrySet /\ RowTrue(entries[i])
      BY <3>1 DEF CacheInv, CacheTypes, RowsTrue, Range
    <3> HIDE DEF i, hit, key
    <3>4. QED
      BY <3>2, <3>3, RowAdded
  <2>3. QED
    BY <2>1, <2>2
<1>2. client' = [client EXCEPT ![p] = Resting] /\ UNCHANGED <<past, away, cacheScope>>
  BY DEF Touch
<1>3. QED
  BY <1>1, <1>2, AtRest, OneStep

LEMMA ComputeKeeps == ASSUME CacheInv, NEW p \in Clients, Compute(p) PROVE CacheInv'
<1> DEFINE c == client[p]
           d == [step |-> "stamp", role |-> c.role, file |-> c.file, key |-> c.key,
                 from |-> c.from, of |-> Current(c.file)]
<1>1. c \in Asking /\ AskedTrue(c)
  BY ClientKnown DEF Compute
<1>2. /\ client' = [client EXCEPT ![p] = IF c.file \in away THEN Resting ELSE d]
      /\ UNCHANGED <<past, away, entries, cacheScope>>
  BY DEF Compute
<1>3. CASE c.file \in away
  BY <1>2, <1>3, AtRest, QuietStep
<1>4. CASE c.file \notin away
  <2>1. c.file \in Files /\ c.role \in {"host", "decompile"} /\ c.key \in KeySet /\ c.from \in Nat
    BY <1>1 DEF Asking
  <2>2. Current(c.file) \in Contents
    BY <2>1, KeyFacts DEF CacheInv
  <2> HIDE DEF c
  <2>3. d \in Stamping
    BY <2>1, <2>2 DEF Stamping
  <2>4. AskedTrue(d) /\ ComputedTrue(d)
    BY <1>1 DEF AskedTrue, ComputedTrue
  <2> HIDE DEF d
  <2>5. d \in ClientStates /\ d \notin Asking /\ d \notin Putting /\ d \notin Pruning
    BY <2>3, StepTells DEF ClientStates
  <2>6. ClientTrue(d)
    BY <2>4, <2>5 DEF ClientTrue
  <2>7. QED
    BY <1>2, <1>4, <2>5, <2>6, QuietStep
<1>5. QED
  BY <1>3, <1>4

LEMMA StampKeeps == ASSUME CacheInv, NEW p \in Clients, Stamp(p) PROVE CacheInv'
<1> DEFINE c == client[p]
           f == c.file
           lost == f \in away
           e == [key |-> IF c.role = "host" THEN Key("host", f) ELSE c.key,
                 path |-> IF lost THEN "" ELSE f,
                 stat |-> IF lost THEN 0 ELSE Stat(f),
                 of |-> c.of, quiet |-> c.from = Stat(f)]
           d == [step |-> "put", entry |-> e]
<1>1. c \in Stamping /\ AskedTrue(c) /\ ComputedTrue(c)
  BY ClientKnown DEF Stamp
<1>2. /\ client' = [client EXCEPT ![p] = IF lost /\ c.role = "host" THEN Resting ELSE d]
      /\ UNCHANGED <<past, away, entries, cacheScope>>
  BY DEF Stamp
<1>3. CASE lost /\ c.role = "host"
  BY <1>2, <1>3, AtRest, QuietStep
<1>4. CASE ~(lost /\ c.role = "host")
  <2>1. f \in Files /\ c.role \in {"host", "decompile"} /\ c.key \in KeySet /\ c.of \in Contents
    BY <1>1 DEF Stamping
  <2>2. /\ Stat(f) \in 0..cacheScope.writes /\ Stat(f) \in Nat
        /\ Key("host", f) \in KeySet /\ Key("host", f).ns = "host"
        /\ Key("host", f).path = f /\ Key("host", f).stat = Stat(f)
    BY <2>1, KeyFacts, WritesNat DEF CacheInv
  <2>3. 0 \in 0..cacheScope.writes
    BY WritesNat DEF CacheInv
  <2> HIDE DEF c, f
  <2>4. e \in EntrySet
    <3>1. e.key \in KeySet /\ (IF c.role = "host" THEN Key("host", f) ELSE c.key) \in KeySet
      BY <2>1, <2>2
    <3>2. (IF lost THEN "" ELSE f) \in Files \cup {""} /\ (IF lost THEN 0 ELSE Stat(f)) \in 0..cacheScope.writes
      BY <2>1, <2>2, <2>3
    <3>3. (c.from = Stat(f)) \in BOOLEAN
      OBVIOUS
    <3>4. QED
      BY <2>1, <3>1, <3>2, <3>3 DEF EntrySet
  <2>5. RowTrue(e)
    <3>1. CASE c.role = "host"
      <4>1. e.key = Key("host", f) /\ e.path = f /\ e.stat = Stat(f) /\ e.of = c.of /\ e.quiet = (c.from = Stat(f))
        BY <1>4, <3>1
      <4>2. Named(e.key) = Current(f)
        BY <2>2, <4>1 DEF Named, Current
      <4>3. e.quiet => e.of = Named(e.key)
        BY <1>1, <4>1, <4>2 DEF ComputedTrue, f
      <4>4. e.path = e.key.path /\ e.stat = e.key.stat /\ Stat(e.key.path) = Stat(f) /\ e.key.stat = Stat(f)
        BY <2>2, <4>1
      <4> HIDE DEF e
      <4>5. e.key.stat <= Stat(e.key.path)
        BY <2>2, <4>4
      <4>6. QED
        BY <4>3, <4>4, <4>5 DEF RowTrue
    <3>2. CASE c.role = "decompile"
      <4>1. e.key = c.key /\ c.key.ns = "decompile" /\ c.key.content = past[f][c.from]
            /\ e.of = c.of /\ e.quiet = (c.from = Stat(f))
        BY <1>1, <3>2 DEF AskedTrue, f
      <4>2. e.quiet => e.of = Named(e.key)
        BY <1>1, <4>1 DEF ComputedTrue, Named, Current, f
      <4>3. QED
        BY <4>1, <4>2 DEF RowTrue
    <3>3. QED
      BY <2>1, <3>1, <3>2
  <2> HIDE DEF e
  <2>6. d \in Putting /\ d.entry = e
    BY <2>4 DEF Putting
  <2> HIDE DEF d
  <2>7. d \in ClientStates /\ d \notin Asking /\ d \notin Stamping /\ d \notin Pruning
    BY <2>6, StepTells DEF ClientStates
  <2>8. ClientTrue(d)
    BY <2>5, <2>6, <2>7 DEF ClientTrue
  <2>9. QED
    BY <1>2, <1>4, <2>7, <2>8, QuietStep
<1>5. QED
  BY <1>3, <1>4

LEMMA PutEntries ==
    ASSUME CacheInv, NEW p \in Clients, Put(p)
    PROVE  LET e == client[p].entry
               old == KeptBut(Under(e.key))
               seq == Append(old, e)
           IN /\ Len(old) \in Nat /\ Len(seq) = Len(old) + 1
              /\ \E n \in 0..Len(old) :
                    /\ entries' = SubSeq(seq, n + 1, Len(seq))
                    /\ Fits(entries')
                    /\ n > 0 => ~Fits(SubSeq(seq, n, Len(seq)))
              /\ entries' \in Seq(EntrySet) /\ OneOfAKey(entries') /\ entries' # <<>>
              /\ \A x \in Range(entries') : RowTrue(x)
<1> DEFINE e == client[p].entry
           old == KeptBut(Under(e.key))
           seq == Append(old, e)
<1>1. e \in EntrySet /\ RowTrue(e)
  BY ClientKnown DEF Put
<1>2. entries' = EnforceLimits(seq)
  BY DEF Put, PutPayload
<1> HIDE DEF e
<1>3. /\ seq \in Seq(EntrySet) /\ seq # <<>> /\ OneOfAKey(seq)
      /\ \A x \in Range(seq) : RowTrue(x)
      /\ Len(seq) = Len(old) + 1 /\ Len(old) \in Nat
  BY <1>1, RowAdded
<1> HIDE DEF old, seq
<1>4. PICK n \in 0..(Len(seq) - 1) :
          /\ EnforceLimits(seq) = SubSeq(seq, n + 1, Len(seq))
          /\ Fits(SubSeq(seq, n + 1, Len(seq)))
          /\ n > 0 => ~Fits(SubSeq(seq, n, Len(seq)))
  BY <1>3, EnforceFacts
<1>5. n \in 0..Len(old)
  BY <1>3
<1>6. /\ entries' \in Seq(EntrySet) /\ OneOfAKey(entries') /\ Len(entries') = Len(seq) - n
      /\ Range(entries') \subseteq Range(seq)
  BY <1>2, <1>3, <1>4, EndOf
<1>7. entries' # <<>>
  BY <1>3, <1>5, <1>6
<1>8. QED
  BY <1>2, <1>3, <1>4, <1>5, <1>6, <1>7 DEF e, old, seq

LEMMA PutKeeps == ASSUME CacheInv, NEW p \in Clients, Put(p) PROVE CacheInv'
<1>1. entries' \in Seq(EntrySet) /\ OneOfAKey(entries') /\ \A x \in Range(entries') : RowTrue(x)
  BY PutEntries
<1>2. client' = [client EXCEPT ![p] = Resting] /\ UNCHANGED <<past, away, cacheScope>>
  BY DEF Put
<1>3. QED
  BY <1>1, <1>2, AtRest, OneStep

LEMMA ListKeeps == ASSUME CacheInv, NEW p \in Clients, List(p) PROVE CacheInv'
<1> DEFINE d == [step |-> "prune", doomed |-> Doomed, gone |-> away]
<1>1. ASSUME NEW x \in Range(entries), Status(x) # "ok"
      PROVE  /\ x.key \in KeySet /\ x.path \in Files \cup {""}
             /\ x.key.ns = "host" =>
                    x.path = x.key.path /\ (x.path \in away \/ x.key.stat < Stat(x.path))
  <2>1. x \in EntrySet /\ RowTrue(x)
    BY DEF CacheInv, CacheTypes, RowsTrue, Range
  <2>2. x.key \in KeySet /\ x.path \in Files \cup {""}
    BY <2>1 DEF EntrySet
  <2>3. ASSUME x.key.ns = "host", x.path \notin away
        PROVE  x.key.stat < Stat(x.path)
    <3>1. x.key.path \in Files /\ x.key.stat \in Nat
      BY <2>2, <2>3, KeyTells DEF CacheInv
    <3>2. x.path = x.key.path /\ x.stat = x.key.stat /\ x.key.stat <= Stat(x.path) /\ Stat(x.path) \in Nat
      BY <2>1, <2>3, <3>1, KeyFacts DEF RowTrue, CacheInv
    <3>3. x.stat # Stat(x.path)
      BY <1>1, <2>3, <3>1, <3>2 DEF Status
    <3>4. QED
      BY <3>1, <3>2, <3>3
  <2>4. QED
    BY <2>1, <2>2, <2>3 DEF RowTrue
<1>2. ASSUME NEW y \in Doomed
      PROVE  /\ y \in [key : KeySet, path : Files \cup {""}]
             /\ y.key.ns = "host" => y.path = y.key.path /\ (y.path \in away \/ y.key.stat < Stat(y.path))
  <2>1. PICK x \in Range(entries) : Status(x) # "ok" /\ y = [key |-> x.key, path |-> x.path]
    BY DEF Doomed
  <2>2. QED
    BY <1>1, <2>1
<1>3. Doomed \in SUBSET [key : KeySet, path : Files \cup {""}]
  BY <1>2
<1>4. away \in SUBSET Files
  BY DEF CacheInv, CacheTypes
<1>5. d \in Pruning
  BY <1>3, <1>4 DEF Pruning
<1>6. DoomedTrue(d)
  <2>1. d.doomed = Doomed /\ d.gone = away
    OBVIOUS
  <2> HIDE DEF d
  <2>2. QED
    BY <1>2, <2>1 DEF DoomedTrue
<1>7. client' = [client EXCEPT ![p] = d]
  BY DEF List
<1> HIDE DEF d
<1>8. d \in ClientStates /\ d \notin Asking /\ d \notin Stamping /\ d \notin Putting
  BY <1>5, StepTells DEF ClientStates
<1>9. ClientTrue(d)
  BY <1>6, <1>8 DEF ClientTrue
<1>10. QED
  BY <1>7, <1>8, <1>9, QuietStep DEF List

LEMMA PruneKeeps == ASSUME CacheInv, NEW p \in Clients, Prune(p) PROVE CacheInv'
<1>1. entries' \in Seq(EntrySet) /\ OneOfAKey(entries') /\ \A x \in Range(entries') : RowTrue(x)
  BY Fewer DEF Prune
<1>2. client' = [client EXCEPT ![p] = Resting] /\ UNCHANGED <<past, away, cacheScope>>
  BY DEF Prune
<1>3. QED
  BY <1>1, <1>2, AtRest, OneStep

LEMMA DeleteKeeps ==
    ASSUME CacheInv, NEW p \in Clients, DeleteBinary(p) \/ Clear(p)
    PROVE  CacheInv'
<1>1. entries' \in Seq(EntrySet) /\ OneOfAKey(entries') /\ \A x \in Range(entries') : RowTrue(x)
  <2>1. CASE DeleteBinary(p)
    BY <2>1, Fewer DEF DeleteBinary
  <2>2. CASE Clear(p)
    <3>1. entries' = <<>>
      BY <2>2 DEF Clear
    <3>2. QED
      BY <3>1 DEF OneOfAKey, Range
  <2>3. QED
    BY <2>1, <2>2
<1>2. client[p] = Resting /\ UNCHANGED <<past, away, client, cacheScope>>
  BY DEF DeleteBinary, Clear
<1>3. client' = [client EXCEPT ![p] = Resting]
  BY <1>2 DEF CacheInv, CacheTypes
<1>4. QED
  BY <1>1, <1>2, <1>3, AtRest, OneStep

-----------------------------------------------------------------------------
(* The steps of the workspace *)

\* What was written stays written.
LEMMA WrittenStays ==
    ASSUME CacheTypes, NEW g \in Files, NEW c \in Contents, past' = [past EXCEPT ![g] = Append(@, c)],
           NEW f \in Files
    PROVE  /\ past'[f] \in Seq(Contents)
           /\ Len(past'[f]) = IF f = g THEN Len(past[f]) + 1 ELSE Len(past[f])
           /\ Len(past[f]) <= Len(past'[f]) /\ Len(past[f]) \in Nat /\ Len(past'[f]) \in Nat
           /\ \A i \in 1..Len(past[f]) : past'[f][i] = past[f][i]
           /\ f # g => past'[f] = past[f]
<1>1. past[f] \in Seq(Contents) /\ Len(past[f]) \in Nat
  BY DEF CacheTypes
<1>2. CASE f = g
  <2>1. past'[f] = Append(past[f], c)
    BY <1>2 DEF CacheTypes
  <2> HIDE DEF CacheTypes
  <2>2. /\ Append(past[f], c) \in Seq(Contents) /\ Len(Append(past[f], c)) = Len(past[f]) + 1
        /\ \A i \in 1..Len(past[f]) : Append(past[f], c)[i] = past[f][i]
    BY <1>1
  <2>3. Len(past[f]) <= Len(past[f]) + 1 /\ Len(past[f]) + 1 \in Nat
    BY <1>1
  <2>4. QED
    BY <1>1, <1>2, <2>1, <2>2, <2>3
<1>3. CASE f # g
  <2>1. past'[f] = past[f]
    BY <1>3 DEF CacheTypes
  <2>2. QED
    BY <1>1, <1>3, <2>1
<1>4. QED
  BY <1>2, <1>3

LEMMA WriteKeeps == ASSUME CacheInv, NEW g \in Files, WriteFile(g) PROVE CacheInv'
<1>1. PICK c \in Contents : past' = [past EXCEPT ![g] = Append(@, c)]
  BY DEF WriteFile
<1>2. UNCHANGED <<away, entries, client, cacheScope>> /\ Stat(g) < cacheScope.writes
  BY DEF WriteFile
<1>3. /\ KeySet' = KeySet /\ EntrySet' = EntrySet /\ ClientStates' = ClientStates
      /\ Asking' = Asking /\ Stamping' = Stamping /\ Putting' = Putting /\ Pruning' = Pruning
  BY <1>2, SameSets
<1>4. CacheTypes'
  <2>1. ASSUME NEW f \in Files
        PROVE  Stat(f)' \in 1..cacheScope'.writes
    <3>1. Stat(f) \in Nat /\ Stat(f) >= 1 /\ Stat(f) <= cacheScope.writes /\ cacheScope.writes \in Nat
      BY KeyFacts, WritesNat DEF CacheInv
    <3>2. Stat(f)' = IF f = g THEN Stat(f) + 1 ELSE Stat(f)
      BY <1>1, WrittenStays DEF CacheInv, Stat
    <3>3. QED
      BY <1>2, <3>1, <3>2
  <2>2. past' \in [Files -> Seq(Contents)]
    <3>1. past' = [f \in Files |-> past'[f]]
      BY <1>1 DEF CacheInv, CacheTypes
    <3>2. \A f \in Files : past'[f] \in Seq(Contents)
      BY <1>1, WrittenStays DEF CacheInv
    <3>3. QED
      BY <3>1, <3>2
  <2>3. /\ cacheScope' \in CacheScopes /\ away' \in SUBSET Files
        /\ entries' \in Seq(EntrySet) /\ client' \in [Clients -> ClientStates]
    BY <1>2 DEF CacheInv, CacheTypes
  <2>4. OneOfAKey(entries)'
    BY <1>2 DEF CacheInv, CacheTypes, OneOfAKey
  <2>5. QED
    BY <1>3, <2>1, <2>2, <2>3, <2>4 DEF CacheTypes
<1>5. ASSUME NEW e \in EntrySet, RowTrue(e)
      PROVE  RowTrue(e)'
  <2>1. e.key \in KeySet
    BY DEF EntrySet
  <2>2. CASE e.key.ns = "host"
    <3>1. e.key.path \in Files /\ e.key.stat \in Nat /\ e.key.stat >= 1
      BY <2>1, <2>2, KeyTells DEF CacheInv
    <3>2. e.key.stat <= Stat(e.key.path)
      BY <1>5, <2>2 DEF RowTrue
    <3>3. /\ Stat(e.key.path) <= Stat(e.key.path)' /\ Stat(e.key.path) \in Nat /\ Stat(e.key.path)' \in Nat
          /\ \A i \in 1..Stat(e.key.path) : past'[e.key.path][i] = past[e.key.path][i]
      BY <1>1, <3>1, WrittenStays DEF CacheInv, Stat
    <3>4. e.key.stat \in 1..Stat(e.key.path)
      BY <3>1, <3>2, <3>3
    <3>5. past'[e.key.path][e.key.stat] = past[e.key.path][e.key.stat]
      BY <3>3, <3>4
    <3>6. e.key.stat <= Stat(e.key.path)'
      BY <3>1, <3>2, <3>3
    <3>7. QED
      BY <1>5, <2>2, <3>5, <3>6 DEF RowTrue, Named
  <2>3. CASE e.key.ns # "host"
    BY <1>5, <2>3 DEF RowTrue, Named
  <2>4. QED
    BY <2>2, <2>3
<1>6. ASSUME NEW e \in Range(entries)
      PROVE  RowTrue(e)'
  BY <1>5 DEF CacheInv, CacheTypes, RowsTrue, Range
<1>7. RowsTrue'
  BY <1>2, <1>6 DEF RowsTrue
<1>8. ASSUME NEW x, x \in Asking \cup Stamping, AskedTrue(x)
      PROVE  /\ AskedTrue(x)'
             /\ ComputedTrue(x) => ComputedTrue(x)'
  <2>1. x.file \in Files /\ x.from \in Nat
    BY <1>8 DEF Asking, Stamping
  <2>2. x.from \in 1..Stat(x.file)
    BY <1>8 DEF AskedTrue
  <2>3. /\ Len(past[x.file]) <= Len(past'[x.file]) /\ Len(past[x.file]) \in Nat /\ Len(past'[x.file]) \in Nat
        /\ \A i \in 1..Len(past[x.file]) : past'[x.file][i] = past[x.file][i]
        /\ Len(past'[x.file]) = IF x.file = g THEN Len(past[x.file]) + 1 ELSE Len(past[x.file])
        /\ x.file # g => past'[x.file] = past[x.file]
    BY <1>1, <2>1, WrittenStays DEF CacheInv
  <2>4. x.from \in 1..Stat(x.file)' /\ past'[x.file][x.from] = past[x.file][x.from]
    BY <2>2, <2>3 DEF Stat
  <2>5. AskedTrue(x)'
    BY <1>8, <2>4 DEF AskedTrue
  <2>6. x.file = g => x.from # Stat(x.file)'
    BY <2>2, <2>3 DEF Stat
  <2>7. ComputedTrue(x) => ComputedTrue(x)'
    BY <2>3, <2>6 DEF ComputedTrue, Current, Stat
  <2>8. QED
    BY <2>5, <2>7
<1>9. ASSUME NEW x \in Pruning, DoomedTrue(x)
      PROVE  DoomedTrue(x)'
  <2>1. ASSUME NEW d \in x.doomed, d.key.ns = "host"
        PROVE  d.path = d.key.path /\ (d.path \in x.gone \/ d.key.stat < Stat(d.path)')
    <3>1. d.key \in KeySet
      BY DEF Pruning
    <3>2. d.key.path \in Files /\ d.key.stat \in Nat
      BY <2>1, <3>1, KeyTells DEF CacheInv
    <3>3. d.path = d.key.path /\ (d.path \in x.gone \/ d.key.stat < Stat(d.path))
      BY <1>9, <2>1 DEF DoomedTrue
    <3>4. Stat(d.path) <= Stat(d.path)' /\ Stat(d.path) \in Nat /\ Stat(d.path)' \in Nat
      BY <1>1, <3>2, <3>3, WrittenStays DEF CacheInv, Stat
    <3>5. QED
      BY <3>2, <3>3, <3>4
  <2>2. QED
    BY <2>1 DEF DoomedTrue
<1>10. ASSUME NEW x \in ClientStates, ClientTrue(x)
       PROVE  ClientTrue(x)'
  <2>1. x \in Asking \cup Stamping => AskedTrue(x)'
    BY <1>8, <1>10 DEF ClientTrue
  <2>2. x \in Stamping => ComputedTrue(x)'
    BY <1>8, <1>10 DEF ClientTrue
  <2>3. x \in Putting => RowTrue(x.entry)'
    <3>1. x \in Putting => x.entry \in EntrySet
      BY DEF Putting
    <3>2. QED
      BY <1>5, <1>10, <3>1 DEF ClientTrue
  <2>4. x \in Pruning => DoomedTrue(x)'
    BY <1>9, <1>10 DEF ClientTrue
  <2>5. QED
    BY <1>3, <2>1, <2>2, <2>3, <2>4 DEF ClientTrue
<1>11. ASSUME NEW q \in Clients
       PROVE  ClientTrue(client[q])'
  <2>1. ClientTrue(client[q]) /\ client[q] \in ClientStates
    BY DEF CacheInv, CacheTypes, ClientsTrue
  <2>2. PICK x : x = client[q]
    OBVIOUS
  <2>3. ClientTrue(x)' /\ client'[q] = x
    BY <1>2, <1>10, <2>1, <2>2
  <2>4. QED
    BY <2>3 DEF ClientTrue, AskedTrue, ComputedTrue, DoomedTrue, RowTrue, Named, Current, Stat
<1>12. ClientsTrue'
  BY <1>11 DEF ClientsTrue
<1>13. QED
  BY <1>4, <1>7, <1>12 DEF CacheInv

LEMMA MoveKeeps == ASSUME CacheInv, NEW f \in Files, MoveFile(f) PROVE CacheInv'
<1>1. UNCHANGED <<past, entries, client, cacheScope>>
  BY DEF MoveFile
<1>2. away' \in SUBSET Files
  BY DEF MoveFile, CacheInv, CacheTypes
<1>3. /\ EntrySet' = EntrySet /\ ClientStates' = ClientStates /\ Asking' = Asking
      /\ Stamping' = Stamping /\ Putting' = Putting /\ Pruning' = Pruning
  BY <1>1, SameSets
<1>4. CacheTypes'
  BY <1>1, <1>2, <1>3 DEF CacheInv, CacheTypes, OneOfAKey, Stat
<1>5. RowsTrue'
  BY <1>1 DEF CacheInv, RowsTrue, RowTrue, Named, Stat
<1>6. ClientsTrue'
  BY <1>1, <1>3 DEF CacheInv, ClientsTrue, ClientTrue, AskedTrue, ComputedTrue, DoomedTrue,
                    RowTrue, Named, Current, Stat
<1>7. QED
  BY <1>4, <1>5, <1>6 DEF CacheInv

-----------------------------------------------------------------------------

LEMMA CacheStarts == CacheInit => CacheInv
<1> SUFFICES ASSUME CacheInit
             PROVE  CacheInv
  OBVIOUS
<1>1. cacheScope \in CacheScopes /\ away = {} /\ entries = <<>>
  BY DEF CacheInit
<1>2. cacheScope.writes \in Nat \ {0}
  BY <1>1, BytesAssumption
<1>3. ASSUME NEW f \in Files
      PROVE  past[f] \in Seq(Contents) /\ Stat(f) \in 1..cacheScope.writes
  <2>1. PICK c \in Contents : past[f] = <<c>>
    BY DEF CacheInit
  <2>2. <<c>> \in Seq(Contents) /\ Len(<<c>>) = 1
    OBVIOUS
  <2>3. QED
    BY <1>2, <2>1, <2>2 DEF Stat
<1>4. past \in [Files -> Seq(Contents)]
  BY <1>3 DEF CacheInit
<1>5. client \in [Clients -> ClientStates] /\ \A p \in Clients : client[p] = Resting
  BY AtRest DEF CacheInit
<1>6. entries \in Seq(EntrySet) /\ OneOfAKey(entries) /\ Range(entries) = {}
  BY <1>1 DEF OneOfAKey, Range
<1>7. CacheTypes
  BY <1>1, <1>3, <1>4, <1>5, <1>6 DEF CacheTypes
<1>8. RowsTrue /\ ClientsTrue
  BY <1>5, <1>6, AtRest DEF RowsTrue, ClientsTrue
<1>9. QED
  BY <1>7, <1>8 DEF CacheInv

LEMMA CacheKeeps == CacheInv /\ [CacheNext]_cacheVars => CacheInv'
<1> SUFFICES ASSUME CacheInv, [CacheNext]_cacheVars
             PROVE  CacheInv'
  OBVIOUS
<1>1. CASE UNCHANGED cacheVars
  <2>1. UNCHANGED <<past, away, entries, client, cacheScope>>
    BY <1>1 DEF cacheVars
  <2>2. /\ EntrySet' = EntrySet /\ ClientStates' = ClientStates /\ Asking' = Asking
        /\ Stamping' = Stamping /\ Putting' = Putting /\ Pruning' = Pruning
    BY <2>1, SameSets
  <2>3. CacheTypes'
    BY <2>1, <2>2 DEF CacheInv, CacheTypes, OneOfAKey, Stat
  <2>4. RowsTrue'
    BY <2>1 DEF CacheInv, RowsTrue, RowTrue, Named, Stat
  <2>5. ClientsTrue'
    BY <2>1, <2>2 DEF CacheInv, ClientsTrue, ClientTrue, AskedTrue, ComputedTrue, DoomedTrue,
                      RowTrue, Named, Current, Stat
  <2>6. QED
    BY <2>3, <2>4, <2>5 DEF CacheInv
<1>2. ASSUME NEW p \in Clients, Ask(p) \/ Select(p) \/ Touch(p) \/ Compute(p) \/ Stamp(p) \/ Put(p)
      PROVE  CacheInv'
  BY <1>2, AskKeeps, SelectKeeps, TouchKeeps, ComputeKeeps, StampKeeps, PutKeeps
<1>3. ASSUME NEW p \in Clients, List(p) \/ Prune(p) \/ DeleteBinary(p) \/ Clear(p)
      PROVE  CacheInv'
  BY <1>3, ListKeeps, PruneKeeps, DeleteKeeps
<1>4. ASSUME NEW f \in Files, WriteFile(f) \/ MoveFile(f)
      PROVE  CacheInv'
  BY <1>4, WriteKeeps, MoveKeeps
<1>5. QED
  BY <1>1, <1>2, <1>3, <1>4 DEF CacheNext

\* What a result is kept under is what it was computed from, unless the file was written while
\* it was computed: a row is stored by writeCache under the file's stat, or by decompile.py under
\* the hash, and nothing that others write, store or purge makes it untrue.
THEOREM ResultsKept == CacheSpec => []KeptAsComputed
<1>1. CacheInv => KeptAsComputed
  BY DEF CacheInv, RowsTrue, RowTrue, KeptAsComputed
<1>2. QED
  BY <1>1, CacheStarts, CacheKeeps, PTL DEF CacheSpec

\* The variables of the cache have their types, and the table holds one row of a key.
THEOREM ResultTypesCorrect == CacheSpec => []CacheTypeOK
<1>1. QED
  BY CacheTypesImply, CacheStarts, CacheKeeps, PTL DEF CacheSpec

-----------------------------------------------------------------------------
(* What a step may do to what is stored *)

\* A process that puts leaves that step by its put.
LEMMA StepOf ==
    ASSUME CacheInv, CacheNext, NEW p \in Clients, client'[p] # client[p]
    PROVE  /\ client[p].step = "put" => Put(p)
           /\ client[p].step = "prune" => Prune(p)
<1>1. client \in [Clients -> ClientStates]
  BY DEF CacheInv, CacheTypes
<1>2. ASSUME NEW q \in Clients,
             Ask(q) \/ Select(q) \/ Touch(q) \/ Compute(q) \/ Stamp(q) \/ Put(q)
                 \/ List(q) \/ Prune(q) \/ DeleteBinary(q) \/ Clear(q)
      PROVE  q = p /\ (Put(q) \/ Prune(q) \/ client[q].step \notin {"put", "prune"})
  <2>1. Resting.step = "rest"
    BY DEF Resting
  <2>2. CASE Ask(q) \/ List(q)
    BY <1>1, <2>1, <2>2 DEF Ask, List
  <2>3. CASE Select(q) \/ Touch(q) \/ Compute(q) \/ Stamp(q)
    <3>1. client[q].step \in {"select", "touch", "compute", "stamp"}
      BY <2>3 DEF Select, Touch, Compute, Stamp
    <3>2. \E c : client' = [client EXCEPT ![q] = c]
      BY <2>3 DEF Select, Touch, Compute, Stamp
    <3>3. QED
      BY <1>1, <3>1, <3>2
  <2>4. CASE Put(q) \/ Prune(q)
    <3>1. client' = [client EXCEPT ![q] = Resting]
      BY <2>4 DEF Put, Prune
    <3>2. QED
      BY <1>1, <2>4, <3>1
  <2>5. CASE DeleteBinary(q) \/ Clear(q)
    BY <2>5 DEF DeleteBinary, Clear
  <2>6. QED
    BY <1>2, <2>2, <2>3, <2>4, <2>5
<1>3. \A f \in Files : WriteFile(f) \/ MoveFile(f) => client' = client
  BY DEF WriteFile, MoveFile
<1>4. PICK q \in Clients :
          Ask(q) \/ Select(q) \/ Touch(q) \/ Compute(q) \/ Stamp(q) \/ Put(q)
              \/ List(q) \/ Prune(q) \/ DeleteBinary(q) \/ Clear(q)
  BY <1>3 DEF CacheNext
<1>5. q = p /\ (Put(q) \/ Prune(q) \/ client[q].step \notin {"put", "prune"})
  BY <1>2, <1>4
<1>6. Put(q) => client[q].step = "put"
  BY DEF Put
<1>7. Prune(q) => client[q].step = "prune"
  BY DEF Prune
<1>8. QED
  BY <1>5, <1>6, <1>7

\* The row before the end of a table, in front of that end.
LEMMA OneMore ==
    ASSUME NEW T, NEW old \in Seq(T), NEW e \in T, NEW n \in 1..Len(old)
    PROVE  LET seq == Append(old, e) IN
           SubSeq(seq, n, Len(old) + 1) = <<old[n]>> \o SubSeq(seq, n + 1, Len(old) + 1)
<1> DEFINE seq == Append(old, e)
           l == Len(old) + 1
<1>1. seq \in Seq(T) /\ Len(seq) = l /\ seq[n] = old[n]
  OBVIOUS
<1>2. n \in 1..Len(seq) /\ l \in n..Len(seq)
  OBVIOUS
<1> HIDE DEF seq, l
<1>3. SubSeq(seq, n, l) = <<seq[n]>> \o SubSeq(seq, n + 1, l)
  BY <1>1, <1>2, SubSeqRecursiveFirst
<1>4. QED
  BY <1>1, <1>3 DEF seq, l

LEMMA PutTells ==
    ASSUME CacheInv, NEW p \in Clients, Put(p)
    PROVE  LET given == client[p].entry
               old == KeptBut(Under(given.key))
               n == Len(old) - (Len(entries') - 1)
           IN /\ entries' # <<>> /\ Fits(entries')
              /\ entries' = SubSeq(Append(old, given), n + 1, Len(old) + 1)
              /\ n > 0 => ~Fits(<<old[n]>> \o entries')
<1> DEFINE given == client[p].entry
           old == KeptBut(Under(given.key))
           seq == Append(old, given)
           n == Len(old) - (Len(entries') - 1)
<1>1. given \in EntrySet
  BY ClientKnown DEF Put
<1>2. old \in Seq(EntrySet)
  BY Fewer
<1>3. /\ Len(old) \in Nat /\ Len(seq) = Len(old) + 1
      /\ \E m \in 0..Len(old) :
            /\ entries' = SubSeq(seq, m + 1, Len(seq))
            /\ Fits(entries')
            /\ m > 0 => ~Fits(SubSeq(seq, m, Len(seq)))
      /\ entries' # <<>> /\ OneOfAKey(seq)
  <2>1. OneOfAKey(seq)
    BY <1>1, RowAdded, ClientKnown DEF Put
  <2>2. QED
    BY <2>1, PutEntries
<1>4. PICK m \in 0..Len(old) :
          /\ entries' = SubSeq(seq, m + 1, Len(seq))
          /\ Fits(entries')
          /\ m > 0 => ~Fits(SubSeq(seq, m, Len(seq)))
  BY <1>3
<1>5. seq \in Seq(EntrySet)
  BY <1>1, <1>2
<1> HIDE DEF given, old
<1>6. n = m
  <2>1. m \in 0..(Len(seq) - 1)
    BY <1>3
  <2> HIDE DEF seq
  <2>2. Len(entries') = Len(seq) - m
    BY <1>3, <1>4, <1>5, <2>1, EndOf
  <2>3. m \in Nat
    BY <1>3
  <2>4. QED
    BY <1>3, <2>2, <2>3
<1> HIDE DEF n
<1>7. ASSUME n > 0
      PROVE  ~Fits(<<old[n]>> \o entries')
  <2>1. n \in 1..Len(old)
    BY <1>3, <1>6, <1>7
  <2>2. SubSeq(seq, n, Len(old) + 1) = <<old[n]>> \o SubSeq(seq, n + 1, Len(old) + 1)
    BY <1>1, <1>2, <2>1, OneMore
  <2> HIDE DEF seq
  <2>3. QED
    BY <1>3, <1>4, <1>6, <1>7, <2>2
<1>8. QED
  BY <1>3, <1>4, <1>6, <1>7 DEF given, old, n

LEMMA PruneTells ==
    ASSUME CacheInv, NEW p \in Clients, Prune(p),
           NEW e \in Range(entries) \ Range(entries'), e.key.ns = "host",
           e.key.stat = Stat(e.key.path)
    PROVE  e.key.path \in client[p].gone
<1> DEFINE d == [key |-> e.key, path |-> e.path]
           doomed == {x \in Range(entries) : [key |-> x.key, path |-> x.path] \in client[p].doomed}
<1>1. entries' = KeptBut(doomed)
  BY DEF Prune
<1>2. e \in doomed
  <2> HIDE DEF doomed
  <2>1. QED
    BY <1>1, Fewer
<1>3. d \in client[p].doomed
  BY <1>2
<1>4. client[p] \in Pruning /\ DoomedTrue(client[p])
  BY ClientKnown DEF Prune
<1>5. d.key.ns = "host" /\ d.key = e.key
  OBVIOUS
<1> HIDE DEF d
<1>6. d.path = d.key.path /\ (d.path \in client[p].gone \/ d.key.stat < Stat(d.path))
  BY <1>3, <1>4, <1>5 DEF DoomedTrue
<1>7. e \in EntrySet
  BY DEF CacheInv, CacheTypes, Range
<1>8. e.key \in KeySet
  BY <1>7 DEF EntrySet
<1>9. e.key.stat \in Nat
  BY <1>8, KeyTells DEF CacheInv
<1>10. QED
  BY <1>5, <1>6, <1>9

\* A put keeps what it was given and evicts, the longest unread first, no more than the limits
\* ask (put_payload with _enforce_limits); a prune deletes no result of the host that could be
\* served, unless its file was away when the rows were listed.
THEOREM StoredSurvives == CacheSpec => StoreChanges
<1>1. ASSUME CacheInv, CacheNext, NEW p \in Clients, client[p].step = "put", client'[p] # client[p]
      PROVE  LET given == client[p].entry
                 old == KeptBut(Under(given.key))
                 n == Len(old) - (Len(entries') - 1)
             IN /\ entries' # <<>> /\ Fits(entries')
                /\ entries' = SubSeq(Append(old, given), n + 1, Len(old) + 1)
                /\ n > 0 => ~Fits(<<old[n]>> \o entries')
  <2>1. Put(p)
    BY <1>1, StepOf
  <2>2. QED
    BY <1>1, <2>1, PutTells
<1>2. ASSUME CacheInv, CacheNext, NEW p \in Clients, client[p].step = "prune", client'[p] # client[p],
             NEW e \in Range(entries) \ Range(entries'), e.key.ns = "host", e.key.stat = Stat(e.key.path)
      PROVE  e.key.path \in client[p].gone
  <2>1. Prune(p)
    BY <1>2, StepOf
  <2>2. QED
    BY <1>2, <2>1, PruneTells
<1>3. CacheSpec => PutKeepsLatest
  <2>1. CacheInv /\ [CacheNext]_cacheVars =>
            [\A p \in Clients : client[p].step = "put" /\ client'[p] # client[p] =>
                LET given == client[p].entry
                    old == KeptBut(Under(given.key))
                    n == Len(old) - (Len(entries') - 1)
                IN /\ entries' # <<>> /\ Fits(entries')
                   /\ entries' = SubSeq(Append(old, given), n + 1, Len(old) + 1)
                   /\ n > 0 => ~Fits(<<old[n]>> \o entries')]_cacheVars
    BY <1>1
  <2>2. QED
    BY <2>1, CacheStarts, CacheKeeps, PTL DEF CacheSpec, PutKeepsLatest
<1>4. CacheSpec => PruneSparesServed
  <2>1. CacheInv /\ [CacheNext]_cacheVars =>
            [\A p \in Clients : client[p].step = "prune" /\ client'[p] # client[p] =>
                \A e \in Range(entries) \ Range(entries') :
                    e.key.ns = "host" /\ e.key.stat = Stat(e.key.path) =>
                        e.key.path \in client[p].gone]_cacheVars
    BY <1>2
  <2>2. QED
    BY <2>1, CacheStarts, CacheKeeps, PTL DEF CacheSpec, PruneSparesServed
<1>5. QED
  BY <1>3, <1>4 DEF StoreChanges

-----------------------------------------------------------------------------
(* Plugins *)

Stores == [PluginIds -> [version : 0..2, place : {0} \cup Places, attested : BOOLEAN]]
RecordStates == {"absent", "invalid", "incompatible", "locked", "active", "failed", "pending_consent"}
Records == [Places -> [state : RecordStates, bundle : Bundles \cup {NoBundle}]]
PluginSteps ==
    {"registry", "lock", "write", "consent", "attach", "stage", "remove", "move", "done", "dead"}
Answers == PluginIds \cup {"", "none", "refused", "ok", "error"}
CommandMaps == UNION {[S -> PluginIds] : S \in SUBSET Commands}
TaskStates ==
    [at : PluginSteps, copy : Stores, records : Records, place : Nat, round : {1, 2},
     commands : CommandMaps, chosen : Nat, answer : Answers]

PluginTypes ==
    /\ pluginScope \in PluginScopes
    /\ disk \in [Places -> [bundle : Bundles \cup {NoBundle}, whole : BOOLEAN]]
    /\ task \in [Tasks -> TaskStates]
    /\ lockHolder \in {0} \cup Tasks
    /\ consent \in Stores
    /\ moved \in [Tasks -> BOOLEAN] /\ faltered \in [Tasks -> BOOLEAN]
    /\ allowed \in [Tasks -> SUBSET Stores] /\ ran \in [Tasks -> SUBSET [bundle : Bundles, place : Places]]

\* What a process is at is a step of its job.
StepOfJob(t) ==
    /\ task[t].at \in {"stage", "remove", "move"} => Job(t).kind = "install"
    /\ task[t].at \in {"lock", "write"} => Job(t).kind \in {"grant", "revoke"}
    /\ task[t].at = "registry" => Job(t).kind \notin {"install", "revoke"}
    /\ task[t].at \in {"consent", "attach"} => Job(t).kind \in {"command", "feature"}

\* Only its holder writes the file, and writes what it read; what it grants was found.
LockOf(t) ==
    /\ At(t, "write") => lockHolder = t /\ task[t].copy \in Readings
    /\ task[t].at \in {"lock", "write"} /\ Job(t).kind = "grant" =>
           task[t].place \in Places /\ task[t].records[task[t].place].bundle \in Bundles

\* The states of a record whose code the process may have run.
Tried == {"active", "failed", "pending_consent"}
Of(t, k) == task[t].records[k].bundle
StateOf(t, k) == task[t].records[k].state

\* What the registry found: of two plugins that may run each has an id of its own, and the
\* directories hold what was found unless the disk moved.
FoundBy(t) ==
    /\ \A k \in Places : StateOf(t, k) # "absent" => Of(t, k) \in Bundles
    /\ \A j, k \in Places :
          StateOf(t, j) \in Tried /\ StateOf(t, k) \in Tried /\ Of(t, j).id = Of(t, k).id => j = k
    /\ ~moved[t] => \A k \in Places : StateOf(t, k) # "absent" => disk[k].bundle = Of(t, k)

\* What was read is a state the process may go by, and what it passed on the way had a consent.
VettedBy(t) ==
    /\ task[t].at \in {"registry", "consent"} => task[t].round = 1 /\ CommandsOf(t) = {}
    /\ At(t, "registry") => ran[t] = {}
    /\ At(t, "consent") => consent \in allowed[t] /\ task[t].place = 1
    /\ At(t, "attach") =>
          /\ task[t].copy \in allowed[t] \cup {Nothing} /\ task[t].place >= 1
          /\ \A k \in Places :
                StateOf(t, k) = "active" /\ (task[t].round = 2 \/ k < task[t].place) =>
                    Consented(task[t].copy, Of(t, k), k) /\ Of(t, k).check # "newer"

\* What was run is a record that was tried, under a consent, or plain and moved.
RanBy(t) ==
    \A e \in ran[t] :
        /\ StateOf(t, e.place) \in Tried
        /\ \/ e.bundle = Of(t, e.place) /\ \E s \in allowed[t] : Consented(s, e.bundle, e.place)
           \/ moved[t] /\ e.bundle.licence # "sealed"

\* Whose a command is: the last of those that register it, among the places before p.
Registers(t, k, c) == StateOf(t, k) = "active" /\ c \in Of(t, k).registers
OwnerBefore(t, c, k, p) ==
    /\ k \in Places /\ k < p /\ Registers(t, k, c)
    /\ \A j \in Places : k < j /\ j < p => ~Registers(t, j, c)
Undisturbed(t) == ~moved[t] /\ ~faltered[t]

\* While nothing disturbed it, the commands of a process are those of the last owners, and
\* the one it chose, among all places, is of the plugin that was expected.
Owned(t) ==
    \A c \in CommandsOf(t) :
        \E k \in Places : OwnerBefore(t, c, k, task[t].place) /\ task[t].commands[c] = Of(t, k).id
ChosenOwned(t) ==
    task[t].round = 2 /\ Job(t).expected # "" =>
        \E k \in Places : OwnerBefore(t, task[t].chosen, k, Len(pluginScope.places) + 1)
                             /\ Of(t, k).id = Job(t).expected
OwnedBy(t) == At(t, "attach") /\ Undisturbed(t) => Owned(t) /\ ChosenOwned(t)

\* The answer of a feature that names its plugin.
AnswerOf(t) ==
    (/\ Job(t).kind = "feature" /\ Job(t).expected # "" /\ Undisturbed(t)
     /\ task[t].at = "done" /\ task[t].answer \notin {"none", "refused"})
    => task[t].answer = Job(t).expected

ProcessInv(t) ==
    StepOfJob(t) /\ LockOf(t) /\ FoundBy(t) /\ VettedBy(t) /\ RanBy(t) /\ OwnedBy(t) /\ AnswerOf(t)

\* A place that is not whole is being emptied, or its installation ended badly.
Empties(t, k) ==
    /\ Job(t).kind = "install" /\ Target(t) = k
    /\ At(t, "remove") \/ At(t, "dead") \/ (At(t, "done") /\ task[t].answer = "error")
EmptiedInv == \A k \in Places : ~disk[k].whole => \E t \in Tasks : Empties(t, k)

PluginInv == PluginTypes /\ consent = willed /\ (\A t \in Tasks : ProcessInv(t)) /\ EmptiedInv

-----------------------------------------------------------------------------
\* What a scope is.
LEMMA OneScope ==
    ASSUME NEW s \in PluginScopes
    PROVE  /\ s.places \in Seq([dir : PluginIds, workspace : BOOLEAN])
           /\ s.disk \in [DOMAIN s.places -> Bundles \cup {NoBundle}]
           /\ s.jobs \in [Tasks -> Jobs]
           /\ \A t \in Tasks : s.jobs[t].kind = "install" =>
                  /\ s.jobs[t].bundle \in Bundles
                  /\ \E k \in DOMAIN s.places : s.places[k].dir = s.jobs[t].bundle.id /\ ~s.places[k].workspace
           /\ s.store \in [PluginIds -> [version : 0..2, place : {0} \cup DOMAIN s.places, attested : BOOLEAN]]
           /\ Commands \subseteq Nat \ {0} /\ NoBundle \notin Bundles
           /\ s.keys \subseteq PluginIds /\ s.alike \subseteq Commands
  BY PluginAssumption, Zenon

LEMMA ScopeFacts ==
    ASSUME pluginScope \in PluginScopes
    PROVE  /\ Places = 1..Len(pluginScope.places) /\ Len(pluginScope.places) \in Nat
           /\ \A k \in Places : pluginScope.places[k].dir \in PluginIds
           /\ \A t \in Tasks : Job(t) \in Jobs
           /\ \A t \in Tasks : Job(t).kind = "install" =>
                  Job(t).bundle \in Bundles /\ Target(t) \in Places
           /\ pluginScope.store \in Stores
           /\ pluginScope.disk \in [Places -> Bundles \cup {NoBundle}]
           /\ pluginScope.alike \subseteq Commands /\ Commands \subseteq Nat \ {0} /\ NoBundle \notin Bundles
<1>1. Places = 1..Len(pluginScope.places) /\ Len(pluginScope.places) \in Nat
      /\ \A k \in Places : pluginScope.places[k].dir \in PluginIds
  <2> DEFINE ps == pluginScope.places
  <2>1. ps \in Seq([dir : PluginIds, workspace : BOOLEAN])
    BY OneScope
  <2>2. Places = DOMAIN ps
    BY DEF Places
  <2> HIDE DEF ps
  <2>3. Places = 1..Len(ps) /\ Len(ps) \in Nat
    BY <2>1, <2>2, LenProperties
  <2>4. \A k \in 1..Len(ps) : ps[k] \in [dir : PluginIds, workspace : BOOLEAN]
    BY <2>1, ElementOfSeq
  <2>5. \A k \in Places : ps[k].dir \in PluginIds
    BY <2>3, <2>4
  <2>6. QED
    BY <2>3, <2>5 DEF ps
<1>2. ASSUME NEW t \in Tasks, Job(t).kind = "install"
      PROVE  Job(t).bundle \in Bundles /\ Target(t) \in Places
  <2>1. Job(t).bundle \in Bundles
    BY OneScope, <1>2 DEF Job
  <2>2. \E k \in Places : pluginScope.places[k].dir = Bundle(t).id /\ ~InWorkspace(k)
    BY OneScope, <1>2 DEF Job, Places, Bundle, InWorkspace
  <2>3. Destination(Bundle(t).id) \in Places
    BY <2>2 DEF Destination
  <2>4. QED
    BY <2>1, <2>3 DEF Target
<1>3. \A t \in Tasks : Job(t) \in Jobs
  BY OneScope DEF Job
<1>4. pluginScope.store \in Stores
  BY OneScope DEF Stores, Places
<1>5. pluginScope.disk \in [Places -> Bundles \cup {NoBundle}]
  BY OneScope DEF Places
<1>6. pluginScope.alike \subseteq Commands /\ Commands \subseteq Nat \ {0} /\ NoBundle \notin Bundles
  BY OneScope
<1>7. QED
  BY <1>1, <1>2, <1>3, <1>4, <1>5, <1>6

\* A process, field by field.
LEMMA TaskFacts ==
    ASSUME PluginTypes, NEW t \in Tasks
    PROVE  /\ task[t] \in TaskStates
           /\ task[t].at \in PluginSteps /\ task[t].copy \in Stores /\ task[t].records \in Records
           /\ task[t].place \in Nat /\ task[t].round \in {1, 2}
           /\ task[t].commands \in CommandMaps /\ task[t].chosen \in Nat /\ task[t].answer \in Answers
           /\ \A k \in Places : Of(t, k) \in Bundles \cup {NoBundle} /\ StateOf(t, k) \in RecordStates
  BY DEF PluginTypes, TaskStates, Records, Of, StateOf

LEMMA CommandFacts ==
    ASSUME PluginTypes, NEW t \in Tasks
    PROVE  CommandsOf(t) \subseteq Commands /\ \A c \in CommandsOf(t) : task[t].commands[c] \in PluginIds
<1>1. task[t].commands \in CommandMaps
  BY TaskFacts
<1>2. PICK S \in SUBSET Commands : task[t].commands \in [S -> PluginIds]
  BY <1>1 DEF CommandMaps
<1>3. QED
  BY <1>2 DEF CommandsOf

\* A process that goes on: its state is q, and the others are where they were.
Becomes(t, q) == q \in TaskStates /\ task' \in [Tasks -> TaskStates] /\ task'[t] = q
                    /\ \A u \in Tasks : u # t => task'[u] = task[u]

LEMMA OneTask ==
    ASSUME PluginTypes, NEW t \in Tasks, NEW q \in TaskStates, task' = [task EXCEPT ![t] = q]
    PROVE  Becomes(t, q)
  BY DEF PluginTypes, Becomes

\* What becomes of a process:
WithAt(r, step) == [r EXCEPT !.at = step]
TaskOver(r, a) == [r EXCEPT !.at = "done", !.answer = a]
HasRead(r, store, step) == [r EXCEPT !.copy = store, !.at = step]
HasFound(r, hits, n, step) == [r EXCEPT !.records = hits, !.place = n, !.at = step]
Past(r, records, n) == [r EXCEPT !.records = records, !.place = n]
Commanding(r, cs) == [r EXCEPT !.commands = cs]
Restarted(r, c, cs) == [r EXCEPT !.chosen = c, !.round = 2, !.place = 1, !.commands = cs]

\* it is at another step,
LEMMA WithStep ==
    ASSUME NEW r \in TaskStates, NEW step \in PluginSteps
    PROVE  LET q == WithAt(r, step) IN
           /\ q \in TaskStates /\ q.at = step /\ q.copy = r.copy /\ q.records = r.records
           /\ q.place = r.place /\ q.round = r.round /\ q.commands = r.commands
           /\ q.chosen = r.chosen /\ q.answer = r.answer
  BY DEF TaskStates, WithAt

\* it has an answer,
LEMMA WithAnswer ==
    ASSUME NEW r \in TaskStates, NEW a \in Answers
    PROVE  LET q == TaskOver(r, a) IN
           /\ q \in TaskStates /\ q.at = "done" /\ q.copy = r.copy /\ q.records = r.records
           /\ q.place = r.place /\ q.round = r.round /\ q.commands = r.commands
           /\ q.chosen = r.chosen /\ q.answer = a
<1>1. "done" \in PluginSteps
  BY DEF PluginSteps
<1>2. QED
  BY <1>1 DEF TaskStates, TaskOver

\* it has read the file,
LEMMA WithCopy ==
    ASSUME NEW r \in TaskStates, NEW step \in PluginSteps, NEW store \in Stores
    PROVE  LET q == HasRead(r, store, step) IN
           /\ q \in TaskStates /\ q.at = step /\ q.copy = store /\ q.records = r.records
           /\ q.place = r.place /\ q.round = r.round /\ q.commands = r.commands
           /\ q.chosen = r.chosen /\ q.answer = r.answer
  BY DEF TaskStates, HasRead

\* it has a registry,
LEMMA WithRecords ==
    ASSUME NEW r \in TaskStates, NEW hits \in Records, NEW n \in Nat, NEW step \in PluginSteps
    PROVE  LET q == HasFound(r, hits, n, step) IN
           /\ q \in TaskStates /\ q.at = step /\ q.copy = r.copy /\ q.records = hits
           /\ q.place = n /\ q.round = r.round /\ q.commands = r.commands
           /\ q.chosen = r.chosen /\ q.answer = r.answer
  BY DEF TaskStates, HasFound

\* it is past a record,
LEMMA PastRecord ==
    ASSUME NEW r \in TaskStates, NEW records \in Records, NEW n \in Nat
    PROVE  LET q == Past(r, records, n) IN
           /\ q \in TaskStates /\ q.at = r.at /\ q.copy = r.copy /\ q.records = records
           /\ q.place = n /\ q.round = r.round /\ q.commands = r.commands
           /\ q.chosen = r.chosen /\ q.answer = r.answer
  BY DEF TaskStates, Past

\* it has commands,
LEMMA WithCommands ==
    ASSUME NEW r \in TaskStates, NEW cs \in CommandMaps
    PROVE  LET q == Commanding(r, cs) IN
           /\ q \in TaskStates /\ q.at = r.at /\ q.copy = r.copy /\ q.records = r.records
           /\ q.place = r.place /\ q.round = r.round /\ q.commands = cs
           /\ q.chosen = r.chosen /\ q.answer = r.answer
  BY DEF TaskStates, Commanding

\* it begins the second attachment.
LEMMA Again ==
    ASSUME NEW r \in TaskStates, NEW c \in Nat, NEW cs \in CommandMaps
    PROVE  LET q == Restarted(r, c, cs) IN
           /\ q \in TaskStates /\ q.at = r.at /\ q.copy = r.copy /\ q.records = r.records
           /\ q.place = 1 /\ q.round = 2 /\ q.commands = cs /\ q.chosen = c /\ q.answer = r.answer
  BY DEF TaskStates, Restarted

\* The record it was at has a state, and it is at the next.
LEMMA NextFacts ==
    ASSUME PluginTypes, NEW t \in Tasks, NEW state \in RecordStates, NEW k \in Places
    PROVE  LET q == NextRecord(t, k, state) IN
           /\ q \in TaskStates
           /\ q.at = task[t].at /\ q.copy = task[t].copy /\ q.place = k + 1 /\ q.round = task[t].round
           /\ q.commands = task[t].commands /\ q.chosen = task[t].chosen /\ q.answer = task[t].answer
           /\ q.records[k].state = state /\ \A j \in Places : q.records[j].bundle = task[t].records[j].bundle
           /\ \A j \in Places : j # k => q.records[j] = task[t].records[j]
<1> DEFINE record == [task[t].records[k] EXCEPT !.state = state]
           records == [task[t].records EXCEPT ![k] = record]
<1>1. task[t].records \in [Places -> [state : RecordStates, bundle : Bundles \cup {NoBundle}]]
  BY TaskFacts DEF Records
<1>2. /\ record \in [state : RecordStates, bundle : Bundles \cup {NoBundle}]
      /\ record.state = state /\ record.bundle = task[t].records[k].bundle
  BY <1>1
<1> HIDE DEF record
<1>3. /\ records \in [Places -> [state : RecordStates, bundle : Bundles \cup {NoBundle}]]
      /\ records[k] = record /\ \A j \in Places : j # k => records[j] = task[t].records[j]
  BY <1>1, <1>2
<1>4. k + 1 \in Nat
  BY ScopeFacts DEF PluginTypes
<1>5. NextRecord(t, k, state) = Past(task[t], records, k + 1)
  BY DEF NextRecord, Past, record
<1> HIDE DEF records
<1>6. records \in Records /\ task[t] \in TaskStates
  BY <1>3, TaskFacts DEF Records
<1> DEFINE n == k + 1
<1>n. n \in Nat
  BY <1>4
<1> HIDE DEF n
<1>7. LET q == Past(task[t], records, n) IN
      /\ q \in TaskStates /\ q.at = task[t].at /\ q.copy = task[t].copy /\ q.records = records
      /\ q.place = n /\ q.round = task[t].round /\ q.commands = task[t].commands
      /\ q.chosen = task[t].chosen /\ q.answer = task[t].answer
  BY <1>6, <1>n, PastRecord
<1> DEFINE q == Past(task[t], records, n)
<1>8. /\ q \in TaskStates /\ q.at = task[t].at /\ q.copy = task[t].copy /\ q.records = records
      /\ q.place = n /\ q.round = task[t].round /\ q.commands = task[t].commands
      /\ q.chosen = task[t].chosen /\ q.answer = task[t].answer
  BY <1>7
<1>9. NextRecord(t, k, state) = q
  BY <1>5 DEF n
<1> HIDE DEF q
<1>10. q.records[k].state = state /\ \A j \in Places : q.records[j].bundle = task[t].records[j].bundle
  BY <1>2, <1>3, <1>8
<1>11. \A j \in Places : j # k => q.records[j] = task[t].records[j]
  BY <1>3, <1>8
<1>12. q.place = k + 1
  BY <1>8 DEF n
<1>13. QED
  BY <1>8, <1>9, <1>10, <1>11, <1>12

-----------------------------------------------------------------------------
\* The records of a process stay, and what is told of them goes on to hold.
RecordsStay(u) ==
    /\ task'[u].records = task[u].records
    /\ pluginScope' = pluginScope /\ ran'[u] = ran[u] /\ allowed[u] \subseteq allowed'[u]
    /\ moved[u] => moved'[u]
    /\ ~moved'[u] => \A k \in Places : disk'[k].bundle = disk[k].bundle

LEMMA RecordsKept ==
    ASSUME PluginTypes, NEW u \in Tasks, RecordsStay(u), FoundBy(u), RanBy(u)
    PROVE  FoundBy(u)' /\ RanBy(u)'
<1>1. Places' = Places /\ \A k \in Places : Of(u, k)' = Of(u, k) /\ StateOf(u, k)' = StateOf(u, k)
  BY DEF RecordsStay, Places, Of, StateOf
<1>2. FoundBy(u)'
  BY <1>1 DEF FoundBy, RecordsStay
<1>3. ASSUME NEW e \in ran'[u]
      PROVE  /\ StateOf(u, e.place)' \in Tried
             /\ \/ e.bundle = Of(u, e.place)' /\ \E s \in allowed'[u] : Consented(s, e.bundle, e.place)'
                \/ moved'[u] /\ e.bundle.licence # "sealed"
  <2>1. /\ StateOf(u, e.place) \in Tried
        /\ \/ e.bundle = Of(u, e.place) /\ \E s \in allowed[u] : Consented(s, e.bundle, e.place)
           \/ moved[u] /\ e.bundle.licence # "sealed"
    BY <1>3 DEF RecordsStay, RanBy
  <2>2. StateOf(u, e.place)' = StateOf(u, e.place) /\ Of(u, e.place)' = Of(u, e.place)
    BY DEF RecordsStay, Of, StateOf
  <2>3. \A s : Consented(s, e.bundle, e.place)' = Consented(s, e.bundle, e.place)
    BY DEF RecordsStay, Consented, InWorkspace
  <2>4. QED
    BY <2>1, <2>2, <2>3 DEF RecordsStay
<1>4. RanBy(u)'
  BY <1>3 DEF RanBy
<1>5. QED
  BY <1>2, <1>4

\* A process that another passes by.
Aside(u) ==
    /\ RecordsStay(u) /\ task'[u] = task[u] /\ faltered'[u] = faltered[u]
    /\ At(u, "write") => lockHolder' = lockHolder /\ consent' = consent
    /\ consent' = consent \/ consent' \in allowed'[u]

LEMMA AsideKeeps ==
    ASSUME PluginTypes, NEW u \in Tasks, Aside(u), ProcessInv(u)
    PROVE  ProcessInv(u)'
<1> USE DEF Aside
<1>1. Job(u)' = Job(u) /\ Places' = Places /\ Len(pluginScope.places)' = Len(pluginScope.places)
  BY DEF RecordsStay, Job, Places
<1>2. /\ \A step : At(u, step)' = At(u, step)
      /\ CommandsOf(u)' = CommandsOf(u)
      /\ \A k \in Places : Of(u, k)' = Of(u, k) /\ StateOf(u, k)' = StateOf(u, k)
  BY DEF At, CommandsOf, Of, StateOf
<1>3. \A s, b, k : Consented(s, b, k)' = Consented(s, b, k)
  BY DEF RecordsStay, Consented, InWorkspace
<1>4. StepOfJob(u)'
  BY <1>1, <1>2 DEF ProcessInv, StepOfJob
<1>5. LockOf(u)'
  <2>1. At(u, "write") => Readings' = Readings
    BY DEF RecordsStay, Readings, Nothing
  <2>2. QED
    BY <1>1, <1>2, <2>1 DEF ProcessInv, LockOf
<1>6. FoundBy(u)' /\ RanBy(u)'
  BY RecordsKept DEF ProcessInv
<1>7. VettedBy(u)'
  BY <1>1, <1>2, <1>3 DEF ProcessInv, VettedBy, RecordsStay
<1>8. OwnedBy(u)'
  <2>1. \A k \in Places : \A c : Registers(u, k, c)' = Registers(u, k, c)
    BY <1>2 DEF Registers
  <2>2. task'[u].place = task[u].place /\ task'[u].commands = task[u].commands
        /\ task'[u].chosen = task[u].chosen /\ task'[u].round = task[u].round
    OBVIOUS
  <2>3. (Owned(u) => Owned(u)') /\ (ChosenOwned(u) => ChosenOwned(u)')
    <3>1. Owned(u) => Owned(u)'
      BY <2>1, <2>2, <1>1, <1>2 DEF Owned, OwnerBefore
    <3>2. ChosenOwned(u) => ChosenOwned(u)'
      BY <2>1, <2>2, <1>1, <1>2 DEF ChosenOwned, OwnerBefore
    <3>3. QED
      BY <3>1, <3>2
  <2>4. Undisturbed(u)' => Undisturbed(u)
    BY DEF RecordsStay, Undisturbed, PluginTypes
  <2>5. QED
    BY <1>2, <2>3, <2>4 DEF ProcessInv, OwnedBy
<1>9. AnswerOf(u)'
  <2>1. Undisturbed(u)' => Undisturbed(u)
    BY DEF RecordsStay, Undisturbed, PluginTypes
  <2>2. QED
    BY <1>1, <2>1 DEF ProcessInv, AnswerOf
<1>10. QED
  BY <1>4, <1>5, <1>6, <1>7, <1>8, <1>9 DEF ProcessInv

\* Of a step that leaves the disk alone, what else is being emptied is still.
LEMMA EmptiedStays ==
    ASSUME PluginTypes, EmptiedInv, NEW t \in Tasks, pluginScope' = pluginScope, disk' = disk,
           \A u \in Tasks : u # t => task'[u] = task[u],
           task[t].at \notin {"remove", "dead", "done"}
    PROVE  EmptiedInv'
<1>1. Places' = Places /\ \A u \in Tasks : Job(u)' = Job(u) /\ Target(u)' = Target(u)
  BY DEF Places, Job, Target, Destination, Bundle, InWorkspace
<1>2. ASSUME NEW k \in Places, ~disk[k].whole
      PROVE  \E u \in Tasks : Empties(u, k)'
  <2>1. PICK u \in Tasks : Empties(u, k)
    BY <1>2 DEF EmptiedInv
  <2>2. u # t
    BY <2>1 DEF Empties, At
  <2>3. Empties(u, k)'
    BY <2>1, <2>2, <1>1 DEF Empties, At
  <2>4. QED
    BY <2>3
<1>3. QED
  BY <1>1, <1>2 DEF EmptiedInv

\* The other processes, of a step that changes nothing else but the lock.
LEMMA QuietOthers ==
    ASSUME PluginTypes, NEW t \in Tasks, NEW u \in Tasks, u # t, NEW q, Becomes(t, q),
           UNCHANGED <<pluginScope, disk, consent, ghostVars>>,
           At(u, "write") => lockHolder' = lockHolder, ProcessInv(u)
    PROVE  ProcessInv(u)'
<1>1. Aside(u)
  BY DEF Aside, RecordsStay, Becomes, ghostVars
<1>2. QED
  BY <1>1, AsideKeeps

LEMMA QuietRecords ==
    ASSUME PluginTypes, NEW t \in Tasks, ProcessInv(t), task'[t].records = task[t].records,
           UNCHANGED <<pluginScope, disk, consent, ghostVars>>
    PROVE  FoundBy(t)' /\ RanBy(t)'
<1>1. RecordsStay(t)
  BY DEF RecordsStay, ghostVars
<1>2. QED
  BY <1>1, RecordsKept DEF ProcessInv

LEMMA QuietTypes ==
    ASSUME PluginTypes, NEW t \in Tasks, NEW q, Becomes(t, q), lockHolder' \in {0} \cup Tasks,
           UNCHANGED <<pluginScope, disk, consent, ghostVars>>
    PROVE  PluginTypes'
<1>1. Places' = Places /\ Stores' = Stores
  BY DEF Places, Stores
<1>2. TaskStates' = TaskStates
  BY <1>1 DEF TaskStates, Records
<1>3. QED
  BY <1>1, <1>2 DEF PluginTypes, Becomes, ghostVars

\* What every step has to keep.
NextInv == PluginTypes' /\ consent' = willed' /\ (\A u \in Tasks : ProcessInv(u)') /\ EmptiedInv'

\* A step of one process that changes nothing else but the lock.
LEMMA OthersQuiet ==
    ASSUME PluginInv, NEW t \in Tasks, NEW q, Becomes(t, q), lockHolder' \in {0} \cup Tasks,
           UNCHANGED <<pluginScope, disk, consent, ghostVars>>,
           \A u \in Tasks : u # t /\ At(u, "write") => lockHolder' = lockHolder,
           ProcessInv(t)', task[t].at \notin {"remove", "dead", "done"}
    PROVE  NextInv
<1>1. PluginTypes'
  BY QuietTypes DEF PluginInv
<1>2. consent' = willed'
  BY DEF PluginInv, ghostVars
<1>3. \A u \in Tasks : ProcessInv(u)'
  BY QuietOthers DEF PluginInv
<1>4. EmptiedInv'
  BY EmptiedStays DEF PluginInv, Becomes
<1>5. QED
  BY <1>1, <1>2, <1>3, <1>4 DEF NextInv

\* What a process reads is a file of consents.
LEMMA ReadingFacts ==
    ASSUME PluginTypes
    PROVE  Readings \subseteq Stores
<1>1. NoEntry \in [version : 0..2, place : {0} \cup Places, attested : BOOLEAN]
  BY DEF NoEntry
<1>2. Nothing \in Stores /\ consent \in Stores
  BY <1>1 DEF Nothing, Stores, PluginTypes
<1>3. QED
  BY <1>2 DEF Readings

LEMMA TakeLockKeeps ==
    ASSUME PluginInv, NEW t \in Tasks, TakeLock(t)
    PROVE  NextInv
<1>0. PICK read \in Readings :
        task' = [task EXCEPT ![t] = [task[t] EXCEPT !.copy = read, !.at = "write"]]
  BY DEF TakeLock
<1> DEFINE q == HasRead(task[t], read, "write")
<1>1. PluginTypes /\ ProcessInv(t)
  BY DEF PluginInv
<1>2. task[t] \in TaskStates /\ read \in Stores /\ "write" \in PluginSteps
  BY <1>1, ReadingFacts, TaskFacts DEF PluginTypes, PluginSteps
<1>3. /\ q \in TaskStates /\ q.at = "write" /\ q.copy = read /\ q.records = task[t].records
      /\ q.place = task[t].place
  BY <1>2, WithCopy
<1>4. task' = [task EXCEPT ![t] = q]
  BY <1>0 DEF HasRead
<1> HIDE DEF q
<1>5. Becomes(t, q)
  BY <1>1, <1>3, <1>4, OneTask
<1>6. task'[t] = q
  BY <1>5 DEF Becomes
<1>7. Job(t)' = Job(t) /\ Places' = Places /\ task[t].at = "lock" /\ lockHolder' = t /\ Readings' = Readings
  BY DEF TakeLock, Job, Places, At, Readings, Nothing
<1>8. StepOfJob(t)'
  BY <1>1, <1>3, <1>6, <1>7 DEF ProcessInv, StepOfJob
<1>9. LockOf(t)'
  BY <1>1, <1>3, <1>6, <1>7 DEF ProcessInv, LockOf, At
<1>10. FoundBy(t)' /\ RanBy(t)'
  BY <1>1, <1>3, <1>6, QuietRecords DEF TakeLock
<1>11. VettedBy(t)' /\ OwnedBy(t)' /\ AnswerOf(t)'
  BY <1>3, <1>6 DEF VettedBy, OwnedBy, AnswerOf, At
<1>12. ProcessInv(t)'
  BY <1>8, <1>9, <1>10, <1>11 DEF ProcessInv
<1>13. \A u \in Tasks : u # t => ~At(u, "write")
  <2>1. lockHolder = 0 /\ \A u \in Tasks : At(u, "write") => lockHolder = u
    BY DEF TakeLock, LockFree, PluginInv, ProcessInv, LockOf
  <2>2. QED
    BY <2>1 DEF Tasks
<1>14. QED
  BY <1>5, <1>7, <1>12, <1>13, OthersQuiet DEF TakeLock

LEMMA ReadConsentKeeps ==
    ASSUME PluginInv, NEW t \in Tasks, ReadConsent(t)
    PROVE  NextInv
<1>0. PICK read \in Readings :
        task' = [task EXCEPT ![t] = [task[t] EXCEPT !.copy = read, !.at = "attach"]]
  BY DEF ReadConsent
<1> DEFINE q == HasRead(task[t], read, "attach")
<1>1. PluginTypes /\ ProcessInv(t)
  BY DEF PluginInv
<1>2. task[t] \in TaskStates /\ read \in Stores /\ "attach" \in PluginSteps
  BY <1>1, ReadingFacts, TaskFacts DEF PluginTypes, PluginSteps
<1>3. /\ q \in TaskStates /\ q.at = "attach" /\ q.copy = read /\ q.records = task[t].records
      /\ q.place = task[t].place /\ q.round = task[t].round /\ q.commands = task[t].commands
  BY <1>2, WithCopy
<1>4. task' = [task EXCEPT ![t] = q]
  BY <1>0 DEF HasRead
<1> HIDE DEF q
<1>5. Becomes(t, q)
  BY <1>1, <1>3, <1>4, OneTask
<1>6. task'[t] = q
  BY <1>5 DEF Becomes
<1>7. /\ Job(t)' = Job(t) /\ Places' = Places /\ task[t].at = "consent"
      /\ lockHolder' = lockHolder /\ consent' = consent /\ allowed' = allowed
      /\ Nothing' = Nothing
  BY DEF ReadConsent, Job, Places, At, ghostVars, Nothing
<1>8. StepOfJob(t)'
  BY <1>1, <1>3, <1>6, <1>7 DEF ProcessInv, StepOfJob
<1>9. LockOf(t)'
  BY <1>1, <1>3, <1>6, <1>7 DEF ProcessInv, LockOf, At
<1>10. FoundBy(t)' /\ RanBy(t)'
  BY <1>1, <1>3, <1>6, QuietRecords DEF ReadConsent
<1>11. task[t].place = 1 /\ task[t].round = 1 /\ CommandsOf(t) = {} /\ read \in allowed[t] \cup {Nothing}
  BY <1>0, <1>1, <1>7 DEF ProcessInv, VettedBy, At, Readings
<1>12. \A k \in Places : ~(k < 1)
  BY <1>1, ScopeFacts DEF PluginTypes
<1>13. VettedBy(t)'
  BY <1>3, <1>6, <1>7, <1>11, <1>12 DEF VettedBy, At
<1>14. OwnedBy(t)'
  <2>1. CommandsOf(t)' = {} /\ task'[t].round = 1
    BY <1>3, <1>6, <1>11 DEF CommandsOf
  <2>2. QED
    BY <2>1 DEF OwnedBy, Owned, ChosenOwned
<1>15. AnswerOf(t)'
  BY <1>3, <1>6 DEF AnswerOf
<1>16. ProcessInv(t)'
  BY <1>8, <1>9, <1>10, <1>13, <1>14, <1>15 DEF ProcessInv
<1>17. lockHolder' \in {0} \cup Tasks /\ UNCHANGED <<pluginScope, disk, consent, ghostVars>>
  BY <1>1, <1>7 DEF ReadConsent, PluginTypes
<1>18. QED
  BY <1>5, <1>7, <1>16, <1>17, OthersQuiet

LEMMA EndsBecomes ==
    ASSUME PluginTypes, NEW t \in Tasks, NEW a \in Answers, TaskEnds(t, a)
    PROVE  LET q == TaskOver(task[t], a) IN
           Becomes(t, q) /\ q.at = "done" /\ q.answer = a /\ q.records = task[t].records
<1> DEFINE q == TaskOver(task[t], a)
<1>1. task[t] \in TaskStates
  BY TaskFacts
<1>2. q \in TaskStates /\ q.at = "done" /\ q.answer = a /\ q.records = task[t].records
  BY <1>1, WithAnswer
<1>3. task' = [task EXCEPT ![t] = q]
  BY DEF TaskEnds, TaskOver
<1> HIDE DEF q
<1>4. Becomes(t, q)
  BY <1>2, <1>3, OneTask
<1>5. QED
  BY <1>2, <1>4 DEF q

\* A process that is done keeps what is told of the records; its answer remains to be shown.
LEMMA DoneKeeps ==
    ASSUME NEW t \in Tasks, task'[t].at \in {"done", "dead"}, FoundBy(t)' /\ RanBy(t)', AnswerOf(t)'
    PROVE  ProcessInv(t)'
<1>1. StepOfJob(t)' /\ LockOf(t)' /\ VettedBy(t)' /\ OwnedBy(t)'
  BY DEF StepOfJob, LockOf, VettedBy, OwnedBy, At
<1>2. QED
  BY <1>1 DEF ProcessInv

LEMMA QuietEnd ==
    ASSUME PluginInv, NEW t \in Tasks, NEW a \in Answers, TaskEnds(t, a), lockHolder' = lockHolder,
           UNCHANGED <<pluginScope, disk, consent, ghostVars>>,
           task[t].at \notin {"remove", "dead", "done"}, AnswerOf(t)'
    PROVE  NextInv
<1> DEFINE q == TaskOver(task[t], a)
<1>1. PluginTypes /\ ProcessInv(t)
  BY DEF PluginInv
<1>2. Becomes(t, q) /\ q.at = "done" /\ q.records = task[t].records
  BY <1>1, EndsBecomes
<1> HIDE DEF q
<1>3. task'[t] = q
  BY <1>2 DEF Becomes
<1>4. FoundBy(t)' /\ RanBy(t)'
  BY <1>1, <1>2, <1>3, QuietRecords
<1>5. ProcessInv(t)'
  BY <1>2, <1>3, <1>4, DoneKeeps
<1>6. lockHolder' \in {0} \cup Tasks
  BY <1>1 DEF PluginTypes
<1>7. QED
  BY <1>2, <1>5, <1>6, OthersQuiet

\* Of one command there is one last owner.
LEMMA OneOwner ==
    ASSUME PluginTypes, NEW t \in Tasks, NEW c, NEW p, NEW r, NEW j \in Places, NEW k \in Places,
           j < r, k < p, p \in Nat, r \in Nat, \A i \in Places : i < p /\ i < r,
           OwnerBefore(t, c, k, p), OwnerBefore(t, c, j, r)
    PROVE  j = k
<1>1. j \in Nat /\ k \in Nat
  BY ScopeFacts DEF PluginTypes
<1>2. ~(k < j) /\ ~(j < k)
  BY <1>1 DEF OwnerBefore
<1>3. QED
  BY <1>1, <1>2

LEMMA AllPassed ==
    ASSUME PluginInv, NEW t \in Tasks, At(t, "attach"), task[t].place \notin Places
    PROVE  /\ task[t].place \in Nat /\ task[t].place >= Len(pluginScope.places) + 1
           /\ \A k \in Places : k \in Nat /\ k < task[t].place /\ k < Len(pluginScope.places) + 1
           /\ Len(pluginScope.places) + 1 \in Nat
<1>1. PluginTypes /\ VettedBy(t)
  BY DEF PluginInv, ProcessInv
<1>2. Places = 1..Len(pluginScope.places) /\ Len(pluginScope.places) \in Nat
  BY <1>1, ScopeFacts DEF PluginTypes
<1>3. task[t].place \in Nat /\ task[t].place >= 1
  BY <1>1, TaskFacts DEF VettedBy
<1>4. QED
  BY <1>2, <1>3

LEMMA RunCommandKeeps ==
    ASSUME PluginInv, NEW t \in Tasks, RunCommand(t)
    PROVE  NextInv
<1>1. PluginTypes /\ ProcessInv(t)
  BY DEF PluginInv
<1>2. /\ At(t, "attach") /\ task[t].place \notin Places /\ (Job(t).kind = "command" \/ task[t].round = 2)
      /\ UNCHANGED <<pluginScope, disk, consent, ghostVars>> /\ lockHolder' = lockHolder
  BY DEF RunCommand
<1>3. Job(t)' = Job(t) /\ (Undisturbed(t)' <=> Undisturbed(t)) /\ task[t].at = "attach"
  BY <1>2 DEF Job, Undisturbed, ghostVars, At
<1> DEFINE c == IF Job(t).kind = "command" THEN Job(t).name ELSE task[t].chosen
<1>4. CASE c \in CommandsOf(t)
  <2> DEFINE a == task[t].commands[c]
  <2>1. TaskEnds(t, a)
    BY <1>4 DEF RunCommand
  <2>2. a \in Answers
    BY <1>1, <1>4, CommandFacts DEF Answers
  <2>3. Becomes(t, TaskOver(task[t], a)) /\ TaskOver(task[t], a).answer = a
    BY <1>1, <2>1, <2>2, EndsBecomes
  <2>4. task'[t].answer = a
    BY <2>3 DEF Becomes
  <2>5. ASSUME Job(t).kind = "feature", Job(t).expected # "", Undisturbed(t)
        PROVE  a = Job(t).expected
    <3>1. Owned(t) /\ ChosenOwned(t) /\ task[t].round = 2 /\ c = task[t].chosen
      BY <1>1, <1>2, <2>5 DEF ProcessInv, OwnedBy
    <3>2. PICK k \in Places : OwnerBefore(t, c, k, task[t].place) /\ a = Of(t, k).id
      BY <1>4, <3>1 DEF Owned
    <3>3. PICK j \in Places : OwnerBefore(t, c, j, Len(pluginScope.places) + 1)
                                 /\ Of(t, j).id = Job(t).expected
      BY <2>5, <3>1 DEF ChosenOwned
    <3> HIDE DEF a, c
    <3>4. j = k
      BY <1>1, <1>2, <3>2, <3>3, AllPassed, OneOwner
    <3>5. QED
      BY <3>2, <3>3, <3>4
  <2>6. AnswerOf(t)'
    BY <1>3, <2>4, <2>5 DEF AnswerOf
  <2>7. QED
    BY <1>2, <1>3, <2>1, <2>2, <2>6, QuietEnd
<1>5. CASE c \notin CommandsOf(t)
  <2>1. TaskEnds(t, "none") /\ "none" \in Answers
    BY <1>5 DEF RunCommand, Answers
  <2>2. Becomes(t, TaskOver(task[t], "none")) /\ TaskOver(task[t], "none").answer = "none"
    BY <1>1, <2>1, EndsBecomes
  <2>3. AnswerOf(t)'
    BY <2>2 DEF Becomes, AnswerOf
  <2>4. QED
    BY <1>2, <1>3, <2>1, <2>3, QuietEnd
<1>6. QED
  BY <1>4, <1>5

LEMMA LeastIs ==
    ASSUME NEW T \in SUBSET Nat, T # {}
    PROVE  Min(T) \in T /\ \A x \in T : Min(T) <= x
<1>1. \E n \in T : \A m \in T : n <= m
  BY LeastNumber
<1>2. QED
  BY <1>1 DEF Min

LEMMA ResolvedIsKnown ==
    ASSUME PluginTypes, NEW t \in Tasks
    PROVE  Resolution(t) \subseteq CommandsOf(t)
<1>1. CommandsOf(t) \subseteq Commands /\ Commands \subseteq Nat \ {0}
  BY CommandFacts, ScopeFacts DEF PluginTypes
<1> DEFINE similar == CommandsOf(t) \cap pluginScope.alike
<1>2. similar # {} => Min(similar) \in similar
  <2>1. similar \in SUBSET Nat
    BY <1>1
  <2>2. QED
    BY <2>1, LeastIs
<1> DEFINE offered == task[t].records[Min(Declaring(t))].bundle.offers \cap CommandsOf(t)
<1>3. \/ Job(t).name \in CommandsOf(t) /\ Resolution(t) = {Job(t).name}
      \/ Job(t).name \notin CommandsOf(t) /\ Declaring(t) # {} /\ Resolution(t) = offered
      \/ Job(t).name \notin CommandsOf(t) /\ Declaring(t) = {}
            /\ Resolution(t) = (IF similar = {} THEN {} ELSE {Min(similar)})
  BY DEF Resolution
<1>4. QED
  BY <1>2, <1>3

LEMMA ResolveKeeps ==
    ASSUME PluginInv, NEW t \in Tasks, Resolve(t)
    PROVE  NextInv
<1>1. PluginTypes /\ ProcessInv(t)
  BY DEF PluginInv
<1>2. /\ At(t, "attach") /\ task[t].place \notin Places /\ Job(t).kind = "feature" /\ task[t].round = 1
      /\ UNCHANGED <<pluginScope, disk, consent, ghostVars>> /\ lockHolder' = lockHolder
  BY DEF Resolve
<1>3. Job(t)' = Job(t) /\ (Undisturbed(t)' <=> Undisturbed(t)) /\ task[t].at = "attach" /\ Places' = Places
      /\ allowed' = allowed
  BY <1>2 DEF Job, Undisturbed, ghostVars, At, Places
<1>4. ASSUME NEW a \in {"none", "refused"}, TaskEnds(t, a)
      PROVE  NextInv
  <2>1. a \in Answers
    BY DEF Answers
  <2>2. Becomes(t, TaskOver(task[t], a)) /\ TaskOver(task[t], a).answer = a
    BY <1>1, <1>4, <2>1, EndsBecomes
  <2>3. AnswerOf(t)'
    BY <2>2 DEF Becomes, AnswerOf
  <2>4. QED
    BY <1>2, <1>3, <1>4, <2>1, <2>3, QuietEnd
<1>5. ASSUME NEW c \in Resolution(t), Job(t).expected \in {"", task[t].commands[c]},
             task' = [task EXCEPT ![t] = [task[t] EXCEPT
                         !.chosen = c, !.round = 2, !.place = 1, !.commands = [x \in {} |-> ""]]]
      PROVE  NextInv
  <2> DEFINE none == [x \in {} |-> ""]
             q == Restarted(task[t], c, none)
  <2>1. c \in CommandsOf(t) /\ c \in Nat /\ none \in CommandMaps /\ DOMAIN none = {}
    <3>1. c \in CommandsOf(t)
      BY <1>1, ResolvedIsKnown
    <3>2. c \in Nat
      BY <1>1, <3>1, CommandFacts, ScopeFacts DEF PluginTypes
    <3>3. none \in [{} -> PluginIds] /\ {} \in SUBSET Commands
      OBVIOUS
    <3>4. none \in CommandMaps
      BY <3>3 DEF CommandMaps
    <3>5. QED
      BY <3>1, <3>2, <3>4
  <2>2. task' = [task EXCEPT ![t] = q]
    BY <1>5 DEF Restarted
  <2> HIDE DEF none
  <2>3. task[t] \in TaskStates
    BY <1>1, TaskFacts
  <2>4. /\ q \in TaskStates /\ q.at = "attach" /\ q.copy = task[t].copy /\ q.records = task[t].records
        /\ q.place = 1 /\ q.round = 2 /\ q.commands = none /\ q.chosen = c
    BY <1>3, <2>1, <2>3, Again
  <2> HIDE DEF q
  <2>5. Becomes(t, q)
    BY <1>1, <2>2, <2>4, OneTask
  <2>6. task'[t] = q
    BY <2>5 DEF Becomes
  <2>7. StepOfJob(t)'
    BY <1>1, <1>3, <2>4, <2>6 DEF ProcessInv, StepOfJob
  <2>8. FoundBy(t)' /\ RanBy(t)'
    BY <1>1, <1>2, <2>4, <2>6, QuietRecords
  <2>9. VettedBy(t)'
    <3>1. \A k \in Places : k < task[t].place
      BY <1>2, AllPassed
    <3>2. /\ task[t].copy \in allowed[t] \cup {Nothing} /\ Nothing' = Nothing
          /\ \A k \in Places : StateOf(t, k) = "active" =>
                Consented(task[t].copy, Of(t, k), k) /\ Of(t, k).check # "newer"
      BY <1>1, <1>2, <3>1 DEF ProcessInv, VettedBy, Nothing
    <3>3. \A s, b, k : Consented(s, b, k)' = Consented(s, b, k)
      BY <1>2 DEF Consented, InWorkspace
    <3>4. QED
      BY <1>3, <2>4, <2>6, <3>2, <3>3 DEF VettedBy, At, StateOf, Of
  <2>10. OwnedBy(t)'
    <3>1. ASSUME Undisturbed(t), Job(t).expected # ""
          PROVE  \E k \in Places : OwnerBefore(t, c, k, Len(pluginScope.places) + 1)
                                      /\ Of(t, k).id = Job(t).expected
      <4>1. PICK k \in Places : OwnerBefore(t, c, k, task[t].place) /\ task[t].commands[c] = Of(t, k).id
        BY <1>1, <1>2, <2>1, <3>1 DEF ProcessInv, OwnedBy, Owned
      <4>2. OwnerBefore(t, c, k, Len(pluginScope.places) + 1)
        BY <1>2, <4>1, AllPassed DEF OwnerBefore
      <4>3. QED
        BY <1>5, <3>1, <4>1, <4>2
    <3>2. \A k \in Places : Registers(t, k, c)' = Registers(t, k, c) /\ Of(t, k)' = Of(t, k)
      BY <2>4, <2>6 DEF Registers, StateOf, Of
    <3>3. Undisturbed(t) => ChosenOwned(t)'
      BY <1>2, <1>3, <2>4, <2>6, <3>1, <3>2 DEF ChosenOwned, OwnerBefore
    <3>4. Owned(t)'
      BY <2>1, <2>4, <2>6 DEF Owned, CommandsOf
    <3>5. QED
      BY <1>3, <3>3, <3>4 DEF OwnedBy
  <2>11. LockOf(t)' /\ AnswerOf(t)'
    BY <2>4, <2>6 DEF LockOf, At, AnswerOf
  <2>12. ProcessInv(t)'
    BY <2>7, <2>8, <2>9, <2>10, <2>11 DEF ProcessInv
  <2>13. lockHolder' \in {0} \cup Tasks
    BY <1>1, <1>2 DEF PluginTypes
  <2>14. QED
    BY <1>2, <1>3, <2>5, <2>12, <2>13, OthersQuiet
<1>6. QED
  <2>1. CASE TaskEnds(t, "none")
    BY <1>4, <2>1
  <2>2. CASE TaskEnds(t, "refused")
    BY <1>4, <2>2
  <2>3. ASSUME ~TaskEnds(t, "none"), ~TaskEnds(t, "refused")
        PROVE  NextInv
    <3>1. PICK c \in Resolution(t) :
             IF Job(t).expected \notin {"", task[t].commands[c]} THEN TaskEnds(t, "refused")
             ELSE task' = [task EXCEPT ![t] = [task[t] EXCEPT
                             !.chosen = c, !.round = 2, !.place = 1, !.commands = [x \in {} |-> ""]]]
      BY <2>3 DEF Resolve
    <3>2. QED
      BY <1>5, <2>3, <3>1
  <2>4. QED
    BY <2>1, <2>2, <2>3

LEMMA ProcessDiesKeeps ==
    ASSUME PluginInv, NEW t \in Tasks, ProcessDies(t)
    PROVE  NextInv
<1> DEFINE q == WithAt(task[t], "dead")
<1>1. PluginTypes /\ ProcessInv(t)
  BY DEF PluginInv
<1>2. /\ UNCHANGED <<pluginScope, disk, consent, ghostVars>> /\ task[t].at \notin {"done", "dead"}
      /\ lockHolder' = IF lockHolder = t THEN 0 ELSE lockHolder
  BY DEF ProcessDies
<1>3. task[t] \in TaskStates /\ "dead" \in PluginSteps
  BY <1>1, TaskFacts DEF PluginSteps
<1>4. q \in TaskStates /\ q.at = "dead" /\ q.records = task[t].records
  BY <1>3, WithStep
<1>5. task' = [task EXCEPT ![t] = q]
  BY DEF ProcessDies, Goes, WithAt
<1> HIDE DEF q
<1>6. Becomes(t, q)
  BY <1>1, <1>4, <1>5, OneTask
<1>7. task'[t] = q
  BY <1>6 DEF Becomes
<1>8. AnswerOf(t)'
  BY <1>4, <1>7 DEF AnswerOf
<1>9. ProcessInv(t)'
  BY <1>1, <1>2, <1>4, <1>7, <1>8, QuietRecords, DoneKeeps
<1>10. lockHolder' \in {0} \cup Tasks
  BY <1>1, <1>2 DEF PluginTypes
<1>11. \A u \in Tasks : u # t /\ At(u, "write") => lockHolder' = lockHolder
  BY <1>2 DEF PluginInv, ProcessInv, LockOf
<1>12. PluginTypes' /\ \A u \in Tasks : ProcessInv(u)'
  BY <1>1, <1>2, <1>6, <1>9, <1>10, <1>11, QuietTypes, QuietOthers DEF PluginInv
<1>13. EmptiedInv'
  <2>1. Places' = Places /\ \A u \in Tasks : Job(u)' = Job(u) /\ Target(u)' = Target(u)
    BY <1>2 DEF Places, Job, Target, Destination, Bundle, InWorkspace
  <2>2. \A u \in Tasks, k \in Places : Empties(u, k) => Empties(u, k)'
    <3>1. ASSUME NEW u \in Tasks, NEW k \in Places, Empties(u, k), u # t
          PROVE  Empties(u, k)'
      BY <1>6, <2>1, <3>1 DEF Empties, At, Becomes
    <3>2. ASSUME NEW k \in Places, Empties(t, k)
          PROVE  Empties(t, k)'
      BY <1>4, <1>7, <2>1, <3>2 DEF Empties, At
    <3>3. QED
      BY <3>1, <3>2
  <2>3. EmptiedInv /\ disk' = disk
    BY <1>2 DEF PluginInv
  <2>4. QED
    BY <2>1, <2>2, <2>3 DEF EmptiedInv
<1>14. QED
  BY <1>2, <1>12, <1>13 DEF NextInv, PluginInv, ghostVars

LEMMA SaveConsentKeeps ==
    ASSUME PluginInv, NEW t \in Tasks, SaveConsent(t)
    PROVE  NextInv
<1> DEFINE q == WithAt(task[t], "done")
<1>1. PluginTypes /\ ProcessInv(t) /\ consent = willed
  BY DEF PluginInv
<1>2. /\ UNCHANGED <<pluginScope, disk, ran, moved, faltered>> /\ task[t].at = "write"
      /\ lockHolder' = 0 /\ allowed' = [u \in Tasks |-> allowed[u] \cup {willed'}]
  BY DEF SaveConsent, At
<1>3. task[t].copy \in Readings /\ \A u \in Tasks : u # t => ~At(u, "write")
  <2>1. \A u \in Tasks : At(u, "write") => lockHolder = u /\ task[u].copy \in Readings
    BY DEF PluginInv, ProcessInv, LockOf
  <2>2. QED
    BY <1>2, <2>1 DEF At
<1> DEFINE read == task[t].copy
<1>4. consent' = willed' /\ consent' = Commanded(t, read)
  <2>1. Base(t) = read
    BY <1>1, <1>3 DEF Base, Readings
  <2>2. QED
    BY <2>1 DEF SaveConsent
<1>r. read \in Stores
  BY <1>1, <1>3, ReadingFacts
<1> HIDE DEF read
<1>5. consent' \in Stores
  <2> DEFINE k == task[t].place
             given == [version |-> Of(t, k).version, place |-> k, attested |-> TRUE]
             written == IF Job(t).kind = "grant" THEN given ELSE NoEntry
             Entries == [version : 0..2, place : {0} \cup Places, attested : BOOLEAN]
  <2>1. consent' = [read EXCEPT ![Job(t).id] = written]
    BY <1>4 DEF Commanded, Of
  <2>2. Job(t).kind = "grant" => k \in Places /\ Of(t, k) \in Bundles
    BY <1>1, <1>2 DEF ProcessInv, LockOf, Of
  <2>3. Job(t).kind = "grant" => Of(t, k).version \in 1..2
    BY <2>2 DEF Bundles
  <2>4. written \in Entries
    <3>1. CASE Job(t).kind = "grant"
      <4>1. Of(t, k).version \in 0..2 /\ k \in {0} \cup Places
        BY <2>2, <2>3, <3>1
      <4>2. QED
        BY <3>1, <4>1
    <3>2. CASE Job(t).kind # "grant"
      BY <3>2 DEF NoEntry
    <3>3. QED
      BY <3>1, <3>2
  <2> HIDE DEF written, Entries
  <2>5. read \in [PluginIds -> Entries]
    BY <1>r DEF Stores, Entries
  <2>6. [read EXCEPT ![Job(t).id] = written] \in [PluginIds -> Entries]
    BY <2>4, <2>5
  <2>7. QED
    BY <2>1, <2>6 DEF Stores, Entries
<1>6. task[t] \in TaskStates /\ "done" \in PluginSteps
  BY <1>1, TaskFacts DEF PluginSteps
<1>7. q \in TaskStates /\ q.at = "done" /\ q.records = task[t].records /\ q.answer = task[t].answer
  BY <1>6, WithStep
<1>8. task' = [task EXCEPT ![t] = q]
  BY DEF SaveConsent, Goes, WithAt
<1> HIDE DEF q
<1>9. Becomes(t, q)
  BY <1>1, <1>7, <1>8, OneTask
<1>10. task'[t] = q
  BY <1>9 DEF Becomes
<1>11. PluginTypes'
  <2>1. Places' = Places /\ Stores' = Stores
    BY <1>2 DEF Places, Stores
  <2>2. TaskStates' = TaskStates
    BY <2>1 DEF TaskStates, Records
  <2>3. allowed' \in [Tasks -> SUBSET Stores]
    BY <1>1, <1>2, <1>4, <1>5 DEF PluginTypes
  <2>4. task' \in [Tasks -> TaskStates]
    BY <1>9 DEF Becomes
  <2>5. QED
    BY <1>1, <1>2, <1>5, <2>1, <2>2, <2>3, <2>4 DEF PluginTypes
<1>12. ASSUME NEW u \in Tasks
       PROVE  allowed[u] \subseteq allowed'[u] /\ consent' \in allowed'[u]
  BY <1>2, <1>4
<1>13. ASSUME NEW u \in Tasks, u # t
       PROVE  ProcessInv(u)'
  <2>1. RecordsStay(u) /\ task'[u] = task[u] /\ faltered'[u] = faltered[u]
    BY <1>2, <1>9, <1>12, <1>13 DEF RecordsStay, Becomes
  <2>2. Aside(u)
    BY <1>3, <1>12, <1>13, <2>1 DEF Aside
  <2>3. QED
    BY <1>1, <2>2, AsideKeeps DEF PluginInv
<1>14. ProcessInv(t)'
  <2>1. RecordsStay(t)
    BY <1>2, <1>7, <1>10, <1>12 DEF RecordsStay
  <2>2. FoundBy(t)' /\ RanBy(t)'
    BY <1>1, <2>1, RecordsKept DEF ProcessInv
  <2>3. Job(t)' = Job(t) /\ Job(t).kind \in {"grant", "revoke"}
    BY <1>1, <1>2 DEF Job, ProcessInv, StepOfJob
  <2>4. AnswerOf(t)'
    BY <2>3 DEF AnswerOf
  <2>5. QED
    BY <1>7, <1>10, <2>2, <2>4, DoneKeeps
<1>15. EmptiedInv'
  BY <1>1, <1>2, <1>9, EmptiedStays DEF PluginInv, Becomes
<1>16. QED
  BY <1>4, <1>11, <1>13, <1>14, <1>15 DEF NextInv

\* A step of an installation: whoever looked at the disk sees that it moved.
LEMMA InstallStep ==
    ASSUME PluginInv, NEW t \in Tasks, NEW q, Becomes(t, q), q.records = task[t].records,
           q.at \in {"remove", "move", "done"}, Job(t).kind = "install",
           UNCHANGED <<pluginScope, consent, lockHolder, willed, allowed, ran, faltered>>,
           moved' = [u \in Tasks |-> TRUE] \/ (moved' = moved /\ disk' = disk),
           disk' \in [Places -> [bundle : Bundles \cup {NoBundle}, whole : BOOLEAN]],
           EmptiedInv'
    PROVE  NextInv
<1>1. PluginTypes /\ ProcessInv(t)
  BY DEF PluginInv
<1>2. PluginTypes'
  <2>1. Places' = Places /\ Stores' = Stores
    BY DEF Places, Stores
  <2>2. TaskStates' = TaskStates
    BY <2>1 DEF TaskStates, Records
  <2>3. moved' \in [Tasks -> BOOLEAN]
    BY <1>1 DEF PluginTypes
  <2>4. QED
    BY <1>1, <2>1, <2>2, <2>3 DEF PluginTypes, Becomes
<1>3. \A u \in Tasks : RecordsStay(u)
  <2>1. ASSUME NEW u \in Tasks
        PROVE  RecordsStay(u)
    <3>1. task'[u].records = task[u].records
      BY DEF Becomes
    <3>2. moved'[u] \/ (moved'[u] = moved[u] /\ disk' = disk)
      OBVIOUS
    <3>3. QED
      BY <3>1, <3>2 DEF RecordsStay
  <2>2. QED
    BY <2>1
<1>4. ASSUME NEW u \in Tasks, u # t
      PROVE  ProcessInv(u)'
  <2>1. Aside(u)
    BY <1>3, <1>4 DEF Aside, Becomes
  <2>2. QED
    BY <1>1, <2>1, AsideKeeps DEF PluginInv
<1>5. ProcessInv(t)'
  <2>1. task'[t] = q /\ Job(t)' = Job(t)
    BY DEF Becomes, Job
  <2>2. FoundBy(t)' /\ RanBy(t)'
    BY <1>1, <1>3, RecordsKept DEF ProcessInv
  <2>3. StepOfJob(t)' /\ LockOf(t)' /\ VettedBy(t)' /\ OwnedBy(t)'
    BY <2>1 DEF StepOfJob, LockOf, VettedBy, OwnedBy, At
  <2>4. AnswerOf(t)'
    BY <2>1 DEF AnswerOf
  <2>5. QED
    BY <2>2, <2>3, <2>4 DEF ProcessInv
<1>6. QED
  BY <1>2, <1>4, <1>5 DEF NextInv, PluginInv

\* What is being emptied is the target of an installation.
LEMMA EmptiesFacts ==
    ASSUME pluginScope' = pluginScope
    PROVE  Places' = Places /\ \A u \in Tasks : Job(u)' = Job(u) /\ Target(u)' = Target(u)
  BY DEF Places, Job, Target, Destination, Bundle, InWorkspace

LEMMA StageKeeps ==
    ASSUME PluginInv, NEW t \in Tasks, Stage(t)
    PROVE  NextInv
<1>1. PluginTypes /\ ProcessInv(t) /\ EmptiedInv
  BY DEF PluginInv
<1>2. /\ UNCHANGED <<pluginScope, consent, lockHolder, willed, allowed, ran, faltered>>
      /\ task[t].at = "stage"
  BY DEF Stage, At
<1>3. Job(t).kind = "install" /\ Target(t) \in Places
  BY <1>1, <1>2, ScopeFacts DEF ProcessInv, StepOfJob, PluginTypes
<1>4. disk \in [Places -> [bundle : Bundles \cup {NoBundle}, whole : BOOLEAN]]
  BY <1>1 DEF PluginTypes
<1>5. CASE Bundle(t).check = "invalid"
  <2>1. TaskEnds(t, "error") /\ disk' = disk /\ moved' = moved /\ "error" \in Answers
    BY <1>5 DEF Stage, Answers
  <2> DEFINE q == TaskOver(task[t], "error")
  <2>2. Becomes(t, q) /\ q.at = "done" /\ q.records = task[t].records
    BY <1>1, <2>1, EndsBecomes
  <2> HIDE DEF q
  <2>3. EmptiedInv'
    BY <1>1, <1>2, <2>1, <2>2, EmptiedStays DEF Becomes
  <2>4. QED
    BY <1>2, <1>3, <1>4, <2>1, <2>2, <2>3, InstallStep
<1>6. CASE Bundle(t).check # "invalid" /\ disk[Target(t)].bundle = NoBundle
  <2>1. Goes(t, "move") /\ disk' = disk /\ moved' = moved /\ "move" \in PluginSteps
    BY <1>6 DEF Stage, PluginSteps
  <2> DEFINE q == WithAt(task[t], "move")
  <2>2. q \in TaskStates /\ q.at = "move" /\ q.records = task[t].records
    BY <1>1, <2>1, TaskFacts, WithStep
  <2>3. task' = [task EXCEPT ![t] = q]
    BY <2>1 DEF Goes, WithAt
  <2> HIDE DEF q
  <2>4. Becomes(t, q)
    BY <1>1, <2>2, <2>3, OneTask
  <2>5. EmptiedInv'
    BY <1>1, <1>2, <2>1, <2>4, EmptiedStays DEF Becomes
  <2>6. QED
    BY <1>2, <1>3, <1>4, <2>1, <2>2, <2>4, <2>5, InstallStep
<1>7. CASE Bundle(t).check # "invalid" /\ disk[Target(t)].bundle # NoBundle
  <2>1. /\ Goes(t, "remove") /\ disk' = [disk EXCEPT ![Target(t)].whole = FALSE]
        /\ moved' = [u \in Tasks |-> TRUE] /\ "remove" \in PluginSteps
    BY <1>7 DEF Stage, PluginSteps, Moves
  <2> DEFINE q == WithAt(task[t], "remove")
  <2>2. q \in TaskStates /\ q.at = "remove" /\ q.records = task[t].records
    BY <1>1, <2>1, TaskFacts, WithStep
  <2>3. task' = [task EXCEPT ![t] = q]
    BY <2>1 DEF Goes, WithAt
  <2> HIDE DEF q
  <2>4. Becomes(t, q)
    BY <1>1, <2>2, <2>3, OneTask
  <2>5. disk' \in [Places -> [bundle : Bundles \cup {NoBundle}, whole : BOOLEAN]]
        /\ \A k \in Places : k # Target(t) => disk'[k] = disk[k]
    BY <1>3, <1>4, <2>1
  <2>6. EmptiedInv'
    <3>1. ASSUME NEW k \in Places, ~disk'[k].whole
          PROVE  \E u \in Tasks : Empties(u, k)'
      <4>1. CASE k = Target(t)
        <5>1. Empties(t, k)'
          BY <1>2, <1>3, <2>2, <2>4, <4>1, EmptiesFacts DEF Empties, At, Becomes
        <5>2. QED
          BY <5>1
      <4>2. CASE k # Target(t)
        <5>1. ~disk[k].whole
          BY <2>5, <3>1, <4>2
        <5>2. PICK u \in Tasks : Empties(u, k)
          BY <1>1, <5>1 DEF EmptiedInv
        <5>3. u # t
          BY <4>2, <5>2 DEF Empties
        <5>4. Empties(u, k)'
          BY <1>2, <2>4, <5>2, <5>3, EmptiesFacts DEF Empties, At, Becomes
        <5>5. QED
          BY <5>4
      <4>3. QED
        BY <4>1, <4>2
    <3>2. QED
      BY <1>2, <3>1, EmptiesFacts DEF EmptiedInv
  <2>7. QED
    BY <1>2, <1>3, <2>1, <2>2, <2>4, <2>5, <2>6, InstallStep
<1>8. QED
  BY <1>5, <1>6, <1>7

LEMMA EmptyKeeps ==
    ASSUME PluginInv, NEW t \in Tasks, Empty(t)
    PROVE  NextInv
<1>1. PluginTypes /\ ProcessInv(t) /\ EmptiedInv
  BY DEF PluginInv
<1>2. /\ UNCHANGED <<pluginScope, consent, lockHolder, willed, allowed, ran, faltered>>
      /\ task[t].at = "remove" /\ moved' = [u \in Tasks |-> TRUE]
  BY DEF Empty, At, Moves
<1>3. Job(t).kind = "install" /\ Target(t) \in Places
  BY <1>1, <1>2, ScopeFacts DEF ProcessInv, StepOfJob, PluginTypes
<1>4. disk \in [Places -> [bundle : Bundles \cup {NoBundle}, whole : BOOLEAN]]
  BY <1>1 DEF PluginTypes
<1>5. CASE Goes(t, "move") /\ disk' = [disk EXCEPT ![Target(t)] = [bundle |-> NoBundle, whole |-> TRUE]]
  <2> DEFINE q == WithAt(task[t], "move")
  <2>1. "move" \in PluginSteps
    BY DEF PluginSteps
  <2>2. q \in TaskStates /\ q.at = "move" /\ q.records = task[t].records
    BY <1>1, <2>1, TaskFacts, WithStep
  <2>3. task' = [task EXCEPT ![t] = q]
    BY <1>5 DEF Goes, WithAt
  <2> HIDE DEF q
  <2>4. Becomes(t, q)
    BY <1>1, <2>2, <2>3, OneTask
  <2>5. disk' \in [Places -> [bundle : Bundles \cup {NoBundle}, whole : BOOLEAN]]
        /\ disk'[Target(t)].whole /\ \A k \in Places : k # Target(t) => disk'[k] = disk[k]
    BY <1>3, <1>4, <1>5
  <2>6. EmptiedInv'
    <3>1. ASSUME NEW k \in Places, ~disk'[k].whole
          PROVE  \E u \in Tasks : Empties(u, k)'
      <4>1. k # Target(t) /\ ~disk[k].whole
        BY <2>5, <3>1
      <4>2. PICK u \in Tasks : Empties(u, k)
        BY <1>1, <4>1 DEF EmptiedInv
      <4>3. u # t
        BY <4>1, <4>2 DEF Empties
      <4>4. Empties(u, k)'
        BY <1>2, <2>4, <4>2, <4>3, EmptiesFacts DEF Empties, At, Becomes
      <4>5. QED
        BY <4>4
    <3>2. QED
      BY <1>2, <3>1, EmptiesFacts DEF EmptiedInv
  <2>7. QED
    BY <1>2, <1>3, <2>2, <2>4, <2>5, <2>6, InstallStep
<1>6. CASE disk' = disk /\ TaskEnds(t, "error")
  <2>1. "error" \in Answers
    BY DEF Answers
  <2> DEFINE q == TaskOver(task[t], "error")
  <2>2. Becomes(t, q) /\ q.at = "done" /\ q.answer = "error" /\ q.records = task[t].records
    BY <1>1, <1>6, <2>1, EndsBecomes
  <2> HIDE DEF q
  <2>3. EmptiedInv'
    <3>1. ASSUME NEW k \in Places, NEW u \in Tasks, Empties(u, k)
          PROVE  Empties(u, k)'
      <4>1. CASE u = t
        BY <1>2, <2>2, <3>1, <4>1, EmptiesFacts DEF Empties, At, Becomes
      <4>2. CASE u # t
        BY <1>2, <2>2, <3>1, <4>2, EmptiesFacts DEF Empties, At, Becomes
      <4>3. QED
        BY <4>1, <4>2
    <3>2. QED
      BY <1>1, <1>2, <1>6, <3>1, EmptiesFacts DEF EmptiedInv
  <2>4. QED
    BY <1>2, <1>3, <1>4, <1>6, <2>2, <2>3, InstallStep
<1>7. QED
  BY <1>5, <1>6 DEF Empty

LEMMA MoveInKeeps ==
    ASSUME PluginInv, NEW t \in Tasks, MoveIn(t)
    PROVE  NextInv
<1>1. PluginTypes /\ ProcessInv(t) /\ EmptiedInv
  BY DEF PluginInv
<1>2. /\ UNCHANGED <<pluginScope, consent, lockHolder, willed, allowed, ran, faltered>>
      /\ task[t].at = "move" /\ moved' = [u \in Tasks |-> TRUE] /\ TaskEnds(t, "ok") /\ "ok" \in Answers
  BY DEF MoveIn, At, Moves, Answers
<1>3. Job(t).kind = "install" /\ Target(t) \in Places /\ Bundle(t) \in Bundles
  BY <1>1, <1>2, ScopeFacts DEF ProcessInv, StepOfJob, PluginTypes, Bundle
<1> DEFINE Held == [bundle : Bundles \cup {NoBundle}, whole : BOOLEAN]
           filled == [bundle |-> Bundle(t), whole |-> TRUE]
<1>4. disk \in [Places -> Held] /\ filled \in Held /\ filled.whole
  BY <1>1, <1>3 DEF PluginTypes
<1>5. disk' = disk \/ disk' = [disk EXCEPT ![Target(t)] = filled]
  BY DEF MoveIn
<1> HIDE DEF Held, filled
<1>6. disk' \in [Places -> Held] /\ \A k \in Places : disk'[k].whole \/ disk'[k] = disk[k]
  BY <1>3, <1>4, <1>5
<1> DEFINE q == TaskOver(task[t], "ok")
<1>7. Becomes(t, q) /\ q.at = "done" /\ q.records = task[t].records
  BY <1>1, <1>2, EndsBecomes
<1> HIDE DEF q
<1>8. EmptiedInv'
  <2>1. ASSUME NEW k \in Places, ~disk'[k].whole
        PROVE  \E u \in Tasks : Empties(u, k)'
    <3>1. ~disk[k].whole
      BY <1>6, <2>1
    <3>2. PICK u \in Tasks : Empties(u, k)
      BY <1>1, <3>1 DEF EmptiedInv
    <3>3. u # t
      BY <1>2, <3>2 DEF Empties, At
    <3>4. Empties(u, k)'
      BY <1>2, <1>7, <3>2, <3>3, EmptiesFacts DEF Empties, At, Becomes
    <3>5. QED
      BY <3>4
  <2>2. QED
    BY <1>2, <2>1, EmptiesFacts DEF EmptiedInv
<1>9. QED
  BY <1>2, <1>3, <1>6, <1>7, <1>8, InstallStep DEF Held

\* Of the records of one id, those that may run are the first.
LEMMA StateFacts ==
    ASSUME PluginTypes, NEW t \in Tasks, NEW listed \in SUBSET Places, NEW k \in Places
    PROVE  /\ RecordState(t, k, listed) \in {"invalid", "incompatible", "locked", "active"}
           /\ RecordState(t, k, listed) \in Tried =>
                  /\ disk[k].bundle.check # "invalid"
                  /\ \A j \in listed : j < k /\ disk[j].bundle.check # "invalid" =>
                        disk[j].bundle.id # disk[k].bundle.id
<1> DEFINE b == disk[k].bundle
           same == {j \in listed : j < k /\ disk[j].bundle.check # "invalid" /\ disk[j].bundle.id = b.id}
           refused == b.check = "invalid" \/ same # {}
<1>1. /\ refused => RecordState(t, k, listed) = "invalid"
      /\ ~refused => RecordState(t, k, listed) \in {"incompatible", "locked", "active"}
  BY DEF RecordState
<1>2. RecordState(t, k, listed) \in Tried => ~refused
  BY <1>1 DEF Tried
<1>3. ~refused => b.check # "invalid" /\ \A j \in listed : j < k /\ disk[j].bundle.check # "invalid" =>
                        disk[j].bundle.id # b.id
  OBVIOUS
<1> HIDE DEF refused
<1>4. QED
  BY <1>1, <1>2, <1>3

LEMMA BuildRegistryKeeps ==
    ASSUME PluginInv, NEW t \in Tasks, BuildRegistry(t)
    PROVE  NextInv
<1>1. PluginTypes /\ ProcessInv(t) /\ consent = willed
  BY DEF PluginInv
<1>2. /\ UNCHANGED <<pluginScope, disk, consent, lockHolder, willed, ran, faltered>>
      /\ task[t].at = "registry"
      /\ allowed' = [allowed EXCEPT ![t] = {willed}] /\ moved' = [moved EXCEPT ![t] = FALSE]
  BY DEF BuildRegistry, At
<1>3. PICK listed \in SUBSET {k \in Places : disk[k].bundle # NoBundle} :
         LET hits == {k \in listed : RecordId(k) = Job(t).id}
             first == Min(hits)
             records == [k \in Places |-> IF k \in listed
                            THEN [state |-> RecordState(t, k, listed), bundle |-> disk[k].bundle]
                            ELSE Absent]
             grantable == hits # {} /\ disk[first].bundle.check # "invalid"
         IN task' = [task EXCEPT ![t] = [task[t] EXCEPT
                       !.records = records,
                       !.place = IF Job(t).kind = "grant" /\ grantable THEN first ELSE 1,
                       !.at = IF Job(t).kind # "grant" THEN "consent"
                              ELSE IF grantable THEN "lock" ELSE "done"]]
  BY DEF BuildRegistry
<1> DEFINE hits == {k \in listed : RecordId(k) = Job(t).id}
           first == Min(hits)
           records == [k \in Places |-> IF k \in listed
                          THEN [state |-> RecordState(t, k, listed), bundle |-> disk[k].bundle]
                          ELSE Absent]
           grantable == hits # {} /\ disk[first].bundle.check # "invalid"
           n == IF Job(t).kind = "grant" /\ grantable THEN first ELSE 1
           step == IF Job(t).kind # "grant" THEN "consent" ELSE IF grantable THEN "lock" ELSE "done"
           q == HasFound(task[t], records, n, step)
<1>4. task' = [task EXCEPT ![t] = q]
  BY <1>3 DEF HasFound
<1>5. hits # {} => first \in hits
  <2>1. hits \in SUBSET Nat
    BY <1>1, ScopeFacts DEF PluginTypes
  <2>2. QED
    BY <2>1, LeastIs
<1>6. /\ listed \in SUBSET Places
      /\ \A k \in listed : disk[k].bundle \in Bundles
  BY <1>1 DEF PluginTypes
<1>7. /\ step \in {"consent", "lock", "done"} /\ n \in Nat
      /\ step = "consent" => Job(t).kind # "grant" /\ n = 1
      /\ step \in {"lock", "done"} => Job(t).kind = "grant"
      /\ step = "lock" => n \in listed
  <2>1. grantable => first \in listed /\ first \in Nat
    BY <1>1, <1>5, <1>6, ScopeFacts DEF PluginTypes
  <2> HIDE DEF grantable, first
  <2>2. QED
    BY <2>1
<1> HIDE DEF step, n, hits, first, grantable
<1>8. /\ \A k \in listed : records[k].state = RecordState(t, k, listed) /\ records[k].bundle = disk[k].bundle
      /\ \A k \in Places : k \notin listed => records[k] = Absent
      /\ \A k \in Places : records[k].state # "absent" => k \in listed
  <2>1. ASSUME NEW k \in listed
        PROVE  records[k].state = RecordState(t, k, listed) /\ records[k].bundle = disk[k].bundle
    <3> DEFINE is == RecordState(t, k, listed)
               b == disk[k].bundle
    <3>1. records[k] = [state |-> is, bundle |-> b]
      BY <1>6
    <3> HIDE DEF is, b, records
    <3>2. records[k].state = is /\ records[k].bundle = b
      BY <3>1
    <3>3. QED
      BY <3>2 DEF is, b
  <2>2. \A k \in Places : k \notin listed => records[k] = Absent
    OBVIOUS
  <2> HIDE DEF records
  <2>3. Absent.state = "absent"
    BY DEF Absent
  <2>5. \A k \in Places : records[k].state # "absent" => k \in listed
    BY <2>2, <2>3
  <2>6. QED
    BY <2>1, <2>2, <2>5
<1>9. records \in Records
  <2>1. ASSUME NEW k \in Places
        PROVE  (IF k \in listed THEN [state |-> RecordState(t, k, listed), bundle |-> disk[k].bundle]
                ELSE Absent) \in [state : RecordStates, bundle : Bundles \cup {NoBundle}]
    <3>1. RecordState(t, k, listed) \in RecordStates
      BY <1>1, <1>6, StateFacts DEF RecordStates
    <3>2. k \in listed => disk[k].bundle \in Bundles
      BY <1>6
    <3>3. Absent \in [state : RecordStates, bundle : Bundles \cup {NoBundle}]
      BY DEF Absent, RecordStates
    <3>4. QED
      BY <3>1, <3>2, <3>3
  <2>2. QED
    BY <2>1 DEF Records
<1> HIDE DEF records
<1>10. /\ q \in TaskStates /\ q.at = step /\ q.records = records /\ q.place = n
       /\ q.round = task[t].round /\ q.commands = task[t].commands
  <2>1. task[t] \in TaskStates /\ step \in PluginSteps
    BY <1>1, <1>7, TaskFacts DEF PluginSteps
  <2>2. QED
    BY <1>7, <1>9, <2>1, WithRecords
<1> HIDE DEF q
<1>11. Becomes(t, q)
  BY <1>1, <1>4, <1>10, OneTask
<1>12. task'[t] = q /\ Job(t)' = Job(t) /\ Places' = Places
  BY <1>2, <1>11 DEF Becomes, Job, Places
<1>13. PluginTypes'
  <2>1. Stores' = Stores /\ TaskStates' = TaskStates
    BY <1>2, <1>12 DEF Stores, TaskStates, Records
  <2>2. allowed' \in [Tasks -> SUBSET Stores] /\ moved' \in [Tasks -> BOOLEAN]
    BY <1>1, <1>2 DEF PluginTypes
  <2>3. QED
    BY <1>1, <1>2, <1>11, <1>12, <2>1, <2>2 DEF PluginTypes, Becomes
<1>14. ASSUME NEW u \in Tasks, u # t
       PROVE  ProcessInv(u)'
  <2>1. allowed'[u] = allowed[u] /\ moved'[u] = moved[u] /\ task'[u] = task[u]
    BY <1>1, <1>2, <1>11, <1>14 DEF PluginTypes, Becomes
  <2>2. Aside(u)
    BY <1>2, <2>1 DEF Aside, RecordsStay
  <2>3. QED
    BY <1>1, <2>2, AsideKeeps DEF PluginInv
<1>15. ProcessInv(t)'
  <2>1. StepOfJob(t)'
    <3>1. Job(t).kind \notin {"install", "revoke"}
      BY <1>1, <1>2 DEF ProcessInv, StepOfJob
    <3>2. Job(t).kind \in {"grant", "revoke", "install", "command", "feature"}
      BY <1>1, ScopeFacts DEF PluginTypes, Jobs
    <3>3. QED
      BY <1>7, <1>10, <1>12, <3>1, <3>2 DEF StepOfJob
  <2>2. LockOf(t)'
    <3>1. step = "lock" => n \in Places /\ records[n].bundle \in Bundles
      BY <1>6, <1>7, <1>8
    <3>2. QED
      BY <1>7, <1>10, <1>12, <3>1 DEF LockOf, At
  <2>3. FoundBy(t)'
    <3>1. \A k \in Places : records[k].state # "absent" =>
             records[k].bundle \in Bundles /\ disk'[k].bundle = records[k].bundle
      BY <1>2, <1>6, <1>8
    <3>2. ASSUME NEW j \in Places, NEW k \in Places, j < k, records[j].state \in Tried,
                 records[k].state \in Tried
          PROVE  records[j].bundle.id # records[k].bundle.id
      <4>1. j \in listed /\ k \in listed
        BY <1>8, <3>2 DEF Tried
      <4>2. RecordState(t, j, listed) \in Tried /\ RecordState(t, k, listed) \in Tried
        BY <1>8, <3>2, <4>1
      <4>3. disk[j].bundle.check # "invalid"
        BY <1>1, <1>6, <4>2, StateFacts
      <4>4. disk[j].bundle.id # disk[k].bundle.id
        BY <1>1, <1>6, <3>2, <4>1, <4>2, <4>3, StateFacts
      <4>5. QED
        BY <1>8, <4>1, <4>4
    <3>3. \A j, k \in Places : j # k => j < k \/ k < j
      BY <1>1, ScopeFacts DEF PluginTypes
    <3>4. QED
      BY <1>10, <1>12, <3>1, <3>2, <3>3 DEF FoundBy, StateOf, Of
  <2>4. VettedBy(t)'
    <3>1. task[t].round = 1 /\ CommandsOf(t) = {}
      BY <1>1, <1>2 DEF ProcessInv, VettedBy
    <3>2. CommandsOf(t)' = {}
      BY <1>10, <1>12, <3>1 DEF CommandsOf
    <3>3. consent' \in allowed'[t]
      BY <1>1, <1>2 DEF PluginTypes
    <3>4. QED
      BY <1>7, <1>10, <1>12, <3>1, <3>2, <3>3 DEF VettedBy, At
  <2>5. RanBy(t)'
    BY <1>1, <1>2 DEF ProcessInv, VettedBy, RanBy, At
  <2>6. OwnedBy(t)'
    BY <1>7, <1>10, <1>12 DEF OwnedBy, At
  <2>7. AnswerOf(t)'
    BY <1>7, <1>10, <1>12 DEF AnswerOf
  <2>8. QED
    BY <2>1, <2>2, <2>3, <2>4, <2>5, <2>6, <2>7 DEF ProcessInv
<1>16. EmptiedInv'
  BY <1>1, <1>2, <1>11, EmptiedStays DEF PluginInv, Becomes
<1>17. QED
  BY <1>1, <1>2, <1>13, <1>14, <1>15, <1>16 DEF NextInv

\* A process passes the record it is at, which has state s from then on.
GoesPast(t, k, s) ==
    /\ k \in Places /\ At(t, "attach") /\ task[t].place = k
    /\ task'[t].at = "attach" /\ task'[t].copy = task[t].copy /\ task'[t].place = k + 1
    /\ task'[t].round = task[t].round /\ task'[t].chosen = task[t].chosen
    /\ task'[t].records[k].state = s
    /\ \A j \in Places : task'[t].records[j].bundle = Of(t, j)
    /\ \A j \in Places : j # k => task'[t].records[j].state = StateOf(t, j)
    /\ s = StateOf(t, k) \/ (StateOf(t, k) = "active" /\ s \in Tried)
    /\ UNCHANGED <<pluginScope, disk, consent, lockHolder, willed, allowed, moved>>

LEMMA PastFacts ==
    ASSUME PluginTypes, NEW t \in Tasks, NEW k, NEW s, GoesPast(t, k, s)
    PROVE  /\ Places' = Places /\ Job(t)' = Job(t)
           /\ \A j \in Places : Of(t, j)' = Of(t, j)
           /\ \A j \in Places : j # k => StateOf(t, j)' = StateOf(t, j)
           /\ StateOf(t, k)' = s
           /\ \A store, b, j : Consented(store, b, j)' = Consented(store, b, j)
           /\ \A j \in Places : j \in Nat
           /\ StateOf(t, k) # "absent" => s # "absent"
<1>1. Places' = Places /\ Job(t)' = Job(t)
  BY DEF GoesPast, Places, Job
<1>2. /\ \A j \in Places : Of(t, j)' = Of(t, j)
      /\ \A j \in Places : j # k => StateOf(t, j)' = StateOf(t, j)
      /\ StateOf(t, k)' = s
  BY DEF GoesPast, StateOf, Of
<1>3. \A store, b, j : Consented(store, b, j)' = Consented(store, b, j)
  BY DEF GoesPast, Consented, InWorkspace
<1>4. \A j \in Places : j \in Nat
  BY ScopeFacts DEF PluginTypes
<1>5. StateOf(t, k) # "absent" => s # "absent"
  BY DEF GoesPast, Tried
<1>6. QED
  BY <1>1, <1>2, <1>3, <1>4, <1>5

LEMMA PastFound ==
    ASSUME PluginTypes, NEW t \in Tasks, NEW k, NEW s, GoesPast(t, k, s), FoundBy(t)
    PROVE  FoundBy(t)'
<1>1. \A j \in Places : StateOf(t, j)' # "absent" => StateOf(t, j) # "absent"
  BY PastFacts DEF GoesPast
<1>2. \A j \in Places : StateOf(t, j)' \in Tried => StateOf(t, j) \in Tried
  <2>1. "active" \in Tried
    BY DEF Tried
  <2>2. s \in Tried => StateOf(t, k) \in Tried
    BY <2>1 DEF GoesPast
  <2>3. QED
    BY <2>2, PastFacts
<1>3. QED
  BY <1>1, <1>2, PastFacts DEF FoundBy, GoesPast

LEMMA PastRan ==
    ASSUME PluginTypes, NEW t \in Tasks, NEW k, NEW s, GoesPast(t, k, s), RanBy(t),
           \A e \in ran'[t] : e \in ran[t] \/
              /\ e.place = k /\ s \in Tried
              /\ \/ e.bundle = Of(t, k) /\ \E store \in allowed[t] : Consented(store, e.bundle, k)
                 \/ moved[t] /\ e.bundle.licence # "sealed"
    PROVE  RanBy(t)'
<1>1. ran[t] \subseteq [bundle : Bundles, place : Places]
  BY DEF PluginTypes
<1>2. ASSUME NEW j \in Places, StateOf(t, j) \in Tried
      PROVE  StateOf(t, j)' \in Tried
  <2>1. CASE j = k
    <3>1. s \in Tried
      BY <1>2, <2>1 DEF GoesPast
    <3>2. QED
      BY <2>1, <3>1, PastFacts
  <2>2. CASE j # k
    BY <1>2, <2>2, PastFacts
  <2>3. QED
    BY <2>1, <2>2
<1>3. ASSUME NEW e \in ran'[t]
      PROVE  /\ StateOf(t, e.place)' \in Tried
             /\ \/ e.bundle = Of(t, e.place)' /\ \E store \in allowed'[t] : Consented(store, e.bundle, e.place)'
                \/ moved'[t] /\ e.bundle.licence # "sealed"
  <2>1. allowed' = allowed /\ moved' = moved
    BY DEF GoesPast
  <2>2. CASE e \in ran[t]
    <3>1. e.place \in Places
      BY <1>1, <2>2
    <3>2. /\ StateOf(t, e.place) \in Tried
          /\ \/ e.bundle = Of(t, e.place) /\ \E store \in allowed[t] : Consented(store, e.bundle, e.place)
             \/ moved[t] /\ e.bundle.licence # "sealed"
      BY <2>2 DEF RanBy
    <3>3. StateOf(t, e.place)' \in Tried /\ Of(t, e.place)' = Of(t, e.place)
      BY <1>2, <3>1, <3>2, PastFacts
    <3>4. QED
      BY <2>1, <3>2, <3>3, PastFacts
  <2>3. CASE e \notin ran[t]
    <3>1. /\ e.place = k /\ s \in Tried
          /\ \/ e.bundle = Of(t, k) /\ \E store \in allowed[t] : Consented(store, e.bundle, k)
             \/ moved[t] /\ e.bundle.licence # "sealed"
      BY <1>3, <2>3
    <3>2. StateOf(t, k)' = s /\ Of(t, k)' = Of(t, k)
      BY PastFacts DEF GoesPast
    <3>3. QED
      BY <2>1, <3>1, <3>2, PastFacts
  <2>4. QED
    BY <2>2, <2>3
<1>4. QED
  BY <1>3 DEF RanBy

LEMMA PastVetted ==
    ASSUME PluginTypes, NEW t \in Tasks, NEW k, NEW s, GoesPast(t, k, s), VettedBy(t),
           s = "active" => Consented(task[t].copy, Of(t, k), k) /\ Of(t, k).check # "newer"
    PROVE  VettedBy(t)'
<1>1. /\ task[t].copy \in allowed[t] \cup {Nothing} /\ task[t].place >= 1 /\ task[t].place = k
      /\ \A j \in Places : StateOf(t, j) = "active" /\ (task[t].round = 2 \/ j < k) =>
            Consented(task[t].copy, Of(t, j), j) /\ Of(t, j).check # "newer"
  BY DEF GoesPast, VettedBy
<1>2. ASSUME NEW j \in Places, StateOf(t, j)' = "active", task[t].round = 2 \/ j < k + 1
      PROVE  Consented(task[t].copy, Of(t, j), j) /\ Of(t, j).check # "newer"
  <2>1. CASE j = k
    BY <1>2, <2>1, PastFacts
  <2>2. CASE j # k
    <3>1. task[t].round = 2 \/ j < k
      BY <1>2, <2>2, PastFacts DEF GoesPast
    <3>2. QED
      BY <1>1, <1>2, <2>2, <3>1, PastFacts
  <2>3. QED
    BY <2>1, <2>2
<1>3. k + 1 >= 1
  BY <1>1, PastFacts DEF GoesPast
<1>4. /\ At(t, "attach")' /\ ~At(t, "registry")' /\ ~At(t, "consent")'
      /\ task'[t].at \notin {"registry", "consent"}
  BY DEF GoesPast, At
<1>5. task'[t].copy = task[t].copy /\ allowed' = allowed /\ task'[t].place = k + 1 /\ task'[t].round = task[t].round
  BY DEF GoesPast
<1>6. \A j \in Places :
         /\ task'[t].records[j].bundle = Of(t, j)
         /\ task'[t].records[j].state = "active" /\ (task[t].round = 2 \/ j < k + 1) =>
                Consented(task[t].copy, Of(t, j), j) /\ Of(t, j).check # "newer"
  <2>1. \A j \in Places : StateOf(t, j)' = task'[t].records[j].state
    BY DEF StateOf
  <2>2. QED
    BY <1>2, <2>1 DEF GoesPast
<1>7. \A store, b, j : Consented(store, b, j)' = Consented(store, b, j)
  BY PastFacts
<1>8. Places' = Places
  BY PastFacts
<1>9. ASSUME NEW j \in Places, task'[t].records[j].state = "active", task[t].round = 2 \/ j < k + 1
      PROVE  /\ Consented(task[t].copy, task[t].records[j].bundle, j)'
             /\ task'[t].records[j].bundle.check # "newer"
  <2> DEFINE b == task'[t].records[j].bundle
  <2>1. b = task[t].records[j].bundle
    BY <1>6 DEF Of
  <2>2. Consented(task[t].copy, task[t].records[j].bundle, j) /\ task[t].records[j].bundle.check # "newer"
    BY <1>6, <1>9 DEF Of
  <2>3. Consented(task'[t].copy, b, j) /\ b.check # "newer"
    BY <1>5, <2>1, <2>2
  <2>4. QED
    BY <2>3, <1>7
<1>10. task[t].copy \in allowed'[t] \cup {Nothing'} /\ task'[t].place >= 1
  BY <1>1, <1>3, <1>5 DEF Nothing
<1> HIDE DEF GoesPast
<1>11. QED
  BY <1>4, <1>5, <1>8, <1>9, <1>10 DEF VettedBy, StateOf, Of

LEMMA NextNumber ==
    \A i, j \in Nat : j < j + 1 /\ ~(j < i /\ i < j + 1) /\ (i < j + 1 => i = j \/ i < j)
  OBVIOUS

\* A record that registers nothing changes no owner.
LEMMA PastOwned ==
    ASSUME PluginTypes, NEW t \in Tasks, NEW k, NEW s, GoesPast(t, k, s), OwnedBy(t),
           task'[t].commands = task[t].commands, faltered[t] => faltered'[t],
           s # "active",
           task[t].round = 2 /\ ~faltered'[t] => s = StateOf(t, k)
    PROVE  OwnedBy(t)'
<1>1. CommandsOf(t)' = CommandsOf(t) /\ Job(t)' = Job(t) /\ Places' = Places
      /\ Len(pluginScope.places)' = Len(pluginScope.places) /\ k \in Places /\ k \in Nat
  BY PastFacts DEF CommandsOf, GoesPast
<1>n. \A j \in Places : j \in Nat
  BY PastFacts
<1>o. (\A j \in Places : Of(t, j)' = Of(t, j)) /\ task'[t].round = task[t].round /\ task'[t].chosen = task[t].chosen
  BY PastFacts DEF GoesPast
<1>2. ASSUME Undisturbed(t)'
      PROVE  Undisturbed(t) /\ Owned(t) /\ ChosenOwned(t) /\ ~faltered'[t]
  BY <1>2 DEF Undisturbed, GoesPast, OwnedBy
<1>3. \A j \in Places : \A c : j # k => Registers(t, j, c)' = Registers(t, j, c)
  BY PastFacts DEF Registers
<1>4. \A c : ~Registers(t, k, c)'
  BY PastFacts DEF Registers
<1>5. ASSUME NEW c \in CommandsOf(t), Owned(t)
      PROVE  \E j \in Places : /\ j < k + 1 /\ Registers(t, j, c)'
                               /\ \A i \in Places : j < i /\ i < k + 1 => ~Registers(t, i, c)'
                               /\ task[t].commands[c] = Of(t, j)'.id
  <2>1. PICK j \in Places : OwnerBefore(t, c, j, task[t].place) /\ task[t].commands[c] = Of(t, j).id
    BY <1>5 DEF Owned
  <2>2. j < k /\ Registers(t, j, c) /\ \A i \in Places : j < i /\ i < k => ~Registers(t, i, c)
    BY <2>1 DEF OwnerBefore, GoesPast
  <2>3. j # k /\ j \in Nat
    BY <1>1, <1>n, <2>2
  <2>4. Registers(t, j, c)' /\ task[t].commands[c] = Of(t, j)'.id
    BY <1>3, <2>1, <2>2, <2>3, PastFacts
  <2>5. ASSUME NEW i \in Places, j < i, i < k + 1
        PROVE  ~Registers(t, i, c)'
    <3>n. i \in Nat /\ k \in Nat /\ i < k + 1
      BY <1>1, <1>n, <2>5
    <3>1. i \in Nat /\ (i = k \/ i < k)
      BY <3>n
    <3>2. QED
      BY <1>3, <1>4, <2>2, <2>5, <3>1
  <2>n. j \in Nat /\ k \in Nat /\ j < k
    BY <1>1, <2>2, <2>3
  <2>6. j < k + 1
    BY <2>n
  <2>7. QED
    BY <2>4, <2>5, <2>6
<1>6. Owned(t) => Owned(t)'
  BY <1>1, <1>5 DEF Owned, OwnerBefore, GoesPast
<1>7. ASSUME ChosenOwned(t), ~faltered'[t]
      PROVE  ChosenOwned(t)'
  <2>1. CASE task[t].round = 2
    <3>1. \A j \in Places : \A c : Registers(t, j, c)' = Registers(t, j, c)
      BY <1>3, <1>4, <1>7, <2>1, PastFacts DEF Registers
    <3>2. QED
      BY <1>1, <1>o, <1>7, <3>1 DEF ChosenOwned, OwnerBefore
  <2>2. CASE task[t].round # 2
    BY <2>2 DEF ChosenOwned, GoesPast
  <2>3. QED
    BY <2>1, <2>2
<1>8. QED
  BY <1>2, <1>6, <1>7 DEF OwnedBy

\* One that registers its commands becomes their owner.
LEMMA PastRegistered ==
    ASSUME PluginTypes, NEW t \in Tasks, NEW k, GoesPast(t, k, "active"), OwnedBy(t),
           StateOf(t, k) = "active", faltered[t] => faltered'[t],
           ~moved[t] => task'[t].commands = Registered(t, Of(t, k).registers, Of(t, k).id)
    PROVE  OwnedBy(t)'
<1>1. Job(t)' = Job(t) /\ Places' = Places
      /\ Len(pluginScope.places)' = Len(pluginScope.places) /\ k \in Places /\ k \in Nat
  BY PastFacts DEF GoesPast
<1>n. \A j \in Places : j \in Nat
  BY PastFacts
<1>o. (\A j \in Places : Of(t, j)' = Of(t, j)) /\ task'[t].round = task[t].round /\ task'[t].chosen = task[t].chosen
  BY PastFacts DEF GoesPast
<1>2. ASSUME Undisturbed(t)'
      PROVE  Undisturbed(t) /\ Owned(t) /\ ChosenOwned(t) /\ ~moved[t]
  BY <1>2 DEF Undisturbed, GoesPast, OwnedBy
<1>3. \A j \in Places : \A c : Registers(t, j, c)' = Registers(t, j, c)
  BY PastFacts DEF Registers
<1>4. ASSUME ~moved[t], Owned(t)
      PROVE  Owned(t)'
  <2> DEFINE new == Of(t, k).registers
             cs == Registered(t, new, Of(t, k).id)
  <2>1. task'[t].commands = cs /\ CommandsOf(t)' = DOMAIN cs
    BY <1>4 DEF CommandsOf
  <2>2. DOMAIN cs = new \cup CommandsOf(t)
    BY DEF Registered
  <2>3. \A c \in new : cs[c] = Of(t, k).id
    BY DEF Registered
  <2>4. \A c \in CommandsOf(t) : c \notin new => cs[c] = task[t].commands[c]
    BY DEF Registered
  <2> HIDE DEF cs, new
  <2>5. ASSUME NEW c \in DOMAIN cs
        PROVE  \E j \in Places : /\ j < k + 1 /\ Registers(t, j, c)
                                 /\ \A i \in Places : j < i /\ i < k + 1 => ~Registers(t, i, c)
                                 /\ cs[c] = Of(t, j).id
    <3>1. CASE c \in new
      <4>1. Registers(t, k, c)
        BY <3>1 DEF Registers, new
      <4>2. k < k + 1 /\ \A i \in Places : ~(k < i /\ i < k + 1)
        BY NextNumber, <1>1, <1>n
      <4>3. QED
        BY <1>1, <2>3, <3>1, <4>1, <4>2
    <3>2. CASE c \notin new
      <4>1. c \in CommandsOf(t) /\ cs[c] = task[t].commands[c]
        BY <2>2, <2>4, <2>5, <3>2
      <4>2. PICK j \in Places : OwnerBefore(t, c, j, task[t].place) /\ task[t].commands[c] = Of(t, j).id
        BY <1>4, <4>1 DEF Owned
      <4>3. j < k /\ Registers(t, j, c) /\ \A i \in Places : j < i /\ i < k => ~Registers(t, i, c)
        BY <4>2 DEF OwnerBefore, GoesPast
      <4>n. j \in Nat /\ k \in Nat /\ j < k
        BY <1>1, <1>n, <4>3
      <4>4. j \in Nat /\ j < k + 1
        BY <4>n
      <4>5. ~Registers(t, k, c)
        BY <3>2 DEF Registers, new
      <4>6. \A i \in Places : i < k + 1 => i = k \/ i < k
        BY NextNumber, <1>1, <1>n
      <4>7. QED
        BY <4>1, <4>2, <4>3, <4>4, <4>5, <4>6
    <3>3. QED
      BY <3>1, <3>2
  <2>6. \A j \in Places : Of(t, j)' = Of(t, j)
    BY PastFacts
  <2>7. QED
    BY <1>1, <1>3, <2>1, <2>5, <2>6 DEF Owned, OwnerBefore, GoesPast
<1>5. ChosenOwned(t) => ChosenOwned(t)'
  BY <1>1, <1>o, <1>3 DEF ChosenOwned, OwnerBefore
<1>6. QED
  BY <1>2, <1>4, <1>5 DEF OwnedBy

LEMMA RegisteredTypes ==
    ASSUME PluginTypes, NEW t \in Tasks, NEW new \in SUBSET Commands, NEW i \in PluginIds
    PROVE  Registered(t, new, i) \in CommandMaps
<1> DEFINE S == new \cup CommandsOf(t)
<1>1. S \in SUBSET Commands /\ \A c \in CommandsOf(t) : task[t].commands[c] \in PluginIds
  BY CommandFacts
<1>2. Registered(t, new, i) \in [S -> PluginIds]
  BY <1>1 DEF Registered
<1> HIDE DEF S
<1>3. QED
  BY <1>1, <1>2 DEF CommandMaps

LEMMA RegisteredNone ==
    ASSUME PluginTypes, NEW t \in Tasks, NEW i
    PROVE  Registered(t, {}, i) = task[t].commands
<1>1. task[t].commands \in CommandMaps
  BY TaskFacts
<1>2. PICK S \in SUBSET Commands : task[t].commands \in [S -> PluginIds]
  BY <1>1 DEF CommandMaps
<1>3. CommandsOf(t) = S
  BY <1>2 DEF CommandsOf
<1>4. QED
  BY <1>2, <1>3 DEF Registered

\* A process passes a record.
LEMMA PastStep ==
    ASSUME PluginInv, NEW t \in Tasks, NEW k, NEW s, NEW q, Becomes(t, q), GoesPast(t, k, s),
           ran' \in [Tasks -> SUBSET [bundle : Bundles, place : Places]], faltered' \in [Tasks -> BOOLEAN],
           \A u \in Tasks : u # t => ran'[u] = ran[u] /\ faltered'[u] = faltered[u],
           RanBy(t)', VettedBy(t)', OwnedBy(t)'
    PROVE  NextInv
<1>1. PluginTypes /\ ProcessInv(t) /\ consent = willed
  BY DEF PluginInv
<1>2. /\ UNCHANGED <<pluginScope, disk, consent, lockHolder, willed, allowed, moved>>
      /\ task[t].at = "attach" /\ task'[t].at = "attach"
  BY DEF GoesPast, At
<1>3. PluginTypes'
  <2>1. Places' = Places /\ Stores' = Stores
    BY <1>2 DEF Places, Stores
  <2>2. TaskStates' = TaskStates
    BY <2>1 DEF TaskStates, Records
  <2>3. QED
    BY <1>1, <1>2, <2>1, <2>2 DEF PluginTypes, Becomes
<1>4. ASSUME NEW u \in Tasks, u # t
      PROVE  ProcessInv(u)'
  <2>1. Aside(u)
    BY <1>2, <1>4 DEF Aside, RecordsStay, Becomes
  <2>2. QED
    BY <1>1, <2>1, AsideKeeps DEF PluginInv
<1>5. ProcessInv(t)'
  <2>1. FoundBy(t)'
    BY <1>1, PastFound DEF ProcessInv
  <2>2. StepOfJob(t)'
    BY <1>1, <1>2, PastFacts DEF ProcessInv, StepOfJob
  <2>3. LockOf(t)' /\ AnswerOf(t)'
    BY <1>2 DEF LockOf, AnswerOf, At
  <2>4. QED
    BY <2>1, <2>2, <2>3 DEF ProcessInv
<1>6. EmptiedInv'
  BY <1>1, <1>2, EmptiedStays DEF PluginInv, Becomes
<1>7. QED
  BY <1>1, <1>2, <1>3, <1>4, <1>5, <1>6 DEF NextInv

\* A record on whose passing nothing is registered,
LEMMA PassesFacts ==
    ASSUME PluginTypes, NEW t \in Tasks, NEW k \in Places, NEW s \in RecordStates,
           At(t, "attach"), task[t].place = k, Passes(t, k, s),
           s = StateOf(t, k) \/ (StateOf(t, k) = "active" /\ s \in Tried),
           UNCHANGED <<pluginScope, disk, consent, lockHolder, willed, allowed, moved>>
    PROVE  /\ Becomes(t, NextRecord(t, k, s)) /\ GoesPast(t, k, s)
           /\ task'[t].commands = task[t].commands
<1> DEFINE q == NextRecord(t, k, s)
<1>1. /\ q \in TaskStates
      /\ q.at = task[t].at /\ q.copy = task[t].copy /\ q.place = k + 1 /\ q.round = task[t].round
      /\ q.commands = task[t].commands /\ q.chosen = task[t].chosen /\ q.answer = task[t].answer
      /\ q.records[k].state = s /\ \A j \in Places : q.records[j].bundle = task[t].records[j].bundle
      /\ \A j \in Places : j # k => q.records[j] = task[t].records[j]
  BY NextFacts
<1>2. task' = [task EXCEPT ![t] = q]
  BY DEF Passes
<1> HIDE DEF q
<1>3. Becomes(t, q)
  BY <1>1, <1>2, OneTask
<1>4. task'[t] = q
  BY <1>3 DEF Becomes
<1>5. GoesPast(t, k, s)
  BY <1>1, <1>4 DEF GoesPast, Of, StateOf, At
<1>6. QED
  BY <1>1, <1>3, <1>4, <1>5 DEF q

\* and one whose code registers commands.
LEMMA RegistersFacts ==
    ASSUME PluginTypes, NEW t \in Tasks, NEW k \in Places, NEW s \in {"active", "failed"},
           NEW new \in SUBSET Commands, NEW i \in PluginIds,
           At(t, "attach"), task[t].place = k, StateOf(t, k) = "active",
           task' = [task EXCEPT ![t] =
                       [NextRecord(t, k, s) EXCEPT !.commands = Registered(t, new, i)]],
           UNCHANGED <<pluginScope, disk, consent, lockHolder, willed, allowed, moved>>
    PROVE  /\ \E q : Becomes(t, q)
           /\ GoesPast(t, k, s) /\ task'[t].commands = Registered(t, new, i)
<1> DEFINE p == NextRecord(t, k, s)
           cs == Registered(t, new, i)
           q == Commanding(p, cs)
<1>1. /\ p \in TaskStates
      /\ p.at = task[t].at /\ p.copy = task[t].copy /\ p.place = k + 1 /\ p.round = task[t].round
      /\ p.commands = task[t].commands /\ p.chosen = task[t].chosen /\ p.answer = task[t].answer
      /\ p.records[k].state = s /\ \A j \in Places : p.records[j].bundle = task[t].records[j].bundle
      /\ \A j \in Places : j # k => p.records[j] = task[t].records[j]
  <2>1. s \in RecordStates
    BY DEF RecordStates
  <2>2. QED
    BY <2>1, NextFacts
<1>2. cs \in CommandMaps
  BY RegisteredTypes
<1>3. task' = [task EXCEPT ![t] = q]
  BY DEF Commanding
<1> HIDE DEF p, cs
<1>4. /\ q \in TaskStates /\ q.at = p.at /\ q.copy = p.copy /\ q.records = p.records
      /\ q.place = p.place /\ q.round = p.round /\ q.commands = cs /\ q.chosen = p.chosen
  BY <1>1, <1>2, WithCommands
<1> HIDE DEF q
<1>5. Becomes(t, q)
  BY <1>3, <1>4, OneTask
<1>6. task'[t] = q
  BY <1>5 DEF Becomes
<1>7. s \in Tried
  BY DEF Tried
<1>8. GoesPast(t, k, s)
  BY <1>1, <1>4, <1>6, <1>7 DEF GoesPast, Of, StateOf, At
<1>9. QED
  BY <1>4, <1>5, <1>6, <1>8 DEF cs

\* A record is passed without its code being run.
LEMMA PassedOver ==
    ASSUME PluginInv, NEW t \in Tasks, NEW k \in Places, NEW s \in RecordStates,
           At(t, "attach"), task[t].place = k, Passes(t, k, s), s # "active",
           s = StateOf(t, k) \/ (StateOf(t, k) = "active" /\ s \in Tried),
           UNCHANGED <<pluginScope, disk, consent, lockHolder, willed, allowed, moved, ran>>,
           faltered' \in [Tasks -> BOOLEAN], \A u \in Tasks : u # t => faltered'[u] = faltered[u],
           faltered[t] => faltered'[t],
           task[t].round = 2 /\ ~faltered'[t] => s = StateOf(t, k)
    PROVE  NextInv
<1>1. PluginTypes /\ ProcessInv(t)
  BY DEF PluginInv
<1>2. /\ Becomes(t, NextRecord(t, k, s)) /\ GoesPast(t, k, s)
      /\ task'[t].commands = task[t].commands
  BY <1>1, PassesFacts
<1>4. RanBy(t)'
  BY <1>1, <1>2, PastRan DEF ProcessInv
<1>5. VettedBy(t)'
  BY <1>1, <1>2, PastVetted DEF ProcessInv
<1>6. OwnedBy(t)'
  BY <1>1, <1>2, PastOwned DEF ProcessInv
<1>7. ran' \in [Tasks -> SUBSET [bundle : Bundles, place : Places]]
  BY <1>1 DEF PluginTypes
<1>8. QED
  BY <1>2, <1>4, <1>5, <1>6, <1>7, PastStep

LEMMA SkipKeeps ==
    ASSUME PluginInv, NEW t \in Tasks, Skip(t)
    PROVE  NextInv
<1> DEFINE k == task[t].place
           pending == task[t].round = 1 /\ Of(t, k) # NoBundle /\ ~Consented(task[t].copy, Of(t, k), k)
<1>1. PluginTypes /\ ProcessInv(t)
  BY DEF PluginInv
<1>2. /\ At(t, "attach") /\ k \in Places
      /\ UNCHANGED <<pluginScope, disk, consent, lockHolder, willed, allowed, moved, ran, faltered>>
      /\ \/ StateOf(t, k) # "active" /\ Passes(t, k, StateOf(t, k))
         \/ StateOf(t, k) = "active" /\ pending /\ Passes(t, k, "pending_consent")
         \/ StateOf(t, k) = "active" /\ ~pending /\ Of(t, k).check = "newer" /\ Passes(t, k, "failed")
  BY DEF Skip, StateOf, Of, ghostVars
<1>f. faltered' \in [Tasks -> BOOLEAN] /\ faltered' = faltered
  BY <1>1, <1>2 DEF PluginTypes
<1>3. StateOf(t, k) \in RecordStates /\ {"pending_consent", "failed"} \subseteq RecordStates \cap Tried
  BY <1>1, <1>2, TaskFacts DEF RecordStates, Tried
<1>4. StateOf(t, k) = "active" /\ Of(t, k).check = "newer" => task[t].round # 2
  BY <1>1, <1>2 DEF ProcessInv, VettedBy
<1>5. CASE StateOf(t, k) # "active" /\ Passes(t, k, StateOf(t, k))
  BY <1>2, <1>3, <1>5, <1>f, PassedOver
<1>6. CASE StateOf(t, k) = "active" /\ pending /\ Passes(t, k, "pending_consent")
  <2>1. task[t].round # 2 /\ "pending_consent" # "active"
    BY <1>6
  <2>2. QED
    BY <1>2, <1>3, <1>6, <2>1, <1>f, PassedOver
<1>7. CASE StateOf(t, k) = "active" /\ ~pending /\ Of(t, k).check = "newer" /\ Passes(t, k, "failed")
  <2>1. task[t].round # 2 /\ "failed" # "active"
    BY <1>4, <1>7
  <2>2. QED
    BY <1>2, <1>3, <1>7, <2>1, <1>f, PassedOver
<1>8. QED
  BY <1>2, <1>5, <1>6, <1>7

LEMMA AttachKeeps ==
    ASSUME PluginInv, NEW t \in Tasks, Attach(t)
    PROVE  NextInv
<1> DEFINE k == task[t].place
           b == disk[k].bundle
           r == Of(t, k)
<1>1. PluginTypes /\ ProcessInv(t)
  BY DEF PluginInv
<1>2. /\ At(t, "attach") /\ k \in Places /\ StateOf(t, k) = "active" /\ r.check # "newer"
      /\ task[t].round = 1 => Consented(task[t].copy, r, k)
      /\ UNCHANGED <<pluginScope, disk, consent, lockHolder, willed, allowed, moved>>
  BY DEF Attach, StateOf, Of
<1>3. /\ Consented(task[t].copy, r, k) /\ task[t].copy \in allowed[t]
      /\ r \in Bundles /\ (~moved[t] => b = r)
  <2>1. task[t].round \in {1, 2}
    BY <1>1, TaskFacts
  <2>2. Consented(task[t].copy, r, k) /\ task[t].copy \in allowed[t] \cup {Nothing}
    BY <1>1, <1>2, <2>1 DEF ProcessInv, VettedBy
  <2>3. r \in Bundles /\ (~moved[t] => b = r)
    BY <1>1, <1>2 DEF ProcessInv, FoundBy
  <2>4. ~Consented(Nothing, r, k)
    <3>1. r.id \in PluginIds
      BY <2>3 DEF Bundles
    <3>2. Nothing[r.id] = NoEntry /\ NoEntry.attested = FALSE
      BY <3>1 DEF Nothing, NoEntry
    <3>3. QED
      BY <3>2 DEF Consented
  <2>5. QED
    BY <2>2, <2>3, <2>4
<1>4. {"failed", "active"} \subseteq RecordStates \cap Tried
  BY DEF RecordStates, Tried
<1>5. CASE /\ Passes(t, k, "failed") /\ ran' = ran
           /\ faltered' = [faltered EXCEPT ![t] = @ \/ task[t].round = 2]
  <2>1. "failed" \in RecordStates /\ "failed" \in Tried /\ "failed" # "active"
    BY <1>4
  <2>2. UNCHANGED <<pluginScope, disk, consent, lockHolder, willed, allowed, moved, ran>>
    BY <1>2, <1>5
  <2>3. StateOf(t, k) = "active" /\ At(t, "attach") /\ k \in Places /\ task[t].place = k
    BY <1>2
  <2>4. Passes(t, k, "failed")
    BY <1>5
  <2>5. /\ faltered' \in [Tasks -> BOOLEAN] /\ \A u \in Tasks : u # t => faltered'[u] = faltered[u]
        /\ faltered[t] => faltered'[t]
        /\ task[t].round = 2 => faltered'[t]
    BY <1>1, <1>5 DEF PluginTypes
  <2> HIDE DEF k, b, r
  <2>6. QED
    BY <2>1, <2>2, <2>3, <2>4, <2>5, PassedOver
<1>6. CASE /\ Opens(t, k)
           /\ ran' = [ran EXCEPT ![t] = @ \cup {[bundle |-> b, place |-> k]}]
           /\ \E fails \in {FALSE} \cup (IF pluginScope.flaky THEN {TRUE} ELSE {}),
                 done \in SUBSET b.registers :
                /\ fails \/ done = b.registers
                /\ task' = [task EXCEPT ![t] =
                      [NextRecord(t, k, IF fails THEN "failed" ELSE "active") EXCEPT
                         !.commands = Registered(t, done, r.id)]]
                /\ faltered' = [faltered EXCEPT ![t] =
                      @ \/ (fails /\ (task[t].round = 2 \/ done # {}))]
  <2>1. PICK fails \in {FALSE} \cup (IF pluginScope.flaky THEN {TRUE} ELSE {}), done \in SUBSET b.registers :
                /\ fails \/ done = b.registers
                /\ task' = [task EXCEPT ![t] =
                      [NextRecord(t, k, IF fails THEN "failed" ELSE "active") EXCEPT
                         !.commands = Registered(t, done, r.id)]]
                /\ faltered' = [faltered EXCEPT ![t] =
                      @ \/ (fails /\ (task[t].round = 2 \/ done # {}))]
    BY <1>6
  <2> DEFINE s == IF fails THEN "failed" ELSE "active"
  <2>2. /\ s \in {"active", "failed"} /\ fails \in BOOLEAN
        /\ (fails => s = "failed") /\ (~fails => s = "active")
    OBVIOUS
  <2>3. task' = [task EXCEPT ![t] = [NextRecord(t, k, s) EXCEPT !.commands = Registered(t, done, r.id)]]
    BY <2>1
  <2>4. b \in Bundles
    <3>1. b # NoBundle
      BY <1>6 DEF Opens
    <3>2. QED
      BY <1>1, <1>2, <3>1 DEF PluginTypes
  <2>5. b.registers \subseteq Commands /\ r.id \in PluginIds
    BY <1>3, <2>4 DEF Bundles
  <2> HIDE DEF s, k, b, r
  <2>6. done \in SUBSET Commands
    BY <2>5
  <2>7. /\ \E q : Becomes(t, q)
        /\ GoesPast(t, k, s) /\ task'[t].commands = Registered(t, done, r.id)
    <3>1. task[t].place = k
      BY DEF k
    <3>2. QED
      BY <1>1, <1>2, <2>2, <2>3, <2>5, <2>6, <3>1, RegistersFacts
  <2>8. /\ ran'[t] = ran[t] \cup {[bundle |-> b, place |-> k]}
        /\ \A u \in Tasks : u # t => ran'[u] = ran[u]
        /\ ran' \in [Tasks -> SUBSET [bundle : Bundles, place : Places]]
    <3>1. [bundle |-> b, place |-> k] \in [bundle : Bundles, place : Places]
      BY <1>2, <2>4
    <3> DEFINE e == [bundle |-> b, place |-> k]
    <3> HIDE DEF e
    <3>2. ran' = [ran EXCEPT ![t] = @ \cup {e}]
      BY <1>6 DEF e, b
    <3>3. ran \in [Tasks -> SUBSET [bundle : Bundles, place : Places]]
      BY <1>1 DEF PluginTypes
    <3>4. /\ ran'[t] = ran[t] \cup {e} /\ \A u \in Tasks : u # t => ran'[u] = ran[u]
          /\ ran' \in [Tasks -> SUBSET [bundle : Bundles, place : Places]]
      BY <3>1, <3>2, <3>3 DEF e
    <3>5. QED
      BY <3>4 DEF e
  <2>9. /\ faltered' \in [Tasks -> BOOLEAN]
        /\ \A u \in Tasks : u # t => faltered'[u] = faltered[u]
        /\ faltered[t] => faltered'[t]
        /\ ~faltered'[t] /\ fails => task[t].round # 2 /\ done = {}
    <3> DEFINE x == fails /\ (task[t].round = 2 \/ done # {})
    <3>1. x \in BOOLEAN /\ faltered \in [Tasks -> BOOLEAN]
      BY <1>1, <2>2 DEF PluginTypes
    <3>2. faltered' = [faltered EXCEPT ![t] = @ \/ x]
      BY <2>1
    <3> HIDE DEF x
    <3>3. /\ faltered' \in [Tasks -> BOOLEAN]
          /\ \A u \in Tasks : u # t => faltered'[u] = faltered[u]
          /\ faltered'[t] = (faltered[t] \/ x)
      BY <3>1, <3>2
    <3>4. QED
      BY <3>3 DEF x
  <2>10. RanBy(t)'
    <3> DEFINE e == [bundle |-> b, place |-> k]
    <3>1. e.place = k /\ e.bundle = b
      OBVIOUS
    <3> HIDE DEF e
    <3>2. \/ b = r /\ \E store \in allowed[t] : Consented(store, b, k)
          \/ moved[t] /\ b.licence # "sealed"
      <4>1. CASE b = r
        BY <1>3, <4>1
      <4>2. CASE b # r
        <5>1. moved[t]
          BY <1>3, <4>2
        <5>2. b.licence # "sealed"
          BY <1>6, <4>2 DEF Opens, b, r, Of, k
        <5>3. QED
          BY <5>1, <5>2
      <4>3. QED
        BY <4>1, <4>2
    <3>3. s \in Tried
      BY <2>2 DEF Tried
    <3>4. \A f \in ran'[t] : f \in ran[t] \/ f = e
      BY <2>8 DEF e
    <3>5. \A f \in ran'[t] : f \in ran[t] \/
              /\ f.place = k /\ s \in Tried
              /\ \/ f.bundle = Of(t, k) /\ \E store \in allowed[t] : Consented(store, f.bundle, k)
                 \/ moved[t] /\ f.bundle.licence # "sealed"
      BY <3>1, <3>2, <3>3, <3>4 DEF r
    <3>6. QED
      BY <1>1, <2>7, <3>5, PastRan DEF ProcessInv
  <2>11. VettedBy(t)'
    <3>1. Consented(task[t].copy, Of(t, k), k) /\ Of(t, k).check # "newer"
      BY <1>2, <1>3 DEF r
    <3>2. QED
      BY <1>1, <2>7, <3>1, PastVetted DEF ProcessInv
  <2>12. OwnedBy(t)'
    <3>1. CASE fails /\ faltered'[t]
      BY <3>1 DEF OwnedBy, Undisturbed
    <3>2. CASE fails /\ ~faltered'[t]
      <4>1. task'[t].commands = task[t].commands
        BY <1>1, <2>7, <2>9, <3>2, RegisteredNone
      <4>2. s # "active" /\ task[t].round # 2
        BY <2>2, <2>9, <3>2
      <4>3. QED
        BY <1>1, <2>7, <2>9, <4>1, <4>2, PastOwned DEF ProcessInv
    <3>3. CASE ~fails
      <4>1. done = b.registers /\ s = "active"
        BY <2>1, <2>2, <3>3 DEF b, k
      <4>2. ~moved[t] => task'[t].commands = Registered(t, Of(t, k).registers, Of(t, k).id)
        BY <1>3, <2>7, <4>1 DEF r
      <4>3. GoesPast(t, k, "active")
        BY <2>7, <4>1
      <4>4. QED
        BY <1>1, <1>2, <2>9, <4>2, <4>3, PastRegistered DEF ProcessInv
    <3>4. QED
      BY <2>2, <3>1, <3>2, <3>3
  <2>13. QED
    BY <2>7, <2>8, <2>9, <2>10, <2>11, <2>12, PastStep
<1>7. QED
  BY <1>5, <1>6 DEF Attach, Of

-----------------------------------------------------------------------------
LEMMA PluginStart == PluginInit => PluginInv
<1> SUFFICES ASSUME PluginInit PROVE PluginInv
  OBVIOUS
<1> DEFINE none == [k \in Places |-> Absent]
           at(t) == CASE Job(t).kind = "revoke" -> "lock"
                      [] Job(t).kind = "install" -> "stage"
                      [] OTHER -> "registry"
           nothing == [c \in {} |-> ""]
           first(t) == [at |-> at(t), copy |-> consent, records |-> none, place |-> 1, round |-> 1,
                        commands |-> nothing, chosen |-> 0, answer |-> ""]
<1>1. /\ pluginScope \in PluginScopes
      /\ disk = [k \in Places |-> [bundle |-> pluginScope.disk[k], whole |-> TRUE]]
      /\ consent = pluginScope.store /\ lockHolder = 0
      /\ task = [t \in Tasks |-> first(t)]
      /\ willed = consent /\ allowed = [t \in Tasks |-> {}] /\ ran = [t \in Tasks |-> {}]
      /\ moved = [t \in Tasks |-> FALSE] /\ faltered = [t \in Tasks |-> FALSE]
  BY DEF PluginInit
<1>2. consent \in Stores /\ pluginScope.disk \in [Places -> Bundles \cup {NoBundle}]
      /\ \A t \in Tasks : Job(t).kind \in {"grant", "revoke", "install", "command", "feature"}
  BY <1>1, ScopeFacts DEF Jobs
<1>3. \A t \in Tasks : /\ at(t) \in {"lock", "stage", "registry"}
                       /\ at(t) = "lock" => Job(t).kind = "revoke"
                       /\ at(t) = "stage" => Job(t).kind = "install"
                       /\ at(t) = "registry" => Job(t).kind \notin {"install", "revoke"}
  BY <1>2
<1>4. none \in Records /\ \A k \in Places : none[k].state = "absent"
  <2>1. Absent \in [state : RecordStates, bundle : Bundles \cup {NoBundle}] /\ Absent.state = "absent"
    BY DEF Absent, RecordStates
  <2>2. QED
    BY <2>1 DEF Records
<1>5. nothing \in CommandMaps /\ DOMAIN nothing = {}
  <2>1. nothing \in [{} -> PluginIds] /\ {} \in SUBSET Commands
    OBVIOUS
  <2>2. QED
    BY <2>1 DEF CommandMaps
<1> HIDE DEF at, none, nothing
<1>6. ASSUME NEW t \in Tasks
      PROVE  /\ first(t) \in TaskStates /\ first(t).at = at(t) /\ first(t).records = none
             /\ first(t).commands = nothing /\ first(t).round = 1 /\ first(t).place = 1
  <2>1. at(t) \in PluginSteps /\ "" \in Answers
    BY <1>3 DEF PluginSteps, Answers
  <2>2. QED
    BY <1>2, <1>4, <1>5, <2>1 DEF TaskStates
<1> HIDE DEF first
<1>7. PluginTypes
  <2>1. disk \in [Places -> [bundle : Bundles \cup {NoBundle}, whole : BOOLEAN]]
    BY <1>1, <1>2
  <2>2. task \in [Tasks -> TaskStates]
    BY <1>1, <1>6
  <2>3. QED
    BY <1>1, <1>2, <2>1, <2>2 DEF PluginTypes
<1>8. ASSUME NEW t \in Tasks
      PROVE  ProcessInv(t)
  <2>1. /\ task[t].at = at(t) /\ task[t].records = none /\ task[t].commands = nothing /\ task[t].round = 1
        /\ ran[t] = {}
    BY <1>1, <1>6
  <2>2. StepOfJob(t) /\ LockOf(t) /\ OwnedBy(t) /\ AnswerOf(t)
    BY <1>3, <2>1 DEF StepOfJob, LockOf, OwnedBy, AnswerOf, At
  <2>3. FoundBy(t)
    BY <1>4, <2>1 DEF FoundBy, StateOf, Tried
  <2>4. VettedBy(t) /\ RanBy(t)
    BY <1>3, <1>5, <2>1 DEF VettedBy, RanBy, At, CommandsOf
  <2>5. QED
    BY <2>2, <2>3, <2>4 DEF ProcessInv
<1>9. EmptiedInv
  BY <1>1 DEF EmptiedInv
<1>10. QED
  BY <1>1, <1>7, <1>8, <1>9 DEF PluginInv

LEMMA PluginNextKeeps == PluginInv /\ [PluginNext]_pluginVars => PluginInv'
<1> SUFFICES ASSUME PluginInv, [PluginNext]_pluginVars PROVE PluginInv'
  OBVIOUS
<1>1. CASE PluginNext
  <2>1. PICK t \in Tasks :
          \/ BuildRegistry(t) \/ TakeLock(t) \/ SaveConsent(t) \/ ReadConsent(t)
          \/ Skip(t) \/ Attach(t) \/ Resolve(t) \/ RunCommand(t)
          \/ Stage(t) \/ Empty(t) \/ MoveIn(t) \/ ProcessDies(t)
    BY <1>1 DEF PluginNext
  <2>2. NextInv
    BY <2>1, BuildRegistryKeeps, TakeLockKeeps, SaveConsentKeeps, ReadConsentKeeps, SkipKeeps, AttachKeeps,
       ResolveKeeps, RunCommandKeeps, StageKeeps, EmptyKeeps, MoveInKeeps, ProcessDiesKeeps
  <2>3. QED
    BY <2>2 DEF NextInv, PluginInv
<1>2. CASE UNCHANGED pluginVars
  <2>1. UNCHANGED <<pluginScope, disk, consent, lockHolder, task, willed, allowed, ran, moved, faltered>>
    BY <1>2 DEF pluginVars, ghostVars
  <2>2. Places' = Places /\ Stores' = Stores
    BY <2>1 DEF Places, Stores
  <2>3. PluginTypes'
    <3>1. TaskStates' = TaskStates
      BY <2>2 DEF TaskStates, Records
    <3>2. PluginTypes
      BY DEF PluginInv
    <3>3. QED
      BY <2>1, <2>2, <3>1, <3>2 DEF PluginTypes
  <2>4. ASSUME NEW u \in Tasks
        PROVE  ProcessInv(u)'
    <3>1. Aside(u)
      BY <2>1 DEF Aside, RecordsStay
    <3>2. QED
      BY <3>1, AsideKeeps DEF PluginInv
  <2>5. EmptiedInv'
    <3>1. \A u \in Tasks, k \in Places : Empties(u, k) => Empties(u, k)'
      BY <2>1, EmptiesFacts DEF Empties, At
    <3>2. QED
      BY <2>1, <2>2, <3>1 DEF EmptiedInv, PluginInv
  <2>6. QED
    BY <2>1, <2>3, <2>4, <2>5 DEF PluginInv
<1>3. QED
  BY <1>1, <1>2

LEMMA PluginAlways == PluginSpec => []PluginInv
  BY PluginStart, PluginNextKeeps, PTL DEF PluginSpec

\* PluginsKept: no consent is lost or comes back (attach_plugins, grant_plugin_consent), code that
\* ran had one, a feature that names its plugin is answered by it while nothing disturbs
\* the process (invoke_plugin_feature), and a place is left empty or whole (install_plugin),
\* for any number of places, plugins and commands.
THEOREM PluginsAreKept == PluginSpec => []PluginsKept
<1>1. PluginInv => PluginsKept
  <2> SUFFICES ASSUME PluginInv PROVE PluginsKept
    OBVIOUS
  <2>1. StoreIsWill
    BY DEF PluginInv, StoreIsWill
  <2>2. RanAsAllowed
    <3>1. ASSUME NEW t \in Tasks, NEW e \in ran[t]
          PROVE  \/ \E s \in allowed[t] : Consented(s, e.bundle, e.place)
                 \/ moved[t] /\ e.bundle.licence # "sealed"
      BY <3>1 DEF PluginInv, ProcessInv, RanBy
    <3>2. ASSUME NEW t \in Tasks, NEW e \in ran[t], NEW f \in ran[t], e.bundle.id = f.bundle.id, ~moved[t]
          PROVE  e.place = f.place
      <4>1. /\ StateOf(t, e.place) \in Tried /\ e.bundle = Of(t, e.place)
            /\ StateOf(t, f.place) \in Tried /\ f.bundle = Of(t, f.place)
        BY <3>2 DEF PluginInv, ProcessInv, RanBy
      <4>2. e.place \in Places /\ f.place \in Places
        BY <3>2 DEF PluginInv, PluginTypes
      <4>3. QED
        BY <3>2, <4>1, <4>2 DEF PluginInv, ProcessInv, FoundBy
    <3>3. QED
      BY <3>1, <3>2 DEF RanAsAllowed
  <2>3. ExpectedAnswers
    BY DEF PluginInv, ProcessInv, AnswerOf, Undisturbed, ExpectedAnswers
  <2>4. PlacesWhole
    BY DEF PluginInv, EmptiedInv, Empties, At, PlacesWhole
  <2>5. QED
    BY <2>1, <2>2, <2>3, <2>4 DEF PluginsKept
<1>2. QED
  BY <1>1, PluginAlways, PTL

-----------------------------------------------------------------------------
(* The control-flow graph of a listing *)
-----------------------------------------------------------------------------
(* The control-flow graph of a listing *)

\* A set as a sequence, and what is put behind a sequence.
LEMMA ListOfSet ==
    ASSUME NEW S, IsFiniteSet(S)
    PROVE  /\ SetToSeq(S) \in Seq(S) /\ Len(SetToSeq(S)) = Cardinality(S)
           /\ Range(SetToSeq(S)) = S
<1>. DEFINE n == Cardinality(S)
            f == SetToSeq(S)
<1>1. n \in Nat /\ ExistsBijection(1..n, S)
  BY FS_CardinalityType
<1>. HIDE DEF n
<1>2. \E g \in [1..n -> S] : IsInjective(g)
  BY <1>1 DEF ExistsBijection, Bijection, Injection
<1>3. f \in [1..n -> S] /\ IsInjective(f)
  BY <1>2 DEF SetToSeq, n
<1>. HIDE DEF f
<1>4. f \in Seq(S) /\ Len(f) = n
  BY <1>1, <1>3, SeqDef
<1>5. Range(f) = S
  <2>. DEFINE T == Range(f)
  <2>1. T \subseteq S /\ f \in [1..n -> T] /\ \A t \in T : \E s \in 1..n : f[s] = t
    BY <1>3 DEF Range
  <2>2. f \in Surjection(1..n, T) /\ f \in Injection(1..n, T)
    BY <1>3, <2>1 DEF Surjection, Injection
  <2>3. IsFiniteSet(1..n) /\ Cardinality(1..n) = n
    BY <1>1, FS_Interval
  <2>4. Cardinality(T) = n
    BY <2>2, <2>3, FS_Surjection
  <2>5. QED
    BY <2>1, <2>4, FS_Subset DEF n
<1>. QED
  BY <1>4, <1>5 DEF f, n

LEMMA JoinedRange ==
    ASSUME NEW T, NEW s \in Seq(T), NEW t \in Seq(T)
    PROVE  Range(s \o t) = Range(s) \cup Range(t)
<1>1. /\ s \o t \in Seq(T) /\ Len(s \o t) = Len(s) + Len(t)
      /\ \A i \in 1..(Len(s) + Len(t)) : (s \o t)[i] = IF i <= Len(s) THEN s[i] ELSE t[i - Len(s)]
  BY ConcatProperties
<1>2. /\ Len(s) \in Nat /\ Len(t) \in Nat /\ DOMAIN s = 1..Len(s) /\ DOMAIN t = 1..Len(t)
      /\ DOMAIN (s \o t) = 1..(Len(s) + Len(t))
  BY <1>1, LenProperties
<1>3. ASSUME NEW x \in Range(s \o t)
      PROVE  x \in Range(s) \cup Range(t)
  <2>1. PICK i \in 1..(Len(s) + Len(t)) : (s \o t)[i] = x
    BY <1>2, <1>3 DEF Range
  <2>2. CASE i <= Len(s)
    BY <1>1, <1>2, <2>1, <2>2 DEF Range
  <2>3. CASE ~(i <= Len(s))
    <3>1. i - Len(s) \in 1..Len(t) /\ t[i - Len(s)] = x
      BY <1>1, <1>2, <2>1, <2>3
    <3>2. QED
      BY <1>2, <3>1 DEF Range
  <2>. QED
    BY <2>2, <2>3
<1>4. ASSUME NEW x \in Range(s)
      PROVE  x \in Range(s \o t)
  <2>1. PICK i \in 1..Len(s) : s[i] = x
    BY <1>2, <1>4 DEF Range
  <2>2. i \in 1..(Len(s) + Len(t)) /\ i <= Len(s)
    BY <1>2
  <2>. QED
    BY <1>1, <1>2, <2>1, <2>2 DEF Range
<1>5. ASSUME NEW x \in Range(t)
      PROVE  x \in Range(s \o t)
  <2>1. PICK i \in 1..Len(t) : t[i] = x
    BY <1>2, <1>5 DEF Range
  <2>2. i + Len(s) \in 1..(Len(s) + Len(t)) /\ ~(i + Len(s) <= Len(s)) /\ (i + Len(s)) - Len(s) = i
    BY <1>2
  <2>3. (s \o t)[i + Len(s)] = x
    BY <1>1, <2>1, <2>2
  <2>. QED
    BY <1>2, <2>2, <2>3 DEF Range
<1>. QED
  BY <1>3, <1>4, <1>5

LEMMA PutBehind ==
    ASSUME NEW T, NEW s \in Seq(T), NEW S \in SUBSET T, IsFiniteSet(S)
    PROVE  LET u == s \o SetToSeq(S \ Range(s))
           IN u \in Seq(T) /\ Range(u) = Range(s) \cup S
<1>. DEFINE D == S \ Range(s)
<1>1. IsFiniteSet(D) /\ D \subseteq T
  BY FS_Subset
<1>. HIDE DEF D
<1>2. SetToSeq(D) \in Seq(D) /\ Range(SetToSeq(D)) = D
  BY <1>1, ListOfSet
<1>3. SetToSeq(D) \in Seq(T)
  BY <1>1, <1>2, SeqDef
<1>4. s \o SetToSeq(D) \in Seq(T) /\ Range(s \o SetToSeq(D)) = Range(s) \cup D
  BY <1>3, <1>2, ConcatProperties, JoinedRange
<1>. QED
  BY <1>4 DEF D

CodeTrue == code \in Listings /\ starts = BlockStarts

LEMMA CodeKnown ==
    ASSUME CodeTrue, NEW i \in Instructions
    PROVE  /\ code[i].op \in Branches \cup {"plain", "nop", "push"}
           /\ code[i].to \in 0..(Length + 1) /\ code[i].cases \in SUBSET Instructions
           /\ (code[i].cases # {} => code[i].op = "switch")
<1>1. /\ code \in [Instructions -> [op : Branches \cup {"plain", "nop", "push"},
                                   to : 0..(Length + 1), cases : SUBSET Instructions]]
      /\ code[i].cases # {} => code[i].op = "switch"
  BY BlocksAssumption DEF CodeTrue
<1>2. code[i] \in [op : Branches \cup {"plain", "nop", "push"}, to : 0..(Length + 1), cases : SUBSET Instructions]
  BY <1>1
<1>. QED
  BY <1>1, <1>2

\* Where control may go on is where blocks start.
LEMMA StartsKnown ==
    ASSUME CodeTrue
    PROVE  /\ starts \subseteq 1..(Length + 1)
           /\ \A i \in Instructions : Direct(i) \subseteq starts /\ (IsBranch(i) => i + 1 \in starts)
           /\ \A first, ret \in Instructions : code[ret].op = "ret" => Pushed(first, ret) \subseteq starts
<1>. DEFINE A == UNION {Direct(i) : i \in Instructions}
            B == {i + 1 : i \in {j \in Instructions : IsBranch(j)}}
<1>a. starts = {1} \cup A \cup PushTargets \cup B
  <2>1. starts = BlockStarts
    BY DEF CodeTrue
  <2>2. BlockStarts = {1} \cup A \cup PushTargets \cup B
    BY Zenon DEF BlockStarts
  <2>. QED
    BY <2>1, <2>2
<1>b. \A x : x \in A <=> \E i \in Instructions : x \in Direct(i)
  OBVIOUS
<1>c. \A x : x \in B <=> \E i \in Instructions : IsBranch(i) /\ x = i + 1
  OBVIOUS
<1>. HIDE DEF A, B
<1>0. \A x : x \in starts <=> \/ x = 1 \/ x \in PushTargets \/ \E i \in Instructions : x \in Direct(i)
                              \/ \E i \in Instructions : IsBranch(i) /\ x = i + 1
  BY <1>a, <1>b, <1>c
<1>2. Length \in Nat \ {0}
  BY BlocksAssumption
<1>3. ASSUME NEW i \in Instructions
      PROVE  Direct(i) \subseteq 1..(Length + 1)
  <2>1. code[i].to \in 0..(Length + 1)
    BY CodeKnown
  <2>. QED
    BY <1>2, <2>1 DEF Direct
<1>4. PushTargets \subseteq 1..(Length + 1)
  <2>1. ASSUME NEW x \in PushTargets
        PROVE  x \in 1..(Length + 1)
    <3>1. PICK i \in Instructions : x = code[i].to /\ code[i].to # 0
      BY <2>1 DEF PushTargets
    <3>2. code[i].to \in 0..(Length + 1)
      BY CodeKnown
    <3>. QED
      BY <1>2, <3>1, <3>2
  <2>. QED
    BY <2>1
<1>5. starts \subseteq 1..(Length + 1)
  <2>1. ASSUME NEW i \in Instructions
        PROVE  i + 1 \in 1..(Length + 1)
    BY <1>2 DEF Instructions
  <2>2. 1 \in 1..(Length + 1)
    BY <1>2
  <2>. QED
    BY <1>0, <1>3, <1>4, <2>1, <2>2
<1>6. \A i \in Instructions : Direct(i) \subseteq starts /\ (IsBranch(i) => i + 1 \in starts)
  BY <1>0
<1>7. ASSUME NEW first \in Instructions, NEW ret \in Instructions, code[ret].op = "ret",
             NEW x \in Pushed(first, ret)
      PROVE  x \in starts
  <2>1. PICK j \in first..(ret - 1) :
           /\ code[j].op = "push" /\ x = code[j].to
           /\ \A k \in (j + 1)..(ret - 1) : code[k].op = "nop"
    BY <1>7 DEF Pushed
  <2>2. x # 0
    BY <1>7 DEF Pushed
  <2>3. j \in Instructions /\ ret \in (j + 1)..Length
    BY <1>2, <2>1 DEF Instructions
  <2>4. x \in PushTargets
    BY <1>7, <2>1, <2>2, <2>3 DEF PushTargets
  <2>. QED
    BY <1>0, <2>4
<1>. QED
  BY <1>5, <1>6, <1>7

\* Where a block that ends at a line leads to.
Leads(first, last) ==
    IF ~IsBranch(last) THEN {}
    ELSE Direct(last) \cup code[last].cases
            \cup (IF code[last].op = "ret" THEN Pushed(first, last) ELSE {})
            \cup (IF code[last].op \in {"jmp", "switch", "ret"} \/ last = Length
                  THEN {} ELSE {last + 1})

LEMMA SuccessorsKnown ==
    ASSUME CodeTrue, NEW first \in Instructions, NEW last \in Instructions
    PROVE  /\ Successors(first, last) \in Seq(1..(Length + 1))
           /\ Range(Successors(first, last)) = Leads(first, last)
<1>. DEFINE T == 1..(Length + 1)
            new(s, S) == s \o SetToSeq(S \ Range(s))
            taken == new(SetToSeq(Direct(last)), code[last].cases)
            pushed == IF code[last].op = "ret" THEN new(taken, Pushed(first, last)) ELSE taken
            ends == {"jmp", "switch", "ret"}
<1>1. Length \in Nat \ {0}
  BY BlocksAssumption
<1>2. ASSUME NEW S \in SUBSET T
      PROVE  IsFiniteSet(S)
  <2>1. IsFiniteSet(T)
    BY <1>1, FS_Interval
  <2>. HIDE DEF T
  <2>. QED
    BY <2>1, FS_Subset
<1>3. Direct(last) \subseteq T /\ code[last].cases \subseteq T /\ (IsBranch(last) => last + 1 \in T)
      /\ (code[last].op = "ret" => Pushed(first, last) \subseteq T)
  BY <1>1, StartsKnown, CodeKnown DEF Instructions
<1>4. ASSUME NEW s \in Seq(T), NEW S \in SUBSET T
      PROVE  new(s, S) \in Seq(T) /\ Range(new(s, S)) = Range(s) \cup S
  <2>1. IsFiniteSet(S)
    BY <1>2
  <2>. HIDE DEF T
  <2>2. LET u == s \o SetToSeq(S \ Range(s))
        IN u \in Seq(T) /\ Range(u) = Range(s) \cup S
    BY <2>1, PutBehind
  <2>. QED
    BY <2>2
<1>5. SetToSeq(Direct(last)) \in Seq(T) /\ Range(SetToSeq(Direct(last))) = Direct(last)
  <2>1. SetToSeq(Direct(last)) \in Seq(Direct(last)) /\ Range(SetToSeq(Direct(last))) = Direct(last)
    BY <1>2, <1>3, ListOfSet
  <2>. QED
    BY <1>3, <2>1, SeqMonotonic
<1>6. Successors(first, last) =
        IF ~IsBranch(last) THEN <<>>
        ELSE IF code[last].op \in ends \/ last = Length THEN pushed ELSE new(pushed, {last + 1})
  BY DEF Successors
<1>. HIDE DEF new, T
<1>7. taken \in Seq(T) /\ Range(taken) = Direct(last) \cup code[last].cases
  BY <1>3, <1>4, <1>5
<1>. HIDE DEF taken
<1>8. /\ pushed \in Seq(T)
      /\ Range(pushed) = Direct(last) \cup code[last].cases
                            \cup (IF code[last].op = "ret" THEN Pushed(first, last) ELSE {})
  BY <1>3, <1>4, <1>7
<1>. HIDE DEF pushed
<1>9. code[last].op \in ends <=> code[last].op \in {"jmp", "switch", "ret"}
  OBVIOUS
<1>. HIDE DEF ends
<1>10. CASE ~IsBranch(last)
  <2>1. Successors(first, last) = <<>>
    BY <1>6, <1>10
  <2>2. <<>> \in Seq(T) /\ Range(<<>>) = {}
    BY EmptySeq DEF Range
  <2>. QED
    BY <1>10, <2>1, <2>2 DEF Leads, T
<1>11. CASE IsBranch(last) /\ (code[last].op \in ends \/ last = Length)
  <2>1. Successors(first, last) = pushed
    BY <1>6, <1>11
  <2>. QED
    BY <1>8, <1>9, <1>11, <2>1 DEF Leads, T
<1>12. CASE IsBranch(last) /\ ~(code[last].op \in ends \/ last = Length)
  <2>1. Successors(first, last) = new(pushed, {last + 1})
    BY <1>6, <1>12
  <2>2. /\ new(pushed, {last + 1}) \in Seq(T)
        /\ Range(new(pushed, {last + 1})) = Range(pushed) \cup {last + 1}
    BY <1>3, <1>4, <1>8, <1>12
  <2>. QED
    BY <1>8, <1>9, <1>12, <2>1, <2>2 DEF Leads, T
<1>. QED
  BY <1>10, <1>11, <1>12

\* All of it is the start of a block, but for what a switch adds.
LEMMA LeadsToStarts ==
    ASSUME CodeTrue, NEW first \in Instructions, NEW last \in Instructions, code[last].cases = {}
    PROVE  Leads(first, last) \subseteq starts
  BY StartsKnown DEF Leads

\* A call leads to its target first, then to the next line.
LEMMA CallSuccessors ==
    ASSUME CodeTrue, NEW first \in Instructions, NEW last \in Instructions, code[last].op = "call",
           code[last].to \notin {0, last + 1}
    PROVE  Successors(first, last) =
             IF last = Length THEN <<code[last].to>> ELSE <<code[last].to, last + 1>>
<1>. DEFINE new(s, S) == s \o SetToSeq(S \ Range(s))
            t == code[last].to
<1>1. ASSUME NEW x
      PROVE  SetToSeq({x}) = <<x>>
  <2>1. IsFiniteSet({x}) /\ Cardinality({x}) = 1
    BY FS_Singleton
  <2>2. SetToSeq({x}) \in Seq({x}) /\ Len(SetToSeq({x})) = 1
    BY <2>1, ListOfSet
  <2>. QED
    <3>1. <<x>> \in Seq({x}) /\ Len(<<x>>) = 1
      OBVIOUS
    <3>2. SetToSeq({x})[1] = x
      BY <2>2, ElementOfSeq
    <3>. QED
      BY <2>2, <3>1, <3>2, SeqEqual
<1>2. SetToSeq({}) = <<>>
  <2>1. IsFiniteSet({}) /\ Cardinality({}) = 0
    BY FS_EmptySet
  <2>2. SetToSeq({}) \in Seq({}) /\ Len(SetToSeq({})) = 0
    BY <2>1, ListOfSet
  <2>. QED
    BY <2>2, EmptySeq
<1>3. Direct(last) = {t} /\ code[last].cases = {} /\ IsBranch(last)
  BY CodeKnown DEF Direct, IsBranch, Branches
<1>4. new(SetToSeq(Direct(last)), code[last].cases) = <<t>>
  <2>1. {} \ Range(<<t>>) = {}
    OBVIOUS
  <2>2. <<t>> \o <<>> = <<t>>
    OBVIOUS
  <2>. QED
    BY <1>1, <1>2, <1>3, <2>1, <2>2
<1>5. Successors(first, last) = IF last = Length THEN <<t>> ELSE new(<<t>>, {last + 1})
  BY <1>3, <1>4 DEF Successors
<1>6. new(<<t>>, {last + 1}) = <<t, last + 1>>
  <2>1. Range(<<t>>) = {t}
    BY DEF Range
  <2>2. {last + 1} \ Range(<<t>>) = {last + 1}
    BY <2>1
  <2>3. <<t>> \o <<last + 1>> = <<t, last + 1>>
    <3>. DEFINE n == last + 1
    <3>. HIDE DEF n, t
    <3>1. /\ <<t>> \in Seq({t, n}) /\ <<n>> \in Seq({t, n}) /\ <<t, n>> \in Seq({t, n})
          /\ Len(<<t>>) = 1 /\ Len(<<n>>) = 1 /\ Len(<<t, n>>) = 2
      OBVIOUS
    <3>2. /\ <<t>> \o <<n>> \in Seq({t, n}) /\ Len(<<t>> \o <<n>>) = 2
          /\ \A i \in 1..2 : (<<t>> \o <<n>>)[i] = IF i <= 1 THEN <<t>>[i] ELSE <<n>>[i - 1]
      <4>1. \A s1, s2 \in Seq({t, n}) :
              /\ s1 \o s2 \in Seq({t, n}) /\ Len(s1 \o s2) = Len(s1) + Len(s2)
              /\ \A i \in 1..(Len(s1) + Len(s2)) :
                    (s1 \o s2)[i] = IF i <= Len(s1) THEN s1[i] ELSE s2[i - Len(s1)]
        BY ConcatProperties
      <4>. QED
        BY <3>1, <4>1
    <3>3. \A i \in 1..2 : (<<t>> \o <<n>>)[i] = <<t, n>>[i]
      BY <3>2
    <3>4. <<t>> \o <<n>> = <<t, n>>
      BY <3>1, <3>2, <3>3, SeqEqual
    <3>. QED
      BY <3>4 DEF n
  <2>. QED
    BY <1>1, <2>2, <2>3
<1>. QED
  BY <1>5, <1>6

\* A block that has been cut: a branch, the end or a start ends it, and neither a
\* branch nor a start is inside.
BlockTrue(b) ==
    LET last == blocks[b].last IN
    /\ b \in Instructions /\ last \in b..Length
    /\ blocks[b].succ = Successors(b, last)
    /\ IsBranch(last) \/ last = Length \/ last + 1 \in starts
    /\ \A i \in b..(last - 1) : ~IsBranch(i) /\ i + 1 \notin starts

\* What is cut so far.
CutSoFar ==
    /\ CodeTrue
    /\ cut \in 1..(Length + 1)
    /\ \A b \in DOMAIN blocks : BlockTrue(b) /\ blocks[b].last < cut
    /\ \A i \in 1..(cut - 1) : \E b \in DOMAIN blocks : i \in Inside(b)
    /\ \A b, c \in DOMAIN blocks : b < c => blocks[b].last < c

\* A set of blocks that no followed edge leaves.
ClosedBlocks(S) ==
    /\ S \subseteq DOMAIN blocks
    /\ \A e \in Edges : e[1] \in S /\ e[2] \in DOMAIN blocks => e[2] \in S

\* What the two searches have gone through.
SearchTrue ==
    /\ stage \in {"cut", "entry", "function", "answer"}
    /\ stage # "cut" => cut > Length
    /\ stage = "cut" => back = {}
    /\ back \subseteq DOMAIN blocks /\ shown \subseteq DOMAIN blocks
    /\ back # {} => \E b \in back : asked \in Inside(b)
    /\ \A S : ClosedBlocks(S) /\ back \cap S # {} => \E c \in S : asked \in Inside(c)
    /\ stage \in {"function", "answer"} =>
          /\ entry \in DOMAIN blocks => entry \in shown
          /\ back # {} => entry \in back
          /\ \A S : ClosedBlocks(S) /\ entry \in S => shown \subseteq S
    /\ stage = "answer" => ClosedBlocks(shown)

LEMMA LastExists ==
    ASSUME CodeTrue, NEW first \in Instructions
    PROVE  LET last == LastOf(first) IN
           /\ last \in first..Length
           /\ IsBranch(last) \/ last = Length \/ last + 1 \in starts
           /\ \A i \in first..(last - 1) : ~IsBranch(i) /\ i + 1 \notin starts
<1>. DEFINE T == {i \in first..Length : IsBranch(i) \/ i = Length \/ i + 1 \in starts}
<1>1. Length \in Nat \ {0} /\ first \in Nat /\ first <= Length /\ Length \in T
  BY BlocksAssumption DEF Instructions
<1>2. PICK last \in T : \A m \in T : last <= m
  <2>1. T \in SUBSET Nat /\ T # {}
    BY <1>1
  <2>. HIDE DEF T
  <2>. QED
    BY <2>1, LeastNumber
<1>3. \A i \in first..(last - 1) : ~IsBranch(i) /\ i + 1 \notin starts
  <2>1. ASSUME NEW i \in first..(last - 1)
        PROVE  i \notin T /\ i \in first..Length
    BY <1>1, <1>2
  <2>. QED
    BY <2>1
<1>. QED
  BY <1>2, <1>3 DEF LastOf

\* A start that has been cut is the first line of a block.
LEMMA StartsAreBlocks ==
    ASSUME CutSoFar, NEW x \in starts, x \in 1..(cut - 1)
    PROVE  x \in DOMAIN blocks
<1>1. PICK b \in DOMAIN blocks : x \in Inside(b)
  BY DEF CutSoFar
<1>2. BlockTrue(b)
  BY DEF CutSoFar
<1>3. Length \in Nat /\ cut \in Int
  BY BlocksAssumption DEF CutSoFar
<1>4. CASE x # b
  <2>1. x - 1 \in b..(blocks[b].last - 1) /\ (x - 1) + 1 = x
    BY <1>1, <1>2, <1>3, <1>4 DEF BlockTrue, Inside, Instructions
  <2>. QED
    BY <1>2, <2>1 DEF BlockTrue
<1>. QED
  BY <1>1, <1>4

\* A block leads to what its last line does.
LEMMA BlockLeads ==
    ASSUME CutSoFar, NEW b \in DOMAIN blocks
    PROVE  /\ b \in Instructions /\ blocks[b].last \in Instructions /\ blocks[b].last \in b..Length
           /\ blocks[b].succ \in Seq(1..(Length + 1))
           /\ Range(blocks[b].succ) = Leads(b, blocks[b].last)
<1>1. BlockTrue(b) /\ CodeTrue
  BY DEF CutSoFar
<1>2. b \in Instructions /\ blocks[b].last \in b..Length /\ blocks[b].last \in Instructions
  BY <1>1, BlocksAssumption DEF BlockTrue, Instructions
<1>3. blocks[b].succ = Successors(b, blocks[b].last)
  BY <1>1 DEF BlockTrue
<1>. QED
  BY <1>1, <1>2, <1>3, SuccessorsKnown

LEMMA PartitionFollows ==
    ASSUME CutSoFar
    PROVE  BlocksPartition
<1>1. cut \in 1..(Length + 1) /\ Length \in Nat
  BY BlocksAssumption DEF CutSoFar
<1>2. ASSUME NEW i \in 1..(cut - 1)
      PROVE  Cardinality({b \in DOMAIN blocks : i \in Inside(b)}) = 1
  <2>1. PICK b \in DOMAIN blocks : i \in Inside(b)
    BY <1>2 DEF CutSoFar
  <2>2. ASSUME NEW c \in DOMAIN blocks, i \in Inside(c)
        PROVE  c = b
    <3>1. b \in Instructions /\ c \in Instructions /\ blocks[b].last \in b..Length
             /\ blocks[c].last \in c..Length
      BY BlockLeads
    <3>2. (b < c => blocks[b].last < c) /\ (c < b => blocks[c].last < b)
      BY DEF CutSoFar
    <3>. QED
      BY <1>1, <2>1, <2>2, <3>1, <3>2 DEF Inside, Instructions
  <2>3. {d \in DOMAIN blocks : i \in Inside(d)} = {b}
    BY <2>1, <2>2
  <2>. QED
    BY <2>3, FS_Singleton
<1>3. ASSUME NEW b \in DOMAIN blocks, NEW c \in DOMAIN blocks, code[blocks[b].last].cases = {},
             NEW s \in Range(blocks[b].succ), s \in (c + 1)..blocks[c].last
      PROVE  FALSE
  <2>1. b \in Instructions /\ blocks[b].last \in Instructions
           /\ Range(blocks[b].succ) = Leads(b, blocks[b].last) /\ CodeTrue
    BY BlockLeads DEF CutSoFar
  <2>2. s \in starts
    BY <1>3, <2>1, LeadsToStarts
  <2>3. BlockTrue(c)
    BY DEF CutSoFar
  <2>4. s - 1 \in c..(blocks[c].last - 1) /\ (s - 1) + 1 = s
    BY <1>1, <1>3, <2>3 DEF BlockTrue, Instructions
  <2>. QED
    BY <2>2, <2>3, <2>4 DEF BlockTrue
<1>. QED
  BY <1>2, <1>3 DEF BlocksPartition

LEMMA AddressFollows ==
    ASSUME CutSoFar, SearchTrue
    PROVE  AddressShown
  BY DEF SearchTrue, AddressShown

BlocksInv == CutSoFar /\ SearchTrue

LEMMA BlocksBegin ==
    ASSUME BlocksInit
    PROVE  BlocksInv
<1>1. CodeTrue /\ cut = 1 /\ DOMAIN blocks = {} /\ stage = "cut" /\ back = {} /\ shown = {}
  BY DEF BlocksInit, CodeTrue
<1>2. CutSoFar
  BY <1>1, BlocksAssumption DEF CutSoFar
<1>3. SearchTrue
  BY <1>1 DEF SearchTrue
<1>. QED
  BY <1>2, <1>3 DEF BlocksInv

LEMMA CutKeeps ==
    ASSUME BlocksInv, Cut
    PROVE  BlocksInv'
<1>0. PICK last : last = LastOf(cut)
  OBVIOUS
<1>. DEFINE q == [last |-> last, succ |-> Successors(cut, last)]
<1>1. /\ CodeTrue /\ cut \in Instructions /\ Length \in Nat
      /\ code' = code /\ starts' = starts /\ stage = "cut" /\ stage' = stage /\ back' = back
      /\ asked' = asked /\ shown' = shown /\ entry' = entry
  BY BlocksAssumption DEF BlocksInv, CutSoFar, Cut, Instructions
<1>2. /\ last \in cut..Length
      /\ IsBranch(last) \/ last = Length \/ last + 1 \in starts
      /\ \A i \in cut..(last - 1) : ~IsBranch(i) /\ i + 1 \notin starts
  BY <1>0, <1>1, LastExists
<1>3. /\ blocks' = [b \in DOMAIN blocks \cup {cut} |-> IF b = cut THEN q ELSE blocks[b]]
      /\ cut' = last + 1
  BY <1>0 DEF Cut
<1>4. CodeTrue'
  BY <1>1 DEF CodeTrue, BlockStarts, Direct, PushTargets, IsBranch
<1>5. ASSUME NEW f, NEW l
      PROVE  Successors(f, l)' = Successors(f, l)
  BY <1>1 DEF Successors, Direct, Pushed, IsBranch
<1>6. q.last = last /\ q.succ = Successors(cut, last)
  OBVIOUS
<1>. HIDE DEF q
<1>7. /\ DOMAIN blocks' = DOMAIN blocks \cup {cut} /\ blocks'[cut] = q
      /\ \A b \in DOMAIN blocks : b # cut => blocks'[b] = blocks[b]
  BY <1>3
<1>8. \A b \in DOMAIN blocks : b < cut /\ b # cut /\ b \in Instructions
                                 /\ blocks[b].last \in b..Length /\ blocks[b].last < cut /\ blocks[b].last < last + 1
  <2>1. ASSUME NEW b \in DOMAIN blocks
        PROVE  b < cut /\ b # cut /\ b \in Instructions /\ blocks[b].last \in b..Length
                 /\ blocks[b].last < cut /\ blocks[b].last < last + 1
    <3>1. BlockTrue(b) /\ blocks[b].last < cut
      BY DEF BlocksInv, CutSoFar
    <3>. QED
      BY <1>1, <1>2, <3>1 DEF BlockTrue, Instructions
  <2>. QED
    BY <2>1
<1>9. cut' \in 1..(Length + 1)
  BY <1>1, <1>2, <1>3 DEF Instructions
<1>10. ASSUME NEW b \in DOMAIN blocks'
       PROVE  BlockTrue(b)' /\ blocks'[b].last < cut'
  <2>1. CASE b = cut
    <3>1. blocks'[b].last = last /\ blocks'[b].succ = Successors(cut, last)
      BY <1>6, <1>7, <2>1
    <3>2. blocks'[b].succ = Successors(b, last)'
      BY <1>5, <2>1, <3>1
    <3>3. /\ IsBranch(last)' \/ last = Length \/ last + 1 \in starts'
          /\ \A i \in b..(last - 1) : ~IsBranch(i)' /\ i + 1 \notin starts'
      BY <1>1, <1>2, <2>1 DEF IsBranch
    <3>4. BlockTrue(b)'
      BY <1>1, <1>2, <2>1, <3>1, <3>2, <3>3 DEF BlockTrue
    <3>. QED
      BY <1>1, <1>2, <1>3, <3>1, <3>4
  <2>2. CASE b # cut
    <3>1. b \in DOMAIN blocks /\ blocks'[b] = blocks[b]
      BY <1>7, <2>2
    <3>2. BlockTrue(b)
      BY <3>1 DEF BlocksInv, CutSoFar
    <3>3. BlockTrue(b)'
      BY <1>1, <1>5, <3>1, <3>2 DEF BlockTrue, IsBranch
    <3>. QED
      BY <1>3, <1>8, <3>1, <3>3
  <2>. QED
    BY <2>1, <2>2
<1>11. ASSUME NEW i \in 1..(cut' - 1)
       PROVE  \E b \in DOMAIN blocks' : i \in b..blocks'[b].last
  <2>1. CASE i < cut
    <3>1. i \in 1..(cut - 1)
      BY <1>1, <2>1, <1>9 DEF Instructions
    <3>2. PICK b \in DOMAIN blocks : i \in b..blocks[b].last
      BY <3>1 DEF BlocksInv, CutSoFar, Inside
    <3>. QED
      BY <1>7, <1>8, <3>2
  <2>2. CASE ~(i < cut)
    <3>1. i \in cut..last
      BY <1>1, <1>2, <1>3, <2>2 DEF Instructions
    <3>. QED
      BY <1>6, <1>7, <3>1
  <2>. QED
    BY <2>1, <2>2
<1>12. ASSUME NEW b \in DOMAIN blocks', NEW c \in DOMAIN blocks', b < c
       PROVE  blocks'[b].last < c
  <2>1. CASE b = cut
    <3>1. c = cut \/ c < cut
      BY <1>7, <1>8
    <3>. QED
      BY <1>1, <1>8, <1>7, <1>12, <2>1, <3>1 DEF Instructions
  <2>2. CASE b # cut
    <3>1. b \in DOMAIN blocks /\ blocks'[b] = blocks[b]
      BY <1>7, <2>2
    <3>2. CASE c = cut
      BY <1>8, <3>1, <3>2
    <3>3. CASE c # cut
      <4>1. c \in DOMAIN blocks
        BY <1>7, <3>3
      <4>. QED
        BY <1>12, <3>1, <4>1 DEF BlocksInv, CutSoFar
    <3>. QED
      BY <3>2, <3>3
  <2>. QED
    BY <2>1, <2>2
<1>13. CutSoFar'
  BY <1>4, <1>9, <1>10, <1>11, <1>12 DEF CutSoFar, Inside
<1>14. back' = {} /\ shown' \subseteq DOMAIN blocks'
  BY <1>1, <1>7 DEF BlocksInv, SearchTrue
<1>15. SearchTrue'
  BY <1>1, <1>14 DEF SearchTrue
<1>. QED
  BY <1>13, <1>15 DEF BlocksInv

\* The steps that leave the blocks alone.
LEMMA BlocksStay ==
    ASSUME BlocksInv, UNCHANGED <<code, starts, cut, blocks>>
    PROVE  /\ CutSoFar' /\ (\A b : Inside(b)' = Inside(b)) /\ Edges' = Edges
           /\ \A S : ClosedBlocks(S)' <=> ClosedBlocks(S)
<1>1. /\ CodeTrue' /\ (\A b : Inside(b)' = Inside(b)) /\ Edges' = Edges
  BY DEF BlocksInv, CutSoFar, CodeTrue, BlockStarts, Direct, PushTargets, IsBranch, Inside, Edges, EdgeKind
<1>2. \A f, l : Successors(f, l)' = Successors(f, l)
  BY DEF Successors, Direct, Pushed, IsBranch
<1>3. \A b : BlockTrue(b)' <=> BlockTrue(b)
  BY <1>2 DEF BlockTrue, IsBranch
<1>4. CutSoFar'
  BY <1>1, <1>3 DEF BlocksInv, CutSoFar
<1>5. \A S : ClosedBlocks(S)' <=> ClosedBlocks(S)
  BY <1>1 DEF ClosedBlocks
<1>. QED
  BY <1>1, <1>4, <1>5

LEMMA AskFunctionKeeps ==
    ASSUME BlocksInv, NEW a \in Instructions, AskFunction(a)
    PROVE  BlocksInv'
<1>1. CutSoFar' /\ (\A b : Inside(b)' = Inside(b)) /\ \A S : ClosedBlocks(S)' <=> ClosedBlocks(S)
  <2>1. UNCHANGED <<code, starts, cut, blocks>>
    BY DEF AskFunction
  <2>. QED
    BY <2>1, BlocksStay
<1>2. /\ stage = "cut" /\ cut > Length /\ asked' = a /\ entry' = a /\ shown' = {a} \cap DOMAIN blocks
      /\ stage' = "function" /\ blocks' = blocks /\ cut' = cut /\ back' = back /\ back = {}
  BY DEF AskFunction, BlocksInv, SearchTrue
<1>3. SearchTrue'
  BY <1>1, <1>2 DEF SearchTrue
<1>. QED
  BY <1>1, <1>3 DEF BlocksInv

LEMMA AskAddressKeeps ==
    ASSUME BlocksInv, NEW a \in Instructions, AskAddress(a)
    PROVE  BlocksInv'
<1>1. CutSoFar' /\ (\A b : Inside(b)' = Inside(b)) /\ \A S : ClosedBlocks(S)' <=> ClosedBlocks(S)
  <2>1. UNCHANGED <<code, starts, cut, blocks>>
    BY DEF AskAddress
  <2>. QED
    BY <2>1, BlocksStay
<1>2. /\ stage = "cut" /\ cut > Length /\ asked' = a /\ back' = {b \in DOMAIN blocks : a \in Inside(b)}
      /\ stage' = "entry" /\ blocks' = blocks /\ cut' = cut /\ shown' = shown
      /\ shown \subseteq DOMAIN blocks
  BY DEF AskAddress, BlocksInv, SearchTrue
<1>3. \A b \in back' : asked' \in Inside(b)'
  BY <1>1, <1>2
<1>4. SearchTrue'
  BY <1>1, <1>2, <1>3 DEF SearchTrue
<1>. QED
  BY <1>1, <1>4 DEF BlocksInv

LEMMA AscendKeeps ==
    ASSUME BlocksInv, Ascend
    PROVE  BlocksInv'
<1>1. CutSoFar' /\ (\A b : Inside(b)' = Inside(b)) /\ \A S : ClosedBlocks(S)' <=> ClosedBlocks(S)
  <2>1. UNCHANGED <<code, starts, cut, blocks>>
    BY DEF Ascend
  <2>. QED
    BY <2>1, BlocksStay
<1>2. /\ stage = "entry" /\ stage' = stage /\ asked' = asked /\ shown' = shown /\ cut' = cut /\ blocks' = blocks
      /\ back' = back \cup {e[1] : e \in {f \in Edges : f[2] \in back}}
      /\ back \subseteq DOMAIN blocks /\ shown \subseteq DOMAIN blocks /\ cut > Length
      /\ back # {} => \E b \in back : asked \in Inside(b)
      /\ \A S : ClosedBlocks(S) /\ back \cap S # {} => \E c \in S : asked \in Inside(c)
  BY DEF Ascend, EdgesBack, BlocksInv, SearchTrue
<1>3. \A b \in back' : b \in back \/ \E e \in Edges : b = e[1] /\ e[2] \in back
  BY <1>2
<1>4. back' \subseteq DOMAIN blocks /\ (back' # {} => back # {})
  BY <1>2, <1>3 DEF Edges
<1>5. ASSUME NEW S, ClosedBlocks(S), back' \cap S # {}
      PROVE  back \cap S # {}
  <2>1. PICK b \in S : b \in back'
    BY <1>5
  <2>2. CASE b \in back
    BY <2>1, <2>2
  <2>3. CASE b \notin back
    <3>1. PICK e \in Edges : b = e[1] /\ e[2] \in back
      BY <1>3, <2>1, <2>3
    <3>2. e[2] \in S
      BY <1>2, <1>5, <2>1, <3>1 DEF ClosedBlocks
    <3>. QED
      BY <3>1, <3>2
  <2>. QED
    BY <2>2, <2>3
<1>6. back' # {} => \E b \in back' : asked \in Inside(b)
  BY <1>2, <1>4
<1>7. \A S : ClosedBlocks(S) /\ back' \cap S # {} => \E c \in S : asked \in Inside(c)
  BY <1>2, <1>5
<1>8. SearchTrue'
  BY <1>1, <1>2, <1>4, <1>6, <1>7 DEF SearchTrue
<1>. QED
  BY <1>1, <1>8 DEF BlocksInv

LEMMA FindEntryKeeps ==
    ASSUME BlocksInv, FindEntry
    PROVE  BlocksInv'
<1>. DEFINE roots == {b \in back : \A e \in EdgesBack : e[2] # b}
<1>1. CutSoFar' /\ (\A b : Inside(b)' = Inside(b)) /\ \A S : ClosedBlocks(S)' <=> ClosedBlocks(S)
  <2>1. UNCHANGED <<code, starts, cut, blocks>>
    BY DEF FindEntry
  <2>. QED
    BY <2>1, BlocksStay
<1>2. /\ stage = "entry" /\ stage' = "function" /\ asked' = asked /\ back' = back /\ cut' = cut /\ blocks' = blocks
      /\ shown' = {entry'} \cap DOMAIN blocks
      /\ entry' = IF roots # {} THEN CHOOSE b \in roots : \A r \in roots : b <= r
                  ELSE CHOOSE b \in back : asked \in Inside(b)
      /\ back \subseteq DOMAIN blocks /\ cut > Length
      /\ back # {} => \E b \in back : asked \in Inside(b)
      /\ \A S : ClosedBlocks(S) /\ back \cap S # {} => \E c \in S : asked \in Inside(c)
  BY DEF FindEntry, BlocksInv, SearchTrue
<1>3. roots \subseteq back
  OBVIOUS
<1>4. \A b \in DOMAIN blocks : b \in Nat
  <2>1. ASSUME NEW b \in DOMAIN blocks
        PROVE  b \in Nat
    BY BlockLeads DEF BlocksInv, Instructions
  <2>. QED
    BY <2>1
<1>. HIDE DEF roots
<1>5. back # {} => entry' \in back
  <2>1. CASE roots # {}
    <3>1. roots \in SUBSET Nat
      BY <1>2, <1>3, <1>4
    <3>2. \E b \in roots : \A r \in roots : b <= r
      BY <2>1, <3>1, LeastNumber
    <3>. QED
      BY <1>2, <1>3, <2>1, <3>2
  <2>2. CASE roots = {}
    BY <1>2, <2>2
  <2>. QED
    BY <2>1, <2>2
<1>6. SearchTrue'
  <2>1. entry' \in DOMAIN blocks => entry' \in shown'
    BY <1>2
  <2>2. \A S : entry' \in S => shown' \subseteq S
    BY <1>2
  <2>3. shown' \subseteq DOMAIN blocks
    BY <1>2
  <2>. QED
    BY <1>1, <1>2, <1>5, <2>1, <2>2, <2>3 DEF SearchTrue
<1>. QED
  BY <1>1, <1>6 DEF BlocksInv

LEMMA DescendKeeps ==
    ASSUME BlocksInv, Descend
    PROVE  BlocksInv'
<1>1. CutSoFar' /\ (\A b : Inside(b)' = Inside(b)) /\ \A S : ClosedBlocks(S)' <=> ClosedBlocks(S)
  <2>1. UNCHANGED <<code, starts, cut, blocks>>
    BY DEF Descend
  <2>. QED
    BY <2>1, BlocksStay
<1>2. /\ stage = "function" /\ stage' = stage /\ asked' = asked /\ entry' = entry /\ back' = back
      /\ cut' = cut /\ blocks' = blocks
      /\ shown' = shown \cup ({e[2] : e \in {f \in Edges : f[1] \in shown}} \cap DOMAIN blocks)
  BY DEF Descend
<1>3. /\ back \subseteq DOMAIN blocks /\ shown \subseteq DOMAIN blocks /\ cut > Length
      /\ back # {} => \E b \in back : asked \in Inside(b)
      /\ \A S : ClosedBlocks(S) /\ back \cap S # {} => \E c \in S : asked \in Inside(c)
      /\ entry \in DOMAIN blocks => entry \in shown
      /\ back # {} => entry \in back
      /\ \A S : ClosedBlocks(S) /\ entry \in S => shown \subseteq S
  BY <1>2 DEF BlocksInv, SearchTrue
<1>4. \A c \in shown' : c \in shown \/ (c \in DOMAIN blocks /\ \E e \in Edges : c = e[2] /\ e[1] \in shown)
  BY <1>2
<1>5. shown \subseteq shown' /\ shown' \subseteq DOMAIN blocks
  BY <1>2, <1>3
<1>6. ASSUME NEW S, ClosedBlocks(S), entry \in S
      PROVE  shown' \subseteq S
  <2>1. shown \subseteq S
    BY <1>3, <1>6
  <2>. QED
    BY <1>4, <1>6, <2>1 DEF ClosedBlocks
<1>7. SearchTrue'
  BY <1>1, <1>2, <1>3, <1>5, <1>6 DEF SearchTrue
<1>. QED
  BY <1>1, <1>7 DEF BlocksInv

LEMMA ShowKeeps ==
    ASSUME BlocksInv, Show
    PROVE  BlocksInv'
<1>1. CutSoFar' /\ (\A b : Inside(b)' = Inside(b)) /\ \A S : ClosedBlocks(S)' <=> ClosedBlocks(S)
  <2>1. UNCHANGED <<code, starts, cut, blocks>>
    BY DEF Show
  <2>. QED
    BY <2>1, BlocksStay
<1>2. /\ stage = "function" /\ stage' = "answer" /\ asked' = asked /\ entry' = entry /\ back' = back
      /\ cut' = cut /\ blocks' = blocks /\ shown' = shown
      /\ \A e \in Edges : e[1] \in shown /\ e[2] \in DOMAIN blocks => e[2] \in shown
  BY DEF Show
<1>3. /\ back \subseteq DOMAIN blocks /\ shown \subseteq DOMAIN blocks /\ cut > Length
      /\ back # {} => \E b \in back : asked \in Inside(b)
      /\ \A S : ClosedBlocks(S) /\ back \cap S # {} => \E c \in S : asked \in Inside(c)
      /\ entry \in DOMAIN blocks => entry \in shown
      /\ back # {} => entry \in back
      /\ \A S : ClosedBlocks(S) /\ entry \in S => shown \subseteq S
  BY <1>2 DEF BlocksInv, SearchTrue
<1>4. ClosedBlocks(shown)
  BY <1>2, <1>3 DEF ClosedBlocks
<1>5. SearchTrue'
  BY <1>1, <1>2, <1>3, <1>4 DEF SearchTrue
<1>. QED
  BY <1>1, <1>5 DEF BlocksInv

LEMMA BlocksStep ==
    ASSUME BlocksInv, [BlocksNext]_blocksVars
    PROVE  BlocksInv'
<1>1. CASE UNCHANGED blocksVars
  <2>1. CutSoFar' /\ (\A b : Inside(b)' = Inside(b)) /\ \A S : ClosedBlocks(S)' <=> ClosedBlocks(S)
    BY <1>1, BlocksStay DEF blocksVars
  <2>2. SearchTrue'
    BY <1>1, <2>1 DEF BlocksInv, SearchTrue, blocksVars
  <2>. QED
    BY <2>1, <2>2 DEF BlocksInv
<1>. QED
  BY <1>1, CutKeeps, AskFunctionKeeps, AskAddressKeeps, AscendKeeps, FindEntryKeeps, DescendKeeps, ShowKeeps
     DEF BlocksNext

-----------------------------------------------------------------------------
(* The lines of a function, and what control does *)

\* Of a complete listing, control leaves a block where the followed edges lead.
LEMMA FlowOfBlock ==
    ASSUME CutSoFar, cut > Length, Complete, NEW b \in DOMAIN blocks
    PROVE  /\ \A i \in b..(blocks[b].last - 1) : FlowKept(i) = {i + 1}
           /\ FlowKept(blocks[b].last) \cap Instructions \subseteq DOMAIN blocks
           /\ \A x \in DOMAIN blocks : <<b, x>> \in Edges <=> x \in FlowKept(blocks[b].last)
<1>. DEFINE last == blocks[b].last
<1>1. /\ b \in Instructions /\ last \in Instructions /\ last \in b..Length
      /\ blocks[b].succ \in Seq(1..(Length + 1)) /\ Range(blocks[b].succ) = Leads(b, last)
      /\ Length \in Nat \ {0} /\ CodeTrue /\ cut \in 1..(Length + 1)
  BY BlockLeads, BlocksAssumption DEF CutSoFar
<1>2. /\ blocks[b].succ = Successors(b, last)
      /\ IsBranch(last) \/ last = Length \/ last + 1 \in starts
      /\ \A i \in b..(last - 1) : ~IsBranch(i) /\ i + 1 \notin starts
  BY DEF CutSoFar, BlockTrue
<1>3. ASSUME NEW i \in b..(last - 1)
      PROVE  FlowKept(i) = {i + 1}
  <2>1. i \in Instructions /\ i < Length /\ ~IsBranch(i)
    BY <1>1, <1>2 DEF Instructions
  <2>. QED
    BY <1>2, <2>1 DEF FlowKept, Severed, Flow, IsBranch, Branches
<1>4. \A x \in starts \cap Instructions : x \in DOMAIN blocks
  BY <1>1, StartsAreBlocks DEF Instructions
<1>5. IsBranch(last) \/ FlowKept(last) = {}
  <2>1. CASE ~IsBranch(last) /\ last = Length
    BY <1>1, <2>1 DEF FlowKept, Flow, IsBranch, Branches
  <2>2. CASE ~IsBranch(last) /\ last # Length
    BY <1>2, <2>2 DEF FlowKept, Severed
  <2>. QED
    BY <2>1, <2>2
<1>6. /\ code[last].op = "call" => code[last].to \notin {0, last + 1}
      /\ code[last].op = "switch" => code[last].cases # {} /\ code[last].cases \subseteq starts
      /\ code[last].op \in Branches \cup {"plain", "nop", "push"}
      /\ code[last].cases \in SUBSET Instructions
      /\ code[last].cases # {} => code[last].op = "switch"
  BY <1>1, CodeKnown DEF Complete
<1>7. Pushed(b, last) = {}
  <2>1. ASSUME NEW j \in b..(last - 1)
        PROVE  code[j].op # "push"
    <3>1. j \in Instructions
      BY <1>1 DEF Instructions
    <3>. QED
      BY <3>1 DEF Complete
  <2>. QED
    BY <2>1 DEF Pushed
<1>8. Direct(last) \subseteq starts /\ (IsBranch(last) => last + 1 \in starts)
  BY <1>1, StartsKnown
<1>9. /\ DOMAIN blocks[b].succ = 1..Len(blocks[b].succ) /\ Len(blocks[b].succ) \in Nat
      /\ \A x : x \in Leads(b, last) <=> \E n \in DOMAIN blocks[b].succ : blocks[b].succ[n] = x
  <2>1. \A x : x \in Range(blocks[b].succ) <=> \E n \in DOMAIN blocks[b].succ : blocks[b].succ[n] = x
    BY DEF Range
  <2>. QED
    BY <1>1, <2>1, LenProperties
<1>10. \A x \in DOMAIN blocks : x \in Instructions /\ x \in 1..(Length + 1)
  BY <1>1, BlockLeads DEF Instructions
<1>11. ASSUME NEW x \in DOMAIN blocks
       PROVE  <<b, x>> \in Edges <=>
                 \E n \in DOMAIN blocks[b].succ : blocks[b].succ[n] = x /\ EdgeKind(b, n) # "call"
  BY <1>10 DEF Edges
<1>. HIDE DEF last
<1>12. CASE code[last].op # "call"
  <2>1. \A n : EdgeKind(b, n) # "call"
    BY <1>12 DEF EdgeKind, last
  <2>2. \A x \in DOMAIN blocks : <<b, x>> \in Edges <=> x \in Leads(b, last)
    BY <1>9, <1>11, <2>1
  <2>3. FlowKept(last) = Leads(b, last)
    <3>1. CASE code[last].op = "jmp"
      BY <1>6, <3>1 DEF FlowKept, Severed, Flow, Leads, IsBranch, Branches
    <3>2. CASE code[last].op = "jcc"
      BY <1>1, <1>6, <3>2 DEF FlowKept, Severed, Flow, Leads, IsBranch, Branches, Instructions
    <3>3. CASE code[last].op = "ret"
      BY <1>6, <1>7, <3>3 DEF FlowKept, Severed, Flow, Leads, IsBranch, Branches, Direct
    <3>4. CASE code[last].op = "switch"
      BY <1>6, <3>4 DEF FlowKept, Severed, Flow, Leads, IsBranch, Branches, Direct
    <3>5. CASE ~IsBranch(last)
      BY <1>5, <3>5 DEF Leads
    <3>. QED
      BY <1>12, <3>1, <3>2, <3>3, <3>4, <3>5 DEF IsBranch, Branches
  <2>4. Leads(b, last) \subseteq starts
    BY <1>6, <1>7, <1>8 DEF Leads
  <2>. QED
    BY <1>3, <1>4, <2>2, <2>3, <2>4 DEF last
<1>13. CASE code[last].op = "call"
  <2>1. IsBranch(last) /\ code[last].cases = {}
    BY <1>6, <1>13 DEF IsBranch, Branches
  <2>2. blocks[b].succ = IF last = Length THEN <<code[last].to>> ELSE <<code[last].to, last + 1>>
    BY <1>1, <1>2, <1>6, <1>13, CallSuccessors
  <2>3. FlowKept(last) = IF last < Length THEN {last + 1} ELSE {}
    BY <1>13 DEF FlowKept, Severed, IsBranch, Branches, Flow
  <2>4. EdgeKind(b, 1) = "call" /\ EdgeKind(b, 2) # "call"
    BY <1>13, <2>1 DEF EdgeKind, last
  <2>5. CASE last = Length
    <3>1. blocks[b].succ = <<code[last].to>> /\ FlowKept(last) = {}
      BY <1>1, <2>2, <2>3, <2>5
    <3>2. DOMAIN blocks[b].succ = {1}
      BY <3>1
    <3>. QED
      BY <1>3, <1>11, <2>4, <3>1, <3>2 DEF last
  <2>6. CASE last # Length
    <3>1. blocks[b].succ = <<code[last].to, last + 1>> /\ FlowKept(last) = {last + 1}
      BY <1>1, <2>2, <2>3, <2>6 DEF Instructions
    <3>2. DOMAIN blocks[b].succ = {1, 2} /\ blocks[b].succ[1] = code[last].to /\ blocks[b].succ[2] = last + 1
      <4>. DEFINE t == code[last].to
                  m == last + 1
      <4>1. blocks[b].succ = <<t, m>>
        BY <3>1
      <4>. HIDE DEF t, m
      <4>2. DOMAIN <<t, m>> = {1, 2} /\ <<t, m>>[1] = t /\ <<t, m>>[2] = m
        OBVIOUS
      <4>. QED
        BY <4>1, <4>2 DEF t, m
    <3>3. \A x \in DOMAIN blocks : <<b, x>> \in Edges <=> x = last + 1
      BY <1>11, <2>4, <3>2
    <3>4. last + 1 \in starts
      BY <1>8, <2>1
    <3>. QED
      BY <1>3, <1>4, <3>1, <3>3, <3>4 DEF last
  <2>. QED
    BY <2>5, <2>6
<1>. QED
  BY <1>12, <1>13

\* A set of lines that control does not leave has all of a block, or not its first line.
LEMMA BlockInClosed ==
    ASSUME CutSoFar, cut > Length, Complete, NEW b \in DOMAIN blocks,
           NEW S \in SUBSET Instructions, b \in S, \A i \in S : FlowKept(i) \cap Instructions \subseteq S
    PROVE  Inside(b) \subseteq S
<1>. DEFINE last == blocks[b].last
            T == {i \in b..last : i \notin S}
<1>1. b \in Instructions /\ last \in b..Length /\ Length \in Nat
  BY BlockLeads, BlocksAssumption
<1>2. \A i \in b..(last - 1) : FlowKept(i) = {i + 1}
  BY FlowOfBlock
<1>. HIDE DEF last
<1>3. SUFFICES ASSUME T # {}
               PROVE  FALSE
  BY DEF Inside, last
<1>4. T \in SUBSET Nat
  BY <1>1 DEF Instructions
<1>5. PICK n \in T : \A m \in T : n <= m
  <2>. HIDE DEF T
  <2>. QED
    BY <1>3, <1>4, LeastNumber
<1>6. n - 1 \in b..(last - 1) /\ n \in Instructions /\ n - 1 \notin T /\ (n - 1) + 1 = n
  BY <1>1, <1>5 DEF Instructions
<1>7. n - 1 \in S
  BY <1>1, <1>6
<1>8. n \in FlowKept(n - 1)
  BY <1>2, <1>6
<1>. QED
  BY <1>5, <1>6, <1>7, <1>8

LEMMA FlowFollows ==
    ASSUME BlocksInv
    PROVE  FunctionIsFlow
<1>1. SUFFICES ASSUME stage = "answer", Complete, entry \in DOMAIN blocks
               PROVE  LET lines == UNION {Inside(b) : b \in shown}
                          closed(S) == entry \in S /\ \A i \in S : FlowKept(i) \cap Instructions \subseteq S
                      IN closed(lines) /\ \A S \in SUBSET Instructions : closed(S) => lines \subseteq S
  BY DEF FunctionIsFlow
<1>. DEFINE lines == UNION {Inside(b) : b \in shown}
<1>2. /\ CutSoFar /\ cut > Length /\ shown \subseteq DOMAIN blocks /\ entry \in shown
      /\ ClosedBlocks(shown) /\ \A S : ClosedBlocks(S) /\ entry \in S => shown \subseteq S
  BY <1>1 DEF BlocksInv, SearchTrue
<1>3. \A b \in DOMAIN blocks : b \in Instructions /\ blocks[b].last \in b..Length /\ b \in Inside(b)
  <2>1. ASSUME NEW b \in DOMAIN blocks
        PROVE  b \in Instructions /\ blocks[b].last \in b..Length /\ b \in Inside(b)
    BY <1>2, BlockLeads, BlocksAssumption DEF Inside, Instructions
  <2>. QED
    BY <2>1
<1>4. entry \in lines
  BY <1>2, <1>3
<1>5. ASSUME NEW i \in lines, NEW x \in FlowKept(i) \cap Instructions
      PROVE  x \in lines
  <2>1. PICK b \in shown : i \in Inside(b)
    BY <1>5
  <2>2. /\ \A j \in b..(blocks[b].last - 1) : FlowKept(j) = {j + 1}
        /\ FlowKept(blocks[b].last) \cap Instructions \subseteq DOMAIN blocks
        /\ \A y \in DOMAIN blocks : <<b, y>> \in Edges <=> y \in FlowKept(blocks[b].last)
    BY <1>1, <1>2, FlowOfBlock
  <2>3. CASE i = blocks[b].last
    <3>1. x \in DOMAIN blocks /\ <<b, x>> \in Edges
      BY <1>5, <2>2, <2>3
    <3>2. x \in shown
      BY <1>2, <3>1 DEF ClosedBlocks
    <3>. QED
      BY <1>3, <1>2, <3>2
  <2>4. CASE i # blocks[b].last
    <3>1. i \in b..(blocks[b].last - 1)
      BY <1>2, <1>3, <2>1, <2>4, BlocksAssumption DEF Inside, Instructions
    <3>2. x = i + 1
      BY <1>5, <2>2, <3>1
    <3>3. x \in Inside(b)
      BY <1>2, <1>3, <3>1, <3>2, BlocksAssumption DEF Inside, Instructions
    <3>. QED
      BY <2>1, <3>3
  <2>. QED
    BY <2>3, <2>4
<1>6. ASSUME NEW S \in SUBSET Instructions, entry \in S, \A i \in S : FlowKept(i) \cap Instructions \subseteq S
      PROVE  lines \subseteq S
  <2>. DEFINE B == DOMAIN blocks \cap S
  <2>1. ASSUME NEW b \in B
        PROVE  Inside(b) \subseteq S
    BY <1>1, <1>2, <1>6, <2>1, BlockInClosed
  <2>2. ASSUME NEW e \in Edges, e[1] \in B, e[2] \in DOMAIN blocks
        PROVE  e[2] \in B
    <3>. DEFINE b == e[1]
                x == e[2]
    <3>1. e = <<b, x>> /\ b \in DOMAIN blocks
      BY DEF Edges
    <3>. HIDE DEF b, x
    <3>2. b \in B /\ x \in DOMAIN blocks
      BY <2>2 DEF b, x
    <3>3. x \in FlowKept(blocks[b].last)
      BY <1>1, <1>2, <3>1, <3>2, FlowOfBlock
    <3>4. blocks[b].last \in S
      BY <1>3, <2>1, <3>2, BlocksAssumption DEF Inside, Instructions
    <3>5. x \in S
      BY <1>3, <1>6, <3>2, <3>3, <3>4
    <3>. QED
      BY <3>2, <3>5 DEF x
  <2>3. ClosedBlocks(B) /\ entry \in B
    BY <1>1, <1>6, <2>2 DEF ClosedBlocks
  <2>4. shown \subseteq B
    BY <1>2, <2>3
  <2>. QED
    BY <2>1, <2>4
<1>. QED
  BY <1>4, <1>5, <1>6

\* Of every listing, whatever the order of the requests: the blocks cut are a partition
\* entered at first lines only, the graph found for an address has its block, and the
\* graph of a function whose calls and cases are resolved is the lines control reaches
\* from its entry, but over the edges of blocks that no branch ends
\* (build_cfg, find_function_entry_for_addr, filter_cfg_for_function).
THEOREM GraphsAreTold == BlocksSpec => []GraphsTold
<1>1. BlocksInit => BlocksInv
  BY BlocksBegin
<1>2. BlocksInv /\ [BlocksNext]_blocksVars => BlocksInv'
  BY BlocksStep
<1>3. BlocksInv => GraphsTold
  BY PartitionFollows, AddressFollows, FlowFollows DEF BlocksInv, GraphsTold
<1>. QED
  BY <1>1, <1>2, <1>3, PTL DEF BlocksSpec

-----------------------------------------------------------------------------
(* The discovery of functions *)

LEMMA RangeOfTail ==
    ASSUME NEW T, NEW s \in Seq(T), s # <<>>
    PROVE  Head(s) \in T /\ Tail(s) \in Seq(T) /\ Range(s) = {Head(s)} \cup Range(Tail(s))
<1>1. /\ Head(s) \in T /\ Tail(s) \in Seq(T) /\ Len(Tail(s)) = Len(s) - 1 /\ Len(s) \in Nat \ {0}
      /\ \A i \in 1..Len(Tail(s)) : Tail(s)[i] = s[i + 1]
      /\ Head(s) = s[1]
  <2>1. Len(s) \in Nat /\ Len(s) # 0
    BY LenProperties, EmptySeq
  <2>. QED
    BY <2>1, HeadTailProperties
<1>2. DOMAIN s = 1..Len(s) /\ DOMAIN Tail(s) = 1..(Len(s) - 1)
  BY <1>1, LenProperties
<1>3. ASSUME NEW x \in Range(s)
      PROVE  x \in {Head(s)} \cup Range(Tail(s))
  <2>1. PICK i \in 1..Len(s) : s[i] = x
    BY <1>2, <1>3 DEF Range
  <2>2. CASE i = 1
    BY <1>1, <2>1, <2>2
  <2>3. CASE i # 1
    <3>1. i - 1 \in 1..(Len(s) - 1) /\ (i - 1) + 1 = i
      BY <1>1, <2>1, <2>3
    <3>2. Tail(s)[i - 1] = x
      BY <1>1, <2>1, <3>1
    <3>. QED
      BY <1>2, <3>1, <3>2 DEF Range
  <2>. QED
    BY <2>2, <2>3
<1>4. ASSUME NEW x \in Range(Tail(s))
      PROVE  x \in Range(s)
  <2>1. PICK i \in 1..(Len(s) - 1) : Tail(s)[i] = x
    BY <1>2, <1>4 DEF Range
  <2>2. i + 1 \in 1..Len(s) /\ s[i + 1] = x
    BY <1>1, <2>1
  <2>. QED
    BY <1>2, <2>2 DEF Range
<1>5. Head(s) \in Range(s)
  BY <1>1, <1>2 DEF Range
<1>. QED
  BY <1>1, <1>3, <1>4, <1>5

SampleTrue == sample \in Samples /\ heuristic \subseteq Lines

LEMMA SampleKnown ==
    ASSUME SampleTrue
    PROVE  /\ Size \in Nat \ {0} /\ 1 \in Lines
           /\ Known \subseteq Lines /\ Hints \subseteq Lines /\ Seeds \subseteq Lines
           /\ \A a \in Lines : To(a) \in 0..Size
<1>1. sample \in [code : [Lines -> [op : Ops, to : 0..Size]], known : SUBSET Lines, hints : SUBSET Lines]
  BY DiscoveryAssumption DEF SampleTrue
<1>2. sample.code \in [Lines -> [op : Ops, to : 0..Size]] /\ Known \subseteq Lines /\ Hints \subseteq Lines
  BY <1>1 DEF Known, Hints
<1>3. Size \in Nat \ {0} /\ 1 \in Lines
  BY DiscoveryAssumption DEF Lines
<1>4. \A a \in Lines : To(a) \in 0..Size
  BY <1>2 DEF To
<1>. QED
  BY <1>2, <1>3, <1>4 DEF SampleTrue, Seeds

\* Where the walk goes on from a line: to what it has not seen.
LEMMA FollowKnown ==
    ASSUME SampleTrue, NEW a \in Lines, NEW seen
    PROVE  /\ Follow(a, seen) \in Seq(Lines)
           /\ Range(Follow(a, seen)) = Range(Follow(a, {})) \ seen
           /\ Range(Follow(a, {})) \subseteq Lines /\ Names(a) \subseteq Lines
<1>1. ASSUME NEW b, NEW S
      PROVE  /\ Unseen(b, S) \in Seq(Lines) /\ <<>> \in Seq(Lines) /\ Range(<<>>) = {}
             /\ Range(Unseen(b, S)) = IF b \in Lines \ S THEN {b} ELSE {}
  BY DEF Unseen, Range
<1>2. ASSUME NEW b, NEW c, NEW S
      PROVE  /\ Unseen(b, S) \o Unseen(c, S) \in Seq(Lines)
             /\ Range(Unseen(b, S) \o Unseen(c, S)) = Range(Unseen(b, S)) \cup Range(Unseen(c, S))
  BY <1>1, JoinedRange, ConcatProperties
<1>3. ASSUME NEW S
      PROVE  /\ Follow(a, S) \in Seq(Lines)
             /\ \A x : x \in Range(Follow(a, S)) <=>
                   /\ x \in Lines \ S
                   /\ \/ x = a + 1 /\ Op(a) \notin {"ret", "jmp"}
                      \/ x = To(a) /\ (Op(a) = "jcc" \/ (Op(a) = "jmp" /\ ~TailCall(a)))
  <2>1. CASE Op(a) = "ret"
    BY <1>1, <2>1 DEF Follow
  <2>2. CASE Op(a) = "jmp"
    BY <1>1, <2>2 DEF Follow
  <2>3. CASE Op(a) = "jcc"
    <3>1. Follow(a, S) = Unseen(To(a), S) \o Unseen(a + 1, S)
      BY <2>3 DEF Follow
    <3>. QED
      BY <1>1, <1>2, <2>3, <3>1
  <2>4. CASE Op(a) \notin {"ret", "jmp", "jcc"}
    BY <1>1, <2>4 DEF Follow
  <2>. QED
    BY <2>1, <2>2, <2>3, <2>4
<1>4. Names(a) \subseteq Lines
  <2>1. \A b \in Lines : To(b) # 0 => To(b) \in Lines
    BY SampleKnown DEF Lines
  <2>. QED
    BY <2>1 DEF Names, TailCall
<1>. QED
  BY <1>3, <1>4

\* The seeds in their order.
LEMMA OrderedKnown ==
    ASSUME NEW S \in SUBSET Lines
    PROVE  Ordered(S) \in Seq(S) /\ Range(Ordered(S)) = S
<1>. DEFINE Upto(k) == S \cap 1..k
            Sorted(U) == \E s \in [1..Cardinality(U) -> U] :
                            Range(s) = U /\ \A i, j \in DOMAIN s : i < j => s[i] < s[j]
            Failed == {k \in 0..Size : ~Sorted(Upto(k))}
<1>1. Size \in Nat
  BY DiscoveryAssumption
<1>2. Sorted(Upto(0))
  <2>1. Upto(0) = {} /\ Cardinality({}) = 0
    BY FS_EmptySet
  <2>2. Sorted({})
    <3>1. 1..0 = {}
      OBVIOUS
    <3>. DEFINE s == [i \in {} |-> i]
    <3>2. s \in [{} -> {}] /\ DOMAIN s = {} /\ Range(s) = {}
      BY DEF Range
    <3>. HIDE DEF s
    <3>. QED
      BY <2>1, <3>1, <3>2
  <2>. HIDE DEF Sorted
  <2>. QED
    BY <2>1, <2>2
<1>3. ASSUME NEW k \in 0..(Size - 1), Sorted(Upto(k))
      PROVE  Sorted(Upto(k + 1))
  <2>. DEFINE U == Upto(k)
              V == Upto(k + 1)
              n == Cardinality(U)
  <2>1. CASE k + 1 \notin S
    <3>1. V = U
      BY <1>1, <1>3, <2>1
    <3>. HIDE DEF U, V, Sorted
    <3>. QED
      BY <1>3, <3>1 DEF U, V
  <2>2. CASE k + 1 \in S
    <3>1. V = U \cup {k + 1} /\ k + 1 \notin U /\ \A x \in U : x < k + 1
      BY <1>1, <1>3, <2>2
    <3>2. IsFiniteSet(U)
      <4>1. IsFiniteSet(1..k) /\ U \subseteq 1..k
        BY <1>3, FS_Interval
      <4>. HIDE DEF U
      <4>. QED
        BY <4>1, FS_Subset
    <3>3. PICK s \in [1..n -> U] : Range(s) = U /\ \A i, j \in DOMAIN s : i < j => s[i] < s[j]
      BY <1>3
    <3>. HIDE DEF U, V
    <3>4. n \in Nat /\ Cardinality(V) = n + 1
      BY <3>1, <3>2, FS_CardinalityType, FS_AddElement
    <3>. HIDE DEF n
    <3>. DEFINE t == [i \in 1..(n + 1) |-> IF i <= n THEN s[i] ELSE k + 1]
    <3>5. t \in [1..(n + 1) -> V] /\ DOMAIN t = 1..(n + 1) /\ t[n + 1] = k + 1
          /\ \A i \in 1..n : t[i] = s[i] /\ i \in 1..(n + 1)
      BY <3>1, <3>3, <3>4
    <3>. HIDE DEF t
    <3>6. Range(t) = V
      <4>1. ASSUME NEW x \in V
            PROVE  x \in Range(t)
        <5>1. CASE x = k + 1
          <6>1. n + 1 \in 1..(n + 1)
            BY <3>4
          <6>. QED
            BY <3>5, <5>1, <6>1 DEF Range
        <5>2. CASE x # k + 1
          <6>1. x \in Range(s)
            BY <3>1, <3>3, <5>2
          <6>2. PICK i \in 1..n : s[i] = x
            BY <3>3, <6>1 DEF Range
          <6>. QED
            BY <3>5, <6>2 DEF Range
        <5>. QED
          BY <5>1, <5>2
      <4>2. Range(t) \subseteq V
        BY <3>5 DEF Range
      <4>. QED
        BY <4>1, <4>2
    <3>7. ASSUME NEW i \in DOMAIN t, NEW j \in DOMAIN t, i < j
          PROVE  t[i] < t[j]
      <4>1. i \in 1..n
        BY <3>4, <3>5, <3>7
      <4>2. CASE j \in 1..n
        BY <3>3, <3>5, <3>7, <4>1, <4>2
      <4>3. CASE j \notin 1..n
        <5>1. j = n + 1
          BY <3>4, <3>5, <4>3
        <5>. QED
          BY <3>1, <3>3, <3>5, <4>1, <5>1
      <4>. QED
        BY <4>2, <4>3
    <3>. QED
      BY <3>4, <3>5, <3>6, <3>7 DEF V
  <2>. QED
    BY <2>1, <2>2
<1>. HIDE DEF Sorted
<1>4. Failed = {}
  <2>1. SUFFICES ASSUME Failed # {}
                 PROVE  FALSE
    OBVIOUS
  <2>2. PICK k \in Failed : \A m \in Failed : k <= m
    <3>1. Failed \in SUBSET Nat
      OBVIOUS
    <3>. HIDE DEF Failed
    <3>. QED
      BY <2>1, <3>1, LeastNumber
  <2>. DEFINE m == k - 1
  <2>3. k # 0
    BY <1>2
  <2>4. m \in 0..(Size - 1) /\ m + 1 = k /\ m \notin Failed /\ m \in 0..Size
    BY <1>1, <2>2, <2>3
  <2>. HIDE DEF m, Upto
  <2>5. Sorted(Upto(m))
    BY <2>4
  <2>. QED
    BY <1>3, <2>2, <2>4, <2>5
<1>5. Upto(Size) = S
  BY DEF Lines
<1>6. Sorted(S)
  <2>1. Size \in 0..Size
    BY <1>1
  <2>. HIDE DEF Upto
  <2>. QED
    BY <1>4, <1>5, <2>1
<1>7. Ordered(S) \in [1..Cardinality(S) -> S] /\ Range(Ordered(S)) = S
  BY <1>6 DEF Ordered, Sorted
<1>8. Cardinality(S) \in Nat
  <2>1. IsFiniteSet(Lines)
    BY <1>1, FS_Interval DEF Lines
  <2>. QED
    BY <2>1, FS_Subset, FS_CardinalityType
<1>. QED
  BY <1>7, <1>8, SeqDef

\* What is reached has the seeds, is not left by control, and is the least such set.
LEMMA ReachKnown ==
    ASSUME SampleTrue
    PROVE  /\ Seeds \subseteq Reach /\ Reach \subseteq Lines
           /\ \A a \in Reach : Onward(a) \subseteq Reach
           /\ \A a \in Reach : a \notin Known \ Seeds
           /\ \A S \in SUBSET Lines :
                 Seeds \subseteq S /\ (\A b \in S : Onward(b) \subseteq S) => Reach \subseteq S
<1>1. Seeds \subseteq Lines
  BY SampleKnown
<1>2. \A a \in Lines : Onward(a) \subseteq Lines /\ \A b \in Onward(a) : b \notin Known \ Seeds
  BY FollowKnown DEF Onward
<1>3. Seeds \subseteq Reach /\ Reach \subseteq Lines
  BY <1>1 DEF Reach
<1>4. ASSUME NEW a \in Reach, NEW b \in Onward(a)
      PROVE  b \in Reach
  <2>1. b \in Lines
    BY <1>2, <1>3
  <2>2. ASSUME NEW S \in SUBSET Lines, Seeds \subseteq S, \A c \in S : Onward(c) \subseteq S
        PROVE  b \in S
    <3>1. a \in S
      BY <2>2 DEF Reach
    <3>. QED
      BY <2>2, <3>1
  <2>. QED
    BY <2>1, <2>2 DEF Reach
<1>5. ASSUME NEW S \in SUBSET Lines, Seeds \subseteq S, \A b \in S : Onward(b) \subseteq S
      PROVE  Reach \subseteq S
  BY <1>5 DEF Reach
<1>6. ASSUME NEW a \in Reach
      PROVE  a \notin Known \ Seeds
  <2>. DEFINE S == Lines \ (Known \ Seeds)
  <2>1. S \in SUBSET Lines /\ Seeds \subseteq S
    BY <1>1
  <2>2. \A b \in S : Onward(b) \subseteq S
    BY <1>2
  <2>. HIDE DEF S
  <2>3. a \in S
    BY <1>5, <2>1, <2>2
  <2>. QED
    BY <2>3 DEF S
<1>. QED
  BY <1>3, <1>4, <1>5, <1>6

\* Where the lines followed from a line may be: not to be entered, or walked through,
\* now or later.
Pending(s) ==
    (Known \ Seeds) \cup Range(queued) \cup DOMAIN coverage \cup coverage[s]
        \cup (IF s = start THEN Range(worklist) ELSE {})

\* What the walk has gone through, and what it still has to.
WalkTrue ==
    /\ SampleTrue
    /\ queued \in Seq(Reach) /\ worklist \in Seq(Lines)
    /\ Range(worklist) \subseteq Reach \cup (Known \ Seeds)
    /\ DOMAIN coverage \subseteq Reach /\ \A s \in DOMAIN coverage : coverage[s] \subseteq Reach
    /\ start # 0 => start \in DOMAIN coverage
    /\ start = 0 => worklist = <<>>
    /\ \A s \in DOMAIN coverage : s \in coverage[s] \/ (s = start /\ s \in Range(worklist))
    /\ Known \subseteq boundary /\ boundary \subseteq Known \cup Range(queued) \cup DOMAIN coverage
    /\ Seeds \subseteq Range(queued) \cup DOMAIN coverage
    /\ \A s \in DOMAIN coverage : \A a \in coverage[s] :
          Names(a) \subseteq boundary /\ Range(Follow(a, {})) \subseteq Pending(s)
    /\ phase \in {"walk", "overlaps", "done"}
    /\ phase # "walk" => start = 0 /\ queued = <<>>

\* The candidates are the starts that look like one and what the lines walked through name.
FoundTrue ==
    \A x : x \in found <=>
        x \in heuristic \/ \E s \in DOMAIN coverage : \E a \in coverage[s] : x \in Names(a)

DiscoveryInv == WalkTrue /\ FoundTrue

LEMMA SampleStays ==
    ASSUME SampleTrue, UNCHANGED <<sample, heuristic>>
    PROVE  /\ SampleTrue' /\ Reach' = Reach /\ Known' = Known /\ Hints' = Hints /\ Seeds' = Seeds
           /\ \A a : Names(a)' = Names(a) /\ Op(a)' = Op(a) /\ Thunk(a)' = Thunk(a)
           /\ \A a, seen : Follow(a, seen)' = Follow(a, seen)
<1>1. /\ SampleTrue' /\ Known' = Known /\ Hints' = Hints /\ Seeds' = Seeds
      /\ \A a : Op(a)' = Op(a) /\ To(a)' = To(a)
  BY DEF SampleTrue, Known, Hints, Seeds, Op, To
<1>2. \A a : Thunk(a)' = Thunk(a) /\ EpilogueBefore(a)' = EpilogueBefore(a)
  BY <1>1 DEF Thunk, EpilogueBefore
<1>3. \A a : TailCall(a)' = TailCall(a)
  BY <1>1, <1>2 DEF TailCall
<1>4. \A a : Names(a)' = Names(a)
  BY <1>1, <1>3 DEF Names
<1>5. ASSUME NEW a, NEW seen
      PROVE  Follow(a, seen)' = Follow(a, seen)
  BY <1>1, <1>3 DEF Follow, Unseen
<1>6. \A a : Onward(a)' = Onward(a)
  BY <1>1, <1>4, <1>5 DEF Onward
<1>7. Reach' = Reach
  BY <1>1, <1>6 DEF Reach
<1>. QED
  BY <1>1, <1>2, <1>4, <1>5, <1>7

LEMMA DiscoveryBegins ==
    ASSUME DiscoveryInit
    PROVE  DiscoveryInv
<1>1. SampleTrue
  BY DEF DiscoveryInit, SampleTrue, HeuristicStarts
<1>2. /\ boundary = Known \cup Hints \cup heuristic /\ found = heuristic /\ queued = Ordered(Seeds)
      /\ start = 0 /\ worklist = <<>> /\ DOMAIN coverage = {} /\ phase = "walk"
  BY DEF DiscoveryInit
<1>3. Seeds \subseteq Lines /\ Seeds \subseteq Reach
  BY <1>1, SampleKnown, ReachKnown
<1>4. queued \in Seq(Seeds) /\ Range(queued) = Seeds
  BY <1>2, <1>3, OrderedKnown
<1>5. queued \in Seq(Reach) /\ worklist \in Seq(Lines) /\ Range(worklist) = {}
  BY <1>2, <1>3, <1>4, SeqMonotonic, EmptySeq DEF Range
<1>6. WalkTrue
  BY <1>1, <1>2, <1>4, <1>5 DEF WalkTrue, Seeds
<1>7. FoundTrue
  BY <1>2 DEF FoundTrue
<1>. QED
  BY <1>6, <1>7 DEF DiscoveryInv

LEMMA NextSeedKeeps ==
    ASSUME DiscoveryInv, NextSeed
    PROVE  DiscoveryInv'
<1>. DEFINE h == Head(queued)
<1>1. /\ SampleTrue' /\ Reach' = Reach /\ Known' = Known /\ Seeds' = Seeds
      /\ \A a : Names(a)' = Names(a)
      /\ \A a, seen : Follow(a, seen)' = Follow(a, seen)
  <2>1. SampleTrue /\ UNCHANGED <<sample, heuristic>>
    BY DEF NextSeed, DiscoveryInv, WalkTrue
  <2>. QED
    BY <2>1, SampleStays
<1>2. /\ phase = "walk" /\ start = 0 /\ worklist = <<>> /\ queued' = Tail(queued)
      /\ boundary' = boundary /\ found' = found /\ phase' = phase /\ heuristic' = heuristic
      /\ IF h \in DOMAIN coverage
         THEN start' = start /\ worklist' = worklist /\ coverage' = coverage
         ELSE /\ start' = h /\ worklist' = <<h>>
              /\ coverage' = [s \in DOMAIN coverage \cup {h} |-> IF s = h THEN {} ELSE coverage[s]]
  BY DEF NextSeed, DiscoveryInv, WalkTrue
<1>3. h \in Reach /\ queued' \in Seq(Reach) /\ Range(queued) = {h} \cup Range(queued')
  BY <1>2, RangeOfTail DEF NextSeed, DiscoveryInv, WalkTrue
<1>. HIDE DEF h
<1>4. Range(worklist) = {}
  BY <1>2 DEF Range
<1>5. Reach \subseteq Lines /\ 0 \notin Lines /\ Seeds \subseteq Reach
  BY ReachKnown, SampleKnown DEF DiscoveryInv, WalkTrue, Lines
<1>6. CASE h \in DOMAIN coverage
  <2>1. start' = start /\ worklist' = worklist /\ coverage' = coverage
    BY <1>2, <1>6
  <2>2. \A s \in DOMAIN coverage : Pending(s) \subseteq Pending(s)'
    BY <1>1, <1>3, <1>6, <2>1 DEF Pending
  <2>3. WalkTrue'
    BY <1>1, <1>2, <1>3, <1>6, <2>1, <2>2 DEF DiscoveryInv, WalkTrue
  <2>4. FoundTrue'
    BY <1>1, <1>2, <2>1 DEF DiscoveryInv, FoundTrue
  <2>. QED
    BY <2>3, <2>4 DEF DiscoveryInv
<1>7. CASE h \notin DOMAIN coverage
  <2>1. start' = h /\ worklist' = <<h>>
    BY <1>2, <1>7
  <2>2. /\ DOMAIN coverage' = DOMAIN coverage \cup {h} /\ coverage'[h] = {}
        /\ \A s \in DOMAIN coverage : coverage'[s] = coverage[s] /\ s # h
    BY <1>2, <1>7
  <2>3. worklist' \in Seq(Lines) /\ Range(worklist') = {h}
    BY <1>3, <1>5, <2>1 DEF Range
  <2>4. \A s \in DOMAIN coverage : Pending(s) \subseteq Pending(s)'
    BY <1>1, <1>2, <1>3, <1>4, <2>2 DEF Pending
  <2>5. \A s \in DOMAIN coverage' : s \in coverage'[s] \/ (s = start' /\ s \in Range(worklist'))
    BY <1>2, <1>4, <2>1, <2>2, <2>3 DEF DiscoveryInv, WalkTrue
  <2>6. \A s \in DOMAIN coverage' : \A a \in coverage'[s] :
           Names(a)' \subseteq boundary' /\ Range(Follow(a, {}))' \subseteq Pending(s)'
    <3>1. ASSUME NEW s \in DOMAIN coverage', NEW a \in coverage'[s]
          PROVE  Names(a)' \subseteq boundary' /\ Range(Follow(a, {}))' \subseteq Pending(s)'
      <4>1. s \in DOMAIN coverage /\ a \in coverage[s]
        BY <2>2, <3>1
      <4>2. Names(a) \subseteq boundary /\ Range(Follow(a, {})) \subseteq Pending(s)
        BY <4>1 DEF DiscoveryInv, WalkTrue
      <4>. QED
        BY <1>1, <1>2, <2>4, <4>1, <4>2
    <3>. QED
      BY <3>1
  <2>7. WalkTrue'
    <3>1. DOMAIN coverage' \subseteq Reach' /\ \A s \in DOMAIN coverage' : coverage'[s] \subseteq Reach'
      BY <1>1, <1>3, <2>2 DEF DiscoveryInv, WalkTrue
    <3>2. boundary' \subseteq Known' \cup Range(queued') \cup DOMAIN coverage'
          /\ Seeds' \subseteq Range(queued') \cup DOMAIN coverage' /\ Known' \subseteq boundary'
      BY <1>1, <1>2, <1>3, <2>2 DEF DiscoveryInv, WalkTrue
    <3>3. start' \in DOMAIN coverage' /\ start' # 0
      BY <1>3, <1>5, <2>1, <2>2
    <3>. QED
      BY <1>1, <1>2, <1>3, <2>1, <2>3, <2>5, <2>6, <3>1, <3>2, <3>3 DEF WalkTrue
  <2>8. FoundTrue'
    BY <1>1, <1>2, <2>2 DEF DiscoveryInv, FoundTrue
  <2>. QED
    BY <2>7, <2>8 DEF DiscoveryInv
<1>. QED
  BY <1>6, <1>7

LEMMA VisitKeeps ==
    ASSUME DiscoveryInv, Visit
    PROVE  DiscoveryInv'
<1>. DEFINE a == Head(worklist)
            new == Names(a) \ boundary
            skip == a \in coverage[start] \/ (a # start /\ a \in boundary)
            more == Follow(a, coverage[start] \cup {a})
<1>1. /\ SampleTrue' /\ Reach' = Reach /\ Known' = Known /\ Seeds' = Seeds
      /\ \A b : Names(b)' = Names(b)
      /\ \A b, seen : Follow(b, seen)' = Follow(b, seen)
  <2>1. SampleTrue /\ UNCHANGED <<sample, heuristic>>
    BY DEF Visit, DiscoveryInv, WalkTrue
  <2>. QED
    BY <2>1, SampleStays
<1>2. /\ worklist # <<>> /\ start' = start /\ phase' = phase /\ heuristic' = heuristic
      /\ IF skip
         THEN /\ worklist' = Tail(worklist)
              /\ boundary' = boundary /\ found' = found /\ queued' = queued /\ coverage' = coverage
         ELSE /\ coverage' = [coverage EXCEPT ![start] = @ \cup {a}]
              /\ found' = found \cup Names(a)
              /\ boundary' = boundary \cup new
              /\ queued' = queued \o SetToSeq(new)
              /\ worklist' = Tail(worklist) \o more
  BY DEF Visit
<1>3. a \in Lines /\ Tail(worklist) \in Seq(Lines) /\ Range(worklist) = {a} \cup Range(Tail(worklist))
  BY <1>2, RangeOfTail DEF DiscoveryInv, WalkTrue
<1>4. start \in DOMAIN coverage /\ start # 0 /\ phase = "walk"
  BY <1>2 DEF DiscoveryInv, WalkTrue
<1>5. /\ more \in Seq(Lines) /\ Range(more) = Range(Follow(a, {})) \ (coverage[start] \cup {a})
      /\ Range(Follow(a, {})) \subseteq Lines /\ Names(a) \subseteq Lines
  BY <1>3, FollowKnown DEF DiscoveryInv, WalkTrue
<1>. HIDE DEF a, more
<1>6. CASE skip
  <2>1. /\ worklist' = Tail(worklist)
        /\ boundary' = boundary /\ found' = found /\ queued' = queued /\ coverage' = coverage
    BY <1>2, <1>6
  <2>2. a \in coverage[start] \/ (a # start /\ a \in (Known \ Seeds) \cup Range(queued) \cup DOMAIN coverage)
    BY <1>6 DEF DiscoveryInv, WalkTrue
  <2>. HIDE DEF skip
  <2>3. \A s \in DOMAIN coverage : Pending(s) \subseteq Pending(s)'
    BY <1>1, <1>2, <1>3, <2>1, <2>2 DEF Pending
  <2>4. \A s \in DOMAIN coverage : s \in coverage[s] \/ (s = start /\ s \in Range(worklist'))
    BY <1>3, <2>1, <2>2 DEF DiscoveryInv, WalkTrue
  <2>5. WalkTrue'
    <3>1. \A s \in DOMAIN coverage : \A b \in coverage[s] :
             Names(b) \subseteq boundary /\ Range(Follow(b, {})) \subseteq Pending(s)'
      BY <2>3 DEF DiscoveryInv, WalkTrue
    <3>2. worklist' \in Seq(Lines) /\ Range(worklist') \subseteq Reach \cup (Known \ Seeds)
      BY <1>3, <2>1 DEF DiscoveryInv, WalkTrue
    <3>. QED
      BY <1>1, <1>2, <1>4, <2>1, <2>4, <3>1, <3>2 DEF DiscoveryInv, WalkTrue
  <2>6. FoundTrue'
    BY <1>1, <1>2, <2>1 DEF DiscoveryInv, FoundTrue
  <2>. QED
    BY <2>5, <2>6 DEF DiscoveryInv
<1>7. CASE ~skip
  <2>1. /\ coverage' = [coverage EXCEPT ![start] = @ \cup {a}]
        /\ found' = found \cup Names(a)
        /\ boundary' = boundary \cup new
        /\ queued' = queued \o SetToSeq(new)
        /\ worklist' = Tail(worklist) \o more
    BY <1>2, <1>7
  <2>2. /\ DOMAIN coverage' = DOMAIN coverage /\ coverage'[start] = coverage[start] \cup {a}
        /\ \A s \in DOMAIN coverage : s # start => coverage'[s] = coverage[s]
    BY <1>4, <2>1
  <2>3. a \in Reach
    BY <1>3, <1>7, <1>4 DEF DiscoveryInv, WalkTrue
  <2>. HIDE DEF skip
  <2>4. /\ Reach \subseteq Lines
        /\ \A b \in Names(a) : b \in Reach \/ b \in Known
        /\ \A b \in Range(Follow(a, {})) : b \in Reach \/ b \in Known \ Seeds
    BY <2>3, ReachKnown DEF Onward, DiscoveryInv, WalkTrue
  <2>5. new \subseteq Reach /\ new \subseteq Lines
    BY <1>5, <2>4 DEF DiscoveryInv, WalkTrue
  <2>6. queued' \in Seq(Reach) /\ Range(queued') = Range(queued) \cup new
    <3>1. IsFiniteSet(new)
      <4>1. IsFiniteSet(Lines)
        BY DiscoveryAssumption, FS_Interval DEF Lines
      <4>. HIDE DEF new
      <4>. QED
        BY <2>5, <4>1, FS_Subset
    <3>. HIDE DEF new
    <3>2. SetToSeq(new) \in Seq(new) /\ Range(SetToSeq(new)) = new
      BY <3>1, ListOfSet
    <3>3. SetToSeq(new) \in Seq(Reach) /\ queued \in Seq(Reach)
      BY <2>5, <3>2, SeqMonotonic DEF DiscoveryInv, WalkTrue
    <3>. QED
      BY <2>1, <3>2, <3>3, ConcatProperties, JoinedRange
  <2>7. worklist' \in Seq(Lines) /\ Range(worklist') = Range(Tail(worklist)) \cup Range(more)
    <3>. DEFINE rest == Tail(worklist)
    <3>1. rest \in Seq(Lines) /\ worklist' = rest \o more
      BY <1>3, <2>1
    <3>. HIDE DEF rest
    <3>2. rest \o more \in Seq(Lines) /\ Range(rest \o more) = Range(rest) \cup Range(more)
      BY <1>5, <3>1, ConcatProperties, JoinedRange
    <3>. QED
      BY <3>1, <3>2 DEF rest
  <2>. HIDE DEF new
  <2>8. \A s \in DOMAIN coverage : Pending(s) \subseteq Pending(s)'
    <3>1. ASSUME NEW s \in DOMAIN coverage
          PROVE  Pending(s) \subseteq Pending(s)'
      <4>1. CASE s = start
        BY <1>1, <1>2, <1>3, <2>2, <2>6, <2>7, <4>1 DEF Pending
      <4>2. CASE s # start
        BY <1>1, <1>2, <2>2, <2>6, <4>2 DEF Pending
      <4>. QED
        BY <4>1, <4>2
    <3>. QED
      BY <3>1
  <2>9. \A s : s = start => Range(Follow(a, {})) \subseteq Pending(s)'
    BY <1>2, <1>5, <2>2, <2>7 DEF Pending
  <2>10. Names(a) \subseteq boundary'
    BY <2>1 DEF new
  <2>11. \A s \in DOMAIN coverage' : \A b \in coverage'[s] :
            Names(b)' \subseteq boundary' /\ Range(Follow(b, {}))' \subseteq Pending(s)'
    <3>1. ASSUME NEW s \in DOMAIN coverage', NEW b \in coverage'[s]
          PROVE  Names(b)' \subseteq boundary' /\ Range(Follow(b, {}))' \subseteq Pending(s)'
      <4>1. CASE b \in coverage[s]
        <5>1. Names(b) \subseteq boundary /\ Range(Follow(b, {})) \subseteq Pending(s)
          BY <2>2, <3>1, <4>1 DEF DiscoveryInv, WalkTrue
        <5>. QED
          BY <1>1, <2>1, <2>2, <2>8, <5>1
      <4>2. CASE b \notin coverage[s]
        <5>1. s = start /\ b = a
          BY <2>2, <3>1, <4>2
        <5>2. Names(b) \subseteq boundary' /\ Range(Follow(b, {})) \subseteq Pending(s)'
          BY <2>9, <2>10, <5>1
        <5>. QED
          BY <1>1, <5>2
      <4>. QED
        BY <4>1, <4>2
    <3>. QED
      BY <3>1
  <2>12. \A s \in DOMAIN coverage' : s \in coverage'[s] \/ (s = start' /\ s \in Range(worklist'))
    <3>1. ASSUME NEW s \in DOMAIN coverage
          PROVE  s \in coverage'[s] \/ (s = start' /\ s \in Range(worklist'))
      <4>1. s \in coverage[s] \/ (s = start /\ s \in Range(worklist))
        BY DEF DiscoveryInv, WalkTrue
      <4>. QED
        BY <1>2, <1>3, <2>2, <2>7, <4>1
    <3>. QED
      BY <2>2, <3>1
  <2>13. /\ DOMAIN coverage' \subseteq Reach' /\ \A s \in DOMAIN coverage' : coverage'[s] \subseteq Reach'
    <3>1. ASSUME NEW s \in DOMAIN coverage
          PROVE  coverage'[s] \subseteq Reach
      <4>1. coverage[s] \subseteq Reach
        BY DEF DiscoveryInv, WalkTrue
      <4>. QED
        BY <2>2, <2>3, <4>1
    <3>. QED
      BY <1>1, <2>2, <3>1 DEF DiscoveryInv, WalkTrue
  <2>14. /\ Known' \subseteq boundary' /\ boundary' \subseteq Known' \cup Range(queued') \cup DOMAIN coverage'
         /\ Seeds' \subseteq Range(queued') \cup DOMAIN coverage'
    BY <1>1, <2>1, <2>2, <2>6 DEF DiscoveryInv, WalkTrue
  <2>15. Range(worklist') \subseteq Reach' \cup (Known' \ Seeds')
    BY <1>1, <1>3, <1>5, <2>4, <2>7 DEF DiscoveryInv, WalkTrue
  <2>16. WalkTrue'
    BY <1>1, <1>2, <1>4, <2>2, <2>6, <2>7, <2>11, <2>12, <2>13, <2>14, <2>15 DEF WalkTrue
  <2>17. FoundTrue'
    <3>1. \A x : x \in found' <=> x \in found \/ x \in Names(a)
      BY <2>1
    <3>2. ASSUME NEW x, NEW s \in DOMAIN coverage, NEW b \in coverage[s], x \in Names(b)
          PROVE  \E r \in DOMAIN coverage' : \E c \in coverage'[r] : x \in Names(c)
      <4>1. b \in coverage'[s]
        BY <2>2
      <4>. QED
        BY <2>2, <3>2, <4>1
    <3>3. ASSUME NEW x, x \in Names(a)
          PROVE  \E r \in DOMAIN coverage' : \E c \in coverage'[r] : x \in Names(c)
      BY <1>4, <2>2, <3>3
    <3>4. ASSUME NEW x, NEW s \in DOMAIN coverage', NEW b \in coverage'[s], x \in Names(b)
          PROVE  x \in found'
      <4>1. CASE b \in coverage[s]
        BY <2>2, <3>1, <3>4, <4>1 DEF DiscoveryInv, FoundTrue
      <4>2. CASE b \notin coverage[s]
        BY <2>2, <3>1, <3>4, <4>2
      <4>. QED
        BY <4>1, <4>2
    <3>5. \A x \in heuristic : x \in found'
      BY <3>1 DEF DiscoveryInv, FoundTrue
    <3>6. ASSUME NEW x \in found', x \notin heuristic
          PROVE  \E r \in DOMAIN coverage' : \E c \in coverage'[r] : x \in Names(c)
      <4>1. CASE x \in Names(a)
        BY <3>3, <4>1
      <4>2. CASE x \notin Names(a)
        <5>1. PICK s \in DOMAIN coverage : \E b \in coverage[s] : x \in Names(b)
          BY <3>1, <3>6, <4>2 DEF DiscoveryInv, FoundTrue
        <5>. QED
          BY <3>2, <5>1
      <4>. QED
        BY <4>1, <4>2
    <3>. QED
      BY <1>1, <1>2, <3>4, <3>5, <3>6 DEF FoundTrue
  <2>. QED
    BY <2>16, <2>17 DEF DiscoveryInv
<1>. QED
  BY <1>6, <1>7

\* The greatest and the least of a set of lines.
LEMMA LeastOf ==
    ASSUME NEW S \in SUBSET Nat, S # {}
    PROVE  MinOf(S) \in S /\ \A x \in S : MinOf(S) <= x
<1>1. \E x \in S : \A y \in S : x <= y
  BY LeastNumber
<1>. QED
  BY <1>1 DEF MinOf

LEMMA GreatestOf ==
    ASSUME NEW n \in Nat, NEW S \in SUBSET (1..n), S # {}
    PROVE  MaxOf(S) \in S /\ \A x \in S : MaxOf(S) >= x
<1>. DEFINE T == {k \in 0..n : n - k \in S}
<1>1. T \in SUBSET Nat /\ T # {}
  <2>0. T \in SUBSET Nat
    OBVIOUS
  <2>1. PICK x \in S : TRUE
    OBVIOUS
  <2>2. n - x \in 0..n /\ n - (n - x) = x
    OBVIOUS
  <2>3. n - x \in T
    BY <2>2
  <2>. QED
    BY <2>0, <2>3
<1>2. PICK k \in T : \A m \in T : k <= m
  <2>. HIDE DEF T
  <2>. QED
    BY <1>1, LeastNumber
<1>3. \A y \in S : n - k >= y
  <2>1. ASSUME NEW y \in S
        PROVE  n - k >= y
    <3>1. n - y \in 0..n /\ n - (n - y) = y
      OBVIOUS
    <3>2. n - y \in T
      BY <3>1
    <3>3. k <= n - y /\ k \in 0..n
      BY <1>2, <3>2
    <3>. QED
      BY <3>3
  <2>. QED
    BY <2>1
<1>4. \E x \in S : \A y \in S : x >= y
  BY <1>2, <1>3
<1>. QED
  BY <1>4 DEF MaxOf

\* A function ends after it starts, and no later than the next start.
LEMMA EndKnown ==
    ASSUME SampleTrue, NEW a \in Lines, NEW firsts \in SUBSET Lines,
           a \in DOMAIN coverage => coverage[a] \subseteq Lines
    PROVE  /\ End(a, firsts) \in (a + 1)..(Size + 1)
           /\ \A b \in Next0(a, firsts) : End(a, firsts) <= b
<1>. DEFINE after == {Size + 1} \cup Next0(a, firsts)
            limit == MinOf(after)
            stops == {b \in a..(limit - 1) : Op(b) = "ret" \/ Thunk(b)}
            covered == IF a \in DOMAIN coverage THEN MaxOf({a} \cup coverage[a]) + 1 ELSE a
<1>1. Size \in Nat /\ a \in 1..Size
  BY SampleKnown DEF Lines
<1>2. after \in SUBSET Nat /\ after # {} /\ \A x \in after : x > a
  <2>1. \A b \in Next0(a, firsts) : b \in 1..Size /\ b > a
    BY DEF Next0, Lines
  <2>2. Size + 1 \in Nat /\ Size + 1 > a
    BY <1>1
  <2>3. \A x \in after : x = Size + 1 \/ x \in Next0(a, firsts)
    OBVIOUS
  <2>4. Size + 1 \in after
    OBVIOUS
  <2>. HIDE DEF after
  <2>5. \A x \in after : x \in Nat /\ x > a
    BY <1>1, <2>1, <2>2, <2>3
  <2>. QED
    BY <2>4, <2>5
<1>3. limit \in (a + 1)..(Size + 1) /\ \A b \in Next0(a, firsts) : limit <= b
  <2>. HIDE DEF after
  <2>1. limit \in after /\ \A x \in after : limit <= x
    BY <1>2, LeastOf
  <2>2. Size + 1 \in after /\ Next0(a, firsts) \subseteq after
    BY DEF after
  <2>. HIDE DEF limit
  <2>3. limit \in Nat /\ limit > a /\ limit <= Size + 1
    BY <1>2, <2>1, <2>2
  <2>4. \A b \in Next0(a, firsts) : limit <= b
    BY <2>1, <2>2 DEF limit
  <2>5. limit \in (a + 1)..(Size + 1)
    BY <1>1, <2>3
  <2>. QED
    BY <2>4, <2>5
<1>4. covered \in Nat
  <2>1. CASE a \in DOMAIN coverage
    <3>. DEFINE S == {a} \cup coverage[a]
    <3>1. S \in SUBSET (1..Size) /\ S # {}
      BY <1>1, <2>1 DEF Lines
    <3>. HIDE DEF S
    <3>2. MaxOf(S) \in S
      BY <1>1, <3>1, GreatestOf
    <3>3. covered = MaxOf(S) + 1
      BY <2>1 DEF S
    <3>4. \A x \in S : x \in Nat
      BY <1>1, <3>1
    <3>5. MaxOf(S) \in Nat
      BY <3>2, <3>4
    <3>. QED
      BY <3>3, <3>5
  <2>2. CASE a \notin DOMAIN coverage
    BY <1>1, <2>2
  <2>. QED
    BY <2>1, <2>2
<1>5. End(a, firsts) = IF covered > limit THEN limit
                       ELSE IF covered > a THEN covered
                       ELSE IF stops # {} THEN MinOf(stops) + 1 ELSE limit
  BY DEF End
<1>. HIDE DEF after, limit, covered
<1>6. stops # {} => MinOf(stops) \in a..(limit - 1)
  <2>1. stops \in SUBSET Nat /\ stops \subseteq a..(limit - 1)
    BY <1>1
  <2>. HIDE DEF stops
  <2>. QED
    BY <2>1, LeastOf
<1>. HIDE DEF stops
<1>7. End(a, firsts) \in (a + 1)..limit
  BY <1>1, <1>3, <1>4, <1>5, <1>6
<1>. HIDE DEF Next0
<1>8. End(a, firsts) \in Nat /\ a < End(a, firsts) /\ End(a, firsts) <= limit
  BY <1>1, <1>3, <1>7
<1>9. \A b \in Next0(a, firsts) : b \in Nat
  BY <1>1 DEF Next0, Lines
<1>. QED
  BY <1>1, <1>3, <1>8, <1>9

\* The steps after which what was walked through is the same.
LEMMA WalkStays ==
    ASSUME DiscoveryInv,
           UNCHANGED <<sample, heuristic, boundary, found, queued, worklist, coverage>>,
           start' = start \/ (start' = 0 /\ worklist = <<>>),
           phase' \in {"walk", "overlaps", "done"},
           phase' # "walk" => start' = 0 /\ queued = <<>>
    PROVE  DiscoveryInv'
<1>1. /\ SampleTrue' /\ Reach' = Reach /\ Known' = Known /\ Seeds' = Seeds
      /\ \A b : Names(b)' = Names(b)
      /\ \A b, seen : Follow(b, seen)' = Follow(b, seen)
  <2>1. SampleTrue /\ UNCHANGED <<sample, heuristic>>
    BY DEF DiscoveryInv, WalkTrue
  <2>. QED
    BY <2>1, SampleStays
<1>2. worklist = <<>> => Range(worklist) = {}
  BY DEF Range
<1>3. \A s \in DOMAIN coverage : Pending(s) \subseteq Pending(s)'
  BY <1>1, <1>2 DEF Pending
<1>4. \A s \in DOMAIN coverage : \A b \in coverage[s] :
         Names(b)' \subseteq boundary' /\ Range(Follow(b, {}))' \subseteq Pending(s)'
  BY <1>1, <1>3 DEF DiscoveryInv, WalkTrue
<1>5. \A s \in DOMAIN coverage : s \in coverage[s] \/ (s = start' /\ s \in Range(worklist'))
  BY <1>2 DEF DiscoveryInv, WalkTrue
<1>6. WalkTrue'
  BY <1>1, <1>4, <1>5 DEF DiscoveryInv, WalkTrue
<1>7. FoundTrue'
  BY <1>1 DEF DiscoveryInv, FoundTrue
<1>. QED
  BY <1>6, <1>7 DEF DiscoveryInv

\* No candidate starts within another one.
LEMMA NoneNested ==
    ASSUME DiscoveryInv
    PROVE  /\ found \subseteq Lines
           /\ \A a \in Lines : a \in DOMAIN coverage => coverage[a] \subseteq Lines
           /\ {p \in found \X found : p[1] < p[2] /\ p[2] < End(p[1], found)} = {}
<1>1. SampleTrue /\ Reach \subseteq Lines
  BY ReachKnown DEF DiscoveryInv, WalkTrue
<1>2. \A s \in DOMAIN coverage : coverage[s] \subseteq Lines
  BY <1>1 DEF DiscoveryInv, WalkTrue
<1>3. found \subseteq Lines
  <2>1. ASSUME NEW x \in found
        PROVE  x \in Lines
    <3>1. CASE x \in heuristic
      BY <1>1, <3>1 DEF SampleTrue
    <3>2. CASE x \notin heuristic
      <4>1. PICK s \in DOMAIN coverage : \E a \in coverage[s] : x \in Names(a)
        BY <2>1, <3>2 DEF DiscoveryInv, FoundTrue
      <4>2. PICK a \in coverage[s] : x \in Names(a)
        BY <4>1
      <4>3. a \in Lines
        BY <1>2, <4>1, <4>2
      <4>. QED
        BY <1>1, <4>2, <4>3, FollowKnown
    <3>. QED
      BY <3>1, <3>2
  <2>. QED
    BY <2>1
<1>4. ASSUME NEW p \in found \X found, p[1] < p[2], p[2] < End(p[1], found)
      PROVE  FALSE
  <2>. DEFINE a == p[1]
              b == p[2]
  <2>1. a \in Lines /\ b \in found /\ b \in Lines /\ a < b /\ b < End(a, found)
    BY <1>3, <1>4
  <2>. HIDE DEF a, b
  <2>2. End(a, found) \in (a + 1)..(Size + 1) /\ \A c \in Next0(a, found) : End(a, found) <= c
    BY <1>1, <1>2, <1>3, <2>1, EndKnown
  <2>3. b \in Next0(a, found)
    BY <2>1 DEF Next0
  <2>4. End(a, found) <= b /\ b < End(a, found) /\ b \in Int /\ End(a, found) \in Int
    BY <1>1, <2>1, <2>2, <2>3 DEF Lines
  <2>. QED
    BY <2>4
<1>. QED
  BY <1>2, <1>3, <1>4

LEMMA DiscoveryStep ==
    ASSUME DiscoveryInv, [DiscoveryNext]_discVars
    PROVE  DiscoveryInv'
<1>1. CASE UNCHANGED discVars
  BY <1>1, WalkStays DEF discVars, DiscoveryInv, WalkTrue
<1>2. CASE EndWalk
  BY <1>2, WalkStays DEF EndWalk, DiscoveryInv, WalkTrue
<1>3. CASE Walked
  BY <1>3, WalkStays DEF Walked, DiscoveryInv, WalkTrue
<1>4. CASE ResolveOverlaps
  <2>1. found' = found /\ phase' = "done"
    BY <1>4, NoneNested DEF ResolveOverlaps
  <2>2. /\ UNCHANGED <<sample, heuristic, boundary, queued, worklist, coverage>>
        /\ start' = start /\ start = 0 /\ queued = <<>>
    BY <1>4 DEF ResolveOverlaps, DiscoveryInv, WalkTrue
  <2>. QED
    BY <2>1, <2>2, WalkStays
<1>. QED
  BY <1>1, <1>2, <1>3, <1>4, NextSeedKeeps, VisitKeeps DEF DiscoveryNext

\* Once every start has been walked from, what was walked through is what is reached.
LEMMA WalkEnds ==
    ASSUME DiscoveryInv, phase = "done"
    PROVE  FunctionsFound
<1>. DEFINE covered == UNION {coverage[s] : s \in DOMAIN coverage}
<1>1. start = 0 /\ worklist = <<>> /\ queued = <<>> /\ SampleTrue
  BY DEF DiscoveryInv, WalkTrue
<1>2. Range(worklist) = {} /\ Range(queued) = {}
  BY <1>1 DEF Range
<1>3. \A x : x \in covered <=> \E s \in DOMAIN coverage : x \in coverage[s]
  OBVIOUS
<1>. HIDE DEF covered
<1>4. covered \subseteq Reach /\ DOMAIN coverage \subseteq covered /\ Seeds \subseteq covered /\ Reach \subseteq Lines
  BY <1>1, <1>2, <1>3, ReachKnown DEF DiscoveryInv, WalkTrue
<1>5. ASSUME NEW a \in covered, NEW b \in Onward(a)
      PROVE  b \in covered
  <2>1. PICK s \in DOMAIN coverage : a \in coverage[s]
    BY <1>3
  <2>2. Names(a) \subseteq boundary /\ Range(Follow(a, {})) \subseteq Pending(s)
    BY <2>1 DEF DiscoveryInv, WalkTrue
  <2>3. boundary \subseteq Known \cup DOMAIN coverage
    BY <1>2 DEF DiscoveryInv, WalkTrue
  <2>4. Pending(s) \subseteq (Known \ Seeds) \cup DOMAIN coverage \cup coverage[s]
    BY <1>2 DEF Pending
  <2>5. b \in DOMAIN coverage \cup coverage[s] \cup Seeds
    BY <2>2, <2>3, <2>4 DEF Onward
  <2>. QED
    BY <1>3, <1>4, <2>1, <2>5
<1>6. covered = Reach
  <2>1. covered \in SUBSET Lines /\ \A a \in covered : Onward(a) \subseteq covered
    BY <1>4, <1>5
  <2>2. Reach \subseteq covered
    BY <1>1, <1>4, <2>1, ReachKnown
  <2>. QED
    BY <1>4, <2>2
<1>7. found = heuristic \cup UNION {Names(a) : a \in Reach}
  <2>1. \A x : x \in UNION {Names(a) : a \in Reach} <=> \E a \in Reach : x \in Names(a)
    OBVIOUS
  <2>2. \A x : x \in found <=> x \in heuristic \/ \E a \in Reach : x \in Names(a)
    BY <1>3, <1>6 DEF DiscoveryInv, FoundTrue
  <2>. QED
    BY <2>1, <2>2
<1>8. WalkIsClosure
  BY <1>6, <1>7 DEF WalkIsClosure, covered
<1>9. Disjoint
  <2>1. Starts \subseteq Lines /\ Reported \subseteq Lines
    BY <1>1, NoneNested, SampleKnown DEF Starts, Reported
  <2>2. \A a \in Lines : a \in DOMAIN coverage => coverage[a] \subseteq Lines
    BY NoneNested
  <2>3. ASSUME NEW a \in Reported
        PROVE  /\ a < End(a, Starts) /\ End(a, Starts) <= Size + 1
               /\ \A b \in Next0(a, Starts) : End(a, Starts) <= b
    <3>1. a \in Lines /\ a \in Int /\ Size \in Nat
      BY <1>1, <2>1, SampleKnown DEF Lines
    <3>2. End(a, Starts) \in (a + 1)..(Size + 1) /\ \A b \in Next0(a, Starts) : End(a, Starts) <= b
      BY <1>1, <2>1, <2>2, <3>1, EndKnown
    <3>. QED
      BY <3>1, <3>2
  <2>. QED
    BY <2>3 DEF Disjoint
<1>. QED
  BY <1>8, <1>9 DEF FunctionsFound

\* Of every listing: when the discovery ends, what it walked through is what control
\* reaches from the seeds, the candidates are the starts that look like one and the
\* functions the lines reached name, and the functions do not overlap
\* (discover_functions, _walk_seed_functions, _resolve_candidate_overlaps).
THEOREM FunctionsAreFound == DiscoverySpec => []FunctionsFound
<1>1. DiscoveryInit => DiscoveryInv
  BY DiscoveryBegins
<1>2. DiscoveryInv /\ [DiscoveryNext]_discVars => DiscoveryInv'
  BY DiscoveryStep
<1>3. DiscoveryInv => FunctionsFound
  <2>1. CASE phase = "done"
    BY <2>1, WalkEnds
  <2>2. CASE phase # "done"
    BY <2>2 DEF FunctionsFound, WalkIsClosure, Disjoint
  <2>. QED
    BY <2>1, <2>2
<1>. QED
  BY <1>1, <1>2, <1>3, PTL DEF DiscoverySpec
=============================================================================
