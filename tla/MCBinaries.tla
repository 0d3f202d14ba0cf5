------------------------------ MODULE MCBinaries ------------------------------
(* DisasmCache, SimulatedLibc and StackFrames for TLC: what is stored of a    *)
(* binary, what an emulated run of it does in libc's place, and the frames of *)
(* its functions.  They share no state: a behaviour is one of one part, the   *)
(* others rest in a state of their own.                                       *)
EXTENDS DisasmCache, SimulatedLibc, StackFrames

VARIABLE part

dbVars == <<content, mapping, db, holder, tx, pc, ctx>>
allVars == <<part, dbVars, libcVars, frameVars>>

AnyOf(S) == CHOOSE x \in S : TRUE

DbRest ==
    /\ content = AnyOf(Content) /\ mapping = NoContent
    /\ db = NoRow /\ holder = NoProc /\ tx = NoRow
    /\ pc = [p \in Proc |-> "idle"] /\ ctx = [p \in Proc |-> NoContext]

LibcRest ==
    /\ libc = [stdin |-> <<>>, calls |-> 0] /\ memory = [a \in 1..Cells |-> Nul] /\ before = <<>>
    /\ stdinPos = 0 /\ syscallPos = 0 /\ handles = <<>> /\ heapNext = Heap
    /\ event = NoEvent /\ returned = 0 /\ delivered = <<>> /\ libcCalls = 0

FramesRest ==
    /\ abi = AnyOf(Abis) /\ adjust = 0 /\ known = TRUE /\ frameSize = 0 /\ anchor = NoPlace
    /\ stackEntries = <<>> /\ sp = 0 /\ fp = NoPlace /\ lowest = 0 /\ accesses = {}
    /\ allocated = FALSE /\ misread = FALSE /\ instructions = 0

\* One part starts, the others rest.
MCInit ==
    /\ part \in {"database", "libc", "frames"}
    /\ IF part = "database" THEN Init ELSE DbRest
    /\ IF part = "libc" THEN LibcInit ELSE LibcRest
    /\ IF part = "frames" THEN FramesInit ELSE FramesRest

\* The other parts rest.
Others ==
    /\ UNCHANGED part
    /\ IF part = "database" THEN TRUE ELSE UNCHANGED dbVars
    /\ IF part = "libc" THEN TRUE ELSE UNCHANGED libcVars
    /\ IF part = "frames" THEN TRUE ELSE UNCHANGED frameVars

MCNext ==
    \/ part = "database" /\ Others /\ Next
    \/ part = "libc" /\ Others /\ LibcNext
    \/ part = "frames" /\ Others /\ FramesNext

\* A started process is scheduled until it exits.
MCFairSpec ==
    /\ MCInit /\ [][MCNext]_allVars
    /\ \A p \in Proc : WF_allVars(part = "database" /\ Others /\ Step(p))

-----------------------------------------------------------------------------
(* The instances *)

ScanFor(c, width, assign, set, invert) ==
    [kind |-> "conv", conv |-> c, byte |-> Nul, width |-> width, assign |-> assign,
     set |-> set, invert |-> invert]
ScanText(k, b) ==
    [kind |-> k, conv |-> "", byte |-> b, width |-> 0, assign |-> FALSE, set |-> {}, invert |-> FALSE]

\* "%2s%[^\n]", "%*s %1s", a literal before "%2[...]%d", and "%d".
MCFormats ==
    {<<ScanFor("s", 2, TRUE, {}, FALSE), ScanFor("[", Unlimited, TRUE, {Newline}, TRUE)>>,
     <<ScanFor("s", Unlimited, FALSE, {}, FALSE), ScanText("white", Nul), ScanFor("s", 1, TRUE, {}, FALSE)>>,
     <<ScanText("literal", Small), ScanFor("[", 2, TRUE, {Small, Percent}, FALSE),
       ScanFor("d", Unlimited, TRUE, {}, FALSE)>>,
     <<ScanFor("d", Unlimited, TRUE, {}, FALSE)>>}

MCInput == <<Small, Small, Blank, Capital, Newline, Small, Percent>>

Emulated(m, in, files, pointers, lengths, kinds, n) ==
    [memory |-> m, stdin |-> in, files |-> files, formats |-> MCFormats, pointers |-> pointers,
     lengths |-> lengths, kinds |-> kinds, calls |-> n]

\* Copies that overlap, end inside or beyond the mapping, or never find a NUL; texts
\* with directives; the input by every function; a file by two handles.
MCLibcScopes ==
    {Emulated(m, <<>>, {}, {0, 1, 2, 4}, {0, 1, 2, 4}, {"copy"}, 2) :
        m \in {<<Small, Capital, Small, Nul, Percent, Percent>>,
               <<Small, Nul, Capital, Capital, Small, Capital>>}}
    \cup {Emulated(m, <<>>, {}, {0, 1, 3, 5}, {0, 1, 3}, {"fill", "look"}, 2) :
        m \in {<<Percent, Percent, Small, Nul, Capital, Nul>>,
               <<Small, Percent, Capital, Capital, Small, Nul>>}}
    \cup {Emulated([a \in 1..Cells |-> Small], MCInput, {}, {1, 4}, {1, 2, 3}, {"input", "scan"}, 3),
          Emulated([a \in 1..Cells |-> Small], MCInput, {}, {1, 6}, {1, 3}, {"input", "syscall"}, 3),
          Emulated([a \in 1..Cells |-> Small], <<>>, {MCInput}, {1, 4}, {2, 3}, {"file"}, 4)}

MCAbis ==
    [family : {"x86"}, win64 : BOOLEAN, r7 : {FALSE}] \cup [family : {"arm"}, win64 : {FALSE}, r7 : BOOLEAN]
    \cup [family : {"arm64", "riscv"}, win64 : {FALSE}, r7 : {FALSE}]
=============================================================================
