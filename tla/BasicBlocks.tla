----------------------------- MODULE BasicBlocks -----------------------------
(* The control-flow graph of a listing: build_cfg, build_cfg_for_function and *)
(* find_function_entry_for_addr of backends/static/disasm/cfg.py.             *)
(*                                                                          *)
(* A listing is the instructions 1..Length.  An instruction is its op, the    *)
(* address `to` its operand gives (0: a register or memory; Length + 1:       *)
(* outside the listing) and, for a switch, the entries read from its table.   *)
(* Reading the tables, the labels of the cases, the delay slots of MIPS, and   *)
(* the loads and additions that are switches on arm are left out.             *)
EXTENDS Integers, Sequences, FiniteSets, SequencesExt

CONSTANTS
    Length,         \* instructions of the listing
    Listings        \* the listings analysed

Instructions == 1..Length
Branches == {"jmp", "jcc", "call", "ret", "switch"}

ASSUME BlocksAssumption ==
    /\ Length \in Nat \ {0}
    /\ Listings \subseteq
         [Instructions -> [op : Branches \cup {"plain", "nop", "push"},
                           to : 0..(Length + 1), cases : SUBSET Instructions]]
    /\ \A c \in Listings, i \in Instructions : c[i].cases # {} => c[i].op = "switch"

VARIABLES
    code,           \* the listing
    starts,         \* block_starts
    cut,            \* i: the next line to put into a block
    blocks,         \* block_map: per first line, the last line and the successors
    asked,          \* the address of the request, 0 before it
    entry,          \* func_addr, 0 while it is looked for
    back,           \* visited of find_function_entry_for_addr
    shown,          \* visited of build_cfg_for_function
    stage           \* "cut", "entry", "function", then "answer"

blocksVars == <<code, starts, cut, blocks, asked, entry, back, shown, stage>>

IsBranch(i) == code[i].op \in Branches

\* The direct target of a branch (_is_branch).
Direct(i) == IF code[i].op \in {"jmp", "jcc", "call"} THEN {code[i].to} \ {0} ELSE {}

\* pending_push_target when a return is met: the address pushed last, nops and pushes
\* of something else between them.
PushTargets ==
    {code[i].to : i \in {j \in Instructions :
        /\ code[j].op = "push" /\ code[j].to # 0
        /\ \E ret \in (j + 1)..Length :
              /\ code[ret].op = "ret"
              /\ \A k \in (j + 1)..(ret - 1) : code[k].op = "nop" \/ (code[k].op = "push" /\ code[k].to = 0)}}

\* block_starts: the first line, the targets, and the line after each branch.
BlockStarts ==
    {1} \cup (UNION {Direct(i) : i \in Instructions}) \cup PushTargets
        \cup {i + 1 : i \in {j \in Instructions : IsBranch(j)}}

\* The last line of the block that starts at `first`.
LastOf(first) ==
    CHOOSE last \in first..Length :
        /\ IsBranch(last) \/ last = Length \/ last + 1 \in starts
        /\ \A i \in first..(last - 1) : ~IsBranch(i) /\ i + 1 \notin starts

\* push+ret: what the last push before the return gives, nops between them.
Pushed(first, ret) ==
    {code[i].to : i \in {j \in first..(ret - 1) :
                            /\ code[j].op = "push"
                            /\ \A k \in (j + 1)..(ret - 1) : code[k].op = "nop"}} \ {0}

\* The successors of a block: none unless a branch ends it.
Successors(first, last) ==
    LET new(s, S) == s \o SetToSeq(S \ Range(s))
        taken == new(SetToSeq(Direct(last)), code[last].cases)
        pushed == IF code[last].op = "ret" THEN new(taken, Pushed(first, last)) ELSE taken
    IN IF ~IsBranch(last) THEN <<>>
       ELSE IF code[last].op \in {"jmp", "switch", "ret"} \/ last = Length THEN pushed
       ELSE new(pushed, {last + 1})

\* Mutant: every edge of a block that calls is a call.
EdgeKindOfCalls(b, n) ==
    IF code[blocks[b].last].cases # {} THEN "jumptable"
    ELSE IF code[blocks[b].last].op = "call" THEN "call"
    ELSE "jmp"

\* The kind of the edge to the n-th successor.
EdgeKind(b, n) ==
    IF code[blocks[b].last].cases # {} THEN "jumptable"
    ELSE IF code[blocks[b].last].op = "call" /\ n = 1 THEN "call"
    ELSE IF Len(blocks[b].succ) = 2 /\ n = 2 THEN "fallthrough"
    ELSE "jmp"

\* The edges that are followed within a function.
Edges == {e \in (DOMAIN blocks) \X (1..(Length + 1)) :
             \E n \in DOMAIN blocks[e[1]].succ :
                blocks[e[1]].succ[n] = e[2] /\ EdgeKind(e[1], n) # "call"}

\* The edges that are followed towards the entry of a function.
EdgesBack == Edges

-----------------------------------------------------------------------------
BlocksInit ==
    /\ code \in Listings
    /\ starts = BlockStarts
    /\ cut = 1
    /\ blocks = [b \in {} |-> [last |-> 1, succ |-> <<>>]]
    /\ asked = 0 /\ entry = 0
    /\ back = {} /\ shown = {}
    /\ stage = "cut"

\* One block is cut off the listing.
Cut ==
    /\ stage = "cut" /\ cut <= Length
    /\ LET last == LastOf(cut) IN
       /\ blocks' = [b \in DOMAIN blocks \cup {cut} |->
                        IF b = cut THEN [last |-> last, succ |-> Successors(cut, last)]
                        ELSE blocks[b]]
       /\ cut' = last + 1
    /\ UNCHANGED <<code, starts, asked, entry, back, shown, stage>>

\* --function: the graph from a block; nothing when no block starts there.
AskFunction(a) ==
    /\ stage = "cut" /\ cut > Length
    /\ asked' = a /\ entry' = a
    /\ shown' = {a} \cap DOMAIN blocks
    /\ stage' = "function"
    /\ UNCHANGED <<code, starts, cut, blocks, back>>

Inside(b) == b..blocks[b].last

\* --addr: the graph of the function around a line.
AskAddress(a) ==
    /\ stage = "cut" /\ cut > Length
    /\ asked' = a
    /\ back' = {b \in DOMAIN blocks : a \in Inside(b)}
    /\ stage' = "entry"
    /\ UNCHANGED <<code, starts, cut, blocks, entry, shown>>

\* One round of the search backwards.
Ascend ==
    /\ stage = "entry"
    /\ back' = back \cup {e[1] : e \in {f \in EdgesBack : f[2] \in back}}
    /\ back' # back
    /\ UNCHANGED <<code, starts, cut, blocks, asked, entry, shown, stage>>

\* The entry is the lowest block without a predecessor, the block itself if all
\* have one.
FindEntry ==
    /\ stage = "entry"
    /\ \A e \in EdgesBack : e[2] \in back => e[1] \in back
    /\ LET roots == {b \in back : \A e \in EdgesBack : e[2] # b}
       IN entry' = IF roots # {} THEN CHOOSE b \in roots : \A r \in roots : b <= r
                   ELSE CHOOSE b \in back : asked \in Inside(b)
    /\ shown' = {entry'} \cap DOMAIN blocks
    /\ stage' = "function"
    /\ UNCHANGED <<code, starts, cut, blocks, asked, back>>

\* One round of the search from the entry.
Descend ==
    /\ stage = "function"
    /\ shown' = shown \cup ({e[2] : e \in {f \in Edges : f[1] \in shown}} \cap DOMAIN blocks)
    /\ shown' # shown
    /\ UNCHANGED <<code, starts, cut, blocks, asked, entry, back, stage>>

Show ==
    /\ stage = "function"
    /\ \A e \in Edges : e[1] \in shown /\ e[2] \in DOMAIN blocks => e[2] \in shown
    /\ stage' = "answer"
    /\ UNCHANGED <<code, starts, cut, blocks, asked, entry, back, shown>>

BlocksNext ==
    \/ Cut \/ Ascend \/ FindEntry \/ Descend \/ Show
    \/ \E a \in Instructions : AskFunction(a) \/ AskAddress(a)

BlocksSpec == BlocksInit /\ [][BlocksNext]_blocksVars

-----------------------------------------------------------------------------
(* Properties *)

\* The variables have their types.
BlocksTypeOK ==
    /\ DOMAIN code = Instructions
    /\ starts \subseteq 1..(Length + 1)
    /\ cut \in 1..(Length + 1)
    /\ \A b \in DOMAIN blocks :
          /\ b \in Instructions /\ blocks[b].last \in b..Length
          /\ Range(blocks[b].succ) \subseteq 1..(Length + 1)
    /\ asked \in 0..Length /\ entry \in 0..Length
    /\ back \subseteq DOMAIN blocks /\ shown \subseteq DOMAIN blocks
    /\ stage \in {"cut", "entry", "function", "answer"}

\* Every line cut is in exactly one block, and control enters a block only at its
\* first line: no direct branch, and no return of a pushed address, leads into the
\* middle of a block that is already cut.
BlocksPartition ==
    /\ \A i \in 1..(cut - 1) : Cardinality({b \in DOMAIN blocks : i \in Inside(b)}) = 1
    /\ \A b, c \in DOMAIN blocks :
          code[blocks[b].last].cases = {} =>
              \A s \in Range(blocks[b].succ) : s \notin (c + 1)..blocks[c].last

\* The graph shown for an address has the block of that address: what the search
\* backwards goes through leads forwards to where it began.
AddressShown ==
    stage = "answer" /\ back # {} => \E b \in shown : asked \in Inside(b)

\* What control does from a line, calls passed over.
Flow(i) ==
    LET next == IF i < Length THEN {i + 1} ELSE {}
    IN CASE code[i].op = "jmp" -> Direct(i)
         [] code[i].op = "jcc" -> Direct(i) \cup next
         [] code[i].op = "ret" -> {}
         [] code[i].op = "switch" -> code[i].cases
         [] OTHER -> next

\* Where the graph stops although control goes on: a block that ends because the next
\* line starts one has no edge to it.
Severed(i) == ~IsBranch(i) /\ i + 1 \in starts

FlowKept(i) == IF Severed(i) THEN {} ELSE Flow(i)

\* Where nothing else is missing: every call has a target of its own, every case starts
\* a block, and no address is pushed.
Complete ==
    \A i \in Instructions :
        /\ code[i].op = "call" => code[i].to \notin {0, i + 1}
        /\ code[i].op = "switch" => code[i].cases # {} /\ code[i].cases \subseteq starts
        /\ code[i].op # "push"

\* Of such a listing, the graph of a function is made of the lines control reaches
\* from its entry, calls passed over and but over the severed edges, and of no others:
\* it is the least set of lines that control does not leave otherwise.
FunctionIsFlow ==
    stage = "answer" /\ Complete /\ entry \in DOMAIN blocks =>
        LET lines == UNION {Inside(b) : b \in shown}
            closed(S) == entry \in S /\ \A i \in S : FlowKept(i) \cap Instructions \subseteq S
        IN closed(lines) /\ \A S \in SUBSET Instructions : closed(S) => lines \subseteq S

\* The blocks are a partition, an address is found in the graph it leads to, and that
\* graph is what control does but for the edges missing (build_cfg, find_function_entry_for_addr,
\* filter_cfg_for_function).
GraphsTold == BlocksPartition /\ AddressShown /\ FunctionIsFlow
=============================================================================
