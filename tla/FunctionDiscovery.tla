-------------------------- MODULE FunctionDiscovery --------------------------
(* The discovery of functions in a disassembly without symbols:              *)
(* discover_functions of backends/static/disasm/discover_functions.py, with   *)
(* its scan for prologues, its walk from the seeds, the resolution of         *)
(* overlaps and the estimate of the bounds.                                   *)
(*                                                                          *)
(* A program is a listing of one-byte instructions at 1..Size.  What the      *)
(* architecture's adapters tell of a line is its op: "prologue", "leave" (an  *)
(* epilogue), "plain", "ret", and "call", "jmp" or "jcc" with a direct target *)
(* `to`, 0 when the operand is a register or memory.  A thunk is a direct     *)
(* jump.  Names, confidences and scores of the candidates are left out: they  *)
(* choose between two candidates that overlap, and that choice is left open.  *)
EXTENDS Integers, Sequences, FiniteSets, SequencesExt

CONSTANTS
    Size,           \* instructions of the listing
    Samples         \* what is analysed: code, known functions, hints

Lines == 1..Size
Ops == {"prologue", "leave", "plain", "ret", "call", "jmp", "jcc"}

ASSUME DiscoveryAssumption ==
    /\ Size \in Nat \ {0}
    /\ Samples \subseteq [code : [Lines -> [op : Ops, to : 0..Size]],
                          known : SUBSET Lines, hints : SUBSET Lines]

VARIABLES
    sample,         \* the listing, the known functions and the binary's hints
    heuristic,      \* heuristic_candidates
    boundary,       \* known_boundaries
    found,          \* the addresses of the candidates
    queued,         \* starts still to be walked from
    start,          \* the start of the walk that is going on, 0 between two
    worklist,       \* of that walk
    coverage,       \* per start, the addresses its walk has visited
    phase           \* "walk", then "overlaps", then "done"

discVars == <<sample, heuristic, boundary, found, queued, start, worklist, coverage, phase>>

Op(a) == sample.code[a].op
To(a) == sample.code[a].to
Known == sample.known
Hints == sample.hints

MinOf(S) == CHOOSE x \in S : \A y \in S : x <= y
MaxOf(S) == CHOOSE x \in S : \A y \in S : x >= y

\* sorted
Ordered(S) ==
    CHOOSE s \in [1..Cardinality(S) -> S] :
        Range(s) = S /\ \A i, j \in DOMAIN s : i < j => s[i] < s[j]

-----------------------------------------------------------------------------
(* _scan_heuristic_starts *)

Thunk(a) == Op(a) = "jmp" /\ To(a) # 0

\* An address between two functions the binary names.
InGap(a) == \E lo, hi \in Known \cup Hints : lo < a /\ a < hi /\ a \notin Known \cup Hints

\* A start is hinted, or it looks like one where a function may begin: after one
\* that ended, first in the listing or in a gap.
MayStart(a, ended) ==
    /\ a \notin Known
    /\ \/ a \in Hints
       \/ (Op(a) = "prologue" \/ Thunk(a)) /\ (ended \/ a = 1 \/ InGap(a))

\* Whether the line before the one scanned ended a function.
Ended[a \in 0..Size] ==
    a = 0 \/ (a \notin Known /\ ~MayStart(a, Ended[a - 1]) /\ Op(a) \in {"ret", "jmp"})

HeuristicStarts == {a \in Lines : MayStart(a, Ended[a - 1])}

Seeds == Hints \cup heuristic \cup {1}

DiscoveryInit ==
    /\ sample \in Samples
    /\ heuristic = HeuristicStarts
    /\ boundary = Known \cup Hints \cup heuristic
    /\ found = heuristic
    /\ queued = Ordered(Seeds)
    /\ start = 0 /\ worklist = <<>>
    /\ coverage = [a \in {} |-> {}]
    /\ phase = "walk"

-----------------------------------------------------------------------------
(* _walk_seed_functions *)

EpilogueBefore(a) == \E b \in Lines : b \in (a - 3)..(a - 1) /\ Op(b) = "leave"

\* _is_tail_call_candidate: a jump after an epilogue to what looks like a start,
\* or any jump to a hint.
TailCall(a) ==
    /\ Op(a) = "jmp" /\ To(a) # 0
    /\ \/ To(a) \in Hints
       \/ EpilogueBefore(a) /\ (Op(To(a)) = "prologue" \/ Thunk(To(a)))

\* The functions a line names.
Names(a) == IF (Op(a) = "call" /\ To(a) # 0) \/ TailCall(a) THEN {To(a)} ELSE {}

\* Where the walk goes on, in the order of the work list: addresses not seen yet.
Unseen(a, seen) == IF a \in Lines \ seen THEN <<a>> ELSE <<>>

Follow(a, seen) ==
    LET next == Unseen(a + 1, seen)
        target == Unseen(To(a), seen)
    IN CASE Op(a) = "ret" -> <<>>
         [] Op(a) = "jmp" -> IF TailCall(a) THEN <<>> ELSE target
         [] Op(a) = "jcc" -> target \o next
         [] OTHER -> next

\* The next start is taken; one that was walked from already is skipped.
NextSeed ==
    /\ phase = "walk" /\ start = 0 /\ queued # <<>>
    /\ queued' = Tail(queued)
    /\ IF Head(queued) \in DOMAIN coverage
       THEN UNCHANGED <<start, worklist, coverage>>
       ELSE /\ start' = Head(queued)
            /\ worklist' = <<Head(queued)>>
            /\ coverage' = [s \in DOMAIN coverage \cup {start'} |->
                               IF s = start' THEN {} ELSE coverage[s]]
    /\ UNCHANGED <<sample, heuristic, boundary, found, phase>>

\* Mutant: an address that starts a function is walked through.
VisitThrough ==
    /\ worklist # <<>>
    /\ LET a == Head(worklist)
           new == Names(a) \ boundary
       IN IF a \in coverage[start]
          THEN worklist' = Tail(worklist) /\ UNCHANGED <<boundary, found, queued, coverage>>
          ELSE /\ coverage' = [coverage EXCEPT ![start] = @ \cup {a}]
               /\ found' = found \cup Names(a)
               /\ boundary' = boundary \cup new
               /\ queued' = queued \o SetToSeq(new)
               /\ worklist' = Tail(worklist) \o Follow(a, coverage[start] \cup {a})
    /\ UNCHANGED <<sample, heuristic, start, phase>>

\* One address of the work list: visited unless it was, or starts another
\* function.  A function it names becomes a candidate, and a start if it was none.
Visit ==
    /\ worklist # <<>>
    /\ LET a == Head(worklist)
           skip == a \in coverage[start] \/ (a # start /\ a \in boundary)
           new == Names(a) \ boundary
       IN IF skip
          THEN worklist' = Tail(worklist) /\ UNCHANGED <<boundary, found, queued, coverage>>
          ELSE /\ coverage' = [coverage EXCEPT ![start] = @ \cup {a}]
               /\ found' = found \cup Names(a)
               /\ boundary' = boundary \cup new
               /\ queued' = queued \o SetToSeq(new)
               /\ worklist' = Tail(worklist) \o Follow(a, coverage[start] \cup {a})
    /\ UNCHANGED <<sample, heuristic, start, phase>>

EndWalk ==
    /\ start # 0 /\ worklist = <<>>
    /\ start' = 0
    /\ UNCHANGED <<sample, heuristic, boundary, found, queued, worklist, coverage, phase>>

Walked ==
    /\ phase = "walk" /\ start = 0 /\ queued = <<>>
    /\ phase' = "overlaps"
    /\ UNCHANGED <<sample, heuristic, boundary, found, queued, start, worklist, coverage>>

-----------------------------------------------------------------------------
(* _estimate_function_bounds: one past the last address of a function *)

Next0(a, starts) == {b \in starts : b > a}

\* With a walk, one past what it covered; without, one past the first return or
\* direct jump; at most the next start.
End(a, starts) ==
    LET limit == MinOf({Size + 1} \cup Next0(a, starts))
        stops == {b \in a..(limit - 1) : Op(b) = "ret" \/ Thunk(b)}
        covered == IF a \in DOMAIN coverage THEN MaxOf({a} \cup coverage[a]) + 1 ELSE a
    IN IF covered > limit THEN limit
       ELSE IF covered > a THEN covered
       ELSE IF stops # {} THEN MinOf(stops) + 1 ELSE limit

\* _resolve_candidate_overlaps: while a candidate starts within another one, one
\* of the two is removed.
ResolveOverlaps ==
    /\ phase = "overlaps"
    /\ LET nested == {p \in found \X found : p[1] < p[2] /\ p[2] < End(p[1], found)}
       IN /\ found' \in IF nested = {} THEN {found}
                        ELSE {found \ {loser} : loser \in UNION {{p[1], p[2]} : p \in nested}}
          /\ phase' = IF nested = {} THEN "done" ELSE phase
    /\ UNCHANGED <<sample, heuristic, boundary, queued, start, worklist, coverage>>

DiscoveryNext == NextSeed \/ Visit \/ EndWalk \/ Walked \/ ResolveOverlaps

DiscoverySpec == DiscoveryInit /\ [][DiscoveryNext]_discVars

\* What is returned: the candidates that were not known, with their ends.
Starts == Known \cup Hints \cup found
Reported == found \ Known

-----------------------------------------------------------------------------
(* Properties *)

\* The variables have their types.
DiscoveryTypeOK ==
    /\ sample.code \in [Lines -> [op : Ops, to : 0..Size]]
    /\ heuristic \subseteq Lines
    /\ boundary \subseteq Lines /\ found \subseteq Lines
    /\ Range(queued) \subseteq Lines /\ Range(worklist) \subseteq Lines
    /\ start \in 0..Size
    /\ \A s \in DOMAIN coverage : s \in Lines /\ coverage[s] \subseteq Lines
    /\ phase \in {"walk", "overlaps", "done"}

\* Where control goes from a line: on, and into the functions it names, but into no
\* known function that is not a seed.
Onward(a) == {b \in Range(Follow(a, {})) \cup Names(a) : b \notin Known \/ b \in Seeds}

\* The lines that control reaches from the seeds: those in every set of lines that has
\* the seeds and that control does not leave.
Reach ==
    {a \in Lines : \A S \in SUBSET Lines : Seeds \subseteq S /\ (\A b \in S : Onward(b) \subseteq S) => a \in S}

\* The walk finds what control reaches, whatever the order in which seeds are
\* taken and boundaries appear: every line reached is covered by the walk from
\* some start and no other line is, and in the end the candidates are the
\* heuristic starts and the functions that a line reached names, none of them
\* lost to the resolution of overlaps.
WalkIsClosure ==
    phase = "done" =>
        /\ UNION {coverage[s] : s \in DOMAIN coverage} = Reach
        /\ found = heuristic \cup UNION {Names(a) : a \in Reach}

\* The functions reported, and those known, follow each other without overlap:
\* each ends after it starts and no later than the next one starts.
Disjoint ==
    phase = "done" =>
        \A a \in Reported :
            /\ a < End(a, Starts) /\ End(a, Starts) <= Size + 1
            /\ \A b \in Next0(a, Starts) : End(a, Starts) <= b

\* The functions are all that control reaches, and do not overlap
\* (discover_functions, from the walk to the resolution of overlaps).
FunctionsFound == WalkIsClosure /\ Disjoint
=============================================================================
