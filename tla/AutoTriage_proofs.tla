-------------------------- MODULE AutoTriage_proofs --------------------------
(***************************************************************************)
(* What AutoTriage and the store of Annotations keep for any number of     *)
(* binaries, contents, functions, commands and runs, however the webview,  *)
(* the host, the processes and the user's commands interleave.             *)
(***************************************************************************)
EXTENDS AutoTriage, TLAPS

-----------------------------------------------------------------------------
(***************************************************************************)
(* What the parties know of one run, each on its own.                      *)
(***************************************************************************)
RunOK(r) ==
    /\ run[r].pc \in Open => run[r].bin \in Binaries
    /\ run[r].pc \in {"analyzing", "writing"} => run[r].fn \in Functions
    /\ run[r].pc = "writing" => run[r].slots # {}
    /\ run[r].pc = "idle" => run[r] = NoRunYet
    /\ run[r].pc = "asking" => run[r].pressed # "late" /\ run[r].touched = {}
    /\ run[r].orphan => run[r].pc \in Live

CommandOK(c) ==
    /\ cmd[c].op \notin {"idle", "done"} => cmd[c].bin \in Binaries
    /\ cmd[c].at # NoVersion => cmd[c].op \notin {"idle", "done"}

\* A run that can be cancelled has not been, and leaves no flag.
Cancellable(r) ==
    r \in registry => /\ ~run[r].orphan /\ run[r].pc # "asking"
                      /\ run[r].pressed # "late" /\ r \notin flags

\* The panel shows the runs it has not lost.
ShownInv ==
    /\ \A b \in Binaries : shown[b] # NoRun =>
          Followed(shown[b]) /\ run[shown[b]].bin = b
    /\ \A r \in Runs : Followed(r) => shown[run[r].bin] = r

\* Nothing is written after a cancel or a reload but to a function that is owed.
OwedInv(r) ==
    /\ run[r].pc \in Open /\ ~run[r].orphan /\ r \notin flags => run[r].touched = {}
    /\ run[r].pc = "writing" /\ (r \in flags \/ run[r].orphan) => run[r].fn \in run[r].owed
    /\ run[r].pc = "analyzing" /\ run[r].orphan /\ r \notin flags
          => run[r].fn \in run[r].owed

\* Whoever was refused holds the lock.
RefusedInv == \A r \in Runs : run[r].refused # {} => writer = r

\* What a person typed is nothing a review or an import decides upon, unless it was
\* typed since it listed the rows.
ReviewInv ==
    \A c \in Commands : \A s \in cmd[c].todo :
        cmd[c].op \in Listing /\ cmd[c].seen \in Versions
           => notes[cmd[c].seen][s] # "typed" \/ s \in cmd[c].late

TriageInv ==
    /\ \A r \in Runs : RunOK(r) /\ Cancellable(r) /\ OwedInv(r)
    /\ \A c \in Commands : CommandOK(c)
    /\ RunsTracked /\ ShownInv
    /\ StopsWriting
    /\ RefusedInv /\ LockAfterRefusal
    /\ ReviewInv

-----------------------------------------------------------------------------
(* Types. *)

LEMMA RunFields ==
    ASSUME TypeOK, NEW r \in Runs
    PROVE  /\ run[r] \in Run
           /\ run[r].pc \in Open \cup {"idle", "closed"}
           /\ run[r].bin \in Binaries \cup {NoBinary}
           /\ run[r].todo \subseteq Functions
           /\ run[r].fn \in Functions \cup {NoFunction}
           /\ run[r].slots \subseteq Kinds
           /\ run[r].at \in Versions \cup {NoVersion}
           /\ run[r].orphan \in BOOLEAN /\ run[r].lost \in BOOLEAN
           /\ run[r].pressed \in {"no", "early", "late"}
           /\ run[r].owed \subseteq Functions /\ run[r].touched \subseteq Functions
           /\ run[r].refused \subseteq Versions \X Slots
  BY DEF TypeOK, Run

LEMMA ClosedTyped ==
    /\ NoRunYet \in Run /\ Closed \in Run
    /\ Closed.pc = "closed" /\ ~Closed.orphan /\ Closed.touched = {} /\ Closed.owed = {}
    /\ Closed.refused = {} /\ Closed.fn = NoFunction
    /\ ~NoRunYet.orphan /\ ~NoRunYet.lost /\ NoRunYet.pressed = "no" /\ NoRunYet.pc = "idle"
    /\ NoRunYet.touched = {} /\ NoRunYet.owed = {} /\ NoRunYet.refused = {}
    /\ NoRunYet.fn = NoFunction
  BY DEF NoRunYet, Closed, Run

LEMMA CommandFields ==
    ASSUME TypeOK, NEW c \in Commands
    PROVE  /\ cmd[c] \in Command
           /\ cmd[c].op \in {"idle", "annotate", "erase", "wipe", "reject", "validate",
                             "import", "done"}
           /\ cmd[c].bin \in Binaries \cup {NoBinary}
           /\ cmd[c].at \in Versions \cup {NoVersion}
           /\ cmd[c].todo \subseteq Slots
           /\ cmd[c].seen \in Versions \cup {NoVersion}
           /\ cmd[c].late \subseteq Slots
  BY DEF TypeOK, Command

LEMMA OverTyped ==
    /\ NoCommand \in Command /\ Over \in Command
    /\ NoCommand.op = "idle" /\ NoCommand.at = NoVersion
    /\ Over.op = "done" /\ Over.at = NoVersion /\ Over.todo = {}
  BY DEF NoCommand, Over, Command

\* Runs and commands are told apart by their names.
LEMMA Writers ==
    /\ NoWriter \notin Runs /\ NoWriter \notin Commands
    /\ NoRun \notin Runs
    /\ \A r \in Runs : r \notin Commands
  BY NoWriterIsNoRun, NoWriterAssumption, RunsAreNotCommands DEF NoRun, Runs

\* What the cancel button does to a run: nothing but to note that it was pressed.
LEMMA PressedRun ==
    ASSUME TypeOK, NEW rs, NEW r \in Runs, RunOK(r)
    PROVE  LET u == Pressed(rs)[r]
               hit == r \in rs /\ run[r].pressed # "late"
           IN /\ u \in Run
              /\ u.pc = run[r].pc /\ u.bin = run[r].bin /\ u.todo = run[r].todo
              /\ u.fn = run[r].fn /\ u.slots = run[r].slots /\ u.at = run[r].at
              /\ u.orphan = run[r].orphan /\ u.lost = run[r].lost
              /\ u.touched = run[r].touched /\ u.refused = run[r].refused
              /\ u.pressed = IF hit THEN IF r \in registry THEN "late" ELSE "early"
                             ELSE run[r].pressed
              /\ u.owed = IF hit /\ r \in registry THEN InHand(r, {"writing"})
                          ELSE run[r].owed
              /\ ~hit => u = run[r]
<1>1. InHand(r, {"writing"}) \subseteq Functions
  BY DEF InHand, RunOK
<1> DEFINE owed == IF r \in registry THEN InHand(r, {"writing"}) ELSE run[r].owed
           pressed == IF r \in registry THEN "late" ELSE "early"
           u == [run[r] EXCEPT !.pressed = pressed, !.owed = owed]
<1>2. Pressed(rs)[r] = IF r \in rs /\ run[r].pressed # "late" THEN u ELSE run[r]
  BY DEF Pressed
<1>3. owed \subseteq Functions /\ pressed \in {"late", "early"}
  BY <1>1, RunFields
<1>4. /\ u \in Run /\ u.pressed = pressed /\ u.owed = owed
      /\ u.pc = run[r].pc /\ u.bin = run[r].bin /\ u.todo = run[r].todo
      /\ u.fn = run[r].fn /\ u.slots = run[r].slots /\ u.at = run[r].at
      /\ u.orphan = run[r].orphan /\ u.lost = run[r].lost
      /\ u.touched = run[r].touched /\ u.refused = run[r].refused
  <2> HIDE DEF owed, pressed
  <2>1. QED
    BY <1>3, RunFields DEF Run
<1>5. QED
  BY <1>2, <1>4, RunFields

-----------------------------------------------------------------------------
(* A process walks: it stays alive, and what the host knows of it stays.       *)

\* What a step of the process leaves of its run.
SameRun(u, r) ==
    /\ u.bin = run[r].bin /\ u.orphan = run[r].orphan /\ u.pressed = run[r].pressed
    /\ u.lost = run[r].lost /\ u.owed = run[r].owed

Walks(r) ==
    /\ run' \in [Runs -> Run]
    /\ \A q \in Runs \ {r} : run'[q] = run[q]
    /\ run[r].pc \in Live /\ run'[r].pc \in Live \ {"tools"}
    /\ SameRun(run'[r], r)
    /\ RunOK(r)'
    /\ UNCHANGED <<content, scope, cmd, shown, active, registry, timers, flags>>

\* ... and, unless it writes, leaves the notes alone.
WalksQuietly(r) ==
    /\ Walks(r)
    /\ run'[r].touched = run[r].touched /\ run'[r].refused = run[r].refused
    /\ run'[r].pc = "writing" =>
          /\ run'[r].fn = run[r].fn
          /\ run[r].pc = "writing" \/ (run[r].pc = "analyzing" /\ r \notin flags)
    /\ run'[r].pc = "analyzing" => ~run[r].orphan
    /\ UNCHANGED <<notes, writer>>

LEMMA LiveOpen ==
    /\ Live \subseteq Open /\ {"asking", "unspawned", "ended"} \subseteq Open
    /\ Live \cap {"asking", "unspawned", "ended"} = {}
    /\ "idle" \notin Open /\ "closed" \notin Open
    /\ {"tools", "loop", "analyzing", "writing", "summary"} = Live
  BY DEF Live, Open

LEMMA OneRun ==
    ASSUME TypeOK, NEW r \in Runs, NEW u \in Run, run' = [run EXCEPT ![r] = u]
    PROVE  /\ run' \in [Runs -> Run] /\ run'[r] = u
           /\ \A q \in Runs \ {r} : run'[q] = run[q]
  BY DEF TypeOK

LEMMA WalkTo ==
    ASSUME TypeOK, NEW r \in Runs, RunOK(r), NEW u \in Run, run' = [run EXCEPT ![r] = u],
           run[r].pc \in Live, u.pc \in Live \ {"tools"}, SameRun(u, r),
           u.pc \in {"analyzing", "writing"} => u.fn \in Functions,
           u.pc = "writing" => u.slots # {},
           UNCHANGED <<content, scope, cmd, shown, active, registry, timers, flags>>
    PROVE  Walks(r) /\ run'[r] = u
<1>1. /\ run' \in [Runs -> Run] /\ run'[r] = u
      /\ \A q \in Runs \ {r} : run'[q] = run[q]
  BY OneRun
<1>2. RunOK(r)'
  BY <1>1, LiveOpen DEF RunOK, SameRun
<1>3. QED
  BY <1>1, <1>2 DEF Walks

LEMMA SelectWalks ==
    ASSUME TypeOK, NEW r \in Runs, RunOK(r), Select(r)
    PROVE  WalksQuietly(r)
<1> DEFINE todo == {f \in scope.functions : \E k \in Kinds :
                       notes[content[run[r].bin]][<<f, k>>] = "none"}
           u == [run[r] EXCEPT !.pc = "loop", !.todo = todo]
<1>1. /\ run[r].pc = "tools" /\ run' = [run EXCEPT ![r] = u]
      /\ UNCHANGED <<content, scope, notes, writer, cmd, shown, active, registry, timers, flags>>
  BY DEF Select, Quietly, annVars, host
<1>2. run[r] \in Run /\ todo \in SUBSET Functions
  BY RunFields DEF TypeOK, Scope
<1> HIDE DEF todo
<1>3. u \in Run /\ u.pc = "loop" /\ SameRun(u, r)
      /\ u.touched = run[r].touched /\ u.refused = run[r].refused
  BY <1>2 DEF Run, SameRun, Open, Live
<1> HIDE DEF u
<1>4. Walks(r) /\ run'[r] = u
  BY <1>1, <1>3, LiveOpen, WalkTo
<1>5. QED
  BY <1>1, <1>3, <1>4 DEF WalksQuietly

LEMMA TakeWalks ==
    ASSUME TypeOK, NEW r \in Runs, RunOK(r), Take(r)
    PROVE  WalksQuietly(r)
<1> DEFINE u(f) == [run[r] EXCEPT !.pc = "analyzing", !.fn = f, !.todo = run[r].todo \ {f}]
<1>1. PICK f \in run[r].todo : run' = [run EXCEPT ![r] = u(f)]
  BY DEF Take
<1>2. /\ run[r].pc = "loop" /\ ~run[r].orphan
      /\ UNCHANGED <<content, scope, notes, writer, cmd, shown, active, registry, timers, flags>>
  BY DEF Take, Quietly, annVars, host
<1>3. run[r] \in Run /\ f \in Functions
  BY RunFields
<1>4. u(f) \in Run /\ u(f).pc = "analyzing" /\ u(f).fn = f /\ SameRun(u(f), r)
      /\ u(f).touched = run[r].touched /\ u(f).refused = run[r].refused
  BY <1>3 DEF Run, SameRun, Open, Live
<1> HIDE DEF u
<1>5. Walks(r) /\ run'[r] = u(f)
  BY <1>1, <1>2, <1>3, <1>4, LiveOpen, WalkTo
<1>6. QED
  BY <1>2, <1>4, <1>5 DEF WalksQuietly

LEMMA StopWalks ==
    ASSUME TypeOK, NEW r \in Runs, RunOK(r), Stop(r)
    PROVE  WalksQuietly(r)
<1> DEFINE u == [run[r] EXCEPT !.pc = "summary", !.todo = {}]
<1>1. /\ run[r].pc = "loop" /\ run' = [run EXCEPT ![r] = u]
      /\ UNCHANGED <<content, scope, notes, writer, cmd, shown, active, registry, timers, flags>>
  BY DEF Stop, Quietly, annVars, host
<1>2. run[r] \in Run
  BY RunFields
<1>3. u \in Run /\ u.pc = "summary" /\ SameRun(u, r)
      /\ u.touched = run[r].touched /\ u.refused = run[r].refused
  BY <1>2 DEF Run, SameRun, Open, Live
<1> HIDE DEF u
<1>4. Walks(r) /\ run'[r] = u
  BY <1>1, <1>3, LiveOpen, WalkTo
<1>5. QED
  BY <1>1, <1>3, <1>4 DEF WalksQuietly

LEMMA AnswerWalks ==
    ASSUME TypeOK, NEW r \in Runs, RunOK(r), Answer(r)
    PROVE  WalksQuietly(r)
<1> DEFINE told == [run[r] EXCEPT !.pc = "summary", !.fn = NoFunction, !.todo = {}]
           pc(slots) == IF slots = {} THEN "loop" ELSE "writing"
           fn(slots) == IF slots = {} THEN NoFunction ELSE run[r].fn
           u(slots) == [run[r] EXCEPT !.pc = pc(slots), !.fn = fn(slots), !.slots = slots]
<1>1. /\ run[r].pc = "analyzing" /\ run[r].fn \in Functions /\ run[r] \in Run
      /\ UNCHANGED <<content, scope, notes, writer, cmd, shown, active, registry, timers, flags>>
  BY RunFields DEF Answer, Quietly, annVars, host, RunOK
<1>2. CASE run' = [run EXCEPT ![r] = told]
  <2>1. told \in Run /\ told.pc = "summary" /\ SameRun(told, r)
        /\ told.touched = run[r].touched /\ told.refused = run[r].refused
    BY <1>1 DEF Run, SameRun, Open, Live
  <2> HIDE DEF told
  <2>2. Walks(r) /\ run'[r] = told
    BY <1>1, <1>2, <2>1, LiveOpen, WalkTo
  <2>3. QED
    BY <1>1, <2>1, <2>2 DEF WalksQuietly
<1>3. ASSUME r \notin flags, NEW slots \in SUBSET Kinds, run' = [run EXCEPT ![r] = u(slots)]
      PROVE  WalksQuietly(r)
  <2>1. pc(slots) \in {"loop", "writing"} /\ fn(slots) \in Functions \cup {NoFunction}
        /\ (pc(slots) = "writing" => fn(slots) = run[r].fn /\ slots # {})
    BY <1>1
  <2> HIDE DEF pc, fn
  <2>2. /\ u(slots) \in Run /\ u(slots).pc = pc(slots) /\ u(slots).fn = fn(slots)
        /\ u(slots).slots = slots /\ SameRun(u(slots), r)
        /\ u(slots).touched = run[r].touched /\ u(slots).refused = run[r].refused
    BY <1>1, <2>1 DEF Run, SameRun, Open, Live
  <2> HIDE DEF u
  <2>3. Walks(r) /\ run'[r] = u(slots)
    BY <1>1, <1>3, <2>1, <2>2, LiveOpen, WalkTo
  <2>4. QED
    BY <1>1, <1>3, <2>1, <2>2, <2>3 DEF WalksQuietly
<1>4. CASE r \in flags
  BY <1>2, <1>4 DEF Answer
<1>5. CASE r \notin flags
  <2>1. PICK slots \in SUBSET Kinds : run' = [run EXCEPT ![r] = u(slots)]
    BY <1>5 DEF Answer
  <2>2. QED
    BY <1>3, <1>5, <2>1
<1>6. QED
  BY <1>4, <1>5

LEMMA HashWalks ==
    ASSUME TypeOK, NEW r \in Runs, RunOK(r), HashAi(r)
    PROVE  WalksQuietly(r)
<1> DEFINE v == content[run[r].bin]
           u == [run[r] EXCEPT !.at = v]
<1>1. /\ run[r].pc = "writing" /\ run' = [run EXCEPT ![r] = u]
      /\ UNCHANGED <<content, scope, notes, writer, cmd, shown, active, registry, timers, flags>>
  BY DEF HashAi, Quietly, annVars, host
<1>2. run[r] \in Run /\ v \in Versions /\ run[r].fn \in Functions /\ run[r].slots # {}
  BY <1>1, RunFields, LiveOpen DEF RunOK, TypeOK
<1> HIDE DEF v
<1>3. u \in Run /\ u.pc = "writing" /\ SameRun(u, r) /\ u.fn = run[r].fn
      /\ u.slots = run[r].slots
      /\ u.touched = run[r].touched /\ u.refused = run[r].refused
  BY <1>1, <1>2 DEF Run, SameRun, Open, Live
<1> HIDE DEF u
<1>4. Walks(r) /\ run'[r] = u
  BY <1>1, <1>2, <1>3, LiveOpen, WalkTo
<1>5. QED
  BY <1>1, <1>3, <1>4 DEF WalksQuietly

\* rest is what is left to write once the kind in hand is written.
LEMMA WriteWalks ==
    ASSUME TypeOK, NEW r \in Runs, RunOK(r), WriteAi(r)
    PROVE  LET s == <<run[r].fn, NextKind(r)>> IN
           /\ Walks(r)
           /\ run[r].pc = "writing" /\ run[r].at \in Versions /\ s \in Slots
           /\ SaveAi(r, run[r].at, s)
           /\ run'[r].pc # "analyzing"
           /\ run'[r].pc = "writing" => run'[r].fn = run[r].fn
           /\ run'[r].touched = IF r \in flags \/ run[r].orphan
                                THEN run[r].touched \cup {run[r].fn} ELSE run[r].touched
           /\ run'[r].refused = IF writer' = r THEN run[r].refused \cup {<<run[r].at, s>>}
                                ELSE {}
<1> DEFINE s == <<run[r].fn, NextKind(r)>>
           rest == run[r].slots \ {NextKind(r)}
           pc == IF rest = {} THEN "loop" ELSE "writing"
           fn == IF rest = {} THEN NoFunction ELSE run[r].fn
           refused == IF writer' = r THEN run[r].refused \cup {<<run[r].at, s>>} ELSE {}
           touched == IF r \in flags \/ run[r].orphan
                      THEN run[r].touched \cup {run[r].fn} ELSE run[r].touched
           u == [run[r] EXCEPT !.at = NoVersion, !.slots = rest, !.pc = pc, !.fn = fn,
                               !.refused = refused, !.touched = touched]
<1>1. /\ run[r].pc = "writing" /\ run[r].at # NoVersion /\ run' = [run EXCEPT ![r] = u]
      /\ SaveAi(r, run[r].at, s)
      /\ UNCHANGED <<content, scope, cmd, shown, active, registry, timers, flags>>
  BY DEF WriteAi, host
<1>2. run[r] \in Run /\ run[r].fn \in Functions /\ run[r].at \in Versions
      /\ NextKind(r) \in Kinds
  BY <1>1, RunFields DEF RunOK, NextKind, Kinds
<1>3. s \in Slots
  BY <1>2 DEF Slots
<1>4. /\ rest \subseteq Kinds /\ pc \in {"loop", "writing"} /\ fn \in Functions \cup {NoFunction}
      /\ (pc = "writing" => rest # {} /\ fn = run[r].fn)
  BY <1>2, RunFields
<1>5. refused \subseteq Versions \X Slots
  BY <1>2, <1>3, RunFields
<1>6. touched \subseteq Functions
  BY <1>2, RunFields
<1> HIDE DEF s, rest, pc, fn, refused, touched
<1>7. /\ u \in Run /\ u.pc = pc /\ u.fn = fn /\ u.slots = rest /\ SameRun(u, r)
      /\ u.touched = touched /\ u.refused = refused
  BY <1>2, <1>4, <1>5, <1>6 DEF Run, SameRun, Open, Live
<1> HIDE DEF u
<1>8. Walks(r) /\ run'[r] = u
  BY <1>1, <1>2, <1>4, <1>7, LiveOpen, WalkTo
<1>9. /\ Walks(r) /\ run[r].pc = "writing" /\ run[r].at \in Versions /\ s \in Slots
      /\ SaveAi(r, run[r].at, s)
      /\ run'[r].pc # "analyzing" /\ (run'[r].pc = "writing" => run'[r].fn = run[r].fn)
      /\ run'[r].touched = touched /\ run'[r].refused = refused
  BY <1>1, <1>2, <1>3, <1>4, <1>7, <1>8
<1>10. QED
  BY <1>9 DEF s, touched, refused

-----------------------------------------------------------------------------
(* What the host and the panel know, kept by the steps of a process. *)

\* Nobody's view of a run changes but that an orphan may go.
LEMMA SameFleet ==
    ASSUME TypeOK, TriageInv, run' \in [Runs -> Run],
           UNCHANGED <<shown, active, registry, timers, flags>>,
           \A q \in Runs :
              \/ /\ run'[q].bin = run[q].bin /\ run'[q].orphan = run[q].orphan
                 /\ run'[q].pressed = run[q].pressed /\ run'[q].lost = run[q].lost
                 /\ run'[q].pc \in Open <=> run[q].pc \in Open
                 /\ run'[q].pc = "asking" <=> run[q].pc = "asking"
              \/ run[q].orphan /\ run'[q].pc \notin Open
    PROVE  RunsTracked' /\ ShownInv' /\ \A q \in Runs : Cancellable(q)'
<1> DEFINE Same(q) == /\ run'[q].bin = run[q].bin /\ run'[q].orphan = run[q].orphan
                      /\ run'[q].pressed = run[q].pressed /\ run'[q].lost = run[q].lost
                      /\ run'[q].pc \in Open <=> run[q].pc \in Open
                      /\ run'[q].pc = "asking" <=> run[q].pc = "asking"
           Went(q) == run[q].orphan /\ run'[q].pc \notin Open
<1>1. \A q \in Runs : Same(q) \/ Went(q)
  OBVIOUS
<1>2. registry \subseteq Runs /\ Tracked /\ OneActiveRun /\ ShownInv
      /\ (\A q \in Runs : Cancellable(q))
      /\ (\A b \in Binaries : shown[b] \in Runs \cup {NoRun} /\ active[b] \in Runs \cup {NoRun})
  BY DEF TypeOK, TriageInv, RunsTracked
<1>3. \A q \in Runs : Followed(q)' <=> Followed(q)
  BY <1>1 DEF Followed
<1> HIDE DEF Same, Went
<1>4. Tracked'
  <2>1. ASSUME NEW q \in Runs, run'[q].pc \in Open, ~run'[q].orphan
        PROVE  /\ active'[run'[q].bin] = q
               /\ run'[q].pc # "asking" /\ run'[q].pressed # "late" => q \in registry'
               /\ run'[q].pressed = "late" => q \in flags' /\ q \in timers'
    BY <1>1, <1>2, <2>1 DEF Tracked, Same, Went
  <2>2. ASSUME NEW q \in registry
        PROVE  run'[q].pc \in Open
    BY <1>1, <1>2 DEF Tracked, Same, Went, Cancellable
  <2>3. ASSUME NEW b \in Binaries, active[b] # NoRun
        PROVE  /\ run'[active[b]].pc \in Open /\ run'[active[b]].bin = b
               /\ ~run'[active[b]].orphan
    BY <1>1, <1>2, <2>3 DEF Tracked, Same, Went
  <2>4. QED
    BY <2>1, <2>2, <2>3 DEF Tracked
<1>5. OneActiveRun'
  BY <1>1, <1>2, <1>3 DEF OneActiveRun, Same, Went, Followed
<1>6. ShownInv'
  <2>1. ASSUME NEW b \in Binaries, shown[b] # NoRun
        PROVE  Followed(shown[b])' /\ run'[shown[b]].bin = b
    BY <1>1, <1>2, <1>3, <2>1 DEF ShownInv, Same, Went, Followed
  <2>2. ASSUME NEW q \in Runs, Followed(q)'
        PROVE  shown[run'[q].bin] = q
    BY <1>1, <1>2, <1>3, <2>2 DEF ShownInv, Same, Went, Followed
  <2>3. QED
    BY <2>1, <2>2 DEF ShownInv, Followed
<1>7. \A q \in Runs : Cancellable(q)'
  BY <1>1, <1>2 DEF Cancellable, Same, Went
<1>8. QED
  BY <1>4, <1>5, <1>6, <1>7 DEF RunsTracked

\* The parts of TriageInv that a walk keeps whether it writes or not.
LEMMA WalkFleet ==
    ASSUME TypeOK, TriageInv, NEW r \in Runs, Walks(r)
    PROVE  /\ RunsTracked' /\ ShownInv'
           /\ \A q \in Runs : RunOK(q)' /\ Cancellable(q)'
           /\ \A c \in Commands : CommandOK(c)'
<1>1. \A q \in Runs :
         /\ run'[q].bin = run[q].bin /\ run'[q].orphan = run[q].orphan
         /\ run'[q].pressed = run[q].pressed /\ run'[q].lost = run[q].lost
         /\ run'[q].pc \in Open <=> run[q].pc \in Open
         /\ run'[q].pc = "asking" <=> run[q].pc = "asking"
  BY LiveOpen DEF Walks, SameRun
<1>2. /\ run' \in [Runs -> Run] /\ UNCHANGED <<shown, active, registry, timers, flags>>
      /\ UNCHANGED cmd
  BY DEF Walks
<1>3. RunsTracked' /\ ShownInv' /\ \A q \in Runs : Cancellable(q)'
  BY <1>1, <1>2, SameFleet
<1>4. \A q \in Runs : RunOK(q)'
  BY DEF Walks, RunOK, TriageInv
<1>5. \A c \in Commands : CommandOK(c)'
  BY <1>2 DEF TriageInv, CommandOK
<1>6. QED
  BY <1>3, <1>4, <1>5

LEMMA QuietKeeps ==
    ASSUME TypeOK, TriageInv, NEW r \in Runs, WalksQuietly(r)
    PROVE  TypeOK' /\ TriageInv'
<1>1. /\ run' \in [Runs -> Run] /\ \A q \in Runs \ {r} : run'[q] = run[q]
      /\ run[r].pc \in Live /\ run'[r].pc \in Live \ {"tools"}
      /\ run'[r].orphan = run[r].orphan /\ run'[r].owed = run[r].owed
      /\ run'[r].touched = run[r].touched /\ run'[r].refused = run[r].refused
      /\ UNCHANGED <<content, scope, notes, writer, cmd, shown, active, registry, timers, flags>>
  BY DEF WalksQuietly, Walks, SameRun
<1>2. TypeOK'
  BY <1>1 DEF TypeOK
<1>3. \A q \in Runs : OwedInv(q)'
  <2>1. ASSUME NEW q \in Runs, q # r PROVE OwedInv(q)'
    BY <1>1, <2>1 DEF TriageInv, OwedInv
  <2>2. OwedInv(r)'
    BY <1>1, LiveOpen DEF TriageInv, OwedInv, WalksQuietly
  <2>3. QED
    BY <2>1, <2>2
<1>4. StopsWriting'
  BY <1>1 DEF TriageInv, StopsWriting
<1>5. RefusedInv'
  BY <1>1 DEF TriageInv, RefusedInv
<1>6. LockAfterRefusal'
  BY <1>1 DEF TriageInv, LockAfterRefusal
<1>7. ReviewInv'
  BY <1>1 DEF TriageInv, ReviewInv
<1>8. QED
  BY <1>2, <1>3, <1>4, <1>5, <1>6, <1>7, WalkFleet DEF TriageInv, WalksQuietly

\* What save_ai_annotation does to the notes.
LEMMA SavedNotes ==
    ASSUME TypeOK, NEW w \in Runs, NEW v \in Versions, NEW s \in Slots, SaveAi(w, v, s)
    PROVE  /\ notes' \in [Versions -> [Slots -> Sources]]
           /\ writer' \in {w, NoWriter} /\ writer \in {NoWriter, w}
           /\ writer' = w => UNCHANGED notes /\ notes[v][s] \in UserOwned
           /\ \A x \in Versions : \A t \in Slots :
                notes'[x][t] = notes[x][t]
                  \/ (notes[x][t] \notin UserOwned /\ notes'[x][t] = "ai")
<1>1. w # NoWriter /\ writer \in {NoWriter, w}
  BY Writers DEF SaveAi, MayWrite
<1>2. CASE notes[v][s] \in UserOwned /\ writer' = w /\ notes' = notes
  BY <1>1, <1>2 DEF TypeOK
<1>3. CASE notes[v][s] \notin UserOwned /\ writer' = NoWriter /\ Replace(v, {s}, "ai")
  <2>1. "ai" \in Sources
    BY DEF Sources
  <2>2. /\ notes' \in [Versions -> [Slots -> Sources]]
        /\ \A x \in Versions : \A t \in Slots :
             notes'[x][t] = IF x = v /\ t = s THEN "ai" ELSE notes[x][t]
    BY <1>3, <2>1 DEF Replace, TypeOK
  <2>3. QED
    BY <1>1, <1>3, <2>2
<1>4. QED
  BY <1>2, <1>3 DEF SaveAi

LEMMA WriteKeeps ==
    ASSUME TypeOK, TriageInv, NEW r \in Runs, WriteAi(r)
    PROVE  /\ TypeOK' /\ TriageInv' /\ Walks(r)
           /\ \A x \in Versions : \A t \in Slots :
                notes[x][t] = "typed" => notes'[x][t] = "typed"
<1> DEFINE s == <<run[r].fn, NextKind(r)>>
           v == run[r].at
           touched == IF r \in flags \/ run[r].orphan
                      THEN run[r].touched \cup {run[r].fn} ELSE run[r].touched
           refused == IF writer' = r THEN run[r].refused \cup {<<v, s>>} ELSE {}
<1>1. /\ Walks(r) /\ run[r].pc = "writing" /\ v \in Versions /\ s \in Slots
      /\ SaveAi(r, v, s)
      /\ run'[r].pc # "analyzing" /\ (run'[r].pc = "writing" => run'[r].fn = run[r].fn)
      /\ run'[r].touched = touched /\ run'[r].refused = refused
  BY WriteWalks DEF TriageInv
<1> HIDE DEF s, v
<1>2. /\ run' \in [Runs -> Run] /\ (\A q \in Runs \ {r} : run'[q] = run[q])
      /\ run'[r].pc \in Live \ {"tools"}
      /\ run'[r].orphan = run[r].orphan /\ run'[r].owed = run[r].owed
      /\ UNCHANGED <<content, scope, cmd, shown, active, registry, timers, flags>>
  BY <1>1 DEF Walks, SameRun
<1>3. /\ notes' \in [Versions -> [Slots -> Sources]]
      /\ writer' \in {r, NoWriter} /\ writer \in {NoWriter, r}
      /\ (writer' = r => UNCHANGED notes /\ notes[v][s] \in UserOwned)
      /\ \A x \in Versions : \A t \in Slots :
           notes'[x][t] = notes[x][t] \/ (notes[x][t] \notin UserOwned /\ notes'[x][t] = "ai")
  BY <1>1, SavedNotes
<1>4. TypeOK'
  BY <1>2, <1>3 DEF TypeOK
<1>5. \A q \in Runs : OwedInv(q)'
  <2>1. ASSUME NEW q \in Runs, q # r PROVE OwedInv(q)'
    BY <1>2, <2>1 DEF TriageInv, OwedInv
  <2>2. OwedInv(r)'
    BY <1>1, <1>2, LiveOpen DEF TriageInv, OwedInv
  <2>3. QED
    BY <2>1, <2>2
<1>6. StopsWriting'
  BY <1>1, <1>2 DEF TriageInv, StopsWriting, OwedInv
<1>7. RefusedInv'
  BY <1>1, <1>2, <1>3, Writers DEF TriageInv, RefusedInv
<1>8. LockAfterRefusal'
  <2>1. CASE writer' = r
    <3>1. refused = run[r].refused \cup {<<v, s>>} /\ writer' \in Runs /\ refused # {}
      BY <2>1
    <3>2. \A x \in run[r].refused : notes[x[1]][x[2]] \in UserOwned
      BY <1>3, Writers DEF TriageInv, RefusedInv, LockAfterRefusal
    <3>3. \A x \in refused : notes'[x[1]][x[2]] \in UserOwned
      BY <1>3, <2>1, <3>1, <3>2
    <3>4. QED
      BY <1>1, <1>2, <2>1, <3>1, <3>3 DEF LockAfterRefusal
  <2>2. CASE writer' = NoWriter
    BY <2>2 DEF LockAfterRefusal
  <2>3. QED
    BY <1>3, <2>1, <2>2
<1>9. ReviewInv'
  <2>1. SUFFICES ASSUME NEW c \in Commands, NEW t \in cmd[c].todo, cmd[c].op \in Listing,
                        cmd[c].seen \in Versions, notes'[cmd[c].seen][t] = "typed"
                 PROVE  t \in cmd[c].late
    BY <1>2 DEF ReviewInv
  <2>2. t \in Slots
    BY CommandFields
  <2>3. notes[cmd[c].seen][t] = "typed"
    BY <1>3, <2>1, <2>2
  <2>4. QED
    BY <2>1, <2>3 DEF TriageInv, ReviewInv
<1>10. \A x \in Versions : \A t \in Slots : notes[x][t] = "typed" => notes'[x][t] = "typed"
  BY <1>3 DEF UserOwned
<1>11. QED
  BY <1>1, <1>4, <1>5, <1>6, <1>7, <1>8, <1>9, <1>10, WalkFleet DEF TriageInv

\* A process that goes takes its transaction along.
LEMMA GoneKeeps ==
    ASSUME TypeOK, TriageInv, NEW r \in Runs, run[r].pc \in Live, Gone(r)
    PROVE  TypeOK' /\ TriageInv' /\ UNCHANGED notes
<1> DEFINE ended == [run[r] EXCEPT !.pc = "ended", !.todo = {}, !.fn = NoFunction,
                                   !.slots = {}, !.at = NoVersion, !.refused = {}]
           u == IF run[r].orphan THEN Closed ELSE ended
<1>1. /\ run' = [run EXCEPT ![r] = u]
      /\ writer' = IF writer = r THEN NoWriter ELSE writer
      /\ UNCHANGED <<content, scope, notes, cmd, shown, active, registry, timers, flags>>
  BY DEF Gone, host
<1>2. run[r] \in Run /\ run[r].bin \in Binaries
  BY RunFields, LiveOpen DEF TriageInv, RunOK
<1>3. /\ ended \in Run /\ ended.pc = "ended" /\ ended.refused = {}
      /\ ended.touched = run[r].touched /\ SameRun(ended, r)
  BY <1>2 DEF Run, SameRun, Open, Live
<1> HIDE DEF ended
<1>4. u \in Run /\ u.pc \notin Live /\ u.refused = {} /\ u.pc \notin {"idle", "asking"}
  BY <1>3, ClosedTyped, LiveOpen
<1>5. run[r].orphan \in BOOLEAN
  BY RunFields
<1>6. \/ run[r].orphan /\ u.pc = "closed" /\ ~u.orphan /\ u.touched = {} /\ u.owed = {}
      \/ ~run[r].orphan /\ u.pc = "ended" /\ u.touched = run[r].touched /\ SameRun(u, r)
  BY <1>3, <1>5, ClosedTyped
<1> HIDE DEF u
<1>7. /\ run' \in [Runs -> Run] /\ run'[r] = u /\ (\A q \in Runs \ {r} : run'[q] = run[q])
  BY <1>1, <1>4, OneRun
<1>8. TypeOK'
  BY <1>1, <1>7, Writers DEF TypeOK
<1>9. RunsTracked' /\ ShownInv' /\ \A q \in Runs : Cancellable(q)'
  BY <1>1, <1>6, <1>7, LiveOpen, SameFleet DEF SameRun
<1>10. \A q \in Runs : RunOK(q)' /\ OwedInv(q)'
  <2>1. ASSUME NEW q \in Runs, q # r PROVE RunOK(q)' /\ OwedInv(q)'
    BY <1>1, <1>7, <2>1 DEF TriageInv, RunOK, OwedInv
  <2>2. RunOK(r)'
    BY <1>2, <1>4, <1>6, <1>7, LiveOpen DEF RunOK, SameRun
  <2>3. OwedInv(r)'
    BY <1>1, <1>6, <1>7, LiveOpen DEF TriageInv, OwedInv, SameRun
  <2>4. QED
    BY <2>1, <2>2, <2>3
<1>11. StopsWriting'
  BY <1>6, <1>7 DEF TriageInv, StopsWriting, SameRun
<1>12. RefusedInv' /\ LockAfterRefusal'
  <2>1. RefusedInv'
    BY <1>1, <1>4, <1>7 DEF TriageInv, RefusedInv
  <2>2. LockAfterRefusal'
    BY <1>1, <1>7 DEF TriageInv, LockAfterRefusal
  <2>3. QED
    BY <2>1, <2>2
<1>13. ReviewInv' /\ \A c \in Commands : CommandOK(c)'
  BY <1>1 DEF TriageInv, ReviewInv, CommandOK
<1>14. QED
  BY <1>1, <1>8, <1>9, <1>10, <1>11, <1>12, <1>13 DEF TriageInv

-----------------------------------------------------------------------------
LEMMA Spent ==
    ASSUME scope \in Scope, NEW sort \in {"command", "rewrite", "run", "reload"}, Spend(sort)
    PROVE  scope' \in Scope
<1>1. CASE sort = "command"
  BY <1>1 DEF Scope, Spend
<1>2. CASE sort = "rewrite"
  BY <1>2 DEF Scope, Spend
<1>3. CASE sort = "run"
  BY <1>3 DEF Scope, Spend
<1>4. CASE sort = "reload"
  BY <1>4 DEF Scope, Spend
<1>5. QED
  BY <1>1, <1>2, <1>3, <1>4

-----------------------------------------------------------------------------
(* The host lets a run start, end and begin. *)

LEMMA DoneKeeps ==
    ASSUME TypeOK, TriageInv, NEW r \in Runs, Done(r),
           run[r].pc \in {"asking", "unspawned", "ended"},
           registry' = registry \ {r}, timers' \in {timers, timers \ {r}},
           flags' \in {flags, flags \ {r}}
    PROVE  TypeOK' /\ TriageInv' /\ UNCHANGED notes
<1> DEFINE b == run[r].bin
<1>1. /\ run' = [run EXCEPT ![r] = Closed]
      /\ shown' = [x \in Binaries |-> IF shown[x] = r THEN NoRun ELSE shown[x]]
      /\ active' = [active EXCEPT ![b] = IF active[b] = r THEN NoRun ELSE active[b]]
      /\ UNCHANGED <<content, scope, notes, writer, cmd>>
  BY DEF Done, annVars
<1>2. /\ run' \in [Runs -> Run] /\ run'[r] = Closed /\ \A q \in Runs \ {r} : run'[q] = run[q]
  BY <1>1, ClosedTyped, OneRun
<1>3. /\ run[r].pc \in Open /\ run[r].pc \notin Live /\ ~run[r].orphan /\ b \in Binaries
      /\ active[b] = r
  <2>1. run[r].pc \in Open /\ run[r].pc \notin Live
    BY LiveOpen
  <2>2. b \in Binaries /\ ~run[r].orphan
    BY <2>1, RunFields DEF TriageInv, RunOK
  <2>3. QED
    BY <2>1, <2>2 DEF TriageInv, RunsTracked, Tracked
<1>4. /\ Closed.pc \notin Open /\ Closed.pc = "closed" /\ ~Closed.orphan
      /\ Closed.touched = {} /\ Closed.owed = {} /\ Closed.refused = {}
  BY ClosedTyped, LiveOpen
<1> HIDE DEF b
<1>5. TypeOK'
  BY <1>1, <1>2 DEF TypeOK
<1>6. \A q \in Runs : Followed(q)' <=> q # r /\ Followed(q)
  BY <1>2, <1>4 DEF Followed
<1>7. Tracked'
  <2>1. ASSUME NEW q \in Runs, run'[q].pc \in Open, ~run'[q].orphan
        PROVE  /\ active'[run'[q].bin] = q
               /\ run'[q].pc # "asking" /\ run'[q].pressed # "late" => q \in registry'
               /\ run'[q].pressed = "late" => q \in flags' /\ q \in timers'
    <3>1. q # r /\ run'[q] = run[q]
      BY <1>2, <1>4, <2>1
    <3>2. /\ active[run[q].bin] = q
          /\ (run[q].pc # "asking" /\ run[q].pressed # "late" => q \in registry)
          /\ (run[q].pressed = "late" => q \in flags /\ q \in timers)
      BY <2>1, <3>1 DEF TriageInv, RunsTracked, Tracked
    <3>3. run[q].bin \in Binaries /\ run[q].bin # b
      BY <1>3, <2>1, <3>1, <3>2 DEF TriageInv, RunOK
    <3>4. active'[run[q].bin] = active[run[q].bin]
      BY <1>1, <3>3 DEF TypeOK
    <3>5. QED
      BY <3>1, <3>2, <3>4
  <2>2. ASSUME NEW q \in registry' PROVE run'[q].pc \in Open
    BY <1>2, <2>2 DEF TypeOK, TriageInv, RunsTracked, Tracked
  <2>3. ASSUME NEW x \in Binaries, active'[x] # NoRun
        PROVE  /\ run'[active'[x]].pc \in Open /\ run'[active'[x]].bin = x
               /\ ~run'[active'[x]].orphan
    <3>1. x # b /\ active'[x] = active[x]
      BY <1>1, <1>3, <2>3 DEF TypeOK
    <3>2. active[x] \in Runs /\ run[active[x]].bin = x
      BY <2>3, <3>1 DEF TypeOK, TriageInv, RunsTracked, Tracked
    <3>3. active[x] # r
      BY <3>1, <3>2 DEF b
    <3>4. QED
      BY <1>2, <2>3, <3>1, <3>2, <3>3 DEF TriageInv, RunsTracked, Tracked
  <2>4. QED
    BY <2>1, <2>2, <2>3 DEF Tracked
<1>8. OneActiveRun'
  BY <1>2, <1>6 DEF TriageInv, RunsTracked, OneActiveRun
<1>9. ShownInv'
  <2>1. ASSUME NEW x \in Binaries, shown'[x] # NoRun
        PROVE  \E q \in Runs : shown'[x] = q /\ Followed(q)' /\ run'[q].bin = x
    <3>1. shown'[x] = shown[x] /\ shown[x] # r /\ shown[x] \in Runs
      BY <1>1, <2>1 DEF TypeOK
    <3>2. Followed(shown[x]) /\ run[shown[x]].bin = x
      BY <2>1, <3>1 DEF TriageInv, ShownInv
    <3>3. PICK q \in Runs : q = shown[x]
      BY <3>1
    <3>4. Followed(q)' /\ run'[q].bin = x
      BY <1>2, <1>6, <3>1, <3>2, <3>3
    <3>5. QED
      BY <3>1, <3>3, <3>4
  <2>2. ASSUME NEW q \in Runs, Followed(q)' PROVE shown'[run'[q].bin] = q
    <3>1. q # r /\ Followed(q) /\ run'[q] = run[q]
      BY <1>2, <1>6, <2>2
    <3>2. run[q].bin \in Binaries /\ shown[run[q].bin] = q
      BY <3>1 DEF TriageInv, ShownInv, RunOK, Followed
    <3>3. QED
      BY <1>1, <3>1, <3>2
  <2>3. QED
    BY <2>1, <2>2 DEF ShownInv, Followed
<1>10. \A q \in Runs : RunOK(q)' /\ Cancellable(q)' /\ OwedInv(q)'
  <2>1. ASSUME NEW q \in Runs, q # r PROVE RunOK(q)' /\ Cancellable(q)' /\ OwedInv(q)'
    BY <1>2, <2>1 DEF TriageInv, RunOK, Cancellable, OwedInv
  <2>2. RunOK(r)' /\ Cancellable(r)' /\ OwedInv(r)'
    BY <1>2, <1>4 DEF RunOK, Cancellable, OwedInv
  <2>3. QED
    BY <2>1, <2>2
<1>11. StopsWriting'
  BY <1>2, <1>4 DEF TriageInv, StopsWriting
<1>12. RefusedInv'
  BY <1>1, <1>2, <1>4 DEF TriageInv, RefusedInv
<1>13. LockAfterRefusal'
  <2>1. ASSUME writer # NoWriter PROVE writer # r
    BY <1>3, <2>1 DEF TriageInv, LockAfterRefusal
  <2>2. QED
    BY <1>1, <1>2, <2>1 DEF TriageInv, LockAfterRefusal
<1>14. ReviewInv' /\ \A c \in Commands : CommandOK(c)'
  BY <1>1 DEF TriageInv, ReviewInv, CommandOK
<1>15. QED
  BY <1>1, <1>5, <1>7, <1>8, <1>9, <1>10, <1>11, <1>12, <1>13, <1>14
     DEF TriageInv, RunsTracked

LEMMA SpawnKeeps ==
    ASSUME TypeOK, TriageInv, NEW r \in Runs, Spawn(r)
    PROVE  TypeOK' /\ TriageInv' /\ UNCHANGED notes
<1> DEFINE u(pc) == [run[r] EXCEPT !.pc = pc]
<1>1. PICK pc \in {"tools", "unspawned"} : run' = [run EXCEPT ![r] = u(pc)]
  BY DEF Spawn
<1>2. /\ run[r].pc = "asking" /\ run[r] \in Run /\ run[r].pc \in Open /\ ~run[r].orphan
      /\ run[r].pressed # "late" /\ run[r].touched = {} /\ run[r].bin \in Binaries
      /\ flags' = flags \ {r} /\ registry' = registry \cup {r}
      /\ UNCHANGED <<content, scope, notes, writer, cmd, shown, active, timers>>
  BY RunFields, LiveOpen DEF Spawn, annVars, TriageInv, RunOK
<1>3. /\ u(pc) \in Run /\ u(pc).pc = pc /\ SameRun(u(pc), r)
      /\ u(pc).touched = run[r].touched /\ u(pc).refused = run[r].refused
  BY <1>2 DEF Run, SameRun, Open, Live
<1> HIDE DEF u
<1>4. /\ run' \in [Runs -> Run] /\ run'[r] = u(pc)
      /\ \A q \in Runs \ {r} : run'[q] = run[q]
  BY <1>1, <1>3, OneRun
<1>5. /\ run'[r].pc \in Open /\ run'[r].pc \notin {"idle", "asking", "analyzing", "writing"}
      /\ run'[r].orphan = run[r].orphan /\ run'[r].lost = run[r].lost
      /\ run'[r].bin = run[r].bin /\ run'[r].pressed = run[r].pressed
      /\ run'[r].owed = run[r].owed /\ run'[r].touched = {}
      /\ run'[r].refused = run[r].refused
  BY <1>2, <1>3, <1>4, LiveOpen DEF SameRun
<1>6. TypeOK'
  BY <1>2, <1>4 DEF TypeOK
<1>7. \A q \in Runs : /\ Followed(q)' <=> Followed(q)
                      /\ run'[q].pc \in Open <=> run[q].pc \in Open
                      /\ run'[q].bin = run[q].bin /\ run'[q].orphan = run[q].orphan
                      /\ run'[q].pressed = run[q].pressed
                      /\ run'[q].owed = run[q].owed /\ run'[q].refused = run[q].refused
  BY <1>2, <1>4, <1>5 DEF Followed
<1>8. Tracked'
  <2>1. ASSUME NEW q \in Runs, run'[q].pc \in Open, ~run'[q].orphan
        PROVE  /\ active'[run'[q].bin] = q
               /\ run'[q].pc # "asking" /\ run'[q].pressed # "late" => q \in registry'
               /\ run'[q].pressed = "late" => q \in flags' /\ q \in timers'
    BY <1>2, <1>4, <1>7, <2>1 DEF TriageInv, RunsTracked, Tracked
  <2>2. ASSUME NEW q \in registry' PROVE run'[q].pc \in Open
    BY <1>2, <1>5, <1>7, <2>2 DEF TypeOK, TriageInv, RunsTracked, Tracked
  <2>3. ASSUME NEW x \in Binaries, active'[x] # NoRun
        PROVE  /\ run'[active'[x]].pc \in Open /\ run'[active'[x]].bin = x
               /\ ~run'[active'[x]].orphan
    BY <1>2, <1>7, <2>3 DEF TypeOK, TriageInv, RunsTracked, Tracked
  <2>4. QED
    BY <2>1, <2>2, <2>3 DEF Tracked
<1>9. OneActiveRun'
  BY <1>7 DEF TriageInv, RunsTracked, OneActiveRun
<1>10. ShownInv'
  <2>1. ASSUME NEW x \in Binaries, shown[x] # NoRun
        PROVE  \E q \in Runs : shown[x] = q /\ Followed(q)' /\ run'[q].bin = x
    BY <1>7, <2>1 DEF TypeOK, TriageInv, ShownInv
  <2>2. \A q \in Runs : Followed(q)' => shown[run'[q].bin] = q
    BY <1>7 DEF TriageInv, ShownInv
  <2>3. QED
    BY <1>2, <2>1, <2>2 DEF ShownInv, Followed
<1>11. \A q \in Runs : RunOK(q)' /\ Cancellable(q)' /\ OwedInv(q)'
  <2>1. ASSUME NEW q \in Runs, q # r PROVE RunOK(q)' /\ Cancellable(q)' /\ OwedInv(q)'
    BY <1>2, <1>4, <2>1 DEF TriageInv, RunOK, Cancellable, OwedInv
  <2>2. RunOK(r)' /\ Cancellable(r)' /\ OwedInv(r)'
    BY <1>2, <1>5 DEF RunOK, Cancellable, OwedInv
  <2>3. QED
    BY <2>1, <2>2
<1>12. StopsWriting'
  BY <1>4, <1>5 DEF TriageInv, StopsWriting
<1>13. RefusedInv'
  BY <1>2, <1>7 DEF TriageInv, RefusedInv
<1>14. LockAfterRefusal'
  <2>1. ASSUME writer # NoWriter PROVE writer # r
    BY <1>2, <2>1, LiveOpen DEF TriageInv, LockAfterRefusal
  <2>2. QED
    BY <1>2, <1>4, <2>1 DEF TriageInv, LockAfterRefusal
<1>15. ReviewInv' /\ \A c \in Commands : CommandOK(c)'
  BY <1>2 DEF TriageInv, ReviewInv, CommandOK
<1>16. QED
  BY <1>2, <1>6, <1>8, <1>9, <1>10, <1>11, <1>12, <1>13, <1>14, <1>15
     DEF TriageInv, RunsTracked

-----------------------------------------------------------------------------
(* The panel and the window are opened again. *)

LEMMA ReopenKeeps ==
    ASSUME TypeOK, TriageInv, ReopenPanel
    PROVE  TypeOK' /\ TriageInv' /\ UNCHANGED notes
<1> DEFINE u(r) == IF run[r].pc \in Open THEN [run[r] EXCEPT !.lost = TRUE] ELSE run[r]
<1>1. /\ run' = [r \in Runs |-> u(r)] /\ shown' = [b \in Binaries |-> NoRun]
      /\ Spend("reload")
      /\ UNCHANGED <<content, notes, writer, cmd, active, registry, timers, flags>>
  BY DEF ReopenPanel, host
<1>2. \A r \in Runs : /\ u(r) \in Run /\ (u(r).pc \in Open => u(r).lost)
                      /\ u(r).pc = run[r].pc /\ u(r).bin = run[r].bin
                      /\ u(r).fn = run[r].fn /\ u(r).slots = run[r].slots
                      /\ u(r).orphan = run[r].orphan /\ u(r).pressed = run[r].pressed
                      /\ u(r).owed = run[r].owed /\ u(r).touched = run[r].touched
                      /\ u(r).refused = run[r].refused
                      /\ (run[r].pc \notin Open => u(r) = run[r])
  BY RunFields DEF Run
<1> HIDE DEF u
<1>3. /\ run' \in [Runs -> Run]
      /\ \A r \in Runs : /\ (run'[r].pc \in Open => run'[r].lost)
                         /\ run'[r].pc = run[r].pc /\ run'[r].bin = run[r].bin
                         /\ run'[r].fn = run[r].fn /\ run'[r].slots = run[r].slots
                         /\ run'[r].orphan = run[r].orphan /\ run'[r].pressed = run[r].pressed
                         /\ run'[r].owed = run[r].owed /\ run'[r].touched = run[r].touched
                         /\ run'[r].refused = run[r].refused
                         /\ (run[r].pc \notin Open => run'[r] = run[r])
  BY <1>1, <1>2
<1>4. scope' \in Scope
  BY <1>1, Spent DEF TypeOK
<1>5. TypeOK'
  BY <1>1, <1>3, <1>4 DEF TypeOK
<1>6. \A r \in Runs : ~Followed(r)'
  BY <1>3 DEF Followed
<1>7. RunsTracked'
  <2>1. Tracked /\ registry \subseteq Runs
        /\ \A b \in Binaries : active[b] # NoRun => active[b] \in Runs
    BY DEF TypeOK, TriageInv, RunsTracked
  <2>2. ASSUME NEW r \in Runs, run'[r].pc \in Open, ~run'[r].orphan
        PROVE  /\ active'[run'[r].bin] = r
               /\ run'[r].pc # "asking" /\ run'[r].pressed # "late" => r \in registry'
               /\ run'[r].pressed = "late" => r \in flags' /\ r \in timers'
    BY <1>1, <1>3, <2>1, <2>2 DEF Tracked
  <2>3. ASSUME NEW r \in registry' PROVE run'[r].pc \in Open
    BY <1>1, <1>3, <2>1, <2>3 DEF Tracked
  <2>4. ASSUME NEW b \in Binaries, active'[b] # NoRun
        PROVE  /\ run'[active'[b]].pc \in Open /\ run'[active'[b]].bin = b
               /\ ~run'[active'[b]].orphan
    BY <1>1, <1>3, <2>1, <2>4 DEF Tracked
  <2>5. Tracked'
    BY <2>2, <2>3, <2>4 DEF Tracked
  <2>6. OneActiveRun'
    BY <1>6 DEF OneActiveRun
  <2>7. QED
    BY <2>5, <2>6 DEF RunsTracked
<1>8. ShownInv'
  BY <1>1, <1>6 DEF ShownInv
<1>9. \A r \in Runs : RunOK(r)' /\ Cancellable(r)' /\ OwedInv(r)'
  <2>1. \A r \in Runs : RunOK(r)'
    BY <1>3, LiveOpen DEF TriageInv, RunOK
  <2>2. \A r \in Runs : Cancellable(r)' /\ OwedInv(r)'
    BY <1>1, <1>3 DEF TriageInv, Cancellable, OwedInv
  <2>3. QED
    BY <2>1, <2>2
<1>10. StopsWriting' /\ RefusedInv'
  BY <1>1, <1>3 DEF TriageInv, StopsWriting, RefusedInv
<1>11. LockAfterRefusal'
  BY <1>1, <1>3 DEF TriageInv, LockAfterRefusal
<1>12. ReviewInv' /\ \A c \in Commands : CommandOK(c)'
  BY <1>1 DEF TriageInv, ReviewInv, CommandOK
<1>13. QED
  BY <1>1, <1>5, <1>7, <1>8, <1>9, <1>10, <1>11, <1>12 DEF TriageInv

\* Whatever was alive is an orphan, and owes what it had in hand.
LEMMA ReloadKeeps ==
    ASSUME TypeOK, TriageInv, ReloadWindow
    PROVE  TypeOK' /\ TriageInv' /\ UNCHANGED notes
<1> DEFINE old(r) == run[r].orphan \/ r \in flags
           owed(r) == IF old(r) THEN run[r].owed ELSE InHand(r, {"analyzing", "writing"})
           left(r) == [run[r] EXCEPT !.orphan = TRUE, !.owed = owed(r)]
           u(r) == IF run[r].pc \in Live THEN left(r)
                   ELSE IF run[r].pc \in Open THEN Closed ELSE run[r]
<1>1. /\ run' = [r \in Runs |-> u(r)]
      /\ shown' = [b \in Binaries |-> NoRun] /\ active' = [b \in Binaries |-> NoRun]
      /\ registry' = {} /\ timers' = {} /\ Spend("reload")
      /\ UNCHANGED <<content, notes, writer, cmd, flags>>
  BY DEF ReloadWindow
<1>2. \A r \in Runs : owed(r) \subseteq Functions
  BY RunFields DEF InHand, TriageInv, RunOK
<1> HIDE DEF owed
<1>3. \A r \in Runs : /\ left(r) \in Run /\ left(r).orphan /\ left(r).owed = owed(r)
                      /\ left(r).pc = run[r].pc /\ left(r).bin = run[r].bin
                      /\ left(r).fn = run[r].fn /\ left(r).slots = run[r].slots
                      /\ left(r).touched = run[r].touched /\ left(r).refused = run[r].refused
  BY <1>2, RunFields DEF Run
<1> HIDE DEF left
<1>4. /\ run' \in [Runs -> Run]
      /\ \A r \in Runs :
           \/ run[r].pc \in Live /\ run'[r] = left(r)
           \/ run[r].pc \in Open \ Live /\ run'[r] = Closed
           \/ run[r].pc \notin Open /\ run'[r] = run[r]
  <2>1. \A r \in Runs : u(r) \in Run
    BY <1>3, ClosedTyped, RunFields
  <2>2. QED
    BY <1>1, <2>1, LiveOpen
<1> HIDE DEF u
<1>5. /\ Closed.pc = "closed" /\ ~Closed.orphan /\ Closed.touched = {} /\ Closed.owed = {}
      /\ Closed.refused = {} /\ "closed" \notin Open
  BY ClosedTyped, LiveOpen
<1>6. scope' \in Scope
  BY <1>1, Spent DEF TypeOK
<1>7. TypeOK'
  BY <1>1, <1>4, <1>6 DEF TypeOK
<1>8. \A r \in Runs : run'[r].pc \in Open => run'[r].orphan
  BY <1>3, <1>4, <1>5, LiveOpen
<1>9. RunsTracked' /\ ShownInv'
  <2>1. \A r \in Runs : ~Followed(r)'
    BY <1>8 DEF Followed
  <2>2. Tracked'
    BY <1>1, <1>8 DEF Tracked
  <2>3. OneActiveRun'
    BY <2>1 DEF OneActiveRun
  <2>4. ShownInv'
    BY <1>1, <2>1 DEF ShownInv
  <2>5. QED
    BY <2>2, <2>3, <2>4 DEF RunsTracked
<1>10. \A r \in Runs : RunOK(r)' /\ Cancellable(r)'
  <2>1. \A r \in Runs : RunOK(r)'
    BY <1>3, <1>4, <1>5, LiveOpen DEF TriageInv, RunOK
  <2>2. \A r \in Runs : Cancellable(r)'
    BY <1>1 DEF Cancellable
  <2>3. QED
    BY <2>1, <2>2
<1>11. ASSUME NEW r \in Runs
       PROVE  /\ OwedInv(r)'
              /\ run'[r].touched \subseteq run'[r].owed
              /\ \A f, g \in run'[r].owed : f = g
  <2>1. CASE run[r].pc \in Live /\ run'[r] = left(r)
    <3>1. /\ run'[r].pc = run[r].pc /\ run'[r].fn = run[r].fn /\ run'[r].orphan
          /\ run'[r].touched = run[r].touched /\ run'[r].owed = owed(r)
      BY <1>3, <2>1
    <3>2. CASE old(r)
      <4>1. owed(r) = run[r].owed
        BY <3>2 DEF owed
      <4>2. QED
        BY <1>1, <2>1, <3>1, <3>2, <4>1, LiveOpen DEF TriageInv, OwedInv, StopsWriting
    <3>3. CASE ~old(r)
      <4>1. owed(r) = IF run[r].pc \in {"analyzing", "writing"} THEN {run[r].fn} ELSE {}
        BY <3>3 DEF owed, InHand
      <4>2. run[r].touched = {}
        BY <2>1, <3>3, LiveOpen DEF TriageInv, OwedInv
      <4>3. QED
        BY <1>1, <3>1, <4>1, <4>2 DEF OwedInv
    <3>4. QED
      BY <3>2, <3>3
  <2>2. CASE run'[r] = Closed
    BY <1>5, <2>2 DEF OwedInv
  <2>3. CASE run[r].pc \notin Open /\ run'[r] = run[r]
    BY <2>3, LiveOpen DEF TriageInv, OwedInv, StopsWriting
  <2>4. QED
    BY <1>4, <2>1, <2>2, <2>3
<1>12. RefusedInv' /\ LockAfterRefusal'
  <2>1. \A r \in Runs : run'[r].refused # {} => run'[r].refused = run[r].refused
    BY <1>3, <1>4, <1>5
  <2>2. RefusedInv'
    BY <1>1, <2>1 DEF TriageInv, RefusedInv
  <2>3. LockAfterRefusal'
    BY <1>1, <1>3, <1>4, LiveOpen DEF TriageInv, LockAfterRefusal
  <2>4. QED
    BY <2>2, <2>3
<1>13. ReviewInv' /\ \A c \in Commands : CommandOK(c)'
  BY <1>1 DEF TriageInv, ReviewInv, CommandOK
<1>14. QED
  BY <1>1, <1>7, <1>9, <1>10, <1>11, <1>12, <1>13 DEF TriageInv, StopsWriting

-----------------------------------------------------------------------------
(* Cancelling. *)

\* What one run is after hubAiCancel for the runs rs.
LEMMA PressedKeeps ==
    ASSUME TypeOK, TriageInv, NEW rs, NEW q \in Runs, CancelAll(rs),
           q \in rs => Followed(q),
           run'[q] = Pressed(rs)[q]
    PROVE  /\ RunOK(q)' /\ Cancellable(q)' /\ OwedInv(q)'
           /\ run'[q] \in Run
           /\ run'[q].pc = run[q].pc /\ run'[q].bin = run[q].bin
           /\ run'[q].orphan = run[q].orphan /\ run'[q].lost = run[q].lost
           /\ run'[q].refused = run[q].refused
           /\ run[q].pressed # "no" => run'[q].pressed # "no"
           /\ q \in rs => run'[q].pressed # "no"
           /\ run'[q].touched \subseteq run'[q].owed
           /\ \A f, g \in run'[q].owed : f = g
           /\ run[q].pc \in Open /\ ~run[q].orphan =>
                /\ run'[q].pc # "asking" /\ run'[q].pressed # "late" => q \in registry'
                /\ run'[q].pressed = "late" => q \in flags' /\ q \in timers'
<1> DEFINE hit == q \in rs /\ run[q].pressed # "late"
           u == run'[q]
<1>1. /\ u \in Run
      /\ u.pc = run[q].pc /\ u.bin = run[q].bin /\ u.todo = run[q].todo
      /\ u.fn = run[q].fn /\ u.slots = run[q].slots /\ u.at = run[q].at
      /\ u.orphan = run[q].orphan /\ u.lost = run[q].lost
      /\ u.touched = run[q].touched /\ u.refused = run[q].refused
      /\ u.pressed = IF hit THEN IF q \in registry THEN "late" ELSE "early"
                     ELSE run[q].pressed
      /\ u.owed = IF hit /\ q \in registry THEN InHand(q, {"writing"}) ELSE run[q].owed
      /\ ~hit => u = run[q]
  BY PressedRun DEF TriageInv
<1>2. /\ RunOK(q) /\ Cancellable(q) /\ OwedInv(q)
      /\ run[q].touched \subseteq run[q].owed /\ \A f, g \in run[q].owed : f = g
      /\ q \in registry => run[q].pc \in Open
      /\ run[q].pc \in Open /\ ~run[q].orphan =>
            /\ run[q].pc # "asking" /\ run[q].pressed # "late" => q \in registry
            /\ run[q].pressed = "late" => q \in flags /\ q \in timers
  BY DEF TriageInv, StopsWriting, RunsTracked, Tracked
<1>3. /\ q \in registry' <=> q \in registry /\ q \notin rs
      /\ q \in flags' <=> q \in flags \/ (q \in rs /\ q \in registry)
      /\ q \in timers' <=> q \in timers \/ (q \in rs /\ q \in registry)
  BY DEF CancelAll
<1>4. q \in rs /\ q \in registry => hit
  BY <1>2 DEF Cancellable
<1>5. run[q].pc = "idle" => ~hit
  BY LiveOpen DEF Followed
<1>6. RunOK(q)'
  BY <1>1, <1>2, <1>5 DEF RunOK, Cancellable
<1>7. Cancellable(q)'
  BY <1>1, <1>2, <1>3 DEF Cancellable
<1>8. CASE hit /\ q \in registry
  <2>1. /\ run[q].touched = {} /\ ~run[q].orphan
        /\ u.owed = IF run[q].pc = "writing" THEN {run[q].fn} ELSE {}
    BY <1>1, <1>2, <1>8 DEF OwedInv, Cancellable, InHand
  <2>2. OwedInv(q)' /\ u.touched \subseteq u.owed /\ \A f, g \in u.owed : f = g
    BY <1>1, <2>1 DEF OwedInv
  <2>3. u.pressed = "late" /\ q \in flags' /\ q \in timers'
    BY <1>1, <1>3, <1>8
  <2>4. QED
    BY <1>1, <1>6, <1>7, <2>2, <2>3
<1>9. CASE ~(hit /\ q \in registry)
  <2>1. /\ q \in flags' <=> q \in flags
        /\ q \in timers' <=> q \in timers
        /\ q \in registry' <=> q \in registry
    BY <1>3, <1>4, <1>9
  <2>2. u.owed = run[q].owed
    BY <1>1, <1>9
  <2>3. OwedInv(q)' /\ u.touched \subseteq u.owed /\ \A f, g \in u.owed : f = g
    BY <1>1, <1>2, <2>1, <2>2 DEF OwedInv
  <2>4. u.pressed = run[q].pressed \/ (u.pressed = "early" /\ hit)
    BY <1>1, <1>9
  <2>5. (run[q].pressed # "no" => u.pressed # "no") /\ (q \in rs => u.pressed # "no")
    BY <1>1, <1>9, <2>4
  <2>6. run[q].pc \in Open /\ ~run[q].orphan =>
                /\ u.pc # "asking" /\ u.pressed # "late" => q \in registry'
                /\ u.pressed = "late" => q \in flags' /\ q \in timers'
    BY <1>1, <1>2, <2>1, <2>4
  <2>7. QED
    BY <1>1, <1>6, <1>7, <2>3, <2>5, <2>6
<1>10. QED
  BY <1>8, <1>9

\* The parts of TriageInv about the notes and the lock, which a cancel leaves.
LEMMA SameLock ==
    ASSUME TypeOK, TriageInv, UNCHANGED <<content, notes, writer, cmd>>,
           \A q \in Runs : run'[q].refused = run[q].refused
                           /\ (run[q].pc \in Live => run'[q].pc = run[q].pc)
    PROVE  RefusedInv' /\ LockAfterRefusal' /\ ReviewInv' /\ \A c \in Commands : CommandOK(c)'
<1>1. RefusedInv'
  BY DEF TriageInv, RefusedInv
<1>2. LockAfterRefusal'
  BY DEF TriageInv, LockAfterRefusal
<1>3. ReviewInv' /\ \A c \in Commands : CommandOK(c)'
  BY DEF TriageInv, ReviewInv, CommandOK
<1>4. QED
  BY <1>1, <1>2, <1>3

\* The runs a panel shows are those it follows.
LEMMA ShownFollowed ==
    ASSUME TypeOK, TriageInv, NEW bs \in SUBSET Binaries
    PROVE  \A q \in Shown(bs) : q \in Runs /\ Followed(q)
  BY DEF TypeOK, TriageInv, ShownInv, Shown

LEMMA CancelKeeps ==
    ASSUME TypeOK, TriageInv, NEW b \in Binaries, Cancel(b)
    PROVE  TypeOK' /\ TriageInv' /\ UNCHANGED notes
<1> DEFINE rs == {shown[b]}
<1>1. /\ CancelAll(rs) /\ run' = Pressed(rs)
      /\ UNCHANGED <<content, scope, notes, writer, cmd, shown, active>>
      /\ shown[b] \in Runs /\ Followed(shown[b])
  BY DEF Cancel, annVars, TypeOK, TriageInv, ShownInv
<1>2. /\ \A q \in Runs : run'[q] = Pressed(rs)[q]
      /\ \A q \in rs : q \in Runs /\ Followed(q)
  BY <1>1
<1> HIDE DEF rs
<1>3. \A q \in Runs :
           /\ RunOK(q)' /\ Cancellable(q)' /\ OwedInv(q)'
           /\ run'[q] \in Run
           /\ run'[q].pc = run[q].pc /\ run'[q].bin = run[q].bin
           /\ run'[q].orphan = run[q].orphan /\ run'[q].lost = run[q].lost
           /\ run'[q].refused = run[q].refused
           /\ (run[q].pressed # "no" => run'[q].pressed # "no")
           /\ run'[q].touched \subseteq run'[q].owed
           /\ \A f, g \in run'[q].owed : f = g
           /\ run[q].pc \in Open /\ ~run[q].orphan =>
                /\ run'[q].pc # "asking" /\ run'[q].pressed # "late" => q \in registry'
                /\ run'[q].pressed = "late" => q \in flags' /\ q \in timers'
  BY <1>1, <1>2, PressedKeeps
<1>4. run' \in [Runs -> Run]
  <2>1. run' = [q \in Runs |-> run'[q]]
    BY <1>1 DEF Pressed
  <2>2. QED
    BY <1>3, <2>1
<1>5. registry' \subseteq registry /\ registry' \subseteq Runs /\ timers' \subseteq Runs
      /\ flags' \subseteq Runs
  BY <1>1 DEF CancelAll, TypeOK
<1>6. TypeOK'
  BY <1>1, <1>4, <1>5 DEF TypeOK
<1>7. \A q \in Runs : Followed(q)' <=> Followed(q)
  BY <1>3 DEF Followed
<1>8. Tracked'
  <2>1. ASSUME NEW q \in Runs, run'[q].pc \in Open, ~run'[q].orphan
        PROVE  /\ active'[run'[q].bin] = q
               /\ run'[q].pc # "asking" /\ run'[q].pressed # "late" => q \in registry'
               /\ run'[q].pressed = "late" => q \in flags' /\ q \in timers'
    BY <1>1, <1>3, <2>1 DEF TriageInv, RunsTracked, Tracked
  <2>2. ASSUME NEW q \in registry' PROVE run'[q].pc \in Open
    BY <1>3, <1>5, <2>2 DEF TriageInv, RunsTracked, Tracked
  <2>3. ASSUME NEW x \in Binaries, active'[x] # NoRun
        PROVE  /\ run'[active'[x]].pc \in Open /\ run'[active'[x]].bin = x
               /\ ~run'[active'[x]].orphan
    BY <1>1, <1>3, <2>3 DEF TypeOK, TriageInv, RunsTracked, Tracked
  <2>4. QED
    BY <2>1, <2>2, <2>3 DEF Tracked
<1>9. OneActiveRun'
  BY <1>3, <1>7 DEF TriageInv, RunsTracked, OneActiveRun
<1>10. ShownInv'
  <2>1. ASSUME NEW x \in Binaries, shown[x] # NoRun
        PROVE  \E q \in Runs : shown[x] = q /\ Followed(q)' /\ run'[q].bin = x
    BY <1>3, <1>7, <2>1 DEF TypeOK, TriageInv, ShownInv
  <2>2. \A q \in Runs : Followed(q)' => shown[run'[q].bin] = q
    BY <1>3, <1>7 DEF TriageInv, ShownInv
  <2>3. QED
    BY <1>1, <2>1, <2>2 DEF ShownInv, Followed
<1>11. StopsWriting'
  BY <1>3 DEF StopsWriting
<1>12. RefusedInv' /\ LockAfterRefusal' /\ ReviewInv' /\ \A c \in Commands : CommandOK(c)'
  BY <1>1, <1>3, SameLock
<1>13. QED
  BY <1>1, <1>3, <1>6, <1>8, <1>9, <1>10, <1>11, <1>12 DEF TriageInv, RunsTracked

\* A run begins: those of the other binaries are cancelled, and it is refused
\* where the host knows of one.
LEMMA StartKeeps ==
    ASSUME TypeOK, TriageInv, NEW r \in Runs, NEW b \in Binaries, Start(r, b)
    PROVE  TypeOK' /\ TriageInv' /\ UNCHANGED notes
<1> DEFINE others == Shown(Binaries \ {b})
           asked == [Pressed(others)[r] EXCEPT !.pc = "asking", !.bin = b]
<1>1. /\ run[r].pc = "idle" /\ shown[b] = NoRun /\ Spend("run") /\ CancelAll(others)
      /\ \/ /\ active[b] = NoRun /\ run' = [Pressed(others) EXCEPT ![r] = asked]
            /\ active' = [active EXCEPT ![b] = r] /\ shown' = [shown EXCEPT ![b] = r]
         \/ /\ run' = [Pressed(others) EXCEPT ![r] = Closed]
            /\ UNCHANGED <<active, shown>>
      /\ UNCHANGED <<content, notes, writer, cmd>>
  BY DEF Start
<1>2. /\ run[r] = NoRunYet /\ ~Followed(r) /\ r \notin registry /\ r \notin others
      /\ \A q \in others : q \in Runs /\ Followed(q)
  BY <1>1, ShownFollowed, LiveOpen DEF TriageInv, RunOK, RunsTracked, Tracked, Followed
<1>3. Pressed(others)[r] = NoRunYet
  BY <1>2 DEF Pressed
<1>4. /\ asked \in Run /\ asked.pc = "asking" /\ asked.bin = b /\ ~asked.orphan
      /\ ~asked.lost /\ asked.pressed = "no" /\ asked.touched = {} /\ asked.owed = {}
      /\ asked.refused = {}
  <2>1. asked = [NoRunYet EXCEPT !.pc = "asking", !.bin = b]
    BY <1>3
  <2>2. [NoRunYet EXCEPT !.pc = "asking", !.bin = b] \in Run
    BY ClosedTyped DEF Run, Open
  <2>3. QED
    BY <2>1, <2>2 DEF NoRunYet
<1>5. \A q \in others : q \in Shown(Binaries)
  BY DEF Shown
<1>6. \A q \in Runs : Followed(q) => q \in others
  <2>1. SUFFICES ASSUME NEW q \in Runs, Followed(q) PROVE q \in others
    OBVIOUS
  <2>2. run[q].bin \in Binaries /\ shown[run[q].bin] = q /\ q # NoRun
    BY <2>1, Writers DEF TriageInv, ShownInv, RunOK, Followed
  <2>3. run[q].bin # b
    BY <1>1, <2>2
  <2>4. QED
    BY <2>2, <2>3 DEF Shown
<1>7. /\ run' \in [Runs -> Run]
      /\ \A q \in Runs \ {r} : run'[q] = Pressed(others)[q]
      /\ \/ /\ run'[r] = asked /\ active[b] = NoRun
            /\ active' = [active EXCEPT ![b] = r] /\ shown' = [shown EXCEPT ![b] = r]
         \/ /\ run'[r] = Closed /\ UNCHANGED <<active, shown>>
  <2>1. Pressed(others) \in [Runs -> Run]
    <3>1. \A q \in Runs : Pressed(others)[q] \in Run
      BY PressedRun DEF TriageInv
    <3>2. Pressed(others) = [q \in Runs |-> Pressed(others)[q]]
      BY DEF Pressed
    <3>3. QED
      BY <3>1, <3>2
  <2> HIDE DEF asked, others
  <2>2. QED
    BY <1>1, <1>4, <2>1, ClosedTyped
<1> HIDE DEF asked, others
<1>8. \A q \in Runs \ {r} :
           /\ RunOK(q)' /\ Cancellable(q)' /\ OwedInv(q)'
           /\ run'[q].pc = run[q].pc /\ run'[q].bin = run[q].bin
           /\ run'[q].orphan = run[q].orphan /\ run'[q].lost = run[q].lost
           /\ run'[q].refused = run[q].refused
           /\ (run[q].pressed # "no" => run'[q].pressed # "no")
           /\ (q \in others => run'[q].pressed # "no")
           /\ run'[q].touched \subseteq run'[q].owed
           /\ (\A f, g \in run'[q].owed : f = g)
           /\ run[q].pc \in Open /\ ~run[q].orphan =>
                /\ run'[q].pc # "asking" /\ run'[q].pressed # "late" => q \in registry'
                /\ run'[q].pressed = "late" => q \in flags' /\ q \in timers'
  BY <1>1, <1>2, <1>7, PressedKeeps
<1>9. /\ registry' \subseteq registry /\ registry' \subseteq Runs /\ timers' \subseteq Runs
      /\ flags' \subseteq Runs
  BY <1>1 DEF CancelAll, TypeOK
<1>10. /\ Closed.pc = "closed" /\ ~Closed.orphan /\ Closed.touched = {} /\ Closed.owed = {}
       /\ Closed.refused = {} /\ "closed" \notin Open /\ "asking" \in Open
       /\ "asking" \notin Live /\ "idle" \notin Open
  BY ClosedTyped, LiveOpen
<1>11. TypeOK'
  <2>1. scope' \in Scope
    BY <1>1, Spent DEF TypeOK
  <2>2. active' \in [Binaries -> Runs \cup {NoRun}] /\ shown' \in [Binaries -> Runs \cup {NoRun}]
    BY <1>7 DEF TypeOK
  <2>3. QED
    BY <1>1, <1>7, <1>9, <2>1, <2>2 DEF TypeOK
<1>12. /\ \A q \in Runs \ {r} : Followed(q)' <=> Followed(q)
       /\ Followed(r)' <=> run'[r] = asked
       /\ run'[r] = Closed => ~(run'[r].pc \in Open)
  BY <1>4, <1>7, <1>8, <1>10 DEF Followed
<1>13. Tracked'
  <2>1. ASSUME NEW q \in Runs, run'[q].pc \in Open, ~run'[q].orphan
        PROVE  /\ active'[run'[q].bin] = q
               /\ run'[q].pc # "asking" /\ run'[q].pressed # "late" => q \in registry'
               /\ run'[q].pressed = "late" => q \in flags' /\ q \in timers'
    <3>1. CASE q = r
      BY <1>4, <1>7, <1>12, <2>1, <3>1 DEF TypeOK
    <3>2. CASE q # r
      <4>1. active[run[q].bin] = q /\ run[q].bin \in Binaries
        BY <1>8, <2>1, <3>2 DEF TriageInv, RunsTracked, Tracked, RunOK
      <4>2. active'[run[q].bin] = q
        BY <1>7, <4>1, Writers DEF TypeOK
      <4>3. QED
        BY <1>8, <2>1, <3>2, <4>2
    <3>3. QED
      BY <3>1, <3>2
  <2>2. ASSUME NEW q \in registry' PROVE run'[q].pc \in Open
    BY <1>2, <1>8, <1>9, <2>2 DEF TriageInv, RunsTracked, Tracked
  <2>3. ASSUME NEW x \in Binaries, active'[x] # NoRun
        PROVE  /\ run'[active'[x]].pc \in Open /\ run'[active'[x]].bin = x
               /\ ~run'[active'[x]].orphan
    <3>1. CASE run'[r] = asked /\ x = b /\ active'[x] = r
      BY <1>4, <1>10, <3>1
    <3>2. CASE active'[x] = active[x]
      <4>1. /\ active[x] \in Runs /\ run[active[x]].pc \in Open /\ run[active[x]].bin = x
            /\ ~run[active[x]].orphan
        BY <2>3, <3>2 DEF TypeOK, TriageInv, RunsTracked, Tracked
      <4>2. active[x] # r
        BY <1>1, <1>10, <4>1
      <4>3. QED
        BY <1>8, <3>2, <4>1, <4>2
    <3>3. QED
      BY <1>7, <3>1, <3>2 DEF TypeOK
  <2>4. QED
    BY <2>1, <2>2, <2>3 DEF Tracked
<1>14. OneActiveRun'
  <2>1. SUFFICES ASSUME NEW p \in Runs, NEW q \in Runs, p # q, Followed(p)', Followed(q)'
                 PROVE  run'[p].pressed # "no" \/ run'[q].pressed # "no"
    BY DEF OneActiveRun, Followed
  <2>2. ASSUME NEW x \in Runs, x # r, Followed(x)' PROVE run'[x].pressed # "no"
    BY <1>6, <1>8, <1>12, <2>2
  <2>3. QED
    BY <2>1, <2>2
<1>15. ShownInv'
  <2>1. ASSUME NEW x \in Binaries, shown'[x] # NoRun
        PROVE  \E q \in Runs : shown'[x] = q /\ Followed(q)' /\ run'[q].bin = x
    <3>1. CASE run'[r] = asked /\ x = b /\ shown'[x] = r
      BY <1>4, <1>12, <3>1
    <3>2. CASE shown'[x] = shown[x]
      <4>1. shown[x] \in Runs /\ Followed(shown[x]) /\ run[shown[x]].bin = x /\ shown[x] # r
        BY <1>2, <2>1, <3>2 DEF TypeOK, TriageInv, ShownInv
      <4>2. PICK q \in Runs : q = shown[x]
        BY <4>1
      <4>3. QED
        BY <1>8, <1>12, <3>2, <4>1, <4>2
    <3>3. QED
      BY <1>7, <3>1, <3>2 DEF TypeOK
  <2>2. ASSUME NEW q \in Runs, Followed(q)' PROVE shown'[run'[q].bin] = q
    <3>1. CASE q = r
      BY <1>4, <1>7, <1>12, <1>10, <2>2, <3>1 DEF TypeOK
    <3>2. CASE q # r
      <4>1. /\ run'[q].bin = run[q].bin /\ shown[run[q].bin] = q /\ run[q].bin \in Binaries
        BY <1>8, <1>12, <2>2, <3>2 DEF TriageInv, ShownInv, RunOK, Followed
      <4>2. run[q].bin # b
        BY <1>1, <4>1, Writers
      <4>3. QED
        BY <1>7, <4>1, <4>2 DEF TypeOK
    <3>3. QED
      BY <3>1, <3>2
  <2>3. QED
    BY <2>1, <2>2 DEF ShownInv, Followed
<1>16. RunOK(r)' /\ Cancellable(r)' /\ OwedInv(r)'
  <2>1. r \notin registry'
    BY <1>2, <1>9
  <2>2. QED
    BY <1>4, <1>7, <1>10, <2>1 DEF RunOK, Cancellable, OwedInv
<1>17. StopsWriting'
  BY <1>4, <1>7, <1>8, <1>10 DEF StopsWriting
<1>18. RefusedInv' /\ LockAfterRefusal' /\ ReviewInv' /\ \A c \in Commands : CommandOK(c)'
  <2>1. run'[r].refused = {} /\ run[r].refused = {} /\ run[r].pc \notin Live
    BY <1>1, <1>2, <1>4, <1>7, <1>10, ClosedTyped, LiveOpen
  <2>2. QED
    BY <1>1, <1>8, <2>1, SameLock
<1>19. QED
  BY <1>1, <1>8, <1>11, <1>13, <1>14, <1>15, <1>16, <1>17, <1>18 DEF TriageInv, RunsTracked

-----------------------------------------------------------------------------
(* The user's commands, and what becomes of the notes a person typed. *)

\* What a command step leaves: the runs, and whoever holds the lock.
LEMMA SameRuns ==
    ASSUME TypeOK, TriageInv, UNCHANGED <<run, shown, active, registry, timers, flags>>,
           writer' = writer \/ (writer = NoWriter /\ writer' = NoWriter),
           writer # NoWriter => UNCHANGED notes
    PROVE  /\ \A r \in Runs : RunOK(r)' /\ Cancellable(r)' /\ OwedInv(r)'
           /\ RunsTracked' /\ ShownInv' /\ StopsWriting' /\ RefusedInv' /\ LockAfterRefusal'
<1>1. \A r \in Runs : RunOK(r)' /\ Cancellable(r)' /\ OwedInv(r)'
  BY DEF TriageInv, RunOK, Cancellable, OwedInv
<1>2. RunsTracked'
  <2>1. Tracked'
    BY DEF TriageInv, RunsTracked, Tracked
  <2>2. OneActiveRun'
    BY DEF TriageInv, RunsTracked, OneActiveRun, Followed
  <2>3. QED
    BY <2>1, <2>2 DEF RunsTracked
<1>3. ShownInv'
  BY DEF TriageInv, ShownInv, Followed
<1>4. StopsWriting' /\ RefusedInv'
  BY DEF TriageInv, StopsWriting, RefusedInv
<1>5. LockAfterRefusal'
  BY DEF TriageInv, LockAfterRefusal
<1>6. QED
  BY <1>1, <1>2, <1>3, <1>4, <1>5

\* A command that begins, takes its hash or gives up: the notes stay.
LEMMA CommandTurns ==
    ASSUME TypeOK, TriageInv, UNCHANGED runVars, NEW c \in Commands, NEW k \in Command,
           cmd' = [cmd EXCEPT ![c] = k], scope' \in Scope,
           UNCHANGED <<content, notes, writer>>,
           k.op \notin {"idle", "done"} => k.bin \in Binaries,
           k.at # NoVersion => k.op \notin {"idle", "done"},
           \A s \in k.todo : k.op \in Listing /\ k.seen \in Versions
                                => notes[k.seen][s] # "typed" \/ s \in k.late
    PROVE  TypeOK' /\ TriageInv' /\ UNCHANGED notes
<1>1. /\ cmd' \in [Commands -> Command] /\ cmd'[c] = k
      /\ \A d \in Commands \ {c} : cmd'[d] = cmd[d]
  BY DEF TypeOK
<1>2. UNCHANGED <<run, shown, active, registry, timers, flags>>
  BY DEF runVars, host
<1>3. TypeOK'
  BY <1>1, <1>2 DEF TypeOK
<1>4. \A d \in Commands : CommandOK(d)'
  BY <1>1 DEF TriageInv, CommandOK
<1>5. ReviewInv'
  <2>1. ASSUME NEW d \in Commands, NEW s \in cmd'[d].todo,
               cmd'[d].op \in Listing /\ cmd'[d].seen \in Versions
        PROVE  notes'[cmd'[d].seen][s] # "typed" \/ s \in cmd'[d].late
    <3>1. CASE d = c
      BY <1>1, <2>1, <3>1
    <3>2. CASE d # c
      BY <1>1, <2>1, <3>2 DEF TriageInv, ReviewInv
    <3>3. QED
      BY <3>1, <3>2
  <2>2. QED
    BY <2>1 DEF ReviewInv
<1>6. QED
  BY <1>2, <1>3, <1>4, <1>5, SameRuns DEF TriageInv

LEMMA BeginKeeps ==
    ASSUME TypeOK, TriageInv, UNCHANGED runVars, NEW c \in Commands, NEW b \in Binaries,
           NEW op \in {"annotate", "erase", "wipe", "reject", "validate", "import"},
           NEW todo \in SUBSET Slots, NEW seen \in Versions \cup {NoVersion},
           op \in Listing => \A s \in todo : notes[seen][s] # "typed",
           Begin(c, op, b, todo, seen)
    PROVE  TypeOK' /\ TriageInv' /\ UNCHANGED notes
<1> DEFINE k == [op |-> op, bin |-> b, at |-> NoVersion, todo |-> todo, seen |-> seen,
                 late |-> {}]
<1>1. /\ cmd' = [cmd EXCEPT ![c] = k] /\ Spend("command") /\ UNCHANGED <<content, notes, writer>>
  BY DEF Begin
<1>2. k \in Command /\ k.op = op /\ k.bin = b /\ k.at = NoVersion /\ k.todo = todo
      /\ k.seen = seen
  BY DEF Command
<1> HIDE DEF k
<1>3. scope' \in Scope
  BY <1>1, Spent DEF TypeOK
<1>4. QED
  BY <1>1, <1>2, <1>3, CommandTurns

LEMMA BeginsKeep ==
    ASSUME TypeOK, TriageInv, UNCHANGED runVars, NEW c \in Commands, NEW b \in scope.binaries,
           Annotate(c, b) \/ Erase(c, b) \/ Wipe(c, b) \/ RejectAi(c, b)
              \/ ValidateAi(c, b) \/ Import(c, b)
    PROVE  TypeOK' /\ TriageInv' /\ UNCHANGED notes
<1>1. /\ b \in Binaries /\ scope.functions \subseteq Functions
      /\ content[b] \in Versions
  BY DEF TypeOK, Scope
<1>2. \A f \in scope.functions : \A kinds \in SUBSET Kinds : {f} \X kinds \in SUBSET Slots
  BY <1>1 DEF Slots
<1>3. ASSUME NEW sources \in SUBSET Sources, "typed" \notin sources
      PROVE  /\ Listed(b, sources) \in SUBSET Slots
             /\ \A s \in Listed(b, sources) : notes[content[b]][s] # "typed"
  BY <1>3 DEF Listed
<1>4. "annotate" \notin Listing /\ "erase" \notin Listing /\ "wipe" \notin Listing
  BY DEF Listing
<1>5. CASE Annotate(c, b)
  BY <1>1, <1>2, <1>4, <1>5, BeginKeeps DEF Annotate
<1>6. CASE Erase(c, b)
  BY <1>1, <1>2, <1>4, <1>6, BeginKeeps DEF Erase
<1>7. CASE Wipe(c, b)
  BY <1>1, <1>2, <1>4, <1>7, BeginKeeps DEF Wipe
<1>8. {"ai"} \in SUBSET Sources /\ {"none", "ai", "import"} \in SUBSET Sources
      /\ "typed" \notin {"ai"} /\ "typed" \notin {"none", "ai", "import"}
  BY DEF Sources
<1>9. CASE RejectAi(c, b)
  <2>1. PICK area \in Areas :
           Begin(c, "reject", b, Listed(b, {"ai"}) \cap (area \X Kinds), content[b])
    BY <1>9 DEF RejectAi
  <2>2. QED
    BY <1>1, <1>3, <1>8, <2>1, BeginKeeps
<1>10. CASE ValidateAi(c, b)
  <2>1. PICK area \in Areas :
           Begin(c, "validate", b, Listed(b, {"ai"}) \cap (area \X Kinds), content[b])
    BY <1>10 DEF ValidateAi
  <2>2. QED
    BY <1>1, <1>3, <1>8, <2>1, BeginKeeps
<1>11. CASE Import(c, b)
  <2>1. PICK items \in Documents :
           Begin(c, "import", b, items \cap Listed(b, {"none", "ai", "import"}), content[b])
    BY <1>11 DEF Import
  <2>2. QED
    BY <1>1, <1>3, <1>8, <2>1, BeginKeeps
<1>12. QED
  BY <1>5, <1>6, <1>7, <1>9, <1>10, <1>11

LEMMA HashKeeps ==
    ASSUME TypeOK, TriageInv, UNCHANGED runVars, NEW c \in Commands, Hash(c)
    PROVE  TypeOK' /\ TriageInv' /\ UNCHANGED notes
<1> DEFINE v == content[cmd[c].bin]
           k == [cmd[c] EXCEPT !.at = v]
<1>1. /\ cmd[c].op \notin {"idle", "done"} /\ cmd' = [cmd EXCEPT ![c] = k]
      /\ UNCHANGED <<content, scope, notes, writer>>
  BY DEF Hash
<1>2. cmd[c] \in Command /\ cmd[c].bin \in Binaries /\ v \in Versions
  BY <1>1, CommandFields DEF TriageInv, CommandOK, TypeOK
<1> HIDE DEF v
<1>3. /\ k \in Command /\ k.op = cmd[c].op /\ k.bin = cmd[c].bin /\ k.todo = cmd[c].todo
      /\ k.seen = cmd[c].seen /\ k.late = cmd[c].late
  BY <1>2 DEF Command
<1> HIDE DEF k
<1>4. scope' \in Scope
  BY <1>1 DEF TypeOK
<1>5. \A s \in k.todo : k.op \in Listing /\ k.seen \in Versions
                          => notes[k.seen][s] # "typed" \/ s \in k.late
  BY <1>3 DEF TriageInv, ReviewInv
<1>6. QED
  BY <1>1, <1>2, <1>3, <1>4, <1>5, CommandTurns

LEMMA LockedKeeps ==
    ASSUME TypeOK, TriageInv, UNCHANGED runVars, NEW c \in Commands, Locked(c)
    PROVE  TypeOK' /\ TriageInv' /\ UNCHANGED notes
<1>1. cmd' = [cmd EXCEPT ![c] = Over] /\ UNCHANGED <<content, scope, notes, writer>>
  BY DEF Locked
<1>2. scope' \in Scope
  BY <1>1 DEF TypeOK
<1>3. QED
  BY <1>1, <1>2, OverTyped, CommandTurns

\* A note typed under a review is marked for it, so that no review decides upon it
\* unknowingly; what else replaces a typed note erases it or is a review.
LEMMA CommandWrites ==
    ASSUME TypeOK, TriageInv, UNCHANGED runVars, NEW c \in Commands, Write(c)
    PROVE  /\ TypeOK' /\ TriageInv'
           /\ \A v \in Versions : \A s \in Slots :
                notes[v][s] = "typed" /\ notes'[v][s] # "typed" => LostTo(c, v, s)
<1>1. PICK slots \in Covered(c) :
         /\ Replace(cmd[c].at, slots, Leaves(cmd[c].op))
         /\ cmd' = [Typed(c, cmd[c].at, slots) EXCEPT
                      ![c] = IF cmd[c].todo \ slots = {} THEN Over
                             ELSE [Typed(c, cmd[c].at, slots)[c] EXCEPT
                                     !.todo = cmd[c].todo \ slots, !.at = NoVersion]]
  BY DEF Write
<1> DEFINE v == cmd[c].at
           op == cmd[c].op
           rest == cmd[c].todo \ slots
           typed == Typed(c, v, slots)
           k == IF rest = {} THEN Over ELSE [typed[c] EXCEPT !.todo = rest, !.at = NoVersion]
<1>2. /\ v \in Versions /\ op \notin {"idle", "done"} /\ cmd[c] \in Command
      /\ cmd[c].bin \in Binaries /\ slots \subseteq cmd[c].todo /\ slots \subseteq Slots
  BY CommandFields DEF Write, TriageInv, CommandOK, Covered
<1>3. writer = NoWriter /\ writer' = NoWriter /\ UNCHANGED <<content, scope>>
  BY Writers DEF Write, MayWrite, TriageInv, LockAfterRefusal
<1>4. Leaves(op) \in Sources /\ (Leaves(op) = "typed" <=> op = "annotate")
  BY DEF Leaves, Sources
<1>5. /\ notes' \in [Versions -> [Slots -> Sources]]
      /\ \A x \in Versions : \A s \in Slots :
           notes'[x][s] = IF x = v /\ s \in slots THEN Leaves(op) ELSE notes[x][s]
  BY <1>1, <1>2, <1>4 DEF Replace, TypeOK
<1>6. \A d \in Commands :
         /\ typed[d] \in Command /\ typed[d].op = cmd[d].op /\ typed[d].bin = cmd[d].bin
         /\ typed[d].at = cmd[d].at /\ typed[d].todo = cmd[d].todo
         /\ typed[d].seen = cmd[d].seen
         /\ typed[d].late = IF op = "annotate" /\ cmd[d].op \in Listing /\ cmd[d].seen = v
                            THEN cmd[d].late \cup slots ELSE cmd[d].late
  <2>1. ASSUME NEW d \in Commands, op = "annotate" /\ cmd[d].op \in Listing /\ cmd[d].seen = v
        PROVE  /\ typed[d] = [cmd[d] EXCEPT !.late = cmd[d].late \cup slots]
               /\ [cmd[d] EXCEPT !.late = cmd[d].late \cup slots] \in Command
    <3>1. typed[d] = [cmd[d] EXCEPT !.late = cmd[d].late \cup slots]
      BY <2>1 DEF Typed
    <3>2. cmd[d] \in Command /\ cmd[d].late \cup slots \subseteq Slots
      BY <1>2, CommandFields
    <3>3. [cmd[d] EXCEPT !.late = cmd[d].late \cup slots] \in Command
      BY <3>2 DEF Command
    <3>4. QED
      BY <3>1, <3>3
  <2>2. ASSUME NEW d \in Commands, ~(op = "annotate" /\ cmd[d].op \in Listing /\ cmd[d].seen = v)
        PROVE  typed[d] = cmd[d]
    BY <2>2 DEF Typed
  <2> HIDE DEF typed, v, op
  <2>3. ASSUME NEW d \in Commands
        PROVE  /\ typed[d] \in Command /\ typed[d].op = cmd[d].op /\ typed[d].bin = cmd[d].bin
               /\ typed[d].at = cmd[d].at /\ typed[d].todo = cmd[d].todo
               /\ typed[d].seen = cmd[d].seen
               /\ typed[d].late = IF op = "annotate" /\ cmd[d].op \in Listing /\ cmd[d].seen = v
                                  THEN cmd[d].late \cup slots ELSE cmd[d].late
    <3>1. CASE op = "annotate" /\ cmd[d].op \in Listing /\ cmd[d].seen = v
      BY <2>1, <3>1, CommandFields DEF Command
    <3>2. CASE ~(op = "annotate" /\ cmd[d].op \in Listing /\ cmd[d].seen = v)
      BY <2>2, <3>2, CommandFields
    <3>3. QED
      BY <3>1, <3>2
  <2>4. QED
    BY <2>3
<1>7. typed = [d \in Commands |-> typed[d]]
  BY DEF Typed
<1> HIDE DEF typed
<1>8. /\ k \in Command /\ k.at = NoVersion /\ k.todo = rest
      /\ k = Over \/ (k.op = op /\ k.bin = cmd[c].bin /\ k.seen = cmd[c].seen
                      /\ k.late = typed[c].late)
  <2>1. CASE rest = {}
    BY <2>1, OverTyped
  <2>2. CASE rest # {}
    <3>1. rest \subseteq Slots /\ typed[c] \in Command
      BY <1>6, CommandFields
    <3>2. /\ k = [typed[c] EXCEPT !.todo = rest, !.at = NoVersion]
      BY <2>2
    <3> HIDE DEF rest, k
    <3>3. k \in Command /\ k.at = NoVersion /\ k.todo = rest /\ k.op = typed[c].op
          /\ k.bin = typed[c].bin /\ k.seen = typed[c].seen /\ k.late = typed[c].late
      BY <3>1, <3>2 DEF Command
    <3>4. QED
      BY <1>6, <3>3
  <2>3. QED
    BY <2>1, <2>2
<1>9. cmd' = [typed EXCEPT ![c] = k]
  BY <1>1 DEF typed
<1> HIDE DEF k, v, op, rest
<1>10. /\ cmd' \in [Commands -> Command] /\ cmd'[c] = k
       /\ \A d \in Commands \ {c} : cmd'[d] = typed[d]
  <2>1. typed \in [Commands -> Command]
    BY <1>6, <1>7
  <2>2. QED
    BY <1>8, <1>9, <2>1
<1>11. UNCHANGED <<run, shown, active, registry, timers, flags>>
  BY DEF runVars, host
<1>12. TypeOK'
  BY <1>3, <1>5, <1>10, <1>11 DEF TypeOK
<1>13. \A d \in Commands : CommandOK(d)'
  <2>1. CommandOK(c)'
    BY <1>2, <1>8, <1>10, OverTyped DEF CommandOK, op
  <2>2. ASSUME NEW d \in Commands, d # c PROVE CommandOK(d)'
    BY <1>6, <1>10, <2>2 DEF TriageInv, CommandOK
  <2>3. QED
    BY <2>1, <2>2
<1>14. \A d \in Commands : \A s \in cmd'[d].todo :
         s \in Slots /\ s \in cmd[d].todo
           /\ (cmd'[d].op \in Listing => /\ cmd'[d].op = cmd[d].op /\ cmd'[d].seen = cmd[d].seen
                                         /\ cmd'[d].late = typed[d].late)
  <2>1. ASSUME NEW s \in cmd'[c].todo
        PROVE  /\ s \in Slots /\ s \in cmd[c].todo
               /\ cmd'[c].op \in Listing => /\ cmd'[c].op = op /\ cmd'[c].seen = cmd[c].seen
                                            /\ cmd'[c].late = typed[c].late
    BY <1>8, <1>10, <2>1, CommandFields, OverTyped DEF rest
  <2>2. ASSUME NEW d \in Commands, d # c
        PROVE  cmd'[d] = typed[d]
    BY <1>10, <2>2
  <2>3. QED
    BY <1>6, <2>1, <2>2, CommandFields DEF op
<1>15. ReviewInv'
  <2>1. SUFFICES ASSUME NEW d \in Commands, NEW s \in cmd'[d].todo, cmd'[d].op \in Listing,
                        cmd'[d].seen \in Versions, notes'[cmd'[d].seen][s] = "typed"
                 PROVE  s \in cmd'[d].late
    BY DEF ReviewInv
  <2>2. /\ s \in Slots /\ s \in cmd[d].todo /\ cmd[d].op \in Listing /\ cmd[d].seen \in Versions
        /\ cmd'[d].seen = cmd[d].seen /\ cmd'[d].late = typed[d].late
    BY <1>14, <2>1
  <2>3. notes'[cmd[d].seen][s] = IF cmd[d].seen = v /\ s \in slots THEN Leaves(op)
                                 ELSE notes[cmd[d].seen][s]
    BY <1>5, <2>2
  <2>4. CASE cmd[d].seen = v /\ s \in slots
    <3>1. op = "annotate"
      BY <1>4, <2>1, <2>2, <2>3, <2>4
    <3>2. QED
      BY <1>6, <2>2, <2>4, <3>1
  <2>5. CASE ~(cmd[d].seen = v /\ s \in slots)
    <3>1. notes[cmd[d].seen][s] = "typed"
      BY <2>1, <2>2, <2>3, <2>5
    <3>2. s \in cmd[d].late
      BY <2>2, <3>1 DEF TriageInv, ReviewInv
    <3>3. QED
      BY <1>6, <2>2, <3>2
  <2>6. QED
    BY <2>4, <2>5
<1>16. ASSUME NEW x \in Versions, NEW s \in Slots, notes[x][s] = "typed",
              notes'[x][s] # "typed"
       PROVE  LostTo(c, x, s)
  <2>1. x = v /\ s \in slots /\ op # "annotate"
    BY <1>4, <1>5, <1>16
  <2>2. s \in cmd[c].todo \ cmd'[c].todo
    BY <1>2, <1>8, <1>10, <2>1 DEF rest
  <2>3. op \in {"erase", "wipe"} \/ op \in Listing
    BY <1>2, <2>1, CommandFields DEF op, Listing
  <2>4. CASE op \in {"erase", "wipe"}
    BY <2>2, <2>4 DEF LostTo, op
  <2>5. CASE op \in Listing /\ cmd[c].seen = x
    <3>1. s \in cmd[c].late
      BY <1>16, <2>2, <2>5 DEF TriageInv, ReviewInv, op
    <3>2. QED
      BY <2>2, <2>5, <3>1 DEF LostTo, op
  <2>6. CASE op \in Listing /\ cmd[c].seen # x
    BY <2>2, <2>6 DEF LostTo, op
  <2>7. QED
    BY <2>3, <2>4, <2>5, <2>6
<1>17. QED
  BY <1>3, <1>11, <1>12, <1>13, <1>15, <1>16, SameRuns DEF TriageInv

LEMMA RewriteKeeps ==
    ASSUME TypeOK, TriageInv, UNCHANGED runVars, NEW b \in Binaries, Rewrite(b)
    PROVE  TypeOK' /\ TriageInv' /\ UNCHANGED notes
<1>1. /\ UNCHANGED <<notes, writer, cmd, run, shown, active, registry, timers, flags>>
      /\ content' \in [Binaries -> Versions] /\ scope' \in Scope
  BY Spent DEF Rewrite, runVars, host, TypeOK
<1>2. TypeOK'
  BY <1>1 DEF TypeOK
<1>3. ReviewInv' /\ \A c \in Commands : CommandOK(c)'
  BY <1>1 DEF TriageInv, ReviewInv, CommandOK
<1>4. QED
  BY <1>1, <1>2, <1>3, SameRuns DEF TriageInv

-----------------------------------------------------------------------------
LEMMA TriageInit == Init => TypeOK /\ TriageInv
<1> SUFFICES ASSUME Init PROVE TypeOK /\ TriageInv
  OBVIOUS
<1>1. /\ scope \in Scope /\ content = scope.content /\ notes = scope.notes
      /\ writer = NoWriter /\ cmd = [c \in Commands |-> NoCommand]
      /\ run = [r \in Runs |-> NoRunYet]
      /\ shown = [b \in Binaries |-> NoRun] /\ active = [b \in Binaries |-> NoRun]
      /\ registry = {} /\ timers = {} /\ flags = {}
  BY ScopesAssumption DEF Init, AnnInit
<1>2. TypeOK
  <2>1. content \in [Binaries -> Versions] /\ notes \in [Versions -> [Slots -> Sources]]
    BY <1>1 DEF Scope
  <2>2. QED
    BY <1>1, <2>1, ClosedTyped, OverTyped DEF TypeOK
<1>3. \A r \in Runs : /\ run[r] = NoRunYet /\ run[r].pc = "idle" /\ ~run[r].orphan
                      /\ run[r].touched = {} /\ run[r].owed = {} /\ run[r].refused = {}
                      /\ run[r].pc \notin Open
  BY <1>1, ClosedTyped, LiveOpen
<1>4. \A c \in Commands : cmd[c].op = "idle" /\ cmd[c].at = NoVersion
  BY <1>1, OverTyped
<1>5. \A r \in Runs : RunOK(r) /\ Cancellable(r) /\ OwedInv(r) /\ ~Followed(r)
  BY <1>1, <1>3 DEF RunOK, Cancellable, OwedInv, Followed
<1>6. RunsTracked /\ ShownInv
  BY <1>1, <1>3, <1>5 DEF RunsTracked, Tracked, OneActiveRun, ShownInv
<1>7. StopsWriting /\ RefusedInv /\ LockAfterRefusal
  BY <1>1, <1>3 DEF StopsWriting, RefusedInv, LockAfterRefusal
<1>8. ReviewInv /\ \A c \in Commands : CommandOK(c)
  BY <1>4 DEF ReviewInv, CommandOK, Listing
<1>9. QED
  BY <1>2, <1>5, <1>6, <1>7, <1>8 DEF TriageInv

\* What one step is: quiet, a write of a run, or a write of a command.
LEMMA TriageStep ==
    ASSUME TypeOK, TriageInv, Next
    PROVE  /\ TypeOK' /\ TriageInv'
           /\ \A v \in Versions : \A s \in Slots :
                notes[v][s] = "typed" /\ notes'[v][s] # "typed"
                   => \E c \in Commands : LostTo(c, v, s)
<1> DEFINE Goal == TypeOK' /\ TriageInv'
                   /\ \A v \in Versions : \A s \in Slots :
                        notes[v][s] = "typed" /\ notes'[v][s] # "typed"
                          => \E c \in Commands : LostTo(c, v, s)
<1>1. scope.binaries \subseteq Binaries
  BY DEF TypeOK, Scope
<1>2. ASSUME NEW c \in Commands, CommandNext(c), UNCHANGED runVars PROVE Goal
  <2>1. CASE \E b \in scope.binaries :
               Annotate(c, b) \/ Erase(c, b) \/ Wipe(c, b) \/ RejectAi(c, b)
                  \/ ValidateAi(c, b) \/ Import(c, b)
    BY <1>2, <2>1, BeginsKeep
  <2>2. CASE Hash(c)
    BY <1>2, <2>2, HashKeeps
  <2>3. CASE Write(c)
    BY <1>2, <2>3, CommandWrites
  <2>4. CASE Locked(c)
    BY <1>2, <2>4, LockedKeeps
  <2>5. QED
    BY <1>2, <2>1, <2>2, <2>3, <2>4 DEF CommandNext
<1>3. ASSUME NEW b \in scope.binaries, Rewrite(b), UNCHANGED runVars PROVE Goal
  BY <1>1, <1>3, RewriteKeeps
<1>4. ASSUME NEW r \in Runs, RunNext(r) PROVE Goal
  <2>1. RunOK(r)
    BY DEF TriageInv
  <2>2. CASE \E b \in scope.binaries : Start(r, b)
    BY <1>1, <2>2, StartKeeps
  <2>3. CASE Refuse(r)
    <3>1. Done(r) /\ run[r].pc = "asking" /\ r \notin registry
          /\ UNCHANGED <<registry, timers, flags>>
      BY <2>3 DEF Refuse, TriageInv, Cancellable
    <3>2. registry' = registry \ {r}
      BY <3>1
    <3>3. QED
      BY <3>1, <3>2, DoneKeeps
  <2>4. CASE Spawn(r)
    BY <2>4, SpawnKeeps
  <2>5. CASE SpawnError(r)
    BY <2>5, DoneKeeps DEF SpawnError
  <2>6. CASE Close(r)
    BY <2>6, DoneKeeps DEF Close
  <2>7. CASE Select(r) \/ Take(r) \/ Stop(r) \/ Answer(r) \/ HashAi(r)
    <3>1. WalksQuietly(r)
      BY <2>1, <2>7, SelectWalks, TakeWalks, StopWalks, AnswerWalks, HashWalks
    <3>2. UNCHANGED notes
      BY <3>1 DEF WalksQuietly
    <3>3. QED
      BY <3>1, <3>2, QuietKeeps
  <2>8. CASE WriteAi(r)
    BY <2>8, WriteKeeps
  <2>9. CASE Finish(r) \/ LockedOut(r) \/ BrokenPipe(r) \/ Terminate(r)
    <3>1. Gone(r) /\ run[r].pc \in Live
      BY <2>9, LiveOpen DEF Finish, LockedOut, BrokenPipe, Terminate
    <3>2. QED
      BY <3>1, GoneKeeps
  <2>10. QED
    BY <1>4, <2>2, <2>3, <2>4, <2>5, <2>6, <2>7, <2>8, <2>9 DEF RunNext
<1>5. ASSUME NEW b \in Binaries, Cancel(b) PROVE Goal
  BY <1>5, CancelKeeps
<1>6. ASSUME ReopenPanel PROVE Goal
  BY <1>6, ReopenKeeps
<1>7. ASSUME ReloadWindow PROVE Goal
  BY <1>7, ReloadKeeps
<1> HIDE DEF Goal
<1>8. ASSUME AnnNext, UNCHANGED runVars PROVE Goal
  BY <1>2, <1>3, <1>8 DEF AnnNext
<1>9. Goal
  BY <1>4, <1>5, <1>6, <1>7, <1>8 DEF Next
<1>10. QED
  BY <1>9 DEF Goal

\* A step that changes nothing keeps everything.
LEMMA TriageStutter ==
    ASSUME TypeOK, TriageInv, UNCHANGED vars
    PROVE  TypeOK' /\ TriageInv' /\ UNCHANGED notes
<1>1. UNCHANGED <<content, scope, notes, writer, cmd, run, shown, active, registry, timers, flags>>
  BY DEF vars, annVars, runVars, host
<1>2. TypeOK'
  BY <1>1 DEF TypeOK
<1>3. ReviewInv' /\ \A c \in Commands : CommandOK(c)'
  BY <1>1 DEF TriageInv, ReviewInv, CommandOK
<1>4. QED
  BY <1>1, <1>2, <1>3, SameRuns DEF TriageInv

LEMMA TriageInductive == Spec => [](TypeOK /\ TriageInv)
<1>1. TypeOK /\ TriageInv /\ [Next]_vars => TypeOK' /\ TriageInv'
  BY TriageStep, TriageStutter
<1>2. QED
  BY TriageInit, <1>1, PTL DEF Spec

\* Every variable of the runs, the commands and the store keeps its type.
THEOREM TriageTypeCorrect == Spec => []TypeOK
  BY TriageInductive, PTL

\* However runs are started, cancelled, refused and reloaded, the tables of the host
\* (staticHandlers.ts and aiProcessRegistry.ts) agree with the processes, no cancel it
\* took is lost, and each panel follows one run at most that was not cancelled.
THEOREM RunsAreTracked == Spec => []RunsTracked
<1>1. TypeOK /\ TriageInv => RunsTracked
  BY DEF TriageInv
<1>2. QED
  BY TriageInductive, <1>1, PTL

\* auto_triage.py looks at the flag often enough: after a cancel, or the reload of the
\* window, a run writes to the one function it had in hand.
THEOREM RunsStopWriting == Spec => []StopsWriting
<1>1. TypeOK /\ TriageInv => StopsWriting
  BY DEF TriageInv
<1>2. QED
  BY TriageInductive, <1>1, PTL

\* The write lock of the store is left held only by a run that save_ai_annotation has
\* refused a note the user owns.
THEOREM LocksAfterRefusal == Spec => []LockAfterRefusal
<1>1. TypeOK /\ TriageInv => LockAfterRefusal
  BY DEF TriageInv
<1>2. QED
  BY TriageInductive, <1>1, PTL

\* No run, and no review or import that knew of it, replaces a note a person typed.
THEOREM UserNotesKept == Spec => UserNoteKept
<1> DEFINE Kept == \A v \in Versions, s \in Slots :
                     notes[v][s] = "typed" /\ notes'[v][s] # "typed"
                        => \E c \in Commands : LostTo(c, v, s)
<1>1. TypeOK /\ TriageInv /\ [Next]_vars => [Kept]_vars
  BY TriageStep
<1> HIDE DEF Kept
<1>2. Spec => [][Kept]_vars
  BY TriageInductive, <1>1, PTL DEF Spec
<1>3. QED
  BY <1>2 DEF Kept, UserNoteKept
=============================================================================
