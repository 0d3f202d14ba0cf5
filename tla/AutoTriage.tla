----------------------------- MODULE AutoTriage ------------------------------
(***************************************************************************)
(* Auto-triage: an AI provider names and documents the functions of a      *)
(* binary.  Four parties run it.                                           *)
(*   - the webview starts and cancels runs (autoTriageController.js);      *)
(*   - the extension host asks for consent, spawns the process, knows it   *)
(*     in aiProcessRegistry.ts and cancels it with a flag file and, five   *)
(*     seconds later, a signal (staticHandlers.ts);                        *)
(*   - the process walks the functions and writes the notes                *)
(*     (auto_triage.py) through the store of module Annotations;           *)
(*   - the user's commands write the same notes meanwhile.                 *)
(*                                                                         *)
(* A message of the webview and its handler are one step: both ends keep   *)
(* the order, and the handlers run to their first await at once.           *)
(***************************************************************************)
EXTENDS Annotations

CONSTANTS
    MaxRuns,     \* model bound: requests, numbered as the webview does
    NoFunction

ASSUME MaxRunsAssumption == MaxRuns \in Nat

Runs == 1 .. MaxRuns
NoRun == 0

ASSUME NoWriterIsNoRun == NoWriter \notin Runs
ASSUME RunsAreNotCommands == Runs \cap Commands = {}
ASSUME NoFunctionAssumption == NoFunction \notin Functions

VARIABLES
    run,       \* the handler of each request and the process it spawned
    shown,     \* webview: the run it believes active on each binary
    active,    \* host: _activeTriageRuns
    registry,  \* host: the requests aiProcessRegistry can cancel
    timers,    \* host: runs to signal when five seconds have passed
    flags      \* cancel flag files

host == <<active, registry, timers>>
runVars == <<run, shown, host, flags>>
vars == <<annVars, runVars>>

\* asking: the consent; unspawned: spawn failed, its event is due;
\* ended: the process is gone, its close event is due.
Live == {"tools", "loop", "analyzing", "writing", "summary"}
Open == Live \cup {"asking", "unspawned", "ended"}

\* todo: candidates left; fn: the one in hand; slots: kinds still to write;
\* orphan: its host is gone, and the reader of its output with it.
\* Ghosts: pressed tells whether cancel was pressed, "early" if before there was
\* a process; lost, that the panel it was started from is gone; owed, the function
\* in hand when its flag was set or its host went; touched, what it wrote to since;
\* refused, the notes that were kept from it since it opened a transaction.
Run ==
    [pc : Open \cup {"idle", "closed"}, bin : Binaries \cup {NoBinary},
     todo : SUBSET Functions, fn : Functions \cup {NoFunction},
     slots : SUBSET Kinds, at : Versions \cup {NoVersion}, orphan : BOOLEAN,
     pressed : {"no", "early", "late"}, lost : BOOLEAN,
     owed : SUBSET Functions, touched : SUBSET Functions,
     refused : SUBSET (Versions \X Slots)]

NoRunYet ==
    [pc |-> "idle", bin |-> NoBinary, todo |-> {}, fn |-> NoFunction,
     slots |-> {}, at |-> NoVersion, orphan |-> FALSE,
     pressed |-> "no", lost |-> FALSE, owed |-> {}, touched |-> {},
     refused |-> {}]

Closed == [NoRunYet EXCEPT !.pc = "closed"]

Init ==
    /\ AnnInit
    /\ run = [r \in Runs |-> NoRunYet]
    /\ shown = [b \in Binaries |-> NoRun]
    /\ active = [b \in Binaries |-> NoRun]
    /\ registry = {} /\ timers = {} /\ flags = {}

-----------------------------------------------------------------------------
(* The webview and the host. *)

Shown(bs) == {shown[b] : b \in bs} \ {NoRun}

\* hubAiCancel for these requests: cancelAiProcess finds the registered ones,
\* and their callback writes the flag and arms the timer.
CancelAll(rs) ==
    /\ registry' = registry \ rs
    /\ flags' = flags \cup (rs \cap registry)
    /\ timers' = timers \cup (rs \cap registry)

InHand(r, pcs) == IF run[r].pc \in pcs THEN {run[r].fn} ELSE {}

Pressed(rs) ==
    [r \in Runs |->
        IF r \in rs /\ run[r].pressed # "late"
        THEN [run[r] EXCEPT !.pressed = IF r \in registry THEN "late" ELSE "early",
                            !.owed = IF r \in registry THEN InHand(r, {"writing"}) ELSE @]
        ELSE run[r]]

\* The cancel button.
Cancel(b) ==
    /\ shown[b] # NoRun
    /\ CancelAll({shown[b]})
    /\ run' = Pressed({shown[b]})
    /\ UNCHANGED <<annVars, shown, active>>

\* Mutant: runs on other binaries go on.
StartBeside(r, b) ==
    /\ run[r].pc = "idle" /\ \A q \in 1 .. (r - 1) : run[q].pc # "idle"
    /\ shown[b] = NoRun
    /\ active[b] = NoRun
    /\ Spend("run")
    /\ run' = [run EXCEPT ![r] = [@ EXCEPT !.pc = "asking", !.bin = b]]
    /\ active' = [active EXCEPT ![b] = r]
    /\ shown' = [shown EXCEPT ![b] = r]
    /\ UNCHANGED <<content, notes, writer, cmd, registry, timers, flags>>

\* confirmRun cancels the runs shown on the other binaries and posts
\* hubAutoTriageStart.  The host refuses it where it knows of a run, or where
\* the binary or its mapping is missing; it is known from here on otherwise.
Start(r, b) ==
    LET others == Shown(Binaries \ {b}) IN
    /\ run[r].pc = "idle" /\ \A q \in 1 .. (r - 1) : run[q].pc # "idle"
    /\ shown[b] = NoRun
    /\ Spend("run")
    /\ CancelAll(others)
    /\ \/ /\ active[b] = NoRun
          /\ run' = [Pressed(others) EXCEPT ![r] = [@ EXCEPT !.pc = "asking", !.bin = b]]
          /\ active' = [active EXCEPT ![b] = r]
          /\ shown' = [shown EXCEPT ![b] = r]
       \/ /\ run' = [Pressed(others) EXCEPT ![r] = Closed]
          /\ UNCHANGED <<active, shown>>
    /\ UNCHANGED <<content, notes, writer, cmd>>

\* Mutant: the host holds on to the binary of a run that is over.
DoneStillHeld(r) ==
    /\ run' = [run EXCEPT ![r] = Closed]
    /\ shown' = [b \in Binaries |-> IF shown[b] = r THEN NoRun ELSE shown[b]]
    /\ UNCHANGED <<annVars, active>>

\* The run is over: hubAutoTriageDone reaches the panel that shows it, and the
\* host gives up its binary if it is held for this request.
Done(r) ==
    /\ run' = [run EXCEPT ![r] = Closed]
    /\ shown' = [b \in Binaries |-> IF shown[b] = r THEN NoRun ELSE shown[b]]
    /\ active' = [active EXCEPT ![run[r].bin] = IF @ = r THEN NoRun ELSE @]
    /\ UNCHANGED annVars

\* The check fails, or the user does not allow it.
Refuse(r) ==
    /\ run[r].pc = "asking"
    /\ Done(r)
    /\ UNCHANGED <<registry, timers, flags>>

\* Allowed: an old flag is removed, the process spawned and registered.
Spawn(r) ==
    /\ run[r].pc = "asking"
    /\ \E pc \in {"tools", "unspawned"} : run' = [run EXCEPT ![r].pc = pc]
    /\ flags' = flags \ {r}
    /\ registry' = registry \cup {r}
    /\ UNCHANGED <<annVars, shown, active, timers>>

\* The 'error' event of a process that did not start: no flag is removed.
SpawnError(r) ==
    /\ run[r].pc = "unspawned"
    /\ Done(r)
    /\ registry' = registry \ {r}
    /\ timers' = timers \ {r}
    /\ UNCHANGED flags

\* The 'close' event.  A timer that fires later finds resultSent.
Close(r) ==
    /\ run[r].pc = "ended"
    /\ Done(r)
    /\ registry' = registry \ {r}
    /\ timers' = timers \ {r}
    /\ flags' = flags \ {r}

\* The panel is closed and opened again; the handlers of the host go on.
ReopenPanel ==
    /\ Spend("reload")
    /\ shown' = [b \in Binaries |-> NoRun]
    /\ run' = [r \in Runs |-> IF run[r].pc \in Open THEN [run[r] EXCEPT !.lost = TRUE]
                              ELSE run[r]]
    /\ UNCHANGED <<content, notes, writer, cmd, host, flags>>

\* The window is reloaded: a new host, and processes that nobody reads.
ReloadWindow ==
    /\ Spend("reload")
    /\ shown' = [b \in Binaries |-> NoRun]
    /\ active' = [b \in Binaries |-> NoRun]
    /\ registry' = {} /\ timers' = {}
    /\ run' = [r \in Runs |->
                 IF run[r].pc \in Live
                 THEN [run[r] EXCEPT !.orphan = TRUE,
                         !.owed = IF run[r].orphan \/ r \in flags THEN @
                                  ELSE InHand(r, {"analyzing", "writing"})]
                 ELSE IF run[r].pc \in Open THEN Closed
                 ELSE run[r]]
    /\ UNCHANGED <<content, notes, writer, cmd, flags>>

-----------------------------------------------------------------------------
(* The process.  It prints at every turn, and dies of the broken pipe if      *)
(* nobody reads.                                                              *)

Quietly == UNCHANGED <<annVars, shown, host, flags>>

\* An open transaction goes with its connection.
Gone(r) ==
    /\ run' = [run EXCEPT ![r] =
                 IF @.orphan THEN Closed
                 ELSE [@ EXCEPT !.pc = "ended", !.todo = {}, !.fn = NoFunction,
                                !.slots = {}, !.at = NoVersion, !.refused = {}]]
    /\ writer' = IF writer = r THEN NoWriter ELSE writer
    /\ UNCHANGED <<content, scope, notes, cmd, shown, host, flags>>

\* The tools run, the rows are listed, and the functions that lack a name or a
\* comment become the candidates.
Select(r) ==
    /\ run[r].pc = "tools" /\ ~run[r].orphan
    /\ run' = [run EXCEPT ![r] = [@ EXCEPT !.pc = "loop",
                 !.todo = {f \in scope.functions : \E k \in Kinds :
                                notes[content[run[r].bin]][<<f, k>>] = "none"}]]
    /\ Quietly

\* The next candidate: the flag is looked at first.
Take(r) ==
    /\ run[r].pc = "loop" /\ ~run[r].orphan
    /\ r \notin flags
    /\ \E f \in run[r].todo :
        run' = [run EXCEPT ![r] = [@ EXCEPT !.pc = "analyzing", !.fn = f,
                                            !.todo = run[r].todo \ {f}]]
    /\ Quietly

\* No candidate is left, the flag is set or a budget is spent.
Stop(r) ==
    /\ run[r].pc = "loop" /\ ~run[r].orphan
    /\ run' = [run EXCEPT ![r] = [@ EXCEPT !.pc = "summary", !.todo = {}]]
    /\ Quietly

\* Mutant: the flag is looked at between functions only.
AnswerUnchecked(r) ==
    /\ run[r].pc = "analyzing"
    /\ \E slots \in SUBSET Kinds :
        run' = [run EXCEPT ![r] = [@ EXCEPT
                 !.pc = IF slots = {} THEN "loop" ELSE "writing",
                 !.fn = IF slots = {} THEN NoFunction ELSE run[r].fn,
                 !.slots = slots]]
    /\ Quietly

\* The provider answers.  The flag is looked at again; else what the answer
\* holds is to be written, and nothing if it is an error.
Answer(r) ==
    /\ run[r].pc = "analyzing"
    /\ \/ /\ r \in flags
          /\ run' = [run EXCEPT ![r] = [@ EXCEPT !.pc = "summary", !.fn = NoFunction, !.todo = {}]]
       \/ /\ r \notin flags
          /\ \E slots \in SUBSET Kinds :
              run' = [run EXCEPT ![r] = [@ EXCEPT
                       !.pc = IF slots = {} THEN "loop" ELSE "writing",
                       !.fn = IF slots = {} THEN NoFunction ELSE run[r].fn,
                       !.slots = slots]]
    /\ Quietly

\* ai_rename comes before ai_comment.
NextKind(r) == IF "rename" \in run[r].slots THEN "rename" ELSE "comment"

\* Mutant: the notes are filed under the path.
HashPath(r) ==
    /\ run[r].pc = "writing" /\ run[r].at = NoVersion
    /\ run' = [run EXCEPT ![r].at = run[r].bin]
    /\ Quietly

HashAi(r) ==
    /\ run[r].pc = "writing" /\ run[r].at = NoVersion
    /\ run' = [run EXCEPT ![r].at = content[run[r].bin]]
    /\ Quietly

WriteAi(r) ==
    /\ run[r].pc = "writing" /\ run[r].at # NoVersion
    /\ SaveAi(r, run[r].at, <<run[r].fn, NextKind(r)>>)
    /\ LET rest == run[r].slots \ {NextKind(r)} IN
        run' = [run EXCEPT ![r] =
                 [@ EXCEPT !.at = NoVersion, !.slots = rest,
                           !.pc = IF rest = {} THEN "loop" ELSE "writing",
                           !.fn = IF rest = {} THEN NoFunction ELSE run[r].fn,
                           !.refused = IF writer' = r
                                       THEN run[r].refused
                                              \cup {<<run[r].at, <<run[r].fn, NextKind(r)>>>>}
                                       ELSE {},
                           !.touched = IF r \in flags \/ run[r].orphan
                                       THEN run[r].touched \cup {run[r].fn}
                                       ELSE run[r].touched]]
    /\ UNCHANGED <<content, scope, cmd, shown, host, flags>>

\* The summary is asked for and the report written: exit code 0.
Finish(r) == run[r].pc = "summary" /\ ~run[r].orphan /\ Gone(r)

\* "database is locked" after 5 seconds: the exception ends the process.
LockedOut(r) ==
    /\ run[r].pc = "writing" /\ run[r].at # NoVersion
    /\ ~MayWrite(r)
    /\ Gone(r)

BrokenPipe(r) == run[r].orphan /\ run[r].pc \in {"tools", "loop", "summary"} /\ Gone(r)

\* Mutant: a call to the provider is not interrupted.
TerminateBetween(r) == r \in timers /\ run[r].pc \in Live \ {"analyzing"} /\ Gone(r)

\* The timer of cancelRequest: SIGTERM, wherever the process is.
Terminate(r) == r \in timers /\ run[r].pc \in Live /\ Gone(r)

RunNext(r) ==
    \/ \E b \in scope.binaries : Start(r, b)
    \/ Refuse(r) \/ Spawn(r) \/ SpawnError(r) \/ Close(r)
    \/ Select(r) \/ Take(r) \/ Stop(r) \/ Answer(r) \/ HashAi(r) \/ WriteAi(r)
    \/ Finish(r) \/ LockedOut(r) \/ BrokenPipe(r) \/ Terminate(r)

Next ==
    \/ AnnNext /\ UNCHANGED runVars
    \/ \E r \in Runs : RunNext(r)
    \/ \E b \in Binaries : Cancel(b)
    \/ ReopenPanel
    \/ ReloadWindow

\* A timer fires and an event of the host is handled.  The provider owes nothing.
Fairness == \A r \in Runs : WF_vars(Terminate(r)) /\ WF_vars(Close(r)) /\ WF_vars(SpawnError(r))

Spec == Init /\ [][Next]_vars /\ Fairness

-----------------------------------------------------------------------------
TypeOK ==
    /\ content \in [Binaries -> Versions]
    /\ scope \in Scope
    /\ notes \in [Versions -> [Slots -> Sources]]
    /\ writer \in Commands \cup Runs \cup {NoWriter}
    /\ cmd \in [Commands -> Command]
    /\ run \in [Runs -> Run]
    /\ shown \in [Binaries -> Runs \cup {NoRun}]
    /\ active \in [Binaries -> Runs \cup {NoRun}]
    /\ registry \subseteq Runs /\ timers \subseteq Runs /\ flags \subseteq Runs

\* A note a person typed is lost only to a command that erases it, or to a
\* review or import that listed the rows before it was typed, or that listed
\* them under another content of the file.  No AI run ever replaces it.
LostTo(c, v, s) ==
    /\ s \in cmd[c].todo \ cmd'[c].todo
    /\ \/ cmd[c].op \in {"erase", "wipe"}
       \/ cmd[c].op \in Listing /\ (cmd[c].seen # v \/ s \in cmd[c].late)

UserNoteKept ==
    [][\A v \in Versions, s \in Slots :
         notes[v][s] = "typed" /\ notes'[v][s] # "typed"
            => \E c \in Commands : LostTo(c, v, s)]_vars

\* The host's two tables agree with the processes: a run that is open is the
\* one its binary is held for, and can be cancelled unless it has been; a
\* binary is held by nothing else; a cancel that was taken is never lost.
Tracked ==
    /\ \A r \in Runs : run[r].pc \in Open /\ ~run[r].orphan =>
        /\ active[run[r].bin] = r
        /\ run[r].pc # "asking" /\ run[r].pressed # "late" => r \in registry
        /\ run[r].pressed = "late" => r \in flags /\ r \in timers
    /\ \A r \in registry : run[r].pc \in Open
    /\ \A b \in Binaries : active[b] # NoRun =>
        LET owner == run[active[b]] IN
        owner.pc \in Open /\ owner.bin = b /\ ~owner.orphan

\* One run at a time for each panel: two are open together only if one of them
\* has been cancelled, be it in vain because its process did not exist yet.
Followed(r) == run[r].pc \in Open /\ ~run[r].orphan /\ ~run[r].lost

OneActiveRun ==
    \A r, q \in Runs : r # q /\ Followed(r) /\ Followed(q)
        => run[r].pressed # "no" \/ run[q].pressed # "no"

\* The host knows the runs there are, and lets one go on in each panel.
RunsTracked == Tracked /\ OneActiveRun

\* Once its cancel was taken a run writes to the function it was writing, and to
\* no other; once its host is gone, to the one it had asked the provider for.
StopsWriting ==
    \A r \in Runs :
        /\ run[r].touched \subseteq run[r].owed
        /\ \A f, g \in run[r].owed : f = g

\* Only a run leaves the write lock held between two writes, and only after the
\* user's notes made the store refuse one.
LockAfterRefusal ==
    writer # NoWriter =>
        /\ writer \in Runs /\ run[writer].pc \in Live \ {"tools"}
        /\ run[writer].refused # {}
        /\ \A x \in run[writer].refused : notes[x[1]][x[2]] \in UserOwned

\* A cancel that the host took ends the run, whatever the provider does.
CancelEnds ==
    \A r \in Runs :
        run[r].pressed = "late" ~> run[r].pc = "closed" \/ run[r].orphan
=============================================================================
