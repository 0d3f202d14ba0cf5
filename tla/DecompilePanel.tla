---------------------------- MODULE DecompilePanel ----------------------------
(* The pseudo-C panel of the hub: the selection, the answers kept and awaited by  *)
(* the webview (front/static/payload.js, tools.js, front/shared/messages.js) and   *)
(* the host that runs the decompilers side by side (static/staticHandlers.ts).     *)
(*                                                                          *)
(* The webview is one record; its functions are operators from one record to the   *)
(* next, and a handler is a composition of them.  A message of the host is handled *)
(* when it is posted; what a decompiler takes is the time until then.  A view of   *)
(* the next animation frame belongs to the step that asks for it.                *)
EXTENDS Integers, Sequences, SequencesExt, FiniteSets

CONSTANTS
    ViewBinaries,    \* binaries the user may select
    Entries,         \* the functions of each, positive addresses
    Decompilers,     \* their places in the order of decompilers.json, from 1
    MaxDecompiles,   \* bound: requests to the host
    NoPayload, NoCode, Loader,
    DecScopes        \* the moves of the user in a behaviour, and how many

ASSUME DecompileAssumption ==
    /\ Entries \in [ViewBinaries -> SUBSET (Nat \ {0})]
    /\ Decompilers \subseteq Nat \ {0} /\ IsFiniteSet(Decompilers)
    /\ MaxDecompiles \in Nat
    /\ \A s \in DecScopes : s.moves \in Nat /\ s.first \in ViewBinaries

\* The global view's address, the decompiler of the automatic mode, and the score of
\* an error: all of them empty in the code.
Full == 0
Automatic == 0
Failed == 0

Addresses == UNION {Entries[b] : b \in ViewBinaries}
Scores == {1, 2}

VARIABLES
    view,      \* the webview
    decRuns,   \* the requests the host works on
    decScope

decVars == <<view, decRuns, decScope>>

NotAsked == [stage |-> "none"]

\* The webview before the tab is first shown.  Ghost: what it shows has gone astray when
\* a pill has shown an answer, or the list of functions was filled again and another one
\* is selected, and nothing was asked for since.
Unshown(b) ==
    [binary |-> b, active |-> FALSE, options |-> {}, picked |-> Full, held |-> Full,
     manual |-> FALSE, cursor |-> Full, forced |-> Automatic, best |-> Automatic, done |-> {},
     payloads |-> [d \in Decompilers |-> NoPayload],
     rendered |-> [at |-> <<>>, addr |-> Full, by |-> Automatic], content |-> NoCode,
     kept |-> <<>>, pending |-> {}, fresh |-> FALSE, history |-> <<>>, place |-> 0, astray |-> FALSE]

DecInit ==
    /\ decScope \in DecScopes /\ view = Unshown(decScope.first)
    /\ decRuns = [r \in 1..MaxDecompiles |-> NotAsked]

-----------------------------------------------------------------------------
(* The functions of the webview *)

\* getDecompileSelectionContext
SelectedAddr(v) ==
    IF v.picked # Full THEN v.picked ELSE IF v.manual THEN Full ELSE v.held

\* buildDecompileRequestKey.  A function's name goes with its address; the global view
\* has none, and is kept under the name that comes with the answer.
KeyFor(b, by, a, name) == [binary |-> b, by |-> by, addr |-> a, name |-> name]
ChosenKey(v) == KeyFor(v.binary, v.forced, SelectedAddr(v), SelectedAddr(v))

\* syncDecompileSelection: the function at an address, unless one was chosen by hand.
Synced(v, a, force) ==
    LET chosen == IF v.picked # Full THEN v.picked ELSE v.held
        target == IF a \in v.options THEN a ELSE IF v.held \in v.options THEN v.held ELSE v.picked
        kept == ~force /\ v.manual /\ chosen \in v.options
        sel == IF kept THEN chosen ELSE target
    IN [v EXCEPT !.picked = sel, !.held = sel, !.manual = @ /\ ~force]

\* populateDecompileSelect
Populated(v, options) ==
    LET was == IF v.picked # Full THEN v.picked ELSE v.held
        u == [v EXCEPT !.options = options, !.picked = IF was \in options THEN was ELSE Full]
        w == IF was \notin options /\ v.cursor # Full THEN Synced(u, v.cursor, TRUE) ELSE u
        x == [w EXCEPT !.held = w.picked]
    IN [x EXCEPT !.astray = @ \/ SelectedAddr(x) # SelectedAddr(v)]

\* renderDecompilePayload
Rendered(v, p) ==
    [v EXCEPT !.rendered = [at |-> <<p.binary>>, addr |-> p.addr,
                            by |-> IF p.by = Automatic THEN v.forced ELSE p.by],
              !.held = p.addr, !.content = p, !.fresh = @ \/ p.score # Failed]

\* pushDecompileHistoryEntry
Remembered(v) ==
    LET e == [by |-> v.forced, addr |-> SelectedAddr(v)]
    IN IF v.place > 0 /\ v.history[v.place] = e THEN v
       ELSE [v EXCEPT !.history = Append(SubSeq(@, 1, v.place), e), !.place = @ + 1]

\* requestDecompileForCurrentSelection
Requested(v, skipHistory, refresh) ==
    LET k == ChosenKey(v)
        w == IF skipHistory THEN v ELSE Remembered(v)
        u == [w EXCEPT !.held = SelectedAddr(v), !.fresh = FALSE, !.done = {}, !.best = Automatic,
                       !.payloads = [d \in Decompilers |-> NoPayload], !.astray = FALSE,
                       !.kept = [x \in DOMAIN @ \ (IF refresh THEN {k} ELSE {}) |-> @[x]]]
    IN IF k \in DOMAIN u.kept THEN Rendered(u, u.kept[k])
       ELSE IF k \in u.pending THEN u
       ELSE [u EXCEPT !.pending = @ \cup {k}, !.content = Loader]

\* What is shown is compared with what is selected, the automatic mode never being
\* the decompiler of anything rendered.
Refreshed(v) ==
    IF v.rendered # [at |-> <<v.binary>>, addr |-> v.held, by |-> v.forced]
    THEN Requested(v, FALSE, FALSE) ELSE v

Cursor(v) == IF v.cursor # Full THEN v.cursor ELSE v.held

\* _autoLoadTab, unless the tab holds a result, and showSubTab's next frame.
Opened(v) ==
    LET u == IF v.fresh THEN v
             ELSE Requested(Synced([v EXCEPT !.content = Loader], Cursor(v), FALSE), FALSE, FALSE)
    IN Refreshed(Synced(u, Cursor(u), FALSE))

\* clearDecompileCaches
Forgetful(v) == [v EXCEPT !.kept = <<>>, !.pending = {}, !.history = <<>>, !.place = 0]

-----------------------------------------------------------------------------
(* The user, and what the other messages of the host do to the panel *)

\* hubLoadDecompile is posted for the key that is newly awaited.
Asking(before, v) ==
    /\ view' = v
    /\ IF v.pending \subseteq before THEN UNCHANGED decRuns
       ELSE \E r \in 1..MaxDecompiles :
              /\ decRuns[r].stage = "none" /\ \A q \in 1..(r - 1) : decRuns[q].stage # "none"
              /\ \E k \in v.pending \ before :
                    decRuns' = [decRuns EXCEPT ![r] =
                        [stage |-> "list", binary |-> k.binary, addr |-> k.addr, want |-> k.by,
                         left |-> {}, first |-> TRUE, top |-> 0, topAt |-> 0]]

Moves(kind) ==
    /\ decScope.moves > 0 /\ kind \in decScope.kinds
    /\ decScope' = [decScope EXCEPT !.moves = @ - 1]

Move(kind, v) == Moves(kind) /\ Asking(view.pending, v)

\* The list of functions, while the tab is shown.
PickFunction ==
    /\ view.active
    /\ \E a \in view.options \cup {Full} :
          Move("pick", Requested([view EXCEPT !.picked = a, !.manual = TRUE,
                                              !.cursor = IF a = Full THEN @ ELSE a], FALSE, FALSE))

\* hubActiveAddr
MoveCursor ==
    \E a \in Entries[view.binary] :
        LET v == Synced([view EXCEPT !.cursor = a], a, view.active /\ ~view.manual)
        IN Move("cursor", IF view.active THEN Refreshed(v) ELSE v)

ShowTab == ~view.active /\ Move("tab", Opened([view EXCEPT !.active = TRUE]))

LeaveTab == view.active /\ Move("tab", [view EXCEPT !.active = FALSE])

\* A pill shows what its decompiler last answered, the automatic one the best.
Pill(d, shown) ==
    LET v == [view EXCEPT !.forced = d, !.astray = TRUE]
        p == IF shown = Automatic THEN NoPayload ELSE view.payloads[shown]
    IN view.active /\ Move("pill", IF p = NoPayload THEN v ELSE Rendered(v, p))

PillAuto == Pill(Automatic, view.best)
PillOf == \E d \in view.done : Pill(d, d)

\* The decompiler of the settings.
ChooseDecompiler ==
    \E d \in Decompilers :
        LET v == [view EXCEPT !.forced = d]
        IN Move("settings", IF view.active THEN Requested(v, TRUE, FALSE) ELSE v)

Rebuild == view.active /\ Move("rebuild", Requested(view, TRUE, TRUE))

\* applyDecompileHistoryStep
StepHistory ==
    \E i \in {view.place - 1, view.place + 1} \cap DOMAIN view.history :
        LET e == view.history[i]
            v == [view EXCEPT !.place = i, !.held = e.addr,
                              !.picked = IF e.addr \in view.options THEN e.addr ELSE Full,
                              !.forced = IF e.by = Automatic THEN @ ELSE e.by]
        IN view.active /\ Move("history", Requested(v, TRUE, FALSE))

\* hubSetBinaryPath: what was derived from the old binary is dropped, but not what the
\* panel shows, nor the functions listed until the symbols have come.
SelectOther ==
    \E b \in ViewBinaries \ {view.binary} :
        LET v == [Forgetful(view) EXCEPT !.binary = b, !.held = Full, !.cursor = Full, !.fresh = FALSE,
                                         !.rendered = [@ EXCEPT !.at = <<>>, !.addr = Full]]
        IN Moves("binary") /\ Asking({}, IF view.active THEN Opened(v) ELSE v)

\* hubSymbols
SymbolsRead ==
    /\ view.options # Entries[view.binary] /\ UNCHANGED decScope
    /\ LET v == Populated(view, Entries[view.binary])
       IN Asking(view.pending,
                 IF v.active /\ v.rendered.addr # v.picked THEN Requested(v, FALSE, FALSE) ELSE v)

\* hubAnnotations, after a note that shows in the listing.
NotesChanged == Moves("notes") /\ Asking({}, Populated(Forgetful(view), view.options))

-----------------------------------------------------------------------------
(* The host *)

AnswerTo(r, t, score, silent, better) ==
    [binary |-> r.binary, addr |-> r.addr, by |-> t, score |-> score, silent |-> silent, better |-> better]

\* The name an answer goes by: its own, or else that of the selection.
AnsweredAs(v, msg) == IF msg.addr # Full THEN msg.addr ELSE SelectedAddr(v)

\* Mutant: the automatic mode's key is left awaited.
SettledOwn(v, msg) == {KeyFor(msg.binary, msg.by, msg.addr, AnsweredAs(v, msg))}

\* The keys an answer settles: its own, and that of the automatic mode.
Settled(v, msg) == {KeyFor(msg.binary, by, msg.addr, AnsweredAs(v, msg)) : by \in {msg.by, Automatic}}

\* Mutant: binaries alone are compared, as isStaleStaticBinaryResponse does.
StaleOfBinary(v, msg) == msg.binary # v.binary

\* The answer is for another selection than the one the user looks at.
StaleAnswer(v, msg) == msg.binary # v.binary \/ msg.addr # SelectedAddr(v)

\* hubDecompile
Received(v, msg) ==
    LET p == [binary |-> msg.binary, addr |-> msg.addr, by |-> msg.by, score |-> msg.score]
        keys == Settled(v, msg)
        u == [v EXCEPT !.payloads = [d \in Decompilers |-> IF d = msg.by THEN p ELSE @[d]],
                       !.pending = @ \ keys,
                       !.kept = IF p.score = Failed THEN @
                                ELSE [k \in keys \cup DOMAIN @ |-> IF k \in keys THEN p ELSE @[k]],
                       !.best = IF msg.better THEN msg.by ELSE @]
        render == IF v.forced = Automatic THEN msg.better \/ ~msg.silent ELSE v.forced = msg.by
    IN IF ~StaleAnswer(v, msg) /\ render THEN Rendered(u, p) ELSE u

\* The decompilers to launch: the one asked for, those available, the choice of
\* decompile.py if they cannot be listed, or none at all.
Launch ==
    \E r \in 1..MaxDecompiles :
        LET run == decRuns[r] IN
        /\ run.stage = "list"
        /\ \/ \E targets \in IF run.want # Automatic THEN {{run.want}} ELSE {Decompilers, {Automatic}} :
                 /\ decRuns' = [decRuns EXCEPT ![r] = [run EXCEPT !.stage = "running", !.left = targets]]
                 /\ view' = [view EXCEPT !.done = @ \ targets]
           \/ /\ run.want = Automatic
              /\ decRuns' = [decRuns EXCEPT ![r] = [stage |-> "over"]]
              /\ view' = Received(view, AnswerTo(run, Automatic, Failed, FALSE, FALSE))
        /\ UNCHANGED decScope

WithoutTarget(run, t) ==
    IF run.left = {t} THEN [stage |-> "over"] ELSE [run EXCEPT !.left = @ \ {t}, !.first = FALSE]

\* A decompiler fails: nothing but its status is posted unless it is the first to end.
RunFails ==
    \E r \in 1..MaxDecompiles :
        LET run == decRuns[r] IN
        /\ run.stage = "running"
        /\ \E t \in run.left :
              /\ decRuns' = [decRuns EXCEPT ![r] = WithoutTarget(run, t)]
              /\ LET v == [view EXCEPT !.done = @ \ {t}]
                 IN view' = IF run.first THEN Received(v, AnswerTo(run, t, Failed, FALSE, FALSE)) ELSE v
        /\ UNCHANGED decScope

\* A decompiler answers; the higher score is better, the earlier one of two equals.
RunAnswers ==
    \E r \in 1..MaxDecompiles :
        LET run == decRuns[r] IN
        /\ run.stage = "running"
        /\ \E t \in run.left, s \in Scores :
              LET better == s > run.top \/ (s = run.top /\ t < run.topAt)
                  next == IF better THEN [run EXCEPT !.top = s, !.topAt = t] ELSE run
              IN /\ decRuns' = [decRuns EXCEPT ![r] = WithoutTarget(next, t)]
                 /\ view' = Received([view EXCEPT !.done = @ \cup ({t} \cap Decompilers)],
                                     AnswerTo(run, t, s, ~run.first, better))
        /\ UNCHANGED decScope

DecNext ==
    \/ PickFunction \/ MoveCursor \/ ShowTab \/ LeaveTab \/ PillAuto \/ PillOf
    \/ ChooseDecompiler \/ Rebuild \/ StepHistory \/ SelectOther \/ SymbolsRead \/ NotesChanged
    \/ Launch \/ RunFails \/ RunAnswers

DecSpec == DecInit /\ [][DecNext]_decVars

-----------------------------------------------------------------------------
(* Properties *)

Payloads == [binary : ViewBinaries, addr : Addresses \cup {Full}, by : Decompilers \cup {Automatic},
             score : Scores \cup {Failed}]

DecTypeOK ==
    /\ view.binary \in ViewBinaries /\ view.options \subseteq Addresses
    /\ {view.picked, view.held, view.cursor} \subseteq Addresses \cup {Full}
    /\ {view.forced, view.best} \subseteq Decompilers \cup {Automatic} /\ view.done \subseteq Decompilers
    /\ view.content \in Payloads \cup {NoCode, Loader}
    /\ \A k \in DOMAIN view.kept : view.kept[k] \in Payloads /\ view.kept[k].score # Failed
    /\ \A k \in view.pending : k \in [binary : ViewBinaries, by : Decompilers \cup {Automatic},
                                      addr : Addresses \cup {Full}, name : Addresses \cup {Full}]
    /\ view.place \in 0..Len(view.history)
    /\ \A r \in 1..MaxDecompiles : decRuns[r].stage \in {"none", "list", "running", "over"}

\* A request whose first answer is still to come.
Expected(b, a) ==
    \E r \in 1..MaxDecompiles :
        /\ decRuns[r].stage \in {"list", "running"}
        /\ decRuns[r].first /\ decRuns[r].binary = b /\ decRuns[r].addr = a

\* A function is not asked for twice because its request is awaited, and then the
\* answer is really on its way: whatever is answered, forgotten and asked again, no
\* function is left awaited for ever.  And one function's code is never shown as
\* another's: if the panel shows another than the selected one, the latter's answer
\* is still to come.  (A pill shows the last answer of its decompiler, whatever it was
\* for; a list that is filled again may select the cursor's function without asking for
\* it, populateDecompileSelect; and the global view has no name to be awaited by: these
\* three are excepted, the first two until the next request.)
CodeOfSelected ==
    /\ \A k \in view.pending :
          k.addr # Full =>
            \E r \in 1..MaxDecompiles :
                /\ decRuns[r].stage \in {"list", "running"} /\ decRuns[r].first
                /\ decRuns[r].binary = k.binary /\ decRuns[r].addr = k.addr /\ decRuns[r].want = k.by
    /\ LET shown == view.content
           a == SelectedAddr(view)
       IN view.active /\ ~view.astray /\ shown \notin {NoCode, Loader} /\ shown.addr # Full /\ a # Full
            => (shown.binary = view.binary /\ shown.addr = a) \/ Expected(view.binary, a)
=============================================================================
