---------------------------- MODULE TraceSession ----------------------------
(* The dynamic traces of the hub: the runTrace handler of static/hub.ts, the   *)
(* history of hub/traceHistory.ts, and the webview's run button and session    *)
(* (front/dynamic/runTraceController.js, runtimeSessionController.js).         *)
(*                                                                          *)
(* One hub panel is open at a time; closing it leaves the runs it started      *)
(* going in the host, and the next panel has a history handler and a webview   *)
(* of its own.  The number of the latest run is shared by all panels.          *)
(* Compilation, symbols and the trace itself are one step that ends or fails.  *)
EXTENDS Integers, Sequences, FiniteSets

CONSTANTS
    TracedBinaries, \* what may be selected and traced
    MaxRuns,        \* bound: runs begun
    MaxPanels,      \* bound: panels opened
    MaxAsked        \* bound: selections and requests on the history

ASSUME TraceAssumption ==
    /\ TracedBinaries # {}
    /\ {MaxRuns, MaxPanels, MaxAsked} \subseteq Nat \ {0}

RunIds == 1..MaxRuns

VARIABLES
    latest,         \* latestTraceRunId
    runs,           \* per run begun: its panel, its binary and how far it is
    panel,          \* the panel that is open
    selected,       \* the binary selected in its webview
    disabled,       \* runBtn.disabled
    submitted,      \* runTrace messages on their way: the binary of each
    session,        \* the run the webview shows, 0 for none
    posted,         \* messages on their way to the webview
    traces,         \* the runs whose trace file exists
    active,         \* _activeDynamicTracePath of the open panel, 0 for ''
    opening,        \* openDynamicTraceHistory handlers awaiting hubSetBinaryPath
    historyAsked    \* requests on the history made so far

traceVars == <<latest, runs, panel, selected, disabled, submitted, session, posted,
               traces, active, opening, historyAsked>>

Stages == {"working", "metadata", "posting", "over"}
Ready(r) == [type |-> "dynamicTraceReady", run |-> r, binary |-> runs[r].binary]
Done(r) == [type |-> "runTraceDone", run |-> r, binary |-> runs[r].binary]
Cleared(r) == [type |-> "dynamicTraceCleared", run |-> r, binary |-> runs[r].binary]
SetBinary(r) == [type |-> "hubSetBinaryPath", run |-> r, binary |-> runs[r].binary]

TraceInit ==
    /\ latest = 0 /\ runs = <<>>
    /\ panel = 1 /\ selected \in TracedBinaries
    /\ disabled = FALSE /\ submitted = <<>>
    /\ session = 0 /\ posted = <<>>
    /\ traces = {} /\ active = 0
    /\ opening = {} /\ historyAsked = 0

-----------------------------------------------------------------------------
(* The webview *)

SelectBinary(b) ==
    /\ b # selected /\ historyAsked < MaxAsked
    /\ selected' = b /\ historyAsked' = historyAsked + 1
    /\ UNCHANGED <<latest, runs, panel, disabled, submitted, session, posted, traces, active, opening>>

\* Mutant: the button stays enabled.
SubmitEnabled ==
    /\ ~disabled
    /\ submitted' = Append(submitted, selected)
    /\ UNCHANGED <<latest, runs, panel, selected, disabled, session, posted, traces, active, opening, historyAsked>>

\* handleSubmit
Submit ==
    /\ ~disabled
    /\ disabled' = TRUE
    /\ submitted' = Append(submitted, selected)
    /\ UNCHANGED <<latest, runs, panel, selected, session, posted, traces, active, opening, historyAsked>>

\* Mutant: the answer for another binary is dropped before the button is enabled.
EnabledIfCurrent(m) == IF m.type = "runTraceDone" /\ m.binary = selected THEN FALSE ELSE disabled

\* The button after a message: whatever the binary of the run that is over.
Enabled(m) == IF m.type = "runTraceDone" THEN FALSE ELSE disabled

\* The session after a message: a trace of another binary is dropped.
Shown(m) ==
    CASE m.type = "dynamicTraceReady" /\ m.binary = selected -> m.run
      [] m.type = "dynamicTraceCleared" -> 0
      [] OTHER -> session

Deliver ==
    /\ posted # <<>>
    /\ LET m == Head(posted) IN
       /\ disabled' = Enabled(m)
       /\ session' = Shown(m)
       /\ selected' = IF m.type = "hubSetBinaryPath" THEN m.binary ELSE selected
    /\ posted' = Tail(posted)
    /\ UNCHANGED <<latest, runs, panel, submitted, traces, active, opening, historyAsked>>

\* The panel is closed and another one opened: what was on its way is lost.
ReopenHub ==
    /\ panel < MaxPanels
    /\ panel' = panel + 1
    /\ disabled' = FALSE /\ submitted' = <<>>
    /\ session' = 0 /\ posted' = <<>> /\ active' = 0 /\ opening' = {}
    /\ UNCHANGED <<latest, runs, selected, traces, historyAsked>>

-----------------------------------------------------------------------------
(* The runTrace handler *)

Begin ==
    /\ submitted # <<>> /\ latest < MaxRuns
    /\ latest' = latest + 1
    /\ runs' = Append(runs, [panel |-> panel, binary |-> Head(submitted), stage |-> "working"])
    /\ submitted' = Tail(submitted)
    /\ UNCHANGED <<panel, selected, disabled, session, posted, traces, active, opening, historyAsked>>

Posts(r, msgs) == posted' = IF runs[r].panel = panel THEN posted \o msgs ELSE posted

At(r, stage) == r \in DOMAIN runs /\ runs[r].stage = stage
Goes(r, stage) == runs' = [runs EXCEPT ![r].stage = stage]

\* The finally block: only the latest run answers.
Finally(r) ==
    /\ Goes(r, "over")
    /\ Posts(r, IF r = latest THEN <<Done(r)>> ELSE <<>>)

\* An invalid input, a compilation, the pipeline or a read that fails.
TraceFails(r) ==
    /\ At(r, "working") \/ At(r, "metadata")
    /\ Finally(r)
    /\ UNCHANGED <<latest, panel, selected, disabled, submitted, session, traces, active, opening, historyAsked>>

\* The pipeline has written the isolated trace.  It is dropped if a newer run has
\* begun; else the metadata of the binary is awaited.
TraceWritten(r) ==
    /\ At(r, "working")
    /\ traces' = traces \cup {r}
    /\ IF r # latest THEN Finally(r) ELSE Goes(r, "metadata") /\ UNCHANGED posted
    /\ UNCHANGED <<latest, panel, selected, disabled, submitted, session, active, opening, historyAsked>>

\* The trace is written again, active, and on its way to the webview; a panel
\* that was closed throws there.
Publish(r) ==
    /\ At(r, "metadata")
    /\ traces' = traces \cup {r}
    /\ IF runs[r].panel = panel
       THEN Goes(r, "posting") /\ active' = r /\ Posts(r, <<Ready(r)>>)
       ELSE Finally(r) /\ UNCHANGED active
    /\ UNCHANGED <<latest, panel, selected, disabled, submitted, session, opening, historyAsked>>

TracePosted(r) ==
    /\ At(r, "posting")
    /\ Finally(r)
    /\ UNCHANGED <<latest, panel, selected, disabled, submitted, session, traces, active, opening, historyAsked>>

-----------------------------------------------------------------------------
(* The history *)

Asks == historyAsked < MaxAsked /\ historyAsked' = historyAsked + 1

\* openDynamicTraceHistory, up to its await.
OpenTrace(r) ==
    /\ Asks /\ r \in traces /\ r \notin opening
    /\ active' = r
    /\ posted' = Append(posted, SetBinary(r))
    /\ opening' = opening \cup {r}
    /\ UNCHANGED <<latest, runs, panel, selected, disabled, submitted, session, traces>>

TraceOpened(r) ==
    /\ r \in opening
    /\ opening' = opening \ {r}
    /\ posted' = Append(posted, Ready(r))
    /\ UNCHANGED <<latest, runs, panel, selected, disabled, submitted, session, traces, active, historyAsked>>

\* Mutant: the trace that is active is only forgotten by the webview.
DeleteTracesOnly(gone) ==
    /\ traces' = traces \ gone
    /\ posted' = IF active \in gone THEN Append(posted, Cleared(active)) ELSE posted
    /\ UNCHANGED active

\* deleteDynamicTraceArtifacts
DeleteTraces(gone) ==
    /\ traces' = traces \ gone
    /\ IF active \in gone
       THEN active' = 0 /\ posted' = Append(posted, Cleared(active))
       ELSE UNCHANGED <<active, posted>>

DeleteTrace ==
    /\ Asks
    /\ \E gone \in {{r} : r \in traces} \cup {traces} : gone # {} /\ DeleteTraces(gone)
    /\ UNCHANGED <<latest, runs, panel, selected, disabled, submitted, session, opening>>

TraceNext ==
    \/ \E b \in TracedBinaries : SelectBinary(b)
    \/ Submit \/ Deliver \/ ReopenHub \/ Begin \/ DeleteTrace
    \/ \E r \in RunIds :
          \/ TraceFails(r) \/ TraceWritten(r) \/ Publish(r) \/ TracePosted(r)
          \/ OpenTrace(r) \/ TraceOpened(r)

TraceSpec == TraceInit /\ [][TraceNext]_traceVars

-----------------------------------------------------------------------------
(* Properties *)

\* The variables have their types.
TraceTypeOK ==
    /\ latest = Len(runs) /\ latest \in 0..MaxRuns
    /\ \A r \in DOMAIN runs : runs[r].stage \in Stages /\ runs[r].panel \in 1..panel
    /\ disabled \in BOOLEAN /\ Len(submitted) <= 1
    /\ session \in 0..latest /\ active \in 0..latest
    /\ traces \subseteq DOMAIN runs /\ opening \subseteq DOMAIN runs

\* The run button is never lost: while it is disabled the request is on its way to
\* the host, or the run it started is the latest one and not over, or the answer
\* is on its way back.  So dropping what a superseded run answers, and what is
\* answered for another binary, never leaves the user unable to run again.
ButtonFreed ==
    disabled =>
        \/ submitted # <<>>
        \/ latest # 0 /\ runs[latest].panel = panel /\ runs[latest].stage # "over"
        \/ \E i \in DOMAIN posted : posted[i].type = "runTraceDone"

\* The trace the host believes is shown is in the history: whatever the order of
\* runs that end, traces opened and traces deleted, the active path is a file.
ActiveExists == active # 0 => active \in traces
=============================================================================
