------------------------- MODULE TraceSession_proofs -------------------------
(***************************************************************************)
(* What TraceSession keeps for any number of runs, panels, binaries and    *)
(* requests on the history, and what SimulatedLibc tells of its calls for  *)
(* any memory, input, formats, arguments and limits.                       *)
(***************************************************************************)
EXTENDS TraceSession, SimulatedLibc, SequenceTheorems, WellFoundedInduction, TLAPS

Messages ==
    [type : {"dynamicTraceReady", "runTraceDone", "dynamicTraceCleared", "hubSetBinaryPath"},
     run : Nat, binary : TracedBinaries]

RunRecords == [panel : Nat, binary : TracedBinaries, stage : Stages]

\* TraceTypeOK with what the type of the next state rests on.
TraceTypeInv ==
    /\ latest \in Nat /\ latest <= MaxRuns
    /\ runs \in Seq(RunRecords) /\ Len(runs) = latest
    /\ \A r \in DOMAIN runs : runs[r].panel \in 1..panel
    /\ panel \in Nat \ {0}
    /\ selected \in TracedBinaries
    /\ disabled \in BOOLEAN
    /\ submitted \in Seq(TracedBinaries)
    /\ session \in 0..latest /\ active \in 0..latest
    /\ posted \in Seq(Messages)
    /\ \A i \in DOMAIN posted : posted[i].run \in 0..latest
    /\ traces \subseteq DOMAIN runs /\ opening \subseteq DOMAIN runs
    /\ historyAsked \in Nat

Running == latest # 0 /\ runs[latest].panel = panel /\ runs[latest].stage # "over"
Answers == {i \in DOMAIN posted : posted[i].type = "runTraceDone"}

\* The button is disabled by exactly one thing at a time: a request on its way,
\* the latest run of this panel, or its answer.
ButtonInv ==
    /\ disabled <=> submitted # <<>> \/ Running \/ Answers # {}
    /\ submitted # <<>> => ~Running /\ Answers = {} /\ Len(submitted) = 1
    /\ Running => Answers = {}
    /\ \A i, j \in Answers : i = j

TraceInv == TraceTypeInv /\ ButtonInv /\ ActiveExists

-----------------------------------------------------------------------------
(* The messages on their way *)

LEMMA MessagesTyped ==
    ASSUME TraceTypeInv, NEW r \in DOMAIN runs
    PROVE  /\ runs[r] \in RunRecords /\ r \in 1..latest
           /\ \A m \in {Ready(r), Done(r), Cleared(r), SetBinary(r)} :
                 m \in Messages /\ m.run = r
<1>1. runs[r] \in RunRecords /\ r \in 1..latest
  BY DEF TraceTypeInv
<1>2. runs[r].binary \in TracedBinaries
  BY <1>1 DEF RunRecords
<1>3. QED
  BY <1>1, <1>2 DEF Ready, Done, Cleared, SetBinary, Messages

\* A message is added at the end.
LEMMA PostedMore ==
    ASSUME TraceTypeInv, NEW m \in Messages, m.run \in 0..latest,
           posted' = Append(posted, m), latest' >= latest, latest' \in Nat
    PROVE  /\ posted' \in Seq(Messages)
           /\ \A i \in DOMAIN posted' : posted'[i].run \in 0..latest'
           /\ m.type # "runTraceDone" => Answers' = Answers
           /\ m.type = "runTraceDone" => Answers' = Answers \cup {Len(posted) + 1}
<1>1. posted' \in Seq(Messages) /\ Len(posted') = Len(posted) + 1
  BY DEF TraceTypeInv
<1>2. DOMAIN posted = 1..Len(posted) /\ Len(posted) \in Nat
  BY DEF TraceTypeInv
<1>3. DOMAIN posted' = 1..(Len(posted) + 1)
  BY <1>1
<1>4. \A i \in DOMAIN posted : posted'[i] = posted[i]
  BY <1>2 DEF TraceTypeInv
<1>5. posted'[Len(posted) + 1] = m
  BY DEF TraceTypeInv
<1>6. \A i \in DOMAIN posted' : posted'[i].run \in 0..latest'
  BY <1>2, <1>3, <1>4, <1>5 DEF TraceTypeInv
<1>7. Answers' = {i \in DOMAIN posted' : posted'[i].type = "runTraceDone"}
  BY DEF Answers
<1>8. QED
  BY <1>1, <1>2, <1>3, <1>4, <1>5, <1>6, <1>7 DEF Answers

\* The first message is delivered: the answers that are left are those behind it.
LEMMA PostedLess ==
    ASSUME TraceTypeInv, posted # <<>>, posted' = Tail(posted), latest' = latest
    PROVE  /\ posted' \in Seq(Messages)
           /\ \A i \in DOMAIN posted' : posted'[i].run \in 0..latest'
           /\ Head(posted) = posted[1] /\ 1 \in DOMAIN posted /\ posted[1] \in Messages
           /\ Answers' = {i \in DOMAIN posted' : i + 1 \in Answers}
           /\ 1 \notin Answers /\ Answers # {} => Answers' # {}
<1>1. DOMAIN posted = 1..Len(posted) /\ Len(posted) \in Nat \ {0}
  BY DEF TraceTypeInv
<1>2. posted' \in Seq(Messages) /\ DOMAIN posted' = 1..(Len(posted) - 1)
  BY <1>1 DEF TraceTypeInv
<1>3. \A i \in DOMAIN posted' : posted'[i] = posted[i + 1] /\ i + 1 \in DOMAIN posted
  BY <1>1, <1>2 DEF TraceTypeInv
<1>4. Head(posted) = posted[1] /\ posted[1] \in Messages
  BY <1>1 DEF TraceTypeInv
<1>5. Answers' = {i \in DOMAIN posted' : posted'[i].type = "runTraceDone"}
  BY DEF Answers
<1>6. Answers' = {i \in DOMAIN posted' : i + 1 \in Answers}
  BY <1>3, <1>5 DEF Answers
<1>7. ASSUME 1 \notin Answers, NEW a \in Answers
      PROVE  a - 1 \in Answers'
  <2>1. a \in 2..Len(posted)
    BY <1>1, <1>7 DEF Answers
  <2>2. a - 1 \in DOMAIN posted' /\ (a - 1) + 1 = a
    BY <1>1, <1>2, <2>1
  <2>3. QED
    BY <1>6, <2>2
<1>8. \A i \in DOMAIN posted' : posted'[i].run \in 0..latest'
  BY <1>3 DEF TraceTypeInv
<1>9. QED
  BY <1>1, <1>2, <1>4, <1>6, <1>7, <1>8

\* A run that goes to another stage.
LEMMA StageChanged ==
    ASSUME TraceTypeInv, NEW r \in DOMAIN runs, NEW s \in Stages, Goes(r, s),
           latest' = latest, panel' = panel
    PROVE  /\ runs' \in Seq(RunRecords) /\ Len(runs') = Len(runs) /\ DOMAIN runs' = DOMAIN runs
           /\ \A q \in DOMAIN runs : runs'[q].panel \in 1..panel
           /\ Running' <=> IF r = latest THEN runs[r].panel = panel /\ s # "over" ELSE Running
<1>1. runs \in [1..latest -> RunRecords] /\ latest \in Nat
  BY DEF TraceTypeInv
<1>2. /\ DOMAIN runs' = DOMAIN runs
      /\ runs' \in [1..latest -> RunRecords]
      /\ \A q \in DOMAIN runs : runs'[q].panel = runs[q].panel
      /\ \A q \in DOMAIN runs : runs'[q].stage = IF q = r THEN s ELSE runs[q].stage
  BY <1>1 DEF Goes, RunRecords
<1>3. runs' \in Seq(RunRecords) /\ Len(runs') = latest
  BY <1>1, <1>2
<1>4. latest # 0 => latest \in DOMAIN runs
  BY <1>1
<1>5. r = latest => latest # 0
  BY <1>1
<1>6. Running' <=> latest # 0 /\ runs'[latest].panel = panel /\ runs'[latest].stage # "over"
  BY DEF Running
<1>7. Running' <=> IF r = latest THEN runs[r].panel = panel /\ s # "over" ELSE Running
  BY <1>2, <1>4, <1>5, <1>6 DEF Running
<1>8. QED
  BY <1>1, <1>2, <1>3, <1>7 DEF TraceTypeInv

-----------------------------------------------------------------------------
(* The steps *)

LEMMA TraceInitInv == ASSUME TraceInit PROVE TraceInv
<1>1. MaxRuns \in Nat /\ latest = 0 /\ runs = <<>> /\ submitted = <<>> /\ posted = <<>>
  BY TraceAssumption DEF TraceInit
<1>2. Answers = {} /\ ~Running
  BY <1>1 DEF Answers, Running
<1>3. runs \in Seq(RunRecords) /\ Len(runs) = 0 /\ DOMAIN runs = {}
  BY <1>1
<1>4. submitted \in Seq(TracedBinaries) /\ posted \in Seq(Messages) /\ DOMAIN posted = {}
  BY <1>1
<1>5. TraceTypeInv
  <2>1. /\ latest = 0 /\ 0 <= MaxRuns /\ panel = 1 /\ selected \in TracedBinaries /\ disabled = FALSE
        /\ session = 0 /\ active = 0 /\ traces = {} /\ opening = {} /\ historyAsked = 0
    BY <1>1 DEF TraceInit
  <2>2. \A r \in DOMAIN runs : runs[r].panel \in 1..panel
    BY <1>3
  <2>3. \A i \in DOMAIN posted : posted[i].run \in 0..latest
    BY <1>4
  <2>4. traces \subseteq DOMAIN runs /\ opening \subseteq DOMAIN runs
    BY <2>1
  <2>5. latest \in Nat /\ latest <= MaxRuns /\ panel \in Nat \ {0} /\ historyAsked \in Nat
    BY <2>1
  <2>6. session \in 0..latest /\ active \in 0..latest
    BY <2>1
  <2>7. disabled \in BOOLEAN
    BY <2>1
  <2>8. Len(runs) = latest
    BY <1>3, <2>1
  <2>9. QED
    BY <1>3, <1>4, <2>1, <2>2, <2>3, <2>4, <2>5, <2>6, <2>7, <2>8 DEF TraceTypeInv
<1>6. QED
  BY <1>1, <1>2, <1>5 DEF TraceInit, TraceInv, ButtonInv, ActiveExists

\* A step that leaves the button, the request, the runs and the answers alone.
LEMMA ButtonKept ==
    ASSUME ButtonInv, UNCHANGED <<disabled, submitted, latest, runs, panel>>, Answers' = Answers
    PROVE  ButtonInv'
  BY DEF ButtonInv, Running

LEMMA SelectBinaryStep ==
    ASSUME TraceInv, NEW b \in TracedBinaries, SelectBinary(b) PROVE TraceInv'
<1>1. TraceTypeInv'
  BY DEF TraceInv, TraceTypeInv, SelectBinary
<1>2. Answers' = Answers
  BY DEF Answers, SelectBinary
<1>3. QED
  BY <1>1, <1>2, ButtonKept DEF TraceInv, SelectBinary, ActiveExists

LEMMA SubmitStep == ASSUME TraceInv, Submit PROVE TraceInv'
<1>1. /\ submitted' \in Seq(TracedBinaries)
      /\ submitted = <<>> => submitted' # <<>> /\ Len(submitted') = 1
  BY DEF TraceInv, TraceTypeInv, Submit
<1>2. TraceTypeInv'
  BY <1>1 DEF TraceInv, TraceTypeInv, Submit
<1>3. Answers' = Answers /\ Running' = Running
  BY DEF Answers, Running, Submit
<1>4. submitted = <<>> /\ Answers = {} /\ ~Running
  BY DEF TraceInv, ButtonInv, Submit
<1>5. ButtonInv'
  BY <1>1, <1>3, <1>4 DEF ButtonInv, Submit
<1>6. QED
  BY <1>2, <1>5 DEF TraceInv, Submit, ActiveExists

LEMMA DeliverStep == ASSUME TraceInv, Deliver PROVE TraceInv'
<1>1. TraceTypeInv /\ posted # <<>> /\ posted' = Tail(posted) /\ latest' = latest
  BY DEF TraceInv, Deliver
<1>2. /\ posted' \in Seq(Messages)
      /\ \A i \in DOMAIN posted' : posted'[i].run \in 0..latest'
      /\ Head(posted) = posted[1] /\ 1 \in DOMAIN posted /\ posted[1] \in Messages
      /\ Answers' = {i \in DOMAIN posted' : i + 1 \in Answers}
      /\ 1 \notin Answers /\ Answers # {} => Answers' # {}
  BY <1>1, PostedLess
<1>3. session' \in 0..latest' /\ selected' \in TracedBinaries /\ disabled' \in BOOLEAN
  <2>1. posted[1].run \in 0..latest /\ posted[1].binary \in TracedBinaries
    BY <1>1, <1>2 DEF TraceTypeInv, Messages
  <2>2. disabled' \in BOOLEAN
    BY <1>1 DEF Deliver, Enabled, TraceTypeInv
  <2>3. session' \in {posted[1].run, 0, session}
    BY <1>2 DEF Deliver, Shown
  <2>4. QED
    BY <1>1, <1>2, <2>1, <2>2, <2>3 DEF Deliver, TraceTypeInv
<1>4. TraceTypeInv'
  BY <1>1, <1>2, <1>3 DEF TraceTypeInv, Deliver
<1>5. (Running' <=> Running) /\ submitted' = submitted
  BY DEF Running, Deliver
<1>6. ASSUME 1 \in Answers PROVE ButtonInv'
  <2>1. disabled' = FALSE
    BY <1>2, <1>6 DEF Answers, Deliver, Enabled
  <2>2. submitted = <<>> /\ ~Running
    BY <1>6 DEF TraceInv, ButtonInv
  <2>3. ASSUME NEW i \in Answers' PROVE FALSE
    <3>1. i + 1 \in Answers /\ i \in DOMAIN posted'
      BY <1>2, <2>3
    <3>2. i + 1 = 1
      BY <1>6, <3>1 DEF TraceInv, ButtonInv
    <3>3. i \in Nat \ {0}
      BY <1>2, <3>1
    <3>4. QED
      BY <3>2, <3>3
  <2>4. Answers' = {}
    BY <2>3
  <2>5. QED
    BY <1>5, <2>1, <2>2, <2>4 DEF ButtonInv
<1>7. ASSUME 1 \notin Answers PROVE ButtonInv'
  <2>1. disabled' = disabled
    BY <1>2, <1>7 DEF Answers, Deliver, Enabled
  <2>2. Answers' = {} <=> Answers = {}
    BY <1>2, <1>7
  <2>3. ASSUME NEW i \in Answers', NEW j \in Answers' PROVE i = j
    <3>1. i + 1 \in Answers /\ j + 1 \in Answers /\ i \in Nat /\ j \in Nat
      BY <1>2, <2>3
    <3>2. i + 1 = j + 1
      BY <3>1 DEF TraceInv, ButtonInv
    <3>3. QED
      BY <3>1, <3>2
  <2>4. QED
    BY <1>5, <2>1, <2>2, <2>3 DEF TraceInv, ButtonInv
<1>8. ActiveExists'
  BY DEF TraceInv, Deliver, ActiveExists
<1>9. ButtonInv'
  BY <1>6, <1>7
<1>10. QED
  BY <1>4, <1>8, <1>9 DEF TraceInv

LEMMA ReopenHubStep == ASSUME TraceInv, ReopenHub PROVE TraceInv'
<1>1. TraceTypeInv /\ panel' = panel + 1 /\ latest' = latest /\ runs' = runs
  BY DEF TraceInv, ReopenHub
<1>2. \A r \in DOMAIN runs : runs[r].panel \in 1..panel' /\ runs[r].panel # panel'
  BY <1>1 DEF TraceTypeInv
<1>3. TraceTypeInv'
  <2>1. submitted' = <<>> /\ posted' = <<>>
    BY DEF ReopenHub
  <2>2. submitted' \in Seq(TracedBinaries) /\ posted' \in Seq(Messages) /\ DOMAIN posted' = {}
    BY <2>1
  <2>3. /\ session' = 0 /\ active' = 0 /\ opening' = {} /\ disabled' = FALSE
        /\ UNCHANGED <<latest, runs, selected, traces, historyAsked>>
    BY DEF ReopenHub
  <2>4. \A i \in DOMAIN posted' : posted'[i].run \in 0..latest'
    BY <2>2
  <2>5. panel \in Nat \ {0} /\ latest \in Nat
    BY <1>1 DEF TraceTypeInv
  <2>6. panel' \in Nat \ {0}
    BY <1>1, <2>5
  <2>7. disabled' \in BOOLEAN
    BY <2>3
  <2>8. session' \in 0..latest' /\ active' \in 0..latest'
    BY <2>3, <2>5
  <2>9. \A r \in DOMAIN runs' : runs'[r].panel \in 1..panel'
    BY <1>1, <1>2
  <2>10. QED
    BY <1>1, <2>2, <2>3, <2>4, <2>6, <2>7, <2>8, <2>9 DEF TraceTypeInv
<1>4. ~Running'
  <2>1. latest # 0 => latest \in DOMAIN runs
    BY <1>1 DEF TraceTypeInv
  <2>2. QED
    BY <1>1, <1>2, <2>1 DEF Running
<1>5. Answers' = {}
  BY DEF Answers, ReopenHub
<1>6. QED
  BY <1>3, <1>4, <1>5 DEF TraceInv, ButtonInv, ActiveExists, ReopenHub

LEMMA BeginStep == ASSUME TraceInv, Begin PROVE TraceInv'
<1>. DEFINE new == [panel |-> panel, binary |-> Head(submitted), stage |-> "working"]
<1>1. TraceTypeInv /\ submitted # <<>> /\ Len(submitted) = 1 /\ Answers = {} /\ disabled
  BY DEF TraceInv, ButtonInv, Begin
<1>2. new \in RunRecords /\ submitted' = <<>>
  <2>1. Head(submitted) \in TracedBinaries /\ panel \in Nat
    BY <1>1 DEF TraceTypeInv
  <2>2. Tail(submitted) = <<>>
    <3>1. submitted \in Seq(TracedBinaries) /\ Len(submitted) = 1
      BY <1>1 DEF TraceTypeInv
    <3>2. Tail(submitted) \in Seq(TracedBinaries) /\ Len(Tail(submitted)) = 0
      BY <3>1
    <3>3. QED
      BY <3>2, EmptySeq
  <2>3. QED
    BY <2>1, <2>2 DEF Begin, RunRecords, Stages
<1>3. /\ runs' \in Seq(RunRecords) /\ Len(runs') = latest + 1
      /\ DOMAIN runs' = 1..(latest + 1) /\ DOMAIN runs = 1..latest
      /\ \A q \in DOMAIN runs : runs'[q] = runs[q]
      /\ runs'[latest + 1] = new
  BY <1>1, <1>2 DEF TraceTypeInv, Begin
<1>4. latest' = latest + 1 /\ latest \in Nat /\ latest' <= MaxRuns
  BY <1>1, TraceAssumption DEF TraceTypeInv, Begin
<1>5. new.panel \in 1..panel'
  BY <1>1 DEF TraceTypeInv, Begin
<1>6. \A q \in DOMAIN runs' : runs'[q].panel \in 1..panel'
  BY <1>1, <1>3, <1>5 DEF TraceTypeInv, Begin
<1>7. posted' = posted /\ \A i \in DOMAIN posted' : posted'[i].run \in 0..latest'
  BY <1>1, <1>4 DEF TraceTypeInv, Begin
<1>8. submitted' \in Seq(TracedBinaries) /\ session' \in 0..latest' /\ active' \in 0..latest'
  BY <1>1, <1>2, <1>4 DEF TraceTypeInv, Begin
<1>9. TraceTypeInv'
  BY <1>1, <1>3, <1>4, <1>6, <1>7, <1>8 DEF TraceTypeInv, Begin
<1>10. Running' /\ Answers' = {}
  BY <1>1, <1>3, <1>4, <1>7 DEF Running, Answers, Begin
<1>11. ButtonInv'
  BY <1>1, <1>2, <1>10 DEF ButtonInv, Begin
<1>12. QED
  BY <1>9, <1>11 DEF TraceInv, Begin, ActiveExists

\* A run that goes on in the panel that started it, and posts nothing.
LEMMA StageKept ==
    ASSUME TraceInv, NEW r \in DOMAIN runs, NEW s \in Stages \ {"over"},
           runs[r].stage # "over", Goes(r, s),
           UNCHANGED <<latest, panel, disabled, submitted>>, Answers' = Answers
    PROVE  ButtonInv'
<1>1. r # latest \/ runs[r].panel # panel => Running' = Running
  <2>1. r = latest => latest # 0
    BY DEF TraceInv, TraceTypeInv
  <2>2. QED
    BY <2>1, StageChanged DEF TraceInv, Running
<1>2. r = latest /\ runs[r].panel = panel => Running' /\ Running
  <2>1. r = latest => latest # 0
    BY DEF TraceInv, TraceTypeInv
  <2>2. QED
    BY <2>1, StageChanged DEF TraceInv, Running
<1>3. QED
  BY <1>1, <1>2 DEF TraceInv, ButtonInv

\* The finally block: the run that is over answers if it is the latest one of the
\* panel that is open, and then no other answer is on its way.
LEMMA FinallyButton ==
    ASSUME TraceInv, NEW r \in DOMAIN runs, runs[r].stage # "over", Finally(r),
           UNCHANGED <<latest, panel, disabled, submitted>>
    PROVE  /\ runs' \in Seq(RunRecords) /\ Len(runs') = Len(runs) /\ DOMAIN runs' = DOMAIN runs
           /\ \A q \in DOMAIN runs : runs'[q].panel \in 1..panel
           /\ posted' \in Seq(Messages)
           /\ \A i \in DOMAIN posted' : posted'[i].run \in 0..latest'
           /\ ButtonInv'
<1>1. TraceTypeInv /\ "over" \in Stages /\ Goes(r, "over")
  BY DEF TraceInv, Stages, Finally
<1>2. /\ runs' \in Seq(RunRecords) /\ Len(runs') = Len(runs) /\ DOMAIN runs' = DOMAIN runs
      /\ \A q \in DOMAIN runs : runs'[q].panel \in 1..panel
      /\ Running' <=> IF r = latest THEN FALSE ELSE Running
  <2>1. Running' <=> IF r = latest THEN runs[r].panel = panel /\ "over" # "over" ELSE Running
    BY <1>1, StageChanged
  <2>2. QED
    BY <1>1, <2>1, StageChanged
<1>3. r \in 1..latest /\ Done(r) \in Messages /\ Done(r).run = r /\ Done(r).type = "runTraceDone"
  BY <1>1, MessagesTyped DEF Done
<1>4. CASE r = latest /\ runs[r].panel = panel
  <2>1. posted' = posted \o <<Done(r)>>
    BY <1>4 DEF Finally, Posts
  <2>2. posted' = Append(posted, Done(r))
    BY <1>1, <1>3, <2>1, AppendIsConcat DEF TraceTypeInv
  <2>3. Running
    BY <1>3, <1>4 DEF Running
  <2>4. Answers = {} /\ submitted = <<>> /\ disabled
    BY <2>3 DEF TraceInv, ButtonInv
  <2>5. /\ posted' \in Seq(Messages)
        /\ \A i \in DOMAIN posted' : posted'[i].run \in 0..latest'
        /\ Answers' = Answers \cup {Len(posted) + 1}
    <3>1. Done(r).run \in 0..latest /\ latest' >= latest /\ latest' \in Nat
      BY <1>1, <1>3 DEF TraceTypeInv
    <3>2. QED
      BY <1>1, <1>3, <2>2, <3>1, PostedMore
  <2>6. ButtonInv'
    BY <1>2, <1>4, <2>4, <2>5 DEF ButtonInv
  <2>7. QED
    BY <1>2, <2>5, <2>6
<1>5. CASE ~(r = latest /\ runs[r].panel = panel)
  <2>1. posted' = posted
    <3>1. posted \o <<>> = posted
      BY <1>1, ConcatEmptySeq DEF TraceTypeInv
    <3>2. QED
      BY <1>5, <3>1 DEF Finally, Posts
  <2>2. Running' = Running
    BY <1>2, <1>5 DEF Running
  <2>3. Answers' = Answers
    BY <2>1 DEF Answers
  <2>4. QED
    BY <1>1, <1>2, <2>1, <2>2, <2>3 DEF TraceInv, TraceTypeInv, ButtonInv
<1>6. QED
  BY <1>4, <1>5

LEMMA TraceFailsStep ==
    ASSUME TraceInv, NEW r \in RunIds, TraceFails(r) PROVE TraceInv'
<1>1. r \in DOMAIN runs /\ runs[r].stage # "over"
  BY DEF TraceFails, At
<1>2. UNCHANGED <<latest, panel, disabled, submitted>> /\ Finally(r)
  BY DEF TraceFails
<1>3. /\ runs' \in Seq(RunRecords) /\ Len(runs') = Len(runs) /\ DOMAIN runs' = DOMAIN runs
      /\ \A q \in DOMAIN runs : runs'[q].panel \in 1..panel
      /\ posted' \in Seq(Messages)
      /\ \A i \in DOMAIN posted' : posted'[i].run \in 0..latest'
      /\ ButtonInv'
  BY <1>1, <1>2, FinallyButton
<1>4. TraceTypeInv'
  BY <1>3 DEF TraceInv, TraceTypeInv, TraceFails
<1>5. QED
  BY <1>3, <1>4 DEF TraceInv, TraceFails, ActiveExists

LEMMA TracePostedStep ==
    ASSUME TraceInv, NEW r \in RunIds, TracePosted(r) PROVE TraceInv'
<1>1. r \in DOMAIN runs /\ runs[r].stage # "over"
  BY DEF TracePosted, At
<1>2. UNCHANGED <<latest, panel, disabled, submitted>> /\ Finally(r)
  BY DEF TracePosted
<1>3. /\ runs' \in Seq(RunRecords) /\ Len(runs') = Len(runs) /\ DOMAIN runs' = DOMAIN runs
      /\ \A q \in DOMAIN runs : runs'[q].panel \in 1..panel
      /\ posted' \in Seq(Messages)
      /\ \A i \in DOMAIN posted' : posted'[i].run \in 0..latest'
      /\ ButtonInv'
  BY <1>1, <1>2, FinallyButton
<1>4. TraceTypeInv'
  BY <1>3 DEF TraceInv, TraceTypeInv, TracePosted
<1>5. QED
  BY <1>3, <1>4 DEF TraceInv, TracePosted, ActiveExists

LEMMA TraceWrittenStep ==
    ASSUME TraceInv, NEW r \in RunIds, TraceWritten(r) PROVE TraceInv'
<1>1. r \in DOMAIN runs /\ runs[r].stage = "working" /\ TraceTypeInv
  BY DEF TraceWritten, At, TraceInv
<1>2. UNCHANGED <<latest, panel, disabled, submitted, active>> /\ traces' = traces \cup {r}
  BY DEF TraceWritten
<1>3. CASE r # latest
  <2>1. Finally(r)
    BY <1>3 DEF TraceWritten
  <2>2. /\ runs' \in Seq(RunRecords) /\ Len(runs') = Len(runs) /\ DOMAIN runs' = DOMAIN runs
        /\ \A q \in DOMAIN runs : runs'[q].panel \in 1..panel
        /\ posted' \in Seq(Messages)
        /\ \A i \in DOMAIN posted' : posted'[i].run \in 0..latest'
        /\ ButtonInv'
    BY <1>1, <1>2, <2>1, FinallyButton
  <2>3. TraceTypeInv'
    BY <1>1, <1>2, <2>2 DEF TraceTypeInv, TraceWritten
  <2>4. QED
    BY <1>2, <2>2, <2>3 DEF TraceInv, ActiveExists
<1>4. CASE r = latest
  <2>1. Goes(r, "metadata") /\ posted' = posted /\ "metadata" \in Stages \ {"over"}
    BY <1>4 DEF TraceWritten, Stages
  <2>2. Answers' = Answers
    BY <2>1 DEF Answers
  <2>3. ButtonInv'
    BY <1>1, <1>2, <2>1, <2>2, StageKept
  <2>4. /\ runs' \in Seq(RunRecords) /\ Len(runs') = Len(runs) /\ DOMAIN runs' = DOMAIN runs
        /\ \A q \in DOMAIN runs : runs'[q].panel \in 1..panel
    BY <1>1, <1>2, <2>1, StageChanged
  <2>5. TraceTypeInv'
    BY <1>1, <1>2, <2>1, <2>4 DEF TraceTypeInv, TraceWritten
  <2>6. QED
    BY <1>2, <2>3, <2>5 DEF TraceInv, ActiveExists
<1>5. QED
  BY <1>3, <1>4

LEMMA PublishStep ==
    ASSUME TraceInv, NEW r \in RunIds, Publish(r) PROVE TraceInv'
<1>1. r \in DOMAIN runs /\ runs[r].stage = "metadata" /\ TraceTypeInv
  BY DEF Publish, At, TraceInv
<1>2. UNCHANGED <<latest, panel, disabled, submitted>> /\ traces' = traces \cup {r}
  BY DEF Publish
<1>3. CASE runs[r].panel = panel
  <2>1. Goes(r, "posting") /\ active' = r /\ posted' = posted \o <<Ready(r)>>
    BY <1>3 DEF Publish, Posts
  <2>2. r \in 1..latest /\ Ready(r) \in Messages /\ Ready(r).run = r
        /\ Ready(r).type # "runTraceDone"
    BY <1>1, MessagesTyped DEF Ready
  <2>3. posted' = Append(posted, Ready(r))
    BY <1>1, <2>1, <2>2, AppendIsConcat DEF TraceTypeInv
  <2>4. Ready(r).run \in 0..latest /\ latest' >= latest /\ latest' \in Nat
    BY <1>1, <1>2, <2>2 DEF TraceTypeInv
  <2>5. /\ posted' \in Seq(Messages)
        /\ \A i \in DOMAIN posted' : posted'[i].run \in 0..latest'
        /\ Answers' = Answers
    BY <1>1, <2>2, <2>3, <2>4, PostedMore
  <2>6. "posting" \in Stages \ {"over"}
    BY DEF Stages
  <2>7. ButtonInv'
    BY <1>1, <1>2, <2>1, <2>5, <2>6, StageKept
  <2>8. /\ runs' \in Seq(RunRecords) /\ Len(runs') = Len(runs) /\ DOMAIN runs' = DOMAIN runs
        /\ \A q \in DOMAIN runs : runs'[q].panel \in 1..panel
    BY <1>1, <1>2, <2>1, <2>6, StageChanged
  <2>9. TraceTypeInv'
    BY <1>1, <1>2, <2>1, <2>2, <2>5, <2>8, SMTT(60) DEF TraceTypeInv, Publish
  <2>10. QED
    BY <1>2, <2>1, <2>7, <2>9 DEF TraceInv, ActiveExists
<1>4. CASE runs[r].panel # panel
  <2>1. Finally(r) /\ active' = active
    BY <1>4 DEF Publish
  <2>2. /\ runs' \in Seq(RunRecords) /\ Len(runs') = Len(runs) /\ DOMAIN runs' = DOMAIN runs
        /\ \A q \in DOMAIN runs : runs'[q].panel \in 1..panel
        /\ posted' \in Seq(Messages)
        /\ \A i \in DOMAIN posted' : posted'[i].run \in 0..latest'
        /\ ButtonInv'
    BY <1>1, <1>2, <2>1, FinallyButton
  <2>3. TraceTypeInv'
    BY <1>1, <1>2, <2>1, <2>2 DEF TraceTypeInv, Publish
  <2>4. QED
    BY <1>2, <2>1, <2>2, <2>3 DEF TraceInv, ActiveExists
<1>5. QED
  BY <1>3, <1>4

\* The history adds messages that are no answers.
LEMMA HistoryPosts ==
    ASSUME TraceInv, NEW m \in Messages, m.run \in 0..latest, m.type # "runTraceDone",
           posted' = Append(posted, m),
           UNCHANGED <<latest, runs, panel, selected, disabled, submitted, session>>,
           active' \in 0..latest, historyAsked' \in Nat,
           traces' \subseteq DOMAIN runs, opening' \subseteq DOMAIN runs
    PROVE  TraceTypeInv' /\ ButtonInv'
<1>1. TraceTypeInv /\ latest' >= latest /\ latest' \in Nat
  BY DEF TraceInv, TraceTypeInv
<1>2. /\ posted' \in Seq(Messages)
      /\ \A i \in DOMAIN posted' : posted'[i].run \in 0..latest'
      /\ Answers' = Answers
  BY <1>1, PostedMore
<1>3. TraceTypeInv'
  BY <1>1, <1>2 DEF TraceTypeInv
<1>4. QED
  BY <1>2, <1>3, ButtonKept DEF TraceInv

LEMMA OpenTraceStep ==
    ASSUME TraceInv, NEW r \in RunIds, OpenTrace(r) PROVE TraceInv'
<1>1. TraceTypeInv /\ r \in traces /\ r \in DOMAIN runs /\ active' = r /\ traces' = traces
  BY DEF TraceInv, TraceTypeInv, OpenTrace
<1>2. /\ r \in 1..latest /\ SetBinary(r) \in Messages /\ SetBinary(r).run = r
      /\ SetBinary(r).type # "runTraceDone"
  BY <1>1, MessagesTyped DEF SetBinary
<1>3. historyAsked' \in Nat /\ opening' \subseteq DOMAIN runs
  BY <1>1 DEF TraceTypeInv, OpenTrace, Asks
<1>4. SetBinary(r).run \in 0..latest /\ active' \in 0..latest /\ traces' \subseteq DOMAIN runs
  BY <1>1, <1>2 DEF TraceTypeInv
<1>5. posted' = Append(posted, SetBinary(r))
      /\ UNCHANGED <<latest, runs, panel, selected, disabled, submitted, session>>
  BY DEF OpenTrace
<1>6. TraceTypeInv' /\ ButtonInv'
  BY <1>2, <1>3, <1>4, <1>5, HistoryPosts
<1>7. QED
  BY <1>1, <1>6 DEF TraceInv, ActiveExists

LEMMA TraceOpenedStep ==
    ASSUME TraceInv, NEW r \in RunIds, TraceOpened(r) PROVE TraceInv'
<1>1. TraceTypeInv /\ r \in DOMAIN runs
  BY DEF TraceInv, TraceTypeInv, TraceOpened
<1>2. /\ r \in 1..latest /\ Ready(r) \in Messages /\ Ready(r).run = r
      /\ Ready(r).type # "runTraceDone"
  BY <1>1, MessagesTyped DEF Ready
<1>3. /\ Ready(r).run \in 0..latest /\ active' \in 0..latest /\ historyAsked' \in Nat
      /\ traces' \subseteq DOMAIN runs /\ opening' \subseteq DOMAIN runs
  BY <1>1, <1>2 DEF TraceTypeInv, TraceOpened
<1>4. posted' = Append(posted, Ready(r))
      /\ UNCHANGED <<latest, runs, panel, selected, disabled, submitted, session>>
  BY DEF TraceOpened
<1>5. TraceTypeInv' /\ ButtonInv'
  BY <1>2, <1>3, <1>4, HistoryPosts
<1>6. QED
  BY <1>5 DEF TraceInv, ActiveExists, TraceOpened

LEMMA DeleteTraceStep == ASSUME TraceInv, DeleteTrace PROVE TraceInv'
<1>1. PICK gone \in {{r} : r \in traces} \cup {traces} : DeleteTraces(gone)
  BY DEF DeleteTrace
<1>2. TraceTypeInv /\ historyAsked' \in Nat /\ opening' \subseteq DOMAIN runs
  BY DEF TraceInv, TraceTypeInv, DeleteTrace, Asks
<1>3. traces' = traces \ gone /\ traces' \subseteq DOMAIN runs
  BY <1>1, <1>2 DEF DeleteTraces, TraceTypeInv
<1>4. UNCHANGED <<latest, runs, panel, selected, disabled, submitted, session>>
  BY DEF DeleteTrace
<1>5. CASE active \in gone /\ active # 0
  <2>1. active' = 0 /\ posted' = Append(posted, Cleared(active))
    BY <1>1, <1>5 DEF DeleteTraces
  <2>2. active \in DOMAIN runs
    BY <1>2, <1>5 DEF TraceInv, ActiveExists, TraceTypeInv
  <2>3. /\ active \in 1..latest /\ Cleared(active) \in Messages /\ Cleared(active).run = active
        /\ Cleared(active).type # "runTraceDone"
    BY <1>2, <2>2, MessagesTyped DEF Cleared
  <2>4. Cleared(active).run \in 0..latest /\ active' \in 0..latest
    BY <1>2, <2>1, <2>3 DEF TraceTypeInv
  <2>5. TraceTypeInv' /\ ButtonInv'
    BY <1>2, <1>3, <1>4, <2>1, <2>3, <2>4, HistoryPosts
  <2>6. QED
    BY <2>1, <2>5 DEF TraceInv, ActiveExists
<1>6. CASE active \notin gone
  <2>1. active' = active /\ posted' = posted
    BY <1>1, <1>6 DEF DeleteTraces
  <2>2. TraceTypeInv'
    BY <1>2, <1>3, <1>4, <2>1 DEF TraceTypeInv
  <2>3. ButtonInv'
    BY <1>4, <2>1, ButtonKept DEF TraceInv, Answers
  <2>4. QED
    BY <1>3, <1>6, <2>1, <2>2, <2>3 DEF TraceInv, ActiveExists
<1>7. 0 \notin gone
  BY <1>1, <1>2 DEF TraceTypeInv
<1>8. QED
  BY <1>5, <1>6, <1>7

LEMMA TraceStep == ASSUME TraceInv, [TraceNext]_traceVars PROVE TraceInv'
<1>1. CASE UNCHANGED traceVars
  <2>1. TraceTypeInv' /\ Answers' = Answers /\ ActiveExists'
    BY <1>1 DEF traceVars, TraceInv, TraceTypeInv, Answers, ActiveExists
  <2>2. QED
    BY <1>1, <2>1, ButtonKept DEF traceVars, TraceInv
<1>2. CASE TraceNext
  BY <1>2, SelectBinaryStep, SubmitStep, DeliverStep, ReopenHubStep, BeginStep,
     DeleteTraceStep, TraceFailsStep, TraceWrittenStep, PublishStep, TracePostedStep,
     OpenTraceStep, TraceOpenedStep DEF TraceNext
<1>3. QED
  BY <1>1, <1>2

-----------------------------------------------------------------------------
(* The theorems *)

LEMMA TraceInvariance == TraceSpec => []TraceInv
<1>1. TraceInit => TraceInv
  BY TraceInitInv
<1>2. TraceInv /\ [TraceNext]_traceVars => TraceInv'
  BY TraceStep
<1>3. QED
  BY <1>1, <1>2, PTL DEF TraceSpec

\* The variables of the trace session have their types, with any number of runs
\* begun, panels opened and requests made.
THEOREM TraceTypes == TraceSpec => []TraceTypeOK
<1>1. TraceInv => TraceTypeOK
  <2>1. SUFFICES ASSUME TraceInv PROVE TraceTypeOK
    OBVIOUS
  <2>2. \A r \in DOMAIN runs : runs[r].stage \in Stages
    <3>1. runs \in [1..latest -> RunRecords]
      BY <2>1 DEF TraceInv, TraceTypeInv
    <3>2. QED
      BY <3>1 DEF RunRecords
  <2>3. Len(submitted) <= 1
    <3>1. submitted # <<>> => Len(submitted) = 1
      BY <2>1 DEF TraceInv, ButtonInv
    <3>2. submitted = <<>> => Len(submitted) = 0
      OBVIOUS
    <3>3. Len(submitted) = 0 \/ Len(submitted) = 1
      BY <3>1, <3>2, Zenon
    <3>4. CASE Len(submitted) = 0
      BY <3>4
    <3>5. CASE Len(submitted) = 1
      BY <3>5
    <3>6. QED
      BY <3>3, <3>4, <3>5
  <2>4. latest \in 0..MaxRuns
    BY <2>1, TraceAssumption DEF TraceInv, TraceTypeInv
  <2>5. QED
    BY <2>1, <2>2, <2>3, <2>4 DEF TraceInv, TraceTypeInv, TraceTypeOK
<1>2. QED
  BY <1>1, TraceInvariance, PTL

\* Dropping the answers of superseded runs (hub.ts:1555) and keeping those for
\* another binary (runTraceController.js:363) never leaves the button disabled
\* with nothing on its way that enables it.
THEOREM ButtonAlwaysFreed == TraceSpec => []ButtonFreed
<1>1. TraceInv => ButtonFreed
  BY DEF TraceInv, ButtonInv, ButtonFreed, Answers, Running
<1>2. QED
  BY <1>1, TraceInvariance, PTL

\* The path the host takes for the trace shown is always that of a trace in the
\* history (traceHistory.ts:199-245).
THEOREM ActiveAlwaysExists == TraceSpec => []ActiveExists
<1>1. TraceInv => ActiveExists
  BY DEF TraceInv
<1>2. QED
  BY <1>1, TraceInvariance, PTL

-----------------------------------------------------------------------------
(* Numbers *)

\* Every set of numbers has a least one.
LEMMA LeastNumber ==
    ASSUME NEW T \in SUBSET Nat, T # {}
    PROVE  \E n \in T : \A m \in T : n <= m
<1>1. \E n \in T : \A m \in T : ~(<<m, n>> \in OpToRel(<, Nat))
  BY NatLessThanWellFounded, WFMin
<1>2. PICK n \in T : \A m \in T : ~(<<m, n>> \in OpToRel(<, Nat))
  BY <1>1
<1>3. ASSUME NEW m \in T
      PROVE  n <= m
  <2>1. ~(m < n)
    BY <1>2, <1>3 DEF OpToRel
  <2>2. QED
    BY <2>1, <1>3
<1>4. QED
  BY <1>3

LEMMA LeastIn ==
    ASSUME NEW S \in SUBSET Nat, S # {}
    PROVE  Min(S) \in S /\ \A x \in S : Min(S) <= x
<1>1. \E x \in S : \A y \in S : x <= y
  BY LeastNumber
<1>2. QED
  BY <1>1 DEF Min

LEMMA GreatestIn ==
    ASSUME NEW n \in Nat, NEW S \in SUBSET (0..n), S # {}
    PROVE  Max(S) \in S /\ \A x \in S : Max(S) >= x
<1> DEFINE T == {k \in 0..n : n - k \in S}
<1>1. T \in SUBSET Nat /\ T # {}
  <2>1. PICK x \in S : TRUE
    OBVIOUS
  <2>2. n - x \in 0..n /\ n - (n - x) = x
    OBVIOUS
  <2>3. n - x \in T
    BY <2>2
  <2>4. T \in SUBSET Nat
    OBVIOUS
  <2>5. QED
    BY <2>3, <2>4
<1>2. PICK k \in T : \A m \in T : k <= m
  <2> HIDE DEF T
  <2>1. QED
    BY <1>1, LeastNumber
<1>3. ASSUME NEW y \in S
      PROVE  n - k >= y
  <2>0. n - y \in 0..n /\ n - (n - y) = y
    OBVIOUS
  <2>1. n - y \in T
    BY <2>0
  <2>2. k <= n - y /\ k \in 0..n
    BY <1>2, <2>1
  <2>3. QED
    BY <2>2
<1>4. n - k \in S
  BY <1>2
<1>5. QED
  BY <1>3, <1>4 DEF Max

\* What holds of 0 and passes from each number to the next up to n holds up to n.
LEMMA UpTo ==
    ASSUME NEW n \in Nat, NEW T \in SUBSET (0..n), 0 \in T,
           \A k \in T : k < n => k + 1 \in T
    PROVE  T = 0..n
<1> SUFFICES ASSUME NEW x \in 0..n, x \notin T PROVE FALSE
  OBVIOUS
<1> DEFINE R == (0..n) \ T
<1>1. R \in SUBSET Nat /\ R # {}
  OBVIOUS
<1>2. PICK k \in R : \A m \in R : k <= m
  <2> HIDE DEF R
  <2>1. QED
    BY <1>1, LeastNumber, Zenon
<1>3. k \in 1..n /\ k - 1 \in 0..n /\ k - 1 \notin R
  BY <1>2
<1>4. k - 1 \in T /\ k - 1 < n /\ (k - 1) + 1 = k
  BY <1>3
<1>5. k \in T
  BY <1>4
<1>6. QED
  BY <1>5

\* What a turn makes of a state, n times over: G tells what it makes of any.
Turned(f, init, G, n) == f[0] = init /\ \A i \in 1..n : f[i] = G[<<f[i - 1], i>>]

LEMMA TurnsExist ==
    ASSUME NEW n \in Nat, NEW S, NEW init \in S, NEW G \in [S \X (1..n) -> S]
    PROVE  \E f \in [0..n -> S] : Turned(f, init, G, n)
<1> DEFINE T == {k \in 0..n : \E f \in [0..k -> S] : Turned(f, init, G, k)}
<1>1. 0 \in T
  <2> DEFINE f == [i \in 0..0 |-> init]
  <2>1. f \in [0..0 -> S] /\ Turned(f, init, G, 0)
    BY DEF Turned
  <2>2. QED
    BY <2>1
<1>2. ASSUME NEW k \in T, k < n
      PROVE  k + 1 \in T
  <2>1. PICK f \in [0..k -> S] : Turned(f, init, G, k)
    OBVIOUS
  <2>2. k \in 0..n /\ k + 1 \in 1..n
    BY <1>2
  <2>3. G[<<f[k], k + 1>>] \in S
    BY <2>2
  <2> DEFINE g == [i \in 0..(k + 1) |-> IF i = k + 1 THEN G[<<f[k], k + 1>>] ELSE f[i]]
  <2>4. g \in [0..(k + 1) -> S]
    BY <2>2, <2>3
  <2>5. \A i \in 0..k : g[i] = f[i]
    BY <2>2
  <2>6. g[k + 1] = G[<<f[k], k + 1>>]
    BY <2>2
  <2> HIDE DEF g
  <2>7. \A i \in 1..(k + 1) : g[i] = G[<<g[i - 1], i>>]
    <3> SUFFICES ASSUME NEW i \in 1..(k + 1) PROVE g[i] = G[<<g[i - 1], i>>]
      OBVIOUS
    <3>1. CASE i = k + 1
      <4>1. i - 1 = k /\ k \in 0..k
        BY <2>2, <3>1
      <4>2. g[i - 1] = f[k]
        BY <4>1, <2>5
      <4>3. QED
        BY <3>1, <4>2, <2>6
    <3>2. CASE i # k + 1
      <4>1. i \in 1..k /\ i \in 0..k /\ i - 1 \in 0..k
        BY <2>2, <3>2
      <4>2. f[i] = G[<<f[i - 1], i>>]
        BY <2>1, <4>1 DEF Turned
      <4>3. g[i] = f[i] /\ g[i - 1] = f[i - 1]
        BY <2>5, <4>1
      <4>4. QED
        BY <4>2, <4>3
    <3>3. QED
      BY <3>1, <3>2
  <2>8. g[0] = init
    BY <2>1, <2>2, <2>5 DEF Turned
  <2>9. Turned(g, init, G, k + 1)
    BY <2>7, <2>8 DEF Turned
  <2>10. QED
    BY <2>2, <2>4, <2>9
<1>3. T = 0..n
  <2>1. T \in SUBSET (0..n)
    OBVIOUS
  <2> HIDE DEF T
  <2>2. QED
    BY <1>1, <1>2, <2>1, UpTo
<1>4. QED
  BY <1>3

\* Division that rounds up, and the remainder.
LEMMA RoundedUp ==
    ASSUME NEW a \in Nat, NEW b \in Nat \ {0}
    PROVE  b * ((a + b - 1) \div b) \in Nat /\ b * ((a + b - 1) \div b) >= a
OBVIOUS

LEMMA Remainder ==
    ASSUME NEW a \in Nat, NEW b \in Nat \ {0}
    PROVE  a % b \in 0..a
OBVIOUS

-----------------------------------------------------------------------------
(* Memory, and what a call tells of it *)

MemoryOf(m) == DOMAIN m \subseteq Nat \ {0} /\ m \in [DOMAIN m -> ByteValues]

WriteRecords == [at : Nat, size : Nat, bytes : Seq(ByteValues), most : Nat]

ChangedFrom(m0, m1, a) == m1[a] # (IF a \in DOMAIN m0 THEN m0[a] ELSE Nul)

\* What WritesTold says of one record: it is as long as the call may write, and shows what
\* the memory holds where no later record lies.
RecordTrue(m, writes, i) ==
    LET w == writes[i] IN
    /\ 0 < w.size /\ w.size <= w.most
    /\ IF w.bytes = <<>> THEN ~MappedAt(m, w.at, w.size)
       ELSE /\ Len(w.bytes) = w.size /\ MappedAt(m, w.at, w.size)
            /\ \A a \in w.at..(w.at + w.size - 1) :
                 (\A j \in (i + 1)..Len(writes) : ~Covers(writes[j], a))
                     => w.bytes[a - w.at + 1] = m[a]

Told(m0, m1, writes) ==
    /\ writes \in Seq(WriteRecords)
    /\ \A a \in DOMAIN m1 : ChangedFrom(m0, m1, a) => \E i \in 1..Len(writes) : Covers(writes[i], a)
    /\ \A i \in 1..Len(writes) : RecordTrue(m1, writes, i)

LEMMA ListedUp ==
    ASSUME NEW n \in Nat, NEW S, NEW f \in [1..n -> S]
    PROVE  f \in Seq(S) /\ Len(f) = n
<1>1. f \in Seq(S)
  BY SeqDef
<1>2. DOMAIN f = 1..Len(f) /\ Len(f) \in Nat /\ DOMAIN f = 1..n
  BY <1>1, LenProperties
<1>3. QED
  BY <1>1, <1>2

\* w is m with the bytes at a place.
WithBytes(m, at, bytes, w) ==
    /\ MemoryOf(w) /\ DOMAIN w = DOMAIN m
    /\ \A a \in DOMAIN m : w[a] = IF a \in at..(at + Len(bytes) - 1) THEN bytes[a - at + 1] ELSE m[a]

LEMMA WroteFacts ==
    ASSUME NEW m, MemoryOf(m), NEW at \in Nat, NEW bytes \in Seq(ByteValues)
    PROVE  WithBytes(m, at, bytes, Wrote(m, at, bytes))
<1> DEFINE w == Wrote(m, at, bytes)
<1>1. /\ DOMAIN w = DOMAIN m
      /\ \A a \in DOMAIN m :
            w[a] = IF a \in at..(at + Len(bytes) - 1) THEN bytes[a - at + 1] ELSE m[a]
      /\ w = [a \in DOMAIN w |-> w[a]]
  BY DEF Wrote
<1> HIDE DEF w
<1>2. ASSUME NEW a \in DOMAIN m
      PROVE  w[a] \in ByteValues
  <2>1. CASE a \in at..(at + Len(bytes) - 1)
    <3>1. a \in Nat /\ Len(bytes) \in Nat
      BY LenProperties DEF MemoryOf
    <3>2. a - at + 1 \in 1..Len(bytes)
      BY <2>1, <3>1
    <3>3. QED
      BY <1>1, <2>1, <3>2, ElementOfSeq
  <2>2. CASE a \notin at..(at + Len(bytes) - 1)
    BY <1>1, <2>2 DEF MemoryOf
  <2>3. QED
    BY <2>1, <2>2
<1>3. WithBytes(m, at, bytes, w)
  BY <1>1, <1>2 DEF MemoryOf, WithBytes
<1>4. QED
  BY <1>3 DEF w

\* cells are the n bytes of m from a place, or none.
Shows(m, at, n, cells) ==
    /\ cells \in Seq(ByteValues)
    /\ ~MappedAt(m, at, n) => cells = <<>>
    /\ MappedAt(m, at, n) => Len(cells) = n /\ \A a \in at..(at + n - 1) : cells[a - at + 1] = m[a]

LEMMA CellsFacts ==
    ASSUME NEW m, MemoryOf(m), NEW at \in Nat, NEW n \in Nat
    PROVE  Shows(m, at, n, CellsAt(m, at, n))
<1> DEFINE cells == CellsAt(m, at, n)
<1>1. CASE MappedAt(m, at, n)
  <2>1. cells = [i \in 1..n |-> m[at + i - 1]]
    BY <1>1 DEF CellsAt
  <2> HIDE DEF cells
  <2>2. \A i \in 1..n : at + i - 1 \in at..(at + n - 1)
    OBVIOUS
  <2>3. \A i \in 1..n : m[at + i - 1] \in ByteValues
    BY <1>1, <2>2 DEF MemoryOf, MappedAt
  <2>4. cells \in [1..n -> ByteValues]
    BY <2>1, <2>3
  <2>5. cells \in Seq(ByteValues) /\ Len(cells) = n
    BY <2>4, ListedUp
  <2>6. \A a \in at..(at + n - 1) : cells[a - at + 1] = m[a]
    <3> SUFFICES ASSUME NEW a \in at..(at + n - 1) PROVE cells[a - at + 1] = m[a]
      OBVIOUS
    <3>1. a - at + 1 \in 1..n /\ at + (a - at + 1) - 1 = a
      OBVIOUS
    <3>2. QED
      BY <2>1, <3>1
  <2>7. QED
    BY <1>1, <2>5, <2>6 DEF Shows, cells
<1>2. CASE ~MappedAt(m, at, n)
  BY <1>2, EmptySeq DEF CellsAt, Shows
<1>3. QED
  BY <1>1, <1>2

LEMMA ToldNothing ==
    ASSUME NEW m
    PROVE  Told(m, m, <<>>)
BY EmptySeq DEF Told, ChangedFrom

\* One more write, told with what it wrote.
LEMMA ToldMore ==
    ASSUME NEW m0, NEW m1, MemoryOf(m1), NEW writes, Told(m0, m1, writes),
           NEW at \in Nat, NEW bytes \in Seq(ByteValues), NEW most \in Nat,
           0 < Len(bytes), Len(bytes) <= most, MappedAt(m1, at, Len(bytes)),
           NEW m2, m2 = Wrote(m1, at, bytes)
    PROVE  Told(m0, m2, Append(writes, Recorded(at, Len(bytes), bytes, most)))
<1> DEFINE r == Recorded(at, Len(bytes), bytes, most)
           more == Append(writes, r)
<1>1. Len(bytes) \in Nat /\ bytes # <<>> /\ Len(writes) \in Nat /\ writes \in Seq(WriteRecords)
  BY LenProperties, EmptySeq DEF Told
<1>2. r \in WriteRecords /\ r.at = at /\ r.size = Len(bytes) /\ r.bytes = bytes /\ r.most = most
  BY <1>1 DEF WriteRecords, Recorded
<1> HIDE DEF r
<1>3. /\ more \in Seq(WriteRecords) /\ Len(more) = Len(writes) + 1
      /\ \A i \in 1..Len(writes) : more[i] = writes[i]
      /\ more[Len(writes) + 1] = r
  BY <1>1, <1>2, AppendProperties
<1> HIDE DEF more
<1>4. /\ DOMAIN m2 = DOMAIN m1 /\ MemoryOf(m2)
      /\ \A a \in DOMAIN m1 :
            m2[a] = IF a \in at..(at + Len(bytes) - 1) THEN bytes[a - at + 1] ELSE m1[a]
  BY WroteFacts DEF WithBytes
<1>5. \A a : Covers(r, a) <=> a \in at..(at + Len(bytes) - 1)
  BY <1>2 DEF Covers
<1>6. ASSUME NEW a \in DOMAIN m2, ChangedFrom(m0, m2, a)
      PROVE  \E i \in 1..Len(more) : Covers(more[i], a)
  <2>1. CASE Covers(r, a)
    BY <1>1, <1>3, <2>1
  <2>2. CASE ~Covers(r, a)
    <3>1. m2[a] = m1[a]
      BY <1>4, <1>5, <2>2
    <3>2. PICK i \in 1..Len(writes) : Covers(writes[i], a)
      BY <1>4, <1>6, <3>1 DEF Told, ChangedFrom
    <3>3. i \in 1..Len(more)
      BY <1>1, <1>3, <3>2
    <3>4. QED
      BY <1>3, <3>2, <3>3
  <2>3. QED
    BY <2>1, <2>2
<1>7. ASSUME NEW i \in 1..Len(writes)
      PROVE  RecordTrue(m2, more, i)
  <2> DEFINE w == writes[i]
  <2>1. more[i] = w /\ w \in WriteRecords /\ RecordTrue(m1, writes, i)
    BY <1>1, <1>3, ElementOfSeq DEF Told
  <2>2. MappedAt(m2, w.at, w.size) <=> MappedAt(m1, w.at, w.size)
    BY <1>4 DEF MappedAt
  <2>3. ASSUME w.bytes # <<>>, NEW a \in w.at..(w.at + w.size - 1),
               \A j \in (i + 1)..Len(more) : ~Covers(more[j], a)
        PROVE  w.bytes[a - w.at + 1] = m2[a]
    <3>1. \A j \in (i + 1)..Len(writes) : ~Covers(writes[j], a)
      BY <1>1, <1>3, <2>3
    <3>2. ~Covers(r, a)
      <4>1. Len(writes) + 1 \in (i + 1)..Len(more)
        BY <1>1, <1>3
      <4>2. QED
        BY <1>3, <2>3, <4>1
    <3>3. w.bytes[a - w.at + 1] = m1[a] /\ a \in DOMAIN m1
      BY <2>1, <2>3, <3>1 DEF RecordTrue, MappedAt
    <3>4. QED
      BY <1>4, <1>5, <3>2, <3>3
  <2> HIDE DEF w
  <2>4. QED
    BY <2>1, <2>2, <2>3 DEF RecordTrue, w
<1>8. RecordTrue(m2, more, Len(writes) + 1)
  <2>1. MappedAt(m2, at, Len(bytes))
    BY <1>4 DEF MappedAt
  <2>2. \A a \in at..(at + Len(bytes) - 1) : bytes[a - at + 1] = m2[a]
    BY <1>4 DEF MappedAt
  <2>3. QED
    BY <1>1, <1>2, <1>3, <2>1, <2>2 DEF RecordTrue
<1>9. \A i \in 1..Len(more) : i \in 1..Len(writes) \/ i = Len(writes) + 1
  BY <1>1, <1>3
<1>10. Told(m0, m2, more)
  BY <1>3, <1>6, <1>7, <1>8, <1>9 DEF Told
<1>11. QED
  BY <1>10 DEF more, r

\* A call that reads back what it wrote: nothing else may have changed.
LEMMA ToldBack ==
    ASSUME NEW m0, NEW m1, MemoryOf(m1), NEW at \in Nat, NEW size \in Nat, NEW most \in Nat,
           0 < size, size <= most,
           \A a \in DOMAIN m1 : ChangedFrom(m0, m1, a) => a \in at..(at + size - 1)
    PROVE  Told(m0, m1, <<WroteBack(m1, at, size, most)>>)
<1> DEFINE r == WroteBack(m1, at, size, most)
           writes == <<r>>
<1>1. /\ r.bytes \in Seq(ByteValues) /\ r.at = at /\ r.size = size /\ r.most = most
      /\ r.bytes = CellsAt(m1, at, size) /\ r \in WriteRecords
  BY CellsFacts DEF WroteBack, Recorded, WriteRecords, Shows
<1> HIDE DEF r
<1>2. /\ ~MappedAt(m1, at, size) => r.bytes = <<>>
      /\ MappedAt(m1, at, size) =>
            Len(r.bytes) = size /\ \A a \in at..(at + size - 1) : r.bytes[a - at + 1] = m1[a]
  <2>1. Shows(m1, at, size, r.bytes)
    BY <1>1, CellsFacts
  <2>2. QED
    BY <2>1 DEF Shows
<1>3. r.bytes = <<>> => ~MappedAt(m1, at, size)
  BY <1>1, <1>2, EmptySeq
<1>4. writes \in Seq(WriteRecords) /\ Len(writes) = 1 /\ writes[1] = r
  BY <1>1
<1> HIDE DEF writes
<1>5. \A a : Covers(r, a) <=> a \in at..(at + size - 1)
  BY <1>1 DEF Covers
<1>6. RecordTrue(m1, writes, 1)
  <2>1. CASE MappedAt(m1, at, size)
    <3>1. r.bytes # <<>> /\ Len(r.bytes) = size /\ \A a \in at..(at + size - 1) : r.bytes[a - at + 1] = m1[a]
      BY <1>2, <1>3, <2>1
    <3>2. QED
      BY <1>1, <1>4, <2>1, <3>1 DEF RecordTrue
  <2>2. CASE ~MappedAt(m1, at, size)
    BY <1>1, <1>2, <1>4, <2>2 DEF RecordTrue
  <2>3. QED
    BY <2>1, <2>2
<1>7. Told(m0, m1, writes)
  BY <1>4, <1>5, <1>6 DEF Told
<1>8. QED
  BY <1>7 DEF writes, r

-----------------------------------------------------------------------------
(* Streams *)

HandleRecords == [data : Seq(ByteValues), pos : Nat, closed : BOOLEAN]
Deliveries == [stream : Int, from : Nat, to : Nat]

PlacesTyped ==
    /\ stdinPos \in 0..Len(libc.stdin) /\ syscallPos \in 0..Len(libc.stdin)
    /\ handles \in Seq(HandleRecords)
    /\ \A h \in 1..Len(handles) : handles[h].pos <= Len(handles[h].data)

Sources == {Stdin, Syscall} \cup 1..Len(handles)
PlaceOf(s) == IF s = Stdin THEN stdinPos ELSE IF s = Syscall THEN syscallPos ELSE handles[s].pos

\* InputOnce with what it rests on: nothing is taken backwards or of no stream.
InputInv ==
    /\ PlacesTyped /\ delivered \in Seq(Deliveries)
    /\ \A i \in 1..Len(delivered) :
          /\ delivered[i].stream \in Sources
          /\ delivered[i].from <= delivered[i].to /\ delivered[i].to <= PlaceOf(delivered[i].stream)
          /\ \A j \in 1..(i - 1) :
                delivered[j].stream = delivered[i].stream => delivered[j].to <= delivered[i].from

\* Intervals that a call takes one after the other, from a place to another.
Chained(got, from, to) ==
    /\ got \in Seq(Nat \X Nat)
    /\ \A i \in 1..Len(got) :
          /\ from <= got[i][1] /\ got[i][1] <= got[i][2] /\ got[i][2] <= to
          /\ \A j \in 1..(i - 1) : got[j][2] <= got[i][1]

LEMMA PlacesAreNumbers ==
    ASSUME PlacesTyped, libc \in LibcScopes, NEW s \in Sources
    PROVE  PlaceOf(s) \in Nat
<1>1. Len(libc.stdin) \in Nat
  BY LibcAssumption, LenProperties
<1>2. CASE s \in 1..Len(handles)
  <2>1. handles[s] \in HandleRecords
    BY <1>2, ElementOfSeq DEF PlacesTyped
  <2>2. QED
    BY <1>1, <2>1 DEF PlacesTyped, PlaceOf, HandleRecords
<1>3. CASE s \in {Stdin, Syscall}
  BY <1>1, <1>3 DEF PlacesTyped, PlaceOf
<1>4. QED
  BY <1>2, <1>3 DEF Sources

LEMMA InputStill ==
    ASSUME InputInv, PlacesTyped', delivered' = delivered, Len(handles) <= Len(handles'),
           \A s \in Sources : PlaceOf(s)' = PlaceOf(s)
    PROVE  InputInv'
<1>1. Len(handles) \in Nat /\ Len(handles') \in Nat
  BY LenProperties DEF InputInv, PlacesTyped
<1>2. Sources \subseteq Sources'
  BY <1>1 DEF Sources
<1>3. QED
  BY <1>2 DEF InputInv

LEMMA DeliveredMore ==
    ASSUME InputInv, libc \in LibcScopes, PlacesTyped', Len(handles') = Len(handles), NEW stream \in Sources,
           \A s \in Sources : s # stream => PlaceOf(s)' = PlaceOf(s),
           PlaceOf(stream) <= PlaceOf(stream)', PlaceOf(stream)' \in Nat,
           NEW got, Chained(got, PlaceOf(stream), PlaceOf(stream)'),
           delivered' = delivered \o Intervals(stream, got)
    PROVE  InputInv'
<1> DEFINE ints == Intervals(stream, got)
           n == Len(delivered)
<1>1. n \in Nat /\ Len(got) \in Nat /\ got \in Seq(Nat \X Nat) /\ delivered \in Seq(Deliveries)
  BY LenProperties DEF InputInv, Chained
<1>2. /\ Sources' = Sources /\ stream \in Int
      /\ PlaceOf(stream) \in Nat
  BY PlacesAreNumbers, LenProperties DEF Sources, InputInv, Stdin, Syscall
<1>3. \A i \in 1..Len(got) : got[i] \in Nat \X Nat
  BY <1>1, ElementOfSeq
<1>4. ints \in [1..Len(got) -> Deliveries]
  BY <1>2, <1>3 DEF Intervals, Deliveries
<1>5. ints \in Seq(Deliveries) /\ Len(ints) = Len(got)
  BY <1>1, <1>4, ListedUp
<1>6. \A i \in 1..Len(got) : ints[i].stream = stream /\ ints[i].from = got[i][1] /\ ints[i].to = got[i][2]
  BY DEF Intervals
<1> HIDE DEF ints
<1>7. /\ delivered' \in Seq(Deliveries) /\ Len(delivered') = n + Len(got)
      /\ \A i \in 1..n : delivered'[i] = delivered[i]
      /\ \A i \in 1..Len(got) : delivered'[n + i] = ints[i]
  <2>1. /\ delivered \o ints \in Seq(Deliveries) /\ Len(delivered \o ints) = n + Len(ints)
        /\ \A i \in 1..(n + Len(ints)) : (delivered \o ints)[i] = IF i <= n THEN delivered[i] ELSE ints[i - n]
    BY <1>1, <1>5, ConcatProperties
  <2>2. delivered' = delivered \o ints
    BY DEF ints
  <2>3. \A i \in 1..Len(got) : n + i \in 1..(n + Len(got)) /\ ~(n + i <= n) /\ n + i - n = i
    BY <1>1
  <2>4. \A i \in 1..n : i \in 1..(n + Len(got)) /\ i <= n
    BY <1>1
  <2>5. QED
    BY <1>5, <2>1, <2>2, <2>3, <2>4
<1>8. ASSUME NEW i \in 1..Len(delivered'), NEW d, d = delivered'[i]
      PROVE  /\ d.stream \in Sources' /\ d.from <= d.to /\ d.to <= PlaceOf(d.stream)'
             /\ \A j \in 1..(i - 1) : delivered'[j].stream = d.stream => delivered'[j].to <= d.from
  <2>1. CASE i \in 1..n
    <3>1. d = delivered[i] /\ d \in Deliveries
      BY <1>1, <1>7, <1>8, <2>1, ElementOfSeq
    <3>2. \A j \in 1..(i - 1) : j \in 1..n /\ delivered'[j] = delivered[j]
      BY <1>1, <1>7, <2>1
    <3>3. /\ d.stream \in Sources /\ d.from <= d.to /\ d.to <= PlaceOf(d.stream)
          /\ \A j \in 1..(i - 1) : delivered[j].stream = d.stream => delivered[j].to <= d.from
      BY <2>1, <3>1 DEF InputInv
    <3>4. d.to <= PlaceOf(d.stream)'
      <4>1. CASE d.stream = stream
        <5>1. d.to \in Nat /\ d.to <= PlaceOf(stream)
          BY <3>1, <3>3, <4>1 DEF Deliveries
        <5>2. d.to <= PlaceOf(stream)'
          BY <1>2, <5>1
        <5>3. QED
          BY <4>1, <5>2, Zenon
      <4>2. CASE d.stream # stream
        BY <3>3, <4>2
      <4>3. QED
        BY <4>1, <4>2
    <3>5. QED
      BY <1>2, <3>1, <3>2, <3>3, <3>4
  <2>2. CASE i \notin 1..n
    <3> DEFINE k == i - n
    <3>1. k \in 1..Len(got) /\ i = n + k
      BY <1>1, <1>7, <2>2
    <3> HIDE DEF k
    <3>2. d = ints[k] /\ got[k] \in Nat \X Nat
      BY <1>3, <1>7, <1>8, <3>1
    <3>3. /\ PlaceOf(stream) <= got[k][1] /\ got[k][1] <= got[k][2] /\ got[k][2] <= PlaceOf(stream)'
          /\ \A j \in 1..(k - 1) : got[j][2] <= got[k][1]
      BY <3>1 DEF Chained
    <3>4. ASSUME NEW j \in 1..(i - 1), delivered'[j].stream = stream
          PROVE  delivered'[j].to <= got[k][1]
      <4>1. CASE j \in 1..n
        <5>1. delivered'[j] = delivered[j] /\ delivered[j] \in Deliveries
          BY <1>1, <1>7, <4>1, ElementOfSeq
        <5>2. delivered[j].to <= PlaceOf(stream)
          BY <3>4, <4>1, <5>1 DEF InputInv
        <5>3. QED
          BY <1>2, <3>2, <3>3, <5>1, <5>2, SMTT(60) DEF Deliveries
      <4>2. CASE j \notin 1..n
        <5>1. j - n \in 1..(k - 1) /\ j - n \in 1..Len(got) /\ j = n + (j - n)
          BY <1>1, <3>1, <4>2
        <5>2. delivered'[j] = ints[j - n]
          BY <1>7, <5>1
        <5>3. QED
          BY <1>6, <3>3, <5>1, <5>2
      <4>3. QED
        BY <4>1, <4>2
    <3>5. ints[k].stream = stream /\ ints[k].from = got[k][1] /\ ints[k].to = got[k][2]
      BY <1>6, <3>1
    <3>6. d.stream = stream /\ d.from = got[k][1] /\ d.to = got[k][2]
      BY <3>2, <3>5
    <3>7. d.to <= PlaceOf(d.stream)'
      BY <3>3, <3>6, Zenon
    <3>8. QED
      BY <1>2, <3>3, <3>4, <3>6, <3>7
  <2>3. QED
    BY <2>1, <2>2
<1>9. ASSUME NEW i \in 1..Len(delivered')
      PROVE  /\ delivered'[i].stream \in Sources'
             /\ delivered'[i].from <= delivered'[i].to
             /\ delivered'[i].to <= (PlaceOf(delivered[i].stream))'
             /\ \A j \in 1..(i - 1) :
                   delivered'[j].stream = delivered'[i].stream => delivered'[j].to <= delivered'[i].from
  BY <1>8 DEF PlaceOf
<1>10. QED
  BY <1>7, <1>9 DEF InputInv

LEMMA DeliveredOne ==
    ASSUME InputInv, NEW stream, NEW from \in Nat, NEW to \in Nat, from <= to, Delivers(stream, from, to),
           stream \in Int
    PROVE  \E got : Chained(got, from, to) /\ delivered' = delivered \o Intervals(stream, got)
<1> DEFINE got == <<<<from, to>>>>
           d == [stream |-> stream, from |-> from, to |-> to]
<1>1. got \in Seq(Nat \X Nat) /\ Len(got) = 1 /\ got[1][1] = from /\ got[1][2] = to
  OBVIOUS
<1>2. Intervals(stream, got) = <<d>>
  <2>1. 1..1 = {1}
    OBVIOUS
  <2>2. QED
    BY <1>1, <2>1 DEF Intervals
<1>3. Append(delivered, d) = delivered \o <<d>>
  BY AppendIsConcat DEF InputInv, Deliveries
<1>4. Chained(got, from, to)
  BY <1>1 DEF Chained
<1>5. QED
  BY <1>2, <1>3, <1>4 DEF Delivers

\* One stream goes on and gives these intervals.
LEMMA StdinMoves ==
    ASSUME InputInv, libc \in LibcScopes, UNCHANGED <<libc, syscallPos, handles>>,
           stdinPos' \in stdinPos..Len(libc.stdin),
           NEW got, Chained(got, stdinPos, stdinPos'), delivered' = delivered \o Intervals(Stdin, got)
    PROVE  InputInv'
<1>1. Len(libc.stdin) \in Nat
  BY LibcAssumption, LenProperties
<1>2. PlacesTyped' /\ Stdin \in Sources /\ PlaceOf(Stdin) = stdinPos /\ PlaceOf(Stdin)' = stdinPos'
  BY <1>1 DEF InputInv, PlacesTyped, Sources, PlaceOf
<1>3. stdinPos <= stdinPos' /\ stdinPos' \in Nat
  BY <1>1 DEF InputInv, PlacesTyped
<1>4. \A s \in Sources : s # Stdin => PlaceOf(s)' = PlaceOf(s)
  BY DEF PlaceOf
<1>5. QED
  BY <1>2, <1>3, <1>4, DeliveredMore

LEMMA SyscallMoves ==
    ASSUME InputInv, libc \in LibcScopes, UNCHANGED <<libc, stdinPos, handles>>,
           syscallPos' \in syscallPos..Len(libc.stdin),
           NEW got, Chained(got, syscallPos, syscallPos'), delivered' = delivered \o Intervals(Syscall, got)
    PROVE  InputInv'
<1>1. Len(libc.stdin) \in Nat
  BY LibcAssumption, LenProperties
<1>2. PlacesTyped' /\ Syscall \in Sources /\ PlaceOf(Syscall) = syscallPos /\ PlaceOf(Syscall)' = syscallPos'
  BY <1>1 DEF InputInv, PlacesTyped, Sources, PlaceOf, Stdin, Syscall
<1>3. syscallPos <= syscallPos' /\ syscallPos' \in Nat
  BY <1>1 DEF InputInv, PlacesTyped
<1>4. \A s \in Sources : s # Syscall => PlaceOf(s)' = PlaceOf(s)
  BY DEF PlaceOf
<1>5. QED
  BY <1>2, <1>3, <1>4, DeliveredMore

LEMMA HandleMoves ==
    ASSUME InputInv, libc \in LibcScopes, UNCHANGED <<libc, stdinPos, syscallPos>>,
           NEW h \in 1..Len(handles), NEW to \in handles[h].pos..Len(handles[h].data),
           handles' = [handles EXCEPT ![h].pos = to],
           NEW got, Chained(got, handles[h].pos, to), delivered' = delivered \o Intervals(h, got)
    PROVE  InputInv'
<1> DEFINE r == [handles[h] EXCEPT !.pos = to]
<1>1. handles \in Seq(HandleRecords) /\ handles[h] \in HandleRecords /\ Len(handles) \in Nat
  BY ElementOfSeq, LenProperties DEF InputInv, PlacesTyped
<1>2. Len(handles[h].data) \in Nat /\ handles[h].pos \in Nat /\ to \in Nat /\ handles[h].pos <= to
  BY <1>1, LenProperties DEF HandleRecords
<1>3. r \in HandleRecords /\ r.pos = to /\ r.data = handles[h].data
  BY <1>1, <1>2 DEF HandleRecords
<1>4. handles' = [handles EXCEPT ![h] = r]
  OBVIOUS
<1> HIDE DEF r
<1>5. /\ handles' \in Seq(HandleRecords) /\ Len(handles') = Len(handles)
      /\ \A g \in 1..Len(handles) : handles'[g] = IF g = h THEN r ELSE handles[g]
  <2> DEFINE more == [handles EXCEPT ![h] = r]
  <2>1. /\ more \in Seq(HandleRecords) /\ Len(more) = Len(handles)
        /\ \A g \in 1..Len(handles) : more[g] = IF g = h THEN r ELSE handles[g]
    BY <1>1, <1>3, ExceptSeq
  <2> HIDE DEF more
  <2>2. handles' = more
    BY <1>4 DEF more
  <2>3. QED
    BY <2>1, <2>2
<1>6. PlacesTyped'
  <2>1. \A g \in 1..Len(handles) : handles'[g].pos <= Len(handles'[g].data)
    <3> SUFFICES ASSUME NEW g \in 1..Len(handles) PROVE handles'[g].pos <= Len(handles'[g].data)
      OBVIOUS
    <3>1. CASE g = h
      BY <1>2, <1>3, <1>5, <3>1
    <3>2. CASE g # h
      BY <1>5, <3>2 DEF InputInv, PlacesTyped
    <3>3. QED
      BY <3>1, <3>2
  <2>2. QED
    BY <1>5, <2>1 DEF InputInv, PlacesTyped
<1>7. h \in Sources /\ h # Stdin /\ h # Syscall
  BY DEF Sources, Stdin, Syscall
<1>8. PlaceOf(h) = handles[h].pos /\ PlaceOf(h)' = to
  BY <1>3, <1>5, <1>7 DEF PlaceOf
<1>9. \A s \in Sources : s # h => PlaceOf(s)' = PlaceOf(s)
  BY <1>5 DEF PlaceOf, Sources
<1>10. QED
  BY <1>2, <1>5, <1>6, <1>7, <1>8, <1>9, DeliveredMore

-----------------------------------------------------------------------------
(* The helpers of the calls *)

LEMMA TwoNumbers ==
    ASSUME NEW a \in Int, NEW b \in Int
    PROVE  /\ Min({a, b}) = (IF a <= b THEN a ELSE b)
           /\ Max({a, b}) = (IF a <= b THEN b ELSE a)
<1>1. \A x \in {a, b} : (\A y \in {a, b} : x <= y) => x = (IF a <= b THEN a ELSE b)
  OBVIOUS
<1>2. \A x \in {a, b} : (\A y \in {a, b} : x >= y) => x = (IF a <= b THEN b ELSE a)
  OBVIOUS
<1>3. \E x \in {a, b} : \A y \in {a, b} : x <= y
  OBVIOUS
<1>4. \E x \in {a, b} : \A y \in {a, b} : x >= y
  OBVIOUS
<1>5. QED
  BY <1>1, <1>2, <1>3, <1>4 DEF Min, Max

LEMMA BytesAre == Nul \in ByteValues /\ Small \in ByteValues
BY DEF Nul, Small, ByteValues

LEMMA MappedLess ==
    ASSUME NEW m, NEW at \in Nat, NEW n \in Nat, NEW k \in 0..n, MappedAt(m, at, n)
    PROVE  MappedAt(m, at, k)
BY DEF MappedAt

LEMMA WroteNothing ==
    ASSUME NEW m, MemoryOf(m), NEW at \in Nat, NEW bytes \in Seq(ByteValues), Len(bytes) = 0
    PROVE  Wrote(m, at, bytes) = m
<1> DEFINE w == Wrote(m, at, bytes)
<1>1. WithBytes(m, at, bytes, w)
  BY WroteFacts
<1> HIDE DEF w
<1>2. DOMAIN w = DOMAIN m /\ MemoryOf(w) /\ \A a \in DOMAIN m : w[a] = m[a]
  BY <1>1 DEF WithBytes, MemoryOf
<1>3. w = m
  BY <1>2 DEF MemoryOf
<1>4. QED
  BY <1>3 DEF w

\* The same byte, n times.
LEMMA Repeated ==
    ASSUME NEW n \in Nat, NEW b \in ByteValues
    PROVE  [i \in 1..n |-> b] \in Seq(ByteValues) /\ Len([i \in 1..n |-> b]) = n
<1>1. [i \in 1..n |-> b] \in [1..n -> ByteValues]
  OBVIOUS
<1>2. QED
  BY <1>1, ListedUp

LEMMA StrlenFacts ==
    ASSUME NEW m, NEW at \in Nat, NEW most \in Nat, NEW size, size = Strlen(m, at, most)
    PROVE  size = -1 \/ (size \in 0..(most - 1) /\ MappedAt(m, at, size + 1))
<1> DEFINE ends == {n \in 0..(most - 1) : MappedAt(m, at, n + 1) /\ m[at + n] = Nul}
<1>1. CASE ends = {}
  BY <1>1 DEF Strlen
<1>2. CASE ends # {}
  <2>1. ends \in SUBSET Nat /\ size = Min(ends)
    BY <1>2 DEF Strlen
  <2>2. size \in ends
    <3> HIDE DEF ends
    <3>1. QED
      BY <1>2, <2>1, LeastIn
  <2>3. QED
    BY <2>2
<1>3. QED
  BY <1>1, <1>2

\* c is a copy: it changes no byte but those it copied, which were mapped; it fails or
\* copies one at least.
Copies(m, src, dst, most, c) ==
    /\ MemoryOf(c.mem) /\ DOMAIN c.mem = DOMAIN m
    /\ c.copied \in 0..most
    /\ ~c.failed => c.copied > 0
    /\ MappedAt(m, src, 1) /\ MappedAt(m, dst, 1) => c.copied > 0
    /\ \A a \in DOMAIN m : c.mem[a] # m[a] => a \in dst..(dst + c.copied - 1)

LEMMA CopyFacts ==
    ASSUME NEW m, MemoryOf(m), NEW src \in Nat, NEW dst \in Nat, NEW most \in Nat \ {0}
    PROVE  Copies(m, src, dst, most, CopyString(m, src, dst, most))
<1> DEFINE c == CopyString(m, src, dst, most)
           Reached(k) == MappedAt(m, src, k) /\ MappedAt(m, dst, k)
           stops == {most} \cup {k \in 1..most : ~Reached(k) \/ CopiedByte(m, src, dst, k) = Nul}
           last == Min(stops)
           copied == IF Reached(last) THEN last ELSE last - 1
           bytes == [k \in 1..copied |-> CopiedByte(m, src, dst, k)]
<1>1. c = [mem |-> Wrote(m, dst, bytes), copied |-> copied, failed |-> ~Reached(last)]
  BY DEF CopyString
<1>2. last \in 1..most /\ \A k \in 1..most : k < last => Reached(k)
  <2>1. stops \in SUBSET Nat /\ stops # {} /\ stops \subseteq 1..most
    OBVIOUS
  <2>2. last \in stops /\ \A x \in stops : last <= x
    <3> HIDE DEF stops
    <3>1. QED
      BY <2>1, LeastIn
  <2>3. ASSUME NEW k \in 1..most, k < last
        PROVE  Reached(k)
    <3>1. k \notin stops
      BY <2>1, <2>2, <2>3
    <3>2. QED
      BY <3>1
  <2> HIDE DEF last, stops, Reached
  <2>4. QED
    BY <2>1, <2>2, <2>3
<1> HIDE DEF last
<1>3. copied \in 0..most /\ (Reached(last) => copied > 0) /\ (copied > 0 => Reached(copied))
  <2>1. CASE Reached(last)
    BY <1>2, <2>1
  <2>2. CASE ~Reached(last)
    <3>1. copied = last - 1
      BY <2>2
    <3>2. last - 1 \in 1..most => Reached(last - 1)
      BY <1>2
    <3> HIDE DEF copied, Reached
    <3>3. QED
      BY <1>2, <2>2, <3>1, <3>2
  <2>3. QED
    BY <2>1, <2>2
<1>4. MappedAt(m, src, 1) /\ MappedAt(m, dst, 1) => copied > 0
  <2>1. CASE Reached(last)
    BY <1>3, <2>1
  <2>2. CASE ~Reached(last)
    BY <1>2, <2>2
  <2>3. QED
    BY <2>1, <2>2
<1> HIDE DEF copied
<1>5. \A k \in 1..copied : CopiedByte(m, src, dst, k) \in ByteValues
  <2> SUFFICES ASSUME NEW k \in 1..copied PROVE CopiedByte(m, src, dst, k) \in ByteValues
    OBVIOUS
  <2>1. MappedAt(m, src, copied) /\ copied \in Nat
    BY <1>3
  <2> DEFINE at == src + (IF src < dst THEN (k - 1) % (dst - src) ELSE k - 1)
  <2>2. at \in src..(src + copied - 1)
    <3>1. k - 1 \in Nat /\ k - 1 <= copied - 1
      BY <2>1
    <3>2. CASE src < dst
      <4>1. dst - src \in Nat \ {0}
        BY <3>2
      <4>2. (k - 1) % (dst - src) \in 0..(k - 1)
        BY <3>1, <4>1, Remainder
      <4>3. PICK r \in 0..(k - 1) : r = (k - 1) % (dst - src)
        BY <4>2
      <4>4. at = src + r
        BY <3>2, <4>3
      <4> HIDE DEF at
      <4>5. QED
        BY <2>1, <3>1, <4>4
    <3>3. CASE ~(src < dst)
      BY <2>1, <3>1, <3>3
    <3>4. QED
      BY <3>2, <3>3
  <2>3. at \in DOMAIN m
    <3> HIDE DEF at
    <3>1. QED
      BY <2>1, <2>2 DEF MappedAt
  <2>4. CopiedByte(m, src, dst, k) = m[at]
    BY DEF CopiedByte
  <2> HIDE DEF at
  <2>5. QED
    BY <2>3, <2>4 DEF MemoryOf
<1>6. bytes \in Seq(ByteValues) /\ Len(bytes) = copied
  <2>1. bytes \in [1..copied -> ByteValues] /\ copied \in Nat
    BY <1>3, <1>5
  <2> HIDE DEF bytes
  <2>2. QED
    BY <2>1, ListedUp
<1> HIDE DEF bytes
<1> DEFINE w == Wrote(m, dst, bytes)
<1>7. WithBytes(m, dst, bytes, w)
  BY <1>6, WroteFacts
<1>8. MemoryOf(w) /\ DOMAIN w = DOMAIN m /\ \A a \in DOMAIN m : w[a] # m[a] => a \in dst..(dst + copied - 1)
  <2> HIDE DEF w
  <2>1. QED
    BY <1>6, <1>7 DEF WithBytes
<1>9. c.mem = w /\ c.copied = copied /\ c.failed = ~Reached(last)
  BY <1>1
<1> HIDE DEF w, c
<1>10. Copies(m, src, dst, most, c)
  BY <1>3, <1>4, <1>8, <1>9 DEF Copies
<1>11. QED
  BY <1>10 DEF c

Printing == [out : Seq(ByteValues), half : BOOLEAN, raw : BOOLEAN]

LEMMA PrintByteFacts ==
    ASSUME NEW s \in Printing, NEW b \in ByteValues
    PROVE  PrintByte(s, b) \in Printing
<1>1. s.out \in Seq(ByteValues) /\ Append(s.out, b) \in Seq(ByteValues)
  BY AppendProperties DEF Printing
<1>2. QED
  BY <1>1 DEF Printing, PrintByte

LEMMA PrintedFacts ==
    ASSUME NEW text \in Seq(ByteValues)
    PROVE  PrintedText(text) \in Seq(ByteValues)
<1> DEFINE n == Len(text)
           none == [out |-> <<>>, half |-> FALSE, raw |-> FALSE]
           Turn(f) == [i \in 0..n |-> IF i = 0 THEN none ELSE PrintByte(f[i - 1], text[i])]
           B == CHOOSE f : f = Turn(f)
           G == [x \in Printing \X (1..n) |-> PrintByte(x[1], text[x[2]])]
<1>1. n \in Nat /\ \A i \in 1..n : text[i] \in ByteValues
  BY LenProperties, ElementOfSeq
<1>2. none \in Printing
  BY EmptySeq DEF Printing
<1>3. G \in [Printing \X (1..n) -> Printing]
  BY <1>1, PrintByteFacts
<1> HIDE DEF n, none
<1>4. \E f \in [0..n -> Printing] : Turned(f, none, G, n)
  <2> HIDE DEF G
  <2>1. QED
    BY <1>1, <1>2, <1>3, TurnsExist
<1>5. PICK f \in [0..n -> Printing] : Turned(f, none, G, n)
  BY <1>4
<1>6. f = Turn(f)
  <2>1. \A i \in 1..n : f[i] = PrintByte(f[i - 1], text[i])
    BY <1>1, <1>5 DEF Turned
  <2>2. f[0] = none
    BY <1>5 DEF Turned
  <2>3. QED
    BY <1>1, <1>5, <2>1, <2>2
<1>7. B = Turn(B)
  <2> HIDE DEF Turn
  <2>1. QED
    BY <1>6
<1> HIDE DEF B
<1>8. B[0] = none /\ \A i \in 1..n : B[i] = PrintByte(B[i - 1], text[i])
  BY <1>1, <1>7
<1>9. \A i \in 0..n : B[i] \in Printing
  <2> DEFINE T == {i \in 0..n : B[i] \in Printing}
  <2>1. 0 \in T
    BY <1>1, <1>2, <1>8
  <2>2. ASSUME NEW k \in T, k < n
        PROVE  k + 1 \in T
    <3>1. k + 1 \in 1..n /\ k + 1 \in 0..n /\ (k + 1) - 1 = k
      BY <1>1, <2>2
    <3>2. B[k + 1] = PrintByte(B[k], text[k + 1])
      BY <1>8, <3>1
    <3>3. QED
      BY <1>1, <3>1, <3>2, PrintByteFacts
  <2>3. T \in SUBSET (0..n)
    OBVIOUS
  <2> HIDE DEF T
  <2>4. T = 0..n
    BY <1>1, <2>1, <2>2, <2>3, UpTo
  <2>5. QED
    BY <2>4 DEF T
<1>10. PrintedText(text) = IF B[n].raw \/ B[n].half THEN text ELSE B[n].out
  BY DEF PrintedText, n, none, B
<1>11. B[n].out \in Seq(ByteValues)
  BY <1>1, <1>9 DEF Printing
<1>12. QED
  BY <1>10, <1>11

-----------------------------------------------------------------------------
(* The calls *)

\* The heap lies above everything that is mapped: strdup maps fresh pages.
MemoryInv ==
    /\ libc \in LibcScopes
    /\ MemoryOf(memory) /\ 1..Cells \subseteq DOMAIN memory
    /\ heapNext \in Nat /\ heapNext >= Heap /\ \A a \in DOMAIN memory : a < heapNext
    /\ libcCalls \in Nat /\ libcCalls <= libc.calls

\* The event of the last call told what it did, if it was simulated.
EventInv ==
    /\ event.simulated \in BOOLEAN
    /\ event.simulated => Told(before, memory, event.writes)

LibcInv == MemoryInv /\ EventInv /\ InputInv

\* How a call ends: it is not simulated, or its writes tell what it did.
Tells == event' = NoEvent \/ \E writes : event' = Event(writes) /\ Told(memory, memory', writes)

LEMMA TellsWrites ==
    ASSUME NEW writes, NEW value, Returns(value, writes), Told(memory, memory', writes)
    PROVE  Tells
BY DEF Tells, Returns

LEMMA TellsNothing ==
    ASSUME memory' = memory, NotSimulated \/ \E value : Returns(value, <<>>)
    PROVE  Tells
BY ToldNothing DEF Tells, Returns, NotSimulated

LEMMA CallEnds ==
    ASSUME LibcInv, Called, MemoryOf(memory'), DOMAIN memory \subseteq DOMAIN memory',
           heapNext' \in Nat, heapNext <= heapNext', \A a \in DOMAIN memory' : a < heapNext',
           Tells, InputInv'
    PROVE  LibcInv'
<1>1. libc \in LibcScopes /\ libc' = libc /\ libc.calls \in Nat
  BY LibcAssumption DEF LibcInv, MemoryInv, Called
<1>2. libcCalls' \in Nat /\ libcCalls' <= libc'.calls
  BY <1>1 DEF LibcInv, MemoryInv, Called
<1>3. heapNext' >= Heap
  BY LibcAssumption DEF LibcInv, MemoryInv, Heap
<1>4. MemoryInv'
  BY <1>1, <1>2, <1>3 DEF LibcInv, MemoryInv
<1>5. EventInv'
  <2>1. before' = memory
    BY DEF Called
  <2>2. CASE event' = NoEvent
    BY <2>2 DEF EventInv, NoEvent
  <2>3. ASSUME NEW writes, event' = Event(writes), Told(memory, memory', writes)
        PROVE  EventInv'
    BY <2>1, <2>3 DEF EventInv, Event
  <2>4. QED
    BY <2>2, <2>3 DEF Tells
<1>6. QED
  BY <1>4, <1>5 DEF LibcInv

LEMMA CallEndsThere ==
    ASSUME LibcInv, Called, MemoryOf(memory'), DOMAIN memory' = DOMAIN memory, heapNext' = heapNext,
           Tells, InputInv'
    PROVE  LibcInv'
BY CallEnds DEF LibcInv, MemoryInv

LEMMA StreamsRest ==
    ASSUME LibcInv, Called, UNCHANGED Streams
    PROVE  InputInv'
<1>1. InputInv /\ UNCHANGED <<libc, stdinPos, syscallPos, handles, delivered>>
  BY DEF LibcInv, Called, Streams
<1>2. PlacesTyped' /\ \A s \in Sources : PlaceOf(s)' = PlaceOf(s)
  BY <1>1 DEF InputInv, PlacesTyped, PlaceOf
<1>3. Len(handles) \in Nat
  BY <1>1, LenProperties DEF InputInv, PlacesTyped
<1>4. QED
  BY <1>1, <1>2, <1>3, InputStill

\* What the arguments are.
LEMMA Arguments ==
    ASSUME LibcInv
    PROVE  /\ libc.pointers \subseteq Nat /\ libc.lengths \subseteq Nat
           /\ MemoryOf(memory) /\ heapNext \in Nat
           /\ Unlimited \in Nat \ {0} /\ MaxCopy \in Nat \ {0} /\ MaxCopy <= Unlimited
           /\ MaxText \in Nat \ {0} /\ MaxLine \in Nat \ {0} /\ Page \in Nat \ {0}
           /\ libc.stdin \in Seq(ByteValues) /\ Len(libc.stdin) \in Nat /\ Len(libc.stdin) < Unlimited
BY LibcAssumption, LenProperties DEF LibcInv, MemoryInv

LEMMA StrcpyKeeps ==
    ASSUME LibcInv, Strcpy
    PROVE  LibcInv'
<1>1. Called /\ heapNext' = heapNext /\ UNCHANGED Streams
  BY DEF Strcpy, Streams
<1>2. PICK dst \in libc.pointers, src \in libc.pointers :
         /\ memory' = CopyString(memory, src, dst, MaxCopy).mem
         /\ LET c == CopyString(memory, src, dst, MaxCopy) IN
            IF c.failed THEN NotSimulated
            ELSE \E value \in {dst, dst + c.copied - 1} :
                    Returns(value, <<WroteBack(c.mem, dst, c.copied, Unlimited)>>)
  BY DEF Strcpy
<1>3. PICK c : c = CopyString(memory, src, dst, MaxCopy)
  OBVIOUS
<1>4. /\ MemoryOf(memory) /\ dst \in Nat /\ src \in Nat
      /\ MaxCopy \in Nat \ {0} /\ MaxCopy <= Unlimited /\ Unlimited \in Nat
  BY Arguments
<1>5. /\ MemoryOf(c.mem) /\ DOMAIN c.mem = DOMAIN memory /\ c.copied \in 0..MaxCopy
      /\ ~c.failed => c.copied > 0
      /\ \A a \in DOMAIN memory : c.mem[a] # memory[a] => a \in dst..(dst + c.copied - 1)
  <2>1. Copies(memory, src, dst, MaxCopy, c)
    BY <1>3, <1>4, CopyFacts
  <2>2. QED
    BY <2>1 DEF Copies
<1>6. memory' = c.mem
  BY <1>2, <1>3
<1>7. Tells
  <2>1. CASE c.failed
    BY <1>2, <1>3, <2>1 DEF Tells, NotSimulated
  <2>2. CASE ~c.failed
    <3>1. \A a \in DOMAIN c.mem : ChangedFrom(memory, c.mem, a) => a \in dst..(dst + c.copied - 1)
      BY <1>5 DEF ChangedFrom
    <3>2. Told(memory, c.mem, <<WroteBack(c.mem, dst, c.copied, Unlimited)>>)
      <4>1. c.copied \in Nat /\ 0 < c.copied /\ c.copied <= Unlimited
        BY <1>4, <1>5, <2>2
      <4>2. QED
        BY <1>4, <1>5, <3>1, <4>1, ToldBack
    <3>3. PICK value : Returns(value, <<WroteBack(c.mem, dst, c.copied, Unlimited)>>)
      BY <1>2, <1>3, <2>2
    <3>4. QED
      BY <1>6, <3>2, <3>3, TellsWrites
  <2>3. QED
    BY <2>1, <2>2
<1>8. QED
  BY <1>1, <1>5, <1>6, <1>7, StreamsRest, CallEndsThere

\* What is outside a stretch is outside the two parts it is cut into.
LEMMA TwoParts ==
    ASSUME NEW dst \in Nat, NEW n \in Nat \ {0}, NEW k \in 0..n, NEW len, len = n - k,
           NEW a \in Nat, a \notin dst..(dst + n - 1)
    PROVE  a \notin (dst + k)..((dst + k) + len - 1) /\ a \notin dst..(dst + k - 1)
  OBVIOUS

\* A copy, padded or not, changes the n bytes from dst at most.
LEMMA PaddedFacts ==
    ASSUME NEW m, MemoryOf(m), NEW src \in Nat, NEW dst \in Nat, NEW n \in Nat \ {0},
           NEW c, c = CopyString(m, src, dst, n), NEW w, w = Padded(c, dst, n)
    PROVE  /\ MemoryOf(w) /\ DOMAIN w = DOMAIN m
           /\ \A a \in DOMAIN m : w[a] # m[a] => a \in dst..(dst + n - 1)
<1>1. /\ MemoryOf(c.mem) /\ DOMAIN c.mem = DOMAIN m /\ c.copied \in 0..n
      /\ \A a \in DOMAIN m : c.mem[a] # m[a] => a \in dst..(dst + c.copied - 1)
  <2>1. Copies(m, src, dst, n, c)
    BY CopyFacts
  <2>2. QED
    BY <2>1 DEF Copies
<1>2. CASE w = c.mem
  BY <1>1, <1>2 DEF MemoryOf
<1>3. CASE w # c.mem
  <2> DEFINE nuls == [i \in 1..(n - c.copied) |-> Nul]
             at == dst + c.copied
  <2>1. w = Wrote(c.mem, at, nuls)
    BY <1>3 DEF Padded
  <2>2. nuls \in Seq(ByteValues) /\ Len(nuls) = n - c.copied /\ at \in Nat
    BY <1>1, BytesAre, Repeated
  <2> HIDE DEF nuls
  <2>3. WithBytes(c.mem, at, nuls, w)
    BY <1>1, <2>1, <2>2, WroteFacts
  <2>4. ASSUME NEW a \in DOMAIN m, a \notin dst..(dst + n - 1)
        PROVE  w[a] = m[a]
    <3>1. a \in Nat
      BY DEF MemoryOf
    <3>2. a \notin at..(at + Len(nuls) - 1) /\ a \notin dst..(dst + c.copied - 1)
      BY <1>1, <2>2, <2>4, <3>1, TwoParts, Zenon
    <3>3. w[a] = c.mem[a] /\ c.mem[a] = m[a]
      BY <1>1, <2>3, <3>2 DEF WithBytes
    <3>4. QED
      BY <3>3
  <2>5. QED
    BY <1>1, <2>3, <2>4 DEF WithBytes
<1>4. QED
  BY <1>2, <1>3

LEMMA StrncpyKeeps ==
    ASSUME LibcInv, Strncpy
    PROVE  LibcInv'
<1>1. Called /\ heapNext' = heapNext /\ UNCHANGED Streams
  BY DEF Strncpy, Streams
<1>2. PICK dst \in libc.pointers, src \in libc.pointers, n \in libc.lengths :
         StrncpyTold(dst, n, CopyString(memory, src, dst, n), n)
  BY DEF Strncpy
<1>3. PICK c : c = CopyString(memory, src, dst, n)
  OBVIOUS
<1>4. MemoryOf(memory) /\ dst \in Nat /\ src \in Nat /\ n \in Nat
  BY Arguments
<1>5. CASE n = 0
  <2>1. memory' = memory /\ Returns(dst, <<>>)
    BY <1>2, <1>5 DEF StrncpyTold
  <2>2. QED
    BY <1>1, <1>4, <2>1, TellsNothing, StreamsRest, CallEndsThere
<1>6. CASE n # 0 /\ c.failed
  <2>1. memory' = c.mem /\ NotSimulated
    BY <1>2, <1>3, <1>6 DEF StrncpyTold
  <2>2. MemoryOf(c.mem) /\ DOMAIN c.mem = DOMAIN memory
    <3>1. n \in Nat \ {0}
      BY <1>4, <1>6
    <3>2. Copies(memory, src, dst, n, c)
      BY <1>3, <1>4, <3>1, CopyFacts
    <3>3. QED
      BY <3>2 DEF Copies
  <2>3. Tells
    BY <2>1 DEF Tells, NotSimulated
  <2>4. QED
    BY <1>1, <2>1, <2>2, <2>3, StreamsRest, CallEndsThere
<1>7. CASE n # 0 /\ ~c.failed
  <2>1. memory' = Padded(c, dst, n) /\ Returns(dst, <<WroteBack(memory', dst, n, n)>>)
    BY <1>2, <1>3, <1>7 DEF StrncpyTold
  <2>2. PICK w : w = memory'
    OBVIOUS
  <2>3. /\ MemoryOf(w) /\ DOMAIN w = DOMAIN memory
        /\ \A a \in DOMAIN memory : w[a] # memory[a] => a \in dst..(dst + n - 1)
    BY <1>3, <1>4, <1>7, <2>1, <2>2, PaddedFacts
  <2>4. \A a \in DOMAIN w : ChangedFrom(memory, w, a) => a \in dst..(dst + n - 1)
    BY <2>3 DEF ChangedFrom
  <2>5. Told(memory, w, <<WroteBack(w, dst, n, n)>>)
    BY <1>4, <1>7, <2>3, <2>4, ToldBack
  <2>6. Tells
    BY <2>1, <2>2, <2>5, TellsWrites
  <2>7. QED
    BY <1>1, <2>2, <2>3, <2>6, StreamsRest, CallEndsThere
<1>8. QED
  BY <1>5, <1>6, <1>7

\* A call that writes n bytes where they are mapped and reads them back.
LEMMA WrittenTold ==
    ASSUME LibcInv, Called, heapNext' = heapNext, UNCHANGED Streams,
           NEW dst \in Nat, NEW n \in Nat, NEW bytes \in Seq(ByteValues), NEW value,
           MappedAt(memory, dst, n) => Len(bytes) = n,
           n = 0 => Len(bytes) = 0,
           \/ /\ n = 0 \/ MappedAt(memory, dst, n)
              /\ memory' = Wrote(memory, dst, bytes)
              /\ Returns(value, IF n = 0 THEN <<>> ELSE <<WroteBack(memory', dst, n, n)>>)
           \/ memory' = memory /\ NotSimulated
    PROVE  LibcInv'
<1>1. MemoryOf(memory)
  BY Arguments
<1>2. CASE memory' = memory /\ NotSimulated
  BY <1>1, <1>2, TellsNothing, StreamsRest, CallEndsThere
<1>3. CASE n = 0 /\ memory' = Wrote(memory, dst, bytes) /\ Returns(value, <<>>)
  <2>1. memory' = memory
    BY <1>1, <1>3, WroteNothing
  <2>2. QED
    BY <1>1, <1>3, <2>1, TellsNothing, StreamsRest, CallEndsThere
<1>4. CASE /\ n # 0 /\ MappedAt(memory, dst, n) /\ memory' = Wrote(memory, dst, bytes)
           /\ Returns(value, <<WroteBack(memory', dst, n, n)>>)
  <2>1. PICK w : w = memory'
    OBVIOUS
  <2>2. WithBytes(memory, dst, bytes, w) /\ Len(bytes) = n
    BY <1>1, <1>4, <2>1, WroteFacts
  <2>3. \A a \in DOMAIN w : ChangedFrom(memory, w, a) => a \in dst..(dst + n - 1)
    BY <2>2 DEF ChangedFrom, WithBytes
  <2>4. Told(memory, w, <<WroteBack(w, dst, n, n)>>)
    <3>1. MemoryOf(w) /\ 0 < n
      BY <1>4, <2>2 DEF WithBytes
    <3>2. QED
      BY <2>3, <3>1, ToldBack
  <2>5. Tells
    BY <1>4, <2>1, <2>4, TellsWrites
  <2>6. QED
    BY <2>1, <2>2, <2>5, StreamsRest, CallEndsThere DEF WithBytes
<1>5. QED
  BY <1>2, <1>3, <1>4

LEMMA MemcpyKeeps ==
    ASSUME LibcInv, Memcpy
    PROVE  LibcInv'
<1>1. Called /\ heapNext' = heapNext /\ UNCHANGED Streams
  BY DEF Memcpy, Streams
<1>2. PICK dst \in libc.pointers, src \in libc.pointers, n \in libc.lengths :
         \/ /\ n = 0 \/ (MappedAt(memory, src, n) /\ MappedAt(memory, dst, n))
            /\ memory' = Wrote(memory, dst, CellsAt(memory, src, n))
            /\ Returns(dst, IF n = 0 THEN <<>> ELSE <<WroteBack(memory', dst, n, n)>>)
         \/ memory' = memory /\ NotSimulated
  BY DEF Memcpy
<1>3. MemoryOf(memory) /\ dst \in Nat /\ src \in Nat /\ n \in Nat
  BY Arguments
<1>4. PICK bytes : bytes = CellsAt(memory, src, n)
  OBVIOUS
<1>5. /\ bytes \in Seq(ByteValues) /\ (MappedAt(memory, src, n) => Len(bytes) = n)
      /\ n = 0 => Len(bytes) = 0
  <2>1. Shows(memory, src, n, bytes)
    BY <1>3, <1>4, CellsFacts
  <2>2. QED
    BY <2>1, EmptySeq DEF Shows
<1>6. CASE memory' = memory /\ NotSimulated
  BY <1>1, <1>3, <1>6, TellsNothing, StreamsRest, CallEndsThere
<1>7. CASE /\ n = 0 \/ (MappedAt(memory, src, n) /\ MappedAt(memory, dst, n))
           /\ memory' = Wrote(memory, dst, bytes)
           /\ Returns(dst, IF n = 0 THEN <<>> ELSE <<WroteBack(memory', dst, n, n)>>)
  BY <1>1, <1>3, <1>5, <1>7, WrittenTold
<1>8. QED
  BY <1>2, <1>4, <1>6, <1>7

LEMMA MemsetKeeps ==
    ASSUME LibcInv, Memset
    PROVE  LibcInv'
<1>1. Called /\ heapNext' = heapNext /\ UNCHANGED Streams
  BY DEF Memset, Streams
<1>2. PICK dst \in libc.pointers, n \in libc.lengths, value \in {Nul, Small} :
         \/ /\ n = 0 \/ MappedAt(memory, dst, n)
            /\ memory' = Wrote(memory, dst, [i \in 1..n |-> value])
            /\ Returns(dst, IF n = 0 THEN <<>> ELSE <<WroteBack(memory', dst, n, n)>>)
         \/ memory' = memory /\ NotSimulated
  BY DEF Memset
<1>3. dst \in Nat /\ n \in Nat
  BY Arguments
<1>4. PICK bytes : bytes = [i \in 1..n |-> value]
  OBVIOUS
<1>5. bytes \in Seq(ByteValues) /\ Len(bytes) = n
  BY <1>3, <1>4, BytesAre, Repeated
<1>6. \/ /\ n = 0 \/ MappedAt(memory, dst, n)
         /\ memory' = Wrote(memory, dst, bytes)
         /\ Returns(dst, IF n = 0 THEN <<>> ELSE <<WroteBack(memory', dst, n, n)>>)
      \/ memory' = memory /\ NotSimulated
  BY <1>2, <1>4
<1>7. QED
  BY <1>1, <1>3, <1>5, <1>6, WrittenTold

BytesOf(bytes, n) == bytes \in Seq(ByteValues) /\ Len(bytes) = n

LEMMA SliceFacts ==
    ASSUME NEW data \in Seq(ByteValues), NEW from \in Nat, NEW to \in from..Len(data)
    PROVE  BytesOf(SubSeq(data, from + 1, to), to - from)
<1>1. Len(data) \in Nat /\ to \in Nat /\ from + 1 \in Int /\ to \in Int
  BY LenProperties
<1>2. \A i \in (from + 1)..to : i \in 1..Len(data)
  BY <1>1
<1>3. \A i \in (from + 1)..to : data[i] \in ByteValues
  BY <1>2, ElementOfSeq
<1>4. /\ SubSeq(data, from + 1, to) \in Seq(ByteValues)
      /\ Len(SubSeq(data, from + 1, to)) = IF from + 1 <= to THEN to - (from + 1) + 1 ELSE 0
  BY <1>1, <1>3, SubSeqProperties
<1>5. (IF from + 1 <= to THEN to - (from + 1) + 1 ELSE 0) = to - from
  BY <1>1
<1>6. QED
  BY <1>4, <1>5 DEF BytesOf

LEMMA Terminated ==
    ASSUME NEW n \in Nat, NEW bytes, BytesOf(bytes, n)
    PROVE  BytesOf(Append(bytes, Nul), n + 1)
BY BytesAre, AppendProperties DEF BytesOf

\* A call that stores bytes and tells them.
LEMMA StoresTold ==
    ASSUME LibcInv, Called, heapNext' = heapNext, InputInv',
           NEW dst \in Nat, NEW n \in Nat \ {0}, NEW bytes, BytesOf(bytes, n),
           NEW most \in Nat, n <= most, NEW value, Stores(dst, bytes, most, value)
    PROVE  LibcInv'
<1>1. MemoryOf(memory) /\ bytes \in Seq(ByteValues) /\ Len(bytes) = n
  BY Arguments DEF BytesOf
<1>2. CASE memory' = memory /\ NotSimulated
  BY <1>1, <1>2, TellsNothing, CallEndsThere
<1>3. CASE /\ MappedAt(memory, dst, n) /\ memory' = Wrote(memory, dst, bytes)
           /\ Returns(value, <<Recorded(dst, n, bytes, most)>>)
  <2> DEFINE r == Recorded(dst, n, bytes, most)
  <2>1. PICK w : w = memory'
    OBVIOUS
  <2>2. WithBytes(memory, dst, bytes, w) /\ w = Wrote(memory, dst, bytes)
    BY <1>1, <1>3, <2>1, WroteFacts
  <2>3. Told(memory, memory, <<>>)
    BY ToldNothing
  <2>4. Told(memory, w, Append(<<>>, Recorded(dst, Len(bytes), bytes, most)))
    <3>1. 0 < Len(bytes) /\ Len(bytes) <= most /\ MappedAt(memory, dst, Len(bytes))
      BY <1>1, <1>3
    <3>2. QED
      BY <1>1, <2>2, <2>3, <3>1, ToldMore
  <2>5. Append(<<>>, r) = <<r>>
    OBVIOUS
  <2>6. Told(memory, w, <<r>>)
    BY <1>1, <2>4, <2>5
  <2>7. Tells
    BY <1>3, <2>1, <2>6, TellsWrites
  <2>8. QED
    BY <2>1, <2>2, <2>7, CallEndsThere DEF WithBytes
<1>4. QED
  BY <1>1, <1>2, <1>3 DEF Stores

\* What sprintf writes of a text: its beginning, and a NUL.
LEMMA CutFacts ==
    ASSUME NEW text \in Seq(ByteValues), NEW n \in Nat \ {0}
    PROVE  \E k \in 1..n : BytesOf(SubSeq(text, 1, Min({Len(text), n - 1})) \o <<Nul>>, k)
<1> DEFINE m == Min({Len(text), n - 1})
           cut == SubSeq(text, 1, m)
<1>1. Len(text) \in Nat /\ n - 1 \in Nat
  BY LenProperties
<1>2. m \in 0..Len(text) /\ m <= n - 1
  BY <1>1, TwoNumbers
<1> HIDE DEF m
<1>3. m - 0 = m /\ 0 + 1 = 1 /\ m \in Nat
  BY <1>1, <1>2
<1>4. BytesOf(SubSeq(text, 0 + 1, m), m - 0)
  BY <1>2, SliceFacts
<1>5. cut \in Seq(ByteValues) /\ Len(cut) = m
  BY <1>3, <1>4 DEF BytesOf
<1> HIDE DEF cut
<1>6. BytesOf(Append(cut, Nul), m + 1) /\ Append(cut, Nul) = cut \o <<Nul>>
  BY <1>3, <1>5, BytesAre, Terminated, AppendIsConcat DEF BytesOf
<1>7. m + 1 \in 1..n
  BY <1>1, <1>2
<1>8. QED
  BY <1>6, <1>7 DEF cut, m

LEMMA SprintfKeeps ==
    ASSUME LibcInv, Sprintf
    PROVE  LibcInv'
<1>1. Called /\ heapNext' = heapNext /\ UNCHANGED Streams
  BY DEF Sprintf, Streams
<1>2. PICK dst \in libc.pointers, format \in libc.pointers, n \in libc.lengths \cup {Unlimited} :
         LET size == Strlen(memory, format, MaxText)
             text == PrintedText(CellsAt(memory, format, size))
             payload == SubSeq(text, 1, Min({Len(text), n - 1})) \o <<Nul>>
         IN IF size = -1 THEN memory' = memory /\ NotSimulated
            ELSE IF n = 0 THEN memory' = memory /\ Returns(Len(text), <<>>)
            ELSE IF ~MappedAt(memory, dst, Len(payload)) THEN memory' = memory /\ NotSimulated
            ELSE /\ memory' = Wrote(memory, dst, payload)
                 /\ Returns(Len(text), <<Recorded(dst, Len(payload), payload, n)>>)
  BY DEF Sprintf
<1>3. PICK size : size = Strlen(memory, format, MaxText)
  OBVIOUS
<1>4. PICK text : text = PrintedText(CellsAt(memory, format, size))
  OBVIOUS
<1>5. PICK payload : payload = SubSeq(text, 1, Min({Len(text), n - 1})) \o <<Nul>>
  OBVIOUS
<1>6. /\ MemoryOf(memory) /\ dst \in Nat /\ format \in Nat /\ n \in Nat
      /\ MaxText \in Nat
  BY Arguments
<1>7. IF size = -1 THEN memory' = memory /\ NotSimulated
      ELSE IF n = 0 THEN memory' = memory /\ Returns(Len(text), <<>>)
      ELSE Stores(dst, payload, n, Len(text))
  BY <1>2, <1>3, <1>4, <1>5 DEF Stores
<1>8. CASE size = -1 \/ n = 0
  <2>1. memory' = memory /\ (NotSimulated \/ \E value : Returns(value, <<>>))
    BY <1>7, <1>8
  <2>2. QED
    BY <1>1, <1>6, <2>1, TellsNothing, StreamsRest, CallEndsThere
<1>9. CASE size # -1 /\ n # 0
  <2>1. size \in Nat
    BY <1>3, <1>6, <1>9, StrlenFacts
  <2>2. Shows(memory, format, size, CellsAt(memory, format, size))
    BY <1>6, <2>1, CellsFacts
  <2>3. text \in Seq(ByteValues)
    BY <1>4, <2>2, PrintedFacts DEF Shows
  <2>4. n \in Nat \ {0}
    BY <1>6, <1>9
  <2>5. PICK k \in 1..n : BytesOf(payload, k)
    BY <1>5, <2>3, <2>4, CutFacts
  <2>6. k \in Nat \ {0} /\ k <= n
    BY <2>4, <2>5
  <2>7. Stores(dst, payload, n, Len(text)) /\ InputInv'
    BY <1>1, <1>7, <1>9, StreamsRest
  <2>8. QED
    BY <1>1, <1>6, <2>5, <2>6, <2>7, StoresTold
<1>10. QED
  BY <1>8, <1>9

\* strdup maps whole pages above what is mapped: they were no string's before.
LEMMA StrdupKeeps ==
    ASSUME LibcInv, Strdup
    PROVE  LibcInv'
<1>1. Called /\ UNCHANGED Streams
  BY DEF Strdup, Streams
<1>2. PICK src \in libc.pointers :
         LET size == Strlen(memory, src, MaxCopy) + 1
             pages == heapNext..(heapNext + Page * ((size + Page - 1) \div Page) - 1)
             mapped == [a \in DOMAIN memory \cup pages |-> IF a \in pages THEN Nul ELSE memory[a]]
             c == CopyString(mapped, src, heapNext, size)
         IN IF size = 0 THEN UNCHANGED <<memory, heapNext>> /\ NotSimulated
            ELSE /\ memory' = c.mem /\ heapNext' = Max(pages) + 1
                 /\ Returns(heapNext, <<WroteBack(c.mem, heapNext, c.copied, size)>>)
  BY DEF Strdup
<1>3. PICK size : size = Strlen(memory, src, MaxCopy) + 1
  OBVIOUS
<1>4. PICK k : k = Page * ((size + Page - 1) \div Page)
  OBVIOUS
<1>5. PICK pages : pages = heapNext..(heapNext + k - 1)
  OBVIOUS
<1>6. PICK mapped : mapped = [a \in DOMAIN memory \cup pages |-> IF a \in pages THEN Nul ELSE memory[a]]
  OBVIOUS
<1>7. PICK c : c = CopyString(mapped, src, heapNext, size)
  OBVIOUS
<1>8. IF size = 0 THEN UNCHANGED <<memory, heapNext>> /\ NotSimulated
      ELSE /\ memory' = c.mem /\ heapNext' = Max(pages) + 1
           /\ Returns(heapNext, <<WroteBack(c.mem, heapNext, c.copied, size)>>)
  BY <1>2, <1>3, <1>4, <1>5, <1>6, <1>7
<1>9. /\ MemoryOf(memory) /\ src \in Nat /\ MaxCopy \in Nat /\ Page \in Nat \ {0}
      /\ heapNext \in Nat /\ heapNext > 0 /\ \A a \in DOMAIN memory : a \in Nat \ {0} /\ a < heapNext
  BY Arguments, LibcAssumption DEF LibcInv, MemoryInv, Heap, MemoryOf
<1>10. CASE size = 0
  <2>1. memory' = memory /\ heapNext' = heapNext /\ NotSimulated
    BY <1>8, <1>10
  <2>2. QED
    BY <1>1, <1>9, <2>1, TellsNothing, StreamsRest, CallEndsThere
<1>11. CASE size # 0
  <2>1. size \in Nat \ {0} /\ MappedAt(memory, src, size)
    <3>1. PICK len : len = Strlen(memory, src, MaxCopy)
      OBVIOUS
    <3>2. len \in 0..(MaxCopy - 1) /\ MappedAt(memory, src, len + 1) /\ size = len + 1
      BY <1>3, <1>9, <1>11, <3>1, StrlenFacts
    <3>3. QED
      BY <1>9, <3>2
  <2>2. k \in Nat /\ k >= size
    BY <1>4, <1>9, <2>1, RoundedUp
  <2>3. /\ \A a \in pages : a \in Nat \ {0} /\ heapNext <= a /\ a < heapNext + k
        /\ pages \subseteq 0..(heapNext + k) /\ pages # {} /\ heapNext + k \in Nat
        /\ heapNext + k - 1 \in pages
    <3>1. k >= 1 /\ heapNext + k - 1 \in Nat
      BY <1>9, <2>1, <2>2
    <3>2. \A a \in pages : a \in Int /\ heapNext <= a /\ a <= heapNext + k - 1
      BY <1>5, <1>9, <2>2
    <3>3. heapNext + k - 1 \in pages /\ heapNext + k \in Nat
      BY <1>5, <1>9, <2>2, <3>1
    <3>4. \A a \in pages : a \in Nat \ {0} /\ heapNext <= a /\ a < heapNext + k /\ a \in 0..(heapNext + k)
      BY <1>9, <2>2, <3>2
    <3>5. QED
      BY <3>3, <3>4
  <2>4. heapNext' = heapNext + k
    <3>1. Max(pages) \in pages /\ \A x \in pages : Max(pages) >= x
      BY <2>3, GreatestIn
    <3>2. PICK top : top = Max(pages)
      OBVIOUS
    <3>3. top \in Nat /\ top < heapNext + k /\ top >= heapNext + k - 1
      BY <2>3, <3>1, <3>2
    <3>4. top = heapNext + k - 1
      BY <1>9, <2>2, <3>3
    <3>5. QED
      BY <1>8, <1>9, <1>11, <2>2, <3>2, <3>4
  <2>5. /\ DOMAIN mapped = DOMAIN memory \cup pages
        /\ \A a \in DOMAIN mapped : mapped[a] = IF a \in DOMAIN memory THEN memory[a] ELSE Nul
        /\ mapped = [a \in DOMAIN mapped |-> mapped[a]]
    <3>1. \A a \in DOMAIN memory : a \notin pages
      BY <1>9, <2>3
    <3>2. QED
      BY <1>6, <3>1
  <2>6. MemoryOf(mapped)
    <3>1. \A a \in DOMAIN mapped : mapped[a] \in ByteValues
      BY <1>9, <2>5, BytesAre DEF MemoryOf
    <3>2. DOMAIN mapped \subseteq Nat \ {0}
      BY <1>9, <2>3, <2>5
    <3>3. QED
      BY <2>5, <3>1, <3>2 DEF MemoryOf
  <2>7. Copies(mapped, src, heapNext, size, c)
    BY <1>7, <1>9, <2>1, <2>6, CopyFacts
  <2>8. MappedAt(mapped, src, 1) /\ MappedAt(mapped, heapNext, 1)
    <3>1. src # 0 /\ src \in DOMAIN memory
      BY <1>9, <2>1 DEF MappedAt
    <3>2. heapNext \in pages
      BY <1>5, <1>9, <2>1, <2>2
    <3>3. \A x \in Nat : x..(x + 1 - 1) = {x}
      OBVIOUS
    <3>4. src \in DOMAIN mapped /\ heapNext \in DOMAIN mapped
      BY <2>5, <3>1, <3>2
    <3>5. QED
      BY <1>9, <3>1, <3>3, <3>4 DEF MappedAt
  <2>9. /\ MemoryOf(c.mem) /\ DOMAIN c.mem = DOMAIN memory \cup pages
        /\ c.copied \in Nat /\ 0 < c.copied /\ c.copied <= size
        /\ \A a \in DOMAIN mapped : c.mem[a] # mapped[a] => a \in heapNext..(heapNext + c.copied - 1)
    BY <2>1, <2>5, <2>7, <2>8 DEF Copies
  <2>10. \A a \in DOMAIN c.mem : ChangedFrom(memory, c.mem, a) => a \in heapNext..(heapNext + c.copied - 1)
    BY <2>5, <2>9 DEF ChangedFrom
  <2>11. Told(memory, c.mem, <<WroteBack(c.mem, heapNext, c.copied, size)>>)
    BY <1>9, <2>1, <2>9, <2>10, ToldBack
  <2>12. memory' = c.mem /\ Tells
    BY <1>8, <1>11, <2>11, TellsWrites
  <2>13. \A a \in DOMAIN memory' : a < heapNext'
    BY <1>9, <2>2, <2>3, <2>4, <2>9, <2>12
  <2>14. DOMAIN memory \subseteq DOMAIN memory' /\ heapNext' \in Nat /\ heapNext <= heapNext'
    BY <1>9, <2>2, <2>4, <2>9, <2>12
  <2>15. QED
    BY <1>1, <2>9, <2>12, <2>13, <2>14, StreamsRest, CallEnds
<1>12. QED
  BY <1>10, <1>11

LEMMA InspectKeeps ==
    ASSUME LibcInv, Inspect
    PROVE  LibcInv'
<1>1. Called /\ heapNext' = heapNext /\ UNCHANGED Streams /\ memory' = memory
  BY DEF Inspect, Streams
<1>2. NotSimulated \/ \E value : Returns(value, <<>>)
  <2> DEFINE Lowered == [a \in DOMAIN memory |-> Lower(memory[a])]
             Sign(value) == IF value = 0 THEN 0 ELSE IF value < 0 THEN -1 ELSE 1
             Constant == \E value \in {1, 1000, 1337} : Returns(value, <<>>)
             Length == \E src \in libc.pointers :
                          IF Strlen(memory, src, MaxCopy) = -1 THEN NotSimulated
                          ELSE Returns(Strlen(memory, src, MaxCopy), <<>>)
             Compare == \E lhs, rhs \in libc.pointers, n \in libc.lengths \cup {Unlimited} :
                          IF Compared(memory, lhs, rhs, n) = {} THEN NotSimulated
                          ELSE \E value \in Compared(memory, lhs, rhs, n) : Returns(value, <<>>)
             CompareLow == \E lhs, rhs \in libc.pointers :
                          IF -1 \in {Strlen(memory, lhs, MaxText), Strlen(memory, rhs, MaxText)} THEN NotSimulated
                          ELSE \E value \in Compared(Lowered, lhs, rhs, Unlimited) : Returns(Sign(value), <<>>)
  <2>1. Constant \/ Length \/ Compare \/ CompareLow
    BY DEF Inspect
  <2>2. Constant => \E value : Returns(value, <<>>)
    OBVIOUS
  <2>3. Length => NotSimulated \/ \E value : Returns(value, <<>>)
    OBVIOUS
  <2>4. Compare => NotSimulated \/ \E value : Returns(value, <<>>)
    OBVIOUS
  <2> HIDE DEF Lowered, Sign
  <2>5. CompareLow => NotSimulated \/ \E value : Returns(value, <<>>)
    OBVIOUS
  <2> HIDE DEF Constant, Length, Compare, CompareLow
  <2>6. QED
    BY <2>1, <2>2, <2>3, <2>4, <2>5
<1>3. MemoryOf(memory)
  BY Arguments
<1>4. QED
  BY <1>1, <1>2, <1>3, TellsNothing, StreamsRest, CallEndsThere

\* A call that changes no memory, whatever it returns.
LEMMA QuietKeeps ==
    ASSUME LibcInv, Called, memory' = memory, heapNext' = heapNext, InputInv',
           NotSimulated \/ \E value : Returns(value, <<>>)
    PROVE  LibcInv'
BY Arguments, TellsNothing, CallEndsThere

LEMMA StdinTakes ==
    ASSUME LibcInv, Called, UNCHANGED <<syscallPos, handles>>,
           stdinPos' \in stdinPos..Len(libc.stdin), Delivers(Stdin, stdinPos, stdinPos')
    PROVE  InputInv'
<1>1. InputInv /\ libc \in LibcScopes /\ UNCHANGED <<libc, syscallPos, handles>>
  BY DEF LibcInv, MemoryInv, Called
<1>2. stdinPos \in Nat /\ stdinPos' \in Nat /\ stdinPos <= stdinPos' /\ Stdin \in Int
  BY <1>1, Arguments DEF InputInv, PlacesTyped, Stdin
<1>3. PICK to : to = stdinPos'
  OBVIOUS
<1>4. PICK got : Chained(got, stdinPos, to) /\ delivered' = delivered \o Intervals(Stdin, got)
  BY <1>1, <1>2, <1>3, DeliveredOne
<1>5. QED
  BY <1>1, <1>3, <1>4, StdinMoves

LEMMA SyscallTakes ==
    ASSUME LibcInv, Called, UNCHANGED <<stdinPos, handles>>,
           syscallPos' \in syscallPos..Len(libc.stdin), Delivers(Syscall, syscallPos, syscallPos')
    PROVE  InputInv'
<1>1. InputInv /\ libc \in LibcScopes /\ UNCHANGED <<libc, stdinPos, handles>>
  BY DEF LibcInv, MemoryInv, Called
<1>2. syscallPos \in Nat /\ syscallPos' \in Nat /\ syscallPos <= syscallPos' /\ Syscall \in Int
  BY <1>1, Arguments DEF InputInv, PlacesTyped, Syscall
<1>3. PICK to : to = syscallPos'
  OBVIOUS
<1>4. PICK got : Chained(got, syscallPos, to) /\ delivered' = delivered \o Intervals(Syscall, got)
  BY <1>1, <1>2, <1>3, DeliveredOne
<1>5. QED
  BY <1>1, <1>3, <1>4, SyscallMoves

\* What an open file is.
LEMMA HandleIs ==
    ASSUME LibcInv, NEW h \in 1..Len(handles)
    PROVE  /\ handles \in Seq(HandleRecords) /\ handles[h] \in HandleRecords /\ Len(handles) \in Nat
           /\ handles[h].data \in Seq(ByteValues) /\ Len(handles[h].data) \in Nat
           /\ handles[h].pos \in 0..Len(handles[h].data)
<1>1. handles \in Seq(HandleRecords) /\ handles[h].pos <= Len(handles[h].data)
  BY DEF LibcInv, InputInv, PlacesTyped
<1>2. handles[h] \in HandleRecords /\ Len(handles) \in Nat
  BY <1>1, ElementOfSeq, LenProperties
<1>3. handles[h].data \in Seq(ByteValues) /\ handles[h].pos \in Nat
  BY <1>2 DEF HandleRecords
<1>4. QED
  BY <1>1, <1>2, <1>3, LenProperties

LEMMA HandleTakes ==
    ASSUME LibcInv, Called, UNCHANGED <<stdinPos, syscallPos>>,
           NEW h \in 1..Len(handles), NEW to \in handles[h].pos..Len(handles[h].data),
           handles' = [handles EXCEPT ![h].pos = to], Delivers(h, handles[h].pos, to)
    PROVE  InputInv'
<1>1. InputInv /\ libc \in LibcScopes /\ UNCHANGED <<libc, stdinPos, syscallPos>>
  BY DEF LibcInv, MemoryInv, Called
<1>2. handles[h].pos \in Nat /\ to \in Nat /\ handles[h].pos <= to /\ h \in Int
  BY HandleIs
<1>3. PICK from : from = handles[h].pos
  OBVIOUS
<1>4. PICK got : Chained(got, from, to) /\ delivered' = delivered \o Intervals(h, got)
  BY <1>1, <1>2, <1>3, DeliveredOne
<1>5. QED
  BY <1>1, <1>3, <1>4, HandleMoves

LEMMA LineEndFacts ==
    ASSUME NEW data \in Seq(ByteValues), NEW pos \in 0..Len(data), NEW most \in Nat
    PROVE  LineEnd(data, pos, most) \in pos..Len(data) /\ LineEnd(data, pos, most) <= pos + most
<1> DEFINE end == Min({Len(data), pos + most})
           breaks == {k \in (pos + 1)..end : data[k] = Newline}
<1>1. Len(data) \in Nat /\ pos \in Nat /\ pos + most \in Int
  BY LenProperties
<1>2. end \in pos..Len(data) /\ end <= pos + most
  BY <1>1, TwoNumbers
<1> HIDE DEF end
<1>3. Max({pos, end}) = end
  <2>1. end \in Int /\ pos <= end
    BY <1>1, <1>2
  <2>2. \A a \in Int, b \in Int : a <= b => Max({a, b}) = b
    BY TwoNumbers
  <2>3. QED
    BY <1>1, <2>1, <2>2
<1>4. breaks # {} => Min(breaks) \in (pos + 1)..end
  <2>1. breaks \in SUBSET Nat /\ breaks \subseteq (pos + 1)..end
    BY <1>1, <1>2
  <2> HIDE DEF breaks
  <2>2. QED
    BY <2>1, LeastIn
<1>5. LineEnd(data, pos, most) = IF breaks = {} THEN Max({pos, end}) ELSE Min(breaks)
  BY DEF LineEnd, end
<1> HIDE DEF breaks
<1>6. CASE breaks = {}
  BY <1>1, <1>2, <1>3, <1>5, <1>6
<1>7. CASE breaks # {}
  BY <1>1, <1>2, <1>4, <1>5, <1>7
<1>8. QED
  BY <1>6, <1>7

\* A line without its newline is no longer.
LEMMA ChompedFacts ==
    ASSUME NEW n \in Nat, NEW line, BytesOf(line, n), NEW text,
           text = IF line # <<>> /\ Last(line) = Newline THEN Front(line) ELSE line
    PROVE  \E k \in 0..n : BytesOf(text, k)
<1>1. CASE text = line
  BY <1>1
<1>2. CASE line # <<>> /\ text = Front(line)
  <2>1. line \in Seq(ByteValues) /\ Len(line) = n /\ n # 0
    BY <1>2, EmptySeq DEF BytesOf
  <2>2. n - 1 \in 0..Len(line) /\ (n - 1) - 0 = n - 1 /\ 0 + 1 = 1 /\ n - 1 \in 0..n
    BY <2>1
  <2>3. BytesOf(SubSeq(line, 0 + 1, n - 1), (n - 1) - 0)
    BY <2>1, <2>2, SliceFacts
  <2>4. text = SubSeq(line, 1, n - 1)
    BY <1>2, <2>1 DEF Front
  <2>5. BytesOf(text, n - 1)
    BY <2>2, <2>3, <2>4
  <2>6. QED
    BY <2>2, <2>5
<1>3. QED
  BY <1>1, <1>2

LEMMA GetsKeeps ==
    ASSUME LibcInv, Gets
    PROVE  LibcInv'
<1>1. Called /\ heapNext' = heapNext /\ UNCHANGED <<syscallPos, handles>>
  BY DEF Gets
<1>2. PICK dst \in libc.pointers :
         LET end == LineEnd(libc.stdin, stdinPos, MaxLine)
             line == SubSeq(libc.stdin, stdinPos + 1, end)
             text == IF line # <<>> /\ Last(line) = Newline THEN Front(line) ELSE line
         IN /\ Stores(dst, Append(text, Nul), MaxLine + 1, dst)
            /\ stdinPos' = end /\ Delivers(Stdin, stdinPos, end)
  BY DEF Gets
<1>3. PICK end : end = LineEnd(libc.stdin, stdinPos, MaxLine)
  OBVIOUS
<1>4. PICK line : line = SubSeq(libc.stdin, stdinPos + 1, end)
  OBVIOUS
<1>5. PICK text : text = IF line # <<>> /\ Last(line) = Newline THEN Front(line) ELSE line
  OBVIOUS
<1>6. /\ Stores(dst, Append(text, Nul), MaxLine + 1, dst)
      /\ stdinPos' = end /\ Delivers(Stdin, stdinPos, end)
  BY <1>2, <1>3, <1>4, <1>5
<1>7. /\ libc.stdin \in Seq(ByteValues) /\ Len(libc.stdin) \in Nat
      /\ MaxLine \in Nat /\ dst \in Nat
  BY Arguments
<1>8. stdinPos \in 0..Len(libc.stdin)
  BY DEF LibcInv, InputInv, PlacesTyped
<1>9. end \in stdinPos..Len(libc.stdin) /\ end <= stdinPos + MaxLine
  BY <1>3, <1>7, <1>8, LineEndFacts
<1>10. InputInv'
  BY <1>1, <1>6, <1>9, StdinTakes
<1>11. stdinPos \in Nat /\ end - stdinPos \in Nat /\ end - stdinPos <= MaxLine
  BY <1>7, <1>8, <1>9
<1>12. BytesOf(line, end - stdinPos)
  BY <1>4, <1>7, <1>9, <1>11, SliceFacts
<1>13. PICK k \in 0..(end - stdinPos) : BytesOf(text, k)
  BY <1>5, <1>11, <1>12, ChompedFacts
<1>14. k \in Nat /\ k + 1 \in Nat \ {0} /\ k + 1 <= MaxLine + 1
  BY <1>7, <1>11, <1>13
<1>15. BytesOf(Append(text, Nul), k + 1)
  BY <1>13, <1>14, Terminated
<1>16. QED
  BY <1>1, <1>6, <1>7, <1>10, <1>14, <1>15, StoresTold

LEMMA FgetsKeeps ==
    ASSUME LibcInv, Fgets
    PROVE  LibcInv'
<1>1. Called /\ heapNext' = heapNext /\ UNCHANGED <<syscallPos, handles>>
  BY DEF Fgets
<1>2. PICK dst \in libc.pointers, n \in libc.lengths \ {0} :
         LET end == LineEnd(libc.stdin, stdinPos, n - 1)
             line == SubSeq(libc.stdin, stdinPos + 1, end)
         IN /\ Stores(dst, Append(line, Nul), n, IF line = <<>> THEN 0 ELSE dst)
            /\ stdinPos' = end /\ Delivers(Stdin, stdinPos, end)
  BY DEF Fgets
<1>3. PICK end : end = LineEnd(libc.stdin, stdinPos, n - 1)
  OBVIOUS
<1>4. PICK line : line = SubSeq(libc.stdin, stdinPos + 1, end)
  OBVIOUS
<1>5. PICK value : value = IF line = <<>> THEN 0 ELSE dst
  OBVIOUS
<1>6. /\ Stores(dst, Append(line, Nul), n, value)
      /\ stdinPos' = end /\ Delivers(Stdin, stdinPos, end)
  BY <1>2, <1>3, <1>4, <1>5
<1>7. /\ libc.stdin \in Seq(ByteValues) /\ Len(libc.stdin) \in Nat
      /\ n \in Nat /\ n - 1 \in Nat /\ dst \in Nat
  BY Arguments
<1>8. stdinPos \in 0..Len(libc.stdin)
  BY DEF LibcInv, InputInv, PlacesTyped
<1>9. end \in stdinPos..Len(libc.stdin) /\ end <= stdinPos + (n - 1)
  BY <1>3, <1>7, <1>8, LineEndFacts
<1>10. InputInv'
  BY <1>1, <1>6, <1>9, StdinTakes
<1>11. PICK k : k = end - stdinPos
  OBVIOUS
<1>12. stdinPos \in Nat /\ k \in Nat /\ k + 1 \in Nat \ {0} /\ k + 1 <= n
  BY <1>7, <1>8, <1>9, <1>11
<1>13. BytesOf(line, k)
  BY <1>4, <1>7, <1>9, <1>11, <1>12, SliceFacts
<1>14. BytesOf(Append(line, Nul), k + 1)
  BY <1>12, <1>13, Terminated
<1>15. QED
  BY <1>1, <1>6, <1>7, <1>10, <1>12, <1>14, StoresTold

\* Where a read of n bytes ends.
LEMMA ReadEnd ==
    ASSUME NEW len \in Nat, NEW pos \in 0..len, NEW n \in Nat
    PROVE  /\ Max({pos, Min({len, pos + n})}) \in pos..len
           /\ Max({pos, Min({len, pos + n})}) <= pos + n
<1>1. pos \in Int /\ len \in Int /\ pos + n \in Int /\ pos <= len
  OBVIOUS
<1>2. PICK least : least = Min({len, pos + n})
  OBVIOUS
<1>3. least = IF len <= pos + n THEN len ELSE pos + n
  BY <1>1, <1>2, TwoNumbers
<1>4. least \in Int
  BY <1>1, <1>3
<1>5. Max({pos, least}) = IF pos <= least THEN least ELSE pos
  BY <1>1, <1>4, TwoNumbers
<1>6. QED
  BY <1>1, <1>2, <1>3, <1>5

LEMMA ReadBytesKeeps ==
    ASSUME LibcInv, ReadBytes
    PROVE  LibcInv'
<1>1. Called /\ heapNext' = heapNext /\ UNCHANGED <<syscallPos, handles>>
  BY DEF ReadBytes
<1>2. CASE memory' = memory /\ Returns(0, <<>>) /\ UNCHANGED <<stdinPos, delivered>>
  BY <1>1, <1>2, StreamsRest, QuietKeeps DEF Streams
<1>3. ASSUME NEW dst \in libc.pointers, NEW n \in libc.lengths, NEW end,
             end = Max({stdinPos, Min({Len(libc.stdin), stdinPos + n})}),
             IF end = stdinPos THEN memory' = memory /\ Returns(0, <<>>)
             ELSE Stores(dst, SubSeq(libc.stdin, stdinPos + 1, end), n, end - stdinPos),
             stdinPos' = end, Delivers(Stdin, stdinPos, end)
      PROVE  LibcInv'
  <2>1. libc.stdin \in Seq(ByteValues) /\ Len(libc.stdin) \in Nat /\ n \in Nat /\ dst \in Nat
    BY Arguments
  <2>2. stdinPos \in 0..Len(libc.stdin)
    BY DEF LibcInv, InputInv, PlacesTyped
  <2>3. end \in stdinPos..Len(libc.stdin) /\ end <= stdinPos + n
    BY <1>3, <2>1, <2>2, ReadEnd
  <2>4. InputInv'
    BY <1>1, <1>3, <2>3, StdinTakes
  <2>5. CASE end = stdinPos
    BY <1>1, <1>3, <2>4, <2>5, QuietKeeps
  <2>6. CASE end # stdinPos
    <3>1. PICK k : k = end - stdinPos
      OBVIOUS
    <3>2. stdinPos \in Nat /\ k \in Nat \ {0} /\ k <= n
      BY <2>1, <2>2, <2>3, <2>6, <3>1
    <3>3. PICK line : line = SubSeq(libc.stdin, stdinPos + 1, end)
      OBVIOUS
    <3>4. BytesOf(line, k)
      BY <2>1, <2>3, <3>1, <3>2, <3>3, SliceFacts
    <3>5. Stores(dst, line, n, k)
      BY <1>3, <2>6, <3>1, <3>3
    <3>6. QED
      BY <1>1, <2>1, <2>4, <3>2, <3>4, <3>5, StoresTold
  <2>7. QED
    BY <2>5, <2>6
<1>4. QED
  BY <1>2, <1>3 DEF ReadBytes

LEMMA ReadSyscallKeeps ==
    ASSUME LibcInv, ReadSyscall
    PROVE  LibcInv'
<1>1. Called /\ heapNext' = heapNext /\ UNCHANGED <<stdinPos, handles>> /\ event' = NoEvent
  BY DEF ReadSyscall
<1>15. CASE UNCHANGED <<memory, syscallPos, delivered>>
  <2>1. InputInv' /\ MemoryOf(memory') /\ DOMAIN memory' = DOMAIN memory
    BY <1>1, <1>15, StreamsRest, Arguments DEF Streams
  <2>2. Tells
    BY <1>1 DEF Tells
  <2>3. QED
    BY <1>1, <2>1, <2>2, CallEndsThere
<1>16. SUFFICES ASSUME ~UNCHANGED <<memory, syscallPos, delivered>>
                PROVE  LibcInv'
  BY <1>15
<1>2. PICK dst \in libc.pointers, n \in libc.lengths :
         LET end == Max({syscallPos, Min({Len(libc.stdin), syscallPos + n})}) IN
         /\ memory' = Wrote(memory, dst, SubSeq(libc.stdin, syscallPos + 1, end))
         /\ syscallPos' = end /\ Delivers(Syscall, syscallPos, end)
  BY <1>16 DEF ReadSyscall
<1>3. PICK end : end = Max({syscallPos, Min({Len(libc.stdin), syscallPos + n})})
  OBVIOUS
<1>4. PICK bytes : bytes = SubSeq(libc.stdin, syscallPos + 1, end)
  OBVIOUS
<1>5. memory' = Wrote(memory, dst, bytes) /\ syscallPos' = end /\ Delivers(Syscall, syscallPos, end)
  BY <1>2, <1>3, <1>4
<1>6. /\ MemoryOf(memory) /\ libc.stdin \in Seq(ByteValues) /\ Len(libc.stdin) \in Nat
      /\ n \in Nat /\ dst \in Nat
  BY Arguments
<1>7. syscallPos \in 0..Len(libc.stdin)
  BY DEF LibcInv, InputInv, PlacesTyped
<1>8. end \in syscallPos..Len(libc.stdin)
  BY <1>3, <1>6, <1>7, ReadEnd
<1>9. InputInv'
  BY <1>1, <1>5, <1>8, SyscallTakes
<1>10. bytes \in Seq(ByteValues)
  <2>1. syscallPos \in Nat
    BY <1>6, <1>7
  <2>2. BytesOf(bytes, end - syscallPos)
    BY <1>4, <1>6, <1>8, <2>1, SliceFacts
  <2>3. QED
    BY <2>2 DEF BytesOf
<1>11. WithBytes(memory, dst, bytes, Wrote(memory, dst, bytes))
  BY <1>6, <1>10, WroteFacts
<1>12. MemoryOf(memory') /\ DOMAIN memory' = DOMAIN memory
  BY <1>5, <1>11 DEF WithBytes
<1>13. Tells
  BY <1>1 DEF Tells
<1>14. QED
  BY <1>1, <1>9, <1>12, <1>13, CallEndsThere

LEMMA FopenKeeps ==
    ASSUME LibcInv, Fopen
    PROVE  LibcInv'
<1>1. Called /\ UNCHANGED <<memory, stdinPos, syscallPos, heapNext, delivered>>
  BY DEF Fopen
<1>2. CASE handles' = handles /\ Returns(0, <<>>)
  BY <1>1, <1>2, StreamsRest, QuietKeeps DEF Streams
<1>3. ASSUME NEW data \in libc.files, NEW r, r = [data |-> data, pos |-> 0, closed |-> FALSE],
             handles' = Append(handles, r), Returns(Len(handles) + 1, <<>>)
      PROVE  LibcInv'
  <2>1. InputInv /\ handles \in Seq(HandleRecords) /\ libc' = libc
    BY <1>1 DEF LibcInv, InputInv, PlacesTyped, Called
  <2>2. data \in Seq(ByteValues)
    BY LibcAssumption DEF LibcInv, MemoryInv
  <2>3. r \in HandleRecords /\ r.pos = 0 /\ r.data = data /\ Len(data) \in Nat
    BY <1>3, <2>2, LenProperties DEF HandleRecords
  <2>4. /\ handles' \in Seq(HandleRecords) /\ Len(handles') = Len(handles) + 1 /\ Len(handles) \in Nat
        /\ \A h \in 1..Len(handles) : handles'[h] = handles[h]
        /\ handles'[Len(handles) + 1] = r
    BY <1>3, <2>1, <2>3, AppendProperties, LenProperties
  <2>5. \A h \in 1..Len(handles') : handles'[h].pos <= Len(handles'[h].data)
    <3> SUFFICES ASSUME NEW h \in 1..Len(handles') PROVE handles'[h].pos <= Len(handles'[h].data)
      OBVIOUS
    <3>1. CASE h = Len(handles) + 1
      BY <2>3, <2>4, <3>1
    <3>2. CASE h # Len(handles) + 1
      <4>1. h \in 1..Len(handles)
        BY <2>4, <3>2
      <4>2. QED
        BY <2>1, <2>4, <4>1 DEF InputInv, PlacesTyped
    <3>3. QED
      BY <3>1, <3>2
  <2>6. PlacesTyped'
    BY <1>1, <2>1, <2>4, <2>5 DEF InputInv, PlacesTyped
  <2>7. \A s \in Sources : PlaceOf(s)' = PlaceOf(s)
    BY <1>1, <2>4 DEF Sources, PlaceOf
  <2>8. InputInv'
    BY <1>1, <2>1, <2>4, <2>6, <2>7, InputStill
  <2>9. QED
    BY <1>1, <1>3, <2>8, QuietKeeps
<1>4. QED
  BY <1>2, <1>3 DEF Fopen

LEMMA FgetcKeeps ==
    ASSUME LibcInv, Fgetc
    PROVE  LibcInv'
<1>1. Called /\ UNCHANGED <<memory, stdinPos, syscallPos, heapNext>>
  BY DEF Fgetc
<1>2. PICK h \in OpenHandles :
         IF handles[h].pos >= Len(handles[h].data) THEN Returns(-1, <<>>) /\ UNCHANGED <<handles, delivered>>
         ELSE /\ handles' = [handles EXCEPT ![h].pos = @ + 1] /\ Delivers(h, handles[h].pos, handles[h].pos + 1)
              /\ Returns(handles[h].data[handles[h].pos + 1], <<>>)
  BY DEF Fgetc
<1>3. h \in 1..Len(handles)
  BY DEF OpenHandles
<1>4. Len(handles[h].data) \in Nat /\ handles[h].pos \in 0..Len(handles[h].data)
  BY <1>3, HandleIs
<1>5. CASE handles[h].pos >= Len(handles[h].data)
  <2>1. Returns(-1, <<>>) /\ UNCHANGED <<handles, delivered>>
    BY <1>2, <1>5
  <2>2. QED
    BY <1>1, <2>1, StreamsRest, QuietKeeps DEF Streams
<1>6. CASE ~(handles[h].pos >= Len(handles[h].data))
  <2>1. PICK to : to = handles[h].pos + 1
    OBVIOUS
  <2>2. /\ handles' = [handles EXCEPT ![h].pos = to] /\ Delivers(h, handles[h].pos, to)
        /\ \E value : Returns(value, <<>>)
    BY <1>2, <1>6, <2>1
  <2>3. to \in handles[h].pos..Len(handles[h].data)
    BY <1>4, <1>6, <2>1
  <2>4. InputInv'
    BY <1>1, <1>3, <2>2, <2>3, HandleTakes
  <2>5. QED
    BY <1>1, <2>2, <2>4, QuietKeeps
<1>7. QED
  BY <1>5, <1>6

LEMMA FgetsFileKeeps ==
    ASSUME LibcInv, FgetsFile
    PROVE  LibcInv'
<1>1. Called /\ UNCHANGED <<stdinPos, syscallPos, heapNext>>
  BY DEF FgetsFile
<1>2. PICK h \in OpenHandles, dst \in libc.pointers, n \in libc.lengths \ {0} :
         LET f == handles[h]
             end == LineEnd(f.data, f.pos, n - 1)
         IN /\ IF end = f.pos THEN memory' = memory /\ Returns(0, <<>>)
               ELSE Stores(dst, Append(SubSeq(f.data, f.pos + 1, end), Nul), n, dst)
            /\ handles' = [handles EXCEPT ![h].pos = end] /\ Delivers(h, f.pos, end)
  BY DEF FgetsFile
<1>3. PICK data, pos : data = handles[h].data /\ pos = handles[h].pos
  OBVIOUS
<1>4. PICK end : end = LineEnd(data, pos, n - 1)
  OBVIOUS
<1>5. PICK line : line = SubSeq(data, pos + 1, end)
  OBVIOUS
<1>6. /\ IF end = pos THEN memory' = memory /\ Returns(0, <<>>) ELSE Stores(dst, Append(line, Nul), n, dst)
      /\ handles' = [handles EXCEPT ![h].pos = end] /\ Delivers(h, pos, end)
  BY <1>2, <1>3, <1>4, <1>5
<1>7. h \in 1..Len(handles)
  BY DEF OpenHandles
<1>8. data \in Seq(ByteValues) /\ Len(data) \in Nat /\ pos \in 0..Len(data)
  BY <1>3, <1>7, HandleIs
<1>9. n \in Nat /\ n - 1 \in Nat /\ dst \in Nat
  BY Arguments
<1>10. end \in pos..Len(data) /\ end <= pos + (n - 1)
  BY <1>4, <1>8, <1>9, LineEndFacts
<1>11. InputInv'
  BY <1>1, <1>3, <1>6, <1>7, <1>10, HandleTakes
<1>12. CASE end = pos
  BY <1>1, <1>6, <1>11, <1>12, QuietKeeps
<1>13. CASE end # pos
  <2>1. PICK k : k = end - pos
    OBVIOUS
  <2>2. pos \in Nat /\ k \in Nat /\ k + 1 \in Nat \ {0} /\ k + 1 <= n
    BY <1>8, <1>9, <1>10, <2>1
  <2>3. BytesOf(line, k)
    BY <1>5, <1>8, <1>10, <2>1, <2>2, SliceFacts
  <2>4. BytesOf(Append(line, Nul), k + 1)
    BY <2>2, <2>3, Terminated
  <2>5. Stores(dst, Append(line, Nul), n, dst)
    BY <1>6, <1>13
  <2>6. QED
    BY <1>1, <1>9, <1>11, <2>2, <2>4, <2>5, StoresTold
<1>14. QED
  BY <1>12, <1>13

LEMMA FcloseKeeps ==
    ASSUME LibcInv, Fclose
    PROVE  LibcInv'
<1>1. Called /\ UNCHANGED <<memory, stdinPos, syscallPos, heapNext, delivered>>
  BY DEF Fclose
<1>2. PICK h \in OpenHandles :
         \/ handles' = [handles EXCEPT ![h].closed = TRUE] /\ Returns(0, <<>>)
         \/ handles' = handles /\ Returns(IF handles[h].pos >= Len(handles[h].data) THEN 1 ELSE 0, <<>>)
  BY DEF Fclose
<1>3. \E value : Returns(value, <<>>)
  BY <1>2
<1>4. h \in 1..Len(handles)
  BY DEF OpenHandles
<1>5. handles \in Seq(HandleRecords) /\ handles[h] \in HandleRecords /\ Len(handles) \in Nat
  BY <1>4, HandleIs
<1>6. CASE handles' = handles
  BY <1>1, <1>3, <1>6, StreamsRest, QuietKeeps DEF Streams
<1>7. CASE handles' = [handles EXCEPT ![h].closed = TRUE]
  <2> DEFINE r == [handles[h] EXCEPT !.closed = TRUE]
             more == [handles EXCEPT ![h] = r]
  <2>1. handles' = more
    BY <1>7
  <2>2. r \in HandleRecords /\ r.pos = handles[h].pos /\ r.data = handles[h].data
    BY <1>5 DEF HandleRecords
  <2> HIDE DEF r
  <2>3. /\ more \in Seq(HandleRecords) /\ Len(more) = Len(handles)
        /\ \A g \in 1..Len(handles) : more[g] = IF g = h THEN r ELSE handles[g]
    BY <1>4, <1>5, <2>2, ExceptSeq
  <2> HIDE DEF more
  <2>4. /\ handles' \in Seq(HandleRecords) /\ Len(handles') = Len(handles)
        /\ \A g \in 1..Len(handles) : handles'[g].pos = handles[g].pos /\ handles'[g].data = handles[g].data
    BY <2>1, <2>2, <2>3
  <2>5. InputInv /\ libc' = libc
    BY <1>1 DEF LibcInv, Called
  <2>6. PlacesTyped' /\ \A s \in Sources : PlaceOf(s)' = PlaceOf(s)
    BY <1>1, <2>4, <2>5 DEF InputInv, PlacesTyped, Sources, PlaceOf
  <2>7. InputInv'
    BY <1>1, <1>5, <2>4, <2>5, <2>6, InputStill
  <2>8. QED
    BY <1>1, <1>3, <2>7, QuietKeeps
<1>8. QED
  BY <1>2, <1>6, <1>7

-----------------------------------------------------------------------------
(* scanf *)

LEMMA ChainedOn ==
    ASSUME NEW p \in Nat, NEW q \in Nat, NEW r \in Nat, q <= r, NEW got, Chained(got, p, q)
    PROVE  Chained(got, p, r)
<1>1. got \in Seq(Nat \X Nat)
  BY DEF Chained
<1>2. \A i \in 1..Len(got) : got[i] \in Nat \X Nat
  BY <1>1, ElementOfSeq
<1>3. QED
  BY <1>1, <1>2 DEF Chained

LEMMA ChainedMore ==
    ASSUME NEW p \in Nat, NEW q \in Nat, NEW from \in Nat, NEW to \in Nat, p <= q, q <= from, from <= to,
           NEW got, Chained(got, p, q)
    PROVE  Chained(Append(got, <<from, to>>), p, to)
<1> DEFINE d == <<from, to>>
           more == Append(got, d)
<1>1. d \in Nat \X Nat /\ d[1] = from /\ d[2] = to
  OBVIOUS
<1> HIDE DEF d
<1>2. got \in Seq(Nat \X Nat) /\ Len(got) \in Nat
  BY LenProperties DEF Chained
<1>3. \A i \in 1..Len(got) : got[i] \in Nat \X Nat
  BY <1>2, ElementOfSeq
<1>4. /\ more \in Seq(Nat \X Nat) /\ Len(more) = Len(got) + 1
      /\ \A i \in 1..Len(got) : more[i] = got[i]
      /\ more[Len(got) + 1] = d
  BY <1>1, <1>2, AppendProperties
<1> HIDE DEF more
<1>5. Len(got) \in Nat /\ Len(more) = Len(got) + 1
  BY <1>2, <1>4
<1>6. \A i \in 1..Len(more) : i # Len(got) + 1 => i \in 1..Len(got) /\ \A j \in 1..(i - 1) : j \in 1..Len(got)
  BY <1>5
<1>7. ASSUME NEW i \in 1..Len(more)
      PROVE  /\ p <= more[i][1] /\ more[i][1] <= more[i][2] /\ more[i][2] <= to
             /\ \A j \in 1..(i - 1) : more[j][2] <= more[i][1]
  <2>1. CASE i = Len(got) + 1
    <3>1. more[i] = d
      BY <1>4, <2>1
    <3>2. \A j \in 1..(i - 1) : more[j] = got[j] /\ j \in 1..Len(got)
      <4>1. i - 1 = Len(got)
        BY <1>5, <2>1
      <4>2. QED
        BY <1>4, <4>1
    <3>3. ASSUME NEW j \in 1..(i - 1)
          PROVE  more[j][2] <= from
      <4>1. more[j] = got[j] /\ j \in 1..Len(got)
        BY <3>2
      <4>2. got[j][2] <= q /\ got[j] \in Nat \X Nat
        BY <1>3, <4>1 DEF Chained
      <4>3. QED
        BY <4>1, <4>2
    <3>4. QED
      BY <1>1, <3>1, <3>3
  <2>2. CASE i # Len(got) + 1
    <3>1. i \in 1..Len(got) /\ more[i] = got[i]
      BY <1>4, <1>6, <2>2
    <3>2. \A j \in 1..(i - 1) : j \in 1..Len(got) /\ more[j] = got[j]
      BY <1>4, <1>6, <2>2
    <3>3. got[i][2] <= q /\ got[i] \in Nat \X Nat
      BY <1>3, <3>1 DEF Chained
    <3>4. p <= got[i][1] /\ got[i][1] <= got[i][2] /\ \A j \in 1..(i - 1) : got[j][2] <= got[i][1]
      BY <3>1 DEF Chained
    <3>5. got[i][2] <= to
      BY <3>3
    <3>6. QED
      BY <3>1, <3>2, <3>4, <3>5
  <2>3. QED
    BY <2>1, <2>2
<1>8. Chained(more, p, to)
  BY <1>4, <1>7 DEF Chained
<1>9. QED
  BY <1>8 DEF more, d

\* What a scan that began with this memory at this place may have come to.
ScanStates(m, data, p) ==
    {s \in [mem : [DOMAIN m -> ByteValues], pos : p..Len(data), assigned : Nat, supported : BOOLEAN,
            ended : BOOLEAN, failed : BOOLEAN, got : Seq(Nat \X Nat), writes : Seq(WriteRecords)] :
        Chained(s.got, p, s.pos) /\ Told(m, s.mem, s.writes)}

LEMMA ScanStays ==
    ASSUME NEW m, NEW data \in Seq(ByteValues), NEW p \in Nat, NEW s \in ScanStates(m, data, p),
           NEW to \in s.pos..Len(data), NEW supported \in BOOLEAN, NEW ended \in BOOLEAN, NEW failed \in BOOLEAN,
           NEW r, r = [s EXCEPT !.pos = to, !.supported = supported, !.ended = ended, !.failed = failed]
    PROVE  r \in ScanStates(m, data, p)
<1>1. /\ s \in [mem : [DOMAIN m -> ByteValues], pos : p..Len(data), assigned : Nat, supported : BOOLEAN,
                ended : BOOLEAN, failed : BOOLEAN, got : Seq(Nat \X Nat), writes : Seq(WriteRecords)]
      /\ Chained(s.got, p, s.pos) /\ Told(m, s.mem, s.writes)
  BY DEF ScanStates
<1>2. Len(data) \in Nat
  BY LenProperties
<1>3. s.pos \in p..Len(data) /\ to \in p..Len(data) /\ s.pos \in Nat /\ to \in Nat /\ s.pos <= to
  BY <1>1, <1>2
<1>4. /\ r \in [mem : [DOMAIN m -> ByteValues], pos : p..Len(data), assigned : Nat, supported : BOOLEAN,
                ended : BOOLEAN, failed : BOOLEAN, got : Seq(Nat \X Nat), writes : Seq(WriteRecords)]
      /\ r.mem = s.mem /\ r.pos = to /\ r.got = s.got /\ r.writes = s.writes
  BY <1>1, <1>3
<1>5. Chained(r.got, p, r.pos)
  BY <1>1, <1>3, <1>4, ChainedOn
<1>6. QED
  BY <1>1, <1>4, <1>5 DEF ScanStates

\* Places that follow one another in a text, and how long what lies between two of them is.
LEMMA OneAfterAnother ==
    ASSUME NEW n \in Nat, NEW p \in Nat, NEW pos \in p..n, NEW from \in pos..n, NEW to \in from..n
    PROVE  /\ pos \in Nat /\ p <= pos /\ pos <= from /\ from \in Nat /\ from <= to /\ to \in Nat
           /\ to \in p..n
  OBVIOUS

LEMMA LengthBetween ==
    ASSUME NEW from \in Nat, NEW to \in Nat, from <= to, NEW width \in Nat, to <= from + width,
           NEW k, k = to - from
    PROVE  k \in Nat /\ k + 1 <= width + 1 /\ 0 < k + 1 /\ width + 1 \in Nat
  OBVIOUS

\* One conversion that is stored.
LEMMA ScanStores ==
    ASSUME NEW m, MemoryOf(m), NEW data \in Seq(ByteValues), NEW p \in Nat, NEW s \in ScanStates(m, data, p),
           NEW from \in s.pos..Len(data), NEW to \in from..Len(data), from # to,
           NEW width \in Nat, to <= from + width, NEW dst \in Nat,
           NEW payload, payload = Append(SubSeq(data, from + 1, to), Nul),
           MappedAt(s.mem, dst, Len(payload)),
           NEW r, r = [s EXCEPT !.supported = TRUE, !.pos = to, !.mem = Wrote(@, dst, payload),
                                !.assigned = @ + 1, !.got = Append(@, <<from, to>>),
                                !.writes = Append(@, Recorded(dst, Len(payload), payload, width + 1))]
    PROVE  r \in ScanStates(m, data, p)
<1>1. /\ s \in [mem : [DOMAIN m -> ByteValues], pos : p..Len(data), assigned : Nat, supported : BOOLEAN,
                ended : BOOLEAN, failed : BOOLEAN, got : Seq(Nat \X Nat), writes : Seq(WriteRecords)]
      /\ Chained(s.got, p, s.pos) /\ Told(m, s.mem, s.writes)
  BY DEF ScanStates
<1>2. Len(data) \in Nat
  BY LenProperties
<1>3. /\ s.pos \in Nat /\ p <= s.pos /\ s.pos <= from /\ from \in Nat /\ from <= to /\ to \in Nat
      /\ to \in p..Len(data)
  <2>1. s.pos \in p..Len(data)
    BY <1>1
  <2>2. QED
    BY <1>2, <2>1, OneAfterAnother, Zenon
<1>4. PICK k : k = to - from
  OBVIOUS
<1>5. k \in Nat /\ k + 1 <= width + 1 /\ 0 < k + 1 /\ width + 1 \in Nat
  BY <1>3, <1>4, LengthBetween, Zenon
<1>6. payload \in Seq(ByteValues) /\ Len(payload) = k + 1
  <2>1. BytesOf(SubSeq(data, from + 1, to), k)
    BY <1>3, <1>4, SliceFacts
  <2>2. BytesOf(payload, k + 1)
    BY <1>5, <2>1, Terminated
  <2>3. QED
    BY <2>2 DEF BytesOf
<1>7. MemoryOf(s.mem) /\ DOMAIN s.mem = DOMAIN m
  BY <1>1 DEF MemoryOf
<1>8. PICK w : w = Wrote(s.mem, dst, payload)
  OBVIOUS
<1>9. PICK record : record = Recorded(dst, Len(payload), payload, width + 1)
  OBVIOUS
<1>10. PICK got : got = Append(s.got, <<from, to>>)
  OBVIOUS
<1>11. PICK writes : writes = Append(s.writes, record)
  OBVIOUS
<1>12. MemoryOf(w) /\ DOMAIN w = DOMAIN m
  <2>1. dst \in Nat /\ payload \in Seq(ByteValues)
    BY <1>6
  <2>2. WithBytes(s.mem, dst, payload, w)
    BY <1>7, <1>8, <2>1, WroteFacts
  <2>3. QED
    BY <1>7, <2>2 DEF WithBytes
<1>13. w \in [DOMAIN m -> ByteValues]
  BY <1>12 DEF MemoryOf
<1>14. Told(m, w, writes)
  <2>1. 0 < Len(payload) /\ Len(payload) <= width + 1
    BY <1>5, <1>6
  <2>2. QED
    BY <1>1, <1>5, <1>6, <1>7, <1>8, <1>9, <1>11, <2>1, ToldMore
<1>15. Chained(got, p, to)
  BY <1>1, <1>3, <1>10, ChainedMore
<1>16. got \in Seq(Nat \X Nat) /\ writes \in Seq(WriteRecords) /\ s.assigned + 1 \in Nat
  BY <1>1, <1>14, <1>15 DEF Told, Chained
<1>17. r = [s EXCEPT !.supported = TRUE, !.pos = to, !.mem = w, !.assigned = s.assigned + 1,
                     !.got = got, !.writes = writes]
  BY <1>1, <1>8, <1>9, <1>10, <1>11
<1>18. /\ r \in [mem : [DOMAIN m -> ByteValues], pos : p..Len(data), assigned : Nat, supported : BOOLEAN,
                 ended : BOOLEAN, failed : BOOLEAN, got : Seq(Nat \X Nat), writes : Seq(WriteRecords)]
       /\ r.mem = w /\ r.pos = to /\ r.got = got /\ r.writes = writes
  BY <1>1, <1>3, <1>13, <1>16, <1>17
<1>19. QED
  BY <1>14, <1>15, <1>18 DEF ScanStates

LEMMA ScanTokenKeeps ==
    ASSUME NEW m, MemoryOf(m), NEW data \in Seq(ByteValues), NEW p \in Nat, NEW s \in ScanStates(m, data, p),
           NEW t \in ScanTokens, NEW from \in s.pos..Len(data), NEW to \in from..Len(data),
           t.kind = "conv" => to <= from + t.width,
           NEW dst, t.kind = "conv" /\ t.assign => dst \in Nat
    PROVE  ScanToken(s, t, dst, data, from, to) \in ScanStates(m, data, p)
<1> DEFINE r == ScanToken(s, t, dst, data, from, to)
           States == ScanStates(m, data, p)
           As(place, supported, ended, failed) ==
               [s EXCEPT !.pos = place, !.supported = supported, !.ended = ended, !.failed = failed]
<1>1. s \in [mem : [DOMAIN m -> ByteValues], pos : p..Len(data), assigned : Nat, supported : BOOLEAN,
             ended : BOOLEAN, failed : BOOLEAN, got : Seq(Nat \X Nat), writes : Seq(WriteRecords)]
  BY DEF ScanStates
<1>2. Len(data) \in Nat /\ s.pos \in Nat /\ s.pos <= Len(data) /\ from \in Nat /\ to \in s.pos..Len(data)
  BY <1>1, LenProperties
<1>3. t.kind \in {"white", "literal", "conv"} /\ t.assign \in BOOLEAN /\ t.width \in Nat
  BY DEF ScanTokens
<1>4. \A place \in s.pos..Len(data), supported \in BOOLEAN, ended \in BOOLEAN, failed \in BOOLEAN :
         As(place, supported, ended, failed) \in States
  BY ScanStays
<1>5. s.supported \in BOOLEAN /\ s.ended \in BOOLEAN /\ s.failed \in BOOLEAN /\ s.pos \in s.pos..Len(data)
  BY <1>1, <1>2
<1>6. CASE s.ended
  BY <1>6 DEF ScanToken
<1>7. CASE ~s.ended /\ t.kind = "white"
  <2>1. r = [s EXCEPT !.pos = from]
    BY <1>7 DEF ScanToken
  <2>2. [s EXCEPT !.pos = from] = As(from, s.supported, s.ended, s.failed)
    BY <1>1
  <2> HIDE DEF As, r, States
  <2>3. QED
    BY <1>4, <1>5, <2>1, <2>2 DEF r, States
<1>8. CASE ~s.ended /\ t.kind = "literal"
  <2>1. CASE s.pos < Len(data) /\ data[s.pos + 1] = t.byte
    <3>1. r = [s EXCEPT !.pos = @ + 1]
      BY <1>8, <2>1 DEF ScanToken
    <3>2. [s EXCEPT !.pos = @ + 1] = As(s.pos + 1, s.supported, s.ended, s.failed)
      BY <1>1
    <3>3. s.pos + 1 \in s.pos..Len(data)
      BY <1>2, <2>1
    <3> HIDE DEF As, r, States
    <3>4. QED
      BY <1>4, <1>5, <3>1, <3>2, <3>3 DEF r, States
  <2>2. CASE ~(s.pos < Len(data) /\ data[s.pos + 1] = t.byte)
    <3>1. r = [s EXCEPT !.ended = TRUE]
      BY <1>8, <2>2 DEF ScanToken
    <3>2. [s EXCEPT !.ended = TRUE] = As(s.pos, s.supported, TRUE, s.failed)
      BY <1>1
    <3> HIDE DEF As, r, States
    <3>3. QED
      BY <1>4, <1>5, <3>1, <3>2 DEF r, States
  <2>3. QED
    BY <2>1, <2>2
<1>9. CASE ~s.ended /\ t.kind = "conv" /\ t.conv = "d"
  <2>1. ASSUME NEW failed \in BOOLEAN, failed = ~s.supported
        PROVE  r \in States
    <3>1. r = [s EXCEPT !.ended = TRUE, !.failed = failed]
      BY <1>9, <2>1 DEF ScanToken
    <3>2. [s EXCEPT !.ended = TRUE, !.failed = failed] = As(s.pos, s.supported, TRUE, failed)
      BY <1>1
    <3> HIDE DEF As, r, States
    <3>3. As(s.pos, s.supported, TRUE, failed) \in States
      BY <1>4, <1>5
    <3>4. QED
      BY <3>1, <3>2, <3>3
  <2>2. s.supported = TRUE \/ s.supported = FALSE
    BY <1>5
  <2>3. CASE s.supported = TRUE
    <3>1. FALSE \in BOOLEAN /\ FALSE = ~s.supported
      BY <2>3
    <3> HIDE DEF As, r, States
    <3>2. QED
      BY <2>1, <3>1 DEF r, States
  <2>4. CASE s.supported = FALSE
    <3>1. TRUE \in BOOLEAN /\ TRUE = ~s.supported
      BY <2>4
    <3> HIDE DEF As, r, States
    <3>2. QED
      BY <2>1, <3>1 DEF r, States
  <2>5. QED
    BY <2>2, <2>3, <2>4
<1>10. CASE ~s.ended /\ t.kind = "conv" /\ t.conv # "d"
  <2>1. PICK payload : payload = Append(SubSeq(data, from + 1, to), Nul)
    OBVIOUS
  <2>2. r = IF from = to THEN [s EXCEPT !.supported = TRUE, !.pos = to, !.ended = TRUE]
            ELSE IF ~t.assign THEN [s EXCEPT !.supported = TRUE, !.pos = to]
            ELSE IF ~MappedAt(s.mem, dst, Len(payload))
            THEN [s EXCEPT !.supported = TRUE, !.pos = to, !.ended = TRUE, !.failed = TRUE]
            ELSE [s EXCEPT !.supported = TRUE, !.pos = to, !.mem = Wrote(@, dst, payload),
                           !.assigned = @ + 1, !.got = Append(@, <<from, to>>),
                           !.writes = Append(@, Recorded(dst, Len(payload), payload, t.width + 1))]
    BY <1>10, <2>1 DEF ScanToken
  <2>3. CASE from = to
    <3>1. r = [s EXCEPT !.supported = TRUE, !.pos = to, !.ended = TRUE]
      BY <2>2, <2>3
    <3>2. [s EXCEPT !.supported = TRUE, !.pos = to, !.ended = TRUE] = As(to, TRUE, TRUE, s.failed)
      BY <1>1
    <3> HIDE DEF As, r, States
    <3>3. QED
      BY <1>2, <1>4, <1>5, <3>1, <3>2 DEF r, States
  <2>4. CASE from # to /\ ~t.assign
    <3>1. r = [s EXCEPT !.supported = TRUE, !.pos = to]
      BY <2>2, <2>4
    <3>2. [s EXCEPT !.supported = TRUE, !.pos = to] = As(to, TRUE, s.ended, s.failed)
      BY <1>1
    <3> HIDE DEF As, r, States
    <3>3. QED
      BY <1>2, <1>4, <1>5, <3>1, <3>2 DEF r, States
  <2>5. CASE from # to /\ t.assign /\ ~MappedAt(s.mem, dst, Len(payload))
    <3>1. r = [s EXCEPT !.supported = TRUE, !.pos = to, !.ended = TRUE, !.failed = TRUE]
      BY <2>2, <2>5
    <3>2. [s EXCEPT !.supported = TRUE, !.pos = to, !.ended = TRUE, !.failed = TRUE] = As(to, TRUE, TRUE, TRUE)
      BY <1>1
    <3> HIDE DEF As, r, States
    <3>3. QED
      BY <1>2, <1>4, <1>5, <3>1, <3>2 DEF r, States
  <2>6. CASE from # to /\ t.assign /\ MappedAt(s.mem, dst, Len(payload))
    <3>1. r = [s EXCEPT !.supported = TRUE, !.pos = to, !.mem = Wrote(@, dst, payload),
                        !.assigned = @ + 1, !.got = Append(@, <<from, to>>),
                        !.writes = Append(@, Recorded(dst, Len(payload), payload, t.width + 1))]
      BY <2>2, <2>6
    <3>2. dst \in Nat /\ to <= from + t.width
      BY <1>10, <2>6
    <3> HIDE DEF As, r, States
    <3>3. r \in ScanStates(m, data, p)
      BY <1>3, <2>1, <2>6, <3>1, <3>2, ScanStores
    <3>4. QED
      BY <3>3 DEF r
  <2>7. QED
    BY <2>3, <2>4, <2>5, <2>6
<1>11. QED
  BY <1>3, <1>6, <1>7, <1>8, <1>9, <1>10

LEMMA SkippedFacts ==
    ASSUME NEW data \in Seq(ByteValues), NEW pos \in 0..Len(data)
    PROVE  Skipped(data, pos) \in pos..Len(data)
<1> DEFINE T == {k \in pos..Len(data) : \A j \in (pos + 1)..k : data[j] \in White}
<1>1. Len(data) \in Nat /\ pos \in Nat
  BY LenProperties
<1>2. T \in SUBSET (0..Len(data)) /\ T \subseteq pos..Len(data) /\ pos \in T
  BY <1>1
<1>3. Skipped(data, pos) = Max(T)
  BY DEF Skipped
<1> HIDE DEF T
<1>4. Max(T) \in T
  BY <1>1, <1>2, GreatestIn
<1>5. QED
  BY <1>2, <1>3, <1>4

LEMMA TokenEndFacts ==
    ASSUME NEW data \in Seq(ByteValues), NEW pos \in 0..Len(data), NEW t \in ScanTokens
    PROVE  TokenEnd(data, pos, t) \in pos..Len(data) /\ TokenEnd(data, pos, t) <= pos + t.width
<1>1. Len(data) \in Nat /\ pos \in Nat /\ t.width \in Nat
  <2>1. Len(data) \in Nat
    BY LenProperties
  <2>2. t.width \in Nat
    BY DEF ScanTokens
  <2>3. QED
    BY <2>1, <2>2
<1>2. PICK end : end = Min({Len(data), pos + t.width})
  OBVIOUS
<1>3. end \in pos..Len(data) /\ end <= pos + t.width
  BY <1>1, <1>2, TwoNumbers
<1> DEFINE T == {k \in pos..end :
                    \A j \in (pos + 1)..k :
                        IF t.conv = "[" THEN (data[j] \in t.set) # t.invert ELSE data[j] \notin White}
<1>4. T \in SUBSET (0..Len(data)) /\ T \subseteq pos..end /\ pos \in T
  BY <1>1, <1>3
<1>5. TokenEnd(data, pos, t) = Max(T)
  BY <1>2 DEF TokenEnd
<1> HIDE DEF T
<1>6. PICK top \in T : top = TokenEnd(data, pos, t)
  BY <1>1, <1>4, <1>5, GreatestIn
<1>7. top \in pos..end
  BY <1>4
<1>8. top \in pos..Len(data) /\ top <= pos + t.width
  BY <1>1, <1>3, <1>7
<1>9. QED
  BY <1>6, <1>8

\* What _simulate_scanf_call comes to after the tokens of its format.
LEMMA ScannedFacts ==
    ASSUME NEW m, MemoryOf(m), NEW format \in Seq(ScanTokens), NEW data \in Seq(ByteValues),
           NEW p \in 0..Len(data), NEW dsts, \A i \in Assigning(format) : dsts[i] \in Nat
    PROVE  Scanned(m, format, dsts, data, p) \in ScanStates(m, data, p)
<1> DEFINE n == Len(format)
           States == ScanStates(m, data, p)
           none == Unscanned(m, p)
           Start(s) == Skipped(data, s.pos)
           Turn(s, i) ==
               LET t == format[i]
                   from == Skipped(data, s.pos)
               IN ScanToken(s, t, dsts[i], data, from, IF t.kind = "conv" THEN TokenEnd(data, from, t) ELSE from)
           Turns(f) == [i \in 0..n |-> IF i = 0 THEN none ELSE Turn(f[i - 1], i)]
           B == CHOOSE f : f = Turns(f)
           G == [x \in States \X (1..n) |-> Turn(x[1], x[2])]
<1>1. n \in Nat /\ DOMAIN format = 1..n /\ \A i \in 1..n : format[i] \in ScanTokens
  BY LenProperties, ElementOfSeq
<1>2. Len(data) \in Nat /\ p \in Nat
  BY LenProperties
<1>3. none \in States
  <2>1. Told(m, m, <<>>)
    BY ToldNothing
  <2>2. <<>> \in Seq(WriteRecords) /\ <<>> \in Seq(Nat \X Nat) /\ Len(<<>>) = 0
    BY EmptySeq
  <2>3. Chained(<<>>, p, p)
    BY <2>2 DEF Chained
  <2>4. m \in [DOMAIN m -> ByteValues] /\ p \in p..Len(data)
    BY <1>2 DEF MemoryOf
  <2>5. QED
    BY <2>1, <2>2, <2>3, <2>4 DEF ScanStates, Unscanned
<1>4. ASSUME NEW s \in States, NEW i \in 1..n
      PROVE  Turn(s, i) \in States
  <2>1. s.pos \in p..Len(data) /\ s.pos \in 0..Len(data) /\ s.pos \in Nat
    BY <1>2 DEF ScanStates
  <2>2. PICK t \in ScanTokens : t = format[i]
    BY <1>1
  <2>3. PICK from : from = Skipped(data, s.pos)
    OBVIOUS
  <2>4. PICK to : to = IF t.kind = "conv" THEN TokenEnd(data, from, t) ELSE from
    OBVIOUS
  <2>5. PICK dst : dst = dsts[i]
    OBVIOUS
  <2>6. from \in s.pos..Len(data)
    BY <2>1, <2>3, SkippedFacts
  <2>7. from \in 0..Len(data) /\ from \in Nat
    BY <1>2, <2>1, <2>6
  <2>8. to \in from..Len(data) /\ (t.kind = "conv" => to <= from + t.width)
    <3>1. CASE t.kind = "conv"
      BY <2>4, <2>7, <3>1, TokenEndFacts
    <3>2. CASE t.kind # "conv"
      BY <1>2, <2>4, <2>7, <3>2
    <3>3. QED
      BY <3>1, <3>2
  <2>9. t.kind = "conv" /\ t.assign => dst \in Nat
    BY <1>1, <2>2, <2>5 DEF Assigning
  <2>10. ScanToken(s, t, dst, data, from, to) \in ScanStates(m, data, p)
    BY <1>2, <2>6, <2>8, <2>9, ScanTokenKeeps
  <2>11. Turn(s, i) = ScanToken(s, t, dst, data, from, to)
    BY <2>2, <2>3, <2>4, <2>5
  <2>12. QED
    BY <2>10, <2>11
<1>5. G \in [States \X (1..n) -> States]
  <2> HIDE DEF States, Turn
  <2>1. QED
    BY <1>4
<1> HIDE DEF n, none, States
<1>6. \E f \in [0..n -> States] : Turned(f, none, G, n)
  <2> HIDE DEF G
  <2>1. QED
    BY <1>1, <1>3, <1>5, TurnsExist
<1>7. PICK f \in [0..n -> States] : Turned(f, none, G, n)
  BY <1>6
<1>8. f = Turns(f)
  <2> HIDE DEF Turn
  <2>1. \A i \in 1..n : f[i] = Turn(f[i - 1], i)
    <3>1. \A i \in 1..n : f[i - 1] \in States
      BY <1>1
    <3>2. \A x \in States, i \in 1..n : G[<<x, i>>] = Turn(x, i)
      OBVIOUS
    <3>3. \A i \in 1..n : f[i] = G[<<f[i - 1], i>>]
      BY <1>7 DEF Turned
    <3> HIDE DEF G
    <3>4. QED
      BY <3>1, <3>2, <3>3
  <2>2. f[0] = none
    BY <1>7 DEF Turned
  <2>3. QED
    BY <1>1, <1>7, <2>1, <2>2
<1>9. B = Turns(B)
  <2> HIDE DEF Turns
  <2>1. QED
    BY <1>8
<1>10. Scanned(m, format, dsts, data, p) = B[n]
  BY DEF Scanned, n, none
<1> HIDE DEF B, Turn
<1>11. B[0] = none /\ \A i \in 1..n : B[i] = Turn(B[i - 1], i)
  BY <1>1, <1>9
<1>12. \A i \in 0..n : B[i] \in States
  <2> DEFINE T == {i \in 0..n : B[i] \in States}
  <2>1. 0 \in T
    BY <1>1, <1>3, <1>11
  <2>2. ASSUME NEW k \in T, k < n
        PROVE  k + 1 \in T
    <3>1. k + 1 \in 1..n /\ k + 1 \in 0..n /\ (k + 1) - 1 = k
      BY <1>1, <2>2
    <3>2. B[k + 1] = Turn(B[k], k + 1)
      BY <1>11, <3>1
    <3>3. QED
      BY <1>4, <3>1, <3>2
  <2>3. T \in SUBSET (0..n)
    OBVIOUS
  <2> HIDE DEF T
  <2>4. T = 0..n
    BY <1>1, <2>1, <2>2, <2>3, UpTo
  <2>5. QED
    BY <2>4 DEF T
<1>13. n \in 0..n
  BY <1>1
<1>14. QED
  BY <1>10, <1>12, <1>13 DEF States

\* What a scan leaves.
LEMMA ScanTold ==
    ASSUME LibcInv, Called, heapNext' = heapNext, InputInv', NEW data, NEW p,
           NEW s \in ScanStates(memory, data, p), memory' = s.mem,
           IF s.failed THEN NotSimulated ELSE Returns(s.assigned, s.writes)
    PROVE  LibcInv'
<1>1. s.mem \in [DOMAIN memory -> ByteValues] /\ Told(memory, s.mem, s.writes)
  BY DEF ScanStates
<1>2. MemoryOf(memory') /\ DOMAIN memory' = DOMAIN memory
  BY <1>1, Arguments DEF MemoryOf
<1>3. Tells
  <2>1. CASE s.failed
    BY <2>1 DEF Tells, NotSimulated
  <2>2. CASE ~s.failed
    BY <1>1, <2>2, TellsWrites
  <2>3. QED
    BY <2>1, <2>2
<1>4. QED
  BY <1>2, <1>3, CallEndsThere

LEMMA ScanfKeeps ==
    ASSUME LibcInv, Scanf
    PROVE  LibcInv'
<1>1. Called /\ heapNext' = heapNext /\ UNCHANGED <<syscallPos, handles>>
  BY DEF Scanf
<1>2. PICK format \in libc.formats : \E dsts \in [Assigning(format) -> libc.pointers] :
         LET s == Scanned(memory, format, dsts, libc.stdin, stdinPos) IN
         /\ memory' = s.mem /\ stdinPos' = s.pos
         /\ delivered' = delivered \o Intervals(Stdin, s.got)
         /\ IF s.failed THEN NotSimulated ELSE Returns(s.assigned, s.writes)
  BY DEF Scanf
<1>3. PICK dsts \in [Assigning(format) -> libc.pointers] :
         LET s == Scanned(memory, format, dsts, libc.stdin, stdinPos) IN
         /\ memory' = s.mem /\ stdinPos' = s.pos
         /\ delivered' = delivered \o Intervals(Stdin, s.got)
         /\ IF s.failed THEN NotSimulated ELSE Returns(s.assigned, s.writes)
  BY <1>2
<1>4. PICK s : s = Scanned(memory, format, dsts, libc.stdin, stdinPos)
  OBVIOUS
<1>5. /\ memory' = s.mem /\ stdinPos' = s.pos
      /\ delivered' = delivered \o Intervals(Stdin, s.got)
      /\ IF s.failed THEN NotSimulated ELSE Returns(s.assigned, s.writes)
  BY <1>3, <1>4
<1>6. /\ MemoryOf(memory) /\ libc.stdin \in Seq(ByteValues) /\ format \in Seq(ScanTokens)
      /\ \A i \in Assigning(format) : dsts[i] \in Nat
  BY Arguments, LibcAssumption DEF LibcInv, MemoryInv
<1>7. /\ InputInv /\ libc \in LibcScopes /\ UNCHANGED <<libc, syscallPos, handles>>
      /\ stdinPos \in 0..Len(libc.stdin)
  BY <1>1 DEF LibcInv, MemoryInv, InputInv, PlacesTyped, Called
<1>8. s \in ScanStates(memory, libc.stdin, stdinPos)
  BY <1>4, <1>6, <1>7, ScannedFacts
<1>9. s.pos \in stdinPos..Len(libc.stdin) /\ Chained(s.got, stdinPos, s.pos)
  BY <1>8 DEF ScanStates
<1>10. PICK got : got = s.got
  OBVIOUS
<1>11. stdinPos' \in stdinPos..Len(libc.stdin) /\ Chained(got, stdinPos, stdinPos')
  BY <1>5, <1>9, <1>10
<1>12. delivered' = delivered \o Intervals(Stdin, got)
  BY <1>5, <1>10
<1>13. InputInv'
  BY <1>7, <1>11, <1>12, StdinMoves
<1>14. QED
  BY <1>1, <1>5, <1>8, <1>13, ScanTold

LEMMA FscanfKeeps ==
    ASSUME LibcInv, Fscanf
    PROVE  LibcInv'
<1>1. Called /\ heapNext' = heapNext /\ UNCHANGED <<stdinPos, syscallPos>>
  BY DEF Fscanf
<1>2. PICK h \in OpenHandles, format \in libc.formats : \E dsts \in [Assigning(format) -> libc.pointers] :
         LET s == Scanned(memory, format, dsts, handles[h].data, handles[h].pos) IN
         /\ memory' = s.mem /\ handles' = [handles EXCEPT ![h].pos = s.pos]
         /\ delivered' = delivered \o Intervals(h, s.got)
         /\ IF s.failed THEN NotSimulated ELSE Returns(s.assigned, s.writes)
  BY DEF Fscanf
<1>3. PICK dsts \in [Assigning(format) -> libc.pointers] :
         LET s == Scanned(memory, format, dsts, handles[h].data, handles[h].pos) IN
         /\ memory' = s.mem /\ handles' = [handles EXCEPT ![h].pos = s.pos]
         /\ delivered' = delivered \o Intervals(h, s.got)
         /\ IF s.failed THEN NotSimulated ELSE Returns(s.assigned, s.writes)
  BY <1>2
<1>4. PICK data, pos : data = handles[h].data /\ pos = handles[h].pos
  OBVIOUS
<1>5. PICK s : s = Scanned(memory, format, dsts, data, pos)
  OBVIOUS
<1>6. PICK to, got : to = s.pos /\ got = s.got
  OBVIOUS
<1>7. /\ memory' = s.mem /\ handles' = [handles EXCEPT ![h].pos = to]
      /\ delivered' = delivered \o Intervals(h, got)
      /\ IF s.failed THEN NotSimulated ELSE Returns(s.assigned, s.writes)
  BY <1>3, <1>4, <1>5, <1>6
<1>8. h \in 1..Len(handles)
  BY DEF OpenHandles
<1>9. data \in Seq(ByteValues) /\ pos \in 0..Len(data)
  BY <1>4, <1>8, HandleIs
<1>10. /\ MemoryOf(memory) /\ format \in Seq(ScanTokens)
       /\ \A i \in Assigning(format) : dsts[i] \in Nat
  BY Arguments, LibcAssumption DEF LibcInv, MemoryInv
<1>11. s \in ScanStates(memory, data, pos)
  BY <1>5, <1>9, <1>10, ScannedFacts
<1>12. to \in pos..Len(data) /\ Chained(got, pos, to)
  BY <1>6, <1>11 DEF ScanStates
<1>13. InputInv /\ libc \in LibcScopes /\ UNCHANGED <<libc, stdinPos, syscallPos>>
  BY <1>1 DEF LibcInv, MemoryInv, Called
<1>14. to \in handles[h].pos..Len(handles[h].data) /\ Chained(got, handles[h].pos, to)
  BY <1>4, <1>12
<1>15. InputInv'
  BY <1>7, <1>8, <1>13, <1>14, HandleMoves
<1>16. QED
  BY <1>1, <1>7, <1>11, <1>15, ScanTold

-----------------------------------------------------------------------------
LEMMA LibcStarts ==
    ASSUME LibcInit
    PROVE  LibcInv
<1>1. libc \in LibcScopes /\ libc.calls \in Nat /\ libc.memory \in [1..Cells -> ByteValues] /\ Cells \in Nat
  BY LibcAssumption DEF LibcInit
<1>2. libc.stdin \in Seq(ByteValues) /\ Len(libc.stdin) \in Nat
  BY <1>1, LibcAssumption, LenProperties
<1>3. MemoryInv
  BY <1>1 DEF LibcInit, MemoryInv, MemoryOf, Heap
<1>4. EventInv
  BY DEF LibcInit, EventInv, NoEvent
<1>5. InputInv
  BY <1>2, EmptySeq DEF LibcInit, InputInv, PlacesTyped
<1>6. QED
  BY <1>3, <1>4, <1>5 DEF LibcInv

LEMMA LibcSteps ==
    ASSUME LibcInv, [LibcNext]_libcVars
    PROVE  LibcInv'
<1>1. CASE LibcNext
  BY <1>1, StrcpyKeeps, StrncpyKeeps, MemcpyKeeps, MemsetKeeps, SprintfKeeps, StrdupKeeps, InspectKeeps,
     GetsKeeps, FgetsKeeps, ReadBytesKeeps, ReadSyscallKeeps, ScanfKeeps,
     FopenKeeps, FscanfKeeps, FgetsFileKeeps, FgetcKeeps, FcloseKeeps DEF LibcNext
<1>2. CASE UNCHANGED libcVars
  BY <1>2 DEF libcVars, LibcInv, MemoryInv, EventInv, InputInv, PlacesTyped, Sources, PlaceOf
<1>3. QED
  BY <1>1, <1>2

LEMMA LibcInvTells ==
    ASSUME LibcInv
    PROVE  LibcTells
<1>1. MemoryInv /\ EventInv /\ InputInv
  BY DEF LibcInv
<1>2. LibcTypeOK
  <2>1. \A h \in 1..Len(handles) : handles[h].pos \in 0..Len(handles[h].data)
    BY HandleIs
  <2>2. \A a \in DOMAIN memory : memory[a] \in ByteValues
    BY <1>1 DEF MemoryInv, MemoryOf
  <2>3. heapNext \notin DOMAIN memory
    BY <1>1 DEF MemoryInv
  <2>4. 0 \notin DOMAIN memory
    BY <1>1 DEF MemoryInv, MemoryOf
  <2>5. QED
    BY <1>1, <2>1, <2>2, <2>3, <2>4 DEF LibcTypeOK, MemoryInv, EventInv, InputInv, PlacesTyped
<1>3. WritesTold
  BY <1>1 DEF EventInv, Told, RecordTrue, ChangedFrom, WritesTold, Changed
<1>4. InputOnce
  <2>1. \A i \in 1..Len(delivered) : delivered[i].to <= PlaceOf(delivered[i].stream)
    BY <1>1 DEF InputInv
  <2>2. \A i \in 1..Len(delivered) :
           PlaceOf(delivered[i].stream) =
              CASE delivered[i].stream = Stdin -> stdinPos
                [] delivered[i].stream = Syscall -> syscallPos
                [] OTHER -> handles[delivered[i].stream].pos
    BY DEF PlaceOf, Stdin, Syscall
  <2>3. ASSUME NEW i \in 1..Len(delivered), NEW j \in 1..(i - 1),
               InputOf(delivered[j].stream) = InputOf(delivered[i].stream)
        PROVE  \/ delivered[j].to <= delivered[i].from
               \/ {delivered[j].stream, delivered[i].stream} = {Stdin, Syscall}
    <3>1. CASE delivered[j].stream = delivered[i].stream
      BY <1>1, <3>1 DEF InputInv
    <3>2. CASE delivered[j].stream # delivered[i].stream
      BY <2>3, <3>2 DEF InputOf
    <3>3. QED
      BY <3>1, <3>2
  <2>4. QED
    BY <2>1, <2>2, <2>3 DEF InputOnce
<1>5. QED
  BY <1>2, <1>3, <1>4 DEF LibcTells

\* Whatever the program calls, in whatever order and with whatever arguments, the snapshot
\* of a simulated call tells every byte it changed and no value that memory does not hold,
\* and two calls that take the same byte of an input are a call of libc and the read system
\* call, over memory and streams that stay within what is mapped and what was given
\* (_simulate_symbol_with_args, _simulate_scanf_call, _handle_read).
THEOREM LibcIsTold == LibcSpec => []LibcTells
<1>1. LibcInit => LibcInv
  BY LibcStarts
<1>2. LibcInv /\ [LibcNext]_libcVars => LibcInv'
  BY LibcSteps
<1>3. LibcInv => LibcTells
  BY LibcInvTells
<1>4. QED
  BY <1>1, <1>2, <1>3, PTL DEF LibcSpec
=============================================================================
