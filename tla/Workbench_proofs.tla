--------------------------- MODULE Workbench_proofs ---------------------------
(***************************************************************************)
(* What the parts of the workbench keep for any number of requests,        *)
(* binaries and builds.  Each part has its own invariant and its own       *)
(* theorem; they share no state.                                           *)
(***************************************************************************)
EXTENDS Artifacts, ChatSession, TraceCapture, AgentLoop, DecompilePanel, SequenceTheorems, FiniteSetTheorems, TLAPS

-----------------------------------------------------------------------------
(* Artifacts *)

RequestStates ==
    [step : {"idle"}]
        \cup [step : {"build"}, kind : Kinds, binary : Binaries,
              at : {"started", "listing", "lines", "header", "done"}, build : Builds]
        \cup [step : {"wait"}, kind : Kinds, binary : Binaries]
        \cup [step : {"look"}, kind : {"cfg"}, binary : Binaries]
        \cup [step : {"script"}, kind : {"cfg"}, binary : Binaries, sig : FileStates]
        \cup [step : {"store"}, kind : {"cfg"}, binary : Binaries, sig : FileStates, of : Builds]

\* ArtTypeOK with the whole of what a request carries.
ArtTypes ==
    /\ artScope \in ArtScopes
    /\ listing \in FileStates /\ header \in FileStates /\ lines \in Builds /\ builds \in Builds
    /\ inFlight \in Requests \cup {NoRequest}
    /\ cached \in [Binaries -> [sig : FileStates, of : Builds]]
    /\ request \in [Requests -> RequestStates]

BuildsOf(r) == request[r].step = "build"

\* A run of disasm.py has a number of its own, of those given out.
BuildsNumbered ==
    /\ \A r \in Requests : BuildsOf(r) => request[r].build \in 1..builds
    /\ \A r, q \in Requests :
          BuildsOf(r) /\ BuildsOf(q) /\ request[r].build = request[q].build => r = q

\* sig is a signature that is in place, stored with a graph, or held by a request
\* whose graph is being computed.
Signs(sig) ==
    \/ sig = header
    \/ \E b \in Binaries : sig = cached[b].sig
    \/ \E r \in Requests : request[r].step \in {"script", "store"} /\ sig = request[r].sig

\* A signature is of a build that was started, and a complete header of a build is
\* seen nowhere before that build has written it.
SignaturesPast ==
    /\ \A sig \in FileStates : Signs(sig) => sig.build <= builds
    /\ \A r \in Requests :
          BuildsOf(r) /\ request[r].at # "done"
              => ~Signs([build |-> request[r].build, whole |-> TRUE])

\* A graph about to be stored is one that could be served, as CfgOfLines says of
\* those that are.
GraphsInHand ==
    \A r \in Requests :
        request[r].step = "store" /\ request[r].sig = header /\ header.whole /\ header.build = lines
            => request[r].of = lines

ArtInv ==
    ArtTypes /\ SharedBuild /\ BuildsNumbered /\ SignaturesPast /\ GraphsInHand /\ CfgOfLines

\* What a request carries at each step.
LEMMA RequestTyped ==
    ASSUME ArtTypes, NEW r \in Requests
    PROVE  /\ request[r] \in RequestStates
           /\ request[r].step \in {"idle", "build", "wait", "look", "script", "store"}
           /\ BuildsOf(r) => /\ request[r].kind \in Kinds /\ request[r].binary \in Binaries
                             /\ request[r].build \in Builds
           /\ request[r].step = "wait" => request[r].kind \in Kinds /\ request[r].binary \in Binaries
           /\ request[r].step \in {"look", "script", "store"} => request[r].binary \in Binaries
           /\ request[r].step \in {"script", "store"} => request[r].sig \in FileStates
           /\ request[r].step = "store" => request[r].of \in Builds
<1>1. request[r] \in RequestStates
  BY DEF ArtTypes
<1>2. QED
  BY <1>1 DEF RequestStates, BuildsOf

\* The bounds of a behaviour are on the constants.
LEMMA ScopeTyped ==
    ASSUME ArtTypes
    PROVE  /\ artScope.binaries \subseteq Binaries /\ artScope.requests \subseteq Requests
           /\ artScope.kinds \subseteq Kinds /\ artScope.builds \in Nat
  BY ArtifactsAssumption DEF ArtTypes

\* One request changes its state.
LEMMA RequestSet ==
    ASSUME ArtTypes, NEW r \in Requests, NEW x \in RequestStates,
           request' = [request EXCEPT ![r] = x]
    PROVE  /\ request' \in [Requests -> RequestStates]
           /\ request'[r] = x
           /\ \A o \in Requests : o # r => request'[o] = request[o]
  BY DEF ArtTypes

\* A run of disasm.py goes on to its next write.
LEMMA RunAdvanced ==
    ASSUME ArtTypes, NEW r \in Requests, BuildsOf(r),
           NEW phase \in {"started", "listing", "lines", "header", "done"}, Advance(r, phase)
    PROVE  /\ request' \in [Requests -> RequestStates]
           /\ BuildsOf(r)' /\ request'[r].at = phase /\ request'[r].kind = request[r].kind
           /\ request'[r].build = request[r].build
           /\ \A o \in Requests : o # r => request'[o] = request[o]
<1>1. PICK k \in Kinds, b \in Binaries, a \in {"started", "listing", "lines", "header", "done"}, n \in Builds :
          request[r] = [step |-> "build", kind |-> k, binary |-> b, at |-> a, build |-> n]
  BY RequestTyped DEF RequestStates, BuildsOf
<1> DEFINE x == [step |-> "build", kind |-> k, binary |-> b, at |-> phase, build |-> n]
<1>2. request' = [request EXCEPT ![r] = x]
  <2>1. [request[r] EXCEPT !.at = phase] = x
    BY <1>1
  <2>2. QED
    BY <2>1 DEF Advance
<1>3. x \in RequestStates
  BY DEF RequestStates
<1>4. /\ request' \in [Requests -> RequestStates]
      /\ request'[r] = x
      /\ \A o \in Requests : o # r => request'[o] = request[o]
  <2> HIDE DEF x
  <2> QED BY <1>2, <1>3, RequestSet
<1>5. QED
  BY <1>1, <1>4 DEF BuildsOf

-----------------------------------------------------------------------------
(* Requests that ask, wait or give up *)

\* Requests come to hold less: nothing that was told of builds, signatures and
\* graphs is disturbed.
LEMMA HeldLess ==
    ASSUME ArtInv, UNCHANGED <<lines, header, cached, builds, artScope>>,
           \A o \in Requests :
              request'[o] = request[o] \/ request'[o].step \in {"idle", "wait", "look"}
    PROVE  BuildsNumbered' /\ SignaturesPast' /\ GraphsInHand' /\ CfgOfLines'
<1>1. \A sig \in FileStates : Signs(sig)' => Signs(sig)
  BY DEF Signs
<1>2. BuildsNumbered'
  BY DEF ArtInv, BuildsNumbered, BuildsOf
<1>3. SignaturesPast'
  <2>1. \A sig \in FileStates' : Signs(sig)' => sig.build <= builds'
    BY <1>1 DEF ArtInv, SignaturesPast, FileStates, Builds
  <2>2. ASSUME NEW r \in Requests, BuildsOf(r)', request'[r].at # "done"
        PROVE  ~Signs([build |-> request[r].build, whole |-> TRUE])'
    <3>1. request'[r] = request[r] /\ BuildsOf(r)
      BY <2>2 DEF BuildsOf
    <3>2. [build |-> request[r].build, whole |-> TRUE] \in FileStates
      BY <3>1, RequestTyped DEF ArtInv, FileStates
    <3>3. ~Signs([build |-> request[r].build, whole |-> TRUE])
      BY <2>2, <3>1 DEF ArtInv, SignaturesPast
    <3>4. QED
      BY <3>1, <3>2, <3>3, <1>1 DEF Signs
  <2>3. QED
    BY <2>1, <2>2 DEF SignaturesPast, Signs, BuildsOf
<1>4. GraphsInHand'
  BY DEF ArtInv, GraphsInHand
<1>5. CfgOfLines'
  BY DEF ArtInv, CfgOfLines
<1>6. QED
  BY <1>2, <1>3, <1>4, <1>5

\* What a run of disasm.py that starts must find: its number is new.
LEMMA BuildStarts ==
    ASSUME ArtInv, NEW r \in Requests, ~BuildsOf(r),
           UNCHANGED <<lines, header, cached, artScope>>,
           builds' = builds + 1,
           request'[r].step = "build", request'[r].build = builds + 1,
           \A o \in Requests : o # r => request'[o] = request[o]
    PROVE  BuildsNumbered' /\ SignaturesPast' /\ GraphsInHand' /\ CfgOfLines'
<1>1. builds \in Nat
  BY ScopeTyped DEF ArtInv, ArtTypes, Builds
<1>2. \A sig \in FileStates : Signs(sig)' => Signs(sig)
  BY DEF Signs
<1>3. \A sig \in FileStates : Signs(sig) => sig.build <= builds
  BY DEF ArtInv, SignaturesPast
<1>4. BuildsNumbered'
  <2>1. ASSUME NEW q \in Requests, BuildsOf(q)'
        PROVE  /\ request'[q].build \in 1..builds'
               /\ q # r => BuildsOf(q) /\ request'[q].build = request[q].build
                                       /\ request[q].build \in 1..builds
    BY <2>1, <1>1 DEF ArtInv, BuildsNumbered, BuildsOf
  <2>2. ASSUME NEW q \in Requests, NEW o \in Requests, BuildsOf(q)', BuildsOf(o)',
               request'[q].build = request'[o].build
        PROVE  q = o
    BY <2>1, <2>2, <1>1 DEF ArtInv, BuildsNumbered
  <2>3. QED
    BY <2>1, <2>2 DEF BuildsNumbered
<1>5. SignaturesPast'
  <2>1. \A sig \in FileStates' : Signs(sig)' => sig.build <= builds'
    <3>1. FileStates' = FileStates
      BY DEF FileStates, Builds
    <3>2. \A sig \in FileStates : sig.build \in Nat
      BY ScopeTyped DEF FileStates, Builds, ArtInv
    <3>3. QED
      BY <1>1, <1>2, <1>3, <3>1, <3>2
  <2>2. ASSUME NEW q \in Requests, BuildsOf(q)', request'[q].at # "done"
        PROVE  ~Signs([build |-> request[q].build, whole |-> TRUE])'
    <3>1. CASE q # r
      <4>1. request'[q] = request[q] /\ BuildsOf(q)
        BY <2>2, <3>1 DEF BuildsOf
      <4>2. [build |-> request[q].build, whole |-> TRUE] \in FileStates
        BY <4>1, RequestTyped DEF ArtInv, FileStates
      <4>3. ~Signs([build |-> request[q].build, whole |-> TRUE])
        BY <2>2, <4>1 DEF ArtInv, SignaturesPast
      <4>4. QED
        BY <4>1, <4>2, <4>3, <1>2 DEF Signs
    <3>2. CASE q = r
      <4>1. ASSUME Signs([build |-> request[q].build, whole |-> TRUE])'
            PROVE  FALSE
        <5>1. header.build # builds + 1
          BY <1>1, <1>3 DEF ArtInv, ArtTypes, Signs, FileStates, Builds
        <5>2. \A b \in Binaries : cached[b].sig.build # builds + 1
          BY <1>1, <1>3 DEF ArtInv, ArtTypes, Signs, FileStates, Builds
        <5>3. \A o \in Requests : request[o].step \in {"script", "store"} => request[o].sig.build # builds + 1
          <6>1. \A o \in Requests : request[o].step \in {"script", "store"} => request[o].sig \in FileStates
            BY RequestTyped DEF ArtInv
          <6>2. QED
            BY <1>1, <1>3, <6>1 DEF Signs, FileStates, Builds
        <5>4. QED
          BY <3>2, <4>1, <5>1, <5>2, <5>3 DEF Signs
      <4>2. QED
        BY <4>1
    <3>3. QED
      BY <3>1, <3>2
  <2>3. QED
    BY <2>1, <2>2 DEF SignaturesPast, Signs, BuildsOf
<1>6. GraphsInHand'
  BY DEF ArtInv, GraphsInHand
<1>7. CfgOfLines'
  BY DEF ArtInv, CfgOfLines
<1>8. QED
  BY <1>4, <1>5, <1>6, <1>7

LEMMA ScopeKept ==
    ASSUME artScope' = artScope
    PROVE  Builds' = Builds /\ FileStates' = FileStates /\ RequestStates' = RequestStates
  BY DEF Builds, FileStates, RequestStates

\* ensureDisasmArtifacts: the build in flight is joined, or one is started and
\* registered at once.
LEMMA SpawnedOrJoined ==
    ASSUME ArtInv, NEW r \in artScope.requests, request[r] = Idle,
           NEW kind \in artScope.kinds, kind # "command", NEW b \in artScope.binaries,
           SpawnOrJoin(r, kind, b), UNCHANGED <<listing, lines, header, cached, artScope>>
    PROVE  ArtInv'
<1>1. r \in Requests /\ kind \in Kinds /\ b \in Binaries /\ builds \in Nat
  BY ScopeTyped DEF ArtInv, ArtTypes, Builds
<1>2. Builds' = Builds /\ FileStates' = FileStates /\ RequestStates' = RequestStates
  BY ScopeKept
<1>3. ~BuildsOf(r) /\ request[r].step = "idle"
  BY DEF Idle, BuildsOf
<1>4. ASSUME inFlight # NoRequest
      PROVE  ArtInv'
  <2> DEFINE x == [step |-> "wait", kind |-> kind, binary |-> b]
  <2>1. x \in RequestStates
    BY <1>1 DEF RequestStates
  <2>2. request' = [request EXCEPT ![r] = x] /\ UNCHANGED <<inFlight, builds>>
    BY <1>4 DEF SpawnOrJoin
  <2>3. x.step = "wait"
    OBVIOUS
  <2>4. /\ request' \in [Requests -> RequestStates] /\ request'[r].step = "wait"
        /\ \A o \in Requests : o # r => request'[o] = request[o]
    <3> HIDE DEF x
    <3> QED BY <1>1, <2>1, <2>2, <2>3, RequestSet DEF ArtInv
  <2>5. ArtTypes'
    BY <1>2, <2>2, <2>4 DEF ArtInv, ArtTypes
  <2>6. SharedBuild'
    BY <1>3, <1>4, <2>2, <2>4 DEF ArtInv, SharedBuild, Building, Waiting, BuildsOf
  <2>7. BuildsNumbered' /\ SignaturesPast' /\ GraphsInHand' /\ CfgOfLines'
    BY <2>2, <2>4, HeldLess
  <2>8. QED
    BY <2>5, <2>6, <2>7 DEF ArtInv
<1>5. ASSUME inFlight = NoRequest
      PROVE  ArtInv'
  <2> DEFINE x == [step |-> "build", kind |-> kind, binary |-> b, at |-> "started", build |-> builds + 1]
  <2>1. /\ builds < artScope.builds /\ builds' = builds + 1 /\ inFlight' = r
        /\ request' = [request EXCEPT ![r] = x]
    BY <1>5 DEF SpawnOrJoin
  <2>2. builds + 1 \in Builds
    BY <1>1, <2>1, ScopeTyped DEF ArtInv, Builds
  <2>3. x \in RequestStates
    BY <1>1, <2>2 DEF RequestStates
  <2>4. x.step = "build" /\ x.build = builds + 1 /\ x.kind = kind
    OBVIOUS
  <2>5. /\ request' \in [Requests -> RequestStates]
        /\ request'[r].step = "build" /\ request'[r].build = builds + 1 /\ request'[r].kind = kind
        /\ \A o \in Requests : o # r => request'[o] = request[o]
    <3> HIDE DEF x
    <3> QED BY <1>1, <2>1, <2>3, <2>4, RequestSet DEF ArtInv
  <2>6. ArtTypes'
    BY <1>1, <1>2, <2>1, <2>2, <2>5 DEF ArtInv, ArtTypes
  <2>7. SharedBuild'
    <3>1. Building = {} /\ Waiting = {}
      BY <1>5 DEF ArtInv, SharedBuild
    <3>2. Building' = {r}
      BY <1>1, <2>5, <3>1 DEF Building
    <3>3. r # NoRequest
      BY <1>1, ArtifactsAssumption
    <3>4. QED
      BY <2>1, <3>2, <3>3 DEF SharedBuild
  <2>8. BuildsNumbered' /\ SignaturesPast' /\ GraphsInHand' /\ CfgOfLines'
    BY <1>1, <1>3, <2>1, <2>5, BuildStarts
  <2>9. QED
    BY <2>6, <2>7, <2>8 DEF ArtInv
<1>6. QED
  BY <1>4, <1>5

LEMMA OpenSafe ==
    ASSUME ArtInv, NEW r \in artScope.requests, Open(r)
    PROVE  ArtInv'
<1>1. PICK b \in artScope.binaries, kind \in artScope.kinds \cap {"open", "forced"} :
          SpawnOrJoin(r, kind, b)
  BY DEF Open
<1>2. QED
  BY <1>1, SpawnedOrJoined DEF Open

LEMMA LoadCfgSafe ==
    ASSUME ArtInv, NEW r \in artScope.requests, LoadCfg(r)
    PROVE  ArtInv'
<1>1. PICK b \in artScope.binaries :
          IF Exists(header)
          THEN /\ request' = [request EXCEPT ![r] = [step |-> "look", kind |-> "cfg", binary |-> b]]
               /\ UNCHANGED <<inFlight, builds>>
          ELSE SpawnOrJoin(r, "cfg", b)
  BY DEF LoadCfg
<1>2. ASSUME ~Exists(header)
      PROVE  ArtInv'
  BY <1>1, <1>2, SpawnedOrJoined DEF LoadCfg
<1>3. ASSUME Exists(header)
      PROVE  ArtInv'
  <2> DEFINE x == [step |-> "look", kind |-> "cfg", binary |-> b]
  <2>1. r \in Requests /\ b \in Binaries /\ request[r].step = "idle"
    BY ScopeTyped DEF ArtInv, LoadCfg, Idle
  <2>2. x \in RequestStates /\ x.step = "look"
    BY <2>1 DEF RequestStates
  <2>3. request' = [request EXCEPT ![r] = x] /\ UNCHANGED <<listing, lines, header, cached, artScope, inFlight, builds>>
    BY <1>1, <1>3 DEF LoadCfg
  <2>4. /\ request' \in [Requests -> RequestStates] /\ request'[r].step = "look"
        /\ \A o \in Requests : o # r => request'[o] = request[o]
    <3> HIDE DEF x
    <3> QED BY <2>1, <2>2, <2>3, RequestSet DEF ArtInv
  <2>5. ArtTypes'
    BY <2>3, <2>4, ScopeKept DEF ArtInv, ArtTypes
  <2>6. SharedBuild'
    BY <2>1, <2>3, <2>4 DEF ArtInv, SharedBuild, Building, Waiting
  <2>7. BuildsNumbered' /\ SignaturesPast' /\ GraphsInHand' /\ CfgOfLines'
    BY <2>3, <2>4, HeldLess
  <2>8. QED
    BY <2>5, <2>6, <2>7 DEF ArtInv
<1>4. QED
  BY <1>2, <1>3

LEMMA CommandSafe ==
    ASSUME ArtInv, NEW r \in artScope.requests, Command(r)
    PROVE  ArtInv'
<1>1. PICK b \in artScope.binaries :
          request' = [request EXCEPT ![r] = [step |-> "build", kind |-> "command",
                          binary |-> b, at |-> "started", build |-> builds + 1]]
  BY DEF Command
<1> DEFINE x == [step |-> "build", kind |-> "command", binary |-> b, at |-> "started", build |-> builds + 1]
<1>2. /\ r \in Requests /\ b \in Binaries /\ builds \in Nat /\ "command" \in Kinds
      /\ request[r].step = "idle"
  BY ScopeTyped DEF ArtInv, ArtTypes, Builds, Command, Idle
<1>3. builds + 1 \in Builds
  BY <1>2, ScopeTyped DEF ArtInv, Builds, Command
<1>4. x \in RequestStates /\ x.step = "build" /\ x.build = builds + 1 /\ x.kind = "command"
  BY <1>2, <1>3 DEF RequestStates
<1>5. /\ request' \in [Requests -> RequestStates]
      /\ request'[r].step = "build" /\ request'[r].build = builds + 1 /\ request'[r].kind = "command"
      /\ \A o \in Requests : o # r => request'[o] = request[o]
  <2>1. request' = [request EXCEPT ![r] = x]
    BY <1>1
  <2> HIDE DEF x
  <2> QED BY <1>2, <1>4, <2>1, RequestSet DEF ArtInv
<1>6. ArtTypes'
  BY <1>3, <1>5, ScopeKept DEF ArtInv, ArtTypes, Command
<1>7. SharedBuild'
  BY <1>2, <1>5 DEF ArtInv, SharedBuild, Building, Waiting, Command
<1>8. BuildsNumbered' /\ SignaturesPast' /\ GraphsInHand' /\ CfgOfLines'
  BY <1>2, <1>5, BuildStarts DEF BuildsOf, Command
<1>9. QED
  BY <1>6, <1>7, <1>8 DEF ArtInv

-----------------------------------------------------------------------------
(* disasm.py *)

\* A run that writes stays the run it was: what concerns the in-flight map and the
\* numbers does not change.
LEMMA WritesOn ==
    ASSUME ArtInv, NEW r \in Requests, BuildsOf(r),
           NEW phase \in {"started", "listing", "lines", "header", "done"}, Advance(r, phase),
           UNCHANGED <<inFlight, cached, builds, artScope>>,
           listing' \in FileStates, header' \in FileStates, lines' \in Builds
    PROVE  ArtTypes' /\ SharedBuild' /\ BuildsNumbered'
<1>1. /\ request' \in [Requests -> RequestStates]
      /\ BuildsOf(r)' /\ request'[r].at = phase /\ request'[r].kind = request[r].kind
      /\ request'[r].build = request[r].build
      /\ \A o \in Requests : o # r => request'[o] = request[o]
  BY RunAdvanced DEF ArtInv
<1>2. ArtTypes'
  BY <1>1, ScopeKept DEF ArtInv, ArtTypes
<1>3. SharedBuild'
  <2>1. Building' = Building
    BY <1>1 DEF Building, BuildsOf
  <2>2. Waiting' = Waiting
    BY <1>1 DEF Waiting, BuildsOf
  <2>3. QED
    BY <2>1, <2>2 DEF ArtInv, SharedBuild
<1>4. BuildsNumbered'
  <2>1. \A o \in Requests : BuildsOf(o)' <=> BuildsOf(o)
    BY <1>1 DEF BuildsOf
  <2>2. \A o \in Requests : BuildsOf(o) => request'[o].build = request[o].build
    BY <1>1
  <2>3. QED
    BY <2>1, <2>2 DEF ArtInv, BuildsNumbered
<1>5. QED
  BY <1>2, <1>3, <1>4

\* Nothing new is signed, so that no header is seen before it is written.
LEMMA NothingSigned ==
    ASSUME ArtInv, UNCHANGED <<builds, artScope>>,
           \A sig \in FileStates : Signs(sig)' => Signs(sig) \/ (~sig.whole /\ sig.build <= builds),
           \A o \in Requests : BuildsOf(o)' =>
              /\ BuildsOf(o) /\ request'[o].build = request[o].build
              /\ request'[o].at # "done" => request[o].at # "done"
    PROVE  SignaturesPast'
<1>1. FileStates' = FileStates
  BY ScopeKept
<1>2. \A sig \in FileStates' : Signs(sig)' => sig.build <= builds'
  BY <1>1 DEF ArtInv, SignaturesPast
<1>3. ASSUME NEW r \in Requests, BuildsOf(r)', request'[r].at # "done"
      PROVE  ~Signs([build |-> request[r].build, whole |-> TRUE])'
  <2>1. BuildsOf(r) /\ request[r].at # "done" /\ request'[r].build = request[r].build
    BY <1>3
  <2>2. [build |-> request[r].build, whole |-> TRUE] \in FileStates
    BY <2>1, RequestTyped DEF ArtInv, FileStates
  <2>3. ~Signs([build |-> request[r].build, whole |-> TRUE])
    BY <2>1 DEF ArtInv, SignaturesPast
  <2>4. [build |-> request[r].build, whole |-> TRUE].whole
    OBVIOUS
  <2> DEFINE mine == [build |-> request[r].build, whole |-> TRUE]
  <2>5. mine' = mine
    BY <2>1
  <2>6. \A sig \in FileStates : sig = mine => ~Signs(sig)'
    <3> HIDE DEF mine
    <3> QED BY <2>2, <2>3, <2>4 DEF mine
  <2>7. QED
    BY <2>2, <2>5, <2>6 DEF Signs
<1>4. QED
  BY <1>2, <1>3 DEF SignaturesPast, Signs, BuildsOf

\* The header a run of disasm.py is about to write is not one that was signed.
LEMMA HeaderUnwritten ==
    ASSUME ArtInv, NEW r \in Requests, BuildsOf(r), request[r].at # "done"
    PROVE  /\ request[r].build \in Builds /\ request[r].build <= builds
           /\ ~(header.whole /\ header.build = request[r].build)
           /\ \A b \in Binaries : ~(cached[b].sig.whole /\ cached[b].sig.build = request[r].build)
           /\ \A o \in Requests : request[o].step \in {"script", "store"} =>
                 ~(request[o].sig.whole /\ request[o].sig.build = request[r].build)
<1> DEFINE mine == [build |-> request[r].build, whole |-> TRUE]
<1>1. ~Signs(mine)
  BY DEF ArtInv, SignaturesPast
<1>2. \A sig \in FileStates : sig.whole /\ sig.build = request[r].build => sig = mine
  BY DEF FileStates
<1>3. header \in FileStates /\ (\A b \in Binaries : cached[b].sig \in FileStates)
  BY DEF ArtInv, ArtTypes
<1>4. \A o \in Requests : request[o].step \in {"script", "store"} => request[o].sig \in FileStates
  BY RequestTyped DEF ArtInv
<1>5. request[r].build \in Builds /\ request[r].build <= builds
  BY ScopeTyped, RequestTyped DEF ArtInv, BuildsNumbered, ArtTypes, Builds
<1> HIDE DEF mine
<1>6. QED
  BY <1>1, <1>2, <1>3, <1>4, <1>5 DEF Signs

LEMMA WriteListingSafe ==
    ASSUME ArtInv, NEW r \in artScope.requests, WriteListing(r)
    PROVE  ArtInv'
<1>1. r \in Requests /\ BuildsOf(r) /\ request[r].at = "started"
  BY ScopeTyped DEF ArtInv, WriteListing, BuildsOf
<1>2. /\ request' \in [Requests -> RequestStates]
      /\ BuildsOf(r)' /\ request'[r].at = "listing" /\ request'[r].build = request[r].build
      /\ \A o \in Requests : o # r => request'[o] = request[o]
  BY <1>1, RunAdvanced DEF ArtInv, WriteListing
<1>3. ArtTypes' /\ SharedBuild' /\ BuildsNumbered'
  <2>1. listing' \in FileStates
    BY <1>1, HeaderUnwritten DEF WriteListing, FileStates
  <2>2. header' \in FileStates /\ lines' \in Builds
    BY DEF ArtInv, ArtTypes, WriteListing
  <2>3. QED
    BY <1>1, <2>1, <2>2, WritesOn DEF WriteListing
<1>4. SignaturesPast'
  <2>1. \A sig \in FileStates : Signs(sig)' => Signs(sig)
    BY <1>2 DEF Signs, WriteListing, BuildsOf
  <2>2. QED
    BY <1>1, <1>2, <2>1, NothingSigned DEF WriteListing, BuildsOf
<1>5. GraphsInHand' /\ CfgOfLines'
  BY <1>2 DEF ArtInv, GraphsInHand, CfgOfLines, WriteListing, BuildsOf
<1>6. QED
  BY <1>3, <1>4, <1>5 DEF ArtInv

LEMMA ReplaceLinesSafe ==
    ASSUME ArtInv, NEW r \in artScope.requests, ReplaceLines(r)
    PROVE  ArtInv'
<1>1. r \in Requests /\ BuildsOf(r) /\ request[r].at = "listing"
  BY ScopeTyped DEF ArtInv, ReplaceLines, BuildsOf
<1>2. /\ request' \in [Requests -> RequestStates]
      /\ BuildsOf(r)' /\ request'[r].at = "lines" /\ request'[r].build = request[r].build
      /\ \A o \in Requests : o # r => request'[o] = request[o]
  BY <1>1, RunAdvanced DEF ArtInv, ReplaceLines
<1>3. ArtTypes' /\ SharedBuild' /\ BuildsNumbered'
  <2>1. listing' \in FileStates /\ lines' \in Builds
    BY <1>1, HeaderUnwritten DEF ReplaceLines, FileStates
  <2>2. header' \in FileStates
    BY DEF ArtInv, ArtTypes, ReplaceLines
  <2>3. QED
    BY <1>1, <2>1, <2>2, WritesOn DEF ReplaceLines
<1>4. SignaturesPast'
  <2>1. \A sig \in FileStates : Signs(sig)' => Signs(sig)
    BY <1>2 DEF Signs, ReplaceLines, BuildsOf
  <2>2. QED
    BY <1>1, <1>2, <2>1, NothingSigned DEF ReplaceLines, BuildsOf
\* No complete header is of the lines just written.
<1>5. ~(header'.whole /\ header'.build = lines')
  BY <1>1, HeaderUnwritten DEF ReplaceLines
<1>6. GraphsInHand' /\ CfgOfLines'
  BY <1>5 DEF GraphsInHand, CfgOfLines
<1>7. QED
  BY <1>3, <1>4, <1>6 DEF ArtInv

LEMMA OpenHeaderSafe ==
    ASSUME ArtInv, NEW r \in artScope.requests, OpenHeader(r)
    PROVE  ArtInv'
<1>1. r \in Requests /\ BuildsOf(r) /\ request[r].at = "lines"
  BY ScopeTyped DEF ArtInv, OpenHeader, BuildsOf
<1>2. /\ request' \in [Requests -> RequestStates]
      /\ BuildsOf(r)' /\ request'[r].at = "header" /\ request'[r].build = request[r].build
      /\ \A o \in Requests : o # r => request'[o] = request[o]
  BY <1>1, RunAdvanced DEF ArtInv, OpenHeader
<1>3. header' \in FileStates /\ ~header'.whole /\ header'.build = request[r].build
  BY <1>1, HeaderUnwritten DEF OpenHeader, FileStates
<1>4. ArtTypes' /\ SharedBuild' /\ BuildsNumbered'
  <2>1. listing' \in FileStates /\ lines' \in Builds
    BY DEF ArtInv, ArtTypes, OpenHeader
  <2>2. QED
    BY <1>1, <1>3, <2>1, WritesOn DEF OpenHeader
<1>5. SignaturesPast'
  <2>1. \A sig \in FileStates : Signs(sig)' => Signs(sig) \/ sig = header'
    BY <1>2 DEF Signs, OpenHeader, BuildsOf
  <2>2. \A sig \in FileStates : Signs(sig)' => Signs(sig) \/ (~sig.whole /\ sig.build <= builds)
    BY <1>1, <1>3, <2>1, HeaderUnwritten
  <2>3. QED
    BY <1>1, <1>2, <2>2, NothingSigned DEF OpenHeader, BuildsOf
<1>6. GraphsInHand' /\ CfgOfLines'
  BY <1>3 DEF GraphsInHand, CfgOfLines
<1>7. QED
  BY <1>4, <1>5, <1>6 DEF ArtInv

LEMMA WriteHeaderSafe ==
    ASSUME ArtInv, NEW r \in artScope.requests, WriteHeader(r)
    PROVE  ArtInv'
<1>1. r \in Requests /\ BuildsOf(r) /\ request[r].at = "header"
  BY ScopeTyped DEF ArtInv, WriteHeader, BuildsOf
<1>2. /\ request' \in [Requests -> RequestStates]
      /\ BuildsOf(r)' /\ request'[r].at = "done" /\ request'[r].build = request[r].build
      /\ \A o \in Requests : o # r => request'[o] = request[o]
  BY <1>1, RunAdvanced DEF ArtInv, WriteHeader
<1>3. header' \in FileStates /\ header'.whole /\ header'.build = request[r].build
  BY <1>1, HeaderUnwritten DEF WriteHeader, FileStates
<1>4. ArtTypes' /\ SharedBuild' /\ BuildsNumbered'
  <2>1. listing' \in FileStates /\ lines' \in Builds
    BY DEF ArtInv, ArtTypes, WriteHeader
  <2>2. QED
    BY <1>1, <1>3, <2>1, WritesOn DEF WriteHeader
<1>5. SignaturesPast'
  <2>1. \A sig \in FileStates : Signs(sig)' => Signs(sig) \/ sig = header'
    BY <1>2 DEF Signs, WriteHeader, BuildsOf
  <2>2. \A sig \in FileStates' : Signs(sig)' => sig.build <= builds'
    BY <1>1, <1>3, <2>1, HeaderUnwritten, ScopeKept DEF WriteHeader, ArtInv, SignaturesPast
  <2>3. ASSUME NEW q \in Requests, BuildsOf(q)', request'[q].at # "done"
        PROVE  ~Signs([build |-> request[q].build, whole |-> TRUE])'
    <3>1. q # r /\ BuildsOf(q) /\ request'[q] = request[q]
      BY <1>2, <2>3 DEF BuildsOf
    <3> DEFINE its == [build |-> request[q].build, whole |-> TRUE]
    <3>2. its \in FileStates /\ its.build = request[q].build
      BY <3>1, RequestTyped DEF ArtInv, FileStates
    <3>3. ~Signs(its)
      BY <2>3, <3>1 DEF ArtInv, SignaturesPast
    <3>4. request[q].build # request[r].build
      BY <1>1, <3>1 DEF ArtInv, BuildsNumbered
    <3>5. its' = its
      BY <3>1
    <3>6. \A sig \in FileStates : sig = its => ~Signs(sig)'
      <4> HIDE DEF its
      <4> QED BY <1>3, <2>1, <3>2, <3>3, <3>4
    <3>7. QED
      BY <3>2, <3>5, <3>6 DEF Signs
  <2>4. QED
    BY <2>2, <2>3 DEF SignaturesPast, Signs, BuildsOf
\* Nothing was signed with this header.
<1>6. GraphsInHand'
  <2>1. ASSUME NEW o \in Requests, request'[o].step = "store"
        PROVE  request'[o].sig # header'
    <3>1. request'[o] = request[o]
      BY <1>2, <2>1 DEF BuildsOf
    <3>2. QED
      BY <1>1, <1>3, <2>1, <3>1, HeaderUnwritten
  <2>2. QED
    BY <2>1 DEF GraphsInHand
<1>7. CfgOfLines'
  <2>1. \A b \in Binaries : cached'[b].sig # header'
    BY <1>1, <1>3, HeaderUnwritten DEF WriteHeader
  <2>2. QED
    BY <2>1 DEF CfgOfLines
<1>8. QED
  BY <1>4, <1>5, <1>6, <1>7 DEF ArtInv

\* The promise is settled: it is the registered one's, and all that waited go on.
LEMMA SettleSafe ==
    ASSUME ArtInv, NEW r \in Requests, BuildsOf(r), NEW done \in BOOLEAN,
           Settle(r, done), artScope' = artScope
    PROVE  ArtInv'
<1>1. \A o \in Requests :
          request'[o] = IF o = r \/ (request[r].kind # "command" /\ o \in Waiting)
                        THEN IF done THEN Resume(request[o]) ELSE Idle
                        ELSE request[o]
  BY DEF Settle
<1>2. ASSUME NEW o \in Requests, BuildsOf(o) \/ request[o].step = "wait"
      PROVE  /\ Resume(request[o]) \in RequestStates /\ Idle \in RequestStates
             /\ Resume(request[o]).step \in {"idle", "look"} /\ Idle.step = "idle"
  <2>1. request[o].binary \in Binaries
    BY <1>2, RequestTyped DEF ArtInv
  <2>2. QED
    BY <2>1 DEF Resume, Idle, RequestStates
<1>3. \A o \in Requests :
          /\ request'[o] \in RequestStates
          /\ request'[o] = request[o] \/ request'[o].step \in {"idle", "look"}
  BY <1>1, <1>2, RequestTyped DEF Waiting, ArtInv
<1>4. request'[r].step \in {"idle", "look"}
  BY <1>1, <1>2
<1>5. ArtTypes'
  <2>1. request' \in [Requests -> RequestStates]
    BY <1>3 DEF Settle
  <2>2. QED
    BY <2>1, ScopeKept DEF ArtInv, ArtTypes, Settle
<1>6. SharedBuild'
  <2>1. CASE request[r].kind = "command"
    <3>1. Building' = Building
      BY <1>1, <1>4, <2>1 DEF Building
    <3>2. Waiting' = Waiting
      BY <1>1, <1>4, <2>1 DEF Waiting, BuildsOf
    <3>3. QED
      BY <2>1, <3>1, <3>2 DEF ArtInv, SharedBuild, Settle
  <2>2. CASE request[r].kind # "command"
    <3>1. Building = {r}
      BY <2>2 DEF ArtInv, SharedBuild, Building, BuildsOf
    <3>2. \A o \in Requests : request'[o].step = "build" =>
              o # r /\ request'[o] = request[o]
      BY <1>3, <1>4
    <3>3. Building' = {}
      BY <3>1, <3>2 DEF Building
    <3>4. Waiting' = {}
      <4>1. ASSUME NEW o \in Requests, request'[o].step = "wait"
            PROVE  FALSE
        <5>1. request'[o] = request[o]
          BY <1>3, <4>1
        <5>2. request'[o].step \in {"idle", "look"}
          BY <1>1, <1>2, <2>2, <4>1, <5>1 DEF Waiting
        <5>3. QED
          BY <4>1, <5>2
      <4>2. QED
        BY <4>1 DEF Waiting
    <3>5. inFlight' = NoRequest
      BY <2>2 DEF Settle
    <3>6. QED
      BY <3>3, <3>4, <3>5 DEF SharedBuild
  <2>3. QED
    BY <2>1, <2>2
<1>7. BuildsNumbered' /\ SignaturesPast' /\ GraphsInHand' /\ CfgOfLines'
  <2>1. UNCHANGED <<lines, header, cached, builds, artScope>>
    BY DEF Settle
  <2>2. QED
    BY <1>3, <2>1, HeldLess
<1>8. QED
  BY <1>5, <1>6, <1>7 DEF ArtInv

-----------------------------------------------------------------------------
(* The control-flow graph *)

\* A request that is neither a build nor a wait, before and after, does not concern
\* the in-flight map or the numbers.
LEMMA Bystander ==
    ASSUME ArtInv, NEW r \in Requests, request[r].step \in {"look", "script", "store"},
           NEW x \in RequestStates, x.step \in {"idle", "look", "script", "store"},
           request' = [request EXCEPT ![r] = x],
           UNCHANGED <<inFlight, builds, artScope, listing, lines, header>>,
           cached' \in [Binaries -> [sig : FileStates, of : Builds]]
    PROVE  /\ ArtTypes' /\ SharedBuild' /\ BuildsNumbered'
           /\ request'[r] = x
           /\ \A o \in Requests : o # r => request'[o] = request[o]
           /\ \A o \in Requests : BuildsOf(o)' => BuildsOf(o) /\ request'[o] = request[o]
<1>1. /\ request' \in [Requests -> RequestStates]
      /\ request'[r] = x
      /\ \A o \in Requests : o # r => request'[o] = request[o]
  BY RequestSet DEF ArtInv
<1>2. ArtTypes'
  BY <1>1, ScopeKept DEF ArtInv, ArtTypes
<1>3. SharedBuild'
  <2>1. Building' = Building
    BY <1>1 DEF Building
  <2>2. Waiting' = Waiting
    BY <1>1 DEF Waiting
  <2>3. QED
    BY <2>1, <2>2 DEF ArtInv, SharedBuild
<1>4. BuildsNumbered'
  BY <1>1 DEF ArtInv, BuildsNumbered, BuildsOf
<1>5. QED
  BY <1>1, <1>2, <1>3, <1>4 DEF BuildsOf

LEMMA LookSafe ==
    ASSUME ArtInv, NEW r \in artScope.requests, Look(r)
    PROVE  ArtInv'
<1> DEFINE x == IF ~Exists(header) \/ (Exists(header) /\ cached[request[r].binary].of # 0
                                           /\ cached[request[r].binary].sig = header)
                THEN Idle
                ELSE [step |-> "script", kind |-> "cfg", binary |-> request[r].binary, sig |-> header]
<1>1. r \in Requests /\ request[r].step = "look" /\ request[r].binary \in Binaries
  BY ScopeTyped, RequestTyped DEF ArtInv, Look
<1>2. header \in FileStates /\ cached \in [Binaries -> [sig : FileStates, of : Builds]]
  BY DEF ArtInv, ArtTypes
<1>3. /\ x \in RequestStates /\ x.step \in {"idle", "script"}
      /\ x.step = "script" => x.sig = header
  BY <1>1, <1>2 DEF RequestStates, Idle
<1>4. request' = [request EXCEPT ![r] = x]
  BY DEF Look
<1>5. /\ ArtTypes' /\ SharedBuild' /\ BuildsNumbered'
      /\ request'[r] = x
      /\ \A o \in Requests : o # r => request'[o] = request[o]
      /\ \A o \in Requests : BuildsOf(o)' => BuildsOf(o) /\ request'[o] = request[o]
  <2> HIDE DEF x
  <2> QED BY <1>1, <1>2, <1>3, <1>4, Bystander DEF Look
<1> HIDE DEF x
<1>6. SignaturesPast'
  <2>1. \A sig \in FileStates : Signs(sig)' => Signs(sig)
    BY <1>3, <1>5 DEF Signs, Look
  <2>2. QED
    BY <1>5, <2>1, NothingSigned DEF Look
<1>7. GraphsInHand' /\ CfgOfLines'
  BY <1>3, <1>5 DEF ArtInv, GraphsInHand, CfgOfLines, Look
<1>8. QED
  BY <1>5, <1>6, <1>7 DEF ArtInv

LEMMA ScriptSafe ==
    ASSUME ArtInv, NEW r \in artScope.requests, Script(r)
    PROVE  ArtInv'
<1> DEFINE x == IF header.whole
                THEN [step |-> "store", kind |-> "cfg", binary |-> request[r].binary,
                      sig |-> request[r].sig, of |-> lines]
                ELSE Idle
<1>1. /\ r \in Requests /\ request[r].step = "script" /\ request[r].binary \in Binaries
      /\ request[r].sig \in FileStates
  BY ScopeTyped, RequestTyped DEF ArtInv, Script
<1>2. lines \in Builds /\ cached \in [Binaries -> [sig : FileStates, of : Builds]]
  BY DEF ArtInv, ArtTypes
<1>3. /\ x \in RequestStates /\ x.step \in {"idle", "store"}
      /\ x.step = "store" => x.sig = request[r].sig /\ x.of = lines
  BY <1>1, <1>2 DEF RequestStates, Idle
<1>4. request' = [request EXCEPT ![r] = x]
  BY DEF Script
<1>5. /\ ArtTypes' /\ SharedBuild' /\ BuildsNumbered'
      /\ request'[r] = x
      /\ \A o \in Requests : o # r => request'[o] = request[o]
      /\ \A o \in Requests : BuildsOf(o)' => BuildsOf(o) /\ request'[o] = request[o]
  <2> HIDE DEF x
  <2> QED BY <1>1, <1>2, <1>3, <1>4, Bystander DEF Script
<1> HIDE DEF x
<1>6. SignaturesPast'
  <2>1. \A sig \in FileStates : Signs(sig)' => Signs(sig)
    BY <1>1, <1>3, <1>5 DEF Signs, Script
  <2>2. QED
    BY <1>5, <2>1, NothingSigned DEF Script
\* The graph is of the lines in place.
<1>7. GraphsInHand' /\ CfgOfLines'
  BY <1>3, <1>5 DEF ArtInv, GraphsInHand, CfgOfLines, Script
<1>8. QED
  BY <1>5, <1>6, <1>7 DEF ArtInv

LEMMA StoreSafe ==
    ASSUME ArtInv, NEW r \in artScope.requests, Store(r)
    PROVE  ArtInv'
<1>1. /\ r \in Requests /\ request[r].step = "store" /\ request[r].binary \in Binaries
      /\ request[r].sig \in FileStates /\ request[r].of \in Builds
  BY ScopeTyped, RequestTyped DEF ArtInv, Store
<1>2. /\ cached' \in [Binaries -> [sig : FileStates, of : Builds]]
      /\ \A b \in Binaries :
            \/ cached'[b] = cached[b]
            \/ cached'[b] = [sig |-> request[r].sig, of |-> request[r].of]
  BY <1>1 DEF ArtInv, ArtTypes, Store
<1>3. Idle \in RequestStates /\ Idle.step = "idle"
  BY DEF RequestStates, Idle
<1>4. /\ ArtTypes' /\ SharedBuild' /\ BuildsNumbered'
      /\ request'[r] = Idle
      /\ \A o \in Requests : o # r => request'[o] = request[o]
      /\ \A o \in Requests : BuildsOf(o)' => BuildsOf(o) /\ request'[o] = request[o]
  BY <1>1, <1>2, <1>3, Bystander DEF Store
<1>5. SignaturesPast'
  <2>1. \A sig \in FileStates : Signs(sig)' => Signs(sig)
    BY <1>1, <1>2, <1>3, <1>4 DEF Signs, Store
  <2>2. QED
    BY <1>4, <2>1, NothingSigned DEF Store
<1>6. GraphsInHand'
  BY <1>3, <1>4 DEF ArtInv, GraphsInHand, Store
\* What is stored is what GraphsInHand says of the graph in hand.
<1>7. CfgOfLines'
  <2>1. lines' = lines /\ header' = header
    BY DEF Store
  <2>2. ASSUME NEW b \in Binaries, cached'[b].of # 0, cached'[b].sig = header,
               header.whole, header.build = lines
        PROVE  cached'[b].of = lines
    BY <1>1, <1>2, <2>2 DEF ArtInv, GraphsInHand, CfgOfLines
  <2>3. QED
    BY <2>1, <2>2 DEF CfgOfLines
<1>8. QED
  BY <1>4, <1>5, <1>6, <1>7 DEF ArtInv

-----------------------------------------------------------------------------
(* What happens to the files *)

LEMMA ForgetSafe ==
    ASSUME ArtInv, NEW b \in artScope.binaries, Forget(b)
    PROVE  ArtInv'
<1>1. b \in Binaries /\ artScope.builds \in Nat /\ builds \in Nat
  BY ScopeTyped DEF ArtInv, ArtTypes, Builds
<1>2. NoFile \in FileStates /\ NoCfg \in [sig : FileStates, of : Builds]
  BY <1>1 DEF NoFile, NoCfg, FileStates, Builds
<1>3. /\ cached' \in [Binaries -> [sig : FileStates, of : Builds]]
      /\ \A c \in Binaries : cached'[c] = cached[c] \/ cached'[c] = NoCfg
  BY <1>1, <1>2 DEF ArtInv, ArtTypes, Forget
<1>4. ArtTypes'
  BY <1>3, ScopeKept DEF ArtInv, ArtTypes, Forget
<1>5. SharedBuild' /\ BuildsNumbered'
  BY DEF ArtInv, SharedBuild, Building, Waiting, BuildsNumbered, BuildsOf, Forget
<1>6. SignaturesPast'
  <2>1. \A sig \in FileStates : Signs(sig)' => Signs(sig) \/ sig = NoFile
    BY <1>3 DEF Signs, Forget, NoCfg
  <2>2. ~NoFile.whole /\ NoFile.build <= builds
    BY <1>1 DEF NoFile
  <2>3. QED
    BY <2>1, <2>2, NothingSigned DEF Forget, BuildsOf
<1>7. GraphsInHand'
  BY DEF ArtInv, GraphsInHand, Forget
<1>8. CfgOfLines'
  BY <1>3 DEF ArtInv, CfgOfLines, Forget, NoCfg
<1>9. QED
  BY <1>4, <1>5, <1>6, <1>7, <1>8 DEF ArtInv

LEMMA CleanupSafe ==
    ASSUME ArtInv, Cleanup
    PROVE  ArtInv'
<1>1. artScope.builds \in Nat /\ builds \in Nat
  BY ScopeTyped DEF ArtInv, ArtTypes, Builds
<1>2. NoFile \in FileStates /\ 0 \in Builds /\ ~NoFile.whole /\ NoFile.build <= builds
  BY <1>1 DEF NoFile, FileStates, Builds
<1>3. ArtTypes'
  BY <1>2, ScopeKept DEF ArtInv, ArtTypes, Cleanup
<1>4. SharedBuild' /\ BuildsNumbered'
  BY DEF ArtInv, SharedBuild, Building, Waiting, BuildsNumbered, BuildsOf, Cleanup
<1>5. SignaturesPast'
  <2>1. \A sig \in FileStates : Signs(sig)' => Signs(sig) \/ sig = NoFile
    BY DEF Signs, Cleanup
  <2>2. QED
    BY <1>2, <2>1, NothingSigned DEF Cleanup, BuildsOf
<1>6. GraphsInHand' /\ CfgOfLines'
  BY <1>2 DEF GraphsInHand, CfgOfLines, Cleanup
<1>7. QED
  BY <1>3, <1>4, <1>5, <1>6 DEF ArtInv

-----------------------------------------------------------------------------
LEMMA ArtStarts == ArtInit => ArtInv
<1> SUFFICES ASSUME ArtInit PROVE ArtInv
  OBVIOUS
<1>1. artScope.builds \in Nat
  BY ArtifactsAssumption DEF ArtInit
<1>2. NoFile \in FileStates /\ NoCfg \in [sig : FileStates, of : Builds] /\ Idle \in RequestStates /\ 0 \in Builds
  BY <1>1 DEF NoFile, NoCfg, FileStates, Builds, Idle, RequestStates
<1>3. \A r \in Requests : request[r].step = "idle"
  BY DEF ArtInit, Idle
<1>4. ArtTypes
  BY <1>2 DEF ArtInit, ArtTypes
<1>5. SharedBuild /\ BuildsNumbered /\ GraphsInHand
  BY <1>3 DEF ArtInit, SharedBuild, Building, Waiting, BuildsNumbered, BuildsOf, GraphsInHand
<1>6. SignaturesPast
  <2>1. \A sig \in FileStates : Signs(sig) => sig = NoFile
    BY <1>3 DEF ArtInit, Signs, NoCfg
  <2>2. QED
    BY <1>3, <2>1 DEF ArtInit, SignaturesPast, NoFile, BuildsOf
<1>7. CfgOfLines
  BY DEF ArtInit, CfgOfLines, NoCfg
<1>8. QED
  BY <1>4, <1>5, <1>6, <1>7 DEF ArtInv

LEMMA ArtStep == ArtInv /\ [ArtNext]_artVars => ArtInv'
<1> SUFFICES ASSUME ArtInv, [ArtNext]_artVars PROVE ArtInv'
  OBVIOUS
<1>1. \A r \in artScope.requests : r \in Requests
  BY ScopeTyped DEF ArtInv
<1>2. ASSUME NEW r \in artScope.requests, Exit(r)
      PROVE  ArtInv'
  BY <1>1, <1>2, SettleSafe DEF Exit, Settle, BuildsOf
<1>3. ASSUME NEW r \in artScope.requests, Fail(r)
      PROVE  ArtInv'
  BY <1>1, <1>3, SettleSafe DEF Fail, Settle, BuildsOf
<1>4. ASSUME NEW r \in artScope.requests, Process(r)
      PROVE  ArtInv'
  BY <1>2, <1>4, WriteListingSafe, ReplaceLinesSafe, OpenHeaderSafe, WriteHeaderSafe,
     LookSafe, ScriptSafe, StoreSafe DEF Process
<1>5. ASSUME UNCHANGED artVars
      PROVE  ArtInv'
  <2>1. UNCHANGED <<listing, lines, header, inFlight, cached, request, builds, artScope>>
    BY <1>5 DEF artVars
  <2>2. ArtTypes'
    BY <2>1, ScopeKept DEF ArtInv, ArtTypes
  <2>3. SharedBuild'
    BY <2>1 DEF ArtInv, SharedBuild, Building, Waiting
  <2>4. BuildsNumbered' /\ SignaturesPast' /\ GraphsInHand' /\ CfgOfLines'
    BY <2>1, HeldLess
  <2>5. QED
    BY <2>2, <2>3, <2>4 DEF ArtInv
<1>6. QED
  BY <1>3, <1>4, <1>5, OpenSafe, LoadCfgSafe, CommandSafe, ForgetSafe, CleanupSafe DEF ArtNext

LEMMA ArtInductive == ArtSpec => []ArtInv
  BY ArtStarts, ArtStep, PTL DEF ArtSpec

\* For any binaries of one name, any requests and any number of runs of disasm.py,
\* under every order, failure and cancellation: one shared build writes the files, it
\* is the registered one, nobody waits for a promise that is settled, and a graph that
\* would be served was computed from the lines in place.
THEOREM ArtifactsAreShared == ArtSpec => []ArtifactsShared
<1>1. ArtInv => ArtifactsShared
  BY DEF ArtInv, ArtifactsShared
<1>2. QED
  BY <1>1, ArtInductive, PTL
-----------------------------------------------------------------------------
(* The chat *)

HistorySet == UNION {[held -> Seq(Turns)] : held \in SUBSET Conversations}

\* What is stored, and what is saved: the current conversation is one of them.
Documents == {d \in [chats : HistorySet, current : Conversations] :
                 DOMAIN d.chats # {} => d.current \in DOMAIN d.chats}
Saves == {d \in Documents : d.current \in DOMAIN d.chats}

Loaded(d) == [type |-> "history", of |-> 0, chats |-> d.chats, current |-> d.current]
Talk == [type : {"token", "rollback", "answered", "refused", "cancelled"}, of : Prompts]
PanelMessages == Talk \cup {Loaded(d) : d \in Documents}

ReplyStates == {"none", "running", "killed", "answered", "refused", "over"}

\* ChatTypeOK with what the type of the next state rests on.
ChatTypes ==
    /\ chats \in HistorySet /\ current \in DOMAIN chats
    /\ document \in Documents
    /\ chain \in Seq(Saves)
    /\ toPanel \in Seq(PanelMessages)
    /\ chatBusy \in BOOLEAN /\ listingModels \in BOOLEAN
    /\ loading \in BOOLEAN /\ saveFailed \in BOOLEAN
    /\ awaited \in 0..MaxPrompts /\ dueAnswer \in 0..MaxPrompts
    /\ live \in [waiting : BOOLEAN, painted : BOOLEAN]
    /\ backup = NoBackup \/ backup \in Seq(Turns)
    /\ replies \in [Prompts -> ReplyStates]
    /\ askedIn \in [Prompts -> Conversations]
    /\ stopped \subseteq Prompts
    /\ \E s \in ChatScopes :
          chatScope \in [document : {s.document}, late : BOOLEAN, slow : BOOLEAN, failing : BOOLEAN,
                         commands : Int, prompts : Nat, saves : Nat]

\* The models are listed only while no answer is awaited.
OwedInv == AnswerOwed /\ (listingModels => awaited = 0)

\* The stored history is read, and has not been shown: nothing has been said yet.
Arriving ==
    /\ chain = <<>> /\ awaited = 0 /\ live = NothingLive /\ dueAnswer = 0 /\ backup = NoBackup
    /\ \A p \in Prompts : replies[p] = "none"
    /\ \A c \in DOMAIN chats : chats[c] = <<>>
    /\ \A c \in DOMAIN document.chats : \A i \in DOMAIN document.chats[c] : document.chats[c][i].of = 0
    /\ \/ loading /\ toPanel = <<>>
       \/ ~loading /\ toPanel = <<Loaded(document)>>

\* It has been shown, or will never be.
Arrived == ~loading /\ \A i \in DOMAIN toPanel : toPanel[i].type # "history"

\* Two histories show the same messages.
Alike(h, g) ==
    \A c \in Conversations :
        (IF c \in DOMAIN h THEN h[c] ELSE <<>>) = (IF c \in DOMAIN g THEN g[c] ELSE <<>>)

\* The last save is what is shown.
SavedLast == IF chain = <<>> THEN Alike(chats, document.chats) ELSE chain[Len(chain)].chats = chats

\* The turns of a conversation are of prompts sent there; an answer stands after its
\* question; and a question has its answer, or was stopped, unless it is the one under
\* way (p), the last.
Placed(s, c, p, states, asked, halted) ==
    \A i \in DOMAIN s : s[i].of # 0 =>
        /\ states[s[i].of] # "none" /\ asked[s[i].of] = c
        /\ s[i].role # "user" => i > 1 /\ s[i - 1] = Said("user", s[i].of)
        /\ s[i].role = "user" =>
              \/ s[i].of = p /\ i = Len(s)
              \/ s[i].of \in halted
              \/ i < Len(s) /\ s[i + 1].of = s[i].of /\ s[i + 1].role # "user"

\* Answers and refusals on their way are the last word of their process, after every
\* fragment; what was stopped was stopped by the user.
LastWords ==
    \A i \in DOMAIN toPanel :
        /\ toPanel[i].type = "cancelled" => toPanel[i].of \in stopped
        /\ toPanel[i].type \in {"answered", "refused"} => replies[toPanel[i].of] = "over"
        /\ toPanel[i].type = "answered" /\ toPanel[i].of = awaited =>
              /\ ~live.waiting
              /\ \A j \in DOMAIN toPanel : toPanel[j].type = "token" => toPanel[j].of # awaited

\* The question under way is the last turn of the conversation shown, and a revision
\* under way can be put back there.
TurnsPlaced ==
    /\ awaited # 0 =>
          /\ current = askedIn[awaited] /\ replies[awaited] # "none"
          /\ Len(chats[current]) > 0 /\ chats[current][Len(chats[current])] = Said("user", awaited)
    /\ backup # NoBackup => awaited # 0 /\ Placed(backup, current, 0, replies, askedIn, stopped)
    /\ \A c \in DOMAIN chats : Placed(chats[c], c, awaited, replies, askedIn, stopped)

InPlace == dueAnswer = 0 /\ LastWords /\ TurnsPlaced

ChatInv ==
    /\ ChatTypes /\ OwedInv
    /\ ~chatScope.late =>
          /\ Arriving \/ Arrived
          /\ ~chatScope.failing /\ Arrived => SavedLast
          /\ ~chatScope.slow => InPlace

LEMMA HistoryIs ==
    ASSUME NEW h \in HistorySet
    PROVE  DOMAIN h \subseteq Conversations /\ \A c \in DOMAIN h : h[c] \in Seq(Turns)
  BY DEF HistorySet

LEMMA HistoryMade ==
    ASSUME NEW held \in SUBSET Conversations, NEW h \in [held -> Seq(Turns)]
    PROVE  h \in HistorySet /\ DOMAIN h = held
  BY DEF HistorySet

\* The conversations with one added or replaced, one left out, or a new one alone.
LEMMA WithMade ==
    ASSUME NEW h \in HistorySet, NEW c \in Conversations, NEW s \in Seq(Turns)
    PROVE  /\ With(h, c, s) \in HistorySet /\ DOMAIN With(h, c, s) = DOMAIN h \cup {c}
           /\ With(h, c, s)[c] = s
           /\ \A d \in DOMAIN h : d # c => With(h, c, s)[d] = h[d]
<1>1. With(h, c, s) \in [DOMAIN h \cup {c} -> Seq(Turns)]
  BY HistoryIs DEF With
<1>2. DOMAIN h \cup {c} \in SUBSET Conversations
  BY HistoryIs
<1>3. With(h, c, s) \in HistorySet /\ DOMAIN With(h, c, s) = DOMAIN h \cup {c}
  BY <1>1, <1>2, HistoryMade
<1>4. QED
  BY <1>3 DEF With

LEMMA UnlistedMade ==
    ASSUME NEW h \in HistorySet, NEW c
    PROVE  /\ Unlisted(h, c) \in HistorySet /\ DOMAIN Unlisted(h, c) = DOMAIN h \ {c}
           /\ \A d \in DOMAIN h \ {c} : Unlisted(h, c)[d] = h[d]
<1>1. Unlisted(h, c) \in [DOMAIN h \ {c} -> Seq(Turns)]
  BY HistoryIs DEF Unlisted
<1>2. DOMAIN h \ {c} \in SUBSET Conversations
  BY HistoryIs
<1>3. Unlisted(h, c) \in HistorySet /\ DOMAIN Unlisted(h, c) = DOMAIN h \ {c}
  BY <1>1, <1>2, HistoryMade
<1>4. QED
  BY <1>3 DEF Unlisted

LEMMA BlankMade ==
    ASSUME NEW c \in Conversations
    PROVE  Blank(c) \in HistorySet /\ DOMAIN Blank(c) = {c} /\ Blank(c)[c] = <<>>
<1>1. <<>> \in Seq(Turns)
  OBVIOUS
<1>2. Blank(c) \in [{c} -> Seq(Turns)]
  BY <1>1 DEF Blank
<1>3. Blank(c) \in HistorySet /\ DOMAIN Blank(c) = {c}
  BY <1>2, HistoryMade
<1>4. QED
  BY <1>3 DEF Blank

LEMMA ReplacedMade ==
    ASSUME NEW h \in HistorySet, NEW c \in DOMAIN h, NEW s \in Seq(Turns)
    PROVE  /\ [h EXCEPT ![c] = s] \in HistorySet /\ DOMAIN [h EXCEPT ![c] = s] = DOMAIN h
           /\ [h EXCEPT ![c] = s][c] = s
           /\ \A d \in DOMAIN h : d # c => [h EXCEPT ![c] = s][d] = h[d]
<1>1. h \in [DOMAIN h -> Seq(Turns)] /\ DOMAIN h \in SUBSET Conversations
  BY DEF HistorySet
<1>2. [h EXCEPT ![c] = s] \in [DOMAIN h -> Seq(Turns)]
  BY <1>1
<1>3. [h EXCEPT ![c] = s] \in HistorySet /\ DOMAIN [h EXCEPT ![c] = s] = DOMAIN h
  BY <1>1, <1>2, HistoryMade
<1>4. QED
  BY <1>1, <1>3

LEMMA FreshIs ==
    ASSUME FreshIds # {}
    PROVE  /\ FreshId \in Conversations /\ FreshId \notin DOMAIN chats
           /\ \A p \in Prompts : askedIn[p] # FreshId
<1>1. FreshId \in FreshIds
  BY DEF FreshId
<1>2. QED
  BY <1>1 DEF FreshIds

LEMMA PromptTyped ==
    /\ MaxPrompts \in Nat \ {0} /\ Prompts \subseteq 0..MaxPrompts
    /\ \A p \in Prompts : p \in Nat /\ p # 0
    /\ \A p \in 0..MaxPrompts : p # 0 => p \in Prompts
  BY ChatAssumption DEF Prompts

LEMMA SaidTyped ==
    ASSUME NEW role \in Speakers, NEW p \in 0..MaxPrompts
    PROVE  Said(role, p) \in Turns /\ Said(role, p).role = role /\ Said(role, p).of = p
  BY DEF Said, Turns

\* The scope of a behaviour: only how many commands are left changes.
LEMMA ChatScopeTyped ==
    ASSUME ChatTypes
    PROVE  /\ chatScope.late \in BOOLEAN /\ chatScope.slow \in BOOLEAN /\ chatScope.failing \in BOOLEAN
           /\ chatScope.saves \in Nat /\ chatScope.prompts \in Nat
  BY DEF ChatTypes

LEMMA ScopeSpent ==
    ASSUME ChatTypes, chatScope' = [chatScope EXCEPT !.commands = @ - 1]
    PROVE  /\ \E s \in ChatScopes :
                chatScope' \in [document : {s.document}, late : BOOLEAN, slow : BOOLEAN, failing : BOOLEAN,
                                commands : Int, prompts : Nat, saves : Nat]
           /\ chatScope'.late = chatScope.late /\ chatScope'.slow = chatScope.slow
           /\ chatScope'.failing = chatScope.failing
<1>1. PICK s \in ChatScopes :
         chatScope \in [document : {s.document}, late : BOOLEAN, slow : BOOLEAN, failing : BOOLEAN,
                        commands : Int, prompts : Nat, saves : Nat]
  BY DEF ChatTypes
<1>2. chatScope.commands - 1 \in Int
  BY <1>1
<1>3. QED
  BY <1>1, <1>2

-----------------------------------------------------------------------------
(* Saves, and messages on their way *)

\* What is shown is replaced and saved.
LEMMA Persisted ==
    ASSUME ChatTypes, NEW h \in HistorySet, NEW c \in DOMAIN h, Persist(h, c)
    PROVE  /\ chats' = h /\ current' = c
           /\ chain' \in Seq(Saves) /\ chain' # <<>>
           /\ chain'[Len(chain')].chats = h
<1> DEFINE save == [chats |-> h, current |-> c]
<1>1. c \in Conversations
  BY HistoryIs
<1>2. save \in Saves
  BY <1>1 DEF Saves, Documents
<1>3. save.chats = h
  OBVIOUS
<1>4. chain' = Append(chain, save) /\ chats' = h /\ current' = c
  BY DEF Persist
<1> HIDE DEF save
<1>5. chain \in Seq(Saves)
  BY DEF ChatTypes
<1>6. /\ Append(chain, save) \in Seq(Saves)
      /\ Len(Append(chain, save)) = Len(chain) + 1
      /\ Append(chain, save)[Len(chain) + 1] = save
  BY <1>2, <1>5, AppendProperties
<1>7. Len(chain) \in Nat
  BY <1>5, LenProperties
<1>8. chain' # <<>>
  BY <1>4, <1>6, <1>7, EmptySeq
<1>9. QED
  BY <1>3, <1>4, <1>6, <1>8

\* A message of the host waits behind the others.
LEMMA PostedLast ==
    ASSUME ChatTypes, NEW m \in PanelMessages, Post(m)
    PROVE  /\ toPanel' \in Seq(PanelMessages)
           /\ Len(toPanel') = Len(toPanel) + 1 /\ Len(toPanel) \in Nat
           /\ toPanel'[Len(toPanel')] = m
           /\ \A i \in DOMAIN toPanel : i \in DOMAIN toPanel' /\ toPanel'[i] = toPanel[i]
           /\ \A i \in DOMAIN toPanel' : i \in DOMAIN toPanel \/ toPanel'[i] = m
<1>1. toPanel \in Seq(PanelMessages)
  BY DEF ChatTypes
<1>2. toPanel' = Append(toPanel, m)
  BY DEF Post
<1>3. Len(toPanel) \in Nat /\ DOMAIN toPanel = 1..Len(toPanel)
  BY <1>1, LenProperties
<1>4. /\ toPanel' \in Seq(PanelMessages)
      /\ Len(toPanel') = Len(toPanel) + 1
      /\ \A i \in 1..Len(toPanel) : toPanel'[i] = toPanel[i]
      /\ toPanel'[Len(toPanel) + 1] = m
  BY <1>1, <1>2, AppendProperties
<1>5. DOMAIN toPanel' = 1..(Len(toPanel) + 1)
  BY <1>4, LenProperties
<1>6. QED
  BY <1>3, <1>4, <1>5

\* The first message is taken.
LEMMA TakenFirst ==
    ASSUME ChatTypes, toPanel # <<>>, toPanel' = Tail(toPanel)
    PROVE  /\ toPanel' \in Seq(PanelMessages)
           /\ Head(toPanel) = toPanel[1] /\ 1 \in DOMAIN toPanel
           /\ Head(toPanel) \in PanelMessages
           /\ \A i \in DOMAIN toPanel' : i + 1 \in DOMAIN toPanel /\ toPanel'[i] = toPanel[i + 1]
           /\ \A i \in DOMAIN toPanel : i = 1 \/ (i - 1 \in DOMAIN toPanel' /\ toPanel'[i - 1] = toPanel[i])
<1>1. toPanel \in Seq(PanelMessages)
  BY DEF ChatTypes
<1>2. Len(toPanel) \in Nat /\ DOMAIN toPanel = 1..Len(toPanel)
  BY <1>1, LenProperties
<1>3. Len(toPanel) # 0
  BY <1>1, EmptySeq
<1>4. /\ Head(toPanel) \in PanelMessages
      /\ toPanel' \in Seq(PanelMessages)
      /\ Len(toPanel') = Len(toPanel) - 1
      /\ \A i \in 1..Len(toPanel') : toPanel'[i] = toPanel[i + 1]
  BY <1>1, HeadTailProperties
<1>5. DOMAIN toPanel' = 1..(Len(toPanel) - 1)
  BY <1>4, LenProperties
<1>6. Head(toPanel) = toPanel[1]
  BY <1>1
<1>7. QED
  BY <1>2, <1>3, <1>4, <1>5, <1>6

\* The user stops the prompt awaited: fragments not sent yet may come first.
LEMMA StopPosted ==
    ASSUME ChatTypes, awaited \in Prompts,
           NEW flushed \in {<<>>, <<[type |-> "token", of |-> awaited]>>},
           toPanel' = toPanel \o flushed \o <<[type |-> "cancelled", of |-> awaited]>>
    PROVE  /\ toPanel' \in Seq(PanelMessages)
           /\ \A i \in DOMAIN toPanel : i \in DOMAIN toPanel' /\ toPanel'[i] = toPanel[i]
           /\ \A i \in DOMAIN toPanel' :
                 \/ i \in DOMAIN toPanel
                 \/ toPanel'[i] = [type |-> "cancelled", of |-> awaited]
                 \/ flushed # <<>> /\ toPanel'[i] = [type |-> "token", of |-> awaited]
           /\ \E i \in DOMAIN toPanel' : toPanel'[i] = [type |-> "cancelled", of |-> awaited]
<1> DEFINE last == [type |-> "cancelled", of |-> awaited]
           token == [type |-> "token", of |-> awaited]
<1>1. last \in PanelMessages /\ token \in PanelMessages
  BY DEF PanelMessages, Talk
<1>2. toPanel \in Seq(PanelMessages)
  BY DEF ChatTypes
<1> HIDE DEF last, token
<1>3. <<last>> \in Seq(PanelMessages) /\ Len(<<last>>) = 1 /\ <<last>>[1] = last
  BY <1>1
<1>4. /\ flushed \in Seq(PanelMessages) /\ Len(flushed) \in {0, 1}
      /\ Len(flushed) = 1 => flushed[1] = token /\ flushed # <<>>
  <2>1. CASE flushed = <<>>
    BY <2>1
  <2>2. CASE flushed = <<token>>
    BY <1>1, <2>2
  <2>3. QED
    BY <2>1, <2>2 DEF token
<1> DEFINE first == toPanel \o flushed
<1>5. /\ first \in Seq(PanelMessages) /\ Len(first) = Len(toPanel) + Len(flushed)
      /\ \A i \in 1..(Len(toPanel) + Len(flushed)) :
            first[i] = IF i <= Len(toPanel) THEN toPanel[i] ELSE flushed[i - Len(toPanel)]
  BY <1>2, <1>4, ConcatProperties
<1> HIDE DEF first
<1>6. /\ first \o <<last>> \in Seq(PanelMessages) /\ Len(first \o <<last>>) = Len(first) + 1
      /\ \A i \in 1..(Len(first) + 1) :
            (first \o <<last>>)[i] = IF i <= Len(first) THEN first[i] ELSE <<last>>[i - Len(first)]
  BY <1>3, <1>5, ConcatProperties
<1>7. toPanel' = first \o <<last>>
  BY DEF first, last
<1>8. Len(toPanel) \in Nat /\ DOMAIN toPanel = 1..Len(toPanel) /\ DOMAIN toPanel' = 1..Len(toPanel')
  BY <1>2, <1>6, <1>7, LenProperties
<1>9. \A i \in DOMAIN toPanel : i \in DOMAIN toPanel' /\ toPanel'[i] = toPanel[i]
  BY <1>4, <1>5, <1>6, <1>7, <1>8
<1>10. \A i \in DOMAIN toPanel' :
          i \in DOMAIN toPanel \/ toPanel'[i] = last \/ (flushed # <<>> /\ toPanel'[i] = token)
  BY <1>3, <1>4, <1>5, <1>6, <1>7, <1>8
<1>11. Len(first) + 1 \in DOMAIN toPanel' /\ toPanel'[Len(first) + 1] = last
  BY <1>3, <1>4, <1>5, <1>6, <1>7, <1>8
<1>12. QED
  BY <1>6, <1>7, <1>9, <1>10, <1>11 DEF last, token

LEMMA TypedNext ==
    ASSUME ChatTypes, chats' \in HistorySet, current' \in DOMAIN chats', document' \in Documents,
           chain' \in Seq(Saves), toPanel' \in Seq(PanelMessages),
           chatBusy' \in BOOLEAN, listingModels' \in BOOLEAN, loading' \in BOOLEAN, saveFailed' \in BOOLEAN,
           awaited' \in 0..MaxPrompts, dueAnswer' \in 0..MaxPrompts,
           live' \in [waiting : BOOLEAN, painted : BOOLEAN],
           backup' = NoBackup \/ backup' \in Seq(Turns),
           replies' \in [Prompts -> ReplyStates], askedIn' \in [Prompts -> Conversations],
           stopped' \subseteq Prompts,
           chatScope' = chatScope \/ chatScope' = [chatScope EXCEPT !.commands = @ - 1]
    PROVE  ChatTypes'
<1>1. \E s \in ChatScopes :
         chatScope' \in [document : {s.document}, late : BOOLEAN, slow : BOOLEAN, failing : BOOLEAN,
                         commands : Int, prompts : Nat, saves : Nat]
  <2>1. CASE chatScope' = chatScope
    BY <2>1 DEF ChatTypes
  <2>2. CASE chatScope' = [chatScope EXCEPT !.commands = @ - 1]
    BY <2>2, ScopeSpent
  <2>3. QED
    BY <2>1, <2>2
<1>2. QED
  BY <1>1 DEF ChatTypes

LEMMA LiveTyped ==
    ASSUME ChatTypes
    PROVE  /\ NothingLive \in [waiting : BOOLEAN, painted : BOOLEAN]
           /\ [live EXCEPT !.waiting = FALSE] \in [waiting : BOOLEAN, painted : BOOLEAN]
           /\ [live EXCEPT !.waiting = TRUE] \in [waiting : BOOLEAN, painted : BOOLEAN]
           /\ [live EXCEPT !.painted = FALSE] \in [waiting : BOOLEAN, painted : BOOLEAN]
           /\ [waiting |-> FALSE, painted |-> TRUE] \in [waiting : BOOLEAN, painted : BOOLEAN]
  BY DEF ChatTypes, NothingLive

-----------------------------------------------------------------------------
(* What is shown *)

LEMMA ShownIs ==
    ASSUME ChatTypes
    PROVE  /\ current \in Conversations /\ chats[current] \in Seq(Turns)
           /\ DOMAIN chats \subseteq Conversations
           /\ \A c \in DOMAIN chats : chats[c] \in Seq(Turns)
  BY HistoryIs DEF ChatTypes

\* The last turn of the conversation shown is put after a context.
LEMMA Appended ==
    ASSUME ChatTypes, NEW before \in Seq(Turns), NEW role \in Speakers, NEW p \in 0..MaxPrompts,
           \/ Persist(With(chats, current, Append(before, Said(role, p))), current)
           \/ Persist([chats EXCEPT ![current] = Append(before, Said(role, p))], current)
    PROVE  /\ chats' \in HistorySet /\ DOMAIN chats' = DOMAIN chats /\ current' = current
           /\ chats'[current] = Append(before, Said(role, p))
           /\ \A c \in DOMAIN chats : c # current => chats'[c] = chats[c]
           /\ chain' \in Seq(Saves) /\ chain' # <<>> /\ chain'[Len(chain')].chats = chats'
<1> DEFINE s == Append(before, Said(role, p))
<1>1. s \in Seq(Turns)
  BY SaidTyped, AppendProperties
<1>2. /\ current \in Conversations /\ current \in DOMAIN chats /\ chats \in HistorySet
      /\ DOMAIN chats \cup {current} = DOMAIN chats
  BY ShownIs DEF ChatTypes
<1> HIDE DEF s
<1>3. ASSUME NEW h \in HistorySet, DOMAIN h = DOMAIN chats, h[current] = s,
             \A c \in DOMAIN chats : c # current => h[c] = chats[c], Persist(h, current)
      PROVE  /\ chats' \in HistorySet /\ DOMAIN chats' = DOMAIN chats /\ current' = current
             /\ chats'[current] = s
             /\ \A c \in DOMAIN chats : c # current => chats'[c] = chats[c]
             /\ chain' \in Seq(Saves) /\ chain' # <<>> /\ chain'[Len(chain')].chats = chats'
  BY <1>2, <1>3, Persisted
<1>4. CASE Persist(With(chats, current, s), current)
  <2>1. /\ With(chats, current, s) \in HistorySet /\ DOMAIN With(chats, current, s) = DOMAIN chats
        /\ With(chats, current, s)[current] = s
        /\ \A c \in DOMAIN chats : c # current => With(chats, current, s)[c] = chats[c]
    BY <1>1, <1>2, WithMade
  <2>2. QED
    BY <1>3, <1>4, <2>1 DEF s
<1>5. CASE Persist([chats EXCEPT ![current] = s], current)
  <2>1. /\ [chats EXCEPT ![current] = s] \in HistorySet /\ DOMAIN [chats EXCEPT ![current] = s] = DOMAIN chats
        /\ [chats EXCEPT ![current] = s][current] = s
        /\ \A c \in DOMAIN chats : c # current => [chats EXCEPT ![current] = s][c] = chats[c]
    BY <1>1, <1>2, ReplacedMade
  <2>2. QED
    BY <1>3, <1>5, <2>1 DEF s
<1>6. QED
  BY <1>4, <1>5 DEF s

LEMMA Pushed ==
    ASSUME ChatTypes, NEW role \in Speakers, NEW p \in 0..MaxPrompts, PushMessage(role, p)
    PROVE  /\ chats' \in HistorySet /\ DOMAIN chats' = DOMAIN chats /\ current' = current
           /\ chats'[current] = Append(chats[current], Said(role, p))
           /\ \A c \in DOMAIN chats : c # current => chats'[c] = chats[c]
           /\ chain' \in Seq(Saves) /\ chain' # <<>> /\ chain'[Len(chain')].chats = chats'
           /\ backup' = NoBackup
<1>1. Persist([chats EXCEPT ![current] = Append(chats[current], Said(role, p))], current) /\ backup' = NoBackup
  BY DEF PushMessage
<1>2. chats[current] \in Seq(Turns)
  BY ShownIs
<1>3. QED
  BY <1>1, <1>2, Appended

LEMMA PutBack ==
    ASSUME ChatTypes, backup # NoBackup, RestoreBackup
    PROVE  /\ chats' \in HistorySet /\ DOMAIN chats' = DOMAIN chats /\ current' = current
           /\ chats'[current] = backup
           /\ \A c \in DOMAIN chats : c # current => chats'[c] = chats[c]
           /\ chain' \in Seq(Saves) /\ chain' # <<>> /\ chain'[Len(chain')].chats = chats'
           /\ backup' = NoBackup
<1> DEFINE h == [chats EXCEPT ![current] = backup]
<1>1. backup \in Seq(Turns) /\ chats \in HistorySet /\ current \in DOMAIN chats
  BY DEF ChatTypes
<1>2. /\ h \in HistorySet /\ DOMAIN h = DOMAIN chats /\ h[current] = backup
      /\ \A c \in DOMAIN chats : c # current => h[c] = chats[c]
  BY <1>1, ReplacedMade
<1>3. Persist(h, current) /\ backup' = NoBackup
  BY DEF RestoreBackup
<1> HIDE DEF h
<1>4. QED
  BY <1>1, <1>2, <1>3, Persisted

-----------------------------------------------------------------------------
(* Types *)

\* What a prompt is asked after.
LEMMA ContextTyped ==
    ASSUME ChatTypes
    PROVE  /\ chats[current] \in Seq(Turns) /\ Len(chats[current]) \in Nat
           /\ DOMAIN chats[current] = 1..Len(chats[current])
           /\ \A i \in DOMAIN chats[current] :
                /\ chats[current][i] \in Turns
                /\ SubSeq(chats[current], 1, i - 1) \in Seq(Turns)
                /\ Len(SubSeq(chats[current], 1, i - 1)) = i - 1
                /\ \A j \in 1..(i - 1) : SubSeq(chats[current], 1, i - 1)[j] = chats[current][j]
<1>1. chats[current] \in Seq(Turns)
  BY ShownIs
<1>2. Len(chats[current]) \in Nat /\ DOMAIN chats[current] = 1..Len(chats[current])
  BY <1>1, LenProperties
<1>3. ASSUME NEW i \in DOMAIN chats[current]
      PROVE  /\ chats[current][i] \in Turns
             /\ SubSeq(chats[current], 1, i - 1) \in Seq(Turns)
             /\ Len(SubSeq(chats[current], 1, i - 1)) = i - 1
             /\ \A j \in 1..(i - 1) : SubSeq(chats[current], 1, i - 1)[j] = chats[current][j]
  <2>1. i - 1 \in 0..Len(chats[current]) /\ i \in 1..Len(chats[current])
    BY <1>2
  <2>2. chats[current][i] \in Turns
    BY <1>1, <2>1, ElementOfSeq
  <2>3. /\ SubSeq(chats[current], 1, i - 1) \in Seq(Turns)
        /\ Len(SubSeq(chats[current], 1, i - 1)) = i - 1
        /\ \A j \in 1..(i - 1) : SubSeq(chats[current], 1, i - 1)[j] = chats[current][j]
    BY <1>1, <1>2, <2>1
  <2>4. QED
    BY <2>2, <2>3
<1>4. QED
  BY <1>1, <1>2, <1>3

\* A prompt is sent: what it changes.
LEMMA Submitted ==
    ASSUME ChatTypes, NEW before \in Seq(Turns), Submitting(before)
    PROVE  /\ ~chatBusy /\ HistoryThere
           /\ \E p \in Prompts :
                /\ replies[p] = "none" /\ awaited' = p /\ replies' = [replies EXCEPT ![p] = "running"]
                /\ askedIn' = [askedIn EXCEPT ![p] = current]
                /\ chats'[current] = Append(before, Said("user", p))
           /\ chats' \in HistorySet /\ DOMAIN chats' = DOMAIN chats /\ current' = current
           /\ \A c \in DOMAIN chats : c # current => chats'[c] = chats[c]
           /\ chain' \in Seq(Saves) /\ chain' # <<>> /\ chain'[Len(chain')].chats = chats'
           /\ chatBusy' = TRUE /\ live' = NothingLive /\ dueAnswer' = 0
           /\ UNCHANGED <<listingModels, toPanel, document, loading, stopped, saveFailed, chatScope>>
<1>1. PICK p \in Prompts :
         /\ replies[p] = "none"
         /\ Persist(With(chats, current, Append(before, Said("user", p))), current)
         /\ awaited' = p /\ replies' = [replies EXCEPT ![p] = "running"]
         /\ askedIn' = [askedIn EXCEPT ![p] = current]
  BY DEF Submitting
<1>2. p \in 0..MaxPrompts /\ "user" \in Speakers
  BY PromptTyped DEF Speakers
<1>3. /\ chats' \in HistorySet /\ DOMAIN chats' = DOMAIN chats /\ current' = current
      /\ chats'[current] = Append(before, Said("user", p))
      /\ \A c \in DOMAIN chats : c # current => chats'[c] = chats[c]
      /\ chain' \in Seq(Saves) /\ chain' # <<>> /\ chain'[Len(chain')].chats = chats'
  BY <1>1, <1>2, Appended
<1>4. /\ ~chatBusy /\ HistoryThere
      /\ chatBusy' = TRUE /\ live' = NothingLive /\ dueAnswer' = 0
      /\ UNCHANGED <<listingModels, toPanel, document, loading, stopped, saveFailed, chatScope>>
  BY DEF Submitting
<1>5. QED
  BY <1>1, <1>3, <1>4

LEMMA SubmittedTypes ==
    ASSUME ChatTypes, NEW before \in Seq(Turns), Submitting(before),
           backup' = NoBackup \/ backup' \in Seq(Turns)
    PROVE  ChatTypes'
<1>1. PICK p \in Prompts :
         /\ awaited' = p /\ replies' = [replies EXCEPT ![p] = "running"]
         /\ askedIn' = [askedIn EXCEPT ![p] = current]
  BY Submitted
<1>2. /\ chats' \in HistorySet /\ current' \in DOMAIN chats' /\ chain' \in Seq(Saves)
      /\ chatBusy' = TRUE /\ live' = NothingLive /\ dueAnswer' = 0
      /\ UNCHANGED <<listingModels, toPanel, document, loading, stopped, saveFailed, chatScope>>
  BY Submitted DEF ChatTypes
<1>3. awaited' \in 0..MaxPrompts /\ dueAnswer' \in 0..MaxPrompts
  BY <1>1, <1>2, PromptTyped
<1>4. replies' \in [Prompts -> ReplyStates]
  BY <1>1 DEF ChatTypes, ReplyStates
<1>5. askedIn' \in [Prompts -> Conversations]
  BY <1>1, ShownIs DEF ChatTypes
<1>6. live' \in [waiting : BOOLEAN, painted : BOOLEAN]
  BY <1>2, LiveTyped
<1>7. QED
  BY <1>2, <1>3, <1>4, <1>5, <1>6, TypedNext DEF ChatTypes

\* The conversations and the one shown change, and are saved.
LEMMA TurnedTypes ==
    ASSUME ChatTypes, NEW h \in HistorySet, NEW c \in DOMAIN h, Persist(h, c),
           chatScope' = [chatScope EXCEPT !.commands = @ - 1],
           live' \in [waiting : BOOLEAN, painted : BOOLEAN], dueAnswer' \in 0..MaxPrompts,
           backup' = NoBackup \/ backup' = backup,
           UNCHANGED <<chatBusy, awaited, listingModels, replies, toPanel,
                       document, loading, askedIn, stopped, saveFailed>>
    PROVE  ChatTypes'
<1>1. chats' \in HistorySet /\ current' \in DOMAIN chats' /\ chain' \in Seq(Saves)
  BY Persisted
<1>2. QED
  BY <1>1, TypedNext DEF ChatTypes

\* What the commands on conversations make of the history.
LEMMA Turned ==
    ASSUME ChatTypes, NewChat \/ SwitchChat \/ DeleteChat \/ ClearChats
    PROVE  \E h \in HistorySet : \E c \in DOMAIN h :
              /\ Persist(h, c)
              /\ \A d \in DOMAIN h : (d \in DOMAIN chats /\ h[d] = chats[d]) \/ h[d] = <<>>
<1> DEFINE Good(h, c) == /\ h \in HistorySet /\ c \in DOMAIN h /\ Persist(h, c)
                         /\ \A d \in DOMAIN h : (d \in DOMAIN chats /\ h[d] = chats[d]) \/ h[d] = <<>>
<1>0. /\ chats \in HistorySet /\ current \in DOMAIN chats /\ <<>> \in Seq(Turns)
      /\ DOMAIN chats \subseteq Conversations
  BY ShownIs DEF ChatTypes
<1>1. ASSUME NewChat PROVE \E h, c : Good(h, c)
  <2> DEFINE rest == IF chats[current] # <<>> THEN chats ELSE Unlisted(chats, current)
             h == With(rest, FreshId, <<>>)
  <2>1. Persist(h, FreshId) /\ FreshIds # {}
    BY <1>1 DEF NewChat
  <2>2. FreshId \in Conversations
    BY <2>1, FreshIs
  <2>3. rest \in HistorySet /\ \A d \in DOMAIN rest : d \in DOMAIN chats /\ rest[d] = chats[d]
    BY <1>0, UnlistedMade
  <2> HIDE DEF rest
  <2>4. /\ h \in HistorySet /\ DOMAIN h = DOMAIN rest \cup {FreshId} /\ h[FreshId] = <<>>
        /\ \A d \in DOMAIN rest : d # FreshId => h[d] = rest[d]
    BY <1>0, <2>2, <2>3, WithMade
  <2> HIDE DEF h
  <2>5. Good(h, FreshId)
    BY <2>1, <2>3, <2>4
  <2>6. QED
    BY <2>5
<1>2. ASSUME SwitchChat PROVE \E h, c : Good(h, c)
  <2>1. PICK c \in DOMAIN chats \ {current} : Persist(chats, c)
    BY <1>2 DEF SwitchChat
  <2>2. Good(chats, c)
    BY <1>0, <2>1
  <2>3. QED
    BY <2>2
<1>3. ASSUME DeleteChat PROVE \E h, c : Good(h, c)
  <2>1. PICK c \in DOMAIN chats :
           \/ c # current /\ Persist(Unlisted(chats, c), current)
           \/ c = current /\ \E d \in DOMAIN Unlisted(chats, c) : Persist(Unlisted(chats, c), d)
           \/ /\ DOMAIN Unlisted(chats, c) = {} /\ FreshIds # {}
              /\ Persist(With(Unlisted(chats, c), FreshId, <<>>), FreshId)
    BY <1>3 DEF DeleteChat
  <2> DEFINE rest == Unlisted(chats, c)
  <2>2. /\ rest \in HistorySet /\ DOMAIN rest = DOMAIN chats \ {c}
        /\ \A d \in DOMAIN rest : d \in DOMAIN chats /\ rest[d] = chats[d]
    BY <1>0, UnlistedMade
  <2>3. \/ c # current /\ Persist(rest, current)
        \/ \E d \in DOMAIN rest : Persist(rest, d)
        \/ FreshIds # {} /\ Persist(With(rest, FreshId, <<>>), FreshId)
    BY <2>1
  <2> HIDE DEF rest
  <2>4. ASSUME c # current, Persist(rest, current) PROVE \E h, d : Good(h, d)
    <3>1. Good(rest, current)
      BY <1>0, <2>2, <2>4
    <3>2. QED
      BY <3>1
  <2>5. ASSUME NEW d \in DOMAIN rest, Persist(rest, d) PROVE \E h, e : Good(h, e)
    <3>1. Good(rest, d)
      BY <2>2, <2>5
    <3>2. QED
      BY <3>1
  <2>6. ASSUME FreshIds # {}, Persist(With(rest, FreshId, <<>>), FreshId) PROVE \E h, d : Good(h, d)
    <3> DEFINE h == With(rest, FreshId, <<>>)
    <3>1. FreshId \in Conversations
      BY <2>6, FreshIs
    <3>2. /\ h \in HistorySet /\ DOMAIN h = DOMAIN rest \cup {FreshId} /\ h[FreshId] = <<>>
          /\ \A d \in DOMAIN rest : d # FreshId => h[d] = rest[d]
      <4>1. <<>> \in Seq(Turns) /\ rest \in HistorySet
        BY <1>0, <2>2
      <4>2. QED
        BY <3>1, <4>1, WithMade
    <3>3. Persist(h, FreshId)
      BY <2>6
    <3> HIDE DEF h
    <3>4. Good(h, FreshId)
      BY <2>2, <3>2, <3>3
    <3>5. QED
      BY <3>4
  <2>7. QED
    BY <2>3, <2>4, <2>5, <2>6
<1>4. ASSUME ClearChats PROVE \E h, c : Good(h, c)
  <2>1. FreshIds # {} /\ Persist(Blank(FreshId), FreshId)
    BY <1>4 DEF ClearChats
  <2>2. FreshId \in Conversations
    BY <2>1, FreshIs
  <2>3. Blank(FreshId) \in HistorySet /\ DOMAIN Blank(FreshId) = {FreshId} /\ Blank(FreshId)[FreshId] = <<>>
    BY <2>2, BlankMade
  <2>4. Good(Blank(FreshId), FreshId)
    BY <2>1, <2>3
  <2>5. QED
    BY <2>4
<1>5. \E h, c : Good(h, c)
  BY <1>1, <1>2, <1>3, <1>4
<1>6. QED
  BY <1>5

LEMMA TalkIs ==
    ASSUME NEW p \in Prompts, NEW type \in {"token", "rollback", "answered", "refused", "cancelled"}
    PROVE  [type |-> type, of |-> p] \in PanelMessages
  BY DEF PanelMessages, Talk

LEMMA StoppedTypes ==
    ASSUME ChatTypes, StopPrompt
    PROVE  ChatTypes'
<1>1. PICK flushed \in {<<>>, <<[type |-> "token", of |-> awaited]>>} :
         toPanel' = toPanel \o flushed \o <<[type |-> "cancelled", of |-> awaited]>>
  BY DEF StopPrompt
<1>2. awaited \in Prompts
  BY PromptTyped DEF StopPrompt, ChatTypes
<1>3. toPanel' \in Seq(PanelMessages)
  BY <1>1, <1>2, StopPosted
<1>4. stopped' \subseteq Prompts
  BY <1>2 DEF StopPrompt, ChatTypes
<1>5. replies' \in [Prompts -> ReplyStates]
  BY <1>2 DEF StopPrompt, ChatTypes, ReplyStates
<1>6. UNCHANGED <<webviewVars, listingModels, chain, document, loading, askedIn, saveFailed, chatScope>>
  BY DEF StopPrompt
<1>7. QED
  BY <1>3, <1>4, <1>5, <1>6, TypedNext DEF ChatTypes, webviewVars

\* The steps of the user.
LEMMA ConversingTypes ==
    ASSUME ChatTypes, Conversing
    PROVE  ChatTypes'
<1>1. CASE SendPrompt
  <2>1. Submitting(chats[current]) /\ backup' = backup
    BY <1>1 DEF SendPrompt
  <2>2. QED
    BY <2>1, ContextTyped, SubmittedTypes DEF ChatTypes
<1>2. CASE Revise
  <2>1. PICK i \in DOMAIN chats[current] :
           backup' = chats[current] /\ Submitting(SubSeq(chats[current], 1, i - 1))
    BY <1>2 DEF Revise
  <2>2. SubSeq(chats[current], 1, i - 1) \in Seq(Turns) /\ backup' \in Seq(Turns)
    BY <2>1, ContextTyped
  <2>3. QED
    BY <2>1, <2>2, SubmittedTypes
<1>3. CASE RefusedPrompt
  BY <1>3, LiveTyped, PromptTyped, TypedNext DEF RefusedPrompt, ChatTypes, hostVars
<1>4. CASE RefusedRevision
  <2>1. Persist(chats, current) /\ chats \in HistorySet /\ current \in DOMAIN chats
    BY <1>4 DEF RefusedRevision, ChatTypes
  <2>2. dueAnswer' \in 0..MaxPrompts /\ live' \in [waiting : BOOLEAN, painted : BOOLEAN]
    BY <1>4, LiveTyped, PromptTyped DEF RefusedRevision
  <2>3. QED
    BY <1>4, <2>1, <2>2, TurnedTypes DEF RefusedRevision
<1>5. CASE StopPrompt
  BY <1>5, StoppedTypes
<1>6. CASE NewChat \/ SwitchChat \/ DeleteChat \/ ClearChats
  <2>1. PICK h \in HistorySet : \E c \in DOMAIN h : Persist(h, c)
    BY <1>6, Turned
  <2>2. PICK c \in DOMAIN h : Persist(h, c)
    BY <2>1
  <2>3. /\ chatScope' = [chatScope EXCEPT !.commands = @ - 1] /\ live' = [live EXCEPT !.painted = FALSE]
        /\ UNCHANGED <<chatBusy, awaited, dueAnswer, backup, listingModels, replies, toPanel,
                       document, loading, askedIn, stopped, saveFailed>>
    BY <1>6 DEF NewChat, SwitchChat, DeleteChat, ClearChats, ChatCommand
  <2>4. live' \in [waiting : BOOLEAN, painted : BOOLEAN] /\ dueAnswer' \in 0..MaxPrompts
    BY <2>3, LiveTyped DEF ChatTypes
  <2>5. QED
    BY <2>2, <2>3, <2>4, TurnedTypes
<1>7. CASE ListModels
  BY <1>7, TypedNext DEF ListModels, ChatTypes
<1>8. CASE ModelsListed
  BY <1>8, TypedNext DEF ModelsListed, ChatTypes
<1>9. QED
  BY <1>1, <1>2, <1>3, <1>4, <1>5, <1>6, <1>7, <1>8 DEF Conversing

\* The steps of the process of a prompt.
LEMMA ReplyTypes ==
    ASSUME ChatTypes, NEW p \in Prompts, ReplyStep(p)
    PROVE  ChatTypes'
<1>1. HostStep
  BY DEF ReplyStep, Fragment, LastLine, PostResult, BridgeEnds
<1>2. toPanel' \in Seq(PanelMessages)
  <2>1. CASE toPanel' = toPanel
    BY <2>1 DEF ChatTypes
  <2>2. CASE \E type \in {"token", "rollback", "answered", "refused"} : Post([type |-> type, of |-> p])
    <3>1. PICK type \in {"token", "rollback", "answered", "refused"} : Post([type |-> type, of |-> p])
      BY <2>2
    <3>2. [type |-> type, of |-> p] \in PanelMessages
      BY TalkIs
    <3>3. QED
      BY <3>1, <3>2, PostedLast
  <2>3. QED
    BY <2>1, <2>2 DEF ReplyStep, Fragment, LastLine, PostResult, BridgeEnds
<1>3. replies' \in [Prompts -> ReplyStates]
  BY DEF ReplyStep, Fragment, LastLine, PostResult, BridgeEnds, Reply, ReplyStates, ChatTypes
<1>4. QED
  BY <1>1, <1>2, <1>3, TypedNext DEF HostStep, ChatTypes, webviewVars

LEMMA LoadTypes ==
    ASSUME ChatTypes, LoadHistory
    PROVE  ChatTypes'
<1>1. /\ loading' = FALSE
      /\ UNCHANGED <<webviewVars, listingModels, replies, chain, document, askedIn, stopped, saveFailed, chatScope>>
      /\ Post(Loaded(document)) \/ toPanel' = toPanel
  BY DEF LoadHistory, Loaded
<1>2. Loaded(document) \in PanelMessages
  BY DEF ChatTypes, PanelMessages
<1>3. toPanel' \in Seq(PanelMessages)
  BY <1>1, <1>2, PostedLast DEF ChatTypes
<1>4. QED
  BY <1>1, <1>3, TypedNext DEF ChatTypes, webviewVars

\* A save is applied, or refused.
LEMMA Applied ==
    ASSUME ChatTypes, SaveNext
    PROVE  /\ chain # <<>> /\ chain' \in Seq(Saves) /\ chain[1] \in Saves
           /\ chain' = <<>> => Len(chain) = 1
           /\ chain' # <<>> => chain'[Len(chain')] = chain[Len(chain)]
           /\ \/ document' = chain[1] /\ saveFailed' = FALSE
              \/ chatScope.failing /\ document' = document /\ saveFailed' = TRUE
           /\ UNCHANGED <<webviewVars, listingModels, replies, toPanel, loading, askedIn, stopped, chatScope>>
<1>1. chain \in Seq(Saves) /\ chain # <<>> /\ chain' = Tail(chain) /\ Stored(1)
  BY DEF SaveNext, ChatTypes
<1>2. Len(chain) \in Nat /\ Len(chain) # 0
  BY <1>1, LenProperties, EmptySeq
<1>3. /\ chain' \in Seq(Saves) /\ Len(chain') = Len(chain) - 1
      /\ \A i \in 1..Len(chain') : chain'[i] = chain[i + 1]
  BY <1>1, HeadTailProperties
<1>4. chain[1] \in Saves
  BY <1>1, <1>2, ElementOfSeq
<1>5. chain' = <<>> => Len(chain) = 1
  BY <1>2, <1>3, EmptySeq
<1>6. chain' # <<>> => chain'[Len(chain')] = chain[Len(chain)]
  <2>1. chain' # <<>> => Len(chain') # 0
    BY <1>3, EmptySeq
  <2>2. QED
    BY <1>2, <1>3, <2>1
<1>7. /\ \/ document' = chain[1] /\ saveFailed' = FALSE
         \/ chatScope.failing /\ document' = document /\ saveFailed' = TRUE
      /\ UNCHANGED <<webviewVars, listingModels, replies, toPanel, loading, askedIn, stopped, chatScope>>
  BY <1>1 DEF Stored
<1>8. QED
  BY <1>1, <1>3, <1>4, <1>5, <1>6, <1>7

LEMMA SaveTypes ==
    ASSUME ChatTypes, SaveNext
    PROVE  ChatTypes'
<1>1. /\ chain' \in Seq(Saves) /\ chain[1] \in Saves
      /\ \/ document' = chain[1] /\ saveFailed' = FALSE
         \/ document' = document /\ saveFailed' = TRUE
      /\ UNCHANGED <<webviewVars, listingModels, replies, toPanel, loading, askedIn, stopped, chatScope>>
  BY Applied
<1>2. document' \in Documents /\ saveFailed' \in BOOLEAN
  BY <1>1 DEF Saves, ChatTypes
<1>3. QED
  BY <1>1, <1>2, TypedNext DEF ChatTypes, webviewVars

\* What the history that arrives makes of the conversations.
LEMMA HistoryTaken ==
    ASSUME ChatTypes, TakeHistory
    PROVE  /\ toPanel # <<>> /\ toPanel' = Tail(toPanel) /\ Head(toPanel).type = "history"
           /\ chats' \in HistorySet /\ current' \in DOMAIN chats'
           /\ \/ chats' = Head(toPanel).chats
              \/ /\ DOMAIN Head(toPanel).chats = {}
                 /\ DOMAIN chats' = {current'} /\ chats'[current'] = <<>>
           /\ live' = [live EXCEPT !.painted = FALSE]
           /\ UNCHANGED <<listingModels, replies, document, loading, askedIn, stopped, saveFailed, chatScope>>
           /\ UNCHANGED <<chatBusy, awaited, dueAnswer, backup, chain>>
<1>1. /\ toPanel # <<>> /\ toPanel' = Tail(toPanel) /\ Head(toPanel).type = "history"
      /\ live' = [live EXCEPT !.painted = FALSE]
      /\ UNCHANGED <<listingModels, replies, document, loading, askedIn, stopped, saveFailed, chatScope>>
      /\ UNCHANGED <<chatBusy, awaited, dueAnswer, backup, chain>>
  BY DEF TakeHistory, Receive
<1>2. Head(toPanel) \in PanelMessages
  BY <1>1, TakenFirst
<1>3. PICK d \in Documents : Head(toPanel) = Loaded(d)
  BY <1>1, <1>2 DEF PanelMessages, Talk
<1>4. Head(toPanel).chats = d.chats /\ Head(toPanel).current = d.current
  BY <1>3 DEF Loaded
<1>5. d.chats \in HistorySet /\ (DOMAIN d.chats # {} => d.current \in DOMAIN d.chats)
  BY DEF Documents
<1>6. CASE DOMAIN Head(toPanel).chats # {}
  <2>1. chats' = d.chats /\ current' = d.current
    BY <1>4, <1>6 DEF TakeHistory
  <2>2. QED
    BY <1>1, <1>4, <1>5, <1>6, <2>1
<1>7. CASE DOMAIN Head(toPanel).chats = {}
  <2>1. FreshIds # {} /\ chats' = Blank(FreshId) /\ current' = FreshId
    BY <1>7 DEF TakeHistory
  <2>2. FreshId \in Conversations
    BY <2>1, FreshIs
  <2>3. Blank(FreshId) \in HistorySet /\ DOMAIN Blank(FreshId) = {FreshId} /\ Blank(FreshId)[FreshId] = <<>>
    BY <2>2, BlankMade
  <2>4. chats' \in HistorySet /\ DOMAIN chats' = {current'} /\ chats'[current'] = <<>>
    BY <2>1, <2>3
  <2>5. QED
    BY <1>1, <1>7, <2>4
<1>8. QED
  BY <1>6, <1>7

\* What is taken of the messages of a prompt.
LEMMA MessageTaken ==
    ASSUME ChatTypes, NEW type \in {"token", "rollback", "answered", "refused", "cancelled"}, Receive(type)
    PROVE  /\ toPanel # <<>> /\ toPanel' = Tail(toPanel) /\ toPanel' \in Seq(PanelMessages)
           /\ Head(toPanel) = toPanel[1] /\ 1 \in DOMAIN toPanel
           /\ Head(toPanel).type = type /\ Head(toPanel).of \in Prompts
           /\ UNCHANGED <<listingModels, replies, document, loading, askedIn, stopped, saveFailed, chatScope>>
<1>1. /\ toPanel # <<>> /\ toPanel' = Tail(toPanel) /\ Head(toPanel).type = type
      /\ UNCHANGED <<listingModels, replies, document, loading, askedIn, stopped, saveFailed, chatScope>>
  BY DEF Receive
<1>2. /\ toPanel' \in Seq(PanelMessages) /\ Head(toPanel) \in PanelMessages
      /\ Head(toPanel) = toPanel[1] /\ 1 \in DOMAIN toPanel
  BY <1>1, TakenFirst
<1>3. Head(toPanel).of \in Prompts
  <2>1. CASE Head(toPanel) \in Talk
    BY <2>1 DEF Talk
  <2>2. ASSUME NEW d \in Documents, Head(toPanel) = Loaded(d) PROVE FALSE
    BY <1>1, <2>2 DEF Loaded
  <2>3. QED
    BY <1>2, <2>1, <2>2 DEF PanelMessages
<1>4. QED
  BY <1>1, <1>2, <1>3

LEMMA ReceivingTypes ==
    ASSUME ChatTypes, Receiving
    PROVE  ChatTypes'
<1> DEFINE Shown == /\ chats' \in HistorySet /\ current' \in DOMAIN chats' /\ chain' \in Seq(Saves)
                    /\ backup' = NoBackup \/ backup' \in Seq(Turns)
<1>1. ASSUME NotPushed PROVE Shown
  BY <1>1 DEF NotPushed, ChatTypes
<1>2. ASSUME NEW role \in Speakers, NEW p \in 0..MaxPrompts, PushMessage(role, p) PROVE Shown
  BY <1>2, Pushed DEF ChatTypes
<1>3. ASSUME backup # NoBackup, RestoreBackup PROVE Shown
  BY <1>3, PutBack DEF ChatTypes
<1>4. "assistant" \in Speakers /\ "system" \in Speakers /\ 0 \in 0..MaxPrompts
  BY PromptTyped DEF Speakers
<1> HIDE DEF Shown
<1>5. ASSUME TakeFragment PROVE ChatTypes'
  <2>1. PICK type \in {"token", "rollback"} :
           /\ Receive(type)
           /\ LET mine == Awaited(Head(toPanel)) IN
              /\ live' = CASE mine /\ type = "token" -> [live EXCEPT !.waiting = TRUE]
                           [] mine /\ type = "rollback" -> NothingLive
                           [] OTHER -> live
              /\ dueAnswer' = IF mine /\ type = "rollback" THEN 0 ELSE dueAnswer
    BY <1>5 DEF TakeFragment
  <2>2. toPanel' \in Seq(PanelMessages)
        /\ UNCHANGED <<listingModels, replies, document, loading, askedIn, stopped, saveFailed, chatScope>>
    BY <2>1, MessageTaken
  <2>3. live' \in [waiting : BOOLEAN, painted : BOOLEAN] /\ dueAnswer' \in 0..MaxPrompts
    BY <1>4, <2>1, LiveTyped DEF ChatTypes
  <2>4. NotPushed /\ UNCHANGED <<chatBusy, awaited>>
    BY <1>5 DEF TakeFragment
  <2>5. QED
    BY <1>1, <2>2, <2>3, <2>4, TypedNext DEF ChatTypes, Shown
<1>6. ASSUME DropResult PROVE ChatTypes'
  <2>1. PICK type \in {"answered", "refused", "cancelled"} :
           Receive(type) /\ NotPushed /\ UNCHANGED <<chatBusy, awaited, live, dueAnswer>>
    BY <1>6 DEF DropResult
  <2>2. toPanel' \in Seq(PanelMessages)
        /\ UNCHANGED <<listingModels, replies, document, loading, askedIn, stopped, saveFailed, chatScope>>
    BY <2>1, MessageTaken
  <2>3. QED
    BY <1>1, <2>1, <2>2, TypedNext DEF ChatTypes, Shown
<1>7. ASSUME NEW type \in {"answered", "refused", "cancelled"}, Result(type), Shown,
             live' \in [waiting : BOOLEAN, painted : BOOLEAN], dueAnswer' \in 0..MaxPrompts
      PROVE  ChatTypes'
  <2>1. Receive(type) /\ chatBusy' = FALSE /\ awaited' = 0
    BY <1>7 DEF Result
  <2>2. toPanel' \in Seq(PanelMessages)
        /\ UNCHANGED <<listingModels, replies, document, loading, askedIn, stopped, saveFailed, chatScope>>
    BY <2>1, MessageTaken
  <2>3. QED
    BY <1>4, <1>7, <2>1, <2>2, TypedNext DEF ChatTypes, Shown
<1>8. ASSUME NEW type \in {"answered", "refused", "cancelled"}, Result(type)
      PROVE  Head(toPanel).of \in 0..MaxPrompts
  BY <1>8, MessageTaken, PromptTyped DEF Result
<1>9. ASSUME TakeAnswer PROVE ChatTypes'
  <2>1. Result("answered")
    BY <1>9 DEF TakeAnswer
  <2>2. Head(toPanel).of \in 0..MaxPrompts
    BY <1>8, <2>1
  <2>3. \/ dueAnswer' = Head(toPanel).of /\ NotPushed /\ live' = live
        \/ PushMessage("assistant", Head(toPanel).of) /\ live' = NothingLive /\ dueAnswer' = dueAnswer
    BY <1>9 DEF TakeAnswer
  <2>4. Shown
    BY <1>1, <1>2, <1>4, <2>2, <2>3
  <2>5. live' \in [waiting : BOOLEAN, painted : BOOLEAN] /\ dueAnswer' \in 0..MaxPrompts
    BY <2>2, <2>3, LiveTyped DEF ChatTypes
  <2>6. QED
    BY <1>7, <2>1, <2>4, <2>5
<1>10. ASSUME TakeFailure PROVE ChatTypes'
  <2>1. Result("refused") /\ live' = NothingLive /\ dueAnswer' = 0
    BY <1>10 DEF TakeFailure
  <2>2. Head(toPanel).of \in 0..MaxPrompts
    BY <1>8, <2>1
  <2>3. Shown
    BY <1>2, <1>3, <1>4, <1>10, <2>2 DEF TakeFailure
  <2>4. live' \in [waiting : BOOLEAN, painted : BOOLEAN] /\ dueAnswer' \in 0..MaxPrompts
    BY <1>4, <2>1, LiveTyped
  <2>5. QED
    BY <1>7, <2>1, <2>3, <2>4
<1>11. ASSUME TakeStop PROVE ChatTypes'
  <2>1. Result("cancelled") /\ live' = NothingLive /\ dueAnswer' = 0
    BY <1>11 DEF TakeStop
  <2>2. Head(toPanel).of \in 0..MaxPrompts
    BY <1>8, <2>1
  <2>3. Shown
    BY <1>1, <1>2, <1>3, <1>4, <1>11, <2>2 DEF TakeStop
  <2>4. live' \in [waiting : BOOLEAN, painted : BOOLEAN] /\ dueAnswer' \in 0..MaxPrompts
    BY <1>4, <2>1, LiveTyped
  <2>5. QED
    BY <1>7, <2>1, <2>3, <2>4
<1>12. ASSUME TakeHistory PROVE ChatTypes'
  <2>1. /\ toPanel # <<>> /\ toPanel' = Tail(toPanel)
        /\ chats' \in HistorySet /\ current' \in DOMAIN chats'
        /\ live' = [live EXCEPT !.painted = FALSE]
        /\ UNCHANGED <<listingModels, replies, document, loading, askedIn, stopped, saveFailed, chatScope>>
        /\ UNCHANGED <<chatBusy, awaited, dueAnswer, backup, chain>>
    BY <1>12, HistoryTaken
  <2>2. toPanel' \in Seq(PanelMessages)
    BY <2>1, TakenFirst
  <2>3. QED
    BY <2>1, <2>2, LiveTyped, TypedNext DEF ChatTypes
<1>13. ASSUME Paint PROVE ChatTypes'
  <2>1. \/ PushMessage("assistant", dueAnswer) /\ live' = NothingLive /\ dueAnswer' = 0
        \/ live' = [waiting |-> FALSE, painted |-> TRUE] /\ NotPushed /\ dueAnswer' = dueAnswer
    BY <1>13 DEF Paint
  <2>2. UNCHANGED <<chatBusy, awaited, listingModels, replies, toPanel, document, loading,
                    askedIn, stopped, saveFailed, chatScope>>
    BY <1>13 DEF Paint
  <2>3. dueAnswer \in 0..MaxPrompts
    BY DEF ChatTypes
  <2>4. Shown
    BY <1>1, <1>2, <1>4, <2>1, <2>3
  <2>5. live' \in [waiting : BOOLEAN, painted : BOOLEAN] /\ dueAnswer' \in 0..MaxPrompts
    BY <1>4, <2>1, <2>3, LiveTyped
  <2>6. QED
    BY <2>2, <2>4, <2>5, TypedNext DEF ChatTypes, Shown
<1>14. QED
  BY <1>5, <1>6, <1>9, <1>10, <1>11, <1>12, <1>13 DEF Receiving

LEMMA ChatTypesKept ==
    ASSUME ChatTypes, [ChatNext]_chatVars
    PROVE  ChatTypes'
<1>1. CASE Conversing
  BY <1>1, ConversingTypes
<1>2. ASSUME NEW p \in Prompts, ReplyStep(p) PROVE ChatTypes'
  BY <1>2, ReplyTypes
<1>3. CASE LoadHistory
  BY <1>3, LoadTypes
<1>4. CASE SaveNext
  BY <1>4, SaveTypes
<1>5. CASE Receiving
  BY <1>5, ReceivingTypes
<1>6. CASE UNCHANGED chatVars
  BY <1>6, TypedNext DEF ChatTypes, chatVars, webviewVars, hostVars
<1>7. QED
  BY <1>1, <1>2, <1>3, <1>4, <1>5, <1>6 DEF ChatNext

-----------------------------------------------------------------------------
(* What is awaited comes *)

OnItsWay ==
    \E i \in DOMAIN toPanel :
        toPanel[i].of = awaited /\ toPanel[i].type \in {"answered", "refused", "cancelled"}

LEMMA OwedIs ==
    OwedInv <=> /\ chatBusy <=> listingModels \/ awaited # 0
                /\ awaited # 0 => replies[awaited] \in {"running", "answered", "refused"} \/ OnItsWay
                /\ listingModels => awaited = 0
  BY DEF OwedInv, AnswerOwed, OnItsWay

\* What is on its way stays there when messages are added, or when the first one is
\* not the result awaited.
LEMMA StillOnItsWay ==
    ASSUME ChatTypes, OnItsWay, awaited' = awaited,
           \/ \A i \in DOMAIN toPanel : i \in DOMAIN toPanel' /\ toPanel'[i] = toPanel[i]
           \/ /\ toPanel # <<>> /\ toPanel' = Tail(toPanel)
              /\ Head(toPanel).type \in {"answered", "refused", "cancelled"} => Head(toPanel).of # awaited
    PROVE  OnItsWay'
<1>1. PICK i \in DOMAIN toPanel :
         toPanel[i].of = awaited /\ toPanel[i].type \in {"answered", "refused", "cancelled"}
  BY DEF OnItsWay
<1>2. CASE i \in DOMAIN toPanel' /\ toPanel'[i] = toPanel[i]
  BY <1>1, <1>2 DEF OnItsWay
<1>3. ASSUME toPanel # <<>>, toPanel' = Tail(toPanel),
             Head(toPanel).type \in {"answered", "refused", "cancelled"} => Head(toPanel).of # awaited
      PROVE  OnItsWay'
  <2>1. Head(toPanel) = toPanel[1]
        /\ \A j \in DOMAIN toPanel : j = 1 \/ (j - 1 \in DOMAIN toPanel' /\ toPanel'[j - 1] = toPanel[j])
    BY <1>3, TakenFirst
  <2>2. i - 1 \in DOMAIN toPanel' /\ toPanel'[i - 1] = toPanel[i]
    BY <1>1, <1>3, <2>1
  <2>3. QED
    BY <1>1, <2>2 DEF OnItsWay
<1>4. QED
  BY <1>2, <1>3

LEMMA OwedSubmitted ==
    ASSUME ChatTypes, OwedInv, NEW before \in Seq(Turns), Submitting(before)
    PROVE  OwedInv'
<1>1. ~chatBusy
  BY Submitted
<1>2. PICK p \in Prompts : awaited' = p /\ replies' = [replies EXCEPT ![p] = "running"]
  BY Submitted
<1>3. chatBusy' = TRUE /\ listingModels' = listingModels
  BY Submitted
<1>4. replies'[p] = "running" /\ p # 0
  BY <1>2, PromptTyped DEF ChatTypes
<1>5. ~listingModels
  BY <1>1, OwedIs
<1>6. QED
  BY <1>2, <1>3, <1>4, <1>5 DEF OwedInv, AnswerOwed

\* Neither who is awaited nor its process changes.
LEMMA OwedSame ==
    ASSUME ChatTypes, OwedInv, chatBusy' = chatBusy, listingModels' = listingModels, awaited' = awaited,
           replies' = replies,
           \/ \A i \in DOMAIN toPanel : i \in DOMAIN toPanel' /\ toPanel'[i] = toPanel[i]
           \/ /\ toPanel # <<>> /\ toPanel' = Tail(toPanel)
              /\ Head(toPanel).type \in {"answered", "refused", "cancelled"} => Head(toPanel).of # awaited
    PROVE  OwedInv'
<1>1. OnItsWay => OnItsWay'
  BY StillOnItsWay
<1>2. /\ chatBusy <=> listingModels \/ awaited # 0
      /\ awaited # 0 => replies[awaited] \in {"running", "answered", "refused"} \/ OnItsWay
      /\ listingModels => awaited = 0
  BY OwedIs
<1>3. /\ chatBusy' <=> listingModels' \/ awaited' # 0
      /\ awaited' # 0 => replies'[awaited'] \in {"running", "answered", "refused"} \/ OnItsWay'
      /\ listingModels' => awaited' = 0
  BY <1>1, <1>2
<1>4. QED
  BY <1>3 DEF OwedInv, AnswerOwed, OnItsWay

LEMMA OwedConversing ==
    ASSUME ChatTypes, OwedInv, Conversing
    PROVE  OwedInv'
<1>1. CASE SendPrompt
  BY <1>1, ContextTyped, OwedSubmitted DEF SendPrompt
<1>2. CASE Revise
  <2>1. PICK i \in DOMAIN chats[current] : Submitting(SubSeq(chats[current], 1, i - 1))
    BY <1>2 DEF Revise
  <2>2. SubSeq(chats[current], 1, i - 1) \in Seq(Turns)
    BY ContextTyped
  <2>3. QED
    BY <2>1, <2>2, OwedSubmitted
<1>3. CASE RefusedPrompt \/ RefusedRevision \/ NewChat \/ SwitchChat \/ DeleteChat \/ ClearChats
  <2>1. UNCHANGED <<chatBusy, awaited, listingModels, replies, toPanel>>
    BY <1>3 DEF RefusedPrompt, RefusedRevision, NewChat, SwitchChat, DeleteChat, ClearChats, hostVars
  <2>2. QED
    BY <2>1, OwedSame
<1>4. CASE StopPrompt
  <2>1. PICK flushed \in {<<>>, <<[type |-> "token", of |-> awaited]>>} :
           toPanel' = toPanel \o flushed \o <<[type |-> "cancelled", of |-> awaited]>>
    BY <1>4 DEF StopPrompt
  <2>2. awaited \in Prompts
    BY <1>4, PromptTyped DEF StopPrompt, ChatTypes
  <2>3. PICK i \in DOMAIN toPanel' : toPanel'[i] = [type |-> "cancelled", of |-> awaited]
    BY <2>1, <2>2, StopPosted
  <2>4. UNCHANGED <<chatBusy, awaited, listingModels>>
    BY <1>4 DEF StopPrompt, webviewVars
  <2>5. toPanel'[i].of = awaited' /\ toPanel'[i].type = "cancelled"
    BY <2>3, <2>4
  <2>6. OnItsWay'
    BY <2>5 DEF OnItsWay
  <2>7. QED
    BY <2>4, <2>6 DEF OwedInv, AnswerOwed, OnItsWay
<1>5. CASE ListModels
  BY <1>5 DEF ListModels, OwedInv, AnswerOwed
<1>6. CASE ModelsListed
  BY <1>6 DEF ModelsListed, OwedInv, AnswerOwed
<1>7. QED
  BY <1>1, <1>2, <1>3, <1>4, <1>5, <1>6 DEF Conversing

LEMMA OwedReply ==
    ASSUME ChatTypes, OwedInv, NEW p \in Prompts, ReplyStep(p)
    PROVE  OwedInv'
<1>1. UNCHANGED <<chatBusy, awaited, listingModels>>
  BY DEF ReplyStep, Fragment, LastLine, PostResult, BridgeEnds, HostStep, webviewVars
<1>2. ASSUME NEW type \in {"token", "rollback", "answered", "refused"}, Post([type |-> type, of |-> p])
      PROVE  /\ \A i \in DOMAIN toPanel : i \in DOMAIN toPanel' /\ toPanel'[i] = toPanel[i]
             /\ type \in {"answered", "refused"} /\ p = awaited => OnItsWay'
  <2> DEFINE m == [type |-> type, of |-> p]
  <2>1. m \in PanelMessages /\ m.type = type /\ m.of = p /\ Post(m)
    BY <1>2, TalkIs
  <2> HIDE DEF m
  <2>2. /\ toPanel' \in Seq(PanelMessages) /\ Len(toPanel') = Len(toPanel) + 1 /\ Len(toPanel) \in Nat
        /\ toPanel'[Len(toPanel')] = m
        /\ \A i \in DOMAIN toPanel : i \in DOMAIN toPanel' /\ toPanel'[i] = toPanel[i]
    BY <2>1, PostedLast
  <2>3. Len(toPanel') \in DOMAIN toPanel'
    BY <2>2, LenProperties
  <2>4. QED
    BY <1>1, <2>1, <2>2, <2>3 DEF OnItsWay
<1>3. \A i \in DOMAIN toPanel : i \in DOMAIN toPanel' /\ toPanel'[i] = toPanel[i]
  <2>1. CASE toPanel' = toPanel
    BY <2>1
  <2>2. CASE \E type \in {"token", "rollback", "answered", "refused"} : Post([type |-> type, of |-> p])
    BY <1>2, <2>2
  <2>3. QED
    BY <2>1, <2>2 DEF ReplyStep, Fragment, LastLine, PostResult, BridgeEnds
<1>4. CASE replies' = replies \/ p # awaited
  <2>1. awaited # 0 => replies'[awaited] = replies[awaited]
    <3>1. replies' = replies \/ \E to \in ReplyStates : replies' = [replies EXCEPT ![p] = to]
      BY DEF ReplyStep, Fragment, LastLine, PostResult, BridgeEnds, Reply, ReplyStates
    <3>2. awaited # 0 => awaited \in Prompts
      BY PromptTyped DEF ChatTypes
    <3>3. QED
      BY <1>4, <3>1, <3>2 DEF ChatTypes
  <2>2. OnItsWay => OnItsWay'
    BY <1>1, <1>3, StillOnItsWay
  <2>3. /\ chatBusy' <=> listingModels' \/ awaited' # 0
        /\ awaited' # 0 => replies'[awaited'] \in {"running", "answered", "refused"} \/ OnItsWay'
        /\ listingModels' => awaited' = 0
    BY <1>1, <2>1, <2>2, OwedIs
  <2>4. QED
    BY <2>3 DEF OwedInv, AnswerOwed, OnItsWay
<1>5. CASE p = awaited /\ replies' # replies
  <2>1. replies'[awaited] \in {"running", "answered", "refused"} \/ OnItsWay'
    <3>1. CASE Fragment(p)
      BY <1>5, <3>1 DEF Fragment
    <3>2. CASE LastLine(p)
      BY <1>5, <3>2 DEF LastLine, Reply, ChatTypes
    <3>3. CASE PostResult(p)
      <4>1. replies[p] \in {"answered", "refused"} /\ Post([type |-> replies[p], of |-> p])
        BY <3>3 DEF PostResult
      <4>2. QED
        BY <1>2, <1>5, <4>1
    <3>4. CASE Reply(p, {"running"}, "over") /\ Post([type |-> "refused", of |-> p])
      BY <1>2, <1>5, <3>4
    <3>5. CASE Reply(p, {"killed"}, "over") /\ UNCHANGED toPanel
      <4>1. replies[awaited] = "killed"
        BY <1>5, <3>5 DEF Reply
      <4>2. OnItsWay
        BY <1>5, <4>1, OwedIs, PromptTyped
      <4>3. QED
        BY <1>1, <1>3, <4>2, StillOnItsWay
    <3>6. QED
      BY <3>1, <3>2, <3>3, <3>4, <3>5 DEF ReplyStep, BridgeEnds
  <2>2. /\ chatBusy' <=> listingModels' \/ awaited' # 0
        /\ awaited' # 0 => replies'[awaited'] \in {"running", "answered", "refused"} \/ OnItsWay'
        /\ listingModels' => awaited' = 0
    BY <1>1, <2>1, OwedIs
  <2>3. QED
    BY <2>2 DEF OwedInv, AnswerOwed, OnItsWay
<1>6. QED
  BY <1>4, <1>5

LEMMA OwedReceiving ==
    ASSUME ChatTypes, OwedInv, Receiving
    PROVE  OwedInv'
<1>1. CASE TakeFragment
  <2>1. PICK type \in {"token", "rollback"} : Receive(type)
    BY <1>1 DEF TakeFragment
  <2>2. toPanel # <<>> /\ toPanel' = Tail(toPanel) /\ Head(toPanel).type = type
        /\ UNCHANGED <<listingModels, replies>>
    BY <2>1 DEF Receive
  <2>3. UNCHANGED <<chatBusy, awaited>>
    BY <1>1 DEF TakeFragment
  <2>4. QED
    BY <2>2, <2>3, OwedSame
<1>2. CASE DropResult
  <2>1. PICK type \in {"answered", "refused", "cancelled"} : Receive(type) /\ ~Awaited(Head(toPanel))
    BY <1>2 DEF DropResult
  <2>2. toPanel # <<>> /\ toPanel' = Tail(toPanel) /\ Head(toPanel).of # awaited
        /\ UNCHANGED <<listingModels, replies>>
    BY <2>1 DEF Receive, Awaited
  <2>3. UNCHANGED <<chatBusy, awaited>>
    BY <1>2 DEF DropResult
  <2>4. QED
    BY <2>2, <2>3, OwedSame
<1>3. CASE TakeAnswer \/ TakeFailure \/ TakeStop
  <2>1. PICK type \in {"answered", "refused", "cancelled"} : Result(type)
    BY <1>3 DEF TakeAnswer, TakeFailure, TakeStop
  <2>2. Receive(type) /\ Head(toPanel).of = awaited /\ chatBusy' = FALSE /\ awaited' = 0
    BY <2>1 DEF Result, Awaited
  <2>3. awaited \in Prompts /\ listingModels' = listingModels
    BY <2>2, MessageTaken
  <2>4. ~listingModels
    BY <2>3, OwedIs, PromptTyped
  <2>5. QED
    BY <2>2, <2>3, <2>4 DEF OwedInv, AnswerOwed
<1>4. CASE TakeHistory
  <2>1. toPanel # <<>> /\ toPanel' = Tail(toPanel) /\ Head(toPanel).type = "history"
        /\ UNCHANGED <<listingModels, replies, chatBusy, awaited>>
    BY <1>4, HistoryTaken
  <2>2. QED
    BY <2>1, OwedSame
<1>5. CASE Paint
  <2>1. UNCHANGED <<chatBusy, awaited, listingModels, replies, toPanel>>
    BY <1>5 DEF Paint
  <2>2. QED
    BY <2>1, OwedSame
<1>6. QED
  BY <1>1, <1>2, <1>3, <1>4, <1>5 DEF Receiving

LEMMA OwedKept ==
    ASSUME ChatTypes, OwedInv, [ChatNext]_chatVars
    PROVE  OwedInv'
<1>1. CASE Conversing
  BY <1>1, OwedConversing
<1>2. ASSUME NEW p \in Prompts, ReplyStep(p) PROVE OwedInv'
  BY <1>2, OwedReply
<1>3. CASE LoadHistory
  <2>1. UNCHANGED <<chatBusy, awaited, listingModels, replies>>
    BY <1>3 DEF LoadHistory, webviewVars
  <2>2. Post(Loaded(document)) \/ toPanel' = toPanel
    BY <1>3 DEF LoadHistory, Loaded
  <2>3. Loaded(document) \in PanelMessages
    BY DEF ChatTypes, PanelMessages
  <2>4. \A i \in DOMAIN toPanel : i \in DOMAIN toPanel' /\ toPanel'[i] = toPanel[i]
    BY <2>2, <2>3, PostedLast
  <2>5. QED
    BY <2>1, <2>4, OwedSame
<1>4. CASE SaveNext
  <2>1. UNCHANGED <<chatBusy, awaited, listingModels, replies, toPanel>>
    BY <1>4 DEF SaveNext, Stored, webviewVars
  <2>2. QED
    BY <2>1, OwedSame
<1>5. CASE Receiving
  BY <1>5, OwedReceiving
<1>6. CASE UNCHANGED chatVars
  <2>1. UNCHANGED <<chatBusy, awaited, listingModels, replies, toPanel>>
    BY <1>6 DEF chatVars, webviewVars, hostVars
  <2>2. QED
    BY <2>1, OwedSame
<1>7. QED
  BY <1>1, <1>2, <1>3, <1>4, <1>5, <1>6 DEF ChatNext

-----------------------------------------------------------------------------
(* The stored history arrives; saves *)

LEMMA ChatScopeKept ==
    ASSUME ChatTypes, [ChatNext]_chatVars
    PROVE  /\ chatScope'.late = chatScope.late /\ chatScope'.slow = chatScope.slow
           /\ chatScope'.failing = chatScope.failing
<1>1. chatScope' = chatScope \/ chatScope' = [chatScope EXCEPT !.commands = @ - 1]
  <2>1. CASE Conversing
    BY <2>1 DEF Conversing, SendPrompt, Revise, Submitting, RefusedPrompt, RefusedRevision, StopPrompt,
                NewChat, SwitchChat, DeleteChat, ClearChats, ChatCommand, ListModels, ModelsListed
  <2>2. ASSUME NEW p \in Prompts, ReplyStep(p) PROVE chatScope' = chatScope
    BY <2>2 DEF ReplyStep, Fragment, LastLine, PostResult, BridgeEnds, HostStep
  <2>3. CASE LoadHistory \/ SaveNext \/ UNCHANGED chatVars
    BY <2>3 DEF LoadHistory, SaveNext, Stored, chatVars
  <2>4. CASE Receiving
    BY <2>4 DEF Receiving, TakeFragment, DropResult, TakeAnswer, TakeFailure, TakeStop, TakeHistory,
                Result, Receive, Paint
  <2>5. QED
    BY <2>1, <2>2, <2>3, <2>4 DEF ChatNext
<1>2. QED
  BY <1>1, ScopeSpent

\* Nothing of this session has been said.
Unsaid ==
    /\ awaited = 0 /\ dueAnswer = 0 /\ backup = NoBackup
    /\ \A i \in DOMAIN toPanel : toPanel[i].type = "history"
    /\ \A c \in DOMAIN chats : \A i \in DOMAIN chats[c] : chats[c][i].of = 0

LEMMA UnsaidInPlace ==
    ASSUME Unsaid
    PROVE  InPlace
  BY DEF Unsaid, InPlace, LastWords, TurnsPlaced, Placed

LEMMA ArrivingIs ==
    ASSUME Arriving
    PROVE  Unsaid /\ (\/ loading /\ toPanel = <<>>
                      \/ /\ ~loading /\ toPanel = <<Loaded(document)>> /\ Head(toPanel) = Loaded(document)
                         /\ Tail(toPanel) = <<>>)
<1>1. \A c \in DOMAIN chats : \A i \in DOMAIN chats[c] : chats[c][i].of = 0
  BY DEF Arriving
<1>2. CASE loading /\ toPanel = <<>>
  BY <1>1, <1>2 DEF Unsaid, Arriving
<1>3. CASE ~loading /\ toPanel = <<Loaded(document)>>
  <2> DEFINE m == Loaded(document)
  <2>1. m.type = "history"
    BY DEF Loaded
  <2> HIDE DEF m
  <2>2. toPanel = <<m>> /\ DOMAIN toPanel = {1} /\ toPanel[1] = m /\ Head(toPanel) = m /\ Tail(toPanel) = <<>>
    <3>1. toPanel = <<m>>
      BY <1>3 DEF m
    <3>2. Tail(toPanel) = <<>>
      BY <3>1
    <3>3. QED
      BY <3>1, <3>2
  <2>3. \A i \in DOMAIN toPanel : toPanel[i].type = "history"
    BY <2>1, <2>2
  <2>4. Unsaid
    BY <1>1, <2>3 DEF Unsaid, Arriving
  <2>5. QED
    BY <1>3, <2>2, <2>4 DEF m
<1>4. QED
  BY <1>2, <1>3 DEF Arriving

\* Until then the user waits, and only the models are listed.
LEMMA ArrivingStep ==
    ASSUME ChatTypes, ~chatScope.late, Arriving, [ChatNext]_chatVars
    PROVE  /\ Arriving' \/ Arrived'
           /\ Unsaid'
           /\ ~chatScope.failing /\ Arrived' => SavedLast'
<1>1. /\ ~HistoryThere /\ Unsaid
      /\ \/ loading /\ toPanel = <<>>
         \/ /\ ~loading /\ toPanel = <<Loaded(document)>> /\ Head(toPanel) = Loaded(document)
            /\ Tail(toPanel) = <<>>
  <2>1. ASSUME toPanel = <<Loaded(document)>> PROVE ~HistoryThere
    <3> DEFINE m == Loaded(document)
    <3>1. m.type = "history" /\ toPanel = <<m>>
      BY <2>1 DEF Loaded
    <3> HIDE DEF m
    <3>2. 1 \in DOMAIN toPanel /\ toPanel[1].type = "history"
      BY <3>1
    <3>3. QED
      BY <3>2 DEF HistoryThere
  <2>2. ASSUME loading PROVE ~HistoryThere
    BY <2>2 DEF HistoryThere
  <2>3. QED
    BY <2>1, <2>2, ArrivingIs
<1>2. ASSUME UNCHANGED <<chats, awaited, live, dueAnswer, backup, replies, toPanel, chain, document, loading>>
      PROVE  Arriving' /\ ~Arrived'
  <2>1. Arriving'
    BY <1>2 DEF Arriving
  <2>2. ~Arrived
    BY <1>1 DEF HistoryThere, Arrived
  <2>3. QED
    BY <1>2, <2>1, <2>2 DEF Arrived
<1>3. ASSUME Arriving' PROVE Unsaid'
  BY <1>3 DEF Arriving, Unsaid, Loaded
<1>4. CASE Conversing
  <2>1. ListModels \/ ModelsListed
    BY <1>1, <1>4 DEF Conversing, SendPrompt, Revise, Submitting, RefusedPrompt, RefusedRevision, StopPrompt,
                      NewChat, SwitchChat, DeleteChat, ClearChats, ChatCommand, Unsaid
  <2>2. QED
    BY <1>2, <1>3, <2>1 DEF ListModels, ModelsListed
<1>5. ASSUME NEW p \in Prompts, ReplyStep(p) PROVE FALSE
  <2>1. replies[p] = "none"
    BY DEF Arriving
  <2>2. QED
    BY <1>5, <2>1 DEF ReplyStep, Fragment, LastLine, PostResult, BridgeEnds, Reply
<1>6. CASE LoadHistory
  <2>1. /\ loading /\ loading' = FALSE
        /\ UNCHANGED <<chats, awaited, live, dueAnswer, backup, replies, chain, document>>
        /\ toPanel' = Append(toPanel, Loaded(document)) \/ (chatScope.failing /\ toPanel' = toPanel)
    BY <1>6 DEF LoadHistory, Loaded, webviewVars, Post
  <2>2. toPanel = <<>>
    BY <1>1, <2>1
  <2>3. ASSUME toPanel' = Append(toPanel, Loaded(document)) PROVE Arriving' /\ ~Arrived'
    <3> DEFINE m == Loaded(document)
    <3>1. m.type = "history" /\ toPanel' = Append(toPanel, m)
      BY <2>3 DEF Loaded
    <3>2. m = Loaded(document')
      BY <2>1
    <3> HIDE DEF m
    <3>3. toPanel' = <<m>>
      BY <2>2, <3>1
    <3>4. Arriving'
      BY <2>1, <3>2, <3>3 DEF Arriving, Loaded
    <3>5. 1 \in DOMAIN toPanel' /\ toPanel'[1].type = "history"
      BY <3>1, <3>3
    <3>6. QED
      BY <3>4, <3>5 DEF Arrived
  <2>4. ASSUME chatScope.failing, toPanel' = toPanel PROVE Arrived' /\ Unsaid'
    <3>1. Arrived'
      BY <2>1, <2>2, <2>4 DEF Arrived
    <3>2. Unsaid'
      BY <1>1, <2>1, <2>4 DEF Unsaid
    <3>3. QED
      BY <3>1, <3>2
  <2>5. QED
    BY <1>3, <2>1, <2>3, <2>4
<1>7. CASE SaveNext
  BY <1>7 DEF SaveNext, Arriving
<1>8. CASE Receiving
  <2>1. CASE Paint
    BY <2>1 DEF Paint, Arriving, NothingLive
  <2>2. ASSUME NEW type \in {"token", "rollback", "answered", "refused", "cancelled"}, Receive(type) PROVE FALSE
    <3>1. toPanel # <<>> /\ Head(toPanel).type = type
      BY <2>2 DEF Receive
    <3>2. Head(toPanel) = Loaded(document)
      BY <1>1, <3>1
    <3>3. QED
      BY <3>1, <3>2 DEF Loaded
  <2>3. CASE TakeHistory
    <3>1. /\ toPanel # <<>> /\ toPanel' = Tail(toPanel)
          /\ chats' \in HistorySet
          /\ \/ chats' = Head(toPanel).chats
             \/ /\ DOMAIN Head(toPanel).chats = {}
                /\ DOMAIN chats' = {current'} /\ chats'[current'] = <<>>
          /\ UNCHANGED <<document, loading>>
          /\ UNCHANGED <<awaited, dueAnswer, backup, chain>>
      BY <2>3, HistoryTaken
    <3>2. Head(toPanel) = Loaded(document) /\ toPanel' = <<>> /\ ~loading
      BY <1>1, <3>1
    <3>3. Head(toPanel).chats = document.chats
      BY <3>2 DEF Loaded
    <3>4. Arrived'
      BY <3>1, <3>2 DEF Arrived
    <3>5. Unsaid'
      <4>1. \A c \in DOMAIN chats' : \A i \in DOMAIN chats'[c] : chats'[c][i].of = 0
        <5>1. CASE chats' = document.chats
          BY <5>1 DEF Arriving
        <5>2. CASE DOMAIN chats' = {current'} /\ chats'[current'] = <<>>
          BY <5>2
        <5>3. QED
          BY <3>1, <3>3, <5>1, <5>2
      <4>2. QED
        BY <1>1, <3>1, <3>2, <4>1 DEF Unsaid
    <3>6. Alike(chats', document'.chats)
      BY <3>1, <3>3 DEF Alike
    <3>7. chain' = <<>>
      BY <3>1 DEF Arriving
    <3>8. SavedLast'
      BY <3>6, <3>7 DEF SavedLast, Alike
    <3>9. QED
      BY <3>4, <3>5, <3>8
  <2>4. QED
    BY <1>8, <2>1, <2>2, <2>3 DEF Receiving, TakeFragment, DropResult, TakeAnswer, TakeFailure, TakeStop, Result
<1>9. CASE UNCHANGED chatVars
  BY <1>2, <1>3, <1>9 DEF chatVars, webviewVars, hostVars
<1>10. QED
  BY <1>4, <1>5, <1>6, <1>7, <1>8, <1>9 DEF ChatNext

\* It arrives once.
LEMMA ArrivedKept ==
    ASSUME ChatTypes, Arrived, [ChatNext]_chatVars
    PROVE  Arrived'
<1> DEFINE Kept == /\ loading' = loading
                   /\ \A i \in DOMAIN toPanel' :
                         \/ \E j \in DOMAIN toPanel : toPanel'[i] = toPanel[j]
                         \/ toPanel'[i].type # "history"
<1>1. ASSUME Kept PROVE Arrived'
  BY <1>1 DEF Arrived
<1>2. ASSUME loading' = loading, toPanel' = toPanel PROVE Kept
  BY <1>2
<1>3. ASSUME loading' = loading, toPanel # <<>>, toPanel' = Tail(toPanel) PROVE Kept
  BY <1>3, TakenFirst
<1>4. ASSUME loading' = loading, NEW m \in PanelMessages, m.type # "history", Post(m) PROVE Kept
  BY <1>4, PostedLast
<1> HIDE DEF Kept
<1>5. CASE Conversing
  <2>1. CASE StopPrompt
    <3>1. PICK flushed \in {<<>>, <<[type |-> "token", of |-> awaited]>>} :
             toPanel' = toPanel \o flushed \o <<[type |-> "cancelled", of |-> awaited]>>
      BY <2>1 DEF StopPrompt
    <3>2. awaited \in Prompts /\ loading' = loading
      BY <2>1, PromptTyped DEF StopPrompt, ChatTypes
    <3>3. /\ \A i \in DOMAIN toPanel : i \in DOMAIN toPanel' /\ toPanel'[i] = toPanel[i]
          /\ \A i \in DOMAIN toPanel' :
                \/ i \in DOMAIN toPanel
                \/ toPanel'[i] = [type |-> "cancelled", of |-> awaited]
                \/ flushed # <<>> /\ toPanel'[i] = [type |-> "token", of |-> awaited]
      BY <3>1, <3>2, StopPosted
    <3>4. Kept
      BY <3>2, <3>3 DEF Kept
    <3>5. QED
      BY <1>1, <3>4
  <2>2. CASE ~StopPrompt
    BY <1>1, <1>2, <1>5, <2>2 DEF Conversing, SendPrompt, Revise, Submitting, RefusedPrompt, RefusedRevision,
          NewChat, SwitchChat, DeleteChat, ClearChats, ListModels, ModelsListed, hostVars
  <2>3. QED
    BY <2>1, <2>2
<1>6. ASSUME NEW p \in Prompts, ReplyStep(p) PROVE Arrived'
  <2>1. loading' = loading
    BY <1>6 DEF ReplyStep, Fragment, LastLine, PostResult, BridgeEnds, HostStep
  <2>2. ASSUME NEW type \in {"token", "rollback", "answered", "refused"}, Post([type |-> type, of |-> p])
        PROVE  Kept
    <3> DEFINE m == [type |-> type, of |-> p]
    <3>1. m \in PanelMessages /\ m.type # "history" /\ Post(m)
      BY <2>2, TalkIs
    <3> HIDE DEF m
    <3>2. QED
      BY <1>4, <2>1, <3>1
  <2>3. Kept
    <3>1. toPanel' = toPanel \/ \E type \in {"token", "rollback", "answered", "refused"} : Post([type |-> type, of |-> p])
      BY <1>6 DEF ReplyStep, Fragment, LastLine, PostResult, BridgeEnds
    <3>2. QED
      BY <1>2, <2>1, <2>2, <3>1
  <2>4. QED
    BY <1>1, <2>3
<1>7. CASE LoadHistory
  BY <1>7 DEF LoadHistory, Arrived
<1>8. CASE SaveNext
  BY <1>1, <1>2, <1>8 DEF SaveNext, Stored
<1>9. CASE Receiving
  <2>1. CASE Paint
    BY <1>1, <1>2, <2>1 DEF Paint
  <2>2. CASE ~Paint
    BY <1>1, <1>3, <1>9, <2>2 DEF Receiving, TakeFragment, DropResult, TakeAnswer, TakeFailure, TakeStop,
          TakeHistory, Result, Receive
  <2>3. QED
    BY <2>1, <2>2
<1>10. CASE UNCHANGED chatVars
  BY <1>1, <1>2, <1>10 DEF chatVars, hostVars
<1>11. QED
  BY <1>5, <1>6, <1>7, <1>8, <1>9, <1>10 DEF ChatNext

\* What is shown is saved whenever it changes.
LEMMA SavedStep ==
    ASSUME ChatTypes, Arrived, [ChatNext]_chatVars, ~SaveNext
    PROVE  /\ document' = document
           /\ \/ chats' = chats /\ chain' = chain
              \/ chain' # <<>> /\ chain'[Len(chain')].chats = chats'
<1> DEFINE Good == \/ chats' = chats /\ chain' = chain
                   \/ chain' # <<>> /\ chain'[Len(chain')].chats = chats'
<1>1. document' = document
  BY DEF ChatNext, Conversing, SendPrompt, Revise, Submitting, RefusedPrompt, RefusedRevision, StopPrompt,
         NewChat, SwitchChat, DeleteChat, ClearChats, ListModels, ModelsListed, hostVars,
         ReplyStep, Fragment, LastLine, PostResult, BridgeEnds, HostStep, LoadHistory, chatVars,
         Receiving, TakeFragment, DropResult, TakeAnswer, TakeFailure, TakeStop, TakeHistory,
         Result, Receive, Paint
<1>2. CASE Conversing
  <2>1. CASE SendPrompt
    BY <1>1, <2>1, ContextTyped, Submitted DEF SendPrompt
  <2>2. CASE Revise
    <3>1. PICK i \in DOMAIN chats[current] : Submitting(SubSeq(chats[current], 1, i - 1))
      BY <2>2 DEF Revise
    <3>2. SubSeq(chats[current], 1, i - 1) \in Seq(Turns)
      BY ContextTyped
    <3>3. QED
      BY <1>1, <3>1, <3>2, Submitted
  <2>3. CASE RefusedRevision
    <3>1. Persist(chats, current) /\ chats \in HistorySet /\ current \in DOMAIN chats
      BY <2>3 DEF RefusedRevision, ChatTypes
    <3>2. QED
      BY <1>1, <3>1, Persisted
  <2>4. CASE NewChat \/ SwitchChat \/ DeleteChat \/ ClearChats
    <3>1. PICK h \in HistorySet : \E c \in DOMAIN h : Persist(h, c)
      BY <2>4, Turned
    <3>2. PICK c \in DOMAIN h : Persist(h, c)
      BY <3>1
    <3>3. QED
      BY <1>1, <3>2, Persisted
  <2>5. CASE RefusedPrompt \/ StopPrompt \/ ListModels \/ ModelsListed
    BY <1>1, <2>5 DEF RefusedPrompt, StopPrompt, ListModels, ModelsListed, hostVars, webviewVars
  <2>6. QED
    BY <1>1, <1>2, <2>1, <2>2, <2>3, <2>4, <2>5 DEF Conversing
<1>3. ASSUME NEW p \in Prompts, ReplyStep(p) PROVE Good
  BY <1>3 DEF ReplyStep, Fragment, LastLine, PostResult, BridgeEnds, HostStep, webviewVars
<1>4. CASE LoadHistory \/ UNCHANGED chatVars
  BY <1>1, <1>4 DEF LoadHistory, webviewVars, chatVars, hostVars
<1>5. CASE Receiving
  <2>1. ASSUME NotPushed PROVE Good
    BY <2>1 DEF NotPushed
  <2>2. ASSUME NEW role \in Speakers, NEW p \in 0..MaxPrompts, PushMessage(role, p) PROVE Good
    BY <2>2, Pushed
  <2>3. ASSUME backup # NoBackup, RestoreBackup PROVE Good
    BY <2>3, PutBack
  <2>4. "assistant" \in Speakers /\ "system" \in Speakers
    BY DEF Speakers
  <2>5. ASSUME NEW type \in {"answered", "refused", "cancelled"}, Result(type)
        PROVE  Head(toPanel).of \in 0..MaxPrompts
    BY <2>5, MessageTaken, PromptTyped DEF Result
  <2> HIDE DEF Good
  <2>6. CASE TakeFragment \/ DropResult
    BY <1>1, <2>1, <2>6 DEF Good, TakeFragment, DropResult
  <2>7. CASE TakeAnswer
    <3>1. Head(toPanel).of \in 0..MaxPrompts
      BY <2>5, <2>7 DEF TakeAnswer
    <3>2. NotPushed \/ PushMessage("assistant", Head(toPanel).of)
      BY <2>7 DEF TakeAnswer
    <3>3. QED
      BY <1>1, <2>1, <2>2, <2>4, <3>1, <3>2 DEF Good
  <2>8. CASE TakeFailure
    <3>1. Head(toPanel).of \in 0..MaxPrompts
      BY <2>5, <2>8 DEF TakeFailure
    <3>2. (backup # NoBackup /\ RestoreBackup) \/ PushMessage("system", Head(toPanel).of)
      BY <2>8 DEF TakeFailure
    <3>3. QED
      BY <1>1, <2>2, <2>3, <2>4, <3>1, <3>2 DEF Good
  <2>9. CASE TakeStop
    <3>1. Head(toPanel).of \in 0..MaxPrompts
      BY <2>5, <2>9 DEF TakeStop
    <3>2. (backup # NoBackup /\ RestoreBackup) \/ PushMessage("assistant", Head(toPanel).of) \/ NotPushed
      BY <2>9 DEF TakeStop
    <3>3. QED
      BY <1>1, <2>1, <2>2, <2>3, <2>4, <3>1, <3>2 DEF Good
  <2>10. CASE TakeHistory
    <3>1. toPanel # <<>> /\ Head(toPanel).type = "history" /\ toPanel' = Tail(toPanel)
      BY <2>10, HistoryTaken
    <3>2. Head(toPanel) = toPanel[1] /\ 1 \in DOMAIN toPanel
      BY <3>1, TakenFirst
    <3>3. QED
      BY <3>1, <3>2 DEF Arrived
  <2>11. CASE Paint
    <3>1. dueAnswer \in 0..MaxPrompts
      BY DEF ChatTypes
    <3>2. NotPushed \/ PushMessage("assistant", dueAnswer)
      BY <2>11 DEF Paint
    <3>3. QED
      BY <1>1, <2>1, <2>2, <2>4, <3>1, <3>2 DEF Good
  <2>12. Good
    BY <1>1, <1>5, <2>6, <2>7, <2>8, <2>9, <2>10, <2>11 DEF Receiving, Good
  <2>13. QED
    BY <1>1, <2>12 DEF Good
<1>6. QED
  BY <1>1, <1>2, <1>3, <1>4, <1>5 DEF ChatNext

LEMMA SavedKept ==
    ASSUME ChatTypes, Arrived, SavedLast, ~chatScope.failing, [ChatNext]_chatVars
    PROVE  SavedLast'
<1>1. CASE ~SaveNext
  <2>1. /\ document' = document
        /\ \/ chats' = chats /\ chain' = chain
           \/ chain' # <<>> /\ chain'[Len(chain')].chats = chats'
    BY <1>1, SavedStep
  <2>2. CASE chats' = chats /\ chain' = chain
    BY <2>1, <2>2 DEF SavedLast, Alike
  <2>3. CASE chain' # <<>> /\ chain'[Len(chain')].chats = chats'
    BY <2>3 DEF SavedLast
  <2>4. QED
    BY <2>1, <2>2, <2>3
<1>2. CASE SaveNext
  <2>1. /\ chain # <<>> /\ document' = chain[1] /\ chats' = chats
        /\ chain' = <<>> => Len(chain) = 1
        /\ chain' # <<>> => chain'[Len(chain')] = chain[Len(chain)]
    BY <1>2, Applied DEF webviewVars
  <2>2. chain[Len(chain)].chats = chats
    BY <2>1 DEF SavedLast
  <2>3. CASE chain' = <<>>
    <3>1. document'.chats = chats'
      BY <2>1, <2>2, <2>3
    <3>2. Alike(chats', document'.chats)
      BY <3>1 DEF Alike
    <3>3. QED
      BY <2>3, <3>2 DEF SavedLast, Alike
  <2>4. CASE chain' # <<>>
    BY <2>1, <2>2, <2>4 DEF SavedLast
  <2>5. QED
    BY <2>3, <2>4
<1>3. QED
  BY <1>1, <1>2

-----------------------------------------------------------------------------
(* Questions and answers in their place *)

\* Prompts sent later, and prompts stopped later, move nothing.
LEMMA PlacedStill ==
    ASSUME NEW s \in Seq(Turns), NEW c, NEW p, NEW states, NEW asked, NEW halted,
           Placed(s, c, p, states, asked, halted),
           NEW states2, NEW asked2, NEW halted2,
           \A r \in Prompts : states[r] # "none" => states2[r] # "none" /\ asked2[r] = asked[r],
           halted \subseteq halted2
    PROVE  Placed(s, c, p, states2, asked2, halted2)
<1>1. ASSUME NEW i \in DOMAIN s, s[i].of # 0
      PROVE  /\ states2[s[i].of] # "none" /\ asked2[s[i].of] = c
             /\ s[i].of \in halted => s[i].of \in halted2
  <2>1. s[i] \in Turns
    BY LenProperties, ElementOfSeq
  <2>2. s[i].of \in Prompts
    BY <1>1, <2>1, PromptTyped DEF Turns
  <2>3. states[s[i].of] # "none" /\ asked[s[i].of] = c
    BY <1>1 DEF Placed
  <2>4. QED
    BY <2>2, <2>3
<1>2. QED
  BY <1>1 DEF Placed

\* When the prompt under way is over, or is one of another conversation.
LEMMA PlacedRid ==
    ASSUME NEW s \in Seq(Turns), NEW c, NEW p, NEW q, NEW states, NEW asked, NEW halted,
           Placed(s, c, p, states, asked, halted),
           p = q \/ p = 0 \/ p \in halted \/ asked[p] # c
    PROVE  Placed(s, c, q, states, asked, halted)
  BY DEF Placed

\* Its answer, or its error, is put after the question under way.
LEMMA PlacedPush ==
    ASSUME NEW s \in Seq(Turns), NEW c, NEW p \in Prompts, NEW states, NEW asked, NEW halted,
           Placed(s, c, p, states, asked, halted),
           Len(s) > 0, s[Len(s)] = Said("user", p),
           NEW role \in Speakers, role # "user"
    PROVE  Placed(Append(s, Said(role, p)), c, 0, states, asked, halted)
<1> DEFINE t == Append(s, Said(role, p))
<1>1. p \in 0..MaxPrompts /\ p # 0 /\ "user" \in Speakers
  BY PromptTyped DEF Speakers
<1>2. /\ Said(role, p) \in Turns /\ Said(role, p).role = role /\ Said(role, p).of = p
      /\ Said("user", p).role = "user" /\ Said("user", p).of = p
  BY <1>1, SaidTyped
<1>3. Len(s) \in Nat /\ DOMAIN s = 1..Len(s)
  BY LenProperties
<1>4. /\ t \in Seq(Turns) /\ Len(t) = Len(s) + 1 /\ t[Len(s) + 1] = Said(role, p)
      /\ \A i \in 1..Len(s) : t[i] = s[i]
  BY <1>2, AppendProperties
<1>5. DOMAIN t = 1..(Len(s) + 1)
  BY <1>4, LenProperties
<1> HIDE DEF t
<1>6. Len(s) \in DOMAIN s /\ s[Len(s)].of = p /\ s[Len(s)].role = "user"
  BY <1>2, <1>3
<1>7. states[p] # "none" /\ asked[p] = c
  BY <1>1, <1>6 DEF Placed
<1>8. ASSUME NEW i \in DOMAIN t, t[i].of # 0
      PROVE  /\ states[t[i].of] # "none" /\ asked[t[i].of] = c
             /\ t[i].role # "user" => i > 1 /\ t[i - 1] = Said("user", t[i].of)
             /\ t[i].role = "user" =>
                   \/ t[i].of = 0 /\ i = Len(t)
                   \/ t[i].of \in halted
                   \/ i < Len(t) /\ t[i + 1].of = t[i].of /\ t[i + 1].role # "user"
  <2>1. CASE i = Len(s) + 1
    <3>1. t[i] = Said(role, p) /\ t[i - 1] = Said("user", p) /\ i > 1
      BY <1>3, <1>4, <2>1
    <3>2. QED
      BY <1>2, <1>7, <3>1
  <2>2. CASE i = Len(s)
    <3>1. t[i] = Said("user", p) /\ t[i + 1] = Said(role, p) /\ i < Len(t)
      BY <1>3, <1>4, <2>2
    <3>2. QED
      BY <1>2, <1>7, <3>1
  <2>3. CASE i \in 1..(Len(s) - 1)
    <3>1. i \in DOMAIN s /\ i # Len(s) /\ t[i] = s[i] /\ t[i + 1] = s[i + 1] /\ (i > 1 => t[i - 1] = s[i - 1])
          /\ i < Len(t)
      BY <1>3, <1>4, <2>3
    <3>2. /\ states[s[i].of] # "none" /\ asked[s[i].of] = c
          /\ s[i].role # "user" => i > 1 /\ s[i - 1] = Said("user", s[i].of)
          /\ s[i].role = "user" => s[i].of \in halted \/ (s[i + 1].of = s[i].of /\ s[i + 1].role # "user")
      BY <1>8, <3>1 DEF Placed
    <3>3. QED
      BY <3>1, <3>2
  <2>4. QED
    BY <1>3, <1>5, <2>1, <2>2, <2>3
<1>9. Placed(t, c, 0, states, asked, halted)
  BY <1>8 DEF Placed
<1>10. QED
  BY <1>9 DEF t

\* A question is asked after turns that need nothing more.
LEMMA PlacedAsk ==
    ASSUME NEW s \in Seq(Turns), NEW c, NEW p \in Prompts, NEW states, NEW asked, NEW halted,
           Placed(s, c, 0, states, asked, halted), states[p] # "none", asked[p] = c
    PROVE  Placed(Append(s, Said("user", p)), c, p, states, asked, halted)
<1> DEFINE t == Append(s, Said("user", p))
<1>1. p \in 0..MaxPrompts /\ p # 0 /\ "user" \in Speakers
  BY PromptTyped DEF Speakers
<1>2. Said("user", p) \in Turns /\ Said("user", p).role = "user" /\ Said("user", p).of = p
  BY <1>1, SaidTyped
<1>3. Len(s) \in Nat /\ DOMAIN s = 1..Len(s)
  BY LenProperties
<1>4. /\ t \in Seq(Turns) /\ Len(t) = Len(s) + 1 /\ t[Len(s) + 1] = Said("user", p)
      /\ \A i \in 1..Len(s) : t[i] = s[i]
  BY <1>2, AppendProperties
<1>5. DOMAIN t = 1..(Len(s) + 1)
  BY <1>4, LenProperties
<1> HIDE DEF t
<1>6. ASSUME NEW i \in DOMAIN t, t[i].of # 0
      PROVE  /\ states[t[i].of] # "none" /\ asked[t[i].of] = c
             /\ t[i].role # "user" => i > 1 /\ t[i - 1] = Said("user", t[i].of)
             /\ t[i].role = "user" =>
                   \/ t[i].of = p /\ i = Len(t)
                   \/ t[i].of \in halted
                   \/ i < Len(t) /\ t[i + 1].of = t[i].of /\ t[i + 1].role # "user"
  <2>1. CASE i = Len(s) + 1
    <3>1. t[i] = Said("user", p) /\ i = Len(t)
      BY <1>4, <2>1
    <3>2. QED
      BY <1>2, <3>1
  <2>2. CASE i \in 1..Len(s)
    <3>1. i \in DOMAIN s /\ t[i] = s[i] /\ (i > 1 => t[i - 1] = s[i - 1]) /\ (i < Len(s) => t[i + 1] = s[i + 1])
          /\ i < Len(t)
      BY <1>3, <1>4, <2>2
    <3>2. /\ states[s[i].of] # "none" /\ asked[s[i].of] = c
          /\ s[i].role # "user" => i > 1 /\ s[i - 1] = Said("user", s[i].of)
          /\ s[i].role = "user" =>
                s[i].of \in halted \/ (i < Len(s) /\ s[i + 1].of = s[i].of /\ s[i + 1].role # "user")
      BY <1>6, <3>1 DEF Placed
    <3>3. QED
      BY <3>1, <3>2
  <2>3. QED
    BY <1>3, <1>5, <2>1, <2>2
<1>7. Placed(t, c, p, states, asked, halted)
  BY <1>6 DEF Placed
<1>8. QED
  BY <1>7 DEF t

\* What stands before a question needs nothing of what follows.
LEMMA PlacedPrefix ==
    ASSUME NEW s \in Seq(Turns), NEW c, NEW states, NEW asked, NEW halted,
           Placed(s, c, 0, states, asked, halted),
           NEW i \in DOMAIN s, s[i].role = "user",
           NEW t \in Seq(Turns), Len(t) = i - 1, \A j \in 1..(i - 1) : t[j] = s[j]
    PROVE  Placed(t, c, 0, states, asked, halted)
<1>1. Len(s) \in Nat /\ DOMAIN s = 1..Len(s) /\ DOMAIN t = 1..(i - 1)
  BY LenProperties
<1>2. ASSUME NEW j \in DOMAIN t, t[j].of # 0
      PROVE  /\ states[t[j].of] # "none" /\ asked[t[j].of] = c
             /\ t[j].role # "user" => j > 1 /\ t[j - 1] = Said("user", t[j].of)
             /\ t[j].role = "user" =>
                   \/ t[j].of = 0 /\ j = Len(t)
                   \/ t[j].of \in halted
                   \/ j < Len(t) /\ t[j + 1].of = t[j].of /\ t[j + 1].role # "user"
  <2>1. j \in DOMAIN s /\ t[j] = s[j] /\ (j > 1 => t[j - 1] = s[j - 1]) /\ (j < i - 1 => t[j + 1] = s[j + 1])
    BY <1>1
  <2>2. /\ states[s[j].of] # "none" /\ asked[s[j].of] = c
        /\ s[j].role # "user" => j > 1 /\ s[j - 1] = Said("user", s[j].of)
        /\ s[j].role = "user" =>
              s[j].of \in halted \/ (j < Len(s) /\ s[j + 1].of = s[j].of /\ s[j + 1].role # "user")
    BY <1>2, <2>1 DEF Placed
  <2>3. s[j].role = "user" /\ s[j].of \notin halted => j < i - 1
    BY <1>1, <2>2
  <2>4. QED
    BY <2>1, <2>2, <2>3
<1>3. QED
  BY <1>2 DEF Placed

-----------------------------------------------------------------------------
(* Last words *)

LEMMA PanelMessageIs ==
    ASSUME ChatTypes, NEW i \in DOMAIN toPanel
    PROVE  toPanel[i] \in PanelMessages /\ (toPanel[i].type # "history" => toPanel[i].of \in Prompts)
<1>1. toPanel[i] \in PanelMessages
  BY LenProperties, ElementOfSeq DEF ChatTypes
<1>2. CASE toPanel[i] \in Talk
  BY <1>1, <1>2 DEF Talk
<1>3. CASE \E d \in Documents : toPanel[i] = Loaded(d)
  BY <1>1, <1>3 DEF Loaded
<1>4. QED
  BY <1>1, <1>2, <1>3 DEF PanelMessages

\* No message is added.
LEMMA FewerWords ==
    ASSUME ChatTypes, LastWords,
           \A i \in DOMAIN toPanel' : \E j \in DOMAIN toPanel : toPanel'[i] = toPanel[j],
           \A r \in Prompts : replies[r] = "over" => replies'[r] = "over",
           stopped \subseteq stopped',
           \/ awaited' = awaited /\ (live'.waiting => live.waiting)
           \/ awaited' = 0
           \/ replies[awaited'] # "over"
    PROVE  LastWords'
<1>1. ASSUME NEW i \in DOMAIN toPanel'
      PROVE  /\ toPanel'[i].type = "cancelled" => toPanel'[i].of \in stopped'
             /\ toPanel'[i].type \in {"answered", "refused"} => replies'[toPanel'[i].of] = "over"
             /\ toPanel'[i].type = "answered" /\ toPanel'[i].of = awaited' =>
                   /\ ~live'.waiting
                   /\ \A j \in DOMAIN toPanel' : toPanel'[j].type = "token" => toPanel'[j].of # awaited'
  <2>1. PICK j \in DOMAIN toPanel : toPanel'[i] = toPanel[j]
    OBVIOUS
  <2>2. toPanel[j].type # "history" => toPanel[j].of \in Prompts /\ toPanel[j].of # 0
    BY PanelMessageIs, PromptTyped
  <2>3. /\ toPanel[j].type = "cancelled" => toPanel[j].of \in stopped
        /\ toPanel[j].type \in {"answered", "refused"} => replies[toPanel[j].of] = "over"
        /\ toPanel[j].type = "answered" /\ toPanel[j].of = awaited =>
              /\ ~live.waiting
              /\ \A k \in DOMAIN toPanel : toPanel[k].type = "token" => toPanel[k].of # awaited
    BY DEF LastWords
  <2>4. /\ toPanel'[i].type = "cancelled" => toPanel'[i].of \in stopped'
        /\ toPanel'[i].type \in {"answered", "refused"} => replies'[toPanel'[i].of] = "over"
    BY <2>1, <2>2, <2>3
  <2>5. ASSUME toPanel'[i].type = "answered", toPanel'[i].of = awaited'
        PROVE  /\ ~live'.waiting
               /\ \A k \in DOMAIN toPanel' : toPanel'[k].type = "token" => toPanel'[k].of # awaited'
    <3>1. awaited' = awaited /\ (live'.waiting => live.waiting)
      BY <2>1, <2>2, <2>3, <2>5
    <3>2. /\ ~live.waiting
          /\ \A k \in DOMAIN toPanel : toPanel[k].type = "token" => toPanel[k].of # awaited
      BY <2>1, <2>3, <2>5, <3>1
    <3>3. QED
      BY <3>1, <3>2
  <2>6. QED
    BY <2>4, <2>5
<1>2. QED
  BY <1>1 DEF LastWords

\* One is added, or two.
LEMMA MoreWords ==
    ASSUME ChatTypes, LastWords,
           \A i \in DOMAIN toPanel' :
              \/ i \in DOMAIN toPanel /\ toPanel'[i] = toPanel[i]
              \/ toPanel'[i].type = "cancelled" /\ toPanel'[i].of \in stopped'
              \/ toPanel'[i].type = "rollback"
              \/ toPanel'[i].type = "token" /\ replies[toPanel'[i].of] # "over"
              \/ toPanel'[i].type = "refused" /\ replies'[toPanel'[i].of] = "over"
              \/ /\ toPanel'[i].type = "answered" /\ replies'[toPanel'[i].of] = "over"
                 /\ ~live.waiting
                 /\ \A j \in DOMAIN toPanel' : toPanel'[j].type # "token",
           \A r \in Prompts : replies[r] = "over" => replies'[r] = "over",
           stopped \subseteq stopped', awaited' = awaited, live' = live
    PROVE  LastWords'
<1>1. \A j \in DOMAIN toPanel :
         /\ toPanel[j].type # "history" => toPanel[j].of \in Prompts
         /\ toPanel[j].type = "cancelled" => toPanel[j].of \in stopped
         /\ toPanel[j].type \in {"answered", "refused"} => replies[toPanel[j].of] = "over"
         /\ toPanel[j].type = "answered" /\ toPanel[j].of = awaited =>
               /\ ~live.waiting
               /\ \A k \in DOMAIN toPanel : toPanel[k].type = "token" => toPanel[k].of # awaited
  BY PanelMessageIs DEF LastWords
<1>2. ASSUME NEW i \in DOMAIN toPanel'
      PROVE  /\ toPanel'[i].type = "cancelled" => toPanel'[i].of \in stopped'
             /\ toPanel'[i].type \in {"answered", "refused"} => replies'[toPanel'[i].of] = "over"
  <2>1. CASE i \in DOMAIN toPanel /\ toPanel'[i] = toPanel[i]
    BY <1>1, <2>1
  <2>2. QED
    BY <2>1
<1>3. ASSUME NEW i \in DOMAIN toPanel', toPanel'[i].type = "answered", toPanel'[i].of = awaited'
      PROVE  /\ ~live'.waiting
             /\ \A j \in DOMAIN toPanel' : toPanel'[j].type = "token" => toPanel'[j].of # awaited'
  <2>1. CASE i \in DOMAIN toPanel /\ toPanel'[i] = toPanel[i]
    <3>1. /\ ~live.waiting /\ replies[awaited] = "over"
          /\ \A k \in DOMAIN toPanel : toPanel[k].type = "token" => toPanel[k].of # awaited
      BY <1>1, <1>3, <2>1
    <3>2. ASSUME NEW j \in DOMAIN toPanel', toPanel'[j].type = "token" PROVE toPanel'[j].of # awaited'
      BY <3>1, <3>2
    <3>3. QED
      BY <3>1, <3>2
  <2>2. CASE ~(i \in DOMAIN toPanel /\ toPanel'[i] = toPanel[i])
    BY <1>3, <2>2
  <2>3. QED
    BY <2>1, <2>2
<1>4. QED
  BY <1>2, <1>3 DEF LastWords

-----------------------------------------------------------------------------
(* One step *)

\* Processes go on, and nothing shown changes.
LEMMA TurnsStill ==
    ASSUME ChatTypes, TurnsPlaced,
           UNCHANGED <<chats, current, awaited, backup, askedIn>>,
           \A r \in Prompts : replies[r] # "none" => replies'[r] # "none",
           stopped \subseteq stopped'
    PROVE  TurnsPlaced'
<1>1. awaited # 0 => awaited \in Prompts
  BY PromptTyped DEF ChatTypes
<1>2. \A c \in DOMAIN chats : chats[c] \in Seq(Turns)
  BY ShownIs
<1>3. \A r \in Prompts : replies[r] # "none" => replies'[r] # "none" /\ askedIn[r] = askedIn[r]
  OBVIOUS
<1>4. \A c \in DOMAIN chats : Placed(chats[c], c, awaited, replies', askedIn, stopped')
  BY <1>2, <1>3, PlacedStill DEF TurnsPlaced
<1>5. backup # NoBackup => Placed(backup, current, 0, replies', askedIn, stopped')
  <2>1. backup # NoBackup => backup \in Seq(Turns) /\ Placed(backup, current, 0, replies, askedIn, stopped)
    BY DEF ChatTypes, TurnsPlaced
  <2>2. QED
    BY <1>3, <2>1, PlacedStill
<1>6. QED
  BY <1>1, <1>4, <1>5 DEF TurnsPlaced

\* A prompt is sent after a context in which nothing is missing.
LEMMA InPlaceSubmitted ==
    ASSUME ChatTypes, OwedInv, InPlace, NEW before \in Seq(Turns), Submitting(before),
           Placed(before, current, 0, replies, askedIn, stopped),
           backup' = NoBackup \/ backup' = chats[current]
    PROVE  InPlace'
<1>1. awaited = 0
  BY Submitted, OwedIs
<1>2. PICK p \in Prompts :
         /\ replies[p] = "none" /\ awaited' = p /\ replies' = [replies EXCEPT ![p] = "running"]
         /\ askedIn' = [askedIn EXCEPT ![p] = current]
         /\ chats'[current] = Append(before, Said("user", p))
  BY Submitted
<1>3. /\ DOMAIN chats' = DOMAIN chats /\ current' = current
      /\ \A c \in DOMAIN chats : c # current => chats'[c] = chats[c]
      /\ dueAnswer' = 0 /\ live' = NothingLive /\ toPanel' = toPanel /\ stopped' = stopped
  BY Submitted
<1>4. /\ \A r \in Prompts : replies[r] # "none" => replies'[r] # "none" /\ askedIn'[r] = askedIn[r]
      /\ \A r \in Prompts : replies[r] = "over" => replies'[r] = "over"
      /\ replies'[p] = "running" /\ askedIn'[p] = current
  BY <1>2 DEF ChatTypes
<1>5. LastWords'
  <2>1. replies[awaited'] # "over"
    BY <1>2
  <2>2. QED
    BY <1>3, <1>4, <2>1, FewerWords DEF InPlace
<1>6. /\ chats[current] \in Seq(Turns) /\ current \in DOMAIN chats
      /\ \A c \in DOMAIN chats : chats[c] \in Seq(Turns)
  BY ShownIs DEF ChatTypes
<1>7. \A c \in DOMAIN chats : Placed(chats[c], c, 0, replies', askedIn', stopped')
  BY <1>1, <1>3, <1>4, <1>6, PlacedStill DEF InPlace, TurnsPlaced
<1>8. Placed(before, current, 0, replies', askedIn', stopped')
  BY <1>3, <1>4, PlacedStill
<1>9. Placed(chats'[current], current, p, replies', askedIn', stopped')
  <2>1. replies'[p] # "none" /\ askedIn'[p] = current
    BY <1>4
  <2>2. Placed(Append(before, Said("user", p)), current, p, replies', askedIn', stopped')
    BY <1>8, <2>1, PlacedAsk
  <2>3. QED
    BY <1>2, <2>2
<1>10. \A c \in DOMAIN chats' : Placed(chats'[c], c, awaited', replies', askedIn', stopped')
  <2>1. ASSUME NEW c \in DOMAIN chats, c # current PROVE Placed(chats[c], c, p, replies', askedIn', stopped')
    <3> DEFINE none == 0
    <3>1. Placed(chats[c], c, none, replies', askedIn', stopped') /\ (none = p \/ none = 0)
      BY <1>7
    <3>2. chats[c] \in Seq(Turns)
      BY <1>6
    <3> HIDE DEF none
    <3>3. QED
      BY <3>1, <3>2, PlacedRid
  <2>2. QED
    BY <1>2, <1>3, <1>9, <2>1
<1>11. backup' # NoBackup => awaited' # 0 /\ Placed(backup', current', 0, replies', askedIn', stopped')
  BY <1>2, <1>3, <1>6, <1>7, PromptTyped
<1>12. /\ current' = askedIn'[awaited'] /\ replies'[awaited'] # "none"
       /\ Len(chats'[current']) > 0 /\ chats'[current'][Len(chats'[current'])] = Said("user", awaited')
  <2>1. Said("user", p) \in Turns
    BY SaidTyped, PromptTyped DEF Speakers
  <2>2. /\ Len(Append(before, Said("user", p))) = Len(before) + 1
        /\ Append(before, Said("user", p))[Len(before) + 1] = Said("user", p)
    BY <2>1, AppendProperties
  <2>3. Len(before) \in Nat
    BY LenProperties
  <2>4. QED
    BY <1>2, <1>3, <1>4, <2>2, <2>3
<1>13. QED
  BY <1>3, <1>5, <1>10, <1>11, <1>12 DEF InPlace, TurnsPlaced

LEMMA NothingMissing ==
    ASSUME ChatTypes, InPlace, awaited = 0
    PROVE  /\ backup = NoBackup
           /\ \A c \in DOMAIN chats : Placed(chats[c], c, 0, replies, askedIn, stopped)
  BY DEF InPlace, TurnsPlaced

LEMMA InPlaceRevised ==
    ASSUME ChatTypes, OwedInv, InPlace, Revise
    PROVE  InPlace'
<1>1. PICK i \in DOMAIN chats[current] :
         /\ chats[current][i].role = "user"
         /\ backup' = chats[current] /\ Submitting(SubSeq(chats[current], 1, i - 1))
  BY DEF Revise
<1> DEFINE t == SubSeq(chats[current], 1, i - 1)
<1>2. /\ t \in Seq(Turns) /\ Len(t) = i - 1 /\ \A j \in 1..(i - 1) : t[j] = chats[current][j]
      /\ chats[current] \in Seq(Turns)
  BY ContextTyped
<1>3. Submitting(t)
  BY <1>1
<1> HIDE DEF t
<1>4. awaited = 0
  BY <1>2, <1>3, Submitted, OwedIs
<1>5. Placed(chats[current], current, 0, replies, askedIn, stopped)
  BY <1>4, NothingMissing DEF ChatTypes
<1>6. Placed(t, current, 0, replies, askedIn, stopped)
  BY <1>1, <1>2, <1>5, PlacedPrefix
<1>7. QED
  BY <1>1, <1>2, <1>3, <1>6, InPlaceSubmitted

\* The conversations change while nothing is awaited: some are left out, or empty.
LEMMA InPlaceTurned ==
    ASSUME ChatTypes, InPlace, awaited = 0,
           \A d \in DOMAIN chats' : (d \in DOMAIN chats /\ chats'[d] = chats[d]) \/ chats'[d] = <<>>,
           dueAnswer' = 0, backup' = NoBackup, live'.waiting => live.waiting,
           UNCHANGED <<awaited, replies, toPanel, askedIn, stopped>>
    PROVE  InPlace'
<1>1. LastWords'
  BY FewerWords DEF InPlace
<1>2. ASSUME NEW d \in DOMAIN chats' PROVE Placed(chats'[d], d, 0, replies, askedIn, stopped)
  <2>1. CASE d \in DOMAIN chats /\ chats'[d] = chats[d]
    BY <2>1, NothingMissing
  <2>2. CASE chats'[d] = <<>>
    BY <2>2 DEF Placed
  <2>3. QED
    BY <2>1, <2>2
<1>3. QED
  BY <1>1, <1>2 DEF InPlace, TurnsPlaced

LEMMA InPlaceStopped ==
    ASSUME ChatTypes, InPlace, StopPrompt
    PROVE  InPlace'
<1>1. PICK flushed \in {<<>>, <<[type |-> "token", of |-> awaited]>>} :
         /\ replies[awaited] # "running" => flushed = <<>>
         /\ toPanel' = toPanel \o flushed \o <<[type |-> "cancelled", of |-> awaited]>>
  BY DEF StopPrompt
<1>2. awaited \in Prompts
  BY PromptTyped DEF StopPrompt, ChatTypes
<1>3. /\ replies' = [replies EXCEPT ![awaited] = IF @ = "running" THEN "killed" ELSE @]
      /\ stopped' = stopped \cup {awaited}
      /\ UNCHANGED <<chats, current, awaited, live, dueAnswer, backup, askedIn>>
  BY DEF StopPrompt, webviewVars
<1>4. /\ \A r \in Prompts : replies[r] = "over" => replies'[r] = "over"
      /\ \A r \in Prompts : replies[r] # "none" => replies'[r] # "none"
  BY <1>2, <1>3 DEF ChatTypes
<1>5. /\ \A i \in DOMAIN toPanel : i \in DOMAIN toPanel' /\ toPanel'[i] = toPanel[i]
      /\ \A i \in DOMAIN toPanel' :
            \/ i \in DOMAIN toPanel
            \/ toPanel'[i] = [type |-> "cancelled", of |-> awaited]
            \/ flushed # <<>> /\ toPanel'[i] = [type |-> "token", of |-> awaited]
  BY <1>1, <1>2, StopPosted
<1>6. flushed # <<>> => replies[awaited] # "over"
  BY <1>1
<1>7. \A i \in DOMAIN toPanel' :
         \/ i \in DOMAIN toPanel /\ toPanel'[i] = toPanel[i]
         \/ toPanel'[i].type = "cancelled" /\ toPanel'[i].of \in stopped'
         \/ toPanel'[i].type = "token" /\ replies[toPanel'[i].of] # "over"
  BY <1>3, <1>5, <1>6
<1>8. LastWords'
  BY <1>3, <1>4, <1>7, MoreWords DEF InPlace
<1>9. TurnsPlaced'
  BY <1>3, <1>4, TurnsStill DEF InPlace
<1>10. QED
  BY <1>3, <1>8, <1>9 DEF InPlace

\* The process of a prompt: its result is its last word, after every fragment was painted.
LEMMA InPlaceReply ==
    ASSUME ChatTypes, InPlace, ~chatScope.slow, NEW p \in Prompts, ReplyStep(p)
    PROVE  InPlace'
<1>1. UNCHANGED <<chats, current, awaited, live, dueAnswer, backup, askedIn, stopped>>
  BY DEF ReplyStep, Fragment, LastLine, PostResult, BridgeEnds, HostStep, webviewVars
<1>2. replies[p] \in {"running", "killed", "answered", "refused"}
      /\ (replies' = replies \/ \E to \in ReplyStates \ {"none"} : replies' = [replies EXCEPT ![p] = to])
  BY DEF ReplyStep, Fragment, LastLine, PostResult, BridgeEnds, Reply, ReplyStates
<1>3. /\ \A r \in Prompts : replies[r] = "over" => replies'[r] = "over"
      /\ \A r \in Prompts : replies[r] # "none" => replies'[r] # "none"
  BY <1>2 DEF ChatTypes
<1>4. TurnsPlaced'
  BY <1>1, <1>3, TurnsStill DEF InPlace
<1>5. ASSUME NEW type \in {"token", "rollback", "answered", "refused"}, Post([type |-> type, of |-> p]),
             type \in {"answered", "refused"} => replies'[p] = "over",
             type = "answered" => ~live.waiting /\ \A i \in DOMAIN toPanel : toPanel[i].type # "token"
      PROVE  LastWords'
  <2> DEFINE m == [type |-> type, of |-> p]
  <2>1. m \in PanelMessages /\ m.type = type /\ m.of = p /\ Post(m)
    BY <1>5, TalkIs
  <2> HIDE DEF m
  <2>2. \A i \in DOMAIN toPanel' : (i \in DOMAIN toPanel /\ toPanel'[i] = toPanel[i]) \/ toPanel'[i] = m
    BY <2>1, PostedLast
  <2>3. type = "answered" => \A i \in DOMAIN toPanel' : toPanel'[i].type # "token"
    BY <1>5, <2>1, <2>2
  <2>4. replies[p] # "over"
    BY <1>2
  <2>5. \A i \in DOMAIN toPanel' :
           \/ i \in DOMAIN toPanel /\ toPanel'[i] = toPanel[i]
           \/ toPanel'[i].type = "rollback"
           \/ toPanel'[i].type = "token" /\ replies[toPanel'[i].of] # "over"
           \/ toPanel'[i].type = "refused" /\ replies'[toPanel'[i].of] = "over"
           \/ /\ toPanel'[i].type = "answered" /\ replies'[toPanel'[i].of] = "over"
              /\ ~live.waiting
              /\ \A j \in DOMAIN toPanel' : toPanel'[j].type # "token"
    BY <1>5, <2>1, <2>2, <2>3, <2>4
  <2>6. QED
    BY <1>1, <1>3, <2>5, MoreWords DEF InPlace
<1>6. ASSUME toPanel' = toPanel PROVE LastWords'
  BY <1>1, <1>3, <1>6, FewerWords DEF InPlace
<1>7. LastWords'
  <2>1. CASE Fragment(p)
    <3>1. PICK type \in {"token", "rollback"} : Post([type |-> type, of |-> p])
      BY <2>1 DEF Fragment
    <3>2. QED
      BY <1>5, <3>1
  <2>2. CASE LastLine(p)
    BY <1>6, <2>2 DEF LastLine
  <2>3. CASE PostResult(p)
    <3>1. /\ replies[p] \in {"answered", "refused"} /\ Post([type |-> replies[p], of |-> p])
          /\ ~live.waiting /\ \A i \in DOMAIN toPanel : toPanel[i].type # "token"
          /\ replies' = [replies EXCEPT ![p] = "over"]
      BY <2>3 DEF PostResult, Reply
    <3>2. replies'[p] = "over"
      BY <3>1 DEF ChatTypes
    <3>3. QED
      BY <1>5, <3>1, <3>2
  <2>4. CASE Reply(p, {"running"}, "over") /\ Post([type |-> "refused", of |-> p])
    <3>1. replies'[p] = "over"
      BY <2>4 DEF Reply, ChatTypes
    <3>2. QED
      BY <1>5, <2>4, <3>1
  <2>5. CASE Reply(p, {"killed"}, "over") /\ UNCHANGED toPanel
    BY <1>6, <2>5
  <2>6. QED
    BY <2>1, <2>2, <2>3, <2>4, <2>5 DEF ReplyStep, BridgeEnds
<1>8. QED
  BY <1>1, <1>4, <1>7 DEF InPlace

\* What is taken is the first of the messages.
LEMMA FewerLeft ==
    ASSUME ChatTypes, toPanel # <<>>, toPanel' = Tail(toPanel)
    PROVE  /\ \A i \in DOMAIN toPanel' : \E j \in DOMAIN toPanel : toPanel'[i] = toPanel[j]
           /\ Head(toPanel) = toPanel[1] /\ 1 \in DOMAIN toPanel
  BY TakenFirst

LEMMA InPlaceFragment ==
    ASSUME ChatTypes, InPlace, TakeFragment
    PROVE  InPlace'
<1>1. PICK type \in {"token", "rollback"} :
         /\ Receive(type)
         /\ LET mine == Awaited(Head(toPanel)) IN
            /\ live' = CASE mine /\ type = "token" -> [live EXCEPT !.waiting = TRUE]
                         [] mine /\ type = "rollback" -> NothingLive
                         [] OTHER -> live
            /\ dueAnswer' = IF mine /\ type = "rollback" THEN 0 ELSE dueAnswer
  BY DEF TakeFragment
<1>2. /\ toPanel # <<>> /\ toPanel' = Tail(toPanel) /\ Head(toPanel).type = type
      /\ Head(toPanel) = toPanel[1] /\ 1 \in DOMAIN toPanel
      /\ UNCHANGED <<replies, askedIn, stopped>>
  BY <1>1, MessageTaken
<1>3. UNCHANGED <<chats, current, backup, awaited>>
  BY DEF TakeFragment, NotPushed
<1>4. \A i \in DOMAIN toPanel' : \E j \in DOMAIN toPanel : toPanel'[i] = toPanel[j]
  BY <1>2, FewerLeft
<1>5. LastWords'
  <2>1. CASE type = "token" /\ Head(toPanel).of = awaited
    \* A fragment of the prompt awaited: its answer is not on its way.
    <3>1. \A j \in DOMAIN toPanel : ~(toPanel[j].type = "answered" /\ toPanel[j].of = awaited)
      BY <1>2, <2>1 DEF InPlace, LastWords
    <3>2. ASSUME NEW i \in DOMAIN toPanel'
          PROVE  /\ toPanel'[i].type = "cancelled" => toPanel'[i].of \in stopped'
                 /\ toPanel'[i].type \in {"answered", "refused"} => replies'[toPanel'[i].of] = "over"
                 /\ ~(toPanel'[i].type = "answered" /\ toPanel'[i].of = awaited')
      <4>1. PICK j \in DOMAIN toPanel : toPanel'[i] = toPanel[j]
        BY <1>4
      <4>2. QED
        BY <1>2, <1>3, <3>1, <4>1 DEF InPlace, LastWords
    <3>3. QED
      BY <3>2 DEF LastWords
  <2>2. CASE ~(type = "token" /\ Head(toPanel).of = awaited)
    <3>1. live' = live \/ live' = NothingLive
      BY <1>1, <2>2 DEF Awaited
    <3>2. live'.waiting => live.waiting
      BY <3>1 DEF NothingLive
    <3>3. QED
      BY <1>2, <1>3, <1>4, <3>2, FewerWords DEF InPlace
  <2>3. QED
    BY <2>1, <2>2
<1>6. TurnsPlaced'
  BY <1>2, <1>3, TurnsStill DEF InPlace
<1>7. dueAnswer' = 0
  BY <1>1 DEF InPlace
<1>8. QED
  BY <1>5, <1>6, <1>7 DEF InPlace

LEMMA InPlaceDropped ==
    ASSUME ChatTypes, InPlace, DropResult
    PROVE  InPlace'
<1>1. PICK type \in {"answered", "refused", "cancelled"} :
         Receive(type) /\ NotPushed /\ UNCHANGED <<chatBusy, awaited, live, dueAnswer>>
  BY DEF DropResult
<1>2. /\ toPanel # <<>> /\ toPanel' = Tail(toPanel)
      /\ UNCHANGED <<replies, askedIn, stopped>>
  BY <1>1, MessageTaken
<1>3. LastWords'
  BY <1>1, <1>2, FewerLeft, FewerWords DEF InPlace
<1>4. TurnsPlaced'
  BY <1>1, <1>2, TurnsStill DEF InPlace, NotPushed
<1>5. QED
  BY <1>1, <1>3, <1>4 DEF InPlace

\* The result awaited is taken: what follows the question, or the backup, is right.
LEMMA InPlaceResult ==
    ASSUME ChatTypes, InPlace, NEW type \in {"answered", "refused", "cancelled"}, Result(type),
           dueAnswer' = 0, backup' = NoBackup, current' = current, DOMAIN chats' = DOMAIN chats,
           \A c \in DOMAIN chats : c # current => chats'[c] = chats[c],
           \/ \E role \in {"assistant", "system"} : chats'[current] = Append(chats[current], Said(role, awaited))
           \/ backup # NoBackup /\ chats'[current] = backup
           \/ awaited \in stopped /\ chats'[current] = chats[current]
    PROVE  InPlace'
<1>1. Receive(type) /\ Head(toPanel).of = awaited /\ awaited' = 0
  BY DEF Result, Awaited
<1>2. /\ toPanel # <<>> /\ toPanel' = Tail(toPanel) /\ awaited \in Prompts
      /\ UNCHANGED <<replies, askedIn, stopped>>
  BY <1>1, MessageTaken
<1>3. LastWords'
  BY <1>1, <1>2, FewerLeft, FewerWords DEF InPlace
<1>4. /\ current = askedIn[awaited]
      /\ Len(chats[current]) > 0 /\ chats[current][Len(chats[current])] = Said("user", awaited)
      /\ \A c \in DOMAIN chats : Placed(chats[c], c, awaited, replies, askedIn, stopped)
      /\ backup # NoBackup => Placed(backup, current, 0, replies, askedIn, stopped)
  BY <1>2, PromptTyped DEF InPlace, TurnsPlaced
<1>5. chats[current] \in Seq(Turns) /\ current \in DOMAIN chats /\ \A c \in DOMAIN chats : chats[c] \in Seq(Turns)
  BY ShownIs DEF ChatTypes
<1> DEFINE none == 0
<1>6. none = 0
  OBVIOUS
<1> HIDE DEF none
<1>7. ASSUME NEW c \in DOMAIN chats, c # current PROVE Placed(chats'[c], c, none, replies, askedIn, stopped)
  <2>1. askedIn[awaited] # c /\ chats'[c] = chats[c] /\ chats[c] \in Seq(Turns)
    BY <1>4, <1>5, <1>7
  <2>2. Placed(chats[c], c, awaited, replies, askedIn, stopped)
    BY <1>4
  <2>3. Placed(chats[c], c, none, replies, askedIn, stopped)
    BY <2>1, <2>2, PlacedRid
  <2>4. QED
    BY <2>1, <2>3
<1>8. Placed(chats'[current], current, none, replies, askedIn, stopped)
  <2>1. ASSUME NEW role \in {"assistant", "system"}, chats'[current] = Append(chats[current], Said(role, awaited))
        PROVE  Placed(chats'[current], current, none, replies, askedIn, stopped)
    <3>1. role \in Speakers /\ role # "user"
      BY DEF Speakers
    <3>2. Placed(chats[current], current, awaited, replies, askedIn, stopped)
      BY <1>4, <1>5
    <3>3. Placed(Append(chats[current], Said(role, awaited)), current, 0, replies, askedIn, stopped)
      BY <1>2, <1>4, <1>5, <3>1, <3>2, PlacedPush
    <3>4. QED
      BY <1>6, <2>1, <3>3
  <2>2. ASSUME backup # NoBackup, chats'[current] = backup
        PROVE  Placed(chats'[current], current, none, replies, askedIn, stopped)
    BY <1>4, <1>6, <2>2
  <2>3. ASSUME awaited \in stopped, chats'[current] = chats[current]
        PROVE  Placed(chats'[current], current, none, replies, askedIn, stopped)
    <3>1. Placed(chats[current], current, awaited, replies, askedIn, stopped)
      BY <1>4, <1>5
    <3>2. Placed(chats[current], current, none, replies, askedIn, stopped)
      BY <1>5, <2>3, <3>1, PlacedRid
    <3>3. QED
      BY <2>3, <3>2
  <2>4. QED
    BY <2>1, <2>2, <2>3
<1>9. \A c \in DOMAIN chats' : Placed(chats'[c], c, 0, replies, askedIn, stopped)
  BY <1>6, <1>7, <1>8
<1>10. TurnsPlaced'
  BY <1>1, <1>2, <1>9 DEF TurnsPlaced
<1>11. QED
  BY <1>3, <1>10 DEF InPlace

LEMMA InPlaceTaken ==
    ASSUME ChatTypes, InPlace, TakeAnswer \/ TakeFailure \/ TakeStop
    PROVE  InPlace'
<1>1. ASSUME NEW type \in {"answered", "refused", "cancelled"}, Result(type)
      PROVE  /\ Head(toPanel).of = awaited /\ awaited \in Prompts /\ awaited \in 0..MaxPrompts
             /\ type = "cancelled" => awaited \in stopped
             /\ type = "answered" => ~live.waiting
  <2>1. Receive(type) /\ Head(toPanel).of = awaited
    BY <1>1 DEF Result, Awaited
  <2>2. /\ Head(toPanel) = toPanel[1] /\ 1 \in DOMAIN toPanel
        /\ Head(toPanel).type = type /\ Head(toPanel).of \in Prompts
    BY <2>1, MessageTaken
  <2>3. QED
    BY <2>1, <2>2, PromptTyped DEF InPlace, LastWords
<1>2. "assistant" \in Speakers /\ "system" \in Speakers /\ dueAnswer = 0
  BY DEF Speakers, InPlace
<1>3. CASE TakeAnswer
  <2>1. Result("answered")
    BY <1>3 DEF TakeAnswer
  <2>2. Head(toPanel).of = awaited /\ awaited \in 0..MaxPrompts /\ ~live.waiting
    BY <1>1, <2>1
  <2>3. PushMessage("assistant", awaited) /\ dueAnswer' = dueAnswer
    BY <1>3, <2>2 DEF TakeAnswer
  <2>4. /\ DOMAIN chats' = DOMAIN chats /\ current' = current /\ backup' = NoBackup
        /\ chats'[current] = Append(chats[current], Said("assistant", awaited))
        /\ \A c \in DOMAIN chats : c # current => chats'[c] = chats[c]
    BY <1>2, <2>2, <2>3, Pushed
  <2>5. QED
    BY <1>2, <2>1, <2>3, <2>4, InPlaceResult
<1>4. CASE TakeFailure
  <2>1. Result("refused") /\ dueAnswer' = 0
    BY <1>4 DEF TakeFailure
  <2>2. Head(toPanel).of = awaited /\ awaited \in 0..MaxPrompts
    BY <1>1, <2>1
  <2>3. (backup # NoBackup /\ RestoreBackup) \/ PushMessage("system", awaited)
    BY <1>4, <2>2 DEF TakeFailure
  <2>4. /\ DOMAIN chats' = DOMAIN chats /\ current' = current /\ backup' = NoBackup
        /\ \/ chats'[current] = Append(chats[current], Said("system", awaited))
           \/ backup # NoBackup /\ chats'[current] = backup
        /\ \A c \in DOMAIN chats : c # current => chats'[c] = chats[c]
    BY <1>2, <2>2, <2>3, Pushed, PutBack
  <2>5. QED
    BY <2>1, <2>4, InPlaceResult
<1>5. CASE TakeStop
  <2>1. Result("cancelled") /\ dueAnswer' = 0
    BY <1>5 DEF TakeStop
  <2>2. Head(toPanel).of = awaited /\ awaited \in 0..MaxPrompts /\ awaited \in stopped
    BY <1>1, <2>1
  <2>3. \/ backup # NoBackup /\ RestoreBackup
        \/ PushMessage("assistant", awaited)
        \/ backup = NoBackup /\ NotPushed
    BY <1>5, <2>2 DEF TakeStop
  <2>4. /\ DOMAIN chats' = DOMAIN chats /\ current' = current /\ backup' = NoBackup
        /\ \/ chats'[current] = Append(chats[current], Said("assistant", awaited))
           \/ backup # NoBackup /\ chats'[current] = backup
           \/ chats'[current] = chats[current]
        /\ \A c \in DOMAIN chats : c # current => chats'[c] = chats[c]
    BY <1>2, <2>2, <2>3, Pushed, PutBack DEF NotPushed
  <2>5. QED
    BY <2>1, <2>2, <2>4, InPlaceResult
<1>6. QED
  BY <1>3, <1>4, <1>5

\* The answer never waits for a paint.
LEMMA InPlacePainted ==
    ASSUME ChatTypes, InPlace, Paint
    PROVE  InPlace'
<1>1. /\ live' = [waiting |-> FALSE, painted |-> TRUE] /\ NotPushed /\ dueAnswer' = dueAnswer
      /\ UNCHANGED <<awaited, replies, toPanel, askedIn, stopped>>
  BY DEF Paint, InPlace
<1>2. ~live'.waiting
  BY <1>1
<1>3. LastWords'
  BY <1>1, <1>2, FewerWords DEF InPlace
<1>4. TurnsPlaced'
  BY <1>1, TurnsStill DEF InPlace, NotPushed
<1>5. QED
  BY <1>1, <1>3, <1>4 DEF InPlace

LEMMA InPlaceConversing ==
    ASSUME ChatTypes, OwedInv, InPlace, Conversing
    PROVE  InPlace'
<1>1. ~chatBusy => awaited = 0
  BY OwedIs
<1>2. dueAnswer = 0
  BY DEF InPlace
<1>3. CASE SendPrompt
  <2>1. Submitting(chats[current]) /\ backup' = backup
    BY <1>3 DEF SendPrompt
  <2>2. awaited = 0
    BY <1>1, <2>1 DEF Submitting
  <2>3. backup = NoBackup /\ Placed(chats[current], current, 0, replies, askedIn, stopped)
    BY <2>2, NothingMissing DEF ChatTypes
  <2>4. QED
    BY <2>1, <2>3, ContextTyped, InPlaceSubmitted
<1>4. CASE Revise
  BY <1>4, InPlaceRevised
<1>5. CASE RefusedPrompt
  <2>1. /\ live' = [live EXCEPT !.waiting = FALSE] /\ dueAnswer' = 0
        /\ UNCHANGED <<chats, current, awaited, backup, replies, toPanel, askedIn, stopped>>
    BY <1>5 DEF RefusedPrompt, hostVars
  <2>2. ~live'.waiting
    BY <2>1 DEF ChatTypes
  <2>3. LastWords'
    BY <2>1, <2>2, FewerWords DEF InPlace
  <2>4. TurnsPlaced'
    BY <2>1, TurnsStill DEF InPlace
  <2>5. QED
    BY <2>1, <2>3, <2>4 DEF InPlace
<1>6. CASE RefusedRevision
  <2>1. /\ ~chatBusy /\ chats' = chats /\ live' = NothingLive /\ dueAnswer' = 0 /\ backup' = NoBackup
        /\ UNCHANGED <<awaited, replies, toPanel, askedIn, stopped>>
    BY <1>6 DEF RefusedRevision, Persist
  <2>2. ~live'.waiting
    BY <2>1 DEF NothingLive
  <2>3. QED
    BY <1>1, <2>1, <2>2, InPlaceTurned
<1>7. CASE StopPrompt
  BY <1>7, InPlaceStopped
<1>8. CASE NewChat \/ SwitchChat \/ DeleteChat \/ ClearChats
  <2>1. PICK h \in HistorySet : \E c \in DOMAIN h :
           /\ Persist(h, c)
           /\ \A d \in DOMAIN h : (d \in DOMAIN chats /\ h[d] = chats[d]) \/ h[d] = <<>>
    BY <1>8, Turned
  <2>2. chats' = h
    BY <2>1 DEF Persist
  <2>3. /\ ~chatBusy /\ live' = [live EXCEPT !.painted = FALSE]
        /\ UNCHANGED <<awaited, dueAnswer, backup, replies, toPanel, askedIn, stopped>>
    BY <1>8 DEF NewChat, SwitchChat, DeleteChat, ClearChats, ChatCommand
  <2>4. live'.waiting => live.waiting
    BY <2>3 DEF ChatTypes
  <2>5. awaited = 0 /\ backup' = NoBackup
    BY <1>1, <2>3, NothingMissing
  <2>6. QED
    BY <1>2, <2>1, <2>2, <2>3, <2>4, <2>5, InPlaceTurned
<1>9. CASE ListModels \/ ModelsListed
  <2>1. UNCHANGED <<chats, current, awaited, live, dueAnswer, backup, replies, toPanel, askedIn, stopped>>
    BY <1>9 DEF ListModels, ModelsListed
  <2>2. LastWords'
    BY <2>1, FewerWords DEF InPlace
  <2>3. TurnsPlaced'
    BY <2>1, TurnsStill DEF InPlace
  <2>4. QED
    BY <2>1, <2>2, <2>3 DEF InPlace
<1>10. QED
  BY <1>3, <1>4, <1>5, <1>6, <1>7, <1>8, <1>9 DEF Conversing

LEMMA InPlaceKept ==
    ASSUME ChatTypes, OwedInv, Arrived, InPlace, ~chatScope.slow, [ChatNext]_chatVars
    PROVE  InPlace'
<1>1. CASE Conversing
  BY <1>1, InPlaceConversing
<1>2. ASSUME NEW p \in Prompts, ReplyStep(p) PROVE InPlace'
  BY <1>2, InPlaceReply
<1>3. CASE LoadHistory
  BY <1>3 DEF LoadHistory, Arrived
<1>4. CASE SaveNext \/ UNCHANGED chatVars
  <2>1. UNCHANGED <<chats, current, awaited, live, dueAnswer, backup, replies, toPanel, askedIn, stopped>>
    BY <1>4 DEF SaveNext, Stored, chatVars, webviewVars, hostVars
  <2>2. LastWords'
    BY <2>1, FewerWords DEF InPlace
  <2>3. TurnsPlaced'
    BY <2>1, TurnsStill DEF InPlace
  <2>4. QED
    BY <2>1, <2>2, <2>3 DEF InPlace
<1>5. CASE TakeHistory
  <2>1. toPanel # <<>> /\ Head(toPanel).type = "history" /\ toPanel' = Tail(toPanel)
    BY <1>5, HistoryTaken
  <2>2. Head(toPanel) = toPanel[1] /\ 1 \in DOMAIN toPanel
    BY <2>1, TakenFirst
  <2>3. QED
    BY <2>1, <2>2 DEF Arrived
<1>6. CASE Receiving /\ ~TakeHistory
  BY <1>6, InPlaceFragment, InPlaceDropped, InPlaceTaken, InPlacePainted DEF Receiving
<1>7. QED
  BY <1>1, <1>2, <1>3, <1>4, <1>5, <1>6 DEF ChatNext, Receiving

-----------------------------------------------------------------------------
(* The invariant *)

LEMMA StoredAtFirst ==
    ASSUME NEW s \in ChatScopes
    PROVE  /\ s.document \in Documents /\ Conversations \ DOMAIN s.document.chats # {}
           /\ \A c \in DOMAIN s.document.chats : \A i \in DOMAIN s.document.chats[c] :
                 s.document.chats[c][i].of = 0
<1> DEFINE old == s.document
           First == {Said(role, 0) : role \in Speakers}
<1>1. /\ old \in [chats : {old.chats}, current : Conversations]
      /\ IsHistory(old.chats, First)
      /\ DOMAIN old.chats # Conversations /\ (DOMAIN old.chats # {} => old.current \in DOMAIN old.chats)
  BY ChatAssumption
<1> HIDE DEF old
<1>2. PICK held \in SUBSET Conversations : old.chats \in [held -> Seq(First)]
  BY <1>1 DEF IsHistory
<1>3. First \subseteq Turns /\ \A m \in First : m.of = 0
  BY SaidTyped, PromptTyped
<1> HIDE DEF First
<1>4. ASSUME NEW c \in held
      PROVE  old.chats[c] \in Seq(Turns) /\ \A i \in DOMAIN old.chats[c] : old.chats[c][i].of = 0
  <2> DEFINE t == old.chats[c]
  <2>1. t \in Seq(First)
    BY <1>2
  <2> HIDE DEF t
  <2>2. Len(t) \in Nat /\ DOMAIN t = 1..Len(t) /\ \A i \in DOMAIN t : t[i] \in First
    BY <2>1, LenProperties, ElementOfSeq
  <2>3. t \in [1..Len(t) -> First]
    BY <2>1, LenProperties
  <2>4. t \in [1..Len(t) -> Turns]
    BY <1>3, <2>3
  <2>5. t \in Seq(Turns)
    BY <2>2, <2>4, SeqDef
  <2>6. \A i \in DOMAIN t : t[i].of = 0
    BY <1>3, <2>2
  <2>7. QED
    BY <2>5, <2>6 DEF t
<1>5. old.chats \in [held -> Seq(Turns)] /\ DOMAIN old.chats = held
  BY <1>2, <1>4
<1>6. old.chats \in HistorySet
  BY <1>5, HistoryMade
<1>7. old \in Documents
  BY <1>1, <1>6 DEF Documents
<1>8. Conversations \ held # {}
  BY <1>1, <1>5
<1>9. QED
  BY <1>4, <1>5, <1>7, <1>8 DEF old

LEMMA ChatInvInit == ChatInit => ChatInv
<1> SUFFICES ASSUME ChatInit PROVE ChatInv
  OBVIOUS
<1>1. chatScope \in ChatScopes /\ document = chatScope.document
  BY DEF ChatInit
<1>2. /\ document \in Documents /\ Conversations \ DOMAIN document.chats # {}
      /\ \A c \in DOMAIN document.chats : \A i \in DOMAIN document.chats[c] : document.chats[c][i].of = 0
  BY <1>1, StoredAtFirst
<1>3. current \in Conversations
  BY <1>2 DEF ChatInit
<1>4. chats \in HistorySet /\ DOMAIN chats = {current} /\ chats[current] = <<>>
  BY <1>3, BlankMade DEF ChatInit
<1>5. <<>> \in Seq(Saves) /\ <<>> \in Seq(PanelMessages)
  OBVIOUS
<1>6. chatScope \in [document : {chatScope.document}, late : BOOLEAN, slow : BOOLEAN, failing : BOOLEAN,
                     commands : Int, prompts : Nat, saves : Nat]
  <2>1. chatScope \in [document : {chatScope.document}, late : BOOLEAN, slow : BOOLEAN, failing : BOOLEAN,
                       commands : Nat, prompts : Nat, saves : Nat]
    BY <1>1, ChatAssumption
  <2>2. chatScope.commands \in Int
    BY <2>1
  <2>3. QED
    BY <2>1, <2>2
<1>7. ChatTypes
  <2>1. live \in [waiting : BOOLEAN, painted : BOOLEAN] /\ awaited \in 0..MaxPrompts /\ dueAnswer \in 0..MaxPrompts
    BY PromptTyped DEF ChatInit, NothingLive
  <2>2. replies \in [Prompts -> ReplyStates] /\ askedIn \in [Prompts -> Conversations]
    BY <1>3 DEF ChatInit, ReplyStates
  <2>3. current \in DOMAIN chats /\ chain \in Seq(Saves) /\ toPanel \in Seq(PanelMessages)
    BY <1>4, <1>5 DEF ChatInit
  <2>4. /\ chatBusy \in BOOLEAN /\ listingModels \in BOOLEAN /\ loading \in BOOLEAN /\ saveFailed \in BOOLEAN
        /\ backup = NoBackup /\ stopped \subseteq Prompts
    BY DEF ChatInit
  <2>5. QED
    BY <1>1, <1>2, <1>4, <1>6, <2>1, <2>2, <2>3, <2>4 DEF ChatTypes
<1>8. OwedInv
  BY DEF ChatInit, OwedInv, AnswerOwed
<1>9. Arriving /\ ~Arrived
  BY <1>2, <1>4 DEF ChatInit, Arriving, Arrived
<1>10. InPlace
  BY <1>9, ArrivingIs, UnsaidInPlace
<1>11. QED
  BY <1>7, <1>8, <1>9, <1>10 DEF ChatInv

LEMMA ChatInvNext == ChatInv /\ [ChatNext]_chatVars => ChatInv'
<1> SUFFICES ASSUME ChatInv, [ChatNext]_chatVars PROVE ChatInv'
  OBVIOUS
<1>1. ChatTypes /\ OwedInv
  BY DEF ChatInv
<1>2. ChatTypes' /\ OwedInv'
  BY <1>1, ChatTypesKept, OwedKept
<1>3. /\ chatScope'.late = chatScope.late /\ chatScope'.slow = chatScope.slow
      /\ chatScope'.failing = chatScope.failing
  BY <1>1, ChatScopeKept
<1>4. ASSUME ~chatScope.late, Arriving
      PROVE  /\ Arriving' \/ Arrived'
             /\ ~chatScope.failing /\ Arrived' => SavedLast'
             /\ InPlace'
  <2>1. /\ Arriving' \/ Arrived'
        /\ Unsaid'
        /\ ~chatScope.failing /\ Arrived' => SavedLast'
    BY <1>1, <1>4, ArrivingStep
  <2>2. Unsaid' => InPlace'
    BY UnsaidInPlace, PTL
  <2>3. QED
    BY <2>1, <2>2
<1>5. ASSUME ~chatScope.late, Arrived
      PROVE  /\ Arrived'
             /\ ~chatScope.failing => SavedLast'
             /\ ~chatScope.slow => InPlace'
  BY <1>1, <1>5, ArrivedKept, SavedKept, InPlaceKept DEF ChatInv
<1>6. ASSUME ~chatScope.late
      PROVE  /\ Arriving' \/ Arrived'
             /\ ~chatScope.failing /\ Arrived' => SavedLast'
             /\ ~chatScope.slow => InPlace'
  BY <1>4, <1>5, <1>6 DEF ChatInv
<1>7. QED
  BY <1>2, <1>3, <1>6 DEF ChatInv

LEMMA ChatInvAlways == ChatSpec => []ChatInv
  BY ChatInvInit, ChatInvNext, PTL DEF ChatSpec

LEMMA PlacedTells ==
    ASSUME InPlace
    PROVE  /\ backup # NoBackup => awaited # 0
           /\ \A c \in DOMAIN chats : \A i \in DOMAIN chats[c] :
                 LET m == chats[c][i] IN
                 m.of # 0 =>
                   /\ askedIn[m.of] = c
                   /\ m.role # "user" => i > 1 /\ chats[c][i - 1] = Said("user", m.of)
                   /\ m.role = "user" =>
                         \/ m.of = awaited \/ m.of \in stopped
                         \/ i < Len(chats[c]) /\ chats[c][i + 1].of = m.of
  BY DEF InPlace, TurnsPlaced, Placed

\* The chat tells the truth: every question of this session stands in the conversation
\* it was asked in with its answer next to it, a revision under way is settled, and the
\* webview that is busy is owed an answer (messages.js, outils.js, sharedHandlers.ts).
THEOREM ChatIsTold == ChatSpec => []ChatTells
<1>1. ChatInv => ChatTells
  BY PlacedTells DEF ChatInv, OwedInv, ChatTells, AnswersInPlace
<1>2. QED
  BY <1>1, ChatInvAlways, PTL

\* When no save is left and none was refused, what is stored is what is shown
\* (chatHistoryBridge.ts, chat_history.py).
THEOREM StoreFollowsChats == ChatSpec => []StoreFollows
<1>1. ChatInv => StoreFollows
  BY DEF ChatInv, StoreFollows, HistoryThere, Arrived, SavedLast, Alike
<1>2. QED
  BY <1>1, ChatInvAlways, PTL

-----------------------------------------------------------------------------
(* A captured trace *)

MetSteps == [addr : Mapped, before : Nat, after : Nat, external : Nat]
Snapshots == [addr : Mapped, step : Nat, before : Nat, after : Nat, external : Nat]
CrashTypes == {"unmapped_read", "unmapped_fetch", "stack_chk_fail"}

CaptureTypes ==
    /\ trace \in Traces
    /\ now \in Nat /\ bytes \in Nat
    /\ emulator \in {"hooks", "insn", "fetch", "end", "done"}
    /\ error \in {"", "fetch", "read", "insn"}
    /\ pending \in [addr : {Null} \cup Mapped, step : Nat, before : Nat]
    /\ snapshots \in Seq(Snapshots) /\ executed \in Seq(MetSteps)
    /\ limitReached \in BOOLEAN /\ restarted \in BOOLEAN
    /\ events \in [{Null} \cup Mapped -> Seq(Nat)]
    /\ context = NoContext \/ context.type \in CrashTypes

Stopped == emulator \in {"end", "done"}
Met == executed[Len(executed)]

\* The instruction that has no snapshot yet is the last that was met, as it was met.
UnderWay ==
    /\ pending.step = Len(snapshots) + 1 /\ Len(executed) = Len(snapshots) + 1
    /\ Len(snapshots) < trace.maxSteps
    /\ pending.addr \in trace.captured
    /\ pending.addr = Met.addr /\ pending.before = Met.before
    /\ Met.after = now \/ (restarted /\ snapshots = <<>>)

\* Nothing is met without a snapshot, but at a limit.
AllShown ==
    \/ Len(executed) = Len(snapshots)
    \/ Stopped /\ limitReached
    \/ Stopped /\ error = "" /\ Len(snapshots) = trace.maxSteps /\ Met.external = 0

PendingInv ==
    /\ pending # NothingPending => UnderWay
    /\ pending = NothingPending => AllShown

\* A snapshot tells of the instruction met at its place.
Tells(s, e, i, again) ==
    /\ s.step = i /\ s.addr = e.addr /\ s.before = e.before /\ s.external = e.external
    /\ s.after = e.after \/ (again /\ i = 1)

ShownInv ==
    /\ Len(snapshots) <= trace.maxSteps /\ bytes <= trace.maxBytes
    /\ Len(snapshots) <= Len(executed)
    /\ \A i \in 1..Len(snapshots) : Tells(snapshots[i], executed[i], i, restarted)

\* The events kept under a captured address are those of the instruction under way.
EventsInv ==
    \A a \in trace.captured :
        events[a] = IF pending # NothingPending /\ pending.addr = a /\ Met.external # 0
                    THEN <<Met.external>> ELSE <<>>

\* The hooks of an instruction that is about to run have seen it.
HookedInv ==
    /\ emulator = "insn" => (pending # NothingPending <=> pc \in trace.captured)
    /\ emulator = "insn" /\ pending # NothingPending => pending.addr = pc /\ Met.external = 0
    /\ emulator \in {"hooks", "insn", "fetch"} => error = "" /\ ~limitReached
    /\ ~restarted /\ emulator \in {"hooks", "insn", "fetch"} => context = NoContext
    /\ emulator = "done" => pending = NothingPending

\* The last instruction was a stack check that failed.
Smashed == executed # <<>> /\ Met.external # 0 /\ Insn(Met.addr).import = "smash"

\* How the emulator came to its end.
EndInv ==
    emulator = "end" =>
        /\ error \in {"read", "insn"} => Insn(pc).op \in {"plain", "fault", "bad"} /\ pc # Stub
        /\ error \in {"read", "insn"} /\ pc \in trace.captured =>
               pending # NothingPending /\ pending.addr = pc
        /\ error = "read" => context = BadRead
        /\ error = "insn" /\ ~restarted => context = NoContext
        /\ error = "fetch" => context = [type |-> "unmapped_fetch", at |-> pc]
SmashInv ==
    Smashed /\ ~restarted /\ emulator # "done" =>
        emulator = "end" /\ error = "" /\ context.type = "stack_chk_fail"

CaptureInv ==
    /\ CaptureTypes /\ PendingInv /\ ShownInv /\ EventsInv /\ HookedInv /\ EndInv /\ SmashInv
    /\ CrashTold

LEMMA TraceFacts ==
    ASSUME trace \in Traces
    PROVE  /\ trace.captured \subseteq Mapped /\ trace.maxSteps \in Nat /\ trace.maxBytes \in Nat
           /\ trace.sizes \in Nat /\ ProgramSize \in Nat /\ trace.start \in 1..ProgramSize
  <1>1. {trace.maxSteps, trace.maxBytes, trace.sizes} \subseteq Nat
    BY TraceCaptureAssumption, Zenon
  <1>2. /\ trace.captured \subseteq Mapped /\ trace.start \in 1..ProgramSize
        /\ ProgramSize \in Nat
    BY TraceCaptureAssumption
  <1> QED
    BY <1>1, <1>2

LEMMA NullUnmapped ==
    ASSUME trace \in Traces
    PROVE  Null \notin Mapped /\ Null \notin trace.captured /\ Stub \in Mapped /\ Interpreter \in Mapped
           /\ Interpreter \notin 1..ProgramSize /\ Stub \notin 1..ProgramSize /\ 1..ProgramSize \subseteq Mapped
  BY TraceFacts DEF Null, Mapped, Interpreter, Stub

LEMMA LastMet ==
    ASSUME executed \in Seq(MetSteps), executed # <<>>
    PROVE  /\ Len(executed) \in Nat \ {0} /\ Len(executed) \in 1..Len(executed)
           /\ Met \in MetSteps /\ Last(executed) = Met
  <1>1. Len(executed) \in Nat \ {0} /\ Len(executed) \in 1..Len(executed)
    BY EmptySeq, LenProperties
  <1> QED
    BY <1>1, ElementOfSeq DEF Met, Last

\* What is left of the last instruction met.
LEMMA LeftFacts ==
    ASSUME executed \in Seq(MetSteps), executed # <<>>, NEW n \in Nat, NEW x \in Nat
    PROVE  /\ Left(n, x) \in Seq(MetSteps) /\ Len(Left(n, x)) = Len(executed)
           /\ \A i \in 1..Len(executed) : i # Len(executed) => Left(n, x)[i] = executed[i]
           /\ Left(n, x)[Len(executed)].addr = Met.addr
           /\ Left(n, x)[Len(executed)].before = Met.before
           /\ Left(n, x)[Len(executed)].after = n
           /\ Left(n, x)[Len(executed)].external = x
  <1> DEFINE last == [Last(executed) EXCEPT !.after = n, !.external = x]
  <1>1. Len(executed) \in 1..Len(executed)
    BY LastMet
  <1>2. Last(executed) = Met /\ Met \in MetSteps
    BY LastMet
  <1>3. /\ last \in MetSteps /\ last.addr = Met.addr /\ last.before = Met.before
        /\ last.after = n /\ last.external = x
    BY <1>2 DEF MetSteps
  <1>4. Left(n, x) = [executed EXCEPT ![Len(executed)] = last]
    BY DEF Left
  <1> HIDE DEF last
  <1>5. /\ Left(n, x) \in Seq(MetSteps) /\ Len(Left(n, x)) = Len(executed)
        /\ \A i \in 1..Len(executed) : Left(n, x)[i] = IF i = Len(executed) THEN last ELSE executed[i]
    BY <1>1, <1>3, <1>4, ExceptSeq
  <1>6. Left(n, x)[Len(executed)] = last
    BY <1>1, <1>5
  <1> QED
    BY <1>3, <1>5, <1>6

LEMMA CaptureStarts == CaptureInit => CaptureInv
  <1> SUFFICES ASSUME CaptureInit PROVE CaptureInv
    OBVIOUS
  <1>0. trace \in Traces
    BY DEF CaptureInit
  <1>1. CaptureTypes
    <2>1. limitReached \in BOOLEAN /\ restarted \in BOOLEAN
      BY Zenon DEF CaptureInit
    <2>2. pending \in [addr : {Null} \cup Mapped, step : Nat, before : Nat]
      BY DEF CaptureInit, NothingPending
    <2>3. events \in [{Null} \cup Mapped -> Seq(Nat)] /\ snapshots \in Seq(Snapshots) /\ executed \in Seq(MetSteps)
      BY EmptySeq DEF CaptureInit
    <2>4. /\ now \in Nat /\ bytes \in Nat /\ emulator = "hooks" /\ error = "" /\ context = NoContext
      BY DEF CaptureInit
    <2> QED
      BY <1>0, <2>1, <2>2, <2>3, <2>4, Zenon DEF CaptureTypes
  <1>2. PendingInv /\ ShownInv /\ EventsInv
    <2>1. Len(snapshots) = 0 /\ Len(executed) = 0
      BY EmptySeq DEF CaptureInit
    <2>2. PendingInv
      BY <2>1 DEF CaptureInit, PendingInv, AllShown
    <2>3. ShownInv
      <3>1. trace.maxSteps \in Nat /\ trace.maxBytes \in Nat
        BY <1>0, TraceFacts
      <3>2. bytes = 0
        BY DEF CaptureInit
      <3> QED
        BY <2>1, <3>1, <3>2 DEF ShownInv
    <2>4. EventsInv
      <3>1. trace.captured \subseteq {Null} \cup Mapped
        BY <1>0, TraceFacts
      <3>2. pending = NothingPending /\ \A a \in {Null} \cup Mapped : events[a] = <<>>
        BY DEF CaptureInit
      <3> QED
        BY <3>1, <3>2 DEF EventsInv
    <2> QED
      BY <2>2, <2>3, <2>4
  <1>3. HookedInv /\ EndInv /\ SmashInv /\ CrashTold
    BY DEF CaptureInit, HookedInv, EndInv, SmashInv, Smashed, CrashTold
  <1> QED
    BY <1>1, <1>2, <1>3 DEF CaptureInv

\* An instruction, or a call that was simulated in its place: all it disturbs is the
\* last instruction met.
LEMMA RanTells ==
    ASSUME CaptureInv, emulator = "insn", NEW x \in Nat,
           UNCHANGED <<trace, pending, snapshots, bytes, limitReached, restarted>>,
           now' = now + 1, Leaves(now', x),
           \A a \in trace.captured : events'[a] = IF a = pc /\ x # 0 THEN <<x>> ELSE <<>>
    PROVE  /\ now' \in Nat /\ executed' \in Seq(MetSteps) /\ Len(executed') = Len(executed)
           /\ PendingInv' /\ ShownInv' /\ EventsInv'
           /\ Smashed' /\ ~restarted => pc \in trace.captured /\ x # 0 /\ Insn(pc).import = "smash"
  <1>0. now \in Nat /\ executed \in Seq(MetSteps) /\ snapshots \in Seq(Snapshots) /\ trace \in Traces
    BY DEF CaptureInv, CaptureTypes
  <1>1. /\ now \in Nat /\ executed \in Seq(MetSteps) /\ snapshots \in Seq(Snapshots) /\ trace \in Traces
        /\ now' \in Nat
    BY <1>0
  <1>2. Len(snapshots) \in Nat /\ Len(executed) \in Nat
    BY <1>1, LenProperties
  <1>3. CASE pc \in trace.captured
    <2>1. /\ pending # NothingPending /\ pending.addr = pc /\ UnderWay
      BY <1>3 DEF CaptureInv, HookedInv, PendingInv
    <2>2. executed # <<>> /\ Len(executed) = Len(snapshots) + 1
      BY <2>1, <1>1, <1>2, EmptySeq DEF UnderWay
    <2>3. executed' = Left(now', x)
      BY <1>3 DEF Leaves
    <2>4. /\ executed' \in Seq(MetSteps) /\ Len(executed') = Len(executed)
          /\ \A i \in 1..Len(executed) : i # Len(executed) => executed'[i] = executed[i]
          /\ Met'.addr = Met.addr /\ Met'.before = Met.before /\ Met'.after = now' /\ Met'.external = x
      BY <1>1, <2>2, <2>3, LeftFacts DEF Met
    <2>5. PendingInv'
      BY <2>1, <2>2, <2>4 DEF PendingInv, UnderWay
    <2>6. ShownInv'
      <3>1. \A i \in 1..Len(snapshots) : executed'[i] = executed[i]
        BY <2>2, <2>4, <1>2
      <3> QED
        BY <3>1, <2>4, <1>2 DEF CaptureInv, ShownInv
    <2>7. EventsInv'
      BY <2>1, <2>4 DEF EventsInv
    <2>8. Smashed' => x # 0 /\ Insn(pc).import = "smash"
      <3>1. Met.addr = pc
        BY <2>1 DEF UnderWay
      <3> QED
        BY <3>1, <2>4 DEF Smashed, Insn
    <2> QED
      BY <1>1, <1>3, <2>4, <2>5, <2>6, <2>7, <2>8
  <1>4. CASE pc \notin trace.captured
    <2>1. pending = NothingPending /\ executed' = executed
      BY <1>4 DEF CaptureInv, HookedInv, Leaves
    <2>2. Len(executed) = Len(snapshots)
      BY <2>1 DEF CaptureInv, PendingInv, AllShown, Stopped
    <2>3. PendingInv' /\ ShownInv'
      BY <2>1, <2>2 DEF CaptureInv, PendingInv, AllShown, ShownInv
    <2>4. EventsInv'
      BY <2>1, <1>4 DEF EventsInv
    <2>5. ~(Smashed' /\ ~restarted)
      BY <2>1 DEF CaptureInv, SmashInv, Smashed, Met, Insn
    <2> QED
      BY <1>1, <2>1, <2>3, <2>4, <2>5
  <1> QED
    BY <1>3, <1>4

-----------------------------------------------------------------------------
(* The snapshot of the instruction under way *)

\* Whichever way it goes, no event is left behind and nothing is told that was not met.
LEMMA FinalizedTells ==
    ASSUME CaptureInv, FinalizePending
    PROVE  /\ snapshots' \in Seq(Snapshots) /\ bytes' \in Nat /\ limitReached' \in BOOLEAN
           /\ events' \in [{Null} \cup Mapped -> Seq(Nat)]
           /\ Len(snapshots') <= trace.maxSteps /\ bytes' <= trace.maxBytes
           /\ Len(snapshots') <= Len(executed)
           /\ \A i \in 1..Len(snapshots') : Tells(snapshots'[i], executed[i], i, restarted)
           /\ \A a \in trace.captured : events'[a] = <<>>
           /\ Len(snapshots') = Len(executed) \/ limitReached' 
              \/ /\ pending = NothingPending /\ AllShown
                 /\ Len(snapshots') = Len(snapshots) /\ (limitReached => limitReached')
  <1>0. /\ now \in Nat /\ executed \in Seq(MetSteps) /\ snapshots \in Seq(Snapshots) /\ trace \in Traces
        /\ bytes \in Nat /\ events \in [{Null} \cup Mapped -> Seq(Nat)]
        /\ pending \in [addr : {Null} \cup Mapped, step : Nat, before : Nat]
    BY DEF CaptureInv, CaptureTypes
  <1>00. limitReached \in BOOLEAN
    BY DEF CaptureInv, CaptureTypes
  <1>1. /\ Len(snapshots) \in Nat /\ Len(executed) \in Nat /\ trace.captured \subseteq Mapped
        /\ trace.maxSteps \in Nat /\ trace.maxBytes \in Nat
    BY <1>0, LenProperties, TraceFacts
  <1>2. CASE pending = NothingPending
    <2>1. UNCHANGED <<events, snapshots, bytes, limitReached>>
      BY <1>2 DEF FinalizePending
    <2>2. AllShown
      BY <1>2 DEF CaptureInv, PendingInv
    <2>3. \A a \in trace.captured : events[a] = <<>>
      BY <1>2 DEF CaptureInv, EventsInv
    <2>4. /\ Len(snapshots) <= trace.maxSteps /\ bytes <= trace.maxBytes /\ Len(snapshots) <= Len(executed)
          /\ \A i \in 1..Len(snapshots) : Tells(snapshots[i], executed[i], i, restarted)
      BY DEF CaptureInv, ShownInv
    <2> QED
      BY <1>0, <1>00, <1>2, <2>1, <2>2, <2>3, <2>4, Zenon
  <1>3. CASE pending # NothingPending
    <2>1. PICK size \in 1..trace.sizes : Finalized(size)
      BY <1>3 DEF FinalizePending
    <2> DEFINE queue == events[pending.addr]
               shot == [addr |-> pending.addr, step |-> pending.step, before |-> pending.before,
                        after |-> now, external |-> IF queue = <<>> THEN 0 ELSE Head(queue)]
               fits == bytes + size <= trace.maxBytes
    <2>2. size \in Nat
      BY <1>0, TraceFacts
    <2>3. UnderWay
      BY <1>3 DEF CaptureInv, PendingInv
    <2>4. executed # <<>> /\ Met \in MetSteps /\ Len(executed) = Len(snapshots) + 1
      <3>1. Len(executed) \in 1..Len(executed) /\ Len(executed) = Len(snapshots) + 1
        BY <2>3, <1>1 DEF UnderWay
      <3> QED
        BY <3>1, <1>0, ElementOfSeq, EmptySeq DEF Met
    <2>5. queue = IF Met.external # 0 THEN <<Met.external>> ELSE <<>>
      BY <1>3, <2>3 DEF CaptureInv, EventsInv, UnderWay
    <2>6. (IF queue = <<>> THEN 0 ELSE Head(queue)) = Met.external /\ Met.external \in Nat
      BY <2>4, <2>5 DEF MetSteps
    <2>7. (IF queue = <<>> THEN queue ELSE Tail(queue)) = <<>>
      BY <2>4, <2>5 DEF MetSteps
    <2>8. pending.addr \in Mapped /\ pending.addr \in trace.captured
      BY <1>1, <2>3 DEF UnderWay
    <2>9. shot \in Snapshots
      BY <1>0, <2>6, <2>8 DEF Snapshots
    <2>10. Tells(shot, Met, Len(executed), restarted)
      <3>1. Met.after = now \/ (restarted /\ Len(executed) = 1)
        BY <2>3, <1>1, EmptySeq DEF UnderWay
      <3>2. /\ shot.addr = Met.addr /\ shot.before = Met.before /\ shot.external = Met.external
            /\ shot.after = now /\ shot.step = Len(executed)
        BY <2>3, <2>6 DEF UnderWay
      <3> HIDE DEF shot
      <3> QED
        BY <3>1, <3>2 DEF Tells
    <2>11. /\ events' = [events EXCEPT ![pending.addr] = IF @ = <<>> THEN @ ELSE Tail(@)]
           /\ snapshots' = (IF fits THEN Append(snapshots, shot) ELSE snapshots)
           /\ bytes' = (IF fits THEN bytes + size ELSE bytes)
           /\ limitReached' = (limitReached \/ ~fits)
      BY <2>1 DEF Finalized
    <2> HIDE DEF shot, fits
    <2>12. /\ events' \in [{Null} \cup Mapped -> Seq(Nat)]
           /\ \A a \in trace.captured : events'[a] = <<>>
      <3>1. events' = [events EXCEPT ![pending.addr] = <<>>]
        BY <2>7, <2>11
      <3>2. \A a \in trace.captured : a # pending.addr => events[a] = <<>>
        BY DEF CaptureInv, EventsInv
      <3>3. <<>> \in Seq(Nat)
        BY EmptySeq
      <3> QED
        BY <3>1, <3>2, <3>3, <1>0, <1>1, <2>8
    <2>13. limitReached' \in BOOLEAN /\ (~fits => limitReached')
      BY <2>11, Zenon
    <2>14. \A i \in 1..Len(snapshots) : Tells(snapshots[i], executed[i], i, restarted)
      BY DEF CaptureInv, ShownInv
    <2>15. CASE fits
      <3>1. /\ snapshots' = Append(snapshots, shot) /\ bytes' = bytes + size
            /\ bytes + size <= trace.maxBytes
        BY <2>11, <2>15 DEF fits
      <3>2. /\ snapshots' \in Seq(Snapshots) /\ Len(snapshots') = Len(executed)
            /\ \A i \in 1..Len(snapshots) : snapshots'[i] = snapshots[i]
            /\ snapshots'[Len(executed)] = shot
        BY <3>1, <2>9, <2>4, <1>0, AppendProperties
      <3>3. ASSUME NEW i \in 1..Len(snapshots')
            PROVE  Tells(snapshots'[i], executed[i], i, restarted)
        <4>1. CASE i \in 1..Len(snapshots)
          BY <4>1, <3>2, <2>14
        <4>2. CASE i = Len(executed)
          BY <4>2, <3>2, <2>10 DEF Met
        <4> QED
          BY <4>1, <4>2, <3>2, <2>4, <1>1
      <3>4. Len(snapshots') <= trace.maxSteps /\ bytes' <= trace.maxBytes /\ bytes' \in Nat
        BY <3>1, <3>2, <2>2, <2>3, <2>4, <1>0, <1>1 DEF UnderWay
      <3> QED
        BY <3>2, <3>3, <3>4, <2>12, <2>13, <1>1, SMTT(60)
    <2>16. CASE ~fits
      <3>1. snapshots' = snapshots /\ bytes' = bytes
        BY <2>11, <2>16
      <3>2. Len(snapshots) <= trace.maxSteps /\ bytes <= trace.maxBytes /\ Len(snapshots) <= Len(executed)
        BY DEF CaptureInv, ShownInv
      <3> QED
        BY <3>1, <3>2, <1>0, <2>12, <2>13, <2>14, <2>16, Zenon
    <2> QED
      BY <2>15, <2>16
  <1> QED
    BY <1>2, <1>3

-----------------------------------------------------------------------------
(* The steps *)

LEMMA HookCodeKeeps == ASSUME CaptureInv, HookCode PROVE CaptureInv'
  <1> DEFINE met == [addr |-> pc, before |-> now', after |-> now', external |-> 0]
             full == Len(snapshots') >= trace.maxSteps
             captured == ~limitReached' /\ pc \in trace.captured
  <1>1. /\ emulator = "hooks" /\ pc \in Mapped /\ FinalizePending
        /\ UNCHANGED <<trace, pc, words, context, error, restarted, verdict>>
        /\ now' = now \/ now' = now + 1
        /\ pending' = IF captured /\ ~full
                      THEN [addr |-> pc, step |-> Len(snapshots') + 1, before |-> now'] ELSE NothingPending
        /\ executed' = IF pc \in trace.captured THEN Append(executed, met) ELSE executed
        /\ emulator' = IF limitReached' \/ (captured /\ full) \/ pc = trace.stopAt THEN "end" ELSE "insn"
    BY DEF HookCode
  <1>2. /\ now \in Nat /\ executed \in Seq(MetSteps) /\ trace \in Traces /\ error = "" /\ now' \in Nat
        /\ context = NoContext \/ context.type \in CrashTypes
    <2>1. /\ now \in Nat /\ executed \in Seq(MetSteps) /\ trace \in Traces
          /\ context = NoContext \/ context.type \in CrashTypes
      BY DEF CaptureInv, CaptureTypes
    <2>2. error = ""
      BY <1>1 DEF CaptureInv, HookedInv
    <2>3. now' \in Nat
      BY <1>1, <2>1
    <2> QED
      BY <2>1, <2>2, <2>3
  <1>3. /\ snapshots' \in Seq(Snapshots) /\ bytes' \in Nat /\ limitReached' \in BOOLEAN
        /\ events' \in [{Null} \cup Mapped -> Seq(Nat)]
        /\ Len(snapshots') <= trace.maxSteps /\ bytes' <= trace.maxBytes
        /\ Len(snapshots') <= Len(executed)
        /\ \A i \in 1..Len(snapshots') : Tells(snapshots'[i], executed[i], i, restarted)
        /\ \A a \in trace.captured : events'[a] = <<>>
        /\ Len(snapshots') = Len(executed) \/ limitReached'
    BY <1>1, FinalizedTells DEF AllShown, Stopped
  <1>4. /\ Len(snapshots') \in Nat /\ Len(executed) \in Nat /\ trace.maxSteps \in Nat
        /\ trace.captured \subseteq Mapped /\ Null \notin trace.captured
    BY <1>2, <1>3, LenProperties, TraceFacts, NullUnmapped
  <1>5. met \in MetSteps
    BY <1>1, <1>2 DEF MetSteps
  <1>50. met.addr = pc /\ met.before = now' /\ met.after = now' /\ met.external = 0
    OBVIOUS
  <1> HIDE DEF met
  <1>51. /\ Append(executed, met) \in Seq(MetSteps) /\ Len(Append(executed, met)) = Len(executed) + 1
         /\ \A i \in 1..Len(executed) : Append(executed, met)[i] = executed[i]
         /\ Append(executed, met)[Len(executed) + 1] = met
    <2>1. executed \in Seq(MetSteps)
      BY <1>2
    <2> QED
      BY <2>1, <1>5, AppendProperties
  <1>52. /\ pc \in trace.captured => Len(executed') = Len(executed) + 1 /\ Met' = met
         /\ pc \notin trace.captured => executed' = executed
    BY <1>1, <1>51 DEF Met
  <1>6. /\ executed' \in Seq(MetSteps) /\ Len(executed') \in {Len(executed), Len(executed) + 1}
        /\ \A i \in 1..Len(executed) : executed'[i] = executed[i]
    BY <1>1, <1>2, <1>51
  <1>7. ASSUME pc \in trace.captured /\ ~limitReached' /\ ~full
        PROVE  PendingInv' /\ EventsInv' /\ HookedInv' /\ SmashInv'
    <2>1. pending' = [addr |-> pc, step |-> Len(snapshots') + 1, before |-> now']
      BY <1>7, <1>1
    <2>2. Len(executed') = Len(snapshots') + 1 /\ Met' = met
      BY <1>7, <1>3, <1>52
    <2>3. pending' # NothingPending /\ Len(snapshots') < trace.maxSteps
      BY <2>1, <1>4, <1>7 DEF NothingPending
    <2>4. PendingInv'
      BY <2>1, <2>2, <2>3, <1>1, <1>7, <1>50 DEF PendingInv, UnderWay
    <2>5. EventsInv'
      BY <2>2, <1>1, <1>3, <1>50 DEF EventsInv
    <2>6. HookedInv'
      <3>1. pending'.addr = pc /\ Met'.external = 0 /\ pc' = pc
        BY <2>1, <2>2, <1>1, <1>50
      <3>2. ~restarted => context = NoContext
        BY <1>1 DEF CaptureInv, HookedInv
      <3> QED
        BY <2>3, <3>1, <3>2, <1>1, <1>2, <1>7, Zenon DEF HookedInv
    <2>7. SmashInv'
      BY <2>2, <1>50 DEF SmashInv, Smashed
    <2> QED
      BY <2>4, <2>5, <2>6, <2>7
  <1>8. ASSUME pc \notin trace.captured \/ limitReached' \/ full
        PROVE  PendingInv' /\ EventsInv' /\ HookedInv' /\ SmashInv'
    <2>1. pending' = NothingPending
      BY <1>8, <1>1
    <2>2. PendingInv'
      <3>1. CASE pc \notin trace.captured
        <4>1. Len(executed') = Len(snapshots') \/ (emulator' = "end" /\ limitReached')
          BY <3>1, <1>1, <1>3
        <4> QED
          BY <2>1, <4>1 DEF PendingInv, AllShown, Stopped
      <3>2. CASE limitReached'
        BY <2>1, <3>2, <1>1 DEF PendingInv, AllShown, Stopped
      <3>3. CASE pc \in trace.captured /\ ~limitReached' /\ full
        <4>1. Len(snapshots') = trace.maxSteps
          BY <3>3, <1>3, <1>4
        <4>2. Met'.external = 0
          BY <3>3, <1>50, <1>52
        <4>3. emulator' = "end" /\ error' = ""
          BY <3>3, <1>1, <1>2
        <4> QED
          BY <2>1, <4>1, <4>2, <4>3, <1>1 DEF PendingInv, AllShown, Stopped
      <3> QED
        BY <1>8, <3>1, <3>2, <3>3
    <2>3. EventsInv'
      BY <2>1, <1>1, <1>3 DEF EventsInv
    <2>4. HookedInv'
      BY <2>1, <1>1, <1>2, <1>8 DEF CaptureInv, HookedInv
    <2>5. SmashInv'
      <3>1. CASE pc \in trace.captured
        <4>1. Met'.external = 0
          BY <3>1, <1>50, <1>52
        <4> QED
          BY <4>1 DEF SmashInv, Smashed
      <3>2. CASE pc \notin trace.captured
        BY <3>2, <1>1 DEF CaptureInv, SmashInv, Smashed, Met, Insn
      <3> QED
        BY <3>1, <3>2
    <2> QED
      BY <2>2, <2>3, <2>4, <2>5
  <1>9. PendingInv' /\ EventsInv' /\ HookedInv' /\ SmashInv'
    BY <1>7, <1>8, Zenon
  <1>10. CaptureTypes'
    <2>1. pending' \in [addr : {Null} \cup Mapped, step : Nat, before : Nat]
      <3>0. Len(snapshots') \in Nat
        BY <1>4
      <3>1. Len(snapshots') + 1 \in Nat
        BY <3>0
      <3>2. NothingPending \in [addr : {Null} \cup Mapped, step : Nat, before : Nat]
        BY DEF NothingPending
      <3>3. pending' \in {NothingPending, [addr |-> pc, step |-> Len(snapshots') + 1, before |-> now']}
        BY <1>1, Zenon
      <3>4. pc \in Mapped /\ now' \in Nat
        BY <1>1, <1>2, Zenon
      <3> QED
        BY <3>1, <3>2, <3>3, <3>4
    <2>2. emulator' \in {"hooks", "insn", "fetch", "end", "done"}
      BY <1>1
    <2>3. restarted \in BOOLEAN
      BY DEF CaptureInv, CaptureTypes
    <2>4. error' \in {"", "fetch", "read", "insn"}
      BY <1>1, <1>2
    <2> QED
      BY <2>1, <2>2, <2>3, <2>4, <1>1, <1>2, <1>3, <1>6, Zenon DEF CaptureTypes
  <1>11. ShownInv'
    <2>1. \A i \in 1..Len(snapshots') : executed'[i] = executed[i]
      BY <1>3, <1>4, <1>6
    <2>2. Len(snapshots') <= Len(executed')
      BY <1>3, <1>4, <1>6
    <2> QED
      BY <2>1, <2>2, <1>1, <1>3 DEF ShownInv
  <1>12. EndInv' /\ CrashTold'
    BY <1>1, <1>2 DEF EndInv, CrashTold
  <1> QED
    BY <1>9, <1>10, <1>11, <1>12 DEF CaptureInv

LEMMA BadReadCrash ==
    BadRead.type = "unmapped_read" /\ BadRead.type \in CrashTypes /\ NoContext.type = ""
  BY DEF BadRead, CrashTypes, NoContext

\* What the steps of the machine leave alone, and what they need of the state.
LEMMA Running ==
    ASSUME CaptureInv, emulator \in {"insn", "fetch"}
    PROVE  /\ trace \in Traces /\ now \in Nat /\ bytes \in Nat /\ limitReached = FALSE /\ error = ""
           /\ restarted \in BOOLEAN /\ pending \in [addr : {Null} \cup Mapped, step : Nat, before : Nat]
           /\ snapshots \in Seq(Snapshots) /\ executed \in Seq(MetSteps)
           /\ events \in [{Null} \cup Mapped -> Seq(Nat)]
           /\ context = NoContext \/ (restarted /\ context.type \in CrashTypes)
           /\ ~(Smashed /\ ~restarted)
  <1>1. error = "" /\ ~limitReached /\ (~restarted => context = NoContext)
    BY DEF CaptureInv, HookedInv
  <1>2. ~(Smashed /\ ~restarted)
    BY DEF CaptureInv, SmashInv
  <1> QED
    BY <1>1, <1>2, Zenon DEF CaptureInv, CaptureTypes

\* The invariant after a step of the machine, from what it keeps of it.
LEMMA MachineKeeps ==
    ASSUME CaptureInv, emulator = "insn", NEW x \in Nat,
           UNCHANGED <<trace, pending, snapshots, bytes, limitReached, restarted, verdict>>,
           now' = now + 1, Leaves(now', x),
           events' \in [{Null} \cup Mapped -> Seq(Nat)],
           \A a \in trace.captured : events'[a] = IF a = pc /\ x # 0 THEN <<x>> ELSE <<>>,
           emulator' \in {"hooks", "fetch", "end"},
           context' = context \/ context'.type \in CrashTypes,
           error' \in {"", "read", "insn"},
           emulator' # "end" => context' = context /\ error' = error,
           EndInv',
           x # 0 /\ Insn(pc).import = "smash" =>
               emulator' = "end" /\ error' = "" /\ context'.type = "stack_chk_fail"
    PROVE  CaptureInv'
  <1>1. /\ trace \in Traces /\ now \in Nat /\ bytes \in Nat /\ limitReached = FALSE /\ error = ""
        /\ restarted \in BOOLEAN /\ pending \in [addr : {Null} \cup Mapped, step : Nat, before : Nat]
        /\ snapshots \in Seq(Snapshots) /\ executed \in Seq(MetSteps)
        /\ context = NoContext \/ (restarted /\ context.type \in CrashTypes)
    BY Running
  <1>2. /\ now' \in Nat /\ executed' \in Seq(MetSteps)
        /\ PendingInv' /\ ShownInv' /\ EventsInv'
        /\ Smashed' /\ ~restarted => pc \in trace.captured /\ x # 0 /\ Insn(pc).import = "smash"
    BY RanTells
  <1>3. CaptureTypes'
    <2>1. emulator' \in {"hooks", "insn", "fetch", "end", "done"} /\ error' \in {"", "fetch", "read", "insn"}
      OBVIOUS
    <2>2. context' = NoContext \/ context'.type \in CrashTypes
      BY <1>1
    <2> QED
      BY <1>1, <1>2, <2>1, <2>2, Zenon DEF CaptureTypes
  <1>4. HookedInv'
    <2>1. emulator' # "insn" /\ emulator' # "done"
      OBVIOUS
    <2>2. emulator' \in {"hooks", "insn", "fetch"} => emulator' # "end"
      OBVIOUS
    <2>3. ~limitReached' /\ (~restarted' => ~restarted)
      BY <1>1
    <2>4. emulator' # "end" => context' = context /\ error' = ""
      BY <1>1
    <2>5. ~restarted => context = NoContext
      BY <1>1
    <2> QED
      BY <2>1, <2>2, <2>3, <2>4, <2>5, Zenon DEF HookedInv
  <1>5. SmashInv'
    BY <1>2 DEF SmashInv
  <1>6. CrashTold'
    BY DEF CrashTold
  <1> QED
    BY <1>2, <1>3, <1>4, <1>5, <1>6 DEF CaptureInv

LEMMA NoEvents ==
    ASSUME CaptureInv, emulator = "insn"
    PROVE  /\ events \in [{Null} \cup Mapped -> Seq(Nat)]
           /\ \A a \in trace.captured : events[a] = <<>>
  BY DEF CaptureInv, CaptureTypes, EventsInv, HookedInv

LEMMA PreCallSkipKeeps == ASSUME CaptureInv, PreCallSkip PROVE CaptureInv'
  <1>1. /\ emulator = "insn" /\ Insn(pc).op = "ext" /\ Insn(pc).import \in {"known", "exit", "smash"}
        /\ now' = now + 1 /\ Leaves(now', now')
        /\ events' = [events EXCEPT ![pc] = Append(@, now')]
        /\ context' = (IF Insn(pc).import = "smash" THEN [type |-> "stack_chk_fail", at |-> Null] ELSE context)
        /\ emulator' = (IF Insn(pc).import = "known" THEN "hooks" ELSE "end")
        /\ UNCHANGED <<trace, words, pending, snapshots, bytes, limitReached, error, restarted, verdict>>
    BY DEF PreCallSkip, Emulates, Simulated, SimulatedContext, AfterSimulated
  <1>2. /\ now \in Nat /\ error = "" /\ trace \in Traces
    BY <1>1, Running
  <1>3. pc \in 1..ProgramSize /\ pc \in Mapped
    <2>1. pc \in 1..ProgramSize
      BY <1>1 DEF Insn
    <2> QED
      BY <2>1, <1>2, NullUnmapped
  <1>4. now' \in Nat /\ now' # 0
    <2>1. now \in Nat /\ now' = now + 1
      BY <1>1, <1>2
    <2> QED
      BY <2>1
  <1>5. /\ events' \in [{Null} \cup Mapped -> Seq(Nat)]
        /\ \A a \in trace.captured : events'[a] = IF a = pc /\ now' # 0 THEN <<now'>> ELSE <<>>
    <2>1. /\ events \in [{Null} \cup Mapped -> Seq(Nat)] /\ trace.captured \subseteq Mapped
          /\ \A a \in trace.captured : events[a] = <<>>
      BY <1>1, <1>2, NoEvents, TraceFacts
    <2>2. Append(events[pc], now') \in Seq(Nat)
      BY <2>1, <1>3, <1>4, AppendProperties
    <2>3. events' \in [{Null} \cup Mapped -> Seq(Nat)]
      BY <2>1, <2>2, <1>1
    <2>4. Append(<<>>, now') = <<now'>>
      OBVIOUS
    <2> QED
      BY <1>1, <1>3, <1>4, <2>1, <2>3, <2>4
  <1>6. EndInv'
    BY <1>1, <1>2 DEF EndInv
  <1>7. /\ emulator' \in {"hooks", "fetch", "end"} /\ error' = ""
        /\ context' = context \/ context'.type \in CrashTypes
        /\ emulator' # "end" => context' = context /\ error' = error
        /\ Insn(pc).import = "smash" =>
               emulator' = "end" /\ error' = "" /\ context'.type = "stack_chk_fail"
    BY <1>1, <1>2 DEF CrashTypes
  <1> QED
    BY <1>1, <1>4, <1>5, <1>6, <1>7, MachineKeeps

LEMMA ExecuteKeeps == ASSUME CaptureInv, Execute \/ RunStub PROVE CaptureInv'
  <1>1. /\ emulator = "insn" /\ now' = now + 1 /\ Leaves(now', 0)
        /\ UNCHANGED <<trace, pending, snapshots, bytes, limitReached, events, context, error,
                       restarted, verdict>>
        /\ emulator' \in {"hooks", "fetch", "end"}
    BY DEF Execute, RunStub, Emulates, Arrives
  <1>2. error = ""
    BY <1>1, Running
  <1>3. EndInv'
    BY <1>1, <1>2 DEF EndInv
  <1>4. /\ events' \in [{Null} \cup Mapped -> Seq(Nat)]
        /\ \A a \in trace.captured : events'[a] = IF a = pc /\ 0 # 0 THEN <<0>> ELSE <<>>
    BY <1>1, NoEvents
  <1> QED
    BY <1>1, <1>2, <1>3, <1>4, MachineKeeps

LEMMA RunLoaderKeeps == ASSUME CaptureInv, RunLoader PROVE CaptureInv'
  <1>1. /\ emulator = "insn" /\ pc = Interpreter /\ now' = now + 1 /\ Leaves(now', 0)
        /\ UNCHANGED <<trace, words, pending, snapshots, bytes, limitReached, events, restarted, verdict>>
    BY DEF RunLoader, Emulates
  <1>2. error = "" /\ trace \in Traces /\ (~restarted => context = NoContext)
    BY <1>1, Running
  <1>3. \/ emulator' \in {"hooks", "fetch", "end"} /\ UNCHANGED <<context, error>>
        \/ emulator' = "end" /\ context' = BadRead /\ error' = "read" /\ pc' = pc
        \/ emulator' = "end" /\ context' = context /\ error' = "insn" /\ pc' = pc
    BY DEF RunLoader, Arrives
  <1>4. EndInv'
    <2>1. Insn(pc).op = "plain" /\ pc # Stub
      <3>1. Interpreter \notin 1..ProgramSize /\ ProgramSize \in Nat
        BY <1>2, TraceFacts, NullUnmapped
      <3>2. Insn(Interpreter).op = "plain"
        BY <3>1 DEF Insn
      <3>3. Interpreter # Stub
        BY <3>1 DEF Interpreter, Stub
      <3> QED
        BY <1>1, <3>2, <3>3
    <2>2. pc \in trace.captured => pending # NothingPending /\ pending.addr = pc
      BY <1>1 DEF CaptureInv, HookedInv
    <2>3. Insn(pc)' = IF pc' = pc THEN Insn(pc) ELSE Insn(pc)'
      BY <1>1 DEF Insn
    <2> QED
      BY <1>1, <1>2, <1>3, <2>1, <2>2, <2>3 DEF EndInv, Stub
  <1>5. /\ events' \in [{Null} \cup Mapped -> Seq(Nat)]
        /\ \A a \in trace.captured : events'[a] = IF a = pc /\ 0 # 0 THEN <<0>> ELSE <<>>
    BY <1>1, NoEvents
  <1>6. /\ emulator' \in {"hooks", "fetch", "end"} /\ error' \in {"", "read", "insn"}
        /\ context' = context \/ context'.type \in CrashTypes
        /\ emulator' # "end" => context' = context /\ error' = error
    BY <1>2, <1>3, BadReadCrash
  <1> QED
    BY <1>1, <1>4, <1>5, <1>6, MachineKeeps

LEMMA FaultKeeps == ASSUME CaptureInv, Fault PROVE CaptureInv'
  <1>1. /\ emulator = "insn" /\ emulator' = "end"
        /\ UNCHANGED <<trace, pc, words, now, pending, snapshots, bytes, limitReached, events,
                       restarted, verdict, executed>>
        /\ \/ Insn(pc).op = "fault" /\ context' = BadRead /\ error' = "read"
           \/ Insn(pc).op = "bad" /\ context' = context /\ error' = "insn"
    BY DEF Fault, Emulates
  <1>2. /\ trace \in Traces /\ now \in Nat /\ bytes \in Nat /\ limitReached = FALSE /\ error = ""
        /\ restarted \in BOOLEAN /\ pending \in [addr : {Null} \cup Mapped, step : Nat, before : Nat]
        /\ snapshots \in Seq(Snapshots) /\ executed \in Seq(MetSteps)
        /\ events \in [{Null} \cup Mapped -> Seq(Nat)]
        /\ context = NoContext \/ (restarted /\ context.type \in CrashTypes)
        /\ ~(Smashed /\ ~restarted)
    BY <1>1, Running
  <1>3. CaptureTypes'
    <2>1. context' = NoContext \/ context'.type \in CrashTypes
      BY <1>1, <1>2, BadReadCrash
    <2>2. emulator' \in {"hooks", "insn", "fetch", "end", "done"} /\ error' \in {"", "fetch", "read", "insn"}
      BY <1>1
    <2> QED
      BY <1>1, <1>2, <2>1, <2>2, Zenon DEF CaptureTypes
  <1>4. PendingInv' /\ ShownInv' /\ EventsInv'
    <2>1. pending = NothingPending => Len(executed) = Len(snapshots)
      BY <1>1 DEF CaptureInv, PendingInv, AllShown, Stopped
    <2>2. PendingInv'
      BY <2>1, <1>1 DEF CaptureInv, PendingInv, UnderWay, AllShown, Met
    <2> QED
      BY <2>2, <1>1 DEF CaptureInv, ShownInv, EventsInv, Met
  <1>5. HookedInv' /\ CrashTold'
    BY <1>1 DEF HookedInv, CrashTold
  <1>6. SmashInv'
    BY <1>1, <1>2 DEF SmashInv, Smashed, Met, Insn
  <1>7. EndInv'
    <2>1. Insn(pc)' = Insn(pc) /\ pc # Stub
      BY <1>1, <1>2, NullUnmapped DEF Insn
    <2>2. pc \in trace.captured => pending # NothingPending /\ pending.addr = pc
      BY <1>1 DEF CaptureInv, HookedInv
    <2>3. ~restarted => context = NoContext
      BY <1>2
    <2> QED
      BY <1>1, <2>1, <2>2, <2>3 DEF EndInv
  <1> QED
    BY <1>3, <1>4, <1>5, <1>6, <1>7 DEF CaptureInv

LEMMA FetchSimulatedKeeps == ASSUME CaptureInv, FetchSimulated PROVE CaptureInv'
  <1>1. /\ emulator = "fetch" /\ now' = now + 1
        /\ events' = [events EXCEPT ![Null] = Append(@, now')]
        /\ context' = NoContext /\ emulator' \in {"hooks", "end"}
        /\ executed' = (IF pending # NothingPending THEN Left(now', Last(executed).external) ELSE executed)
        /\ UNCHANGED <<trace, pending, snapshots, bytes, limitReached, error, restarted, verdict>>
    BY DEF FetchSimulated, AfterSimulated
  <1>2. /\ trace \in Traces /\ now \in Nat /\ bytes \in Nat /\ limitReached = FALSE /\ error = ""
        /\ restarted \in BOOLEAN /\ pending \in [addr : {Null} \cup Mapped, step : Nat, before : Nat]
        /\ snapshots \in Seq(Snapshots) /\ executed \in Seq(MetSteps)
        /\ events \in [{Null} \cup Mapped -> Seq(Nat)]
        /\ ~(Smashed /\ ~restarted)
    BY <1>1, Running
  <1>20. executed \in Seq(MetSteps) /\ snapshots \in Seq(Snapshots) /\ now \in Nat
    BY <1>2, Zenon
  <1>3. Len(snapshots) \in Nat /\ Len(executed) \in Nat /\ now' \in Nat
    <2>1. now' = now + 1
      BY <1>1
    <2> QED
      BY <2>1, <1>20, LenProperties
  <1>4. /\ events' \in [{Null} \cup Mapped -> Seq(Nat)]
        /\ \A a \in trace.captured : events'[a] = events[a]
    <2>1. Append(events[Null], now') \in Seq(Nat)
      BY <1>2, <1>3, AppendProperties
    <2>2. Null \notin trace.captured /\ trace.captured \subseteq Mapped
      BY <1>2, NullUnmapped, TraceFacts
    <2>3. events' \in [{Null} \cup Mapped -> Seq(Nat)]
      BY <2>1, <1>1, <1>2
    <2> QED
      BY <1>1, <1>2, <2>2, <2>3
  <1>5. /\ executed' \in Seq(MetSteps) /\ PendingInv' /\ ShownInv' /\ EventsInv'
        /\ Smashed' => Smashed
    <2>1. CASE pending # NothingPending
      <3>1. UnderWay
        BY <2>1 DEF CaptureInv, PendingInv
      <3>2. executed # <<>> /\ Len(executed) = Len(snapshots) + 1
        BY <3>1, <1>20, <1>3, EmptySeq DEF UnderWay
      <3>3. Met \in MetSteps /\ Last(executed) = Met
        BY <3>2, <1>20, <1>3, ElementOfSeq DEF Met, Last
      <3>4. Met.external \in Nat /\ executed' = Left(now', Met.external)
        BY <3>3, <1>1, <2>1 DEF MetSteps
      <3>5. /\ executed' \in Seq(MetSteps) /\ Len(executed') = Len(executed)
            /\ \A i \in 1..Len(executed) : i # Len(executed) => executed'[i] = executed[i]
            /\ Met'.addr = Met.addr /\ Met'.before = Met.before /\ Met'.after = now'
            /\ Met'.external = Met.external
        BY <1>20, <1>3, <3>2, <3>4, LeftFacts, SMTT(60) DEF Met
      <3>6. PendingInv'
        BY <2>1, <3>1, <3>5, <1>1 DEF PendingInv, UnderWay
      <3>7. ShownInv'
        <4>1. \A i \in 1..Len(snapshots) : executed'[i] = executed[i]
          BY <3>2, <3>5, <1>3
        <4> QED
          BY <4>1, <3>5, <1>1 DEF CaptureInv, ShownInv
      <3>8. EventsInv'
        BY <1>1, <1>4, <3>5 DEF CaptureInv, EventsInv
      <3>9. Smashed' => Smashed
        BY <3>2, <3>5, <1>1 DEF Smashed, Insn
      <3> QED
        BY <3>5, <3>6, <3>7, <3>8, <3>9
    <2>2. CASE pending = NothingPending
      <3>1. executed' = executed /\ Len(executed) = Len(snapshots)
        BY <2>2, <1>1 DEF CaptureInv, PendingInv, AllShown, Stopped
      <3>2. PendingInv' /\ ShownInv'
        BY <2>2, <3>1, <1>1 DEF CaptureInv, PendingInv, AllShown, ShownInv
      <3>3. EventsInv'
        BY <2>2, <1>1, <1>4 DEF CaptureInv, EventsInv
      <3>4. Smashed' => Smashed
        BY <3>1, <1>1 DEF Smashed, Met, Insn
      <3> QED
        BY <3>1, <3>2, <3>3, <3>4, <1>2
    <2> QED
      BY <2>1, <2>2
  <1>6. CaptureTypes'
    <2>1. emulator' \in {"hooks", "insn", "fetch", "end", "done"} /\ error' \in {"", "fetch", "read", "insn"}
      BY <1>1, <1>2
    <2> QED
      BY <1>1, <1>2, <1>3, <1>4, <1>5, <2>1, Zenon DEF CaptureTypes
  <1>7. HookedInv'
    <2>1. emulator' # "insn" /\ emulator' # "done" /\ limitReached' = FALSE /\ error' = ""
      BY <1>1, <1>2
    <2> QED
      BY <1>1, <2>1, Zenon DEF HookedInv
  <1>8. EndInv' /\ SmashInv' /\ CrashTold'
    BY <1>1, <1>2, <1>5 DEF EndInv, SmashInv, CrashTold
  <1> QED
    BY <1>5, <1>6, <1>7, <1>8 DEF CaptureInv

LEMMA FetchFailsKeeps == ASSUME CaptureInv, FetchFails PROVE CaptureInv'
  <1>1. /\ emulator = "fetch" /\ context' = [type |-> "unmapped_fetch", at |-> pc]
        /\ UNCHANGED <<trace, words, pending, snapshots, bytes, limitReached, events, verdict, executed>>
        /\ \/ /\ snapshots = <<>> /\ now' = now + 1 /\ emulator' = "hooks" /\ restarted' = TRUE
              /\ error' = error
           \/ /\ pc' = pc /\ now' = now /\ emulator' = "end" /\ restarted' = restarted /\ error' = "fetch"
    BY DEF FetchFails
  <1>2. /\ trace \in Traces /\ now \in Nat /\ bytes \in Nat /\ limitReached = FALSE /\ error = ""
        /\ restarted \in BOOLEAN /\ pending \in [addr : {Null} \cup Mapped, step : Nat, before : Nat]
        /\ snapshots \in Seq(Snapshots) /\ executed \in Seq(MetSteps)
        /\ events \in [{Null} \cup Mapped -> Seq(Nat)]
        /\ ~(Smashed /\ ~restarted)
    BY <1>1, Running
  <1>3. now' \in Nat
    <2>1. now' = now + 1 \/ now' = now
      BY <1>1
    <2>2. now \in Nat
      BY <1>2
    <2> QED
      BY <2>1, <2>2
  <1>4. context'.type \in CrashTypes
    BY <1>1 DEF CrashTypes
  <1>5. restarted' \in BOOLEAN /\ (restarted => restarted')
    BY <1>1, <1>2, Zenon
  <1>6. CaptureTypes'
    <2>1. emulator' \in {"hooks", "insn", "fetch", "end", "done"} /\ error' \in {"", "fetch", "read", "insn"}
      BY <1>1, <1>2
    <2> QED
      BY <1>1, <1>2, <1>3, <1>4, <1>5, <2>1, Zenon DEF CaptureTypes
  <1>7. pending = NothingPending => Len(executed) = Len(snapshots)
    BY <1>1 DEF CaptureInv, PendingInv, AllShown, Stopped
  <1>8. PendingInv'
    <2>1. pending # NothingPending => UnderWay
      BY DEF CaptureInv, PendingInv
    <2>2. ASSUME pending # NothingPending PROVE UnderWay'
      <3>1. Met.after = now \/ (restarted /\ snapshots = <<>>)
        BY <2>1, <2>2 DEF UnderWay
      <3>2. Met'.after = now' \/ (restarted' /\ snapshots' = <<>>)
        BY <3>1, <1>1, <1>5 DEF Met
      <3> QED
        BY <2>1, <2>2, <3>2, <1>1 DEF UnderWay, Met
    <2>3. pending = NothingPending => AllShown'
      BY <1>1, <1>7 DEF AllShown
    <2> QED
      BY <2>2, <2>3, <1>1 DEF PendingInv
  <1>9. ShownInv'
    BY <1>1, <1>5 DEF CaptureInv, ShownInv, Tells
  <1>10. EventsInv'
    BY <1>1 DEF CaptureInv, EventsInv, Met
  <1>11. HookedInv'
    <2>1. limitReached' = FALSE /\ (emulator' # "end" => emulator' = "hooks" /\ error' = "" /\ restarted')
      BY <1>1, <1>2
    <2>2. emulator' # "insn" /\ emulator' # "done" /\ (emulator' \in {"hooks", "insn", "fetch"} => emulator' # "end")
      BY <1>1
    <2> QED
      BY <2>1, <2>2, Zenon DEF HookedInv
  <1>12. EndInv' /\ CrashTold'
    BY <1>1 DEF EndInv, CrashTold
  <1>13. SmashInv'
    BY <1>1, <1>2, <1>5 DEF SmashInv, Smashed, Met, Insn
  <1> QED
    BY <1>6, <1>8, <1>9, <1>10, <1>11, <1>12, <1>13 DEF CaptureInv

\* At the end every instruction met has its snapshot, but at a limit; and the last one
\* shown is then the last one met.
LEMMA LastShown ==
    ASSUME CaptureInv, Report, ~limitReached', executed # <<>>, error # "" \/ Met.external # 0
    PROVE  /\ Len(snapshots') = Len(executed) /\ snapshots' # <<>>
           /\ Last(snapshots').addr = Met.addr /\ Met.addr \in Mapped
  <1>1. executed \in Seq(MetSteps) /\ snapshots' \in Seq(Snapshots) /\ emulator = "end"
    BY FinalizedTells DEF CaptureInv, CaptureTypes, Report
  <1>2. /\ Len(executed) \in Nat \ {0} /\ Len(snapshots') \in Nat /\ Met \in MetSteps
        /\ Len(executed) \in 1..Len(executed)
    BY <1>1, LastMet, LenProperties
  <1>3. /\ \A i \in 1..Len(snapshots') : Tells(snapshots'[i], executed[i], i, restarted)
        /\ \/ Len(snapshots') = Len(executed)
           \/ /\ pending = NothingPending /\ AllShown
              /\ Len(snapshots') = Len(snapshots) /\ (limitReached => limitReached')
    BY FinalizedTells DEF Report
  <1>4. Len(snapshots') = Len(executed)
    BY <1>3 DEF AllShown
  <1>5. snapshots' # <<>>
    BY <1>2, <1>4, EmptySeq
  <1>6. Tells(snapshots'[Len(executed)], Met, Len(executed), restarted)
    BY <1>2, <1>3, <1>4 DEF Met
  <1>7. Last(snapshots') = snapshots'[Len(executed)]
    BY <1>4 DEF Last
  <1> QED
    BY <1>2, <1>4, <1>5, <1>6, <1>7 DEF Tells, MetSteps

LEMMA ReportTells == ASSUME CaptureInv, Report PROVE CrashTold'
  <1> DEFINE addr == IF snapshots' = <<>> THEN Null ELSE Last(snapshots').addr
             ended == /\ CrashType = "unmapped_fetch" /\ addr # Null /\ Insn(addr).op = "ret"
                      /\ Null \in {context.at, pc}
  <1>1. /\ emulator = "end" /\ emulator' = "done"
        /\ context' = (IF restarted /\ error = "" THEN NoContext ELSE context)
        /\ UNCHANGED <<trace, pc, words, now, error, restarted, executed>>
    BY DEF Report
  <1>2. PICK evidence \in BOOLEAN :
            verdict' = IF (error = "" /\ context'.type # "stack_chk_fail") \/ ended THEN NoCrash
                       ELSE [type |-> CrashType, step |-> Len(snapshots'), addr |-> addr,
                             class |-> Classified(CrashType, addr, evidence)]
    BY DEF Report
  <1> SUFFICES ASSUME ~limitReached', executed # <<>>
               PROVE  CrashTold'
    BY <1>1 DEF CrashTold
  <1>3. trace \in Traces /\ error \in {"", "fetch", "read", "insn"}
    BY DEF CaptureInv, CaptureTypes
  <1>4. Last(executed) = Met /\ Last(executed') = Met
    BY <1>1 DEF Last, Met
  <1>5. error # "" \/ Met.external # 0 =>
            /\ Len(snapshots') = Len(executed) /\ addr = Met.addr /\ addr # Null
    BY <1>3, LastShown, NullUnmapped
  <1> HIDE DEF addr
  <1>6. \A x : Insn(x)' = Insn(x)
    BY <1>1 DEF Insn
  <1>7. CrashType # ""
    BY DEF CrashType, CaptureInv, CaptureTypes, CrashTypes
  <1>8. ~((error = "" /\ context'.type # "stack_chk_fail") \/ ended) =>
            /\ verdict'.type = CrashType /\ verdict' # NoCrash /\ verdict'.step = Len(snapshots')
            /\ verdict'.addr = addr /\ verdict'.class = Classified(CrashType, addr, evidence)
    BY <1>2, <1>7 DEF NoCrash
  <1>9. ASSUME error \in {"read", "insn"}, pc \in trace.captured
        PROVE  /\ verdict'.step = Len(executed) /\ verdict'.addr = pc
               /\ error = "read" => verdict'.class = "runtime_crash"
    <2>1. /\ Insn(pc).op \in {"plain", "fault", "bad"} /\ pc # Stub
          /\ pending # NothingPending /\ pending.addr = pc
          /\ error = "read" => context = BadRead
      BY <1>1, <1>9 DEF CaptureInv, EndInv
    <2>2. Met.addr = pc
      BY <2>1 DEF CaptureInv, PendingInv, UnderWay
    <2>3. addr = pc /\ addr # Null /\ Len(snapshots') = Len(executed)
      BY <2>2, <1>5, <1>9
    <2>4. ~ended
      BY <2>1, <2>3
    <2>5. error # ""
      BY <1>9
    <2>6. ASSUME error = "read"
          PROVE  Classified(CrashType, addr, evidence) = "runtime_crash"
      <3>1. CrashType = "unmapped_read"
        BY <2>1, <2>6, BadReadCrash DEF CrashType
      <3>2. Insn(addr).op \notin {"ret", "call", "ext", "bnd"} /\ addr # Stub
        BY <2>1, <2>3
      <3> QED
        BY <3>1, <3>2, <2>3 DEF Classified
    <2> QED
      BY <2>3, <2>4, <2>5, <2>6, <1>8
  <1>10. ASSUME ~restarted, Insn(Met.addr).import = "smash", Met.external # 0
         PROVE  verdict'.class = "stack_chk_fail" /\ verdict'.addr = Met.addr
    <2>1. error = "" /\ context.type = "stack_chk_fail" /\ context' = context
      BY <1>1, <1>10 DEF CaptureInv, SmashInv, Smashed
    <2>2. CrashType = "stack_chk_fail"
      BY <2>1, BadReadCrash DEF CrashType
    <2>3. Classified(CrashType, addr, evidence) = "stack_chk_fail"
      BY <2>2 DEF Classified
    <2> QED
      BY <2>1, <2>2, <2>3, <1>5, <1>8, <1>10
  <1>11. ASSUME ~restarted, error = "fetch", Insn(Met.addr).op = "ret"
         PROVE  verdict' = NoCrash <=> pc = Null
    <2>1. context = [type |-> "unmapped_fetch", at |-> pc]
      BY <1>1, <1>11 DEF CaptureInv, EndInv
    <2>2. CrashType = "unmapped_fetch" /\ context.at = pc
      BY <2>1 DEF CrashType, NoContext
    <2>3. addr = Met.addr /\ addr # Null
      BY <1>5, <1>11
    <2>4. ended <=> pc = Null
      BY <2>2, <2>3, <1>11
    <2>5. ended => verdict' = NoCrash
      BY <1>2
    <2> QED
      BY <2>4, <2>5, <1>8, <1>11
  <1>12. ASSUME ~restarted, verdict' = NoCrash
         PROVE  error \in {"", "fetch"}
    <2> SUFFICES ASSUME error \in {"read", "insn"} PROVE FALSE
      BY <1>3
    <2>1. (error = "read" => context = BadRead) /\ (error = "insn" => context = NoContext)
      BY <1>1, <1>12 DEF CaptureInv, EndInv
    <2>2. CrashType # "unmapped_fetch"
      BY <2>1, BadReadCrash DEF CrashType
    <2> QED
      BY <2>2, <1>8, <1>12
  <1> QED
    BY <1>1, <1>4, <1>6, <1>9, <1>10, <1>11, <1>12 DEF CrashTold

LEMMA ReportKeeps == ASSUME CaptureInv, Report PROVE CaptureInv'
  <1>1. /\ emulator = "end" /\ emulator' = "done" /\ pending' = NothingPending
        /\ context' = (IF restarted /\ error = "" THEN NoContext ELSE context)
        /\ UNCHANGED <<trace, pc, words, now, error, restarted, executed>>
        /\ FinalizePending
    BY DEF Report
  <1>2. /\ snapshots' \in Seq(Snapshots) /\ bytes' \in Nat /\ limitReached' \in BOOLEAN
        /\ events' \in [{Null} \cup Mapped -> Seq(Nat)]
        /\ Len(snapshots') <= trace.maxSteps /\ bytes' <= trace.maxBytes
        /\ Len(snapshots') <= Len(executed)
        /\ \A i \in 1..Len(snapshots') : Tells(snapshots'[i], executed[i], i, restarted)
        /\ \A a \in trace.captured : events'[a] = <<>>
        /\ \/ Len(snapshots') = Len(executed) \/ limitReached'
           \/ /\ pending = NothingPending /\ AllShown
              /\ Len(snapshots') = Len(snapshots) /\ (limitReached => limitReached')
    BY <1>1, FinalizedTells
  <1>3. CaptureTypes'
    <2>1. /\ trace \in Traces /\ now \in Nat /\ error \in {"", "fetch", "read", "insn"}
          /\ executed \in Seq(MetSteps) /\ restarted \in BOOLEAN
          /\ context = NoContext \/ context.type \in CrashTypes
      BY DEF CaptureInv, CaptureTypes
    <2>2. pending' \in [addr : {Null} \cup Mapped, step : Nat, before : Nat]
      BY <1>1 DEF NothingPending
    <2>3. context' = NoContext \/ context'.type \in CrashTypes
      BY <1>1, <2>1
    <2>4. emulator' \in {"hooks", "insn", "fetch", "end", "done"}
      BY <1>1
    <2> QED
      BY <1>1, <1>2, <2>1, <2>2, <2>3, <2>4, Zenon DEF CaptureTypes
  <1>4. PendingInv'
    <2>1. AllShown'
      <3>1. CASE Len(snapshots') = Len(executed) \/ limitReached'
        BY <3>1, <1>1 DEF AllShown, Stopped
      <3>2. CASE AllShown /\ Len(snapshots') = Len(snapshots) /\ (limitReached => limitReached')
        BY <3>2, <1>1 DEF AllShown, Stopped, Met
      <3> QED
        BY <3>1, <3>2, <1>2, Zenon
    <2> QED
      BY <2>1, <1>1 DEF PendingInv
  <1>5. ShownInv' /\ EventsInv'
    BY <1>1, <1>2 DEF ShownInv, EventsInv
  <1>6. HookedInv' /\ EndInv' /\ SmashInv'
    BY <1>1 DEF HookedInv, EndInv, SmashInv
  <1> QED
    BY <1>3, <1>4, <1>5, <1>6, ReportTells DEF CaptureInv

LEMMA CaptureStutters == ASSUME CaptureInv, UNCHANGED captureVars PROVE CaptureInv'
  <1>2. \A x : Insn(x)' = Insn(x)
    BY DEF captureVars, Insn
  <1>3. CaptureTypes' /\ ShownInv' /\ HookedInv'
    BY DEF captureVars, CaptureInv, CaptureTypes, ShownInv, HookedInv, Met
  <1>4. PendingInv' /\ EventsInv'
    BY DEF captureVars, CaptureInv, PendingInv, UnderWay, AllShown, Stopped, EventsInv, Met
  <1>5. EndInv' /\ SmashInv'
    BY <1>2 DEF captureVars, CaptureInv, EndInv, SmashInv, Smashed, Met
  <1>6. CrashTold'
    BY <1>2 DEF captureVars, CaptureInv, CrashTold
  <1> QED
    BY <1>3, <1>4, <1>5, <1>6 DEF CaptureInv

\* The snapshots of a traced execution are the captured instructions in the order they
\* were met, each with the state before and after itself and the simulated call that it
\* was, within the limits and with none missing unless one was reached; and the verdict
\* is about what stopped the program (hook_code to _build_crash_report).
THEOREM TracesAreTold == CaptureSpec => []TraceTells
  <1>1. CaptureInit => CaptureInv
    BY CaptureStarts
  <1>2. CaptureInv /\ [CaptureNext]_captureVars => CaptureInv'
    <2> SUFFICES ASSUME CaptureInv, [CaptureNext]_captureVars PROVE CaptureInv'
      OBVIOUS
    <2>1. CASE HookCode
      BY <2>1, HookCodeKeeps
    <2>2. CASE PreCallSkip
      BY <2>2, PreCallSkipKeeps
    <2>3. CASE Execute \/ RunStub
      BY <2>3, ExecuteKeeps
    <2>4. CASE RunLoader
      BY <2>4, RunLoaderKeeps
    <2>5. CASE Fault
      BY <2>5, FaultKeeps
    <2>6. CASE FetchSimulated
      BY <2>6, FetchSimulatedKeeps
    <2>7. CASE FetchFails
      BY <2>7, FetchFailsKeeps
    <2>8. CASE Report
      BY <2>8, ReportKeeps
    <2>9. CASE UNCHANGED captureVars
      BY <2>9, CaptureStutters
    <2> QED
      BY <2>1, <2>2, <2>3, <2>4, <2>5, <2>6, <2>7, <2>8, <2>9 DEF CaptureNext
  <1>3. CaptureInv => TraceTells
    <2> SUFFICES ASSUME CaptureInv PROVE TraceTells
      OBVIOUS
    <2>1. \A i \in 1..Len(snapshots) : Tells(snapshots[i], executed[i], i, restarted)
      BY DEF CaptureInv, ShownInv
    <2>2. Len(snapshots) <= trace.maxSteps /\ bytes <= trace.maxBytes /\ Len(snapshots) <= Len(executed)
      BY DEF CaptureInv, ShownInv
    <2>3. emulator = "done" /\ Len(snapshots) < Len(executed) =>
              limitReached \/ Len(snapshots) = trace.maxSteps
      <3>1. emulator = "done" => AllShown
        BY DEF CaptureInv, PendingInv, HookedInv
      <3>2. AllShown => Len(executed) = Len(snapshots) \/ limitReached \/ Len(snapshots) = trace.maxSteps
        BY DEF AllShown
      <3>3. Len(snapshots) \in Nat
        BY LenProperties DEF CaptureInv, CaptureTypes
      <3>4. Len(executed) = Len(snapshots) => ~(Len(snapshots) < Len(executed))
        BY <3>3
      <3> QED
        BY <3>1, <3>2, <3>4, Zenon
    <2>4. SnapshotsTell
      BY <2>1, <2>2, <2>3 DEF SnapshotsTell, Tells
    <2> QED
      BY <2>4 DEF CaptureInv, TraceTells
  <1> QED
    BY <1>1, <1>2, <1>3, PTL DEF CaptureSpec

-----------------------------------------------------------------------------
(* The assistant *)

Fragments == Nat \X Nat
Messages ==
    [role : {"user", "assistant"}, calls : Seq(CallKinds)]
        \cup [role : {"tool"}, call : Nat, id : Nat, got : Nat]
PipeLines == [id : Nat, ok : BOOLEAN]

AgentTypes ==
    /\ agentScope \in AgentScopes
    /\ at \in {"initialize", "list", "chat", "find", "call", "extract", "plain", "whole", "judge",
               "tools", "synthesis", "done", "failed"}
    /\ messages \in Seq(Messages) /\ bubble \in Seq(Fragments) /\ said \in Seq(Fragments)
    /\ talks \in Nat /\ calls \in Seq(CallKinds) /\ call \in Nat
    /\ toServer \in Seq(Nat) /\ toBridge \in Seq(PipeLines) /\ awaits \in Nat /\ nextId \in Nat
    /\ spoilt \in BOOLEAN
    /\ at \in {"find", "extract"} => purpose \in {"call", "prefetch", "fallback"}
    /\ at = "extract" => purpose # "call"

\* The chat shows nothing while more is to be said, and then what was said last.
Seeking(why) == at \in {"find", "extract"} /\ purpose = why
BubbleInv ==
    ~spoilt =>
        /\ at \in {"initialize", "list", "chat", "tools", "call", "plain", "whole", "synthesis"} => bubble = <<>>
        /\ Seeking("call") \/ Seeking("prefetch") => bubble = <<>>
        /\ at = "judge" \/ Seeking("fallback") => bubble = said
        /\ at = "done" => bubble = response

AllWhole(ms) == \A i \in 1..Len(ms) : ms[i].role = "assistant" => Whole(ms, i)

\* The last reply has the calls q, and the results of the first c stand at the end.
ServedAt(ms, q, c, p) ==
    /\ ms[p] = Assistant(q) /\ Followed(ms, p, c) /\ Len(ms) = p + NamedCalls(q, c)
    /\ \A i \in (p + 1)..Len(ms) : ms[i].role = "tool"
    /\ \A i \in 1..(p - 1) : ms[i].role = "assistant" =>
          Whole(ms, i) /\ i + NamedCalls(ms[i].calls, Len(ms[i].calls)) < p
Served(ms, q, c) == c \in 0..Len(q) /\ \E p \in 1..Len(ms) : ServedAt(ms, q, c, p)

AtTools == at \in {"tools", "call"} \/ Seeking("call")
TalkInv ==
    /\ \A i \in 1..Len(messages) : messages[i].role = "tool" => messages[i].got \in {0, messages[i].id}
    /\ at = "tools" => Served(messages, calls, call)
    /\ at = "call" \/ Seeking("call") =>
          /\ call \in 1..Len(calls) /\ calls[call] # "nameless"
          /\ Served(messages, calls, call - 1)
    /\ AtTools \/ at \in {"done", "failed"} \/ AllWhole(messages)

AgentInv == AgentTypes /\ BubbleInv /\ TalkInv

NamesOf(q, k) == {j \in 1..k : q[j] # "nameless"}

LEMMA NamedGrow ==
    ASSUME NEW q, NEW k \in Nat
    PROVE  /\ NamedCalls(q, k) \in Nat /\ NamedCalls(q, 0) = 0
           /\ NamedCalls(q, k + 1) = NamedCalls(q, k) + (IF q[k + 1] # "nameless" THEN 1 ELSE 0)
  <1>1. IsFiniteSet(NamesOf(q, k))
    <2>1. IsFiniteSet(1..k)
      BY FS_Interval
    <2>2. NamesOf(q, k) \subseteq 1..k
      BY DEF NamesOf
    <2> QED
      BY <2>1, <2>2, FS_Subset
  <1>2. NamedCalls(q, k) = Cardinality(NamesOf(q, k)) /\ NamedCalls(q, k + 1) = Cardinality(NamesOf(q, k + 1))
    BY DEF NamedCalls, NamesOf
  <1>3. Cardinality(NamesOf(q, k)) \in Nat
    BY <1>1, FS_CardinalityType
  <1>4. NamedCalls(q, 0) = 0
    <2>1. NamesOf(q, 0) = {}
      BY DEF NamesOf
    <2> QED
      BY <2>1, FS_EmptySet DEF NamedCalls, NamesOf
  <1>5. NamesOf(q, k + 1) = NamesOf(q, k) \cup (IF q[k + 1] # "nameless" THEN {k + 1} ELSE {})
    BY DEF NamesOf
  <1>6. k + 1 \notin NamesOf(q, k)
    BY DEF NamesOf
  <1>7. CASE q[k + 1] # "nameless"
    <2>1. NamesOf(q, k + 1) = NamesOf(q, k) \cup {k + 1}
      BY <1>5, <1>7
    <2>2. Cardinality(NamesOf(q, k) \cup {k + 1}) = Cardinality(NamesOf(q, k)) + 1
      BY <1>1, <1>6, FS_AddElement
    <2> QED
      BY <1>2, <1>3, <1>4, <1>7, <2>1, <2>2
  <1>8. CASE q[k + 1] = "nameless"
    <2>1. NamesOf(q, k + 1) = NamesOf(q, k)
      BY <1>5, <1>8
    <2> QED
      BY <1>2, <1>3, <1>4, <1>8, <2>1
  <1> QED
    BY <1>7, <1>8

LEMMA NamedBelow ==
    ASSUME NEW q, NEW k \in Nat, NEW j \in 0..k
    PROVE  NamedCalls(q, j) <= NamedCalls(q, k)
  <1>1. IsFiniteSet(NamesOf(q, k))
    <2>1. IsFiniteSet(1..k)
      BY FS_Interval
    <2>2. NamesOf(q, k) \subseteq 1..k
      BY DEF NamesOf
    <2> QED
      BY <2>1, <2>2, FS_Subset
  <1>2. NamesOf(q, j) \subseteq NamesOf(q, k)
    BY DEF NamesOf
  <1>3. Cardinality(NamesOf(q, j)) <= Cardinality(NamesOf(q, k))
    BY <1>1, <1>2, FS_Subset
  <1> QED
    BY <1>3 DEF NamedCalls, NamesOf

\* A message that comes after all the results of the replies before it changes none.
LEMMA FollowedStays ==
    ASSUME NEW ms \in Seq(Messages), NEW m \in Messages, NEW i \in 1..Len(ms),
           NEW k \in Nat, Followed(ms, i, k)
    PROVE  Followed(Append(ms, m), i, k)
  <1>1. /\ Len(ms) \in Nat /\ Len(Append(ms, m)) = Len(ms) + 1
        /\ \A n \in 1..Len(ms) : Append(ms, m)[n] = ms[n]
    BY AppendProperties, LenProperties
  <1>0. Append(ms, m)[i] = ms[i]
    BY <1>1
  <1> SUFFICES ASSUME NEW j \in 1..k, ms[i].calls[j] # "nameless"
               PROVE  /\ i + NamedCalls(ms[i].calls, j) <= Len(Append(ms, m))
                      /\ Append(ms, m)[i + NamedCalls(ms[i].calls, j)].role = "tool"
                      /\ Append(ms, m)[i + NamedCalls(ms[i].calls, j)].call = j
    BY <1>0 DEF Followed
  <1> DEFINE place == i + NamedCalls(ms[i].calls, j)
  <1>2. place <= Len(ms) /\ ms[place].role = "tool" /\ ms[place].call = j
    BY DEF Followed
  <1>3. place \in 1..Len(ms)
    <2>1. NamedCalls(ms[i].calls, j) \in Nat
      BY NamedGrow
    <2> QED
      BY <1>1, <1>2, <2>1
  <1> HIDE DEF place
  <1>4. Append(ms, m)[place] = ms[place] /\ place <= Len(Append(ms, m))
    BY <1>1, <1>2, <1>3
  <1> QED
    BY <1>2, <1>4 DEF place

LEMMA WholeStays ==
    ASSUME NEW ms \in Seq(Messages), NEW m \in Messages, NEW i \in 1..Len(ms),
           ms[i].role = "assistant", Whole(ms, i),
           m.role # "tool" \/ i + NamedCalls(ms[i].calls, Len(ms[i].calls)) < Len(ms)
    PROVE  /\ Append(ms, m)[i] = ms[i] /\ Whole(Append(ms, m), i)
  <1>1. /\ Len(ms) \in Nat /\ Len(Append(ms, m)) = Len(ms) + 1 /\ Append(ms, m)[Len(ms) + 1] = m
        /\ \A n \in 1..Len(ms) : Append(ms, m)[n] = ms[n]
    BY AppendProperties, LenProperties
  <1>2. ms[i].calls \in Seq(CallKinds)
    <2>1. ms[i] \in Messages
      BY ElementOfSeq
    <2> QED
      BY <2>1 DEF Messages
  <1>3. Append(ms, m)[i] = ms[i] /\ Len(ms[i].calls) \in Nat
    BY <1>1, <1>2, LenProperties
  <1> DEFINE all == Len(ms[i].calls)
             end == i + NamedCalls(ms[i].calls, all)
  <1>4. /\ Followed(ms, i, all) /\ end <= Len(ms) /\ (end < Len(ms) => ms[end + 1].role # "tool")
    BY DEF Whole
  <1>5. NamedCalls(ms[i].calls, all) \in Nat
    BY <1>3, NamedGrow
  <1>6. end \in Nat /\ end + 1 \in 1..(Len(ms) + 1)
    <2>1. end <= Len(ms)
      BY <1>4
    <2> QED
      BY <2>1, <1>1, <1>5
  <1>7. Followed(Append(ms, m), i, all)
    BY <1>3, <1>4, FollowedStays
  <1>8. m.role # "tool" \/ end < Len(ms)
    OBVIOUS
  <1> HIDE DEF end
  <1>9. end <= Len(Append(ms, m)) /\ Append(ms, m)[end + 1].role # "tool"
    <2>1. end <= Len(ms) + 1
      BY <1>1, <1>4, <1>6
    <2>2. CASE end < Len(ms)
      <3>1. end + 1 \in 1..Len(ms)
        BY <2>2, <1>1, <1>6
      <3> QED
        BY <3>1, <2>1, <2>2, <1>1, <1>4
    <2>3. CASE end = Len(ms)
      BY <2>3, <2>1, <1>1, <1>8
    <2> QED
      BY <2>2, <2>3, <1>1, <1>4, <1>6
  <1> QED
    BY <1>3, <1>7, <1>9 DEF Whole, end

\* A question or a reply, while nothing is owed to the model.
LEMMA AllWholeStays ==
    ASSUME NEW ms \in Seq(Messages), NEW m \in Messages, AllWhole(ms), m.role # "tool",
           m.role = "assistant" => m.calls = <<>>
    PROVE  AllWhole(Append(ms, m))
  <1>1. /\ Len(ms) \in Nat /\ Len(Append(ms, m)) = Len(ms) + 1 /\ Append(ms, m)[Len(ms) + 1] = m
        /\ \A n \in 1..Len(ms) : Append(ms, m)[n] = ms[n]
    BY AppendProperties, LenProperties
  <1> SUFFICES ASSUME NEW i \in 1..Len(Append(ms, m)), Append(ms, m)[i].role = "assistant"
               PROVE  Whole(Append(ms, m), i)
    BY DEF AllWhole
  <1>2. CASE i \in 1..Len(ms)
    <2>1. Whole(ms, i) /\ ms[i].role = "assistant"
      BY <1>1, <1>2 DEF AllWhole
    <2> QED
      BY <1>2, <2>1, WholeStays
  <1>3. CASE i = Len(ms) + 1
    <2>1. Append(ms, m)[i].calls = <<>> /\ Len(Append(ms, m)) = i /\ i \in Nat
      BY <1>1, <1>3
    <2>2. NamedCalls(<<>>, 0) = 0 /\ Len(<<>>) = 0
      BY NamedGrow, EmptySeq
    <2>3. Followed(Append(ms, m), i, 0)
      BY DEF Followed
    <2> QED
      BY <2>1, <2>2, <2>3 DEF Whole
  <1> QED
    BY <1>1, <1>2, <1>3

LEMMA CallsBegin ==
    ASSUME NEW ms \in Seq(Messages), NEW q \in Seq(CallKinds), AllWhole(ms)
    PROVE  Served(Append(ms, Assistant(q)), q, 0)
  <1> DEFINE m == Assistant(q)
             p == Len(ms) + 1
  <1>1. m \in Messages /\ m.role = "assistant"
    BY DEF Messages, Assistant
  <1>2. /\ Len(ms) \in Nat /\ Len(Append(ms, m)) = Len(ms) + 1 /\ Append(ms, m)[Len(ms) + 1] = m
        /\ \A n \in 1..Len(ms) : Append(ms, m)[n] = ms[n]
    BY <1>1, AppendProperties, LenProperties
  <1>3. ASSUME NEW i \in 1..(p - 1), Append(ms, m)[i].role = "assistant"
        PROVE  /\ Whole(Append(ms, m), i)
               /\ i + NamedCalls(Append(ms, m)[i].calls, Len(Append(ms, m)[i].calls)) < p
    <2>1. i \in 1..Len(ms)
      BY <1>2
    <2>0. Append(ms, m)[i] = ms[i]
      BY <1>2, <2>1
    <2>2. Whole(ms, i) /\ ms[i].role = "assistant" /\ Append(ms, m)[i] = ms[i]
      BY <1>3, <2>0, <2>1, Zenon DEF AllWhole
    <2>7. m.role # "tool"
      BY <1>1
    <2>3. Whole(Append(ms, m), i)
      BY <1>1, <2>1, <2>2, <2>7, WholeStays
    <2>4. i + NamedCalls(ms[i].calls, Len(ms[i].calls)) <= Len(ms)
      BY <2>2 DEF Whole
    <2>5. NamedCalls(ms[i].calls, Len(ms[i].calls)) \in Nat
      <3>1. ms[i] \in Messages
        BY <2>1, ElementOfSeq
      <3>2. ms[i].calls \in Seq(CallKinds)
        BY <3>1, <2>2 DEF Messages
      <3> QED
        BY <3>2, LenProperties, NamedGrow
    <2>6. i + NamedCalls(ms[i].calls, Len(ms[i].calls)) < Len(ms) + 1
      BY <1>2, <2>4, <2>5
    <2> QED
      BY <2>2, <2>3, <2>6
  <1>4. NamedCalls(q, 0) = 0 /\ Len(q) \in Nat
    BY NamedGrow, LenProperties
  <1>5. Followed(Append(ms, m), p, 0)
    <2>1. \A j \in 1..0 : FALSE
      OBVIOUS
    <2> QED
      BY <2>1, Zenon DEF Followed
  <1>6. p \in 1..Len(Append(ms, m)) /\ Len(Append(ms, m)) = p + NamedCalls(q, 0)
    BY <1>2, <1>4
  <1>8. \A i \in (p + 1)..Len(Append(ms, m)) : Append(ms, m)[i].role = "tool"
    BY <1>2
  <1>9. Append(ms, m)[p] = Assistant(q) /\ 0 \in 0..Len(q)
    BY <1>2, <1>4
  <1>7. ServedAt(Append(ms, m), q, 0, p)
    BY <1>3, <1>5, <1>6, <1>8, <1>9, Zenon DEF ServedAt
  <1> QED
    BY <1>6, <1>7, <1>9, Zenon DEF Served

LEMMA NamelessPassed ==
    ASSUME NEW ms \in Seq(Messages), NEW q \in Seq(CallKinds), NEW c \in Nat,
           Served(ms, q, c), c < Len(q), q[c + 1] = "nameless"
    PROVE  Served(ms, q, c + 1)
  <1>1. PICK p \in 1..Len(ms) : ServedAt(ms, q, c, p)
    BY DEF Served
  <1>2. NamedCalls(q, c + 1) = NamedCalls(q, c)
    <2>1. /\ NamedCalls(q, c) \in Nat
          /\ NamedCalls(q, c + 1) = NamedCalls(q, c) + (IF q[c + 1] # "nameless" THEN 1 ELSE 0)
      BY NamedGrow
    <2>2. (IF q[c + 1] # "nameless" THEN 1 ELSE 0) = 0
      BY Zenon
    <2> QED
      BY <2>1, <2>2
  <1>3. Followed(ms, p, c + 1)
    <2>1. ms[p].calls = q
      BY <1>1 DEF ServedAt, Assistant
    <2>2. \A j \in 1..(c + 1) : j \in 1..c \/ j = c + 1
      OBVIOUS
    <2> QED
      BY <1>1, <2>1, <2>2 DEF ServedAt, Followed
  <1>4. c + 1 \in 0..Len(q)
    BY LenProperties
  <1> QED
    BY <1>1, <1>2, <1>3, <1>4 DEF Served, ServedAt

LEMMA ResultFollows ==
    ASSUME NEW ms \in Seq(Messages), NEW q \in Seq(CallKinds), NEW c \in Nat, NEW m \in Messages,
           Served(ms, q, c), c < Len(q), q[c + 1] # "nameless", m.role = "tool", m.call = c + 1
    PROVE  Served(Append(ms, m), q, c + 1)
  <1>1. PICK p \in 1..Len(ms) : ServedAt(ms, q, c, p)
    BY DEF Served
  <1>9. /\ NamedCalls(q, c + 1) = NamedCalls(q, c) + 1 /\ NamedCalls(q, c) \in Nat
    <2>1. /\ NamedCalls(q, c) \in Nat
          /\ NamedCalls(q, c + 1) = NamedCalls(q, c) + (IF q[c + 1] # "nameless" THEN 1 ELSE 0)
      BY NamedGrow
    <2>2. (IF q[c + 1] # "nameless" THEN 1 ELSE 0) = 1
      BY Zenon
    <2> QED
      BY <2>1, <2>2
  <1>10. /\ ms[p] = Assistant(q) /\ Len(ms) = p + NamedCalls(q, c) /\ Followed(ms, p, c)
         /\ \A i \in (p + 1)..Len(ms) : ms[i].role = "tool"
    BY <1>1, Zenon DEF ServedAt
  <1>11. ms[p].calls = q
    BY <1>10 DEF Assistant
  <1>2. /\ NamedCalls(q, c + 1) = NamedCalls(q, c) + 1 /\ NamedCalls(q, c) \in Nat
        /\ ms[p] = Assistant(q) /\ ms[p].calls = q /\ Len(ms) = p + NamedCalls(q, c)
    BY <1>9, <1>10, <1>11
  <1>3. /\ Len(ms) \in Nat /\ Len(Append(ms, m)) = Len(ms) + 1 /\ Append(ms, m)[Len(ms) + 1] = m
        /\ \A n \in 1..Len(ms) : Append(ms, m)[n] = ms[n]
    BY AppendProperties, LenProperties
  <1>4. Len(Append(ms, m)) = p + NamedCalls(q, c + 1) /\ Append(ms, m)[p] = ms[p] /\ p \in 1..Len(Append(ms, m))
    <2>1. Len(Append(ms, m)) = p + NamedCalls(q, c + 1)
      BY <1>3, <1>9, <1>10
    <2>2. Append(ms, m)[p] = ms[p]
      BY <1>3
    <2>3. p \in 1..Len(Append(ms, m))
      BY <1>3
    <2> QED
      BY <2>1, <2>2, <2>3
  <1>12. \A i \in (p + 1)..Len(Append(ms, m)) : Append(ms, m)[i].role = "tool"
    <2> SUFFICES ASSUME NEW i \in (p + 1)..Len(Append(ms, m))
                 PROVE  Append(ms, m)[i].role = "tool"
      OBVIOUS
    <2>1. i \in (p + 1)..Len(ms) \/ i = Len(ms) + 1
      BY <1>3
    <2>2. i \in (p + 1)..Len(ms) => Append(ms, m)[i] = ms[i]
      BY <1>3
    <2> QED
      BY <1>3, <1>10, <2>1, <2>2
  <1>5. Followed(Append(ms, m), p, c + 1)
    <2>1. Followed(Append(ms, m), p, c)
      BY <1>10, FollowedStays
    <2>4. p + NamedCalls(q, c + 1) = Len(ms) + 1
      BY <1>9, <1>10
    <2>5. p + NamedCalls(q, c + 1) <= Len(Append(ms, m))
      BY <1>3, <2>4
    <2>2. /\ p + NamedCalls(q, c + 1) <= Len(Append(ms, m))
          /\ Append(ms, m)[p + NamedCalls(q, c + 1)] = m
      BY <1>3, <2>4, <2>5, Zenon
    <2>3. \A j \in 1..(c + 1) : j \in 1..c \/ j = c + 1
      OBVIOUS
    <2>6. Append(ms, m)[p].calls = q
      BY <1>4, <1>11, Zenon
    <2>7. m.role = "tool" /\ m.call = c + 1
      OBVIOUS
    <2> QED
      BY <2>1, <2>2, <2>3, <2>6, <2>7, Zenon DEF Followed
  <1>6. ASSUME NEW i \in 1..(p - 1), Append(ms, m)[i].role = "assistant"
        PROVE  /\ Whole(Append(ms, m), i)
               /\ i + NamedCalls(Append(ms, m)[i].calls, Len(Append(ms, m)[i].calls)) < p
    <2>1. i \in 1..Len(ms) /\ p <= Len(ms)
      BY <1>2, <1>3
    <2>2. Append(ms, m)[i] = ms[i]
      BY <2>1, <1>3
    <2>3. Whole(ms, i) /\ ms[i].role = "assistant" /\ i + NamedCalls(ms[i].calls, Len(ms[i].calls)) < p
      BY <1>1, <1>6, <2>2 DEF ServedAt
    <2>4. i + NamedCalls(ms[i].calls, Len(ms[i].calls)) < Len(ms)
      <3>1. NamedCalls(ms[i].calls, Len(ms[i].calls)) \in Nat
        <4>1. ms[i] \in Messages
          BY <2>1, ElementOfSeq
        <4>2. ms[i].calls \in Seq(CallKinds)
          BY <4>1, <2>3 DEF Messages
        <4> QED
          BY <4>2, LenProperties, NamedGrow
      <3>2. i + NamedCalls(ms[i].calls, Len(ms[i].calls)) < p
        BY <2>3
      <3> QED
        BY <2>1, <3>1, <3>2, <1>3
    <2>5. Whole(Append(ms, m), i)
      BY <2>1, <2>3, <2>4, WholeStays
    <2> QED
      BY <2>2, <2>3, <2>5
  <1>13. Append(ms, m)[p] = Assistant(q)
    BY <1>4, <1>10, Zenon
  <1>7. ServedAt(Append(ms, m), q, c + 1, p)
    BY <1>4, <1>5, <1>6, <1>12, <1>13, Zenon DEF ServedAt
  <1>8. c + 1 \in 0..Len(q)
    BY LenProperties
  <1> QED
    BY <1>4, <1>7, <1>8, Zenon DEF Served

LEMMA CallsEnd ==
    ASSUME NEW ms \in Seq(Messages), NEW q \in Seq(CallKinds), Served(ms, q, Len(q))
    PROVE  AllWhole(ms)
  <1>1. PICK p \in 1..Len(ms) : ServedAt(ms, q, Len(q), p)
    BY DEF Served
  <1>8. /\ ms[p] = Assistant(q) /\ Followed(ms, p, Len(q)) /\ Len(ms) = p + NamedCalls(q, Len(q))
        /\ \A i \in (p + 1)..Len(ms) : ms[i].role = "tool"
    BY <1>1, Zenon DEF ServedAt
  <1>9. ms[p].calls = q
    BY <1>8 DEF Assistant
  <1>2. ms[p].calls = q /\ Followed(ms, p, Len(q)) /\ Len(ms) = p + NamedCalls(q, Len(q))
    BY <1>8, <1>9
  <1>3. Len(ms) \in Nat /\ Len(q) \in Nat /\ NamedCalls(q, Len(q)) \in Nat
    BY LenProperties, NamedGrow
  <1>4. Whole(ms, p)
    <2>1. p + NamedCalls(q, Len(q)) <= Len(ms) /\ ~(p + NamedCalls(q, Len(q)) < Len(ms))
      BY <1>2, <1>3
    <2> QED
      BY <1>2, <2>1 DEF Whole
  <1> SUFFICES ASSUME NEW i \in 1..Len(ms), ms[i].role = "assistant"
               PROVE  Whole(ms, i)
    BY DEF AllWhole
  <1>5. CASE i \in 1..(p - 1)
    BY <1>1, <1>5 DEF ServedAt
  <1>6. CASE i = p
    BY <1>4, <1>6
  <1>7. CASE i > p
    <2>1. i \in (p + 1)..Len(ms)
      BY <1>3, <1>7
    <2>2. ms[i].role = "tool"
      BY <1>8, <2>1
    <2> QED
      BY <2>2
  <1> QED
    BY <1>3, <1>5, <1>6, <1>7

-----------------------------------------------------------------------------
LEMMA Spoken ==
    ASSUME NEW c \in Nat, NEW text
    PROVE  /\ Content(c, text) \in Seq(Fragments) /\ Extract \in Seq(Fragments)
           /\ text = "none" => Content(c, text) = <<>>
           /\ text # "none" => Content(c, text) # <<>>
           /\ <<<<c, 1>>>> \in Seq(Fragments) /\ <<>> \in Seq(Fragments)
  BY DEF Content, Extract, Fragments

LEMMA Shown ==
    ASSUME NEW a \in Seq(Fragments), NEW b \in Seq(Fragments)
    PROVE  a \o b \in Seq(Fragments) /\ <<>> \o b = b /\ a \o <<>> = a
  BY ConcatProperties, ConcatEmptySeq

LEMMA SpokenTo ==
    /\ User \in Messages /\ User.role = "user"
    /\ \A q \in Seq(CallKinds) : Assistant(q) \in Messages /\ Assistant(q).role = "assistant"
                                   /\ Assistant(q).calls = q
  BY DEF User, Assistant, Messages

LEMMA Told ==
    ASSUME NEW c \in Nat, NEW id \in Nat, NEW got \in Nat
    PROVE  /\ ToolSays(c, id, got) \in Messages /\ ToolSays(c, id, got).role = "tool"
           /\ ToolSays(c, id, got).call = c /\ ToolSays(c, id, got).id = id /\ ToolSays(c, id, got).got = got
  BY DEF ToolSays, Messages

LEMMA AnswerTold ==
    ASSUME AgentTypes
    PROVE  /\ Answer \in PipeLines /\ Answer.id \in {0, awaits}
           /\ Answer.id \in Nat /\ Answer.ok \in BOOLEAN
           /\ Answer.ok => Answer # Raised
  <1>1. toBridge \in Seq(PipeLines) /\ awaits \in Nat
    BY DEF AgentTypes
  <1>2. CASE Reads /\ Answers(Head(toBridge))
    <2>1. toBridge # <<>>
      BY <1>2 DEF Reads
    <2>2. Head(toBridge) \in PipeLines
      BY <1>1, <2>1
    <2>3. Answer = Head(toBridge) /\ Head(toBridge).id = awaits
      BY <1>2, Zenon DEF Answer, Answers
    <2> QED
      BY <1>1, <2>2, <2>3 DEF PipeLines, Raised
  <1>3. CASE ~(Reads /\ Answers(Head(toBridge)))
    <2>1. Answer = Raised
      BY <1>3, Zenon DEF Answer
    <2> QED
      BY <1>1, <2>1 DEF PipeLines, Raised
  <1> QED
    BY <1>2, <1>3

LEMMA ReadTyped ==
    ASSUME AgentTypes, Read
    PROVE  /\ toServer' \in Seq(Nat) /\ toBridge' \in Seq(PipeLines) /\ awaits' \in Nat /\ nextId' \in Nat
  <1>1. toBridge # <<>> => Tail(toBridge) \in Seq(PipeLines)
    BY HeadTailProperties DEF AgentTypes
  <1> QED
    BY <1>1 DEF AgentTypes, Read, Reads

\* What looking for a binary leads to.
Elsewhere == UNCHANGED <<bubble, response>>
LEMMA ResolvedTo ==
    ASSUME NEW why \in {"call", "prefetch", "fallback"}, NEW found \in BOOLEAN, Resolved(why, found)
    PROVE  \/ why = "call" /\ at' = "call" /\ Elsewhere
           \/ why # "call" /\ at' = "extract" /\ Elsewhere
           \/ why = "prefetch" /\ at' = "plain" /\ Elsewhere
           \/ why = "fallback" /\ Finish(bubble, said)
  <1>1. CASE why = "call"
    BY <1>1 DEF Resolved, Elsewhere
  <1>2. CASE why # "call" /\ found
    BY <1>2 DEF Resolved, Elsewhere
  <1>3. CASE why = "prefetch" /\ ~found
    BY <1>3 DEF Resolved, Elsewhere
  <1>4. CASE why = "fallback" /\ ~found
    BY <1>4 DEF Resolved, Elsewhere
  <1> QED
    BY <1>1, <1>2, <1>3, <1>4

LEMMA LookedFor ==
    ASSUME NEW why \in {"call", "prefetch", "fallback"}, AgentTypes, LookFor(why)
    PROVE  /\ purpose' = why
           /\ \/ at' = "find" /\ Elsewhere
              \/ why = "call" /\ at' = "call" /\ Elsewhere
              \/ why # "call" /\ at' = "extract" /\ Elsewhere
              \/ why = "prefetch" /\ at' = "plain" /\ Elsewhere
              \/ why = "fallback" /\ Finish(bubble, said)
  <1>1. agentScope.direct \in BOOLEAN
    BY AgentAssumption DEF AgentTypes
  <1>2. CASE agentScope.direct \/ agentScope.hints = 0
    <2>1. Resolved(why, agentScope.direct) /\ purpose' = why
      BY <1>2, Zenon DEF LookFor
    <2> QED
      BY <1>1, <2>1, ResolvedTo
  <1>3. CASE ~(agentScope.direct \/ agentScope.hints = 0)
    BY <1>3, Zenon DEF LookFor, Elsewhere
  <1> QED
    BY <1>2, <1>3

LEMMA FinishTells ==
    ASSUME NEW shown, NEW content, Finish(shown, content)
    PROVE  /\ at' = "done" /\ response' = content
           /\ bubble' \in {shown, content}
           /\ shown \in {<<>>, content} => bubble' = content
  BY DEF Finish

-----------------------------------------------------------------------------
\* Nothing is owed to the model: what is said next owes nothing.
LEMMA TalkGoesOn ==
    ASSUME messages \in Seq(Messages), TalkInv, AllWhole(messages),
           messages' = messages \/ messages' = Append(messages, User)
              \/ messages' = Append(messages, Assistant(<<>>)),
           at' \notin {"tools", "call"}, at' \in {"find", "extract"} => purpose' # "call"
    PROVE  TalkInv'
  <1>1. <<>> \in Seq(CallKinds)
    BY EmptySeq
  <1>2. AllWhole(messages') /\ messages' \in Seq(Messages)
        /\ \A i \in 1..Len(messages') :
              messages'[i].role = "tool" => messages'[i].got \in {0, messages'[i].id}
    <2>0. \A i \in 1..Len(messages) : messages[i].role = "tool" => messages[i].got \in {0, messages[i].id}
      BY DEF TalkInv
    <2>1. CASE messages' = messages
      BY <2>0, <2>1
    <2>2. ASSUME NEW m \in Messages, m.role \in {"user", "assistant"}, m.calls = <<>>, messages' = Append(messages, m)
          PROVE  /\ AllWhole(messages') /\ messages' \in Seq(Messages)
                 /\ \A i \in 1..Len(messages') :
                       messages'[i].role = "tool" => messages'[i].got \in {0, messages'[i].id}
      <3>1. AllWhole(Append(messages, m))
        BY <2>2, AllWholeStays
      <3>2. Append(messages, m) \in Seq(Messages)
        BY AppendProperties
      <3>3. /\ Len(messages) \in Nat /\ Len(Append(messages, m)) = Len(messages) + 1
            /\ Append(messages, m)[Len(messages) + 1] = m
            /\ \A n \in 1..Len(messages) : Append(messages, m)[n] = messages[n]
        BY AppendProperties, LenProperties
      <3>4. ASSUME NEW i \in 1..Len(Append(messages, m)), Append(messages, m)[i].role = "tool"
            PROVE  Append(messages, m)[i].got \in {0, Append(messages, m)[i].id}
        <4>1. i # Len(messages) + 1
          BY <2>2, <3>3, <3>4
        <4>2. i \in 1..Len(messages)
          BY <3>3, <4>1
        <4> QED
          BY <2>0, <3>3, <3>4, <4>2
      <3> QED
        BY <2>2, <3>1, <3>2, <3>4, Zenon
    <2>3. CASE messages' = Append(messages, User)
      <3>1. User.calls = <<>>
        BY DEF User
      <3> QED
        BY <2>2, <2>3, <3>1, SpokenTo
    <2>4. CASE messages' = Append(messages, Assistant(<<>>))
      BY <1>1, <2>2, <2>4, SpokenTo
    <2> QED
      BY <2>1, <2>3, <2>4
  <1>3. ~Seeking("call")' /\ at' # "tools" /\ at' # "call"
    BY DEF Seeking
  <1> QED
    BY <1>2, <1>3, Zenon DEF TalkInv, AllWhole

LEMMA Owing ==
    ASSUME TalkInv, at \notin {"tools", "call", "done", "failed"}, ~Seeking("call")
    PROVE  AllWhole(messages)
  BY DEF TalkInv, AtTools

\* The pipes: nothing is said.
LEMMA PipesKeepTalk ==
    ASSUME AgentInv, UNCHANGED <<agentScope, at, call, purpose, hint, answerVars, talkVars>>
    PROVE  BubbleInv' /\ TalkInv'
  <1>1. /\ at' = at /\ call' = call /\ purpose' = purpose /\ messages' = messages /\ calls' = calls
        /\ bubble' = bubble /\ response' = response /\ spoilt' = spoilt /\ said' = said
    BY DEF answerVars, talkVars
  <1>2. BubbleInv'
    BY <1>1 DEF AgentInv, BubbleInv, Seeking
  <1>3. TalkInv'
    BY <1>1 DEF AgentInv, TalkInv, Seeking, AtTools, AllWhole, Served, ServedAt
  <1> QED
    BY <1>2, <1>3

-----------------------------------------------------------------------------
\* The step of every action: types, what the chat shows, what the model is told.
LEMMA SingletonSeq ==
    ASSUME NEW S, NEW x \in S
    PROVE  <<x>> \in Seq(S)
  OBVIOUS

LEMMA AgentPipes ==
    ASSUME AgentInv, Serve \/ ServerDies \/ Write
    PROVE  AgentInv'
  <1>1. UNCHANGED <<agentScope, at, call, purpose, hint, answerVars, talkVars>>
    BY DEF Serve, ServerDies, Write
  <1>2. toServer' \in Seq(Nat) /\ toBridge' \in Seq(PipeLines) /\ awaits' \in Nat /\ nextId' \in Nat
    <2>0. toServer \in Seq(Nat) /\ toBridge \in Seq(PipeLines) /\ awaits \in Nat /\ nextId \in Nat
      BY DEF AgentInv, AgentTypes
    <2>1. CASE Serve
      <3>1. toServer # <<>> /\ toServer' = Tail(toServer) /\ awaits' = awaits /\ nextId' = nextId
        BY <2>1 DEF Serve
      <3>2. Head(toServer) \in Nat /\ Tail(toServer) \in Seq(Nat)
        BY <2>0, <3>1, HeadTailProperties
      <3>3. PICK ok \in BOOLEAN, noise \in {<<>>, <<Noise>>} :
               toBridge' = toBridge \o noise \o <<[id |-> Head(toServer), ok |-> ok]>>
        BY <2>1 DEF Serve
      <3>4. [id |-> Head(toServer), ok |-> ok] \in PipeLines /\ Noise \in PipeLines
        BY <3>2 DEF PipeLines, Noise
      <3>5. <<[id |-> Head(toServer), ok |-> ok]>> \in Seq(PipeLines) /\ noise \in Seq(PipeLines)
        BY <3>4, SingletonSeq, EmptySeq
      <3>6. toBridge' \in Seq(PipeLines)
        BY <2>0, <3>3, <3>5, ConcatProperties
      <3> QED
        BY <2>0, <3>1, <3>2, <3>6
    <2>2. CASE ServerDies
      BY <2>0, <2>2, EmptySeq DEF ServerDies
    <2>3. CASE Write
      <3>1. Append(toServer, nextId) \in Seq(Nat)
        BY <2>0, AppendProperties
      <3> QED
        BY <2>0, <2>3, <3>1 DEF Write
    <2> QED
      BY <2>1, <2>2, <2>3
  <1>3. AgentTypes'
    BY <1>1, <1>2 DEF AgentInv, AgentTypes, answerVars, talkVars
  <1>4. BubbleInv' /\ TalkInv'
    BY <1>1, PipesKeepTalk
  <1> QED
    BY <1>3, <1>4 DEF AgentInv

LEMMA AgentConnect ==
    ASSUME AgentInv, Connect
    PROVE  AgentInv'
  <1>1. /\ at \in {"initialize", "list"} /\ Read /\ at' \in {"failed", "list", "chat"}
        /\ UNCHANGED <<agentScope, call, purpose, hint, answerVars, talkVars>>
    BY DEF Connect
  <1>2. AgentTypes'
    BY <1>1, ReadTyped DEF AgentInv, AgentTypes, answerVars, talkVars
  <1>3. BubbleInv'
    BY <1>1 DEF AgentInv, BubbleInv, Seeking, answerVars, talkVars
  <1>4. TalkInv'
    BY <1>1, Owing, TalkGoesOn DEF AgentInv, AgentTypes, Seeking, answerVars, talkVars
  <1> QED
    BY <1>2, <1>3, <1>4 DEF AgentInv

LEMMA AgentFindFile ==
    ASSUME AgentInv, FindFile
    PROVE  AgentInv'
  <1>1. /\ at = "find" /\ Read
        /\ UNCHANGED <<agentScope, call, purpose, spoilt, talkVars>>
        /\ IF Answer.ok \/ hint = 1 THEN Resolved(purpose, Answer.ok)
           ELSE UNCHANGED <<at, bubble, response>>
    BY DEF FindFile
  <1>2. /\ purpose' = purpose /\ call' = call /\ messages' = messages /\ calls' = calls /\ talks' = talks
        /\ spoilt' = spoilt /\ said' = said /\ agentScope' = agentScope
    BY <1>1 DEF talkVars
  <1>3. purpose \in {"call", "prefetch", "fallback"} /\ Answer.ok \in BOOLEAN
    BY <1>1, AnswerTold DEF AgentInv, AgentTypes
  <1>4. \/ at' = "find" /\ Elsewhere
        \/ purpose = "call" /\ at' = "call" /\ Elsewhere
        \/ purpose # "call" /\ at' = "extract" /\ Elsewhere
        \/ purpose = "prefetch" /\ at' = "plain" /\ Elsewhere
        \/ purpose = "fallback" /\ Finish(bubble, said)
    <2>1. CASE Answer.ok \/ hint = 1
      <3>1. Resolved(purpose, Answer.ok)
        BY <1>1, <2>1, Zenon
      <3> QED
        BY <1>3, <3>1, ResolvedTo
    <2>2. CASE ~(Answer.ok \/ hint = 1)
      BY <1>1, <2>2, Zenon DEF Elsewhere
    <2> QED
      BY <2>1, <2>2
  <1>5. AgentTypes'
    BY <1>1, <1>2, <1>4, ReadTyped DEF AgentInv, AgentTypes, Elsewhere, Finish
  <1>6. BubbleInv'
    BY <1>1, <1>2, <1>3, <1>4 DEF AgentInv, BubbleInv, Seeking, Elsewhere, Finish
  <1>7. TalkInv'
    <2>1. CASE purpose = "call"
      <3>1. at' \in {"find", "call"}
        BY <1>4, <2>1
      <3>2. Seeking("call") /\ (at' = "call" \/ Seeking("call")')
        BY <1>1, <1>2, <2>1, <3>1 DEF Seeking
      <3> QED
        BY <1>2, <3>1, <3>2, Zenon DEF AgentInv, TalkInv, AtTools
    <2>2. CASE purpose # "call"
      <3>1. at' \notin {"tools", "call"} /\ purpose' # "call" /\ ~Seeking("call")
        BY <1>2, <1>4, <2>2 DEF Finish, Seeking
      <3> QED
        BY <1>1, <1>2, <3>1, Owing, TalkGoesOn DEF AgentInv, AgentTypes
    <2> QED
      BY <2>1, <2>2
  <1> QED
    BY <1>5, <1>6, <1>7 DEF AgentInv

LEMMA AgentChatRefused ==
    ASSUME AgentInv, ChatRefused
    PROVE  AgentInv'
  <1>1. /\ at = "chat" /\ LookFor("prefetch")
        /\ UNCHANGED <<agentScope, call, messages, talks, said, calls, spoilt, pipeVars>>
    BY DEF ChatRefused
  <1>2. /\ purpose' = "prefetch" /\ at' \in {"find", "extract", "plain"} /\ Elsewhere
    BY <1>1, LookedFor DEF AgentInv
  <1>3. AgentTypes'
    BY <1>1, <1>2 DEF AgentInv, AgentTypes, Elsewhere, pipeVars
  <1>4. BubbleInv'
    BY <1>1, <1>2 DEF AgentInv, BubbleInv, Seeking, Elsewhere
  <1>5. TalkInv'
    BY <1>1, <1>2, Owing, TalkGoesOn DEF AgentInv, AgentTypes, Seeking
  <1> QED
    BY <1>3, <1>4, <1>5 DEF AgentInv

LEMMA SaysTyped ==
    ASSUME AgentInv, NEW text, NEW q \in Seq(CallKinds), Says(text, q)
    PROVE  /\ talks' = talks + 1 /\ talks' \in Nat /\ said' = Content(talks + 1, text) /\ said' \in Seq(Fragments)
           /\ messages' = Append(messages, Assistant(q)) /\ messages' \in Seq(Messages) /\ calls' = q
           /\ AfterSaying(text, q) \in Seq(Fragments)
           /\ bubble = <<>> /\ q = <<>> => AfterSaying(text, q) = said'
           /\ bubble = <<>> /\ q # <<>> => AfterSaying(text, q) = <<>>
  <1>1. /\ talks' = talks + 1 /\ talks' \in Nat /\ talks + 1 \in Nat /\ said' = Content(talks + 1, text)
        /\ messages' = Append(messages, Assistant(q)) /\ calls' = q
    BY DEF Says, AgentInv, AgentTypes
  <1>2. said' \in Seq(Fragments)
    BY <1>1, Spoken
  <1>3. messages' \in Seq(Messages)
    BY <1>1, SpokenTo, AppendProperties DEF AgentInv, AgentTypes
  <1>4. bubble \in Seq(Fragments)
    BY DEF AgentInv, AgentTypes
  <1>5. bubble \o said' \in Seq(Fragments) /\ <<>> \o said' = said' /\ <<>> \in Seq(Fragments)
    BY <1>2, <1>4, Shown, EmptySeq
  <1>6. AfterSaying(text, q) = IF q # <<>> /\ said' # <<>> THEN <<>> ELSE bubble \o said'
    BY <1>1 DEF AfterSaying
  <1> QED
    BY <1>1, <1>2, <1>3, <1>5, <1>6

LEMMA AnswersKept ==
    ASSUME messages \in Seq(Messages), NEW m \in Messages, TalkInv,
           m.role = "tool" => m.got \in {0, m.id}
    PROVE  \A i \in 1..Len(Append(messages, m)) :
              Append(messages, m)[i].role = "tool" => Append(messages, m)[i].got \in {0, Append(messages, m)[i].id}
  <1>1. /\ Len(messages) \in Nat /\ Len(Append(messages, m)) = Len(messages) + 1
        /\ Append(messages, m)[Len(messages) + 1] = m
        /\ \A n \in 1..Len(messages) : Append(messages, m)[n] = messages[n]
    BY AppendProperties, LenProperties
  <1>2. \A i \in 1..Len(messages) : messages[i].role = "tool" => messages[i].got \in {0, messages[i].id}
    BY DEF TalkInv
  <1> SUFFICES ASSUME NEW i \in 1..Len(Append(messages, m)), Append(messages, m)[i].role = "tool"
               PROVE  Append(messages, m)[i].got \in {0, Append(messages, m)[i].id}
    OBVIOUS
  <1>3. CASE i = Len(messages) + 1
    <2>1. Append(messages, m)[i] = m
      BY <1>1, <1>3, Zenon
    <2> QED
      BY <2>1, Zenon
  <1>4. CASE i \in 1..Len(messages)
    <2>1. Append(messages, m)[i] = messages[i]
      BY <1>1, <1>4
    <2> QED
      BY <1>2, <1>4, <2>1, Zenon
  <1> QED
    BY <1>1, <1>3, <1>4

LEMMA BreaksTyped ==
    ASSUME AgentInv, Breaks
    PROVE  /\ talks' \in Nat /\ bubble' \in Seq(Fragments) /\ spoilt' \in BOOLEAN
           /\ ~spoilt' => ~spoilt /\ bubble' = bubble
  <1>1. talks' = talks + 1 /\ talks + 1 \in Nat /\ bubble \in Seq(Fragments) /\ spoilt \in BOOLEAN
    BY DEF Breaks, AgentInv, AgentTypes
  <1>2. PICK shown \in {<<>>, <<<<talks + 1, 1>>>>} :
           bubble' = bubble \o shown /\ spoilt' = (spoilt \/ shown # <<>>)
    BY <1>1 DEF Breaks
  <1>3. shown \in Seq(Fragments)
    BY <1>1, <1>2, Spoken
  <1>4. bubble \o shown \in Seq(Fragments) /\ bubble \o <<>> = bubble
    BY <1>1, <1>3, Shown
  <1>5. spoilt' \in BOOLEAN /\ (~spoilt' => ~spoilt /\ shown = <<>>)
    BY <1>2, Zenon
  <1>6. ~spoilt' => bubble' = bubble
    BY <1>2, <1>4, <1>5, Zenon
  <1> QED
    BY <1>1, <1>2, <1>4, <1>5, <1>6, Zenon

\* A reply without calls.
LEMMA PlainSaid ==
    ASSUME AgentInv, at \in {"plain", "whole"}, NEW text, Says(text, <<>>), bubble' = AfterSaying(text, <<>>),
           at' = "judge", UNCHANGED <<spoilt, agentScope, call, purpose, response, pipeVars>>
    PROVE  AgentInv'
  <1>1. /\ talks' \in Nat /\ said' \in Seq(Fragments)
        /\ messages' = Append(messages, Assistant(<<>>)) /\ messages' \in Seq(Messages) /\ calls' = <<>>
        /\ bubble' \in Seq(Fragments) /\ <<>> \in Seq(CallKinds)
        /\ bubble = <<>> => bubble' = said'
    BY SaysTyped, EmptySeq, Zenon
  <1>2. AgentTypes'
    BY <1>1 DEF AgentInv, AgentTypes, pipeVars
  <1>3. BubbleInv'
    BY <1>1 DEF AgentInv, BubbleInv, Seeking
  <1>4. TalkInv'
    <2>1. AllWhole(messages) /\ TalkInv /\ messages \in Seq(Messages)
      BY Owing DEF AgentInv, AgentTypes, Seeking
    <2> QED
      BY <1>1, <2>1, TalkGoesOn
  <1> QED
    BY <1>2, <1>3, <1>4 DEF AgentInv

LEMMA AgentChat ==
    ASSUME AgentInv, Chat
    PROVE  AgentInv'
  <1>1. /\ at = "chat" /\ call' = 0
        /\ UNCHANGED <<agentScope, purpose, hint, response, pipeVars>>
    BY DEF Chat
  <1>2. CASE \E text \in agentScope.texts, q \in IF offered THEN agentScope.calls ELSE {<<>>} :
                /\ Says(text, q) /\ bubble' = AfterSaying(text, q)
                /\ at' = IF q = <<>> THEN "judge" ELSE "tools"
                /\ UNCHANGED spoilt
    <2>1. PICK text \in agentScope.texts, q \in IF offered THEN agentScope.calls ELSE {<<>>} :
             /\ Says(text, q) /\ bubble' = AfterSaying(text, q)
             /\ at' = IF q = <<>> THEN "judge" ELSE "tools"
             /\ UNCHANGED spoilt
      BY <1>2
    <2>2. q \in Seq(CallKinds)
      <3>1. CASE offered
        BY <3>1, AgentAssumption DEF AgentInv, AgentTypes
      <3>2. CASE ~offered
        BY <3>2, EmptySeq
      <3> QED
        BY <3>1, <3>2
    <2>3. /\ talks' \in Nat /\ said' \in Seq(Fragments)
          /\ messages' = Append(messages, Assistant(q)) /\ messages' \in Seq(Messages) /\ calls' = q
          /\ bubble' \in Seq(Fragments)
          /\ bubble = <<>> /\ q = <<>> => bubble' = said'
          /\ bubble = <<>> /\ q # <<>> => bubble' = <<>>
      BY <2>1, <2>2, SaysTyped, Zenon
    <2>4. AgentTypes'
      BY <1>1, <2>1, <2>2, <2>3 DEF AgentInv, AgentTypes, pipeVars
    <2>5. BubbleInv'
      BY <1>1, <2>1, <2>3 DEF AgentInv, BubbleInv, Seeking
    <2>6. TalkInv'
      <3>1. TalkInv /\ AllWhole(messages) /\ messages \in Seq(Messages)
        BY <1>1, Owing DEF AgentInv, AgentTypes, Seeking
      <3>2. CASE q = <<>>
        BY <2>1, <2>3, <3>1, <3>2, TalkGoesOn
      <3>3. CASE q # <<>>
        <4>1. at' = "tools" /\ calls' = q /\ call' = 0 /\ messages' = Append(messages, Assistant(q))
          BY <1>1, <2>1, <2>3, <3>3
        <4>2. Served(messages', calls', call')
          BY <2>2, <3>1, <4>1, CallsBegin, Zenon
        <4>3. \A i \in 1..Len(messages') : messages'[i].role = "tool" => messages'[i].got \in {0, messages'[i].id}
          BY <2>2, <3>1, <4>1, SpokenTo, AnswersKept
        <4>4. at' # "call" /\ ~Seeking("call")'
          BY <4>1 DEF Seeking
        <4> QED
          BY <4>1, <4>2, <4>3, <4>4, Zenon DEF TalkInv, AtTools
      <3> QED
        BY <3>2, <3>3
    <2> QED
      BY <2>4, <2>5, <2>6 DEF AgentInv
  <1>3. CASE Breaks /\ at' = "failed" /\ UNCHANGED <<messages, step, offered, retried, said, idle, calls>>
    <2>1. talks' \in Nat /\ bubble' \in Seq(Fragments) /\ spoilt' \in BOOLEAN
      BY <1>3, BreaksTyped DEF AgentInv
    <2>2. AgentTypes'
      BY <1>1, <1>3, <2>1 DEF AgentInv, AgentTypes, pipeVars
    <2>3. BubbleInv'
      BY <1>3 DEF BubbleInv, Seeking
    <2>4. TalkInv'
      BY <1>1, <1>3, Owing, TalkGoesOn DEF AgentInv, AgentTypes, Seeking
    <2> QED
      BY <2>2, <2>3, <2>4 DEF AgentInv
  <1> QED
    BY <1>2, <1>3 DEF Chat

LEMMA AgentPlainChat ==
    ASSUME AgentInv, PlainChat
    PROVE  AgentInv'
  <1>1. /\ at = "plain"
        /\ UNCHANGED <<agentScope, call, purpose, hint, response, pipeVars>>
    BY DEF PlainChat
  <1>2. ASSUME NEW text, Says(text, <<>>), bubble' = AfterSaying(text, <<>>), at' = "judge", UNCHANGED spoilt
        PROVE  AgentInv'
    BY <1>1, <1>2, PlainSaid
  <1>3. CASE Breaks /\ at' = "whole" /\ UNCHANGED <<messages, step, offered, retried, said, idle, calls>>
    <2>1. talks' \in Nat /\ bubble' \in Seq(Fragments) /\ spoilt' \in BOOLEAN
          /\ (~spoilt' => ~spoilt /\ bubble' = bubble)
      BY <1>3, BreaksTyped DEF AgentInv
    <2>2. AgentTypes'
      BY <1>1, <1>3, <2>1 DEF AgentInv, AgentTypes, pipeVars
    <2>3. BubbleInv'
      BY <1>1, <1>3, <2>1 DEF AgentInv, BubbleInv, Seeking
    <2>4. TalkInv'
      BY <1>1, <1>3, Owing, TalkGoesOn DEF AgentInv, AgentTypes, Seeking
    <2> QED
      BY <2>2, <2>3, <2>4 DEF AgentInv
  <1> QED
    BY <1>2, <1>3, Zenon DEF PlainChat

LEMMA AgentWholeChat ==
    ASSUME AgentInv, WholeChat
    PROVE  AgentInv'
  <1>1. /\ at = "whole"
        /\ UNCHANGED <<agentScope, call, purpose, hint, response, spoilt, pipeVars>>
    BY DEF WholeChat
  <1>2. ASSUME NEW text, Says(text, <<>>), bubble' = AfterSaying(text, <<>>), at' = "judge"
        PROVE  AgentInv'
    BY <1>1, <1>2, PlainSaid
  <1>3. CASE at' = "failed" /\ UNCHANGED <<bubble, talkVars>>
    <2>1. AgentTypes'
      BY <1>1, <1>3 DEF AgentInv, AgentTypes, pipeVars, talkVars
    <2>2. BubbleInv'
      BY <1>3 DEF BubbleInv, Seeking
    <2>3. TalkInv'
      BY <1>1, <1>3, Owing, TalkGoesOn DEF AgentInv, AgentTypes, Seeking, talkVars
    <2> QED
      BY <2>1, <2>2, <2>3 DEF AgentInv
  <1> QED
    BY <1>2, <1>3, Zenon DEF WholeChat

LEMMA AgentJudge ==
    ASSUME AgentInv, Judge
    PROVE  AgentInv'
  <1>1. /\ at = "judge"
        /\ UNCHANGED <<agentScope, call, talks, offered, said, idle, calls, spoilt, pipeVars>>
    BY DEF Judge
  <1>2. /\ said' = said /\ spoilt' = spoilt /\ calls' = calls /\ call' = call /\ talks' = talks
        /\ agentScope' = agentScope /\ said \in Seq(Fragments) /\ (~spoilt => bubble = said)
        /\ bubble \in Seq(Fragments) /\ messages \in Seq(Messages) /\ AllWhole(messages) /\ TalkInv
        /\ toServer' = toServer /\ toBridge' = toBridge /\ awaits' = awaits /\ nextId' = nextId
    BY <1>1, Owing DEF AgentInv, AgentTypes, BubbleInv, Seeking, pipeVars
  <1>3. CASE messages' = Append(messages, User) /\ NextRound(<<>>) /\ UNCHANGED <<purpose, hint>>
    <2>1. messages' \in Seq(Messages) /\ <<>> \in Seq(Fragments)
      BY <1>2, <1>3, SpokenTo, AppendProperties, EmptySeq
    <2>2. \/ at' = "chat" /\ bubble' = <<>>
          \/ at' = "done" /\ bubble' = said /\ response' = said
      BY <1>3 DEF NextRound, Finish
    <2>3. AgentTypes'
      BY <1>1, <1>2, <1>3, <2>1, <2>2 DEF AgentInv, AgentTypes
    <2>4. BubbleInv'
      BY <2>2 DEF BubbleInv, Seeking
    <2>5. TalkInv'
      BY <1>2, <1>3, <2>2, TalkGoesOn
    <2> QED
      BY <2>3, <2>4, <2>5 DEF AgentInv
  <1>4. CASE LookFor("fallback") /\ messages' = messages
    <2>1. /\ purpose' = "fallback"
          /\ (at' \in {"find", "extract"} /\ Elsewhere) \/ Finish(bubble, said)
      BY <1>4, LookedFor DEF AgentInv
    <2>2. AgentTypes'
      BY <1>1, <1>2, <1>4, <2>1 DEF AgentInv, AgentTypes, Elsewhere, Finish
    <2>3. BubbleInv'
      BY <1>2, <2>1 DEF BubbleInv, Seeking, Elsewhere, Finish
    <2>4. TalkInv'
      <3>1. at' \notin {"tools", "call"} /\ purpose' # "call"
        BY <2>1 DEF Finish
      <3> QED
        BY <1>2, <1>4, <3>1, TalkGoesOn
    <2> QED
      BY <2>2, <2>3, <2>4 DEF AgentInv
  <1>5. CASE Finish(bubble, said) /\ messages' = messages /\ purpose' = purpose
    <2>1. at' = "done" /\ response' = said /\ bubble' \in {bubble, said} /\ (~spoilt => bubble' = said)
      BY <1>2, <1>5 DEF Finish
    <2>2. AgentTypes'
      BY <1>1, <1>2, <1>5, <2>1 DEF AgentInv, AgentTypes
    <2>3. BubbleInv'
      BY <1>2, <2>1 DEF BubbleInv, Seeking
    <2>4. TalkInv'
      BY <1>2, <1>5, <2>1, TalkGoesOn
    <2> QED
      BY <2>2, <2>3, <2>4 DEF AgentInv
  <1> QED
    BY <1>3, <1>4, <1>5 DEF Judge

\* All the results stand, so the model may be asked again.
LEMMA AgentTakeCall ==
    ASSUME AgentInv, TakeCall
    PROVE  AgentInv'
  <1>1. /\ at = "tools" /\ call' = call + 1
        /\ UNCHANGED <<agentScope, messages, talks, offered, retried, said, idle, calls>>
        /\ UNCHANGED <<spoilt, pipeVars>>
    BY DEF TakeCall
  <1>2. /\ call \in Nat /\ calls \in Seq(CallKinds) /\ messages \in Seq(Messages)
        /\ said \in Seq(Fragments) /\ bubble \in Seq(Fragments)
        /\ Served(messages, calls, call) /\ (~spoilt => bubble = <<>>)
        /\ \A i \in 1..Len(messages) : messages[i].role = "tool" => messages[i].got \in {0, messages[i].id}
    BY <1>1 DEF AgentInv, AgentTypes, BubbleInv, TalkInv
  <1>3. call' = call + 1 /\ call' \in Nat /\ call' - 1 = call /\ Len(calls) \in Nat
    BY <1>1, <1>2, LenProperties
  <1>4. /\ said' = said /\ spoilt' = spoilt /\ calls' = calls /\ talks' = talks /\ agentScope' = agentScope
        /\ messages' = messages
        /\ toServer' = toServer /\ toBridge' = toBridge /\ awaits' = awaits /\ nextId' = nextId
    BY <1>1 DEF pipeVars
  <1>5. CASE call = Len(calls) /\ NextRound(bubble) /\ UNCHANGED <<purpose, hint>>
    <2>1. \/ at' = "chat" /\ bubble' = bubble
          \/ at' = "done" /\ bubble' \in {bubble, said} /\ response' = said /\ (bubble = <<>> => bubble' = said)
      BY <1>5 DEF NextRound, Finish
    <2>2. AllWhole(messages)
      BY <1>2, <1>5, CallsEnd
    <2>3. AgentTypes'
      BY <1>2, <1>3, <1>4, <1>5, <2>1 DEF AgentInv, AgentTypes
    <2>4. BubbleInv'
      BY <1>2, <1>4, <2>1 DEF BubbleInv, Seeking
    <2>5. TalkInv'
      <3>1. TalkInv
        BY DEF AgentInv
      <3>2. at' \notin {"tools", "call", "find", "extract"}
        BY <2>1
      <3> QED
        BY <1>2, <1>4, <2>2, <3>1, <3>2, TalkGoesOn
    <2> QED
      BY <2>3, <2>4, <2>5 DEF AgentInv
  <1>6. CASE call < Len(calls)
                /\ CASE calls[call'] = "nameless" -> UNCHANGED <<at, purpose, hint, bubble, response>>
                     [] calls[call'] = "badargs" ->
                            at' = "failed" /\ UNCHANGED <<purpose, hint, bubble, response>>
                     [] calls[call'] = "good" ->
                            at' = "call" /\ UNCHANGED <<purpose, hint, bubble, response>>
                     [] calls[call'] = "bare" -> LookFor("call")
    <2>0. call < Len(calls)
      BY <1>6, Zenon
    <2>1. call' \in 1..Len(calls) /\ call < Len(calls)
      BY <1>2, <1>3, <2>0
    <2>2. calls[call'] \in CallKinds
      BY <1>2, <2>1, ElementOfSeq
    <2>3. \/ calls[call'] = "nameless" /\ at' = "tools" /\ Elsewhere /\ purpose' = purpose
          \/ calls[call'] # "nameless" /\ at' = "failed" /\ Elsewhere /\ purpose' = purpose
          \/ calls[call'] # "nameless" /\ at' = "call" /\ Elsewhere
          \/ calls[call'] # "nameless" /\ at' = "find" /\ purpose' = "call" /\ Elsewhere
      <3>1. CASE calls[call'] = "nameless"
        BY <1>1, <1>6, <3>1 DEF Elsewhere
      <3>2. CASE calls[call'] = "badargs"
        BY <1>6, <3>2 DEF Elsewhere
      <3>3. CASE calls[call'] = "good"
        BY <1>6, <3>3 DEF Elsewhere
      <3>4. CASE calls[call'] = "bare"
        <4>1. LookFor("call")
          BY <1>6, <3>4
        <4> QED
          BY <3>4, <4>1, LookedFor DEF AgentInv
      <3> QED
        BY <2>2, <3>1, <3>2, <3>3, <3>4 DEF CallKinds
    <2>4. AgentTypes'
      BY <1>2, <1>3, <1>4, <2>3 DEF AgentInv, AgentTypes, Elsewhere
    <2>5. BubbleInv'
      BY <1>2, <1>4, <2>3 DEF BubbleInv, Seeking, Elsewhere
    <2>6. TalkInv'
      <3>1. CASE calls[call'] = "nameless"
        <4>1. at' = "tools"
          BY <2>3, <3>1
        <4>2. Served(messages, calls, call + 1)
          BY <1>2, <1>3, <2>1, <3>1, NamelessPassed
        <4>3. Served(messages, calls, call)' /\ at' # "call" /\ ~Seeking("call")' /\ AtTools'
          BY <1>3, <1>4, <4>1, <4>2 DEF Seeking, AtTools
        <4> QED
          BY <1>2, <1>4, <4>1, <4>3, Zenon DEF TalkInv
      <3>2. CASE calls[call'] # "nameless"
        <4>1. at' = "failed" \/ at' = "call" \/ Seeking("call")'
          BY <2>3, <3>2 DEF Seeking
        <4>2. call' \in 1..Len(calls') /\ calls'[call'] # "nameless" /\ Served(messages', calls', call' - 1)
          BY <1>2, <1>3, <1>4, <2>1, <3>2
        <4>3. at' # "tools" /\ (AtTools \/ at \in {"done", "failed"})'
          BY <4>1 DEF AtTools, Seeking
        <4> QED
          BY <1>2, <1>4, <4>2, <4>3, Zenon DEF TalkInv
      <3> QED
        BY <3>1, <3>2
    <2> QED
      BY <2>4, <2>5, <2>6 DEF AgentInv
  <1> QED
    BY <1>5, <1>6, Zenon DEF TakeCall

LEMMA AgentCallEnds ==
    ASSUME AgentInv, CallEnds
    PROVE  AgentInv'
  <1>1. /\ at = "call" /\ Read /\ at' = "tools"
        /\ messages' = Append(messages, ToolSays(call, awaits, Answer.id))
        /\ UNCHANGED <<agentScope, call, purpose, hint, answerVars, step, talks>>
        /\ UNCHANGED <<offered, retried, said, idle, calls>>
    BY DEF CallEnds
  <1>2. /\ call \in Nat /\ calls \in Seq(CallKinds) /\ messages \in Seq(Messages) /\ awaits \in Nat
        /\ call \in 1..Len(calls) /\ calls[call] # "nameless" /\ Served(messages, calls, call - 1)
        /\ TalkInv
    BY <1>1 DEF AgentInv, AgentTypes, TalkInv
  <1> DEFINE m == ToolSays(call, awaits, Answer.id)
  <1>3. Answer.id \in Nat /\ Answer.id \in {0, awaits}
    BY AnswerTold DEF AgentInv
  <1>4. m \in Messages /\ m.role = "tool" /\ m.call = call /\ m.id = awaits /\ m.got = Answer.id
    <2>1. \A id \in Nat : /\ ToolSays(call, awaits, id) \in Messages /\ ToolSays(call, awaits, id).role = "tool"
                        /\ ToolSays(call, awaits, id).call = call /\ ToolSays(call, awaits, id).id = awaits
                        /\ ToolSays(call, awaits, id).got = id
      BY <1>2, Told
    <2> QED
      BY <1>3, <2>1
  <1> HIDE DEF m
  <1>5. messages' = Append(messages, m) /\ messages' \in Seq(Messages)
    BY <1>1, <1>2, <1>4, AppendProperties DEF m
  <1>6. AgentTypes'
    BY <1>1, <1>5, ReadTyped DEF AgentInv, AgentTypes, answerVars
  <1>7. BubbleInv'
    BY <1>1 DEF AgentInv, BubbleInv, Seeking, answerVars
  <1>8. TalkInv'
    <2>1. \A i \in 1..Len(messages') : messages'[i].role = "tool" => messages'[i].got \in {0, messages'[i].id}
      BY <1>2, <1>3, <1>4, <1>5, AnswersKept, Zenon
    <2>2. Served(messages, calls, call)'
      <3>1. Len(calls) \in Nat
        BY <1>2, LenProperties
      <3>2. call - 1 \in Nat /\ call - 1 < Len(calls) /\ (call - 1) + 1 = call
        BY <1>2, <3>1
      <3>3. Served(Append(messages, m), calls, (call - 1) + 1)
        BY <1>2, <1>4, <3>2, ResultFollows
      <3> QED
        BY <1>1, <1>5, <3>2, <3>3
    <2>3. at' = "tools" /\ at' # "call" /\ ~Seeking("call")' /\ AtTools'
      BY <1>1 DEF Seeking, AtTools
    <2> QED
      BY <2>1, <2>2, <2>3, Zenon DEF TalkInv
  <1> QED
    BY <1>6, <1>7, <1>8 DEF AgentInv

LEMMA AgentExtractEnds ==
    ASSUME AgentInv, ExtractEnds
    PROVE  AgentInv'
  <1>1. /\ at = "extract" /\ Read
        /\ UNCHANGED <<agentScope, call, purpose, hint, spoilt, step, talks>>
        /\ UNCHANGED <<offered, retried, said, idle, calls>>
    BY DEF ExtractEnds
  <1>2. /\ purpose \in {"prefetch", "fallback"} /\ messages \in Seq(Messages) /\ bubble \in Seq(Fragments)
        /\ said \in Seq(Fragments) /\ AllWhole(messages) /\ TalkInv
        /\ (~spoilt => bubble = IF purpose = "fallback" THEN said ELSE <<>>)
    BY <1>1, Owing DEF AgentInv, AgentTypes, BubbleInv, Seeking
  <1>3. Answer.ok \in BOOLEAN /\ (Answer.ok => Answer # Raised)
    BY AnswerTold DEF AgentInv
  <1>4. \/ at' \in {"failed", "plain"} /\ messages' = messages /\ Elsewhere /\ (at' = "plain" => purpose = "prefetch")
        \/ purpose = "fallback" /\ messages' = messages /\ Finish(bubble, said)
        \/ purpose = "fallback" /\ messages' = Append(messages, User) /\ at' = "synthesis" /\ bubble' = <<>>
    <2>1. CASE Answer = Raised
      BY <1>3, <2>1 DEF ExtractEnds, Elsewhere
    <2>2. CASE Answer # Raised /\ ~Answer.ok
      <3>1. Resolved(purpose, FALSE) /\ messages' = messages
        BY <2>2 DEF ExtractEnds
      <3> QED
        BY <1>2, <3>1 DEF Resolved, Elsewhere
    <2>3. CASE Answer.ok /\ purpose = "prefetch"
      BY <1>3, <2>3 DEF ExtractEnds, Elsewhere
    <2>4. CASE Answer.ok /\ purpose = "fallback"
      BY <1>3, <2>4 DEF ExtractEnds
    <2> QED
      BY <1>2, <1>3, <2>1, <2>2, <2>3, <2>4
  <1>5. messages' \in Seq(Messages) /\ <<>> \in Seq(Fragments) /\ Append(messages, User) \in Seq(Messages)
    <2>1. Append(messages, User) \in Seq(Messages)
      BY <1>2, SpokenTo, AppendProperties
    <2> QED
      BY <1>2, <1>4, <2>1, EmptySeq
  <1>6. AgentTypes'
    BY <1>1, <1>2, <1>4, <1>5, ReadTyped DEF AgentInv, AgentTypes, Elsewhere, Finish
  <1>7. BubbleInv'
    BY <1>1, <1>2, <1>4 DEF BubbleInv, Seeking, Elsewhere, Finish
  <1>8. TalkInv'
    <2>1. at' \in {"failed", "plain", "done", "synthesis"}
      BY <1>4 DEF Finish
    <2> QED
      BY <1>2, <1>4, <2>1, TalkGoesOn
  <1> QED
    BY <1>6, <1>7, <1>8 DEF AgentInv

LEMMA AgentSynthesis ==
    ASSUME AgentInv, Synthesis
    PROVE  AgentInv'
  <1>1. /\ at = "synthesis"
        /\ UNCHANGED <<agentScope, call, purpose, hint, messages, step>>
        /\ UNCHANGED <<offered, retried, said, idle, calls, pipeVars>>
    BY DEF Synthesis
  <1>2. /\ talks \in Nat /\ talks + 1 \in Nat /\ spoilt \in BOOLEAN /\ bubble \in Seq(Fragments)
        /\ (~spoilt => bubble = <<>>)
    BY <1>1 DEF AgentInv, AgentTypes, BubbleInv
  <1>3. /\ at' = "done" /\ talks' \in Nat /\ bubble' \in Seq(Fragments) /\ spoilt' \in BOOLEAN
        /\ (~spoilt' => bubble' = response')
    <2>1. ASSUME NEW text,
                 Finish(bubble \o Content(talks + 1, text),
                        IF text \in {"none", "blank"} THEN Extract ELSE Content(talks + 1, text)),
                 spoilt' = (spoilt \/ text = "blank")
          PROVE  /\ at' = "done" /\ bubble' \in Seq(Fragments) /\ spoilt' \in BOOLEAN
                 /\ (~spoilt' => bubble' = response')
      <3> DEFINE new == Content(talks + 1, text)
      <3>1. /\ new \in Seq(Fragments) /\ Extract \in Seq(Fragments) /\ (text = "none" => new = <<>>)
            /\ bubble \o new \in Seq(Fragments) /\ <<>> \o new = new
        BY <1>2, Spoken, Shown
      <3> HIDE DEF new
      <3>2. Finish(bubble \o new, IF text \in {"none", "blank"} THEN Extract ELSE new)
        BY <2>1 DEF new
      <3>3. /\ at' = "done" /\ response' = (IF text \in {"none", "blank"} THEN Extract ELSE new)
            /\ bubble' = (IF bubble \o new = <<>> THEN response' ELSE bubble \o new)
        BY <3>2, Zenon DEF Finish
      <3>4. bubble' \in Seq(Fragments) /\ spoilt' \in BOOLEAN /\ (~spoilt' => ~spoilt /\ text # "blank")
        BY <2>1, <3>1, <3>3, Zenon
      <3>5. ASSUME ~spoilt' PROVE bubble' = response'
        <4>1. bubble = <<>> /\ text # "blank"
          BY <1>2, <3>4, <3>5
        <4>2. bubble \o new = new
          BY <3>1, <4>1, Zenon
        <4> QED
          BY <3>1, <3>3, <4>1, <4>2
      <3> QED
        BY <3>3, <3>4, <3>5
    <2>2. ASSUME NEW new \in {<<>>, <<<<talks + 1, 1>>>>},
                 Finish(bubble \o new, Extract), spoilt' = (spoilt \/ new # <<>>)
          PROVE  /\ at' = "done" /\ bubble' \in Seq(Fragments) /\ spoilt' \in BOOLEAN
                 /\ (~spoilt' => bubble' = response')
      <3>1. new \in Seq(Fragments) /\ Extract \in Seq(Fragments)
        BY <1>2, Spoken
      <3>2. bubble \o new \in Seq(Fragments) /\ <<>> \o new = new
        BY <1>2, <3>1, Shown
      <3>3. /\ at' = "done" /\ response' = Extract
            /\ bubble' = (IF bubble \o new = <<>> THEN response' ELSE bubble \o new)
        BY <2>2, Zenon DEF Finish
      <3>4. bubble' \in Seq(Fragments) /\ spoilt' \in BOOLEAN /\ (~spoilt' => ~spoilt /\ new = <<>>)
        BY <2>2, <3>1, <3>2, <3>3, Zenon
      <3>5. ASSUME ~spoilt' PROVE bubble' = response'
        <4>1. bubble = <<>> /\ new = <<>>
          BY <1>2, <3>4, <3>5
        <4>2. bubble \o new = <<>>
          BY <3>2, <4>1, Zenon
        <4> QED
          BY <3>3, <4>2
      <3> QED
        BY <3>3, <3>4, <3>5
    <2>3. talks' = talks + 1
      BY DEF Synthesis
    <2>4. \/ \E text \in agentScope.texts :
                LET new == Content(talks + 1, text)
                IN /\ Finish(bubble \o new, IF text \in {"none", "blank"} THEN Extract ELSE new)
                   /\ spoilt' = (spoilt \/ text = "blank") /\ talks' = talks + 1
          \/ /\ agentScope.breaks /\ talks' = talks + 1
             /\ \E new \in {<<>>, <<<<talks', 1>>>>} :
                   Finish(bubble \o new, Extract) /\ spoilt' = (spoilt \/ new # <<>>)
      BY DEF Synthesis
    <2>5. CASE \E text \in agentScope.texts :
                LET new == Content(talks + 1, text)
                IN /\ Finish(bubble \o new, IF text \in {"none", "blank"} THEN Extract ELSE new)
                   /\ spoilt' = (spoilt \/ text = "blank") /\ talks' = talks + 1
      BY <1>2, <2>1, <2>3, <2>5, Zenon
    <2>6. CASE \E new \in {<<>>, <<<<talks', 1>>>>} :
                   Finish(bubble \o new, Extract) /\ spoilt' = (spoilt \/ new # <<>>)
      BY <1>2, <2>2, <2>3, <2>6, Zenon
    <2> QED
      BY <2>4, <2>5, <2>6
  <1>4. AgentTypes'
    BY <1>1, <1>3 DEF AgentInv, AgentTypes, pipeVars
  <1>5. BubbleInv'
    BY <1>3 DEF BubbleInv, Seeking
  <1>6. TalkInv'
    BY <1>1, <1>3, Owing, TalkGoesOn DEF AgentInv, AgentTypes, Seeking
  <1> QED
    BY <1>4, <1>5, <1>6 DEF AgentInv

LEMMA AgentStarts == AgentInit => AgentInv
  <1> SUFFICES ASSUME AgentInit PROVE AgentInv
    OBVIOUS
  <1>1. messages = <<User>> /\ messages \in Seq(Messages) /\ Len(messages) = 1 /\ messages[1] = User
    BY SpokenTo, SingletonSeq DEF AgentInit
  <1>2. AgentTypes
    BY <1>1, EmptySeq DEF AgentInit, AgentTypes
  <1>3. BubbleInv
    BY DEF AgentInit, BubbleInv, Seeking
  <1>4. \A i \in 1..Len(messages) : messages[i] = User
    BY <1>1
  <1>5. User.role # "tool" /\ User.role # "assistant"
    BY DEF User
  <1>6. AllWhole(messages) /\ \A i \in 1..Len(messages) : messages[i].role # "tool"
    BY <1>4, <1>5, Zenon DEF AllWhole
  <1>7. at \notin {"tools", "call"} /\ ~Seeking("call")
    BY DEF AgentInit, Seeking
  <1>8. TalkInv
    BY <1>6, <1>7, Zenon DEF TalkInv
  <1> QED
    BY <1>2, <1>3, <1>8 DEF AgentInv

LEMMA AgentSteps == AgentInv /\ [AgentNext]_agentVars => AgentInv'
  <1> SUFFICES ASSUME AgentInv, [AgentNext]_agentVars
               PROVE  AgentInv'
    OBVIOUS
  <1>1. CASE AgentNext
    BY <1>1, AgentPipes, AgentConnect, AgentFindFile, AgentChat, AgentChatRefused, AgentPlainChat,
       AgentWholeChat, AgentJudge, AgentTakeCall, AgentCallEnds, AgentExtractEnds, AgentSynthesis DEF AgentNext
  <1>2. CASE UNCHANGED agentVars
    <2>1. AgentTypes'
      BY <1>2 DEF AgentInv, AgentTypes, agentVars, answerVars, talkVars, pipeVars
    <2>2. BubbleInv' /\ TalkInv'
      BY <1>2, PipesKeepTalk DEF agentVars
    <2> QED
      BY <2>1, <2>2 DEF AgentInv
  <1> QED
    BY <1>1, <1>2

\* The model reads the results of its own calls, and the user the answer that is kept
\* (run_agent_once, McpStdioClient.request).
THEOREM TalksAreFaithful == AgentSpec => []TalkFaithful
  <1>1. AgentInv => TalkFaithful
    <2> SUFFICES ASSUME AgentInv PROVE TalkFaithful
      OBVIOUS
    <2>1. ShownIsAnswer
      BY DEF AgentInv, BubbleInv, ShownIsAnswer
    <2>2. at = "chat" => AllWhole(messages)
      BY Owing DEF AgentInv, Seeking
    <2>3. ToolResultsMatch
      BY <2>2 DEF AgentInv, TalkInv, ToolResultsMatch, AllWhole
    <2> QED
      BY <2>1, <2>3 DEF TalkFaithful
  <1> QED
    BY <1>1, AgentStarts, AgentSteps, PTL DEF AgentSpec

-----------------------------------------------------------------------------
(* The pseudo-C panel *)

ViewFields == {"binary", "active", "options", "picked", "held", "manual", "cursor", "forced", "best", "done",
               "payloads", "rendered", "content", "kept", "pending", "fresh", "history", "place", "astray"}

\* A request whose first answer is still to come, for this decompiler.
Owed(r, b, a, by) ==
    /\ decRuns[r].stage \in {"list", "running"} /\ decRuns[r].first
    /\ decRuns[r].binary = b /\ decRuns[r].addr = a /\ decRuns[r].want = by

\* What is kept and awaited stands under its own name.
KeptTrue(v) == \A k \in DOMAIN v.kept : v.kept[k].binary = k.binary /\ v.kept[k].addr = k.addr
Named(v) == \A k \in v.pending : k = KeyFor(k.binary, k.by, k.addr, k.addr)

\* What was rendered last is what is shown, if code is shown at all.
RenderedTrue(v) ==
    LET p == v.content IN
    /\ DOMAIN v.rendered = {"at", "addr", "by"}
    /\ \/ v.rendered.at = <<>> \/ p \in {NoCode, Loader}
       \/ v.rendered.at = <<p.binary>> /\ v.rendered.addr = p.addr

\* Nothing is shown as the code of another function.
Shows(v) ==
    LET p == v.content IN
    \/ ~v.active \/ v.astray \/ p \in {NoCode, Loader} \/ p.addr = Full \/ SelectedAddr(v) = Full
    \/ p.binary = v.binary /\ p.addr = SelectedAddr(v)

ViewTrue(v) ==
    /\ DOMAIN v = ViewFields /\ v.manual \in BOOLEAN /\ v.astray \in BOOLEAN
    /\ KeptTrue(v) /\ Named(v) /\ RenderedTrue(v)

RunFields == {"stage", "binary", "addr", "want", "left", "first", "top", "topAt"}
RunTrue(r) ==
    decRuns[r].stage \in {"list", "running"} =>
        /\ DOMAIN decRuns[r] = RunFields /\ decRuns[r].first \in BOOLEAN
        /\ decRuns[r].stage = "running" /\ decRuns[r].want # Automatic => decRuns[r].left \subseteq {decRuns[r].want}

\* Whatever is awaited is owed; so is the selected function, by its decompiler, while
\* the code of another one is shown.
AllOwed(v) == \A k \in v.pending : k.addr # Full => \E r \in DOMAIN decRuns : Owed(r, k.binary, k.addr, k.by)
SelectedOwed(v) == \E r \in DOMAIN decRuns : Owed(r, v.binary, SelectedAddr(v), v.forced)

PanelInv ==
    /\ DOMAIN decRuns = 1..MaxDecompiles /\ \A r \in DOMAIN decRuns : RunTrue(r)
    /\ ViewTrue(view) /\ AllOwed(view)
    /\ Shows(view) \/ SelectedOwed(view)


\* What a synchronised selection leaves alone; and it is what is held, and is picked.
SyncedOf(v, u) ==
    /\ DOMAIN u = ViewFields /\ u.held = u.picked
    /\ u.binary = v.binary /\ u.active = v.active /\ u.options = v.options /\ u.cursor = v.cursor
    /\ u.forced = v.forced /\ u.rendered = v.rendered /\ u.content = v.content /\ u.kept = v.kept
    /\ u.pending = v.pending /\ u.fresh = v.fresh /\ u.astray = v.astray

LEMMA SyncedFields ==
    ASSUME NEW v, NEW a, NEW force, DOMAIN v = ViewFields
    PROVE  SyncedOf(v, Synced(v, a, force))
<1>. USE DEF Synced, ViewFields
<1>1. DOMAIN Synced(v, a, force) = ViewFields
  OBVIOUS
<1>2. LET u == Synced(v, a, force) IN u.held = u.picked
  OBVIOUS
<1>3. LET u == Synced(v, a, force) IN
      /\ u.binary = v.binary /\ u.active = v.active /\ u.options = v.options /\ u.cursor = v.cursor
      /\ u.forced = v.forced /\ u.rendered = v.rendered
  OBVIOUS
<1>4. LET u == Synced(v, a, force) IN
      /\ u.content = v.content /\ u.kept = v.kept
      /\ u.pending = v.pending /\ u.fresh = v.fresh /\ u.astray = v.astray
  OBVIOUS
<1>. QED
  BY <1>1, <1>2, <1>3, <1>4 DEF SyncedOf

LEMMA RenderedFields ==
    ASSUME NEW v, NEW p, DOMAIN v = ViewFields
    PROVE  LET u == Rendered(v, p) IN
           /\ DOMAIN u = ViewFields /\ u.held = p.addr /\ u.content = p
           /\ DOMAIN u.rendered = {"at", "addr", "by"}
           /\ u.rendered.at = <<p.binary>> /\ u.rendered.addr = p.addr
           /\ u.binary = v.binary /\ u.active = v.active /\ u.options = v.options /\ u.cursor = v.cursor
           /\ u.forced = v.forced /\ u.picked = v.picked /\ u.manual = v.manual /\ u.kept = v.kept
           /\ u.pending = v.pending /\ u.astray = v.astray
<1>. USE DEF Rendered, ViewFields
<1>1. DOMAIN Rendered(v, p) = ViewFields
  OBVIOUS
<1>2. LET u == Rendered(v, p) IN u.held = p.addr /\ u.content = p
  OBVIOUS
<1>3. LET u == Rendered(v, p)
      IN /\ DOMAIN u.rendered = {"at", "addr", "by"}
         /\ u.rendered.at = <<p.binary>> /\ u.rendered.addr = p.addr
  OBVIOUS
<1>4. LET u == Rendered(v, p) IN
      /\ u.binary = v.binary /\ u.active = v.active /\ u.options = v.options /\ u.cursor = v.cursor
      /\ u.forced = v.forced
  OBVIOUS
<1>5. LET u == Rendered(v, p) IN
      /\ u.picked = v.picked /\ u.manual = v.manual /\ u.kept = v.kept
      /\ u.pending = v.pending /\ u.astray = v.astray
  OBVIOUS
<1>. QED
  BY <1>1, <1>2, <1>3, <1>4, <1>5

LEMMA RememberedFields ==
    ASSUME NEW v, DOMAIN v = ViewFields
    PROVE  LET u == Remembered(v) IN
           /\ DOMAIN u = ViewFields /\ u.held = v.held /\ u.content = v.content /\ u.rendered = v.rendered
           /\ u.binary = v.binary /\ u.active = v.active /\ u.options = v.options /\ u.cursor = v.cursor
           /\ u.forced = v.forced /\ u.picked = v.picked /\ u.manual = v.manual /\ u.kept = v.kept
           /\ u.pending = v.pending /\ u.astray = v.astray
<1>1. CASE Remembered(v) = v
  BY <1>1
<1>2. CASE Remembered(v) # v
  <2>. DEFINE e == [by |-> v.forced, addr |-> SelectedAddr(v)]
              h == Append(SubSeq(v.history, 1, v.place), e)
              n == v.place + 1
  <2>1. Remembered(v) = [v EXCEPT !.history = h, !.place = n]
    BY <1>2 DEF Remembered
  <2>. HIDE DEF h, n
  <2>. QED
    BY <2>1 DEF ViewFields
<1>. QED
  BY <1>1, <1>2

\* A request keeps the selection and its key; the panel then shows the code of the
\* selected function or none, unless its key was awaited before.
RequestedOf(v, u) ==
    /\ ViewTrue(u)
    /\ u.binary = v.binary /\ u.active = v.active /\ u.options = v.options /\ u.cursor = v.cursor
    /\ u.forced = v.forced /\ u.picked = v.picked /\ u.manual = v.manual /\ u.held = SelectedAddr(v)
    /\ u.pending \subseteq v.pending \cup {ChosenKey(v)}
    /\ \/ u.content = Loader
       \/ u.content.binary = v.binary /\ u.content.addr = SelectedAddr(v)
       \/ ChosenKey(v) \in v.pending /\ u.content = v.content

LEMMA RequestedFields ==
    ASSUME NEW v, NEW skip, NEW refresh, ViewTrue(v)
    PROVE  RequestedOf(v, Requested(v, skip, refresh))
<1>. DEFINE k == ChosenKey(v)
            w == IF skip THEN v ELSE Remembered(v)
            held == SelectedAddr(v)
            none == [d \in Decompilers |-> NoPayload]
            keep(q) == [x \in DOMAIN q \ (IF refresh THEN {k} ELSE {}) |-> q[x]]
            u == [w EXCEPT !.held = held, !.fresh = FALSE, !.done = {}, !.best = Automatic,
                           !.payloads = none, !.astray = FALSE, !.kept = keep(@)]
            r == Requested(v, skip, refresh)
<1>1. r = IF k \in DOMAIN u.kept THEN Rendered(u, u.kept[k])
          ELSE IF k \in u.pending THEN u
          ELSE [u EXCEPT !.pending = @ \cup {k}, !.content = Loader]
  BY DEF Requested
<1>2. /\ DOMAIN v = ViewFields /\ KeptTrue(v) /\ Named(v) /\ RenderedTrue(v)
      /\ v.manual \in BOOLEAN /\ v.astray \in BOOLEAN
  BY DEF ViewTrue
<1>3. /\ DOMAIN w = ViewFields /\ w.content = v.content /\ w.rendered = v.rendered
      /\ w.binary = v.binary /\ w.active = v.active /\ w.options = v.options /\ w.cursor = v.cursor
      /\ w.forced = v.forced /\ w.picked = v.picked /\ w.manual = v.manual /\ w.kept = v.kept
      /\ w.pending = v.pending
  BY <1>2, RememberedFields
<1>4. /\ k.binary = v.binary /\ k.addr = held /\ k = KeyFor(k.binary, k.by, k.addr, k.addr)
  BY DEF ChosenKey, KeyFor
<1>5. /\ DOMAIN u = ViewFields /\ u.content = v.content /\ u.rendered = v.rendered /\ u.held = held
      /\ u.binary = v.binary /\ u.active = v.active /\ u.options = v.options /\ u.cursor = v.cursor
      /\ u.forced = v.forced /\ u.picked = v.picked /\ u.manual = v.manual /\ u.kept = keep(v.kept)
      /\ u.pending = v.pending /\ u.astray \in BOOLEAN
  <2>. HIDE DEF w, none, held, k
  <2>1. /\ DOMAIN u = ViewFields /\ u.content = w.content /\ u.rendered = w.rendered /\ u.held = held
        /\ u.kept = keep(w.kept) /\ u.pending = w.pending /\ u.astray = FALSE
    BY <1>3 DEF ViewFields
  <2>2. /\ u.binary = w.binary /\ u.active = w.active /\ u.options = w.options /\ u.cursor = w.cursor
        /\ u.forced = w.forced /\ u.picked = w.picked /\ u.manual = w.manual
    BY <1>3 DEF ViewFields
  <2>. QED
    BY <1>3, <2>1, <2>2
<1>6. KeptTrue(u) /\ Named(u) /\ RenderedTrue(u)
  <2>. HIDE DEF k, held, u, w
  <2>1. KeptTrue(u)
    BY <1>2, <1>5 DEF KeptTrue
  <2>2. Named(u) /\ RenderedTrue(u)
    BY <1>2, <1>5 DEF Named, RenderedTrue
  <2>. QED
    BY <2>1, <2>2
<1>. HIDE DEF u, w, k, held, r
<1>7. CASE k \in DOMAIN u.kept
  <2>. DEFINE p == u.kept[k]
  <2>1. p.binary = k.binary /\ p.addr = k.addr
    BY <1>6, <1>7 DEF KeptTrue
  <2>. HIDE DEF p
  <2>2. r = Rendered(u, p)
    BY <1>1, <1>7 DEF p
  <2>3. /\ DOMAIN r = ViewFields /\ r.held = p.addr /\ r.content = p
        /\ DOMAIN r.rendered = {"at", "addr", "by"}
        /\ r.rendered.at = <<p.binary>> /\ r.rendered.addr = p.addr
        /\ r.binary = u.binary /\ r.active = u.active /\ r.options = u.options /\ r.cursor = u.cursor
        /\ r.forced = u.forced /\ r.picked = u.picked /\ r.manual = u.manual /\ r.kept = u.kept
        /\ r.pending = u.pending /\ r.astray = u.astray
    BY <1>5, <2>2, RenderedFields
  <2>4. KeptTrue(r) /\ Named(r) /\ RenderedTrue(r)
    BY <1>6, <2>3 DEF KeptTrue, Named, RenderedTrue
  <2>5. ViewTrue(r)
    BY <1>2, <1>5, <2>3, <2>4 DEF ViewTrue
  <2>. QED
    BY <1>4, <1>5, <2>1, <2>3, <2>5 DEF r, k, held, RequestedOf
<1>8. CASE k \notin DOMAIN u.kept /\ k \in u.pending
  <2>1. r = u
    BY <1>1, <1>8
  <2>2. ViewTrue(r)
    BY <1>2, <1>5, <1>6, <2>1 DEF ViewTrue
  <2>. QED
    BY <1>5, <1>8, <2>1, <2>2 DEF r, k, held, RequestedOf
<1>9. CASE k \notin DOMAIN u.kept /\ k \notin u.pending
  <2>1. r = [u EXCEPT !.pending = @ \cup {k}, !.content = Loader]
    BY <1>1, <1>9
  <2>2. /\ DOMAIN r = ViewFields /\ r.held = u.held /\ r.content = Loader /\ r.rendered = u.rendered
        /\ r.binary = u.binary /\ r.active = u.active /\ r.options = u.options /\ r.cursor = u.cursor
        /\ r.forced = u.forced /\ r.picked = u.picked /\ r.manual = u.manual /\ r.kept = u.kept
        /\ r.pending = u.pending \cup {k} /\ r.astray = u.astray
    BY <1>5, <2>1 DEF ViewFields
  <2>3. KeptTrue(r) /\ RenderedTrue(r)
    BY <1>6, <2>2 DEF KeptTrue, RenderedTrue
  <2>4. Named(r)
    BY <1>4, <1>6, <2>2 DEF Named
  <2>5. ViewTrue(r)
    BY <1>2, <1>5, <2>2, <2>3, <2>4 DEF ViewTrue
  <2>. QED
    BY <1>5, <2>2, <2>5 DEF r, k, held, RequestedOf
<1>. QED
  BY <1>7, <1>8, <1>9

\* What the panel shows is right after a request, or its key was awaited before and
\* nothing else is shown than before.
Asked(v, u) ==
    /\ ViewTrue(u)
    /\ u.binary = v.binary /\ u.active = v.active /\ u.options = v.options /\ u.cursor = v.cursor
    /\ u.forced = v.forced /\ SelectedAddr(u) = SelectedAddr(v)
    /\ u.pending \subseteq v.pending \cup {ChosenKey(v)}
    /\ Shows(u) \/ (ChosenKey(v) \in v.pending /\ u.content = v.content)

LEMMA RequestAsks ==
    ASSUME NEW v, NEW skip, NEW refresh, ViewTrue(v)
    PROVE  /\ Asked(v, Requested(v, skip, refresh))
           /\ Requested(v, skip, refresh).held = SelectedAddr(v)
           /\ Requested(v, skip, refresh).picked = v.picked
           /\ Requested(v, skip, refresh).manual = v.manual
<1>. DEFINE u == Requested(v, skip, refresh)
<1>1. /\ ViewTrue(u)
      /\ u.binary = v.binary /\ u.active = v.active /\ u.options = v.options /\ u.cursor = v.cursor
      /\ u.forced = v.forced /\ u.picked = v.picked /\ u.manual = v.manual /\ u.held = SelectedAddr(v)
      /\ u.pending \subseteq v.pending \cup {ChosenKey(v)}
      /\ \/ u.content = Loader
         \/ u.content.binary = v.binary /\ u.content.addr = SelectedAddr(v)
         \/ ChosenKey(v) \in v.pending /\ u.content = v.content
  BY RequestedFields DEF RequestedOf
<1>. HIDE DEF u
<1>2. SelectedAddr(u) = SelectedAddr(v)
  BY <1>1 DEF SelectedAddr
<1>3. Shows(u) \/ (ChosenKey(v) \in v.pending /\ u.content = v.content)
  BY <1>1, <1>2 DEF Shows
<1>4. Asked(v, u)
  BY <1>1, <1>2, <1>3 DEF Asked
<1>. QED
  BY <1>1, <1>4 DEF u

\* So does what a tab that is opened, or a cursor that moves, asks for.
LEMMA RefreshAsks ==
    ASSUME NEW v, ViewTrue(v), v.held = v.picked
    PROVE  Asked(v, Refreshed(v))
<1>1. SelectedAddr(v) \in {v.held, Full}
  BY DEF SelectedAddr
<1>2. CASE v.rendered # [at |-> <<v.binary>>, addr |-> v.held, by |-> v.forced]
  <2>1. Refreshed(v) = Requested(v, FALSE, FALSE)
    BY <1>2 DEF Refreshed
  <2>2. Asked(v, Requested(v, FALSE, FALSE))
    BY RequestAsks, Zenon
  <2>. QED
    BY <2>1, <2>2, Zenon
<1>3. CASE v.rendered = [at |-> <<v.binary>>, addr |-> v.held, by |-> v.forced]
  <2>1. Refreshed(v) = v
    BY <1>3 DEF Refreshed
  <2>2. v.rendered.at = <<v.binary>> /\ v.rendered.addr = v.held
    BY <1>3
  <2>3. \/ v.content \in {NoCode, Loader}
        \/ v.content.binary = v.binary /\ v.content.addr = v.held
    BY <2>2 DEF ViewTrue, RenderedTrue
  <2>4. Shows(v)
    BY <1>1, <2>3 DEF Shows
  <2>. QED
    BY <2>1, <2>4 DEF Asked
<1>. QED
  BY <1>2, <1>3

LEMMA SyncedTrue ==
    ASSUME NEW v, NEW a, NEW force, ViewTrue(v)
    PROVE  ViewTrue(Synced(v, a, force))
<1>. DEFINE u == Synced(v, a, force)
<1>1. DOMAIN v = ViewFields
  BY DEF ViewTrue
<1>2. /\ DOMAIN u = ViewFields /\ u.rendered = v.rendered /\ u.content = v.content /\ u.kept = v.kept
      /\ u.pending = v.pending /\ u.astray = v.astray
  BY <1>1, SyncedFields DEF SyncedOf
<1>4. u.manual \in BOOLEAN
  BY <1>1 DEF Synced, ViewFields
<1>. HIDE DEF u
<1>3. KeptTrue(u) /\ Named(u) /\ RenderedTrue(u)
  BY <1>2 DEF ViewTrue, KeptTrue, Named, RenderedTrue
<1>. QED
  BY <1>2, <1>3, <1>4 DEF ViewTrue, u

\* A selection that was synchronised with the cursor stays so.
LEMMA SyncedTwice ==
    ASSUME NEW v, NEW u, DOMAIN v = ViewFields, DOMAIN u = ViewFields,
           v.manual \in BOOLEAN, 
           u.picked = Synced(v, Cursor(v), FALSE).picked, u.held = u.picked,
           u.manual = Synced(v, Cursor(v), FALSE).manual,
           u.cursor = v.cursor, u.options = v.options
    PROVE  Synced(u, Cursor(u), FALSE).picked = u.picked /\ Synced(u, Cursor(u), FALSE).manual = u.manual
<1>. DEFINE chosen == IF v.picked # Full THEN v.picked ELSE v.held
            target == IF Cursor(v) \in v.options THEN Cursor(v) ELSE IF v.held \in v.options THEN v.held ELSE v.picked
            kept == v.manual /\ chosen \in v.options
            sel == IF kept THEN chosen ELSE target
<1>1. u.picked = sel /\ u.manual = v.manual
  BY DEF Synced, ViewFields
<1>2. Cursor(u) = IF v.cursor # Full THEN v.cursor ELSE sel
  BY <1>1 DEF Cursor
<1>. DEFINE target2 == IF Cursor(u) \in v.options THEN Cursor(u) ELSE sel
            kept2 == v.manual /\ sel \in v.options
            sel2 == IF kept2 THEN sel ELSE target2
<1>3. Synced(u, Cursor(u), FALSE).picked = sel2 /\ Synced(u, Cursor(u), FALSE).manual = v.manual
  BY <1>1 DEF Synced, ViewFields
<1>4. sel2 = sel
  BY <1>2 DEF Cursor
<1>. QED
  BY <1>1, <1>3, <1>4

\* A tab that is opened asks once, however often it looks at the selection.
LEMMA OpenAsks ==
    ASSUME NEW v, ViewTrue(v)
    PROVE  LET u == Opened(v) IN
           /\ ViewTrue(u) /\ u.binary = v.binary
           /\ u.pending \subseteq v.pending \cup {ChosenKey(u)}
           /\ Shows(u) \/ ChosenKey(u) \in v.pending
<1>. DEFINE w == [v EXCEPT !.content = Loader]
            s == Synced(w, Cursor(v), FALSE)
            o == IF v.fresh THEN v ELSE Requested(s, FALSE, FALSE)
            t == Synced(o, Cursor(o), FALSE)
            u == Opened(v)
<1>1. u = Refreshed(t)
  BY DEF Opened
<1>2. DOMAIN v = ViewFields
  BY DEF ViewTrue
<1>3. ASSUME NEW x, NEW y, Asked(x, y)
      PROVE  ChosenKey(y) = ChosenKey(x)
  BY <1>3 DEF Asked, ChosenKey
<1>4. ASSUME v.fresh
      PROVE  /\ ViewTrue(u) /\ u.binary = v.binary
             /\ u.pending \subseteq v.pending \cup {ChosenKey(u)}
             /\ Shows(u) \/ ChosenKey(u) \in v.pending
  <2>1. t = Synced(v, Cursor(v), FALSE)
    BY <1>4
  <2>2. ViewTrue(Synced(v, Cursor(v), FALSE))
    BY SyncedTrue, Zenon
  <2>3. /\ t.held = t.picked /\ t.binary = v.binary /\ t.pending = v.pending
    <3>1. SyncedOf(v, Synced(v, Cursor(v), FALSE))
      BY <1>2, SyncedFields
    <3>. QED
      BY <2>1, <3>1 DEF SyncedOf
  <2>. HIDE DEF t, u
  <2>4. Asked(t, u)
    BY <1>1, <2>1, <2>2, <2>3, RefreshAsks
  <2>5. ChosenKey(u) = ChosenKey(t)
    BY <1>3, <2>4
  <2>. QED
    BY <2>3, <2>4, <2>5 DEF Asked
<1>5. ASSUME ~v.fresh
      PROVE  /\ ViewTrue(u) /\ u.binary = v.binary
             /\ u.pending \subseteq v.pending \cup {ChosenKey(u)}
             /\ Shows(u) \/ ChosenKey(u) \in v.pending
  <2>1. /\ DOMAIN w = ViewFields /\ w.content = Loader /\ w.binary = v.binary /\ w.pending = v.pending
        /\ w.kept = v.kept /\ w.rendered = v.rendered /\ w.manual = v.manual /\ w.cursor = v.cursor
        /\ w.held = v.held /\ w.astray = v.astray
    BY <1>2 DEF ViewFields
  <2>. HIDE DEF w
  <2>2. ViewTrue(w)
    <3>1. KeptTrue(w) /\ Named(w) /\ RenderedTrue(w)
      BY <2>1 DEF ViewTrue, KeptTrue, Named, RenderedTrue
    <3>. QED
      BY <2>1, <3>1 DEF ViewTrue
  <2>3. Cursor(w) = Cursor(v)
    BY <2>1 DEF Cursor
  <2>4. s = Synced(w, Cursor(w), FALSE)
    BY <2>3
  <2>5. ViewTrue(s)
    <3>1. ViewTrue(Synced(w, Cursor(w), FALSE))
      BY <2>2, SyncedTrue, Zenon
    <3>. QED
      BY <2>4, <3>1, Zenon
  <2>6. /\ DOMAIN s = ViewFields /\ s.held = s.picked /\ s.binary = w.binary /\ s.options = w.options
        /\ s.cursor = w.cursor /\ s.pending = w.pending /\ s.content = w.content
    <3>1. SyncedOf(w, Synced(w, Cursor(w), FALSE))
      BY <2>1, SyncedFields
    <3>. QED
      BY <2>4, <3>1 DEF SyncedOf
  <2>7. /\ s.picked = Synced(w, Cursor(w), FALSE).picked /\ s.manual = Synced(w, Cursor(w), FALSE).manual
    BY <2>4
  <2>. HIDE DEF s
  <2>8. SelectedAddr(s) = s.picked
    BY <2>6 DEF SelectedAddr
  <2>9. o = Requested(s, FALSE, FALSE)
    BY <1>5
  <2>10. Asked(s, o) /\ o.held = SelectedAddr(s) /\ o.picked = s.picked /\ o.manual = s.manual
    <3>1. /\ Asked(s, Requested(s, FALSE, FALSE))
          /\ Requested(s, FALSE, FALSE).held = SelectedAddr(s)
          /\ Requested(s, FALSE, FALSE).picked = s.picked
          /\ Requested(s, FALSE, FALSE).manual = s.manual
      BY <2>5, RequestAsks, Zenon
    <3>. QED
      BY <2>9, <3>1, Zenon
  <2>. HIDE DEF o
  <2>11. ViewTrue(o) /\ DOMAIN o = ViewFields /\ o.cursor = w.cursor /\ o.options = w.options
    BY <2>6, <2>10 DEF Asked, ViewTrue
  <2>12. w.manual \in BOOLEAN
    BY <2>2 DEF ViewTrue
  <2>13. o.picked = Synced(w, Cursor(w), FALSE).picked /\ o.manual = Synced(w, Cursor(w), FALSE).manual
         /\ o.held = o.picked
    BY <2>7, <2>8, <2>10
  <2>14. t.picked = o.picked /\ t.manual = o.manual
    BY <2>1, <2>11, <2>12, <2>13, SyncedTwice
  <2>15. ViewTrue(t)
    BY <2>11, SyncedTrue, Zenon
  <2>16. /\ t.held = t.picked /\ t.binary = o.binary /\ t.forced = o.forced /\ t.content = o.content
         /\ t.pending = o.pending
    <3>1. SyncedOf(o, Synced(o, Cursor(o), FALSE))
      BY <2>11, SyncedFields
    <3>. QED
      BY <3>1 DEF SyncedOf
  <2>. HIDE DEF t, u
  <2>17. SelectedAddr(t) = SelectedAddr(o)
    BY <2>13, <2>14, <2>16 DEF SelectedAddr
  <2>18. ChosenKey(t) = ChosenKey(o) /\ ChosenKey(o) = ChosenKey(s)
    <3>1. ChosenKey(t) = ChosenKey(o)
      BY <2>16, <2>17 DEF ChosenKey
    <3>. QED
      BY <3>1, <2>10, <1>3
  <2>19. Asked(t, u)
    BY <1>1, <2>15, <2>16, RefreshAsks
  <2>20. ChosenKey(u) = ChosenKey(t)
    BY <1>3, <2>19
  <2>21. ViewTrue(u) /\ u.binary = v.binary
    BY <2>1, <2>6, <2>10, <2>16, <2>19 DEF Asked
  <2>22. u.pending \subseteq v.pending \cup {ChosenKey(u)}
    BY <2>1, <2>6, <2>10, <2>16, <2>18, <2>19, <2>20 DEF Asked
  <2>23. Shows(u) \/ ChosenKey(u) \in v.pending
    <3>1. o.binary = u.binary /\ SelectedAddr(u) = SelectedAddr(o)
      BY <2>16, <2>17, <2>19 DEF Asked
    <3>2. CASE ChosenKey(s) \in s.pending
      BY <3>2, <2>1, <2>6, <2>18, <2>20
    <3>3. CASE Shows(u)
      BY <3>3
    <3>4. CASE ChosenKey(s) \notin s.pending /\ ~Shows(u)
      <4>1. u.content = o.content
        BY <3>4, <2>16, <2>19 DEF Asked
      <4>2. \/ o.content = Loader
            \/ o.content.binary = s.binary /\ o.content.addr = SelectedAddr(s)
        <5>1. RequestedOf(s, Requested(s, FALSE, FALSE))
          BY <2>5, RequestedFields
        <5>. QED
          BY <3>4, <2>9, <5>1 DEF RequestedOf
      <4>3. s.binary = o.binary /\ SelectedAddr(s) = SelectedAddr(o)
        BY <2>10 DEF Asked
      <4>. QED
        BY <3>1, <4>1, <4>2, <4>3 DEF Shows
    <3>. QED
      BY <3>2, <3>3, <3>4
  <2>. QED
    BY <2>21, <2>22, <2>23 DEF u
<1>. QED
  BY <1>4, <1>5

\* Filling the list of functions changes the selection alone, and owns up to it.
PopulatedOf(v, u) ==
    /\ ViewTrue(u) /\ u.binary = v.binary /\ u.active = v.active /\ u.forced = v.forced
    /\ u.pending = v.pending /\ u.content = v.content
    /\ u.astray \/ (SelectedAddr(u) = SelectedAddr(v) /\ u.astray = v.astray)

LEMMA PopulatedFields ==
    ASSUME NEW v, NEW options, ViewTrue(v), v.astray \in BOOLEAN
    PROVE  PopulatedOf(v, Populated(v, options))
<1>. DEFINE was == IF v.picked # Full THEN v.picked ELSE v.held
            sel == IF was \in options THEN was ELSE Full
            u == [v EXCEPT !.options = options, !.picked = sel]
            s == Synced(u, v.cursor, TRUE)
            w == IF was \notin options /\ v.cursor # Full THEN s ELSE u
            x == [w EXCEPT !.held = w.picked]
            far == x.astray \/ SelectedAddr(x) # SelectedAddr(v)
            y == [x EXCEPT !.astray = far]
<1>1. Populated(v, options) = [x EXCEPT !.astray = @ \/ SelectedAddr(x) # SelectedAddr(v)]
  BY DEF Populated
<1>2. DOMAIN v = ViewFields /\ v.manual \in BOOLEAN
  BY DEF ViewTrue
<1>. HIDE DEF was, sel
<1>3. /\ DOMAIN u = ViewFields /\ u.manual = v.manual /\ u.binary = v.binary /\ u.active = v.active
      /\ u.forced = v.forced /\ u.pending = v.pending /\ u.content = v.content /\ u.kept = v.kept
      /\ u.rendered = v.rendered /\ u.astray = v.astray
  BY <1>2 DEF ViewFields
<1>. HIDE DEF u
<1>4. SyncedOf(u, s)
  BY <1>3, SyncedFields
<1>5. s.manual \in BOOLEAN
  BY <1>3 DEF Synced, ViewFields
<1>. HIDE DEF s
<1>6. /\ DOMAIN w = ViewFields /\ w.manual \in BOOLEAN /\ w.binary = v.binary /\ w.active = v.active
      /\ w.forced = v.forced /\ w.pending = v.pending /\ w.content = v.content /\ w.kept = v.kept
      /\ w.rendered = v.rendered /\ w.astray = v.astray
  BY <1>2, <1>3, <1>4, <1>5 DEF SyncedOf
<1>. HIDE DEF w
<1>7. /\ DOMAIN x = ViewFields /\ x.manual = w.manual /\ x.binary = w.binary /\ x.active = w.active
      /\ x.forced = w.forced /\ x.pending = w.pending /\ x.content = w.content /\ x.kept = w.kept
      /\ x.rendered = w.rendered /\ x.astray = w.astray
  BY <1>6 DEF ViewFields
<1>. HIDE DEF x
<1>8. Populated(v, options) = y
  BY <1>1
<1>9. /\ DOMAIN y = ViewFields /\ y.manual = x.manual /\ y.binary = x.binary /\ y.active = x.active
      /\ y.forced = x.forced /\ y.pending = x.pending /\ y.content = x.content /\ y.kept = x.kept
      /\ y.rendered = x.rendered /\ y.picked = x.picked /\ y.held = x.held
  <2>. HIDE DEF far
  <2>. QED
    BY <1>7 DEF ViewFields
<1>10. y.astray = far
  <2>. HIDE DEF far
  <2>. QED
    BY <1>7 DEF ViewFields
<1>. HIDE DEF y
<1>11. SelectedAddr(y) = SelectedAddr(x)
  BY <1>9 DEF SelectedAddr
<1>15. y.astray \in BOOLEAN
  BY <1>6, <1>7, <1>10
<1>12. y.astray \/ (SelectedAddr(y) = SelectedAddr(v) /\ y.astray = v.astray)
  BY <1>6, <1>7, <1>10, <1>11
<1>13. KeptTrue(y) /\ Named(y) /\ RenderedTrue(y)
  BY <1>6, <1>7, <1>9 DEF ViewTrue, KeptTrue, Named, RenderedTrue
<1>14. ViewTrue(y)
  BY <1>6, <1>7, <1>9, <1>13, <1>15 DEF ViewTrue
<1>. QED
  BY <1>6, <1>7, <1>8, <1>9, <1>12, <1>14 DEF PopulatedOf

\* A view that asks for at most what is selected, and shows it, awaits it or is owed it,
\* keeps the panel right.
LEMMA AskingKeeps ==
    ASSUME PanelInv, NEW before, NEW v, before \subseteq view.pending, Asking(before, v), ViewTrue(v),
           v.pending \subseteq before \cup {ChosenKey(v)},
           Shows(v) \/ ChosenKey(v) \in before \/ SelectedOwed(v)
    PROVE  PanelInv'
<1>. DEFINE k == ChosenKey(v)
<1>1. view' = v
  BY DEF Asking
<1>2. k.binary = v.binary /\ k.by = v.forced /\ k.addr = SelectedAddr(v)
  BY DEF ChosenKey, KeyFor
<1>3. /\ DOMAIN decRuns' = 1..MaxDecompiles /\ \A r \in DOMAIN decRuns' : RunTrue(r)'
      /\ \A r \in DOMAIN decRuns : \A b, a, by : Owed(r, b, a, by) => Owed(r, b, a, by)'
      /\ v.pending \subseteq before \/ \E r \in DOMAIN decRuns : Owed(r, k.binary, k.addr, k.by)'
  <2>1. CASE v.pending \subseteq before
    <3>1. decRuns' = decRuns
      BY <2>1 DEF Asking
    <3>. QED
      BY <2>1, <3>1 DEF PanelInv, RunTrue, Owed
  <2>2. CASE ~(v.pending \subseteq before)
    <3>1. PICK n \in 1..MaxDecompiles :
            /\ decRuns[n].stage = "none"
            /\ \E q \in v.pending \ before :
                  decRuns' = [decRuns EXCEPT ![n] =
                      [stage |-> "list", binary |-> q.binary, addr |-> q.addr, want |-> q.by,
                       left |-> {}, first |-> TRUE, top |-> 0, topAt |-> 0]]
      BY <2>2 DEF Asking
    <3>. DEFINE new == [stage |-> "list", binary |-> k.binary, addr |-> k.addr, want |-> k.by,
                        left |-> {}, first |-> TRUE, top |-> 0, topAt |-> 0]
    <3>. HIDE DEF k
    <3>2. decRuns' = [decRuns EXCEPT ![n] = new]
      BY <3>1 DEF k
    <3>3. /\ DOMAIN new = RunFields /\ new.stage = "list" /\ new.binary = k.binary /\ new.addr = k.addr
          /\ new.want = k.by /\ new.first
      BY DEF RunFields
    <3>. HIDE DEF new
    <3>4. DOMAIN decRuns = 1..MaxDecompiles /\ \A r \in DOMAIN decRuns : RunTrue(r)
      BY DEF PanelInv
    <3>5. /\ DOMAIN decRuns' = 1..MaxDecompiles /\ decRuns'[n] = new
          /\ \A r \in 1..MaxDecompiles : r # n => decRuns'[r] = decRuns[r]
      BY <3>2, <3>4
    <3>6. RunTrue(n)'
      BY <3>3, <3>5 DEF RunTrue
    <3>7. ASSUME NEW r \in 1..MaxDecompiles
          PROVE  RunTrue(r)'
      BY <3>4, <3>5, <3>6 DEF RunTrue
    <3>8. ASSUME NEW r \in 1..MaxDecompiles, NEW b, NEW a, NEW by, Owed(r, b, a, by)
          PROVE  Owed(r, b, a, by)'
      BY <3>1, <3>5, <3>8 DEF Owed
    <3>9. Owed(n, k.binary, k.addr, k.by)'
      BY <3>3, <3>5 DEF Owed
    <3>. QED
      BY <3>4, <3>5, <3>7, <3>8, <3>9
  <2>. QED
    BY <2>1, <2>2
<1>. HIDE DEF k
<1>4. ASSUME NEW q \in v.pending, q.addr # Full
      PROVE  \E r \in DOMAIN decRuns' : Owed(r, q.binary, q.addr, q.by)'
  <2>1. CASE q \in before
    <3>1. PICK r \in DOMAIN decRuns : Owed(r, q.binary, q.addr, q.by)
      BY <1>4, <2>1 DEF PanelInv, AllOwed
    <3>. QED
      BY <1>3, <3>1 DEF PanelInv
  <2>2. CASE q \notin before
    BY <1>3, <2>2 DEF PanelInv, k
  <2>. QED
    BY <2>1, <2>2
<1>5. Shows(v) \/ \E r \in DOMAIN decRuns' : Owed(r, v.binary, SelectedAddr(v), v.forced)'
  <2>1. CASE k \in before /\ k.addr # Full
    <3>1. PICK r \in DOMAIN decRuns : Owed(r, k.binary, k.addr, k.by)
      BY <2>1 DEF PanelInv, AllOwed
    <3>. QED
      BY <1>2, <1>3, <3>1 DEF PanelInv
  <2>2. CASE k.addr = Full
    BY <1>2, <2>2 DEF Shows
  <2>3. CASE SelectedOwed(v)
    BY <1>3, <2>3 DEF PanelInv, SelectedOwed
  <2>. QED
    BY <2>1, <2>2, <2>3 DEF k
<1>6. AllOwed(view)'
  BY <1>1, <1>4 DEF AllOwed
<1>7. (Shows(view) \/ SelectedOwed(view))'
  BY <1>1, <1>5 DEF Shows, SelectedOwed, SelectedAddr
<1>8. ViewTrue(view)'
  BY <1>1 DEF ViewTrue, KeptTrue, Named, RenderedTrue
<1>. QED
  BY <1>3, <1>6, <1>7, <1>8 DEF PanelInv

\* An answer that is received settles its keys, and is shown only as the code of the
\* selected function.
ReceivedOf(v, msg, u) ==
    /\ ViewTrue(u) /\ u.binary = v.binary /\ u.active = v.active /\ u.forced = v.forced
    /\ u.astray = v.astray /\ SelectedAddr(u) = SelectedAddr(v)
    /\ u.pending = v.pending \ Settled(v, msg)
    /\ u.content = v.content \/ (u.content.binary = v.binary /\ u.content.addr = SelectedAddr(v))
    /\ (~StaleAnswer(v, msg) /\ ~msg.silent /\ v.forced \in {Automatic, msg.by})
          => (u.content.binary = v.binary /\ u.content.addr = SelectedAddr(v))

LEMMA ReceivedFields ==
    ASSUME NEW v, NEW msg, ViewTrue(v)
    PROVE  ReceivedOf(v, msg, Received(v, msg))
<1>. DEFINE p == [binary |-> msg.binary, addr |-> msg.addr, by |-> msg.by, score |-> msg.score]
            keys == Settled(v, msg)
            answers(f) == [d \in Decompilers |-> IF d = msg.by THEN p ELSE f[d]]
            keep(f) == IF p.score = Failed THEN f
                       ELSE [k \in keys \cup DOMAIN f |-> IF k \in keys THEN p ELSE f[k]]
            best(b) == IF msg.better THEN msg.by ELSE b
            u == [v EXCEPT !.payloads = answers(@), !.pending = @ \ keys, !.kept = keep(@), !.best = best(@)]
            render == IF v.forced = Automatic THEN msg.better \/ ~msg.silent ELSE v.forced = msg.by
            g == ~StaleAnswer(v, msg) /\ render
            n == Received(v, msg)
<1>1. n = IF g THEN Rendered(u, p) ELSE u
  BY DEF Received
<1>2. /\ DOMAIN v = ViewFields /\ KeptTrue(v) /\ Named(v) /\ RenderedTrue(v)
      /\ v.manual \in BOOLEAN /\ v.astray \in BOOLEAN
  BY DEF ViewTrue
<1>3. p.binary = msg.binary /\ p.addr = msg.addr
  OBVIOUS
<1>4. \A k \in keys : k.binary = msg.binary /\ k.addr = msg.addr
  BY DEF Settled, KeyFor
<1>5. ~StaleAnswer(v, msg) => msg.binary = v.binary /\ msg.addr = SelectedAddr(v)
  BY DEF StaleAnswer
<1>6. \A k \in DOMAIN keep(v.kept) : keep(v.kept)[k].binary = k.binary /\ keep(v.kept)[k].addr = k.addr
  <2>. HIDE DEF p, keys
  <2>. QED
    BY <1>2, <1>3, <1>4 DEF KeptTrue
<1>7. g /\ render => ~StaleAnswer(v, msg)
  OBVIOUS
<1>8. ~StaleAnswer(v, msg) /\ ~msg.silent /\ v.forced \in {Automatic, msg.by} => g
  OBVIOUS
<1>9. g => ~StaleAnswer(v, msg)
  OBVIOUS
<1>. HIDE DEF p, keys, answers, best, g, n
<1>10. /\ DOMAIN u = ViewFields /\ u.pending = v.pending \ keys /\ u.kept = keep(v.kept)
       /\ u.binary = v.binary /\ u.active = v.active /\ u.forced = v.forced /\ u.astray = v.astray
  <2>. HIDE DEF keep
  <2>. QED
    BY <1>2 DEF ViewFields
<1>11. /\ u.content = v.content /\ u.rendered = v.rendered /\ u.picked = v.picked /\ u.held = v.held
       /\ u.manual = v.manual
  <2>. HIDE DEF keep
  <2>. QED
    BY <1>2 DEF ViewFields
<1>. HIDE DEF u
<1>12. KeptTrue(u) /\ Named(u) /\ RenderedTrue(u)
  <2>1. KeptTrue(u)
    BY <1>6, <1>10 DEF KeptTrue
  <2>2. Named(u) /\ RenderedTrue(u)
    BY <1>2, <1>10, <1>11 DEF Named, RenderedTrue
  <2>. QED
    BY <2>1, <2>2
<1>13. SelectedAddr(u) = SelectedAddr(v)
  BY <1>11 DEF SelectedAddr
<1>14. CASE ~g
  <2>1. n = u
    BY <1>1, <1>14
  <2>2. ViewTrue(u)
    BY <1>2, <1>10, <1>11, <1>12 DEF ViewTrue
  <2>. QED
    BY <1>8, <1>10, <1>11, <1>13, <1>14, <2>1, <2>2 DEF ReceivedOf, keys, n
<1>15. CASE g
  <2>1. n = Rendered(u, p)
    BY <1>1, <1>15
  <2>2. /\ DOMAIN n = ViewFields /\ n.held = p.addr /\ n.content = p
        /\ DOMAIN n.rendered = {"at", "addr", "by"}
        /\ n.rendered.at = <<p.binary>> /\ n.rendered.addr = p.addr
        /\ n.binary = u.binary /\ n.active = u.active /\ n.forced = u.forced /\ n.picked = u.picked
        /\ n.manual = u.manual /\ n.kept = u.kept /\ n.pending = u.pending /\ n.astray = u.astray
    BY <1>10, <2>1, RenderedFields
  <2>3. KeptTrue(n) /\ Named(n) /\ RenderedTrue(n)
    BY <1>12, <2>2 DEF KeptTrue, Named, RenderedTrue
  <2>4. ViewTrue(n)
    BY <1>2, <1>10, <1>11, <2>2, <2>3 DEF ViewTrue
  <2>5. SelectedAddr(n) = SelectedAddr(v)
    BY <1>3, <1>5, <1>9, <1>11, <1>15, <2>2 DEF SelectedAddr
  <2>6. n.content.binary = v.binary /\ n.content.addr = SelectedAddr(v)
    BY <1>3, <1>5, <1>9, <1>15, <2>2
  <2>. QED
    BY <1>10, <2>2, <2>4, <2>5, <2>6 DEF ReceivedOf, keys, n
<1>. QED
  BY <1>14, <1>15

\* What becomes of a request, what is seen of a view, and an answer to a request.
Ending(new) ==
    \/ new.stage = "over"
    \/ /\ new.stage = "running" /\ DOMAIN new = RunFields /\ new.first \in BOOLEAN
       /\ new.want # Automatic => new.left \subseteq {new.want}

LooksAs(v, w) ==
    /\ ViewTrue(w) /\ w.binary = v.binary /\ w.active = v.active /\ w.forced = v.forced
    /\ w.astray = v.astray /\ SelectedAddr(w) = SelectedAddr(v) /\ w.pending = v.pending
    /\ w.content = v.content

AnswerOf(msg, run) ==
    /\ msg.binary = run.binary /\ msg.addr = run.addr /\ (run.first => ~msg.silent)
    /\ run.want \in {msg.by, Automatic}

\* A request whose first answer comes no longer owes any, and keeps the panel right if
\* nothing it owed is awaited still.
LEMMA RunEndsKeeps ==
    ASSUME PanelInv, NEW r \in 1..MaxDecompiles, NEW new, NEW u,
           decRuns' = [decRuns EXCEPT ![r] = new], view' = u, ViewTrue(u), u.pending \subseteq view.pending,
           Ending(new),
           \A q \in u.pending : q.addr # Full /\ Owed(r, q.binary, q.addr, q.by) =>
              /\ new.stage = "running" /\ new.first /\ new.binary = q.binary /\ new.addr = q.addr
              /\ new.want = q.by,
           \/ Shows(u)
           \/ \E o \in 1..MaxDecompiles :
                 /\ Owed(o, u.binary, SelectedAddr(u), u.forced)
                 /\ o = r => /\ new.stage = "running" /\ new.first /\ new.binary = u.binary
                             /\ new.addr = SelectedAddr(u) /\ new.want = u.forced
    PROVE  PanelInv'
<1>1. DOMAIN decRuns = 1..MaxDecompiles /\ \A q \in DOMAIN decRuns : RunTrue(q)
  BY DEF PanelInv
<1>2. /\ DOMAIN decRuns' = 1..MaxDecompiles /\ decRuns'[r] = new
      /\ \A o \in 1..MaxDecompiles : o # r => decRuns'[o] = decRuns[o]
  BY <1>1
<1>3. RunTrue(r)'
  BY <1>2 DEF RunTrue, Ending
<1>4. ASSUME NEW o \in 1..MaxDecompiles
      PROVE  RunTrue(o)'
  BY <1>1, <1>2, <1>3 DEF RunTrue
<1>5. ASSUME NEW o \in 1..MaxDecompiles, NEW b, NEW a, NEW by, Owed(o, b, a, by),
             o = r => /\ new.stage = "running" /\ new.first /\ new.binary = b /\ new.addr = a
                      /\ new.want = by
      PROVE  Owed(o, b, a, by)'
  BY <1>2, <1>5 DEF Owed
<1>6. ASSUME NEW q \in u.pending, q.addr # Full
      PROVE  \E o \in DOMAIN decRuns' : Owed(o, q.binary, q.addr, q.by)'
  <2>1. PICK o \in DOMAIN decRuns : Owed(o, q.binary, q.addr, q.by)
    BY <1>6 DEF PanelInv, AllOwed
  <2>2. Owed(o, q.binary, q.addr, q.by)'
    BY <1>1, <1>5, <1>6, <2>1
  <2>. QED
    BY <1>1, <1>2, <2>1, <2>2
<1>7. Shows(u) \/ \E o \in DOMAIN decRuns' : Owed(o, u.binary, SelectedAddr(u), u.forced)'
  <2>1. CASE Shows(u)
    BY <2>1
  <2>2. CASE ~Shows(u)
    <3>1. PICK o \in 1..MaxDecompiles :
             /\ Owed(o, u.binary, SelectedAddr(u), u.forced)
             /\ o = r => /\ new.stage = "running" /\ new.first /\ new.binary = u.binary
                         /\ new.addr = SelectedAddr(u) /\ new.want = u.forced
      BY <2>2
    <3>2. Owed(o, u.binary, SelectedAddr(u), u.forced)'
      BY <1>5, <3>1
    <3>. QED
      BY <1>2, <3>2
  <2>. QED
    BY <2>1, <2>2
<1>8. AllOwed(view)'
  BY <1>6 DEF AllOwed
<1>9. (Shows(view) \/ SelectedOwed(view))'
  BY <1>7 DEF Shows, SelectedOwed, SelectedAddr
<1>10. ViewTrue(view)'
  BY DEF ViewTrue, KeptTrue, Named, RenderedTrue
<1>. QED
  BY <1>2, <1>4, <1>8, <1>9, <1>10 DEF PanelInv

\* An answer to a request whose first one it is, or a later one.
LEMMA AnswerKeeps ==
    ASSUME PanelInv, NEW r \in 1..MaxDecompiles, NEW new, NEW w, NEW msg,
           decRuns' = [decRuns EXCEPT ![r] = new], NEW u, view' = u, ReceivedOf(w, msg, u),
           LooksAs(view, w), Ending(new), AnswerOf(msg, decRuns[r])
    PROVE  PanelInv'
<1>1. ReceivedOf(w, msg, u)
  OBVIOUS
<1>2. ViewTrue(u) /\ u.pending = view.pending \ Settled(w, msg)
  BY <1>1 DEF ReceivedOf, LooksAs
<1>3. ASSUME NEW q \in u.pending, q.addr # Full
      PROVE  ~Owed(r, q.binary, q.addr, q.by)
  <2>1. SUFFICES ASSUME Owed(r, q.binary, q.addr, q.by)
                 PROVE  FALSE
    OBVIOUS
  <2>2. q.binary = msg.binary /\ q.addr = msg.addr /\ q.by \in {msg.by, Automatic}
    BY <2>1 DEF Owed, AnswerOf
  <2>3. q = KeyFor(q.binary, q.by, q.addr, q.addr)
    BY <1>2, <1>3 DEF ViewTrue, Named
  <2>4. AnsweredAs(w, msg) = q.addr
    BY <1>3, <2>2 DEF AnsweredAs
  <2>5. q \in Settled(w, msg)
    BY <2>2, <2>3, <2>4 DEF Settled
  <2>. QED
    BY <1>2, <1>3, <2>5
<1>4. SelectedAddr(u) = SelectedAddr(view) /\ u.binary = view.binary /\ u.forced = view.forced
      /\ u.active = view.active /\ u.astray = view.astray
      /\ (u.content = view.content \/ (u.content.binary = u.binary /\ u.content.addr = SelectedAddr(u)))
  BY <1>1 DEF ReceivedOf, LooksAs
<1>5. \/ Shows(u)
      \/ \E o \in 1..MaxDecompiles : o # r /\ Owed(o, u.binary, SelectedAddr(u), u.forced)
  <2>1. CASE Shows(view)
    BY <1>4, <2>1 DEF Shows, LooksAs
  <2>2. CASE ~Shows(view)
    <3>1. PICK o \in 1..MaxDecompiles : Owed(o, view.binary, SelectedAddr(view), view.forced)
      BY <2>2 DEF PanelInv, SelectedOwed
    <3>2. CASE o # r
      BY <1>4, <3>1, <3>2
    <3>3. CASE o = r
      <4>1. ~StaleAnswer(w, msg) /\ ~msg.silent /\ w.forced \in {Automatic, msg.by}
        BY <3>1, <3>3 DEF Owed, StaleAnswer, LooksAs, AnswerOf
      <4>2. u.content.binary = w.binary /\ u.content.addr = SelectedAddr(w)
        BY <1>1, <4>1 DEF ReceivedOf, LooksAs
      <4>. QED
        BY <1>4, <4>2 DEF Shows, LooksAs
    <3>. QED
      BY <3>2, <3>3
  <2>. QED
    BY <2>1, <2>2
<1>6. view' = u /\ u.pending \subseteq view.pending
  BY <1>2
<1>. QED
  BY <1>2, <1>3, <1>5, <1>6, RunEndsKeeps

\* A view changed apart from what it shows, keeps and awaits.
Touched(v, w) ==
    /\ DOMAIN w = ViewFields /\ w.manual \in BOOLEAN /\ w.astray \in BOOLEAN /\ w.kept = v.kept
    /\ w.pending = v.pending /\ w.rendered = v.rendered /\ w.content = v.content

LEMMA TouchedTrue ==
    ASSUME NEW v, NEW w, ViewTrue(v), Touched(v, w)
    PROVE  ViewTrue(w)
<1>1. KeptTrue(w) /\ Named(w) /\ RenderedTrue(w)
  BY DEF Touched, ViewTrue, KeptTrue, Named, RenderedTrue
<1>. QED
  BY <1>1 DEF Touched, ViewTrue

\* What a handler of the webview may leave: it asks for what is selected, at most.
LEMMA AskedKeeps ==
    ASSUME PanelInv, NEW before, NEW v, NEW u, before \subseteq view.pending, v.pending = before,
           Asked(v, u), Asking(before, u)
    PROVE  PanelInv'
<1>1. ChosenKey(u) = ChosenKey(v)
  BY DEF Asked, ChosenKey
<1>2. /\ ViewTrue(u) /\ u.pending \subseteq before \cup {ChosenKey(u)}
      /\ Shows(u) \/ ChosenKey(u) \in before
  BY <1>1 DEF Asked
<1>. QED
  BY <1>2, AskingKeeps

LEMMA PickFunctionKeeps ==
    ASSUME PanelInv, PickFunction
    PROVE  PanelInv'
<1>1. PICK a \in view.options \cup {Full} :
         Move("pick", Requested([view EXCEPT !.picked = a, !.manual = TRUE,
                                             !.cursor = IF a = Full THEN @ ELSE a], FALSE, FALSE))
  BY DEF PickFunction
<1>. DEFINE c(x) == IF a = Full THEN x ELSE a
            v == [view EXCEPT !.picked = a, !.manual = TRUE, !.cursor = c(@)]
            u == Requested(v, FALSE, FALSE)
<1>2. Asking(view.pending, u)
  BY <1>1 DEF Move
<1>3. ViewTrue(view)
  BY DEF PanelInv
<1>4. Touched(view, v)
  <2>. HIDE DEF c
  <2>. QED
    BY <1>3 DEF ViewTrue, ViewFields, Touched
<1>. HIDE DEF v
<1>5. ViewTrue(v) /\ v.pending = view.pending
  BY <1>3, <1>4, TouchedTrue DEF Touched
<1>6. Asked(v, u)
  BY <1>5, RequestAsks
<1>. HIDE DEF u
<1>. QED
  BY <1>2, <1>5, <1>6, AskedKeeps

LEMMA MoveCursorKeeps ==
    ASSUME PanelInv, MoveCursor
    PROVE  PanelInv'
<1>1. PICK a \in Entries[view.binary] :
         LET v == Synced([view EXCEPT !.cursor = a], a, view.active /\ ~view.manual)
         IN Move("cursor", IF view.active THEN Refreshed(v) ELSE v)
  BY DEF MoveCursor
<1>. DEFINE f == view.active /\ ~view.manual
            w == [view EXCEPT !.cursor = a]
            v == Synced(w, a, f)
            u == IF view.active THEN Refreshed(v) ELSE v
<1>2. Asking(view.pending, u)
  BY <1>1 DEF Move
<1>3. ViewTrue(view)
  BY DEF PanelInv
<1>4. Touched(view, w) /\ w.active = view.active
  BY <1>3 DEF ViewTrue, ViewFields, Touched
<1>. HIDE DEF w, f
<1>5. ViewTrue(w) /\ DOMAIN w = ViewFields
  BY <1>3, <1>4, TouchedTrue DEF Touched
<1>6. ViewTrue(v) /\ SyncedOf(w, v)
  BY <1>5, SyncedTrue, SyncedFields
<1>. HIDE DEF v
<1>7. v.pending = view.pending /\ v.held = v.picked /\ v.active = view.active
  BY <1>4, <1>6 DEF SyncedOf, Touched
<1>8. CASE view.active
  <2>1. Asked(v, u)
    BY <1>6, <1>7, <1>8, RefreshAsks
  <2>. HIDE DEF u
  <2>. QED
    BY <1>2, <1>7, <2>1, AskedKeeps
<1>9. CASE ~view.active
  <2>1. u = v /\ Shows(v)
    BY <1>7, <1>9 DEF Shows
  <2>. HIDE DEF u
  <2>. QED
    BY <1>2, <1>6, <1>7, <2>1, AskingKeeps
<1>. QED
  BY <1>8, <1>9

LEMMA ShowTabKeeps ==
    ASSUME PanelInv, ShowTab
    PROVE  PanelInv'
<1>. DEFINE v == [view EXCEPT !.active = TRUE]
            u == Opened(v)
<1>1. Asking(view.pending, u)
  BY DEF ShowTab, Move
<1>2. ViewTrue(view)
  BY DEF PanelInv
<1>3. Touched(view, v)
  BY <1>2 DEF ViewTrue, ViewFields, Touched
<1>. HIDE DEF v
<1>4. ViewTrue(v) /\ v.pending = view.pending
  BY <1>2, <1>3, TouchedTrue DEF Touched
<1>5. /\ ViewTrue(u) /\ u.pending \subseteq v.pending \cup {ChosenKey(u)}
      /\ Shows(u) \/ ChosenKey(u) \in v.pending
  BY <1>4, OpenAsks
<1>. HIDE DEF u
<1>. QED
  BY <1>1, <1>4, <1>5, AskingKeeps

LEMMA LeaveTabKeeps ==
    ASSUME PanelInv, LeaveTab
    PROVE  PanelInv'
<1>. DEFINE v == [view EXCEPT !.active = FALSE]
<1>1. Asking(view.pending, v)
  BY DEF LeaveTab, Move
<1>2. ViewTrue(view)
  BY DEF PanelInv
<1>3. Touched(view, v) /\ ~v.active
  BY <1>2 DEF ViewTrue, ViewFields, Touched
<1>. HIDE DEF v
<1>4. ViewTrue(v) /\ v.pending = view.pending /\ Shows(v)
  BY <1>2, <1>3, TouchedTrue DEF Touched, Shows
<1>. QED
  BY <1>1, <1>4, AskingKeeps

LEMMA PillKeeps ==
    ASSUME PanelInv, NEW d, NEW shown, Pill(d, shown)
    PROVE  PanelInv'
<1>. DEFINE v == [view EXCEPT !.forced = d, !.astray = TRUE]
            p == IF shown = Automatic THEN NoPayload ELSE view.payloads[shown]
            u == IF p = NoPayload THEN v ELSE Rendered(v, p)
<1>1. Asking(view.pending, u)
  BY DEF Pill, Move
<1>2. ViewTrue(view)
  BY DEF PanelInv
<1>3. Touched(view, v) /\ v.astray
  BY <1>2 DEF ViewTrue, ViewFields, Touched
<1>. HIDE DEF v, p
<1>4. ViewTrue(v) /\ v.pending = view.pending
  BY <1>2, <1>3, TouchedTrue DEF Touched
<1>5. ViewTrue(u) /\ u.pending = view.pending /\ u.astray
  <2>1. CASE u = v
    BY <1>3, <1>4, <2>1
  <2>2. CASE u = Rendered(v, p)
    <3>. HIDE DEF u
    <3>1. DOMAIN v = ViewFields
      BY <1>4 DEF ViewTrue
    <3>2. /\ DOMAIN u = ViewFields /\ u.held = p.addr /\ u.content = p
          /\ DOMAIN u.rendered = {"at", "addr", "by"}
          /\ u.rendered.at = <<p.binary>> /\ u.rendered.addr = p.addr
          /\ u.manual = v.manual /\ u.kept = v.kept /\ u.pending = v.pending /\ u.astray = v.astray
      BY <2>2, <3>1, RenderedFields
    <3>3. KeptTrue(u) /\ Named(u) /\ RenderedTrue(u)
      BY <1>4, <3>2 DEF ViewTrue, KeptTrue, Named, RenderedTrue
    <3>. QED
      BY <1>3, <1>4, <3>2, <3>3 DEF ViewTrue
  <2>. QED
    BY <2>1, <2>2
<1>6. Shows(u)
  BY <1>5 DEF Shows
<1>. HIDE DEF u
<1>. QED
  BY <1>1, <1>5, <1>6, AskingKeeps

LEMMA ChooseDecompilerKeeps ==
    ASSUME PanelInv, ChooseDecompiler
    PROVE  PanelInv'
<1>1. PICK d \in Decompilers :
        LET v == [view EXCEPT !.forced = d]
        IN Move("settings", IF view.active THEN Requested(v, TRUE, FALSE) ELSE v)
  BY DEF ChooseDecompiler
<1>. DEFINE v == [view EXCEPT !.forced = d]
            u == IF view.active THEN Requested(v, TRUE, FALSE) ELSE v
<1>2. Asking(view.pending, u)
  BY <1>1 DEF Move
<1>3. ViewTrue(view)
  BY DEF PanelInv
<1>4. Touched(view, v) /\ v.active = view.active
  BY <1>3 DEF ViewTrue, ViewFields, Touched
<1>. HIDE DEF v
<1>5. ViewTrue(v) /\ v.pending = view.pending
  BY <1>3, <1>4, TouchedTrue DEF Touched
<1>6. CASE view.active
  <2>1. Asked(v, Requested(v, TRUE, FALSE))
    BY <1>5, RequestAsks
  <2>2. Asked(v, u)
    BY <1>6, <2>1
  <2>. HIDE DEF u
  <2>. QED
    BY <1>2, <1>5, <2>2, AskedKeeps
<1>7. CASE ~view.active
  <2>1. u = v /\ Shows(v)
    BY <1>4, <1>7 DEF Shows
  <2>. HIDE DEF u
  <2>. QED
    BY <1>2, <1>5, <2>1, AskingKeeps
<1>. QED
  BY <1>6, <1>7

LEMMA RebuildKeeps ==
    ASSUME PanelInv, Rebuild
    PROVE  PanelInv'
<1>1. Asking(view.pending, Requested(view, TRUE, TRUE)) /\ ViewTrue(view)
  BY DEF Rebuild, Move, PanelInv
<1>2. Asked(view, Requested(view, TRUE, TRUE))
  BY <1>1, RequestAsks
<1>. QED
  BY <1>1, <1>2, AskedKeeps

LEMMA StepHistoryKeeps ==
    ASSUME PanelInv, StepHistory
    PROVE  PanelInv'
<1>1. PICK i \in {view.place - 1, view.place + 1} \cap DOMAIN view.history :
        LET e == view.history[i]
            v == [view EXCEPT !.place = i, !.held = e.addr,
                              !.picked = IF e.addr \in view.options THEN e.addr ELSE Full,
                              !.forced = IF e.by = Automatic THEN @ ELSE e.by]
        IN view.active /\ Move("history", Requested(v, TRUE, FALSE))
  BY DEF StepHistory
<1>. DEFINE e == view.history[i]
            h == e.addr
            pick == IF e.addr \in view.options THEN e.addr ELSE Full
            by(x) == IF e.by = Automatic THEN x ELSE e.by
            v == [view EXCEPT !.place = i, !.held = h, !.picked = pick, !.forced = by(@)]
            u == Requested(v, TRUE, FALSE)
<1>2. Asking(view.pending, u)
  BY <1>1 DEF Move
<1>3. ViewTrue(view)
  BY DEF PanelInv
<1>4. Touched(view, v)
  <2>. HIDE DEF e, h, pick, by
  <2>. QED
    BY <1>3 DEF ViewTrue, ViewFields, Touched
<1>. HIDE DEF v
<1>5. ViewTrue(v) /\ v.pending = view.pending
  BY <1>3, <1>4, TouchedTrue DEF Touched
<1>6. Asked(v, u)
  BY <1>5, RequestAsks
<1>. HIDE DEF u
<1>. QED
  BY <1>2, <1>5, <1>6, AskedKeeps

\* What was derived from the binary is dropped, what is shown is not.
LEMMA ForgetfulFields ==
    ASSUME NEW v, ViewTrue(v)
    PROVE  /\ ViewTrue(Forgetful(v)) /\ Forgetful(v).pending = {}
           /\ Forgetful(v).active = v.active /\ Forgetful(v).binary = v.binary
           /\ Forgetful(v).forced = v.forced /\ Forgetful(v).astray = v.astray
           /\ Forgetful(v).content = v.content /\ SelectedAddr(Forgetful(v)) = SelectedAddr(v)
           /\ Forgetful(v).rendered = v.rendered
<1>. DEFINE u == Forgetful(v)
<1>1. /\ DOMAIN u = ViewFields /\ u.kept = <<>> /\ u.pending = {} /\ u.rendered = v.rendered
      /\ u.content = v.content /\ u.active = v.active /\ u.binary = v.binary /\ u.forced = v.forced
  BY DEF ViewTrue, ViewFields, Forgetful
<1>2. /\ u.astray = v.astray /\ u.manual = v.manual /\ u.picked = v.picked /\ u.held = v.held
  BY DEF ViewTrue, ViewFields, Forgetful
<1>. HIDE DEF u
<1>3. KeptTrue(u) /\ Named(u) /\ RenderedTrue(u)
  BY <1>1 DEF ViewTrue, KeptTrue, Named, RenderedTrue
<1>4. ViewTrue(u)
  BY <1>1, <1>2, <1>3 DEF ViewTrue
<1>5. SelectedAddr(u) = SelectedAddr(v)
  BY <1>2 DEF SelectedAddr
<1>. QED
  BY <1>1, <1>2, <1>4, <1>5 DEF u

LEMMA SelectOtherKeeps ==
    ASSUME PanelInv, SelectOther
    PROVE  PanelInv'
<1>1. PICK b \in ViewBinaries \ {view.binary} :
        LET v == [Forgetful(view) EXCEPT !.binary = b, !.held = Full, !.cursor = Full, !.fresh = FALSE,
                                         !.rendered = [@ EXCEPT !.at = <<>>, !.addr = Full]]
        IN Moves("binary") /\ Asking({}, IF view.active THEN Opened(v) ELSE v)
  BY DEF SelectOther
<1>. DEFINE w == Forgetful(view)
            no(x) == [x EXCEPT !.at = <<>>, !.addr = Full]
            v == [w EXCEPT !.binary = b, !.held = Full, !.cursor = Full, !.fresh = FALSE, !.rendered = no(@)]
            u == IF view.active THEN Opened(v) ELSE v
<1>2. Asking({}, u)
  BY <1>1
<1>3. ViewTrue(view)
  BY DEF PanelInv
<1>4. ViewTrue(w) /\ w.pending = {} /\ w.active = view.active
  BY <1>3, ForgetfulFields
<1>. HIDE DEF w
<1>5. /\ DOMAIN v = ViewFields /\ v.kept = w.kept /\ v.pending = w.pending /\ v.rendered = no(w.rendered)
      /\ v.content = w.content /\ v.active = w.active /\ v.manual = w.manual /\ v.astray = w.astray
  <2>. HIDE DEF no
  <2>. QED
    BY <1>4 DEF ViewTrue, ViewFields
<1>. HIDE DEF v
<1>6. ViewTrue(v)
  <2>1. DOMAIN v.rendered = {"at", "addr", "by"} /\ v.rendered.at = <<>>
    BY <1>4, <1>5 DEF ViewTrue, RenderedTrue
  <2>2. KeptTrue(v) /\ Named(v) /\ RenderedTrue(v)
    BY <1>4, <1>5, <2>1 DEF ViewTrue, KeptTrue, Named, RenderedTrue
  <2>. QED
    BY <1>4, <1>5, <2>2 DEF ViewTrue
<1>7. /\ ViewTrue(u) /\ u.pending \subseteq {} \cup {ChosenKey(u)}
      /\ Shows(u) \/ ChosenKey(u) \in {}
  <2>1. CASE view.active
    <3>1. u = Opened(v)
      BY <2>1
    <3>2. LET o == Opened(v) IN
          /\ ViewTrue(o) /\ o.binary = v.binary
          /\ o.pending \subseteq v.pending \cup {ChosenKey(o)}
          /\ Shows(o) \/ ChosenKey(o) \in v.pending
      BY <1>6, OpenAsks, Zenon
    <3>. QED
      BY <1>4, <1>5, <3>1, <3>2
  <2>2. CASE ~view.active
    BY <1>4, <1>5, <1>6, <2>2 DEF Shows
  <2>. QED
    BY <2>1, <2>2
<1>. HIDE DEF u
<1>. QED
  BY <1>2, <1>7, AskingKeeps

LEMMA SymbolsReadKeeps ==
    ASSUME PanelInv, SymbolsRead
    PROVE  PanelInv'
<1>. DEFINE v == Populated(view, Entries[view.binary])
            u == IF v.active /\ v.rendered.addr # v.picked THEN Requested(v, FALSE, FALSE) ELSE v
<1>1. Asking(view.pending, u)
  BY DEF SymbolsRead
<1>2. ViewTrue(view) /\ view.astray \in BOOLEAN
  BY DEF PanelInv, ViewTrue
<1>3. PopulatedOf(view, v)
  BY <1>2, PopulatedFields
<1>. HIDE DEF v
<1>4. ViewTrue(v) /\ v.pending = view.pending
  BY <1>3 DEF PopulatedOf
<1>5. CASE v.active /\ v.rendered.addr # v.picked
  <2>1. Asked(v, Requested(v, FALSE, FALSE))
    BY <1>4, RequestAsks
  <2>2. Asked(v, u)
    BY <1>5, <2>1
  <2>. HIDE DEF u
  <2>. QED
    BY <1>1, <1>4, <2>2, AskedKeeps
<1>6. CASE ~(v.active /\ v.rendered.addr # v.picked)
  <2>1. u = v
    BY <1>6
  <2>2. Shows(v) \/ SelectedOwed(v)
    BY <1>3 DEF PanelInv, PopulatedOf, Shows, SelectedOwed
  <2>. HIDE DEF u
  <2>. QED
    BY <1>1, <1>4, <2>1, <2>2, AskingKeeps
<1>. QED
  BY <1>5, <1>6

LEMMA NotesChangedKeeps ==
    ASSUME PanelInv, NotesChanged
    PROVE  PanelInv'
<1>. DEFINE w == Forgetful(view)
            v == Populated(w, view.options)
<1>1. Asking({}, v)
  BY DEF NotesChanged
<1>2. ViewTrue(view)
  BY DEF PanelInv
<1>3. /\ ViewTrue(w) /\ w.pending = {} /\ w.active = view.active /\ w.binary = view.binary
      /\ w.forced = view.forced /\ w.astray = view.astray /\ w.content = view.content
      /\ SelectedAddr(w) = SelectedAddr(view)
  BY <1>2, ForgetfulFields
<1>. HIDE DEF w
<1>4. w.astray \in BOOLEAN
  BY <1>3 DEF ViewTrue
<1>5. PopulatedOf(w, v)
  BY <1>3, <1>4, PopulatedFields
<1>. HIDE DEF v
<1>6. ViewTrue(v) /\ v.pending = {}
  BY <1>3, <1>5 DEF PopulatedOf
<1>7. Shows(v) \/ SelectedOwed(v)
  BY <1>3, <1>5 DEF PanelInv, PopulatedOf, Shows, SelectedOwed
<1>. QED
  BY <1>1, <1>6, <1>7, AskingKeeps

\* A view whose ended decompilers alone changed.
LEMMA DoneFields ==
    ASSUME NEW v, NEW done, ViewTrue(v)
    PROVE  LooksAs(v, [v EXCEPT !.done = done])
<1>. DEFINE w == [v EXCEPT !.done = done]
<1>1. /\ Touched(v, w) /\ w.binary = v.binary /\ w.active = v.active /\ w.forced = v.forced
  BY DEF ViewTrue, ViewFields, Touched
<1>2. /\ w.astray = v.astray /\ w.pending = v.pending /\ w.content = v.content /\ w.picked = v.picked
      /\ w.held = v.held /\ w.manual = v.manual
  BY DEF ViewTrue, ViewFields
<1>. HIDE DEF w
<1>3. ViewTrue(w)
  BY <1>1, TouchedTrue
<1>4. SelectedAddr(w) = SelectedAddr(v)
  BY <1>2 DEF SelectedAddr
<1>. QED
  BY <1>1, <1>2, <1>3, <1>4 DEF w, LooksAs

LEMMA LaunchKeeps ==
    ASSUME PanelInv, Launch
    PROVE  PanelInv'
<1>1. PICK r \in 1..MaxDecompiles :
        LET run == decRuns[r] IN
        /\ run.stage = "list"
        /\ \/ \E targets \in IF run.want # Automatic THEN {{run.want}} ELSE {Decompilers, {Automatic}} :
                 /\ decRuns' = [decRuns EXCEPT ![r] = [run EXCEPT !.stage = "running", !.left = targets]]
                 /\ view' = [view EXCEPT !.done = @ \ targets]
           \/ /\ run.want = Automatic
              /\ decRuns' = [decRuns EXCEPT ![r] = [stage |-> "over"]]
              /\ view' = Received(view, AnswerTo(run, Automatic, Failed, FALSE, FALSE))
  BY DEF Launch
<1>. DEFINE run == decRuns[r]
<1>2. ViewTrue(view) /\ RunTrue(r)
  BY DEF PanelInv
<1>3. DOMAIN run = RunFields /\ run.first \in BOOLEAN /\ run.stage = "list"
  BY <1>1, <1>2 DEF RunTrue
<1>4. CASE \E targets \in IF run.want # Automatic THEN {{run.want}} ELSE {Decompilers, {Automatic}} :
                 /\ decRuns' = [decRuns EXCEPT ![r] = [run EXCEPT !.stage = "running", !.left = targets]]
                 /\ view' = [view EXCEPT !.done = @ \ targets]
  <2>1. PICK targets \in IF run.want # Automatic THEN {{run.want}} ELSE {Decompilers, {Automatic}} :
                 /\ decRuns' = [decRuns EXCEPT ![r] = [run EXCEPT !.stage = "running", !.left = targets]]
                 /\ view' = [view EXCEPT !.done = @ \ targets]
    BY <1>4
  <2>. DEFINE new == [run EXCEPT !.stage = "running", !.left = targets]
              left == view.done \ targets
              u == [view EXCEPT !.done = left]
  <2>2. view' = u /\ decRuns' = [decRuns EXCEPT ![r] = new]
    BY <2>1
  <2>3. /\ new.stage = "running" /\ DOMAIN new = RunFields /\ new.first = run.first /\ new.left = targets
        /\ new.want = run.want /\ new.binary = run.binary /\ new.addr = run.addr
    BY <1>3 DEF RunFields
  <2>4. new.want # Automatic => new.left \subseteq {new.want}
    BY <2>1, <2>3
  <2>. HIDE DEF new, left
  <2>5. LooksAs(view, u)
    BY <1>2, DoneFields
  <2>. HIDE DEF u
  <2>6. \A b, a, by : Owed(r, b, a, by) => /\ new.stage = "running" /\ new.first /\ new.binary = b
                                           /\ new.addr = a /\ new.want = by
    BY <2>3 DEF Owed
  <2>7. \/ Shows(u)
        \/ \E o \in 1..MaxDecompiles : Owed(o, u.binary, SelectedAddr(u), u.forced)
    BY <2>5 DEF PanelInv, Shows, SelectedOwed, LooksAs
  <2>8. Ending(new)
    BY <1>3, <2>3, <2>4 DEF Ending
  <2>9. ViewTrue(u) /\ u.pending \subseteq view.pending
    BY <2>5 DEF LooksAs
  <2>10. \A q \in u.pending : q.addr # Full /\ Owed(r, q.binary, q.addr, q.by) =>
              /\ new.stage = "running" /\ new.first /\ new.binary = q.binary /\ new.addr = q.addr
              /\ new.want = q.by
    BY <2>6
  <2>11. \/ Shows(u)
         \/ \E o \in 1..MaxDecompiles :
                 /\ Owed(o, u.binary, SelectedAddr(u), u.forced)
                 /\ o = r => /\ new.stage = "running" /\ new.first /\ new.binary = u.binary
                             /\ new.addr = SelectedAddr(u) /\ new.want = u.forced
    BY <2>6, <2>7
  <2>. QED
    BY <2>2, <2>8, <2>9, <2>10, <2>11, RunEndsKeeps
<1>5. CASE /\ run.want = Automatic
           /\ decRuns' = [decRuns EXCEPT ![r] = [stage |-> "over"]]
           /\ view' = Received(view, AnswerTo(run, Automatic, Failed, FALSE, FALSE))
  <2>. DEFINE msg == AnswerTo(run, Automatic, Failed, FALSE, FALSE)
              new == [stage |-> "over"]
  <2>1. msg.binary = run.binary /\ msg.addr = run.addr /\ ~msg.silent /\ msg.by = Automatic
    BY DEF AnswerTo
  <2>2. Ending(new)
    BY DEF Ending
  <2>3. decRuns' = [decRuns EXCEPT ![r] = new] /\ view' = Received(view, msg)
    BY <1>5
  <2>. HIDE DEF msg, new
  <2>4. AnswerOf(msg, run)
    BY <1>3, <1>5, <2>1 DEF AnswerOf
  <2>5. LooksAs(view, view)
    BY <1>2 DEF LooksAs
  <2>. QED
    <3>1. ReceivedOf(view, msg, Received(view, msg))
      BY <1>2, ReceivedFields
    <3>. QED
      BY <2>2, <2>3, <2>4, <2>5, <3>1, AnswerKeeps
<1>. QED
  BY <1>1, <1>4, <1>5

\* What is left of a request once one of its decompilers has ended.
LEMMA WithoutTargetFields ==
    ASSUME NEW run, NEW t, DOMAIN run = RunFields, run.stage = "running",
           run.want # Automatic => run.left \subseteq {run.want}
    PROVE  LET new == WithoutTarget(run, t) IN
           \/ new.stage = "over"
           \/ /\ new.stage = "running" /\ DOMAIN new = RunFields /\ new.first = FALSE
              /\ new.want # Automatic => new.left \subseteq {new.want}
<1>1. CASE run.left = {t}
  BY <1>1 DEF WithoutTarget
<1>2. CASE run.left # {t}
  <2>. DEFINE new == [run EXCEPT !.left = @ \ {t}, !.first = FALSE]
  <2>1. /\ DOMAIN new = RunFields /\ new.first = FALSE /\ new.left = run.left \ {t}
        /\ new.want = run.want /\ new.stage = run.stage
    BY DEF RunFields
  <2>2. WithoutTarget(run, t) = new
    BY <1>2 DEF WithoutTarget
  <2>. HIDE DEF new
  <2>. QED
    BY <2>1, <2>2
<1>. QED
  BY <1>1, <1>2

LEMMA RunFailsKeeps ==
    ASSUME PanelInv, RunFails
    PROVE  PanelInv'
<1>. PICK r \in 1..MaxDecompiles :
        LET run == decRuns[r] IN
        /\ run.stage = "running"
        /\ \E t \in run.left :
              /\ decRuns' = [decRuns EXCEPT ![r] = WithoutTarget(run, t)]
              /\ LET v == [view EXCEPT !.done = @ \ {t}]
                 IN view' = IF run.first THEN Received(v, AnswerTo(run, t, Failed, FALSE, FALSE)) ELSE v
  BY DEF RunFails
<1>1. PICK t \in decRuns[r].left :
        /\ decRuns[r].stage = "running"
        /\ decRuns' = [decRuns EXCEPT ![r] = WithoutTarget(decRuns[r], t)]
        /\ LET v == [view EXCEPT !.done = @ \ {t}]
           IN view' = IF decRuns[r].first THEN Received(v, AnswerTo(decRuns[r], t, Failed, FALSE, FALSE)) ELSE v
  OBVIOUS
<1>. DEFINE run == decRuns[r]
            new == WithoutTarget(run, t)
            left == view.done \ {t}
            w == [view EXCEPT !.done = left]
            msg == AnswerTo(run, t, Failed, FALSE, FALSE)
<1>2. ViewTrue(view) /\ RunTrue(r)
  BY DEF PanelInv
<1>3. /\ DOMAIN run = RunFields /\ run.first \in BOOLEAN /\ run.stage = "running"
      /\ run.want # Automatic => run.left \subseteq {run.want}
  BY <1>1, <1>2 DEF RunTrue
<1>4. \/ new.stage = "over"
      \/ /\ new.stage = "running" /\ DOMAIN new = RunFields /\ new.first = FALSE
         /\ new.want # Automatic => new.left \subseteq {new.want}
  BY <1>3, WithoutTargetFields
<1>5. view' = IF run.first THEN Received(w, msg) ELSE w
  BY <1>1
<1>6. msg.binary = run.binary /\ msg.addr = run.addr /\ ~msg.silent /\ msg.by = t
  BY DEF AnswerTo
<1>7. decRuns' = [decRuns EXCEPT ![r] = new]
  BY <1>1
<1>. HIDE DEF new, msg, left
<1>8. LooksAs(view, w)
  BY <1>2, DoneFields
<1>. HIDE DEF w
<1>9. Ending(new)
  BY <1>4 DEF Ending
<1>10. CASE run.first
  <2>1. AnswerOf(msg, run)
    BY <1>1, <1>3, <1>6 DEF AnswerOf
  <2>2. view' = Received(w, msg)
    BY <1>5, <1>10
  <2>. QED
    <3>1. ReceivedOf(w, msg, Received(w, msg))
      BY <1>8, ReceivedFields DEF LooksAs
    <3>. QED
      BY <1>7, <1>8, <1>9, <2>1, <2>2, <3>1, AnswerKeeps
<1>11. CASE ~run.first
  <2>1. view' = w
    BY <1>5, <1>11
  <2>2. \A b, a, by : ~Owed(r, b, a, by)
    BY <1>11 DEF Owed
  <2>3. \/ Shows(w)
        \/ \E o \in 1..MaxDecompiles : o # r /\ Owed(o, w.binary, SelectedAddr(w), w.forced)
    BY <1>8, <2>2 DEF PanelInv, Shows, SelectedOwed, LooksAs
  <2>4. ViewTrue(w) /\ w.pending \subseteq view.pending
    BY <1>8 DEF LooksAs
  <2>. QED
    BY <1>7, <1>9, <2>1, <2>2, <2>3, <2>4, RunEndsKeeps
<1>. QED
  BY <1>10, <1>11

LEMMA RunAnswersKeeps ==
    ASSUME PanelInv, RunAnswers
    PROVE  PanelInv'
<1>. PICK r \in 1..MaxDecompiles :
        LET run == decRuns[r] IN
        /\ run.stage = "running"
        /\ \E t \in run.left, s \in Scores :
              LET better == s > run.top \/ (s = run.top /\ t < run.topAt)
                  next == IF better THEN [run EXCEPT !.top = s, !.topAt = t] ELSE run
              IN /\ decRuns' = [decRuns EXCEPT ![r] = WithoutTarget(next, t)]
                 /\ view' = Received([view EXCEPT !.done = @ \cup ({t} \cap Decompilers)],
                                     AnswerTo(run, t, s, ~run.first, better))
  BY DEF RunAnswers
<1>1. PICK t \in decRuns[r].left, s \in Scores :
        /\ decRuns[r].stage = "running"
        /\ LET run == decRuns[r]
               better == s > run.top \/ (s = run.top /\ t < run.topAt)
               next == IF better THEN [run EXCEPT !.top = s, !.topAt = t] ELSE run
           IN /\ decRuns' = [decRuns EXCEPT ![r] = WithoutTarget(next, t)]
              /\ view' = Received([view EXCEPT !.done = @ \cup ({t} \cap Decompilers)],
                                  AnswerTo(run, t, s, ~run.first, better))
  OBVIOUS
<1>. DEFINE run == decRuns[r]
            better == s > run.top \/ (s = run.top /\ t < run.topAt)
            next == IF better THEN [run EXCEPT !.top = s, !.topAt = t] ELSE run
            new == WithoutTarget(next, t)
            done == view.done \cup ({t} \cap Decompilers)
            w == [view EXCEPT !.done = done]
            msg == AnswerTo(run, t, s, ~run.first, better)
<1>2. ViewTrue(view) /\ RunTrue(r)
  BY DEF PanelInv
<1>3. /\ DOMAIN run = RunFields /\ run.first \in BOOLEAN /\ run.stage = "running"
      /\ run.want # Automatic => run.left \subseteq {run.want}
  BY <1>1, <1>2 DEF RunTrue
<1>4. decRuns' = [decRuns EXCEPT ![r] = new] /\ view' = Received(w, msg)
  BY <1>1
<1>5. msg.binary = run.binary /\ msg.addr = run.addr /\ msg.silent = ~run.first /\ msg.by = t
  BY DEF AnswerTo
<1>. HIDE DEF better
<1>6. /\ DOMAIN next = RunFields /\ next.stage = "running"
      /\ next.want # Automatic => next.left \subseteq {next.want}
  BY <1>3 DEF RunFields
<1>. HIDE DEF next, msg
<1>7. \/ new.stage = "over"
      \/ /\ new.stage = "running" /\ DOMAIN new = RunFields /\ new.first = FALSE
         /\ new.want # Automatic => new.left \subseteq {new.want}
  BY <1>6, WithoutTargetFields
<1>. HIDE DEF new, done
<1>8. LooksAs(view, w)
  BY <1>2, DoneFields
<1>. HIDE DEF w
<1>9. Ending(new)
  BY <1>7 DEF Ending
<1>10. AnswerOf(msg, run)
  BY <1>1, <1>3, <1>5 DEF AnswerOf
<1>. QED
  <2>1. ReceivedOf(w, msg, Received(w, msg))
    BY <1>8, ReceivedFields DEF LooksAs
  <2>. QED
    BY <1>4, <1>8, <1>9, <1>10, <2>1, AnswerKeeps

LEMMA PanelStarts ==
    ASSUME DecInit
    PROVE  PanelInv
<1>1. /\ DOMAIN decRuns = 1..MaxDecompiles /\ \A r \in DOMAIN decRuns : decRuns[r].stage = "none"
  BY DEF DecInit, NotAsked
<1>2. PICK b : view = Unshown(b)
  BY DEF DecInit
<1>3. /\ DOMAIN view = ViewFields /\ view.manual \in BOOLEAN /\ view.astray \in BOOLEAN /\ ~view.active
      /\ DOMAIN view.kept = {} /\ view.pending = {} /\ view.content = NoCode
      /\ DOMAIN view.rendered = {"at", "addr", "by"}
  BY <1>2 DEF Unshown, ViewFields
<1>4. ViewTrue(view)
  BY <1>3 DEF ViewTrue, KeptTrue, Named, RenderedTrue
<1>. QED
  BY <1>1, <1>3, <1>4 DEF PanelInv, RunTrue, AllOwed, Shows

LEMMA PanelKept ==
    ASSUME PanelInv, [DecNext]_decVars
    PROVE  PanelInv'
<1>1. CASE UNCHANGED decVars
  BY <1>1 DEF decVars, PanelInv, RunTrue, ViewTrue, KeptTrue, Named, RenderedTrue, AllOwed, Shows, SelectedOwed,
              SelectedAddr, Owed
<1>2. CASE PickFunction \/ MoveCursor \/ ShowTab \/ LeaveTab
  BY <1>2, PickFunctionKeeps, MoveCursorKeeps, ShowTabKeeps, LeaveTabKeeps
<1>3. CASE PillAuto \/ PillOf
  BY <1>3, PillKeeps DEF PillAuto, PillOf
<1>4. CASE ChooseDecompiler \/ Rebuild \/ StepHistory \/ SelectOther \/ SymbolsRead \/ NotesChanged
  BY <1>4, ChooseDecompilerKeeps, RebuildKeeps, StepHistoryKeeps, SelectOtherKeeps, SymbolsReadKeeps,
     NotesChangedKeeps
<1>5. CASE Launch \/ RunFails \/ RunAnswers
  BY <1>5, LaunchKeeps, RunFailsKeeps, RunAnswersKeeps
<1>. QED
  BY <1>1, <1>2, <1>3, <1>4, <1>5 DEF DecNext

LEMMA PanelTells ==
    ASSUME PanelInv
    PROVE  CodeOfSelected
<1>1. DOMAIN decRuns = 1..MaxDecompiles
  BY DEF PanelInv
<1>2. ASSUME NEW k \in view.pending, k.addr # Full
      PROVE  \E r \in 1..MaxDecompiles :
                /\ decRuns[r].stage \in {"list", "running"} /\ decRuns[r].first
                /\ decRuns[r].binary = k.binary /\ decRuns[r].addr = k.addr /\ decRuns[r].want = k.by
  BY <1>1, <1>2 DEF PanelInv, AllOwed, Owed
<1>3. SelectedOwed(view) => Expected(view.binary, SelectedAddr(view))
  BY <1>1 DEF SelectedOwed, Owed, Expected
<1>4. Shows(view) \/ SelectedOwed(view)
  BY DEF PanelInv
<1>. QED
  BY <1>2, <1>3, <1>4 DEF CodeOfSelected, Shows

\* Whatever the user picks, opens, leaves, rebuilds and steps back to, and in whatever
\* order the decompilers of several requests answer or fail, the pseudo-C panel shows the
\* code of the selected function or none, or the answer for it is still to come, unless a
\* pill was clicked or a list filled again has moved the selection since the last request;
\* and a function that is awaited is answered: what the webview holds in its set of
\* pending keys (front/static/payload.js) is owed by a request of the host, so that no
\* function is left awaited for ever.  For any binaries, functions, decompilers and number
\* of requests.
THEOREM PanelShowsSelected == DecSpec => []CodeOfSelected
<1>1. DecInit => PanelInv
  BY PanelStarts
<1>2. PanelInv /\ [DecNext]_decVars => PanelInv'
  BY PanelKept
<1>3. PanelInv => CodeOfSelected
  BY PanelTells
<1>. QED
  BY <1>1, <1>2, <1>3, PTL DEF DecSpec

=============================================================================
