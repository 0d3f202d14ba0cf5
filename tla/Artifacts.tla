------------------------------ MODULE Artifacts ------------------------------
(* The artifacts of a disassembly and the requests of the extension host that *)
(* share them: src/static/hub/analysisContext.ts (ensureDisasmArtifacts and   *)
(* its in-flight map), hubOpenDisasm of actions.ts, hubLoadCfg of             *)
(* graphRenderers.ts, the commands of commands.ts that run disasm.py on the   *)
(* same files without that map, and the order in which disasm.py writes them. *)
(*                                                                          *)
(* The files are named by the binary's base name, so that two binaries may    *)
(* share one set; the model has one set, used by every binary of Binaries.    *)
(* A file holds the number of the build that wrote it, 0 when there is none.  *)
(* The static cache keeps one CFG per binary here and may lose it at any time *)
(* (an eviction, a purge, another modification time of the binary).           *)
EXTENDS Integers, FiniteSets

CONSTANTS
    Binaries,       \* the binaries of one base name
    Requests,       \* requests the host can have open at once
    Kinds,          \* "open", "forced", "command", "cfg"
    NoRequest,
    ArtScopes       \* bounds: the binaries, requests and kinds that take part,
                    \* and how often disasm.py is run

ASSUME ArtifactsAssumption ==
    /\ ArtScopes \subseteq [binaries : SUBSET Binaries, requests : SUBSET Requests,
                           kinds : SUBSET Kinds, builds : Nat]
    /\ NoRequest \notin Requests
    /\ Kinds \subseteq {"open", "forced", "command", "cfg"}

VARIABLES
    listing,        \* *.disasm.asm: the build and whether it is complete
    lines,          \* *.disasm.mapping.db: the build, replaced at once
    header,         \* *.disasm.mapping.json: the build and whether it is complete
    inFlight,       \* _disasmInFlight: the request whose promise is registered
    cached,         \* per binary, the CFG of the static cache
    request,        \* what each request waits for
    builds,         \* runs of disasm.py started
    artScope        \* the bounds of this behaviour

artVars == <<listing, lines, header, inFlight, cached, request, builds, artScope>>

Idle == [step |-> "idle"]
NoFile == [build |-> 0, whole |-> FALSE]
NoCfg == [sig |-> NoFile, of |-> 0]

Exists(file) == file # NoFile

\* The runs of disasm.py that share the files through ensureDisasmArtifacts.
Building == {r \in Requests : request[r].step = "build" /\ request[r].kind # "command"}
Waiting == {r \in Requests : request[r].step = "wait"}

ArtInit ==
    /\ listing = NoFile /\ lines = 0 /\ header = NoFile
    /\ inFlight = NoRequest
    /\ cached = [b \in Binaries |-> NoCfg]
    /\ request = [r \in Requests |-> Idle]
    /\ builds = 0
    /\ artScope \in ArtScopes

-----------------------------------------------------------------------------
(* Asking for the artifacts *)

\* ensureDisasmArtifacts, once a build is called for: the one in flight for these
\* files is shared, whoever asked for it, or disasm.py is started and registered
\* before anything else runs.
SpawnOrJoin(r, kind, b) ==
    IF inFlight # NoRequest
    THEN /\ request' = [request EXCEPT ![r] = [step |-> "wait", kind |-> kind, binary |-> b]]
         /\ UNCHANGED <<inFlight, builds>>
    ELSE /\ builds < artScope.builds
         /\ builds' = builds + 1
         /\ inFlight' = r
         /\ request' = [request EXCEPT ![r] = [step |-> "build", kind |-> kind,
                            binary |-> b, at |-> "started", build |-> builds + 1]]

\* hubOpenDisasm: without the cache the build is forced; with it, two files that
\* exist are opened as they are.
Open(r) ==
    /\ request[r] = Idle
    /\ \E b \in artScope.binaries, kind \in artScope.kinds \cap {"open", "forced"} :
          /\ kind = "forced" \/ ~Exists(listing) \/ ~Exists(header)
          /\ SpawnOrJoin(r, kind, b)
    /\ UNCHANGED <<listing, lines, header, cached, artScope>>

\* hubLoadCfg: a mapping that is missing is built first.
LoadCfg(r) ==
    /\ request[r] = Idle
    /\ "cfg" \in artScope.kinds
    /\ \E b \in artScope.binaries :
          IF Exists(header)
          THEN /\ request' = [request EXCEPT ![r] =
                                 [step |-> "look", kind |-> "cfg", binary |-> b]]
               /\ UNCHANGED <<inFlight, builds>>
          ELSE SpawnOrJoin(r, "cfg", b)
    /\ UNCHANGED <<listing, lines, header, cached, artScope>>

\* The command pileOuFace.disasmSection runs disasm.py on the same files, whatever
\* is in flight.
Command(r) ==
    /\ request[r] = Idle
    /\ "command" \in artScope.kinds
    /\ builds < artScope.builds
    /\ builds' = builds + 1
    /\ \E b \in artScope.binaries :
          request' = [request EXCEPT ![r] = [step |-> "build", kind |-> "command",
                          binary |-> b, at |-> "started", build |-> builds + 1]]
    /\ UNCHANGED <<listing, lines, header, inFlight, cached, artScope>>

-----------------------------------------------------------------------------
(* disasm.py *)

Advance(r, at) == request' = [request EXCEPT ![r].at = at]

\* The listing is opened for writing.
WriteListing(r) ==
    /\ request[r].step = "build" /\ request[r].at = "started"
    /\ listing' = [build |-> request[r].build, whole |-> FALSE]
    /\ Advance(r, "listing")
    /\ UNCHANGED <<lines, header, inFlight, cached, builds, artScope>>

\* write_mapping_db: the listing is complete and the lines replace the old ones.
ReplaceLines(r) ==
    /\ request[r].step = "build" /\ request[r].at = "listing"
    /\ listing' = [build |-> request[r].build, whole |-> TRUE]
    /\ lines' = request[r].build
    /\ Advance(r, "lines")
    /\ UNCHANGED <<header, inFlight, cached, builds, artScope>>

\* The header is truncated, then written.
OpenHeader(r) ==
    /\ request[r].step = "build" /\ request[r].at = "lines"
    /\ header' = [build |-> request[r].build, whole |-> FALSE]
    /\ Advance(r, "header")
    /\ UNCHANGED <<listing, lines, inFlight, cached, builds, artScope>>

WriteHeader(r) ==
    /\ request[r].step = "build" /\ request[r].at = "header"
    /\ header' = [build |-> request[r].build, whole |-> TRUE]
    /\ Advance(r, "done")
    /\ UNCHANGED <<listing, lines, inFlight, cached, builds, artScope>>

\* What a request that had the files built does next: a CFG is looked up.
Resume(o) ==
    IF o.kind = "cfg" THEN [step |-> "look", kind |-> "cfg", binary |-> o.binary] ELSE Idle

\* The promise is settled: it leaves the map, and whoever shared it goes on, or
\* fails with it.
Settle(r, done) ==
    /\ inFlight' = IF request[r].kind = "command" THEN inFlight ELSE NoRequest
    /\ request' = [o \in Requests |->
          IF o = r \/ (request[r].kind # "command" /\ o \in Waiting)
          THEN IF done THEN Resume(request[o]) ELSE Idle
          ELSE request[o]]
    /\ UNCHANGED <<listing, lines, header, cached, builds, artScope>>

Exit(r) ==
    /\ request[r].step = "build" /\ request[r].at = "done"
    /\ Settle(r, TRUE)

\* Mutant: a build that failed stays in the map.
FailStillMapped(r) ==
    /\ request[r].step = "build" /\ request[r].at # "done"
    /\ request' = [request EXCEPT ![r] = Idle]
    /\ UNCHANGED <<listing, lines, header, inFlight, cached, builds, artScope>>

\* The process fails, or the user cancels it: the files stay as they are then.
Fail(r) ==
    /\ request[r].step = "build" /\ request[r].at # "done"
    /\ Settle(r, FALSE)

-----------------------------------------------------------------------------
(* The CFG *)

\* A graph of the mapping's signature is served; else cfg.py is started.
Look(r) ==
    /\ request[r].step = "look"
    /\ LET b == request[r].binary
           hit == Exists(header) /\ cached[b].of # 0 /\ cached[b].sig = header
       IN request' = [request EXCEPT ![r] =
              IF ~Exists(header) \/ hit THEN Idle
              ELSE [step |-> "script", kind |-> "cfg", binary |-> b, sig |-> header]]
    /\ UNCHANGED <<listing, lines, header, inFlight, cached, builds, artScope>>

\* cfg.py has read the mapping; a header that is not whole, or gone, is an error.
Script(r) ==
    /\ request[r].step = "script"
    /\ request' = [request EXCEPT ![r] =
           IF header.whole
           THEN [step |-> "store", kind |-> "cfg", binary |-> @.binary, sig |-> @.sig, of |-> lines]
           ELSE Idle]
    /\ UNCHANGED <<listing, lines, header, inFlight, cached, builds, artScope>>

\* Mutant: the signature is taken when the graph is stored.
StoreSigned(r) ==
    /\ request[r].step = "store"
    /\ cached' = [cached EXCEPT ![request[r].binary] = [sig |-> header, of |-> request[r].of]]
    /\ request' = [request EXCEPT ![r] = Idle]
    /\ UNCHANGED <<listing, lines, header, inFlight, builds, artScope>>

Store(r) ==
    /\ request[r].step = "store"
    /\ cached' = [cached EXCEPT ![request[r].binary] =
                     [sig |-> request[r].sig, of |-> request[r].of]]
    /\ request' = [request EXCEPT ![r] = Idle]
    /\ UNCHANGED <<listing, lines, header, inFlight, builds, artScope>>

-----------------------------------------------------------------------------
(* What happens to the files *)

Forget(b) ==
    /\ cached' = [cached EXCEPT ![b] = NoCfg]
    /\ UNCHANGED <<listing, lines, header, inFlight, request, builds, artScope>>

\* cleanupArtifactsForBinary removes every file of the base name.
Cleanup ==
    /\ listing' = NoFile /\ lines' = 0 /\ header' = NoFile
    /\ UNCHANGED <<inFlight, cached, request, builds, artScope>>

Process(r) ==
    \/ WriteListing(r) \/ ReplaceLines(r) \/ OpenHeader(r) \/ WriteHeader(r) \/ Exit(r)
    \/ Look(r) \/ Script(r) \/ Store(r)

ArtNext ==
    \/ \E r \in artScope.requests : Open(r) \/ LoadCfg(r) \/ Command(r) \/ Process(r) \/ Fail(r)
    \/ \E b \in artScope.binaries : Forget(b)
    \/ Cleanup

ArtSpec == ArtInit /\ [][ArtNext]_artVars

-----------------------------------------------------------------------------
(* Properties *)

Builds == 0..artScope.builds
FileStates == [build : Builds, whole : BOOLEAN]

\* The variables have their types.
ArtTypeOK ==
    /\ listing \in FileStates /\ header \in FileStates /\ lines \in Builds /\ builds \in Builds
    /\ inFlight \in Requests \cup {NoRequest}
    /\ cached \in [Binaries -> [sig : FileStates, of : Builds]]
    /\ \A r \in Requests :
          request[r].step \in {"idle", "build", "wait", "look", "script", "store"}

\* The in-flight map and the processes agree, whatever fails or is cancelled: at
\* most one run of disasm.py that ensureDisasmArtifacts started writes the files,
\* it is the one registered, and nobody waits for a promise that is settled.
SharedBuild ==
    /\ Building = {inFlight} \ {NoRequest}
    /\ Waiting # {} => inFlight # NoRequest

\* A CFG the cache would serve was computed from the lines in place, when header
\* and lines are of one build: the signature is the one the mapping had before
\* cfg.py read it, so that a mapping rewritten meanwhile is a miss.
CfgOfLines ==
    \A b \in Binaries :
        /\ cached[b].of # 0 /\ cached[b].sig = header
        /\ header.whole /\ header.build = lines
        => cached[b].of = lines

\* What is shared is current: one build at a time writes the files, all that wait wait
\* for it, and the CFG served next to a listing is of that listing
\* (ensureDisasmArtifacts and the views that graphRenderers.ts keeps).
ArtifactsShared == SharedBuild /\ CfgOfLines
=============================================================================
