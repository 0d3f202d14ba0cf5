----------------------------- MODULE MCWorkbench -----------------------------
(* StaticCache, Artifacts, FunctionDiscovery, BasicBlocks, TraceSession,      *)
(* ChatSession, DecompilePanel, TraceCapture and AgentLoop for TLC.  They     *)
(* share no state: a behaviour is one of one part, the others rest in a state *)
(* of their own.                                                              *)
EXTENDS StaticCache, Artifacts, FunctionDiscovery, BasicBlocks, TraceSession, ChatSession,
    DecompilePanel, TraceCapture, AgentLoop

VARIABLE part

allVars == <<part, cacheVars, artVars, discVars, blocksVars, traceVars, chatVars, decVars,
             captureVars, agentVars>>

AnyOf(S) == CHOOSE x \in S : TRUE

CacheRest ==
    /\ past = [f \in Files |-> <<AnyOf(Contents)>>] /\ away = {} /\ entries = <<>>
    /\ client = [p \in Clients |-> Resting] /\ cacheScope = AnyOf(CacheScopes)

ArtRest ==
    /\ listing = NoFile /\ lines = 0 /\ header = NoFile /\ inFlight = NoRequest
    /\ cached = [b \in Binaries |-> NoCfg]
    /\ request = [r \in Requests |-> Idle] /\ builds = 0 /\ artScope = AnyOf(ArtScopes)

DiscoveryRest ==
    /\ sample = [code |-> [a \in Lines |-> [op |-> "ret", to |-> 0]], known |-> {}, hints |-> {}]
    /\ heuristic = {} /\ boundary = {} /\ found = {} /\ queued = <<>>
    /\ start = 0 /\ worklist = <<>> /\ coverage = [a \in {} |-> {}] /\ phase = "walk"

BlocksRest ==
    /\ code = [i \in Instructions |-> [op |-> "ret", to |-> 0, cases |-> {}]]
    /\ starts = {} /\ cut = 1 /\ blocks = [b \in {} |-> [last |-> 1, succ |-> <<>>]]
    /\ asked = 0 /\ entry = 0 /\ back = {} /\ shown = {} /\ stage = "cut"

TraceRest ==
    /\ latest = 0 /\ runs = <<>> /\ panel = 1 /\ selected = AnyOf(TracedBinaries)
    /\ disabled = FALSE /\ submitted = <<>> /\ session = 0 /\ posted = <<>>
    /\ traces = {} /\ active = 0 /\ opening = {} /\ historyAsked = 0

ChatRest ==
    LET c == AnyOf(Conversations) IN
    /\ chats = c :> <<>> /\ current = c /\ askedIn = [p \in Prompts |-> c]
    /\ chatScope = AnyOf(ChatScopes) /\ document = chatScope.document
    /\ chatBusy = FALSE /\ awaited = 0 /\ live = NothingLive /\ dueAnswer = 0
    /\ backup = NoBackup /\ listingModels = FALSE /\ replies = [p \in Prompts |-> "none"]
    /\ toPanel = <<>> /\ chain = <<>> /\ loading = TRUE /\ stopped = {} /\ saveFailed = FALSE

DecRest ==
    /\ decScope = AnyOf(DecScopes) /\ view = Unshown(decScope.first)
    /\ decRuns = [r \in 1..MaxDecompiles |-> NotAsked]

CaptureRest ==
    /\ trace = [captured |-> {}, maxSteps |-> 0, maxBytes |-> 0] /\ pc = 1 /\ words = <<>> /\ now = 0
    /\ emulator = "hooks" /\ pending = NothingPending /\ snapshots = <<>> /\ bytes = 0
    /\ limitReached = FALSE /\ events = [a \in {Null} \cup Mapped |-> <<>>]
    /\ context = NoContext /\ error = "" /\ restarted = FALSE /\ verdict = NoCrash
    /\ executed = <<>>

AgentRest ==
    /\ agentScope = AnyOf(AgentScopes) /\ at = "failed" /\ messages = <<>> /\ bubble = <<>>
    /\ step = 1 /\ talks = 0 /\ offered = FALSE /\ retried = FALSE /\ said = <<>> /\ idle = FALSE
    /\ calls = <<>> /\ call = 0 /\ purpose = "" /\ hint = 0 /\ response = <<>>
    /\ toServer = <<>> /\ toBridge = <<>> /\ awaits = 0 /\ nextId = 1
    /\ serving = FALSE /\ spoilt = FALSE

Parts == {"cache", "artifacts", "discovery", "blocks",
          "trace", "chat", "decompile", "capture", "agent"}

\* One part starts, the others rest.
MCInit ==
    /\ part \in Parts
    /\ IF part = "cache" THEN TRUE ELSE CacheRest
    /\ IF part = "artifacts" THEN TRUE ELSE ArtRest
    /\ IF part = "discovery" THEN TRUE ELSE DiscoveryRest
    /\ IF part = "blocks" THEN TRUE ELSE BlocksRest
    /\ IF part = "trace" THEN TRUE ELSE TraceRest
    /\ IF part = "chat" THEN TRUE ELSE ChatRest
    /\ IF part = "decompile" THEN TRUE ELSE DecRest
    /\ IF part = "capture" THEN TRUE ELSE CaptureRest
    /\ IF part = "agent" THEN TRUE ELSE AgentRest
    /\ CASE part = "cache" -> CacheInit
         [] part = "artifacts" -> ArtInit
         [] part = "discovery" -> DiscoveryInit
         [] part = "blocks" -> BlocksInit
         [] part = "trace" -> TraceInit
         [] part = "chat" -> ChatInit
         [] part = "decompile" -> DecInit
         [] part = "capture" -> CaptureInit
         [] part = "agent" -> AgentInit

\* The other parts rest.
Others ==
    /\ UNCHANGED part
    /\ IF part = "cache" THEN TRUE ELSE UNCHANGED cacheVars
    /\ IF part = "artifacts" THEN TRUE ELSE UNCHANGED artVars
    /\ IF part = "discovery" THEN TRUE ELSE UNCHANGED discVars
    /\ IF part = "blocks" THEN TRUE ELSE UNCHANGED blocksVars
    /\ IF part = "trace" THEN TRUE ELSE UNCHANGED traceVars
    /\ IF part = "chat" THEN TRUE ELSE UNCHANGED chatVars
    /\ IF part = "decompile" THEN TRUE ELSE UNCHANGED decVars
    /\ IF part = "capture" THEN TRUE ELSE UNCHANGED captureVars
    /\ IF part = "agent" THEN TRUE ELSE UNCHANGED agentVars

MCNext ==
    \/ part = "cache" /\ Others /\ CacheNext
    \/ part = "artifacts" /\ Others /\ ArtNext
    \/ part = "discovery" /\ Others /\ DiscoveryNext
    \/ part = "blocks" /\ Others /\ BlocksNext
    \/ part = "trace" /\ Others /\ TraceNext
    \/ part = "chat" /\ Others /\ ChatNext
    \/ part = "decompile" /\ Others /\ DecNext
    \/ part = "capture" /\ Others /\ CaptureNext
    \/ part = "agent" /\ Others /\ AgentNext

MCSpec == MCInit /\ [][MCNext]_allVars

\* The variables of the part that runs have their types.
PartsTypeOK ==
    CASE part = "cache" -> CacheTypeOK
      [] part = "artifacts" -> ArtTypeOK
      [] part = "discovery" -> DiscoveryTypeOK
      [] part = "blocks" -> BlocksTypeOK
      [] part = "trace" -> TraceTypeOK
      [] part = "chat" -> ChatTypeOK
      [] part = "decompile" -> DecTypeOK
      [] part = "capture" -> CaptureTypeOK
      [] part = "agent" -> AgentTypeOK

-----------------------------------------------------------------------------
(* The instances *)

\* The result computed from one of the two contents is twice as large.
MCBytes == [c \in Contents |-> IF c = AnyOf(Contents) THEN 1 ELSE 2]

MCCacheScope(roles, writes, moves) == [roles |-> roles, writes |-> writes, moves |-> moves]

\* Both kinds of client; each alone with a file that may move; decompile.py alone, with
\* one rewrite more.
MCCacheScopes ==
    {MCCacheScope(Roles, 2, FALSE), MCCacheScope(Roles, 1, TRUE), MCCacheScope({"host"}, 2, TRUE),
     MCCacheScope({"decompile"}, 2, TRUE), MCCacheScope({"decompile"}, 3, FALSE)}

MCScope(bs, rs, ks, n) == [binaries |-> bs, requests |-> rs, kinds |-> ks, builds |-> n]

\* Two binaries of one name and three requests; all kinds of request by two; the
\* control-flow graphs of one binary while its listing is forced anew.
MCArtScopes ==
    {MCScope(Binaries, Requests, {"open", "forced"}, 2),
     MCScope({AnyOf(Binaries)}, Requests \ {AnyOf(Requests)}, Kinds, 2),
     MCScope({AnyOf(Binaries)}, Requests, {"cfg", "forced"}, 2)}

MCInsns ==
    {[op |-> o, to |-> 0] : o \in {"prologue", "leave", "ret", "jmp"}}
        \cup [op : {"call", "jmp", "jcc"}, to : Lines]

\* Every listing of MCInsns that ends with a return, with a known function and a
\* hinted one.
MCSamples ==
    [code : {[a \in Lines |-> IF a = Size THEN [op |-> "ret", to |-> 0] ELSE c[a]] :
                c \in [1..(Size - 1) -> MCInsns]},
     known : {{}, {2}}, hints : {{}, {3}}]

Listed(o, t, c) == [op |-> o, to |-> t, cases |-> c]

MCInstructions ==
    {Listed("plain", 0, {}), Listed("nop", 0, {}), Listed("ret", 0, {}),
     Listed("push", 3, {}), Listed("push", 0, {}), Listed("switch", 0, {3, 4}), Listed("switch", 0, {})}
        \cup {Listed("jmp", t, {}) : t \in {0, 3, 5}}
        \cup {Listed("jcc", t, {}) : t \in {2, 4}}
        \cup {Listed("call", t, {}) : t \in {0, 2, 4}}

\* Every listing of these that ends with a return or with a branch back.
MCListings ==
    {c \in [Instructions -> MCInstructions] : c[Length] \in {Listed("ret", 0, {}), Listed("jcc", 2, {})}}

\* What chat_history.py holds at first: nothing, or one conversation.
MCDocument(n) ==
    LET one == AnyOf(Conversations) IN
    [chats |-> [c \in IF n = 0 THEN {} ELSE {one} |-> <<Said("user", 0), Said("assistant", 0)>>],
     current |-> one]

\* Two prompts in turn; three saves; a history that comes late and a store that
\* fails; fragments that are painted after the result.
MCChatScopes ==
    {[document |-> MCDocument(n), late |-> l, slow |-> s, failing |-> f,
      commands |-> 1, prompts |-> p, saves |-> v] :
        <<n, l, s, f, p, v>> \in
            {<<1, FALSE, FALSE, FALSE, 2, 1>>, <<0, FALSE, FALSE, FALSE, 1, 3>>,
             <<1, TRUE, FALSE, TRUE, 1, 2>>, <<1, FALSE, TRUE, FALSE, 1, 1>>}}

\* One binary has the functions 1 and 2, the other 2 and 3.
MCEntries == [b \in ViewBinaries |-> IF b = AnyOf(ViewBinaries) THEN {1, 2} ELSE {2, 3}]

\* Three moves of the user, of several sets of kinds.
MCDecScopes ==
    [kinds : {{"tab", "pick", "cursor"}, {"tab", "settings", "cursor"},
              {"tab", "pick", "pill", "binary"}, {"tab", "pick", "rebuild", "history", "notes"}},
     moves : {3}, first : {AnyOf(ViewBinaries)}]

MachineInsn(o, t, i) == [op |-> o, to |-> t, import |-> i]

MCMachine ==
    {MachineInsn(o, 1, "none") : o \in {"plain", "fault", "bad", "over", "ret", "jcc"}}
        \cup {MachineInsn("call", ProgramSize, "none")}
        \cup {MachineInsn("ext", 1, i) : i \in {"known", "unknown", "exit", "smash"}}
        \cup {MachineInsn("bnd", 1, "known")}

\* Every program of these that ends with a return.
MCPrograms == {p \in [1..ProgramSize -> MCMachine] : p[ProgramSize].op \in {"ret", "over"}}

Traced(p, elf, interp, captured, patched, stop, steps, most, sizes) ==
    [program |-> p, start |-> 1, elf |-> elf, interp |-> interp, captured |-> captured,
     patched |-> patched, stopAt |-> stop, maxSteps |-> steps, maxBytes |-> most, sizes |-> sizes]

\* An ELF with an interpreter and few steps; one with a hole in what is captured and
\* patches of memory; one with an address to stop at and few bytes; a raw blob.
MCTraces ==
    {Traced(p, TRUE, TRUE, 1..Stub, {}, 0, 4, 9, 1) : p \in MCPrograms}
    \cup {Traced(p, TRUE, FALSE, (1..Stub) \ {2}, {2, 3}, 0, 9, 9, 1) : p \in MCPrograms}
    \cup {Traced(p, TRUE, FALSE, 1..Stub, {2}, 3, 9, 4, 2) : p \in MCPrograms}
    \cup {Traced(p, FALSE, FALSE, 1..ProgramSize, {}, 0, 9, 9, 1) :
            p \in {q \in MCPrograms : \A a \in 1..ProgramSize : q[a].import = "none"}}

Asked(needs, direct, hints, steps, toolless, texts, lists, faults) ==
    [needsTools |-> needs, direct |-> direct, hints |-> hints, steps |-> steps,
     toolless |-> toolless, texts |-> texts, calls |-> lists, breaks |-> "breaks" \in faults,
     dies |-> "dies" \in faults, noise |-> "noise" \in faults]

\* Tool calls of every kind over a server that prints or dies; replies of every kind to
\* a prompt that needs tools; a model that cannot call them; a prompt that needs none.
MCAgentScopes ==
    {Asked(TRUE, FALSE, 2, 2, FALSE, {"none", "said"},
           {<<>>, <<"good", "bare">>, <<"nameless", "good">>, <<"badargs">>}, f) :
        f \in {{"noise"}, {"dies"}}}
    \cup {Asked(TRUE, d, 1, 3, FALSE, Texts, {<<>>, <<"good">>}, {"breaks"}) : d \in BOOLEAN}
    \cup {Asked(TRUE, d, 1, 3, TRUE, Texts, {<<>>}, {"breaks", "dies"}) : d \in BOOLEAN}
    \cup {Asked(TRUE, FALSE, 0, 2, TRUE, {"noop"}, {<<>>}, {}),
          Asked(FALSE, TRUE, 0, 2, FALSE, Texts, {<<>>}, {"breaks"})}
=============================================================================
