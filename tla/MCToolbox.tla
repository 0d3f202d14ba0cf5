------------------------------ MODULE MCToolbox ------------------------------
(* DisasmCache, PluginRuntime and Decompilation, which holds TypeCatalog, for  *)
(* TLC.  They share no state: a behaviour is one of one part, the others rest  *)
(* in a state of their own.                                                  *)
EXTENDS DisasmCache, PluginRuntime, Decompilation

VARIABLE part

dbVars == <<content, mapping, db, holder, tx, pc, ctx>>
allVars == <<part, dbVars, pluginVars, decompileVars>>

AnyOf(S) == CHOOSE x \in S : TRUE

DbRest ==
    /\ content = AnyOf(Content) /\ mapping = NoContent
    /\ db = NoRow /\ holder = NoProc /\ tx = NoRow
    /\ pc = [p \in Proc |-> "idle"] /\ ctx = [p \in Proc |-> NoContext]

PluginRest ==
    /\ pluginScope = AnyOf(PluginScopes)
    /\ disk = [k \in Places |-> [bundle |-> NoBundle, whole |-> TRUE]]
    /\ consent = [i \in PluginIds |-> NoEntry] /\ willed = consent /\ lockHolder = 0
    /\ task = [t \in Tasks |->
                  [at |-> "dead", copy |-> consent, records |-> [k \in Places |-> Absent], place |-> 1,
                   round |-> 1, commands |-> [c \in {} |-> ""], chosen |-> 0, answer |-> ""]]
    /\ allowed = [t \in Tasks |-> {}] /\ ran = [t \in Tasks |-> {}]
    /\ moved = [t \in Tasks |-> FALSE] /\ faltered = [t \in Tasks |-> FALSE]

TypeRest ==
    /\ typeScope = NoTypes /\ catalog = NoTypes /\ refs = NoTypes /\ bindings = NoTypes
    /\ typist = [c \in TypeClients |-> AtRest] /\ changed = 0
DecompileRest ==
    /\ TypeRest
    /\ deScope = [asked |-> <<>>] /\ file = 0 /\ notes = 0 /\ images = {}
    /\ believed = NoTypes /\ results = NoTypes
    /\ ask = <<>> /\ edited = 0

\* The instances of the two scopes that are used together.
Together == typeScope.used = deScope.used

\* One part starts, the others rest.
MCInit ==
    /\ part \in {"database", "plugins", "decompile"}
    /\ IF part = "database" THEN Init ELSE DbRest
    /\ IF part = "plugins" THEN PluginInit ELSE PluginRest
    /\ IF part = "decompile" THEN DecompileInit /\ Together ELSE DecompileRest

\* The other parts rest.
Others ==
    /\ UNCHANGED part
    /\ IF part = "database" THEN TRUE ELSE UNCHANGED dbVars
    /\ IF part = "plugins" THEN TRUE ELSE UNCHANGED pluginVars
    /\ IF part = "decompile" THEN TRUE ELSE UNCHANGED decompileVars

MCNext ==
    \/ part = "database" /\ Others /\ Next
    \/ part = "plugins" /\ Others /\ PluginNext
    \/ part = "decompile" /\ Others /\ DecompileNext

MCSpec == MCInit /\ [][MCNext]_allVars

MCSymmetry == Permutations(Proc)

-----------------------------------------------------------------------------
(* The instances *)

MCBundle(i, v, fit, licence, commands, features) ==
    [id |-> i, version |-> v, check |-> fit, licence |-> licence,
     registers |-> commands, offers |-> features]
MCDir(d, inside) == [dir |-> d, workspace |-> inside]
MCEntry(v, k) == [version |-> v, place |-> k, attested |-> TRUE]
MCUnattested == [version |-> 1, place |-> 0, attested |-> FALSE]
MCStore(ofA, ofB) == [i \in PluginIds |-> IF i = "a" THEN ofA ELSE ofB]

MCJob(kind, i, b, n, e, cli) ==
    [kind |-> kind, id |-> i, bundle |-> b, name |-> n, expected |-> e, cli |-> cli]
MCGrant(i) == MCJob("grant", i, NoBundle, 0, "", TRUE)
MCRevoke(i) == MCJob("revoke", i, NoBundle, 0, "", TRUE)
MCInstall(b) == MCJob("install", "", b, 0, "", TRUE)
MCCommand(n, cli) == MCJob("command", "", NoBundle, n, "", cli)
MCFeature(n, e) == MCJob("feature", "", NoBundle, n, e, TRUE)

MCOlder == MCBundle("a", 1, "fine", "free", {1}, {1})
MCNewer == MCBundle("a", 2, "fine", "free", {1, 2}, {1})
MCSealed(v) == MCBundle("a", v, "fine", "sealed", {1}, {1})
MCOther(fit, licence) == MCBundle("b", 1, fit, licence, {2}, {2})
MCGreedy == MCBundle("b", 1, "fine", "free", {1, 2}, {2})

MCPluginScope(held, st, jobs, keys, alike, flaky, dies) ==
    [places |-> <<MCDir("a", FALSE), MCDir("b", FALSE), MCDir("a", TRUE)>>,
     disk |-> held, store |-> st, jobs |-> jobs, keys |-> keys, alike |-> alike,
     flaky |-> flaky, dies |-> dies, unread |-> FALSE]
MCUnread(s) ==
    [places |-> s.places, disk |-> s.disk, store |-> s.store, jobs |-> s.jobs, keys |-> s.keys,
     alike |-> s.alike, flaky |-> s.flaky, dies |-> s.dies, unread |-> TRUE]

\* Two plugins and a second copy of one in the workspace, while consents change; a
\* plugin replaced while one is asked; installations that overlap in an empty place; one
\* that may fail before another that has the same command; and consents that may not be
\* readable.
MCPluginScopes ==
    {MCPluginScope(<<MCOlder, MCGreedy, MCOlder>>, st, jobs, {"a"}, {2}, FALSE, TRUE) :
        st \in {MCStore(MCEntry(1, 1), MCEntry(1, 2)), MCStore(NoEntry, MCEntry(1, 0)),
                MCStore(MCEntry(1, 3), MCUnattested)},
        jobs \in {<<MCGrant("a"), MCRevoke("b")>>, <<MCGrant("b"), MCRevoke("b")>>,
                  <<MCRevoke("a"), MCRevoke("b")>>, <<MCCommand(1, TRUE), MCRevoke("a")>>,
                  <<MCFeature(1, "a"), MCRevoke("b")>>, <<MCFeature(2, "b"), MCGrant("a")>>}}
    \cup {MCPluginScope(<<a, b, NoBundle>>, MCStore(MCEntry(1, 1), MCEntry(1, 2)), jobs, keys, {2},
                        flaky, FALSE) :
        a \in {MCOlder, MCSealed(1), MCBundle("a", 1, "invalid", "free", {1}, {1})},
        b \in {MCGreedy, MCOther("fine", "lease")}
                \cup {MCOther(fit, "free") : fit \in {"newer", "unfit", "invalid"}},
        flaky \in BOOLEAN, keys \in {{}, {"a"}},
        jobs \in {<<MCInstall(MCNewer), MCFeature(0, "a")>>,
                  <<MCInstall(MCSealed(2)), MCCommand(1, FALSE)>>,
                  <<MCInstall(MCNewer), MCInstall(MCSealed(2))>>}}
    \cup {MCPluginScope(<<NoBundle, MCGreedy, MCOlder>>, MCStore(NoEntry, MCEntry(1, 2)), jobs, {}, {},
                        FALSE, dies) :
        dies \in BOOLEAN,
        jobs \in {<<MCInstall(MCNewer), MCInstall(MCOlder)>>, <<MCInstall(MCOlder), MCGrant("a")>>,
                  <<MCInstall(MCOther("invalid", "free")), MCGrant("b")>>,
                  <<MCInstall(MCOlder), MCCommand(1, TRUE)>>}}
    \cup {MCPluginScope(<<NoBundle, MCGreedy, MCOlder>>, MCStore(MCEntry(1, 3), MCEntry(1, 2)),
                        <<MCFeature(1, "a"), MCRevoke("a")>>, {}, {}, TRUE, FALSE)}
    \cup {MCUnread(MCPluginScope(<<MCOlder, MCGreedy, MCOlder>>, MCStore(MCEntry(1, 1), MCEntry(1, 2)), jobs,
                                  {"a"}, {2}, FALSE, TRUE)) :
            jobs \in {<<MCGrant("a"), MCRevoke("b")>>, <<MCGrant("b"), MCGrant("a")>>,
                     <<MCCommand(1, TRUE), MCGrant("a")>>, <<MCFeature(2, "b"), MCRevoke("a")>>}}

MCField(t, pointer, n) == [type |-> t, pointer |-> pointer, count |-> n]
MCDef(k, fields) == [kind |-> k, fields |-> fields]
MCNoDef == MCDef("none", <<>>)

\* Every catalog of three of these, with the types in any order and in any role.
MCDefinitions ==
    {MCNoDef, MCDef("enum", <<>>), MCDef("function", <<MCField("int", 0, 1), MCField("char", 1, 1)>>),
     MCDef("typedef", <<MCField("A", 0, 1)>>), MCDef("typedef", <<MCField("B", 1, 1)>>),
     MCDef("typedef", <<MCField("C", 0, 1)>>),
     MCDef("struct", <<MCField("char", 0, 1), MCField("A", 0, 1)>>),
     MCDef("struct", <<MCField("char", 0, 1), MCField("int", 0, 2), MCField("B", 1, 1)>>),
     MCDef("struct", <<MCField("B", 0, 2), MCField("char", 0, 1), MCField("C", 1, 1)>>),
     MCDef("struct", <<MCField("C", 0, 1), MCField("A", 1, 1)>>),
     MCDef("union", <<MCField("char", 0, 2), MCField("B", 0, 1)>>),
     MCDef("union", <<MCField("C", 0, 1), MCField("char", 1, 1)>>)}
MCCatalog(f) == [n \in {m \in TypeNames : f[m] # MCNoDef} |-> f[n]]

MCFirst == MCDef("struct", <<MCField("char", 0, 1), MCField("B", 1, 1)>>)
MCSecond == MCDef("struct", <<MCField("int", 0, 1), MCField("A", 1, 1)>>)
MCPair(a, b) == [m \in {"A", "B"} |-> IF m = "A" THEN a ELSE b]
MCOne(n, d) == [m \in {n} |-> d]

MCSource(types) == [kind |-> "source", types |-> types]
MCImport(types) == [kind |-> "import", types |-> types]
MCApply(t, a) == [kind |-> "apply", type |-> t, addr |-> a]
MCBind(v, t, as, pointer) == [kind |-> "bind", var |-> v, type |-> t, as |-> as, pointer |-> pointer]

MCTypeScope(use, held, rows, n, orders, word) ==
    [used |-> use, catalog |-> held, bound |-> rows, changes |-> n, orders |-> orders, word |-> word]

\* Each catalog as it is; two processes that change one; and one that changes while
\* functions are decompiled.
MCRows == MCOne(1, [type |-> "A", kind |-> "struct", pointer |-> 1])
MCTypeScopes ==
    {MCTypeScope(<<"types", 0>>, MCCatalog(f), NoTypes, 0, {}, 8) : f \in [TypeNames -> MCDefinitions]}
    \cup {MCTypeScope(<<"types", 0>>, MCPair(MCFirst, MCSecond), NoTypes, 3,
            {MCSource(MCOne("A", MCSecond)), MCSource(MCPair(MCSecond, MCFirst)), MCImport(MCOne("C", MCFirst)),
             MCImport(MCOne("A", MCDef("enum", <<>>))), MCApply("A", 1), MCApply("B", 1), MCApply("A", 2),
             MCBind(1, "A", "struct", 1), MCBind(2, "B", "struct", 1), MCBind(2, "C", "enum", 0)}, 4)}
    \cup {MCTypeScope(<<"cache", n>>, MCPair(MCFirst, MCSecond), MCRows, n,
            IF n = 0 THEN {}
            ELSE {MCSource(MCPair(MCSecond, MCFirst)), MCApply("A", 1), MCImport(MCOne("B", MCFirst)),
                  MCBind(1, "B", "struct", 1)}, 8) : n \in 0..2}
    \cup {MCTypeScope(<<"tools", 0>>, NoTypes, NoTypes, 0, {}, 8)}

MCTool(command, installed, endpoint, boxed, image, fits, full, quality) ==
    [command |-> command, installed |-> installed, endpoint |-> endpoint, boxed |-> boxed,
     image |-> image, fits |-> fits, full |-> full, quality |-> quality]
MCLocalTool(quality) == MCTool(TRUE, TRUE, FALSE, FALSE, "none", BOOLEAN, TRUE, quality)
MCAsk(t, provider, process, full) == 
    [tool |-> t, provider |-> provider, process |-> process, full |-> full, anew |-> FALSE]
MCShapes(of1, of2) == [f \in 0..2 |-> CASE f = 0 -> 0 [] f = 1 -> of1 [] f = 2 -> of2]

MCDecompileScope(use, tools, held, outcomes, kinds, n, shapes, asked) ==
    [used |-> use, tools |-> tools, images |-> held, outcomes |-> outcomes, kinds |-> kinds, edits |-> n,
     shapes |-> shapes, asked |-> asked]

\* No request; two requests at once with one change meanwhile, or one after the other with
\* two; and tools of every sort whose images come and go.
MCIdleTool == MCTool(FALSE, FALSE, FALSE, FALSE, "none", {}, FALSE, 1)
MCToolPairs ==
    {<<MCTool(TRUE, TRUE, FALSE, TRUE, "remote", BOOLEAN, TRUE, 1),
       MCTool(FALSE, FALSE, FALSE, TRUE, "remote", BOOLEAN, FALSE, 1)>>,
     <<MCTool(TRUE, FALSE, FALSE, FALSE, "local", BOOLEAN, TRUE, 2),
       MCTool(FALSE, FALSE, TRUE, FALSE, "local", {FALSE}, TRUE, 1)>>,
     <<MCTool(FALSE, FALSE, FALSE, TRUE, "local", BOOLEAN, TRUE, 2),
       MCTool(TRUE, TRUE, FALSE, FALSE, "none", BOOLEAN, FALSE, 1)>>}
MCDecompileScopes ==
    {MCDecompileScope(<<"types", 0>>, <<MCIdleTool, MCIdleTool>>, {}, {}, {}, 0, MCShapes(1, 1), <<>>)}
    \cup {MCDecompileScope(<<"cache", IF q = 1 THEN 2 - n ELSE 1 - n>>, <<MCLocalTool(1), MCLocalTool(2)>>, {},
            {"code"}, IF n = 0 /\ q = 1 THEN {"unread"} ELSE {"notes", "file", "gone"}, n, MCShapes(1, 2),
            <<MCAsk(1, "local", 1, FALSE), MCAsk(1, "local", q, FALSE)>>) :
            n \in 0..2, q \in 1..2}
    \cup {MCDecompileScope(<<"cache", 0>>, <<MCLocalTool(1), MCLocalTool(2)>>, {}, {"code"}, {"file"}, 1,
            MCShapes(1, 1), <<MCAsk(1, "local", 1, FALSE), [MCAsk(1, "local", 1, FALSE) EXCEPT !.anew = TRUE]>>)}
    \cup {MCDecompileScope(<<"tools", 0>>, tools, held, {"code", "empty"}, {"build", "remove"}, 1, MCShapes(1, 2),
            <<MCAsk(0, a, 1, FALSE), b>>) :
            tools \in MCToolPairs, held \in SUBSET Tools, a \in Providers,
            b \in {MCAsk(0, p, 1, TRUE) : p \in Providers} \cup {MCAsk(2, p, 1, p = "auto") : p \in Providers}
                    \cup {MCAsk(0, "auto", 1, FALSE)}}

\* The variables of the part that runs have their types.
ToolsTypeOK ==
    /\ TypeOK /\ PluginTypeOK
    /\ part = "decompile" => DecompileTypeOK
=============================================================================
