---------------------------- MODULE Decompilation ----------------------------
(* decompile.py: requests to decompile a function or a whole binary, in        *)
(* processes of their own or one after the other in one, while the file, its   *)
(* notes, its types (TypeCatalog) and the images of the decompilers change.    *)
(*                                                                          *)
(* A version stands for the content of the file, 0 for no file, and for the     *)
(* notes; a result is the tool that made it and the file it read.            *)
EXTENDS TypeCatalog

CONSTANTS
    Tools,           \* decompilers.json, in the order of declaration
    DecompileScopes  \* the tools, what is asked, and what changes meanwhile

Providers == {"auto", "local", "docker"}

ASSUME DecompileAssumption ==
    /\ Tools \subseteq Nat \ {0} /\ IsFiniteSet(Tools)
    /\ \A s \in DecompileScopes :
         /\ s.edits \in Nat /\ s.images \subseteq Tools /\ s.outcomes \subseteq {"code", "empty", "error"}
         /\ s.kinds \subseteq {"notes", "file", "gone", "build", "remove", "unread"}
         /\ \A t \in Tools : s.tools[t].quality \in Nat
         /\ \A r \in DOMAIN s.asked :
               /\ s.asked[r].provider \in Providers /\ s.asked[r].tool \in Tools \cup {0}
               /\ s.asked[r].full \in BOOLEAN

VARIABLES
    deScope,
    file, notes,     \* versions
    images,          \* the tools whose image Docker has
    believed,        \* per process, the tools whose image it takes for present
    results,         \* the cached results, by key
    ask,             \* the requests
    edited

toolVars == <<deScope, images, believed>>
decompileVars == <<typeVars, toolVars, file, notes, results, ask, edited>>

\* The requests; those of one process run in this order.
Asks == DOMAIN deScope.asked
Asked(r) == deScope.asked[r]
Tool(t) == deScope.tools[t]
Processes == {Asked(r).process : r \in Asks}

\* What the symbols and the stack frame of the function are in a version of the file.
Shape(f) == deScope.shapes[f]

NoResult == [tool |-> 0, file |-> 0, kind |-> "error"]
Unasked ==
    [at |-> "start", file |-> 0, types |-> NoTypes, target |-> 0, notes |-> 0, refs |-> NoTypes, frame |-> 0,
     rows |-> NoTypes, rewrites |-> NoTypes, key |-> <<>>, runs |-> NoTypes, attempts |-> <<>>,
     best |-> NoResult, served |-> <<>>, moved |-> {}]

DecompileInit ==
    /\ TypeInit
    /\ deScope \in DecompileScopes
    /\ file = 1 /\ notes = 1 /\ images = deScope.images
    /\ believed = [p \in Processes |-> {}] /\ results = NoTypes
    /\ ask = [r \in Asks |-> Unasked] /\ edited = 0

-----------------------------------------------------------------------------
(* What the request reads, in order *)

AskAt(r, step) == ask[r].at = step

\* A process takes its requests one after the other.
Turn(r) == \A q \in Asks : q < r /\ Asked(q).process = Asked(r).process => AskAt(q, "done")

Advance(r, request) ==
    /\ ask' = [ask EXCEPT ![r] = request]
    /\ UNCHANGED <<typeVars, toolVars, file, notes, results, edited>>

\* Ghosts: the file and the types as the request began.
StartAsk(r) ==
    /\ AskAt(r, "start") /\ Turn(r)
    /\ Advance(r, [ask[r] EXCEPT !.file = file, !.types = catalog, !.target = Shape(file),
                    !.at = CASE file = 0 -> "done"
                             [] file # 0 /\ Asked(r).full -> "choose"
                             [] file # 0 /\ ~Asked(r).full -> "notes"])

ReadNotes(r) == AskAt(r, "notes") /\ Advance(r, [ask[r] EXCEPT !.notes = notes, !.at = "refs"])

\* A read of the applied types that fails is taken for no types, without a word.  Ghost:
\* what could not be read is counted among what moved.
ReadRefs(r) ==
    /\ AskAt(r, "refs")
    /\ \/ Advance(r, [ask[r] EXCEPT !.refs = refs, !.at = "frame"])
       \/ /\ "unread" \in deScope.kinds
          /\ Advance(r, [ask[r] EXCEPT !.moved = @ \cup {"refs"}, !.at = "frame"])

ReadFrame(r) == AskAt(r, "frame") /\ Advance(r, [ask[r] EXCEPT !.frame = Shape(file), !.at = "rows"])

\* The rows and the definitions they name are read on two connections; when either read
\* fails, nothing is rewritten.
ReadRows(r) ==
    /\ AskAt(r, "rows")
    /\ Advance(r, [ask[r] EXCEPT !.rows = bindings,
                    !.at = IF bindings = NoTypes THEN "signrefs" ELSE "types"])
ReadTypes(r) ==
    /\ AskAt(r, "types")
    /\ \/ Advance(r, [ask[r] EXCEPT !.rewrites = Rewrites(ask[r].rows, catalog, Word), !.at = "signrefs"])
       \/ /\ "unread" \in deScope.kinds
          /\ Advance(r, [ask[r] EXCEPT !.moved = @ \cup {"types"}, !.at = "signrefs"])

-----------------------------------------------------------------------------
(* The cache *)

\* Mutant: the applied types are left out of the key.
SignedNoRefs(r) == [notes |-> ask[r].notes, frame |-> ask[r].frame, refs |-> NoTypes]

\* The signatures of the notes and the frame are of what was read; that of the applied
\* types is of what is stored by now,
Signed(r) == [notes |-> ask[r].notes, frame |-> ask[r].frame, refs |-> refs]

SignRefs(r) == AskAt(r, "signrefs") /\ Advance(r, [ask[r] EXCEPT !.key = Signed(r), !.at = "signrows"])

\* and so are those of the bindings and of the file.
SignRows(r) ==
    /\ AskAt(r, "signrows")
    /\ LET k == ask[r].key
           signed == [notes |-> k.notes, frame |-> k.frame, refs |-> k.refs, rows |-> bindings]
       IN Advance(r, [ask[r] EXCEPT !.key = signed, !.at = "signfile"])
SignFile(r) ==
    /\ AskAt(r, "signfile")
    /\ LET k == ask[r].key
           signed == [notes |-> k.notes, frame |-> k.frame, refs |-> k.refs, rows |-> k.rows,
                      file |-> file, target |-> ask[r].target, tool |-> Asked(r).tool]
       IN Advance(r, [ask[r] EXCEPT !.key = signed, !.at = "lookup"])

\* _read_cache; a result that is found is the answer, unless a new one is asked for.
LookupResult(r) ==
    /\ AskAt(r, "lookup")
    /\ Advance(r, IF ~Asked(r).anew /\ ask[r].key \in DOMAIN results
                  THEN [ask[r] EXCEPT !.served = <<results[ask[r].key]>>, !.at = "done"]
                  ELSE [ask[r] EXCEPT !.at = "choose"])

\* _write_cache
StoreResult(r) ==
    LET q == ask[r]
        entry == [result |-> q.best, notes |-> q.notes, frame |-> q.frame, refs |-> q.refs,
                  rewrites |-> q.rewrites, types |-> q.types, moved |-> q.moved]
    IN
    /\ AskAt(r, "store")
    /\ results' = [k \in DOMAIN results \cup {q.key} |-> IF k = q.key THEN entry ELSE results[k]]
    /\ ask' = [ask EXCEPT ![r] = [q EXCEPT !.at = "done"]]
    /\ UNCHANGED <<typeVars, toolVars, file, notes, edited>>

-----------------------------------------------------------------------------
(* The tools *)

\* _is_decompiler_available: a local command that is detected, or an image that is
\* believed to be present or is found present.
Locally(t) == Tool(t).command /\ Tool(t).installed
InDocker(p, t) == Tool(t).image # "none" /\ (t \in believed[p] \/ t \in images)
Available(r, t) ==
    CASE Asked(r).provider = "local" -> Locally(t)
      [] Asked(r).provider = "docker" -> InDocker(Asked(r).process, t)
      [] Asked(r).provider = "auto" -> Locally(t) \/ InDocker(Asked(r).process, t)

Suits(r, t) == Asked(r).full \in Tool(t).fits      \* _decompiler_target_support

\* The tool that was asked for, or all that are available, each in a thread.
Choose(r) ==
    /\ AskAt(r, "choose")
    /\ LET p == Asked(r).process
           looked == {t \in Tools : ~(Asked(r).provider = "auto" /\ Locally(t)) /\ Asked(r).provider # "local"}
           chosen == IF Asked(r).tool # 0 THEN {Asked(r).tool}
                     ELSE {t \in Tools : Available(r, t) /\ Suits(r, t)}
       IN /\ ask' = [ask EXCEPT ![r] = [ask[r] EXCEPT !.runs = [t \in chosen |-> "start"],
                                                    !.at = IF chosen = {} THEN "done" ELSE "run"]]
          /\ believed' = IF Asked(r).tool # 0 THEN believed
                         ELSE [believed EXCEPT ![p] = @ \cup {t \in looked : InDocker(p, t)}]
    /\ UNCHANGED <<typeVars, deScope, images, file, notes, results, edited>>

Running(r, t, step) == AskAt(r, "run") /\ t \in DOMAIN ask[r].runs /\ ask[r].runs[t] = step

\* What a tool makes of the file, when it runs: the code, nothing, or an error.
Made(t, how) ==
    {[tool |-> t, file |-> file, kind |-> k, how |-> how] :
        k \in IF file = 0 THEN {"error"} ELSE deScope.outcomes}
Failed(t, how) == [tool |-> t, file |-> 0, kind |-> "error", how |-> how]

Stepped(q, t, step) == [q.runs EXCEPT ![t] = step]
Attempted(r, attempt) ==
    ask' = [ask EXCEPT ![r] = [ask[r] EXCEPT !.runs = Stepped(ask[r], attempt.tool, "done"),
                                             !.attempts = Append(@, attempt)]]
Then(r, t, step) == ask' = [ask EXCEPT ![r] = [ask[r] EXCEPT !.runs = Stepped(ask[r], t, step)]]

\* _run_custom_decompiler: by HTTP, or a local command.  Only when there is no such
\* command, not when it is missing from the machine, does "auto" go on to Docker.
RunLocal(r, t) ==
    /\ Running(r, t, "start")
    /\ LET whole == Asked(r).full => Tool(t).full
           declared == Tool(t).endpoint \/ Tool(t).command
       IN CASE ~Suits(r, t) -> Attempted(r, Failed(t, "none"))
            [] Suits(r, t) /\ Asked(r).provider = "docker" -> Then(r, t, "docker")
            [] Suits(r, t) /\ Asked(r).provider # "docker" /\ Tool(t).endpoint ->
                   \E made \in Made(t, "http") : Attempted(r, made)
            [] Suits(r, t) /\ Asked(r).provider # "docker" /\ ~Tool(t).endpoint ->
                   IF ~whole THEN Attempted(r, Failed(t, "none"))
                   ELSE IF ~declared THEN (IF Asked(r).provider = "auto" THEN Then(r, t, "docker")
                                           ELSE Attempted(r, Failed(t, "none")))
                   ELSE IF ~Tool(t).installed THEN Attempted(r, Failed(t, "local"))
                   ELSE \E made \in Made(t, "local") : Attempted(r, made)
    /\ UNCHANGED <<typeVars, toolVars, file, notes, results, edited>>

Ran(t, r) == \E made \in Made(t, "docker") : Attempted(r, made)

\* _run_custom_decompiler_in_docker: an image that is missing is believed in no more;
\* Docker fetches a remote one itself, or the program does, once.
RunDocker(r, t) ==
    LET p == Asked(r).process
        runnable == /\ Tool(t).image # "none"
                    /\ Tool(t).command \/ Tool(t).boxed
                    /\ Asked(r).full => Tool(t).full
    IN
    /\ Running(r, t, "docker")
    /\ \/ /\ ~runnable /\ Attempted(r, Failed(t, "none")) /\ UNCHANGED <<images, believed>>
       \/ /\ runnable /\ t \in images /\ Ran(t, r) /\ UNCHANGED <<images, believed>>
       \/ /\ runnable /\ t \notin images /\ Tool(t).image = "remote"
          /\ images' = images \cup {t} /\ Ran(t, r) /\ UNCHANGED believed
       \/ /\ runnable /\ t \notin images
          /\ believed' = [believed EXCEPT ![p] = @ \ {t}] /\ UNCHANGED images
          /\ IF Tool(t).image = "remote" THEN Then(r, t, "pull") ELSE Attempted(r, Failed(t, "docker"))
    /\ UNCHANGED <<typeVars, deScope, file, notes, results, edited>>

PullImage(r, t) ==
    /\ Running(r, t, "pull")
    /\ \/ /\ images' = images \cup {t} /\ Then(r, t, "again")
          /\ believed' = [believed EXCEPT ![Asked(r).process] = @ \cup {t}]
       \/ Attempted(r, Failed(t, "docker")) /\ UNCHANGED <<images, believed>>
    /\ UNCHANGED <<typeVars, deScope, file, notes, results, edited>>

RunAgain(r, t) ==
    /\ Running(r, t, "again")
    /\ IF t \in images THEN Ran(t, r) ELSE Attempted(r, Failed(t, "docker"))
    /\ UNCHANGED <<typeVars, toolVars, file, notes, results, edited>>

\* _select_best_function_candidate: the best score, the earliest of equals.
Successes(attempts) == {i \in DOMAIN attempts : attempts[i].kind = "code"}
Better(a, i, j) ==
    \/ Tool(a[i].tool).quality > Tool(a[j].tool).quality
    \/ Tool(a[i].tool).quality = Tool(a[j].tool).quality /\ i <= j
Best(a) == CHOOSE i \in Successes(a) : \A j \in Successes(a) : Better(a, i, j)

\* When every thread has ended.  A result without an error is kept, except of a whole
\* binary; one that was asked of a tool is kept when it is empty, too.
SelectBest(r) ==
    LET a == ask[r].attempts
        best == IF Asked(r).tool # 0 THEN a[1] ELSE IF Successes(a) = {} THEN NoResult ELSE a[Best(a)]
    IN
    /\ AskAt(r, "run") /\ \A t \in DOMAIN ask[r].runs : ask[r].runs[t] = "done"
    /\ Advance(r, [ask[r] EXCEPT !.best = [tool |-> best.tool, file |-> best.file, kind |-> best.kind],
                    !.at = IF best.kind = "error" \/ Asked(r).full THEN "done" ELSE "store"])

-----------------------------------------------------------------------------
(* What changes meanwhile *)

\* Ghost: what changed while a request was under way, or could not be read.
Moving(what) ==
    ask' = [r \in Asks |-> IF AskAt(r, "start") \/ AskAt(r, "done") THEN ask[r]
                           ELSE [ask[r] EXCEPT !.moved = @ \cup {what}]]

Edit(kind) == kind \in deScope.kinds /\ edited < deScope.edits /\ edited' = edited + 1

EditNotes ==
    /\ Edit("notes") /\ notes' = notes + 1 /\ Moving("notes")
    /\ UNCHANGED <<typeVars, toolVars, file, results>>

\* The binary is rebuilt, or built back.
RewriteFile ==
    /\ Edit("file") /\ Moving("file")
    /\ file' = IF file = 1 THEN 2 ELSE 1
    /\ UNCHANGED <<typeVars, toolVars, notes, results>>

RemoveFile ==
    /\ Edit("gone") /\ file # 0 /\ file' = 0 /\ Moving("file")
    /\ UNCHANGED <<typeVars, toolVars, notes, results>>

BuildImage(t) ==
    /\ Edit("build") /\ Tool(t).image # "none" /\ images' = images \cup {t}
    /\ UNCHANGED <<typeVars, deScope, believed, file, notes, results, ask>>

RemoveImage(t) ==
    /\ Edit("remove") /\ t \in images /\ images' = images \ {t}
    /\ UNCHANGED <<typeVars, deScope, believed, file, notes, results, ask>>

\* TypeCatalog's processes; what is written is a change of the applied types, or of the
\* definitions and the bindings.
ChangeTypes ==
    /\ TypeNext
    /\ \/ refs' # refs /\ Moving("refs")
       \/ refs' = refs /\ <<catalog, bindings>>' # <<catalog, bindings>> /\ Moving("types")
       \/ <<refs, catalog, bindings>>' = <<refs, catalog, bindings>> /\ UNCHANGED ask
    /\ UNCHANGED <<toolVars, file, notes, results, edited>>

DecompileNext ==
    \/ \E r \in Asks :
          \/ StartAsk(r) \/ ReadNotes(r) \/ ReadRefs(r) \/ ReadFrame(r) \/ ReadRows(r) \/ ReadTypes(r)
          \/ SignRefs(r) \/ SignRows(r) \/ SignFile(r) \/ LookupResult(r) \/ Choose(r)
          \/ \E t \in Tools : RunLocal(r, t) \/ RunDocker(r, t) \/ PullImage(r, t) \/ RunAgain(r, t)
          \/ SelectBest(r) \/ StoreResult(r)
    \/ EditNotes \/ RewriteFile \/ RemoveFile
    \/ \E t \in Tools : BuildImage(t) \/ RemoveImage(t)
    \/ ChangeTypes

DecompileSpec == DecompileInit /\ [][DecompileNext]_decompileVars

-----------------------------------------------------------------------------
(* Properties *)

DecompileTypeOK ==
    /\ TypesTypeOK
    /\ file \in 0..2 /\ notes \in Nat /\ images \subseteq Tools
    /\ \A p \in Processes : believed[p] \subseteq Tools
    /\ \A r \in Asks :
          /\ ask[r].at \in {"start", "notes", "refs", "frame", "rows", "types", "signrefs", "signrows",
                            "signfile", "lookup", "choose", "run", "store", "done"}
          /\ \A t \in DOMAIN ask[r].runs : ask[r].runs[t] \in {"start", "docker", "pull", "again", "done"}

\* An answer taken from the cache is the one the request would have computed: always
\* with the notes and the stack frame it has read; with its applied types, its bindings
\* and code of its file unless these changed, or could not be read, while one of the two
\* requests ran, and, for the definitions, which no key covers, unless they changed in
\* between (_cache_key).
ServedAsAsked ==
    \A r \in Asks : \A i \in DOMAIN ask[r].served :
        LET e == ask[r].served[i]
            moved == e.moved \cup ask[r].moved
        IN /\ e.notes = ask[r].notes /\ e.frame = ask[r].frame /\ e.result.kind # "error"
           /\ Asked(r).tool \in {0, e.result.tool}
           /\ "refs" \notin moved => e.refs = ask[r].refs
           /\ "file" \notin moved => e.result.file = ask[r].file
           /\ "types" \notin moved /\ e.types = ask[r].types => e.rewrites = ask[r].rewrites

\* When tools were tried, the answer is of none only if none made code, and else of one
\* that no other surpasses; no more than the tools that were tried is waited for
\* (decompile_function, decompile_binary).
BestOfAttempts ==
    \A r \in Asks :
        LET q == ask[r] IN
        AskAt(r, "done") /\ q.attempts # <<>> =>
            /\ Len(q.attempts) = Cardinality(DOMAIN q.runs)
            /\ Asked(r).tool = 0 => (q.best.kind = "code" <=> Successes(q.attempts) # {})
            /\ q.best.kind = "code" =>
                  \A i \in Successes(q.attempts) : Tool(q.attempts[i].tool).quality <= Tool(q.best.tool).quality

\* What a request runs is of its provider, and Docker runs under "auto" only a tool that
\* declares no local command (_run_function_candidate).
ProviderKept ==
    \A r \in Asks : \A i \in DOMAIN ask[r].attempts :
        LET how == ask[r].attempts[i].how IN
        /\ how = "docker" => Asked(r).provider # "local"
        /\ how \in {"local", "http"} => Asked(r).provider # "docker"
        /\ how = "docker" /\ Asked(r).provider = "auto" => ~Tool(ask[r].attempts[i].tool).command

DecompilationsTell == ServedAsAsked /\ BestOfAttempts /\ ProviderKept
=============================================================================
