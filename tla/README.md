# Pile ou Face: a verification project

Pile ou Face is a VS Code extension that disassembles, patches, annotates and
traces binaries. A TypeScript *extension host* answers the messages of a
webview and spawns, for almost every one of them, a short-lived Python process
(`backends/`); an MCP server gives AI agents the same operations. The processes
share files: the binary itself, SQLite databases beside it, and the listing and
mapping files of its last disassembly. Nothing but SQLite serialises them.

The modules here model the parts where that sharing, or the order in which
messages and answers cross, decides whether the user's data is right: the patch
history, the analysis cache and the authentication session in depth, each with its
theorems; then the notes and the AI runs that write them, the cache of results, the
artifacts of a disassembly, trace runs, the chat and the pseudo-C panel; the agent and
its tools, plugins, types and decompilation; and algorithms the rest stands on: the
discovery of functions, the cutting of a listing into blocks, the frame of a function,
the hooks and the simulated libc of an emulated run. TLC checks small instances; TLAPS
proves the central properties for every instance.

| module | what it is |
|---|---|
| `PatchManager` | the patch history of one binary and the processes that change it |
| `PatchManager_proofs` | its theorems |
| `UndoHistory` | what it promises: an editor with atomic operations |
| `PatchRefinement`, `PatchRefinement_proofs` | the mapping between the two, and the proof that it holds |
| `MCPatchManager` + `MCPatch*.cfg` | the four runs of these |
| `DisasmCache` | the `.pfdb` rows of one binary and the processes that fill them |
| `DisasmCache_proofs` | its theorems, and two about `Decompilation` and `TypeCatalog` |
| `MCDisasmCache` + `MCCache*.cfg` | its four runs |
| `AuthSession` | the tokens of the host, the handlers that rotate them, the server |
| `AuthSession_proofs` | its theorems |
| `MCAuthSession` + `MCAuth*.cfg` | its two runs |
| `Annotations` | the store of notes and the commands over it |
| `AutoTriage` | AI runs that write notes: webview, host, process and their cancellation |
| `AutoTriage_proofs` | theorems about both |
| `MCAutoTriage` + `.cfg` | the run of both |
| `StaticCache` | the bounded table of analysis results |
| `Artifacts` | listing, mapping and CFG of a disassembly, shared by requests |
| `FunctionDiscovery` | functions of a listing without symbols |
| `BasicBlocks` | control-flow graph of a listing, of a function, of an address |
| `TraceSession` | trace runs, their history, the session shown |
| `TraceSession_proofs` | theorems about it and `SimulatedLibc` |
| `ChatSession` | conversations, prompts, the processes that answer, the stored history |
| `DecompilePanel` | the pseudo-C panel and its requests |
| `TraceCapture` | one emulated run: hooks, snapshots, limits, crash report |
| `AgentLoop` | the assistant between its model and its tools, and the pipe to the MCP server |
| `MCWorkbench` + `.cfg` | one run of the nine modules above, from `StaticCache` on |
| `Workbench_proofs` | theorems about `Artifacts`, `ChatSession`, `DecompilePanel`, `TraceCapture` and `AgentLoop` |
| `PluginRuntime` | plugins installed, consented to and run by several processes |
| `TypeCatalog`, `Decompilation` | C types, their layouts and bindings; the decompilers and their cache |
| `MCToolbox` + `MCCacheQuiet.cfg` | the run *cache_quiet*, of `DisasmCache` and of these |
| `SimulatedLibc` | libc calls simulated over memory and streams |
| `StackFrames` | the frame of a function, read off the instructions a machine executes |
| `MCBinaries` + `MCCacheOverlap.cfg` | the run *cache_overlap*, of `DisasmCache` and of these |
| `Backend_proofs` | theorems about `BasicBlocks`, `FunctionDiscovery`, `StackFrames`, `StaticCache` and `PluginRuntime` |

`PROJECT.json` maps every definition to the lines it models and lists runs,
mutants, findings, hazards and theorems.

## 1. Inventory

Paths are under `src/`; `BE` is `extension/backends`, `EX` is
`extension/src`.

**Patch manager** (`BE/static/patch/`). *State*: the binary; per binary, a list
of active patches and a list of reverted ones, in SQLite. *Operations*: apply,
revert, redo, revert_all, delete_history, purge_missing; `binary_patch.py`
writes the file without the history. *Interaction*: one process per message
(`EX/static/staticHandlers.ts`) or tool call (`BE/mcp/server.py`). *Hard*: file
and history are not written atomically; load and save are separate
transactions; patches overlap. *Correct when* undoing everything gives back the
original bytes, and an applied patch stays undoable.

**Analysis cache** (`BE/static/cache/cache.py`). *State*: one row per binary
path with the SHA-256 of the content it speaks of, and ten tables hanging on it.
*Operations*: get and save per table, streaming replacement of the listing,
invalidate. *Interaction*: filled by the indexer, the function radar, the import
cross-references, the call graph and the command line of `disasm.py`, each in
its own process; read by all of them. *Hard*: a save hashes the file when it
stores, not when the result was computed; a long write transaction; processes
killed by time-outs. *Correct when* what is served for a content was computed
from it, whole.

**Static result cache** (`BE/static/cache/cache_store.py`,
`EX/shared/staticCache.ts`). *State*: results keyed by path, mtime and size,
with access times and sizes. *Operations*: get, put with eviction, prune.
*Hard*: two bounds kept by one eviction; listing and deleting on two
connections; an entry renewed while it is pruned; a result stored under the key
of a file that changed during the analysis. *Correct when* both bounds hold
after each put and a key never yields a result of another file.

**Annotations** (`BE/static/annotations/`). *State*: notes by content hash,
address and kind, from the user, importers and AI agents. *Operations*: save,
save_ai (never over a user's), validate_ai, reject_ai, delete, list. *Hard*:
validate and reject list first and write one by one; save_ai may return with
its write transaction open. *Correct when* no AI action overwrites or deletes a
user's note. Composition: a patch changes the hash, so a revert must bring the
notes back.

**Authentication session** (`EX/shared/authService.ts`). *State*: secrets in
the host's secret storage (access and refresh token, content keys, lease
expiry), an in-memory session epoch, a single-flight refresh promise, a timer.
*Operations*: login, logout, refresh, refreshKeysIfStale, getContentKeys. *Hard*:
every handler awaits the network or the storage several times and others run in
between; the server consumes a refresh token and treats its second use as a
replay. *Correct when* one session's answer never writes into another, and no
token is used twice.

**Artifacts and context of an analysis** (`EX/static/hub/analysisContext.ts`,
`loaders.ts`, `graphRenderers.ts`). *State*: `.asm` and mapping files named
after the binary, and promises of disassemblies in flight. *Hard*: reuse of a
file that exists, whatever content it was made from; requests with different
arguments sharing one promise.

**Hub message handlers** (`EX/static/hub.ts`, `staticHandlers.ts`,
`EX/shared/sharedHandlers.ts`, `aiProcessRegistry.ts`). *State*: registered AI
processes, cancellation flag files. *Hard*: cancel, replacement and end of a
process in any order.

**Dynamic trace history and the webview's session**
(`EX/static/hub/traceHistory.ts`, `front/dynamic/runtimeSessionController.js`,
`front/shared/taskProgressController.js`). *State*: the active trace, the
session shown. *Hard*: answers for a binary or trace that is no longer selected.

**Auto-triage** (`BE/mcp/auto_triage.py`, `EX/shared/aiProcessRegistry.ts`,
`front/static/autoTriageController.js`). *State*: the webview's active runs, the
host's table of runs and of processes that can be cancelled, flag files, and the
process's place in its loop. *Operations*: start, consent, cancel, the events of the
process, its end. *Hard*: a cancel races the end, the spawn and a reload of the
window; the user writes the same notes meanwhile. *Correct when* the tables agree
with the processes, a cancelled run stops writing and ends, and no note of the
user's is replaced.

**Chat** (`front/shared/outils.js`, `messages.js`, `EX/shared/sharedHandlers.ts`,
`chatHistoryBridge.ts`, `BE/shared/chat_history.py`). *State*: conversations, the
request awaited, fragments to paint, the stored document. *Operations*: prompt,
revise, stop, new, switch, delete, clear, load, save. *Hard*: fragments and answers
arrive after the user has moved on; saves are processes. *Correct when* an answer
stands by its question, a busy panel is owed one, and what is stored is what is
shown.

**Pseudo-C panel** (`front/static/payload.js`, `tools.js`, `messages.js`,
`EX/static/staticHandlers.ts`). *State*: the selection, what is shown, pending
requests, answers by decompiler. *Hard*: several decompilers answer one request, late,
while the selection moves. *Correct when* one function's code is not shown as
another's, and what is awaited is on its way.

**Plugins** (`BE/plugins/`). *State*: directories of plugins, a file of consents under
a lock. *Operations*: install, grant, revoke, attach and invoke. *Hard*: the registry is
read, the consent checked and the code loaded at different moments, in processes that
overlap. *Correct when* code runs only as the user allowed and no consent is lost.

**MCP server and AI bridge** (`BE/mcp/`). *State*: the conversation with the model, the
two pipes, the text streamed to the chat. *Operations*: initialize, list, call, stream,
roll back, synthesise. *Hard*: the model names no tool, the wrong one or none; the server
prints or dies. *Correct when* the model reads each tool's own result, and the user the
answer that is kept.

**Decompilation and types** (`BE/static/decompile/decompile.py`,
`BE/static/annotations/struct_db.py`, `typed_*.py`). *State*: types, applied types and
bindings of a binary, images and commands of the decompilers, cached answers.
*Operations*: save, import, apply, bind, expand; decompile a function or a binary.
*Hard*: eight things are read one after the other for one cache key. *Correct when* an
answer is the one its request would have computed, and a layout fits its type.

**Dynamic engine and pipeline** (`BE/dynamic/`). *State*: the emulator, a pending
snapshot, events of simulated calls, virtual files, the crash context. *Hard*: hooks run
in order and may stop the emulator between them; a fault comes before, between or after
them. *Correct when* the trace is what the machine did, in order, within its limits.

**Static analysis algorithms** (`BE/static/disasm/`): the discovery of functions and
the cutting into blocks walk the listing in an order that must not matter; the frame of a
function is read in step with its stack pointer. The rest, with **compilation and
scripts**, are functions of the bytes built on Capstone and LIEF, and I/O around external
tools. They keep no state between calls but the caches above. **Telemetry**
(`EX/shared/telemetry/`): at most four requests in flight, sent at best.

The hazards that matter most are in `PROJECT.json` "hazards", at the line where they
bite.

## 2. PatchManager

### State and actions

| TLA+ | code |
|---|---|
| `file`, `present` | the binary on disk |
| `db` | `PatchDb`: rows `patches` and `redo_patches` in order |
| `pc[p]`, `job[p]`, `data[p]` | one Python process: its place, its request, the dict `_load` gave it |
| `Load*` | `_load`, look-up of the target, the checks that return early |
| `ReadOriginal`, `ApplyWrite` | `_replace_bytes`: read, seek back, write |
| `RevertWrite`, `RedoWrite`, `RevertAllWrite` | `_write_bytes`, one turn of the loop at a time |
| `Save`, `SaveRaises` | the transaction of `PatchDb.save`, or its ValueError / IntegrityError |
| `OpenRaises`, `Crash` | the file is gone at `open`; the process dies between two steps |
| `DeleteHistory`, `PurgeMissing` | the transactions of those names |
| `PatchBytes`, `RemoveFile`, `RebuildFile` | writes of the file that no history sees (a rebuild keeps the size) |

A write of bytes at an offset is a function from the addresses it covers. Offset
and length are its domain, so the checks of `apply_patch` on them (in the file,
not empty, at most `MAX_PATCH_BYTES`) are the definition of `Span`. An
identifier comes from a counter (uuid4). Requests that are refused change
nothing and are left out. A file that a rebuild made shorter
or longer is left out too: past the end of a shorter one `_write_bytes` writes without a look
at the size. SQLite's busy time-out in `save` is a case of `Crash`: the file is written, the
history is not.

`Faults` says what the environment may do. Without `"anyorder"` a revert or a
redo does not jump over an overlapping patch: the code lets the caller choose
any id, and then the bytes below are brought back under the patch above; no
property could hold of that, and the interface's undo takes the last entry.

Four ghosts record and guard nothing: `base` (the content before the first
patch), `dirty[p]` (written by p since its load), `torn` (addresses where a
write sits that the history does not know: an interrupted operation or a foreign
one) and `lost` (torn addresses an apply has since taken as original).

### Runs

- **patch_serial** (pass): one process at a time, dying anywhere, the file
  removed, rebuilt and patched by others. `Coherent`: the history explains every
  byte that is not torn, by a chain of undo entries down to `base` and of redo
  entries up again. `NoActiveDropped`: only deleting the history makes the store
  forget an applied patch. What it shows beyond the tests: a torn write heals as
  soon as a revert or redo passes over it, and only an apply over it makes it
  permanent. `ImplementsEditor`: see *The abstract editor* below.
- **patch_race** (pass): two processes at once, any order, any digits.
  `SaveAccepted`: the limit of `save` and its primary key never stop an operation
  that has written the file, although the limit is tested on a copy loaded
  earlier. `OpsFinish`: every operation ends.
- **patch_lax** (violation of `EveryEditUndoable`) and **patch_lost_update**
  (violation of `NoActiveDropped`): see *Findings*.

*Bounds.* Two bytes of file and two byte values give disjoint, nested, equal and
partly overlapping patches (with spans of one and two bytes); three applies
build stacks of up to two entries (the limit) with both lists in use, and reach
the limit. The race keeps one address, for its properties count entries and never
look at bytes; three applies against a limit of two make the limit bite. Bytes are compared only for
equality, so permuting them is a sound symmetry; it is used only in the run
without liveness.

*Fairness.* A started process is a separate OS process with nothing to wait for;
it is scheduled until it exits: `WF_vars(Step(p))`. Nothing obliges anyone to
start one, and `Crash` is not in `Step`.

### Proofs

`TypeCorrect` and `SaveNeverRefused` hold under every fault, concurrency
included. `HistoryCoherent` and `UndoRestores` (with no active patch the untorn bytes are
the original ones) assume `Solo`: neither
`"concurrent"` nor `"anyorder"`; crashes, foreign writes and lax digits are
allowed. patch_lost_update shows what the first half of that assumption is for.

- `TypeInv` strengthens `TypeOK` by what ties a process to its place (an apply
  about to write has read as many bytes as it will write; the index in `job` is
  one of `data`). Without it the entry that `ApplyWrite` builds need not be an
  `Entry`.
- `SaveInv` says of every process, and of `db`, that identifiers are distinct,
  older than `nextId`, that a running apply's is nobody else's, and how large the
  histories can be. The limit is not inductive by itself: an apply is counted
  before its entry exists.
- `CohInv` says that the stored history accounts for the file outside the torn
  addresses and those the running process has touched, and that its local copy
  accounts for those. The chain is split into lemmas on one address: pushing,
  popping, and moving an entry between the two stacks.

Only model-checked: `NoActiveDropped` and the liveness property `OpsFinish`.

### The abstract editor

`UndoHistory` says what the history promises without saying how: an editor of one
content whose operations happen at once. An edit is an identifier and the bytes it
writes; there are no original bytes, no files and no interruptions. Undoing shows
what the edits left show over the starting content. The editor may *lose account* of
addresses (`LoseAccount`: an operation was interrupted there, or somebody else wrote)
and regain them when an undo or redo writes them.

`PatchRefinement` maps: rows to edits, `base` to the start, the addresses that are
neither torn nor lost to those accounted for. The content is the file while nobody
runs, and what the stored rows show while an operation is under way: an operation
takes effect when it is saved. TLC checks `ImplementsEditor` in patch_serial;
`PatchesImplementEditor` proves it for every file, every size and every number of
operations, under `Solo`. The argument: by `TypeInv` and `CohInv` (which say that the
rows account for the file) the mapped content is well defined (`ContentInv`); what an
operation holds when it saves is the abstract operation's outcome on the rows it
loaded (`OutcomeInv`); so each save is one abstract operation, everything before it a
stutter, and an abort or a foreign write is `LoseAccount`. It is more than `Coherent`:
it says that the bytes an apply reads from the file and stores as `original_bytes`,
through any number of interrupted operations, are never needed to know what an undo
must show.

## 3. DisasmCache

### State and actions

| TLA+ | code |
|---|---|
| `content`, `mapping` | the binary; the content of which the mapping file speaks |
| `db` | the committed row of `binary` (id, hash) and its tables |
| `holder`, `tx` | SQLite's write lock and the rows as its transaction sees them |
| `Get`, `Select`, `Rows` | `get_disasm`, `get_functions`, `get_cfg` with `_get_valid_binary_row` |
| `Compute` | the analysis, which reads the file again |
| `Ensure`, `Lookup`, `Insert` | `_ensure_binary` |
| `Replace`, `ReplaceRaises` | the rest of `save_*`: DELETE, INSERT, commit; or a foreign key that no longer exists |
| `Busy` | "database is locked" after the default five seconds |
| `Begin` ... `StreamCommit` | the streaming path of `disasm.py` with `begin_disasm_replace`, `append_disasm_rows`, `commit_disasm` |
| `Discover`, `Outputs` | the path without symbols, whose sink calls `save_functions` on the open connection |
| `HitOutputs`, `HitRaises` | the path on a cache hit, with its second hash |
| `Invalidate`, `ChangeContent` | `cache_invalidate`; a patch, a revert or a compilation |

An artifact is represented by the set of contents it was computed from, and by
how many batches of it are in. The listing, the functions and the basic blocks
stand for the ten tables: symbols, imports, strings and xrefs are kept by the
same code as functions, differing in columns. An empty result saved is no rows,
which a later get reads as a miss, as in the code. A file that cannot be read or
parsed raises; that is `Crash`. `AUTOINCREMENT` never draws an id twice; the
model reuses one that no row and no process remembers, and the state space is
finite.

### Runs

- **cache_quiet** (pass): two processes of any kind, dying anywhere, the binary
  changing only between operations. It also hosts plugins and decompilation (section 7). `Fresh`: what is committed under a hash was
  computed from that content. `CurrentLines`: a process works on the listing of
  the bytes on disk. They exercise the deletion of stale rows by readers, two
  processes replacing each other's row, and blocks built on a cached listing.
- **cache_overlap** (pass): the binary changes at any time and mappings may be
  old. It also hosts libc and stack frames (section 7). `WholeListing`: no reader gets a part of a listing, whichever process dies
  between which batches. `LockReleased`: the connection that holds the write lock
  gives it up.
- **cache_kept** (violation of `ListingKept`) and **cache_old_mapping**
  (violation of `Fresh`): see *Findings*.

*Bounds.* Two contents, one with symbols and one without, take both paths of the
disassembly and every stale/valid combination. Two batches distinguish first from
last (three in the overlap run: a middle one). Two processes are what a row
replaced under another needs; with one fewer the overlap run can afford liveness.
Four ids are enough for two processes, `db` and one to draw.

*Fairness.* As above: a process runs until it exits. A process that waits for the
lock gives up after five seconds (`Busy`), so fairness of each process suffices
and none is assumed of the lock. The parts beside the cache in the same run are under no
fairness.

### Proofs

`CacheTypeCorrect` and `ListingWhole` hold under every fault: `IInv` adds to
`TypeOK` that the lock holder is at a place where it may hold it, and that the
lines in an open transaction are few enough for the place it is at. `CacheFresh`
and `LinesCurrent` assume `Quiet`: the binary changes only when nobody runs
(`"overlap"` is out) and mappings are current (`"oldmapping"` is out). Their
invariant `QuietInv` ties every hash, listing and result a process holds to
`content`; it is needed because `Fresh` alone says nothing of the transaction that
is about to be committed. cache_old_mapping shows the second half of the
assumption is needed; a binary that changes between a computation and its save
breaks the first, as hazard cache.py:1086 says.

Only model-checked: `LockReleased` (liveness).

## 4. AuthSession

### State and actions

| TLA+ | code |
|---|---|
| `secrets` | the secret storage: per key, the server's answer its value came from |
| `epoch`, `inFlight`, `identified`, `timer` | `_sessionEpoch`, `_refreshInFlight`, `_serverIdentity`, `_refreshTimer` (and the refresh at activation, `extension.ts:171`) |
| `pc[p]`, `ctx[p]` | one handler: the `await` it is at, its local variables |
| `session`, `current` | the server: the session of each token it issued, the one token each session accepts |
| `StartRefresh`, `StartRefreshKeysIfStale`, `StartLogin`, `StartLogout` | the calls, up to their first `await` |
| `BeginSession` | `_beginSession` |
| `Identity`, `ValidatedAt`, `RefreshTokenRead`, `LogoutRead` | the awaited discovery and reads, and the code that follows them |
| `Rotate`, `Answered`, `Settle`, `Awaiting` | `_rotateRefreshToken`: join or begin, the answer, the `finally` and everyone who awaits the promise |
| `ServerRotates`, `ServerErrs`, `Lose` | what becomes of the request: consumed or refused, an error of the server, lost on the way there or back |
| `WriteNext`, `StoreLast`, `LeaseLast`, `DeleteLast` | one awaited `store` or `delete` each, in the order of the code |
| `SyncAnswered`, `SyncFails` | the requests of `_syncLicenseLeases`, whose errors are swallowed |

Handlers run on one thread: a step takes one from an `await` to the next, and
joins the effect of the awaited call (the secret is written) to the code that
follows it. Handlers that await one promise are resumed in one step (`Settle`):
the continuations of a promise run in succession before any other event, and
those here touch nothing the others read before their next `await`.

The values of a secret matter only by where they came from, so a secret is the
number of an answer. `contentKeys` is 0 when the answer held no key. The two last
writes of `_syncLicenseLeases` are a store or a delete each; a lease expiry of 0
is the delete. The server is external and is modelled by what
`authService.ts:326` says of it: it consumes a refresh token at each use and
takes a second use for a replay that revokes the session. The branch for a server
that does not rotate (`authService.ts:345`) is therefore not taken.

Left out: storage that fails, a second server address, the getters (they write
nothing), device enrolment and the verification of a lease. `logout`'s request
to the server is not awaited; it takes effect at once or never.

Three ghosts record and guard nothing: `spoiled` (tokens whose successor this
host can no longer store: the answer was lost, or the session changed), `replayed`
(tokens the server saw again after consuming them), `ended` (the latest of logins
and logouts was a logout).

### Runs

- **auth_shared** (pass): three handlers of any kind, an answer or request lost
  at any time, the server failing, one login or logout anywhere.
  `SingleFlight`: two rotations overlap only if the epoch changed between their
  beginnings, so that the second is of another session. `Joined`: whoever joined
  a rotation awaits one that runs, even after `_beginSession` has forgotten it.
  `NoReplay`: the server sees a consumed token again only if it is spoiled.
- **auth_logout** (violation of `NoResurrection`): see *Findings*.

Three handlers are what a joined rotation and a change of session need. Three
answers are the stored one and what two of them draw after it. One change of epoch
separates an old session from a new one; handlers of the old one are told
apart by `epoch` and `born`, and a third session would only add handlers older
still. Handlers differ only by name, so permuting them is a sound symmetry.
`CHECK_DEADLOCK FALSE`: when the answers are used up and every handler is done,
the model stops, as an idle host does.

*No liveness.* A request has no time-out here (`fetch` is given none), so nothing
obliges an answer to come; `Joined` is the safety part of "every caller is
answered".

### Proofs

Under every interleaving and every loss, for any number of handlers and tokens:

- `SessionTypeCorrect`: `TypeOK` is inductive once it says which locals fit which
  `await` (`Placed`): a handler about to store has an answer in hand, one that
  joined knows whom. Without it a refusal might be written as a token.
- `OneFlight` and `NobodyStranded` from `FlightInv`: no rotation was born after the
  current epoch; one born in it is the one `_refreshInFlight` names; the field, if
  set, names a rotation that runs; whoever joined awaits one that runs. Of two
  rotations born in one epoch that is over nothing more need be known than that
  they were apart then. The comparison in the `finally` clause is the step that
  needs the second part: were the field cleared by any rotation, the next caller
  would begin another in the same epoch.

- `NoTokenReplayed`, from `TokenInv`: a refresh token that is stored, or on its way to
  the server, is accepted there, or its session accepts nothing any more, or it is
  spoiled, unless the rotation in flight has its successor in hand; an answer is in one
  hand only; the sessions a token belongs to are known; a number not drawn yet is
  nowhere. `NoReplay` itself speaks of what the server saw; the invariant has to speak of
  what the host may still send, in the storage, in a handler and in the shared rotation
  at once.

## 5. Annotations and AutoTriage

### State and actions

| TLA+ | code |
|---|---|
| `content` | per binary, which content it holds; notes are kept by the hash of that (`annotation_db.py:106`) |
| `notes[v][s]` | who wrote the note of an address and kind: a person, `validate_ai`, an AI, an import |
| `writer` | SQLite's write lock, held by a connection that did not commit |
| `Annotate`, `Erase`, `Wipe` | the commands that write one note, or all |
| `Listed`, `RejectAi`, `ValidateAi`, `Import` | those that list first and write one by one |
| `Hash`, `Write`, `Locked` | one write: the file is hashed, the lock awaited, the row replaced and committed |
| `SaveAi`, `HashAi`, `WriteAi` | `save_ai_annotation`, which refuses to replace a user's note and leaves its transaction open |
| `run[r]` | the handler of a request in the host and the process it spawned |
| `shown`, `active`, `registry`, `timers`, `flags` | the webview's runs; `_activeTriageRuns`; the cancellable processes; kills due in five seconds; flag files |
| `Start` ... `Close`, `Done` | the preflight, consent, spawn, exit and final event of a run |
| `Select`, `Take`, `Answer`, `NextKind`, `Finish` | `run_auto_triage`: the candidates, the flag tested between them, the provider, the writes |
| `Cancel`, `Terminate` | the flag file, then SIGTERM if the process has not ended |
| `ReopenPanel`, `ReloadWindow`, `BrokenPipe` | the panel is closed and opened again; the window is reloaded, the process goes on until it prints |

A message and its handler are one step, for both ends keep the order and a handler
runs to its first `await` at once. The text of a note is who wrote it. MCP's
annotation tools write as the user does. Reviews and bookmarks go through the same
writes and are not in the instance.

### Run *triage* (pass)

- `UserNoteKept`: a note a person typed is replaced or deleted only by a command of a
  person, or by one that listed it before it was typed; never by an AI run.
- `RunsTracked`, of two parts: `Tracked`, whatever crosses, the host's tables agree with
  the processes; `OneActiveRun`, a binary has at most one run the webview follows.
- `StopsWriting`: once a cancel was taken the run finishes the function it was writing
  and touches no other; a run whose host is gone stops at its next print.
- `CancelEnds` (liveness): a cancel that was taken ends the run, whatever the provider
  does.
- `LockAfterRefusal`: the lock is left held only by a run, and only after the store
  refused it a user's note.

*Bounds.* Five scopes: two runs on two binaries with a reload; two commands around a
run; a command and a run while the file is rewritten; two functions with a command, or
with a rewrite and a reload. Two functions are what "no other" needs, two contents what
a rewrite needs. *Fairness*: a timer fires and an event of the host is handled
(`Terminate`, `Close`, `SpawnError`); the provider owes nothing.

### Proofs

All but `CancelEnds` is proved, for any runs, commands, binaries, functions and bounds
(`AutoTriage_proofs`): `TriageTypeCorrect`, `RunsAreTracked`, `RunsStopWriting`,
`LocksAfterRefusal`, `UserNotesKept`. They rest on one invariant, `TriageInv`, for the
properties hold each other up. Its parts: what a run at a place holds (`RunOK`), which
is why a run is in the tables (`Cancellable`, `RunsTracked`); that a cancel taken left a
flag, a timer or an end (`OwedInv`), without which "one of two open runs has been
cancelled" is not kept by the second start; what the webview shows (`ShownInv`); where a
run may still write (`StopsWriting`, with the function it was at); that a write lock held
between two writes is that of a run that was refused (`RefusedInv`); and, for
`UserNoteKept`, that a command listed nothing newer than it remembers (`CommandOK`,
`ReviewInv`).

## 6. The workbench

Nine modules share no state and little code; `MCWorkbench` checks them in one run, a
behaviour of which is one of one part while the others rest. Their liveness is not
checked. A property of the run that joins several is named in brackets.

**StaticCache** [`StoreChanges`, `KeptAsComputed`]. A client is a process; each call is a
transaction on a connection of its own (`Select`/`Touch`, `List`/`Prune`).
`PutKeepsLatest`: a put brings the table within both limits, keeps what it was given, and
evicts the least recently accessed and no more than needed. `PruneSparesServed`: prune
lists on one connection and deletes on another; nothing that could be served is lost,
unless its file was away at the listing. `KeptAsComputed`: a result is kept under the content it was computed from,
unless the file was written in between: both clients take that risk, at different
moments, and the ghost `quiet` marks it. Three entries' worth of bytes against two
entries make both limits bite; two clients and three writes make a renewal between
list and delete.

**Artifacts** [`ArtifactsShared`]. Files hold the number of the build that wrote them. `SharedBuild`: at
most one disassembly that `ensureDisasmArtifacts` started writes the files, it is the
registered one, and nobody waits for a settled promise. `CfgOfLines`: a CFG the cache
would serve was computed from the lines in place, although cfg.py reads them after the
host has taken their signature.

**FunctionDiscovery** [`FunctionsFound`]. `WalkIsClosure`: whatever the order of the seeds and of the
work list, the walk covers what control reaches and names every function it meets.
`Disjoint`: the functions reported do not overlap. Every listing of four instructions,
with a known and a hinted function. That the bounds are clamped to the next start is
why `_resolve_candidate_overlaps` never finds anything to remove.

**BasicBlocks** [`GraphsTold`]. `BlocksPartition`: a line is in one block, and control enters a block
only at its head. `AddressShown`: the function found by climbing the edges from an
address shows that address when descended again. `FunctionIsFlow`: the graph of a
function is the lines control reaches from its entry, but over the edges the code does not
draw. Those are named: a block that ends because the next line starts one has no successor
(`cfg.py:1315`), which is `Severed`. The premise `Complete` names where others are missing:
an indirect call's only successor is typed a call and not followed, and the entries of a
switch may start no block. So the graph of a function may miss lines that control reaches,
against the docstring of `build_cfg_for_function` and `docs/static/FONCTIONNALITES.md:69`.
It was confirmed by running the code; no run is kept for it. MIPS delay slots and the reading of jump
tables are left out.

**TraceSession.** One hub panel at a time; closing it leaves its runs going. A run's
compilation, symbols and pipeline are one step. `ButtonFreed`: a disabled run button
has a run or an answer on its way that enables it, however runs supersede each other.
`ActiveExists`: the trace the host takes for the one shown is in the history. Both are
proved for any number of runs, panels and requests (`TraceSession_proofs`).

**ChatSession** [`ChatTells`, `StoreFollows`]. Messages of the webview reach their handler at once, those of the host
queue; fragments wait to be painted. `AnswersInPlace`: an answer or error stands next
to its question, in the conversation that asked. `AnswerOwed`: a busy panel is owed an
answer by a process that runs or a message on its way, and only then is busy.
`StoreFollows`: when no save is left, what is stored is what is shown. The scopes
`late` and `slow` (the stored history arrives after the user acted; fragments painted
after the result) are excepted in the first and third: there the code goes wrong, see
below.

**DecompilePanel.** The webview is one record, its functions operators on it, a handler
a composition of them. Two decompilers answer each request in any order. First half of
`CodeOfSelected`: a function awaited has its answer on its way. Second half: one
function's code is not shown as another's, unless the answer of the latter is still to
come. Excepted are the global view and, until the next request, what a pill shows and a
list of functions filled again while the cursor is elsewhere (the ghost `astray`): there
the code goes wrong, see below.

**TraceCapture** [`TraceTells`]. The hooks in the order the engine installs them, over a
machine whose state is a number. `SnapshotsTell`: the snapshots are the captured
instructions in the order the machine met them, each with the state before and after
itself and with the simulated call that it was, within both limits and with none missing
unless one was reached. `CrashTold`: the verdict is about the instruction that stopped
the program. The restart at the interpreter is excepted where it goes wrong (section 8).

**AgentLoop** [`TalkFaithful`]. The loop over model and tools and both ends of the pipe.
`ToolResultsMatch`: whenever the model is asked, each of its calls is followed by its own
result, whatever a tool has printed into the pipe. `ShownIsAnswer`: at the end the chat
shows the answer that is returned, not the texts of other rounds. Only the streamed mode,
and one provider; the answer of the notification after *initialize* does not exist and is
left out; the prefix that warns of a model without tools is not modelled.

*Bounds.* All are constants of `MCWorkbench`, each behind a comment. Two binaries of one
name and three requests make one join and one be replaced; four instructions make a
jump forward, backward and into the middle; three runs make one superseded twice; two
prompts make a late answer of the first; three moves make the selection leave and come
back; programs of three instructions and a return meet a hook that stops and one that
skips; two rounds with two calls shift the pipe. `CHECK_DEADLOCK FALSE` in *triage* and *workbench*: when the bounds are used up
the model stops, as an idle program does.

### Proofs

`Workbench_proofs` has six theorems, one invariant for each module, which TLC checked
first.

- `ArtifactsAreShared`, from `ArtInv`: besides types and `SharedBuild`, that builds are
  numbered in order, that a signature taken of a mapping is of one written before
  (`SignaturesPast`), and that a graph in hand was computed from lines not older than its
  signature (`GraphsInHand`). The point of the argument: a complete header of a build is
  seen nowhere before that build wrote it, after its lines; so if a graph is served next
  to a whole listing, its signature is of that listing, and what it was computed from,
  read later than the signature, is that listing too.
- `ChatIsTold` and `StoreFollowsChats`, from `ChatInv`. A behaviour has two phases: until
  the stored history has been shown nothing is said (`Arriving`), and afterwards no
  history arrives again (`Arrived`). `SavedLast`: the last save chained, or the document
  when none is left, is what is shown. `InPlace` has what `AnswersInPlace` leaves out: the
  question under way is the *last* turn of the conversation shown; a backup can be put
  back there; a result on its way is the last word of its process and an answer on its way
  comes after every fragment, so that it never waits for a paint (`LastWords`); only
  prompts that were sent are mentioned, which is why a new one is nowhere. Neither is
  inductive without the busy flag (`OwedInv`): the user cannot act while an answer is
  awaited.
- `TracesAreTold`, from `CaptureInv`. A snapshot is made by the hook after its
  instruction, so the invariant is about the one under way: it is the last that was met
  and the only one without a snapshot (`UnderWay`, `AllShown`), and an event kept under a
  captured address is its own (`EventsInv`). `HookedInv`, `EndInv` and `SmashInv` say how
  the emulator came to its end, which the report classifies afterwards; they are what
  makes the verdict be about the last instruction, unless the interpreter was tried.
- `TalksAreFaithful`, from `AgentInv`. While the tools run, the last reply has the results
  of its first calls behind it and nothing else (`ServedAt`, counted by `NamedCalls`), and
  the replies before it are whole; a result that is appended belongs to the reply, and
  to none before it, because each of those ends earlier. Whatever is read from the pipe
  has the id awaited or is an error. `BubbleInv` says what the chat shows in each state:
  nothing while more is to be said, and otherwise what was said last.
- `PanelShowsSelected`, for any binaries, functions and decompilers. Messages carry no
  identity but the function and binary they are about, so the invariant says of each what
  was selected when it was sent and which request owes it; the second half of
  `CodeOfSelected` follows from the first only with what the caches of the panel and of
  the host hold. The proof failed where a list is filled again, which no unit of the
  model's instance had met: that is how the entry of section 8 was found.
- `FunctionsAreFound` (in `Backend_proofs`), for any listing, from `DiscoveryInv`. What is
  reached is stated as the least set that has the seeds and that control does not leave.
  `WalkTrue`: a line followed from one walked through is walked through, waits in a work
  list, is itself a start that is or will be walked from, or is known and no seed; so when
  nothing waits the lines walked through are such a set. `NoneNested`: an end never passes
  the next start, so that `_resolve_candidate_overlaps` removes nothing.
- `GraphsAreTold` (in `Backend_proofs`), for any listing and any request, from `BlocksInv`.
  `CutSoFar`: the blocks cut cover what is cut, in order, and no start is inside one.
  `SearchTrue`: what the search backwards has met leads, in any set of blocks that the
  edges do not leave, to the block of the address asked for; what the search forwards has
  met is in every such set that has the entry. Of a complete listing the edges of a block
  are where control goes from its last line, or none where it is severed (`FlowOfBlock`), and a set of lines that
  control does not leave has the whole of a block or not its first line (`BlockInClosed`).
- `ResultsKept` and `StoredSurvives` (in `Backend_proofs`), from `CacheInv`. A row is true
  (`RowTrue`) while its key names a stat the file has had, so that writing the file later
  does not change what the key stands for; a process that was asked remembers a content
  the file had (`AskedTrue`), what it computed is of the current one unless the file was
  written since (`ComputedTrue`), and what a prune is about to delete of the host's was
  away or of an earlier stat (`DoomedTrue`): a file that comes back in between makes the
  exception in `PruneSparesServed`. That the deletions keep the order of the rest, and that
  an eviction ends with the row just put, are lemmas on `KeptBut` and `EnforceLimits`
  (`KeptFacts`, `EnforceFacts`); they need that one row always fits (`OneFits`):
  `put_payload` refuses more than 16 MB, and the table may hold 256.

## 7. Tools and binaries

Five more modules run beside `DisasmCache`: plugins, types and decompilation in
*cache_quiet* (`MCToolbox`), libc and stack frames in *cache_overlap* (`MCBinaries`). A
behaviour is one of one part.

**PluginRuntime** [`PluginsKept`]. Two processes, each of which installs, grants, revokes,
runs a command or asks for a feature; one may die anywhere. `StoreIsWill`: the file of
consents is what the grants and revocations make of it, in the order they ended. A file that
cannot be read is taken for an empty one (`consent.py:71`), as `Readings` says: the others are
then lost to the command that could not read them, and to no other.
`RanAsAllowed`: code that ran had a consent of its version and place since the process
looked at the disk; only a plain plugin replaced meanwhile runs under the consent of the
one before. `ExpectedAnswers`: a feature that names its plugin is answered by it, although
the plugins are attached again after the comparison, unless one fails whose commands were
registered, or the disk changes. `PlacesWhole`: of overlapping
installations a place is left empty or whole, unless one died or its removal failed.
Manifests, licences and the enrichers are abstract.

**TypeCatalog** [`TypesSound`]. `LayoutsFit`: a struct has a layout exactly when what it
holds can be filled, and its fields are then aligned, apart, and no further than
alignment asks. `ChainsFollow`: a chain of fields is a walk over pointers that meets no
name twice, with the offsets of the types it passes. `BindingsRefer`: a binding names a
definition, whatever is saved, imported and bound at once. `WithinLimits`: the limits,
counted outside the transaction, are passed by no more than the writers that counted
together. Every catalog of three types out of twelve definitions each, and two
processes that change one.

**Decompilation** [`DecompilationsTell`]. Each reading of a request is a step: notes,
applied types, frame, bindings, definitions, then the parts of the cache key.
`ServedAsAsked`: an answer from the cache is the one the request would have computed,
but for what changed, or could not be read, while one of the two requests ran (the readings
of references and of types swallow their exceptions). `BestOfAttempts`: no answer
surpasses the one kept, and as many are kept as tools were tried. `ProviderKept`: what runs is of the
provider asked for. Code is the tool that made it and the file it read; its quality is a
number per tool.

**SimulatedLibc** [`LibcTells`]. Memory of six cells over six byte values, so that NUL,
newline, blank and percent can each be anywhere. `WritesTold`: every byte that a
simulated call changed is in a write it recorded, no longer than the arguments allow, and
the last record of a byte shows what memory holds. `InputOnce`: what two calls took of
one input does not overlap and is in order, with one exception that the code makes: the calls
of libc and the read system call each keep a place of their own in the standard input, and
each gives it from its first byte. `MaxLine` bounds what `gets` takes (0x10000). Formats, four of them, exercise widths,
suppressed conversions, sets and literals. `atoi` and the rendering of arguments are left out.

**StackFrames** [`FrameTold`]. The analysis in step with a machine. `FrameRead`: the size of
the frame is how deep the stack has been, and what is listed is an access that was made, an
argument only at or above the first one. `FrameWhole`: every access is listed, but for those
that `LeftOut` names: what the stack pointer reaches at a depth that is not known, the return
address and the shadow space, variables above a frame pointer that is not r7, and the first
two words above it on riscv. Five instructions and two accesses, over every calling
convention: enough for a prologue, an allocation, an access on each side and a restore.

Both hold until the function uses a form that the analysis misreads. Each is an action, or a
case of one, that does what the code does and sets `misread`; nothing more is then claimed:

- `RestoreFrame`: arm has no case for `mov sp, r7`, so that the old depth stays, and reads
  `add sp, r7, #n` as if it were of the stack pointer; x86 and arm64 read a plain restore
  as depth 0, which is so only after the pop or load that follows, or, on arm64, if the frame
  pointer is at the entry (`leave`, which pops too, is read right); arm64 takes
  the number of `add sp, x29, #n` for the depth; riscv sees no restore at all; x86's
  `lea rsp, [rbp-n]` loses the depth and is listed as an access.
- `SetFrame`: on arm64 the anchor is reckoned from the depth also where that is a lower
  bound, after `sub sp, sp, x8`, and a variable is then listed as an argument; without an
  anchor the frame pointer is assumed where a usual prologue sets it (x86: just below the
  return address; riscv: at the entry).
- `Align`: `and rsp, -16`. `Allocate`: `add rsp, rax`, and on arm and riscv any
  allocation by a register. `MovesUnseen`: what moves the stack pointer unseen, like a
  callee that takes its arguments off the stack.
- `MoveAndAccess`: lea of the stack pointer, and single loads and stores with a pre-index or a
  post-index, whose access is read at the depth after the move.
- `Return` on arm: only `ret` ends the analysis, so that what lies behind `bx lr` or
  `pop {pc}` is read as the function's.

Branches are not followed, by the analysis or by the machine of the model.

*Bounds.* Two processes are what a consent lost, a directory overlapped or a key read
twice need; two requests make one be served by the other. *Fairness*: none for these parts.

### Proofs

`Backend_proofs` proves `FramesAreTold` from `FramesInv`, which TLC checked first.
`InStep`: while nothing was misread the analysis's depth is the machine's as long as it
is known and a lower bound otherwise, only an allocation of unknown size loses it, and
the frame pointer is at its anchor, or where the analysis takes it to be without one.
`EntriesTrue`: each entry is true of an access. `FrameRead` alone is not inductive, because
it does not mention the depth by which the next access is classified; `FrameWhole` is, since an
entry keeps its location and its size only grows (`_merge_stack_entry`).

It also proves `PluginsAreKept`, from `PluginInv`, an invariant of each process:

- `LockOf`: only the holder of the lock writes the consents, and writes what it read
  there (or took for an empty file, `ReadingFacts`), so that the file is `willed` whenever nobody holds it.
- `VettedBy`, `RanBy`: a record that passed had a consent after the process last looked
  at the disk, or comes of a plain plugin replaced since.
- `FoundBy`: of the records that may run no two have one id. `OwnedBy`: while nothing
  disturbs it, the last place of the second attachment that registers a command is the
  last one that registered it in the first. This is what `ExpectedAnswers` needs, and it
  does not hold without the exception for plugins that fail after registering.
- `EmptiedInv`: a place that is not whole belongs to an installer between its removal
  and its move, or to one that died or failed there.

`DisasmCache_proofs` proves `DecompilationsAreTold` from `DecompileInv`, which TLC checked
first, for any finite set of tools and any requests. `ServedAsAsked` compares an entry with
a request that did not make it, so the invariant says of each, apart, how it agrees with
the key that makes them meet:

- `ReadTrue`, `RewriteTrue`: what a live request has read is still what is stored, unless
  it was seen to change. The payloads are read before the signatures, so this is what
  makes a signature taken later that of the payload.
- `KeyTrue`: from its signature on, each part of the key is of what was read, under the
  same exceptions; the notes and the frame, signed from what was read, without any.
- `ResultsTrue`: an entry agrees in this way with the key it is kept under, except for
  the definitions, of which the key has only the rows that name them.
- `AttemptsTrue`: there is one attempt for each tool that is done, so that none is lost or
  tried twice; a tool was handed to Docker only where the provider lets it; and if any
  made code, one of those surpasses the others (`Champion`). `BestTrue` is about the one
  chosen.

The last is kept at each attempt and not derived at the end: that a best attempt exists
would need an induction over their number.

The same module proves two parts of `TypesSound`, `BindingsRefer` and `WithinLimits`, for
any number of processes and any limits (`TypesStayReferred`). A writer that was counted
claims the row it will write (`BoundSoon`, `AppliedSoon`); the invariant bounds the rows that are there or
claimed by the limit and the other processes, and a claim is only made while there is room.

`TraceSession_proofs` proves `LibcIsTold` for any memory, input, files, formats, arguments,
page size and limits. Its invariant, `LibcInv`, has three parts:

- `MemoryInv`: whatever is mapped lies below the heap, so that `strdup`'s pages were in no
  string's way.
- `EventInv`: what the last event lists is `Told` of the memory before and after. `Told` is
  kept write by write (`ToldMore`) where a call stores what it gives, and at once
  (`ToldBack`) where it reads back what it wrote; there it rests on what a copy, a copy
  with its padding or a fill can have changed (`Copies`, `WithBytes`).
- `InputInv`: what was taken of a stream lies before its place, and a call takes the
  intervals of a `Chained` sequence, one after the other.

A scan keeps, token by token, that its place, its writes and its intervals go on from
where it began (`ScanStates`); that the recursive functions of a format and of a text are
what their equations say is shown by building them (`TurnsExist`), for the prover knows
only that they are chosen.

## 8. Findings

1. *patch_lax* (`patch_manager.py:118`): `apply_patch` accepts digits by
   `int(b, 16)`, writes the file, and `PatchDb.save` then rejects the same digits
   (`bytes.fromhex`): the file is patched and cannot be undone.
2. *patch_lost_update* (`patch_manager.py:132`): "transactionally" covers the
   replacement and not the load it is based on; of two overlapping processes one
   forgets the other's patch.
3. *cache_kept* (`disasm.py:2149`): the comment promises that nothing is committed
   before the disassembly has succeeded; the sink of discovered functions commits
   the deletion of the old listing.
4. *cache_old_mapping* (`call_graph.py:484`): blocks built from the mapping of an
   earlier content are stored under the current hash, and served for it later.
5. *auth_logout* (`authService.ts:340`): a refresh begun before a logout is said to
   write nothing; it compares the epoch once, before its awaited stores, and a
   logout that runs between them leaves the rotated refresh token in the storage.

Met while modelling, without a run (a property of each would fail):

- *Session.* A `refresh` that awaits the server's identity while a login happens
  consumes the new session's token under the old epoch and drops the answer
  (`authService.ts:310`); a refusal of the old session's token deletes the new session's
  secrets (`authService.ts:399`); a 5xx answer without a detail counts as a refusal,
  where the comment says 4xx (`authService.ts:397`).
- *Triage.* A cancel pressed while consent is asked finds nothing in the registry and
  the run goes on. A function may be left half annotated by SIGTERM or by a lock
  time-out (`auto_triage.py:489` says never). `reject-ai` and import keep the user's
  notes as they were listed, not as they are.
- *Artifacts.* `hubOpenDisasm` (`actions.ts:736`) does not look at the in-flight map, so a
  truncated listing under a rebuild is opened. The cached view of discovered functions
  carries no mapping signature.
- *Traces.* The stale check of `hub.ts:1486` precedes the awaited metadata: an older run
  may rewrite `output.json` after a newer one. A trace being opened while it is deleted
  is shown.
- *Chat.* The stored history, arriving after the user acted, replaces the conversations
  while a prompt is in flight (`outils.js:381`). A save before the history was read
  deletes every stored conversation (`chat_history.py:216`). The panel is free before
  the deferred answer is painted (`messages.js:517`): a switch in between puts the answer
  into another conversation, a new submission drops it and keeps a backup that a later
  failure restores into the wrong one. A stop within 100 ms of the end discards a full
  answer.
- *Pseudo-C.* With a decompiler forced, moving the cursor from f to g and back before
  g's answer leaves the loader (`messages.js:2694`: what is rendered equals what is
  selected, nothing is sent, g's answer is stale), which the comment at
  `messages.js:2450` says is cured. A pill shows its decompiler's last answer, for
  whichever function. In automatic mode each answer, worse ones too, replaces the one
  kept (`messages.js:2444`). A global answer is keyed by the function selected meanwhile
  (`messages.js:2427`), so that the global view stays pending. An answer in flight when
  notes change is cached after the caches were cleared. When the list of functions is
  filled again (notes or symbols arrive) while the global view is chosen by hand,
  `populateDecompileSelect` (`payload.js:88`) takes the empty value for no choice and
  selects the function under the cursor without asking for it: the panel shows the code
  of one function under the name of another.
- *Capture.* `max_trace_bytes` is lost when `trace_raw` and `trace_elf` rebuild the
  configuration. A loop outside the captured ranges never ends. After `__stack_chk_fail`
  was reached through an unmapped fetch, or in the run restarted at the interpreter, no
  crash is reported; a crash of the first run may be reported of the second. An invalid
  instruction in known code is called `control_hijack`.
- *Libc.* A call that cannot be simulated leaves memory partly written and input
  consumed, and is tried again at the fetch. `strncpy`'s padding is dropped when it runs
  off the mapping. At the end of the input `gets` returns its buffer and `scanf` 0.
  `strcpy` of more than 0x20000 bytes leaves no NUL. The standard input is given twice, to
  libc's calls and to the read system call (`syscalls.py:51`, `tracer.py:878`).
- *Frames.* `and rsp, -16` rounds the analysis's own depth, though rsp is 8 off at
  entry: `test_stack_frame.py:208` asserts 48 where the machine has 56. `mov rsp, rbp` is
  read as depth 0. On arm `mov sp, r7` is not read (`stack_frame.py:519`), and an argument
  reached from the stack pointer afterwards is listed as a variable. On arm64 an anchor set
  after an allocation of unknown size is a lower bound (`stack_frame.py:789`), and `str x,
  [sp, #-16]!` is classified 16 too low. `[rsp+8]` at two depths is one entry.
- *Types and decompilation.* Saving the source of a struct again deletes the bindings of
  the whole binary. The cache key leaves out the provider and the definitions, and its
  other parts are read after the payloads. A declared local command that is not installed
  keeps Docker from being tried; references or types that could not be read are cached as none
  (`decompile.py:1582`, `decompile.py:1645`); a non-zero exit discards Docker's code and keeps a local
  tool's; the loader drops four keys its docstring (`decompile.py:231`) names.
- *Plugins.* One that fails midway through `register` keeps the commands it has
  registered: if it fails only in the first of the two attachments, a feature that names
  it is answered by an earlier plugin with the same command, and no one compares the owner
  again (`runtime.py:881`). The inductive invariant showed it; *cache_quiet* now meets the
  case. `plugin_invoke` of the MCP server applies no licence. An earlier plugin that
  does not fit shadows a later one that does. A crash between removal and move
  (`install_plugin.py:135`) leaves no plugin. When the file of consents cannot be read, the
  next grant replaces it by its own consent alone (`consent.py:71`).
- *Assistant.* `McpStdioClient.request` ignores its timeout: a hung server blocks for ever.
  A line a tool prints shifts all answers, and every later call fails. When the stream
  breaks midway the part and the whole are both shown.
- *Tabs.* After another profile of a raw binary is chosen, an answer computed under the
  old one is taken as current, for the path is the same.

## 9. Plan

Done: every module of the table, the refinement of the patch history, and the theorems
listed in `PROJECT.json`. What could follow, most useful first:

1. `ContentCache`, a partial map from content to artifact, implemented by `DisasmCache`
   under `Quiet`.
2. Telemetry's bound on requests in flight.

*Only model-checked.* Liveness (`OpsFinish`, `LockReleased`, `CancelEnds`) is outside the
prover. The library's induction theorems take an operator as a parameter and cannot be
cited; where an induction over numbers was needed it was made by hand, from a least
counterexample (`LeastNumber`), and closures are stated as least sets rather than
computed. Not proved so far are the two parts of `TypesSound` about recursive
definitions, `LayoutsFit` and `ChainsFollow`, the bounds of `NoActiveDropped`,
`ToolsTypeOK` and `PartsTypeOK`.
The modules that are proved about write records of functions out where the prover, at this
version, misreads a nested `EXCEPT` or does not know `:>`.

## 10. What is not modelled

- Parsing, formatting and rendering: what is written to the terminal, the
  webview's layout, localisation.
- The analyses of the static package that are functions of the bytes (strings, symbols,
  entropy, gadgets, the audit pipeline of the dynamic side), and the emulator itself.
- In the cache: the schema rebuild on a version change, `purge_binary`, and the
  stack-frame table.
- In the chat: titles, renaming, generation settings, attachments, the limits of 24
  conversations and 40 messages, two windows on one workspace. In the pseudo-C panel:
  quality, provider, renamed functions, the limits of its caches, stack entries.
- The other static tabs: each asks once, and drops an answer for another binary.
- Telemetry, compilation, containers: see the notes of the components in `PROJECT.json`.
- Liveness and ENABLED are outside the prover; they are checked by TLC only.
