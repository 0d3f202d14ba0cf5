---------------------------- MODULE PatchManager ----------------------------
(***************************************************************************)
(* The persistent patch history of one binary:                             *)
(* backends/static/patch/{patch_manager,patch_db,binary_patch}.py.         *)
(*                                                                         *)
(* Every operation is a short-lived Python process (the extension host     *)
(* spawns one per message, the MCP server one per tool call): it loads the *)
(* history from SQLite, reads and writes the binary in place, then         *)
(* replaces the stored history in one transaction.  The three effects are  *)
(* separate steps here, so that processes interleave and die in between.   *)
(*                                                                         *)
(* A run of bytes written at an offset is a function from the addresses it *)
(* covers; offset and length are its domain.                               *)
(***************************************************************************)
EXTENDS Naturals, Sequences, SequencesExt

CONSTANTS
    Proc,                    \* processes that may run an operation
    FileSize,                \* the binary's size: patches never change it
    Byte,                    \* byte values
    MAX_PATCHES_PER_BINARY,  \* patch_db.py:11
    MAX_PATCH_BYTES,         \* patch_db.py:12
    MaxApplies,              \* model bound: applies ever started
    Faults                   \* what the environment may do, see FaultKinds

(***************************************************************************)
(* "concurrent": an operation starts while another runs.  "crash": a       *)
(* process dies between two steps (killed, SQLite busy, disk full).        *)
(* "foreign": the file is removed, rebuilt, or written by binary_patch.py. *)
(* "lax": hex digits int(b, 16) reads and bytes.fromhex refuses.           *)
(* "anyorder": reverts and redos that jump over an overlapping patch.      *)
(***************************************************************************)
FaultKinds == {"concurrent", "crash", "foreign", "lax", "anyorder"}

ASSUME FileSizeAssumption == FileSize \in Nat \ {0}
ASSUME ByteAssumption == Byte # {}
ASSUME LimitAssumption ==
    MAX_PATCHES_PER_BINARY \in Nat /\ MAX_PATCH_BYTES \in Nat
ASSUME MaxAppliesAssumption == MaxApplies \in Nat
ASSUME FaultsAssumption == Faults \subseteq FaultKinds

Addr == 0 .. FileSize - 1

\* The address ranges a patch may cover: in the file, at most MAX_PATCH_BYTES.
Span == {S \in {a .. b : a \in Addr, b \in Addr} :
            /\ S # {}
            /\ \E a, b \in Addr : S = a .. b /\ b < a + MAX_PATCH_BYTES}

Bytes == UNION {[S -> Byte] : S \in Span}

\* uuid4 identifiers, drawn from a counter.
Id == 1 .. MaxApplies

Entry ==
    {e \in [id : Id, original_bytes : Bytes, patched_bytes : Bytes] :
        DOMAIN e.original_bytes = DOMAIN e.patched_bytes}

History == [patches : Seq(Entry), redo_patches : Seq(Entry)]

NoHistory == [patches |-> <<>>, redo_patches |-> <<>>]

Covers(e) == DOMAIN e.patched_bytes

\* seek(offset); write(raw)
Overlay(content, raw) ==
    [x \in Addr |-> IF x \in DOMAIN raw THEN raw[x] ELSE content[x]]

-----------------------------------------------------------------------------
VARIABLES
    file,     \* the binary's content
    present,  \* the binary exists on disk
    db,       \* the committed history
    pc,       \* where each process is: idle, read, write or save
    job,      \* the operation each process runs
    data,     \* each process's copy of the history, to be saved
    nextId,   \* the next fresh identifier
    (* Ghosts: they record, and guard nothing. *)
    base,     \* content before the first patch of the current history
    dirty,    \* addresses each process has written since it loaded
    torn,     \* addresses where an unsaved or foreign write sits
    lost      \* addresses where an apply recorded such a write as original

vars == <<file, present, db, pc, job, data, nextId, base, dirty, torn, lost>>

Op == {"none", "apply", "revert", "redo", "revert_all"}

\* `at` is the index of the target entry, or the identifier of an apply's new
\* one (uuid4 draws it after the write, but nobody sees it before the save);
\* `new` and `orig` are an apply's bytes; `strict` tells whether bytes.fromhex
\* accepts the digits that int(b, 16) accepted.
Job == [op : Op, at : Nat, new : Bytes \cup {<<>>}, orig : Bytes \cup {<<>>},
        strict : BOOLEAN]

NoJob == [op |-> "none", at |-> 0, new |-> <<>>, orig |-> <<>>, strict |-> TRUE]

TypeOK ==
    /\ file \in [Addr -> Byte]
    /\ present \in BOOLEAN
    /\ db \in History
    /\ pc \in [Proc -> {"idle", "read", "write", "save"}]
    /\ job \in [Proc -> Job]
    /\ data \in [Proc -> History]
    /\ nextId \in Nat \ {0}
    /\ base \in [Addr -> Byte]
    /\ dirty \in [Proc -> SUBSET Addr]
    /\ torn \in SUBSET Addr
    /\ lost \in SUBSET Addr

Init ==
    /\ file \in [Addr -> Byte]
    /\ present = TRUE
    /\ db = NoHistory
    /\ pc = [p \in Proc |-> "idle"]
    /\ job = [p \in Proc |-> NoJob]
    /\ data = [p \in Proc |-> NoHistory]
    /\ nextId = 1
    /\ base = file
    /\ dirty = [p \in Proc |-> {}]
    /\ torn = {}
    /\ lost = {}

-----------------------------------------------------------------------------
(* What an operation makes of the loaded history. *)

(* Mutants, here and below: what a plausible slip would make of the        *)
(* definition that follows.  AppliedKeepingRedo: the redo stack survives.  *)
AppliedKeepingRedo(h, e) == [h EXCEPT !.patches = Append(h.patches, e)]

\* data["patches"].append(entry); data["redo_patches"] = []
Applied(h, e) == [patches |-> Append(h.patches, e), redo_patches |-> <<>>]

\* Mutant: the reverted entry is dropped.
RevertedForgetting(h, i) == [h EXCEPT !.patches = RemoveAt(h.patches, i)]

\* Drop the target from patches, append it to redo_patches.
Reverted(h, i) ==
    [patches |-> RemoveAt(h.patches, i),
     redo_patches |-> Append(h.redo_patches, h.patches[i])]

\* Mutant: the redone entry also stays in redo_patches.
RedoneKeeping(h, j) == [h EXCEPT !.patches = Append(@, h.redo_patches[j])]

\* Drop the target from redo_patches, append it to patches.
Redone(h, j) ==
    [patches |-> Append(h.patches, h.redo_patches[j]),
     redo_patches |-> RemoveAt(h.redo_patches, j)]

Size(h) == Len(h.patches) + Len(h.redo_patches)

\* No entry stacked later than s[i] covers one of its addresses.
OnTop(s, i) ==
    \A k \in DOMAIN s : k > i => Covers(s[k]) \cap Covers(s[i]) = {}

\* The order a user keeps to, unless "anyorder" is allowed.
MayPop(s, i) == "anyorder" \in Faults \/ OnTop(s, i)

Quiet == "concurrent" \in Faults \/ \A q \in Proc : pc[q] = "idle"

-----------------------------------------------------------------------------
(* One operation: _load and its early returns, the file access, _save. *)

\* Load the history and keep the request; a refused request changes nothing.
Load(p, op, at, new, strict, next) ==
    /\ pc[p] = "idle"
    /\ Quiet
    /\ present
    /\ job' = [job EXCEPT ![p] = [op |-> op, at |-> at, new |-> new,
                                  orig |-> <<>>, strict |-> strict]]
    /\ data' = [data EXCEPT ![p] = db]
    /\ pc' = [pc EXCEPT ![p] = next]
    /\ nextId' = IF op = "apply" THEN nextId + 1 ELSE nextId
    /\ UNCHANGED <<file, present, db, base, dirty, torn, lost>>

LoadApply(p) ==
    \E new \in Bytes, strict \in IF "lax" \in Faults THEN BOOLEAN ELSE {TRUE} :
        /\ nextId <= MaxApplies
        /\ Size(db) < MAX_PATCHES_PER_BINARY
        /\ Load(p, "apply", nextId, new, strict, "read")

LoadRevert(p) ==
    \E i \in DOMAIN db.patches :
        /\ MayPop(db.patches, i)
        /\ Load(p, "revert", i, <<>>, TRUE, "write")

\* Without an id the target is redo_entries[-1]: the choice of the last j.
LoadRedo(p) ==
    \E j \in DOMAIN db.redo_patches :
        /\ MayPop(db.redo_patches, j)
        /\ Load(p, "redo", j, <<>>, TRUE, "write")

LoadRevertAll(p) ==
    Load(p, "revert_all", 0, <<>>, TRUE,
         IF db.patches = <<>> THEN "save" ELSE "write")

\* Mutant: one byte too few is read.
ReadOriginalShort(p) ==
    /\ pc[p] = "read"
    /\ present
    /\ job' = [job EXCEPT ![p].orig =
                  [x \in {y \in DOMAIN job[p].new : y + 1 \in DOMAIN job[p].new}
                      |-> file[x]]]
    /\ pc' = [pc EXCEPT ![p] = "write"]
    /\ UNCHANGED <<file, present, db, data, nextId, base, dirty, torn, lost>>

\* _replace_bytes, first half: f.read(len(raw)).
ReadOriginal(p) ==
    /\ pc[p] = "read"
    /\ present
    /\ job' = [job EXCEPT ![p].orig = [x \in DOMAIN job[p].new |-> file[x]]]
    /\ pc' = [pc EXCEPT ![p] = "write"]
    /\ UNCHANGED <<file, present, db, data, nextId, base, dirty, torn, lost>>

\* Write raw to the file and move the local history on to h.
WriteBytes(p, raw, h, next) ==
    /\ pc[p] = "write"
    /\ file' = Overlay(file, raw)
    /\ data' = [data EXCEPT ![p] = h]
    /\ pc' = [pc EXCEPT ![p] = next]
    /\ dirty' = [dirty EXCEPT ![p] = @ \cup DOMAIN raw]
    /\ UNCHANGED <<present, db, job, nextId, base, torn, lost>>

\* _replace_bytes, second half, on the handle that ReadOriginal opened, even if
\* the name has gone since; and the new entry.
ApplyWrite(p) ==
    /\ job[p].op = "apply"
    /\ WriteBytes(p, job[p].new,
           Applied(data[p], [id |-> job[p].at,
                             original_bytes |-> job[p].orig,
                             patched_bytes |-> job[p].new]), "save")

RevertWrite(p) ==
    /\ job[p].op = "revert"
    /\ present
    /\ WriteBytes(p, data[p].patches[job[p].at].original_bytes,
                  Reverted(data[p], job[p].at), "save")

RedoWrite(p) ==
    /\ job[p].op = "redo"
    /\ present
    /\ WriteBytes(p, data[p].redo_patches[job[p].at].patched_bytes,
                  Redone(data[p], job[p].at), "save")

\* Mutant: the loop runs over data["patches"], oldest first.
RevertAllOldestFirst(p) ==
    /\ job[p].op = "revert_all"
    /\ present
    /\ WriteBytes(p, data[p].patches[1].original_bytes, Reverted(data[p], 1),
                  IF Len(data[p].patches) = 1 THEN "save" ELSE "write")

\* Mutant: a turn of the loop leaves its entry in patches.
RevertAllWithoutPop(p) ==
    LET last == Len(data[p].patches) IN
    /\ job[p].op = "revert_all"
    /\ present
    /\ WriteBytes(p, data[p].patches[last].original_bytes, data[p],
                  IF last = 1 THEN "save" ELSE "write")

\* One turn of the loop over reversed(data["patches"]).
RevertAllWrite(p) ==
    LET last == Len(data[p].patches) IN
    /\ job[p].op = "revert_all"
    /\ present
    /\ WriteBytes(p, data[p].patches[last].original_bytes,
                  Reverted(data[p], last), IF last = 1 THEN "save" ELSE "write")

\* The checks of PatchDb.save: its limit and PRIMARY KEY (binary_path, patch_id).
DistinctIds(s) == \A i, j \in DOMAIN s : s[i].id = s[j].id => i = j

NoSharedId(s, t) == \A i \in DOMAIN s, j \in DOMAIN t : s[i].id # t[j].id

Storable(h) ==
    /\ Size(h) <= MAX_PATCHES_PER_BINARY
    /\ DistinctIds(h.patches)
    /\ DistinctIds(h.redo_patches)
    /\ NoSharedId(h.patches, h.redo_patches)

Exit(p) ==
    /\ pc' = [pc EXCEPT ![p] = "idle"]
    /\ job' = [job EXCEPT ![p] = NoJob]
    /\ data' = [data EXCEPT ![p] = NoHistory]
    /\ dirty' = [dirty EXCEPT ![p] = {}]
    /\ UNCHANGED <<file, present, nextId, base>>

\* Bytes a torn write left, now recorded as the original of an apply.
LostBy(p) == IF job[p].op = "apply" THEN torn \cap dirty[p] ELSE {}

\* The transaction of PatchDb.save: all rows of the binary are replaced.
Save(p) ==
    /\ pc[p] = "save"
    /\ Storable(data[p])
    /\ job[p].strict
    /\ db' = data[p]
    /\ torn' = torn \ dirty[p]
    /\ lost' = lost \cup LostBy(p)
    /\ Exit(p)

\* The process ends between its write and its save: the history is as before.
Abort(p) ==
    /\ torn' = torn \cup dirty[p]
    /\ Exit(p)
    /\ UNCHANGED <<db, lost>>

\* PatchDb.save raises ValueError or IntegrityError: the transaction rolls back.
SaveRaises(p) ==
    /\ pc[p] = "save"
    /\ ~(Storable(data[p]) /\ job[p].strict)
    /\ Abort(p)

\* open(binary_path, "r+b") on a file removed since the isfile check.
OpenRaises(p) ==
    /\ pc[p] = "read" \/ (pc[p] = "write" /\ job[p].op # "apply")
    /\ ~present
    /\ Abort(p)

Crash(p) ==
    /\ "crash" \in Faults
    /\ pc[p] # "idle"
    /\ Abort(p)

-----------------------------------------------------------------------------
(* Whole-history operations, each one transaction, and the file's owner. *)

\* The rows of the binary go; what is on disk becomes the starting point.
Forget ==
    /\ Quiet
    /\ db # NoHistory
    /\ db' = NoHistory
    /\ base' = file
    /\ torn' = {}
    /\ lost' = {}
    /\ UNCHANGED <<file, present, pc, job, data, nextId, dirty>>

DeleteHistory == Forget

PurgeMissing == ~present /\ Forget

\* Content that no patch operation wrote.
ForeignContent(content) ==
    /\ "foreign" \in Faults
    /\ Quiet
    /\ file' = content
    /\ IF db = NoHistory
       THEN base' = content /\ torn' = {} /\ lost' = {}
       ELSE /\ torn' = torn \cup {x \in Addr : content[x] # file[x]}
            /\ UNCHANGED <<base, lost>>
    /\ UNCHANGED <<db, pc, job, data, nextId, dirty>>

\* binary_patch.patch_bytes: the same in-place write, with no history.
PatchBytes ==
    /\ present
    /\ \E raw \in Bytes : ForeignContent(Overlay(file, raw))
    /\ UNCHANGED present

\* The user deletes the binary, and compiles it again to the same path.
RemoveFile ==
    /\ "foreign" \in Faults
    /\ present
    /\ present' = FALSE
    /\ UNCHANGED <<file, db, pc, job, data, nextId, base, dirty, torn, lost>>

(* The new binary has the size of the old one.  Left out: a shorter one,   *)
(* past whose end a revert or redo of the kept history would write (it     *)
(* seeks to the stored offset without a look at the size), and a longer.   *)
RebuildFile ==
    /\ ~present
    /\ present' = TRUE
    /\ \E content \in [Addr -> Byte] : ForeignContent(content)

-----------------------------------------------------------------------------
Step(p) ==
    \/ ReadOriginal(p)
    \/ ApplyWrite(p)
    \/ RevertWrite(p)
    \/ RedoWrite(p)
    \/ RevertAllWrite(p)
    \/ Save(p)
    \/ SaveRaises(p)
    \/ OpenRaises(p)

Next ==
    \/ \E p \in Proc :
        \/ LoadApply(p)
        \/ LoadRevert(p)
        \/ LoadRedo(p)
        \/ LoadRevertAll(p)
        \/ Step(p)
        \/ Crash(p)
    \/ DeleteHistory
    \/ PurgeMissing
    \/ PatchBytes
    \/ RemoveFile
    \/ RebuildFile

Spec == Init /\ [][Next]_vars

\* A started process is scheduled until it exits; nothing else is owed.
FairSpec == Spec /\ \A p \in Proc : WF_vars(Step(p))

-----------------------------------------------------------------------------
(* Properties. *)

(* The histories as a chain of edits of address x.  Adjacent(s, i, j, x):  *)
(* entries i < j of s cover x, and none between them does.                 *)
Adjacent(s, i, j, x) ==
    /\ i < j
    /\ x \in Covers(s[i]) /\ x \in Covers(s[j])
    /\ \A k \in DOMAIN s : i < k /\ k < j => x \notin Covers(s[k])

Lowest(s, i, x) ==
    x \in Covers(s[i]) /\ \A k \in DOMAIN s : k < i => x \notin Covers(s[k])

Topmost(s, i, x) ==
    x \in Covers(s[i]) /\ \A k \in DOMAIN s : k > i => x \notin Covers(s[k])

\* Undoing the active entries from the newest down leads from v to b at x.
UndoChain(s, x, b, v) ==
    /\ \A i, j \in DOMAIN s :
            Adjacent(s, i, j, x) => s[j].original_bytes[x] = s[i].patched_bytes[x]
    /\ \A i \in DOMAIN s : Lowest(s, i, x) => s[i].original_bytes[x] = b
    /\ \A i \in DOMAIN s : Topmost(s, i, x) => s[i].patched_bytes[x] = v
    /\ (\A i \in DOMAIN s : x \notin Covers(s[i])) => v = b

\* Redoing the entries from the last one down starts at v.
RedoChain(s, x, v) ==
    /\ \A i, j \in DOMAIN s :
            Adjacent(s, i, j, x) => s[i].original_bytes[x] = s[j].patched_bytes[x]
    /\ \A i \in DOMAIN s : Topmost(s, i, x) => s[i].original_bytes[x] = v

\* History h explains value v at address x.
Explains(h, x, v) ==
    UndoChain(h.patches, x, base[x], v) /\ RedoChain(h.redo_patches, x, v)

\* h accounts for every address outside `gone`, and for the file's bytes
\* outside `stale`.
Accounts(h, stale, gone) ==
    \A x \in Addr \ gone :
        \E v \in Byte : Explains(h, x, v) /\ (x \notin stale => file[x] = v)

(* Between operations the stored history explains every byte of the file   *)
(* but those a dead process or a foreign write left: undo leads back to    *)
(* the original content and redo forward again.  A later revert or redo    *)
(* over a torn byte heals it; only an apply over one makes it permanent.   *)
Coherent ==
    (\A p \in Proc : pc[p] = "idle") => Accounts(db, torn, lost)

(* Once nothing is applied any more, every untorn byte is the original     *)
(* one (test_revert_all), whatever was applied, reverted, redone or        *)
(* interrupted on the way.                                                 *)
UndoneIsOriginal ==
    (db.patches = <<>> /\ \A p \in Proc : pc[p] = "idle")
        => \A x \in Addr \ (torn \cup lost) : file[x] = base[x]

(* The limit and the primary key PatchDb.save enforces are never what      *)
(* stops an operation after it has written the file.                       *)
SaveAccepted ==
    \A p \in Proc : pc[p] = "save" => Storable(data[p])

ActiveIds(h) == {h.patches[i].id : i \in DOMAIN h.patches}
RedoIds(h) == {h.redo_patches[i].id : i \in DOMAIN h.redo_patches}

(* No operation but deleting the history makes the store forget a patch    *)
(* that is applied: it stays active or moves to the redo stack.            *)
NoActiveDropped ==
    [][db' # NoHistory => ActiveIds(db) \subseteq ActiveIds(db') \cup RedoIds(db')]_vars

(* Between operations, a byte that differs from the original belongs to an *)
(* active patch, so that it can be undone (apply_patch: "recording         *)
(* original bytes for undo").                                              *)
EveryEditUndoable ==
    (\A p \in Proc : pc[p] = "idle") =>
        \A x \in Addr : file[x] # base[x] =>
            \E i \in DOMAIN db.patches : x \in Covers(db.patches[i])

(* Every operation started comes to an end: the loop of revert_all stops,  *)
(* and no step waits on another process.                                   *)
OpsFinish == \A p \in Proc : pc[p] # "idle" ~> pc[p] = "idle"
=============================================================================
