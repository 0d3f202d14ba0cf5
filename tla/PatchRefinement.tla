--------------------------- MODULE PatchRefinement ---------------------------
(***************************************************************************)
(* PatchManager implements UndoHistory: the stored rows are the edits, the *)
(* addresses no torn or foreign write sits on are accounted for, and there *)
(* the content is the file between operations and, while one is under way, *)
(* what the stored rows show.  An operation takes place when it is saved.  *)
(***************************************************************************)
EXTENDS PatchManager

\* The edits of a stack of rows.
EditsOf(s) == [i \in DOMAIN s |-> [id |-> s[i].id, bytes |-> s[i].patched_bytes]]

AllIdle == \A p \in Proc : pc[p] = "idle"

\* The value the stored rows leave at address x.
Stored(x) == CHOOSE v \in Byte : UndoChain(db.patches, x, base[x], v)

Editor ==
    INSTANCE UndoHistory WITH
        Addresses <- Addr,
        Values <- Byte,
        Edits <- [id : Id, bytes : Bytes],
        start <- base,
        edits <- EditsOf(db.patches),
        undone <- EditsOf(db.redo_patches),
        content <- [x \in Addr \ (torn \cup lost) |-> IF AllIdle THEN file[x] ELSE Stored(x)]

(* Whatever dies between a write and its save and whoever else writes the  *)
(* file, what patch_manager.py leaves between two operations is what an    *)
(* editor with atomic operations would show: the rows' original_bytes,     *)
(* read from the file by each apply, are never needed to say what an undo, *)
(* a redo or an undo of all must restore.                                  *)
ImplementsEditor == Editor!HistorySpec
=============================================================================
