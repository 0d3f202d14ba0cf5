----------------------------- MODULE UndoHistory -----------------------------
(***************************************************************************)
(* What the patch history promises its user: an editor of one content      *)
(* whose operations happen at once.  An edit writes bytes at addresses; it *)
(* does not say what was there before.  Undoing edits shows what the ones  *)
(* that are left show over the starting content; edits that were undone    *)
(* can be made again, the last one undone first.                           *)
(*                                                                         *)
(* The editor may lose account of some addresses (somebody else wrote      *)
(* them, an operation was interrupted) and regain it by an undo or redo    *)
(* that writes them; `content' is defined where it accounts for the bytes. *)
(***************************************************************************)
EXTENDS Naturals, Sequences, SequencesExt

CONSTANTS
    Addresses,
    Values,         \* what an address may hold
    Edits           \* the edits a user may make, [id, bytes]

VARIABLES
    start,          \* the content before the first edit
    edits,          \* the edits applied, the last one on top
    undone,         \* the edits undone, the last one on top
    content         \* the bytes accounted for

historyVars == <<start, edits, undone, content>>

Touches(e, x) == x \in DOMAIN e.bytes

\* Under the edits of s, address x holds v.
Shows(s, x, v) ==
    /\ \A i \in DOMAIN s :
          Touches(s[i], x) /\ (\A k \in DOMAIN s : k > i => ~Touches(s[k], x)) => s[i].bytes[x] = v
    /\ (\A i \in DOMAIN s : ~Touches(s[i], x)) => v = start[x]

Shown(s, x) == CHOOSE v \in Values : Shows(s, x, v)

\* No edit above s[i] shares an address with it.
Free(s, i) ==
    \A k \in DOMAIN s : k > i => \A x \in Addresses : ~(Touches(s[k], x) /\ Touches(s[i], x))

HistoryInit ==
    /\ start \in [Addresses -> Values]
    /\ edits = <<>> /\ undone = <<>>
    /\ content = start

Apply ==
    /\ edits' # edits /\ undone' = <<>>
    /\ \E e \in Edits :
        /\ edits' = Append(edits, e)
        /\ content' = [x \in DOMAIN content |-> IF Touches(e, x) THEN e.bytes[x] ELSE content[x]]
    /\ UNCHANGED start

\* The content is what the edits left show, wherever it was accounted for and
\* where it is again.
ShowEdits(gained) ==
    content' = [x \in DOMAIN content \cup gained |-> Shown(edits', x)]

Undo ==
    \E i \in DOMAIN edits :
        /\ Free(edits, i)
        /\ edits' = RemoveAt(edits, i)
        /\ undone' = Append(undone, edits[i])
        /\ \E gained \in SUBSET DOMAIN edits[i].bytes : ShowEdits(gained)
        /\ UNCHANGED start

Redo ==
    \E j \in DOMAIN undone :
        /\ Free(undone, j)
        /\ edits' = Append(edits, undone[j])
        /\ undone' = RemoveAt(undone, j)
        /\ \E gained \in SUBSET DOMAIN undone[j].bytes : ShowEdits(gained)
        /\ UNCHANGED start

UndoAll ==
    /\ edits' = <<>>
    /\ undone' = undone \o Reverse(edits)
    /\ \E gained \in SUBSET Addresses : content' = [x \in DOMAIN content \cup gained |-> start[x]]
    /\ UNCHANGED start

\* The history is deleted: the content as it is becomes the starting one.
ForgetAll ==
    /\ edits' = <<>> /\ undone' = <<>>
    /\ start' \in [Addresses -> Values]
    /\ \A x \in DOMAIN content : start'[x] = content[x]
    /\ content' = start'

\* Without a history a new content starts from there.
Renew ==
    /\ edits = <<>> /\ undone = <<>>
    /\ start' \in [Addresses -> Values]
    /\ content' = start'
    /\ UNCHANGED <<edits, undone>>

\* With one, some addresses are no more accounted for; the others are as they were.
LoseAccount ==
    /\ \E kept \in SUBSET DOMAIN content : content' = [x \in kept |-> content[x]]
    /\ UNCHANGED <<start, edits, undone>>

HistoryNext == Apply \/ Undo \/ Redo \/ UndoAll \/ ForgetAll \/ Renew \/ LoseAccount

HistorySpec == HistoryInit /\ [][HistoryNext]_historyVars
=============================================================================
