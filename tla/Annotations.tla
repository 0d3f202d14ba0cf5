----------------------------- MODULE Annotations -----------------------------
(***************************************************************************)
(* The store of notes on the addresses of a binary: annotation_db.py and   *)
(* the commands over it (annotations.py, project_format.py,                *)
(* canonical_import.py and the MCP tools).                                 *)
(*                                                                         *)
(* Every command is a process of its own.  It writes one note at a time:   *)
(* the binary is hashed, the write transaction of SQLite is awaited, the   *)
(* row is replaced or deleted and the transaction committed.  Those that   *)
(* review or import list the rows first and decide from the list.          *)
(*                                                                         *)
(* The text of a note is abstracted to who wrote it.  "typed" and          *)
(* "promoted" are both stored as 'user': the first came from a person, the *)
(* second from validate_ai.                                                *)
(***************************************************************************)
EXTENDS Naturals, FiniteSets

CONSTANTS
    Binaries,    \* paths
    Versions,    \* contents, told apart by their SHA-256
    Functions,   \* addresses
    Commands,    \* commands ever started
    Documents,   \* the slots each document to import has a note for
    NoVersion, NoWriter, NoBinary,
    Scopes       \* model bound: what there is at first, what is in play and how
                 \* much may be started

ASSUME VersionAssumption == NoVersion \notin Versions
ASSUME NoBinaryAssumption == NoBinary \notin Binaries
ASSUME NoWriterAssumption == NoWriter \notin Commands
ASSUME DocumentsAssumption == Documents \subseteq SUBSET (Functions \X {"rename", "comment"})
\* The kinds an AI writes.  Reviews and bookmarks go through the same writes.
Kinds == {"rename", "comment"}
Slots == Functions \X Kinds

Sources == {"none", "typed", "promoted", "ai", "import"}
UserOwned == {"typed", "promoted"}

Scope == [content : [Binaries -> Versions], notes : [Versions -> [Slots -> Sources]],
          binaries : SUBSET Binaries, functions : SUBSET Functions,
          command : Nat, rewrite : Nat, run : Nat, reload : Nat]

ASSUME ScopesAssumption == Scopes \subseteq Scope

VARIABLES
    content,  \* what each file holds
    scope,    \* what is left of the bound
    notes,    \* the rows of the store: who wrote each slot of each content
    writer,   \* the connection whose write transaction is open
    cmd       \* the commands

store == <<notes, writer>>
annVars == <<content, scope, notes, writer, cmd>>

\* at is the hash in hand, todo what is still to write, seen the content whose
\* rows were listed.  late is a ghost: what was typed under it since.
Command ==
    [op : {"idle", "annotate", "erase", "wipe", "reject", "validate", "import", "done"},
     bin : Binaries \cup {NoBinary}, at : Versions \cup {NoVersion},
     todo : SUBSET Slots, seen : Versions \cup {NoVersion}, late : SUBSET Slots]

NoCommand ==
    [op |-> "idle", bin |-> NoBinary, at |-> NoVersion, todo |-> {},
     seen |-> NoVersion, late |-> {}]

Over == [NoCommand EXCEPT !.op = "done"]

\* The commands that decide from the rows they listed.
Listing == {"reject", "validate", "import"}

AnnInit ==
    /\ scope \in Scopes
    /\ content = scope.content
    /\ notes = scope.notes
    /\ writer = NoWriter
    /\ cmd = [c \in Commands |-> NoCommand]

-----------------------------------------------------------------------------
(* What a write does, once the transaction is w's. *)

\* A statement waits for the transaction; it is given up after 5 seconds.
MayWrite(w) == writer \in {NoWriter, w}

Replace(v, slots, source) ==
    notes' = [notes EXCEPT ![v] =
                [s \in Slots |-> IF s \in slots THEN source ELSE @[s]]]

\* Mutant: whoever owns the slot.
SaveAiOver(w, v, s) ==
    /\ MayWrite(w)
    /\ writer' = NoWriter
    /\ Replace(v, {s}, "ai")

\* Mutant: the suggestion is not committed.
SaveAiOpen(w, v, s) ==
    /\ MayWrite(w)
    /\ writer' = w
    /\ IF notes[v][s] \in UserOwned THEN notes' = notes ELSE Replace(v, {s}, "ai")

\* save_ai_annotation: refused where the user owns the slot, and then it
\* returns with the transaction that INSERT OR IGNORE opened.
SaveAi(w, v, s) ==
    /\ MayWrite(w)
    /\ \/ /\ notes[v][s] \in UserOwned
          /\ writer' = w
          /\ notes' = notes
       \/ /\ notes[v][s] \notin UserOwned
          /\ writer' = NoWriter
          /\ Replace(v, {s}, "ai")

-----------------------------------------------------------------------------
Spend(sort) == scope[sort] > 0 /\ scope' = [scope EXCEPT ![sort] = @ - 1]

Begin(c, op, b, todo, seen) ==
    /\ cmd[c].op = "idle"
    /\ todo # {}
    /\ cmd' = [cmd EXCEPT ![c] = [op |-> op, bin |-> b, at |-> NoVersion,
                                  todo |-> todo, seen |-> seen, late |-> {}]]
    /\ Spend("command")
    /\ UNCHANGED <<content, notes, writer>>

\* annotate: a comment, a name or both, one after the other.
Annotate(c, b) ==
    \E f \in scope.functions, kinds \in SUBSET Kinds :
        Begin(c, "annotate", b, {f} \X kinds, NoVersion)

\* delete-annotation erases the comment and then the name.
Erase(c, b) == \E f \in scope.functions : Begin(c, "erase", b, {f} \X Kinds, NoVersion)

\* delete without a kind is one statement for the whole address.
Wipe(c, b) == \E f \in scope.functions : Begin(c, "wipe", b, {f} \X Kinds, NoVersion)

\* The rows as they are listed, on the whole binary or on one address.
Listed(b, sources) == {s \in Slots : notes[content[b]][s] \in sources}
Areas == {Functions} \cup {{f} : f \in scope.functions}

RejectAi(c, b) ==
    \E area \in Areas :
        Begin(c, "reject", b, Listed(b, {"ai"}) \cap (area \X Kinds), content[b])

ValidateAi(c, b) ==
    \E area \in Areas :
        Begin(c, "validate", b, Listed(b, {"ai"}) \cap (area \X Kinds), content[b])

\* An import drops the items that the list shows as somebody else's.
Import(c, b) ==
    \E items \in Documents :
        Begin(c, "import", b, items \cap Listed(b, {"none", "ai", "import"}), content[b])

\* Every write of the store starts with the hash of the file as it is now.
Hash(c) ==
    /\ cmd[c].op \notin {"idle", "done"}
    /\ cmd[c].at = NoVersion
    /\ cmd' = [cmd EXCEPT ![c].at = content[cmd[c].bin]]
    /\ UNCHANGED <<content, scope, notes, writer>>

\* The source each command leaves in the slots it writes.
Leaves(op) ==
    CASE op = "annotate" -> "typed"
      [] op = "validate" -> "promoted"
      [] op = "import"   -> "import"
      [] OTHER           -> "none"

\* What one statement covers.
Covered(c) ==
    IF cmd[c].op = "wipe" THEN {cmd[c].todo} ELSE {{s} : s \in cmd[c].todo}

\* A note typed where a review has listed: the review does not know it.
Typed(c, v, slots) ==
    [d \in Commands |->
        IF cmd[c].op = "annotate" /\ cmd[d].op \in Listing /\ cmd[d].seen = v
        THEN [cmd[d] EXCEPT !.late = @ \cup slots]
        ELSE cmd[d]]

Write(c) ==
    /\ cmd[c].at # NoVersion
    /\ MayWrite(c)
    /\ \E slots \in Covered(c) :
        LET rest == cmd[c].todo \ slots IN
        /\ Replace(cmd[c].at, slots, Leaves(cmd[c].op))
        /\ cmd' = [Typed(c, cmd[c].at, slots) EXCEPT
                     ![c] = IF rest = {} THEN Over
                            ELSE [@ EXCEPT !.todo = rest, !.at = NoVersion]]
    /\ writer' = NoWriter
    /\ UNCHANGED <<content, scope>>

\* "database is locked": the command ends with its writes half done.
Locked(c) ==
    /\ cmd[c].at # NoVersion
    /\ ~MayWrite(c)
    /\ cmd' = [cmd EXCEPT ![c] = Over]
    /\ UNCHANGED <<content, scope, notes, writer>>

CommandNext(c) ==
    \/ \E b \in scope.binaries :
        Annotate(c, b) \/ Erase(c, b) \/ Wipe(c, b) \/ RejectAi(c, b)
            \/ ValidateAi(c, b) \/ Import(c, b)
    \/ Hash(c) \/ Write(c) \/ Locked(c)

\* A patch, its revert or a rebuild.
Rewrite(b) ==
    /\ Spend("rewrite")
    /\ \E v \in Versions \ {content[b]} : content' = [content EXCEPT ![b] = v]
    /\ UNCHANGED <<notes, writer, cmd>>

AnnNext == (\E c \in Commands : CommandNext(c)) \/ (\E b \in scope.binaries : Rewrite(b))
=============================================================================
