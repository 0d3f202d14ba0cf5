----------------------------- MODULE DisasmCache -----------------------------
(***************************************************************************)
(* The analysis cache of one binary (`.pfdb`): backends/static/cache/      *)
(* cache.py and the processes that fill it: analysis_index.py,             *)
(* function_radar.py, import_xrefs.py, call_graph.py and the command line  *)
(* of disasm.py.  Each runs in its own process on its own SQLite           *)
(* connection, while the patch manager or a compiler rewrites the binary.  *)
(*                                                                         *)
(* An artifact is represented by the set of contents it was computed from: *)
(* the listing comes from one reading of the file, functions and blocks    *)
(* from a listing and another reading.                                     *)
(***************************************************************************)
EXTENDS Naturals, FiniteSets

CONSTANTS
    Proc,      \* processes that may run an operation
    Content,   \* what the binary may contain; a hash is as good as a content
    Symbolic,  \* contents whose symbol table names functions
    Batches,   \* batches of rows a listing takes
    IdPool,    \* binary.id values; the least one not remembered is drawn
    NoProc, NoContent,
    Faults     \* what the environment may do, see FaultKinds

(***************************************************************************)
(* "overlap": the binary changes while an operation runs.  "oldmapping":   *)
(* a call graph is asked for with the mapping file of an earlier content.  *)
(* "crash": a process is killed or raises between two steps.               *)
(***************************************************************************)
FaultKinds == {"overlap", "oldmapping", "crash"}

ASSUME ContentAssumption == Content # {} /\ NoContent \notin Content
ASSUME SymbolicAssumption == Symbolic \subseteq Content
ASSUME BatchesAssumption == Batches \in Nat \ {0}
ASSUME IdAssumption == IdPool \subseteq Nat \ {0}
ASSUME ProcAssumption == NoProc \notin Proc
ASSUME CacheFaultsAssumption == Faults \subseteq FaultKinds

\* The listing, what is discovered in it, and what is built on it (basic
\* blocks; symbols, imports, strings and xrefs are kept the same way).
Table == {"disasm_lines", "functions", "basic_blocks"}

\* n counts the batches inserted; a derived artifact is one batch of its own.
Artifact == [from : SUBSET Content, n : 0 .. Batches]

None == [from |-> {}, n |-> 0]

Whole(contents) == IF contents = {} THEN None ELSE [from |-> contents, n |-> Batches]

NoTables == [t \in Table |-> None]

\* The rows of one binary: its row of `binary` (id 0: absent), and the tables.
Store == [id : IdPool \cup {0}, hash : Content \cup {NoContent},
          tables : [Table -> Artifact]]

NoRow == [id |-> 0, hash |-> NoContent, tables |-> NoTables]

-----------------------------------------------------------------------------
VARIABLES
    content,  \* the binary's content
    mapping,  \* content of which the mapping file beside the listing speaks
    db,       \* the committed rows
    holder,   \* the process whose connection has an open write transaction
    tx,       \* the rows as that transaction sees them
    pc, ctx   \* where each process is, and its local variables

vars == <<content, mapping, db, holder, tx, pc, ctx>>

\* "index" builds what is missing and "reindex" everything (--force); "lines"
\* wants the listing alone; "disasm" may use it, "rewrite" may not
\* (--cache-write-only).
Op == {"none", "index", "reindex", "lines", "call_graph", "disasm", "rewrite"}

\* before (a ghost) is the committed listing when a disassembly began.
Context ==
    [op : Op, table : Table, hash : Content \cup {NoContent},
     id : IdPool \cup {0}, lines : SUBSET Content, work : SUBSET Content,
     before : Artifact]

NoContext ==
    [op |-> "none", table |-> "disasm_lines", hash |-> NoContent, id |-> 0,
     lines |-> {}, work |-> {}, before |-> None]

Pc == {"idle", "get", "select", "rows", "compute", "ensure", "lookup", "insert",
       "begin", "replace", "read", "context", "stream", "discover", "outputs",
       "commit", "hit"}

TypeOK ==
    /\ content \in Content
    /\ mapping \in Content \cup {NoContent}
    /\ db \in Store
    /\ holder \in Proc \cup {NoProc}
    /\ tx \in Store
    /\ pc \in [Proc -> Pc]
    /\ ctx \in [Proc -> Context]

Init ==
    /\ content \in Content
    /\ mapping = NoContent
    /\ db = NoRow
    /\ holder = NoProc
    /\ tx = NoRow
    /\ pc = [p \in Proc |-> "idle"]
    /\ ctx = [p \in Proc |-> NoContext]

-----------------------------------------------------------------------------
(* SQLite: one writer at a time; others see the last commit. *)

MayWrite(p) == holder \in {p, NoProc}

\* What p's connection reads.
View(p) == IF holder = p THEN tx ELSE db

Commit(store) == db' = store /\ holder' = NoProc /\ tx' = NoRow

\* The connection closes: what it did not commit is gone.
Release(p) ==
    IF holder = p THEN holder' = NoProc /\ tx' = NoRow
                  ELSE UNCHANGED <<holder, tx>>

Exit(p) ==
    /\ pc' = [pc EXCEPT ![p] = "idle"]
    /\ ctx' = [ctx EXCEPT ![p] = NoContext]

\* Mutant (here and below, a plausible slip in the definition that follows):
\* the connection stays open.
AbortKeepingLock(p) == Exit(p) /\ UNCHANGED <<content, mapping, db, holder, tx>>

Abort(p) == Exit(p) /\ Release(p) /\ UNCHANGED <<content, mapping, db>>

\* p goes on at l with locals c.
Goto(p, l, c) ==
    /\ pc' = [pc EXCEPT ![p] = l]
    /\ ctx' = [ctx EXCEPT ![p] = c]

Disassembles(p) == ctx[p].op \in {"disasm", "rewrite"}

\* discovered_functions_sink: its exceptions are swallowed.
InSink(p) == Disassembles(p) /\ ctx[p].table = "functions"

-----------------------------------------------------------------------------
(* Where an operation starts, and where it goes once a table is settled. *)

Start(p) ==
    /\ pc[p] = "idle"
    /\ \E op \in Op \ {"none", "call_graph"} :
          Goto(p, CASE op = "rewrite" -> "ensure"
                    [] op = "reindex" -> "compute"
                    [] OTHER          -> "get",
               [NoContext EXCEPT !.op = op])
    /\ UNCHANGED <<content, mapping, db, holder, tx>>

\* call_graph.py --mapping: the lines are those of the mapping file.
StartCallGraph(p) ==
    /\ pc[p] = "idle"
    /\ mapping # NoContent
    /\ "oldmapping" \in Faults \/ mapping = content
    /\ Goto(p, "get", [NoContext EXCEPT !.op = "call_graph",
                                        !.table = "basic_blocks",
                                        !.lines = {mapping}])
    /\ UNCHANGED <<content, mapping, db, holder, tx>>

\* The table built after ctx[p].table, none for all but the indexers.
NextTable(p) ==
    {t \in Table :
        /\ ctx[p].op \in {"index", "reindex"}
        /\ <<ctx[p].table, t>> \in {<<"disasm_lines", "functions">>,
                                   <<"functions", "basic_blocks">>}}

\* The table is settled, with the listing `lines` in hand.
Settled(p, lines) ==
    \/ InSink(p) /\ Goto(p, "outputs", [ctx[p] EXCEPT !.work = {}])
    \/ /\ ~InSink(p)
       /\ \E t \in NextTable(p) :
             Goto(p, IF ctx[p].op = "reindex" THEN "compute" ELSE "get",
                  [NoContext EXCEPT !.op = ctx[p].op, !.table = t, !.lines = lines])
    \/ ~InSink(p) /\ NextTable(p) = {} /\ Exit(p)

-----------------------------------------------------------------------------
(* get_disasm, get_functions, get_cfg: _get_valid_binary_row and a SELECT. *)

\* compute_sha256(binary_path)
Get(p) ==
    /\ pc[p] = "get"
    /\ Goto(p, "select", [ctx[p] EXCEPT !.hash = content])
    /\ UNCHANGED <<content, mapping, db, holder, tx>>

Missed(p) ==
    Goto(p, IF ctx[p].op = "disasm" THEN "ensure" ELSE "compute",
         [ctx[p] EXCEPT !.hash = NoContent, !.id = 0])

\* Mutant: the stored hash is not compared.
SelectAnyHash(p) ==
    /\ pc[p] = "select"
    /\ IF db.id = 0 THEN Missed(p)
                    ELSE Goto(p, "rows", [ctx[p] EXCEPT !.id = db.id])
    /\ UNCHANGED <<content, mapping, db, holder, tx>>

\* The row of the path; one with another hash is deleted on the way.
Select(p) ==
    /\ pc[p] = "select"
    /\ \/ /\ db.id = 0
          /\ Missed(p)
          /\ UNCHANGED <<db, holder, tx>>
       \/ /\ db.id # 0
          /\ db.hash = ctx[p].hash
          /\ Goto(p, "rows", [ctx[p] EXCEPT !.id = db.id])
          /\ UNCHANGED <<db, holder, tx>>
       \/ /\ db.id # 0
          /\ db.hash # ctx[p].hash
          /\ MayWrite(p)
          /\ Missed(p)
          /\ Commit(NoRow)
    /\ UNCHANGED <<content, mapping>>

\* No rows is a miss, whether none were saved or none were found.
Rows(p) ==
    LET found == db.id = ctx[p].id /\ db.tables[ctx[p].table] # None
        from  == db.tables[ctx[p].table].from
        lines == IF ctx[p].table = "disasm_lines" THEN from ELSE ctx[p].lines
    IN
    /\ pc[p] = "rows"
    /\ IF ~found THEN Missed(p)
       ELSE IF ctx[p].op = "disasm"
            THEN Goto(p, "hit", [ctx[p] EXCEPT !.lines = from])
            ELSE Settled(p, lines)
    /\ UNCHANGED <<content, mapping, db, holder, tx>>

\* disassemble_with_capstone, discover_functions, build_cfg: read the file.
Compute(p) ==
    /\ pc[p] = "compute"
    /\ \/ /\ ctx[p].table = "disasm_lines"
          /\ Goto(p, "ensure", [ctx[p] EXCEPT !.lines = {content},
                                              !.work = {content}])
       \/ /\ ctx[p].table # "disasm_lines"
          /\ \E work \in {{}, ctx[p].lines \cup {content}} :
                Goto(p, "ensure", [ctx[p] EXCEPT !.work = work])
    /\ UNCHANGED <<content, mapping, db, holder, tx>>

-----------------------------------------------------------------------------
(* save_disasm, save_functions, save_cfg, begin_disasm_replace. *)

\* _ensure_binary: compute_sha256(binary_path), whatever was computed before.
Ensure(p) ==
    /\ pc[p] = "ensure"
    /\ Goto(p, "lookup", [ctx[p] EXCEPT !.hash = content])
    /\ UNCHANGED <<content, mapping, db, holder, tx>>

\* The caller that wants the row: a disassembly that starts, or a save.
Wanted(p) == IF Disassembles(p) /\ ctx[p].lines = {} THEN "begin" ELSE "replace"

\* Mutant: a row of the path is good whatever its hash.
LookupAnyHash(p) ==
    /\ pc[p] = "lookup"
    /\ IF View(p).id # 0 THEN Goto(p, Wanted(p), [ctx[p] EXCEPT !.id = View(p).id])
                         ELSE Goto(p, "insert", ctx[p])
    /\ UNCHANGED <<content, mapping, db, holder, tx>>

Lookup(p) ==
    LET valid == View(p).id # 0 /\ View(p).hash = ctx[p].hash IN
    /\ pc[p] = "lookup"
    /\ IF valid THEN Goto(p, Wanted(p), [ctx[p] EXCEPT !.id = View(p).id])
                ELSE Goto(p, "insert", ctx[p])
    /\ UNCHANGED <<content, mapping, db, holder, tx>>

\* AUTOINCREMENT: an id is drawn once.  One that nobody remembers will do.
Remembered == {db.id, tx.id} \cup {ctx[q].id : q \in Proc}

\* DELETE FROM binary, INSERT INTO binary, commit; the tables cascade.
Insert(p) ==
    /\ pc[p] = "insert"
    /\ MayWrite(p)
    /\ \E id \in IdPool \ Remembered :
        /\ \A i \in IdPool \ Remembered : id <= i
        /\ Commit([NoRow EXCEPT !.id = id, !.hash = ctx[p].hash])
        /\ Goto(p, Wanted(p), [ctx[p] EXCEPT !.id = id])
    /\ UNCHANGED <<content, mapping>>

\* The rest of a save: DELETE, INSERT and commit.  The foreign key refuses
\* rows for a row of `binary` that was replaced since.
Replace(p) ==
    LET v == View(p) IN
    /\ pc[p] = "replace"
    /\ MayWrite(p)
    /\ v.id = ctx[p].id \/ ctx[p].work = {}
    /\ Commit(IF v.id = ctx[p].id
              THEN [v EXCEPT !.tables[ctx[p].table] = Whole(ctx[p].work)] ELSE v)
    /\ Settled(p, ctx[p].lines)
    /\ UNCHANGED <<content, mapping>>

\* IntegrityError.  Swallowed, it leaves the sink's transaction open.
ReplaceRaises(p) ==
    /\ pc[p] = "replace"
    /\ MayWrite(p)
    /\ View(p).id # ctx[p].id
    /\ ctx[p].work # {}
    /\ IF InSink(p)
       THEN /\ Settled(p, ctx[p].lines)
            /\ holder' = p
            /\ tx' = View(p)
            /\ UNCHANGED <<content, mapping, db>>
       ELSE Abort(p)

\* "database is locked" after the five seconds of sqlite3.connect.
Busy(p) ==
    /\ ~MayWrite(p)
    /\ \/ pc[p] = "select" /\ db.id # 0 /\ db.hash # ctx[p].hash
       \/ pc[p] \in {"insert", "begin", "replace"}
    /\ IF pc[p] = "replace" /\ InSink(p)
       THEN Settled(p, ctx[p].lines) /\ UNCHANGED <<content, mapping, db, holder, tx>>
       ELSE Abort(p)

-----------------------------------------------------------------------------
(* The command line of disasm.py, on a miss. *)

\* begin_disasm_replace: DELETE FROM disasm_lines opens the transaction.
Begin(p) ==
    /\ pc[p] = "begin"
    /\ MayWrite(p)
    /\ holder' = p
    /\ tx' = IF View(p).id = ctx[p].id
             THEN [View(p) EXCEPT !.tables["disasm_lines"] = None] ELSE View(p)
    /\ Goto(p, "read", [ctx[p] EXCEPT
            !.before = IF db.id = ctx[p].id THEN db.tables["disasm_lines"] ELSE None])
    /\ UNCHANGED <<content, mapping, db>>

\* _resolve_disasm_source: the code bytes.
ReadCode(p) ==
    /\ pc[p] = "read"
    /\ Goto(p, "context", [ctx[p] EXCEPT !.lines = {content}])
    /\ UNCHANGED <<content, mapping, db, holder, tx>>

\* _load_disasm_context, on a connection of its own: functions cached for this
\* content, or named by its symbols, allow streaming.  A stale row cannot be
\* deleted while p holds the lock; that error is swallowed.
LoadContext(p) ==
    LET cached == /\ db.id # 0
                  /\ db.hash = content
                  /\ db.tables["functions"] # None
    IN
    /\ pc[p] = "context"
    /\ Goto(p, IF cached \/ content \in Symbolic THEN "stream" ELSE "discover",
            ctx[p])
    /\ UNCHANGED <<content, mapping, db, holder, tx>>

\* append_disasm_rows: rows that hang on a replaced row are refused.
AppendRows(p) ==
    tx' = [tx EXCEPT !.tables["disasm_lines"] =
              [from |-> ctx[p].lines, n |-> tx.tables["disasm_lines"].n + 1]]

\* Mutant: every batch is committed.
StreamBatchCommitting(p) ==
    /\ pc[p] = "stream"
    /\ tx.id = ctx[p].id
    /\ tx.tables["disasm_lines"].n + 1 < Batches
    /\ AppendRows(p)
    /\ db' = tx'
    /\ UNCHANGED <<content, mapping, holder, pc, ctx>>

\* disasm_cache_sink: a full batch.
StreamBatch(p) ==
    /\ pc[p] = "stream"
    /\ tx.id = ctx[p].id
    /\ tx.tables["disasm_lines"].n + 1 < Batches
    /\ AppendRows(p)
    /\ UNCHANGED <<content, mapping, db, holder, pc, ctx>>

\* All lines are out: the mapping file is written.
StreamOutputs(p) ==
    /\ pc[p] = "stream"
    /\ tx.tables["disasm_lines"].n + 1 = Batches
    /\ \E c \in ctx[p].lines : mapping' = c
    /\ Goto(p, "commit", ctx[p])
    /\ UNCHANGED <<content, db, holder, tx>>

\* Mutant: the last batch goes in twice.
StreamCommitTwice(p) ==
    /\ pc[p] = "commit"
    /\ tx.id = ctx[p].id
    /\ Commit([tx EXCEPT !.tables["disasm_lines"] =
                  [from |-> ctx[p].lines, n |-> tx.tables["disasm_lines"].n + 2]])
    /\ Exit(p)
    /\ UNCHANGED <<content, mapping>>

\* The last batch, and commit_disasm.
StreamCommit(p) ==
    /\ pc[p] = "commit"
    /\ tx.id = ctx[p].id
    /\ Commit([tx EXCEPT !.tables["disasm_lines"] =
                  [from |-> ctx[p].lines, n |-> tx.tables["disasm_lines"].n + 1]])
    /\ Exit(p)
    /\ UNCHANGED <<content, mapping>>

\* The row was replaced between _ensure_binary and the DELETE.
StreamRaises(p) ==
    /\ pc[p] \in {"stream", "commit"}
    /\ tx.id # ctx[p].id
    /\ Abort(p)

\* _augment_context_with_discovered_functions: what it finds goes to the sink,
\* save_functions on the connection whose transaction is open.
Discover(p) ==
    /\ pc[p] = "discover"
    /\ \/ Goto(p, "outputs", ctx[p])
       \/ Goto(p, "ensure", [ctx[p] EXCEPT !.table = "functions",
                                           !.work = ctx[p].lines \cup {content}])
    /\ UNCHANGED <<content, mapping, db, holder, tx>>

\* _write_disasm_outputs, then save_disasm of the lines.
Outputs(p) ==
    /\ pc[p] = "outputs"
    /\ \E c \in ctx[p].lines : mapping' = c
    /\ Goto(p, "ensure", [ctx[p] EXCEPT !.table = "disasm_lines",
                                        !.work = ctx[p].lines])
    /\ UNCHANGED <<content, db, holder, tx>>

\* On a hit the listing is read again, twice, from the snapshot that the first
\* cursor keeps open, and the file hashed again.
HitOutputs(p) ==
    /\ pc[p] = "hit"
    /\ content = ctx[p].hash
    /\ \E c \in ctx[p].lines : mapping' = c
    /\ Exit(p)
    /\ UNCHANGED <<content, db, holder, tx>>

\* iter_disasm(...)[1] with another hash: the row may go, then TypeError.
HitRaises(p) ==
    /\ pc[p] = "hit"
    /\ content # ctx[p].hash
    /\ \/ UNCHANGED <<db, holder, tx>>
       \/ db.id = ctx[p].id /\ holder = NoProc /\ Commit(NoRow)
    /\ Exit(p)
    /\ UNCHANGED <<content, mapping>>

-----------------------------------------------------------------------------
(* The rest of the world. *)

Crash(p) ==
    /\ "crash" \in Faults
    /\ pc[p] # "idle"
    /\ Abort(p)

\* cache_invalidate.
Invalidate ==
    /\ holder = NoProc
    /\ db.id # 0
    /\ Commit(NoRow)
    /\ UNCHANGED <<content, mapping, pc, ctx>>

\* A patch, a revert, a compilation.
ChangeContent ==
    /\ "overlap" \in Faults \/ \A p \in Proc : pc[p] = "idle"
    /\ \E c \in Content \ {content} : content' = c
    /\ UNCHANGED <<mapping, db, holder, tx, pc, ctx>>

Step(p) ==
    \/ Get(p) \/ Select(p) \/ Rows(p) \/ Compute(p)
    \/ Ensure(p) \/ Lookup(p) \/ Insert(p)
    \/ Replace(p) \/ ReplaceRaises(p) \/ Busy(p)
    \/ Begin(p) \/ ReadCode(p) \/ LoadContext(p)
    \/ StreamBatch(p) \/ StreamOutputs(p) \/ StreamCommit(p) \/ StreamRaises(p)
    \/ Discover(p) \/ Outputs(p)
    \/ HitOutputs(p) \/ HitRaises(p)

Next ==
    \/ \E p \in Proc : Start(p) \/ StartCallGraph(p) \/ Step(p) \/ Crash(p)
    \/ Invalidate
    \/ ChangeContent

Spec == Init /\ [][Next]_vars

\* A started process is scheduled until it exits.
FairSpec == Spec /\ \A p \in Proc : WF_vars(Step(p))

-----------------------------------------------------------------------------
(* Properties. *)

(* What is committed under a hash was computed from that content alone     *)
(* (class DisasmCache: the cache is invalidated when the hash differs), so *)
(* that patching and reverting never brings back a foreign artifact.       *)
Fresh ==
    \A t \in Table : db.tables[t] # None => db.tables[t].from = {db.hash}

(* No reader is ever given a part of a listing, whichever process dies     *)
(* between which batches.                                                  *)
WholeListing == db.tables["disasm_lines"].n \in {0, Batches}

(* A process works from the listing of the bytes now on disk, whether it   *)
(* found it in the cache or made it, and stores nothing else.              *)
CurrentLines ==
    \A p \in Proc : ctx[p].lines \cup ctx[p].work \subseteq {content}

(* The connection that holds the write lock gives it up: a disassembly     *)
(* that streams keeps every other writer out until it commits or dies.     *)
LockReleased == \A p \in Proc : holder = p ~> holder # p

(* "Nothing is committed until the disassembly has succeeded as a whole:   *)
(* an error on the way leaves the cache in its previous state" (disasm.py, *)
(* main): until its end the committed listing is the one it began with.    *)
ListingKept ==
    \A p \in Proc :
        pc[p] \in {"stream", "discover", "outputs"} /\ db.id = ctx[p].id
            => db.tables["disasm_lines"] = ctx[p].before
=============================================================================
