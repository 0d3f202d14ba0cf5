------------------------- MODULE DisasmCache_proofs -------------------------
(***************************************************************************)
(* Proofs about the two programs that answer from what they kept of a       *)
(* binary: DisasmCache, for every set of processes and contents, and        *)
(* Decompilation, for any tools, requests and changes meanwhile.            *)
(***************************************************************************)
EXTENDS DisasmCache, Decompilation, SequenceTheorems, FiniteSetTheorems, TLAPS

LEMMA NoneIsArtifact == None \in Artifact /\ NoTables \in [Table -> Artifact]
BY BatchesAssumption DEF None, NoTables, Artifact

LEMMA NoRowIsStore == NoRow \in Store
BY NoneIsArtifact DEF NoRow, Store

LEMMA NoContextIsContext == NoContext \in Context
BY NoneIsArtifact DEF NoContext, Context, Op, Table

LEMMA WholeIsArtifact ==
    ASSUME NEW S \in SUBSET Content
    PROVE  Whole(S) \in Artifact /\ Whole(S).n \in {0, Batches}
BY NoneIsArtifact, BatchesAssumption DEF Whole, Artifact, None

-----------------------------------------------------------------------------
(* The moves actions are made of: a process goes on at l with locals c. *)

LEMMA GotoFacts ==
    ASSUME TypeOK, NEW p \in Proc, NEW l \in Pc, NEW c \in Context, Goto(p, l, c)
    PROVE  /\ pc' \in [Proc -> Pc] /\ ctx' \in [Proc -> Context]
           /\ pc'[p] = l /\ ctx'[p] = c
           /\ \A q \in Proc \ {p} : pc'[q] = pc[q] /\ ctx'[q] = ctx[q]
BY DEF TypeOK, Goto

LEMMA ExitIsGoto ==
    ASSUME NEW p \in Proc, Exit(p)
    PROVE  Goto(p, "idle", NoContext)
BY DEF Exit, Goto

\* Where a process goes on a miss.
LEMMA MissedFacts ==
    ASSUME TypeOK, NEW p \in Proc, Missed(p)
    PROVE  \E l \in {"ensure", "compute"}, c \in Context :
              /\ Goto(p, l, c)
              /\ c.id = 0
              /\ c.op = ctx[p].op
              /\ c.lines = ctx[p].lines /\ c.work = ctx[p].work
              /\ c.table = ctx[p].table
<1> DEFINE c == [ctx[p] EXCEPT !.hash = NoContent, !.id = 0]
<1>1. /\ c \in Context /\ c.id = 0 /\ c.op = ctx[p].op /\ c.table = ctx[p].table
      /\ c.lines = ctx[p].lines /\ c.work = ctx[p].work
  BY DEF TypeOK, Context
<1>2. Goto(p, "ensure", c) \/ Goto(p, "compute", c)
  BY DEF Missed
<1>3. QED
  BY <1>1, <1>2

\* Where it goes when a table is settled with `lines` in hand.
LEMMA SettledFacts ==
    ASSUME TypeOK, NEW p \in Proc, NEW lines \in SUBSET Content, Settled(p, lines)
    PROVE  \E l \in {"idle", "outputs", "get", "compute"}, c \in Context :
              /\ Goto(p, l, c)
              /\ c.work = {}
              /\ c.id \in {0, ctx[p].id}
              /\ c.lines \in {{}, lines, ctx[p].lines}
              /\ l = "idle" => c = NoContext
<1>1. CASE InSink(p)
  <2> DEFINE c == [ctx[p] EXCEPT !.work = {}]
  <2>1. c \in Context /\ c.work = {} /\ c.id = ctx[p].id /\ c.lines = ctx[p].lines
    BY DEF TypeOK, Context
  <2>2. Goto(p, "outputs", c)
    BY <1>1 DEF Settled
  <2>3. QED
    BY <2>1, <2>2
<1>2. CASE ~InSink(p) /\ NextTable(p) # {}
  <2>1. PICK t \in NextTable(p) :
            Goto(p, IF ctx[p].op = "reindex" THEN "compute" ELSE "get",
                 [NoContext EXCEPT !.op = ctx[p].op, !.table = t, !.lines = lines])
    BY <1>2 DEF Settled
  <2> DEFINE c == [NoContext EXCEPT !.op = ctx[p].op, !.table = t, !.lines = lines]
  <2>2. t \in Table
    BY <2>1 DEF NextTable, Table
  <2>3. c \in Context /\ c.work = {} /\ c.id = 0 /\ c.lines = lines
    BY <2>2, NoContextIsContext DEF TypeOK, Context, NoContext
  <2>4. Goto(p, "compute", c) \/ Goto(p, "get", c)
    BY <2>1
  <2>5. QED
    BY <2>3, <2>4
<1>3. CASE ~InSink(p) /\ NextTable(p) = {}
  <2>1. Goto(p, "idle", NoContext)
    BY <1>3, ExitIsGoto DEF Settled
  <2>2. NoContext.work = {} /\ NoContext.id = 0 /\ NoContext.lines = {}
    BY DEF NoContext
  <2>3. QED
    BY <2>1, <2>2, NoContextIsContext
<1>4. QED
  BY <1>1, <1>2, <1>3

-----------------------------------------------------------------------------
(***************************************************************************)
(* The invariant behind WholeListing.  From Begin to its commit, a process *)
(* holds the write transaction; that transaction counts the batches so     *)
(* far, and shows a part of a listing only to the process that streams it. *)
(***************************************************************************)
Disassembling == {"read", "context", "stream", "commit", "discover"}

Inserted(p) ==
    tx.id = ctx[p].id =>
        /\ pc[p] \in {"read", "context", "stream"}
                => tx.tables["disasm_lines"].n < Batches
        /\ pc[p] = "commit" => tx.tables["disasm_lines"].n + 1 = Batches

LockInv ==
    \A p \in Proc : pc[p] \in Disassembling => holder = p /\ Inserted(p)

WholeStore(s) == s.tables["disasm_lines"].n \in {0, Batches}

WholeInv ==
    /\ WholeStore(db)
    /\ \A p \in Proc :
            holder = p /\ pc[p] \notin {"stream", "commit"} => WholeStore(tx)

IInv == TypeOK /\ LockInv /\ WholeInv

LEMMA InitIInv == Init => IInv
<1> SUFFICES ASSUME Init PROVE IInv
  OBVIOUS
<1>1. TypeOK
  BY NoRowIsStore, NoContextIsContext DEF Init, TypeOK, Pc
<1>2. LockInv
  BY DEF Init, LockInv, Disassembling
<1>3. WholeInv
  BY ProcAssumption DEF Init, WholeInv, WholeStore, NoRow, NoTables, None, Table
<1>4. QED
  BY <1>1, <1>2, <1>3 DEF IInv

\* A move that leaves the database alone.
LEMMA LocalMove ==
    ASSUME IInv, NEW p \in Proc, NEW l \in Pc, NEW c \in Context, Goto(p, l, c),
           UNCHANGED <<content, db, holder, tx>>,
           mapping' \in Content \cup {NoContent},
           l \in Disassembling => holder = p /\ Inserted(p)',
           holder = p /\ l \notin {"stream", "commit"}
                => pc[p] \notin {"stream", "commit"}
    PROVE  IInv'
<1>1. TypeOK'
  BY GotoFacts DEF IInv, TypeOK
<1>2. LockInv'
  <2> SUFFICES ASSUME NEW q \in Proc, pc'[q] \in Disassembling
               PROVE  holder' = q /\ Inserted(q)'
    BY DEF LockInv
  <2>1. CASE q = p
    BY <2>1, GotoFacts DEF IInv
  <2>2. CASE q # p
    BY <2>2, GotoFacts DEF IInv, LockInv, Inserted
  <2>3. QED
    BY <2>1, <2>2
<1>3. WholeInv'
  BY GotoFacts DEF IInv, WholeInv, WholeStore
<1>4. QED
  BY <1>1, <1>2, <1>3 DEF IInv

\* A move that commits `store`, or drops what was not committed.
LEMMA WriteMove ==
    ASSUME IInv, NEW p \in Proc, NEW l \in Pc, NEW c \in Context, Goto(p, l, c),
           MayWrite(p), UNCHANGED content,
           mapping' \in Content \cup {NoContent},
           l \notin Disassembling,
           NEW store \in Store, WholeStore(store), Commit(store)
    PROVE  IInv'
<1>1. TypeOK'
  BY GotoFacts, NoRowIsStore DEF IInv, TypeOK, Commit
<1>2. LockInv'
  BY GotoFacts, ProcAssumption DEF IInv, LockInv, MayWrite
<1>3. WholeInv'
  BY ProcAssumption DEF WholeInv, WholeStore, Commit
<1>4. QED
  BY <1>1, <1>2, <1>3 DEF IInv

LEMMA AbortMove ==
    ASSUME IInv, NEW p \in Proc, Abort(p)
    PROVE  IInv'
<1>1. Goto(p, "idle", NoContext) /\ "idle" \in Pc /\ NoContext \in Context
  BY ExitIsGoto, NoContextIsContext DEF Abort, Pc
<1>2. CASE holder = p
  <2>1. Commit(db) /\ MayWrite(p)
    BY <1>2 DEF Abort, Release, Commit, MayWrite
  <2>2. db \in Store /\ WholeStore(db)
    BY DEF IInv, TypeOK, WholeInv
  <2>3. QED
    BY <1>1, <2>1, <2>2, WriteMove DEF Abort, IInv, TypeOK, Disassembling
<1>3. CASE holder # p
  BY <1>1, <1>3, LocalMove DEF Abort, Release, IInv, TypeOK, Disassembling
<1>4. QED
  BY <1>2, <1>3

\* What p sees before it streams is a whole listing.
LEMMA ViewFacts ==
    ASSUME IInv, NEW p \in Proc, pc[p] \notin {"stream", "commit"}
    PROVE  View(p) \in Store /\ WholeStore(View(p))
BY DEF IInv, TypeOK, WholeInv, View

LEMMA NoRowIsWhole == WholeStore(NoRow)
BY DEF WholeStore, NoRow, NoTables, None, Table

-----------------------------------------------------------------------------
(* The actions preserve it: first those that read and compute. *)

LEMMA StartInv == ASSUME IInv, NEW p \in Proc, Start(p) PROVE IInv'
<1>1. PICK op \in Op \ {"none", "call_graph"} :
        Goto(p, CASE op = "rewrite" -> "ensure"
                  [] op = "reindex" -> "compute"
                  [] OTHER          -> "get", [NoContext EXCEPT !.op = op])
  BY DEF Start
<1> DEFINE c == [NoContext EXCEPT !.op = op]
           l == CASE op = "rewrite" -> "ensure"
                  [] op = "reindex" -> "compute"
                  [] OTHER          -> "get"
<1>2. c \in Context
  BY NoContextIsContext DEF Context, NoContext
<1>3. l \in {"ensure", "compute", "get"}
  OBVIOUS
<1>4. l \in Pc /\ l \notin Disassembling
  BY <1>3 DEF Pc, Disassembling
<1> HIDE DEF l, c
<1>5. Goto(p, l, c)
  BY <1>1 DEF l, c
<1>6. QED
  BY <1>2, <1>4, <1>5, LocalMove DEF Start, IInv, TypeOK

LEMMA StartCallGraphInv ==
    ASSUME IInv, NEW p \in Proc, StartCallGraph(p) PROVE IInv'
<1> DEFINE c == [NoContext EXCEPT !.op = "call_graph", !.table = "basic_blocks",
                                  !.lines = {mapping}]
<1>1. c \in Context
  BY NoContextIsContext DEF StartCallGraph, IInv, TypeOK, Context, NoContext, Op, Table
<1>2. Goto(p, "get", c)
  BY DEF StartCallGraph
<1>3. QED
  BY <1>1, <1>2, LocalMove DEF StartCallGraph, IInv, TypeOK, Pc, Disassembling

LEMMA GetInv == ASSUME IInv, NEW p \in Proc, Get(p) PROVE IInv'
<1> DEFINE c == [ctx[p] EXCEPT !.hash = content]
<1>1. c \in Context
  BY DEF Get, IInv, TypeOK, Context
<1>2. Goto(p, "select", c)
  BY DEF Get
<1>3. QED
  BY <1>1, <1>2, LocalMove DEF Get, IInv, TypeOK, Pc, Disassembling

LEMMA EnsureInv == ASSUME IInv, NEW p \in Proc, Ensure(p) PROVE IInv'
<1> DEFINE c == [ctx[p] EXCEPT !.hash = content]
<1>1. c \in Context
  BY DEF Ensure, IInv, TypeOK, Context
<1>2. Goto(p, "lookup", c)
  BY DEF Ensure
<1>3. QED
  BY <1>1, <1>2, LocalMove DEF Ensure, IInv, TypeOK, Pc, Disassembling

LEMMA RowsInv == ASSUME IInv, NEW p \in Proc, Rows(p) PROVE IInv'
<1> DEFINE from  == db.tables[ctx[p].table].from
           lines == IF ctx[p].table = "disasm_lines" THEN from ELSE ctx[p].lines
           c     == [ctx[p] EXCEPT !.lines = from]
<1>1. from \in SUBSET Content /\ lines \in SUBSET Content /\ c \in Context
  BY DEF IInv, TypeOK, Context, Store, Artifact
<1>2. Missed(p) \/ Goto(p, "hit", c) \/ Settled(p, lines)
  BY DEF Rows
<1>3. \E l \in {"ensure", "compute", "hit", "idle", "outputs", "get"}, d \in Context :
        Goto(p, l, d)
  BY <1>1, <1>2, MissedFacts, SettledFacts DEF IInv
<1>4. QED
  BY <1>3, LocalMove DEF Rows, IInv, TypeOK, Pc, Disassembling

LEMMA ComputeInv == ASSUME IInv, NEW p \in Proc, Compute(p) PROVE IInv'
<1>1. PICK lines \in SUBSET Content, work \in SUBSET Content :
        Goto(p, "ensure", [ctx[p] EXCEPT !.lines = lines, !.work = work])
  <2>1. CASE Goto(p, "ensure", [ctx[p] EXCEPT !.lines = {content}, !.work = {content}])
    BY <2>1 DEF IInv, TypeOK
  <2>2. ASSUME NEW work \in {{}, ctx[p].lines \cup {content}},
               Goto(p, "ensure", [ctx[p] EXCEPT !.work = work])
        PROVE  \E lines, w \in SUBSET Content :
                  Goto(p, "ensure", [ctx[p] EXCEPT !.lines = lines, !.work = w])
    <3>1. ctx[p].lines \in SUBSET Content /\ work \in SUBSET Content
      BY <2>2 DEF IInv, TypeOK, Context
    <3>2. [ctx[p] EXCEPT !.work = work]
            = [ctx[p] EXCEPT !.lines = ctx[p].lines, !.work = work]
      BY DEF IInv, TypeOK, Context
    <3>3. QED
      BY <2>2, <3>1, <3>2
  <2>3. QED
    BY <2>1, <2>2 DEF Compute
<1> DEFINE c == [ctx[p] EXCEPT !.lines = lines, !.work = work]
<1>2. c \in Context
  BY DEF IInv, TypeOK, Context
<1>3. QED
  BY <1>1, <1>2, LocalMove DEF Compute, IInv, TypeOK, Pc, Disassembling

LEMMA SelectInv == ASSUME IInv, NEW p \in Proc, Select(p) PROVE IInv'
<1>1. CASE Missed(p) /\ UNCHANGED <<db, holder, tx>>
  <2>1. PICK l \in {"ensure", "compute"}, c \in Context : Goto(p, l, c)
    BY <1>1, MissedFacts DEF IInv
  <2>2. QED
    BY <1>1, <2>1, LocalMove DEF Select, IInv, TypeOK, Pc, Disassembling
<1>2. CASE Goto(p, "rows", [ctx[p] EXCEPT !.id = db.id]) /\ UNCHANGED <<db, holder, tx>>
  <2>1. [ctx[p] EXCEPT !.id = db.id] \in Context
    BY DEF IInv, TypeOK, Context, Store
  <2>2. QED
    BY <1>2, <2>1, LocalMove DEF Select, IInv, TypeOK, Pc, Disassembling
<1>3. CASE MayWrite(p) /\ Missed(p) /\ Commit(NoRow)
  <2>1. PICK l \in {"ensure", "compute"}, c \in Context : Goto(p, l, c)
    BY <1>3, MissedFacts DEF IInv
  <2>2. QED
    BY <1>3, <2>1, WriteMove, NoRowIsStore, NoRowIsWhole
       DEF Select, IInv, TypeOK, Pc, Disassembling
<1>4. QED
  BY <1>1, <1>2, <1>3 DEF Select

LEMMA LookupInv == ASSUME IInv, NEW p \in Proc, Lookup(p) PROVE IInv'
<1> DEFINE c == [ctx[p] EXCEPT !.id = View(p).id]
<1>1. c \in Context /\ ctx[p] \in Context
  BY ViewFacts DEF Lookup, IInv, TypeOK, Context, Store
<1>2. Goto(p, "insert", ctx[p]) \/ Goto(p, "begin", c) \/ Goto(p, "replace", c)
  BY DEF Lookup, Wanted
<1>3. QED
  BY <1>1, <1>2, LocalMove DEF Lookup, IInv, TypeOK, Pc, Disassembling

LEMMA InsertInv == ASSUME IInv, NEW p \in Proc, Insert(p) PROVE IInv'
<1>1. PICK id \in IdPool :
        /\ Commit([NoRow EXCEPT !.id = id, !.hash = ctx[p].hash])
        /\ Goto(p, Wanted(p), [ctx[p] EXCEPT !.id = id])
  BY DEF Insert
<1> DEFINE store == [NoRow EXCEPT !.id = id, !.hash = ctx[p].hash]
           c     == [ctx[p] EXCEPT !.id = id]
<1>2. store \in Store /\ WholeStore(store) /\ c \in Context
  BY NoRowIsStore, NoRowIsWhole DEF IInv, TypeOK, Context, Store, NoRow, WholeStore
<1>3. Goto(p, "begin", c) \/ Goto(p, "replace", c)
  BY <1>1 DEF Wanted
<1>4. QED
  BY <1>1, <1>2, <1>3, WriteMove DEF Insert, IInv, TypeOK, Pc, Disassembling

LEMMA ReplaceInv == ASSUME IInv, NEW p \in Proc, Replace(p) PROVE IInv'
<1> DEFINE v     == View(p)
           saved == [v EXCEPT !.tables[ctx[p].table] = Whole(ctx[p].work)]
           store == IF v.id = ctx[p].id THEN saved ELSE v
<1>1. v \in Store /\ WholeStore(v)
  BY ViewFacts DEF Replace
<1>2. /\ ctx[p].work \in SUBSET Content /\ ctx[p].lines \in SUBSET Content
      /\ ctx[p].table \in Table
  BY DEF IInv, TypeOK, Context
<1>3. saved \in Store /\ WholeStore(saved)
  <2> HIDE DEF v
  <2>1. Whole(ctx[p].work) \in Artifact /\ Whole(ctx[p].work).n \in {0, Batches}
    BY <1>2, WholeIsArtifact
  <2>2. saved \in Store
    BY <1>1, <1>2, <2>1 DEF Store
  <2>3. saved.tables["disasm_lines"] \in {v.tables["disasm_lines"], Whole(ctx[p].work)}
    BY <1>1, <1>2 DEF Store, Table
  <2>4. QED
    BY <1>1, <2>1, <2>2, <2>3 DEF WholeStore
<1>4. store \in Store /\ WholeStore(store)
  BY <1>1, <1>3
<1>5. Commit(store) /\ Settled(p, ctx[p].lines) /\ MayWrite(p)
  BY DEF Replace
<1> HIDE DEF store
<1>6. PICK l \in {"idle", "outputs", "get", "compute"}, c \in Context : Goto(p, l, c)
  BY <1>2, <1>5, SettledFacts DEF IInv
<1>7. QED
  BY <1>4, <1>5, <1>6, WriteMove DEF Replace, IInv, TypeOK, Pc, Disassembling

LEMMA ReplaceRaisesInv ==
    ASSUME IInv, NEW p \in Proc, ReplaceRaises(p) PROVE IInv'
<1>1. CASE ~InSink(p)
  BY <1>1, AbortMove DEF ReplaceRaises
<1>2. CASE InSink(p)
  <2>1. ctx[p].lines \in SUBSET Content
    BY DEF IInv, TypeOK, Context
  <2>2. PICK l \in {"idle", "outputs", "get", "compute"}, c \in Context : Goto(p, l, c)
    BY <1>2, <2>1, SettledFacts DEF IInv, ReplaceRaises
  <2>3. l \in Pc /\ l \notin Disassembling /\ l \notin {"stream", "commit"}
    BY DEF Pc, Disassembling
  <2>4. /\ holder' = p /\ tx' = View(p) /\ MayWrite(p)
        /\ UNCHANGED <<content, mapping, db>>
    BY <1>2 DEF ReplaceRaises
  <2>5. View(p) \in Store /\ WholeStore(View(p))
    BY ViewFacts DEF ReplaceRaises
  <2>6. TypeOK'
    BY <2>2, <2>3, <2>4, <2>5, GotoFacts DEF IInv, TypeOK
  <2>7. LockInv'
    BY <2>2, <2>3, <2>4, GotoFacts, ProcAssumption DEF IInv, LockInv, MayWrite
  <2>8. WholeInv'
    BY <2>4, <2>5 DEF IInv, WholeInv, WholeStore
  <2>9. QED
    BY <2>6, <2>7, <2>8 DEF IInv
<1>3. QED
  BY <1>1, <1>2

LEMMA BusyInv == ASSUME IInv, NEW p \in Proc, Busy(p) PROVE IInv'
<1>1. CASE ~(pc[p] = "replace" /\ InSink(p))
  BY <1>1, AbortMove DEF Busy
<1>2. CASE pc[p] = "replace" /\ InSink(p)
  <2>1. ctx[p].lines \in SUBSET Content
    BY DEF IInv, TypeOK, Context
  <2>2. PICK l \in {"idle", "outputs", "get", "compute"}, c \in Context : Goto(p, l, c)
    BY <1>2, <2>1, SettledFacts DEF IInv, Busy
  <2>3. QED
    BY <1>2, <2>2, LocalMove DEF Busy, IInv, TypeOK, Pc, Disassembling
<1>3. QED
  BY <1>1, <1>2

-----------------------------------------------------------------------------
(* The disassembly of a miss. *)

LEMMA BeginInv == ASSUME IInv, NEW p \in Proc, Begin(p) PROVE IInv'
<1> DEFINE v == View(p)
           c == [ctx[p] EXCEPT !.before =
                    IF db.id = ctx[p].id THEN db.tables["disasm_lines"] ELSE None]
           emptied == [v EXCEPT !.tables["disasm_lines"] = None]
<1>1. v \in Store /\ WholeStore(v)
  BY ViewFacts DEF Begin
<1>2. c \in Context
  BY NoneIsArtifact DEF IInv, TypeOK, Context, Store, Table
<1>3. /\ holder' = p /\ MayWrite(p) /\ UNCHANGED <<content, mapping, db>>
      /\ tx' = IF v.id = ctx[p].id THEN emptied ELSE v
      /\ Goto(p, "read", c)
  BY DEF Begin
<1>4. emptied \in Store /\ emptied.tables["disasm_lines"].n = 0
  <2> HIDE DEF v
  <2>1. QED
    BY <1>1, NoneIsArtifact DEF Store, Table, None
<1>5. tx' \in Store /\ WholeStore(tx')
  BY <1>1, <1>3, <1>4 DEF WholeStore
<1> HIDE DEF c, emptied
<1>6. /\ pc' \in [Proc -> Pc] /\ ctx' \in [Proc -> Context]
      /\ pc'[p] = "read" /\ ctx'[p] = c
      /\ \A q \in Proc \ {p} : pc'[q] = pc[q] /\ ctx'[q] = ctx[q]
  BY <1>2, <1>3, GotoFacts DEF IInv, Pc
<1>7. TypeOK'
  BY <1>3, <1>5, <1>6 DEF IInv, TypeOK
<1>8. LockInv'
  <2>1. c.id = ctx[p].id
    BY DEF c, IInv, TypeOK, Context
  <2>2. tx'.id = c.id => tx'.tables["disasm_lines"].n < Batches
    <3> HIDE DEF v
    <3>1. QED
      BY <1>3, <1>4, <2>1, BatchesAssumption
  <2>3. Inserted(p)'
    BY <1>6, <2>2 DEF Inserted
  <2>4. \A q \in Proc \ {p} : pc'[q] \notin Disassembling
    BY <1>3, <1>6, ProcAssumption DEF IInv, LockInv, MayWrite
  <2>5. QED
    BY <1>3, <2>3, <2>4 DEF LockInv
<1>9. WholeInv'
  BY <1>3, <1>5 DEF IInv, WholeInv, WholeStore
<1>10. QED
  BY <1>7, <1>8, <1>9 DEF IInv

LEMMA ReadCodeInv == ASSUME IInv, NEW p \in Proc, ReadCode(p) PROVE IInv'
<1> DEFINE c == [ctx[p] EXCEPT !.lines = {content}]
<1>1. c \in Context /\ c.id = ctx[p].id
  BY DEF IInv, TypeOK, Context
<1>2. Goto(p, "context", c) /\ "context" \in Pc
  BY DEF ReadCode, Pc
<1> HIDE DEF c
<1>3. holder = p /\ Inserted(p)'
  BY <1>1, <1>2, GotoFacts DEF ReadCode, IInv, LockInv, Disassembling, Inserted
<1>4. QED
  BY <1>1, <1>2, <1>3, LocalMove DEF ReadCode, IInv, TypeOK

LEMMA LoadContextInv == ASSUME IInv, NEW p \in Proc, LoadContext(p) PROVE IInv'
<1>1. ctx[p] \in Context
  BY DEF IInv, TypeOK
<1>2. PICK l \in {"stream", "discover"} : Goto(p, l, ctx[p])
  BY DEF LoadContext
<1>3. l \in Pc
  BY DEF Pc
<1>4. holder = p /\ Inserted(p)'
  BY <1>1, <1>2, <1>3, GotoFacts DEF LoadContext, IInv, LockInv, Disassembling, Inserted
<1>5. QED
  BY <1>1, <1>2, <1>3, <1>4, LocalMove DEF LoadContext, IInv, TypeOK

LEMMA StreamBatchInv == ASSUME IInv, NEW p \in Proc, StreamBatch(p) PROVE IInv'
<1> DEFINE n   == tx.tables["disasm_lines"].n
           art == [from |-> ctx[p].lines, n |-> n + 1]
<1>1. holder = p /\ n \in Nat /\ n + 1 < Batches /\ tx \in Store
  BY BatchesAssumption
     DEF StreamBatch, IInv, LockInv, Disassembling, TypeOK, Store, Artifact, Table
<1>2. art \in Artifact /\ art.n < Batches
  <2> HIDE DEF n
  <2>1. QED
    BY <1>1, BatchesAssumption DEF Artifact, IInv, TypeOK, Context
<1>3. tx' = [tx EXCEPT !.tables["disasm_lines"] = art]
  BY DEF StreamBatch, AppendRows
<1> HIDE DEF art
<1>4. tx' \in Store /\ tx'.tables["disasm_lines"].n < Batches
  BY <1>1, <1>2, <1>3 DEF Store, Table
<1>5. TypeOK'
  BY <1>4 DEF StreamBatch, IInv, TypeOK
<1>6. LockInv'
  BY <1>1, <1>4 DEF StreamBatch, IInv, LockInv, Disassembling, Inserted
<1>7. WholeInv'
  BY <1>1 DEF StreamBatch, IInv, WholeInv, WholeStore
<1>8. QED
  BY <1>5, <1>6, <1>7 DEF IInv

LEMMA StreamOutputsInv ==
    ASSUME IInv, NEW p \in Proc, StreamOutputs(p) PROVE IInv'
<1>1. ctx[p] \in Context /\ mapping' \in Content
  BY DEF StreamOutputs, IInv, TypeOK, Context
<1>2. Goto(p, "commit", ctx[p]) /\ "commit" \in Pc
  BY DEF StreamOutputs, Pc
<1>3. holder = p /\ Inserted(p)'
  BY <1>1, <1>2, GotoFacts DEF StreamOutputs, IInv, LockInv, Disassembling, Inserted
<1>4. QED
  BY <1>1, <1>2, <1>3, LocalMove DEF StreamOutputs, IInv, TypeOK

LEMMA StreamCommitInv ==
    ASSUME IInv, NEW p \in Proc, StreamCommit(p) PROVE IInv'
<1> DEFINE n     == tx.tables["disasm_lines"].n
           art   == [from |-> ctx[p].lines, n |-> n + 1]
           store == [tx EXCEPT !.tables["disasm_lines"] = art]
<1>1. holder = p /\ n + 1 = Batches /\ tx \in Store
  BY DEF StreamCommit, IInv, LockInv, Disassembling, Inserted, TypeOK
<1>2. art \in Artifact /\ art.n = Batches
  <2> HIDE DEF n
  <2>1. QED
    BY <1>1, BatchesAssumption DEF Artifact, IInv, TypeOK, Context
<1> HIDE DEF art
<1>3. store \in Store /\ WholeStore(store)
  BY <1>1, <1>2 DEF Store, Table, WholeStore
<1>4. Commit(store) /\ Goto(p, "idle", NoContext) /\ MayWrite(p)
  BY <1>1, ExitIsGoto DEF StreamCommit, MayWrite, art
<1> HIDE DEF store
<1>5. QED
  BY <1>3, <1>4, WriteMove, NoContextIsContext
     DEF StreamCommit, IInv, TypeOK, Pc, Disassembling

LEMMA DiscoverInv == ASSUME IInv, NEW p \in Proc, Discover(p) PROVE IInv'
<1> DEFINE c == [ctx[p] EXCEPT !.table = "functions",
                               !.work = ctx[p].lines \cup {content}]
<1>1. c \in Context /\ ctx[p] \in Context
  BY DEF IInv, TypeOK, Context, Table
<1>2. Goto(p, "outputs", ctx[p]) \/ Goto(p, "ensure", c)
  BY DEF Discover
<1> HIDE DEF c
<1>3. QED
  BY <1>1, <1>2, LocalMove DEF Discover, IInv, TypeOK, Pc, Disassembling

LEMMA OutputsInv == ASSUME IInv, NEW p \in Proc, Outputs(p) PROVE IInv'
<1> DEFINE c == [ctx[p] EXCEPT !.table = "disasm_lines", !.work = ctx[p].lines]
<1>1. c \in Context /\ mapping' \in Content
  BY DEF Outputs, IInv, TypeOK, Context, Table
<1>2. Goto(p, "ensure", c)
  BY DEF Outputs
<1> HIDE DEF c
<1>3. QED
  BY <1>1, <1>2, LocalMove DEF Outputs, IInv, TypeOK, Pc, Disassembling

LEMMA HitOutputsInv == ASSUME IInv, NEW p \in Proc, HitOutputs(p) PROVE IInv'
<1>1. mapping' \in Content
  BY DEF HitOutputs, IInv, TypeOK, Context
<1>2. QED
  BY <1>1, ExitIsGoto, NoContextIsContext, LocalMove
     DEF HitOutputs, IInv, TypeOK, Pc, Disassembling

LEMMA HitRaisesInv == ASSUME IInv, NEW p \in Proc, HitRaises(p) PROVE IInv'
<1>1. Goto(p, "idle", NoContext) /\ "idle" \in Pc /\ NoContext \in Context
  BY ExitIsGoto, NoContextIsContext DEF HitRaises, Pc
<1>2. CASE UNCHANGED <<db, holder, tx>>
  BY <1>1, <1>2, LocalMove DEF HitRaises, IInv, TypeOK, Disassembling
<1>3. CASE holder = NoProc /\ Commit(NoRow)
  BY <1>1, <1>3, WriteMove, NoRowIsStore, NoRowIsWhole
     DEF HitRaises, MayWrite, IInv, TypeOK, Disassembling
<1>4. QED
  BY <1>2, <1>3 DEF HitRaises

LEMMA InvalidateInv == ASSUME IInv, Invalidate PROVE IInv'
<1>1. TypeOK'
  BY NoRowIsStore DEF Invalidate, Commit, IInv, TypeOK
<1>2. LockInv'
  BY ProcAssumption DEF Invalidate, Commit, IInv, LockInv
<1>3. WholeInv'
  BY NoRowIsWhole, ProcAssumption DEF Invalidate, Commit, IInv, WholeInv, WholeStore
<1>4. QED
  BY <1>1, <1>2, <1>3 DEF IInv

LEMMA IdleInv == ASSUME IInv, UNCHANGED <<mapping, db, holder, tx, pc, ctx>>,
                        content' \in Content
                 PROVE  IInv'
BY DEF IInv, TypeOK, LockInv, Inserted, WholeInv, WholeStore

LEMMA StepInv == ASSUME IInv, NEW p \in Proc, Step(p) PROVE IInv'
<1>1. CASE Get(p) \/ Select(p) \/ Rows(p) \/ Compute(p)
  BY <1>1, GetInv, SelectInv, RowsInv, ComputeInv
<1>2. CASE Ensure(p) \/ Lookup(p) \/ Insert(p)
  BY <1>2, EnsureInv, LookupInv, InsertInv
<1>3. CASE Replace(p) \/ ReplaceRaises(p) \/ Busy(p)
  BY <1>3, ReplaceInv, ReplaceRaisesInv, BusyInv
<1>4. CASE Begin(p) \/ ReadCode(p) \/ LoadContext(p)
  BY <1>4, BeginInv, ReadCodeInv, LoadContextInv
<1>5. CASE StreamBatch(p) \/ StreamOutputs(p) \/ StreamCommit(p)
  BY <1>5, StreamBatchInv, StreamOutputsInv, StreamCommitInv
<1>6. CASE StreamRaises(p)
  BY <1>6, AbortMove DEF StreamRaises
<1>7. CASE Discover(p) \/ Outputs(p) \/ HitOutputs(p) \/ HitRaises(p)
  BY <1>7, DiscoverInv, OutputsInv, HitOutputsInv, HitRaisesInv
<1>8. QED
  BY <1>1, <1>2, <1>3, <1>4, <1>5, <1>6, <1>7 DEF Step

LEMMA NextInv == IInv /\ [Next]_vars => IInv'
<1> SUFFICES ASSUME IInv, [Next]_vars PROVE IInv'
  OBVIOUS
<1>1. ASSUME NEW p \in Proc, Start(p) \/ StartCallGraph(p) \/ Step(p) \/ Crash(p)
      PROVE  IInv'
  BY <1>1, StartInv, StartCallGraphInv, StepInv, AbortMove DEF Crash
<1>2. CASE Invalidate
  BY <1>2, InvalidateInv
<1>3. CASE ChangeContent
  BY <1>3, IdleInv DEF ChangeContent
<1>4. CASE UNCHANGED vars
  BY <1>4, IdleInv DEF vars, IInv, TypeOK
<1>5. QED
  BY <1>1, <1>2, <1>3, <1>4 DEF Next

(* Every variable keeps its type, whatever runs together and dies.         *)
THEOREM CacheTypeCorrect == Spec => []TypeOK
<1>1. IInv => TypeOK
  BY DEF IInv
<1>2. QED
  BY <1>1, InitIInv, NextInv, PTL DEF Spec

(* No reader is ever given a part of a listing: for any number of          *)
(* processes and batches, whatever dies or changes and whenever.           *)
THEOREM ListingWhole == Spec => []WholeListing
<1>1. IInv => WholeListing
  BY DEF IInv, WholeInv, WholeStore, WholeListing
<1>2. QED
  BY <1>1, InitIInv, NextInv, PTL DEF Spec

-----------------------------------------------------------------------------
(***************************************************************************)
(* The invariant behind Fresh.  When the binary only changes between       *)
(* operations and no call graph is drawn from an old mapping file, what a  *)
(* process holds is about the content on disk: its lines, the hash it is   *)
(* about to use, and the row it looked up, if that row is still there (ids *)
(* are not reused).  A transaction never changes the row itself.           *)
(***************************************************************************)
Quiet == "overlap" \notin Faults /\ "oldmapping" \notin Faults

FreshStore(s) ==
    \A t \in Table : s.tables[t] # None => s.tables[t].from = {s.hash}

\* Process state (l, c) is about the current content, given the row of s.
About(s, l, c) ==
    /\ c.id # 0 /\ s.id = c.id => s.hash = content
    /\ c.lines \cup c.work \subseteq {content}
    /\ l \in {"select", "lookup", "insert"} => c.hash = content
    /\ l \in {"rows", "begin", "replace", "read", "context", "stream", "commit"}
            => c.id # 0
    /\ l \in {"context", "stream", "commit"} => c.lines = {content}
    /\ l = "idle" => c = NoContext

RowInv ==
    /\ holder # NoProc => tx.id = db.id /\ tx.hash = db.hash
    /\ holder = NoProc => tx = NoRow

QuietInv ==
    /\ FreshStore(db) /\ FreshStore(tx)
    /\ RowInv
    /\ \A p \in Proc : About(db, pc[p], ctx[p])

LEMMA NoRowIsFresh == FreshStore(NoRow)
BY DEF FreshStore, NoRow, NoTables

LEMMA NoContextIsAbout == ASSUME NEW s, NEW l \in {"idle", "get", "compute"}
                          PROVE  About(s, l, NoContext)
BY DEF About, NoContext

LEMMA InitQuietInv == Init => QuietInv
<1> SUFFICES ASSUME Init PROVE QuietInv
  OBVIOUS
<1>1. \A p \in Proc : About(db, pc[p], ctx[p])
  BY NoContextIsAbout DEF Init
<1>2. QED
  BY <1>1, NoRowIsFresh DEF Init, QuietInv, RowInv

\* A move that leaves the database alone.
LEMMA LocalAbout ==
    ASSUME IInv, QuietInv, NEW p \in Proc, NEW l \in Pc, NEW c \in Context,
           Goto(p, l, c), UNCHANGED <<content, db, holder, tx>>, About(db, l, c)
    PROVE  QuietInv'
<1>1. ASSUME NEW q \in Proc PROVE About(db, pc'[q], ctx'[q])
  BY GotoFacts DEF IInv, QuietInv
<1>2. \A q \in Proc : About(db, pc[q], ctx[q])'
  BY <1>1 DEF About
<1>3. QED
  BY <1>2 DEF QuietInv, RowInv, FreshStore

\* A move that commits `store`.
LEMMA WriteAbout ==
    ASSUME IInv, QuietInv, NEW p \in Proc, NEW l \in Pc, NEW c \in Context,
           Goto(p, l, c), UNCHANGED content, NEW store, Commit(store),
           FreshStore(store), About(store, l, c),
           \A q \in Proc : ctx[q].id # 0 /\ store.id = ctx[q].id => store.hash = content
    PROVE  QuietInv'
<1>1. ASSUME NEW q \in Proc PROVE About(store, pc'[q], ctx'[q])
  BY GotoFacts DEF IInv, QuietInv, About
<1>2. \A q \in Proc : About(db, pc[q], ctx[q])'
  BY <1>1 DEF About, Commit
<1>3. FreshStore(db)' /\ FreshStore(tx)' /\ RowInv'
  BY NoRowIsFresh DEF Commit, FreshStore, RowInv
<1>4. QED
  BY <1>2, <1>3 DEF QuietInv

\* No row: nobody's row.
LEMMA DropAbout ==
    ASSUME IInv, QuietInv, NEW p \in Proc, NEW l \in Pc, NEW c \in Context,
           Goto(p, l, c), UNCHANGED content, Commit(NoRow), About(NoRow, l, c)
    PROVE  QuietInv'
<1>1. \A q \in Proc : ctx[q].id # 0 /\ NoRow.id = ctx[q].id => NoRow.hash = content
  BY DEF NoRow
<1>2. QED
  BY <1>1, WriteAbout, NoRowIsFresh

LEMMA AbortAbout ==
    ASSUME IInv, QuietInv, NEW p \in Proc, Abort(p)
    PROVE  QuietInv'
<1>1. Goto(p, "idle", NoContext) /\ "idle" \in Pc /\ NoContext \in Context
      /\ About(db, "idle", NoContext)
  BY ExitIsGoto, NoContextIsContext, NoContextIsAbout DEF Abort, Pc
<1>2. CASE holder = p
  <2>1. Commit(db)
    BY <1>2 DEF Abort, Release, Commit
  <2>2. \A q \in Proc : ctx[q].id # 0 /\ db.id = ctx[q].id => db.hash = content
    BY DEF QuietInv, About
  <2>3. QED
    BY <1>1, <2>1, <2>2, WriteAbout DEF Abort, QuietInv
<1>3. CASE holder # p
  BY <1>1, <1>3, LocalAbout DEF Abort, Release
<1>4. QED
  BY <1>2, <1>3

\* What p sees has the committed row, and is as fresh.
LEMMA ViewAbout ==
    ASSUME QuietInv, NEW p \in Proc
    PROVE  /\ View(p).id = db.id /\ View(p).hash = db.hash
           /\ FreshStore(View(p))
BY ProcAssumption DEF QuietInv, RowInv, View

\* Where a miss and a settled table lead.
LEMMA MissedAbout ==
    ASSUME IInv, QuietInv, NEW p \in Proc, Missed(p), NEW s
    PROVE  \E l \in {"ensure", "compute"}, c \in Context :
              Goto(p, l, c) /\ About(s, l, c)
BY MissedFacts DEF IInv, QuietInv, About

LEMMA SettledAbout ==
    ASSUME IInv, QuietInv, NEW p \in Proc, NEW lines \in SUBSET Content,
           Settled(p, lines), lines \subseteq {content},
           NEW s, ctx[p].id # 0 /\ s.id = ctx[p].id => s.hash = content
    PROVE  \E l \in {"idle", "outputs", "get", "compute"}, c \in Context :
              Goto(p, l, c) /\ About(s, l, c)
<1>1. PICK l \in {"idle", "outputs", "get", "compute"}, c \in Context :
              /\ Goto(p, l, c)
              /\ c.work = {}
              /\ c.id \in {0, ctx[p].id}
              /\ c.lines \in {{}, lines, ctx[p].lines}
              /\ l = "idle" => c = NoContext
  BY SettledFacts DEF IInv
<1>2. About(s, l, c)
  BY <1>1 DEF About, QuietInv
<1>3. QED
  BY <1>1, <1>2

-----------------------------------------------------------------------------
LEMMA StartAbout == ASSUME IInv, QuietInv, NEW p \in Proc, Start(p) PROVE QuietInv'
<1>1. PICK op \in Op \ {"none", "call_graph"} :
        Goto(p, CASE op = "rewrite" -> "ensure"
                  [] op = "reindex" -> "compute"
                  [] OTHER          -> "get", [NoContext EXCEPT !.op = op])
  BY DEF Start
<1> DEFINE c == [NoContext EXCEPT !.op = op]
           l == CASE op = "rewrite" -> "ensure"
                  [] op = "reindex" -> "compute"
                  [] OTHER          -> "get"
<1>2. c \in Context /\ c.id = 0 /\ c.lines = {} /\ c.work = {}
  BY NoContextIsContext DEF Context, NoContext
<1>3. l \in {"ensure", "compute", "get"}
  OBVIOUS
<1> HIDE DEF l, c
<1>4. Goto(p, l, c)
  BY <1>1 DEF l, c
<1>5. l \in Pc /\ About(db, l, c)
  BY <1>2, <1>3 DEF Pc, About
<1>6. QED
  BY <1>2, <1>4, <1>5, LocalAbout DEF Start

LEMMA StartCallGraphAbout ==
    ASSUME Quiet, IInv, QuietInv, NEW p \in Proc, StartCallGraph(p) PROVE QuietInv'
<1> DEFINE c == [NoContext EXCEPT !.op = "call_graph", !.table = "basic_blocks",
                                  !.lines = {mapping}]
<1>1. c \in Context /\ c.id = 0 /\ c.lines = {content} /\ c.work = {}
  BY NoContextIsContext
     DEF StartCallGraph, Quiet, IInv, TypeOK, Context, NoContext, Op, Table
<1>2. Goto(p, "get", c)
  BY DEF StartCallGraph
<1> HIDE DEF c
<1>3. "get" \in Pc /\ About(db, "get", c)
  BY <1>1 DEF Pc, About
<1>4. QED
  BY <1>1, <1>2, <1>3, LocalAbout DEF StartCallGraph

LEMMA HashAbout ==
    ASSUME IInv, QuietInv, NEW p \in Proc, Get(p) \/ Ensure(p) PROVE QuietInv'
<1> DEFINE c == [ctx[p] EXCEPT !.hash = content]
<1>1. /\ c \in Context /\ c.id = ctx[p].id /\ c.lines = ctx[p].lines
      /\ c.work = ctx[p].work /\ c.hash = content
  BY DEF IInv, TypeOK, Context
<1>2. PICK l \in {"select", "lookup"} : Goto(p, l, c)
  BY DEF Get, Ensure
<1> HIDE DEF c
<1>3. l \in Pc /\ About(db, l, c)
  BY <1>1 DEF Pc, About, QuietInv
<1>4. QED
  BY <1>1, <1>2, <1>3, LocalAbout DEF Get, Ensure

LEMMA SelectAbout == ASSUME IInv, QuietInv, NEW p \in Proc, Select(p) PROVE QuietInv'
<1>1. CASE Missed(p) /\ UNCHANGED <<db, holder, tx>>
  <2>1. PICK l \in {"ensure", "compute"}, c \in Context :
            Goto(p, l, c) /\ About(db, l, c)
    BY <1>1, MissedAbout
  <2>2. QED
    BY <1>1, <2>1, LocalAbout DEF Select, Pc
<1>2. CASE /\ db.id # 0 /\ db.hash = ctx[p].hash
           /\ Goto(p, "rows", [ctx[p] EXCEPT !.id = db.id])
           /\ UNCHANGED <<db, holder, tx>>
  <2> DEFINE c == [ctx[p] EXCEPT !.id = db.id]
  <2>1. /\ c \in Context /\ c.id = db.id /\ c.lines = ctx[p].lines
        /\ c.work = ctx[p].work
    BY DEF IInv, TypeOK, Context, Store
  <2>2. ctx[p].hash = content
    BY DEF Select, QuietInv, About
  <2>3. Goto(p, "rows", c)
    BY <1>2
  <2> HIDE DEF c
  <2>4. About(db, "rows", c)
    BY <1>2, <2>1, <2>2 DEF About, QuietInv
  <2>5. QED
    BY <1>2, <2>1, <2>3, <2>4, LocalAbout DEF Select, Pc
<1>3. CASE Missed(p) /\ Commit(NoRow)
  <2>1. PICK l \in {"ensure", "compute"}, c \in Context :
            Goto(p, l, c) /\ About(NoRow, l, c)
    BY <1>3, MissedAbout
  <2>2. QED
    BY <1>3, <2>1, DropAbout DEF Select, Pc
<1>4. QED
  BY <1>1, <1>2, <1>3 DEF Select

LEMMA RowsAbout == ASSUME IInv, QuietInv, NEW p \in Proc, Rows(p) PROVE QuietInv'
<1> DEFINE from  == db.tables[ctx[p].table].from
           lines == IF ctx[p].table = "disasm_lines" THEN from ELSE ctx[p].lines
           c     == [ctx[p] EXCEPT !.lines = from]
<1>1. /\ from \in SUBSET Content /\ lines \in SUBSET Content /\ c \in Context
      /\ c.id = ctx[p].id /\ c.lines = from /\ c.work = ctx[p].work
      /\ ctx[p].table \in Table
  BY DEF IInv, TypeOK, Context, Store, Artifact
<1>2. /\ ctx[p].id # 0 /\ db.id = ctx[p].id => db.hash = content
      /\ ctx[p].id # 0
      /\ ctx[p].lines \cup ctx[p].work \subseteq {content}
  BY DEF Rows, QuietInv, About
<1>3. CASE Missed(p)
  <2>1. PICK l \in {"ensure", "compute"}, d \in Context :
            Goto(p, l, d) /\ About(db, l, d)
    BY <1>3, MissedAbout
  <2>2. QED
    BY <2>1, LocalAbout DEF Rows, Pc
<1>4. CASE db.id = ctx[p].id /\ db.tables[ctx[p].table] # None /\ ~Missed(p)
  <2>1. from = {content}
    BY <1>1, <1>2, <1>4 DEF QuietInv, FreshStore
  <2>2. Goto(p, "hit", c) \/ Settled(p, lines)
    BY <1>4 DEF Rows
  <2> HIDE DEF c, from
  <2>3. About(db, "hit", c)
    BY <1>1, <1>2, <2>1 DEF About
  <2>4. lines \subseteq {content}
    BY <1>2, <2>1
  <2> HIDE DEF lines
  <2>5. PICK l \in {"hit", "idle", "outputs", "get", "compute"}, d \in Context :
            Goto(p, l, d) /\ About(db, l, d)
    BY <1>1, <1>2, <2>2, <2>3, <2>4, SettledAbout
  <2>6. QED
    BY <2>5, LocalAbout DEF Rows, Pc
<1>5. QED
  BY <1>3, <1>4 DEF Rows

LEMMA ComputeAbout ==
    ASSUME IInv, QuietInv, NEW p \in Proc, Compute(p) PROVE QuietInv'
<1>1. ctx[p].lines \cup ctx[p].work \subseteq {content} /\ ctx[p] \in Context
      /\ content \in Content
  BY DEF QuietInv, About, IInv, TypeOK
<1>2. \E c \in Context : /\ Goto(p, "ensure", c)
                         /\ c.id = ctx[p].id
                         /\ c.lines \cup c.work \subseteq {content}
  <2>1. CASE Goto(p, "ensure", [ctx[p] EXCEPT !.lines = {content}, !.work = {content}])
    <3> DEFINE c == [ctx[p] EXCEPT !.lines = {content}, !.work = {content}]
    <3>1. c \in Context /\ c.id = ctx[p].id /\ c.lines = {content} /\ c.work = {content}
      BY <1>1 DEF Context
    <3>2. QED
      BY <2>1, <3>1
  <2>2. ASSUME NEW work \in {{}, ctx[p].lines \cup {content}},
               Goto(p, "ensure", [ctx[p] EXCEPT !.work = work])
        PROVE  \E c \in Context : /\ Goto(p, "ensure", c)
                                  /\ c.id = ctx[p].id
                                  /\ c.lines \cup c.work \subseteq {content}
    <3> DEFINE c == [ctx[p] EXCEPT !.work = work]
    <3>1. c \in Context /\ c.id = ctx[p].id /\ c.lines = ctx[p].lines /\ c.work = work
      BY <1>1, <2>2 DEF Context
    <3>2. c.lines \cup c.work \subseteq {content}
      BY <1>1, <2>2, <3>1
    <3>3. QED
      BY <2>2, <3>1, <3>2
  <2>3. QED
    BY <2>1, <2>2 DEF Compute
<1>3. PICK c \in Context : /\ Goto(p, "ensure", c)
                           /\ c.id = ctx[p].id
                           /\ c.lines \cup c.work \subseteq {content}
  BY <1>2
<1>4. About(db, "ensure", c)
  BY <1>3 DEF About, QuietInv
<1>5. QED
  BY <1>3, <1>4, LocalAbout DEF Compute, Pc

LEMMA LookupAbout == ASSUME IInv, QuietInv, NEW p \in Proc, Lookup(p) PROVE QuietInv'
<1> DEFINE c == [ctx[p] EXCEPT !.id = View(p).id]
<1>1. /\ c \in Context /\ c.id = View(p).id /\ c.lines = ctx[p].lines
      /\ c.work = ctx[p].work /\ ctx[p] \in Context
  BY ViewFacts DEF Lookup, IInv, TypeOK, Context, Store
<1>2. View(p).id = db.id /\ View(p).hash = db.hash
  BY ViewAbout
<1>3. ctx[p].hash = content /\ About(db, "lookup", ctx[p])
  BY DEF Lookup, QuietInv, About
<1>4. CASE Goto(p, "insert", ctx[p])
  BY <1>1, <1>3, <1>4, LocalAbout DEF Lookup, Pc, About
<1>5. CASE View(p).id # 0 /\ View(p).hash = ctx[p].hash
  <2>1. PICK l \in {"begin", "replace"} : Goto(p, l, c)
    BY <1>5 DEF Lookup, Wanted
  <2> HIDE DEF c
  <2>2. About(db, l, c)
    BY <1>1, <1>2, <1>3, <1>5 DEF About
  <2>3. QED
    BY <1>1, <2>1, <2>2, LocalAbout DEF Lookup, Pc
<1>6. QED
  BY <1>4, <1>5 DEF Lookup

LEMMA InsertAbout == ASSUME IInv, QuietInv, NEW p \in Proc, Insert(p) PROVE QuietInv'
<1>1. PICK id \in IdPool \ Remembered :
        /\ Commit([NoRow EXCEPT !.id = id, !.hash = ctx[p].hash])
        /\ Goto(p, Wanted(p), [ctx[p] EXCEPT !.id = id])
  BY DEF Insert
<1> DEFINE store == [NoRow EXCEPT !.id = id, !.hash = ctx[p].hash]
           c     == [ctx[p] EXCEPT !.id = id]
<1>2. /\ store.id = id /\ store.hash = ctx[p].hash /\ store.tables = NoTables
      /\ c \in Context /\ c.id = id /\ c.lines = ctx[p].lines /\ c.work = ctx[p].work
      /\ id # 0
  BY IdAssumption DEF NoRow, IInv, TypeOK, Context
<1>3. ctx[p].hash = content
  BY DEF Insert, QuietInv, About
<1>4. Commit(store) /\ (Goto(p, "begin", c) \/ Goto(p, "replace", c))
  BY <1>1 DEF Wanted
<1> HIDE DEF store, c
<1>5. FreshStore(store)
  BY <1>2 DEF FreshStore, NoTables
<1>6. \A q \in Proc : ctx[q].id # 0 /\ store.id = ctx[q].id => store.hash = content
  BY <1>2, <1>3
<1>7. About(store, "begin", c) /\ About(store, "replace", c)
  BY <1>2, <1>3 DEF About, QuietInv
<1>8. QED
  BY <1>2, <1>4, <1>5, <1>6, <1>7, WriteAbout DEF Insert, Pc

LEMMA ReplaceAbout ==
    ASSUME IInv, QuietInv, NEW p \in Proc, Replace(p) PROVE QuietInv'
<1> DEFINE v     == View(p)
           saved == [v EXCEPT !.tables[ctx[p].table] = Whole(ctx[p].work)]
           store == IF v.id = ctx[p].id THEN saved ELSE v
<1>1. v \in Store /\ v.id = db.id /\ v.hash = db.hash /\ FreshStore(v)
  BY ViewFacts, ViewAbout DEF Replace
<1>2. /\ ctx[p].work \in SUBSET Content /\ ctx[p].lines \in SUBSET Content
      /\ ctx[p].table \in Table
  BY DEF IInv, TypeOK, Context
<1>3. /\ ctx[p].id # 0
      /\ db.id = ctx[p].id => db.hash = content
      /\ ctx[p].lines \subseteq {content} /\ ctx[p].work \subseteq {content}
  BY DEF Replace, QuietInv, About
<1>4. v.id = ctx[p].id => /\ saved.id = db.id /\ saved.hash = db.hash
                          /\ FreshStore(saved)
  <2> HIDE DEF v
  <2> SUFFICES ASSUME v.id = ctx[p].id
               PROVE  /\ saved.id = db.id /\ saved.hash = db.hash
                      /\ FreshStore(saved)
    OBVIOUS
  <2>1. /\ saved.id = v.id /\ saved.hash = v.hash
        /\ saved.tables[ctx[p].table] = Whole(ctx[p].work)
        /\ \A t \in Table \ {ctx[p].table} : saved.tables[t] = v.tables[t]
    BY <1>1, <1>2 DEF Store
  <2>2. Whole(ctx[p].work) # None => Whole(ctx[p].work).from = {content}
    BY <1>3 DEF Whole
  <2>3. QED
    BY <1>1, <1>3, <2>1, <2>2 DEF FreshStore
<1>5. store.id = db.id /\ store.hash = db.hash /\ FreshStore(store)
  BY <1>1, <1>4
<1>6. Commit(store) /\ Settled(p, ctx[p].lines)
  BY DEF Replace
<1> HIDE DEF store
<1>7. \A q \in Proc : ctx[q].id # 0 /\ store.id = ctx[q].id => store.hash = content
  BY <1>5 DEF QuietInv, About
<1>8. PICK l \in {"idle", "outputs", "get", "compute"}, c \in Context :
            Goto(p, l, c) /\ About(store, l, c)
  BY <1>2, <1>3, <1>6, <1>7, SettledAbout
<1>9. QED
  BY <1>5, <1>6, <1>7, <1>8, WriteAbout DEF Replace, Pc

\* In the sink a failed save goes on, whether or not it opens a transaction.
LEMMA SinkAbout ==
    ASSUME IInv, QuietInv, NEW p \in Proc, Settled(p, ctx[p].lines)
    PROVE  \E l \in {"idle", "outputs", "get", "compute"}, c \in Context :
              Goto(p, l, c) /\ About(db, l, c)
<1>1. /\ ctx[p].lines \in SUBSET Content
      /\ ctx[p].id # 0 /\ db.id = ctx[p].id => db.hash = content
      /\ ctx[p].lines \subseteq {content}
  BY DEF IInv, TypeOK, Context, QuietInv, About
<1>2. QED
  BY <1>1, SettledAbout

LEMMA ReplaceRaisesAbout ==
    ASSUME IInv, QuietInv, NEW p \in Proc, ReplaceRaises(p) PROVE QuietInv'
<1>1. CASE ~InSink(p)
  BY <1>1, AbortAbout DEF ReplaceRaises
<1>2. CASE InSink(p)
  <2>1. /\ holder' = p /\ tx' = View(p) /\ UNCHANGED <<content, db>>
        /\ Settled(p, ctx[p].lines)
    BY <1>2 DEF ReplaceRaises
  <2>2. PICK l \in {"idle", "outputs", "get", "compute"}, c \in Context :
            Goto(p, l, c) /\ About(db, l, c)
    BY <2>1, SinkAbout
  <2>3. FreshStore(db)' /\ FreshStore(tx)' /\ RowInv'
    BY <2>1, ViewAbout, ProcAssumption DEF QuietInv, FreshStore, RowInv
  <2>4. \A q \in Proc : About(db, pc'[q], ctx'[q])
    BY <2>2, GotoFacts DEF QuietInv, IInv, Pc
  <2>5. \A q \in Proc : About(db, pc[q], ctx[q])'
    BY <2>1, <2>4 DEF About
  <2>6. QED
    BY <2>3, <2>5 DEF QuietInv
<1>3. QED
  BY <1>1, <1>2

LEMMA BusyAbout == ASSUME IInv, QuietInv, NEW p \in Proc, Busy(p) PROVE QuietInv'
<1>1. CASE ~(pc[p] = "replace" /\ InSink(p))
  BY <1>1, AbortAbout DEF Busy
<1>2. CASE pc[p] = "replace" /\ InSink(p)
  <2>1. PICK l \in {"idle", "outputs", "get", "compute"}, c \in Context :
            Goto(p, l, c) /\ About(db, l, c)
    BY <1>2, SinkAbout DEF Busy
  <2>2. QED
    BY <1>2, <2>1, LocalAbout DEF Busy, Pc
<1>3. QED
  BY <1>1, <1>2

-----------------------------------------------------------------------------
LEMMA BeginAbout == ASSUME IInv, QuietInv, NEW p \in Proc, Begin(p) PROVE QuietInv'
<1> DEFINE v == View(p)
           c == [ctx[p] EXCEPT !.before =
                    IF db.id = ctx[p].id THEN db.tables["disasm_lines"] ELSE None]
           emptied == [v EXCEPT !.tables["disasm_lines"] = None]
<1>1. v \in Store /\ v.id = db.id /\ v.hash = db.hash /\ FreshStore(v)
  BY ViewFacts, ViewAbout DEF Begin
<1>2. /\ c \in Context /\ c.id = ctx[p].id /\ c.lines = ctx[p].lines
      /\ c.work = ctx[p].work
  BY NoneIsArtifact DEF IInv, TypeOK, Context, Store, Table
<1>3. /\ holder' = p /\ UNCHANGED <<content, mapping, db>>
      /\ tx' = IF v.id = ctx[p].id THEN emptied ELSE v
      /\ Goto(p, "read", c)
  BY DEF Begin
<1>4. emptied.id = v.id /\ emptied.hash = v.hash /\ FreshStore(emptied)
  <2> HIDE DEF v
  <2>1. QED
    BY <1>1 DEF Store, FreshStore
<1> HIDE DEF c, emptied, v
<1>5. FreshStore(db)' /\ FreshStore(tx)' /\ RowInv'
  BY <1>1, <1>3, <1>4, ProcAssumption DEF QuietInv, FreshStore, RowInv
<1>6. About(db, "read", c)
  BY <1>2 DEF Begin, QuietInv, About
<1>7. \A q \in Proc : About(db, pc'[q], ctx'[q])
  BY <1>2, <1>3, <1>6, GotoFacts DEF QuietInv, IInv, Pc
<1>8. \A q \in Proc : About(db, pc[q], ctx[q])'
  BY <1>3, <1>7 DEF About
<1>9. QED
  BY <1>5, <1>8 DEF QuietInv

LEMMA ReadCodeAbout ==
    ASSUME IInv, QuietInv, NEW p \in Proc, ReadCode(p) PROVE QuietInv'
<1> DEFINE c == [ctx[p] EXCEPT !.lines = {content}]
<1>1. /\ c \in Context /\ c.id = ctx[p].id /\ c.lines = {content}
      /\ c.work = ctx[p].work
  BY DEF IInv, TypeOK, Context
<1>2. Goto(p, "context", c)
  BY DEF ReadCode
<1> HIDE DEF c
<1>3. About(db, "context", c)
  BY <1>1 DEF ReadCode, About, QuietInv
<1>4. QED
  BY <1>1, <1>2, <1>3, LocalAbout DEF ReadCode, Pc

LEMMA LoadContextAbout ==
    ASSUME IInv, QuietInv, NEW p \in Proc, LoadContext(p) PROVE QuietInv'
<1>1. ctx[p] \in Context /\ About(db, "context", ctx[p])
  BY DEF LoadContext, IInv, TypeOK, QuietInv
<1>2. PICK l \in {"stream", "discover"} : Goto(p, l, ctx[p])
  BY DEF LoadContext
<1>3. About(db, l, ctx[p])
  BY <1>1 DEF About
<1>4. QED
  BY <1>1, <1>2, <1>3, LocalAbout DEF LoadContext, Pc

\* The listing that p streams is that of the row it streams into.
LEMMA StreamAbout ==
    ASSUME IInv, QuietInv, NEW p \in Proc, pc[p] \in {"stream", "commit"},
           tx.id = ctx[p].id, NEW n,
           NEW store, store = [tx EXCEPT !.tables["disasm_lines"] =
                                  [from |-> ctx[p].lines, n |-> n]]
    PROVE  store.id = db.id /\ store.hash = db.hash /\ FreshStore(store)
<1>1. tx \in Store /\ holder = p
  BY DEF IInv, TypeOK, LockInv, Disassembling
<1>2. tx.id = db.id /\ tx.hash = db.hash /\ FreshStore(tx)
  BY <1>1, ProcAssumption DEF QuietInv, RowInv
<1>3. ctx[p].lines = {content} /\ db.hash = content
  BY <1>2 DEF QuietInv, About
<1>4. /\ store.id = tx.id /\ store.hash = tx.hash
      /\ store.tables["disasm_lines"].from = {content}
      /\ \A t \in Table \ {"disasm_lines"} : store.tables[t] = tx.tables[t]
  BY <1>1, <1>3 DEF Store, Table
<1>5. QED
  BY <1>2, <1>3, <1>4 DEF FreshStore

LEMMA StreamBatchAbout ==
    ASSUME IInv, QuietInv, NEW p \in Proc, StreamBatch(p) PROVE QuietInv'
<1>1. tx'.id = db.id /\ tx'.hash = db.hash /\ FreshStore(tx')
  BY StreamAbout DEF StreamBatch, AppendRows
<1>2. holder = p
  BY DEF StreamBatch, IInv, LockInv, Disassembling
<1>3. FreshStore(db)' /\ FreshStore(tx)' /\ RowInv'
  BY <1>1, <1>2, ProcAssumption DEF StreamBatch, QuietInv, FreshStore, RowInv
<1>4. \A q \in Proc : About(db, pc[q], ctx[q])'
  BY DEF StreamBatch, QuietInv, About
<1>5. QED
  BY <1>3, <1>4 DEF QuietInv

LEMMA StreamOutputsAbout ==
    ASSUME IInv, QuietInv, NEW p \in Proc, StreamOutputs(p) PROVE QuietInv'
<1>1. ctx[p] \in Context /\ About(db, "commit", ctx[p])
  BY DEF StreamOutputs, IInv, TypeOK, QuietInv, About
<1>2. QED
  BY <1>1, LocalAbout DEF StreamOutputs, Pc

LEMMA StreamCommitAbout ==
    ASSUME IInv, QuietInv, NEW p \in Proc, StreamCommit(p) PROVE QuietInv'
<1> DEFINE store == [tx EXCEPT !.tables["disasm_lines"] =
                        [from |-> ctx[p].lines, n |-> tx.tables["disasm_lines"].n + 1]]
<1>1. store.id = db.id /\ store.hash = db.hash /\ FreshStore(store)
  BY StreamAbout DEF StreamCommit
<1>2. Commit(store) /\ Goto(p, "idle", NoContext)
  BY ExitIsGoto DEF StreamCommit
<1> HIDE DEF store
<1>3. \A q \in Proc : ctx[q].id # 0 /\ store.id = ctx[q].id => store.hash = content
  BY <1>1 DEF QuietInv, About
<1>4. QED
  BY <1>1, <1>2, <1>3, WriteAbout, NoContextIsContext, NoContextIsAbout
     DEF StreamCommit, Pc

LEMMA DiscoverAbout ==
    ASSUME IInv, QuietInv, NEW p \in Proc, Discover(p) PROVE QuietInv'
<1> DEFINE c == [ctx[p] EXCEPT !.table = "functions",
                               !.work = ctx[p].lines \cup {content}]
<1>1. /\ c \in Context /\ c.id = ctx[p].id /\ c.lines = ctx[p].lines
      /\ c.work = ctx[p].lines \cup {content} /\ ctx[p] \in Context
  BY DEF IInv, TypeOK, Context, Table
<1>2. About(db, "discover", ctx[p])
  BY DEF Discover, QuietInv
<1>3. Goto(p, "outputs", ctx[p]) \/ Goto(p, "ensure", c)
  BY DEF Discover
<1> HIDE DEF c
<1>4. About(db, "outputs", ctx[p]) /\ About(db, "ensure", c)
  BY <1>1, <1>2 DEF About
<1>5. QED
  BY <1>1, <1>3, <1>4, LocalAbout DEF Discover, Pc

LEMMA OutputsAbout ==
    ASSUME IInv, QuietInv, NEW p \in Proc, Outputs(p) PROVE QuietInv'
<1> DEFINE c == [ctx[p] EXCEPT !.table = "disasm_lines", !.work = ctx[p].lines]
<1>1. /\ c \in Context /\ c.id = ctx[p].id /\ c.lines = ctx[p].lines
      /\ c.work = ctx[p].lines
  BY DEF IInv, TypeOK, Context, Table
<1>2. Goto(p, "ensure", c)
  BY DEF Outputs
<1> HIDE DEF c
<1>3. About(db, "ensure", c)
  BY <1>1 DEF QuietInv, About
<1>4. QED
  BY <1>1, <1>2, <1>3, LocalAbout DEF Outputs, Pc

LEMMA HitAbout ==
    ASSUME IInv, QuietInv, NEW p \in Proc, HitOutputs(p) \/ HitRaises(p)
    PROVE  QuietInv'
<1>1. /\ Goto(p, "idle", NoContext) /\ "idle" \in Pc /\ NoContext \in Context
      /\ About(db, "idle", NoContext) /\ About(NoRow, "idle", NoContext)
      /\ UNCHANGED content
  BY ExitIsGoto, NoContextIsContext, NoContextIsAbout DEF HitOutputs, HitRaises, Pc
<1>2. CASE UNCHANGED <<db, holder, tx>>
  BY <1>1, <1>2, LocalAbout
<1>3. CASE Commit(NoRow)
  BY <1>1, <1>3, DropAbout
<1>4. QED
  BY <1>2, <1>3 DEF HitOutputs, HitRaises

LEMMA InvalidateAbout == ASSUME IInv, QuietInv, Invalidate PROVE QuietInv'
<1>1. FreshStore(db)' /\ FreshStore(tx)' /\ RowInv'
  BY NoRowIsFresh DEF Invalidate, Commit, FreshStore, RowInv
<1>2. \A q \in Proc : About(db, pc[q], ctx[q])'
  BY DEF Invalidate, Commit, QuietInv, About, NoRow
<1>3. QED
  BY <1>1, <1>2 DEF QuietInv

LEMMA ChangeAbout == ASSUME Quiet, IInv, QuietInv, ChangeContent PROVE QuietInv'
<1>1. FreshStore(db)' /\ FreshStore(tx)' /\ RowInv'
  BY DEF ChangeContent, QuietInv, FreshStore, RowInv
<1>2. \A q \in Proc : pc[q] = "idle" /\ ctx[q] = NoContext
  BY DEF ChangeContent, Quiet, QuietInv, About
<1>3. \A q \in Proc : About(db, pc[q], ctx[q])'
  BY <1>2 DEF ChangeContent, About, NoContext
<1>4. QED
  BY <1>1, <1>3 DEF QuietInv

LEMMA StepAbout == ASSUME IInv, QuietInv, NEW p \in Proc, Step(p) PROVE QuietInv'
<1>1. CASE Get(p) \/ Select(p) \/ Rows(p) \/ Compute(p)
  BY <1>1, HashAbout, SelectAbout, RowsAbout, ComputeAbout
<1>2. CASE Ensure(p) \/ Lookup(p) \/ Insert(p)
  BY <1>2, HashAbout, LookupAbout, InsertAbout
<1>3. CASE Replace(p) \/ ReplaceRaises(p) \/ Busy(p)
  BY <1>3, ReplaceAbout, ReplaceRaisesAbout, BusyAbout
<1>4. CASE Begin(p) \/ ReadCode(p) \/ LoadContext(p)
  BY <1>4, BeginAbout, ReadCodeAbout, LoadContextAbout
<1>5. CASE StreamBatch(p) \/ StreamOutputs(p) \/ StreamCommit(p)
  BY <1>5, StreamBatchAbout, StreamOutputsAbout, StreamCommitAbout
<1>6. CASE StreamRaises(p)
  BY <1>6, AbortAbout DEF StreamRaises
<1>7. CASE Discover(p) \/ Outputs(p) \/ HitOutputs(p) \/ HitRaises(p)
  BY <1>7, DiscoverAbout, OutputsAbout, HitAbout
<1>8. QED
  BY <1>1, <1>2, <1>3, <1>4, <1>5, <1>6, <1>7 DEF Step

LEMMA NextQuiet == Quiet /\ IInv /\ QuietInv /\ [Next]_vars => QuietInv'
<1> SUFFICES ASSUME Quiet, IInv, QuietInv, [Next]_vars PROVE QuietInv'
  OBVIOUS
<1>1. ASSUME NEW p \in Proc, Start(p) \/ StartCallGraph(p) \/ Step(p) \/ Crash(p)
      PROVE  QuietInv'
  BY <1>1, StartAbout, StartCallGraphAbout, StepAbout, AbortAbout DEF Crash
<1>2. CASE Invalidate
  BY <1>2, InvalidateAbout
<1>3. CASE ChangeContent
  BY <1>3, ChangeAbout
<1>4. CASE UNCHANGED vars
  BY <1>4 DEF vars, QuietInv, FreshStore, RowInv, About
<1>5. QED
  BY <1>1, <1>2, <1>3, <1>4 DEF Next

(* Everything committed under a hash was computed from that content, for   *)
(* any number of processes that index, disassemble, invalidate and die     *)
(* together, when the binary changes between operations only.              *)
THEOREM CacheFresh == Quiet => (Spec => []Fresh)
<1> SUFFICES ASSUME Quiet PROVE Spec => []Fresh
  OBVIOUS
<1>1. Init => IInv /\ QuietInv
  BY InitIInv, InitQuietInv
<1>2. IInv /\ QuietInv /\ [Next]_vars => IInv' /\ QuietInv'
  BY NextInv, NextQuiet
<1>3. QuietInv => Fresh
  BY DEF QuietInv, FreshStore, Fresh
<1>4. QED
  BY <1>1, <1>2, <1>3, PTL DEF Spec

(* Then, too, no process works from, or stores, anything but the analysis  *)
(* of the bytes on disk.                                                   *)
THEOREM LinesCurrent == Quiet => (Spec => []CurrentLines)
<1> SUFFICES ASSUME Quiet PROVE Spec => []CurrentLines
  OBVIOUS
<1>1. Init => IInv /\ QuietInv
  BY InitIInv, InitQuietInv
<1>2. IInv /\ QuietInv /\ [Next]_vars => IInv' /\ QuietInv'
  BY NextInv, NextQuiet
<1>3. QuietInv => CurrentLines
  BY DEF QuietInv, About, CurrentLines
<1>4. QED
  BY <1>1, <1>2, <1>3, PTL DEF Spec

-----------------------------------------------------------------------------
(* What a decompilation answers *)

Ended(r) == AskAt(r, "done")
Live(r) == ~AskAt(r, "start") /\ ~Ended(r)
Still(r, what) == what \notin ask[r].moved
Attempts == [tool : Tools, file : Nat, kind : {"code", "empty", "error"}, how : {"none", "local", "http", "docker"}]
Steps == {"start", "docker", "pull", "again", "done"}

AskFields == {"at", "file", "types", "target", "notes", "refs", "frame", "rows", "rewrites", "key", "runs",
              "attempts", "best", "served", "moved"}
AskSteps == {"start", "notes", "refs", "frame", "rows", "types", "signrefs", "signrows", "signfile",
             "lookup", "choose", "run", "store", "done"}

AskTyped(r) ==
    LET q == ask[r] IN
    /\ DOMAIN q = AskFields /\ q.at \in AskSteps
    /\ q.attempts \in Seq(Attempts) /\ DOMAIN q.runs \subseteq Tools /\ q.runs \in [DOMAIN q.runs -> Steps]
AskTypes ==
    /\ deScope \in DecompileScopes /\ file \in Nat
    /\ DOMAIN ask = Asks /\ \A r \in Asks : AskTyped(r)

\* What was read is so still, unless it was seen to change.
ReadTrue(r) ==
    LET q == ask[r] IN
    Live(r) =>
        /\ Still(r, "file") => q.file = file
        /\ Still(r, "types") => q.types = catalog
        /\ q.at \in {"frame", "rows", "types", "signrefs"} /\ Still(r, "refs") => q.refs = refs
        /\ q.at \in {"types", "signrefs", "signrows"} /\ Still(r, "types") => q.rows = bindings

\* What the variables of a function are rewritten to.
Told(rows, types, word) == IF rows = NoTypes THEN NoTypes ELSE Rewrites(rows, types, word)

RewriteTrue(r) ==
    LET q == ask[r] IN
    /\ q.at \in {"start", "notes", "refs", "frame", "rows"} => q.rewrites = NoTypes
    /\ q.at = "types" => q.rows # NoTypes
    /\ q.at \in {"signrefs", "signrows"} /\ Still(r, "types") => q.rewrites = Told(q.rows, q.types, Word)

\* The key is of what was read: a request of a function has a whole key from the lookup on.
Keyed(r) == AskAt(r, "lookup") \/ (ask[r].at \in {"choose", "run", "store"} /\ ~Asked(r).full)
KeyTrue(r) ==
    LET q == ask[r] IN
    /\ q.at \in {"notes", "refs", "frame", "rows", "types", "signrefs", "signrows", "signfile", "lookup", "store"} =>
           ~Asked(r).full
    /\ q.at \in {"signrows", "signfile"} \/ Keyed(r) =>
           /\ q.key.notes = q.notes /\ q.key.frame = q.frame
           /\ Still(r, "refs") => q.key.refs = q.refs
    /\ q.at = "signfile" \/ Keyed(r) =>
           (Still(r, "types") => q.rewrites = Told(q.key.rows, q.types, Word))
    /\ Keyed(r) => q.key.tool = Asked(r).tool /\ (Still(r, "file") => q.key.file = q.file)

Kept(r, a) ==
    /\ a.how = "docker" => Asked(r).provider # "local"
    /\ a.how \in {"local", "http"} => Asked(r).provider # "docker"
    /\ a.how = "docker" /\ Asked(r).provider = "auto" => ~Tool(a.tool).command
Tried(r) == {t \in DOMAIN ask[r].runs : ask[r].runs[t] = "done"}
Champion(a) == \E i \in Successes(a) : \A j \in Successes(a) : Better(a, i, j)

\* The attempts so far: one of each tool that is done, of the file and the provider.
AttemptsTrue(r) ==
    LET q == ask[r] IN
    /\ q.at \notin {"run", "store", "done"} => q.attempts = <<>>
    /\ q.at = "run" =>
           /\ Asked(r).tool # 0 => DOMAIN q.runs = {Asked(r).tool}
           /\ \A t \in DOMAIN q.runs : q.runs[t] \in {"docker", "pull", "again"} =>
                 Asked(r).provider # "local" /\ (Asked(r).provider = "auto" => ~Tool(t).command)
    /\ q.at \in {"run", "store"} => Len(q.attempts) = Cardinality(Tried(r))
    /\ Successes(q.attempts) # {} => Champion(q.attempts)
    /\ \A i \in 1..Len(q.attempts) :
          /\ Kept(r, q.attempts[i])
          /\ Asked(r).tool # 0 => q.attempts[i].tool = Asked(r).tool
          /\ q.attempts[i].kind # "error" /\ Still(r, "file") => q.attempts[i].file = q.file

\* The answer that was chosen.
BestTrue(r) ==
    LET q == ask[r] IN
    /\ (Ended(r) \/ AskAt(r, "store")) /\ q.attempts # <<>> =>
            /\ Len(q.attempts) = Cardinality(DOMAIN q.runs)
            /\ Asked(r).tool = 0 => (q.best.kind = "code" <=> Successes(q.attempts) # {})
            /\ q.best.kind = "code" =>
                  \A i \in Successes(q.attempts) : Tool(q.attempts[i].tool).quality <= Tool(q.best.tool).quality
    /\ AskAt(r, "store") =>
           /\ q.attempts # <<>> /\ q.best.kind # "error"
           /\ Asked(r).tool \in {0, q.best.tool}
           /\ Still(r, "file") => q.best.file = q.file

\* A result that is kept under a key.
Entry(k, e, word) ==
    /\ e.notes = k.notes /\ e.frame = k.frame /\ e.result.kind # "error" /\ k.tool \in {0, e.result.tool}
    /\ "refs" \notin e.moved => k.refs = e.refs
    /\ "file" \notin e.moved => e.result.file = k.file
    /\ "types" \notin e.moved => e.rewrites = Told(k.rows, e.types, word)
ResultsTrue == \A k \in DOMAIN results : Entry(k, results[k], Word)

ServedTrue(r) ==
    /\ ~Ended(r) => ask[r].served = <<>>
    /\ \A i \in DOMAIN ask[r].served :
        LET e == ask[r].served[i]
            gone == e.moved \cup ask[r].moved
        IN /\ e.notes = ask[r].notes /\ e.frame = ask[r].frame /\ e.result.kind # "error"
           /\ Asked(r).tool \in {0, e.result.tool}
           /\ "refs" \notin gone => e.refs = ask[r].refs
           /\ "file" \notin gone => e.result.file = ask[r].file
           /\ "types" \notin gone /\ e.types = ask[r].types => e.rewrites = ask[r].rewrites

AskTrue(r) ==
    ReadTrue(r) /\ RewriteTrue(r) /\ KeyTrue(r) /\ AttemptsTrue(r) /\ BestTrue(r) /\ ServedTrue(r)
DecompileInv == AskTypes /\ ResultsTrue /\ \A r \in Asks : AskTrue(r)

LEMMA DecompileFacts ==
    ASSUME AskTypes, NEW r \in Asks
    PROVE  /\ Asked(r).provider \in Providers /\ Asked(r).tool \in Tools \cup {0}
           /\ Asked(r).full \in BOOLEAN
           /\ \A t \in Tools : Tool(t).quality \in Nat
           /\ Tools \subseteq Nat \ {0} /\ IsFiniteSet(Tools)
  <1>1. deScope \in DecompileScopes
    BY DEF AskTypes
  <1> QED
    BY <1>1, DecompileAssumption DEF Asked, Asks, Tool

LEMMA NoneTried ==
    /\ Successes(<<>>) = {} /\ Len(<<>>) = 0 /\ <<>> \in Seq(Attempts)
    /\ DOMAIN NoTypes = {} /\ NoTypes \in [DOMAIN NoTypes -> Steps]
  BY EmptySeq DEF Successes, NoTypes

\* A request on which nothing was run or answered yet.
LEMMA Untried ==
    ASSUME NEW r, ask'[r].attempts = <<>>, ask'[r].at \notin {"run", "store"}, ask'[r].served = <<>>
    PROVE  AttemptsTrue(r)' /\ BestTrue(r)' /\ ServedTrue(r)'
  <1>1. AttemptsTrue(r)'
    BY NoneTried DEF AttemptsTrue
  <1>2. BestTrue(r)'
    BY DEF BestTrue, Ended, AskAt
  <1>3. ServedTrue(r)'
    <2>1. DOMAIN <<>> = {}
      OBVIOUS
    <2> QED
      BY <2>1, Zenon DEF ServedTrue
  <1> QED
    BY <1>1, <1>2, <1>3

\* The other requests notice nothing.
LEMMA OthersTrue ==
    ASSUME NEW o \in Asks, AskTyped(o), AskTrue(o), ask'[o] = ask[o],
           UNCHANGED <<file, catalog, refs, bindings, typeScope, deScope>>
    PROVE  AskTyped(o)' /\ AskTrue(o)'
  <1>1. AskTyped(o)'
    BY DEF AskTyped
  <1>2. ReadTrue(o)' /\ RewriteTrue(o)' /\ KeyTrue(o)'
    BY DEF AskTrue, ReadTrue, RewriteTrue, KeyTrue, Keyed, Live, Ended, AskAt, Still, Asked, Word
  <1>3. AttemptsTrue(o)'
    <2>1. Tried(o)' = Tried(o) /\ Still(o, "file")' = Still(o, "file")
      BY DEF Tried, Still
    <2>2. Asked(o)' = Asked(o) /\ (\A t : Tool(t)' = Tool(t))
      BY DEF Asked, Tool
    <2>3. \A a : Kept(o, a)' <=> Kept(o, a)
      BY <2>2, Zenon DEF Kept
    <2>4. Champion(ask[o].attempts) => Champion(ask[o].attempts)'
      BY <2>2 DEF Champion, Better, Successes
    <2>5. Successes(ask[o].attempts)' = Successes(ask[o].attempts)
      BY DEF Successes
    <2>6. AttemptsTrue(o)
      BY DEF AskTrue
    <2> QED
      BY <2>1, <2>2, <2>3, <2>4, <2>5, <2>6 DEF AttemptsTrue
  <1>4. BestTrue(o)'
    BY DEF AskTrue, BestTrue, Successes, Ended, AskAt, Still, Asked, Tool
  <1>5. ServedTrue(o)'
    BY DEF AskTrue, ServedTrue, Ended, AskAt, Asked
  <1> QED
    BY <1>1, <1>2, <1>3, <1>4, <1>5 DEF AskTrue

LEMMA StepOf ==
    ASSUME DecompileInv, NEW r \in Asks, NEW v, ask' = [ask EXCEPT ![r] = v],
           UNCHANGED <<typeVars, deScope, file>>, ResultsTrue',
           AskTyped(r)', AskTrue(r)'
    PROVE  DecompileInv'
  <1>1. UNCHANGED <<file, catalog, refs, bindings, typeScope, deScope>> /\ Asks' = Asks
    BY DEF typeVars, Asks
  <1>2. DOMAIN ask' = Asks /\ \A o \in Asks : o # r => ask'[o] = ask[o]
    BY DEF DecompileInv, AskTypes
  <1>3. \A o \in Asks : AskTyped(o)' /\ AskTrue(o)'
    <2> SUFFICES ASSUME NEW o \in Asks PROVE AskTyped(o)' /\ AskTrue(o)'
      OBVIOUS
    <2>1. CASE o = r
      BY <2>1
    <2>2. CASE o # r
      BY <1>1, <1>2, <2>2, OthersTrue DEF DecompileInv, AskTypes
    <2> QED
      BY <2>1, <2>2
  <1>4. AskTypes'
    BY <1>1, <1>2, <1>3 DEF DecompileInv, AskTypes
  <1> QED
    BY <1>1, <1>3, <1>4, Zenon DEF DecompileInv

LEMMA ResultsStay ==
    ASSUME DecompileInv, results' = results, typeScope' = typeScope
    PROVE  ResultsTrue'
  BY DEF DecompileInv, ResultsTrue, Word

LEMMA Stepping ==
    ASSUME DecompileInv, NEW r \in Asks, NEW v, ask' = [ask EXCEPT ![r] = v]
    PROVE  /\ ask'[r] = v /\ DOMAIN ask[r] = AskFields /\ AskTyped(r) /\ AskTrue(r)
  BY DEF DecompileInv, AskTypes, AskTyped

-----------------------------------------------------------------------------
\* The readings of a request.
LEMMA StartAskKeeps ==
    ASSUME DecompileInv, NEW r \in Asks, StartAsk(r)
    PROVE  DecompileInv'
  <1> DEFINE s == CASE file = 0 -> "done"
                     [] file # 0 /\ Asked(r).full -> "choose"
                     [] file # 0 /\ ~Asked(r).full -> "notes"
             v == [ask[r] EXCEPT !.file = file, !.types = catalog, !.target = Shape(file), !.at = s]
  <1>1. /\ ask[r].at = "start" /\ ask' = [ask EXCEPT ![r] = v]
        /\ UNCHANGED <<typeVars, toolVars, file, notes, results, edited>>
    BY DEF StartAsk, Advance, AskAt
  <1>2. /\ s \in {"done", "choose", "notes"} /\ (s = "choose" => Asked(r).full) /\ (s = "notes" => ~Asked(r).full)
    BY DecompileFacts DEF DecompileInv
  <1>3. DOMAIN ask[r] = AskFields /\ AskTyped(r) /\ AskTrue(r) /\ ask'[r] = v
    BY <1>1, Stepping
  <1>4. UNCHANGED <<typeVars, deScope, file>> /\ ResultsTrue'
    BY <1>1, ResultsStay DEF toolVars, typeVars
  <1> HIDE DEF s
  <1>5. LET q == ask[r]
            u == ask'[r]
        IN /\ DOMAIN u = AskFields /\ u.at = s /\ u.file = file /\ u.types = catalog
           /\ u.rewrites = q.rewrites /\ u.runs = q.runs /\ u.attempts = q.attempts
           /\ u.served = q.served /\ u.moved = q.moved
    BY <1>3 DEF AskFields
  <1> HIDE DEF v
  <1>6. ask[r].attempts = <<>> /\ ask[r].served = <<>> /\ ask[r].rewrites = NoTypes
    BY <1>1, <1>3 DEF AskTrue, AttemptsTrue, ServedTrue, RewriteTrue, Ended, AskAt
  <1>7. AskTyped(r)'
    BY <1>2, <1>3, <1>5 DEF AskTyped, AskSteps
  <1>8. AttemptsTrue(r)' /\ BestTrue(r)' /\ ServedTrue(r)'
    BY <1>2, <1>5, <1>6, Untried
  <1>9. ReadTrue(r)'
    BY <1>2, <1>4, <1>5 DEF ReadTrue, typeVars
  <1>10. RewriteTrue(r)'
    BY <1>2, <1>5, <1>6 DEF RewriteTrue
  <1>11. KeyTrue(r)'
    BY <1>2, <1>4, <1>5 DEF KeyTrue, Keyed, AskAt, Asked
  <1> QED
    BY <1>1, <1>4, <1>7, <1>8, <1>9, <1>10, <1>11, StepOf DEF AskTrue

LEMMA ReadingStep ==
    ASSUME DecompileInv, NEW r \in Asks, NEW v, ask' = [ask EXCEPT ![r] = v],
           UNCHANGED <<typeVars, toolVars, file, notes, results, edited>>,
           ask[r].at \notin {"run", "store", "done"}, v.at \in AskSteps \ {"run", "store", "done"},
           DOMAIN v = AskFields, v.runs = ask[r].runs, v.attempts = ask[r].attempts, v.served = ask[r].served,
           ReadTrue(r)', RewriteTrue(r)', KeyTrue(r)'
    PROVE  DecompileInv'
  <1>1. DOMAIN ask[r] = AskFields /\ AskTyped(r) /\ AskTrue(r) /\ ask'[r] = v
    BY Stepping
  <1>2. UNCHANGED <<typeVars, deScope, file>> /\ ResultsTrue'
    BY ResultsStay DEF toolVars, typeVars
  <1>3. ask[r].attempts = <<>> /\ ask[r].served = <<>>
    BY <1>1 DEF AskTrue, AttemptsTrue, ServedTrue, Ended, AskAt
  <1>4. AskTyped(r)'
    BY <1>1 DEF AskTyped
  <1>5. AttemptsTrue(r)' /\ BestTrue(r)' /\ ServedTrue(r)'
    BY <1>1, <1>3, Untried
  <1> QED
    BY <1>2, <1>4, <1>5, StepOf DEF AskTrue

LEMMA ReadNotesKeeps ==
    ASSUME DecompileInv, NEW r \in Asks, ReadNotes(r)
    PROVE  DecompileInv'
  <1> DEFINE v == [ask[r] EXCEPT !.notes = notes, !.at = "refs"]
  <1>1. /\ ask[r].at = "notes" /\ ask' = [ask EXCEPT ![r] = v]
        /\ UNCHANGED <<typeVars, toolVars, file, notes, results, edited>>
    BY DEF ReadNotes, Advance, AskAt
  <1>2. DOMAIN ask[r] = AskFields /\ AskTyped(r) /\ AskTrue(r) /\ ask'[r] = v
    BY <1>1, Stepping
  <1>4. LET q == ask[r]
            u == ask'[r]
        IN /\ DOMAIN u = AskFields /\ u.notes = notes /\ u.at = "refs" /\ u.file = q.file
           /\ u.types = q.types /\ u.target = q.target /\ u.refs = q.refs /\ u.frame = q.frame
           /\ u.rows = q.rows /\ u.rewrites = q.rewrites /\ u.key = q.key /\ u.runs = q.runs
           /\ u.attempts = q.attempts /\ u.best = q.best /\ u.served = q.served
           /\ u.moved = q.moved
    BY <1>2 DEF AskFields
  <1> HIDE DEF v
  <1>5. /\ catalog' = catalog /\ refs' = refs /\ bindings' = bindings /\ typeScope' = typeScope
        /\ file' = file /\ deScope' = deScope
    BY <1>1 DEF typeVars, toolVars
  <1>6. ReadTrue(r)'
    BY <1>1, <1>2, <1>4, <1>5 DEF AskTrue, ReadTrue, Live, Ended, AskAt, Still
  <1>7. RewriteTrue(r)'
    BY <1>1, <1>2, <1>4, <1>5 DEF AskTrue, ReadTrue, RewriteTrue, Live, Ended, AskAt, Still, Told, Word
  <1>8. KeyTrue(r)'
    BY <1>1, <1>2, <1>4, <1>5 DEF AskTrue, ReadTrue, RewriteTrue, KeyTrue, Keyed, Live, Ended, AskAt, Still, Asked, Told, Word
  <1>9. ask[r].at \notin {"run", "store", "done"} /\ v.at \in AskSteps \ {"run", "store", "done"}
    BY <1>1, <1>2, <1>4 DEF AskSteps
  <1> QED
    BY <1>1, <1>2, <1>4, <1>6, <1>7, <1>8, <1>9, ReadingStep

LEMMA ReadRefsKeeps ==
    ASSUME DecompileInv, NEW r \in Asks, ReadRefs(r)
    PROVE  DecompileInv'
  <1> DEFINE v == [ask[r] EXCEPT !.refs = refs, !.at = "frame"]
             w == [ask[r] EXCEPT !.moved = @ \cup {"refs"}, !.at = "frame"]
  <1>1. ask' = [ask EXCEPT ![r] = v] \/ ask' = [ask EXCEPT ![r] = w]
    BY DEF ReadRefs, Advance
  <1>2. /\ ask[r].at = "refs"
        /\ UNCHANGED <<typeVars, toolVars, file, notes, results, edited>>
    BY DEF ReadRefs, Advance, AskAt
  <1>3. /\ catalog' = catalog /\ refs' = refs /\ bindings' = bindings /\ typeScope' = typeScope
        /\ file' = file /\ deScope' = deScope
    BY <1>2 DEF typeVars, toolVars
  <1>4. CASE ask' = [ask EXCEPT ![r] = v]
    <2>1. ask' = [ask EXCEPT ![r] = v]
      BY <1>4
    <2>2. DOMAIN ask[r] = AskFields /\ AskTyped(r) /\ AskTrue(r) /\ ask'[r] = v
      BY <2>1, <1>2, Stepping
    <2>3. LET q == ask[r]
              u == ask'[r]
          IN /\ DOMAIN u = AskFields /\ u.refs = refs /\ u.at = "frame"
             /\ u.file = q.file /\ u.types = q.types /\ u.target = q.target
             /\ u.notes = q.notes /\ u.frame = q.frame /\ u.rows = q.rows
             /\ u.rewrites = q.rewrites /\ u.key = q.key /\ u.runs = q.runs
             /\ u.attempts = q.attempts /\ u.best = q.best /\ u.served = q.served
             /\ u.moved = q.moved
      BY <2>2 DEF AskFields
    <2> HIDE DEF v
    <2>4. ReadTrue(r)'
      BY <1>2, <1>3, <2>2, <2>3 DEF AskTrue, ReadTrue, Live, Ended, AskAt, Still
    <2>5. RewriteTrue(r)'
      BY <1>2, <1>3, <2>2, <2>3 DEF AskTrue, ReadTrue, RewriteTrue, Live, Ended, AskAt, Still, Told, Word
    <2>6. KeyTrue(r)'
      BY <1>2, <1>3, <2>2, <2>3
         DEF AskTrue, ReadTrue, RewriteTrue, KeyTrue, Keyed, Live, Ended, AskAt, Still, Asked, Told, Word
    <2>7. ask[r].at \notin {"run", "store", "done"} /\ v.at \in AskSteps \ {"run", "store", "done"}
      BY <1>2, <2>2, <2>3 DEF AskSteps
    <2> QED
      BY <1>2, <2>1, <2>2, <2>3, <2>4, <2>5, <2>6, <2>7, ReadingStep
  <1>5. CASE ask' = [ask EXCEPT ![r] = w]
    <2>1. ask' = [ask EXCEPT ![r] = w]
      BY <1>5
    <2>2. DOMAIN ask[r] = AskFields /\ AskTyped(r) /\ AskTrue(r) /\ ask'[r] = w
      BY <2>1, <1>2, Stepping
    <2>3. LET q == ask[r]
              u == ask'[r]
          IN /\ DOMAIN u = AskFields /\ u.moved = q.moved \cup {"refs"} /\ u.at = "frame"
             /\ u.file = q.file /\ u.types = q.types /\ u.target = q.target
             /\ u.notes = q.notes /\ u.refs = q.refs /\ u.frame = q.frame
             /\ u.rows = q.rows /\ u.rewrites = q.rewrites /\ u.key = q.key
             /\ u.runs = q.runs /\ u.attempts = q.attempts /\ u.best = q.best
             /\ u.served = q.served
      BY <2>2 DEF AskFields
    <2> HIDE DEF w
    <2>4. ReadTrue(r)'
      BY <1>2, <1>3, <2>2, <2>3 DEF AskTrue, ReadTrue, Live, Ended, AskAt, Still
    <2>5. RewriteTrue(r)'
      BY <1>2, <1>3, <2>2, <2>3 DEF AskTrue, ReadTrue, RewriteTrue, Live, Ended, AskAt, Still, Told, Word
    <2>6. KeyTrue(r)'
      BY <1>2, <1>3, <2>2, <2>3
         DEF AskTrue, ReadTrue, RewriteTrue, KeyTrue, Keyed, Live, Ended, AskAt, Still, Asked, Told, Word
    <2>7. ask[r].at \notin {"run", "store", "done"} /\ w.at \in AskSteps \ {"run", "store", "done"}
      BY <1>2, <2>2, <2>3 DEF AskSteps
    <2> QED
      BY <1>2, <2>1, <2>2, <2>3, <2>4, <2>5, <2>6, <2>7, ReadingStep
  <1> QED
    BY <1>1, <1>4, <1>5

LEMMA ReadFrameKeeps ==
    ASSUME DecompileInv, NEW r \in Asks, ReadFrame(r)
    PROVE  DecompileInv'
  <1> DEFINE v == [ask[r] EXCEPT !.frame = Shape(file), !.at = "rows"]
  <1>1. /\ ask[r].at = "frame" /\ ask' = [ask EXCEPT ![r] = v]
        /\ UNCHANGED <<typeVars, toolVars, file, notes, results, edited>>
    BY DEF ReadFrame, Advance, AskAt
  <1>2. DOMAIN ask[r] = AskFields /\ AskTyped(r) /\ AskTrue(r) /\ ask'[r] = v
    BY <1>1, Stepping
  <1>4. LET q == ask[r]
            u == ask'[r]
        IN /\ DOMAIN u = AskFields /\ u.frame = Shape(file) /\ u.at = "rows" /\ u.file = q.file
           /\ u.types = q.types /\ u.target = q.target /\ u.notes = q.notes /\ u.refs = q.refs
           /\ u.rows = q.rows /\ u.rewrites = q.rewrites /\ u.key = q.key /\ u.runs = q.runs
           /\ u.attempts = q.attempts /\ u.best = q.best /\ u.served = q.served
           /\ u.moved = q.moved
    BY <1>2 DEF AskFields
  <1> HIDE DEF v
  <1>5. /\ catalog' = catalog /\ refs' = refs /\ bindings' = bindings /\ typeScope' = typeScope
        /\ file' = file /\ deScope' = deScope
    BY <1>1 DEF typeVars, toolVars
  <1>6. ReadTrue(r)'
    BY <1>1, <1>2, <1>4, <1>5 DEF AskTrue, ReadTrue, Live, Ended, AskAt, Still
  <1>7. RewriteTrue(r)'
    BY <1>1, <1>2, <1>4, <1>5 DEF AskTrue, ReadTrue, RewriteTrue, Live, Ended, AskAt, Still, Told, Word
  <1>8. KeyTrue(r)'
    BY <1>1, <1>2, <1>4, <1>5 DEF AskTrue, ReadTrue, RewriteTrue, KeyTrue, Keyed, Live, Ended, AskAt, Still, Asked, Told, Word
  <1>9. ask[r].at \notin {"run", "store", "done"} /\ v.at \in AskSteps \ {"run", "store", "done"}
    BY <1>1, <1>2, <1>4 DEF AskSteps
  <1> QED
    BY <1>1, <1>2, <1>4, <1>6, <1>7, <1>8, <1>9, ReadingStep

LEMMA ReadRowsKeeps ==
    ASSUME DecompileInv, NEW r \in Asks, ReadRows(r)
    PROVE  DecompileInv'
  <1> DEFINE s == IF bindings = NoTypes THEN "signrefs" ELSE "types"
             v == [ask[r] EXCEPT !.rows = bindings, !.at = s]
  <1>1. /\ ask[r].at = "rows" /\ ask' = [ask EXCEPT ![r] = v]
        /\ UNCHANGED <<typeVars, toolVars, file, notes, results, edited>>
    BY DEF ReadRows, Advance, AskAt
  <1>2. DOMAIN ask[r] = AskFields /\ AskTyped(r) /\ AskTrue(r) /\ ask'[r] = v
    BY <1>1, Stepping
  <1>3. \/ bindings = NoTypes /\ s = "signrefs"
        \/ bindings # NoTypes /\ s = "types"
    OBVIOUS
  <1> HIDE DEF s
  <1>4. LET q == ask[r]
            u == ask'[r]
        IN /\ DOMAIN u = AskFields /\ u.rows = bindings /\ u.at = s /\ u.file = q.file
           /\ u.types = q.types /\ u.target = q.target /\ u.notes = q.notes /\ u.refs = q.refs
           /\ u.frame = q.frame /\ u.rewrites = q.rewrites /\ u.key = q.key /\ u.runs = q.runs
           /\ u.attempts = q.attempts /\ u.best = q.best /\ u.served = q.served
           /\ u.moved = q.moved
    BY <1>2 DEF AskFields
  <1> HIDE DEF v
  <1>5. /\ catalog' = catalog /\ refs' = refs /\ bindings' = bindings /\ typeScope' = typeScope
        /\ file' = file /\ deScope' = deScope
    BY <1>1 DEF typeVars, toolVars
  <1>6. ReadTrue(r)'
    BY <1>1, <1>2, <1>3, <1>4, <1>5 DEF AskTrue, ReadTrue, Live, Ended, AskAt, Still
  <1>7. RewriteTrue(r)'
    BY <1>1, <1>2, <1>3, <1>4, <1>5 DEF AskTrue, ReadTrue, RewriteTrue, Live, Ended, AskAt, Still, Told, Word
  <1>8. KeyTrue(r)'
    BY <1>1, <1>2, <1>3, <1>4, <1>5 DEF AskTrue, ReadTrue, RewriteTrue, KeyTrue, Keyed, Live, Ended, AskAt, Still, Asked, Told, Word
  <1>9. ask[r].at \notin {"run", "store", "done"} /\ v.at \in AskSteps \ {"run", "store", "done"}
    BY <1>1, <1>2, <1>3, <1>4 DEF AskSteps
  <1> QED
    BY <1>1, <1>2, <1>4, <1>6, <1>7, <1>8, <1>9, ReadingStep

LEMMA ReadTypesKeeps ==
    ASSUME DecompileInv, NEW r \in Asks, ReadTypes(r)
    PROVE  DecompileInv'
  <1> DEFINE v == [ask[r] EXCEPT !.rewrites = Rewrites(ask[r].rows, catalog, Word), !.at = "signrefs"]
             w == [ask[r] EXCEPT !.moved = @ \cup {"types"}, !.at = "signrefs"]
  <1>1. ask' = [ask EXCEPT ![r] = v] \/ ask' = [ask EXCEPT ![r] = w]
    BY DEF ReadTypes, Advance
  <1>2. /\ ask[r].at = "types"
        /\ UNCHANGED <<typeVars, toolVars, file, notes, results, edited>>
    BY DEF ReadTypes, Advance, AskAt
  <1>3. /\ catalog' = catalog /\ refs' = refs /\ bindings' = bindings /\ typeScope' = typeScope
        /\ file' = file /\ deScope' = deScope
    BY <1>2 DEF typeVars, toolVars
  <1>4. CASE ask' = [ask EXCEPT ![r] = v]
    <2>1. ask' = [ask EXCEPT ![r] = v]
      BY <1>4
    <2>2. DOMAIN ask[r] = AskFields /\ AskTyped(r) /\ AskTrue(r) /\ ask'[r] = v
      BY <2>1, <1>2, Stepping
    <2>3. LET q == ask[r]
              u == ask'[r]
          IN /\ DOMAIN u = AskFields /\ u.rewrites = Rewrites(q.rows, catalog, Word)
             /\ u.at = "signrefs" /\ u.file = q.file /\ u.types = q.types
             /\ u.target = q.target /\ u.notes = q.notes /\ u.refs = q.refs
             /\ u.frame = q.frame /\ u.rows = q.rows /\ u.key = q.key /\ u.runs = q.runs
             /\ u.attempts = q.attempts /\ u.best = q.best /\ u.served = q.served
             /\ u.moved = q.moved
      BY <2>2 DEF AskFields
    <2> HIDE DEF v
    <2>4. ReadTrue(r)'
      BY <1>2, <1>3, <2>2, <2>3 DEF AskTrue, ReadTrue, Live, Ended, AskAt, Still
    <2>5. RewriteTrue(r)'
      BY <1>2, <1>3, <2>2, <2>3 DEF AskTrue, ReadTrue, RewriteTrue, Live, Ended, AskAt, Still, Told, Word
    <2>6. KeyTrue(r)'
      BY <1>2, <1>3, <2>2, <2>3
         DEF AskTrue, ReadTrue, RewriteTrue, KeyTrue, Keyed, Live, Ended, AskAt, Still, Asked, Told, Word
    <2>7. ask[r].at \notin {"run", "store", "done"} /\ v.at \in AskSteps \ {"run", "store", "done"}
      BY <1>2, <2>2, <2>3 DEF AskSteps
    <2> QED
      BY <1>2, <2>1, <2>2, <2>3, <2>4, <2>5, <2>6, <2>7, ReadingStep
  <1>5. CASE ask' = [ask EXCEPT ![r] = w]
    <2>1. ask' = [ask EXCEPT ![r] = w]
      BY <1>5
    <2>2. DOMAIN ask[r] = AskFields /\ AskTyped(r) /\ AskTrue(r) /\ ask'[r] = w
      BY <2>1, <1>2, Stepping
    <2>3. LET q == ask[r]
              u == ask'[r]
          IN /\ DOMAIN u = AskFields /\ u.moved = q.moved \cup {"types"}
             /\ u.at = "signrefs" /\ u.file = q.file /\ u.types = q.types
             /\ u.target = q.target /\ u.notes = q.notes /\ u.refs = q.refs
             /\ u.frame = q.frame /\ u.rows = q.rows /\ u.rewrites = q.rewrites
             /\ u.key = q.key /\ u.runs = q.runs /\ u.attempts = q.attempts
             /\ u.best = q.best /\ u.served = q.served
      BY <2>2 DEF AskFields
    <2> HIDE DEF w
    <2>4. ReadTrue(r)'
      BY <1>2, <1>3, <2>2, <2>3 DEF AskTrue, ReadTrue, Live, Ended, AskAt, Still
    <2>5. RewriteTrue(r)'
      BY <1>2, <1>3, <2>2, <2>3 DEF AskTrue, ReadTrue, RewriteTrue, Live, Ended, AskAt, Still, Told, Word
    <2>6. KeyTrue(r)'
      BY <1>2, <1>3, <2>2, <2>3
         DEF AskTrue, ReadTrue, RewriteTrue, KeyTrue, Keyed, Live, Ended, AskAt, Still, Asked, Told, Word
    <2>7. ask[r].at \notin {"run", "store", "done"} /\ w.at \in AskSteps \ {"run", "store", "done"}
      BY <1>2, <2>2, <2>3 DEF AskSteps
    <2> QED
      BY <1>2, <2>1, <2>2, <2>3, <2>4, <2>5, <2>6, <2>7, ReadingStep
  <1> QED
    BY <1>1, <1>4, <1>5

LEMMA SignRefsKeeps ==
    ASSUME DecompileInv, NEW r \in Asks, SignRefs(r)
    PROVE  DecompileInv'
  <1> DEFINE s == [notes |-> ask[r].notes, frame |-> ask[r].frame, refs |-> refs]
             v == [ask[r] EXCEPT !.key = s, !.at = "signrows"]
  <1>1. /\ ask[r].at = "signrefs" /\ ask' = [ask EXCEPT ![r] = v]
        /\ UNCHANGED <<typeVars, toolVars, file, notes, results, edited>>
    BY DEF SignRefs, Advance, AskAt, Signed
  <1>2. DOMAIN ask[r] = AskFields /\ AskTyped(r) /\ AskTrue(r) /\ ask'[r] = v
    BY <1>1, Stepping
  <1>3. s.notes = ask[r].notes /\ s.frame = ask[r].frame /\ s.refs = refs
    OBVIOUS
  <1> HIDE DEF s
  <1>4. LET q == ask[r]
            u == ask'[r]
        IN /\ DOMAIN u = AskFields /\ u.key = s /\ u.at = "signrows" /\ u.file = q.file
           /\ u.types = q.types /\ u.target = q.target /\ u.notes = q.notes /\ u.refs = q.refs
           /\ u.frame = q.frame /\ u.rows = q.rows /\ u.rewrites = q.rewrites /\ u.runs = q.runs
           /\ u.attempts = q.attempts /\ u.best = q.best /\ u.served = q.served
           /\ u.moved = q.moved
    BY <1>2 DEF AskFields
  <1> HIDE DEF v
  <1>5. /\ catalog' = catalog /\ refs' = refs /\ bindings' = bindings /\ typeScope' = typeScope
        /\ file' = file /\ deScope' = deScope
    BY <1>1 DEF typeVars, toolVars
  <1>6. ReadTrue(r)'
    BY <1>1, <1>2, <1>3, <1>4, <1>5 DEF AskTrue, ReadTrue, Live, Ended, AskAt, Still
  <1>7. RewriteTrue(r)'
    BY <1>1, <1>2, <1>3, <1>4, <1>5 DEF AskTrue, ReadTrue, RewriteTrue, Live, Ended, AskAt, Still, Told, Word
  <1>8. KeyTrue(r)'
    BY <1>1, <1>2, <1>3, <1>4, <1>5 DEF AskTrue, ReadTrue, RewriteTrue, KeyTrue, Keyed, Live, Ended, AskAt, Still, Asked, Told, Word
  <1>9. ask[r].at \notin {"run", "store", "done"} /\ v.at \in AskSteps \ {"run", "store", "done"}
    BY <1>1, <1>2, <1>3, <1>4 DEF AskSteps
  <1> QED
    BY <1>1, <1>2, <1>4, <1>6, <1>7, <1>8, <1>9, ReadingStep

LEMMA SignRowsKeeps ==
    ASSUME DecompileInv, NEW r \in Asks, SignRows(r)
    PROVE  DecompileInv'
  <1> DEFINE s == [notes |-> ask[r].key.notes, frame |-> ask[r].key.frame, refs |-> ask[r].key.refs,
                   rows |-> bindings]
             v == [ask[r] EXCEPT !.key = s, !.at = "signfile"]
  <1>1. /\ ask[r].at = "signrows" /\ ask' = [ask EXCEPT ![r] = v]
        /\ UNCHANGED <<typeVars, toolVars, file, notes, results, edited>>
    BY DEF SignRows, Advance, AskAt
  <1>2. DOMAIN ask[r] = AskFields /\ AskTyped(r) /\ AskTrue(r) /\ ask'[r] = v
    BY <1>1, Stepping
  <1>3. /\ s.notes = ask[r].key.notes /\ s.frame = ask[r].key.frame /\ s.refs = ask[r].key.refs
        /\ s.rows = bindings
    OBVIOUS
  <1> HIDE DEF s
  <1>4. LET q == ask[r]
            u == ask'[r]
        IN /\ DOMAIN u = AskFields /\ u.key = s /\ u.at = "signfile" /\ u.file = q.file
           /\ u.types = q.types /\ u.target = q.target /\ u.notes = q.notes /\ u.refs = q.refs
           /\ u.frame = q.frame /\ u.rows = q.rows /\ u.rewrites = q.rewrites /\ u.runs = q.runs
           /\ u.attempts = q.attempts /\ u.best = q.best /\ u.served = q.served
           /\ u.moved = q.moved
    BY <1>2 DEF AskFields
  <1> HIDE DEF v
  <1>5. /\ catalog' = catalog /\ refs' = refs /\ bindings' = bindings /\ typeScope' = typeScope
        /\ file' = file /\ deScope' = deScope
    BY <1>1 DEF typeVars, toolVars
  <1>6. ReadTrue(r)'
    BY <1>1, <1>2, <1>3, <1>4, <1>5 DEF AskTrue, ReadTrue, Live, Ended, AskAt, Still
  <1>7. RewriteTrue(r)'
    BY <1>1, <1>2, <1>3, <1>4, <1>5 DEF AskTrue, ReadTrue, RewriteTrue, Live, Ended, AskAt, Still, Told, Word
  <1>8. KeyTrue(r)'
    BY <1>1, <1>2, <1>3, <1>4, <1>5 DEF AskTrue, ReadTrue, RewriteTrue, KeyTrue, Keyed, Live, Ended, AskAt, Still, Asked, Told, Word
  <1>9. ask[r].at \notin {"run", "store", "done"} /\ v.at \in AskSteps \ {"run", "store", "done"}
    BY <1>1, <1>2, <1>3, <1>4 DEF AskSteps
  <1> QED
    BY <1>1, <1>2, <1>4, <1>6, <1>7, <1>8, <1>9, ReadingStep

LEMMA SignFileKeeps ==
    ASSUME DecompileInv, NEW r \in Asks, SignFile(r)
    PROVE  DecompileInv'
  <1> DEFINE s == [notes |-> ask[r].key.notes, frame |-> ask[r].key.frame, refs |-> ask[r].key.refs,
                   rows |-> ask[r].key.rows, file |-> file, target |-> ask[r].target, tool |-> Asked(r).tool]
             v == [ask[r] EXCEPT !.key = s, !.at = "lookup"]
  <1>1. /\ ask[r].at = "signfile" /\ ask' = [ask EXCEPT ![r] = v]
        /\ UNCHANGED <<typeVars, toolVars, file, notes, results, edited>>
    BY DEF SignFile, Advance, AskAt
  <1>2. DOMAIN ask[r] = AskFields /\ AskTyped(r) /\ AskTrue(r) /\ ask'[r] = v
    BY <1>1, Stepping
  <1>3. /\ s.notes = ask[r].key.notes /\ s.frame = ask[r].key.frame /\ s.refs = ask[r].key.refs
        /\ s.rows = ask[r].key.rows /\ s.file = file /\ s.tool = Asked(r).tool
    OBVIOUS
  <1> HIDE DEF s
  <1>4. LET q == ask[r]
            u == ask'[r]
        IN /\ DOMAIN u = AskFields /\ u.key = s /\ u.at = "lookup" /\ u.file = q.file
           /\ u.types = q.types /\ u.target = q.target /\ u.notes = q.notes /\ u.refs = q.refs
           /\ u.frame = q.frame /\ u.rows = q.rows /\ u.rewrites = q.rewrites /\ u.runs = q.runs
           /\ u.attempts = q.attempts /\ u.best = q.best /\ u.served = q.served
           /\ u.moved = q.moved
    BY <1>2 DEF AskFields
  <1> HIDE DEF v
  <1>5. /\ catalog' = catalog /\ refs' = refs /\ bindings' = bindings /\ typeScope' = typeScope
        /\ file' = file /\ deScope' = deScope
    BY <1>1 DEF typeVars, toolVars
  <1>6. ReadTrue(r)'
    BY <1>1, <1>2, <1>3, <1>4, <1>5 DEF AskTrue, ReadTrue, Live, Ended, AskAt, Still
  <1>7. RewriteTrue(r)'
    BY <1>1, <1>2, <1>3, <1>4, <1>5 DEF AskTrue, ReadTrue, RewriteTrue, Live, Ended, AskAt, Still, Told, Word
  <1>8. KeyTrue(r)'
    BY <1>1, <1>2, <1>3, <1>4, <1>5 DEF AskTrue, ReadTrue, RewriteTrue, KeyTrue, Keyed, Live, Ended, AskAt, Still, Asked, Told, Word
  <1>9. ask[r].at \notin {"run", "store", "done"} /\ v.at \in AskSteps \ {"run", "store", "done"}
    BY <1>1, <1>2, <1>3, <1>4 DEF AskSteps
  <1> QED
    BY <1>1, <1>2, <1>4, <1>6, <1>7, <1>8, <1>9, ReadingStep

\* A result in the cache is taken for what the request would compute.
LEMMA LookupResultKeeps ==
    ASSUME DecompileInv, NEW r \in Asks, LookupResult(r)
    PROVE  DecompileInv'
  <1>1. /\ ask[r].at = "lookup"
        /\ UNCHANGED <<typeVars, toolVars, file, notes, results, edited>>
    BY DEF LookupResult, Advance, AskAt
  <1>2. /\ catalog' = catalog /\ refs' = refs /\ bindings' = bindings /\ typeScope' = typeScope
        /\ file' = file /\ deScope' = deScope
    BY <1>1 DEF typeVars, toolVars
  <1>3. DOMAIN ask[r] = AskFields /\ AskTyped(r) /\ AskTrue(r)
    BY DEF DecompileInv, AskTypes, AskTyped
  <1>4. CASE ~Asked(r).anew /\ ask[r].key \in DOMAIN results
    <2> DEFINE e == results[ask[r].key]
               v == [ask[r] EXCEPT !.served = <<e>>, !.at = "done"]
    <2>1. ask' = [ask EXCEPT ![r] = v]
      BY <1>4 DEF LookupResult, Advance
    <2>2. ask'[r] = v
      BY <2>1, Stepping
    <2>3. Entry(ask[r].key, e, Word)
      BY <1>4 DEF DecompileInv, ResultsTrue
    <2> HIDE DEF e
    <2>4. LET q == ask[r]
              u == ask'[r]
          IN /\ DOMAIN u = AskFields /\ u.at = "done" /\ u.served = <<e>> /\ u.file = q.file /\ u.types = q.types
             /\ u.notes = q.notes /\ u.refs = q.refs /\ u.frame = q.frame /\ u.rewrites = q.rewrites
             /\ u.key = q.key /\ u.runs = q.runs /\ u.attempts = q.attempts /\ u.moved = q.moved
      BY <1>3, <2>2 DEF AskFields
    <2> HIDE DEF v
    <2>5. ask[r].attempts = <<>>
      BY <1>1, <1>3 DEF AskTrue, AttemptsTrue
    <2>6. AskTyped(r)'
      BY <1>3, <2>4 DEF AskTyped, AskSteps
    <2>7. ReadTrue(r)' /\ RewriteTrue(r)' /\ KeyTrue(r)'
      BY <2>4 DEF ReadTrue, RewriteTrue, KeyTrue, Keyed, Live, Ended, AskAt
    <2>8. AttemptsTrue(r)' /\ BestTrue(r)'
      <3>1. ask'[r].attempts = <<>>
        BY <2>4, <2>5
      <3>2. AttemptsTrue(r)'
        BY <2>4, <3>1, NoneTried DEF AttemptsTrue
      <3>3. BestTrue(r)'
        BY <2>4, <3>1 DEF BestTrue, Ended, AskAt
      <3> QED
        BY <3>2, <3>3
    <2>9. ServedTrue(r)'
      <3>1. Ended(r)'
        BY <2>4 DEF Ended, AskAt
      <3>2. \A i \in DOMAIN ask'[r].served : ask'[r].served[i] = e
        BY <2>4
      <3>3. /\ ask[r].key.notes = ask[r].notes /\ ask[r].key.frame = ask[r].frame
            /\ ask[r].key.tool = Asked(r).tool
            /\ "refs" \notin ask[r].moved => ask[r].key.refs = ask[r].refs
            /\ "file" \notin ask[r].moved => ask[r].key.file = ask[r].file
            /\ "types" \notin ask[r].moved => ask[r].rewrites = Told(ask[r].key.rows, ask[r].types, Word)
        BY <1>1, <1>3 DEF AskTrue, KeyTrue, Keyed, AskAt, Still
      <3>4. /\ e.notes = ask[r].notes /\ e.frame = ask[r].frame /\ e.result.kind # "error"
            /\ Asked(r).tool \in {0, e.result.tool}
            /\ "refs" \notin e.moved \cup ask[r].moved => e.refs = ask[r].refs
            /\ "file" \notin e.moved \cup ask[r].moved => e.result.file = ask[r].file
            /\ "types" \notin e.moved \cup ask[r].moved /\ e.types = ask[r].types => e.rewrites = ask[r].rewrites
        BY <2>3, <3>3 DEF Entry
      <3> QED
        BY <1>2, <2>4, <3>1, <3>2, <3>4 DEF ServedTrue, Asked
    <2>10. UNCHANGED <<typeVars, deScope, file>> /\ ResultsTrue'
      BY <1>1, <1>2, ResultsStay
    <2> QED
      BY <2>1, <2>6, <2>7, <2>8, <2>9, <2>10, StepOf DEF AskTrue
  <1>5. CASE ~(~Asked(r).anew /\ ask[r].key \in DOMAIN results)
    <2> DEFINE v == [ask[r] EXCEPT !.at = "choose"]
    <2>1. ask' = [ask EXCEPT ![r] = v]
      BY <1>5, Zenon DEF LookupResult, Advance
    <2>2. ask'[r] = v
      BY <2>1, Stepping
    <2>3. LET q == ask[r]
              u == ask'[r]
          IN /\ DOMAIN u = AskFields /\ u.at = "choose" /\ u.file = q.file /\ u.types = q.types
             /\ u.notes = q.notes /\ u.refs = q.refs /\ u.frame = q.frame /\ u.rows = q.rows
             /\ u.rewrites = q.rewrites /\ u.key = q.key /\ u.runs = q.runs /\ u.attempts = q.attempts
             /\ u.served = q.served /\ u.moved = q.moved
      BY <1>3, <2>2 DEF AskFields
    <2> HIDE DEF v
    <2>4. ReadTrue(r)'
      BY <1>1, <1>2, <1>3, <2>3 DEF AskTrue, ReadTrue, Live, Ended, AskAt, Still
    <2>5. RewriteTrue(r)'
      BY <2>3 DEF RewriteTrue
    <2>6. KeyTrue(r)'
      BY <1>1, <1>2, <1>3, <2>3 DEF AskTrue, KeyTrue, Keyed, AskAt, Still, Asked, Word
    <2>7. ask[r].at \notin {"run", "store", "done"} /\ v.at \in AskSteps \ {"run", "store", "done"}
      BY <1>1, <2>2, <2>3 DEF AskSteps
    <2> QED
      BY <1>1, <2>1, <2>2, <2>3, <2>4, <2>5, <2>6, <2>7, ReadingStep
  <1> QED
    BY <1>4, <1>5

-----------------------------------------------------------------------------
(* The tools of a request *)

\* A request that is asked of tools: what it has read stands as it was.
LEMMA ToolStep ==
    ASSUME DecompileInv, NEW r \in Asks, NEW v, ask' = [ask EXCEPT ![r] = v],
           UNCHANGED <<typeVars, deScope, file, results>>,
           ask[r].at \in {"choose", "run"}, v.at \in {"run", "done"},
           DOMAIN v = AskFields, v.file = ask[r].file, v.types = ask[r].types, v.notes = ask[r].notes,
           v.refs = ask[r].refs, v.frame = ask[r].frame, v.rewrites = ask[r].rewrites, v.key = ask[r].key,
           v.moved = ask[r].moved, v.served = ask[r].served,
           v.attempts \in Seq(Attempts), DOMAIN v.runs \subseteq Tools, v.runs \in [DOMAIN v.runs -> Steps],
           AttemptsTrue(r)', v.at = "done" => v.attempts = <<>>
    PROVE  DecompileInv'
  <1>1. DOMAIN ask[r] = AskFields /\ AskTyped(r) /\ AskTrue(r) /\ ask'[r] = v
    BY Stepping
  <1>2. ResultsTrue'
    BY ResultsStay DEF typeVars
  <1>3. AskTyped(r)'
    BY <1>1 DEF AskTyped, AskSteps
  <1>4. /\ catalog' = catalog /\ typeScope' = typeScope /\ file' = file /\ deScope' = deScope
    BY DEF typeVars
  <1>5. ReadTrue(r)'
    BY <1>1, <1>4 DEF AskTrue, ReadTrue, Live, Ended, AskAt, Still
  <1>6. RewriteTrue(r)'
    BY <1>1 DEF RewriteTrue
  <1>7. KeyTrue(r)'
    BY <1>1, <1>4 DEF AskTrue, KeyTrue, Keyed, AskAt, Still, Asked, Word
  <1>8. BestTrue(r)'
    BY <1>1 DEF BestTrue, Ended, AskAt
  <1>9. ServedTrue(r)'
    <2>1. ask'[r].served = <<>>
      BY <1>1 DEF AskTrue, ServedTrue, Ended, AskAt
    <2>2. DOMAIN <<>> = {}
      OBVIOUS
    <2> QED
      BY <2>1, <2>2, Zenon DEF ServedTrue
  <1> QED
    BY <1>2, <1>3, <1>5, <1>6, <1>7, <1>8, <1>9, StepOf DEF AskTrue

LEMMA ChooseKeeps ==
    ASSUME DecompileInv, NEW r \in Asks, Choose(r)
    PROVE  DecompileInv'
  <1> DEFINE chosen == IF Asked(r).tool # 0 THEN {Asked(r).tool}
                       ELSE {t \in Tools : Available(r, t) /\ Suits(r, t)}
             s == IF chosen = {} THEN "done" ELSE "run"
             all == [t \in chosen |-> "start"]
             v == [ask[r] EXCEPT !.runs = all, !.at = s]
  <1>1. /\ ask[r].at = "choose" /\ ask' = [ask EXCEPT ![r] = v]
        /\ UNCHANGED <<typeVars, deScope, file, results>>
    BY DEF Choose, AskAt
  <1>2. DOMAIN ask[r] = AskFields /\ AskTyped(r) /\ AskTrue(r) /\ ask'[r] = v
    BY <1>1, Stepping
  <1>3. chosen \subseteq Tools /\ (Asked(r).tool # 0 => chosen = {Asked(r).tool}) /\ s \in {"run", "done"}
    BY DecompileFacts DEF DecompileInv
  <1>4. DOMAIN all = chosen /\ (\A t \in chosen : all[t] = "start") /\ all \in [DOMAIN all -> Steps]
    BY DEF Steps
  <1> HIDE DEF chosen, s, all
  <1>5. LET q == ask[r]
            u == ask'[r]
        IN /\ DOMAIN u = AskFields /\ u.at = s /\ u.runs = all /\ u.file = q.file /\ u.types = q.types
           /\ u.notes = q.notes /\ u.refs = q.refs /\ u.frame = q.frame /\ u.rewrites = q.rewrites
           /\ u.key = q.key /\ u.attempts = q.attempts /\ u.served = q.served /\ u.moved = q.moved
    BY <1>2 DEF AskFields
  <1> HIDE DEF v
  <1>6. ask[r].attempts = <<>>
    BY <1>1, <1>2 DEF AskTrue, AttemptsTrue
  <1>7. AttemptsTrue(r)'
    <2>1. Tried(r)' = {}
      BY <1>4, <1>5 DEF Tried
    <2>2. Cardinality({}) = 0
      BY FS_EmptySet
    <2>3. Asked(r)' = Asked(r)
      BY <1>1 DEF Asked
    <2> QED
      BY <1>3, <1>4, <1>5, <1>6, <2>1, <2>2, <2>3, NoneTried DEF AttemptsTrue
  <1> QED
    BY <1>1, <1>2, <1>3, <1>4, <1>5, <1>6, <1>7, NoneTried, ToolStep, ZenonT(60)

LEMMA RunningFacts ==
    ASSUME DecompileInv, NEW r \in Asks, NEW t, NEW s, Running(r, t, s)
    PROVE  /\ ask[r].at = "run" /\ t \in DOMAIN ask[r].runs /\ t \in Tools /\ ask[r].runs[t] = s
           /\ ask[r].runs \in [DOMAIN ask[r].runs -> Steps] /\ AskTyped(r) /\ AskTrue(r)
           /\ DOMAIN ask[r] = AskFields
  BY DEF Running, AskAt, DecompileInv, AskTypes, AskTyped

\* On to the next way of running a tool.
LEMMA ThenKeeps ==
    ASSUME DecompileInv, NEW r \in Asks, NEW t, NEW s, Running(r, t, s),
           NEW next \in {"docker", "pull", "again"}, Then(r, t, next),
           UNCHANGED <<typeVars, deScope, file, results>>, s # "done",
           Asked(r).provider # "local", Asked(r).provider = "auto" => ~Tool(t).command
    PROVE  DecompileInv'
  <1> DEFINE runs == Stepped(ask[r], t, next)
             v == [ask[r] EXCEPT !.runs = runs]
  <1>1. /\ ask[r].at = "run" /\ t \in DOMAIN ask[r].runs /\ t \in Tools /\ ask[r].runs[t] = s
        /\ ask[r].runs \in [DOMAIN ask[r].runs -> Steps] /\ AskTyped(r) /\ AskTrue(r)
        /\ DOMAIN ask[r] = AskFields
    BY RunningFacts
  <1>2. ask' = [ask EXCEPT ![r] = v]
    BY DEF Then
  <1>3. ask'[r] = v
    BY <1>2, Stepping
  <1>4. /\ DOMAIN runs = DOMAIN ask[r].runs /\ runs \in [DOMAIN runs -> Steps] /\ runs[t] = next
        /\ \A o \in DOMAIN runs : o # t => runs[o] = ask[r].runs[o]
    BY <1>1 DEF Stepped, Steps
  <1> HIDE DEF runs
  <1>5. LET q == ask[r]
            u == ask'[r]
        IN /\ DOMAIN u = AskFields /\ u.at = q.at /\ u.runs = runs /\ u.file = q.file /\ u.types = q.types
           /\ u.notes = q.notes /\ u.refs = q.refs /\ u.frame = q.frame /\ u.rewrites = q.rewrites
           /\ u.key = q.key /\ u.attempts = q.attempts /\ u.served = q.served /\ u.moved = q.moved
    BY <1>1, <1>3 DEF AskFields
  <1> HIDE DEF v
  <1>6. AttemptsTrue(r)'
    <2>1. Tried(r)' = Tried(r)
      BY <1>1, <1>4, <1>5 DEF Tried
    <2>2. Asked(r)' = Asked(r) /\ (\A o : Tool(o)' = Tool(o))
      BY DEF Asked, Tool
    <2>3. \A a : Kept(r, a)' <=> Kept(r, a)
      BY <2>2, Zenon DEF Kept
    <2>4. Champion(ask[r].attempts) => Champion(ask[r].attempts)'
      BY <1>5, <2>2 DEF Champion, Better, Successes
    <2>5. Successes(ask[r].attempts)' = Successes(ask[r].attempts)
      BY <1>5 DEF Successes
    <2>6. AttemptsTrue(r)
      BY <1>1 DEF AskTrue
    <2>7. \A o \in DOMAIN runs : runs[o] \in {"docker", "pull", "again"} =>
                Asked(r).provider # "local" /\ (Asked(r).provider = "auto" => ~Tool(o).command)
      BY <1>1, <1>4, <2>6 DEF AttemptsTrue
    <2> QED
      BY <1>1, <1>4, <1>5, <2>1, <2>2, <2>3, <2>4, <2>5, <2>6, <2>7 DEF AttemptsTrue, Still
  <1> QED
    BY <1>1, <1>2, <1>3, <1>4, <1>5, <1>6, ToolStep DEF AskTyped

\* The best of the code so far is the best before, or the new one.
LEMMA ChampionAppended ==
    ASSUME NEW q \in Seq(Attempts), NEW a \in Attempts, \A t \in Tools : Tool(t).quality \in Nat,
           Successes(q) # {} => Champion(q), Successes(Append(q, a)) # {}
    PROVE  Champion(Append(q, a))
  <1> DEFINE b == Append(q, a)
             n == Len(q)
             Score(i) == Tool(b[i].tool).quality
  <1>1. /\ n \in Nat /\ DOMAIN q = 1..n /\ DOMAIN b = 1..(n + 1) /\ b[n + 1] = a
        /\ (\A i \in 1..n : b[i] = q[i]) /\ b \in Seq(Attempts) /\ Len(b) = n + 1
    BY AppendProperties, LenProperties
  <1>2. \A i \in 1..(n + 1) : b[i] \in Attempts
    BY <1>1, ElementOfSeq
  <1>3. \A i \in 1..(n + 1) : Score(i) \in Nat
    <2>1. \A x \in Attempts : x.tool \in Tools
      BY DEF Attempts
    <2> QED
      BY <1>2, <2>1
  <1>4. \A i \in 1..n : i \in Successes(b) <=> i \in Successes(q)
    BY <1>1 DEF Successes
  <1>5. Successes(b) \subseteq 1..(n + 1) /\ Successes(q) \subseteq 1..n
    BY <1>1 DEF Successes
  <1>6. \A i, j \in 1..n : Better(b, i, j) <=> Better(q, i, j)
    BY <1>1, Zenon DEF Better
  <1>7. \A i, j : Better(b, i, j) <=> (Score(i) > Score(j) \/ (Score(i) = Score(j) /\ i <= j))
    BY Zenon DEF Better
  <1> HIDE DEF b, n, Score
  <1>8. CASE n + 1 \notin Successes(b)
    <2>1. Successes(b) = Successes(q)
      <3>1. ASSUME NEW i \in Successes(b) PROVE i \in Successes(q)
        <4>1. i \in 1..n
          BY <1>1, <1>5, <1>8
        <4> QED
          BY <1>4, <4>1
      <3>2. ASSUME NEW i \in Successes(q) PROVE i \in Successes(b)
        BY <1>4, <1>5
      <3> QED
        BY <3>1, <3>2
    <2>2. PICK c \in Successes(q) : \A j \in Successes(q) : Better(q, c, j)
      BY <2>1 DEF Champion, b
    <2>3. c \in Successes(b) /\ \A j \in Successes(b) : Better(b, c, j)
      BY <1>5, <1>6, <2>1, <2>2, Zenon
    <2> QED
      BY <2>3 DEF Champion, b
  <1>9. CASE n + 1 \in Successes(b) /\ Successes(q) = {}
    <2>1. Successes(b) \subseteq {n + 1}
      BY <1>1, <1>4, <1>5, <1>9
    <2>2. Better(b, n + 1, n + 1)
      BY <1>1, <1>3, <1>7
    <2> QED
      BY <1>9, <2>1, <2>2 DEF Champion, b
  <1>10. CASE n + 1 \in Successes(b) /\ Successes(q) # {}
    <2>1. PICK c \in Successes(q) : \A j \in Successes(q) : Better(q, c, j)
      BY <1>10 DEF Champion
    <2>2. c \in 1..n /\ c \in Successes(b) /\ \A j \in Successes(b) : j # n + 1 => j \in 1..n /\ Better(b, c, j)
      <3>1. c \in 1..n /\ c \in Successes(b)
        BY <1>4, <1>5, <2>1
      <3>2. \A j \in Successes(b) : j # n + 1 => j \in 1..n
        BY <1>1, <1>5
      <3> QED
        BY <1>4, <1>6, <2>1, <3>1, <3>2
    <2>3. CASE Score(n + 1) > Score(c)
      <3>1. \A j \in Successes(b) : Better(b, n + 1, j)
        <4> SUFFICES ASSUME NEW j \in Successes(b) PROVE Better(b, n + 1, j)
          OBVIOUS
        <4>1. CASE j = n + 1
          BY <1>1, <1>7, <4>1
        <4>2. CASE j # n + 1
          <5>1. j \in 1..n /\ (Score(c) > Score(j) \/ (Score(c) = Score(j) /\ c <= j))
            BY <1>7, <2>2, <4>2
          <5>2. Score(j) \in Nat /\ Score(c) \in Nat /\ Score(n + 1) \in Nat
            BY <1>1, <1>3, <2>2, <5>1
          <5> QED
            BY <1>7, <2>3, <5>1, <5>2
        <4> QED
          BY <4>1, <4>2
      <3> QED
        BY <1>10, <3>1 DEF Champion, b
    <2>4. CASE ~(Score(n + 1) > Score(c))
      <3>1. Score(c) \in Nat /\ Score(n + 1) \in Nat
        BY <1>1, <1>3, <2>2
      <3>2. Better(b, c, n + 1)
        BY <1>1, <1>7, <2>2, <2>4, <3>1
      <3> QED
        BY <2>2, <3>2 DEF Champion, b
    <2> QED
      BY <2>3, <2>4
  <1> QED
    BY <1>8, <1>9, <1>10

\* A tool is done, with code, nothing or an error.
LEMMA AttemptStep ==
    ASSUME DecompileInv, NEW r \in Asks, NEW a \in Attempts, NEW s, Running(r, a.tool, s), s # "done",
           Attempted(r, a), UNCHANGED <<typeVars, deScope, file, results>>,
           Kept(r, a), a.kind # "error" => a.file = file
    PROVE  DecompileInv'
  <1> DEFINE t == a.tool
             runs == Stepped(ask[r], t, "done")
             all == Append(ask[r].attempts, a)
             v == [ask[r] EXCEPT !.runs = runs, !.attempts = all]
  <1>1. /\ ask[r].at = "run" /\ t \in DOMAIN ask[r].runs /\ t \in Tools /\ ask[r].runs[t] = s
        /\ ask[r].runs \in [DOMAIN ask[r].runs -> Steps] /\ AskTyped(r) /\ AskTrue(r)
        /\ DOMAIN ask[r] = AskFields
    BY RunningFacts
  <1>2. ask' = [ask EXCEPT ![r] = v]
    BY DEF Attempted
  <1>3. ask'[r] = v
    BY <1>2, Stepping
  <1>4. /\ DOMAIN runs = DOMAIN ask[r].runs /\ runs \in [DOMAIN runs -> Steps] /\ runs[t] = "done"
        /\ \A o \in DOMAIN runs : o # t => runs[o] = ask[r].runs[o]
    BY <1>1 DEF Stepped, Steps
  <1>5. /\ ask[r].attempts \in Seq(Attempts) /\ Len(ask[r].attempts) \in Nat /\ all \in Seq(Attempts)
        /\ Len(all) = Len(ask[r].attempts) + 1 /\ all[Len(ask[r].attempts) + 1] = a
        /\ \A i \in 1..Len(ask[r].attempts) : all[i] = ask[r].attempts[i]
    <2>1. ask[r].attempts \in Seq(Attempts)
      BY <1>1 DEF AskTyped
    <2> QED
      BY <2>1, AppendProperties, LenProperties
  <1>6. Successes(all) # {} => Champion(all)
    <2>1. Successes(ask[r].attempts) # {} => Champion(ask[r].attempts)
      BY <1>1 DEF AskTrue, AttemptsTrue
    <2>2. \A o \in Tools : Tool(o).quality \in Nat
      BY DecompileFacts DEF DecompileInv
    <2> QED
      BY <1>5, <2>1, <2>2, ChampionAppended
  <1> HIDE DEF runs, all
  <1>7. LET q == ask[r]
            u == ask'[r]
        IN /\ DOMAIN u = AskFields /\ u.at = q.at /\ u.runs = runs /\ u.file = q.file /\ u.types = q.types
           /\ u.notes = q.notes /\ u.refs = q.refs /\ u.frame = q.frame /\ u.rewrites = q.rewrites
           /\ u.key = q.key /\ u.attempts = all /\ u.served = q.served /\ u.moved = q.moved
    BY <1>1, <1>3 DEF AskFields
  <1> HIDE DEF v, t
  <1>8. AttemptsTrue(r)
    BY <1>1 DEF AskTrue
  <1>9. Asked(r)' = Asked(r) /\ \A o : Tool(o)' = Tool(o)
    BY DEF Asked, Tool
  <1>10. Len(all) = Cardinality(Tried(r)')
    <2>1. Tried(r)' = Tried(r) \cup {t} /\ t \notin Tried(r)
      BY <1>1, <1>4, <1>7 DEF Tried
    <2>2. IsFiniteSet(Tried(r))
      <3>1. Tried(r) \subseteq Tools /\ IsFiniteSet(Tools)
        BY <1>1, DecompileFacts DEF Tried, AskTyped, DecompileInv
      <3> QED
        BY <3>1, FS_Subset
    <2>3. Cardinality(Tried(r) \cup {t}) = Cardinality(Tried(r)) + 1
      BY <2>1, <2>2, FS_AddElement
    <2>4. Len(ask[r].attempts) = Cardinality(Tried(r))
      BY <1>1, <1>8 DEF AttemptsTrue
    <2> QED
      BY <1>5, <2>1, <2>3, <2>4
  <1>11. \A i \in 1..Len(all) :
            /\ Kept(r, all[i])
            /\ Asked(r).tool # 0 => all[i].tool = Asked(r).tool
            /\ all[i].kind # "error" /\ Still(r, "file") => all[i].file = ask[r].file
    <2> SUFFICES ASSUME NEW i \in 1..Len(all)
                 PROVE  /\ Kept(r, all[i])
                        /\ Asked(r).tool # 0 => all[i].tool = Asked(r).tool
                        /\ all[i].kind # "error" /\ Still(r, "file") => all[i].file = ask[r].file
      OBVIOUS
    <2>2. CASE i \in 1..Len(ask[r].attempts)
      <3>1. all[i] = ask[r].attempts[i]
        BY <1>5, <2>2
      <3>2. /\ Kept(r, ask[r].attempts[i])
            /\ Asked(r).tool # 0 => ask[r].attempts[i].tool = Asked(r).tool
            /\ ask[r].attempts[i].kind # "error" /\ Still(r, "file") => ask[r].attempts[i].file = ask[r].file
        BY <1>8, <2>2 DEF AttemptsTrue
      <3> QED
        BY <3>1, <3>2
    <2>3. CASE i \notin 1..Len(ask[r].attempts)
      <3>1. i = Len(ask[r].attempts) + 1
        BY <1>5, <2>3
      <3>2. all[i] = a
        BY <1>5, <3>1
      <3>3. Asked(r).tool # 0 => t = Asked(r).tool
        BY <1>1, <1>8 DEF AttemptsTrue
      <3>4. Still(r, "file") => ask[r].file = file
        BY <1>1 DEF AskTrue, ReadTrue, Live, Ended, AskAt
      <3> QED
        BY <3>2, <3>3, <3>4 DEF t
    <2> QED
      BY <2>2, <2>3
  <1>12. AttemptsTrue(r)'
    <2>1. /\ \A x : Kept(r, x)' <=> Kept(r, x)
          /\ \A x : Champion(x)' <=> Champion(x)
      BY <1>9, Zenon DEF Kept, Champion, Better
    <2>2. Still(r, "file")' <=> Still(r, "file")
      BY <1>7 DEF Still
    <2>3. ask'[r].attempts = all /\ ask'[r].at = "run" /\ ask'[r].runs = runs /\ ask'[r].file = ask[r].file
      BY <1>1, <1>7
    <2>4. /\ Asked(r).tool # 0 => DOMAIN runs = {Asked(r).tool}
          /\ \A o \in DOMAIN runs : runs[o] \in {"docker", "pull", "again"} =>
                Asked(r).provider # "local" /\ (Asked(r).provider = "auto" => ~Tool(o).command)
      BY <1>1, <1>4, <1>8 DEF AttemptsTrue
    <2> QED
      BY <1>6, <1>9, <1>10, <1>11, <2>1, <2>2, <2>3, <2>4 DEF AttemptsTrue
  <1> QED
    BY <1>1, <1>2, <1>3, <1>4, <1>5, <1>7, <1>12, ToolStep DEF AskTyped

LEMMA Outcomes ==
    ASSUME DecompileInv, NEW t \in Tools, NEW how \in {"none", "local", "http", "docker"}
    PROVE  /\ \A made \in Made(t, how) :
                 made \in Attempts /\ made.tool = t /\ made.how = how /\ (made.kind # "error" => made.file = file)
           /\ LET failed == Failed(t, how) IN
              failed \in Attempts /\ failed.tool = t /\ failed.how = how /\ failed.kind = "error"
  <1>1. deScope.outcomes \subseteq {"code", "empty", "error"}
    BY DecompileAssumption DEF DecompileInv, AskTypes
  <1>2. file \in Nat /\ Tools \subseteq Nat
    BY DecompileFacts, DecompileAssumption DEF DecompileInv, AskTypes
  <1> QED
    BY <1>1, <1>2 DEF Made, Failed, Attempts

\* What a tool made, or failed to make.
LEMMA ToolDone ==
    ASSUME DecompileInv, NEW r \in Asks, NEW t, NEW s, Running(r, t, s), s # "done",
           NEW how \in {"none", "local", "http", "docker"},
           UNCHANGED <<typeVars, deScope, file, results>>,
           how = "docker" => Asked(r).provider # "local",
           how \in {"local", "http"} => Asked(r).provider # "docker",
           how = "docker" /\ Asked(r).provider = "auto" => ~Tool(t).command,
           (\E made \in Made(t, how) : Attempted(r, made)) \/ Attempted(r, Failed(t, how))
    PROVE  DecompileInv'
  <1>1. t \in Tools
    BY RunningFacts
  <1>2. CASE \E made \in Made(t, how) : Attempted(r, made)
    <2>1. PICK made \in Made(t, how) : Attempted(r, made)
      BY <1>2
    <2>2. made \in Attempts /\ made.tool = t /\ made.how = how /\ (made.kind # "error" => made.file = file)
      BY <1>1, Outcomes
    <2>3. Kept(r, made)
      BY <2>2 DEF Kept
    <2> QED
      BY <2>1, <2>2, <2>3, AttemptStep
  <1>3. CASE Attempted(r, Failed(t, how))
    <2> DEFINE failed == Failed(t, how)
    <2>1. failed \in Attempts /\ failed.tool = t /\ failed.how = how /\ failed.kind = "error"
      BY <1>1, Outcomes
    <2>2. Attempted(r, failed)
      BY <1>3
    <2> HIDE DEF failed
    <2>3. Kept(r, failed)
      BY <2>1 DEF Kept
    <2> QED
      BY <2>1, <2>2, <2>3, AttemptStep
  <1> QED
    BY <1>2, <1>3

LEMMA RunLocalKeeps ==
    ASSUME DecompileInv, NEW r \in Asks, NEW t \in Tools, RunLocal(r, t)
    PROVE  DecompileInv'
  <1>1. Running(r, t, "start") /\ UNCHANGED <<typeVars, toolVars, file, notes, results, edited>>
    BY DEF RunLocal
  <1>2. UNCHANGED <<typeVars, deScope, file, results>>
    BY <1>1 DEF toolVars
  <1>3. \/ Attempted(r, Failed(t, "none"))
        \/ Asked(r).provider = "docker" /\ Then(r, t, "docker")
        \/ Asked(r).provider # "docker" /\ \E made \in Made(t, "http") : Attempted(r, made)
        \/ Asked(r).provider = "auto" /\ ~Tool(t).command /\ Then(r, t, "docker")
        \/ Asked(r).provider # "docker" /\ Attempted(r, Failed(t, "local"))
        \/ Asked(r).provider # "docker" /\ \E made \in Made(t, "local") : Attempted(r, made)
    <2> DEFINE suits == Suits(r, t)
    <2>1. CASE ~suits
      BY <2>1, Zenon DEF RunLocal
    <2>2. CASE suits /\ Asked(r).provider = "docker"
      BY <2>2, Zenon DEF RunLocal
    <2>3. CASE suits /\ Asked(r).provider # "docker" /\ Tool(t).endpoint
      BY <2>3, Zenon DEF RunLocal
    <2>4. CASE suits /\ Asked(r).provider # "docker" /\ ~Tool(t).endpoint
      BY <2>4, Zenon DEF RunLocal
    <2> QED
      BY <2>1, <2>2, <2>3, <2>4, Zenon
  <1>4. CASE Attempted(r, Failed(t, "none"))
    BY <1>1, <1>2, <1>4, ToolDone
  <1>5. CASE Asked(r).provider = "docker" /\ Then(r, t, "docker")
    BY <1>1, <1>2, <1>5, ThenKeeps
  <1>6. CASE Asked(r).provider # "docker" /\ \E made \in Made(t, "http") : Attempted(r, made)
    BY <1>1, <1>2, <1>6, ToolDone
  <1>7. CASE Asked(r).provider = "auto" /\ ~Tool(t).command /\ Then(r, t, "docker")
    BY <1>1, <1>2, <1>7, ThenKeeps
  <1>8. CASE Asked(r).provider # "docker" /\ Attempted(r, Failed(t, "local"))
    BY <1>1, <1>2, <1>8, ToolDone
  <1>9. CASE Asked(r).provider # "docker" /\ \E made \in Made(t, "local") : Attempted(r, made)
    BY <1>1, <1>2, <1>9, ToolDone
  <1> QED
    BY <1>3, <1>4, <1>5, <1>6, <1>7, <1>8, <1>9, Zenon

\* A tool that was given to Docker.
LEMMA InDockerFacts ==
    ASSUME DecompileInv, NEW r \in Asks, NEW t, NEW s \in {"docker", "pull", "again"}, Running(r, t, s)
    PROVE  Asked(r).provider # "local" /\ (Asked(r).provider = "auto" => ~Tool(t).command)
  BY RunningFacts DEF AskTrue, AttemptsTrue

LEMMA RunDockerKeeps ==
    ASSUME DecompileInv, NEW r \in Asks, NEW t \in Tools, RunDocker(r, t)
    PROVE  DecompileInv'
  <1>1. Running(r, t, "docker") /\ UNCHANGED <<typeVars, deScope, file, results>>
    BY Zenon DEF RunDocker
  <1>2. Asked(r).provider # "local" /\ (Asked(r).provider = "auto" => ~Tool(t).command)
    BY <1>1, InDockerFacts
  <1>3. \/ Attempted(r, Failed(t, "none"))
        \/ \E made \in Made(t, "docker") : Attempted(r, made)
        \/ Then(r, t, "pull")
        \/ Attempted(r, Failed(t, "docker"))
    <2>1. \/ Attempted(r, Failed(t, "none")) \/ Ran(t, r)
          \/ IF Tool(t).image = "remote" THEN Then(r, t, "pull") ELSE Attempted(r, Failed(t, "docker"))
      BY Zenon DEF RunDocker
    <2> QED
      BY <2>1, Zenon DEF Ran
  <1>4. CASE Attempted(r, Failed(t, "none"))
    BY <1>1, <1>4, ToolDone
  <1>5. CASE \E made \in Made(t, "docker") : Attempted(r, made)
    BY <1>1, <1>2, <1>5, ToolDone
  <1>6. CASE Then(r, t, "pull")
    BY <1>1, <1>2, <1>6, ThenKeeps
  <1>7. CASE Attempted(r, Failed(t, "docker"))
    BY <1>1, <1>2, <1>7, ToolDone
  <1> QED
    BY <1>3, <1>4, <1>5, <1>6, <1>7, Zenon

LEMMA PullImageKeeps ==
    ASSUME DecompileInv, NEW r \in Asks, NEW t \in Tools, PullImage(r, t)
    PROVE  DecompileInv'
  <1>1. Running(r, t, "pull") /\ UNCHANGED <<typeVars, deScope, file, results>>
    BY Zenon DEF PullImage
  <1>2. Asked(r).provider # "local" /\ (Asked(r).provider = "auto" => ~Tool(t).command)
    BY <1>1, InDockerFacts
  <1>3. Then(r, t, "again") \/ Attempted(r, Failed(t, "docker"))
    BY Zenon DEF PullImage
  <1>4. CASE Then(r, t, "again")
    BY <1>1, <1>2, <1>4, ThenKeeps
  <1>5. CASE Attempted(r, Failed(t, "docker"))
    BY <1>1, <1>2, <1>5, ToolDone
  <1> QED
    BY <1>3, <1>4, <1>5

LEMMA RunAgainKeeps ==
    ASSUME DecompileInv, NEW r \in Asks, NEW t \in Tools, RunAgain(r, t)
    PROVE  DecompileInv'
  <1>1. Running(r, t, "again") /\ UNCHANGED <<typeVars, deScope, file, results>>
    BY Zenon DEF RunAgain, toolVars
  <1>2. Asked(r).provider # "local" /\ (Asked(r).provider = "auto" => ~Tool(t).command)
    BY <1>1, InDockerFacts
  <1>3. (\E made \in Made(t, "docker") : Attempted(r, made)) \/ Attempted(r, Failed(t, "docker"))
    BY Zenon DEF RunAgain, Ran
  <1> QED
    BY <1>1, <1>2, <1>3, ToolDone

-----------------------------------------------------------------------------
(* The answer of a request *)

\* What is chosen when every tool has ended.
LEMMA SelectBestKeeps ==
    ASSUME DecompileInv, NEW r \in Asks, SelectBest(r)
    PROVE  DecompileInv'
  <1> DEFINE a == ask[r].attempts
             best == IF Asked(r).tool # 0 THEN a[1] ELSE IF Successes(a) = {} THEN NoResult ELSE a[Best(a)]
             b == [tool |-> best.tool, file |-> best.file, kind |-> best.kind]
             s == IF best.kind = "error" \/ Asked(r).full THEN "done" ELSE "store"
             v == [ask[r] EXCEPT !.best = b, !.at = s]
  <1>1. /\ ask[r].at = "run" /\ ask' = [ask EXCEPT ![r] = v]
        /\ \A t \in DOMAIN ask[r].runs : ask[r].runs[t] = "done"
        /\ UNCHANGED <<typeVars, toolVars, file, notes, results, edited>>
    BY DEF SelectBest, Advance, AskAt
  <1>2. DOMAIN ask[r] = AskFields /\ AskTyped(r) /\ AskTrue(r) /\ ask'[r] = v
    BY <1>1, Stepping
  <1>3. AttemptsTrue(r)
    BY <1>2 DEF AskTrue
  <1>4. a \in Seq(Attempts) /\ Len(a) \in Nat /\ DOMAIN a = 1..Len(a) /\ \A i \in 1..Len(a) : a[i] \in Attempts
    BY <1>2, LenProperties, ElementOfSeq DEF AskTyped
  <1>5. Len(a) = Cardinality(DOMAIN ask[r].runs)
    <2>1. Tried(r) = DOMAIN ask[r].runs
      BY <1>1 DEF Tried
    <2> QED
      BY <1>1, <1>3, <2>1 DEF AttemptsTrue
  <1>6. Asked(r).tool # 0 => Len(a) = 1
    <2> SUFFICES ASSUME Asked(r).tool # 0 PROVE Len(a) = 1
      OBVIOUS
    <2>1. DOMAIN ask[r].runs = {Asked(r).tool}
      BY <1>1, <1>3 DEF AttemptsTrue
    <2>2. Cardinality({Asked(r).tool}) = 1
      BY FS_Singleton
    <2> QED
      BY <1>5, <2>1, <2>2
  <1>7. Successes(a) # {} => Best(a) \in Successes(a) /\ \A j \in Successes(a) : Better(a, Best(a), j)
    <2>1. Successes(a) # {} => Champion(a)
      BY <1>3 DEF AttemptsTrue
    <2> QED
      BY <2>1, Zenon DEF Champion, Best
  <1>8. \A i \in Successes(a) : i \in 1..Len(a) /\ a[i].kind = "code" /\ Tool(a[i].tool).quality \in Nat
    <2>1. \A i \in Successes(a) : i \in 1..Len(a) /\ a[i].kind = "code"
      BY <1>4 DEF Successes
    <2>2. \A i \in Successes(a) : a[i].tool \in Tools
      BY <1>4, <2>1 DEF Attempts
    <2> QED
      BY <2>1, <2>2, DecompileFacts DEF DecompileInv
  <1> HIDE DEF a
  <1>9. \/ Asked(r).tool # 0 /\ best = a[1]
        \/ Asked(r).tool = 0 /\ Successes(a) = {} /\ best = NoResult
        \/ Asked(r).tool = 0 /\ Successes(a) # {} /\ best = a[Best(a)]
    BY Zenon
  <1> HIDE DEF best
  <1>10. /\ s \in {"done", "store"} /\ (s = "store" => best.kind # "error" /\ ~Asked(r).full)
         /\ b.tool = best.tool /\ b.file = best.file /\ b.kind = best.kind
    OBVIOUS
  <1> HIDE DEF s, b
  <1>11. LET q == ask[r]
             u == ask'[r]
         IN /\ DOMAIN u = AskFields /\ u.at = s /\ u.best = b /\ u.runs = q.runs /\ u.file = q.file /\ u.types = q.types
            /\ u.notes = q.notes /\ u.refs = q.refs /\ u.frame = q.frame /\ u.rewrites = q.rewrites
            /\ u.key = q.key /\ u.attempts = q.attempts /\ u.served = q.served /\ u.moved = q.moved
    BY <1>2 DEF AskFields
  <1> HIDE DEF v
  <1>12. /\ catalog' = catalog /\ typeScope' = typeScope /\ file' = file /\ deScope' = deScope
         /\ UNCHANGED <<typeVars, deScope, file>> /\ ResultsTrue'
    BY <1>1, ResultsStay DEF typeVars, toolVars
  <1>13. Asked(r)' = Asked(r) /\ \A o : Tool(o)' = Tool(o)
    BY <1>12 DEF Asked, Tool
  <1>14. ReadTrue(r)' /\ RewriteTrue(r)' /\ KeyTrue(r)' /\ ServedTrue(r)'
    <2>1. ReadTrue(r)'
      BY <1>1, <1>2, <1>10, <1>11, <1>12 DEF AskTrue, ReadTrue, Live, Ended, AskAt, Still
    <2>2. RewriteTrue(r)'
      BY <1>10, <1>11 DEF RewriteTrue
    <2>3. KeyTrue(r)'
      BY <1>1, <1>2, <1>10, <1>11, <1>12, <1>13 DEF AskTrue, KeyTrue, Keyed, AskAt, Still, Word
    <2>4. ask'[r].served = <<>>
      BY <1>1, <1>2, <1>11 DEF AskTrue, ServedTrue, Ended, AskAt
    <2>5. DOMAIN <<>> = {}
      OBVIOUS
    <2>6. ServedTrue(r)'
      BY <2>4, <2>5, Zenon DEF ServedTrue
    <2> QED
      BY <2>1, <2>2, <2>3, <2>6
  <1>15. \A i \in 1..Len(a) : a[i].kind # "error" /\ Still(r, "file") => a[i].file = ask[r].file
    BY <1>3 DEF AttemptsTrue, a
  <1>16. AttemptsTrue(r)'
    <2>1. \A x : Kept(r, x)' <=> Kept(r, x)
      BY <1>13, Zenon DEF Kept
    <2>2. Champion(ask[r].attempts)' <=> Champion(ask[r].attempts)
      BY <1>11, <1>13 DEF Champion, Better, Successes
    <2>3. Successes(ask[r].attempts)' = Successes(ask[r].attempts)
      BY <1>11 DEF Successes
    <2>4. Still(r, "file")' <=> Still(r, "file")
      BY <1>11 DEF Still
    <2>5. Tried(r)' = Tried(r)
      BY <1>11 DEF Tried
    <2> QED
      BY <1>1, <1>3, <1>10, <1>11, <1>13, <2>1, <2>2, <2>3, <2>4, <2>5 DEF AttemptsTrue
  <1>17. /\ Asked(r).tool = 0 => (b.kind = "code" <=> Successes(a) # {})
         /\ b.kind = "code" => \A i \in Successes(a) : Tool(a[i].tool).quality <= Tool(b.tool).quality
    <2>1. CASE Asked(r).tool # 0
      <3>1. \A i \in Successes(a) : i = 1
        BY <1>6, <1>8, <2>1
      <3>2. b.tool = a[1].tool
        BY <1>9, <1>10, <2>1
      <3>3. \A i \in Successes(a) : Tool(a[i].tool).quality = Tool(b.tool).quality /\ Tool(a[i].tool).quality \in Nat
        BY <1>8, <3>1, <3>2
      <3> QED
        BY <2>1, <3>3
    <2>2. CASE Asked(r).tool = 0 /\ Successes(a) = {}
      BY <1>9, <1>10, <2>2 DEF NoResult
    <2>3. CASE Asked(r).tool = 0 /\ Successes(a) # {}
      <3> DEFINE c == Best(a)
      <3>1. c \in Successes(a) /\ \A j \in Successes(a) : Better(a, c, j)
        BY <1>7, <2>3 DEF a
      <3>2. best = a[c]
        BY <1>9, <2>3
      <3> HIDE DEF c
      <3>3. b.kind = "code" /\ b.tool = a[c].tool
        BY <1>8, <1>10, <3>1, <3>2
      <3>4. \A j \in Successes(a) : Tool(a[j].tool).quality <= Tool(a[c].tool).quality
        <4> SUFFICES ASSUME NEW j \in Successes(a) PROVE Tool(a[j].tool).quality <= Tool(a[c].tool).quality
          OBVIOUS
        <4> DEFINE m == Tool(a[c].tool).quality
                   n == Tool(a[j].tool).quality
        <4>1. m \in Nat /\ n \in Nat
          BY <1>8, <3>1
        <4>2. m > n \/ m = n
          BY <3>1, Zenon DEF Better
        <4> HIDE DEF m, n
        <4>3. n <= m
          BY <4>1, <4>2
        <4> QED
          BY <4>3 DEF m, n
      <3> QED
        BY <2>3, <3>3, <3>4
    <2> QED
      BY <2>1, <2>2, <2>3
  <1>18. s = "store" =>
            /\ a # <<>> /\ b.kind # "error" /\ Asked(r).tool \in {0, b.tool}
            /\ Still(r, "file") => b.file = ask[r].file
    <2> SUFFICES ASSUME s = "store"
                 PROVE  /\ a # <<>> /\ b.kind # "error" /\ Asked(r).tool \in {0, b.tool}
                        /\ Still(r, "file") => b.file = ask[r].file
      OBVIOUS
    <2>1. b.kind # "error" /\ best.kind # "error"
      BY <1>10
    <2>2. CASE Asked(r).tool # 0
      <3>1. 1 \in 1..Len(a) /\ best = a[1]
        BY <1>6, <1>9, <2>2
      <3>2. a # <<>>
        BY <1>6, <2>2, NoneTried
      <3>3. a[1].tool = Asked(r).tool
        BY <1>3, <2>2, <3>1 DEF AttemptsTrue, a
      <3> QED
        BY <1>10, <1>15, <2>1, <3>1, <3>2, <3>3
    <2>3. CASE Asked(r).tool = 0
      <3>1. Successes(a) # {} /\ best = a[Best(a)]
        BY <1>9, <2>1, <2>3 DEF NoResult
      <3>2. Best(a) \in Successes(a)
        BY <1>7, <3>1 DEF a
      <3>3. Best(a) \in 1..Len(a)
        BY <1>8, <3>2
      <3>4. a # <<>>
        BY <3>1, NoneTried
      <3> QED
        BY <1>10, <1>15, <2>1, <2>3, <3>1, <3>3, <3>4
    <2> QED
      BY <2>2, <2>3
  <1>19. BestTrue(r)'
    <2>1. ask'[r].attempts = a /\ ask'[r].best = b /\ ask'[r].at = s /\ ask'[r].runs = ask[r].runs
          /\ ask'[r].file = ask[r].file
      BY <1>11 DEF a
    <2>2. Successes(a)' = Successes(a)
      BY <1>11 DEF Successes, a
    <2>3. Still(r, "file")' <=> Still(r, "file")
      BY <1>11 DEF Still
    <2>4. Len(a) = Cardinality(DOMAIN ask[r].runs)
      BY <1>5 DEF a
    <2> QED
      BY <1>13, <1>17, <1>18, <2>1, <2>2, <2>3, <2>4 DEF BestTrue, Ended, AskAt
  <1>20. AskTyped(r)'
    BY <1>2, <1>10, <1>11 DEF AskTyped, AskSteps
  <1> QED
    BY <1>1, <1>12, <1>14, <1>16, <1>19, <1>20, StepOf DEF AskTrue

\* A result is kept under the key of what the request has read.
LEMMA StoreResultKeeps ==
    ASSUME DecompileInv, NEW r \in Asks, StoreResult(r)
    PROVE  DecompileInv'
  <1> DEFINE q == ask[r]
             e == [result |-> q.best, notes |-> q.notes, frame |-> q.frame, refs |-> q.refs,
                   rewrites |-> q.rewrites, types |-> q.types, moved |-> q.moved]
             v == [ask[r] EXCEPT !.at = "done"]
  <1>1. /\ ask[r].at = "store" /\ ask' = [ask EXCEPT ![r] = v]
        /\ results' = [k \in DOMAIN results \cup {q.key} |-> IF k = q.key THEN e ELSE results[k]]
        /\ UNCHANGED <<typeVars, toolVars, file, notes, edited>>
    BY DEF StoreResult, AskAt
  <1>2. DOMAIN ask[r] = AskFields /\ AskTyped(r) /\ AskTrue(r) /\ ask'[r] = v
    BY <1>1, Stepping
  <1>3. /\ catalog' = catalog /\ typeScope' = typeScope /\ file' = file /\ deScope' = deScope
        /\ UNCHANGED <<typeVars, deScope, file>>
    BY <1>1 DEF typeVars, toolVars
  <1>4. Asked(r)' = Asked(r) /\ (\A o : Tool(o)' = Tool(o)) /\ Word' = Word
    BY <1>3 DEF Asked, Tool, Word
  <1>5. Entry(q.key, e, Word)
    <2>1. /\ q.key.notes = q.notes /\ q.key.frame = q.frame /\ q.key.tool = Asked(r).tool
          /\ "refs" \notin q.moved => q.key.refs = q.refs
          /\ "file" \notin q.moved => q.key.file = q.file
          /\ "types" \notin q.moved => q.rewrites = Told(q.key.rows, q.types, Word)
      BY <1>1, <1>2 DEF AskTrue, KeyTrue, Keyed, AskAt, Still
    <2>2. /\ q.best.kind # "error" /\ Asked(r).tool \in {0, q.best.tool}
          /\ "file" \notin q.moved => q.best.file = q.file
      BY <1>1, <1>2 DEF AskTrue, BestTrue, AskAt, Still
    <2> QED
      BY <2>1, <2>2 DEF Entry
  <1> HIDE DEF e
  <1>6. ResultsTrue'
    <2>1. \A k \in DOMAIN results : Entry(k, results[k], Word)
      BY DEF DecompileInv, ResultsTrue
    <2>2. \A k \in DOMAIN results' : (k = q.key /\ results'[k] = e) \/ (k \in DOMAIN results /\ results'[k] = results[k])
      BY <1>1
    <2>3. \A k \in DOMAIN results' : Entry(k, results'[k], Word)
      BY <1>5, <2>1, <2>2
    <2> QED
      BY <1>4, <2>3 DEF ResultsTrue
  <1>7. LET p == ask[r]
            u == ask'[r]
        IN /\ DOMAIN u = AskFields /\ u.at = "done" /\ u.best = p.best /\ u.runs = p.runs /\ u.file = p.file
           /\ u.attempts = p.attempts /\ u.served = p.served /\ u.moved = p.moved
    BY <1>2 DEF AskFields
  <1> HIDE DEF v
  <1>8. ReadTrue(r)' /\ RewriteTrue(r)' /\ KeyTrue(r)'
    BY <1>7 DEF ReadTrue, RewriteTrue, KeyTrue, Keyed, Live, Ended, AskAt
  <1>9. ServedTrue(r)'
    <2>1. ask'[r].served = <<>>
      BY <1>1, <1>2, <1>7 DEF AskTrue, ServedTrue, Ended, AskAt
    <2>2. DOMAIN <<>> = {}
      OBVIOUS
    <2> QED
      BY <2>1, <2>2, Zenon DEF ServedTrue
  <1>10. Successes(ask[r].attempts)' = Successes(ask[r].attempts) /\ (Still(r, "file")' <=> Still(r, "file"))
    BY <1>7 DEF Successes, Still
  <1>11. AttemptsTrue(r)'
    <2>1. \A x : Kept(r, x)' <=> Kept(r, x)
      BY <1>4, Zenon DEF Kept
    <2>2. Champion(ask[r].attempts)' <=> Champion(ask[r].attempts)
      BY <1>4, <1>7 DEF Champion, Better, Successes
    <2>3. AttemptsTrue(r)
      BY <1>2 DEF AskTrue
    <2> QED
      BY <1>1, <1>4, <1>7, <1>10, <2>1, <2>2, <2>3 DEF AttemptsTrue
  <1>12. BestTrue(r)'
    <2>1. BestTrue(r)
      BY <1>2 DEF AskTrue
    <2> QED
      BY <1>1, <1>4, <1>7, <1>10, <2>1 DEF BestTrue, Ended, AskAt
  <1>13. AskTyped(r)'
    BY <1>2, <1>7 DEF AskTyped, AskSteps
  <1> QED
    BY <1>1, <1>3, <1>6, <1>8, <1>9, <1>11, <1>12, <1>13, StepOf DEF AskTrue

-----------------------------------------------------------------------------
(* What changes meanwhile *)

\* A request that is under way has seen the change; the others are as they were.
LEMMA MovingKeeps ==
    ASSUME DecompileInv, NEW what, Moving(what), UNCHANGED <<typeScope, deScope, results>>, file' \in Nat,
           what # "file" => file' = file, what # "refs" => refs' = refs,
           what # "types" => catalog' = catalog /\ bindings' = bindings
    PROVE  DecompileInv'
  <1>1. Asks' = Asks /\ Word' = Word /\ (\A r : Asked(r)' = Asked(r)) /\ (\A t : Tool(t)' = Tool(t))
    BY DEF Asks, Word, Asked, Tool
  <1>2. ASSUME NEW r \in Asks PROVE AskTyped(r)' /\ AskTrue(r)'
    <2>1. DOMAIN ask[r] = AskFields /\ AskTyped(r) /\ AskTrue(r)
      BY DEF DecompileInv, AskTypes, AskTyped
    <2>2. ask[r].at \in {"start", "done"} => ask'[r] = ask[r]
      BY DEF Moving, AskAt
    <2>3. ask[r].at \notin {"start", "done"} => ask'[r] = [ask[r] EXCEPT !.moved = ask[r].moved \cup {what}]
      BY DEF Moving, AskAt
    <2>4. LET q == ask[r]
              u == ask'[r]
          IN /\ DOMAIN u = AskFields /\ u.at = q.at /\ u.file = q.file /\ u.types = q.types
             /\ u.notes = q.notes /\ u.refs = q.refs /\ u.frame = q.frame /\ u.rows = q.rows
             /\ u.rewrites = q.rewrites /\ u.key = q.key /\ u.runs = q.runs /\ u.attempts = q.attempts
             /\ u.best = q.best /\ u.served = q.served
             /\ q.at \in {"start", "done"} => u.moved = q.moved
             /\ q.at \notin {"start", "done"} => u.moved = q.moved \cup {what}
      BY <2>1, <2>2, <2>3 DEF AskFields
    <2>5. \A w : Still(r, w)' => Still(r, w) /\ (w = what => ask[r].at \in {"start", "done"})
      BY <2>4 DEF Still
    <2>6. AskTyped(r)'
      BY <2>1, <2>4 DEF AskTyped
    <2>7. ReadTrue(r)'
      BY <2>1, <2>4, <2>5 DEF AskTrue, ReadTrue, Live, Ended, AskAt
    <2>8. RewriteTrue(r)'
      BY <1>1, <2>1, <2>4, <2>5 DEF AskTrue, RewriteTrue
    <2>9. KeyTrue(r)'
      BY <1>1, <2>1, <2>4, <2>5 DEF AskTrue, KeyTrue, Keyed, AskAt
    <2>10. AttemptsTrue(r)'
      <3>1. \A x : Kept(r, x)' <=> Kept(r, x)
        BY <1>1, Zenon DEF Kept
      <3>2. Champion(ask[r].attempts)' <=> Champion(ask[r].attempts)
        BY <1>1, <2>4 DEF Champion, Better, Successes
      <3>3. Successes(ask[r].attempts)' = Successes(ask[r].attempts) /\ Tried(r)' = Tried(r)
        BY <2>4 DEF Successes, Tried
      <3>4. AttemptsTrue(r) /\ (Still(r, "file")' => Still(r, "file"))
        BY <2>1, <2>5 DEF AskTrue
      <3> QED
        BY <1>1, <2>4, <3>1, <3>2, <3>3, <3>4 DEF AttemptsTrue
    <2>11. BestTrue(r)'
      <3>1. Successes(ask[r].attempts)' = Successes(ask[r].attempts)
        BY <2>4 DEF Successes
      <3>2. BestTrue(r) /\ (Still(r, "file")' => Still(r, "file"))
        BY <2>1, <2>5 DEF AskTrue
      <3> QED
        BY <1>1, <2>4, <3>1, <3>2 DEF BestTrue, Ended, AskAt
    <2>12. ServedTrue(r)'
      <3>1. CASE ask[r].at = "done"
        <4>1. ask'[r] = ask[r] /\ ServedTrue(r)
          BY <2>1, <2>2, <3>1 DEF AskTrue
        <4> QED
          BY <1>1, <4>1 DEF ServedTrue, Ended, AskAt
      <3>2. CASE ask[r].at # "done"
        <4>1. ask'[r].served = <<>>
          BY <2>1, <2>4, <3>2 DEF AskTrue, ServedTrue, Ended, AskAt
        <4>2. DOMAIN <<>> = {}
          OBVIOUS
        <4> QED
          BY <4>1, <4>2, Zenon DEF ServedTrue
      <3> QED
        BY <3>1, <3>2
    <2> QED
      BY <2>6, <2>7, <2>8, <2>9, <2>10, <2>11, <2>12 DEF AskTrue
  <1>3. DOMAIN ask' = Asks
    BY DEF Moving
  <1>4. AskTypes'
    BY <1>1, <1>2, <1>3 DEF DecompileInv, AskTypes
  <1>5. ResultsTrue'
    BY ResultsStay
  <1> QED
    BY <1>1, <1>2, <1>4, <1>5, Zenon DEF DecompileInv

\* A step of the catalog changes the applied types, or the definitions and bindings.
LEMMA TypeSteps ==
    ASSUME TypeNext
    PROVE  typeScope' = typeScope /\ (refs' = refs \/ (catalog' = catalog /\ bindings' = bindings))
  <1>1. PICK c \in TypeClients :
            BeginChange(c) \/ ContinueApply(c) \/ WriteImport(c) \/ WriteRef(c) \/ WriteBinding(c)
    BY Zenon DEF TypeNext
  <1>2. CASE BeginChange(c)
    <2>1. PICK order \in typeScope.orders : SaveSource(c, order) \/ LayOut(c, order) \/ Count(c, order)
      BY <1>2, Zenon DEF BeginChange
    <2> QED
      BY <2>1, Zenon DEF SaveSource, LayOut, Count
  <1>3. CASE ContinueApply(c)
    BY <1>3, Zenon DEF ContinueApply, Count
  <1>4. CASE WriteImport(c)
    BY <1>4, Zenon DEF WriteImport
  <1>5. CASE WriteRef(c)
    BY <1>5, Zenon DEF WriteRef
  <1>6. CASE WriteBinding(c)
    BY <1>6, Zenon DEF WriteBinding
  <1> QED
    BY <1>1, <1>2, <1>3, <1>4, <1>5, <1>6

\* Nothing that a request knows of has changed.
LEMMA AsideKeeps ==
    ASSUME DecompileInv, UNCHANGED <<typeScope, catalog, refs, bindings, deScope, file, results, ask>>
    PROVE  DecompileInv'
  <1>1. Asks' = Asks
    BY DEF Asks
  <1>2. \A o \in Asks : AskTyped(o)' /\ AskTrue(o)'
    BY OthersTrue DEF DecompileInv, AskTypes
  <1>3. AskTypes' /\ ResultsTrue'
    BY <1>1, <1>2, ResultsStay DEF DecompileInv, AskTypes
  <1> QED
    BY <1>1, <1>2, <1>3, Zenon DEF DecompileInv

LEMMA EditsKeep ==
    ASSUME DecompileInv, EditNotes \/ RewriteFile \/ RemoveFile \/ ChangeTypes
    PROVE  DecompileInv'
  <1>1. file \in Nat
    BY DEF DecompileInv, AskTypes
  <1>2. CASE EditNotes
    BY <1>1, <1>2, MovingKeeps DEF EditNotes, typeVars, toolVars
  <1>3. CASE RewriteFile
    BY <1>3, MovingKeeps DEF RewriteFile, typeVars, toolVars
  <1>4. CASE RemoveFile
    BY <1>4, MovingKeeps DEF RemoveFile, typeVars, toolVars
  <1>5. CASE ChangeTypes
    <2>1. /\ typeScope' = typeScope /\ (refs' = refs \/ (catalog' = catalog /\ bindings' = bindings))
          /\ deScope' = deScope /\ results' = results /\ file' = file
      BY <1>5, TypeSteps DEF ChangeTypes, toolVars
    <2>2. \/ refs' # refs /\ Moving("refs")
          \/ refs' = refs /\ Moving("types")
          \/ refs' = refs /\ catalog' = catalog /\ bindings' = bindings /\ ask' = ask
      BY <1>5 DEF ChangeTypes
    <2>3. CASE refs' # refs /\ Moving("refs")
      BY <1>1, <2>1, <2>3, MovingKeeps
    <2>4. CASE refs' = refs /\ Moving("types")
      BY <1>1, <2>1, <2>4, MovingKeeps
    <2>5. CASE refs' = refs /\ catalog' = catalog /\ bindings' = bindings /\ ask' = ask
      BY <2>1, <2>5, AsideKeeps
    <2> QED
      BY <2>2, <2>3, <2>4, <2>5
  <1> QED
    BY <1>2, <1>3, <1>4, <1>5

-----------------------------------------------------------------------------
LEMMA DecompileStarts ==
    ASSUME DecompileInit
    PROVE  DecompileInv
  <1>1. deScope \in DecompileScopes /\ file = 1 /\ results = NoTypes /\ ask = [r \in Asks |-> Unasked]
    BY DEF DecompileInit
  <1>2. ASSUME NEW r \in Asks PROVE AskTyped(r) /\ AskTrue(r)
    <2>1. /\ ask[r].at = "start" /\ ask[r].attempts = <<>> /\ ask[r].served = <<>> /\ ask[r].runs = NoTypes
          /\ ask[r].rewrites = NoTypes /\ DOMAIN ask[r] = AskFields
      BY <1>1 DEF Unasked, AskFields
    <2>2. AskTyped(r)
      BY <2>1, NoneTried DEF AskTyped, AskSteps
    <2>3. ReadTrue(r) /\ RewriteTrue(r) /\ KeyTrue(r)
      BY <2>1 DEF ReadTrue, RewriteTrue, KeyTrue, Keyed, Live, Ended, AskAt
    <2>4. AttemptsTrue(r) /\ BestTrue(r)
      BY <2>1, NoneTried DEF AttemptsTrue, BestTrue, Ended, AskAt
    <2>5. DOMAIN <<>> = {}
      OBVIOUS
    <2>6. ServedTrue(r)
      BY <2>1, <2>5, Zenon DEF ServedTrue
    <2> QED
      BY <2>2, <2>3, <2>4, <2>6 DEF AskTrue
  <1>3. AskTypes
    BY <1>1, <1>2 DEF AskTypes
  <1>4. ResultsTrue
    BY <1>1, NoneTried DEF ResultsTrue
  <1> QED
    BY <1>2, <1>3, <1>4, Zenon DEF DecompileInv

LEMMA DecompileSteps ==
    ASSUME DecompileInv, [DecompileNext]_decompileVars
    PROVE  DecompileInv'
  <1>1. CASE \E r \in Asks :
                \/ StartAsk(r) \/ ReadNotes(r) \/ ReadRefs(r) \/ ReadFrame(r) \/ ReadRows(r) \/ ReadTypes(r)
                \/ SignRefs(r) \/ SignRows(r) \/ SignFile(r) \/ LookupResult(r) \/ Choose(r)
                \/ SelectBest(r) \/ StoreResult(r)
    BY <1>1, StartAskKeeps, ReadNotesKeeps, ReadRefsKeeps, ReadFrameKeeps, ReadRowsKeeps, ReadTypesKeeps,
       SignRefsKeeps, SignRowsKeeps, SignFileKeeps, LookupResultKeeps, ChooseKeeps, SelectBestKeeps,
       StoreResultKeeps, Zenon
  <1>2. CASE \E r \in Asks : \E t \in Tools : RunLocal(r, t) \/ RunDocker(r, t) \/ PullImage(r, t) \/ RunAgain(r, t)
    BY <1>2, RunLocalKeeps, RunDockerKeeps, PullImageKeeps, RunAgainKeeps, Zenon
  <1>3. CASE EditNotes \/ RewriteFile \/ RemoveFile \/ ChangeTypes
    BY <1>3, EditsKeep
  <1>4. CASE \E t \in Tools : BuildImage(t) \/ RemoveImage(t)
    BY <1>4, AsideKeeps DEF BuildImage, RemoveImage, typeVars
  <1>5. CASE UNCHANGED decompileVars
    BY <1>5, AsideKeeps DEF decompileVars, typeVars, toolVars
  <1> QED
    BY <1>1, <1>2, <1>3, <1>4, <1>5, Zenon DEF DecompileNext

LEMMA DecompileTells ==
    ASSUME DecompileInv
    PROVE  DecompilationsTell
  <1>1. ServedAsAsked
    BY DEF DecompileInv, AskTrue, ServedTrue, ServedAsAsked
  <1>2. BestOfAttempts
    BY DEF DecompileInv, AskTrue, BestTrue, BestOfAttempts, Ended
  <1>3. ProviderKept
    <2> SUFFICES ASSUME NEW r \in Asks, NEW i \in DOMAIN ask[r].attempts
                 PROVE  LET how == ask[r].attempts[i].how IN
                        /\ how = "docker" => Asked(r).provider # "local"
                        /\ how \in {"local", "http"} => Asked(r).provider # "docker"
                        /\ how = "docker" /\ Asked(r).provider = "auto" => ~Tool(ask[r].attempts[i].tool).command
      BY Zenon DEF ProviderKept
    <2>1. AskTyped(r) /\ AttemptsTrue(r)
      BY DEF DecompileInv, AskTypes, AskTrue
    <2>2. i \in 1..Len(ask[r].attempts)
      BY <2>1, LenProperties DEF AskTyped
    <2> QED
      BY <2>1, <2>2 DEF AttemptsTrue, Kept
  <1> QED
    BY <1>1, <1>2, <1>3 DEF DecompilationsTell

\* An answer taken from the cache of the decompilers is the one the request would have
\* computed, the answer of several tools is of one that no other surpasses, and what runs
\* is of the provider that was asked for, whatever changes meanwhile (decompile.py).
THEOREM DecompilationsAreTold == DecompileSpec => []DecompilationsTell
  <1>1. DecompileInit => DecompileInv
    BY DecompileStarts
  <1>2. DecompileInv /\ [DecompileNext]_decompileVars => DecompileInv'
    BY DecompileSteps
  <1>3. DecompileInv => DecompilationsTell
    BY DecompileTells
  <1> QED
    BY <1>1, <1>2, <1>3, PTL DEF DecompileSpec

-----------------------------------------------------------------------------
(* The rows of TypeCatalog that refer to definitions.  A writer that was        *)
(* counted claims its row until it writes it: what is there and what is        *)
(* claimed together pass the limit by less than there are writers.            *)

Writers(kind) == {c \in TypeClients : typist[c].at = "write" /\ typist[c].order.kind = kind}
BoundSoon == DOMAIN bindings \cup {typist[c].order.var : c \in Writers("bind")}
AppliedSoon == DOMAIN refs \cup {<<typist[c].order.addr, typist[c].order.type>> : c \in Writers("apply")}

Together == Cardinality(TypeClients) - 1

RowsWithin(rows, limit) == IsFiniteSet(rows) /\ Cardinality(rows) <= limit + Together

TypistsCounted ==
    /\ DOMAIN typist = TypeClients
    /\ \A c \in TypeClients : typist[c].at = "count" => typist[c].order.kind = "apply"

TypesInv ==
    /\ TypistsCounted /\ BindingsRefer
    /\ RowsWithin(BoundSoon, MaxBindings) /\ RowsWithin(AppliedSoon, MaxRefs)

LEMMA TogetherIsNat == Together \in Nat
  <1>1. Cardinality(TypeClients) \in Nat /\ Cardinality(TypeClients) # 0
    BY TypeAssumption, FS_CardinalityType, FS_EmptySet
  <1> QED
    BY <1>1 DEF Together

LEMMA WithinLess ==
    ASSUME NEW limit \in Nat, NEW rows, RowsWithin(rows, limit), NEW fewer \in SUBSET rows
    PROVE  RowsWithin(fewer, limit)
  <1>1. IsFiniteSet(fewer) /\ Cardinality(fewer) <= Cardinality(rows)
    BY FS_Subset DEF RowsWithin
  <1>2. Cardinality(fewer) \in Nat /\ Cardinality(rows) \in Nat
    BY <1>1, FS_CardinalityType DEF RowsWithin
  <1> QED
    BY <1>1, <1>2, TogetherIsNat DEF RowsWithin

RowsOf(key, who) == {key[c] : c \in who}

\* Whoever claims rows when the limit is not reached: there are so many of them.
LEMMA WithinClaimed ==
    ASSUME NEW limit \in Nat, NEW rows, IsFiniteSet(rows), Cardinality(rows) < limit,
           NEW who \in SUBSET TypeClients, NEW key
    PROVE  RowsWithin(rows \cup RowsOf(key, who), limit)
  <1> DEFINE claimed == RowsOf(key, who)
             f == [c \in who |-> key[c]]
  <1>1. IsFiniteSet(who) /\ Cardinality(who) <= Cardinality(TypeClients)
    BY TypeAssumption, FS_Subset
  <1>2. f \in Surjection(who, claimed)
    BY DEF Surjection, RowsOf
  <1>3. IsFiniteSet(claimed) /\ Cardinality(claimed) <= Cardinality(who)
    BY <1>1, <1>2, FS_Surjection
  <1> HIDE DEF claimed, f
  <1>4. /\ IsFiniteSet(rows \cup claimed)
        /\ Cardinality(rows \cup claimed)
              = Cardinality(rows) + Cardinality(claimed) - Cardinality(rows \cap claimed)
    BY <1>3, FS_Union
  <1>5. IsFiniteSet(rows \cap claimed)
    BY FS_Intersection
  <1>6. /\ Cardinality(rows) \in Nat /\ Cardinality(claimed) \in Nat /\ Cardinality(rows \cap claimed) \in Nat
        /\ Cardinality(who) \in Nat /\ Cardinality(TypeClients) \in Nat
    BY <1>1, <1>3, <1>5, TypeAssumption, FS_CardinalityType
  <1>7. Cardinality(rows \cup claimed) <= limit + Together
    BY <1>1, <1>3, <1>4, <1>6 DEF Together
  <1> QED
    BY <1>4, <1>7 DEF RowsWithin, claimed

LEMMA RowsStart == TypeInit => TypesInv
  <1> SUFFICES ASSUME TypeInit PROVE TypesInv
    OBVIOUS
  <1>1. TypistsCounted /\ Writers("bind") = {} /\ Writers("apply") = {}
    BY DEF TypeInit, TypistsCounted, Writers, AtRest
  <1>2. BindingsRefer
    BY TypeAssumption DEF TypeInit, BindingsRefer
  <1>3. BoundSoon = DOMAIN typeScope.bound /\ AppliedSoon = {}
    BY <1>1 DEF TypeInit, BoundSoon, AppliedSoon, NoTypes
  <1>4. /\ IsFiniteSet(DOMAIN typeScope.bound) /\ Cardinality(DOMAIN typeScope.bound) <= MaxBindings
        /\ MaxBindings \in Nat /\ MaxRefs \in Nat
    BY TypeAssumption DEF TypeInit
  <1>5. Cardinality(DOMAIN typeScope.bound) \in Nat
    BY <1>4, FS_CardinalityType
  <1>6. RowsWithin(BoundSoon, MaxBindings)
    BY <1>3, <1>4, <1>5, TogetherIsNat DEF RowsWithin
  <1>7. RowsWithin(AppliedSoon, MaxRefs)
    BY <1>3, <1>4, TogetherIsNat, FS_EmptySet DEF RowsWithin
  <1> QED
    BY <1>1, <1>2, <1>6, <1>7 DEF TypesInv

\* Whoever leaves what it claimed, and rows that go: nothing more is claimed.
LEMMA RowsFewer ==
    ASSUME TypesInv, NEW c \in TypeClients, NEW r, r.at # "count", r.at # "write",
           typist' = [typist EXCEPT ![c] = r],
           DOMAIN bindings' \subseteq BoundSoon, DOMAIN refs' \subseteq AppliedSoon
    PROVE  TypistsCounted' /\ RowsWithin(BoundSoon, MaxBindings)' /\ RowsWithin(AppliedSoon, MaxRefs)'
  <1>1. /\ DOMAIN typist' = TypeClients /\ typist'[c] = r
        /\ \A d \in TypeClients : d # c => typist'[d] = typist[d]
    BY DEF TypesInv, TypistsCounted
  <1>2. TypistsCounted'
    BY <1>1 DEF TypesInv, TypistsCounted
  <1>3. BoundSoon' \subseteq BoundSoon /\ AppliedSoon' \subseteq AppliedSoon
    BY <1>1 DEF BoundSoon, AppliedSoon, Writers
  <1>4. MaxBindings \in Nat /\ MaxRefs \in Nat
    BY TypeAssumption
  <1> QED
    BY <1>2, <1>3, <1>4, WithinLess DEF TypesInv, RowsWithin, Together

LEMMA WithoutRefers ==
    ASSUME BindingsRefer, NEW names
    PROVE  \A v \in DOMAIN Without(names) :
              v \in DOMAIN bindings /\ Without(names)[v].type \in DOMAIN catalog \ names
BY DEF BindingsRefer, Without

\* A count that finds room for a binding or a reference.
LEMMA CountedKeeps ==
    ASSUME TypesInv, NEW c \in TypeClients, NEW order, NEW r, Fits(order),
           order.kind \in {"import", "apply", "bind"}, r.at = "write", r.order = order,
           typist' = [typist EXCEPT ![c] = r], UNCHANGED <<catalog, refs, bindings>>
    PROVE  TypesInv'
  <1>1. /\ DOMAIN typist' = TypeClients /\ typist'[c] = r
        /\ \A d \in TypeClients : d # c => typist'[d] = typist[d]
    BY DEF TypesInv, TypistsCounted
  <1>2. TypistsCounted' /\ BindingsRefer'
    BY <1>1 DEF TypesInv, TypistsCounted, BindingsRefer
  <1>3. MaxBindings \in Nat /\ MaxRefs \in Nat
    BY TypeAssumption
  <1>4. RowsWithin(BoundSoon, MaxBindings)'
    <2>1. CASE order.kind = "bind" /\ order.var \notin DOMAIN bindings
      <3>1. Cardinality(DOMAIN bindings) < MaxBindings
        BY <2>1 DEF Fits
      <3>2. IsFiniteSet(DOMAIN bindings)
        BY FS_Subset DEF TypesInv, RowsWithin, BoundSoon
      <3> DEFINE key == [d \in TypeClients |-> typist'[d].order.var]
      <3>3. BoundSoon' = DOMAIN bindings \cup RowsOf(key, Writers("bind")')
        BY DEF BoundSoon, Writers, RowsOf
      <3>4. Writers("bind")' \subseteq TypeClients
        BY DEF Writers
      <3> HIDE DEF key
      <3>5. RowsWithin(DOMAIN bindings \cup RowsOf(key, Writers("bind")'), MaxBindings)
        BY <1>3, <3>1, <3>2, <3>4, WithinClaimed
      <3>6. RowsWithin(BoundSoon', MaxBindings)
        BY <3>3, <3>5, Zenon
      <3> QED
        BY <3>6 DEF RowsWithin, Together
    <2>2. CASE ~(order.kind = "bind" /\ order.var \notin DOMAIN bindings)
      <3>1. BoundSoon' \subseteq BoundSoon
        BY <1>1, <2>2 DEF BoundSoon, Writers
      <3> QED
        BY <1>3, <3>1, WithinLess DEF TypesInv, RowsWithin, Together
    <2> QED
      BY <2>1, <2>2
  <1>5. RowsWithin(AppliedSoon, MaxRefs)'
    <2> DEFINE row == <<order.addr, order.type>>
    <2>1. CASE order.kind = "apply" /\ row \notin DOMAIN refs
      <3>1. Cardinality(DOMAIN refs) < MaxRefs
        BY <2>1 DEF Fits
      <3>2. IsFiniteSet(DOMAIN refs)
        BY FS_Subset DEF TypesInv, RowsWithin, AppliedSoon
      <3> DEFINE key == [d \in TypeClients |-> <<typist'[d].order.addr, typist'[d].order.type>>]
      <3>4. Writers("apply")' \subseteq TypeClients
        BY DEF Writers
      <3>5. \A d \in TypeClients : key[d] = <<typist'[d].order.addr, typist'[d].order.type>>
        OBVIOUS
      <3> HIDE DEF key
      <3>6. \A x : x \in AppliedSoon' <=> x \in DOMAIN refs' \cup RowsOf(key, Writers("apply")')
        <4> DEFINE rows == {<<typist'[d].order.addr, typist'[d].order.type>> : d \in Writers("apply")'}
        <4>1. AppliedSoon' = DOMAIN refs' \cup rows
          BY DEF AppliedSoon
        <4>2. \A x : x \in rows <=> \E d \in Writers("apply")' : x = key[d]
          BY <3>4, <3>5
        <4>3. \A x : x \in RowsOf(key, Writers("apply")') <=> \E d \in Writers("apply")' : x = key[d]
          BY DEF RowsOf
        <4> HIDE DEF rows
        <4> QED
          BY <4>1, <4>2, <4>3
      <3>3. AppliedSoon' = DOMAIN refs \cup RowsOf(key, Writers("apply")')
        <4>1. DOMAIN refs' = DOMAIN refs
          OBVIOUS
        <4> QED
          BY <3>6, <4>1
      <3>7. RowsWithin(DOMAIN refs \cup RowsOf(key, Writers("apply")'), MaxRefs)
        BY <1>3, <3>1, <3>2, <3>4, WithinClaimed
      <3>8. RowsWithin(AppliedSoon', MaxRefs)
        BY <3>3, <3>7, Zenon
      <3> QED
        BY <3>8 DEF RowsWithin, Together
    <2>2. CASE ~(order.kind = "apply" /\ row \notin DOMAIN refs)
      <3>1. AppliedSoon' \subseteq AppliedSoon
        BY <1>1, <2>2 DEF AppliedSoon, Writers
      <3> QED
        BY <1>3, <3>1, WithinLess DEF TypesInv, RowsWithin, Together
    <2> QED
      BY <2>1, <2>2
  <1> QED
    BY <1>2, <1>4, <1>5 DEF TypesInv

LEMMA CountKeeps ==
    ASSUME TypesInv, NEW c \in TypeClients, NEW order, Count(c, order)
    PROVE  TypesInv'
  <1>1. order.kind \in {"import", "apply", "bind"}
    BY DEF Count, TypesInv, TypistsCounted
  <1>2. CASE Fits(order)
    <2> DEFINE r == [at |-> "write", order |-> order, fields |-> typist[c].fields]
    <2>1. typist' = [typist EXCEPT ![c] = r] /\ UNCHANGED <<catalog, refs, bindings>>
      BY <1>2 DEF Count
    <2>2. r.at = "write" /\ r.order = order
      OBVIOUS
    <2> HIDE DEF r
    <2> QED
      BY <1>1, <1>2, <2>1, <2>2, CountedKeeps
  <1>3. CASE ~Fits(order)
    <2>1. typist' = [typist EXCEPT ![c] = AtRest] /\ UNCHANGED <<catalog, refs, bindings>>
      BY <1>3 DEF Count
    <2>2. AtRest.at # "count" /\ AtRest.at # "write"
      BY DEF AtRest
    <2>3. BindingsRefer'
      BY <2>1 DEF TypesInv, BindingsRefer
    <2> QED
      BY <2>1, <2>2, <2>3, RowsFewer DEF TypesInv, BoundSoon, AppliedSoon
  <1> QED
    BY <1>2, <1>3

LEMMA SaveSourceKeeps ==
    ASSUME TypesInv, NEW c \in TypeClients, NEW order, SaveSource(c, order)
    PROVE  TypesInv'
  <1>1. DOMAIN bindings' = {} /\ UNCHANGED <<refs, typist>>
    BY WithoutRefers DEF SaveSource, TypesInv
  <1>2. TypistsCounted' /\ BindingsRefer'
    BY <1>1 DEF TypesInv, TypistsCounted, BindingsRefer
  <1>3. BoundSoon' \subseteq BoundSoon /\ AppliedSoon' \subseteq AppliedSoon
    BY <1>1 DEF BoundSoon, AppliedSoon, Writers
  <1> QED
    BY <1>2, <1>3, WithinLess, TypeAssumption DEF TypesInv, RowsWithin, Together

LEMMA LayOutKeeps ==
    ASSUME TypesInv, NEW c \in TypeClients, NEW order, LayOut(c, order), typist[c].at = "idle"
    PROVE  TypesInv'
  <1> DEFINE r == [at |-> "count", order |-> order, fields |-> Layout(catalog, order.type, Word).fields]
  <1>1. typist' = [typist EXCEPT ![c] = r] /\ UNCHANGED <<catalog, refs, bindings>>
    BY DEF LayOut
  <1>2. r.at = "count" /\ r.order.kind = "apply"
    BY DEF LayOut
  <1> HIDE DEF r
  <1>3. /\ DOMAIN typist' = TypeClients /\ typist'[c] = r
        /\ \A d \in TypeClients : d # c => typist'[d] = typist[d]
    BY <1>1 DEF TypesInv, TypistsCounted
  <1>4. TypistsCounted' /\ BindingsRefer'
    BY <1>1, <1>2, <1>3 DEF TypesInv, TypistsCounted, BindingsRefer
  <1>5. BoundSoon' \subseteq BoundSoon /\ AppliedSoon' \subseteq AppliedSoon
    BY <1>1, <1>2, <1>3 DEF BoundSoon, AppliedSoon, Writers
  <1> QED
    BY <1>4, <1>5, WithinLess, TypeAssumption DEF TypesInv, RowsWithin, Together

LEMMA WritesKeep ==
    ASSUME TypesInv, NEW c \in TypeClients, WriteImport(c) \/ WriteRef(c) \/ WriteBinding(c)
    PROVE  TypesInv'
  <1>1. typist' = [typist EXCEPT ![c] = AtRest] /\ AtRest.at # "count" /\ AtRest.at # "write"
    BY DEF WriteImport, WriteRef, WriteBinding, AtRest
  <1>2. CASE WriteImport(c)
    <2>1. /\ DOMAIN catalog' = DOMAIN catalog \cup DOMAIN typist[c].order.types
          /\ bindings' = Without(DOMAIN typist[c].order.types) /\ refs' = refs
      BY <1>2 DEF WriteImport
    <2>2. DOMAIN bindings' \subseteq BoundSoon /\ DOMAIN refs' \subseteq AppliedSoon
      BY <2>1, WithoutRefers DEF TypesInv, BoundSoon, AppliedSoon
    <2>3. BindingsRefer'
      BY <2>1, WithoutRefers DEF TypesInv, BindingsRefer
    <2> QED
      BY <1>1, <2>2, <2>3, RowsFewer DEF TypesInv
  <1>3. CASE WriteRef(c)
    <2>1. c \in Writers("apply")
      BY <1>3 DEF WriteRef, Writers
    <2>2. /\ DOMAIN refs' = DOMAIN refs \cup {<<typist[c].order.addr, typist[c].order.type>>}
          /\ UNCHANGED <<catalog, bindings>>
      BY <1>3 DEF WriteRef
    <2>3. DOMAIN bindings' \subseteq BoundSoon /\ DOMAIN refs' \subseteq AppliedSoon
      BY <2>1, <2>2 DEF BoundSoon, AppliedSoon
    <2>4. BindingsRefer'
      BY <2>2 DEF TypesInv, BindingsRefer
    <2> QED
      BY <1>1, <2>3, <2>4, RowsFewer DEF TypesInv
  <1>4. CASE WriteBinding(c)
    <2> DEFINE order == typist[c].order
               row == [type |-> order.type, kind |-> order.as, pointer |-> order.pointer]
    <2>1. c \in Writers("bind")
      BY <1>4 DEF WriteBinding, Writers
    <2>2. UNCHANGED <<catalog, refs>>
      BY <1>4 DEF WriteBinding
    <2>3. \/ bindings' = bindings
          \/ /\ order.type \in DOMAIN catalog
             /\ DOMAIN bindings' = DOMAIN bindings \cup {order.var}
             /\ \A v \in DOMAIN bindings' : bindings'[v].type \in {order.type, bindings[v].type}
             /\ \A v \in DOMAIN bindings' : v # order.var => bindings'[v] = bindings[v]
             /\ bindings'[order.var] = row
      BY <1>4 DEF WriteBinding, Referable
    <2>4. DOMAIN bindings' \subseteq BoundSoon /\ DOMAIN refs' \subseteq AppliedSoon
      BY <2>1, <2>2, <2>3 DEF BoundSoon, AppliedSoon
    <2>5. BindingsRefer'
      BY <2>2, <2>3 DEF TypesInv, BindingsRefer
    <2> QED
      BY <1>1, <2>4, <2>5, RowsFewer DEF TypesInv
  <1> QED
    BY <1>2, <1>3, <1>4

LEMMA RowsStep ==
    ASSUME TypesInv, [TypeNext]_typeVars
    PROVE  TypesInv'
  <1>1. ASSUME NEW c \in TypeClients, BeginChange(c) PROVE TypesInv'
    BY <1>1, SaveSourceKeeps, LayOutKeeps, CountKeeps DEF BeginChange
  <1>2. ASSUME NEW c \in TypeClients, ContinueApply(c) PROVE TypesInv'
    BY <1>2, CountKeeps DEF ContinueApply
  <1>3. CASE UNCHANGED typeVars
    BY <1>3 DEF typeVars, TypesInv, TypistsCounted, BindingsRefer, RowsWithin, BoundSoon, AppliedSoon, Writers, Together
  <1> QED
    BY <1>1, <1>2, <1>3, WritesKeep DEF TypeNext

\* Whatever any number of processes save, import, apply and bind at once, a binding names a
\* definition that is there, and the rows pass their limits by less than there are
\* processes (struct_db.py, typed_struct_refs.py, typed_var_bindings.py).
THEOREM TypesStayReferred == TypeSpec => [](BindingsRefer /\ WithinLimits)
  <1>1. TypeInit => TypesInv
    BY RowsStart
  <1>2. TypesInv /\ [TypeNext]_typeVars => TypesInv'
    BY RowsStep
  <1>3. TypesInv => BindingsRefer /\ WithinLimits
    <2> SUFFICES ASSUME TypesInv PROVE WithinLimits
      BY DEF TypesInv
    <2>1. RowsWithin(DOMAIN bindings, MaxBindings) /\ RowsWithin(DOMAIN refs, MaxRefs)
      BY WithinLess, TypeAssumption DEF TypesInv, BoundSoon, AppliedSoon
    <2> QED
      BY <2>1 DEF WithinLimits, RowsWithin, Together
  <1> QED
    BY <1>1, <1>2, <1>3, PTL DEF TypeSpec
=============================================================================
