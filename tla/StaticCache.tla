----------------------------- MODULE StaticCache -----------------------------
(* The cache of static analysis results: the SQLite table of                *)
(* backends/static/cache/cache_store.py, its bridge cache_index.py, and the  *)
(* two kinds of client that fill it.  The extension host                     *)
(* (src/shared/staticCache.ts) keys a result by the file's path, modification *)
(* time and size when it reads, and again when it writes; decompile.py keys   *)
(* its result by the content's hash, once, before it computes.  A client is  *)
(* one process at a time: every call to the table is a process of its own on *)
(* a connection of its own.                                                  *)
(*                                                                          *)
(* A file's stat is the number of times it was written, so that two contents *)
(* never share one; a file may also go away and come back as it was.         *)
EXTENDS Integers, Sequences, FiniteSets, SequencesExt

CONSTANTS
    Files,          \* binaries of the workspace
    Contents,       \* what a binary may hold
    Clients,        \* processes that use the cache
    Bytes,          \* the size of the result computed from a content
    MaxEntries,     \* MAX_ENTRIES
    MaxBytes,       \* MAX_TOTAL_BYTES
    Roles,          \* "host": the extension, "decompile": decompile.py
    CacheScopes     \* bounds: which roles run, how often a file is written,
                    \* whether files move

ASSUME BytesAssumption ==
    /\ MaxEntries \in Nat \ {0} /\ MaxBytes \in Nat
    /\ Bytes \in [Contents -> 1..MaxBytes]
    /\ Roles \subseteq {"host", "decompile"}
    /\ CacheScopes \subseteq [roles : SUBSET Roles, writes : Nat \ {0}, moves : BOOLEAN]

VARIABLES
    past,           \* per file, the contents written to it, the last one current
    away,           \* the files that are not there
    entries,        \* the table, in the order of accessed_at_ms
    client,         \* what each process is about to do
    cacheScope      \* the bounds of this behaviour

cacheVars == <<past, away, entries, client, cacheScope>>

Resting == [step |-> "rest"]

Stat(f) == Len(past[f])
Current(f) == past[f][Stat(f)]

\* Mutant: the modification time is left out of the key.
KeyOfPath(role, f) ==
    IF role = "host" THEN [ns |-> role, path |-> f, stat |-> 1]
    ELSE [ns |-> role, content |-> Current(f)]

\* The key a process computes from the file as it is.
Key(role, f) ==
    IF role = "host" THEN [ns |-> role, path |-> f, stat |-> Stat(f)]
    ELSE [ns |-> role, content |-> Current(f)]

\* The content a key stands for.
Named(key) == IF key.ns = "host" THEN past[key.path][key.stat] ELSE key.content

\* The rows that are left, in their order, when those are deleted.
KeptBut(gone) ==
    LET kept == {i \in DOMAIN entries : entries[i] \notin gone}
        order == CHOOSE s \in [1..Cardinality(kept) -> kept] :
                     \A i, j \in 1..Cardinality(kept) : i < j => s[i] < s[j]
    IN [n \in 1..Cardinality(kept) |-> entries[order[n]]]
Under(key) == {e \in Range(entries) : e.key = key}
Found(key) == {i \in DOMAIN entries : entries[i].key = key}

CacheInit ==
    /\ past \in [Files -> {<<c>> : c \in Contents}]
    /\ away = {}
    /\ entries = <<>>
    /\ client = [p \in Clients |-> Resting]
    /\ cacheScope \in CacheScopes

-----------------------------------------------------------------------------
(* The table's operations *)

TotalOf(seq) == FoldSeq(LAMBDA e, n : Bytes[e.of] + n, 0, seq)
Fits(seq) == Len(seq) <= MaxEntries /\ TotalOf(seq) <= MaxBytes

\* Mutant: a table that has reached a limit is over it.
EnforceBelow(seq) ==
    LET Below(rest) == Len(rest) < MaxEntries /\ TotalOf(rest) < MaxBytes
        gone == CHOOSE n \in 0..Len(seq) :
                    /\ Below(SubSeq(seq, n + 1, Len(seq)))
                    /\ \A k \in 0..(n - 1) : ~Below(SubSeq(seq, k + 1, Len(seq)))
    IN SubSeq(seq, gone + 1, Len(seq))

\* Deletes the entries read the longest ago until both limits hold.
EnforceLimits(seq) ==
    LET gone == CHOOSE n \in 0..Len(seq) :
                    /\ Fits(SubSeq(seq, n + 1, Len(seq)))
                    /\ \A k \in 0..(n - 1) : ~Fits(SubSeq(seq, k + 1, Len(seq)))
    IN SubSeq(seq, gone + 1, Len(seq))

PutPayload(entry) ==
    entries' = EnforceLimits(Append(KeptBut(Under(entry.key)), entry))

\* The status the list gives an entry.
Status(e) ==
    IF e.path \notin Files \/ e.path \in away THEN "missing"
    ELSE IF e.stat = Stat(e.path) THEN "ok" ELSE "stale"

\* What prune removes: every entry of a key and path one of whose entries is not
\* ok.  `gone` remembers the files that were away when the entries were listed.
Doomed ==
    {[key |-> e.key, path |-> e.path] : e \in {x \in Range(entries) : Status(x) # "ok"}}

-----------------------------------------------------------------------------
(* A process *)

\* A result is asked for: the key is computed from the file.
Ask(p) ==
    /\ client[p] = Resting
    /\ \E role \in cacheScope.roles, f \in Files \ away :
          client' = [client EXCEPT ![p] =
              [step |-> "select", role |-> role, file |-> f, key |-> Key(role, f),
               from |-> Stat(f)]]
    /\ UNCHANGED <<past, away, entries, cacheScope>>

Select(p) ==
    /\ client[p].step = "select"
    /\ client' = [client EXCEPT ![p].step =
                     IF Found(client[p].key) # {} THEN "touch" ELSE "compute"]
    /\ UNCHANGED <<past, away, entries, cacheScope>>

\* The payload is in hand; the entry becomes the last accessed if it is still there.
Touch(p) ==
    /\ client[p].step = "touch"
    /\ entries' = LET hit == Found(client[p].key) IN
                  IF hit = {} THEN entries
                  ELSE Append(KeptBut(Under(client[p].key)),
                              entries[CHOOSE i \in hit : TRUE])
    /\ client' = [client EXCEPT ![p] = Resting]
    /\ UNCHANGED <<past, away, cacheScope>>

\* The analysis reads the file; without it there is no result to keep.
Compute(p) ==
    /\ client[p].step = "compute"
    /\ LET c == client[p] IN
       client' = [client EXCEPT ![p] =
           IF c.file \in away THEN Resting
           ELSE [step |-> "stamp", role |-> c.role, file |-> c.file, key |-> c.key,
                 from |-> c.from, of |-> Current(c.file)]]
    /\ UNCHANGED <<past, away, entries, cacheScope>>

\* writeCache computes its key anew, and keeps nothing of a file that is gone;
\* decompile.py has its key, and describes a file that is gone by nothing.
Stamp(p) ==
    /\ client[p].step = "stamp"
    /\ LET c == client[p]
           f == c.file
           lost == f \in away
       IN client' = [client EXCEPT ![p] =
              IF lost /\ c.role = "host" THEN Resting
              ELSE [step |-> "put",
                    entry |-> [key |-> IF c.role = "host" THEN Key("host", f) ELSE c.key,
                               path |-> IF lost THEN "" ELSE f,
                               stat |-> IF lost THEN 0 ELSE Stat(f),
                               of |-> c.of, quiet |-> c.from = Stat(f)]]]
    /\ UNCHANGED <<past, away, entries, cacheScope>>

Put(p) ==
    /\ client[p].step = "put"
    /\ PutPayload(client[p].entry)
    /\ client' = [client EXCEPT ![p] = Resting]
    /\ UNCHANGED <<past, away, cacheScope>>

\* prune: the entries are listed, then those not ok are deleted.
List(p) ==
    /\ client[p] = Resting
    /\ Doomed # {}
    /\ client' = [client EXCEPT ![p] =
                     [step |-> "prune", doomed |-> Doomed, gone |-> away]]
    /\ UNCHANGED <<past, away, entries, cacheScope>>

Prune(p) ==
    /\ client[p].step = "prune"
    /\ entries' = KeptBut({e \in Range(entries) : [key |-> e.key, path |-> e.path] \in client[p].doomed})
    /\ client' = [client EXCEPT ![p] = Resting]
    /\ UNCHANGED <<past, away, cacheScope>>

DeleteBinary(p) ==
    /\ client[p] = Resting
    /\ \E f \in Files : entries' = KeptBut({e \in Range(entries) : e.path = f})
    /\ UNCHANGED <<past, away, client, cacheScope>>

Clear(p) ==
    /\ client[p] = Resting
    /\ entries' = <<>>
    /\ UNCHANGED <<past, away, client, cacheScope>>

-----------------------------------------------------------------------------
(* The workspace *)

WriteFile(f) ==
    /\ f \notin away
    /\ Stat(f) < cacheScope.writes
    /\ \E c \in Contents : past' = [past EXCEPT ![f] = Append(@, c)]
    /\ UNCHANGED <<away, entries, client, cacheScope>>

\* A file is moved away, or back with the modification time it had.
MoveFile(f) ==
    /\ cacheScope.moves
    /\ away' = IF f \in away THEN away \ {f} ELSE away \cup {f}
    /\ UNCHANGED <<past, entries, client, cacheScope>>

CacheNext ==
    \/ \E p \in Clients :
          \/ Ask(p) \/ Select(p) \/ Touch(p) \/ Compute(p) \/ Stamp(p) \/ Put(p)
          \/ List(p) \/ Prune(p) \/ DeleteBinary(p) \/ Clear(p)
    \/ \E f \in Files : WriteFile(f) \/ MoveFile(f)

CacheSpec == CacheInit /\ [][CacheNext]_cacheVars

-----------------------------------------------------------------------------
(* Properties *)

KeySet ==
    [ns : {"host"}, path : Files, stat : 1..cacheScope.writes]
        \cup [ns : {"decompile"}, content : Contents]
EntrySet ==
    [key : KeySet, path : Files \cup {""}, stat : 0..cacheScope.writes, of : Contents,
     quiet : BOOLEAN]

\* The variables have their types, and the table holds one entry of a key.
CacheTypeOK ==
    /\ past \in [Files -> UNION {[1..n -> Contents] : n \in 1..cacheScope.writes}]
    /\ away \subseteq Files
    /\ Range(entries) \subseteq EntrySet
    /\ \A i, j \in DOMAIN entries : entries[i].key = entries[j].key => i = j
    /\ \A p \in Clients : client[p].step \in
           {"rest", "select", "touch", "compute", "stamp", "put", "prune"}

\* put brings the table within the number of entries and the bytes it is given
\* (_enforce_limits counts the entries once, before it deletes).  It keeps what it
\* was given, as the entry to be evicted last, and evicts only what was accessed
\* before everything it keeps and no more than the limits ask: with the last one
\* evicted the table would not fit.
PutKeepsLatest ==
    [][\A p \in Clients : client[p].step = "put" /\ client'[p] # client[p] =>
          LET entry == client[p].entry
              old == KeptBut(Under(entry.key))
              n == Len(old) - (Len(entries') - 1)
          IN /\ entries' # <<>> /\ Fits(entries')
             /\ entries' = SubSeq(Append(old, entry), n + 1, Len(old) + 1)
             /\ n > 0 => ~Fits(<<old[n]>> \o entries')]_cacheVars

\* A result is kept under the content it was computed from, unless the file was
\* written between the moment it was asked for and the moment it was stamped:
\* writeCache keys a result by the file as it is then, and decompile.py by the
\* file as it was before.
KeptAsComputed ==
    \A e \in Range(entries) : e.quiet => e.of = Named(e.key)

\* prune deletes by key and path on a second connection; no result of the host
\* that could be served is lost to it, however much was put since the list,
\* unless the file was away at that moment.
PruneSparesServed ==
    [][\A p \in Clients : client[p].step = "prune" /\ client'[p] # client[p] =>
          \A e \in Range(entries) \ Range(entries') :
              e.key.ns = "host" /\ e.key.stat = Stat(e.key.path) =>
                  e.key.path \in client[p].gone]_cacheVars

\* What is stored survives what others store and purge, as far as the limits allow.
StoreChanges == PutKeepsLatest /\ PruneSparesServed
=============================================================================
