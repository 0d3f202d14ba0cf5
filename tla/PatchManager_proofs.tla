------------------------ MODULE PatchManager_proofs ------------------------
(***************************************************************************)
(* Machine-checked theorems about PatchManager, for every file size, byte  *)
(* set, limit and set of processes.                                        *)
(***************************************************************************)
EXTENDS PatchManager, SequenceTheorems, TLAPS

-----------------------------------------------------------------------------
(* Sequences: what RemoveAt and Append return. *)

LEMMA RemoveAtFacts ==
    ASSUME NEW S, NEW s \in Seq(S), NEW i \in DOMAIN s
    PROVE  /\ RemoveAt(s, i) \in Seq(S)
           /\ Len(RemoveAt(s, i)) = Len(s) - 1
           /\ \A k \in 1 .. Len(s) - 1 :
                RemoveAt(s, i)[k] = IF k < i THEN s[k] ELSE s[k + 1]
<1> DEFINE lo == SubSeq(s, 1, i - 1)
           hi == SubSeq(s, i + 1, Len(s))
<1>1. /\ i \in 1 .. Len(s) /\ Len(s) \in Nat
      /\ \A k \in 1 .. Len(s) : s[k] \in S
  OBVIOUS
<1>2. /\ lo \in Seq(S) /\ Len(lo) = i - 1
      /\ \A k \in 1 .. i - 1 : lo[k] = s[k]
  BY <1>1
<1>3. /\ hi \in Seq(S) /\ Len(hi) = Len(s) - i
      /\ \A k \in 1 .. Len(s) - i : hi[k] = s[i + k]
  BY <1>1
<1> HIDE DEF lo, hi
<1>4. RemoveAt(s, i) = lo \o hi
  BY DEF RemoveAt, lo, hi
<1>5. /\ lo \o hi \in Seq(S) /\ Len(lo \o hi) = Len(s) - 1
      /\ \A k \in 1 .. Len(s) - 1 :
            (lo \o hi)[k] = IF k <= Len(lo) THEN lo[k] ELSE hi[k - Len(lo)]
  BY <1>1, <1>2, <1>3, ConcatProperties, SMTT(60)
<1>6. ASSUME NEW k \in 1 .. Len(s) - 1
      PROVE  (lo \o hi)[k] = IF k < i THEN s[k] ELSE s[k + 1]
  <2>1. CASE k < i
    BY <2>1, <1>1, <1>2, <1>5
  <2>2. CASE ~(k < i)
    <3>1. k - Len(lo) \in 1 .. Len(s) - i /\ i + (k - Len(lo)) = k + 1
      BY <2>2, <1>1, <1>2
    <3>2. (lo \o hi)[k] = hi[k - Len(lo)]
      BY <2>2, <1>1, <1>2, <1>5
    <3>3. hi[k - Len(lo)] = s[i + (k - Len(lo))]
      BY <3>1, <1>3
    <3>4. QED
      BY <3>1, <3>2, <3>3, <2>2
  <2>3. QED
    BY <2>1, <2>2
<1>7. QED
  BY <1>4, <1>5, <1>6

LEMMA AppendFacts ==
    ASSUME NEW S, NEW s \in Seq(S), NEW e \in S
    PROVE  /\ Append(s, e) \in Seq(S)
           /\ Len(Append(s, e)) = Len(s) + 1
           /\ DOMAIN Append(s, e) = 1 .. Len(s) + 1
           /\ \A k \in 1 .. Len(s) : Append(s, e)[k] = s[k]
           /\ Append(s, e)[Len(s) + 1] = e
  BY AppendProperties

-----------------------------------------------------------------------------
(* One address seen through a stack of entries: pushing an entry whose bytes *)
(* continue the chain, and popping one that nothing later covers.            *)

LEMMA UndoPush ==
    ASSUME NEW S, NEW s \in Seq(S), NEW e \in S, NEW x, NEW b, NEW v,
           UndoChain(s, x, b, v),
           x \in Covers(e) => e.original_bytes[x] = v
    PROVE  UndoChain(Append(s, e), x, b,
                     IF x \in Covers(e) THEN e.patched_bytes[x] ELSE v)
<1> DEFINE t == Append(s, e)
           n == Len(s) + 1
           w == IF x \in Covers(e) THEN e.patched_bytes[x] ELSE v
<1>1. /\ Len(s) \in Nat /\ DOMAIN s = 1 .. Len(s) /\ DOMAIN t = 1 .. n
      /\ \A k \in 1 .. Len(s) : t[k] = s[k]
      /\ t[n] = e
  BY AppendFacts
<1> HIDE DEF t
<1>2. ASSUME NEW i \in DOMAIN t, NEW j \in DOMAIN t, Adjacent(t, i, j, x)
      PROVE  t[j].original_bytes[x] = t[i].patched_bytes[x]
  <2>1. CASE j \in 1 .. Len(s)
    <3>1. i \in DOMAIN s /\ j \in DOMAIN s /\ Adjacent(s, i, j, x)
      BY <2>1, <1>1, <1>2 DEF Adjacent
    <3>2. QED
      BY <3>1, <1>1 DEF UndoChain
  <2>2. CASE j = n
    <3>1. i \in DOMAIN s /\ Topmost(s, i, x) /\ x \in Covers(e)
      BY <2>2, <1>1, <1>2 DEF Adjacent, Topmost
    <3>2. QED
      BY <3>1, <2>2, <1>1 DEF UndoChain
  <2>3. QED
    BY <2>1, <2>2, <1>1
<1>3. ASSUME NEW i \in DOMAIN t, Lowest(t, i, x)
      PROVE  t[i].original_bytes[x] = b
  <2>1. CASE i \in 1 .. Len(s)
    BY <2>1, <1>1, <1>3 DEF UndoChain, Lowest
  <2>2. CASE i = n
    BY <2>2, <1>1, <1>3 DEF UndoChain, Lowest
  <2>3. QED
    BY <2>1, <2>2, <1>1
<1>4. ASSUME NEW i \in DOMAIN t, Topmost(t, i, x)
      PROVE  t[i].patched_bytes[x] = w
  <2>1. CASE i \in 1 .. Len(s)
    BY <2>1, <1>1, <1>4 DEF UndoChain, Topmost
  <2>2. CASE i = n
    BY <2>2, <1>1, <1>4 DEF Topmost
  <2>3. QED
    BY <2>1, <2>2, <1>1
<1>5. ASSUME \A i \in DOMAIN t : x \notin Covers(t[i])
      PROVE  w = b
  BY <1>1, <1>5 DEF UndoChain
<1>6. QED
  BY <1>2, <1>3, <1>4, <1>5 DEF UndoChain, t

LEMMA RedoPush ==
    ASSUME NEW S, NEW s \in Seq(S), NEW e \in S, NEW x, NEW v,
           RedoChain(s, x, v),
           x \in Covers(e) => e.patched_bytes[x] = v
    PROVE  RedoChain(Append(s, e), x,
                     IF x \in Covers(e) THEN e.original_bytes[x] ELSE v)
<1> DEFINE t == Append(s, e)
           n == Len(s) + 1
           w == IF x \in Covers(e) THEN e.original_bytes[x] ELSE v
<1>1. /\ Len(s) \in Nat /\ DOMAIN s = 1 .. Len(s) /\ DOMAIN t = 1 .. n
      /\ \A k \in 1 .. Len(s) : t[k] = s[k]
      /\ t[n] = e
  BY AppendFacts
<1> HIDE DEF t
<1>2. ASSUME NEW i \in DOMAIN t, NEW j \in DOMAIN t, Adjacent(t, i, j, x)
      PROVE  t[i].original_bytes[x] = t[j].patched_bytes[x]
  <2>1. CASE j \in 1 .. Len(s)
    <3>1. i \in DOMAIN s /\ j \in DOMAIN s /\ Adjacent(s, i, j, x)
      BY <2>1, <1>1, <1>2 DEF Adjacent
    <3>2. QED
      BY <3>1, <1>1 DEF RedoChain
  <2>2. CASE j = n
    <3>1. i \in DOMAIN s /\ Topmost(s, i, x) /\ x \in Covers(e)
      BY <2>2, <1>1, <1>2 DEF Adjacent, Topmost
    <3>2. QED
      BY <3>1, <2>2, <1>1 DEF RedoChain
  <2>3. QED
    BY <2>1, <2>2, <1>1
<1>3. ASSUME NEW i \in DOMAIN t, Topmost(t, i, x)
      PROVE  t[i].original_bytes[x] = w
  <2>1. CASE i \in 1 .. Len(s)
    BY <2>1, <1>1, <1>3 DEF RedoChain, Topmost
  <2>2. CASE i = n
    BY <2>2, <1>1, <1>3 DEF Topmost
  <2>3. QED
    BY <2>1, <2>2, <1>1
<1>4. QED
  BY <1>2, <1>3 DEF RedoChain, t

(* Popping s[i]: position k of the rest is position Shift(i, k) of s.        *)
Shift(i, k) == IF k < i THEN k ELSE k + 1

LEMMA PopFacts ==
    ASSUME NEW S, NEW s \in Seq(S), NEW i \in DOMAIN s, NEW x
    PROVE  /\ Len(s) \in Nat /\ DOMAIN s = 1 .. Len(s)
           /\ DOMAIN RemoveAt(s, i) = 1 .. Len(s) - 1
           /\ \A k \in DOMAIN RemoveAt(s, i) :
                /\ Shift(i, k) \in DOMAIN s \ {i}
                /\ RemoveAt(s, i)[k] = s[Shift(i, k)]
           /\ \A j \in DOMAIN s \ {i} :
                \E k \in DOMAIN RemoveAt(s, i) : j = Shift(i, k)
<1>1. /\ Len(s) \in Nat /\ DOMAIN s = 1 .. Len(s)
      /\ DOMAIN RemoveAt(s, i) = 1 .. Len(s) - 1
  BY RemoveAtFacts
<1>2. ASSUME NEW k \in DOMAIN RemoveAt(s, i)
      PROVE  /\ Shift(i, k) \in DOMAIN s \ {i}
             /\ RemoveAt(s, i)[k] = s[Shift(i, k)]
  <2>1. RemoveAt(s, i)[k] = IF k < i THEN s[k] ELSE s[k + 1]
    BY <1>1, RemoveAtFacts
  <2>2. QED
    BY <2>1, <1>1 DEF Shift
<1>3. ASSUME NEW j \in DOMAIN s \ {i}
      PROVE  \E k \in DOMAIN RemoveAt(s, i) : j = Shift(i, k)
  <2>1. CASE j < i
    <3>1. j \in DOMAIN RemoveAt(s, i) /\ j = Shift(i, j)
      BY <2>1, <1>1 DEF Shift
    <3>2. QED
      BY <3>1
  <2>2. CASE ~(j < i)
    <3>1. j - 1 \in DOMAIN RemoveAt(s, i) /\ j = Shift(i, j - 1)
      BY <2>2, <1>1 DEF Shift
    <3>2. QED
      BY <3>1
  <2>3. QED
    BY <2>1, <2>2
<1>4. QED
  BY <1>1, <1>2, <1>3

(* Neighbours at x in what is left after the pop were neighbours before,     *)
(* unless x belongs to the popped entry, which nothing later covers.         *)
LEMMA PopNeighbours ==
    ASSUME NEW S, NEW s \in Seq(S), NEW i \in DOMAIN s, NEW x,
           x \in Covers(s[i]) => Topmost(s, i, x)
    PROVE  LET t == RemoveAt(s, i) IN
           /\ \A j, k \in DOMAIN t : Adjacent(t, j, k, x) =>
                    Adjacent(s, Shift(i, j), Shift(i, k), x)
           /\ \A j \in DOMAIN t : Lowest(t, j, x) =>
                    Lowest(s, Shift(i, j), x)
           /\ \A j \in DOMAIN t : Topmost(t, j, x) =>
                    IF x \in Covers(s[i])
                    THEN Adjacent(s, Shift(i, j), i, x)
                    ELSE Topmost(s, Shift(i, j), x)
<1> DEFINE t == RemoveAt(s, i)
<1>1. /\ Len(s) \in Nat /\ DOMAIN s = 1 .. Len(s) /\ DOMAIN t = 1 .. Len(s) - 1
      /\ \A k \in DOMAIN t : Shift(i, k) \in DOMAIN s \ {i} /\ t[k] = s[Shift(i, k)]
      /\ \A j \in DOMAIN s \ {i} : \E k \in DOMAIN t : j = Shift(i, k)
  BY PopFacts
<1> HIDE DEF t
<1>2. \A j, k \in DOMAIN t : j < k <=> Shift(i, j) < Shift(i, k)
  BY <1>1 DEF Shift
<1>3. x \in Covers(s[i]) => \A j \in DOMAIN t : x \in Covers(t[j]) => Shift(i, j) < i
  BY <1>1 DEF Topmost
<1>4. ASSUME NEW j \in DOMAIN t, NEW k \in DOMAIN t, Adjacent(t, j, k, x)
      PROVE  Adjacent(s, Shift(i, j), Shift(i, k), x)
  <2>1. Shift(i, j) < Shift(i, k)
    BY <1>2, <1>4 DEF Adjacent
  <2>2. x \in Covers(s[Shift(i, j)]) /\ x \in Covers(s[Shift(i, k)])
    BY <1>1, <1>4 DEF Adjacent
  <2>3. ASSUME NEW m \in DOMAIN s, Shift(i, j) < m, m < Shift(i, k)
        PROVE  x \notin Covers(s[m])
    <3>1. CASE m = i
      BY <3>1, <2>2, <2>3, <1>1 DEF Topmost
    <3>2. CASE m # i
      <4>1. PICK l \in DOMAIN t : m = Shift(i, l)
        BY <3>2, <1>1
      <4>2. j < l /\ l < k
        BY <4>1, <2>3, <1>2
      <4>3. QED
        BY <4>1, <4>2, <1>1, <1>4 DEF Adjacent
    <3>3. QED
      BY <3>1, <3>2
  <2>4. QED
    BY <2>1, <2>2, <2>3 DEF Adjacent
<1>5. ASSUME NEW j \in DOMAIN t, Lowest(t, j, x)
      PROVE  Lowest(s, Shift(i, j), x)
  <2>1. x \in Covers(s[Shift(i, j)])
    BY <1>1, <1>5 DEF Lowest
  <2>2. ASSUME NEW m \in DOMAIN s, m < Shift(i, j)
        PROVE  x \notin Covers(s[m])
    <3>1. CASE m = i
      BY <3>1, <2>1, <2>2, <1>1 DEF Topmost
    <3>2. CASE m # i
      <4>1. PICK l \in DOMAIN t : m = Shift(i, l)
        BY <3>2, <1>1
      <4>2. l < j
        BY <4>1, <2>2, <1>2
      <4>3. QED
        BY <4>1, <4>2, <1>1, <1>5 DEF Lowest
    <3>3. QED
      BY <3>1, <3>2
  <2>3. QED
    BY <2>1, <2>2 DEF Lowest
<1>6. ASSUME NEW j \in DOMAIN t, Topmost(t, j, x)
      PROVE  IF x \in Covers(s[i]) THEN Adjacent(s, Shift(i, j), i, x)
                                   ELSE Topmost(s, Shift(i, j), x)
  <2>1. x \in Covers(s[Shift(i, j)])
    BY <1>1, <1>6 DEF Topmost
  <2>2. ASSUME NEW m \in DOMAIN s, m # i, Shift(i, j) < m
        PROVE  x \notin Covers(s[m])
    <3>1. PICK l \in DOMAIN t : m = Shift(i, l)
      BY <2>2, <1>1
    <3>2. j < l
      BY <3>1, <2>2, <1>2
    <3>3. QED
      BY <3>1, <3>2, <1>1, <1>6 DEF Topmost
  <2>3. CASE x \in Covers(s[i])
    BY <2>1, <2>2, <2>3, <1>1, <1>3, <1>6 DEF Adjacent, Topmost
  <2>4. CASE x \notin Covers(s[i])
    BY <2>1, <2>2, <2>4, <1>1 DEF Topmost
  <2>5. QED
    BY <2>3, <2>4
<1>7. QED
  BY <1>4, <1>5, <1>6 DEF t

LEMMA UndoPop ==
    ASSUME NEW S, NEW s \in Seq(S), NEW i \in DOMAIN s, NEW x, NEW b, NEW v,
           UndoChain(s, x, b, v),
           x \in Covers(s[i]) => Topmost(s, i, x)
    PROVE  UndoChain(RemoveAt(s, i), x, b,
                     IF x \in Covers(s[i]) THEN s[i].original_bytes[x] ELSE v)
<1> DEFINE t == RemoveAt(s, i)
           w == IF x \in Covers(s[i]) THEN s[i].original_bytes[x] ELSE v
<1>1. /\ \A k \in DOMAIN t : Shift(i, k) \in DOMAIN s \ {i} /\ t[k] = s[Shift(i, k)]
      /\ \A j \in DOMAIN s \ {i} : \E k \in DOMAIN t : j = Shift(i, k)
  BY PopFacts
<1>2. /\ \A j, k \in DOMAIN t : Adjacent(t, j, k, x) =>
                Adjacent(s, Shift(i, j), Shift(i, k), x)
      /\ \A j \in DOMAIN t : Lowest(t, j, x) => Lowest(s, Shift(i, j), x)
      /\ \A j \in DOMAIN t : Topmost(t, j, x) =>
                IF x \in Covers(s[i]) THEN Adjacent(s, Shift(i, j), i, x)
                                      ELSE Topmost(s, Shift(i, j), x)
  BY PopNeighbours
<1> HIDE DEF t
<1>3. ASSUME NEW j \in DOMAIN t, NEW k \in DOMAIN t, Adjacent(t, j, k, x)
      PROVE  t[k].original_bytes[x] = t[j].patched_bytes[x]
  BY <1>1, <1>2, <1>3 DEF UndoChain
<1>4. ASSUME NEW j \in DOMAIN t, Lowest(t, j, x)
      PROVE  t[j].original_bytes[x] = b
  BY <1>1, <1>2, <1>4 DEF UndoChain
<1>5. ASSUME NEW j \in DOMAIN t, Topmost(t, j, x)
      PROVE  t[j].patched_bytes[x] = w
  BY <1>1, <1>2, <1>5 DEF UndoChain
<1>6. ASSUME \A j \in DOMAIN t : x \notin Covers(t[j])
      PROVE  w = b
  <2>1. \A j \in DOMAIN s \ {i} : x \notin Covers(s[j])
    BY <1>1, <1>6
  <2>2. CASE x \in Covers(s[i])
    <3>1. Lowest(s, i, x)
      BY <2>1, <2>2, LenProperties DEF Lowest
    <3>2. QED
      BY <3>1, <2>2 DEF UndoChain
  <2>3. CASE x \notin Covers(s[i])
    BY <2>1, <2>3 DEF UndoChain
  <2>4. QED
    BY <2>2, <2>3
<1>7. QED
  BY <1>3, <1>4, <1>5, <1>6 DEF UndoChain, t

LEMMA RedoPop ==
    ASSUME NEW S, NEW s \in Seq(S), NEW i \in DOMAIN s, NEW x, NEW v,
           RedoChain(s, x, v),
           x \in Covers(s[i]) => Topmost(s, i, x)
    PROVE  RedoChain(RemoveAt(s, i), x,
                     IF x \in Covers(s[i]) THEN s[i].patched_bytes[x] ELSE v)
<1> DEFINE t == RemoveAt(s, i)
           w == IF x \in Covers(s[i]) THEN s[i].patched_bytes[x] ELSE v
<1>1. \A k \in DOMAIN t : Shift(i, k) \in DOMAIN s \ {i} /\ t[k] = s[Shift(i, k)]
  BY PopFacts
<1>2. /\ \A j, k \in DOMAIN t : Adjacent(t, j, k, x) =>
                Adjacent(s, Shift(i, j), Shift(i, k), x)
      /\ \A j \in DOMAIN t : Topmost(t, j, x) =>
                IF x \in Covers(s[i]) THEN Adjacent(s, Shift(i, j), i, x)
                                      ELSE Topmost(s, Shift(i, j), x)
  BY PopNeighbours
<1> HIDE DEF t
<1>3. ASSUME NEW j \in DOMAIN t, NEW k \in DOMAIN t, Adjacent(t, j, k, x)
      PROVE  t[j].original_bytes[x] = t[k].patched_bytes[x]
  BY <1>1, <1>2, <1>3 DEF RedoChain
<1>4. ASSUME NEW j \in DOMAIN t, Topmost(t, j, x)
      PROVE  t[j].original_bytes[x] = w
  BY <1>1, <1>2, <1>4 DEF RedoChain
<1>5. QED
  BY <1>3, <1>4 DEF RedoChain, t

-----------------------------------------------------------------------------
(* Types.  TypeOK is not inductive alone: that a step finds its target       *)
(* depends on what the process loaded, which JobOK records.                  *)

JobOK(p) ==
    /\ pc[p] = "idle" => job[p].op = "none" /\ dirty[p] = {}
    /\ pc[p] = "read" => job[p].op = "apply"
    /\ pc[p] = "write" => job[p].op # "none"
    /\ job[p].op = "apply" => job[p].new \in Bytes /\ job[p].at \in Id
    /\ pc[p] \in {"read", "write"} /\ job[p].op # "revert_all" => dirty[p] = {}
    /\ pc[p] = "write" /\ job[p].op = "apply" =>
            job[p].orig \in Bytes /\ DOMAIN job[p].orig = DOMAIN job[p].new
    /\ pc[p] = "write" /\ job[p].op = "revert" =>
            job[p].at \in DOMAIN data[p].patches
    /\ pc[p] = "write" /\ job[p].op = "redo" =>
            job[p].at \in DOMAIN data[p].redo_patches
    /\ pc[p] = "write" /\ job[p].op = "revert_all" => data[p].patches # <<>>

TypeInv == TypeOK /\ \A p \in Proc : JobOK(p)

LEMMA BytesFacts ==
    ASSUME NEW raw \in Bytes
    PROVE  /\ DOMAIN raw \in Span
           /\ DOMAIN raw \subseteq Addr
           /\ raw \in [DOMAIN raw -> Byte]
           /\ \A x \in DOMAIN raw : raw[x] \in Byte
<1>1. PICK S \in Span : raw \in [S -> Byte]
  BY DEF Bytes
<1>2. PICK a \in Addr, b \in Addr : S = a .. b
  BY DEF Span
<1>3. S \subseteq Addr
  BY <1>2, FileSizeAssumption DEF Addr
<1>4. QED
  BY <1>1, <1>3

LEMMA SameSpanBytes ==
    ASSUME NEW raw \in Bytes, NEW f, f \in [DOMAIN raw -> Byte]
    PROVE  f \in Bytes
  BY BytesFacts DEF Bytes

LEMMA OverlayFacts ==
    ASSUME NEW content \in [Addr -> Byte], NEW raw \in Bytes
    PROVE  /\ Overlay(content, raw) \in [Addr -> Byte]
           /\ \A x \in Addr : Overlay(content, raw)[x] =
                    IF x \in DOMAIN raw THEN raw[x] ELSE content[x]
  BY BytesFacts DEF Overlay

LEMMA EntryFacts ==
    ASSUME NEW e \in Entry
    PROVE  /\ e.id \in Id
           /\ e.original_bytes \in Bytes
           /\ e.patched_bytes \in Bytes
           /\ DOMAIN e.original_bytes = Covers(e)
  BY DEF Entry, Covers

LEMMA EntryMade ==
    ASSUME NEW i \in Id, NEW o \in Bytes, NEW w \in Bytes, DOMAIN o = DOMAIN w
    PROVE  [id |-> i, original_bytes |-> o, patched_bytes |-> w] \in Entry
  BY DEF Entry

LEMMA AppliedType ==
    ASSUME NEW h \in History, NEW e \in Entry
    PROVE  Applied(h, e) \in History
  BY AppendFacts, EmptySeq DEF History, Applied

LEMMA RevertedType ==
    ASSUME NEW h \in History, NEW i \in DOMAIN h.patches
    PROVE  /\ h.patches[i] \in Entry
           /\ Reverted(h, i) \in History
           /\ Len(Reverted(h, i).patches) = Len(h.patches) - 1
<1>1. /\ h.patches \in Seq(Entry) /\ h.redo_patches \in Seq(Entry)
      /\ h.patches[i] \in Entry
  BY DEF History
<1>2. /\ RemoveAt(h.patches, i) \in Seq(Entry)
      /\ Len(RemoveAt(h.patches, i)) = Len(h.patches) - 1
  BY <1>1, RemoveAtFacts
<1>3. Append(h.redo_patches, h.patches[i]) \in Seq(Entry)
  BY <1>1, AppendFacts
<1>4. QED
  BY <1>1, <1>2, <1>3 DEF History, Reverted

LEMMA RedoneType ==
    ASSUME NEW h \in History, NEW j \in DOMAIN h.redo_patches
    PROVE  /\ h.redo_patches[j] \in Entry
           /\ Redone(h, j) \in History
<1>1. /\ h.patches \in Seq(Entry) /\ h.redo_patches \in Seq(Entry)
      /\ h.redo_patches[j] \in Entry
  BY DEF History
<1>2. RemoveAt(h.redo_patches, j) \in Seq(Entry)
  BY <1>1, RemoveAtFacts
<1>3. Append(h.patches, h.redo_patches[j]) \in Seq(Entry)
  BY <1>1, AppendFacts
<1>4. QED
  BY <1>1, <1>2, <1>3 DEF History, Redone

LEMMA NoHistoryType == NoHistory \in History
  BY EmptySeq DEF NoHistory, History

LEMMA NoJobType == NoJob \in Job /\ NoJob.op = "none"
  BY DEF NoJob, Job, Op

LEMMA TypeInit == Init => TypeInv
<1> SUFFICES ASSUME Init PROVE TypeInv
  OBVIOUS
<1>1. TypeOK
  BY NoHistoryType, NoJobType DEF Init, TypeOK
<1>2. \A p \in Proc : JobOK(p)
  BY NoJobType DEF Init, JobOK
<1>3. QED
  BY <1>1, <1>2 DEF TypeInv

LEMMA LoadType ==
    ASSUME TypeInv, NEW p \in Proc, NEW op \in Op \ {"none"}, NEW at \in Nat,
           NEW new \in Bytes \cup {<<>>}, NEW strict \in BOOLEAN,
           NEW next \in {"read", "write", "save"},
           Load(p, op, at, new, strict, next),
           op = "apply" => new \in Bytes /\ at \in Id,
           next = "read" <=> op = "apply",
           op = "revert" => at \in DOMAIN db.patches,
           op = "redo" => at \in DOMAIN db.redo_patches,
           next = "write" /\ op = "revert_all" => db.patches # <<>>
    PROVE  TypeInv'
<1> USE DEF TypeInv
<1>1. TypeOK'
  <2> DEFINE j == [op |-> op, at |-> at, new |-> new, orig |-> <<>>, strict |-> strict]
  <2>1. j \in Job
    BY DEF Job
  <2>2. job' \in [Proc -> Job] /\ data' \in [Proc -> History]
    BY <2>1 DEF Load, TypeOK
  <2>3. pc' \in [Proc -> {"idle", "read", "write", "save"}] /\ nextId' \in Nat \ {0}
    BY DEF Load, TypeOK
  <2>4. QED
    BY <2>2, <2>3 DEF Load, TypeOK
<1>2. ASSUME NEW q \in Proc
      PROVE  JobOK(q)'
  <2>1. CASE q = p
    BY <2>1 DEF Load, TypeOK, JobOK
  <2>2. CASE q # p
    BY <2>2 DEF Load, TypeOK, JobOK
  <2>3. QED
    BY <2>1, <2>2
<1>3. QED
  BY <1>1, <1>2

LEMMA WriteType ==
    ASSUME TypeInv, NEW p \in Proc, NEW raw \in Bytes, NEW h \in History,
           NEW next \in {"write", "save"},
           WriteBytes(p, raw, h, next),
           next = "write" => job[p].op = "revert_all" /\ h.patches # <<>>
    PROVE  TypeInv'
<1> USE DEF TypeInv
<1>1. TypeOK'
  <2>1. file' \in [Addr -> Byte]
    BY OverlayFacts DEF WriteBytes, TypeOK
  <2>2. dirty' \in [Proc -> SUBSET Addr]
    BY BytesFacts DEF WriteBytes, TypeOK
  <2>3. QED
    BY <2>1, <2>2 DEF WriteBytes, TypeOK
<1>2. ASSUME NEW q \in Proc
      PROVE  JobOK(q)'
  <2>1. CASE q = p
    BY <2>1 DEF WriteBytes, TypeOK, JobOK
  <2>2. CASE q # p
    BY <2>2 DEF WriteBytes, TypeOK, JobOK
  <2>3. QED
    BY <2>1, <2>2
<1>3. QED
  BY <1>1, <1>2

LEMMA ExitType ==
    ASSUME TypeInv, NEW p \in Proc, Exit(p),
           db' \in History, torn' \in SUBSET Addr, lost' \in SUBSET Addr
    PROVE  TypeInv'
<1> USE DEF TypeInv
<1>1. TypeOK'
  BY NoJobType, NoHistoryType DEF Exit, TypeOK
<1>2. ASSUME NEW q \in Proc
      PROVE  JobOK(q)'
  <2>1. CASE q = p
    BY <2>1, NoJobType DEF Exit, TypeOK, JobOK
  <2>2. CASE q # p
    BY <2>2 DEF Exit, TypeOK, JobOK
  <2>3. QED
    BY <2>1, <2>2
<1>3. QED
  BY <1>1, <1>2

LEMMA AbortType ==
    ASSUME TypeInv, NEW p \in Proc, Abort(p)
    PROVE  TypeInv'
  BY ExitType DEF Abort, TypeInv, TypeOK

(* Steps that no process takes leave every process as it was. *)
LEMMA OutsideType ==
    ASSUME TypeInv, UNCHANGED <<pc, job, data, nextId, dirty>>,
           file' \in [Addr -> Byte], base' \in [Addr -> Byte], present' \in BOOLEAN,
           db' \in History, torn' \in SUBSET Addr, lost' \in SUBSET Addr
    PROVE  TypeInv'
  BY DEF TypeInv, TypeOK, JobOK

LEMMA ForeignType ==
    ASSUME TypeInv, NEW content \in [Addr -> Byte], ForeignContent(content),
           present' \in BOOLEAN
    PROVE  TypeInv'
<1>1. /\ file' \in [Addr -> Byte] /\ base' \in [Addr -> Byte]
      /\ torn' \in SUBSET Addr /\ lost' \in SUBSET Addr
      /\ UNCHANGED <<db, pc, job, data, nextId, dirty>>
  BY DEF ForeignContent, TypeInv, TypeOK
<1>2. db' \in History
  BY <1>1 DEF TypeInv, TypeOK
<1>3. QED
  BY <1>1, <1>2, OutsideType

LEMMA TypeStep == TypeInv /\ [Next]_vars => TypeInv'
<1> SUFFICES ASSUME TypeInv, [Next]_vars PROVE TypeInv'
  OBVIOUS
<1>0. TypeOK /\ (\A p \in Proc : JobOK(p)) /\ db \in History /\ nextId \in Nat \ {0}
  BY DEF TypeInv, TypeOK
<1>1. ASSUME NEW p \in Proc, LoadApply(p)
      PROVE  TypeInv'
  <2>1. PICK new \in Bytes, strict \in BOOLEAN :
            nextId <= MaxApplies /\ Load(p, "apply", nextId, new, strict, "read")
    BY <1>1 DEF LoadApply
  <2>2. nextId \in Nat /\ nextId \in Id
    BY <1>0, <2>1, MaxAppliesAssumption DEF Id
  <2>3. QED
    BY <2>1, <2>2, LoadType DEF Op
<1>2. ASSUME NEW p \in Proc, LoadRevert(p)
      PROVE  TypeInv'
  <2>1. PICK i \in DOMAIN db.patches : Load(p, "revert", i, <<>>, TRUE, "write")
    BY <1>2 DEF LoadRevert
  <2>2. i \in Nat
    BY <1>0 DEF History
  <2>3. QED
    BY <2>1, <2>2, LoadType DEF Op
<1>3. ASSUME NEW p \in Proc, LoadRedo(p)
      PROVE  TypeInv'
  <2>1. PICK j \in DOMAIN db.redo_patches : Load(p, "redo", j, <<>>, TRUE, "write")
    BY <1>3 DEF LoadRedo
  <2>2. j \in Nat
    BY <1>0 DEF History
  <2>3. QED
    BY <2>1, <2>2, LoadType DEF Op
<1>4. ASSUME NEW p \in Proc, LoadRevertAll(p)
      PROVE  TypeInv'
  <2> DEFINE next == IF db.patches = <<>> THEN "save" ELSE "write"
  <2>1. Load(p, "revert_all", 0, <<>>, TRUE, next)
    BY <1>4 DEF LoadRevertAll
  <2>2. QED
    BY <2>1, LoadType DEF Op
<1>5. ASSUME NEW p \in Proc, ReadOriginal(p)
      PROVE  TypeInv'
  <2> DEFINE o == [x \in DOMAIN job[p].new |-> file[x]]
  <2>1. job[p].op = "apply" /\ job[p].new \in Bytes
    BY <1>0, <1>5 DEF ReadOriginal, JobOK
  <2>2. o \in Bytes /\ DOMAIN o = DOMAIN job[p].new
    BY <2>1, <1>0, BytesFacts, SameSpanBytes DEF TypeOK
  <2> HIDE DEF o
  <2>3. job' = [job EXCEPT ![p].orig = o]
    BY <1>5 DEF ReadOriginal, o
  <2>4. job' \in [Proc -> Job]
    BY <2>2, <2>3, <1>0 DEF TypeOK, Job
  <2>5. TypeOK'
    BY <2>4, <1>0, <1>5 DEF TypeOK, ReadOriginal
  <2>6. ASSUME NEW q \in Proc
        PROVE  JobOK(q)'
    <3>1. CASE q = p
      BY <3>1, <2>1, <2>2, <2>3, <1>0, <1>5 DEF JobOK, ReadOriginal, TypeOK, Job
    <3>2. CASE q # p
      BY <3>2, <2>3, <1>0, <1>5 DEF JobOK, ReadOriginal, TypeOK
    <3>3. QED
      BY <3>1, <3>2
  <2>7. QED
    BY <2>5, <2>6 DEF TypeInv
<1>6. ASSUME NEW p \in Proc, ApplyWrite(p)
      PROVE  TypeInv'
  <2> DEFINE e == [id |-> job[p].at, original_bytes |-> job[p].orig,
                   patched_bytes |-> job[p].new]
  <2>1. /\ pc[p] = "write" /\ job[p].op = "apply"
        /\ WriteBytes(p, job[p].new, Applied(data[p], e), "save")
    BY <1>6 DEF ApplyWrite, WriteBytes
  <2>2. job[p].new \in Bytes /\ e \in Entry
    BY <2>1, <1>0, EntryMade DEF JobOK
  <2>3. Applied(data[p], e) \in History
    BY <2>2, <1>0, AppliedType DEF TypeOK
  <2>4. QED
    BY <2>1, <2>2, <2>3, WriteType
<1>7. ASSUME NEW p \in Proc, RevertWrite(p)
      PROVE  TypeInv'
  <2>1. job[p].at \in DOMAIN data[p].patches /\ data[p] \in History
    BY <1>0, <1>7 DEF RevertWrite, WriteBytes, JobOK, TypeOK
  <2>2. /\ data[p].patches[job[p].at].original_bytes \in Bytes
        /\ Reverted(data[p], job[p].at) \in History
    BY <2>1, RevertedType, EntryFacts
  <2>3. QED
    BY <2>2, <1>7, WriteType DEF RevertWrite
<1>8. ASSUME NEW p \in Proc, RedoWrite(p)
      PROVE  TypeInv'
  <2>1. job[p].at \in DOMAIN data[p].redo_patches /\ data[p] \in History
    BY <1>0, <1>8 DEF RedoWrite, WriteBytes, JobOK, TypeOK
  <2>2. /\ data[p].redo_patches[job[p].at].patched_bytes \in Bytes
        /\ Redone(data[p], job[p].at) \in History
    BY <2>1, RedoneType, EntryFacts
  <2>3. QED
    BY <2>2, <1>8, WriteType DEF RedoWrite
<1>9. ASSUME NEW p \in Proc, RevertAllWrite(p)
      PROVE  TypeInv'
  <2> DEFINE last == Len(data[p].patches)
             next == IF last = 1 THEN "save" ELSE "write"
  <2>1. /\ job[p].op = "revert_all"
        /\ WriteBytes(p, data[p].patches[last].original_bytes,
                      Reverted(data[p], last), next)
    BY <1>9 DEF RevertAllWrite
  <2>2. data[p].patches # <<>> /\ data[p] \in History
    BY <2>1, <1>0 DEF WriteBytes, JobOK, TypeOK
  <2>3. last \in DOMAIN data[p].patches
    BY <2>2 DEF History
  <2>4. /\ data[p].patches[last].original_bytes \in Bytes
        /\ Reverted(data[p], last) \in History
        /\ Len(Reverted(data[p], last).patches) = last - 1
    BY <2>2, <2>3, RevertedType, EntryFacts
  <2>5. ASSUME next = "write"
        PROVE  Reverted(data[p], last).patches # <<>>
    <3>1. last \in Nat /\ last # 0 /\ last # 1
      BY <2>3, <2>5
    <3>2. Len(Reverted(data[p], last).patches) # 0
      BY <2>4, <3>1
    <3>3. QED
      BY <3>2
  <2>6. QED
    BY <2>1, <2>4, <2>5, WriteType
<1>10. ASSUME NEW p \in Proc, Save(p)
       PROVE  TypeInv'
  <2>1. db' \in History /\ torn' \in SUBSET Addr /\ lost' \in SUBSET Addr
    BY <1>0, <1>10 DEF Save, LostBy, TypeOK
  <2>2. QED
    BY <2>1, <1>10, ExitType DEF Save
<1>11. ASSUME NEW p \in Proc, SaveRaises(p) \/ OpenRaises(p) \/ Crash(p)
       PROVE  TypeInv'
  BY <1>11, AbortType DEF SaveRaises, OpenRaises, Crash
<1>12. CASE Forget
  BY <1>12, <1>0, OutsideType, NoHistoryType DEF Forget, TypeOK
<1>13. CASE PatchBytes
  <2>1. PICK raw \in Bytes : ForeignContent(Overlay(file, raw)) /\ UNCHANGED present
    BY <1>13 DEF PatchBytes
  <2>2. Overlay(file, raw) \in [Addr -> Byte] /\ present' \in BOOLEAN
    BY <2>1, <1>0, OverlayFacts DEF TypeOK
  <2>3. QED
    BY <2>1, <2>2, ForeignType
<1>14. CASE RemoveFile
  BY <1>14, <1>0, OutsideType DEF RemoveFile, TypeOK
<1>15. CASE RebuildFile
  BY <1>15, ForeignType DEF RebuildFile
<1>16. CASE UNCHANGED vars
  BY <1>16, <1>0, OutsideType DEF vars, TypeOK
<1>17. QED
  BY <1>1, <1>2, <1>3, <1>4, <1>5, <1>6, <1>7, <1>8, <1>9, <1>10, <1>11, <1>12,
     <1>13, <1>14, <1>15, <1>16 DEF Next, Step, DeleteHistory, PurgeMissing

(* Every variable keeps its type, whatever processes do at once: a process   *)
(* always finds in its own copy of the history the entry it is working on.   *)
THEOREM TypeCorrect == Spec => []TypeOK
<1>1. TypeInv => TypeOK
  BY DEF TypeInv
<1>2. QED
  BY TypeInit, TypeStep, <1>1, PTL DEF Spec

-----------------------------------------------------------------------------
(* What a process is about to save always passes the checks of PatchDb.save: *)
(* its copy of the history is storable, and an apply still has room in it    *)
(* and brings an identifier the copy does not have.                          *)

IdsBelow(s, n) == \A i \in DOMAIN s : s[i].id < n

CopyOK(h) == Storable(h) /\ IdsBelow(h.patches, nextId) /\ IdsBelow(h.redo_patches, nextId)

RoomFor(p) ==
    /\ Size(data[p]) < MAX_PATCHES_PER_BINARY
    /\ job[p].at < nextId
    /\ \A i \in DOMAIN data[p].patches : data[p].patches[i].id # job[p].at

SaveInv ==
    /\ CopyOK(db)
    /\ \A p \in Proc :
        /\ CopyOK(data[p])
        /\ pc[p] \in {"read", "write"} /\ job[p].op = "apply" => RoomFor(p)

LEMMA MovePreservesIds ==
    ASSUME NEW s \in Seq(Entry), NEW r \in Seq(Entry), NEW i \in DOMAIN s,
           DistinctIds(s), DistinctIds(r), NoSharedId(s, r), NEW n,
           IdsBelow(s, n), IdsBelow(r, n)
    PROVE  LET t == RemoveAt(s, i)
               u == Append(r, s[i])
           IN  /\ DistinctIds(t) /\ DistinctIds(u)
               /\ NoSharedId(t, u) /\ NoSharedId(u, t)
               /\ IdsBelow(t, n) /\ IdsBelow(u, n)
               /\ Len(t) + Len(u) = Len(s) + Len(r)
<1> DEFINE t == RemoveAt(s, i)
           u == Append(r, s[i])
<1>1. /\ Len(s) \in Nat /\ DOMAIN s = 1 .. Len(s) /\ DOMAIN t = 1 .. Len(s) - 1
      /\ \A k \in DOMAIN t : Shift(i, k) \in DOMAIN s \ {i} /\ t[k] = s[Shift(i, k)]
  BY PopFacts
<1>2. /\ Len(r) \in Nat /\ DOMAIN r = 1 .. Len(r) /\ DOMAIN u = 1 .. Len(r) + 1
      /\ \A k \in 1 .. Len(r) : u[k] = r[k]
      /\ u[Len(r) + 1] = s[i] /\ Len(u) = Len(r) + 1
  BY AppendFacts
<1>3. Len(t) = Len(s) - 1
  BY RemoveAtFacts
<1> HIDE DEF t, u
<1>4. DistinctIds(t)
  BY <1>1 DEF DistinctIds, Shift
<1>5. DistinctIds(u)
  BY <1>1, <1>2 DEF DistinctIds, NoSharedId
<1>6. NoSharedId(t, u) /\ NoSharedId(u, t)
  <2> SUFFICES ASSUME NEW j \in DOMAIN t, NEW k \in DOMAIN u
               PROVE  t[j].id # u[k].id
    BY DEF NoSharedId
  <2>1. CASE k \in 1 .. Len(r)
    BY <2>1, <1>1, <1>2 DEF NoSharedId
  <2>2. CASE k = Len(r) + 1
    BY <2>2, <1>1, <1>2 DEF DistinctIds
  <2>3. QED
    BY <2>1, <2>2, <1>2
<1>7. IdsBelow(t, n) /\ IdsBelow(u, n)
  BY <1>1, <1>2 DEF IdsBelow
<1>8. QED
  BY <1>1, <1>2, <1>3, <1>4, <1>5, <1>6, <1>7 DEF t, u

(* Arithmetic on plain variables: the SMT encoding of Len(h.field) needs it. *)
LEMMA SumFacts ==
    /\ \A a, b \in Nat : a + b \in Nat /\ a <= a + b /\ a + b = b + a
    /\ \A a, m \in Nat : a < m => a + 1 \in Nat /\ a + 1 <= m
    /\ \A a, b, m \in Nat : a <= b /\ b < m => a < m
  OBVIOUS

LEMMA SizeFacts ==
    ASSUME NEW h \in History
    PROVE  /\ Len(h.patches) \in Nat /\ Len(h.redo_patches) \in Nat
           /\ Size(h) = Len(h.patches) + Len(h.redo_patches)
           /\ Size(h) \in Nat
           /\ Len(h.patches) <= Size(h)
<1>1. Len(h.patches) \in Nat /\ Len(h.redo_patches) \in Nat
  BY DEF History
<1>2. Size(h) = Len(h.patches) + Len(h.redo_patches)
  BY DEF Size
<1>3. /\ Len(h.patches) + Len(h.redo_patches) \in Nat
      /\ Len(h.patches) <= Len(h.patches) + Len(h.redo_patches)
  BY <1>1, SumFacts, Zenon
<1>4. QED
  BY <1>1, <1>2, <1>3, Zenon

(* CopyOK of a history given by its two stacks. *)
LEMMA CopyOfStacks ==
    ASSUME NEW t, NEW u, NEW m \in Nat, Len(t) + Len(u) = m,
           m <= MAX_PATCHES_PER_BINARY,
           DistinctIds(t), DistinctIds(u), NoSharedId(t, u),
           IdsBelow(t, nextId), IdsBelow(u, nextId)
    PROVE  CopyOK([patches |-> t, redo_patches |-> u])
  BY DEF CopyOK, Storable, Size

LEMMA RevertedCopy ==
    ASSUME NEW h \in History, NEW i \in DOMAIN h.patches, CopyOK(h)
    PROVE  CopyOK(Reverted(h, i))
<1> DEFINE t == RemoveAt(h.patches, i)
           u == Append(h.redo_patches, h.patches[i])
<1>1. h.patches \in Seq(Entry) /\ h.redo_patches \in Seq(Entry)
  BY DEF History
<1>2. Size(h) \in Nat /\ Size(h) <= MAX_PATCHES_PER_BINARY
  BY SizeFacts DEF CopyOK, Storable
<1>3. /\ DistinctIds(t) /\ DistinctIds(u) /\ NoSharedId(t, u)
      /\ IdsBelow(t, nextId) /\ IdsBelow(u, nextId)
      /\ Len(t) + Len(u) = Size(h)
  BY <1>1, MovePreservesIds DEF CopyOK, Storable, Size
<1> HIDE DEF t, u
<1>4. CopyOK([patches |-> t, redo_patches |-> u])
  BY <1>2, <1>3, CopyOfStacks
<1>5. QED
  BY <1>4 DEF Reverted, t, u

LEMMA RedoneCopy ==
    ASSUME NEW h \in History, NEW j \in DOMAIN h.redo_patches, CopyOK(h)
    PROVE  CopyOK(Redone(h, j))
<1> DEFINE t == Append(h.patches, h.redo_patches[j])
           u == RemoveAt(h.redo_patches, j)
<1>1. h.patches \in Seq(Entry) /\ h.redo_patches \in Seq(Entry)
  BY DEF History
<1>2. Size(h) \in Nat /\ Size(h) <= MAX_PATCHES_PER_BINARY
  BY SizeFacts DEF CopyOK, Storable
<1>3. NoSharedId(h.redo_patches, h.patches)
  BY DEF CopyOK, Storable, NoSharedId
<1>4. /\ DistinctIds(t) /\ DistinctIds(u) /\ NoSharedId(t, u)
      /\ IdsBelow(t, nextId) /\ IdsBelow(u, nextId)
      /\ Len(u) + Len(t) = Len(h.redo_patches) + Len(h.patches)
  BY <1>1, <1>3, MovePreservesIds DEF CopyOK, Storable
<1>5. /\ Len(t) \in Nat /\ Len(u) \in Nat
      /\ Len(h.patches) \in Nat /\ Len(h.redo_patches) \in Nat
  BY <1>1, RemoveAtFacts, AppendFacts
<1> HIDE DEF t, u
<1>6. Len(t) + Len(u) = Size(h)
  BY <1>4, <1>5, SizeFacts, SumFacts
<1>7. CopyOK([patches |-> t, redo_patches |-> u])
  BY <1>2, <1>4, <1>6, CopyOfStacks
<1>8. QED
  BY <1>7 DEF Redone, t, u

LEMMA AppliedCopy ==
    ASSUME NEW h \in History, CopyOK(h), NEW e \in Entry, nextId \in Nat,
           Size(h) < MAX_PATCHES_PER_BINARY, e.id < nextId,
           \A i \in DOMAIN h.patches : h.patches[i].id # e.id
    PROVE  CopyOK(Applied(h, e))
<1> DEFINE s == h.patches
           t == Append(s, e)
<1>1. s \in Seq(Entry) /\ Len(s) \in Nat /\ DOMAIN s = 1 .. Len(s)
      /\ Len(h.redo_patches) \in Nat
  BY DEF History
<1>2. /\ DOMAIN t = 1 .. Len(s) + 1 /\ Len(t) = Len(s) + 1
      /\ \A k \in 1 .. Len(s) : t[k] = s[k]
      /\ t[Len(s) + 1] = e
  BY <1>1, AppendFacts
<1>3. DistinctIds(s) /\ IdsBelow(s, nextId) /\ \A i \in DOMAIN s : s[i].id # e.id
  BY DEF CopyOK, Storable
<1>4. Len(s) + 1 \in Nat /\ Len(s) + 1 <= MAX_PATCHES_PER_BINARY
  BY SizeFacts, SumFacts, LimitAssumption
<1>5. Applied(h, e) = [patches |-> t, redo_patches |-> <<>>]
  BY DEF Applied
<1> HIDE DEF s, t
<1>6. DistinctIds(t)
  <2> SUFFICES ASSUME NEW i \in DOMAIN t, NEW j \in DOMAIN t, t[i].id = t[j].id
               PROVE  i = j
    BY DEF DistinctIds
  <2>1. CASE i \in DOMAIN s /\ j \in DOMAIN s
    BY <2>1, <1>1, <1>2, <1>3 DEF DistinctIds
  <2>2. CASE i = Len(s) + 1 /\ j \in DOMAIN s
    BY <2>2, <1>1, <1>2, <1>3
  <2>3. CASE j = Len(s) + 1 /\ i \in DOMAIN s
    BY <2>3, <1>1, <1>2, <1>3
  <2>4. QED
    BY <2>1, <2>2, <2>3, <1>1, <1>2
<1>7. IdsBelow(t, nextId)
  BY <1>1, <1>2, <1>3 DEF IdsBelow
<1>8. /\ DistinctIds(<<>>) /\ NoSharedId(t, <<>>) /\ IdsBelow(<<>>, nextId)
      /\ Len(t) + Len(<<>>) = Len(s) + 1
  BY <1>1, <1>2 DEF DistinctIds, NoSharedId, IdsBelow
<1>9. QED
  BY <1>4, <1>5, <1>6, <1>7, <1>8, CopyOfStacks

LEMMA NoHistoryCopy == CopyOK(NoHistory)
  BY LimitAssumption DEF CopyOK, Storable, Size, NoHistory, DistinctIds,
                         NoSharedId, IdsBelow

LEMMA SaveInit == Init => SaveInv
<1> SUFFICES ASSUME Init PROVE SaveInv
  OBVIOUS
<1>1. db = NoHistory /\ \A p \in Proc : data[p] = NoHistory /\ pc[p] = "idle"
  BY DEF Init
<1>2. QED
  BY <1>1, NoHistoryCopy DEF SaveInv

LEMMA CopyMonotone ==
    ASSUME nextId \in Nat, nextId' = nextId \/ nextId' = nextId + 1,
           NEW h \in History, CopyOK(h)
    PROVE  /\ Storable(h)
           /\ IdsBelow(h.patches, nextId') /\ IdsBelow(h.redo_patches, nextId')
<1>1. ASSUME NEW s \in Seq(Entry), IdsBelow(s, nextId)
      PROVE  IdsBelow(s, nextId')
  <2> SUFFICES ASSUME NEW i \in DOMAIN s PROVE s[i].id < nextId'
    BY DEF IdsBelow
  <2>1. s[i] \in Entry
    OBVIOUS
  <2>2. s[i].id \in Nat
    BY <2>1, EntryFacts DEF Id
  <2>3. s[i].id < nextId
    BY <1>1 DEF IdsBelow
  <2>4. QED
    BY <2>2, <2>3
<1>2. h.patches \in Seq(Entry) /\ h.redo_patches \in Seq(Entry)
  BY DEF History
<1>3. QED
  BY <1>1, <1>2 DEF CopyOK

LEMMA SaveLoad ==
    ASSUME TypeInv, SaveInv, NEW p \in Proc, NEW op \in Op, NEW at, NEW new,
           NEW strict, NEW next, Load(p, op, at, new, strict, next),
           op = "apply" => at = nextId /\ Size(db) < MAX_PATCHES_PER_BINARY
    PROVE  SaveInv'
<1>1. /\ nextId \in Nat /\ (nextId' = nextId \/ nextId' = nextId + 1)
      /\ db \in History /\ \A q \in Proc : data[q] \in History
      /\ db' = db /\ CopyOK(db)
      /\ data' = [data EXCEPT ![p] = db] /\ data \in [Proc -> History]
      /\ pc' = [pc EXCEPT ![p] = next] /\ DOMAIN pc = Proc /\ DOMAIN job = Proc
      /\ job' = [job EXCEPT ![p] = [op |-> op, at |-> at, new |-> new,
                                    orig |-> <<>>, strict |-> strict]]
  BY DEF Load, TypeInv, TypeOK, SaveInv
<1>2. CopyOK(db)'
  BY <1>1, CopyMonotone DEF CopyOK
<1>3. ASSUME NEW q \in Proc
      PROVE  /\ CopyOK(data[q])'
             /\ (pc[q] \in {"read", "write"} /\ job[q].op = "apply" => RoomFor(q))'
  <2>1. CASE q = p
    <3>1. data'[p] = db
      BY <1>1
    <3>2. CopyOK(data[p])'
      BY <1>1, <1>2, <3>1 DEF CopyOK
    <3>3. ASSUME op = "apply"
          PROVE  RoomFor(p)'
      <4>1. nextId' = nextId + 1 /\ job'[p].at = nextId
        BY <1>1, <3>3 DEF Load
      <4>2. \A i \in DOMAIN db.patches : db.patches[i].id < nextId
        BY <1>1 DEF CopyOK, IdsBelow
      <4>3. \A i \in DOMAIN db.patches : db.patches[i].id # nextId
        BY <4>2, <1>1
      <4>4. Size(data'[p]) < MAX_PATCHES_PER_BINARY
        BY <3>1, <3>3
      <4>5. QED
        BY <4>1, <4>3, <4>4, <3>1, <1>1 DEF RoomFor
    <3>4. job'[p].op = op
      BY <1>1
    <3>5. QED
      BY <2>1, <3>2, <3>3, <3>4
  <2>2. CASE q # p
    <3>1. data'[q] = data[q] /\ pc'[q] = pc[q] /\ job'[q] = job[q]
      BY <2>2, <1>1
    <3>2. CopyOK(data[q])'
      BY <3>1, <1>1, CopyMonotone DEF CopyOK, SaveInv
    <3>3. ASSUME RoomFor(q), job[q].op = "apply"
          PROVE  RoomFor(q)'
      <4>1. job[q].at \in Nat
        BY DEF TypeInv, TypeOK, Job
      <4>2. job'[q].at < nextId'
        BY <4>1, <3>1, <3>3, <1>1 DEF RoomFor
      <4>3. QED
        BY <4>2, <3>1, <3>3 DEF RoomFor
    <3>4. QED
      BY <3>1, <3>2, <3>3 DEF SaveInv
  <2>3. QED
    BY <2>1, <2>2
<1>4. QED
  BY <1>2, <1>3 DEF SaveInv

LEMMA SaveWrite ==
    ASSUME TypeInv, SaveInv, NEW p \in Proc, NEW raw, NEW h, CopyOK(h),
           NEW next \in {"write", "save"}, WriteBytes(p, raw, h, next),
           job[p].op = "apply" => next = "save"
    PROVE  SaveInv'
<1>1. /\ UNCHANGED <<db, job, nextId>>
      /\ data' = [data EXCEPT ![p] = h] /\ pc' = [pc EXCEPT ![p] = next]
      /\ DOMAIN data = Proc /\ DOMAIN pc = Proc
  BY DEF WriteBytes, TypeInv, TypeOK
<1>2. CopyOK(db)'
  BY <1>1 DEF SaveInv, CopyOK
<1>3. ASSUME NEW q \in Proc
      PROVE  /\ CopyOK(data[q])'
             /\ (pc[q] \in {"read", "write"} /\ job[q].op = "apply" => RoomFor(q))'
  <2>1. CASE q = p
    BY <2>1, <1>1 DEF CopyOK
  <2>2. CASE q # p
    BY <2>2, <1>1 DEF CopyOK, SaveInv, RoomFor
  <2>3. QED
    BY <2>1, <2>2
<1>4. QED
  BY <1>2, <1>3 DEF SaveInv

LEMMA SaveExit ==
    ASSUME TypeInv, SaveInv, NEW p \in Proc, Exit(p), CopyOK(db)'
    PROVE  SaveInv'
<1>1. /\ nextId' = nextId
      /\ data' = [data EXCEPT ![p] = NoHistory] /\ pc' = [pc EXCEPT ![p] = "idle"]
      /\ job' = [job EXCEPT ![p] = NoJob]
      /\ DOMAIN data = Proc /\ DOMAIN pc = Proc /\ DOMAIN job = Proc
  BY DEF Exit, TypeInv, TypeOK
<1>2. ASSUME NEW q \in Proc
      PROVE  /\ CopyOK(data[q])'
             /\ (pc[q] \in {"read", "write"} /\ job[q].op = "apply" => RoomFor(q))'
  <2>1. CASE q = p
    BY <2>1, <1>1, NoHistoryCopy DEF CopyOK
  <2>2. CASE q # p
    BY <2>2, <1>1 DEF CopyOK, SaveInv, RoomFor
  <2>3. QED
    BY <2>1, <2>2
<1>3. QED
  BY <1>2 DEF SaveInv

LEMMA SaveOutside ==
    ASSUME SaveInv, UNCHANGED <<pc, job, data, nextId>>, db' = db \/ db' = NoHistory
    PROVE  SaveInv'
<1>1. CopyOK(db)'
  BY NoHistoryCopy DEF SaveInv, CopyOK
<1>2. ASSUME NEW q \in Proc
      PROVE  /\ CopyOK(data[q])'
             /\ (pc[q] \in {"read", "write"} /\ job[q].op = "apply" => RoomFor(q))'
  BY DEF SaveInv, CopyOK, RoomFor
<1>3. QED
  BY <1>1, <1>2 DEF SaveInv

LEMMA SaveStep == TypeInv /\ SaveInv /\ [Next]_vars => SaveInv'
<1> SUFFICES ASSUME TypeInv, SaveInv, [Next]_vars PROVE SaveInv'
  OBVIOUS
<1>0. /\ CopyOK(db) /\ nextId \in Nat
      /\ \A p \in Proc : JobOK(p) /\ CopyOK(data[p]) /\ data[p] \in History
  BY DEF SaveInv, TypeInv, TypeOK
<1>1. ASSUME NEW p \in Proc, LoadApply(p)
      PROVE  SaveInv'
  <2>1. PICK new \in Bytes, strict \in BOOLEAN :
            /\ Size(db) < MAX_PATCHES_PER_BINARY
            /\ Load(p, "apply", nextId, new, strict, "read")
    BY <1>1 DEF LoadApply
  <2>2. QED
    BY <2>1, SaveLoad DEF Op
<1>2. ASSUME NEW p \in Proc, LoadRevert(p)
      PROVE  SaveInv'
  <2>1. PICK i : Load(p, "revert", i, <<>>, TRUE, "write")
    BY <1>2 DEF LoadRevert
  <2>2. QED
    BY <2>1, SaveLoad DEF Op
<1>3. ASSUME NEW p \in Proc, LoadRedo(p)
      PROVE  SaveInv'
  <2>1. PICK j : Load(p, "redo", j, <<>>, TRUE, "write")
    BY <1>3 DEF LoadRedo
  <2>2. QED
    BY <2>1, SaveLoad DEF Op
<1>4. ASSUME NEW p \in Proc, LoadRevertAll(p)
      PROVE  SaveInv'
  <2>1. PICK next : Load(p, "revert_all", 0, <<>>, TRUE, next)
    BY <1>4 DEF LoadRevertAll
  <2>2. QED
    BY <2>1, SaveLoad DEF Op
<1>5. ASSUME NEW p \in Proc, ReadOriginal(p)
      PROVE  SaveInv'
  <2>1. /\ UNCHANGED <<db, data, nextId>> /\ pc[p] = "read"
        /\ pc' = [pc EXCEPT ![p] = "write"] /\ DOMAIN pc = Proc
        /\ job' = [job EXCEPT ![p].orig = [x \in DOMAIN job[p].new |-> file[x]]]
        /\ job \in [Proc -> Job]
    BY <1>5 DEF ReadOriginal, TypeInv, TypeOK
  <2>2. ASSUME NEW q \in Proc
        PROVE  job'[q].op = job[q].op /\ job'[q].at = job[q].at
    BY <2>1 DEF Job
  <2>3. ASSUME NEW q \in Proc
        PROVE  /\ CopyOK(data[q])'
               /\ (pc[q] \in {"read", "write"} /\ job[q].op = "apply" => RoomFor(q))'
    <3>1. pc'[q] \in {"read", "write"} => pc[q] \in {"read", "write"}
      BY <2>1
    <3>2. QED
      BY <3>1, <2>1, <2>2 DEF SaveInv, CopyOK, RoomFor
  <2>4. QED
    BY <2>1, <2>3 DEF SaveInv, CopyOK
<1>6. ASSUME NEW p \in Proc, ApplyWrite(p)
      PROVE  SaveInv'
  <2> DEFINE e == [id |-> job[p].at, original_bytes |-> job[p].orig,
                   patched_bytes |-> job[p].new]
  <2>1. /\ pc[p] = "write" /\ job[p].op = "apply"
        /\ WriteBytes(p, job[p].new, Applied(data[p], e), "save")
    BY <1>6 DEF ApplyWrite, WriteBytes
  <2>2. e \in Entry /\ e.id = job[p].at
    BY <2>1, <1>0, EntryMade DEF JobOK
  <2>3. RoomFor(p)
    BY <2>1 DEF SaveInv
  <2> HIDE DEF e
  <2>4. CopyOK(Applied(data[p], e))
    BY <2>2, <2>3, <1>0, AppliedCopy DEF RoomFor
  <2>5. QED
    BY <2>1, <2>4, SaveWrite
<1>7. ASSUME NEW p \in Proc, RevertWrite(p)
      PROVE  SaveInv'
  <2>1. job[p].at \in DOMAIN data[p].patches
    BY <1>0, <1>7 DEF RevertWrite, WriteBytes, JobOK
  <2>2. CopyOK(Reverted(data[p], job[p].at))
    BY <2>1, <1>0, RevertedCopy
  <2>3. QED
    BY <2>2, <1>7, SaveWrite DEF RevertWrite
<1>8. ASSUME NEW p \in Proc, RedoWrite(p)
      PROVE  SaveInv'
  <2>1. job[p].at \in DOMAIN data[p].redo_patches
    BY <1>0, <1>8 DEF RedoWrite, WriteBytes, JobOK
  <2>2. CopyOK(Redone(data[p], job[p].at))
    BY <2>1, <1>0, RedoneCopy
  <2>3. QED
    BY <2>2, <1>8, SaveWrite DEF RedoWrite
<1>9. ASSUME NEW p \in Proc, RevertAllWrite(p)
      PROVE  SaveInv'
  <2> DEFINE last == Len(data[p].patches)
             next == IF last = 1 THEN "save" ELSE "write"
  <2>1. /\ job[p].op = "revert_all"
        /\ WriteBytes(p, data[p].patches[last].original_bytes,
                      Reverted(data[p], last), next)
    BY <1>9 DEF RevertAllWrite
  <2>2. data[p].patches # <<>>
    BY <2>1, <1>0 DEF WriteBytes, JobOK
  <2>3. last \in DOMAIN data[p].patches
    BY <2>2, <1>0 DEF History
  <2>4. CopyOK(Reverted(data[p], last))
    BY <2>3, <1>0, RevertedCopy
  <2>5. QED
    BY <2>1, <2>4, SaveWrite
<1>10. ASSUME NEW p \in Proc, Save(p)
       PROVE  SaveInv'
  <2>1. Exit(p) /\ db' = data[p] /\ nextId' = nextId
    BY <1>10 DEF Save, Exit
  <2>2. CopyOK(db)'
    BY <2>1, <1>0 DEF CopyOK
  <2>3. QED
    BY <2>1, <2>2, SaveExit
<1>11. ASSUME NEW p \in Proc, SaveRaises(p) \/ OpenRaises(p) \/ Crash(p)
       PROVE  SaveInv'
  <2>1. Exit(p) /\ db' = db /\ nextId' = nextId
    BY <1>11 DEF SaveRaises, OpenRaises, Crash, Abort, Exit
  <2>2. CopyOK(db)'
    BY <2>1, <1>0 DEF CopyOK
  <2>3. QED
    BY <2>1, <2>2, SaveExit
<1>12. CASE Forget \/ PatchBytes \/ RemoveFile \/ RebuildFile \/ UNCHANGED vars
  BY <1>12, SaveOutside
     DEF Forget, PatchBytes, RemoveFile, RebuildFile, ForeignContent, vars
<1>13. QED
  BY <1>1, <1>2, <1>3, <1>4, <1>5, <1>6, <1>7, <1>8, <1>9, <1>10, <1>11, <1>12
     DEF Next, Step, DeleteHistory, PurgeMissing

(* However operations interleave, die or jump the order, a process that has  *)
(* written the file is never stopped by the limit or the key of the store.   *)
THEOREM SaveNeverRefused == Spec => []SaveAccepted
<1>1. TypeInv /\ SaveInv => SaveAccepted
  BY DEF SaveInv, CopyOK, SaveAccepted
<1>2. QED
  BY TypeInit, TypeStep, SaveInit, SaveStep, <1>1, PTL DEF Spec

-----------------------------------------------------------------------------
(* Coherence of the file with its history, when operations run one at a time *)
(* and the user undoes what lies on top first.  Coherent speaks of the       *)
(* moments between operations; CohInv carries it through the steps of one:   *)
(* the stored history explains the file but for what the process has written *)
(* so far, and the process's own copy explains that too.                     *)

Solo == "concurrent" \notin Faults /\ "anyorder" \notin Faults

InFlight(p) ==
    /\ Accounts(db, torn \cup dirty[p], lost)
    /\ Accounts(data[p], torn \ dirty[p], lost \cup LostBy(p))
    /\ pc[p] = "write" /\ job[p].op = "apply" =>
            \A x \in DOMAIN job[p].new : job[p].orig[x] = file[x]
    /\ pc[p] = "write" /\ job[p].op = "revert" => OnTop(data[p].patches, job[p].at)
    /\ pc[p] = "write" /\ job[p].op = "redo" => OnTop(data[p].redo_patches, job[p].at)

CohInv ==
    /\ \A p, q \in Proc : pc[p] # "idle" /\ pc[q] # "idle" => p = q
    /\ Coherent
    /\ \A p \in Proc : pc[p] # "idle" => InFlight(p)

LEMMA ExplainsApplied ==
    ASSUME NEW h \in History, NEW e \in Entry, NEW x, NEW v, Explains(h, x, v),
           x \in Covers(e) => e.original_bytes[x] = v
    PROVE  Explains(Applied(h, e), x,
                    IF x \in Covers(e) THEN e.patched_bytes[x] ELSE v)
<1> DEFINE w == IF x \in Covers(e) THEN e.patched_bytes[x] ELSE v
<1>1. h.patches \in Seq(Entry)
  BY DEF History
<1>2. UndoChain(Append(h.patches, e), x, base[x], w)
  BY <1>1, UndoPush DEF Explains
<1>3. RedoChain(<<>>, x, w)
  BY DEF RedoChain
<1>4. QED
  BY <1>2, <1>3 DEF Explains, Applied

LEMMA ExplainsReverted ==
    ASSUME NEW h \in History, NEW i \in DOMAIN h.patches, OnTop(h.patches, i),
           NEW x, NEW v, Explains(h, x, v)
    PROVE  Explains(Reverted(h, i), x,
                    IF x \in Covers(h.patches[i])
                    THEN h.patches[i].original_bytes[x] ELSE v)
<1> DEFINE s == h.patches
           e == s[i]
           w == IF x \in Covers(e) THEN e.original_bytes[x] ELSE v
<1>1. s \in Seq(Entry) /\ h.redo_patches \in Seq(Entry) /\ e \in Entry
  BY DEF History
<1>2. x \in Covers(s[i]) => Topmost(s, i, x)
  BY DEF OnTop, Topmost
<1>3. UndoChain(RemoveAt(s, i), x, base[x], w)
  BY <1>1, <1>2, UndoPop DEF Explains
<1>4. x \in Covers(e) => e.patched_bytes[x] = v
  BY <1>2 DEF Explains, UndoChain
<1>5. RedoChain(Append(h.redo_patches, e), x, w)
  BY <1>1, <1>4, RedoPush DEF Explains
<1>6. QED
  BY <1>3, <1>5 DEF Explains, Reverted

LEMMA ExplainsRedone ==
    ASSUME NEW h \in History, NEW j \in DOMAIN h.redo_patches,
           OnTop(h.redo_patches, j), NEW x, NEW v, Explains(h, x, v)
    PROVE  Explains(Redone(h, j), x,
                    IF x \in Covers(h.redo_patches[j])
                    THEN h.redo_patches[j].patched_bytes[x] ELSE v)
<1> DEFINE r == h.redo_patches
           e == r[j]
           w == IF x \in Covers(e) THEN e.patched_bytes[x] ELSE v
<1>1. r \in Seq(Entry) /\ h.patches \in Seq(Entry) /\ e \in Entry
  BY DEF History
<1>2. x \in Covers(r[j]) => Topmost(r, j, x)
  BY DEF OnTop, Topmost
<1>3. RedoChain(RemoveAt(r, j), x, w)
  BY <1>1, <1>2, RedoPop DEF Explains
<1>4. x \in Covers(e) => e.original_bytes[x] = v
  BY <1>2 DEF Explains, RedoChain
<1>5. UndoChain(Append(h.patches, e), x, base[x], w)
  BY <1>1, <1>4, UndoPush DEF Explains
<1>6. QED
  BY <1>3, <1>5 DEF Explains, Redone

LEMMA ExplainsNoHistory ==
    ASSUME NEW x
    PROVE  Explains(NoHistory, x, base[x])
  BY DEF Explains, NoHistory, UndoChain, RedoChain

(* A write moves the process's copy on and keeps both accounts. *)
LEMMA CohWrite ==
    ASSUME TypeInv, CohInv, NEW p \in Proc, NEW raw \in Bytes, NEW h \in History,
           NEW next \in {"write", "save"}, WriteBytes(p, raw, h, next),
           next = "write" => job[p].op = "revert_all",
           \A x \in Addr, v \in Byte :
                /\ Explains(data[p], x, v)
                /\ x \notin torn \ dirty[p] => file[x] = v
                /\ job[p].op = "apply" /\ x \in DOMAIN raw => x \notin torn
                => Explains(h, x, IF x \in DOMAIN raw THEN raw[x] ELSE v)
    PROVE  CohInv'
<1>1. /\ file \in [Addr -> Byte] /\ pc \in [Proc -> {"idle", "read", "write", "save"}]
      /\ DOMAIN data = Proc /\ dirty \in [Proc -> SUBSET Addr]
      /\ torn \in SUBSET Addr /\ lost \in SUBSET Addr
  BY DEF TypeInv, TypeOK
<1>2. /\ pc[p] = "write" /\ pc' = [pc EXCEPT ![p] = next]
      /\ UNCHANGED <<db, job, base, torn, lost>>
      /\ data' = [data EXCEPT ![p] = h] /\ file' = Overlay(file, raw)
      /\ dirty' = [dirty EXCEPT ![p] = @ \cup DOMAIN raw]
  BY DEF WriteBytes
<1>3. InFlight(p) /\ \A q \in Proc : pc[q] # "idle" => q = p
  BY <1>2 DEF CohInv
<1>4. /\ data'[p] = h /\ pc'[p] = next /\ dirty'[p] = dirty[p] \cup DOMAIN raw
      /\ \A q \in Proc : pc'[q] # "idle" => q = p
  BY <1>1, <1>2, <1>3
<1>5. \A x \in Addr : file'[x] = IF x \in DOMAIN raw THEN raw[x] ELSE file[x]
  BY <1>1, <1>2, OverlayFacts
<1>6. Accounts(db, torn \cup dirty[p], lost)'
  <2> SUFFICES ASSUME NEW x \in Addr \ lost
               PROVE  \E v \in Byte : Explains(db, x, v)' /\
                            (x \notin torn \cup dirty'[p] => file'[x] = v)
    BY <1>2 DEF Accounts
  <2>1. PICK v \in Byte : Explains(db, x, v) /\ (x \notin torn \cup dirty[p] => file[x] = v)
    BY <1>3 DEF InFlight, Accounts
  <2>2. x \notin torn \cup dirty'[p] => file'[x] = v
    BY <2>1, <1>4, <1>5
  <2>3. Explains(db, x, v)'
    BY <2>1, <1>2 DEF Explains
  <2>4. QED
    BY <2>2, <2>3
<1>7. Accounts(data[p], torn \ dirty[p], lost \cup LostBy(p))'
  <2>1. LostBy(p)' = IF job[p].op = "apply" THEN torn \cap dirty'[p] ELSE {}
    BY <1>2 DEF LostBy
  <2> SUFFICES ASSUME NEW x \in Addr, x \notin lost, x \notin LostBy(p)'
               PROVE  \E v \in Byte : Explains(h, x, v)' /\
                            (x \notin torn \ dirty'[p] => file'[x] = v)
    BY <1>2, <1>4 DEF Accounts
  <2>2. x \notin LostBy(p)
    BY <2>1, <1>4 DEF LostBy
  <2>3. PICK v \in Byte : Explains(data[p], x, v) /\ (x \notin torn \ dirty[p] => file[x] = v)
    BY <2>2, <1>3 DEF InFlight, Accounts
  <2> DEFINE w == IF x \in DOMAIN raw THEN raw[x] ELSE v
  <2>4. job[p].op = "apply" /\ x \in DOMAIN raw => x \notin torn
    BY <2>1, <1>4
  <2>5. Explains(h, x, w)
    BY <2>3, <2>4
  <2>6. w \in Byte
    BY BytesFacts
  <2>7. x \notin torn \ dirty'[p] => file'[x] = w
    BY <2>3, <1>4, <1>5
  <2>8. Explains(h, x, w)'
    BY <2>5, <1>2 DEF Explains
  <2>9. QED
    BY <2>6, <2>7, <2>8
<1>8. InFlight(p)'
  BY <1>2, <1>4, <1>6, <1>7 DEF InFlight
<1>9. ~(\A q \in Proc : pc'[q] = "idle")
  BY <1>4
<1>10. QED
  BY <1>4, <1>8, <1>9 DEF CohInv, Coherent

LEMMA CohLoad ==
    ASSUME Solo, TypeInv, CohInv, NEW p \in Proc, NEW op \in Op \ {"none"},
           NEW at, NEW new, NEW strict, NEW next \in {"read", "write", "save"},
           Load(p, op, at, new, strict, next),
           op = "apply" => next = "read",
           op = "revert" => OnTop(db.patches, at),
           op = "redo" => OnTop(db.redo_patches, at)
    PROVE  CohInv'
<1>1. /\ \A q \in Proc : pc[q] = "idle"
      /\ UNCHANGED <<file, db, base, dirty, torn, lost>>
      /\ data' = [data EXCEPT ![p] = db] /\ DOMAIN data = Proc
      /\ pc' = [pc EXCEPT ![p] = next] /\ DOMAIN pc = Proc
      /\ job' = [job EXCEPT ![p] = [op |-> op, at |-> at, new |-> new,
                                    orig |-> <<>>, strict |-> strict]]
      /\ DOMAIN job = Proc /\ dirty[p] = {}
  BY DEF Load, Quiet, Solo, TypeInv, TypeOK, JobOK
<1>2. Accounts(db, torn, lost)
  BY <1>1 DEF CohInv, Coherent
<1>3. /\ data'[p] = db /\ pc'[p] = next /\ pc'[p] # "idle" /\ job'[p].op = op
      /\ job'[p].at = at /\ \A q \in Proc : pc'[q] # "idle" => q = p
  BY <1>1
<1>4. torn \cup dirty'[p] = torn /\ torn \ dirty'[p] = torn /\ lost \cup LostBy(p)' = lost
  BY <1>1 DEF LostBy
<1>5. Accounts(db, torn, lost)'
  BY <1>1, <1>2 DEF Accounts, Explains
<1>6. Accounts(db, torn \cup dirty[p], lost)'
  BY <1>1, <1>4, <1>5 DEF Accounts
<1>7. Accounts(data[p], torn \ dirty[p], lost \cup LostBy(p))'
  BY <1>1, <1>3, <1>4, <1>5 DEF Accounts
<1>8. InFlight(p)'
  BY <1>3, <1>6, <1>7 DEF InFlight
<1>9. QED
  BY <1>3, <1>8 DEF CohInv, Coherent

LEMMA CohRead ==
    ASSUME TypeInv, CohInv, NEW p \in Proc, ReadOriginal(p)
    PROVE  CohInv'
<1>1. /\ pc[p] = "read" /\ pc' = [pc EXCEPT ![p] = "write"] /\ DOMAIN pc = Proc
      /\ UNCHANGED <<file, db, data, base, dirty, torn, lost>>
      /\ job' = [job EXCEPT ![p].orig = [x \in DOMAIN job[p].new |-> file[x]]]
      /\ job \in [Proc -> Job] /\ job[p].op = "apply"
  BY DEF ReadOriginal, TypeInv, TypeOK, JobOK
<1>2. InFlight(p) /\ \A q \in Proc : pc[q] # "idle" => q = p
  BY <1>1 DEF CohInv
<1>3. /\ pc'[p] = "write" /\ \A q \in Proc : pc'[q] # "idle" => q = p
      /\ job'[p].op = "apply" /\ job'[p].new = job[p].new
      /\ job'[p].orig = [x \in DOMAIN job[p].new |-> file[x]]
  BY <1>1, <1>2 DEF Job
<1>4. LostBy(p)' = LostBy(p)
  BY <1>1, <1>3 DEF LostBy
<1>5. /\ Accounts(db, torn \cup dirty[p], lost)'
      /\ Accounts(data[p], torn \ dirty[p], lost \cup LostBy(p))'
  BY <1>1, <1>2, <1>4 DEF InFlight, Accounts, Explains
<1>6. InFlight(p)'
  BY <1>1, <1>3, <1>5 DEF InFlight
<1>7. QED
  BY <1>3, <1>6 DEF CohInv, Coherent

LEMMA CohExit ==
    ASSUME TypeInv, CohInv, NEW p \in Proc, pc[p] # "idle", Exit(p),
           \/ db' = data[p] /\ torn' = torn \ dirty[p] /\ lost' = lost \cup LostBy(p)
           \/ db' = db /\ torn' = torn \cup dirty[p] /\ lost' = lost
    PROVE  CohInv'
<1>1. InFlight(p) /\ \A q \in Proc : pc[q] # "idle" => q = p
  BY DEF CohInv
<1>2. /\ UNCHANGED <<file, base>> /\ pc' = [pc EXCEPT ![p] = "idle"]
      /\ DOMAIN pc = Proc
  BY DEF Exit, TypeInv, TypeOK
<1>3. \A q \in Proc : pc'[q] = "idle"
  BY <1>1, <1>2
<1>4. Accounts(db, torn, lost)'
  BY <1>1, <1>2 DEF InFlight, Accounts, Explains
<1>5. QED
  BY <1>3, <1>4 DEF CohInv, Coherent

LEMMA CohForget ==
    ASSUME Solo, TypeInv, CohInv,
           \A q \in Proc : pc[q] = "idle",
           db' = NoHistory, base' = file', file' \in [Addr -> Byte], UNCHANGED pc
    PROVE  CohInv'
<1>1. \A x \in Addr : Explains(NoHistory, x, base[x])'
  BY DEF Explains, NoHistory, UndoChain, RedoChain
<1>2. Accounts(db, torn, lost)'
  BY <1>1 DEF Accounts
<1>3. QED
  BY <1>2 DEF CohInv, Coherent

LEMMA CohForeign ==
    ASSUME Solo, TypeInv, CohInv, NEW content \in [Addr -> Byte],
           ForeignContent(content)
    PROVE  CohInv'
<1>1. /\ \A q \in Proc : pc[q] = "idle"
      /\ file' = content /\ UNCHANGED <<db, pc>>
  BY DEF ForeignContent, Quiet, Solo
<1>2. CASE db = NoHistory
  BY <1>1, <1>2, CohForget DEF ForeignContent
<1>3. CASE db # NoHistory
  <2>1. /\ torn' = torn \cup {x \in Addr : content[x] # file[x]}
        /\ UNCHANGED <<base, lost>>
    BY <1>3 DEF ForeignContent
  <2>2. Accounts(db, torn, lost)
    BY <1>1 DEF CohInv, Coherent
  <2>3. Accounts(db, torn, lost)'
    BY <1>1, <2>1, <2>2 DEF Accounts, Explains
  <2>4. QED
    BY <1>1, <2>3 DEF CohInv, Coherent
<1>4. QED
  BY <1>2, <1>3

LEMMA CohUnchanged ==
    ASSUME CohInv, UNCHANGED <<file, db, pc, job, data, base, dirty, torn, lost>>
    PROVE  CohInv'
  BY DEF CohInv, Coherent, InFlight, Accounts, Explains, LostBy

LEMMA CohInit == Init => CohInv
<1> SUFFICES ASSUME Init PROVE CohInv
  OBVIOUS
<1>1. \A x \in Addr : Explains(db, x, file[x]) /\ file[x] \in Byte
  BY ExplainsNoHistory DEF Init
<1>2. Accounts(db, torn, lost)
  BY <1>1 DEF Accounts
<1>3. QED
  BY <1>2 DEF CohInv, Coherent, Init

(* The undo step shared by revert and by each turn of revert_all. *)
LEMMA CohUndo ==
    ASSUME TypeInv, CohInv, NEW p \in Proc, NEW i \in DOMAIN data[p].patches,
           NEW next \in {"write", "save"}, OnTop(data[p].patches, i),
           WriteBytes(p, data[p].patches[i].original_bytes, Reverted(data[p], i), next),
           next = "write" => job[p].op = "revert_all", job[p].op # "apply"
    PROVE  CohInv'
<1> DEFINE e == data[p].patches[i]
<1>1. data[p] \in History
  BY DEF TypeInv, TypeOK
<1>2. e \in Entry /\ Reverted(data[p], i) \in History
  BY <1>1, RevertedType
<1>3. e.original_bytes \in Bytes /\ DOMAIN e.original_bytes = Covers(e)
  BY <1>2, EntryFacts
<1>4. \A x \in Addr, v \in Byte : Explains(data[p], x, v) =>
            Explains(Reverted(data[p], i), x,
                     IF x \in DOMAIN e.original_bytes THEN e.original_bytes[x] ELSE v)
  BY <1>1, <1>3, ExplainsReverted
<1> HIDE DEF e
<1>5. WriteBytes(p, e.original_bytes, Reverted(data[p], i), next)
  BY DEF e
<1>6. QED
  BY <1>2, <1>3, <1>4, <1>5, CohWrite

LEMMA CohStep == Solo /\ TypeInv /\ CohInv /\ [Next]_vars => CohInv'
<1> SUFFICES ASSUME Solo, TypeInv, CohInv, [Next]_vars PROVE CohInv'
  OBVIOUS
<1>0. /\ \A p \in Proc : JobOK(p) /\ data[p] \in History
      /\ \A p \in Proc : pc[p] # "idle" => InFlight(p)
      /\ file \in [Addr -> Byte]
  BY DEF TypeInv, TypeOK, CohInv
<1>1. ASSUME NEW p \in Proc, LoadApply(p)
      PROVE  CohInv'
  <2>1. PICK new \in Bytes, strict \in BOOLEAN :
            Load(p, "apply", nextId, new, strict, "read")
    BY <1>1 DEF LoadApply
  <2>2. QED
    BY <2>1, CohLoad DEF Op
<1>2. ASSUME NEW p \in Proc, LoadRevert(p)
      PROVE  CohInv'
  <2>1. PICK i \in DOMAIN db.patches :
            OnTop(db.patches, i) /\ Load(p, "revert", i, <<>>, TRUE, "write")
    BY <1>2 DEF LoadRevert, MayPop, Solo
  <2>2. QED
    BY <2>1, CohLoad DEF Op
<1>3. ASSUME NEW p \in Proc, LoadRedo(p)
      PROVE  CohInv'
  <2>1. PICK j \in DOMAIN db.redo_patches :
            OnTop(db.redo_patches, j) /\ Load(p, "redo", j, <<>>, TRUE, "write")
    BY <1>3 DEF LoadRedo, MayPop, Solo
  <2>2. QED
    BY <2>1, CohLoad DEF Op
<1>4. ASSUME NEW p \in Proc, LoadRevertAll(p)
      PROVE  CohInv'
  <2>1. PICK next \in {"write", "save"} : Load(p, "revert_all", 0, <<>>, TRUE, next)
    BY <1>4 DEF LoadRevertAll
  <2>2. QED
    BY <2>1, CohLoad DEF Op
<1>5. ASSUME NEW p \in Proc, ReadOriginal(p)
      PROVE  CohInv'
  BY <1>5, CohRead
<1>6. ASSUME NEW p \in Proc, ApplyWrite(p)
      PROVE  CohInv'
  <2> DEFINE e == [id |-> job[p].at, original_bytes |-> job[p].orig,
                   patched_bytes |-> job[p].new]
  <2>1. /\ pc[p] = "write" /\ job[p].op = "apply"
        /\ WriteBytes(p, job[p].new, Applied(data[p], e), "save")
    BY <1>6 DEF ApplyWrite, WriteBytes
  <2>2. /\ job[p].new \in Bytes /\ e \in Entry
        /\ e.patched_bytes = job[p].new /\ e.original_bytes = job[p].orig
        /\ Covers(e) = DOMAIN job[p].new /\ dirty[p] = {}
    BY <2>1, <1>0, EntryMade DEF JobOK, Covers
  <2>3. \A x \in Covers(e) : e.original_bytes[x] = file[x]
    BY <2>1, <2>2, <1>0 DEF InFlight
  <2> HIDE DEF e
  <2>4. Applied(data[p], e) \in History
    BY <2>2, <1>0, AppliedType
  <2>5. ASSUME NEW x \in Addr, NEW v \in Byte, Explains(data[p], x, v),
               x \notin torn \ dirty[p] => file[x] = v,
               x \in DOMAIN job[p].new => x \notin torn
        PROVE  Explains(Applied(data[p], e), x,
                        IF x \in DOMAIN job[p].new THEN job[p].new[x] ELSE v)
    <3>1. x \in Covers(e) => e.original_bytes[x] = v
      BY <2>2, <2>3, <2>5
    <3>2. QED
      BY <3>1, <2>2, <2>5, <1>0, ExplainsApplied
  <2>6. QED
    BY <2>1, <2>2, <2>4, <2>5, CohWrite
<1>7. ASSUME NEW p \in Proc, RevertWrite(p)
      PROVE  CohInv'
  <2>1. /\ job[p].op = "revert" /\ pc[p] = "write"
        /\ WriteBytes(p, data[p].patches[job[p].at].original_bytes,
                      Reverted(data[p], job[p].at), "save")
    BY <1>7 DEF RevertWrite, WriteBytes
  <2>2. job[p].at \in DOMAIN data[p].patches /\ OnTop(data[p].patches, job[p].at)
    BY <2>1, <1>0 DEF JobOK, InFlight
  <2>3. QED
    BY <2>1, <2>2, CohUndo
<1>8. ASSUME NEW p \in Proc, RedoWrite(p)
      PROVE  CohInv'
  <2> DEFINE j == job[p].at
             e == data[p].redo_patches[j]
  <2>1. /\ job[p].op = "redo" /\ pc[p] = "write"
        /\ WriteBytes(p, e.patched_bytes, Redone(data[p], j), "save")
    BY <1>8 DEF RedoWrite, WriteBytes
  <2>2. j \in DOMAIN data[p].redo_patches /\ OnTop(data[p].redo_patches, j)
    BY <2>1, <1>0 DEF JobOK, InFlight
  <2>3. e \in Entry /\ Redone(data[p], j) \in History
    BY <2>2, <1>0, RedoneType
  <2>4. e.patched_bytes \in Bytes /\ DOMAIN e.patched_bytes = Covers(e)
    BY <2>3, EntryFacts DEF Covers
  <2>5. \A x \in Addr, v \in Byte : Explains(data[p], x, v) =>
            Explains(Redone(data[p], j), x,
                     IF x \in DOMAIN e.patched_bytes THEN e.patched_bytes[x] ELSE v)
    BY <2>2, <2>4, <1>0, ExplainsRedone
  <2> HIDE DEF e, j
  <2>6. QED
    BY <2>1, <2>3, <2>4, <2>5, CohWrite
<1>9. ASSUME NEW p \in Proc, RevertAllWrite(p)
      PROVE  CohInv'
  <2> DEFINE last == Len(data[p].patches)
             next == IF last = 1 THEN "save" ELSE "write"
  <2>1. /\ job[p].op = "revert_all"
        /\ WriteBytes(p, data[p].patches[last].original_bytes,
                      Reverted(data[p], last), next)
    BY <1>9 DEF RevertAllWrite
  <2>2. data[p].patches # <<>>
    BY <2>1, <1>0 DEF WriteBytes, JobOK
  <2>3. last \in DOMAIN data[p].patches /\ OnTop(data[p].patches, last)
    BY <2>2, <1>0 DEF History, OnTop
  <2>4. QED
    BY <2>1, <2>3, CohUndo
<1>10. ASSUME NEW p \in Proc, Save(p)
       PROVE  CohInv'
  BY <1>10, CohExit DEF Save
<1>11. ASSUME NEW p \in Proc, SaveRaises(p) \/ OpenRaises(p) \/ Crash(p)
       PROVE  CohInv'
  <2>1. pc[p] # "idle" /\ Abort(p)
    BY <1>11 DEF SaveRaises, OpenRaises, Crash
  <2>2. QED
    BY <2>1, CohExit DEF Abort
<1>12. CASE Forget
  <2>1. \A q \in Proc : pc[q] = "idle"
    BY <1>12 DEF Forget, Quiet, Solo
  <2>2. QED
    BY <2>1, <1>0, <1>12, CohForget DEF Forget
<1>13. CASE PatchBytes
  <2>1. PICK raw \in Bytes : ForeignContent(Overlay(file, raw))
    BY <1>13 DEF PatchBytes
  <2>2. Overlay(file, raw) \in [Addr -> Byte]
    BY <1>0, OverlayFacts
  <2>3. QED
    BY <2>1, <2>2, CohForeign
<1>14. CASE RebuildFile
  BY <1>14, CohForeign DEF RebuildFile
<1>15. CASE RemoveFile \/ UNCHANGED vars
  BY <1>15, CohUnchanged DEF RemoveFile, vars
<1>16. QED
  BY <1>1, <1>2, <1>3, <1>4, <1>5, <1>6, <1>7, <1>8, <1>9, <1>10, <1>11, <1>12,
     <1>13, <1>14, <1>15 DEF Next, Step, DeleteHistory, PurgeMissing

(* One operation at a time and undone from the top, the history and the file *)
(* agree between operations at every byte no interrupted or foreign write    *)
(* touched, whatever crashes, removals, rebuilds and refused saves occurred. *)
THEOREM HistoryCoherent == Solo => (Spec => []Coherent)
<1>1. CohInv => Coherent
  BY DEF CohInv
<1>2. ASSUME Solo PROVE Spec => []Coherent
  <2>1. TypeInv /\ CohInv /\ [Next]_vars => CohInv'
    BY <1>2, CohStep
  <2>2. QED
    BY TypeInit, TypeStep, CohInit, <2>1, <1>1, PTL DEF Spec
<1>3. QED
  BY <1>2

(* Hence, once every patch is reverted, the untouched bytes are the original *)
(* ones: undo never leaves an intermediate value behind.                     *)
THEOREM UndoRestores == Solo => (Spec => []UndoneIsOriginal)
<1>1. Coherent => UndoneIsOriginal
  <2> SUFFICES ASSUME Coherent, db.patches = <<>>, \A p \in Proc : pc[p] = "idle",
                      NEW x \in Addr \ (torn \cup lost)
               PROVE  file[x] = base[x]
    BY DEF UndoneIsOriginal
  <2>1. PICK v \in Byte : Explains(db, x, v) /\ file[x] = v
    BY DEF Coherent, Accounts
  <2>2. v = base[x]
    BY <2>1 DEF Explains, UndoChain
  <2>3. QED
    BY <2>1, <2>2
<1>2. ASSUME Solo PROVE Spec => []UndoneIsOriginal
  <2>1. Spec => []Coherent
    BY <1>2, HistoryCoherent
  <2>2. QED
    BY <2>1, <1>1, PTL
<1>3. QED
  BY <1>2
=============================================================================
