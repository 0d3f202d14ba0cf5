----------------------- MODULE PatchRefinement_proofs -----------------------
(***************************************************************************)
(* PatchManager implements UndoHistory, for every file size, byte set,     *)
(* limit and set of processes, when operations are serialised and undone   *)
(* from the top.                                                           *)
(***************************************************************************)
EXTENDS PatchRefinement, PatchManager_proofs, WellFoundedInduction

-----------------------------------------------------------------------------
(* A set of indices has a last one. *)

LEMMA SmallerWellFounded ==
    IsWellFoundedOn({ss \in Nat \X Nat : ss[1] < ss[2]}, Nat)
  BY NatLessThanWellFounded DEF OpToRel

LEMMA HasLast ==
    ASSUME NEW n \in Nat, NEW T, T \subseteq 1 .. n, T # {}
    PROVE  \E i \in T : \A k \in T : k <= i
<1> DEFINE D == {n - i : i \in T}
           R == {ss \in Nat \X Nat : ss[1] < ss[2]}
<1>1. \A i \in T : i \in Nat /\ i <= n /\ n - i \in Nat
  <2>1. \A i \in 1 .. n : i \in Nat /\ i <= n /\ n - i \in Nat
    OBVIOUS
  <2>2. QED
    BY <2>1
<1>2. D \subseteq Nat /\ D # {}
  BY <1>1
<1>3. \E d \in D : \A e \in D : ~(<<e, d>> \in R)
  <2> HIDE DEF D
  <2>1. IsWellFoundedOn(R, Nat)
    BY SmallerWellFounded
  <2> HIDE DEF R
  <2>2. QED
    BY <1>2, <2>1, WFMin
<1>4. PICK i \in T : \A e \in D : ~(<<e, n - i>> \in R)
  BY <1>3
<1>5. ASSUME NEW k \in T PROVE k <= i
  <2>1. n - k \in D /\ n - k \in Nat /\ n - i \in Nat
    BY <1>1
  <2>2. ~(<<n - k, n - i>> \in R)
    BY <1>4, <2>1
  <2>3. ~(n - k < n - i)
    BY <2>1, <2>2
  <2>4. i \in Nat /\ k \in Nat
    BY <1>1
  <2>5. QED
    BY <2>3, <2>4
<1>6. QED
  BY <1>5

-----------------------------------------------------------------------------
(* What the edits show at an address. *)

LEMMA EditsFacts ==
    ASSUME NEW s \in Seq(Entry)
    PROVE  /\ Len(s) \in Nat /\ DOMAIN EditsOf(s) = 1 .. Len(s) /\ DOMAIN s = 1 .. Len(s)
           /\ EditsOf(s) \in Seq([id : Id, bytes : Bytes])
           /\ Len(EditsOf(s)) = Len(s)
           /\ \A i \in DOMAIN s :
                 /\ EditsOf(s)[i] = [id |-> s[i].id, bytes |-> s[i].patched_bytes]
                 /\ EditsOf(s)[i].bytes = s[i].patched_bytes
                 /\ \A x : Editor!Touches(EditsOf(s)[i], x) <=> x \in Covers(s[i])
<1> DEFINE E == [id : Id, bytes : Bytes]
<1>1. Len(s) \in Nat /\ DOMAIN s = 1 .. Len(s) /\ \A i \in 1 .. Len(s) : s[i] \in Entry
  OBVIOUS
<1>2. \A i \in DOMAIN s : [id |-> s[i].id, bytes |-> s[i].patched_bytes] \in [id : Id, bytes : Bytes]
  BY <1>1, EntryFacts
<1>3. EditsOf(s) \in [1 .. Len(s) -> [id : Id, bytes : Bytes]]
  BY <1>1, <1>2 DEF EditsOf
<1>4. EditsOf(s) \in Seq(E) /\ Len(EditsOf(s)) = Len(s)
  <2> DEFINE n == Len(s)
  <2>1. n \in Nat /\ EditsOf(s) \in [1 .. n -> E]
    BY <1>1, <1>3
  <2> HIDE DEF E, n
  <2>2. EditsOf(s) \in Seq(E) /\ Len(EditsOf(s)) = n
    BY <2>1
  <2>3. QED
    BY <2>2 DEF n
<1>5. QED
  BY <1>1, <1>3, <1>4 DEF EditsOf, Editor!Touches, Covers

\* Under the edits of a stack of rows an address holds one value at most.
LEMMA ShowsOne ==
    ASSUME NEW s \in Seq(Entry), NEW x, NEW v, NEW w,
           Editor!Shows(EditsOf(s), x, v), Editor!Shows(EditsOf(s), x, w)
    PROVE  v = w
<1> DEFINE u == EditsOf(s)
           T == {i \in DOMAIN u : Editor!Touches(u[i], x)}
<1>1. Len(s) \in Nat /\ DOMAIN u = 1 .. Len(s)
  BY EditsFacts
<1> HIDE DEF u
<1>2. CASE T = {}
  BY <1>2 DEF Editor!Shows, u
<1>3. CASE T # {}
  <2>1. T \subseteq 1 .. Len(s)
    BY <1>1
  <2> HIDE DEF T
  <2>2. PICK i \in T : \A k \in T : k <= i
    BY <1>1, <1>3, <2>1, HasLast
  <2>3. /\ i \in DOMAIN u /\ Editor!Touches(u[i], x)
        /\ \A k \in DOMAIN u : k > i => ~Editor!Touches(u[k], x)
    BY <1>1, <2>1, <2>2 DEF T
  <2>4. u[i].bytes[x] = v /\ u[i].bytes[x] = w
    BY <2>3 DEF Editor!Shows, u
  <2>5. QED
    BY <2>4
<1>4. QED
  BY <1>2, <1>3

\* The chain of originals of a coherent history is what its edits show.
LEMMA ChainShows ==
    ASSUME NEW s \in Seq(Entry), NEW x, NEW v, UndoChain(s, x, base[x], v)
    PROVE  Editor!Shows(EditsOf(s), x, v)
<1>1. /\ DOMAIN EditsOf(s) = DOMAIN s
      /\ \A i \in DOMAIN s :
            /\ EditsOf(s)[i].bytes = s[i].patched_bytes
            /\ Editor!Touches(EditsOf(s)[i], x) <=> x \in Covers(s[i])
  BY EditsFacts
<1>2. ASSUME NEW i \in DOMAIN s, Editor!Touches(EditsOf(s)[i], x),
             \A k \in DOMAIN s : k > i => ~Editor!Touches(EditsOf(s)[k], x)
      PROVE  EditsOf(s)[i].bytes[x] = v
  <2>1. Topmost(s, i, x)
    BY <1>1, <1>2 DEF Topmost
  <2>2. QED
    BY <1>1, <2>1 DEF UndoChain
<1>3. ASSUME \A i \in DOMAIN s : ~Editor!Touches(EditsOf(s)[i], x)
      PROVE  v = base[x]
  BY <1>1, <1>3 DEF UndoChain
<1>4. QED
  BY <1>1, <1>2, <1>3 DEF Editor!Shows

LEMMA ShownIs ==
    ASSUME NEW s \in Seq(Entry), NEW x, NEW v \in Byte, UndoChain(s, x, base[x], v)
    PROVE  Editor!Shown(EditsOf(s), x) = v
<1>1. Editor!Shows(EditsOf(s), x, v)
  BY ChainShows
<1>2. \A w \in Byte : Editor!Shows(EditsOf(s), x, w) => w = v
  BY <1>1, ShowsOne
<1>3. QED
  BY <1>1, <1>2 DEF Editor!Shown

LEMMA StoredIs ==
    ASSUME db.patches \in Seq(Entry), NEW x, NEW v \in Byte, Explains(db, x, v)
    PROVE  Stored(x) = v
<1>1. UndoChain(db.patches, x, base[x], v)
  BY DEF Explains
<1>2. \A w \in Byte : UndoChain(db.patches, x, base[x], w) => w = v
  BY <1>1, ChainShows, ShowsOne
<1>3. QED
  BY <1>1, <1>2 DEF Stored

\* One edit more on top.
LEMMA ShowsPush ==
    ASSUME NEW s \in Seq(Entry), NEW e \in Entry, NEW x, NEW v,
           Editor!Shows(EditsOf(s), x, v)
    PROVE  Editor!Shows(EditsOf(Append(s, e)), x,
                        IF x \in Covers(e) THEN e.patched_bytes[x] ELSE v)
<1> DEFINE t == Append(s, e)
           n == Len(s) + 1
           w == IF x \in Covers(e) THEN e.patched_bytes[x] ELSE v
<1>1. /\ t \in Seq(Entry) /\ Len(t) = n /\ Len(s) \in Nat
      /\ \A k \in 1 .. Len(s) : t[k] = s[k]
      /\ t[n] = e
  BY AppendFacts
<1> HIDE DEF t
<1>2. /\ DOMAIN EditsOf(s) = 1 .. Len(s) /\ DOMAIN EditsOf(t) = 1 .. n
      /\ \A k \in 1 .. Len(s) : EditsOf(t)[k] = EditsOf(s)[k]
      /\ EditsOf(t)[n].bytes = e.patched_bytes
      /\ Editor!Touches(EditsOf(t)[n], x) <=> x \in Covers(e)
  <2>1. DOMAIN EditsOf(s) = 1 .. Len(s) /\ DOMAIN s = 1 .. Len(s)
    BY EditsFacts
  <2>2. DOMAIN EditsOf(t) = 1 .. n /\ DOMAIN t = 1 .. n
    BY <1>1, EditsFacts
  <2>3. n \in DOMAIN t /\ \A k \in 1 .. Len(s) : k \in DOMAIN t /\ k \in DOMAIN s
    BY <1>1, <2>1, <2>2
  <2>4. \A k \in 1 .. Len(s) : EditsOf(t)[k] = EditsOf(s)[k]
    <3>1. \A k \in DOMAIN s : EditsOf(s)[k] = [id |-> s[k].id, bytes |-> s[k].patched_bytes]
      BY EditsFacts
    <3>2. \A k \in DOMAIN t : EditsOf(t)[k] = [id |-> t[k].id, bytes |-> t[k].patched_bytes]
      BY <1>1, EditsFacts
    <3>3. QED
      BY <1>1, <2>3, <3>1, <3>2
  <2>5. QED
    BY <1>1, <2>1, <2>2, <2>3, <2>4, EditsFacts
<1>3. ASSUME NEW i \in DOMAIN EditsOf(t), Editor!Touches(EditsOf(t)[i], x),
             \A k \in DOMAIN EditsOf(t) : k > i => ~Editor!Touches(EditsOf(t)[k], x)
      PROVE  EditsOf(t)[i].bytes[x] = w
  <2>1. CASE i = n
    BY <1>2, <1>3, <2>1
  <2>2. CASE i # n
    <3>1. i \in 1 .. Len(s) /\ n > i /\ n \in DOMAIN EditsOf(t)
      BY <1>1, <1>2, <2>2
    <3>2. x \notin Covers(e)
      BY <1>2, <1>3, <3>1
    <3>3. /\ Editor!Touches(EditsOf(s)[i], x)
          /\ \A k \in DOMAIN EditsOf(s) : k > i => ~Editor!Touches(EditsOf(s)[k], x)
      BY <1>1, <1>2, <1>3, <3>1
    <3>4. EditsOf(s)[i].bytes[x] = v
      BY <1>2, <3>1, <3>3 DEF Editor!Shows
    <3>5. QED
      BY <1>2, <3>1, <3>2, <3>4
  <2>3. QED
    BY <2>1, <2>2
<1>4. ASSUME \A i \in DOMAIN EditsOf(t) : ~Editor!Touches(EditsOf(t)[i], x)
      PROVE  w = base[x]
  <2>1. n \in DOMAIN EditsOf(t) /\ \A k \in 1 .. Len(s) : k \in DOMAIN EditsOf(t)
    BY <1>1, <1>2
  <2>2. x \notin Covers(e) /\ \A k \in DOMAIN EditsOf(s) : ~Editor!Touches(EditsOf(s)[k], x)
    BY <1>2, <1>4, <2>1
  <2>3. QED
    BY <2>2 DEF Editor!Shows
<1>5. QED
  BY <1>3, <1>4 DEF Editor!Shows, t

-----------------------------------------------------------------------------
(* The mapped operations on the stacks. *)

LEMMA EditsAppend ==
    ASSUME NEW s \in Seq(Entry), NEW e \in Entry
    PROVE  EditsOf(Append(s, e)) = Append(EditsOf(s), [id |-> e.id, bytes |-> e.patched_bytes])
<1> DEFINE t == Append(s, e)
           d == [id |-> e.id, bytes |-> e.patched_bytes]
<1>1. d \in [id : Id, bytes : Bytes]
  BY EntryFacts
<1>2. /\ t \in Seq(Entry) /\ Len(t) = Len(s) + 1 /\ Len(s) \in Nat
      /\ \A k \in 1 .. Len(s) : t[k] = s[k]
      /\ t[Len(s) + 1] = e
  BY AppendFacts
<1> HIDE DEF t
<1>3. /\ EditsOf(t) \in Seq([id : Id, bytes : Bytes]) /\ Len(EditsOf(t)) = Len(s) + 1
      /\ EditsOf(s) \in Seq([id : Id, bytes : Bytes]) /\ Len(EditsOf(s)) = Len(s)
      /\ \A k \in 1 .. Len(s) : EditsOf(t)[k] = EditsOf(s)[k]
      /\ EditsOf(t)[Len(s) + 1] = d
  <2>1. DOMAIN s = 1 .. Len(s) /\ DOMAIN t = 1 .. Len(s) + 1
    BY <1>2, EditsFacts
  <2>2. /\ Len(s) + 1 \in DOMAIN t
        /\ \A k \in 1 .. Len(s) : k \in DOMAIN t /\ k \in DOMAIN s
    BY <1>2, <2>1
  <2>3. \A k \in 1 .. Len(s) : EditsOf(t)[k] = EditsOf(s)[k]
    BY <1>2, <2>2, EditsFacts, ZenonT(60)
  <2>4. EditsOf(t)[Len(s) + 1] = d
    BY <1>2, <2>2, EditsFacts
  <2>5. QED
    BY <1>2, <2>3, <2>4, EditsFacts
<1> HIDE DEF d
<1>4. /\ Append(EditsOf(s), d) \in Seq([id : Id, bytes : Bytes])
      /\ Len(Append(EditsOf(s), d)) = Len(s) + 1
      /\ \A k \in 1 .. Len(s) : Append(EditsOf(s), d)[k] = EditsOf(s)[k]
      /\ Append(EditsOf(s), d)[Len(s) + 1] = d
  BY <1>1, <1>3, AppendProperties
<1>5. \A k \in 1 .. Len(s) + 1 : EditsOf(t)[k] = Append(EditsOf(s), d)[k]
  BY <1>2, <1>3, <1>4
<1>6. EditsOf(t) = Append(EditsOf(s), d)
  BY <1>2, <1>3, <1>4, <1>5, SeqEqual
<1>7. QED
  BY <1>6 DEF t, d

LEMMA EditsRemoveAt ==
    ASSUME NEW s \in Seq(Entry), NEW i \in DOMAIN s
    PROVE  EditsOf(RemoveAt(s, i)) = RemoveAt(EditsOf(s), i)
<1> DEFINE t == RemoveAt(s, i)
           E == [id : Id, bytes : Bytes]
           u == RemoveAt(EditsOf(s), i)
<1>1. /\ Len(s) \in Nat /\ DOMAIN s = 1 .. Len(s)
      /\ EditsOf(s) \in Seq(E) /\ Len(EditsOf(s)) = Len(s) /\ i \in DOMAIN EditsOf(s)
      /\ \A k \in 1 .. Len(s) :
            EditsOf(s)[k] = [id |-> s[k].id, bytes |-> s[k].patched_bytes]
  BY EditsFacts
<1>2. /\ t \in Seq(Entry) /\ Len(t) = Len(s) - 1
      /\ \A k \in 1 .. Len(s) - 1 : t[k] = IF k < i THEN s[k] ELSE s[k + 1]
  BY RemoveAtFacts
<1>3. /\ u \in Seq(E) /\ Len(u) = Len(s) - 1
      /\ \A k \in 1 .. Len(s) - 1 : u[k] = IF k < i THEN EditsOf(s)[k] ELSE EditsOf(s)[k + 1]
  <2> HIDE DEF E
  <2>1. QED
    BY <1>1, RemoveAtFacts
<1> HIDE DEF t, u
<1>4. /\ EditsOf(t) \in Seq(E) /\ Len(EditsOf(t)) = Len(s) - 1
      /\ \A k \in 1 .. Len(s) - 1 :
            EditsOf(t)[k] = [id |-> t[k].id, bytes |-> t[k].patched_bytes]
  BY <1>2, EditsFacts
<1> HIDE DEF E
<1>5. ASSUME NEW k \in 1 .. Len(s) - 1 PROVE EditsOf(t)[k] = u[k]
  <2>1. k \in 1 .. Len(s) /\ k + 1 \in 1 .. Len(s)
    BY <1>1
  <2>2. CASE k < i
    BY <1>1, <1>2, <1>3, <1>4, <2>1, <2>2
  <2>3. CASE ~(k < i)
    BY <1>1, <1>2, <1>3, <1>4, <2>1, <2>3
  <2>4. QED
    BY <2>2, <2>3
<1>6. EditsOf(t) = u
  BY <1>3, <1>4, <1>5, SeqEqual
<1>7. QED
  BY <1>6 DEF t, u

LEMMA EditsEmpty == EditsOf(<<>>) = <<>>
  BY DEF EditsOf

\* The rows of revert_all: those that were there, then the ones taken off, the
\* last one first.
Peeled(h, d) ==
    /\ Len(d.patches) <= Len(h.patches)
    /\ \A k \in 1 .. Len(d.patches) : d.patches[k] = h.patches[k]
    /\ Len(d.redo_patches) = Len(h.redo_patches) + (Len(h.patches) - Len(d.patches))
    /\ \A k \in 1 .. Len(h.redo_patches) : d.redo_patches[k] = h.redo_patches[k]
    /\ \A m \in 1 .. Len(h.patches) - Len(d.patches) :
          d.redo_patches[Len(h.redo_patches) + m] = h.patches[(Len(h.patches) - m) + 1]

LEMMA PeeledStart ==
    ASSUME NEW h \in History
    PROVE  Peeled(h, h)
<1>1. Len(h.patches) \in Nat /\ Len(h.redo_patches) \in Nat
  BY DEF History
<1>2. QED
  BY <1>1 DEF Peeled

LEMMA PeeledTurn ==
    ASSUME NEW h \in History, NEW d \in History, Peeled(h, d), d.patches # <<>>
    PROVE  Peeled(h, Reverted(d, Len(d.patches)))
<1> DEFINE last == Len(d.patches)
           a == Len(h.redo_patches)
           b == Len(h.patches)
           c == Len(d.redo_patches)
           e == Reverted(d, last)
<1>1. /\ last \in DOMAIN d.patches /\ last \in Nat \ {0}
      /\ d.patches \in Seq(Entry) /\ d.redo_patches \in Seq(Entry)
      /\ a \in Nat /\ b \in Nat /\ c \in Nat
      /\ d.patches[last] \in Entry
  BY DEF History
<1>2. e.patches = RemoveAt(d.patches, last) /\ e.redo_patches = Append(d.redo_patches, d.patches[last])
  BY DEF Reverted
<1>3. /\ Len(e.patches) = last - 1
      /\ \A k \in 1 .. last - 1 : e.patches[k] = d.patches[k]
  BY <1>1, <1>2, RemoveAtFacts
<1>4. /\ Len(e.redo_patches) = c + 1
      /\ \A k \in 1 .. c : e.redo_patches[k] = d.redo_patches[k]
      /\ e.redo_patches[c + 1] = d.patches[last]
  BY <1>1, <1>2, AppendFacts
<1>5. /\ last <= b /\ c = a + (b - last)
      /\ \A k \in 1 .. last : d.patches[k] = h.patches[k]
      /\ \A k \in 1 .. a : d.redo_patches[k] = h.redo_patches[k]
      /\ \A m \in 1 .. b - last : d.redo_patches[a + m] = h.patches[(b - m) + 1]
  BY DEF Peeled
<1> HIDE DEF e, last, a, b, c
<1>6. d.patches[last] = h.patches[last]
  BY <1>1, <1>5
<1>7. ASSUME NEW m \in 1 .. b - (last - 1)
      PROVE  e.redo_patches[a + m] = h.patches[(b - m) + 1]
  <2>1. CASE m \in 1 .. b - last
    <3>1. a + m \in 1 .. c
      BY <1>1, <1>5, <2>1
    <3>2. e.redo_patches[a + m] = d.redo_patches[a + m]
      BY <1>4, <3>1
    <3>3. QED
      BY <1>5, <2>1, <3>2
  <2>2. CASE m \notin 1 .. b - last
    <3>1. m = (b - last) + 1
      BY <1>1, <1>5, <2>2
    <3>2. /\ a \in Nat /\ b \in Nat /\ c \in Nat /\ last \in Nat
          /\ c = a + (b - last) /\ m = (b - last) + 1
      BY <1>1, <1>5, <3>1
    <3>3. a + m = c + 1 /\ (b - m) + 1 = last
      BY <3>2
    <3>4. QED
      BY <1>4, <1>6, <3>3
  <2>3. QED
    BY <2>1, <2>2
<1>8. \A k \in 1 .. last - 1 : e.patches[k] = h.patches[k]
  BY <1>1, <1>3, <1>5
<1>9. \A k \in 1 .. a : e.redo_patches[k] = h.redo_patches[k]
  <2>1. \A k \in 1 .. a : k \in 1 .. c
    BY <1>1, <1>5
  <2>2. QED
    BY <1>4, <1>5, <2>1
<1>10. last - 1 <= b /\ c + 1 = a + (b - (last - 1))
  BY <1>1, <1>5
<1>11. /\ Len(e.patches) <= b
       /\ Len(e.redo_patches) = a + (b - Len(e.patches))
       /\ \A k \in 1 .. Len(e.patches) : e.patches[k] = h.patches[k]
       /\ \A m \in 1 .. b - Len(e.patches) : e.redo_patches[a + m] = h.patches[(b - m) + 1]
  BY <1>3, <1>4, <1>7, <1>8, <1>10
<1>12. QED
  BY <1>9, <1>11 DEF Peeled, e, a, b, last

\* Once nothing is left, they are the edits undone and the edits in reverse.
LEMMA PeeledAll ==
    ASSUME NEW h \in History, NEW d \in History, Peeled(h, d), d.patches = <<>>
    PROVE  EditsOf(d.redo_patches) = EditsOf(h.redo_patches) \o Reverse(EditsOf(h.patches))
<1> DEFINE E == [id : Id, bytes : Bytes]
           r == EditsOf(h.redo_patches)
           s == EditsOf(h.patches)
           t == EditsOf(d.redo_patches)
           a == Len(h.redo_patches)
           b == Len(h.patches)
<1>1. /\ h.patches \in Seq(Entry) /\ h.redo_patches \in Seq(Entry) /\ d.redo_patches \in Seq(Entry)
      /\ Len(d.patches) = 0
  BY EmptySeq DEF History
<1>2. /\ r \in Seq(E) /\ Len(r) = a /\ s \in Seq(E) /\ Len(s) = b /\ t \in Seq(E)
      /\ Len(t) = Len(d.redo_patches) /\ a \in Nat /\ b \in Nat
  BY <1>1, EditsFacts
<1>3. /\ Len(d.redo_patches) = a + b
      /\ \A k \in 1 .. a : d.redo_patches[k] = h.redo_patches[k]
      /\ \A m \in 1 .. b : d.redo_patches[a + m] = h.patches[(b - m) + 1]
  BY <1>1, <1>2 DEF Peeled
<1>4. /\ \A k \in 1 .. a : r[k] = [id |-> h.redo_patches[k].id, bytes |-> h.redo_patches[k].patched_bytes]
      /\ \A k \in 1 .. b : s[k] = [id |-> h.patches[k].id, bytes |-> h.patches[k].patched_bytes]
      /\ \A k \in 1 .. a + b :
            t[k] = [id |-> d.redo_patches[k].id, bytes |-> d.redo_patches[k].patched_bytes]
  <2>1. DOMAIN h.redo_patches = 1 .. a /\ DOMAIN h.patches = 1 .. b /\ DOMAIN d.redo_patches = 1 .. a + b
    BY <1>1, <1>3, EditsFacts
  <2>2. QED
    BY <1>1, <2>1, EditsFacts
<1> HIDE DEF r, s, t, a, b, E
<1>5. /\ Reverse(s) \in Seq(E) /\ Len(Reverse(s)) = b
      /\ \A m \in 1 .. b : Reverse(s)[m] = s[(b - m) + 1]
  <2>1. \A m \in 1 .. b : (b - m) + 1 \in 1 .. b /\ s[(b - m) + 1] \in E
    BY <1>2
  <2>2. Reverse(s) = [m \in 1 .. b |-> s[(b - m) + 1]]
    BY <1>2 DEF Reverse
  <2>3. Reverse(s) \in [1 .. b -> E]
    BY <2>1, <2>2
  <2>4. QED
    BY <1>2, <2>2, <2>3
<1>6. /\ r \o Reverse(s) \in Seq(E) /\ Len(r \o Reverse(s)) = a + b
      /\ \A k \in 1 .. a + b :
            (r \o Reverse(s))[k] = IF k <= a THEN r[k] ELSE Reverse(s)[k - a]
  <2>1. /\ r \o Reverse(s) \in Seq(E) /\ Len(r \o Reverse(s)) = Len(r) + Len(Reverse(s))
        /\ \A k \in 1 .. Len(r) + Len(Reverse(s)) :
              (r \o Reverse(s))[k] = IF k <= Len(r) THEN r[k] ELSE Reverse(s)[k - Len(r)]
    <3>1. r \in Seq(E) /\ Reverse(s) \in Seq(E)
      BY <1>2, <1>5
    <3>2. QED
      BY <3>1, ConcatProperties, Zenon
  <2>2. QED
    BY <1>2, <1>5, <2>1
<1>7. ASSUME NEW k \in 1 .. a + b PROVE t[k] = (r \o Reverse(s))[k]
  <2>1. CASE k <= a
    <3>1. k \in 1 .. a
      BY <1>2, <2>1
    <3>2. QED
      BY <1>3, <1>4, <1>6, <2>1, <3>1
  <2>2. CASE ~(k <= a)
    <3>1. k - a \in 1 .. b /\ a + (k - a) = k /\ (b - (k - a)) + 1 \in 1 .. b
      BY <1>2, <2>2
    <3>2. d.redo_patches[k] = h.patches[(b - (k - a)) + 1]
      BY <1>3, <3>1
    <3>3. (r \o Reverse(s))[k] = s[(b - (k - a)) + 1]
      BY <1>5, <1>6, <2>2, <3>1
    <3>4. QED
      BY <1>4, <3>1, <3>2, <3>3
  <2>3. QED
    BY <2>1, <2>2
<1>8. t = r \o Reverse(s)
  BY <1>2, <1>3, <1>6, <1>7, SeqEqual
<1>9. QED
  BY <1>8 DEF r, s, t

-----------------------------------------------------------------------------
(* What an operation will have saved.                                      *)

\* Until its last write, an operation holds the rows it loaded; then what it makes
\* of them.  An operation that runs has the rows to itself.
OutcomeOf(p) ==
    /\ pc[p] = "read" => data[p] = db
    /\ pc[p] = "write" /\ job[p].op # "revert_all" => data[p] = db
    /\ pc[p] \in {"write", "save"} /\ job[p].op = "revert_all" =>
          Peeled(db, data[p])
    /\ pc[p] = "save" => job[p].op # "none"
    /\ pc[p] = "save" /\ job[p].op = "revert_all" => data[p].patches = <<>>
    /\ pc[p] = "save" /\ job[p].op = "apply" =>
          \E e \in Entry : data[p] = Applied(db, e) /\ dirty[p] = Covers(e)
    /\ pc[p] = "write" /\ job[p].op = "revert" => OnTop(db.patches, job[p].at)
    /\ pc[p] = "write" /\ job[p].op = "redo" => OnTop(db.redo_patches, job[p].at)
    /\ pc[p] = "save" /\ job[p].op = "revert" =>
          \E i \in DOMAIN db.patches :
              OnTop(db.patches, i) /\ data[p] = Reverted(db, i) /\ dirty[p] = Covers(db.patches[i])
    /\ pc[p] = "save" /\ job[p].op = "redo" =>
          \E j \in DOMAIN db.redo_patches :
              OnTop(db.redo_patches, j) /\ data[p] = Redone(db, j)
              /\ dirty[p] = Covers(db.redo_patches[j])

OutcomeInv == \A p \in Proc : pc[p] # "idle" => OutcomeOf(p)

LEMMA OutcomeIdle == ASSUME \A q \in Proc : pc'[q] = "idle" PROVE OutcomeInv'
  BY DEF OutcomeInv

LEMMA OutcomeLoad ==
    ASSUME Solo, TypeInv, NEW p \in Proc, NEW op \in Op \ {"none"},
           NEW at, NEW new, NEW strict, NEW next \in {"read", "write", "save"},
           Load(p, op, at, new, strict, next),
           next = "save" => op = "revert_all" /\ db.patches = <<>>,
           op = "revert" => OnTop(db.patches, at),
           op = "redo" => OnTop(db.redo_patches, at)
    PROVE  OutcomeInv'
<1>1. /\ \A q \in Proc : pc[q] = "idle"
      /\ db' = db /\ db \in History
      /\ data' = [data EXCEPT ![p] = db] /\ DOMAIN data = Proc
      /\ pc' = [pc EXCEPT ![p] = next] /\ DOMAIN pc = Proc
      /\ job' = [job EXCEPT ![p] = [op |-> op, at |-> at, new |-> new,
                                    orig |-> <<>>, strict |-> strict]]
      /\ DOMAIN job = Proc
  BY DEF Load, Quiet, Solo, TypeInv, TypeOK
<1>2. /\ data'[p] = db /\ pc'[p] = next /\ job'[p].op = op /\ job'[p].at = at
      /\ \A q \in Proc : pc'[q] # "idle" => q = p
  BY <1>1
<1>3. Peeled(db, db)
  BY <1>1, PeeledStart
<1>4. Peeled(db, data[p])'
  BY <1>1, <1>2, <1>3 DEF Peeled
<1>5. OnTop(db.patches, job[p].at)' <=> OnTop(db.patches, at)
  BY <1>1, <1>2 DEF OnTop
<1>6. OnTop(db.redo_patches, job[p].at)' <=> OnTop(db.redo_patches, at)
  BY <1>1, <1>2 DEF OnTop
<1>7. OutcomeOf(p)'
  BY <1>1, <1>2, <1>4, <1>5, <1>6 DEF OutcomeOf
<1>8. QED
  BY <1>2, <1>7 DEF OutcomeInv

LEMMA OutcomeRead ==
    ASSUME TypeInv, CohInv, OutcomeInv, NEW p \in Proc, ReadOriginal(p)
    PROVE  OutcomeInv'
<1>1. /\ pc[p] = "read" /\ job[p].op = "apply" /\ data[p] = db
      /\ \A q \in Proc : pc[q] # "idle" => q = p
  BY DEF ReadOriginal, OutcomeInv, OutcomeOf, CohInv, TypeInv, JobOK
<1>2. /\ pc' = [pc EXCEPT ![p] = "write"] /\ DOMAIN pc = Proc
      /\ db' = db /\ data' = data
      /\ job' = [job EXCEPT ![p].orig = [x \in DOMAIN job[p].new |-> file[x]]]
      /\ job \in [Proc -> Job]
  BY DEF ReadOriginal, TypeInv, TypeOK
<1>3. pc'[p] = "write" /\ job'[p].op = "apply" /\ \A q \in Proc : pc'[q] # "idle" => q = p
  BY <1>1, <1>2 DEF Job
<1>4. OutcomeOf(p)'
  BY <1>1, <1>2, <1>3 DEF OutcomeOf
<1>5. QED
  BY <1>3, <1>4 DEF OutcomeInv

\* The last write of an operation: what it holds is what it made of the rows.
LEMMA OutcomeWritten ==
    ASSUME TypeInv, CohInv, OutcomeInv, NEW p \in Proc, NEW raw, NEW h,
           WriteBytes(p, raw, h, "save"), job[p].op # "revert_all",
           job[p].op = "apply" => \E e \in Entry : h = Applied(db, e) /\ DOMAIN raw = Covers(e),
           job[p].op = "revert" =>
               \E i \in DOMAIN db.patches :
                   OnTop(db.patches, i) /\ h = Reverted(db, i) /\ DOMAIN raw = Covers(db.patches[i]),
           job[p].op = "redo" =>
               \E j \in DOMAIN db.redo_patches :
                   OnTop(db.redo_patches, j) /\ h = Redone(db, j)
                   /\ DOMAIN raw = Covers(db.redo_patches[j])
    PROVE  OutcomeInv'
<1>1. /\ pc[p] = "write" /\ job' = job /\ db' = db
      /\ pc' = [pc EXCEPT ![p] = "save"] /\ DOMAIN pc = Proc
      /\ data' = [data EXCEPT ![p] = h] /\ DOMAIN data = Proc
      /\ dirty' = [dirty EXCEPT ![p] = @ \cup DOMAIN raw] /\ DOMAIN dirty = Proc
      /\ dirty[p] = {} /\ job[p].op # "none"
  BY DEF WriteBytes, TypeInv, TypeOK, JobOK
<1>2. /\ pc'[p] = "save" /\ data'[p] = h /\ dirty'[p] = DOMAIN raw
      /\ \A q \in Proc : pc'[q] # "idle" => q = p
  BY <1>1 DEF CohInv
<1>3. /\ job[p].op = "apply" => \E e \in Entry : data'[p] = Applied(db', e) /\ dirty'[p] = Covers(e)
      /\ job[p].op = "revert" =>
            \E i \in DOMAIN db'.patches :
                OnTop(db.patches, i)' /\ data'[p] = Reverted(db', i)
                /\ dirty'[p] = Covers(db'.patches[i])
      /\ job[p].op = "redo" =>
            \E j \in DOMAIN db'.redo_patches :
                OnTop(db.redo_patches, j)' /\ data'[p] = Redone(db', j)
                /\ dirty'[p] = Covers(db'.redo_patches[j])
  BY <1>1, <1>2 DEF OnTop
<1>4. OutcomeOf(p)'
  BY <1>1, <1>2, <1>3 DEF OutcomeOf
<1>5. QED
  BY <1>2, <1>4 DEF OutcomeInv

LEMMA OutcomeRevertAll ==
    ASSUME TypeInv, CohInv, OutcomeInv, NEW p \in Proc, RevertAllWrite(p)
    PROVE  OutcomeInv'
<1> DEFINE last == Len(data[p].patches)
           next == IF last = 1 THEN "save" ELSE "write"
           h == Reverted(data[p], last)
<1>1. /\ job[p].op = "revert_all" /\ pc[p] = "write" /\ job' = job /\ db' = db
      /\ pc' = [pc EXCEPT ![p] = next] /\ DOMAIN pc = Proc
      /\ data' = [data EXCEPT ![p] = h] /\ DOMAIN data = Proc
      /\ data[p].patches # <<>> /\ data[p] \in History /\ db \in History
  BY DEF RevertAllWrite, WriteBytes, TypeInv, TypeOK, JobOK
<1>2. Peeled(db, data[p])
  BY <1>1 DEF OutcomeInv, OutcomeOf
<1>3. Peeled(db, h)
  BY <1>1, <1>2, PeeledTurn
<1>4. last \in DOMAIN data[p].patches /\ last \in Nat
  BY <1>1 DEF History
<1>5. h \in History /\ Len(h.patches) = last - 1
  BY <1>1, <1>4, RevertedType
<1> HIDE DEF h
<1>6. next = "save" => h.patches = <<>>
  <2>1. h.patches \in Seq(Entry)
    BY <1>5 DEF History
  <2>2. next = "save" => Len(h.patches) = 0
    BY <1>4, <1>5
  <2>3. QED
    BY <2>1, <2>2, EmptySeq
<1> HIDE DEF next
<1>7. next \in {"save", "write"}
  BY DEF next
<1>8. /\ pc'[p] = next /\ data'[p] = h /\ \A q \in Proc : pc'[q] # "idle" => q = p
  BY <1>1 DEF CohInv
<1>9. Peeled(db, data[p])'
  BY <1>1, <1>3, <1>8 DEF Peeled
<1>10. OutcomeOf(p)'
  BY <1>1, <1>6, <1>7, <1>8, <1>9 DEF OutcomeOf
<1>11. QED
  BY <1>8, <1>10 DEF OutcomeInv

LEMMA OutcomeStep ==
    ASSUME Solo, TypeInv, CohInv, OutcomeInv, [Next]_vars PROVE OutcomeInv'
<1>0. /\ \A p \in Proc : JobOK(p) /\ data[p] \in History
      /\ db \in History
  BY DEF TypeInv, TypeOK
<1>1. ASSUME NEW p \in Proc, LoadApply(p)
      PROVE  OutcomeInv'
  <2>1. PICK new \in Bytes, strict \in BOOLEAN :
            Load(p, "apply", nextId, new, strict, "read")
    BY <1>1 DEF LoadApply
  <2>2. QED
    BY <2>1, OutcomeLoad DEF Op
<1>2. ASSUME NEW p \in Proc, LoadRevert(p)
      PROVE  OutcomeInv'
  <2>1. PICK i \in DOMAIN db.patches :
            OnTop(db.patches, i) /\ Load(p, "revert", i, <<>>, TRUE, "write")
    BY <1>2 DEF LoadRevert, MayPop, Solo
  <2>2. QED
    BY <2>1, OutcomeLoad DEF Op
<1>3. ASSUME NEW p \in Proc, LoadRedo(p)
      PROVE  OutcomeInv'
  <2>1. PICK j \in DOMAIN db.redo_patches :
            OnTop(db.redo_patches, j) /\ Load(p, "redo", j, <<>>, TRUE, "write")
    BY <1>3 DEF LoadRedo, MayPop, Solo
  <2>2. QED
    BY <2>1, OutcomeLoad DEF Op
<1>4. ASSUME NEW p \in Proc, LoadRevertAll(p)
      PROVE  OutcomeInv'
  <2>1. PICK next \in {"write", "save"} :
            /\ Load(p, "revert_all", 0, <<>>, TRUE, next)
            /\ next = "save" => db.patches = <<>>
    BY <1>4 DEF LoadRevertAll
  <2>2. QED
    BY <2>1, OutcomeLoad DEF Op
<1>5. ASSUME NEW p \in Proc, ApplyWrite(p)
      PROVE  OutcomeInv'
  <2> DEFINE e == [id |-> job[p].at, original_bytes |-> job[p].orig,
                   patched_bytes |-> job[p].new]
  <2>1. /\ pc[p] = "write" /\ job[p].op = "apply" /\ data[p] = db
        /\ WriteBytes(p, job[p].new, Applied(data[p], e), "save")
    BY <1>5 DEF ApplyWrite, WriteBytes, OutcomeInv, OutcomeOf
  <2>2. e \in Entry /\ Covers(e) = DOMAIN job[p].new
    BY <2>1, <1>0, EntryMade DEF JobOK, Covers
  <2> HIDE DEF e
  <2>3. QED
    BY <2>1, <2>2, OutcomeWritten
<1>6. ASSUME NEW p \in Proc, RevertWrite(p)
      PROVE  OutcomeInv'
  <2> DEFINE i == job[p].at
  <2>1. /\ pc[p] = "write" /\ job[p].op = "revert" /\ data[p] = db /\ OnTop(db.patches, i)
        /\ WriteBytes(p, db.patches[i].original_bytes, Reverted(db, i), "save")
    BY <1>6 DEF RevertWrite, WriteBytes, OutcomeInv, OutcomeOf
  <2>2. i \in DOMAIN db.patches
    BY <2>1, <1>0 DEF JobOK
  <2>3. DOMAIN db.patches[i].original_bytes = Covers(db.patches[i])
    BY <2>2, <1>0, RevertedType, EntryFacts
  <2> HIDE DEF i
  <2>4. QED
    BY <2>1, <2>2, <2>3, OutcomeWritten
<1>7. ASSUME NEW p \in Proc, RedoWrite(p)
      PROVE  OutcomeInv'
  <2> DEFINE j == job[p].at
  <2>1. /\ pc[p] = "write" /\ job[p].op = "redo" /\ data[p] = db /\ OnTop(db.redo_patches, j)
        /\ WriteBytes(p, db.redo_patches[j].patched_bytes, Redone(db, j), "save")
    BY <1>7 DEF RedoWrite, WriteBytes, OutcomeInv, OutcomeOf
  <2>2. j \in DOMAIN db.redo_patches
    BY <2>1, <1>0 DEF JobOK
  <2>3. DOMAIN db.redo_patches[j].patched_bytes = Covers(db.redo_patches[j])
    BY DEF Covers
  <2> HIDE DEF j
  <2>4. QED
    BY <2>1, <2>2, <2>3, OutcomeWritten
<1>8. ASSUME NEW p \in Proc, Save(p) \/ SaveRaises(p) \/ OpenRaises(p) \/ Crash(p)
      PROVE  OutcomeInv'
  <2>1. pc[p] # "idle" /\ Exit(p)
    BY <1>8 DEF Save, SaveRaises, OpenRaises, Crash, Abort
  <2>2. \A q \in Proc : pc'[q] = "idle"
    BY <2>1 DEF Exit, CohInv, TypeInv, TypeOK
  <2>3. QED
    BY <2>2, OutcomeIdle
<1>9. CASE Forget \/ PatchBytes \/ RebuildFile
  <2>1. \A q \in Proc : pc'[q] = "idle"
    BY <1>9 DEF Forget, PatchBytes, RebuildFile, ForeignContent, Quiet, Solo
  <2>2. QED
    BY <2>1, OutcomeIdle
<1>10. CASE RemoveFile \/ UNCHANGED vars
  <2>1. UNCHANGED <<db, pc, job, data, dirty>>
    BY <1>10 DEF RemoveFile, vars
  <2>2. ASSUME NEW p \in Proc, OutcomeOf(p)
        PROVE  OutcomeOf(p)'
    <3>1. /\ Peeled(db, data[p])' <=> Peeled(db, data[p])
          /\ OnTop(db.patches, job[p].at)' <=> OnTop(db.patches, job[p].at)
          /\ OnTop(db.redo_patches, job[p].at)' <=> OnTop(db.redo_patches, job[p].at)
      BY <2>1 DEF Peeled, OnTop
    <3>2. /\ \A i : OnTop(db.patches, i)' <=> OnTop(db.patches, i)
          /\ \A j : OnTop(db.redo_patches, j)' <=> OnTop(db.redo_patches, j)
      BY <2>1 DEF OnTop
    <3>3. QED
      BY <2>1, <2>2, <3>1, <3>2 DEF OutcomeOf
  <2>3. QED
    BY <2>1, <2>2 DEF OutcomeInv
<1>11. QED
  BY <1>1, <1>2, <1>3, <1>4, <1>5, <1>6, <1>7, <1>8, <1>9, <1>10, OutcomeRead, OutcomeRevertAll
     DEF Next, Step, DeleteHistory, PurgeMissing

-----------------------------------------------------------------------------
(* The content accounted for is what the stored rows show.                   *)

Accounted == Addr \ (torn \cup lost)

Content == [x \in Accounted |-> IF AllIdle THEN file[x] ELSE Stored(x)]

ContentInv ==
    /\ Content = [x \in Accounted |-> Stored(x)]
    /\ \A x \in Accounted : Stored(x) \in Byte /\ UndoChain(db.patches, x, base[x], Stored(x))

LEMMA ContentIsStored == TypeInv /\ CohInv => ContentInv
<1> SUFFICES ASSUME TypeInv, CohInv PROVE ContentInv
  OBVIOUS
<1>1. db.patches \in Seq(Entry)
  BY DEF TypeInv, TypeOK, History
<1>2. ASSUME NEW x \in Accounted
      PROVE  \E v \in Byte : Explains(db, x, v) /\ (AllIdle => file[x] = v)
  <2>1. x \in Addr \ lost /\ x \notin torn
    BY <1>2 DEF Accounted
  <2>2. CASE AllIdle
    BY <2>1, <2>2 DEF CohInv, Coherent, Accounts, AllIdle
  <2>3. CASE ~AllIdle
    <3>1. PICK p \in Proc : pc[p] # "idle"
      BY <2>3 DEF AllIdle
    <3>2. Accounts(db, torn \cup dirty[p], lost)
      BY <3>1 DEF CohInv, InFlight
    <3>3. QED
      BY <2>1, <2>3, <3>2 DEF Accounts
  <2>4. QED
    BY <2>2, <2>3
<1>3. ASSUME NEW x \in Accounted
      PROVE  /\ Stored(x) \in Byte /\ UndoChain(db.patches, x, base[x], Stored(x))
             /\ AllIdle => file[x] = Stored(x)
  <2>1. PICK v \in Byte : Explains(db, x, v) /\ (AllIdle => file[x] = v)
    BY <1>2
  <2>2. Stored(x) = v
    BY <1>1, <2>1, StoredIs
  <2>3. QED
    BY <2>1, <2>2 DEF Explains
<1>4. QED
  BY <1>3 DEF ContentInv, Content

-----------------------------------------------------------------------------
(* Every step is a step of the editor or a stutter.                          *)

EditorStep == [Editor!HistoryNext]_(Editor!historyVars)

\* Loading, reading and writing: no operation has taken place yet.
LEMMA UnsavedStutters ==
    ASSUME ContentInv, ContentInv', UNCHANGED <<db, base, torn, lost>>
    PROVE  EditorStep
<1>1. \A x : Stored(x)' = Stored(x)
  BY DEF Stored
<1>2. Accounted' = Accounted
  BY DEF Accounted
<1>3. Content' = Content
  BY <1>1, <1>2 DEF ContentInv
<1>4. EditsOf(db.patches)' = EditsOf(db.patches) /\ EditsOf(db.redo_patches)' = EditsOf(db.redo_patches)
  OBVIOUS
<1>5. QED
  BY <1>3, <1>4 DEF EditorStep, Editor!historyVars, Content, Accounted

\* A process that ends before its save: account of what it wrote is lost.
LEMMA AbortLoses ==
    ASSUME ContentInv, ContentInv', NEW p \in Proc, Abort(p)
    PROVE  EditorStep
<1>1. /\ torn' = torn \cup dirty[p] /\ UNCHANGED <<db, lost, base>>
  BY DEF Abort, Exit
<1>2. \A x : Stored(x)' = Stored(x)
  BY <1>1 DEF Stored
<1>3. Accounted' \subseteq Accounted
  BY <1>1 DEF Accounted
<1>4. Content' = [x \in Accounted' |-> Content[x]] /\ DOMAIN Content = Accounted
  BY <1>2, <1>3 DEF ContentInv
<1>5. Editor!LoseAccount
  BY <1>1, <1>3, <1>4 DEF Editor!LoseAccount, Content, Accounted
<1>6. QED
  BY <1>5 DEF EditorStep, Editor!HistoryNext

\* The instance has its own copies of the library's operators.
LEMMA SameOperators ==
    /\ \A s, i : Editor!RemoveAt(s, i) = RemoveAt(s, i)
    /\ \A s : Editor!Reverse(s) = Reverse(s)
  BY DEF Editor!RemoveAt, RemoveAt, Editor!Reverse, Reverse

\* What a save leaves for each operation: the content afterwards, in terms of
\* the stored rows, and the addresses account is regained of.
Gained(p) == (torn \cap dirty[p]) \ lost

LEMMA SavedContent ==
    ASSUME ContentInv, ContentInv', TypeInv, NEW p \in Proc, Save(p)
    PROVE  /\ base' = base /\ db' = data[p]
           /\ job[p].op = "apply" => Accounted' = Accounted
           /\ job[p].op # "apply" => Accounted' = Accounted \cup Gained(p)
           /\ DOMAIN Content = Accounted
           /\ Content' = [x \in Accounted' |-> Stored(x)']
           /\ Gained(p) \subseteq dirty[p] /\ Gained(p) \subseteq Addr
<1>1. /\ base' = base /\ db' = data[p] /\ torn' = torn \ dirty[p]
      /\ lost' = lost \cup (IF job[p].op = "apply" THEN torn \cap dirty[p] ELSE {})
      /\ torn \subseteq Addr /\ lost \subseteq Addr
  BY DEF Save, Exit, LostBy, TypeInv, TypeOK
<1>2. job[p].op = "apply" => Accounted' = Accounted
  BY <1>1 DEF Accounted
<1>3. job[p].op # "apply" => Accounted' = Accounted \cup Gained(p)
  BY <1>1 DEF Accounted, Gained
<1>4. QED
  BY <1>1, <1>2, <1>3 DEF Gained, Content, ContentInv

\* After a save, content shows what the new rows show.
LEMMA SavedShown ==
    ASSUME ContentInv', TypeInv', base' = base, NEW x \in Accounted'
    PROVE  /\ Stored(x)' = Editor!Shown(EditsOf(db'.patches), x)
           /\ Editor!Shows(EditsOf(db'.patches), x, Stored(x)')
<1>1. db'.patches \in Seq(Entry)
  BY DEF TypeInv, TypeOK, History
<1>2. Stored(x)' \in Byte /\ UndoChain(db'.patches, x, base[x], Stored(x)')
  BY DEF ContentInv
<1>3. QED
  BY <1>1, <1>2, ShownIs, ChainShows

LEMMA SaveApplies ==
    ASSUME ContentInv, ContentInv', TypeInv, TypeInv', NEW p \in Proc, Save(p),
           job[p].op = "apply", NEW e \in Entry, data[p] = Applied(db, e)
    PROVE  EditorStep
<1> DEFINE d == [id |-> e.id, bytes |-> e.patched_bytes]
<1>1. /\ base' = base /\ Accounted' = Accounted /\ DOMAIN Content = Accounted
      /\ Content' = [x \in Accounted' |-> Stored(x)']
      /\ db'.patches = Append(db.patches, e) /\ db'.redo_patches = <<>>
      /\ db.patches \in Seq(Entry)
  BY SavedContent DEF Applied, TypeInv, TypeOK, History
<1>2. d \in [id : Id, bytes : Bytes] /\ d.bytes = e.patched_bytes
      /\ \A x : Editor!Touches(d, x) <=> x \in Covers(e)
  BY EntryFacts DEF Editor!Touches, Covers
<1>3. /\ EditsOf(db.patches)' = Append(EditsOf(db.patches), d)
      /\ EditsOf(db.redo_patches)' = <<>>
  BY <1>1, EditsAppend, EditsEmpty
<1>4. ASSUME NEW x \in Accounted
      PROVE  Stored(x)' = IF x \in Covers(e) THEN e.patched_bytes[x] ELSE Content[x]
  <2>1. Content[x] = Stored(x) /\ Editor!Shows(EditsOf(db.patches), x, Stored(x))
    BY <1>1, ChainShows DEF ContentInv
  <2>2. Editor!Shows(EditsOf(Append(db.patches, e)), x,
                     IF x \in Covers(e) THEN e.patched_bytes[x] ELSE Stored(x))
    BY <1>1, <2>1, ShowsPush
  <2>3. Editor!Shows(EditsOf(Append(db.patches, e)), x, Stored(x)')
    BY <1>1, SavedShown
  <2>4. Append(db.patches, e) \in Seq(Entry)
    BY <1>1, AppendFacts
  <2>5. QED
    BY <2>1, <2>2, <2>3, <2>4, ShowsOne
<1> HIDE DEF d
<1>5. Content' = [x \in DOMAIN Content |-> IF Editor!Touches(d, x) THEN d.bytes[x] ELSE Content[x]]
  BY <1>1, <1>2, <1>4
<1>6. EditsOf(db.patches)' # EditsOf(db.patches)
  <2>1. DOMAIN EditsOf(db.patches) = 1..Len(db.patches) /\ Len(db.patches) \in Nat
    BY <1>1, EditsFacts
  <2>2. Append(db.patches, e) \in Seq(Entry) /\ Len(Append(db.patches, e)) = Len(db.patches) + 1
    BY <1>1
  <2>3. DOMAIN EditsOf(Append(db.patches, e)) = 1..(Len(db.patches) + 1)
    BY <2>2, EditsFacts
  <2>4. EditsOf(db.patches)' = EditsOf(Append(db.patches, e))
    BY <1>1 DEF EditsOf
  <2>5. Len(db.patches) + 1 \in 1..(Len(db.patches) + 1) /\ Len(db.patches) + 1 \notin 1..Len(db.patches)
    BY <2>1
  <2>6. QED
    BY <2>1, <2>3, <2>4, <2>5
<1>7. Editor!Apply
  BY <1>1, <1>2, <1>3, <1>5, <1>6 DEF Editor!Apply, Content, Accounted
<1>8. QED
  BY <1>7 DEF EditorStep, Editor!HistoryNext

\* Nothing above a row that is on top shares an address with its edit.
LEMMA OnTopFree ==
    ASSUME NEW s \in Seq(Entry), NEW i \in DOMAIN s, OnTop(s, i)
    PROVE  i \in DOMAIN EditsOf(s) /\ Editor!Free(EditsOf(s), i)
<1>1. /\ DOMAIN EditsOf(s) = DOMAIN s
      /\ \A k \in DOMAIN s : \A x : Editor!Touches(EditsOf(s)[k], x) <=> x \in Covers(s[k])
  BY EditsFacts
<1>2. QED
  BY <1>1 DEF OnTop, Editor!Free

LEMMA SaveUndoes ==
    ASSUME ContentInv, ContentInv', TypeInv, TypeInv', NEW p \in Proc, Save(p),
           job[p].op = "revert", NEW i \in DOMAIN db.patches, OnTop(db.patches, i),
           data[p] = Reverted(db, i), dirty[p] = Covers(db.patches[i])
    PROVE  EditorStep
<1>0. /\ Gained(p) \subseteq Covers(db.patches[i]) /\ db' = Reverted(db, i)
      /\ base' = base /\ Accounted' = Accounted \cup Gained(p) /\ DOMAIN Content = Accounted
      /\ Content' = [x \in Accounted' |-> Stored(x)']
  BY SavedContent
<1>1. /\ db'.patches = RemoveAt(db.patches, i)
      /\ db'.redo_patches = Append(db.redo_patches, db.patches[i])
      /\ db.patches \in Seq(Entry) /\ db.redo_patches \in Seq(Entry) /\ db.patches[i] \in Entry
  BY <1>0 DEF Reverted, TypeInv, TypeOK, History
<1>2. /\ i \in DOMAIN EditsOf(db.patches) /\ Editor!Free(EditsOf(db.patches), i)
      /\ EditsOf(db.patches)[i] = [id |-> db.patches[i].id, bytes |-> db.patches[i].patched_bytes]
      /\ DOMAIN EditsOf(db.patches)[i].bytes = Covers(db.patches[i])
  BY <1>1, OnTopFree, EditsFacts DEF Covers
<1>3. EditsOf(db.patches)' = RemoveAt(EditsOf(db.patches), i)
  BY <1>1, EditsRemoveAt
<1>4. EditsOf(db.redo_patches)' = Append(EditsOf(db.redo_patches), EditsOf(db.patches)[i])
  BY <1>1, <1>2, EditsAppend
<1>5. Content' = [x \in DOMAIN Content \cup Gained(p) |-> Editor!Shown(EditsOf(db'.patches), x)]
  BY <1>0, SavedShown
<1>6. Gained(p) \in SUBSET DOMAIN EditsOf(db.patches)[i].bytes
  BY <1>0, <1>2
<1>7. \E gained \in SUBSET DOMAIN EditsOf(db.patches)[i].bytes :
          Content' = [x \in DOMAIN Content \cup gained |-> Editor!Shown(EditsOf(db'.patches), x)]
  BY <1>5, <1>6
<1>8. EditsOf(db.patches)' = Editor!RemoveAt(EditsOf(db.patches), i)
  BY <1>3, SameOperators, Zenon
<1>9. Editor!Undo
  BY <1>0, <1>2, <1>4, <1>7, <1>8, Zenon
     DEF Editor!Undo, Editor!ShowEdits, Content, Accounted
<1>10. QED
  BY <1>9 DEF EditorStep, Editor!HistoryNext

LEMMA SaveRedoes ==
    ASSUME ContentInv, ContentInv', TypeInv, TypeInv', NEW p \in Proc, Save(p),
           job[p].op = "redo", NEW j \in DOMAIN db.redo_patches, OnTop(db.redo_patches, j),
           data[p] = Redone(db, j), dirty[p] = Covers(db.redo_patches[j])
    PROVE  EditorStep
<1>0. /\ Gained(p) \subseteq Covers(db.redo_patches[j]) /\ db' = Redone(db, j)
      /\ base' = base /\ Accounted' = Accounted \cup Gained(p) /\ DOMAIN Content = Accounted
      /\ Content' = [x \in Accounted' |-> Stored(x)']
  BY SavedContent
<1>1. /\ db'.patches = Append(db.patches, db.redo_patches[j])
      /\ db'.redo_patches = RemoveAt(db.redo_patches, j)
      /\ db.patches \in Seq(Entry) /\ db.redo_patches \in Seq(Entry)
      /\ db.redo_patches[j] \in Entry
  BY <1>0 DEF Redone, TypeInv, TypeOK, History
<1>2. /\ j \in DOMAIN EditsOf(db.redo_patches) /\ Editor!Free(EditsOf(db.redo_patches), j)
      /\ EditsOf(db.redo_patches)[j] =
            [id |-> db.redo_patches[j].id, bytes |-> db.redo_patches[j].patched_bytes]
      /\ DOMAIN EditsOf(db.redo_patches)[j].bytes = Covers(db.redo_patches[j])
  BY <1>1, OnTopFree, EditsFacts DEF Covers
<1>3. EditsOf(db.redo_patches)' = RemoveAt(EditsOf(db.redo_patches), j)
  BY <1>1, EditsRemoveAt
<1>4. EditsOf(db.patches)' = Append(EditsOf(db.patches), EditsOf(db.redo_patches)[j])
  BY <1>1, <1>2, EditsAppend
<1>5. Content' = [x \in DOMAIN Content \cup Gained(p) |-> Editor!Shown(EditsOf(db'.patches), x)]
  BY <1>0, SavedShown
<1>6. Gained(p) \in SUBSET DOMAIN EditsOf(db.redo_patches)[j].bytes
  BY <1>0, <1>2
<1>7. \E gained \in SUBSET DOMAIN EditsOf(db.redo_patches)[j].bytes :
          Content' = [x \in DOMAIN Content \cup gained |-> Editor!Shown(EditsOf(db'.patches), x)]
  BY <1>5, <1>6
<1>8. EditsOf(db.redo_patches)' = Editor!RemoveAt(EditsOf(db.redo_patches), j)
  BY <1>3, SameOperators, Zenon
<1>9. Editor!Redo
  BY <1>0, <1>2, <1>4, <1>7, <1>8, Zenon
     DEF Editor!Redo, Editor!ShowEdits, Content, Accounted
<1>10. QED
  BY <1>9 DEF EditorStep, Editor!HistoryNext

LEMMA SaveUndoesAll ==
    ASSUME ContentInv, ContentInv', TypeInv, TypeInv', NEW p \in Proc, Save(p),
           job[p].op = "revert_all", Peeled(db, data[p]), data[p].patches = <<>>
    PROVE  EditorStep
<1>1. /\ base' = base /\ Accounted' = Accounted \cup Gained(p) /\ DOMAIN Content = Accounted
      /\ Content' = [x \in Accounted' |-> Stored(x)'] /\ Gained(p) \in SUBSET Addr
      /\ db' = data[p] /\ db \in History /\ data[p] \in History
  BY SavedContent DEF TypeInv, TypeOK
<1>2. EditsOf(db.patches)' = <<>>
  BY <1>1, EditsEmpty
<1>3. EditsOf(db.redo_patches)' = EditsOf(db.redo_patches) \o Reverse(EditsOf(db.patches))
  BY <1>1, PeeledAll
<1>4. \A x \in Accounted' : Stored(x)' = base[x]
  <2>1. \A x \in Accounted' : UndoChain(<<>>, x, base[x], Stored(x)')
    BY <1>1 DEF ContentInv
  <2>2. QED
    BY <2>1 DEF UndoChain
<1>5. Content' = [x \in DOMAIN Content \cup Gained(p) |-> base[x]]
  BY <1>1, <1>4
<1>6. \E gained \in SUBSET Addr :
          Content' = [x \in DOMAIN Content \cup gained |-> base[x]]
  BY <1>1, <1>5
<1>7. Editor!UndoAll
  BY <1>1, <1>2, <1>3, <1>6, SameOperators DEF Editor!UndoAll, Content, Accounted
<1>8. QED
  BY <1>7 DEF EditorStep, Editor!HistoryNext

LEMMA SaveMaps ==
    ASSUME ContentInv, ContentInv', TypeInv, TypeInv', OutcomeInv, NEW p \in Proc, Save(p)
    PROVE  EditorStep
<1>1. pc[p] = "save" /\ OutcomeOf(p) /\ job[p].op \in Op
  BY DEF Save, OutcomeInv, TypeInv, TypeOK, Job
<1>2. CASE job[p].op = "apply"
  BY <1>1, <1>2, SaveApplies DEF OutcomeOf
<1>3. CASE job[p].op = "revert"
  BY <1>1, <1>3, SaveUndoes DEF OutcomeOf
<1>4. CASE job[p].op = "redo"
  BY <1>1, <1>4, SaveRedoes DEF OutcomeOf
<1>5. CASE job[p].op = "revert_all"
  BY <1>1, <1>5, SaveUndoesAll DEF OutcomeOf
<1>6. QED
  BY <1>1, <1>2, <1>3, <1>4, <1>5 DEF Op, OutcomeOf

-----------------------------------------------------------------------------
(* Whole-history operations and the file's owner, between operations.        *)

LEMMA ForgetMaps ==
    ASSUME Solo, TypeInv, TypeInv', Forget
    PROVE  EditorStep
<1>1. /\ AllIdle /\ pc' = pc /\ file' = file /\ base' = file /\ torn' = {} /\ lost' = {}
      /\ db' = NoHistory /\ file \in [Addr -> Byte]
  BY DEF Forget, Quiet, Solo, AllIdle, TypeInv, TypeOK
<1>2. AllIdle' /\ Accounted' = Addr
  BY <1>1 DEF AllIdle, Accounted
<1>3. Content' = base' /\ base' \in [Addr -> Byte]
  BY <1>1, <1>2 DEF Content
<1>4. /\ DOMAIN Content = Accounted /\ Accounted \subseteq Addr
      /\ \A x \in DOMAIN Content : base'[x] = Content[x]
  BY <1>1 DEF Content, Accounted
<1>5. EditsOf(db.patches)' = <<>> /\ EditsOf(db.redo_patches)' = <<>>
  BY <1>1, EditsEmpty DEF NoHistory
<1>6. Editor!ForgetAll
  BY <1>3, <1>4, <1>5 DEF Editor!ForgetAll, Content, Accounted
<1>7. QED
  BY <1>6 DEF EditorStep, Editor!HistoryNext

LEMMA ForeignMaps ==
    ASSUME Solo, TypeInv, TypeInv', NEW content \in [Addr -> Byte], ForeignContent(content)
    PROVE  EditorStep
<1>1. /\ AllIdle /\ pc' = pc /\ file' = content /\ db' = db /\ file \in [Addr -> Byte]
      /\ AllIdle'
  BY DEF ForeignContent, Quiet, Solo, AllIdle, TypeInv, TypeOK
<1>2. EditsOf(db.patches)' = EditsOf(db.patches) /\ EditsOf(db.redo_patches)' = EditsOf(db.redo_patches)
  BY <1>1
<1>3. CASE db = NoHistory
  <2>1. base' = content /\ torn' = {} /\ lost' = {}
    BY <1>3 DEF ForeignContent
  <2>2. EditsOf(db.patches) = <<>> /\ EditsOf(db.redo_patches) = <<>>
    BY <1>3, EditsEmpty DEF NoHistory
  <2>3. Accounted' = Addr
    BY <2>1 DEF Accounted
  <2>4. Content' = base' /\ base' \in [Addr -> Byte]
    BY <1>1, <2>1, <2>3 DEF Content
  <2>5. Editor!Renew
    BY <1>2, <2>2, <2>4 DEF Editor!Renew, Content, Accounted
  <2>6. QED
    BY <2>5 DEF EditorStep, Editor!HistoryNext
<1>4. CASE db # NoHistory
  <2>1. /\ torn' = torn \cup {x \in Addr : content[x] # file[x]} /\ base' = base /\ lost' = lost
    BY <1>4 DEF ForeignContent
  <2>2. /\ Accounted' \subseteq Accounted
        /\ \A x \in Accounted' : file'[x] = file[x]
    BY <1>1, <2>1 DEF Accounted
  <2>3. Content' = [x \in Accounted' |-> Content[x]] /\ DOMAIN Content = Accounted
    BY <1>1, <2>2 DEF Content
  <2>4. Editor!LoseAccount
    BY <1>2, <2>1, <2>2, <2>3 DEF Editor!LoseAccount, Content, Accounted
  <2>5. QED
    BY <2>4 DEF EditorStep, Editor!HistoryNext
<1>5. QED
  BY <1>3, <1>4

LEMMA InitMaps == Init => Editor!HistoryInit
<1> SUFFICES ASSUME Init PROVE Editor!HistoryInit
  OBVIOUS
<1>1. AllIdle /\ Accounted = Addr /\ file \in [Addr -> Byte] /\ base = file /\ db = NoHistory
  BY DEF Init, AllIdle, Accounted
<1>2. Content = base
  BY <1>1 DEF Content
<1>3. EditsOf(db.patches) = <<>> /\ EditsOf(db.redo_patches) = <<>>
  BY <1>1, EditsEmpty DEF NoHistory
<1>4. QED
  BY <1>1, <1>2, <1>3 DEF Editor!HistoryInit, Content, Accounted

LEMMA StepMaps ==
    ASSUME Solo, TypeInv, TypeInv', ContentInv, ContentInv', OutcomeInv, [Next]_vars
    PROVE  EditorStep
<1>1. ASSUME NEW p \in Proc,
             \/ LoadApply(p) \/ LoadRevert(p) \/ LoadRedo(p) \/ LoadRevertAll(p)
             \/ ReadOriginal(p) \/ ApplyWrite(p) \/ RevertWrite(p) \/ RedoWrite(p)
             \/ RevertAllWrite(p)
      PROVE  EditorStep
  <2>1. UNCHANGED <<db, base, torn, lost>>
    BY <1>1 DEF LoadApply, LoadRevert, LoadRedo, LoadRevertAll, Load, ReadOriginal,
               ApplyWrite, RevertWrite, RedoWrite, RevertAllWrite, WriteBytes
  <2>2. QED
    BY <2>1, UnsavedStutters
<1>2. ASSUME NEW p \in Proc, Save(p) PROVE EditorStep
  BY <1>2, SaveMaps
<1>3. ASSUME NEW p \in Proc, SaveRaises(p) \/ OpenRaises(p) \/ Crash(p) PROVE EditorStep
  BY <1>3, AbortLoses DEF SaveRaises, OpenRaises, Crash
<1>4. CASE Forget
  BY <1>4, ForgetMaps
<1>5. CASE PatchBytes
  <2>1. PICK raw \in Bytes : ForeignContent(Overlay(file, raw))
    BY <1>5 DEF PatchBytes
  <2>2. Overlay(file, raw) \in [Addr -> Byte]
    BY OverlayFacts DEF TypeInv, TypeOK
  <2>3. QED
    BY <2>1, <2>2, ForeignMaps
<1>6. CASE RebuildFile
  BY <1>6, ForeignMaps DEF RebuildFile
<1>7. CASE RemoveFile \/ UNCHANGED vars
  <2>1. UNCHANGED <<db, base, torn, lost>>
    BY <1>7 DEF RemoveFile, vars
  <2>2. QED
    BY <2>1, UnsavedStutters
<1>8. QED
  BY <1>1, <1>2, <1>3, <1>4, <1>5, <1>6, <1>7
     DEF Next, Step, DeleteHistory, PurgeMissing

LEMMA OutcomeInit == Init => OutcomeInv
  BY DEF Init, OutcomeInv

(* One operation at a time and undone from the top, patch_manager.py shows   *)
(* its user an editor whose operations happen at once: whatever process dies *)
(* and whoever else writes the file, every byte nobody else touched is what  *)
(* the edits in force say it is.                                             *)
THEOREM PatchesImplementEditor == Solo => (Spec => ImplementsEditor)
<1>1. ASSUME Solo PROVE Spec => ImplementsEditor
  <2>1. TypeInv /\ CohInv /\ [Next]_vars => CohInv'
    BY <1>1, CohStep
  <2>2. TypeInv /\ CohInv /\ OutcomeInv /\ [Next]_vars => OutcomeInv'
    BY <1>1, OutcomeStep
  <2>3. /\ TypeInv /\ TypeInv' /\ ContentInv /\ ContentInv' /\ OutcomeInv /\ [Next]_vars
           => [Editor!HistoryNext]_(Editor!historyVars)
    BY <1>1, StepMaps DEF EditorStep
  <2>4. QED
    BY TypeInit, TypeStep, CohInit, <2>1, OutcomeInit, <2>2, ContentIsStored, InitMaps, <2>3, PTL
       DEF Spec, ImplementsEditor, Editor!HistorySpec
<1>2. QED
  BY <1>1
=============================================================================
