---------------------------- MODULE LinkedListProofs ----------------------------
(***************************************************************************)
(* The linked list, for any number of cells and any data: its pointers are *)
(* always those of a doubly linked list that loses no node, and with it    *)
(* the operations are those of a sequence.                                 *)
(*                                                                         *)
(* The invariant names the nodes in the order of the list: a way f is an   *)
(* infinite sequence of n different cells with NULL behind them, and       *)
(* Listing says that the pointers lead along it.  Adding appends a cell to *)
(* the way, removing the node at k leaves it out (Without), and the four   *)
(* cases of removeNode write the same two links where both exist.          *)
(***************************************************************************)
EXTENDS LinkedList, Recursion, FiniteSetTheorems, SequenceTheorems

N == Cardinality(Cells)
Pointer == Cells \cup {NULL, Junk}

Way(n, f) ==
    /\ n \in Nat
    /\ f \in [Nat -> Cells \cup {NULL}]
    /\ \A i \in Nat : IF i < n THEN f[i] \in Cells ELSE f[i] = NULL
    /\ \A i, j \in 0 .. n - 1 : f[i] = f[j] => i = j

Before(f, i) == IF i = 0 THEN NULL ELSE f[i - 1]
Nodes(n, f) == {f[i] : i \in 0 .. n - 1}

Linked(n, f, next, prev) ==
    \A i \in 0 .. n - 1 : next[f[i]] = f[i + 1] /\ prev[f[i]] = Before(f, i)

Listing(n, fr, en, next, prev, da, lv, f) ==
    /\ Way(n, f)
    /\ fr = f[0] /\ en = Before(f, n)
    /\ Linked(n, f, next, prev)
    /\ lv = Nodes(n, f)
    /\ \A i \in 0 .. n - 1 : da[f[i]] \in Data

Linkage ==
    /\ {nextNode, prevNode} \subseteq [Cells -> Pointer]
    /\ data \in [Cells -> Data \cup {Junk}]

Lists(f) == Listing(items, front, end, nextNode, prevNode, data, live, f)
ListsNext(f) == Listing(items', front', end', nextNode', prevNode', data', live', f)

(* The inductive invariant.                                                *)
LInv == Linkage /\ \E f : Lists(f)
-----------------------------------------------------------------------------
LEMMA NullIsNoCell == NULL \notin Cells /\ NULL \notin Data /\ Junk \notin Cells
BY ListAssumption

LEMMA CellsAreFinite == IsFiniteSet(Cells) /\ N \in Nat
BY ListAssumption, FS_CardinalityType DEF N

(* A way is no longer than there are cells, and its nodes are as many.     *)
LEMMA WayFits ==
    ASSUME NEW n, NEW f, Way(n, f)
    PROVE  n <= N /\ Cardinality(Nodes(n, f)) = n
<1> DEFINE T == Nodes(n, f)
           b == [i \in 1 .. n |-> f[i - 1]]
<1>1. n \in Nat
  BY DEF Way
<1>2. T \in SUBSET Cells
  BY DEF Way, Nodes
<1>3. b \in [1 .. n -> T]
  BY <1>1 DEF Nodes
<1>4. b \in Bijection(1 .. n, T)
  <2>1. \A i, j \in 1 .. n : b[i] = b[j] => i = j
    BY <1>1 DEF Way
  <2>2. \A t \in T : \E i \in 1 .. n : b[i] = t
    <3> SUFFICES ASSUME NEW k \in 0 .. n - 1 PROVE \E i \in 1 .. n : b[i] = f[k]
      BY DEF Nodes
    <3>1. k + 1 \in 1 .. n /\ b[k + 1] = f[k]
      BY <1>1
    <3> QED
      BY <3>1
  <2> HIDE DEF b, T
  <2> QED
    BY <1>3, <2>1, <2>2 DEF Bijection, Injection, Surjection, IsInjective
<1> HIDE DEF b
<1>5. IsFiniteSet(1 .. n) /\ Cardinality(1 .. n) = n
  BY <1>1, FS_Interval
<1>6. Cardinality(T) = n
  BY <1>4, <1>5, FS_Bijection DEF ExistsBijection
<1>7. Cardinality(T) <= N
  <2> HIDE DEF T
  <2> QED
    BY <1>2, CellsAreFinite, FS_Subset DEF N
<1> QED
  BY <1>6, <1>7

(* A walk along the links of a way takes its nodes one by one.             *)
WalkRun(w, first, link) ==
    w = [i \in 0 .. N |-> IF i = 0 THEN first
                          ELSE IF w[i - 1] \in Cells THEN link[w[i - 1]] ELSE w[i - 1]]

LEMMA WalkIs ==
    ASSUME NEW n, NEW f, Way(n, f), NEW link, \A i \in 0 .. n - 1 : link[f[i]] = f[i + 1]
    PROVE  /\ \A i \in 0 .. N : Walk(f[0], link)[i] = f[i]
           /\ DOMAIN Walk(f[0], link) = 0 .. N
<1> DEFINE h == [i \in 0 .. N |-> f[i]]
<1>0. N \in Nat /\ n \in Nat
  BY CellsAreFinite DEF Way
<1>1. \A i \in 1 .. N : f[i] = IF f[i - 1] \in Cells THEN link[f[i - 1]] ELSE f[i - 1]
  <2> SUFFICES ASSUME NEW i \in 1 .. N
               PROVE  f[i] = IF f[i - 1] \in Cells THEN link[f[i - 1]] ELSE f[i - 1]
    OBVIOUS
  <2>1. i - 1 \in Nat /\ i \in Nat
    BY <1>0
  <2>2. CASE i - 1 < n
    <3>1. i - 1 \in 0 .. n - 1 /\ (i - 1) + 1 = i
      BY <1>0, <2>1, <2>2
    <3>2. f[i - 1] \in Cells
      BY <2>1, <2>2 DEF Way
    <3> QED
      BY <3>1, <3>2
  <2>3. CASE ~(i - 1 < n)
    <3>1. f[i - 1] = NULL /\ f[i] = NULL
      BY <1>0, <2>1, <2>3 DEF Way
    <3> QED
      BY <3>1, NullIsNoCell
  <2> QED
    BY <2>2, <2>3
<1>2. WalkRun(h, f[0], link)
  <2>1. \A i \in 0 .. N : h[i] = IF i = 0 THEN f[0]
                                 ELSE IF h[i - 1] \in Cells THEN link[h[i - 1]] ELSE h[i - 1]
    BY <1>0, <1>1
  <2>2. h = [i \in 0 .. N |-> h[i]]
    OBVIOUS
  <2> HIDE DEF h
  <2> QED
    BY <2>1, <2>2, Zenon DEF WalkRun
<1> HIDE DEF h
<1> DEFINE w == CHOOSE w : WalkRun(w, f[0], link)
<1>3. WalkRun(w, f[0], link)
  BY <1>2
<1>4. Walk(f[0], link) = w
  BY DEF Walk, WalkRun, N
<1> HIDE DEF w
<1>5. \A i \in 0 .. N : w[i] = IF i = 0 THEN f[0]
                               ELSE IF w[i - 1] \in Cells THEN link[w[i - 1]] ELSE w[i - 1]
  BY <1>3 DEF WalkRun
<1> DEFINE S == {i \in 0 .. N : w[i] = f[i]}
<1>9. DOMAIN w = 0 .. N
  BY <1>3 DEF WalkRun
<1>6. 0 \in S
  BY <1>0, <1>5
<1>7. \A i \in 1 .. N : i - 1 \in S => i \in S
  BY <1>0, <1>1, <1>5
<1>8. 0 .. N \subseteq S
  <2> HIDE DEF S
  <2> QED
    BY <1>0, <1>6, <1>7, UpTo
<1> QED
  BY <1>4, <1>8, <1>9

LEMMA WayValues ==
    ASSUME NEW n, NEW f, Way(n, f)
    PROVE  /\ n \in Nat
           /\ \A i \in 0 .. n - 1 : f[i] \in Cells /\ f[i] # NULL
           /\ \A i \in Nat : i >= n => f[i] = NULL
           /\ \A i, j \in 0 .. n - 1 : f[i] = f[j] => i = j
  BY NullIsNoCell DEF Way

-----------------------------------------------------------------------------
(* What the functions that search return.                                  *)
LEMMA ForwardIs ==
    ASSUME NEW f, Lists(f)
    PROVE  /\ items \in Nat /\ items <= N
           /\ \A i \in 0 .. N : Forward[i] = f[i]
           /\ DOMAIN Forward = 0 .. N
<1>1. Way(items, f) /\ front = f[0] /\ \A i \in 0 .. items - 1 : nextNode[f[i]] = f[i + 1]
  BY DEF Lists, Listing, Linked
<1>2. /\ \A i \in 0 .. N : Walk(f[0], nextNode)[i] = f[i]
      /\ DOMAIN Walk(f[0], nextNode) = 0 .. N
  BY <1>1, WalkIs
<1>3. items \in Nat /\ items <= N
  BY <1>1, WayFits, WayValues
<1>4. Forward = Walk(f[0], nextNode)
  BY <1>1 DEF Forward
<1> QED
  BY <1>2, <1>3, <1>4

LEMMA ByIndex ==
    ASSUME NEW f, Lists(f),
           NEW k \in 0 .. items - 1
    PROVE  getNodeByIndex(k) = f[k]
<1>1. k \in 0 .. N /\ ~(k >= items)
  BY ForwardIs, CellsAreFinite
<1> QED
  BY <1>1, ForwardIs DEF getNodeByIndex

(* The node of the first element with this data, NULL if there is none.    *)
LEMMA ByData ==
    ASSUME NEW f, Lists(f), NEW d
    PROVE  \/ /\ \A i \in 0 .. items - 1 : data[f[i]] # d
              /\ getNodeByData(d) = NULL
           \/ \E k \in 0 .. items - 1 :
                /\ data[f[k]] = d /\ \A i \in 0 .. k - 1 : data[f[i]] # d
                /\ getNodeByData(d) = f[k] /\ f[k] # NULL
<1> DEFINE hits == {i \in DOMAIN Forward : Forward[i] \in Cells /\ data[Forward[i]] = d}
           here == {i \in 0 .. items - 1 : data[f[i]] = d}
<1>0. Way(items, f)
  BY DEF Lists, Listing
<1>1. items \in Nat /\ items <= N /\ N \in Nat
  BY ForwardIs, CellsAreFinite
<1>2. DOMAIN Forward = 0 .. N
  BY ForwardIs
<1>3. hits = here
  <2>1. \A i \in 0 .. N : Forward[i] = f[i]
    BY ForwardIs
  <2>2. \A i \in 0 .. N : f[i] \in Cells <=> i \in 0 .. items - 1
    BY <1>0, <1>1, NullIsNoCell DEF Way
  <2> QED
    BY <1>1, <1>2, <2>1, <2>2
<1>4. getNodeByData(d) = IF here = {} THEN NULL ELSE Forward[Found(here)]
  BY <1>3 DEF getNodeByData
<1>5. CASE here = {}
  BY <1>4, <1>5
<1>6. CASE here # {}
  <2>1. here \in SUBSET Nat
    BY <1>1
  <2>2. \E i \in here : \A j \in here : i <= j
    <3> HIDE DEF here
    <3> QED
      BY <1>6, <2>1, Smallest
  <2> DEFINE k == Found(here)
  <2>3. k \in here /\ \A j \in here : k <= j
    <3> HIDE DEF here
    <3> QED
      BY <2>2 DEF Found
  <2> HIDE DEF k
  <2>4. k \in 0 .. items - 1 /\ data[f[k]] = d
    BY <2>3
  <2>5. \A i \in 0 .. k - 1 : data[f[i]] # d
    <3> SUFFICES ASSUME NEW i \in 0 .. k - 1, data[f[i]] = d PROVE FALSE
      OBVIOUS
    <3>1. i \in 0 .. items - 1 /\ ~(k <= i)
      BY <1>1, <2>4
    <3> QED
      BY <2>3, <3>1
  <2>6. Forward[k] = f[k] /\ f[k] # NULL
    <3>1. k \in 0 .. N
      BY <1>1, <2>4
    <3> QED
      BY <1>0, <2>4, <3>1, ForwardIs, WayValues
  <2>7. getNodeByData(d) = f[k]
    BY <1>4, <1>6, <2>6 DEF k
  <2> QED
    BY <2>4, <2>5, <2>6, <2>7
<1> QED
  BY <1>5, <1>6

(* What the properties say of a listing.                                   *)
Datas(n, da, f) == [i \in 1 .. n |-> da[f[i - 1]]]

LEMMA ContentsIs ==
    ASSUME NEW f, Lists(f)
    PROVE  Contents = Datas(items, data, f)
<1>1. \A i \in 1 .. items : Forward[i - 1] = f[i - 1]
  <2> SUFFICES ASSUME NEW i \in 1 .. items PROVE Forward[i - 1] = f[i - 1]
    OBVIOUS
  <2>1. i - 1 \in 0 .. N
    BY ForwardIs, CellsAreFinite
  <2> QED
    BY <2>1, ForwardIs
<1> QED
  BY <1>1 DEF Contents, Datas

(* The way back is a way as well.                                          *)
Back(n, f) == [i \in Nat |-> IF i < n THEN f[n - 1 - i] ELSE NULL]

LEMMA BackIsWay ==
    ASSUME NEW n, NEW f, Way(n, f), NEW next, NEW prev, Linked(n, f, next, prev)
    PROVE  /\ Way(n, Back(n, f)) /\ Back(n, f)[0] = Before(f, n)
           /\ \A i \in 0 .. n - 1 : prev[Back(n, f)[i]] = Back(n, f)[i + 1]
<1> DEFINE g == Back(n, f)
<1>1. n \in Nat
  BY DEF Way
<1>2. \A i \in Nat : g[i] = IF i < n THEN f[n - 1 - i] ELSE NULL
  BY DEF Back
<1>3. \A i \in 0 .. n - 1 : g[i] = f[n - 1 - i] /\ n - 1 - i \in 0 .. n - 1
  BY <1>1, <1>2
<1>4. Way(n, g)
  <2>1. \A i \in Nat : IF i < n THEN g[i] \in Cells ELSE g[i] = NULL
    BY <1>1, <1>2, <1>3, WayValues
  <2>2. g \in [Nat -> Cells \cup {NULL}]
    <3>1. g = [i \in Nat |-> g[i]]
      BY DEF Back
    <3> HIDE DEF g
    <3> QED
      BY <2>1, <3>1
  <2>3. ASSUME NEW i \in 0 .. n - 1, NEW j \in 0 .. n - 1, g[i] = g[j] PROVE i = j
    <3>1. n - 1 - i = n - 1 - j
      BY <1>3, <2>3, WayValues
    <3> QED
      BY <1>1, <3>1
  <2> HIDE DEF g
  <2> QED
    BY <1>1, <2>1, <2>2, <2>3 DEF Way
<1>5. g[0] = Before(f, n)
  BY <1>1, <1>2, WayValues DEF Before
<1>6. ASSUME NEW i \in 0 .. n - 1 PROVE prev[g[i]] = g[i + 1]
  <2>1. prev[g[i]] = Before(f, n - 1 - i)
    BY <1>3 DEF Linked
  <2>2. CASE i = n - 1
    <3>1. n - 1 - i = 0 /\ i + 1 \in Nat /\ ~(i + 1 < n)
      BY <1>1, <2>2
    <3>2. g[i + 1] = NULL
      BY <1>2, <3>1
    <3> QED
      BY <2>1, <3>1, <3>2 DEF Before
  <2>3. CASE i # n - 1
    <3>1. i + 1 \in 0 .. n - 1 /\ n - 1 - i # 0 /\ (n - 1 - i) - 1 = n - 1 - (i + 1)
      BY <1>1, <2>3
    <3>2. g[i + 1] = f[n - 1 - (i + 1)]
      BY <1>3, <3>1
    <3> QED
      BY <2>1, <3>1, <3>2 DEF Before
  <2> QED
    BY <2>2, <2>3
<1> QED
  BY <1>4, <1>5, <1>6

LEMMA WellLinkedOK == LInv => WellLinked
<1> SUFFICES ASSUME NEW f, Lists(f)
             PROVE  WellLinked
  BY DEF LInv
<1> DEFINE back == Walk(end, prevNode)
<1>1. Way(items, f) /\ Linked(items, f, nextNode, prevNode) /\ end = Before(f, items)
  BY DEF Lists, Listing
<1>2. items \in Nat /\ items <= N /\ N \in Nat
  BY ForwardIs, CellsAreFinite
<1>3. \A i \in 0 .. N : Forward[i] = f[i]
  BY ForwardIs
<1>4. \A i \in 0 .. N : back[i] = Back(items, f)[i]
  <2> DEFINE g == Back(items, f)
  <2>1. Way(items, g) /\ end = g[0] /\ \A i \in 0 .. items - 1 : prevNode[g[i]] = g[i + 1]
    BY <1>1, BackIsWay
  <2> HIDE DEF g
  <2>2. \A i \in 0 .. N : Walk(g[0], prevNode)[i] = g[i]
    BY <2>1, WalkIs
  <2> QED
    BY <2>1, <2>2 DEF g
<1>5. \A i \in 0 .. N : back[i] = IF i < items THEN f[items - 1 - i] ELSE NULL
  BY <1>2, <1>4 DEF Back
<1> HIDE DEF back
<1>6. live = {Forward[i] : i \in 0 .. items - 1}
  <2>1. \A i \in 0 .. items - 1 : Forward[i] = f[i]
    BY <1>2, <1>3
  <2> QED
    BY <2>1 DEF Lists, Listing, Nodes
<1>7. Cardinality(live) = items
  BY WayFits DEF Lists, Listing
<1>8. ASSUME NEW i \in 0 .. items - 1 PROVE back[i] = Forward[items - 1 - i]
  <2>1. i \in 0 .. N /\ i < items /\ items - 1 - i \in 0 .. N
    BY <1>2
  <2> QED
    BY <1>3, <1>5, <2>1
<1>9. Forward[items] = NULL /\ back[items] = NULL
  <2>1. items \in 0 .. N /\ f[items] = NULL
    BY <1>1, <1>2, WayValues
  <2> QED
    BY <1>2, <1>3, <1>5, <2>1
<1> QED
  BY <1>6, <1>7, <1>8, <1>9 DEF WellLinked, back

-----------------------------------------------------------------------------
(* Appending to a sequence and taking out the element at k + 1, elementwise.*)
LEMMA AppendIs ==
    ASSUME NEW S, NEW n \in Nat, NEW s \in [1 .. n -> S], NEW t \in [1 .. n + 1 -> S],
           \A i \in 1 .. n : t[i] = s[i]
    PROVE  t = Append(s, t[n + 1])
  OBVIOUS

TakenOut(n, s, k, t) == \A i \in 1 .. n - 1 : t[i] = IF i <= k THEN s[i] ELSE s[i + 1]

LEMMA RemoveIs ==
    ASSUME NEW S, NEW n \in Nat, NEW s \in [1 .. n -> S], NEW k \in 0 .. n - 1,
           NEW t \in [1 .. n - 1 -> S], TakenOut(n, s, k, t)
    PROVE  t = Abstract!RemoveAt(s, k + 1)
<1> DEFINE a == SubSeq(s, 1, k)
           b == SubSeq(s, k + 2, n)
<1>1. n - 1 \in Nat /\ k \in Nat /\ k + 2 \in Int /\ Len(s) = n
  OBVIOUS
<1>2. a \in Seq(S) /\ Len(a) = k /\ \A i \in 1 .. k : a[i] = s[i]
  <2>1. \A i \in 1 .. k : s[i] \in S
    OBVIOUS
  <2> QED
    BY <1>1, <2>1, SubSeqProperties
<1>3. b \in Seq(S) /\ Len(b) = n - 1 - k /\ \A i \in 1 .. n - 1 - k : b[i] = s[k + 1 + i]
  <2>1. \A i \in k + 2 .. n : s[i] \in S
    OBVIOUS
  <2>2. /\ b \in Seq(S) /\ Len(b) = (IF k + 2 <= n THEN n - (k + 2) + 1 ELSE 0)
        /\ \A i \in 1 .. n - (k + 2) + 1 : b[i] = s[k + 2 + i - 1]
    <3> HIDE DEF b
    <3> QED
      BY <1>1, <2>1, SubSeqProperties DEF b
  <2> HIDE DEF b
  <2> QED
    BY <1>1, <2>2
<1> HIDE DEF a, b
<1>10. /\ a \o b \in Seq(S) /\ Len(a \o b) = Len(a) + Len(b)
       /\ \A i \in 1 .. Len(a) + Len(b) :
            (a \o b)[i] = IF i <= Len(a) THEN a[i] ELSE b[i - Len(a)]
  BY <1>2, <1>3, ConcatProperties
<1>11. Len(a) = k /\ Len(a) + Len(b) = n - 1
  BY <1>1, <1>2, <1>3
<1>4. a \o b \in Seq(S) /\ Len(a \o b) = n - 1
  BY <1>10, <1>11
<1>5. \A i \in 1 .. n - 1 : (a \o b)[i] = IF i <= k THEN a[i] ELSE b[i - k]
  BY <1>10, <1>11
<1>6. t \in Seq(S) /\ Len(t) = n - 1
  BY <1>1
<1>7. \A i \in 1 .. n - 1 : t[i] = (a \o b)[i]
  <2> SUFFICES ASSUME NEW i \in 1 .. n - 1 PROVE t[i] = (a \o b)[i]
    OBVIOUS
  <2>1. CASE i <= k
    BY <1>1, <1>2, <1>5, <2>1 DEF TakenOut
  <2>2. CASE ~(i <= k)
    <3>1. i - k \in 1 .. n - 1 - k /\ k + 1 + (i - k) = i + 1
      BY <1>1, <2>2
    <3>2. b[i - k] = s[i + 1]
      BY <1>3, <3>1
    <3> QED
      BY <1>5, <2>2, <3>2 DEF TakenOut
  <2> QED
    BY <2>1, <2>2
<1>8. t = a \o b
  BY <1>4, <1>6, <1>7, SeqEqual
<1>9. (k + 1) - 1 = k /\ (k + 1) + 1 = k + 2
  BY <1>1
<1> QED
  BY <1>1, <1>8, <1>9 DEF a, b, Abstract!RemoveAt
-----------------------------------------------------------------------------
(* The way without its node at k, and the pointers that lead along it.     *)
Without(f, k) == [i \in Nat |-> IF i < k THEN f[i] ELSE f[i + 1]]

Cut(n, f, k, fr, en, next, prev) ==
    /\ fr = IF k = 0 THEN f[1] ELSE f[0]
    /\ en = IF k = n - 1 THEN Before(f, k) ELSE f[n - 1]
    /\ \A i \in 0 .. n - 1 : i # k =>
         /\ next[f[i]] = IF i = k - 1 THEN f[k + 1] ELSE f[i + 1]
         /\ prev[f[i]] = IF i = k + 1 THEN Before(f, k) ELSE Before(f, i)
    /\ {next, prev} \subseteq [Cells -> Pointer]

LEMMA WithoutIs ==
    ASSUME NEW n, NEW f, Way(n, f), NEW k \in 0 .. n - 1
    PROVE  /\ Way(n - 1, Without(f, k))
           /\ Nodes(n - 1, Without(f, k)) = Nodes(n, f) \ {f[k]}
<1> DEFINE g == Without(f, k)
<1>1. n \in Nat /\ n - 1 \in Nat /\ k \in Nat
  BY DEF Way
<1>2. \A i \in Nat : g[i] = IF i < k THEN f[i] ELSE f[i + 1]
  BY DEF Without
<1>3. g = [i \in Nat |-> g[i]]
  BY DEF Without
<1> HIDE DEF g
<1>4. \A i \in Nat : IF i < n - 1 THEN g[i] \in Cells ELSE g[i] = NULL
  BY <1>1, <1>2 DEF Way
<1>5. g \in [Nat -> Cells \cup {NULL}]
  BY <1>3, <1>4
<1>6. ASSUME NEW i \in 0 .. n - 2, NEW j \in 0 .. n - 2, g[i] = g[j] PROVE i = j
  <2> DEFINE a == IF i < k THEN i ELSE i + 1
             b == IF j < k THEN j ELSE j + 1
  <2>1. a \in 0 .. n - 1 /\ b \in 0 .. n - 1 /\ g[i] = f[a] /\ g[j] = f[b]
    BY <1>1, <1>2
  <2>2. \A x, y \in 0 .. n - 1 : f[x] = f[y] => x = y
    BY WayValues
  <2>3. f[a] = f[b]
    BY <1>6, <2>1
  <2>4. a = b
    <3> HIDE DEF a, b
    <3> QED
      BY <2>1, <2>2, <2>3
  <2> QED
    BY <1>1, <2>4
<1>7. Way(n - 1, g)
  BY <1>1, <1>4, <1>5, <1>6 DEF Way
<1>8. Nodes(n - 1, g) \subseteq Nodes(n, f) \ {f[k]}
  <2> SUFFICES ASSUME NEW i \in 0 .. n - 2 PROVE g[i] \in Nodes(n, f) \ {f[k]}
    BY <1>1 DEF Nodes
  <2> DEFINE a == IF i < k THEN i ELSE i + 1
  <2>1. a \in 0 .. n - 1 /\ a # k /\ g[i] = f[a]
    BY <1>1, <1>2
  <2> HIDE DEF a
  <2> QED
    BY <2>1, WayValues DEF Nodes
<1>9. Nodes(n, f) \ {f[k]} \subseteq Nodes(n - 1, g)
  <2> SUFFICES ASSUME NEW a \in 0 .. n - 1, a # k PROVE \E i \in 0 .. n - 2 : g[i] = f[a]
    BY <1>1 DEF Nodes
  <2>1. CASE a < k
    <3>1. a \in 0 .. n - 2 /\ g[a] = f[a]
      BY <1>1, <1>2, <2>1
    <3> QED
      BY <3>1
  <2>2. CASE ~(a < k)
    <3>1. a - 1 \in 0 .. n - 2 /\ ~(a - 1 < k) /\ (a - 1) + 1 = a
      BY <1>1, <2>2
    <3> QED
      BY <1>2, <3>1
  <2> QED
    BY <2>1, <2>2
<1> QED
  BY <1>7, <1>8, <1>9 DEF g

LEMMA CutLists ==
    ASSUME NEW n, NEW f, Way(n, f), NEW k \in 0 .. n - 1,
           NEW fr, NEW en, NEW next, NEW prev, Cut(n, f, k, fr, en, next, prev)
    PROVE  /\ fr = Without(f, k)[0] /\ en = Before(Without(f, k), n - 1)
           /\ Linked(n - 1, Without(f, k), next, prev)
<1> DEFINE g == Without(f, k)
<1>1. n \in Nat /\ n - 1 \in Nat /\ k \in Nat
  BY DEF Way
<1>2. \A i \in Nat : g[i] = IF i < k THEN f[i] ELSE f[i + 1]
  BY DEF Without
<1> HIDE DEF g
<1>3. fr = g[0]
  BY <1>1, <1>2 DEF Cut
<1>4. en = Before(g, n - 1)
  <2>1. CASE n - 1 = 0
    BY <1>1, <2>1 DEF Cut, Before
  <2>2. CASE n - 1 # 0
    <3>1. n - 2 \in Nat /\ (n - 2) + 1 = n - 1 /\ Before(g, n - 1) = g[n - 2]
      BY <1>1, <2>2 DEF Before
    <3>2. CASE k = n - 1
      BY <1>1, <1>2, <2>2, <3>1, <3>2 DEF Cut, Before
    <3>3. CASE k # n - 1
      BY <1>1, <1>2, <2>2, <3>1, <3>3 DEF Cut, Before
    <3> QED
      BY <3>2, <3>3
  <2> QED
    BY <2>1, <2>2
<1>5. ASSUME NEW i \in 0 .. n - 2, i < k
      PROVE  next[g[i]] = g[i + 1] /\ prev[g[i]] = Before(g, i)
  <2>1. g[i] = f[i] /\ i \in 0 .. n - 1 /\ i # k /\ i # k + 1 /\ i + 1 \in Nat
    BY <1>1, <1>2, <1>5
  <2>2. prev[f[i]] = Before(f, i) /\ next[f[i]] = IF i = k - 1 THEN f[k + 1] ELSE f[i + 1]
    BY <2>1 DEF Cut
  <2>3. g[i + 1] = IF i = k - 1 THEN f[k + 1] ELSE f[i + 1]
    BY <1>1, <1>2, <1>5, <2>1
  <2>4. Before(g, i) = Before(f, i)
    <3>1. i # 0 => i - 1 \in Nat /\ i - 1 < k
      BY <1>1, <1>5
    <3> QED
      BY <1>2, <3>1 DEF Before
  <2> QED
    BY <2>1, <2>2, <2>3, <2>4
<1>6. ASSUME NEW i \in 0 .. n - 2, ~(i < k)
      PROVE  next[g[i]] = g[i + 1] /\ prev[g[i]] = Before(g, i)
  <2>1. g[i] = f[i + 1] /\ i + 1 \in 0 .. n - 1 /\ i + 1 # k /\ i + 1 # k - 1 /\ (i + 1 = k + 1 <=> i = k)
    BY <1>1, <1>2, <1>6
  <2>2. /\ next[f[i + 1]] = f[(i + 1) + 1]
        /\ prev[f[i + 1]] = IF i = k THEN Before(f, k) ELSE Before(f, i + 1)
    BY <2>1 DEF Cut
  <2>3. g[i + 1] = f[(i + 1) + 1]
    BY <1>1, <1>2, <1>6
  <2>4. Before(g, i) = IF i = k THEN Before(f, k) ELSE Before(f, i + 1)
    <3>1. CASE i = 0
      BY <1>1, <1>6, <3>1 DEF Before
    <3>2. CASE i # 0
      <4>1. i - 1 \in Nat /\ (i - 1) + 1 = i /\ (i + 1) - 1 = i /\ i + 1 # 0
        BY <1>1, <3>2
      <4>2. g[i - 1] = IF i = k THEN f[k - 1] ELSE f[i]
        BY <1>1, <1>2, <1>6, <4>1
      <4> QED
        BY <3>2, <4>1, <4>2 DEF Before
    <3> QED
      BY <3>1, <3>2
  <2> QED
    BY <2>1, <2>2, <2>3, <2>4
<1>7. Linked(n - 1, g, next, prev)
  <2>1. (n - 1) - 1 = n - 2
    BY <1>1
  <2> QED
    BY <1>5, <1>6, <2>1 DEF Linked
<1> QED
  BY <1>3, <1>4, <1>7 DEF g
-----------------------------------------------------------------------------
(* The operations.  Each keeps a listing and has the effect of SequenceList*)
(* on what the list contains.                                              *)
LEMMA DatasAre ==
    ASSUME NEW f, Lists(f)
    PROVE  Datas(items, data, f) \in [1 .. items -> Data]
  BY DEF Lists, Listing, Datas, Way

LEMMA Added ==
    ASSUME Linkage, NEW f, Lists(f), NEW d \in Data, addNode(d)
    PROVE  /\ Linkage'
           /\ \E g : ListsNext(g) /\ Datas(items', data', g) = Append(Datas(items, data, f), d)
<1> DEFINE n == items
<1>1. PICK c \in Cells \ live :
         /\ live' = live \cup {c} /\ data' = [data EXCEPT ![c] = d]
         /\ IF n = 0 THEN /\ front' = c
                          /\ prevNode' = [prevNode EXCEPT ![c] = NULL]
                          /\ nextNode' = [nextNode EXCEPT ![c] = NULL]
                     ELSE /\ prevNode' = [prevNode EXCEPT ![c] = end]
                          /\ nextNode' = [nextNode EXCEPT ![c] = NULL, ![end] = c]
                          /\ front' = front
         /\ end' = c /\ items' = n + 1
  BY DEF addNode, LinkedFrom
<1>2. /\ Way(n, f) /\ front = f[0] /\ end = Before(f, n) /\ Linked(n, f, nextNode, prevNode)
      /\ live = Nodes(n, f) /\ \A i \in 0 .. n - 1 : data[f[i]] \in Data
  BY DEF Lists, Listing
<1>3. n \in Nat /\ \A i \in 0 .. n - 1 : f[i] \in Cells /\ f[i] # c
  BY <1>2, WayValues DEF Nodes
<1> DEFINE g == [f EXCEPT ![n] = c]
<1>4. \A i \in Nat : g[i] = IF i = n THEN c ELSE f[i]
  BY <1>2 DEF Way
<1>5. Way(n + 1, g)
  <2>1. n + 1 \in Nat /\ g \in [Nat -> Cells \cup {NULL}]
    BY <1>2, <1>3 DEF Way
  <2>2. \A i \in Nat : IF i < n + 1 THEN g[i] \in Cells ELSE g[i] = NULL
    BY <1>2, <1>3, <1>4 DEF Way
  <2>3. ASSUME NEW i \in 0 .. n, NEW j \in 0 .. n, g[i] = g[j] PROVE i = j
    <3> HIDE DEF g
    <3>1. \A x, y \in 0 .. n - 1 : f[x] = f[y] => x = y
      BY <1>2, WayValues
    <3> QED
      BY <1>3, <1>4, <2>3, <3>1
  <2> HIDE DEF g
  <2> QED
    BY <1>3, <2>1, <2>2, <2>3 DEF Way
<1> HIDE DEF g
<1>6. front' = g[0] /\ end' = Before(g, n + 1)
  BY <1>1, <1>2, <1>3, <1>4 DEF Before
<1>7. Nodes(n + 1, g) = live'
  <2>1. Nodes(n + 1, g) = Nodes(n, f) \cup {c}
    BY <1>3, <1>4 DEF Nodes
  <2> QED
    BY <1>1, <1>2, <2>1
<1>8. end \in Pointer /\ (n # 0 => end = f[n - 1] /\ n - 1 \in 0 .. n - 1)
  BY <1>2, <1>3 DEF Before, Pointer
<1>9. Linkage'
  <2>1. c \in Pointer /\ NULL \in Pointer
    BY DEF Pointer
  <2> QED
    BY <1>1, <1>8, <2>1 DEF Linkage
<1>10. nextNode'[c] = NULL /\ prevNode'[c] = Before(f, n)
  <2>1. CASE n = 0
    BY <1>1, <2>1 DEF Linkage, Before
  <2>2. CASE n # 0
    BY <1>1, <1>2, <1>3, <1>8, <2>2 DEF Linkage
  <2> QED
    BY <2>1, <2>2
<1>11. ASSUME NEW i \in 0 .. n - 1
       PROVE  nextNode'[f[i]] = (IF i = n - 1 THEN c ELSE f[i + 1]) /\ prevNode'[f[i]] = Before(f, i)
  <2>1. n # 0
    BY <1>3
  <2>2. f[i] \in Cells /\ f[i] # c /\ f[n - 1] \in Cells /\ (f[i] = f[n - 1] <=> i = n - 1)
    BY <1>2, <1>3, <1>8, <2>1, WayValues
  <2>3. nextNode[f[i]] = f[i + 1] /\ prevNode[f[i]] = Before(f, i)
    BY <1>2 DEF Linked
  <2> QED
    BY <1>1, <1>8, <2>1, <2>2, <2>3 DEF Linkage
<1>12. Linked(n + 1, g, nextNode', prevNode')
  <2> SUFFICES ASSUME NEW i \in 0 .. n
               PROVE  nextNode'[g[i]] = g[i + 1] /\ prevNode'[g[i]] = Before(g, i)
    BY <1>3 DEF Linked
  <2>0. Before(g, i) = Before(f, i)
    <3>1. i # 0 => i - 1 \in Nat /\ i - 1 # n
      BY <1>3
    <3> QED
      BY <1>4, <3>1 DEF Before
  <2>1. CASE i = n
    <3>1. g[i] = c /\ g[i + 1] = NULL
      <4>1. i + 1 \in Nat /\ i + 1 # n /\ i + 1 >= n /\ i \in Nat
        BY <1>3, <2>1
      <4> QED
        BY <1>2, <1>4, <2>1, <4>1, WayValues
    <3> QED
      BY <1>10, <2>0, <2>1, <3>1
  <2>2. CASE i # n
    <3>1. i \in 0 .. n - 1 /\ i + 1 \in Nat /\ i \in Nat /\ (i + 1 = n <=> i = n - 1)
      BY <1>3, <2>2
    <3> QED
      BY <1>4, <1>11, <2>0, <2>2, <3>1
  <2> QED
    BY <2>1, <2>2
<1>13. \A i \in 0 .. n : data'[g[i]] = IF i = n THEN d ELSE data[f[i]]
  BY <1>1, <1>3, <1>4 DEF Linkage
<1>14. \A i \in 0 .. n : data'[g[i]] \in Data
  BY <1>2, <1>3, <1>13
<1>15. ListsNext(g)
  <2>1. (n + 1) - 1 = n
    BY <1>3
  <2> QED
    BY <1>1, <1>5, <1>6, <1>7, <1>12, <1>14, <2>1 DEF ListsNext, Listing
<1>16. Datas(items', data', g) = Append(Datas(items, data, f), d)
  <2> DEFINE s == Datas(n, data, f)
             t == Datas(n + 1, data', g)
  <2>1. s \in [1 .. n -> Data]
    BY DatasAre
  <2>2. \A i \in 1 .. n + 1 : t[i] = IF i = n + 1 THEN d ELSE data[f[i - 1]]
    BY <1>3, <1>13 DEF Datas
  <2>3. t \in [1 .. n + 1 -> Data]
    <3>1. \A i \in 1 .. n + 1 : i - 1 \in 0 .. n
      BY <1>3
    <3> QED
      BY <1>14, <3>1 DEF Datas
  <2>4. t[n + 1] = d /\ \A i \in 1 .. n : t[i] = s[i]
    BY <1>3, <2>2 DEF Datas
  <2> HIDE DEF s, t
  <2>5. t = Append(s, d)
    BY <1>3, <2>1, <2>3, <2>4, AppendIs
  <2> QED
    BY <1>1, <2>5 DEF s, t
<1> QED
  BY <1>9, <1>15, <1>16

(* The four cases of removeNode cut the node out of the way.               *)
LEMMA CutNode ==
    ASSUME Linkage, NEW f, Lists(f), NEW k \in 0 .. items - 1, removeNode(f[k])
    PROVE  /\ Cut(items, f, k, front', end', nextNode', prevNode')
           /\ data' = [data EXCEPT ![f[k]] = Junk]
           /\ live' = live \ {f[k]} /\ items' = items - 1
<1> DEFINE n == items
           x == f[k]
<1>1. /\ Way(n, f) /\ front = f[0] /\ end = Before(f, n) /\ Linked(n, f, nextNode, prevNode)
  BY DEF Lists, Listing
<1>2. n \in Nat /\ n # 0 /\ k \in Nat /\ k <= n - 1 /\ n - 1 \in 0 .. n - 1 /\ 0 \in 0 .. n - 1
  BY <1>1, WayValues
<1>3. end = f[n - 1]
  BY <1>1, <1>2 DEF Before
<1>4. \A i, j \in 0 .. n - 1 : f[i] = f[j] => i = j
  BY <1>1, WayValues
<1>5. (x = front <=> k = 0) /\ (x = end <=> k = n - 1)
  BY <1>1, <1>2, <1>3, <1>4
<1>6. \A i \in 0 .. n - 1 : f[i] \in Cells
  BY <1>1, WayValues
<1>7. \A i \in 0 .. n - 1 : nextNode[f[i]] = f[i + 1] /\ prevNode[f[i]] = Before(f, i)
  BY <1>1 DEF Linked
<1>8. f[n] = NULL
  BY <1>1, <1>2, WayValues
<1>9. \A i \in Nat : f[i] \in Pointer /\ Before(f, i) \in Pointer
  <2>1. \A i \in Nat : f[i] \in Pointer
    BY <1>1 DEF Way, Pointer
  <2> QED
    BY <2>1 DEF Before, Pointer
<1>10. NULL \in Pointer /\ Junk \in Pointer
  BY DEF Pointer
<1>11. /\ nextNode \in [Cells -> Pointer] /\ prevNode \in [Cells -> Pointer]
  BY DEF Linkage
<1>12. nextNode[x] = f[k + 1] /\ prevNode[x] = Before(f, k) /\ k + 1 \in Nat /\ x \in Cells
  BY <1>2, <1>6, <1>7
<1> HIDE DEF x
<1>13. ASSUME UnlinkOnly(x) PROVE Cut(items, f, k, front', end', nextNode', prevNode')
  <2>1. /\ k = 0 /\ n = 1 /\ front' = NULL /\ end' = NULL
        /\ nextNode' = [nextNode EXCEPT ![x] = Junk]
        /\ prevNode' = [prevNode EXCEPT ![x] = Junk]
    BY <1>2, <1>5, <1>13 DEF UnlinkOnly
  <2>2. {nextNode', prevNode'} \subseteq [Cells -> Pointer]
    BY <1>10, <1>11, <2>1
  <2>3. ~(\E i \in 0 .. n - 1 : i # k)
    BY <2>1
  <2> QED
    BY <1>8, <2>1, <2>2, <2>3 DEF Cut, Before
<1>14. ASSUME UnlinkFirst(x) PROVE Cut(items, f, k, front', end', nextNode', prevNode')
  <2>0. k = 0 /\ k # n - 1 /\ nextNode[x] = f[1]
    BY <1>5, <1>12, <1>14 DEF UnlinkFirst
  <2>1. /\ k = 0 /\ k # n - 1 /\ front' = f[1] /\ end' = f[n - 1]
        /\ prevNode' = [prevNode EXCEPT ![f[1]] = NULL, ![x] = Junk]
        /\ nextNode' = [nextNode EXCEPT ![x] = Junk]
    BY <1>3, <1>14, <2>0 DEF UnlinkFirst
  <2>2. {nextNode', prevNode'} \subseteq [Cells -> Pointer]
    BY <1>10, <1>11, <2>1
  <2>3. ASSUME NEW i \in 0 .. n - 1, i # k
        PROVE  /\ nextNode'[f[i]] = IF i = k - 1 THEN f[k + 1] ELSE f[i + 1]
               /\ prevNode'[f[i]] = IF i = k + 1 THEN Before(f, k) ELSE Before(f, i)
    <3>1. f[i] \in Cells /\ f[i] # x /\ i # k - 1 /\ (f[i] = f[1] <=> i = k + 1)
      BY <1>2, <1>4, <1>6, <2>1, <2>3 DEF x
    <3>2. nextNode'[f[i]] = nextNode[f[i]]
      BY <1>11, <2>1, <3>1
    <3>3. prevNode'[f[i]] = IF f[i] = f[1] THEN NULL ELSE prevNode[f[i]]
      BY <1>11, <2>1, <3>1
    <3>4. Before(f, k) = NULL
      BY <2>1 DEF Before
    <3> QED
      BY <1>7, <3>1, <3>2, <3>3, <3>4
  <2> QED
    BY <2>1, <2>2, <2>3 DEF Cut
<1>15. ASSUME UnlinkLast(x) PROVE Cut(items, f, k, front', end', nextNode', prevNode')
  <2>1. k # 0 /\ k = n - 1 /\ front' = f[0] /\ Before(f, k) = f[k - 1] /\ k - 1 \in 0 .. n - 1
    BY <1>1, <1>2, <1>5, <1>15 DEF UnlinkLast, Before
  <2>2. /\ end' = Before(f, k)
        /\ nextNode' = [nextNode EXCEPT ![f[k - 1]] = NULL, ![x] = Junk]
        /\ prevNode' = [prevNode EXCEPT ![x] = Junk]
    BY <1>12, <1>15, <2>1 DEF UnlinkLast
  <2>3. {nextNode', prevNode'} \subseteq [Cells -> Pointer]
    BY <1>10, <1>11, <2>2
  <2>4. ASSUME NEW i \in 0 .. n - 1, i # k
        PROVE  /\ nextNode'[f[i]] = IF i = k - 1 THEN f[k + 1] ELSE f[i + 1]
               /\ prevNode'[f[i]] = IF i = k + 1 THEN Before(f, k) ELSE Before(f, i)
    <3>1. f[i] \in Cells /\ f[i] # x /\ i # k + 1 /\ (f[i] = f[k - 1] <=> i = k - 1)
      BY <1>2, <1>4, <1>6, <2>1, <2>4 DEF x
    <3>2. nextNode'[f[i]] = IF f[i] = f[k - 1] THEN NULL ELSE nextNode[f[i]]
      BY <1>11, <2>2, <3>1
    <3>3. prevNode'[f[i]] = prevNode[f[i]]
      BY <1>11, <2>2, <3>1
    <3>4. f[k + 1] = NULL
      BY <1>2, <1>8, <2>1
    <3> QED
      BY <1>7, <3>1, <3>2, <3>3, <3>4
  <2> QED
    BY <2>1, <2>2, <2>3, <2>4 DEF Cut
<1>16. ASSUME UnlinkMiddle(x) PROVE Cut(items, f, k, front', end', nextNode', prevNode')
  <2>1. /\ k # 0 /\ k # n - 1 /\ Before(f, k) = f[k - 1]
        /\ k - 1 \in 0 .. n - 1 /\ k + 1 \in 0 .. n - 1
    BY <1>2, <1>5, <1>16 DEF UnlinkMiddle, Before
  <2>2. /\ front' = f[0] /\ end' = f[n - 1]
        /\ prevNode' = [prevNode EXCEPT ![f[k + 1]] = Before(f, k), ![x] = Junk]
        /\ nextNode' = [nextNode EXCEPT ![f[k - 1]] = f[k + 1], ![x] = Junk]
    BY <1>1, <1>3, <1>12, <1>16, <2>1 DEF UnlinkMiddle
  <2>3. {nextNode', prevNode'} \subseteq [Cells -> Pointer]
    BY <1>2, <1>9, <1>10, <1>11, <1>12, <2>2
  <2>4. ASSUME NEW i \in 0 .. n - 1, i # k
        PROVE  /\ nextNode'[f[i]] = IF i = k - 1 THEN f[k + 1] ELSE f[i + 1]
               /\ prevNode'[f[i]] = IF i = k + 1 THEN Before(f, k) ELSE Before(f, i)
    <3>1. /\ f[i] \in Cells /\ f[i] # x
          /\ (f[i] = f[k - 1] <=> i = k - 1) /\ (f[i] = f[k + 1] <=> i = k + 1)
      BY <1>2, <1>4, <1>6, <2>1, <2>4 DEF x
    <3>2. nextNode'[f[i]] = IF f[i] = f[k - 1] THEN f[k + 1] ELSE nextNode[f[i]]
      BY <1>11, <2>2, <3>1
    <3>3. prevNode'[f[i]] = IF f[i] = f[k + 1] THEN Before(f, k) ELSE prevNode[f[i]]
      BY <1>11, <2>2, <3>1
    <3> QED
      BY <1>7, <3>1, <3>2, <3>3
  <2> QED
    BY <2>1, <2>2, <2>3, <2>4 DEF Cut
<1>17. /\ UnlinkOnly(x) \/ UnlinkFirst(x) \/ UnlinkLast(x) \/ UnlinkMiddle(x)
       /\ data' = [data EXCEPT ![x] = Junk] /\ live' = live \ {x} /\ items' = items - 1
  BY DEF removeNode, x
<1> QED
  BY <1>13, <1>14, <1>15, <1>16, <1>17 DEF x

LEMMA Removed ==
    ASSUME Linkage, NEW f, Lists(f), NEW k \in 0 .. items - 1, removeNode(f[k])
    PROVE  /\ Linkage'
           /\ \E g : /\ ListsNext(g)
                     /\ Datas(items', data', g) = Abstract!RemoveAt(Datas(items, data, f), k + 1)
<1> DEFINE n == items
           g == Without(f, k)
<1>1. /\ Way(n, f) /\ live = Nodes(n, f) /\ \A i \in 0 .. n - 1 : data[f[i]] \in Data
  BY DEF Lists, Listing
<1>2. /\ Cut(n, f, k, front', end', nextNode', prevNode')
      /\ data' = [data EXCEPT ![f[k]] = Junk] /\ live' = live \ {f[k]} /\ items' = n - 1
  BY CutNode
<1>3. n \in Nat /\ n - 1 \in Nat /\ k \in Nat /\ k <= n - 1
  BY <1>1, WayValues
<1>4. \A i \in Nat : g[i] = IF i < k THEN f[i] ELSE f[i + 1]
  BY DEF Without
<1>5. Way(n - 1, g) /\ Nodes(n - 1, g) = live'
  BY <1>1, <1>2, WithoutIs
<1>6. front' = g[0] /\ end' = Before(g, n - 1) /\ Linked(n - 1, g, nextNode', prevNode')
  BY <1>1, <1>2, CutLists
<1> HIDE DEF g
<1>7. \A i \in 0 .. n - 1 : i # k => data'[f[i]] = data[f[i]]
  <2>1. \A i \in 0 .. n - 1 : f[i] \in Cells /\ (f[i] = f[k] => i = k)
    BY <1>1, WayValues
  <2> QED
    BY <1>2, <2>1 DEF Linkage
<1>8. \A i \in 0 .. n - 2 : data'[g[i]] = IF i < k THEN data[f[i]] ELSE data[f[i + 1]]
  <2> SUFFICES ASSUME NEW i \in 0 .. n - 2
               PROVE  data'[g[i]] = IF i < k THEN data[f[i]] ELSE data[f[i + 1]]
    OBVIOUS
  <2>1. i \in 0 .. n - 1 /\ i + 1 \in 0 .. n - 1 /\ (i < k => i # k) /\ (~(i < k) => i + 1 # k)
    BY <1>3
  <2> QED
    BY <1>4, <1>7, <2>1
<1>9. \A i \in 0 .. n - 2 : data'[g[i]] \in Data
  <2> SUFFICES ASSUME NEW i \in 0 .. n - 2 PROVE data'[g[i]] \in Data
    OBVIOUS
  <2>1. i \in 0 .. n - 1 /\ i + 1 \in 0 .. n - 1
    BY <1>3
  <2> QED
    BY <1>1, <1>8, <2>1
<1>10. ListsNext(g)
  <2>1. (n - 1) - 1 = n - 2
    BY <1>3
  <2> QED
    BY <1>2, <1>5, <1>6, <1>9, <2>1 DEF ListsNext, Listing
<1>11. Linkage'
  BY <1>2, <1>3 DEF Linkage, Cut
<1>12. Datas(items', data', g) = Abstract!RemoveAt(Datas(items, data, f), k + 1)
  <2> DEFINE s == Datas(n, data, f)
             t == Datas(n - 1, data', g)
  <2>1. s \in [1 .. n -> Data]
    BY DatasAre
  <2>2. TakenOut(n, s, k, t)
    <3> SUFFICES ASSUME NEW i \in 1 .. n - 1 PROVE t[i] = IF i <= k THEN s[i] ELSE s[i + 1]
      BY DEF TakenOut
    <3>1. /\ i - 1 \in 0 .. n - 2 /\ (i - 1 < k <=> i <= k) /\ (i - 1) + 1 = i /\ (i + 1) - 1 = i
          /\ i \in 1 .. n /\ i + 1 \in 1 .. n
      BY <1>3
    <3>2. t[i] = data'[g[i - 1]] /\ s[i] = data[f[i - 1]] /\ s[i + 1] = data[f[i]]
      BY <3>1 DEF Datas
    <3> QED
      BY <1>8, <3>1, <3>2
  <2>3. t \in [1 .. n - 1 -> Data]
    <3>1. \A i \in 1 .. n - 1 : i - 1 \in 0 .. n - 2
      BY <1>3
    <3> QED
      BY <1>9, <3>1 DEF Datas
  <2>5. k \in 0 .. n - 1
    BY <1>3
  <2> HIDE DEF s, t, n
  <2>4. t = Abstract!RemoveAt(s, k + 1)
    BY <1>3, <2>1, <2>2, <2>3, <2>5, RemoveIs
  <2> QED
    BY <1>2, <2>4 DEF s, t, n
<1> QED
  BY <1>10, <1>11, <1>12

LEMMA Destroyed ==
    ASSUME Linkage, NEW f, Lists(f), destroy
    PROVE  Linkage' /\ \E g : ListsNext(g) /\ Datas(items', data', g) = <<>>
<1> DEFINE g == [i \in Nat |-> NULL]
<1>1. {Forward[i] : i \in 0 .. items - 1} = live
  <2>1. \A i \in 0 .. items - 1 : Forward[i] = f[i]
    BY ForwardIs, CellsAreFinite
  <2> QED
    BY <2>1 DEF Lists, Listing, Nodes
<1>2. /\ live' = {} /\ front' = NULL /\ end' = NULL /\ items' = 0
      /\ data' = [c \in Cells |-> IF c \in live THEN Junk ELSE data[c]]
      /\ nextNode' = [c \in Cells |-> IF c \in live THEN Junk ELSE nextNode[c]]
      /\ prevNode' = [c \in Cells |-> IF c \in live THEN Junk ELSE prevNode[c]]
  BY <1>1 DEF destroy
<1>3. Linkage'
  BY <1>2 DEF Linkage, Pointer
<1>4. Way(0, g) /\ g[0] = NULL /\ Before(g, 0) = NULL /\ Nodes(0, g) = {}
  BY DEF Way, Before, Nodes
<1> HIDE DEF g
<1>5. ListsNext(g)
  BY <1>2, <1>4 DEF ListsNext, Listing, Linked
<1>6. Datas(items', data', g) = <<>>
  BY <1>2 DEF Datas
<1> QED
  BY <1>3, <1>5, <1>6
-----------------------------------------------------------------------------
ContentsListed == \A f : Lists(f) => Contents = Datas(items, data, f)

LEMMA ContentsAre == ContentsListed
BY ContentsIs DEF ContentsListed

LEMMA ContentsNext ==
    ASSUME NEW f, ListsNext(f)
    PROVE  Contents' = Datas(items', data', f)
<1>1. ContentsListed'
  BY ContentsAre, PTL
<1> QED
  BY <1>1 DEF ContentsListed, Lists, ListsNext, Datas

LEMMA ListStarts == Init => LInv /\ Contents = <<>>
<1> SUFFICES ASSUME Init PROVE LInv /\ Contents = <<>>
  OBVIOUS
<1> DEFINE g == [i \in Nat |-> NULL]
<1>1. Way(0, g) /\ g[0] = NULL /\ Before(g, 0) = NULL /\ Nodes(0, g) = {}
  BY DEF Way, Before, Nodes
<1> HIDE DEF g
<1>2. Lists(g)
  BY <1>1 DEF Init, Lists, Listing, Linked
<1>3. Linkage
  BY DEF Init, Linkage, Pointer
<1>4. Contents = <<>>
  BY DEF Init, Contents
<1> QED
  BY <1>2, <1>3, <1>4 DEF LInv

(* A step of the list is the step of the sequence.                         *)
Kept == LInv' /\ Abstract!Next

LEMMA AddKeeps ==
    ASSUME LInv, NEW d \in Data, addNode(d)
    PROVE  Kept
<1>1. PICK f : Linkage /\ Lists(f)
  BY DEF LInv
<1>2. PICK g : Linkage' /\ ListsNext(g) /\ Datas(items', data', g) = Append(Datas(items, data, f), d)
  BY <1>1, Added
<1>3. Contents' = Append(Contents, d)
  BY <1>1, <1>2, ContentsIs, ContentsNext
<1>4. ~faulted /\ faulted' = faulted /\ call' = <<"add", d>> /\ result' = NULL
  BY DEF addNode, Called
<1>5. Abstract!Next
  BY <1>3, <1>4 DEF Abstract!Next, Abstract!Add, Abstract!Called
<1> QED
  BY <1>2, <1>5 DEF Kept, LInv, Lists, ListsNext

LEMMA RemoveByIndexKeeps ==
    ASSUME LInv, RemoveByIndex
    PROVE  Kept
<1>1. PICK f : Linkage /\ Lists(f)
  BY DEF LInv
<1>2. PICK k \in 0 .. items - 1 :
         /\ ~faulted /\ removeNode(getNodeByIndex(k))
         /\ Called("removeIndex", k, data[getNodeByIndex(k)])
  BY DEF RemoveByIndex
<1>3. getNodeByIndex(k) = f[k]
  BY <1>1, ByIndex
<1>4. PICK g : /\ Linkage' /\ ListsNext(g)
               /\ Datas(items', data', g) = Abstract!RemoveAt(Datas(items, data, f), k + 1)
  BY <1>1, <1>2, <1>3, Removed
<1>5. Contents' = Abstract!RemoveAt(Contents, k + 1)
  BY <1>1, <1>4, ContentsIs, ContentsNext
<1>6. items \in Nat /\ Contents = Datas(items, data, f)
  BY <1>1, ContentsIs, ForwardIs
<1>7. k + 1 \in DOMAIN Contents /\ (k + 1) - 1 = k /\ Contents[k + 1] = data[f[k]]
  BY <1>6 DEF Datas
<1>8. faulted' = faulted /\ call' = <<"removeIndex", k>> /\ result' = data[f[k]]
  BY <1>2, <1>3 DEF removeNode, Called
<1>9. Abstract!RemoveIndex(k + 1)
  BY <1>5, <1>7, <1>8 DEF Abstract!RemoveIndex, Abstract!Called
<1>10. Abstract!Next
  BY <1>2, <1>7, <1>9 DEF Abstract!Next
<1> QED
  BY <1>4, <1>10 DEF Kept, LInv, Lists, ListsNext

LEMMA RemoveByDataKeeps ==
    ASSUME LInv, NEW d \in Data, RemoveByData(d)
    PROVE  Kept
<1>1. PICK f : Linkage /\ Lists(f)
  BY DEF LInv
<1>2. /\ ~faulted /\ getNodeByData(d) # NULL /\ removeNode(getNodeByData(d))
      /\ Called("removeData", d, data[getNodeByData(d)])
  BY DEF RemoveByData
<1>3. PICK k \in 0 .. items - 1 :
         /\ data[f[k]] = d /\ \A i \in 0 .. k - 1 : data[f[i]] # d
         /\ getNodeByData(d) = f[k]
  BY <1>1, <1>2, ByData
<1>4. PICK g : /\ Linkage' /\ ListsNext(g)
               /\ Datas(items', data', g) = Abstract!RemoveAt(Datas(items, data, f), k + 1)
  BY <1>1, <1>2, <1>3, Removed
<1>5. Contents' = Abstract!RemoveAt(Contents, k + 1)
  BY <1>1, <1>4, ContentsIs, ContentsNext
<1>6. items \in Nat /\ Contents = Datas(items, data, f)
  BY <1>1, ContentsIs, ForwardIs
<1>7. k + 1 \in DOMAIN Contents /\ Contents[k + 1] = d
  BY <1>3, <1>6 DEF Datas
<1>8. \A j \in 1 .. (k + 1) - 1 : Contents[j] # d
  <2> SUFFICES ASSUME NEW j \in 1 .. (k + 1) - 1 PROVE Contents[j] # d
    OBVIOUS
  <2>1. j \in 1 .. items /\ j - 1 \in 0 .. k - 1
    BY <1>6
  <2> QED
    BY <1>3, <1>6, <2>1 DEF Datas
<1>9. faulted' = faulted /\ call' = <<"removeData", d>> /\ result' = d
  BY <1>2, <1>3 DEF removeNode, Called
<1>10. Abstract!RemoveData(d)
  BY <1>5, <1>7, <1>8, <1>9 DEF Abstract!RemoveData, Abstract!Called
<1>11. Abstract!Next
  BY <1>2, <1>10 DEF Abstract!Next
<1> QED
  BY <1>4, <1>11 DEF Kept, LInv, Lists, ListsNext

LEMMA RemoveAbsentKeeps ==
    ASSUME LInv, NEW d \in Data, RemoveAbsent(d)
    PROVE  Kept
<1>1. PICK f : Linkage /\ Lists(f)
  BY DEF LInv
<1>2. /\ ~faulted /\ faulted' = TRUE /\ getNodeByData(d) = NULL
      /\ call' = <<"removeData", d>> /\ result' = NULL
      /\ UNCHANGED <<front, end, items, data, nextNode, prevNode, live>>
  BY DEF RemoveAbsent, Called, heapVars
<1>3. Linkage' /\ ListsNext(f)
  BY <1>1, <1>2 DEF Linkage, Lists, ListsNext
<1>4. Contents' = Contents
  BY <1>1, <1>2, <1>3, ContentsIs, ContentsNext
<1>5. \A i \in 0 .. items - 1 : data[f[i]] # d
  BY <1>1, <1>2, ByData
<1>6. items \in Nat /\ Contents = Datas(items, data, f)
  BY <1>1, ContentsIs, ForwardIs
<1>7. \A i \in DOMAIN Contents : Contents[i] # d
  <2> SUFFICES ASSUME NEW i \in 1 .. items PROVE data[f[i - 1]] # d
    BY <1>6 DEF Datas
  <2>1. i - 1 \in 0 .. items - 1
    BY <1>6
  <2> QED
    BY <1>5, <2>1
<1>8. Abstract!Next
  BY <1>2, <1>4, <1>7 DEF Abstract!Next, Abstract!RemoveAbsent, Abstract!Called
<1> QED
  BY <1>3, <1>8 DEF Kept, LInv, Lists, ListsNext

LEMMA DestroyKeeps ==
    ASSUME LInv, destroy
    PROVE  Kept
<1>1. PICK f : Linkage /\ Lists(f)
  BY DEF LInv
<1>2. PICK g : Linkage' /\ ListsNext(g) /\ Datas(items', data', g) = <<>>
  BY <1>1, Destroyed
<1>3. Contents' = <<>>
  BY <1>2, ContentsNext
<1>4. ~faulted /\ faulted' = faulted /\ call' = <<"create", NULL>> /\ result' = NULL
  BY DEF destroy, Called
<1>5. Abstract!Next
  BY <1>3, <1>4 DEF Abstract!Next, Abstract!Reset, Abstract!Called
<1> QED
  BY <1>2, <1>5 DEF Kept, LInv, Lists, ListsNext

LEMMA ListStep == LInv /\ Next => Kept
BY AddKeeps, RemoveByDataKeeps, RemoveAbsentKeeps, RemoveByIndexKeeps, DestroyKeeps DEF Next

LEMMA ListStays ==
    ASSUME LInv, UNCHANGED vars
    PROVE  LInv' /\ UNCHANGED Abstract!listVars
<1>1. PICK f : Linkage /\ Lists(f)
  BY DEF LInv
<1>2. /\ UNCHANGED <<front, end, items, data, nextNode, prevNode, live, call, result, faulted>>
  BY DEF vars, heapVars
<1>3. Linkage' /\ ListsNext(f)
  BY <1>1, <1>2 DEF Linkage, Lists, ListsNext
<1>4. Contents' = Contents
  BY <1>1, <1>2, <1>3, ContentsIs, ContentsNext
<1> QED
  BY <1>2, <1>3, <1>4 DEF LInv, Lists, ListsNext, Abstract!listVars

THEOREM ListInvariant == Spec => []LInv
<1>1. Init => LInv
  BY ListStarts
<1>2. LInv /\ [Next]_vars => LInv'
  BY ListStep, ListStays DEF Kept
<1> QED
  BY <1>1, <1>2, PTL DEF Spec

(* Whatever is added and removed in whatever order, a walk from front meets*)
(* the live cells, each once, and the walk from end the same in reverse: no*)
(* link of LinkedList.c leads to a node that was freed.                    *)
THEOREM ListWellLinked == Spec => []WellLinked
  BY ListInvariant, WellLinkedOK, PTL

(* LinkedList.c is a sequence to its callers: with equal data in it as well*)
(* as without, and when cells are used again.                              *)
THEOREM ListImplementsSequence == Spec => ImplementsSequence
<1>1. Init => Abstract!Init
  BY ListStarts DEF Init, Abstract!Init
<1>2. LInv /\ [Next]_vars => [Abstract!Next]_(Abstract!listVars)
  BY ListStep, ListStays DEF Kept
<1> QED
  BY <1>1, <1>2, ListInvariant, PTL DEF Spec, ImplementsSequence, Abstract!Spec
=============================================================================
