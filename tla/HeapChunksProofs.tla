--------------------------- MODULE HeapChunksProofs ---------------------------
(***************************************************************************)
(* For every heap, page size, set of requests and threshold: chunks keep   *)
(* their types and never overlap, and malloc and free keep the promise of  *)
(* HeapBlocks; dlmalloc loses no memory, never leaves two free chunks side *)
(* by side, and moves the break only when no free chunk is large enough.   *)
(***************************************************************************)
EXTENDS HeapChunks, WellFoundedInduction, TLAPS

HInv == HTypeOK /\ ChunksDisjoint

AFree == [at : AnAddress, size : Nat]

(* What a step of malloc gives to its caller.                              *)
Handed(n) == \E b : /\ used' = used \cup {b}
                    /\ b.asked = n /\ b.size >= n
                    /\ \A other \in used : Apart(b, other)
                    /\ brk' >= brk
-----------------------------------------------------------------------------
(* The pages sys_alloc asks for are at least as many as needed.            *)
LEMMA PagesCover ==
    ASSUME NEW x \in Nat
    PROVE  PagesFor(x) * Page \in Nat /\ PagesFor(x) * Page >= x
<1> DEFINE a == x + Page - 1
           q == a \div Page
<1>1. Page \in Nat /\ Page > 0
  BY HeapAssumption
<1>2. a \in Nat
  BY <1>1
<1>3. q \in Nat /\ a = Page * q + (a % Page) /\ a % Page \in 0 .. Page - 1
  BY <1>1, <1>2
<1>4. Page * q \in Nat /\ q * Page = Page * q
  BY <1>1, <1>3
<1>5. Page * q >= x
  BY <1>1, <1>3, <1>4
<1> QED
  BY <1>4, <1>5 DEF PagesFor

(* So top is larger than the request after the heap has grown.             *)
LEMMA GrowthCovers ==
    ASSUME HInv, NEW n \in Request, n >= top.size
    PROVE  /\ Growth(n) \in Nat
           /\ GrownTop(n) \in AFree
           /\ GrownTop(n).at >= top.at
           /\ GrownTop(n).size > n
           /\ End(GrownTop(n)) <= brk + Growth(n)
<1>1. n \in Nat /\ Foot \in Nat /\ HeapBase \in Nat
  BY HeapAssumption
<1>2. /\ top = [at |-> top.at, size |-> top.size]
      /\ top.at \in Nat /\ top.size \in Nat /\ top.at >= HeapBase
      /\ brk \in Nat /\ top.at + top.size <= brk
  BY DEF HInv, HTypeOK, ChunksDisjoint, AnAddress, End
<1>3. n - top.size + Foot + 1 \in Nat
  BY <1>1, <1>2
<1>4. Growth(n) \in Nat /\ Growth(n) >= n - top.size + Foot + 1
  BY <1>3, PagesCover DEF Growth
<1>5. CASE top.size = 0
  <2>1. GrownTop(n) = [at |-> brk, size |-> Growth(n) - Foot]
    BY <1>5 DEF GrownTop, Chunk
  <2> HIDE DEF GrownTop, Growth
  <2> QED
    BY <1>1, <1>2, <1>4, <1>5, <2>1 DEF AFree, AnAddress, End
<1>6. CASE top.size # 0
  <2>1. GrownTop(n) = [at |-> top.at, size |-> top.size + Growth(n)]
    BY <1>6 DEF GrownTop, Chunk
  <2> QED
    BY <1>1, <1>2, <1>4, <1>6, <2>1 DEF AFree, AnAddress, End
<1> QED
  BY <1>5, <1>6
-----------------------------------------------------------------------------
(* What the invariant says of each piece of memory, one at a time.         *)
LEMMA Pieces ==
    ASSUME HInv
    PROVE  /\ HeapBase \in Nat /\ MinChunk \in Nat /\ MinChunk > 0
           /\ \A c \in used : /\ c \in [at : AnAddress, size : ASize, asked : Request]
                              /\ c.at \in Nat /\ c.at >= HeapBase
                              /\ c.size \in Nat /\ c.size >= MinChunk
           /\ \A c \in bins : /\ c \in AChunk /\ c.at \in Nat /\ c.at >= HeapBase
                              /\ c.size \in Nat /\ c.size >= MinChunk
           /\ dv.at \in Nat /\ dv.at >= HeapBase /\ dv.size \in Nat
           /\ dv.size > 0 => dv \in AChunk /\ dv.size >= MinChunk
           /\ top.at \in Nat /\ top.at >= HeapBase /\ top.size \in Nat
           /\ brk \in Nat
  BY HeapAssumption DEF HInv, HTypeOK, AChunk, AnAddress, ASize, None, Chunk

(* A chunk cut off from the low end of another.                            *)
LEMMA CutOff ==
    ASSUME NEW c \in AChunk, NEW n \in Request, n <= c.size
    PROVE  /\ Cut(c, n) \in [at : AnAddress, size : ASize, asked : Request]
           /\ Cut(c, n).at = c.at /\ Cut(c, n).size >= n
           /\ Cut(c, n).size <= c.size /\ Cut(c, n).asked = n
           /\ Splits(c, n) => /\ Rest(c, n) \in AChunk
                              /\ Rest(c, n).at = c.at + n
                              /\ Rest(c, n).size = c.size - n
                              /\ Cut(c, n).size = n
<1>1. n \in Nat /\ n >= MinChunk /\ MinChunk \in Nat
  BY HeapAssumption
<1>2. c = [at |-> c.at, size |-> c.size] /\ c.at \in AnAddress /\ c.size \in ASize
  BY DEF AChunk
<1> QED
  BY <1>1, <1>2, HeapAssumption
     DEF Cut, InUse, Splits, Rest, Chunk, AChunk, AnAddress, ASize

(* What a bin offers fits.                                                 *)
LEMMA BinnedFits ==
    ASSUME HInv, NEW n \in Request, NEW c \in Binned(n)
    PROVE  c \in bins /\ n <= c.size
<1>1. n \in Nat
  BY HeapAssumption
<1>2. \A S : Smallest(S) \subseteq S
  BY DEF Smallest
<1>3. \A d \in bins : d.size \in Nat
  BY Pieces
<1> QED
  BY <1>1, <1>2, <1>3 DEF Binned, Exact, Fitting
-----------------------------------------------------------------------------
LEMMA InitHolds ==
    ASSUME Init
    PROVE  HInv
<1>1. HeapBase \in Nat
  BY HeapAssumption
<1> QED
  BY <1>1 DEF Init, HInv, HTypeOK, ChunksDisjoint, None, Chunk, Dv, AnAddress, Apart, End

(* A chunk of a bin is handed out: whole, or cut in two.                   *)
LEMMA FromBinKeeps ==
    ASSUME HInv, NEW n \in Request, FromBin(n), UNCHANGED panicked
    PROVE  HInv' /\ Handed(n)
<1>1. PICK c \in Binned(n) :
        /\ used' = used \cup {Cut(c, n)}
        /\ IF ~Splits(c, n)
             THEN bins' = bins \ {c} /\ dv' = dv
             ELSE IF Small(n)
               THEN dv' = Rest(c, n) /\ bins' = (bins \ {c}) \cup Dv
               ELSE dv' = dv /\ bins' = (bins \ {c}) \cup {Rest(c, n)}
        /\ UNCHANGED <<top, brk>>
  BY DEF FromBin
<1>2. c \in bins /\ n <= c.size /\ n \in Nat /\ n >= MinChunk /\ MinChunk \in Nat /\ MinChunk > 0
  BY BinnedFits, HeapAssumption
<1>3. c \in AChunk /\ c.at \in Nat /\ c.size \in Nat
  BY <1>2, Pieces
<1> DEFINE b == Cut(c, n)
           r == Rest(c, n)
<1>4. /\ b \in [at : AnAddress, size : ASize, asked : Request]
      /\ b.at = c.at /\ b.size >= n /\ b.size <= c.size /\ b.size \in Nat
      /\ Splits(c, n) => /\ r \in AChunk /\ r.at = c.at + n /\ r.size = c.size - n
                         /\ b.size = n
  BY <1>2, <1>3, CutOff DEF ASize
<1> HIDE DEF b, r
<1>5. used' = used \cup {b}
  BY <1>1 DEF b
<1>6. c \notin Dv
  BY <1>2, <1>3, Pieces DEF HInv, ChunksDisjoint, Apart, End, Dv
<1>7. \A x : x \in bins' \cup Dv' => x \in (bins \cup Dv) \ {c} \/ (Splits(c, n) /\ x = r)
  BY <1>1, <1>6 DEF r, Dv
<1>8. HTypeOK'
  <2>1. used' \subseteq [at : AnAddress, size : ASize, asked : Request]
    BY <1>4, <1>5 DEF HInv, HTypeOK
  <2>2. bins' \subseteq AChunk
    BY <1>1, <1>4, Pieces DEF HInv, HTypeOK, Dv, r
  <2>3. dv' \in AChunk \cup {None}
    BY <1>1, <1>4 DEF HInv, HTypeOK, r
  <2> QED
    BY <1>1, <2>1, <2>2, <2>3 DEF HInv, HTypeOK
<1>9. \A x \in used \cup ((bins \cup Dv) \ {c}) :
        Apart(x, b) /\ Apart(b, x) /\ (Splits(c, n) => Apart(x, r) /\ Apart(r, x))
  <2> SUFFICES ASSUME NEW x \in used \cup ((bins \cup Dv) \ {c})
               PROVE  Apart(x, b) /\ Apart(b, x) /\ (Splits(c, n) => Apart(x, r) /\ Apart(r, x))
    OBVIOUS
  <2>1. Apart(x, c) /\ x.at \in Nat /\ x.size \in Nat /\ x.size > 0
    BY <1>2, Pieces DEF HInv, ChunksDisjoint, Dv, Apart
  <2> QED
    BY <1>2, <1>3, <1>4, <2>1 DEF Apart, End
<1>10. /\ Splits(c, n) => Apart(b, r) /\ Apart(r, b)
      /\ End(b) <= top.at /\ (Splits(c, n) => End(r) <= top.at)
  <2>1. End(c) <= top.at
    BY <1>2 DEF HInv, ChunksDisjoint
  <2> QED
    BY <1>2, <1>3, <1>4, <2>1, Pieces DEF Apart, End
<1>11. ChunksDisjoint'
  <2>1. \A x, y \in used' : x = y \/ Apart(x, y)
    BY <1>5, <1>9 DEF HInv, ChunksDisjoint
  <2>2. \A x, y \in bins' : x = y \/ Apart(x, y)
    BY <1>1, <1>9, Pieces DEF HInv, ChunksDisjoint, Dv, Apart, r
  <2>3. \A x \in used', y \in bins' : Apart(x, y)
    <3> SUFFICES ASSUME NEW x \in used', NEW y \in bins' PROVE Apart(x, y)
      OBVIOUS
    <3>1. y \in (bins \cup Dv) \ {c} \/ (Splits(c, n) /\ y = r)
      BY <1>7
    <3>2. \A u \in used, f \in bins \cup Dv : Apart(u, f)
      BY DEF HInv, ChunksDisjoint, Dv
    <3> QED
      BY <1>5, <1>9, <1>10, <3>1, <3>2
  <2>4. (dv.size > 0)' => \A x \in used' \cup bins' : Apart(x, dv')
    <3> SUFFICES ASSUME dv'.size > 0, NEW x \in used' \cup bins' PROVE Apart(x, dv')
      OBVIOUS
    <3>1. CASE dv' = dv
      <4>1. dv \in Dv /\ dv # c
        BY <1>6, <3>1 DEF Dv
      <4>2. x \in used \cup (bins \ {c}) \cup {b} \/ (Splits(c, n) /\ x = r)
        BY <1>1, <1>5, <3>1, <1>4, <1>3, <1>2, <4>1 DEF r, Dv
      <4> QED
        BY <1>9, <3>1, <4>1, <4>2 DEF HInv, ChunksDisjoint
    <3>2. CASE dv' # dv
      <4>1. Splits(c, n) /\ dv' = r /\ bins' = (bins \ {c}) \cup Dv
        BY <1>1, <3>2 DEF r
      <4> QED
        BY <1>5, <1>6, <1>9, <1>10, <4>1
    <3> QED
      BY <3>1, <3>2
  <2>5. \A x \in used' \cup bins' \cup Dv' : End(x) <= top'.at
    BY <1>1, <1>5, <1>7, <1>10 DEF HInv, ChunksDisjoint
  <2>6. End(top') <= brk'
    BY <1>1 DEF HInv, ChunksDisjoint
  <2> QED
    BY <2>1, <2>2, <2>3, <2>4, <2>5, <2>6 DEF ChunksDisjoint, Apart, End, Dv
<1>12. Handed(n)
  <2>1. b.asked = n
    BY <1>2, <1>3, CutOff DEF b
  <2> QED
    BY <1>1, <1>4, <1>5, <1>9, <2>1, Pieces DEF Handed
<1> QED
  BY <1>8, <1>11, <1>12 DEF HInv

(* dv is handed out: whole, or cut in two.                                 *)
LEMMA FromDvKeeps ==
    ASSUME HInv, NEW n \in Request, FromDv(n), UNCHANGED panicked
    PROVE  HInv' /\ Handed(n)
<1>1. n <= dv.size /\ n \in Nat /\ n >= MinChunk /\ MinChunk \in Nat /\ MinChunk > 0
  BY HeapAssumption DEF FromDv
<1>2. dv \in AChunk /\ dv.at \in Nat /\ dv.size \in Nat /\ dv.size > 0 /\ Dv = {dv}
  BY <1>1, Pieces DEF Dv
<1> DEFINE b == Cut(dv, n)
           r == Rest(dv, n)
<1>3. /\ b \in [at : AnAddress, size : ASize, asked : Request]
      /\ b.at = dv.at /\ b.size >= n /\ b.size <= dv.size /\ b.size \in Nat /\ b.asked = n
      /\ Splits(dv, n) => /\ r \in AChunk /\ r.at = dv.at + n /\ r.size = dv.size - n
                          /\ b.size = n
  BY <1>1, <1>2, CutOff DEF ASize
<1>4. /\ used' = used \cup {b}
      /\ dv' = IF Splits(dv, n) THEN r ELSE None
      /\ UNCHANGED <<bins, top, brk>>
  BY DEF FromDv
<1> HIDE DEF b, r
<1>5. HTypeOK'
  BY <1>3, <1>4 DEF HInv, HTypeOK
<1>6. \A x \in used \cup bins :
        Apart(x, b) /\ Apart(b, x) /\ (Splits(dv, n) => Apart(x, r) /\ Apart(r, x))
  <2> SUFFICES ASSUME NEW x \in used \cup bins
               PROVE  Apart(x, b) /\ Apart(b, x) /\ (Splits(dv, n) => Apart(x, r) /\ Apart(r, x))
    OBVIOUS
  <2>1. Apart(x, dv) /\ x.at \in Nat /\ x.size \in Nat /\ x.size > 0
    BY <1>1, <1>2, Pieces DEF HInv, ChunksDisjoint
  <2> QED
    BY <1>1, <1>2, <1>3, <2>1 DEF Apart, End
<1>7. /\ Splits(dv, n) => Apart(b, r)
      /\ End(b) <= top.at /\ (Splits(dv, n) => End(r) <= top.at)
  <2>1. End(dv) <= top.at
    BY <1>2 DEF HInv, ChunksDisjoint
  <2> QED
    BY <1>1, <1>2, <1>3, <2>1, Pieces DEF Apart, End
<1>8. ChunksDisjoint'
  <2>1. \A x, y \in used' : x = y \/ Apart(x, y)
    BY <1>4, <1>6 DEF HInv, ChunksDisjoint
  <2>2. \A x \in used', y \in bins' : Apart(x, y)
    BY <1>4, <1>6 DEF HInv, ChunksDisjoint
  <2>3. (dv.size > 0)' => /\ \A x \in used' \cup bins' : Apart(x, dv')
                          /\ End(dv') <= top'.at
    BY <1>4, <1>6, <1>7 DEF None, Chunk
  <2>4. \A x \in used' \cup bins' : End(x) <= top'.at
    BY <1>4, <1>7 DEF HInv, ChunksDisjoint
  <2> QED
    BY <1>4, <2>1, <2>2, <2>3, <2>4 DEF HInv, ChunksDisjoint, Apart, End, Dv
<1> QED
  BY <1>3, <1>4, <1>5, <1>6, <1>8, Pieces DEF HInv, Handed

(* The low end of top, or of top grown at its high end, is handed out.     *)
LEMMA FromTopKeeps ==
    ASSUME HInv, NEW n \in Request, NEW t \in AFree,
           t.at >= top.at, n < t.size, End(t) <= brk', brk' \in Nat, brk' >= brk,
           used' = used \cup {InUse(Chunk(t.at, n), n)},
           top' = Rest(t, n),
           UNCHANGED <<bins, dv, panicked>>
    PROVE  HInv' /\ Handed(n)
<1>1. n \in Nat /\ n >= MinChunk /\ MinChunk \in Nat /\ MinChunk > 0 /\ HeapBase \in Nat
  BY HeapAssumption
<1>2. t = [at |-> t.at, size |-> t.size] /\ t.at \in Nat /\ t.at >= HeapBase /\ t.size \in Nat
  BY DEF AFree, AnAddress
<1> DEFINE b == InUse(Chunk(t.at, n), n)
<1>3. /\ b \in [at : AnAddress, size : ASize, asked : Request]
      /\ b.at = t.at /\ b.size = n /\ b.asked = n
      /\ used' = used \cup {b}
  BY <1>1, <1>2 DEF InUse, Chunk, AnAddress, ASize
<1> HIDE DEF b
<1>4. /\ top' = [at |-> t.at + n, size |-> t.size - n]
      /\ top'.at = t.at + n /\ top'.size = t.size - n
      /\ t.at + n \in AnAddress /\ t.size - n \in Nat
  BY <1>1, <1>2 DEF Rest, Chunk, AnAddress
<1>5. HTypeOK'
  BY <1>3, <1>4 DEF HInv, HTypeOK
<1>6. \A x \in used \cup bins \cup Dv :
        /\ x.at \in Nat /\ x.size \in Nat
        /\ End(x) <= b.at /\ End(x) <= top'.at
  BY <1>1, <1>2, <1>3, <1>4, Pieces DEF HInv, ChunksDisjoint, Dv, End
<1>7. End(b) <= top'.at /\ End(top') <= brk'
  BY <1>1, <1>2, <1>3, <1>4 DEF End
<1>8. ChunksDisjoint'
  <2>1. \A x, y \in used' : x = y \/ Apart(x, y)
    BY <1>3, <1>6 DEF HInv, ChunksDisjoint, Apart
  <2>2. \A x \in used', y \in bins' : Apart(x, y)
    BY <1>3, <1>6 DEF HInv, ChunksDisjoint, Apart
  <2>3. (dv.size > 0)' => \A x \in used' \cup bins' : Apart(x, dv')
    BY <1>3, <1>6 DEF HInv, ChunksDisjoint, Apart, Dv
  <2>4. \A x \in used' \cup bins' \cup Dv : End(x) <= top'.at
    BY <1>3, <1>6, <1>7
  <2> QED
    BY <1>7, <2>1, <2>2, <2>3, <2>4 DEF HInv, ChunksDisjoint, Apart, End, Dv
<1> QED
  BY <1>1, <1>3, <1>5, <1>6, <1>8 DEF HInv, Handed, Apart

(* A freed chunk joined with its free neighbours: a piece that touches     *)
(* nothing but what went into it.                                          *)
LEMMA JoinedTouchesNothing ==
    ASSUME HInv, NEW c \in used, NEW j, j = Joined(c),
           NEW N, N = Before(c) \cup After(c)
    PROVE  /\ j \in AChunk /\ j.at <= c.at
           /\ \A x \in (used \ {c}) \cup ((bins \cup Dv) \ N) : Apart(x, j) /\ Apart(j, x)
           /\ top \notin N => End(j) <= top.at
           /\ top \in N => /\ End(j) <= brk
                           /\ \A x \in (used \ {c}) \cup ((bins \cup Dv) \ N) : End(x) <= j.at
<1> DEFINE lo == IF Before(c) = {} THEN c ELSE CHOOSE f \in Before(c) : TRUE
           hi == IF After(c) = {} THEN c ELSE CHOOSE f \in After(c) : TRUE
<1>1. /\ lo = c \/ (lo \in bins \cup Dv /\ lo \in N /\ End(lo) = c.at)
      /\ hi = c \/ (hi \in bins \cup Dv \cup {top} /\ hi \in N /\ hi.at = End(c))
      /\ hi = c => After(c) = {}
  <2>1. lo = c \/ lo \in Before(c)
    OBVIOUS
  <2>2. hi = c \/ hi \in After(c)
    OBVIOUS
  <2>3. c.at # End(c)
    BY Pieces DEF End
  <2>4. hi = c => After(c) = {}
    BY <2>3 DEF After
  <2> HIDE DEF lo, hi
  <2> QED
    BY <2>1, <2>2, <2>4 DEF Before, After
<1>2. j = Chunk(lo.at, End(hi) - lo.at)
  BY DEF Joined
<1> HIDE DEF lo, hi
<1>3. /\ c.at \in Nat /\ c.size \in Nat /\ c.size >= MinChunk /\ MinChunk > 0 /\ MinChunk \in Nat
      /\ lo.at \in Nat /\ lo.size \in Nat /\ lo.at >= HeapBase /\ HeapBase \in Nat
      /\ hi.at \in Nat /\ hi.size \in Nat
      /\ top.at \in Nat /\ top.size \in Nat /\ brk \in Nat
  BY <1>1, Pieces DEF Dv
<1>4. lo.at <= c.at /\ End(c) <= End(hi)
  BY <1>1, <1>3 DEF End
<1>5. j.at = lo.at /\ j.size = End(hi) - lo.at /\ j.size \in Nat /\ j.size >= MinChunk /\ End(j) = End(hi)
  BY <1>2, <1>3, <1>4 DEF Chunk, End
<1>6. j \in AChunk
  BY <1>2, <1>3, <1>5 DEF Chunk, AChunk, AnAddress, ASize
<1>7. End(c) <= top.at /\ End(top) <= brk
  BY DEF HInv, ChunksDisjoint
<1>8. ASSUME NEW x \in (used \ {c}) \cup ((bins \cup Dv) \ N)
      PROVE  /\ x.at \in Nat /\ x.size \in Nat /\ x.size > 0
             /\ Apart(x, c) /\ (lo = c \/ Apart(x, lo)) /\ (hi = c \/ Apart(x, hi))
             /\ End(x) <= top.at
  <2>1. x.at \in Nat /\ x.size \in Nat /\ x.size > 0
    BY <1>3, Pieces DEF Dv
  <2>2. \A u, v \in used \cup bins \cup Dv : u # v => Apart(u, v)
    BY DEF HInv, ChunksDisjoint, Dv, Apart
  <2>3. End(x) <= top.at
    BY DEF HInv, ChunksDisjoint
  <2>4. x # c
    BY <1>3, Pieces, <2>1 DEF HInv, ChunksDisjoint, Dv, Apart, End
  <2>5. Apart(x, c)
    BY <2>2, <2>4
  <2>6. lo = c \/ Apart(x, lo)
    <3>1. CASE lo = c
      BY <3>1
    <3>2. CASE lo # c
      <4>1. lo \in bins \cup Dv /\ lo \in N
        BY <1>1, <3>2
      <4>2. x # lo
        BY <1>3, <2>1, <4>1, Pieces DEF HInv, ChunksDisjoint, Dv, Apart, End
      <4> QED
        BY <2>2, <4>1, <4>2
    <3> QED
      BY <3>1, <3>2
  <2>7. hi = c \/ Apart(x, hi)
    <3>1. CASE hi = c
      BY <3>1
    <3>2. CASE hi = top
      BY <2>3, <3>2 DEF Apart
    <3>3. CASE hi # c /\ hi # top
      <4>1. hi \in bins \cup Dv /\ hi \in N
        BY <1>1, <3>3
      <4>2. x # hi
        BY <1>3, <2>1, <4>1, Pieces DEF HInv, ChunksDisjoint, Dv, Apart, End
      <4> QED
        BY <2>2, <4>1, <4>2
    <3> QED
      BY <3>1, <3>2, <3>3
  <2> QED
    BY <2>1, <2>3, <2>5, <2>6, <2>7
<1>9. \A x \in (used \ {c}) \cup ((bins \cup Dv) \ N) : Apart(x, j) /\ Apart(j, x)
  BY <1>1, <1>3, <1>5, <1>8 DEF Apart, End
<1>10. top \notin N => End(j) <= top.at
  <2> SUFFICES ASSUME top \notin N PROVE End(hi) <= top.at
    BY <1>5
  <2>1. hi = c \/ hi \in bins \cup Dv
    BY <1>1
  <2> QED
    BY <1>7, <2>1 DEF HInv, ChunksDisjoint
<1>11. ASSUME top \in N
       PROVE  /\ End(j) <= brk
              /\ \A x \in (used \ {c}) \cup ((bins \cup Dv) \ N) : End(x) <= j.at
  <2>1. top.at = End(c)
    <3>1. top \notin Before(c)
      BY <1>3, <1>7, Pieces DEF Before, End
    <3> QED
      BY <1>11, <3>1 DEF After
  <2>2. hi = top
    <3>1. hi # c
      <4>1. top \in After(c)
        BY <2>1 DEF After
      <4> QED
        BY <1>1, <4>1
    <3>2. \A f \in bins \cup Dv : f.at # End(c)
      BY <2>1, <1>3, Pieces DEF HInv, ChunksDisjoint, Dv, End
    <3> QED
      BY <1>1, <3>1, <3>2
  <2>3. End(j) <= brk
    BY <1>5, <1>7, <2>2
  <2>4. ASSUME NEW x \in (used \ {c}) \cup ((bins \cup Dv) \ N)
        PROVE  End(x) <= j.at
    BY <1>1, <1>3, <1>5, <1>8, <2>1 DEF Apart, End
  <2> QED
    BY <2>3, <2>4
<1> QED
  BY <1>4, <1>5, <1>6, <1>9, <1>10, <1>11

(* free: the joined chunk becomes top, or dv, or goes to a bin.            *)
LEMMA ReleaseKeeps ==
    ASSUME HInv, NEW c \in used, Release(c), UNCHANGED panicked
    PROVE  HInv'
<1> DEFINE N == Before(c) \cup After(c)
           j == Joined(c)
<1>1. /\ used' = used \ {c} /\ brk' = brk
      /\ \/ top \in N /\ top' = j /\ bins' = bins \ N /\ dv' = IF dv \in N THEN None ELSE dv
         \/ top \notin N /\ dv \in N /\ dv' = j /\ bins' = bins \ N /\ top' = top
         \/ top \notin N /\ dv \notin N /\ bins' = (bins \ N) \cup {j} /\ UNCHANGED <<dv, top>>
  BY DEF Release
<1>2. /\ j \in AChunk /\ j.at <= c.at
      /\ \A x \in (used \ {c}) \cup ((bins \cup Dv) \ N) : Apart(x, j) /\ Apart(j, x)
      /\ top \notin N => End(j) <= top.at
      /\ top \in N => /\ End(j) <= brk
                      /\ \A x \in (used \ {c}) \cup ((bins \cup Dv) \ N) : End(x) <= j.at
  BY JoinedTouchesNothing
<1> HIDE DEF N, j
<1>3. AChunk \subseteq [at : AnAddress, size : Nat] /\ \A x \in AChunk : x.size > 0 /\ x.size \in Nat
  BY HeapAssumption DEF AChunk, ASize
<1>4. HTypeOK'
  BY <1>1, <1>2, <1>3 DEF HInv, HTypeOK
<1>5. /\ \A x, y \in used \cup bins : x = y \/ Apart(x, y)
      /\ \A x \in used, y \in bins : Apart(x, y)
      /\ \A x \in used \cup bins, y \in Dv : Apart(x, y)
  BY DEF HInv, ChunksDisjoint, Dv, Apart
<1>6. CASE top \in N
  <2>1. /\ top' = j /\ bins' = bins \ N /\ dv' = IF dv \in N THEN None ELSE dv
    BY <1>1, <1>6
  <2>2. Dv' \subseteq Dv \ N /\ (dv'.size > 0 => dv' \in Dv \ N)
    BY <2>1 DEF Dv, None, Chunk
  <2>3. \A x \in used' \cup bins' \cup Dv' : End(x) <= top'.at
    BY <1>1, <1>2, <1>6, <2>1, <2>2
  <2>4. End(top') <= brk'
    BY <1>1, <1>2, <1>6, <2>1
  <2>5. (dv.size > 0)' => \A x \in used' \cup bins' : Apart(x, dv')
    BY <1>1, <1>5, <2>1, <2>2
  <2>6. /\ \A x, y \in used' : x = y \/ Apart(x, y)
        /\ \A x, y \in bins' : x = y \/ Apart(x, y)
        /\ \A x \in used', y \in bins' : Apart(x, y)
    BY <1>1, <1>5, <2>1
  <2> QED
    BY <1>4, <2>3, <2>4, <2>5, <2>6 DEF HInv, ChunksDisjoint, Apart, End, Dv
<1>7. CASE top \notin N /\ dv \in N
  <2>1. dv' = j /\ bins' = bins \ N /\ top' = top
    BY <1>1, <1>7
  <2>2. \A x \in used' \cup bins' \cup Dv' : End(x) <= top'.at
    BY <1>1, <1>2, <1>7, <2>1 DEF HInv, ChunksDisjoint, Dv
  <2>3. \A x \in used' \cup bins' : Apart(x, dv')
    BY <1>1, <1>2, <2>1
  <2>4. /\ \A x, y \in used' : x = y \/ Apart(x, y)
        /\ \A x, y \in bins' : x = y \/ Apart(x, y)
        /\ \A x \in used', y \in bins' : Apart(x, y)
    BY <1>1, <1>5, <2>1
  <2>5. End(top') <= brk'
    BY <1>1, <2>1 DEF HInv, ChunksDisjoint
  <2> QED
    BY <1>4, <2>2, <2>3, <2>4, <2>5 DEF HInv, ChunksDisjoint, Apart, End, Dv
<1>8. CASE top \notin N /\ dv \notin N
  <2>1. bins' = (bins \ N) \cup {j} /\ dv' = dv /\ top' = top
    BY <1>1, <1>8
  <2>2. Dv' = Dv /\ Dv = Dv \ N /\ (dv'.size > 0 => dv' \in Dv)
    BY <1>8, <2>1 DEF Dv
  <2>3. \A x \in used' \cup bins' \cup Dv' : End(x) <= top'.at
    BY <1>1, <1>2, <1>8, <2>1, <2>2 DEF HInv, ChunksDisjoint
  <2>4. (dv.size > 0)' => \A x \in used' \cup bins' : Apart(x, dv')
    BY <1>1, <1>2, <1>5, <2>1, <2>2
  <2>5. /\ \A x, y \in used' : x = y \/ Apart(x, y)
        /\ \A x, y \in bins' : x = y \/ Apart(x, y)
        /\ \A x \in used', y \in bins' : Apart(x, y)
    BY <1>1, <1>2, <1>5, <2>1
  <2>6. End(top') <= brk'
    BY <1>1, <2>1 DEF HInv, ChunksDisjoint
  <2> QED
    BY <1>4, <2>3, <2>4, <2>5, <2>6 DEF HInv, ChunksDisjoint, Apart, End, Dv
<1> QED
  BY <1>6, <1>7, <1>8

(* Every way malloc finds memory keeps the invariant and its promise.      *)
LEMMA MallocKeeps ==
    ASSUME HInv, NEW n \in Request, Malloc(n)
    PROVE  HInv' /\ Handed(n)
<1>1. n \in Nat /\ top \in AFree /\ brk \in Nat /\ End(top) <= brk /\ top.at \in Nat
  BY HeapAssumption, Pieces DEF HInv, HTypeOK, ChunksDisjoint, AFree
<1>2. CASE FromBin(n)
  BY <1>2, FromBinKeeps DEF Malloc
<1>3. CASE FromDv(n)
  BY <1>3, FromDvKeeps DEF Malloc
<1>4. CASE FromTop(n)
  <2>1. /\ n < top.size /\ used' = used \cup {InUse(Chunk(top.at, n), n)}
        /\ top' = Rest(top, n) /\ UNCHANGED <<bins, dv, brk, panicked>>
    BY <1>4 DEF FromTop, TopRest, Malloc
  <2> QED
    BY <1>1, <2>1, FromTopKeeps
<1>5. CASE SysAlloc(n)
  <2>1. /\ n >= top.size /\ brk' = brk + Growth(n)
        /\ used' = used \cup {InUse(Chunk(GrownTop(n).at, n), n)}
        /\ top' = Rest(GrownTop(n), n) /\ UNCHANGED <<bins, dv, panicked>>
    BY <1>5 DEF SysAlloc, Malloc
  <2>2. /\ Growth(n) \in Nat /\ GrownTop(n) \in AFree /\ GrownTop(n).at >= top.at
        /\ GrownTop(n).size > n /\ End(GrownTop(n)) <= brk'
    BY <2>1, GrowthCovers
  <2>3. brk' \in Nat /\ brk' >= brk /\ GrownTop(n).size \in Nat
    BY <1>1, <2>1, <2>2 DEF AFree
  <2> QED
    BY <1>1, <2>1, <2>2, <2>3, FromTopKeeps
<1> QED
  BY <1>2, <1>3, <1>4, <1>5 DEF Malloc
-----------------------------------------------------------------------------
LEMMA StepKeeps ==
    ASSUME HInv, [Next]_vars
    PROVE  HInv'
<1>1. ASSUME NEW n \in Request, Malloc(n)
      PROVE  HInv'
  BY <1>1, MallocKeeps
<1>2. ASSUME NEW n \in Request, OutOfHeap(n)
      PROVE  HInv'
  BY <1>2 DEF OutOfHeap, HInv, HTypeOK, ChunksDisjoint, Dv, Apart, End
<1>3. ASSUME NEW c \in used, DlFree(c)
      PROVE  HInv'
  BY <1>3, ReleaseKeeps DEF DlFree
<1>4. ASSUME NEW c \in used, DlFreeTrims(c)
      PROVE  HInv'
  BY <1>4 DEF DlFreeTrims, HInv, HTypeOK, ChunksDisjoint, Dv, Apart, End
<1>5. CASE UNCHANGED vars
  BY <1>5 DEF vars, HInv, HTypeOK, ChunksDisjoint, Dv, Apart, End
<1> QED
  BY <1>1, <1>2, <1>3, <1>4, <1>5 DEF Next

LEMMA AlwaysHInv == Spec => []HInv
<1>1. Init => HInv
  BY InitHolds
<1>2. HInv /\ [Next]_vars => HInv'
  BY StepKeeps
<1> QED
  BY <1>1, <1>2, PTL DEF Spec

(* The chunks of dlmalloc (malloc.c:3058-3302) lie in the heap and are     *)
(* large enough for what malloc writes into them when they are freed.      *)
THEOREM ChunksTypeCorrect == Spec => []HTypeOK
<1>1. HInv => HTypeOK
  BY DEF HInv
<1> QED
  BY <1>1, AlwaysHInv, PTL

(* No two chunks overlap, in use or free, and none reaches top or the      *)
(* break, after any sequence of malloc and free.                           *)
THEOREM ChunksNeverOverlap == Spec => []ChunksDisjoint
<1>1. HInv => ChunksDisjoint
  BY DEF HInv
<1> QED
  BY <1>1, AlwaysHInv, PTL

(* Two chunks that are apart share no unit.                                *)
LEMMA ApartShareNothing ==
    ASSUME NEW b, NEW c, b.at \in Nat, b.size \in Nat, c.at \in Nat, c.size \in Nat,
           Apart(b, c)
    PROVE  Blocks!Room(b) \cap Blocks!Room(c) = {}
  BY DEF Apart, End, Blocks!Room

LEMMA StepImplements ==
    ASSUME HInv, HInv', [Next]_vars
    PROVE  [Blocks!BNext]_<<used, brk>>
<1>1. ASSUME NEW n \in Request, Malloc(n)
      PROVE  Blocks!Malloc(n)
  <2>1. Handed(n)
    BY <1>1, MallocKeeps
  <2>2. PICK b : /\ used' = used \cup {b}
                 /\ b.asked = n /\ b.size >= n
                 /\ \A other \in used : Apart(b, other)
                 /\ brk' >= brk
    BY <2>1 DEF Handed
  <2>3. /\ b.at \in Nat /\ b.at >= HeapBase /\ b.size \in Nat /\ b.size > 0
        /\ End(b) <= brk' /\ HeapBase \in Nat /\ brk' \in Nat
    <3>1. /\ b \in [at : AnAddress, size : ASize, asked : Request]
          /\ End(b) <= top'.at /\ End(top') <= brk' /\ top' \in AFree /\ brk' \in Nat
      BY <2>2 DEF HInv, HTypeOK, ChunksDisjoint, AFree
    <3> QED
      BY <3>1, HeapAssumption DEF AnAddress, ASize, AFree, End
  <2>4. \A other \in used : other.at \in Nat /\ other.size \in Nat /\ other.size > 0
    BY Pieces
  <2>5. \A other \in used : Blocks!Room(b) \cap Blocks!Room(other) = {}
    BY <2>2, <2>3, <2>4, ApartShareNothing
  <2>6. b \notin used
    BY <2>2, <2>3 DEF Apart, End
  <2>7. Blocks!Room(b) \subseteq HeapBase .. brk' - 1
    BY <2>3 DEF Blocks!Room, End
  <2> QED
    BY <2>2, <2>5, <2>6, <2>7 DEF Blocks!Malloc
<1>2. ASSUME NEW c \in used, DlFree(c)
      PROVE  Blocks!Free(c)
  BY <1>2 DEF DlFree, Release, Blocks!Free
<1>3. ASSUME (\E n \in Request : OutOfHeap(n)) \/ (\E c \in used : DlFreeTrims(c)) \/ UNCHANGED vars
      PROVE  UNCHANGED <<used, brk>>
  BY <1>3 DEF OutOfHeap, DlFreeTrims, vars
<1> QED
  BY <1>1, <1>2, <1>3 DEF Next, Blocks!BNext

(* malloc and free keep what they promise: what is handed out is at least  *)
(* as large as asked for, inside the heap, shares nothing with what others *)
(* hold, and stays until it is freed.                                      *)
THEOREM HeapKeepsItsPromise == Spec => ImplementsBlocks
<1>1. Init => Blocks!BInit
  BY DEF Init, Blocks!BInit
<1>2. HInv /\ HInv' /\ [Next]_vars => [Blocks!BNext]_<<used, brk>>
  BY StepImplements
<1> QED
  BY <1>1, <1>2, AlwaysHInv, PTL
     DEF Spec, ImplementsBlocks, Blocks!BSpec, Blocks!bVars
-----------------------------------------------------------------------------
(* Nothing is lost, free chunks are joined, and the break moves when needed.*)

(* Until the first malloc there is nothing at all.                         *)
Untouched ==
    top.size = 0 => used = {} /\ bins = {} /\ dv.size = 0 /\ brk = HeapBase

WInv == HInv /\ Untouched /\ NothingLost /\ Coalesced

All == used \cup FreeChunks \cup {top}

(* A free chunk c serves a request: whole, or cut in two.                  *)
Serves(c, n) ==
    /\ used' = used \cup {Cut(c, n)}
    /\ FreeChunks' = (FreeChunks \ {c}) \cup (IF Splits(c, n) THEN {Rest(c, n)} ELSE {})
    /\ UNCHANGED <<top, brk>>
-----------------------------------------------------------------------------
(* All pieces of a heap in use are real and lie apart from each other.     *)
LEMMA Layout ==
    ASSUME HInv, top.size > 0
    PROVE  /\ \A x \in All : x.at \in Nat /\ x.size \in Nat /\ x.size > 0
           /\ \A x, y \in All : x # y => Apart(x, y)
           /\ \A x \in used \cup FreeChunks : End(x) <= top.at
<1>1. \A x \in All : x.at \in Nat /\ x.size \in Nat /\ x.size > 0
  BY Pieces DEF All, FreeChunks, Dv
<1>2. \A x \in used \cup FreeChunks : End(x) <= top.at
  BY DEF HInv, ChunksDisjoint, FreeChunks
<1>3. \A x, y \in used \cup FreeChunks : x # y => Apart(x, y)
  BY DEF HInv, ChunksDisjoint, FreeChunks, Dv, Apart
<1> QED
  BY <1>1, <1>2, <1>3 DEF All, Apart

(* The four ways of malloc, seen as two: a free chunk serves, or the low   *)
(* end of top does, after it has grown or not.                             *)
LEMMA BinServes ==
    ASSUME HInv, NEW n \in Request, FromBin(n)
    PROVE  \E c \in FreeChunks : n <= c.size /\ Serves(c, n)
<1>1. PICK c \in Binned(n) :
        /\ used' = used \cup {Cut(c, n)}
        /\ IF ~Splits(c, n)
             THEN bins' = bins \ {c} /\ dv' = dv
             ELSE IF Small(n)
               THEN dv' = Rest(c, n) /\ bins' = (bins \ {c}) \cup Dv
               ELSE dv' = dv /\ bins' = (bins \ {c}) \cup {Rest(c, n)}
        /\ UNCHANGED <<top, brk>>
  BY DEF FromBin
<1>2. c \in bins /\ n <= c.size
  BY BinnedFits
<1>3. c \notin Dv
  BY <1>2, Pieces DEF HInv, ChunksDisjoint, Apart, End, Dv
<1>4. Splits(c, n) => Rest(c, n).size > 0
  BY <1>2, Pieces, HeapAssumption DEF Splits, Rest, Chunk
<1>5. FreeChunks' = (FreeChunks \ {c}) \cup (IF Splits(c, n) THEN {Rest(c, n)} ELSE {})
  <2>1. CASE ~Splits(c, n)
    BY <1>1, <1>3, <2>1 DEF FreeChunks, Dv
  <2>2. CASE Splits(c, n) /\ Small(n)
    BY <1>1, <1>3, <1>4, <2>2 DEF FreeChunks, Dv
  <2>3. CASE Splits(c, n) /\ ~Small(n)
    BY <1>1, <1>3, <2>3 DEF FreeChunks, Dv
  <2> QED
    BY <2>1, <2>2, <2>3
<1> QED
  BY <1>1, <1>2, <1>5 DEF Serves, FreeChunks

LEMMA DvServes ==
    ASSUME HInv, NEW n \in Request, FromDv(n)
    PROVE  \E c \in FreeChunks : n <= c.size /\ Serves(c, n)
<1>1. /\ n <= dv.size
      /\ used' = used \cup {Cut(dv, n)}
      /\ dv' = IF Splits(dv, n) THEN Rest(dv, n) ELSE None
      /\ UNCHANGED <<bins, top, brk>>
  BY DEF FromDv
<1>2. n \in Nat /\ n > 0 /\ MinChunk \in Nat /\ MinChunk > 0
  BY HeapAssumption
<1>3. Dv = {dv} /\ dv \notin bins
  BY <1>1, <1>2, Pieces DEF Dv, HInv, ChunksDisjoint, Apart, End
<1>4. Splits(dv, n) => Rest(dv, n).size > 0
  BY <1>2, Pieces DEF Splits, Rest, Chunk
<1>5. Dv' = IF Splits(dv, n) THEN {Rest(dv, n)} ELSE {}
  BY <1>1, <1>4 DEF Dv, None, Chunk
<1> QED
  BY <1>1, <1>3, <1>5 DEF Serves, FreeChunks

LEMMA TopServes ==
    ASSUME HInv, NEW n \in Request, FromTop(n) \/ SysAlloc(n)
    PROVE  \E t \in AFree :
             /\ n < t.size /\ t.at >= top.at
             /\ used' = used \cup {InUse(Chunk(t.at, n), n)}
             /\ top' = Rest(t, n)
             /\ UNCHANGED <<bins, dv>> /\ brk' \in Nat
             /\ top.size > 0 => t.at = top.at /\ End(t) - End(top) = brk' - brk
             /\ top.size = 0 => t.at = brk /\ End(t) + Foot = brk'
<1>1. /\ top = [at |-> top.at, size |-> top.size]
      /\ top.at \in Nat /\ top.size \in Nat /\ brk \in Nat /\ Foot \in Nat /\ n \in Nat
      /\ top \in AFree
  BY HeapAssumption, Pieces DEF HInv, HTypeOK, AFree
<1>2. CASE FromTop(n)
  <2>1. /\ n < top.size /\ used' = used \cup {InUse(Chunk(top.at, n), n)}
        /\ top' = Rest(top, n) /\ UNCHANGED <<bins, dv, brk>>
    BY <1>2 DEF FromTop, TopRest
  <2> QED
    BY <1>1, <2>1 DEF End
<1>3. CASE SysAlloc(n)
  <2> DEFINE t == GrownTop(n)
  <2>1. /\ n >= top.size /\ brk' = brk + Growth(n)
        /\ used' = used \cup {InUse(Chunk(t.at, n), n)}
        /\ top' = Rest(t, n) /\ UNCHANGED <<bins, dv>>
    BY <1>3 DEF SysAlloc
  <2>2. Growth(n) \in Nat /\ t \in AFree /\ t.at >= top.at /\ t.size > n
    BY <2>1, GrowthCovers
  <2>3. t = IF top.size = 0 THEN [at |-> brk, size |-> Growth(n) - Foot]
            ELSE [at |-> top.at, size |-> top.size + Growth(n)]
    BY DEF GrownTop, Chunk
  <2> HIDE DEF t
  <2>4. /\ top.size > 0 => t.at = top.at /\ End(t) - End(top) = brk' - brk
        /\ top.size = 0 => t.at = brk /\ End(t) + Foot = brk'
    BY <1>1, <2>1, <2>2, <2>3 DEF End
  <2>5. brk' \in Nat
    BY <1>1, <2>1, <2>2
  <2> QED
    BY <2>1, <2>2, <2>4, <2>5
<1> QED
  BY <1>2, <1>3
-----------------------------------------------------------------------------
(* What remains of the chunk ends where it ended, and what comes before    *)
(* the rest is in use.                                                     *)
LEMMA ServesKeeps ==
    ASSUME WInv, NEW n \in Request, NEW c \in FreeChunks, n <= c.size, Serves(c, n)
    PROVE  Untouched' /\ NothingLost' /\ Coalesced'
<1> DEFINE b == Cut(c, n)
           r == Rest(c, n)
<1>1. HInv /\ top.size > 0
  BY Pieces DEF WInv, Untouched, FreeChunks, Dv
<1>2. /\ \A x \in All : x.at \in Nat /\ x.size \in Nat /\ x.size > 0
      /\ \A x, y \in All : x # y => Apart(x, y)
      /\ \A x \in used \cup FreeChunks : End(x) <= top.at
  BY <1>1, Layout
<1>3. c \in AChunk /\ c \in All /\ n \in Nat /\ n > 0
  BY <1>1, Pieces, HeapAssumption DEF FreeChunks, Dv, All
<1>4. /\ b.at = c.at /\ b.size \in Nat
      /\ Splits(c, n) => b.size = n /\ r.at = c.at + n /\ r.size = c.size - n /\ r.size > 0
      /\ ~Splits(c, n) => b.size = c.size
  BY <1>3, CutOff, HeapAssumption DEF AChunk, ASize, Cut, InUse, Splits
<1> DEFINE F == FreeChunks'
<1>5. /\ used' = used \cup {b} /\ top' = top /\ brk' = brk
      /\ F = (FreeChunks \ {c}) \cup (IF Splits(c, n) THEN {r} ELSE {})
  BY DEF Serves
<1> HIDE DEF b, r, F
<1>6. Untouched'
  BY <1>1, <1>5 DEF Untouched
<1>7. \A d \in used \cup FreeChunks :
        \E e \in used' \cup F : End(e) = End(d)
  <2> SUFFICES ASSUME NEW d \in used \cup FreeChunks
               PROVE  \E e \in used' \cup F : End(e) = End(d)
    OBVIOUS
  <2>1. CASE d # c \/ d \in used
    BY <1>5, <2>1
  <2>2. CASE d = c /\ Splits(c, n)
    <3>1. r \in F /\ End(r) = End(c)
      BY <1>2, <1>3, <1>4, <1>5, <2>2 DEF End
    <3> QED
      BY <2>2, <3>1
  <2>3. CASE d = c /\ ~Splits(c, n)
    <3>1. b \in used' /\ End(b) = End(c)
      BY <1>4, <1>5, <2>3 DEF End
    <3> QED
      BY <2>3, <3>1
  <2> QED
    BY <2>1, <2>2, <2>3
<1>8. NothingLost'
  <2>1. End(top') + Foot = brk'
    BY <1>1, <1>5 DEF WInv, NothingLost
  <2>2. ASSUME NEW x \in used' \cup F \cup {top'}
        PROVE  x.at = HeapBase \/ \E e \in used' \cup F : End(e) = x.at
    <3>1. ASSUME NEW y \in All, y.at = x.at
          PROVE  x.at = HeapBase \/ \E e \in used' \cup F : End(e) = x.at
      <4>1. y.at = HeapBase \/ \E d \in used \cup FreeChunks : End(d) = y.at
        BY <1>1 DEF WInv, NothingLost, All
      <4> QED
        BY <1>7, <3>1, <4>1
    <3>2. CASE x \in All
      BY <3>1, <3>2
    <3>3. CASE x = b
      BY <1>3, <1>4, <3>1, <3>3
    <3>4. CASE x = r /\ Splits(c, n)
      <4>1. End(b) = x.at /\ b \in used'
        BY <1>4, <1>5, <3>4 DEF End
      <4> QED
        BY <4>1
    <3>5. x \in All \/ x = b \/ (x = r /\ Splits(c, n))
      BY <1>5 DEF All
    <3> QED
      BY <3>2, <3>3, <3>4, <3>5
  <2> QED
    BY <2>1, <2>2 DEF NothingLost, F
<1>9. Coalesced'
  <2> SUFFICES ASSUME NEW x \in F, NEW y \in F \cup {top'}, y.size > 0
               PROVE  End(x) # y.at
    BY DEF Coalesced, F
  <2>1. /\ x \in FreeChunks \ {c} \/ (x = r /\ Splits(c, n))
        /\ y \in (FreeChunks \ {c}) \cup {top} \/ (y = r /\ Splits(c, n))
    BY <1>5
  <2>2. \A u \in FreeChunks, v \in FreeChunks \cup {top} : End(u) # v.at
    BY <1>1, <1>2 DEF WInv, Coalesced, All
  <2>3. Splits(c, n) => End(r) = End(c)
    BY <1>2, <1>3, <1>4 DEF End
  <2>4. CASE y # r \/ ~Splits(c, n)
    BY <2>1, <2>2, <2>3, <2>4
  <2>5. CASE y = r /\ Splits(c, n) /\ x = r
    BY <1>2, <1>3, <1>4, <2>5 DEF End
  <2>6. CASE y = r /\ Splits(c, n) /\ x \in FreeChunks \ {c}
    <3>1. Apart(x, c) /\ x.at \in Nat /\ x.size \in Nat /\ x.size > 0
      BY <1>2, <1>3, <2>6 DEF All
    <3> QED
      BY <1>2, <1>3, <1>4, <2>6, <3>1 DEF Apart, End
  <2> QED
    BY <2>1, <2>4, <2>5, <2>6
<1> QED
  BY <1>6, <1>8, <1>9

(* Between what was below top and what remains of it the new chunk lies.   *)
LEMMA TopKeeps ==
    ASSUME WInv, NEW n \in Request, FromTop(n) \/ SysAlloc(n)
    PROVE  Untouched' /\ NothingLost' /\ Coalesced'
<1>1. HInv
  BY DEF WInv
<1>2. PICK t \in AFree :
        /\ n < t.size /\ t.at >= top.at
        /\ used' = used \cup {InUse(Chunk(t.at, n), n)}
        /\ top' = Rest(t, n)
        /\ UNCHANGED <<bins, dv>> /\ brk' \in Nat
        /\ top.size > 0 => t.at = top.at /\ End(t) - End(top) = brk' - brk
        /\ top.size = 0 => t.at = brk /\ End(t) + Foot = brk'
  BY <1>1, TopServes
<1> DEFINE b == InUse(Chunk(t.at, n), n)
<1>3. /\ n \in Nat /\ n > 0 /\ Foot \in Nat
      /\ t.at \in Nat /\ t.size \in Nat
      /\ top.at \in Nat /\ top.size \in Nat /\ brk \in Nat
  BY <1>1, Pieces, HeapAssumption DEF AFree, AnAddress
<1>4. /\ b.at = t.at /\ b.size = n /\ used' = used \cup {b}
      /\ top'.at = t.at + n /\ top'.size = t.size - n
      /\ FreeChunks' = FreeChunks
  BY <1>2 DEF InUse, Chunk, Rest, FreeChunks, Dv
<1> HIDE DEF b
<1>5. Untouched'
  BY <1>2, <1>3, <1>4 DEF Untouched
<1>6. End(top') + Foot = brk'
  <2>1. End(top') = End(t)
    BY <1>3, <1>4 DEF End
  <2>2. CASE top.size = 0
    BY <1>2, <2>1, <2>2
  <2>3. CASE top.size > 0
    <3>1. End(top) + Foot = brk
      BY <2>3 DEF WInv, NothingLost
    <3> QED
      BY <1>2, <1>3, <2>1, <2>3, <3>1 DEF End
  <2> QED
    BY <1>3, <2>2, <2>3
<1>7. t.at = HeapBase \/ \E d \in used \cup FreeChunks : End(d) = t.at
  BY <1>2, <1>3 DEF WInv, Untouched, NothingLost
<1>8. \A x \in used \cup FreeChunks :
        x.at = HeapBase \/ \E d \in used \cup FreeChunks : End(d) = x.at
  BY <1>3 DEF WInv, Untouched, NothingLost, FreeChunks, Dv
<1>9. NothingLost'
  <2>1. End(b) = top'.at /\ b \in used'
    BY <1>4 DEF End
  <2> QED
    BY <1>4, <1>6, <1>7, <1>8, <2>1 DEF NothingLost
<1>10. Coalesced'
  <2>1. \A x \in FreeChunks : End(x) <= top.at /\ End(x) \in Nat
    BY <1>1, Pieces DEF HInv, ChunksDisjoint, FreeChunks, Dv, End
  <2>2. \A x \in FreeChunks : End(x) # top'.at
    BY <1>2, <1>3, <1>4, <2>1
  <2> QED
    BY <1>4, <2>2 DEF WInv, Coalesced
<1> QED
  BY <1>5, <1>9, <1>10

(* What a freed chunk c is joined with: at most one piece below it and one *)
(* above, whose borders the joined chunk takes over.                       *)
LEMMA Neighbours ==
    ASSUME HInv, top.size > 0, NEW c \in used
    PROVE  \E lo \in {c} \cup FreeChunks, hi \in {c} \cup FreeChunks \cup {top} :
             /\ Joined(c).at = lo.at /\ End(Joined(c)) = End(hi)
             /\ Joined(c).size \in Nat /\ Joined(c).size > 0
             /\ lo = c \/ End(lo) = c.at
             /\ hi = c \/ hi.at = End(c)
             /\ Before(c) \cup After(c) = {lo, hi} \ {c}
             /\ lo = c => Before(c) = {}
             /\ hi = c => After(c) = {}
<1>1. /\ \A x \in All : x.at \in Nat /\ x.size \in Nat /\ x.size > 0
      /\ \A x, y \in All : x # y => Apart(x, y)
      /\ \A x \in used \cup FreeChunks : End(x) <= top.at
  BY Layout
<1>2. /\ Before(c) \subseteq FreeChunks /\ \A f \in Before(c) : End(f) = c.at
      /\ After(c) \subseteq FreeChunks \cup {top} /\ \A f \in After(c) : f.at = End(c)
  BY DEF Before, After, FreeChunks
<1>3. c \in All /\ c \notin FreeChunks /\ c # top
  <2>1. c \in All
    BY DEF All
  <2>2. c \notin FreeChunks
    BY <1>1, <2>1, Pieces DEF HInv, ChunksDisjoint, FreeChunks, Dv, Apart, End
  <2>3. c # top
    BY <1>1, <2>1 DEF End
  <2> QED
    BY <2>1, <2>2, <2>3
<1>4. \A f, g \in Before(c) : f = g
  BY <1>1, <1>2 DEF All, Apart, End
<1>5. \A f, g \in After(c) : f = g
  BY <1>1, <1>2 DEF All, Apart, End
<1> DEFINE lo == IF Before(c) = {} THEN c ELSE CHOOSE f \in Before(c) : TRUE
           hi == IF After(c) = {} THEN c ELSE CHOOSE f \in After(c) : TRUE
<1>6. /\ IF Before(c) = {} THEN lo = c ELSE lo \in Before(c)
      /\ IF After(c) = {} THEN hi = c ELSE hi \in After(c)
  OBVIOUS
<1>7. Joined(c) = [at |-> lo.at, size |-> End(hi) - lo.at]
  BY DEF Joined, Chunk
<1> HIDE DEF lo, hi
<1>8. lo \in {c} \cup FreeChunks /\ hi \in {c} \cup FreeChunks \cup {top}
  BY <1>2, <1>6
<1>9. /\ lo = c \/ End(lo) = c.at
      /\ hi = c \/ hi.at = End(c)
      /\ lo = c => Before(c) = {}
      /\ hi = c => After(c) = {}
  BY <1>2, <1>3, <1>6
<1>10. Before(c) \cup After(c) = {lo, hi} \ {c}
  <2>1. Before(c) = {lo} \ {c}
    BY <1>2, <1>3, <1>4, <1>6
  <2>2. After(c) = {hi} \ {c}
    BY <1>2, <1>3, <1>5, <1>6
  <2> QED
    BY <2>1, <2>2
<1>11. /\ lo.at \in Nat /\ lo.size \in Nat /\ hi.at \in Nat /\ hi.size \in Nat
       /\ c.at \in Nat /\ c.size \in Nat /\ c.size > 0
  BY <1>1, <1>3, <1>8 DEF All
<1>12. lo.at <= c.at /\ End(c) <= End(hi)
  BY <1>9, <1>11 DEF End
<1>13. /\ Joined(c).at = lo.at /\ End(Joined(c)) = End(hi)
       /\ Joined(c).size \in Nat /\ Joined(c).size > 0
  BY <1>7, <1>11, <1>12 DEF End
<1> QED
  BY <1>8, <1>9, <1>10, <1>13

(* free: no free piece borders on the joined chunk, for it would have been *)
(* joined too; what began where one of the pieces ended was another of them*)
(* or begins where the joined chunk ends.                                  *)
LEMMA FreeKeeps ==
    ASSUME WInv, NEW c \in used, Release(c)
    PROVE  Untouched' /\ NothingLost' /\ Coalesced'
<1>1. HInv /\ top.size > 0
  BY Pieces DEF WInv, Untouched
<1>2. /\ \A x \in All : x.at \in Nat /\ x.size \in Nat /\ x.size > 0
      /\ \A x, y \in All : x # y => Apart(x, y)
      /\ \A x \in used \cup FreeChunks : End(x) <= top.at
  BY <1>1, Layout
<1> DEFINE j == Joined(c)
           N == Before(c) \cup After(c)
<1>3. PICK lo \in {c} \cup FreeChunks, hi \in {c} \cup FreeChunks \cup {top} :
        /\ j.at = lo.at /\ End(j) = End(hi)
        /\ j.size \in Nat /\ j.size > 0
        /\ lo = c \/ End(lo) = c.at
        /\ hi = c \/ hi.at = End(c)
        /\ N = {lo, hi} \ {c}
        /\ lo = c => Before(c) = {}
        /\ hi = c => After(c) = {}
  BY <1>1, Neighbours
<1>4. c \in All /\ lo \in All /\ hi \in All
  BY <1>3 DEF All
<1>5. /\ used' = used \ {c} /\ brk' = brk
      /\ IF top \in N THEN top' = j /\ FreeChunks' = FreeChunks \ N
         ELSE top' = top /\ FreeChunks' = (FreeChunks \ N) \cup {j}
  <2>1. CASE top \in N
    BY <2>1 DEF Release, FreeChunks, Dv, None, Chunk
  <2>2. CASE top \notin N /\ dv \in N
    BY <1>3, <2>2 DEF Release, FreeChunks, Dv
  <2>3. CASE top \notin N /\ dv \notin N
    BY <2>3 DEF Release, FreeChunks, Dv
  <2> QED
    BY <2>1, <2>2, <2>3 DEF Release
<1> HIDE DEF j, N
<1> DEFINE F == FreeChunks'
           kept == (used \ {c}) \cup (FreeChunks \ N)
<1>6. c \notin FreeChunks
  BY <1>1, <1>2, <1>4, Pieces DEF HInv, ChunksDisjoint, FreeChunks, Dv, Apart, End
<1>7. kept = (used \cup FreeChunks) \ {lo, c, hi}
  <2>1. ASSUME NEW x \in FreeChunks, x \in used
        PROVE  FALSE
    <3>1. Apart(x, x)
      BY <1>1, <2>1 DEF HInv, ChunksDisjoint, FreeChunks, Dv
    <3>2. x.at \in Nat /\ x.size \in Nat /\ x.size > 0
      BY <1>2, <2>1 DEF All
    <3> QED
      BY <3>1, <3>2 DEF Apart, End
  <2>2. lo \notin used \ {c}
    BY <1>3, <2>1
  <2>3. hi \notin used \ {c}
    BY <1>2, <1>3, <1>4, <2>1 DEF All, End
  <2> QED
    BY <1>3, <1>6, <2>2, <2>3
<1>8. Untouched'
  BY <1>1, <1>3, <1>5 DEF Untouched
<1>9. ASSUME NEW x \in kept
      PROVE  /\ x \in All /\ Apart(x, lo) /\ Apart(x, c) /\ Apart(x, hi)
             /\ x.at \in Nat /\ x.size \in Nat /\ x.size > 0
  BY <1>2, <1>4, <1>7 DEF All
<1>10. /\ lo.at \in Nat /\ lo.size \in Nat /\ hi.at \in Nat /\ hi.size \in Nat
       /\ lo.size > 0 /\ hi.size > 0
       /\ c.at \in Nat /\ c.size \in Nat /\ c.size > 0
       /\ top.at \in Nat /\ top.size \in Nat /\ j.at \in Nat
  BY <1>1, <1>2, <1>3, <1>4, Pieces
<1> HIDE DEF F, kept
<1>11. NothingLost'
  <2>1. End(top') + Foot = brk'
    <3>1. top \in N => hi = top
      <4>1. lo # top
        BY <1>2, <1>3, <1>10 DEF End
      <4> QED
        BY <1>3, <4>1
    <3> QED
      BY <1>1, <1>3, <1>5, <3>1 DEF WInv, NothingLost
  <2>2. ASSUME NEW x \in kept \cup {j} \cup {top'}
        PROVE  x.at = HeapBase \/ \E e \in kept \cup ({j} \ {top'}) : End(e) = x.at
    <3>1. PICK y \in All : y.at = x.at /\ (y = lo \/ y \in kept \/ (y = top /\ top \notin N))
      BY <1>3, <1>4, <1>5, <1>9 DEF All
    <3>2. y.at = HeapBase \/ \E d \in used \cup FreeChunks : End(d) = y.at
      BY <1>1 DEF WInv, NothingLost, All
    <3>3. ASSUME NEW d \in used \cup FreeChunks, End(d) = y.at
          PROVE  \E e \in kept \cup ({j} \ {top'}) : End(e) = x.at
      <4>1. CASE d \in kept
        BY <3>1, <3>3, <4>1
      <4>2. CASE d = hi
        <5>1. y # lo
          BY <1>3, <1>10, <3>3, <4>2 DEF End
        <5>2. End(j) = x.at /\ j # top'
          BY <1>2, <1>3, <1>4, <1>5, <1>9, <1>10, <3>1, <3>3, <4>2, <5>1 DEF End, Apart
        <5> QED
          BY <5>2
      <4>3. CASE d = c /\ hi # c
        BY <1>2, <1>3, <1>4, <1>9, <1>10, <3>1, <3>3, <4>3 DEF End, Apart
      <4>4. CASE d = lo /\ lo # c
        BY <1>2, <1>3, <1>4, <1>9, <1>10, <3>1, <3>3, <4>4 DEF End, Apart, All
      <4> QED
        BY <1>7, <4>1, <4>2, <4>3, <4>4
    <3> QED
      BY <3>1, <3>2, <3>3
  <2>3. /\ used' \cup F = kept \cup (IF top \in N THEN {} ELSE {j})
        /\ top \in N => top' = j
        /\ top \notin N => top' = top
    BY <1>5 DEF kept, F
  <2> QED
    BY <2>1, <2>2, <2>3 DEF NothingLost, F
<1>12. Coalesced'
  <2>1. \A u \in FreeChunks, v \in FreeChunks \cup {top} : End(u) # v.at
    BY <1>1, <1>2 DEF WInv, Coalesced, All
  <2>2. ASSUME NEW x \in FreeChunks \ N
        PROVE  End(x) # j.at /\ End(j) # x.at
    <3>1. lo = c => End(x) # c.at
      BY <1>3, <2>2 DEF Before, FreeChunks
    <3>2. hi = c => End(c) # x.at
      BY <1>3, <2>2 DEF After, FreeChunks
    <3>3. hi = top => End(hi) # x.at
      BY <1>2, <1>10, <2>2 DEF All, End
    <3> QED
      BY <1>3, <2>1, <2>2, <3>1, <3>2, <3>3
  <2>3. top \notin N => End(j) # top.at
    <3>1. hi = c => End(c) # top.at
      BY <1>3 DEF After
    <3>2. hi = top => top \in N
      BY <1>2, <1>3, <1>10 DEF End
    <3> QED
      BY <1>3, <2>1, <3>1, <3>2
  <2>4. End(j) # j.at
    BY <1>3, <1>10 DEF End
  <2> QED
    BY <1>5, <2>1, <2>2, <2>3, <2>4 DEF Coalesced
<1> QED
  BY <1>8, <1>11, <1>12
-----------------------------------------------------------------------------
LEMMA StartsWhole ==
    ASSUME Init
    PROVE  WInv
<1>1. HInv
  BY InitHolds
<1>2. dv.size = 0 /\ top.size = 0 /\ used = {} /\ bins = {} /\ brk = HeapBase
  BY DEF Init, None, Chunk
<1> QED
  BY <1>1, <1>2 DEF WInv, Untouched, NothingLost, Coalesced, FreeChunks, Dv

LEMMA StepWastesNothing ==
    ASSUME WInv, [Next]_vars
    PROVE  WInv'
<1>1. HInv'
  BY StepKeeps DEF WInv
<1>2. ASSUME NEW n \in Request, Malloc(n)
      PROVE  Untouched' /\ NothingLost' /\ Coalesced'
  <2>1. CASE FromBin(n) \/ FromDv(n)
    <3>1. HInv
      BY DEF WInv
    <3> QED
      BY <2>1, <3>1, BinServes, DvServes, ServesKeeps
  <2>2. CASE FromTop(n) \/ SysAlloc(n)
    BY <2>2, TopKeeps
  <2> QED
    BY <1>2, <2>1, <2>2 DEF Malloc
<1>3. ASSUME NEW c \in used, DlFree(c)
      PROVE  Untouched' /\ NothingLost' /\ Coalesced'
  BY <1>3, FreeKeeps DEF DlFree
<1>4. ASSUME UNCHANGED <<used, bins, dv, top, brk>>
      PROVE  Untouched' /\ NothingLost' /\ Coalesced'
  BY <1>4 DEF WInv, Untouched, NothingLost, Coalesced, FreeChunks, Dv, End
<1>5. CASE UNCHANGED vars
  BY <1>1, <1>4, <1>5 DEF vars, WInv
<1> QED
  BY <1>1, <1>2, <1>3, <1>4, <1>5 DEF Next, OutOfHeap, DlFreeTrims, WInv

LEMMA AlwaysWInv == Spec => []WInv
<1>1. Init => WInv
  BY StartsWhole
<1>2. WInv /\ [Next]_vars => WInv'
  BY StepWastesNothing
<1> QED
  BY <1>1, <1>2, PTL DEF Spec

(* Chunks, top and its foot fill the heap without a gap, after any sequence*)
(* of malloc (splits, growth) and free (joins) of malloc.c:3058-3302.      *)
THEOREM NoMemoryIsLost == Spec => []NothingLost
<1>1. WInv => NothingLost
  BY DEF WInv
<1> QED
  BY <1>1, AlwaysWInv, PTL

(* No two free chunks are side by side, top included: dlfree joins a chunk *)
(* with both its neighbours (malloc.c:3197), and no split undoes that.     *)
THEOREM FreeChunksAreJoined == Spec => []Coalesced
<1>1. WInv => Coalesced
  BY DEF WInv
<1> QED
  BY <1>1, AlwaysWInv, PTL
-----------------------------------------------------------------------------
(* A set of chunks that is not empty has a smallest one.                   *)
LEMMA SmallestExists ==
    ASSUME NEW S, S # {}, \A c \in S : c.size \in Nat
    PROVE  Smallest(S) # {}
<1> DEFINE R == OpToRel(<, Nat)
           sizes == {c.size : c \in S}
<1>1. \E x \in sizes : \A y \in sizes : ~ (<<y, x>> \in R)
  <2>1. IsWellFoundedOn(R, Nat)
    BY NatLessThanWellFounded
  <2>2. sizes \subseteq Nat /\ sizes # {}
    OBVIOUS
  <2> HIDE DEF R, sizes
  <2> QED
    BY <2>1, <2>2, WFMin
<1>2. \A x, y \in Nat : <<y, x>> \in R <=> y < x
  BY DEF OpToRel
<1> HIDE DEF R
<1>3. PICK c \in S : \A d \in S : ~ (d.size < c.size)
  BY <1>1, <1>2
<1>4. c \in Smallest(S)
  BY <1>3 DEF Smallest
<1> QED
  BY <1>4

(* So when no bin offers anything, no free chunk is large enough.          *)
LEMMA NothingIsLargeEnough ==
    ASSUME HInv, NEW n \in Request, NothingFits(n)
    PROVE  \A f \in FreeChunks : f.size < n
<1>1. n \in Nat /\ dv.size \in Nat /\ dv.size < n
  BY HeapAssumption, Pieces DEF NothingFits, DvFits
<1>2. \A f \in bins : f.size \in Nat
  BY Pieces
<1>3. Smallest(Fitting(n)) = {}
  <2>1. Binned(n) = {}
    BY DEF NothingFits
  <2>2. CASE Small(n)
    BY <1>1, <2>1, <2>2 DEF Binned
  <2>3. CASE ~Small(n)
    BY <1>1, <2>1, <2>3 DEF Binned, BetterThanDv
  <2> QED
    BY <2>2, <2>3
<1>4. Fitting(n) = {}
  BY <1>2, <1>3, SmallestExists DEF Fitting
<1> QED
  BY <1>1, <1>2, <1>4 DEF Fitting, FreeChunks, Dv

(* The break moves only when a block is handed out for which no free chunk *)
(* was large enough: tmalloc_large, tmalloc_small and the bins miss none   *)
(* (malloc.c:3058-3160).                                                   *)
THEOREM BreakMovesWhenNeeded == Spec => GrowsOnlyWhenNeeded
<1> DEFINE Needed == brk' # brk => \E c \in used' \ used : \A f \in FreeChunks : f.size < c.size
<1>1. ASSUME HInv, [Next]_vars
      PROVE  [Needed]_vars
  <2>1. CASE brk' = brk
    BY <2>1
  <2>2. CASE brk' # brk
    <3>1. PICK n \in Request : Malloc(n) /\ SysAlloc(n)
      BY <1>1, <2>2
         DEF Next, Malloc, FromBin, FromDv, FromTop, OutOfHeap, DlFree, DlFreeTrims, Release, vars
    <3> DEFINE b == InUse(Chunk(GrownTop(n).at, n), n)
    <3>2. b \in used' /\ b.size = n /\ b.at = GrownTop(n).at
      BY <3>1 DEF SysAlloc, InUse, Chunk
    <3> HIDE DEF b
    <3>3. NothingFits(n) /\ n \in Nat /\ n > 0 /\ n >= top.size
      BY <3>1, HeapAssumption DEF SysAlloc
    <3>4. b \notin used
      <4>1. GrownTop(n).at \in Nat /\ GrownTop(n).at >= top.at /\ top.at \in Nat
        BY <1>1, <3>3, GrowthCovers, Pieces DEF AFree, AnAddress
      <4>2. \A x \in used : End(x) <= top.at /\ x.at \in Nat /\ x.size \in Nat /\ x.size > 0
        BY <1>1, Pieces DEF HInv, ChunksDisjoint
      <4> QED
        BY <3>2, <4>1, <4>2 DEF End
    <3>5. \A f \in FreeChunks : f.size < b.size
      BY <1>1, <3>2, <3>3, NothingIsLargeEnough
    <3> QED
      BY <3>2, <3>4, <3>5
  <2> QED
    BY <2>1, <2>2
<1>2. HInv /\ [Next]_vars => [Needed]_vars
  BY <1>1
<1> QED
  BY <1>2, AlwaysHInv, PTL DEF Spec, GrowsOnlyWhenNeeded
=============================================================================
