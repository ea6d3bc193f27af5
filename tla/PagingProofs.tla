------------------------------ MODULE PagingProofs ------------------------------
(***************************************************************************)
(* The paging system keeps its promises for every number of processes and  *)
(* every size of directories, memory, programs and heaps: from the         *)
(* invariant PagingInv, which joins the roles of the frames with the       *)
(* breaks, follow the invariants that the run of Paging checks, and the    *)
(* steps are those of AddressSpaces.                                       *)
(*                                                                         *)
(* All of it under CleanMemory, since VirtMem_mapPage clears one entry of a*)
(* new table and relies on the frame for the others.                       *)
(*                                                                         *)
(* The first part, up to "The invariant of Paging", is about the machine   *)
(* that one operation works on: createDir, cpyDir and mapPage with the     *)
(* slots they remap, and from them the initialisation, the heaps that grow *)
(* page by page, and the whole of a process.                               *)
(*                                                                         *)
(* An operation writes to frames it reaches through slots it has just      *)
(* written, so that none of it can be said without saying first that the   *)
(* slots, the tables and the pages are different frames.  The invariant of *)
(* the machine, MState, says it with a role for every frame; each operation*)
(* is shown to keep it, and to add the pages it is asked for (Goes) and    *)
(* none else (Keeps).  The loops of the code are recursive functions here: *)
(* Recursion gives their values one by one and the induction over them.    *)
(***************************************************************************)
EXTENDS Paging, Recursion

Memory == [Frame -> [Entry -> PageEntry]]
MachineState == [mem : Memory, free : SUBSET (Frame \ {0}), pse : BOOLEAN,
                 cr3 : Frame, panicked : BOOLEAN]

-----------------------------------------------------------------------------
(* A page number is a directory entry and a table entry.                   *)
LEMMA EntriesInUse ==
    /\ {Code, Heap, Stack, Window, KernelHeap, Self} \subseteq Entry
    /\ {DirSlot, TableSlot, CodeSlot} \subseteq Entry
    /\ Self \notin {Code, Heap, Stack, Window, KernelHeap}
BY PagingAssumption DEF Entry, Code, Heap, Stack, Window, KernelHeap, Self, DirSlot, TableSlot, CodeSlot

LEMMA Parts ==
    ASSUME NEW v \in Nat
    PROVE  /\ v \div Width \in Nat /\ v % Width \in Entry
           /\ v = (v \div Width) * Width + (v % Width)
BY PagingAssumption DEF Entry

LEMMA Steps ==
    ASSUME NEW i \in Nat, NEW j \in Nat, i < j
    PROVE  i * Width + Width <= j * Width
BY PagingAssumption

LEMMA PageOf ==
    ASSUME NEW e \in Nat, NEW x \in Entry
    PROVE  /\ e * Width + x \in Nat
           /\ (e * Width + x) \div Width = e /\ (e * Width + x) % Width = x
<1> DEFINE v == e * Width + x
           q == v \div Width
<1>1. v \in Nat
  BY PagingAssumption DEF Entry
<1>2. v = q * Width + (v % Width) /\ v % Width \in Entry /\ q \in Nat
  BY <1>1, Parts
<1> HIDE DEF q
<1>3. ~(q < e)
  BY <1>2, Steps, PagingAssumption DEF Entry
<1>4. ~(e < q)
  BY <1>2, Steps, PagingAssumption DEF Entry
<1>5. q = e
  BY <1>2, <1>3, <1>4
<1> QED
  BY <1>1, <1>2, <1>5, PagingAssumption DEF q, Entry
PageAt(e, x) == e * Width + x
-----------------------------------------------------------------------------
(* What the steps of an operation do to the machine.                       *)
LEMMA NextFrameIs ==
    ASSUME NEW s \in MachineState
    PROVE  NextFrame(s) \in Frame /\ (s.free # {} => NextFrame(s) \in s.free)
<1> DEFINE P(f) == f \in s.free \cup {0} /\ \A g \in s.free : f # 0 /\ f <= g
<1>1. s.free \in SUBSET Frame /\ s.free \in SUBSET Nat /\ 0 \notin s.free /\ 0 \in Frame
  BY PagingAssumption DEF MachineState, Frame
<1>2. CASE s.free = {}
  BY <1>1, <1>2 DEF NextFrame
<1>3. CASE s.free # {}
  <2>1. \E f \in s.free \cup {0} : \A g \in s.free : f # 0 /\ f <= g
    BY <1>1, <1>3, Smallest
  <2>2. NextFrame(s) \in s.free \cup {0} /\ \A g \in s.free : NextFrame(s) # 0
    BY <2>1 DEF NextFrame
  <2> QED
    BY <1>1, <1>3, <2>2
<1> QED
  BY <1>2, <1>3

LEMMA EntIs ==
    ASSUME NEW f \in Frame, NEW user \in BOOLEAN
    PROVE  /\ Ent(f, user) \in PageEntry /\ Clear \in PageEntry
           /\ Ent(f, user).present /\ Ent(f, user).frame = f /\ Ent(f, user).user = user
           /\ ~Clear.present
BY PagingAssumption DEF Ent, Clear, PageEntry, Frame

(* The write of one entry.                                                 *)
Write(s, g, y, v) == [s EXCEPT !.mem[g][y] = v]
Same(s, r) == r.free = s.free /\ r.pse = s.pse /\ r.cr3 = s.cr3 /\ r.panicked = s.panicked
Entries(s, r, g, y, v) ==
    \A h \in Frame, z \in Entry :
        r.mem[h][z] = IF h = g /\ z = y THEN v ELSE s.mem[h][z]

LEMMA WriteIs ==
    ASSUME NEW s \in MachineState, NEW g \in Frame, NEW y \in Entry, NEW v \in PageEntry,
           NEW r, r = Write(s, g, y, v)
    PROVE  r \in MachineState /\ Same(s, r) /\ Entries(s, r, g, y, v)
BY DEF MachineState, Memory, Write, Same, Entries

LEMMA AllocatedIs ==
    ASSUME NEW s \in MachineState, NEW r, r = Allocated(s)
    PROVE  /\ r \in MachineState
           /\ r.mem = s.mem /\ r.pse = s.pse /\ r.cr3 = s.cr3
           /\ s.panicked => r.panicked
           /\ ~r.panicked => s.free # {}
           /\ s.free # {} => r.free = s.free \ {NextFrame(s)} /\ r.panicked = s.panicked
BY DEF Allocated, MachineState

(* The window: with 4 MB pages there is none, otherwise W is its table, and*)
(* the current directory maps itself.                                      *)
NoWindow == -1
Slots == {DirSlot, TableSlot, CodeSlot}

Sees(s, W) ==
    /\ s.pse => W = NoWindow
    /\ ~s.pse => /\ s.mem[s.cr3][Self].frame = s.cr3
                 /\ s.mem[s.cr3][Window].frame = W
                 /\ W # s.cr3

LEMMA WindowIs ==
    ASSUME NEW s \in MachineState, NEW W, Sees(s, W), ~s.pse
    PROVE  WindowTable(s) = W /\ W \in Frame /\ s.cr3 \in Frame
BY EntriesInUse DEF Sees, WindowTable, MachineState, Memory, PageEntry

OnlySlot(s, r, W, slot) ==
    \A g \in Frame, y \in Entry :
        (g = W /\ y = slot) \/ r.mem[g][y] = s.mem[g][y]

LEMMA ToCurrentIs ==
    ASSUME NEW s \in MachineState, NEW W, Sees(s, W),
           NEW f \in Frame, NEW slot \in Slots,
           NEW r, r = ToCurrent(s, f, slot)
    PROVE  /\ r \in MachineState
           /\ r.free = s.free /\ r.pse = s.pse /\ r.cr3 = s.cr3
           /\ s.panicked => r.panicked
           /\ Sees(r, W) /\ Seen(r, f, slot) = f
           /\ OnlySlot(s, r, W, slot)
<1>1. CASE s.pse
  BY <1>1 DEF ToCurrent, Seen, Sees, MachineState, OnlySlot
<1>2. CASE ~s.pse
  <2>1. WindowTable(s) = W /\ W \in Frame /\ s.cr3 \in Frame
    BY <1>2, WindowIs
  <2>2. slot \in Entry /\ Self \in Entry /\ Window \in Entry
    BY EntriesInUse DEF Slots
  <2> DEFINE v == Ent(f, FALSE)
  <2>3. v \in PageEntry /\ v.frame = f
    BY EntIs
  <2>4. r = Write(s, W, slot, v)
    BY <1>2, <2>1 DEF ToCurrent, Write
  <2> HIDE DEF v
  <2>5. r \in MachineState /\ Same(s, r) /\ Entries(s, r, W, slot, v)
    BY <2>1, <2>2, <2>3, <2>4, WriteIs
  <2>6. Sees(r, W)
    BY <1>2, <2>1, <2>2, <2>5 DEF Sees, Same, Entries
  <2>7. Seen(r, f, slot) = f
    <3>1. WindowTable(r) = W /\ ~r.pse
      BY <1>2, <2>5, <2>6, WindowIs DEF Same
    <3>2. r.mem[W][slot] = v
      BY <2>1, <2>2, <2>5 DEF Entries
    <3> QED
      BY <2>3, <3>1, <3>2 DEF Seen
  <2> QED
    BY <2>5, <2>6, <2>7 DEF Same, Entries, OnlySlot
<1> QED
  BY <1>1, <1>2

(* What a slot shows stays, unless its entry in the window's table is      *)
(* written.                                                                *)
LEMMA SlotStays ==
    ASSUME NEW s \in MachineState, NEW r \in MachineState, NEW W, Sees(s, W), Sees(r, W),
           NEW f \in Frame, NEW slot \in Slots, r.pse = s.pse,
           Seen(s, f, slot) = f,
           ~s.pse => r.mem[W][slot] = s.mem[W][slot]
    PROVE  Seen(r, f, slot) = f
<1>1. CASE s.pse
  BY <1>1 DEF Seen
<1>2. CASE ~s.pse
  BY <1>2, WindowIs DEF Seen
<1> QED
  BY <1>1, <1>2
-----------------------------------------------------------------------------
(* Every operation gives a machine again, and one that has panicked stays  *)
(* so.                                                                     *)
Follows(s, r) ==
    /\ r \in MachineState
    /\ r.pse = s.pse /\ r.cr3 = s.cr3
    /\ s.panicked => r.panicked

LEMMA AllocatedType ==
    ASSUME NEW s \in MachineState
    PROVE  Follows(s, Allocated(s))
BY AllocatedIs DEF Follows

LEMMA WriteType ==
    ASSUME NEW s \in MachineState, NEW g \in Frame, NEW y \in Entry, NEW v \in PageEntry
    PROVE  Follows(s, Write(s, g, y, v))
BY WriteIs DEF Follows, Same

LEMMA WindowType ==
    ASSUME NEW s \in MachineState, NEW f \in Frame, NEW slot \in Slots
    PROVE  WindowTable(s) \in Frame /\ Seen(s, f, slot) \in Frame
<1>1. slot \in Entry /\ Self \in Entry /\ Window \in Entry
  BY EntriesInUse DEF Slots
<1>2. \A g \in Frame, y \in Entry : s.mem[g][y].frame \in Frame
  BY DEF MachineState, Memory, PageEntry
<1>3. s.cr3 \in Frame
  BY DEF MachineState
<1> QED
  BY <1>1, <1>2, <1>3 DEF WindowTable, Seen

LEMMA ToCurrentType ==
    ASSUME NEW s \in MachineState, NEW f \in Frame, NEW slot \in Slots
    PROVE  Follows(s, ToCurrent(s, f, slot))
<1>1. CASE s.pse
  BY <1>1 DEF ToCurrent, Follows, MachineState
<1>2. CASE ~s.pse
  <2>1. slot \in Entry /\ WindowTable(s) \in Frame /\ Ent(f, FALSE) \in PageEntry
    BY EntriesInUse, WindowType, EntIs DEF Slots
  <2>2. ToCurrent(s, f, slot) = Write(s, WindowTable(s), slot, Ent(f, FALSE))
    BY <1>2 DEF ToCurrent, Write
  <2> QED
    BY <2>1, <2>2, WriteType
<1> QED
  BY <1>1, <1>2

LEMMA FollowsOn ==
    ASSUME NEW s, NEW r, NEW q, Follows(s, r), Follows(r, q)
    PROVE  Follows(s, q)
BY DEF Follows

(* The steps of mapPage under names of their own.                          *)
TableTaken(s, d, pde, user) == Write(Allocated(s), d, pde, Ent(NextFrame(s), user))
TableShown(s, d, pde, user) == ToCurrent(TableTaken(s, d, pde, user), NextFrame(s), TableSlot)
TableMade(s, d, pde, user) ==
    Write(TableShown(s, d, pde, user),
          Seen(TableShown(s, d, pde, user), NextFrame(s), TableSlot), 0, Clear)

LEMMA WithTableSteps ==
    ASSUME NEW s, NEW dir, NEW pde, NEW user
    PROVE  WithTable(s, dir, pde, user) =
             IF s.mem[Seen(s, dir, DirSlot)][pde].present THEN s
             ELSE TableMade(s, Seen(s, dir, DirSlot), pde, user)
BY DEF WithTable, TableTaken, TableShown, TableMade, Write, NewTableSlot

LEMMA TableMadeType ==
    ASSUME NEW s \in MachineState, NEW d \in Frame, NEW pde \in Entry, NEW user \in BOOLEAN
    PROVE  Follows(s, TableMade(s, d, pde, user))
<1>1. NextFrame(s) \in Frame /\ Ent(NextFrame(s), user) \in PageEntry /\ Clear \in PageEntry
  BY NextFrameIs, EntIs
<1>2. TableSlot \in Slots /\ 0 \in Entry
  BY EntriesInUse DEF Slots, Code
<1> DEFINE s0 == Allocated(s)
           s1 == TableTaken(s, d, pde, user)
           s2 == TableShown(s, d, pde, user)
<1>3. Follows(s, s0) /\ s0 \in MachineState
  BY AllocatedType DEF Follows
<1>4. Follows(s0, s1) /\ s1 \in MachineState
  BY <1>1, <1>3, WriteType DEF TableTaken, Follows
<1>5. Follows(s1, s2) /\ s2 \in MachineState
  BY <1>1, <1>2, <1>4, ToCurrentType DEF TableShown, Follows
<1>6. Follows(s2, TableMade(s, d, pde, user))
  BY <1>1, <1>2, <1>5, WindowType, WriteType DEF TableMade
<1> QED
  BY <1>3, <1>4, <1>5, <1>6, FollowsOn

LEMMA WithTableType ==
    ASSUME NEW s \in MachineState, NEW dir \in Frame, NEW pde \in Entry, NEW user \in BOOLEAN
    PROVE  Follows(s, WithTable(s, dir, pde, user))
<1>1. Seen(s, dir, DirSlot) \in Frame
  BY WindowType DEF Slots
<1>2. Follows(s, s)
  BY DEF Follows
<1> QED
  BY <1>1, <1>2, WithTableSteps, TableMadeType

(* mapPage of a frame that is given.                                       *)
DirShown(s, dir, pde, user) == WithTable(ToCurrent(s, dir, DirSlot), dir, pde, user)
TableOf(s, dir, pde) == s.mem[Seen(s, dir, DirSlot)][pde].frame
PageSet(s, t, pte, v) ==
    Write(ToCurrent(s, t, DirSlot), Seen(ToCurrent(s, t, DirSlot), t, DirSlot), pte, v)

GivenPage(s, dir, e, x, f, user) ==
    PageSet(DirShown(s, dir, e, user), TableOf(DirShown(s, dir, e, user), dir, e), x, Ent(f, user))

LEMMA MapPageIs ==
    ASSUME NEW s, NEW dir, NEW e \in Nat, NEW x \in Entry, NEW frame, NEW user
    PROVE  MapPage(s, dir, PageAt(e, x), frame, user) =
             IF frame = 0 THEN GivenPage(Allocated(s), dir, e, x, NextFrame(s), user)
             ELSE GivenPage(s, dir, e, x, frame, user)
BY PageOf DEF PageAt, MapPage, GivenPage, DirShown, TableOf, PageSet, Write

LEMMA DirShownType ==
    ASSUME NEW s \in MachineState, NEW dir \in Frame, NEW pde \in Entry, NEW user \in BOOLEAN
    PROVE  Follows(s, DirShown(s, dir, pde, user))
<1> DEFINE s1 == ToCurrent(s, dir, DirSlot)
<1>1. Follows(s, s1) /\ s1 \in MachineState
  BY ToCurrentType DEF Slots, Follows
<1>2. Follows(s1, DirShown(s, dir, pde, user))
  BY <1>1, WithTableType DEF DirShown
<1> QED
  BY <1>1, <1>2, FollowsOn

LEMMA PageSetType ==
    ASSUME NEW s \in MachineState, NEW t \in Frame, NEW pte \in Entry, NEW v \in PageEntry
    PROVE  Follows(s, PageSet(s, t, pte, v))
<1> DEFINE s1 == ToCurrent(s, t, DirSlot)
<1>1. Follows(s, s1) /\ s1 \in MachineState
  BY ToCurrentType DEF Slots, Follows
<1>2. Seen(s1, t, DirSlot) \in Frame
  BY <1>1, WindowType DEF Slots
<1>3. Follows(s1, PageSet(s, t, pte, v))
  BY <1>1, <1>2, WriteType DEF PageSet
<1> QED
  BY <1>1, <1>3, FollowsOn

LEMMA GivenPageType ==
    ASSUME NEW s \in MachineState, NEW dir \in Frame, NEW e \in Entry, NEW x \in Entry,
           NEW f \in Frame, NEW user \in BOOLEAN
    PROVE  Follows(s, GivenPage(s, dir, e, x, f, user))
<1> DEFINE s2 == DirShown(s, dir, e, user)
           t == TableOf(s2, dir, e)
<1>1. Follows(s, s2) /\ s2 \in MachineState
  BY DirShownType DEF Follows
<1> HIDE DEF s2
<1>2. t \in Frame
  <2>1. Seen(s2, dir, DirSlot) \in Frame
    BY <1>1, WindowType DEF Slots
  <2> QED
    BY <1>1, <2>1 DEF TableOf, MachineState, Memory, PageEntry
<1> HIDE DEF t
<1>3. Follows(s2, PageSet(s2, t, x, Ent(f, user)))
  BY <1>1, <1>2, EntIs, PageSetType
<1>4. GivenPage(s, dir, e, x, f, user) = PageSet(s2, t, x, Ent(f, user))
  BY DEF GivenPage, s2, t
<1> QED
  BY <1>1, <1>3, <1>4, FollowsOn

LEMMA MapPageType ==
    ASSUME NEW s \in MachineState, NEW dir \in Frame, NEW e \in Entry, NEW x \in Entry,
           NEW frame \in Frame, NEW user \in BOOLEAN
    PROVE  Follows(s, MapPage(s, dir, PageAt(e, x), frame, user))
<1>1. e \in Nat
  BY PagingAssumption DEF Entry
<1>2. Follows(s, Allocated(s)) /\ Allocated(s) \in MachineState
  BY AllocatedType DEF Follows
<1>3. Follows(Allocated(s), GivenPage(Allocated(s), dir, e, x, NextFrame(s), user))
  BY <1>2, NextFrameIs, GivenPageType
<1>4. Follows(s, GivenPage(s, dir, e, x, frame, user))
  BY GivenPageType
<1> QED
  BY <1>1, <1>2, <1>3, <1>4, MapPageIs, FollowsOn
-----------------------------------------------------------------------------
(* What mapPage writes.  The directory it is given is in use and not the   *)
(* window's table, and is not about to lose its own two entries when it is *)
(* the current one.                                                        *)
MayMapIn(s, W, dir, e) ==
    /\ dir \in Frame /\ dir \notin s.free /\ dir # W
    /\ e \in Entry
    /\ ~s.pse => /\ s.cr3 \notin s.free /\ W \notin s.free
                 /\ dir = s.cr3 => e # Self /\ e # Window

TableEntries(s, r, W, dir, e, t, v) ==
    \A g \in Frame, y \in Entry :
        \/ g = W /\ y \in Slots
        \/ r.mem[g][y] = IF g = t /\ y = 0 THEN Clear
                         ELSE IF g = dir /\ y = e THEN v ELSE s.mem[g][y]

LEMMA SeesStays ==
    ASSUME NEW s \in MachineState, NEW r \in MachineState, NEW W, Sees(s, W),
           r.pse = s.pse, r.cr3 = s.cr3,
           ~s.pse => /\ r.mem[s.cr3][Self] = s.mem[s.cr3][Self]
                     /\ r.mem[s.cr3][Window] = s.mem[s.cr3][Window]
    PROVE  Sees(r, W)
BY DEF Sees

LEMMA TableMadeIs ==
    ASSUME NEW s \in MachineState, NEW W, Sees(s, W),
           NEW dir, NEW e, NEW user \in BOOLEAN,
           MayMapIn(s, W, dir, e), Seen(s, dir, DirSlot) = dir,
           NEW r, r = TableMade(s, dir, e, user), ~r.panicked,
           NEW t, t = NextFrame(s)
    PROVE  /\ r \in MachineState /\ t \in s.free /\ t \in Frame
           /\ r.free = s.free \ {t} /\ r.pse = s.pse /\ r.cr3 = s.cr3
           /\ Sees(r, W) /\ Seen(r, dir, DirSlot) = dir
           /\ TableEntries(s, r, W, dir, e, t, Ent(t, user))
<1> DEFINE s0 == Allocated(s)
           s1 == TableTaken(s, dir, e, user)
           s2 == TableShown(s, dir, e, user)
           v == Ent(t, user)
<1>1. /\ t \in Frame /\ v \in PageEntry /\ Clear \in PageEntry
      /\ dir \in Frame /\ e \in Entry
      /\ DirSlot \in Slots /\ TableSlot \in Slots /\ 0 \in Entry /\ DirSlot # TableSlot
      /\ {DirSlot, Self, Window} \subseteq Entry /\ Slots \subseteq Entry
      /\ s.cr3 \in Frame
  BY NextFrameIs, EntIs, EntriesInUse DEF MayMapIn, Slots, Code, DirSlot, TableSlot, MachineState
<1>2. /\ s0 \in MachineState /\ s0.mem = s.mem /\ s0.pse = s.pse /\ s0.cr3 = s.cr3
      /\ ~s0.panicked => s.free # {} /\ s0.free = s.free \ {t}
  BY AllocatedIs
<1>3. Sees(s0, W) /\ Seen(s0, dir, DirSlot) = dir
  BY <1>1, <1>2, SeesStays, SlotStays
<1> HIDE DEF s0
<1>4. s1 = Write(s0, dir, e, v)
  BY DEF TableTaken, s0
<1> HIDE DEF v, s1
<1>5. s1 \in MachineState /\ Same(s0, s1) /\ Entries(s0, s1, dir, e, v)
  BY <1>1, <1>2, <1>4, WriteIs
<1>6. Sees(s1, W) /\ Seen(s1, dir, DirSlot) = dir
  <2>1. ~s.pse => /\ s1.mem[s.cr3][Self] = s0.mem[s.cr3][Self]
                  /\ s1.mem[s.cr3][Window] = s0.mem[s.cr3][Window]
    BY <1>1, <1>2, <1>5 DEF Entries, MayMapIn
  <2>2. Sees(s1, W)
    BY <1>2, <1>3, <1>5, <2>1, SeesStays DEF Same
  <2>3. ~s.pse => s1.mem[W][DirSlot] = s0.mem[W][DirSlot]
    BY <1>1, <1>2, <1>3, <1>5, WindowIs DEF Entries, MayMapIn
  <2> QED
    BY <1>1, <1>2, <1>3, <1>5, <2>2, <2>3, SlotStays DEF Same
<1>7. s2 = ToCurrent(s1, t, TableSlot)
  BY DEF TableShown, s1
<1> HIDE DEF s2
<1>8. /\ s2 \in MachineState
      /\ s2.free = s1.free /\ s2.pse = s1.pse /\ s2.cr3 = s1.cr3
      /\ s1.panicked => s2.panicked
      /\ Sees(s2, W) /\ Seen(s2, t, TableSlot) = t
      /\ OnlySlot(s1, s2, W, TableSlot)
  BY <1>1, <1>5, <1>6, <1>7, ToCurrentIs
<1>9. Seen(s2, dir, DirSlot) = dir
  <2>1. ~s.pse => s2.mem[W][DirSlot] = s1.mem[W][DirSlot]
    BY <1>1, <1>2, <1>5, <1>6, <1>8, WindowIs DEF Same, OnlySlot
  <2> QED
    BY <1>1, <1>2, <1>5, <1>6, <1>8, <2>1, SlotStays DEF Same
<1>10. r = Write(s2, t, 0, Clear)
  BY <1>8 DEF TableMade, s2
<1>11. r \in MachineState /\ Same(s2, r) /\ Entries(s2, r, t, 0, Clear)
  BY <1>1, <1>8, <1>10, WriteIs
<1>12. t \in s.free /\ r.free = s.free \ {t} /\ r.pse = s.pse /\ r.cr3 = s.cr3
  BY <1>2, <1>5, <1>8, <1>11, NextFrameIs DEF Same
<1>13. Sees(r, W) /\ Seen(r, dir, DirSlot) = dir
  <2>1. ~s.pse => /\ r.mem[s.cr3][Self] = s2.mem[s.cr3][Self]
                  /\ r.mem[s.cr3][Window] = s2.mem[s.cr3][Window]
    BY <1>1, <1>11, <1>12 DEF Entries, MayMapIn
  <2>2. Sees(r, W)
    BY <1>2, <1>5, <1>8, <1>11, <2>1, SeesStays DEF Same
  <2>3. ~s.pse => r.mem[W][DirSlot] = s2.mem[W][DirSlot]
    BY <1>1, <1>2, <1>3, <1>11, <1>12, WindowIs DEF Entries, MayMapIn
  <2> QED
    BY <1>1, <1>2, <1>5, <1>8, <1>9, <1>11, <2>2, <2>3, SlotStays DEF Same
<1>14. TableEntries(s, r, W, dir, e, t, v)
  BY <1>1, <1>2, <1>5, <1>8, <1>11 DEF TableEntries, Entries, Slots, OnlySlot
<1> QED
  BY <1>1, <1>11, <1>12, <1>13, <1>14 DEF v

(* All that mapPage changes, for the frame f at entry x of the table t.    *)
PageMapped(s, r, W, dir, e, x, t, f, user) ==
    LET new == ~s.mem[dir][e].present
    IN  /\ r \in MachineState /\ t \in Frame
        /\ r.pse = s.pse /\ r.cr3 = s.cr3
        /\ new => t \in s.free /\ r.free = s.free \ {t}
        /\ ~new => t = s.mem[dir][e].frame /\ r.free = s.free
        /\ \A g \in Frame, y \in Entry :
             \/ g = W /\ y \in Slots
             \/ r.mem[g][y] = IF g = t /\ y = x THEN Ent(f, user)
                              ELSE IF new /\ g = t /\ y = 0 THEN Clear
                              ELSE IF new /\ g = dir /\ y = e THEN Ent(t, user)
                              ELSE s.mem[g][y]

LEMMA GivenPageIs ==
    ASSUME NEW s \in MachineState, NEW W, Sees(s, W),
           NEW dir, NEW e, NEW x \in Entry, NEW f \in Frame, NEW user \in BOOLEAN,
           MayMapIn(s, W, dir, e),
           s.mem[dir][e].present => /\ s.mem[dir][e].frame \notin {W, dir}
                                    /\ s.pse \/ s.mem[dir][e].frame # s.cr3,
           NEW r, r = GivenPage(s, dir, e, x, f, user), ~r.panicked
    PROVE  Sees(r, W) /\ \E t \in Frame : PageMapped(s, r, W, dir, e, x, t, f, user)
<1> DEFINE s1 == ToCurrent(s, dir, DirSlot)
           s2 == DirShown(s, dir, e, user)
           t == TableOf(s2, dir, e)
           s3 == ToCurrent(s2, t, DirSlot)
           v == Ent(f, user)
<1>1. /\ dir \in Frame /\ e \in Entry /\ v \in PageEntry
      /\ DirSlot \in Slots /\ {DirSlot, Self, Window} \subseteq Entry /\ Slots \subseteq Entry
      /\ s.cr3 \in Frame
  BY EntIs, EntriesInUse DEF MayMapIn, Slots, MachineState
<1>2. /\ s1 \in MachineState
      /\ s1.free = s.free /\ s1.pse = s.pse /\ s1.cr3 = s.cr3
      /\ Sees(s1, W) /\ Seen(s1, dir, DirSlot) = dir
      /\ OnlySlot(s, s1, W, DirSlot)
  BY <1>1, ToCurrentIs
<1>3. s1.mem[dir][e] = s.mem[dir][e] /\ MayMapIn(s1, W, dir, e)
  BY <1>1, <1>2 DEF MayMapIn, OnlySlot
<1>4. s2 = IF s1.mem[dir][e].present THEN s1 ELSE TableMade(s1, dir, e, user)
  BY <1>2, WithTableSteps DEF DirShown
<1>5. Follows(s1, s2)
  <2>1. Follows(s1, s1)
    BY <1>2 DEF Follows
  <2> QED
    BY <1>1, <1>2, <1>4, <2>1, TableMadeType
<1>6. t \in Frame
  <2>1. Seen(s2, dir, DirSlot) \in Frame
    BY <1>1, <1>5, WindowType DEF Follows
  <2> QED
    BY <1>1, <1>5, <2>1 DEF TableOf, Follows, MachineState, Memory, PageEntry
<1> HIDE DEF s1, s2, t
<1>7. r = Write(s3, Seen(s3, t, DirSlot), x, v)
  BY DEF GivenPage, PageSet, s2, t
<1>8. ~s2.panicked
  <2>1. Follows(s2, s3)
    BY <1>1, <1>5, <1>6, ToCurrentType DEF Follows
  <2> HIDE DEF s3, v
  <2>2. Follows(s3, r)
    <3>1. s3 \in MachineState
      BY <2>1 DEF Follows
    <3>2. Seen(s3, t, DirSlot) \in Frame
      BY <1>1, <1>6, <3>1, WindowType
    <3> QED
      BY <1>1, <1>7, <3>1, <3>2, WriteType
  <2> QED
    BY <2>1, <2>2 DEF Follows
<1> DEFINE new == ~s.mem[dir][e].present
           n == NextFrame(s1)
<1>9. /\ s2 \in MachineState /\ s2.pse = s.pse /\ s2.cr3 = s.cr3
      /\ Sees(s2, W) /\ Seen(s2, dir, DirSlot) = dir
  BY <1>1, <1>2, <1>3, <1>4, <1>8, TableMadeIs DEF Follows
<1>10. new => /\ n \in s.free /\ n \in Frame /\ s2.free = s.free \ {n}
              /\ TableEntries(s1, s2, W, dir, e, n, Ent(n, user))
  BY <1>1, <1>2, <1>3, <1>4, <1>8, TableMadeIs
<1>11. ~new => s2 = s1
  BY <1>3, <1>4
<1> HIDE DEF n
<1>12. t = s2.mem[dir][e].frame
  BY <1>9 DEF t, TableOf
<1>13. new => t = n
  <2> SUFFICES ASSUME new PROVE t = n
    OBVIOUS
  <2>1. s2.mem[dir][e] = Ent(n, user)
    BY <1>1, <1>10 DEF TableEntries, MayMapIn
  <2> QED
    BY <1>10, <1>12, <2>1, EntIs
<1>14. ~new => t = s.mem[dir][e].frame
  BY <1>3, <1>11, <1>12
<1>15. /\ t # dir /\ t # W
       /\ ~s.pse => t # s.cr3
  BY <1>10, <1>13, <1>14, <1>6, NextFrameIs DEF MayMapIn, Sees, NoWindow, Frame
<1>16. /\ s3 \in MachineState
       /\ s3.free = s2.free /\ s3.pse = s2.pse /\ s3.cr3 = s2.cr3
       /\ Sees(s3, W) /\ Seen(s3, t, DirSlot) = t
       /\ OnlySlot(s2, s3, W, DirSlot)
  BY <1>1, <1>6, <1>9, ToCurrentIs
<1> HIDE DEF s3, v
<1>17. r \in MachineState /\ Same(s3, r) /\ Entries(s3, r, t, x, v)
  BY <1>1, <1>6, <1>7, <1>16, WriteIs
<1>18. Sees(r, W)
  <2>1. ~s.pse => /\ r.mem[s.cr3][Self] = s3.mem[s.cr3][Self]
                  /\ r.mem[s.cr3][Window] = s3.mem[s.cr3][Window]
    BY <1>1, <1>15, <1>17 DEF Entries
  <2> QED
    BY <1>9, <1>16, <1>17, <2>1, SeesStays DEF Same
<1>19. ASSUME NEW g \in Frame, NEW y \in Entry, ~(g = W /\ y \in Slots)
       PROVE  r.mem[g][y] = IF g = t /\ y = x THEN v
                            ELSE IF new /\ g = t /\ y = 0 THEN Clear
                            ELSE IF new /\ g = dir /\ y = e THEN Ent(t, user)
                            ELSE s.mem[g][y]
  <2>1. r.mem[g][y] = IF g = t /\ y = x THEN v ELSE s3.mem[g][y]
    BY <1>17 DEF Entries
  <2>2. s3.mem[g][y] = s2.mem[g][y] /\ s1.mem[g][y] = s.mem[g][y]
    BY <1>1, <1>2, <1>16, <1>19 DEF OnlySlot
  <2>3. new => s2.mem[g][y] = IF g = t /\ y = 0 THEN Clear
                              ELSE IF g = dir /\ y = e THEN Ent(t, user) ELSE s1.mem[g][y]
    BY <1>10, <1>13, <1>19 DEF TableEntries
  <2> QED
    BY <1>11, <2>1, <2>2, <2>3
<1>20. PageMapped(s, r, W, dir, e, x, t, f, user)
  BY <1>2, <1>6, <1>9, <1>10, <1>11, <1>13, <1>14, <1>16, <1>17, <1>19 DEF PageMapped, Same, v
<1> QED
  BY <1>6, <1>18, <1>20
-----------------------------------------------------------------------------
(* The invariant gives every frame one role: that it belongs to nobody yet *)
(* (other, below the first frame of the allocator), is free, or allocated  *)
(* and not in use (loose), a directory, the window's table, the table or a *)
(* page of the kernel's heap, or a table or a page of a process.  D are the*)
(* directories there are, kd the kernel's, first the allocator's first     *)
(* frame and loose the frames that are allocated and nowhere mapped.       *)
Kind == {"other", "free", "loose", "dir", "window", "heaptable", "heappage", "table", "page"}
Role == [kind : Kind, dir : Frame, entry : Entry, page : Entry]
Is(kind, d, e, x) == [kind |-> kind, dir |-> d, entry |-> e, page |-> x]

Private == {Code, Heap, Stack}
Unused == KernelHeap + 1 .. Self - 1

(* Page x of directory entry e in the memory m.                            *)
Pres(m, d, e, x) == m[d][e].present /\ m[m[d][e].frame][x].present
Beh(m, d, e, x) == m[m[d][e].frame][x].frame

MTypes(s, D, kd, role) ==
    /\ s \in MachineState /\ ~s.pse
    /\ D \subseteq Frame /\ s.cr3 \in D /\ kd \in D
    /\ role \in [Frame -> Role]

(* Each directory maps itself, has the kernel's window and heap, and       *)
(* nothing between them and itself.                                        *)
MDirs(s, D, kd, role) ==
    \A d \in D :
        /\ role[d].kind = "dir"
        /\ s.mem[d][Self].frame = d /\ ~s.mem[d][Self].user
        /\ s.mem[d][Window] = s.mem[kd][Window]
        /\ s.mem[d][KernelHeap] = s.mem[kd][KernelHeap]
        /\ \A e \in Unused : ~s.mem[d][e].present

(* The kernel's window and heap, which no program reaches; cpyDir marks the*)
(* heap present, so that there has to be one before the first process.     *)
MKernel(s, D, kd, role) ==
    LET win == s.mem[kd][Window]
        heap == s.mem[kd][KernelHeap]
    IN  /\ win.present /\ ~win.user /\ role[win.frame].kind = "window"
        /\ heap.present => ~heap.user /\ role[heap.frame].kind = "heaptable"
        /\ heap.present \/ D = {kd}
        /\ \A x \in Entry : Pres(s.mem, kd, KernelHeap, x) =>
             LET rl == role[Beh(s.mem, kd, KernelHeap, x)]
             IN  rl.kind = "heappage" /\ rl.page = x

(* A table hangs in one place of one directory, and a page in one place of *)
(* one process's; the kernel's directory may have it too.                  *)
MTables(s, D, kd, role) ==
    \A d \in D, e \in Private : s.mem[d][e].present =>
        LET rl == role[s.mem[d][e].frame]
        IN  rl.kind = "table" /\ rl.dir = d /\ rl.entry = e

MPages(s, D, kd, role) ==
    \A d \in D, e \in Private, x \in Entry : Pres(s.mem, d, e, x) =>
        LET rl == role[Beh(s.mem, d, e, x)]
        IN  rl.kind = "page" /\ (d # kd => rl.dir = d /\ rl.entry = e /\ rl.page = x)

(* And back: a frame with a role is where its role says, so that no frame  *)
(* is lost.                                                                *)
MRole(s, D, kd, first, loose, f, rl) ==
    /\ rl.kind = "other" <=> f < first
    /\ rl.kind = "free" <=> f \in s.free
    /\ rl.kind = "loose" <=> f \in loose
    /\ rl.kind = "dir" => f \in D
    /\ rl.kind = "window" => f = s.mem[kd][Window].frame
    /\ rl.kind = "heaptable" =>
         s.mem[kd][KernelHeap].present /\ f = s.mem[kd][KernelHeap].frame
    /\ rl.kind = "heappage" =>
         Pres(s.mem, kd, KernelHeap, rl.page) /\ f = Beh(s.mem, kd, KernelHeap, rl.page)
    /\ rl.kind = "table" =>
         /\ rl.dir \in D /\ rl.entry \in Private
         /\ s.mem[rl.dir][rl.entry].present /\ f = s.mem[rl.dir][rl.entry].frame
    /\ rl.kind = "page" =>
         /\ rl.dir \in D \ {kd} /\ rl.entry \in Private
         /\ Pres(s.mem, rl.dir, rl.entry, rl.page)
         /\ f = Beh(s.mem, rl.dir, rl.entry, rl.page)

MRoles(s, D, kd, first, loose, role) ==
    \A f \in Frame : MRole(s, D, kd, first, loose, f, role[f])

(* Nobody has written to a free frame.                                     *)
MFree(s) == \A f \in s.free, y \in Entry : ~s.mem[f][y].present

MInv(s, D, kd, first, loose, role) ==
    /\ MTypes(s, D, kd, role)
    /\ MDirs(s, D, kd, role)
    /\ MKernel(s, D, kd, role)
    /\ MTables(s, D, kd, role)
    /\ MPages(s, D, kd, role)
    /\ MRoles(s, D, kd, first, loose, role)
    /\ MFree(s)

(* mapPage with all that, in the words of the invariant: entry x of the    *)
(* table t becomes f, and the table, when it is new, hangs in dir.         *)
Adds(s, r, W, dir, e, x, t, f, user) ==
    /\ r \in MachineState /\ ~r.pse /\ r.cr3 = s.cr3
    /\ t \in Frame /\ t # W /\ t # dir /\ dir # W /\ dir \in Frame /\ W \in Frame
    /\ r.free = s.free \ {t}
    /\ s.mem[dir][e].present =>
         t = s.mem[dir][e].frame /\ t \notin s.free /\ r.mem[dir][e] = s.mem[dir][e]
    /\ ~s.mem[dir][e].present => t \in s.free /\ r.mem[dir][e] = Ent(t, user)
    /\ r.mem[t][x] = Ent(f, user)
    /\ \A y \in Entry \ {x} :
         /\ r.mem[t][y].present <=> s.mem[t][y].present
         /\ s.mem[t][y].present => r.mem[t][y] = s.mem[t][y]
    /\ \A y \in Entry \ {e} : r.mem[dir][y] = s.mem[dir][y]
    /\ \A g \in Frame \ {W, t, dir}, y \in Entry : r.mem[g][y] = s.mem[g][y]

LEMMA AddsPage ==
    ASSUME NEW s, NEW D, NEW kd, NEW first, NEW loose, NEW role,
           MInv(s, D, kd, first, loose, role),
           NEW dir \in D, NEW e \in Private \cup {KernelHeap}, NEW x \in Entry,
           NEW f \in Frame, NEW user \in BOOLEAN,
           NEW r, r = GivenPage(s, dir, e, x, f, user), ~r.panicked
    PROVE  \E t \in Frame : Adds(s, r, s.mem[kd][Window].frame, dir, e, x, t, f, user)
<1> DEFINE W == s.mem[kd][Window].frame
<1>1. /\ s \in MachineState /\ ~s.pse /\ s.cr3 \in D /\ kd \in D /\ D \subseteq Frame
      /\ role \in [Frame -> Role]
  BY DEF MInv, MTypes
<1>2. /\ {Code, Heap, Stack, Window, KernelHeap, Self} \subseteq Entry
      /\ Self \notin {Code, Heap, Stack, Window, KernelHeap}
      /\ e \in Entry /\ e # Self /\ e # Window /\ 0 \in Entry
  BY EntriesInUse DEF Private, Code, Heap, Stack, Window, KernelHeap
<1>3. W \in Frame /\ role[W].kind = "window"
  BY <1>1, <1>2 DEF MInv, MKernel, MachineState, Memory, PageEntry
<1>4. /\ \A d \in D : d \in Frame /\ role[d].kind = "dir" /\ d \notin s.free /\ d # W
      /\ W \notin s.free
  BY <1>1, <1>3 DEF MInv, MDirs, MRoles, MRole
<1>5. Sees(s, W)
  BY <1>1, <1>4 DEF MInv, MDirs, Sees
<1>6. MayMapIn(s, W, dir, e)
  BY <1>1, <1>2, <1>4 DEF MayMapIn
<1>7. s.mem[dir][e].present =>
        /\ s.mem[dir][e].frame \in Frame
        /\ role[s.mem[dir][e].frame].kind \in {"table", "heaptable"}
  <2>1. s.mem[dir][e].frame \in Frame
    BY <1>1, <1>2 DEF MachineState, Memory, PageEntry
  <2>2. CASE e \in Private
    BY <2>1, <2>2 DEF MInv, MTables
  <2>3. CASE e = KernelHeap
    <3>1. s.mem[dir][e] = s.mem[kd][KernelHeap]
      BY <2>3 DEF MInv, MDirs
    <3> QED
      BY <2>1, <2>3, <3>1 DEF MInv, MKernel
  <2> QED
    BY <2>2, <2>3
<1> HIDE DEF W
<1>8. s.mem[dir][e].present => /\ s.mem[dir][e].frame \notin {W, dir} \cup s.free
                               /\ s.mem[dir][e].frame # s.cr3
  <2>1. \A g \in Frame : role[g].kind \in {"table", "heaptable"} => g \notin s.free
    BY DEF MInv, MRoles, MRole
  <2> QED
    BY <1>1, <1>3, <1>4, <1>7, <2>1
<1>9. PICK t \in Frame : PageMapped(s, r, W, dir, e, x, t, f, user)
  BY <1>1, <1>2, <1>5, <1>6, <1>8, GivenPageIs
<1>10. t # W /\ t # dir
  BY <1>4, <1>8, <1>9 DEF PageMapped
<1>11. /\ Slots \subseteq Entry
       /\ \A g \in Frame \ {W}, y \in Entry :
             r.mem[g][y] = IF g = t /\ y = x THEN Ent(f, user)
                           ELSE IF ~s.mem[dir][e].present /\ g = t /\ y = 0 THEN Clear
                           ELSE IF ~s.mem[dir][e].present /\ g = dir /\ y = e THEN Ent(t, user)
                           ELSE s.mem[g][y]
  BY <1>9, EntriesInUse DEF PageMapped, Slots
<1>12. /\ r \in MachineState /\ ~r.pse /\ r.cr3 = s.cr3
       /\ s.mem[dir][e].present => t = s.mem[dir][e].frame /\ t \notin s.free /\ r.free = s.free
       /\ ~s.mem[dir][e].present => t \in s.free /\ r.free = s.free \ {t}
  BY <1>1, <1>8, <1>9 DEF PageMapped
<1>13. r.mem[t][x] = Ent(f, user)
  BY <1>10, <1>11
<1>14. \A y \in Entry \ {x} : /\ r.mem[t][y].present <=> s.mem[t][y].present
                              /\ s.mem[t][y].present => r.mem[t][y] = s.mem[t][y]
  <2>1. \A y \in Entry : t \in s.free => ~s.mem[t][y].present
    BY DEF MInv, MFree
  <2>2. TAKE y \in Entry \ {x}
  <2>3. CASE ~s.mem[dir][e].present /\ y = 0
    BY <1>10, <1>11, <1>12, <2>1, <2>3, EntIs
  <2>4. CASE ~(~s.mem[dir][e].present /\ y = 0)
    BY <1>10, <1>11, <2>4
  <2> QED
    BY <2>3, <2>4
<1>15. /\ s.mem[dir][e].present => r.mem[dir][e] = s.mem[dir][e]
       /\ ~s.mem[dir][e].present => r.mem[dir][e] = Ent(t, user)
       /\ \A y \in Entry \ {e} : r.mem[dir][y] = s.mem[dir][y]
  BY <1>2, <1>4, <1>10, <1>11
<1>16. \A g \in Frame \ {W, t, dir}, y \in Entry : r.mem[g][y] = s.mem[g][y]
  BY <1>11
<1>17. r.free = s.free \ {t}
  BY <1>12
<1>18. Adds(s, r, W, dir, e, x, t, f, user)
  BY <1>3, <1>4, <1>10, <1>12, <1>13, <1>14, <1>15, <1>16, <1>17 DEF Adds
<1> QED
  BY <1>18 DEF W
-----------------------------------------------------------------------------
(* The tables behind the entries of the directories, before and after.     *)
Mappable == Private \cup {KernelHeap}
Hits(dir, e, d2, e2) == e2 = e /\ (d2 = dir \/ e = KernelHeap)

LEMMA MappableIs ==
    /\ Mappable \subseteq Entry \ {Self, Window} /\ Private \subseteq Entry
    /\ KernelHeap \notin Private
    /\ \A e \in Unused : e \in Entry /\ e \notin Mappable \cup {Self, Window}
BY PagingAssumption DEF Mappable, Private, Unused, Entry, Code, Heap, Stack, Window, KernelHeap, Self

LEMMA TableRole ==
    ASSUME NEW s, NEW D, NEW kd, NEW first, NEW loose, NEW role,
           MInv(s, D, kd, first, loose, role),
           NEW d \in D, NEW e \in Mappable, s.mem[d][e].present
    PROVE  /\ s.mem[d][e].frame \in Frame
           /\ e # KernelHeap => LET rl == role[s.mem[d][e].frame]
                                IN  rl.kind = "table" /\ rl.dir = d /\ rl.entry = e
           /\ e = KernelHeap => /\ role[s.mem[d][e].frame].kind = "heaptable"
                                /\ s.mem[d][e] = s.mem[kd][e] /\ ~s.mem[d][e].user
<1>1. d \in Frame /\ e \in Entry /\ s \in MachineState
  BY MappableIs DEF MInv, MTypes
<1>2. s.mem[d][e].frame \in Frame
  BY <1>1 DEF MachineState, Memory, PageEntry
<1> QED
  BY <1>2 DEF MInv, MTables, MKernel, MDirs, Mappable

(* The same with a name for the frame and one for what its role says.      *)
HoldsTable(rl, d, e) ==
    IF e = KernelHeap THEN rl.kind = "heaptable"
    ELSE rl.kind = "table" /\ rl.dir = d /\ rl.entry = e

LEMMA TableFrame ==
    ASSUME NEW s, NEW D, NEW kd, NEW first, NEW loose, NEW role,
           MInv(s, D, kd, first, loose, role),
           NEW d \in D, NEW e \in Mappable, s.mem[d][e].present,
           NEW f, f = s.mem[d][e].frame
    PROVE  HoldsTable(role[f], d, e)
BY TableRole DEF HoldsTable

LEMMA FrameRoles ==
    ASSUME NEW s, NEW D, NEW kd, NEW first, NEW loose, NEW role,
           MInv(s, D, kd, first, loose, role)
    PROVE  /\ s \in MachineState /\ D \subseteq Frame /\ kd \in D
           /\ \A d \in D : role[d].kind = "dir"
           /\ s.mem[kd][Window].frame \in Frame
           /\ role[s.mem[kd][Window].frame].kind = "window"
           /\ \A f \in Frame : f \in s.free <=> role[f].kind = "free"
           /\ \A f \in Frame : f \in loose <=> role[f].kind = "loose"
<1>1. s \in MachineState /\ D \subseteq Frame /\ kd \in D /\ Window \in Entry
  BY EntriesInUse DEF MInv, MTypes
<1>2. s.mem[kd][Window].frame \in Frame
  BY <1>1 DEF MachineState, Memory, PageEntry
<1> QED
  BY <1>1, <1>2 DEF MInv, MDirs, MKernel, MRoles, MRole

LEMMA TableAfter ==
    ASSUME NEW s, NEW D, NEW kd, NEW first, NEW loose, NEW role,
           MInv(s, D, kd, first, loose, role),
           NEW dir \in D, NEW e \in Mappable, NEW x \in Entry,
           NEW f \in Frame, NEW user \in BOOLEAN, NEW t \in Frame, NEW r,
           NEW W, W = s.mem[kd][Window].frame,
           Adds(s, r, W, dir, e, x, t, f, user),
           NEW d2 \in D, NEW e2 \in Mappable
    PROVE  /\ r.mem[d2][e2].present <=> s.mem[d2][e2].present \/ (d2 = dir /\ e2 = e)
           /\ s.mem[d2][e2].present => r.mem[d2][e2] = s.mem[d2][e2]
           /\ Hits(dir, e, d2, e2) => r.mem[d2][e2].present /\ r.mem[d2][e2].frame = t
           /\ r.mem[d2][e2].present /\ ~Hits(dir, e, d2, e2) =>
                s.mem[d2][e2].present /\ s.mem[d2][e2].frame \in Frame \ {W, t, dir}
<1>1. e \in Entry /\ e2 \in Entry /\ d2 \in Frame /\ dir \in Frame
  BY MappableIs, FrameRoles
<1>2. d2 # W /\ d2 # t
  <2>1. s.mem[dir][e].present => role[t].kind \in {"table", "heaptable"}
    BY TableRole DEF Adds
  <2>2. ~s.mem[dir][e].present => role[t].kind = "free"
    BY FrameRoles DEF Adds
  <2> QED
    BY <2>1, <2>2, FrameRoles
<1>3. CASE d2 = dir /\ e2 = e
  BY <1>3, EntIs DEF Adds, Hits
<1>4. CASE ~(d2 = dir /\ e2 = e)
  <2>1. r.mem[d2][e2] = s.mem[d2][e2]
    BY <1>1, <1>2, <1>4 DEF Adds
  <2>2. CASE e = KernelHeap /\ e2 = KernelHeap
    <3>1. s.mem[dir][e].present
      BY <1>4, <2>2 DEF MInv, MKernel, MDirs
    <3>2. s.mem[dir][e] = s.mem[d2][e2]
      BY <2>2 DEF MInv, MDirs
    <3> QED
      BY <2>1, <2>2, <3>1, <3>2 DEF Adds, Hits
  <2>3. CASE ~(e = KernelHeap /\ e2 = KernelHeap)
    <3>1. ~Hits(dir, e, d2, e2)
      BY <1>4, <2>3 DEF Hits
    <3>2. ASSUME s.mem[d2][e2].present
          PROVE  s.mem[d2][e2].frame \in Frame \ {W, t, dir}
      <4>1. /\ s.mem[d2][e2].frame \in Frame
            /\ role[s.mem[d2][e2].frame].kind \in {"table", "heaptable"}
        BY <3>2, TableRole
      <4>2. s.mem[d2][e2].frame # t
        <5>1. CASE ~s.mem[dir][e].present
          <6>1. role[t].kind = "free"
            BY <5>1, FrameRoles DEF Adds
          <6> QED
            BY <4>1, <6>1
        <5>2. CASE s.mem[dir][e].present
          <6>1. t = s.mem[dir][e].frame
            BY <5>2 DEF Adds
          <6> QED
            <7>1. HoldsTable(role[t], dir, e)
              BY <5>2, <6>1, TableFrame
            <7>2. HoldsTable(role[s.mem[d2][e2].frame], d2, e2)
              BY <3>2, TableFrame
            <7> QED
              BY <1>4, <2>3, <7>1, <7>2 DEF HoldsTable
        <5> QED
          BY <5>1, <5>2
      <4> QED
        BY <4>1, <4>2, FrameRoles
    <3> QED
      BY <1>4, <2>1, <3>1, <3>2
  <2> QED
    BY <2>2, <2>3
<1> QED
  BY <1>3, <1>4

(* The pages behind them: one more.                                        *)
LEMMA PagesAfter ==
    ASSUME NEW s, NEW D, NEW kd, NEW first, NEW loose, NEW role,
           MInv(s, D, kd, first, loose, role),
           NEW dir \in D, NEW e \in Mappable, NEW x \in Entry,
           NEW f \in Frame, NEW user \in BOOLEAN, NEW t \in Frame, NEW r,
           NEW W, W = s.mem[kd][Window].frame,
           Adds(s, r, W, dir, e, x, t, f, user),
           NEW d2 \in D, NEW e2 \in Mappable, NEW y \in Entry
    PROVE  LET hit == Hits(dir, e, d2, e2) /\ y = x
           IN  /\ hit => Pres(r.mem, d2, e2, y) /\ Beh(r.mem, d2, e2, y) = f
               /\ ~hit => /\ Pres(r.mem, d2, e2, y) <=> Pres(s.mem, d2, e2, y)
                          /\ Pres(s.mem, d2, e2, y) => Beh(r.mem, d2, e2, y) = Beh(s.mem, d2, e2, y)
<1>1. CASE Hits(dir, e, d2, e2)
  <2>1. r.mem[d2][e2].present /\ r.mem[d2][e2].frame = t
    BY <1>1, TableAfter
  <2>2. CASE y = x
    <3>1. r.mem[t][x] = Ent(f, user)
      BY DEF Adds
    <3>2. r.mem[t][x].present /\ r.mem[t][x].frame = f
      BY <3>1, EntIs
    <3> QED
      BY <1>1, <2>1, <2>2, <3>2 DEF Pres, Beh
  <2>3. CASE y # x
    <3>1. CASE s.mem[d2][e2].present
      <4>1. s.mem[d2][e2].frame = t
        BY <2>1, <3>1, TableAfter
      <4> QED
        BY <2>1, <2>3, <3>1, <4>1 DEF Adds, Pres, Beh
    <3>2. CASE ~s.mem[d2][e2].present
      <4>1. d2 = dir /\ e2 = e
        BY <2>1, <3>2, TableAfter
      <4>2. t \in s.free
        BY <3>2, <4>1 DEF Adds
      <4>3. ~s.mem[t][y].present
        BY <4>2 DEF MInv, MFree
      <4> QED
        BY <2>1, <2>3, <3>2, <4>3 DEF Adds, Pres, Beh
    <3> QED
      BY <3>1, <3>2
  <2> QED
    BY <1>1, <2>2, <2>3
<1>2. CASE ~Hits(dir, e, d2, e2)
  <2>1. CASE r.mem[d2][e2].present
    <3>1. s.mem[d2][e2].present /\ s.mem[d2][e2].frame \in Frame \ {W, t, dir}
      BY <1>2, <2>1, TableAfter
    <3>2. r.mem[d2][e2] = s.mem[d2][e2]
      BY <3>1, TableAfter
    <3>3. r.mem[s.mem[d2][e2].frame][y] = s.mem[s.mem[d2][e2].frame][y]
      BY <3>1 DEF Adds
    <3>4. /\ Pres(r.mem, d2, e2, y) <=> Pres(s.mem, d2, e2, y)
          /\ Beh(r.mem, d2, e2, y) = Beh(s.mem, d2, e2, y)
      BY <3>2, <3>3 DEF Pres, Beh
    <3> QED
      BY <1>2, <3>4
  <2>2. CASE ~r.mem[d2][e2].present
    <3>1. ~s.mem[d2][e2].present
      BY <2>2, TableAfter
    <3> QED
      BY <1>2, <2>2, <3>1 DEF Pres
  <2> QED
    BY <2>1, <2>2
<1> QED
  BY <1>1, <1>2
-----------------------------------------------------------------------------
(* The three ways the frame f gets behind page x of entry e: as a page of  *)
(* the kernel's heap, as a page of a process, and, when it is one already, *)
(* as a page of the kernel's own directory too.                            *)
Fills(s, kd, role, dir, e, x, f, user, now) ==
    \/ /\ e = KernelHeap /\ user = FALSE /\ role[f].kind = "loose"
       /\ now = Is("heappage", 0, 0, x) /\ ~Pres(s.mem, kd, KernelHeap, x)
    \/ /\ e \in Private /\ dir # kd /\ role[f].kind = "loose"
       /\ now = Is("page", dir, e, x) /\ ~Pres(s.mem, dir, e, x)
    \/ /\ e \in Private /\ dir = kd /\ role[f].kind = "page" /\ now = role[f]

TableIs(dir, e) == IF e = KernelHeap THEN Is("heaptable", 0, 0, 0) ELSE Is("table", dir, e, 0)

RolesAfter(role, role2, dir, e, t, f, now) ==
    /\ role2 \in [Frame -> Role]
    /\ role2[f] = now /\ role2[t] = TableIs(dir, e)
    /\ \A g \in Frame \ {f, t} : role2[g] = role[g]

LEMMA IsIs ==
    ASSUME NEW k \in Kind, NEW d \in Frame, NEW e \in Entry, NEW x \in Entry
    PROVE  /\ Is(k, d, e, x) \in Role
           /\ Is(k, d, e, x).kind = k /\ Is(k, d, e, x).dir = d
           /\ Is(k, d, e, x).entry = e /\ Is(k, d, e, x).page = x
BY DEF Is, Role

LEMMA KeptStructure ==
    ASSUME NEW s, NEW D, NEW kd, NEW first, NEW loose, NEW role,
           MInv(s, D, kd, first, loose, role),
           NEW dir \in D, NEW e \in Mappable, NEW x \in Entry,
           NEW f \in Frame, NEW user \in BOOLEAN, NEW t \in Frame, NEW r,
           Adds(s, r, s.mem[kd][Window].frame, dir, e, x, t, f, user),
           NEW now \in Role, Fills(s, kd, role, dir, e, x, f, user, now)
    PROVE  \E role2 : MInv(r, D, kd, first, loose \ {f}, role2)
<1> DEFINE W == s.mem[kd][Window].frame
           role2 == [role EXCEPT ![f] = now, ![t] = TableIs(dir, e)]
<1>1. /\ s \in MachineState /\ r \in MachineState /\ D \subseteq Frame /\ kd \in D
      /\ role \in [Frame -> Role] /\ W \in Frame /\ role[W].kind = "window"
      /\ \A d \in D : d \in Frame /\ role[d].kind = "dir"
      /\ {Self, Window, KernelHeap} \subseteq Entry /\ e \in Entry
      /\ e # Self /\ e # Window /\ e \notin Unused
      /\ \A y \in Unused : y \in Entry
  BY FrameRoles, MappableIs, EntriesInUse DEF MInv, MTypes, Adds
<1>2. /\ 0 \in Frame /\ 0 \in Entry
      /\ {"heaptable", "table", "heappage", "page"} \subseteq Kind
  BY PagingAssumption DEF Frame, Entry, Kind
<1>3. /\ role[f].kind \in {"loose", "page"}
      /\ role[t].kind \in {"free", "table", "heaptable"}
      /\ f # t
  <2>1. role[f].kind \in {"loose", "page"}
    BY DEF Fills
  <2>2. role[t].kind \in {"free", "table", "heaptable"}
    BY FrameRoles, TableRole DEF Adds
  <2> QED
    BY <2>1, <2>2
<1>4. /\ TableIs(dir, e) \in Role
      /\ e = KernelHeap => TableIs(dir, e).kind = "heaptable"
      /\ e # KernelHeap => /\ TableIs(dir, e).kind = "table"
                           /\ TableIs(dir, e).dir = dir /\ TableIs(dir, e).entry = e
  BY <1>1, <1>2, IsIs DEF TableIs
<1>5. RolesAfter(role, role2, dir, e, t, f, now)
  BY <1>1, <1>3, <1>4 DEF RolesAfter
<1> HIDE DEF role2, W
<1>6. \A d \in D, y \in Entry : ~(d = dir /\ y = e) => r.mem[d][y] = s.mem[d][y]
  <2>1. Adds(s, r, W, dir, e, x, t, f, user)
    BY DEF W
  <2>2. \A d \in D : d # W /\ d # t
    BY <1>1, <1>3
  <2> QED
    BY <1>1, <2>1, <2>2 DEF Adds
<1>7. MTypes(r, D, kd, role2)
  BY <1>5 DEF MInv, MTypes, Adds, RolesAfter
<1>8. \A d \in D : role2[d] = role[d]
  BY <1>1, <1>3, <1>5 DEF RolesAfter
<1>9. r.mem[kd][Window] = s.mem[kd][Window]
  BY <1>1, <1>6
<1>10. MDirs(r, D, kd, role2)
  <2> SUFFICES ASSUME NEW d \in D
               PROVE  /\ role2[d].kind = "dir"
                      /\ r.mem[d][Self].frame = d /\ ~r.mem[d][Self].user
                      /\ r.mem[d][Window] = r.mem[kd][Window]
                      /\ r.mem[d][KernelHeap] = r.mem[kd][KernelHeap]
                      /\ \A y \in Unused : ~r.mem[d][y].present
    BY DEF MDirs
  <2>1. r.mem[d][KernelHeap] = r.mem[kd][KernelHeap]
    <3>1. CASE D = {kd}
      BY <3>1
    <3>2. CASE D # {kd}
      <4>1. s.mem[d][KernelHeap].present /\ s.mem[kd][KernelHeap].present
        BY <3>2 DEF MInv, MKernel, MDirs
      <4>2. KernelHeap \in Mappable
        BY DEF Mappable
      <4>3. /\ r.mem[d][KernelHeap] = s.mem[d][KernelHeap]
            /\ r.mem[kd][KernelHeap] = s.mem[kd][KernelHeap]
        BY <1>1, <4>1, <4>2, TableAfter, SMTT(30)
      <4> QED
        BY <4>3 DEF MInv, MDirs
    <3> QED
      BY <3>1, <3>2
  <2> QED
    BY <1>1, <1>6, <1>8, <2>1 DEF MInv, MDirs
<1>11. \A g \in Frame : role[g].kind \in {"window", "heappage", "dir"} => role2[g] = role[g]
  BY <1>3, <1>5 DEF RolesAfter
<1>12. KernelHeap \in Mappable /\ Private \subseteq Mappable
  BY DEF Mappable
<1>13. ASSUME NEW d \in D, NEW e2 \in Mappable, r.mem[d][e2].present
       PROVE  LET rl == role2[r.mem[d][e2].frame]
              IN  /\ e2 # KernelHeap => rl.kind = "table" /\ rl.dir = d /\ rl.entry = e2
                  /\ e2 = KernelHeap => rl.kind = "heaptable"
  <2>1. CASE Hits(dir, e, d, e2)
    <3>1. r.mem[d][e2].frame = t
      BY <2>1, TableAfter
    <3> QED
      BY <1>4, <1>5, <2>1, <3>1 DEF Hits, RolesAfter
  <2>2. CASE ~Hits(dir, e, d, e2)
    <3> DEFINE T == s.mem[d][e2].frame
    <3>1. s.mem[d][e2].present /\ r.mem[d][e2] = s.mem[d][e2] /\ T \in Frame /\ T # t
      BY <1>13, <2>2, TableAfter
    <3>2. /\ e2 # KernelHeap => role[T].kind = "table" /\ role[T].dir = d /\ role[T].entry = e2
          /\ e2 = KernelHeap => role[T].kind = "heaptable"
      <4>1. s.mem[d][e2].present
        BY <3>1
      <4> HIDE DEF T
      <4>2. T = s.mem[d][e2].frame
        BY DEF T
      <4>3. HoldsTable(role[T], d, e2)
        BY <4>1, <4>2, TableFrame
      <4> QED
        BY <4>3 DEF HoldsTable
    <3>3. role2[T] = role[T]
      BY <1>3, <1>5, <3>1, <3>2 DEF RolesAfter
    <3> QED
      BY <3>1, <3>2, <3>3
  <2> QED
    BY <2>1, <2>2
<1>14. MTables(r, D, kd, role2)
  BY <1>12, <1>13, MappableIs DEF MTables
<1>15. ASSUME NEW d \in D, NEW e2 \in Mappable, NEW y \in Entry,
              Hits(dir, e, d, e2) /\ y = x
       PROVE  Pres(r.mem, d, e2, y) /\ Beh(r.mem, d, e2, y) = f /\ role2[f] = now
  BY <1>15, <1>5, PagesAfter DEF RolesAfter
<1>16. ASSUME NEW d \in D, NEW e2 \in Mappable, NEW y \in Entry,
              ~(Hits(dir, e, d, e2) /\ y = x)
       PROVE  /\ Pres(r.mem, d, e2, y) <=> Pres(s.mem, d, e2, y)
              /\ Pres(s.mem, d, e2, y) => Beh(r.mem, d, e2, y) = Beh(s.mem, d, e2, y)
  BY <1>16, PagesAfter
<1>17. ASSUME NEW d \in D, NEW e2 \in Mappable, NEW y \in Entry, s.mem[d][e2].present
       PROVE  Beh(s.mem, d, e2, y) \in Frame
  <2>1. s.mem[d][e2].frame \in Frame
    BY <1>17, TableRole
  <2>2. \A g \in Frame, z \in Entry : s.mem[g][z].frame \in Frame
    BY <1>1 DEF MachineState, Memory, PageEntry
  <2> QED
    BY <2>1, <2>2 DEF Beh
<1>18. MKernel(r, D, kd, role2)
  <2>1. /\ r.mem[kd][Window].present /\ ~r.mem[kd][Window].user
        /\ role2[r.mem[kd][Window].frame].kind = "window"
    BY <1>1, <1>9, <1>11 DEF MInv, MKernel, W
  <2>2. r.mem[kd][KernelHeap].present =>
          /\ role2[r.mem[kd][KernelHeap].frame].kind = "heaptable"
          /\ ~r.mem[kd][KernelHeap].user
    <3> SUFFICES ASSUME r.mem[kd][KernelHeap].present
                 PROVE  ~r.mem[kd][KernelHeap].user
      BY <1>1, <1>12, <1>13
    <3>1. CASE s.mem[kd][KernelHeap].present
      <4>1. r.mem[kd][KernelHeap] = s.mem[kd][KernelHeap]
        BY <1>1, <1>12, <3>1, TableAfter
      <4> QED
        BY <3>1, <4>1 DEF MInv, MKernel
    <3>2. CASE ~s.mem[kd][KernelHeap].present
      <4>1. kd = dir /\ KernelHeap = e
        BY <1>1, <1>12, <3>2, TableAfter, SMTT(30)
      <4>2. user = FALSE
        BY <4>1, MappableIs DEF Fills
      <4>3. r.mem[kd][KernelHeap] = Ent(t, user)
        BY <3>2, <4>1 DEF Adds
      <4>4. Ent(t, user).user = user
        BY EntIs
      <4> QED
        BY <4>2, <4>3, <4>4
    <3> QED
      BY <3>1, <3>2
  <2>3. r.mem[kd][KernelHeap].present \/ D = {kd}
    <3>1. s.mem[kd][KernelHeap].present => r.mem[kd][KernelHeap].present
      BY <1>1, <1>12, TableAfter
    <3> QED
      BY <3>1 DEF MInv, MKernel
  <2>4. ASSUME NEW y \in Entry, Pres(r.mem, kd, KernelHeap, y)
        PROVE  /\ role2[Beh(r.mem, kd, KernelHeap, y)].kind = "heappage"
               /\ role2[Beh(r.mem, kd, KernelHeap, y)].page = y
    <3>1. CASE Hits(dir, e, kd, KernelHeap) /\ y = x
      <4>1. now = Is("heappage", 0, 0, x)
        BY <3>1, MappableIs DEF Hits, Fills
      <4>2. now.kind = "heappage" /\ now.page = x
        BY <1>2, <4>1, IsIs
      <4> QED
        BY <1>1, <1>12, <1>15, <3>1, <4>2
    <3>2. CASE ~(Hits(dir, e, kd, KernelHeap) /\ y = x)
      <4>1. /\ Pres(s.mem, kd, KernelHeap, y)
            /\ Beh(r.mem, kd, KernelHeap, y) = Beh(s.mem, kd, KernelHeap, y)
        BY <1>1, <1>12, <1>16, <2>4, <3>2
      <4>2. Beh(s.mem, kd, KernelHeap, y) \in Frame
        BY <1>1, <1>12, <1>17, <4>1 DEF Pres
      <4>3. /\ role[Beh(s.mem, kd, KernelHeap, y)].kind = "heappage"
            /\ role[Beh(s.mem, kd, KernelHeap, y)].page = y
        BY <4>1 DEF MInv, MKernel
      <4> QED
        BY <1>11, <4>1, <4>2, <4>3
    <3> QED
      BY <3>1, <3>2
  <2> QED
    BY <2>1, <2>2, <2>3, <2>4 DEF MKernel
<1>19. MPages(r, D, kd, role2)
  <2> SUFFICES ASSUME NEW d \in D, NEW e2 \in Private, NEW y \in Entry, Pres(r.mem, d, e2, y)
               PROVE  LET rl == role2[Beh(r.mem, d, e2, y)]
                      IN  rl.kind = "page" /\ (d # kd => rl.dir = d /\ rl.entry = e2 /\ rl.page = y)
    BY DEF MPages
  <2>0. e2 \in Mappable /\ e2 # KernelHeap
    BY MappableIs, <1>12
  <2>1. CASE Hits(dir, e, d, e2) /\ y = x
    <3>1. d = dir /\ e2 = e
      BY <2>0, <2>1 DEF Hits
    <3>2. role2[Beh(r.mem, d, e2, y)] = now
      BY <1>15, <2>0, <2>1
    <3>3. CASE dir = kd
      BY <2>0, <3>1, <3>2, <3>3 DEF Fills
    <3>4. CASE dir # kd
      <4>1. now = Is("page", dir, e, x)
        BY <2>0, <3>1, <3>4 DEF Fills
      <4> QED
        BY <2>1, <3>1, <3>2, <4>1 DEF Is
    <3> QED
      BY <3>3, <3>4
  <2>2. CASE ~(Hits(dir, e, d, e2) /\ y = x)
    <3> DEFINE g == Beh(s.mem, d, e2, y)
    <3>1. Pres(s.mem, d, e2, y) /\ Beh(r.mem, d, e2, y) = g
      BY <1>16, <2>0, <2>2
    <3>2. g \in Frame
      BY <1>17, <2>0, <3>1 DEF Pres
    <3>3. role[g].kind = "page" /\ (d # kd => role[g].dir = d /\ role[g].entry = e2 /\ role[g].page = y)
      BY <3>1 DEF MInv, MPages
    <3> HIDE DEF g
    <3>4. role2[g] = role[g]
      <4>1. g = f => now = role[f]
        BY <2>0, <3>3 DEF Fills
      <4>2. g # t
        BY <1>3, <3>3
      <4> QED
        BY <1>5, <3>2, <4>1, <4>2 DEF RolesAfter
    <3> QED
      BY <3>1, <3>3, <3>4
  <2> QED
    BY <2>1, <2>2
<1>20. MRoles(r, D, kd, first, loose \ {f}, role2)
  <2>0. /\ \A g \in Frame : /\ role[g].kind = "other" <=> g < first
                            /\ role[g].kind = "free" <=> g \in s.free
                            /\ role[g].kind = "loose" <=> g \in loose
        /\ r.free = s.free \ {t}
        /\ now.kind \in {"heappage", "page"}
    <3>1. now.kind \in {"heappage", "page"}
      BY DEF Fills, Is
    <3> QED
      BY <3>1 DEF MInv, MRoles, MRole, Adds
  <2>1. ASSUME NEW g \in Frame
        PROVE  /\ role2[g].kind = "other" <=> g < first
               /\ role2[g].kind = "free" <=> g \in r.free
               /\ role2[g].kind = "loose" <=> g \in loose \ {f}
    <3>1. CASE g = t
      BY <1>3, <1>4, <1>5, <2>0, <3>1 DEF RolesAfter
    <3>2. CASE g = f
      BY <1>3, <1>5, <2>0, <3>2 DEF RolesAfter
    <3>3. CASE g \notin {f, t}
      BY <1>5, <2>0, <3>3 DEF RolesAfter
    <3> QED
      BY <3>1, <3>2, <3>3
  <2>2. ASSUME NEW g \in Frame
        PROVE  /\ role2[g].kind = "dir" => g \in D
               /\ role2[g].kind = "window" => g = r.mem[kd][Window].frame
    <3>1. CASE g = t
      BY <1>4, <1>5, <3>1 DEF RolesAfter
    <3>2. CASE g = f
      BY <1>5, <2>0, <3>2 DEF RolesAfter
    <3>3. CASE g \notin {f, t}
      BY <1>5, <1>9, <3>3 DEF RolesAfter, MInv, MRoles, MRole
    <3> QED
      BY <3>1, <3>2, <3>3
  <2>3. ASSUME NEW g \in Frame
        PROVE  /\ role2[g].kind = "heaptable" =>
                    r.mem[kd][KernelHeap].present /\ g = r.mem[kd][KernelHeap].frame
               /\ role2[g].kind = "table" =>
                    /\ role2[g].dir \in D /\ role2[g].entry \in Private
                    /\ r.mem[role2[g].dir][role2[g].entry].present
                    /\ g = r.mem[role2[g].dir][role2[g].entry].frame
    <3>1. CASE g = t
      <4>1. CASE e = KernelHeap
        <5>1. Hits(dir, e, kd, KernelHeap)
          BY <4>1 DEF Hits
        <5> QED
          <6>1. role2[g].kind = "heaptable"
            BY <1>4, <1>5, <3>1, <4>1 DEF RolesAfter
          <6>2. r.mem[kd][KernelHeap].present /\ r.mem[kd][KernelHeap].frame = t
            BY <1>1, <1>12, <5>1, TableAfter
          <6> QED
            BY <3>1, <6>1, <6>2
      <4>2. CASE e # KernelHeap
        <5>1. Hits(dir, e, dir, e) /\ e \in Private
          BY <4>2 DEF Hits, Mappable
        <5> QED
          <6>1. role2[g].kind = "table" /\ role2[g].dir = dir /\ role2[g].entry = e
            BY <1>4, <1>5, <3>1, <4>2 DEF RolesAfter
          <6>2. r.mem[dir][e].present /\ r.mem[dir][e].frame = t
            BY <1>1, <5>1, TableAfter
          <6> QED
            BY <3>1, <5>1, <6>1, <6>2
      <4> QED
        BY <4>1, <4>2
    <3>2. CASE g = f
      BY <1>5, <2>0, <3>2 DEF RolesAfter
    <3>3. CASE g \notin {f, t}
      <4>1. role2[g] = role[g]
        BY <1>5, <3>3 DEF RolesAfter
      <4>2. role[g].kind = "heaptable" =>
              s.mem[kd][KernelHeap].present /\ g = s.mem[kd][KernelHeap].frame
        BY DEF MInv, MRoles, MRole
      <4>3. role[g].kind = "table" =>
              /\ role[g].dir \in D /\ role[g].entry \in Private
              /\ s.mem[role[g].dir][role[g].entry].present
              /\ g = s.mem[role[g].dir][role[g].entry].frame
        BY DEF MInv, MRoles, MRole
      <4>4. ASSUME NEW d \in D, NEW e2 \in Mappable, s.mem[d][e2].present
            PROVE  r.mem[d][e2] = s.mem[d][e2]
        BY <4>4, TableAfter
      <4> QED
        BY <1>1, <1>12, <4>1, <4>2, <4>3, <4>4
    <3> QED
      BY <3>1, <3>2, <3>3
  <2>4. ASSUME NEW g \in Frame, role2[g].kind = "heappage"
        PROVE  /\ Pres(r.mem, kd, KernelHeap, role2[g].page)
               /\ g = Beh(r.mem, kd, KernelHeap, role2[g].page)
    <3>1. CASE g = t
      BY <1>4, <1>5, <2>4, <3>1 DEF RolesAfter
    <3>2. CASE g = f
      <4>1. role2[f] = now
        BY <1>5 DEF RolesAfter
      <4>2. now = Is("heappage", 0, 0, x) /\ e = KernelHeap
        <5>1. "heappage" # "page" /\ Is("page", dir, e, x).kind = "page"
          BY <1>1, <1>2, IsIs
        <5> QED
          BY <1>3, <2>4, <3>2, <4>1, <5>1 DEF Fills
      <4>3. now.page = x
        BY <1>2, <4>2, IsIs
      <4>4. Hits(dir, e, kd, KernelHeap)
        BY <4>2 DEF Hits
      <4> QED
        BY <1>1, <1>12, <1>15, <3>2, <4>1, <4>3, <4>4
    <3>3. CASE g \notin {f, t}
      <4>1. role2[g] = role[g] /\ role[g].page \in Entry
        BY <1>1, <1>5, <3>3 DEF RolesAfter, Role
      <4>2. /\ Pres(s.mem, kd, KernelHeap, role[g].page)
            /\ g = Beh(s.mem, kd, KernelHeap, role[g].page)
        BY <2>4, <4>1 DEF MInv, MRoles, MRole
      <4>3. ~(Hits(dir, e, kd, KernelHeap) /\ role[g].page = x)
        BY <4>2, MappableIs DEF Hits, Fills
      <4> QED
        BY <1>1, <1>12, <1>16, <4>1, <4>2, <4>3
    <3> QED
      BY <3>1, <3>2, <3>3
  <2>5. ASSUME NEW g \in Frame, role2[g].kind = "page"
        PROVE  /\ role2[g].dir \in D \ {kd} /\ role2[g].entry \in Private
               /\ Pres(r.mem, role2[g].dir, role2[g].entry, role2[g].page)
               /\ g = Beh(r.mem, role2[g].dir, role2[g].entry, role2[g].page)
    <3>0. ASSUME role[g].kind = "page"
          PROVE  /\ role[g].dir \in D \ {kd} /\ role[g].entry \in Private
                 /\ role[g].dir \in D /\ role[g].entry \in Mappable /\ role[g].page \in Entry
                 /\ Pres(s.mem, role[g].dir, role[g].entry, role[g].page)
                 /\ g = Beh(s.mem, role[g].dir, role[g].entry, role[g].page)
                 /\ ~(Hits(dir, e, role[g].dir, role[g].entry) /\ role[g].page = x)
      <4>1. /\ role[g].dir \in D \ {kd} /\ role[g].entry \in Private
            /\ role[g].page \in Entry
            /\ Pres(s.mem, role[g].dir, role[g].entry, role[g].page)
            /\ g = Beh(s.mem, role[g].dir, role[g].entry, role[g].page)
        BY <1>1, <3>0 DEF MInv, MRoles, MRole, Role
      <4>2. ~(Hits(dir, e, role[g].dir, role[g].entry) /\ role[g].page = x)
        BY <4>1, MappableIs DEF Hits, Fills
      <4> QED
        BY <1>12, <4>1, <4>2
    <3>1. CASE g = t
      BY <1>4, <1>5, <2>5, <3>1 DEF RolesAfter
    <3>2. CASE g = f
      <4>1. role2[f] = now
        BY <1>5 DEF RolesAfter
      <4>2. CASE now = role[f]
        BY <1>16, <2>5, <3>0, <3>2, <4>1, <4>2
      <4>3. CASE now # role[f]
        <5>1. Is("heappage", 0, 0, x).kind = "heappage"
          BY <1>2, IsIs
        <5>2. now = Is("page", dir, e, x) /\ e \in Private /\ dir # kd
          BY <2>5, <3>2, <4>1, <4>3, <5>1 DEF Fills
        <5>3. now.dir = dir /\ now.entry = e /\ now.page = x
          BY <5>2 DEF Is
        <5>4. Hits(dir, e, dir, e)
          BY DEF Hits
        <5> QED
          BY <1>1, <1>15, <3>2, <4>1, <5>2, <5>3, <5>4
      <4> QED
        BY <4>2, <4>3
    <3>3. CASE g \notin {f, t}
      <4>1. role2[g] = role[g]
        BY <1>5, <3>3 DEF RolesAfter
      <4> QED
        BY <1>16, <2>5, <3>0, <4>1
    <3> QED
      BY <3>1, <3>2, <3>3
  <2> HIDE DEF role2
  <2> QED
    BY <2>1, <2>2, <2>3, <2>4, <2>5 DEF MRoles, MRole
<1>21. MFree(r)
  <2> SUFFICES ASSUME NEW g \in r.free, NEW y \in Entry
               PROVE  ~r.mem[g][y].present
    BY DEF MFree
  <2>1. g \in s.free /\ g # t /\ g \in Frame
    BY <1>1 DEF Adds, MachineState
  <2>2. role[g].kind = "free"
    BY <2>1, FrameRoles
  <2>3. g # W /\ g # dir
    BY <1>1, <2>2
  <2>4. r.mem[g][y] = s.mem[g][y]
    BY <2>1, <2>3 DEF Adds, W
  <2> QED
    BY <2>1, <2>4 DEF MInv, MFree
<1> QED
  BY <1>7, <1>10, <1>14, <1>18, <1>19, <1>20, <1>21 DEF MInv
-----------------------------------------------------------------------------
(* The invariant without its witness, and what it survives.                *)
MState(s, D, kd, first, loose) == \E role : MInv(s, D, kd, first, loose, role)

(* Page y of entry e2 of every directory after f is put behind page x.     *)
Placed(s, r, D, dir, e, x, f) ==
    /\ r.free \subseteq s.free
    /\ \A d2 \in D, e2 \in Mappable, y \in Entry :
         LET hit == Hits(dir, e, d2, e2) /\ y = x
         IN  /\ hit => Pres(r.mem, d2, e2, y) /\ Beh(r.mem, d2, e2, y) = f
             /\ ~hit => /\ Pres(r.mem, d2, e2, y) <=> Pres(s.mem, d2, e2, y)
                        /\ Pres(s.mem, d2, e2, y) => Beh(r.mem, d2, e2, y) = Beh(s.mem, d2, e2, y)

(* The frame is loose and the page is not there, or it is a page of a      *)
(* process and goes into the kernel's directory.                           *)
MayPlace(s, D, kd, loose, dir, e, x, f, user) ==
    \/ /\ e = KernelHeap /\ user = FALSE /\ f \in loose
       /\ ~Pres(s.mem, kd, KernelHeap, x)
    \/ /\ e \in Private /\ dir # kd /\ f \in loose
       /\ ~Pres(s.mem, dir, e, x)
    \/ /\ e \in Private /\ dir = kd
       /\ \E d0 \in D \ {kd}, e0 \in Private, x0 \in Entry :
            Pres(s.mem, d0, e0, x0) /\ f = Beh(s.mem, d0, e0, x0)

LEMMA PlacedKeeps ==
    ASSUME NEW s, NEW D, NEW kd, NEW first, NEW loose,
           MState(s, D, kd, first, loose),
           NEW dir \in D, NEW e \in Mappable, NEW x \in Entry,
           NEW f \in Frame, NEW user \in BOOLEAN,
           MayPlace(s, D, kd, loose, dir, e, x, f, user),
           NEW r, r = GivenPage(s, dir, e, x, f, user), ~r.panicked
    PROVE  MState(r, D, kd, first, loose \ {f}) /\ Placed(s, r, D, dir, e, x, f)
<1>1. PICK role : MInv(s, D, kd, first, loose, role)
  BY DEF MState
<1>2. PICK t \in Frame : Adds(s, r, s.mem[kd][Window].frame, dir, e, x, t, f, user)
  BY <1>1, AddsPage DEF Mappable
<1>3. role \in [Frame -> Role] /\ D \subseteq Frame /\ dir \in Frame /\ e \in Entry
  BY <1>1, MappableIs DEF MInv, MTypes
<1>4. 0 \in Frame /\ 0 \in Entry /\ {"heappage", "page"} \subseteq Kind
  BY PagingAssumption DEF Frame, Entry, Kind
<1>5. \E now \in Role : Fills(s, kd, role, dir, e, x, f, user, now)
  <2>1. f \in loose => role[f].kind = "loose"
    BY <1>1, FrameRoles
  <2>2. CASE e = KernelHeap /\ user = FALSE /\ f \in loose /\ ~Pres(s.mem, kd, KernelHeap, x)
    <3>1. Is("heappage", 0, 0, x) \in Role
      BY <1>4, IsIs
    <3>2. Fills(s, kd, role, dir, e, x, f, user, Is("heappage", 0, 0, x))
      BY <2>1, <2>2 DEF Fills
    <3> QED
      BY <3>1, <3>2
  <2>3. CASE e \in Private /\ dir # kd /\ f \in loose /\ ~Pres(s.mem, dir, e, x)
    <3>1. Is("page", dir, e, x) \in Role
      BY <1>3, <1>4, IsIs
    <3>2. Fills(s, kd, role, dir, e, x, f, user, Is("page", dir, e, x))
      BY <2>1, <2>3 DEF Fills
    <3> QED
      BY <3>1, <3>2
  <2>4. CASE /\ e \in Private /\ dir = kd
             /\ \E d0 \in D \ {kd}, e0 \in Private, x0 \in Entry :
                  Pres(s.mem, d0, e0, x0) /\ f = Beh(s.mem, d0, e0, x0)
    <3>1. role[f].kind = "page"
      BY <1>1, <2>4 DEF MInv, MPages
    <3>2. Fills(s, kd, role, dir, e, x, f, user, role[f])
      BY <2>4, <3>1 DEF Fills
    <3> QED
      BY <1>3, <3>2
  <2> QED
    BY <2>2, <2>3, <2>4 DEF MayPlace
<1>6. MState(r, D, kd, first, loose \ {f})
  <2>1. PICK now \in Role : Fills(s, kd, role, dir, e, x, f, user, now)
    BY <1>5
  <2>2. \E role2 : MInv(r, D, kd, first, loose \ {f}, role2)
    <3> DEFINE A == Adds(s, r, s.mem[kd][Window].frame, dir, e, x, t, f, user)
               F == Fills(s, kd, role, dir, e, x, f, user, now)
               I == MInv(s, D, kd, first, loose, role)
    <3>1. A /\ F /\ I
      BY <1>1, <1>2, <2>1
    <3>2. A /\ F /\ I => \E role2 : MInv(r, D, kd, first, loose \ {f}, role2)
      BY KeptStructure
    <3> QED
      BY <3>1, <3>2
  <2> QED
    BY <2>2 DEF MState
<1>7. r.free \subseteq s.free
  BY <1>2 DEF Adds
<1>8. ASSUME NEW d2 \in D, NEW e2 \in Mappable, NEW y \in Entry
      PROVE  LET hit == Hits(dir, e, d2, e2) /\ y = x
             IN  /\ hit => Pres(r.mem, d2, e2, y) /\ Beh(r.mem, d2, e2, y) = f
                 /\ ~hit => /\ Pres(r.mem, d2, e2, y) <=> Pres(s.mem, d2, e2, y)
                            /\ Pres(s.mem, d2, e2, y) => Beh(r.mem, d2, e2, y) = Beh(s.mem, d2, e2, y)
  BY <1>1, <1>2, PagesAfter
<1> QED
  BY <1>6, <1>7, <1>8 DEF Placed

LEMMA StateTypes ==
    ASSUME NEW s, NEW D, NEW kd, NEW first, NEW loose, MState(s, D, kd, first, loose)
    PROVE  /\ s \in MachineState /\ ~s.pse /\ D \subseteq Frame /\ kd \in D /\ s.cr3 \in D
           /\ \A f \in Frame \cap loose : f \notin D \cup s.free
           /\ D \cap s.free = {}
<1>1. PICK role : MInv(s, D, kd, first, loose, role)
  BY DEF MState
<1> QED
  BY <1>1, FrameRoles DEF MInv, MTypes

(* A frame that is taken is loose at first.                                *)
LEMMA AllocatedKeeps ==
    ASSUME NEW s, NEW D, NEW kd, NEW first, NEW loose,
           MState(s, D, kd, first, loose),
           NEW f, f = NextFrame(s),
           NEW r, r = Allocated(s), ~r.panicked
    PROVE  /\ MState(r, D, kd, first, loose \cup {f})
           /\ f \in s.free /\ f \in Frame \ {0} /\ f \notin loose
           /\ r.mem = s.mem /\ r.free = s.free \ {f} /\ r.cr3 = s.cr3
<1>1. PICK role : MInv(s, D, kd, first, loose, role)
  BY DEF MState
<1>2. s \in MachineState /\ ~s.pse /\ role \in [Frame -> Role]
  BY <1>1 DEF MInv, MTypes
<1>3. /\ r \in MachineState /\ r.mem = s.mem /\ r.pse = s.pse /\ r.cr3 = s.cr3
      /\ s.free # {} /\ r.free = s.free \ {f}
  BY <1>2, AllocatedIs
<1>4. f \in s.free /\ f \in Frame \ {0}
  BY <1>2, <1>3, NextFrameIs DEF MachineState
<1>5. role[f].kind = "free" /\ f \notin loose
  BY <1>1, <1>4, FrameRoles
<1> DEFINE now == Is("loose", 0, 0, 0)
           role2 == [role EXCEPT ![f] = now]
<1>6. now \in Role /\ now.kind = "loose"
  BY PagingAssumption DEF Is, Role, Kind, Frame, Entry
<1> HIDE DEF now
<1>7. /\ role2 \in [Frame -> Role] /\ role2[f].kind = "loose"
      /\ \A g \in Frame : g # f => role2[g] = role[g]
  BY <1>2, <1>4, <1>6
<1> HIDE DEF role2
<1>8. ASSUME NEW g, NEW k, role[g].kind = k, k # "free", g \in Frame
      PROVE  role2[g] = role[g]
  BY <1>5, <1>7, <1>8
<1>9. MTypes(r, D, kd, role2)
  BY <1>1, <1>3, <1>7 DEF MInv, MTypes
<1>10. \A d \in D, y \in Entry : s.mem[d][y].frame \in Frame
  BY <1>1, <1>2 DEF MInv, MTypes, MachineState, Memory, PageEntry
<1>11. \A d \in D, y, z \in Entry : s.mem[s.mem[d][y].frame][z].frame \in Frame
  BY <1>2, <1>10 DEF MachineState, Memory, PageEntry
<1>12. MDirs(r, D, kd, role2)
  BY <1>1, <1>2, <1>3, <1>8 DEF MInv, MDirs, MTypes
<1>13. kd \in D /\ {Window, KernelHeap} \subseteq Entry /\ Private \subseteq Entry
  BY <1>1, EntriesInUse DEF MInv, MTypes, Private
<1>14. MKernel(r, D, kd, role2)
  <2>1. \A x \in Entry : Beh(s.mem, kd, KernelHeap, x) \in Frame
    BY <1>11, <1>13 DEF Beh
  <2> QED
    BY <1>1, <1>3, <1>8, <1>10, <1>13, <2>1 DEF MInv, MKernel
<1>15. MTables(r, D, kd, role2)
  BY <1>1, <1>3, <1>8, <1>10, <1>13 DEF MInv, MTables
<1>16. MPages(r, D, kd, role2)
  <2>1. \A d \in D, e \in Private, x \in Entry : Beh(s.mem, d, e, x) \in Frame
    BY <1>11, <1>13 DEF Beh
  <2> QED
    BY <1>1, <1>3, <1>8, <2>1 DEF MInv, MPages
<1>17. MRoles(r, D, kd, first, loose \cup {f}, role2)
  <2> SUFFICES ASSUME NEW g \in Frame
               PROVE  MRole(r, D, kd, first, loose \cup {f}, g, role2[g])
    BY DEF MRoles
  <2>0. MRole(s, D, kd, first, loose, g, role[g])
    BY <1>1 DEF MInv, MRoles
  <2>1. CASE g = f
    BY <1>3, <1>4, <1>5, <1>7, <2>0, <2>1 DEF MRole
  <2>2. CASE g # f
    BY <1>3, <1>7, <2>0, <2>2 DEF MRole
  <2> QED
    BY <2>1, <2>2
<1>18. MFree(r)
  BY <1>1, <1>3 DEF MInv, MFree
<1>19. MState(r, D, kd, first, loose \cup {f})
  BY <1>9, <1>12, <1>14, <1>15, <1>16, <1>17, <1>18 DEF MInv, MState
<1> QED
  BY <1>3, <1>4, <1>5, <1>19

(* What is written to loose frames and to the window's table, and which of *)
(* the directories is current, the invariant does not see.                 *)
OnlyFrames(s, r, F) == \A g \in Frame \ F : r.mem[g] = s.mem[g]

SamePages(s, r, D) ==
    \A d \in D, e \in Mappable, y \in Entry :
        /\ Pres(r.mem, d, e, y) <=> Pres(s.mem, d, e, y)
        /\ Pres(s.mem, d, e, y) => Beh(r.mem, d, e, y) = Beh(s.mem, d, e, y)

LEMMA OtherFrames ==
    ASSUME NEW s, NEW D, NEW kd, NEW first, NEW loose,
           MState(s, D, kd, first, loose),
           NEW r \in MachineState, r.free = s.free, ~r.pse, r.cr3 \in D,
           OnlyFrames(s, r, loose \cup {s.mem[kd][Window].frame})
    PROVE  /\ MState(r, D, kd, first, loose) /\ SamePages(s, r, D)
           /\ r.mem[kd][Window] = s.mem[kd][Window]
<1>1. PICK role : MInv(s, D, kd, first, loose, role)
  BY DEF MState
<1>2. \A g \in Frame : role[g].kind \notin {"loose", "window"} => r.mem[g] = s.mem[g]
  BY <1>1, FrameRoles DEF OnlyFrames
<1>3. kd \in D /\ D \subseteq Frame /\ Private \subseteq Entry /\ Private \subseteq Mappable
  BY <1>1, MappableIs DEF MInv, MTypes, Mappable
<1>4. \A d \in D : r.mem[d] = s.mem[d]
  BY <1>1, <1>2, <1>3, FrameRoles
<1>5. SamePages(s, r, D)
  <2> SUFFICES ASSUME NEW d \in D, NEW e \in Mappable, NEW y \in Entry
               PROVE  /\ Pres(r.mem, d, e, y) <=> Pres(s.mem, d, e, y)
                      /\ Pres(s.mem, d, e, y) => Beh(r.mem, d, e, y) = Beh(s.mem, d, e, y)
    BY DEF SamePages
  <2>1. s.mem[d][e].present => r.mem[s.mem[d][e].frame] = s.mem[s.mem[d][e].frame]
    BY <1>1, <1>2, TableRole
  <2> QED
    BY <1>4, <2>1 DEF Pres, Beh
<1>6. MTypes(r, D, kd, role)
  BY <1>1 DEF MInv, MTypes
<1>7. MDirs(r, D, kd, role)
  BY <1>1, <1>3, <1>4 DEF MInv, MDirs
<1>8. KernelHeap \in Mappable
  BY DEF Mappable
<1>9. MKernel(r, D, kd, role)
  BY <1>1, <1>3, <1>4, <1>5, <1>8 DEF MInv, MKernel, SamePages
<1>10. MTables(r, D, kd, role)
  BY <1>1, <1>4 DEF MInv, MTables
<1>11. MPages(r, D, kd, role)
  BY <1>1, <1>3, <1>5 DEF MInv, MPages, SamePages
<1>12. MRoles(r, D, kd, first, loose, role)
  <2>1. \A g \in Frame : role[g].page \in Entry
    BY <1>1 DEF MInv, MTypes, Role
  <2> QED
    <3> SUFFICES ASSUME NEW g \in Frame
                 PROVE  MRole(r, D, kd, first, loose, g, role[g])
      BY DEF MRoles
    <3>0. MRole(s, D, kd, first, loose, g, role[g])
      BY <1>1 DEF MInv, MRoles
    <3>1. r.mem[kd] = s.mem[kd] /\ r.free = s.free
      BY <1>3, <1>4
    <3>2. role[g].kind = "table" => r.mem[role[g].dir] = s.mem[role[g].dir]
      BY <1>4, <3>0 DEF MRole
    <3>3. role[g].kind = "heappage" =>
            /\ Pres(r.mem, kd, KernelHeap, role[g].page)
            /\ g = Beh(r.mem, kd, KernelHeap, role[g].page)
      BY <1>3, <1>5, <1>8, <2>1, <3>0 DEF MRole, SamePages
    <3>4. role[g].kind = "page" =>
            /\ Pres(r.mem, role[g].dir, role[g].entry, role[g].page)
            /\ g = Beh(r.mem, role[g].dir, role[g].entry, role[g].page)
      BY <1>3, <1>5, <2>1, <3>0 DEF MRole, SamePages
    <3> QED
      BY <3>0, <3>1, <3>2, <3>3, <3>4 DEF MRole
<1>13. MFree(r)
  <2>1. \A g \in s.free : g \in Frame /\ r.mem[g] = s.mem[g]
    BY <1>1, <1>2, FrameRoles DEF MachineState
  <2> QED
    BY <1>1, <2>1 DEF MInv, MFree
<1>14. MState(r, D, kd, first, loose)
  BY <1>6, <1>7, <1>9, <1>10, <1>11, <1>12, <1>13 DEF MInv, MState
<1> QED
  BY <1>3, <1>4, <1>5, <1>14

(* A machine that can only have got new pages, and those from the frames   *)
(* that were free.  The kernel's directory counts for the heap only: beside*)
(* it there is the stack of process 1, which is that process's page.       *)
Counted(kd, d, e) == d # kd \/ e = KernelHeap

Keeps(s, r, D, kd) ==
    /\ r.free \subseteq s.free
    /\ \A d \in D, e \in Mappable, y \in Entry : Counted(kd, d, e) =>
         /\ Pres(s.mem, d, e, y) =>
              Pres(r.mem, d, e, y) /\ Beh(r.mem, d, e, y) = Beh(s.mem, d, e, y)
         /\ Pres(r.mem, d, e, y) /\ ~Pres(s.mem, d, e, y) => Beh(r.mem, d, e, y) \in s.free

(* The new ones are the pages N of entry e, which dir need not have alone. *)
Only(s, r, D, kd, dir, e, N) ==
    \A d2 \in D, e2 \in Mappable, y \in Entry : Counted(kd, d2, e2) =>
        (Pres(r.mem, d2, e2, y) <=> Pres(s.mem, d2, e2, y) \/ (Hits(dir, e, d2, e2) /\ y \in N))

LEMMA KeepsOn ==
    ASSUME NEW s, NEW r, NEW q, NEW D, NEW kd, Keeps(s, r, D, kd), Keeps(r, q, D, kd)
    PROVE  Keeps(s, q, D, kd)
<1>1. q.free \subseteq s.free
  BY DEF Keeps
<1>2. ASSUME NEW d \in D, NEW e \in Mappable, NEW y \in Entry,
             Counted(kd, d, e), Pres(s.mem, d, e, y)
      PROVE  Pres(q.mem, d, e, y) /\ Beh(q.mem, d, e, y) = Beh(s.mem, d, e, y)
  BY <1>2 DEF Keeps
<1>3. ASSUME NEW d \in D, NEW e \in Mappable, NEW y \in Entry,
             Counted(kd, d, e), Pres(q.mem, d, e, y), ~Pres(s.mem, d, e, y)
      PROVE  Beh(q.mem, d, e, y) \in s.free
  <2>1. CASE Pres(r.mem, d, e, y)
    <3>1. Beh(q.mem, d, e, y) = Beh(r.mem, d, e, y) /\ Beh(r.mem, d, e, y) \in s.free
      BY <1>3, <2>1 DEF Keeps
    <3> QED
      BY <3>1
  <2>2. CASE ~Pres(r.mem, d, e, y)
    <3>1. Beh(q.mem, d, e, y) \in r.free
      BY <1>3, <2>2 DEF Keeps
    <3> QED
      BY <3>1 DEF Keeps
  <2> QED
    BY <2>1, <2>2
<1> QED
  BY <1>1, <1>2, <1>3 DEF Keeps

LEMMA OnlyOn ==
    ASSUME NEW s, NEW r, NEW q, NEW D, NEW kd, NEW dir, NEW e, NEW N, NEW M,
           Only(s, r, D, kd, dir, e, N), Only(r, q, D, kd, dir, e, M)
    PROVE  Only(s, q, D, kd, dir, e, N \cup M)
BY DEF Only

LEMMA SameKeeps ==
    ASSUME NEW s, NEW r, NEW D, NEW kd, SamePages(s, r, D), r.free \subseteq s.free
    PROVE  Keeps(s, r, D, kd) /\ \A dir, e : Only(s, r, D, kd, dir, e, {})
BY DEF SamePages, Keeps, Only

(* The step from one machine to the next that adds the pages N.            *)
Goes(s, r, D, kd, first, loose, dir, e, N) ==
    /\ MState(r, D, kd, first, loose) /\ r.cr3 = s.cr3
    /\ Keeps(s, r, D, kd) /\ Only(s, r, D, kd, dir, e, N)

GoesOne(s, r, D, kd, first, loose, dir, e, x) == Goes(s, r, D, kd, first, loose, dir, e, {x})
MayGrow(kd, dir, e, user) == IF e = KernelHeap THEN user = FALSE ELSE dir # kd

LEMMA GoesOn ==
    ASSUME NEW s, NEW r, NEW q, NEW D, NEW kd, NEW first, NEW loose, NEW dir, NEW e, NEW N, NEW M,
           Goes(s, r, D, kd, first, loose, dir, e, N), Goes(r, q, D, kd, first, loose, dir, e, M)
    PROVE  Goes(s, q, D, kd, first, loose, dir, e, N \cup M)
BY KeepsOn, OnlyOn DEF Goes

(* A frame is taken and mapped.                                            *)
TakesPage(s, D, kd, first, loose, dir, e, x, user, f, r) ==
    /\ MState(s, D, kd, first, loose)
    /\ dir \in D /\ e \in Mappable /\ x \in Entry /\ user \in BOOLEAN
    /\ MayGrow(kd, dir, e, user) /\ ~Pres(s.mem, dir, e, x)
    /\ f = NextFrame(s)
    /\ r = GivenPage(Allocated(s), dir, e, x, f, user) /\ ~r.panicked

LEMMA FreshPage ==
    ASSUME NEW s, NEW D, NEW kd, NEW first, NEW loose,
           NEW dir, NEW e, NEW x, NEW user, NEW f, NEW r,
           TakesPage(s, D, kd, first, loose, dir, e, x, user, f, r)
    PROVE  /\ GoesOne(s, r, D, kd, first, loose, dir, e, x)
           /\ f \in Frame \ {0} /\ f \notin loose
           /\ Pres(r.mem, dir, e, x) /\ Beh(r.mem, dir, e, x) = f
<1> USE DEF TakesPage
<1> DEFINE s1 == Allocated(s)
<1>1. s \in MachineState /\ dir \in Frame /\ e \in Entry /\ e \in Nat
  BY StateTypes, MappableIs, PagingAssumption DEF Entry
<1>2. r = GivenPage(s1, dir, e, x, f, user)
  OBVIOUS
<1>3. f \in Frame /\ s1 \in MachineState
  BY <1>1, NextFrameIs, AllocatedIs
<1>4. Follows(s1, r)
  BY <1>1, <1>2, <1>3, GivenPageType
<1>5. ~s1.panicked /\ r.cr3 = s1.cr3
  BY <1>4 DEF Follows
<1> HIDE DEF s1
<1>6. /\ MState(s1, D, kd, first, loose \cup {f})
      /\ f \in s.free /\ f \notin loose /\ f \in Frame \ {0}
      /\ s1.mem = s.mem /\ s1.free = s.free \ {f} /\ s1.cr3 = s.cr3
  BY <1>5, AllocatedKeeps DEF s1
<1>7. ~Pres(s1.mem, kd, KernelHeap, x) \/ e # KernelHeap
  <2>1. PICK role : MInv(s, D, kd, first, loose, role)
    BY DEF MState
  <2>2. s.mem[dir][KernelHeap] = s.mem[kd][KernelHeap]
    BY <2>1 DEF MInv, MDirs
  <2> QED
    BY <1>6, <2>2 DEF Pres
<1>8. MayPlace(s1, D, kd, loose \cup {f}, dir, e, x, f, user)
  BY <1>6, <1>7 DEF MayPlace, MayGrow, Mappable
<1>9. /\ MState(r, D, kd, first, (loose \cup {f}) \ {f})
      /\ Placed(s1, r, D, dir, e, x, f)
  BY <1>2, <1>3, <1>6, <1>8, PlacedKeeps
<1>10. (loose \cup {f}) \ {f} = loose
  BY <1>6
<1>11. Keeps(s, r, D, kd)
  <2>1. r.free \subseteq s.free
    BY <1>6, <1>9 DEF Placed
  <2>2. ASSUME NEW d2 \in D, NEW e2 \in Mappable, NEW y \in Entry, Hits(dir, e, d2, e2) /\ y = x
        PROVE  ~Pres(s.mem, d2, e2, y) /\ Beh(r.mem, d2, e2, y) = f
    <3>1. Beh(r.mem, d2, e2, y) = f
      BY <1>9, <2>2 DEF Placed
    <3>2. s.mem[d2][e2] = s.mem[dir][e]
      <4>1. PICK role : MInv(s, D, kd, first, loose, role)
        BY DEF MState
      <4> QED
        BY <2>2, <4>1 DEF Hits, MInv, MDirs
    <3> QED
      BY <2>2, <3>1, <3>2 DEF Pres
  <2>3. ASSUME NEW d2 \in D, NEW e2 \in Mappable, NEW y \in Entry, ~(Hits(dir, e, d2, e2) /\ y = x)
        PROVE  /\ Pres(r.mem, d2, e2, y) <=> Pres(s.mem, d2, e2, y)
               /\ Pres(s.mem, d2, e2, y) => Beh(r.mem, d2, e2, y) = Beh(s.mem, d2, e2, y)
    BY <1>6, <1>9, <2>3 DEF Placed
  <2> QED
    BY <1>6, <2>1, <2>2, <2>3 DEF Keeps
<1>12. Only(s, r, D, kd, dir, e, {x})
  BY <1>6, <1>9 DEF Placed, Only
<1>13. Pres(r.mem, dir, e, x) /\ Beh(r.mem, dir, e, x) = f
  BY <1>9 DEF Placed, Hits
<1>14. GoesOne(s, r, D, kd, first, loose, dir, e, x)
  BY <1>5, <1>6, <1>9, <1>10, <1>11, <1>12 DEF Goes, GoesOne
<1> QED
  BY <1>6, <1>13, <1>14

(* mapPage asked for a new frame.                                          *)
LEMMA MapNew ==
    ASSUME NEW s, NEW D, NEW kd, NEW first, NEW loose,
           MState(s, D, kd, first, loose),
           NEW dir \in D, NEW e \in Mappable, NEW x \in Entry, NEW user \in BOOLEAN,
           MayGrow(kd, dir, e, user),
           ~Pres(s.mem, dir, e, x),
           NEW r, r = MapPage(s, dir, PageAt(e, x), 0, user), ~r.panicked
    PROVE  GoesOne(s, r, D, kd, first, loose, dir, e, x)
<1> DEFINE f == NextFrame(s)
<1>1. e \in Nat
  BY MappableIs, PagingAssumption DEF Entry
<1>2. r = GivenPage(Allocated(s), dir, e, x, f, user)
  BY <1>1, MapPageIs
<1>3. f = NextFrame(s)
  OBVIOUS
<1> HIDE DEF f
<1>4. TakesPage(s, D, kd, first, loose, dir, e, x, user, f, r)
  BY <1>2, <1>3 DEF TakesPage
<1> QED
  BY <1>4, FreshPage

(* A frame is taken first and given to mapPage then.                       *)
LEMMA MapTaken ==
    ASSUME NEW s, NEW D, NEW kd, NEW first, NEW loose,
           MState(s, D, kd, first, loose),
           NEW dir \in D, NEW e \in Private, NEW x \in Entry, dir # kd, NEW user \in BOOLEAN,
           ~Pres(s.mem, dir, e, x),
           NEW f, f = NextFrame(s),
           NEW r, r = MapPage(Allocated(s), dir, PageAt(e, x), f, user), ~r.panicked
    PROVE  /\ GoesOne(s, r, D, kd, first, loose, dir, e, x)
           /\ f \in Frame \ {0} /\ f \notin loose
           /\ Pres(r.mem, dir, e, x) /\ Beh(r.mem, dir, e, x) = f
<1> DEFINE s1 == Allocated(s)
<1>1. /\ s \in MachineState /\ s1 \in MachineState /\ f \in Frame
      /\ dir \in Frame /\ e \in Mappable /\ e \in Entry /\ e \in Nat /\ e # KernelHeap
  BY StateTypes, AllocatedIs, NextFrameIs, MappableIs, PagingAssumption DEF Mappable, Entry
<1> HIDE DEF s1
<1>2. r = MapPage(s1, dir, PageAt(e, x), f, user)
  BY DEF s1
<1>3. Follows(s1, r)
  BY <1>1, <1>2, MapPageType
<1>4. ~s1.panicked
  BY <1>3 DEF Follows
<1>5. f # 0
  BY <1>4, AllocatedKeeps DEF s1
<1>6. r = GivenPage(s1, dir, e, x, f, user)
  BY <1>1, <1>2, <1>5, MapPageIs
<1>7. r = GivenPage(Allocated(s), dir, e, x, f, user)
  BY <1>6 DEF s1
<1>8. MayGrow(kd, dir, e, user)
  BY <1>1 DEF MayGrow
<1>9. TakesPage(s, D, kd, first, loose, dir, e, x, user, f, r)
  BY <1>1, <1>7, <1>8 DEF TakesPage
<1> QED
  BY <1>9, FreshPage
-----------------------------------------------------------------------------
(* A heap that grows page by page.                                         *)
GrownRun(h, s, dir, page, n, user) ==
    h = [i \in 0 .. n |-> IF i = 0 THEN s ELSE MapPage(h[i - 1], dir, page + i - 1, 0, user)]

Grows(h, s, dir, e, a, n, user) ==
    /\ h[0] = s
    /\ \A i \in 1 .. n : /\ a + (i - 1) \in Entry
                         /\ h[i] = MapPage(h[i - 1], dir, PageAt(e, a + (i - 1)), 0, user)

LEMMA GrownIs ==
    ASSUME NEW s \in MachineState, NEW dir \in Frame, NEW e \in Entry,
           NEW a \in Nat, NEW n \in Nat, n > 0 => a + n <= Width, NEW user \in BOOLEAN
    PROVE  \E h : Grows(h, s, dir, e, a, n, user) /\ Grown(s, dir, PageAt(e, a), n, user) = h[n]
<1> DEFINE page == PageAt(e, a)
           G == [z \in MachineState \X (1 .. n) |-> MapPage(z[1], dir, PageAt(e, a + (z[2] - 1)), 0, user)]
<1>1. /\ page \in Nat /\ 0 \in Frame
      /\ \A i \in 1 .. n : /\ page + i - 1 = PageAt(e, a + (i - 1))
                           /\ a + (i - 1) \in Entry
  <2>1. e * Width \in Nat
    BY PagingAssumption DEF Entry
  <2> QED
    BY <2>1, PagingAssumption DEF Entry, Frame, PageAt
<1>2. G \in [MachineState \X (1 .. n) -> MachineState]
  <2> SUFFICES ASSUME NEW m \in MachineState, NEW i \in 1 .. n
               PROVE  MapPage(m, dir, PageAt(e, a + (i - 1)), 0, user) \in MachineState
    OBVIOUS
  <2>1. a + (i - 1) \in Entry /\ 0 \in Frame
    BY <1>1
  <2> QED
    BY <2>1, MapPageType DEF Follows
<1>3. \E h \in [0 .. n -> MachineState] : IsRun(h, n, s, G)
  <2> HIDE DEF G
  <2> QED
    BY <1>2, RunExists
<1> HIDE DEF page
<1>4. \E h : GrownRun(h, s, dir, page, n, user)
  <2>1. PICK h \in [0 .. n -> MachineState] : IsRun(h, n, s, G)
    BY <1>3
  <2>2. ASSUME NEW i \in 1 .. n PROVE G[<<h[i - 1], i>>] = MapPage(h[i - 1], dir, page + i - 1, 0, user)
    <3>1. i - 1 \in 0 .. n
      OBVIOUS
    <3>2. h[i - 1] \in MachineState
      BY <2>1, <3>1
    <3> QED
      BY <1>1, <3>2
  <2> HIDE DEF G
  <2>3. GrownRun(h, s, dir, page, n, user)
    <3>1. \A i \in 0 .. n : h[i] = IF i = 0 THEN s ELSE G[<<h[i - 1], i>>]
      BY <2>1 DEF IsRun
    <3>2. ASSUME NEW i \in 0 .. n
          PROVE  h[i] = IF i = 0 THEN s ELSE MapPage(h[i - 1], dir, page + i - 1, 0, user)
      <4>1. CASE i = 0
        BY <3>1, <4>1
      <4>2. CASE i # 0
        <5>1. i \in 1 .. n
          BY <4>2
        <5>2. h[i] = G[<<h[i - 1], i>>]
          BY <3>1, <4>2
        <5>3. h[i] = MapPage(h[i - 1], dir, page + i - 1, 0, user)
          BY <2>2, <5>1, <5>2
        <5> QED
          BY <4>2, <5>3
      <4> QED
        BY <4>1, <4>2
    <3>3. h = [i \in 0 .. n |-> h[i]]
      BY <2>1
    <3> QED
      BY <3>2, <3>3, Zenon DEF GrownRun
  <2> QED
    BY <2>3
<1> DEFINE h == CHOOSE h : GrownRun(h, s, dir, page, n, user)
<1>5. GrownRun(h, s, dir, page, n, user)
  BY <1>4
<1>6. Grown(s, dir, page, n, user) = h[n]
  BY DEF Grown, GrownRun
<1> HIDE DEF h
<1>7. /\ h[0] = s
      /\ \A i \in 1 .. n : h[i] = MapPage(h[i - 1], dir, page + i - 1, 0, user)
  BY <1>5 DEF GrownRun
<1>8. \A i \in 1 .. n : /\ a + (i - 1) \in Entry
                        /\ h[i] = MapPage(h[i - 1], dir, PageAt(e, a + (i - 1)), 0, user)
  BY <1>1, <1>7
<1>9. Grows(h, s, dir, e, a, n, user)
  BY <1>7, <1>8 DEF Grows
<1> QED
  BY <1>6, <1>9 DEF page

LEMMA GrownType ==
    ASSUME NEW s \in MachineState, NEW dir \in Frame, NEW e \in Entry,
           NEW a \in Nat, NEW n \in Nat, n > 0 => a + n <= Width, NEW user \in BOOLEAN
    PROVE  Follows(s, Grown(s, dir, PageAt(e, a), n, user))
<1>1. PICK h : Grows(h, s, dir, e, a, n, user) /\ Grown(s, dir, PageAt(e, a), n, user) = h[n]
  BY GrownIs
<1> DEFINE S == {i \in 0 .. n : Follows(s, h[i])}
<1>2. 0 \in S
  BY <1>1 DEF Follows, Grows
<1>3. ASSUME NEW i \in 1 .. n, i - 1 \in S PROVE i \in S
  <2>1. Follows(s, h[i - 1]) /\ h[i - 1] \in MachineState /\ 0 \in Frame
    BY <1>3, PagingAssumption DEF Follows, Frame
  <2>2. Follows(h[i - 1], h[i])
    BY <1>1, <2>1, MapPageType DEF Grows
  <2> QED
    BY <2>1, <2>2, FollowsOn
<1>4. n \in S
  <2> HIDE DEF S
  <2> QED
    BY <1>2, <1>3, UpTo
<1> QED
  BY <1>1, <1>4

(* The heap in entry e of dir has its first a pages, and no others.        *)
HeapIs(s, dir, e, a) == \A y \in Entry : Pres(s.mem, dir, e, y) <=> y < a

LEMMA GrownKeeps ==
    ASSUME NEW s, NEW D, NEW kd, NEW first, NEW loose,
           MState(s, D, kd, first, loose),
           NEW dir \in D, NEW e \in Mappable, NEW user \in BOOLEAN,
           MayGrow(kd, dir, e, user),
           NEW a \in Nat, NEW n \in Nat, n > 0 => a + n <= Width,
           HeapIs(s, dir, e, a),
           NEW r, r = Grown(s, dir, PageAt(e, a), n, user), ~r.panicked
    PROVE  Goes(s, r, D, kd, first, loose, dir, e, a .. a + n - 1)
<1>1. s \in MachineState /\ dir \in Frame /\ e \in Entry /\ 0 \in Frame
  BY StateTypes, MappableIs, PagingAssumption DEF Frame
<1>2. PICK h : Grows(h, s, dir, e, a, n, user) /\ Grown(s, dir, PageAt(e, a), n, user) = h[n]
  BY <1>1, GrownIs
<1> DEFINE P(i) == /\ MState(h[i], D, kd, first, loose) /\ h[i].cr3 = s.cr3
                   /\ Keeps(s, h[i], D, kd) /\ Only(s, h[i], D, kd, dir, e, a .. a + i - 1)
           S == {i \in 0 .. n : h[i] \in MachineState /\ (~h[i].panicked => P(i))}
<1>3. 0 \in S
  <2>1. SamePages(s, s, D)
    BY DEF SamePages
  <2>2. Keeps(s, s, D, kd) /\ Only(s, s, D, kd, dir, e, {})
    BY <2>1, SameKeeps
  <2>3. a .. a + 0 - 1 = {}
    OBVIOUS
  <2> QED
    BY <1>1, <1>2, <2>2, <2>3 DEF Grows
<1>4. ASSUME NEW i \in 1 .. n, i - 1 \in S PROVE i \in S
  <2> DEFINE q == h[i - 1]
             x == a + (i - 1)
  <2>1. /\ q \in MachineState /\ (~q.panicked => P(i - 1)) /\ x \in Entry
        /\ h[i] = MapPage(q, dir, PageAt(e, x), 0, user)
    BY <1>2, <1>4 DEF Grows
  <2>2. Follows(q, h[i])
    BY <1>1, <2>1, MapPageType
  <2> SUFFICES ASSUME ~h[i].panicked PROVE P(i)
    BY <2>2 DEF Follows
  <2>3. ~q.panicked
    BY <2>2 DEF Follows
  <2>4. /\ MState(q, D, kd, first, loose) /\ q.cr3 = s.cr3
        /\ Keeps(s, q, D, kd) /\ Only(s, q, D, kd, dir, e, a .. a + (i - 1) - 1)
    BY <2>1, <2>3
  <2>5. ~Pres(q.mem, dir, e, x)
    <3>1. x \notin a .. a + (i - 1) - 1 /\ ~(x < a)
      OBVIOUS
    <3>2. ~Pres(s.mem, dir, e, x)
      BY <2>1, <3>1 DEF HeapIs
    <3> HIDE DEF x, q
    <3> QED
      BY <2>1, <2>4, <3>1, <3>2 DEF Only, Counted, MayGrow
  <2>6. (a .. a + (i - 1) - 1) \cup {x} = a .. a + i - 1
    OBVIOUS
  <2> DEFINE p == h[i]
  <2>7. p = MapPage(q, dir, PageAt(e, x), 0, user) /\ ~p.panicked
    BY <2>1
  <2> HIDE DEF x, q, p
  <2>8. GoesOne(q, p, D, kd, first, loose, dir, e, x)
    BY <2>1, <2>4, <2>5, <2>7, MapNew
  <2> DEFINE N == a .. a + (i - 1) - 1
  <2>9. Goes(s, q, D, kd, first, loose, dir, e, N)
    BY <2>4 DEF Goes
  <2> HIDE DEF N
  <2>10. Goes(s, p, D, kd, first, loose, dir, e, N \cup {x})
    BY <2>8, <2>9, GoesOn DEF GoesOne
  <2> QED
    BY <2>6, <2>10 DEF Goes, p, N
<1>5. n \in S
  <2> HIDE DEF S
  <2> QED
    BY <1>3, <1>4, UpTo
<1> QED
  BY <1>2, <1>5 DEF Goes

(* The kernel's heap, which grows in the directory of whoever runs.        *)
LEMMA KernelGrownType ==
    ASSUME NEW s \in MachineState, HeapDir \in Frame, NEW a \in Nat, NEW n \in Nat
    PROVE  Follows(s, KernelGrown(s, KERNEL_HEAP_BASE + a, n))
<1>1. KERNEL_HEAP_BASE \in Nat /\ MaxKernelHeap \in 1 .. Width /\ KernelHeap \in Entry
  BY PagingAssumption, EntriesInUse DEF KERNEL_HEAP_BASE, KernelHeap
<1>2. CASE n > 0 /\ KERNEL_HEAP_BASE + a + n > KernelHeapLimit
  BY <1>2 DEF KernelGrown, Follows, MachineState
<1>3. CASE ~(n > 0 /\ KERNEL_HEAP_BASE + a + n > KernelHeapLimit)
  <2>1. KernelGrown(s, KERNEL_HEAP_BASE + a, n) = Grown(s, HeapDir, KERNEL_HEAP_BASE + a, n, FALSE)
    BY <1>3 DEF KernelGrown
  <2>2. n > 0 => a + n <= Width
    BY <1>1, <1>3, PagingAssumption DEF KernelHeapLimit
  <2> QED
    BY <1>1, <2>1, <2>2, GrownType DEF KERNEL_HEAP_BASE, PageAt
<1> QED
  BY <1>2, <1>3

LEMMA KernelGrownKeeps ==
    ASSUME NEW s, NEW D, NEW kd, NEW first, NEW loose,
           MState(s, D, kd, first, loose), HeapDir \in D,
           NEW a \in Nat, NEW n \in Nat, HeapIs(s, kd, KernelHeap, a),
           NEW r, r = KernelGrown(s, KERNEL_HEAP_BASE + a, n), ~r.panicked
    PROVE  /\ Goes(s, r, D, kd, first, loose, HeapDir, KernelHeap, a .. a + n - 1)
           /\ HeapIs(r, kd, KernelHeap, a + n)
           /\ n > 0 => a + n <= MaxKernelHeap
<1>1. /\ KERNEL_HEAP_BASE \in Nat /\ MaxKernelHeap \in 1 .. Width
      /\ KernelHeap \in Mappable /\ kd \in D
  BY PagingAssumption, StateTypes DEF KERNEL_HEAP_BASE, KernelHeap, Mappable
<1>2. ~(n > 0 /\ KERNEL_HEAP_BASE + a + n > KernelHeapLimit)
  <2> SUFFICES ASSUME n > 0 /\ KERNEL_HEAP_BASE + a + n > KernelHeapLimit PROVE FALSE
    OBVIOUS
  <2>1. r = [s EXCEPT !.panicked = TRUE]
    BY DEF KernelGrown
  <2>2. s \in MachineState
    BY StateTypes
  <2> QED
    BY <2>1, <2>2 DEF MachineState
<1>3. r = Grown(s, HeapDir, KERNEL_HEAP_BASE + a, n, FALSE)
  BY <1>2 DEF KernelGrown
<1>4. n > 0 => a + n <= MaxKernelHeap /\ a + n <= Width
  BY <1>1, <1>2, PagingAssumption DEF KernelHeapLimit
<1>5. HeapIs(s, HeapDir, KernelHeap, a)
  <2>1. PICK role : MInv(s, D, kd, first, loose, role)
    BY DEF MState
  <2> QED
    BY <2>1 DEF MInv, MDirs, HeapIs, Pres
<1>6. Goes(s, r, D, kd, first, loose, HeapDir, KernelHeap, a .. a + n - 1)
  BY <1>1, <1>3, <1>4, <1>5, GrownKeeps DEF KERNEL_HEAP_BASE, PageAt, MayGrow
<1>7. HeapIs(r, kd, KernelHeap, a + n)
  <2> SUFFICES ASSUME NEW y \in Entry
               PROVE  Pres(r.mem, kd, KernelHeap, y) <=> y < a + n
    BY DEF HeapIs
  <2>1. y \in Nat /\ Hits(HeapDir, KernelHeap, kd, KernelHeap)
    BY PagingAssumption DEF Entry, Hits
  <2>2. Pres(r.mem, kd, KernelHeap, y) <=> Pres(s.mem, kd, KernelHeap, y) \/ y \in a .. a + n - 1
    BY <1>1, <1>6, <2>1 DEF Goes, Only, Counted
  <2>3. Pres(s.mem, kd, KernelHeap, y) <=> y < a
    BY DEF HeapIs
  <2> QED
    BY <2>1, <2>2, <2>3
<1> QED
  BY <1>4, <1>6, <1>7
-----------------------------------------------------------------------------
(* createDir and cpyDir write a whole frame.                               *)
WriteRow(s, g, row) == [s EXCEPT !.mem[g] = row]
NewDir(d) == [Cleared EXCEPT ![Self] = Ent(d, FALSE)]
Copy(row, from) == [e \in Entry |-> IF e \in CopiedEntries THEN Ent(from[e].frame, FALSE) ELSE row[e]]

RowIs(s, r, g, row) == r.mem[g] = row /\ \A h \in Frame : h # g => r.mem[h] = s.mem[h]

LEMMA WriteRowIs ==
    ASSUME NEW s \in MachineState, NEW g \in Frame, NEW row \in [Entry -> PageEntry],
           NEW r, r = WriteRow(s, g, row)
    PROVE  r \in MachineState /\ Same(s, r) /\ RowIs(s, r, g, row)
BY DEF MachineState, Memory, WriteRow, Same, RowIs

LEMMA NewDirIs ==
    ASSUME NEW d \in Frame
    PROVE  /\ NewDir(d) \in [Entry -> PageEntry]
           /\ NewDir(d)[Self] = Ent(d, FALSE)
           /\ \A e \in Entry : e # Self => ~NewDir(d)[e].present
<1>1. Self \in Entry /\ Ent(d, FALSE) \in PageEntry /\ Clear \in PageEntry /\ ~Clear.present
  BY EntriesInUse, EntIs
<1> QED
  BY <1>1 DEF NewDir, Cleared

LEMMA CopyIs ==
    ASSUME NEW row \in [Entry -> PageEntry], NEW from \in [Entry -> PageEntry]
    PROVE  /\ Copy(row, from) \in [Entry -> PageEntry]
           /\ \A e \in Entry : Copy(row, from)[e] =
                IF e \in {Window, KernelHeap} THEN Ent(from[e].frame, FALSE) ELSE row[e]
<1>1. \A e \in Entry : from[e].frame \in Frame /\ row[e] \in PageEntry
  BY DEF PageEntry
<1>2. \A e \in Entry : Ent(from[e].frame, FALSE) \in PageEntry
  BY <1>1, EntIs
<1> QED
  BY <1>1, <1>2 DEF Copy, CopiedEntries

LEMMA CreateDirIs ==
    ASSUME NEW s \in MachineState, NEW r, r = CreateDir(s), NEW d, d = NextFrame(s)
    PROVE  /\ Follows(s, r)
           /\ ~r.panicked => ~Allocated(s).panicked
           /\ \A W : Sees(s, W) /\ ~r.panicked =>
                /\ r.free = s.free \ {d} /\ d \in s.free
                /\ r.mem[d] = NewDir(d)
                /\ \A g \in Frame : g # d /\ g # W => r.mem[g] = s.mem[g]
<1> DEFINE s0 == Allocated(s)
           s1 == ToCurrent(s0, d, DirSlot)
<1>1. d \in Frame /\ DirSlot \in Slots /\ NewDir(d) \in [Entry -> PageEntry]
  BY NextFrameIs, NewDirIs DEF Slots
<1>2. Follows(s, s0) /\ s0 \in MachineState
  BY AllocatedType DEF Follows
<1> HIDE DEF s0
<1>3. Follows(s0, s1) /\ s1 \in MachineState
  BY <1>1, <1>2, ToCurrentType DEF Follows
<1> HIDE DEF s1
<1>4. Seen(s1, d, DirSlot) \in Frame
  BY <1>1, <1>3, WindowType
<1>5. r = WriteRow(s1, Seen(s1, d, DirSlot), NewDir(d))
  BY DEF CreateDir, WriteRow, NewDir, s1, s0
<1>6. Follows(s1, r) /\ r.panicked = s1.panicked
  BY <1>1, <1>3, <1>4, <1>5, WriteRowIs DEF Follows, Same
<1>7. Follows(s, r)
  BY <1>2, <1>3, <1>6, FollowsOn
<1>8. ~r.panicked => ~s0.panicked
  BY <1>3, <1>6 DEF Follows
<1>9. ASSUME NEW W, Sees(s, W), ~r.panicked
      PROVE  /\ r.free = s.free \ {d} /\ d \in s.free
             /\ r.mem[d] = NewDir(d)
             /\ \A g \in Frame : g # d /\ g # W => r.mem[g] = s.mem[g]
  <2>1. /\ s.free # {} /\ s0.free = s.free \ {d} /\ s0.mem = s.mem
        /\ s0.pse = s.pse /\ s0.cr3 = s.cr3
    BY <1>8, <1>9, AllocatedIs DEF s0
  <2>2. Sees(s0, W)
    BY <1>9, <2>1 DEF Sees
  <2>3. /\ s1.free = s0.free /\ Seen(s1, d, DirSlot) = d
        /\ OnlySlot(s0, s1, W, DirSlot)
    BY <1>1, <1>2, <2>2, ToCurrentIs DEF s1
  <2>4. \A g \in Frame : g # W => s1.mem[g] = s0.mem[g]
    <3> SUFFICES ASSUME NEW g \in Frame, g # W PROVE s1.mem[g] = s0.mem[g]
      OBVIOUS
    <3>1. s1.mem[g] \in [Entry -> PageEntry] /\ s0.mem[g] \in [Entry -> PageEntry]
      BY <1>2, <1>3 DEF MachineState, Memory
    <3>2. \A y \in Entry : s1.mem[g][y] = s0.mem[g][y]
      BY <2>3 DEF OnlySlot
    <3> QED
      BY <3>1, <3>2
  <2>5. r.mem[d] = NewDir(d) /\ r.free = s1.free /\ \A g \in Frame : g # d => r.mem[g] = s1.mem[g]
    BY <1>1, <1>3, <1>5, <2>3, WriteRowIs DEF Same, RowIs
  <2> QED
    BY <2>1, <2>3, <2>4, <2>5, NextFrameIs
<1> QED
  BY <1>7, <1>8, <1>9 DEF s0

LEMMA CreateDirKeeps ==
    ASSUME NEW s, NEW D, NEW kd, NEW first, NEW loose,
           MState(s, D, kd, first, loose),
           NEW r, r = CreateDir(s), ~r.panicked, NEW d, d = NextFrame(s)
    PROVE  /\ MState(r, D, kd, first, loose \cup {d}) /\ r.cr3 = s.cr3
           /\ SamePages(s, r, D) /\ r.free = s.free \ {d}
           /\ d \in s.free /\ d \in Frame \ {0} /\ d \notin loose
           /\ r.mem[d] = NewDir(d)
<1> DEFINE W == s.mem[kd][Window].frame
           s0 == Allocated(s)
<1>1. PICK role : MInv(s, D, kd, first, loose, role)
  BY DEF MState
<1>2. /\ s \in MachineState /\ ~s.pse /\ s.cr3 \in D /\ kd \in D /\ D \subseteq Frame
      /\ W \in Frame /\ role[W].kind = "window"
      /\ \A d2 \in D : role[d2].kind = "dir"
  BY <1>1, FrameRoles DEF MInv, MTypes
<1>3. Sees(s, W)
  BY <1>1, <1>2 DEF MInv, MDirs, Sees
<1>4. /\ Follows(s, r) /\ ~s0.panicked
      /\ r.free = s.free \ {d} /\ d \in s.free /\ r.mem[d] = NewDir(d)
      /\ \A g \in Frame : g # d /\ g # W => r.mem[g] = s.mem[g]
  BY <1>2, <1>3, CreateDirIs
<1> HIDE DEF s0
<1>5. /\ MState(s0, D, kd, first, loose \cup {d})
      /\ d \in Frame \ {0} /\ d \notin loose
      /\ s0.mem = s.mem /\ s0.free = s.free \ {d}
  BY <1>4, AllocatedKeeps DEF s0
<1>6. /\ MState(r, D, kd, first, loose \cup {d}) /\ SamePages(s0, r, D)
  <2>1. r \in MachineState /\ r.free = s0.free /\ ~r.pse /\ r.cr3 \in D
    BY <1>2, <1>4, <1>5 DEF Follows
  <2>2. OnlyFrames(s0, r, (loose \cup {d}) \cup {s0.mem[kd][Window].frame})
    BY <1>4, <1>5 DEF OnlyFrames
  <2> QED
    BY <1>5, <2>1, <2>2, OtherFrames
<1> QED
  BY <1>4, <1>5, <1>6 DEF Follows, SamePages

LEMMA CpyDirIs ==
    ASSUME NEW s \in MachineState, NEW src \in Frame, NEW dst \in Frame, NEW r, r = CpyDir(s, src, dst)
    PROVE  /\ Follows(s, r)
           /\ \A W : Sees(s, W) /\ src # W /\ dst # W =>
                /\ r.free = s.free
                /\ r.mem[dst] = Copy(s.mem[dst], s.mem[src])
                /\ \A g \in Frame : g # dst /\ g # W => r.mem[g] = s.mem[g]
<1> DEFINE s0 == ToCurrent(s, src, TableSlot)
           s1 == ToCurrent(s0, dst, DirSlot)
           g1 == Seen(s1, src, TableSlot)
           g2 == Seen(s1, dst, DirSlot)
<1>1. DirSlot \in Slots /\ TableSlot \in Slots /\ DirSlot # TableSlot
  BY DEF Slots, DirSlot, TableSlot
<1>2. Follows(s, s0) /\ s0 \in MachineState
  BY <1>1, ToCurrentType DEF Follows
<1> HIDE DEF s0
<1>3. Follows(s0, s1) /\ s1 \in MachineState
  BY <1>1, <1>2, ToCurrentType DEF Follows
<1> HIDE DEF s1
<1>4. g1 \in Frame /\ g2 \in Frame
  BY <1>1, <1>3, WindowType
<1>5. r = WriteRow(s1, g2, Copy(s1.mem[g2], s1.mem[g1]))
  BY DEF CpyDir, WriteRow, Copy, s1, s0
<1> HIDE DEF g1, g2
<1>6. s1.mem[g1] \in [Entry -> PageEntry] /\ s1.mem[g2] \in [Entry -> PageEntry]
  BY <1>3, <1>4 DEF MachineState, Memory
<1>7. /\ r \in MachineState /\ Same(s1, r) /\ r.mem[g2] = Copy(s1.mem[g2], s1.mem[g1])
      /\ \A h \in Frame : h # g2 => r.mem[h] = s1.mem[h]
  <2> DEFINE row == Copy(s1.mem[g2], s1.mem[g1])
  <2>1. row \in [Entry -> PageEntry]
    BY <1>6, CopyIs
  <2> HIDE DEF row
  <2>2. r = WriteRow(s1, g2, row)
    BY <1>5 DEF row
  <2>3. r \in MachineState /\ Same(s1, r) /\ RowIs(s1, r, g2, row)
    BY <1>3, <1>4, <2>1, <2>2, WriteRowIs
  <2> QED
    BY <2>3 DEF row, RowIs
<1>8. Follows(s, r)
  <2>1. Follows(s1, r)
    BY <1>3, <1>7 DEF Follows, Same
  <2> QED
    BY <1>2, <1>3, <2>1, FollowsOn
<1>9. ASSUME NEW W, Sees(s, W), src # W, dst # W
      PROVE  /\ r.free = s.free
             /\ r.mem[dst] = Copy(s.mem[dst], s.mem[src])
             /\ \A g \in Frame : g # dst /\ g # W => r.mem[g] = s.mem[g]
  <2>1. /\ s0.free = s.free /\ s0.pse = s.pse /\ s0.cr3 = s.cr3
        /\ Sees(s0, W) /\ Seen(s0, src, TableSlot) = src
        /\ OnlySlot(s, s0, W, TableSlot)
    BY <1>1, <1>9, ToCurrentIs DEF s0
  <2>2. /\ s1.free = s0.free /\ s1.pse = s0.pse
        /\ Sees(s1, W) /\ g2 = dst
        /\ OnlySlot(s0, s1, W, DirSlot)
    BY <1>1, <1>2, <2>1, ToCurrentIs DEF s1, g2
  <2>3. g1 = src
    <3>1. ~s0.pse => s1.mem[W][TableSlot] = s0.mem[W][TableSlot]
      BY <1>1, <1>2, <2>1, <2>2, WindowIs, EntriesInUse DEF OnlySlot
    <3> QED
      BY <1>1, <1>2, <1>3, <2>1, <2>2, <3>1, SlotStays DEF g1
  <2>4. ASSUME NEW g \in Frame, g # W PROVE s1.mem[g] = s.mem[g]
    <3>1. s1.mem[g] \in [Entry -> PageEntry] /\ s.mem[g] \in [Entry -> PageEntry]
      BY <1>3 DEF MachineState, Memory
    <3>2. \A y \in Entry : s1.mem[g][y] = s.mem[g][y]
      BY <2>1, <2>2, <2>4 DEF OnlySlot
    <3> QED
      BY <3>1, <3>2
  <2> QED
    BY <1>7, <1>9, <2>1, <2>2, <2>3, <2>4 DEF Same
<1> QED
  BY <1>8, <1>9

(* A new directory with the kernel's two entries is one of the others.     *)
LEMMA CpyDirKeeps ==
    ASSUME NEW s, NEW D, NEW kd, NEW first, NEW loose,
           MState(s, D, kd, first, loose),
           NEW d \in Frame, d \in loose, s.mem[d] = NewDir(d),
           s.mem[kd][KernelHeap].present,
           NEW r, r = CpyDir(s, kd, d)
    PROVE  /\ MState(r, D \cup {d}, kd, first, loose \ {d}) /\ r.cr3 = s.cr3
           /\ SamePages(s, r, D) /\ r.free = s.free
           /\ \A e \in Private, y \in Entry : ~Pres(r.mem, d, e, y)
<1> DEFINE W == s.mem[kd][Window].frame
<1>1. PICK role1 : MInv(s, D, kd, first, loose, role1)
  BY DEF MState
<1>2. /\ s \in MachineState /\ ~s.pse /\ s.cr3 \in D /\ kd \in D /\ D \subseteq Frame
      /\ W \in Frame /\ role1[W].kind = "window" /\ role1[d].kind = "loose"
      /\ \A d2 \in D : role1[d2].kind = "dir"
  BY <1>1, FrameRoles DEF MInv, MTypes
<1>3. Sees(s, W) /\ W # kd /\ W # d /\ d \notin D
  BY <1>1, <1>2 DEF MInv, MDirs, Sees
<1>4. /\ Follows(s, r) /\ r.free = s.free
      /\ r.mem[d] = Copy(NewDir(d), s.mem[kd])
      /\ \A g \in Frame : g # d /\ g # W => r.mem[g] = s.mem[g]
  BY <1>2, <1>3, CpyDirIs
<1>5. MState(r, D, kd, first, loose) /\ SamePages(s, r, D) /\ r.mem[kd][Window] = s.mem[kd][Window]
  <2>1. r \in MachineState /\ ~r.pse /\ r.cr3 \in D
    BY <1>2, <1>4 DEF Follows
  <2>2. OnlyFrames(s, r, loose \cup {s.mem[kd][Window].frame})
    BY <1>4 DEF OnlyFrames
  <2> QED
    BY <1>4, <2>1, <2>2, OtherFrames
<1>6. /\ {Self, Window, KernelHeap} \subseteq Entry /\ Self \notin {Window, KernelHeap}
      /\ \A e \in Private : e \in Entry /\ e \notin {Self, Window, KernelHeap}
      /\ \A e \in Unused : e \in Entry /\ e \notin {Self, Window, KernelHeap}
  BY MappableIs, EntriesInUse DEF Private, Mappable, Code, Heap, Stack, Window, KernelHeap
<1>7. /\ r.mem[d][Self] = Ent(d, FALSE)
      /\ r.mem[d][Window] = Ent(s.mem[kd][Window].frame, FALSE)
      /\ r.mem[d][KernelHeap] = Ent(s.mem[kd][KernelHeap].frame, FALSE)
      /\ \A e \in Private \cup Unused : ~r.mem[d][e].present
  <2>1. s.mem[kd] \in [Entry -> PageEntry]
    BY <1>2 DEF MachineState, Memory
  <2>2. \A e \in Entry : r.mem[d][e] =
          IF e \in {Window, KernelHeap} THEN Ent(s.mem[kd][e].frame, FALSE) ELSE NewDir(d)[e]
    <3> DEFINE row == NewDir(d)
               from == s.mem[kd]
    <3>1. row \in [Entry -> PageEntry] /\ from \in [Entry -> PageEntry] /\ r.mem[d] = Copy(row, from)
      BY <1>4, <2>1, NewDirIs
    <3> HIDE DEF row, from
    <3>2. \A e \in Entry : Copy(row, from)[e] =
            IF e \in {Window, KernelHeap} THEN Ent(from[e].frame, FALSE) ELSE row[e]
      BY <3>1, CopyIs
    <3> QED
      BY <3>1, <3>2 DEF row, from
  <2> QED
    BY <1>6, <2>2, NewDirIs
<1>8. r.mem[d][Window] = r.mem[kd][Window] /\ r.mem[d][KernelHeap] = r.mem[kd][KernelHeap]
  <2>1. r.mem[kd] = s.mem[kd]
    BY <1>2, <1>3, <1>4
  <2>2. s.mem[kd][Window] \in PageEntry /\ s.mem[kd][KernelHeap] \in PageEntry
    BY <1>2, <1>6 DEF MachineState, Memory
  <2>3. /\ s.mem[kd][Window].present /\ ~s.mem[kd][Window].user
        /\ ~s.mem[kd][KernelHeap].user
    BY <1>1 DEF MInv, MKernel
  <2>4. ASSUME NEW v \in PageEntry, v.present, ~v.user PROVE v = Ent(v.frame, FALSE)
    BY <2>4 DEF PageEntry, Ent
  <2> QED
    BY <1>7, <2>1, <2>2, <2>3, <2>4
<1>9. \A e \in Private, y \in Entry : ~Pres(r.mem, d, e, y)
  BY <1>7 DEF Pres
<1>10. MState(r, D \cup {d}, kd, first, loose \ {d})
  <2>1. PICK role : MInv(r, D, kd, first, loose, role)
    BY <1>5 DEF MState
  <2> DEFINE now == Is("dir", 0, 0, 0)
             role2 == [role EXCEPT ![d] = now]
  <2>2. now \in Role /\ now.kind = "dir"
    BY PagingAssumption DEF Is, Role, Kind, Frame, Entry
  <2> HIDE DEF now
  <2>3. role \in [Frame -> Role] /\ role[d].kind = "loose" /\ r \in MachineState /\ ~r.pse /\ r.cr3 \in D
    BY <2>1, FrameRoles DEF MInv, MTypes
  <2>4. /\ role2 \in [Frame -> Role] /\ role2[d].kind = "dir"
        /\ \A g \in Frame : g # d => role2[g] = role[g]
    BY <2>2, <2>3
  <2> HIDE DEF role2
  <2>5. ASSUME NEW g \in Frame, role[g].kind # "loose" PROVE role2[g] = role[g]
    BY <2>3, <2>4, <2>5
  <2>6. MTypes(r, D \cup {d}, kd, role2)
    BY <2>1, <2>4 DEF MInv, MTypes
  <2>7. MDirs(r, D \cup {d}, kd, role2)
    <3> SUFFICES ASSUME NEW d2 \in D \cup {d}
                 PROVE  /\ role2[d2].kind = "dir"
                        /\ r.mem[d2][Self].frame = d2 /\ ~r.mem[d2][Self].user
                        /\ r.mem[d2][Window] = r.mem[kd][Window]
                        /\ r.mem[d2][KernelHeap] = r.mem[kd][KernelHeap]
                        /\ \A y \in Unused : ~r.mem[d2][y].present
      BY DEF MDirs
    <3>1. CASE d2 = d
      <4>1. r.mem[d][Self].frame = d /\ r.mem[d][Self].user = FALSE
        BY <1>7, EntIs
      <4> QED
        BY <1>7, <1>8, <2>4, <3>1, <4>1
    <3>2. CASE d2 \in D
      BY <1>2, <2>1, <2>5, <3>2 DEF MInv, MDirs
    <3> QED
      BY <3>1, <3>2
  <2>8. \A d2 \in D, y \in Entry : r.mem[d2][y].frame \in Frame
    BY <1>2, <2>3 DEF MachineState, Memory, PageEntry
  <2>9. \A d2 \in D, y, z \in Entry : Beh(r.mem, d2, y, z) \in Frame
    <3>1. r.mem \in [Frame -> [Entry -> PageEntry]]
      BY <2>3 DEF MachineState, Memory
    <3>2. \A f \in Frame, z \in Entry : r.mem[f][z].frame \in Frame
      BY <3>1 DEF PageEntry
    <3> QED
      BY <2>8, <3>2 DEF Beh
  <2>10. MKernel(r, D \cup {d}, kd, role2)
    <3>1. r.mem[kd][KernelHeap].present
      BY <1>2, <1>3, <1>4
    <3> QED
      BY <1>2, <1>6, <2>1, <2>5, <2>8, <2>9, <3>1 DEF MInv, MKernel
  <2>11. MTables(r, D \cup {d}, kd, role2)
    <3> SUFFICES ASSUME NEW d2 \in D \cup {d}, NEW e \in Private, r.mem[d2][e].present
                 PROVE  LET rl == role2[r.mem[d2][e].frame]
                        IN  rl.kind = "table" /\ rl.dir = d2 /\ rl.entry = e
      BY DEF MTables
    <3>1. d2 \in D
      BY <1>7
    <3> QED
      BY <1>6, <2>1, <2>5, <2>8, <3>1 DEF MInv, MTables
  <2>12. MPages(r, D \cup {d}, kd, role2)
    <3> SUFFICES ASSUME NEW d2 \in D \cup {d}, NEW e \in Private, NEW y \in Entry, Pres(r.mem, d2, e, y)
                 PROVE  LET rl == role2[Beh(r.mem, d2, e, y)]
                        IN  rl.kind = "page" /\ (d2 # kd => rl.dir = d2 /\ rl.entry = e /\ rl.page = y)
      BY DEF MPages
    <3>1. d2 \in D
      BY <1>9
    <3> QED
      BY <1>6, <2>1, <2>5, <2>9, <3>1 DEF MInv, MPages
  <2>13. MRoles(r, D \cup {d}, kd, first, loose \ {d}, role2)
    <3> SUFFICES ASSUME NEW g \in Frame
                 PROVE  MRole(r, D \cup {d}, kd, first, loose \ {d}, g, role2[g])
      BY DEF MRoles
    <3>0. MRole(r, D, kd, first, loose, g, role[g])
      BY <2>1 DEF MInv, MRoles
    <3>1. CASE g = d
      BY <2>1, <2>3, <2>4, <3>0, <3>1 DEF MRole
    <3>2. CASE g # d
      BY <2>1, <2>4, <3>0, <3>2 DEF MRole
    <3> QED
      BY <3>1, <3>2
  <2>14. MFree(r)
    BY <2>1 DEF MInv
  <2> QED
    BY <2>6, <2>7, <2>10, <2>11, <2>12, <2>13, <2>14 DEF MInv, MState
<1> QED
  BY <1>4, <1>5, <1>9, <1>10 DEF Follows

-----------------------------------------------------------------------------
(* A frame shown in a slot of the window.                                  *)
LEMMA ShownKeeps ==
    ASSUME NEW s, NEW D, NEW kd, NEW first, NEW loose,
           MState(s, D, kd, first, loose),
           NEW f \in Frame, NEW slot \in Slots, NEW r, r = ToCurrent(s, f, slot)
    PROVE  MState(r, D, kd, first, loose) /\ r.cr3 = s.cr3 /\ SamePages(s, r, D) /\ r.free = s.free
<1> DEFINE W == s.mem[kd][Window].frame
<1>1. PICK role : MInv(s, D, kd, first, loose, role)
  BY DEF MState
<1>2. /\ s \in MachineState /\ ~s.pse /\ s.cr3 \in D /\ kd \in D
      /\ W \in Frame /\ role[W].kind = "window"
      /\ \A d2 \in D : role[d2].kind = "dir"
  BY <1>1, FrameRoles DEF MInv, MTypes
<1>3. Sees(s, W)
  BY <1>1, <1>2 DEF MInv, MDirs, Sees
<1>4. /\ r \in MachineState /\ r.free = s.free /\ r.pse = s.pse /\ r.cr3 = s.cr3
      /\ OnlySlot(s, r, W, slot)
  BY <1>2, <1>3, ToCurrentIs
<1>5. OnlyFrames(s, r, loose \cup {s.mem[kd][Window].frame})
  <2> SUFFICES ASSUME NEW g \in Frame, g # W PROVE r.mem[g] = s.mem[g]
    BY DEF OnlyFrames
  <2>1. r.mem[g] \in [Entry -> PageEntry] /\ s.mem[g] \in [Entry -> PageEntry]
    BY <1>2, <1>4 DEF MachineState, Memory
  <2>2. \A y \in Entry : r.mem[g][y] = s.mem[g][y]
    BY <1>4 DEF OnlySlot
  <2> QED
    BY <2>1, <2>2
<1>6. MState(r, D, kd, first, loose) /\ SamePages(s, r, D)
  BY <1>2, <1>4, <1>5, OtherFrames
<1> QED
  BY <1>4, <1>6

LEMMA ShownGoes ==
    ASSUME NEW s, NEW q, NEW D, NEW kd, NEW first, NEW loose, NEW dir, NEW e, NEW x,
           GoesOne(s, q, D, kd, first, loose, dir, e, x),
           NEW f \in Frame, NEW slot \in Slots, NEW r, r = ToCurrent(q, f, slot)
    PROVE  GoesOne(s, r, D, kd, first, loose, dir, e, x)
<1>1. Goes(s, q, D, kd, first, loose, dir, e, {x})
  BY DEF GoesOne
<1>2. MState(r, D, kd, first, loose) /\ r.cr3 = q.cr3 /\ SamePages(q, r, D) /\ r.free = q.free
  BY <1>1, ShownKeeps DEF Goes
<1>3. Keeps(q, r, D, kd) /\ Only(q, r, D, kd, dir, e, {})
  BY <1>2, SameKeeps
<1>4. Goes(q, r, D, kd, first, loose, dir, e, {})
  BY <1>1, <1>2, <1>3 DEF Goes
<1>5. Goes(s, r, D, kd, first, loose, dir, e, {x} \cup {})
  BY <1>1, <1>4, GoesOn
<1>6. {x} \cup {} = {x}
  OBVIOUS
<1> QED
  BY <1>5, <1>6 DEF GoesOne

(* The pages of the image: allocated, mapped and shown one by one.         *)
LEMMA LoadPageType ==
    ASSUME NEW s \in MachineState, NEW dir \in Frame, NEW e \in Entry, NEW x \in Entry
    PROVE  Follows(s, LoadPage(s, dir, PageAt(e, x)))
<1> DEFINE s1 == Allocated(s)
           f == NextFrame(s)
           user == TRUE
           s2 == MapPage(s1, dir, PageAt(e, x), f, user)
<1>1. Follows(s, s1) /\ s1 \in MachineState /\ f \in Frame /\ CodeSlot \in Slots /\ user \in BOOLEAN
  BY AllocatedType, NextFrameIs DEF Follows, Slots
<1> HIDE DEF s1, f, user
<1>2. Follows(s1, s2) /\ s2 \in MachineState
  BY <1>1, MapPageType DEF Follows
<1> HIDE DEF s2
<1>3. Follows(s2, ToCurrent(s2, f, CodeSlot))
  BY <1>1, <1>2, ToCurrentType
<1>4. LoadPage(s, dir, PageAt(e, x)) = ToCurrent(s2, f, CodeSlot)
  BY DEF LoadPage, s1, s2, f, user
<1>5. Follows(s, s2)
  BY <1>1, <1>2, FollowsOn
<1> QED
  BY <1>3, <1>4, <1>5, FollowsOn

LEMMA LoadPageKeeps ==
    ASSUME NEW s, NEW D, NEW kd, NEW first, NEW loose,
           MState(s, D, kd, first, loose),
           NEW dir \in D, NEW e \in Private, NEW x \in Entry, dir # kd,
           ~Pres(s.mem, dir, e, x),
           NEW r, r = LoadPage(s, dir, PageAt(e, x)), ~r.panicked
    PROVE  GoesOne(s, r, D, kd, first, loose, dir, e, x)
<1> DEFINE s1 == Allocated(s)
           f == NextFrame(s)
           user == TRUE
           s2 == MapPage(s1, dir, PageAt(e, x), f, user)
<1>1. /\ s \in MachineState /\ s1 \in MachineState /\ f \in Frame
      /\ dir \in Frame /\ e \in Entry /\ CodeSlot \in Slots /\ user \in BOOLEAN
  BY StateTypes, AllocatedIs, NextFrameIs, MappableIs DEF Slots
<1>2. r = ToCurrent(s2, f, CodeSlot)
  BY DEF LoadPage
<1>3. f = NextFrame(s)
  OBVIOUS
<1> HIDE DEF f, user
<1>4. s2 = MapPage(Allocated(s), dir, PageAt(e, x), f, user)
  OBVIOUS
<1>5. s2 \in MachineState
  <2> HIDE DEF s1
  <2> QED
    BY <1>1, MapPageType DEF Follows
<1> HIDE DEF s2, s1
<1>6. ~s2.panicked
  BY <1>1, <1>2, <1>5, ToCurrentType DEF Follows
<1>7. GoesOne(s, s2, D, kd, first, loose, dir, e, x)
  BY <1>1, <1>3, <1>4, <1>6, MapTaken
<1> QED
  BY <1>1, <1>2, <1>7, ShownGoes

LoadRun(h, s, dir, n) ==
    h = [i \in 0 .. n |-> IF i = 0 THEN s ELSE LoadPage(h[i - 1], dir, USER_CODE_BASE + i - 1)]
Loads(h, s, dir, n) ==
    h[0] = s /\ \A i \in 1 .. n : h[i] = LoadPage(h[i - 1], dir, PageAt(Code, i - 1))

LEMMA LoadPagesIs ==
    ASSUME NEW s \in MachineState, NEW dir \in Frame, NEW n \in 0 .. Width
    PROVE  \E h : Loads(h, s, dir, n) /\ LoadPages(s, dir, n) = h[n]
<1> DEFINE G == [z \in MachineState \X (1 .. n) |-> LoadPage(z[1], dir, PageAt(Code, z[2] - 1))]
<1>1. /\ Code \in Entry /\ n \in Nat
      /\ \A i \in 1 .. n : /\ USER_CODE_BASE + i - 1 = PageAt(Code, i - 1)
                           /\ i - 1 \in Entry
  <2>1. Code * Width = 0
    BY PagingAssumption DEF Code
  <2> QED
    BY <2>1, PagingAssumption, EntriesInUse DEF Entry, PageAt, USER_CODE_BASE
<1>2. G \in [MachineState \X (1 .. n) -> MachineState]
  <2> SUFFICES ASSUME NEW m \in MachineState, NEW i \in 1 .. n
               PROVE  LoadPage(m, dir, PageAt(Code, i - 1)) \in MachineState
    OBVIOUS
  <2>1. i - 1 \in Entry
    BY <1>1
  <2> QED
    BY <1>1, <2>1, LoadPageType DEF Follows
<1>3. \E h \in [0 .. n -> MachineState] : IsRun(h, n, s, G)
  <2> HIDE DEF G
  <2> QED
    BY <1>1, <1>2, RunExists
<1>4. \E h : LoadRun(h, s, dir, n)
  <2>1. PICK h \in [0 .. n -> MachineState] : IsRun(h, n, s, G)
    BY <1>3
  <2>2. ASSUME NEW i \in 1 .. n
        PROVE  G[<<h[i - 1], i>>] = LoadPage(h[i - 1], dir, USER_CODE_BASE + i - 1)
    <3>1. i - 1 \in 0 .. n
      OBVIOUS
    <3>2. h[i - 1] \in MachineState
      BY <2>1, <3>1
    <3> QED
      BY <1>1, <3>2
  <2> HIDE DEF G
  <2>3. LoadRun(h, s, dir, n)
    <3> DEFINE L(i) == LoadPage(h[i - 1], dir, USER_CODE_BASE + i - 1)
    <3>1. h = [i \in 0 .. n |-> IF i = 0 THEN s ELSE G[<<h[i - 1], i>>]]
      BY <2>1 DEF IsRun
    <3>2. \A i \in 1 .. n : G[<<h[i - 1], i>>] = L(i)
      BY <2>2
    <3> HIDE DEF L
    <3>3. \A i \in 0 .. n : i # 0 => i \in 1 .. n
      BY <1>1
    <3>4. h = [i \in 0 .. n |-> IF i = 0 THEN s ELSE L(i)]
      BY <3>1, <3>2, <3>3
    <3> QED
      BY <3>4 DEF L, LoadRun
  <2> QED
    BY <2>3
<1> DEFINE h == CHOOSE h : LoadRun(h, s, dir, n)
<1>5. LoadRun(h, s, dir, n)
  BY <1>4
<1>6. LoadPages(s, dir, n) = h[n]
  BY DEF LoadPages, LoadRun
<1> HIDE DEF h
<1>7. Loads(h, s, dir, n)
  BY <1>1, <1>5 DEF LoadRun, Loads
<1> QED
  BY <1>6, <1>7

LEMMA LoadPagesType ==
    ASSUME NEW s \in MachineState, NEW dir \in Frame, NEW n \in 0 .. Width
    PROVE  Follows(s, LoadPages(s, dir, n))
<1>1. PICK h : Loads(h, s, dir, n) /\ LoadPages(s, dir, n) = h[n]
  BY LoadPagesIs
<1> DEFINE S == {i \in 0 .. n : Follows(s, h[i])}
<1>2. 0 \in S /\ n \in Nat
  BY <1>1, PagingAssumption DEF Follows, Loads
<1>3. ASSUME NEW i \in 1 .. n, i - 1 \in S PROVE i \in S
  <2>1. Follows(s, h[i - 1]) /\ h[i - 1] \in MachineState /\ Code \in Entry /\ i - 1 \in Entry
    BY <1>3, PagingAssumption, EntriesInUse DEF Follows, Entry
  <2>2. Follows(h[i - 1], h[i])
    BY <1>1, <2>1, LoadPageType DEF Loads
  <2> QED
    BY <2>1, <2>2, FollowsOn
<1>4. n \in S
  <2> HIDE DEF S
  <2> QED
    BY <1>2, <1>3, UpTo
<1> QED
  BY <1>1, <1>4

LEMMA LoadPagesKeeps ==
    ASSUME NEW s, NEW D, NEW kd, NEW first, NEW loose,
           MState(s, D, kd, first, loose),
           NEW dir \in D, dir # kd, NEW n \in 0 .. Width,
           \A y \in Entry : ~Pres(s.mem, dir, Code, y),
           NEW r, r = LoadPages(s, dir, n), ~r.panicked
    PROVE  Goes(s, r, D, kd, first, loose, dir, Code, 0 .. n - 1)
<1>1. s \in MachineState /\ dir \in Frame /\ Code \in Private /\ Code \in Mappable /\ Code \in Entry
  BY StateTypes, EntriesInUse DEF Private, Mappable
<1>2. PICK h : Loads(h, s, dir, n) /\ LoadPages(s, dir, n) = h[n]
  BY <1>1, LoadPagesIs
<1> DEFINE P(i) == Goes(s, h[i], D, kd, first, loose, dir, Code, 0 .. i - 1)
           S == {i \in 0 .. n : h[i] \in MachineState /\ (~h[i].panicked => P(i))}
<1>3. 0 \in S /\ n \in Nat
  <2>1. SamePages(s, s, D)
    BY DEF SamePages
  <2>2. Keeps(s, s, D, kd) /\ Only(s, s, D, kd, dir, Code, {})
    BY <2>1, SameKeeps
  <2>3. 0 .. 0 - 1 = {} /\ n \in Nat
    BY PagingAssumption
  <2> QED
    BY <1>1, <1>2, <2>2, <2>3 DEF Loads, Goes
<1>4. ASSUME NEW i \in 1 .. n, i - 1 \in S PROVE i \in S
  <2> DEFINE q == h[i - 1]
             x == i - 1
             p == h[i]
             N == 0 .. (i - 1) - 1
  <2>1. /\ q \in MachineState /\ (~q.panicked => P(i - 1))
        /\ x \in Entry /\ x \notin N /\ N \cup {x} = 0 .. i - 1
        /\ p = LoadPage(q, dir, PageAt(Code, x))
    BY <1>2, <1>4, PagingAssumption DEF Loads, Entry
  <2>2. Follows(q, p)
    <3> HIDE DEF q, x, p
    <3> QED
      BY <1>1, <2>1, LoadPageType
  <2> SUFFICES ASSUME ~p.panicked PROVE Goes(s, p, D, kd, first, loose, dir, Code, 0 .. i - 1)
    BY <2>2 DEF Follows
  <2>3. Goes(s, q, D, kd, first, loose, dir, Code, N)
    BY <2>1, <2>2 DEF Follows
  <2> HIDE DEF q, x, p, N
  <2>4. ~Pres(q.mem, dir, Code, x)
    BY <1>1, <2>1, <2>3 DEF Goes, Only, Counted
  <2>5. GoesOne(q, p, D, kd, first, loose, dir, Code, x)
    BY <1>1, <2>1, <2>3, <2>4, LoadPageKeeps DEF Goes
  <2>6. Goes(s, p, D, kd, first, loose, dir, Code, N \cup {x})
    BY <2>3, <2>5, GoesOn DEF GoesOne
  <2> QED
    BY <2>1, <2>6
<1>5. n \in S
  <2> HIDE DEF S
  <2> QED
    BY <1>3, <1>4, UpTo
<1> QED
  BY <1>2, <1>5

(* The stack, whose page process 1 has in the kernel's directory too.      *)
LEMMA StackPage ==
    /\ USER_STACK_BASE = PageAt(Stack, Width - 2)
    /\ Width - 2 \in Entry /\ Stack \in Private /\ Stack \in Entry
<1>1. Width - 2 \in Entry /\ Stack \in Private /\ Stack \in Entry
  BY PagingAssumption, EntriesInUse DEF Entry, Private
<1>2. Stack * Width \in Nat
  BY PagingAssumption DEF Stack
<1>3. USER_STACK_BASE = PageAt(Stack, Width - 2)
  BY <1>2, PagingAssumption DEF USER_STACK_BASE, PageAt
<1> QED
  BY <1>1, <1>3

LEMMA UserStackType ==
    ASSUME NEW s \in MachineState, NEW dir \in Frame, kdir \in Frame, NEW id
    PROVE  Follows(s, UserStack(s, dir, id))
<1> DEFINE s1 == Allocated(s)
           f == NextFrame(s)
           user == TRUE
           x == Width - 2
           s2 == MapPage(s1, dir, PageAt(Stack, x), f, user)
<1>1. /\ Follows(s, s1) /\ s1 \in MachineState /\ f \in Frame /\ DirSlot \in Slots /\ user \in BOOLEAN
      /\ Stack \in Entry /\ x \in Entry
  BY AllocatedType, NextFrameIs, StackPage DEF Follows, Slots
<1>2. UserStack(s, dir, id) =
        IF id = 1 THEN MapPage(s2, kdir, PageAt(Stack, x), f, user) ELSE ToCurrent(s2, f, DirSlot)
  BY StackPage DEF UserStack
<1> HIDE DEF s1, f, user, x
<1>3. Follows(s1, s2) /\ s2 \in MachineState
  BY <1>1, MapPageType DEF Follows
<1> HIDE DEF s2
<1>4. /\ Follows(s2, MapPage(s2, kdir, PageAt(Stack, x), f, user))
      /\ Follows(s2, ToCurrent(s2, f, DirSlot))
  BY <1>1, <1>3, MapPageType, ToCurrentType
<1>5. Follows(s, s2)
  BY <1>1, <1>3, FollowsOn
<1> QED
  BY <1>2, <1>4, <1>5, FollowsOn

LEMMA UserStackKeeps ==
    ASSUME NEW s, NEW D, NEW first, NEW loose,
           MState(s, D, kdir, first, loose),
           NEW dir \in D, dir # kdir, NEW id,
           \A y \in Entry : ~Pres(s.mem, dir, Stack, y),
           NEW r, r = UserStack(s, dir, id), ~r.panicked
    PROVE  GoesOne(s, r, D, kdir, first, loose, dir, Stack, Width - 2)
<1> DEFINE s1 == Allocated(s)
           f == NextFrame(s)
           user == TRUE
           x == Width - 2
           s2 == MapPage(s1, dir, PageAt(Stack, x), f, user)
<1>1. /\ s \in MachineState /\ s1 \in MachineState /\ f \in Frame /\ DirSlot \in Slots /\ user \in BOOLEAN
      /\ dir \in Frame /\ kdir \in Frame /\ kdir \in D
      /\ Stack \in Entry /\ Stack \in Private /\ Stack \in Mappable /\ Stack # KernelHeap /\ x \in Entry
  BY StateTypes, AllocatedIs, NextFrameIs, StackPage, MappableIs DEF Slots, Mappable
<1>2. r = IF id = 1 THEN MapPage(s2, kdir, PageAt(Stack, x), f, user) ELSE ToCurrent(s2, f, DirSlot)
  BY StackPage DEF UserStack
<1>3. f = NextFrame(s) /\ ~Pres(s.mem, dir, Stack, x)
  BY <1>1
<1> SUFFICES GoesOne(s, r, D, kdir, first, loose, dir, Stack, x)
  OBVIOUS
<1> HIDE DEF f, user, x
<1>4. s2 = MapPage(Allocated(s), dir, PageAt(Stack, x), f, user)
  OBVIOUS
<1>5. s2 \in MachineState
  <2> HIDE DEF s1
  <2> QED
    BY <1>1, MapPageType DEF Follows
<1> HIDE DEF s1, s2
<1>6. ~s2.panicked
  <2>1. /\ Follows(s2, MapPage(s2, kdir, PageAt(Stack, x), f, user))
        /\ Follows(s2, ToCurrent(s2, f, DirSlot))
    BY <1>1, <1>5, MapPageType, ToCurrentType
  <2>2. Follows(s2, r)
    BY <1>2, <2>1
  <2> QED
    BY <2>2 DEF Follows
<1>7. /\ GoesOne(s, s2, D, kdir, first, loose, dir, Stack, x)
      /\ f \in Frame \ {0} /\ f \notin loose
      /\ Pres(s2.mem, dir, Stack, x) /\ Beh(s2.mem, dir, Stack, x) = f
  BY <1>1, <1>3, <1>4, <1>6, MapTaken
<1>8. CASE id # 1
  BY <1>1, <1>2, <1>7, <1>8, ShownGoes
<1>9. CASE id = 1
  <2>1. r = GivenPage(s2, kdir, Stack, x, f, user)
    <3>1. Stack \in Nat
      BY <1>1, PagingAssumption DEF Entry
    <3>2. r = MapPage(s2, kdir, PageAt(Stack, x), f, user)
      BY <1>2, <1>9
    <3> QED
      BY <1>1, <1>7, <3>1, <3>2, MapPageIs
  <2>2. MState(s2, D, kdir, first, loose)
    BY <1>7 DEF GoesOne, Goes
  <2>3. MayPlace(s2, D, kdir, loose, kdir, Stack, x, f, user)
    BY <1>1, <1>7 DEF MayPlace
  <2>4. MState(r, D, kdir, first, loose \ {f}) /\ Placed(s2, r, D, kdir, Stack, x, f)
    BY <1>1, <2>1, <2>2, <2>3, PlacedKeeps
  <2>5. loose \ {f} = loose
    BY <1>7
  <2>6. ASSUME NEW d2 \in D, NEW e2 \in Mappable, NEW y \in Entry, Counted(kdir, d2, e2)
        PROVE  /\ Pres(r.mem, d2, e2, y) <=> Pres(s2.mem, d2, e2, y)
               /\ Pres(s2.mem, d2, e2, y) => Beh(r.mem, d2, e2, y) = Beh(s2.mem, d2, e2, y)
    <3>1. ~Hits(kdir, Stack, d2, e2)
      BY <1>1, <2>6 DEF Hits, Counted
    <3> QED
      BY <2>4, <3>1 DEF Placed
  <2>7. Keeps(s2, r, D, kdir)
    BY <2>4, <2>6 DEF Placed, Keeps
  <2>8. Only(s2, r, D, kdir, dir, Stack, {})
    BY <2>6 DEF Only
  <2>9. r.cr3 = s2.cr3
    BY <1>1, <1>5, <2>1, GivenPageType DEF Follows
  <2>10. Goes(s2, r, D, kdir, first, loose, dir, Stack, {})
    BY <2>4, <2>5, <2>7, <2>8, <2>9 DEF Goes
  <2>11. Goes(s, s2, D, kdir, first, loose, dir, Stack, {x})
    BY <1>7 DEF GoesOne
  <2>12. Goes(s, r, D, kdir, first, loose, dir, Stack, {x} \cup {})
    BY <2>10, <2>11, GoesOn
  <2>13. {x} \cup {} = {x}
    OBVIOUS
  <2> QED
    BY <2>12, <2>13 DEF GoesOne
<1> QED
  BY <1>8, <1>9
-----------------------------------------------------------------------------
(* Paging_init: the window is mapped page by page, with nothing mapped yet.*)
WindowRun(h, s, k, n) ==
    h = [i \in 0 .. n |-> IF i = 0 THEN s ELSE MapPage(h[i - 1], k, Window * Width + i - 1, i - 1, FALSE)]
WindowGrows(h, s, k, n) ==
    h[0] = s /\ \A i \in 1 .. n : h[i] = MapPage(h[i - 1], k, PageAt(Window, i - 1), i - 1, FALSE)

LEMMA WindowMappedIs ==
    ASSUME NEW s \in MachineState, NEW k \in Frame, NEW n \in 0 .. Width
    PROVE  \E h : WindowGrows(h, s, k, n) /\ WindowMapped(s, k, n) = h[n]
<1> DEFINE user == FALSE
           G == [z \in MachineState \X (1 .. n) |-> MapPage(z[1], k, PageAt(Window, z[2] - 1), z[2] - 1, user)]
           L(h, i) == MapPage(h[i - 1], k, Window * Width + i - 1, i - 1, FALSE)
<1>1. /\ Window \in Entry /\ n \in Nat /\ user \in BOOLEAN
      /\ \A i \in 1 .. n : /\ Window * Width + i - 1 = PageAt(Window, i - 1)
                           /\ i - 1 \in Entry /\ i - 1 \in Frame
  <2>1. Window * Width \in Nat
    BY PagingAssumption DEF Window
  <2> QED
    BY <2>1, PagingAssumption, EntriesInUse DEF Entry, PageAt, Frame
<1>2. G \in [MachineState \X (1 .. n) -> MachineState]
  <2> HIDE DEF user
  <2> SUFFICES ASSUME NEW m \in MachineState, NEW i \in 1 .. n
               PROVE  MapPage(m, k, PageAt(Window, i - 1), i - 1, user) \in MachineState
    OBVIOUS
  <2> DEFINE j == i - 1
  <2>1. j \in Entry /\ j \in Frame
    BY <1>1
  <2> HIDE DEF j
  <2>2. MapPage(m, k, PageAt(Window, j), j, user) \in MachineState
    BY <1>1, <2>1, MapPageType DEF Follows
  <2> QED
    BY <2>2 DEF j
<1>3. \E h \in [0 .. n -> MachineState] : IsRun(h, n, s, G)
  <2> HIDE DEF G
  <2> QED
    BY <1>1, <1>2, RunExists
<1>4. \E h : WindowRun(h, s, k, n)
  <2>1. PICK h \in [0 .. n -> MachineState] : IsRun(h, n, s, G)
    BY <1>3
  <2>2. h = [i \in 0 .. n |-> IF i = 0 THEN s ELSE G[<<h[i - 1], i>>]]
    BY <2>1 DEF IsRun
  <2>3. ASSUME NEW i \in 1 .. n PROVE G[<<h[i - 1], i>>] = L(h, i)
    <3>1. i - 1 \in 0 .. n
      OBVIOUS
    <3>2. h[i - 1] \in MachineState
      BY <2>1, <3>1
    <3> QED
      BY <1>1, <3>2
  <2>4. \A i \in 0 .. n : i # 0 => i \in 1 .. n
    BY <1>1
  <2> HIDE DEF G, L
  <2>5. h = [i \in 0 .. n |-> IF i = 0 THEN s ELSE L(h, i)]
    BY <2>2, <2>3, <2>4
  <2>6. WindowRun(h, s, k, n)
    BY <2>5 DEF L, WindowRun
  <2> QED
    BY <2>6
<1> DEFINE h == CHOOSE h : WindowRun(h, s, k, n)
<1>5. WindowRun(h, s, k, n)
  BY <1>4
<1>6. WindowMapped(s, k, n) = h[n]
  BY DEF WindowMapped, WindowRun
<1> HIDE DEF h
<1>7. WindowGrows(h, s, k, n)
  <2>1. h = [i \in 0 .. n |-> IF i = 0 THEN s ELSE L(h, i)]
    BY <1>5 DEF WindowRun
  <2>2. \A i \in 1 .. n : L(h, i) = MapPage(h[i - 1], k, PageAt(Window, i - 1), i - 1, FALSE)
    BY <1>1
  <2>3. 0 \in 0 .. n /\ \A i \in 1 .. n : i \in 0 .. n /\ i # 0
    BY <1>1
  <2> HIDE DEF L
  <2>4. h[0] = s /\ \A i \in 1 .. n : h[i] = L(h, i)
    BY <2>1, <2>3
  <2> QED
    BY <2>2, <2>4 DEF WindowGrows
<1> QED
  BY <1>6, <1>7

(* Before there is a window the kernel's directory k is all there is; then *)
(* its table t too, and the frame that page 0 of the window took and lost. *)
Untouched(s, first, taken) ==
    /\ taken \subseteq first .. NFrames /\ s.free = (first .. NFrames) \ taken
    /\ \A g \in Frame \ taken, y \in Entry : ~s.mem[g][y].present

KernelDir(s, k) ==
    /\ s \in MachineState /\ s.pse /\ k \in Frame
    /\ s.mem[k][Self] = Ent(k, FALSE)
    /\ \A y \in Entry \ {Self, Window} : ~s.mem[k][y].present

NoTable(s, first, k) ==
    KernelDir(s, k) /\ Untouched(s, first, {k}) /\ ~s.mem[k][Window].present

WithWindow(s, first, k, lost, t) ==
    /\ KernelDir(s, k) /\ Untouched(s, first, {k, lost, t})
    /\ lost \in Frame /\ t \in Frame
    /\ k # lost /\ k # t /\ lost # t
    /\ s.mem[k][Window] = Ent(t, FALSE)

LEMMA FirstPageMapped ==
    ASSUME NEW s, NEW first, NEW k, NoTable(s, first, k), NEW x \in Entry, NEW user, user = FALSE,
           NEW r, r = MapPage(s, k, PageAt(Window, x), 0, user), ~r.panicked
    PROVE  \E lost, t \in Frame : WithWindow(r, first, k, lost, t)
<1> DEFINE s1 == Allocated(s)
           f == NextFrame(s)
<1>1. /\ s \in MachineState /\ s1 \in MachineState /\ f \in Frame /\ k \in Frame /\ user \in BOOLEAN
      /\ Window \in Entry /\ Window \in Nat /\ Self \in Entry /\ Self # Window
  BY AllocatedIs, NextFrameIs, EntriesInUse, PagingAssumption DEF NoTable, KernelDir, Window
<1>2. r = GivenPage(s1, k, Window, x, f, user)
  BY <1>1, MapPageIs
<1> HIDE DEF s1
<1>3. Follows(s1, r)
  BY <1>1, <1>2, GivenPageType
<1>4. /\ f \in s.free /\ s1.free = s.free \ {f} /\ s1.mem = s.mem /\ s1.pse
  BY <1>1, <1>3, AllocatedIs, NextFrameIs DEF Follows, s1, NoTable, KernelDir
<1> HIDE DEF f
<1>5. Sees(s1, NoWindow) /\ k # NoWindow /\ NoWindow \notin Frame
  BY <1>1, <1>4 DEF Sees, NoWindow, Frame
<1>6. MayMapIn(s1, NoWindow, k, Window) /\ ~s1.mem[k][Window].present
  BY <1>1, <1>4, <1>5 DEF MayMapIn, NoTable, Untouched
<1>7. PICK t \in Frame : PageMapped(s1, r, NoWindow, k, Window, x, t, f, user)
  BY <1>1, <1>2, <1>5, <1>6, GivenPageIs
<1>8. /\ r \in MachineState /\ r.pse /\ t \in s1.free /\ r.free = s1.free \ {t}
      /\ \A g \in Frame, y \in Entry :
           r.mem[g][y] = IF g = t /\ y = x THEN Ent(f, user)
                         ELSE IF g = t /\ y = 0 THEN Clear
                         ELSE IF g = k /\ y = Window THEN Ent(t, user)
                         ELSE s.mem[g][y]
  <2>1. /\ r \in MachineState /\ r.pse = s1.pse
        /\ t \in s1.free /\ r.free = s1.free \ {t}
    BY <1>6, <1>7 DEF PageMapped
  <2>2. ASSUME NEW g \in Frame, NEW y \in Entry
        PROVE  r.mem[g][y] = IF g = t /\ y = x THEN Ent(f, user)
                             ELSE IF g = t /\ y = 0 THEN Clear
                             ELSE IF g = k /\ y = Window THEN Ent(t, user)
                             ELSE s.mem[g][y]
    BY <1>4, <1>5, <1>6, <1>7 DEF PageMapped
  <2>3. r.pse
    BY <1>4, <2>1
  <2> QED
    BY <2>1, <2>2, <2>3
<1>9. /\ t # k /\ t # f /\ f # k /\ {f, k, t} \subseteq first .. NFrames
      /\ r.free = (first .. NFrames) \ {k, f, t}
  BY <1>4, <1>8 DEF NoTable, Untouched
<1>10. \A g \in Frame \ {k, f, t}, y \in Entry : ~r.mem[g][y].present
  BY <1>8 DEF NoTable, Untouched
<1>11. /\ r.mem[k][Self] = Ent(k, FALSE) /\ r.mem[k][Window] = Ent(t, FALSE)
       /\ \A y \in Entry \ {Self, Window} : ~r.mem[k][y].present
  BY <1>1, <1>8, <1>9 DEF NoTable, KernelDir
<1>12. WithWindow(r, first, k, f, t)
  BY <1>1, <1>8, <1>9, <1>10, <1>11 DEF WithWindow, KernelDir, Untouched
<1> QED
  BY <1>1, <1>12

LEMMA NextPageMapped ==
    ASSUME NEW s, NEW first, NEW k, NEW lost, NEW t, WithWindow(s, first, k, lost, t),
           NEW x \in Entry, NEW f \in Frame, f # 0, NEW user, user = FALSE,
           NEW r, r = MapPage(s, k, PageAt(Window, x), f, user), ~r.panicked
    PROVE  WithWindow(r, first, k, lost, t)
<1>1. /\ s \in MachineState /\ s.pse /\ k \in Frame /\ user \in BOOLEAN
      /\ Window \in Entry /\ Window \in Nat /\ Self \in Entry /\ Self # Window
      /\ s.mem[k][Window].present /\ s.mem[k][Window].frame = t /\ t # k /\ t \in Frame
  BY EntriesInUse, PagingAssumption, EntIs DEF WithWindow, KernelDir, Window
<1>2. r = GivenPage(s, k, Window, x, f, user)
  BY <1>1, MapPageIs
<1>3. Sees(s, NoWindow) /\ k # NoWindow /\ NoWindow \notin Frame
  BY <1>1 DEF Sees, NoWindow, Frame
<1>4. MayMapIn(s, NoWindow, k, Window)
  BY <1>1, <1>3 DEF MayMapIn, WithWindow, Untouched
<1>5. PICK t2 \in Frame : PageMapped(s, r, NoWindow, k, Window, x, t2, f, user)
  BY <1>1, <1>2, <1>3, <1>4, GivenPageIs
<1>6. /\ r \in MachineState /\ r.pse /\ r.free = s.free
      /\ \A g \in Frame, y \in Entry :
           r.mem[g][y] = IF g = t /\ y = x THEN Ent(f, user) ELSE s.mem[g][y]
  BY <1>1, <1>3, <1>5 DEF PageMapped
<1>7. \A g \in Frame \ {t}, y \in Entry : r.mem[g][y] = s.mem[g][y]
  BY <1>6
<1>8. KernelDir(r, k) /\ r.mem[k][Window] = s.mem[k][Window]
  BY <1>1, <1>6, <1>7, ZenonT(60) DEF WithWindow, KernelDir
<1>9. Untouched(r, first, {k, lost, t})
  BY <1>6, <1>7 DEF WithWindow, Untouched
<1> QED
  BY <1>8, <1>9 DEF WithWindow

LEMMA WindowMappedType ==
    ASSUME NEW s \in MachineState, NEW k \in Frame, NEW n \in 0 .. Width
    PROVE  Follows(s, WindowMapped(s, k, n))
<1> DEFINE user == FALSE
<1>1. PICK h : WindowGrows(h, s, k, n) /\ WindowMapped(s, k, n) = h[n]
  BY WindowMappedIs
<1> DEFINE S == {i \in 0 .. n : Follows(s, h[i])}
<1>2. 0 \in S /\ n \in Nat /\ user \in BOOLEAN
  BY <1>1, PagingAssumption DEF Follows, WindowGrows
<1>3. ASSUME NEW i \in 1 .. n, i - 1 \in S PROVE i \in S
  <2> DEFINE j == i - 1
             q == h[j]
             p == h[i]
  <2>a. Window \in Entry /\ j \in Entry /\ j \in Frame
    BY PagingAssumption, EntriesInUse DEF Entry, Frame
  <2>b. Follows(s, q) /\ q \in MachineState
    BY <1>3 DEF Follows
  <2>c. p = MapPage(q, k, PageAt(Window, j), j, user)
    BY <1>1 DEF WindowGrows
  <2>1. /\ Follows(s, q) /\ q \in MachineState /\ Window \in Entry /\ j \in Entry /\ j \in Frame
        /\ p = MapPage(q, k, PageAt(Window, j), j, user)
    BY <2>a, <2>b, <2>c
  <2> HIDE DEF q, p, user, j
  <2>2. Follows(q, p)
    BY <1>2, <2>1, MapPageType
  <2>3. Follows(s, p)
    BY <2>1, <2>2, FollowsOn
  <2> QED
    BY <2>3 DEF p
<1>4. n \in S
  <2> HIDE DEF S
  <2> QED
    BY <1>2, <1>3, UpTo
<1> QED
  BY <1>1, <1>4

LEMMA WindowKeeps ==
    ASSUME NEW s, NEW first, NEW k, NoTable(s, first, k),
           NEW r, r = WindowMapped(s, k, Width), ~r.panicked
    PROVE  \E lost, t \in Frame : WithWindow(r, first, k, lost, t)
<1> DEFINE user == FALSE
<1>1. s \in MachineState /\ k \in Frame /\ Width \in 0 .. Width /\ Width \in Nat /\ 0 # Width /\ user \in BOOLEAN
  BY PagingAssumption DEF NoTable, KernelDir
<1>2. PICK h : WindowGrows(h, s, k, Width) /\ WindowMapped(s, k, Width) = h[Width]
  BY <1>1, WindowMappedIs
<1> DEFINE P(i) == \E lost, t \in Frame : WithWindow(h[i], first, k, lost, t)
           S == {i \in 0 .. Width : h[i] \in MachineState /\ (i # 0 /\ ~h[i].panicked => P(i))}
<1>3. 0 \in S /\ h[0] = s
  BY <1>1, <1>2 DEF WindowGrows
<1>4. ASSUME NEW i \in 1 .. Width, i - 1 \in S PROVE i \in S
  <2> DEFINE j == i - 1
             q == h[j]
             p == h[i]
  <2>1. /\ q \in MachineState /\ (j # 0 /\ ~q.panicked => P(j))
        /\ Window \in Entry /\ j \in Entry /\ j \in Frame
        /\ p = MapPage(q, k, PageAt(Window, j), j, user)
        /\ j = 0 => q = s
    <3>1. Window \in Entry /\ j \in Entry /\ j \in Frame
      BY PagingAssumption, EntriesInUse DEF Entry, Frame
    <3>2. q \in MachineState /\ (j # 0 /\ ~q.panicked => P(j))
      <4>1. j \in S
        BY <1>4
      <4> HIDE DEF P, j
      <4> QED
        BY <4>1
    <3>3. p = MapPage(q, k, PageAt(Window, j), j, user)
      BY <1>2 DEF WindowGrows
    <3>4. j = 0 => q = s
      BY <1>3
    <3> HIDE DEF P, p, q, j
    <3> QED
      BY <3>1, <3>2, <3>3, <3>4
  <2> HIDE DEF user
  <2>2. Follows(q, p)
    <3> HIDE DEF q, p, j
    <3> QED
      BY <1>1, <2>1, MapPageType
  <2> SUFFICES ASSUME ~p.panicked PROVE \E lost, t \in Frame : WithWindow(p, first, k, lost, t)
    BY <2>2 DEF Follows
  <2>3. ~q.panicked
    BY <2>2 DEF Follows
  <2>4. CASE j = 0
    <3> HIDE DEF q, p, j
    <3>1. p = MapPage(s, k, PageAt(Window, j), 0, user)
      BY <2>1, <2>4
    <3>2. user = FALSE
      BY DEF user
    <3> QED
      BY <2>1, <3>1, <3>2, FirstPageMapped
  <2>5. CASE j # 0
    <3>1. PICK lost, t \in Frame : WithWindow(q, first, k, lost, t)
      BY <2>1, <2>3, <2>5
    <3>2. user = FALSE
      BY DEF user
    <3> HIDE DEF q, p, j
    <3>3. WithWindow(p, first, k, lost, t)
      BY <2>1, <2>5, <3>1, <3>2, NextPageMapped
    <3> QED
      BY <3>1, <3>3
  <2> QED
    BY <2>4, <2>5
<1>5. Width \in S
  <2> HIDE DEF S
  <2> QED
    BY <1>1, <1>3, <1>4, UpTo
<1> QED
  BY <1>1, <1>2, <1>5

(* Behind Paging_init the invariant holds.                                 *)
Opened(s, k) == [s EXCEPT !.pse = FALSE, !.cr3 = k]

LEMMA InvariantBegins ==
    ASSUME NEW s, NEW first \in Nat, NEW k, NEW lost, NEW t, WithWindow(s, first, k, lost, t),
           NEW r, r = Opened(s, k)
    PROVE  /\ MState(r, {k}, k, first, {lost})
           /\ \A e \in Mappable, y \in Entry : ~Pres(r.mem, k, e, y)
<1> DEFINE KindOf(g) == IF g < first THEN "other" ELSE IF g = k THEN "dir"
                        ELSE IF g = lost THEN "loose" ELSE IF g = t THEN "window" ELSE "free"
           role == [g \in Frame |-> Is(KindOf(g), 0, 0, 0)]
<1>1. /\ r \in MachineState /\ ~r.pse /\ r.cr3 = k /\ r.mem = s.mem /\ r.free = s.free
      /\ k \in Frame /\ k \in {k}
  BY DEF WithWindow, KernelDir, Opened, MachineState
<1>2. /\ {Self, Window, KernelHeap} \subseteq Entry /\ Self \notin {Window, KernelHeap} /\ Window # KernelHeap
      /\ Mappable \subseteq Entry \ {Self, Window}
      /\ \A e \in Unused : e \in Entry \ {Self, Window}
      /\ KernelHeap \in Mappable /\ Private \subseteq Mappable
  BY MappableIs, EntriesInUse DEF Window, KernelHeap, Mappable
<1>3. role \in [Frame -> Role]
  BY PagingAssumption DEF Is, Role, Kind, Frame, Entry
<1>4. \A g \in Frame : role[g].kind = KindOf(g)
  BY DEF Is
<1> HIDE DEF role
<1>5. /\ s.mem[k][Self].frame = k /\ ~s.mem[k][Self].user
      /\ s.mem[k][Window].present /\ ~s.mem[k][Window].user /\ s.mem[k][Window].frame = t
      /\ \A e \in Mappable \cup Unused : ~s.mem[k][e].present
  <2>1. /\ Ent(k, FALSE).frame = k /\ Ent(k, FALSE).user = FALSE
        /\ Ent(t, FALSE).present /\ Ent(t, FALSE).frame = t /\ Ent(t, FALSE).user = FALSE
    BY EntIs DEF WithWindow, KernelDir
  <2> QED
    BY <1>2, <2>1 DEF WithWindow, KernelDir
<1>6. /\ {k, lost, t} \subseteq first .. NFrames /\ k # lost /\ k # t /\ lost # t
      /\ s.free = (first .. NFrames) \ {k, lost, t}
      /\ {k, lost, t} \subseteq Frame
      /\ \A g \in Frame : g \in Nat /\ (g \in first .. NFrames <=> ~(g < first))
  BY PagingAssumption DEF WithWindow, Untouched, KernelDir, Frame
<1>7. role[k].kind = "dir" /\ role[t].kind = "window"
  BY <1>4, <1>6
<1>8. \A e \in Mappable, y \in Entry : ~Pres(r.mem, k, e, y)
  BY <1>1, <1>5 DEF Pres
<1>9. MTypes(r, {k}, k, role)
  BY <1>1, <1>3 DEF MTypes
<1>10. MDirs(r, {k}, k, role)
  BY <1>1, <1>5, <1>7 DEF MDirs
<1>11. MKernel(r, {k}, k, role)
  BY <1>1, <1>2, <1>5, <1>7, <1>8 DEF MKernel
<1>12. MTables(r, {k}, k, role) /\ MPages(r, {k}, k, role)
  BY <1>1, <1>2, <1>5, <1>8 DEF MTables, MPages
<1>13. MRoles(r, {k}, k, first, {lost}, role)
  <2> SUFFICES ASSUME NEW g \in Frame
               PROVE  /\ role[g].kind \in {"other", "free", "loose", "dir", "window"}
                      /\ role[g].kind = "other" <=> g < first
                      /\ role[g].kind = "free" <=> g \in s.free
                      /\ role[g].kind = "loose" <=> g \in {lost}
                      /\ role[g].kind = "dir" => g \in {k}
                      /\ role[g].kind = "window" => g = s.mem[k][Window].frame
    BY <1>1 DEF MRoles, MRole
  <2> QED
    BY <1>4, <1>5, <1>6
<1>14. MFree(r)
  <2>1. \A g \in s.free : g \in Frame \ {k, lost, t}
    BY <1>6, PagingAssumption DEF Frame
  <2> QED
    BY <1>1, <2>1 DEF MFree, WithWindow, Untouched
<1> QED
  BY <1>8, <1>9, <1>10, <1>11, <1>12, <1>13, <1>14 DEF MInv, MState

(* What Init says of the machine.                                          *)
Fresh(s, first) ==
    /\ s \in MachineState /\ s.pse /\ s.free = first .. NFrames
    /\ s.mem = [f \in Frame |-> [e \in Entry |-> Leftover]]

LEMMA FirstDirectory ==
    ASSUME ~Leftover.present, NEW first \in FirstFrees, NEW s, Fresh(s, first),
           NEW k, k = NextFrame(s), NEW r, r = CreateDir(s), ~r.panicked
    PROVE  NoTable(r, first, k)
<1>1. s \in MachineState /\ s.pse /\ NoWindow \notin Frame /\ first \in Nat
  BY PagingAssumption DEF Fresh, NoWindow, Frame
<1>2. Sees(s, NoWindow)
  BY <1>1 DEF Sees
<1>3. /\ Follows(s, r) /\ r.free = s.free \ {k} /\ k \in s.free /\ r.mem[k] = NewDir(k)
      /\ \A g \in Frame : g # k /\ g # NoWindow => r.mem[g] = s.mem[g]
  BY <1>1, <1>2, CreateDirIs
<1>4. k \in Frame /\ k \in first .. NFrames /\ s.free = first .. NFrames
  BY <1>1, <1>3 DEF Fresh, MachineState
<1>5. /\ NewDir(k)[Self] = Ent(k, FALSE)
      /\ \A e \in Entry : e # Self => ~NewDir(k)[e].present
  BY <1>4, NewDirIs
<1>6. \A g \in Frame \ {k}, y \in Entry : r.mem[g][y] = Leftover
  BY <1>1, <1>3 DEF Fresh
<1>7. r \in MachineState /\ r.pse /\ Window \in Entry /\ Window # Self
  BY <1>1, <1>3, EntriesInUse DEF Follows, Window
<1>8. KernelDir(r, k) /\ ~r.mem[k][Window].present
  BY <1>3, <1>4, <1>5, <1>7 DEF KernelDir
<1>9. Untouched(r, first, {k})
  BY <1>3, <1>4, <1>6 DEF Untouched
<1> QED
  BY <1>8, <1>9 DEF NoTable

(* The whole of Paging_init.                                               *)
LEMMA PagingBegins ==
    ASSUME ~Leftover.present, NEW first \in FirstFrees, NEW s, Fresh(s, first),
           NEW k, k = NextFrame(s),
           NEW q, q = WindowMapped(CreateDir(s), k, Width), ~q.panicked,
           NEW r, r = Opened(q, k)
    PROVE  /\ k \in Frame \ {0} /\ r.free \subseteq s.free
           /\ \E lost \in Frame : MState(r, {k}, k, first, {lost})
           /\ \A e \in Mappable, y \in Entry : ~Pres(r.mem, k, e, y)
<1> DEFINE c == CreateDir(s)
<1>1. s \in MachineState /\ first \in Nat /\ Width \in 0 .. Width /\ k \in Frame
  BY PagingAssumption, NextFrameIs DEF Fresh
<1>2. Follows(s, c) /\ c \in MachineState
  BY <1>1, CreateDirIs DEF Follows
<1>3. Follows(c, WindowMapped(c, k, Width))
  BY <1>1, <1>2, WindowMappedType
<1>4. ~c.panicked
  BY <1>3 DEF Follows
<1> HIDE DEF c
<1>5. NoTable(c, first, k)
  BY <1>1, <1>4, FirstDirectory DEF c
<1>6. q = WindowMapped(c, k, Width)
  BY DEF c
<1>7. PICK lost, t \in Frame : WithWindow(q, first, k, lost, t)
  BY <1>5, <1>6, WindowKeeps
<1>8. /\ MState(r, {k}, k, first, {lost})
      /\ \A e \in Mappable, y \in Entry : ~Pres(r.mem, k, e, y)
  BY <1>1, <1>7, InvariantBegins
<1>9. r.free \subseteq s.free
  <2>1. q \in MachineState /\ q.free \subseteq first .. NFrames
    BY <1>7 DEF WithWindow, KernelDir, Untouched
  <2> QED
    BY <2>1 DEF Opened, Fresh, MachineState
<1>10. k # 0
  BY <1>1, <1>7, PagingAssumption DEF WithWindow, Untouched
<1> QED
  BY <1>1, <1>7, <1>8, <1>9, <1>10
-----------------------------------------------------------------------------
LEMMA EntryKinds ==
    \A e \in Entry : e \in Private \cup {Window, KernelHeap, Self} \cup Unused
BY PagingAssumption DEF Entry, Private, Unused, Code, Heap, Stack, Window, KernelHeap, Self

LEMMA TablesAre ==
    ASSUME NEW s, NEW D, NEW kd, NEW first, NEW loose, NEW role,
           MInv(s, D, kd, first, loose, role),
           NEW d \in D, NEW e \in Entry \ {Self}, s.mem[d][e].present
    PROVE  /\ s.mem[d][e].frame \in Frame
           /\ role[s.mem[d][e].frame].kind \in {"window", "heaptable", "table"}
<1>1. s \in MachineState /\ d \in Frame /\ kd \in D
  BY DEF MInv, MTypes
<1>2. s.mem[d][e].frame \in Frame
  BY <1>1 DEF MachineState, Memory, PageEntry
<1>3. e \in Private \cup {Window, KernelHeap}
  BY EntryKinds DEF MInv, MDirs
<1>4. CASE e \in Private
  BY <1>2, <1>4 DEF MInv, MTables
<1>5. CASE e \in {Window, KernelHeap}
  BY <1>2, <1>5 DEF MInv, MDirs, MKernel
<1> QED
  BY <1>3, <1>4, <1>5
-----------------------------------------------------------------------------
(* What the roles say of the frames behind pages and tables.               *)
LEMMA PageRole ==
    ASSUME NEW s, NEW D, NEW kd, NEW first, NEW loose, NEW role,
           MInv(s, D, kd, first, loose, role),
           NEW d \in D, NEW e \in Mappable, NEW y \in Entry, Pres(s.mem, d, e, y),
           NEW f, f = Beh(s.mem, d, e, y)
    PROVE  /\ f \in Frame
           /\ e = KernelHeap => /\ role[f].kind = "heappage" /\ role[f].page = y
                                /\ Pres(s.mem, kd, KernelHeap, y) /\ Beh(s.mem, kd, KernelHeap, y) = f
           /\ e # KernelHeap =>
                /\ e \in Private /\ role[f].kind = "page"
                /\ d # kd => role[f].dir = d /\ role[f].entry = e /\ role[f].page = y
<1>1. /\ s \in MachineState /\ d \in Frame /\ kd \in D /\ e \in Entry /\ s.mem[d][e].present
      /\ s.mem[d][e].frame \in Frame
  BY TableRole, MappableIs, SMTT(30) DEF MInv, MTypes, Pres
<1>2. f \in Frame
  BY <1>1 DEF MachineState, Memory, PageEntry, Beh
<1>3. CASE e = KernelHeap
  <2>1. s.mem[d][KernelHeap] = s.mem[kd][KernelHeap]
    BY DEF MInv, MDirs
  <2>2. Pres(s.mem, kd, KernelHeap, y) /\ Beh(s.mem, kd, KernelHeap, y) = f
    BY <1>3, <2>1 DEF Pres, Beh
  <2>3. role[f].kind = "heappage" /\ role[f].page = y
    BY <2>2 DEF MInv, MKernel
  <2> QED
    BY <1>2, <1>3, <2>2, <2>3
<1>4. CASE e # KernelHeap
  <2>1. e \in Private
    BY <1>4 DEF Mappable
  <2> QED
    BY <1>2, <1>4, <2>1 DEF MInv, MPages
<1> QED
  BY <1>3, <1>4

(* No frame is behind two pages, but those of the heap that all share.     *)
LEMMA PagesUnshared ==
    ASSUME NEW s, NEW D, NEW kd, NEW first, NEW loose,
           MState(s, D, kd, first, loose),
           NEW d \in D, NEW e \in Mappable, NEW y \in Entry, Counted(kd, d, e), Pres(s.mem, d, e, y)
    PROVE  /\ Beh(s.mem, d, e, y) \in Frame \ s.free
           /\ \A d2 \in D, e2 \in Mappable, y2 \in Entry :
                Counted(kd, d2, e2) /\ Pres(s.mem, d2, e2, y2)
                /\ Beh(s.mem, d2, e2, y2) = Beh(s.mem, d, e, y)
                => Hits(d, e, d2, e2) /\ y2 = y
<1>1. PICK role : MInv(s, D, kd, first, loose, role)
  BY DEF MState
<1>2. /\ Beh(s.mem, d, e, y) \in Frame
      /\ LET rl == role[Beh(s.mem, d, e, y)]
         IN  IF e = KernelHeap THEN rl.kind = "heappage" /\ rl.page = y
             ELSE rl.kind = "page" /\ rl.dir = d /\ rl.entry = e /\ rl.page = y
  BY <1>1, PageRole DEF Counted
<1>3. Beh(s.mem, d, e, y) \notin s.free
  BY <1>1, <1>2 DEF MInv, MRoles, MRole
<1>4. ASSUME NEW d2 \in D, NEW e2 \in Mappable, NEW y2 \in Entry,
             Counted(kd, d2, e2), Pres(s.mem, d2, e2, y2),
             Beh(s.mem, d2, e2, y2) = Beh(s.mem, d, e, y)
      PROVE  Hits(d, e, d2, e2) /\ y2 = y
  <2>1. LET rl == role[Beh(s.mem, d2, e2, y2)]
        IN  IF e2 = KernelHeap THEN rl.kind = "heappage" /\ rl.page = y2
            ELSE rl.kind = "page" /\ rl.dir = d2 /\ rl.entry = e2 /\ rl.page = y2
    BY <1>1, <1>4, PageRole DEF Counted
  <2> QED
    BY <1>2, <1>4, <2>1 DEF Hits
<1> QED
  BY <1>2, <1>3, <1>4

(* A page of a user's own is in an entry of a process and no part of the   *)
(* kernel.                                                                 *)
LEMMA UserEntry ==
    ASSUME NEW s, NEW D, NEW kd, NEW first, NEW loose,
           MState(s, D, kd, first, loose),
           NEW d \in D, NEW e \in Entry, s.mem[d][e].present, s.mem[d][e].user
    PROVE  e \in Private
<1>1. PICK role : MInv(s, D, kd, first, loose, role)
  BY DEF MState
<1>2. /\ ~s.mem[d][Self].user
      /\ s.mem[d][Window] = s.mem[kd][Window] /\ ~s.mem[kd][Window].user
      /\ s.mem[d][KernelHeap] = s.mem[kd][KernelHeap]
      /\ s.mem[kd][KernelHeap].present => ~s.mem[kd][KernelHeap].user
      /\ \A u \in Unused : ~s.mem[d][u].present
  BY <1>1 DEF MInv, MDirs, MKernel
<1>3. e \notin {Self, Window, KernelHeap} \cup Unused
  BY <1>2
<1> HIDE DEF Self, Window, KernelHeap, Unused
<1> QED
  BY <1>3, EntryKinds

LEMMA UserPageRole ==
    ASSUME NEW s, NEW D, NEW kd, NEW first, NEW loose,
           MState(s, D, kd, first, loose),
           NEW d \in D, d # kd, NEW e \in Entry, NEW y \in Entry,
           Pres(s.mem, d, e, y), s.mem[d][e].user,
           NEW f, f = Beh(s.mem, d, e, y)
    PROVE  /\ e \in Private /\ f \notin D
           /\ \A d2 \in D, e2 \in Entry \ {Self} : s.mem[d2][e2].present => f # s.mem[d2][e2].frame
           /\ \A y2 \in Entry : Pres(s.mem, kd, KernelHeap, y2) => f # Beh(s.mem, kd, KernelHeap, y2)
           /\ \A d2 \in D, e2 \in Private, y2 \in Entry :
                d2 # kd /\ d2 # d /\ Pres(s.mem, d2, e2, y2) => f # Beh(s.mem, d2, e2, y2)
<1>1. PICK role : MInv(s, D, kd, first, loose, role)
  BY DEF MState
<1>2. e \in Private /\ e \in Mappable /\ e # KernelHeap /\ s.mem[d][e].present
  BY UserEntry, MappableIs DEF Pres, Private, Mappable, KernelHeap, Code, Heap, Stack
<1>3. role[f].kind = "page" /\ role[f].dir = d
  BY <1>1, <1>2, PageRole
<1>4. f \notin D
  BY <1>1, <1>3 DEF MInv, MDirs
<1>5. ASSUME NEW d2 \in D, NEW e2 \in Entry \ {Self}, s.mem[d2][e2].present
      PROVE  f # s.mem[d2][e2].frame
  BY <1>1, <1>3, <1>5, TablesAre
<1>6. ASSUME NEW y2 \in Entry, Pres(s.mem, kd, KernelHeap, y2)
      PROVE  f # Beh(s.mem, kd, KernelHeap, y2)
  BY <1>1, <1>3, <1>6 DEF MInv, MKernel
<1>7. ASSUME NEW d2 \in D, NEW e2 \in Private, NEW y2 \in Entry, d2 # kd, d2 # d, Pres(s.mem, d2, e2, y2)
      PROVE  f # Beh(s.mem, d2, e2, y2)
  BY <1>1, <1>3, <1>7 DEF MInv, MPages
<1> QED
  BY <1>2, <1>4, <1>5, <1>6, <1>7
-----------------------------------------------------------------------------
(* The machine between two steps.                                          *)
LEMMA KeepsFewer ==
    ASSUME NEW s, NEW r, NEW D, NEW D2, D \subseteq D2, NEW kd, Keeps(s, r, D2, kd)
    PROVE  Keeps(s, r, D, kd)
BY DEF Keeps

LEMMA OnlyElsewhere ==
    ASSUME NEW s, NEW r, NEW D, NEW kd, NEW first, NEW loose, NEW dir, NEW e, NEW N,
           Goes(s, r, D, kd, first, loose, dir, e, N),
           NEW d2 \in D, NEW e2 \in Mappable, Counted(kd, d2, e2), ~Hits(dir, e, d2, e2)
    PROVE  \A y \in Entry : Pres(r.mem, d2, e2, y) <=> Pres(s.mem, d2, e2, y)
BY DEF Goes, Only

LEMMA MappableOnes ==
    /\ Code \in Private /\ Heap \in Private /\ Stack \in Private /\ KernelHeap \notin Private
    /\ Code # Heap /\ Code # Stack /\ Heap # Stack
    /\ KernelHeap \in Mappable /\ Private \subseteq Mappable
    /\ \A e \in Private : e \in Mappable /\ e # KernelHeap
BY DEF Private, Mappable, Code, Heap, Stack, KernelHeap

(* The whole of Process_createUserProcess.                                 *)
Loaded(r, dir, n) ==
    \A e \in Private, y \in Entry :
        Pres(r.mem, dir, e, y) <=> (e = Code /\ y \in 0 .. n - 1) \/ (e = Stack /\ y = Width - 2)

OthersAs(s, r, D, kd) ==
    \A d \in D, e \in Private, y \in Entry :
        d # kd => (Pres(r.mem, d, e, y) <=> Pres(s.mem, d, e, y))

MadeProcess(s, r, D, dir, n) ==
    /\ dir \in s.free /\ dir \notin D /\ dir \in Frame \ {0}
    /\ r.cr3 = s.cr3
    /\ Keeps(s, r, D, kdir) /\ OthersAs(s, r, D, kdir) /\ Loaded(r, dir, n)
    /\ \A e \in Private, y \in Entry : Pres(r.mem, dir, e, y) => Beh(r.mem, dir, e, y) \in s.free

LEMMA ProcessTypes ==
    ASSUME NEW s \in MachineState, HeapDir \in Frame, kdir \in Frame,
           NEW a \in Nat, NEW before \in Nat, NEW after \in Nat, NEW n \in 0 .. Width, NEW id,
           NEW s1, s1 = KernelGrown(s, KERNEL_HEAP_BASE + a, before),
           NEW dir, dir = NextFrame(s1),
           NEW g, g = CreateDir(s1), NEW s2, s2 = CpyDir(g, kdir, dir),
           NEW s3, s3 = LoadPages(s2, dir, n),
           NEW s4, s4 = KernelGrown(s3, KERNEL_HEAP_BASE + (a + before), after),
           NEW r, r = UserStack(s4, dir, id)
    PROVE  /\ Follows(s, s1) /\ Follows(s1, g) /\ Follows(g, s2) /\ Follows(s2, s3)
           /\ Follows(s3, s4) /\ Follows(s4, r) /\ dir \in Frame
<1>1. Follows(s, s1) /\ s1 \in MachineState
  BY KernelGrownType DEF Follows
<1>2. dir \in Frame
  BY <1>1, NextFrameIs
<1>3. Follows(s1, g) /\ g \in MachineState
  BY <1>1, CreateDirIs DEF Follows
<1>4. Follows(g, s2) /\ s2 \in MachineState
  BY <1>2, <1>3, CpyDirIs DEF Follows
<1>5. Follows(s2, s3) /\ s3 \in MachineState
  BY <1>2, <1>4, LoadPagesType DEF Follows
<1>6. Follows(s3, s4) /\ s4 \in MachineState
  <2>1. a + before \in Nat
    OBVIOUS
  <2> QED
    BY <1>5, <2>1, KernelGrownType DEF Follows
<1>7. Follows(s4, r)
  BY <1>2, <1>6, UserStackType
<1> QED
  BY <1>1, <1>2, <1>3, <1>4, <1>5, <1>6, <1>7

Makes(s, D, first, loose, a, before, after, n, id, s1, dir, g, s2, s3, s4, r) ==
    /\ MState(s, D, kdir, first, loose) /\ HeapDir \in D
    /\ a \in Nat /\ before \in Nat /\ after \in Nat /\ a + before > 0
    /\ HeapIs(s, kdir, KernelHeap, a) /\ n \in 0 .. Width
    /\ s1 = KernelGrown(s, KERNEL_HEAP_BASE + a, before)
    /\ dir = NextFrame(s1) /\ g = CreateDir(s1) /\ s2 = CpyDir(g, kdir, dir)
    /\ s3 = LoadPages(s2, dir, n)
    /\ s4 = KernelGrown(s3, KERNEL_HEAP_BASE + (a + before), after)
    /\ r = UserStack(s4, dir, id) /\ ~r.panicked

LEMMA ProcessMade ==
    ASSUME NEW s, NEW D, NEW first, NEW loose,
           NEW a, NEW before, NEW after, NEW n, NEW id,
           NEW s1, NEW dir, NEW g, NEW s2, NEW s3, NEW s4, NEW r,
           Makes(s, D, first, loose, a, before, after, n, id, s1, dir, g, s2, s3, s4, r)
    PROVE  /\ MState(r, D \cup {dir}, kdir, first, loose) /\ MadeProcess(s, r, D, dir, n)
           /\ HeapIs(r, kdir, KernelHeap, a + before + after)
           /\ before > 0 => a + before <= MaxKernelHeap
           /\ after > 0 => a + before + after <= MaxKernelHeap
<1> USE DEF Makes
<1>1. s \in MachineState /\ D \subseteq Frame /\ kdir \in D /\ kdir \in Frame /\ HeapDir \in Frame
      /\ \A f \in Frame \cap loose : f \notin D \cup s.free
  BY StateTypes
<1>2. /\ Follows(s, s1) /\ Follows(s1, g) /\ Follows(g, s2) /\ Follows(s2, s3)
      /\ Follows(s3, s4) /\ Follows(s4, r) /\ dir \in Frame
  BY <1>1, ProcessTypes
<1>3. ~s1.panicked /\ ~g.panicked /\ ~s2.panicked /\ ~s3.panicked /\ ~s4.panicked
  BY <1>2 DEF Follows
<1>4. /\ Goes(s, s1, D, kdir, first, loose, HeapDir, KernelHeap, a .. a + before - 1)
      /\ HeapIs(s1, kdir, KernelHeap, a + before)
      /\ before > 0 => a + before <= MaxKernelHeap
  BY <1>3, KernelGrownKeeps
<1>5. MState(s1, D, kdir, first, loose) /\ s1.cr3 = s.cr3 /\ Keeps(s, s1, D, kdir)
  BY <1>4 DEF Goes
<1>6. /\ MState(g, D, kdir, first, loose \cup {dir}) /\ g.cr3 = s1.cr3
      /\ SamePages(s1, g, D) /\ g.free = s1.free \ {dir}
      /\ dir \in s1.free /\ dir \in Frame \ {0} /\ dir \notin loose
      /\ g.mem[dir] = NewDir(dir)
  BY <1>3, <1>5, CreateDirKeeps
<1>7. D \cap s1.free = {} /\ dir \notin D
  BY <1>5, <1>6, StateTypes
<1>8. g.mem[kdir][KernelHeap].present
  <2>1. 0 \in Entry /\ KernelHeap \in Mappable
    BY PagingAssumption, MappableIs DEF Entry, Mappable
  <2>2. Pres(s1.mem, kdir, KernelHeap, 0)
    BY <1>4, <2>1 DEF HeapIs
  <2>3. Pres(g.mem, kdir, KernelHeap, 0)
    BY <1>1, <1>6, <2>1, <2>2 DEF SamePages
  <2> QED
    BY <2>3 DEF Pres
<1> DEFINE E == D \cup {dir}
<1>9. /\ MState(s2, E, kdir, first, loose) /\ s2.cr3 = g.cr3
      /\ SamePages(g, s2, D) /\ s2.free = g.free
      /\ \A e \in Private, y \in Entry : ~Pres(s2.mem, dir, e, y)
  <2>1. dir \in loose \cup {dir} /\ (loose \cup {dir}) \ {dir} = loose
    BY <1>6
  <2> DEFINE lo == loose \cup {dir}
  <2>2. MState(g, D, kdir, first, lo) /\ dir \in lo /\ lo \ {dir} = loose
    BY <1>6, <2>1
  <2> HIDE DEF lo
  <2>3. /\ MState(s2, D \cup {dir}, kdir, first, lo \ {dir}) /\ s2.cr3 = g.cr3
        /\ SamePages(g, s2, D) /\ s2.free = g.free
        /\ \A e \in Private, y \in Entry : ~Pres(s2.mem, dir, e, y)
    <3>1. /\ dir \in Frame /\ dir \in lo /\ g.mem[dir] = NewDir(dir)
          /\ MState(g, D, kdir, first, lo) /\ s2 = CpyDir(g, kdir, dir)
      BY <1>2, <1>6, <2>2
    <3> QED
      BY <1>8, <3>1, CpyDirKeeps
  <2> QED
    BY <2>2, <2>3
<1>10. dir \in E /\ dir # kdir /\ HeapDir \in E /\ D \subseteq E /\ kdir \in E
  BY <1>1, <1>7
<1> HIDE DEF E
<1>11. Goes(s2, s3, E, kdir, first, loose, dir, Code, 0 .. n - 1)
  BY <1>3, <1>9, <1>10, MappableOnes, LoadPagesKeeps
<1>12. MState(s3, E, kdir, first, loose) /\ s3.cr3 = s2.cr3 /\ Keeps(s2, s3, E, kdir)
  BY <1>11 DEF Goes
<1>13. Counted(kdir, kdir, KernelHeap) /\ \A d, e : d # kdir => Counted(kdir, d, e)
  BY DEF Counted
<1>14. HeapIs(s3, kdir, KernelHeap, a + before)
  <2>1. \A y \in Entry : Pres(s3.mem, kdir, KernelHeap, y) <=> Pres(s2.mem, kdir, KernelHeap, y)
    <3>1. ~Hits(dir, Code, kdir, KernelHeap)
      BY MappableOnes DEF Hits
    <3> QED
      BY <1>10, <1>11, <1>13, <3>1, MappableOnes, OnlyElsewhere
  <2>2. \A y \in Entry : Pres(s2.mem, kdir, KernelHeap, y) <=> Pres(s1.mem, kdir, KernelHeap, y)
    BY <1>1, <1>6, <1>9, MappableOnes DEF SamePages
  <2> QED
    BY <1>4, <2>1, <2>2 DEF HeapIs
<1>15. /\ Goes(s3, s4, E, kdir, first, loose, HeapDir, KernelHeap, a + before .. a + before + after - 1)
       /\ HeapIs(s4, kdir, KernelHeap, a + before + after)
       /\ after > 0 => a + before + after <= MaxKernelHeap
  <2> DEFINE b == a + before
  <2>1. b \in Nat /\ HeapIs(s3, kdir, KernelHeap, b) /\ s4 = KernelGrown(s3, KERNEL_HEAP_BASE + b, after)
    BY <1>14
  <2> HIDE DEF b
  <2>2. /\ Goes(s3, s4, E, kdir, first, loose, HeapDir, KernelHeap, b .. b + after - 1)
        /\ HeapIs(s4, kdir, KernelHeap, b + after)
        /\ after > 0 => b + after <= MaxKernelHeap
    BY <1>3, <1>10, <1>12, <2>1, KernelGrownKeeps
  <2> QED
    BY <2>2 DEF b
<1>16. MState(s4, E, kdir, first, loose) /\ s4.cr3 = s3.cr3 /\ Keeps(s3, s4, E, kdir)
  BY <1>15 DEF Goes
<1>17. ASSUME NEW d \in E, d # kdir, NEW e \in Private
       PROVE  \A y \in Entry : Pres(s4.mem, d, e, y) <=> Pres(s3.mem, d, e, y)
  <2>1. ~Hits(HeapDir, KernelHeap, d, e)
    BY MappableOnes DEF Hits
  <2> QED
    BY <1>13, <1>15, <1>17, <2>1, MappableOnes, OnlyElsewhere
<1>18. ASSUME NEW d \in E, d # kdir, NEW e \in Private, ~Hits(dir, Code, d, e)
       PROVE  \A y \in Entry : Pres(s3.mem, d, e, y) <=> Pres(s2.mem, d, e, y)
  BY <1>11, <1>13, <1>18, MappableOnes, OnlyElsewhere
<1>19. \A y \in Entry : ~Pres(s4.mem, dir, Stack, y)
  <2>1. ~Hits(dir, Code, dir, Stack)
    BY MappableOnes DEF Hits
  <2> QED
    BY <1>9, <1>10, <1>17, <1>18, <2>1, MappableOnes
<1>20. GoesOne(s4, r, E, kdir, first, loose, dir, Stack, Width - 2)
  BY <1>10, <1>16, <1>19, UserStackKeeps
<1>21. Goes(s4, r, E, kdir, first, loose, dir, Stack, {Width - 2})
  BY <1>20 DEF GoesOne
<1>22. MState(r, E, kdir, first, loose) /\ r.cr3 = s4.cr3 /\ Keeps(s4, r, E, kdir)
  BY <1>21 DEF Goes
<1>23. ASSUME NEW d \in E, d # kdir, NEW e \in Private, ~Hits(dir, Stack, d, e)
       PROVE  \A y \in Entry : Pres(r.mem, d, e, y) <=> Pres(s4.mem, d, e, y)
  BY <1>13, <1>21, <1>23, MappableOnes, OnlyElsewhere
<1>24. Keeps(s2, r, E, kdir)
  BY <1>12, <1>16, <1>22, KeepsOn
<1>25. Keeps(s, r, D, kdir)
  <2>1. Keeps(s2, r, D, kdir)
    BY <1>10, <1>24, KeepsFewer
  <2>2. g.free \subseteq s1.free /\ s2.free \subseteq g.free
    BY <1>6, <1>9
  <2>3. Keeps(s1, g, D, kdir) /\ Keeps(g, s2, D, kdir)
    BY <1>6, <1>9, <2>2, SameKeeps
  <2> QED
    BY <1>5, <2>1, <2>3, KeepsOn
<1>26. s1.free \subseteq s.free /\ s2.free \subseteq s.free
  BY <1>5, <1>6, <1>9 DEF Keeps
<1>27. ASSUME NEW d \in D, d # kdir, NEW e \in Private
       PROVE  \A y \in Entry : Pres(r.mem, d, e, y) <=> Pres(s.mem, d, e, y)
  <2>1. d \in E /\ d # dir /\ ~Hits(dir, Stack, d, e) /\ ~Hits(dir, Code, d, e)
        /\ ~Hits(HeapDir, KernelHeap, d, e) /\ e \in Mappable
    BY <1>7, <1>10, MappableOnes DEF Hits
  <2>2. \A y \in Entry : Pres(r.mem, d, e, y) <=> Pres(s2.mem, d, e, y)
    BY <1>17, <1>18, <1>23, <1>27, <2>1
  <2>3. \A y \in Entry : Pres(s2.mem, d, e, y) <=> Pres(s1.mem, d, e, y)
    BY <1>6, <1>9, <2>1 DEF SamePages
  <2>4. \A y \in Entry : Pres(s1.mem, d, e, y) <=> Pres(s.mem, d, e, y)
    BY <1>4, <1>13, <1>27, <2>1, OnlyElsewhere
  <2> QED
    BY <2>2, <2>3, <2>4
<1>28. OthersAs(s, r, D, kdir)
  BY <1>27 DEF OthersAs
<1>29. Loaded(r, dir, n)
  <2>1. \A y \in Entry : Pres(s3.mem, dir, Code, y) <=> y \in 0 .. n - 1
    BY <1>9, <1>10, <1>11, <1>13, MappableOnes DEF Goes, Only, Hits
  <2>2. \A y \in Entry : Pres(r.mem, dir, Stack, y) <=> y = Width - 2
    BY <1>10, <1>13, <1>19, <1>21, MappableOnes DEF Goes, Only, Hits
  <2>3. ASSUME NEW e \in Private, e # Stack, NEW y \in Entry
        PROVE  Pres(r.mem, dir, e, y) <=> Pres(s3.mem, dir, e, y)
    BY <1>10, <1>17, <1>23, <2>3 DEF Hits
  <2>4. ASSUME NEW e \in Private, e # Code, NEW y \in Entry
        PROVE  ~Pres(s3.mem, dir, e, y)
    BY <1>9, <1>10, <1>18, <2>4 DEF Hits
  <2> QED
    BY <2>1, <2>2, <2>3, <2>4, MappableOnes DEF Loaded
<1>30. ASSUME NEW e \in Private, NEW y \in Entry, Pres(r.mem, dir, e, y)
       PROVE  Beh(r.mem, dir, e, y) \in s.free
  BY <1>9, <1>10, <1>13, <1>24, <1>26, <1>30, MappableOnes DEF Keeps
<1>31. MadeProcess(s, r, D, dir, n)
  <2>1. dir \in s.free /\ r.cr3 = s.cr3
    BY <1>5, <1>6, <1>9, <1>12, <1>16, <1>22, <1>26
  <2> QED
    BY <1>6, <1>7, <1>25, <1>28, <1>29, <1>30, <2>1 DEF MadeProcess
<1>32. HeapIs(r, kdir, KernelHeap, a + before + after)
  <2>1. ~Hits(dir, Stack, kdir, KernelHeap)
    BY MappableOnes DEF Hits
  <2>2. \A y \in Entry : Pres(r.mem, kdir, KernelHeap, y) <=> Pres(s4.mem, kdir, KernelHeap, y)
    BY <1>10, <1>13, <1>21, <2>1, MappableOnes, OnlyElsewhere
  <2> QED
    BY <1>15, <2>2 DEF HeapIs
<1>33. MState(r, D \cup {dir}, kdir, first, loose)
  BY <1>22 DEF E
<1> QED
  BY <1>4, <1>15, <1>31, <1>32, <1>33

-----------------------------------------------------------------------------
(* The invariant of Paging.                                                *)
(* Pages by their numbers.                                                 *)
LEMMA PageParts ==
    ASSUME NEW d, NEW v
    PROVE  /\ Maps(d, v) <=> Pres(mem, d, v \div Width, v % Width)
           /\ Behind(d, v) = Beh(mem, d, v \div Width, v % Width)
BY DEF Maps, Behind, Pres, Beh

LEMMA UserPages ==
    ASSUME NEW v \in UserPage
    PROVE  v \in AllPage /\ v \in Nat /\ v \div Width \in Private /\ v % Width \in Entry
<1>1. v \in Nat /\ v < 3 * Width
  BY PagingAssumption DEF UserPage, Window
<1>2. /\ v \div Width \in Nat /\ v % Width \in Entry
      /\ v = (v \div Width) * Width + (v % Width)
  BY <1>1, Parts
<1> DEFINE q == v \div Width
           t == v % Width
<1> HIDE DEF q, t
<1>3. q \in Nat /\ t \in 0 .. Width - 1 /\ v = q * Width + t
  BY <1>2 DEF q, t, Entry
<1>4. ~(3 <= q)
  <2> SUFFICES ASSUME 3 <= q PROVE FALSE
    OBVIOUS
  <2>1. 3 * Width <= q * Width
    BY <1>3, PagingAssumption
  <2> QED
    BY <1>1, <1>3, <2>1, PagingAssumption
<1>5. q \in Private
  BY <1>3, <1>4 DEF Private, Code, Heap, Stack
<1>6. v \in AllPage
  <2>1. 3 * Width <= Width * Width
    BY PagingAssumption
  <2> QED
    BY <1>1, <2>1, PagingAssumption DEF AllPage
<1> QED
  BY <1>1, <1>2, <1>5, <1>6 DEF q

LEMMA AllPages ==
    ASSUME NEW v \in AllPage
    PROVE  v \in Nat /\ v \div Width \in Entry /\ v % Width \in Entry
<1>1. v \in Nat /\ v < Width * Width
  BY PagingAssumption DEF AllPage
<1>2. /\ v \div Width \in Nat /\ v % Width \in Entry
      /\ v = (v \div Width) * Width + (v % Width)
  BY <1>1, Parts
<1> DEFINE q == v \div Width
           t == v % Width
<1> HIDE DEF q, t
<1>3. q \in Nat /\ t \in 0 .. Width - 1 /\ v = q * Width + t
  BY <1>2 DEF q, t, Entry
<1>4. ~(Width <= q)
  <2> SUFFICES ASSUME Width <= q PROVE FALSE
    OBVIOUS
  <2>1. Width * Width <= q * Width
    BY <1>3, PagingAssumption
  <2> QED
    BY <1>1, <1>3, <2>1, PagingAssumption
<1>5. q \in Entry
  BY <1>3, <1>4, PagingAssumption DEF Entry
<1> QED
  BY <1>1, <1>2, <1>5 DEF q

LEMMA KernelPages ==
    /\ KERNEL_HEAP_BASE = PageAt(KernelHeap, 0) /\ KERNEL_HEAP_BASE \in Nat
    /\ \A x \in Entry : /\ KERNEL_HEAP_BASE + x = PageAt(KernelHeap, x)
                        /\ KERNEL_HEAP_BASE + x \in KernelPage
    /\ \A v \in KernelPage : /\ v \in Nat /\ v \div Width = KernelHeap /\ v % Width \in Entry
                             /\ v = KERNEL_HEAP_BASE + (v % Width)
<1>1. /\ KERNEL_HEAP_BASE = PageAt(KernelHeap, 0) /\ KERNEL_HEAP_BASE \in Nat
      /\ \A x \in Entry : /\ KERNEL_HEAP_BASE + x = PageAt(KernelHeap, x)
                          /\ KERNEL_HEAP_BASE + x \in KernelPage
  BY PagingAssumption DEF KERNEL_HEAP_BASE, PageAt, KernelPage, KernelHeap, Entry
<1>2. ASSUME NEW v \in KernelPage
      PROVE  /\ v \in Nat /\ v \div Width = KernelHeap /\ v % Width \in Entry
             /\ v = KERNEL_HEAP_BASE + (v % Width)
  <2> DEFINE x == v - KERNEL_HEAP_BASE
  <2>1. x \in Entry /\ v \in Nat /\ v = KERNEL_HEAP_BASE + x
    BY PagingAssumption DEF KernelPage, KERNEL_HEAP_BASE, KernelHeap, Entry
  <2> HIDE DEF x
  <2>2. v = KernelHeap * Width + x /\ KernelHeap \in Nat
    BY <2>1 DEF KERNEL_HEAP_BASE, KernelHeap
  <2>3. v \div Width = KernelHeap /\ v % Width = x
    BY <2>1, <2>2, PageOf
  <2> QED
    BY <2>1, <2>3
<1> QED
  BY <1>1, <1>2

LEMMA NumberOf ==
    ASSUME NEW e \in Entry, NEW x \in Entry
    PROVE  /\ PageAt(e, x) \div Width = e /\ PageAt(e, x) % Width = x /\ PageAt(e, x) \in Nat
           /\ e \in Private => PageAt(e, x) \in UserPage
           /\ e = KernelHeap => PageAt(e, x) \in KernelPage
<1>1. e \in Nat /\ x \in Nat /\ x < Width
  BY PagingAssumption DEF Entry
<1>2. PageAt(e, x) \div Width = e /\ PageAt(e, x) % Width = x /\ PageAt(e, x) \in Nat
  BY <1>1, PageOf DEF PageAt
<1>3. e \in Private => PageAt(e, x) \in UserPage
  BY <1>1, PagingAssumption DEF Private, Code, Heap, Stack, PageAt, UserPage, Window
<1>4. e = KernelHeap => PageAt(e, x) \in KernelPage
  BY <1>1, PagingAssumption DEF PageAt, KernelPage, KERNEL_HEAP_BASE, Entry
<1> QED
  BY <1>2, <1>3, <1>4

LEMMA HeapPages ==
    ASSUME NEW v \in USER_HEAP_BASE .. USER_HEAP_BASE + Width - 1
    PROVE  v \in Nat /\ v \div Width = Heap /\ v % Width \in Entry /\ v = USER_HEAP_BASE + (v % Width)
<1> DEFINE x == v - USER_HEAP_BASE
<1>1. x \in Entry /\ v \in Nat /\ v = USER_HEAP_BASE + x
  BY PagingAssumption DEF USER_HEAP_BASE, Heap, Entry
<1> HIDE DEF x
<1>2. v = Heap * Width + x /\ Heap \in Nat
  BY <1>1 DEF USER_HEAP_BASE, Heap
<1>3. v \div Width = Heap /\ v % Width = x
  BY <1>1, <1>2, PageOf
<1> QED
  BY <1>1, <1>3
-----------------------------------------------------------------------------
(* The state between two operations: whose directories there are, what the *)
(* breaks say, and the machine.                                            *)
Procs ==
    /\ page_dir \in [Pid -> Frame] /\ heap_top \in [Pid -> Nat]
    /\ \A p \in created : page_dir[p] # kdir /\ \A q \in created : page_dir[q] = page_dir[p] => p = q
    /\ live \subseteq created /\ current \in created \cup {0}

KernelBreak(s, top) ==
    \E a \in 0 .. MaxKernelHeap : top = KERNEL_HEAP_BASE + a /\ HeapIs(s, kdir, KernelHeap, a)

ImageOnly(s, dir) ==
    /\ \E n \in Images : \A y \in Entry : Pres(s.mem, dir, Code, y) => y < n
    /\ \A y \in Entry : Pres(s.mem, dir, Stack, y) => y = Width - 2

OwnPages(s, dir, top) ==
    /\ \E b \in 0 .. MaxHeap : top = USER_HEAP_BASE + b /\ HeapIs(s, dir, Heap, b)
    /\ ImageOnly(s, dir)

Breaks ==
    /\ KernelBreak(Machine, kheap_top)
    /\ \A p \in created : OwnPages(Machine, page_dir[p], heap_top[p])

(* Up to Paging_init there is memory nobody has written to, and no process.*)
Booting ==
    /\ \E first \in FirstFrees : Fresh(Machine, first)
    /\ cr3 = 0 /\ kheap_top = KERNEL_HEAP_BASE
    /\ created = {}

(* Behind it one frame is loose for ever: the one of page 0 of the window. *)
Running ==
    /\ Breaks
    /\ \E first \in FirstFrees, lost \in Frame : MState(Machine, Directories, kdir, first, {lost})

PagingInv ==
    /\ panicked \in BOOLEAN
    /\ Procs
    /\ kdir = 0 => Booting
    /\ kdir # 0 => Running

LEMMA MachineParts ==
    /\ Machine.mem = mem /\ Machine.free = free /\ Machine.pse = pse /\ Machine.cr3 = cr3
    /\ Machine.panicked = panicked
BY DEF Machine

LEMMA RunningIs ==
    ASSUME PagingInv, Paged
    PROVE  /\ Breaks /\ Procs
           /\ \E first \in FirstFrees, lost \in Frame : MState(Machine, Directories, kdir, first, {lost})
           /\ kdir \in Directories
           /\ \A p \in created : page_dir[p] \in Directories /\ page_dir[p] # kdir
BY DEF PagingInv, Paged, Running, Directories, Procs

LEMMA NobodyBefore ==
    ASSUME PagingInv, ~Paged
    PROVE  created = {} /\ Booting
BY DEF PagingInv, Paged, Booting

(* What the invariant says in the terms of the run's properties.           *)
LEMMA TypesOK ==
    ASSUME PagingInv
    PROVE  PTypeOK
<1>1. Machine \in MachineState /\ cr3 \notin free /\ kdir \in Frame \ free
  <2>1. CASE Paged
    <3>1. PICK first \in FirstFrees, lost \in Frame : MState(Machine, Directories, kdir, first, {lost})
      BY <2>1, RunningIs
    <3>2. /\ Machine \in MachineState /\ Directories \subseteq Frame /\ kdir \in Directories
          /\ Machine.cr3 \in Directories /\ Directories \cap Machine.free = {}
      BY <3>1, StateTypes
    <3> QED
      BY <3>2, MachineParts
  <2>2. CASE ~Paged
    <3>1. Machine \in MachineState /\ cr3 = 0 /\ kdir = 0
      BY <2>2, NobodyBefore DEF Booting, Fresh, Paged
    <3>2. 0 \in Frame /\ 0 \notin free
      BY <3>1, MachineParts, PagingAssumption DEF MachineState, Frame
    <3> QED
      BY <3>1, <3>2
  <2> QED
    BY <2>1, <2>2
<1>2. mem \in Memory /\ free \in SUBSET (Frame \ {0}) /\ cr3 \in Frame
  BY <1>1, MachineParts DEF MachineState
<1>3. \A f \in Frame, e \in Entry :
         /\ mem[f][e].present \in BOOLEAN /\ mem[f][e].user \in BOOLEAN
         /\ mem[f][e].frame \in Frame
  BY <1>2 DEF Memory, PageEntry
<1> QED
  BY <1>1, <1>2, <1>3 DEF PTypeOK, PagingInv, Procs

LEMMA SharedOK ==
    ASSUME PagingInv
    PROVE  KernelShared
<1> SUFFICES ASSUME Paged, NEW d \in Directories, NEW e \in {Window, KernelHeap},
                    e = Window \/ created # {}
             PROVE  mem[d][e].present /\ mem[d][e] = mem[kdir][e]
  BY DEF KernelShared
<1>1. PICK first \in FirstFrees, lost \in Frame : MState(Machine, Directories, kdir, first, {lost})
  BY RunningIs
<1>2. PICK role : MInv(Machine, Directories, kdir, first, {lost}, role)
  BY <1>1 DEF MState
<1>3. created # {} => Directories # {kdir}
  BY RunningIs
<1>4. /\ mem[d][Window] = mem[kdir][Window] /\ mem[d][KernelHeap] = mem[kdir][KernelHeap]
      /\ mem[kdir][Window].present
      /\ created # {} => mem[kdir][KernelHeap].present
  BY <1>2, <1>3, MachineParts DEF MInv, MDirs, MKernel
<1> QED
  BY <1>4

LEMMA IsolationOK ==
    ASSUME PagingInv
    PROVE  Isolation
<1> SUFFICES ASSUME NEW p \in created, NEW v \in AllPage, UserMay(page_dir[p], v),
                    NEW f, f = Behind(page_dir[p], v)
             PROVE  /\ f \notin UNION {{d} \cup Tables(d) : d \in Directories}
                    /\ f \notin {Behind(kdir, w) : w \in {w \in KernelPage : Maps(kdir, w)}}
                    /\ \A q \in created \ {p} : f \notin UserReach(q)
  BY DEF Isolation, UserReach
<1>1. Paged
  BY NobodyBefore
<1>2. PICK first \in FirstFrees, lost \in Frame : MState(Machine, Directories, kdir, first, {lost})
  BY <1>1, RunningIs
<1> DEFINE d == page_dir[p]
           e == v \div Width
           y == v % Width
<1>3. d \in Directories /\ d # kdir /\ e \in Entry /\ y \in Entry
  BY <1>1, RunningIs, AllPages
<1>4. Pres(Machine.mem, d, e, y) /\ Machine.mem[d][e].user /\ f = Beh(Machine.mem, d, e, y)
  BY PageParts, MachineParts DEF UserMay
<1> HIDE DEF d, e, y
<1>5. /\ e \in Private /\ f \notin Directories
      /\ \A d2 \in Directories, e2 \in Entry \ {Self} :
           mem[d2][e2].present => f # mem[d2][e2].frame
      /\ \A y2 \in Entry : Pres(mem, kdir, KernelHeap, y2) => f # Beh(mem, kdir, KernelHeap, y2)
      /\ \A d2 \in Directories, e2 \in Private, y2 \in Entry :
           d2 # kdir /\ d2 # d /\ Pres(mem, d2, e2, y2) => f # Beh(mem, d2, e2, y2)
  BY <1>2, <1>3, <1>4, UserPageRole, MachineParts
<1>6. f \notin UNION {{g} \cup Tables(g) : g \in Directories}
  BY <1>5 DEF Tables
<1>7. ASSUME NEW w \in KernelPage, Maps(kdir, w) PROVE f # Behind(kdir, w)
  <2>1. /\ w % Width \in Entry /\ Pres(mem, kdir, KernelHeap, w % Width)
        /\ Behind(kdir, w) = Beh(mem, kdir, KernelHeap, w % Width)
    BY <1>7, KernelPages, PageParts
  <2> QED
    BY <1>5, <2>1
<1>8. ASSUME NEW q \in created \ {p}, NEW w \in AllPage, UserMay(page_dir[q], w)
      PROVE  f # Behind(page_dir[q], w)
  <2> DEFINE d2 == page_dir[q]
             e2 == w \div Width
             y2 == w % Width
  <2>1. d2 \in Directories /\ d2 # kdir /\ d2 # d /\ e2 \in Entry /\ y2 \in Entry
    BY <1>1, RunningIs, AllPages DEF Procs, d
  <2>2. Pres(Machine.mem, d2, e2, y2) /\ Machine.mem[d2][e2].user
        /\ Behind(d2, w) = Beh(Machine.mem, d2, e2, y2)
    BY <1>8, PageParts, MachineParts DEF UserMay
  <2> HIDE DEF d2, e2, y2
  <2>3. e2 \in Private
    BY <1>2, <2>1, <2>2, UserEntry DEF Pres
  <2>4. f # Behind(d2, w)
    BY <1>5, <2>1, <2>2, <2>3, MachineParts
  <2> QED
    BY <2>4 DEF d2
<1>9. \A q \in created \ {p} : f \notin UserReach(q)
  BY <1>8 DEF UserReach
<1> QED
  BY <1>6, <1>7, <1>9

LEMMA BackedOK ==
    ASSUME PagingInv
    PROVE  HeapsBacked
<1> SUFFICES ASSUME Paged
             PROVE  /\ \A d \in Directories, v \in KernelPage : Maps(d, v) <=> v < kheap_top
                    /\ \A p \in created, v \in USER_HEAP_BASE .. USER_HEAP_BASE + Width - 1 :
                         Maps(page_dir[p], v) <=> v < heap_top[p]
  BY DEF HeapsBacked
<1>1. PICK first \in FirstFrees, lost \in Frame : MState(Machine, Directories, kdir, first, {lost})
  BY RunningIs
<1>2. PICK role : MInv(Machine, Directories, kdir, first, {lost}, role)
  BY <1>1 DEF MState
<1>3. ASSUME NEW d \in Directories, NEW v \in KernelPage
      PROVE  Maps(d, v) <=> v < kheap_top
  <2>1. PICK a \in 0 .. MaxKernelHeap :
           kheap_top = KERNEL_HEAP_BASE + a /\ HeapIs(Machine, kdir, KernelHeap, a)
    BY RunningIs DEF Breaks, KernelBreak, OwnPages
  <2> DEFINE x == v % Width
  <2>2. x \in Entry /\ v = KERNEL_HEAP_BASE + x /\ v \div Width = KernelHeap /\ KERNEL_HEAP_BASE \in Nat
    BY KernelPages
  <2>3. Maps(d, v) <=> Pres(mem, d, KernelHeap, x)
    BY <2>2, PageParts
  <2> HIDE DEF x
  <2>4. Pres(mem, d, KernelHeap, x) <=> Pres(mem, kdir, KernelHeap, x)
    <3>1. mem[d][KernelHeap] = mem[kdir][KernelHeap]
      BY <1>2, MachineParts DEF MInv, MDirs
    <3> QED
      BY <3>1 DEF Pres
  <2>5. Pres(mem, kdir, KernelHeap, x) <=> x < a
    BY <2>1, <2>2, MachineParts DEF HeapIs
  <2>6. x < a <=> v < kheap_top
    BY <2>1, <2>2, PagingAssumption DEF Entry
  <2> QED
    BY <2>3, <2>4, <2>5, <2>6
<1>4. ASSUME NEW p \in created, NEW v \in USER_HEAP_BASE .. USER_HEAP_BASE + Width - 1
      PROVE  Maps(page_dir[p], v) <=> v < heap_top[p]
  <2>1. PICK a \in 0 .. MaxHeap :
           heap_top[p] = USER_HEAP_BASE + a /\ HeapIs(Machine, page_dir[p], Heap, a)
    BY RunningIs DEF Breaks, KernelBreak, OwnPages
  <2> DEFINE x == v % Width
  <2>2. x \in Entry /\ v = USER_HEAP_BASE + x /\ v \div Width = Heap
    BY HeapPages
  <2>3. Maps(page_dir[p], v) <=> Pres(mem, page_dir[p], Heap, x)
    BY <2>2, PageParts
  <2> HIDE DEF x
  <2>4. Pres(mem, page_dir[p], Heap, x) <=> x < a
    BY <2>1, <2>2, MachineParts DEF HeapIs
  <2>5. x < a <=> v < heap_top[p]
    BY <2>1, <2>2, PagingAssumption DEF Entry, USER_HEAP_BASE, Heap
  <2> QED
    BY <2>3, <2>4, <2>5
<1> QED
  BY <1>3, <1>4

LEMMA AccountedOK ==
    ASSUME PagingInv
    PROVE  FramesAccounted
<1> SUFFICES ASSUME Paged
             PROVE  \E first \in FirstFrees : \E lost \in first .. NFrames :
                      (first .. NFrames) \ free =
                      {lost} \cup UNION {{d} \cup Tables(d) \cup MappedIn(d) : d \in Directories}
  BY DEF FramesAccounted
<1>1. PICK first \in FirstFrees, lost \in Frame : MState(Machine, Directories, kdir, first, {lost})
  BY RunningIs
<1>2. PICK role : MInv(Machine, Directories, kdir, first, {lost}, role)
  BY <1>1 DEF MState
<1> DEFINE All == UNION {{d} \cup Tables(d) \cup MappedIn(d) : d \in Directories}
           Taken == (first .. NFrames) \ free
<1>3. \A f \in Frame : f \in Taken <=> role[f].kind \notin {"other", "free"}
  <2>1. \A f \in Frame : /\ role[f].kind = "other" <=> f < first
                         /\ role[f].kind = "free" <=> f \in free
    BY <1>2, MachineParts DEF MInv, MRoles, MRole
  <2> QED
    BY <2>1, PagingAssumption DEF Frame
<1>4. Taken \subseteq Frame /\ first .. NFrames \subseteq Frame /\ Directories \subseteq Frame /\ kdir \in Directories
      /\ Window \in Entry \ {Self} /\ KernelHeap \in Entry \ {Self} /\ Private \subseteq Entry \ {Self}
      /\ KernelHeap \in Mappable /\ Private \subseteq Mappable /\ Mappable \subseteq Entry
  BY <1>1, StateTypes, MappableIs, EntriesInUse, PagingAssumption DEF Frame, Mappable, Window, Private
<1>5. \A f \in Frame : role[f].kind \in Kind
  BY <1>2 DEF MInv, MTypes, Role
<1>6. lost \in Taken
  <2>1. role[lost].kind = "loose"
    BY <1>2 DEF MInv, MRoles, MRole
  <2> QED
    BY <1>3, <2>1
<1>7. ASSUME NEW d \in Directories PROVE d \in Taken
  BY <1>2, <1>3, <1>4 DEF MInv, MDirs
<1>8. ASSUME NEW d \in Directories PROVE Tables(d) \subseteq Taken
  <2> SUFFICES ASSUME NEW e \in Entry \ {Self}, mem[d][e].present PROVE mem[d][e].frame \in Taken
    BY DEF Tables
  <2> QED
    BY <1>2, <1>3, TablesAre, MachineParts
<1>9. ASSUME NEW d \in Directories PROVE MappedIn(d) \subseteq Taken
  <2> SUFFICES ASSUME NEW v \in UserPage \cup KernelPage, Maps(d, v), NEW f, f = Behind(d, v)
               PROVE  f \in Taken
    BY DEF MappedIn
  <2> DEFINE e == v \div Width
             y == v % Width
  <2>1. e \in Mappable /\ y \in Entry
    BY UserPages, KernelPages DEF Mappable
  <2>2. Pres(Machine.mem, d, e, y) /\ f = Beh(Machine.mem, d, e, y)
    BY PageParts, MachineParts
  <2> HIDE DEF e, y
  <2>3. f \in Frame /\ role[f].kind \in {"heappage", "page"}
    BY <1>2, <2>1, <2>2, PageRole
  <2> QED
    BY <1>3, <2>3
<1>10. ASSUME NEW d \in Directories, NEW e \in Entry \ {Self}, mem[d][e].present
       PROVE  mem[d][e].frame \in All
  BY <1>10 DEF Tables
<1>11. ASSUME NEW d \in Directories, NEW e \in Mappable, NEW y \in Entry, Pres(mem, d, e, y)
       PROVE  Beh(mem, d, e, y) \in All
  <2> DEFINE v == PageAt(e, y)
  <2>1. v \in UserPage \cup KernelPage /\ v \div Width = e /\ v % Width = y
    BY <1>4, NumberOf DEF Mappable
  <2>2. Maps(d, v) /\ Behind(d, v) = Beh(mem, d, e, y)
    BY <1>11, <2>1, PageParts
  <2> HIDE DEF v
  <2>3. Behind(d, v) \in MappedIn(d)
    BY <2>1, <2>2 DEF MappedIn
  <2> QED
    BY <2>2, <2>3
<1>12. ASSUME NEW f \in Taken PROVE f \in {lost} \cup All
  <2> DEFINE rl == role[f]
  <2>1. f \in Frame /\ rl.kind \in Kind /\ rl.kind \notin {"other", "free"}
    BY <1>3, <1>4, <1>5
  <2>2. /\ rl.kind = "loose" => f = lost
        /\ rl.kind = "dir" => f \in Directories
        /\ rl.kind = "window" => f = mem[kdir][Window].frame
        /\ rl.kind = "heaptable" =>
             mem[kdir][KernelHeap].present /\ f = mem[kdir][KernelHeap].frame
        /\ rl.kind = "heappage" =>
             Pres(mem, kdir, KernelHeap, rl.page) /\ f = Beh(mem, kdir, KernelHeap, rl.page)
        /\ rl.kind = "table" =>
             /\ rl.dir \in Directories /\ rl.entry \in Private
             /\ mem[rl.dir][rl.entry].present /\ f = mem[rl.dir][rl.entry].frame
        /\ rl.kind = "page" =>
             /\ rl.dir \in Directories \ {kdir} /\ rl.entry \in Private
             /\ Pres(mem, rl.dir, rl.entry, rl.page)
             /\ f = Beh(mem, rl.dir, rl.entry, rl.page)
        /\ rl.page \in Entry
        /\ mem[kdir][Window].present
    BY <1>2, <2>1, MachineParts DEF MInv, MRoles, MRole, MTypes, Role, MKernel
  <2> HIDE DEF All
  <2>3. CASE rl.kind = "loose"
    BY <2>2, <2>3
  <2>4. CASE rl.kind = "dir"
    BY <2>2, <2>4 DEF All
  <2>5. CASE rl.kind \in {"window", "heaptable", "table"}
    BY <1>4, <1>10, <2>2, <2>5
  <2>6. CASE rl.kind \in {"heappage", "page"}
    BY <1>4, <1>11, <2>2, <2>6
  <2> QED
    BY <2>1, <2>3, <2>4, <2>5, <2>6 DEF Kind
<1>13. Taken = {lost} \cup All
  BY <1>6, <1>7, <1>8, <1>9, <1>12
<1> QED
  BY <1>6, <1>13
-----------------------------------------------------------------------------
(* What a step makes of the pages, for the abstract address spaces: those  *)
(* of the kernel and of one process p may get frames that were free.       *)
Given(m, d, e, y) == IF d # 0 /\ Pres(m, d, e, y) THEN Beh(m, d, e, y) ELSE NoFrame
Taken(old, new, F) == new = old \/ (old = NoFrame /\ new \in F)

StepOf(p) ==
    /\ free' \subseteq free
    /\ \A y \in Entry : Taken(Given(mem, kdir, KernelHeap, y), Given(mem', kdir', KernelHeap, y), free)
    /\ \A e \in Private, y \in Entry :
         Taken(Given(mem, page_dir[p], e, y), Given(mem', page_dir'[p], e, y), free)
    /\ \A q \in Pid \ {p}, e \in Private, y \in Entry :
         Given(mem', page_dir'[q], e, y) = Given(mem, page_dir[q], e, y)

Good == PagingInv' /\ \E p \in Pid : StepOf(p)

LEMMA SomePid == 1 \in Pid
BY PagingAssumption DEF Pid

LEMMA SameStep ==
    ASSUME free' = free, mem' = mem, kdir' = kdir, page_dir' = page_dir
    PROVE  \E p \in Pid : StepOf(p)
<1>1. StepOf(1)
  BY DEF StepOf, Taken
<1> QED
  BY <1>1, SomePid

LEMMA KeepsStep ==
    ASSUME NEW r, Keeps(Machine, r, Directories, kdir), mem' = r.mem, free' = r.free,
           PagingInv, Paged, kdir' = kdir,
           NEW p \in Pid, OthersAs(Machine, r, {kdir} \cup {page_dir[q] : q \in created \ {p}}, kdir),
           \A q \in Pid : q \in created \/ q # p => page_dir'[q] = page_dir[q],
           p \notin created => page_dir'[p] = 0 \/ \A e \in Private, y \in Entry :
             Pres(r.mem, page_dir'[p], e, y) => Beh(r.mem, page_dir'[p], e, y) \in free
    PROVE  StepOf(p)
<1> DEFINE m == r.mem
<1>1. free' \subseteq free
  BY MachineParts DEF Keeps
<1>2. ASSUME NEW d \in Directories, NEW e \in Mappable, NEW y \in Entry, Counted(kdir, d, e)
      PROVE  Taken(Given(mem, d, e, y), Given(m, d, e, y), free)
  <2>1. /\ Pres(mem, d, e, y) => Pres(m, d, e, y) /\ Beh(m, d, e, y) = Beh(mem, d, e, y)
        /\ Pres(m, d, e, y) /\ ~Pres(mem, d, e, y) => Beh(m, d, e, y) \in free
    BY <1>2, MachineParts DEF Keeps
  <2> HIDE DEF m
  <2> QED
    BY <2>1 DEF Taken, Given
<1>3. \A y \in Entry : Taken(Given(mem, kdir, KernelHeap, y), Given(m, kdir, KernelHeap, y), free)
  BY <1>2, RunningIs, MappableOnes DEF Counted
<1>4. ASSUME NEW e \in Private, NEW y \in Entry
      PROVE  Taken(Given(mem, page_dir[p], e, y), Given(m, page_dir'[p], e, y), free)
  <2>1. CASE p \in created
    BY <1>2, <2>1, RunningIs, MappableOnes DEF Counted
  <2>2. CASE p \notin created
    <3>1. page_dir[p] = 0
      BY <2>2 DEF created
    <3>2. Given(mem, page_dir[p], e, y) = NoFrame
      BY <3>1 DEF Given
    <3>3. Given(m, page_dir'[p], e, y) = NoFrame \/ Given(m, page_dir'[p], e, y) \in free
      BY <2>2 DEF Given
    <3> QED
      BY <3>2, <3>3 DEF Taken
  <2> QED
    BY <2>1, <2>2
<1>5. ASSUME NEW q \in Pid \ {p}, NEW e \in Private, NEW y \in Entry
      PROVE  Given(m, page_dir'[q], e, y) = Given(mem, page_dir[q], e, y)
  <2>1. page_dir'[q] = page_dir[q]
    OBVIOUS
  <2>2. CASE q \in created
    <3> DEFINE d == page_dir[q]
    <3>1. d \in Directories /\ d # kdir /\ e \in Mappable
      BY <2>2, RunningIs, MappableOnes
    <3>2. Pres(m, d, e, y) <=> Pres(mem, d, e, y)
      BY <2>2, <3>1, MachineParts DEF OthersAs
    <3>3. Pres(mem, d, e, y) => Beh(m, d, e, y) = Beh(mem, d, e, y)
      BY <3>1, MachineParts DEF Keeps, Counted
    <3> HIDE DEF m
    <3>4. Given(m, d, e, y) = Given(mem, d, e, y)
      BY <3>2, <3>3 DEF Given
    <3> QED
      BY <2>1, <3>4
  <2>3. CASE q \notin created
    <3>1. page_dir[q] = 0
      BY <2>3 DEF created
    <3> QED
      BY <2>1, <3>1 DEF Given
  <2> QED
    BY <2>2, <2>3
<1> QED
  BY <1>1, <1>3, <1>4, <1>5 DEF StepOf

(* The invariant in the next state.                                        *)
LEMMA Stored ==
    ASSUME NEW r, Follows(Machine, r), ~r.panicked, Store(r), pse' = pse, cr3' = cr3
    PROVE  Machine' = r /\ panicked' \in BOOLEAN
<1>1. r = [mem |-> r.mem, free |-> r.free, pse |-> r.pse, cr3 |-> r.cr3, panicked |-> r.panicked]
      /\ r.panicked = FALSE
  BY DEF Follows, MachineState
<1>2. r.pse = pse /\ r.cr3 = cr3
  BY MachineParts DEF Follows
<1>3. Machine' = [mem |-> mem', free |-> free', pse |-> pse', cr3 |-> cr3', panicked |-> panicked']
  BY DEF Machine
<1> QED
  BY <1>1, <1>2, <1>3 DEF Store

LEMMA NextRunning ==
    ASSUME Procs', panicked' \in BOOLEAN, kdir' # 0,
           NEW r, Machine' = r,
           NEW first \in FirstFrees, NEW lost \in Frame, MState(r, Directories', kdir', first, {lost}),
           NEW a \in 0 .. MaxKernelHeap, kheap_top' = KERNEL_HEAP_BASE + a,
           HeapIs(r, kdir', KernelHeap, a),
           \A p \in created' : OwnPages(r, page_dir'[p], heap_top'[p])
    PROVE  PagingInv'
<1>1. KernelBreak(Machine, kheap_top)'
  BY DEF KernelBreak
<1>2. ASSUME NEW p \in created' PROVE OwnPages(Machine, page_dir[p], heap_top[p])'
  OBVIOUS
<1>3. Breaks'
  BY <1>1, <1>2 DEF Breaks
<1>4. MState(Machine, Directories, kdir, first, {lost})'
  OBVIOUS
<1>5. Running'
  BY <1>3, <1>4 DEF Running
<1> QED
  BY <1>5 DEF PagingInv

(* Steps that leave memory, frames and directories as they are.            *)
LEMMA NothingMoved ==
    ASSUME PagingInv, Paged, Procs', panicked' \in BOOLEAN,
           mem' = mem, free' = free, pse' = pse, kdir' = kdir, page_dir' = page_dir,
           kheap_top' = kheap_top, heap_top' = heap_top,
           cr3' = cr3 \/ cr3' \in Directories
    PROVE  PagingInv'
<1>1. PICK first \in FirstFrees, lost \in Frame : MState(Machine, Directories, kdir, first, {lost})
  BY RunningIs
<1>2. Machine \in MachineState /\ ~Machine.pse /\ Directories \subseteq Frame /\ Machine.cr3 \in Directories
  BY <1>1, StateTypes
<1> DEFINE r == Machine'
<1>3. r.mem = mem /\ r.free = free /\ r.pse = pse /\ r.cr3 = cr3' /\ r.panicked = panicked'
  BY DEF Machine
<1>4. r \in MachineState
  <2>1. mem \in Memory /\ free \in SUBSET (Frame \ {0}) /\ pse \in BOOLEAN /\ cr3' \in Frame
    BY <1>2, MachineParts DEF MachineState
  <2>2. r = [mem |-> mem, free |-> free, pse |-> pse, cr3 |-> cr3', panicked |-> panicked']
    BY DEF Machine
  <2> HIDE DEF r
  <2> QED
    BY <2>1, <2>2 DEF MachineState
<1>5. r.free = Machine.free /\ ~r.pse /\ r.cr3 \in Directories /\ r.mem = Machine.mem
  BY <1>2, <1>3, MachineParts
<1>6. created' = created /\ Directories' = Directories
  BY DEF created, Directories
<1>7. PICK a \in 0 .. MaxKernelHeap :
         kheap_top = KERNEL_HEAP_BASE + a /\ HeapIs(Machine, kdir, KernelHeap, a)
  BY RunningIs DEF Breaks, KernelBreak, OwnPages
<1>8. \A p \in created : OwnPages(Machine, page_dir[p], heap_top[p])
  BY RunningIs DEF Breaks
<1> HIDE DEF r
<1>9. MState(r, Directories, kdir, first, {lost})
  BY <1>1, <1>4, <1>5, OtherFrames DEF OnlyFrames
<1>10. \A d, e, b : HeapIs(r, d, e, b) <=> HeapIs(Machine, d, e, b)
  BY <1>5 DEF HeapIs
<1>11. r = Machine'
  BY DEF r
<1>12. kdir' # 0
  BY DEF Paged
<1>13. MState(r, Directories', kdir', first, {lost}) /\ HeapIs(r, kdir', KernelHeap, a)
  BY <1>6, <1>7, <1>9, <1>10
<1>14. \A p \in created' : OwnPages(r, page_dir'[p], heap_top'[p])
  BY <1>5, <1>6, <1>8 DEF OwnPages, HeapIs, ImageOnly
<1>15. kheap_top' = KERNEL_HEAP_BASE + a
  BY <1>7
<1> QED
  BY <1>11, <1>12, <1>13, <1>14, <1>15, NextRunning

LEMMA StillGood ==
    ASSUME PagingInv, panicked' \in BOOLEAN,
           UNCHANGED <<mem, free, pse, cr3, kdir, kheap_top, page_dir, heap_top, live, current>>
    PROVE  Good
<1>1. /\ mem' = mem /\ free' = free /\ pse' = pse /\ cr3' = cr3 /\ kdir' = kdir /\ page_dir' = page_dir
      /\ kheap_top' = kheap_top /\ heap_top' = heap_top /\ live' = live /\ current' = current
  OBVIOUS
<1>2. Procs'
  BY <1>1 DEF PagingInv, Procs, created
<1>3. CASE Paged
  BY <1>1, <1>2, <1>3, NothingMoved, SameStep DEF Good
<1>4. CASE ~Paged
  <2>1. Booting
    BY <1>4, NobodyBefore
  <2>2. PICK first \in FirstFrees : Fresh(Machine, first)
    BY <2>1 DEF Booting
  <2>3. Fresh(Machine', first)
    BY <1>1, <2>2 DEF Fresh, Machine, MachineState
  <2>4. Booting'
    BY <1>1, <2>1, <2>3 DEF Booting, created
  <2>5. PagingInv'
    BY <1>1, <1>2, <1>4, <2>4 DEF PagingInv, Paged
  <2> QED
    BY <1>1, <2>5, SameStep DEF Good
<1> QED
  BY <1>3, <1>4

LEMMA PanicGood ==
    ASSUME PagingInv, Panic
    PROVE  Good
BY StillGood DEF Panic

LEMMA SwitchGood ==
    ASSUME PagingInv, NEW p \in Pid, SwitchTo(p)
    PROVE  Good
<1>1. /\ mem' = mem /\ free' = free /\ pse' = pse /\ kdir' = kdir /\ page_dir' = page_dir
      /\ kheap_top' = kheap_top /\ heap_top' = heap_top /\ live' = live
      /\ panicked' = panicked /\ cr3' = page_dir[p] /\ current' = p /\ p \in live
  BY DEF SwitchTo
<1>2. p \in created /\ panicked' \in BOOLEAN
  BY <1>1 DEF PagingInv, Procs
<1>3. Procs'
  BY <1>1, <1>2 DEF PagingInv, Procs, created
<1>4. Paged
  BY <1>2, NobodyBefore
<1>5. cr3' \in Directories
  BY <1>1, <1>2, <1>4, RunningIs
<1> QED
  BY <1>1, <1>2, <1>3, <1>4, <1>5, NothingMoved, SameStep DEF Good

LEMMA KillGood ==
    ASSUME PagingInv, NEW p \in Pid, Kill(p)
    PROVE  Good
<1>1. /\ mem' = mem /\ free' = free /\ pse' = pse /\ kdir' = kdir /\ page_dir' = page_dir
      /\ kheap_top' = kheap_top /\ heap_top' = heap_top /\ live' \subseteq live
      /\ panicked' = panicked /\ cr3' = cr3 /\ current' = current /\ p \in live
  BY DEF Kill, FreeDir
<1>2. p \in created /\ panicked' \in BOOLEAN
  BY <1>1 DEF PagingInv, Procs
<1>3. Procs'
  BY <1>1 DEF PagingInv, Procs, created
<1>4. Paged
  BY <1>2, NobodyBefore
<1> QED
  BY <1>1, <1>2, <1>3, <1>4, NothingMoved, SameStep DEF Good

(* Directories whose pages stay where they are.                            *)
LEMMA PagesStay ==
    ASSUME NEW s, NEW r, NEW d, NEW top, OwnPages(s, d, top),
           \A e \in Private, y \in Entry : Pres(r.mem, d, e, y) <=> Pres(s.mem, d, e, y)
    PROVE  OwnPages(r, d, top)
BY MappableOnes DEF OwnPages, HeapIs, ImageOnly

LEMMA OthersStay ==
    ASSUME PagingInv, Paged, NEW r, OthersAs(Machine, r, Directories, kdir)
    PROVE  \A p \in created : OwnPages(r, page_dir[p], heap_top[p])
<1> SUFFICES ASSUME NEW p \in created PROVE OwnPages(r, page_dir[p], heap_top[p])
  OBVIOUS
<1>1. OwnPages(Machine, page_dir[p], heap_top[p])
  BY RunningIs DEF Breaks
<1>2. \A e \in Private, y \in Entry : Pres(r.mem, page_dir[p], e, y) <=> Pres(Machine.mem, page_dir[p], e, y)
  BY RunningIs DEF OthersAs
<1> QED
  BY <1>1, <1>2, PagesStay

LEMMA HeapDirIs ==
    ASSUME PagingInv, Paged
    PROVE  HeapDir \in Directories
BY RunningIs DEF HeapDir, Procs

(* The actions, one by one: malloc, sbrk, the creation of a process and the*)
(* initialisation.                                                         *)
LEMMA KernelMallocGood ==
    ASSUME PagingInv, NEW n \in 1 .. 2, KernelMalloc(n)
    PROVE  Good
<1> DEFINE s == KernelGrown(Machine, kheap_top, n)
<1>1. CASE s.panicked
  BY <1>1, PanicGood DEF KernelMalloc
<1>2. CASE ~s.panicked
  <2>1. /\ Paged /\ Store(s) /\ kheap_top' = kheap_top + n
        /\ pse' = pse /\ cr3' = cr3 /\ kdir' = kdir /\ page_dir' = page_dir /\ heap_top' = heap_top
        /\ live' = live /\ current' = current
    BY <1>2 DEF KernelMalloc, Paged
  <2>2. PICK first \in FirstFrees, lost \in Frame : MState(Machine, Directories, kdir, first, {lost})
    BY <2>1, RunningIs
  <2>3. PICK a \in 0 .. MaxKernelHeap :
           kheap_top = KERNEL_HEAP_BASE + a /\ HeapIs(Machine, kdir, KernelHeap, a)
    BY <2>1, RunningIs DEF Breaks, KernelBreak, OwnPages
  <2>4. /\ Machine \in MachineState /\ HeapDir \in Directories /\ HeapDir \in Frame
        /\ a \in Nat /\ n \in Nat /\ n > 0 /\ kdir \in Directories
    BY <2>1, <2>2, StateTypes, HeapDirIs, RunningIs
  <2>5. s = KernelGrown(Machine, KERNEL_HEAP_BASE + a, n)
    BY <2>3
  <2> HIDE DEF s
  <2>6. Follows(Machine, s)
    BY <2>4, <2>5, KernelGrownType
  <2>7. Machine' = s /\ panicked' \in BOOLEAN
    BY <1>2, <2>1, <2>6, Stored
  <2>8. /\ Goes(Machine, s, Directories, kdir, first, {lost}, HeapDir, KernelHeap, a .. a + n - 1)
        /\ HeapIs(s, kdir, KernelHeap, a + n)
        /\ a + n <= MaxKernelHeap
    BY <1>2, <2>2, <2>3, <2>4, <2>5, KernelGrownKeeps
  <2>9. created' = created /\ Directories' = Directories /\ mem' = s.mem /\ free' = s.free
    BY <2>1 DEF created, Directories, Store
  <2>10. OthersAs(Machine, s, Directories, kdir)
    <3>1. ASSUME NEW d \in Directories, NEW e \in Private, d # kdir
          PROVE  \A y \in Entry : Pres(s.mem, d, e, y) <=> Pres(Machine.mem, d, e, y)
      <4>1. ~Hits(HeapDir, KernelHeap, d, e) /\ Counted(kdir, d, e) /\ e \in Mappable
        BY <3>1, MappableOnes DEF Hits, Counted
      <4> QED
        BY <2>8, <4>1, OnlyElsewhere
    <3> QED
      BY <3>1 DEF OthersAs
  <2>11. PagingInv'
    <3> DEFINE b == a + n
    <3>1. b \in 0 .. MaxKernelHeap /\ kheap_top' = KERNEL_HEAP_BASE + b /\ HeapIs(s, kdir', KernelHeap, b)
      BY <2>1, <2>3, <2>4, <2>8, KernelPages
    <3> HIDE DEF b
    <3>2. Procs'
      BY <2>1, <2>9 DEF PagingInv, Procs
    <3>3. \A p \in created' : OwnPages(s, page_dir'[p], heap_top'[p])
      BY <2>1, <2>9, <2>10, OthersStay
    <3>4. MState(s, Directories', kdir', first, {lost}) /\ kdir' # 0
      BY <2>1, <2>8, <2>9 DEF Goes, Paged
    <3> QED
      BY <2>7, <3>1, <3>2, <3>3, <3>4, NextRunning
  <2>12. StepOf(1)
    <3>1. Keeps(Machine, s, Directories, kdir)
      BY <2>8 DEF Goes
    <3>2. OthersAs(Machine, s, {kdir} \cup {page_dir[q] : q \in created \ {1}}, kdir)
      BY <2>10 DEF OthersAs, Directories
    <3>3. 1 \notin created => page_dir'[1] = 0
      BY <2>1, SomePid DEF created
    <3> QED
      BY <2>1, <2>9, <3>1, <3>2, <3>3, SomePid, KeepsStep
  <2> QED
    BY <2>11, <2>12, SomePid DEF Good
<1> QED
  BY <1>1, <1>2

LEMMA SbrkGood ==
    ASSUME PagingInv, NEW n \in 1 .. 2, Sbrk(n)
    PROVE  Good
<1> DEFINE dir == page_dir[current]
           user == TRUE
           s == Grown(Machine, dir, heap_top[current], n, user)
<1>1. CASE s.panicked
  BY <1>1, PanicGood DEF Sbrk, SbrkDir
<1>2. CASE ~s.panicked
  <2>1. /\ current # 0 /\ Store(s) /\ heap_top' = [heap_top EXCEPT ![current] = @ + n]
        /\ heap_top[current] + n <= USER_HEAP_BASE + MaxHeap
        /\ pse' = pse /\ cr3' = cr3 /\ kdir' = kdir /\ page_dir' = page_dir /\ kheap_top' = kheap_top
        /\ live' = live /\ current' = current
    BY <1>2 DEF Sbrk, SbrkDir
  <2>2. current \in created /\ current \in Pid /\ Paged
    <3>1. current \in created
      BY <2>1 DEF PagingInv, Procs
    <3> QED
      BY <3>1, NobodyBefore DEF created
  <2>3. PICK first \in FirstFrees, lost \in Frame : MState(Machine, Directories, kdir, first, {lost})
    BY <2>2, RunningIs
  <2>4. PICK a \in 0 .. MaxHeap :
           heap_top[current] = USER_HEAP_BASE + a /\ HeapIs(Machine, dir, Heap, a)
    BY <2>2, RunningIs DEF Breaks, KernelBreak, OwnPages
  <2>5. /\ Machine \in MachineState /\ dir \in Directories /\ dir \in Frame /\ dir # kdir
        /\ a \in Nat /\ n \in Nat /\ kdir \in Directories
        /\ Heap \in Entry /\ Heap \in Mappable /\ user \in BOOLEAN
    BY <2>2, <2>3, StateTypes, RunningIs, MappableOnes, EntriesInUse
  <2>6. USER_HEAP_BASE + a = PageAt(Heap, a) /\ a + n <= MaxHeap /\ a + n <= Width /\ n > 0
    BY <2>1, <2>4, PagingAssumption DEF USER_HEAP_BASE, PageAt, Heap
  <2>7. s = Grown(Machine, dir, PageAt(Heap, a), n, user)
    BY <2>4, <2>6
  <2> HIDE DEF s, user
  <2>8. MayGrow(kdir, dir, Heap, user)
    BY <2>5, MappableOnes DEF MayGrow
  <2> HIDE DEF dir
  <2>9. Follows(Machine, s)
    BY <2>5, <2>6, <2>7, GrownType
  <2>10. Machine' = s /\ panicked' \in BOOLEAN
    BY <1>2, <2>1, <2>9, Stored
  <2>11. Goes(Machine, s, Directories, kdir, first, {lost}, dir, Heap, a .. a + n - 1)
    BY <1>2, <2>3, <2>4, <2>5, <2>6, <2>7, <2>8, GrownKeeps
  <2>12. created' = created /\ Directories' = Directories /\ mem' = s.mem /\ free' = s.free
    BY <2>1 DEF created, Directories, Store
  <2>13. ASSUME NEW d \in Directories, NEW e \in Mappable, Counted(kdir, d, e), d # dir \/ e # Heap
         PROVE  \A y \in Entry : Pres(s.mem, d, e, y) <=> Pres(Machine.mem, d, e, y)
    <3>1. ~Hits(dir, Heap, d, e)
      BY <2>13, MappableOnes DEF Hits
    <3> QED
      BY <2>11, <2>13, <3>1, OnlyElsewhere
  <2>14. HeapIs(s, dir, Heap, a + n)
    <3>1. \A y \in Entry : Pres(s.mem, dir, Heap, y) <=> y < a \/ y \in a .. a + n - 1
      <4>1. Counted(kdir, dir, Heap) /\ Hits(dir, Heap, dir, Heap)
        BY <2>5 DEF Counted, Hits
      <4> QED
        BY <2>4, <2>5, <2>11, <4>1 DEF Goes, Only, HeapIs
    <3> QED
      BY <2>5, <3>1, PagingAssumption DEF HeapIs, Entry
  <2>15. PagingInv'
    <3>1. PICK k \in 0 .. MaxKernelHeap :
             kheap_top = KERNEL_HEAP_BASE + k /\ HeapIs(Machine, kdir, KernelHeap, k)
      BY <2>2, RunningIs DEF Breaks, KernelBreak, OwnPages
    <3>2. HeapIs(s, kdir, KernelHeap, k)
      <4>1. Counted(kdir, kdir, KernelHeap) /\ kdir # dir /\ KernelHeap \in Mappable
        BY <2>5, MappableOnes DEF Counted
      <4> QED
        BY <2>5, <2>13, <3>1, <4>1 DEF HeapIs
    <3>3. heap_top \in [Pid -> Nat] /\ heap_top[current] \in Nat
      BY <2>2 DEF PagingInv, Procs
    <3>4. Procs'
      <4>1. heap_top' \in [Pid -> Nat]
        <5>1. heap_top[current] + n \in Nat
          BY <2>5, <3>3
        <5> QED
          BY <2>1, <3>3, <5>1
      <4> QED
        BY <2>1, <2>12, <4>1 DEF PagingInv, Procs
    <3>5. ASSUME NEW p \in created'
          PROVE  OwnPages(s, page_dir'[p], heap_top'[p])
      <4>1. p \in created /\ p \in Pid /\ page_dir'[p] = page_dir[p]
        BY <2>1, <2>12 DEF created
      <4>2. CASE p = current
        <5>1. heap_top'[p] = USER_HEAP_BASE + (a + n)
          <6>1. USER_HEAP_BASE \in Nat
            BY PagingAssumption DEF USER_HEAP_BASE, Heap
          <6>2. heap_top'[p] = heap_top[current] + n
            BY <2>1, <2>2, <3>3, <4>2
          <6> QED
            BY <2>4, <2>5, <6>1, <6>2
        <5>2. HeapIs(s, page_dir'[p], Heap, a + n) /\ a + n \in 0 .. MaxHeap
          BY <2>5, <2>6, <2>14, <4>1, <4>2, PagingAssumption DEF dir
        <5>3. ImageOnly(s, page_dir'[p])
          <6>1. ImageOnly(Machine, dir)
            BY <2>2, RunningIs DEF Breaks, OwnPages, dir
          <6>2. \A y \in Entry : /\ Pres(s.mem, dir, Code, y) <=> Pres(Machine.mem, dir, Code, y)
                                 /\ Pres(s.mem, dir, Stack, y) <=> Pres(Machine.mem, dir, Stack, y)
            BY <2>5, <2>13, MappableOnes DEF Counted
          <6>3. page_dir'[p] = dir
            BY <4>1, <4>2 DEF dir
          <6> QED
            BY <6>1, <6>2, <6>3 DEF ImageOnly
        <5> QED
          BY <5>1, <5>2, <5>3 DEF OwnPages
      <4>3. CASE p # current
        <5>1. heap_top'[p] = heap_top[p]
          BY <2>1, <3>3, <4>1, <4>3
        <5>2. page_dir[p] \in Directories /\ page_dir[p] # kdir /\ page_dir[p] # dir
          BY <2>2, <4>1, <4>3, RunningIs DEF dir, Procs
        <5>3. OwnPages(Machine, page_dir[p], heap_top[p])
          BY <2>2, <4>1, RunningIs DEF Breaks
        <5>4. OwnPages(s, page_dir[p], heap_top[p])
          BY <2>13, <5>2, <5>3, MappableOnes, PagesStay DEF Counted
        <5> QED
          BY <4>1, <5>1, <5>4
      <4> QED
        BY <4>2, <4>3
    <3>6. MState(s, Directories', kdir', first, {lost}) /\ kdir' # 0
      BY <2>1, <2>2, <2>11, <2>12 DEF Goes, Paged
    <3>7. kheap_top' = KERNEL_HEAP_BASE + k /\ HeapIs(s, kdir', KernelHeap, k)
      BY <2>1, <3>1, <3>2
    <3> QED
      BY <2>10, <3>4, <3>5, <3>6, <3>7, NextRunning
  <2>16. StepOf(current)
    <3>1. Keeps(Machine, s, Directories, kdir)
      BY <2>11 DEF Goes
    <3>2. OthersAs(Machine, s, {kdir} \cup {page_dir[q] : q \in created \ {current}}, kdir)
      <4>1. ASSUME NEW q \in created, q # current, NEW e \in Private, NEW y \in Entry
            PROVE  Pres(s.mem, page_dir[q], e, y) <=> Pres(Machine.mem, page_dir[q], e, y)
        <5>1. page_dir[q] \in Directories /\ page_dir[q] # kdir /\ page_dir[q] # dir
          BY <2>2, <4>1, RunningIs DEF dir, Procs
        <5> QED
          BY <2>13, <5>1, MappableOnes DEF Counted
      <4> QED
        BY <4>1 DEF OthersAs
    <3> QED
      BY <2>1, <2>2, <2>12, <3>1, <3>2, KeepsStep
  <2> QED
    BY <2>2, <2>15, <2>16 DEF Good
<1> QED
  BY <1>1, <1>2

LEMMA PagesGivenOK ==
    ASSUME PagingInv
    PROVE  PagesGiven
<1> SUFFICES ASSUME NEW p \in created, NEW v \in AllPage, UserMay(page_dir[p], v)
             PROVE  \/ \E n \in Images : v < USER_CODE_BASE + n
                    \/ v = USER_STACK_BASE
                    \/ v \in USER_HEAP_BASE .. heap_top[p] - 1
  BY DEF PagesGiven
<1>1. Paged
  BY NobodyBefore
<1>2. PICK first \in FirstFrees, lost \in Frame : MState(Machine, Directories, kdir, first, {lost})
  BY <1>1, RunningIs
<1> DEFINE d == page_dir[p]
           e == v \div Width
           y == v % Width
<1>3. d \in Directories /\ d # kdir /\ e \in Entry /\ y \in Entry /\ v \in Nat
  BY <1>1, RunningIs, AllPages
<1>4. v = e * Width + y
  BY <1>3, Parts
<1>5. Pres(mem, d, e, y) /\ mem[d][e].user
  BY PageParts DEF UserMay
<1>6. OwnPages(Machine, d, heap_top[p])
  BY <1>1, RunningIs DEF Breaks
<1> HIDE DEF d, e, y
<1>7. e \in Private
  BY <1>2, <1>3, <1>5, UserEntry, MachineParts DEF Pres
<1>8. CASE e = Code
  <2>1. PICK n \in Images : y < n
    BY <1>3, <1>5, <1>6, <1>8, MachineParts DEF OwnPages, ImageOnly
  <2>2. v = USER_CODE_BASE + y /\ USER_CODE_BASE \in Nat /\ n \in Nat
    BY <1>3, <1>4, <1>8, PagingAssumption DEF USER_CODE_BASE, Code, Entry
  <2> QED
    BY <1>3, <2>1, <2>2 DEF Entry
<1>9. CASE e = Stack
  <2>1. y = Width - 2
    BY <1>3, <1>5, <1>6, <1>9, MachineParts DEF OwnPages, ImageOnly
  <2> QED
    BY <1>4, <1>9, <2>1 DEF USER_STACK_BASE
<1>10. CASE e = Heap
  <2>1. PICK b \in 0 .. MaxHeap :
          heap_top[p] = USER_HEAP_BASE + b /\ HeapIs(Machine, d, Heap, b)
    BY <1>6 DEF OwnPages
  <2>2. y < b
    BY <1>3, <1>5, <1>10, <2>1, MachineParts DEF HeapIs
  <2>3. v = USER_HEAP_BASE + y /\ USER_HEAP_BASE \in Nat
    BY <1>4, <1>10, PagingAssumption DEF USER_HEAP_BASE, Heap
  <2> QED
    BY <1>3, <2>1, <2>2, <2>3, PagingAssumption DEF Entry
<1> QED
  BY <1>7, <1>8, <1>9, <1>10 DEF Private

LEMMA CreateGood ==
    ASSUME PagingInv, NEW p \in Pid, NEW n \in Images, NEW before \in 0 .. 1, NEW after \in 0 .. 1,
           CreateUserProcess(p, n, before, after)
    PROVE  Good
<1> DEFINE s1 == KernelGrown(Machine, kheap_top, before)
           dir == NextFrame(s1)
           g == CreateDir(s1)
           s2 == CpyDir(g, kdir, dir)
           s3 == LoadPages(s2, dir, n)
           s4 == KernelGrown(s3, kheap_top + before, after)
           s == UserStack(s4, dir, p)
<1>1. CASE s.panicked
  BY <1>1, PanicGood DEF CreateUserProcess
<1>2. CASE ~s.panicked
  <2>1. /\ Paged /\ created = 1 .. p - 1 /\ (kheap_top = KERNEL_HEAP_BASE => before > 0)
        /\ Store(s)
        /\ kheap_top' = kheap_top + before + after
        /\ page_dir' = [page_dir EXCEPT ![p] = dir]
        /\ heap_top' = [heap_top EXCEPT ![p] = USER_HEAP_BASE]
        /\ live' = live \cup {p}
        /\ pse' = pse /\ cr3' = cr3 /\ kdir' = kdir /\ current' = current
    BY <1>2 DEF CreateUserProcess, Paged, FirstCalloc
  <2>2. PICK first \in FirstFrees, lost \in Frame : MState(Machine, Directories, kdir, first, {lost})
    BY <2>1, RunningIs
  <2>3. PICK a \in 0 .. MaxKernelHeap :
           kheap_top = KERNEL_HEAP_BASE + a /\ HeapIs(Machine, kdir, KernelHeap, a)
    BY <2>1, RunningIs DEF Breaks, KernelBreak
  <2>4. /\ Machine \in MachineState /\ HeapDir \in Directories /\ HeapDir \in Frame
        /\ kdir \in Directories /\ kdir \in Frame
        /\ a \in Nat /\ before \in Nat /\ after \in Nat /\ n \in 0 .. Width /\ KERNEL_HEAP_BASE \in Nat
    BY <2>1, <2>2, StateTypes, HeapDirIs, RunningIs, KernelPages, PagingAssumption
  <2>5. a + before > 0
    BY <2>1, <2>3, <2>4
  <2>6. s1 = KernelGrown(Machine, KERNEL_HEAP_BASE + a, before)
    BY <2>3
  <2>7. s4 = KernelGrown(s3, KERNEL_HEAP_BASE + (a + before), after)
    <3>1. kheap_top + before = KERNEL_HEAP_BASE + (a + before)
      BY <2>3, <2>4
    <3> HIDE DEF s3
    <3> QED
      BY <3>1
  <2>8. dir = NextFrame(s1) /\ g = CreateDir(s1) /\ s2 = CpyDir(g, kdir, dir) /\ s3 = LoadPages(s2, dir, n)
        /\ s = UserStack(s4, dir, p)
    OBVIOUS
  <2> HIDE DEF s, s4, s3, s2, g, dir, s1
  <2>9. Follows(Machine, s)
    <3>1. /\ Follows(Machine, s1) /\ Follows(s1, g) /\ Follows(g, s2) /\ Follows(s2, s3)
          /\ Follows(s3, s4) /\ Follows(s4, s)
      <4>1. /\ Machine \in MachineState /\ HeapDir \in Frame /\ kdir \in Frame
            /\ a \in Nat /\ before \in Nat /\ after \in Nat /\ n \in 0 .. Width
        BY <2>4
      <4> QED
        BY <2>6, <2>7, <2>8, <4>1, ProcessTypes
    <3> QED
      BY <3>1, FollowsOn
  <2>10. Machine' = s /\ panicked' \in BOOLEAN
    BY <1>2, <2>1, <2>9, Stored
  <2>11. /\ MState(s, Directories \cup {dir}, kdir, first, {lost})
         /\ MadeProcess(Machine, s, Directories, dir, n)
         /\ HeapIs(s, kdir, KernelHeap, a + before + after)
         /\ before > 0 => a + before <= MaxKernelHeap
         /\ after > 0 => a + before + after <= MaxKernelHeap
    <3>1. Makes(Machine, Directories, first, {lost}, a, before, after, n, p, s1, dir, g, s2, s3, s4, s)
      BY <1>2, <2>2, <2>3, <2>4, <2>5, <2>6, <2>7, <2>8 DEF Makes
    <3> QED
      BY <3>1, ProcessMade
  <2>12. /\ dir \in free /\ dir \notin Directories /\ dir \in Frame \ {0}
         /\ Keeps(Machine, s, Directories, kdir) /\ OthersAs(Machine, s, Directories, kdir)
         /\ Loaded(s, dir, n)
         /\ \A e \in Private, y \in Entry : Pres(s.mem, dir, e, y) => Beh(s.mem, dir, e, y) \in free
    BY <2>11, MachineParts DEF MadeProcess
  <2>13. page_dir \in [Pid -> Frame] /\ heap_top \in [Pid -> Nat] /\ p \notin created /\ p \in Pid
    BY <2>1 DEF PagingInv, Procs, Pid
  <2>14. /\ page_dir' \in [Pid -> Frame] /\ page_dir'[p] = dir /\ heap_top'[p] = USER_HEAP_BASE
         /\ \A q \in Pid \ {p} : page_dir'[q] = page_dir[q] /\ heap_top'[q] = heap_top[q]
         /\ heap_top' \in [Pid -> Nat]
    <3>1. USER_HEAP_BASE \in Nat
      BY PagingAssumption DEF USER_HEAP_BASE, Heap
    <3> QED
      BY <2>1, <2>12, <2>13, <3>1
  <2>15. created' = created \cup {p}
    BY <2>12, <2>14 DEF created
  <2>16. Directories' = Directories \cup {dir}
    BY <2>1, <2>13, <2>14, <2>15 DEF Directories, created
  <2>17. PagingInv'
    <3>1. Procs'
      <4>1. ASSUME NEW q \in created'
            PROVE  /\ page_dir'[q] # kdir'
                   /\ \A o \in created' : page_dir'[o] = page_dir'[q] => q = o
        <5>1. \A o \in created : /\ page_dir'[o] = page_dir[o] /\ page_dir[o] # kdir
                                 /\ page_dir[o] \in Directories
                                 /\ \A u \in created : page_dir[u] = page_dir[o] => o = u
          BY <2>1, <2>13, <2>14, RunningIs DEF Procs, created
        <5> QED
          BY <2>1, <2>4, <2>12, <2>14, <2>15, <5>1
      <4>2. live' \subseteq created' /\ current' \in created' \cup {0}
        BY <2>1, <2>15 DEF PagingInv, Procs
      <4> QED
        BY <2>14, <4>1, <4>2 DEF Procs
    <3>2. ASSUME NEW q \in created'
          PROVE  OwnPages(s, page_dir'[q], heap_top'[q])
      <4>1. CASE q = p
        <5>1. HeapIs(s, dir, Heap, 0)
          BY <2>12, MappableOnes, PagingAssumption DEF Loaded, HeapIs, Entry
        <5>2. \A y \in Entry : /\ Pres(s.mem, dir, Code, y) => y \in 0 .. n - 1
                               /\ Pres(s.mem, dir, Stack, y) => y = Width - 2
          BY <2>12, MappableOnes DEF Loaded
        <5>3. ImageOnly(s, dir)
          BY <2>4, <5>2 DEF ImageOnly
        <5>4. USER_HEAP_BASE = USER_HEAP_BASE + 0 /\ 0 \in 0 .. MaxHeap
          BY PagingAssumption DEF USER_HEAP_BASE, Heap
        <5>5. OwnPages(s, dir, USER_HEAP_BASE)
          BY <5>1, <5>3, <5>4 DEF OwnPages
        <5> QED
          BY <2>14, <4>1, <5>5
      <4>2. CASE q # p
        <5>1. q \in created /\ page_dir'[q] = page_dir[q] /\ heap_top'[q] = heap_top[q]
          BY <2>14, <2>15, <4>2 DEF created
        <5> QED
          BY <2>1, <2>12, <5>1, OthersStay
      <4> QED
        BY <4>1, <4>2
    <3> DEFINE b == a + before + after
    <3>3. b \in 0 .. MaxKernelHeap /\ kheap_top' = KERNEL_HEAP_BASE + b
      BY <2>1, <2>3, <2>4, <2>11, PagingAssumption
    <3>4. HeapIs(s, kdir', KernelHeap, b)
      BY <2>1, <2>11
    <3>5. MState(s, Directories', kdir', first, {lost}) /\ kdir' # 0
      BY <2>1, <2>11, <2>16 DEF Paged
    <3> HIDE DEF b
    <3> QED
      BY <2>10, <3>1, <3>2, <3>3, <3>4, <3>5, NextRunning
  <2>18. StepOf(p)
    <3>1. OthersAs(Machine, s, {kdir} \cup {page_dir[q] : q \in created \ {p}}, kdir)
      BY <2>12 DEF OthersAs, Directories
    <3>2. mem' = s.mem /\ free' = s.free
      BY <2>1 DEF Store
    <3>3. \A q \in Pid : q \in created \/ q # p => page_dir'[q] = page_dir[q]
      BY <2>13, <2>14
    <3>4. \A e \in Private, y \in Entry :
             Pres(s.mem, page_dir'[p], e, y) => Beh(s.mem, page_dir'[p], e, y) \in free
      BY <2>12, <2>14
    <3> QED
      BY <2>1, <2>12, <3>1, <3>2, <3>3, <3>4, KeepsStep
  <2> QED
    BY <2>17, <2>18 DEF Good
<1> QED
  BY <1>1, <1>2

LEMMA OpenedIs ==
    ASSUME NEW s \in MachineState, NEW k \in Frame, NEW r, r = Opened(s, k)
    PROVE  r = [mem |-> s.mem, free |-> s.free, pse |-> FALSE, cr3 |-> k, panicked |-> s.panicked]
<1>1. /\ r \in MachineState /\ r.pse = FALSE /\ r.cr3 = k
      /\ r.mem = s.mem /\ r.free = s.free /\ r.panicked = s.panicked
  BY DEF Opened, MachineState
<1>2. r = [mem |-> r.mem, free |-> r.free, pse |-> r.pse, cr3 |-> r.cr3, panicked |-> r.panicked]
  BY <1>1 DEF MachineState
<1> QED
  BY <1>1, <1>2

LEMMA InitGood ==
    ASSUME ~Leftover.present, PagingInv, Paging_init
    PROVE  Good
<1> DEFINE k == NextFrame(Machine)
           s == WindowMapped(CreateDir(Machine), k, Width)
           r == Opened(s, k)
<1>1. CASE s.panicked
  BY <1>1, PanicGood DEF Paging_init
<1>2. CASE ~s.panicked
  <2>1. /\ ~Paged /\ kdir = 0 /\ Store(s) /\ kdir' = k /\ cr3' = k /\ pse' = FALSE
        /\ kheap_top' = kheap_top /\ page_dir' = page_dir /\ heap_top' = heap_top
        /\ live' = live /\ current' = current
    BY <1>2 DEF Paging_init, Paged
  <2>2. created = {} /\ Booting
    BY <2>1, NobodyBefore
  <2>3. PICK first \in FirstFrees : Fresh(Machine, first)
    BY <2>2 DEF Booting
  <2>4. k \in Frame \ {0} /\ r.free \subseteq Machine.free
        /\ (\E lost \in Frame : MState(r, {k}, k, first, {lost}))
        /\ \A e \in Mappable, y \in Entry : ~Pres(r.mem, k, e, y)
    BY <1>2, <2>3, PagingBegins
  <2>5. PICK lost \in Frame : MState(r, {k}, k, first, {lost})
    BY <2>4
  <2>6. Machine' = r /\ panicked' = FALSE
    <3>1. s \in MachineState
      <4>1. Machine \in MachineState /\ k \in Frame /\ Width \in 0 .. Width
        BY <2>3, NextFrameIs, PagingAssumption DEF Fresh
      <4>2. CreateDir(Machine) \in MachineState
        BY <4>1, CreateDirIs DEF Follows
      <4> QED
        BY <4>1, <4>2, WindowMappedType DEF Follows
    <3> HIDE DEF s, k
    <3>2. r = [mem |-> s.mem, free |-> s.free, pse |-> FALSE, cr3 |-> k, panicked |-> FALSE]
      <4>1. s.panicked = FALSE
        BY <1>2, <3>1 DEF MachineState
      <4>2. r = [mem |-> s.mem, free |-> s.free, pse |-> FALSE, cr3 |-> k, panicked |-> s.panicked]
        <5>1. k \in Frame
          BY <2>4
        <5> QED
          BY <3>1, <5>1, OpenedIs
      <4> QED
        BY <4>1, <4>2
    <3>3. Machine' = [mem |-> mem', free |-> free', pse |-> pse', cr3 |-> cr3', panicked |-> panicked']
      BY DEF Machine
    <3> QED
      BY <2>1, <3>2, <3>3 DEF Store
  <2> HIDE DEF r, s, k
  <2>7. mem' = r.mem /\ free' = r.free
    BY <2>6 DEF Machine
  <2>8. created' = {} /\ Directories' = {k}
    BY <2>1, <2>2 DEF created, Directories
  <2>9. PagingInv'
    <3>1. Procs'
      BY <2>1, <2>2, <2>8 DEF PagingInv, Procs
    <3>2. HeapIs(r, kdir', KernelHeap, 0)
      BY <2>1, <2>4, MappableOnes, PagingAssumption DEF HeapIs, Entry
    <3>3. 0 \in 0 .. MaxKernelHeap /\ kheap_top' = KERNEL_HEAP_BASE + 0
      BY <2>1, <2>2, KernelPages, PagingAssumption DEF Booting
    <3>4. MState(r, Directories', kdir', first, {lost}) /\ kdir' # 0
      BY <2>1, <2>4, <2>5, <2>8
    <3> QED
      BY <2>6, <2>8, <3>1, <3>2, <3>3, <3>4, NextRunning
  <2>10. StepOf(1)
    <3>1. free' \subseteq free
      BY <2>4, <2>7, MachineParts
    <3>2. ASSUME NEW y \in Entry
          PROVE  Given(mem', kdir', KernelHeap, y) = Given(mem, kdir, KernelHeap, y)
      <4>1. Given(mem', kdir', KernelHeap, y) = NoFrame
        BY <2>1, <2>4, <2>7, MappableOnes DEF Given
      <4>2. Given(mem, kdir, KernelHeap, y) = NoFrame
        BY <2>1 DEF Given
      <4> QED
        BY <4>1, <4>2
    <3>3. ASSUME NEW q \in Pid, NEW e \in Private, NEW y \in Entry
          PROVE  Given(mem', page_dir'[q], e, y) = Given(mem, page_dir[q], e, y)
      <4>1. page_dir[q] = 0 /\ page_dir'[q] = 0
        BY <2>1, <2>2 DEF created
      <4> QED
        BY <4>1 DEF Given
    <3> QED
      BY <3>1, <3>2, <3>3, SomePid DEF StepOf, Taken
  <2> QED
    BY <2>9, <2>10, SomePid DEF Good
<1> QED
  BY <1>1, <1>2
-----------------------------------------------------------------------------
(* The specification.                                                      *)
(* No entry of an unused frame looks present.                              *)
CleanMemory == ~Leftover.present

(* PagingInv holds at first, and each action keeps it.                     *)
LEMMA PagingStarts == Init => PagingInv
<1> SUFFICES ASSUME Init PROVE PagingInv
  OBVIOUS
<1>1. PICK first \in FirstFrees : free = first .. NFrames
  BY DEF Init
<1>2. 0 \in Frame /\ first .. NFrames \in SUBSET (Frame \ {0})
  BY PagingAssumption DEF Frame
<1>3. mem \in Memory
  BY PagingAssumption DEF Init, Memory
<1>4. Machine \in MachineState
  BY <1>1, <1>2, <1>3 DEF Init, Machine, MachineState
<1>5. Fresh(Machine, first)
  BY <1>1, <1>4 DEF Init, Fresh, Machine
<1>6. created = {}
  BY DEF Init, created
<1>7. Booting
  BY <1>5, <1>6 DEF Init, Booting
<1>8. Procs
  BY <1>2, <1>6 DEF Init, Procs
<1> QED
  BY <1>7, <1>8 DEF Init, PagingInv

LEMMA PagingSteps == CleanMemory /\ PagingInv /\ [Next]_vars => Good
<1> SUFFICES ASSUME CleanMemory, PagingInv, [Next]_vars PROVE Good
  OBVIOUS
<1>1. CASE Paging_init
  BY <1>1, InitGood DEF CleanMemory
<1>2. ASSUME NEW n \in 1 .. 2, KernelMalloc(n) PROVE Good
  BY <1>2, KernelMallocGood
<1>3. ASSUME NEW n \in 1 .. 2, Sbrk(n) PROVE Good
  BY <1>3, SbrkGood
<1>4. ASSUME NEW p \in Pid, NEW n \in Images, NEW before \in 0 .. 1, NEW after \in 0 .. 1,
             CreateUserProcess(p, n, before, after)
      PROVE  Good
  BY <1>4, CreateGood
<1>5. CASE CreateWithoutFile \/ SbrkNegative
  BY <1>5, PanicGood DEF CreateWithoutFile, SbrkNegative
<1>6. ASSUME NEW p \in Pid, SwitchTo(p) PROVE Good
  BY <1>6, SwitchGood
<1>7. ASSUME NEW p \in Pid, Kill(p) PROVE Good
  BY <1>7, KillGood
<1>8. CASE UNCHANGED vars
  BY <1>8, StillGood DEF vars, PagingInv
<1> QED
  BY <1>1, <1>2, <1>3, <1>4, <1>5, <1>6, <1>7, <1>8 DEF Next

(* From power-on, whatever is created, switched, grown and killed, and in  *)
(* any order: every frame has one role, and the breaks tell what is mapped.*)
THEOREM PagingInvariant ==
    ASSUME CleanMemory
    PROVE  Spec => []PagingInv
<1>1. PagingInv /\ [Next]_vars => PagingInv'
  BY PagingSteps DEF Good
<1> QED
  BY <1>1, PagingStarts, PTL DEF Spec

(* Type correctness: CR3 and kdir are frames the allocator has given away, *)
(* and the scheduler knows only processes with a directory.                *)
THEOREM PTypeOKHolds ==
    ASSUME CleanMemory
    PROVE  Spec => []PTypeOK
<1>1. PagingInv => PTypeOK
  BY TypesOK
<1> QED
  BY <1>1, PagingInvariant, PTL

(* cpyDir shares the kernel's tables: what malloc maps in the directory of *)
(* one process is there in all the others.                                 *)
THEOREM KernelSharedHolds ==
    ASSUME CleanMemory
    PROVE  Spec => []KernelShared
<1>1. PagingInv => KernelShared
  BY SharedOK
<1> QED
  BY <1>1, PagingInvariant, PTL

(* No program reaches a frame of another, of the kernel's heap, or a       *)
(* directory or table, through whatever mapPage and cpyDir have made.      *)
THEOREM IsolationHolds ==
    ASSUME CleanMemory
    PROVE  Spec => []Isolation
<1>1. PagingInv => Isolation
  BY IsolationOK
<1> QED
  BY <1>1, PagingInvariant, PTL

(* KSBRK and SBRK map each page up to the break and none beyond it, in the *)
(* directories that need it.                                               *)
THEOREM HeapsBackedHolds ==
    ASSUME CleanMemory
    PROVE  Spec => []HeapsBacked
<1>1. PagingInv => HeapsBacked
  BY BackedOK
<1> QED
  BY <1>1, PagingInvariant, PTL

(* Every frame that PhysMem_allocate has given away is in a directory, but *)
(* the one that Paging_init loses; mapPage overwrites no entry in use.     *)
THEOREM FramesAccountedHolds ==
    ASSUME CleanMemory
    PROVE  Spec => []FramesAccounted
<1>1. PagingInv => FramesAccounted
  BY AccountedOK
<1> QED
  BY <1>1, PagingInvariant, PTL

(* With clean memory a program reaches only pages of its image, its stack  *)
(* and its heap: the finding about VirtMem_mapPage needs frames that are   *)
(* not clean, and nothing else.                                            *)
THEOREM PagesGivenHolds ==
    ASSUME CleanMemory
    PROVE  Spec => []PagesGiven
<1>1. PagingInv => PagesGiven
  BY PagesGivenOK
<1> QED
  BY <1>1, PagingInvariant, PTL
-----------------------------------------------------------------------------
(* The abstract address spaces.  A place is a page of the kernel's heap or *)
(* of a process, At what is behind it.                                     *)
Places == ({0} \X KernelPage) \cup (Pid \X UserPage)

At(m, kd, pd, pl) ==
    IF pl[1] = 0 THEN Given(m, kd, KernelHeap, pl[2] % Width)
    ELSE Given(m, pd[pl[1]], pl[2] \div Width, pl[2] % Width)

LEMMA PlaceIs ==
    ASSUME NEW pl \in Places
    PROVE  /\ pl[1] = 0 => /\ pl[2] \div Width = KernelHeap /\ pl[2] % Width \in Entry
                           /\ pl = <<0, pl[2]>> /\ pl[2] = KERNEL_HEAP_BASE + (pl[2] % Width)
           /\ pl[1] # 0 => /\ pl[1] \in Pid /\ pl = <<pl[1], pl[2]>>
                           /\ pl[2] \div Width \in Private /\ pl[2] % Width \in Entry
                           /\ pl[2] = (pl[2] \div Width) * Width + (pl[2] % Width)
<1>1. CASE pl \in {0} \X KernelPage
  <2>1. pl[1] = 0 /\ pl[2] \in KernelPage /\ pl = <<0, pl[2]>>
    BY <1>1
  <2> QED
    BY <2>1, KernelPages
<1>2. CASE pl \in Pid \X UserPage
  <2>1. pl[1] \in Pid /\ pl[1] # 0 /\ pl[2] \in UserPage /\ pl = <<pl[1], pl[2]>>
    BY <1>2 DEF Pid
  <2>2. pl[2] \in Nat /\ pl[2] \div Width \in Private /\ pl[2] % Width \in Entry
    BY <2>1, UserPages
  <2> QED
    BY <2>1, <2>2, Parts
<1> QED
  BY <1>1, <1>2 DEF Places

LEMMA BackingIs == Backing = [pl \in Places |-> At(mem, kdir, page_dir, pl)]
<1>1. ASSUME NEW pl \in Places
      PROVE  (LET d == IF pl[1] = 0 THEN kdir ELSE page_dir[pl[1]]
              IN  IF d # 0 /\ Maps(d, pl[2]) THEN Behind(d, pl[2]) ELSE NoFrame)
             = At(mem, kdir, page_dir, pl)
  <2>1. CASE pl[1] = 0
    <3>1. pl[2] \div Width = KernelHeap
      BY <2>1, PlaceIs
    <3>2. /\ Maps(kdir, pl[2]) <=> Pres(mem, kdir, KernelHeap, pl[2] % Width)
          /\ Behind(kdir, pl[2]) = Beh(mem, kdir, KernelHeap, pl[2] % Width)
      BY <3>1, PageParts
    <3> QED
      BY <2>1, <3>2 DEF At, Given
  <2>2. CASE pl[1] # 0
    BY <2>2, PageParts DEF At, Given
  <2> QED
    BY <2>1, <2>2
<1> QED
  BY <1>1 DEF Backing, Places

(* No two places have one frame.                                           *)
Unshared ==
    \A pl \in Places : Backing[pl] # NoFrame =>
        /\ Backing[pl] \in Frame \ free
        /\ \A other \in Places : other # pl => Backing[other] # Backing[pl]

LEMMA PlaceGiven ==
    ASSUME PagingInv, NEW pl \in Places, Backing[pl] # NoFrame
    PROVE  /\ Paged
           /\ \E d \in Directories, e \in Mappable, y \in Entry :
                /\ Counted(kdir, d, e) /\ Pres(mem, d, e, y) /\ Backing[pl] = Beh(mem, d, e, y)
                /\ pl[1] = 0 => e = KernelHeap /\ y = pl[2] % Width
                /\ pl[1] # 0 => /\ pl[1] \in created /\ d = page_dir[pl[1]]
                                /\ e = pl[2] \div Width /\ y = pl[2] % Width /\ e # KernelHeap
<1>1. Backing[pl] = At(mem, kdir, page_dir, pl)
  BY BackingIs
<1>2. CASE pl[1] = 0
  <2> DEFINE y == pl[2] % Width
  <2>1. Backing[pl] = Given(mem, kdir, KernelHeap, y) /\ y \in Entry
    BY <1>1, <1>2, PlaceIs DEF At
  <2> HIDE DEF y
  <2>2. /\ kdir # 0 /\ Pres(mem, kdir, KernelHeap, y) /\ Backing[pl] = Beh(mem, kdir, KernelHeap, y)
    BY <2>1 DEF Given
  <2>3. kdir \in Directories /\ Counted(kdir, kdir, KernelHeap) /\ KernelHeap \in Mappable
    BY MappableOnes DEF Directories, Counted
  <2> QED
    BY <1>2, <2>1, <2>2, <2>3 DEF Paged, y
<1>3. CASE pl[1] # 0
  <2> DEFINE p == pl[1]
             d == page_dir[p]
             e == pl[2] \div Width
             y == pl[2] % Width
  <2>1. Backing[pl] = Given(mem, d, e, y) /\ p \in Pid /\ e \in Private /\ y \in Entry
    BY <1>1, <1>3, PlaceIs DEF At
  <2> HIDE DEF e, y
  <2>2. d # 0 /\ Pres(mem, d, e, y) /\ Backing[pl] = Beh(mem, d, e, y)
    BY <2>1 DEF Given
  <2>3. p \in created
    BY <2>1, <2>2 DEF created
  <2>4. Paged /\ d \in Directories /\ d # kdir
    BY <2>3, NobodyBefore, RunningIs
  <2>5. Counted(kdir, d, e) /\ e \in Mappable /\ e # KernelHeap
    BY <2>1, <2>4, MappableOnes DEF Counted
  <2> QED
    BY <1>3, <2>1, <2>2, <2>3, <2>4, <2>5 DEF e, y
<1> QED
  BY <1>2, <1>3

LEMMA UnsharedOK == PagingInv => Unshared
<1> SUFFICES ASSUME PagingInv, NEW pl \in Places, Backing[pl] # NoFrame
             PROVE  /\ Backing[pl] \in Frame \ free
                    /\ \A other \in Places : other # pl => Backing[other] # Backing[pl]
  BY DEF Unshared
<1>1. PICK d \in Directories, e \in Mappable, y \in Entry :
         /\ Counted(kdir, d, e) /\ Pres(mem, d, e, y) /\ Backing[pl] = Beh(mem, d, e, y)
         /\ pl[1] = 0 => e = KernelHeap /\ y = pl[2] % Width
         /\ pl[1] # 0 => /\ pl[1] \in created /\ d = page_dir[pl[1]]
                         /\ e = pl[2] \div Width /\ y = pl[2] % Width /\ e # KernelHeap
  BY PlaceGiven
<1>2. Paged
  BY PlaceGiven
<1>3. PICK first \in FirstFrees, lost \in Frame : MState(Machine, Directories, kdir, first, {lost})
  BY <1>2, RunningIs
<1>4. /\ Beh(mem, d, e, y) \in Frame \ free
      /\ \A d2 \in Directories, e2 \in Mappable, y2 \in Entry :
           Counted(kdir, d2, e2) /\ Pres(mem, d2, e2, y2) /\ Beh(mem, d2, e2, y2) = Beh(mem, d, e, y)
           => Hits(d, e, d2, e2) /\ y2 = y
  BY <1>1, <1>3, PagesUnshared, MachineParts
<1>5. ASSUME NEW other \in Places, Backing[other] = Backing[pl]
      PROVE  other = pl
  <2>1. Backing[other] # NoFrame
    BY <1>5
  <2>2. PICK d2 \in Directories, e2 \in Mappable, y2 \in Entry :
         /\ Counted(kdir, d2, e2) /\ Pres(mem, d2, e2, y2) /\ Backing[other] = Beh(mem, d2, e2, y2)
         /\ other[1] = 0 => e2 = KernelHeap /\ y2 = other[2] % Width
         /\ other[1] # 0 => /\ other[1] \in created /\ d2 = page_dir[other[1]]
                            /\ e2 = other[2] \div Width /\ y2 = other[2] % Width /\ e2 # KernelHeap
    BY <2>1, PlaceGiven
  <2>3. Hits(d, e, d2, e2) /\ y2 = y
    BY <1>1, <1>4, <1>5, <2>2
  <2>4. CASE e = KernelHeap
    <3>1. pl[1] = 0 /\ other[1] = 0 /\ other[2] % Width = pl[2] % Width
      BY <1>1, <2>2, <2>3, <2>4 DEF Hits
    <3>2. other[2] = pl[2] /\ pl = <<0, pl[2]>> /\ other = <<0, other[2]>>
      BY <3>1, PlaceIs
    <3> QED
      BY <3>2
  <2>5. CASE e # KernelHeap
    <3>1. /\ pl[1] # 0 /\ other[1] # 0 /\ d2 = d /\ e2 = e
          /\ pl[1] \in created /\ other[1] \in created /\ page_dir[other[1]] = page_dir[pl[1]]
      BY <1>1, <2>2, <2>3, <2>5 DEF Hits
    <3>2. other[1] = pl[1]
      BY <1>2, <3>1, RunningIs DEF Procs
    <3>3. other[2] \div Width = pl[2] \div Width /\ other[2] % Width = pl[2] % Width
      BY <1>1, <2>2, <2>3, <3>1
    <3>4. other[2] = pl[2] /\ pl = <<pl[1], pl[2]>> /\ other = <<other[1], other[2]>>
      BY <3>1, <3>3, PlaceIs
    <3> QED
      BY <3>2, <3>4
  <2> QED
    BY <2>4, <2>5
<1> QED
  BY <1>1, <1>4, <1>5

LEMMA UnsharedNext == PagingInv' => Unshared'
BY UnsharedOK, PTL

LEMMA BackingNext == Backing' = [pl \in Places |-> At(mem', kdir', page_dir', pl)]
<1>1. (Backing = [pl \in Places |-> At(mem, kdir, page_dir, pl)])'
  BY BackingIs, PTL
<1> QED
  BY <1>1 DEF Places, At, Given

LEMMA StepIsMap ==
    ASSUME PagingInv, PagingInv', NEW p \in Pid, StepOf(p)
    PROVE  Abstract!Map(p)
<1>1. Abstract!Place = Places
  BY DEF Abstract!Place, Places
<1>2. \A pl \in Places : /\ Backing[pl] = At(mem, kdir, page_dir, pl)
                         /\ Backing'[pl] = At(mem', kdir', page_dir', pl)
  BY BackingIs, BackingNext
<1>3. Unshared'
  BY UnsharedNext
<1>4. \A pl \in Places : Backing'[pl] # NoFrame =>
        /\ Backing'[pl] \in Frame \ free'
        /\ \A other \in Places : other # pl => Backing'[other] # Backing'[pl]
  BY <1>3 DEF Unshared, Places
<1>5. ASSUME NEW pl \in Places
      PROVE  /\ Backing'[pl] # Backing[pl] => pl[1] \in {0, p}
             /\ Taken(Backing[pl], Backing'[pl], free)
  <2>1. CASE pl[1] = 0
    <3>1. pl[2] % Width \in Entry
      BY <2>1, PlaceIs
    <3> QED
      BY <1>2, <2>1, <3>1 DEF At, StepOf
  <2>2. CASE pl[1] # 0
    <3>1. pl[1] \in Pid /\ pl[2] \div Width \in Private /\ pl[2] % Width \in Entry
      BY <2>2, PlaceIs
    <3>2. CASE pl[1] = p
      BY <1>2, <2>2, <3>1, <3>2 DEF At, StepOf
    <3>3. CASE pl[1] # p
      <4>1. Backing'[pl] = Backing[pl]
        BY <1>2, <2>2, <3>1, <3>3 DEF At, StepOf
      <4> QED
        BY <4>1 DEF Taken
    <3> QED
      BY <3>2, <3>3
  <2> QED
    BY <2>1, <2>2
<1>6. Backing' \in [Places -> Frame \cup {NoFrame}]
  <2>1. \A pl \in Places : Backing'[pl] \in Frame \cup {NoFrame}
    BY <1>4
  <2>2. Backing' = [pl \in Places |-> Backing'[pl]]
    BY <1>2, BackingNext
  <2> QED
    BY <2>1, <2>2
<1>7. free' \in SUBSET free
  BY DEF StepOf
<1>8. ASSUME NEW pl \in Places, Backing'[pl] # Backing[pl]
      PROVE  /\ pl[1] \in {0, p} /\ Backing[pl] = NoFrame
             /\ Backing'[pl] \in free \ free'
             /\ \A other \in Places : other # pl => Backing'[other] # Backing'[pl]
  <2>1. pl[1] \in {0, p} /\ Backing[pl] = NoFrame /\ Backing'[pl] \in free
    BY <1>5, <1>8 DEF Taken
  <2>2. Backing'[pl] # NoFrame
    BY <1>8, <2>1
  <2> QED
    BY <1>4, <2>1, <2>2
<1> QED
  BY <1>1, <1>6, <1>7, <1>8 DEF Abstract!Map, Abstract!Fresh

LEMMA StartIsStart == Init => Abstract!AInit
<1> SUFFICES ASSUME Init PROVE Abstract!AInit
  OBVIOUS
<1>1. Abstract!Place = Places
  BY DEF Abstract!Place, Places
<1>2. ASSUME NEW pl \in Places PROVE At(mem, kdir, page_dir, pl) = NoFrame
  <2>1. CASE pl[1] = 0
    BY <2>1 DEF Init, At, Given
  <2>2. CASE pl[1] # 0
    BY <2>2, PlaceIs DEF Init, At, Given
  <2> QED
    BY <2>1, <2>2
<1>3. Backing = [pl \in Places |-> NoFrame]
  BY <1>2, BackingIs
<1>4. free \in SUBSET Frame
  BY PagingAssumption DEF Init, Frame
<1> QED
  BY <1>1, <1>3, <1>4 DEF Abstract!AInit

(* What the kernel and each process see behind their pages behaves as      *)
(* AddressSpaces says: a mapping appears with a frame that no page had,    *)
(* for the kernel or one process at a time, and never changes.             *)
THEOREM SpacesImplemented ==
    ASSUME CleanMemory
    PROVE  Spec => ImplementsSpaces
<1>1. PagingInv /\ PagingInv' /\ [Next]_vars => [Abstract!ANext]_(Abstract!aVars)
  <2> SUFFICES ASSUME PagingInv, PagingInv', [Next]_vars PROVE Abstract!ANext
    OBVIOUS
  <2>1. PICK p \in Pid : StepOf(p)
    BY PagingSteps DEF Good
  <2> QED
    BY <2>1, StepIsMap DEF Abstract!ANext
<1> QED
  BY <1>1, StartIsStart, PagingInvariant, PTL DEF Spec, ImplementsSpaces, Abstract!ASpec

(* No frame is behind two pages, of one process, of two, or of a process   *)
(* and the kernel, and none behind a page is left in the allocator.        *)
THEOREM FramesUnsharedHolds ==
    ASSUME CleanMemory
    PROVE  Spec => [](Abstract!ATypeOK /\ Abstract!FramesUnshared)
<1>1. PagingInv => Abstract!ATypeOK /\ Abstract!FramesUnshared
  <2> SUFFICES ASSUME PagingInv PROVE Abstract!ATypeOK /\ Abstract!FramesUnshared
    OBVIOUS
  <2>1. Abstract!Place = Places
    BY DEF Abstract!Place, Places
  <2>2. Unshared
    BY UnsharedOK
  <2>3. Backing \in [Places -> Frame \cup {NoFrame}]
    <3>1. \A pl \in Places : Backing[pl] \in Frame \cup {NoFrame}
      BY <2>2 DEF Unshared
    <3>2. Backing = [pl \in Places |-> Backing[pl]]
      BY BackingIs
    <3> QED
      BY <3>1, <3>2
  <2>4. free \in SUBSET Frame
    BY TypesOK DEF PTypeOK
  <2>5. Abstract!ATypeOK
    BY <2>1, <2>3, <2>4 DEF Abstract!ATypeOK
  <2>6. Abstract!FramesUnshared
    BY <2>1, <2>2 DEF Abstract!FramesUnshared, Unshared
  <2> QED
    BY <2>5, <2>6
<1> QED
  BY <1>1, PagingInvariant, PTL

(* A mapping once made stays as it is: what a program or the kernel has    *)
(* written to a page it finds there after every switch of directories.     *)
THEOREM MappingsAreKept ==
    ASSUME CleanMemory
    PROVE  Spec => [][Abstract!MappingsStay]_(Abstract!aVars)
<1>1. Abstract!ANext => Abstract!MappingsStay
  BY DEF Abstract!ANext, Abstract!Map, Abstract!Fresh, Abstract!MappingsStay
<1> QED
  BY <1>1, SpacesImplemented, PTL DEF ImplementsSpaces, Abstract!ASpec
=============================================================================
