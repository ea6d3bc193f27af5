-------------------------------- MODULE Paging --------------------------------
(***************************************************************************)
(* Page directories and tables (modules/virtmem_paging/VirtMem_Paging.c)   *)
(* and what is built from them: the directory of a process                 *)
(* (Process_createUserProcess), the kernel's and the processes' heap break *)
(* (modules/heapmem_sbrk/HeapMem_SBRK.c).                                  *)
(*                                                                         *)
(* Directories and tables are frames, and the code reaches them through    *)
(* three pages of the kernel's window that it remaps as it goes.  The      *)
(* model does the same: mem is physical memory, a frame is a vector of     *)
(* Width entries, and every access to a directory or table goes through the*)
(* slot the code uses for it.  A page is its number, the directory entry   *)
(* of page v is v \div Width and its table entry v % Width.                *)
(***************************************************************************)
EXTENDS Integers

CONSTANTS
    Width,          \* entries of a directory or table (1024)
    NFrames,        \* frames of physical memory
    FirstFrees,     \* possible numbers of the first frame the allocator has
    Leftover,       \* what an entry of a frame holds before it is first used
    MaxPid,         \* bound on the user processes
    Images,         \* sizes of the programs in the ram disk, in pages
    MaxHeap,        \* bound on the heap of a process, in pages
    MaxKernelHeap   \* KERNEL_HEAP_SIZE_MAX in pages

Frame == 0 .. NFrames
Entry == 0 .. Width - 1
PageEntry == [present : BOOLEAN, frame : Frame, user : BOOLEAN]

(* The directory entries in use.  The last entry maps the directory itself.*)
Code == 0
Heap == 1
Stack == 2
Window == 3
KernelHeap == 4
Self == Width - 1

USER_CODE_BASE == Code * Width
USER_HEAP_BASE == Heap * Width
USER_STACK_BASE == Stack * Width + Width - 2
KERNEL_HEAP_BASE == KernelHeap * Width

(* The pages of the window that mapToCurrent remaps: 0, 4 and 8 in the code.*)
DirSlot == 0
TableSlot == 1
CodeSlot == 2

(* Memory is at least the 4 MB that the window shows at first.             *)
ASSUME PagingAssumption ==
    /\ Width \in Nat /\ Width >= 6
    /\ NFrames \in Nat /\ NFrames >= Width - 1
    /\ FirstFrees \subseteq 1 .. NFrames
    /\ Leftover \in PageEntry
    /\ MaxPid \in Nat \ {0} /\ Images \subseteq 1 .. Width
    /\ MaxHeap \in 0 .. Width /\ MaxKernelHeap \in 1 .. Width

Ent(f, user) == [present |-> TRUE, frame |-> f, user |-> user]
Clear == [present |-> FALSE, frame |-> 0, user |-> FALSE]
Junk == Ent(1, TRUE)    \* left by whoever had the frame before, such as the firmware
Cleared == [e \in Entry |-> Clear]

VARIABLES
    mem,            \* physical memory as entries
    free,           \* the frames of the allocator
    pse,            \* PageSizeExtension_enabled
    cr3, kdir,
    kheap_top,
    page_dir, heap_top,   \* per process; 0 before it is created
    live,           \* the processes in the scheduler's list
    current,        \* Scheduler_getCurrent; 0 is NULL
    panicked

vars == <<mem, free, pse, cr3, kdir, kheap_top, page_dir, heap_top, live, current, panicked>>

Pid == 1 .. MaxPid
created == {p \in Pid : page_dir[p] # 0}

Init ==
    /\ mem = [f \in Frame |-> [e \in Entry |-> Leftover]]
    /\ \E first \in FirstFrees : free = first .. NFrames
    /\ pse = TRUE
    /\ cr3 = 0 /\ kdir = 0
    /\ kheap_top = KERNEL_HEAP_BASE
    /\ page_dir = [p \in Pid |-> 0]
    /\ heap_top = [p \in Pid |-> 0]
    /\ live = {} /\ current = 0
    /\ panicked = FALSE
-----------------------------------------------------------------------------
(* The operations work on the part of the state they share, one after the  *)
(* other.                                                                  *)
Machine == [mem |-> mem, free |-> free, pse |-> pse, cr3 |-> cr3, panicked |-> panicked]

(* PhysMem_allocate: the stack holds the frames in ascending order, and so *)
(* does the search in the bitmap.  No frame ever comes back.               *)
NextFrame(s) == CHOOSE f \in s.free \cup {0} : \A g \in s.free : f # 0 /\ f <= g
Allocated(s) ==
    IF s.free = {} THEN [s EXCEPT !.panicked = TRUE]
    ELSE [s EXCEPT !.free = @ \ {NextFrame(s)}]

(* mapToCurrent: with 4 MB pages a frame is read in place, and only the    *)
(* first 4 MB can be; otherwise the slot is an entry of the window's table,*)
(* found through the last entry of the current directory.                  *)
WindowTable(s) == s.mem[s.mem[s.cr3][Self].frame][Window].frame

ToCurrent(s, f, slot) ==
    IF s.pse THEN [s EXCEPT !.panicked = @ \/ f >= Width]
    ELSE [s EXCEPT !.mem[WindowTable(s)][slot] = Ent(f, FALSE)]

Seen(s, f, slot) == IF s.pse THEN f ELSE s.mem[WindowTable(s)][slot].frame

(* The new table's slot; faulty: the slot of the directory.                *)
NewTableSlot_Shared == DirSlot
NewTableSlot == TableSlot

(* mapPage.  frame 0 asks for a new frame.  A new table is cleared in its  *)
(* first entry only.                                                       *)
WithTable(s, dir, pde, user) ==
    LET t == NextFrame(s)
        d == Seen(s, dir, DirSlot)
        s1 == [Allocated(s) EXCEPT !.mem[d][pde] = Ent(t, user)]
        s2 == ToCurrent(s1, t, NewTableSlot)
    IN  IF s.mem[d][pde].present THEN s
        ELSE [s2 EXCEPT !.mem[Seen(s2, t, NewTableSlot)][0] = Clear]

MapPage(s, dir, page, frame, user) ==
    LET f == IF frame = 0 THEN NextFrame(s) ELSE frame
        s1 == IF frame = 0 THEN Allocated(s) ELSE s
        s2 == WithTable(ToCurrent(s1, dir, DirSlot), dir, page \div Width, user)
        t == s2.mem[Seen(s2, dir, DirSlot)][page \div Width].frame
        s3 == ToCurrent(s2, t, DirSlot)
    IN  [s3 EXCEPT !.mem[Seen(s3, t, DirSlot)][page % Width] = Ent(f, user)]

(* createDir: a frame, cleared, whose last entry is itself.                *)
CreateDir(s) ==
    LET d == NextFrame(s)
        s1 == ToCurrent(Allocated(s), d, DirSlot)
    IN  [s1 EXCEPT !.mem[Seen(s1, d, DirSlot)] = [Cleared EXCEPT ![Self] = Ent(d, FALSE)]]

(* cpyDir: window and kernel heap of one directory in another, present     *)
(* whether they were in the first or not.                                  *)
CopiedEntries_WindowOnly == {Window}    \* faulty: forgets the heap
CopiedEntries == {Window, KernelHeap}

CpyDir(s, src, dst) ==
    LET s1 == ToCurrent(ToCurrent(s, src, TableSlot), dst, DirSlot)
        from == s1.mem[Seen(s1, src, TableSlot)]
    IN  [s1 EXCEPT !.mem[Seen(s1, dst, DirSlot)] =
            [e \in Entry |-> IF e \in CopiedEntries THEN Ent(from[e].frame, FALSE) ELSE @[e]]]

(* n fresh pages from page on, one mapPage each.                           *)
Grown(s, dir, page, n, user) ==
    LET st[i \in 0 .. n] ==
          IF i = 0 THEN s ELSE MapPage(st[i - 1], dir, page + i - 1, 0, user)
    IN  st[n]
-----------------------------------------------------------------------------
(* Kernel_panic in the middle of an operation: nobody runs afterwards that *)
(* could see how far it came.                                              *)
Panic ==
    /\ panicked' = TRUE
    /\ UNCHANGED <<mem, free, pse, cr3, kdir, kheap_top, page_dir, heap_top, live, current>>

Store(s) == mem' = s.mem /\ free' = s.free /\ panicked' = FALSE

(* VirtMem_Paging_init.  Page 0 of the window is mapped to address 0, which*)
(* mapPage takes for a request of a new frame; the others to the frame of  *)
(* their number.                                                           *)
WindowMapped(s, k, n) ==
    LET st[i \in 0 .. n] ==
          IF i = 0 THEN s ELSE MapPage(st[i - 1], k, Window * Width + i - 1, i - 1, FALSE)
    IN  st[n]

Paging_init ==
    LET k == NextFrame(Machine)
        s == WindowMapped(CreateDir(Machine), k, Width)
    IN  /\ ~panicked /\ kdir = 0
        /\ IF s.panicked THEN Panic
           ELSE /\ Store(s)
                /\ kdir' = k /\ cr3' = k
                /\ pse' = FALSE
                /\ UNCHANGED <<kheap_top, page_dir, heap_top, live, current>>

(* HeapMem_KSBRK(n pages) with the limit it tests.                         *)
KernelHeapLimit == KERNEL_HEAP_BASE + MaxKernelHeap

HeapDir == IF current = 0 THEN kdir ELSE page_dir[current]

KernelGrown(s, top, n) ==
    IF n > 0 /\ top + n > KernelHeapLimit THEN [s EXCEPT !.panicked = TRUE]
    ELSE Grown(s, HeapDir, top, n, FALSE)

(* malloc anywhere in the kernel: at boot, and in the system calls of a    *)
(* process.                                                                *)
KernelMalloc(n) ==
    LET s == KernelGrown(Machine, kheap_top, n)
    IN  /\ ~panicked /\ kdir # 0
        /\ IF s.panicked THEN Panic
           ELSE /\ Store(s)
                /\ kheap_top' = kheap_top + n
                /\ UNCHANGED <<pse, cr3, kdir, page_dir, heap_top, live, current>>

(* Process_createUserProcess.  calloc of the pcb comes before the directory*)
(* is made, and needs a page when the heap is empty; calloc of the kernel  *)
(* stack and the frame comes behind the loop over the pages of the image.  *)
(* The stack of process 1 is mapped in kdir too.                           *)
LoadPage(s, dir, page) ==
    ToCurrent(MapPage(Allocated(s), dir, page, NextFrame(s), TRUE), NextFrame(s), CodeSlot)

LoadPages(s, dir, n) ==
    LET st[i \in 0 .. n] ==
          IF i = 0 THEN s ELSE LoadPage(st[i - 1], dir, USER_CODE_BASE + i - 1)
    IN  st[n]

UserStack(s, dir, id) ==
    LET f == NextFrame(s)
        s1 == MapPage(Allocated(s), dir, USER_STACK_BASE, f, TRUE)
    IN  IF id = 1 THEN MapPage(s1, kdir, USER_STACK_BASE, f, TRUE)
        ELSE ToCurrent(s1, f, DirSlot)

FirstCalloc(g) == kheap_top = KERNEL_HEAP_BASE => g > 0

CreateUserProcess(p, n, before, after) ==
    LET s1 == KernelGrown(Machine, kheap_top, before)
        dir == NextFrame(s1)
        s2 == CpyDir(CreateDir(s1), kdir, dir)
        s3 == LoadPages(s2, dir, n)
        s == UserStack(KernelGrown(s3, kheap_top + before, after), dir, p)
    IN  /\ ~panicked /\ kdir # 0
        /\ created = 1 .. p - 1
        /\ p = 1 \/ current # 0
        /\ FirstCalloc(before)
        /\ IF s.panicked THEN Panic
           ELSE /\ Store(s)
                /\ kheap_top' = kheap_top + before + after
                /\ page_dir' = [page_dir EXCEPT ![p] = dir]
                /\ heap_top' = [heap_top EXCEPT ![p] = USER_HEAP_BASE]
                /\ live' = live \cup {p}
                /\ UNCHANGED <<pse, cr3, kdir, current>>

(* KASSERT(file != NULL).                                                  *)
CreateWithoutFile == ~panicked /\ current # 0 /\ Panic

(* contextSwitch to a process in the list (User_switchTo for the first):   *)
(* changeDir and current process.                                          *)
SwitchTo(p) ==
    /\ ~panicked /\ p \in live
    /\ cr3' = page_dir[p] /\ current' = p
    /\ UNCHANGED <<mem, free, pse, kdir, kheap_top, page_dir, heap_top, live, panicked>>

(* HeapMem_SBRK of the current process.  A negative request panics.        *)
SbrkDir_Kernel == kdir  \* faulty: the kernel's directory
SbrkDir == page_dir[current]

Sbrk(n) ==
    LET s == Grown(Machine, SbrkDir, heap_top[current], n, TRUE)
    IN  /\ ~panicked /\ current # 0
        /\ heap_top[current] + n <= USER_HEAP_BASE + MaxHeap
        /\ IF s.panicked THEN Panic
           ELSE /\ Store(s)
                /\ heap_top' = [heap_top EXCEPT ![current] = @ + n]
                /\ UNCHANGED <<pse, cr3, kdir, kheap_top, page_dir, live, current>>

SbrkNegative == ~panicked /\ current # 0 /\ Panic

(* Process_kill: removeProcess and freeDir, whose body is a comment.  The  *)
(* killed process may be the current one and runs on until the switch.     *)
FreeDir_Directory(d) == free \cup {d}   \* faulty: CR3 may still hold it
FreeDir_Table(d) == free \cup {mem[d][Code].frame} \* faulty: its entry stays
FreeDir(d) == free

Kill(p) ==
    /\ ~panicked /\ p \in live
    /\ live' = live \ {p}
    /\ free' = FreeDir(page_dir[p])
    /\ UNCHANGED <<mem, pse, cr3, kdir, kheap_top, page_dir, heap_top, current, panicked>>

Next ==
    \/ Paging_init
    \/ \E n \in 1 .. 2 : KernelMalloc(n) \/ Sbrk(n)
    \/ \E p \in Pid, n \in Images, before, after \in 0 .. 1 : CreateUserProcess(p, n, before, after)
    \/ CreateWithoutFile
    \/ SbrkNegative
    \/ \E p \in Pid : SwitchTo(p) \/ Kill(p)

Spec == Init /\ [][Next]_vars
-----------------------------------------------------------------------------
(* What the processor makes of a directory.                                *)
Maps(d, page) ==
    LET pde == mem[d][page \div Width]
        pte == mem[pde.frame][page % Width]
    IN  pde.present /\ pte.present
Behind(d, page) == mem[mem[d][page \div Width].frame][page % Width].frame
UserMay(d, page) ==
    /\ Maps(d, page)
    /\ mem[d][page \div Width].user
    /\ mem[mem[d][page \div Width].frame][page % Width].user

UserPage == 0 .. Window * Width - 1
KernelPage == KERNEL_HEAP_BASE .. KERNEL_HEAP_BASE + Width - 1
AllPage == 0 .. Width * Width - 1

Tables(d) == {mem[d][e].frame : e \in {e \in Entry \ {Self} : mem[d][e].present}}
MappedIn(d) == {Behind(d, v) : v \in {v \in UserPage \cup KernelPage : Maps(d, v)}}
Directories == {kdir} \cup {page_dir[p] : p \in created}
Paged == kdir # 0   \* behind Paging_init

(* Type correctness.                                                       *)
PTypeOK ==
    /\ \A f \in Frame, e \in Entry :
         /\ mem[f][e].present \in BOOLEAN /\ mem[f][e].user \in BOOLEAN
         /\ mem[f][e].frame \in Frame
    /\ free \subseteq Frame \ {0}
    /\ {cr3, kdir} \subseteq Frame \ free
    /\ page_dir \in [Pid -> Frame]
    /\ live \subseteq created
    /\ current \in created \cup {0}
    /\ panicked \in BOOLEAN

(* Every directory has the kernel's window and heap, the same tables and   *)
(* not only the same content: a page that malloc adds in one process's     *)
(* directory is there in all others, and the slots too.                    *)
KernelShared ==
    Paged => \A d \in Directories : \A e \in {Window, KernelHeap} :
        e = Window \/ created # {} => mem[d][e].present /\ mem[d][e] = mem[kdir][e]

(* What a program can reach with its own accesses is its own: no frame of  *)
(* another program's pages, of the kernel's heap, and no directory or table.*)
UserReach(p) == {Behind(page_dir[p], v) : v \in {v \in AllPage : UserMay(page_dir[p], v)}}

Isolation ==
    \A p \in created :
        /\ UserReach(p) \cap UNION {{d} \cup Tables(d) : d \in Directories} = {}
        /\ UserReach(p) \cap {Behind(kdir, v) : v \in {v \in KernelPage : Maps(kdir, v)}} = {}
        /\ \A q \in created \ {p} : UserReach(p) \cap UserReach(q) = {}

(* The breaks tell the truth: below them every page is mapped, at and      *)
(* above them none, in the directory the owner runs in.                    *)
HeapsBacked ==
    Paged =>
        /\ \A d \in Directories, v \in KernelPage : Maps(d, v) <=> v < kheap_top
        /\ \A p \in created, v \in USER_HEAP_BASE .. USER_HEAP_BASE + Width - 1 :
             Maps(page_dir[p], v) <=> v < heap_top[p]

(* Every frame the allocator gave away is a directory, a table or mapped in*)
(* one, for processes alive and dead, and one frame is lost: Paging_init   *)
(* takes it for page 0 of the window, which is a slot and soon another's.  *)
FramesAccounted ==
    Paged => \E first \in FirstFrees : \E lost \in first .. NFrames :
        (first .. NFrames) \ free = {lost} \cup UNION {{d} \cup Tables(d) \cup MappedIn(d) : d \in Directories}

(* A page that a program can reach is one the kernel mapped for it: "Maps a *)
(* page to a given dir" (VirtMem_Paging.c:186), one and no other.          *)
PagesGiven ==
    \A p \in created, v \in AllPage : UserMay(page_dir[p], v) =>
        \/ \E n \in Images : v < USER_CODE_BASE + n
        \/ v = USER_STACK_BASE
        \/ v \in USER_HEAP_BASE .. heap_top[p] - 1

(* The address spaces Memory.h describes.  Places without a mapping have   *)
(* frame -1.                                                               *)
NoFrame == -1
Backing ==
    [pl \in ({0} \X KernelPage) \cup (Pid \X UserPage) |->
       LET d == IF pl[1] = 0 THEN kdir ELSE page_dir[pl[1]]
       IN  IF d # 0 /\ Maps(d, pl[2]) THEN Behind(d, pl[2]) ELSE NoFrame]

Abstract == INSTANCE AddressSpaces WITH
    Kernel <- 0, Process <- Pid, None <- NoFrame, backing <- Backing

ImplementsSpaces == Abstract!ASpec
=============================================================================
