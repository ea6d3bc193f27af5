------------------------- MODULE PhysMemHybridProofs -------------------------
(***************************************************************************)
(* Proofs about PhysMemHybrid for every number of frames and every size of *)
(* the stack: IInv is an invariant, and the stack and the bitmap implement *)
(* FrameAllocator.  The key is that Stack_push never finds the stack full. *)
(***************************************************************************)
EXTENDS PhysMemHybrid, FiniteSetTheorems, SequenceTheorems, TLAPS

(* A frame that can be pushed and is not on the stack finds room there: the *)
(* stack and that frame are different members of 1 .. MaxStack.             *)
LEMMA RoomForFrame ==
    ASSUME stack \in Seq(Frames), OnStack \subseteq 1 .. MaxStack, NoRepetition,
           NEW f \in 1 .. MaxStack, f \notin OnStack
    PROVE  Len(stack) + 1 <= MaxStack
<1> DEFINE n == Len(stack)
           S == 1 .. n + 1
           T == 1 .. MaxStack
           g == [i \in S |-> IF i = n + 1 THEN f ELSE stack[i]]
<1>1. n \in Nat /\ DOMAIN stack = 1 .. n /\ MaxStack \in Nat
  BY PhysMemAssumption
<1>2. g \in [S -> T]
  <2> SUFFICES ASSUME NEW i \in S PROVE g[i] \in T
    OBVIOUS
  <2>1. CASE i = n + 1
    BY <2>1
  <2>2. CASE i # n + 1
    <3>1. i \in DOMAIN stack
      BY <1>1, <2>2
    <3> QED BY <3>1, <2>2 DEF OnStack
  <2> QED BY <2>1, <2>2
<1>3. ASSUME NEW i \in S, NEW j \in S, g[i] = g[j] PROVE i = j
  <2>1. \A k \in S : k # n + 1 => k \in DOMAIN stack /\ g[k] = stack[k] /\ g[k] # f
    BY <1>1 DEF OnStack
  <2>2. g[n + 1] = f
    BY <1>1
  <2> QED BY <1>3, <2>1, <2>2 DEF NoRepetition
<1>4. IsFiniteSet(S) /\ Cardinality(S) = n + 1
  BY <1>1, FS_Interval
<1>5. IsFiniteSet(T) /\ Cardinality(T) = MaxStack
  <2>1. Cardinality(T) = IF 1 > MaxStack THEN 0 ELSE MaxStack - 1 + 1
    BY <1>1, FS_Interval
  <2> QED BY <2>1, <1>1, FS_Interval, PhysMemAssumption
<1>6. ~(Cardinality(T) < Cardinality(S))
  <2> SUFFICES ASSUME Cardinality(T) < Cardinality(S) PROVE FALSE
    OBVIOUS
  <2> HIDE DEF S, T, g
  <2>1. \E x, y \in S : x # y /\ g[x] = g[y]
    BY <1>2, <1>4, <1>5, FS_PigeonHole
  <2> QED BY <2>1, <1>3
<1> QED BY <1>1, <1>4, <1>5, <1>6

(* What a push and a pop do to the elements of the stack.                   *)
LEMMA PushedStack ==
    ASSUME stack \in Seq(Frames), NEW f \in Frames, f \notin OnStack, NoRepetition,
           stack' = Append(stack, f)
    PROVE  /\ stack' \in Seq(Frames)
           /\ OnStack' = OnStack \cup {f}
           /\ NoRepetition'
<1> DEFINE n == Len(stack)
<1>1. /\ n \in Nat /\ DOMAIN stack = 1 .. n
      /\ stack' \in Seq(Frames) /\ DOMAIN stack' = 1 .. n + 1
      /\ \A i \in 1 .. n : stack'[i] = stack[i]
      /\ stack'[n + 1] = f
  OBVIOUS
<1>2. OnStack' = OnStack \cup {f}
  <2>1. ASSUME NEW x \in OnStack' PROVE x \in OnStack \cup {f}
    <3>1. PICK i \in 1 .. n + 1 : x = stack'[i]
      BY <1>1 DEF OnStack
    <3>2. i \in 1 .. n \/ i = n + 1
      BY <1>1
    <3> QED BY <1>1, <3>1, <3>2 DEF OnStack
  <2>2. ASSUME NEW x \in OnStack PROVE x \in OnStack'
    <3>1. PICK i \in 1 .. n : x = stack[i]
      BY <1>1 DEF OnStack
    <3>2. i \in DOMAIN stack' /\ stack'[i] = x
      BY <1>1, <3>1
    <3> QED BY <3>2 DEF OnStack
  <2>3. f \in OnStack'
    <3>1. n + 1 \in DOMAIN stack'
      BY <1>1
    <3> QED BY <1>1, <3>1 DEF OnStack
  <2> QED BY <2>1, <2>2, <2>3
<1>3. NoRepetition'
  <2> SUFFICES ASSUME NEW i \in 1 .. n + 1, NEW j \in 1 .. n + 1, stack'[i] = stack'[j]
               PROVE  i = j
    BY <1>1 DEF NoRepetition
  <2>1. \A k \in 1 .. n : stack'[k] = stack[k] /\ stack[k] # f
    BY <1>1 DEF OnStack
  <2>2. (i \in 1 .. n \/ i = n + 1) /\ (j \in 1 .. n \/ j = n + 1)
    BY <1>1
  <2> QED BY <1>1, <2>1, <2>2 DEF NoRepetition
<1> QED BY <1>1, <1>2, <1>3

LEMMA PoppedStack ==
    ASSUME stack \in Seq(Frames), Len(stack) > 0, NoRepetition,
           stack' = SubSeq(stack, 1, Len(stack) - 1)
    PROVE  /\ stack' \in Seq(Frames)
           /\ stack[Len(stack)] \in OnStack
           /\ OnStack' = OnStack \ {stack[Len(stack)]}
           /\ NoRepetition'
<1> DEFINE n == Len(stack)
<1>1. /\ n \in Nat \ {0} /\ DOMAIN stack = 1 .. n
      /\ stack' \in Seq(Frames) /\ DOMAIN stack' = 1 .. n - 1
      /\ \A i \in 1 .. n - 1 : stack'[i] = stack[i]
  OBVIOUS
<1>2. stack[n] \in OnStack
  BY <1>1 DEF OnStack
<1>3. OnStack' = OnStack \ {stack[n]}
  <2>1. ASSUME NEW x \in OnStack' PROVE x \in OnStack \ {stack[n]}
    <3>1. PICK i \in 1 .. n - 1 : x = stack'[i]
      BY <1>1 DEF OnStack
    <3>2. i \in 1 .. n /\ n \in 1 .. n /\ i # n
      <4>1. n \in Nat /\ n > 0 /\ i \in Int /\ 1 <= i /\ i <= n - 1
        BY <1>1
      <4> HIDE DEF n
      <4> QED BY <4>1
    <3>3. i \in DOMAIN stack /\ n \in DOMAIN stack /\ x = stack[i]
      BY <1>1, <3>1, <3>2
    <3> QED BY <3>2, <3>3 DEF OnStack, NoRepetition
  <2>2. ASSUME NEW x \in OnStack \ {stack[n]} PROVE x \in OnStack'
    <3>1. PICK i \in 1 .. n : x = stack[i]
      BY <1>1 DEF OnStack
    <3>2. i \in DOMAIN stack' /\ stack'[i] = x
      BY <1>1, <3>1
    <3> QED BY <3>2 DEF OnStack
  <2> QED BY <2>1, <2>2
<1>4. NoRepetition'
  BY <1>1 DEF NoRepetition
<1> QED BY <1>1, <1>2, <1>3, <1>4

-----------------------------------------------------------------------------
(* The inductive invariant.                                                 *)
LEMMA InitInvariant == Init => IInv
<1> SUFFICES ASSUME Init PROVE IInv
  OBVIOUS
<1>1. PICK F \in SUBSET (Frames \ {0}), start \in 0 .. MaxStack :
         /\ stack \in DescendingStacks({f \in F : f <= start})
         /\ bitmap = Frames \ {f \in F : f > start}
  BY DEF Init
<1> DEFINE Low == {f \in F : f <= start}
<1>2. /\ MaxStack \in Nat /\ 0 \in Frames /\ Frames \subseteq Nat
      /\ F \subseteq Frames \ {0} /\ start \in Nat /\ start <= MaxStack
  <2>1. MaxStack \in Nat /\ 0 \in Frames /\ Frames \subseteq Nat
    BY PhysMemAssumption DEF Frames
  <2> QED BY <2>1
<1>3. \A f \in Low : f \in Frames /\ f \in 1 .. MaxStack
  <2> SUFFICES ASSUME NEW f \in Low PROVE f \in Frames /\ f \in 1 .. MaxStack
    OBVIOUS
  <2>1. f \in F /\ f <= start
    OBVIOUS
  <2>2. f \in Frames /\ f \in Nat /\ f # 0
    BY <1>2, <2>1
  <2> QED BY <1>2, <2>1, <2>2
<1>4. Low \subseteq bitmap /\ 0 \in bitmap /\ bitmap \subseteq Frames
  <2>1. \A f \in {g \in F : g > start} : f # 0 /\ ~(f <= start)
    BY <1>2
  <2> QED BY <1>1, <1>2, <1>3, <2>1
<1> HIDE DEF Low
<1>5. PICK n \in 0 .. MaxStack : stack \in [1 .. n -> Low]
  BY <1>1 DEF DescendingStacks, Low
<1>6. /\ Low = OnStack
      /\ \A i, j \in DOMAIN stack : i < j => stack[i] > stack[j]
  BY <1>1 DEF DescendingStacks, OnStack, Low
<1>7. stack \in Seq(Frames)
  <2>1. n \in Nat
    BY <1>2
  <2>2. stack \in [1 .. n -> Frames]
    BY <1>3, <1>5
  <2> QED BY <2>1, <2>2
<1>8. NoRepetition
  <2> SUFFICES ASSUME NEW i \in DOMAIN stack, NEW j \in DOMAIN stack,
                      stack[i] = stack[j], i # j
               PROVE  FALSE
    BY DEF NoRepetition
  <2>1. DOMAIN stack = 1 .. n
    BY <1>5
  <2>2. i \in Int /\ j \in Int
    BY <2>1
  <2>3. stack[i] \in Low /\ stack[j] \in Low
    BY <1>5, <2>1
  <2>4. stack[i] \in Nat /\ stack[j] \in Nat
    BY <1>3, <2>3
  <2>5. i < j \/ j < i
    BY <2>2
  <2> QED BY <1>6, <2>4, <2>5
<1>9. held = {} /\ panicked = FALSE
  BY DEF Init
<1> QED BY <1>3, <1>4, <1>6, <1>7, <1>8, <1>9
        DEF IInv, TypeOK, StackSound, OneOwner, Clear

LEMMA PopInvariant == IInv /\ AllocateFromStack => IInv'
<1> SUFFICES ASSUME IInv, AllocateFromStack PROVE IInv'
  OBVIOUS
<1> DEFINE f == stack[Len(stack)]
<1>1. /\ stack' \in Seq(Frames) /\ f \in OnStack
      /\ OnStack' = OnStack \ {f} /\ NoRepetition'
  BY PoppedStack DEF IInv, TypeOK, OneOwner, AllocateFromStack
<1>2. bitmap' = bitmap /\ panicked' = panicked /\ held' = held \cup {f}
  BY DEF AllocateFromStack
<1>3. f \in bitmap /\ f # 0 /\ f \in Frames
  BY <1>1, PhysMemAssumption DEF IInv, TypeOK, StackSound
<1> HIDE DEF f
<1> QED BY <1>1, <1>2, <1>3 DEF IInv, TypeOK, StackSound, OneOwner, Clear

LEMMA SearchInvariant ==
    ASSUME IInv, NEW f \in Frames, AllocateFromBitmap(f)
    PROVE  IInv'
<1>1. /\ bitmap' = bitmap \cup {f} /\ held' = held \cup {f}
      /\ stack' = stack /\ panicked' = panicked
      /\ f \in Clear
  BY DEF AllocateFromBitmap, WithBit, FirstClear
<1>2. OnStack' = OnStack /\ (NoRepetition' <=> NoRepetition)
  BY <1>1 DEF OnStack, NoRepetition
<1> QED BY <1>1, <1>2 DEF IInv, TypeOK, StackSound, OneOwner, Clear

LEMMA FreeInvariant ==
    ASSUME IInv, NEW f \in Frames, Free(f)
    PROVE  /\ IInv'
           /\ OnStack' \cup Clear' = OnStack \cup Clear \cup {f}
<1>1. /\ f \in held /\ held' = held \ {f} /\ panicked' = panicked
      /\ f \in bitmap /\ f \notin OnStack /\ f # 0 /\ f \in Nat
  BY PhysMemAssumption DEF Free, IInv, OneOwner, Clear, Frames
<1>2. CASE f < MaxStack
  <2>1. f \in 1 .. MaxStack
    BY <1>1, <1>2, PhysMemAssumption
  <2>2. Len(stack) + 1 <= MaxStack
    BY <1>1, <2>1, RoomForFrame DEF IInv, TypeOK, StackSound, OneOwner
  <2>3. stack' = Append(stack, f) /\ bitmap' = bitmap
    BY <1>2, <2>2 DEF Free, Pushed
  <2>4. stack' \in Seq(Frames) /\ OnStack' = OnStack \cup {f} /\ NoRepetition'
    BY <1>1, <2>3, PushedStack DEF IInv, TypeOK, OneOwner
  <2> QED BY <1>1, <2>1, <2>3, <2>4 DEF IInv, TypeOK, StackSound, OneOwner, Clear
<1>3. CASE ~(f < MaxStack)
  <2>1. stack' = stack /\ bitmap' = bitmap \ {f}
    BY <1>3 DEF Free, WithoutBit
  <2>2. OnStack' = OnStack /\ (NoRepetition' <=> NoRepetition)
    BY <2>1 DEF OnStack, NoRepetition
  <2> QED BY <1>1, <2>1, <2>2 DEF IInv, TypeOK, StackSound, OneOwner, Clear
<1> QED BY <1>2, <1>3

LEMMA PanicInvariant == IInv /\ OutOfMemory => IInv'
  BY DEF IInv, TypeOK, StackSound, OneOwner, NoRepetition, OnStack, Clear, OutOfMemory

LEMMA StutterInvariant == IInv /\ UNCHANGED vars => IInv'
  BY DEF IInv, TypeOK, StackSound, OneOwner, NoRepetition, OnStack, Clear, vars

(* The invariant holds in every state of every behaviour.                   *)
THEOREM Invariance == Spec => []IInv
<1>1. Init => IInv
  BY InitInvariant
<1>2. IInv /\ [Next]_vars => IInv'
  BY PopInvariant, SearchInvariant, FreeInvariant, PanicInvariant, StutterInvariant
     DEF Next
<1> QED BY <1>1, <1>2, PTL DEF Spec

(* A frame in use is free nowhere, no frame is on the stack twice, and frame*)
(* 0 is never handed out (PhysMem_Hybrid_allocate and _free).               *)
THEOREM OwnersAreUnique == Spec => []OneOwner
<1>1. IInv => OneOwner
  BY DEF IInv
<1> QED BY <1>1, Invariance, PTL

-----------------------------------------------------------------------------
(* PhysMem_Hybrid implements the allocator the kernel relies on: every step *)
(* of the stack and the bitmap is a step of FrameAllocator, so no frame is  *)
(* handed out twice or lost, and it panics only when all frames are in use. *)
THEOREM HybridImplementsAllocator == Spec => ImplementsAllocator
<1> DEFINE free == OnStack \cup Clear
<1>1. Init => Allocator!Init
  <2> SUFFICES ASSUME Init PROVE Allocator!Init
    OBVIOUS
  <2>1. OnStack \subseteq Frames
    BY InitInvariant DEF IInv, TypeOK, StackSound
  <2> QED BY <2>1 DEF Init, Allocator!Init, Clear
<1>2. IInv /\ [Next]_vars => [Allocator!Next]_Allocator!allocVars
  <2> SUFFICES ASSUME IInv, [Next]_vars
               PROVE  [Allocator!Next]_Allocator!allocVars
    OBVIOUS
  <2>1. CASE AllocateFromStack
    <3> DEFINE f == stack[Len(stack)]
    <3>1. f \in OnStack /\ OnStack' = OnStack \ {f}
      BY <2>1, PoppedStack DEF IInv, TypeOK, OneOwner, AllocateFromStack
    <3>2. f \in Frames /\ f \in bitmap
      BY <3>1 DEF IInv, TypeOK, StackSound
    <3>3. /\ ~panicked /\ panicked' = panicked /\ bitmap' = bitmap
          /\ held' = held \cup {f}
      BY <2>1 DEF AllocateFromStack
    <3> HIDE DEF f
    <3>4. Allocator!Allocate(f)
      BY <3>1, <3>2, <3>3 DEF Allocator!Allocate, Clear
    <3> QED BY <3>2, <3>4 DEF Allocator!Next
  <2>2. ASSUME NEW f \in Frames, AllocateFromBitmap(f)
        PROVE  Allocator!Next
    <3>1. /\ ~panicked /\ panicked' = panicked /\ bitmap' = bitmap \cup {f}
          /\ held' = held \cup {f} /\ stack' = stack /\ f \in Clear
          /\ Len(stack) = 0
      BY <2>2 DEF AllocateFromBitmap, WithBit, FirstClear
    <3>2. OnStack' = OnStack /\ f \notin OnStack
      BY <3>1 DEF OnStack, IInv, StackSound, Clear
    <3>3. Allocator!Allocate(f)
      BY <3>1, <3>2 DEF Allocator!Allocate, Clear
    <3> QED BY <3>3 DEF Allocator!Next
  <2>3. CASE OutOfMemory
    <3>1. OnStack = {}
      <4>1. stack \in Seq(Frames) /\ Len(stack) = 0
        BY <2>3 DEF OutOfMemory, IInv, TypeOK
      <4>2. DOMAIN stack = {}
        BY <4>1
      <4> QED BY <4>2 DEF OnStack
    <3>2. OnStack' = OnStack /\ Clear' = Clear
      BY <2>3 DEF OutOfMemory, OnStack, Clear
    <3>3. Allocator!OutOfMemory
      BY <2>3, <3>1, <3>2 DEF OutOfMemory, Allocator!OutOfMemory
    <3> QED BY <3>3 DEF Allocator!Next
  <2>4. ASSUME NEW f \in Frames, Free(f)
        PROVE  Allocator!Next
    <3>1. OnStack' \cup Clear' = OnStack \cup Clear \cup {f}
      BY <2>4, FreeInvariant
    <3>2. Allocator!Free(f)
      BY <2>4, <3>1 DEF Free, Allocator!Free
    <3> QED BY <3>2 DEF Allocator!Next
  <2>5. CASE UNCHANGED vars
    <3>1. UNCHANGED <<OnStack \cup Clear, held, panicked>>
      BY <2>5 DEF vars, OnStack, Clear
    <3> QED BY <3>1 DEF Allocator!allocVars
  <2> QED BY <2>1, <2>2, <2>3, <2>4, <2>5 DEF Next
<1> QED BY <1>1, <1>2, Invariance, PTL DEF Spec, ImplementsAllocator, Allocator!Spec
=============================================================================
