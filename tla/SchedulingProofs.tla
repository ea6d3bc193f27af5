--------------------------- MODULE SchedulingProofs ---------------------------
(***************************************************************************)
(* Proofs about Scheduling and, in the second part, about KeyboardInput,   *)
(* which extends it.                                                       *)
(*                                                                         *)
(* The first part is for every number of processes and every length of the *)
(* tick counter.  The invariant is IInv; each action preserves it.         *)
(***************************************************************************)
EXTENDS KeyboardInput, Recursion, SequenceTheorems

-----------------------------------------------------------------------------
(* Sequences: what removing, rotating and appending do to the elements.     *)

(* Scheduler_nextProcess in its loop permutes the list.                     *)
LEMMA RotatedList ==
    ASSUME NEW S, NEW s \in Seq(S), NEW i \in 1 .. Len(s)
    PROVE  /\ Rotated(s, i) \in Seq(S)
           /\ Elems(Rotated(s, i)) = Elems(s)
           /\ NoDuplicates(s) => NoDuplicates(Rotated(s, i))
<1> DEFINE res == Rotated(s, i)
           n == Len(s)
<1>1. /\ res \in Seq(S) /\ Len(res) = n
      /\ \A k \in 1 .. n : res[k] = IF k <= n - i THEN s[k + i] ELSE s[k - (n - i)]
  BY DEF Rotated
<1>2. DOMAIN s = 1 .. n /\ DOMAIN res = 1 .. n
  BY <1>1
<1>3. ASSUME NEW k \in 1 .. n PROVE res[k] \in Elems(s)
  <2>1. CASE k <= n - i
    <3>1. k + i \in 1 .. n /\ res[k] = s[k + i]
      BY <1>1, <2>1
    <3> QED BY <3>1, <1>2 DEF Elems
  <2>2. CASE ~(k <= n - i)
    <3>1. k - (n - i) \in 1 .. n /\ res[k] = s[k - (n - i)]
      BY <1>1, <2>2
    <3> QED BY <3>1, <1>2 DEF Elems
  <2> QED BY <2>1, <2>2
<1>4. ASSUME NEW k \in 1 .. n PROVE s[k] \in Elems(res)
  <2>1. CASE k <= i
    <3> DEFINE m == k + (n - i)
    <3>1. m \in 1 .. n /\ ~(m <= n - i) /\ m - (n - i) = k
      BY <2>1
    <3>2. res[m] = s[k]
      <4> HIDE DEF m
      <4> QED BY <1>1, <3>1
    <3> QED BY <3>1, <3>2, <1>2 DEF Elems
  <2>2. CASE ~(k <= i)
    <3>1. k - i \in 1 .. n /\ res[k - i] = s[k]
      BY <1>1, <2>2
    <3> QED BY <3>1, <1>2 DEF Elems
  <2> QED BY <2>1, <2>2
<1>5. Elems(res) = Elems(s)
  BY <1>2, <1>3, <1>4 DEF Elems
<1>6. ASSUME NoDuplicates(s) PROVE NoDuplicates(res)
  <2> SUFFICES ASSUME NEW j \in 1 .. n, NEW k \in 1 .. n, res[j] = res[k]
               PROVE  j = k
    BY <1>2 DEF NoDuplicates
  <2> DEFINE at(m) == IF m <= n - i THEN m + i ELSE m - (n - i)
  <2>1. /\ at(j) \in 1 .. n /\ at(k) \in 1 .. n
        /\ res[j] = s[at(j)] /\ res[k] = s[at(k)]
    BY <1>1
  <2>2. at(j) = at(k)
    BY <1>2, <1>6, <2>1 DEF NoDuplicates
  <2> QED BY <2>2
<1> QED BY <1>1, <1>5, <1>6

(* LinkedList_removeNode takes exactly the node it is given.                *)
LEMMA WithoutNode ==
    ASSUME NEW S, NEW s \in Seq(S), NEW i \in 1 .. Len(s), NoDuplicates(s)
    PROVE  /\ Without(s, i) \in Seq(S)
           /\ Elems(Without(s, i)) = Elems(s) \ {s[i]}
           /\ NoDuplicates(Without(s, i))
<1> DEFINE res == Without(s, i)
           n == Len(s)
           at(m) == IF m < i THEN m ELSE m + 1
<1>1. /\ res \in Seq(S) /\ Len(res) = n - 1
      /\ \A k \in 1 .. n - 1 : res[k] = s[at(k)]
  <2> DEFINE a == SubSeq(s, 1, i - 1)
             b == SubSeq(s, i + 1, n)
  <2>1. n \in Nat /\ i \in 1 .. n
    OBVIOUS
  <2>2. /\ a \in Seq(S) /\ Len(a) = i - 1
        /\ \A k \in 1 .. i - 1 : a[k] = s[k]
    BY <2>1
  <2>3. /\ b \in Seq(S) /\ Len(b) = n - i
        /\ \A k \in 1 .. n - i : b[k] = s[k + i]
    BY <2>1
  <2>4. res = a \o b
    BY DEF Without
  <2> HIDE DEF a, b, res
  <2>5. res \in Seq(S) /\ Len(res) = n - 1
    <3>1. a \o b \in Seq(S) /\ Len(a \o b) = Len(a) + Len(b)
      BY <2>2, <2>3, ConcatProperties
    <3>2. Len(res) = (i - 1) + (n - i)
      BY <3>1, <2>2, <2>3, <2>4
    <3>3. (i - 1) + (n - i) = n - 1
      BY <2>1
    <3> QED BY <3>1, <3>2, <3>3, <2>4
  <2>6. ASSUME NEW k \in 1 .. n - 1 PROVE res[k] = s[at(k)]
    BY <2>1, <2>2, <2>3, <2>4
  <2> QED BY <2>5, <2>6
<1>2. DOMAIN s = 1 .. n /\ DOMAIN res = 1 .. n - 1
  BY <1>1
<1>3. ASSUME NEW k \in 1 .. n - 1 PROVE res[k] \in Elems(s) \ {s[i]}
  <2>1. at(k) \in 1 .. n /\ at(k) # i /\ res[k] = s[at(k)]
    BY <1>1
  <2> QED BY <2>1, <1>2 DEF Elems, NoDuplicates
<1>4. ASSUME NEW k \in 1 .. n, k # i PROVE s[k] \in Elems(res)
  <2>1. CASE k < i
    <3>1. k \in 1 .. n - 1 /\ res[k] = s[k]
      BY <1>1, <2>1
    <3> QED BY <3>1, <1>2 DEF Elems
  <2>2. CASE ~(k < i)
    <3>1. k - 1 \in 1 .. n - 1 /\ res[k - 1] = s[k]
      BY <1>1, <1>4, <2>2
    <3> QED BY <3>1, <1>2 DEF Elems
  <2> QED BY <2>1, <2>2
<1>5. Elems(res) = Elems(s) \ {s[i]}
  BY <1>2, <1>3, <1>4 DEF Elems
<1>6. NoDuplicates(res)
  <2> SUFFICES ASSUME NEW j \in 1 .. n - 1, NEW k \in 1 .. n - 1, res[j] = res[k]
               PROVE  j = k
    BY <1>2 DEF NoDuplicates
  <2>1. /\ at(j) \in 1 .. n /\ at(k) \in 1 .. n
        /\ res[j] = s[at(j)] /\ res[k] = s[at(k)]
    BY <1>1
  <2>2. at(j) = at(k)
    BY <1>2, <2>1 DEF NoDuplicates
  <2> QED BY <2>2
<1> QED BY <1>1, <1>5, <1>6

(* LinkedList_addNode.                                                      *)
LEMMA AppendedList ==
    ASSUME NEW S, NEW s \in Seq(S), NEW e \in S
    PROVE  /\ Append(s, e) \in Seq(S)
           /\ Elems(Append(s, e)) = Elems(s) \cup {e}
           /\ NoDuplicates(s) /\ e \notin Elems(s) => NoDuplicates(Append(s, e))
<1> DEFINE res == Append(s, e)
           n == Len(s)
<1>1. /\ res \in Seq(S) /\ Len(res) = n + 1 /\ n \in Nat
      /\ \A k \in 1 .. n : res[k] = s[k]
      /\ res[n + 1] = e
  OBVIOUS
<1>2. DOMAIN s = 1 .. n /\ DOMAIN res = 1 .. n + 1
  BY <1>1
<1>3. Elems(res) = Elems(s) \cup {e}
  BY <1>1, <1>2 DEF Elems
<1>4. ASSUME NoDuplicates(s), e \notin Elems(s) PROVE NoDuplicates(res)
  BY <1>1, <1>2, <1>4 DEF Elems, NoDuplicates
<1> QED BY <1>1, <1>3, <1>4

(* The loop of contextSwitch stops at the first runnable process, when the  *)
(* list has one.                                                            *)
LEMMA NextExists ==
    ASSUME process_list \in Seq(Pid), RunnableExists
    PROVE  /\ NextIndex \in 1 .. Len(process_list)
           /\ IsNext(NextIndex)
<1> DEFINE T == {i \in 1 .. Len(process_list) : Runnable(process_list[i])}
<1>1. DOMAIN process_list = 1 .. Len(process_list) /\ Len(process_list) \in Nat
  OBVIOUS
<1>2. T \subseteq Nat /\ T # {}
  BY <1>1 DEF RunnableExists, Elems, ListElems
<1>3. PICK i \in T : \A j \in T : ~(<<j, i>> \in OpToRel(<, Nat))
  <2> HIDE DEF T
  <2> QED BY <1>2, NatLessThanWellFounded, WFMin
<1>4. \A j \in T : ~(j < i)
  BY <1>2, <1>3 DEF OpToRel
<1>5. IsNext(i)
  <2>1. i \in 1 .. Len(process_list) /\ Runnable(process_list[i])
    OBVIOUS
  <2>2. ASSUME NEW j \in 1 .. i - 1, Runnable(process_list[j]) PROVE FALSE
    <3>1. j \in 1 .. Len(process_list) /\ j < i
      BY <1>1, <2>1
    <3>2. j \in T
      BY <3>1, <2>2
    <3> QED BY <1>4, <3>1, <3>2
  <2> QED BY <1>1, <2>1, <2>2 DEF IsNext
<1> QED BY <1>1, <1>3, <1>5 DEF NextIndex

-----------------------------------------------------------------------------
(* The invariant.                                                           *)

(* The kernel process is in the list and runnable, so the loop ends.        *)
LEMMA KernelRuns == IInv => RunnableExists
BY DEF IInv, KernelReady, ListHoldsLive, RunnableExists

LEMMA InitInvariant == Init => IInv
<1> SUFFICES ASSUME Init PROVE IInv
  OBVIOUS
<1> USE SchedulingAssumption DEF Init
<1>1. TypeOK
  <2>1. process_list \in Seq(Pid)
    BY DEF Pid, InitProcess, KProcess
  <2>2. /\ stack \in [Pid -> Frames] /\ DR0 \in Frames /\ cpu \in Frames
        /\ progress \in [Pid -> Points]
    BY DEF Frames, Frame, NoFrame, Points, Pid, InitProcess, KProcess
  <2>3. /\ state \in [Pid -> ProcessState]
        /\ parent \in [Pid -> Pid \cup {NULL}]
    BY DEF ProcessState
  <2>4. /\ curr_PID \in 2 .. MaxPid + 1 /\ tick \in 0 .. Ticks - 1
        /\ currentProcess \in Pid /\ tss \in Pid /\ cr3 \in Pid
    BY DEF Pid, InitProcess, Quantum
  <2>5. panicked \in BOOLEAN /\ killed \subseteq Pid
    OBVIOUS
  <2> QED BY <2>1, <2>2, <2>3, <2>4, <2>5 DEF TypeOK
<1>2. Created = {KProcess, InitProcess} /\ Live = {KProcess, InitProcess}
  BY DEF Created, Live, Pid, KProcess, InitProcess
<1>3. ListHoldsLive
  <2>1. DOMAIN process_list = 1 .. 2
    OBVIOUS
  <2>2. process_list[1] = InitProcess /\ process_list[2] = KProcess
    OBVIOUS
  <2>3. \A i \in 1 .. 2 : i = 1 \/ i = 2
    OBVIOUS
  <2>4. ListElems = {KProcess, InitProcess}
    BY <2>1, <2>2, <2>3 DEF ListElems, Elems
  <2>5. NoDuplicates(process_list)
    BY <2>1, <2>2, <2>3 DEF NoDuplicates, KProcess, InitProcess
  <2> QED BY <1>2, <2>4, <2>5 DEF ListHoldsLive
<1>4. Population
  BY <1>2 DEF Population, Pid, KProcess, InitProcess
<1>5. KernelReady
  BY <1>2 DEF KernelReady, Runnable, Pid, KProcess, InitProcess
<1>6. FramesOwned
  BY <1>2 DEF FramesOwned, OwnFrame, Frame, NoFrame, Pid, KProcess, InitProcess
<1>7. StartIsLive
  BY <1>2 DEF StartIsLive
<1> QED BY <1>1, <1>3, <1>4, <1>5, <1>6, <1>7 DEF IInv

(* Interrupt 32 with frame regs of the current process, whether or not it   *)
(* switches.                                                                *)
LEMMA InterruptInvariant ==
    ASSUME IInv, NEW regs \in Frames, OwnFrame(regs, currentProcess),
           regs.at = "start" => currentProcess \in Live,
           Interrupt32(regs), progress' \in [Pid -> Points]
    PROVE  IInv'
<1> USE SchedulingAssumption
<1>1. /\ process_list \in Seq(Pid) /\ currentProcess \in Created
      /\ Created \subseteq Pid /\ Live \subseteq Created
  BY DEF IInv, TypeOK, Population, Created, Live
<1>2. /\ UNCHANGED <<curr_PID, parent, killed, panicked>>
      /\ tick' \in 0 .. Ticks - 1
  BY DEF Interrupt32, PIT_handler, procVars, NextTick, IInv, TypeOK, Quantum
<1>3. cpu' = IF DR0' # NoFrame THEN DR0' ELSE regs
  BY DEF Interrupt32, TrapReturn
<1>4. CASE /\ UNCHANGED <<currentProcess, stack, tss, cr3, state>>
           /\ DR0' \in {NoFrame, DR0}
           /\ process_list' \in Seq(Pid)
           /\ ListElems' = ListElems /\ NoDuplicates(process_list')
           /\ DR0' # NoFrame => currentProcess \in Live
  <2>1. Created' = Created /\ Live' = Live
    BY <1>2, <1>4 DEF Created, Live
  <2>2. NoFrame \in Frames
    BY DEF NoFrame, Frame, Frames, Pid, KProcess, Points
  <2>3. TypeOK'
    BY <1>2, <1>3, <1>4, <2>2 DEF IInv, TypeOK
  <2>4. ListHoldsLive'
    BY <1>4, <2>1 DEF IInv, ListHoldsLive
  <2>5. Population'
    BY <1>2, <1>4, <2>1 DEF IInv, Population
  <2>6. KernelReady'
    BY <1>2, <1>4, <2>1 DEF IInv, KernelReady, Runnable
  <2>7. FramesOwned'
    BY <1>3, <1>4, <2>1 DEF IInv, FramesOwned, OwnFrame
  <2>8. StartIsLive'
    BY <1>3, <1>4, <2>1 DEF IInv, StartIsLive
  <2> QED BY <2>3, <2>4, <2>5, <2>6, <2>7, <2>8 DEF IInv
<1>5. CASE NextTick % Quantum # 0
  <2>1. DR0' = NoFrame /\ UNCHANGED <<currentProcess, stack, tss, cr3, state, process_list>>
    BY <1>5 DEF Interrupt32, PIT_handler, ctxVars
  <2>2. ListElems' = ListElems /\ NoDuplicates(process_list')
    BY <2>1 DEF ListElems, IInv, ListHoldsLive
  <2> QED BY <1>1, <1>4, <2>1, <2>2
<1>6. CASE NextTick % Quantum = 0
  <2> DEFINE next == process_list[NextIndex]
  <2>1. ContextSwitch(regs)
    BY <1>6 DEF Interrupt32, PIT_handler
  <2>2. NextIndex \in 1 .. Len(process_list) /\ IsNext(NextIndex)
    BY <1>1, KernelRuns, NextExists
  <2>3. next \in Live /\ next \in Pid /\ Runnable(next)
    BY <1>1, <2>2 DEF IsNext, IInv, ListHoldsLive, ListElems, Elems
  <2>4. /\ process_list' \in Seq(Pid)
        /\ ListElems' = ListElems /\ NoDuplicates(process_list')
    BY <1>1, <2>1, <2>2, RotatedList DEF ContextSwitch, ListElems, IInv, ListHoldsLive
  <2>5. CASE currentProcess = next
    <3>1. UNCHANGED <<currentProcess, stack, tss, cr3, state, DR0>>
      BY <2>1, <2>5 DEF ContextSwitch, ctxVars
    <3> QED BY <1>4, <2>3, <2>4, <2>5, <3>1
  <2>6. CASE currentProcess # next
    <3>1. /\ stack' = [stack EXCEPT ![currentProcess] = regs]
          /\ tss' = IF next # KProcess THEN next ELSE tss
          /\ DR0' = stack[next]
          /\ state' = [state EXCEPT ![currentProcess] = "ACTIVE"]
          /\ currentProcess' = next
          /\ cr3' = next
      BY <2>1, <2>6 DEF ContextSwitch, StateAfterSwitch
    <3> HIDE DEF next
    <3>2. OwnFrame(stack[next], next) /\ stack[next] \in Frames
      BY <1>1, <2>3 DEF IInv, FramesOwned, TypeOK
    <3>3. cpu' = stack[next]
      BY <1>3, <3>1, <3>2 DEF OwnFrame, NoFrame, Frame
    <3>4. TypeOK'
      BY <1>1, <1>2, <2>3, <2>4, <3>1, <3>2, <3>3 DEF IInv, TypeOK, ProcessState
    <3>5. Created' = Created /\ Live' = Live
      BY <1>1, <1>2, <3>1 DEF Created, Live, IInv, TypeOK
    <3>6. ListHoldsLive'
      BY <2>4, <3>5 DEF IInv, ListHoldsLive
    <3>7. Population'
      BY <1>1, <1>2, <2>3, <3>1, <3>5 DEF IInv, Population
    <3>8. KernelReady'
      BY <1>1, <1>2, <3>1, <3>5 DEF IInv, KernelReady, Runnable, TypeOK
    <3>9. FramesOwned'
      BY <1>1, <3>1, <3>2, <3>3, <3>5 DEF IInv, FramesOwned, TypeOK, OwnFrame
    <3>10. StartIsLive'
      BY <2>3, <3>1, <3>5 DEF StartIsLive
    <3> QED BY <3>4, <3>6, <3>7, <3>8, <3>9, <3>10 DEF IInv
  <2> QED BY <2>5, <2>6
<1> QED BY <1>5, <1>6

LEMMA TimerInterruptInvariant == IInv /\ TimerInterrupt => IInv'
<1> SUFFICES ASSUME IInv, TimerInterrupt PROVE IInv'
  OBVIOUS
<1>1. /\ cpu \in Frames /\ OwnFrame(cpu, currentProcess)
      /\ cpu.at = "start" => currentProcess \in Live
      /\ Interrupt32(cpu) /\ progress' \in [Pid -> Points]
  BY DEF IInv, TypeOK, FramesOwned, StartIsLive, TimerInterrupt
<1> QED BY <1>1, InterruptInvariant

LEMMA ForcedSwitchInvariant == IInv /\ ForcedSwitch => IInv'
<1> SUFFICES ASSUME IInv, ForcedSwitch PROVE IInv'
  OBVIOUS
<1> DEFINE at == AfterForce[cpu.at]
           regs == Frame(cpu.owner, at)
<1>1. cpu.owner = currentProcess /\ currentProcess \in Pid
  BY DEF IInv, TypeOK, FramesOwned, OwnFrame
<1>2. cpu.at \in {"force", "block"} /\ at \in {"resumed", "unblocked"}
  BY DEF ForcedSwitch, AfterForce
<1>3. currentProcess # KProcess
  BY <1>2 DEF IInv, FramesOwned, OwnFrame
<1>4. regs.owner = currentProcess /\ regs.at = at
  BY <1>1 DEF Frame
<1>5. OwnFrame(regs, currentProcess)
  BY <1>2, <1>3, <1>4 DEF OwnFrame
<1>6. at \in Points /\ regs \in Frames
  BY <1>1, <1>2 DEF Frame, Frames, Points
<1>7. progress' \in [Pid -> Points]
  BY <1>6 DEF ForcedSwitch, IInv, TypeOK
<1>8. Interrupt32(regs)
  BY DEF ForcedSwitch
<1> HIDE DEF regs
<1> QED BY <1>2, <1>4, <1>5, <1>6, <1>7, <1>8, InterruptInvariant

(* System calls keep the current process and its saved frames.  What remains*)
(* to show of one that stays at, or goes to, a point of user programs.      *)
LEMMA CallInvariant ==
    ASSUME IInv, TypeOK', UNCHANGED <<currentProcess, DR0>>,
           ListHoldsLive', Population', KernelReady',
           currentProcess # KProcess,
           cpu'.owner = currentProcess,
           cpu'.at \notin {"none", "start", "halt", "loop"},
           \A p \in Created' : OwnFrame(stack'[p], p)
    PROVE  IInv'
<1>1. FramesOwned'
  BY DEF IInv, FramesOwned, OwnFrame
<1>2. StartIsLive'
  BY DEF StartIsLive
<1> QED BY <1>1, <1>2 DEF IInv

(* User programs and their system calls never run in the kernel process.    *)
LEMMA NotKernel ==
    ASSUME IInv, cpu.at \notin {"halt", "loop"}
    PROVE  /\ currentProcess # KProcess /\ currentProcess \in Pid
           /\ currentProcess \in Created /\ cpu.owner = currentProcess
BY DEF IInv, TypeOK, FramesOwned, OwnFrame, Population

LEMMA GotoFrame ==
    ASSUME IInv, NEW at \in Points, Goto(at)
    PROVE  /\ cpu' \in Frames /\ cpu'.owner = cpu.owner /\ cpu'.at = at
           /\ progress' \in [Pid -> Points]
BY DEF IInv, TypeOK, Goto, Frames

LEMMA CreateChildInvariant == IInv /\ CreateChild => IInv'
<1> SUFFICES ASSUME IInv, CreateChild PROVE IInv'
  OBVIOUS
<1> DEFINE c == curr_PID
<1>1. /\ currentProcess # KProcess /\ currentProcess \in Pid
      /\ currentProcess \in Created /\ cpu.owner = currentProcess
  BY NotKernel DEF CreateChild
<1>2. c \in Pid /\ c # KProcess /\ c \notin Created /\ c \notin killed
  BY SchedulingAssumption DEF CreateChild, IInv, TypeOK, Population, Pid, KProcess
<1>3. Created' = Created \cup {c}
  BY <1>2 DEF CreateChild, Created, IInv, TypeOK
<1>4. Live' = Live \cup {c}
  BY <1>2, <1>3 DEF Live, CreateChild
<1>5. TypeOK'
  <2>1. Frame(c, "start") \in Frames
    BY <1>2 DEF Frame, Frames, Points
  <2>2. process_list' \in Seq(Pid)
    BY <1>2, AppendedList DEF CreateChild, IInv, TypeOK
  <2>3. curr_PID' \in 2 .. MaxPid + 1
    BY SchedulingAssumption DEF CreateChild, IInv, TypeOK
  <2>4. /\ state' \in [Pid -> ProcessState]
        /\ parent' \in [Pid -> Pid \cup {NULL}]
        /\ progress' \in [Pid -> Points]
        /\ stack' \in [Pid -> Frames]
    BY <1>1, <1>2, <2>1 DEF CreateChild, IInv, TypeOK, ProcessState, Points
  <2> QED BY <2>2, <2>3, <2>4 DEF CreateChild, IInv, TypeOK
<1>6. ListHoldsLive'
  <2>1. process_list \in Seq(Pid) /\ c \notin Elems(process_list)
    BY <1>2 DEF IInv, TypeOK, ListHoldsLive, ListElems, Live
  <2>2. /\ Elems(process_list') = Elems(process_list) \cup {c}
        /\ NoDuplicates(process_list')
    BY <1>2, <2>1, AppendedList DEF CreateChild, IInv, ListHoldsLive
  <2> QED BY <1>4, <2>2 DEF IInv, ListHoldsLive, ListElems
<1>7. Population'
  <2>1. Created' = 0 .. curr_PID' - 1
    BY <1>2, <1>3, SchedulingAssumption DEF CreateChild, IInv, TypeOK, Population
  <2>2. \A p \in Pid : /\ parent'[p] \in Created' \cup {NULL}
                        /\ parent'[p] # NULL => p \in Created'
    BY <1>1, <1>2, <1>3 DEF CreateChild, IInv, TypeOK, Population
  <2> QED BY <1>3, <2>1, <2>2 DEF CreateChild, IInv, Population
<1>8. KernelReady'
  BY <1>2, <1>4 DEF CreateChild, IInv, TypeOK, KernelReady, Runnable
<1>9. FramesOwned'
  <2>1. OwnFrame(stack'[c], c)
    BY <1>2 DEF CreateChild, IInv, TypeOK, OwnFrame, Frame
  <2>2. \A p \in Created : OwnFrame(stack'[p], p)
    BY <1>2 DEF CreateChild, IInv, TypeOK, FramesOwned, Created
  <2> QED BY <1>3, <2>1, <2>2 DEF CreateChild, IInv, FramesOwned
<1>10. StartIsLive'
  BY <1>4 DEF CreateChild, IInv, StartIsLive
<1> QED BY <1>5, <1>6, <1>7, <1>8, <1>9, <1>10 DEF IInv

LEMMA KillInvariant == ASSUME IInv, NEW q \in Pid, Kill(q) PROVE IInv'
<1>1. /\ currentProcess # KProcess /\ currentProcess \in Pid
      /\ currentProcess \in Created /\ cpu.owner = currentProcess
  BY NotKernel DEF Kill
<1>2. q # KProcess /\ q \in Live /\ q \in Created
  BY <1>1 DEF Kill, Targets, IInv, KernelReady, ListHoldsLive, Live, NULL, Pid, KProcess
<1>3. /\ cpu' \in Frames /\ cpu'.owner = cpu.owner /\ cpu'.at = "force"
      /\ progress' \in [Pid -> Points]
  <2>1. "force" \in Points /\ Goto("force")
    BY DEF Points, Kill
  <2> QED BY <2>1, GotoFrame
<1>4. state' \in [Pid -> ProcessState]
  BY DEF Kill, Release, IInv, TypeOK, ProcessState
<1>5. Created' = Created /\ Live' = Live \ {q}
  BY <1>2 DEF Kill, Release, Created, Live, IInv, TypeOK
<1>6. /\ process_list' \in Seq(Pid)
      /\ Elems(process_list') = Elems(process_list) \ {q}
      /\ NoDuplicates(process_list')
  <2>1. /\ process_list \in Seq(Pid) /\ NoDuplicates(process_list)
        /\ DOMAIN process_list = 1 .. Len(process_list)
    BY DEF IInv, TypeOK, ListHoldsLive
  <2>2. Position(q) \in 1 .. Len(process_list) /\ process_list[Position(q)] = q
    BY <2>1 DEF Kill, ListElems, Elems, Position
  <2> QED BY <2>1, <2>2, WithoutNode DEF Kill
<1>7. TypeOK'
  BY <1>3, <1>4, <1>6 DEF Kill, ctxVars, IInv, TypeOK
<1>8. ListHoldsLive'
  BY <1>5, <1>6 DEF IInv, ListHoldsLive, ListElems
<1>9. Population'
  BY <1>2, <1>5 DEF Kill, ctxVars, IInv, Population
<1>10. KernelReady'
  <2>1. KProcess \in Pid /\ KProcess \in Live /\ state[KProcess] \notin {"KILLED", "BLOCKED"}
    BY DEF IInv, KernelReady, Runnable, Live, Created
  <2>2. state'[KProcess] = state[KProcess]
    BY <1>2, <2>1 DEF Kill, Release
  <2> QED BY <1>2, <1>5, <2>1, <2>2 DEF Kill, IInv, KernelReady, Runnable
<1>11. \A p \in Created' : OwnFrame(stack'[p], p)
  BY <1>5 DEF Kill, ctxVars, IInv, FramesOwned
<1> QED BY <1>1, <1>3, <1>7, <1>8, <1>9, <1>10, <1>11, CallInvariant DEF Kill, ctxVars

LEMMA KillAgainInvariant == ASSUME IInv, NEW q \in Pid, KillAgain(q) PROVE IInv'
<1>1. /\ currentProcess # KProcess /\ currentProcess \in Pid
      /\ currentProcess \in Created /\ cpu.owner = currentProcess
  BY NotKernel DEF KillAgain
<1>2. q # KProcess /\ q \notin Live
  BY <1>1 DEF KillAgain, Targets, IInv, KernelReady, ListHoldsLive, NULL, Pid, KProcess
<1>3. q \in Created
  <2>1. currentProcess # NULL
    BY <1>1 DEF NULL, Pid
  <2> QED BY <1>1, <2>1 DEF KillAgain, Targets, IInv, Population
<1>4. TypeOK'
  BY DEF KillAgain, procVars, ctxVars, IInv, TypeOK, ProcessState
<1>5. Created' = Created /\ Live' = Live
  BY <1>3 DEF KillAgain, procVars, Created, Live, IInv, TypeOK
<1>6. ListHoldsLive'
  BY <1>5 DEF KillAgain, IInv, ListHoldsLive, ListElems
<1>7. Population'
  BY <1>5 DEF KillAgain, procVars, ctxVars, IInv, Population
<1>8. KernelReady'
  BY <1>2, <1>5 DEF KillAgain, procVars, IInv, TypeOK, KernelReady, Runnable, Pid, KProcess
<1>9. FramesOwned' /\ StartIsLive'
  BY <1>5 DEF KillAgain, ctxVars, IInv, FramesOwned, OwnFrame, StartIsLive
<1> QED BY <1>4, <1>6, <1>7, <1>8, <1>9 DEF IInv

(* What is left of a call that changes the state of created processes only, *)
(* not that of the kernel process, and goes to a point of user programs.    *)
LEMMA StateInvariant ==
    ASSUME IInv, UNCHANGED <<procVars, ctxVars, process_list, tick, DR0, panicked>>,
           state' \in [Pid -> ProcessState],
           \A p \in Pid : state'[p] = "NONE" <=> state[p] = "NONE",
           state'[KProcess] = state[KProcess],
           cpu' \in Frames, progress' \in [Pid -> Points],
           OwnFrame(cpu', currentProcess), StartIsLive'
    PROVE  IInv'
<1>1. TypeOK'
  BY DEF procVars, ctxVars, IInv, TypeOK
<1>2. Created' = Created /\ Live' = Live
  BY DEF procVars, Created, Live
<1>3. ListHoldsLive' /\ Population'
  BY <1>2 DEF procVars, ctxVars, IInv, ListHoldsLive, ListElems, Population
<1>4. KernelReady'
  BY <1>2 DEF procVars, IInv, KernelReady, Runnable
<1>5. FramesOwned'
  BY <1>2 DEF ctxVars, IInv, FramesOwned, OwnFrame
<1> QED BY <1>1, <1>3, <1>4, <1>5 DEF IInv

LEMMA MakeForegroundInvariant == IInv /\ MakeForeground => IInv'
<1> SUFFICES ASSUME IInv, MakeForeground PROVE IInv'
  OBVIOUS
<1> DEFINE p == parent[currentProcess]
<1>1. /\ currentProcess # KProcess /\ currentProcess \in Pid
      /\ cpu.owner = currentProcess
  BY NotKernel DEF MakeForeground
<1>2. /\ cpu' \in Frames /\ cpu'.owner = currentProcess /\ cpu'.at = "force"
      /\ progress' \in [Pid -> Points]
  <2>1. "force" \in Points /\ Goto("force")
    BY DEF Points, MakeForeground
  <2> QED BY <1>1, <2>1, GotoFrame
<1>3. CASE p # NULL /\ p > 0
  <2>1. state' = [state EXCEPT ![p] = "BLOCKED"]
    BY <1>3 DEF MakeForeground
  <2>2. p \in Created /\ p \in Pid /\ p # KProcess
    BY <1>1, <1>3 DEF IInv, Population, Created, KProcess
  <2> HIDE DEF p
  <2>3. /\ state' \in [Pid -> ProcessState]
        /\ \A x \in Pid : state'[x] = "NONE" <=> state[x] = "NONE"
        /\ state'[KProcess] = state[KProcess]
    BY <2>1, <2>2 DEF IInv, TypeOK, ProcessState, Created, Pid, KProcess
  <2> QED BY <1>1, <1>2, <2>3, StateInvariant DEF MakeForeground, OwnFrame, StartIsLive
<1>4. CASE ~(p # NULL /\ p > 0)
  <2>1. state' = state /\ state \in [Pid -> ProcessState]
    BY <1>4 DEF MakeForeground, IInv, TypeOK
  <2> QED BY <1>1, <1>2, <2>1, StateInvariant DEF MakeForeground, OwnFrame, StartIsLive
<1> QED BY <1>3, <1>4

(* blockProcess and kb_handler write the state of the current process.      *)
LEMMA OwnState ==
    ASSUME IInv, NEW s \in ProcessState \ {"NONE"},
           currentProcess # KProcess,
           state' = [state EXCEPT ![currentProcess] = s]
    PROVE  /\ state' \in [Pid -> ProcessState]
           /\ \A p \in Pid : state'[p] = "NONE" <=> state[p] = "NONE"
           /\ state'[KProcess] = state[KProcess]
BY DEF IInv, TypeOK, Population, Created, KernelReady, Live

LEMMA BlockProcessInvariant == IInv /\ BlockProcess => IInv'
<1> SUFFICES ASSUME IInv, BlockProcess PROVE IInv'
  OBVIOUS
<1>1. /\ currentProcess # KProcess /\ currentProcess \in Pid
      /\ cpu.owner = currentProcess
  BY NotKernel DEF BlockProcess
<1>2. /\ cpu' \in Frames /\ cpu'.owner = currentProcess /\ cpu'.at = "block"
      /\ progress' \in [Pid -> Points]
  <2>1. "block" \in Points /\ Goto("block")
    BY DEF Points, BlockProcess
  <2> QED BY <1>1, <2>1, GotoFrame
<1>3. "BLOCKED" \in ProcessState \ {"NONE"}
  BY DEF ProcessState
<1> QED BY <1>1, <1>2, <1>3, OwnState, StateInvariant
        DEF BlockProcess, OwnFrame, StartIsLive

LEMMA KeyWakesInvariant == IInv /\ KeyWakes => IInv'
<1> SUFFICES ASSUME IInv, KeyWakes PROVE IInv'
  OBVIOUS
<1>1. "WAIT" \in ProcessState \ {"NONE"}
  BY DEF ProcessState
<1>2. /\ state' \in [Pid -> ProcessState]
      /\ \A p \in Pid : state'[p] = "NONE" <=> state[p] = "NONE"
      /\ state'[KProcess] = state[KProcess]
  BY <1>1, OwnState DEF KeyWakes
<1>3. Live' = Live
  BY <1>2 DEF KeyWakes, procVars, Live, Created
<1>4. StartIsLive' /\ OwnFrame(cpu', currentProcess)
  BY <1>3 DEF KeyWakes, ctxVars, IInv, StartIsLive, FramesOwned
<1> QED BY <1>2, <1>4, StateInvariant DEF KeyWakes, IInv, TypeOK

LEMMA SyscallReturnInvariant == IInv /\ SyscallReturn => IInv'
<1> SUFFICES ASSUME IInv, SyscallReturn PROVE IInv'
  OBVIOUS
<1>1. /\ currentProcess # KProcess /\ currentProcess \in Pid
      /\ cpu.owner = currentProcess
  BY NotKernel DEF SyscallReturn
<1>2. /\ cpu' \in Frames /\ cpu'.owner = currentProcess /\ cpu'.at = "user"
      /\ progress' \in [Pid -> Points]
  <2>1. "user" \in Points /\ Goto("user")
    BY DEF Points, SyscallReturn
  <2> QED BY <1>1, <2>1, GotoFrame
<1> QED BY <1>1, <1>2, StateInvariant DEF SyscallReturn, OwnFrame, StartIsLive, IInv, TypeOK

LEMMA KernelHaltInvariant == IInv /\ KernelHalt => IInv'
<1> SUFFICES ASSUME IInv, KernelHalt PROVE IInv'
  OBVIOUS
<1> DEFINE at == IF cpu.at = "loop" THEN "halt" ELSE "loop"
<1>1. cpu.owner = currentProcess /\ currentProcess = KProcess
  BY DEF KernelHalt, IInv, FramesOwned, OwnFrame
<1>2. /\ cpu' \in Frames /\ cpu'.owner = KProcess /\ cpu'.at = at
      /\ progress' \in [Pid -> Points]
  <2>1. at \in Points /\ Goto(at)
    BY DEF Points, KernelHalt
  <2> HIDE DEF at
  <2> QED BY <1>1, <2>1, GotoFrame
<1> QED BY <1>1, <1>2, StateInvariant DEF KernelHalt, OwnFrame, StartIsLive, IInv, TypeOK

LEMMA NextInvariant == IInv /\ [Next]_vars => IInv'
<1> SUFFICES ASSUME IInv, [Next]_vars PROVE IInv'
  OBVIOUS
<1>1. CASE Next
  BY <1>1, TimerInterruptInvariant, ForcedSwitchInvariant, CreateChildInvariant,
     KillInvariant, KillAgainInvariant, MakeForegroundInvariant,
     BlockProcessInvariant, KeyWakesInvariant, SyscallReturnInvariant,
     KernelHaltInvariant DEF Next
<1>2. CASE UNCHANGED vars
  BY <1>2 DEF vars, IInv, TypeOK, ListHoldsLive, ListElems, Live, Created,
              Population, KernelReady, Runnable, FramesOwned, OwnFrame, StartIsLive
<1> QED BY <1>1, <1>2

(* The invariant holds in every reachable state.                            *)
THEOREM Invariance == Spec => []IInv
<1>1. Init => IInv
  BY InitInvariant
<1>2. IInv /\ [Next]_vars => IInv'
  BY NextInvariant
<1> QED BY <1>1, <1>2, PTL DEF Spec

(* Every variable keeps its type: no identifier, frame or list entry is     *)
(* outside its range.                                                       *)
THEOREM TypeCorrect == Spec => []TypeOK
<1>1. IInv => TypeOK
  BY DEF IInv
<1> QED BY <1>1, Invariance, PTL

(* The run queue holds each live process once, whatever is created, killed  *)
(* and rotated.                                                             *)
THEOREM ListCorrect == Spec => []ListHoldsLive
<1>1. IInv => ListHoldsLive
  BY DEF IInv
<1> QED BY <1>1, Invariance, PTL

(* The switch loop of contextSwitch always terminates.                      *)
THEOREM SwitchTerminates == Spec => []RunnableExists
<1>1. IInv => RunnableExists
  BY KernelRuns
<1> QED BY <1>1, Invariance, PTL
-----------------------------------------------------------------------------
(* What a step never does, and what the saved contexts are.                *)

(* What interrupt 32 does: either nobody is switched, or the current process*)
(* gives way to another live process that is not blocked.                   *)
Stays ==
    /\ UNCHANGED <<currentProcess, stack, tss, cr3, state>>
    /\ DR0' = NoFrame \/ (DR0' = DR0 /\ NextTick % Quantum = 0)

SwitchesTo(next, regs) ==
    /\ next \in Live /\ next \in Pid /\ Runnable(next)
    /\ next # currentProcess
    /\ stack' = [stack EXCEPT ![currentProcess] = regs]
    /\ tss' = IF next # KProcess THEN next ELSE tss
    /\ DR0' = stack[next]
    /\ state' = [state EXCEPT ![currentProcess] = "ACTIVE"]
    /\ currentProcess' = next
    /\ cr3' = next
    /\ cpu' = stack[next]

LEMMA InterruptCases ==
    ASSUME IInv, NEW regs, Interrupt32(regs)
    PROVE  /\ UNCHANGED procVars /\ tick' = NextTick
           /\ \/ Stays /\ cpu' = IF DR0' # NoFrame THEN DR0' ELSE regs
              \/ \E next \in Live : SwitchesTo(next, regs)
<1>1. UNCHANGED procVars /\ tick' = NextTick
  BY DEF Interrupt32, PIT_handler
<1>2. cpu' = IF DR0' # NoFrame THEN DR0' ELSE regs
  BY DEF Interrupt32, TrapReturn
<1>3. CASE NextTick % Quantum # 0
  BY <1>1, <1>2, <1>3 DEF Interrupt32, PIT_handler, ctxVars, Stays
<1>4. CASE NextTick % Quantum = 0
  <2> DEFINE next == process_list[NextIndex]
  <2>1. ContextSwitch(regs)
    BY <1>4 DEF Interrupt32, PIT_handler
  <2>2. NextIndex \in 1 .. Len(process_list) /\ IsNext(NextIndex)
    BY KernelRuns, NextExists DEF IInv, TypeOK
  <2>3. next \in Live /\ next \in Pid /\ Runnable(next)
    BY <2>2 DEF IsNext, IInv, TypeOK, ListHoldsLive, ListElems, Elems
  <2>4. CASE currentProcess = next
    BY <1>1, <1>2, <1>4, <2>1, <2>4 DEF ContextSwitch, ctxVars, Stays
  <2>5. CASE currentProcess # next
    <3>1. /\ stack' = [stack EXCEPT ![currentProcess] = regs]
          /\ tss' = IF next # KProcess THEN next ELSE tss
          /\ DR0' = stack[next]
          /\ state' = [state EXCEPT ![currentProcess] = "ACTIVE"]
          /\ currentProcess' = next
          /\ cr3' = next
      BY <2>1, <2>5 DEF ContextSwitch, StateAfterSwitch
    <3> HIDE DEF next
    <3>2. stack[next] # NoFrame
      BY <2>3 DEF IInv, FramesOwned, OwnFrame, Live, NoFrame, Frame
    <3>3. SwitchesTo(next, regs)
      BY <1>2, <2>3, <2>5, <3>1, <3>2 DEF SwitchesTo
    <3> QED BY <1>1, <2>3, <3>3
  <2> QED BY <2>4, <2>5
<1> QED BY <1>3, <1>4

(* Every step other than interrupt 32 leaves the current process in place.  *)
LEMMA StepCases ==
    ASSUME IInv, Next
    PROVE  \/ \E regs : Interrupt32(regs)
           \/ UNCHANGED <<currentProcess, tss, cr3>>
<1>1. CASE TimerInterrupt
  BY <1>1 DEF TimerInterrupt
<1>2. CASE ForcedSwitch
  BY <1>2 DEF ForcedSwitch
<1>3. CASE ~TimerInterrupt /\ ~ForcedSwitch
  BY <1>3 DEF Next, KernelHalt, CreateChild, Kill, KillAgain, MakeForeground,
              BlockProcess, KeyWakes, SyscallReturn, ctxVars
<1> QED BY <1>1, <1>2, <1>3

-----------------------------------------------------------------------------
(* TSS and page directory are always those of the current process.          *)
THEOREM ContextIsCoherent == Spec => []ContextCoherent
<1>1. Init => ContextCoherent
  BY DEF Init, ContextCoherent
<1>2. IInv /\ ContextCoherent /\ [Next]_vars => ContextCoherent'
  <2> SUFFICES ASSUME IInv, ContextCoherent, [Next]_vars PROVE ContextCoherent'
    OBVIOUS
  <2>1. CASE UNCHANGED <<currentProcess, tss, cr3>>
    BY <2>1 DEF ContextCoherent
  <2>2. ASSUME NEW regs, Interrupt32(regs) PROVE ContextCoherent'
    BY <2>2, InterruptCases DEF Stays, SwitchesTo, ContextCoherent
  <2> QED BY <2>1, <2>2, StepCases DEF vars
<1> QED BY <1>1, <1>2, Invariance, PTL DEF Spec

(* No killed process ever gets the CPU back.                                *)
THEOREM NoKilledProcessResumes == Spec => NoResurrection
<1> DEFINE A == \A p \in killed : currentProcess # p => currentProcess' # p
<1>1. IInv /\ [Next]_vars => [A]_vars
  <2> SUFFICES ASSUME IInv, Next PROVE A
    OBVIOUS
  <2>1. CASE UNCHANGED <<currentProcess, tss, cr3>>
    BY <2>1
  <2>2. ASSUME NEW regs, Interrupt32(regs) PROVE A
    BY <2>2, InterruptCases DEF Stays, SwitchesTo, Live
  <2> QED BY <2>1, <2>2, StepCases
<1> QED BY <1>1, Invariance, PTL DEF Spec, NoResurrection

(* A blocked parent gets no CPU and waits for a death, its own or a child's.*)
THEOREM BlockedParentsWait == Spec => BlockedWaits
<1> DEFINE Waits(p) == /\ currentProcess' # p
                       /\ \/ state'[p] = "BLOCKED"
                          \/ \E q \in killed' \ killed : p \in {q, parent[q]}
           A == \A p \in Live : state[p] = "BLOCKED" /\ p # currentProcess => Waits(p)
<1>1. IInv /\ [Next]_vars => [A]_vars
  <2> SUFFICES ASSUME IInv, Next,
                      NEW p \in Live, state[p] = "BLOCKED", p # currentProcess
               PROVE  Waits(p)
    OBVIOUS
  <2>1. p \in Pid /\ state \in [Pid -> ProcessState] /\ currentProcess \in Pid
    BY DEF Live, Created, IInv, TypeOK
  <2>2. ASSUME NEW regs, Interrupt32(regs) PROVE Waits(p)
    BY <2>1, <2>2, InterruptCases DEF Stays, SwitchesTo, Runnable
  <2>3. CASE TimerInterrupt \/ ForcedSwitch
    BY <2>2, <2>3 DEF TimerInterrupt, ForcedSwitch
  <2>4. CASE \E q \in Pid : Kill(q)
    <3>1. PICK q \in Pid : Kill(q)
      BY <2>4
    <3>2. q \in killed' \ killed
      BY <3>1 DEF Kill, IInv, ListHoldsLive, Live
    <3>3. currentProcess' # p
      BY <3>1 DEF Kill, ctxVars
    <3>4. CASE p \in {q, parent[q]}
      BY <3>2, <3>3, <3>4
    <3>5. CASE p \notin {q, parent[q]}
      <4>1. state'[p] = state[p]
        BY <2>1, <3>1, <3>5 DEF Kill, Release
      <4> QED BY <3>3, <4>1
    <3> QED BY <3>4, <3>5
  <2>5. CASE \E q \in Pid : KillAgain(q)
    BY <2>1, <2>5 DEF KillAgain, ctxVars, IInv, ListHoldsLive
  <2>6. CASE CreateChild
    <3>1. p # curr_PID
      BY <2>1, SchedulingAssumption DEF Live, IInv, TypeOK, Population
    <3>2. state'[p] = state[p] /\ currentProcess' = currentProcess
      BY <2>1, <2>6, <3>1 DEF CreateChild
    <3> QED BY <3>2
  <2>7. CASE MakeForeground
    BY <2>1, <2>7 DEF MakeForeground, ctxVars
  <2>8. CASE BlockProcess \/ KeyWakes
    BY <2>1, <2>8 DEF BlockProcess, KeyWakes, ctxVars
  <2>9. CASE SyscallReturn \/ KernelHalt
    BY <2>1, <2>9 DEF SyscallReturn, KernelHalt, ctxVars
  <2> QED BY <2>3, <2>4, <2>5, <2>6, <2>7, <2>8, <2>9 DEF Next
<1> QED BY <1>1, Invariance, PTL DEF Spec, BlockedWaits

-----------------------------------------------------------------------------
(* A blocked parent has a living child, when programs call makeForeground   *)
(* only when they start.                                                    *)
THEOREM NoLostWakeup == Spec => []BlockedHasWaker
<1> DEFINE Waker(p) == \E q \in Live : parent[q] = p
<1>1. Init => BlockedHasWaker
  BY DEF Init, BlockedHasWaker, Live, Created
<1>2. IInv /\ BlockedHasWaker /\ [Next]_vars => BlockedHasWaker'
  <2> SUFFICES ASSUME IInv, BlockedHasWaker, [Next]_vars, ForegroundOnce,
                      NEW p \in Live', p # currentProcess', state'[p] = "BLOCKED"
               PROVE  \E q \in Live' : parent'[q] = p
    BY DEF BlockedHasWaker
  <2>1. /\ state \in [Pid -> ProcessState] /\ currentProcess \in Pid
        /\ parent \in [Pid -> Pid \cup {NULL}] /\ currentProcess \in Created
    BY DEF IInv, TypeOK, Population
  <2>2. ASSUME state'[p] = state[p], p # currentProcess, UNCHANGED <<killed, parent>>,
               Created' = Created
        PROVE  \E q \in Live' : parent'[q] = p
    BY <2>2 DEF BlockedHasWaker, Live
  <2>3. p \in Pid
    BY DEF Live, Created
  <2>4. ASSUME NEW regs, Interrupt32(regs) PROVE \E q \in Live' : parent'[q] = p
    <3>1. CASE Stays
      BY <2>2, <2>4, <3>1, InterruptCases DEF Stays, Created, procVars
    <3>2. ASSUME NEW next \in Live, SwitchesTo(next, regs)
          PROVE  \E q \in Live' : parent'[q] = p
      <4>1. p # currentProcess /\ state'[p] = state[p]
        BY <2>1, <2>3, <3>2 DEF SwitchesTo
      <4>2. Created' = Created
        BY <2>1, <3>2 DEF SwitchesTo, Created
      <4> QED BY <2>2, <2>4, <4>1, <4>2, InterruptCases DEF procVars
    <3> QED BY <2>4, <3>1, <3>2, InterruptCases
  <2>5. CASE TimerInterrupt \/ ForcedSwitch
    BY <2>4, <2>5 DEF TimerInterrupt, ForcedSwitch
  <2>6. ASSUME NEW q \in Pid, Kill(q) PROVE \E x \in Live' : parent'[x] = p
    <3>1. /\ p # q /\ p \in Live /\ p # currentProcess
          /\ parent' = parent /\ killed' = killed \cup {q}
      <4>1. p # currentProcess /\ p # q
        BY <2>6 DEF Kill, ctxVars, Live
      <4>2. p \in Created
        BY <2>1, <2>3, <2>6, <4>1 DEF Kill, Release, Created
      <4> QED BY <2>6, <4>1, <4>2 DEF Kill, Live
    <3>2. ~(p = parent[q] /\ state[p] = "BLOCKED") /\ state'[p] = state[p]
      BY <2>1, <2>3, <2>6, <3>1 DEF Kill, Release
    <3>3. PICK x \in Live : parent[x] = p
      BY <3>1, <3>2 DEF BlockedHasWaker
    <3>4. x # q
      BY <3>2, <3>3
    <3>5. x \in Live'
      <4>1. x \in Created'
        BY <2>1, <2>6, <3>4, <3>3 DEF Kill, Release, Created, Live
      <4> QED BY <3>1, <3>3, <3>4, <4>1 DEF Live
    <3> QED BY <3>1, <3>3, <3>5
  <2>7. ASSUME NEW q \in Pid, KillAgain(q) PROVE \E x \in Live' : parent'[x] = p
    <3>1. q \in Created /\ q # p
      <4>1. state'[q] = "KILLED"
        BY <2>1, <2>7 DEF KillAgain
      <4>2. q \in Created
        <5>1. currentProcess # NULL
          BY <2>1 DEF NULL, Pid
        <5> QED BY <2>1, <2>7, <5>1 DEF KillAgain, Targets, IInv, Population
      <4> QED BY <4>1, <4>2
    <3>2. state'[p] = state[p] /\ Created' = Created
      BY <2>1, <2>3, <2>7, <3>1 DEF KillAgain, Created
    <3> QED BY <2>2, <2>7, <3>2 DEF KillAgain, procVars, ctxVars
  <2>8. CASE CreateChild
    <3>1. curr_PID \notin Created /\ curr_PID \in Pid
      BY <2>8, SchedulingAssumption DEF CreateChild, IInv, TypeOK, Population, Pid
    <3>2. p # curr_PID
      BY <2>1, <2>3, <2>8, <3>1 DEF CreateChild
    <3>3. /\ Created \subseteq Created' /\ killed' = killed
          /\ state'[p] = state[p] /\ p # currentProcess /\ p \in Live
          /\ \A q \in Created : parent'[q] = parent[q]
      BY <2>1, <2>3, <2>8, <3>1, <3>2 DEF CreateChild, Created, Live
    <3> QED BY <3>3 DEF BlockedHasWaker, Live
  <2>9. CASE MakeForeground
    <3> DEFINE f == parent[currentProcess]
    <3>1. cpu.at = "start"
      BY <2>9 DEF MakeForeground
    <3>2. currentProcess \in Live
      BY <3>1 DEF IInv, StartIsLive
    <3>3. UNCHANGED <<killed, parent, currentProcess>>
      BY <2>9 DEF MakeForeground, procVars, ctxVars
    <3>4. CASE f # NULL /\ f > 0
      <4>1. f \in Created
        BY <2>1, <3>4 DEF IInv, Population
      <4>2. state' = [state EXCEPT ![f] = "BLOCKED"]
        BY <2>9, <3>4 DEF MakeForeground
      <4> HIDE DEF f
      <4>3. Created' = Created
        BY <2>1, <4>1, <4>2 DEF Created
      <4>4. CASE p = f
        BY <3>2, <3>3, <4>3, <4>4 DEF f, Live
      <4>5. CASE p # f
        <5>1. state'[p] = state[p]
          BY <2>1, <2>3, <4>2, <4>5
        <5> QED BY <2>2, <3>3, <4>3, <5>1
      <4> QED BY <4>4, <4>5
    <3>5. CASE ~(f # NULL /\ f > 0)
      <4>1. state' = state
        BY <2>9, <3>5 DEF MakeForeground
      <4> QED BY <2>2, <3>3, <4>1 DEF Created
    <3> QED BY <3>4, <3>5
  <2>10. CASE BlockProcess \/ KeyWakes
    <3>1. /\ UNCHANGED <<killed, parent, currentProcess>>
          /\ \E s \in ProcessState \ {"NONE"} : state' = [state EXCEPT ![currentProcess] = s]
      BY <2>10 DEF BlockProcess, KeyWakes, procVars, ctxVars, ProcessState
    <3>2. state'[p] = state[p] /\ Created' = Created
      BY <2>1, <2>3, <3>1 DEF Created
    <3> QED BY <2>2, <3>1, <3>2
  <2>11. CASE SyscallReturn \/ KernelHalt \/ UNCHANGED vars
    BY <2>2, <2>11 DEF SyscallReturn, KernelHalt, vars, procVars, ctxVars, Created
  <2> QED BY <2>5, <2>6, <2>7, <2>8, <2>9, <2>10, <2>11 DEF Next
<1> QED BY <1>1, <1>2, Invariance, PTL DEF Spec

-----------------------------------------------------------------------------
(* Contexts are kept as long as the tick counter does not wrap: with Ticks a*)
(* multiple of the quantum it stands for an unbounded counter.  Then the    *)
(* tick before one that calls the scheduler has cleared DR0.                *)
NoWrap == Ticks % Quantum = 0

DR0Cleared == tick % Quantum # 0 => DR0 = NoFrame

ContextInv == ContextKept /\ DR0Cleared

LEMMA TickCleared ==
    ASSUME IInv, NoWrap, NextTick % Quantum = 0
    PROVE  tick % Quantum # 0
BY SchedulingAssumption DEF IInv, TypeOK, NoWrap, NextTick, Quantum

LEMMA InterruptKeepsContext ==
    ASSUME IInv, ContextInv, NoWrap, NEW at \in Points,
           Interrupt32(Frame(currentProcess, at)),
           progress' = [progress EXCEPT ![currentProcess] = at]
    PROVE  ContextInv'
<1> DEFINE regs == Frame(currentProcess, at)
<1>1. /\ progress \in [Pid -> Points] /\ stack \in [Pid -> Frames]
      /\ state \in [Pid -> ProcessState]
      /\ currentProcess \in Pid /\ currentProcess \in Created
      /\ Live \subseteq Created /\ Created \subseteq Pid
  BY DEF IInv, TypeOK, Population, Live, Created
<1>2. UNCHANGED procVars /\ tick' = NextTick
  BY InterruptCases
<1>3. CASE Stays
  <2>1. DR0' = NoFrame
    BY <1>3, TickCleared DEF Stays, ContextInv, DR0Cleared
  <2>2. cpu' = regs
    BY <2>1 DEF Interrupt32, TrapReturn
  <2>3. Live' = Live
    BY <1>2, <1>3 DEF Stays, Live, Created, procVars
  <2> QED BY <1>1, <1>3, <2>1, <2>2, <2>3
          DEF Stays, ContextInv, ContextKept, DR0Cleared
<1>4. ASSUME NEW next \in Live, SwitchesTo(next, regs)
      PROVE  ContextInv'
  <2>1. Live' = Live
    BY <1>1, <1>2, <1>4 DEF SwitchesTo, Live, Created, procVars
  <2>2. cpu' = Frame(next, progress[next]) /\ next # currentProcess /\ next \in Pid
    BY <1>4 DEF SwitchesTo, ContextInv, ContextKept
  <2>3. cpu' = Frame(currentProcess', progress'[currentProcess'])
    BY <1>1, <1>4, <2>2 DEF SwitchesTo
  <2>4. ASSUME NEW p \in Live, p # next PROVE stack'[p] = Frame(p, progress'[p])
    <3>1. CASE p = currentProcess
      BY <1>1, <1>4, <3>1 DEF SwitchesTo
    <3>2. CASE p # currentProcess
      BY <1>1, <1>4, <2>4, <3>2 DEF SwitchesTo, ContextInv, ContextKept
    <3> QED BY <3>1, <3>2
  <2>5. tick' % Quantum = 0
    <3>1. DR0' # NoFrame
      BY <1>4 DEF SwitchesTo, IInv, FramesOwned, OwnFrame, Live, NoFrame, Frame
    <3> QED BY <1>2, <3>1 DEF Interrupt32, PIT_handler
  <2> QED BY <1>4, <2>1, <2>3, <2>4, <2>5 DEF SwitchesTo, ContextInv, ContextKept, DR0Cleared
<1> QED BY <1>2, <1>3, <1>4, InterruptCases

(* A step of the running process to another point of its program.           *)
LEMMA GotoKeepsContext ==
    ASSUME IInv, ContextInv, NEW at \in Points, Goto(at),
           UNCHANGED <<currentProcess, stack, DR0, tick>>, Live' \subseteq Live
    PROVE  ContextInv'
<1>1. /\ progress \in [Pid -> Points] /\ cpu = Frame(currentProcess, progress[currentProcess])
      /\ currentProcess \in Pid /\ Live \subseteq Pid
  BY DEF IInv, TypeOK, ContextInv, ContextKept, Live, Created
<1>2. cpu' = Frame(currentProcess, at) /\ progress'[currentProcess] = at
  BY <1>1 DEF Goto, Frame
<1>3. \A p \in Live \ {currentProcess} : progress'[p] = progress[p]
  BY <1>1 DEF Goto, Frame
<1> QED BY <1>2, <1>3 DEF ContextInv, ContextKept, DR0Cleared

LEMMA ContextStep ==
    ASSUME IInv, ContextInv, NoWrap, [Next]_vars
    PROVE  ContextInv'
<1>1. /\ progress \in [Pid -> Points] /\ currentProcess \in Pid
      /\ cpu = Frame(currentProcess, progress[currentProcess])
      /\ cpu.owner = currentProcess /\ cpu.at = progress[currentProcess]
      /\ state \in [Pid -> ProcessState] /\ stack \in [Pid -> Frames]
  BY DEF IInv, TypeOK, ContextInv, ContextKept, Frame
<1>2. CASE TimerInterrupt
  BY <1>1, <1>2, InterruptKeepsContext DEF TimerInterrupt
<1>3. CASE ForcedSwitch
  <2>1. AfterForce[cpu.at] \in Points
    BY <1>3 DEF ForcedSwitch, AfterForce, Points
  <2> QED BY <1>1, <1>3, <2>1, InterruptKeepsContext DEF ForcedSwitch
<1>4. CASE CreateChild
  <2>1. curr_PID \in Pid /\ curr_PID \notin Created /\ currentProcess \in Created
    BY <1>4, SchedulingAssumption DEF CreateChild, IInv, TypeOK, Population, Pid
  <2>2. Live' \subseteq Live \cup {curr_PID} /\ Live \subseteq Created /\ Created \subseteq Pid
    BY <1>1, <1>4, <2>1 DEF CreateChild, Live, Created
  <2>3. /\ progress'[curr_PID] = "start"
        /\ stack'[curr_PID] = Frame(curr_PID, "start")
        /\ UNCHANGED <<currentProcess, cpu, tick, DR0>>
        /\ \A p \in Created : progress'[p] = progress[p] /\ stack'[p] = stack[p]
    BY <1>1, <1>4, <2>1, <2>2 DEF CreateChild
  <2> QED BY <2>1, <2>2, <2>3 DEF ContextInv, ContextKept, DR0Cleared
<1>5. ASSUME NEW q \in Pid, Kill(q) PROVE ContextInv'
  <2>1. "force" \in Points
    BY DEF Points
  <2>2. Live' \subseteq Live
    BY <1>1, <1>5 DEF Kill, Release, Live, Created, IInv, ListHoldsLive
  <2> QED BY <1>5, <2>1, <2>2, GotoKeepsContext DEF Kill, ctxVars
<1>6. ASSUME NEW q \in Pid, KillAgain(q) PROVE ContextInv'
  <2>1. Live' = Live
    BY <1>1, <1>6, KillAgainInvariant DEF KillAgain, procVars, IInv, ListHoldsLive, ListElems
  <2> QED BY <1>6, <2>1 DEF KillAgain, ctxVars, ContextInv, ContextKept, DR0Cleared
<1>7. CASE MakeForeground \/ BlockProcess \/ SyscallReturn \/ KernelHalt
  <2>1. IInv' /\ process_list' = process_list
    BY <1>7, MakeForegroundInvariant, BlockProcessInvariant, SyscallReturnInvariant,
       KernelHaltInvariant DEF MakeForeground, BlockProcess, SyscallReturn, KernelHalt
  <2>2. Live' = Live
    BY <2>1 DEF IInv, ListHoldsLive, ListElems
  <2>3. \E at \in Points : Goto(at)
    BY <1>7 DEF MakeForeground, BlockProcess, SyscallReturn, KernelHalt, Points
  <2>4. UNCHANGED <<currentProcess, stack, DR0, tick>>
    BY <1>7 DEF MakeForeground, BlockProcess, SyscallReturn, KernelHalt, ctxVars
  <2> QED BY <2>2, <2>3, <2>4, GotoKeepsContext
<1>8. CASE KeyWakes
  <2>1. Live' = Live
    BY <1>8, KeyWakesInvariant DEF KeyWakes, IInv, ListHoldsLive, ListElems
  <2> QED BY <1>8, <2>1 DEF KeyWakes, ctxVars, ContextInv, ContextKept, DR0Cleared
<1>9. CASE UNCHANGED vars
  BY <1>9 DEF vars, ContextInv, ContextKept, DR0Cleared, Live, Created
<1> QED BY <1>2, <1>3, <1>4, <1>5, <1>6, <1>7, <1>8, <1>9 DEF Next

LEMMA ContextStarts ==
    ASSUME Init
    PROVE  ContextInv
<1>1. KProcess \in Pid /\ InitProcess \in Pid /\ KProcess # InitProcess
  BY SchedulingAssumption DEF Pid, KProcess, InitProcess
<1>2. Live \subseteq {KProcess, InitProcess}
  BY DEF Init, Live, Created
<1>3. cpu = Frame(currentProcess, progress[currentProcess])
  BY <1>1 DEF Init
<1>4. stack[KProcess] = Frame(KProcess, progress[KProcess])
  BY <1>1 DEF Init
<1>5. currentProcess = InitProcess /\ DR0 = NoFrame
  BY DEF Init
<1> QED BY <1>2, <1>3, <1>4, <1>5 DEF ContextInv, ContextKept, DR0Cleared

(* Every process continues where it was interrupted, before tick wraps.     *)
THEOREM ContextsAreKept == NoWrap => (Spec => []ContextKept)
<1> SUFFICES ASSUME NoWrap PROVE Spec => []ContextKept
  OBVIOUS
<1>1. Init => ContextInv
  BY ContextStarts
<1>2. IInv /\ ContextInv /\ [Next]_vars => ContextInv'
  BY ContextStep
<1>3. ContextInv => ContextKept
  BY DEF ContextInv
<1> QED BY <1>1, <1>2, <1>3, Invariance, PTL DEF Spec
-----------------------------------------------------------------------------
(***************************************************************************)
(* The keyboard driver, for every number of processes, size of the ring    *)
(* and number of keys.  First, it does to the scheduler only what          *)
(* Scheduling allows: what is proved there holds with the driver in place. *)
(* Second, while one program reads at a time and no more keys are typed    *)
(* than the ring holds, the keys arrive as they were typed, interrupted as *)
(* the reader may be between its loads and stores.  Its progress is a      *)
(* Stage between two calls; the invariant RingInv says what w, r, the count*)
(* of keys and the slots of the ring are at each stage.                    *)
(***************************************************************************)

(* getInput never notes the kernel process, which calls nothing.           *)
KInv == IInv /\ ContextInv /\ blocking # KProcess

InLoop == {"unblocked"} \cup ReadPoints

(* A step of getInput's loop: on to another point, or to wait again.       *)
LoopStep(to) ==
    /\ ~panicked /\ cpu.at \in InLoop
    /\ Goto(to)
    /\ \/ to \in ReadPoints \cup {"user"} /\ UNCHANGED state
       \/ to = "block" /\ state' = [state EXCEPT ![currentProcess] = "BLOCKED"]
    /\ UNCHANGED schedState
-----------------------------------------------------------------------------
LEMMA ReadPointsAreFurther ==
    /\ ReadPoints \subseteq Points /\ InLoop \subseteq Points
    /\ {"user", "block"} \subseteq Points
    /\ {"none", "start", "halt", "loop"} \cap (InLoop \cup {"user", "block"}) = {}
BY KeyboardAssumption DEF Points, ReadPoints, InLoop

(* Each step is one of Scheduling, or of the ring only, or inside the loop.*)
LEMMA StepOfKeyboard ==
    ASSUME KInv, KNext
    PROVE  /\ Next \/ UNCHANGED vars \/ \E to \in ReadPoints \cup {"user", "block"} : LoopStep(to)
           /\ blocking' # KProcess
<1> USE DEF schedState, vars, procVars, ctxVars
<1>0. NULL # KProcess
  BY DEF NULL, KProcess
<1>1. CASE Others
  BY <1>1 DEF Others, Next, KInv, kbVars
<1>2. CASE Typing
  <2>1. PICK key : kb_handler(key)
    BY <1>2 DEF Typing
  <2>2. CASE Released
    <3>1. KeyWakes
      BY <2>1, <2>2 DEF kb_handler, Released, KeyWakes, KInv
    <3> QED
      BY <1>0, <2>1, <2>2, <3>1 DEF Next, kb_handler
  <2>3. CASE ~Released
    BY <2>1, <2>3 DEF kb_handler, KInv
  <2> QED
    BY <2>2, <2>3
<1>3. CASE GetInputCall
  <2>1. CASE At(r) = NUL
    <3>1. BlockProcess
      BY <1>3, <2>1 DEF GetInputCall, BlockProcess, me
    <3> QED
      BY <1>3, <3>1 DEF Next, GetInputCall, KInv
  <2>2. CASE At(r) # NUL
    BY <1>3, <2>2 DEF GetInputCall, KInv
  <2> QED
    BY <2>1, <2>2
<1>4. CASE GetInputWaits
  BY <1>4 DEF GetInputWaits, Next, KInv, kbVars
<1>5. CASE GetInputStep
  <2>1. CASE NoteBlocking
    <3>1. LoopStep("check")
      BY <2>1 DEF NoteBlocking, Step, LoopStep, InLoop, ReadPoints
    <3>2. currentProcess # KProcess
      BY <2>1, NotKernel DEF NoteBlocking, Step, KInv
    <3> QED
      BY <2>1, <3>1, <3>2 DEF NoteBlocking, me, ReadPoints
  <2>2. CASE CheckEmpty \/ ReturnNul
    <3>1. LoopStep("block")
      BY <2>2 DEF CheckEmpty, ReturnNul, WaitAgain, LoopStep, InLoop, ReadPoints, me
    <3> QED
      BY <2>2, <3>1 DEF CheckEmpty, ReturnNul, WaitAgain, kbVars, KInv
  <2>3. CASE ReturnKey
    <3>1. LoopStep("user")
      BY <2>3 DEF ReturnKey, Step, LoopStep, InLoop, ReadPoints
    <3> QED
      BY <2>3, <3>1 DEF ReturnKey, KInv
  <2>4. CASE CheckFilled \/ Fetch \/ LoadR \/ StoreR \/ LoadCount \/ StoreCount \/ Wrap
    <3> DEFINE stays(from, to) == Step(from, to) => LoopStep(to)
    <3>1. \A from, to \in ReadPoints : stays(from, to)
      BY DEF Step, LoopStep, InLoop
    <3>2. \E to \in ReadPoints : LoopStep(to)
      BY <2>4, <3>1
         DEF CheckFilled, Fetch, LoadR, StoreR, LoadCount, StoreCount, Wrap, ReadPoints
    <3>3. UNCHANGED blocking
      BY <2>4 DEF CheckFilled, Fetch, LoadR, StoreR, LoadCount, StoreCount, Wrap, kbVars
    <3> QED
      BY <3>2, <3>3 DEF KInv
  <2> QED
    BY <1>5, <2>1, <2>2, <2>3, <2>4 DEF GetInputStep
<1> QED
  BY <1>1, <1>2, <1>3, <1>4, <1>5 DEF KNext

(* The points inside the loop are points of a user program like any other. *)
LEMMA LoopKeeps ==
    ASSUME KInv, NEW to \in ReadPoints \cup {"user", "block"}, LoopStep(to)
    PROVE  IInv' /\ ContextInv'
<1> USE DEF schedState
<1>1. /\ to \in Points /\ to \notin {"none", "start", "halt", "loop"}
      /\ cpu.at \notin {"halt", "loop"}
  BY ReadPointsAreFurther DEF LoopStep, InLoop
<1>2. /\ currentProcess # KProcess /\ currentProcess \in Pid
      /\ cpu.owner = currentProcess
  BY <1>1, NotKernel DEF KInv
<1>3. /\ cpu' \in Frames /\ cpu'.owner = currentProcess /\ cpu'.at = to
      /\ progress' \in [Pid -> Points]
  BY <1>1, <1>2, GotoFrame DEF LoopStep, KInv
<1>4. /\ state' \in [Pid -> ProcessState]
      /\ \A p \in Pid : state'[p] = "NONE" <=> state[p] = "NONE"
      /\ state'[KProcess] = state[KProcess]
  <2>1. CASE UNCHANGED state
    BY <2>1 DEF KInv, IInv, TypeOK
  <2>2. CASE state' = [state EXCEPT ![currentProcess] = "BLOCKED"]
    <3>1. "BLOCKED" \in ProcessState \ {"NONE"}
      BY DEF ProcessState
    <3> QED
      BY <1>2, <2>2, <3>1, OwnState DEF KInv
  <2> QED
    BY <2>1, <2>2 DEF LoopStep
<1>5. OwnFrame(cpu', currentProcess) /\ StartIsLive'
  BY <1>1, <1>2, <1>3 DEF OwnFrame, StartIsLive
<1>6. IInv'
  BY <1>3, <1>4, <1>5, StateInvariant DEF LoopStep, KInv
<1>7. Live' = Live
  BY <1>4 DEF LoopStep, procVars, Live, Created
<1> QED
  BY <1>1, <1>6, <1>7, GotoKeepsContext DEF LoopStep, ctxVars, KInv

LEMMA KeyboardStepKeeps ==
    ASSUME KInv, NoWrap, [KNext]_kvars
    PROVE  KInv'
<1>1. CASE KNext
  <2>1. CASE Next \/ UNCHANGED vars
    BY <1>1, <2>1, StepOfKeyboard, NextInvariant, ContextStep DEF KInv
  <2>2. ASSUME NEW to \in ReadPoints \cup {"user", "block"}, LoopStep(to)
        PROVE  KInv'
    BY <1>1, <2>2, StepOfKeyboard, LoopKeeps DEF KInv
  <2> QED
    BY <1>1, <2>1, <2>2, StepOfKeyboard
<1>2. CASE UNCHANGED kvars
  BY <1>2, NextInvariant, ContextStep DEF kvars, kbVars, KInv
<1> QED
  BY <1>1, <1>2
-----------------------------------------------------------------------------
(* The mapping: a point inside the loop is seen as the one before it.      *)
seenStack == [p \in Pid |-> SeenFrame(stack[p])]
seenProgress == [p \in Pid |-> Seen(progress[p])]

LEMMA SeenFrames ==
    ASSUME NEW f \in Frames
    PROVE  /\ SeenFrame(f).owner = f.owner
           /\ SeenFrame(f).at = Seen(f.at)
           /\ f.at \notin ReadPoints => SeenFrame(f) = f
           /\ SeenFrame(f) = NoFrame <=> f = NoFrame
<1>1. f = [owner |-> f.owner, at |-> f.at]
  BY DEF Frames
<1>2. Seen(f.at) = "none" <=> f.at = "none"
  BY DEF Seen, ReadPoints
<1> QED
  BY <1>1, <1>2 DEF Seen, SeenFrame, Frame, NoFrame

LEMMA SeenGoto ==
    ASSUME IInv, NEW at, Goto(at)
    PROVE  Sched!Goto(Seen(at))
<1>1. cpu \in Frames /\ cpu.owner \in Pid /\ progress \in [Pid -> Points]
  BY DEF IInv, TypeOK, Frames
<1>2. /\ cpu' = [cpu EXCEPT !.at = at]
      /\ progress' = [progress EXCEPT ![cpu.owner] = at]
  BY DEF Goto
<1>3. SeenFrame(cpu') = [SeenFrame(cpu) EXCEPT !.at = Seen(at)]
  BY <1>1, <1>2 DEF SeenFrame, Frame, Frames
<1>4. [p \in Pid |-> Seen(progress'[p])]
        = [[p \in Pid |-> Seen(progress[p])] EXCEPT ![SeenFrame(cpu).owner] = Seen(at)]
  BY <1>1, <1>2 DEF SeenFrame, Frame
<1> QED
  BY <1>3, <1>4 DEF Sched!Goto

LEMMA SeenInterrupt ==
    ASSUME IInv, IInv', NEW regs \in Frames, Interrupt32(regs)
    PROVE  Sched!Interrupt32(SeenFrame(regs))
<1>1. /\ process_list \in Seq(Pid) /\ currentProcess \in Pid
      /\ stack \in [Pid -> Frames] /\ DR0' \in Frames
  BY DEF IInv, TypeOK
<1>2. NextIndex \in 1 .. Len(process_list) /\ process_list[NextIndex] \in Pid
  BY <1>1, KernelRuns, NextExists
<1>3. Sched!NextIndex = NextIndex
  BY DEF NextIndex, IsNext, Runnable, Sched!NextIndex, Sched!IsNext, Sched!Runnable
<1>4. Sched!NextTick = NextTick
  BY DEF NextTick, Sched!NextTick
<1>5. ASSUME ContextSwitch(regs)
      PROVE  Sched!ContextSwitch(SeenFrame(regs))
  <2> DEFINE next == process_list[NextIndex]
  <2>1. process_list' = Sched!Rotated(process_list, NextIndex)
    BY <1>5 DEF ContextSwitch, Rotated, Sched!Rotated
  <2>2. CASE currentProcess = next
    <3>1. UNCHANGED <<currentProcess, stack, tss, cr3, state, DR0>>
      BY <1>5, <2>2 DEF ContextSwitch, ctxVars
    <3> QED
      BY <1>3, <2>1, <2>2, <3>1 DEF Sched!ContextSwitch, Sched!ctxVars
  <2>3. CASE currentProcess # next
    <3>1. /\ stack' = [stack EXCEPT ![currentProcess] = regs]
          /\ tss' = IF next # KProcess THEN next ELSE tss
          /\ DR0' = stack[next]
          /\ state' = [state EXCEPT ![currentProcess] = "ACTIVE"]
          /\ currentProcess' = next
          /\ cr3' = next
      BY <1>5, <2>3 DEF ContextSwitch, StateAfterSwitch
    <3>2. [p \in Pid |-> SeenFrame(stack'[p])]
            = [[p \in Pid |-> SeenFrame(stack[p])] EXCEPT ![currentProcess] = SeenFrame(regs)]
      BY <1>1, <3>1
    <3>3. SeenFrame(DR0') = [p \in Pid |-> SeenFrame(stack[p])][next]
      BY <1>2, <3>1
    <3> QED
      BY <1>3, <2>1, <2>3, <3>1, <3>2, <3>3
         DEF Sched!ContextSwitch, Sched!StateAfterSwitch, KProcess, Sched!KProcess
  <2> QED
    BY <2>2, <2>3
<1>9. SeenFrame(DR0') = NoFrame <=> DR0' = NoFrame
  <2>1. \A f \in Frames : SeenFrame(f) = NoFrame <=> f = NoFrame
    BY SeenFrames
  <2> HIDE DEF NoFrame
  <2> QED
    BY <1>1, <2>1
<1>6. Sched!PIT_handler(SeenFrame(regs))
  <2>1. CASE NextTick % Quantum = 0
    BY <1>4, <1>5, <2>1
       DEF Interrupt32, PIT_handler, Sched!PIT_handler, Quantum, Sched!Quantum
  <2>2. CASE NextTick % Quantum # 0
    <3>1. /\ tick' = NextTick /\ DR0' = NoFrame
          /\ UNCHANGED <<currentProcess, stack, tss, cr3, state, process_list>>
      BY <2>2 DEF Interrupt32, PIT_handler, ctxVars
    <3>2. SeenFrame(DR0') = Sched!NoFrame
      BY <1>9, <3>1 DEF NoFrame, Frame, KProcess, Sched!NoFrame, Sched!Frame, Sched!KProcess
    <3> QED
      BY <1>4, <2>2, <3>1, <3>2
         DEF Sched!PIT_handler, Sched!ctxVars, Quantum, Sched!Quantum
  <2> QED
    BY <2>1, <2>2
<1>7. Sched!TrapReturn(SeenFrame(regs))
  <2>1. cpu' = IF DR0' # NoFrame THEN DR0' ELSE regs
    BY DEF Interrupt32, TrapReturn
  <2>3. Sched!NoFrame = NoFrame
    BY DEF NoFrame, Frame, KProcess, Sched!NoFrame, Sched!Frame, Sched!KProcess
  <2>4. SeenFrame(cpu') = IF SeenFrame(DR0') # NoFrame THEN SeenFrame(DR0') ELSE SeenFrame(regs)
    BY <1>9, <2>1
  <2> QED
    BY <2>3, <2>4 DEF Sched!TrapReturn
<1>8. UNCHANGED <<procVars, panicked>>
  BY DEF Interrupt32
<1> QED
  BY <1>6, <1>7, <1>8 DEF Sched!Interrupt32, procVars, Sched!procVars
-----------------------------------------------------------------------------
(* The steps of the scheduler and of other system calls are the same.      *)
LEMMA SeenNext ==
    ASSUME IInv, IInv', Next
    PROVE  Sched!Next
<1> USE DEF procVars, ctxVars, Sched!procVars, Sched!ctxVars
<1>1. /\ cpu \in Frames /\ currentProcess \in Pid /\ SeenFrame(cpu).owner = cpu.owner
      /\ stack \in [Pid -> Frames] /\ progress \in [Pid -> Points] /\ cpu.owner \in Pid
  BY SeenFrames DEF IInv, TypeOK, Frames
<1>2. \A at : at \notin ReadPoints => Seen(at) = at
  BY DEF Seen
<1>3. \A at \in {"start", "user", "force", "resumed", "block", "unblocked", "halt", "loop"} :
        Seen(at) = at /\ (cpu.at = at => SeenFrame(cpu).at = at)
  <2>1. \A at \in {"start", "user", "force", "resumed", "block", "unblocked", "halt", "loop"} :
          at \notin ReadPoints
    BY DEF ReadPoints
  <2>2. SeenFrame(cpu).at = Seen(cpu.at)
    BY <1>1, SeenFrames
  <2> QED
    BY <1>2, <2>1, <2>2
<1>4. CASE TimerInterrupt
  <2>1. Sched!Interrupt32(SeenFrame(cpu))
    BY <1>1, <1>4, SeenInterrupt DEF TimerInterrupt
  <2> QED
    BY <1>4, <2>1 DEF TimerInterrupt, Sched!TimerInterrupt, Sched!Next
<1>5. CASE KernelHalt
  <2>1. Sched!Goto(IF cpu.at = "loop" THEN "halt" ELSE "loop")
    <3>1. CASE cpu.at = "loop"
      BY <1>3, <1>5, <3>1, SeenGoto DEF KernelHalt
    <3>2. CASE cpu.at # "loop"
      BY <1>3, <1>5, <3>2, SeenGoto DEF KernelHalt
    <3> QED
      BY <3>1, <3>2
  <2>2. SeenFrame(cpu).at = cpu.at
    BY <1>3, <1>5 DEF KernelHalt
  <2> QED
    BY <1>5, <2>1, <2>2 DEF KernelHalt, Sched!KernelHalt, Sched!Next
<1>6. CASE ForcedSwitch
  <2> DEFINE at == AfterForce[cpu.at]
             regs == Frame(cpu.owner, at)
  <2>1. cpu.at \in {"force", "block"} /\ at \in {"resumed", "unblocked"}
    BY <1>6 DEF ForcedSwitch, AfterForce
  <2>2. SeenFrame(cpu).at = cpu.at /\ Seen(at) = at
    BY <1>3, <2>1
  <2>3. regs \in Frames /\ SeenFrame(regs) = regs
    BY <1>1, <2>1, <2>2 DEF Frame, Frames, Points, SeenFrame
  <2>4. Sched!Interrupt32(Sched!Frame(cpu.owner, at))
    BY <1>6, <2>3, SeenInterrupt DEF ForcedSwitch, Frame, Sched!Frame
  <2>5. [p \in Pid |-> Seen(progress'[p])]
          = [[p \in Pid |-> Seen(progress[p])] EXCEPT ![cpu.owner] = at]
    BY <1>1, <1>6, <2>2 DEF ForcedSwitch
  <2>6. Sched!AfterForce = AfterForce /\ cpu.at \in DOMAIN AfterForce /\ ~panicked
    BY <1>6 DEF ForcedSwitch, AfterForce, Sched!AfterForce
  <2> QED
    BY <1>1, <2>2, <2>4, <2>5, <2>6 DEF Sched!ForcedSwitch, Sched!Next
<1>7. CASE CreateChild
  <2>1. [p \in Pid |-> SeenFrame(stack'[p])]
          = [[p \in Pid |-> SeenFrame(stack[p])] EXCEPT ![curr_PID] = Frame(curr_PID, "start")]
    BY <1>1, <1>3, <1>7 DEF CreateChild, SeenFrame, Frame
  <2>2. [p \in Pid |-> Seen(progress'[p])]
          = [[p \in Pid |-> Seen(progress[p])] EXCEPT ![curr_PID] = "start"]
    BY <1>1, <1>3, <1>7 DEF CreateChild
  <2> QED
    BY <1>3, <1>7, <2>1, <2>2
       DEF CreateChild, Sched!CreateChild, Sched!Next, Frame, Sched!Frame
<1>8. ASSUME NEW q \in Pid, Kill(q)
      PROVE  Sched!Next
  <2>1. Sched!Goto("force")
    BY <1>3, <1>8, SeenGoto DEF Kill
  <2>2. Sched!Kill(q)
    BY <1>3, <1>8, <2>1
       DEF Kill, Targets, ListElems, Elems, Without, Position, Release,
           Sched!Kill, Sched!Targets, Sched!ListElems, Sched!Elems, Sched!Without,
           Sched!Position, Sched!Release, Sched!Pid, Pid
  <2> QED
    BY <2>2 DEF Sched!Next, Sched!Pid, Pid
<1>9. ASSUME NEW q \in Pid, KillAgain(q)
      PROVE  Sched!Next
  <2>1. Sched!KillAgain(q)
    BY <1>3, <1>9
       DEF KillAgain, Targets, ListElems, Elems, Sched!KillAgain, Sched!Targets,
           Sched!ListElems, Sched!Elems, Sched!Pid, Pid
  <2> QED
    BY <2>1 DEF Sched!Next, Sched!Pid, Pid
<1>10. CASE MakeForeground
  <2>1. Sched!Goto("force")
    BY <1>3, <1>10, SeenGoto DEF MakeForeground
  <2> QED
    BY <1>3, <1>10, <2>1 DEF MakeForeground, Sched!MakeForeground, Sched!Next, NULL, Sched!NULL
<1>11. CASE BlockProcess
  <2>1. Sched!Goto("block")
    BY <1>3, <1>11, SeenGoto DEF BlockProcess
  <2> QED
    BY <1>3, <1>11, <2>1 DEF BlockProcess, Sched!BlockProcess, Sched!Next
<1>12. CASE KeyWakes
  BY <1>12 DEF KeyWakes, Sched!KeyWakes, Sched!Next, KProcess, Sched!KProcess
<1>13. CASE SyscallReturn
  <2>1. Sched!Goto("user")
    BY <1>3, <1>13, SeenGoto DEF SyscallReturn
  <2> QED
    BY <1>3, <1>13, <2>1 DEF SyscallReturn, Sched!SyscallReturn, Sched!Next
<1> QED
  BY <1>4, <1>5, <1>6, <1>7, <1>8, <1>9, <1>10, <1>11, <1>12, <1>13 DEF Next

(* A step inside the loop is none; leaving it is the return, or a wait.    *)
LEMMA SeenLoop ==
    ASSUME KInv, NEW to \in ReadPoints \cup {"user", "block"}, LoopStep(to)
    PROVE  [Sched!Next]_(Sched!vars)
<1> USE DEF schedState, procVars, ctxVars, Sched!procVars, Sched!ctxVars
<1>1. /\ cpu \in Frames /\ currentProcess \in Pid /\ progress \in [Pid -> Points]
      /\ cpu.owner = currentProcess /\ cpu.at = progress[currentProcess]
  BY DEF KInv, IInv, TypeOK, ContextInv, ContextKept, Frame
<1>2. SeenFrame(cpu) = Frame(currentProcess, "unblocked")
  BY <1>1 DEF LoopStep, InLoop, SeenFrame, Seen, ReadPoints
<1>3. Sched!Goto(Seen(to))
  BY SeenGoto DEF LoopStep, KInv
<1>4. CASE to \in ReadPoints /\ UNCHANGED state
  <2>1. SeenFrame(cpu') = SeenFrame(cpu)
    BY <1>1, <1>2, <1>4 DEF LoopStep, Goto, SeenFrame, Seen, Frame
  <2>2. Seen(progress[currentProcess]) = "unblocked" /\ Seen(to) = "unblocked"
    BY <1>1, <1>4 DEF LoopStep, InLoop, Seen
  <2>3. [p \in Pid |-> Seen(progress'[p])] = [p \in Pid |-> Seen(progress[p])]
    BY <1>1, <2>2 DEF LoopStep, Goto
  <2> QED
    BY <1>4, <2>1, <2>3 DEF LoopStep, Sched!vars
<1>5. CASE to = "user" /\ UNCHANGED state
  <2>1. Sched!Goto("user")
    BY <1>3, <1>5 DEF Seen, ReadPoints
  <2>2. SeenFrame(cpu).at = "unblocked"
    BY <1>2 DEF Frame
  <2> QED
    BY <1>5, <2>1, <2>2 DEF LoopStep, Sched!SyscallReturn, Sched!Next
<1>6. CASE to = "block" /\ state' = [state EXCEPT ![currentProcess] = "BLOCKED"]
  <2>1. Sched!Goto("block")
    BY <1>3, <1>6 DEF Seen, ReadPoints
  <2>2. SeenFrame(cpu).at = "unblocked"
    BY <1>2 DEF Frame
  <2> QED
    BY <1>6, <2>1, <2>2 DEF LoopStep, Sched!BlockProcess, Sched!Next
<1> QED
  BY <1>4, <1>5, <1>6 DEF LoopStep, ReadPoints
-----------------------------------------------------------------------------
LEMMA KeyboardStarts ==
    ASSUME KInit
    PROVE  KInv /\ Sched!Init
<1>1. Init /\ blocking = NULL
  BY DEF KInit
<1>2. KInv
  BY <1>1, InitInvariant, ContextStarts DEF KInv, NULL, KProcess
<1>3. \A at \in {"none", "start", "loop"} : Seen(at) = at
  BY DEF Seen, ReadPoints
<1>4. SeenFrame(cpu) = cpu /\ SeenFrame(DR0) = DR0
  BY <1>1, <1>3 DEF Init, SeenFrame, Frame, NoFrame
<1>5. /\ [p \in Pid |-> SeenFrame(stack[p])] = stack
      /\ [p \in Pid |-> Seen(progress[p])] = progress
  <2>1. \A p \in Pid : SeenFrame(stack[p]) = stack[p] /\ Seen(progress[p]) = progress[p]
    BY <1>1, <1>3 DEF Init, SeenFrame, Frame, NoFrame
  <2>2. /\ stack = [p \in Pid |-> stack[p]]
        /\ progress = [p \in Pid |-> progress[p]]
    BY <1>1 DEF Init
  <2> QED
    BY <2>1, <2>2
<1>6. Sched!Init
  BY <1>1, <1>4, <1>5
     DEF Init, Sched!Init, Frame, NoFrame, KProcess, InitProcess, NULL, Pid,
         Sched!Frame, Sched!NoFrame, Sched!KProcess, Sched!InitProcess, Sched!NULL, Sched!Pid
<1> QED
  BY <1>2, <1>6

LEMMA KeyboardStepImplements ==
    ASSUME KInv, KInv', [KNext]_kvars
    PROVE  [Sched!Next]_(Sched!vars)
<1>1. CASE KNext
  <2>1. CASE Next
    BY <2>1, SeenNext DEF KInv
  <2>2. CASE UNCHANGED vars
    BY <2>2 DEF vars, Sched!vars
  <2>3. ASSUME NEW to \in ReadPoints \cup {"user", "block"}, LoopStep(to)
        PROVE  [Sched!Next]_(Sched!vars)
    BY <2>3, SeenLoop
  <2> QED
    BY <1>1, <2>1, <2>2, <2>3, StepOfKeyboard
<1>2. CASE UNCHANGED kvars
  BY <1>2 DEF kvars, vars, Sched!vars
<1> QED
  BY <1>1, <1>2

(* kb_handler and getInput (Keyboard.c:88-131) change processes only in    *)
(* ways Scheduling has an action for: kb_handler none but the one it       *)
(* interrupts, getInput none but its caller, at whichever of its points an *)
(* interrupt strikes.  As long as tick does not wrap, since otherwise a    *)
(* process may resume at an older point of the loop.                       *)
THEOREM KeyboardImplementsScheduling == NoWrap => (KSpec => ImplementsScheduling)
<1> SUFFICES ASSUME NoWrap PROVE KSpec => ImplementsScheduling
  OBVIOUS
<1>1. KInit => KInv /\ Sched!Init
  BY KeyboardStarts
<1>2. KInv /\ [KNext]_kvars => KInv'
  BY KeyboardStepKeeps
<1>3. KInv /\ KInv' /\ [KNext]_kvars => [Sched!Next]_(Sched!vars)
  BY KeyboardStepImplements
<1> QED
  BY <1>1, <1>2, <1>3, PTL DEF KSpec, ImplementsScheduling, Sched!Spec

(* What Scheduling promises holds inside getInput's loop too: the run queue*)
(* holds each live process once, the switch loop ends, and every process   *)
(* continues at the point of the loop where it was interrupted.            *)
THEOREM KeyboardKeepsScheduling ==
    NoWrap => (KSpec => [](ListHoldsLive /\ RunnableExists /\ ContextKept))
<1> SUFFICES ASSUME NoWrap
             PROVE  KSpec => [](ListHoldsLive /\ RunnableExists /\ ContextKept)
  OBVIOUS
<1>1. KInit => KInv
  BY KeyboardStarts
<1>2. KInv /\ [KNext]_kvars => KInv'
  BY KeyboardStepKeeps
<1>3. KInv => ListHoldsLive /\ RunnableExists /\ ContextKept
  BY KernelRuns DEF KInv, IInv, ContextInv
<1> QED
  BY <1>1, <1>2, <1>3, PTL DEF KSpec
-----------------------------------------------------------------------------
(* The keys among the first n typed.                                       *)
KeptRun(h, s) ==
    h = [n \in 0 .. Len(s) |-> IF n = 0 THEN <<>>
                               ELSE IF s[n] = NUL THEN h[n - 1]
                               ELSE Append(h[n - 1], s[n])]

Kept(h, s) ==
    /\ h[0] = <<>>
    /\ \A n \in 1 .. Len(s) : h[n] = IF s[n] = NUL THEN h[n - 1] ELSE Append(h[n - 1], s[n])

LEMMA KeysIs ==
    ASSUME NEW T, NEW s \in Seq(T)
    PROVE  \E h \in [0 .. Len(s) -> Seq(T)] : Kept(h, s) /\ Keys(s) = h[Len(s)]
<1> DEFINE n == Len(s)
           X == Seq(T)
           G == [z \in X \X (1 .. n) |-> IF s[z[2]] = NUL THEN z[1] ELSE Append(z[1], s[z[2]])]
<1>1. n \in Nat /\ <<>> \in X
  OBVIOUS
<1>2. G \in [X \X (1 .. n) -> X]
  <2> SUFFICES ASSUME NEW x \in X, NEW i \in 1 .. n
               PROVE  (IF s[i] = NUL THEN x ELSE Append(x, s[i])) \in X
    OBVIOUS
  <2> QED
    OBVIOUS
<1>3. PICK h \in [0 .. n -> X] : IsRun(h, n, <<>>, G)
  <2> HIDE DEF G, X, n
  <2> QED
    BY <1>1, <1>2, RunExists
<1>4. ASSUME NEW i \in 1 .. n
      PROVE  G[<<h[i - 1], i>>] = IF s[i] = NUL THEN h[i - 1] ELSE Append(h[i - 1], s[i])
  <2>1. i - 1 \in 0 .. n
    OBVIOUS
  <2>2. h[i - 1] \in X
    BY <1>3, <2>1
  <2> QED
    BY <2>2
<1> HIDE DEF G, X
<1>5. \A i \in 0 .. n : h[i] = IF i = 0 THEN <<>> ELSE G[<<h[i - 1], i>>]
  BY <1>3 DEF IsRun
<1>6. \A i \in 0 .. n : h[i] = IF i = 0 THEN <<>>
                               ELSE IF s[i] = NUL THEN h[i - 1]
                               ELSE Append(h[i - 1], s[i])
  <2> SUFFICES ASSUME NEW i \in 0 .. n, i # 0
               PROVE  h[i] = IF s[i] = NUL THEN h[i - 1] ELSE Append(h[i - 1], s[i])
    BY <1>5, <1>1
  <2>1. i \in 1 .. n
    BY <1>1
  <2> QED
    BY <1>4, <1>5, <2>1
<1>7. h = [i \in 0 .. n |-> h[i]]
  BY <1>3
<1>8. KeptRun(h, s)
  BY <1>6, <1>7, Zenon DEF KeptRun
<1> DEFINE k == CHOOSE k : KeptRun(k, s)
<1>9. KeptRun(k, s)
  BY <1>8
<1>10. Keys(s) = k[n]
  BY DEF Keys, KeptRun
<1> HIDE DEF k
<1>11. \A f : KeptRun(f, s) => Kept(f, s)
  <2> SUFFICES ASSUME NEW f, KeptRun(f, s) PROVE Kept(f, s)
    OBVIOUS
  <2>1. \A i \in 0 .. n : f[i] = IF i = 0 THEN <<>>
                                 ELSE IF s[i] = NUL THEN f[i - 1]
                                 ELSE Append(f[i - 1], s[i])
    BY DEF KeptRun
  <2> QED
    BY <1>1, <2>1 DEF Kept
<1>12. \A f, g : KeptRun(f, s) /\ KeptRun(g, s) => f[n] = g[n]
  <2> SUFFICES ASSUME NEW f, NEW g, Kept(f, s), Kept(g, s) PROVE f[n] = g[n]
    BY <1>11
  <2> DEFINE S == {i \in 0 .. n : f[i] = g[i]}
  <2>1. 0 \in S
    BY <1>1 DEF Kept
  <2>2. \A i \in 1 .. n : i - 1 \in S => i \in S
    BY <1>1 DEF Kept
  <2>3. n \in S
    <3>1. n \in Nat
      BY <1>1
    <3> HIDE DEF S, n
    <3>2. 0 .. n \subseteq S
      BY <2>1, <2>2, <3>1, UpTo
    <3> QED
      BY <3>1, <3>2
  <2> QED
    BY <2>3
<1>13. Keys(s) = h[n]
  BY <1>8, <1>9, <1>10, <1>12
<1> QED
  BY <1>3, <1>8, <1>11, <1>13 DEF X

Begin(s, n) == SubSeq(s, 1, n)

LEMMA KeysOfBegin ==
    ASSUME NEW T, NEW s \in Seq(T)
    PROVE  \E h \in [0 .. Len(s) -> Seq(T)] :
              Kept(h, s) /\ \A n \in 0 .. Len(s) : Keys(Begin(s, n)) = h[n]
<1>1. PICK h \in [0 .. Len(s) -> Seq(T)] : Kept(h, s) /\ Keys(s) = h[Len(s)]
  BY KeysIs
<1>2. ASSUME NEW n \in 0 .. Len(s) PROVE Keys(Begin(s, n)) = h[n]
  <2> DEFINE t == Begin(s, n)
  <2>1. /\ t \in Seq(T) /\ Len(t) = n /\ n \in Nat /\ n <= Len(s) /\ Len(s) \in Nat
        /\ \A i \in 1 .. n : t[i] = s[i]
    BY DEF Begin
  <2> HIDE DEF t
  <2>2. PICK g \in [0 .. Len(t) -> Seq(T)] : Kept(g, t) /\ Keys(t) = g[Len(t)]
    BY <2>1, KeysIs
  <2> DEFINE S == {i \in 0 .. n : g[i] = h[i]}
  <2>3. 0 \in S
    BY <1>1, <2>1, <2>2 DEF Kept
  <2>4. ASSUME NEW i \in 1 .. n, i - 1 \in S PROVE i \in S
    <3>1. i \in 1 .. Len(s) /\ i \in 1 .. Len(t) /\ t[i] = s[i]
      BY <2>1
    <3>2. g[i - 1] = h[i - 1]
      BY <2>4
    <3>3. g[i] = h[i]
      BY <1>1, <2>2, <3>1, <3>2 DEF Kept
    <3> QED
      BY <3>3
  <2>5. 0 .. n \subseteq S
    <3> HIDE DEF S
    <3> QED
      BY <2>1, <2>3, <2>4, UpTo
  <2>6. g[n] = h[n]
    BY <2>1, <2>5
  <2> QED
    BY <2>1, <2>2, <2>6 DEF t
<1> QED
  BY <1>1, <1>2

(* The next key is added unless it is NUL.                                 *)
LEMMA KeysOfNext ==
    ASSUME NEW T, NEW s \in Seq(T), NEW n \in 1 .. Len(s)
    PROVE  Keys(Begin(s, n)) =
              IF s[n] = NUL THEN Keys(Begin(s, n - 1)) ELSE Append(Keys(Begin(s, n - 1)), s[n])
<1>1. PICK h \in [0 .. Len(s) -> Seq(T)] :
              Kept(h, s) /\ \A i \in 0 .. Len(s) : Keys(Begin(s, i)) = h[i]
  BY KeysOfBegin
<1>2. n \in 0 .. Len(s) /\ n - 1 \in 0 .. Len(s)
  OBVIOUS
<1>3. Keys(Begin(s, n)) = h[n] /\ Keys(Begin(s, n - 1)) = h[n - 1]
  BY <1>1, <1>2
<1>4. h[n] = IF s[n] = NUL THEN h[n - 1] ELSE Append(h[n - 1], s[n])
  BY <1>1 DEF Kept
<1> QED
  BY <1>3, <1>4

LEMMA KeysOfNone ==
    ASSUME NEW T, NEW s \in Seq(T)
    PROVE  Keys(Begin(s, 0)) = <<>>
<1>1. PICK h \in [0 .. Len(s) -> Seq(T)] :
              Kept(h, s) /\ \A i \in 0 .. Len(s) : Keys(Begin(s, i)) = h[i]
  BY KeysOfBegin
<1> QED
  BY <1>1 DEF Kept

LEMMA PrefixGrows ==
    ASSUME NEW T, NEW a \in Seq(T), NEW b \in Seq(T), IsPrefix(a, b), NEW x \in T
    PROVE  IsPrefix(a, Append(b, x))
BY DEF IsPrefix

(* The keys typed first are the first of all keys.                         *)
LEMMA KeysOfBeginFirst ==
    ASSUME NEW T, NEW s \in Seq(T), NEW n \in 0 .. Len(s)
    PROVE  IsPrefix(Keys(Begin(s, n)), Keys(s))
<1>1. PICK h \in [0 .. Len(s) -> Seq(T)] :
              Kept(h, s) /\ \A i \in 0 .. Len(s) : Keys(Begin(s, i)) = h[i]
  BY KeysOfBegin
<1> DEFINE k == Len(s)
           S == {i \in 0 .. k : i < n \/ IsPrefix(h[n], h[i])}
<1>2. k \in Nat /\ h[n] \in Seq(T) /\ n \in Nat
  OBVIOUS
<1>3. IsPrefix(h[n], h[n])
  BY <1>2 DEF IsPrefix
<1>4. 0 \in S
  BY <1>2, <1>3
<1>5. ASSUME NEW i \in 1 .. k, i - 1 \in S PROVE i \in S
  <2>1. CASE i <= n
    BY <1>2, <1>3, <2>1
  <2>2. CASE n < i
    <3>1. IsPrefix(h[n], h[i - 1]) /\ h[i - 1] \in Seq(T)
      BY <1>2, <1>5, <2>2
    <3>2. s[i] \in T
      OBVIOUS
    <3>3. h[i] = IF s[i] = NUL THEN h[i - 1] ELSE Append(h[i - 1], s[i])
      BY <1>1 DEF Kept
    <3>4. IsPrefix(h[n], h[i])
      BY <1>2, <3>1, <3>2, <3>3, PrefixGrows
    <3> QED
      BY <3>4
  <2> QED
    BY <1>2, <2>1, <2>2
<1>6. 0 .. k \subseteq S
  <2> HIDE DEF S, k
  <2> QED
    BY <1>2, <1>4, <1>5, UpTo
<1>7. IsPrefix(h[n], h[k])
  BY <1>2, <1>6
<1>8. Begin(s, k) = s
  BY <1>2 DEF Begin
<1> QED
  BY <1>1, <1>2, <1>7, <1>8
-----------------------------------------------------------------------------
(* The process that is inside bufferRead, and where.                       *)
Inside == ReadPoints \ {"check"}
Readers == {p \in Pid : progress[p] \in Inside}
Reader == CHOOSE p \in Readers : TRUE
Stage == IF Readers = {} THEN "idle" ELSE progress[Reader]

OneInside == \A p, q \in Readers : p = q

(* Processes that do not exist are nowhere.                                *)
NoneYet == \A p \in Pid \ Created : progress[p] = "none"

LEMMA ReaderIs ==
    ASSUME OneInside, NEW p \in Readers
    PROVE  Readers = {p} /\ Reader = p /\ Stage = progress[p]
<1>1. Reader \in Readers
  BY DEF Reader
<1> HIDE DEF Readers
<1> QED
  BY <1>1 DEF OneInside, Stage

(* Steps outside bufferRead.                                               *)
SameInside ==
    \A p \in Pid : progress'[p] = progress[p] \/ {progress[p], progress'[p]} \cap Inside = {}

LEMMA StageStays ==
    ASSUME SameInside, OneInside
    PROVE  Readers' = Readers /\ Reader' = Reader /\ Stage' = Stage /\ OneInside'
<1>1. Readers' = Readers
  BY DEF SameInside, Readers
<1>2. Reader' = Reader
  BY <1>1 DEF Reader
<1>3. OneInside'
  BY <1>1 DEF OneInside
<1>4. Stage' = Stage
  <2>1. CASE Readers = {}
    BY <1>1, <2>1 DEF Stage
  <2>2. CASE Readers # {}
    <3>1. Reader \in Readers
      BY <2>2 DEF Reader
    <3>2. progress'[Reader] = progress[Reader]
      BY <3>1 DEF Readers, SameInside
    <3> QED
      BY <1>1, <1>2, <2>2, <3>2 DEF Stage
  <2> QED
    BY <2>1, <2>2
<1> QED
  BY <1>1, <1>2, <1>3, <1>4

(* Steps of getInput.                                                      *)
Advance(from, to) == cpu.at = from /\ Goto(to) /\ UNCHANGED schedState

LEMMA StepAdvances ==
    ASSUME NEW from, NEW to, Step(from, to)
    PROVE  Advance(from, to)
  BY DEF Step, Advance

LEMMA StageMoves ==
    ASSUME KInv, OneInside, NEW from, NEW to, Advance(from, to), from # "halt", from # "loop"
    PROVE  /\ currentProcess \in Pid /\ me' = me
           /\ progress[me] = from /\ progress' = [progress EXCEPT ![me] = to]
           /\ from \in Inside => Readers = {me} /\ Reader = me /\ Stage = from
<1>1. currentProcess \in Pid /\ cpu.owner = currentProcess
  BY NotKernel DEF Advance, KInv
<1>2. progress[me] = from
  BY <1>1 DEF Advance, KInv, ContextInv, ContextKept, Frame, me
<1>3. progress' = [progress EXCEPT ![me] = to]
  BY <1>1 DEF Advance, Goto, me
<1>4. me' = me
  BY DEF Advance, schedState, ctxVars, me
<1>5. ASSUME from \in Inside PROVE Readers = {me} /\ Reader = me /\ Stage = from
  <2>1. me \in Readers
    BY <1>1, <1>2, <1>5 DEF Readers, me
  <2> QED
    BY <1>2, <2>1, ReaderIs
<1> QED
  BY <1>1, <1>2, <1>3, <1>4, <1>5

LEMMA StageAfter ==
    ASSUME NEW p \in Pid, NEW to, progress' = [progress EXCEPT ![p] = to],
           progress \in [Pid -> Points], Readers \subseteq {p}
    PROVE  /\ OneInside'
           /\ to \in Inside => Readers' = {p} /\ Reader' = p /\ Stage' = to
           /\ to \notin Inside => Readers' = {} /\ Stage' = "idle"
<1>1. CASE to \in Inside
  <2>1. Readers' = {p}
    BY <1>1 DEF Readers
  <2>2. Reader' = p
    BY <2>1 DEF Reader
  <2>3. Stage' = to
    BY <2>1, <2>2 DEF Stage
  <2> QED
    BY <1>1, <2>1, <2>2, <2>3 DEF OneInside
<1>2. CASE to \notin Inside
  <2>1. Readers' = {}
    BY <1>2 DEF Readers
  <2> QED
    BY <1>2, <2>1 DEF OneInside, Stage
<1> QED
  BY <1>1, <1>2
-----------------------------------------------------------------------------
(* The ring, with the reader at stage st: r is at the end only before the  *)
(* line that wraps it; s is what the reader has loaded.                    *)
Late == {"loadCount", "storeCount", "wrap", "return"}
Word == 2^16

Slot(first, i) ==
    IF Wrapped(first) + i < KEYBUFFER_MAX THEN Wrapped(first) + i
    ELSE Wrapped(first) + i - KEYBUFFER_MAX

Place(st, first, s) ==
    /\ first = KEYBUFFER_MAX => st \in {"loadCount", "storeCount", "wrap"}
    /\ st = "storeR" => s = first

(* The count never exceeds the number u of unread keys, n of them typed,   *)
(* but for the key that is being taken; a count of zero in the middle of a *)
(* read has gone round.                                                    *)
Counts(st, c, u, s, n) ==
    /\ u <= n
    /\ c <= u + (IF st \in {"loadCount", "storeCount"} THEN 1 ELSE 0)
    /\ st \in {"fetch", "loadR", "storeR"} => u >= 1 /\ (c = 0 => u >= Word)
    /\ st = "loadCount" => (c = 0 => u + 1 >= Word)
    /\ st = "storeCount" => s <= u + 1 /\ (s = 0 => u + 1 >= Word)

(* The unread keys are in the ring, in the order typed, from r to w.       *)
Filled(first, last, u, b, t) ==
    /\ u <= KEYBUFFER_MAX
    /\ last = Slot(first, u)
    /\ \A i \in 0 .. u - 1 : b[Slot(first, i)] = t[Len(t) - u + i + 1]

(* The keys given to the program are those passed, and the reader holds the*)
(* next one.                                                               *)
Taken(st, u, t) == Len(t) - u - (IF st \in Late THEN 1 ELSE 0)

Given(st, u, t, g, v) ==
    /\ Taken(st, u, t) \in Nat
    /\ g = Keys(Begin(t, Taken(st, u, t)))
    /\ st \in {"loadR", "storeR"} \cup Late => v = t[Taken(st, u, t) + 1]

RTypeOK ==
    /\ buffer \in [0 .. KEYBUFFER_MAX - 1 -> NUL .. MaxKeys]
    /\ r \in 0 .. KEYBUFFER_MAX /\ w \in 0 .. KEYBUFFER_MAX - 1
    /\ curr_elements \in 0 .. Word - 1
    /\ blocking \in Pid \cup {NULL}
    /\ ret \in [Pid -> NUL .. MaxKeys]
    /\ tmp \in [Pid -> 0 .. Word - 1]
    /\ typed \in Seq(NUL .. MaxKeys) /\ received \in Seq(1 .. MaxKeys)
    /\ unread \in Nat /\ lapped \in BOOLEAN

RingInv ==
    /\ OneInside /\ NoneYet
    /\ RTypeOK
    /\ Place(Stage, r, tmp[Reader])
    /\ Counts(Stage, curr_elements, unread, tmp[Reader], Len(typed))
    /\ ~lapped => /\ Filled(r, w, unread, buffer, typed)
                  /\ Given(Stage, unread, typed, received, ret[Reader])

RingFits == KEYBUFFER_MAX < Word

(* No process takes a key while another is interrupted in taking one.      *)
ReadsApart ==
    (\E p \in Pid \ {currentProcess} : progress[p] \in Inside) => ~(GetInputCall \/ CheckFilled)

LEMMA WrappedIs ==
    ASSUME NEW i \in 0 .. KEYBUFFER_MAX
    PROVE  /\ Wrapped(i) \in 0 .. KEYBUFFER_MAX - 1
           /\ Wrapped(Wrapped(i)) = Wrapped(i)
           /\ i # KEYBUFFER_MAX => Wrapped(i) = i
BY KeyboardAssumption DEF Wrapped

LEMMA WordIs == Word \in Nat /\ Word > 1
  BY DEF Word

LEMMA CountOf ==
    ASSUME NEW c \in Int, 0 <= c, c <= Word - 1
    PROVE  /\ Count(c + 1) = (IF c = Word - 1 THEN 0 ELSE c + 1)
           /\ Count(c - 1) = (IF c = 0 THEN Word - 1 ELSE c - 1)
<1>1. Word = 65536 /\ \A n : Count(n) = n % 65536
  BY DEF Word, Count
<1>2. (c + 1) % 65536 = IF c = 65535 THEN 0 ELSE c + 1
  BY <1>1
<1>3. (c - 1) % 65536 = IF c = 0 THEN 65535 ELSE c - 1
  BY <1>1
<1> QED
  BY <1>1, <1>2, <1>3

LEMMA CountIs ==
    ASSUME NEW c \in 0 .. Word - 1
    PROVE  /\ Count(c + 1) = (IF c = Word - 1 THEN 0 ELSE c + 1)
           /\ Count(c - 1) = (IF c = 0 THEN Word - 1 ELSE c - 1)
<1>1. c \in Int /\ 0 <= c /\ c <= Word - 1
  BY WordIs
<1> QED
  BY <1>1, CountOf

(* Writing: the next free place is w.                                      *)
LEMMA WriteFills ==
    ASSUME NEW T, NEW first \in 0 .. KEYBUFFER_MAX, NEW last, NEW u \in Nat, NEW t \in Seq(T),
           NEW b \in [0 .. KEYBUFFER_MAX - 1 -> T], NEW key \in T,
           Filled(first, last, u, b, t), u # KEYBUFFER_MAX, u <= Len(t)
    PROVE  Filled(first, Wrapped(last + 1), u + 1, [b EXCEPT ![last] = key], Append(t, key))
<1> DEFINE K == KEYBUFFER_MAX
           f == Wrapped(first)
           t2 == Append(t, key)
           b2 == [b EXCEPT ![last] = key]
<1>1. K \in Nat /\ K > 0 /\ f \in 0 .. K - 1 /\ u < K
  BY WrappedIs, KeyboardAssumption DEF Filled
<1>2. \A i \in 0 .. K : Slot(first, i) = IF f + i < K THEN f + i ELSE f + i - K
  BY DEF Slot
<1> HIDE DEF f
<1>3. last = Slot(first, u) /\ last \in 0 .. K - 1
  <2>1. last = Slot(first, u)
    BY DEF Filled
  <2>2. last = IF f + u < K THEN f + u ELSE f + u - K
    BY <1>1, <1>2, <2>1
  <2> QED
    BY <1>1, <2>1, <2>2
<1>4. Wrapped(last + 1) = Slot(first, u + 1)
  <2>1. last = IF f + u < K THEN f + u ELSE f + u - K
    BY <1>1, <1>2, <1>3
  <2>2. Slot(first, u + 1) = IF f + (u + 1) < K THEN f + (u + 1) ELSE f + (u + 1) - K
    BY <1>1, <1>2
  <2>3. Wrapped(last + 1) = IF last + 1 = K THEN 0 ELSE last + 1
    BY DEF Wrapped
  <2> QED
    BY <1>1, <2>1, <2>2, <2>3
<1>5. /\ Len(t2) = Len(t) + 1 /\ Len(t) \in Nat /\ t2[Len(t) + 1] = key
      /\ \A i \in 1 .. Len(t) : t2[i] = t[i]
  OBVIOUS
<1> HIDE DEF t2
<1>6. ASSUME NEW i \in 0 .. u PROVE b2[Slot(first, i)] = t2[Len(t2) - (u + 1) + i + 1]
  <2>0. i \in 0 .. K /\ f \in Nat /\ i < K
    BY <1>1
  <2>1. Slot(first, i) \in 0 .. K - 1
    <3>1. Slot(first, i) = IF f + i < K THEN f + i ELSE f + i - K
      BY <1>2, <2>0
    <3> QED
      BY <1>1, <2>0, <3>1
  <2>2. CASE i = u
    <3>1. Len(t2) - (u + 1) + i + 1 = Len(t) + 1
      BY <1>5, <2>2
    <3>2. b2[last] = key
      BY <1>3
    <3> QED
      BY <1>3, <1>5, <2>2, <3>1, <3>2
  <2>3. CASE i # u
    <3>1. i \in 0 .. u - 1
      BY <2>3
    <3>2. Slot(first, i) # last
      BY <1>1, <1>2, <1>3, <3>1
    <3>3. b2[Slot(first, i)] = b[Slot(first, i)]
      BY <2>1, <3>2
    <3>4. Len(t2) - (u + 1) + i + 1 = Len(t) - u + i + 1 /\ Len(t) - u + i + 1 \in 1 .. Len(t)
      BY <1>5, <3>1
    <3>5. b[Slot(first, i)] = t[Len(t) - u + i + 1]
      BY <3>1 DEF Filled
    <3> QED
      BY <1>5, <3>3, <3>4, <3>5
  <2> QED
    BY <2>2, <2>3
<1>7. \A i \in 0 .. (u + 1) - 1 : b2[Slot(first, i)] = t2[Len(t2) - (u + 1) + i + 1]
  BY <1>6
<1>8. u + 1 <= K
  BY <1>1
<1> HIDE DEF b2
<1>9. Filled(first, Wrapped(last + 1), u + 1, b2, t2)
  BY <1>4, <1>7, <1>8 DEF Filled
<1> QED
  BY <1>9 DEF b2, t2

LEMMA WriteGives ==
    ASSUME NEW T, NEW st, NEW u \in Nat, NEW t \in Seq(T), NEW g, NEW v, NEW key \in T,
           Given(st, u, t, g, v), u <= Len(t), st \in {"loadR", "storeR"} => u >= 1
    PROVE  Given(st, u + 1, Append(t, key), g, v)
<1> DEFINE t2 == Append(t, key)
           n == Taken(st, u, t)
<1>1. /\ Len(t2) = Len(t) + 1 /\ Len(t) \in Nat
      /\ \A i \in 1 .. Len(t) : t2[i] = t[i]
  OBVIOUS
<1>2. n \in 0 .. Len(t)
  BY <1>1 DEF Given, Taken
<1>3. Begin(t2, n) = Begin(t, n)
  BY <1>2 DEF Begin
<1>4. Taken(st, u + 1, t2) = n
  BY <1>1 DEF Taken
<1>5. ASSUME st \in {"loadR", "storeR"} \cup Late PROVE n + 1 \in 1 .. Len(t)
  <2>1. CASE st \in {"loadR", "storeR"}
    BY <1>1, <1>2, <2>1 DEF Taken, Late
  <2>2. CASE st \in Late
    BY <1>1, <1>2, <2>2 DEF Taken
  <2> QED
    BY <1>5, <2>1, <2>2
<1> HIDE DEF t2, n
<1>6. Given(st, u + 1, t2, g, v)
  <2>1. n \in Nat /\ g = Keys(Begin(t, n)) /\ (st \in {"loadR", "storeR"} \cup Late => v = t[n + 1])
    BY DEF Given, n
  <2>2. st \in {"loadR", "storeR"} \cup Late => v = t2[n + 1]
    BY <1>1, <1>5, <2>1
  <2> QED
    BY <1>3, <1>4, <2>1, <2>2 DEF Given
<1> QED
  BY <1>6 DEF t2

(* Reading: r moves on, wrapped or not yet.                                *)
LEMMA ReadFills ==
    ASSUME NEW T, NEW first \in 0 .. KEYBUFFER_MAX - 1, NEW next \in 0 .. KEYBUFFER_MAX,
           Wrapped(next) = Wrapped(first + 1),
           NEW last, NEW u \in Nat, u >= 1, NEW t \in Seq(T), NEW b, u <= Len(t),
           Filled(first, last, u, b, t)
    PROVE  /\ Filled(next, last, u - 1, b, t)
           /\ b[first] = t[Len(t) - u + 1]
<1> DEFINE K == KEYBUFFER_MAX
<1>1. K \in Nat /\ K > 0 /\ u <= K /\ Len(t) \in Nat
  BY KeyboardAssumption DEF Filled
<1>2. \A i \in 0 .. K : Slot(first, i) = IF first + i < K THEN first + i ELSE first + i - K
  BY <1>1 DEF Slot, Wrapped
<1>3. Wrapped(next) = IF first + 1 = K THEN 0 ELSE first + 1
  BY DEF Wrapped
<1>4. \A i \in 0 .. K - 1 : Slot(next, i) = Slot(first, i + 1)
  <2> SUFFICES ASSUME NEW i \in 0 .. K - 1 PROVE Slot(next, i) = Slot(first, i + 1)
    OBVIOUS
  <2>1. Slot(first, i + 1) = IF first + i + 1 < K THEN first + i + 1 ELSE first + i + 1 - K
    BY <1>1, <1>2
  <2>2. CASE first + 1 = K
    BY <1>1, <1>3, <2>1, <2>2 DEF Slot
  <2>3. CASE first + 1 # K
    BY <1>1, <1>3, <2>1, <2>3 DEF Slot
  <2> QED
    BY <2>2, <2>3
<1>5. last = Slot(next, u - 1)
  BY <1>1, <1>4 DEF Filled
<1>6. ASSUME NEW i \in 0 .. u - 1 - 1 PROVE b[Slot(next, i)] = t[Len(t) - (u - 1) + i + 1]
  <2>1. i + 1 \in 0 .. u - 1 /\ i \in 0 .. K - 1
    BY <1>1
  <2>2. b[Slot(first, i + 1)] = t[Len(t) - u + (i + 1) + 1]
    BY <2>1 DEF Filled
  <2>3. Len(t) - u + (i + 1) + 1 = Len(t) - (u - 1) + i + 1
    BY <1>1
  <2> QED
    BY <1>4, <2>1, <2>2, <2>3
<1>7. Filled(next, last, u - 1, b, t)
  BY <1>1, <1>5, <1>6 DEF Filled
<1>8. b[first] = t[Len(t) - u + 1]
  <2>1. 0 \in 0 .. u - 1 /\ Slot(first, 0) = first
    BY <1>1, <1>2
  <2>2. b[Slot(first, 0)] = t[Len(t) - u + 0 + 1]
    BY <2>1 DEF Filled
  <2> QED
    BY <1>1, <2>1, <2>2
<1> QED
  BY <1>7, <1>8
-----------------------------------------------------------------------------
(* What the steps do to the points of the processes.                       *)
Moves(from, to) ==
    /\ progress[currentProcess] = from
    /\ progress' = [progress EXCEPT ![currentProcess] = to]
    /\ UNCHANGED curr_PID

AtPoints == /\ progress \in [Pid -> Points] /\ currentProcess \in Pid
           /\ currentProcess \in Created
           /\ cpu.owner = currentProcess /\ cpu.at = progress[currentProcess]
           /\ Created = 0 .. curr_PID - 1 /\ curr_PID \in Nat

LEMMA PointsHold == KInv => AtPoints
  BY DEF KInv, IInv, TypeOK, Population, ContextInv, ContextKept, Frame, AtPoints

LEMMA OutsideInside ==
    {"none", "start", "user", "force", "resumed", "block", "unblocked", "halt", "loop",
     "check", "idle"} \cap Inside = {}
  BY DEF Inside, ReadPoints

LEMMA OthersMove ==
    ASSUME KInv, Others
    PROVE  \/ UNCHANGED <<progress, curr_PID>>
           \/ CreateChild
           \/ \E from, to : {from, to} \cap Inside = {} /\ Moves(from, to)
<1>0. AtPoints
  BY PointsHold
<1> USE DEF procVars
<1>1. CASE TimerInterrupt
  BY <1>1 DEF TimerInterrupt, Interrupt32
<1>2. CASE ForcedSwitch
  <2>1. cpu.at \in {"force", "block"} /\ AfterForce[cpu.at] \in {"resumed", "unblocked"}
    BY <1>2 DEF ForcedSwitch, AfterForce
  <2>2. Moves(cpu.at, AfterForce[cpu.at])
    BY <1>0, <1>2 DEF ForcedSwitch, Interrupt32, Moves, AtPoints
  <2>3. {cpu.at, AfterForce[cpu.at]} \cap Inside = {}
    BY <2>1 DEF Inside, ReadPoints
  <2> QED
    BY <2>2, <2>3
<1>3. CASE KernelHalt
  <2> DEFINE to == IF cpu.at = "loop" THEN "halt" ELSE "loop"
  <2>1. {cpu.at, to} \cap Inside = {}
    BY <1>3 DEF KernelHalt, Inside, ReadPoints
  <2>2. Moves(cpu.at, to)
    BY <1>0, <1>3 DEF KernelHalt, Goto, Moves, AtPoints
  <2> QED
    BY <2>1, <2>2
<1>4. ASSUME NEW q \in Pid, Kill(q) \/ KillAgain(q)
      PROVE  UNCHANGED <<progress, curr_PID>> \/ Moves("user", "force")
  BY <1>0, <1>4 DEF Kill, KillAgain, Goto, Moves, AtPoints
<1>5. CASE MakeForeground
  <2>1. {cpu.at, "force"} \cap Inside = {}
    BY <1>5 DEF MakeForeground, Inside, ReadPoints
  <2>2. Moves(cpu.at, "force")
    BY <1>0, <1>5 DEF MakeForeground, Goto, Moves, AtPoints
  <2> QED
    BY <2>1, <2>2
<1>6. CASE cpu.at = "resumed" /\ SyscallReturn
  <2>1. Moves("resumed", "user")
    BY <1>0, <1>6 DEF SyscallReturn, Goto, Moves, AtPoints
  <2> QED
    BY <2>1 DEF Inside, ReadPoints
<1>7. {"user", "force"} \cap Inside = {}
  BY DEF Inside, ReadPoints
<1> QED
  BY <1>1, <1>2, <1>3, <1>4, <1>5, <1>6, <1>7 DEF Others

LEMMA NoneYetKept ==
    ASSUME KInv, KInv', NoneYet,
           UNCHANGED <<progress, curr_PID>> \/ CreateChild \/ \E from, to : Moves(from, to)
    PROVE  NoneYet'
<1>1. AtPoints
  BY PointsHold
<1>2. (KInv => AtPoints)'
  BY PointsHold, PTL
<1>3. AtPoints'
  BY <1>2
<1> SUFFICES ASSUME NEW p \in Pid, p \notin Created' PROVE progress'[p] = "none"
  BY DEF NoneYet
<1>4. CASE UNCHANGED <<progress, curr_PID>>
  BY <1>1, <1>3, <1>4 DEF AtPoints, NoneYet
<1>5. CASE CreateChild
  <2>1. progress'[p] = progress[p] /\ p \notin Created
    BY <1>1, <1>3, <1>5 DEF CreateChild, AtPoints, Pid
  <2> QED
    BY <2>1 DEF NoneYet
<1>6. ASSUME NEW from, NEW to, Moves(from, to) PROVE progress'[p] = "none"
  <2>1. Created' = Created /\ p # currentProcess
    BY <1>1, <1>3, <1>6 DEF Moves, AtPoints
  <2>2. progress'[p] = progress[p]
    BY <1>1, <1>6, <2>1 DEF Moves, AtPoints
  <2> QED
    BY <2>1, <2>2 DEF NoneYet
<1> QED
  BY <1>4, <1>5, <1>6

LEMMA MoveOutside ==
    ASSUME KInv, NoneYet,
           \/ UNCHANGED <<progress, curr_PID>>
           \/ CreateChild
           \/ \E from, to : {from, to} \cap Inside = {} /\ Moves(from, to)
    PROVE  SameInside
<1>1. AtPoints
  BY PointsHold
<1>2. CASE UNCHANGED <<progress, curr_PID>>
  BY <1>2 DEF SameInside
<1>3. CASE CreateChild
  <2>1. progress' = [progress EXCEPT ![curr_PID] = "start"]
    BY <1>3 DEF CreateChild
  <2>2. curr_PID \in Pid => progress[curr_PID] = "none"
    BY <1>1 DEF AtPoints, NoneYet
  <2>3. {"none", "start"} \cap Inside = {}
    BY DEF Inside, ReadPoints
  <2>4. ASSUME NEW p \in Pid
        PROVE  progress'[p] = progress[p] \/ {progress[p], progress'[p]} \cap Inside = {}
    <3>1. CASE p = curr_PID
      <4>1. progress[p] = "none" /\ progress'[p] = "start"
        BY <1>1, <2>1, <2>2, <3>1 DEF AtPoints
      <4> QED
        BY <2>3, <4>1
    <3>2. CASE p # curr_PID
      BY <1>1, <2>1, <3>2 DEF AtPoints
    <3> QED
      BY <3>1, <3>2
  <2> QED
    BY <2>4 DEF SameInside
<1>4. ASSUME NEW from, NEW to, {from, to} \cap Inside = {}, Moves(from, to)
      PROVE  SameInside
  <2>1. ASSUME NEW p \in Pid
        PROVE  progress'[p] = progress[p] \/ {progress[p], progress'[p]} \cap Inside = {}
    <3>1. CASE p = currentProcess
      <4>1. progress[p] = from /\ progress'[p] = to
        BY <1>1, <1>4, <3>1 DEF AtPoints, Moves
      <4> QED
        BY <1>4, <4>1
    <3>2. CASE p # currentProcess
      BY <1>1, <1>4, <3>2 DEF AtPoints, Moves
    <3> QED
      BY <3>1, <3>2
  <2> QED
    BY <2>1 DEF SameInside
<1> QED
  BY <1>2, <1>3, <1>4

(* Steps that leave the ring and bufferRead alone.                         *)
LEMMA RingUntouched ==
    ASSUME RingInv, SameInside, NoneYet', UNCHANGED <<ringVars, readerVars, typed, received>>,
           blocking' \in Pid \cup {NULL}
    PROVE  RingInv'
<1>1. Readers' = Readers /\ Reader' = Reader /\ Stage' = Stage /\ OneInside'
  BY StageStays DEF RingInv
<1>2. /\ buffer' = buffer /\ r' = r /\ w' = w /\ curr_elements' = curr_elements
      /\ unread' = unread /\ lapped' = lapped /\ ret' = ret /\ tmp' = tmp
      /\ typed' = typed /\ received' = received
  BY DEF ringVars, readerVars
<1>3. RTypeOK'
  BY <1>2 DEF RingInv, RTypeOK
<1>4. Place(Stage, r, tmp[Reader])'
  BY <1>1, <1>2 DEF RingInv
<1>5. Counts(Stage, curr_elements, unread, tmp[Reader], Len(typed))'
  BY <1>1, <1>2 DEF RingInv
<1>6. (~lapped => /\ Filled(r, w, unread, buffer, typed)
                  /\ Given(Stage, unread, typed, received, ret[Reader]))'
  BY <1>1, <1>2 DEF RingInv
<1> QED
  BY <1>1, <1>3, <1>4, <1>5, <1>6 DEF RingInv

(* A step of the loop of getInput.                                         *)
LEMMA LoopMoves ==
    ASSUME KInv, NEW from, NEW to, Advance(from, to), from \notin {"halt", "loop"}
    PROVE  Moves(from, to) /\ me = currentProcess /\ me' = me /\ me \in Pid
<1>1. AtPoints
  BY PointsHold
<1> QED
  BY <1>1 DEF AtPoints, Advance, Goto, schedState, procVars, ctxVars, Moves, me

(* kb_handler.                                                             *)
LEMMA RingTyped ==
    ASSUME KInv, KInv', RingInv, Typing
    PROVE  RingInv'
<1>1. PICK key \in {NewKey} \cup (IF NulKeys THEN {NUL} ELSE {}) : kb_handler(key)
  BY DEF Typing
<1> DEFINE T == NUL .. MaxKeys
<1>2. /\ buffer' = [buffer EXCEPT ![w] = key] /\ w' = Wrapped(w + 1)
      /\ curr_elements' = Count(curr_elements + 1) /\ unread' = unread + 1
      /\ lapped' = (lapped \/ unread = KEYBUFFER_MAX)
      /\ typed' = Append(typed, key)
      /\ UNCHANGED <<progress, curr_PID, ret, tmp, r, received>>
      /\ blocking' \in {blocking, NULL}
  BY <1>1 DEF kb_handler, bufferWrite, schedState, procVars, readerVars
<1>3. key \in T /\ T \subseteq Int
  <2>1. Len(typed) \in Nat /\ Len(typed) < MaxKeys /\ MaxKeys \in Nat
    BY KeyboardAssumption DEF Typing, RingInv, RTypeOK
  <2> QED
    BY <2>1 DEF NewKey, NUL
<1> HIDE DEF T
<1>4. /\ buffer \in [0 .. KEYBUFFER_MAX - 1 -> T] /\ typed \in Seq(T)
      /\ r \in 0 .. KEYBUFFER_MAX /\ w \in 0 .. KEYBUFFER_MAX - 1
      /\ curr_elements \in 0 .. Word - 1 /\ unread \in Nat /\ lapped \in BOOLEAN
      /\ Len(typed) \in Nat
  BY DEF RingInv, RTypeOK, T
<1>5. /\ Readers' = Readers /\ Reader' = Reader /\ Stage' = Stage /\ OneInside'
  BY <1>2, StageStays DEF SameInside, RingInv
<1>6. NoneYet'
  BY <1>2, NoneYetKept DEF RingInv
<1>7. Len(typed') = Len(typed) + 1
  BY <1>2, <1>3, <1>4
<1>8. RTypeOK'
  <2>1. buffer' \in [0 .. KEYBUFFER_MAX - 1 -> T] /\ typed' \in Seq(T)
    BY <1>2, <1>3, <1>4
  <2>2. w' \in 0 .. KEYBUFFER_MAX - 1
    BY <1>2, <1>4, KeyboardAssumption DEF Wrapped
  <2>3. curr_elements' \in 0 .. Word - 1
    <3>1. curr_elements' = (IF curr_elements = Word - 1 THEN 0 ELSE curr_elements + 1)
      BY <1>2, <1>4, CountIs
    <3>2. Word \in Nat /\ Word > 1
      BY DEF Word
    <3> QED
      BY <1>4, <3>1, <3>2
  <2>4. unread' \in Nat /\ lapped' \in BOOLEAN
    BY <1>2, <1>4
  <2>5. blocking' \in Pid \cup {NULL}
    BY <1>2 DEF RingInv, RTypeOK
  <2> QED
    BY <1>2, <2>1, <2>2, <2>3, <2>4, <2>5 DEF RingInv, RTypeOK, T
<1>9. Place(Stage, r, tmp[Reader])'
  BY <1>2, <1>5 DEF RingInv
<1>10. Counts(Stage, curr_elements, unread, tmp[Reader], Len(typed))'
  <2> DEFINE s == tmp[Reader]
  <2>1. Counts(Stage, curr_elements, unread, s, Len(typed))
    BY DEF RingInv
  <2>2. curr_elements' = (IF curr_elements = Word - 1 THEN 0 ELSE curr_elements + 1)
    BY <1>2, <1>4, CountIs
  <2>3. Word \in Nat /\ Word > 1
    BY DEF Word
  <2>4. Stage = "storeCount" => s \in 0 .. Word - 1
    <3>1. Stage = "storeCount" => Reader \in Pid
      BY DEF Stage, Reader, Readers
    <3> QED
      BY <3>1 DEF RingInv, RTypeOK
  <2> HIDE DEF s
  <2>5. Counts(Stage, curr_elements', unread + 1, s, Len(typed) + 1)
    BY <1>4, <2>1, <2>2, <2>3, <2>4 DEF Counts
  <2> QED
    BY <1>2, <1>5, <1>7, <2>5 DEF s
<1>11. ASSUME ~lapped'
       PROVE  /\ Filled(r, w, unread, buffer, typed)'
              /\ Given(Stage, unread, typed, received, ret[Reader])'
  <2>1. ~lapped /\ unread # KEYBUFFER_MAX
    BY <1>2, <1>11
  <2>2. /\ Filled(r, w, unread, buffer, typed)
        /\ Given(Stage, unread, typed, received, ret[Reader])
    BY <2>1 DEF RingInv
  <2>3. unread <= Len(typed) /\ (Stage \in {"loadR", "storeR"} => unread >= 1)
    BY DEF RingInv, Counts
  <2>4. Filled(r, w', unread', buffer', typed')
    BY <1>2, <1>3, <1>4, <2>1, <2>2, <2>3, WriteFills
  <2>5. Given(Stage, unread', typed', received, ret[Reader])
    BY <1>2, <1>3, <1>4, <2>2, <2>3, WriteGives
  <2> QED
    BY <1>2, <1>5, <2>4, <2>5
<1> QED
  BY <1>5, <1>6, <1>8, <1>9, <1>10, <1>11 DEF RingInv

(* Where the reader is before and after a step inside bufferRead.          *)
LEMMA ReaderMoves ==
    ASSUME KInv, KInv', RingInv, NEW from, NEW to, Advance(from, to), from \in Inside
    PROVE  /\ me \in Pid /\ Reader = me /\ Stage = from /\ me' = me
           /\ OneInside' /\ NoneYet'
           /\ Stage' = (IF to \in Inside THEN to ELSE "idle")
           /\ to \in Inside => Reader' = me
<1>1. from \notin {"halt", "loop"}
  BY OutsideInside
<1>2. /\ me \in Pid /\ me' = me /\ Readers = {me} /\ Reader = me /\ Stage = from
      /\ progress' = [progress EXCEPT ![me] = to]
  BY <1>1, StageMoves, StepAdvances DEF RingInv, me
<1>3. progress \in [Pid -> Points]
  BY PointsHold DEF AtPoints
<1>4. NoneYet'
  BY <1>1, LoopMoves, NoneYetKept DEF RingInv
<1>5. /\ OneInside'
      /\ to \in Inside => Readers' = {me} /\ Reader' = me /\ Stage' = to
      /\ to \notin Inside => Readers' = {} /\ Stage' = "idle"
  BY <1>2, <1>3, StageAfter
<1> QED
  BY <1>2, <1>4, <1>5

(* The step into bufferRead.                                               *)
LEMMA RingEntered ==
    ASSUME KInv, KInv', RingInv, CheckFilled, ReadsApart
    PROVE  RingInv'
<1>1. /\ Step("check", "fetch") /\ curr_elements # 0 /\ UNCHANGED kbVars
  BY DEF CheckFilled
<1>2. /\ me \in Pid /\ me' = me /\ progress[me] = "check"
      /\ progress' = [progress EXCEPT ![me] = "fetch"]
  BY <1>1, StageMoves, StepAdvances DEF RingInv, me
<1>3. progress \in [Pid -> Points]
  BY PointsHold DEF AtPoints
<1>4. Readers = {}
  <2>1. \A p \in Pid \ {currentProcess} : progress[p] \notin Inside
    BY DEF ReadsApart
  <2>2. progress[me] \notin Inside
    BY <1>2 DEF Inside
  <2> QED
    BY <2>1, <2>2 DEF Readers, me
<1>5. Stage = "idle"
  BY <1>4 DEF Stage
<1>6. OneInside' /\ Readers' = {me} /\ Reader' = me /\ Stage' = "fetch"
  <2>1. "fetch" \in Inside
    BY DEF Inside, ReadPoints
  <2>2. Readers \subseteq {me}
    BY <1>4
  <2> QED
    BY <1>2, <1>3, <2>1, <2>2, StageAfter
<1>7. NoneYet'
  BY <1>1, LoopMoves, StepAdvances, NoneYetKept DEF RingInv
<1>8. /\ buffer' = buffer /\ r' = r /\ w' = w /\ curr_elements' = curr_elements
      /\ unread' = unread /\ lapped' = lapped /\ ret' = ret /\ tmp' = tmp
      /\ typed' = typed /\ received' = received /\ blocking' = blocking
  BY <1>1 DEF kbVars, ringVars, readerVars
<1>9. RTypeOK'
  BY <1>8 DEF RingInv, RTypeOK
<1>10. r # KEYBUFFER_MAX
  BY <1>5 DEF RingInv, Place
<1>11. Place(Stage, r, tmp[Reader])'
  BY <1>6, <1>8, <1>10 DEF Place
<1>12. Counts(Stage, curr_elements, unread, tmp[Reader], Len(typed))'
  <2> DEFINE s == tmp[Reader]
  <2>1. Counts("idle", curr_elements, unread, s, Len(typed))
    BY <1>5 DEF RingInv
  <2>2. curr_elements \in Nat /\ unread \in Nat
    BY DEF RingInv, RTypeOK
  <2>3. Counts("fetch", curr_elements, unread, tmp[me], Len(typed))
    BY <1>1, <2>1, <2>2 DEF Counts
  <2> QED
    BY <1>6, <1>8, <2>3
<1>13. ASSUME ~lapped
       PROVE  /\ Filled(r, w, unread, buffer, typed)
              /\ Given("fetch", unread, typed, received, ret[me])
  <2>1. /\ Filled(r, w, unread, buffer, typed)
        /\ Given("idle", unread, typed, received, ret[Reader])
    BY <1>5, <1>13 DEF RingInv
  <2> QED
    BY <2>1 DEF Given, Taken, Late
<1>14. (~lapped => /\ Filled(r, w, unread, buffer, typed)
                   /\ Given(Stage, unread, typed, received, ret[Reader]))'
  BY <1>6, <1>8, <1>13
<1> QED
  BY <1>6, <1>7, <1>9, <1>11, <1>12, <1>14 DEF RingInv

(* Steps that read the ring and change the reader's locals only.           *)
LEMMA RingFetched ==
    ASSUME KInv, KInv', RingInv, Fetch
    PROVE  RingInv'
<1>1. /\ Step("fetch", "loadR") /\ ret' = [ret EXCEPT ![me] = At(r)]
      /\ buffer' = buffer /\ r' = r /\ w' = w /\ curr_elements' = curr_elements
      /\ unread' = unread /\ lapped' = lapped /\ tmp' = tmp
      /\ typed' = typed /\ received' = received /\ blocking' = blocking
  BY DEF Fetch, ringVars
<1>2. /\ me \in Pid /\ Reader = me /\ Stage = "fetch"
      /\ OneInside' /\ NoneYet' /\ Stage' = "loadR" /\ Reader' = me
  <2>1. {"fetch", "loadR"} \subseteq Inside
    BY DEF Inside, ReadPoints
  <2> QED
    BY <1>1, <2>1, ReaderMoves, StepAdvances
<1>3. r \in 0 .. KEYBUFFER_MAX - 1 /\ r \in 0 .. KEYBUFFER_MAX
  BY <1>2, KeyboardAssumption DEF RingInv, Place, RTypeOK
<1>4. At(r) = buffer[r] /\ At(r) \in NUL .. MaxKeys
  BY <1>3 DEF At, RingInv, RTypeOK
<1>5. ret'[me] = At(r) /\ ret' \in [Pid -> NUL .. MaxKeys]
  BY <1>1, <1>2, <1>4 DEF RingInv, RTypeOK
<1>6. RTypeOK'
  BY <1>1, <1>5 DEF RingInv, RTypeOK
<1>7. Place("loadR", r, tmp[me])
  BY <1>3, KeyboardAssumption DEF Place
<1>8. Counts("loadR", curr_elements, unread, tmp[me], Len(typed))
  BY <1>2 DEF RingInv, Counts
<1>9. ASSUME ~lapped
      PROVE  /\ Filled(r, w, unread, buffer, typed)
             /\ Given("loadR", unread, typed, received, ret'[me])
  <2>1. /\ Filled(r, w, unread, buffer, typed)
        /\ Given("fetch", unread, typed, received, ret[me])
    BY <1>2, <1>9 DEF RingInv
  <2>2. /\ unread \in Nat /\ unread >= 1 /\ unread <= Len(typed)
        /\ typed \in Seq(NUL .. MaxKeys)
    BY <1>2 DEF RingInv, Counts, RTypeOK
  <2>3. Wrapped(r + 1) = Wrapped(Wrapped(r + 1)) /\ Wrapped(r + 1) \in 0 .. KEYBUFFER_MAX
    BY <1>3, KeyboardAssumption DEF Wrapped
  <2>4. buffer[r] = typed[Len(typed) - unread + 1]
    BY <1>3, <2>1, <2>2, <2>3, ReadFills
  <2>5. Taken("loadR", unread, typed) = Taken("fetch", unread, typed)
        /\ Taken("fetch", unread, typed) = Len(typed) - unread
    BY <2>2 DEF Taken, Late
  <2>6. ret'[me] = typed[Taken("loadR", unread, typed) + 1]
    BY <1>4, <1>5, <2>4, <2>5
  <2>7. Given("loadR", unread, typed, received, ret'[me])
    BY <2>1, <2>5, <2>6 DEF Given
  <2> QED
    BY <2>1, <2>7
<1>10. Place(Stage, r, tmp[Reader])'
  BY <1>1, <1>2, <1>7
<1>11. Counts(Stage, curr_elements, unread, tmp[Reader], Len(typed))'
  BY <1>1, <1>2, <1>8
<1>12. (~lapped => /\ Filled(r, w, unread, buffer, typed)
                   /\ Given(Stage, unread, typed, received, ret[Reader]))'
  BY <1>1, <1>2, <1>9
<1> QED
  BY <1>2, <1>6, <1>10, <1>11, <1>12 DEF RingInv

LEMMA RingLoadedR ==
    ASSUME KInv, KInv', RingFits, RingInv, LoadR
    PROVE  RingInv'
<1>1. /\ Step("loadR", "storeR") /\ tmp' = [tmp EXCEPT ![me] = r]
      /\ buffer' = buffer /\ r' = r /\ w' = w /\ curr_elements' = curr_elements
      /\ unread' = unread /\ lapped' = lapped /\ ret' = ret
      /\ typed' = typed /\ received' = received /\ blocking' = blocking
  BY DEF LoadR, ringVars
<1>2. /\ me \in Pid /\ Reader = me /\ Stage = "loadR"
      /\ OneInside' /\ NoneYet' /\ Stage' = "storeR" /\ Reader' = me
  <2>1. {"loadR", "storeR"} \subseteq Inside
    BY DEF Inside, ReadPoints
  <2> QED
    BY <1>1, <2>1, ReaderMoves, StepAdvances
<1>3. r \in 0 .. KEYBUFFER_MAX - 1 /\ KEYBUFFER_MAX \in Nat
  BY <1>2, KeyboardAssumption DEF RingInv, Place, RTypeOK
<1>4. tmp'[me] = r /\ tmp' \in [Pid -> 0 .. Word - 1]
  <2>1. r \in 0 .. Word - 1
    BY <1>3 DEF RingFits, Word
  <2> QED
    BY <1>1, <1>2, <2>1 DEF RingInv, RTypeOK
<1>5. RTypeOK'
  BY <1>1, <1>4 DEF RingInv, RTypeOK
<1>6. Place("storeR", r, tmp'[me])
  BY <1>3, <1>4 DEF Place
<1>7. Counts("storeR", curr_elements, unread, tmp'[me], Len(typed))
  BY <1>2 DEF RingInv, Counts
<1>8. ASSUME ~lapped
      PROVE  /\ Filled(r, w, unread, buffer, typed)
             /\ Given("storeR", unread, typed, received, ret[me])
  <2>1. /\ Filled(r, w, unread, buffer, typed)
        /\ Given("loadR", unread, typed, received, ret[me])
    BY <1>2, <1>8 DEF RingInv
  <2> QED
    BY <2>1 DEF Given, Taken, Late
<1>9. Place(Stage, r, tmp[Reader])'
  BY <1>1, <1>2, <1>6
<1>10. Counts(Stage, curr_elements, unread, tmp[Reader], Len(typed))'
  BY <1>1, <1>2, <1>7
<1>11. (~lapped => /\ Filled(r, w, unread, buffer, typed)
                   /\ Given(Stage, unread, typed, received, ret[Reader]))'
  BY <1>1, <1>2, <1>8
<1> QED
  BY <1>2, <1>5, <1>9, <1>10, <1>11 DEF RingInv

LEMMA RingStoredR ==
    ASSUME KInv, KInv', RingInv, StoreR
    PROVE  RingInv'
<1>1. /\ Step("storeR", "loadCount") /\ r' = tmp[me] + 1 /\ unread' = unread - 1
      /\ buffer' = buffer /\ w' = w /\ curr_elements' = curr_elements
      /\ lapped' = lapped /\ ret' = ret /\ tmp' = tmp
      /\ typed' = typed /\ received' = received /\ blocking' = blocking
  BY DEF StoreR, readerVars
<1>2. /\ me \in Pid /\ Reader = me /\ Stage = "storeR"
      /\ OneInside' /\ NoneYet' /\ Stage' = "loadCount" /\ Reader' = me
  <2>1. {"storeR", "loadCount"} \subseteq Inside
    BY DEF Inside, ReadPoints
  <2> QED
    BY <1>1, <2>1, ReaderMoves, StepAdvances
<1>3. /\ r \in 0 .. KEYBUFFER_MAX - 1 /\ r' = r + 1 /\ r' \in 0 .. KEYBUFFER_MAX
      /\ KEYBUFFER_MAX \in Nat
  BY <1>1, <1>2, KeyboardAssumption DEF RingInv, Place, RTypeOK
<1>4. /\ unread \in Nat /\ unread >= 1 /\ unread <= Len(typed) /\ unread' \in Nat
      /\ typed \in Seq(NUL .. MaxKeys) /\ Len(typed) \in Nat
  BY <1>1, <1>2 DEF RingInv, Counts, RTypeOK
<1>5. RTypeOK'
  BY <1>1, <1>3, <1>4 DEF RingInv, RTypeOK
<1>6. Place("loadCount", r', tmp[me])
  BY DEF Place
<1>7. Counts("loadCount", curr_elements, unread', tmp[me], Len(typed))
  <2>1. Counts("storeR", curr_elements, unread, tmp[me], Len(typed))
    BY <1>2 DEF RingInv
  <2>2. curr_elements \in Nat /\ Word \in Nat
    BY WordIs DEF RingInv, RTypeOK
  <2> QED
    BY <1>1, <1>4, <2>1, <2>2 DEF Counts
<1>8. ASSUME ~lapped
      PROVE  /\ Filled(r', w, unread', buffer, typed)
             /\ Given("loadCount", unread', typed, received, ret[me])
  <2>1. /\ Filled(r, w, unread, buffer, typed)
        /\ Given("storeR", unread, typed, received, ret[me])
    BY <1>2, <1>8 DEF RingInv
  <2>2. Filled(r', w, unread - 1, buffer, typed)
    <3>1. Wrapped(r') = Wrapped(r + 1)
      BY <1>3
    <3> QED
      BY <1>3, <1>4, <2>1, <3>1, ReadFills
  <2>3. Taken("loadCount", unread', typed) = Taken("storeR", unread, typed)
    BY <1>1, <1>4 DEF Taken, Late
  <2>4. Given("loadCount", unread', typed, received, ret[me])
    BY <2>1, <2>3 DEF Given, Late
  <2> QED
    BY <1>1, <2>2, <2>4
<1>9. Place(Stage, r, tmp[Reader])'
  BY <1>1, <1>2, <1>6
<1>10. Counts(Stage, curr_elements, unread, tmp[Reader], Len(typed))'
  BY <1>1, <1>2, <1>7
<1>11. (~lapped => /\ Filled(r, w, unread, buffer, typed)
                   /\ Given(Stage, unread, typed, received, ret[Reader]))'
  BY <1>1, <1>2, <1>8
<1> QED
  BY <1>2, <1>5, <1>9, <1>10, <1>11 DEF RingInv

LEMMA RingLoadedCount ==
    ASSUME KInv, KInv', RingInv, LoadCount
    PROVE  RingInv'
<1>1. /\ Step("loadCount", "storeCount") /\ tmp' = [tmp EXCEPT ![me] = curr_elements]
      /\ buffer' = buffer /\ r' = r /\ w' = w /\ curr_elements' = curr_elements
      /\ unread' = unread /\ lapped' = lapped /\ ret' = ret
      /\ typed' = typed /\ received' = received /\ blocking' = blocking
  BY DEF LoadCount, ringVars
<1>2. /\ me \in Pid /\ Reader = me /\ Stage = "loadCount"
      /\ OneInside' /\ NoneYet' /\ Stage' = "storeCount" /\ Reader' = me
  <2>1. {"loadCount", "storeCount"} \subseteq Inside
    BY DEF Inside, ReadPoints
  <2> QED
    BY <1>1, <2>1, ReaderMoves, StepAdvances
<1>3. tmp'[me] = curr_elements /\ tmp' \in [Pid -> 0 .. Word - 1]
  BY <1>1, <1>2 DEF RingInv, RTypeOK
<1>4. RTypeOK'
  BY <1>1, <1>3 DEF RingInv, RTypeOK
<1>5. Place("storeCount", r, tmp'[me])
  BY DEF Place
<1>6. Counts("storeCount", curr_elements, unread, tmp'[me], Len(typed))
  <2>1. Counts("loadCount", curr_elements, unread, tmp[me], Len(typed))
    BY <1>2 DEF RingInv
  <2> QED
    BY <1>3, <2>1 DEF Counts
<1>7. ASSUME ~lapped
      PROVE  /\ Filled(r, w, unread, buffer, typed)
             /\ Given("storeCount", unread, typed, received, ret[me])
  <2>1. /\ Filled(r, w, unread, buffer, typed)
        /\ Given("loadCount", unread, typed, received, ret[me])
    BY <1>2, <1>7 DEF RingInv
  <2> QED
    BY <2>1 DEF Given, Taken, Late
<1>8. Place(Stage, r, tmp[Reader])'
  BY <1>1, <1>2, <1>5
<1>9. Counts(Stage, curr_elements, unread, tmp[Reader], Len(typed))'
  BY <1>1, <1>2, <1>6
<1>10. (~lapped => /\ Filled(r, w, unread, buffer, typed)
                   /\ Given(Stage, unread, typed, received, ret[Reader]))'
  BY <1>1, <1>2, <1>7
<1> QED
  BY <1>2, <1>4, <1>8, <1>9, <1>10 DEF RingInv

LEMMA RingStoredCount ==
    ASSUME KInv, KInv', RingInv, StoreCount
    PROVE  RingInv'
<1>1. /\ Step("storeCount", "wrap") /\ curr_elements' = Count(tmp[me] - 1)
      /\ buffer' = buffer /\ r' = r /\ w' = w /\ tmp' = tmp
      /\ unread' = unread /\ lapped' = lapped /\ ret' = ret
      /\ typed' = typed /\ received' = received /\ blocking' = blocking
  BY DEF StoreCount, readerVars
<1>2. /\ me \in Pid /\ Reader = me /\ Stage = "storeCount"
      /\ OneInside' /\ NoneYet' /\ Stage' = "wrap" /\ Reader' = me
  <2>1. {"storeCount", "wrap"} \subseteq Inside
    BY DEF Inside, ReadPoints
  <2> QED
    BY <1>1, <2>1, ReaderMoves, StepAdvances
<1>3. /\ tmp[me] \in 0 .. Word - 1 /\ unread \in Nat /\ Word \in Nat /\ Word > 1
  BY <1>2, WordIs DEF RingInv, RTypeOK
<1>4. curr_elements' = (IF tmp[me] = 0 THEN Word - 1 ELSE tmp[me] - 1)
  BY <1>1, <1>3, CountIs
<1>5. RTypeOK'
  <2>1. curr_elements' \in 0 .. Word - 1
    BY <1>3, <1>4
  <2> QED
    BY <1>1, <2>1 DEF RingInv, RTypeOK
<1>6. Place("wrap", r, tmp[me])
  BY DEF Place
<1>7. Counts("wrap", curr_elements', unread, tmp[me], Len(typed))
  <2>1. Counts("storeCount", curr_elements, unread, tmp[me], Len(typed))
    BY <1>2 DEF RingInv
  <2>2. curr_elements' <= unread
    BY <1>3, <1>4, <2>1 DEF Counts
  <2> QED
    BY <1>3, <2>1, <2>2 DEF Counts
<1>8. ASSUME ~lapped
      PROVE  /\ Filled(r, w, unread, buffer, typed)
             /\ Given("wrap", unread, typed, received, ret[me])
  <2>1. /\ Filled(r, w, unread, buffer, typed)
        /\ Given("storeCount", unread, typed, received, ret[me])
    BY <1>2, <1>8 DEF RingInv
  <2> QED
    BY <2>1 DEF Given, Taken, Late
<1>9. Place(Stage, r, tmp[Reader])'
  BY <1>1, <1>2, <1>6
<1>10. Counts(Stage, curr_elements, unread, tmp[Reader], Len(typed))'
  BY <1>1, <1>2, <1>7
<1>11. (~lapped => /\ Filled(r, w, unread, buffer, typed)
                   /\ Given(Stage, unread, typed, received, ret[Reader]))'
  BY <1>1, <1>2, <1>8
<1> QED
  BY <1>2, <1>5, <1>9, <1>10, <1>11 DEF RingInv

LEMMA RingWrapped ==
    ASSUME KInv, KInv', RingInv, Wrap
    PROVE  RingInv'
<1>1. /\ Step("wrap", "return") /\ r' = Wrapped(r)
      /\ buffer' = buffer /\ w' = w /\ tmp' = tmp /\ curr_elements' = curr_elements
      /\ unread' = unread /\ lapped' = lapped /\ ret' = ret
      /\ typed' = typed /\ received' = received /\ blocking' = blocking
  BY DEF Wrap, readerVars
<1>2. /\ me \in Pid /\ Reader = me /\ Stage = "wrap"
      /\ OneInside' /\ NoneYet' /\ Stage' = "return" /\ Reader' = me
  <2>1. {"wrap", "return"} \subseteq Inside
    BY DEF Inside, ReadPoints
  <2> QED
    BY <1>1, <2>1, ReaderMoves, StepAdvances
<1>3. /\ r' \in 0 .. KEYBUFFER_MAX - 1 /\ Wrapped(r') = Wrapped(r)
      /\ KEYBUFFER_MAX \in Nat
  BY <1>1, WrappedIs, KeyboardAssumption DEF RingInv, RTypeOK
<1>4. RTypeOK'
  BY <1>1, <1>3 DEF RingInv, RTypeOK
<1>5. Place("return", r', tmp[me])
  BY <1>3 DEF Place
<1>6. Counts("return", curr_elements, unread, tmp[me], Len(typed))
  BY <1>2 DEF RingInv, Counts
<1>7. ASSUME ~lapped
      PROVE  /\ Filled(r', w, unread, buffer, typed)
             /\ Given("return", unread, typed, received, ret[me])
  <2>1. /\ Filled(r, w, unread, buffer, typed)
        /\ Given("wrap", unread, typed, received, ret[me])
    BY <1>2, <1>7 DEF RingInv
  <2>2. \A i : Slot(r', i) = Slot(r, i)
    BY <1>3 DEF Slot
  <2>3. Filled(r', w, unread, buffer, typed)
    BY <2>1, <2>2 DEF Filled
  <2>4. Given("return", unread, typed, received, ret[me])
    BY <2>1 DEF Given, Taken, Late
  <2> QED
    BY <2>3, <2>4
<1>8. Place(Stage, r, tmp[Reader])'
  BY <1>1, <1>2, <1>5
<1>9. Counts(Stage, curr_elements, unread, tmp[Reader], Len(typed))'
  BY <1>1, <1>2, <1>6
<1>10. (~lapped => /\ Filled(r, w, unread, buffer, typed)
                   /\ Given(Stage, unread, typed, received, ret[Reader]))'
  BY <1>1, <1>2, <1>7
<1> QED
  BY <1>2, <1>4, <1>8, <1>9, <1>10 DEF RingInv

(* The end of bufferRead: the key it took is returned, unless it is NUL.   *)
LEMMA RingReturned ==
    ASSUME KInv, KInv', RingInv, ReturnKey \/ ReturnNul
    PROVE  RingInv'
<1> DEFINE to == IF ret[me] = NUL THEN "block" ELSE "user"
<1>1. /\ Advance("return", to)
      /\ received' = (IF ret[me] = NUL THEN received ELSE Append(received, ret[me]))
      /\ buffer' = buffer /\ r' = r /\ w' = w /\ tmp' = tmp /\ curr_elements' = curr_elements
      /\ unread' = unread /\ lapped' = lapped /\ ret' = ret
      /\ typed' = typed /\ blocking' = blocking
  BY DEF ReturnKey, ReturnNul, Step, WaitAgain, Advance, kbVars, ringVars, readerVars
<1>2. /\ me \in Pid /\ Reader = me /\ Stage = "return"
      /\ OneInside' /\ NoneYet' /\ Stage' = "idle"
  <2>1. "return" \in Inside /\ to \notin Inside
    BY DEF Inside, ReadPoints
  <2> HIDE DEF to
  <2> QED
    BY <1>1, <2>1, ReaderMoves
<1>3. /\ ret[me] \in NUL .. MaxKeys /\ received \in Seq(1 .. MaxKeys)
      /\ MaxKeys \in Nat /\ unread \in Nat /\ typed \in Seq(NUL .. MaxKeys)
  BY <1>2, KeyboardAssumption DEF RingInv, RTypeOK
<1>4. RTypeOK'
  <2>1. received' \in Seq(1 .. MaxKeys)
    <3>1. CASE ret[me] = NUL
      BY <1>1, <1>3, <3>1
    <3>2. CASE ret[me] # NUL
      <4>1. ret[me] \in 1 .. MaxKeys
        BY <1>3, <3>2 DEF NUL
      <4> QED
        BY <1>1, <1>3, <3>2, <4>1
    <3> QED
      BY <3>1, <3>2
  <2> QED
    BY <1>1, <2>1 DEF RingInv, RTypeOK
<1>5. \A s : Place("idle", r, s)
  BY <1>2 DEF RingInv, Place
<1>6. \A s : Counts("idle", curr_elements, unread, s, Len(typed))
  BY <1>2 DEF RingInv, Counts
<1>7. ASSUME ~lapped
      PROVE  /\ Filled(r, w, unread, buffer, typed)
             /\ \A v : Given("idle", unread, typed, received', v)
  <2> DEFINE n == Taken("return", unread, typed)
  <2>1. /\ Filled(r, w, unread, buffer, typed)
        /\ Given("return", unread, typed, received, ret[me])
    BY <1>2, <1>7 DEF RingInv
  <2>2. /\ n \in Nat /\ received = Keys(Begin(typed, n)) /\ ret[me] = typed[n + 1]
    BY <2>1 DEF Given, Late
  <2>3. /\ Taken("idle", unread, typed) = n + 1 /\ n + 1 \in 1 .. Len(typed)
    <3>1. Len(typed) \in Nat
      BY <1>3
    <3> QED
      BY <1>3, <2>2, <3>1 DEF Taken, Late
  <2> HIDE DEF n
  <2>4. (n + 1) - 1 = n
    BY <2>2
  <2>5. received' = Keys(Begin(typed, n + 1))
    BY <1>1, <1>3, <2>2, <2>3, <2>4, KeysOfNext
  <2>6. \A v : Given("idle", unread, typed, received', v)
    BY <2>2, <2>3, <2>5 DEF Given, Late
  <2> QED
    BY <2>1, <2>6
<1>8. Place(Stage, r, tmp[Reader])'
  BY <1>1, <1>2, <1>5
<1>9. Counts(Stage, curr_elements, unread, tmp[Reader], Len(typed))'
  BY <1>1, <1>2, <1>6
<1>10. (~lapped => /\ Filled(r, w, unread, buffer, typed)
                   /\ Given(Stage, unread, typed, received, ret[Reader]))'
  BY <1>1, <1>2, <1>7
<1> QED
  BY <1>2, <1>4, <1>8, <1>9, <1>10 DEF RingInv

(* A read in one piece.                                                    *)
LEMMA RingCalled ==
    ASSUME KInv, KInv', RingInv, GetInputCall, ReadsApart
    PROVE  RingInv'
<1>1. /\ r' = Wrapped(r + 1) /\ curr_elements # 0 /\ curr_elements' = Count(curr_elements - 1)
      /\ unread' = unread - 1
      /\ received' = (IF At(r) = NUL THEN received ELSE Append(received, At(r)))
      /\ buffer' = buffer /\ w' = w /\ tmp' = tmp
      /\ lapped' = lapped /\ ret' = ret /\ typed' = typed /\ blocking' = blocking
  BY DEF GetInputCall, readerVars
<1>2. AtPoints /\ progress[me] = "user"
  BY PointsHold DEF AtPoints, GetInputCall, me
<1>3. UNCHANGED <<progress, curr_PID>> \/ Moves("user", "block")
  BY <1>2 DEF GetInputCall, Goto, schedState, procVars, AtPoints, Moves, me
<1>4. SameInside /\ NoneYet'
  <2>1. {"user", "block"} \cap Inside = {}
    BY DEF Inside, ReadPoints
  <2> QED
    BY <1>3, <2>1, MoveOutside, NoneYetKept DEF RingInv
<1>5. Readers = {}
  <2>1. \A p \in Pid \ {currentProcess} : progress[p] \notin Inside
    BY DEF ReadsApart
  <2>2. progress[me] \notin Inside
    BY <1>2 DEF Inside, ReadPoints
  <2> QED
    BY <2>1, <2>2 DEF Readers, me
<1>6. Stage = "idle" /\ Stage' = "idle" /\ OneInside'
  BY <1>4, <1>5, StageStays DEF RingInv, Stage
<1>7. /\ r \in 0 .. KEYBUFFER_MAX - 1 /\ r \in 0 .. KEYBUFFER_MAX
      /\ r' \in 0 .. KEYBUFFER_MAX - 1 /\ r' \in 0 .. KEYBUFFER_MAX
      /\ Wrapped(r') = Wrapped(r + 1) /\ KEYBUFFER_MAX \in Nat
  BY <1>1, <1>6, KeyboardAssumption DEF RingInv, Place, RTypeOK, Wrapped
<1>8. /\ curr_elements \in 1 .. Word - 1 /\ Word \in Nat
      /\ unread \in Nat /\ unread >= curr_elements /\ unread <= Len(typed)
      /\ typed \in Seq(NUL .. MaxKeys) /\ received \in Seq(1 .. MaxKeys)
      /\ Len(typed) \in Nat
  BY <1>1, <1>6, WordIs DEF RingInv, RTypeOK, Counts
<1>9. unread >= 1 /\ curr_elements' = curr_elements - 1
  <2>1. curr_elements \in 0 .. Word - 1 /\ curr_elements # 0
    BY <1>8
  <2> QED
    BY <1>1, <1>8, <2>1, CountIs
<1>10. At(r) = buffer[r] /\ At(r) \in NUL .. MaxKeys
  BY <1>7 DEF At, RingInv, RTypeOK
<1>11. RTypeOK'
  <2>1. received' \in Seq(1 .. MaxKeys)
    <3>1. CASE At(r) = NUL
      BY <1>1, <1>8, <3>1
    <3>2. CASE At(r) # NUL
      <4>1. At(r) \in 1 .. MaxKeys
        BY <1>10, <3>2, KeyboardAssumption DEF NUL
      <4> QED
        BY <1>1, <1>8, <3>2, <4>1
    <3> QED
      BY <3>1, <3>2
  <2>2. curr_elements' \in 0 .. Word - 1 /\ unread' \in Nat
    BY <1>1, <1>8, <1>9
  <2> QED
    BY <1>1, <1>7, <2>1, <2>2 DEF RingInv, RTypeOK
<1>12. \A s : Place("idle", r', s)
  BY <1>7 DEF Place
<1>13. \A s : Counts("idle", curr_elements', unread', s, Len(typed))
  BY <1>1, <1>8, <1>9 DEF Counts
<1>14. ASSUME ~lapped
       PROVE  /\ Filled(r', w, unread', buffer, typed)
              /\ \A v : Given("idle", unread', typed, received', v)
  <2> DEFINE n == Taken("idle", unread, typed)
  <2>1. /\ Filled(r, w, unread, buffer, typed)
        /\ Given("idle", unread, typed, received, ret[Reader])
    BY <1>6, <1>14 DEF RingInv
  <2>2. Filled(r', w, unread - 1, buffer, typed) /\ buffer[r] = typed[Len(typed) - unread + 1]
    BY <1>7, <1>8, <1>9, <2>1, ReadFills
  <2>3. n = Len(typed) - unread /\ n \in Nat /\ n + 1 \in 1 .. Len(typed)
    BY <1>8, <1>9 DEF Taken, Late
  <2>4. received = Keys(Begin(typed, n)) /\ At(r) = typed[n + 1]
    BY <1>10, <2>1, <2>2, <2>3 DEF Given
  <2>5. Taken("idle", unread', typed) = n + 1
    BY <1>1, <1>8, <2>3 DEF Taken, Late
  <2> HIDE DEF n
  <2>6. (n + 1) - 1 = n
    BY <2>3
  <2>7. received' = Keys(Begin(typed, n + 1))
    BY <1>1, <1>8, <2>3, <2>4, <2>6, KeysOfNext
  <2>8. \A v : Given("idle", unread', typed, received', v)
    BY <2>3, <2>5, <2>7 DEF Given, Late
  <2> QED
    BY <1>1, <2>2, <2>8
<1>15. Place(Stage, r, tmp[Reader])'
  BY <1>1, <1>6, <1>12
<1>16. Counts(Stage, curr_elements, unread, tmp[Reader], Len(typed))'
  BY <1>1, <1>6, <1>13
<1>17. (~lapped => /\ Filled(r, w, unread, buffer, typed)
                   /\ Given(Stage, unread, typed, received, ret[Reader]))'
  BY <1>1, <1>6, <1>14
<1> QED
  BY <1>4, <1>6, <1>11, <1>15, <1>16, <1>17 DEF RingInv

LEMMA RingStep ==
    ASSUME KInv, KInv', RingFits, RingInv, [KNext]_kvars, [ReadsApart]_kvars
    PROVE  RingInv'
<1>1. ASSUME SameInside, NoneYet', UNCHANGED <<ringVars, readerVars, typed, received>>,
             blocking' \in {blocking, me}
      PROVE  RingInv'
  <2>1. blocking' \in Pid \cup {NULL}
    BY <1>1, PointsHold DEF RingInv, RTypeOK, AtPoints, me
  <2> QED
    BY <1>1, <2>1, RingUntouched
<1>2. CASE UNCHANGED kvars
  <2>1. UNCHANGED <<progress, curr_PID, ringVars, readerVars, typed, received, blocking>>
    BY <1>2 DEF kvars, vars, kbVars
  <2>2. SameInside /\ NoneYet'
    BY <2>1, MoveOutside, NoneYetKept DEF RingInv
  <2> QED
    BY <1>1, <2>1, <2>2
<1>3. CASE Others
  <2>1. SameInside /\ NoneYet'
    BY <1>3, OthersMove, MoveOutside, NoneYetKept DEF RingInv
  <2> QED
    BY <1>1, <1>3, <2>1 DEF Others, kbVars
<1>4. ASSUME NEW from, NEW to, {from, to} \cap Inside = {}, Advance(from, to),
             from \notin {"halt", "loop"}
      PROVE  SameInside /\ NoneYet'
  BY <1>4, LoopMoves, MoveOutside, NoneYetKept DEF RingInv
<1>5. CASE GetInputWaits
  <2>1. /\ {"user", "block"} \cap Inside = {} /\ UNCHANGED kbVars
        /\ Advance("user", "block")
    BY <1>5 DEF GetInputWaits, BlockProcess, Advance, schedState, Inside, ReadPoints
  <2> QED
    BY <1>1, <1>4, <2>1 DEF kbVars
<1>6. CASE NoteBlocking
  <2>1. /\ {"unblocked", "check"} \cap Inside = {}
        /\ Advance("unblocked", "check") /\ blocking' = me
        /\ UNCHANGED <<ringVars, readerVars, typed, received>>
    BY <1>6, StepAdvances DEF NoteBlocking, Inside, ReadPoints
  <2> QED
    BY <1>1, <1>4, <2>1
<1>7. CASE CheckEmpty
  <2>1. /\ {"check", "block"} \cap Inside = {} /\ UNCHANGED kbVars
        /\ Advance("check", "block")
    BY <1>7 DEF CheckEmpty, WaitAgain, Advance, Inside, ReadPoints
  <2> QED
    BY <1>1, <1>4, <2>1 DEF kbVars
<1>8. CASE ReadsApart /\ GetInputStep
  BY <1>6, <1>7, <1>8, RingEntered, RingFetched, RingLoadedR, RingStoredR, RingLoadedCount,
     RingStoredCount, RingWrapped, RingReturned DEF GetInputStep
<1> QED
  BY <1>2, <1>3, <1>5, <1>8, RingTyped, RingCalled DEF KNext

LEMMA RingStarts ==
    ASSUME KInit
    PROVE  RingInv
<1>1. /\ buffer = [i \in 0 .. KEYBUFFER_MAX - 1 |-> NUL]
      /\ r = 0 /\ w = 0 /\ curr_elements = 0 /\ blocking = NULL
      /\ ret = [p \in Pid |-> NUL] /\ tmp = [p \in Pid |-> 0]
      /\ typed = <<>> /\ received = <<>>
      /\ unread = 0 /\ lapped = FALSE
  BY DEF KInit
<1>2. progress = [p \in Pid |-> CASE p = KProcess    -> "loop"
                                  [] p = InitProcess -> "start"
                                  [] OTHER           -> "none"]
  BY DEF KInit, Init
<1>3. NoneYet
  <2>1. AtPoints /\ curr_PID = 2
    BY KeyboardStarts, PointsHold DEF KInit, Init
  <2> QED
    BY <1>2, <2>1 DEF AtPoints, NoneYet, Pid, KProcess, InitProcess
<1>4. Readers = {}
  <2>1. {"loop", "start", "none"} \cap Inside = {}
    BY DEF Inside, ReadPoints
  <2>2. \A p \in Pid : progress[p] \in {"loop", "start", "none"}
    BY <1>2
  <2> QED
    BY <2>1, <2>2 DEF Readers
<1>5. OneInside /\ Stage = "idle"
  BY <1>4 DEF OneInside, Stage
<1>6. RTypeOK
  <2>1. MaxKeys \in Nat /\ KEYBUFFER_MAX \in Nat /\ KEYBUFFER_MAX > 0
    BY KeyboardAssumption
  <2> QED
    BY <1>1, <2>1, WordIs DEF RTypeOK, NUL
<1>7. Place("idle", r, tmp[Reader])
  BY <1>1, KeyboardAssumption DEF Place
<1>8. Counts("idle", curr_elements, unread, tmp[Reader], Len(typed))
  BY <1>1 DEF Counts
<1>9. Filled(r, w, unread, buffer, typed)
  BY <1>1, KeyboardAssumption DEF Filled, Slot, Wrapped
<1>10. Given("idle", unread, typed, received, ret[Reader])
  <2>1. Taken("idle", unread, typed) = 0
    BY <1>1 DEF Taken, Late
  <2>2. Keys(Begin(typed, 0)) = <<>>
    BY <1>6, KeysOfNone DEF RTypeOK
  <2> QED
    BY <1>1, <2>1, <2>2 DEF Given, Late
<1> QED
  BY <1>3, <1>5, <1>6, <1>7, <1>8, <1>9, <1>10 DEF RingInv

LEMMA RingSays == KInv /\ RingInv => KTypeOK /\ DeliveredInOrder
<1> SUFFICES ASSUME KInv, RingInv PROVE KTypeOK /\ DeliveredInOrder
  OBVIOUS
<1>1. KTypeOK
  BY DEF KTypeOK, KInv, IInv, RingInv, RTypeOK, Word
<1>2. DeliveredInOrder
  <2> SUFFICES ASSUME ~lapped PROVE IsPrefix(received, Keys(typed))
    BY DEF DeliveredInOrder
  <2> DEFINE n == Taken(Stage, unread, typed)
  <2>1. typed \in Seq(NUL .. MaxKeys) /\ unread \in Nat
    BY DEF RingInv, RTypeOK
  <2>2. n \in 0 .. Len(typed) /\ received = Keys(Begin(typed, n))
    <3>1. Given(Stage, unread, typed, received, ret[Reader])
      BY DEF RingInv
    <3> QED
      BY <2>1, <3>1 DEF Given, Taken
  <2> HIDE DEF n
  <2> QED
    BY <2>1, <2>2, KeysOfBeginFirst
<1> QED
  BY <1>1, <1>2

LEMMA AlwaysRing ==
    NoWrap /\ RingFits =>
        (KSpec /\ [][ReadsApart]_kvars => [](KTypeOK /\ DeliveredInOrder))
<1> SUFFICES ASSUME NoWrap, RingFits
             PROVE  KSpec /\ [][ReadsApart]_kvars => [](KTypeOK /\ DeliveredInOrder)
  OBVIOUS
<1>1. KInit => KInv /\ RingInv
  BY KeyboardStarts, RingStarts
<1>2. KInv /\ [KNext]_kvars => KInv'
  BY KeyboardStepKeeps
<1>3. KInv /\ KInv' /\ RingInv /\ [KNext]_kvars /\ [ReadsApart]_kvars => RingInv'
  BY RingStep
<1> QED
  BY <1>1, <1>2, <1>3, RingSays, PTL DEF KSpec

(* The variables keep their types; in particular r stays inside the ring,  *)
(* and bufferRead reads nothing else, whatever interrupts it (between the  *)
(* lines that move r and wrap it, it points behind the ring).              *)
THEOREM KeyboardTypeCorrect ==
    NoWrap /\ RingFits => (KSpec /\ [][ReadsApart]_kvars => []KTypeOK)
  BY AlwaysRing, PTL

(* Programs that do not interrupt each other in bufferRead get the keys in *)
(* the order typed, none twice and none invented, wherever kb_handler and  *)
(* the timer strike (Keyboard.c:61-80, 88-131), until the ring is run over.*)
THEOREM KeysDeliveredInOrder ==
    NoWrap /\ RingFits => (KSpec /\ [][ReadsApart]_kvars => []DeliveredInOrder)
  BY AlwaysRing, PTL

(* One program alone reads with nobody to interrupt it in bufferRead.      *)
LEMMA AloneReadsApart ==
    ASSUME MaxPid = 1, KInv
    PROVE  ReadsApart
<1> SUFFICES ASSUME NEW p \in Pid \ {currentProcess}, progress[p] \in Inside,
                    GetInputCall \/ CheckFilled
             PROVE  FALSE
  BY DEF ReadsApart
<1>1. currentProcess # KProcess /\ currentProcess \in Pid
  BY NotKernel DEF KInv, GetInputCall, CheckFilled, Step
<1>2. p = KProcess
  BY <1>1 DEF Pid, KProcess
<1>3. KProcess \in Live /\ KProcess \in Created
  BY DEF KInv, IInv, KernelReady, Live
<1>4. stack[KProcess] = Frame(KProcess, progress[KProcess])
  BY <1>1, <1>3 DEF KInv, ContextInv, ContextKept
<1>5. stack[KProcess].at \in {"halt", "loop"}
  BY <1>3 DEF KInv, IInv, FramesOwned, OwnFrame
<1>6. progress[KProcess] \in {"halt", "loop"}
  BY <1>4, <1>5 DEF Frame
<1> QED
  BY <1>2, <1>6 DEF Inside, ReadPoints

THEOREM OneProgramReadsInOrder ==
    MaxPid = 1 /\ NoWrap /\ RingFits => (KSpec => [](KTypeOK /\ DeliveredInOrder))
<1> SUFFICES ASSUME MaxPid = 1, NoWrap, RingFits
             PROVE  KSpec => [](KTypeOK /\ DeliveredInOrder)
  OBVIOUS
<1>1. KInit => KInv
  BY KeyboardStarts
<1>2. KInv /\ [KNext]_kvars => KInv'
  BY KeyboardStepKeeps
<1>3. KInv => ReadsApart
  BY AloneReadsApart
<1>4. KSpec /\ [][ReadsApart]_kvars => [](KTypeOK /\ DeliveredInOrder)
  BY AlwaysRing
<1> QED
  BY <1>1, <1>2, <1>3, <1>4, PTL DEF KSpec
=============================================================================
