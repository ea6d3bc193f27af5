------------------------------ MODULE Scheduling ------------------------------
(***************************************************************************)
(* Processes and their round-robin scheduler: modules/processes/Process.c, *)
(* modules/processes/Scheduler_RR.c, and the common interrupt return path  *)
(* of modules/interrupts/aIDT.s that loads the frame left in DR0.          *)
(*                                                                         *)
(* The machine has one CPU.  A system call enters through an interrupt     *)
(* gate, so it runs with interrupts off until Process_fSwitch executes     *)
(* "sti": everything before is one action here, and every program point    *)
(* this module names is a point at which interrupts are on:                *)
(*    "start"      user code of a new program, before makeForeground       *)
(*    "user"       user code                                               *)
(*    "force"      in fSwitch, before its "int 32"                         *)
(*    "resumed"    after that "int 32", before the return to user code     *)
(*    "block"      as "force", called by blockProcess for getInput         *)
(*    "unblocked"  as "resumed", in getInput after blockProcess            *)
(*    "halt"       the kernel process in halt_cpu, called by               *)
(*    "loop"       the loop of Kernel_halt                                 *)
(* GetInputPoints adds the points a more detailed getInput stops at.       *)
(***************************************************************************)
EXTENDS Integers, Sequences, FiniteSets

CONSTANTS
    MaxPid,         \* bound on the process identifiers handed out
    Ticks,          \* tick counts modulo Ticks (2^32 in the code)
    ForegroundOnce, \* programs call makeForeground only when they start
    GetInputPoints  \* further program points inside getInput

Quantum == 3        \* PIT_handler switches on every third tick

ASSUME SchedulingAssumption ==
    /\ MaxPid \in Nat /\ MaxPid >= 1
    /\ Ticks \in Nat /\ Ticks >= Quantum
    /\ ForegroundOnce \in BOOLEAN
    /\ GetInputPoints \cap {"none", "start", "user", "force", "resumed",
                            "block", "unblocked", "halt", "loop"} = {}

KProcess == 0
InitProcess == 1
Pid == 0 .. MaxPid
NULL == -1

ProcessState == {"NONE", "CREATED", "WAIT", "ACTIVE", "KILLED", "BLOCKED"}

Points == {"none", "start", "user", "force", "resumed", "block", "unblocked",
           "halt", "loop"} \cup GetInputPoints

(* A trap frame: whose stack it lies on and where its iret goes.  NoFrame  *)
(* is the zero PIT_handler leaves in DR0 when it did not call the scheduler.*)
Frame(p, at) == [owner |-> p, at |-> at]
NoFrame == Frame(KProcess, "none")
Frames == [owner : Pid, at : Points]

VARIABLES
    curr_PID,       \* next identifier
    state,          \* pcb_t.state; "NONE" before the pcb exists
    parent,         \* pcb_t.parent
    process_list,   \* the scheduler's list, front first
    currentProcess,
    tick,
    DR0,            \* frame the interrupt return loads, if any
    stack,          \* frame at userStack.top (kernelStack.top for kprocess)
    tss,            \* process whose kernel stack is in the TSS
    cr3,            \* process whose page directory is loaded
    cpu,            \* the context that executes
    panicked,       \* Kernel_panic was reached: hlt with interrupts off
    killed,         \* history: processes that were killed
    progress        \* history: the point each process has really reached

procVars == <<curr_PID, parent, killed>>
ctxVars  == <<currentProcess, stack, tss, cr3>>
vars == <<curr_PID, state, parent, process_list, currentProcess, tick, DR0,
          stack, tss, cr3, cpu, panicked, killed, progress>>

Elems(s) == {s[i] : i \in DOMAIN s}
NoDuplicates(s) == \A i, j \in DOMAIN s : s[i] = s[j] => i = j
ListElems == Elems(process_list)
Created == {p \in Pid : state[p] # "NONE"}
Live == Created \ killed

-----------------------------------------------------------------------------
(* User_switchTo: the initial program is created, then the kernel process   *)
(* is appended, and the CPU enters the program in user mode.                *)
Init ==
    /\ curr_PID = 2
    /\ state = [p \in Pid |-> IF p \in {KProcess, InitProcess} THEN "WAIT" ELSE "NONE"]
    /\ parent = [p \in Pid |-> NULL]
    /\ process_list = <<InitProcess, KProcess>>
    /\ currentProcess = InitProcess
    /\ tick = 0
    /\ DR0 = NoFrame
    /\ stack = [p \in Pid |-> CASE p = KProcess    -> Frame(p, "loop")
                                [] p = InitProcess -> Frame(p, "start")
                                [] OTHER           -> NoFrame]
    /\ tss = InitProcess
    /\ cr3 = InitProcess
    /\ cpu = Frame(InitProcess, "start")
    /\ panicked = FALSE
    /\ killed = {}
    /\ progress = [p \in Pid |-> CASE p = KProcess    -> "loop"
                                   [] p = InitProcess -> "start"
                                   [] OTHER           -> "none"]

-----------------------------------------------------------------------------
(* LinkedList operations on the process list.                               *)
Position(p) == CHOOSE i \in DOMAIN process_list : process_list[i] = p

Without_KeepsNode(s, i) == s   \* faulty: kill forgets to remove the node
Without(s, i) == SubSeq(s, 1, i - 1) \o SubSeq(s, i + 1, Len(s))

(* The list after its first i nodes were popped and appended, one by one;   *)
(* faulty: the last one is not appended, or is put back at the front.       *)
Rotated_LosesNode(s, i) == SubSeq(s, i + 1, Len(s)) \o SubSeq(s, 1, i - 1)
Rotated_ToFront(s, i) == <<s[i]>> \o SubSeq(s, 1, i - 1) \o SubSeq(s, i + 1, Len(s))
Rotated(s, i) == SubSeq(s, i + 1, Len(s)) \o SubSeq(s, 1, i)

(* Scheduler_nextProcess in the loop of contextSwitch: the first process of *)
(* the list that is neither killed nor blocked.  RunnableExists shows that  *)
(* there is one, so that the loop ends and the list is never empty.         *)
Runnable_IgnoresBlocked(p) == state[p] # "KILLED"   \* faulty
Runnable(p) == state[p] \notin {"KILLED", "BLOCKED"}

IsNext(i) == /\ i \in DOMAIN process_list
             /\ Runnable(process_list[i])
             /\ \A j \in 1 .. i - 1 : ~Runnable(process_list[j])

NextIndex == CHOOSE i \in 1 .. Len(process_list) : IsNext(i)

(* Process_contextSwitch, interrupted with frame regs.  The process that is *)
(* switched away from ends up ACTIVE, whatever lines 221-222 made of it.    *)
(* Faulty (here, though line 237 announces it): the next process is ACTIVE. *)
StateAfterSwitch_OfNext(process, next) ==
    [state EXCEPT ![process] = IF @ = "ACTIVE" THEN "WAIT" ELSE @,
                  ![next] = "ACTIVE"]
StateAfterSwitch(process, next) == [state EXCEPT ![process] = "ACTIVE"]

(* Faulty: the TSS keeps the kernel stack of the process switched away from.*)
ContextSwitch_KeepsTSS(regs) ==
    LET process == currentProcess
        next    == process_list[NextIndex]
    IN  /\ process_list' = Rotated(process_list, NextIndex)
        /\ IF process = next
             THEN UNCHANGED <<ctxVars, state, DR0>>
             ELSE /\ stack' = [stack EXCEPT ![process] = regs]
                  /\ DR0' = stack[next]
                  /\ state' = StateAfterSwitch(process, next)
                  /\ currentProcess' = next
                  /\ cr3' = next
                  /\ UNCHANGED tss

ContextSwitch(regs) ==
    LET process == currentProcess
        next    == process_list[NextIndex]
    IN  /\ process_list' = Rotated(process_list, NextIndex)
        /\ IF process = next
             THEN UNCHANGED <<ctxVars, state, DR0>>
             ELSE /\ stack' = [stack EXCEPT ![process] = regs]
                  /\ tss' = IF next # KProcess THEN next ELSE tss
                  /\ DR0' = stack[next]
                  /\ state' = StateAfterSwitch(process, next)
                  /\ currentProcess' = next
                  /\ cr3' = next

(* PIT_handler.                                                             *)
NextTick_Unbounded == tick + 1   \* faulty: wider than the counter
NextTick == IF tick + 1 = Ticks THEN 0 ELSE tick + 1

PIT_handler_KeepsDR0(regs) ==   \* faulty: DR0 survives a tick without a switch
    /\ tick' = NextTick
    /\ IF NextTick % Quantum = 0
         THEN ContextSwitch(regs)
         ELSE UNCHANGED <<ctxVars, state, process_list, DR0>>

PIT_handler(regs) ==
    /\ tick' = NextTick
    /\ IF NextTick % Quantum = 0
         THEN ContextSwitch(regs)
         ELSE /\ DR0' = NoFrame
              /\ UNCHANGED <<ctxVars, state, process_list>>

(* idt_common after interrupt 32: the frame in DR0, when there is one.      *)
TrapReturn(regs) == cpu' = IF DR0' # NoFrame THEN DR0' ELSE regs

(* Interrupt 32, raised by the timer or by "int 32".                        *)
Interrupt32(regs) ==
    /\ PIT_handler(regs)
    /\ TrapReturn(regs)
    /\ UNCHANGED <<procVars, panicked>>

(* The timer interrupts whatever runs.                                      *)
TimerInterrupt ==
    /\ ~panicked
    /\ Interrupt32(cpu)
    /\ UNCHANGED progress

(* The "int 32" of Process_fSwitch, which returns to the point behind it.   *)
AfterForce == [force |-> "resumed", block |-> "unblocked"]

ForcedSwitch ==
    /\ ~panicked
    /\ cpu.at \in DOMAIN AfterForce
    /\ progress' = [progress EXCEPT ![cpu.owner] = AfterForce[cpu.at]]
    /\ Interrupt32(Frame(cpu.owner, AfterForce[cpu.at]))

-----------------------------------------------------------------------------
(* System calls of the running process; all end in user mode or in fSwitch. *)
Goto(at) == /\ cpu' = [cpu EXCEPT !.at = at]
            /\ progress' = [progress EXCEPT ![cpu.owner] = at]

(* Process_createChild: the pcb, its first frame and its place in the list. *)
CreateChild ==
    /\ ~panicked /\ cpu.at = "user"
    /\ curr_PID <= MaxPid
    /\ curr_PID' = curr_PID + 1
    /\ parent' = [parent EXCEPT ![curr_PID] = currentProcess]
    /\ state' = [state EXCEPT ![curr_PID] = "WAIT"]
    /\ stack' = [stack EXCEPT ![curr_PID] = Frame(curr_PID, "start")]
    /\ progress' = [progress EXCEPT ![curr_PID] = "start"]
    /\ process_list' = Append(process_list, curr_PID)
    /\ UNCHANGED <<currentProcess, tick, DR0, tss, cr3, cpu, panicked, killed>>

(* Process_kill(q): the scheduler forgets q and a parent that waits for it  *)
(* is released.  A q that is no longer in the list makes removeNode         *)
(* dereference NULL: a page fault, and a panic.                             *)
Release_KeepsParent(q) == [state EXCEPT ![q] = "KILLED"]   \* faulty

Release(q) ==
    [p \in Pid |-> CASE p = q                                  -> "KILLED"
                     [] p = parent[q] /\ state[p] = "BLOCKED" -> "WAIT"
                     [] OTHER                                  -> state[p]]

Targets_Everyone == Created   \* faulty: without the KASSERT on id 0
Targets == {currentProcess} \cup {q \in Pid : parent[q] = currentProcess}

Kill(q) ==
    /\ ~panicked /\ cpu.at = "user"
    /\ q \in Targets
    /\ q \in ListElems
    /\ process_list' = Without(process_list, Position(q))
    /\ state' = Release(q)
    /\ killed' = killed \cup {q}
    /\ Goto("force")
    /\ UNCHANGED <<curr_PID, parent, ctxVars, tick, DR0, panicked>>

KillAgain(q) ==
    /\ ~panicked /\ cpu.at = "user"
    /\ q \in Targets
    /\ q \notin ListElems
    /\ state' = [state EXCEPT ![q] = "KILLED"]
    /\ panicked' = TRUE
    /\ UNCHANGED <<procVars, ctxVars, process_list, tick, DR0, cpu, progress>>

(* Process_makeForeground: the parent waits for the caller.                 *)
MakeForeground ==
    LET p == parent[currentProcess]
    IN  /\ ~panicked
        /\ cpu.at = "start" \/ (cpu.at = "user" /\ ~ForegroundOnce)
        /\ state' = IF p # NULL /\ p > 0 THEN [state EXCEPT ![p] = "BLOCKED"] ELSE state
        /\ Goto("force")
        /\ UNCHANGED <<procVars, ctxVars, process_list, tick, DR0, panicked>>

(* Process_blockProcess, called by getInput as long as it finds no key.     *)
BlockProcess ==
    /\ ~panicked /\ cpu.at \in {"user", "unblocked"}
    /\ state' = [state EXCEPT ![currentProcess] = "BLOCKED"]
    /\ Goto("block")
    /\ UNCHANGED <<procVars, ctxVars, process_list, tick, DR0, panicked>>

(* kb_handler releases the process it interrupts, when getInput had noted   *)
(* that process as blocking.                                                *)
KeyWakes ==
    /\ ~panicked /\ currentProcess # KProcess
    /\ state' = [state EXCEPT ![currentProcess] = "WAIT"]
    /\ UNCHANGED <<procVars, ctxVars, process_list, tick, DR0, cpu, panicked, progress>>

(* The end of a system call that had switched.                              *)
SyscallReturn ==
    /\ ~panicked /\ cpu.at \in {"resumed", "unblocked"}
    /\ Goto("user")
    /\ UNCHANGED <<procVars, ctxVars, state, process_list, tick, DR0, panicked>>

(* Kernel_halt, the program of the kernel process: while(1) halt_cpu().     *)
KernelHalt ==
    /\ ~panicked /\ cpu.at \in {"halt", "loop"}
    /\ Goto(IF cpu.at = "loop" THEN "halt" ELSE "loop")
    /\ UNCHANGED <<procVars, ctxVars, state, process_list, tick, DR0, panicked>>

Next ==
    \/ TimerInterrupt
    \/ KernelHalt
    \/ ForcedSwitch
    \/ CreateChild
    \/ \E q \in Pid : Kill(q)
    \/ \E q \in Pid : KillAgain(q)
    \/ MakeForeground
    \/ BlockProcess
    \/ KeyWakes
    \/ SyscallReturn

Spec == Init /\ [][Next]_vars

(* The PIT is periodic hardware, and interrupts are on at every point.      *)
FairSpec == Spec /\ WF_vars(TimerInterrupt)

-----------------------------------------------------------------------------
TypeOK ==
    /\ curr_PID \in 2 .. MaxPid + 1
    /\ state \in [Pid -> ProcessState]
    /\ parent \in [Pid -> Pid \cup {NULL}]
    /\ process_list \in Seq(Pid)
    /\ currentProcess \in Pid
    /\ tick \in 0 .. Ticks - 1
    /\ DR0 \in Frames
    /\ stack \in [Pid -> Frames]
    /\ tss \in Pid /\ cr3 \in Pid
    /\ cpu \in Frames
    /\ panicked \in BOOLEAN
    /\ killed \subseteq Pid
    /\ progress \in [Pid -> Points]

(* The switch loop of contextSwitch always finds a process, so it ends with *)
(* interrupts off, and nextProcess never asserts on an empty list.          *)
RunnableExists == \E p \in ListElems : Runnable(p)

(* The scheduler's list holds every process that was created and not killed,*)
(* once: none is lost by a rotation and none is scheduled twice a round.    *)
ListHoldsLive ==
    /\ ListElems = Live
    /\ NoDuplicates(process_list)

(* What executes is the current process at the point it had reached, and    *)
(* every other live process has its last point saved: no interrupt resumes  *)
(* another process than the scheduler chose, or one of its older frames.    *)
ContextKept ==
    /\ cpu = Frame(currentProcess, progress[currentProcess])
    /\ \A p \in Live \ {currentProcess} : stack[p] = Frame(p, progress[p])

(* The address space is that of the current process, and a trap out of user *)
(* code finds the kernel stack of the current process in the TSS.           *)
ContextCoherent ==
    /\ cr3 = currentProcess
    /\ currentProcess # KProcess => tss = currentProcess

(* A killed process that has left the CPU never gets it back, although its  *)
(* pcb is marked ACTIVE, BLOCKED or WAIT again by later switches, by its    *)
(* children's makeForeground and by their kill.                             *)
NoResurrection ==
    [][\A p \in killed : currentProcess # p => currentProcess' # p]_vars

(* A parent that was blocked by makeForeground does not get the CPU and is  *)
(* released by nothing but its own death or that of one of its children.    *)
BlockedWaits ==
    [][\A p \in Live : state[p] = "BLOCKED" /\ p # currentProcess =>
         /\ currentProcess' # p
         /\ \/ state'[p] = "BLOCKED"
            \/ \E q \in killed' \ killed : p \in {q, parent[q]}]_vars

(* No lost wake-up: somebody who can release it lives as long as a parent   *)
(* is blocked.  Programs that call makeForeground again after they killed   *)
(* themselves break this, so it is checked with ForegroundOnce.             *)
BlockedHasWaker ==
    ForegroundOnce =>
      \A p \in Live \ {currentProcess} :
         state[p] = "BLOCKED" => \E q \in Live : parent[q] = p

(* Round robin starves nobody: a live process that is not blocked gets the  *)
(* CPU, unless it is killed or blocked first, or the kernel panics.         *)
EveryoneRuns ==
    \A p \in Pid :
       (p \in Live /\ Runnable(p)) ~>
          (panicked \/ currentProcess = p \/ p \in killed \/ state[p] = "BLOCKED")

(* The strengthening that makes these invariants inductive (they are proved *)
(* in SchedulingProofs): identifiers below curr_PID are the created ones;   *)
(* the kernel process is alive, runnable and nobody's child; a frame belongs*)
(* to the process it is saved for, and the kernel process is always in its  *)
(* halt loop; and the code before makeForeground runs in live processes.    *)
Population ==
    /\ Created = 0 .. curr_PID - 1
    /\ killed \subseteq Created
    /\ currentProcess \in Created
    /\ \A p \in Pid : /\ parent[p] \in Created \cup {NULL}
                      /\ parent[p] # NULL => p \in Created

KernelReady ==
    /\ KProcess \in Live
    /\ Runnable(KProcess)
    /\ parent[KProcess] = NULL

OwnFrame(f, p) ==
    /\ f.owner = p
    /\ f.at # "none"
    /\ p = KProcess <=> f.at \in {"halt", "loop"}

FramesOwned ==
    /\ OwnFrame(cpu, currentProcess)
    /\ DR0 # NoFrame => OwnFrame(DR0, currentProcess)
    /\ \A p \in Created : OwnFrame(stack[p], p)

StartIsLive == cpu.at = "start" => currentProcess \in Live

IInv ==
    /\ TypeOK
    /\ ListHoldsLive
    /\ Population
    /\ KernelReady
    /\ FramesOwned
    /\ StartIsLive

(* "esp >0 if scheduler called" (aIDT.s:117): an interrupt return loads a   *)
(* frame out of DR0 exactly when the scheduler has just switched.           *)
DR0OnlyOnSwitch ==
    [][tick' # tick => (DR0' # NoFrame <=> currentProcess' # currentProcess)]_vars

(* "Set New State" (Process.c:237): the process switched to is ACTIVE.      *)
NewProcessActive ==
    [][currentProcess' # currentProcess => state'[currentProcess'] = "ACTIVE"]_vars

(* "killme -> kills current app" (ramdisk/apps/shell.c:62): a killed        *)
(* process executes no more user code.                                      *)
KilledRunsNoUserCode == ~(cpu.at = "user" /\ cpu.owner \in killed)
=============================================================================
