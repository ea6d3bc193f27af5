---------------------------- MODULE KeyboardInput ----------------------------
(***************************************************************************)
(* The keyboard driver (modules/drivers/Keyboard.c) composed with the      *)
(* scheduler: kb_handler fills one ring of keys that all processes share,  *)
(* getInput empties it and gives up the CPU while it finds no key.         *)
(*                                                                         *)
(* getInput first reads the ring inside the system call's interrupt gate,  *)
(* in one step.  After its first Process_blockProcess interrupts are on, so*)
(* each access of bufferRead to the ring is a step of its own, and the     *)
(* keyboard and the timer may interrupt between any two of them.           *)
(***************************************************************************)
EXTENDS Scheduling, SequencesExt

CONSTANTS
    KEYBUFFER_MAX,  \* keys the ring has room for
    MaxKeys,        \* bound on the keys typed
    NulKeys         \* some keys have layout entry 0, the character NUL

ReadPoints == {"check", "fetch", "loadR", "storeR", "loadCount", "storeCount",
               "wrap", "return"}

ASSUME KeyboardAssumption ==
    /\ KEYBUFFER_MAX \in Nat \ {0}
    /\ MaxKeys \in Nat
    /\ NulKeys \in BOOLEAN
    /\ GetInputPoints = ReadPoints

NUL == 0        \* the character NUL, and bufferRead's "no key"
Garbage == -1   \* a byte outside the keys of the ring

VARIABLES
    buffer, r, w,       \* the ring, and kbBuffer->r and ->w as offsets from s
    curr_elements,
    blocking,           \* the process getInput noted last
    ret, tmp,           \* bufferRead's locals, per process
    typed, received,    \* history: the keys typed and those getInput returned
    unread,             \* history: number of keys written and not yet passed by r
    lapped              \* history: a key was written over an unread one

readerVars == <<ret, tmp>>
ringVars == <<buffer, r, w, curr_elements, unread, lapped>>
kbVars == <<ringVars, readerVars, blocking, typed, received>>

me == currentProcess
schedState == <<procVars, ctxVars, process_list, tick, DR0, panicked>>

KInit ==
    /\ Init
    /\ buffer = [i \in 0 .. KEYBUFFER_MAX - 1 |-> NUL]
    /\ r = 0 /\ w = 0
    /\ curr_elements = 0
    /\ blocking = NULL
    /\ ret = [p \in Pid |-> NUL]
    /\ tmp = [p \in Pid |-> 0]
    /\ typed = <<>> /\ received = <<>>
    /\ unread = 0 /\ lapped = FALSE

-----------------------------------------------------------------------------
(* curr_elements is a uint16_t; r and w wrap when they equal e.             *)
Count(n) == n % 2^16

Wrapped_Late(i) == IF i > KEYBUFFER_MAX THEN 0 ELSE i   \* faulty: one too far
Wrapped_Never(i) == i   \* faulty: the end of the ring is missed
Wrapped(i) == IF i = KEYBUFFER_MAX THEN 0 ELSE i

At(i) == IF i \in DOMAIN buffer THEN buffer[i] ELSE Garbage

(* kb_handler, on the release of a key other than shift.  It interrupts     *)
(* whatever runs.  The key is one no other key equals, or NUL.              *)
NewKey == Len(typed) + 1

bufferWrite(key) ==
    /\ buffer' = [buffer EXCEPT ![w] = key]
    /\ w' = Wrapped(w + 1)
    /\ curr_elements' = Count(curr_elements + 1)
    /\ unread' = unread + 1
    /\ lapped' = (lapped \/ unread = KEYBUFFER_MAX)

(* The process in getInput is released when it is the one interrupted;      *)
(* faulty: it is released without being the current one.                    *)
Released_Anyone == blocking # NULL
Released == blocking # NULL /\ currentProcess = blocking

kb_handler(key) ==
    /\ ~panicked
    /\ bufferWrite(key)
    /\ typed' = Append(typed, key)
    /\ IF Released
         THEN state' = [state EXCEPT ![blocking] = "WAIT"] /\ blocking' = NULL
         ELSE UNCHANGED <<state, blocking>>
    /\ UNCHANGED <<schedState, cpu, progress, readerVars, r, received>>

(* The first bufferRead of getInput, with interrupts off.                   *)
GetInputCall ==
    /\ ~panicked /\ cpu.at = "user" /\ curr_elements # 0
    /\ r' = Wrapped(r + 1)
    /\ curr_elements' = Count(curr_elements - 1)
    /\ unread' = unread - 1
    /\ IF At(r) = NUL
         THEN /\ state' = [state EXCEPT ![me] = "BLOCKED"]
              /\ Goto("block")
              /\ UNCHANGED received
         ELSE /\ received' = Append(received, At(r))
              /\ UNCHANGED <<state, cpu, progress>>
    /\ UNCHANGED <<schedState, buffer, w, lapped, readerVars, blocking, typed>>

GetInputWaits ==
    /\ cpu.at = "user" /\ curr_elements = 0
    /\ BlockProcess
    /\ UNCHANGED kbVars

(* The loop of getInput, behind blockProcess: interrupts are on.            *)
Step(from, to) ==
    /\ ~panicked /\ cpu.at = from
    /\ Goto(to)
    /\ UNCHANGED <<schedState, state>>

NoteBlocking ==
    /\ Step("unblocked", "check")
    /\ blocking' = me
    /\ UNCHANGED <<ringVars, readerVars, typed, received>>

(* blockProcess again, since bufferRead found no key, or took a NUL.        *)
WaitAgain(from) ==
    /\ ~panicked /\ cpu.at = from
    /\ state' = [state EXCEPT ![me] = "BLOCKED"]
    /\ Goto("block")
    /\ UNCHANGED <<schedState, kbVars>>

CheckEmpty == curr_elements = 0 /\ WaitAgain("check")

CheckFilled ==
    /\ Step("check", "fetch")
    /\ curr_elements # 0
    /\ UNCHANGED kbVars

Fetch ==
    /\ Step("fetch", "loadR")
    /\ ret' = [ret EXCEPT ![me] = At(r)]
    /\ UNCHANGED <<ringVars, tmp, blocking, typed, received>>

LoadR ==
    /\ Step("loadR", "storeR")
    /\ tmp' = [tmp EXCEPT ![me] = r]
    /\ UNCHANGED <<ringVars, ret, blocking, typed, received>>

StoreR ==
    /\ Step("storeR", "loadCount")
    /\ r' = tmp[me] + 1
    /\ unread' = unread - 1
    /\ UNCHANGED <<buffer, w, curr_elements, lapped, readerVars, blocking, typed, received>>

LoadCount ==
    /\ Step("loadCount", "storeCount")
    /\ tmp' = [tmp EXCEPT ![me] = curr_elements]
    /\ UNCHANGED <<ringVars, ret, blocking, typed, received>>

StoreCount ==
    /\ Step("storeCount", "wrap")
    /\ curr_elements' = Count(tmp[me] - 1)
    /\ UNCHANGED <<buffer, r, w, unread, lapped, readerVars, blocking, typed, received>>

Wrap ==
    /\ Step("wrap", "return")
    /\ r' = Wrapped(r)
    /\ UNCHANGED <<buffer, w, curr_elements, unread, lapped, readerVars, blocking, typed, received>>

ReturnKey ==
    /\ Step("return", "user")
    /\ ret[me] # NUL
    /\ received' = Append(received, ret[me])
    /\ UNCHANGED <<ringVars, readerVars, blocking, typed>>

ReturnNul == ret[me] = NUL /\ WaitAgain("return")

GetInputStep ==
    \/ NoteBlocking \/ CheckEmpty \/ CheckFilled
    \/ Fetch \/ LoadR \/ StoreR \/ LoadCount \/ StoreCount \/ Wrap
    \/ ReturnKey \/ ReturnNul

(* The rest of the kernel does not touch the ring.                          *)
Others ==
    /\ \/ TimerInterrupt
       \/ ForcedSwitch
       \/ KernelHalt
       \/ CreateChild
       \/ \E q \in Pid : Kill(q) \/ KillAgain(q)
       \/ MakeForeground
       \/ cpu.at = "resumed" /\ SyscallReturn
    /\ UNCHANGED kbVars

Typing ==
    /\ Len(typed) < MaxKeys
    /\ \E key \in {NewKey} \cup (IF NulKeys THEN {NUL} ELSE {}) : kb_handler(key)

KNext == Others \/ Typing \/ GetInputCall \/ GetInputWaits \/ GetInputStep

kvars == <<vars, kbVars>>

KSpec == KInit /\ [][KNext]_kvars

(* The timer ticks, and a process that gets the CPU again and again makes   *)
(* progress: a tick lasts many instructions.  The initial program starts    *)
(* with makeForeground and keeps reading keys, as shell and echo do.        *)
Tick == TimerInterrupt /\ UNCHANGED kbVars
Forced == ForcedSwitch /\ UNCHANGED kbVars
Return == cpu.at = "resumed" /\ SyscallReturn /\ UNCHANGED kbVars
Reads == \/ MakeForeground /\ UNCHANGED kbVars
         \/ GetInputCall \/ GetInputWaits

KFairSpec ==
    /\ KSpec
    /\ WF_kvars(Tick)
    /\ SF_kvars(Forced) /\ SF_kvars(Return)
    /\ SF_kvars(Reads) /\ SF_kvars(GetInputStep)

-----------------------------------------------------------------------------
KTypeOK ==
    /\ TypeOK
    /\ buffer \in [0 .. KEYBUFFER_MAX - 1 -> NUL .. MaxKeys]
    /\ r \in 0 .. KEYBUFFER_MAX /\ w \in 0 .. KEYBUFFER_MAX - 1
    /\ curr_elements \in 0 .. 2^16 - 1
    /\ blocking \in Pid \cup {NULL}
    /\ ret \in [Pid -> NUL .. MaxKeys]
    /\ tmp \in [Pid -> 0 .. 2^16 - 1]
    /\ typed \in Seq(NUL .. MaxKeys) /\ received \in Seq(1 .. MaxKeys)
    /\ unread \in Nat /\ lapped \in BOOLEAN

(* The driver with its scheduler is one of the behaviours Scheduling allows:*)
(* every point inside getInput's loop is "unblocked" there.  In particular  *)
(* kb_handler changes no process but the one it interrupts.                 *)
Seen(at) == IF at \in ReadPoints THEN "unblocked" ELSE at
SeenFrame(f) == Frame(f.owner, Seen(f.at))

Sched == INSTANCE Scheduling WITH
            GetInputPoints <- {},
            cpu <- SeenFrame(cpu),
            DR0 <- SeenFrame(DR0),
            stack <- [p \in Pid |-> SeenFrame(stack[p])],
            progress <- [p \in Pid |-> Seen(progress[p])]

ImplementsScheduling == Sched!Spec

(* One reader gets the keys in the order they were typed, none twice and    *)
(* none invented, whatever interrupts it, until more keys are unread than   *)
(* the ring holds.  (With a lost update of curr_elements too.)              *)
Keys(s) ==
    LET kept[n \in 0 .. Len(s)] ==
          IF n = 0 THEN <<>>
          ELSE IF s[n] = NUL THEN kept[n - 1]
          ELSE Append(kept[n - 1], s[n])
    IN  kept[Len(s)]

DeliveredInOrder == ~lapped => IsPrefix(received, Keys(typed))

(* Every key that curr_elements counts is returned to the waiting program   *)
(* in the end.  The state BLOCKED it waits in has nobody to end it, so this *)
(* relies on contextSwitch making the process it leaves ACTIVE.  (A ring    *)
(* run over may lose the key.)                                              *)
AllReturned ==
    /\ \A p \in Pid : progress[p] \notin ReadPoints \ {"check"}
    /\ \A i \in 0 .. curr_elements - 1 : buffer[(r + i) % KEYBUFFER_MAX] = NUL

KeysReachReader == []<>(AllReturned \/ lapped \/ killed # {} \/ panicked)

(* "Keyboard Echoer" (ramdisk/apps/echo.c:10): every key that is typed is   *)
(* eventually returned to the program that keeps asking for keys.           *)
EveryKeyDelivered ==
    \A n \in 1 .. MaxKeys :
       (Len(typed) >= n) ~> (Len(received) >= n \/ killed # {} \/ panicked)
=============================================================================
