---------------------------- MODULE SequenceList ----------------------------
(***************************************************************************)
(* What the scheduler and the virtual file system expect of a LinkedList:  *)
(* a sequence of data, not necessarily distinct.                           *)
(***************************************************************************)
EXTENDS Integers, Sequences, SequencesExt

CONSTANTS Data, NULL

VARIABLES
    list,
    call,      \* history: the last operation and its argument
    result,    \* what it returned, NULL if nothing
    faulted    \* NULL was passed to removeNode: a page fault, and a panic

listVars == <<list, call, result, faulted>>

Called(op, arg, res) == call' = <<op, arg>> /\ result' = res

Init ==
    /\ list = <<>>
    /\ call = <<"create", NULL>>
    /\ result = NULL
    /\ faulted = FALSE

Add(d) ==
    /\ list' = Append(list, d)
    /\ Called("add", d, NULL)
    /\ UNCHANGED faulted

RemoveIndex(i) ==
    /\ list' = RemoveAt(list, i)
    /\ Called("removeIndex", i - 1, list[i])
    /\ UNCHANGED faulted

RemoveData(d) ==
    \E i \in DOMAIN list :
        /\ list[i] = d
        /\ \A j \in 1 .. i - 1 : list[j] # d
        /\ list' = RemoveAt(list, i)
        /\ Called("removeData", d, d)
        /\ UNCHANGED faulted

RemoveAbsent(d) ==
    /\ \A i \in DOMAIN list : list[i] # d
    /\ Called("removeData", d, NULL)
    /\ faulted' = TRUE
    /\ UNCHANGED list

Reset ==
    /\ list' = <<>>
    /\ Called("create", NULL, NULL)
    /\ UNCHANGED faulted

Next ==
    /\ ~faulted
    /\ \/ \E d \in Data : Add(d) \/ RemoveData(d) \/ RemoveAbsent(d)
       \/ \E i \in DOMAIN list : RemoveIndex(i)
       \/ Reset

Spec == Init /\ [][Next]_listVars
=============================================================================
