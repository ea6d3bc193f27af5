----------------------------- MODULE LinkedList -----------------------------
(***************************************************************************)
(* LinkedList.c at the level of its pointers: nodes with two links in      *)
(* cells of the heap, front, end and items.  A cell that is given back is  *)
(* overwritten by the heap.  The callers are the scheduler (process_list)  *)
(* and the virtual file system (FS_mounts and files).                      *)
(***************************************************************************)
EXTENDS Integers, Sequences, FiniteSets

CONSTANTS
    Cells,   \* addresses of nodes
    Data,    \* what the callers store
    NULL,
    Junk     \* what the heap leaves in a cell that was freed

ASSUME ListAssumption ==
    /\ IsFiniteSet(Cells)
    /\ {NULL, Junk} \cap (Cells \cup Data) = {}
    /\ NULL # Junk

VARIABLES
    front, end, items,         \* LinkedList
    data, nextNode, prevNode,  \* ListNode_t, by cell
    live,                      \* the cells calloc handed out
    call, result,              \* history: the last operation, what it returned
    faulted                    \* NULL was passed to removeNode

heapVars == <<data, nextNode, prevNode, live>>
vars == <<front, end, items, heapVars, call, result, faulted>>

Called(op, arg, res) == call' = <<op, arg>> /\ result' = res

Init ==
    /\ front = NULL /\ end = NULL /\ items = 0
    /\ data = [c \in Cells |-> Junk]
    /\ nextNode = data /\ prevNode = data
    /\ live = {}
    /\ call = <<"create", NULL>> /\ result = NULL /\ faulted = FALSE

-----------------------------------------------------------------------------
(* The pointer a loop has reached after i steps along a link.               *)
Walk(first, link) ==
    LET w[i \in 0 .. Cardinality(Cells)] ==
          IF i = 0 THEN first
          ELSE IF w[i - 1] \in Cells THEN link[w[i - 1]] ELSE w[i - 1]
    IN  w

Forward == Walk(front, nextNode)

getNodeByIndex(index) == IF index >= items THEN NULL ELSE Forward[index]

(* The search stops at the first node with this data; faulty: at the last.  *)
Found_Last(hits) == CHOOSE i \in hits : \A j \in hits : j <= i
Found(hits) == CHOOSE i \in hits : \A j \in hits : i <= j

getNodeByData(d) ==
    LET hits == {i \in DOMAIN Forward : Forward[i] \in Cells /\ data[Forward[i]] = d}
    IN  IF hits = {} THEN NULL ELSE Forward[Found(hits)]

(* The cell c is new; faulty: the old end is not linked to it.              *)
LinkedFrom_Front(c) == front
LinkedFrom(c) == end

addNode(d) ==
    \E c \in Cells \ live :
        /\ ~faulted
        /\ live' = live \cup {c}
        /\ data' = [data EXCEPT ![c] = d]
        /\ IF items = 0
             THEN /\ front' = c
                  /\ prevNode' = [prevNode EXCEPT ![c] = NULL]
                  /\ nextNode' = [nextNode EXCEPT ![c] = NULL]
             ELSE /\ prevNode' = [prevNode EXCEPT ![c] = end]
                  /\ nextNode' = [nextNode EXCEPT ![c] = NULL, ![LinkedFrom(c)] = c]
                  /\ UNCHANGED front
        /\ end' = c
        /\ items' = items + 1
        /\ Called("add", d, NULL)
        /\ UNCHANGED faulted

(* The four cases of removeNode: what happens to the pointers.              *)
UnlinkOnly(item) ==
    /\ item = front /\ item = end
    /\ front' = NULL /\ end' = NULL
    /\ nextNode' = [nextNode EXCEPT ![item] = Junk]
    /\ prevNode' = [prevNode EXCEPT ![item] = Junk]

UnlinkFirst(item) ==
    /\ item = front /\ item # end
    /\ front' = nextNode[item]
    /\ prevNode' = [prevNode EXCEPT ![nextNode[item]] = NULL, ![item] = Junk]
    /\ nextNode' = [nextNode EXCEPT ![item] = Junk]
    /\ UNCHANGED end

(* Faulty: the new end keeps its link.                                      *)
UnlinkLast_KeepsLink(item) ==
    /\ item # front /\ item = end
    /\ end' = prevNode[item]
    /\ nextNode' = [nextNode EXCEPT ![item] = Junk]
    /\ prevNode' = [prevNode EXCEPT ![item] = Junk]
    /\ UNCHANGED front

UnlinkLast(item) ==
    /\ item # front /\ item = end
    /\ end' = prevNode[item]
    /\ nextNode' = [nextNode EXCEPT ![prevNode[item]] = NULL, ![item] = Junk]
    /\ prevNode' = [prevNode EXCEPT ![item] = Junk]
    /\ UNCHANGED front

UnlinkMiddle(item) ==
    /\ item # front /\ item # end
    /\ prevNode' = [prevNode EXCEPT ![nextNode[item]] = prevNode[item], ![item] = Junk]
    /\ nextNode' = [nextNode EXCEPT ![prevNode[item]] = nextNode[item], ![item] = Junk]
    /\ UNCHANGED <<front, end>>

removeNode(item) ==
    /\ \/ UnlinkOnly(item) \/ UnlinkFirst(item)
       \/ UnlinkLast(item) \/ UnlinkMiddle(item)
    /\ data' = [data EXCEPT ![item] = Junk]
    /\ live' = live \ {item}
    /\ items' = items - 1
    /\ UNCHANGED faulted

(* Scheduler_nextProcess takes index 0, VFS_unmount any index below items.  *)
RemoveByIndex ==
    \E index \in 0 .. items - 1 :
        LET item == getNodeByIndex(index) IN
        /\ ~faulted
        /\ removeNode(item)
        /\ Called("removeIndex", index, data[item])

(* Scheduler_removeProcess.                                                 *)
RemoveByData(d) ==
    LET item == getNodeByData(d) IN
    /\ ~faulted /\ item # NULL
    /\ removeNode(item)
    /\ Called("removeData", d, data[item])

(* removeNode reads the data of NULL.                                       *)
RemoveAbsent(d) ==
    /\ ~faulted /\ getNodeByData(d) = NULL
    /\ Called("removeData", d, NULL)
    /\ faulted' = TRUE
    /\ UNCHANGED <<front, end, items, heapVars>>

(* The list is destroyed and created again.                                 *)
destroy ==
    LET freed == {Forward[i] : i \in 0 .. items - 1}
        Wiped(f) == [c \in Cells |-> IF c \in freed THEN Junk ELSE f[c]]
    IN  /\ ~faulted
        /\ live' = live \ freed
        /\ data' = Wiped(data)
        /\ nextNode' = Wiped(nextNode)
        /\ prevNode' = Wiped(prevNode)
        /\ front' = NULL /\ end' = NULL /\ items' = 0
        /\ Called("create", NULL, NULL)
        /\ UNCHANGED faulted

Next ==
    \/ \E d \in Data : addNode(d) \/ RemoveByData(d) \/ RemoveAbsent(d)
    \/ RemoveByIndex
    \/ destroy

Spec == Init /\ [][Next]_vars

-----------------------------------------------------------------------------
(* What a caller reads from index 0 on.                                     *)
Contents == [i \in 1 .. items |-> data[Forward[i - 1]]]

(* The list is a sequence: add appends, a removal by index or by data takes *)
(* out that element (the first of equal ones) and returns its data.         *)
Abstract == INSTANCE SequenceList WITH list <- Contents

ImplementsSequence == Abstract!Spec

(* The nodes on the way from front are the live cells, each once; the way   *)
(* back from end is the same, both stop at NULL, so no link of the list     *)
(* leads to a freed cell, and no node is lost to the heap.                  *)
WellLinked ==
    LET back == Walk(end, prevNode)
    IN  /\ live = {Forward[i] : i \in 0 .. items - 1}
        /\ Cardinality(live) = items
        /\ \A i \in 0 .. items - 1 : back[i] = Forward[items - 1 - i]
        /\ Forward[items] = NULL /\ back[items] = NULL
=============================================================================
