------------------------ MODULE LockFreeQueueProofs ------------------------
(***************************************************************************)
(* Proofs about LockFreeQueue, for any number of values and any bound on   *)
(* Tail's counter.                                                         *)
(***************************************************************************)
EXTENDS LockFreeQueue, SequenceTheorems, TLAPS

CasSteps == {"cas_load_ptr", "cas_load_ctr", "cas_store_ptr", "cas_store_ctr"}

\* enqueue's node has been linked.
Linked ==
  \/ pc["enq"] \in {"idle", "count"}
  \/ pc["enq"] \in CasSteps /\ aim["enq"] = node

\* The last node that is linked.
End == IF Linked THEN node ELSE node - 1

\* The list is the nodes in the order they were made; those before Head are
\* deleted.
ListInv ==
  /\ pc["enq"] # "idle" => node >= 2
  /\ \A n \in Nodes : next[n] = IF n < End THEN n + 1 ELSE NULL
  /\ head \in 1 .. End
  /\ freed = 1 .. head - 1

\* The words a thread has read, and the one it will store, are in the list.
CopyInv(p) ==
  /\ pc[p] \in {"load_next", "check_ptr", "check_ctr", "link"}
       => t_ptr[p] \in 1 .. End
  /\ pc[p] \in CasSteps => aim[p] \in 1 .. End
  /\ pc[p] \in CasSteps \ {"cas_load_ptr"} => c_ptr[p] \in 1 .. End

\* However stale Tail and the copies of it are, they are nodes of the list; and
\* what makes enqueue link and dequeue take is not stale.
PtrInv ==
  /\ tail_ptr \in 1 .. End
  /\ \A p \in Threads : CopyInv(p)
  /\ pc["enq"] \in {"check_ptr", "check_ctr"} => nx["enq"] = next[t_ptr["enq"]]
  /\ pc["enq"] = "link" => t_ptr["enq"] = End
  /\ pc["deq"] = "decide" /\ nx["deq"] # NULL => nx["deq"] = head + 1 /\ head < End

\* What dequeue has returned and which enqueues had.
CountInv ==
  /\ Len(got) = head - 1
  /\ complete = IF pc["enq"] = "idle" THEN node - 1 ELSE node - 2
  /\ called <= complete
  /\ pc["deq"] = "decide" /\ nx["deq"] = NULL => called <= Len(got)

\* enqueue has linked its node and not counted it; dequeue has taken a value
\* and not counted it.
Uncounted == End = node /\ pc["enq"] \notin {"idle", "fault"}
Overcounted == pc["deq"] = "count"

SizeInv ==
  size = (End - head) - (IF Uncounted THEN 1 ELSE 0)
         + (IF Overcounted THEN 1 ELSE 0)

QueueInv == TypeOK /\ ListInv /\ PtrInv /\ CountInv /\ SizeInv

-----------------------------------------------------------------------------
(* The end of the list.                                                    *)

\* The end is a node, and the last one made or the one before.
LEMMA EndTypes ==
  ASSUME TypeOK, ListInv
  PROVE  End \in Nodes /\ head \in Nodes /\ (~Linked => End + 1 = node)
BY BoundsAssumption DEF TypeOK, ListInv, End, Linked, Nodes, Steps, Threads

\* Last is the end of the list.
LEMMA LastIsEnd == ASSUME TypeOK, ListInv PROVE Last = End
<1>1. node \in Nat /\ MaxValues \in Nat /\ node >= 1 /\ node <= MaxValues + 1
  BY BoundsAssumption DEF TypeOK, Nodes
<1>2. CASE Linked
  <2>1. End = node
    BY <1>2 DEF End
  <2>2. CASE node = 1
    BY <1>1, <2>1, <2>2 DEF Last, ListInv, NULL
  <2>3. CASE node # 1
    <3>1. node - 1 \in Nodes /\ next[node - 1] = node
      BY <1>1, <2>1, <2>3 DEF ListInv, Nodes
    <3> QED
      BY <2>1, <3>1 DEF Last
  <2> QED
    BY <2>2, <2>3
<1>3. CASE ~Linked
  <2>1. End = node - 1 /\ node >= 2
    BY <1>3 DEF End, ListInv, Linked
  <2>2. \A n \in Nodes : next[n] # node
    BY <1>1, <2>1, BoundsAssumption DEF ListInv, NULL, Nodes
  <2> QED
    BY <1>1, <2>1, <2>2 DEF Last
<1> QED BY <1>2, <1>3

-----------------------------------------------------------------------------
(* The steps.                                                              *)

\* A step links node at the end, takes the first value, or leaves the list.
Links ==
  /\ pc["enq"] = "link" /\ pc' = [pc EXCEPT !["enq"] = "cas_load_ptr"]
  /\ node' = node /\ End' = End + 1 /\ End + 1 = node
  /\ next' = [next EXCEPT ![End] = node]
  /\ UNCHANGED <<head, freed, got>>

Takes ==
  /\ pc["deq"] = "decide" /\ pc' = [pc EXCEPT !["deq"] = "count"]
  /\ head < End /\ head' = head + 1 /\ freed' = freed \cup {head}
  /\ got' = Append(got, head)
  /\ End' = End
  /\ UNCHANGED <<next, node>>

\* The list changes by enqueue's link and dequeue's take alone.
LEMMA ListSteps ==
  ASSUME TypeOK, ListInv, PtrInv, [Next]_vars
  PROVE  \/ EnqLink /\ Links
         \/ DeqTake /\ Takes
         \/ End' = End /\ UNCHANGED <<head, next, freed, got>>
<1> USE DEF Goto, tailVars, heapVars, copyVars, casVars, histVars, Linked, End,
            CasSteps
<1>1. pc \in [Threads -> Steps] /\ node \in Nat
  BY BoundsAssumption DEF TypeOK, Nodes
<1>2. CASE EnqCall
  BY <1>1, <1>2 DEF EnqCall, Threads
<1>3. ASSUME NEW p \in Threads, LoadCtr(p) \/ LoadPtr(p)
      PROVE  End' = End /\ UNCHANGED <<head, next, freed, got>>
  BY <1>1, <1>3 DEF LoadCtr, LoadPtr, Threads
<1>4. CASE LoadNext("enq", t_ptr["enq"], "check_ptr")
  BY <1>1, <1>4 DEF LoadNext, Threads
<1>5. CASE LoadNext("deq", head, "decide")
  BY <1>1, <1>5 DEF LoadNext, Threads
<1>6. CASE EnqCheckPtr
  BY <1>1, <1>6 DEF EnqCheckPtr, Threads
<1>7. CASE EnqCheckCtr
  <2>1. ASSUME NEW step \in {"load_ctr", "link"},
               pc' = [pc EXCEPT !["enq"] = step]
        PROVE  End' = End /\ UNCHANGED <<head, next, freed, got>>
    BY <1>1, <1>7, <2>1 DEF EnqCheckCtr, Threads
  <2>2. CASE /\ nx["enq"] # NULL /\ aim' = [aim EXCEPT !["enq"] = nx["enq"]]
             /\ pc' = [pc EXCEPT !["enq"] = "cas_load_ptr"]
    <3>1. nx["enq"] = next[t_ptr["enq"]] /\ t_ptr["enq"] \in Nodes
      BY <1>7, BoundsAssumption
         DEF EnqCheckCtr, PtrInv, CopyInv, Threads, TypeOK, Nodes
    <3>2. nx["enq"] # node
      BY <1>1, <1>7, <2>2, <3>1 DEF EnqCheckCtr, ListInv, Nodes
    <3> QED
      BY <1>1, <1>7, <2>2, <3>2 DEF EnqCheckCtr, Threads, TypeOK
  <2> QED
    BY <1>7, <2>1, <2>2 DEF EnqCheckCtr
<1>8. CASE EnqLink
  <2>1. CASE t_ptr["enq"] \in freed
    BY <1>1, <1>8, <2>1 DEF EnqLink, Threads
  <2>2. CASE t_ptr["enq"] \notin freed
    <3>1. t_ptr["enq"] = End /\ End + 1 = node /\ pc["enq"] = "link"
      BY <1>1, <1>8 DEF EnqLink, PtrInv
    <3>2. /\ aim' = [aim EXCEPT !["enq"] = node] /\ UNCHANGED <<node, head, freed, got>>
          /\ pc' = [pc EXCEPT !["enq"] = "cas_load_ptr"]
          /\ next' = [next EXCEPT ![End] = node]
      BY <1>8, <2>2, <3>1 DEF EnqLink
    <3>3. End' = node
      BY <1>1, <3>2 DEF Threads, TypeOK
    <3> QED
      BY <1>8, <3>1, <3>2, <3>3 DEF Links
  <2> QED
    BY <2>1, <2>2
<1>9. ASSUME NEW p \in Threads, CasLoadPtr(p) \/ CasLoadCtr(p) \/ CasStorePtr(p)
      PROVE  End' = End /\ UNCHANGED <<head, next, freed, got>>
  BY <1>1, <1>9 DEF CasLoadPtr, CasLoadCtr, CasStorePtr, Threads
<1>10. CASE CasStoreCtr("enq", IF aim["enq"] = node THEN "count" ELSE "load_ctr")
  BY <1>1, <1>10 DEF CasStoreCtr, Threads
<1>11. CASE CasStoreCtr("deq", "load_ctr")
  BY <1>1, <1>11 DEF CasStoreCtr, Threads
<1>12. CASE EnqCount
  BY <1>1, <1>12 DEF EnqCount, Threads
<1>13. CASE DeqCall \/ DeqFalse \/ DeqCount
  BY <1>1, <1>13 DEF DeqCall, DeqFalse, DeqCount, Threads
<1>14. CASE DeqHelp
  BY <1>1, <1>14 DEF DeqHelp, Threads, TypeOK
<1>15. CASE DeqTake
  <2>1. CASE nx["deq"] = NULL
    BY <1>1, <1>15, <2>1 DEF DeqTake, Threads
  <2>2. CASE nx["deq"] # NULL
    <3>1. pc["deq"] = "decide" /\ nx["deq"] = head + 1 /\ head < End /\ head \in Nat
      BY <1>15, <2>2, BoundsAssumption DEF DeqTake, PtrInv, TypeOK, Nodes
    <3>2. /\ pc' = [pc EXCEPT !["deq"] = "count"]
          /\ got' = Append(got, head) /\ head' = head + 1
          /\ freed' = freed \cup {head} /\ UNCHANGED <<next, node, aim>>
      BY <1>15, <2>2, <3>1 DEF DeqTake
    <3>3. End' = End
      BY <1>1, <3>2 DEF Threads
    <3> QED
      BY <1>15, <3>1, <3>2, <3>3 DEF Takes
  <2> QED
    BY <2>1, <2>2
<1>16. CASE UNCHANGED vars
  BY <1>16 DEF vars
<1> QED BY <1>2, <1>3, <1>4, <1>5, <1>6, <1>7, <1>8, <1>9, <1>10, <1>11, <1>12,
           <1>13, <1>14, <1>15, <1>16
        DEF Next, Enq, Deq, EnqCas, DeqCas, Threads

\* Every step keeps the types.
LEMMA TypeStep == ASSUME QueueInv, [Next]_vars PROVE TypeOK'
<1> USE DEF QueueInv, TypeOK, Goto, Threads, tailVars, heapVars, copyVars,
            casVars, histVars
<1>1. CASE EnqCall
  <2>1. node' \in Nodes
    BY <1>1, BoundsAssumption DEF EnqCall, Nodes
  <2>2. pc' \in [Threads -> Steps]
    BY <1>1 DEF EnqCall, Steps
  <2> QED BY <1>1, <2>1, <2>2 DEF EnqCall
<1>2. ASSUME NEW p \in Threads, LoadCtr(p) \/ LoadPtr(p) PROVE TypeOK'
  <2>1. ASSUME LoadCtr(p) PROVE TypeOK'
    BY <2>1 DEF LoadCtr, Steps
  <2>2. ASSUME LoadPtr(p) PROVE TypeOK'
    BY <2>2 DEF LoadPtr, Steps
  <2> QED BY <1>2, <2>1, <2>2
<1>3. CASE LoadNext("enq", t_ptr["enq"], "check_ptr")
  <2>1. t_ptr["enq"] \in Nodes
    BY <1>3, EndTypes, BoundsAssumption DEF LoadNext, PtrInv, CopyInv, Nodes
  <2> QED BY <1>3, <2>1 DEF LoadNext, Steps
<1>4. CASE LoadNext("deq", head, "decide")
  BY <1>4 DEF LoadNext, Steps
<1>5. CASE EnqCheckPtr
  BY <1>5 DEF EnqCheckPtr, Steps
<1>6. CASE EnqCheckCtr
  <2>1. pc' \in [Threads -> Steps]
    BY <1>6 DEF EnqCheckCtr, Steps
  <2>2. aim' \in [Threads -> Nodes \cup {NULL}]
    BY <1>6 DEF EnqCheckCtr
  <2> QED BY <1>6, <2>1, <2>2 DEF EnqCheckCtr
<1>7. CASE EnqLink
  <2>1. pc' \in [Threads -> Steps]
    BY <1>7 DEF EnqLink, Steps
  <2>2. /\ aim' \in [Threads -> Nodes \cup {NULL}]
        /\ next' \in [Nodes -> Nodes \cup {NULL}]
    <3>1. \/ aim' = aim /\ next' = next
          \/ /\ aim' = [aim EXCEPT !["enq"] = node]
             /\ next' = [next EXCEPT ![t_ptr["enq"]] = node]
      BY <1>7 DEF EnqLink
    <3>2. /\ aim \in [Threads -> Nodes \cup {NULL}] /\ node \in Nodes
          /\ next \in [Nodes -> Nodes \cup {NULL}]
      OBVIOUS
    <3> QED BY ONLY <3>1, <3>2
  <2>3. UNCHANGED <<tailVars, head, freed, node, size, copyVars, c_ptr, c_ctr,
                    histVars>>
    BY <1>7 DEF EnqLink
  <2> QED BY <2>1, <2>2, <2>3
<1>8. ASSUME NEW p \in Threads, CasLoadPtr(p) \/ CasLoadCtr(p) PROVE TypeOK'
  <2>1. ASSUME CasLoadPtr(p) PROVE TypeOK'
    BY <2>1 DEF CasLoadPtr, Steps
  <2>2. ASSUME CasLoadCtr(p) PROVE TypeOK'
    BY <2>2 DEF CasLoadCtr, Steps
  <2> QED BY <1>8, <2>1, <2>2
<1>9. ASSUME NEW p \in Threads, CasStorePtr(p) PROVE TypeOK'
  <2>1. aim[p] \in Nodes /\ c_ptr[p] \in Nodes
    <3>1. aim[p] \in 1 .. End /\ c_ptr[p] \in 1 .. End
      BY <1>9 DEF CasStorePtr, PtrInv, CopyInv, CasSteps
    <3> QED BY <3>1, EndTypes, BoundsAssumption DEF Nodes
  <2>2. tail_ptr' \in Nodes
    BY <1>9, <2>1 DEF CasStorePtr
  <2>3. pc' \in [Threads -> Steps]
    BY <1>9 DEF CasStorePtr, Steps
  <2> QED BY <1>9, <2>2, <2>3 DEF CasStorePtr
<1>10. ASSUME NEW p \in Threads, NEW step \in {"load_ctr", "count"},
              CasStoreCtr(p, step)
       PROVE  TypeOK'
  <2>1. pc' \in [Threads -> Steps]
    BY <1>10 DEF CasStoreCtr, Steps
  <2>2. tail_ctr' \in Nat
    BY <1>10 DEF CasStoreCtr
  <2> QED BY <1>10, <2>1, <2>2 DEF CasStoreCtr
<1>11. CASE EnqCount
  <2>1. complete + 1 \in 0 .. MaxValues
    BY <1>11, BoundsAssumption DEF EnqCount, CountInv, Nodes
  <2>2. size' \in Int /\ complete' \in 0 .. MaxValues
    BY <1>11, <2>1 DEF EnqCount
  <2>3. pc' \in [Threads -> Steps]
    BY <1>11 DEF EnqCount, Steps
  <2> QED BY <1>11, <2>2, <2>3 DEF EnqCount
<1>12. CASE DeqCall \/ DeqFalse
  BY <1>12 DEF DeqCall, DeqFalse, Steps
<1>13. CASE DeqCount
  <2>1. size' \in Int /\ pc' \in [Threads -> Steps]
    BY <1>13 DEF DeqCount, Steps
  <2> QED BY <1>13, <2>1 DEF DeqCount
<1>14. CASE DeqHelp
  <2>1. /\ pc' \in [Threads -> Steps]
        /\ aim' \in [Threads -> Nodes \cup {NULL}]
    BY <1>14 DEF DeqHelp, Steps
  <2> QED BY <1>14, <2>1 DEF DeqHelp
<1>15. CASE DeqTake
  <2>1. pc' \in [Threads -> Steps]
    BY <1>15 DEF DeqTake, Steps
  <2>2. /\ head' \in Nodes /\ freed' \subseteq Nodes
        /\ got' \in Seq(1 .. MaxValues)
    <3>1. CASE nx["deq"] = NULL
      BY <1>15, <3>1 DEF DeqTake
    <3>2. CASE nx["deq"] # NULL
      <4>1. nx["deq"] = head + 1 /\ head < End
        BY <1>15, <3>2 DEF DeqTake, PtrInv
      <4>2. nx["deq"] - 1 \in 1 .. MaxValues
        BY <4>1, EndTypes, BoundsAssumption DEF Nodes
      <4>3. got' = Append(got, nx["deq"] - 1) /\ got \in Seq(1 .. MaxValues)
        BY <1>15, <3>2 DEF DeqTake
      <4>4. got' \in Seq(1 .. MaxValues)
        BY <4>2, <4>3, AppendProperties
      <4> QED BY <1>15, <3>2, <4>4 DEF DeqTake
    <3> QED BY <3>1, <3>2
  <2> QED BY <1>15, <2>1, <2>2 DEF DeqTake
<1>16. CASE UNCHANGED vars
  BY <1>16 DEF vars
<1> QED BY <1>1, <1>2, <1>3, <1>4, <1>5, <1>6, <1>7, <1>8, <1>9, <1>10, <1>11,
           <1>12, <1>13, <1>14, <1>15, <1>16
        DEF Next, Enq, Deq, EnqCas, DeqCas

\* The list stays the nodes in their order, deleted from the front.
LEMMA ListStep == ASSUME QueueInv, [Next]_vars PROVE ListInv'
<1>1. /\ node \in Nodes /\ End \in Nodes /\ head \in Nodes /\ MaxValues \in Nat
      /\ next \in [Nodes -> Nodes \cup {NULL}] /\ pc \in [Threads -> Steps]
  BY EndTypes, BoundsAssumption DEF QueueInv, TypeOK
<1>2. pc'["enq"] # "idle" => node' >= 2
  BY <1>1 DEF QueueInv, ListInv, Next, Enq, Deq, EnqCas, DeqCas, vars, EnqCall,
     LoadCtr, LoadPtr, LoadNext, EnqCheckPtr, EnqCheckCtr, EnqLink, CasLoadPtr,
     CasLoadCtr, CasStorePtr, CasStoreCtr, EnqCount, DeqCall, DeqFalse, DeqHelp,
     DeqTake, DeqCount, Goto, Threads, Nodes, heapVars
<1>3. CASE Links
  <2>1. \A n \in Nodes : next'[n] = IF n < End' THEN n + 1 ELSE NULL
    BY <1>1, <1>3 DEF Links, QueueInv, ListInv, Nodes, NULL
  <2>2. head' \in 1 .. End' /\ freed' = 1 .. head' - 1
    BY <1>1, <1>3 DEF Links, QueueInv, ListInv, Nodes
  <2> QED BY <1>2, <2>1, <2>2 DEF ListInv
<1>4. CASE Takes
  <2>1. \A n \in Nodes : next'[n] = IF n < End' THEN n + 1 ELSE NULL
    BY <1>4 DEF Takes, QueueInv, ListInv
  <2>2. head' \in 1 .. End' /\ freed' = 1 .. head' - 1
    BY <1>1, <1>4 DEF Takes, QueueInv, ListInv, Nodes
  <2> QED BY <1>2, <2>1, <2>2 DEF ListInv
<1>5. CASE End' = End /\ UNCHANGED <<head, next, freed, got>>
  BY <1>2, <1>5 DEF QueueInv, ListInv
<1> QED BY <1>3, <1>4, <1>5, ListSteps DEF QueueInv

\* The list only grows at its end.
LEMMA EndGrows ==
  ASSUME QueueInv, [Next]_vars
  PROVE  End \in Nat /\ End' \in Nat /\ End <= End'
BY EndTypes, ListSteps, BoundsAssumption DEF QueueInv, Links, Takes, Nodes

\* Tail and its copies stay in the list.
LEMMA TailStep == ASSUME QueueInv, [Next]_vars PROVE tail_ptr' \in 1 .. End'
<1>1. CASE UNCHANGED tail_ptr
  BY <1>1, EndGrows DEF QueueInv, PtrInv
<1>2. ASSUME NEW p \in Threads, CasStorePtr(p) PROVE tail_ptr' \in 1 .. End'
  <2>1. aim[p] \in 1 .. End /\ c_ptr[p] \in 1 .. End
    BY <1>2 DEF CasStorePtr, QueueInv, PtrInv, CopyInv, CasSteps
  <2> QED BY <1>2, <2>1, EndGrows DEF CasStorePtr
<1> QED BY <1>1, <1>2 DEF Next, Enq, Deq, EnqCas, DeqCas, vars, EnqCall,
     LoadCtr, LoadPtr, LoadNext, EnqCheckPtr, EnqCheckCtr, EnqLink, CasLoadPtr,
     CasLoadCtr, CasStoreCtr, EnqCount, DeqCall, DeqFalse, DeqHelp,
     DeqTake, DeqCount, Threads, tailVars

\* A step of one thread leaves the other's program counter and locals alone.
Keeps(p) ==
  /\ pc'[p] = pc[p] /\ t_ptr'[p] = t_ptr[p] /\ nx'[p] = nx[p]
  /\ aim'[p] = aim[p] /\ c_ptr'[p] = c_ptr[p]

\* No step is both threads'.
LEMMA OneThread ==
  ASSUME TypeOK PROVE (Enq => Keeps("deq")) /\ (Deq => Keeps("enq"))
<1> USE DEF Keeps, Goto, copyVars, casVars, TypeOK, Threads
<1>1. ASSUME Enq PROVE Keeps("deq")
  BY <1>1 DEF Enq, EnqCall, LoadCtr, LoadPtr, LoadNext, EnqCheckPtr, EnqCheckCtr,
     EnqLink, EnqCas, CasLoadPtr, CasLoadCtr, CasStorePtr, CasStoreCtr, EnqCount
<1>2. ASSUME Deq PROVE Keeps("enq")
  BY <1>2 DEF Deq, DeqCall, LoadCtr, LoadPtr, LoadNext, DeqFalse, DeqHelp,
     DeqTake, DeqCas, CasLoadPtr, CasLoadCtr, CasStorePtr, CasStoreCtr, DeqCount
<1> QED BY <1>1, <1>2

\* The words a thread has read, and the one it will store, stay in the list.
LEMMA CopyStep ==
  ASSUME QueueInv, [Next]_vars, NEW p \in Threads PROVE CopyInv(p)'
<1>1. /\ pc \in [Threads -> Steps] /\ t_ptr \in [Threads -> Nodes \cup {NULL}]
      /\ aim \in [Threads -> Nodes \cup {NULL}]
      /\ c_ptr \in [Threads -> Nodes \cup {NULL}]
      /\ CopyInv(p) /\ tail_ptr \in 1 .. End
  BY DEF QueueInv, TypeOK, PtrInv, CopyInv
<1> USE EndGrows DEF Goto, CopyInv, CasSteps, copyVars, casVars
<1>2. CASE Keeps(p)
  BY <1>1, <1>2 DEF Keeps
<1>3. CASE LoadCtr(p) \/ LoadPtr(p)
  BY <1>1, <1>3 DEF LoadCtr, LoadPtr
<1>4. CASE CasLoadPtr(p) \/ CasLoadCtr(p) \/ CasStorePtr(p)
  BY <1>1, <1>4 DEF CasLoadPtr, CasLoadCtr, CasStorePtr
<1>5. ASSUME NEW step \in {"load_ctr", "count"}, CasStoreCtr(p, step)
      PROVE  CopyInv(p)'
  BY <1>1, <1>5 DEF CasStoreCtr
<1>6. CASE p = "enq" /\ Enq
  <2>1. CASE EnqCall \/ EnqCount
    BY <1>1, <1>6, <2>1 DEF EnqCall, EnqCount
  <2>2. CASE LoadNext("enq", t_ptr["enq"], "check_ptr")
    BY <1>1, <1>6, <2>2 DEF LoadNext
  <2>3. CASE EnqCheckPtr
    BY <1>1, <1>6, <2>3 DEF EnqCheckPtr
  <2>4. CASE EnqCheckCtr
    <3>1. ASSUME NEW step \in {"load_ctr", "link"},
                 pc' = [pc EXCEPT !["enq"] = step]
          PROVE  CopyInv(p)'
      BY <1>1, <1>6, <2>4, <3>1 DEF EnqCheckCtr
    <3>2. CASE /\ nx["enq"] # NULL /\ aim' = [aim EXCEPT !["enq"] = nx["enq"]]
               /\ pc' = [pc EXCEPT !["enq"] = "cas_load_ptr"]
      <4>1. nx["enq"] = next[t_ptr["enq"]] /\ t_ptr["enq"] \in 1 .. End
        BY <1>1, <1>6, <2>4 DEF EnqCheckCtr, QueueInv, PtrInv, CopyInv
      <4>2. nx["enq"] \in 1 .. End
        BY <3>2, <4>1, EndTypes, BoundsAssumption
           DEF QueueInv, ListInv, Nodes
      <4> QED BY <1>1, <1>6, <3>2, <4>2
    <3> QED BY <2>4, <3>1, <3>2 DEF EnqCheckCtr
  <2>5. CASE EnqLink
    <3>1. CASE t_ptr["enq"] \in freed
      BY <1>1, <1>6, <2>5, <3>1 DEF EnqLink
    <3>2. CASE t_ptr["enq"] \notin freed
      <4>1. Linked' /\ node' = node
        BY <1>1, <2>5, <3>2 DEF EnqLink, Linked, Threads
      <4>2. node \in 1 .. End'
        BY <4>1 DEF End, QueueInv, TypeOK, Nodes
      <4> QED BY <1>1, <1>6, <2>5, <3>2, <4>2 DEF EnqLink
    <3> QED BY <3>1, <3>2
  <2> QED BY <1>3, <1>4, <1>5, <1>6, <2>1, <2>2, <2>3, <2>4, <2>5
          DEF Enq, EnqCas
<1>7. CASE p = "deq" /\ Deq
  <2>1. CASE DeqCall \/ DeqFalse \/ DeqCount
    BY <1>1, <1>7, <2>1 DEF DeqCall, DeqFalse, DeqCount
  <2>2. CASE LoadNext("deq", head, "decide")
    BY <1>1, <1>7, <2>2 DEF LoadNext
  <2>3. CASE DeqHelp
    <3>1. nx["deq"] \in 1 .. End
      BY <2>3, EndTypes, BoundsAssumption
         DEF DeqHelp, QueueInv, PtrInv, ListInv, Nodes
    <3> QED BY <1>1, <1>7, <2>3, <3>1 DEF DeqHelp
  <2>4. CASE DeqTake
    BY <1>1, <1>7, <2>4 DEF DeqTake
  <2> QED BY <1>3, <1>4, <1>5, <1>7, <2>1, <2>2, <2>3, <2>4 DEF Deq, DeqCas
<1>8. UNCHANGED vars => Keeps(p)
  BY DEF vars, Keeps
<1> QED BY <1>2, <1>6, <1>7, <1>8, OneThread DEF Next, QueueInv, Threads

\* What makes enqueue link is not stale: no other thread moves the end.
LEMMA EnqStep ==
  ASSUME QueueInv, [Next]_vars
  PROVE  /\ pc'["enq"] \in {"check_ptr", "check_ctr"}
              => nx'["enq"] = next'[t_ptr'["enq"]]
         /\ pc'["enq"] = "link" => t_ptr'["enq"] = End'
<1> DEFINE Fresh ==
      /\ pc["enq"] \in {"check_ptr", "check_ctr"} => nx["enq"] = next[t_ptr["enq"]]
      /\ pc["enq"] = "link" => t_ptr["enq"] = End
<1>1. /\ pc \in [Threads -> Steps] /\ t_ptr \in [Threads -> Nodes \cup {NULL}]
      /\ nx \in [Threads -> Nodes \cup {NULL}] /\ Fresh
  BY DEF QueueInv, TypeOK, PtrInv
<1>2. EnqLink \/ UNCHANGED <<End, next>>
  <2>1. Takes => UNCHANGED <<End, next>>
    BY DEF Takes
  <2> QED BY <2>1, ListSteps DEF QueueInv
<1> SUFFICES Fresh'
  OBVIOUS
<1>3. CASE EnqLink
  BY <1>1, <1>3 DEF EnqLink, Goto, Threads
<1>4. CASE UNCHANGED <<End, next>> /\ Keeps("enq")
  BY <1>1, <1>4 DEF Keeps
<1>5. CASE Enq /\ UNCHANGED <<End, next>>
  <2>1. CASE EnqCheckCtr
    <3>1. CASE pc' = [pc EXCEPT !["enq"] = "link"]
      <4>1. /\ t_ptr["enq"] \in 1 .. End /\ nx["enq"] = next[t_ptr["enq"]]
            /\ t_ptr' = t_ptr /\ nx["enq"] = NULL
        BY <1>1, <2>1, <3>1 DEF EnqCheckCtr, QueueInv, PtrInv, CopyInv, copyVars,
           Goto, Threads
      <4>2. t_ptr["enq"] \in Nodes /\ End \in Nat
        BY <4>1, EndTypes, BoundsAssumption DEF QueueInv, Nodes
      <4>3. ~(t_ptr["enq"] < End)
        <5>1. next[t_ptr["enq"]] = NULL
          BY <4>1
        <5>2. t_ptr["enq"] < End => next[t_ptr["enq"]] = t_ptr["enq"] + 1
          BY <4>2 DEF QueueInv, ListInv
        <5>3. t_ptr["enq"] + 1 # NULL
          BY <4>2, BoundsAssumption DEF Nodes, NULL
        <5> QED BY <5>1, <5>2, <5>3
      <4>4. t_ptr["enq"] = End
        BY <4>1, <4>2, <4>3, BoundsAssumption DEF Nodes
      <4> QED BY <1>1, <1>5, <3>1, <4>1, <4>4 DEF Threads
    <3>2. CASE \E step \in {"load_ctr", "cas_load_ptr"} :
                 pc' = [pc EXCEPT !["enq"] = step]
      BY <1>1, <3>2 DEF Threads
    <3> QED BY <2>1, <3>1, <3>2 DEF EnqCheckCtr, Goto
  <2>2. CASE EnqCheckPtr
    BY <1>1, <1>5, <2>2 DEF EnqCheckPtr, Goto, Threads, copyVars
  <2>3. CASE LoadNext("enq", t_ptr["enq"], "check_ptr")
    BY <1>1, <1>5, <2>3 DEF LoadNext, Goto, Threads
  <2>4. CASE EnqCall \/ EnqCount \/ LoadCtr("enq") \/ LoadPtr("enq")
    BY <1>1, <2>4 DEF EnqCall, EnqCount, LoadCtr, LoadPtr, Goto, Threads
  <2>5. CASE EnqCas
    BY <1>1, <2>5 DEF EnqCas, CasLoadPtr, CasLoadCtr, CasStorePtr, CasStoreCtr,
       Goto, Threads
  <2> QED BY <1>3, <1>5, <2>1, <2>2, <2>3, <2>4, <2>5 DEF Enq
<1>6. UNCHANGED vars => Keeps("enq")
  BY DEF vars, Keeps, copyVars, casVars
<1> QED BY <1>2, <1>3, <1>4, <1>5, <1>6, OneThread DEF Next, QueueInv

\* Nor is what makes dequeue take: the end never moves back.
LEMMA DeqStep ==
  ASSUME QueueInv, [Next]_vars, pc'["deq"] = "decide", nx'["deq"] # NULL
  PROVE  nx'["deq"] = head' + 1 /\ head' < End'
<1>1. /\ pc \in [Threads -> Steps] /\ nx \in [Threads -> Nodes \cup {NULL}]
  BY DEF QueueInv, TypeOK
<1>2. head' = head
  <2>1. ~Takes
    BY <1>1 DEF Takes, Threads
  <2> QED BY <2>1, ListSteps DEF QueueInv, Links
<1>3. CASE Keeps("deq")
  BY <1>2, <1>3, EndGrows, EndTypes, BoundsAssumption
     DEF Keeps, QueueInv, PtrInv, Nodes
<1>4. CASE Deq
  <2>1. LoadNext("deq", head, "decide")
    BY <1>1, <1>4 DEF Deq, DeqCall, LoadCtr, LoadPtr, DeqFalse, DeqHelp, DeqTake,
       DeqCas, CasLoadPtr, CasLoadCtr, CasStorePtr, CasStoreCtr, DeqCount, Goto,
       Threads
  <2>2. nx'["deq"] = next[head]
    BY <1>1, <2>1 DEF LoadNext, Goto, Threads
  <2>3. nx'["deq"] = head + 1 /\ head < End
    BY <2>2, EndTypes, BoundsAssumption DEF QueueInv, ListInv
  <2> QED BY <1>2, <2>3, EndGrows, EndTypes, BoundsAssumption DEF QueueInv, Nodes
<1>5. UNCHANGED vars => Keeps("deq")
  BY DEF vars, Keeps, copyVars, casVars
<1> QED BY <1>3, <1>4, <1>5, OneThread DEF Next, QueueInv

\* Every step keeps what is known of the pointers.
LEMMA PtrStep == ASSUME QueueInv, [Next]_vars PROVE PtrInv'
BY TailStep, CopyStep, EnqStep, DeqStep DEF PtrInv, CopyInv

\* Only dequeue's taking step counts a value out; a return of enqueue counts
\* one in; and the end of an empty list is where every returned enqueue led.
LEMMA CountStep == ASSUME QueueInv, [Next]_vars PROVE CountInv'
<1>1. /\ pc \in [Threads -> Steps] /\ nx \in [Threads -> Nodes \cup {NULL}]
      /\ node \in Nat /\ head \in Nat /\ complete \in Nat /\ called \in Nat
      /\ Len(got) \in Nat /\ Len(got) = head - 1
      /\ End \in Nat /\ head <= End
  BY EndTypes, BoundsAssumption
     DEF QueueInv, TypeOK, CountInv, ListInv, Nodes
<1>2. Len(got') = head' - 1 /\ head' >= head
  <2>1. CASE Takes
    <3>1. got \in Seq(1 .. MaxValues)
      BY DEF QueueInv, TypeOK
    <3>2. Len(Append(got, head)) = Len(got) + 1
      BY <3>1
    <3> QED BY <1>1, <2>1, <3>2 DEF Takes
  <2>2. CASE UNCHANGED <<head, got>>
    BY <1>1, <2>2
  <2> QED BY <2>1, <2>2, ListSteps DEF QueueInv, Links
<1>3. complete' = IF pc'["enq"] = "idle" THEN node' - 1 ELSE node' - 2
  <2>1. CASE Keeps("enq") /\ UNCHANGED <<complete, node>>
    BY <2>1 DEF Keeps, QueueInv, CountInv
  <2>2. CASE Enq
    BY <1>1, <2>2 DEF Enq, EnqCall, LoadCtr, LoadPtr, LoadNext, EnqCheckPtr,
       EnqCheckCtr, EnqLink, EnqCas, CasLoadPtr, CasLoadCtr, CasStorePtr,
       CasStoreCtr, EnqCount, Goto, Threads, heapVars, histVars, QueueInv,
       CountInv
  <2>3. CASE Deq
    <3>1. UNCHANGED <<complete, node>>
      BY <2>3 DEF Deq, DeqCall, LoadCtr, LoadPtr, LoadNext, DeqFalse, DeqHelp,
         DeqTake, DeqCas, CasLoadPtr, CasLoadCtr, CasStorePtr, CasStoreCtr,
         DeqCount, heapVars, histVars
    <3> QED BY <2>1, <2>3, <3>1, OneThread DEF QueueInv
  <2>4. CASE UNCHANGED vars
    BY <2>1, <2>4 DEF vars, Keeps, copyVars, casVars, heapVars, histVars
  <2> QED BY <2>2, <2>3, <2>4 DEF Next
<1>4. complete' >= complete /\ complete' \in Nat
  BY <1>1 DEF Next, Enq, Deq, EnqCas, DeqCas, vars, EnqCall, LoadCtr, LoadPtr,
     LoadNext, EnqCheckPtr, EnqCheckCtr, EnqLink, CasLoadPtr, CasLoadCtr,
     CasStorePtr, CasStoreCtr, EnqCount, DeqCall, DeqFalse, DeqHelp, DeqTake,
     DeqCount, histVars
<1>5. UNCHANGED called \/ DeqCall
  BY DEF Next, Enq, Deq, EnqCas, DeqCas, vars, EnqCall, LoadCtr, LoadPtr,
     LoadNext, EnqCheckPtr, EnqCheckCtr, EnqLink, CasLoadPtr, CasLoadCtr,
     CasStorePtr, CasStoreCtr, EnqCount, DeqFalse, DeqHelp, DeqTake,
     DeqCount, histVars
<1>6. called' <= complete'
  BY <1>1, <1>4, <1>5 DEF DeqCall, QueueInv, CountInv
<1>7. ASSUME pc'["deq"] = "decide", nx'["deq"] = NULL PROVE called' <= Len(got')
  <2>1. called' = called
    BY <1>1, <1>5, <1>7 DEF DeqCall, Goto, Threads
  <2>2. CASE Keeps("deq")
    <3>1. called <= Len(got)
      BY <1>7, <2>2 DEF Keeps, QueueInv, CountInv
    <3> QED BY <1>1, <1>2, <2>1, <3>1, TypeStep, BoundsAssumption
            DEF TypeOK, Nodes
  <2>3. CASE Deq
    <3>1. LoadNext("deq", head, "decide")
      BY <1>1, <1>7, <2>3 DEF Deq, DeqCall, LoadCtr, LoadPtr, DeqFalse, DeqHelp,
         DeqTake, DeqCas, CasLoadPtr, CasLoadCtr, CasStorePtr, CasStoreCtr,
         DeqCount, Goto, Threads
    <3>2. next[head] = NULL /\ got' = got
      BY <1>1, <1>7, <3>1 DEF LoadNext, Goto, Threads, histVars
    <3>3. head = End
      <4>1. ~(head < End)
        BY <1>1, <3>2, EndTypes DEF QueueInv, ListInv, NULL
      <4> QED BY <1>1, <4>1
    <3>4. called <= complete /\ complete <= End - 1
      BY <1>1 DEF QueueInv, CountInv, End, Linked
    <3> QED BY <1>1, <2>1, <3>2, <3>3, <3>4
  <2>4. UNCHANGED vars => Keeps("deq")
    BY DEF vars, Keeps, copyVars, casVars
  <2> QED BY <2>2, <2>3, <2>4, OneThread DEF Next, QueueInv
<1> QED BY <1>2, <1>3, <1>6, <1>7 DEF CountInv

\* size lags behind the list by the uncounted and leads by the overcounted.
LEMMA SizeStep == ASSUME QueueInv, [Next]_vars PROVE SizeInv'
<1>1. /\ pc \in [Threads -> Steps] /\ aim \in [Threads -> Nodes \cup {NULL}]
      /\ node \in Nat /\ head \in Nat /\ size \in Int /\ End \in Nat
      /\ End = IF Linked THEN node ELSE node - 1
      /\ size = (End - head) - (IF Uncounted THEN 1 ELSE 0)
                + (IF Overcounted THEN 1 ELSE 0)
  BY EndTypes, BoundsAssumption
     DEF QueueInv, TypeOK, SizeInv, Nodes, Uncounted, Overcounted, End
<1> SUFFICES size' = (End' - head') - (IF Uncounted' THEN 1 ELSE 0)
                     + (IF Overcounted' THEN 1 ELSE 0)
  BY DEF SizeInv, Uncounted, Overcounted
<1>2. ASSUME UNCHANGED <<size, head, End>>, Uncounted' <=> Uncounted,
             Overcounted' <=> Overcounted
      PROVE  size' = (End' - head') - (IF Uncounted' THEN 1 ELSE 0)
                     + (IF Overcounted' THEN 1 ELSE 0)
  BY <1>1, <1>2
<1>3. CASE EnqLink /\ Links
  <2>1. Uncounted' /\ ~Uncounted /\ End' = End + 1
    BY <1>1, <1>3 DEF Links, Uncounted, Threads
  <2>2. UNCHANGED <<size, head>> /\ (Overcounted' <=> Overcounted)
    BY <1>1, <1>3 DEF EnqLink, Links, Overcounted, Threads
  <2> QED BY <1>1, <2>1, <2>2
<1>4. CASE DeqTake /\ Takes
  <2>1. Overcounted' /\ ~Overcounted /\ head' = head + 1 /\ End' = End
    BY <1>1, <1>4 DEF Takes, Overcounted, Threads
  <2>2. size' = size /\ (Uncounted' <=> Uncounted)
    BY <1>1, <1>4 DEF DeqTake, Takes, Uncounted, Threads
  <2> QED BY <1>1, <2>1, <2>2
<1>5. CASE End' = End /\ UNCHANGED <<head, next, freed, got>>
  <2>1. CASE EnqCount
    <3>1. Uncounted /\ ~Uncounted' /\ size' = size + 1
      BY <1>1, <2>1 DEF EnqCount, Uncounted, Linked, Goto, Threads
    <3>2. Overcounted' <=> Overcounted
      BY <1>1, <2>1 DEF EnqCount, Overcounted, Goto, Threads
    <3> QED BY <1>1, <1>5, <3>1, <3>2
  <2>2. CASE DeqCount
    <3>1. Overcounted /\ ~Overcounted' /\ size' = size - 1
      BY <1>1, <2>2 DEF DeqCount, Overcounted, Goto, Threads
    <3>2. Uncounted' <=> Uncounted
      BY <1>1, <1>5, <2>2 DEF DeqCount, Uncounted, Goto, Threads, heapVars
    <3> QED BY <1>1, <1>5, <3>1, <3>2
  <2>3. CASE Enq /\ ~EnqCount
    <3>1. size' = size
      BY <2>3 DEF Enq, EnqCall, LoadCtr, LoadPtr, LoadNext, EnqCheckPtr,
         EnqCheckCtr, EnqLink, EnqCas, CasLoadPtr, CasLoadCtr, CasStorePtr,
         CasStoreCtr
    <3>2. Overcounted' <=> Overcounted
      BY <2>3, OneThread DEF Overcounted, Keeps, QueueInv
    <3>3. Uncounted' <=> Uncounted
      <4>1. CASE EnqCall
        BY <1>1, <1>5, <4>1 DEF EnqCall, Uncounted, Goto, Threads, Linked
      <4>2. CASE LoadNext("enq", t_ptr["enq"], "check_ptr")
        <5>1. End # node
          BY <1>1, <4>2 DEF LoadNext, Linked, CasSteps
        <5> QED BY <1>5, <4>2, <5>1 DEF LoadNext, Uncounted, heapVars
      <4>3. CASE ~EnqCall /\ ~LoadNext("enq", t_ptr["enq"], "check_ptr")
        <5>1. /\ node' = node
              /\ pc["enq"] \notin {"idle", "fault"}
              /\ pc'["enq"] \notin {"idle", "fault"} \/ EnqLink
          BY <1>1, <2>3, <4>3 DEF Enq, LoadCtr, LoadPtr, EnqCheckPtr,
             EnqCheckCtr, EnqLink, EnqCas, CasLoadPtr, CasLoadCtr, CasStorePtr,
             CasStoreCtr, Goto, Threads, heapVars
        <5>2. EnqLink => End # node
          BY <1>1 DEF EnqLink, Linked, CasSteps
        <5> QED BY <1>5, <5>1, <5>2 DEF Uncounted
      <4> QED BY <4>1, <4>2, <4>3
    <3> QED BY <1>2, <1>5, <3>1, <3>2, <3>3
  <2>4. CASE Deq /\ ~DeqCount
    <3>1. size' = size /\ node' = node
      BY <2>4 DEF Deq, DeqCall, LoadCtr, LoadPtr, LoadNext, DeqFalse, DeqHelp,
         DeqTake, DeqCas, CasLoadPtr, CasLoadCtr, CasStorePtr, CasStoreCtr,
         heapVars
    <3>2. Uncounted' <=> Uncounted
      BY <1>5, <2>4, <3>1, OneThread DEF Uncounted, Keeps, QueueInv
    <3>3. Overcounted' <=> Overcounted
      <4>1. CASE DeqTake
        BY <1>1, <1>5, <4>1 DEF DeqTake, Overcounted, Goto, Threads
      <4>2. CASE ~DeqTake
        BY <1>1, <2>4, <4>2 DEF Deq, DeqCall, LoadCtr, LoadPtr, LoadNext,
           DeqFalse, DeqHelp, DeqCas, CasLoadPtr, CasLoadCtr, CasStorePtr,
           CasStoreCtr, Overcounted, Goto, Threads
      <4> QED BY <4>1, <4>2
    <3> QED BY <1>2, <1>5, <3>1, <3>2, <3>3
  <2>5. CASE UNCHANGED vars
    BY <1>2, <1>5, <2>5 DEF vars, Uncounted, Overcounted, heapVars
  <2> QED BY <2>1, <2>2, <2>3, <2>4, <2>5 DEF Next
<1> QED BY <1>3, <1>4, <1>5, ListSteps DEF QueueInv

-----------------------------------------------------------------------------
(* The invariant and what follows from it.                                 *)

\* The constructor's queue satisfies the invariant.
LEMMA InitHolds == Init => QueueInv
<1> SUFFICES ASSUME Init PROVE QueueInv
  OBVIOUS
<1> USE BoundsAssumption DEF Init, Threads
<1>1. TypeOK
  BY DEF TypeOK, Nodes, NULL, Steps
<1>2. End = 1
  BY DEF End, Linked
<1>3. ListInv
  BY <1>2 DEF ListInv, Nodes
<1>4. PtrInv
  BY <1>2 DEF PtrInv, CopyInv, CasSteps
<1>5. CountInv /\ SizeInv
  BY <1>2 DEF CountInv, SizeInv, Uncounted, Overcounted
<1> QED BY <1>1, <1>3, <1>4, <1>5 DEF QueueInv

\* Every step keeps the invariant.
LEMMA StepHolds == QueueInv /\ [Next]_vars => QueueInv'
<1> SUFFICES ASSUME QueueInv, [Next]_vars PROVE QueueInv'
  OBVIOUS
<1> QED BY TypeStep, ListStep, PtrStep, CountStep, SizeStep DEF QueueInv

\* Whatever the interleaving, and however stale Tail gets, the list is whole,
\* its end is where enqueue links and _size is accounted for.
THEOREM Invariance == Spec => []QueueInv
BY InitHolds, StepHolds, PTL DEF Spec

\* Tail and Head always point to a node.
THEOREM Types == Spec => []TypeOK
<1>1. QueueInv => TypeOK
  BY DEF QueueInv
<1> QED BY Invariance, <1>1, PTL

\* _size differs from the number of values in the queue only by the calls that
\* are between their CAS and their count, for any number of values.
THEOREM SizeExact == Spec => []SizeCounts
<1>1. QueueInv => SizeCounts
  BY LastIsEnd DEF QueueInv, SizeInv, SizeCounts, Uncounted, Overcounted
<1> QED BY Invariance, <1>1, PTL

\* dequeue says "empty" only when every value whose enqueue had returned before
\* it was called is out.
THEOREM FalseIsDrained == Spec => FalseMeansDrained
<1>1. QueueInv /\ [Next]_vars => [DeqFalse => Len(got) >= called]_vars
  <2> SUFFICES ASSUME QueueInv, DeqFalse PROVE Len(got) >= called
    OBVIOUS
  <2>1. called <= Len(got) /\ called \in Nat /\ Len(got) \in Nat
    BY BoundsAssumption DEF DeqFalse, QueueInv, CountInv, TypeOK
  <2> QED BY <2>1
<1> QED BY Invariance, <1>1, PTL DEF Spec, FalseMeansDrained

-----------------------------------------------------------------------------
(* The refinement.                                                         *)

\* The values from the head to the end of the list.
Values == [i \in 1 .. End - head |-> head + i - 1]

\* Values is a sequence, its items known by their places.
LEMMA ValuesTypes ==
  ASSUME QueueInv
  PROVE  /\ Values \in Seq(Nat) /\ Len(Values) = End - head
         /\ \A i \in 1 .. End - head : Values[i] = head + i - 1
         /\ Values = [i \in 1 .. Last - head |-> head + i - 1]
<1>1. End \in Nat /\ head \in Nat /\ head >= 1 /\ head <= End
  BY EndTypes, BoundsAssumption DEF QueueInv, ListInv, Nodes
<1>2. End - head \in Nat
  BY <1>1
<1>3. \A i \in 1 .. End - head : head + i - 1 \in Nat
  BY <1>1
<1>4. Values \in [1 .. End - head -> Nat]
  BY <1>3 DEF Values
<1>5. Values \in Seq(Nat) /\ Len(Values) = End - head
  BY <1>2, <1>4
<1> QED BY <1>5, LastIsEnd DEF Values, QueueInv

\* The constructor's queue is empty.
LEMMA InitFifoHolds == Init => Fifo!InitFifo
<1> SUFFICES ASSUME Init PROVE Fifo!InitFifo
  OBVIOUS
<1>1. QueueInv
  BY InitHolds
<1>2. Len(Values) = 0 /\ Values \in Seq(Nat)
  BY <1>1, ValuesTypes DEF Init, End, Linked
<1>3. Values = <<>>
  BY <1>2, EmptySeq
<1> QED BY <1>1, <1>3, ValuesTypes DEF Fifo!InitFifo, Init

\* Is s the sequence of the numbers from m to n - 1?
Counts(s, m, n) ==
  /\ s \in Seq(Nat) /\ Len(s) = n - m
  /\ \A i \in 1 .. n - m : s[i] = m + i - 1

\* One number more at the end is an Append.
LEMMA CountsAppend ==
  ASSUME NEW s, NEW t, NEW m \in Nat, NEW n \in Nat, m <= n,
         Counts(s, m, n), Counts(t, m, n + 1)
  PROVE  t = Append(s, n)
<1> USE DEF Counts
<1>1. s \in Seq(Nat) /\ t \in Seq(Nat) /\ Len(s) = n - m /\ Len(t) = Len(s) + 1
  OBVIOUS
<1>2. /\ Append(s, n) \in Seq(Nat) /\ Len(Append(s, n)) = Len(s) + 1
      /\ Append(s, n)[Len(s) + 1] = n
      /\ \A i \in 1 .. Len(s) : Append(s, n)[i] = s[i]
  BY <1>1, AppendProperties
<1>3. ASSUME NEW i \in 1 .. Len(t) PROVE t[i] = Append(s, n)[i]
  <2>1. t[i] = m + i - 1
    BY <1>1
  <2>2. CASE i \in 1 .. Len(s)
    BY <1>1, <1>2, <2>1, <2>2
  <2>3. CASE i = Len(s) + 1
    BY <1>1, <1>2, <2>1, <2>3
  <2> QED BY <1>1, <2>2, <2>3
<1> QED BY <1>1, <1>2, <1>3, SeqEqual

\* One number less at the front is a Tail.
LEMMA CountsTail ==
  ASSUME NEW s, NEW t, NEW m \in Nat, NEW n \in Nat, m < n,
         Counts(s, m, n), Counts(t, m + 1, n)
  PROVE  s # <<>> /\ Head(s) = m /\ t = Tail(s)
<1> USE DEF Counts
<1>1. /\ s \in Seq(Nat) /\ t \in Seq(Nat) /\ Len(s) = n - m
      /\ Len(t) + 1 = Len(s) /\ Len(s) >= 1
  OBVIOUS
<1>2. s # <<>> /\ s[1] = m
  BY <1>1
<1>3. /\ Head(s) = s[1] /\ Tail(s) \in Seq(Nat) /\ Len(Tail(s)) = Len(s) - 1
      /\ \A i \in 1 .. Len(Tail(s)) : Tail(s)[i] = s[i + 1]
  BY <1>1, <1>2, HeadTailProperties
<1>4. Len(Tail(s)) = Len(t) /\ Len(t) \in Nat
  BY <1>1, <1>3
<1>5. ASSUME NEW i \in 1 .. Len(t) PROVE t[i] = Tail(s)[i]
  <2>1. i + 1 \in 1 .. n - m /\ i \in 1 .. n - (m + 1)
    BY <1>1, <1>4
  <2>2. s[i + 1] = m + (i + 1) - 1 /\ t[i] = (m + 1) + i - 1
    BY <2>1
  <2>3. Tail(s)[i] = s[i + 1]
    BY <1>3, <1>4
  <2> QED BY <2>1, <2>2, <2>3
<1> QED BY <1>1, <1>2, <1>3, <1>4, <1>5, SeqEqual

\* enqueue's link appends the next value, dequeue's take removes the first,
\* and no other step is seen.
LEMMA StepRefinesFifo ==
  QueueInv /\ [Next]_vars => [Fifo!Enqueue \/ Fifo!Dequeue]_(Fifo!fifoVars)
<1> DEFINE Shape == /\ Counts(Values, head, End)
                    /\ Values = [i \in 1 .. Last - head |-> head + i - 1]
<1>1. QueueInv => Shape
  BY ValuesTypes DEF Counts
<1>2. (QueueInv => Shape)'
  BY <1>1, PTL
<1> SUFFICES ASSUME QueueInv, [Next]_vars
             PROVE  [Fifo!Enqueue \/ Fifo!Dequeue]_(Fifo!fifoVars)
  OBVIOUS
<1>3. Shape /\ Shape'
  BY <1>1, <1>2, StepHolds
<1>4. End \in Nat /\ head \in Nat /\ head >= 1 /\ head <= End
  BY EndTypes, BoundsAssumption DEF QueueInv, ListInv, Nodes
<1>5. Len(got) = head - 1 /\ got \in Seq(1 .. MaxValues)
  BY DEF QueueInv, CountInv, TypeOK
<1>6. CASE Links
  <2>1. End' = End + 1 /\ head' = head /\ got' = got
    BY <1>6 DEF Links
  <2>2. Len(got) + Len(Values) + 1 = End
    BY <1>3, <1>4, <1>5 DEF Counts
  <2>3. Values' = Append(Values, End)
    BY <1>3, <1>4, <2>1, CountsAppend
  <2> QED BY <1>3, <2>1, <2>2, <2>3 DEF Fifo!Enqueue
<1>7. CASE Takes
  <2>1. End' = End /\ head' = head + 1 /\ got' = Append(got, head) /\ head < End
    BY <1>7 DEF Takes
  <2>2. Values # <<>> /\ Head(Values) = head /\ Values' = Tail(Values)
    BY <1>3, <1>4, <2>1, CountsTail
  <2> QED BY <1>3, <2>1, <2>2 DEF Fifo!Dequeue
<1>8. CASE End' = End /\ UNCHANGED <<head, next, freed, got>>
  <2>1. Values' = Values
    BY <1>8 DEF Values
  <2> QED BY <1>3, <1>8, <2>1 DEF Fifo!fifoVars
<1> QED BY <1>6, <1>7, <1>8, ListSteps DEF QueueInv

\* Under every interleaving of the two threads, with a CAS that is not atomic,
\* the queue behaves as FifoQueue until it faults.
THEOREM RefinesFifo == Spec => ImplementsFifo
BY InitFifoHolds, StepRefinesFifo, Invariance, PTL
   DEF Spec, ImplementsFifo, Fifo!SpecFifo
=============================================================================
