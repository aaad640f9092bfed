--------------------------- MODULE LockFreeQueue ---------------------------
(***************************************************************************)
(* src/datastruct/__no_lock_queue_with_CAS.h with the two threads that     *)
(* main.cpp gives it: out_sys_files enqueues, in_db dequeues.              *)
(*                                                                         *)
(* The queue is Michael and Scott's, but its CAS is not atomic: it copies  *)
(* the shared word into an atomic of its own, compares and exchanges that, *)
(* and stores the copy back, whatever the comparison said. A word is a     *)
(* pointer and a counter. The Makefile gives g++ no -O, and then a word is *)
(* read and written in two accesses: an assignment reads the counter       *)
(* first, CAS and operator== the pointer. So every access to a half of     *)
(* Tail, the word both threads write, is a step. Head is the consumer's    *)
(* alone, and of a node's next word only the pointer is looked at by both: *)
(* each of these is one step. Accesses are sequentially consistent.        *)
(*                                                                         *)
(* Node n carries the value n - 1 (node 1 is the constructor's), and a     *)
(* node's address is not used again. Touching a freed node or following a  *)
(* null pointer is a fault: its effect is undefined, and the model ends.   *)
(***************************************************************************)
EXTENDS Integers, Sequences

CONSTANTS
  MaxValues,  \* bound on the number of enqueues
  MaxCtr      \* bound on Tail's counter, an unsigned long: two threads that
              \* undo each other's CAS can raise it for ever

ASSUME BoundsAssumption == MaxValues \in Nat /\ MaxCtr \in Nat

Nodes   == 1 .. MaxValues + 1
NULL    == 0
Threads == {"enq", "deq"}

VARIABLES
  tail_ptr, tail_ctr,  \* Tail
  head,                \* Head.ptr
  next,                \* next[n]: n->next.ptr
  size,                \* _size
  freed,               \* the nodes deleted
  node,                \* enqueue's node, the last one allocated
  pc,                  \* each thread's step
  t_ptr, t_ctr,        \* its local tail
  nx,                  \* its local next.ptr
  c_ptr, c_ctr,        \* in CAS: its copy of Tail
  aim,                 \* in CAS: the pointer to store
  got,                 \* history: what dequeue has returned
  complete, called     \* history: enqueues that have returned, now and when
                       \* the running dequeue was called

tailVars == <<tail_ptr, tail_ctr>>
heapVars == <<head, next, freed, node>>
copyVars == <<t_ptr, t_ctr, nx>>
casVars  == <<c_ptr, c_ctr, aim>>
histVars == <<got, complete, called>>
vars == <<tailVars, heapVars, size, pc, copyVars, casVars, histVars>>

Steps == {"idle", "load_ctr", "load_ptr", "load_next", "check_ptr",
          "check_ctr", "link", "decide", "cas_load_ptr", "cas_load_ctr",
          "cas_store_ptr", "cas_store_ctr", "count", "fault"}

Init ==
  /\ tail_ptr = 1 /\ tail_ctr = 0
  /\ head = 1 /\ next = [n \in Nodes |-> NULL]
  /\ size = 0 /\ freed = {} /\ node = 1
  /\ pc = [p \in Threads |-> "idle"]
  /\ t_ptr = [p \in Threads |-> NULL] /\ t_ctr = [p \in Threads |-> 0]
  /\ nx = [p \in Threads |-> NULL]
  /\ c_ptr = [p \in Threads |-> NULL] /\ c_ctr = [p \in Threads |-> 0]
  /\ aim = [p \in Threads |-> NULL]
  /\ got = <<>> /\ complete = 0 /\ called = 0

Goto(p, step) == pc' = [pc EXCEPT ![p] = step]

-----------------------------------------------------------------------------
(* tail=Tail; the read of a next pointer; CAS(Tail, tail, Ptr(aim, ...)).  *)

LoadCtr(p) ==
  /\ pc[p] = "load_ctr"
  /\ t_ctr' = [t_ctr EXCEPT ![p] = tail_ctr]
  /\ Goto(p, "load_ptr")
  /\ UNCHANGED <<tailVars, heapVars, size, t_ptr, nx, casVars, histVars>>

LoadPtr(p) ==
  /\ pc[p] = "load_ptr"
  /\ t_ptr' = [t_ptr EXCEPT ![p] = tail_ptr]
  /\ Goto(p, "load_next")
  /\ UNCHANGED <<tailVars, heapVars, size, t_ctr, nx, casVars, histVars>>

LoadNext(p, from, then) ==
  /\ pc[p] = "load_next"
  /\ IF from \in freed
     THEN Goto(p, "fault") /\ UNCHANGED nx
     ELSE nx' = [nx EXCEPT ![p] = next[from]] /\ Goto(p, then)
  /\ UNCHANGED <<tailVars, heapVars, size, t_ptr, t_ctr, casVars, histVars>>

CasLoadPtr(p) ==
  /\ pc[p] = "cas_load_ptr"
  /\ c_ptr' = [c_ptr EXCEPT ![p] = tail_ptr]
  /\ Goto(p, "cas_load_ctr")
  /\ UNCHANGED <<tailVars, heapVars, size, copyVars, c_ctr, aim, histVars>>

CasLoadCtr(p) ==
  /\ pc[p] = "cas_load_ctr"
  /\ c_ctr' = [c_ctr EXCEPT ![p] = tail_ctr]
  /\ Goto(p, "cas_store_ptr")
  /\ UNCHANGED <<tailVars, heapVars, size, copyVars, c_ptr, aim, histVars>>

CasEqual(p) == c_ptr[p] = t_ptr[p] /\ c_ctr[p] = t_ctr[p]

CasStorePtr(p) ==
  /\ pc[p] = "cas_store_ptr"
  /\ tail_ptr' = IF CasEqual(p) THEN aim[p] ELSE c_ptr[p]
  /\ Goto(p, "cas_store_ctr")
  /\ UNCHANGED <<tail_ctr, heapVars, size, copyVars, casVars, histVars>>

CasStoreCtr(p, then) ==
  /\ pc[p] = "cas_store_ctr"
  /\ t_ctr[p] < MaxCtr
  /\ tail_ctr' = IF CasEqual(p) THEN t_ctr[p] + 1 ELSE c_ctr[p]
  /\ Goto(p, then)
  /\ UNCHANGED <<tail_ptr, heapVars, size, copyVars, casVars, histVars>>

-----------------------------------------------------------------------------
(* enqueue.                                                                *)

EnqCall ==
  /\ pc["enq"] = "idle"
  /\ node <= MaxValues
  /\ node' = node + 1
  /\ Goto("enq", "load_ctr")
  /\ UNCHANGED <<tailVars, head, next, freed, size, copyVars, casVars,
                 histVars>>

\* tail==Tail
EnqCheckPtr ==
  /\ pc["enq"] = "check_ptr"
  /\ Goto("enq", IF t_ptr["enq"] = tail_ptr THEN "check_ctr" ELSE "load_ctr")
  /\ UNCHANGED <<tailVars, heapVars, size, copyVars, casVars, histVars>>

\* Variant: the end of the list is not made sure of.
EnqCheckCtrBlind ==
  /\ pc["enq"] = "check_ctr"
  /\ Goto("enq", IF t_ctr["enq"] = tail_ctr THEN "link" ELSE "load_ctr")
  /\ UNCHANGED <<tailVars, heapVars, size, copyVars, casVars, histVars>>

\* Variant: a tail that lags behind is waited for, not helped.
EnqCheckCtrWait ==
  /\ pc["enq"] = "check_ctr"
  /\ Goto("enq", IF t_ctr["enq"] = tail_ctr /\ nx["enq"] = NULL
                 THEN "link" ELSE "load_ctr")
  /\ UNCHANGED <<tailVars, heapVars, size, copyVars, casVars, histVars>>

EnqCheckCtr ==
  /\ pc["enq"] = "check_ctr"
  /\ \/ /\ t_ctr["enq"] # tail_ctr
        /\ Goto("enq", "load_ctr")
        /\ UNCHANGED aim
     \/ /\ t_ctr["enq"] = tail_ctr /\ nx["enq"] = NULL
        /\ Goto("enq", "link")
        /\ UNCHANGED aim
     \/ /\ t_ctr["enq"] = tail_ctr /\ nx["enq"] # NULL
        /\ aim' = [aim EXCEPT !["enq"] = nx["enq"]]
        /\ Goto("enq", "cas_load_ptr")
  /\ UNCHANGED <<tailVars, heapVars, size, copyVars, c_ptr, c_ctr, histVars>>

\* The CAS on tail.ptr->next: no other thread writes a next word, so it
\* succeeds.
EnqLink ==
  /\ pc["enq"] = "link"
  /\ IF t_ptr["enq"] \in freed
     THEN Goto("enq", "fault") /\ UNCHANGED <<next, aim>>
     ELSE /\ next' = [next EXCEPT ![t_ptr["enq"]] = node]
          /\ aim' = [aim EXCEPT !["enq"] = node]
          /\ Goto("enq", "cas_load_ptr")
  /\ UNCHANGED <<tailVars, head, freed, node, size, copyVars, c_ptr, c_ctr,
                 histVars>>

\* _size++, and enqueue returns.
EnqCount ==
  /\ pc["enq"] = "count"
  /\ size' = size + 1
  /\ complete' = complete + 1
  /\ Goto("enq", "idle")
  /\ UNCHANGED <<tailVars, heapVars, copyVars, casVars, got, called>>

EnqCas ==
  \/ CasLoadPtr("enq") \/ CasLoadCtr("enq") \/ CasStorePtr("enq")
  \/ CasStoreCtr("enq", IF aim["enq"] = node THEN "count" ELSE "load_ctr")

Enq ==
  \/ EnqCall \/ LoadCtr("enq") \/ LoadPtr("enq")
  \/ LoadNext("enq", t_ptr["enq"], "check_ptr")
  \/ EnqCheckPtr \/ EnqCheckCtr \/ EnqLink \/ EnqCas \/ EnqCount

-----------------------------------------------------------------------------
(* dequeue. Nobody else writes Head: head==Head holds and the CAS on Head  *)
(* succeeds.                                                               *)

DeqCall ==
  /\ pc["deq"] = "idle"
  /\ called' = complete
  /\ Goto("deq", "load_ctr")
  /\ UNCHANGED <<tailVars, heapVars, size, copyVars, casVars, got, complete>>

\* Variant: an empty queue is told by Head and Tail alone.
DeqFalseEager ==
  /\ pc["deq"] = "decide"
  /\ head = t_ptr["deq"]
  /\ Goto("deq", "idle")
  /\ UNCHANGED <<tailVars, heapVars, size, copyVars, casVars, histVars>>

\* Variant: no early return.
DeqFalseCounted ==
  /\ pc["deq"] = "decide"
  /\ head = t_ptr["deq"] /\ nx["deq"] = NULL
  /\ Goto("deq", "count")
  /\ UNCHANGED <<tailVars, heapVars, size, copyVars, casVars, histVars>>

DeqFalse ==
  /\ pc["deq"] = "decide"
  /\ head = t_ptr["deq"] /\ nx["deq"] = NULL
  /\ Goto("deq", "idle")
  /\ UNCHANGED <<tailVars, heapVars, size, copyVars, casVars, histVars>>

DeqHelp ==
  /\ pc["deq"] = "decide"
  /\ head = t_ptr["deq"] /\ nx["deq"] # NULL
  /\ aim' = [aim EXCEPT !["deq"] = nx["deq"]]
  /\ Goto("deq", "cas_load_ptr")
  /\ UNCHANGED <<tailVars, heapVars, size, copyVars, c_ptr, c_ctr, histVars>>

\* Variant: the value of the old head, not of the new one.
DeqTakeOld ==
  /\ pc["deq"] = "decide"
  /\ head # t_ptr["deq"]
  /\ IF nx["deq"] = NULL
     THEN Goto("deq", "fault") /\ UNCHANGED <<head, freed, got>>
     ELSE /\ got' = Append(got, head - 1)
          /\ head' = nx["deq"]
          /\ freed' = freed \cup {head}
          /\ Goto("deq", "count")
  /\ UNCHANGED <<tailVars, next, node, size, copyVars, casVars, complete,
                 called>>

\* _res=next.ptr->value, Head moves on, and the old head is deleted.
DeqTake ==
  /\ pc["deq"] = "decide"
  /\ head # t_ptr["deq"]
  /\ IF nx["deq"] = NULL
     THEN Goto("deq", "fault") /\ UNCHANGED <<head, freed, got>>
     ELSE /\ got' = Append(got, nx["deq"] - 1)
          /\ head' = nx["deq"]
          /\ freed' = freed \cup {head}
          /\ Goto("deq", "count")
  /\ UNCHANGED <<tailVars, next, node, size, copyVars, casVars, complete,
                 called>>

DeqCount ==
  /\ pc["deq"] = "count"
  /\ size' = size - 1
  /\ Goto("deq", "idle")
  /\ UNCHANGED <<tailVars, heapVars, copyVars, casVars, histVars>>

DeqCas ==
  \/ CasLoadPtr("deq") \/ CasLoadCtr("deq") \/ CasStorePtr("deq")
  \/ CasStoreCtr("deq", "load_ctr")

Deq ==
  \/ DeqCall \/ LoadCtr("deq") \/ LoadPtr("deq")
  \/ LoadNext("deq", head, "decide")
  \/ DeqFalse \/ DeqHelp \/ DeqTake \/ DeqCas \/ DeqCount

-----------------------------------------------------------------------------
Faulted == \E p \in Threads : pc[p] = "fault"

Next == ~Faulted /\ (Enq \/ Deq)

Spec == Init /\ [][Next]_vars

\* out_sys_files keeps running once it has called enqueue. Of the consumer
\* nothing is assumed: it may stop between any two steps.
FairSpec == Spec /\ WF_vars(~Faulted /\ Enq /\ ~EnqCall)

-----------------------------------------------------------------------------
(* Properties.                                                             *)

TypeOK ==
  /\ tail_ptr \in Nodes /\ tail_ctr \in Nat
  /\ head \in Nodes /\ next \in [Nodes -> Nodes \cup {NULL}]
  /\ size \in Int /\ freed \subseteq Nodes /\ node \in Nodes
  /\ pc \in [Threads -> Steps]
  /\ t_ptr \in [Threads -> Nodes \cup {NULL}] /\ t_ctr \in [Threads -> Nat]
  /\ nx \in [Threads -> Nodes \cup {NULL}]
  /\ c_ptr \in [Threads -> Nodes \cup {NULL}] /\ c_ctr \in [Threads -> Nat]
  /\ aim \in [Threads -> Nodes \cup {NULL}]
  /\ got \in Seq(1 .. MaxValues)
  /\ complete \in 0 .. MaxValues /\ called \in 0 .. MaxValues

\* Nodes are linked in the order they are made, so the last node reachable
\* from Head is the last one made, or the one before while it is not linked.
Last == IF \E n \in Nodes : next[n] = node THEN node
        ELSE IF node = 1 THEN 1 ELSE node - 1

\* As long as it does not fault, the queue is a FIFO queue: however stale Tail
\* is, enqueue links at the true end and dequeue takes the true front.
Fifo == INSTANCE FifoQueue WITH queue <- [i \in 1 .. Last - head |-> head + i - 1],
                                got <- got
ImplementsFifo == Fifo!SpecFifo

\* dequeue returns false only if all the values whose enqueue had returned
\* when it was called have been dequeued.
FalseMeansDrained ==
  [][DeqFalse => Len(got) >= called]_vars

\* _size, which ~__no_lock_queue_with_CAS trusts, differs from the number of
\* values in the queue only by the calls that are between their CAS and it.
SizeCounts ==
  size = (Last - head)
         - (IF Last = node /\ pc["enq"] \notin {"idle", "fault"}
            THEN 1 ELSE 0)
         + (IF pc["deq"] = "count" THEN 1 ELSE 0)

\* A thread is never held up by one that has stopped, wherever it stopped: an
\* enqueue that runs alone finds its way from any Tail to the end and returns.
RunsAlone ==
  <>[][~Deq]_vars
    => []<>(pc["enq"] = "idle" \/ Faulted \/ t_ctr["enq"] = MaxCtr)

\* README_ZH.md:5: with a gcc that supports atomics there are no run-time
\* failures.
NoFault == ~Faulted
=============================================================================
