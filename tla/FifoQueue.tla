----------------------------- MODULE FifoQueue -----------------------------
(***************************************************************************)
(* What src/datastruct/__no_lock_queue_with_CAS.h promises the program     *)
(* that uses it: an unbounded FIFO queue. The n-th enqueue carries the     *)
(* value n. A dequeue that finds nothing returns false and changes nothing.*)
(***************************************************************************)
EXTENDS Naturals, Sequences

VARIABLES
  queue,  \* the values enqueued and not dequeued
  got     \* the values dequeue returned, in order

fifoVars == <<queue, got>>

InitFifo == queue = <<>> /\ got = <<>>

Enqueue ==
  /\ queue' = Append(queue, Len(got) + Len(queue) + 1)
  /\ UNCHANGED got

Dequeue ==
  /\ queue # <<>>
  /\ got' = Append(got, Head(queue))
  /\ queue' = Tail(queue)

SpecFifo == InitFifo /\ [][Enqueue \/ Dequeue]_fifoVars
=============================================================================
