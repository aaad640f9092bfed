---------------------------- MODULE KernelBuffer ----------------------------
(***************************************************************************)
(* What kernelmod/vfs_kprobe.c promises the rest of everyfile, without its *)
(* locks, threads and counters: a FIFO buffer of file system events. Each  *)
(* event is taken out once, from the front, and is then delivered to the   *)
(* daemon's socket, lost (netlink_unicast failed, its result is not looked *)
(* at) or, if the buffer is over its limit, moved to the overflow file,    *)
(* which nobody reads.                                                     *)
(*                                                                         *)
(* Module VfsKprobe implements this specification; module EveryFile is     *)
(* composed from it.                                                       *)
(***************************************************************************)
EXTENDS Integers, Sequences

CONSTANTS Msgs, MAX_MSG_BUF_LEN

VARIABLES
  buffer,  \* the events waiting in the kernel
  socket   \* the datagrams in the daemon's receive queue

bufferVars == <<buffer, socket>>

InitBuffer == buffer = <<>> /\ socket = <<>>

WithinLimit == Len(buffer) <= MAX_MSG_BUF_LEN

\* Nothing but Spill happens to a buffer that is over its limit.
Record(m) ==
  /\ WithinLimit
  /\ buffer' = Append(buffer, m)
  /\ UNCHANGED socket

Deliver ==
  /\ WithinLimit /\ buffer # <<>>
  /\ buffer' = Tail(buffer)
  /\ socket' = Append(socket, Head(buffer))

Lose ==
  /\ WithinLimit /\ buffer # <<>>
  /\ buffer' = Tail(buffer)
  /\ UNCHANGED socket

Spill ==
  /\ ~WithinLimit
  /\ buffer' = Tail(buffer)
  /\ UNCHANGED socket

NextBuffer == (\E m \in Msgs : Record(m)) \/ Deliver \/ Lose \/ Spill

SpecBuffer == InitBuffer /\ [][NextBuffer]_bufferVars
=============================================================================
