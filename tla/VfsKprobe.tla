----------------------------- MODULE VfsKprobe -----------------------------
(***************************************************************************)
(* The kernel module kernelmod/vfs_kprobe.c between its probe handlers and *)
(* its netlink socket: the message buffer msg_buf, the overflow file, the  *)
(* three spinlocks that guard them, the thread send_func that empties the  *)
(* buffer and the netlink callback rcv_msg that wakes that thread.         *)
(*                                                                         *)
(* The actors run concurrently:                                            *)
(*   - one probe handler per CPU (post_handler_common -> add_vfs_changed), *)
(*   - the kernel thread send_func,                                        *)
(*   - rcv_msg, run in the daemon's own sendto(),                          *)
(*   - rmmod, of which this module has kthread_stop; the rest of           *)
(*     loading and unloading it is module KprobeModule.                    *)
(*                                                                         *)
(* Taking a lock is one step, and what is done under it is as many steps   *)
(* as another actor can tell apart. spin_unlock writes "free" whoever owns *)
(* the lock, as the kernel's does.                                         *)
(***************************************************************************)
EXTENDS Integers, Sequences

CONSTANTS
  Cpus,             \* the CPUs a probe can fire on
  Msgs,             \* the messages (flags, path) of a behaviour, one per event
  Texts,            \* what user space writes to the socket: "SYN", "ACK", other
  MAX_MSG_BUF_LEN,  \* vfs_kprobe.c:242, 128 in the code
  UINT_MAX,         \* the largest unsigned int, 2^32 - 1 in the code
  MaxReady          \* bound on msg_ready: the unread ACKs a behaviour piles up

Actors == Cpus \cup {"send_func", "rcv_msg"}

ASSUME ConstantsAssumption ==
  /\ MAX_MSG_BUF_LEN \in Nat
  /\ UINT_MAX \in Nat /\ MAX_MSG_BUF_LEN < UINT_MAX
  /\ MaxReady \in Nat
  /\ "none" \notin Msgs
  /\ "free" \notin Cpus
  /\ "send_func" \notin Cpus
  /\ "rcv_msg" \notin Cpus

VARIABLES
  sl_buf, sl_file, sl_msg,  \* the owner of each spinlock, or "free"
  msg_buf, msg_buf_size,    \* the list and the counter kept beside it
  file_on, pos,             \* "the file holds messages", and where it ends
  msg_ready,                \* ACKs received and not yet seen by send_func
  hpc, hmsg, hpos,          \* a handler's step, message and file offset read
  kpc, ktask, stopping,     \* send_func's step, task state, should-stop bit
  rpc, rtext, rready,       \* rcv_msg's step, text and msg_ready read
  fresh,                    \* history: events that have not happened yet
  appended,                 \* history: messages in list_add_tail order
  taken,                    \* history: messages in list_del order
  delivered                 \* the datagrams put into the daemon's socket

handlerVars == <<hpc, hmsg, hpos>>
senderVars  == <<kpc, ktask>>
rcvVars     == <<rpc, rtext, rready>>
fileVars    == <<file_on, pos>>
listVars    == <<msg_buf, msg_buf_size, appended, taken>>
bufVars     == <<listVars, delivered>>
lockVars    == <<sl_buf, sl_file, sl_msg>>
vars == <<lockVars, bufVars, fileVars, msg_ready, handlerVars, senderVars,
          stopping, rcvVars, fresh>>

HandlerSteps == {"idle", "lock_buf", "add", "spill", "write", "written",
                 "lock_file", "set_file_on", "unlock_buf", "oops"}
SenderSteps  == {"created", "start", "top", "check", "lock_msg", "test",
                 "sched", "sleep", "unlock_msg", "lock_file", "file",
                 "lock_buf", "send", "exited", "oops"}
RcvSteps     == {"idle", "lock", "store", "unlock", "wake"}

Init ==
  /\ sl_buf = "free" /\ sl_file = "free" /\ sl_msg = "free"
  /\ msg_buf = <<>> /\ msg_buf_size = 0
  /\ file_on = FALSE /\ pos = 0
  /\ msg_ready = 0
  /\ hpc = [c \in Cpus |-> "idle"]
  /\ hmsg = [c \in Cpus |-> "none"] /\ hpos = 0
  /\ kpc = "created" /\ ktask = "RUNNING" /\ stopping = FALSE
  /\ rpc = "idle" /\ rtext = "none" /\ rready = 0
  /\ fresh = Msgs
  /\ appended = <<>> /\ taken = <<>> /\ delivered = <<>>

-----------------------------------------------------------------------------
(* msg_buf_size is an unsigned int.                                        *)

Inc(n) == IF n = UINT_MAX THEN 0 ELSE n + 1
Dec(n) == IF n = 0 THEN UINT_MAX ELSE n - 1

\* Variant: the counter is not kept.
TakeUncounted ==
  /\ msg_buf' = Tail(msg_buf)
  /\ taken' = Append(taken, Head(msg_buf))
  /\ UNCHANGED <<msg_buf_size, appended>>

\* Variant: the wrong end of the list, msg_buf.prev.
TakeNewest ==
  /\ msg_buf' = SubSeq(msg_buf, 1, Len(msg_buf) - 1)
  /\ msg_buf_size' = Dec(msg_buf_size)
  /\ taken' = Append(taken, msg_buf[Len(msg_buf)])
  /\ UNCHANGED appended

\* get_msg_from_list, list_del and msg_buf_size--: how both add_msg_to_file
\* and send_func take the first message off the list.
Take ==
  /\ msg_buf' = Tail(msg_buf)
  /\ msg_buf_size' = Dec(msg_buf_size)
  /\ taken' = Append(taken, Head(msg_buf))
  /\ UNCHANGED appended

-----------------------------------------------------------------------------
(* add_vfs_changed on one CPU.                                             *)

\* Variant: kmalloc's failure is not looked at.
HFireUnchecked(c, m) ==
  /\ hpc[c] = "idle"
  /\ m \in fresh
  /\ fresh' = fresh \ {m}
  /\ hpc' = [hpc EXCEPT ![c] = "lock_buf"]
  /\ \/ hmsg' = [hmsg EXCEPT ![c] = m]
     \/ UNCHANGED hmsg
  /\ UNCHANGED <<hpos, lockVars, bufVars, fileVars, msg_ready, senderVars,
                 stopping, rcvVars>>

\* A probed call succeeded; kmalloc of its nl_msg can fail, and the event is
\* then gone.
HFire(c, m) ==
  /\ hpc[c] = "idle"
  /\ m \in fresh
  /\ fresh' = fresh \ {m}
  /\ \/ /\ hmsg' = [hmsg EXCEPT ![c] = m]
        /\ hpc' = [hpc EXCEPT ![c] = "lock_buf"]
     \/ UNCHANGED <<hpc, hmsg>>
  /\ UNCHANGED <<hpos, lockVars, bufVars, fileVars, msg_ready, senderVars,
                 stopping, rcvVars>>

HLockBuf(c) ==
  /\ hpc[c] = "lock_buf"
  /\ sl_buf = "free"
  /\ sl_buf' = c
  /\ hpc' = [hpc EXCEPT ![c] = "add"]
  /\ UNCHANGED <<hmsg, hpos, sl_file, sl_msg, bufVars, fileVars, msg_ready,
                 senderVars, stopping, rcvVars, fresh>>

\* Variant: the limit is off by one.
HAddLate(c) ==
  /\ hpc[c] = "add"
  /\ msg_buf' = Append(msg_buf, hmsg[c])
  /\ appended' = Append(appended, hmsg[c])
  /\ msg_buf_size' = Inc(msg_buf_size)
  /\ hpc' = [hpc EXCEPT ![c] = IF msg_buf_size > MAX_MSG_BUF_LEN
                               THEN "spill" ELSE "unlock_buf"]
  /\ hmsg' = [hmsg EXCEPT ![c] = "none"]
  /\ UNCHANGED <<taken, delivered, hpos, lockVars, fileVars, msg_ready,
                 senderVars, stopping, rcvVars, fresh>>

\* Variant: a full list counts as one over the limit.
HAddEarly(c) ==
  /\ hpc[c] = "add"
  /\ msg_buf' = Append(msg_buf, hmsg[c])
  /\ appended' = Append(appended, hmsg[c])
  /\ msg_buf_size' = Inc(msg_buf_size)
  /\ hpc' = [hpc EXCEPT ![c] = IF Inc(msg_buf_size) >= MAX_MSG_BUF_LEN
                               THEN "spill" ELSE "unlock_buf"]
  /\ hmsg' = [hmsg EXCEPT ![c] = "none"]
  /\ UNCHANGED <<taken, delivered, hpos, lockVars, fileVars, msg_ready,
                 senderVars, stopping, rcvVars, fresh>>

HAdd(c) ==
  /\ hpc[c] = "add"
  /\ msg_buf' = Append(msg_buf, hmsg[c])
  /\ appended' = Append(appended, hmsg[c])
  /\ msg_buf_size' = Inc(msg_buf_size)
  /\ hpc' = [hpc EXCEPT ![c] = IF Inc(msg_buf_size) > MAX_MSG_BUF_LEN
                               THEN "spill" ELSE "unlock_buf"]
  /\ hmsg' = [hmsg EXCEPT ![c] = "none"]
  /\ UNCHANGED <<taken, delivered, hpos, lockVars, fileVars, msg_ready,
                 senderVars, stopping, rcvVars, fresh>>

\* add_msg_to_file takes the oldest message; were the list empty it would
\* still read msg->len through the null pointer. kmalloc of the copy is not
\* checked either: the handler dies with sl_buf held, its message off the list.
HSpill(c) ==
  /\ hpc[c] = "spill"
  /\ \/ /\ msg_buf = <<>>
        /\ hpc' = [hpc EXCEPT ![c] = "oops"]
        /\ UNCHANGED bufVars
     \/ /\ msg_buf # <<>>
        /\ Take
        /\ UNCHANGED delivered
        /\ \E step \in {"write", "oops"} : hpc' = [hpc EXCEPT ![c] = step]
  /\ UNCHANGED <<hmsg, hpos, lockVars, fileVars, msg_ready, senderVars,
                 stopping, rcvVars, fresh>>

\* kernel_write(fp, buf, n, &pos) reads pos when it starts and stores it when
\* it ends; sl_file is not held, so send_func can reset pos in between.
HWrite(c) ==
  /\ hpc[c] = "write"
  /\ hpos' = pos
  /\ hpc' = [hpc EXCEPT ![c] = "written"]
  /\ UNCHANGED <<hmsg, lockVars, bufVars, fileVars, msg_ready, senderVars,
                 stopping, rcvVars, fresh>>

HWritten(c) ==
  /\ hpc[c] = "written"
  /\ pos' = hpos + 1
  /\ hpos' = 0
  /\ hpc' = [hpc EXCEPT ![c] = "lock_file"]
  /\ UNCHANGED <<file_on, hmsg, lockVars, bufVars, msg_ready,
                 senderVars, stopping, rcvVars, fresh>>

HLockFile(c) ==
  /\ hpc[c] = "lock_file"
  /\ sl_file = "free"
  /\ sl_file' = c
  /\ hpc' = [hpc EXCEPT ![c] = "set_file_on"]
  /\ UNCHANGED <<hmsg, hpos, sl_buf, sl_msg, bufVars, fileVars, msg_ready,
                 senderVars, stopping, rcvVars, fresh>>

\* Variant: the two unlocks are swapped.
HSetFileOnSwapped(c) ==
  /\ hpc[c] = "set_file_on"
  /\ file_on' = TRUE
  /\ sl_buf' = "free"
  /\ hpc' = [hpc EXCEPT ![c] = "unlock_buf"]
  /\ UNCHANGED <<pos, hmsg, hpos, sl_file, sl_msg, bufVars, msg_ready,
                 senderVars, stopping, rcvVars, fresh>>

HSetFileOn(c) ==
  /\ hpc[c] = "set_file_on"
  /\ file_on' = TRUE
  /\ sl_file' = "free"
  /\ hpc' = [hpc EXCEPT ![c] = "unlock_buf"]
  /\ UNCHANGED <<pos, hmsg, hpos, sl_buf, sl_msg, bufVars, msg_ready,
                 senderVars, stopping, rcvVars, fresh>>

HUnlockBuf(c) ==
  /\ hpc[c] = "unlock_buf"
  /\ sl_buf' = "free"
  /\ hpc' = [hpc EXCEPT ![c] = "idle"]
  /\ UNCHANGED <<hmsg, hpos, sl_file, sl_msg, bufVars, fileVars, msg_ready,
                 senderVars, stopping, rcvVars, fresh>>

Handler(c) ==
  \/ \E m \in Msgs : HFire(c, m)
  \/ HLockBuf(c) \/ HAdd(c) \/ HSpill(c) \/ HWrite(c) \/ HWritten(c)
  \/ HLockFile(c) \/ HSetFileOn(c) \/ HUnlockBuf(c)

-----------------------------------------------------------------------------
(* rcv_msg, called by the kernel for each datagram the daemon sends, and   *)
(* wake_up_process(send_kthread).                                          *)

WakeUp ==
  /\ ktask' = "RUNNING"
  /\ kpc' = CASE kpc = "created" -> "start"
              [] kpc = "sleep"   -> "unlock_msg"
              [] OTHER           -> kpc

RcvCall(text) ==
  /\ rpc = "idle"
  /\ msg_ready < MaxReady
  /\ rtext' = text
  /\ rpc' = "lock"
  /\ UNCHANGED <<rready, lockVars, bufVars, fileVars, msg_ready, handlerVars,
                 senderVars, stopping, fresh>>

\* msg_ready++ is a load and a store.
RcvLock ==
  /\ rpc = "lock"
  /\ sl_msg = "free"
  /\ sl_msg' = "rcv_msg"
  /\ rready' = msg_ready
  /\ rpc' = "store"
  /\ UNCHANGED <<rtext, sl_buf, sl_file, bufVars, fileVars, msg_ready,
                 handlerVars, senderVars, stopping, fresh>>

RcvStore ==
  /\ rpc = "store"
  /\ msg_ready' = rready + 1
  /\ rready' = 0
  /\ rpc' = "unlock"
  /\ UNCHANGED <<rtext, lockVars, bufVars, fileVars, handlerVars,
                 senderVars, stopping, fresh>>

\* Only "SYN" and "ACK" wake the thread.
RcvUnlock ==
  /\ rpc = "unlock"
  /\ sl_msg' = "free"
  /\ \/ rtext \in {"SYN", "ACK"} /\ rpc' = "wake" /\ UNCHANGED rtext
     \/ rtext \notin {"SYN", "ACK"} /\ rpc' = "idle" /\ rtext' = "none"
  /\ UNCHANGED <<rready, sl_buf, sl_file, bufVars, fileVars, msg_ready,
                 handlerVars, senderVars, stopping, fresh>>

RcvWake ==
  /\ rpc = "wake"
  /\ WakeUp
  /\ rpc' = "idle" /\ rtext' = "none"
  /\ UNCHANGED <<rready, lockVars, bufVars, fileVars, msg_ready,
                 handlerVars, stopping, fresh>>

RcvMsg ==
  \/ \E text \in Texts : RcvCall(text)
  \/ RcvLock \/ RcvStore \/ RcvUnlock \/ RcvWake

-----------------------------------------------------------------------------
(* send_func.                                                              *)

\* A thread first woken by kthread_stop never enters send_func.
KStart ==
  /\ kpc = "start"
  /\ kpc' = IF stopping THEN "exited" ELSE "top"
  /\ UNCHANGED <<ktask, lockVars, bufVars, fileVars, msg_ready,
                 handlerVars, stopping, rcvVars, fresh>>

KSetState ==
  /\ kpc = "top"
  /\ ktask' = "INTERRUPTIBLE"
  /\ kpc' = "check"
  /\ UNCHANGED <<lockVars, bufVars, fileVars, msg_ready, handlerVars,
                 stopping, rcvVars, fresh>>

\* Variant: the should-stop bit is not looked at.
KNeverStop ==
  /\ kpc = "check"
  /\ kpc' = "lock_msg"
  /\ UNCHANGED <<ktask, lockVars, bufVars, fileVars, msg_ready,
                 handlerVars, stopping, rcvVars, fresh>>

KShouldStop ==
  /\ kpc = "check"
  /\ kpc' = IF stopping THEN "exited" ELSE "lock_msg"
  /\ UNCHANGED <<ktask, lockVars, bufVars, fileVars, msg_ready,
                 handlerVars, stopping, rcvVars, fresh>>

KLockMsg ==
  /\ kpc = "lock_msg"
  /\ sl_msg = "free"
  /\ sl_msg' = "send_func"
  /\ kpc' = "test"
  /\ UNCHANGED <<ktask, sl_buf, sl_file, bufVars, fileVars, msg_ready,
                 handlerVars, stopping, rcvVars, fresh>>

\* With an ACK pending: clear all of them and go on. Without: drop the lock
\* and sleep.
KTest ==
  /\ kpc = "test"
  /\ \/ /\ msg_ready > 0
        /\ msg_ready' = 0
        /\ kpc' = "unlock_msg"
        /\ UNCHANGED sl_msg
     \/ /\ msg_ready = 0
        /\ sl_msg' = "free"
        /\ kpc' = "sched"
        /\ UNCHANGED msg_ready
  /\ UNCHANGED <<ktask, sl_buf, sl_file, bufVars, fileVars, handlerVars,
                 stopping, rcvVars, fresh>>

\* Variant: set_current_state(TASK_INTERRUPTIBLE) just before schedule_timeout.
KSchedLate ==
  /\ kpc = "sched"
  /\ ktask' = "INTERRUPTIBLE"
  /\ kpc' = "sleep"
  /\ UNCHANGED <<lockVars, bufVars, fileVars, msg_ready, handlerVars,
                 stopping, rcvVars, fresh>>

\* schedule_timeout sleeps only if the task state is still INTERRUPTIBLE; a
\* wake-up since KSetState has made it RUNNING.
KSched ==
  /\ kpc = "sched"
  /\ kpc' = IF ktask = "INTERRUPTIBLE" THEN "sleep" ELSE "unlock_msg"
  /\ UNCHANGED <<ktask, lockVars, bufVars, fileVars, msg_ready, handlerVars,
                 stopping, rcvVars, fresh>>

\* 10*HZ have passed.
KTimeout ==
  /\ kpc = "sleep"
  /\ ktask' = "RUNNING"
  /\ kpc' = "unlock_msg"
  /\ UNCHANGED <<lockVars, bufVars, fileVars, msg_ready, handlerVars,
                 stopping, rcvVars, fresh>>

\* Variant: sl_msg is released on the way to sleep only.
KKeepMsgLock ==
  /\ kpc = "unlock_msg"
  /\ kpc' = "lock_file"
  /\ UNCHANGED <<ktask, lockVars, bufVars, fileVars, msg_ready,
                 handlerVars, stopping, rcvVars, fresh>>

\* Reached from both branches of KTest: after a sleep send_func no longer
\* owns the lock it releases.
KUnlockMsg ==
  /\ kpc = "unlock_msg"
  /\ sl_msg' = "free"
  /\ kpc' = "lock_file"
  /\ UNCHANGED <<ktask, sl_buf, sl_file, bufVars, fileVars, msg_ready,
                 handlerVars, stopping, rcvVars, fresh>>

KLockFile ==
  /\ kpc = "lock_file"
  /\ sl_file = "free"
  /\ sl_file' = "send_func"
  /\ kpc' = "file"
  /\ UNCHANGED <<ktask, sl_buf, sl_msg, bufVars, fileVars, msg_ready,
                 handlerVars, stopping, rcvVars, fresh>>

\* send_file_on formats into an uninitialised pointer (null in the shipped
\* vfs_kprobe.ko): the thread dies there, sl_file held.
SendFileOnDies ==
  /\ kpc' = "oops"
  /\ UNCHANGED <<sl_file, fileVars>>

\* Only when nlmsg_new fails does send_file_on return, and the file counts as
\* sent.
KFile ==
  /\ kpc = "file"
  /\ \/ file_on /\ SendFileOnDies
     \/ /\ file_on
        /\ pos' = 0
        /\ file_on' = FALSE
        /\ sl_file' = "free"
        /\ kpc' = "top"
     \/ /\ ~file_on
        /\ kpc' = "lock_buf"
        /\ UNCHANGED <<sl_file, fileVars>>
  /\ UNCHANGED <<ktask, sl_buf, sl_msg, bufVars, msg_ready,
                 handlerVars, stopping, rcvVars, fresh>>

KLockBuf ==
  /\ kpc = "lock_buf"
  /\ sl_buf = "free"
  /\ sl_buf' = "send_func"
  /\ kpc' = "send"
  /\ UNCHANGED <<ktask, sl_file, sl_msg, bufVars, fileVars, msg_ready,
                 handlerVars, stopping, rcvVars, fresh>>

\* send_msg returns: nlmsg_new, nlmsg_put or netlink_unicast (MSG_DONTWAIT) can
\* fail.
SendMsg(m) == delivered' = Append(delivered, m) \/ UNCHANGED delivered

\* send_msg does not return: kmalloc(2) of its _flag is not checked, and the
\* thread dies with both locks held and the message still in the list.
SendMsgDies ==
  /\ kpc' = "oops"
  /\ UNCHANGED <<sl_buf, sl_file, bufVars>>

\* The message leaves the list whether send_msg delivered it or not.
KSend ==
  /\ kpc = "send"
  /\ \/ /\ msg_buf_size > 0 /\ msg_buf # <<>>
        /\ SendMsgDies
     \/ /\ IF msg_buf_size > 0 /\ msg_buf # <<>>
           THEN Take /\ SendMsg(Head(msg_buf))
           ELSE UNCHANGED bufVars
        /\ sl_buf' = "free"
        /\ sl_file' = "free"
        /\ kpc' = "top"
  /\ UNCHANGED <<ktask, sl_msg, fileVars, msg_ready, handlerVars,
                 stopping, rcvVars, fresh>>

SendFunc ==
  \/ KStart \/ KSetState \/ KShouldStop \/ KLockMsg \/ KTest \/ KSched
  \/ KTimeout \/ KUnlockMsg \/ KLockFile \/ KFile \/ KLockBuf \/ KSend

\* kthread_stop, up to its wait for the thread.
KthreadStop ==
  /\ ~stopping
  /\ stopping' = TRUE
  /\ WakeUp
  /\ UNCHANGED <<lockVars, bufVars, fileVars, msg_ready, handlerVars, rcvVars,
                 fresh>>

-----------------------------------------------------------------------------
Next == (\E c \in Cpus : Handler(c)) \/ RcvMsg \/ SendFunc \/ KthreadStop

Spec == Init /\ [][Next]_vars

\* Handlers and the thread are runnable kernel code, and a lock's waiters are
\* served in turn (queued spinlocks). The daemon sends an ACK at least every
\* 20 seconds (efd.cpp:187-196) and its sendto runs rcv_msg to the end.
Fairness ==
  /\ \A c \in Cpus :
       /\ WF_vars(HAdd(c) \/ HSpill(c) \/ HWrite(c) \/ HWritten(c)
                  \/ HSetFileOn(c) \/ HUnlockBuf(c))
       /\ SF_vars(HLockBuf(c))
       /\ SF_vars(HLockFile(c))
  /\ WF_vars(KStart \/ KSetState \/ KShouldStop \/ KTest \/ KSched \/ KTimeout
             \/ KUnlockMsg \/ KFile \/ KSend)
  /\ SF_vars(KLockMsg)
  /\ SF_vars(KLockFile)
  /\ SF_vars(KLockBuf)
  /\ WF_vars(RcvCall("ACK"))
  /\ WF_vars(RcvStore \/ RcvUnlock \/ RcvWake)
  /\ SF_vars(RcvLock)

FairSpec == Spec /\ Fairness

-----------------------------------------------------------------------------
(* Properties.                                                             *)

TypeOK ==
  /\ {sl_buf, sl_file} \subseteq Cpus \cup {"free", "send_func"}
  /\ sl_msg \in {"free", "send_func", "rcv_msg"}
  /\ msg_buf \in Seq(Msgs) /\ msg_buf_size \in 0 .. UINT_MAX
  /\ file_on \in BOOLEAN /\ pos \in Nat
  /\ msg_ready \in Nat
  /\ hpc \in [Cpus -> HandlerSteps]
  /\ hmsg \in [Cpus -> Msgs \cup {"none"}] /\ hpos \in Nat
  /\ \A c \in Cpus : hpc[c] \in {"lock_buf", "add"} => hmsg[c] \in Msgs
  /\ kpc \in SenderSteps /\ ktask \in {"RUNNING", "INTERRUPTIBLE"}
  /\ stopping \in BOOLEAN
  /\ rpc \in RcvSteps /\ rtext \in Texts \cup {"none"} /\ rready \in Nat
  /\ fresh \subseteq Msgs
  /\ appended \in Seq(Msgs) /\ taken \in Seq(Msgs)
  /\ delivered \in Seq(Msgs)

\* What sl_buf and sl_file guard is touched by their owner only, although
\* send_func nests them the other way round and spin_unlock would free a lock
\* for anybody: a handler from list_add_tail to spin_unlock(&sl_buf), and
\* send_func from its look at file_on to the end of the round.
BufCritical  == {"add", "spill", "write", "written", "lock_file",
                 "set_file_on", "unlock_buf", "oops"}
LockOwners ==
  /\ \A c \in Cpus : hpc[c] \in BufCritical => sl_buf = c
  /\ \A c \in Cpus : hpc[c] = "set_file_on" => sl_file = c
  /\ kpc = "send" => sl_buf = "send_func"
  /\ kpc \in {"file", "lock_buf", "send"} => sl_file = "send_func"

\* The counter agrees with the list, and the list exceeds MAX_MSG_BUF_LEN only
\* by the message a handler is about to move to the file; add_msg_to_file, which
\* does not survive an empty list, never meets one.
BufferWithinLimit ==
  /\ msg_buf_size = Len(msg_buf)
  /\ Len(msg_buf) > MAX_MSG_BUF_LEN =>
       /\ Len(msg_buf) = MAX_MSG_BUF_LEN + 1
       /\ \E c \in Cpus : hpc[c] = "spill"
  /\ \A c \in Cpus : hpc[c] = "spill" => msg_buf # <<>>

\* What has left the buffer, followed by what is still in it, is what was put
\* in, in order: the two places that take messages out lose, repeat and
\* reorder none.
BufferIsFifo == taken \o msg_buf = appended

\* The module does to its list and to the daemon's socket what KernelBuffer
\* says: adding a message and making room for it is one operation to everyone
\* else, and a message goes to the socket only from the front of the list.
Buffer == INSTANCE KernelBuffer WITH buffer <- msg_buf, socket <- delivered
ImplementsBuffer == Buffer!SpecBuffer

\* An ACK is never slept through: if send_func sleeps with msg_ready set, then
\* rcv_msg is still on its way to wake_up_process. (Any other text counts in
\* msg_ready and wakes nobody.)
NoMissedWake ==
  (Texts \subseteq {"SYN", "ACK"} /\ kpc = "sleep" /\ msg_ready > 0)
    => rpc \in {"unlock", "wake"}

\* Who no longer runs: a thread or a handler that has died, or the two of them,
\* each waiting for the other's lock (vfs_kprobe.c:211-219 against 274-279).
Dead    == kpc = "oops" \/ \E c \in Cpus : hpc[c] = "oops"
Crossed == kpc = "lock_buf" /\ \E c \in Cpus : hpc[c] = "lock_file"
Sticks  == Dead \/ Crossed

\* The locks are crossed, a handler dies, or the thread dies anywhere but in
\* send_msg with sl_buf in its hands (vfs_kprobe.c:103-104), only after the list
\* has been over its limit.
OnlyOverflowSticks ==
  [](Len(msg_buf) <= MAX_MSG_BUF_LEN)
    => [](Sticks => kpc = "oops" /\ sl_buf = "send_func")

\* vfs_kprobe.c:192-194: while the daemon keeps sending ACKs, a message that
\* was put into the buffer is eventually taken out (until rmmod, or until the
\* thread or a handler dies of a bad pointer).
EveryMessageLeaves ==
  \A m \in Msgs :
    (\E i \in DOMAIN appended : appended[i] = m)
      ~> ((\E i \in DOMAIN taken : taken[i] = m) \/ stopping \/ Dead)
=============================================================================
