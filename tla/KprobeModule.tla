---------------------------- MODULE KprobeModule ----------------------------
(***************************************************************************)
(* The life of the kernel module kernelmod/vfs_kprobe.c: kprobe_init, run  *)
(* by insmod, and kprobe_exit, run by rmmod, beside the handlers, rcv_msg  *)
(* and send_func of module VfsKprobe.                                      *)
(*                                                                         *)
(* A handler fires once register_kprobes has planted its probe, rcv_msg is *)
(* called once the socket exists. Of the six probes kprobe_exit takes only *)
(* vfs_mkdir's away: the CPUs of this module fire the other five, and keep *)
(* firing them. Its drain of the buffer takes no lock.                     *)
(*                                                                         *)
(* When kprobe_exit returns, or kprobe_init with an error, the text of the *)
(* module is freed; whoever enters it then does something undefined, so    *)
(* that the model ends there, as it does at a bad pointer (fault).         *)
(***************************************************************************)
EXTENDS VfsKprobe

VARIABLES
  xpc,           \* the step of kprobe_init, then of kprobe_exit
  fp, nlsk,      \* the log file and the socket
  send_kthread,  \* the pointer to send_func's thread
  planted,       \* some probe is registered
  drained,       \* history: the rounds of kprobe_exit's drain
  fault          \* the call that has followed a bad pointer

loadVars == <<fp, nlsk, send_kthread, planted>>
moduleVars == <<vars, xpc, loadVars, drained, fault>>

InitPcs == {"mounts", "again", "open", "netlink", "thread", "check", "plant",
            "planting", "unplant"}
ExitPcs == {"stop", "join", "drain", "write", "dec"}
Freed   == {"failed", "gone"}

InitModule ==
  /\ Init
  /\ xpc = "mounts"
  /\ fp = "null" /\ nlsk = "null" /\ send_kthread = "null"
  /\ planted = FALSE /\ drained = 0 /\ fault = "none"

-----------------------------------------------------------------------------
(* kprobe_init. What it has made when it fails it leaves behind. What      *)
(* init_mounts_info makes of the file it reads is in module Mounts.        *)

\* read_file_content takes what a single read gives if that is something and
\* less than a page; the file not opened, or no memory, gives nothing.
IRead ==
  /\ xpc = "mounts"
  /\ xpc' \in {"open", "again"}
  /\ UNCHANGED <<vars, loadVars, drained, fault>>

\* Otherwise it goes round, perhaps for ever, reading from the start again and
\* storing the size through real_size, the pointer it has advanced instead.
IReadAgain ==
  /\ xpc = "again"
  /\ \/ xpc' = "open" /\ UNCHANGED fault
     \/ fault' = "read" /\ UNCHANGED xpc
  /\ UNCHANGED <<vars, loadVars, drained>>

IOpen ==
  /\ xpc = "open"
  /\ \/ fp' = "ok" /\ xpc' = "netlink"
     \/ fp' = "err" /\ xpc' = "failed"
  /\ UNCHANGED <<vars, nlsk, send_kthread, planted, drained, fault>>

\* From here on datagrams arrive.
INetlink ==
  /\ xpc = "netlink"
  /\ nlsk' \in {"null", "ok"}
  /\ xpc' = "thread"
  /\ UNCHANGED <<vars, fp, send_kthread, planted, drained, fault>>

\* kthread_create; its result, which may be an error, is not looked at.
IThread ==
  /\ xpc = "thread"
  /\ send_kthread' \in {"err", "ok"}
  /\ xpc' = "check"
  /\ UNCHANGED <<vars, fp, nlsk, planted, drained, fault>>

ICheckSocket ==
  /\ xpc = "check"
  /\ xpc' = IF nlsk = "null" THEN "failed" ELSE "plant"
  /\ UNCHANGED <<vars, loadVars, drained, fault>>

\* register_kprobes plants one probe after the other; when one fails, it takes
\* away those before it, and waits for their handlers.
IPlant ==
  /\ xpc = "plant"
  /\ \/ planted' = TRUE /\ xpc' = "planting"
     \/ UNCHANGED planted /\ xpc' = "failed"
  /\ UNCHANGED <<vars, fp, nlsk, send_kthread, drained, fault>>

IPlanted ==
  /\ xpc = "planting"
  /\ \/ xpc' = "loaded" /\ UNCHANGED planted
     \/ xpc' = "unplant" /\ planted' = FALSE
  /\ UNCHANGED <<vars, fp, nlsk, send_kthread, drained, fault>>

IUnplanted ==
  /\ xpc = "unplant"
  /\ \A c \in Cpus : hpc[c] \in {"idle", "oops"}
  /\ xpc' = "failed"
  /\ UNCHANGED <<vars, loadVars, drained, fault>>

InitSteps ==
  IRead \/ IReadAgain
  \/ IOpen \/ INetlink \/ IThread \/ ICheckSocket \/ IPlant \/ IPlanted \/ IUnplanted

-----------------------------------------------------------------------------
(* kprobe_exit.                                                            *)

\* unregister_kprobe(&entry_vfs_mkdir.kp) touches no state the model has.
XUnregister ==
  /\ xpc = "loaded"
  /\ xpc' = "stop"
  /\ UNCHANGED <<vars, loadVars, drained, fault>>

\* A thread that dies before anybody has asked it to stop is gone: no one holds
\* its task, and send_kthread still points there.
Dangling == kpc = "oops" /\ ~stopping

\* Variant: send_kthread is forgotten before its thread has been stopped.
XStopForgets ==
  /\ xpc = "stop" /\ send_kthread = "ok" /\ ~Dangling
  /\ KthreadStop
  /\ send_kthread' = "null"
  /\ xpc' = "join"
  /\ UNCHANGED <<fp, nlsk, planted, drained, fault>>

\* kthread_stop, of a thread, of one that is gone, or of what kthread_create
\* returned instead.
XStop ==
  /\ xpc = "stop"
  /\ IF send_kthread = "ok" /\ ~Dangling
     THEN KthreadStop /\ xpc' = "join" /\ UNCHANGED fault
     ELSE fault' = "stop" /\ UNCHANGED <<vars, xpc>>
  /\ UNCHANGED <<loadVars, drained>>

\* kthread_stop holds the task and waits until it has exited; dying counts.
XJoin ==
  /\ xpc = "join"
  /\ kpc \in {"exited", "oops"}
  /\ xpc' = "drain"
  /\ UNCHANGED <<vars, loadVars, drained, fault>>

\* while(msg_buf_size) add_msg_to_file(): the list may be empty when the
\* counter is not, and kmalloc of the message's copy is not checked.
XDrain ==
  /\ xpc = "drain"
  /\ \/ /\ msg_buf_size = 0
        /\ xpc' = "gone"
        /\ UNCHANGED <<listVars, fault>>
     \/ /\ msg_buf_size # 0 /\ msg_buf = <<>>
        /\ fault' = "drain"
        /\ UNCHANGED <<listVars, xpc>>
     \/ /\ msg_buf_size # 0 /\ msg_buf # <<>>
        /\ Take
        /\ \/ xpc' = "write" /\ UNCHANGED fault
           \/ fault' = "copy" /\ UNCHANGED xpc
  /\ UNCHANGED <<delivered, lockVars, fileVars, msg_ready, handlerVars,
                 senderVars, stopping, rcvVars, fresh, loadVars, drained>>

XWrite ==
  /\ xpc = "write"
  /\ pos' = pos + 1
  /\ xpc' = "dec"
  /\ UNCHANGED <<file_on, lockVars, bufVars, msg_ready, handlerVars,
                 senderVars, stopping, rcvVars, fresh, loadVars, drained, fault>>

\* Variant: a signed counter.
XDecSigned ==
  /\ xpc = "dec"
  /\ msg_buf_size' = msg_buf_size - 1
  /\ drained' = drained + 1
  /\ xpc' = "drain"
  /\ UNCHANGED <<msg_buf, appended, taken, delivered, lockVars, fileVars,
                 msg_ready, handlerVars, senderVars, stopping, rcvVars, fresh,
                 loadVars, fault>>

\* Variant: the loop leaves the counting to add_msg_to_file.
XDecOnce ==
  /\ xpc = "dec"
  /\ drained' = drained + 1
  /\ xpc' = "drain"
  /\ UNCHANGED <<vars, loadVars, fault>>

\* The loop counts off once more what add_msg_to_file has counted off.
XDec ==
  /\ xpc = "dec"
  /\ msg_buf_size' = Dec(msg_buf_size)
  /\ drained' = drained + 1
  /\ xpc' = "drain"
  /\ UNCHANGED <<msg_buf, appended, taken, delivered, lockVars, fileVars,
                 msg_ready, handlerVars, senderVars, stopping, rcvVars, fresh,
                 loadVars, fault>>

ExitSteps == XUnregister \/ XStop \/ XJoin \/ XDrain \/ XWrite \/ XDec

\* The drain touches the list and the counter while a handler, lock held, is
\* changing them: what the kernel does from here on is undefined.
DrainRaces ==
  /\ xpc \in {"write", "dec"}
  /\ \E c \in Cpus : hpc[c] \in {"add", "spill"}

-----------------------------------------------------------------------------
(* What runs beside them.                                                  *)

\* wake_up_process(send_kthread): null until kprobe_init has assigned it, and
\* a task that may have been freed once kthread_stop has returned, or since the
\* thread has died.
WakeFaults ==
  /\ rpc = "wake"
  /\ \/ send_kthread # "ok"
     \/ Dangling
     \/ xpc \in {"drain", "write", "dec"}
  /\ fault' = "wake"
  /\ UNCHANGED <<vars, xpc, loadVars, drained>>

Kept == UNCHANGED <<xpc, loadVars, drained, fault>>

Beside ==
  /\ \/ (\E c \in Cpus : Handler(c)) /\ (planted \/ fresh' = fresh)
     \/ RcvMsg /\ (rpc = "idle" => nlsk = "ok")
               /\ (rpc = "wake" => send_kthread = "ok")
     \/ SendFunc
  /\ Kept

Running == xpc \notin Freed /\ fault = "none" /\ ~DrainRaces

NextModule == Running /\ (InitSteps \/ ExitSteps \/ WakeFaults \/ Beside)

SpecModule == InitModule /\ [][NextModule]_moduleVars

\* send_func and the handlers as in VfsKprobe, insmod, and rmmod once it runs,
\* get the processor. The module need never be unloaded, an ACK never come, and
\* read_file_content never get what it reads for.
FairModule ==
  /\ SpecModule
  /\ WF_moduleVars(/\ Running
                   /\ \/ xpc # "again" /\ InitSteps
                      \/ xpc # "loaded" /\ ExitSteps)
  /\ WF_moduleVars(Running /\ Kept
                   /\ (KStart \/ KSetState \/ KShouldStop \/ KTest \/ KSched
                       \/ KTimeout \/ KUnlockMsg \/ KFile \/ KSend))
  /\ SF_moduleVars(Running /\ Kept /\ (KLockMsg \/ KLockFile \/ KLockBuf))
  /\ WF_moduleVars(Running /\ Kept /\ (RcvStore \/ RcvUnlock))
  /\ \A c \in Cpus :
       /\ WF_moduleVars(Running /\ Kept
                        /\ (HAdd(c) \/ HSpill(c) \/ HWrite(c) \/ HWritten(c)
                            \/ HSetFileOn(c) \/ HUnlockBuf(c)))
       /\ SF_moduleVars(Running /\ Kept /\ (HLockBuf(c) \/ HLockFile(c)))

-----------------------------------------------------------------------------
TypeOKModule ==
  /\ TypeOK
  /\ xpc \in InitPcs \cup {"loaded"} \cup ExitPcs \cup Freed
  /\ fp \in {"null", "err", "ok"} /\ nlsk \in {"null", "ok"}
  /\ send_kthread \in {"null", "err", "ok"}
  /\ planted \in BOOLEAN /\ drained \in Nat
  /\ fault \in {"none", "read", "wake", "stop", "drain", "copy"}

\* vfs_kprobe.c:549-552: the loop counts each message off twice. However the
\* handlers add to the list beside it, rmmod leaves as many messages in the list
\* as it has written to the file; and it meets an empty list with the counter
\* still set only after it has counted one off itself.
DrainLeavesAsMany ==
  /\ xpc = "gone" /\ drained <= UINT_MAX /\ Len(msg_buf) <= UINT_MAX
       => Len(msg_buf) = drained
  /\ fault = "drain" => drained > 0

\* From the moment kprobe_init has made the thread until kthread_stop has
\* returned, every datagram finds it, unless it has died: also one that came in
\* before there was a thread, and one that comes in while rmmod waits.
DatagramFindsThread ==
  fault = "wake" => \/ xpc = "thread" \/ send_kthread = "err"
                    \/ xpc \in {"drain", "write", "dec"}
                    \/ kpc = "oops"

\* Neither insmod nor rmmod hangs, but in the loop of read_file_content or with
\* a thread or handler that will not run again: a failing kprobe_init gets rid
\* of the handlers that have fired meanwhile, and whatever else send_func is
\* waiting for, it comes round to the should-stop bit.
Waiting == xpc \in InitPcs \cup {"join"}
CallsReturn == Waiting ~> (~Waiting \/ xpc = "again" \/ Sticks \/ ~Running)

\* vfs_kprobe.c:208: once a first ACK has started send_func, its own timeout
\* keeps the list moving, whether ACKs come or not, and whatever other text is
\* read where an ACK was meant: when no more events come the list runs empty,
\* but for rmmod, a failing insmod, and a thread or handlers that stick.
TimeoutDrains ==
  (kpc # "created" /\ msg_buf # <<>>)
    ~> (msg_buf = <<>> \/ stopping \/ Sticks \/ ~Running)
=============================================================================
