-------------------------------- MODULE Efd --------------------------------
(***************************************************************************)
(* The life of the daemon, src/daemon/efd.cpp: processes that are started, *)
(* take the lock of /var/run/everyfiled.pid, write their pid into it, bind *)
(* their netlink socket to port 100 and answer each datagram with an ACK,  *)
(* until they are killed or fail.                                          *)
(*                                                                         *)
(* A process stands for what is left of it after the two forks of          *)
(* start_daemon, whose result main does not look at. The record lock is    *)
(* fcntl's: it goes when its process closes the file. The kernel closes    *)
(* the files of a process that ends in the order of their descriptors, the *)
(* lock file before the socket. ftruncate and write succeed, as does       *)
(* recvfrom on a socket that select has found readable.                    *)
(***************************************************************************)
EXTENDS Integers, Sequences

CONSTANTS
  Procs,        \* processes of efd, each started once
  MaxDatagrams  \* bound on what the kernel module sends

ASSUME ProcsAssumption ==
  /\ {"free", "empty", "none"} \cap Procs = {}
  /\ MaxDatagrams \in Nat

VARIABLES
  pc,       \* each process's step
  locked,   \* who holds the lock of the pid file
  pidfile,  \* what is in it
  port,     \* who is bound to netlink port 100
  socket,   \* the datagrams waiting there
  info,     \* the datagram a process has in hand
  heard,    \* history: an ACK has reached the kernel since its last datagram
  sent      \* how many of MaxDatagrams have been sent

fileVars   == <<locked, pidfile>>
socketVars == <<port, socket>>
vars == <<pc, fileVars, socketVars, info, heard, sent>>

\* The first byte of a datagram: a creation (1, 3, 6), a removal (2, 4), or
\* what efd makes nothing of (5, anything else).
Kinds == {"add", "rm", "other"}

Steps == {"none", "open", "lock", "truncate", "write", "bind", "first",
          "select", "handle", "reply", "close_lock", "close_socket", "dead"}

Init ==
  /\ pc = [p \in Procs |-> "none"]
  /\ locked = "free" /\ pidfile = "empty"
  /\ port = "free" /\ socket = <<>>
  /\ info = [p \in Procs |-> "none"]
  /\ heard = FALSE /\ sent = 0

Goto(p, step) == pc' = [pc EXCEPT ![p] = step]

\* exit, an uncaught exception or a signal.
Exit(p) == Goto(p, "close_lock")

-----------------------------------------------------------------------------
(* main, start_daemon and ef_init_lockfile_to_unique.                      *)

StartDaemon(p) ==
  /\ pc[p] = "none"
  /\ Goto(p, "open")
  /\ UNCHANGED <<fileVars, socketVars, info, heard, sent>>

\* Variant: open with O_TRUNC.
OpenTruncating(p) ==
  /\ pc[p] = "open"
  /\ Goto(p, "lock")
  /\ pidfile' = "empty"
  /\ UNCHANGED <<locked, socketVars, info, heard, sent>>

Open(p) ==
  /\ pc[p] = "open"
  /\ Goto(p, "lock") \/ Exit(p)
  /\ UNCHANGED <<fileVars, socketVars, info, heard, sent>>

\* Variant: the result of fcntl is not looked at.
LockIgnored(p) ==
  /\ pc[p] = "lock"
  /\ locked' = IF locked = "free" THEN p ELSE locked
  /\ Goto(p, "truncate")
  /\ UNCHANGED <<pidfile, socketVars, info, heard, sent>>

\* F_SETLK does not wait: EAGAIN means that a daemon is running.
Lock(p) ==
  /\ pc[p] = "lock"
  /\ \/ /\ locked = "free"
        /\ locked' = p
        /\ Goto(p, "truncate")
     \/ /\ locked # "free"
        /\ Exit(p)
        /\ UNCHANGED locked
  /\ UNCHANGED <<pidfile, socketVars, info, heard, sent>>

Truncate(p) ==
  /\ pc[p] = "truncate"
  /\ pidfile' = "empty"
  /\ Goto(p, "write")
  /\ UNCHANGED <<locked, socketVars, info, heard, sent>>

\* Variant: the file is closed once it is written.
WritePidClose(p) ==
  /\ pc[p] = "write"
  /\ pidfile' = p
  /\ locked' = "free"
  /\ Goto(p, "bind")
  /\ UNCHANGED <<socketVars, info, heard, sent>>

WritePid(p) ==
  /\ pc[p] = "write"
  /\ pidfile' = p
  /\ Goto(p, "bind")
  /\ UNCHANGED <<locked, socketVars, info, heard, sent>>

-----------------------------------------------------------------------------
(* ef_kernel_conn.                                                         *)

Bind(p) ==
  /\ pc[p] = "bind"
  /\ port = "free"
  /\ port' = p
  /\ socket' = <<>>
  /\ Goto(p, "first")
  /\ UNCHANGED <<fileVars, info, heard, sent>>

\* EADDRINUSE. (That socket fails is an end like Kill's.)
BindFails(p) ==
  /\ pc[p] = "bind"
  /\ port # "free"
  /\ Exit(p)
  /\ UNCHANGED <<fileVars, socketVars, info, heard, sent>>

\* sendto before the loop, and at the end of each round. When it fails it
\* returns -1, which !ret does not see, and the daemon goes on.
SendAck(p, arrives) ==
  /\ pc[p] \in {"first", "reply"}
  /\ heard' = (heard \/ arrives)
  /\ Goto(p, "select")
  /\ UNCHANGED <<fileVars, socketVars, info, sent>>

\* Variant: no ACK after a timeout.
SelectTimeoutSilent(p) ==
  /\ pc[p] = "select" /\ socket = <<>>
  /\ UNCHANGED vars

\* Nothing for 20 seconds.
SelectTimeout(p) ==
  /\ pc[p] = "select" /\ socket = <<>>
  /\ Goto(p, "reply")
  /\ UNCHANGED <<fileVars, socketVars, info, heard, sent>>

\* The loop is left and main returns.
SelectError(p) ==
  /\ pc[p] = "select"
  /\ Exit(p)
  /\ UNCHANGED <<fileVars, socketVars, info, heard, sent>>

\* Variant: FD_SET is forgotten, the datagram stays.
RecvNothing(p) ==
  /\ pc[p] = "select" /\ socket # <<>>
  /\ Goto(p, "reply")
  /\ UNCHANGED <<fileVars, socketVars, info, heard, sent>>

Recv(p) ==
  /\ pc[p] = "select" /\ socket # <<>>
  /\ info' = [info EXCEPT ![p] = Head(socket)]
  /\ socket' = Tail(socket)
  /\ Goto(p, "handle")
  /\ UNCHANGED <<fileVars, port, heard, sent>>

\* The switch: add, rm or nothing. add can throw (module EfDb, Begin).
Handle(p) ==
  /\ pc[p] = "handle"
  /\ Goto(p, "reply") \/ (info[p] = "add" /\ Exit(p))
  /\ info' = [info EXCEPT ![p] = "none"]
  /\ UNCHANGED <<fileVars, socketVars, heard, sent>>

-----------------------------------------------------------------------------
(* The end of a process, and the kernel module's side of the socket.       *)

Kill(p) ==
  /\ pc[p] \notin {"none", "close_lock", "close_socket", "dead"}
  /\ Exit(p)
  /\ UNCHANGED <<fileVars, socketVars, info, heard, sent>>

CloseLock(p) ==
  /\ pc[p] = "close_lock"
  /\ locked' = IF locked = p THEN "free" ELSE locked
  /\ Goto(p, "close_socket")
  /\ UNCHANGED <<pidfile, socketVars, info, heard, sent>>

\* Variant: the port is given up whoever has it.
CloseSocketAny(p) ==
  /\ pc[p] = "close_socket"
  /\ port' = "free" /\ socket' = <<>>
  /\ Goto(p, "dead")
  /\ UNCHANGED <<fileVars, info, heard, sent>>

CloseSocket(p) ==
  /\ pc[p] = "close_socket"
  /\ IF port = p THEN port' = "free" /\ socket' = <<>>
                 ELSE UNCHANGED socketVars
  /\ Goto(p, "dead")
  /\ UNCHANGED <<fileVars, info, heard, sent>>

\* netlink_unicast to port 100, lost when nobody is bound to it.
Send(kind) ==
  /\ sent < MaxDatagrams
  /\ sent' = sent + 1
  /\ socket' = IF port = "free" THEN socket ELSE Append(socket, kind)
  /\ heard' = FALSE
  /\ UNCHANGED <<pc, fileVars, port, info>>

-----------------------------------------------------------------------------
Step(p) ==
  \/ Open(p) \/ Lock(p) \/ Truncate(p) \/ WritePid(p)
  \/ Bind(p) \/ BindFails(p)
  \/ \E arrives \in BOOLEAN : SendAck(p, arrives)
  \/ SelectTimeout(p) \/ Recv(p) \/ Handle(p)
  \/ CloseLock(p) \/ CloseSocket(p)

Next ==
  \/ \E p \in Procs : StartDaemon(p) \/ Step(p) \/ SelectError(p) \/ Kill(p)
  \/ \E kind \in Kinds : Send(kind)

Spec == Init /\ [][Next]_vars

\* A process that has been started runs; nobody has to start or kill one, nor
\* does select have to fail.
FairSpec == Spec /\ \A p \in Procs : WF_vars(Step(p))

-----------------------------------------------------------------------------
(* Properties.                                                             *)

Bound  == {"first", "select", "handle", "reply"}
Inside == {"truncate", "write", "bind"} \cup Bound

TypeOK ==
  /\ pc \in [Procs -> Steps]
  /\ locked \in Procs \cup {"free"} /\ pidfile \in Procs \cup {"empty"}
  /\ port \in Procs \cup {"free"} /\ socket \in Seq(Kinds)
  /\ info \in [Procs -> Kinds \cup {"none"}] /\ heard \in BOOLEAN
  /\ sent \in 0 .. MaxDatagrams
  /\ \A p \in Procs : pc[p] \in Bound => port = p

\* efd.cpp:281 (daemon already running): of all that are started, at any time
\* and while others end, one is past the lock.
OneDaemon == \A p, q \in Procs : pc[p] \in Inside /\ pc[q] \in Inside => p = q

\* The pid file names the daemon for as long as it serves: neither one that was
\* started in vain nor one that is ending changes it.
PidFileIsDaemons ==
  \A p \in Procs : pc[p] \in {"bind"} \cup Bound => pidfile = p

\* A daemon that has the lock is refused the port only by one that has given
\* up the lock and not yet its socket: to start efd while another ends can
\* leave none.
BindFailsOnlyAtHandover ==
  [][\A p \in Procs : BindFails(p) =>
        \E q \in Procs \ {p} : port = q /\ pc[q] = "close_socket"]_vars

\* A daemon that serves makes itself heard, first and after each datagram: an
\* ACK that was lost is made good by the one after the next 20 seconds of
\* silence, provided that of ACKs sent again and again some arrive (the module
\* is loaded, and its socket is not full for ever).
KernelHears ==
  SF_vars(\E p \in Procs : SendAck(p, TRUE)) =>
    LET Serving == \E p \in Procs : pc[p] \in Bound
    IN  (Serving /\ ~heard) ~> (~Serving \/ heard)

\* What the kernel has sent to a daemon does not stay in its socket.
Consumed == (socket # <<>>) ~> (socket = <<>>)
=============================================================================
