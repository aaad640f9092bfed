------------------------------ MODULE EfdProofs ------------------------------
(***************************************************************************)
(* Theorems about module Efd, for any number of processes of efd and any   *)
(* number of datagrams: one process at a time is past the lock, the pid    *)
(* file names it, and only one that is ending can keep it from the port.   *)
(***************************************************************************)
EXTENDS Efd, TLAPS

\* Whoever is past the lock still has it, so that nobody else gets past it;
\* and what it wrote into the pid file is there, because only one that is past
\* the lock writes.
LockInv ==
  /\ pc \in [Procs -> Steps]
  /\ \A p \in Procs : pc[p] \in Inside => locked = p
  /\ \A p \in Procs : pc[p] \in {"bind"} \cup Bound => pidfile = p

LEMMA LockInit == Init => LockInv
  BY DEF Init, LockInv, Steps, Inside, Bound

\* The steps of a process that leave the lock and the pid file alone and do not
\* lead past the lock.
LEMMA QuietStep ==
  ASSUME LockInv, UNCHANGED fileVars, NEW p \in Procs, NEW step \in Steps,
         Goto(p, step),
         step \in Inside => pc[p] \in Inside,
         step \in {"bind"} \cup Bound => pc[p] \in {"bind"} \cup Bound
  PROVE  LockInv'
  BY DEF LockInv, fileVars, Goto

LEMMA LockStep == LockInv /\ [Next]_vars => LockInv'
<1> SUFFICES ASSUME LockInv, [Next]_vars PROVE LockInv'
  OBVIOUS
<1> USE ProcsAssumption
<1>1. ASSUME NEW p \in Procs, StartDaemon(p) PROVE LockInv'
  BY <1>1, QuietStep DEF StartDaemon, Steps, Inside, Bound
<1>2. ASSUME NEW p \in Procs, Open(p) PROVE LockInv'
  BY <1>2, QuietStep DEF Open, Exit, Steps, Inside, Bound
<1>3. ASSUME NEW p \in Procs, Lock(p) PROVE LockInv'
  <2>1. CASE locked = "free"
    \* The lock is free: no other process is past it.
    <3>1. locked' = p /\ Goto(p, "truncate") /\ pidfile' = pidfile
      BY <1>3, <2>1 DEF Lock
    <3>2. \A q \in Procs : pc[q] \notin Inside
      BY <2>1 DEF LockInv
    <3> QED
      BY <3>1, <3>2 DEF LockInv, Goto, Steps, Inside, Bound
  <2>2. CASE locked # "free"
    <3>1. UNCHANGED fileVars /\ Goto(p, "close_lock")
      BY <1>3, <2>2 DEF Lock, Exit, fileVars
    <3> QED
      BY <3>1, QuietStep DEF Steps, Inside, Bound
  <2> QED
    BY <2>1, <2>2
<1>4. ASSUME NEW p \in Procs, Truncate(p) PROVE LockInv'
  \* p has the lock, so that no other process relies on the file.
  <2>1. \A q \in Procs \ {p} : pc[q] \notin Inside
    BY <1>4 DEF Truncate, LockInv, Inside
  <2> QED
    BY <1>4, <2>1 DEF Truncate, LockInv, Goto, Steps, Inside, Bound
<1>5. ASSUME NEW p \in Procs, WritePid(p) PROVE LockInv'
  <2>1. \A q \in Procs \ {p} : pc[q] \notin Inside
    BY <1>5 DEF WritePid, LockInv, Inside
  <2> QED
    BY <1>5, <2>1 DEF WritePid, LockInv, Goto, Steps, Inside, Bound
<1>6. ASSUME NEW p \in Procs, Bind(p) \/ BindFails(p) PROVE LockInv'
  BY <1>6, QuietStep DEF Bind, BindFails, Exit, Steps, Inside, Bound
<1>7. ASSUME NEW p \in Procs, (\E a \in BOOLEAN : SendAck(p, a)) \/ SelectTimeout(p) \/ SelectError(p)
      PROVE LockInv'
  BY <1>7, QuietStep DEF SendAck, SelectTimeout, SelectError, Exit, Steps, Inside, Bound
<1>8. ASSUME NEW p \in Procs, Recv(p) \/ Handle(p) PROVE LockInv'
  BY <1>8, QuietStep DEF Recv, Handle, Exit, Steps, Inside, Bound
<1>9. ASSUME NEW p \in Procs, Kill(p) PROVE LockInv'
  BY <1>9, QuietStep DEF Kill, Exit, Steps, Inside, Bound
<1>10. ASSUME NEW p \in Procs, CloseLock(p) PROVE LockInv'
  \* The lock is given up only by its owner, who is not inside any more.
  <2>1. \A q \in Procs : pc[q] \in Inside => q # p
    BY <1>10 DEF CloseLock, Inside, Bound
  <2> QED
    BY <1>10, <2>1 DEF CloseLock, LockInv, Goto, Steps, Inside, Bound
<1>11. ASSUME NEW p \in Procs, CloseSocket(p) PROVE LockInv'
  BY <1>11, QuietStep DEF CloseSocket, Steps, Inside, Bound
<1>12. ASSUME NEW kind \in Kinds, Send(kind) PROVE LockInv'
  BY <1>12 DEF Send, LockInv, fileVars
<1>13. CASE UNCHANGED vars
  BY <1>13 DEF vars, LockInv, fileVars
<1> QED
  BY <1>1, <1>2, <1>3, <1>4, <1>5, <1>6, <1>7, <1>8, <1>9, <1>10, <1>11, <1>12, <1>13
  DEF Next, Step

\* LockInv holds in every reachable state.
THEOREM LockInvariance == Spec => []LockInv
  BY LockInit, LockStep, PTL DEF Spec

\* efd.cpp:281: however many processes are started, one at a time is past the
\* lock.
THEOREM OneDaemonAtATime == Spec => []OneDaemon
<1>1. LockInv => OneDaemon
  BY DEF LockInv, OneDaemon
<1> QED
  BY <1>1, LockInvariance, PTL

\* The pid file names the daemon for as long as it serves.
THEOREM PidFileNamesDaemon == Spec => []PidFileIsDaemons
<1>1. LockInv => PidFileIsDaemons
  BY DEF LockInv, PidFileIsDaemons
<1> QED
  BY <1>1, LockInvariance, PTL

-----------------------------------------------------------------------------
(* The socket: types and the port.                                         *)

\* The port is kept from bind to close_socket, and for all but that last step
\* together with the lock.
PortInv ==
  \A p \in Procs :
    port = p => \/ pc[p] \in Bound \cup {"close_socket"}
                \/ pc[p] = "close_lock" /\ locked = p

DaemonInv == TypeOK /\ LockInv /\ PortInv

LEMMA DaemonInit == Init => DaemonInv
<1>1. Init => TypeOK
  <2>1. Init => heard \in BOOLEAN
    BY Zenon DEF Init
  <2> QED
    BY <2>1, ProcsAssumption DEF Init, TypeOK, Steps, Bound, Kinds
<1>2. Init => PortInv
  BY ProcsAssumption DEF Init, PortInv
<1> QED
  BY <1>1, <1>2, LockInit DEF DaemonInv

LEMMA TypeStep == TypeOK /\ [Next]_vars => TypeOK'
<1> SUFFICES ASSUME TypeOK, [Next]_vars PROVE TypeOK'
  OBVIOUS
<1> USE ProcsAssumption DEF TypeOK, Goto, Exit, Steps, Bound, fileVars, socketVars
<1>1. ASSUME NEW p \in Procs, StartDaemon(p) \/ Open(p) \/ Lock(p) PROVE TypeOK'
  BY <1>1 DEF StartDaemon, Open, Lock
<1>2. ASSUME NEW p \in Procs, Truncate(p) \/ WritePid(p) PROVE TypeOK'
  BY <1>2 DEF Truncate, WritePid
<1>3. ASSUME NEW p \in Procs, Bind(p) PROVE TypeOK'
  <2>1. \A q \in Procs : pc[q] \notin Bound
    BY <1>3 DEF Bind
  <2>2. socket' \in Seq(Kinds) /\ port' = p
    BY <1>3 DEF Bind
  <2>3. /\ pc' \in [Procs -> Steps]
        /\ \A q \in Procs : pc'[q] \in Bound => q = p
    BY <1>3, <2>1 DEF Bind
  <2> QED
    BY <1>3, <2>2, <2>3 DEF Bind
<1>4. ASSUME NEW p \in Procs, BindFails(p) \/ SelectError(p) PROVE TypeOK'
  BY <1>4 DEF BindFails, SelectError
<1>5. ASSUME NEW p \in Procs, (\E a \in BOOLEAN : SendAck(p, a)) \/ SelectTimeout(p)
      PROVE  TypeOK'
  <2>1. heard' \in BOOLEAN
    BY <1>5, Zenon DEF SendAck, SelectTimeout
  <2> QED
    BY <1>5, <2>1 DEF SendAck, SelectTimeout
<1>6. ASSUME NEW p \in Procs, Recv(p) PROVE TypeOK'
  <2>1. Head(socket) \in Kinds /\ Tail(socket) \in Seq(Kinds)
    BY <1>6 DEF Recv
  <2> QED
    BY <1>6, <2>1 DEF Recv
<1>7. ASSUME NEW p \in Procs, Handle(p) \/ Kill(p) PROVE TypeOK'
  BY <1>7 DEF Handle, Kill
<1>8. ASSUME NEW p \in Procs, CloseLock(p) \/ CloseSocket(p) PROVE TypeOK'
  <2>1. CASE CloseLock(p)
    BY <2>1 DEF CloseLock
  <2>2. CASE CloseSocket(p) /\ port = p
    \* Nobody serves: it would have the port.
    <3>1. socket' \in Seq(Kinds) /\ port' = "free"
      BY <2>2 DEF CloseSocket
    <3>2. pc' \in [Procs -> Steps] /\ \A q \in Procs : pc'[q] \notin Bound
      BY <2>2 DEF CloseSocket
    <3> QED
      BY <2>2, <3>1, <3>2 DEF CloseSocket
  <2>3. CASE CloseSocket(p) /\ port # p
    BY <2>3 DEF CloseSocket
  <2> QED
    BY <1>8, <2>1, <2>2, <2>3
<1>9. ASSUME NEW kind \in Kinds, Send(kind) PROVE TypeOK'
  <2>1. heard' \in BOOLEAN
    BY <1>9, Zenon DEF Send
  <2> QED
    BY <1>9, <2>1 DEF Send
<1>10. CASE UNCHANGED vars
  BY <1>10 DEF vars
<1> QED
  BY <1>1, <1>2, <1>3, <1>4, <1>5, <1>6, <1>7, <1>8, <1>9, <1>10 DEF Next, Step

LEMMA PortStep == TypeOK /\ LockInv /\ PortInv /\ [Next]_vars => PortInv'
<1> SUFFICES ASSUME TypeOK, LockInv, PortInv, [Next]_vars PROVE PortInv'
  OBVIOUS
<1>0. /\ pc \in [Procs -> Steps]
      /\ \A p \in Procs : pc[p] \in Inside => locked = p
  BY DEF TypeOK, LockInv
<1> USE <1>0, ProcsAssumption
    DEF PortInv, Goto, Exit, Bound, Inside, fileVars, socketVars
<1>1. ASSUME NEW p \in Procs, StartDaemon(p) \/ Open(p) \/ Truncate(p) \/ WritePid(p)
      PROVE  PortInv'
  BY <1>1 DEF StartDaemon, Open, Truncate, WritePid
\* The lock changes hands only when it is free, and then nobody in close_lock
\* has the port.
<1>2. ASSUME NEW p \in Procs, Lock(p) PROVE PortInv'
  BY <1>2 DEF Lock
<1>3. ASSUME NEW p \in Procs, Bind(p) \/ BindFails(p) PROVE PortInv'
  BY <1>3 DEF Bind, BindFails
<1>4. ASSUME NEW p \in Procs, (\E a \in BOOLEAN : SendAck(p, a)) \/ SelectTimeout(p) \/ SelectError(p)
      PROVE PortInv'
  BY <1>4 DEF SendAck, SelectTimeout, SelectError
<1>5. ASSUME NEW p \in Procs, Recv(p) \/ Handle(p) PROVE PortInv'
  BY <1>5 DEF Recv, Handle
\* One that is killed while it has the port also has the lock.
<1>6. ASSUME NEW p \in Procs, Kill(p) PROVE PortInv'
  BY <1>6 DEF Kill
<1>7. ASSUME NEW p \in Procs, CloseLock(p) PROVE PortInv'
  BY <1>7 DEF CloseLock
<1>8. ASSUME NEW p \in Procs, CloseSocket(p) PROVE PortInv'
  BY <1>8 DEF CloseSocket
<1>9. CASE UNCHANGED <<pc, locked, port>>
  BY <1>9
<1> QED
  BY <1>1, <1>2, <1>3, <1>4, <1>5, <1>6, <1>7, <1>8, <1>9 DEF Next, Step, Send, vars

\* DaemonInv holds in every reachable state.
THEOREM DaemonInvariance == Spec => []DaemonInv
<1>1. DaemonInv /\ [Next]_vars => DaemonInv'
  BY LockStep, TypeStep, PortStep DEF DaemonInv
<1> QED
  BY <1>1, DaemonInit, PTL DEF Spec

\* Values and types, and that whoever serves has the port.
THEOREM DaemonTypes == Spec => []TypeOK
<1>1. DaemonInv => TypeOK
  BY DEF DaemonInv
<1> QED
  BY <1>1, DaemonInvariance, PTL

\* Whoever has the lock is refused the port only by one that has given up the
\* lock and not yet its socket.
THEOREM HandoverOnly == Spec => BindFailsOnlyAtHandover
<1>1. ASSUME DaemonInv, NEW p \in Procs, BindFails(p)
      PROVE  \E q \in Procs \ {p} : port = q /\ pc[q] = "close_socket"
  <2>1. pc[p] = "bind" /\ port \in Procs
    BY <1>1 DEF BindFails, DaemonInv, TypeOK
  <2>2. locked = p
    BY <1>1, <2>1 DEF DaemonInv, LockInv, Inside
  <2>3. port # p
    BY <1>1, <2>1 DEF DaemonInv, PortInv, Bound
  <2>4. pc[port] \notin Bound /\ ~(pc[port] = "close_lock" /\ locked = port)
    BY <1>1, <2>1, <2>2, <2>3 DEF DaemonInv, LockInv, Inside
  <2>5. pc[port] = "close_socket"
    BY <1>1, <2>1, <2>4 DEF DaemonInv, PortInv
  <2> QED
    BY <2>1, <2>3, <2>5
<1>2. DaemonInv /\ [Next]_vars
        => [\A p \in Procs : BindFails(p) =>
              \E q \in Procs \ {p} : port = q /\ pc[q] = "close_socket"]_vars
  BY <1>1
<1> QED
  BY <1>2, DaemonInvariance, PTL DEF Spec, BindFailsOnlyAtHandover
=============================================================================
