-------------------------- MODULE VfsKprobeProofs --------------------------
(***************************************************************************)
(* Proofs about VfsKprobe, for any number of CPUs, any events, any         *)
(* MAX_MSG_BUF_LEN below UINT_MAX and any number of pending ACKs.          *)
(***************************************************************************)
EXTENDS VfsKprobe, TLAPS

\* The list in the critical sections: over its limit exactly while a handler
\* is about to spill.
SpillInv ==
  /\ msg_buf_size = Len(msg_buf)
  /\ Len(msg_buf) > MAX_MSG_BUF_LEN => \E c \in Cpus : hpc[c] = "spill"
  /\ \A c \in Cpus : hpc[c] = "spill" => Len(msg_buf) = MAX_MSG_BUF_LEN + 1

\* NoMissedWake from the moment send_func has decided to sleep.
WakeInv ==
  Texts \subseteq {"SYN", "ACK"} =>
    /\ rpc # "idle" => rtext \in {"SYN", "ACK"}
    /\ kpc = "sleep" => ktask = "INTERRUPTIBLE"
    /\ kpc \in {"sched", "sleep"} /\ ktask = "INTERRUPTIBLE" /\ msg_ready > 0
         => rpc \in {"unlock", "wake"}

IndInv == TypeOK /\ LockOwners /\ SpillInv /\ BufferIsFifo /\ WakeInv

-----------------------------------------------------------------------------
(* What taking the first message off the list does.                        *)

\* msg_buf_size-- stays an unsigned int, and does not wrap above 0.
LEMMA DecRange ==
  ASSUME NEW n \in 0 .. UINT_MAX
  PROVE  /\ Dec(n) \in 0 .. UINT_MAX
         /\ n > 0 => Dec(n) = n - 1
BY ConstantsAssumption DEF Dec

\* Taking the head of a list that is not empty leaves a shorter list of
\* messages and extends the history of what was taken.
LEMMA TakeFirst ==
  ASSUME TypeOK, Take, msg_buf # <<>>
  PROVE  /\ msg_buf' \in Seq(Msgs) /\ Head(msg_buf) \in Msgs
         /\ taken' \in Seq(Msgs) /\ appended' \in Seq(Msgs)
         /\ msg_buf_size' \in 0 .. UINT_MAX
         /\ Len(msg_buf') = Len(msg_buf) - 1
         /\ msg_buf_size = Len(msg_buf) => msg_buf_size' = Len(msg_buf')
         /\ taken' \o msg_buf' = taken \o msg_buf
<1>1. /\ msg_buf \in Seq(Msgs) /\ taken \in Seq(Msgs)
      /\ appended \in Seq(Msgs)
      /\ msg_buf_size \in 0 .. UINT_MAX
  BY DEF TypeOK
<1>2. /\ Head(msg_buf) \in Msgs /\ Tail(msg_buf) \in Seq(Msgs)
      /\ Len(Tail(msg_buf)) = Len(msg_buf) - 1
      /\ Len(msg_buf) \in Nat /\ Len(msg_buf) > 0
  BY <1>1
<1>3. Append(taken, Head(msg_buf)) \o Tail(msg_buf) = taken \o msg_buf
  BY <1>1, <1>2
<1>4. Append(taken, Head(msg_buf)) \in Seq(Msgs)
  BY <1>1, <1>2
<1>5. /\ msg_buf' = Tail(msg_buf) /\ appended' = appended
      /\ taken' = Append(taken, Head(msg_buf))
      /\ msg_buf_size' = Dec(msg_buf_size)
  BY DEF Take
<1>6. /\ msg_buf_size' \in 0 .. UINT_MAX
      /\ msg_buf_size = Len(msg_buf) => msg_buf_size' = Len(msg_buf) - 1
  <2>1. /\ Dec(msg_buf_size) \in 0 .. UINT_MAX
        /\ msg_buf_size > 0 => Dec(msg_buf_size) = msg_buf_size - 1
    BY <1>1, DecRange
  <2> QED BY <1>2, <1>5, <2>1
<1>7. taken' \o msg_buf' = taken \o msg_buf
  BY <1>3, <1>5, Zenon
<1> QED BY <1>1, <1>2, <1>4, <1>5, <1>6, <1>7, Zenon

-----------------------------------------------------------------------------
(* Each part is preserved, one step of the proof per action.               *)

\* No step leaves the types.
LEMMA TypeStep == TypeOK /\ [Next]_vars => TypeOK'
<1> SUFFICES ASSUME TypeOK, [Next]_vars PROVE TypeOK'
  OBVIOUS
<1> USE ConstantsAssumption DEF TypeOK, HandlerSteps, SenderSteps, RcvSteps,
        vars, lockVars, bufVars, listVars, fileVars, handlerVars, senderVars,
        rcvVars
<1>1. ASSUME NEW c \in Cpus, Handler(c) PROVE TypeOK'
  <2>1. ASSUME NEW m \in Msgs, HFire(c, m) PROVE TypeOK'
    BY <2>1, SMTT(30) DEF HFire
  <2>2. CASE HLockBuf(c)
    BY <2>2 DEF HLockBuf
  <2>3. CASE HAdd(c)
    BY <2>3 DEF HAdd, Inc
  <2>4. CASE HSpill(c)
    <3>1. CASE msg_buf = <<>>
      BY <2>4, <3>1 DEF HSpill
    <3>2. CASE msg_buf # <<>>
      <4>1. /\ Take /\ UNCHANGED delivered
            /\ \E step \in {"write", "oops"} : hpc' = [hpc EXCEPT ![c] = step]
        BY <2>4, <3>2 DEF HSpill
      <4> QED BY <2>4, <3>2, <4>1, TakeFirst DEF HSpill
    <3> QED BY <3>1, <3>2
  <2>5. CASE HWrite(c)
    BY <2>5 DEF HWrite
  <2>6. CASE HWritten(c)
    BY <2>6 DEF HWritten
  <2>7. CASE HLockFile(c)
    BY <2>7 DEF HLockFile
  <2>8. CASE HSetFileOn(c)
    BY <2>8 DEF HSetFileOn
  <2>9. CASE HUnlockBuf(c)
    BY <2>9 DEF HUnlockBuf
  <2> HIDE DEF TypeOK
  <2> QED BY <1>1, <2>1, <2>2, <2>3, <2>4, <2>5, <2>6, <2>7, <2>8, <2>9 DEF
             Handler
<1>2. CASE RcvMsg
  <2>1. ASSUME NEW text \in Texts, RcvCall(text) PROVE TypeOK'
    BY <2>1 DEF RcvCall
  <2>2. CASE RcvLock
    BY <2>2 DEF RcvLock
  <2>3. CASE RcvStore
    BY <2>3 DEF RcvStore
  <2>4. CASE RcvUnlock
    BY <2>4 DEF RcvUnlock
  <2>5. CASE RcvWake
    BY <2>5 DEF RcvWake, WakeUp
  <2> HIDE DEF TypeOK
  <2> QED BY <1>2, <2>1, <2>2, <2>3, <2>4, <2>5 DEF RcvMsg
<1>3. CASE SendFunc
  <2>1. CASE KStart
    BY <2>1 DEF KStart
  <2>2. CASE KSetState
    BY <2>2 DEF KSetState
  <2>3. CASE KShouldStop
    BY <2>3 DEF KShouldStop
  <2>4. CASE KLockMsg
    BY <2>4 DEF KLockMsg
  <2>5. CASE KTest
    <3>1. CASE msg_ready > 0
      <4>1. msg_ready # 0
        BY <3>1
      <4>2. /\ msg_ready' = 0 /\ kpc' = "unlock_msg" /\ UNCHANGED sl_msg
            /\ UNCHANGED <<ktask, sl_buf, sl_file, bufVars, fileVars,
                           handlerVars, stopping, rcvVars, fresh>>
        BY <2>5, <4>1, Zenon DEF KTest
      <4> QED BY <4>2
    <3>2. CASE msg_ready = 0
      BY <2>5, <3>2 DEF KTest
    <3> QED BY <3>1, <3>2
  <2>6. CASE KSched
    BY <2>6 DEF KSched
  <2>7. CASE KTimeout
    BY <2>7 DEF KTimeout
  <2>8. CASE KUnlockMsg
    BY <2>8 DEF KUnlockMsg
  <2>9. CASE KLockFile
    BY <2>9 DEF KLockFile
  <2>10. CASE KFile
    <3>1. CASE file_on
      <4>1. /\ kpc' \in {"oops", "top"}
            /\ sl_file' \in {sl_file, "free"}
            /\ pos' \in {pos, 0}
            /\ file_on' \in BOOLEAN
        BY <2>10, <3>1 DEF KFile, SendFileOnDies
      <4> QED BY <2>10, <4>1 DEF KFile, SendFileOnDies
    <3>2. CASE ~file_on
      BY <2>10, <3>2 DEF KFile, SendFileOnDies
    <3> QED BY <3>1, <3>2
  <2>11. CASE KLockBuf
    BY <2>11 DEF KLockBuf
  <2>12. CASE KSend
    <3>0. CASE SendMsgDies
      BY <2>12, <3>0 DEF KSend, SendMsgDies
    <3>1. CASE msg_buf_size > 0 /\ msg_buf # <<>> /\ ~SendMsgDies
      <4>1. /\ Take
            /\ \/ delivered' = Append(delivered, Head(msg_buf))
               \/ UNCHANGED delivered
        BY <2>12, <3>1 DEF KSend, SendMsg
      <4>2. delivered' \in Seq(Msgs)
        <5>1. Head(msg_buf) \in Msgs
          BY <3>1, <4>1, TakeFirst
        <5>2. Append(delivered, Head(msg_buf)) \in Seq(Msgs)
          BY <5>1
        <5> QED BY <4>1, <5>2
      <4>3. /\ msg_buf' \in Seq(Msgs) /\ taken' \in Seq(Msgs)
            /\ appended' \in Seq(Msgs) /\ msg_buf_size' \in 0 .. UINT_MAX
        BY <3>1, <4>1, TakeFirst
      <4>4. /\ sl_buf' = "free" /\ sl_file' = "free" /\ kpc' = "top"
            /\ UNCHANGED <<ktask, sl_msg, fileVars, msg_ready,
                           handlerVars, stopping, rcvVars, fresh>>
        BY <2>12, <3>1 DEF KSend, SendMsg
      <4> QED BY <4>2, <4>3, <4>4
    <3>2. CASE ~(msg_buf_size > 0 /\ msg_buf # <<>>) /\ ~SendMsgDies
      BY <2>12, <3>2 DEF KSend, SendMsg
    <3> QED BY <3>0, <3>1, <3>2
  <2> HIDE DEF TypeOK
  <2> QED BY <1>3, <2>1, <2>2, <2>3, <2>4, <2>5, <2>6, <2>7, <2>8, <2>9, <2>10,
             <2>11, <2>12 DEF SendFunc
<1>4. CASE KthreadStop
  BY <1>4 DEF KthreadStop, WakeUp
<1>5. CASE UNCHANGED vars
  BY <1>5
<1> HIDE DEF TypeOK
<1> QED BY <1>1, <1>2, <1>3, <1>4, <1>5 DEF Next

\* A lock that its owner needs is not freed or taken by anybody else: the
\* unlocks of sl_buf and sl_file are the owner's.
LEMMA LockStep == TypeOK /\ LockOwners /\ [Next]_vars => LockOwners'
<1> SUFFICES ASSUME TypeOK /\ LockOwners, [Next]_vars PROVE LockOwners'
  OBVIOUS
<1> USE ConstantsAssumption DEF TypeOK, LockOwners, BufCritical, vars,
        lockVars, bufVars, listVars, fileVars, handlerVars, senderVars, rcvVars
<1>1. ASSUME NEW c \in Cpus, Handler(c) PROVE LockOwners'
  <2>1. ASSUME NEW m \in Msgs, HFire(c, m) PROVE LockOwners'
    BY <2>1 DEF HFire
  <2>2. CASE HLockBuf(c)
    BY <2>2 DEF HLockBuf
  <2>3. CASE HAdd(c)
    BY <2>3 DEF HAdd, Inc
  <2>4. CASE HSpill(c)
    BY <2>4 DEF HSpill, Take, Dec
  <2>5. CASE HWrite(c)
    BY <2>5 DEF HWrite
  <2>6. CASE HWritten(c)
    BY <2>6 DEF HWritten
  <2>7. CASE HLockFile(c)
    BY <2>7 DEF HLockFile
  <2>8. CASE HSetFileOn(c)
    BY <2>8 DEF HSetFileOn
  <2>9. CASE HUnlockBuf(c)
    BY <2>9 DEF HUnlockBuf
  <2> QED BY <1>1, <2>1, <2>2, <2>3, <2>4, <2>5, <2>6, <2>7, <2>8, <2>9 DEF
             Handler
<1>2. CASE RcvMsg
  <2>1. ASSUME NEW text \in Texts, RcvCall(text) PROVE LockOwners'
    BY <2>1 DEF RcvCall
  <2>2. CASE RcvLock
    BY <2>2 DEF RcvLock
  <2>3. CASE RcvStore
    BY <2>3 DEF RcvStore
  <2>4. CASE RcvUnlock
    BY <2>4 DEF RcvUnlock
  <2>5. CASE RcvWake
    BY <2>5 DEF RcvWake, WakeUp
  <2> QED BY <1>2, <2>1, <2>2, <2>3, <2>4, <2>5 DEF RcvMsg
<1>3. CASE SendFunc
  <2>1. CASE KStart
    BY <2>1 DEF KStart
  <2>2. CASE KSetState
    BY <2>2 DEF KSetState
  <2>3. CASE KShouldStop
    BY <2>3 DEF KShouldStop
  <2>4. CASE KLockMsg
    BY <2>4 DEF KLockMsg
  <2>5. CASE KTest
    BY <2>5 DEF KTest
  <2>6. CASE KSched
    BY <2>6 DEF KSched
  <2>7. CASE KTimeout
    BY <2>7 DEF KTimeout
  <2>8. CASE KUnlockMsg
    BY <2>8 DEF KUnlockMsg
  <2>9. CASE KLockFile
    BY <2>9 DEF KLockFile
  <2>10. CASE KFile
    BY <2>10 DEF KFile, SendFileOnDies
  <2>11. CASE KLockBuf
    BY <2>11 DEF KLockBuf
  <2>12. CASE KSend
    BY <2>12 DEF KSend, SendMsg, SendMsgDies, Take, Dec
  <2> QED BY <1>3, <2>1, <2>2, <2>3, <2>4, <2>5, <2>6, <2>7, <2>8, <2>9, <2>10,
             <2>11, <2>12 DEF SendFunc
<1>4. CASE KthreadStop
  BY <1>4 DEF KthreadStop, WakeUp
<1>5. CASE UNCHANGED vars
  BY <1>5
<1> QED BY <1>1, <1>2, <1>3, <1>4, <1>5 DEF Next

\* The counter follows the list, and the list passes its limit by one message,
\* in the hands of the handler that is to spill it.
LEMMA SpillStep ==
  TypeOK /\ LockOwners /\ SpillInv /\ [Next]_vars => SpillInv'
<1> SUFFICES ASSUME TypeOK /\ LockOwners /\ SpillInv, [Next]_vars PROVE SpillInv'
  OBVIOUS
<1> USE ConstantsAssumption DEF TypeOK, LockOwners, BufCritical, SpillInv,
        vars, lockVars, bufVars, listVars, fileVars, handlerVars, senderVars,
        rcvVars
<1>1. ASSUME NEW c \in Cpus, Handler(c) PROVE SpillInv'
  <2>1. ASSUME NEW m \in Msgs, HFire(c, m) PROVE SpillInv'
    BY <2>1 DEF HFire
  <2>2. CASE HLockBuf(c)
    BY <2>2 DEF HLockBuf
  <2>3. CASE HAdd(c)
    BY <2>3 DEF HAdd, Inc
  <2>4. CASE HSpill(c)
    <3>1. msg_buf # <<>> /\ Len(msg_buf) = MAX_MSG_BUF_LEN + 1
      BY <2>4 DEF HSpill
    <3>2. /\ Take
          /\ \E step \in {"write", "oops"} : hpc' = [hpc EXCEPT ![c] = step]
      BY <2>4, <3>1 DEF HSpill
    <3>3. \A d \in Cpus : hpc'[d] # "spill"
      BY <2>4, <3>2 DEF HSpill
    <3> QED BY <2>4, <3>1, <3>2, <3>3, TakeFirst
  <2>5. CASE HWrite(c)
    BY <2>5 DEF HWrite
  <2>6. CASE HWritten(c)
    BY <2>6 DEF HWritten
  <2>7. CASE HLockFile(c)
    BY <2>7 DEF HLockFile
  <2>8. CASE HSetFileOn(c)
    BY <2>8 DEF HSetFileOn
  <2>9. CASE HUnlockBuf(c)
    BY <2>9 DEF HUnlockBuf
  <2> QED BY <1>1, <2>1, <2>2, <2>3, <2>4, <2>5, <2>6, <2>7, <2>8, <2>9 DEF
             Handler
<1>2. CASE RcvMsg
  <2>1. ASSUME NEW text \in Texts, RcvCall(text) PROVE SpillInv'
    BY <2>1 DEF RcvCall
  <2>2. CASE RcvLock
    BY <2>2 DEF RcvLock
  <2>3. CASE RcvStore
    BY <2>3 DEF RcvStore
  <2>4. CASE RcvUnlock
    BY <2>4 DEF RcvUnlock
  <2>5. CASE RcvWake
    BY <2>5 DEF RcvWake, WakeUp
  <2> QED BY <1>2, <2>1, <2>2, <2>3, <2>4, <2>5 DEF RcvMsg
<1>3. CASE SendFunc
  <2>1. CASE KStart
    BY <2>1 DEF KStart
  <2>2. CASE KSetState
    BY <2>2 DEF KSetState
  <2>3. CASE KShouldStop
    BY <2>3 DEF KShouldStop
  <2>4. CASE KLockMsg
    BY <2>4 DEF KLockMsg
  <2>5. CASE KTest
    BY <2>5 DEF KTest
  <2>6. CASE KSched
    BY <2>6 DEF KSched
  <2>7. CASE KTimeout
    BY <2>7 DEF KTimeout
  <2>8. CASE KUnlockMsg
    BY <2>8 DEF KUnlockMsg
  <2>9. CASE KLockFile
    BY <2>9 DEF KLockFile
  <2>10. CASE KFile
    BY <2>10 DEF KFile, SendFileOnDies
  <2>11. CASE KLockBuf
    BY <2>11 DEF KLockBuf
  <2>12. CASE KSend
    <3>0. CASE SendMsgDies
      BY <2>12, <3>0 DEF KSend, SendMsgDies
    <3>1. \A c \in Cpus : hpc[c] # "spill"
      BY <2>12 DEF KSend
    <3>2. CASE msg_buf_size > 0 /\ msg_buf # <<>> /\ ~SendMsgDies
      <4>1. Take /\ UNCHANGED hpc
        BY <2>12, <3>2 DEF KSend, SendMsg
      <4> QED BY <3>1, <3>2, <4>1, TakeFirst
    <3>3. CASE ~(msg_buf_size > 0 /\ msg_buf # <<>>) /\ ~SendMsgDies
      BY <2>12, <3>3 DEF KSend, SendMsg
    <3> QED BY <3>0, <3>2, <3>3
  <2> QED BY <1>3, <2>1, <2>2, <2>3, <2>4, <2>5, <2>6, <2>7, <2>8, <2>9, <2>10,
             <2>11, <2>12 DEF SendFunc
<1>4. CASE KthreadStop
  BY <1>4 DEF KthreadStop, WakeUp
<1>5. CASE UNCHANGED vars
  BY <1>5
<1> QED BY <1>1, <1>2, <1>3, <1>4, <1>5 DEF Next

\* An ACK counted while send_func is between its test and its sleep has made
\* the thread runnable, or rcv_msg is about to.
LEMMA WakeStep == TypeOK /\ WakeInv /\ [Next]_vars => WakeInv'
<1> SUFFICES ASSUME TypeOK /\ WakeInv, [Next]_vars PROVE WakeInv'
  OBVIOUS
<1> USE ConstantsAssumption DEF TypeOK, WakeInv, vars, lockVars, bufVars,
        listVars, fileVars, handlerVars, senderVars, rcvVars
<1>1. ASSUME NEW c \in Cpus, Handler(c) PROVE WakeInv'
  <2>1. ASSUME NEW m \in Msgs, HFire(c, m) PROVE WakeInv'
    BY <2>1 DEF HFire
  <2>2. CASE HLockBuf(c)
    BY <2>2 DEF HLockBuf
  <2>3. CASE HAdd(c)
    BY <2>3 DEF HAdd, Inc
  <2>4. CASE HSpill(c)
    BY <2>4 DEF HSpill, Take, Dec
  <2>5. CASE HWrite(c)
    BY <2>5 DEF HWrite
  <2>6. CASE HWritten(c)
    BY <2>6 DEF HWritten
  <2>7. CASE HLockFile(c)
    BY <2>7 DEF HLockFile
  <2>8. CASE HSetFileOn(c)
    BY <2>8 DEF HSetFileOn
  <2>9. CASE HUnlockBuf(c)
    BY <2>9 DEF HUnlockBuf
  <2> QED BY <1>1, <2>1, <2>2, <2>3, <2>4, <2>5, <2>6, <2>7, <2>8, <2>9 DEF
             Handler
<1>2. CASE RcvMsg
  <2>1. ASSUME NEW text \in Texts, RcvCall(text) PROVE WakeInv'
    BY <2>1 DEF RcvCall
  <2>2. CASE RcvLock
    BY <2>2 DEF RcvLock
  <2>3. CASE RcvStore
    BY <2>3 DEF RcvStore
  <2>4. CASE RcvUnlock
    BY <2>4 DEF RcvUnlock
  <2>5. CASE RcvWake
    BY <2>5 DEF RcvWake, WakeUp
  <2> QED BY <1>2, <2>1, <2>2, <2>3, <2>4, <2>5 DEF RcvMsg
<1>3. CASE SendFunc
  <2>1. CASE KStart
    BY <2>1 DEF KStart
  <2>2. CASE KSetState
    BY <2>2 DEF KSetState
  <2>3. CASE KShouldStop
    BY <2>3 DEF KShouldStop
  <2>4. CASE KLockMsg
    BY <2>4 DEF KLockMsg
  <2>5. CASE KTest
    BY <2>5 DEF KTest
  <2>6. CASE KSched
    BY <2>6 DEF KSched
  <2>7. CASE KTimeout
    BY <2>7 DEF KTimeout
  <2>8. CASE KUnlockMsg
    BY <2>8 DEF KUnlockMsg
  <2>9. CASE KLockFile
    BY <2>9 DEF KLockFile
  <2>10. CASE KFile
    BY <2>10 DEF KFile, SendFileOnDies
  <2>11. CASE KLockBuf
    BY <2>11 DEF KLockBuf
  <2>12. CASE KSend
    BY <2>12 DEF KSend, SendMsg, SendMsgDies, Take, Dec
  <2> QED BY <1>3, <2>1, <2>2, <2>3, <2>4, <2>5, <2>6, <2>7, <2>8, <2>9, <2>10,
             <2>11, <2>12 DEF SendFunc
<1>4. CASE KthreadStop
  BY <1>4 DEF KthreadStop, WakeUp
<1>5. CASE UNCHANGED vars
  BY <1>5
<1> QED BY <1>1, <1>2, <1>3, <1>4, <1>5 DEF Next

-----------------------------------------------------------------------------
(* Three actions touch the list and the socket.                            *)

\* Every other step leaves the list, its counter and the socket alone.
LEMMA ListSteps ==
  ASSUME [Next]_vars
  PROVE  \/ UNCHANGED bufVars
         \/ KSend
         \/ \E c \in Cpus : HAdd(c) \/ HSpill(c)
<1> USE DEF vars
<1>1. ASSUME NEW c \in Cpus, Handler(c), ~HAdd(c), ~HSpill(c)
      PROVE  UNCHANGED bufVars
  BY <1>1 DEF Handler, HFire, HLockBuf, HWrite, HWritten, HLockFile,
              HSetFileOn, HUnlockBuf
<1>2. RcvMsg => UNCHANGED bufVars
  BY DEF RcvMsg, RcvCall, RcvLock, RcvStore, RcvUnlock, RcvWake
<1>3. SendFunc /\ ~KSend => UNCHANGED bufVars
  BY DEF SendFunc, KStart, KSetState, KShouldStop, KLockMsg, KTest, KSched,
         KTimeout, KUnlockMsg, KLockFile, KFile, SendFileOnDies, KLockBuf
<1>4. KthreadStop => UNCHANGED bufVars
  BY DEF KthreadStop
<1> QED BY <1>1, <1>2, <1>3, <1>4 DEF Next

\* What was taken, followed by what is left, stays what was appended.
LEMMA FifoStep ==
  TypeOK /\ BufferIsFifo /\ SpillInv /\ [Next]_vars => BufferIsFifo'
<1> SUFFICES ASSUME TypeOK, BufferIsFifo, SpillInv, [Next]_vars
             PROVE  BufferIsFifo'
  OBVIOUS
<1>1. CASE UNCHANGED bufVars
  BY <1>1 DEF BufferIsFifo, bufVars, listVars
<1>2. ASSUME Take, msg_buf # <<>> PROVE BufferIsFifo'
  <2>1. appended' = appended
    BY <1>2 DEF Take
  <2> QED BY <1>2, <2>1, TakeFirst DEF BufferIsFifo
<1>3. CASE KSend
  <2>1. CASE SendMsgDies
    BY <1>1, <2>1 DEF SendMsgDies
  <2>2. CASE msg_buf_size > 0 /\ msg_buf # <<>> /\ ~SendMsgDies
    BY <1>2, <1>3, <2>2 DEF KSend, SendMsg
  <2>3. CASE ~(msg_buf_size > 0 /\ msg_buf # <<>>) /\ ~SendMsgDies
    BY <1>1, <1>3, <2>3 DEF KSend, SendMsg
  <2> QED BY <2>1, <2>2, <2>3
<1>4. ASSUME NEW c \in Cpus, HAdd(c) PROVE BufferIsFifo'
  <2>1. /\ msg_buf' = Append(msg_buf, hmsg[c]) /\ UNCHANGED taken
        /\ appended' = Append(appended, hmsg[c])
    BY <1>4 DEF HAdd
  <2>2. /\ hmsg[c] \in Msgs
        /\ msg_buf \in Seq(Msgs) /\ taken \in Seq(Msgs)
    BY <1>4 DEF HAdd, TypeOK
  <2>3. taken \o Append(msg_buf, hmsg[c]) = Append(taken \o msg_buf, hmsg[c])
    BY <2>2
  <2> QED BY <2>1, <2>3 DEF BufferIsFifo
<1>5. ASSUME NEW c \in Cpus, HSpill(c) PROVE BufferIsFifo'
  <2>1. CASE msg_buf = <<>>
    BY <1>1, <1>5, <2>1 DEF HSpill
  <2>2. CASE msg_buf # <<>>
    BY <1>2, <1>5, <2>2 DEF HSpill
  <2> QED BY <2>1, <2>2
<1> QED BY <1>1, <1>3, <1>4, <1>5, ListSteps

-----------------------------------------------------------------------------
(* The inductive invariant, and the properties it implies.                 *)

\* The module is loaded with an empty list and its locks free.
LEMMA InitInd == Init => IndInv
<1> SUFFICES ASSUME Init PROVE IndInv
  OBVIOUS
<1> USE ConstantsAssumption DEF Init
<1>1. TypeOK
  <2>1. /\ hpc \in [Cpus -> HandlerSteps]
        /\ hmsg \in [Cpus -> Msgs \cup {"none"}]
        /\ \A c \in Cpus : hpc[c] \notin {"lock_buf", "add"}
    BY DEF HandlerSteps
  <2>2. stopping \in BOOLEAN  /\ file_on \in BOOLEAN
    OBVIOUS
  <2>3. msg_buf \in Seq(Msgs) /\ 0 \in 0 .. UINT_MAX
    OBVIOUS
  <2> QED BY <2>1, <2>2, <2>3 DEF TypeOK, SenderSteps, RcvSteps
<1>2. LockOwners /\ SpillInv /\ WakeInv
  BY DEF LockOwners, BufCritical, SpillInv, WakeInv
<1>3. BufferIsFifo
  BY DEF BufferIsFifo
<1> QED BY <1>1, <1>2, <1>3 DEF IndInv

\* Every reachable state satisfies the inductive invariant.
THEOREM Invariance == Spec => []IndInv
<1>1. IndInv /\ [Next]_vars => IndInv'
  BY TypeStep, LockStep, SpillStep, FifoStep, WakeStep DEF IndInv
<1> QED BY InitInd, <1>1, PTL DEF Spec

\* Every variable keeps to its type: the counter stays an unsigned int, and
\* only messages enter the list and the socket.
THEOREM TypeCorrect == Spec => []TypeOK
<1>1. IndInv => TypeOK
  BY DEF IndInv
<1> QED BY Invariance, <1>1, PTL

\* The critical sections of sl_buf and sl_file exclude each other.
THEOREM LocksExclude == Spec => []LockOwners
<1>1. IndInv => LockOwners
  BY DEF IndInv
<1> QED BY Invariance, <1>1, PTL

\* add_vfs_changed keeps the list within MAX_MSG_BUF_LEN, and its counter
\* exact, for any number of CPUs that fire at once, and never follows the null
\* pointer of an empty list.
THEOREM WithinLimit == Spec => []BufferWithinLimit
<1>1. IndInv => BufferWithinLimit
  <2> SUFFICES ASSUME IndInv PROVE BufferWithinLimit
    OBVIOUS
  <2>1. ASSUME NEW c \in Cpus, hpc[c] = "spill" PROVE msg_buf # <<>>
    BY <2>1, ConstantsAssumption DEF IndInv, SpillInv
  <2> QED BY <2>1 DEF IndInv, SpillInv, BufferWithinLimit
<1> QED BY Invariance, <1>1, PTL

\* No message is lost from, repeated by or reordered in the list.
THEOREM Fifo == Spec => []BufferIsFifo
<1>1. IndInv => BufferIsFifo
  BY DEF IndInv
<1> QED BY Invariance, <1>1, PTL

\* send_func drops sl_msg between its test of msg_ready and its sleep, and still
\* never sleeps through an ACK.
THEOREM NoAckSleptThrough == Spec => []NoMissedWake
<1>1. IndInv => NoMissedWake
  BY DEF IndInv, WakeInv, NoMissedWake
<1> QED BY Invariance, <1>1, PTL

-----------------------------------------------------------------------------
(* What the lock order does, as long as nothing overflows.                 *)

\* No handler is on its way to the file or back, nothing is in it, and a thread
\* that has died has done so in send_msg.
QuietInv ==
  /\ ~file_on
  /\ kpc = "oops" => sl_buf = "send_func"
  /\ \A c \in Cpus : hpc[c] \in {"idle", "lock_buf", "add", "unlock_buf"}

\* A step that does not leave more in the list than its limit keeps it so.
LEMMA QuietStep ==
  /\ IndInv /\ QuietInv /\ Len(msg_buf') <= MAX_MSG_BUF_LEN
  /\ [Next]_vars
  => QuietInv'
<1> SUFFICES ASSUME IndInv, QuietInv, Len(msg_buf') <= MAX_MSG_BUF_LEN,
                    [Next]_vars
             PROVE  QuietInv'
  OBVIOUS
<1>t. hpc \in [Cpus -> HandlerSteps] /\ kpc \in SenderSteps
  BY DEF IndInv, TypeOK
<1>1. ASSUME NEW c \in Cpus, Handler(c) PROVE QuietInv'
  <2>f. /\ UNCHANGED kpc /\ (hpc[c] # "set_file_on" => UNCHANGED file_on)
        /\ sl_buf = "send_func" => sl_buf' = "send_func"
    <3>1. UNCHANGED kpc /\ (hpc[c] # "set_file_on" => UNCHANGED file_on)
      BY <1>1 DEF Handler, HFire, HLockBuf, HAdd, HSpill, HWrite, HWritten,
                  HLockFile, HSetFileOn, HUnlockBuf, fileVars, senderVars
    <3>2. HUnlockBuf(c) => sl_buf # "send_func"
      BY ConstantsAssumption DEF HUnlockBuf, IndInv, LockOwners, BufCritical
    <3>3. HLockBuf(c) => sl_buf # "send_func"
      BY DEF HLockBuf
    <3>4. ~HUnlockBuf(c) /\ ~HLockBuf(c) => UNCHANGED sl_buf
      BY <1>1 DEF Handler, HFire, HAdd, HSpill, HWrite, HWritten, HLockFile,
                  HSetFileOn, lockVars
    <3> QED BY <3>1, <3>2, <3>3, <3>4
  <2>1. ASSUME NEW m \in Msgs, HFire(c, m) PROVE QuietInv'
    BY <2>1, <2>f, <1>t DEF QuietInv, HFire
  <2>2. CASE HLockBuf(c)
    BY <2>2, <2>f, <1>t DEF QuietInv, HLockBuf
  <2>3. CASE HAdd(c)
    <3>1. msg_buf \in Seq(Msgs) /\ hmsg[c] \in Msgs /\ msg_buf_size = Len(msg_buf)
      BY <2>3 DEF HAdd, IndInv, TypeOK, SpillInv
    <3>2. Len(msg_buf') = Len(msg_buf) + 1 /\ Len(msg_buf) \in Nat
      BY <2>3, <3>1 DEF HAdd
    <3>3. ~(Inc(msg_buf_size) > MAX_MSG_BUF_LEN)
      BY <3>1, <3>2, ConstantsAssumption DEF Inc
    <3>4. hpc' = [hpc EXCEPT ![c] = "unlock_buf"]
      BY <2>3, <3>3 DEF HAdd
    <3> QED BY <2>3, <2>f, <3>4, <1>t DEF QuietInv, HAdd
  <2>4. CASE HUnlockBuf(c)
    BY <2>4, <2>f, <1>t DEF QuietInv, HUnlockBuf
  <2>5. ~(HSpill(c) \/ HWrite(c) \/ HWritten(c) \/ HLockFile(c) \/ HSetFileOn(c))
    BY DEF QuietInv, HSpill, HWrite, HWritten, HLockFile, HSetFileOn
  <2> QED BY <1>1, <2>1, <2>2, <2>3, <2>4, <2>5 DEF Handler
<1>2. CASE RcvMsg
  <2>1. UNCHANGED <<hpc, file_on, sl_buf>> /\ (UNCHANGED kpc \/ WakeUp)
    BY <1>2 DEF RcvMsg, RcvCall, RcvLock, RcvStore, RcvUnlock, RcvWake,
                handlerVars, fileVars, senderVars, lockVars
  <2> QED BY <2>1 DEF QuietInv, WakeUp
<1>3. CASE SendFunc
  <2>1. UNCHANGED hpc /\ kpc # "oops"
    BY <1>3 DEF SendFunc, KStart, KSetState, KShouldStop, KLockMsg, KTest,
                KSched, KTimeout, KUnlockMsg, KLockFile, KFile, KLockBuf,
                KSend, handlerVars
  <2>2. CASE KFile
    BY <2>1, <2>2 DEF QuietInv, KFile, fileVars
  <2>3. CASE KSend
    <3>1. UNCHANGED file_on
      BY <2>3 DEF KSend, fileVars
    <3>2. kpc' = "oops" => sl_buf' = "send_func"
      BY <2>3 DEF KSend, SendMsgDies, IndInv, LockOwners
    <3> QED BY <2>1, <3>1, <3>2 DEF QuietInv
  <2>4. CASE ~KFile /\ ~KSend
    <3>1. UNCHANGED file_on /\ kpc' # "oops"
      BY <1>3, <2>4 DEF SendFunc, KStart, KSetState, KShouldStop, KLockMsg,
                KTest, KSched, KTimeout, KUnlockMsg, KLockFile, KLockBuf,
                fileVars
    <3> QED BY <2>1, <3>1 DEF QuietInv
  <2> QED BY <2>2, <2>3, <2>4
<1>4. CASE KthreadStop
  BY <1>4 DEF QuietInv, KthreadStop, WakeUp, handlerVars, fileVars, lockVars
<1>5. CASE UNCHANGED vars
  BY <1>5 DEF QuietInv, vars, fileVars, handlerVars, senderVars, lockVars
<1> QED BY <1>1, <1>2, <1>3, <1>4, <1>5 DEF Next

\* The crossed locks of add_vfs_changed and send_func, the death in
\* send_file_on and that of a handler need an overflow: below the limit only
\* send_msg can kill the thread.
THEOREM QuietIsFree == Spec => OnlyOverflowSticks
<1>1. Init => QuietInv
  BY DEF Init, QuietInv
<1>2. (Len(msg_buf) <= MAX_MSG_BUF_LEN)'
        => Len(msg_buf') <= MAX_MSG_BUF_LEN
  OBVIOUS
<1>3. /\ IndInv /\ QuietInv /\ (Len(msg_buf) <= MAX_MSG_BUF_LEN)'
      /\ [Next]_vars
      => QuietInv'
  BY <1>2, QuietStep
<1>4. QuietInv => (Sticks => kpc = "oops" /\ sl_buf = "send_func")
  BY DEF QuietInv, Sticks, Dead, Crossed
<1> QED BY Invariance, <1>1, <1>3, <1>4, PTL DEF Spec, OnlyOverflowSticks

-----------------------------------------------------------------------------
(* The refinement.                                                         *)

\* An unloaded buffer is KernelBuffer's initial one.
LEMMA InitRefines == Init => Buffer!InitBuffer
BY DEF Init, Buffer!InitBuffer

\* Each step is a KernelBuffer operation or leaves list and socket alone.
LEMMA StepRefines ==
  IndInv /\ [Next]_vars => [Buffer!NextBuffer]_(Buffer!bufferVars)
<1> SUFFICES ASSUME IndInv, [Next]_vars
             PROVE  [Buffer!NextBuffer]_(Buffer!bufferVars)
  OBVIOUS
<1> USE DEF Buffer!NextBuffer, Buffer!bufferVars
<1>1. CASE UNCHANGED bufVars
  BY <1>1 DEF bufVars, listVars
<1>2. (\A c \in Cpus : hpc[c] # "spill") => Buffer!WithinLimit
  <2>1. Len(msg_buf) \in Nat /\ MAX_MSG_BUF_LEN \in Nat
    BY ConstantsAssumption DEF IndInv, TypeOK
  <2>2. Len(msg_buf) > MAX_MSG_BUF_LEN => \E c \in Cpus : hpc[c] = "spill"
    BY DEF IndInv, SpillInv
  <2> QED BY <2>1, <2>2 DEF Buffer!WithinLimit
<1>3. CASE KSend
  <2>1. \A c \in Cpus : hpc[c] # "spill"
    BY <1>3, ConstantsAssumption DEF KSend, IndInv, LockOwners, BufCritical
  <2>0. CASE SendMsgDies
    BY <1>1, <2>0 DEF SendMsgDies
  <2>2. CASE msg_buf_size > 0 /\ msg_buf # <<>> /\ ~SendMsgDies
    <3>1. /\ msg_buf' = Tail(msg_buf)
          /\ \/ delivered' = Append(delivered, Head(msg_buf))
             \/ delivered' = delivered
      BY <1>3, <2>2 DEF KSend, SendMsg, Take
    <3> QED BY <1>2, <2>1, <2>2, <3>1 DEF Buffer!Deliver, Buffer!Lose
  <2>3. CASE ~(msg_buf_size > 0 /\ msg_buf # <<>>) /\ ~SendMsgDies
    BY <1>1, <1>3, <2>3 DEF KSend, SendMsg
  <2> QED BY <2>0, <2>2, <2>3
<1>4. ASSUME NEW c \in Cpus, HAdd(c) PROVE Buffer!NextBuffer
  <2>1. hpc[c] = "add" /\ hmsg[c] \in Msgs
    BY <1>4 DEF HAdd, IndInv, TypeOK
  <2>2. \A d \in Cpus : hpc[d] # "spill"
    BY <2>1, ConstantsAssumption DEF IndInv, LockOwners, BufCritical
  <2>3. msg_buf' = Append(msg_buf, hmsg[c]) /\ delivered' = delivered
    BY <1>4 DEF HAdd
  <2> QED BY <1>2, <2>1, <2>2, <2>3 DEF Buffer!Record
<1>5. ASSUME NEW c \in Cpus, HSpill(c)
      PROVE  [Buffer!NextBuffer]_(Buffer!bufferVars)
  <2>1. CASE msg_buf = <<>>
    BY <1>1, <1>5, <2>1 DEF HSpill
  <2>2. CASE msg_buf # <<>>
    <3>1. Len(msg_buf) = MAX_MSG_BUF_LEN + 1
      BY <1>5 DEF HSpill, IndInv, SpillInv
    <3>2. msg_buf' = Tail(msg_buf) /\ delivered' = delivered
      BY <1>5, <2>2 DEF HSpill, Take
    <3> QED BY <3>1, <3>2, ConstantsAssumption
            DEF Buffer!Spill, Buffer!WithinLimit
  <2> QED BY <2>1, <2>2
<1> QED BY <1>1, <1>3, <1>4, <1>5, ListSteps

\* The kernel module's list and socket, under every interleaving of its
\* handlers, its thread and rcv_msg, behave as KernelBuffer.
THEOREM Refinement == Spec => ImplementsBuffer
BY InitRefines, StepRefines, Invariance, PTL
   DEF Spec, ImplementsBuffer, Buffer!SpecBuffer
=============================================================================
