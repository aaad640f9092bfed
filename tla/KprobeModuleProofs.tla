------------------------- MODULE KprobeModuleProofs -------------------------
(***************************************************************************)
(* Proofs about KprobeModule: the safety of loading and unloading, for any *)
(* number of CPUs, any events and any datagrams.                           *)
(***************************************************************************)
EXTENDS KprobeModule, VfsKprobeProofs

\* When datagrams can come, and which pointers are set, at each step of
\* kprobe_init and kprobe_exit.
LoadInv ==
  /\ xpc \in {"mounts", "again", "open", "netlink"} => nlsk = "null"
  /\ nlsk # "ok" => rpc = "idle"
  /\ xpc \in {"check", "plant", "planting", "unplant", "loaded", "stop", "join"}
       => send_kthread \in {"err", "ok"}
  /\ DatagramFindsThread

\* The counter, an unsigned int that may have wrapped, falls behind the list by
\* one for each round of the drain.
CountInv ==
  \E k \in Int :
    msg_buf_size + drained = Len(msg_buf) + k * (UINT_MAX + 1)

ModuleInv == TypeOKModule /\ LoadInv /\ CountInv /\ DrainLeavesAsMany

-----------------------------------------------------------------------------
\* No step of insmod, rmmod and what runs beside them leaves the types.
LEMMA ModuleTypeStep == TypeOKModule /\ [NextModule]_moduleVars => TypeOKModule'
<1> SUFFICES ASSUME TypeOKModule, [NextModule]_moduleVars
             PROVE  TypeOKModule'
  OBVIOUS
<1>1. TypeOK
  BY DEF TypeOKModule
<1> DEFINE LoadTypes ==
      /\ xpc \in InitPcs \cup {"loaded"} \cup ExitPcs \cup Freed
      /\ fp \in {"null", "err", "ok"} /\ nlsk \in {"null", "ok"}
      /\ send_kthread \in {"null", "err", "ok"}
      /\ planted \in BOOLEAN /\ drained \in Nat
      /\ fault \in {"none", "read", "wake", "stop", "drain", "copy"}
<1>2. TypeOKModule' <=> TypeOK' /\ LoadTypes'
  BY DEF TypeOKModule
<1>3. LoadTypes
  BY DEF TypeOKModule
<1>4. ASSUME UNCHANGED vars PROVE TypeOK'
  BY <1>1, <1>4, TypeStep
<1>5. CASE UNCHANGED moduleVars
  BY <1>2, <1>3, <1>4, <1>5 DEF moduleVars, loadVars
<1>6. CASE InitSteps
  <2>1. UNCHANGED vars
    BY <1>6 DEF InitSteps, IRead, IReadAgain, IOpen, INetlink, IThread, ICheckSocket, IPlant,
                IPlanted, IUnplanted
  <2>2. LoadTypes'
    BY <1>3, <1>6 DEF InitSteps, IRead, IReadAgain, IOpen, INetlink, IThread, ICheckSocket, IPlant,
                      IPlanted, IUnplanted, InitPcs, Freed, loadVars
  <2> QED BY <1>2, <1>4, <2>1, <2>2
<1>7. CASE ExitSteps
  <2>1. LoadTypes'
    BY <1>3, <1>7 DEF ExitSteps, XUnregister, XStop, XJoin, XDrain, XWrite, XDec,
                      ExitPcs, Freed, loadVars
  <2>2. ASSUME XUnregister \/ XJoin PROVE TypeOK'
    BY <1>4, <2>2 DEF XUnregister, XJoin
  <2>3. ASSUME XStop PROVE TypeOK'
    <3>1. CASE KthreadStop
      BY <1>1, <3>1, TypeStep DEF Next
    <3>2. CASE UNCHANGED vars
      BY <1>4, <3>2
    <3> QED BY <2>3, <3>1, <3>2 DEF XStop
  <2>4. ASSUME XDrain PROVE TypeOK'
    <3>1. CASE UNCHANGED listVars
      <4>1. UNCHANGED vars
        BY <2>4, <3>1 DEF XDrain, vars, bufVars
      <4> QED BY <1>4, <4>1
    <3>2. CASE msg_buf # <<>> /\ Take
      <4>1. /\ msg_buf' \in Seq(Msgs) /\ taken' \in Seq(Msgs)
            /\ appended' \in Seq(Msgs) /\ msg_buf_size' \in 0 .. UINT_MAX
        BY <1>1, <3>2, TakeFirst
      <4> QED BY <1>1, <2>4, <4>1
              DEF XDrain, TypeOK, lockVars, fileVars, handlerVars, senderVars,
                  rcvVars
    <3> QED BY <2>4, <3>1, <3>2 DEF XDrain
  <2>5. ASSUME XWrite PROVE TypeOK'
    BY <1>1, <2>5 DEF XWrite, TypeOK, lockVars, bufVars, listVars, handlerVars,
                      senderVars, rcvVars
  <2>6. ASSUME XDec PROVE TypeOK'
    <3>1. msg_buf_size' \in 0 .. UINT_MAX
      BY <1>1, <2>6, DecRange DEF XDec, TypeOK
    <3> QED BY <1>1, <2>6, <3>1
            DEF XDec, TypeOK, lockVars, fileVars, handlerVars, senderVars, rcvVars
  <2> QED BY <1>2, <1>7, <2>1, <2>2, <2>3, <2>4, <2>5, <2>6 DEF ExitSteps
<1>8. CASE WakeFaults
  BY <1>2, <1>3, <1>4, <1>8 DEF WakeFaults, loadVars
<1>9. CASE Beside
  <2>1. Next /\ LoadTypes'
    BY <1>3, <1>9 DEF Beside, Kept, Next, loadVars
  <2> QED BY <1>1, <1>2, <2>1, TypeStep
<1> QED BY <1>5, <1>6, <1>7, <1>8, <1>9 DEF NextModule

-----------------------------------------------------------------------------
\* What runs beside insmod and rmmod: no datagram comes without the socket, and
\* the thread, once it has died, does not come back.
LEMMA BesideSteps ==
  ASSUME Beside
  PROVE  /\ nlsk # "ok" /\ rpc = "idle" => rpc' = "idle"
         /\ kpc = "oops" => kpc' = "oops"
<1>1. ASSUME NEW c \in Cpus, Handler(c) PROVE UNCHANGED <<rpc, kpc>>
  BY <1>1 DEF Handler, HFire, HLockBuf, HAdd, HSpill, HWrite, HWritten,
              HLockFile, HSetFileOn, HUnlockBuf, rcvVars, senderVars
<1>2. CASE RcvMsg /\ (rpc = "idle" => nlsk = "ok")
  <2>1. kpc = "oops" => kpc' = "oops"
    BY <1>2 DEF RcvMsg, RcvCall, RcvLock, RcvStore, RcvUnlock, RcvWake, WakeUp,
                senderVars
  <2> QED BY <1>2, <2>1
<1>3. CASE SendFunc
  <2>1. UNCHANGED rpc
    BY <1>3 DEF SendFunc, KStart, KSetState, KShouldStop, KLockMsg, KTest, KSched,
                KTimeout, KUnlockMsg, KLockFile, KFile, KLockBuf, KSend, rcvVars
  <2>2. kpc # "oops"
    BY <1>3 DEF SendFunc, KStart, KSetState, KShouldStop, KLockMsg, KTest, KSched,
                KTimeout, KUnlockMsg, KLockFile, KFile, KLockBuf, KSend
  <2> QED BY <2>1, <2>2
<1> QED BY <1>1, <1>2, <1>3 DEF Beside

\* Each step keeps LoadInv.
LEMMA LoadStep == ModuleInv /\ [NextModule]_moduleVars => LoadInv'
<1> SUFFICES ASSUME ModuleInv, [NextModule]_moduleVars PROVE LoadInv'
  OBVIOUS
<1> USE DEF LoadInv, DatagramFindsThread
<1>1. LoadInv /\ TypeOK
  BY DEF ModuleInv, TypeOKModule
<1>2. CASE UNCHANGED moduleVars
  BY <1>1, <1>2 DEF moduleVars, loadVars, vars, senderVars, rcvVars
<1>3. CASE Running /\ InitSteps
  <2>1. UNCHANGED <<kpc, rpc>> /\ fault = "none" /\ fault' # "wake"
    BY <1>3 DEF Running, InitSteps, IRead, IReadAgain, IOpen, INetlink, IThread,
                ICheckSocket, IPlant, IPlanted, IUnplanted, vars, senderVars, rcvVars
  <2>2. CASE IRead \/ IReadAgain \/ IOpen \/ INetlink \/ IThread \/ ICheckSocket
    BY <1>1, <2>1, <2>2 DEF IRead, IReadAgain, IOpen, INetlink, IThread,
                            ICheckSocket, loadVars
  <2>3. CASE IPlant \/ IPlanted \/ IUnplanted
    BY <1>1, <2>1, <2>3 DEF IPlant, IPlanted, IUnplanted, loadVars
  <2> QED BY <1>3, <2>2, <2>3 DEF InitSteps
<1>4. CASE Running /\ ExitSteps
  <2>1. UNCHANGED <<rpc, loadVars>> /\ fault' # "wake"
    BY <1>4 DEF Running, ExitSteps, XUnregister, XStop, XJoin, XDrain, XWrite, XDec,
                KthreadStop, vars, rcvVars
  <2>2. /\ xpc \in {"loaded"} \cup ExitPcs
        /\ xpc' \in {"loaded", "stop", "join", "drain", "write", "dec", "gone"}
        /\ xpc' \in {"loaded", "stop", "join"} => xpc \in {"loaded", "stop", "join"}
    BY <1>4 DEF ExitSteps, XUnregister, XStop, XJoin, XDrain, XWrite, XDec, ExitPcs
  <2> QED BY <1>1, <2>1, <2>2 DEF ExitPcs, loadVars
<1>5. CASE Running /\ WakeFaults
  BY <1>1, <1>5 DEF Running, WakeFaults, Dangling, loadVars, vars, senderVars,
                    rcvVars, ModuleInv, TypeOKModule, InitPcs, ExitPcs, Freed
<1>6. CASE Running /\ Beside
  <2>1. UNCHANGED <<xpc, loadVars, fault>> /\ fault = "none"
    BY <1>6 DEF Running, Beside, Kept
  <2> QED BY <1>1, <1>6, <2>1, BesideSteps DEF loadVars
<1> QED BY <1>2, <1>3, <1>4, <1>5, <1>6 DEF NextModule

-----------------------------------------------------------------------------
(* What the drain counts.                                                  *)

\* Two sums that differ by a known amount, each of them off by a known amount.
LEMMA SumMoves ==
  ASSUME NEW a \in Int, NEW b \in Int, NEW p \in Int, NEW q \in Int,
         NEW c \in Int, NEW d \in Int,
         a = b + p, c - a = (d - b) + q
  PROVE  c = d + (p + q)
OBVIOUS

\* CountInv over one step, with the numbers only: the count of both together
\* moves as the list's length does, modulo the width of the counter.
LEMMA CountMoves ==
  ASSUME CountInv, TypeOK, drained \in Nat,
         Len(msg_buf') \in Nat, msg_buf_size' \in Nat, drained' \in Nat,
         NEW j \in Int,
         (msg_buf_size' + drained') - (msg_buf_size + drained)
           = (Len(msg_buf') - Len(msg_buf)) + j * (UINT_MAX + 1)
  PROVE  CountInv'
<1>1. PICK k \in Int :
        msg_buf_size + drained = Len(msg_buf) + k * (UINT_MAX + 1)
  BY DEF CountInv
<1>2. (k + j) * (UINT_MAX + 1) = k * (UINT_MAX + 1) + j * (UINT_MAX + 1)
  BY ConstantsAssumption
<1>3. /\ k * (UINT_MAX + 1) \in Int /\ j * (UINT_MAX + 1) \in Int
      /\ Len(msg_buf) \in Nat /\ msg_buf_size \in Nat
  BY ConstantsAssumption DEF TypeOK
<1>4. msg_buf_size' + drained' = Len(msg_buf') + (k + j) * (UINT_MAX + 1)
  <2> DEFINE p == k * (UINT_MAX + 1)
             q == j * (UINT_MAX + 1)
  <2>1. msg_buf_size + drained = Len(msg_buf) + p
    BY <1>1
  <2>q. p \in Int /\ q \in Int
    BY <1>3
  <2>2. (msg_buf_size' + drained') - (msg_buf_size + drained)
          = (Len(msg_buf') - Len(msg_buf)) + q
    OBVIOUS
  <2>3. (k + j) * (UINT_MAX + 1) = p + q
    BY <1>2
  <2> HIDE DEF p, q
  <2>4. msg_buf_size' + drained' = Len(msg_buf') + (p + q)
    <3>1. /\ msg_buf_size + drained \in Int /\ msg_buf_size' + drained' \in Int
          /\ Len(msg_buf) \in Int /\ Len(msg_buf') \in Int
          /\ p \in Int /\ q \in Int
      BY <1>3, <2>1, <2>q
    <3> QED BY ONLY <2>1, <2>2, <3>1, SumMoves
  <2> QED BY <2>3, <2>4
<1>5. UINT_MAX' = UINT_MAX
  OBVIOUS
<1> QED BY <1>4, <1>5 DEF CountInv

\* Taking the first message moves list and counter alike, modulo its width.
LEMMA CountTaken ==
  ASSUME TypeOK, CountInv, drained \in Nat, Take, msg_buf # <<>>,
         drained' = drained
  PROVE  CountInv'
<1>1. /\ Len(msg_buf') = Len(msg_buf) - 1 /\ Len(msg_buf) \in Nat
      /\ msg_buf_size \in 0 .. UINT_MAX /\ msg_buf # <<>>
      /\ msg_buf \in Seq(Msgs) /\ msg_buf' \in Seq(Msgs)
  BY TakeFirst DEF TypeOK
<1>2. \/ msg_buf_size' = msg_buf_size - 1 /\ msg_buf_size > 0
      \/ msg_buf_size' = UINT_MAX /\ msg_buf_size = 0
  BY <1>1 DEF Take, Dec
<1>3. Len(msg_buf') \in Nat /\ msg_buf_size' \in Nat
  BY <1>1, <1>2, ConstantsAssumption
<1>4. CASE msg_buf_size' = msg_buf_size - 1
  <2>1. (msg_buf_size' + drained') - (msg_buf_size + drained)
          = (Len(msg_buf') - Len(msg_buf)) + 0 * (UINT_MAX + 1)
    BY <1>1, <1>4, ConstantsAssumption
  <2> QED BY <1>3, <2>1, CountMoves
<1>5. CASE msg_buf_size' = UINT_MAX /\ msg_buf_size = 0
  <2>1. (msg_buf_size' + drained') - (msg_buf_size + drained)
          = (Len(msg_buf') - Len(msg_buf)) + 1 * (UINT_MAX + 1)
    BY <1>1, <1>5, ConstantsAssumption
  <2> QED BY <1>3, <2>1, CountMoves
<1> QED BY <1>2, <1>4, <1>5

\* A handler's message moves list and counter alike, modulo its width.
LEMMA CountAdded ==
  ASSUME TypeOK, CountInv, drained \in Nat, NEW c \in Cpus, HAdd(c),
         drained' = drained
  PROVE  CountInv'
<1>1. /\ Len(msg_buf') = Len(msg_buf) + 1 /\ Len(msg_buf) \in Nat
      /\ msg_buf_size \in 0 .. UINT_MAX
  BY DEF HAdd, TypeOK
<1>2. \/ msg_buf_size' = msg_buf_size + 1
      \/ msg_buf_size' = 0 /\ msg_buf_size = UINT_MAX
  BY DEF HAdd, Inc
<1>3. Len(msg_buf') \in Nat /\ msg_buf_size' \in Nat
  BY <1>1, <1>2
<1>4. CASE msg_buf_size' = msg_buf_size + 1
  <2>1. (msg_buf_size' + drained') - (msg_buf_size + drained)
          = (Len(msg_buf') - Len(msg_buf)) + 0 * (UINT_MAX + 1)
    BY <1>1, <1>4, ConstantsAssumption
  <2> QED BY <1>3, <2>1, CountMoves
<1>5. CASE msg_buf_size' = 0 /\ msg_buf_size = UINT_MAX
  <2>1. (msg_buf_size' + drained') - (msg_buf_size + drained)
          = (Len(msg_buf') - Len(msg_buf)) + (-1) * (UINT_MAX + 1)
    BY <1>1, <1>5, ConstantsAssumption
  <2> QED BY <1>3, <2>1, CountMoves
<1> QED BY <1>2, <1>4, <1>5

\* A round of the drain counts one off that has left the list before.
LEMMA CountDrained ==
  ASSUME TypeOK, CountInv, drained \in Nat, XDec
  PROVE  CountInv'
<1>1. /\ msg_buf' = msg_buf /\ drained' = drained + 1
      /\ msg_buf_size \in 0 .. UINT_MAX /\ Len(msg_buf) \in Nat
  BY DEF XDec, TypeOK
<1>2. \/ msg_buf_size' = msg_buf_size - 1 /\ msg_buf_size > 0
      \/ msg_buf_size' = UINT_MAX /\ msg_buf_size = 0
  BY <1>1 DEF XDec, Dec
<1>3. Len(msg_buf') \in Nat /\ msg_buf_size' \in Nat /\ drained' \in Nat
  BY <1>1, <1>2, ConstantsAssumption
<1>4. CASE msg_buf_size' = msg_buf_size - 1
  <2>1. (msg_buf_size' + drained') - (msg_buf_size + drained)
          = (Len(msg_buf') - Len(msg_buf)) + 0 * (UINT_MAX + 1)
    BY <1>1, <1>4, ConstantsAssumption
  <2> QED BY <1>3, <2>1, CountMoves
<1>5. CASE msg_buf_size' = UINT_MAX /\ msg_buf_size = 0
  <2>1. (msg_buf_size' + drained') - (msg_buf_size + drained)
          = (Len(msg_buf') - Len(msg_buf)) + 1 * (UINT_MAX + 1)
    BY <1>1, <1>5, ConstantsAssumption
  <2> QED BY <1>3, <2>1, CountMoves
<1> QED BY <1>2, <1>4, <1>5

\* Each step keeps CountInv.
LEMMA CountStep == ModuleInv /\ [NextModule]_moduleVars => CountInv'
<1> SUFFICES ASSUME ModuleInv, [NextModule]_moduleVars PROVE CountInv'
  OBVIOUS
<1>1. CountInv /\ TypeOK /\ drained \in Nat
  BY DEF ModuleInv, TypeOKModule
<1>2. ASSUME UNCHANGED <<msg_buf, msg_buf_size, drained>> PROVE CountInv'
  BY <1>1, <1>2 DEF CountInv
<1>3. CASE UNCHANGED moduleVars
  BY <1>2, <1>3 DEF moduleVars, vars, bufVars, listVars
<1>4. CASE InitSteps
  BY <1>2, <1>4 DEF InitSteps, IRead, IReadAgain, IOpen, INetlink, IThread,
                    ICheckSocket, IPlant, IPlanted, IUnplanted, vars, bufVars,
                    listVars
<1>5. CASE ExitSteps
  <2>1. CASE XDec
    BY <1>1, <2>1, CountDrained
  <2>2. CASE XDrain
    <3>1. drained' = drained
      BY <2>2 DEF XDrain
    <3>2. CASE msg_buf # <<>> /\ Take
      BY <1>1, <3>1, <3>2, CountTaken
    <3>3. CASE UNCHANGED listVars
      BY <1>2, <3>1, <3>3 DEF listVars
    <3> QED BY <2>2, <3>2, <3>3 DEF XDrain
  <2>3. CASE XUnregister \/ XStop \/ XJoin \/ XWrite
    BY <1>2, <2>3 DEF XUnregister, XStop, XJoin, XWrite, KthreadStop, vars,
                      bufVars, listVars
  <2> QED BY <1>5, <2>1, <2>2, <2>3 DEF ExitSteps
<1>6. CASE WakeFaults
  BY <1>2, <1>6 DEF WakeFaults, vars, bufVars, listVars
<1>7. CASE Beside
  <2>1. drained' = drained /\ Next
    BY <1>7 DEF Beside, Kept, Next
  <2>2. CASE UNCHANGED bufVars
    BY <1>2, <2>1, <2>2 DEF bufVars, listVars
  <2>3. ASSUME NEW c \in Cpus, HAdd(c) PROVE CountInv'
    BY <1>1, <2>1, <2>3, CountAdded
  <2>4. ASSUME NEW c \in Cpus, HSpill(c) PROVE CountInv'
    BY <1>1, <2>1, <2>2, <2>4, CountTaken DEF HSpill
  <2>5. CASE KSend
    BY <1>1, <2>1, <2>2, <2>5, CountTaken DEF KSend, SendMsgDies
  <2> QED BY <2>1, <2>2, <2>3, <2>4, <2>5, ListSteps
<1> QED BY <1>3, <1>4, <1>5, <1>6, <1>7 DEF NextModule

\* A number below the width that is a multiple of the width is 0.
LEMMA NoMultiple ==
  ASSUME NEW w \in Nat, NEW k \in Int, -w < k * w, k * w < w
  PROVE  k * w = 0
<1>1. CASE k >= 1
  <2>1. k * w >= w
    BY <1>1
  <2> QED BY <2>1
<1>2. CASE k <= -1
  <2>1. k * w <= -w
    BY <1>2
  <2> QED BY <2>1
<1>3. CASE k = 0
  BY <1>3
<1> QED BY <1>1, <1>2, <1>3

\* Each step keeps DrainLeavesAsMany: it is decided when the drain looks at the
\* counter, and nothing runs after it.
LEMMA DrainStep == ModuleInv /\ [NextModule]_moduleVars => DrainLeavesAsMany'
<1> SUFFICES ASSUME ModuleInv, [NextModule]_moduleVars PROVE DrainLeavesAsMany'
  OBVIOUS
<1>1. DrainLeavesAsMany /\ CountInv /\ TypeOK /\ drained \in Nat
  BY DEF ModuleInv, TypeOKModule
<1>2. CASE UNCHANGED moduleVars
  BY <1>1, <1>2 DEF moduleVars, vars, bufVars, listVars, DrainLeavesAsMany
<1>3. CASE Running /\ ~XDrain /\ (InitSteps \/ ExitSteps \/ WakeFaults \/ Beside)
  <2>1. xpc' # "gone"
    BY <1>3 DEF Running, Freed, InitSteps, IRead, IReadAgain, IOpen, INetlink,
                IThread, ICheckSocket, IPlant, IPlanted, IUnplanted, ExitSteps,
                XUnregister, XStop, XJoin, XWrite, XDec, WakeFaults, Beside, Kept
  <2>2. fault' # "drain"
    BY <1>3 DEF Running, InitSteps, IRead, IReadAgain, IOpen, INetlink,
                IThread, ICheckSocket, IPlant, IPlanted, IUnplanted, ExitSteps,
                XUnregister, XStop, XJoin, XWrite, XDec, WakeFaults, Beside, Kept
  <2> QED BY <2>1, <2>2 DEF DrainLeavesAsMany
<1>4. CASE Running /\ XDrain
  <2> DEFINE w == UINT_MAX + 1
  <2>1. PICK k \in Int : msg_buf_size + drained = Len(msg_buf) + k * w
    BY <1>1 DEF CountInv
  <2>2. /\ msg_buf_size \in 0 .. UINT_MAX /\ Len(msg_buf) \in Nat
        /\ w \in Nat /\ w = UINT_MAX + 1 /\ k * w \in Int
    BY <1>1, ConstantsAssumption DEF TypeOK
  <2>3. drained' = drained
    BY <1>4 DEF XDrain
  <2> HIDE DEF w
  <2>4. CASE msg_buf_size = 0 /\ UNCHANGED <<listVars, fault>>
    <3>1. ASSUME drained <= UINT_MAX, Len(msg_buf) <= UINT_MAX
          PROVE  Len(msg_buf) = drained
      <4>1. -w < k * w /\ k * w < w
        BY <1>1, <2>1, <2>2, <2>4, <3>1, ConstantsAssumption
      <4>2. k * w = 0
        BY <2>2, <4>1, NoMultiple
      <4> QED BY <1>1, <2>1, <2>2, <2>4, <4>2
    <3>2. fault' # "drain"
      BY <1>4, <2>4 DEF Running
    <3> QED BY <2>3, <2>4, <3>1, <3>2 DEF DrainLeavesAsMany, listVars
  <2>5. CASE msg_buf_size # 0 /\ msg_buf = <<>> /\ UNCHANGED xpc
    <3>1. drained # 0
      <4> SUFFICES ASSUME drained = 0 PROVE FALSE
        OBVIOUS
      <4>1. Len(msg_buf) = 0
        BY <2>5
      <4>2. msg_buf_size = k * w
        BY <2>1, <2>2, <4>1
      <4>3. -w < k * w /\ k * w < w
        BY <2>2, <4>2, ConstantsAssumption
      <4>4. k * w = 0
        BY <2>2, <4>3, NoMultiple
      <4> QED BY <2>5, <4>2, <4>4
    <3>2. xpc' # "gone"
      BY <1>4, <2>5 DEF Running, Freed
    <3> QED BY <1>1, <2>3, <3>1, <3>2 DEF DrainLeavesAsMany
  <2>6. CASE msg_buf_size # 0 /\ msg_buf # <<>>
    <3>1. xpc' # "gone" /\ fault' # "drain"
      BY <1>4, <2>6 DEF XDrain, Running, Freed
    <3> QED BY <3>1 DEF DrainLeavesAsMany
  <2> QED BY <1>4, <2>4, <2>5, <2>6 DEF XDrain
<1> QED BY <1>2, <1>3, <1>4 DEF NextModule

\* The inductive invariant of loading and unloading.
THEOREM ModuleInvariance == SpecModule => []ModuleInv
<1>1. InitModule => ModuleInv
  <2> SUFFICES ASSUME InitModule PROVE ModuleInv
    OBVIOUS
  <2>1. TypeOK
    BY InitInd DEF InitModule, IndInv
  <2>2. TypeOKModule /\ LoadInv /\ DrainLeavesAsMany
    BY <2>1 DEF InitModule, Init, TypeOKModule, LoadInv, DatagramFindsThread,
                DrainLeavesAsMany, InitPcs, ExitPcs, Freed
  <2>3. CountInv
    <3>1. msg_buf_size + drained = Len(msg_buf) + 0 * (UINT_MAX + 1)
      BY ConstantsAssumption DEF InitModule, Init
    <3> QED BY <3>1 DEF CountInv
  <2> QED BY <2>2, <2>3 DEF ModuleInv
<1>2. ModuleInv /\ [NextModule]_moduleVars => ModuleInv'
  BY ModuleTypeStep, LoadStep, CountStep, DrainStep DEF ModuleInv
<1> QED BY <1>1, <1>2, PTL DEF SpecModule

\* Every variable of the module keeps to its type, whenever it is loaded or
\* unloaded; the unsigned counter included, over an unlocked drain.
THEOREM ModuleTypes == SpecModule => []TypeOKModule
BY ModuleInvariance, PTL DEF ModuleInv

\* vfs_kprobe.c:549-552: whatever the width of the counter, and however many
\* messages the handlers add meanwhile, rmmod writes as many messages as it
\* leaves behind, and oopses on an empty list only by its own double counting.
THEOREM DrainLosesHalf == SpecModule => []DrainLeavesAsMany
<1>1. ModuleInv => DrainLeavesAsMany
  BY DEF ModuleInv
<1> QED BY <1>1, ModuleInvariance, PTL

\* vfs_kprobe.c:527, 548: a datagram finds send_kthread, but for the window
\* before kprobe_init has assigned it, that after kthread_stop has returned, and
\* a thread that could not be made or has died.
THEOREM DatagramsFindThread == SpecModule => []DatagramFindsThread
<1>1. ModuleInv => DatagramFindsThread
  BY DEF ModuleInv, LoadInv
<1> QED BY <1>1, ModuleInvariance, PTL
=============================================================================
