\* Two CPUs and a list of one: every third message can overflow into the file
\* while send_func and rcv_msg run. The code really can stop here (lock order,
\* a dead send_func), so deadlock is not an error of the run.
SPECIFICATION Spec
CONSTANTS
  Cpus = {c1, c2}
  Msgs = {m1, m2, m3}
  Texts = {"ACK"}
  MAX_MSG_BUF_LEN = 1
  UINT_MAX = 7
  MaxReady = 2
INVARIANTS
  TypeOK
  LockOwners
  BufferWithinLimit
  BufferIsFifo
  NoMissedWake
PROPERTIES
  ImplementsBuffer
  OnlyOverflowSticks
CHECK_DEADLOCK FALSE
