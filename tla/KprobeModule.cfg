\* Two CPUs, two events and a list of one: the drain meets none, one and two
\* messages and handlers that still fire, and an overflow crosses the locks or
\* kills the thread. The model ends with the module, or stops there.
SPECIFICATION FairModule
CONSTANTS
  Cpus = {c1, c2}
  Msgs = {m1, m2}
  Texts = {"ACK", "other"}
  MAX_MSG_BUF_LEN = 1
  UINT_MAX = 7
  MaxReady = 1
INVARIANTS
  TypeOKModule
  
  DatagramFindsThread
PROPERTIES
  CallsReturn
  TimeoutDrains
CHECK_DEADLOCK FALSE
