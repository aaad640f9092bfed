\* One overflow is enough: send_func and a handler take sl_file and sl_buf in
\* opposite orders.
SPECIFICATION FairSpec
CONSTANTS
  Cpus = {c1}
  Msgs = {m1, m2}
  Texts = {"ACK"}
  MAX_MSG_BUF_LEN = 1
  UINT_MAX = 7
  MaxReady = 1
PROPERTIES
  EveryMessageLeaves
CHECK_DEADLOCK FALSE
