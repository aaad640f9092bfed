\* Two paths, a limit of two and three events among calls, failures of efd and a
\* run of ef --init; with and without /var probed. The calls may stop.
SPECIFICATION FairSpec
CONSTANTS
  n1 = n1
  n2 = n2
  journal = journal
  Names = {n1, n2, journal}
  Journal = journal
  Doubled <- TheDoubled
  MAX_MSG_BUF_LEN = 2
  MaxEvents = 3
INVARIANTS
  TypeOK
PROPERTIES
  DesyncExplained
  Settles
CHECK_DEADLOCK FALSE
