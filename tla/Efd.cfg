\* Three processes: one ends, two take over. Ended processes stop.
SPECIFICATION FairSpec
CONSTANTS
  p1 = p1
  p2 = p2
  p3 = p3
  Procs = {p1, p2, p3}
  MaxDatagrams = 2
INVARIANTS
  TypeOK
  OneDaemon
  PidFileIsDaemons
PROPERTIES
  BindFailsOnlyAtHandover
  KernelHears
  Consumed
CHECK_DEADLOCK FALSE
