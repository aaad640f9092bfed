\* The walk ends between in_db's empty dequeue and its test of out.
SPECIFICATION Spec
CONSTANTS
  root = root
  f1 = f1
  f2 = f2
  f3 = f3
  f4 = f4
  d = d
  e = e
  l = l
  s = s
  Root = root
  Mode <- TheMode
  Children <- TheChildren
INVARIANTS
  InitComplete
CHECK_DEADLOCK FALSE
