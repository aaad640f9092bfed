\* Four regular files in three directories, a link and a socket, any of which
\* lstat or opendir can refuse. The model ends with the process.
SPECIFICATION FairSpec
CONSTANTS
  root = root
  f1 = f1
  f2 = f2
  f3 = f3
  f4 = f4
  d = d
  e = e
  l = l
  s = s
  Root = root
  Mode <- TheMode
  Children <- TheChildren
INVARIANTS
  TypeOK
  LostIsTail
  ExitAfterWalk
  WalkCovers
PROPERTIES
  Ends
CHECK_DEADLOCK FALSE
