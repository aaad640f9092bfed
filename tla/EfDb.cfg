\* The daemon, ef --init and one query on three names, one of
\* which breaks its statements, from no database at all. Whoever is not started
\* again stops.
SPECIFICATION FairSpec
CONSTANTS
  efd = efd
  init = init
  Daemons = {efd}
  Inits = {init}
  Readers = {reader}
  n1 = n1
  n2 = n2
  twice = twice
  quoted = quoted
  Names = {n1, n2, quoted}
  Quoted = {quoted}
  AddName <- TheAddName
INVARIANTS
  TypeOK
  NoLeakedLock
  Accounted
PROPERTIES
  DeathExplained
  LeftoverEnds
CHECK_DEADLOCK FALSE
