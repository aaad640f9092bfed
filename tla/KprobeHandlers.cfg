\* Two CPUs, two probes and three hits: a hit can follow one that clashed. CPUs
\* stop when the hits are used up.
SPECIFICATION Spec
CONSTANTS
  Cpus = {c1, c2}
  Probes = {p1, p2}
  h1 = h1
  h2 = h2
  h3 = h3
  Hits = {h1, h2, h3}
  DevOf <- TheDevOf
  Lines <- TheLines
INVARIANTS
  TypeOK
  AloneIsExact
  KindKept
  RootOfDevice
SYMMETRY Symmetry
CHECK_DEADLOCK FALSE
