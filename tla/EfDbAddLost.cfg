\* A reader is enough.
SPECIFICATION Spec
CONSTANTS
  efd = efd
  init = init
  Daemons = {efd}
  Inits = {}
  Readers = {reader}
  n1 = n1
  n2 = n2
  twice = twice
  quoted = quoted
  Names = {n2, twice}
  Quoted = {}
  AddName <- TheAddName
PROPERTIES
  AddStores
CHECK_DEADLOCK FALSE
