SPECIFICATION Spec
CONSTANTS
  Ports <- MCPorts
  Sizes = {0, 1, 2, 3, 4, 5, 6, 7, 8, 9, 10, 11, 12, 13, 14, 15, 16, 17, 18}
  SizeMod = 65536
  Paths = {0, 1, 4, 5, 6}
  PathSize = 5
INVARIANTS
  TypeOK
  WritesInside
PROPERTIES
  TextAsAsked
