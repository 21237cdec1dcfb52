SPECIFICATION MemorySpec
CONSTANTS
  Mesh = {n1, n2}
  Bootstrap = {b}
  Returning = {n1, n2}
  MaxFailures = 5
  MaxTorn = 1
INVARIANTS FileIsRemembered
PROPERTIES
  FileForgetsNobody
  MeshHeals
