\* Two graphs, two inputs and outputs each, one retry of Initialize, two device
\* buffers. A closed session stops.
CONSTANTS
  Graphs = {g1, g2}
  Inputs = 2
  Outputs = 2
  Resident = {d1, d2}
  NoGraph = NoGraph
  MaxLoads = 2
SPECIFICATION Spec
SYMMETRY Symmetry
INVARIANTS
  MemoryAccounted
  LaunchSound
CHECK_DEADLOCK FALSE
