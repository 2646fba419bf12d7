CONSTANTS
  MemoryMap <- MCMemoryMap
  Layouts <- MCLayouts
  PowersOfTwo <- MCPowersOfTwo
SPECIFICATION Spec
INVARIANTS
  NeverPanics
  ChunksDisjoint
  ChunksFit
  ChunksTile
  ListComplete
PROPERTIES
  ImplementsHeap
