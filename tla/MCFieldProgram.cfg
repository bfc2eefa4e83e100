SPECIFICATION Spec
CONSTANTS w1 = w1
          w2 = w2
          w3 = w3
          Workers = {w1, w2, w3}
INVARIANTS TypeOK RaceFree AccessesInBlocks MemoryInOrder KindsTellStrides
PROPERTIES ImplementsArrayProgram ImplementsRegister WorkEnds
