SPECIFICATION LoopSpec
CONSTANT
  MaxDepth = 3
INVARIANTS
  InterruptedRunReturns
