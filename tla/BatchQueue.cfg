SPECIFICATION FairSpec
CONSTANTS
  Jobs = {j1, j2}
  Workers = {w1, w2}
  NoJob = NoJob
  NoWorker = NoWorker
  Rounds = 1
  MaxEnqueues = 2
  MaxFaults = 2
CHECK_DEADLOCK FALSE
INVARIANTS
  IInv
  RefusedIsQueued
  OneProcessor
PROPERTIES
  ContractSpec
  Served
