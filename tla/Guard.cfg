SPECIFICATION Spec
CONSTANTS
  NumCpus = 2
  Grain = 3
  CpuPercent = 34
  RamMax = 1
  Poll = 2
  MaxLate = 1
  Quantum = 1
  Kernels <- AllKernels
  MaxRam = 2
  Horizon = 9
CHECK_DEADLOCK FALSE
INVARIANTS KernelFirst BudgetKept OverRamKilled
