\* Two threads, two turns kept of three, one or two models, one fault.
CONSTANTS
  t1 = t1
  t2 = t2
  Threads <- TwoThreads
  Free = Free
  Tokens <- MCTokens
  base_max_tokens = 8
  force_rotation_every = 12
  warning_threshold_percent = 80
  auto_extend_amount = 5
  max_turns = 2
  Chains <- OneOrTwoModels
  MaxBuilt = 2
  MaxCount = 14
  MaxFaults = 1
SYMMETRY Symmetry
SPECIFICATION Spec
INVARIANTS
  TypeOK
  StoreCurrent
  RecallsRecent
  BudgetKept
CHECK_DEADLOCK FALSE
