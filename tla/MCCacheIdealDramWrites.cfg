SPECIFICATION Spec
CONSTANTS
  r1 = r1
  r2 = r2
  r3 = r3
  r4 = r4
  w1 = w1
  w2 = w2
  Request = {r1, r3, r4, w1}
  IsWrite = {w1}
  BlockOf <- MCBlockOf
  n_partition = 1
  num_ports = 1
  in_size = 1
  miss_size = 1
  delay_q_size = 1
  cache_delay = 0
  is_ideal_dram = TRUE
  IdealL3 = {FALSE}
  Lines = 1
  MaxMerge = 2
  DramSlots = 1
INVARIANTS DramAnswerHasWaiters
