SPECIFICATION Spec
CONSTANTS
  r1 = r1
  r2 = r2
  r3 = r3
  r4 = r4
  w1 = w1
  w2 = w2
  Request = {r1, r2, r3, r4, w1}
  IsWrite = {w1}
  BlockOf <- MCBlockOf
  n_partition = 1
  num_ports = 2
  in_size = 2
  miss_size = 1
  delay_q_size = 1
  cache_delay = 1
  is_ideal_dram = FALSE
  IdealL3 = {FALSE}
  Lines = 2
  MaxMerge = 2
  DramSlots = 2
INVARIANTS TypeOK MshrConsistent RequestsConserved MissQueueBounded
PROPERTIES DirtyLinesWrittenBack
