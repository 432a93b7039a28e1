SPECIFICATION FairSpec
CONSTANTS
  a1 = a1
  a2 = a2
  a3 = a3
  a4 = a4
  Nothing = Nothing
  NotPushed = NotPushed
  Assign = {a1, a2, a3, a4}
  Value <- MCValue
  get_value <- MCget_value
  get_watcher_size <- MCget_watcher_size
  get_pushed <- MCget_pushed
  is_read_clause <- MCis_read_clause
  get_clause_literal <- MCget_clause_literal
  get_generated <- MCget_generated
  get_clause_id <- MCget_clause_id
  partition_id <- MCpartition_id
  num_watchers = 2
  num_clauses = 4
  num_partition = 2
  multi_l3cache_port = 1
  LineSize = 2
  in_size = 1
  in_mem_size = 1
  data_size = 3
  process_size = 1
  private_size = 1
  private_out_size = 1
  max_merge = 2
  max_entry = 1
  l3_in_size = 1
  buffer_size = 1
  MeshSlots = 1
  send_limit = 1
  Configs <- MCConfigs
  Batches <- MCBatches
INVARIANTS TypeOK AssertionsHold SequentialIsolation FlushWritesEveryList
PROPERTIES PropagationSpec 
CHECK_DEADLOCK FALSE
