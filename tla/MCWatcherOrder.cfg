SPECIFICATION Spec
CONSTANTS
  a1 = a1
  a2 = a2
  a3 = a3
  Assign = {a1, a2, a3}
  get_watcher_size <- MCget_watcher_size
  is_read_clause <- MCis_read_clause
  LineSize = 2
  in_size = 1
  in_mem_size = 1
  private_size = 1
INVARIANT ValuesAfterLastPackage
