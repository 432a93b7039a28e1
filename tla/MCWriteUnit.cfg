SPECIFICATION FairSpec
CONSTANTS
  a1 = a1
  a2 = a2
  Assign = {a1, a2}
  NotPushed = NotPushed
  Value <- MCValue
  get_value <- MCget_value
  get_watcher_size <- MCget_watcher_size
  get_pushed <- MCget_pushed
  max_merge = 2
  max_entry = 2
  MaxRequests = 4
  MaxAging = 4
INVARIANTS TypeOK MapsAgree AgingCoversLive EntriesBounded
PROPERTIES BufferSpec EveryUpdateIsWritten
