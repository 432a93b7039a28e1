SPECIFICATION FairSpec
CONSTANTS
  a1 = a1
  a2 = a2
  a3 = a3
  a4 = a4
  a5 = a5
  a6 = a6
  a7 = a7
  Nothing = Nothing
  NotPushed = NotPushed
  Assign = {a1, a2, a3, a4, a5, a6, a7}
  get_watcher_size <- MCget_watcher_size
  get_pushed <- MCget_pushed
  is_read_clause <- MCis_read_clause
  get_generated <- MCget_generated
  Tasks <- MCTasks
INVARIANTS TypeOK AnswerIsForRead OneListAtATime
PROPERTIES PropagationSpec GetReturns
CHECK_DEADLOCK FALSE
