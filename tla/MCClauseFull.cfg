SPECIFICATION Spec
CONSTANTS
  a1 = a1
  a2 = a2
  a3 = a3
  a4 = a4
  Nothing = Nothing
  Assign = {a1, a2, a3, a4}
  Watched <- MCWatched
  get_clause_literal <- MCget_clause_literal
  get_generated <- MCget_generated
  LineSize = 2
  data_size = 1
  process_size = 1
  private_size = 1
INVARIANT ValueBranchSeesValues
