SPECIFICATION Spec
CONSTANTS
  Writers = {w1, w2}
  Payloads = {p1, p2}
  NoRow = NoRow
  FirstAlone = FALSE
  MaxTxns = 3
INVARIANT NoDuplicates
