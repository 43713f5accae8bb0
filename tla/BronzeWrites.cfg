SPECIFICATION FairSpec
CONSTANTS
  Writers = {w1, w2, w3}
  Payloads = {p1, p2}
  NoRow = NoRow
  FirstAlone = TRUE
  MaxTxns = 4
INVARIANTS
  TypeOK
  ReadersSeeLatest
PROPERTIES
  ImplementsLog
  WriteEnds
