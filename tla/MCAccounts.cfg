SPECIFICATION AccountsSpec
CONSTANTS
  Addresses = {a1}
  Codes = {c1}
  Keys = {k1}
  Values = {"", "x"}
  Balances = {0, 1}
  Readers = {r1}
  Empty = ""
  NoCode = NoCode
  NilRoot = NilRoot
  Absent = Absent
  MaxJournal = 4
  MaxJournalAround = 2
  MaxHandles = 2
  MaxTries = 2
  MaxBlocks = 2
INVARIANTS
  ProcessingReverts ProcessingCommitsAll
CHECK_DEADLOCK FALSE
