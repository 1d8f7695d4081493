\* Reads and writes around page ends and the end of the memory.
CONSTANTS
  WIDTH = 2
  PAGE = 4
  DEV = 1
  Blank <- MCBlank
  Transactions <- MCTransactions
  TRANSACTIONS = 3
SPECIFICATION MSpec
INVARIANTS StoredIffAcknowledged ReadsAreRight
