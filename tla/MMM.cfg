SPECIFICATION Spec
CONSTANTS
  Threads = {w1, w2, r1, i1, i2}
  Casts = {{w1, w2}, {w1, r1}, {w1, i1, i2}}
  Writers = {w1, w2}
  Readers = {r1}
  MaxTids = 2
  RetireFreq = 1
  MaxOps = 1
  MaxRecords = 7
  Delayed = FALSE
INVARIANTS NoUseAfterFree FreedOnce ReadsItsEpoch SlotsApart
PROPERTY LeavesInTheEnd
