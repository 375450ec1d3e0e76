\* Calls on one entity that do not overlap, on servers whose clocks agree, with
\* failures, retries and lost answers.
CONSTANTS
  Ids = {i1, i2}
  Values = {v1}
  v1 = v1
  Absent = Absent
  Nobody = Nobody
  Handlers = {h1, h2}
  Requests <- LifeOfOne
  MaxRequests = 5
  Times = {1, 2, 3, 4, 5}
SYMMETRY Symmetric
SPECIFICATION SerialClocksSpec
CHECK_DEADLOCK FALSE
INVARIANTS SerialInv VersionsGrow DeletionRecordsLastRow CreatedTimeKept ClocksInv HistoryAnswersLatest
