\* One entity, three concurrent handlers.
CONSTANTS
  Ids = {i1}
  Values = {v1}
  v1 = v1
  Absent = Absent
  Nobody = Nobody
  Handlers = {h1, h2, h3}
  Requests <- LifeOfOne
  MaxRequests = 5
  Times = {1, 2}
SYMMETRY Symmetric
SPECIFICATION Spec
CHECK_DEADLOCK FALSE
INVARIANTS IInv TableIsJournalTail LivesAlternate
PROPERTIES JSpec AnswersAreTruthful
