\* Four entities, pages of no, one, two or three of them, of the default
\* number, of more than Postgres can count, and without a Paging.
CONSTANTS
  Ids = {1, 2, 3, 4}
  Unset = Unset
  NoPaging = NoPaging
  Counts = {0, 1, 2, 3, 15, Unset, NoPaging}
  DefaultLimit = 2
  Width = 16
SPECIFICATION Spec
INVARIANTS IInv NothingSkipped NothingTwice
PROPERTY ListingEnds
