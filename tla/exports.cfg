SPECIFICATION Spec
CONSTANTS
  Exports = {e1, e2, e3}
  Downloads = {d1, d2}
  Labs = {lab}
  Ttl = 1
  MaxNow = 3
SYMMETRY Symmetric
CHECK_DEADLOCK FALSE
INVARIANTS TypeOK TokensHaveFiles SendsItsArchive FilesAreOwned
