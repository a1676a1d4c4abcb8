SPECIFICATION FairSpec
CONSTANTS
  Nodes = {h1, h2, r1}
  Foreign = {x}
  Blank = Blank
  MaxNames = 3
  Parallelisms = {0, 2, 3}
  DefaultWorkers = 1
  MaxWorkers = 2
CHECK_DEADLOCK FALSE
INVARIANTS TypeOK AnswerCoversRequest CodesAreHonest
PROPERTIES BatchEnds
