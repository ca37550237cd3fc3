SPECIFICATION FairSpec
CONSTANT MaxDoubts = 2
INVARIANTS TypeOK TakenIsAccounted OnlyHopelessGivenUp
PROPERTY Settles
CHECK_DEADLOCK FALSE
