SPECIFICATION LiveSpec
CONSTANTS
  NumThreads = 3
  NumDone = 1
  NumFirst = 2
INVARIANTS TypeOK DoneFiresOnceAfterDrop OneFailureFires JoinedMeansFired
PROPERTIES FailureEndsAll
\* The bundle stops for good once it is joined.
CHECK_DEADLOCK FALSE
