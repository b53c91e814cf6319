\* Four rows with two times: pages of one and of two rows, ties, and a client
\* that asks for more than a page may have.
CONSTANTS
  MaxRows = 4
  MaxTime = 2
  MaxAsk = 3
  DefaultSize = 1
  MaxSize = 2
SPECIFICATION FairListSpec
INVARIANTS PagesNeverRepeat PagesCover
PROPERTY ReadingEnds
\* The client has read to the end, and no row need come or go.
CHECK_DEADLOCK FALSE
