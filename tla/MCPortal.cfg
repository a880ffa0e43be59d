SPECIFICATION FairSpec
CONSTANTS
  Address <- MCAddress
  Label <- MCLabel
  NoLabel = "none"
  Factories = {TRUE, FALSE}
  minSweep = 1
  MaxAsked = 2
  MaxPaid = 2
  MaxFaults = 1
  MaxWipes = 1
INVARIANTS FirstWriteWins NotesGoToTheAnnounced RowsTellTheFirstSweep SweptAreRecovered
PROPERTY FirstPaymentIsSwept
CHECK_DEADLOCK FALSE
