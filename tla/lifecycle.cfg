\* One match, an edit of the admin, one failure.
SPECIFICATION FairSpec
CONSTANTS
  m1 = m1
  Matches = {m1}
  MaxEdits = 1
  MaxFaults = 1
INVARIANTS PostedIsVerdict EndedIsPosted PostedAtMostTwice
PROPERTIES EveryResultArrives
