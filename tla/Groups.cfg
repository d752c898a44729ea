\* Two members besides the user, two changes after the group was made, two
\* refreshes waiting, one end of the process.
SPECIFICATION FairSpec
CONSTANTS
  Members = {m1, m2}
  NoMember = none
  MaxVersion = 3
  MaxWaiting = 2
  MaxCrashes = 1
INVARIANTS TypeOK MarkedIsUnderway
PROPERTIES RevisionNeverFalls 
