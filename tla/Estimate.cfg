\* Two commands over a directory that is new or holds an unfinished profile.
SPECIFICATION FairSpec
CONSTANTS
  Tests = {t1, t2}
  Guests = {g1, g2}
  RunGuest = g1
  Concurrency = 2
  FreshIds = 1
  Interval = 1
  MaxCommands = 2
  MaxFaults = 1
INVARIANTS
  TypeOK
  ArtifactsSound
  FilesFollowRecords
  MirrorComplete
  NoServerLeft
PROPERTY NothingLost
PROPERTY CommandEnds
\* The commands come to an end.
CHECK_DEADLOCK FALSE
