\* Three owners compete for the one place of a process whose application is
\* stopped and started twice; and two instructors' runs wait for a turn of a loop
\* that polls or does not.
SPECIFICATION MCSpec
CONSTANTS
  o1 = o1
  o2 = o2
  o3 = o3
  r1 = r1
  r2 = r2
  s1 = s1
  Nobody = Nobody
  Owners = {o1, o2, o3}
  Slots = 1
  MaxMade = 3
INVARIANT PlaceFollowsWork
PROPERTIES
  AcceptedRunStarts EveryRunEnds
CHECK_DEADLOCK FALSE
