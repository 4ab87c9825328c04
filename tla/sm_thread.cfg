SPECIFICATION FairSpec
CONSTANTS
  ApiPosters = {a1, a2}
  EvtPosters = {e1, e2}
  Exit = exit
  NoNode = none
  MaxPosts = 2
INVARIANTS TypeOK WakeupsMatchNodes NeverWokenForNothing JoinedAfterLastApi HandledOnce
PROPERTIES ThreadFinishes QueuesSpec
CHECK_DEADLOCK FALSE
