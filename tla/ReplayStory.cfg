SPECIFICATION ReplaySpec
CONSTANTS
  ana = ana
  ben = ben
  home = home
  cafe = cafe
  None = None
  Locations = {home, cafe}
  Homes <- MCHomes
  EatSites <- MCEatSites
  WorkSites <- MCWorkSites
  Home <- MCHome
  TravelTime <- MCTravel
  InitialFood <- MCFood
  ShiftStarts <- MCShifts
  SleepTime = 1
  EatTime = 1
  TalkTime = 1
  ShiftTime = 1
  Residents = {ana, ben}
  Workplace <- Nobody
  Requests <- StoryRequests
  MaxTime = 2
  MaxFence = 0
  MaxCheckpoints = 2
INVARIANTS
  ReplayEquivalence
  ReplayYieldsThePast
  CheckpointsTellThePast
  HandledHistoryReplays
PROPERTIES
  LifecycleSpec
