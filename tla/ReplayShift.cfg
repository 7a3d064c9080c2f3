SPECIFICATION ReplaySpec
CONSTANTS
  ana = ana
  ben = ben
  home = home
  cafe = cafe
  None = None
  Locations = {home, cafe}
  Homes <- MCHomes
  EatSites <- MCEatSites
  WorkSites <- MCWorkSites
  Home <- MCHome
  TravelTime <- MCTravel
  InitialFood <- MCFood
  ShiftStarts <- MCShifts
  SleepTime = 1
  EatTime = 1
  TalkTime = 1
  ShiftTime = 2
  Residents = {ana}
  Workplace <- OnlyAna
  Requests <- ShiftRequests
  MaxTime = 3
  MaxFence = 0
  MaxCheckpoints = 0
INVARIANTS
  ReplayEquivalence
  InProgressCompletable
  WakesDescribeTheirCommit
