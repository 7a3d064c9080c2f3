SPECIFICATION DriverSpec
CONSTANTS
  ana = ana
  ben = ben
  cai = cai
  home = home
  cafe = cafe
  d1 = d1
  d2 = d2
  None = None
  Locations = {home, cafe}
  Homes <- MCHomes
  EatSites <- MCEatSites
  WorkSites <- MCWorkSites
  Home <- MCHome
  TravelTime <- MCTravel
  InitialFood <- MCFood
  EatTime = 1
  SleepTime = 1
  TalkTime = 1
  ShiftTime = 1
  ShiftStarts <- MCShifts
  Rank <- MCRank
  MaxTime = 1
  MaxFence = 2

  Residents = {ana, ben, cai}
  Workplace <- OnlyCai
  Requests <- TalkAndSleep
  Drivers = {d1, d2}
  Unleased = {}
  Limit = 1
INVARIANTS
  DueBatchIsReadable
