SPECIFICATION Spec
CONSTANTS
  ana = ana
  ben = ben
  cai = cai
  home = home
  cafe = cafe
  None = None
  Locations = {home, cafe}
  Homes <- MCHomes
  EatSites <- MCEatSites
  WorkSites <- MCWorkSites
  Home <- MCHome
  TravelTime <- MCTravel
  InitialFood <- MCFood
  EatTime = 1
  ShiftStarts <- MCShifts

  Residents = {ana, ben, cai}
  Workplace <- Nobody
  SleepTime = 2
  TalkTime = 1
  ShiftTime = 1
  Requests <- TalkRequests
  MaxTime = 2
  MaxFence = 0
INVARIANTS
  DuplicateCompletionReused
