SPECIFICATION Spec
CONSTANTS
  ana = ana
  ben = ben
  cai = cai
  home = home
  cafe = cafe
  None = None
  Locations = {home, cafe}
  Homes <- MCHomes
  EatSites <- MCEatSites
  WorkSites <- MCWorkSites
  Home <- MCHome
  TravelTime <- MCTravel
  InitialFood <- MCFood
  EatTime = 1
  ShiftStarts = {4}

  Residents = {ana}
  Workplace <- OnlyAna
  SleepTime = 2
  TalkTime = 1
  ShiftTime = 1
  Requests <- MealRequests
  MaxTime = 2
  MaxFence = 1
INVARIANTS
  TypeOK
  OutcomesLinkTheirEvents
  KeyStartsOnce
  FoodIsConserved
  FinishedStaysFinished
PROPERTIES
  OutcomesAreFinal
  PausedWorldIsFrozen
