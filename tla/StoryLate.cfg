SPECIFICATION StorySpec
CONSTANTS
  ana = ana
  ben = ben
  cai = cai
  dan = dan
  home = home
  flat = flat
  loft = loft
  cafe = cafe
  office = office
  None = None
  Residents = {ana, ben, cai, dan}
  Locations = {home, flat, loft, cafe, office}
  Homes <- StoryHomes
  EatSites = {home, flat, loft, cafe}
  WorkSites = {cafe, office}
  Home <- StoryHome
  Workplace <- StoryWorkplace
  InitialFood <- StoryFood
  TravelTime <- StoryTravel
  Kind <- StoryKind
  SocialPlace = cafe
  IdOrder <- StoryOrder
  SleepTime = 480
  EatTime = 30
  TalkTime = 15
  ShiftTime = 480
  ShiftStarts <- StoryShifts
  Requests <- StoryRequests
  MaxActivities = 16
  Populations <- StoryPopulations
  Limit = 4
  Target = 1440
  MaxTime = 1440
  MaxFence = 1
INVARIANTS
  LateShiftIsStopped
