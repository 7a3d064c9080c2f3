SPECIFICATION StorySpec
CONSTANTS
  ana = ana
  ben = ben
  cai = cai
  dan = dan
  home = home
  flat = flat
  loft = loft
  cafe = cafe
  office = office
  None = None
  Residents = {ana, ben, cai, dan}
  Locations = {home, flat, loft, cafe, office}
  Homes <- StoryHomes
  EatSites = {home, flat, loft, cafe}
  WorkSites = {cafe, office}
  Home <- StoryHome
  Workplace <- StoryWorkplace
  InitialFood <- StoryFood
  TravelTime <- StoryTravel
  Kind <- StoryKind
  SocialPlace = cafe
  IdOrder <- StoryOrder
  SleepTime = 480
  EatTime = 30
  TalkTime = 15
  ShiftTime = 480
  ShiftStarts <- StoryShifts
  Requests <- StoryRequests
  MaxActivities = 42
  Populations <- StoryPopulations
  Limit = 4
  Target = 7200
  MaxTime = 7200
  MaxFence = 1
INVARIANTS
  NobodyIsForgotten
  DraftsAreAccepted
  AnchorsFollowLedger
  ShiftsAreAttended
  WakesAreInTime
  EmployeesStir
  NothingDueIsPassedBy
  EndpointHolds
PROPERTIES
  DecisionsOnlyPlanAhead
