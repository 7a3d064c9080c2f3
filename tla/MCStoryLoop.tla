----------------------------- MODULE MCStoryLoop -----------------------------
(***************************************************************************)
(* A street of four residents for TLC, from positions 3, 4, 27 and 29 of   *)
(* the generated population: an office assistant with four units of food,  *)
(* a barista with none, and two without a job: one in the assistant's home *)
(* with four units, one of their own with two.  World time is in minutes,  *)
(* durations, routes and the week are the real ones.                       *)
(***************************************************************************)
EXTENDS StoryLoop, TLC

CONSTANTS ana, ben, cai, dan, home, flat, loft, cafe, office

StoryHomes     == {home, flat, loft}
StoryHome      == [x \in Residents |-> IF x = ben THEN flat ELSE IF x = dan THEN loft ELSE home]
StoryWorkplace == [x \in Residents |->
                     IF x = ana THEN office ELSE IF x = ben THEN cafe ELSE None]
StoryFood      == [x \in Residents |-> IF x = ben THEN 0 ELSE IF x = dan THEN 2 ELSE 4]
StoryKind      == [l \in Locations |->
                     IF l = cafe THEN "CAFE" ELSE IF l = office THEN "OFFICE" ELSE "HOME"]
StoryOrder     == [x \in Residents |->
                     CASE x = cai -> 1 [] x = ana -> 2 [] x = ben -> 3 [] x = dan -> 4]

\* TRAVEL_MINUTES by fixture kind
StoryTravel == [from \in Locations |-> [to \in Locations |->
  LET kinds == {StoryKind[from], StoryKind[to]} IN
  IF kinds = {"CAFE", "OFFICE"} THEN 5 ELSE IF kinds = {"HOME", "CAFE"} THEN 10 ELSE 15]]

\* Monday to Friday and the Monday after
StoryShifts == {9 * Hour + d * Day : d \in {0, 1, 2, 3, 4, 7}}

\* the five routine profiles, as pace in percent and window hours
Profile(rest, social, sleepHour, mealHour, socialHour) ==
  [pace    |-> [hunger |-> 100, rest |-> rest, social |-> social],
   routine |-> [hunger |-> mealHour, rest |-> sleepHour, social |-> socialHour]]
Profiles == << Profile(101, 98, 21, 7, 9),   Profile(101, 102, 21, 8, 19),
               Profile(100, 100, 22, 8, 14), Profile(99, 97, 23, 9, 19),
               Profile(98, 100, 23, 8, 14) >>

\* neighbours have neighbouring profiles; in some streets everybody tires 4 percent
\* more slowly, in the others 4 percent faster, the ends of stableVariation
StoryPopulations ==
  {[x \in Residents |->
      LET p == Profiles[((rotation + StoryOrder[x]) % 5) + 1] IN
      [p EXCEPT !.pace = [n \in NeedNames |-> IF rotation % 2 = 0 THEN @[n] - 4 ELSE @[n] + 4]]] :
     rotation \in 0 .. 4}

\* every request the loop could send: its version is even, as it is decided when idle
StoryArgs(x, type) ==
  CASE type = "MOVE" -> {Home[x], SocialPlace} \cup ({Workplace[x]} \ {None})
    [] type = "SLEEP" -> {Home[x]}
    [] type = "EAT"   -> {x}
    [] type = "WORK"  -> {Workplace[x]} \ {None}
    [] type = "TALK"  -> Residents \ {x}

CONSTANT MaxActivities    \* bound on the activities one resident takes part in

StoryRequests == UNION {
  {[id |-> <<x, v>>, key |-> <<x, v>>, actor |-> x, type |-> type, arg |-> a,
    quantity |-> 1, version |-> v, at |-> 0] : a \in StoryArgs(x, type)} :
  x \in Residents, v \in {2 * n : n \in 0 .. MaxActivities}, type \in ActionTypes}
=============================================================================
