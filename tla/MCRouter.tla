------------------------------ MODULE MCRouter ------------------------------
EXTENDS Router, TLC

\* Tags of ways.
Road == [highway |-> "primary", maxspeed |-> 80]
Lane == [highway |-> "residential"]
Rough == [highway |-> "track"]
Gravel == [highway |-> "residential", surface |-> "gravel", tracktype |-> "grade2"]
Sandy == [highway |-> "track", surface |-> "sand", tracktype |-> "grade4", smoothness |-> 3]
OneWayRoad == [highway |-> "trunk", oneway |-> "yes", lanes |-> 2, maxspeed |-> 90]
Motorway == [highway |-> "motorway", oneway |-> "yes"]
Footway == [highway |-> "footway", mtb_scale |-> 2]
Steps == [highway |-> "steps", incline |-> 20]
Boards == [highway |-> "path", bridge |-> "boardwalk", motor_vehicle |-> "no"]
TollRoad == [highway |-> "primary", toll |-> "yes", toll_hgv |-> "no"]
Closed == [highway |-> "primary", access_conditional |-> <<[token |-> "no", season |-> "winter"]>>]
Summer == [highway |-> "track",
           motor_vehicle_conditional |-> <<[token |-> "yes", season |-> "summer"],
                                           [token |-> "no", season |-> "?"]>>]
Low == [highway |-> "primary", maxheight |-> 35, maxspeed |-> 60]
Private == [highway |-> "service", access |-> "no"]
Permit == [highway |-> "service", access |-> "no", motor_vehicle |-> "yes"]
Fast == [highway |-> "primary", minspeed |-> 60]
Crossing == [route |-> "ferry", motorcar |-> "yes", motor_vehicle |-> "no", duration |-> 1]
OldFerry == [route |-> "ferry", access |-> "no"]
FootFerry == [route |-> "ferry"]
FastFerry == [route |-> "ferry", minspeed |-> 20, motor_vehicle |-> "no"]
Customers == [route |-> "ferry", motorcar |-> "destination", access |-> "no"]

Way(a, b, len, dh, tags) == [a |-> a, b |-> b, len |-> len, dh |-> dh, tags |-> tags]

\* A diamond with a rung, then two parallel ways to the last node.
Diamond(t) ==
  << Way(1, 2, 400, 10, t[1]), Way(1, 3, 400, 0, t[2]), Way(2, 4, 420, -10, t[3]),
     Way(3, 4, 450, 0, t[4]), Way(2, 3, 100, -10, t[5]), Way(4, 5, 900, 20, t[6]),
     Way(4, 5, 700, -40, t[7]) >>
DiamondPos == <<0, 400, 380, 800, 1500>>

Casts ==
  { <<Road, Gravel, Rough, Gravel, Lane, Rough, Lane>>,
    <<Gravel, Rough, Rough, Gravel, Lane, Gravel, Road>>,
    <<OneWayRoad, Lane, Motorway, Footway, TollRoad, Low, Crossing>>,
    <<Closed, Permit, Summer, Road, Private, Fast, FootFerry>>,
    <<Footway, Road, Steps, Sandy, Boards, Gravel, OldFerry>>,
    <<Road, Lane, FastFerry, Customers, Rough, Low, FastFerry>> }

\* Two hops: a paved and a gravel way side by side, then tracks; and back.
Ladder ==
  << Way(1, 2, 400, 0, Road), Way(1, 2, 420, 0, Gravel), Way(2, 3, 500, 0, Rough),
     Way(2, 3, 460, 0, Sandy), Way(3, 4, 400, 0, Lane) >>
LadderPos == <<0, 400, 800, 1200>>

\* Main road and, off it, a leftover track beside the first waypoint.
Islands ==
  << Way(1, 2, 500, 0, Road), Way(2, 3, 600, 0, Gravel), Way(4, 5, 100, 0, Rough) >>
IslandPos == <<300, 800, 1400, 10, 90>>

Free == [avoid |-> {}, vehicle |-> << >>, season |-> "summer"]
Options ==
  {Free, [Free EXCEPT !.season = "winter"], [Free EXCEPT !.avoid = {"tolls", "motorways"}],
   [Free EXCEPT !.vehicle = [maxheight |-> 40], !.avoid = {"ferries"}]}

Query(pos, ways, tags, wet, from, to, traveller, opt, offroad, eco, plan) ==
  [pos |-> pos, ways |-> ways, nodeTags |-> tags, wet |-> wet, from |-> from, to |-> to,
   traveller |-> traveller, opt |-> opt, offroad |-> offroad, eco |-> eco, cap |-> "trekking",
   plan |-> plan, now |-> "summer"]

Gate == 2 :> [barrier |-> "gate", access |-> "no"] @@ 1 :> [barrier |-> "lift_gate", access |-> "no", foot |-> "yes"]
Bog == {[lo |-> 350, hi |-> 395, hard |-> FALSE], [lo |-> 600, hi |-> 620, hard |-> FALSE],
        [lo |-> 596, hi |-> 604, hard |-> TRUE]}

MCQueries ==
  {Query(DiamondPos, Diamond(t), << >>, {}, e[1], e[2], tr, o, FALSE, FALSE, FALSE) :
     t \in Casts, tr \in Travellers, o \in Options, e \in {<<0, 1490>>, <<1500, -20>>}}
  \cup {Query(DiamondPos, Diamond(t), n, w, 0, 1490, tr, Free, off, eco, FALSE) :
     t \in Casts, n \in {<< >>, Gate}, w \in {{}, Bog}, tr \in {"car", "hiking"},
     off \in BOOLEAN, eco \in BOOLEAN}
  \cup {Query(DiamondPos, Diamond(t), Gate, {}, 0, 1490, tr, Free, off, FALSE, TRUE) :
     t \in Casts, tr \in {"truck", "cycling"}, off \in BOOLEAN}
  \cup {Query(LadderPos, Ladder, << >>, {}, e[1], e[2], tr, Free, off, FALSE, TRUE) :
     tr \in Travellers, off \in BOOLEAN, e \in {<<0, 1200>>, <<1200, 0>>}}
  \cup {Query(IslandPos, Islands, << >>, {}, x, 1400, tr, Free, FALSE, FALSE, FALSE) :
     x \in {-500, 50, 3000}, tr \in Travellers}

\* The hypothesis of RoutesAreCheapest holds of these queries.
ASSUME SlowFerries == FerriesAreSlow
=============================================================================
