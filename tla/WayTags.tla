------------------------------ MODULE WayTags ------------------------------
(***************************************************************************)
(* What the tags of an OSM way mean to a profile: may it be used, what     *)
(* does it cost, how fast is it (access.rs, toll.rs, conditional.rs,       *)
(* eta.rs, surface_quality.rs, bike_suitability.rs and the tag readers of  *)
(* builder.rs).  Tags are a record whose fields are the keys that are set. *)
(* Values the code does not tell apart are one value; a colon in a key is  *)
(* an underscore; a conditional tag is a sequence of clauses               *)
(* [token, season], the season "?" standing for text that does not parse.  *)
(* Lengths are metres, costs are centimetres (cost_to_u64 keeps            *)
(* millimetres, which TLC's integers have no room for).                    *)
(***************************************************************************)
EXTENDS Integers, Sequences, FiniteSets, FiniteSetsExt, SequencesExt

Has(tags, key) == key \in DOMAIN tags
Is(tags, key, values) == Has(tags, key) /\ tags[key] \in values

\* Of several keys the first that is set.
Present(tags, keys) == {i \in DOMAIN keys : Has(tags, keys[i])}
First(tags, keys) == tags[keys[Min(Present(tags, keys))]]

Travellers == {"car", "motorcycle", "truck", "mobilehome", "hiking", "cycling"}

\* The graph a traveller is routed on: motorcycles share the car graph,
\* mobile homes the truck graph.
RoutingProfile(traveller) ==
  CASE traveller \in {"car", "motorcycle"} -> "car"
    [] traveller \in {"truck", "mobilehome"} -> "truck"
    [] traveller = "hiking" -> "foot"
    [] traveller = "cycling" -> "bicycle"

Motor(p) == p \in {"car", "truck"}

\* max_waypoint_snap_m
MaxSnap(p) == CASE p = "car" -> 750 [] p = "truck" -> 1000 [] OTHER -> 500

-----------------------------------------------------------------------------
(* Access *)

AccessKey(p) == IF Motor(p) THEN "motor_vehicle" ELSE p

\* A specific key decides, and only a yes is a yes ("destination" is not);
\* else the general key.
AccessForbidden(p, tags) ==
  IF Has(tags, AccessKey(p)) THEN tags[AccessKey(p)] # "yes" ELSE Is(tags, "access", {"no"})

IsFerry(tags) == Is(tags, "route", {"ferry"}) \/ Is(tags, "highway", {"ferry"})
                   \/ (Has(tags, "ferry") /\ tags.ferry # "no")

RoadClasses == {"motorway", "trunk", "primary", "residential", "service", "track"}

\* The first of the motor keys that is set decides; then access; then the
\* class of the ferry, or a short car ferry relation it is a member of.
FerryAdmits(p, tags, parentCarWay) ==
  IF ~ Motor(p) THEN ~ AccessForbidden(p, tags)
  ELSE LET keys == <<"motorcar", "motor_vehicle", "vehicle">> IN
       IF Present(tags, keys) # {} THEN First(tags, keys) \in {"yes", "destination"}
       ELSE ~ Is(tags, "access", {"no"})
              /\ (Is(tags, "ferry", RoadClasses \ {"track"}) \/ parentCarWay)

\* highway_ok_for_profile
HighwayOk(p, tags) ==
  CASE Motor(p) -> Is(tags, "highway", RoadClasses)
    [] p = "foot" -> Is(tags, "highway", (RoadClasses \ {"motorway"}) \cup {"footway", "steps", "path"})
    [] p = "bicycle" -> Is(tags, "highway", (RoadClasses \ {"motorway"}) \cup {"footway", "path"})

\* The ways of a profile's graph: raw_way_skipped_for_profile, the highway
\* classes, and no way with a mandated minimum speed for slow profiles.
Included(p, tags, parentCarWay) ==
  /\ IF IsFerry(tags) THEN FerryAdmits(p, tags, parentCarWay)
     ELSE HighwayOk(p, tags) /\ ~ AccessForbidden(p, tags)
  /\ ~ (~ Motor(p) /\ Has(tags, "minspeed"))

BarrierForbids(p, tags) == Has(tags, "barrier") /\ AccessForbidden(p, tags)

OneWay(tags) == Is(tags, "oneway", {"yes"}) \/ Is(tags, "junction", {"roundabout"})

TollKeys(p) ==
  CASE p = "car" -> {"toll_motor_vehicle", "toll_motorcar"}
    [] p = "truck" -> {"toll_motor_vehicle", "toll_motorcar", "toll_hgv"}
    [] p = "bicycle" -> {"toll_bicycle"} [] p = "foot" -> {"toll_foot"}

\* The mode's own keys decide when any is set, else toll=*.
Toll(p, tags) ==
  LET own == {k \in TollKeys(p) : Has(tags, k)} IN
  IF own # {} THEN \E k \in own : tags[k] = "yes" ELSE Is(tags, "toll", {"yes"})

\* An edge is motorway grade by class, by sign, or as a fast dual carriageway.
MotorwayGrade(tags) ==
  \/ Is(tags, "highway", {"motorway"}) \/ Is(tags, "motorroad", {"yes"})
  \/ Is(tags, "oneway", {"yes"}) /\ Has(tags, "lanes") /\ tags.lanes >= 2
       /\ Has(tags, "maxspeed") /\ tags.maxspeed >= 90

-----------------------------------------------------------------------------
(* Conditional access *)

Tokens(clauses, token, season) ==
  {i \in DOMAIN clauses : clauses[i].token = token /\ clauses[i].season \in season}

\* A matching no forbids; yes windows of which none is open forbid; what
\* does not parse says nothing.
ConditionForbids(clauses, now) ==
  \/ Tokens(clauses, "no", {now}) # {}
  \/ Tokens(clauses, "yes", {"summer", "winter"}) # {} /\ Tokens(clauses, "yes", {now}) = {}

SeasonallyClosed(p, tags, now) ==
  \/ Motor(p) /\ Has(tags, "motor_vehicle_conditional")
       /\ ConditionForbids(tags.motor_vehicle_conditional, now)
  \/ Has(tags, "access_conditional") /\ ConditionForbids(tags.access_conditional, now)

-----------------------------------------------------------------------------
(* Options of a query: avoid is a subset of {"motorways", "tolls",
   "ferries"}, vehicle maps the limits the user gave, season is that of the
   departure. *)

Fits(vehicle, tags) == \A d \in DOMAIN vehicle : Has(tags, d) => vehicle[d] <= tags[d]

\* edge_allowed_for_options
AllowedForOptions(p, tags, opt) ==
  /\ ~ (("motorways" \in opt.avoid \/ ~ Motor(p)) /\ MotorwayGrade(tags))
  /\ ~ ("tolls" \in opt.avoid /\ Toll(p, tags))
  /\ ~ ("ferries" \in opt.avoid /\ IsFerry(tags))
  /\ ~ SeasonallyClosed(p, tags, opt.season)
  /\ Fits(opt.vehicle, tags)

-----------------------------------------------------------------------------
(* Surface, weights and speed *)

Good == 0
Marginal == 1
Poor == 2

OfSurface(v) == CASE v = "asphalt" -> Good [] v = "gravel" -> Marginal [] OTHER -> Poor
OfGrade(v) == CASE v = "grade1" -> Good [] v = "grade2" -> Marginal [] OTHER -> Poor

\* The worse of what the two tags say; without them only tracks are poor.
Surface(tags) ==
  LET said == (IF Has(tags, "surface") THEN {OfSurface(tags.surface)} ELSE {})
                \cup (IF Has(tags, "tracktype") THEN {OfGrade(tags.tracktype)} ELSE {})
  IN  IF said # {} THEN Max(said) ELSE IF Is(tags, "highway", {"track"}) THEN Poor ELSE Good

\* In tenths, for marginal and for poor ways.
SurfaceTable(traveller) ==
  CASE traveller = "car" -> <<15, 30>> [] traveller = "motorcycle" -> <<22, 45>>
    [] traveller = "truck" -> <<20, 40>> [] traveller = "mobilehome" -> <<24, 50>>
SurfaceTenths(traveller, q) == IF q = Good THEN 10 ELSE SurfaceTable(traveller)[q]

Posted(tags) == \E k \in {"maxspeed", "maxspeed_practical", "maxspeed_advisory"} : Has(tags, k)

\* In hundredths: motor roads without any posted speed cost a little more.
UnpostedHundredths(traveller, tags) ==
  IF IsFerry(tags) \/ Posted(tags) \/ ~ Has(tags, "highway") \/ ~ Is(tags, "highway", RoadClasses)
  THEN 100
  ELSE IF RoutingProfile(traveller) = "car" THEN 110 ELSE 115

\* The 500 m a motor route pays where the surface drops by two classes.
Transition(from, to) == IF to - from > 1 THEN 50000 ELSE 0

\* A ferry costs its duration at 80 km/h, or eight times its length; motor
\* vehicles pay ten minutes more for boarding.  Minutes to centimetres.
DriveEquivalent(minutes) == (minutes * 800000 + 3) \div 6
FerryWeight(p, tags, len) ==
  (IF Has(tags, "duration") THEN DriveEquivalent(tags.duration) ELSE len * 800)
    + (IF Motor(p) THEN DriveEquivalent(10) ELSE 0)

BaseWeight(p, tags, len) == IF IsFerry(tags) THEN FerryWeight(p, tags, len) ELSE len * 100

\* The energy of a stretch that climbs dh metres, in hundredths of a joule: a
\* car spends 490 J on a metre and 14710 J on a metre of climb, an electric one
\* recovers Regen percent on descents; never under a hundredth of the flat energy.
Regen == 40

EcoWeight(len, dh) ==
  LET flat == len * 49000
      climb == dh * 14710 * (IF dh >= 0 THEN 100 ELSE Regen)
  IN  Max({flat + climb, flat \div 100})

Fallback(tags) ==
  IF ~ Has(tags, "highway") THEN 50
  ELSE CASE tags.highway = "motorway" -> 100 [] tags.highway = "trunk" -> 80
         [] tags.highway = "primary" -> 70 [] tags.highway = "residential" -> 40
         [] tags.highway \in {"service", "track"} -> 20
         [] tags.highway \in {"path", "footway", "steps"} -> 10 [] OTHER -> 50

\* edge_speed_kmh: practical, posted, advisory, class; raised to minspeed.
Speed(tags) ==
  LET keys == <<"maxspeed_practical", "maxspeed", "maxspeed_advisory">>
      base == IF Present(tags, keys) # {} THEN First(tags, keys) ELSE Fallback(tags)
  IN  IF Has(tags, "minspeed") THEN Max({base, tags.minspeed}) ELSE base

\* Travel time of a stretch, in seconds.
Seconds(tags, len) == (len * 36) \div (10 * Speed(tags))

-----------------------------------------------------------------------------
(* Bicycles *)

Limit(table, cap) == table[CHOOSE i \in 1..3 : <<"road", "trekking", "mountain">>[i] = cap]

\* tags_unsuitable_for: scale, smoothness (by rank), grade, incline, surface.
Unsuitable(cap, tags) ==
  \/ cap = "road" /\ Is(tags, "route", {"mtb"})
  \/ Has(tags, "mtb_scale") /\ tags.mtb_scale >= Limit(<<1, 2, 5>>, cap)
  \/ Has(tags, "smoothness") /\ tags.smoothness >= Limit(<<2, 4, 6>>, cap)
  \/ Is(tags, "tracktype", {"grade3", "grade4", "grade5"})
       /\ (cap = "road" \/ tags.tracktype = "grade5" \/ (cap = "trekking" /\ tags.tracktype = "grade4"))
  \/ Has(tags, "incline") /\ Max({tags.incline, - tags.incline}) > Limit(<<12, 18, 30>>, cap)
  \/ cap = "road" /\ Is(tags, "surface", {"gravel", "dirt", "sand"})
  \/ cap = "trekking" /\ Is(tags, "surface", {"sand"})
=============================================================================
