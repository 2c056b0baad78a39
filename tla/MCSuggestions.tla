---------------------------- MODULE MCSuggestions ----------------------------
(* Small instances of Suggestions for TLC.                                  *)
EXTENDS Suggestions, TLC

Sports == [none |-> [c \in {} |-> 0], low |-> [tenis |-> 1], high |-> [tenis |-> 4],
           both |-> [tenis |-> 3, padel |-> 5]]

SomePreferences ==
  {[deportes |-> Sports[s], disponibilidad_match |-> m] : s \in DOMAIN Sports, m \in {TRUE}}
    \cup {[deportes |-> Sports.high, disponibilidad_match |-> FALSE]}

SomeMine == {Sports.none, Sports.both, [tenis |-> 2, remo |-> 3]}

\* Near, far, or without a position; all of them without one when who searches has none.
SomeDistances == {[p \in People |-> p % 2], [p \in People |-> IF p = 1 THEN 3 ELSE NULL], [p \in People |-> NULL]}

NoFilter == [radius_km |-> NULL, sport |-> NULL, min_level |-> 1, max_level |-> 5, shared_sports |-> FALSE,
             level_tolerance |-> NULL]

SomeFilters ==
  {NoFilter, [NoFilter EXCEPT !.radius_km = 1], [NoFilter EXCEPT !.max_level = 3],
   [NoFilter EXCEPT !.sport = "padel"], [NoFilter EXCEPT !.shared_sports = TRUE, !.min_level = 4],
   [NoFilter EXCEPT !.level_tolerance = 1], [NoFilter EXCEPT !.sport = "tenis", !.level_tolerance = 2]}
=============================================================================
