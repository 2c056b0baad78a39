\* Three people and one search, with at most one change of preferences between its two SELECTs.
\* It stops when the search is answered.
SPECIFICATION SuggestionsSpec
CONSTANTS
  People = {1, 2, 3}
  Preferences <- SomePreferences
  Mine <- SomeMine
  Distances <- SomeDistances
  Filters <- SomeFilters
  Limits = {2}
  MaxPuts = 1
  NULL = NULL
CHECK_DEADLOCK FALSE
INVARIANTS SuggestionsTypeOK AnswerFollowsRules
