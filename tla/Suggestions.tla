------------------------------ MODULE Suggestions ------------------------------
(***************************************************************************)
(* GET /suggestions: the search for other people (suggestions.sql), which  *)
(* PostgreSQL ranks and cuts, and the cards the service makes of a second  *)
(* SELECT, while people replace their preferences.  The rules are written  *)
(* twice in the program, in SQL and in Python (recommendations.py, which   *)
(* makes the cards and ranks in the mock repository): the module has both. *)
(* Who may be found besides (role, verification, blocks) is in Contact, and *)
(* which position is used in LiveLocation.                                 *)
(***************************************************************************)
EXTENDS Integers, Sequences, FiniteSets, SqlNull

CONSTANTS People,       \* those who may be found, the newest account with the greatest number
          Preferences,  \* [deportes: code -> level, disponibilidad_match]
          Mine,         \* deportes of who searches
          Distances,    \* distance_km of each person, or NULL; a function for each place to search from
          Filters,      \* SuggestionFilters, without the limit
          Limits,
          MaxPuts       \* bound: changes of preferences

\* usuario_deporte: the level of each sport.
Levels(deportes) == IsFiniteSet(DOMAIN deportes) /\ \A code \in DOMAIN deportes : deportes[code] \in 1..5

ASSUME SuggestionsAssumption ==
  /\ People \subseteq Nat /\ IsFiniteSet(People) /\ MaxPuts \in Nat /\ Limits \subseteq Nat \ {0}
  /\ NULL \notin Nat
  /\ \A preference \in Preferences : Levels(preference.deportes) /\ preference.disponibilidad_match \in BOOLEAN
  /\ \A mine \in Mine : Levels(mine)
  /\ \A distance \in Distances, p \in People : distance[p] \in Nat \cup {NULL}
  /\ \A f \in Filters : /\ f.min_level \in 1..5 /\ f.max_level \in 1..5 /\ f.shared_sports \in BOOLEAN
                         /\ f.level_tolerance \in Nat \cup {NULL} /\ f.radius_km \in Nat \cup {NULL}

VARIABLES
  preferences,  \* usuario_deporte and preferencia_usuario of each person
  puts,         \* the changes so far
  search        \* local state of GET /suggestions

suggestionVars == <<preferences, puts, search>>

Sets == INSTANCE FiniteSetsExt

NoSearch == [phase |-> "idle", mine |-> NULL, filters |-> NULL, limit |-> NULL, distance |-> NULL,
             rows |-> <<>>, cards |-> <<>>, ranked |-> NULL]

SuggestionsInit ==
  /\ preferences \in [People -> Preferences]
  /\ puts = 0
  /\ search = NoSearch

-----------------------------------------------------------------------------
(* recommendations.py                                                       *)

Abs(n) == IF n < 0 THEN -n ELSE n

\* Sports of both, and sports of either.
Shared(mine, theirs) == DOMAIN mine \cap DOMAIN theirs
Union(mine, theirs) == DOMAIN mine \cup DOMAIN theirs

\* The sum of the shared sports, each worth top less the difference of levels.
SumShared(mine, theirs, top) ==
  Sets!MapThenSumSet(LAMBDA code : top - Abs(mine[code] - theirs[code]), Shared(mine, theirs))

\* Mistake: as many points as levels.
WeightOfFive(mine, theirs) == SumShared(mine, theirs, 5)

\* Four times the weight: 4 for a sport of the same level, one less for each level of difference.
Weight(mine, theirs) == SumShared(mine, theirs, 4)

\* round() of n / d, half to even.
Round(n, d) ==
  LET q == n \div d
      r == n % d
  IN IF 2 * r > d \/ (2 * r = d /\ q % 2 = 1) THEN q + 1 ELSE q

\* compatibility
Compatibility(mine, theirs) ==
  IF Union(mine, theirs) = {} THEN 0
  ELSE Round(100 * Weight(mine, theirs), 4 * Cardinality(Union(mine, theirs)))

\* similar_level
SimilarLevel(mine, theirs) == \E code \in Shared(mine, theirs) : Abs(mine[code] - theirs[code]) <= 1

\* restrict_sport, and filter_sport of the query.
RestrictSport(f) ==
  f.sport # NULL \/ f.shared_sports \/ f.level_tolerance # NULL \/ f.min_level # 1 \/ f.max_level # 5

\* matches_filters
MatchesFilters(theirs, mine, distance, f) ==
  /\ f.radius_km # NULL => distance # NULL /\ distance <= f.radius_km
  /\ RestrictSport(f) =>
       \E code \in DOMAIN theirs :
         /\ f.sport = NULL \/ code = f.sport
         /\ theirs[code] \in f.min_level .. f.max_level
         /\ f.shared_sports => code \in DOMAIN mine
         /\ f.level_tolerance # NULL =>
              code \in DOMAIN mine /\ Abs(theirs[code] - mine[code]) <= f.level_tolerance

-----------------------------------------------------------------------------
(* suggestions.sql                                                          *)

\* Mistake: each condition is asked of any sport, not all of one.
SportRowsApart(theirs, mine, f) ==
  /\ f.sport # NULL => f.sport \in DOMAIN theirs
  /\ \E code \in DOMAIN theirs : theirs[code] \in f.min_level .. f.max_level
  /\ f.shared_sports => Shared(mine, theirs) # {}
  /\ f.level_tolerance # NULL =>
       \E code \in Shared(mine, theirs) : Abs(theirs[code] - mine[code]) <= f.level_tolerance

\* The EXISTS over usuario_deporte d LEFT JOIN mine m: m.nivel is NULL when the sport is not shared, and what is
\* compared with NULL is not true.
SportRow(theirs, mine, f) ==
  \E code \in DOMAIN theirs :
    LET level == IF code \in DOMAIN mine THEN mine[code] ELSE NULL
    IN /\ f.sport = NULL \/ code = f.sport
       /\ f.min_level <= theirs[code] /\ theirs[code] <= f.max_level
       /\ ~f.shared_sports \/ level # NULL
       /\ \/ f.level_tolerance = NULL
          \/ level # NULL /\ Abs(theirs[code] - level) <= f.level_tolerance

\* The WHERE of the candidates and of the radius; people, the preferences of each.
Candidates(people, mine, f, distance) ==
  {p \in People :
     /\ people[p].disponibilidad_match
     /\ ~RestrictSport(f) \/ SportRow(people[p].deportes, mine, f)
     /\ f.radius_km = NULL \/ (distance[p] # NULL /\ distance[p] <= f.radius_km)}

\* score, four times over: the sum of the weights, and the greatest of one and the size of the union counted as a sum.
Score(mine, theirs) ==
  LET size == Cardinality(DOMAIN mine) + Cardinality(DOMAIN theirs) - Cardinality(Shared(mine, theirs))
  IN [sum |-> Weight(mine, theirs), by |-> IF size > 1 THEN size ELSE 1]

\* distancia_km ASC NULLS LAST
Nearer(d, e) == d # NULL /\ (e = NULL \/ d < e)

\* ORDER BY distancia_km, nivel_coincidente DESC, score DESC, fecha_creacion DESC: the pairs of rows in that order.
RowOrder(people, mine, distance) ==
  LET similar(p) == SimilarLevel(mine, people[p].deportes)
      score(p) == Score(mine, people[p].deportes)
      higher(s, t) == s.sum * t.by > t.sum * s.by
  IN {pair \in People \X People :
        LET p == pair[1]
            q == pair[2]
        IN \/ Nearer(distance[p], distance[q])
           \/ /\ distance[p] = distance[q]
              /\ \/ similar(p) /\ ~similar(q)
                 \/ /\ similar(p) = similar(q)
                    /\ higher(score(p), score(q)) \/ (~higher(score(q), score(p)) /\ p > q)}

\* The rows in an order: at each place the one with as many before it.
OrderBy(rows, order) ==
  [i \in 1..Cardinality(rows) |-> CHOOSE p \in rows : Cardinality({q \in rows : <<q, p>> \in order}) = i - 1]

Smaller(m, n) == IF m < n THEN m ELSE n

\* LIMIT
First(limit, rows) == SubSeq(rows, 1, Smaller(limit, Len(rows)))

-----------------------------------------------------------------------------
\* GET /suggestions arrives: get_current_user has read the sports of who searches, and get_location the place.  A
\* radius without a place is refused (422).
Ask(mine, f, limit, distance) ==
  /\ search.phase = "idle"
  /\ ~(f.radius_km # NULL /\ \A p \in People : distance[p] = NULL)
  /\ search' = [NoSearch EXCEPT !.phase = "asked", !.mine = mine, !.filters = f, !.limit = limit,
                                !.distance = distance]
  /\ UNCHANGED <<preferences, puts>>

\* The first SELECT, with the distance of each row; ranked, history: the preferences it saw.
Rank ==
  /\ search.phase = "asked"
  /\ search' = [search EXCEPT
       !.phase = "ranked",
       !.ranked = preferences,
       !.rows = First(search.limit, OrderBy(Candidates(preferences, search.mine, search.filters, search.distance),
                                            RowOrder(preferences, search.mine, search.distance)))]
  /\ UNCHANGED <<preferences, puts>>

\* What the card of a person shows: _as_suggestion, of the sports read by now.
Card(p, mine, distance, theirs) ==
  [person |-> p, distance |-> distance[p], similar |-> SimilarLevel(mine, theirs),
   compatibilidad |-> Compatibility(mine, theirs)]

\* The second SELECT and the cards, in the order of the first one.
Cards ==
  /\ search.phase = "ranked"
  /\ search' = [search EXCEPT
       !.phase = "done",
       !.cards = [i \in DOMAIN search.rows |->
                    Card(search.rows[i], search.mine, search.distance, preferences[search.rows[i]].deportes)]]
  /\ UNCHANGED <<preferences, puts>>

\* PUT /preferences of somebody.
PutPreferences(p, new) ==
  /\ puts < MaxPuts
  /\ search.phase = "ranked"
  /\ preferences' = [preferences EXCEPT ![p] = new]
  /\ puts' = puts + 1
  /\ UNCHANGED search

SuggestionsNext ==
  \/ \E mine \in Mine, f \in Filters, limit \in Limits, distance \in Distances : Ask(mine, f, limit, distance)
  \/ Rank \/ Cards
  \/ \E p \in People, new \in Preferences : PutPreferences(p, new)

SuggestionsSpec == SuggestionsInit /\ [][SuggestionsNext]_suggestionVars

-----------------------------------------------------------------------------
(* list_suggestion_candidates of the mock repository                        *)

MockCandidates(people, mine, f, distance) ==
  {p \in People :
     /\ people[p].disponibilidad_match
     /\ MatchesFilters(people[p].deportes, mine, distance[p], f)}

\* The key of the sort, which leaves the newest first among those of one key.
MockOrder(people, mine, distance) ==
  LET card(p) == Card(p, mine, distance, people[p].deportes)
  IN {pair \in People \X People :
        LET a == card(pair[1])
            b == card(pair[2])
        IN \/ Nearer(a.distance, b.distance)
           \/ /\ a.distance = b.distance
              /\ \/ a.similar /\ ~b.similar
                 \/ /\ a.similar = b.similar
                    /\ \/ a.compatibilidad > b.compatibilidad
                       \/ a.compatibilidad = b.compatibilidad /\ a.person > b.person}

MockRows(people, mine, f, limit, distance) ==
  First(limit, OrderBy(MockCandidates(people, mine, f, distance), MockOrder(people, mine, distance)))

-----------------------------------------------------------------------------
(* Properties                                                               *)

\* Types of the preferences and of the search.
SuggestionsTypeOK ==
  /\ preferences \in [People -> Preferences]
  /\ puts \in 0..MaxPuts
  /\ search.phase \in {"idle", "asked", "ranked", "done"}
  /\ search.mine \in Mine \cup {NULL} /\ search.filters \in Filters \cup {NULL}
  /\ search.limit \in Limits \cup {NULL} /\ search.distance \in Distances \cup {NULL}
  /\ search.rows \in Seq(People)
  /\ search.ranked \in [People -> Preferences] \cup {NULL}
  /\ \A i \in DOMAIN search.cards :
       search.cards[i].person \in People /\ search.cards[i].compatibilidad \in 0..100

\* What a card shows besides the person.
Key(card) == <<card.distance, card.similar, card.compatibilidad>>

\* The search answers what the rules in Python say, as the mock repository does, of the preferences the first SELECT
\* saw: as many cards, nobody twice, and the same values at each place, although SQL filters with NULLs, ranks by a
\* score that is not rounded and by another formula of the union, and cuts before the cards are made.  Only the card
\* of a person who changed them between the two SELECTs says something else.
AnswerFollowsRules ==
  search.phase = "done" =>
    LET card(p) == Card(p, search.mine, search.distance, search.ranked[p].deportes)
        expected == MockRows(search.ranked, search.mine, search.filters, search.limit, search.distance)
    IN /\ DOMAIN search.cards = DOMAIN expected
       /\ \A i, j \in DOMAIN search.cards : search.cards[i].person = search.cards[j].person => i = j
       /\ \A i \in DOMAIN search.cards :
            LET p == search.cards[i].person
            IN /\ Key(card(p)) = Key(card(expected[i]))
               /\ preferences[p] = search.ranked[p] => search.cards[i] = card(p)
=============================================================================
