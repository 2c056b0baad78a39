---------------------------- MODULE ProfileProofs ----------------------------
(***************************************************************************)
(* What TLAPS proves of Profile for every value of the constants: any      *)
(* number of requests of every kind, failing at any point.                 *)
(***************************************************************************)
EXTENDS Profile, FiniteSetTheorems, SequenceTheorems, TLAPS

\* The rows of some of the tables.
Rows(D) == UNION {[d -> SUBSET Writer] : d \in SUBSET D}
Moments == [perfil : Nat, preferencias : Nat]

\* The local state of a request.
State ==
  [kind : {"preferences", "profile", "get", "export", "grant", "revoke", NULL},
   phase : {"idle", "arrived", "upserted", "sports", "windows", "reading", "read", "done", "failed"},
   consent : Requests \cup {NULL}, answer : Requests \cup {NULL},
   gone : Rows({"usuario_deporte", "disponibilidad"}), seen : Rows(Tables), since : Moments]

Revocation == [status : {"active"}, revoked_at : {NULL}] \cup [status : {"revoked"}, revoked_at : Requests]

\* The types, as TypeOK states them and with every request a record.
Types_ ==
  /\ is_active \in BOOLEAN
  /\ filas \in [Tables -> SUBSET Writer]
  /\ DOMAIN consent \subseteq Requests
  /\ consent \in [DOMAIN consent -> Revocation]
  /\ auditoria \subseteq Requests
  /\ request \in [Requests -> State]
  /\ history \in [perfil : Seq(Writer), preferencias : Seq(Writer)]
  /\ history.perfil # <<>> /\ history.preferencias # <<>>

\* A function on a subset of D.
LEMMA RowsIn ==
  ASSUME NEW D, NEW d \in SUBSET D, NEW f \in [d -> SUBSET Writer]
  PROVE  f \in Rows(D)
BY DEF Rows

LEMMA RowsAre ==
  ASSUME NEW D, NEW f \in Rows(D)
  PROVE  /\ DOMAIN f \subseteq D
         /\ f \in [DOMAIN f -> SUBSET Writer]
BY DEF Rows

\* One table more.
LEMMA RowsMore ==
  ASSUME NEW D, NEW f \in Rows(D), NEW table \in D, NEW rows \in SUBSET Writer
  PROVE  [t \in DOMAIN f \cup {table} |-> IF t = table THEN rows ELSE f[t]] \in Rows(D)
<1> DEFINE g == [t \in DOMAIN f \cup {table} |-> IF t = table THEN rows ELSE f[t]]
<1>1. DOMAIN f \cup {table} \in SUBSET D /\ \A t \in DOMAIN f : f[t] \in SUBSET Writer
  BY RowsAre
<1>2. g \in [DOMAIN f \cup {table} -> SUBSET Writer]
  BY <1>1
<1> HIDE DEF g
<1>3. g \in Rows(D)
  BY <1>1, <1>2, RowsIn
<1> QED
  BY <1>3 DEF g

LEMMA NoRows == \A D : [t \in {} |-> {}] \in Rows(D)
<1> SUFFICES ASSUME NEW D PROVE [t \in {} |-> {}] \in Rows(D)
  OBVIOUS
<1>1. [t \in {} |-> {}] \in [{} -> SUBSET Writer]
  OBVIOUS
<1> QED
  BY <1>1, RowsIn

LEMMA IdleState == Idle \in State
BY NoRows DEF Idle, State, Moments

\* What was written at some moment is written for good.
LEMMA Appended ==
  ASSUME NEW s \in Seq(Writer), NEW w \in Writer
  PROVE  /\ Append(s, w) \in Seq(Writer)
         /\ Append(s, w) # <<>>
         /\ Len(s) \in Nat /\ Len(Append(s, w)) = Len(s) + 1
         /\ DOMAIN s = 1 .. Len(s) /\ DOMAIN Append(s, w) = 1 .. Len(s) + 1
         /\ \A k \in 1 .. Len(s) : Append(s, w)[k] = s[k]
         /\ Append(s, w)[Len(s) + 1] = w
BY AppendProperties, LenProperties

LEMMA NotEmpty == \A s \in Seq(Writer) : s # <<>> => Len(s) \in Nat /\ Len(s) >= 1 /\ DOMAIN s = 1 .. Len(s)
BY EmptySeq, LenProperties

-----------------------------------------------------------------------------
(* The inductive invariant                                                  *)

Prefix(n) == {SelectOrder[i] : i \in 1..n}

\* Which requests may be at which point, with what they have then.
Located(q) ==
  /\ request[q].phase = "idle" => request[q] = Idle
  /\ request[q].phase \in {"arrived", "upserted"} => DOMAIN request[q].gone = {}
  /\ InTransaction(q) => request[q].kind = "preferences"
  /\ request[q].phase = "reading" => request[q].kind \in {"preferences", "profile", "get", "export"}

\* A revocation is of a consent there is, and what it answers is what the row says.
Revokes(q) ==
  /\ request[q].kind = "revoke" /\ request[q].phase \in {"arrived", "read", "done"} =>
       request[q].consent \in DOMAIN consent
  /\ request[q].kind = "revoke" /\ request[q].phase \in {"read", "done"} => request[q].answer # NULL
  /\ request[q].answer # NULL =>
       /\ request[q].consent \in DOMAIN consent
       /\ consent[request[q].consent] = [status |-> "revoked", revoked_at |-> request[q].answer]

\* What a request that got past its commit has left.
Committed(q) ==
  /\ request[q].kind = "preferences" /\ request[q].phase \in {"reading", "read", "done"} =>
       history.preferencias[request[q].since.preferencias] = q
  /\ request[q].kind = "profile" /\ request[q].phase \in {"reading", "read", "done"} =>
       history.perfil[request[q].since.perfil] = q
  /\ request[q].kind = "grant" /\ request[q].phase \in {"read", "done"} => q \in DOMAIN consent
  /\ q \in DOMAIN consent => request[q].kind = "grant" /\ request[q].phase \in {"read", "done", "failed"}

\* The audit of one request.
Audited(q) ==
  /\ q \in auditoria => request[q].phase \in {"read", "done", "failed"}
  /\ q \in auditoria /\ request[q].kind = "preferences" =>
       \E k \in DOMAIN history.preferencias : history.preferencias[k] = q
  /\ q \in auditoria /\ request[q].kind = "profile" => \E k \in DOMAIN history.perfil : history.perfil[k] = q
  /\ q \in auditoria /\ request[q].kind = "grant" => q \in DOMAIN consent
  /\ q \in auditoria /\ request[q].kind = "revoke" => \E c \in DOMAIN consent : consent[c].status = "revoked"
  /\ request[q].phase = "done" /\ request[q].kind # "get" => q \in auditoria

\* A request began to read at a moment that has been.
Began(q) ==
  /\ request[q].since.perfil \in 1 .. Len(history.perfil)
  /\ request[q].since.preferencias \in 1 .. Len(history.preferencias)

\* The tables are read in order.
Places(q) ==
  /\ request[q].phase \in {"idle", "arrived", "upserted", "sports", "windows"} => DOMAIN request[q].seen = {}
  /\ request[q].phase = "reading" => \E n \in 0..4 : DOMAIN request[q].seen = Prefix(n)
  /\ request[q].phase \in {"read", "done"} /\ request[q].kind \notin {"grant", "revoke"} =>
       DOMAIN request[q].seen = Prefix(5)

\* Each was read as it was at a moment of the request.
Versions(q) ==
  /\ "usuario" \in DOMAIN request[q].seen =>
       \E k \in request[q].since.perfil .. Len(history.perfil) : request[q].seen["usuario"] = {history.perfil[k]}
  /\ \E k \in [2..5 -> request[q].since.preferencias .. Len(history.preferencias)] :
       \A i \in 2..5 :
         /\ i > 2 => k[i - 1] <= k[i]
         /\ SelectOrder[i] \in DOMAIN request[q].seen =>
              request[q].seen[SelectOrder[i]] = {history.preferencias[k[i]]}

Good(q) == Located(q) /\ Revokes(q) /\ Committed(q) /\ Audited(q) /\ Began(q) /\ Places(q) /\ Versions(q)

\* The row of preferencia_usuario at work: one transaction at a time replaces, and what it has deleted is still all
\* there is.
Exclusive ==
  /\ \A q, r \in Requests : InTransaction(q) /\ InTransaction(r) => q = r
  /\ \A q \in Requests :
       /\ request[q].phase = "sports" =>
            /\ DOMAIN request[q].gone = {"usuario_deporte"}
            /\ request[q].gone["usuario_deporte"] = filas["usuario_deporte"]
       /\ request[q].phase = "windows" =>
            /\ DOMAIN request[q].gone = {"usuario_deporte", "disponibilidad"}
            /\ \A t \in {"usuario_deporte", "disponibilidad"} : request[q].gone[t] = filas[t]

\* The profile, in one row, is that of its last writer.
ProfileWhole == filas["usuario"] = {history.perfil[Len(history.perfil)]}

IInv == Types_ /\ Exclusive /\ PreferencesWhole /\ ProfileWhole /\ \A q \in Requests : Good(q)

LEMMA InitIInv == Init => IInv
<1> SUFFICES ASSUME Init PROVE IInv
  OBVIOUS
<1>1. /\ Registered \in Writer /\ <<Registered>> \in Seq(Writer) /\ <<Registered>> # <<>>
      /\ Len(<<Registered>>) = 1 /\ <<Registered>>[1] = Registered
  BY DEF Writer
<1>2. Types_
  BY <1>1, IdleState DEF Init, Types_, Tables, Preferencias
<1>3. Exclusive
  BY DEF Init, Exclusive, Idle, InTransaction
<1>4. PreferencesWhole /\ ProfileWhole
  BY <1>1 DEF Init, PreferencesWhole, ProfileWhole, Tables, Preferencias
<1>5. ASSUME NEW q \in Requests PROVE Good(q)
  <2>0. /\ request[q] = Idle /\ auditoria = {} /\ DOMAIN consent = {}
        /\ Len(history.perfil) = 1 /\ Len(history.preferencias) = 1
    BY <1>1 DEF Init
  <2>1. /\ Idle.kind = NULL /\ Idle.phase = "idle" /\ Idle.consent = NULL /\ Idle.answer = NULL
        /\ DOMAIN Idle.gone = {} /\ DOMAIN Idle.seen = {}
        /\ Idle.since = [perfil |-> 1, preferencias |-> 1]
    BY DEF Idle
  <2>2. Located(q) /\ Revokes(q) /\ Committed(q) /\ Audited(q)
    BY <2>0, <2>1 DEF Located, Revokes, Committed, Audited, InTransaction
  <2>3. Began(q)
    BY <2>0, <2>1 DEF Began
  <2>4. DOMAIN request[q].seen = {} /\ request[q].phase = "idle"
    BY <2>0, <2>1
  <2>5. Places(q)
    BY <2>4 DEF Places
  <2>6. Versions(q)
    <3> DEFINE k == [i \in 2..5 |-> 1]
    <3>1. k \in [2..5 -> request[q].since.preferencias .. Len(history.preferencias)]
      BY <2>0, <2>1
    <3>2. \A i \in 2..5 : (i > 2 => k[i - 1] <= k[i])
      OBVIOUS
    <3> HIDE DEF k
    <3> QED
      BY <2>4, <3>1, <3>2 DEF Versions
  <2> QED
    BY <2>2, <2>3, <2>5, <2>6 DEF Good
<1> QED
  BY <1>2, <1>3, <1>4, <1>5 DEF IInv

-----------------------------------------------------------------------------
(* What a step leaves to the other requests                                 *)

\* Consents that are revoked and versions that were written stay.
Grows ==
  /\ \A c \in DOMAIN consent :
       c \in DOMAIN consent' /\ (consent[c].status = "revoked" => consent'[c] = consent[c])
  /\ Len(history.perfil) <= Len(history'.perfil)
  /\ \A k \in 1 .. Len(history.perfil) : history'.perfil[k] = history.perfil[k]
  /\ Len(history.preferencias) <= Len(history'.preferencias)
  /\ \A k \in 1 .. Len(history.preferencias) : history'.preferencias[k] = history.preferencias[k]

\* The lengths are numbers, and do not shrink.
LEMMA Lengths ==
  ASSUME Types_, Types_'
  PROVE  /\ Len(history.perfil) \in Nat /\ Len(history.preferencias) \in Nat
         /\ Len(history.perfil) >= 1 /\ Len(history.preferencias) >= 1
         /\ Len(history'.perfil) \in Nat /\ Len(history'.preferencias) \in Nat
         /\ DOMAIN history.perfil = 1 .. Len(history.perfil)
         /\ DOMAIN history.preferencias = 1 .. Len(history.preferencias)
         /\ DOMAIN history'.perfil = 1 .. Len(history'.perfil)
         /\ DOMAIN history'.preferencias = 1 .. Len(history'.preferencias)
BY NotEmpty DEF Types_

\* What was read stays a version that was written.
LEMMA VersionsStay ==
  ASSUME Types_, Types_', Grows, NEW q \in Requests, Began(q), Versions(q),
         request'[q].seen = request[q].seen, request'[q].since = request[q].since
  PROVE  Versions(q)'
<1> DEFINE seen == request[q].seen
<1> DEFINE since == request[q].since
<1>1. /\ \A j \in since.perfil .. Len(history.perfil) :
           j \in 1 .. Len(history.perfil) /\ j \in since.perfil .. Len(history'.perfil)
      /\ \A j \in since.preferencias .. Len(history.preferencias) :
           j \in 1 .. Len(history.preferencias) /\ j \in since.preferencias .. Len(history'.preferencias)
  BY Lengths, SMTT(40) DEF Grows, Began
<1>2. "usuario" \in DOMAIN seen =>
        \E k \in since.perfil .. Len(history'.perfil) : seen["usuario"] = {history'.perfil[k]}
  <2>1. HAVE "usuario" \in DOMAIN seen
  <2>2. PICK k \in since.perfil .. Len(history.perfil) : seen["usuario"] = {history.perfil[k]}
    BY <2>1 DEF Versions
  <2> QED
    BY <1>1, <2>2 DEF Grows
<1>3. PICK k \in [2..5 -> since.preferencias .. Len(history.preferencias)] :
        \A i \in 2..5 :
          /\ i > 2 => k[i - 1] <= k[i]
          /\ SelectOrder[i] \in DOMAIN seen => seen[SelectOrder[i]] = {history.preferencias[k[i]]}
  BY DEF Versions
<1>4. k \in [2..5 -> since.preferencias .. Len(history'.preferencias)]
  BY <1>1
<1>5. \A i \in 2..5 : history'.preferencias[k[i]] = history.preferencias[k[i]]
  <2>1. \A i \in 2..5 : k[i] \in 1 .. Len(history.preferencias)
    BY <1>1
  <2> QED
    BY <2>1 DEF Grows
<1>6. \A i \in 2..5 :
        /\ i > 2 => k[i - 1] <= k[i]
        /\ SelectOrder[i] \in DOMAIN seen => seen[SelectOrder[i]] = {history'.preferencias[k[i]]}
  BY <1>3, <1>5
<1>7. request'[q].seen = seen /\ request'[q].since = since
  OBVIOUS
<1> HIDE DEF seen, since
<1> QED
  BY <1>2, <1>4, <1>6, <1>7 DEF Versions

\* Nothing read yet.
LEMMA VersionsNone ==
  ASSUME Types_, Types_', NEW q \in Requests, Began(q)', DOMAIN request'[q].seen = {}
  PROVE  Versions(q)'
<1> DEFINE last == Len(history'.preferencias)
<1>1. last \in request'[q].since.preferencias .. last
  BY Lengths DEF Began
<1> HIDE DEF last
<1> DEFINE k == [i \in 2..5 |-> last]
<1>2. k \in [2..5 -> request'[q].since.preferencias .. last]
  BY <1>1
<1>3. last \in Int /\ \A i \in 2..5 : k[i] = last
  BY Lengths DEF last
<1>4. \A i \in 2..5 : (i > 2 => k[i - 1] <= k[i])
  BY <1>3
<1> HIDE DEF k
<1> QED
  BY <1>2, <1>4 DEF Versions, last

\* A request that takes no step.
LEMMA Stable ==
  ASSUME Types_, Types_', Grows, NEW q \in Requests, Good(q), request'[q] = request[q],
         q \in auditoria' <=> q \in auditoria, q \in DOMAIN consent' <=> q \in DOMAIN consent
  PROVE  Good(q)'
<1>1. /\ \A k \in 1 .. Len(history.perfil) : k \in 1 .. Len(history'.perfil)
      /\ \A k \in 1 .. Len(history.preferencias) : k \in 1 .. Len(history'.preferencias)
  BY Lengths DEF Grows
<1>2. Located(q)' /\ Places(q)'
  BY DEF Good, Located, InTransaction, Places, Prefix
<1>3. Revokes(q)'
  BY DEF Good, Revokes, Grows
<1>4. Began(q)'
  BY <1>1 DEF Good, Began
<1>5. Committed(q)'
  BY DEF Good, Committed, Began, Grows
<1>6. Audited(q)'
  BY <1>1, Lengths DEF Good, Audited, Grows
<1>7. Versions(q)'
  BY VersionsStay DEF Good
<1> QED
  BY <1>2, <1>3, <1>4, <1>5, <1>6, <1>7 DEF Good

-----------------------------------------------------------------------------
(* Types                                                                    *)

Phase == {"idle", "arrived", "upserted", "sports", "windows", "reading", "read", "done", "failed"}

LEMMA StateFields ==
  ASSUME NEW s \in State
  PROVE  /\ s.kind \in {"preferences", "profile", "get", "export", "grant", "revoke", NULL} /\ s.phase \in Phase
         /\ s.consent \in Requests \cup {NULL} /\ s.answer \in Requests \cup {NULL}
         /\ s.gone \in Rows({"usuario_deporte", "disponibilidad"}) /\ s.seen \in Rows(Tables)
         /\ s.since \in Moments
BY DEF State, Phase

\* Each change of a request that a step makes gives a request.
LEMMA ChangedState ==
  ASSUME NEW s \in State
  PROVE  /\ \A p \in Phase : [s EXCEPT !.phase = p] \in State
         /\ \A p \in Phase, g \in Rows({"usuario_deporte", "disponibilidad"}) :
              [s EXCEPT !.phase = p, !.gone = g] \in State
         /\ \A p \in Phase, g \in Rows({"usuario_deporte", "disponibilidad"}), m \in Moments :
              [s EXCEPT !.phase = p, !.gone = g, !.since = m] \in State
         /\ \A p \in Phase, rows \in Rows(Tables) : [s EXCEPT !.seen = rows, !.phase = p] \in State
         /\ \A p \in Phase, c \in Requests \cup {NULL} : [s EXCEPT !.phase = p, !.answer = c] \in State
<1>1. \A p \in Phase : [s EXCEPT !.phase = p] \in State
  BY DEF State, Phase
<1>2. \A p \in Phase, g \in Rows({"usuario_deporte", "disponibilidad"}) : [s EXCEPT !.phase = p, !.gone = g] \in State
  BY DEF State, Phase
<1>3. \A p \in Phase, g \in Rows({"usuario_deporte", "disponibilidad"}), m \in Moments :
        [s EXCEPT !.phase = p, !.gone = g, !.since = m] \in State
  BY DEF State, Phase
<1>4. \A p \in Phase, rows \in Rows(Tables) : [s EXCEPT !.seen = rows, !.phase = p] \in State
  BY DEF State, Phase
<1>5. \A p \in Phase, c \in Requests \cup {NULL} : [s EXCEPT !.phase = p, !.answer = c] \in State
  BY DEF State, Phase
<1> QED
  BY <1>1, <1>2, <1>3, <1>4, <1>5

Fresh(k, p, c, m, none) ==
  [kind |-> k, phase |-> p, consent |-> c, answer |-> NULL, gone |-> none, seen |-> none, since |-> m]

LEMMA Fields ==
  ASSUME NEW k, NEW p, NEW c, NEW m, NEW none, NEW s, s = Fresh(k, p, c, m, none)
  PROVE  /\ s.kind = k /\ s.phase = p /\ s.consent = c /\ s.answer = NULL /\ s.since = m
         /\ s.gone = none /\ s.seen = none
BY DEF Fresh

Arrived(s, k, p, c, m) == s = [Idle EXCEPT !.kind = k, !.phase = p, !.consent = c, !.since = m]
Failed(s, k) == s = [Idle EXCEPT !.kind = k, !.phase = "failed"]

\* What a request that arrives becomes.
LEMMA IdleArrives ==
  ASSUME NEW k \in {"preferences", "profile", "get", "export", "grant", "revoke", NULL}, NEW p \in Phase,
         NEW c \in Requests \cup {NULL}, NEW m \in Moments,
         NEW s, Arrived(s, k, p, c, m)
  PROVE  /\ s \in State /\ s.kind = k /\ s.phase = p /\ s.consent = c /\ s.answer = NULL /\ s.since = m
         /\ DOMAIN s.gone = {} /\ DOMAIN s.seen = {}
<1>0. PICK none : none = [t \in {} |-> {}]
  OBVIOUS
<1>1. s = Fresh(k, p, c, m, none)
  BY <1>0 DEF Idle, Fresh, Arrived
<1>2. DOMAIN none = {} /\ \A D : none \in Rows(D)
  BY <1>0, NoRows
<1>3. s \in State
  BY <1>1, <1>2 DEF State, Phase, Fresh
<1>4. /\ s.kind = k /\ s.phase = p /\ s.consent = c /\ s.answer = NULL /\ s.since = m
      /\ s.gone = none /\ s.seen = none
  BY <1>1, Fields
<1> QED
  BY <1>2, <1>3, <1>4

\* What one that fails becomes.
LEMMA IdleFails ==
  ASSUME NEW k \in {"preferences", "profile", "get", "export", "grant", "revoke", NULL},
         NEW s, Failed(s, k)
  PROVE  /\ s \in State /\ s.kind = k /\ s.phase = "failed" /\ s.answer = NULL
         /\ s.since.perfil = 1 /\ s.since.preferencias = 1 /\ DOMAIN s.seen = {}
<1>0. PICK none : none = [t \in {} |-> {}]
  OBVIOUS
<1>m. PICK m : m = [perfil |-> 1, preferencias |-> 1]
  OBVIOUS
<1>1. s = Fresh(k, "failed", NULL, m, none)
  BY <1>0, <1>m DEF Idle, Fresh, Failed
<1>2. DOMAIN none = {} /\ \A D : none \in Rows(D)
  BY <1>0, NoRows
<1>3. m \in Moments /\ m.perfil = 1 /\ m.preferencias = 1
  BY <1>m DEF Moments
<1>4. s \in State
  BY <1>1, <1>2, <1>3 DEF State, Fresh
<1>5. s.kind = k /\ s.phase = "failed" /\ s.answer = NULL /\ s.since = m /\ s.seen = none
  BY <1>1, Fields
<1> QED
  BY <1>2, <1>3, <1>4, <1>5

LEMMA MomentNow ==
  ASSUME Types_
  PROVE  WrittenByNow \in Moments
BY NotEmpty DEF WrittenByNow, Moments, Types_

\* The SELECTs, one by one.
LEMMA PrefixSize ==
  /\ Prefix(0) = {}
  /\ \A n \in 0..4 : /\ Prefix(n + 1) = Prefix(n) \cup {SelectOrder[n + 1]}
                     /\ SelectOrder[n + 1] \notin Prefix(n)
                     /\ SelectOrder[n + 1] \in Tables
  /\ \A n \in 0..5 : IsFiniteSet(Prefix(n)) /\ Cardinality(Prefix(n)) = n
<1>1. Prefix(0) = {}
  BY DEF Prefix
<1>2. ASSUME NEW n \in 0..4
      PROVE  /\ Prefix(n + 1) = Prefix(n) \cup {SelectOrder[n + 1]}
             /\ SelectOrder[n + 1] \notin Prefix(n)
             /\ SelectOrder[n + 1] \in Tables
  <2>1. 1 .. n + 1 = (1..n) \cup {n + 1}
    OBVIOUS
  <2>2. \A i, j \in 1..5 : i # j => SelectOrder[i] # SelectOrder[j]
    BY DEF SelectOrder
  <2>3. \A i \in 1..5 : SelectOrder[i] \in Tables
    BY DEF SelectOrder, Tables, Preferencias
  <2> QED
    BY <2>1, <2>2, <2>3 DEF Prefix
<1>3. IsFiniteSet(Prefix(0)) /\ Cardinality(Prefix(0)) = 0
  BY <1>1, FS_EmptySet
<1>4. ASSUME NEW n \in 0..4, IsFiniteSet(Prefix(n)), Cardinality(Prefix(n)) = n
      PROVE  IsFiniteSet(Prefix(n + 1)) /\ Cardinality(Prefix(n + 1)) = n + 1
  <2>1. PICK x : x = SelectOrder[n + 1]
    OBVIOUS
  <2>2. x \notin Prefix(n) /\ Prefix(n + 1) = Prefix(n) \cup {x}
    BY <1>2, <2>1
  <2>3. IsFiniteSet(Prefix(n) \cup {x}) /\ Cardinality(Prefix(n) \cup {x}) = Cardinality(Prefix(n)) + 1
    BY <1>4, <2>2, FS_AddElement
  <2> QED
    BY <1>4, <2>2, <2>3
<1>5. /\ IsFiniteSet(Prefix(1)) /\ Cardinality(Prefix(1)) = 1
      /\ IsFiniteSet(Prefix(2)) /\ Cardinality(Prefix(2)) = 2
      /\ IsFiniteSet(Prefix(3)) /\ Cardinality(Prefix(3)) = 3
  BY <1>3, <1>4
<1>6. /\ IsFiniteSet(Prefix(4)) /\ Cardinality(Prefix(4)) = 4
      /\ IsFiniteSet(Prefix(5)) /\ Cardinality(Prefix(5)) = 5
  BY <1>4, <1>5
<1> QED
  BY <1>1, <1>2, <1>3, <1>5, <1>6

\* The next SELECT is of the next table.
LEMMA NextTable ==
  ASSUME NEW r \in Requests, Places(r), request[r].phase = "reading"
  PROVE  \E n \in 0..4 :
           /\ DOMAIN request[r].seen = Prefix(n)
           /\ Cardinality(DOMAIN request[r].seen) + 1 = n + 1
           /\ SelectOrder[n + 1] \in Tables
           /\ SelectOrder[n + 1] = "preferencia_perfil" <=> n = 4
           /\ SelectOrder[n + 1] = "usuario" <=> n = 0
<1>1. PICK n \in 0..4 : DOMAIN request[r].seen = Prefix(n)
  BY DEF Places
<1>2. n \in 0..5 /\ Cardinality(Prefix(n)) = n /\ SelectOrder[n + 1] \in Tables
  BY PrefixSize
<1>3. /\ SelectOrder[n + 1] = "preferencia_perfil" <=> n = 4
      /\ SelectOrder[n + 1] = "usuario" <=> n = 0
  BY DEF SelectOrder
<1> QED
  BY <1>1, <1>2, <1>3

\* Every step of a request leaves a request.
LEMMA RequestTypes ==
  ASSUME IInv, NEW r \in Requests, Step(r)
  PROVE  request' \in [Requests -> State]
<1>0. /\ request \in [Requests -> State] /\ request[r] \in State
      /\ filas \in [Tables -> SUBSET Writer] /\ DOMAIN consent \subseteq Requests
  BY DEF IInv, Types_
<1>1. \A s \in State : [request EXCEPT ![r] = s] \in [Requests -> State]
  BY <1>0
<1>2. \A p \in Phase : Go(r, p) => request' \in [Requests -> State]
  BY <1>0, ChangedState DEF Go
<1>3. Fail(r) => request' \in [Requests -> State]
  <2>1. PICK s : Failed(s, request[r].kind)
    BY DEF Failed
  <2>2. s \in State
    BY <1>0, <2>1, StateFields, IdleFails
  <2> QED
    BY <1>1, <2>1, <2>2 DEF Fail, Failed
<1>4. ASSUME NEW kind \in {"preferences", "profile", "get", "export", "grant", "revoke"},
             NEW c \in Requests \cup {NULL}, Arrive(r, kind, c)
      PROVE  request' \in [Requests -> State]
  <2>1. PICK p \in Phase : p = IF kind \in {"get", "export"} THEN "reading" ELSE "arrived"
    BY DEF Phase
  <2>4. /\ WrittenByNow \in Moments
        /\ kind \in {"preferences", "profile", "get", "export", "grant", "revoke", NULL}
    BY MomentNow DEF IInv
  <2>m. PICK m \in Moments : m = WrittenByNow
    BY <2>4
  <2>2. PICK s : Arrived(s, kind, p, c, m)
    BY DEF Arrived
  <2>3. request' = [request EXCEPT ![r] = s]
    BY <1>4, <2>1, <2>2, <2>m DEF Arrive, Arrived
  <2>5. s \in State
    BY <2>2, <2>4, IdleArrives
  <2> QED
    BY <1>1, <2>3, <2>5
<1>5. \A m \in Moments : ReadingAgain(r, m) \in [Requests -> State]
  <2>1. Idle.gone \in Rows({"usuario_deporte", "disponibilidad"})
    BY NoRows DEF Idle
  <2> QED
    BY <1>0, <2>1, ChangedState DEF ReadingAgain, Phase
<1>6. WrittenByNow \in Moments
  BY MomentNow DEF IInv
<1>7. CASE PutCommit(r) \/ ProfileCommit(r)
  <2>1. /\ [WrittenByNow EXCEPT !.preferencias = @ + 1] \in Moments
        /\ [WrittenByNow EXCEPT !.perfil = @ + 1] \in Moments
    BY <1>6 DEF Moments
  <2> QED
    BY <1>5, <1>7, <2>1 DEF PutCommit, ProfileCommit
<1>8. CASE PutReplace(r)
  <2>1. PICK table \in {"usuario_deporte", "disponibilidad"}, p \in {"sports", "windows"} : Delete(r, table, p)
    BY <1>8 DEF PutReplace
  <2>2. filas[table] \in SUBSET Writer
    BY <1>0 DEF Tables, Preferencias
  <2>3. PICK g : g = [t \in DOMAIN request[r].gone \cup {table} |-> IF t = table THEN filas[t] ELSE request[r].gone[t]]
    OBVIOUS
  <2>4. g \in Rows({"usuario_deporte", "disponibilidad"})
    <3>1. g = [t \in DOMAIN request[r].gone \cup {table} |-> IF t = table THEN filas[table] ELSE request[r].gone[t]]
      BY <2>3
    <3>2. request[r].gone \in Rows({"usuario_deporte", "disponibilidad"})
      BY <1>0, StateFields
    <3> QED
      BY <2>2, <3>1, <3>2, RowsMore
  <2>5. request' = [request EXCEPT ![r] = [request[r] EXCEPT !.phase = p, !.gone = g]]
    BY <1>0, <2>1, <2>3 DEF Delete, State
  <2> QED
    BY <1>0, <2>4, <2>5, ChangedState DEF Phase
<1>9. CASE Select(r) /\ ~Fail(r)
  <2>1. PICK n \in 0..4 : /\ DOMAIN request[r].seen = Prefix(n)
                         /\ Cardinality(DOMAIN request[r].seen) + 1 = n + 1
                         /\ SelectOrder[n + 1] \in Tables
    BY <1>9, NextTable DEF IInv, Good, Select
  <2>2. PICK table \in Tables : table = SelectOrder[Cardinality(DOMAIN request[r].seen) + 1]
    BY <2>1
  <2>3. PICK p \in Phase : p = IF table = "preferencia_perfil" THEN "read" ELSE "reading"
    BY DEF Phase
  <2>4. PICK g : g = [t \in DOMAIN request[r].seen \cup {table} |-> IF t = table THEN filas[t] ELSE request[r].seen[t]]
    OBVIOUS
  <2>5. g \in Rows(Tables)
    <3>1. g = [t \in DOMAIN request[r].seen \cup {table} |-> IF t = table THEN filas[table] ELSE request[r].seen[t]]
      BY <2>4
    <3>2. request[r].seen \in Rows(Tables) /\ filas[table] \in SUBSET Writer
      BY <1>0, StateFields
    <3> QED
      BY <3>1, <3>2, RowsMore
  <2>6. request' = [request EXCEPT ![r] = [request[r] EXCEPT !.seen = g, !.phase = p]]
    BY <1>0, <1>9, <2>2, <2>3, <2>4 DEF Select, State
  <2> QED
    BY <1>0, <2>5, <2>6, ChangedState
<1>10. CASE RevokeCommit(r)
  <2>1. request[r].consent \in DOMAIN consent /\ request[r].consent \in Requests
    BY <1>0, <1>10 DEF RevokeCommit, In, IInv, Good, Revokes
  <2>2. consent[request[r].consent] \in Revocation
    BY <2>1 DEF IInv, Types_
  <2>3. PICK c : c = IF Revocable(request[r].consent) THEN r ELSE consent[request[r].consent].revoked_at
    OBVIOUS
  <2>4. c \in Requests \cup {NULL}
    BY <2>2, <2>3 DEF Revocation
  <2>5. request' = [request EXCEPT ![r] = [request[r] EXCEPT !.phase = "read", !.answer = c]]
    BY <1>10, <2>3 DEF RevokeCommit
  <2> QED
    BY <1>0, <2>4, <2>5, ChangedState DEF Phase
<1>11. CASE PutUpsert(r) \/ GrantCommit(r) \/ Audit(r) \/ Answer(r) \/ Lost(r)
  BY <1>0, <1>2, <1>3, <1>11 DEF PutUpsert, GrantCommit, Audit, Answer, Lost, Phase
<1>12. CASE \E kind \in {"preferences", "profile", "get", "export", "grant"} : Arrive(r, kind, NULL)
  BY <1>4, <1>12
<1>13. CASE \E c \in DOMAIN consent : Arrive(r, "revoke", c)
  BY <1>0, <1>4, <1>13
<1> QED
  BY <1>3, <1>7, <1>8, <1>9, <1>10, <1>11, <1>12, <1>13 DEF Step

\* Every step leaves tables.
LEMMA TypesStep == ASSUME IInv, [Next]_vars PROVE Types_'
<1>0. Types_
  BY DEF IInv
<1>1. CASE UNCHANGED vars \/ DeleteAccount
  BY <1>0, <1>1 DEF vars, DeleteAccount, Types_
<1>2. ASSUME NEW r \in Requests, Step(r) PROVE Types_'
  <2>0. request' \in [Requests -> State] /\ r \in Writer
    BY <1>2, RequestTypes DEF Writer
  <2>1. CASE UNCHANGED <<is_active, filas, consent, auditoria, history>>
    BY <1>0, <2>0, <2>1 DEF Types_
  <2>2. CASE PutCommit(r)
    <3>1. filas' \in [Tables -> SUBSET Writer]
      <4>1. \A t \in Tables : filas[t] \in SUBSET Writer
        BY <1>0 DEF Types_
      <4>2. \A t \in Tables : filas'[t] \in {(filas[t] \ request[r].gone[t]) \cup {r}, filas[t], {r}}
        BY <2>2 DEF PutCommit
      <4>3. \A t \in Tables : filas'[t] \in SUBSET Writer
        BY <2>0, <4>1, <4>2
      <4> QED
        BY <2>2, <4>3 DEF PutCommit
    <3>2. /\ history' \in [perfil : Seq(Writer), preferencias : Seq(Writer)]
          /\ history'.perfil # <<>> /\ history'.preferencias # <<>>
      <4>1. Append(history.preferencias, r) \in Seq(Writer) /\ Append(history.preferencias, r) # <<>>
        BY <1>0, <2>0, Appended DEF Types_
      <4> QED
        BY <1>0, <2>2, <4>1 DEF PutCommit, Types_
    <3> QED
      BY <1>0, <2>0, <2>2, <3>1, <3>2 DEF PutCommit, Types_
  <2>3. CASE ProfileCommit(r)
    <3>1. filas' \in [Tables -> SUBSET Writer]
      BY <1>0, <2>0, <2>3 DEF ProfileCommit, Types_
    <3>2. /\ history' \in [perfil : Seq(Writer), preferencias : Seq(Writer)]
          /\ history'.perfil # <<>> /\ history'.preferencias # <<>>
      <4>1. Append(history.perfil, r) \in Seq(Writer) /\ Append(history.perfil, r) # <<>>
        BY <1>0, <2>0, Appended DEF Types_
      <4> QED
        BY <1>0, <2>3, <4>1 DEF ProfileCommit, Types_
    <3> QED
      BY <1>0, <2>0, <2>3, <3>1, <3>2 DEF ProfileCommit, Types_
  <2>4. CASE GrantCommit(r)
    <3>1. [status |-> "active", revoked_at |-> NULL] \in Revocation
      BY DEF Revocation
    <3>2. DOMAIN consent' \subseteq Requests /\ consent' \in [DOMAIN consent' -> Revocation]
      BY <1>0, <2>4, <3>1 DEF GrantCommit, Types_
    <3> QED
      BY <1>0, <2>0, <2>4, <3>2 DEF GrantCommit, Types_
  <2>5. CASE RevokeCommit(r)
    <3>1. request[r].consent \in DOMAIN consent
      BY <2>5 DEF RevokeCommit, In, IInv, Good, Revokes
    <3>2. consent[request[r].consent] \in Revocation
      BY <1>0, <3>1 DEF Types_
    <3>3. PICK c : c = IF Revocable(request[r].consent) THEN r ELSE consent[request[r].consent].revoked_at
      OBVIOUS
    <3>4. c \in Requests
      BY <3>2, <3>3 DEF Revocation, Revocable
    <3>5. [status |-> "revoked", revoked_at |-> c] \in Revocation
      BY <3>4 DEF Revocation
    <3>6. consent' = [consent EXCEPT ![request[r].consent] = [status |-> "revoked", revoked_at |-> c]]
      BY <2>5, <3>3 DEF RevokeCommit
    <3>7. DOMAIN consent' = DOMAIN consent /\ consent' \in [DOMAIN consent -> Revocation]
      BY <1>0, <3>1, <3>5, <3>6 DEF Types_
    <3> QED
      BY <1>0, <2>0, <2>5, <3>7 DEF RevokeCommit, Types_
  <2>6. CASE Audit(r)
    BY <1>0, <2>0, <2>6 DEF Audit, Types_
  <2> QED
    BY <1>2, <2>1, <2>2, <2>3, <2>4, <2>5, <2>6
       DEF Step, Arrive, PutUpsert, PutReplace, Select, Answer, Lost
<1> QED
  BY <1>1, <1>2 DEF Next

-----------------------------------------------------------------------------
(* What each step does to the rows and to the history                       *)

\* The last version becomes that of r.
LEMMA GrowsBy ==
  ASSUME NEW s \in Seq(Writer), NEW r \in Writer, NEW t, t = Append(s, r)
  PROVE  /\ Len(s) \in Nat /\ Len(t) = Len(s) + 1 /\ t[Len(t)] = r
         /\ Len(s) <= Len(t)
         /\ \A k \in 1 .. Len(s) : t[k] = s[k]
BY Appended

LEMMA PutCommitWrites ==
  ASSUME IInv, NEW r \in Requests, PutCommit(r)
  PROVE  /\ history'.perfil = history.perfil
         /\ history'.preferencias = Append(history.preferencias, r)
         /\ UNCHANGED <<is_active, consent, auditoria>>
         /\ filas' \in [Tables -> SUBSET Writer]
         /\ \A t \in Preferencias : filas'[t] = {r}
         /\ filas'["usuario"] = filas["usuario"]
<1>1. /\ DOMAIN request[r].gone = {"usuario_deporte", "disponibilidad"}
      /\ \A t \in {"usuario_deporte", "disponibilidad"} : request[r].gone[t] = filas[t]
  BY DEF IInv, Exclusive, PutCommit, In
<1>2. filas' = [t \in Tables |-> CASE t \in DOMAIN request[r].gone -> (filas[t] \ request[r].gone[t]) \cup {r}
                                   [] t = "usuario" -> filas[t]
                                   [] OTHER -> {r}]
  BY DEF PutCommit
<1>3. \A t \in Preferencias : filas'[t] = {r}
  BY <1>1, <1>2 DEF Tables, Preferencias
<1>4. filas'["usuario"] = filas["usuario"]
  BY <1>1, <1>2 DEF Tables, Preferencias
<1>5. filas' \in [Tables -> SUBSET Writer]
  BY TypesStep DEF Next, Step, Types_
<1> QED
  BY <1>3, <1>4, <1>5 DEF PutCommit, IInv, Types_

LEMMA ProfileCommitWrites ==
  ASSUME IInv, NEW r \in Requests, ProfileCommit(r)
  PROVE  /\ history'.preferencias = history.preferencias
         /\ history'.perfil = Append(history.perfil, r)
         /\ UNCHANGED <<is_active, consent, auditoria>>
         /\ \A t \in Preferencias : filas'[t] = filas[t]
         /\ filas'["usuario"] = {r}
<1>1. filas \in [Tables -> SUBSET Writer]
  BY DEF IInv, Types_
<1> QED
  BY <1>1 DEF ProfileCommit, IInv, Types_, Tables, Preferencias

\* Request r finds its consent revoked at c, or revokes it then.
RevokedAs(r, c) ==
  /\ request[r].consent \in DOMAIN consent
  /\ DOMAIN consent' = DOMAIN consent
  /\ consent'[request[r].consent] = [status |-> "revoked", revoked_at |-> c]
  /\ consent[request[r].consent].status = "revoked" => consent'[request[r].consent] = consent[request[r].consent]
  /\ \A d \in DOMAIN consent : d # request[r].consent => consent'[d] = consent[d]

Told(r, c) == request' = [request EXCEPT ![r] = [request[r] EXCEPT !.phase = "read", !.answer = c]]

LEMMA RevokeCommitWrites ==
  ASSUME IInv, NEW r \in Requests, RevokeCommit(r)
  PROVE  /\ \E c \in Requests : RevokedAs(r, c) /\ Told(r, c)
         /\ UNCHANGED <<is_active, filas, auditoria, history>>
<1>1. request[r].consent \in DOMAIN consent
  BY DEF RevokeCommit, In, IInv, Good, Revokes
<1>2. consent[request[r].consent] \in Revocation
  BY <1>1 DEF IInv, Types_
<1>3. PICK c : c = IF Revocable(request[r].consent) THEN r ELSE consent[request[r].consent].revoked_at
  OBVIOUS
<1>4. c \in Requests
  BY <1>2, <1>3 DEF Revocation, Revocable
<1>5. consent' = [consent EXCEPT ![request[r].consent] = [status |-> "revoked", revoked_at |-> c]]
  BY <1>3 DEF RevokeCommit
<1>6. consent[request[r].consent].status = "revoked" =>
        consent[request[r].consent] = [status |-> "revoked", revoked_at |-> c]
  BY <1>2, <1>3 DEF Revocation, Revocable
<1>7. consent \in [DOMAIN consent -> Revocation]
  BY DEF IInv, Types_
<1>8. RevokedAs(r, c)
  BY <1>1, <1>5, <1>6, <1>7 DEF RevokedAs
<1>9. Told(r, c)
  BY <1>3 DEF RevokeCommit, Told
<1>10. UNCHANGED <<is_active, filas, auditoria, history>>
  BY DEF RevokeCommit
<1> QED
  BY <1>4, <1>8, <1>9, <1>10

LEMMA GrowsStep == ASSUME IInv, [Next]_vars PROVE Grows
<1>0. Types_ /\ Types_'
  BY TypesStep DEF IInv
<1>1. CASE UNCHANGED <<consent, history>>
  BY <1>0, <1>1, Lengths DEF Grows
<1>2. ASSUME NEW r \in Requests, PutCommit(r) PROVE Grows
  BY <1>0, <1>2, Lengths, PutCommitWrites, GrowsBy DEF Grows, Types_, Writer
<1>3. ASSUME NEW r \in Requests, ProfileCommit(r) PROVE Grows
  BY <1>0, <1>3, Lengths, ProfileCommitWrites, GrowsBy DEF Grows, Types_, Writer
<1>4. ASSUME NEW r \in Requests, GrantCommit(r) PROVE Grows
  <2>1. r \notin DOMAIN consent
    BY <1>4 DEF GrantCommit, In, IInv, Good, Committed
  <2> QED
    BY <1>0, <1>4, <2>1, Lengths DEF Grows, GrantCommit
<1>5. ASSUME NEW r \in Requests, RevokeCommit(r) PROVE Grows
  <2>1. PICK c \in Requests : RevokedAs(r, c)
    BY <1>5, RevokeCommitWrites
  <2>2. history' = history
    BY <1>5, RevokeCommitWrites
  <2> QED
    BY <1>0, <2>1, <2>2, Lengths DEF Grows, RevokedAs
<1> QED
  BY <1>1, <1>2, <1>3, <1>4, <1>5
     DEF Next, vars, DeleteAccount, Step, Arrive, PutUpsert, PutReplace, Select, Audit, Answer, Lost

-----------------------------------------------------------------------------
(* What each step leaves to the request that takes it                       *)

\* Of the fields, only the phase changes.
OnlyPhase(r, p) ==
  /\ request'[r].phase = p /\ request'[r].kind = request[r].kind
  /\ request'[r].consent = request[r].consent /\ request'[r].answer = request[r].answer
  /\ request'[r].gone = request[r].gone /\ request'[r].seen = request[r].seen
  /\ request'[r].since = request[r].since

LEMMA GoFields ==
  ASSUME Types_, NEW r \in Requests, NEW p, Go(r, p)
  PROVE  OnlyPhase(r, p)
<1>1. request \in [Requests -> State] /\ request[r] \in State
  BY DEF Types_
<1>2. PICK s \in State : s = request[r]
  BY <1>1
<1>3. request'[r] = [s EXCEPT !.phase = p]
  BY <1>1, <1>2 DEF Go
<1>4. PICK n : n = [s EXCEPT !.phase = p]
  OBVIOUS
<1>5. /\ n.phase = p /\ n.kind = s.kind /\ n.consent = s.consent /\ n.answer = s.answer /\ n.gone = s.gone
      /\ n.seen = s.seen /\ n.since = s.since
  BY <1>2, <1>4 DEF State
<1> QED
  BY <1>2, <1>3, <1>4, <1>5 DEF OnlyPhase

LEMMA BeganStays ==
  ASSUME Types_, Types_', Grows, NEW r \in Requests, Began(r), Versions(r),
         request'[r].seen = request[r].seen, request'[r].since = request[r].since
  PROVE  Began(r)' /\ Versions(r)'
<1>1. /\ \A k \in 1 .. Len(history.perfil) : k \in 1 .. Len(history'.perfil)
      /\ \A k \in 1 .. Len(history.preferencias) : k \in 1 .. Len(history'.preferencias)
  BY Lengths DEF Grows
<1>2. Began(r)'
  BY <1>1 DEF Began
<1> QED
  BY <1>2, VersionsStay

\* A request that ends without success.
LEMMA FailGood ==
  ASSUME IInv, Types_', NEW r \in Requests, Fail(r), UNCHANGED <<consent, auditoria, history>>
  PROVE  Good(r)'
<1>0. Types_ /\ Good(r)
  BY DEF IInv
<1>1. PICK s : Failed(s, request[r].kind)
  BY DEF Failed
<1>2. /\ s.kind = request[r].kind /\ s.phase = "failed" /\ s.answer = NULL
      /\ s.since.perfil = 1 /\ s.since.preferencias = 1 /\ DOMAIN s.seen = {}
  BY <1>0, <1>1, StateFields, IdleFails DEF Types_
<1>3. request'[r] = s
  BY <1>0, <1>1 DEF Fail, Failed, Types_
<1>4. Located(r)' /\ Places(r)' /\ Revokes(r)'
  BY <1>2, <1>3 DEF Located, Places, Revokes, InTransaction
<1>5. Committed(r)' /\ Audited(r)'
  BY <1>0, <1>2, <1>3 DEF Good, Committed, Audited
<1>6. Began(r)'
  BY <1>0, <1>2, <1>3, Lengths DEF Began
<1>7. Versions(r)'
  BY <1>0, <1>2, <1>3, <1>6, VersionsNone
<1> QED
  BY <1>4, <1>5, <1>6, <1>7 DEF Good

LEMMA ArriveGood ==
  ASSUME IInv, Types_', NEW r \in Requests, NEW c \in Requests \cup {NULL},
         NEW kind \in {"preferences", "profile", "get", "export", "grant", "revoke"},
         Arrive(r, kind, c), kind = "revoke" => c \in DOMAIN consent
  PROVE  Good(r)'
<1>0. Types_ /\ Good(r)
  BY DEF IInv
<1>1. PICK m \in Moments : m = WrittenByNow
  BY <1>0, MomentNow
<1>2. PICK p \in Phase : p = IF kind \in {"get", "export"} THEN "reading" ELSE "arrived"
  BY DEF Phase
<1>3. PICK s : Arrived(s, kind, p, c, m)
  BY DEF Arrived
<1>4. request'[r] = s
  BY <1>0, <1>1, <1>2, <1>3 DEF Arrive, Arrived, Types_
<1>5. /\ s \in State /\ s.kind = kind /\ s.phase = p /\ s.consent = c /\ s.answer = NULL /\ s.since = m
      /\ DOMAIN s.gone = {} /\ DOMAIN s.seen = {}
  <2>1. kind \in {"preferences", "profile", "get", "export", "grant", "revoke", NULL}
    OBVIOUS
  <2> QED
    BY <1>3, <2>1, IdleArrives
<1>6. request[r].phase = "idle" /\ UNCHANGED <<is_active, filas, consent, auditoria, history>>
  BY DEF Arrive
<1>7. r \notin auditoria /\ r \notin DOMAIN consent
  BY <1>0, <1>6 DEF Good, Audited, Committed
<1>8. Located(r)' /\ Revokes(r)'
  BY <1>2, <1>4, <1>5, <1>6 DEF Located, Revokes, InTransaction
<1>9. Committed(r)'
  BY <1>2, <1>4, <1>5, <1>6, <1>7 DEF Committed
<1>10. Audited(r)'
  BY <1>2, <1>4, <1>5, <1>6, <1>7 DEF Audited
<1>11. Places(r)'
  BY <1>2, <1>4, <1>5, PrefixSize DEF Places, Prefix
<1>12. Began(r)'
  BY <1>0, <1>1, <1>4, <1>5, <1>6, Lengths DEF Began, WrittenByNow
<1>13. Versions(r)'
  BY <1>0, <1>4, <1>5, <1>12, VersionsNone
<1> QED
  BY <1>8, <1>9, <1>10, <1>11, <1>12, <1>13 DEF Good

LEMMA PutGood ==
  ASSUME IInv, Types_', Grows, NEW r \in Requests, PutUpsert(r) \/ PutReplace(r)
  PROVE  Good(r)'
<1>0. Types_ /\ Good(r)
  BY DEF IInv
<1>1. PICK p \in {"upserted", "sports", "windows"} :
        /\ request'[r].phase = p /\ request'[r].kind = request[r].kind
        /\ request'[r].consent = request[r].consent /\ request'[r].answer = request[r].answer
        /\ request'[r].seen = request[r].seen /\ request'[r].since = request[r].since
        /\ p = "upserted" => request'[r].gone = request[r].gone /\ request[r].phase = "arrived"
  <2>1. CASE PutUpsert(r)
    BY <1>0, <2>1, GoFields DEF PutUpsert, OnlyPhase, In
  <2>2. ASSUME NEW table, NEW p \in {"sports", "windows"}, Delete(r, table, p)
        PROVE  /\ request'[r].phase = p /\ request'[r].kind = request[r].kind
               /\ request'[r].consent = request[r].consent /\ request'[r].answer = request[r].answer
               /\ request'[r].seen = request[r].seen /\ request'[r].since = request[r].since
    <3>1. PICK s \in State : s = request[r]
      BY <1>0 DEF Types_
    <3>2. PICK g : g = [t \in DOMAIN s.gone \cup {table} |-> IF t = table THEN filas[t] ELSE s.gone[t]]
      OBVIOUS
    <3>3. request'[r] = [s EXCEPT !.phase = p, !.gone = g]
      BY <1>0, <2>2, <3>1, <3>2 DEF Delete, State, Types_
    <3>4. PICK n : n = [s EXCEPT !.phase = p, !.gone = g]
      OBVIOUS
    <3>5. /\ n.phase = p /\ n.kind = s.kind /\ n.consent = s.consent /\ n.answer = s.answer
          /\ n.seen = s.seen /\ n.since = s.since
      BY <3>1, <3>4 DEF State
    <3> QED
      BY <3>1, <3>3, <3>4, <3>5
  <2> QED
    BY <2>1, <2>2 DEF PutReplace
<1>2. /\ request[r].kind = "preferences" /\ request[r].phase \in {"arrived", "upserted", "sports"}
      /\ UNCHANGED <<consent, auditoria, history>>
  BY DEF PutUpsert, PutReplace, In
<1>3. Located(r)'
  BY <1>0, <1>1, <1>2 DEF Located, InTransaction, Good
<1>4. Revokes(r)' /\ Committed(r)' /\ Audited(r)' /\ Places(r)'
  BY <1>0, <1>1, <1>2 DEF Good, Revokes, Committed, Audited, Places
<1>5. Began(r)' /\ Versions(r)'
  BY <1>0, <1>1, BeganStays DEF Good
<1> QED
  BY <1>3, <1>4, <1>5 DEF Good

\* A change is committed, and the account is read again.
ReadAgain(r, m) ==
  /\ request'[r].phase = "reading" /\ request'[r].kind = request[r].kind
  /\ request'[r].consent = request[r].consent /\ request'[r].answer = request[r].answer
  /\ request'[r].seen = request[r].seen /\ request'[r].since = m

LEMMA ReadingAgainFields ==
  ASSUME Types_, NEW r \in Requests, NEW m, request' = ReadingAgain(r, m)
  PROVE  ReadAgain(r, m)
<1>1. PICK s \in State : s = request[r]
  BY DEF Types_
<1>2. PICK n : n = [s EXCEPT !.phase = "reading", !.gone = Idle.gone, !.since = m]
  OBVIOUS
<1>3. request'[r] = n
  BY <1>1, <1>2 DEF ReadingAgain, State, Types_
<1>4. /\ n.phase = "reading" /\ n.kind = s.kind /\ n.consent = s.consent /\ n.answer = s.answer
      /\ n.seen = s.seen /\ n.since = m
  BY <1>1, <1>2 DEF State
<1> QED
  BY <1>1, <1>3, <1>4 DEF ReadAgain

LEMMA CommitGood ==
  ASSUME IInv, Types_', Grows, NEW r \in Requests, PutCommit(r) \/ ProfileCommit(r)
  PROVE  Good(r)'
<1>0. Types_ /\ Good(r)
  BY DEF IInv
<1>1. PICK m : /\ ReadAgain(r, m)
               /\ m.perfil = Len(history'.perfil) /\ m.preferencias = Len(history'.preferencias)
               /\ request[r].kind = "preferences" => history'.preferencias[m.preferencias] = r
               /\ request[r].kind = "profile" => history'.perfil[m.perfil] = r
  <2>0. r \in Writer /\ history.perfil \in Seq(Writer) /\ history.preferencias \in Seq(Writer)
    BY <1>0 DEF Writer, Types_
  <2>1. CASE PutCommit(r)
    <3>1. PICK m : m = [WrittenByNow EXCEPT !.preferencias = @ + 1]
      OBVIOUS
    <3>2. m.perfil = Len(history.perfil) /\ m.preferencias = Len(history.preferencias) + 1
      BY <3>1 DEF WrittenByNow
    <3>3. ReadAgain(r, m)
      BY <1>0, <2>1, <3>1, ReadingAgainFields DEF PutCommit
    <3> QED
      BY <2>0, <2>1, <3>2, <3>3, PutCommitWrites, GrowsBy DEF PutCommit, In
  <2>2. CASE ProfileCommit(r)
    <3>1. PICK m : m = [WrittenByNow EXCEPT !.perfil = @ + 1]
      OBVIOUS
    <3>2. m.perfil = Len(history.perfil) + 1 /\ m.preferencias = Len(history.preferencias)
      BY <3>1 DEF WrittenByNow
    <3>3. ReadAgain(r, m)
      BY <1>0, <2>2, <3>1, ReadingAgainFields DEF ProfileCommit
    <3> QED
      BY <2>0, <2>2, <3>2, <3>3, ProfileCommitWrites, GrowsBy DEF ProfileCommit, In
  <2> QED
    BY <2>1, <2>2
<1>2. /\ request[r].kind \in {"preferences", "profile"} /\ request[r].phase \in {"arrived", "windows"}
      /\ UNCHANGED <<consent, auditoria>>
  BY DEF PutCommit, ProfileCommit, In
<1>3. Located(r)' /\ Revokes(r)'
  BY <1>0, <1>1, <1>2 DEF Good, Located, Revokes, ReadAgain, InTransaction
<1>4. Committed(r)'
  BY <1>0, <1>1, <1>2 DEF Good, Committed, ReadAgain
<1>5. Audited(r)'
  BY <1>0, <1>1, <1>2 DEF Good, Audited, ReadAgain
<1>6. DOMAIN request'[r].seen = {}
  BY <1>0, <1>1, <1>2 DEF Good, Places, ReadAgain
<1>7. Places(r)'
  BY <1>1, <1>6, PrefixSize DEF Places, ReadAgain, Prefix
<1>8. Began(r)'
  BY <1>0, <1>1, Lengths DEF Began, ReadAgain, Types_
<1>9. Versions(r)'
  BY <1>0, <1>6, <1>8, VersionsNone
<1> QED
  BY <1>3, <1>4, <1>5, <1>7, <1>8, <1>9 DEF Good

LEMMA ConsentGood ==
  ASSUME IInv, Types_', Grows, NEW r \in Requests, GrantCommit(r) \/ RevokeCommit(r)
  PROVE  Good(r)'
<1>0. Types_ /\ Good(r)
  BY DEF IInv
<1>1. CASE GrantCommit(r)
  <2>1. OnlyPhase(r, "read")
    BY <1>0, <1>1, GoFields DEF GrantCommit
  <2>2. /\ request[r].kind = "grant" /\ request[r].phase = "arrived"
        /\ UNCHANGED <<auditoria, history>> /\ DOMAIN consent' = DOMAIN consent \cup {r}
    BY <1>1 DEF GrantCommit, In
  <2>3. Located(r)' /\ Committed(r)' /\ Places(r)'
    BY <1>0, <2>1, <2>2 DEF Good, Located, Committed, Places, OnlyPhase, InTransaction
  <2>4. Audited(r)'
    BY <1>0, <2>1, <2>2 DEF Good, Audited, OnlyPhase
  <2>5. Revokes(r)'
    BY <1>0, <2>1, <2>2 DEF Good, Revokes, OnlyPhase, Grows
  <2>6. Began(r)' /\ Versions(r)'
    BY <1>0, <2>1, BeganStays DEF Good, OnlyPhase
  <2> QED
    BY <2>3, <2>4, <2>5, <2>6 DEF Good
<1>2. CASE RevokeCommit(r)
  <2>1. PICK c \in Requests : RevokedAs(r, c) /\ Told(r, c)
    BY <1>2, RevokeCommitWrites
  <2>2. /\ request'[r].phase = "read" /\ request'[r].kind = request[r].kind
        /\ request'[r].consent = request[r].consent /\ request'[r].answer = c
        /\ request'[r].seen = request[r].seen /\ request'[r].since = request[r].since
    <3>1. PICK s \in State : s = request[r]
      BY <1>0 DEF Types_
    <3>2. PICK n : n = [s EXCEPT !.phase = "read", !.answer = c]
      OBVIOUS
    <3>3. request'[r] = n
      BY <1>0, <2>1, <3>1, <3>2 DEF Told, Types_
    <3>4. /\ n.phase = "read" /\ n.kind = s.kind /\ n.consent = s.consent /\ n.answer = c
          /\ n.seen = s.seen /\ n.since = s.since
      BY <3>1, <3>2 DEF State
    <3> QED
      BY <3>1, <3>3, <3>4
  <2>3. /\ request[r].kind = "revoke" /\ request[r].phase = "arrived"
        /\ UNCHANGED <<auditoria, history>>
    BY <1>2 DEF RevokeCommit, In
  <2>4. Located(r)' /\ Committed(r)' /\ Places(r)'
    BY <1>0, <2>1, <2>2, <2>3 DEF Good, Located, Committed, Places, InTransaction, RevokedAs
  <2>5. Audited(r)'
    BY <1>0, <2>1, <2>2, <2>3 DEF Good, Audited, RevokedAs
  <2>6. Revokes(r)'
    BY <1>0, <2>1, <2>2, <2>3, ProfileAssumption DEF Revokes, RevokedAs
  <2>7. Began(r)' /\ Versions(r)'
    BY <1>0, <2>2, BeganStays DEF Good
  <2> QED
    BY <2>4, <2>5, <2>6, <2>7 DEF Good
<1> QED
  BY <1>1, <1>2

LEMMA InPrefix == \A n \in 0..5 : \A i \in 1..5 : SelectOrder[i] \in Prefix(n) <=> i <= n
<1>1. \A i, j \in 1..5 : SelectOrder[i] = SelectOrder[j] => i = j
  BY DEF SelectOrder
<1>2. \A n \in 0..5 : \A i \in 1..5 : i <= n => i \in 1..n
  OBVIOUS
<1>3. \A n \in 0..5 : \A i \in 1..n : i \in 1..5 /\ i <= n
  OBVIOUS
<1> QED
  BY <1>1, <1>2, <1>3 DEF Prefix

\* One SELECT more: table n + 1 as it is now.
ReadsMore(r, n) ==
  /\ request'[r].kind = request[r].kind /\ request'[r].consent = request[r].consent
  /\ request'[r].answer = request[r].answer /\ request'[r].since = request[r].since
  /\ request'[r].phase = (IF n = 4 THEN "read" ELSE "reading")
  /\ DOMAIN request'[r].seen = Prefix(n + 1)
  /\ request'[r].seen[SelectOrder[n + 1]] = filas[SelectOrder[n + 1]]
  /\ \A t \in Prefix(n) : request'[r].seen[t] = request[r].seen[t]

LEMMA SelectFields ==
  ASSUME IInv, NEW r \in Requests, Select(r), ~Fail(r)
  PROVE  \E n \in 0..4 : DOMAIN request[r].seen = Prefix(n) /\ ReadsMore(r, n)
<1>0. Types_ /\ Places(r) /\ request[r].phase = "reading"
  BY DEF IInv, Good, Select
<1>1. PICK n \in 0..4 :
        /\ DOMAIN request[r].seen = Prefix(n)
        /\ Cardinality(DOMAIN request[r].seen) + 1 = n + 1
        /\ SelectOrder[n + 1] = "preferencia_perfil" <=> n = 4
  BY <1>0, NextTable
<1>2. PICK table : table = SelectOrder[n + 1]
  OBVIOUS
<1>3. PICK p : p = IF table = "preferencia_perfil" THEN "read" ELSE "reading"
  OBVIOUS
<1>4. PICK s \in State : s = request[r]
  BY <1>0 DEF Types_
<1>5. PICK g : g = [t \in DOMAIN s.seen \cup {table} |-> IF t = table THEN filas[t] ELSE s.seen[t]]
  OBVIOUS
<1>6. PICK x : x = [s EXCEPT !.seen = g, !.phase = p]
  OBVIOUS
<1>7. request'[r] = x
  <2>1. request' = [request EXCEPT
                      ![r].seen = [t \in DOMAIN @ \cup {table} |-> IF t = table THEN filas[t] ELSE @[t]], ![r].phase = p]
    BY <1>1, <1>2, <1>3 DEF Select
  <2>2. request' = [request EXCEPT ![r] = [s EXCEPT !.seen = g, !.phase = p]]
    BY <1>0, <1>4, <1>5, <2>1 DEF State, Types_
  <2> QED
    BY <1>0, <1>6, <2>2 DEF Types_
<1>8. /\ x.kind = s.kind /\ x.consent = s.consent /\ x.answer = s.answer /\ x.since = s.since
      /\ x.phase = p /\ x.seen = g
  BY <1>4, <1>6 DEF State
<1>9. Prefix(n + 1) = Prefix(n) \cup {table} /\ table \notin Prefix(n)
  BY <1>2, PrefixSize
<1>10. DOMAIN s.seen = Prefix(n)
  BY <1>1, <1>4
<1>11. DOMAIN g = Prefix(n + 1) /\ g[table] = filas[table] /\ \A t \in Prefix(n) : g[t] = s.seen[t]
  BY <1>5, <1>9, <1>10
<1>12. p = IF n = 4 THEN "read" ELSE "reading"
  BY <1>1, <1>2, <1>3
<1>13. ReadsMore(r, n)
  BY <1>2, <1>4, <1>7, <1>8, <1>11, <1>12 DEF ReadsMore
<1> QED
  BY <1>1, <1>13

LEMMA SelectVersions ==
  ASSUME IInv, Types_', NEW r \in Requests, UNCHANGED history, NEW n \in 0..4,
         DOMAIN request[r].seen = Prefix(n), ReadsMore(r, n)
  PROVE  Versions(r)'
<1> DEFINE since == request[r].since
<1> DEFINE seen == request'[r].seen
<1> DEFINE last == Len(history.preferencias)
<1>0. /\ Types_ /\ Types_' /\ Versions(r) /\ Began(r)
      /\ last \in Nat /\ last >= 1 /\ Len(history.perfil) \in Nat /\ Len(history.perfil) >= 1
  BY Lengths DEF IInv, Good
<1>1. PICK k \in [2..5 -> since.preferencias .. last] :
        \A i \in 2..5 :
          /\ i > 2 => k[i - 1] <= k[i]
          /\ SelectOrder[i] \in Prefix(n) => request[r].seen[SelectOrder[i]] = {history.preferencias[k[i]]}
  BY <1>0 DEF Versions
<1>2. last \in since.preferencias .. last /\ \A i \in 2..5 : k[i] \in Int /\ k[i] <= last
  BY <1>0, <1>1 DEF Began
<1>3. \A i \in 2..5 : SelectOrder[i] \in Preferencias
  BY DEF SelectOrder, Preferencias
<1>4. \A i \in 2..5 : filas[SelectOrder[i]] = {history.preferencias[last]}
  BY <1>3 DEF IInv, PreferencesWhole
<1> HIDE DEF last, since
<1>5. PICK j : j = [i \in 2..5 |-> IF i <= n THEN k[i] ELSE last]
  OBVIOUS
<1>6. j \in [2..5 -> since.preferencias .. last]
  BY <1>2, <1>5
<1>7. \A i \in 2..5 : i > 2 => j[i - 1] <= j[i]
  <2>1. \A i \in 2..5 : i > 2 => i - 1 \in 2..5
    OBVIOUS
  <2> QED
    BY <1>0, <1>1, <1>2, <1>5, <2>1
<1>8. ASSUME NEW i \in 2..5, SelectOrder[i] \in DOMAIN seen
      PROVE  seen[SelectOrder[i]] = {history.preferencias[j[i]]}
  <2>0. i <= n + 1
    <3>1. SelectOrder[i] \in Prefix(n + 1) /\ i \in 1..5 /\ n + 1 \in 0..5
      BY <1>8 DEF ReadsMore
    <3> QED
      BY <3>1, InPrefix
  <2>1. CASE i <= n
    <3>1. SelectOrder[i] \in Prefix(n)
      <4>1. i \in 1..5 /\ n \in 0..5
        OBVIOUS
      <4> QED
        BY <2>1, <4>1, InPrefix
    <3>2. seen[SelectOrder[i]] = request[r].seen[SelectOrder[i]]
      BY <3>1 DEF ReadsMore
    <3> QED
      BY <1>1, <1>5, <2>1, <3>1, <3>2
  <2>2. CASE i = n + 1
    <3>1. seen[SelectOrder[i]] = filas[SelectOrder[i]]
      BY <2>2 DEF ReadsMore
    <3>2. j[i] = last
      BY <1>5, <2>2
    <3> QED
      BY <1>4, <3>1, <3>2
  <2> QED
    BY <2>0, <2>1, <2>2
<1>9. "usuario" \in DOMAIN seen =>
        \E m \in since.perfil .. Len(history.perfil) : seen["usuario"] = {history.perfil[m]}
  <2>1. SelectOrder[1] = "usuario"
    BY DEF SelectOrder
  <2>2. CASE n = 0
    <3>1. seen["usuario"] = {history.perfil[Len(history.perfil)]}
      <4>1. seen[SelectOrder[n + 1]] = filas[SelectOrder[n + 1]] /\ SelectOrder[n + 1] = "usuario"
        BY <2>1, <2>2 DEF ReadsMore
      <4> QED
        BY <4>1 DEF IInv, ProfileWhole
    <3>2. Len(history.perfil) \in since.perfil .. Len(history.perfil)
      BY <1>0 DEF Began, since
    <3> QED
      BY <3>1, <3>2
  <2>3. CASE n # 0
    <3>1. "usuario" \in Prefix(n)
      <4>1. 1 <= n /\ n \in 0..5 /\ 1 \in 1..5
        BY <2>3
      <4> QED
        BY <2>1, <4>1, InPrefix
    <3>2. seen["usuario"] = request[r].seen["usuario"]
      BY <3>1 DEF ReadsMore
    <3> QED
      BY <1>0, <3>1, <3>2 DEF Versions, since
  <2> QED
    BY <2>2, <2>3
<1>10. request'[r].since = since
  BY DEF ReadsMore, since
<1>11. history' = history
  OBVIOUS
<1> HIDE DEF seen
<1> QED
  BY <1>6, <1>7, <1>8, <1>9, <1>10, <1>11 DEF Versions, seen, last

LEMMA SelectGood ==
  ASSUME IInv, Types_', Grows, NEW r \in Requests, Select(r)
  PROVE  Good(r)'
<1>0. Types_ /\ Good(r) /\ UNCHANGED <<consent, auditoria, history>> /\ request[r].phase = "reading"
  BY DEF IInv, Select
<1>1. CASE Fail(r)
  BY <1>0, <1>1, FailGood
<1>2. CASE ~Fail(r)
  <2>1. PICK n \in 0..4 : DOMAIN request[r].seen = Prefix(n) /\ ReadsMore(r, n)
    BY <1>2, SelectFields
  <2>2. Located(r)' /\ Revokes(r)'
    BY <1>0, <2>1 DEF Good, Located, Revokes, ReadsMore, InTransaction
  <2>3. Committed(r)'
    BY <1>0, <2>1 DEF Good, Committed, Located, ReadsMore
  <2>4. Audited(r)'
    BY <1>0, <2>1 DEF Good, Audited, ReadsMore
  <2>5. Places(r)'
    <3>1. n # 4 => n + 1 \in 0..4
      OBVIOUS
    <3>2. n = 4 => n + 1 = 5
      OBVIOUS
    <3>3. \/ n = 4 /\ request'[r].phase = "read" /\ DOMAIN request'[r].seen = Prefix(5)
          \/ n # 4 /\ request'[r].phase = "reading" /\ DOMAIN request'[r].seen = Prefix(n + 1)
      BY <2>1, <3>2 DEF ReadsMore
    <3>4. "usuario" \in DOMAIN request'[r].seen
      <4>1. 1 \in 1..5 /\ n + 1 \in 0..5 /\ 1 <= n + 1 /\ DOMAIN request'[r].seen = Prefix(n + 1)
        BY <2>1 DEF ReadsMore
      <4>2. SelectOrder[1] \in Prefix(n + 1)
        BY <4>1, InPrefix
      <4> QED
        BY <4>1, <4>2 DEF SelectOrder
    <3> QED
      BY <3>1, <3>3 DEF Places, Prefix
  <2>6. Began(r)'
    BY <1>0, <2>1 DEF Good, Began, ReadsMore
  <2>7. Versions(r)'
    BY <1>0, <2>1, SelectVersions
  <2> QED
    BY <2>2, <2>3, <2>4, <2>5, <2>6, <2>7 DEF Good
<1> QED
  BY <1>1, <1>2

LEMMA AnswerGood ==
  ASSUME IInv, Types_', Grows, NEW r \in Requests, Audit(r) \/ Answer(r) \/ Lost(r)
  PROVE  Good(r)'
<1>0. Types_ /\ Good(r) /\ UNCHANGED <<consent, history>>
  BY DEF IInv, Audit, Answer, Lost
<1>1. CASE Audit(r)
  <2>1. request'[r] = request[r] /\ request[r].phase = "read" /\ request[r].kind # "get" /\ auditoria' = auditoria \cup {r}
    BY <1>1 DEF Audit, Auditable
  <2>2. Located(r)' /\ Places(r)' /\ Revokes(r)' /\ Committed(r)'
    BY <1>0, <2>1 DEF Good, Located, Places, Prefix, Revokes, Committed, InTransaction
  <2>3. Began(r)' /\ Versions(r)'
    BY <1>0, <2>1, BeganStays DEF Good
  <2>4. Audited(r)'
    BY <1>0, <2>1, Lengths DEF Good, Audited, Committed, Began, Revokes
  <2> QED
    BY <2>2, <2>3, <2>4 DEF Good
<1>2. CASE Answer(r)
  <2>1. /\ OnlyPhase(r, "done") /\ request[r].phase = "read" /\ auditoria' = auditoria
        /\ request[r].kind = "get" \/ r \in auditoria
    BY <1>0, <1>2, GoFields DEF Answer
  <2>2. Located(r)' /\ Places(r)' /\ Revokes(r)' /\ Committed(r)'
    BY <1>0, <2>1 DEF Good, Located, Places, Prefix, Revokes, Committed, OnlyPhase, InTransaction
  <2>3. Began(r)' /\ Versions(r)'
    BY <1>0, <2>1, BeganStays DEF Good, OnlyPhase
  <2>4. Audited(r)'
    BY <1>0, <2>1 DEF Good, Audited, OnlyPhase
  <2> QED
    BY <2>2, <2>3, <2>4 DEF Good
<1>3. CASE Lost(r)
  BY <1>0, <1>3, FailGood DEF Lost
<1> QED
  BY <1>1, <1>2, <1>3

-----------------------------------------------------------------------------
(* The steps together                                                       *)

\* A step of r is no step of another request.
LEMMA Others ==
  ASSUME IInv, NEW r \in Requests, Step(r), NEW q \in Requests, q # r
  PROVE  /\ request'[q] = request[q]
         /\ q \in auditoria' <=> q \in auditoria
         /\ q \in DOMAIN consent' <=> q \in DOMAIN consent
<1>0. request \in [Requests -> State]
  BY DEF IInv, Types_
<1>1. \A s : request' = [request EXCEPT ![r] = s] => request'[q] = request[q]
  BY <1>0
<1>2. request'[q] = request[q]
  <2>1. CASE \/ \E kind \in {"preferences", "profile", "get", "export", "grant"} : Arrive(r, kind, NULL)
             \/ \E c \in DOMAIN consent : Arrive(r, "revoke", c)
    BY <1>0, <2>1 DEF Arrive
  <2>2. CASE PutUpsert(r) \/ PutReplace(r)
    BY <1>0, <2>2 DEF PutUpsert, PutReplace, Go, Delete
  <2>3. CASE PutCommit(r) \/ ProfileCommit(r)
    BY <1>0, <2>3 DEF PutCommit, ProfileCommit, ReadingAgain
  <2>4. CASE Select(r)
    BY <1>0, <2>4 DEF Select, Fail
  <2>5. CASE GrantCommit(r) \/ Audit(r) \/ Answer(r) \/ Lost(r)
    BY <1>0, <2>5 DEF GrantCommit, Audit, Answer, Lost, Go, Fail
  <2>6. CASE RevokeCommit(r)
    BY <1>0, <2>6, RevokeCommitWrites DEF Told
  <2> QED
    BY <2>1, <2>2, <2>3, <2>4, <2>5, <2>6 DEF Step
<1>3. q \in auditoria' <=> q \in auditoria
  BY DEF Step, Arrive, PutUpsert, PutReplace, PutCommit, ProfileCommit, Select, GrantCommit, RevokeCommit, Audit,
         Answer, Lost
<1>4. q \in DOMAIN consent' <=> q \in DOMAIN consent
  <2>1. CASE RevokeCommit(r)
    BY <2>1, RevokeCommitWrites DEF RevokedAs
  <2>2. CASE GrantCommit(r)
    BY <2>2 DEF GrantCommit
  <2> QED
    BY <2>1, <2>2
       DEF Step, Arrive, PutUpsert, PutReplace, PutCommit, ProfileCommit, Select, Audit, Answer, Lost
<1> QED
  BY <1>2, <1>3, <1>4

LEMMA GoodStep == ASSUME IInv, [Next]_vars PROVE \A q \in Requests : Good(q)'
<1>0. Types_ /\ Types_' /\ Grows /\ \A q \in Requests : Good(q)
  BY TypesStep, GrowsStep DEF IInv
<1>1. CASE UNCHANGED <<consent, auditoria, request, history>>
  BY <1>0, <1>1, Stable
<1>2. ASSUME NEW r \in Requests, Step(r) PROVE Good(r)'
  <2>0. DOMAIN consent \subseteq Requests
    BY <1>0 DEF Types_
  <2>1. ASSUME NEW kind \in {"preferences", "profile", "get", "export", "grant"}, Arrive(r, kind, NULL)
        PROVE  Good(r)'
    BY <1>0, <2>1, ArriveGood
  <2>2. ASSUME NEW c \in DOMAIN consent, Arrive(r, "revoke", c) PROVE Good(r)'
    BY <1>0, <2>0, <2>2, ArriveGood
  <2>3. CASE PutUpsert(r) \/ PutReplace(r)
    BY <1>0, <2>3, PutGood
  <2>4. CASE PutCommit(r) \/ ProfileCommit(r)
    BY <1>0, <2>4, CommitGood
  <2>5. CASE Select(r)
    BY <1>0, <2>5, SelectGood
  <2>6. CASE GrantCommit(r) \/ RevokeCommit(r)
    BY <1>0, <2>6, ConsentGood
  <2>7. CASE Audit(r) \/ Answer(r) \/ Lost(r)
    BY <1>0, <2>7, AnswerGood
  <2> QED
    BY <1>2, <2>1, <2>2, <2>3, <2>4, <2>5, <2>6, <2>7 DEF Step
<1>3. ASSUME NEW r \in Requests, Step(r), NEW q \in Requests, q # r PROVE Good(q)'
  <2>1. /\ request'[q] = request[q]
        /\ q \in auditoria' <=> q \in auditoria
        /\ q \in DOMAIN consent' <=> q \in DOMAIN consent
    BY <1>3, Others
  <2> QED
    BY <1>0, <2>1, Stable
<1>4. ASSUME NEW r \in Requests, Step(r) PROVE \A q \in Requests : Good(q)'
  BY <1>2, <1>3, <1>4
<1> QED
  BY <1>1, <1>4 DEF Next, vars, DeleteAccount

\* Outside of these steps, nobody enters the transaction.
LEMMA Leaves ==
  ASSUME IInv, NEW r \in Requests, Step(r), ~PutUpsert(r), ~PutReplace(r), ~Audit(r)
  PROVE  ~InTransaction(r)'
<1>0. Types_
  BY DEF IInv
<1>1. ASSUME NEW p, Go(r, p) PROVE request'[r].phase = p
  BY <1>0, <1>1, GoFields DEF OnlyPhase
<1>2. Fail(r) => request'[r].phase = "failed"
  <2>1. HAVE Fail(r)
  <2>2. PICK s : Failed(s, request[r].kind)
    BY DEF Failed
  <2>3. s.phase = "failed"
    BY <1>0, <2>2, StateFields, IdleFails, SMTT(40) DEF Types_
  <2> QED
    BY <1>0, <2>1, <2>2, <2>3 DEF Fail, Failed, Types_
<1>3. ASSUME NEW kind, NEW c, Arrive(r, kind, c) PROVE request'[r].phase \in {"arrived", "reading"}
  <2>1. PICK p \in {"arrived", "reading"} : p = IF kind \in {"get", "export"} THEN "reading" ELSE "arrived"
    OBVIOUS
  <2>2. PICK s : s = [Idle EXCEPT !.kind = kind, !.phase = p, !.consent = c, !.since = WrittenByNow]
    OBVIOUS
  <2>3. s.phase = p
    BY <2>2 DEF Idle
  <2> QED
    BY <1>0, <1>3, <2>1, <2>2, <2>3 DEF Arrive, Types_
<1>4. CASE PutCommit(r) \/ ProfileCommit(r)
  BY <1>0, <1>4, ReadingAgainFields DEF PutCommit, ProfileCommit, ReadAgain, InTransaction
<1>5. CASE Select(r)
  BY <1>2, <1>5, SelectFields DEF ReadsMore, InTransaction
<1>6. CASE GrantCommit(r) \/ Answer(r) \/ Lost(r)
  BY <1>1, <1>2, <1>6 DEF GrantCommit, Answer, Lost, InTransaction
<1>7. CASE RevokeCommit(r)
  <2>1. PICK c : Told(r, c)
    BY <1>7, RevokeCommitWrites
  <2>2. request'[r].phase = "read"
    BY <1>0, <2>1 DEF Told, State, Types_
  <2> QED
    BY <2>2 DEF InTransaction
<1> QED
  BY <1>3, <1>4, <1>5, <1>6, <1>7 DEF Step, InTransaction

LEMMA ExclusiveStep == ASSUME IInv, [Next]_vars PROVE Exclusive'
<1>0. Types_ /\ Exclusive
  BY DEF IInv
<1>1. CASE UNCHANGED <<filas, request>>
  BY <1>0, <1>1 DEF Exclusive, InTransaction
<1>2. ASSUME NEW r \in Requests, Step(r) PROVE Exclusive'
  <2>0. \A q \in Requests : q # r => request'[q] = request[q]
    BY <1>2, Others
  <2>1. CASE PutUpsert(r)
    <3>1. OnlyPhase(r, "upserted") /\ Lockable /\ UNCHANGED filas
      BY <1>0, <2>1, GoFields DEF PutUpsert
    <3> QED
      BY <1>0, <2>0, <3>1 DEF Exclusive, InTransaction, Lockable, OnlyPhase
  <2>2. CASE PutReplace(r)
    <3>1. InTransaction(r) /\ UNCHANGED filas /\ Types_ /\ Good(r)
      BY <1>0, <2>2 DEF PutReplace, In, InTransaction, IInv
    <3>2. \A q \in Requests : q # r => ~InTransaction(q) /\ ~InTransaction(q)'
      BY <1>0, <2>0, <3>1 DEF Exclusive, InTransaction
    <3>3. PICK s \in State : s = request[r]
      BY <1>0 DEF Types_
    <3>4. ASSUME NEW table, NEW p \in {"sports", "windows"}, Delete(r, table, p)
          PROVE  /\ request'[r].phase = p
                 /\ DOMAIN request'[r].gone = DOMAIN s.gone \cup {table}
                 /\ request'[r].gone[table] = filas[table]
                 /\ \A t \in DOMAIN s.gone : t # table => request'[r].gone[t] = s.gone[t]
      <4>1. PICK g : g = [t \in DOMAIN s.gone \cup {table} |-> IF t = table THEN filas[t] ELSE s.gone[t]]
        OBVIOUS
      <4>2. PICK n : n = [s EXCEPT !.phase = p, !.gone = g]
        OBVIOUS
      <4>3. request'[r] = n
        BY <1>0, <3>3, <3>4, <4>1, <4>2 DEF Delete, State, Types_
      <4>4. n.phase = p /\ n.gone = g
        BY <3>3, <4>2 DEF State
      <4> QED
        BY <4>1, <4>3, <4>4
    <3>5. CASE In(r, "preferences", "upserted") /\ Delete(r, "usuario_deporte", "sports")
      <4>1. DOMAIN s.gone = {}
        BY <3>1, <3>3, <3>5 DEF Good, Located, In
      <4> QED
        BY <3>1, <3>2, <3>4, <3>5, <4>1 DEF Exclusive, InTransaction
    <3>6. CASE In(r, "preferences", "sports") /\ Delete(r, "disponibilidad", "windows")
      <4>1. DOMAIN s.gone = {"usuario_deporte"} /\ s.gone["usuario_deporte"] = filas["usuario_deporte"]
        BY <1>0, <3>3, <3>6 DEF Exclusive, In
      <4> QED
        BY <3>1, <3>2, <3>4, <3>6, <4>1 DEF Exclusive, InTransaction
    <3> QED
      BY <2>2, <3>5, <3>6 DEF PutReplace
  <2>3. CASE Audit(r)
    BY <1>0, <2>3 DEF Audit, Exclusive, InTransaction
  <2>4. CASE PutCommit(r)
    <3>1. InTransaction(r)
      BY <2>4 DEF PutCommit, In, InTransaction
    <3>2. \A q \in Requests : ~InTransaction(q)'
      <4>1. ~InTransaction(r)'
        BY <1>2, <2>4, Leaves DEF PutCommit, PutUpsert, PutReplace, Audit, Auditable, In
      <4> QED
        BY <1>0, <2>0, <3>1, <4>1 DEF Exclusive, InTransaction
    <3> QED
      BY <3>2 DEF Exclusive, InTransaction
  <2>5. CASE ~PutUpsert(r) /\ ~PutReplace(r) /\ ~Audit(r) /\ ~PutCommit(r)
    <3>1. ~InTransaction(r)'
      BY <1>2, <2>5, Leaves
    <3>2. filas'["usuario_deporte"] = filas["usuario_deporte"] /\ filas'["disponibilidad"] = filas["disponibilidad"]
      <4>1. CASE ProfileCommit(r)
        BY <4>1, ProfileCommitWrites DEF Preferencias
      <4> QED
        BY <1>2, <2>5, <4>1 DEF Step, Arrive, Select, GrantCommit, RevokeCommit, Answer, Lost
    <3>3. \A q \in Requests : InTransaction(q)' => InTransaction(q) /\ request'[q] = request[q]
      BY <2>0, <3>1 DEF InTransaction
    <3>4. \A q \in Requests : request'[q].phase \in {"sports", "windows"} =>
                                request'[q] = request[q] /\ InTransaction(q)
      BY <3>3 DEF InTransaction
    <3>5. \A q \in Requests : request'[q].phase = "sports" =>
            /\ DOMAIN request'[q].gone = {"usuario_deporte"}
            /\ request'[q].gone["usuario_deporte"] = filas'["usuario_deporte"]
      BY <1>0, <3>2, <3>4 DEF Exclusive
    <3>6. \A q \in Requests : request'[q].phase = "windows" =>
            /\ DOMAIN request'[q].gone = {"usuario_deporte", "disponibilidad"}
            /\ \A t \in {"usuario_deporte", "disponibilidad"} : request'[q].gone[t] = filas'[t]
      BY <1>0, <3>2, <3>4 DEF Exclusive
    <3>7. \A q, w \in Requests : InTransaction(q)' /\ InTransaction(w)' => q = w
      BY <1>0, <3>3 DEF Exclusive
    <3> QED
      BY <3>5, <3>6, <3>7 DEF Exclusive
  <2> QED
    BY <2>1, <2>2, <2>3, <2>4, <2>5
<1> QED
  BY <1>1, <1>2 DEF Next, vars, DeleteAccount

LEMMA WholeStep == ASSUME IInv, [Next]_vars PROVE PreferencesWhole' /\ ProfileWhole'
<1>0. Types_ /\ PreferencesWhole /\ ProfileWhole
  BY DEF IInv
<1>1. ASSUME NEW r \in Requests, PutCommit(r) PROVE PreferencesWhole' /\ ProfileWhole'
  <2>1. history'.preferencias[Len(history'.preferencias)] = r
    BY <1>0, <1>1, PutCommitWrites, GrowsBy DEF Types_, Writer
  <2> QED
    BY <1>0, <1>1, <2>1, PutCommitWrites DEF PreferencesWhole, ProfileWhole
<1>2. ASSUME NEW r \in Requests, ProfileCommit(r) PROVE PreferencesWhole' /\ ProfileWhole'
  <2>1. history'.perfil[Len(history'.perfil)] = r
    BY <1>0, <1>2, ProfileCommitWrites, GrowsBy DEF Types_, Writer
  <2> QED
    BY <1>0, <1>2, <2>1, ProfileCommitWrites DEF PreferencesWhole, ProfileWhole
<1>3. CASE UNCHANGED <<filas, history>>
  BY <1>0, <1>3 DEF PreferencesWhole, ProfileWhole
<1> QED
  BY <1>1, <1>2, <1>3
     DEF Next, vars, DeleteAccount, Step, Arrive, PutUpsert, PutReplace, Select, GrantCommit, RevokeCommit, Audit,
         Answer, Lost

LEMMA NextIInv == IInv /\ [Next]_vars => IInv'
<1> SUFFICES ASSUME IInv, [Next]_vars PROVE IInv'
  OBVIOUS
<1> QED
  BY TypesStep, ExclusiveStep, WholeStep, GoodStep DEF IInv

\* The invariant holds in every state: each step keeps it.
THEOREM Inductive == Spec => []IInv
BY InitIInv, NextIInv, PTL DEF Spec

-----------------------------------------------------------------------------
(* Theorems                                                                 *)

\* Tables and local states keep their types.
THEOREM Types == Spec => []TypeOK
<1>1. IInv => TypeOK
  <2> SUFFICES ASSUME IInv PROVE TypeOK
    OBVIOUS
  <2>0. Types_
    BY DEF IInv
  <2>1. ASSUME NEW r \in Requests
        PROVE  /\ request[r].kind \in {"preferences", "profile", "get", "export", "grant", "revoke", NULL}
               /\ request[r].phase \in Phase
               /\ request[r].consent \in Requests \cup {NULL} /\ request[r].answer \in Requests \cup {NULL}
               /\ request[r].gone \in Rows({"usuario_deporte", "disponibilidad"}) /\ request[r].seen \in Rows(Tables)
               /\ request[r].since \in Moments
    BY <2>0, StateFields DEF Types_
  <2>2. ASSUME NEW r \in Requests
        PROVE  /\ DOMAIN request[r].gone \subseteq {"usuario_deporte", "disponibilidad"}
               /\ \A t \in DOMAIN request[r].gone : request[r].gone[t] \subseteq Writer
               /\ DOMAIN request[r].seen \subseteq Tables
               /\ \A t \in DOMAIN request[r].seen : request[r].seen[t] \subseteq Writer
    BY <2>1, RowsAre
  <2>3. history.perfil \in Seq(Writer) /\ history.preferencias \in Seq(Writer)
    BY <2>0 DEF Types_
  <2> QED
    BY <2>0, <2>1, <2>2, <2>3 DEF TypeOK, Types_, Phase, Moments, Revocation
<1> QED
  BY <1>1, Inductive, PTL

\* However many PUTs replace the preferences at once, the tables hold those of exactly one of them.
THEOREM Whole == Spec => []PreferencesWhole
<1>1. IInv => PreferencesWhole
  BY DEF IInv
<1> QED
  BY <1>1, Inductive, PTL

\* The first revocation of a consent stands, and everybody is told its date.
THEOREM RevokedOnce == Spec => []RevocationStands
<1>1. IInv => RevocationStands
  BY DEF IInv, Good, Revokes, RevocationStands
<1> QED
  BY <1>1, Inductive, PTL

\* The audit has no row of what did not happen, and nothing audited is answered without its row.
THEOREM AuditTells == Spec => []AuditTruthful
<1>1. IInv => AuditTruthful
  BY DEF IInv, Good, Audited, AuditTruthful
<1> QED
  BY <1>1, Inductive, PTL

\* What a request answers was current, part by part and in the order it was read, and of a PUT nothing older than what
\* it wrote.
THEOREM Current == Spec => []AnswersCurrent
<1>1. IInv => AnswersCurrent
  <2> SUFFICES ASSUME IInv,
                      NEW r \in Requests,
                      request[r].phase \in {"read", "done"}, request[r].kind \notin {"grant", "revoke"}
               PROVE  /\ \E k \in request[r].since.perfil .. Len(history.perfil) :
                           /\ k \in DOMAIN WrittenIn("usuario")
                           /\ request[r].seen["usuario"] = {WrittenIn("usuario")[k]}
                      /\ \E k \in [2..5 -> request[r].since.preferencias .. Len(history.preferencias)] :
                           \A i \in 2..5 :
                             /\ k[i] \in DOMAIN WrittenIn(SelectOrder[i])
                             /\ request[r].seen[SelectOrder[i]] = {WrittenIn(SelectOrder[i])[k[i]]}
                             /\ i > 2 => k[i - 1] <= k[i]
                      /\ request[r].kind = "profile" => history.perfil[request[r].since.perfil] = r
                      /\ request[r].kind = "preferences" =>
                           history.preferencias[request[r].since.preferencias] = r
    BY DEF AnswersCurrent
  <2>0. Types_ /\ Good(r)
    BY DEF IInv
  <2>1. /\ Len(history.perfil) \in Nat /\ Len(history.preferencias) \in Nat
        /\ DOMAIN history.perfil = 1 .. Len(history.perfil)
        /\ DOMAIN history.preferencias = 1 .. Len(history.preferencias)
    BY <2>0, NotEmpty DEF Types_
  <2>2. /\ WrittenIn("usuario") = history.perfil
        /\ \A i \in 2..5 : WrittenIn(SelectOrder[i]) = history.preferencias
    BY DEF WrittenIn, SelectOrder
  <2>3. \A i \in 1..5 : SelectOrder[i] \in DOMAIN request[r].seen
    BY <2>0, InPrefix DEF Good, Places
  <2>4. SelectOrder[1] = "usuario"
    BY DEF SelectOrder
  <2>5. PICK m \in request[r].since.perfil .. Len(history.perfil) : request[r].seen["usuario"] = {history.perfil[m]}
    BY <2>0, <2>3, <2>4 DEF Good, Versions
  <2>6. m \in DOMAIN history.perfil
    BY <2>0, <2>1 DEF Good, Began
  <2>7. PICK k \in [2..5 -> request[r].since.preferencias .. Len(history.preferencias)] :
          \A i \in 2..5 :
            /\ i > 2 => k[i - 1] <= k[i]
            /\ SelectOrder[i] \in DOMAIN request[r].seen =>
                 request[r].seen[SelectOrder[i]] = {history.preferencias[k[i]]}
    BY <2>0 DEF Good, Versions
  <2>8. \A i \in 2..5 : k[i] \in DOMAIN history.preferencias
    BY <2>0, <2>1, SMTT(40) DEF Good, Began
  <2>9. \A i \in 2..5 :
          /\ k[i] \in DOMAIN WrittenIn(SelectOrder[i])
          /\ request[r].seen[SelectOrder[i]] = {WrittenIn(SelectOrder[i])[k[i]]}
          /\ i > 2 => k[i - 1] <= k[i]
    <3>1. SUFFICES ASSUME NEW i \in 2..5
                   PROVE  /\ k[i] \in DOMAIN WrittenIn(SelectOrder[i])
                          /\ request[r].seen[SelectOrder[i]] = {WrittenIn(SelectOrder[i])[k[i]]}
                          /\ i > 2 => k[i - 1] <= k[i]
      OBVIOUS
    <3>2. WrittenIn(SelectOrder[i]) = history.preferencias /\ k[i] \in DOMAIN history.preferencias
      BY <2>2, <2>8
    <3>3. SelectOrder[i] \in DOMAIN request[r].seen
      <4>1. i \in 1..5
        OBVIOUS
      <4> QED
        BY <2>3, <4>1
    <3>4. request[r].seen[SelectOrder[i]] = {history.preferencias[k[i]]} /\ (i > 2 => k[i - 1] <= k[i])
      BY <2>7, <3>3
    <3> QED
      BY <3>2, <3>4
  <2>10. /\ request[r].kind = "profile" => history.perfil[request[r].since.perfil] = r
         /\ request[r].kind = "preferences" => history.preferencias[request[r].since.preferencias] = r
    BY <2>0 DEF Good, Committed
  <2> QED
    BY <2>2, <2>5, <2>6, <2>9, <2>10
<1> QED
  BY <1>1, Inductive, PTL
=============================================================================
