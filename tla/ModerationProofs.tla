--------------------------- MODULE ModerationProofs ---------------------------
(***************************************************************************)
(* What TLAPS proves of Reports, and of Moderation that puts the sanctions *)
(* beside them, for every value of the constants: any number of people,    *)
(* contents, reports, lists, decisions and sanctions.  The last section is *)
(* the composition's: each of its steps is a step of Reports or leaves the *)
(* reports alone, so all that is proved before it holds there too.         *)
(***************************************************************************)
EXTENDS Moderation, TLAPS

\* What the requests in progress remember of the rows: a report of theirs is a row, of a content when an author is
\* asked for, and the answer in hand is the author of that content or nobody.
RequestsRemember ==
  \A r \in Posts \cup Lists :
    /\ request[r].phase \in {"idle", "creating"} => r \notin DOMAIN reporte
    /\ request[r].phase = "creating" => request[r].user \in Accounts /\ request[r].objetivo_id \in Accounts \cup Contents
    /\ \A t \in request[r].page : t \in DOMAIN reporte /\ reporte[t].objetivo_id \in Contents
    /\ request[r].phase = "answered" =>
         /\ request[r].report \in DOMAIN reporte
         /\ reporte[request[r].report].objetivo_id \in Contents
         /\ request[r].autor \in {NULL, AuthorOf[reporte[request[r].report].objetivo_id]}

\* The row lock at work: one review at a time holds a report, and the state it read is still that of the row.
LockHolds ==
  /\ \A v, w \in Reviews :
       review[v].phase = "locked" /\ review[w].phase = "locked" /\ review[v].report = review[w].report => v = w
  /\ \A v \in Reviews : review[v].phase = "locked" =>
       /\ review[v].report \in DOMAIN reporte
       /\ review[v].estado \in Decision
       /\ review[v].current = reporte[review[v].report].estado

\* The inductive invariant.
IInv == TypeOK /\ RequestsRemember /\ LockHolds /\ AuditTrail /\ AuthorOfContent

LEMMA InitIInv == Init => IInv
<1> SUFFICES ASSUME Init PROVE IInv
  OBVIOUS
<1>1. TypeOK
  BY DEF Init, TypeOK, IdleRequest, IdleReview
<1>2. RequestsRemember /\ LockHolds
  BY DEF Init, RequestsRemember, LockHolds, IdleRequest, IdleReview
<1>3. AuditTrail /\ AuthorOfContent
  BY DEF Init, AuditTrail, AuditOf, AuthorOfContent
<1> QED
  BY <1>1, <1>2, <1>3 DEF IInv

\* Local state that a step leaves is well typed.
RequestState ==
  [phase : {"idle", "creating", "asking", "answered", "done"}, user : Accounts \cup {NULL},
   objetivo_id : Accounts \cup Contents \cup {NULL},
   page : SUBSET Posts, report : Posts \cup {NULL}, autor : Accounts \cup {NULL}]
ReviewState ==
  [phase : {"idle", "locked", "done"}, report : Posts \cup {NULL}, estado : Decision \cup {NULL},
   current : Estado \cup {NULL}]

LEMMA IdleTypes ==
  /\ [IdleRequest EXCEPT !.phase = "done"] \in RequestState
  /\ \A r \in Posts : [IdleRequest EXCEPT !.phase = "asking", !.page = {r}] \in RequestState
  /\ [IdleReview EXCEPT !.phase = "done"] \in ReviewState
BY DEF IdleRequest, IdleReview, RequestState, ReviewState

\* So is one that goes on.
LEMMA ChangedTypes ==
  ASSUME NEW q \in RequestState
  PROVE  /\ \A u \in Accounts, objetivo \in Accounts \cup Contents :
              [q EXCEPT !.phase = "creating", !.user = u, !.objetivo_id = objetivo] \in RequestState
         /\ \A page \in SUBSET Posts : [q EXCEPT !.phase = "asking", !.page = page] \in RequestState
         /\ \A t \in Posts, a \in Accounts \cup {NULL} :
              [q EXCEPT !.phase = "answered", !.report = t, !.page = q.page \ {t}, !.autor = a] \in RequestState
         /\ [q EXCEPT !.phase = "asking", !.report = NULL, !.autor = NULL] \in RequestState
<1>1. \A u \in Accounts, objetivo \in Accounts \cup Contents :
        [q EXCEPT !.phase = "creating", !.user = u, !.objetivo_id = objetivo] \in RequestState
  BY DEF RequestState
<1>2. \A page \in SUBSET Posts : [q EXCEPT !.phase = "asking", !.page = page] \in RequestState
  BY DEF RequestState
<1>3. \A t \in Posts, a \in Accounts \cup {NULL} :
        [q EXCEPT !.phase = "answered", !.report = t, !.page = q.page \ {t}, !.autor = a] \in RequestState
  BY DEF RequestState
<1>4. [q EXCEPT !.phase = "asking", !.report = NULL, !.autor = NULL] \in RequestState
  BY DEF RequestState
<1> QED
  BY <1>1, <1>2, <1>3, <1>4

\* A row stays a row when it is decided on.
LEMMA DecidedTypes ==
  ASSUME NEW row \in Reporte, NEW estado \in Decision, NEW v \in Reviews
  PROVE  [row EXCEPT !.estado = estado, !.revisado_por = v] \in Reporte
<1>1. estado \in Estado
  BY DEF Decision
<1>2. CASE row.objetivo_id \in Accounts /\ row.autor_id = NULL
  BY <1>1, <1>2 DEF Reporte
<1>3. CASE ~(row.objetivo_id \in Accounts /\ row.autor_id = NULL)
  BY <1>1, <1>3 DEF Reporte
<1> QED
  BY <1>2, <1>3

\* A post, a list or a look-up keeps the types.
LEMMA RequestTypeOK ==
  ASSUME IInv, NEW r \in Posts \cup Lists, RequestStep(r)
  PROVE  TypeOK'
<1> USE DEF IInv, TypeOK
<1>0. request \in [Posts \cup Lists -> RequestState]
  BY DEF RequestState
<1>1. ASSUME NEW u \in Accounts, NEW objetivo \in Accounts \cup Contents, PostArrive(r, u, objetivo) PROVE TypeOK'
  <2>1. [request[r] EXCEPT !.phase = "creating", !.user = u, !.objetivo_id = objetivo] \in RequestState
    BY <1>0, ChangedTypes
  <2>2. request' \in [Posts \cup Lists -> RequestState]
    BY <1>0, <1>1, <2>1, IdleTypes DEF PostArrive, Finish
  <2> QED
    BY <1>1, <2>2 DEF PostArrive, RequestState
<1>2. CASE r \in Posts /\ PostCreate(r)
  <2>1. request' \in [Posts \cup Lists -> RequestState]
    BY <1>0, <1>2, IdleTypes DEF PostCreate, Finish
  <2>2. NewReporte(r) \in Reporte
    BY <1>2, ReportsAssumption DEF RequestsRemember, PostCreate, NewReporte, Reporte, Estado
  <2>3. DOMAIN reporte' \subseteq Posts /\ reporte' \in [DOMAIN reporte' -> Reporte]
    BY <1>2, <2>2 DEF PostCreate
  <2> QED
    BY <1>2, <2>1, <2>3 DEF PostCreate, RequestState
<1>3. CASE ListRead(r)
  <2>1. \A page \in SUBSET Posts : [request[r] EXCEPT !.phase = "asking", !.page = page] \in RequestState
    BY <1>0, ChangedTypes
  <2>2. request' \in [Posts \cup Lists -> RequestState]
    <3>1. PICK page \in SUBSET Posts : request' = [request EXCEPT ![r] = [@ EXCEPT !.phase = "asking", !.page = page]]
      BY <1>3 DEF ListRead
    <3> QED
      BY <1>0, <2>1, <3>1
  <2> QED
    BY <1>3, <2>2 DEF ListRead, RequestState
<1>4. ASSUME NEW t \in request[r].page, AskOrigin(r, t) PROVE TypeOK'
  <2>0. t \in Posts /\ AuthorOf[reporte[t].objetivo_id] \in Accounts
    BY <1>0, ReportsAssumption DEF RequestsRemember, RequestState
  <2>1. \A a \in Accounts \cup {NULL} :
          [request[r] EXCEPT !.phase = "answered", !.report = t, !.page = request[r].page \ {t}, !.autor = a]
            \in RequestState
    BY <1>0, <2>0, ChangedTypes
  <2>2. request' \in [Posts \cup Lists -> RequestState]
    <3> DEFINE a == IF reporte[t].objetivo_id \in published THEN AuthorOf[reporte[t].objetivo_id] ELSE NULL
    <3>0. a \in Accounts \cup {NULL}
      BY <2>0
    <3>1. \/ request' = [request EXCEPT ![r] =
               [request[r] EXCEPT !.phase = "answered", !.report = t, !.page = request[r].page \ {t}, !.autor = a]]
          \/ Finish(r)
      BY <1>4 DEF AskOrigin
    <3> HIDE DEF a
    <3>2. CASE Finish(r)
      BY <1>0, <3>2, IdleTypes DEF Finish
    <3>3. CASE ~Finish(r)
      BY <1>0, <2>1, <3>0, <3>1, <3>3
    <3> QED
      BY <3>2, <3>3
  <2> QED
    BY <1>4, <2>2 DEF AskOrigin, RequestState
<1>5. CASE StoreAuthor(r)
  <2>1. [request[r] EXCEPT !.phase = "asking", !.report = NULL, !.autor = NULL] \in RequestState
    BY <1>0, ChangedTypes
  <2>2. request' \in [Posts \cup Lists -> RequestState]
    BY <1>0, <1>5, <2>1 DEF StoreAuthor
  <2> DEFINE t == request[r].report
  <2>3. t \in DOMAIN reporte /\ reporte[t].objetivo_id \in Contents /\ request[r].autor \in Accounts \cup {NULL}
    BY <1>0, <1>5 DEF RequestsRemember, StoreAuthor, RequestState
  <2>4. [reporte[t] EXCEPT !.autor_id = request[r].autor] \in Reporte
    BY <2>3, ReportsAssumption DEF Reporte
  <2>5. DOMAIN reporte' \subseteq Posts /\ reporte' \in [DOMAIN reporte' -> Reporte]
    BY <1>5, <2>3, <2>4 DEF StoreAuthor, Answered
  <2> QED
    BY <1>5, <2>2, <2>5 DEF StoreAuthor, RequestState
<1>6. CASE Serve(r)
  BY <1>0, <1>6, IdleTypes DEF Serve, Finish, RequestState
<1> QED
  BY <1>1, <1>2, <1>3, <1>4, <1>5, <1>6 DEF RequestStep

\* So does a decision.
LEMMA ReviewTypeOK ==
  ASSUME IInv, NEW v \in Reviews, ReviewStep(v)
  PROVE  TypeOK'
<1> USE DEF IInv, TypeOK
<1>0. review \in [Reviews -> ReviewState]
  BY DEF ReviewState
<1>1. ASSUME NEW t \in Posts, NEW estado \in Decision, ReviewBegin(v, t, estado) PROVE TypeOK'
  <2>1. t \in DOMAIN reporte =>
          [phase |-> "locked", report |-> t, estado |-> estado, current |-> reporte[t].estado] \in ReviewState
    BY DEF ReviewState, Reporte
  <2>2. review' \in [Reviews -> ReviewState]
    BY <1>0, <1>1, <2>1, IdleTypes DEF ReviewBegin, FinishReview
  <2> QED
    BY <1>1, <2>2 DEF ReviewBegin, ReviewState
<1>2. CASE ReviewNothing(v) \/ ReviewUnavailable(v)
  <2>1. review' \in [Reviews -> ReviewState]
    BY <1>0, <1>2, IdleTypes DEF ReviewNothing, ReviewUnavailable, FinishReview
  <2> QED
    BY <1>2, <2>1 DEF ReviewNothing, ReviewUnavailable, ReviewState
<1>3. CASE ReviewCommit(v)
  <2>1. review' \in [Reviews -> ReviewState]
    BY <1>0, <1>3, IdleTypes DEF ReviewCommit, FinishReview
  <2> DEFINE t == review[v].report
  <2>2. t \in DOMAIN reporte /\ review[v].estado \in Decision /\ review[v].current \in Estado /\ t \in Posts
    BY <1>3 DEF ReviewCommit, LockHolds, Reporte
  <2>3. [reporte[t] EXCEPT !.estado = review[v].estado, !.revisado_por = v] \in Reporte
    BY <2>2, DecidedTypes
  <2>4. DOMAIN reporte' \subseteq Posts /\ reporte' \in [DOMAIN reporte' -> Reporte]
    BY <1>3, <2>2, <2>3 DEF ReviewCommit
  <2>5. auditoria' \subseteq [report : Posts, desde : Estado, hasta : Decision, by : Reviews]
    BY <1>3, <2>2 DEF ReviewCommit
  <2> QED
    BY <1>3, <2>1, <2>4, <2>5 DEF ReviewCommit, ReviewState
<1> QED
  BY <1>1, <1>2, <1>3 DEF ReviewStep
-----------------------------------------------------------------------------
(* What a step does to the tables                                           *)

\* A row is new, is given an author or is decided on; everything else leaves both tables alone.
LEMMA TablesChange ==
  ASSUME IInv, [Next]_vars
  PROVE  \/ UNCHANGED <<reporte, auditoria>>
         \/ \E r \in Posts : /\ PostCreate(r) /\ r \notin DOMAIN reporte
                            /\ reporte' = [t \in DOMAIN reporte \cup {r} |-> IF t = r THEN NewReporte(r) ELSE reporte[t]]
         \/ \E r \in Posts \cup Lists : StoreAuthor(r)
         \/ \E v \in Reviews : ReviewCommit(v)
<1>1. CASE UNCHANGED vars
  BY <1>1 DEF vars
<1>2. CASE Lost \/ \E c \in Contents : Unpublish(c)
  BY <1>2 DEF Lost, Unpublish
<1>3. ASSUME NEW r \in Posts \cup Lists, RequestStep(r), ~StoreAuthor(r), ~(r \in Posts /\ PostCreate(r))
      PROVE  UNCHANGED <<reporte, auditoria>>
  BY <1>3 DEF RequestStep, PostArrive, ListRead, AskOrigin, Serve
<1>4. ASSUME NEW r \in Posts, PostCreate(r)
      PROVE  /\ r \notin DOMAIN reporte
             /\ \/ UNCHANGED <<reporte, auditoria>>
                \/ reporte' = [t \in DOMAIN reporte \cup {r} |-> IF t = r THEN NewReporte(r) ELSE reporte[t]]
  BY <1>4 DEF PostCreate, IInv, RequestsRemember
<1>5. ASSUME NEW v \in Reviews, ReviewStep(v), ~ReviewCommit(v)
      PROVE  UNCHANGED <<reporte, auditoria>>
  BY <1>5 DEF ReviewStep, ReviewBegin, ReviewNothing, ReviewUnavailable
<1> QED
  BY <1>1, <1>2, <1>3, <1>4, <1>5 DEF Next

\* The rows a decision finds: its report is a row, in the state that was read.
LEMMA CommitOfRow ==
  ASSUME IInv, NEW v \in Reviews, ReviewCommit(v)
  PROVE  LET t == review[v].report
         IN /\ t \in DOMAIN reporte /\ review[v].current = reporte[t].estado /\ review[v].estado \in Decision
            /\ <<reporte[t].estado, review[v].estado>> \in Transitions
            /\ DOMAIN reporte' = DOMAIN reporte
            /\ \A x \in DOMAIN reporte : x # t => reporte'[x] = reporte[x]
            /\ reporte'[t] = [reporte[t] EXCEPT !.estado = review[v].estado, !.revisado_por = v]
            /\ reporte'[t].estado = review[v].estado /\ reporte'[t].revisado_por = v
            /\ reporte'[t].objetivo_id = reporte[t].objetivo_id /\ reporte'[t].autor_id = reporte[t].autor_id
<1> DEFINE t == review[v].report
<1>1. t \in DOMAIN reporte /\ review[v].current = reporte[t].estado /\ review[v].estado \in Decision
  BY DEF ReviewCommit, IInv, LockHolds
<1>2. <<reporte[t].estado, review[v].estado>> \in Transitions
  BY <1>1 DEF ReviewCommit, Changes
<1>3. reporte[t] \in Reporte
  BY <1>1 DEF IInv, TypeOK
<1>4. /\ DOMAIN reporte' = DOMAIN reporte
      /\ \A x \in DOMAIN reporte : x # t => reporte'[x] = reporte[x]
      /\ reporte'[t] = [reporte[t] EXCEPT !.estado = review[v].estado, !.revisado_por = v]
  BY <1>1 DEF ReviewCommit, IInv, TypeOK
<1>5. /\ reporte'[t].estado = review[v].estado /\ reporte'[t].revisado_por = v
      /\ reporte'[t].objetivo_id = reporte[t].objetivo_id /\ reporte'[t].autor_id = reporte[t].autor_id
  BY <1>3, <1>4 DEF Reporte
<1> QED
  BY <1>1, <1>2, <1>4, <1>5

\* The row an answer is saved in: nothing of it changes but the author.
LEMMA AuthorOfRow ==
  ASSUME IInv, NEW r \in Posts \cup Lists, StoreAuthor(r)
  PROVE  LET t == request[r].report
         IN /\ t \in DOMAIN reporte /\ reporte[t].objetivo_id \in Contents
            /\ DOMAIN reporte' = DOMAIN reporte
            /\ \A x \in DOMAIN reporte : x # t => reporte'[x] = reporte[x]
            /\ reporte'[t].autor_id \in {NULL, AuthorOf[reporte[t].objetivo_id]}
            /\ \A x \in DOMAIN reporte : /\ reporte'[x].estado = reporte[x].estado
                                       /\ reporte'[x].revisado_por = reporte[x].revisado_por
                                       /\ reporte'[x].objetivo_id = reporte[x].objetivo_id
            /\ UNCHANGED <<auditoria, review>>
<1> DEFINE t == request[r].report
<1>1. /\ t \in DOMAIN reporte /\ reporte[t].objetivo_id \in Contents
      /\ request[r].autor \in {NULL, AuthorOf[reporte[t].objetivo_id]}
  BY DEF StoreAuthor, IInv, RequestsRemember
<1>2. \A x \in DOMAIN reporte : reporte[x] \in Reporte
  BY DEF IInv, TypeOK
<1>3. reporte' = [reporte EXCEPT ![t] = [reporte[t] EXCEPT !.autor_id = request[r].autor]]
  BY DEF StoreAuthor, Answered
<1>4. /\ DOMAIN reporte' = DOMAIN reporte
      /\ \A x \in DOMAIN reporte : x # t => reporte'[x] = reporte[x]
      /\ reporte'[t] = [reporte[t] EXCEPT !.autor_id = request[r].autor]
  BY <1>1, <1>3 DEF IInv, TypeOK
<1>5. /\ reporte'[t].autor_id = request[r].autor /\ reporte'[t].estado = reporte[t].estado
      /\ reporte'[t].revisado_por = reporte[t].revisado_por /\ reporte'[t].objetivo_id = reporte[t].objetivo_id
  BY <1>1, <1>2, <1>4 DEF Reporte
<1>6. UNCHANGED <<auditoria, review>>
  BY DEF StoreAuthor
<1> QED
  BY <1>1, <1>4, <1>5, <1>6

\* Rows stay, and what they report does.
LEMMA RowsStay ==
  ASSUME IInv, [Next]_vars
  PROVE  /\ DOMAIN reporte \subseteq DOMAIN reporte'
         /\ \A t \in DOMAIN reporte : reporte'[t].objetivo_id = reporte[t].objetivo_id
<1>1. CASE \E r \in Posts \cup Lists : StoreAuthor(r)
  BY <1>1, AuthorOfRow
<1>2. CASE \E v \in Reviews : ReviewCommit(v)
  BY <1>2, CommitOfRow
<1>3. CASE UNCHANGED reporte
  BY <1>3
<1>4. ASSUME NEW r \in Posts, r \notin DOMAIN reporte,
             reporte' = [t \in DOMAIN reporte \cup {r} |-> IF t = r THEN NewReporte(r) ELSE reporte[t]]
      PROVE  /\ DOMAIN reporte \subseteq DOMAIN reporte'
             /\ \A t \in DOMAIN reporte : reporte'[t].objetivo_id = reporte[t].objetivo_id
  BY <1>4
<1> QED
  BY <1>1, <1>2, <1>3, <1>4, TablesChange

-----------------------------------------------------------------------------
(* The properties                                                           *)

\* The audit: a new row starts it empty, a commit adds the edge from the state of the row.
LEMMA AuditTrailStep == ASSUME IInv, [Next]_vars PROVE AuditTrail'
<1> USE DEF AuditOf
<1>0. AuditTrail
  BY DEF IInv
<1>1. CASE UNCHANGED <<reporte, auditoria>>
  BY <1>0, <1>1 DEF AuditTrail
<1>2. ASSUME NEW r \in Posts, PostCreate(r), r \notin DOMAIN reporte,
             reporte' = [t \in DOMAIN reporte \cup {r} |-> IF t = r THEN NewReporte(r) ELSE reporte[t]]
      PROVE  AuditTrail'
  <2>1. auditoria' = auditoria
    BY <1>2 DEF PostCreate
  <2>2. \A a \in auditoria : a.report # r
    <3>1. \A a \in auditoria : a.report \in DOMAIN reporte
      BY <1>0 DEF AuditTrail
    <3> QED
      BY <1>2, <3>1
  <2>3. reporte'[r].estado = "pendiente" /\ reporte'[r].revisado_por = NULL
    BY <1>2 DEF NewReporte
  <2>4. \A t \in DOMAIN reporte' : t = r \/ (t \in DOMAIN reporte /\ reporte'[t] = reporte[t])
    BY <1>2
  <2>5. DOMAIN reporte \subseteq DOMAIN reporte'
    BY <1>2
  <2> QED
    BY <1>0, <2>1, <2>2, <2>3, <2>4, <2>5 DEF AuditTrail
<1>3. ASSUME NEW r \in Posts \cup Lists, StoreAuthor(r) PROVE AuditTrail'
  BY <1>0, <1>3, AuthorOfRow DEF AuditTrail
<1>4. ASSUME NEW v \in Reviews, ReviewCommit(v) PROVE AuditTrail'
  <2>0. PICK t : t = review[v].report
    OBVIOUS
  <2> DEFINE new == [report |-> t, desde |-> review[v].current, hasta |-> review[v].estado, by |-> v]
  <2>1. auditoria' = auditoria \cup {new}
    BY <1>4, <2>0 DEF ReviewCommit
  <2>2. /\ t \in DOMAIN reporte /\ new.report = t /\ new.desde = reporte[t].estado /\ new.by = v
        /\ new.hasta = reporte'[t].estado /\ reporte'[t].revisado_por = v
        /\ <<new.desde, new.hasta>> \in Transitions
        /\ DOMAIN reporte' = DOMAIN reporte
        /\ \A x \in DOMAIN reporte : x # t => reporte'[x] = reporte[x]
    BY <1>4, <2>0, CommitOfRow
  <2> HIDE DEF new
  <2>3. new.hasta # "pendiente" /\ new.desde # new.hasta /\ new.desde \in {"pendiente", "revisado"}
    BY <2>2 DEF Transitions, Decision, Estado
  \* No row of the report leaves from the state it is in, nor arrives at the one decided.
  <2>4. ASSUME NEW a \in auditoria, a.report = t PROVE a.desde # new.desde /\ a.hasta # new.hasta
    <3>1. a.report \in DOMAIN reporte /\ <<a.desde, a.hasta>> \in Transitions
      BY <1>0 DEF AuditTrail
    <3>2. reporte[t].estado # "pendiente"
      BY <1>0, <2>2, <2>4 DEF AuditTrail
    <3>3. reporte[t].estado = "revisado" /\ new.hasta = "escalado"
      BY <2>2, <2>3, <3>2 DEF Transitions
    <3>4. \A b \in auditoria : b.desde # "escalado"
      BY <1>0 DEF AuditTrail, Transitions
    <3>5. a.hasta # "escalado"
      BY <1>0, <2>2, <2>4, <3>3, <3>4 DEF AuditTrail
    <3>6. a.desde # "revisado"
      BY <3>1, <3>5 DEF Transitions
    <3> QED
      BY <2>2, <3>3, <3>5, <3>6
  <2>5. /\ \A a \in auditoria' : a.report \in DOMAIN reporte' /\ <<a.desde, a.hasta>> \in Transitions
        /\ \A a, b \in auditoria' : a.report = b.report /\ (a.desde = b.desde \/ a.hasta = b.hasta) => a = b
    BY <1>0, <2>1, <2>2, <2>4 DEF AuditTrail
  <2>6. ASSUME NEW x \in DOMAIN reporte', x # t
        PROVE  /\ reporte'[x] = reporte[x] /\ x \in DOMAIN reporte
               /\ AuditOf(x)' = AuditOf(x)
    BY <2>1, <2>2, <2>6
  <2>7. /\ \E a \in AuditOf(t)' : a.hasta = reporte'[t].estado /\ a.by = reporte'[t].revisado_por
        /\ reporte'[t].estado # "pendiente"
    BY <2>1, <2>2, <2>3
  <2>8. ASSUME NEW a \in AuditOf(t)'
        PROVE  /\ a.hasta # reporte'[t].estado => \E b \in AuditOf(t)' : b.desde = a.hasta
               /\ a.desde # "pendiente" => \E b \in AuditOf(t)' : b.hasta = a.desde
    <3>1. CASE a = new
      <4>1. new.desde # "pendiente" => \E b \in AuditOf(t) : b.hasta = new.desde
        BY <1>0, <2>2 DEF AuditTrail
      <4> QED
        BY <2>1, <2>2, <3>1, <4>1
    <3>2. CASE a # new
      <4>1. a \in AuditOf(t)
        BY <2>1, <2>8, <3>2
      <4>2. /\ a.hasta # reporte[t].estado => \E b \in AuditOf(t) : b.desde = a.hasta
            /\ a.desde # "pendiente" => \E b \in AuditOf(t) : b.hasta = a.desde
        BY <1>0, <2>2, <4>1 DEF AuditTrail
      <4> QED
        BY <2>1, <2>2, <4>2
    <3> QED
      BY <3>1, <3>2
  <2> QED
    BY <1>0, <2>2, <2>5, <2>6, <2>7, <2>8 DEF AuditTrail
<1> QED
  BY <1>1, <1>2, <1>3, <1>4, TablesChange

\* The author saved is that of the content.
LEMMA AuthorOfContentStep == ASSUME IInv, [Next]_vars PROVE AuthorOfContent'
<1>0. AuthorOfContent
  BY DEF IInv
<1>1. CASE UNCHANGED <<reporte, auditoria>>
  BY <1>0, <1>1 DEF AuthorOfContent
<1>2. ASSUME NEW r \in Posts,
             reporte' = [t \in DOMAIN reporte \cup {r} |-> IF t = r THEN NewReporte(r) ELSE reporte[t]]
      PROVE  AuthorOfContent'
  <2>1. reporte'[r].autor_id = NULL
    BY <1>2 DEF NewReporte
  <2>2. \A t \in DOMAIN reporte' : t = r \/ (t \in DOMAIN reporte /\ reporte'[t] = reporte[t])
    BY <1>2
  <2> QED
    BY <1>0, <2>1, <2>2 DEF AuthorOfContent
<1>3. ASSUME NEW r \in Posts \cup Lists, StoreAuthor(r) PROVE AuthorOfContent'
  <2>0. PICK t : t = request[r].report
    OBVIOUS
  <2>1. /\ t \in DOMAIN reporte /\ reporte[t].objetivo_id \in Contents
        /\ DOMAIN reporte' = DOMAIN reporte
        /\ \A x \in DOMAIN reporte : x # t => reporte'[x] = reporte[x]
        /\ reporte'[t].autor_id \in {NULL, AuthorOf[reporte[t].objetivo_id]}
        /\ reporte'[t].objetivo_id = reporte[t].objetivo_id
    BY <1>3, <2>0, AuthorOfRow
  <2> QED
    BY <1>0, <2>1 DEF AuthorOfContent
<1>4. ASSUME NEW v \in Reviews, ReviewCommit(v) PROVE AuthorOfContent'
  <2>1. \A x \in DOMAIN reporte : /\ reporte'[x].objetivo_id = reporte[x].objetivo_id
                                /\ reporte'[x].autor_id = reporte[x].autor_id
    BY <1>4, CommitOfRow
  <2>2. DOMAIN reporte' = DOMAIN reporte
    BY <1>4, CommitOfRow
  <2> QED
    BY <1>0, <2>1, <2>2 DEF AuthorOfContent
<1> QED
  BY <1>1, <1>2, <1>3, <1>4, TablesChange

\* The lock: it is taken only of a row nobody holds, and while it is held nobody else decides on the row.
LEMMA LockHoldsStep == ASSUME IInv, [Next]_vars PROVE LockHolds'
<1>0. LockHolds /\ review \in [Reviews -> ReviewState]
  BY DEF IInv, TypeOK, ReviewState
<1>1. CASE UNCHANGED <<reporte, review>>
  BY <1>0, <1>1 DEF LockHolds
<1>2. ASSUME NEW v \in Reviews, FinishReview(v), UNCHANGED reporte PROVE LockHolds'
  <2>1. review'[v].phase = "done" /\ \A w \in Reviews : w # v => review'[w] = review[w]
    BY <1>0, <1>2 DEF FinishReview, IdleReview
  <2> QED
    BY <1>0, <1>2, <2>1 DEF LockHolds
<1>3. ASSUME NEW v \in Reviews, NEW t \in Posts, NEW estado \in Decision, ReviewBegin(v, t, estado), t \in DOMAIN reporte
      PROVE  LockHolds'
  <2>1. review'[v] = [phase |-> "locked", report |-> t, estado |-> estado, current |-> reporte[t].estado]
        /\ \A w \in Reviews : w # v => review'[w] = review[w]
    BY <1>0, <1>3 DEF ReviewBegin
  <2>2. \A w \in Reviews : review[w].phase = "locked" => review[w].report # t
    BY <1>3 DEF ReviewBegin, Lockable, Locked
  <2>3. reporte' = reporte
    BY <1>3 DEF ReviewBegin
  <2> QED
    BY <1>0, <1>3, <2>1, <2>2, <2>3 DEF LockHolds
<1>4. ASSUME NEW r \in Posts, r \notin DOMAIN reporte, review' = review,
             reporte' = [t \in DOMAIN reporte \cup {r} |-> IF t = r THEN NewReporte(r) ELSE reporte[t]]
      PROVE  LockHolds'
  <2>1. DOMAIN reporte \subseteq DOMAIN reporte' /\ \A t \in DOMAIN reporte : reporte'[t] = reporte[t]
    BY <1>4
  <2> QED
    BY <1>0, <1>4, <2>1 DEF LockHolds
<1>5. ASSUME NEW r \in Posts \cup Lists, StoreAuthor(r) PROVE LockHolds'
  BY <1>0, <1>5, AuthorOfRow DEF LockHolds
<1>6. ASSUME NEW v \in Reviews, ReviewCommit(v) PROVE LockHolds'
  <2>0. PICK t : t = review[v].report
    OBVIOUS
  <2>1. review'[v].phase = "done" /\ \A w \in Reviews : w # v => review'[w] = review[w]
    BY <1>0, <1>6 DEF ReviewCommit, FinishReview, IdleReview
  <2>2. DOMAIN reporte' = DOMAIN reporte /\ \A x \in DOMAIN reporte : x # t => reporte'[x] = reporte[x]
    BY <1>6, <2>0, CommitOfRow
  <2>3. \A w \in Reviews : w # v /\ review[w].phase = "locked" => review[w].report # t
    BY <1>0, <1>6, <2>0 DEF LockHolds, ReviewCommit
  <2> QED
    BY <1>0, <2>1, <2>2, <2>3 DEF LockHolds
<1>7. CASE Lost \/ \E c \in Contents : Unpublish(c)
  BY <1>1, <1>7 DEF Lost, Unpublish
<1>8. ASSUME NEW r \in Posts \cup Lists, RequestStep(r) PROVE LockHolds'
  <2>1. CASE r \in Posts /\ PostCreate(r)
    <3>1. review' = review
      BY <2>1 DEF PostCreate
    <3>2. \/ reporte' = reporte
          \/ /\ r \notin DOMAIN reporte
             /\ reporte' = [t \in DOMAIN reporte \cup {r} |-> IF t = r THEN NewReporte(r) ELSE reporte[t]]
      BY <2>1 DEF PostCreate, IInv, RequestsRemember
    <3> QED
      BY <1>1, <1>4, <2>1, <3>1, <3>2
  <2>2. CASE StoreAuthor(r)
    BY <1>5, <2>2
  <2>3. CASE ~StoreAuthor(r) /\ ~(r \in Posts /\ PostCreate(r))
    BY <1>1, <1>8, <2>3 DEF RequestStep, PostArrive, ListRead, AskOrigin, Serve
  <2> QED
    BY <2>1, <2>2, <2>3
<1>9. ASSUME NEW v \in Reviews, ReviewStep(v) PROVE LockHolds'
  <2>1. ASSUME NEW t \in Posts, NEW estado \in Decision, ReviewBegin(v, t, estado) PROVE LockHolds'
    <3>1. CASE t \in DOMAIN reporte
      BY <1>3, <2>1, <3>1
    <3>2. CASE t \notin DOMAIN reporte
      BY <1>2, <2>1, <3>2 DEF ReviewBegin
    <3> QED
      BY <3>1, <3>2
  <2>2. CASE ReviewNothing(v) \/ ReviewUnavailable(v)
    BY <1>2, <2>2 DEF ReviewNothing, ReviewUnavailable
  <2> QED
    BY <1>6, <1>9, <2>1, <2>2 DEF ReviewStep
<1> QED
  BY <1>1, <1>7, <1>8, <1>9 DEF Next, vars

\* A request that is over remembers nothing; one that goes on remembers what it read of rows that stay.
LEMMA RequestsRememberStep == ASSUME IInv, [Next]_vars PROVE RequestsRemember'
<1>0. RequestsRemember /\ request \in [Posts \cup Lists -> RequestState]
  BY DEF IInv, TypeOK, RequestState
<1>1. /\ DOMAIN reporte \subseteq DOMAIN reporte'
      /\ \A t \in DOMAIN reporte : reporte'[t].objetivo_id = reporte[t].objetivo_id
  BY RowsStay
<1> DEFINE Remembers(q, rows, r) ==
      /\ q.phase \in {"idle", "creating"} => r \notin DOMAIN rows
      /\ q.phase = "creating" => q.user \in Accounts /\ q.objetivo_id \in Accounts \cup Contents
      /\ \A t \in q.page : t \in DOMAIN rows /\ rows[t].objetivo_id \in Contents
      /\ q.phase = "answered" =>
           /\ q.report \in DOMAIN rows
           /\ rows[q.report].objetivo_id \in Contents
           /\ q.autor \in {NULL, AuthorOf[rows[q.report].objetivo_id]}
<1>2. RequestsRemember <=> \A r \in Posts \cup Lists : Remembers(request[r], reporte, r)
  BY DEF RequestsRemember
<1>3. RequestsRemember' <=> \A r \in Posts \cup Lists : Remembers(request'[r], reporte', r)
  BY DEF RequestsRemember
<1>4. ASSUME NEW r \in Posts \cup Lists, request'[r] = request[r],
             r \in DOMAIN reporte' => r \in DOMAIN reporte
      PROVE  Remembers(request'[r], reporte', r)
  <2>1. Remembers(request[r], reporte, r)
    BY <1>0, <1>2
  <2> QED
    BY <1>1, <1>4, <2>1
<1>5. ASSUME NEW r \in Posts \cup Lists, Finish(r) PROVE Remembers(request'[r], reporte', r)
  BY <1>0, <1>5 DEF Finish, IdleRequest
<1>6. CASE UNCHANGED request /\ DOMAIN reporte' = DOMAIN reporte
  BY <1>3, <1>4, <1>6
\* A step of one request, which adds at most its own row.
<1>7. ASSUME NEW r \in Posts \cup Lists, RequestStep(r)
      PROVE  /\ \A q \in Posts \cup Lists : q # r => request'[q] = request[q]
             /\ DOMAIN reporte' \subseteq DOMAIN reporte \cup {r}
  <2>1. CASE StoreAuthor(r)
    BY <1>0, <2>1, AuthorOfRow DEF StoreAuthor
  <2>2. CASE r \in Posts /\ PostCreate(r)
    BY <1>0, <2>2 DEF PostCreate, Finish
  <2>3. CASE ~StoreAuthor(r) /\ ~(r \in Posts /\ PostCreate(r))
    BY <1>0, <1>7, <2>3 DEF RequestStep, PostArrive, ListRead, AskOrigin, Serve, Finish
  <2> QED
    BY <2>1, <2>2, <2>3
<1>8. ASSUME NEW r \in Posts \cup Lists, RequestStep(r) PROVE Remembers(request'[r], reporte', r)
  <2>1. ASSUME NEW u \in Accounts, NEW objetivo \in Accounts \cup Contents, PostArrive(r, u, objetivo)
        PROVE  Remembers(request'[r], reporte', r)
    <3>1. CASE Finish(r)
      BY <1>5, <3>1
    <3>2. CASE ~Finish(r)
      <4>1. /\ request'[r] = [request[r] EXCEPT !.phase = "creating", !.user = u, !.objetivo_id = objetivo]
            /\ request[r].phase = "idle" /\ reporte' = reporte
        BY <1>0, <2>1, <3>2 DEF PostArrive
      <4>2. /\ request'[r].phase = "creating" /\ request'[r].user = u /\ request'[r].objetivo_id = objetivo
            /\ request'[r].page = request[r].page
        BY <1>0, <4>1 DEF RequestState
      <4> QED
        BY <1>0, <1>2, <4>1, <4>2
    <3> QED
      BY <3>1, <3>2
  <2>2. CASE r \in Posts /\ PostCreate(r)
    <3>1. CASE Finish(r)
      BY <1>5, <3>1
    <3>2. CASE ~Finish(r)
      <4>1. /\ request'[r] = [IdleRequest EXCEPT !.phase = "asking", !.page = {r}]
            /\ request[r].objetivo_id \in Contents
            /\ reporte' = [t \in DOMAIN reporte \cup {r} |-> IF t = r THEN NewReporte(r) ELSE reporte[t]]
        BY <1>0, <2>2, <3>2 DEF PostCreate
      <4>2. request'[r].phase = "asking" /\ request'[r].page = {r}
        BY <4>1 DEF IdleRequest
      <4>3. r \in DOMAIN reporte' /\ reporte'[r].objetivo_id \in Contents
        BY <4>1 DEF NewReporte
      <4> QED
        BY <4>2, <4>3
    <3> QED
      BY <3>1, <3>2
  <2>3. CASE ListRead(r)
    <3>1. PICK page \in SUBSET {t \in DOMAIN reporte : reporte[t].objetivo_id \in Contents /\ reporte[t].autor_id = NULL} :
            request' = [request EXCEPT ![r] = [request[r] EXCEPT !.phase = "asking", !.page = page]]
      BY <2>3 DEF ListRead
    <3>2. request'[r] = [request[r] EXCEPT !.phase = "asking", !.page = page] /\ reporte' = reporte
      BY <1>0, <2>3, <3>1 DEF ListRead
    <3>3. request'[r].phase = "asking" /\ request'[r].page = page
      BY <1>0, <3>2 DEF RequestState
    <3> QED
      BY <3>2, <3>3
  <2>4. ASSUME NEW t \in request[r].page, AskOrigin(r, t) PROVE Remembers(request'[r], reporte', r)
    <3>1. CASE Finish(r)
      BY <1>5, <3>1
    <3>2. CASE ~Finish(r)
      <4> DEFINE a == IF reporte[t].objetivo_id \in published THEN AuthorOf[reporte[t].objetivo_id] ELSE NULL
      <4>1. /\ request'[r] = [request[r] EXCEPT !.phase = "answered", !.report = t, !.page = request[r].page \ {t},
                                                !.autor = a]
            /\ reporte' = reporte
        BY <1>0, <2>4, <3>2 DEF AskOrigin
      <4>2. a \in {NULL, AuthorOf[reporte[t].objetivo_id]}
        OBVIOUS
      <4> HIDE DEF a
      <4>3. /\ request'[r].phase = "answered" /\ request'[r].report = t
            /\ request'[r].page = request[r].page \ {t} /\ request'[r].autor = a
        BY <1>0, <4>1 DEF RequestState
      <4> QED
        BY <1>0, <1>2, <2>4, <4>1, <4>2, <4>3
    <3> QED
      BY <3>1, <3>2
  <2>5. CASE StoreAuthor(r)
    <3>1. request'[r] = [request[r] EXCEPT !.phase = "asking", !.report = NULL, !.autor = NULL]
      BY <1>0, <2>5 DEF StoreAuthor
    <3>2. request'[r].phase = "asking" /\ request'[r].page = request[r].page
      BY <1>0, <3>1 DEF RequestState
    <3>3. Remembers(request[r], reporte, r)
      BY <1>0, <1>2
    <3> QED
      BY <1>1, <3>2, <3>3
  <2>6. CASE Serve(r)
    BY <1>5, <2>6 DEF Serve
  <2> HIDE DEF Remembers
  <2> QED
    BY <1>8, <2>1, <2>2, <2>3, <2>4, <2>5, <2>6 DEF RequestStep
<1>9. ASSUME NEW r \in Posts \cup Lists, RequestStep(r) PROVE RequestsRemember'
  <2> HIDE DEF Remembers
  <2> QED
    BY <1>3, <1>4, <1>7, <1>8, <1>9
<1>10. CASE Lost
  <2>1. PICK r \in Posts \cup Lists : Finish(r)
    BY <1>10 DEF Lost
  <2>2. reporte' = reporte /\ \A q \in Posts \cup Lists : q # r => request'[q] = request[q]
    BY <1>0, <1>10, <2>1 DEF Lost, Finish
  <2> HIDE DEF Remembers
  <2> QED
    BY <1>3, <1>4, <1>5, <2>1, <2>2
<1>11. CASE UNCHANGED vars \/ \E c \in Contents : Unpublish(c)
  BY <1>6, <1>11 DEF vars, Unpublish
<1>12. ASSUME NEW v \in Reviews, ReviewStep(v) PROVE RequestsRemember'
  <2>1. CASE ReviewCommit(v)
    BY <1>6, <2>1, CommitOfRow DEF ReviewCommit
  <2>2. CASE ~ReviewCommit(v)
    BY <1>6, <1>12, <2>2 DEF ReviewStep, ReviewBegin, ReviewNothing, ReviewUnavailable
  <2> QED
    BY <2>1, <2>2
<1> QED
  BY <1>9, <1>10, <1>11, <1>12 DEF Next

\* Types are kept by every step.
LEMMA TypeOKStep == ASSUME IInv, [Next]_vars PROVE TypeOK'
<1>1. CASE UNCHANGED vars
  BY <1>1 DEF vars, IInv, TypeOK
<1>2. CASE \E c \in Contents : Unpublish(c)
  BY <1>2 DEF Unpublish, IInv, TypeOK
<1>3. CASE Lost
  <2>1. request \in [Posts \cup Lists -> RequestState]
    BY DEF IInv, TypeOK, RequestState
  <2>2. request' \in [Posts \cup Lists -> RequestState]
    BY <1>3, <2>1, IdleTypes DEF Lost, Finish
  <2> QED
    BY <1>3, <2>2 DEF Lost, IInv, TypeOK, RequestState
<1> QED
  BY <1>1, <1>2, <1>3, RequestTypeOK, ReviewTypeOK DEF Next

LEMMA NextIInv == IInv /\ [Next]_vars => IInv'
BY TypeOKStep, RequestsRememberStep, LockHoldsStep, AuditTrailStep, AuthorOfContentStep DEF IInv

THEOREM Inductive == Spec => []IInv
BY InitIInv, NextIInv, PTL DEF Spec

\* Tables and local states keep their types.
THEOREM Types == Spec => []TypeOK
<1>1. IInv => TypeOK
  BY DEF IInv
<1> QED
  BY <1>1, Inductive, PTL

\* The audit tells the story of every report, for any number of decisions at once.
THEOREM AuditTellsAll == Spec => []AuditTrail
<1>1. IInv => AuditTrail
  BY DEF IInv
<1> QED
  BY <1>1, Inductive, PTL

\* An author that is saved is the one of the content, however late the answers are written.
THEOREM AuthorsRight == Spec => []AuthorOfContent
<1>1. IInv => AuthorOfContent
  BY DEF IInv
<1> QED
  BY <1>1, Inductive, PTL

\* The state of a report moves along REPORT_TRANSITIONS from the state it really has: a decision that closes it stands.
THEOREM DecisionsStand == Spec => FirstDecisionStands
<1>1. ASSUME IInv, [Next]_vars PROVE TransitionStep
  <2>0. IInv
    BY <1>1
  <2>1. CASE \E r \in Posts \cup Lists : StoreAuthor(r)
    BY <2>0, <2>1, AuthorOfRow DEF TransitionStep
  <2>2. ASSUME NEW v \in Reviews, ReviewCommit(v) PROVE TransitionStep
    <3>0. PICK t : t = review[v].report
      OBVIOUS
    <3>1. /\ \A x \in DOMAIN reporte : x # t => reporte'[x] = reporte[x]
          /\ <<reporte[t].estado, reporte'[t].estado>> \in Transitions
      BY <2>0, <2>2, <3>0, CommitOfRow
    <3> QED
      BY <3>1 DEF TransitionStep
  <2>3. ASSUME NEW r \in Posts, r \notin DOMAIN reporte,
               reporte' = [t \in DOMAIN reporte \cup {r} |-> IF t = r THEN NewReporte(r) ELSE reporte[t]]
        PROVE  TransitionStep
    BY <2>3 DEF TransitionStep
  <2>4. CASE UNCHANGED <<reporte, auditoria>>
    BY <2>4 DEF TransitionStep
  <2> QED
    BY <1>1, <2>1, <2>2, <2>3, <2>4, TablesChange
<1> QED
  BY <1>1, Inductive, PTL DEF Spec, FirstDecisionStands

-----------------------------------------------------------------------------
(* The composition                                                          *)

\* What a request for a sanction holds.
ApplyState ==
  [phase : {"idle", "found", "timed", "notify", "done"}, target : Accounts \cup {NULL},
   dias : S!Duration \cup {NULL}, reporte_id : Posts \cup {NULL}, now : Nat,
   answer : {"none", "unknown", "not_sanctionable", "conflict", "not_found", "not_escalated", "other_target",
             "unavailable", "created", "lost"}]

\* The sanctions side: a request past its first look has an account, that there is.
Asks ==
  /\ clock \in Nat
  /\ is_active \in [Accounts -> BOOLEAN]
  /\ apply \in [Applies -> ApplyState]
  /\ \A r \in Applies : apply[r].phase \in {"found", "timed", "notify"} => apply[r].target \in Accounts

\* Sanctions leave the reports as they are: to the reports the composition is one of their own behaviours.
THEOREM ReportsUntouched == ModerationSpec => Spec
<1>1. ModerationInit => Init
  BY DEF ModerationInit
<1>2. [ModerationNext]_moderationVars => [Next]_vars
  BY DEF ModerationNext, moderationVars
<1> QED
  BY <1>1, <1>2, PTL DEF ModerationSpec, Spec

\* A report that is escalated stays so, decided by whom it was, about what it was, and its audit row with it.
LEMMA EscalatedForGood ==
  ASSUME IInv, [Next]_vars, NEW t \in DOMAIN reporte, reporte[t].estado = "escalado"
  PROVE  /\ t \in DOMAIN reporte' /\ reporte'[t].estado = "escalado"
         /\ reporte'[t].revisado_por = reporte[t].revisado_por /\ reporte'[t].objetivo_id = reporte[t].objetivo_id
         /\ auditoria \subseteq auditoria'
<1>1. CASE \E r \in Posts \cup Lists : StoreAuthor(r)
  BY <1>1, AuthorOfRow
<1>2. ASSUME NEW v \in Reviews, ReviewCommit(v)
      PROVE  reporte'[t] = reporte[t] /\ t \in DOMAIN reporte' /\ auditoria \subseteq auditoria'
  <2>1. review[v].report # t
    BY <1>2, CommitOfRow DEF Transitions, Decision, Estado
  <2> QED
    BY <1>2, <2>1, CommitOfRow DEF ReviewCommit
<1>3. ASSUME NEW r \in Posts, PostCreate(r), r \notin DOMAIN reporte,
             reporte' = [x \in DOMAIN reporte \cup {r} |-> IF x = r THEN NewReporte(r) ELSE reporte[x]]
      PROVE  reporte'[t] = reporte[t] /\ t \in DOMAIN reporte' /\ auditoria \subseteq auditoria'
  BY <1>3 DEF PostCreate
<1>4. CASE UNCHANGED <<reporte, auditoria>>
  BY <1>4
<1> QED
  BY <1>1, <1>2, <1>3, <1>4, TablesChange

\* What changes the sanctions is a commit.
LEMMA SanctionsChange ==
  ASSUME [ModerationNext]_moderationVars
  PROVE  \/ UNCHANGED sancion
         \/ UNCHANGED vars /\ \E r \in Applies : S!ApplyCommit(r)
<1>1. CASE UNCHANGED moderationVars \/ UNCHANGED sanctionVars
  BY <1>1 DEF moderationVars, sanctionVars
<1>2. CASE S!Tick
  BY <1>2 DEF S!Tick
<1>3. ASSUME NEW r \in Applies, Sanction(r), ~S!ApplyCommit(r)
      PROVE  UNCHANGED sancion
  BY <1>3 DEF Sanction, S!ApplyLookUp, S!ApplyReadClock, S!ApplyUnavailable, S!ApplyNotify, S!ApplyRefused
<1> QED
  BY <1>1, <1>2, <1>3 DEF ModerationNext

\* A request that goes on, or that is over, is well typed.
LEMMA ApplyTypes ==
  /\ \A a \in {"unknown", "not_sanctionable", "conflict", "not_found", "not_escalated", "other_target",
               "unavailable", "created", "lost"} :
       [S!IdleApply EXCEPT !.phase = "done", !.answer = a] \in ApplyState
  /\ \A u \in Accounts, dias \in S!Duration \cup {NULL}, t \in Posts \cup {NULL} :
       [phase |-> "found", target |-> u, dias |-> dias, reporte_id |-> t, now |-> 0, answer |-> "none"] \in ApplyState
  /\ \A a \in ApplyState, t \in Nat :
       /\ [a EXCEPT !.phase = "timed", !.now = t] \in ApplyState
       /\ [a EXCEPT !.phase = "timed", !.now = t].target = a.target
  /\ \A a \in ApplyState :
       [a EXCEPT !.phase = "notify"] \in ApplyState /\ [a EXCEPT !.phase = "notify"].target = a.target
<1>1. \A a \in {"unknown", "not_sanctionable", "conflict", "not_found", "not_escalated", "other_target",
               "unavailable", "created", "lost"} :
       [S!IdleApply EXCEPT !.phase = "done", !.answer = a] \in ApplyState
  BY DEF S!IdleApply, ApplyState
<1>2. \A u \in Accounts, dias \in S!Duration \cup {NULL}, t \in Posts \cup {NULL} :
       [phase |-> "found", target |-> u, dias |-> dias, reporte_id |-> t, now |-> 0, answer |-> "none"] \in ApplyState
  BY DEF ApplyState
<1>3. ASSUME NEW a \in ApplyState, NEW t \in Nat
      PROVE  /\ [a EXCEPT !.phase = "timed", !.now = t] \in ApplyState
             /\ [a EXCEPT !.phase = "timed", !.now = t].target = a.target
  BY DEF ApplyState
<1>4. ASSUME NEW a \in ApplyState
      PROVE  [a EXCEPT !.phase = "notify"] \in ApplyState /\ [a EXCEPT !.phase = "notify"].target = a.target
  BY DEF ApplyState
<1> QED
  BY <1>1, <1>2, <1>3, <1>4

\* The request r holds n next, and the account it had if it goes on; nobody else changes.
Holds(r, n) ==
  /\ n \in ApplyState /\ apply' = [apply EXCEPT ![r] = n]
  /\ n.phase \in {"found", "timed", "notify"} => n.target \in Accounts

LEMMA Refusal ==
  ASSUME NEW r \in Applies, S!ApplyRefused(r)
  PROVE  \E a \in {"unknown", "conflict", "not_found", "not_escalated", "other_target"} : S!FinishApply(r, a)
<1> DEFINE problem == S!ReportProblem(apply[r].reporte_id, apply[r].target)
<1>1. problem # NULL => problem \in {"not_found", "not_escalated", "other_target"}
  BY DEF S!ReportProblem
<1> HIDE DEF problem
<1>2. S!FinishApply(r, "unknown") \/ S!FinishApply(r, "conflict") \/ (problem # NULL /\ S!FinishApply(r, problem))
  BY DEF S!ApplyRefused, problem
<1> QED
  BY <1>1, <1>2

LEMMA Finished ==
  ASSUME NEW r \in Applies,
         NEW a \in {"unknown", "not_sanctionable", "conflict", "not_found", "not_escalated", "other_target",
                    "unavailable", "created", "lost"},
         S!FinishApply(r, a)
  PROVE  \E n : Holds(r, n)
<1>1. PICK n : n = [S!IdleApply EXCEPT !.phase = "done", !.answer = a]
  OBVIOUS
<1>2. n \in ApplyState
  BY <1>1, ApplyTypes
<1>3. n.phase = "done"
  BY <1>1 DEF S!IdleApply
<1>4. apply' = [apply EXCEPT ![r] = n]
  BY <1>1, Zenon DEF S!FinishApply
<1> QED
  BY <1>2, <1>3, <1>4 DEF Holds

LEMMA SanctionHolds ==
  ASSUME Asks, NEW r \in Applies, Sanction(r)
  PROVE  (\E n : Holds(r, n)) /\ UNCHANGED <<clock, is_active>>
<1>0. apply[r] \in ApplyState /\ (apply[r].phase \in {"found", "timed", "notify"} => apply[r].target \in Accounts)
  BY DEF Asks
<1>1. ASSUME NEW u \in Accounts, NEW dias \in S!Duration \cup {NULL}, NEW t \in Posts \cup {NULL},
             S!ApplyLookUp(r, u, dias, t)
      PROVE  \E n : Holds(r, n)
  <2>1. CASE S!FinishApply(r, "unknown") \/ S!FinishApply(r, "not_sanctionable")
    BY <2>1, Finished
  <2>2. CASE apply' = [apply EXCEPT ![r] = [phase |-> "found", target |-> u, dias |-> dias, reporte_id |-> t,
                                            now |-> 0, answer |-> "none"]]
    <3>1. PICK n : n = [phase |-> "found", target |-> u, dias |-> dias, reporte_id |-> t, now |-> 0, answer |-> "none"]
      OBVIOUS
    <3>2. n \in ApplyState /\ n.target = u /\ apply' = [apply EXCEPT ![r] = n]
      BY <2>2, <3>1, ApplyTypes
    <3> QED
      BY <3>2 DEF Holds
  <2> QED
    BY <1>1, <2>1, <2>2 DEF S!ApplyLookUp
<1>2. ASSUME S!ApplyReadClock(r) PROVE \E n : Holds(r, n)
  <2>1. PICK n : n = [apply[r] EXCEPT !.phase = "timed", !.now = clock]
    OBVIOUS
  <2>2. n \in ApplyState /\ n.target = apply[r].target
    BY <1>0, <2>1, ApplyTypes DEF Asks
  <2>3. apply' = [apply EXCEPT ![r] = n]
    BY <1>2, <2>1, Zenon DEF S!ApplyReadClock
  <2>4. apply[r].target \in Accounts
    BY <1>0, <1>2 DEF S!ApplyReadClock
  <2> QED
    BY <2>2, <2>3, <2>4 DEF Holds
<1>3. ASSUME S!ApplyCommit(r) PROVE \E n : Holds(r, n)
  <2>1. PICK n : n = [apply[r] EXCEPT !.phase = "notify"]
    OBVIOUS
  <2>2. n \in ApplyState /\ n.target = apply[r].target
    BY <1>0, <2>1, ApplyTypes
  <2>3. apply' = [apply EXCEPT ![r] = n]
    BY <1>3, <2>1 DEF S!ApplyCommit
  <2>4. apply[r].target \in Accounts
    BY <1>0, <1>3 DEF S!ApplyCommit
  <2> QED
    BY <2>2, <2>3, <2>4 DEF Holds
<1>4. ASSUME S!ApplyUnavailable(r) \/ S!ApplyNotify(r) PROVE \E n : Holds(r, n)
  <2>1. S!FinishApply(r, "unavailable") \/ S!FinishApply(r, "created")
    BY <1>4 DEF S!ApplyUnavailable, S!ApplyNotify
  <2> QED
    BY <2>1, Finished
<1>5. ASSUME S!ApplyRefused(r) PROVE \E n : Holds(r, n)
  BY <1>5, Refusal, Finished
<1>6. UNCHANGED <<clock, is_active>>
  BY DEF Sanction, S!ApplyLookUp, S!ApplyReadClock, S!ApplyUnavailable, S!ApplyNotify, S!ApplyRefused, S!ApplyCommit
<1> QED
  BY <1>1, <1>2, <1>3, <1>4, <1>5, <1>6 DEF Sanction

LEMMA AsksStep == Asks /\ [ModerationNext]_moderationVars => Asks'
<1> SUFFICES ASSUME Asks, [ModerationNext]_moderationVars PROVE Asks'
  OBVIOUS
<1>1. CASE UNCHANGED moderationVars \/ UNCHANGED sanctionVars
  BY <1>1 DEF moderationVars, sanctionVars, Asks
<1>2. CASE S!Tick
  BY <1>2 DEF S!Tick, Asks
<1>3. ASSUME NEW r \in Applies, Sanction(r) PROVE Asks'
  <2>1. PICK n : Holds(r, n)
    BY <1>3, SanctionHolds
  <2>2. UNCHANGED <<clock, is_active>>
    BY <1>3, SanctionHolds
  <2>3. apply' \in [Applies -> ApplyState] /\ \A x \in Applies : apply'[x] = IF x = r THEN n ELSE apply[x]
    BY <2>1 DEF Holds, Asks
  <2> QED
    BY <2>1, <2>2, <2>3 DEF Holds, Asks
<1> QED
  BY <1>1, <1>2, <1>3 DEF ModerationNext

\* A report that a sanction may cite is escalated, and names the account.
LEMMA CitedReport ==
  ASSUME IInv, NEW t \in Posts, NEW u \in Accounts, S!ReportProblem(t, u) = NULL
  PROVE  /\ t \in DOMAIN reporte /\ reporte[t].estado = "escalado"
         /\ reporte[t].objetivo_id \in Accounts => u = reporte[t].objetivo_id
         /\ reporte[t].objetivo_id \in Contents => u = AuthorOf[reporte[t].objetivo_id]
<1> DEFINE cited == [x \in DOMAIN reporte |-> Cited(reporte[x])]
<1>1. t # NULL /\ DOMAIN cited = DOMAIN reporte
  BY ReportsAssumption
<1>2. t \in DOMAIN reporte
  BY <1>1, ModerationAssumption DEF S!ReportProblem
<1>3. cited[t].estado = "escalado"
  BY <1>1, <1>2, ModerationAssumption DEF S!ReportProblem
<1>4. S!NamedAccount(cited[t]) = u
  BY <1>1, <1>2, <1>3, ModerationAssumption DEF S!ReportProblem
<1>5. reporte[t].estado = "escalado"
  BY <1>2, <1>3 DEF Cited
<1>6. reporte[t].objetivo_id \in Accounts => u = reporte[t].objetivo_id
  BY <1>2, <1>4 DEF Cited, S!NamedAccount
<1>7. reporte[t].objetivo_id \in Contents => u = reporte[t].autor_id /\ u # NULL
  BY <1>2, <1>4, ReportsAssumption DEF Cited, S!NamedAccount
<1> QED
  BY <1>2, <1>5, <1>6, <1>7 DEF IInv, AuthorOfContent

\* What the property says of one sanction.
Traced(t, u) ==
  t # NULL =>
    /\ t \in DOMAIN reporte
    /\ reporte[t].estado = "escalado"
    /\ \E a \in auditoria : a.report = t /\ a.hasta = "escalado" /\ a.by = reporte[t].revisado_por
    /\ reporte[t].objetivo_id \in Accounts => u = reporte[t].objetivo_id
    /\ reporte[t].objetivo_id \in Contents => u = AuthorOf[reporte[t].objetivo_id]

LEMMA TracedStays ==
  ASSUME IInv, [Next]_vars, NEW t, NEW u, Traced(t, u)
  PROVE  Traced(t, u)'
<1>1. CASE t = NULL
  BY <1>1 DEF Traced
<1>2. CASE t # NULL
  BY <1>2, EscalatedForGood DEF Traced
<1> QED
  BY <1>1, <1>2

\* A commit adds a sanction that can be traced, and changes what none of the others cites.
LEMMA CommitTraced ==
  ASSUME IInv, Asks, NEW r \in Applies, S!ApplyCommit(r)
  PROVE  /\ \A s \in DOMAIN sancion' \ {r} : /\ s \in DOMAIN sancion
                                           /\ sancion'[s].reporte_id = sancion[s].reporte_id
                                           /\ sancion'[s].usuario_id = sancion[s].usuario_id
         /\ r \in DOMAIN sancion' => Traced(sancion'[r].reporte_id, sancion'[r].usuario_id)
<1> DEFINE u == apply[r].target
           t == apply[r].reporte_id
           closed == S!ClosedExpired(u, apply[r].now)
<1>1. sancion' = [s \in DOMAIN sancion \cup {r} |-> IF s = r THEN S!NewSancion(r) ELSE closed[s]]
  BY DEF S!ApplyCommit
<1>2. \A s \in DOMAIN sancion : closed[s].reporte_id = sancion[s].reporte_id /\ closed[s].usuario_id = sancion[s].usuario_id
  BY DEF S!ClosedExpired
<1>3. sancion'[r].reporte_id = t /\ sancion'[r].usuario_id = u
  BY <1>1 DEF S!NewSancion
<1>4. Traced(t, u)
  <2>1. SUFFICES ASSUME t # NULL PROVE Traced(t, u)
    BY DEF Traced
  <2>2. t \in Posts /\ u \in Accounts /\ S!ReportProblem(t, u) = NULL
    BY <2>1 DEF S!ApplyCommit, Asks, ApplyState
  <2>3. /\ t \in DOMAIN reporte /\ reporte[t].estado = "escalado"
        /\ reporte[t].objetivo_id \in Accounts => u = reporte[t].objetivo_id
        /\ reporte[t].objetivo_id \in Contents => u = AuthorOf[reporte[t].objetivo_id]
    BY <2>2, CitedReport
  <2>4. \E a \in auditoria : a.report = t /\ a.hasta = "escalado" /\ a.by = reporte[t].revisado_por
    BY <2>3 DEF IInv, AuditTrail, AuditOf
  <2> QED
    BY <2>3, <2>4 DEF Traced
<1> HIDE DEF u, t, closed
<1> QED
  BY <1>1, <1>2, <1>3, <1>4

\* Every sanction that cites a report can be traced to a decision, whatever is decided, looked up and sanctioned
\* meanwhile: apply_sanction reads the row as it stands, and an escalated report stays escalated.
THEOREM Traceable == ModerationSpec => []SanctionTraceable
<1>1. ModerationInit => Asks /\ SanctionTraceable
  <2> SUFFICES ASSUME ModerationInit PROVE Asks /\ SanctionTraceable
    OBVIOUS
  <2>1. S!IdleApply \in ApplyState /\ S!IdleApply.phase = "idle"
    BY DEF S!IdleApply, ApplyState
  <2> QED
    BY <2>1 DEF ModerationInit, S!Init, Asks, SanctionTraceable
<1>2. ASSUME IInv, Asks, SanctionTraceable, [ModerationNext]_moderationVars PROVE SanctionTraceable'
  <2>1. [Next]_vars
    BY <1>2 DEF ModerationNext, moderationVars
  <2>2. \A s \in DOMAIN sancion : Traced(sancion[s].reporte_id, sancion[s].usuario_id)
    BY <1>2 DEF SanctionTraceable, Traced
  <2>3. \A t, u : Traced(t, u) => Traced(t, u)'
    BY <1>2, <2>1, TracedStays
  <2>4. CASE UNCHANGED sancion
    BY <2>2, <2>3, <2>4 DEF SanctionTraceable, Traced
  <2>5. ASSUME UNCHANGED vars, NEW r \in Applies, S!ApplyCommit(r) PROVE SanctionTraceable'
    <3>1. \A s \in DOMAIN sancion' : Traced(sancion'[s].reporte_id, sancion'[s].usuario_id)
      BY <1>2, <2>2, <2>5, CommitTraced
    <3> QED
      BY <2>5, <3>1 DEF SanctionTraceable, Traced, vars
  <2> QED
    BY <1>2, <2>4, <2>5, SanctionsChange
<1> QED
  BY <1>1, <1>2, AsksStep, ReportsUntouched, Inductive, PTL DEF ModerationSpec
=============================================================================
