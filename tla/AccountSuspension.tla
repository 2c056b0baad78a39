------------------------- MODULE AccountSuspension -------------------------
(***************************************************************************)
(* What HU-45 promises about an account, seen from outside the service:    *)
(* at any moment an account is barred by at most one sanction; it becomes  *)
(* barred only by an administrator's sanction, and stops being barred only *)
(* because an administrator lifts that sanction or because its end passes. *)
(* Sanctions.tla implements this specification with rows, transactions and *)
(* requests that read the clock long before they use it.                   *)
(***************************************************************************)
EXTENDS Integers

CONSTANTS Accounts,     \* accounts of the service
          NULL          \* the end of a permanent sanction

VARIABLES clock,        \* the time everyone reads
          barred        \* barred[u]: the sanctions, with their ends, that bar account u now

absVars == <<clock, barred>>

\* A sanction with end fin still bars the account at time t.
Bars(fin, t) == fin # NULL => fin > t

AbsInit == /\ clock = 0
           /\ barred = [u \in Accounts |-> {}]

\* An administrator bars an account that is not barred.
Suspend(u) ==
  /\ barred[u] = {}
  /\ \E b \in barred'[u] :
       /\ Bars(b.fin, clock)
       /\ barred' = [barred EXCEPT ![u] = {b}]
  /\ UNCHANGED clock

\* An administrator lifts the sanction that bars the account.
Lift(u) ==
  /\ barred[u] # {}
  /\ barred' = [barred EXCEPT ![u] = {}]
  /\ UNCHANGED clock

\* Time passes: the sanctions whose end is reached stop barring by themselves.
Pass ==
  /\ clock' = clock + 1
  /\ barred' = [u \in Accounts |-> {b \in barred[u] : Bars(b.fin, clock')}]

AbsNext == Pass \/ \E u \in Accounts : Suspend(u) \/ Lift(u)

AbsSpec == AbsInit /\ [][AbsNext]_absVars
=============================================================================
