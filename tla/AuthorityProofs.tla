----------------------------- MODULE AuthorityProofs ----------------------------
(***************************************************************************)
(* Every operation of Authority keeps the rows of the store well formed,   *)
(* for every value of the constants, and changes them in few ways: most    *)
(* operations only move a row to a terminal state.  From that shape, and   *)
(* not from the operations one by one, follow the invariant of the store   *)
(* that is served (its verification succeeds) and the one of the chain     *)
(* from an approved decision to a redeemed execution authorization, and    *)
(* with them the properties of the runs.                                   *)
(*                                                                         *)
(* The last part is about the daemon as a whole.  Running dispatch beside  *)
(* the authority chain adds nothing to either, so that what is proved of   *)
(* the chain holds of its rows there; and dispatch leaves no trace of an   *)
(* operation that was not claimed.                                         *)
(***************************************************************************)
EXTENDS Runtime, TLAPS

USE ZenonT(60)

SessionTable == [Sessions -> [last: Nat, revoked: BOOLEAN]]

\* The lesser of two numbers is one of them and bounds both from below.
LEMMA LesserNat ==
    ASSUME NEW a \in Nat, NEW b \in Nat
    PROVE  /\ Lesser(a, b) \in Nat
           /\ Lesser(a, b) <= a
           /\ Lesser(a, b) <= b
BY SMT DEF Lesser

\* A bound that a session meets is met when its last activity moves forward.
LEMMA LesserAdvances ==
    \A x, last, next, idle, expires \in Nat :
        x <= Lesser(last + idle, expires) /\ last <= next
            => x <= Lesser(next + idle, expires)
BY SMT DEF Lesser

LEMMA LesserBound ==
    \A x, a, b \in Nat : x <= a /\ x <= b => x <= Lesser(a, b)
BY SMT DEF Lesser

LEMMA LesserAbove ==
    \A x, a, b \in Nat : x < a /\ x < b => x < Lesser(a, b)
BY SMT DEF Lesser

\* How instants compare.
LEMMA SumNat == \A a, b \in Nat : a + b \in Nat
BY SMT

LEMMA SumAbove == \A a, b \in Nat : b > 0 => a < a + b
BY SMT

LEMMA LeqRefl == \A a \in Nat : a <= a
BY SMT

LEMMA LessIsLeq == \A a, b \in Nat : (a < b => a <= b) /\ (b > a <=> a < b)
BY SMT

LEMMA LeqTrans == \A a, b, c \in Nat : a <= b /\ b <= c => a <= c
BY SMT

LEMMA LessLeq == \A a, b, c \in Nat : a < b /\ b <= c => a < c
BY SMT

\* Recording activity keeps the session table well formed, never moves a
\* session's last activity back and revokes nothing (the touch of
\* verify_and_touch_local_session_on_connection_v1).
LEMMA TouchedMonotone ==
    ASSUME session \in SessionTable, NEW s \in Sessions, NEW at \in Nat,
           session[s].last <= at
    PROVE  /\ Touched(s, at) \in SessionTable
           /\ \A t \in Sessions : session[t].last <= Touched(s, at)[t].last
           /\ \A t \in Sessions : Touched(s, at)[t].revoked = session[t].revoked
BY SMT DEF Touched, SessionTable

\* An authorization never expires after any of its sources
\* (effective_authorization_expiry).
LEMMA EffectiveExpiryBounds ==
    ASSUME TypeOK, NEW d \in Decisions, NEW at \in Nat,
           session[Requester[d]].last <= at
    PROVE  LET e == EffectiveExpiry(d, at)
           IN  /\ e \in Nat
               /\ e <= at + AuthTTL
               /\ e <= attempt[d].expires
               /\ e <= nonce[d].expires
               /\ e <= Touched(Requester[d], at)[Requester[d]].last + IdleTimeout
               /\ e <= SessionExpires[Requester[d]]
               /\ e <= ActiveUntil(Approver[d])
               /\ e <= SessionExpires[Approver[d]]
<1> DEFINE r == Requester[d]
           a == Approver[d]
           ttl == Lesser(at + AuthTTL, Lesser(attempt[d].expires, nonce[d].expires))
<1>1. /\ r \in Sessions /\ a \in Sessions
      /\ SessionExpires[r] \in Nat /\ SessionExpires[a] \in Nat
      /\ at + AuthTTL \in Nat /\ IdleTimeout \in Nat
  BY SMT, ConstantsAssumption
<1>2. /\ attempt[d].expires \in Nat /\ nonce[d].expires \in Nat
      /\ session \in SessionTable /\ session[a].last \in Nat
  BY <1>1 DEF TypeOK, AttemptRow, NonceRow, SessionTable
<1>3. Touched(r, at)[r].last \in Nat
  BY <1>1, <1>2, TouchedMonotone DEF SessionTable
<1>4. /\ ttl \in Nat /\ ttl <= at + AuthTTL
      /\ ttl <= attempt[d].expires /\ ttl <= nonce[d].expires
  <2> DEFINE rows == Lesser(attempt[d].expires, nonce[d].expires)
  <2>1. /\ rows \in Nat /\ rows <= attempt[d].expires /\ rows <= nonce[d].expires
    BY <1>2, LesserNat
  <2> HIDE DEF rows
  <2>2. /\ Lesser(at + AuthTTL, rows) \in Nat /\ Lesser(at + AuthTTL, rows) <= at + AuthTTL
        /\ Lesser(at + AuthTTL, rows) <= rows
    BY <1>1, <2>1, LesserNat
  <2>3. ttl = Lesser(at + AuthTTL, rows)
    BY DEF rows
  <2> HIDE DEF ttl
  <2>4. QED
    BY <1>2, <2>1, <2>2, <2>3, LeqTrans
<1>5. /\ ActiveUntilTouched(r, at) \in Nat
      /\ ActiveUntilTouched(r, at) <= Touched(r, at)[r].last + IdleTimeout
      /\ ActiveUntilTouched(r, at) <= SessionExpires[r]
  BY <1>1, <1>3, SumNat, LesserNat DEF ActiveUntilTouched
<1>6. /\ ActiveUntil(a) \in Nat /\ ActiveUntil(a) <= SessionExpires[a]
  BY <1>1, <1>2, SumNat, LesserNat DEF ActiveUntil
<1>7. /\ Lesser(ActiveUntilTouched(r, at), ActiveUntil(a)) \in Nat
      /\ Lesser(ActiveUntilTouched(r, at), ActiveUntil(a)) <= ActiveUntilTouched(r, at)
      /\ Lesser(ActiveUntilTouched(r, at), ActiveUntil(a)) <= ActiveUntil(a)
  BY <1>5, <1>6, LesserNat
<1>8. /\ EffectiveExpiry(d, at) \in Nat
      /\ EffectiveExpiry(d, at) <= ttl
      /\ EffectiveExpiry(d, at) <= Lesser(ActiveUntilTouched(r, at), ActiveUntil(a))
  BY <1>4, <1>7, LesserNat DEF EffectiveExpiry
<1> HIDE DEF ttl
<1>9. QED
  BY SMT, <1>1, <1>2, <1>3, <1>4, <1>5, <1>6, <1>7, <1>8

--------------------------------------------------------------------------------

\* The store holds well-formed rows in the initial state.
LEMMA InitTypeOK == Init => TypeOK
<1> SUFFICES ASSUME Init PROVE TypeOK
  OBVIOUS
<1>1. AnyKey \in Keys
  BY ConstantsAssumption DEF AnyKey
<1>2. QED
  BY <1>1, ConstantsAssumption
  DEF Init, TypeOK, AttemptRow, NonceRow, AuthRow, ConsumptionRow,
      NonceTerminal, AuthTerminal

\* Ending a row keeps the table well formed.
LEMMA TerminalRow ==
    ASSUME NEW table \in [Decisions -> AuthRow], NEW d \in Decisions,
           NEW terminal \in AuthTerminal, NEW at \in Nat
    PROVE  [table EXCEPT ![d].state = terminal, ![d].at = at]
              \in [Decisions -> AuthRow]
BY DEF AuthRow

\* Every operation keeps the rows well formed.  The operations on one decision
\* first, then those of sessions.
LEMMA ChainStepType ==
    ASSUME TypeOK, NEW d \in Decisions, NEW k \in Keys, NEW s \in Sessions,
           NEW at \in Time, NEW authenticated \in BOOLEAN,
           \/ PrepareAttempt(d, at)
           \/ IssueNonce(d, at)
           \/ ReadNonce(d, at)
           \/ CancelNonce(d, at)
           \/ ReadAuthorization(d, at)
           \/ IssueAuthorization(d, k, at)
           \/ ReplayAuthorization(d, k, at)
           \/ ReadAuthorizationAs(d, s, at)
           \/ CancelAuthorization(d, s, at)
           \/ RevokeAuthorization(d, s, at)
           \/ Redeem(d, k, at, authenticated)
           \/ ReplayRedemption(d, k, at, authenticated)
    PROVE  TypeOK'
<1> USE DEF TypeOK
<1>0. /\ at \in Nat /\ ApprovalExpiry[d] \in Nat /\ NonceTTL \in Nat
      /\ Requester[d] \in Sessions /\ Approver[d] \in Sessions
  BY ConstantsAssumption
<1>1. CASE PrepareAttempt(d, at)
  BY <1>0, <1>1 DEF PrepareAttempt, AttemptRow
<1>2. CASE IssueNonce(d, at)
  BY SMT, <1>0, <1>2 DEF IssueNonce, NonceRow, AttemptRow, Lesser
<1>3. ExpiredNonce(d, at) \in [Decisions -> NonceRow]
  BY DEF ExpiredNonce, NonceRow, NonceTerminal
<1>4. CASE ReadNonce(d, at)
  BY <1>3, <1>4 DEF ReadNonce
<1>5. CASE CancelNonce(d, at)
  BY <1>0, <1>3, <1>5 DEF CancelNonce, NonceRow, NonceTerminal
<1>6. ExpiredAuth(d, at) \in [Decisions -> AuthRow]
  BY DEF ExpiredAuth, AuthRow, AuthTerminal
<1>7. CASE ReadAuthorization(d, at)
  BY <1>6, <1>7 DEF ReadAuthorization
<1>8. CASE IssueAuthorization(d, k, at)
  <2>1. session[Requester[d]].last <= at
    BY <1>8 DEF IssueAuthorization, Authenticates
  <2>2. EffectiveExpiry(d, at) \in Nat
    BY <1>0, <2>1, EffectiveExpiryBounds
  <2>3. Touched(Requester[d], at) \in SessionTable
    BY <1>0, <2>1, TouchedMonotone DEF SessionTable
  <2>4. auth' \in [Decisions -> AuthRow]
    BY <1>0, <1>8, <2>2 DEF IssueAuthorization, AuthRow
  <2>5. QED
    BY <1>8, <2>3, <2>4 DEF IssueAuthorization, SessionTable
<1>9. ASSUME NEW t \in Sessions, Authenticates(t, at)
      PROVE  Touched(t, at) \in SessionTable
  BY <1>0, <1>9, TouchedMonotone DEF Authenticates, SessionTable
<1>10. CASE ReplayAuthorization(d, k, at)
  BY <1>0, <1>6, <1>9, <1>10 DEF ReplayAuthorization, SessionTable
<1>11. CASE ReadAuthorizationAs(d, s, at)
  BY <1>6, <1>9, <1>11 DEF ReadAuthorizationAs, SessionTable
<1>12. ASSUME NEW terminal \in AuthTerminal,
              TransitionAuthorization(d, s, at, terminal)
       PROVE  TypeOK'
  <2> DEFINE expired == ExpiredAuth(d, at)
  <2>1. expired \in [Decisions -> AuthRow]
    BY <1>6
  <2>2. auth' = IF expired[d].state = "active"
                  THEN [expired EXCEPT ![d].state = terminal, ![d].at = at]
                  ELSE expired
    BY <1>12 DEF TransitionAuthorization
  <2> HIDE DEF expired
  <2>3. auth' \in [Decisions -> AuthRow]
    BY <1>0, <2>1, <2>2, TerminalRow
  <2>4. QED
    BY <1>9, <1>12, <2>3 DEF TransitionAuthorization, SessionTable
<1>13. CASE CancelAuthorization(d, s, at)
  BY <1>12, <1>13 DEF CancelAuthorization, AuthTerminal
<1>14. CASE RevokeAuthorization(d, s, at)
  BY <1>12, <1>14 DEF RevokeAuthorization, AuthTerminal
<1>15. ASSUME RedemptionActor(d, at, authenticated)
       PROVE  session' \in SessionTable
  BY <1>0, <1>9, <1>15 DEF RedemptionActor, SessionTable
<1>16. CASE Redeem(d, k, at, authenticated)
  <2>1. auth' \in [Decisions -> AuthRow]
    BY <1>0, <1>16, TerminalRow DEF Redeem, AuthTerminal
  <2>2. consumption' \in [Decisions -> ConsumptionRow]
    BY <1>0, <1>16 DEF Redeem, ConsumptionRow
  <2>3. QED
    BY <1>15, <1>16, <2>1, <2>2 DEF Redeem, SessionTable
<1>17. CASE ReplayRedemption(d, k, at, authenticated)
  BY <1>15, <1>17 DEF ReplayRedemption, SessionTable
<1>18. QED
  BY <1>1, <1>2, <1>4, <1>5, <1>7, <1>8, <1>10, <1>11, <1>13, <1>14,
     <1>16, <1>17

LEMMA SessionStepType ==
    ASSUME TypeOK, NEW s \in Sessions, NEW at \in Time,
           \/ TouchSession(s, at)
           \/ RevokeSession(s, at)
           \/ RevokeAllSessions(s, at)
    PROVE  /\ TypeOK'
           /\ \A t \in Sessions : session[t].last <= session'[t].last
           /\ UNCHANGED <<attempt, nonce, auth, consumption, held>>
<1> USE DEF TypeOK
<1>1. at \in Nat
  BY ConstantsAssumption
<1>2. Authenticates(s, at) /\ UNCHANGED <<attempt, nonce, auth, consumption, held>>
  BY DEF TouchSession, RevokeSession, RevokeAllSessions
<1>3. /\ Touched(s, at) \in SessionTable
      /\ \A t \in Sessions : session[t].last <= Touched(s, at)[t].last
  BY <1>1, <1>2, TouchedMonotone DEF Authenticates, SessionTable
<1>4. CASE TouchSession(s, at)
  BY <1>2, <1>3, <1>4 DEF TouchSession, SessionTable
<1>5. CASE RevokeSession(s, at)
  BY <1>2, <1>3, <1>5 DEF RevokeSession, SessionTable
<1>6. CASE RevokeAllSessions(s, at)
  BY <1>2, <1>3, <1>6 DEF RevokeAllSessions, SessionTable
<1>7. QED
  BY <1>4, <1>5, <1>6

\* A fresh store has no rows.
LEMMA InitAbsent ==
    Init => \A d \in Decisions :
               /\ attempt[d].state = "absent" /\ nonce[d].state = "absent"
               /\ auth[d].state = "absent" /\ consumption[d].state = "absent"
<1> SUFFICES ASSUME Init, NEW d \in Decisions
             PROVE  /\ attempt[d].state = "absent" /\ nonce[d].state = "absent"
                    /\ auth[d].state = "absent" /\ consumption[d].state = "absent"
  OBVIOUS
<1>1. attempt[d].state = "absent"
  BY DEF Init
<1>2. nonce[d].state = "absent"
  BY DEF Init
<1>3. auth[d].state = "absent"
  BY DEF Init
<1>4. consumption[d].state = "absent"
  BY DEF Init
<1>5. QED
  BY <1>1, <1>2, <1>3, <1>4

\* Every operation of the store is one of these, on one decision or session.
LEMMA NextSplits ==
    ASSUME Next
    PROVE  \/ \E d \in Decisions, k \in Keys, s \in Sessions, at \in Time,
                 authenticated \in BOOLEAN :
                 \/ PrepareAttempt(d, at)
                 \/ IssueNonce(d, at)
                 \/ ReadNonce(d, at)
                 \/ CancelNonce(d, at)
                 \/ ReadAuthorization(d, at)
                 \/ IssueAuthorization(d, k, at)
                 \/ ReplayAuthorization(d, k, at)
                 \/ ReadAuthorizationAs(d, s, at)
                 \/ CancelAuthorization(d, s, at)
                 \/ RevokeAuthorization(d, s, at)
                 \/ Redeem(d, k, at, authenticated)
                 \/ ReplayRedemption(d, k, at, authenticated)
           \/ \E s \in Sessions, at \in Time :
                 \/ TouchSession(s, at)
                 \/ RevokeSession(s, at)
                 \/ RevokeAllSessions(s, at)
<1>1. \A d \in Decisions : Requester[d] \in Sessions
  BY ConstantsAssumption
<1>2. PICK k \in Keys : TRUE
  BY ConstantsAssumption
<1>3. TRUE \in BOOLEAN
  OBVIOUS
<1>4. CASE ChainNext
  BY <1>1, <1>2, <1>3, <1>4 DEF ChainNext, DecisionNext, SessionNext
<1>5. CASE RedemptionNext
  BY <1>1, <1>5 DEF RedemptionNext
<1>6. CASE \E d \in Decisions, at \in Time : CancelNonce(d, at)
  BY <1>1, <1>2, <1>3, <1>6
<1>7. QED
  BY <1>4, <1>5, <1>6 DEF Next, ServedNext

LEMMA NextTypeOK == TypeOK /\ [Next]_vars => TypeOK'
<1> SUFFICES ASSUME TypeOK, [Next]_vars PROVE TypeOK'
  OBVIOUS
<1>1. CASE Next
  BY SMT, <1>1, NextSplits, ChainStepType, SessionStepType
<1>2. CASE UNCHANGED vars
  BY <1>2 DEF TypeOK, vars
<1>3. QED
  BY <1>1, <1>2

\* The rows keep the shape the schema gives them under every operation of the
\* store and any sequence of clock readings.
THEOREM TypeCorrect == Spec => []TypeOK
<1>1. Init => TypeOK
  BY InitTypeOK
<1>2. TypeOK /\ [Next]_vars => TypeOK'
  BY NextTypeOK
<1>3. QED
  BY <1>1, <1>2, PTL DEF Spec

--------------------------------------------------------------------------------
(***************************************************************************)
(* The moves.                                                              *)
(***************************************************************************)
\* Activity never moves back.
SessionsAdvance ==
    \A t \in Sessions : session[t].last <= session'[t].last

SameElsewhere(table, next, d) == \A e \in Decisions \ {d} : next[e] = table[e]

NonceMoves(d, at) ==
    /\ SameElsewhere(nonce, nonce', d)
    /\ nonce'[d].issued = nonce[d].issued
    /\ nonce'[d].expires = nonce[d].expires
    /\ nonce[d].state # "absent" /\ nonce'[d].state # "absent"
    /\ \/ nonce'[d] = nonce[d]
       \/ /\ nonce[d].state = "active" /\ nonce'[d].state = "expired"
          /\ nonce'[d].at = nonce[d].expires
       \/ /\ nonce[d].state = "active" /\ nonce'[d].state = "cancelled"
          /\ nonce'[d].at = at
    /\ UNCHANGED <<session, attempt, auth, consumption, held>>

AuthMoves(d, at) ==
    /\ SameElsewhere(auth, auth', d)
    /\ auth'[d].issued = auth[d].issued
    /\ auth'[d].expires = auth[d].expires
    /\ auth'[d].key = auth[d].key
    /\ auth[d].state # "absent" /\ auth'[d].state # "absent"
    /\ \/ auth'[d] = auth[d]
       \/ /\ auth[d].state = "active" /\ auth'[d].state = "expired"
          /\ auth'[d].at = auth[d].expires
       \/ /\ auth[d].state = "active"
          /\ auth'[d].state \in {"cancelled", "revoked"}
          /\ auth[d].issued <= at /\ at < auth[d].expires
          /\ auth'[d].at = at
    /\ SessionsAdvance
    /\ UNCHANGED <<attempt, nonce, consumption, held>>

LEMMA NonceOperationsMove ==
    ASSUME TypeOK, NEW d \in Decisions, NEW at \in Time,
           ReadNonce(d, at) \/ CancelNonce(d, at)
    PROVE  /\ NonceMoves(d, at)
           /\ ReadNonce(d, at) => nonce'[d] = nonce[d] \/ nonce'[d].state = "expired"
<1> DEFINE expired == ExpiredNonce(d, at)
<1>1. /\ nonce \in [Decisions -> NonceRow] /\ at \in Nat
      /\ nonce[d].state # "absent"
      /\ UNCHANGED <<session, attempt, auth, consumption, held>>
  BY ConstantsAssumption DEF TypeOK, ReadNonce, CancelNonce
<1>2. /\ expired \in [Decisions -> NonceRow]
      /\ SameElsewhere(nonce, expired, d)
      /\ expired[d].issued = nonce[d].issued
      /\ expired[d].expires = nonce[d].expires
      /\ IF nonce[d].state = "active" /\ nonce[d].expires <= at
           THEN expired[d].state = "expired" /\ expired[d].at = nonce[d].expires
           ELSE expired[d] = nonce[d]
  BY <1>1 DEF ExpiredNonce, NonceRow, NonceTerminal, SameElsewhere
<1>3. CASE ReadNonce(d, at)
  <2>1. nonce' = expired
    BY <1>3 DEF ReadNonce
  <2> HIDE DEF expired
  <2>2. QED
    BY <1>1, <1>2, <2>1 DEF NonceMoves
<1>4. CASE CancelNonce(d, at) /\ ~ReadNonce(d, at)
  <2>1. nonce' = IF expired[d].state = "active"
                   THEN [expired EXCEPT ![d].state = "cancelled", ![d].at = at]
                   ELSE expired
    BY <1>4 DEF CancelNonce
  <2> HIDE DEF expired
  <2>2. CASE expired[d].state = "active"
    <3>1. nonce' = [expired EXCEPT ![d].state = "cancelled", ![d].at = at]
      BY <2>1, <2>2
    <3>2. /\ SameElsewhere(nonce, nonce', d)
          /\ nonce'[d].issued = nonce[d].issued
          /\ nonce'[d].expires = nonce[d].expires
          /\ nonce'[d].state = "cancelled" /\ nonce'[d].at = at
      BY <1>2, <3>1 DEF NonceRow, SameElsewhere
    <3>3. nonce[d].state = "active"
      BY <1>2, <2>2
    <3>4. QED
      BY <1>1, <1>4, <3>2, <3>3 DEF NonceMoves
  <2>3. CASE expired[d].state # "active"
    BY <1>1, <1>2, <2>1, <2>3 DEF NonceMoves
  <2>4. QED
    BY <2>2, <2>3
<1>5. QED
  BY <1>3, <1>4

LEMMA AuthorizationOperationsMove ==
    ASSUME TypeOK, NEW d \in Decisions, NEW k \in Keys, NEW s \in Sessions,
           NEW at \in Time,
           \/ ReadAuthorization(d, at)
           \/ ReplayAuthorization(d, k, at)
           \/ ReadAuthorizationAs(d, s, at)
           \/ CancelAuthorization(d, s, at)
           \/ RevokeAuthorization(d, s, at)
    PROVE  AuthMoves(d, at)
<1> DEFINE expired == ExpiredAuth(d, at)
           Withdrawn(terminal) ==
               auth' = IF expired[d].state = "active"
                         THEN [expired EXCEPT ![d].state = terminal, ![d].at = at]
                         ELSE expired
<1>1. /\ auth \in [Decisions -> AuthRow] /\ at \in Nat
      /\ auth[d].state # "absent" /\ AuthClockAccepts(d, at)
      /\ UNCHANGED <<attempt, nonce, consumption, held>>
  BY ConstantsAssumption
  DEF TypeOK, ReadAuthorization, ReplayAuthorization, ReadAuthorizationAs,
      CancelAuthorization, RevokeAuthorization, TransitionAuthorization
<1>2. SessionsAdvance
  <2>1. ASSUME NEW t \in Sessions, Authenticates(t, at),
               session' = Touched(t, at)
        PROVE  SessionsAdvance
    BY <1>1, <2>1, TouchedMonotone
    DEF TypeOK, SessionTable, Authenticates, SessionsAdvance
  <2>2. ASSUME UNCHANGED session PROVE SessionsAdvance
    BY SMT, <2>2 DEF TypeOK, SessionsAdvance
  <2>3. Requester[d] \in Sessions
    BY ConstantsAssumption
  <2>4. QED
    BY <2>1, <2>2, <2>3
    DEF ReadAuthorization, ReplayAuthorization, ReadAuthorizationAs,
        CancelAuthorization, RevokeAuthorization, TransitionAuthorization
<1>3. /\ expired \in [Decisions -> AuthRow]
      /\ SameElsewhere(auth, expired, d)
      /\ expired[d].issued = auth[d].issued
      /\ expired[d].expires = auth[d].expires
      /\ expired[d].key = auth[d].key
      /\ IF auth[d].state = "active" /\ auth[d].expires <= at
           THEN expired[d].state = "expired" /\ expired[d].at = auth[d].expires
           ELSE expired[d] = auth[d]
  BY <1>1 DEF ExpiredAuth, AuthRow, AuthTerminal, SameElsewhere
<1>4. auth' = expired \/ Withdrawn("cancelled") \/ Withdrawn("revoked")
  BY DEF ReadAuthorization, ReplayAuthorization, ReadAuthorizationAs,
         CancelAuthorization, RevokeAuthorization, TransitionAuthorization
<1> HIDE DEF expired
<1>5. CASE auth' = expired
  BY <1>1, <1>2, <1>3, <1>5 DEF AuthMoves
<1>6. ASSUME NEW terminal \in {"cancelled", "revoked"}, Withdrawn(terminal),
             expired[d].state = "active"
      PROVE  AuthMoves(d, at)
  <2>1. auth' = [expired EXCEPT ![d].state = terminal, ![d].at = at]
    BY <1>6
  <2>2. /\ SameElsewhere(auth, auth', d)
        /\ auth'[d].issued = auth[d].issued
        /\ auth'[d].expires = auth[d].expires
        /\ auth'[d].key = auth[d].key
        /\ auth'[d].state = terminal /\ auth'[d].at = at
    BY <1>3, <2>1 DEF AuthRow, SameElsewhere
  <2>3. auth[d].state = "active" /\ ~(auth[d].expires <= at)
    BY <1>3, <1>6
  <2>4. auth[d].issued <= at /\ at < auth[d].expires
    BY SMT, <1>1, <2>3 DEF AuthClockAccepts, AuthRow
  <2>5. QED
    BY <1>1, <1>2, <2>2, <2>3, <2>4 DEF AuthMoves
<1>7. QED
  BY <1>4, <1>5, <1>6

--------------------------------------------------------------------------------
(***************************************************************************)
(* Action properties.                                                      *)
(***************************************************************************)

\* What one step may do to terminal rows and to the capabilities handed out.
LEMMA StepKeepsTerminal ==
    ASSUME TypeOK, [Next]_vars, NEW d \in Decisions
    PROVE  /\ nonce[d].state \in NonceTerminal => nonce'[d] = nonce[d]
           /\ auth[d].state \in AuthTerminal => auth'[d] = auth[d]
           /\ consumption[d].state = "recorded" => consumption'[d] = consumption[d]
           /\ auth[d].state # "absent" /\ d \notin held => d \notin held'
<1> DEFINE Kept ==
      /\ nonce[d].state \in NonceTerminal => nonce'[d] = nonce[d]
      /\ auth[d].state \in AuthTerminal => auth'[d] = auth[d]
      /\ consumption[d].state = "recorded" => consumption'[d] = consumption[d]
      /\ auth[d].state # "absent" /\ d \notin held => d \notin held'
<1> USE DEF SameElsewhere
<1>1. ASSUME UNCHANGED vars PROVE Kept
  BY <1>1 DEF vars
<1>2. /\ nonce \in [Decisions -> NonceRow] /\ auth \in [Decisions -> AuthRow]
      /\ consumption \in [Decisions -> ConsumptionRow]
  BY DEF TypeOK
<1>3. ASSUME NEW e \in Decisions, NEW k \in Keys, NEW s \in Sessions,
             NEW at \in Time, NEW authenticated \in BOOLEAN
      PROVE  /\ PrepareAttempt(e, at) => Kept
             /\ IssueNonce(e, at) => Kept
             /\ ReadNonce(e, at) \/ CancelNonce(e, at) => Kept
             /\ \/ ReadAuthorization(e, at)
                \/ ReplayAuthorization(e, k, at)
                \/ ReadAuthorizationAs(e, s, at)
                \/ CancelAuthorization(e, s, at)
                \/ RevokeAuthorization(e, s, at)
                => Kept
             /\ IssueAuthorization(e, k, at) => Kept
             /\ Redeem(e, k, at, authenticated) => Kept
             /\ ReplayRedemption(e, k, at, authenticated) => Kept
  <2>1. CASE PrepareAttempt(e, at)
    BY <2>1 DEF PrepareAttempt
  <2>2. CASE IssueNonce(e, at)
    <3>1. nonce[e].state = "absent" /\ SameElsewhere(nonce, nonce', e)
      BY <1>2, <2>2 DEF IssueNonce
    <3>2. QED
      BY <2>2, <3>1 DEF IssueNonce, NonceTerminal
  <2>3. CASE ReadNonce(e, at) \/ CancelNonce(e, at)
    <3>1. NonceMoves(e, at)
      BY <2>3, NonceOperationsMove
    <3>2. QED
      BY <3>1 DEF NonceMoves, NonceTerminal
  <2>4. CASE \/ ReadAuthorization(e, at)
             \/ ReplayAuthorization(e, k, at)
             \/ ReadAuthorizationAs(e, s, at)
             \/ CancelAuthorization(e, s, at)
             \/ RevokeAuthorization(e, s, at)
    <3>1. AuthMoves(e, at)
      BY <2>4, AuthorizationOperationsMove
    <3>2. QED
      BY <3>1 DEF AuthMoves, AuthTerminal
  <2>5. CASE IssueAuthorization(e, k, at)
    <3>1. /\ auth[e].state = "absent" /\ SameElsewhere(auth, auth', e)
          /\ UNCHANGED <<nonce, consumption>>
          /\ held' \in {held, held \cup {e}}
      BY <1>2, <2>5 DEF IssueAuthorization
    <3>2. QED
      BY <3>1 DEF AuthTerminal
  <2>6. CASE Redeem(e, k, at, authenticated)
    <3>1. /\ auth[e].state = "active" /\ SameElsewhere(auth, auth', e)
          /\ consumption[e].state = "absent"
          /\ SameElsewhere(consumption, consumption', e)
          /\ UNCHANGED <<nonce, held>>
      BY <1>2, <2>6 DEF Redeem, RedemptionWindow
    <3>2. QED
      BY <3>1 DEF AuthTerminal
  <2>7. CASE ReplayRedemption(e, k, at, authenticated)
    BY <2>7 DEF ReplayRedemption
  <2>8. QED
    BY <2>1, <2>2, <2>3, <2>4, <2>5, <2>6, <2>7
<1>4. ASSUME NEW s \in Sessions, NEW at \in Time,
             TouchSession(s, at) \/ RevokeSession(s, at) \/ RevokeAllSessions(s, at)
      PROVE  Kept
  BY <1>4, SessionStepType
<1> HIDE DEF Kept
<1>5. ASSUME Next PROVE Kept
  BY SMT, <1>3, <1>4, <1>5, NextSplits
<1>6. Kept
  BY <1>1, <1>5
<1>7. QED
  BY <1>6 DEF Kept

\* Terminal evidence never changes again.
THEOREM TerminalEvidenceIsFinal == Spec => TerminalIsFinal
<1>1. TypeOK /\ [Next]_vars =>
        [/\ \A d \in Decisions :
               nonce[d].state \in NonceTerminal => nonce'[d] = nonce[d]
         /\ \A d \in Decisions :
               auth[d].state \in AuthTerminal => auth'[d] = auth[d]
         /\ \A d \in Decisions :
               consumption[d].state = "recorded"
                  => consumption'[d] = consumption[d]]_vars
  BY StepKeepsTerminal
<1>2. QED
  BY <1>1, TypeCorrect, PTL DEF Spec, TerminalIsFinal

\* A capability lost with its reply is never handed out again.
THEOREM LostCapabilityIsGone == Spec => LostCapabilityStaysLost
<1>1. TypeOK /\ [Next]_vars =>
        [\A d \in Decisions :
            auth[d].state # "absent" /\ d \notin held => d \notin held']_vars
  BY StepKeepsTerminal
<1>2. QED
  BY <1>1, TypeCorrect, PTL DEF Spec, LostCapabilityStaysLost

--------------------------------------------------------------------------------
(***************************************************************************)
(* The store stays acceptable to its own verifier.                         *)
(***************************************************************************)

Valid(d) ==
    /\ ValidAttempt(d)
    /\ ValidNonce(d)
    /\ ValidAuthorization(d)
    /\ ValidConsumption(d)

\* Rows nobody wrote stay acceptable.
LEMMA SameRowsStayValid ==
    ASSUME NEW e \in Decisions, Valid(e),
           attempt'[e] = attempt[e], nonce'[e] = nonce[e],
           auth'[e] = auth[e], consumption'[e] = consumption[e]
    PROVE  Valid(e)'
BY DEF Valid, ValidAttempt, ValidNonce, ValidNonceWindow, ValidNonceEvents,
       ValidAuthorization, ValidAuthorizationWindow, NonceOutlivesIssue,
       ValidAuthorizationEvents, ValidConsumption

\* An operation of the daemon on one decision leaves all rows acceptable.
LEMMA ServedStepValid ==
    ASSUME TypeOK, Verified,
           NEW d \in Decisions, NEW k \in Keys, NEW s \in Sessions,
           NEW at \in Time, NEW authenticated \in BOOLEAN,
           \/ PrepareAttempt(d, at)
           \/ IssueNonce(d, at)
           \/ ReadNonce(d, at)
           \/ ReadAuthorization(d, at)
           \/ IssueAuthorization(d, k, at)
           \/ ReplayAuthorization(d, k, at)
           \/ ReadAuthorizationAs(d, s, at)
           \/ CancelAuthorization(d, s, at)
           \/ RevokeAuthorization(d, s, at)
           \/ Redeem(d, k, at, authenticated)
           \/ ReplayRedemption(d, k, at, authenticated)
    PROVE  Verified'
<1>1. /\ at \in Nat /\ DecidedAt[d] \in Nat /\ ApprovalExpiry[d] \in Nat
      /\ NonceTTL \in Nat /\ NonceTTL > 0 /\ Requester[d] \in Sessions
  BY SMT, ConstantsAssumption
<1>2. /\ attempt \in [Decisions -> AttemptRow] /\ nonce \in [Decisions -> NonceRow]
      /\ auth \in [Decisions -> AuthRow]
      /\ consumption \in [Decisions -> ConsumptionRow]
  BY DEF TypeOK
<1>3. /\ attempt[d] \in AttemptRow /\ nonce[d] \in NonceRow
      /\ auth[d] \in AuthRow /\ consumption[d] \in ConsumptionRow
  BY <1>2
<1>a. attempt[d].requested \in Nat /\ attempt[d].expires \in Nat
  BY <1>3 DEF AttemptRow
<1>n. nonce[d].issued \in Nat /\ nonce[d].expires \in Nat /\ nonce[d].at \in Nat
  BY <1>3 DEF NonceRow
<1>u. auth[d].issued \in Nat /\ auth[d].expires \in Nat /\ auth[d].at \in Nat
  BY <1>3 DEF AuthRow
<1>c. consumption[d].state = "absent" \/ consumption[d].state = "recorded"
  BY <1>3 DEF ConsumptionRow
<1>4. \A e \in Decisions : Valid(e)
  BY DEF Verified, Valid
<1>v. ValidAttempt(d) /\ ValidNonce(d) /\ ValidAuthorization(d) /\ ValidConsumption(d)
  BY <1>4 DEF Valid
<1>5. SUFFICES /\ SameElsewhere(attempt, attempt', d)
               /\ SameElsewhere(nonce, nonce', d)
               /\ SameElsewhere(auth, auth', d)
               /\ SameElsewhere(consumption, consumption', d)
               /\ ValidAttempt(d)' /\ ValidNonce(d)'
               /\ ValidAuthorization(d)' /\ ValidConsumption(d)'
  <2>1. Valid(d)'
    BY <1>5 DEF Valid
  <2>2. ASSUME NEW e \in Decisions \ {d} PROVE Valid(e)'
    <3>1. /\ attempt'[e] = attempt[e] /\ nonce'[e] = nonce[e]
          /\ auth'[e] = auth[e] /\ consumption'[e] = consumption[e]
      BY <1>5 DEF SameElsewhere
    <3>2. QED
      BY <1>4, <3>1, SameRowsStayValid
  <2>3. QED
    BY <2>1, <2>2 DEF Verified, Valid
<1>same. ASSUME NEW table, table' = table PROVE SameElsewhere(table, table', d)
  BY <1>same DEF SameElsewhere
<1>6. CASE PrepareAttempt(d, at)
  <2>1. /\ attempt' = [attempt EXCEPT ![d] =
                         [state |-> "prepared", requested |-> at,
                          expires |-> ApprovalExpiry[d]]]
        /\ nonce' = nonce /\ auth' = auth /\ consumption' = consumption
        /\ DecidedAt[d] <= at /\ at < ApprovalExpiry[d]
        /\ attempt[d].state = "absent"
    BY <1>6 DEF PrepareAttempt
  <2>2. /\ attempt'[d].state = "prepared" /\ attempt'[d].requested = at
        /\ attempt'[d].expires = ApprovalExpiry[d]
    BY <1>2, <2>1
  <2>3. SameElsewhere(attempt, attempt', d)
    BY <1>2, <2>1 DEF SameElsewhere
  <2>4. nonce[d].state = "absent" /\ auth[d].state = "absent"
    BY <1>v, <2>1 DEF ValidNonce, ValidAuthorization
  <2>5. ValidAttempt(d)'
    BY <1>1, <2>1, <2>2 DEF ValidAttempt
  <2>6. ValidConsumption(d)'
    BY <1>v, <2>1 DEF ValidConsumption
  <2>7. ValidNonce(d)' /\ ValidAuthorization(d)'
    BY <2>1, <2>4 DEF ValidNonce, ValidAuthorization
  <2>8. QED
    BY <1>same, <2>1, <2>3, <2>5, <2>6, <2>7 DEF SameElsewhere
<1>7. CASE IssueNonce(d, at)
  <2>1. /\ nonce' = [nonce EXCEPT ![d] =
                       [state |-> "active", issued |-> at, at |-> at,
                        expires |-> Lesser(at + NonceTTL, attempt[d].expires)]]
        /\ attempt' = attempt /\ auth' = auth /\ consumption' = consumption
        /\ attempt[d].state = "prepared" /\ nonce[d].state = "absent"
        /\ attempt[d].requested <= at /\ at < attempt[d].expires
    BY <1>7 DEF IssueNonce
  <2>2. /\ nonce'[d].state = "active" /\ nonce'[d].issued = at /\ nonce'[d].at = at
        /\ nonce'[d].expires = Lesser(at + NonceTTL, attempt[d].expires)
    BY <1>2, <2>1
  <2>3. SameElsewhere(nonce, nonce', d)
    BY <1>2, <2>1 DEF SameElsewhere
  <2>4. auth[d].state = "absent"
    BY <1>v, <2>1 DEF ValidAuthorization
  <2>5. at < Lesser(at + NonceTTL, attempt[d].expires)
    <3>1. at < at + NonceTTL /\ at + NonceTTL \in Nat
      BY <1>1, SumNat, SumAbove
    <3>2. QED
      BY <1>1, <1>a, <2>1, <3>1, LesserAbove
  <2>6. ValidNonceWindow(d)' /\ attempt'[d].state # "absent"
    BY <2>1, <2>2, <2>5 DEF ValidNonceWindow
  <2>7. ValidNonceEvents(d)'
    BY SMT, <1>1, <2>2 DEF ValidNonceEvents
  <2>8. ValidAttempt(d)' /\ ValidConsumption(d)'
    BY <1>v, <2>1 DEF ValidAttempt, ValidConsumption
  <2>9. ValidNonce(d)' /\ ValidAuthorization(d)'
    BY <2>1, <2>4, <2>6, <2>7 DEF ValidNonce, ValidAuthorization
  <2>10. QED
    BY <1>same, <2>1, <2>3, <2>8, <2>9 DEF SameElsewhere
<1>8. CASE ReadNonce(d, at)
  <2>1. /\ NonceMoves(d, at)
        /\ nonce'[d] = nonce[d] \/ nonce'[d].state = "expired"
    BY <1>8, NonceOperationsMove
  <2>2. /\ attempt' = attempt /\ auth' = auth /\ consumption' = consumption
        /\ SameElsewhere(nonce, nonce', d)
    BY <2>1 DEF NonceMoves
  <2>3. ValidAttempt(d)' /\ ValidConsumption(d)'
    BY <1>v, <2>2 DEF ValidAttempt, ValidConsumption
  <2>4. CASE nonce'[d] = nonce[d]
    BY <1>4, <1>same, <2>2, <2>4, SameRowsStayValid DEF Valid, SameElsewhere
  <2>5. CASE nonce'[d] # nonce[d]
    <3>1. /\ nonce[d].state = "active" /\ nonce'[d].state = "expired"
          /\ nonce'[d].at = nonce[d].expires
          /\ nonce'[d].issued = nonce[d].issued
          /\ nonce'[d].expires = nonce[d].expires
      BY <2>1, <2>5 DEF NonceMoves
    <3>2. attempt[d].state # "absent" /\ ValidNonceWindow(d)
      BY <1>v, <3>1 DEF ValidNonce
    <3>3. ValidNonceWindow(d)'
      BY <2>2, <3>1, <3>2 DEF ValidNonceWindow
    <3>4. ValidNonceEvents(d)'
      BY SMT, <1>n, <3>1, <3>2 DEF ValidNonceWindow, ValidNonceEvents
    <3>5. ValidNonce(d)'
      BY <2>2, <3>2, <3>3, <3>4 DEF ValidNonce
    <3>6. ASSUME auth[d].state # "absent"
          PROVE  /\ attempt[d].state # "absent" /\ nonce'[d].state # "absent"
                 /\ ValidAuthorizationWindow(d)' /\ NonceOutlivesIssue(d)'
                 /\ ValidAuthorizationEvents(d)'
      <4>1. /\ attempt[d].state # "absent" /\ ValidAuthorizationWindow(d)
            /\ ValidAuthorizationEvents(d)
        BY <1>v, <3>6 DEF ValidAuthorization
      <4>2. ValidAuthorizationWindow(d)'
        BY <2>2, <3>1, <4>1 DEF ValidAuthorizationWindow
      <4>3. ValidAuthorizationEvents(d)'
        BY <2>2, <4>1 DEF ValidAuthorizationEvents
      <4>4. NonceOutlivesIssue(d)'
        BY <1>n, <1>u, <2>2, <3>1, <4>1
        DEF NonceOutlivesIssue, ValidAuthorizationWindow
      <4>5. nonce'[d].state # "absent"
        BY <3>1
      <4>6. QED
        BY <4>1, <4>2, <4>3, <4>4, <4>5
    <3>7. ValidAuthorization(d)'
      BY <2>2, <3>6 DEF ValidAuthorization
    <3>8. QED
      BY <1>same, <2>2, <2>3, <3>5, <3>7 DEF SameElsewhere
  <2>6. QED
    BY <2>4, <2>5
<1>9. CASE IssueAuthorization(d, k, at)
  <2> DEFINE expires == EffectiveExpiry(d, at)
  <2>1. /\ auth' = [auth EXCEPT ![d] =
                      [state |-> "active", issued |-> at, at |-> at, key |-> k,
                       expires |-> expires]]
        /\ attempt' = attempt /\ nonce' = nonce /\ consumption' = consumption
        /\ SourceWindow(d, at) /\ expires > at
        /\ attempt[d].state = "prepared" /\ auth[d].state = "absent"
        /\ session[Requester[d]].last <= at
    BY <1>9 DEF IssueAuthorization, Authenticates
  <2>2. expires \in Nat /\ expires <= attempt[d].expires
    BY <1>1, <2>1, EffectiveExpiryBounds
  <2> HIDE DEF expires
  <2>3. /\ auth'[d].state = "active" /\ auth'[d].issued = at /\ auth'[d].at = at
        /\ auth'[d].expires = expires
    BY <1>2, <2>1
  <2>4. SameElsewhere(auth, auth', d)
    BY <1>2, <2>1 DEF SameElsewhere
  <2>5. consumption[d].state = "absent"
    BY <1>c, <1>v, <2>1 DEF ValidConsumption
  <2>6. /\ attempt[d].requested <= at /\ nonce[d].issued <= at
        /\ at < nonce[d].expires /\ nonce[d].state = "active"
    BY <2>1 DEF SourceWindow
  <2>7. ValidAuthorizationWindow(d)'
    BY <1>1, <2>1, <2>2, <2>3, <2>6 DEF ValidAuthorizationWindow
  <2>8. NonceOutlivesIssue(d)' /\ nonce'[d].state # "absent" /\ attempt'[d].state # "absent"
    BY <2>1, <2>6 DEF NonceOutlivesIssue
  <2>9. ValidAuthorizationEvents(d)'
    <3>1. at <= at /\ at < expires
      BY <1>1, <2>1, <2>2, LeqRefl, LessIsLeq
    <3>2. consumption'[d].state = "absent"
      BY <2>1, <2>5
    <3>3. QED
      BY <2>3, <3>1, <3>2 DEF ValidAuthorizationEvents
  <2>10. ValidAttempt(d)' /\ ValidNonce(d)'
    BY <1>v, <2>1
    DEF ValidAttempt, ValidNonce, ValidNonceWindow, ValidNonceEvents
  <2>11. ValidAuthorization(d)' /\ ValidConsumption(d)'
    BY <2>1, <2>5, <2>7, <2>8, <2>9 DEF ValidAuthorization, ValidConsumption
  <2>12. QED
    BY <1>same, <2>1, <2>4, <2>10, <2>11 DEF SameElsewhere
<1>10. CASE \/ ReadAuthorization(d, at)
            \/ ReplayAuthorization(d, k, at)
            \/ ReadAuthorizationAs(d, s, at)
            \/ CancelAuthorization(d, s, at)
            \/ RevokeAuthorization(d, s, at)
  <2>1. AuthMoves(d, at)
    BY <1>10, AuthorizationOperationsMove
  <2>2. /\ attempt' = attempt /\ nonce' = nonce /\ consumption' = consumption
        /\ SameElsewhere(auth, auth', d)
    BY <2>1 DEF AuthMoves
  <2>3. CASE auth'[d] = auth[d]
    BY <1>4, <1>same, <2>2, <2>3, SameRowsStayValid DEF Valid, SameElsewhere
  <2>4. CASE auth'[d] # auth[d]
    <3>1. /\ auth[d].state = "active"
          /\ auth'[d].issued = auth[d].issued /\ auth'[d].expires = auth[d].expires
          /\ auth'[d].state # "absent"
          /\ \/ auth'[d].state = "expired" /\ auth'[d].at = auth[d].expires
             \/ /\ auth'[d].state \in {"cancelled", "revoked"}
                /\ auth'[d].at = at
                /\ auth[d].issued <= at /\ at < auth[d].expires
      BY <2>1, <2>4 DEF AuthMoves
    <3>2. consumption[d].state = "absent"
      BY <1>c, <1>v, <3>1 DEF ValidConsumption
    <3>3. /\ attempt[d].state # "absent" /\ nonce[d].state # "absent"
          /\ ValidAuthorizationWindow(d) /\ NonceOutlivesIssue(d)
      BY <1>v, <3>1 DEF ValidAuthorization
    <3>4. ValidAuthorizationWindow(d)' /\ NonceOutlivesIssue(d)'
      BY <2>2, <3>1, <3>3 DEF ValidAuthorizationWindow, NonceOutlivesIssue
    <3>5. ValidAuthorizationEvents(d)'
      <4>1. auth[d].issued < auth[d].expires
        BY <3>3 DEF ValidAuthorizationWindow
      <4>2. CASE auth'[d].state = "expired" /\ auth'[d].at = auth[d].expires
        <5>1. auth[d].issued <= auth[d].expires
          BY <1>u, <4>1, LessIsLeq
        <5>2. QED
          BY <2>2, <3>1, <3>2, <4>2, <5>1 DEF ValidAuthorizationEvents
      <4>3. CASE /\ auth'[d].state \in {"cancelled", "revoked"}
                 /\ auth'[d].at = at
                 /\ auth[d].issued <= at /\ at < auth[d].expires
        BY <1>1, <1>u, <2>2, <3>1, <3>2, <4>3 DEF ValidAuthorizationEvents
      <4>4. QED
        BY <3>1, <4>2, <4>3
    <3>6. ValidAttempt(d)' /\ ValidNonce(d)'
      BY <1>v, <2>2
      DEF ValidAttempt, ValidNonce, ValidNonceWindow, ValidNonceEvents
    <3>7. ValidAuthorization(d)' /\ ValidConsumption(d)'
      BY <2>2, <3>2, <3>3, <3>4, <3>5 DEF ValidAuthorization, ValidConsumption
    <3>8. QED
      BY <1>same, <2>2, <3>6, <3>7 DEF SameElsewhere
  <2>5. QED
    BY <2>3, <2>4
<1>11. CASE Redeem(d, k, at, authenticated)
  <2>1. /\ consumption' = [consumption EXCEPT ![d] =
                             [state |-> "recorded", key |-> k, at |-> at]]
        /\ auth' = [auth EXCEPT ![d].state = "consumed", ![d].at = at]
        /\ attempt' = attempt /\ nonce' = nonce
        /\ RedemptionWindow(d, at)
    BY <1>11 DEF Redeem
  <2>2. consumption'[d].state = "recorded" /\ consumption'[d].at = at
    BY <1>2, <2>1
  <2>3. /\ auth'[d].state = "consumed" /\ auth'[d].at = at
        /\ auth'[d].issued = auth[d].issued /\ auth'[d].expires = auth[d].expires
    BY <1>2, <2>1 DEF AuthRow
  <2>4. SameElsewhere(auth, auth', d) /\ SameElsewhere(consumption, consumption', d)
    BY <1>2, <2>1 DEF SameElsewhere
  <2>5. auth[d].state = "active" /\ auth[d].issued <= at /\ at < auth[d].expires
    BY <2>1 DEF RedemptionWindow
  <2>6. /\ attempt[d].state # "absent" /\ nonce[d].state # "absent"
        /\ ValidAuthorizationWindow(d) /\ NonceOutlivesIssue(d)
    BY <1>v, <2>5 DEF ValidAuthorization
  <2>7. ValidAuthorizationWindow(d)' /\ NonceOutlivesIssue(d)'
    BY <2>1, <2>3, <2>6 DEF ValidAuthorizationWindow, NonceOutlivesIssue
  <2>8. ValidAuthorizationEvents(d)'
    BY <1>1, <1>u, <2>2, <2>3, <2>5 DEF ValidAuthorizationEvents
  <2>9. ValidConsumption(d)'
    BY <2>2, <2>3, <2>5 DEF ValidConsumption
  <2>10. ValidAttempt(d)' /\ ValidNonce(d)'
    BY <1>v, <2>1
    DEF ValidAttempt, ValidNonce, ValidNonceWindow, ValidNonceEvents
  <2>11. ValidAuthorization(d)'
    BY <2>1, <2>6, <2>7, <2>8 DEF ValidAuthorization
  <2>12. QED
    BY <1>same, <2>1, <2>4, <2>9, <2>10, <2>11 DEF SameElsewhere
<1>12. CASE ReplayRedemption(d, k, at, authenticated)
  BY <1>4, <1>same, <1>12, SameRowsStayValid
  DEF ReplayRedemption, Valid, SameElsewhere
<1>13. QED
  BY <1>6, <1>7, <1>8, <1>9, <1>10, <1>11, <1>12

LEMMA ServedNextVerified ==
    TypeOK /\ Verified /\ [ServedNext]_vars => Verified'
<1> SUFFICES ASSUME TypeOK, Verified, [ServedNext]_vars PROVE Verified'
  OBVIOUS
<1>1. ASSUME UNCHANGED <<attempt, nonce, auth, consumption>> PROVE Verified'
  <2>1. \A d \in Decisions : Valid(d)
    BY DEF Verified, Valid
  <2>2. \A d \in Decisions : Valid(d)'
    BY <1>1, <2>1, SameRowsStayValid
  <2>3. QED
    BY <2>2 DEF Verified, Valid
<1>2. CASE UNCHANGED vars
  BY <1>1, <1>2 DEF vars
<1>3. \A d \in Decisions : Requester[d] \in Sessions
  BY ConstantsAssumption
<1>4. PICK k \in Keys : TRUE
  BY ConstantsAssumption
<1>5. TRUE \in BOOLEAN
  OBVIOUS
<1>6. CASE ChainNext
  <2>1. PICK at \in Time : DecisionNext(at) \/ SessionNext(at)
    BY <1>6 DEF ChainNext
  <2>2. CASE DecisionNext(at)
    BY <1>3, <1>4, <1>5, <2>2, ServedStepValid DEF DecisionNext
  <2>3. CASE SessionNext(at)
    BY <1>1, <2>3, SessionStepType DEF SessionNext
  <2>4. QED
    BY <2>1, <2>2, <2>3
<1>7. CASE RedemptionNext
  BY <1>3, <1>7, ServedStepValid DEF RedemptionNext
<1>8. QED
  BY <1>2, <1>6, <1>7 DEF ServedNext

\* Whatever the daemon's routes do, in whatever order and under whatever clock
\* readings, the store never commits rows that its own verifier rejects.
THEOREM ServedStoreVerifies == ServedSpec => []StoreVerifies
<1>1. Init => TypeOK /\ Verified
  <2>1. Init => Verified
    BY InitAbsent
    DEF Verified, ValidAttempt, ValidNonce, ValidAuthorization, ValidConsumption
  <2>2. QED
    BY <2>1, InitTypeOK
<1>2. TypeOK /\ Verified /\ [ServedNext]_vars => TypeOK' /\ Verified'
  <2>1. [ServedNext]_vars => [Next]_vars
    BY DEF Next
  <2>2. QED
    BY <2>1, NextTypeOK, ServedNextVerified
<1>3. TypeOK /\ Verified => StoreVerifies
  BY DEF StoreVerifies
<1>4. QED
  BY <1>1, <1>2, <1>3, PTL DEF ServedSpec

--------------------------------------------------------------------------------
(***************************************************************************)
(* ChainInvariant is inductive, with nonce cancellation among the steps.   *)
(* Only issue and redemption write the facts it speaks of; every other     *)
(* step is covered by one lemma on steps that keep them.                   *)
(***************************************************************************)

\* Steps that keep an authorization's issue, expiry and key, add no
\* consumption and move no activity back keep the invariant.
LEMMA KeepsChainInvariant ==
    ASSUME ChainInvariant, TypeOK', SessionsAdvance,
           UNCHANGED consumption,
           \A d \in Decisions :
              /\ auth'[d].issued = auth[d].issued
              /\ auth'[d].expires = auth[d].expires
              /\ auth'[d].key = auth[d].key
              /\ (auth'[d].state = "absent") <=> (auth[d].state = "absent")
              /\ \/ auth[d].state = "absent"
                 \/ nonce'[d].expires = nonce[d].expires
    PROVE  ChainInvariant'
<1>1. AuthorizedWithinApproval' /\ ConsumedWithinApproval' /\ KeysNameOneRow'
  <2>1. /\ AuthorizedWithinApproval /\ ConsumedWithinApproval /\ KeysNameOneRow
    BY DEF ChainInvariant
  <2>2. AuthorizedWithinApproval'
    BY <2>1 DEF AuthorizedWithinApproval
  <2>3. ConsumedWithinApproval'
    BY <2>1 DEF ConsumedWithinApproval
  <2>4. KeysNameOneRow'
    <3>keys. \A d, e \in Decisions :
             d # e /\ auth[d].state # "absent" /\ auth[e].state # "absent"
                => auth[d].key # auth[e].key
      BY <2>1 DEF KeysNameOneRow
    <3>1. ASSUME NEW d \in Decisions, NEW e \in Decisions, d # e,
                 auth'[d].state # "absent", auth'[e].state # "absent"
          PROVE  auth'[d].key # auth'[e].key
      <4>1. /\ auth'[d].key = auth[d].key /\ auth'[e].key = auth[e].key
            /\ auth[d].state # "absent" /\ auth[e].state # "absent"
        BY <3>1
      <4>2. QED
        BY <3>keys, <3>1, <4>1
    <3>2. QED
      BY <2>1, <3>1 DEF KeysNameOneRow
  <2>5. QED
    BY <2>2, <2>3, <2>4
<1>2. ExpiryBoundedBySources'
  <2> SUFFICES ASSUME NEW d \in Decisions, auth[d].state # "absent"
               PROVE  /\ auth[d].expires <= nonce[d].expires
                      /\ auth[d].expires <= ActiveUntil(Requester[d])'
                      /\ auth[d].expires <= ActiveUntil(Approver[d])'
    BY DEF ExpiryBoundedBySources
  <2>1. auth[d].expires \in Nat
    BY DEF ChainInvariant, TypeOK, AuthRow
  <2>2. ASSUME NEW s \in Sessions, auth[d].expires <= ActiveUntil(s)
        PROVE  auth[d].expires <= ActiveUntil(s)'
    <3>1. /\ session[s].last \in Nat /\ session'[s].last \in Nat
          /\ SessionExpires[s] \in Nat /\ IdleTimeout \in Nat
      BY ConstantsAssumption DEF ChainInvariant, TypeOK
    <3>2. QED
      BY <2>1, <2>2, <3>1, LesserAdvances DEF SessionsAdvance, ActiveUntil
  <2>3. Requester[d] \in Sessions /\ Approver[d] \in Sessions
    BY ConstantsAssumption
  <2>4. QED
    BY <2>2, <2>3 DEF ChainInvariant, ExpiryBoundedBySources
<1>3. QED
  BY <1>1, <1>2 DEF ChainInvariant

\* Issuing writes an authorization inside every window it derives from.
LEMMA IssueKeepsChainInvariant ==
    ASSUME ChainInvariant, NEW d \in Decisions, NEW k \in Keys, NEW at \in Time,
           IssueAuthorization(d, k, at), TypeOK'
    PROVE  ChainInvariant'
<1> DEFINE expires == EffectiveExpiry(d, at)
<1>1. /\ at \in Nat /\ DecidedAt[d] \in Nat /\ AuthTTL \in Nat /\ IdleTimeout \in Nat
      /\ Requester[d] \in Sessions /\ Approver[d] \in Sessions
      /\ \A s \in Sessions : SessionExpires[s] \in Nat
  BY ConstantsAssumption
<1>2. /\ TypeOK /\ Verified /\ session[Requester[d]].last <= at
      /\ SourceWindow(d, at) /\ attempt[d].state = "prepared"
      /\ auth[d].state = "absent"
      /\ IdentityOf[Approver[d]] # IdentityOf[Requester[d]]
      /\ \A e \in Decisions : auth[e].state # "absent" => auth[e].key # k
      /\ session' = Touched(Requester[d], at)
      /\ UNCHANGED <<attempt, nonce, consumption>>
  BY DEF IssueAuthorization, Authenticates, ChainInvariant
<1>3. /\ auth \in [Decisions -> AuthRow] /\ attempt[d].requested \in Nat
      /\ \A s \in Sessions : session[s].last \in Nat /\ session'[s].last \in Nat
      /\ \A e \in Decisions : auth[e].expires \in Nat
      /\ consumption[d].state \in {"absent", "recorded"}
  BY <1>2 DEF TypeOK, AttemptRow, AuthRow, ConsumptionRow
<1>4. /\ expires \in Nat
      /\ expires <= at + AuthTTL
      /\ expires <= attempt[d].expires
      /\ expires <= nonce[d].expires
      /\ expires <= session'[Requester[d]].last + IdleTimeout
      /\ expires <= SessionExpires[Requester[d]]
      /\ expires <= ActiveUntil(Approver[d])
      /\ expires <= SessionExpires[Approver[d]]
  BY <1>1, <1>2, EffectiveExpiryBounds
<1>5. /\ \A e \in Decisions \ {d} : auth'[e] = auth[e]
      /\ auth'[d] = [state |-> "active", issued |-> at, at |-> at, key |-> k,
                     expires |-> expires]
  BY <1>3 DEF IssueAuthorization
<1>6. SessionsAdvance
  BY <1>1, <1>2, TouchedMonotone DEF TypeOK, SessionTable, SessionsAdvance
<1>7. /\ DecidedAt[d] <= attempt[d].requested /\ attempt[d].requested <= at
      /\ attempt[d].expires = ApprovalExpiry[d]
  BY <1>2 DEF Verified, ValidAttempt, SourceWindow
<1>8. consumption[d].state = "absent"
  BY <1>2, <1>3 DEF Verified, ValidConsumption
<1> HIDE DEF expires
<1>9. AuthorizedWithinApproval'
  <2>1. AuthorizedWithinApproval
    BY DEF ChainInvariant
  <2>2. DecidedAt[d] <= at /\ expires <= ApprovalExpiry[d]
    BY <1>1, <1>3, <1>4, <1>7, LeqTrans
  <2>3. /\ auth'[d].issued = at /\ auth'[d].expires = expires
    BY SMT, <1>5
  <2> SUFFICES ASSUME NEW e \in Decisions, auth'[e].state # "absent"
               PROVE  /\ DecidedAt[e] <= auth'[e].issued
                      /\ auth'[e].expires <= ApprovalExpiry[e]
                      /\ auth'[e].expires <= auth'[e].issued + AuthTTL
                      /\ auth'[e].expires <= SessionExpires[Requester[e]]
                      /\ auth'[e].expires <= SessionExpires[Approver[e]]
                      /\ IdentityOf[Requester[e]] # IdentityOf[Approver[e]]
    BY DEF AuthorizedWithinApproval
  <2>4. CASE e = d
    BY <1>2, <1>4, <2>2, <2>3, <2>4
  <2>5. CASE e # d
    <3>1. auth'[e] = auth[e]
      BY <1>5, <2>5
    <3>2. QED
      BY <2>1, <3>1 DEF AuthorizedWithinApproval
  <2>6. QED
    BY <2>4, <2>5
<1>10. ConsumedWithinApproval'
  BY <1>2, <1>5, <1>8 DEF ChainInvariant, ConsumedWithinApproval
<1>11. KeysNameOneRow'
  <2>1. KeysNameOneRow
    BY DEF ChainInvariant
  <2>2. auth'[d].key = k
    BY SMT, <1>5
  <2>3. ASSUME NEW e \in Decisions, NEW f \in Decisions, e # f,
               auth'[e].state # "absent", auth'[f].state # "absent"
        PROVE  auth'[e].key # auth'[f].key
    <3>1. CASE e = d
      BY <1>2, <1>5, <2>2, <2>3, <3>1
    <3>2. CASE f = d
      BY <1>2, <1>5, <2>2, <2>3, <3>2
    <3>3. CASE e # d /\ f # d
      <4>1. auth'[e] = auth[e] /\ auth'[f] = auth[f]
        BY <1>5, <3>3
      <4>2. QED
        BY <2>1, <2>3, <4>1 DEF KeysNameOneRow
    <3>4. QED
      BY <3>1, <3>2, <3>3
  <2>4. QED
    BY <1>2, <2>1, <2>3 DEF KeysNameOneRow
<1>12. ASSUME NEW s \in Sessions, NEW x \in Nat, x <= ActiveUntil(s)
       PROVE  x <= ActiveUntil(s)'
  BY <1>1, <1>3, <1>6, <1>12, LesserAdvances DEF SessionsAdvance, ActiveUntil
<1>13. ExpiryBoundedBySources'
  <2>1. ASSUME NEW e \in Decisions \ {d}, auth[e].state # "absent"
        PROVE  /\ auth[e].expires <= nonce[e].expires
               /\ auth[e].expires <= ActiveUntil(Requester[e])'
               /\ auth[e].expires <= ActiveUntil(Approver[e])'
    <3>1. Requester[e] \in Sessions /\ Approver[e] \in Sessions
      BY ConstantsAssumption
    <3>2. QED
      BY <1>3, <1>12, <2>1, <3>1 DEF ChainInvariant, ExpiryBoundedBySources
  <2>2. expires <= ActiveUntil(Requester[d])'
    BY <1>1, <1>3, <1>4, SumNat, LesserBound DEF ActiveUntil
  <2>3. expires <= ActiveUntil(Approver[d])'
    BY <1>1, <1>4, <1>12
  <2> SUFFICES ASSUME NEW e \in Decisions, auth'[e].state # "absent"
               PROVE  /\ auth'[e].expires <= nonce[e].expires
                      /\ auth'[e].expires <= ActiveUntil(Requester[e])'
                      /\ auth'[e].expires <= ActiveUntil(Approver[e])'
    BY <1>2 DEF ExpiryBoundedBySources
  <2>4. CASE e = d
    <3>1. auth'[d].expires = expires
      BY SMT, <1>5
    <3>2. QED
      BY <1>4, <2>2, <2>3, <2>4, <3>1
  <2>5. CASE e # d
    <3>1. auth'[e] = auth[e]
      BY <1>5, <2>5
    <3>2. QED
      BY <2>1, <2>5, <3>1
  <2>6. QED
    BY <2>4, <2>5
<1>14. QED
  BY <1>9, <1>10, <1>11, <1>13 DEF ChainInvariant

\* Redeeming inside the authorization's window stays inside everything the
\* authorization was bounded by.
LEMMA RedeemKeepsChainInvariant ==
    ASSUME ChainInvariant, NEW d \in Decisions, NEW k \in Keys, NEW at \in Time,
           NEW authenticated \in BOOLEAN,
           Redeem(d, k, at, authenticated), TypeOK'
    PROVE  ChainInvariant'
<1>1. /\ at \in Nat /\ DecidedAt[d] \in Nat /\ ApprovalExpiry[d] \in Nat
      /\ AuthTTL \in Nat /\ IdleTimeout \in Nat
      /\ Requester[d] \in Sessions /\ Approver[d] \in Sessions
      /\ \A s \in Sessions : SessionExpires[s] \in Nat
  BY ConstantsAssumption
<1>2. /\ TypeOK /\ RedemptionWindow(d, at)
      /\ RedemptionActor(d, at, authenticated)
      /\ \A e \in Decisions :
            consumption[e].state = "recorded" => consumption[e].key # k
      /\ UNCHANGED nonce
  BY DEF Redeem, ChainInvariant
<1>3. /\ auth \in [Decisions -> AuthRow]
      /\ consumption \in [Decisions -> ConsumptionRow]
      /\ session \in SessionTable
      /\ auth[d].issued \in Nat /\ auth[d].expires \in Nat
  BY <1>2 DEF TypeOK, AuthRow, SessionTable
<1>4. /\ \A e \in Decisions \ {d} : auth'[e] = auth[e]
      /\ auth'[d].issued = auth[d].issued /\ auth'[d].expires = auth[d].expires
      /\ auth'[d].key = auth[d].key /\ auth'[d].state = "consumed"
  BY <1>3 DEF Redeem, AuthRow
<1>5. /\ \A e \in Decisions \ {d} : consumption'[e] = consumption[e]
      /\ consumption'[d] = [state |-> "recorded", key |-> k, at |-> at]
  BY <1>3 DEF Redeem
<1>6. SessionsAdvance
  <2>1. CASE authenticated
    BY <1>1, <1>2, <1>3, <2>1, TouchedMonotone
    DEF RedemptionActor, Authenticates, SessionsAdvance
  <2>2. CASE ~authenticated
    <3>1. session' = session
      BY <1>2, <2>2 DEF RedemptionActor
    <3>2. \A t \in Sessions : session[t].last \in Nat
      BY <1>3 DEF SessionTable
    <3>3. QED
      BY <3>1, <3>2, LeqRefl DEF SessionsAdvance
  <2>3. QED
    BY <2>1, <2>2
<1>7. /\ auth[d].state = "active" /\ auth[d].issued <= at /\ at < auth[d].expires
  BY <1>2 DEF RedemptionWindow
<1>8. AuthorizedWithinApproval'
  BY <1>4, <1>7 DEF ChainInvariant, AuthorizedWithinApproval
<1>9. ConsumedWithinApproval'
  <2>1. /\ DecidedAt[d] <= auth[d].issued
        /\ auth[d].expires <= ApprovalExpiry[d]
        /\ auth[d].expires <= auth[d].issued + AuthTTL
        /\ auth[d].expires <= SessionExpires[Requester[d]]
        /\ auth[d].expires <= SessionExpires[Approver[d]]
        /\ IdentityOf[Requester[d]] # IdentityOf[Approver[d]]
    BY <1>7 DEF ChainInvariant, AuthorizedWithinApproval
  <2>2. /\ DecidedAt[d] <= at /\ at < ApprovalExpiry[d]
        /\ at < auth[d].issued + AuthTTL
        /\ at < SessionExpires[Requester[d]] /\ at < SessionExpires[Approver[d]]
    <3>1. /\ auth[d].issued + AuthTTL \in Nat
          /\ SessionExpires[Requester[d]] \in Nat /\ SessionExpires[Approver[d]] \in Nat
      BY <1>1, <1>3, SumNat
    <3>2. DecidedAt[d] <= at
      BY <1>1, <1>3, <1>7, <2>1, LeqTrans
    <3>3. /\ at < ApprovalExpiry[d] /\ at < auth[d].issued + AuthTTL
      BY <1>1, <1>3, <1>7, <2>1, <3>1, LessLeq
    <3>4. /\ at < SessionExpires[Requester[d]] /\ at < SessionExpires[Approver[d]]
      BY <1>1, <1>3, <1>7, <2>1, <3>1, LessLeq
    <3>5. QED
      BY <3>2, <3>3, <3>4
  <2> SUFFICES ASSUME NEW e \in Decisions, consumption'[e].state = "recorded"
               PROVE  /\ DecidedAt[e] <= consumption'[e].at
                      /\ consumption'[e].at < ApprovalExpiry[e]
                      /\ consumption'[e].at < auth'[e].issued + AuthTTL
                      /\ consumption'[e].at < SessionExpires[Requester[e]]
                      /\ consumption'[e].at < SessionExpires[Approver[e]]
                      /\ IdentityOf[Requester[e]] # IdentityOf[Approver[e]]
    BY DEF ConsumedWithinApproval
  <2>3. CASE e = d
    <3>1. consumption'[d].at = at
      BY SMT, <1>5
    <3>2. QED
      BY <1>4, <2>1, <2>2, <2>3, <3>1
  <2>4. CASE e # d
    <3>1. auth'[e] = auth[e] /\ consumption'[e] = consumption[e]
      BY <1>4, <1>5, <2>4
    <3>2. QED
      BY <3>1 DEF ChainInvariant, ConsumedWithinApproval
  <2>5. QED
    BY <2>3, <2>4
<1>10. KeysNameOneRow'
  <2>1. KeysNameOneRow
    BY DEF ChainInvariant
  <2>2. consumption'[d].key = k
    BY SMT, <1>5
  <2>3. ASSUME NEW e \in Decisions, NEW f \in Decisions, e # f,
               consumption'[e].state = "recorded", consumption'[f].state = "recorded"
        PROVE  consumption'[e].key # consumption'[f].key
    <3>1. CASE e = d
      BY <1>2, <1>5, <2>2, <2>3, <3>1
    <3>2. CASE f = d
      BY <1>2, <1>5, <2>2, <2>3, <3>2
    <3>3. CASE e # d /\ f # d
      <4>1. consumption'[e] = consumption[e] /\ consumption'[f] = consumption[f]
        BY <1>5, <3>3
      <4>2. QED
        BY <2>1, <2>3, <4>1 DEF KeysNameOneRow
    <3>4. QED
      BY <3>1, <3>2, <3>3
  <2>4. ASSUME NEW e \in Decisions
        PROVE  /\ auth'[e].key = auth[e].key
               /\ auth'[e].state # "absent" => auth[e].state # "absent"
    BY <1>4, <1>7
  <2>5. ASSUME NEW e \in Decisions, NEW f \in Decisions, e # f,
               auth'[e].state # "absent", auth'[f].state # "absent"
        PROVE  auth'[e].key # auth'[f].key
    BY <2>1, <2>4, <2>5 DEF KeysNameOneRow
  <2>6. QED
    BY <2>3, <2>5 DEF KeysNameOneRow
<1>11. ExpiryBoundedBySources'
  <2> SUFFICES ASSUME NEW e \in Decisions, auth[e].state # "absent"
               PROVE  /\ auth[e].expires <= nonce[e].expires
                      /\ auth[e].expires <= ActiveUntil(Requester[e])'
                      /\ auth[e].expires <= ActiveUntil(Approver[e])'
    BY <1>2, <1>4, <1>7 DEF ExpiryBoundedBySources
  <2>1. /\ Requester[e] \in Sessions /\ Approver[e] \in Sessions
        /\ auth[e].expires \in Nat
    BY <1>3, ConstantsAssumption DEF AuthRow
  <2>2. \A s \in Sessions : session[s].last \in Nat /\ session'[s].last \in Nat
    BY <1>3 DEF TypeOK, SessionTable
  <2>3. ASSUME NEW s \in Sessions, auth[e].expires <= ActiveUntil(s)
        PROVE  auth[e].expires <= ActiveUntil(s)'
    BY <1>1, <1>6, <2>1, <2>2, <2>3, LesserAdvances DEF SessionsAdvance, ActiveUntil
  <2>4. QED
    BY <2>1, <2>3 DEF ChainInvariant, ExpiryBoundedBySources
<1>12. QED
  BY <1>8, <1>9, <1>10, <1>11 DEF ChainInvariant

LEMMA NextChainInvariant == ChainInvariant /\ [Next]_vars => ChainInvariant'
<1> SUFFICES ASSUME ChainInvariant, [Next]_vars PROVE ChainInvariant'
  OBVIOUS
<1>1. TypeOK /\ TypeOK'
  BY NextTypeOK DEF ChainInvariant
<1>2. \A t \in Sessions : session[t].last <= session[t].last
  BY SMT, <1>1 DEF TypeOK
<1>3. CASE UNCHANGED vars
  BY <1>1, <1>2, <1>3, KeepsChainInvariant DEF SessionsAdvance, vars
<1>4. ASSUME NEW d \in Decisions, NEW k \in Keys, NEW s \in Sessions,
             NEW at \in Time, NEW authenticated \in BOOLEAN
      PROVE  /\ PrepareAttempt(d, at) => ChainInvariant'
             /\ IssueNonce(d, at) => ChainInvariant'
             /\ ReadNonce(d, at) \/ CancelNonce(d, at) => ChainInvariant'
             /\ \/ ReadAuthorization(d, at)
                \/ ReplayAuthorization(d, k, at)
                \/ ReadAuthorizationAs(d, s, at)
                \/ CancelAuthorization(d, s, at)
                \/ RevokeAuthorization(d, s, at)
                => ChainInvariant'
             /\ IssueAuthorization(d, k, at) => ChainInvariant'
             /\ Redeem(d, k, at, authenticated) => ChainInvariant'
             /\ ReplayRedemption(d, k, at, authenticated) => ChainInvariant'
  <2>1. CASE PrepareAttempt(d, at)
    BY <1>1, <1>2, <2>1, KeepsChainInvariant
    DEF PrepareAttempt, SessionsAdvance
  <2>2. CASE IssueNonce(d, at)
    <3>1. auth[d].state = "absent" /\ \A e \in Decisions \ {d} : nonce'[e] = nonce[e]
      BY <1>1, <2>2 DEF IssueNonce, Verified, ValidAuthorization, TypeOK
    <3>2. QED
      BY <1>1, <1>2, <2>2, <3>1, KeepsChainInvariant
      DEF IssueNonce, SessionsAdvance
  <2>3. CASE ReadNonce(d, at) \/ CancelNonce(d, at)
    <3>1. NonceMoves(d, at)
      BY <1>1, <2>3, NonceOperationsMove
    <3>2. /\ \A e \in Decisions : nonce'[e].expires = nonce[e].expires
          /\ UNCHANGED <<session, auth, consumption>>
      BY <3>1 DEF NonceMoves, SameElsewhere
    <3>3. QED
      BY <1>1, <1>2, <3>2, KeepsChainInvariant DEF SessionsAdvance
  <2>4. CASE \/ ReadAuthorization(d, at)
             \/ ReplayAuthorization(d, k, at)
             \/ ReadAuthorizationAs(d, s, at)
             \/ CancelAuthorization(d, s, at)
             \/ RevokeAuthorization(d, s, at)
    <3>1. AuthMoves(d, at)
      BY <1>1, <2>4, AuthorizationOperationsMove
    <3>2. /\ SessionsAdvance /\ UNCHANGED <<nonce, consumption>>
          /\ \A e \in Decisions :
                /\ auth'[e].issued = auth[e].issued
                /\ auth'[e].expires = auth[e].expires
                /\ auth'[e].key = auth[e].key
                /\ (auth'[e].state = "absent") <=> (auth[e].state = "absent")
      BY <3>1 DEF AuthMoves, SameElsewhere
    <3>3. QED
      BY <1>1, <3>2, KeepsChainInvariant
  <2>5. CASE IssueAuthorization(d, k, at)
    BY <1>1, <2>5, IssueKeepsChainInvariant
  <2>6. CASE Redeem(d, k, at, authenticated)
    BY <1>1, <2>6, RedeemKeepsChainInvariant
  <2>7. CASE ReplayRedemption(d, k, at, authenticated)
    <3>1. Requester[d] \in Sessions /\ at \in Nat /\ session \in SessionTable
      BY <1>1, ConstantsAssumption DEF TypeOK, SessionTable
    <3>2. SessionsAdvance
      <4>1. RedemptionActor(d, at, authenticated)
        BY <2>7 DEF ReplayRedemption
      <4>2. CASE authenticated
        BY <3>1, <4>1, <4>2, TouchedMonotone
        DEF RedemptionActor, Authenticates, SessionsAdvance
      <4>3. CASE ~authenticated
        BY <1>2, <4>1, <4>3 DEF RedemptionActor, SessionsAdvance
      <4>4. QED
        BY <4>2, <4>3
    <3>3. QED
      BY <1>1, <2>7, <3>2, KeepsChainInvariant DEF ReplayRedemption
  <2>8. QED
    BY <2>1, <2>2, <2>3, <2>4, <2>5, <2>6, <2>7
<1>5. ASSUME NEW s \in Sessions, NEW at \in Time,
             TouchSession(s, at) \/ RevokeSession(s, at) \/ RevokeAllSessions(s, at)
      PROVE  ChainInvariant'
  BY <1>1, <1>5, SessionStepType, KeepsChainInvariant DEF SessionsAdvance
<1>6. CASE Next
  BY SMT, <1>4, <1>5, <1>6, NextSplits
<1>7. QED
  BY <1>3, <1>6

\* A consumption, once recorded, lies inside its approval, its authorization's
\* 60 s cap and both sessions' absolute windows, with two identities behind it;
\* and the invariant this rests on holds under every operation of the store.
THEOREM ChainInvariantHolds == Spec => []ChainInvariant
<1>1. Init => ChainInvariant
  BY InitTypeOK, InitAbsent
  DEF ChainInvariant, AuthorizedWithinApproval, ConsumedWithinApproval,
      ExpiryBoundedBySources, KeysNameOneRow
<1>2. ChainInvariant /\ [Next]_vars => ChainInvariant'
  BY NextChainInvariant
<1>3. QED
  BY <1>1, <1>2, PTL DEF Spec

\* No redemption outside the approval, whatever the clock does
\* (validate_redemption_window_and_state).
THEOREM ConsumptionIsAuthorized == Spec => []ConsumedWithinApproval
<1>1. ChainInvariant => ConsumedWithinApproval
  BY DEF ChainInvariant
<1>2. QED
  BY <1>1, ChainInvariantHolds, PTL

\* No authorization outlives its nonce or either session's idle or absolute
\* expiry (effective_authorization_expiry).
THEOREM ExpiryIsBounded == Spec => []ExpiryBoundedBySources
<1>1. ChainInvariant => ExpiryBoundedBySources
  BY DEF ChainInvariant
<1>2. QED
  BY <1>1, ChainInvariantHolds, PTL

\* No idempotency key ever names two operations or two redemptions.
THEOREM KeysAreUnambiguous == Spec => []KeysNameOneRow
<1>1. ChainInvariant => KeysNameOneRow
  BY DEF ChainInvariant
<1>2. QED
  BY <1>1, ChainInvariantHolds, PTL

--------------------------------------------------------------------------------
Stages == {"idle", "admitted", "claimed", "ready", "running", "observed"}

\* A worker works on a decision, beyond its claim on a claimed one.
WorkersInv ==
    /\ worker \in [Workers -> [pc : Stages, op : Decisions \cup {D!NoOp}]]
    /\ \A w \in Workers :
          /\ worker[w].pc # "idle" => worker[w].op \in Decisions
          /\ worker[w].pc \notin {"idle", "admitted"} => worker[w].op \in consumed

\* What the store, the processes and the target show of an operation before
\* its claim.
Untouched(d) ==
    /\ opLog[d] = <<"prepared">>
    /\ attLog[d] = <<>>
    /\ proc[d] = "none"
    /\ launches[d] = 0
    /\ d \notin landed

TracesInv ==
    /\ DOMAIN opLog = Decisions /\ DOMAIN attLog = Decisions
    /\ DOMAIN proc = Decisions /\ DOMAIN launches = Decisions
    /\ landed \subseteq Decisions
    /\ \A d \in Decisions \ consumed : Untouched(d)

\* The inductive invariant beside the invariants of the chain.
RuntimeInv == WorkersInv /\ TracesInv /\ RedemptionIsClaim

\* What a step of dispatch leaves alone of an operation.
Same(d) ==
    /\ opLog'[d] = opLog[d] /\ attLog'[d] = attLog[d]
    /\ proc'[d] = proc[d] /\ launches'[d] = launches[d]
    /\ d \in landed' => d \in landed

\* What a step of dispatch may do: it leaves its marks on claimed operations only.
Marks ==
    /\ consumed \subseteq consumed'
    /\ DOMAIN opLog' = Decisions /\ DOMAIN attLog' = Decisions
    /\ DOMAIN proc' = Decisions /\ DOMAIN launches' = Decisions
    /\ landed' \subseteq Decisions
    /\ \A d \in Decisions \ consumed' : Same(d)

\* A step that marks claimed operations only leaves no trace of the others.
LEMMA MarksKeepTraces ==
    ASSUME TracesInv, Marks PROVE TracesInv'
    BY DEF TracesInv, Marks, Same, Untouched

\* The steps of a worker, one by one.
LEMMA ReturnKeeps ==
    ASSUME WorkersInv, NEW w \in Workers, D!Return(w), consumed \subseteq consumed'
    PROVE  WorkersInv'
    BY DEF WorkersInv, D!Return, D!Idle, Stages

\* A worker that goes on keeps its operation.
LEMMA ProceedKeeps ==
    ASSUME WorkersInv, NEW w \in Workers, NEW pc \in Stages, D!Proceed(w, pc),
           worker[w].pc # "idle", worker[w].op \in consumed', consumed \subseteq consumed'
    PROVE  WorkersInv'
<1>1. PICK k : k = worker[w]
    OBVIOUS
<1>2. worker' = [worker EXCEPT ![w] = [k EXCEPT !.pc = pc]]
    BY <1>1 DEF D!Proceed
<1>3. k \in [pc : Stages, op : Decisions \cup {D!NoOp}] /\ k.op \in Decisions /\ k.op \in consumed'
    BY <1>1 DEF WorkersInv
<1>4. PICK l : l = [k EXCEPT !.pc = pc]
    OBVIOUS
<1>5. l \in [pc : Stages, op : Decisions \cup {D!NoOp}] /\ l.op = k.op
    BY <1>3, <1>4
<1>. QED
    BY <1>2, <1>3, <1>4, <1>5 DEF WorkersInv

\* A step that leaves the workers alone.
LEMMA SameWorkers ==
    ASSUME WorkersInv, worker' = worker, consumed \subseteq consumed'
    PROVE  WorkersInv'
    BY DEF WorkersInv

\* The store's writes of dispatch touch the operations they are given.
LEMMA AppendMarks ==
    ASSUME NEW os, NEW state, D!Append2(os, state)
    PROVE  /\ DOMAIN opLog' = Decisions /\ DOMAIN attLog' = Decisions
           /\ \A d \in Decisions \ os : opLog'[d] = opLog[d] /\ attLog'[d] = attLog[d]
    BY DEF D!Append2

\* Recording outcome_unknown touches its operation only.
LEMMA UnknownMarks ==
    ASSUME TracesInv, NEW o, D!MarkOutcomeUnknown(o)
    PROVE  /\ DOMAIN opLog' = Decisions /\ DOMAIN attLog' = Decisions
           /\ \A d \in Decisions \ {o} : opLog'[d] = opLog[d] /\ attLog'[d] = attLog[d]
           /\ consumed' = consumed
    BY AppendMarks DEF TracesInv, D!MarkOutcomeUnknown

\* Recording a receipt touches its operation only.
LEMMA CompleteMarks ==
    ASSUME NEW o, NEW how, D!Complete(o, how)
    PROVE  /\ DOMAIN opLog' = Decisions /\ DOMAIN attLog' = Decisions
           /\ \A d \in Decisions \ {o} : opLog'[d] = opLog[d] /\ attLog'[d] = attLog[d]
           /\ consumed' = consumed
    BY AppendMarks DEF D!Complete

\* The claim marks the operation that it adds to the claimed ones.
LEMMA ClaimKeeps ==
    ASSUME WorkersInv, TracesInv, NEW w \in Workers, D!Claim(w) \/ D!ClaimUncertain(w)
    PROVE  WorkersInv' /\ Marks /\ consumed' = consumed \cup {worker[w].op}
<1>. DEFINE o == worker[w].op
<1>1. /\ worker[w].pc = "admitted" /\ o \in Decisions
      /\ consumed' = consumed \cup {o} /\ UNCHANGED <<proc, launches, landed>>
    BY DEF D!Claim, D!ClaimUncertain, D!Consume, D!target, WorkersInv
<1>2. CASE D!Claim(w)
  <2>1. WorkersInv'
    BY <1>1, <1>2, ProceedKeeps DEF D!Claim, Stages
  <2>2. Marks
    BY <1>1, <1>2, AppendMarks DEF D!Claim, Marks, Same, TracesInv
  <2>. QED
    BY <1>1, <2>1, <2>2
<1>3. CASE D!ClaimUncertain(w)
  <2>1. WorkersInv'
    BY <1>1, <1>3, ReturnKeeps DEF D!ClaimUncertain
  <2>2. /\ DOMAIN opLog' = Decisions /\ DOMAIN attLog' = Decisions
        /\ \A d \in Decisions \ {o} : opLog'[d] = opLog[d] /\ attLog'[d] = attLog[d]
    BY <1>3 DEF D!ClaimUncertain, TracesInv
  <2>3. Marks
    BY <1>1, <2>2 DEF Marks, Same, TracesInv
  <2>. QED
    BY <1>1, <2>1, <2>3
<1>. QED
    BY <1>2, <1>3

\* Every other step of a worker claims nothing.
LEMMA WorkerKeeps ==
    ASSUME WorkersInv, TracesInv, NEW w \in Workers,
           \/ D!Refuse(w) \/ D!VerifyClaim(w) \/ D!Launch(w) \/ D!Observe(w)
           \/ D!Persist(w) \/ D!Abandon(w)
           \/ \E o \in Decisions : D!Admit(w, o)
    PROVE  WorkersInv' /\ Marks /\ consumed' = consumed
<1>. DEFINE o == worker[w].op
<1>. USE DEF D!store, D!target
<1>1. CASE D!Refuse(w)
    BY <1>1, ReturnKeeps DEF D!Refuse, Marks, Same, TracesInv
<1>2. CASE D!VerifyClaim(w)
  <2>1. WorkersInv'
    BY <1>2, ProceedKeeps DEF D!VerifyClaim, WorkersInv, Stages
  <2>. QED
    BY <1>2, <2>1 DEF D!VerifyClaim, Marks, Same, TracesInv
<1>3. CASE D!Launch(w)
  <2>1. WorkersInv' /\ o \in consumed
    BY <1>3, ProceedKeeps DEF D!Launch, WorkersInv, Stages
  <2>. QED
    BY <1>3, <2>1 DEF D!Launch, Marks, Same, TracesInv
<1>4. CASE D!Observe(w)
  <2>1. WorkersInv'
    BY <1>4, ProceedKeeps DEF D!Observe, WorkersInv, Stages
  <2>. QED
    BY <1>4, <2>1 DEF D!Observe, Marks, Same, TracesInv
<1>5. CASE D!Persist(w)
  <2>1. o \in consumed
    BY <1>5 DEF D!Persist, WorkersInv
  <2>2. /\ DOMAIN opLog' = Decisions /\ DOMAIN attLog' = Decisions
        /\ \A d \in Decisions \ {o} : opLog'[d] = opLog[d] /\ attLog'[d] = attLog[d]
        /\ consumed' = consumed
    BY <1>5, CompleteMarks DEF D!Persist, TracesInv
  <2>3. WorkersInv'
    BY <1>5, <2>2, ReturnKeeps DEF D!Persist
  <2>. QED
    BY <1>5, <2>1, <2>2, <2>3 DEF D!Persist, Marks, Same, TracesInv
<1>6. CASE D!Abandon(w)
  <2>1. o \in consumed
    BY <1>6 DEF D!Abandon, WorkersInv
  <2>2. /\ DOMAIN opLog' = Decisions /\ DOMAIN attLog' = Decisions
        /\ \A d \in Decisions \ {o} : opLog'[d] = opLog[d] /\ attLog'[d] = attLog[d]
        /\ consumed' = consumed
    BY <1>6, UnknownMarks DEF D!Abandon
  <2>3. WorkersInv'
    BY <1>6, <2>2, ReturnKeeps DEF D!Abandon
  <2>. QED
    BY <1>6, <2>1, <2>2, <2>3 DEF D!Abandon, Marks, Same, TracesInv
<1>7. ASSUME NEW p \in Decisions, D!Admit(w, p)
      PROVE  WorkersInv' /\ Marks /\ consumed' = consumed
  <2>1. WorkersInv'
    BY <1>7 DEF D!Admit, WorkersInv, Stages
  <2>. QED
    BY <1>7, <2>1 DEF D!Admit, Marks, Same, TracesInv
<1>. QED
    BY <1>1, <1>2, <1>3, <1>4, <1>5, <1>6, <1>7

\* So do the reconcile route, the processes, the target and the daemon's life.
LEMMA OtherKeeps ==
    ASSUME WorkersInv, TracesInv,
           \/ \E o \in Decisions : \/ D!Reconcile(o) \/ D!ReconcileFails(o)
                                   \/ D!Land(o) \/ D!ProcessDies(o)
           \/ D!MoveTarget \/ D!Crash \/ D!Restart
    PROVE  WorkersInv' /\ Marks /\ consumed' = consumed
<1>. USE DEF D!store, D!target, D!daemon
<1>1. ASSUME NEW o \in Decisions, D!Reconcile(o) \/ D!ReconcileFails(o)
      PROVE  WorkersInv' /\ Marks /\ consumed' = consumed
  <2>1. /\ DOMAIN opLog' = Decisions /\ DOMAIN attLog' = Decisions
        /\ \A d \in Decisions \ {o} : opLog'[d] = opLog[d] /\ attLog'[d] = attLog[d]
        /\ consumed' = consumed
    BY <1>1, CompleteMarks, UnknownMarks DEF D!Reconcile, D!ReconcileFails
  <2>2. o \in consumed /\ UNCHANGED <<worker, proc, launches, landed>>
    BY <1>1 DEF D!Reconcile, D!ReconcileFails
  <2>. QED
    BY <2>1, <2>2, SameWorkers DEF Marks, Same, TracesInv
<1>2. ASSUME NEW o \in Decisions, D!Land(o) \/ D!ProcessDies(o)
      PROVE  WorkersInv' /\ Marks /\ consumed' = consumed
  <2>1. o \in consumed
    BY <1>2 DEF D!Land, D!ProcessDies, TracesInv, Untouched
  <2>2. UNCHANGED <<opLog, attLog, consumed, launches, worker>>
    BY <1>2 DEF D!Land, D!ProcessDies
  <2>3. /\ proc' = [proc EXCEPT ![o] = "ended"]
        /\ landed' \subseteq landed \cup {o}
    BY <1>2 DEF D!Land, D!ProcessDies
  <2>. QED
    BY <2>1, <2>2, <2>3, SameWorkers DEF Marks, Same, TracesInv
<1>3. CASE D!MoveTarget
    BY <1>3, SameWorkers DEF D!MoveTarget, Marks, Same, TracesInv
<1>4. CASE D!Crash
  <2>1. WorkersInv'
    BY <1>4 DEF D!Crash, D!Idle, WorkersInv, Stages
  <2>. QED
    BY <1>4, <2>1 DEF D!Crash, Marks, Same, TracesInv
<1>5. CASE D!Restart
  <2>. DEFINE os == {o \in Decisions : attLog[o] # <<>> /\ D!Last(attLog[o]) = "dispatching"}
  <2>1. os \subseteq consumed
    BY DEF TracesInv, Untouched
  <2>2. D!Append2(os, "outcome_unknown")
    BY <1>5 DEF D!Restart
  <2>. HIDE DEF os
  <2>3. /\ DOMAIN opLog' = Decisions /\ DOMAIN attLog' = Decisions
        /\ \A d \in Decisions \ os : opLog'[d] = opLog[d] /\ attLog'[d] = attLog[d]
    BY <2>2, AppendMarks
  <2>4. UNCHANGED <<consumed, proc, launches, landed, worker>>
    BY <1>5 DEF D!Restart
  <2>. QED
    BY <2>1, <2>3, <2>4, SameWorkers DEF Marks, Same, TracesInv
<1>. QED
    BY <1>1, <1>2, <1>3, <1>4, <1>5

--------------------------------------------------------------------------------
\* What a step of the daemon is to dispatch and to the chain: nothing, a route of the
\* chain, a replay or the second authentication of a requester, or the redemption that
\* claims the operation.
Routed ==
    \/ consumed' = consumed /\ (ChainNext \/ UNCHANGED chain)
    \/ \E d \in Decisions, k \in Keys, at \in Time :
          /\ consumed' = consumed
          /\ ReplayRedemption(d, k, at, TRUE) \/ TouchSession(Requester[d], at)
    \/ \E d \in Decisions, k \in Keys, at \in Time :
          /\ consumed' = consumed \cup {d}
          /\ Redeem(d, k, at, TRUE)

\* Every step of the daemon.
LEMMA StepIsRouted ==
    ASSUME WorkersInv, TracesInv, [RuntimeNext]_runtimeVars
    PROVE  WorkersInv' /\ Marks /\ Routed
<1>1. CASE ChainRoute \/ UNCHANGED runtimeVars
  <2>1. UNCHANGED dispatch /\ (ChainNext \/ UNCHANGED chain)
    BY <1>1 DEF ChainRoute, runtimeVars
  <2>. QED
    BY <2>1, SameWorkers DEF dispatch, Marks, Same, TracesInv, Routed
<1>2. ASSUME NEW w \in Workers, Execute(w) PROVE WorkersInv' /\ Marks /\ Routed
  <2>1. worker[w].op \in Decisions
    BY <1>2 DEF Execute, D!Claim, D!ClaimUncertain, WorkersInv
  <2>2. WorkersInv' /\ Marks /\ consumed' = consumed \cup {worker[w].op}
    BY <1>2, ClaimKeeps DEF Execute
  <2>3. PICK k \in Keys, at \in Time : Redeem(worker[w].op, k, at, TRUE)
    BY <1>2 DEF Execute
  <2>. QED
    BY <2>1, <2>2, <2>3 DEF Routed
<1>3. ASSUME NEW w \in Workers, Decline(w) PROVE WorkersInv' /\ Marks /\ Routed
  <2>1. worker[w].op \in Decisions
    BY <1>3 DEF Decline, D!Refuse, WorkersInv
  <2>2. WorkersInv' /\ Marks /\ consumed' = consumed
    BY <1>3, WorkerKeeps DEF Decline
  <2>3. \/ UNCHANGED chain
        \/ \E k \in Keys, at \in Time : ReplayRedemption(worker[w].op, k, at, TRUE)
    BY <1>3 DEF Decline
  <2>. QED
    BY <2>1, <2>2, <2>3 DEF Routed
<1>4. ASSUME NEW w \in Workers, PreSupervisorCheck(w) PROVE WorkersInv' /\ Marks /\ Routed
  <2>1. worker[w].op \in Decisions
    BY <1>4 DEF PreSupervisorCheck, D!VerifyClaim, WorkersInv
  <2>2. WorkersInv' /\ Marks /\ consumed' = consumed
    BY <1>4, WorkerKeeps DEF PreSupervisorCheck
  <2>3. PICK at \in Time : TouchSession(Requester[worker[w].op], at)
    BY <1>4 DEF PreSupervisorCheck, RedemptionActor, TouchSession
  <2>4. PICK k \in Keys : TRUE
    BY ConstantsAssumption
  <2>. QED
    BY <2>1, <2>2, <2>3, <2>4 DEF Routed
<1>5. CASE DispatchRoute
  <2>1. WorkersInv' /\ Marks /\ consumed' = consumed
    BY <1>5, WorkerKeeps, OtherKeeps DEF DispatchRoute
  <2>. QED
    BY <1>5, <2>1 DEF DispatchRoute, Routed
<1>. QED
    BY <1>1, <1>2, <1>3, <1>4, <1>5 DEF RuntimeNext

\* To the chain it is a step that the daemon's routes can make of it.
LEMMA RoutedIsServed ==
    ASSUME Routed
    PROVE  [ServedNext]_vars
<1>1. CASE ChainNext \/ UNCHANGED chain
    BY <1>1 DEF ServedNext, chain
<1>2. ASSUME NEW d \in Decisions, NEW k \in Keys, NEW at \in Time,
             ReplayRedemption(d, k, at, TRUE) \/ Redeem(d, k, at, TRUE)
      PROVE  ServedNext
    BY <1>2 DEF ServedNext, RedemptionNext
<1>3. ASSUME NEW d \in Decisions, NEW at \in Time, TouchSession(Requester[d], at)
      PROVE  ServedNext
  <2>1. Requester[d] \in Sessions
    BY ConstantsAssumption
  <2>. QED
    BY <1>3, <2>1 DEF ServedNext, ChainNext, SessionNext
<1>. QED
    BY <1>1, <1>2, <1>3 DEF Routed

\* No route of the chain records a consumption; only a redemption does.
LEMMA ChainConsumesNothing ==
    ASSUME ChainNext
    PROVE  consumption' = consumption
<1>1. PICK at \in Time : DecisionNext(at) \/ SessionNext(at)
    BY DEF ChainNext
<1>2. CASE SessionNext(at)
    BY <1>2 DEF SessionNext, TouchSession, RevokeSession, RevokeAllSessions
<1>3. CASE DecisionNext(at)
  <2>1. ASSUME NEW d \in Decisions
        PROVE  /\ PrepareAttempt(d, at) => consumption' = consumption
               /\ IssueNonce(d, at) => consumption' = consumption
               /\ ReadNonce(d, at) => consumption' = consumption
               /\ ReadAuthorization(d, at) => consumption' = consumption
    BY DEF PrepareAttempt, IssueNonce, ReadNonce, ReadAuthorization
  <2>2. ASSUME NEW d \in Decisions, NEW k \in Keys
        PROVE  /\ IssueAuthorization(d, k, at) => consumption' = consumption
               /\ ReplayAuthorization(d, k, at) => consumption' = consumption
    BY DEF IssueAuthorization, ReplayAuthorization
  <2>3. ASSUME NEW d \in Decisions, NEW s \in Sessions
        PROVE  /\ ReadAuthorizationAs(d, s, at) => consumption' = consumption
               /\ CancelAuthorization(d, s, at) => consumption' = consumption
               /\ RevokeAuthorization(d, s, at) => consumption' = consumption
    BY DEF ReadAuthorizationAs, CancelAuthorization, RevokeAuthorization,
           TransitionAuthorization
  <2>4. QED
    BY <1>3, <2>1, <2>2, <2>3 DEF DecisionNext
<1>. QED
    BY <1>1, <1>2, <1>3

\* Redemption and claim stay together.
LEMMA RoutedKeepsClaims ==
    ASSUME TypeOK, RedemptionIsClaim, Routed
    PROVE  RedemptionIsClaim'
<1>1. CASE consumed' = consumed /\ (ChainNext \/ UNCHANGED chain)
    BY <1>1, ChainConsumesNothing DEF RedemptionIsClaim, chain, vars
<1>2. ASSUME NEW d \in Decisions, NEW k \in Keys, NEW at \in Time, consumed' = consumed,
             ReplayRedemption(d, k, at, TRUE) \/ TouchSession(Requester[d], at)
      PROVE  RedemptionIsClaim'
    BY <1>2 DEF RedemptionIsClaim, ReplayRedemption, TouchSession
<1>3. ASSUME NEW d \in Decisions, NEW k \in Keys, NEW at \in Time,
             consumed' = consumed \cup {d}, Redeem(d, k, at, TRUE)
      PROVE  RedemptionIsClaim'
  <2>1. /\ consumption'[d].state = "recorded"
        /\ \A e \in Decisions \ {d} : consumption'[e] = consumption[e]
    BY <1>3 DEF Redeem, TypeOK
  <2>. QED
    BY <1>3, <2>1 DEF RedemptionIsClaim
<1>. QED
    BY <1>1, <1>2, <1>3 DEF Routed

\* Whatever the routes, workers, processes, crashes and clock readings, the rows keep their
\* shape, workers act on claimed operations only, and an operation that was not claimed has
\* left no trace in the evidence, among the processes or on the target.
THEOREM RuntimeInvariant == RuntimeSpec => [](TypeOK /\ RuntimeInv)
<1>1. RuntimeInit => TypeOK /\ RuntimeInv
  <2>. SUFFICES ASSUME RuntimeInit PROVE TypeOK /\ RuntimeInv
    OBVIOUS
  <2>1. TypeOK
    BY InitTypeOK DEF RuntimeInit
  <2>2. WorkersInv /\ TracesInv
    BY DEF RuntimeInit, D!Init, D!Idle, WorkersInv, TracesInv, Untouched, Stages
  <2>3. RedemptionIsClaim
    BY InitAbsent DEF RuntimeInit, D!Init, RedemptionIsClaim
  <2>. QED
    BY <2>1, <2>2, <2>3 DEF RuntimeInv
<1>2. TypeOK /\ RuntimeInv /\ [RuntimeNext]_runtimeVars => TypeOK' /\ RuntimeInv'
  <2>. SUFFICES ASSUME TypeOK, RuntimeInv, [RuntimeNext]_runtimeVars PROVE TypeOK' /\ RuntimeInv'
    OBVIOUS
  <2>1. WorkersInv' /\ Marks /\ Routed
    BY StepIsRouted DEF RuntimeInv
  <2>2. TypeOK'
    BY <2>1, RoutedIsServed, NextTypeOK DEF Next
  <2>. QED
    BY <2>1, <2>2, MarksKeepTraces, RoutedKeepsClaims DEF RuntimeInv
<1>. QED
    BY <1>1, <1>2, PTL DEF RuntimeSpec

\* Serving dispatch and the authority chain over one store adds no behaviour to either: the
\* second authentication before the supervisor is a touch of the session, the replay of an
\* execute request a replay of the redemption, and everything else a step of one part.
THEOREM RuntimeImplementsParts == RuntimeSpec => ImplementsParts
<1>1. RuntimeInit => Init /\ D!Init
    BY DEF RuntimeInit
<1>2. RuntimeInv /\ [RuntimeNext]_runtimeVars => [ServedNext]_vars
    BY StepIsRouted, RoutedIsServed DEF RuntimeInv
<1>3. [RuntimeNext]_runtimeVars => [D!Next]_D!vars
  <2>. SUFFICES ASSUME [RuntimeNext]_runtimeVars PROVE [D!Next]_D!vars
    OBVIOUS
  <2>1. CASE ChainRoute \/ UNCHANGED runtimeVars
    BY <2>1 DEF ChainRoute, runtimeVars, dispatch, D!vars
  <2>2. CASE \E w \in Workers : Execute(w) \/ Decline(w) \/ PreSupervisorCheck(w)
    BY <2>2 DEF Execute, Decline, PreSupervisorCheck, D!Next, D!WorkerStep
  <2>3. CASE DispatchRoute
    BY <2>3 DEF DispatchRoute, D!Next, D!WorkerStep
  <2>. QED
    BY <2>1, <2>2, <2>3 DEF RuntimeNext
<1>. QED
    BY <1>1, <1>2, <1>3, RuntimeInvariant, PTL
       DEF RuntimeSpec, ImplementsParts, ServedSpec, D!Spec

\* The transaction hook of redeem_phase7_execution_capability_from_sources_v1 makes redemption
\* and claim one: consumed capabilities and claimed operations are the same, always.
THEOREM RedemptionClaims == RuntimeSpec => []RedemptionIsClaim
<1>1. TypeOK /\ RuntimeInv => RedemptionIsClaim
    BY DEF RuntimeInv
<1>. QED
    BY <1>1, RuntimeInvariant, PTL

\* What is proved of the chain under ServedSpec holds in the daemon.
LEMMA ChainHoldsHere == RuntimeSpec => []ConsumedWithinApproval /\ []StoreVerifies
<1>1. [ServedNext]_vars => [Next]_vars
    BY DEF Next
<1>. QED
    BY <1>1, RuntimeImplementsParts, ConsumptionIsAuthorized, ServedStoreVerifies, PTL
       DEF ImplementsParts, ServedSpec, Spec

\* An authorization that was cancelled, revoked or has expired never reaches the target,
\* however the revoke, read and execute routes race.
THEOREM WithdrawnStaysOffTarget == RuntimeSpec => []WithdrawnNeverLaunches
<1>1. RuntimeInv /\ StoreVerifies => WithdrawnNeverLaunches
    BY DEF RuntimeInv, TracesInv, Untouched, RedemptionIsClaim, StoreVerifies, Verified,
       ValidConsumption, WithdrawnNeverLaunches
<1>. QED
    BY <1>1, RuntimeInvariant, ChainHoldsHere, PTL

\* A commit that landed was redeemed inside its approval and the 60 s of its authorization,
\* however late its process lands.
THEOREM LandedWasApproved == RuntimeSpec => []LandedInsideApproval
<1>1. RuntimeInv /\ StoreVerifies /\ ConsumedWithinApproval => LandedInsideApproval
    BY DEF RuntimeInv, TracesInv, Untouched, RedemptionIsClaim, StoreVerifies, Verified,
       ValidConsumption, ConsumedWithinApproval, LandedInsideApproval
<1>. QED
    BY <1>1, RuntimeInvariant, ChainHoldsHere, PTL

====
