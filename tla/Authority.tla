------------------------------- MODULE Authority -------------------------------
(***************************************************************************)
(* The authority chain of the LNSAT evidence store: one approved decision  *)
(* becomes an authorization attempt, a nonce, an execution authorization   *)
(* with its operation, and at last one consumption.  The code is           *)
(* crates/lnsat-store/src/phase7_persistence.rs, phase7_nonce.rs and       *)
(* phase7_consumption.rs, with the session checks of lib.rs.               *)
(*                                                                         *)
(* Every write runs in one immediate SQLite transaction, so an operation   *)
(* is one action; an operation that returns an error rolls back and is no  *)
(* action at all.  Identifiers, digests and secrets are derived from the   *)
(* decision, so each row is indexed by its decision.  The rows that only   *)
(* ever gain one terminal event carry their latest event: state and at.    *)
(*                                                                         *)
(* Times come from SystemTime::now(), which may repeat, jump and run       *)
(* backwards, and several operations read it before they wait for the      *)
(* database.  So a reading is any member of Time, in any order.            *)
(***************************************************************************)
EXTENDS Integers

CONSTANTS
    Decisions,        \* approval decisions ("approved" outcome)
    Sessions,         \* local sessions
    Identities,       \* local identities
    Keys,             \* idempotency keys chosen by callers
    Time,             \* clock readings
    DecidedAt, ApprovalExpiry,      \* window of each approval decision
    Requester, Approver,            \* sessions bound to each decision
    IdentityOf, RoleOf,             \* identity and role behind a session
    SessionIssued, SessionExpires,  \* absolute window of each session
    NonceTTL, AuthTTL,              \* 300 s and 60 s in the code
    IdleTimeout, TouchGranularity   \* 900 s and 60 s in the code

Roles == {"owner", "operator", "auditor"}

ASSUME ConstantsAssumption ==
    /\ Keys # {}
    /\ Time \subseteq Nat
    /\ DecidedAt \in [Decisions -> Nat]
    /\ ApprovalExpiry \in [Decisions -> Nat]
    /\ Requester \in [Decisions -> Sessions]
    /\ Approver \in [Decisions -> Sessions]
    /\ IdentityOf \in [Sessions -> Identities]
    /\ RoleOf \in [Sessions -> Roles]
    /\ SessionIssued \in [Sessions -> Nat]
    /\ SessionExpires \in [Sessions -> Nat]
    /\ NonceTTL \in Nat \ {0}
    /\ AuthTTL \in Nat \ {0}
    /\ IdleTimeout \in Nat \ {0}
    /\ TouchGranularity \in Nat \ {0}

VARIABLES
    session,      \* last recorded activity and revocation of each session
    attempt,      \* authorization attempt of each decision
    nonce,        \* nonce of each attempt
    auth,         \* execution authorization and its operation
    consumption,  \* redemption of each authorization
    held          \* decisions whose capability reached its requester

vars == <<session, attempt, nonce, auth, consumption, held>>

NonceTerminal == {"cancelled", "expired"}
AuthTerminal == {"cancelled", "revoked", "expired", "consumed"}

AttemptRow == [state: {"absent", "prepared"}, requested: Nat, expires: Nat]
NonceRow == [state: {"absent", "active"} \cup NonceTerminal,
             issued: Nat, expires: Nat, at: Nat]
AuthRow == [state: {"absent", "active"} \cup AuthTerminal,
            issued: Nat, expires: Nat, key: Keys, at: Nat]
ConsumptionRow == [state: {"absent", "recorded"}, key: Keys, at: Nat]

\* Every row has the shape the schema gives it.
TypeOK ==
    /\ session \in [Sessions -> [last: Nat, revoked: BOOLEAN]]
    /\ attempt \in [Decisions -> AttemptRow]
    /\ nonce \in [Decisions -> NonceRow]
    /\ auth \in [Decisions -> AuthRow]
    /\ consumption \in [Decisions -> ConsumptionRow]
    /\ held \in SUBSET Decisions

Lesser(a, b) == IF a <= b THEN a ELSE b

AnyKey == CHOOSE k \in Keys : TRUE

Init ==
    /\ session = [s \in Sessions |->
                    [last |-> SessionIssued[s], revoked |-> FALSE]]
    /\ attempt = [d \in Decisions |->
                    [state |-> "absent", requested |-> 0, expires |-> 0]]
    /\ nonce = [d \in Decisions |->
                  [state |-> "absent", issued |-> 0, expires |-> 0, at |-> 0]]
    /\ auth = [d \in Decisions |->
                 [state |-> "absent", issued |-> 0, expires |-> 0,
                  key |-> AnyKey, at |-> 0]]
    /\ consumption = [d \in Decisions |->
                        [state |-> "absent", key |-> AnyKey, at |-> 0]]
    /\ held = {}

--------------------------------------------------------------------------------
(***************************************************************************)
(* The store's own verifier.  Every operation below runs it on all rows    *)
(* first and fails with EvidenceDrift when it rejects one of them.         *)
(***************************************************************************)

ValidAttempt(d) ==
    attempt[d].state # "absent" =>
        /\ DecidedAt[d] <= attempt[d].requested
        /\ attempt[d].requested < attempt[d].expires
        /\ attempt[d].expires = ApprovalExpiry[d]

ValidNonceWindow(d) ==
    /\ attempt[d].requested <= nonce[d].issued
    /\ nonce[d].issued < nonce[d].expires
    /\ nonce[d].expires = Lesser(nonce[d].issued + NonceTTL, attempt[d].expires)

ValidNonceEvents(d) ==
    /\ nonce[d].issued <= nonce[d].at
    /\ nonce[d].state = "active" => nonce[d].at = nonce[d].issued
    /\ nonce[d].state = "cancelled" => nonce[d].at < nonce[d].expires
    /\ nonce[d].state = "expired" => nonce[d].at = nonce[d].expires

ValidNonce(d) ==
    nonce[d].state # "absent" =>
        /\ attempt[d].state # "absent"
        /\ ValidNonceWindow(d)
        /\ ValidNonceEvents(d)

ValidAuthorizationWindow(d) ==
    /\ attempt[d].requested <= auth[d].issued
    /\ nonce[d].issued <= auth[d].issued
    /\ auth[d].issued < nonce[d].expires
    /\ auth[d].issued < auth[d].expires
    /\ auth[d].expires <= attempt[d].expires

\* A nonce that has left "active" must have done so after the issue.
NonceOutlivesIssue(d) ==
    nonce[d].state # "active" => nonce[d].at > auth[d].issued

ValidAuthorizationEvents(d) ==
    /\ auth[d].issued <= auth[d].at
    /\ auth[d].state = "active" => auth[d].at = auth[d].issued
    /\ IF auth[d].state = "expired"
         THEN auth[d].at = auth[d].expires
         ELSE auth[d].at < auth[d].expires
    /\ (auth[d].state = "consumed") <=> (consumption[d].state = "recorded")

ValidAuthorization(d) ==
    auth[d].state # "absent" =>
        /\ attempt[d].state # "absent"
        /\ nonce[d].state # "absent"
        /\ ValidAuthorizationWindow(d)
        /\ NonceOutlivesIssue(d)
        /\ ValidAuthorizationEvents(d)

ValidConsumption(d) ==
    consumption[d].state # "absent" =>
        /\ auth[d].state = "consumed"
        /\ auth[d].at = consumption[d].at
        /\ auth[d].issued <= consumption[d].at
        /\ consumption[d].at < auth[d].expires

Verified ==
    \A d \in Decisions :
        /\ ValidAttempt(d)
        /\ ValidNonce(d)
        /\ ValidAuthorization(d)
        /\ ValidConsumption(d)

--------------------------------------------------------------------------------
(***************************************************************************)
(* Sessions, as far as the chain reads and touches them.                   *)
(***************************************************************************)

AllowsControl(s, permission) ==
    \/ RoleOf[s] = "owner"
    \/ /\ RoleOf[s] = "operator"
       /\ permission \in {"request_action", "decide_approval", "read_evidence"}
    \/ RoleOf[s] = "auditor" /\ permission = "read_evidence"

ActiveUntil(s) == Lesser(session[s].last + IdleTimeout, SessionExpires[s])

Authenticates(s, at) ==
    /\ ~session[s].revoked
    /\ SessionIssued[s] <= at
    /\ session[s].last <= at
    /\ at < ActiveUntil(s)

\* The session table after an authenticated request: activity is recorded
\* only when the granularity has passed since the last record.
Touched(s, at) ==
    IF at - session[s].last >= TouchGranularity
      THEN [session EXCEPT ![s].last = at]
      ELSE session

ActiveUntilTouched(s, at) ==
    Lesser(Touched(s, at)[s].last + IdleTimeout, SessionExpires[s])

--------------------------------------------------------------------------------
(***************************************************************************)
(* Attempts and nonces.                                                    *)
(***************************************************************************)

PrepareAttempt(d, at) ==
    /\ Verified
    /\ attempt[d].state = "absent"
    /\ DecidedAt[d] <= at
    /\ at < ApprovalExpiry[d]
    /\ attempt' = [attempt EXCEPT ![d] =
                     [state |-> "prepared", requested |-> at,
                      expires |-> ApprovalExpiry[d]]]
    /\ UNCHANGED <<session, nonce, auth, consumption, held>>

IssueNonce(d, at) ==
    /\ Verified
    /\ attempt[d].state = "prepared"
    /\ nonce[d].state = "absent"
    /\ attempt[d].requested <= at
    /\ at < attempt[d].expires
    /\ nonce' = [nonce EXCEPT ![d] =
                   [state |-> "active", issued |-> at, at |-> at,
                    expires |-> Lesser(at + NonceTTL, attempt[d].expires)]]
    /\ UNCHANGED <<session, attempt, auth, consumption, held>>

\* The nonce table after materialize_expiry_if_needed.
ExpiredNonce(d, at) ==
    IF nonce[d].state = "active" /\ nonce[d].expires <= at
      THEN [nonce EXCEPT ![d].state = "expired", ![d].at = nonce[d].expires]
      ELSE nonce

\* ClockRejected when the reading precedes what is already recorded.
NonceClockAccepts(d, at) == nonce[d].issued <= at /\ nonce[d].at <= at

\* A read, and the replay of an issue that has already happened.
ReadNonce(d, at) ==
    /\ Verified
    /\ nonce[d].state # "absent"
    /\ NonceClockAccepts(d, at)
    /\ nonce' = ExpiredNonce(d, at)
    /\ UNCHANGED <<session, attempt, auth, consumption, held>>

\* Mutant: cancels whatever state the nonce is in.
CancelNonceAgain(d, at) ==
    /\ Verified
    /\ nonce[d].state # "absent"
    /\ NonceClockAccepts(d, at)
    /\ nonce' = [nonce EXCEPT ![d].state = "cancelled", ![d].at = at]
    /\ UNCHANGED <<session, attempt, auth, consumption, held>>

CancelNonce(d, at) ==
    /\ Verified
    /\ nonce[d].state # "absent"
    /\ NonceClockAccepts(d, at)
    /\ nonce' = LET expired == ExpiredNonce(d, at)
                IN  IF expired[d].state = "active"
                      THEN [expired EXCEPT ![d].state = "cancelled", ![d].at = at]
                      ELSE expired
    /\ UNCHANGED <<session, attempt, auth, consumption, held>>

--------------------------------------------------------------------------------
(***************************************************************************)
(* Execution authorizations, each stored with its operation.               *)
(***************************************************************************)

SourceWindow(d, at) ==
    /\ attempt[d].requested <= at
    /\ nonce[d].issued <= at
    /\ at < attempt[d].expires
    /\ at < nonce[d].expires
    /\ nonce[d].state = "active"

\* Mutant: the approver's idle expiry is left out.
EffectiveExpiryIgnoresIdle(d, at) ==
    Lesser(Lesser(at + AuthTTL, Lesser(attempt[d].expires, nonce[d].expires)),
           Lesser(ActiveUntilTouched(Requester[d], at), SessionExpires[Approver[d]]))

\* Mutant: the 60 s cap is left out.
EffectiveExpiryUncapped(d, at) ==
    Lesser(Lesser(attempt[d].expires, nonce[d].expires),
           Lesser(ActiveUntilTouched(Requester[d], at), ActiveUntil(Approver[d])))

EffectiveExpiry(d, at) ==
    Lesser(Lesser(at + AuthTTL, Lesser(attempt[d].expires, nonce[d].expires)),
           Lesser(ActiveUntilTouched(Requester[d], at), ActiveUntil(Approver[d])))

\* The caller is the requester session of the attempt.  The capability leaves
\* the store with the reply; a reply lost after the commit loses it.
IssueAuthorization(d, k, at) ==
    /\ Verified
    /\ Authenticates(Requester[d], at)
    /\ AllowsControl(Requester[d], "request_action")
    /\ attempt[d].state = "prepared"
    /\ auth[d].state = "absent"
    /\ Authenticates(Approver[d], at)
    /\ AllowsControl(Approver[d], "decide_approval")
    /\ IdentityOf[Approver[d]] # IdentityOf[Requester[d]]
    /\ SourceWindow(d, at)
    /\ EffectiveExpiry(d, at) > at
    /\ \A e \in Decisions : auth[e].state # "absent" => auth[e].key # k
    /\ auth' = [auth EXCEPT ![d] =
                  [state |-> "active", issued |-> at, at |-> at, key |-> k,
                   expires |-> EffectiveExpiry(d, at)]]
    /\ session' = Touched(Requester[d], at)
    /\ held' \in {held, held \cup {d}}
    /\ UNCHANGED <<attempt, nonce, consumption>>

ExpiredAuth(d, at) ==
    IF auth[d].state = "active" /\ auth[d].expires <= at
      THEN [auth EXCEPT ![d].state = "expired", ![d].at = auth[d].expires]
      ELSE auth

AuthClockAccepts(d, at) == auth[d].issued <= at /\ auth[d].at <= at

\* Mutant: the replay hands out the capability as the first reply does.
ReplayAuthorizationWithCapability(d, k, at) ==
    /\ Verified
    /\ Authenticates(Requester[d], at)
    /\ AllowsControl(Requester[d], "request_action")
    /\ auth[d].state # "absent"
    /\ auth[d].key = k
    /\ AuthClockAccepts(d, at)
    /\ auth' = ExpiredAuth(d, at)
    /\ session' = Touched(Requester[d], at)
    /\ held' = held \cup {d}
    /\ UNCHANGED <<attempt, nonce, consumption>>

\* The same key again: metadata only, never the capability.
ReplayAuthorization(d, k, at) ==
    /\ Verified
    /\ Authenticates(Requester[d], at)
    /\ AllowsControl(Requester[d], "request_action")
    /\ auth[d].state # "absent"
    /\ auth[d].key = k
    /\ AuthClockAccepts(d, at)
    /\ auth' = ExpiredAuth(d, at)
    /\ session' = Touched(Requester[d], at)
    /\ UNCHANGED <<attempt, nonce, consumption, held>>

ReadAuthorization(d, at) ==
    /\ Verified
    /\ auth[d].state # "absent"
    /\ AuthClockAccepts(d, at)
    /\ auth' = ExpiredAuth(d, at)
    /\ UNCHANGED <<session, attempt, nonce, consumption, held>>

ReadAuthorizationAs(d, s, at) ==
    /\ Verified
    /\ Authenticates(s, at)
    /\ AllowsControl(s, "read_evidence")
    /\ auth[d].state # "absent"
    /\ AuthClockAccepts(d, at)
    /\ auth' = ExpiredAuth(d, at)
    /\ session' = Touched(s, at)
    /\ UNCHANGED <<attempt, nonce, consumption, held>>

\* Mutant: a terminal authorization can be withdrawn again.
TransitionAuthorizationAgain(d, s, at, terminal) ==
    /\ Verified
    /\ Authenticates(s, at)
    /\ auth[d].state # "absent"
    /\ AuthClockAccepts(d, at)
    /\ auth' = [auth EXCEPT ![d].state = terminal, ![d].at = at]
    /\ session' = Touched(s, at)
    /\ UNCHANGED <<attempt, nonce, consumption, held>>

\* Expiry is materialised first and wins over the requested transition.
TransitionAuthorization(d, s, at, terminal) ==
    /\ Verified
    /\ Authenticates(s, at)
    /\ auth[d].state # "absent"
    /\ AuthClockAccepts(d, at)
    /\ auth' = LET expired == ExpiredAuth(d, at)
               IN  IF expired[d].state = "active"
                     THEN [expired EXCEPT ![d].state = terminal, ![d].at = at]
                     ELSE expired
    /\ session' = Touched(s, at)
    /\ UNCHANGED <<attempt, nonce, consumption, held>>

CancelAuthorization(d, s, at) ==
    /\ s = Requester[d]
    /\ AllowsControl(s, "request_action")
    /\ TransitionAuthorization(d, s, at, "cancelled")

RevokeAuthorization(d, s, at) ==
    /\ \/ RoleOf[s] = "owner"
       \/ s = Approver[d] /\ AllowsControl(s, "decide_approval")
    /\ TransitionAuthorization(d, s, at, "revoked")

--------------------------------------------------------------------------------
(***************************************************************************)
(* Redemption.  The served routes authenticate the requester; the library  *)
(* entry point redeems on the capability alone.                            *)
(***************************************************************************)

RedemptionActor(d, at, authenticated) ==
    IF authenticated
      THEN /\ Authenticates(Requester[d], at)
           /\ AllowsControl(Requester[d], "request_action")
           /\ session' = Touched(Requester[d], at)
      ELSE UNCHANGED session

\* Mutant: the expiry is not compared with the clock.
RedemptionWindowOpenEnded(d, at) ==
    /\ auth[d].issued <= at
    /\ auth[d].at <= at
    /\ auth[d].state = "active"

RedemptionWindow(d, at) ==
    /\ auth[d].issued <= at
    /\ auth[d].at <= at
    /\ auth[d].state = "active"
    /\ at < auth[d].expires

Redeem(d, k, at, authenticated) ==
    /\ Verified
    /\ d \in held
    /\ RedemptionActor(d, at, authenticated)
    /\ \A e \in Decisions :
          consumption[e].state = "recorded" => consumption[e].key # k
    /\ consumption[d].state = "absent"
    /\ RedemptionWindow(d, at)
    /\ consumption' = [consumption EXCEPT ![d] =
                         [state |-> "recorded", key |-> k, at |-> at]]
    /\ auth' = [auth EXCEPT ![d].state = "consumed", ![d].at = at]
    /\ UNCHANGED <<attempt, nonce, held>>

ReplayRedemption(d, k, at, authenticated) ==
    /\ Verified
    /\ d \in held
    /\ consumption[d].state = "recorded"
    /\ consumption[d].key = k
    /\ consumption[d].at <= at
    /\ RedemptionActor(d, at, authenticated)
    /\ UNCHANGED <<attempt, nonce, auth, consumption, held>>

--------------------------------------------------------------------------------
(***************************************************************************)
(* What other routes do to the sessions meanwhile.                         *)
(***************************************************************************)

TouchSession(s, at) ==
    /\ Authenticates(s, at)
    /\ session' = Touched(s, at)
    /\ UNCHANGED <<attempt, nonce, auth, consumption, held>>

RevokeSession(s, at) ==
    /\ Verified
    /\ Authenticates(s, at)
    /\ session' = [Touched(s, at) EXCEPT ![s].revoked = TRUE]
    /\ UNCHANGED <<attempt, nonce, auth, consumption, held>>

RevokeAllSessions(s, at) ==
    /\ Verified
    /\ Authenticates(s, at)
    /\ session' = [t \in Sessions |->
                     [Touched(s, at)[t] EXCEPT !.revoked =
                        \/ @
                        \/ /\ IdentityOf[t] = IdentityOf[s]
                           /\ SessionIssued[t] <= at
                           /\ at < SessionExpires[t]]]
    /\ UNCHANGED <<attempt, nonce, auth, consumption, held>>

--------------------------------------------------------------------------------

\* What the daemon's routes do to one decision's rows short of a redemption.
DecisionNext(at) ==
    \E d \in Decisions :
        \/ PrepareAttempt(d, at)
        \/ IssueNonce(d, at)
        \/ ReadNonce(d, at)
        \/ ReadAuthorization(d, at)
        \/ \E k \in Keys :
              \/ IssueAuthorization(d, k, at)
              \/ ReplayAuthorization(d, k, at)
        \/ \E s \in Sessions :
              \/ ReadAuthorizationAs(d, s, at)
              \/ CancelAuthorization(d, s, at)
              \/ RevokeAuthorization(d, s, at)

SessionNext(at) ==
    \E s \in Sessions :
        \/ TouchSession(s, at)
        \/ RevokeSession(s, at)
        \/ RevokeAllSessions(s, at)

ChainNext == \E at \in Time : DecisionNext(at) \/ SessionNext(at)

RedemptionNext ==
    \E d \in Decisions, k \in Keys, at \in Time, authenticated \in BOOLEAN :
        \/ Redeem(d, k, at, authenticated)
        \/ ReplayRedemption(d, k, at, authenticated)

\* Everything the daemon's routes can reach.
ServedNext == ChainNext \/ RedemptionNext

\* The store's library interface also cancels nonces.
Next == ServedNext \/ \E d \in Decisions, at \in Time : CancelNonce(d, at)

ServedSpec == Init /\ [][ServedNext]_vars
Spec == Init /\ [][Next]_vars

--------------------------------------------------------------------------------
(***************************************************************************)
(* Properties.                                                             *)
(***************************************************************************)

\* No sequence of the operations the daemon serves, under any clock, commits
\* rows that verify_current_schema later rejects.  A rejected row would make
\* every later operation fail with EvidenceDrift, since rows are immutable.
StoreVerifies == Verified

\* A recorded consumption lies inside the approval it descends from, within
\* the 60 s cap of its authorization and inside the absolute windows of both
\* sessions, and the approver and requester are different identities
\* (effective_authorization_expiry, validate_redemption_window_and_state).
ConsumedWithinApproval ==
    \A d \in Decisions : consumption[d].state = "recorded" =>
        /\ DecidedAt[d] <= consumption[d].at
        /\ consumption[d].at < ApprovalExpiry[d]
        /\ consumption[d].at < auth[d].issued + AuthTTL
        /\ consumption[d].at < SessionExpires[Requester[d]]
        /\ consumption[d].at < SessionExpires[Approver[d]]
        /\ IdentityOf[Requester[d]] # IdentityOf[Approver[d]]

\* An authorization never outlives what it was derived from: its expiry stays
\* at or below the nonce's expiry and the idle and absolute expiry of both
\* sessions, whatever activity is recorded later (effective_authorization_expiry).
ExpiryBoundedBySources ==
    \A d \in Decisions : auth[d].state # "absent" =>
        /\ auth[d].expires <= nonce[d].expires
        /\ auth[d].expires <= ActiveUntil(Requester[d])
        /\ auth[d].expires <= ActiveUntil(Approver[d])

\* The same bounds hold from the moment an authorization is issued, before
\* anyone redeems it (validate_authorization_source_window).
AuthorizedWithinApproval ==
    \A d \in Decisions : auth[d].state # "absent" =>
        /\ DecidedAt[d] <= auth[d].issued
        /\ auth[d].expires <= ApprovalExpiry[d]
        /\ auth[d].expires <= auth[d].issued + AuthTTL
        /\ auth[d].expires <= SessionExpires[Requester[d]]
        /\ auth[d].expires <= SessionExpires[Approver[d]]
        /\ IdentityOf[Requester[d]] # IdentityOf[Approver[d]]

\* Operation keys and redemption keys each name one row: a key that was used
\* replays its own row or is refused (select_operation_by_idempotency,
\* select_consumption_by_idempotency).
KeysNameOneRow ==
    \A d, e \in Decisions : d # e =>
        /\ auth[d].state # "absent" /\ auth[e].state # "absent"
              => auth[d].key # auth[e].key
        /\ consumption[d].state = "recorded" /\ consumption[e].state = "recorded"
              => consumption[d].key # consumption[e].key

\* Terminal evidence is final: a nonce, authorization or consumption that has
\* reached its last event never changes again, whichever operation runs and
\* whatever its clock says ("terminal states remain idempotent").
TerminalIsFinal ==
    [][/\ \A d \in Decisions :
             nonce[d].state \in NonceTerminal => nonce'[d] = nonce[d]
       /\ \A d \in Decisions :
             auth[d].state \in AuthTerminal => auth'[d] = auth[d]
       /\ \A d \in Decisions :
             consumption[d].state = "recorded"
                => consumption'[d] = consumption[d]]_vars

\* A capability that did not reach its requester with the first reply never
\* does: no replay or read hands it out ("A lost capability is unrecoverable").
LostCapabilityStaysLost ==
    [][\A d \in Decisions :
          auth[d].state # "absent" /\ d \notin held => d \notin held']_vars

\* The inductive invariant behind the properties above: together they are
\* preserved by every operation, nonce cancellation included.
ChainInvariant ==
    /\ TypeOK
    /\ AuthorizedWithinApproval
    /\ ConsumedWithinApproval
    /\ ExpiryBoundedBySources
    /\ KeysNameOneRow

================================================================================
