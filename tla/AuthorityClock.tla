----------------------------- MODULE AuthorityClock -----------------------------
(***************************************************************************)
(* The authority chain under a clock that never runs backwards, to tell    *)
(* what needs a clock rollback from what does not.  Authorizations and     *)
(* redemptions read the clock inside their transaction.  Attempts and      *)
(* nonces read it before they wait for the database, so their reading may  *)
(* be an earlier one.                                                      *)
(***************************************************************************)
EXTENDS MCAuthority

CONSTANT MaxTime   \* bound on the clock

mc_Time == 0..MaxTime

VARIABLE now

clockVars == <<session, attempt, nonce, auth, consumption, held, now>>

ClockInit == Init /\ now = 0

Tick ==
    /\ now < MaxTime
    /\ now' = now + 1
    /\ UNCHANGED vars

\* Operations whose reading precedes their transaction.
SampledBefore ==
    \E d \in Decisions, at \in 0..now :
        \/ PrepareAttempt(d, at)
        \/ IssueNonce(d, at)
        \/ ReadNonce(d, at)
        \/ CancelNonce(d, at)

\* Operations that read the clock once they hold the database.
SampledInside ==
    \/ \E d \in Decisions, k \in Keys :
          \/ IssueAuthorization(d, k, now)
          \/ ReplayAuthorization(d, k, now)
          \/ Redeem(d, k, now, FALSE)
    \/ \E d \in Decisions : ReadAuthorization(d, now)
    \/ \E d \in Decisions, s \in Sessions :
          \/ CancelAuthorization(d, s, now)
          \/ RevokeAuthorization(d, s, now)

ClockNext == Tick \/ ((SampledBefore \/ SampledInside) /\ UNCHANGED now)

ClockSpec == ClockInit /\ [][ClockNext]_clockVars

\* Cancelling a nonce "fails closed for invalid scope, clock rollback, evidence
\* drift, or atomic persistence failure": once a cancellation has committed, the
\* store it leaves still verifies.
CancelFailsClosed ==
    (\E d \in Decisions : nonce[d].state = "cancelled") => Verified

================================================================================
