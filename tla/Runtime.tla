--------------------------------- MODULE Runtime ---------------------------------
(***************************************************************************)
(* The daemon as a whole: the authority chain and the dispatch of its      *)
(* operations over one store.  Each approval decision has one operation,   *)
(* so Decisions are the Operations of Dispatch.                            *)
(*                                                                         *)
(* The two meet in three places.  The transaction that redeems a           *)
(* capability also claims the dispatch (the transaction hook of            *)
(* redeem_phase7_execution_capability_from_sources_v1); the check before   *)
(* the supervisor authenticates the requester again; and every route needs *)
(* a running daemon and the store mutex.                                   *)
(***************************************************************************)
EXTENDS Authority, Sequences, FiniteSets

CONSTANTS
    Workers, Adapter, Commits, Base, Result, Foreign, StoreMayFail

VARIABLES
    opLog, attLog, consumed, receipt, recon, lost, head, proc, landed, launches,
    worker, dispatchActive, mutex, up

D == INSTANCE Dispatch WITH Operations <- Decisions

chain == vars
dispatch == <<opLog, attLog, consumed, receipt, recon, lost, head, proc, landed,
              launches, worker, dispatchActive, mutex, up>>
runtimeVars == <<chain, dispatch>>

RuntimeInit == Init /\ D!Init

\* Any route that only works on the chain or on sessions.
ChainRoute ==
    /\ up
    /\ mutex = D!Free
    /\ D!Verified
    /\ ChainNext
    /\ UNCHANGED dispatch

\* Mutant: the claim commits on its own, before the redemption.
ExecuteClaimOnly(w) ==
    /\ D!Claim(w) \/ D!ClaimUncertain(w)
    /\ \/ UNCHANGED chain
       \/ \E k \in Keys, at \in Time : Redeem(worker[w].op, k, at, TRUE)

\* One transaction: the capability is consumed and the attempt claimed.
Execute(w) ==
    /\ D!Claim(w) \/ D!ClaimUncertain(w)
    /\ \E k \in Keys, at \in Time : Redeem(worker[w].op, k, at, TRUE)

\* A refusal changes nothing; a replay may record session activity.
Decline(w) ==
    /\ D!Refuse(w)
    /\ \/ UNCHANGED chain
       \/ \E k \in Keys, at \in Time :
             ReplayRedemption(worker[w].op, k, at, TRUE)

\* Mutant: activity is recorded for a session that no longer authenticates.
PreSupervisorCheckUnauthenticated(w) ==
    /\ D!VerifyClaim(w)
    /\ Verified
    /\ \E at \in Time :
          session' = Touched(Requester[worker[w].op], at)
    /\ UNCHANGED <<attempt, nonce, auth, consumption, held>>

\* The requester must still be authenticated when the container is about to
\* start; with_authenticated_phase11_claim_consumption_v1 records activity.
PreSupervisorCheck(w) ==
    /\ D!VerifyClaim(w)
    /\ Verified
    /\ \E at \in Time : RedemptionActor(worker[w].op, at, TRUE)
    /\ UNCHANGED <<attempt, nonce, auth, consumption, held>>

\* Everything else dispatch does leaves the chain alone.  Steps that verify
\* the store verify the chain with it.
DispatchRoute ==
    /\ \/ \E w \in Workers :
             \/ \E o \in Decisions : D!Admit(w, o)
             \/ D!Launch(w)
             \/ D!Observe(w)
             \/ D!Abandon(w)
             \/ Verified /\ D!Persist(w)
       \/ \E o \in Decisions :
             \/ Verified /\ D!Reconcile(o)
             \/ D!ReconcileFails(o)
             \/ D!Land(o)
             \/ D!ProcessDies(o)
       \/ D!MoveTarget
       \/ D!Crash
       \/ Verified /\ D!Restart
    /\ UNCHANGED chain

RuntimeNext ==
    \/ ChainRoute
    \/ \E w \in Workers : Execute(w) \/ Decline(w) \/ PreSupervisorCheck(w)
    \/ DispatchRoute

RuntimeSpec == RuntimeInit /\ [][RuntimeNext]_runtimeVars

--------------------------------------------------------------------------------

\* Consumption rows and claimed attempts are the same operations: no crash,
\* ambiguous commit or race of two execute requests separates them (the
\* redemption hook).
RedemptionIsClaim ==
    consumed = {d \in Decisions : consumption[d].state = "recorded"}

\* An authorization that was cancelled, revoked or expired before its
\* redemption never reaches the target: whichever of the revoke and execute
\* routes commits first decides, and the loser leaves no trace.
WithdrawnNeverLaunches ==
    \A d \in Decisions : auth[d].state \in {"cancelled", "revoked", "expired"} =>
        /\ launches[d] = 0
        /\ d \notin landed
        /\ opLog[d] = <<"prepared">>

\* The target is moved only inside an approval: a landed commit has a
\* consumed authorization whose consumption lies in the approval's window and
\* in the 60 s of the authorization, however late the process itself lands.
LandedInsideApproval ==
    \A d \in landed :
        /\ auth[d].state = "consumed"
        /\ consumption[d].state = "recorded"
        /\ DecidedAt[d] <= consumption[d].at
        /\ consumption[d].at < ApprovalExpiry[d]
        /\ consumption[d].at < auth[d].issued + AuthTTL

\* Running both parts over one store adds no behaviour to either: the chain
\* still follows ServedSpec, and dispatch its own specification.
ImplementsParts == ServedSpec /\ D!Spec

================================================================================
