-------------------------- MODULE SubstrateControlIntent --------------------------
(***************************************************************************)
(* packages/packets/src/substrate-control-intent.ts: an actor states which *)
(* control it wants over which substrate, at which risk.                   *)
(***************************************************************************)
EXTENDS ControlVocabulary

\* safeString, safeRef, safeCapability and safePolicyGate refuse only what looks
\* like a secret; unsafeAuthority is asked of the capability alone.
safeRef == Refs \ {"secret"}
safeString == Strings \ {"secret"}

normalizeActor == Actor(safeRef, {})

normalizeCapability == Text(safeRef \ {"unsafe"})

normalizeRiskLevel == Level

normalizeSubstrateKind == Text(substrateKinds)

normalizeControlMode == Text(controlModes)

lifecycleRef ==
    Object([packet_type |-> Text({"CapabilityPacket", "ExecutionPacket", "EnvironmentPacket"}),
            lifecycle_ref |-> Text(safeRef), required_state |-> Text(safeString)], {})

normalizeLifecycleRefs == Items(lifecycleRef, 1)

normalizePolicyGateRefs == Items(PolicyGate(safeRef, safeRef, {}), 1)

normalizeApprovalRefs == Approvals(Approval(safeRef, {}), 0)

normalizeAuditEventPlan == AuditPlan(AuditEvent, "event_type", 1)

normalizeResultExpectations ==
    ResultExpectation(safeRef, EveryOf(resultStatuses, 1), EveryOf(safeRef, 1), safeString, {})

normalizeRollbackExpectations ==
    Items(RollbackExpectation(safeRef, EveryOf(safeRef, 1), {}), 0)

normalizeBlockedLiveActions == EveryOf(safeRef, 1)

normalizeSourceRefs ==
    Told(Items(SourceRef(safeRef, safeString, {}), 1), {"source_ref", "summary"})

\* The keys a request may hold, with what is asked of each.
requestFields ==
    [requested_actor |-> normalizeActor, capability |-> normalizeCapability,
     risk_level |-> normalizeRiskLevel, target_substrate_kind |-> normalizeSubstrateKind,
     requested_control_mode |-> normalizeControlMode, source_refs |-> normalizeSourceRefs,
     lifecycle_refs |-> normalizeLifecycleRefs, policy_gate_refs |-> normalizePolicyGateRefs,
     approval_refs |-> normalizeApprovalRefs, audit_event_plan |-> normalizeAuditEventPlan,
     result_expectations |-> normalizeResultExpectations,
     rollback_expectations |-> normalizeRollbackExpectations,
     blocked_live_actions |-> normalizeBlockedLiveActions]

defaultSubstrateControlIntent ==
    [risk_level |-> N(5), target_substrate_kind |-> T("services"),
     requested_control_mode |-> T("approval_gated_mutation")]

contract ==
    Contract(requestFields, defaultSubstrateControlIntent,
             {"live_substrate_mutation_allowed", "live_execution_allowed"})

requiresApproval(mode, riskLevel) == mode = "approval_gated_mutation" \/ riskLevel >= 5

requiresRollback(riskLevel, mode) == riskLevel >= 4 \/ mode = "approval_gated_mutation"

\* What the effective values have to satisfy together.
normalizeSubstrateControlIntentRequest(e) ==
    LET mode == e.requested_control_mode.text
        risk == e.risk_level.number
    IN  /\ requiresApproval(mode, risk) => Count(e, "approval_refs") > 0
        /\ PlansEveryEvent(e, "audit_event_plan", "event_type")
        /\ requiresRollback(risk, mode) => Count(e, "rollback_expectations") > 0
        /\ mode # "forbidden_mutation"

createSubstrateControlIntent(request) ==
    Reviewed(contract, request, normalizeSubstrateControlIntentRequest)

===================================================================================
