-------------------------- MODULE CapabilityBrokerRequest --------------------------
(***************************************************************************)
(* packages/packets/src/capability-broker-request.ts: the broker names the *)
(* class of adapter that a control intent would need.                      *)
(***************************************************************************)
EXTENDS ControlVocabulary

\* safeRef and safeCapability refuse only what looks like a secret; safeString and
\* safePolicyGate refuse named authority as well.
safeRef == Refs \ {"secret"}
safePolicyGate == Refs \ {"secret", "unsafe"}
safeString == Strings \ {"secret", "unsafe"}

\* Mutant: the actor's references are only matched with the pattern.
normalizeActorUnscanned == Actor(Refs, {})

normalizeActor == Actor(safeRef, {})

normalizeCapability == Text(safeRef \ {"unsafe"})

normalizeRiskLevel == Level

normalizeSubstrateKind == Text(substrateKinds)

normalizeControlMode == Text(controlModes)

normalizeSubstrateIntentRefs ==
    Items(EvidenceOf("intent_ref", "substrate-control-intent", safeRef, safeString, {}), 1)

normalizePolicyGateRefs == Items(PolicyGate(safePolicyGate, safeRef, {}), 1)

normalizeApprovalRefs == Approvals(Approval(safeRef, {}), 0)

normalizeAuditEventPlan == AuditPlan(AuditEvent, "event_type", 1)

normalizeResultExpectations ==
    ResultExpectation(safeRef, EveryOf(resultStatuses, 1), EveryOf(safeRef, 1), safeString, {})

normalizeRollbackExpectations ==
    Items(RollbackExpectation(safeRef, EveryOf(safeRef, 1), {}), 0)

normalizeSourceRefs ==
    Told(Items(SourceRef(safeRef, safeString, {}), 1), {"source_ref", "summary"})

normalizeAdapterClass == Text(adapterClasses)

normalizeCapabilityStrings == EveryOf(safeRef, 1)

normalizeSafeStrings == EveryOf(safeString, 1)

\* The keys a request may hold, with what is asked of each.
requestFields ==
    [requested_actor |-> normalizeActor, capability |-> normalizeCapability,
     risk_level |-> normalizeRiskLevel, target_substrate_kind |-> normalizeSubstrateKind,
     requested_control_mode |-> normalizeControlMode, source_refs |-> normalizeSourceRefs,
     substrate_control_intent_refs |-> normalizeSubstrateIntentRefs,
     policy_gate_refs |-> normalizePolicyGateRefs, approval_refs |-> normalizeApprovalRefs,
     audit_event_plan |-> normalizeAuditEventPlan,
     result_expectations |-> normalizeResultExpectations,
     rollback_expectations |-> normalizeRollbackExpectations,
     proposed_adapter_class |-> normalizeAdapterClass,
     blocked_broker_dispatch_actions |-> normalizeCapabilityStrings,
     denied_broker_dispatch_behavior |-> normalizeSafeStrings,
     denied_live_behavior |-> normalizeSafeStrings]

defaultCapabilityBrokerRequest ==
    [risk_level |-> N(5), target_substrate_kind |-> T("services"),
     requested_control_mode |-> T("approval_gated_mutation"),
     proposed_adapter_class |-> T("service_control_adapter")]

contract ==
    Contract(requestFields, defaultCapabilityBrokerRequest,
             {"live_broker_dispatch_allowed", "live_execution_allowed"})

\* An adapter class that is not asked for follows from the substrate kind.
effective(request) ==
    LET e == Effective(contract, request)
    IN  IF "proposed_adapter_class" \in DOMAIN request.parts THEN e
        ELSE [e EXCEPT !.proposed_adapter_class =
                  T(adapterBySubstrateKind[e.target_substrate_kind.text])]

requiresApproval(mode, riskLevel) == mode = "approval_gated_mutation" \/ riskLevel >= 5

\* Mutant: the comparison is the wrong way round.
requiresRollbackSwapped(riskLevel, mode) ==
    riskLevel <= 4 \/ mode = "approval_gated_mutation"

requiresRollback(riskLevel, mode) == riskLevel >= 4 \/ mode = "approval_gated_mutation"

\* What the effective values have to satisfy together.
normalizeCapabilityBrokerRequest(e) ==
    LET mode == e.requested_control_mode.text
        risk == e.risk_level.number
    IN  /\ requiresApproval(mode, risk) => Count(e, "approval_refs") > 0
        /\ PlansEveryEvent(e, "audit_event_plan", "event_type")
        /\ requiresRollback(risk, mode) => Count(e, "rollback_expectations") > 0
        /\ mode # "forbidden_mutation"

\* Mutant: the rules are skipped when the request leaves the risk to the default.
createCapabilityBrokerRequestStatedRisk(request) ==
    LET e == effective(request)
    IN  Answer(/\ FieldsPass(contract, request)
               /\ "risk_level" \in DOMAIN request.parts => normalizeCapabilityBrokerRequest(e), e)

createCapabilityBrokerRequest(request) ==
    LET e == effective(request)
    IN  Answer(FieldsPass(contract, request) /\ normalizeCapabilityBrokerRequest(e), e)

====================================================================================
