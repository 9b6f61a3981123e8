-------------------- MODULE AdapterInvocation --------------------
(***************************************************************************)
(* The contracts of one invocation of an adapter: its preflight, its       *)
(* result, and the bundle of evidence that authorizes it.                  *)
(***************************************************************************)
EXTENDS ControlVocabulary, SequencesExt

-----------------------------------------------------------------------------
\* packages/packets/src/adapter-invocation-preflight.ts: the evidence that
\* an adapter invocation would have to show before it may ever start.

\* Every predicate refuses secrets and named authority.
preflightSafeRef == Refs \ {"secret", "unsafe"}
preflightSafeString == Strings \ {"secret", "unsafe"}

normalizePreflightIdentity ==
    Identity("preflight_ref", "preflight_name", preflightSafeRef, preflightSafeString)

normalizePreflightActor == Actor(preflightSafeRef, {})

normalizePreflightCapability == Text(preflightSafeRef)

normalizePreflightRiskLevel == Level

normalizePreflightSubstrateKind == Text(substrateKinds)

normalizePreflightControlMode == Text(controlModes)

\* The keys of an intent reference are not checked: others are left out.
normalizePreflightSubstrateIntentRefs ==
    Items(Open(EvidenceOf("intent_ref", "substrate-control-intent",
                          preflightSafeRef, preflightSafeString, {"secret", "unsafe"})), 1)

normalizeRefObjects(ref, id) ==
    Items(EvidenceOf(ref, id, preflightSafeRef, preflightSafeString, {"secret", "unsafe"}), 1)

normalizePreflightBrokerRequestRefs ==
    normalizeRefObjects("request_ref", "capability-broker-request")

normalizePreflightManifestRefs ==
    normalizeRefObjects("manifest_ref", "substrate-adapter-manifest")

normalizePreflightAdapterIdentity ==
    Identity("adapter_ref", "adapter_name", preflightSafeRef, preflightSafeString)

normalizePreflightAdapterClass == Text(adapterClasses)

supportedInputContractIds ==
    <<"substrate-control-intent", "capability-broker-request", "substrate-adapter-manifest">>

inputEvidenceRef ==
    Object([evidence_ref |-> Text(preflightSafeRef), contract_id |-> Text(ToSet(supportedInputContractIds)),
            summary |-> Text(preflightSafeString)], {"secret", "unsafe"})

normalizeInputEvidenceRefs ==
    List(inputEvidenceRef, 1, Each(inputEvidenceRef, "contract_id", supportedInputContractIds))

normalizePreflightSourceRefs ==
    Told(Items(SourceRef(preflightSafeRef, preflightSafeString, {"secret"}), 1), {"source_ref", "summary"})

normalizePreflightPolicyGateRefs ==
    Items(PolicyGate(preflightSafeRef, preflightSafeRef, {"secret", "unsafe"}), 1)

normalizePreflightApprovalRefs == Approvals(Approval(preflightSafeRef, {"secret"}), 0)

normalizeAuditEventPlan == AuditPlan(AuditEvent, "event_type", 0)

normalizePreflightRefStringArray == SomeOf(preflightSafeRef)

normalizeResultExpectations ==
    ResultExpectation(preflightSafeRef, SomeOf(resultStatuses), normalizePreflightRefStringArray, preflightSafeString,
                      {"secret", "unsafe"})

normalizeRollbackExpectations ==
    Items(RollbackExpectation(preflightSafeRef, normalizePreflightRefStringArray, {"secret", "unsafe"}), 0)

normalizePreflightSafeStrings == EveryOf(preflightSafeString, 1)

\* The keys a request may hold, with what is asked of each.
preflightRequestFields ==
    [preflight_identity |-> normalizePreflightIdentity, requested_actor |-> normalizePreflightActor,
     capability |-> normalizePreflightCapability, risk_level |-> normalizePreflightRiskLevel,
     target_substrate_kind |-> normalizePreflightSubstrateKind,
     requested_control_mode |-> normalizePreflightControlMode,
     substrate_control_intent_refs |-> normalizePreflightSubstrateIntentRefs,
     capability_broker_request_refs |-> normalizePreflightBrokerRequestRefs,
     substrate_adapter_manifest_refs |-> normalizePreflightManifestRefs,
     adapter_identity |-> normalizePreflightAdapterIdentity, adapter_class |-> normalizePreflightAdapterClass,
     required_input_evidence_refs |-> normalizeInputEvidenceRefs,
     source_refs |-> normalizePreflightSourceRefs, policy_gate_refs |-> normalizePreflightPolicyGateRefs,
     approval_refs |-> normalizePreflightApprovalRefs, audit_event_plan |-> normalizeAuditEventPlan,
     result_expectations |-> normalizeResultExpectations,
     rollback_expectations |-> normalizeRollbackExpectations,
     denied_adapter_behavior |-> normalizePreflightSafeStrings,
     denied_live_behavior |-> normalizePreflightSafeStrings]

defaultAdapterInvocationPreflight ==
    [risk_level |-> N(5), target_substrate_kind |-> T("services"),
     requested_control_mode |-> T("approval_gated_mutation"),
     adapter_class |-> T("service_control_adapter")]

preflightContract ==
    Contract(preflightRequestFields, defaultAdapterInvocationPreflight, LiveFlags)

\* Mutant: the threshold of the risk is off by two.
requiresApprovalLate(mode, riskLevel, class) ==
    \/ mode = "approval_gated_mutation"
    \/ riskLevel > 5
    \/ class # "no_adapter_dispatch"

preflightRequiresApproval(mode, riskLevel, class) ==
    \/ mode = "approval_gated_mutation"
    \/ riskLevel >= 4
    \/ class # "no_adapter_dispatch"

requiresRollback(mode, riskLevel, class) ==
    preflightRequiresApproval(mode, riskLevel, class)

\* What the effective values have to satisfy together.
normalizeAdapterInvocationPreflight(e) ==
    LET mode == e.requested_control_mode.text
        risk == e.risk_level.number
        class == e.adapter_class.text
    IN  /\ preflightRequiresApproval(mode, risk, class) => Count(e, "approval_refs") > 0
        /\ PlansEveryEvent(e, "audit_event_plan", "event_type")
        /\ requiresRollback(mode, risk, class) => Count(e, "rollback_expectations") > 0
        /\ mode # "forbidden_mutation"

createAdapterInvocationPreflight(request) ==
    Reviewed(preflightContract, request, normalizeAdapterInvocationPreflight)

-----------------------------------------------------------------------------
\* packages/packets/src/adapter-invocation-result.ts: what an adapter
\* invocation is said to have come to.  Unlike the preflight, a result may
\* name any control mode and plans no audit events of its own: it cites
\* those that were recorded.

\* Every predicate refuses secrets and named authority.
resultSafeRef == Refs \ {"secret", "unsafe"}
resultSafeString == Strings \ {"secret", "unsafe"}

normalizeResultIdentity ==
    Identity("result_ref", "result_name", resultSafeRef, resultSafeString)

normalizeResultPreflightRefs ==
    Items(EvidenceOf("preflight_ref", "adapter-invocation-preflight", resultSafeRef, resultSafeString,
                     {"secret", "unsafe"}), 1)

normalizeResultAdapterIdentity ==
    Identity("adapter_ref", "adapter_name", resultSafeRef, resultSafeString)

normalizeResultAdapterClass == Text(adapterClasses)

normalizeResultActor == Actor(resultSafeRef, {})

normalizeResultCapability == Text(resultSafeRef)

normalizeResultRiskLevel == Level

normalizeResultSubstrateKind == Text(substrateKinds)

normalizeResultControlMode == Text(controlModes)

normalizeResultExpectedResultRefs ==
    Items(Object([result_ref |-> Text(resultSafeRef), evidence_ref |-> Text(resultSafeRef),
                  summary |-> Text(resultSafeString)], {"secret", "unsafe"}), 1)

normalizeResultRefStringArray == SomeOf(resultSafeRef)

normalizeResultRollbackRefs ==
    Items(RollbackExpectation(resultSafeRef, normalizeResultRefStringArray, {"secret", "unsafe"}), 0)

resultAuditEventRef ==
    Object([audit_ref |-> Text(resultSafeRef), event_type |-> Text(auditEventTypes),
            evidence_ref |-> Text(resultSafeRef), summary |-> Text(resultSafeString)], {"secret", "unsafe"})

normalizeResultAuditEventRefs == AuditPlan(resultAuditEventRef, "event_type", 1)

normalizeResultPolicyGateRefs ==
    Items(PolicyGate(resultSafeRef, resultSafeRef, {"secret", "unsafe"}), 1)

normalizeResultApprovalRefs == Approvals(Approval(resultSafeRef, {"secret"}), 0)

normalizeObservedStatus == Text(resultStatuses \ {"approved"})

normalizeEvidenceRefs ==
    Items(Object([evidence_ref |-> Text(resultSafeRef), summary |-> Text(resultSafeString)],
                 {"secret", "unsafe"}), 0)

normalizeResultSourceRefs ==
    Told(Items(SourceRef(resultSafeRef, resultSafeString, {"secret"}), 1), {"source_ref", "summary"})

normalizeResultSafeStrings == EveryOf(resultSafeString, 1)

\* The keys a request may hold, with what is asked of each.
resultRequestFields ==
    [result_identity |-> normalizeResultIdentity,
     adapter_invocation_preflight_refs |-> normalizeResultPreflightRefs,
     adapter_identity |-> normalizeResultAdapterIdentity, adapter_class |-> normalizeResultAdapterClass,
     requested_actor |-> normalizeResultActor, capability |-> normalizeResultCapability,
     risk_level |-> normalizeResultRiskLevel, target_substrate_kind |-> normalizeResultSubstrateKind,
     requested_control_mode |-> normalizeResultControlMode,
     expected_result_refs |-> normalizeResultExpectedResultRefs,
     rollback_refs |-> normalizeResultRollbackRefs, audit_event_refs |-> normalizeResultAuditEventRefs,
     policy_gate_refs |-> normalizeResultPolicyGateRefs, approval_refs |-> normalizeResultApprovalRefs,
     observed_status |-> normalizeObservedStatus,
     output_evidence_refs |-> normalizeEvidenceRefs,
     error_evidence_refs |-> normalizeEvidenceRefs, source_refs |-> normalizeResultSourceRefs,
     denied_live_behavior |-> normalizeResultSafeStrings,
     result_authority |-> Text({"result_evidence_only_no_execution"})]

defaultAdapterInvocationResult ==
    [risk_level |-> N(5), target_substrate_kind |-> T("services"),
     requested_control_mode |-> T("approval_gated_mutation"),
     adapter_class |-> T("service_control_adapter"), observed_status |-> T("completed")]

resultContract ==
    Contract(resultRequestFields, defaultAdapterInvocationResult, LiveFlags)

resultRequiresApproval(mode, riskLevel, class) ==
    \/ mode = "approval_gated_mutation"
    \/ riskLevel >= 4
    \/ class # "no_adapter_dispatch"

\* What the effective values have to satisfy together.
normalizeAdapterInvocationResult(e) ==
    LET status == e.observed_status.text
    IN  /\ resultRequiresApproval(e.requested_control_mode.text, e.risk_level.number,
                            e.adapter_class.text) => Count(e, "approval_refs") > 0
        /\ Count(e, "output_evidence_refs") > 0 \/ Count(e, "error_evidence_refs") > 0
        /\ status = "completed" => Count(e, "output_evidence_refs") > 0
        /\ status \in {"failed", "denied", "rolled_back"} => Count(e, "error_evidence_refs") > 0
        /\ status \in {"failed", "rolled_back"} => Count(e, "rollback_refs") > 0

createAdapterInvocationResult(request) ==
    Reviewed(resultContract, request, normalizeAdapterInvocationResult)

-----------------------------------------------------------------------------
\* packages/packets/src/adapter-invocation-authorization-bundle.ts: the
\* references that together would authorise one adapter invocation, and a
\* statement that they agree.

\* safeRef, safeString and safePolicyGate refuse secrets only; named authority is
\* refused where a whole item is scanned, and in the capability.
bundleSafeRef == Refs \ {"secret"}
bundleSafeString == Strings \ {"secret"}
safeCapability == Refs \ {"secret", "unsafe"}

normalizeBundleIdentity ==
    Identity("bundle_ref", "bundle_name", bundleSafeRef, bundleSafeString)

normalizeBundleActor == Actor(bundleSafeRef, {})

normalizeBundleCapability == Text(safeCapability)

normalizeBundleRiskLevel == Level

normalizeBundleSubstrateKind == Text(substrateKinds)

normalizeBundleControlMode == Text(controlModes)

normalizeContractRefs(ref, id) ==
    Items(EvidenceOf(ref, id, bundleSafeRef, bundleSafeString, {"secret", "unsafe"}), 1)

normalizeBundleSubstrateIntentRefs ==
    normalizeContractRefs("intent_ref", "substrate-control-intent")

normalizeBundleBrokerRequestRefs ==
    normalizeContractRefs("request_ref", "capability-broker-request")

normalizeBundleManifestRefs ==
    normalizeContractRefs("manifest_ref", "substrate-adapter-manifest")

normalizeBundlePreflightRefs ==
    normalizeContractRefs("preflight_ref", "adapter-invocation-preflight")

normalizeBundleExpectedResultRefs ==
    Items(Object([result_ref |-> Text(bundleSafeRef), evidence_ref |-> Text(bundleSafeRef),
                  summary |-> Text(bundleSafeString)], {"secret", "unsafe"}), 1)

normalizeStringRefs == SomeOf(bundleSafeRef)

normalizeBundleRollbackRefs ==
    Items(RollbackExpectation(bundleSafeRef, normalizeStringRefs, {"secret", "unsafe"}), 1)

normalizeBundlePolicyGateRefs == Items(PolicyGate(bundleSafeRef, bundleSafeRef, {}), 1)

normalizeBundleApprovalRefs == Approvals(Approval(bundleSafeRef, {}), 1)

bundleAuditEventRef ==
    Object([audit_ref |-> Text(bundleSafeRef), event_type |-> Text(auditEventTypes),
            evidence_ref |-> Text(bundleSafeRef), summary |-> Text(bundleSafeString)], {"secret", "unsafe"})

normalizeBundleAuditEventRefs == AuditPlan(bundleAuditEventRef, "event_type", 1)

normalizeBundleSourceRefs ==
    Told(Items(SourceRef(bundleSafeRef, bundleSafeString, {"secret", "unsafe"}), 1), {"source_ref"})

\* A part that is missing or does not fit is replaced without an error.
normalizeConsistency ==
    Object([actor_ref |-> Lenient(Text(bundleSafeRef), T("default")),
            capability |-> Lenient(Text(safeCapability), T("default")),
            risk_level |-> Lenient(Level, N(5)),
            target_substrate_kind |-> Lenient(Text(substrateKinds), T("services")),
            requested_control_mode |->
                Lenient(Text(controlModes), T("approval_gated_mutation")),
            evidence_refs |-> normalizeStringRefs], {"secret", "unsafe"})

normalizeBundleSafeStrings == EveryOf(bundleSafeString \ {"unsafe"}, 1)

\* The keys a request may hold, with what is asked of each.
bundleRequestFields ==
    [bundle_identity |-> normalizeBundleIdentity, requested_actor |-> normalizeBundleActor,
     capability |-> normalizeBundleCapability, risk_level |-> normalizeBundleRiskLevel,
     target_substrate_kind |-> normalizeBundleSubstrateKind,
     requested_control_mode |-> normalizeBundleControlMode,
     substrate_control_intent_refs |-> normalizeBundleSubstrateIntentRefs,
     capability_broker_request_refs |-> normalizeBundleBrokerRequestRefs,
     substrate_adapter_manifest_refs |-> normalizeBundleManifestRefs,
     adapter_invocation_preflight_refs |-> normalizeBundlePreflightRefs,
     expected_result_refs |-> normalizeBundleExpectedResultRefs,
     rollback_refs |-> normalizeBundleRollbackRefs, policy_gate_refs |-> normalizeBundlePolicyGateRefs,
     approval_refs |-> normalizeBundleApprovalRefs, audit_event_refs |-> normalizeBundleAuditEventRefs,
     source_refs |-> normalizeBundleSourceRefs, cross_ref_consistency |-> normalizeConsistency,
     denied_live_behavior |-> normalizeBundleSafeStrings,
     authorization_authority |-> Text({"authorization_bundle_only_no_invocation"})]

defaultAdapterInvocationAuthorizationBundle ==
    [risk_level |-> N(5), target_substrate_kind |-> T("services"),
     requested_control_mode |-> T("approval_gated_mutation")]

bundleContract ==
    Contract(bundleRequestFields, defaultAdapterInvocationAuthorizationBundle, LiveFlags)

checkConsistency(e) ==
    LET stated == e.cross_ref_consistency.parts
    IN  /\ stated.actor_ref = e.requested_actor.parts.actor_ref
        /\ stated.capability = e.capability
        /\ stated.risk_level = e.risk_level
        /\ stated.target_substrate_kind = e.target_substrate_kind
        /\ stated.requested_control_mode = e.requested_control_mode

\* Nothing is asked of the control mode itself.
normalizeAdapterInvocationAuthorizationBundle(e) == checkConsistency(e)

createAdapterInvocationAuthorizationBundle(request) ==
    Reviewed(bundleContract, request, normalizeAdapterInvocationAuthorizationBundle)

==============================================================================
