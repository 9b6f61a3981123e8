------------------------ MODULE RuntimeAdapterReadinessGate ------------------------
(***************************************************************************)
(* packages/packets/src/runtime-adapter-readiness-gate.ts: the bundle's    *)
(* review once more, with a reference to an authorization bundle and a     *)
(* flag for dispatch.  Its normalisers repeat the bundle's text.           *)
(***************************************************************************)
EXTENDS ControlVocabulary

Invocation == INSTANCE AdapterInvocation

safeRef == Refs \ {"secret"}
safeString == Strings \ {"secret"}

normalizeBundleIdentity == Identity("readiness_ref", "readiness_name", safeRef, safeString)

normalizeActor == Invocation!normalizeBundleActor

normalizeContractRefs(ref, id) == Invocation!normalizeContractRefs(ref, id)

normalizeAuthorizationBundleRefs ==
    normalizeContractRefs("bundle_ref", "adapter-invocation-authorization-bundle")

normalizeExpectedResultRefs == Invocation!normalizeBundleExpectedResultRefs

normalizeRollbackRefs == Invocation!normalizeBundleRollbackRefs

normalizePolicyGateRefs == Invocation!normalizeBundlePolicyGateRefs

normalizeApprovalRefs == Invocation!normalizeBundleApprovalRefs

normalizeAuditEventRefs == Invocation!normalizeBundleAuditEventRefs

normalizeSourceRefs == Invocation!normalizeBundleSourceRefs

normalizeConsistency == Invocation!normalizeConsistency

normalizeSafeStrings == Invocation!normalizeBundleSafeStrings

\* The keys a request may hold, with what is asked of each.
requestFields ==
    [readiness_identity |-> normalizeBundleIdentity, requested_actor |-> normalizeActor,
     capability |-> Invocation!normalizeBundleCapability, risk_level |-> Level,
     target_substrate_kind |-> Text(substrateKinds),
     requested_control_mode |-> Text(controlModes),
     substrate_control_intent_refs |->
        normalizeContractRefs("intent_ref", "substrate-control-intent"),
     capability_broker_request_refs |->
        normalizeContractRefs("request_ref", "capability-broker-request"),
     substrate_adapter_manifest_refs |->
        normalizeContractRefs("manifest_ref", "substrate-adapter-manifest"),
     adapter_invocation_preflight_refs |->
        normalizeContractRefs("preflight_ref", "adapter-invocation-preflight"),
     expected_result_refs |-> normalizeExpectedResultRefs,
     adapter_invocation_authorization_bundle_refs |-> normalizeAuthorizationBundleRefs,
     rollback_refs |-> normalizeRollbackRefs, policy_gate_refs |-> normalizePolicyGateRefs,
     approval_refs |-> normalizeApprovalRefs, audit_event_refs |-> normalizeAuditEventRefs,
     source_refs |-> normalizeSourceRefs, cross_ref_consistency |-> normalizeConsistency,
     denied_live_behavior |-> normalizeSafeStrings,
     readiness_authority |-> Text({"readiness_gate_only_no_runtime_invocation"})]

defaultRuntimeAdapterReadinessGate ==
    [risk_level |-> N(5), target_substrate_kind |-> T("services"),
     requested_control_mode |-> T("approval_gated_mutation")]

contract ==
    Contract(requestFields, defaultRuntimeAdapterReadinessGate,
             LiveFlags \cup {"runtime_adapter_dispatch_allowed"})

checkConsistency(e) == Invocation!checkConsistency(e)

normalizeRuntimeAdapterReadinessGate(e) == checkConsistency(e)

createRuntimeAdapterReadinessGate(request) ==
    Reviewed(contract, request, normalizeRuntimeAdapterReadinessGate)

====================================================================================
