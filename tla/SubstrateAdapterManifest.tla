-------------------------- MODULE SubstrateAdapterManifest --------------------------
(***************************************************************************)
(* packages/packets/src/substrate-adapter-manifest.ts: what an adapter     *)
(* would control, in which modes, on which evidence.                       *)
(***************************************************************************)
EXTENDS ControlVocabulary

\* Every predicate refuses secrets and named authority.
safeRef == Refs \ {"secret", "unsafe"}
safeString == Strings \ {"secret", "unsafe"}

normalizeAdapterIdentity == Identity("adapter_ref", "adapter_name", safeRef, safeString)

normalizeAdapterClass == Text(adapterClasses)

normalizeSubstrateKinds == EveryOf(substrateKinds, 1)

normalizeControlModes == EveryOf(controlModes, 1)

capabilityRef ==
    Object([capability_ref |-> Text(safeRef), capability |-> Text(safeRef),
            evidence_ref |-> Text(safeRef), summary |-> Text(safeString)], {"secret", "unsafe"})

normalizeCapabilityRefs == Items(capabilityRef, 1)

inputEvidenceRef ==
    Object([evidence_ref |-> Text(safeRef),
            contract_id |-> Text({"substrate-control-intent", "capability-broker-request"}),
            summary |-> Text(safeString)], {"secret"})

normalizeInputEvidenceRefs ==
    List(inputEvidenceRef, 1, Each(inputEvidenceRef, "contract_id",
             <<"substrate-control-intent", "capability-broker-request">>))

normalizeSourceRefs ==
    Told(Items(SourceRef(safeRef, safeString, {"secret"}), 1), {"source_ref", "summary"})

normalizePolicyGateRefs == Items(PolicyGate(safeRef, safeRef, {"secret", "unsafe"}), 1)

normalizeApprovalRefs == Approvals(Approval(safeRef, {"secret"}), 0)

normalizeAuditEventPlan == AuditPlan(AuditEvent, "event_type", 0)

normalizeRefStringArray == SomeOf(safeRef)

normalizeResultExpectations ==
    ResultExpectation(safeRef, SomeOf(resultStatuses), normalizeRefStringArray, safeString,
                      {"secret", "unsafe"})

normalizeRollbackExpectations ==
    Items(RollbackExpectation(safeRef, normalizeRefStringArray, {"secret", "unsafe"}), 0)

normalizeSafeStrings == EveryOf(safeString, 1)

\* The keys a request may hold, with what is asked of each.
requestFields ==
    [adapter_identity |-> normalizeAdapterIdentity, adapter_class |-> normalizeAdapterClass,
     supported_substrate_kinds |-> normalizeSubstrateKinds,
     supported_control_modes |-> normalizeControlModes,
     accepted_capability_refs |-> normalizeCapabilityRefs,
     required_input_evidence_refs |-> normalizeInputEvidenceRefs,
     source_refs |-> normalizeSourceRefs, policy_gate_refs |-> normalizePolicyGateRefs,
     approval_refs |-> normalizeApprovalRefs, audit_event_plan |-> normalizeAuditEventPlan,
     result_expectations |-> normalizeResultExpectations,
     rollback_expectations |-> normalizeRollbackExpectations,
     denied_adapter_behavior |-> normalizeSafeStrings,
     denied_live_behavior |-> normalizeSafeStrings]

defaultSubstrateAdapterManifest ==
    [adapter_class |-> T("service_control_adapter"),
     supported_substrate_kinds |-> L(<<T("services")>>),
     supported_control_modes |->
         L(<<T("observation"), T("proposal"), T("approval_gated_mutation")>>)]

contract ==
    Contract(requestFields, defaultSubstrateAdapterManifest, LiveFlags)

requiresApproval(modes, class) ==
    "approval_gated_mutation" \in modes \/ class # "no_adapter_dispatch"

\* A repository adapter is not among the classes that demand a way back.
requiresRollback(modes, class) ==
    \/ "approval_gated_mutation" \in modes
    \/ class \notin {"no_adapter_dispatch", "repo_control_adapter"}

\* What the effective values have to satisfy together.
normalizeSubstrateAdapterManifest(e) ==
    LET modes == TextsOfLeaf(e.supported_control_modes)
        class == e.adapter_class.text
    IN  /\ requiresApproval(modes, class) => Count(e, "approval_refs") > 0
        /\ PlansEveryEvent(e, "audit_event_plan", "event_type")
        /\ requiresRollback(modes, class) => Count(e, "rollback_expectations") > 0
        /\ "forbidden_mutation" \notin modes

createSubstrateAdapterManifest(request) ==
    Reviewed(contract, request, normalizeSubstrateAdapterManifest)

=====================================================================================
