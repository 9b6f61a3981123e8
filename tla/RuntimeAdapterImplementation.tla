-------------------- MODULE RuntimeAdapterImplementation --------------------
(***************************************************************************)
(* The contracts before a runtime adapter is written: its scope, its plan, *)
(* the request for authorization, the human approval and the evidence of a *)
(* dry run.                                                                *)
(***************************************************************************)
EXTENDS ControlVocabulary

-----------------------------------------------------------------------------
\* packages/packets/src/runtime-adapter-implementation-scope.ts: where a
\* later adapter implementation may live and what would have to be shown
\* for it.

\* safeRef, safeString, safePathRef, safeCapability and safePolicyGate alike.
scopeSafeRef == Refs \ {"secret", "unsafe"}
scopeSafeString == Strings \ {"secret", "unsafe"}

normalizeScopeIdentity ==
    LET identity == Identity("scope_ref", "scope_name", scopeSafeRef, scopeSafeString)
    IN  Object(identity.parts @@ [future_packet_ref |-> Text(scopeSafeRef)], {})

normalizeScopeReadinessRefs ==
    Items(EvidenceOf("readiness_ref", "runtime-adapter-readiness-gate",
                     scopeSafeRef, scopeSafeString, {"secret", "unsafe"}), 1)

normalizeScopeActor == Actor(scopeSafeRef, {})

normalizeScopeCapability == Text(scopeSafeRef)

normalizeScopeRiskLevel == Level

normalizeScopeSubstrateKind == Text(substrateKinds)

normalizeScopeControlMode == Text(controlModes)

normalizeScopeAdapterIdentity ==
    Identity("adapter_ref", "adapter_name", scopeSafeRef, scopeSafeString)

normalizeScopeAdapterClass == Text(adapterClasses)

\* Three texts per item; the whole item is scanned, so that a part that only has
\* to match a pattern is as clean as one that has to be safe.
normalizeTripleRefs(a, b, c, textsB, textsC) ==
    Items(Object((a :> Text(Refs)) @@ (b :> Text(textsB)) @@ (c :> Text(textsC)),
                 {"secret", "unsafe"}), 1)

normalizeBoundaries ==
    normalizeTripleRefs("boundary_ref", "rule", "evidence_ref", scopeSafeString, Refs)

normalizeSourceZones ==
    normalizeTripleRefs("zone_ref", "path_ref", "summary", scopeSafeRef, scopeSafeString)

normalizeTests ==
    normalizeTripleRefs("test_ref", "evidence_ref", "summary", Refs, scopeSafeString)

normalizeDryRuns ==
    normalizeTripleRefs("dry_run_ref", "expected_artifact_ref", "summary", Refs, scopeSafeString)

normalizeStringRefs == SomeOf(scopeSafeRef)

normalizeScopeRollbackRefs ==
    Items(RollbackExpectation(scopeSafeRef, normalizeStringRefs, {"secret", "unsafe"}), 1)

normalizeScopePolicyGateRefs ==
    Items(PolicyGate(scopeSafeRef, scopeSafeRef, {"secret", "unsafe"}), 1)

normalizeScopeApprovalRefs == Approvals(Approval(scopeSafeRef, {"secret", "unsafe"}), 1)

normalizeScopeAuditEventRefs ==
    AuditPlan(Object([audit_ref |-> Text(scopeSafeRef), event_type |-> Text(auditEventTypes),
                      evidence_ref |-> Text(scopeSafeRef), summary |-> Text(scopeSafeString)],
                     {"secret", "unsafe"}), "event_type", 1)

\* The only contract of the chain that also takes a source reference as bare text.
normalizeScopeSourceRefs ==
    Told(OrBare(Items(SourceRef(scopeSafeRef, scopeSafeString, {"secret", "unsafe"}), 1), scopeSafeRef),
         {"source_ref"})

\* The keys a request may hold, with what is asked of each.
scopeRequestFields ==
    [scope_identity |-> normalizeScopeIdentity,
     runtime_adapter_readiness_gate_refs |-> normalizeScopeReadinessRefs,
     requested_actor |-> normalizeScopeActor, capability |-> normalizeScopeCapability,
     risk_level |-> normalizeScopeRiskLevel, target_substrate_kind |-> normalizeScopeSubstrateKind,
     requested_control_mode |-> normalizeScopeControlMode,
     adapter_identity |-> normalizeScopeAdapterIdentity, adapter_class |-> normalizeScopeAdapterClass,
     implementation_boundaries |-> normalizeBoundaries,
     allowed_source_zones |-> normalizeSourceZones, required_tests |-> normalizeTests,
     dry_run_expectations |-> normalizeDryRuns, rollback_refs |-> normalizeScopeRollbackRefs,
     policy_gate_refs |-> normalizeScopePolicyGateRefs, approval_refs |-> normalizeScopeApprovalRefs,
     audit_event_refs |-> normalizeScopeAuditEventRefs, source_refs |-> normalizeScopeSourceRefs,
     implementation_authority |-> Text({"implementation_scope_only_no_runtime_adapter"})]

defaultRuntimeAdapterImplementationScope ==
    [risk_level |-> N(5), target_substrate_kind |-> T("services"),
     requested_control_mode |-> T("approval_gated_mutation"),
     adapter_class |-> T("service_control_adapter")]

scopeContract ==
    Contract(scopeRequestFields, defaultRuntimeAdapterImplementationScope,
             LiveFlags \cup {"runtime_adapter_implementation_allowed",
                             "runtime_adapter_dispatch_allowed"})

\* Every list of the request has an item.
normalizeRuntimeAdapterImplementationScope(e) == NoEmptyList(e)

createRuntimeAdapterImplementationScope(request) ==
    Reviewed(scopeContract, request, normalizeRuntimeAdapterImplementationScope)

-----------------------------------------------------------------------------
\* packages/packets/src/runtime-adapter-implementation-plan.ts: the files,
\* steps, validation and dry run that a later implementation would take.

planSafeRef == Refs \ {"secret", "unsafe"}
planSafeString == Strings \ {"secret", "unsafe", "command"}
Scanned == {"secret", "unsafe"}
ScannedForCommands == {"secret", "unsafe", "command"}

normalizeIdentity ==
    LET identity == Identity("plan_ref", "plan_name", planSafeRef, planSafeString)
    IN  Object(identity.parts @@ [future_packet_ref |-> Text(planSafeRef)], {})

normalizePlanScopeRefs ==
    Items(EvidenceOf("scope_ref", "runtime-adapter-implementation-scope",
                     planSafeRef, planSafeString, Scanned), 0)

normalizePlanReadinessRefs ==
    Items(EvidenceOf("readiness_ref", "runtime-adapter-readiness-gate",
                     planSafeRef, planSafeString, Scanned), 0)

normalizePlanActor == Actor(planSafeRef, {})

normalizePlanCapability == Text(planSafeRef)

normalizePlanRiskLevel == Level

normalizePlanSubstrateKind == Text(substrateKinds)

normalizePlanControlMode == Text(controlModes)

normalizePlanAdapterIdentity ==
    Identity("adapter_ref", "adapter_name", planSafeRef, planSafeString)

normalizePlanAdapterClass == Text(adapterClasses)

normalizePlanPlannedFiles ==
    Items(PlannedFile(planSafeRef, Refs, planSafeString, Scanned), 0)

normalizeStepLike == ImplementationStep(planSafeRef, planSafeString, ScannedForCommands)

normalizePlanImplementationSteps == Items(normalizeStepLike, 0)

normalizePlanValidationCommands ==
    Items(ValidationCommand(planSafeRef, planSafeString, ScannedForCommands), 0)

normalizePlanDryRunPlan == Items(DryRun(planSafeRef, planSafeString, ScannedForCommands), 0)

normalizePlanRollbackRefs ==
    Items(RollbackExpectation(planSafeRef, EveryOf(planSafeRef, 1), Scanned), 0)

normalizePlanPolicyGateRefs == Items(PolicyGate(planSafeRef, planSafeRef, {}), 0)

normalizePlanApprovalRefs == Approvals(Approval(planSafeRef, {}), 0)

normalizePlanAuditEventRefs ==
    AuditPlan(AuditRef(planSafeRef, planSafeString, {}), "event_type", 0)

normalizePlanSourceRefs ==
    Told(Items(SourceRef(planSafeRef, planSafeString, ScannedForCommands), 0), {"source_ref"})

\* The keys a request may hold, with what is asked of each.
planRequestFields ==
    [plan_identity |-> normalizeIdentity,
     runtime_adapter_implementation_scope_refs |-> normalizePlanScopeRefs,
     runtime_adapter_readiness_gate_refs |-> normalizePlanReadinessRefs,
     requested_actor |-> normalizePlanActor, capability |-> normalizePlanCapability,
     risk_level |-> normalizePlanRiskLevel, target_substrate_kind |-> normalizePlanSubstrateKind,
     requested_control_mode |-> normalizePlanControlMode,
     adapter_identity |-> normalizePlanAdapterIdentity, adapter_class |-> normalizePlanAdapterClass,
     planned_files_modules |-> normalizePlanPlannedFiles,
     implementation_steps |-> normalizePlanImplementationSteps,
     validation_commands |-> normalizePlanValidationCommands, dry_run_plan |-> normalizePlanDryRunPlan,
     rollback_refs |-> normalizePlanRollbackRefs, policy_gate_refs |-> normalizePlanPolicyGateRefs,
     approval_refs |-> normalizePlanApprovalRefs, audit_event_refs |-> normalizePlanAuditEventRefs,
     source_refs |-> normalizePlanSourceRefs,
     implementation_plan_authority |-> Text({"implementation_plan_only_no_runtime_adapter"})]

defaultRuntimeAdapterImplementationPlan ==
    [risk_level |-> N(5), target_substrate_kind |-> T("services"),
     requested_control_mode |-> T("approval_gated_mutation"),
     adapter_class |-> T("service_control_adapter")]

planContract ==
    Contract(planRequestFields, defaultRuntimeAdapterImplementationPlan, RuntimeFlags)

\* Every list of the request has an item.
planAddRequiredArrayErrors(e) == NoEmptyList(e)

createRuntimeAdapterImplementationPlan(request) ==
    Reviewed(planContract, request, planAddRequiredArrayErrors)

-----------------------------------------------------------------------------
\* packages/packets/src/runtime-adapter-implementation-authorization-
\* request.ts: the request to implement what a plan describes.

normalizeAuthorizationChainReviewRefs ==
    Items(Open(PacketReview("chain_review_ref", "packet:BP-0149", safeRefValue, safeStringValue)), 0)

authorizationEvidenceOf(ref, id) ==
    Items(Open(EvidenceOf(ref, id, safeRefValue, safeStringValue, {"secret"})), 0)

normalizeAuthorizationPlanRefs ==
    authorizationEvidenceOf("plan_ref", "runtime-adapter-implementation-plan")

normalizeAuthorizationScopeRefs ==
    authorizationEvidenceOf("scope_ref", "runtime-adapter-implementation-scope")

normalizeAuthorizationReadinessRefs ==
    authorizationEvidenceOf("readiness_ref", "runtime-adapter-readiness-gate")

normalizeAuthorizationActor == Open(Actor(safeRefValue, {}))

\* A capability is scanned for named authority only.
normalizeAuthorizationCapability == Text(Refs \ {"unsafe"})

normalizeAuthorizationRiskLevel == Level

normalizeAuthorizationSubstrateKind == Text(substrateKinds)

normalizeAuthorizationControlMode == Text(controlModes)

normalizeAuthorizationAdapterIdentity ==
    Open(Identity("adapter_ref", "adapter_name", safeRefValue, safeStringValue))

normalizeAuthorizationAdapterClass == Text(adapterClasses)

normalizeAuthorizationPlannedFiles ==
    Items(Open(PlannedFile(safeRefValue, safeRefValue, safeStringValue, {"secret"})), 0)

normalizeAuthorizationImplementationSteps ==
    Items(Open(ImplementationStep(safeRefValue, safeStringValue, {"secret", "unsafe"})), 0)

normalizeAuthorizationValidationCommands ==
    Items(Open(ValidationCommand(safeRefValue, safeStringValue,
                                 {"secret", "command", "unsafe"})), 0)

normalizeAuthorizationDryRunPlan ==
    Items(Open(DryRun(safeRefValue, safeStringValue, {"secret", "unsafe"})), 0)

normalizeAuthorizationRollbackRefs == Items(Open(LooseRollback(safeRefValue)), 0)

normalizeAuthorizationPolicyGateRefs ==
    Items(Open(PolicyGate(Refs, safeRefValue, {"secret"})), 0)

normalizeAuthorizationApprovalRefs == Approvals(Open(Approval(safeRefValue, {"secret"})), 0)

normalizeAuthorizationAuditEventRefs ==
    AuditPlan(Open(AuditRef(safeRefValue, safeStringValue, {"secret"})), "event_type", 0)

normalizeAuthorizationSourceRefs ==
    Told(Items(Open(SourceRef(safeRefValue, safeStringValue, {"secret", "command"})), 0),
         {"source_ref"})

normalizeAuthorizationFuturePacketRef ==
    Open(FuturePacket(safeRefValue, safeStringValue, {"secret", "unsafe"}))

\* The keys a request may hold, with what is asked of each.
authorizationRequestFields ==
    [chain_review_refs |-> normalizeAuthorizationChainReviewRefs,
     implementation_plan_refs |-> normalizeAuthorizationPlanRefs,
     runtime_adapter_implementation_scope_refs |-> normalizeAuthorizationScopeRefs,
     runtime_adapter_readiness_gate_refs |-> normalizeAuthorizationReadinessRefs,
     requested_actor |-> normalizeAuthorizationActor, capability |-> normalizeAuthorizationCapability,
     risk_level |-> normalizeAuthorizationRiskLevel, target_substrate_kind |-> normalizeAuthorizationSubstrateKind,
     requested_control_mode |-> normalizeAuthorizationControlMode,
     adapter_identity |-> normalizeAuthorizationAdapterIdentity, adapter_class |-> normalizeAuthorizationAdapterClass,
     planned_files_modules |-> normalizeAuthorizationPlannedFiles,
     implementation_steps |-> normalizeAuthorizationImplementationSteps,
     validation_commands |-> normalizeAuthorizationValidationCommands, dry_run_plan |-> normalizeAuthorizationDryRunPlan,
     rollback_refs |-> normalizeAuthorizationRollbackRefs, policy_gate_refs |-> normalizeAuthorizationPolicyGateRefs,
     approval_refs |-> normalizeAuthorizationApprovalRefs, audit_event_refs |-> normalizeAuthorizationAuditEventRefs,
     source_refs |-> normalizeAuthorizationSourceRefs,
     future_implementation_packet_ref |-> normalizeAuthorizationFuturePacketRef,
     implementation_authorization_request_authority |-> 
        Text({"implementation_authorization_request_only_no_runtime_adapter"})]

defaultRuntimeAdapterImplementationAuthorizationRequest ==
    [risk_level |-> N(5), target_substrate_kind |-> T("services"),
     requested_control_mode |-> T("approval_gated_mutation"),
     adapter_class |-> T("service_control_adapter")]

\* A request that states a flag is refused, whatever it states.
authorizationAddAuthorityErrors == [flags |-> {}, side_effects |-> {L(<<>>)}]

authorizationContract ==
    [Contract(authorizationRequestFields, defaultRuntimeAdapterImplementationAuthorizationRequest,
              RuntimeFlags) EXCEPT !.restated = authorizationAddAuthorityErrors]

\* Every list of the request has an item.
authorizationAddRequiredArrayErrors(e) == NoEmptyList(e)

createRuntimeAdapterImplementationAuthorizationRequest(request) ==
    Reviewed(authorizationContract, request, authorizationAddRequiredArrayErrors)

-----------------------------------------------------------------------------
\* packages/packets/src/runtime-adapter-implementation-approval-gate.ts:
\* the human approval of an authorization request.

normalizeApprovalGateChainReviewRefs ==
    Items(Open(PacketReview("chain_review_ref", "packet:BP-0155", safeRefValue, safeStringValue)), 0)

approvalGateEvidenceOf(ref, id) ==
    Items(Open(EvidenceOf(ref, id, safeRefValue, safeStringValue, {"secret"})), 0)

normalizeApprovalGateAuthorizationRequestRefs ==
    approvalGateEvidenceOf("authorization_request_ref", "runtime-adapter-implementation-authorization-request")

normalizeApprovalGatePlanRefs ==
    approvalGateEvidenceOf("plan_ref", "runtime-adapter-implementation-plan")

normalizeApprovalGateScopeRefs ==
    approvalGateEvidenceOf("scope_ref", "runtime-adapter-implementation-scope")

normalizeApprovalGateReadinessRefs ==
    approvalGateEvidenceOf("readiness_ref", "runtime-adapter-readiness-gate")

normalizeApprovalGatePolicyGateRefs ==
    Items(Open(PolicyGate(Refs, safeRefValue, {"secret", "unsafe"})), 0)

normalizeApprovalGateHumanApprovalRefs ==
    Items(Open(HumanApproval(safeRefValue, {"secret", "unsafe"})), 0)

normalizeApprovalGateAuditEventRefs ==
    AuditPlan(Open(AuditRef(safeRefValue, safeStringValue, {"secret", "command"})),
              "event_type", 0)

normalizeApprovalGateRollbackRefs == Items(Open(LooseRollback(safeRefValue)), 0)

normalizeApprovalGateSourceRefs ==
    Told(Items(Open(SourceRef(safeRefValue, safeStringValue, {"secret", "command"})), 0),
         {"source_ref"})

normalizeApprovalGateFuturePacketRef ==
    Open(FuturePacket(safeRefValue, safeStringValue, {"secret", "unsafe"}))

\* The keys a request may hold, with what is asked of each.
approvalGateRequestFields ==
    [chain_review_refs |-> normalizeApprovalGateChainReviewRefs,
     authorization_request_refs |-> normalizeApprovalGateAuthorizationRequestRefs,
     implementation_plan_refs |-> normalizeApprovalGatePlanRefs,
     runtime_adapter_implementation_scope_refs |-> normalizeApprovalGateScopeRefs,
     runtime_adapter_readiness_gate_refs |-> normalizeApprovalGateReadinessRefs,
     policy_gate_refs |-> normalizeApprovalGatePolicyGateRefs,
     human_approval_refs |-> normalizeApprovalGateHumanApprovalRefs,
     audit_event_refs |-> normalizeApprovalGateAuditEventRefs, rollback_refs |-> normalizeApprovalGateRollbackRefs,
     source_refs |-> normalizeApprovalGateSourceRefs,
     future_implementation_packet_ref |-> normalizeApprovalGateFuturePacketRef,
     implementation_approval_gate_authority |->
        Text({"implementation_approval_gate_only_no_runtime_adapter"})]

defaultRuntimeAdapterImplementationApprovalGate == NothingStated

\* A request that states a flag is refused, whatever it states.
approvalGateAddAuthorityErrors == [flags |-> {}, side_effects |-> {L(<<>>)}]

approvalGateContract ==
    [Contract(approvalGateRequestFields, defaultRuntimeAdapterImplementationApprovalGate, RuntimeFlags)
        EXCEPT !.restated = approvalGateAddAuthorityErrors]

\* Every list of the request has an item.
approvalGateAddRequiredArrayErrors(e) == NoEmptyList(e)

createRuntimeAdapterImplementationApprovalGate(request) ==
    Reviewed(approvalGateContract, request, approvalGateAddRequiredArrayErrors)

-----------------------------------------------------------------------------
\* packages/packets/src/runtime-adapter-implementation-dry-run-evidence.ts:
\* what a dry run of an approved plan would have to show.

\* References only have to match their pattern; every item is scanned for
\* secrets before its parts are read.
dryRunSafeRef == Refs
dryRunSafeString == Strings \ {"secret", "command"}

normalizeRefObjects(shape) == Items(Open(shape), 1)

normalizePacketSelectionRefs ==
    normalizeRefObjects(PacketReview("packet_selection_ref", "packet:BP-0162", dryRunSafeRef, dryRunSafeString))

normalizeDryRunChainReviewRefs ==
    normalizeRefObjects(PacketReview("chain_review_ref", "packet:BP-0161", dryRunSafeRef, dryRunSafeString))

dryRunEvidenceOf(ref, id) ==
    normalizeRefObjects(EvidenceOf(ref, id, dryRunSafeRef, dryRunSafeString, {"secret"}))

normalizeApprovalGateRefs ==
    dryRunEvidenceOf("approval_gate_ref", "runtime-adapter-implementation-approval-gate")

normalizeDryRunAuthorizationRequestRefs ==
    dryRunEvidenceOf("authorization_request_ref", "runtime-adapter-implementation-authorization-request")

normalizeDryRunPlanRefs ==
    dryRunEvidenceOf("plan_ref", "runtime-adapter-implementation-plan")

normalizeDryRunScopeRefs ==
    dryRunEvidenceOf("scope_ref", "runtime-adapter-implementation-scope")

normalizeDryRunReadinessRefs ==
    dryRunEvidenceOf("readiness_ref", "runtime-adapter-readiness-gate")

normalizeValidationCommandRefs ==
    normalizeRefObjects(ValidationCommand(dryRunSafeRef, dryRunSafeString, {"secret", "command"}))

normalizeDryRunArtifactRefs ==
    normalizeRefObjects(Object([artifact_ref |-> Text(dryRunSafeRef), evidence_ref |-> Text(dryRunSafeRef),
                                summary |-> Text(dryRunSafeString)], {"secret"}))

normalizeDryRunRollbackRefs == normalizeRefObjects(LooseRollback(dryRunSafeRef))

normalizeDryRunPolicyGateRefs ==
    normalizeRefObjects(PolicyGate(Refs, dryRunSafeRef, {"secret", "unsafe"}))

normalizeDryRunHumanApprovalRefs ==
    normalizeRefObjects(HumanApproval(dryRunSafeRef, {"secret", "unsafe"}))

normalizeDryRunAuditEventRefs ==
    AuditPlan(Open(AuditRef(dryRunSafeRef, dryRunSafeString, {"secret", "command"})), "event_type", 1)

normalizeDryRunSourceRefs ==
    Told(normalizeRefObjects(SourceRef(dryRunSafeRef, dryRunSafeString, {"secret", "command"})),
         {"source_ref"})

normalizeFuturePacketRefs ==
    normalizeRefObjects(FuturePacket(dryRunSafeRef, dryRunSafeString, {"secret", "unsafe", "command"}))

\* The keys a request may hold, with what is asked of each.
dryRunRequestFields ==
    [packet_selection_refs |-> normalizePacketSelectionRefs,
     approval_gate_chain_review_refs |-> normalizeDryRunChainReviewRefs,
     approval_gate_refs |-> normalizeApprovalGateRefs,
     authorization_request_refs |-> normalizeDryRunAuthorizationRequestRefs,
     implementation_plan_refs |-> normalizeDryRunPlanRefs,
     runtime_adapter_implementation_scope_refs |-> normalizeDryRunScopeRefs,
     runtime_adapter_readiness_gate_refs |-> normalizeDryRunReadinessRefs,
     validation_command_refs |-> normalizeValidationCommandRefs,
     dry_run_artifact_refs |-> normalizeDryRunArtifactRefs,
     rollback_refs |-> normalizeDryRunRollbackRefs, policy_gate_refs |-> normalizeDryRunPolicyGateRefs,
     human_approval_refs |-> normalizeDryRunHumanApprovalRefs,
     audit_event_refs |-> normalizeDryRunAuditEventRefs, source_refs |-> normalizeDryRunSourceRefs,
     future_implementation_packet_refs |-> normalizeFuturePacketRefs,
     implementation_dry_run_evidence_authority |->
        Text({"implementation_dry_run_evidence_only_no_runtime_adapter"})]

defaultRuntimeAdapterImplementationDryRunEvidence == NothingStated

\* A request that states a flag or side_effects is refused, whatever it states.
dryRunAddAuthorityErrors == [flags |-> {}, side_effects |-> {}]

dryRunContract ==
    [Contract(dryRunRequestFields, defaultRuntimeAdapterImplementationDryRunEvidence, RuntimeFlags)
        EXCEPT !.restated = dryRunAddAuthorityErrors]

\* Every list of the request has an item.
dryRunAddRequiredArrayErrors(e) == NoEmptyList(e)

createRuntimeAdapterImplementationDryRunEvidence(request) ==
    Reviewed(dryRunContract, request, dryRunAddRequiredArrayErrors)

==============================================================================
