------------------ MODULE KnowledgePersistenceImplementationPacket ------------------
(***************************************************************************)
(* packages/packets/src/knowledge-persistence-implementation-packet.ts,    *)
(* gate G09: the packet that would implement the storage of knowledge.     *)
(* Its identity is checked, and the evidence states the packet's own       *)
(* whatever the request said in it.                                        *)
(***************************************************************************)
EXTENDS PersistenceVocabulary

knowledgePersistenceImplementationTargetGate == "G09_IMPLEMENTATION_PACKET"

knowledgePersistenceImplementationArtifactKinds ==
    <<"knowledge_source_ref", "source_snapshot_ref", "knowledge_record_ref",
      "knowledge_chunk_ref", "context_bundle_ref", "eval_evidence_ref">>

knowledgePersistenceImplementationPolicyPrerequisiteKinds ==
    <<"bp0202_gate_order_review_ref", "bp0203_persistence_policy_gate_ref",
      "bp0204_schema_contract_ref", "bp0212_persistence_readiness_ref", "bp0213_selection_ref">>

knowledgePersistenceImplementationApprovalPrerequisiteKinds ==
    <<"source_only_packet_review_ref", "no_live_scope_request_ref", "no_write_scope_request_ref">>

knowledgePersistenceImplementationAuditObligationKinds ==
    <<"implementation_packet_reviewed", "future_persist_request_denied_until_approved",
      "future_knowledge_write_audit_required", "future_rollback_audit_required">>

knowledgePersistenceImplementationRollbackKinds ==
    <<"remove_source_contract_artifacts", "restore_bp0213_handoff", "disable_future_writer_path">>

knowledgePersistenceImplementationValidationKinds ==
    <<"packet_contract_tests", "packet_typecheck", "web_management_packet_tests", "docs_check",
      "format_check", "full_workspace_check">>

knowledgePersistenceImplementationBlockedCapabilityFlags ==
    {"database_connection_allowed", "database_write_allowed", "sql_artifact_allowed",
     "sql_execution_allowed", "ddl_artifact_allowed", "ddl_execution_allowed",
     "role_grant_mutation_allowed", "grant_application_allowed", "migration_execution_allowed",
     "migration_runner_allowed", "writer_implementation_allowed", "persisted_storage_allowed",
     "knowledge_record_write_allowed", "source_snapshot_capture_allowed",
     "chunk_persistence_allowed", "context_bundle_persistence_allowed",
     "eval_run_persistence_allowed", "embedding_generation_allowed",
     "vector_db_runtime_allowed", "queue_mutation_allowed", "approval_request_creation_allowed",
     "approval_persistence_allowed", "approval_mutation_allowed",
     "approval_state_transition_allowed", "audit_write_allowed", "audit_mutation_allowed",
     "auth_session_runtime_allowed", "auth_provider_wiring_allowed",
     "credential_storage_allowed", "integration_setup_write_allowed",
     "runtime_dispatcher_allowed", "runtime_adapter_implementation_allowed",
     "live_broker_dispatch_allowed", "live_adapter_invocation_allowed",
     "live_execution_allowed", "deploy_allowed", "git_mutation_allowed", "ssh_allowed",
     "docker_runner_allowed", "node_agent_allowed", "dns_cloudflare_mutation_allowed",
     "python_runtime_required", "os_specific_binary_required", "os_connector_package_allowed",
     "external_service_call_allowed", "secret_values_allowed"}

sourceDocs ==
    <<"product-direction", "ROADMAP", "PERSISTENCE_AND_POLICY_GATE_REVIEW",
      "PERSISTENCE_SCHEMA_PLAN", "BP-0182", "BP-0183", "BP-0184", "BP-0188",
      "CONTRACT_PROVENANCE">>

normalizeRepoRef == Text(Strings \ {"secret"})
normalizeRef == Text(Refs \ {"secret"})
normalizeContractOrSourceRef == Text(Strings \ {"secret"})
normalizeNamedCommandRef == Text(Refs \ {"secret"})
normalizeEntityNames == EveryOf(Range(persistenceSchemaEntityNames), 1)
normalizeGateRefs == EveryOf(Range(persistencePolicyGateIds), 1)

normalizeGateSequence == GatesInOrder

normalizeIdentity ==
    Entry([packet_ref |-> Is("BP-0214"), selected_by_packet_ref |-> Is("BP-0213"),
           candidate_ref |-> Is("candidate:knowledge_persistence_records_snapshots"),
           target_gate |-> Is(knowledgePersistenceImplementationTargetGate),
           implementation_mode |-> Is("source_contract_only"),
           mvp_value |-> Text(Strings \ {"secret"})])

defaultKnowledgePersistenceImplementationIdentity == PlainObject(normalizeIdentity)

KnowledgePersistenceFutureArtifactRefInput ==
    Entry([artifact_kind |-> Text(Range(knowledgePersistenceImplementationArtifactKinds)),
           artifact_ref |-> normalizeRef, entity_names |-> normalizeEntityNames,
           source_contract_ref |-> normalizeContractOrSourceRef,
           future_write_boundary |-> Text(Strings \ {"secret"}),
           current_state |-> Is("future_boundary_source_ref_only")]
          @@ Lowered({"persisted_storage_allowed", "writer_implementation_allowed",
                      "database_write_allowed", "live_execution_allowed"}))

defaultKnowledgePersistenceFutureArtifactRefs ==
    Each(KnowledgePersistenceFutureArtifactRefInput, "artifact_kind",
         knowledgePersistenceImplementationArtifactKinds)

normalizeFutureArtifactRefs ==
    OneOfEach("artifact_kind", knowledgePersistenceImplementationArtifactKinds,
              defaultKnowledgePersistenceFutureArtifactRefs,
              KnowledgePersistenceFutureArtifactRefInput)

KnowledgePersistencePolicyPrerequisiteRefInput ==
    Entry([prerequisite_kind |-> Text(Range(knowledgePersistenceImplementationPolicyPrerequisiteKinds)),
           prerequisite_ref |-> normalizeRepoRef, gate_refs |-> normalizeGateRefs,
           contract_ref |-> normalizeContractOrSourceRef,
           current_state |-> Is("source_ref_only_no_policy_mutation")]
          @@ Lowered({"approval_mutation_allowed", "live_execution_allowed"}))

defaultKnowledgePersistencePolicyPrerequisiteRefs ==
    Each(KnowledgePersistencePolicyPrerequisiteRefInput, "prerequisite_kind",
         knowledgePersistenceImplementationPolicyPrerequisiteKinds)

normalizePolicyPrerequisiteRefs ==
    OneOfEach("prerequisite_kind", knowledgePersistenceImplementationPolicyPrerequisiteKinds,
              defaultKnowledgePersistencePolicyPrerequisiteRefs,
              KnowledgePersistencePolicyPrerequisiteRefInput)

KnowledgePersistenceApprovalPrerequisiteRefInput ==
    Entry([approval_kind |-> Text(Range(knowledgePersistenceImplementationApprovalPrerequisiteKinds)),
           approval_ref |-> normalizeRef, required_before_future_write |-> True,
           current_state |-> Is("source_ref_only_no_approval_request_created")]
          @@ Lowered({"approval_request_creation_allowed", "approval_mutation_allowed"}))

defaultKnowledgePersistenceApprovalPrerequisiteRefs ==
    Each(KnowledgePersistenceApprovalPrerequisiteRefInput, "approval_kind",
         knowledgePersistenceImplementationApprovalPrerequisiteKinds)

normalizeApprovalPrerequisiteRefs ==
    OneOfEach("approval_kind", knowledgePersistenceImplementationApprovalPrerequisiteKinds,
              defaultKnowledgePersistenceApprovalPrerequisiteRefs,
              KnowledgePersistenceApprovalPrerequisiteRefInput)

KnowledgePersistenceAuditObligationRefInput ==
    Entry([audit_kind |-> Text(Range(knowledgePersistenceImplementationAuditObligationKinds)),
           audit_ref |-> normalizeRef, required_before_future_write |-> True,
           current_state |-> Is("source_ref_only_no_audit_write")]
          @@ Lowered({"audit_write_allowed", "persisted_storage_allowed"}))

defaultKnowledgePersistenceAuditObligationRefs ==
    Each(KnowledgePersistenceAuditObligationRefInput, "audit_kind",
         knowledgePersistenceImplementationAuditObligationKinds)

normalizeAuditObligationRefs ==
    OneOfEach("audit_kind", knowledgePersistenceImplementationAuditObligationKinds,
              defaultKnowledgePersistenceAuditObligationRefs, KnowledgePersistenceAuditObligationRefInput)

KnowledgePersistenceRollbackRefInput ==
    Entry([rollback_kind |-> Text(Range(knowledgePersistenceImplementationRollbackKinds)),
           rollback_ref |-> normalizeRef,
           current_state |-> Is("source_ref_only_no_rollback_execution")]
          @@ Lowered({"rollback_execution_allowed", "live_execution_allowed"}))

defaultKnowledgePersistenceRollbackRefs ==
    Each(KnowledgePersistenceRollbackRefInput, "rollback_kind", knowledgePersistenceImplementationRollbackKinds)

normalizeRollbackRefs ==
    OneOfEach("rollback_kind", knowledgePersistenceImplementationRollbackKinds,
              defaultKnowledgePersistenceRollbackRefs, KnowledgePersistenceRollbackRefInput)

KnowledgePersistenceValidationCommandRefInput ==
    Entry([validation_kind |-> Text(Range(knowledgePersistenceImplementationValidationKinds)),
           validation_ref |-> normalizeRef, command_ref |-> normalizeNamedCommandRef,
           current_state |-> Is("named_validation_only"), live_execution_allowed |-> False])

defaultKnowledgePersistenceValidationCommandRefs ==
    Each(KnowledgePersistenceValidationCommandRefInput, "validation_kind",
         knowledgePersistenceImplementationValidationKinds)

normalizeValidationCommandRefs ==
    OneOfEach("validation_kind", knowledgePersistenceImplementationValidationKinds,
              defaultKnowledgePersistenceValidationCommandRefs,
              KnowledgePersistenceValidationCommandRefInput)

\* A summary may be any text; what looks like a secret is refused everywhere.
normalizeSourceRefs == SourceRefs(Strings \ {"secret"}, Strings, sourceDocs, {})

defaultKnowledgePersistenceNoLivePosture ==
    Posture({},
            {"database_connection_allowed", "database_write_allowed", "sql_artifact_allowed",
             "sql_execution_allowed", "ddl_artifact_allowed", "ddl_execution_allowed",
             "role_grant_mutation_allowed", "grant_application_allowed",
             "migration_execution_allowed", "migration_runner_allowed",
             "writer_implementation_allowed", "persisted_storage_allowed",
             "knowledge_record_write_allowed", "source_snapshot_capture_allowed",
             "chunk_persistence_allowed", "context_bundle_persistence_allowed",
             "eval_run_persistence_allowed", "embedding_generation_allowed",
             "vector_db_runtime_allowed", "queue_mutation_allowed",
             "approval_request_creation_allowed", "approval_persistence_allowed",
             "approval_mutation_allowed", "approval_state_transition_allowed",
             "audit_write_allowed", "audit_mutation_allowed", "auth_session_runtime_allowed",
             "auth_provider_wiring_allowed", "credential_storage_allowed",
             "integration_setup_write_allowed", "runtime_dispatcher_allowed",
             "runtime_adapter_implementation_allowed", "live_broker_dispatch_allowed",
             "live_adapter_invocation_allowed", "live_execution_allowed", "deploy_allowed",
             "git_mutation_allowed", "ssh_allowed", "docker_runner_allowed",
             "node_agent_allowed", "dns_cloudflare_mutation_allowed", "python_runtime_required",
             "os_specific_binary_required", "os_connector_package_allowed",
             "external_service_call_allowed", "secret_values_allowed"})

normalizeNoLivePosture == defaultKnowledgePersistenceNoLivePosture

defaultKnowledgePersistenceAllowedState ==
    Entry(defaultKnowledgePersistenceNoLivePosture.parts
          @@ AllowedState({"source_only_implementation_packet_contract_allowed",
                           "implementation_packet_scope_refs_allowed",
                           "future_write_boundary_refs_allowed", "source_refs_allowed"}, {}).parts)

normalizeAllowedState == defaultKnowledgePersistenceAllowedState

requestFields ==
    [implementation_identity |-> normalizeIdentity, gate_sequence |-> normalizeGateSequence,
     future_artifact_refs |-> normalizeFutureArtifactRefs,
     policy_prerequisite_refs |-> normalizePolicyPrerequisiteRefs,
     approval_prerequisite_refs |-> normalizeApprovalPrerequisiteRefs,
     audit_obligation_refs |-> normalizeAuditObligationRefs,
     rollback_refs |-> normalizeRollbackRefs,
     validation_command_refs |-> normalizeValidationCommandRefs,
     source_refs |-> normalizeSourceRefs, no_live_posture |-> normalizeNoLivePosture,
     allowed_state |-> normalizeAllowedState,
     contract_authority |->
        Is("source_only_implementation_packet_contract_no_persistence_execution")]

contract == GateContractOf(requestFields, knowledgePersistenceImplementationBlockedCapabilityFlags)

containsUnsafeValue(request) == HoldsSecret(request)

normalizeKnowledgePersistenceImplementationPacket(request) ==
    IF containsUnsafeValue(request) THEN [ok |-> FALSE]
    ELSE Gated(contract, request, LAMBDA e : Tells(e, "source_refs", Range(sourceDocs)))

createKnowledgePersistenceImplementationPacket(request) ==
    OwnIdentity(normalizeKnowledgePersistenceImplementationPacket(request),
                "implementation_identity", defaultKnowledgePersistenceImplementationIdentity)

=====================================================================================
