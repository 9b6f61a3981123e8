------------------------ MODULE PersistedKnowledgeReadSurface ------------------------
(***************************************************************************)
(* packages/packets/src/persisted-knowledge-read-surface-contract.ts, gate *)
(* G09: the shapes of queries and results, their scopes and prerequisites, *)
(* before there is a query runner.                                         *)
(***************************************************************************)
EXTENDS PersistenceVocabulary

persistedKnowledgeReadSurfaceContractTargetGate == "G09_IMPLEMENTATION_PACKET"

persistedKnowledgeReadSurfaceQueryKinds ==
    <<"knowledge_source_query", "source_snapshot_query", "knowledge_record_query",
      "knowledge_chunk_query", "context_bundle_query", "eval_evidence_query", "citation_query",
      "tenant_project_scope_query">>

persistedKnowledgeReadSurfaceResultKinds ==
    <<"knowledge_source_result", "source_snapshot_result", "knowledge_record_result",
      "knowledge_chunk_result", "context_bundle_result", "eval_evidence_result",
      "citation_result", "scoped_empty_result">>

persistedKnowledgeReadSurfacePolicyPrerequisiteKinds ==
    <<"bp0214_implementation_packet_ref", "bp0212_persistence_readiness_ref",
      "bp0204_schema_contract_ref", "bp0189_persistence_schema_plan_ref">>

persistedKnowledgeReadSurfaceApprovalPrerequisiteKinds ==
    <<"source_only_packet_review_ref", "no_db_scope_request_ref", "no_query_runner_request_ref",
      "no_live_scope_request_ref">>

persistedKnowledgeReadSurfaceAuditObligationKinds ==
    <<"read_surface_reviewed", "future_query_audit_required", "future_result_citation_required",
      "future_denied_query_audit_required">>

persistedKnowledgeReadSurfaceRollbackKinds ==
    <<"remove_source_contract_artifacts", "restore_bp0214_handoff",
      "disable_future_query_runner">>

persistedKnowledgeReadSurfaceValidationKinds ==
    <<"packet_contract_tests", "packet_typecheck", "web_management_packet_tests", "docs_check",
      "format_check", "full_workspace_check">>

persistedKnowledgeReadSurfaceBlockedCapabilityFlags ==
    {"database_connection_allowed", "database_read_allowed", "database_write_allowed",
     "query_runner_allowed", "sql_artifact_allowed", "sql_query_execution_allowed",
     "sql_execution_allowed", "ddl_artifact_allowed", "ddl_execution_allowed",
     "orm_client_allowed", "role_grant_mutation_allowed", "grant_application_allowed",
     "migration_execution_allowed", "migration_runner_allowed", "writer_implementation_allowed",
     "persisted_storage_mutation_allowed", "knowledge_record_write_allowed",
     "source_snapshot_capture_allowed", "chunk_persistence_allowed",
     "context_bundle_persistence_allowed", "eval_run_persistence_allowed",
     "embedding_generation_allowed", "vector_db_runtime_allowed", "queue_mutation_allowed",
     "gateway_route_implementation_allowed", "mcp_tool_registration_allowed",
     "approval_request_creation_allowed", "approval_persistence_allowed",
     "approval_mutation_allowed", "audit_write_allowed", "audit_mutation_allowed",
     "auth_session_runtime_allowed", "auth_provider_wiring_allowed",
     "credential_storage_allowed", "integration_setup_write_allowed",
     "runtime_dispatcher_allowed", "runtime_adapter_implementation_allowed",
     "live_broker_dispatch_allowed", "live_adapter_invocation_allowed",
     "live_execution_allowed", "deploy_allowed", "git_mutation_allowed", "ssh_allowed",
     "docker_runner_allowed", "node_agent_allowed", "dns_cloudflare_mutation_allowed",
     "python_runtime_required", "os_specific_binary_required", "os_connector_package_allowed",
     "external_service_call_allowed", "secret_values_allowed"}

scopeKinds == <<"tenant_id_required", "project_id_required", "deny_cross_tenant_by_default">>

sourceDocs ==
    <<"product-direction", "ROADMAP", "PERSISTENCE_AND_POLICY_GATE_REVIEW",
      "PERSISTENCE_SCHEMA_PLAN", "BP-0182", "BP-0183", "BP-0184", "BP-0188",
      "CONTRACT_PROVENANCE">>

normalizeRepoRef == Text(Strings \ {"secret"})
normalizeRef == Text(Refs \ {"secret"})
normalizeContractOrSourceRef == Text(Strings \ {"secret"})
normalizeNamedCommandRef == Text(Refs \ {"secret"})
normalizeEntityNames == EveryOf(Range(persistenceSchemaEntityNames), 1)
normalizeGateRefs == EveryOf(Range(persistencePolicyGateIds), 1)

normalizeGateSequence == GatesInOrder

normalizeIdentity ==
    Entry([packet_ref |-> Is("BP-0215"), selected_after_packet_ref |-> Is("BP-0214"),
           read_surface_ref |-> Is("read_surface:persisted_knowledge_source_only"),
           target_gate |-> Is(persistedKnowledgeReadSurfaceContractTargetGate),
           read_surface_mode |-> Is("source_contract_only"),
           mvp_value |-> Text(Strings \ {"secret"})])

defaultPersistedKnowledgeReadSurfaceIdentity == PlainObject(normalizeIdentity)

PersistedKnowledgeReadQueryRefInput ==
    Entry([query_kind |-> Text(Range(persistedKnowledgeReadSurfaceQueryKinds)),
           query_ref |-> normalizeRef, entity_names |-> normalizeEntityNames,
           input_shape_ref |-> normalizeRef, tenant_project_scope_ref |-> normalizeRef,
           current_state |-> Is("future_query_shape_source_ref_only")]
          @@ Lowered({"database_connection_allowed", "database_read_allowed",
                      "query_runner_allowed", "sql_query_execution_allowed",
                      "live_execution_allowed"}))

defaultPersistedKnowledgeReadQueryRefs ==
    Each(PersistedKnowledgeReadQueryRefInput, "query_kind",
         persistedKnowledgeReadSurfaceQueryKinds)

normalizeQueryRefs ==
    OneOfEach("query_kind", persistedKnowledgeReadSurfaceQueryKinds,
              defaultPersistedKnowledgeReadQueryRefs, PersistedKnowledgeReadQueryRefInput)

PersistedKnowledgeReadResultRefInput ==
    Entry([result_kind |-> Text(Range(persistedKnowledgeReadSurfaceResultKinds)),
           result_ref |-> normalizeRef, entity_names |-> normalizeEntityNames,
           output_shape_ref |-> normalizeRef, citation_refs_required |-> True,
           current_state |-> Is("future_result_shape_source_ref_only")]
          @@ Lowered({"persisted_storage_mutation_allowed", "database_read_allowed",
                      "live_execution_allowed"}))

defaultPersistedKnowledgeReadResultRefs ==
    Each(PersistedKnowledgeReadResultRefInput, "result_kind",
         persistedKnowledgeReadSurfaceResultKinds)

normalizeResultRefs ==
    OneOfEach("result_kind", persistedKnowledgeReadSurfaceResultKinds,
              defaultPersistedKnowledgeReadResultRefs, PersistedKnowledgeReadResultRefInput)

PersistedKnowledgeTenantProjectScopeRefInput ==
    Entry([scope_kind |-> Text(Range(scopeKinds)), scope_ref |-> normalizeRef,
           entity_names |-> normalizeEntityNames,
           current_state |-> Is("future_scope_shape_source_ref_only")]
          @@ Lowered({"database_connection_allowed", "authorization_mutation_allowed"}))

defaultPersistedKnowledgeTenantProjectScopeRefs ==
    Each(PersistedKnowledgeTenantProjectScopeRefInput, "scope_kind", scopeKinds)

normalizeTenantProjectScopeRefs ==
    OneOfEach("scope_kind", scopeKinds, defaultPersistedKnowledgeTenantProjectScopeRefs,
              PersistedKnowledgeTenantProjectScopeRefInput)

PersistedKnowledgeReadPolicyPrerequisiteRefInput ==
    Entry([prerequisite_kind |-> Text(Range(persistedKnowledgeReadSurfacePolicyPrerequisiteKinds)),
           prerequisite_ref |-> normalizeRepoRef, gate_refs |-> normalizeGateRefs,
           contract_ref |-> normalizeContractOrSourceRef,
           current_state |-> Is("source_ref_only_no_policy_mutation")]
          @@ Lowered({"approval_mutation_allowed", "live_execution_allowed"}))

defaultPersistedKnowledgeReadPolicyPrerequisiteRefs ==
    Each(PersistedKnowledgeReadPolicyPrerequisiteRefInput, "prerequisite_kind",
         persistedKnowledgeReadSurfacePolicyPrerequisiteKinds)

normalizePolicyPrerequisiteRefs ==
    OneOfEach("prerequisite_kind", persistedKnowledgeReadSurfacePolicyPrerequisiteKinds,
              defaultPersistedKnowledgeReadPolicyPrerequisiteRefs,
              PersistedKnowledgeReadPolicyPrerequisiteRefInput)

PersistedKnowledgeReadApprovalPrerequisiteRefInput ==
    Entry([approval_kind |-> Text(Range(persistedKnowledgeReadSurfaceApprovalPrerequisiteKinds)),
           approval_ref |-> normalizeRef, required_before_future_query_runner |-> True,
           current_state |-> Is("source_ref_only_no_approval_request_created")]
          @@ Lowered({"approval_request_creation_allowed", "approval_mutation_allowed"}))

defaultPersistedKnowledgeReadApprovalPrerequisiteRefs ==
    Each(PersistedKnowledgeReadApprovalPrerequisiteRefInput, "approval_kind",
         persistedKnowledgeReadSurfaceApprovalPrerequisiteKinds)

normalizeApprovalPrerequisiteRefs ==
    OneOfEach("approval_kind", persistedKnowledgeReadSurfaceApprovalPrerequisiteKinds,
              defaultPersistedKnowledgeReadApprovalPrerequisiteRefs,
              PersistedKnowledgeReadApprovalPrerequisiteRefInput)

PersistedKnowledgeReadAuditObligationRefInput ==
    Entry([audit_kind |-> Text(Range(persistedKnowledgeReadSurfaceAuditObligationKinds)),
           audit_ref |-> normalizeRef, required_before_future_query_runner |-> True,
           current_state |-> Is("source_ref_only_no_audit_write")]
          @@ Lowered({"audit_write_allowed", "persisted_storage_mutation_allowed"}))

defaultPersistedKnowledgeReadAuditObligationRefs ==
    Each(PersistedKnowledgeReadAuditObligationRefInput, "audit_kind",
         persistedKnowledgeReadSurfaceAuditObligationKinds)

normalizeAuditObligationRefs ==
    OneOfEach("audit_kind", persistedKnowledgeReadSurfaceAuditObligationKinds,
              defaultPersistedKnowledgeReadAuditObligationRefs, PersistedKnowledgeReadAuditObligationRefInput)

PersistedKnowledgeReadRollbackRefInput ==
    Entry([rollback_kind |-> Text(Range(persistedKnowledgeReadSurfaceRollbackKinds)),
           rollback_ref |-> normalizeRef,
           current_state |-> Is("source_ref_only_no_rollback_execution")]
          @@ Lowered({"rollback_execution_allowed", "live_execution_allowed"}))

defaultPersistedKnowledgeReadRollbackRefs ==
    Each(PersistedKnowledgeReadRollbackRefInput, "rollback_kind", persistedKnowledgeReadSurfaceRollbackKinds)

normalizeRollbackRefs ==
    OneOfEach("rollback_kind", persistedKnowledgeReadSurfaceRollbackKinds,
              defaultPersistedKnowledgeReadRollbackRefs, PersistedKnowledgeReadRollbackRefInput)

PersistedKnowledgeReadValidationCommandRefInput ==
    Entry([validation_kind |-> Text(Range(persistedKnowledgeReadSurfaceValidationKinds)),
           validation_ref |-> normalizeRef, command_ref |-> normalizeNamedCommandRef,
           current_state |-> Is("named_validation_only"), live_execution_allowed |-> False])

defaultPersistedKnowledgeReadValidationCommandRefs ==
    Each(PersistedKnowledgeReadValidationCommandRefInput, "validation_kind",
         persistedKnowledgeReadSurfaceValidationKinds)

normalizeValidationCommandRefs ==
    OneOfEach("validation_kind", persistedKnowledgeReadSurfaceValidationKinds,
              defaultPersistedKnowledgeReadValidationCommandRefs,
              PersistedKnowledgeReadValidationCommandRefInput)

\* A summary may be any text; what looks like a secret is refused everywhere.
normalizeSourceRefs == SourceRefs(Strings \ {"secret"}, Strings, sourceDocs, {})

defaultPersistedKnowledgeReadNoLivePosture ==
    Posture({},
            {"database_connection_allowed", "database_read_allowed", "database_write_allowed",
             "query_runner_allowed", "sql_artifact_allowed", "sql_query_execution_allowed",
             "sql_execution_allowed", "ddl_artifact_allowed", "ddl_execution_allowed",
             "orm_client_allowed", "role_grant_mutation_allowed", "grant_application_allowed",
             "migration_execution_allowed", "migration_runner_allowed",
             "writer_implementation_allowed", "persisted_storage_mutation_allowed",
             "knowledge_record_write_allowed", "source_snapshot_capture_allowed",
             "chunk_persistence_allowed", "context_bundle_persistence_allowed",
             "eval_run_persistence_allowed", "embedding_generation_allowed",
             "vector_db_runtime_allowed", "queue_mutation_allowed",
             "gateway_route_implementation_allowed", "mcp_tool_registration_allowed",
             "approval_request_creation_allowed", "approval_persistence_allowed",
             "approval_mutation_allowed", "audit_write_allowed", "audit_mutation_allowed",
             "auth_session_runtime_allowed", "auth_provider_wiring_allowed",
             "credential_storage_allowed", "integration_setup_write_allowed",
             "runtime_dispatcher_allowed", "runtime_adapter_implementation_allowed",
             "live_broker_dispatch_allowed", "live_adapter_invocation_allowed",
             "live_execution_allowed", "deploy_allowed", "git_mutation_allowed", "ssh_allowed",
             "docker_runner_allowed", "node_agent_allowed", "dns_cloudflare_mutation_allowed",
             "python_runtime_required", "os_specific_binary_required",
             "os_connector_package_allowed", "external_service_call_allowed",
             "secret_values_allowed"})

normalizeNoLivePosture == defaultPersistedKnowledgeReadNoLivePosture

defaultPersistedKnowledgeReadAllowedState ==
    Entry(defaultPersistedKnowledgeReadNoLivePosture.parts
          @@ AllowedState({"source_only_read_surface_contract_allowed",
                           "future_query_shape_refs_allowed", "future_result_shape_refs_allowed",
                           "tenant_project_scope_refs_allowed", "source_refs_allowed"}, {}).parts)

normalizeAllowedState == defaultPersistedKnowledgeReadAllowedState

requestFields ==
    [read_surface_identity |-> normalizeIdentity, gate_sequence |-> normalizeGateSequence,
     query_refs |-> normalizeQueryRefs, result_refs |-> normalizeResultRefs,
     tenant_project_scope_refs |-> normalizeTenantProjectScopeRefs,
     policy_prerequisite_refs |-> normalizePolicyPrerequisiteRefs,
     approval_prerequisite_refs |-> normalizeApprovalPrerequisiteRefs,
     audit_obligation_refs |-> normalizeAuditObligationRefs,
     rollback_refs |-> normalizeRollbackRefs,
     validation_command_refs |-> normalizeValidationCommandRefs,
     source_refs |-> normalizeSourceRefs, no_live_posture |-> normalizeNoLivePosture,
     allowed_state |-> normalizeAllowedState,
     contract_authority |-> Is("source_only_read_surface_contract_no_query_runner")]

contract == GateContractOf(requestFields, persistedKnowledgeReadSurfaceBlockedCapabilityFlags)

containsUnsafeValue(request) == HoldsSecret(request)

normalizePersistedKnowledgeReadSurface(request) ==
    IF containsUnsafeValue(request) THEN [ok |-> FALSE]
    ELSE Gated(contract, request, LAMBDA e : Tells(e, "source_refs", Range(sourceDocs)))

createPersistedKnowledgeReadSurface(request) ==
    OwnIdentity(normalizePersistedKnowledgeReadSurface(request),
                "read_surface_identity", defaultPersistedKnowledgeReadSurfaceIdentity)

======================================================================================
