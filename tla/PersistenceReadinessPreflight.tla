------------------------ MODULE PersistenceReadinessPreflight ------------------------
(***************************************************************************)
(* packages/packets/src/persistence-readiness-preflight-contract.ts, gate  *)
(* G08: the evidence of gates G03 to G07 and the tests, before an          *)
(* implementation packet may be chosen.                                    *)
(***************************************************************************)
EXTENDS PersistenceVocabulary

persistenceReadinessPreflightTargetGate == "G08_PERSISTENCE_READINESS"

persistenceReadinessPrerequisiteKinds ==
    <<"migration_static_review_ref", "writer_preflight_ref", "database_security_preflight_ref",
      "policy_gate_preflight_ref", "approval_request_preflight_ref">>

persistenceReadinessMigrationArtifactRefKinds ==
    <<"reviewed_migration_manifest_ref", "reviewed_sql_artifact_ref", "rollback_artifact_ref",
      "static_check_result_ref">>

persistenceReadinessRequiredTestKinds ==
    <<"schema_contract_tests", "migration_static_review_tests", "writer_preflight_tests",
      "database_security_preflight_tests", "policy_gate_preflight_tests",
      "approval_request_preflight_tests", "full_workspace_check">>

isAuditEventType ==
    <<"policy_checked", "approval_requested", "approval_decision_recorded",
      "operation_result_recorded", "rollback_recorded">>

isRollbackKind ==
    <<"migration_repair_ref", "writer_disable_ref", "approval_state_reversal_ref",
      "runtime_revert_ref">>

normalizeRepoRef == Text(Strings \ {"secret"})
normalizeCommandRef == Text(Strings \ {"secret", "command"})

normalizeGateSequence == GatesInOrder

\* Contracts by their ids.
prerequisiteExpectations ==
    [migration_static_review_ref |->
        [contract_ref |-> "migration_artifact_static_review",
         target_gate |-> "G03_MIGRATION_ARTIFACT_STATIC"],
     writer_preflight_ref |->
        [contract_ref |-> "writer_preflight_contract", target_gate |-> "G04_WRITER_PREFLIGHT"],
     database_security_preflight_ref |->
        [contract_ref |-> "database_security_preflight", target_gate |-> "G05_DATABASE_SECURITY"],
     policy_gate_preflight_ref |->
        [contract_ref |-> "policy_gate_preflight", target_gate |-> "G06_POLICY_GATE"],
     approval_request_preflight_ref |->
        [contract_ref |-> "approval_request_preflight", target_gate |-> "G07_APPROVAL_REQUEST"]]

PersistenceReadinessPrerequisiteRefInput ==
    Entry([prerequisite_kind |-> Text(Range(persistenceReadinessPrerequisiteKinds)),
           prerequisite_ref |-> normalizeRepoRef,
           contract_ref |->
                Text({prerequisiteExpectations[k].contract_ref :
                        k \in DOMAIN prerequisiteExpectations}),
           target_gate |-> Text(Range(persistencePolicyGateIds)),
           readiness_gate |-> Is(persistenceReadinessPreflightTargetGate),
           current_state |-> Is("source_ref_only_prerequisite_evidence")]
          @@ Lowered({"implementation_packet_selection_allowed", "live_storage_allowed"}))

defaultPersistenceReadinessPrerequisiteRefs ==
    Each(PersistenceReadinessPrerequisiteRefInput, "prerequisite_kind",
         persistenceReadinessPrerequisiteKinds)

normalizePrerequisiteRefs ==
    Tied(OneOfEach("prerequisite_kind", persistenceReadinessPrerequisiteKinds,
                   defaultPersistenceReadinessPrerequisiteRefs,
                   PersistenceReadinessPrerequisiteRefInput),
         prerequisiteExpectations)

PersistenceReadinessMigrationArtifactRefInput ==
    Entry([artifact_kind |-> Text(Range(persistenceReadinessMigrationArtifactRefKinds)),
           artifact_ref |-> normalizeRepoRef,
           migration_static_review_ref |-> Is("migration_artifact_static_review"),
           current_state |-> Is("source_ref_only_no_migration_execution")]
          @@ Lowered({"database_connection_allowed", "migration_execution_allowed",
                      "sql_execution_allowed"}))

defaultPersistenceReadinessMigrationArtifactRefs ==
    Each(PersistenceReadinessMigrationArtifactRefInput, "artifact_kind",
         persistenceReadinessMigrationArtifactRefKinds)

normalizeMigrationArtifactRefs ==
    OneOfEach("artifact_kind", persistenceReadinessMigrationArtifactRefKinds,
              defaultPersistenceReadinessMigrationArtifactRefs,
              PersistenceReadinessMigrationArtifactRefInput)

PersistenceReadinessRequiredTestRefInput ==
    Entry([test_kind |-> Text(Range(persistenceReadinessRequiredTestKinds)),
           test_ref |-> normalizeRepoRef, command_ref |-> normalizeCommandRef,
           required_before_implementation_packet |-> True,
           current_state |-> Is("source_ref_only_test_evidence")]
          @@ Lowered({"implementation_packet_selection_allowed", "live_execution_allowed"}))

defaultPersistenceReadinessRequiredTestRefInputs ==
    Each(PersistenceReadinessRequiredTestRefInput, "test_kind",
         persistenceReadinessRequiredTestKinds)

normalizeRequiredTestRefs ==
    OneOfEach("test_kind", persistenceReadinessRequiredTestKinds,
              defaultPersistenceReadinessRequiredTestRefInputs,
              PersistenceReadinessRequiredTestRefInput)

PersistenceReadinessAuditObligationRefInput ==
    Entry([required_event_type |-> Text(Range(isAuditEventType)),
           obligation_ref |-> normalizeRepoRef,
           current_state |-> Is("source_ref_only_no_audit_write")]
          @@ Lowered({"audit_write_allowed", "operation_result_record_allowed"}))

defaultPersistenceReadinessAuditObligationRefs ==
    Each(PersistenceReadinessAuditObligationRefInput, "required_event_type", isAuditEventType)

normalizeAuditObligationRefs ==
    OneOfEach("required_event_type", isAuditEventType,
              defaultPersistenceReadinessAuditObligationRefs,
              PersistenceReadinessAuditObligationRefInput)

PersistenceReadinessRollbackRefInput ==
    Entry([rollback_kind |-> Text(Range(isRollbackKind)), rollback_ref |-> normalizeRepoRef,
           current_state |-> Is("source_ref_only_no_rollback_execution")]
          @@ Lowered({"rollback_execution_allowed", "live_execution_allowed"}))

defaultPersistenceReadinessRollbackRefs ==
    Each(PersistenceReadinessRollbackRefInput, "rollback_kind", isRollbackKind)

normalizeRollbackRefs ==
    OneOfEach("rollback_kind", isRollbackKind, defaultPersistenceReadinessRollbackRefs,
              PersistenceReadinessRollbackRefInput)

defaultPersistenceReadinessNoLivePosture ==
    Posture({},
            {"persistence_readiness_execution_allowed",
             "implementation_packet_selection_allowed", "implementation_scope_request_allowed",
             "persistence_scope_request_allowed", "write_scope_request_allowed",
             "approval_request_creation_allowed", "approval_request_persistence_allowed",
             "approval_decision_persistence_allowed", "approval_state_transition_allowed",
             "approval_mutation_allowed", "approve_deny_mutation_allowed",
             "policy_gate_execution_allowed", "policy_decision_persistence_allowed",
             "policy_mutation_allowed", "settings_mutation_allowed",
             "authorization_mutation_allowed", "audit_write_allowed", "audit_mutation_allowed",
             "operation_result_record_allowed", "live_operation_result_record_allowed",
             "rollback_execution_allowed", "database_connection_allowed",
             "database_write_allowed", "sql_execution_allowed", "ddl_execution_allowed",
             "role_grant_mutation_allowed", "role_grant_execution_allowed",
             "grant_application_allowed", "writer_implementation_allowed",
             "migration_execution_allowed", "queue_mutation_allowed",
             "persisted_storage_allowed", "readiness_state_persistence_allowed",
             "auth_session_runtime_allowed", "integration_setup_write_allowed",
             "runtime_dispatcher_allowed", "runtime_adapter_implementation_allowed",
             "os_connector_package_allowed", "live_storage_allowed", "live_execution_allowed",
             "external_service_call_allowed", "environment_secret_lookup_allowed"})

normalizeNoLivePosture == defaultPersistenceReadinessNoLivePosture

\* A summary may be any text; what looks like a secret is refused everywhere.
normalizeSourceRefs == SourceRefs(Strings \ {"secret"}, Strings, <<"CONTRACT_PROVENANCE">>, {})

defaultPersistenceReadinessAllowedState ==
    AllowedState({"source_only_persistence_readiness_preflight_allowed",
                  "prerequisite_refs_allowed", "migration_artifact_refs_allowed",
                  "required_test_refs_allowed", "audit_obligation_refs_allowed",
                  "rollback_refs_allowed"},
                 {"implementation_packet_selection_allowed",
                  "implementation_scope_request_allowed", "persistence_scope_request_allowed",
                  "write_scope_request_allowed", "persisted_storage_allowed",
                  "readiness_state_persistence_allowed", "approval_mutation_allowed",
                  "audit_write_allowed", "database_connection_allowed",
                  "database_write_allowed", "sql_execution_allowed", "ddl_execution_allowed",
                  "role_grant_mutation_allowed", "writer_implementation_allowed",
                  "migration_execution_allowed", "queue_mutation_allowed",
                  "live_storage_allowed", "live_execution_allowed", "python_runtime_required",
                  "os_specific_binary_required", "external_service_call_allowed"})

normalizeAllowedState == defaultPersistenceReadinessAllowedState

requestFields ==
    [gate_sequence |-> normalizeGateSequence, prerequisite_refs |-> normalizePrerequisiteRefs,
     migration_artifact_refs |-> normalizeMigrationArtifactRefs,
     required_test_refs |-> normalizeRequiredTestRefs,
     audit_obligation_refs |-> normalizeAuditObligationRefs,
     rollback_refs |-> normalizeRollbackRefs, no_live_posture |-> normalizeNoLivePosture,
     source_refs |-> normalizeSourceRefs, allowed_state |-> normalizeAllowedState,
     contract_authority |-> Is("source_only_persistence_readiness_no_implementation")]

contract == GateContractOf(requestFields, persistenceReadinessPreflightBlockedCapabilityFlags)

containsUnsafeValue(request) == HoldsSecret(request)

normalizeRequest(request) ==
    IF containsUnsafeValue(request) THEN [ok |-> FALSE]
    ELSE Gated(contract, request, LAMBDA e : Tells(e, "source_refs", {"CONTRACT_PROVENANCE"}))

createPersistenceReadinessPreflightContract(request) == normalizeRequest(request)

======================================================================================
