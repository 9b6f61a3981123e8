----------------------------- MODULE PolicyGatePreflight -----------------------------
(***************************************************************************)
(* packages/packets/src/policy-gate-preflight-contract.ts, gate G06: which *)
(* policy, risk and approval each operation would need.                    *)
(***************************************************************************)
EXTENDS PersistenceVocabulary

policyGatePreflightTargetGate == "G06_POLICY_GATE"

policyGateRiskClassificationKinds ==
    {"database_or_writer_state_change", "approval_state_change",
     "auth_or_integration_configuration", "runtime_or_host_control"}

policyGateApprovalRequirementKinds ==
    {"owner_or_admin_approval_required", "separate_reviewer_approval_required",
     "deployment_owner_approval_required", "implementation_packet_approval_required"}

normalizeRepoRef == Ref

normalizeGateSequence == GatesInOrder

PolicyGateOperationPolicyRefInput ==
    Entry([operation |-> Text(Range(policyGateOperationKinds)),
           policy_gate_ref |-> normalizeRepoRef,
           policy_decision_contract_ref |-> normalizeRepoRef,
           prerequisite_database_security_ref |-> normalizeRepoRef,
           current_state |-> Is("source_ref_only_no_policy_decision_persistence"),
           target_gate |-> Is(policyGatePreflightTargetGate)]
          @@ Lowered({"policy_decision_persistence_allowed", "policy_mutation_allowed",
                      "approve_deny_mutation_allowed", "live_execution_allowed"}))

defaultPolicyGateOperationPolicyRefs ==
    Each(PolicyGateOperationPolicyRefInput, "operation", policyGateOperationKinds)

normalizeOperationPolicyRefs ==
    OneOfEach("operation", policyGateOperationKinds, defaultPolicyGateOperationPolicyRefs,
              PolicyGateOperationPolicyRefInput)

riskKindForOperation(operation) ==
    CASE operation = "approve_action" -> "approval_state_change"
      [] operation \in {"configure_auth", "configure_integration"} ->
            "auth_or_integration_configuration"
      [] operation \in {"runtime.adapter.implement", "os.connector.package"} ->
            "runtime_or_host_control"
      [] OTHER -> "database_or_writer_state_change"

riskLevelForOperation(operation) ==
    CASE operation \in {"runtime.adapter.implement", "os.connector.package"} -> 9
      [] operation \in {"configure_auth", "configure_integration"} -> 8
      [] operation = "approve_action" -> 7
      [] OTHER -> 6

\* The kind and the level of a risk are the requester's to say.
PolicyGateRiskClassificationRefInput ==
    Entry([operation |-> Text(Range(policyGateOperationKinds)), risk_ref |-> normalizeRepoRef,
           risk_kind |-> Text(policyGateRiskClassificationKinds),
           risk_level |-> [shape |-> "number", scale |-> 0 .. 10],
           current_state |-> Is("source_ref_only_no_runtime_risk_engine")]
          @@ Lowered({"risk_mutation_allowed", "external_service_call_allowed"}))

defaultPolicyGateRiskClassificationRefs ==
    [i \in DOMAIN policyGateOperationKinds |->
        O([risk_kind |-> T(riskKindForOperation(policyGateOperationKinds[i])),
           risk_level |-> N(riskLevelForOperation(policyGateOperationKinds[i]))]
          @@ Each(PolicyGateRiskClassificationRefInput, "operation",
                  policyGateOperationKinds)[i].parts)]

normalizeRiskClassificationRefs ==
    OneOfEach("operation", policyGateOperationKinds, defaultPolicyGateRiskClassificationRefs,
              PolicyGateRiskClassificationRefInput)

approvalRequirementForOperation(operation) ==
    CASE operation = "approve_action" -> "separate_reviewer_approval_required"
      [] operation \in {"configure_auth", "configure_integration"} ->
            "deployment_owner_approval_required"
      [] operation \in {"runtime.adapter.implement", "os.connector.package"} ->
            "implementation_packet_approval_required"
      [] OTHER -> "owner_or_admin_approval_required"

PolicyGateApprovalRequirementRefInput ==
    Entry([operation |-> Text(Range(policyGateOperationKinds)),
           approval_requirement_ref |-> normalizeRepoRef,
           approval_requirement_kind |-> Text(policyGateApprovalRequirementKinds),
           current_state |-> Is("source_ref_only_no_approval_request_creation")]
          @@ Lowered({"approval_request_creation_allowed", "approval_mutation_allowed",
                      "approve_deny_mutation_allowed"}))

defaultPolicyGateApprovalRequirementRefs ==
    [i \in DOMAIN policyGateOperationKinds |->
        O([approval_requirement_kind |->
                T(approvalRequirementForOperation(policyGateOperationKinds[i]))]
          @@ Each(PolicyGateApprovalRequirementRefInput, "operation",
                  policyGateOperationKinds)[i].parts)]

normalizeApprovalRequirementRefs ==
    OneOfEach("operation", policyGateOperationKinds, defaultPolicyGateApprovalRequirementRefs,
              PolicyGateApprovalRequirementRefInput)

auditEventTypeForObligation ==
    [policy_checked_audit_ref |-> "policy_checked",
     approval_requested_audit_ref |-> "approval_requested",
     approval_decision_audit_ref |-> "approval_decision_recorded",
     operation_result_audit_ref |-> "operation_result_recorded",
     rollback_audit_ref |-> "rollback_recorded"]

PolicyGateAuditObligationRefInput ==
    Entry([obligation_kind |-> Text(Range(policyGateAuditObligationKinds)),
           obligation_ref |-> normalizeRepoRef,
           required_event_type |-> Text(Range(auditEventTypeForObligation)),
           current_state |-> Is("source_ref_only_no_audit_write")]
          @@ Lowered({"audit_write_allowed", "audit_mutation_allowed"}))

defaultPolicyGateAuditObligationRefs ==
    Each(PolicyGateAuditObligationRefInput, "obligation_kind", policyGateAuditObligationKinds)

normalizeAuditObligationRefs ==
    Tied(OneOfEach("obligation_kind", policyGateAuditObligationKinds,
                   defaultPolicyGateAuditObligationRefs, PolicyGateAuditObligationRefInput),
         [k \in DOMAIN auditEventTypeForObligation |->
            [required_event_type |-> auditEventTypeForObligation[k]]])

PolicyGateRollbackRefInput ==
    Entry([rollback_kind |-> Text(Range(policyGateRollbackKinds)),
           rollback_ref |-> normalizeRepoRef,
           current_state |-> Is("source_ref_only_no_rollback_execution")]
          @@ Lowered({"rollback_execution_allowed", "service_mutation_allowed",
                      "live_execution_allowed"}))

defaultPolicyGateRollbackRefs ==
    Each(PolicyGateRollbackRefInput, "rollback_kind", policyGateRollbackKinds)

normalizeRollbackRefs ==
    OneOfEach("rollback_kind", policyGateRollbackKinds, defaultPolicyGateRollbackRefs,
              PolicyGateRollbackRefInput)

defaultPolicyGateNoMutationPosture ==
    Posture({},
            {"policy_gate_execution_allowed", "policy_decision_persistence_allowed",
             "policy_mutation_allowed", "settings_mutation_allowed",
             "approval_request_creation_allowed", "approval_mutation_allowed",
             "approve_deny_mutation_allowed", "authorization_mutation_allowed",
             "audit_write_allowed", "audit_mutation_allowed", "rollback_execution_allowed",
             "database_connection_allowed", "database_write_allowed", "sql_execution_allowed",
             "ddl_execution_allowed", "policy_ddl_execution_allowed",
             "role_grant_mutation_allowed", "role_grant_execution_allowed",
             "grant_application_allowed", "writer_implementation_allowed",
             "migration_execution_allowed", "queue_mutation_allowed",
             "auth_session_runtime_allowed", "integration_setup_write_allowed",
             "runtime_dispatcher_allowed", "runtime_adapter_implementation_allowed",
             "os_connector_package_allowed", "live_storage_allowed", "live_execution_allowed",
             "external_service_call_allowed", "environment_secret_lookup_allowed"})

normalizeNoMutationPosture == defaultPolicyGateNoMutationPosture

normalizeSourceRefs == SourceRefs(Fit, Fit, <<"plain">>, {})

defaultPolicyGateAllowedState ==
    AllowedState({"source_only_policy_gate_preflight_allowed", "operation_policy_refs_allowed",
                  "risk_classification_refs_allowed", "approval_requirement_refs_allowed",
                  "audit_obligation_refs_allowed", "rollback_refs_allowed"},
                 {"policy_gate_execution_allowed", "policy_decision_persistence_allowed",
                  "policy_mutation_allowed", "settings_mutation_allowed",
                  "approval_request_creation_allowed", "approval_mutation_allowed",
                  "approve_deny_mutation_allowed", "authorization_mutation_allowed",
                  "audit_write_allowed", "audit_mutation_allowed", "rollback_execution_allowed",
                  "database_connection_allowed", "database_write_allowed",
                  "sql_execution_allowed", "ddl_execution_allowed",
                  "role_grant_mutation_allowed", "role_grant_execution_allowed",
                  "grant_application_allowed", "writer_implementation_allowed",
                  "migration_execution_allowed", "queue_mutation_allowed",
                  "auth_session_runtime_allowed", "integration_setup_write_allowed",
                  "runtime_adapter_implementation_allowed", "os_connector_package_allowed",
                  "live_storage_allowed", "live_execution_allowed", "python_runtime_required",
                  "os_specific_binary_required", "external_service_call_allowed"})

normalizeAllowedState == defaultPolicyGateAllowedState

requestFields ==
    [gate_sequence |-> normalizeGateSequence,
     operation_policy_refs |-> normalizeOperationPolicyRefs,
     risk_classification_refs |-> normalizeRiskClassificationRefs,
     approval_requirement_refs |-> normalizeApprovalRequirementRefs,
     audit_obligation_refs |-> normalizeAuditObligationRefs,
     rollback_refs |-> normalizeRollbackRefs, no_mutation_posture |-> normalizeNoMutationPosture,
     source_refs |-> normalizeSourceRefs, allowed_state |-> normalizeAllowedState,
     contract_authority |-> Is("source_only_policy_gate_preflight_no_mutation")]

contract == GateContractOf(requestFields, policyGatePreflightBlockedCapabilityFlags)

normalizeRequest(request) == Gated(contract, request, NoOtherRule)

createPolicyGatePreflightContract(request) == normalizeRequest(request)

======================================================================================
