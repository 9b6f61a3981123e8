-------------------------- MODULE ApprovalRequestPreflight --------------------------
(***************************************************************************)
(* packages/packets/src/approval-request-preflight-contract.ts, gate G07:  *)
(* what an approval request would refer to, who may approve and for which  *)
(* reasons.                                                                *)
(***************************************************************************)
EXTENDS PersistenceVocabulary

policyGatePreflightTargetGate == "G06_POLICY_GATE"
approvalRequestPreflightTargetGate == "G07_APPROVAL_REQUEST"

approvalRequestRefKinds ==
    <<"policy_decision_link_ref", "human_request_payload_ref", "source_evidence_bundle_ref",
      "approval_lifecycle_state_ref">>

approvalRequestApproverScopeKinds ==
    <<"owner_or_admin_scope_ref", "separate_reviewer_scope_ref", "deployment_owner_scope_ref",
      "implementation_packet_reviewer_scope_ref">>

approvalRequestDecisionReasonKinds ==
    <<"approve_reason_code_ref", "deny_reason_code_ref", "requires_changes_reason_code_ref",
      "withdraw_or_expire_reason_code_ref">>

normalizeRepoRef == Ref
normalizeTextRef == Ref

normalizeGateSequence == GatesInOrder

ApprovalRequestRefInput ==
    Entry([request_kind |-> Text(Range(approvalRequestRefKinds)),
           request_ref |-> normalizeRepoRef, policy_gate_ref |-> normalizeRepoRef,
           current_state |-> Is("source_ref_only_no_approval_request_creation"),
           target_gate |-> Is(approvalRequestPreflightTargetGate)]
          @@ Lowered({"approval_request_creation_allowed",
                      "approval_request_persistence_allowed", "approval_mutation_allowed"}))

defaultApprovalRequestRefs ==
    Each(ApprovalRequestRefInput, "request_kind", approvalRequestRefKinds)

normalizeApprovalRequestRefs ==
    OneOfEach("request_kind", approvalRequestRefKinds, defaultApprovalRequestRefs,
              ApprovalRequestRefInput)

ApprovalRequestApproverScopeRefInput ==
    Entry([scope_kind |-> Text(Range(approvalRequestApproverScopeKinds)),
           scope_ref |-> normalizeRepoRef, summary |-> normalizeTextRef,
           current_state |-> Is("source_ref_only_no_approver_scope_mutation")]
          @@ Lowered({"approver_scope_mutation_allowed", "authorization_mutation_allowed",
                      "external_service_call_allowed"}))

defaultApprovalRequestApproverScopeRefs ==
    Each(ApprovalRequestApproverScopeRefInput, "scope_kind", approvalRequestApproverScopeKinds)

normalizeApproverScopeRefs ==
    OneOfEach("scope_kind", approvalRequestApproverScopeKinds,
              defaultApprovalRequestApproverScopeRefs, ApprovalRequestApproverScopeRefInput)

ApprovalRequestDecisionReasonRefInput ==
    Entry([reason_kind |-> Text(Range(approvalRequestDecisionReasonKinds)),
           reason_ref |-> normalizeRepoRef, stable_reason_code_required |-> True,
           current_state |-> Is("source_ref_only_no_decision_mutation")]
          @@ Lowered({"decision_reason_mutation_allowed",
                      "approval_decision_persistence_allowed", "approve_deny_mutation_allowed"}))

defaultApprovalRequestDecisionReasonRefs ==
    Each(ApprovalRequestDecisionReasonRefInput, "reason_kind", approvalRequestDecisionReasonKinds)

normalizeDecisionReasonRefs ==
    OneOfEach("reason_kind", approvalRequestDecisionReasonKinds,
              defaultApprovalRequestDecisionReasonRefs, ApprovalRequestDecisionReasonRefInput)

ApprovalRequestPolicyGateRefInput ==
    Entry([operation |-> Text(Range(policyGateOperationKinds)),
           policy_gate_ref |-> normalizeRepoRef, policy_gate_preflight_ref |-> normalizeRepoRef,
           approval_requirement_ref |-> normalizeRepoRef,
           current_state |-> Is("source_ref_only_policy_gate_prerequisite"),
           policy_gate_target |-> Is(policyGatePreflightTargetGate),
           approval_request_target |-> Is(approvalRequestPreflightTargetGate)]
          @@ Lowered({"policy_gate_execution_allowed", "approval_request_creation_allowed",
                      "policy_decision_persistence_allowed"}))

defaultApprovalRequestPolicyGateRefs ==
    Each(ApprovalRequestPolicyGateRefInput, "operation", policyGateOperationKinds)

normalizePolicyGateRefs ==
    OneOfEach("operation", policyGateOperationKinds, defaultApprovalRequestPolicyGateRefs,
              ApprovalRequestPolicyGateRefInput)

auditEventTypeForObligation ==
    [policy_checked_audit_ref |-> "policy_checked",
     approval_requested_audit_ref |-> "approval_requested",
     approval_decision_audit_ref |-> "approval_decision_recorded",
     operation_result_audit_ref |-> "operation_result_recorded",
     rollback_audit_ref |-> "rollback_recorded"]

ApprovalRequestAuditObligationRefInput ==
    Entry([obligation_kind |-> Text(Range(policyGateAuditObligationKinds)),
           obligation_ref |-> normalizeRepoRef,
           required_event_type |-> Text(Range(auditEventTypeForObligation)),
           current_state |-> Is("source_ref_only_no_audit_write")]
          @@ Lowered({"audit_write_allowed", "audit_mutation_allowed"}))

defaultApprovalRequestAuditObligationRefs ==
    Each(ApprovalRequestAuditObligationRefInput, "obligation_kind", policyGateAuditObligationKinds)

normalizeAuditObligationRefs ==
    Tied(OneOfEach("obligation_kind", policyGateAuditObligationKinds,
                   defaultApprovalRequestAuditObligationRefs, ApprovalRequestAuditObligationRefInput),
         [k \in DOMAIN auditEventTypeForObligation |->
            [required_event_type |-> auditEventTypeForObligation[k]]])

ApprovalRequestRollbackRefInput ==
    Entry([rollback_kind |-> Text(Range(policyGateRollbackKinds)),
           rollback_ref |-> normalizeRepoRef,
           current_state |-> Is("source_ref_only_no_rollback_execution")]
          @@ Lowered({"rollback_execution_allowed", "service_mutation_allowed",
                      "live_execution_allowed"}))

defaultApprovalRequestRollbackRefs ==
    Each(ApprovalRequestRollbackRefInput, "rollback_kind", policyGateRollbackKinds)

normalizeRollbackRefs ==
    OneOfEach("rollback_kind", policyGateRollbackKinds, defaultApprovalRequestRollbackRefs,
              ApprovalRequestRollbackRefInput)

defaultApprovalRequestNoMutationPosture ==
    Posture({},
            {"approval_request_preflight_execution_allowed",
             "approval_request_creation_allowed", "approval_request_persistence_allowed",
             "approval_decision_persistence_allowed", "approval_state_transition_allowed",
             "approval_mutation_allowed", "approve_deny_mutation_allowed",
             "decision_reason_mutation_allowed", "approver_scope_mutation_allowed",
             "policy_gate_execution_allowed", "policy_decision_persistence_allowed",
             "policy_mutation_allowed", "settings_mutation_allowed",
             "authorization_mutation_allowed", "audit_write_allowed", "audit_mutation_allowed",
             "rollback_execution_allowed", "database_connection_allowed",
             "database_write_allowed", "sql_execution_allowed", "ddl_execution_allowed",
             "role_grant_mutation_allowed", "role_grant_execution_allowed",
             "grant_application_allowed", "writer_implementation_allowed",
             "migration_execution_allowed", "queue_mutation_allowed",
             "auth_session_runtime_allowed", "integration_setup_write_allowed",
             "runtime_dispatcher_allowed", "runtime_adapter_implementation_allowed",
             "os_connector_package_allowed", "live_storage_allowed", "live_execution_allowed",
             "external_service_call_allowed", "environment_secret_lookup_allowed"})

normalizeNoMutationPosture == defaultApprovalRequestNoMutationPosture

normalizeSourceRefs == SourceRefs(Fit, Fit, <<"plain">>, {})

defaultApprovalRequestAllowedState ==
    AllowedState({"source_only_approval_request_preflight_allowed",
                  "approval_request_refs_allowed", "approver_scope_refs_allowed",
                  "decision_reason_refs_allowed", "policy_gate_refs_allowed",
                  "audit_obligation_refs_allowed", "rollback_refs_allowed"},
                 {"approval_request_creation_allowed", "approval_request_persistence_allowed",
                  "approval_decision_persistence_allowed", "approval_state_transition_allowed",
                  "approval_mutation_allowed", "approve_deny_mutation_allowed",
                  "decision_reason_mutation_allowed", "approver_scope_mutation_allowed",
                  "policy_gate_execution_allowed", "policy_decision_persistence_allowed",
                  "policy_mutation_allowed", "settings_mutation_allowed",
                  "authorization_mutation_allowed", "audit_write_allowed",
                  "audit_mutation_allowed", "rollback_execution_allowed",
                  "database_connection_allowed", "database_write_allowed",
                  "sql_execution_allowed", "ddl_execution_allowed",
                  "role_grant_mutation_allowed", "role_grant_execution_allowed",
                  "grant_application_allowed", "writer_implementation_allowed",
                  "migration_execution_allowed", "queue_mutation_allowed",
                  "auth_session_runtime_allowed", "integration_setup_write_allowed",
                  "runtime_adapter_implementation_allowed", "os_connector_package_allowed",
                  "live_storage_allowed", "live_execution_allowed", "python_runtime_required",
                  "os_specific_binary_required", "external_service_call_allowed"})

normalizeAllowedState == defaultApprovalRequestAllowedState

requestFields ==
    [gate_sequence |-> normalizeGateSequence,
     approval_request_refs |-> normalizeApprovalRequestRefs,
     approver_scope_refs |-> normalizeApproverScopeRefs,
     decision_reason_refs |-> normalizeDecisionReasonRefs,
     policy_gate_refs |-> normalizePolicyGateRefs,
     audit_obligation_refs |-> normalizeAuditObligationRefs,
     rollback_refs |-> normalizeRollbackRefs,
     no_approval_mutation_posture |-> normalizeNoMutationPosture,
     source_refs |-> normalizeSourceRefs, allowed_state |-> normalizeAllowedState,
     contract_authority |-> Is("source_only_approval_request_preflight_no_mutation")]

contract == GateContractOf(requestFields, approvalRequestPreflightBlockedCapabilityFlags)

normalizeRequest(request) == Gated(contract, request, NoOtherRule)

createApprovalRequestPreflightContract(request) == normalizeRequest(request)

=====================================================================================
