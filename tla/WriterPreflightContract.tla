--------------------------- MODULE WriterPreflightContract ---------------------------
(***************************************************************************)
(* packages/packets/src/writer-preflight-contract.ts, gate G04: what has   *)
(* to be known of a writer before one is written.                          *)
(***************************************************************************)
EXTENDS PersistenceVocabulary

writerPreflightTargetGate == "G04_WRITER_PREFLIGHT"

writerPreflightInterfaceRefKinds ==
    <<"append_only_writer_interface_ref", "writer_persistence_preflight_ref",
      "gateway_inspection_ref">>

writerPreflightIdempotencyRefKinds ==
    <<"deterministic_key_ref", "exact_replay_ref", "digest_collision_ref">>

writerPreflightRedactionCheckIds ==
    <<"RAW_COMMAND_WITHHELD", "RAW_REJECTED_VALUE_WITHHELD", "SECRET_VALUE_WITHHELD",
      "RAW_PAYLOAD_ECHO_BLOCKED">>

writerPreflightAuditObligationKinds ==
    <<"policy_gate_ref", "approval_request_ref", "append_only_audit_ref", "rollback_ref">>

normalizeRepoRef == Ref
normalizeSafeSummary == Ref

normalizeGateSequence == GatesInOrder

schemaEntityRef ==
    Entry([entity_name |-> Text(Range(persistenceSchemaEntityNames)),
           schema_contract_ref |-> normalizeRepoRef, writer_preflight_ref |-> normalizeRepoRef,
           current_state |-> Is("source_ref_only"),
           target_gate |-> Is(writerPreflightTargetGate), live_storage_allowed |-> False])

defaultWriterPreflightSchemaEntityRefs ==
    Each(schemaEntityRef, "entity_name", persistenceSchemaEntityNames)

normalizeSchemaEntityRefs ==
    Ordered(OneOfEach("entity_name", persistenceSchemaEntityNames,
                      defaultWriterPreflightSchemaEntityRefs, schemaEntityRef))

writerInterfaceRef ==
    Entry([interface_kind |-> Text(Range(writerPreflightInterfaceRefKinds)),
           interface_ref |-> normalizeRepoRef, summary |-> normalizeSafeSummary,
           current_state |-> Is("source_ref_only_no_writer_implementation"),
           append_only |-> True]
          @@ Lowered({"implementation_allowed", "live_storage_allowed"}))

defaultWriterPreflightWriterInterfaceRefs ==
    Each(writerInterfaceRef, "interface_kind", writerPreflightInterfaceRefKinds)

normalizeWriterInterfaceRefs ==
    OneOfEach("interface_kind", writerPreflightInterfaceRefKinds,
              defaultWriterPreflightWriterInterfaceRefs, writerInterfaceRef)

expectedIdempotencyBehavior ==
    [deterministic_key_ref |-> "deterministic_key_required",
     exact_replay_ref |-> "exact_replay_returns_existing_ref",
     digest_collision_ref |-> "digest_collision_fails_closed"]

idempotencyRef ==
    Entry([idempotency_kind |-> Text(Range(writerPreflightIdempotencyRefKinds)),
           idempotency_ref |-> normalizeRepoRef,
           behavior |-> Text(Range(expectedIdempotencyBehavior)),
           current_state |-> Is("source_ref_only")]
          @@ Lowered({"storage_lookup_allowed", "mutation_allowed"}))

defaultWriterPreflightIdempotencyRefs ==
    Each(idempotencyRef, "idempotency_kind", writerPreflightIdempotencyRefKinds)

normalizeIdempotencyRefs ==
    Tied(OneOfEach("idempotency_kind", writerPreflightIdempotencyRefKinds,
                   defaultWriterPreflightIdempotencyRefs, idempotencyRef),
         [k \in DOMAIN expectedIdempotencyBehavior |->
            [behavior |-> expectedIdempotencyBehavior[k]]])

expectedRedactionCheckKind ==
    [RAW_COMMAND_WITHHELD |-> "raw_command", RAW_REJECTED_VALUE_WITHHELD |-> "raw_rejected_value",
     SECRET_VALUE_WITHHELD |-> "secret_value", RAW_PAYLOAD_ECHO_BLOCKED |-> "raw_payload"]

redactionCheck ==
    Entry([check_id |-> Text(Range(writerPreflightRedactionCheckIds)),
           check_kind |-> Text(Range(expectedRedactionCheckKind)),
           source_ref |-> normalizeRepoRef, action |-> Is("withhold_before_persistence"),
           current_state |-> Is("source_ref_only"), raw_value_echo_allowed |-> False])

defaultWriterPreflightRedactionChecks ==
    Each(redactionCheck, "check_id", writerPreflightRedactionCheckIds)

normalizeRedactionChecks ==
    Tied(Ordered(OneOfEach("check_id", writerPreflightRedactionCheckIds,
                           defaultWriterPreflightRedactionChecks, redactionCheck)),
         [k \in DOMAIN expectedRedactionCheckKind |->
            [check_kind |-> expectedRedactionCheckKind[k]]])

auditObligationRef ==
    Entry([obligation_kind |-> Text(Range(writerPreflightAuditObligationKinds)),
           obligation_ref |-> normalizeRepoRef,
           required_gate |-> Is(writerPreflightTargetGate),
           current_state |-> Is("source_ref_only"), audit_write_allowed |-> False])

defaultWriterPreflightAuditObligationRefs ==
    Each(auditObligationRef, "obligation_kind", writerPreflightAuditObligationKinds)

normalizeAuditObligationRefs ==
    OneOfEach("obligation_kind", writerPreflightAuditObligationKinds,
              defaultWriterPreflightAuditObligationRefs, auditObligationRef)

defaultWriterPreflightNoStoragePosture ==
    Posture({},
            {"database_url_allowed", "connection_string_allowed", "database_connection_allowed",
             "database_write_allowed", "writer_implementation_allowed",
             "persisted_state_writer_allowed", "queue_mutation_allowed", "live_storage_allowed",
             "environment_secret_lookup_allowed"})

normalizeNoStoragePosture == defaultWriterPreflightNoStoragePosture

normalizeSourceRefs == SourceRefs(Fit, Fit, <<"plain">>, {})

defaultWriterPreflightAllowedState ==
    AllowedState({"source_only_writer_preflight_allowed", "writer_interface_refs_allowed",
                  "idempotency_refs_allowed", "redaction_checks_allowed",
                  "audit_obligation_refs_allowed"},
                 {"writer_implementation_allowed", "persisted_state_writer_allowed",
                  "database_connection_allowed", "database_write_allowed",
                  "migration_execution_allowed", "queue_mutation_allowed",
                  "auth_session_runtime_allowed", "integration_setup_write_allowed",
                  "runtime_adapter_implementation_allowed", "os_connector_package_allowed",
                  "live_storage_allowed", "live_execution_allowed", "python_runtime_required",
                  "os_specific_binary_required"})

normalizeAllowedState == defaultWriterPreflightAllowedState

requestFields ==
    [gate_sequence |-> normalizeGateSequence, schema_entity_refs |-> normalizeSchemaEntityRefs,
     writer_interface_refs |-> normalizeWriterInterfaceRefs,
     idempotency_refs |-> normalizeIdempotencyRefs,
     redaction_checks |-> normalizeRedactionChecks,
     audit_obligation_refs |-> normalizeAuditObligationRefs,
     no_storage_posture |-> normalizeNoStoragePosture,
     source_refs |-> normalizeSourceRefs, allowed_state |-> normalizeAllowedState,
     contract_authority |-> Is("source_only_writer_preflight_no_storage_no_writer")]

contract == GateContractOf(requestFields, writerPreflightBlockedCapabilityFlags)

normalizeRequest(request) == Gated(contract, request, NoOtherRule)

createWriterPreflightContract(request) == normalizeRequest(request)

======================================================================================
