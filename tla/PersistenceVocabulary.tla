------------------------- MODULE PersistenceVocabulary -------------------------
(***************************************************************************)
(* What the contracts of the persistence gates (G01 to G10) and of the     *)
(* other source-only reviews share beyond SourceContract.  Their lists     *)
(* hold one entry per required kind, some of them in a fixed order, and    *)
(* some parts of an entry are fixed by its kind.  Their defaults go        *)
(* through the same normalisers as a request, so they are written in       *)
(* fitting words; a field that is null counts as one that is missing.      *)
(* Names that the contracts of the persistence gates share: the gates, the *)
(* entities, the operations that need a policy, and the capabilities that  *)
(* stay blocked, to which every contract adds some of its own.             *)
(***************************************************************************)
EXTENDS SourceContract, SequencesExt

\* Texts that none of these files' patterns refuses.
Fit == {"plain", "another"}
Ref == Text(Fit)
Is(text) == Text({text})
False == Is("false")
Raised(names) == [f \in names |-> True]
Lowered(names) == [f \in names |-> False]

\* An object of which the listed parts are read; it may hold others.
Entry(parts) == Open(Object(parts, {}))

\* A statement that has to say exactly what is expected of it.
Posture(raised, lowered) == Entry(Raised(raised) @@ Lowered(lowered))
AllowedState(raised, lowered) ==
    Entry(Raised(raised) @@ Lowered(lowered)
            @@ [secret_posture |-> Is("references_only_no_values")])

\* A list whose entries name their kinds in the part `by`: every kind has to be there,
\* and where the list is ordered, exactly once and in its place.  What is tied to a kind
\* the entry of that kind has to say.
OneOfEach(by, kinds, sample, of) ==
    List(of, 0, sample) @@ [by |-> by, kinds |-> kinds, ordered |-> FALSE,
                            tied |-> [k \in Range(kinds) |-> <<>>]]
Ordered(list) == [list EXCEPT !.ordered = TRUE]
Tied(list, tie) ==
    [list EXCEPT
        !.tied = tie,
        !.sample = [i \in DOMAIN list.sample |->
            LET told == tie[list.sample[i].parts[list.by].text]
            IN  O([p \in DOMAIN told |-> T(told[p])] @@ list.sample[i].parts)]]

\* The same for a list of texts.
AllOf(kinds) ==
    EveryOf(Range(kinds), 1) @@ [by |-> "itself", kinds |-> kinds, ordered |-> FALSE]

TextsInTurn(texts) == L([i \in DOMAIN texts |-> T(texts[i])])

KindsIn(d, v) ==
    [i \in DOMAIN v.items |->
        IF d.by = "itself" THEN v.items[i].text ELSE v.items[i].parts[d.by].text]

SaysWhatIsTied(d, item) ==
    \A p \in DOMAIN d.tied[item.parts[d.by].text] :
        item.parts[p] = T(d.tied[item.parts[d.by].text][p])

Complete(d, v) ==
    /\ IF d.ordered THEN KindsIn(d, v) = d.kinds
       ELSE Range(d.kinds) \subseteq Range(KindsIn(d, v))
    /\ d.by # "itself" => \A i \in DOMAIN v.items : SaysWhatIsTied(d, v.items[i])

ListsComplete(contract, e) ==
    \A f \in DOMAIN contract.fields :
        "by" \in DOMAIN contract.fields[f] => Complete(contract.fields[f], e[f])

\* Where texts told of a list have to include some.
Tells(e, f, texts) == texts \subseteq TextsOf(e[f])

-----------------------------------------------------------------------------
\* The default evidence says of every field what a requester would.
Usual(d) ==
    CASE d.shape = "object" -> PlainObject(d)
      [] d.shape = "list" -> Normal(d, L(d.sample))
      [] d.shape = "every" /\ "by" \in DOMAIN d -> TextsInTurn(d.kinds)
      [] OTHER -> PlainLeaf(d)

GateContractOf(fields, flags) ==
    Contract(fields, [f \in DOMAIN fields |-> Usual(fields[f])], flags)

\* request.field ?? default: null asks for the default.  The contract's own authority
\* is compared, not defaulted.
Given(contract, request) ==
    IF request.kind # "object" THEN request
    ELSE O([key \in {k \in DOMAIN request.parts :
                        \/ request.parts[k] # Null
                        \/ k \notin DOMAIN contract.fields \ {"contract_authority"}} |->
                request.parts[key]])

Gated(contract, request, Rules(_)) ==
    Reviewed(contract, Given(contract, request),
             LAMBDA e : ListsComplete(contract, e) /\ Rules(e))

NoOtherRule(e) == TRUE

\* Some look for secrets in the whole request before anything else.
HoldsSecret(request) ==
    /\ request.kind = "object"
    /\ \E key \in DOMAIN request.parts : "secret" \in TextsOf(request.parts[key])

\* Evidence that states the contract's own identity, whatever was said in a fitting one.
OwnIdentity(answer, field, identity) ==
    IF answer.ok THEN [answer EXCEPT !.evidence[field] = identity] ELSE answer

\* Values to send for a field: a list may also have its entries the other way round.
GateVariants(d) ==
    {Null} \cup Variants(d) \cup
    CASE d.shape = "every" /\ "by" \in DOMAIN d ->
            {TextsInTurn(d.kinds), TextsInTurn(Reverse(d.kinds))}
            \cup {TextsInTurn(RemoveAt(d.kinds, i)) : i \in DOMAIN d.kinds}
      [] d.shape = "list" -> {L(Reverse(d.sample))}
      [] OTHER -> {}

-----------------------------------------------------------------------------
persistencePolicyGateIds ==
    <<"G01_SOURCE_BASELINE", "G02_SCHEMA_CONTRACT", "G03_MIGRATION_ARTIFACT_STATIC",
      "G04_WRITER_PREFLIGHT", "G05_DATABASE_SECURITY", "G06_POLICY_GATE",
      "G07_APPROVAL_REQUEST", "G08_PERSISTENCE_READINESS", "G09_IMPLEMENTATION_PACKET",
      "G10_LIVE_REQUEST">>

persistenceSchemaEntityNames ==
    <<"knowledge_sources", "knowledge_source_refs", "knowledge_source_snapshots",
     "knowledge_records", "knowledge_record_source_refs", "knowledge_record_tags",
     "knowledge_chunks", "knowledge_context_bundles", "knowledge_context_bundle_records",
     "knowledge_citation_refs", "knowledge_eval_runs", "knowledge_eval_question_results",
     "knowledge_embeddings", "audit_events", "approval_requests", "agent_sessions",
     "packet_runs", "auth_identity_descriptors", "auth_session_descriptors",
     "integration_descriptors", "authorization_role_bindings">>

policyGateOperationKinds ==
    <<"writer.migrate", "writer.create", "ledger.record.append", "approve_action",
     "configure_auth", "configure_integration", "runtime.adapter.implement",
     "os.connector.package">>

policyGateAuditObligationKinds ==
    <<"policy_checked_audit_ref", "approval_requested_audit_ref", "approval_decision_audit_ref",
     "operation_result_audit_ref", "rollback_audit_ref">>

policyGateRollbackKinds ==
    <<"migration_repair_ref", "writer_disable_ref", "approval_state_reversal_ref",
     "auth_or_integration_disablement_ref", "runtime_revert_ref", "host_package_uninstall_ref">>

\* The gates in their order, as every later contract has to repeat them.
GatesInOrder == Ordered(AllOf(persistencePolicyGateIds))

\* References with a summary, of which the evidence keeps the reference.
SourceRefs(refs, summaries, docs, refused) ==
    LET of == Open(Object([source_ref |-> Text(refs \cup Range(docs)),
                           summary |-> Text(summaries)], refused))
    IN  Told(List(of, 1, Each(of, "source_ref", docs)), {"source_ref"})

persistencePolicyBlockedCapabilityFlags ==
    {"database_connection_allowed", "database_write_allowed", "migration_execution_allowed",
     "writer_implementation_allowed", "approval_mutation_allowed", "settings_mutation_allowed",
     "auth_session_store_allowed", "auth_provider_wiring_allowed", "credential_field_allowed",
     "credential_storage_allowed", "integration_setup_write_allowed",
     "runtime_dispatcher_allowed", "runtime_adapter_implementation_allowed",
     "live_broker_dispatch_allowed", "live_adapter_invocation_allowed",
     "live_execution_allowed", "queue_mutation_allowed", "docker_runner_allowed",
     "node_agent_allowed", "ssh_allowed", "raw_shell_allowed", "root_helper_allowed",
     "service_mutation_allowed", "package_install_allowed", "host_service_install_allowed",
     "git_activity_allowed", "deploy_allowed", "dns_cloudflare_mutation_allowed",
     "infrastructure_mutation_allowed", "external_service_call_allowed",
     "python_runtime_required", "os_specific_binary_required"}

persistenceSchemaBlockedCapabilityFlags ==
    persistencePolicyBlockedCapabilityFlags \cup
    {"schema_sql_artifact_allowed", "database_url_allowed", "connection_string_allowed",
     "live_storage_allowed", "embedding_generation_allowed", "schema_migration_runner_allowed"}

migrationArtifactStaticReviewBlockedCapabilityFlags ==
    persistenceSchemaBlockedCapabilityFlags \cup
    {"sql_artifact_content_allowed", "sql_execution_allowed", "live_sql_execution_allowed",
     "migration_artifact_content_allowed", "migration_artifact_execution_allowed",
     "migration_manifest_execution_allowed", "migration_runner_allowed",
     "auth_session_runtime_allowed"}

writerPreflightBlockedCapabilityFlags ==
    migrationArtifactStaticReviewBlockedCapabilityFlags \cup
    {"persisted_state_writer_allowed", "writer_interface_execution_allowed",
     "writer_preflight_execution_allowed", "idempotency_storage_lookup_allowed",
     "idempotency_mutation_allowed", "redaction_runtime_allowed", "audit_append_allowed",
     "environment_secret_lookup_allowed"}

databaseSecurityPreflightBlockedCapabilityFlags ==
    writerPreflightBlockedCapabilityFlags \cup
    {"ddl_execution_allowed", "policy_ddl_execution_allowed", "role_grant_mutation_allowed",
     "role_grant_execution_allowed", "grant_application_allowed",
     "database_role_connection_allowed", "broad_audit_mutation_allowed",
     "superuser_role_allowed", "bypass_rls_allowed", "database_security_runtime_allowed"}

policyGatePreflightBlockedCapabilityFlags ==
    databaseSecurityPreflightBlockedCapabilityFlags \cup
    {"policy_gate_execution_allowed", "policy_decision_persistence_allowed",
     "policy_mutation_allowed", "approve_deny_mutation_allowed",
     "authorization_mutation_allowed", "approval_request_creation_allowed",
     "audit_write_allowed", "audit_mutation_allowed", "rollback_execution_allowed",
     "policy_gate_runtime_allowed"}

approvalRequestPreflightBlockedCapabilityFlags ==
    policyGatePreflightBlockedCapabilityFlags \cup
    {"approval_request_preflight_execution_allowed", "approval_request_creation_allowed",
     "approval_request_persistence_allowed", "approval_decision_persistence_allowed",
     "approval_state_transition_allowed", "approval_mutation_allowed",
     "approve_deny_mutation_allowed", "decision_reason_mutation_allowed",
     "approver_scope_mutation_allowed", "approval_runtime_allowed"}

persistenceReadinessPreflightBlockedCapabilityFlags ==
    approvalRequestPreflightBlockedCapabilityFlags \cup
    {"persistence_readiness_execution_allowed", "implementation_packet_selection_allowed",
     "implementation_scope_request_allowed", "persistence_scope_request_allowed",
     "write_scope_request_allowed", "persisted_storage_allowed", "live_storage_allowed",
     "readiness_state_persistence_allowed", "operation_result_record_allowed",
     "live_operation_result_record_allowed"}

================================================================================
