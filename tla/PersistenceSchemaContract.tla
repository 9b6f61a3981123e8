-------------------------- MODULE PersistenceSchemaContract --------------------------
(***************************************************************************)
(* packages/packets/src/persistence-schema-contract.ts: the entities that  *)
(* may be stored one day, in their order, each with its fields, scope,     *)
(* retention, roles and gates.                                             *)
(***************************************************************************)
EXTENDS PersistenceVocabulary

persistenceSchemaRetentionClasses ==
    <<"build_state", "source_snapshot", "audit_hot", "approval_preview", "eval_evidence",
      "embedding_cache", "auth_integration_reference">>

persistenceSchemaTenantProjectScopeModes ==
    {"direct", "inherited", "approved_equivalent_required"}

persistenceSchemaRoleBoundaryRefs ==
    <<"reader_select_scoped", "writer_append_only", "migration_approval_only",
      "gateway_policy_boundary", "approval_reviewer_boundary",
      "deployment_owner_auth_integration", "runtime_blocked_boundary">>

persistenceSchemaMigrationReadinessRefs ==
    <<"G02_SCHEMA_CONTRACT", "G03_MIGRATION_ARTIFACT_STATIC", "G04_WRITER_PREFLIGHT",
      "G05_DATABASE_SECURITY", "G06_POLICY_GATE", "G07_APPROVAL_REQUEST",
      "G08_PERSISTENCE_READINESS", "G09_IMPLEMENTATION_PACKET", "BP-0039_POLICY_DECISION",
      "BP-0040_APPROVAL_REQUEST", "BP-0071_READINESS_GATE", "BP-0077_SCOPE_REQUEST",
      "BP-0080_SCOPE_METADATA">>

sourceDocs ==
    <<"PERSISTENCE_SCHEMA_PLAN", "PERSISTENCE_AND_POLICY_GATE_REVIEW",
      "AUTH_AND_INTEGRATION_POSTURE", "DATA_MODEL", "CONTRACT_PROVENANCE">>

\* A path may hold blanks, a field name may not.
safePath == Strings \ {"secret"}
normalizeFieldNames == EveryOf(Refs \ {"secret"}, 1)
normalizeRepoPathList == EveryOf(safePath, 1)
normalizeEnumValue(members) == Text(members)
normalizeEnumList(members) == EveryOf(members, 1)

entity ==
    Entry([entity_name |-> Text(Range(persistenceSchemaEntityNames)),
           field_names |-> normalizeFieldNames, source_refs |-> normalizeRepoPathList,
           tenant_project_scope |-> normalizeEnumValue(persistenceSchemaTenantProjectScopeModes),
           retention_class |-> normalizeEnumValue(Range(persistenceSchemaRetentionClasses)),
           role_boundary_refs |-> normalizeEnumList(Range(persistenceSchemaRoleBoundaryRefs)),
           migration_readiness_refs |->
                normalizeEnumList(Range(persistenceSchemaMigrationReadinessRefs)),
           current_state |-> Is("source_contract_only"), live_storage_allowed |-> False])

defaultPersistenceSchemaEntities == Each(entity, "entity_name", persistenceSchemaEntityNames)

normalizeEntities ==
    Ordered(OneOfEach("entity_name", persistenceSchemaEntityNames,
                      defaultPersistenceSchemaEntities, entity))

normalizeSourceRefs == SourceRefs(safePath, Strings \ {"secret"}, sourceDocs, {})

normalizeRequiredRefList(required) == AllOf(required)

defaultPersistenceSchemaAllowedState ==
    AllowedState({"source_only_contract_allowed"},
                 {"schema_sql_artifact_allowed", "database_connection_allowed",
                  "database_write_allowed", "migration_execution_allowed",
                  "writer_implementation_allowed", "auth_session_runtime_allowed",
                  "integration_setup_write_allowed", "runtime_adapter_implementation_allowed",
                  "os_connector_package_allowed", "live_storage_allowed",
                  "live_execution_allowed", "python_runtime_required",
                  "os_specific_binary_required"})

normalizeAllowedState == defaultPersistenceSchemaAllowedState

requestFields ==
    [entities |-> normalizeEntities, source_refs |-> normalizeSourceRefs,
     retention_classes |-> normalizeRequiredRefList(persistenceSchemaRetentionClasses),
     role_boundary_refs |-> normalizeRequiredRefList(persistenceSchemaRoleBoundaryRefs),
     migration_readiness_refs |->
        normalizeRequiredRefList(persistenceSchemaMigrationReadinessRefs),
     allowed_state |-> normalizeAllowedState,
     contract_authority |-> Is("source_only_schema_contract_no_db_no_migration")]

contract == GateContractOf(requestFields, persistenceSchemaBlockedCapabilityFlags)

normalizeRequest(e) == Tells(e, "source_refs", Range(sourceDocs))

createPersistenceSchemaContract(request) == Gated(contract, request, normalizeRequest)

======================================================================================
