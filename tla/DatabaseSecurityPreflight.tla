-------------------------- MODULE DatabaseSecurityPreflight --------------------------
(***************************************************************************)
(* packages/packets/src/database-security-preflight-contract.ts, gate G05: *)
(* isolation, roles and grants as references, before there is a database.  *)
(***************************************************************************)
EXTENDS PersistenceVocabulary

databaseSecurityPreflightTargetGate == "G05_DATABASE_SECURITY"

databaseSecurityIsolationRefKinds ==
    <<"tenant_project_scope_ref", "row_level_policy_or_equivalent_ref",
      "writer_select_filter_ref">>

databaseSecurityRoleBoundaryKinds ==
    <<"writer_role_ref", "select_role_ref", "migration_role_ref">>

databaseSecurityGrantRefKinds ==
    <<"deny_by_default_grant_ref", "insert_only_writer_grant_ref", "scoped_select_grant_ref",
      "migration_approval_grant_ref", "no_update_delete_truncate_grant_ref">>

databaseSecurityStaticCheckIds ==
    <<"TENANT_PROJECT_ISOLATION", "ROLE_BOUNDARY_SEPARATION", "DENY_BY_DEFAULT_GRANTS",
      "NO_BROAD_AUDIT_MUTATION", "NO_CONNECTION_STRING", "NO_ROLE_GRANT_EXECUTION",
      "NO_SECRET_VALUE", "NO_SQL_OR_DDL_EXECUTION">>

normalizeRepoRef == Ref
normalizeSafeSummary == Ref

normalizeGateSequence == GatesInOrder

DatabaseSecuritySchemaEntityRefInput ==
    Entry([entity_name |-> Text(Range(persistenceSchemaEntityNames)),
           schema_contract_ref |-> normalizeRepoRef, writer_preflight_ref |-> normalizeRepoRef,
           database_security_ref |-> normalizeRepoRef,
           current_state |-> Is("source_ref_only_no_db_connection"),
           target_gate |-> Is(databaseSecurityPreflightTargetGate),
           tenant_project_scope_required |-> True, live_storage_allowed |-> False])

defaultDatabaseSecuritySchemaEntityRefs ==
    Each(DatabaseSecuritySchemaEntityRefInput, "entity_name", persistenceSchemaEntityNames)

normalizeSchemaEntityRefs ==
    Ordered(OneOfEach("entity_name", persistenceSchemaEntityNames,
                      defaultDatabaseSecuritySchemaEntityRefs,
                      DatabaseSecuritySchemaEntityRefInput))

isolationRef ==
    Entry([isolation_kind |-> Text(Range(databaseSecurityIsolationRefKinds)),
           isolation_ref |-> normalizeRepoRef, summary |-> normalizeSafeSummary,
           current_state |-> Is("source_ref_only_no_policy_execution"),
           target_gate |-> Is(databaseSecurityPreflightTargetGate),
           tenant_project_scope_required |-> True]
          @@ Lowered({"database_policy_execution_allowed", "live_storage_allowed"}))

defaultDatabaseSecurityIsolationRefs ==
    Each(isolationRef, "isolation_kind", databaseSecurityIsolationRefKinds)

normalizeIsolationRefs ==
    OneOfEach("isolation_kind", databaseSecurityIsolationRefKinds,
              defaultDatabaseSecurityIsolationRefs, isolationRef)

roleBoundaryRef ==
    Entry([role_kind |-> Text(Range(databaseSecurityRoleBoundaryKinds)),
           role_ref |-> normalizeRepoRef, summary |-> normalizeSafeSummary,
           current_state |-> Is("source_ref_only_no_role_or_grant_mutation")]
          @@ Lowered({"database_role_connection_allowed", "grant_mutation_allowed",
                      "sql_execution_allowed", "superuser_role_allowed", "bypass_rls_allowed"}))

defaultDatabaseSecurityRoleBoundaryRefs ==
    Each(roleBoundaryRef, "role_kind", databaseSecurityRoleBoundaryKinds)

normalizeRoleBoundaryRefs ==
    OneOfEach("role_kind", databaseSecurityRoleBoundaryKinds,
              defaultDatabaseSecurityRoleBoundaryRefs, roleBoundaryRef)

grantRef ==
    Entry([grant_kind |-> Text(Range(databaseSecurityGrantRefKinds)),
           grant_ref |-> normalizeRepoRef, summary |-> normalizeSafeSummary,
           current_state |-> Is("source_ref_only_deny_by_default"), deny_by_default |-> True]
          @@ Lowered({"grant_application_allowed", "role_grant_mutation_allowed",
                      "broad_audit_mutation_allowed"}))

defaultDatabaseSecurityGrantRefs == Each(grantRef, "grant_kind", databaseSecurityGrantRefKinds)

normalizeGrantRefs ==
    OneOfEach("grant_kind", databaseSecurityGrantRefKinds,
              defaultDatabaseSecurityGrantRefs, grantRef)

\* A check may be of any kind, whatever its id.
isDatabaseSecurityCheckKind ==
    {"tenant_project_isolation", "role_boundary", "deny_by_default_grant",
     "broad_audit_mutation", "no_connection", "no_role_grant_execution", "no_secret",
     "no_sql_or_ddl"}

staticCheck ==
    Entry([check_id |-> Text(Range(databaseSecurityStaticCheckIds)),
           check_kind |-> Text(isDatabaseSecurityCheckKind), source_ref |-> normalizeRepoRef,
           required_gate |-> Is(databaseSecurityPreflightTargetGate),
           current_state |-> Is("static_check_ref_only")]
          @@ Lowered({"execution_allowed", "raw_sql_allowed"}))

defaultDatabaseSecurityStaticChecks ==
    Each(staticCheck, "check_id", databaseSecurityStaticCheckIds)

normalizeStaticChecks ==
    OneOfEach("check_id", databaseSecurityStaticCheckIds,
              defaultDatabaseSecurityStaticChecks, staticCheck)

defaultDatabaseSecurityNoConnectionPosture ==
    Posture({},
            {"database_url_allowed", "connection_string_allowed", "database_connection_allowed",
             "database_write_allowed", "sql_execution_allowed", "ddl_execution_allowed",
             "policy_ddl_execution_allowed", "role_grant_execution_allowed",
             "role_grant_mutation_allowed", "grant_application_allowed", "live_storage_allowed",
             "environment_secret_lookup_allowed"})

normalizeNoConnectionPosture == defaultDatabaseSecurityNoConnectionPosture

normalizeSourceRefs == SourceRefs(Fit, Fit, <<"plain">>, {})

defaultDatabaseSecurityAllowedState ==
    AllowedState({"source_only_database_security_preflight_allowed",
                  "tenant_project_isolation_refs_allowed", "role_boundary_refs_allowed",
                  "deny_by_default_grant_refs_allowed", "static_check_refs_allowed"},
                 {"database_connection_allowed", "database_write_allowed",
                  "sql_execution_allowed", "ddl_execution_allowed",
                  "role_grant_mutation_allowed", "role_grant_execution_allowed",
                  "grant_application_allowed", "broad_audit_mutation_allowed",
                  "superuser_role_allowed", "bypass_rls_allowed",
                  "writer_implementation_allowed", "migration_execution_allowed",
                  "auth_session_runtime_allowed", "integration_setup_write_allowed",
                  "runtime_adapter_implementation_allowed", "os_connector_package_allowed",
                  "live_storage_allowed", "live_execution_allowed", "python_runtime_required",
                  "os_specific_binary_required"})

normalizeAllowedState == defaultDatabaseSecurityAllowedState

requestFields ==
    [gate_sequence |-> normalizeGateSequence, schema_entity_refs |-> normalizeSchemaEntityRefs,
     isolation_refs |-> normalizeIsolationRefs, role_boundary_refs |-> normalizeRoleBoundaryRefs,
     grant_refs |-> normalizeGrantRefs, static_checks |-> normalizeStaticChecks,
     no_connection_posture |-> normalizeNoConnectionPosture,
     source_refs |-> normalizeSourceRefs, allowed_state |-> normalizeAllowedState,
     contract_authority |-> Is("source_only_database_security_preflight_no_db_no_grants")]

contract == GateContractOf(requestFields, databaseSecurityPreflightBlockedCapabilityFlags)

normalizeRequest(request) == Gated(contract, request, NoOtherRule)

createDatabaseSecurityPreflightContract(request) == normalizeRequest(request)

======================================================================================
