------------------------ MODULE MigrationArtifactStaticReview ------------------------
(***************************************************************************)
(* packages/packets/src/migration-artifact-static-review.ts, gate G03:     *)
(* which references a review of migration artifacts holds, and what it     *)
(* looks for in them.                                                      *)
(***************************************************************************)
EXTENDS PersistenceVocabulary

migrationArtifactStaticReviewTargetGate == "G03_MIGRATION_ARTIFACT_STATIC"

migrationArtifactStaticReviewArtifactKinds ==
    <<"migration_manifest_ref", "sql_artifact_ref", "rollback_ref", "static_check_ref">>

migrationArtifactStaticReviewCheckIds ==
    <<"GATE_ORDER_COVERAGE", "SCHEMA_ENTITY_COVERAGE", "MIGRATION_MANIFEST_REF_PRESENT",
      "SQL_ARTIFACT_REF_PRESENT_NO_CONTENT", "ROLLBACK_REF_PRESENT", "FORBIDDEN_TOKEN_SCAN",
      "NO_CONNECTION_STRING", "NO_MIGRATION_RUNNER", "NO_SECRET_VALUE">>

migrationArtifactStaticReviewForbiddenTokens ==
    <<"DATABASE_URL", "postgres://", "postgresql://", "mysql://", "sqlite://",
      "connection_string", "password=", "api_key", "secret-token", "psql ",
      "prisma migrate deploy", "drizzle-kit migrate", "typeorm migration:run", "dbmate up",
      "supabase db push">>

\* validateUnsafeString finds connection strings, secrets and the commands of runners.
normalizeRepoRef == Ref
normalizeSafeSummary == Ref

normalizeGateSequence == GatesInOrder

entityCoverage ==
    Entry([entity_name |-> Text(Range(persistenceSchemaEntityNames)),
           schema_contract_ref |-> normalizeRepoRef, migration_manifest_ref |-> normalizeRepoRef,
           coverage_state |-> Is("covered_by_source_only_static_review"),
           target_gate |-> Is(migrationArtifactStaticReviewTargetGate),
           live_storage_allowed |-> False])

defaultMigrationArtifactStaticReviewEntityCoverage ==
    Each(entityCoverage, "entity_name", persistenceSchemaEntityNames)

normalizeEntityCoverage ==
    Ordered(OneOfEach("entity_name", persistenceSchemaEntityNames,
                      defaultMigrationArtifactStaticReviewEntityCoverage, entityCoverage))

artifactRef ==
    Entry([artifact_kind |-> Text(Range(migrationArtifactStaticReviewArtifactKinds)),
           artifact_ref |-> normalizeRepoRef, summary |-> normalizeSafeSummary,
           current_state |-> Is("source_ref_only_no_sql_content"), repo_local |-> True]
          @@ Lowered({"contains_sql_content", "connection_required", "execution_allowed"}))

defaultMigrationArtifactStaticReviewArtifactRefs ==
    Each(artifactRef, "artifact_kind", migrationArtifactStaticReviewArtifactKinds)

normalizeArtifactRefs ==
    OneOfEach("artifact_kind", migrationArtifactStaticReviewArtifactKinds,
              defaultMigrationArtifactStaticReviewArtifactRefs, artifactRef)

rollbackRef ==
    Entry([rollback_ref |-> normalizeRepoRef, summary |-> normalizeSafeSummary,
           current_state |-> Is("source_ref_only"), execution_allowed |-> False])

defaultMigrationArtifactStaticReviewRollbackRefs ==
    <<PlainObject(rollbackRef), PlainObject(rollbackRef)>>

normalizeRollbackRefs == List(rollbackRef, 1, defaultMigrationArtifactStaticReviewRollbackRefs)

\* A check may be of any kind, whatever its id.
isStaticCheckKind ==
    {"gate_order", "schema_coverage", "manifest_ref", "sql_ref", "rollback_ref",
     "forbidden_token", "no_connection", "no_runner", "no_secret"}

staticCheckRef ==
    Entry([check_id |-> Text(Range(migrationArtifactStaticReviewCheckIds)),
           check_kind |-> Text(isStaticCheckKind), source_ref |-> normalizeRepoRef,
           required_gate |-> Is(migrationArtifactStaticReviewTargetGate),
           current_state |-> Is("source_ref_only"), external_execution_allowed |-> False])

defaultMigrationArtifactStaticReviewStaticCheckRefs ==
    Each(staticCheckRef, "check_id", migrationArtifactStaticReviewCheckIds)

normalizeStaticCheckRefs ==
    Ordered(OneOfEach("check_id", migrationArtifactStaticReviewCheckIds,
                      defaultMigrationArtifactStaticReviewStaticCheckRefs, staticCheckRef))

classifyForbiddenToken(token) ==
    CASE token = "DATABASE_URL" -> "database_url"
      [] token \in {"postgres://", "postgresql://", "mysql://", "sqlite://",
                    "connection_string"} -> "connection_string"
      [] token \in {"password=", "api_key", "secret-token"} -> "secret_value"
      [] OTHER -> "migration_runner"

forbiddenTokenCheck ==
    Entry([token |-> Text(Range(migrationArtifactStaticReviewForbiddenTokens)),
           token_kind |->
                Text({"database_url", "connection_string", "secret_value", "migration_runner"}),
           action |-> Is("reject_if_present"), current_state |-> Is("static_check_only")])

defaultMigrationArtifactStaticReviewForbiddenTokenChecks ==
    Each(forbiddenTokenCheck, "token", migrationArtifactStaticReviewForbiddenTokens)

normalizeForbiddenTokenChecks ==
    Tied(Ordered(OneOfEach("token", migrationArtifactStaticReviewForbiddenTokens,
                           defaultMigrationArtifactStaticReviewForbiddenTokenChecks,
                           forbiddenTokenCheck)),
         [t \in Range(migrationArtifactStaticReviewForbiddenTokens) |->
            [token_kind |-> classifyForbiddenToken(t)]])

defaultMigrationArtifactStaticReviewNoConnectionPosture ==
    Posture({},
            {"database_url_allowed", "connection_string_allowed", "database_connection_allowed",
             "database_write_allowed", "sql_execution_allowed", "live_sql_execution_allowed",
             "migration_runner_allowed", "migration_execution_allowed",
             "environment_secret_lookup_allowed"})

normalizeNoConnectionPosture == defaultMigrationArtifactStaticReviewNoConnectionPosture

normalizeSourceRefs == SourceRefs(Fit, Fit, <<"plain">>, {})

defaultMigrationArtifactStaticReviewAllowedState ==
    AllowedState({"source_only_static_review_allowed", "migration_manifest_refs_allowed",
                  "sql_artifact_refs_allowed", "rollback_refs_allowed",
                  "static_check_refs_allowed"},
                 {"sql_artifact_content_allowed", "sql_execution_allowed",
                  "live_sql_execution_allowed", "migration_execution_allowed",
                  "migration_runner_allowed", "database_connection_allowed",
                  "database_write_allowed", "writer_implementation_allowed",
                  "auth_session_runtime_allowed", "integration_setup_write_allowed",
                  "runtime_adapter_implementation_allowed", "os_connector_package_allowed",
                  "live_storage_allowed", "live_execution_allowed", "python_runtime_required",
                  "os_specific_binary_required"})

normalizeAllowedState == defaultMigrationArtifactStaticReviewAllowedState

requestFields ==
    [gate_sequence |-> normalizeGateSequence, schema_entity_coverage |-> normalizeEntityCoverage,
     artifact_refs |-> normalizeArtifactRefs, rollback_refs |-> normalizeRollbackRefs,
     static_check_refs |-> normalizeStaticCheckRefs,
     forbidden_token_checks |-> normalizeForbiddenTokenChecks,
     no_connection_posture |-> normalizeNoConnectionPosture,
     source_refs |-> normalizeSourceRefs, allowed_state |-> normalizeAllowedState,
     contract_authority |-> Is("source_only_migration_artifact_static_review_no_db_no_runner")]

contract == GateContractOf(requestFields, migrationArtifactStaticReviewBlockedCapabilityFlags)

normalizeRequest(request) == Gated(contract, request, NoOtherRule)

createMigrationArtifactStaticReview(request) == normalizeRequest(request)

======================================================================================
