CONSTANTS
    Stages = {"intent", "broker", "manifest", "preflight", "result", "bundle", "readiness",
              "scope", "plan", "authorization", "approval_gate", "dry_run",
              "persistence_gate", "schema", "migration_review", "writer", "database_security",
              "policy_gate", "approval_request", "persistence_readiness", "knowledge_packet",
              "knowledge_read"}
    Stated = {"risk_level", "requested_control_mode", "supported_control_modes",
              "target_substrate_kind", "adapter_class", "proposed_adapter_class",
              "approval_refs", "rollback_expectations", "rollback_refs", "observed_status",
              "output_evidence_refs", "error_evidence_refs", "cross_ref_consistency"}
    Surfaces = {"http", "mcp", "stdio"}
    Ids = {"none", "plain", "odd"}
SPECIFICATION Spec
INVARIANTS
    CleanEvidence
    SurfacesAgree
    BackedByEarlierStage
    LowerRiskAccepted
    RestatedEvidenceAccepted
