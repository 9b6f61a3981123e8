---------------------------- MODULE ControlVocabulary ----------------------------
(***************************************************************************)
(* The enumerations that the substrate-control and adapter contracts of    *)
(* packages/packets repeat file by file, with the same members in each.    *)
(***************************************************************************)
EXTENDS SourceContract

substrateKinds == {"repos", "hosts", "containers", "services", "databases", "queues",
                   "tunnels", "cloud_accounts", "agents", "models"}

controlModes == {"observation", "proposal", "approval_gated_mutation", "forbidden_mutation"}

actorTypes == {"human", "agent", "local_model", "commercial_model", "script", "worker",
               "mcp_client", "cli_client", "automation"}

approvalTypes == {"human", "policy", "runbook", "rollback_owner"}

packetFamilies == {"capability", "execution", "environment", "audit", "results", "rollback"}

resultStatuses == {"approved", "denied", "completed", "failed", "rolled_back"}

\* The audit events that every contract demands, in the order of its defaults;
\* approval_denied may be planned as well.
requiredAuditEvents ==
    <<"tool_requested", "policy_checked", "approval_requested", "approval_granted",
      "tool_denied", "runbook_started", "runbook_completed", "decision_recorded">>

auditEventTypes == {"approval_denied"} \cup {requiredAuditEvents[i] : i \in 1 .. 8}

\* The adapter class that each kind of substrate is controlled through.
adapterBySubstrateKind ==
    [repos |-> "repo_control_adapter", hosts |-> "host_control_adapter",
     containers |-> "container_control_adapter", services |-> "service_control_adapter",
     databases |-> "database_control_adapter", queues |-> "queue_control_adapter",
     tunnels |-> "tunnel_control_adapter",
     cloud_accounts |-> "cloud_account_control_adapter",
     agents |-> "agent_control_adapter", models |-> "model_control_adapter"]

adapterClasses ==
    {"no_adapter_dispatch"} \cup {adapterBySubstrateKind[k] : k \in substrateKinds}

-----------------------------------------------------------------------------
(***************************************************************************)
(* Parts of a request that the contracts shape alike, given the texts that *)
(* the file's own predicates admit and those that it refuses anywhere in   *)
(* the part.                                                               *)
(***************************************************************************)
Actor(ref, refused) ==
    Object([actor_ref |-> Text(ref), actor_type |-> Text(actorTypes),
            role_ref |-> Text(ref)], refused)

PolicyGate(gate, ref, refused) ==
    Object([gate_ref |-> Text(gate), decision_ref |-> Text(ref), required |-> True], refused)

Approval(ref, refused) ==
    Object([approval_ref |-> Text(ref), approval_type |-> Text(approvalTypes),
            required |-> True], refused)

AuditEvent ==
    Object([event_type |-> Text(auditEventTypes), required |-> True,
            packet_family |-> Text(packetFamilies)], {})

ResultExpectation(ref, statuses, refs, string, refused) ==
    Object([result_packet_ref |-> Text(ref), expected_statuses |-> statuses,
            artifact_refs |-> refs, operator_visible_summary |-> Text(string)], refused)

RollbackExpectation(ref, refs, refused) ==
    Object([rollback_ref |-> Text(ref), required_for_risk_level_at_or_above |-> Level,
            owner_ref |-> Text(ref), evidence_refs |-> refs], refused)

SourceRef(ref, string, refused) ==
    Object([source_ref |-> Text(ref), summary |-> Text(string)], refused)

\* An identity: a reference, a name and an owner.
Identity(ref, name, safeRef, safeString) ==
    Object((ref :> Text(safeRef)) @@ (name :> Text(safeString)) @@ [owner_ref |-> Text(safeRef)], {})

\* A reference to evidence of another contract.
EvidenceOf(ref, id, safeRef, safeString, refused) ==
    Object((ref :> Text(safeRef)) @@ [evidence_ref |-> Text(safeRef),
               contract_id |-> Text({id}), summary |-> Text(safeString)], refused)

\* Lists of them, with a sample that covers what the contract asks of the list.
Items(shape, least) == List(shape, least, <<PlainObject(shape)>>)
Approvals(shape, least) ==
    List(shape, least, Each(shape, "approval_type", <<"human", "rollback_owner">>))
AuditPlan(shape, part, least) == List(shape, least, Each(shape, part, requiredAuditEvents))

\* An audit plan names every required event.
PlansEveryEvent(e, plan, event) ==
    {requiredAuditEvents[i] : i \in 1 .. 8} \subseteq Named(e, plan, event)

-----------------------------------------------------------------------------
\* Shapes of the contracts that lead from an implementation plan to its
\* dry-run evidence (packages/packets/src/runtime-adapter-implementation-
\* *.ts).  From the authorization request on an item may hold other keys,
\* which are left out, and a rollback threshold may be any number.

\* safeRefValue and safeStringValue of the authorization request and the
\* approval gate; rawCommand needs a blank, so that no reference is refused by it.
safeRefValue == Refs \ {"secret"}
safeStringValue == Strings \ {"secret", "command", "unsafe"}

PlannedFile(ref, path, string, refused) ==
    Object([file_ref |-> Text(ref), path_ref |-> Text(path), module_ref |-> Text(ref),
            purpose |-> Text(string)], refused)

ImplementationStep(ref, string, refused) ==
    Object([step_ref |-> Text(ref), summary |-> Text(string), evidence_ref |-> Text(ref)], refused)

ValidationCommand(ref, string, refused) ==
    Object([validation_ref |-> Text(ref), command_ref |-> Text(ref),
            expected_artifact_ref |-> Text(ref), summary |-> Text(string)], refused)

DryRun(ref, string, refused) ==
    Object([dry_run_ref |-> Text(ref), expected_artifact_ref |-> Text(ref),
            summary |-> Text(string)], refused)

AuditRef(ref, string, refused) ==
    Object([audit_ref |-> Text(ref), event_type |-> Text(auditEventTypes),
            evidence_ref |-> Text(ref), summary |-> Text(string)], refused)

\* A review of the chain so far, under the packet that recorded it.
PacketReview(ref, packet, safeRef, string) ==
    Object((ref :> Text(safeRef)) @@ [packet_ref |-> Text({packet}), evidence_ref |-> Text(safeRef),
               summary |-> Text(string)], {"secret"})

FuturePacket(ref, string, refused) ==
    Object([packet_ref |-> Text(ref), packet_name |-> Text(string), owner_ref |-> Text(ref),
            summary |-> Text(string)], refused)

HumanApproval(ref, refused) ==
    Object([approval_ref |-> Text(ref), approval_type |-> Text({"human"}), required |-> True],
           refused)

LooseRollback(ref) ==
    [RollbackExpectation(ref, SomeOf(ref), {"secret"}) EXCEPT
        !.parts.required_for_risk_level_at_or_above = AnyNumber]

RuntimeFlags ==
    LiveFlags \cup {"runtime_adapter_implementation_allowed", "runtime_adapter_dispatch_allowed"}

==================================================================================
