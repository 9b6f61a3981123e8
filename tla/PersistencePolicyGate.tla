---------------------------- MODULE PersistencePolicyGate ----------------------------
(***************************************************************************)
(* packages/packets/src/persistence-policy-gate.ts: the ten gates before   *)
(* anything is stored, in their order, and the gates that own each scope.  *)
(* A key that is present has to fit, null included, and the default is not *)
(* checked: its text speaks of "secret refs", which safeString refuses.    *)
(***************************************************************************)
EXTENDS PersistenceVocabulary

persistencePolicyScopeKeys ==
    <<"DB_CONNECTION_WRITE", "WRITER_IMPLEMENTATION", "MIGRATION_EXECUTION",
      "APPROVAL_MUTATION", "AUTH_SESSION_STORE", "INTEGRATION_SETUP_WRITES",
      "RUNTIME_ADAPTER_IMPLEMENTATION", "OS_LEVEL_CONNECTOR_PACKAGE",
      "EXTERNAL_SERVICE_OR_LIVE_CONNECTOR">>

safeString == Strings \ {"secret"}
safeSourceRef == Refs \ {"secret"}

normalizeStringRefs == EveryOf(safeString, 1)

normalizeGateIdRefs == EveryOf(Range(persistencePolicyGateIds), 1)

normalizeGate ==
    Object([order |-> [shape |-> "number", scale |-> Nat \ {0}],
            gate_id |-> Text(Range(persistencePolicyGateIds)), gate_name |-> Text(safeString),
            required_evidence_refs |-> normalizeStringRefs,
            opens_now |-> Text({"read-only", "none"}), opens_later |-> normalizeStringRefs], {})

\* The default: only the last gate's evidence speaks of secrets.
defaultPersistencePolicyGateSequence ==
    [i \in DOMAIN persistencePolicyGateIds |->
        O([order |-> N(i), gate_id |-> T(persistencePolicyGateIds[i]),
           gate_name |-> T("default"),
           required_evidence_refs |->
                L(IF i = 10 THEN <<T("default"), T("secret refs")>> ELSE <<T("default")>>),
           opens_now |-> T(IF i <= 8 THEN "read-only" ELSE "none"),
           opens_later |-> L(<<T("default")>>)])]

InPlainWords(item, parts) == O([p \in parts |-> L(<<T("plain")>>)] @@ item.parts)

normalizeGateSequence ==
    List(normalizeGate, 1,
         [i \in DOMAIN persistencePolicyGateIds |->
            InPlainWords([defaultPersistencePolicyGateSequence[i] EXCEPT
                                !.parts["gate_name"] = T("plain")],
                         {"required_evidence_refs", "opens_later"})])

validateGateOrder(gates) ==
    /\ Len(gates) = Len(persistencePolicyGateIds)
    /\ \A i \in DOMAIN gates :
          gates[i].parts.gate_id = T(persistencePolicyGateIds[i]) /\ gates[i].parts.order = N(i)

OwningGates ==
    LET G == persistencePolicyGateIds
    IN  [DB_CONNECTION_WRITE |-> <<G[5], G[8], G[10]>>,
         WRITER_IMPLEMENTATION |-> <<G[4], G[6], G[7], G[9]>>,
         MIGRATION_EXECUTION |-> <<G[3], G[6], G[7], G[10]>>,
         APPROVAL_MUTATION |-> <<G[6], G[7], G[8], G[9]>>,
         AUTH_SESSION_STORE |-> <<G[2], G[5], G[6], G[9]>>,
         INTEGRATION_SETUP_WRITES |-> <<G[2], G[6], G[7], G[9]>>,
         RUNTIME_ADAPTER_IMPLEMENTATION |-> <<G[8], G[9]>>,
         OS_LEVEL_CONNECTOR_PACKAGE |-> <<G[6], G[7], G[9]>>,
         EXTERNAL_SERVICE_OR_LIVE_CONNECTOR |-> <<G[6], G[7], G[9]>>]

SpeaksOfSecrets ==
    {"DB_CONNECTION_WRITE", "AUTH_SESSION_STORE", "INTEGRATION_SETUP_WRITES",
     "EXTERNAL_SERVICE_OR_LIVE_CONNECTOR"}

defaultPersistencePolicyScopeOwnership ==
    [i \in DOMAIN persistencePolicyScopeKeys |->
        LET key == persistencePolicyScopeKeys[i]
        IN  O([scope_key |-> T(key), owning_gate_ids |-> TextsInTurn(OwningGates[key]),
               required_later_packet_evidence |->
                    L(IF key \in SpeaksOfSecrets THEN <<T("default"), T("secret refs")>>
                      ELSE <<T("default")>>),
               current_state |-> T("blocked")])]

normalizeScope ==
    Object([scope_key |-> Text(Range(persistencePolicyScopeKeys)),
            owning_gate_ids |-> normalizeGateIdRefs,
            required_later_packet_evidence |-> normalizeStringRefs,
            current_state |-> Is("blocked")], {})

normalizeScopeOwnership ==
    List(normalizeScope, 1,
         [i \in DOMAIN persistencePolicyScopeKeys |->
            InPlainWords(defaultPersistencePolicyScopeOwnership[i],
                         {"required_later_packet_evidence"})])

\* The last entry of a scope is the one that counts.
validateScopeOwnership(scopes) ==
    \A key \in Range(persistencePolicyScopeKeys) :
        LET last == SelectLastInSeq(scopes, LAMBDA s : s.parts.scope_key = T(key))
        IN  /\ last # 0
            /\ scopes[last].parts.owning_gate_ids = TextsInTurn(OwningGates[key])

normalizeSourceRefs ==
    Told(List(Object([source_ref |-> Text(safeSourceRef), summary |-> Text(safeString)], {}), 1,
              <<O([source_ref |-> T("plain"), summary |-> T("plain")])>>), {"source_ref"})

defaultPersistencePolicyAllowedState ==
    [AllowedState({"source_only_contract_allowed", "gateway_security_boundary",
                   "policy_required_before_mutation", "approval_required_before_mutation",
                   "append_only_audit_required_before_live_state_change",
                   "tenant_project_isolation_required_before_live_data"},
                  {"live_execution_allowed", "python_runtime_required",
                   "os_specific_binary_required"}) EXCEPT !.closed = TRUE]

normalizeAllowedState == defaultPersistencePolicyAllowedState

requestFields ==
    [gate_sequence |-> normalizeGateSequence, scope_ownership |-> normalizeScopeOwnership,
     source_refs |-> normalizeSourceRefs, allowed_state |-> normalizeAllowedState,
     contract_authority |-> Is("source_only_persistence_gate_no_live_scope")]

contract ==
    Contract(requestFields,
             [gate_sequence |-> L(defaultPersistencePolicyGateSequence),
              scope_ownership |-> L(defaultPersistencePolicyScopeOwnership)],
             persistencePolicyBlockedCapabilityFlags)

normalizeRequest(e) ==
    /\ validateGateOrder(e.gate_sequence.items)
    /\ validateScopeOwnership(e.scope_ownership.items)

createPersistencePolicyGateContract(request) == Reviewed(contract, request, normalizeRequest)

======================================================================================
