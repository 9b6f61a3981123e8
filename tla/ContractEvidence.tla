------------------------------ MODULE ContractEvidence ------------------------------
(***************************************************************************)
(* A requester works on a request for one of the source-only contracts:    *)
(* those that lead from a control intent to the dry run of an adapter, or  *)
(* one that is only a library function.  It submits it and keeps           *)
(* what it is shown.  It states the fields that control what is asked for  *)
(* (risk, mode, adapter class, who approves, how to get back), or it slips:*)
(* a value that is off in one part, a key that does not belong, a flag.    *)
(* Fields that are not stated are the contract's own.                      *)
(***************************************************************************)
EXTENDS ControlSurfaces, PersistenceVocabulary

CONSTANTS
    Stages,     \* the contracts that are worked on
    Stated,     \* the control fields that may be stated
    Surfaces,   \* where requests are submitted: "http", "mcp", "stdio"
    Ids         \* the ids they are given: "none", "plain", "odd"

VARIABLES
    stage,      \* the contract the draft is for
    draft,      \* the request: the fields stated so far
    work,       \* how it came about: "stated", "slipped", or from a request that passed,
                \* "again", "earlier" or "lower"
    reply       \* what each surface showed of it

vars == <<stage, draft, work, reply>>

\* The contracts of packages/packets that no route and no tool asks for.  A caller
\* of the package calls their create function itself.
PersistenceGate == INSTANCE PersistencePolicyGate
Schema == INSTANCE PersistenceSchemaContract
MigrationReview == INSTANCE MigrationArtifactStaticReview
Writer == INSTANCE WriterPreflightContract
DatabaseSecurity == INSTANCE DatabaseSecurityPreflight
PolicyPreflight == INSTANCE PolicyGatePreflight
ApprovalRequest == INSTANCE ApprovalRequestPreflight
PersistenceReadiness == INSTANCE PersistenceReadinessPreflight
KnowledgePacket == INSTANCE KnowledgePersistenceImplementationPacket
KnowledgeRead == INSTANCE PersistedKnowledgeReadSurface

libraryContractOf ==
    [persistence_gate |-> PersistenceGate!contract, schema |-> Schema!contract,
     migration_review |-> MigrationReview!contract, writer |-> Writer!contract,
     database_security |-> DatabaseSecurity!contract, policy_gate |-> PolicyPreflight!contract,
     approval_request |-> ApprovalRequest!contract,
     persistence_readiness |-> PersistenceReadiness!contract,
     knowledge_packet |-> KnowledgePacket!contract, knowledge_read |-> KnowledgeRead!contract]

LibraryStages == DOMAIN libraryContractOf

Create(s, request) ==
    CASE s = "persistence_gate" ->
            PersistenceGate!createPersistencePolicyGateContract(request)
      [] s = "schema" -> Schema!createPersistenceSchemaContract(request)
      [] s = "migration_review" ->
            MigrationReview!createMigrationArtifactStaticReview(request)
      [] s = "writer" -> Writer!createWriterPreflightContract(request)
      [] s = "database_security" ->
            DatabaseSecurity!createDatabaseSecurityPreflightContract(request)
      [] s = "policy_gate" -> PolicyPreflight!createPolicyGatePreflightContract(request)
      [] s = "approval_request" ->
            ApprovalRequest!createApprovalRequestPreflightContract(request)
      [] s = "persistence_readiness" ->
            PersistenceReadiness!createPersistenceReadinessPreflightContract(request)
      [] s = "knowledge_packet" ->
            KnowledgePacket!createKnowledgePersistenceImplementationPacket(request)
      [] s = "knowledge_read" ->
            KnowledgeRead!createPersistedKnowledgeReadSurface(request)

\* Every contract.
contractOf ==
    libraryContractOf @@
    [intent |-> Intent!contract, broker |-> Broker!contract, manifest |-> Manifest!contract,
     preflight |-> Invocation!preflightContract, result |-> Invocation!resultContract, bundle |-> Invocation!bundleContract,
     readiness |-> Readiness!contract, scope |-> Implementation!scopeContract, plan |-> Implementation!planContract,
     authorization |-> Implementation!authorizationContract, approval_gate |-> Implementation!approvalGateContract,
     dry_run |-> Implementation!dryRunContract]

requestKey ==
    [intent |-> "intent_request", broker |-> "broker_request", manifest |-> "manifest_request",
     preflight |-> "preflight_request", result |-> "result_request", bundle |-> "bundle_request",
     readiness |-> "readiness_request", scope |-> "implementation_scope_request",
     plan |-> "implementation_plan_request", authorization |-> "authorization_request",
     approval_gate |-> "approval_gate_request", dry_run |-> "dry_run_evidence_request"]

None == [kind |-> "none"]
Empty == [none \in {} |-> Absent]

-----------------------------------------------------------------------------
(***************************************************************************)
(* What a requester states.                                                *)
(***************************************************************************)
agreement ==
    {O([risk_level |-> N(r), requested_control_mode |-> T(m), target_substrate_kind |-> T(k),
        evidence_refs |-> L(<<T("plain")>>)]) :
            r \in {3, 5}, m \in controlModes, k \in {"services", "repos"}}

ControlValues(c, key) ==
    CASE key = "risk_level" -> {N(n) : n \in {3, 4, 5}}
      [] key = "requested_control_mode" -> {T(m) : m \in controlModes}
      [] key = "supported_control_modes" -> {L(<<T(m)>>) : m \in controlModes}
      [] key = "target_substrate_kind" -> {T("services"), T("repos")}
      [] key \in {"adapter_class", "proposed_adapter_class"} ->
            {T("no_adapter_dispatch"), T("repo_control_adapter"), T("service_control_adapter")}
      [] key = "observed_status" -> {T(t) : t \in resultStatuses}
      [] key = "cross_ref_consistency" -> agreement
      [] c.default[key] = L(<<>>) -> {L(c.fields[key].sample)}
      [] OTHER -> {L(<<>>)}

SlipValues(c, key) ==
    CASE key \in c.flags -> {T("true"), T("false"), Absent}
      [] key = "side_effects" -> {L(<<>>), L(<<T("plain")>>), Absent}
      [] key = "version" -> {T("current"), T("odd")}
      [] key = "other" -> {T("plain")}
      [] OTHER -> IF stage \in LibraryStages THEN GateVariants(c.fields[key])
                  ELSE Variants(c.fields[key])

SlipKeys(c) == DOMAIN c.fields \cup c.flags \cup {"side_effects", "version", "other"}

-----------------------------------------------------------------------------
Init ==
    /\ stage = "none"
    /\ draft = Empty
    /\ work = "stated"
    /\ reply = None

Drafting == stage # "none" /\ reply = None

Begin(s) ==
    /\ stage = "none"
    /\ stage' = s
    /\ UNCHANGED <<draft, work, reply>>

State(key) ==
    /\ Drafting /\ work = "stated"
    /\ key \notin DOMAIN draft
    /\ \E c \in {contractOf[stage]} :
          /\ key \in DOMAIN c.fields
          /\ \E v \in ControlValues(c, key) : draft' = draft @@ (key :> v)
    /\ UNCHANGED <<stage, work, reply>>

Slip ==
    /\ Drafting
    /\ draft = Empty
    /\ \E c \in {contractOf[stage]} :
          \E key \in SlipKeys(c) : \E v \in SlipValues(c, key) : draft' = key :> v
    /\ work' = "slipped"
    /\ UNCHANGED <<stage, reply>>

\* The envelope of a submission: with or without an id, which may be off.
Enveloped(id) ==
    O(IF id = "none" THEN requestKey[stage] :> O(draft)
      ELSE [request_id |-> T(id)] @@ (requestKey[stage] :> O(draft)))

\* What a surface lets the requester see of the Gateway's response.
SeenRoute(r) == [failed |-> r.status # 200, body |-> r.body]
SeenAnswer(a) == [failed |-> ~a.ok, body |-> a]
SeenTool(r) == [failed |-> r.is_error, body |-> r.content[1].gateway_response]

ToolCall(id) == O([name |-> T(stage), arguments |-> Enveloped(id)])

Seen(surface, id) ==
    CASE surface = "library" -> SeenAnswer(Create(stage, O(draft)))
      [] surface = "http" -> SeenRoute(buildApiGateway(stage, Enveloped(id)))
      [] surface = "mcp" -> SeenTool(createLnsatReadOnlyMcpServer(ToolCall(id)))
      [] surface = "stdio" ->
            SeenTool(handleLocalStdioSmokeRequestLine(
                         O([tool_call |-> ToolCall(id)])).mcp_response[1])

\* An empty request goes everywhere under every id, a slip everywhere without one, and
\* the rest over HTTP.  A library function is called without one.
Submit(id) ==
    /\ Drafting
    /\ id = "none" \/ (draft = Empty /\ work = "stated" /\ stage \notin LibraryStages)
    /\ \E surfaces \in {CASE stage \in LibraryStages -> {"library"}
                           [] stage \notin LibraryStages /\ (draft = Empty \/ work = "slipped") ->
                                Surfaces
                           [] OTHER -> {"http"}} :
          reply' = [kind |-> "reply", seen |-> [s \in surfaces |-> Seen(s, id)]]
    /\ UNCHANGED <<stage, draft, work>>

Failed ==
    IF stage \in LibraryStages THEN reply.seen["library"].failed ELSE reply.seen["http"].failed
Accepted == reply # None /\ ~Failed
evidence ==
    IF stage \in LibraryStages THEN reply.seen["library"].body.evidence
    ELSE reply.seen["http"].body.shown

\* The request as the evidence tells it: each field as it is shown, unless it holds
\* wording of the contract's own; that one is left as it was requested.  (Some default
\* texts would not pass for stated ones: 'no raw shell or SSH',
\* substrate-control-intent.ts:336, and the refs of persistence-policy-gate.ts:383.)
Restated ==
    [f \in {g \in DOMAIN evidence : {"default", "secret refs"} \cap TextsOf(evidence[g]) = {}} |->
        evidence[f]] @@ draft

\* The contracts that are at least as strict as earlier ones wherever they share fields,
\* with those earlier ones.  (The others are laxer by design: from the result on a
\* forbidden mode may be recorded, bundle, readiness gate and authorization take the
\* words of an approval or a gate as they are.)
backedBy ==
    [broker |-> {"intent"}, preflight |-> {"intent", "broker"},
     scope |-> {"manifest", "result"}, plan |-> {"manifest", "result", "scope"},
     approval_gate |-> {"intent", "broker", "manifest", "preflight"},
     dry_run |-> {"intent", "broker", "manifest", "preflight"}]

\* Evidence is handed back to its contract, or on to one that backs it, in the fields
\* that the two share (source_refs are told as texts).
Carry(t, how) ==
    /\ Accepted /\ work \in {"stated", "slipped"}
    /\ CASE how = "again" -> t = stage
         [] how = "earlier" -> stage \in DOMAIN backedBy /\ t \in backedBy[stage]
    /\ stage' = t /\ work' = how /\ reply' = None
    /\ draft' = Restrict(Restated, (DOMAIN Restated \cap DOMAIN contractOf[t].fields) \ {"source_refs"})

\* The same request at a lower risk.  (A bundle and a readiness gate compare the risk
\* with what the request says elsewhere.)
Lower(r) ==
    /\ Accepted /\ work = "stated" /\ stage \notin {"bundle", "readiness"}
    /\ "risk_level" \in DOMAIN draft /\ r < draft.risk_level.number
    /\ draft' = [draft EXCEPT !.risk_level = N(r)]
    /\ work' = "lower" /\ reply' = None
    /\ UNCHANGED stage

\* The requester starts over, with another contract or the same.
StartOver ==
    /\ reply # None
    /\ stage' = "none" /\ draft' = Empty /\ work' = "stated" /\ reply' = None

Next ==
    \/ \E s \in Stages : Begin(s)
    \/ \E key \in Stated : State(key)
    \/ Slip
    \/ \E id \in Ids : Submit(id)
    \/ \E t \in Stages, how \in {"again", "earlier"} : Carry(t, how)
    \/ \E r \in 0 .. 4 : Lower(r)
    \/ StartOver

Spec == Init /\ [][Next]_vars

-----------------------------------------------------------------------------
Refused == reply # None /\ Failed

\* Evidence never holds a value that looks like a secret, wherever in the request it
\* stood and whichever normaliser saw it.  The capability of an authorization request
\* is the one text that its normaliser does not look into.
CleanEvidence ==
    Accepted => \A f \in DOMAIN evidence \
                            (IF stage = "authorization" THEN {"capability"} ELSE {}) :
                    "secret" \notin TextsOf(evidence[f])

\* Evidence can be handed to the contract it came from and is accepted again: what the
\* normalisers leave out, join or fill in never turns a request that passed into one
\* that does not.  Stating what the contract assumed (the risk, the mode, the lists that
\* went without saying) must not change the verdict; default wording is not restated.
RestatedEvidenceAccepted == work = "again" => ~Refused

\* What a later contract accepts, the contracts in backedBy accept as well, field by
\* field and in all the rules that relate the fields, although every file states the
\* rules and the thresholds anew (requiresApproval and requiresRollback of
\* capability-broker-request.ts:1446 and their copies).
BackedByEarlierStage == work = "earlier" => ~Refused

\* A request that passes at some risk passes at every lower one: no contract asks less
\* of a riskier request.
LowerRiskAccepted == work = "lower" => ~Refused

\* Whether a request is reported as failed, and what is shown of it, does not depend on
\* whether it came over HTTP, as a tool call or as a line.
SurfacesAgree == reply # None => \A s \in DOMAIN reply.seen : s = "library" \/ reply.seen[s] = reply.seen["http"]

====================================================================================
