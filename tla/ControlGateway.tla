------------------------------ MODULE ControlGateway ------------------------------
(***************************************************************************)
(* The Gateway's inspection of each substrate-control and adapter contract *)
(* (apps/api/src/<contract>.ts).  A wrapper unwraps one request, hands it  *)
(* to the contract of packages/packets, and shows either all of the        *)
(* evidence or none of it.                                                 *)
(***************************************************************************)
EXTENDS ControlVocabulary

Intent == INSTANCE SubstrateControlIntent
Broker == INSTANCE CapabilityBrokerRequest
Manifest == INSTANCE SubstrateAdapterManifest
Invocation == INSTANCE AdapterInvocation
Readiness == INSTANCE RuntimeAdapterReadinessGate
Implementation == INSTANCE RuntimeAdapterImplementation

NoId == "none"

\* An envelope holds the request under the wrapper's own key and, if it likes, a
\* request_id.  A safe id is echoed even when the envelope is refused.
Envelope(key, input) ==
    LET parts == IF input.kind = "object" THEN input.parts ELSE [none \in {} |-> Absent]
        named == "request_id" \in DOMAIN parts
        safe == named /\ parts.request_id = T("plain")
    IN  [ok |-> /\ input.kind = "object"
                /\ DOMAIN parts \subseteq {"request_id", key}
                /\ named => safe
                /\ key \in DOMAIN parts,
         request_id |-> IF safe THEN "plain" ELSE NoId,
         request |-> IF key \in DOMAIN parts THEN parts[key] ELSE Absent]

\* What a response shows: each field of the evidence, or nothing.
Shown(id, answer) == [ok |-> TRUE, request_id |-> id, shown |-> answer.evidence]

Withheld(id) == [ok |-> FALSE, request_id |-> id, shown |-> <<>>]

\* The request is given to the contract only once the envelope is sound.
Inspected(id, answer, success(_, _), failure(_)) ==
    IF answer.ok THEN success(id, answer) ELSE failure(id)

Inspection(envelope, create(_), success(_, _), failure(_)) ==
    IF ~envelope.ok THEN failure(envelope.request_id)
    ELSE Inspected(envelope.request_id, create(envelope.request), success, failure)

-----------------------------------------------------------------------------
normalizeSubstrateControlIntentGatewayRequest(input) == Envelope("intent_request", input)

SubstrateControlIntentGatewayResponse(id, answer) == Shown(id, answer)

substrateControlIntentGatewayFailure(id) == Withheld(id)

inspectSubstrateControlIntentGatewayRequest(input) ==
    Inspection(normalizeSubstrateControlIntentGatewayRequest(input),
               Intent!createSubstrateControlIntent,
               SubstrateControlIntentGatewayResponse,
               substrateControlIntentGatewayFailure)

-----------------------------------------------------------------------------
normalizeCapabilityBrokerRequestGatewayRequest(input) == Envelope("broker_request", input)

CapabilityBrokerRequestGatewayResponse(id, answer) == Shown(id, answer)

capabilityBrokerRequestGatewayFailure(id) == Withheld(id)

inspectCapabilityBrokerRequestGatewayRequest(input) ==
    Inspection(normalizeCapabilityBrokerRequestGatewayRequest(input),
               Broker!createCapabilityBrokerRequest,
               CapabilityBrokerRequestGatewayResponse,
               capabilityBrokerRequestGatewayFailure)

-----------------------------------------------------------------------------
normalizeSubstrateAdapterManifestGatewayRequest(input) == Envelope("manifest_request", input)

SubstrateAdapterManifestGatewayResponse(id, answer) == Shown(id, answer)

substrateAdapterManifestGatewayFailure(id) == Withheld(id)

inspectSubstrateAdapterManifestGatewayRequest(input) ==
    Inspection(normalizeSubstrateAdapterManifestGatewayRequest(input),
               Manifest!createSubstrateAdapterManifest,
               SubstrateAdapterManifestGatewayResponse,
               substrateAdapterManifestGatewayFailure)

-----------------------------------------------------------------------------
normalizeAdapterInvocationPreflightGatewayRequest(input) == Envelope("preflight_request", input)

AdapterInvocationPreflightGatewayResponse(id, answer) == Shown(id, answer)

adapterInvocationPreflightGatewayFailure(id) == Withheld(id)

inspectAdapterInvocationPreflightGatewayRequest(input) ==
    Inspection(normalizeAdapterInvocationPreflightGatewayRequest(input),
               Invocation!createAdapterInvocationPreflight,
               AdapterInvocationPreflightGatewayResponse,
               adapterInvocationPreflightGatewayFailure)

-----------------------------------------------------------------------------
normalizeAdapterInvocationResultGatewayRequest(input) == Envelope("result_request", input)

AdapterInvocationResultGatewayResponse(id, answer) == Shown(id, answer)

adapterInvocationResultGatewayFailure(id) == Withheld(id)

inspectAdapterInvocationResultGatewayRequest(input) ==
    Inspection(normalizeAdapterInvocationResultGatewayRequest(input),
               Invocation!createAdapterInvocationResult,
               AdapterInvocationResultGatewayResponse,
               adapterInvocationResultGatewayFailure)

-----------------------------------------------------------------------------
normalizeAdapterInvocationAuthorizationBundleGatewayRequest(input) ==
    Envelope("bundle_request", input)

AdapterInvocationAuthorizationBundleGatewayResponse(id, answer) == Shown(id, answer)

adapterInvocationAuthorizationBundleGatewayFailure(id) == Withheld(id)

inspectAdapterInvocationAuthorizationBundleGatewayRequest(input) ==
    Inspection(normalizeAdapterInvocationAuthorizationBundleGatewayRequest(input),
               Invocation!createAdapterInvocationAuthorizationBundle,
               AdapterInvocationAuthorizationBundleGatewayResponse,
               adapterInvocationAuthorizationBundleGatewayFailure)

-----------------------------------------------------------------------------
normalizeRuntimeAdapterReadinessGateGatewayRequest(input) ==
    Envelope("readiness_request", input)

RuntimeAdapterReadinessGateGatewayResponse(id, answer) == Shown(id, answer)

runtimeAdapterReadinessGateGatewayFailure(id) == Withheld(id)

inspectRuntimeAdapterReadinessGateGatewayRequest(input) ==
    Inspection(normalizeRuntimeAdapterReadinessGateGatewayRequest(input),
               Readiness!createRuntimeAdapterReadinessGate,
               RuntimeAdapterReadinessGateGatewayResponse,
               runtimeAdapterReadinessGateGatewayFailure)

-----------------------------------------------------------------------------
normalizeRuntimeAdapterImplementationScopeGatewayRequest(input) ==
    Envelope("implementation_scope_request", input)

RuntimeAdapterImplementationScopeGatewayResponse(id, answer) == Shown(id, answer)

runtimeAdapterImplementationScopeGatewayFailure(id) == Withheld(id)

inspectRuntimeAdapterImplementationScopeGatewayRequest(input) ==
    Inspection(normalizeRuntimeAdapterImplementationScopeGatewayRequest(input),
               Implementation!createRuntimeAdapterImplementationScope,
               RuntimeAdapterImplementationScopeGatewayResponse,
               runtimeAdapterImplementationScopeGatewayFailure)

-----------------------------------------------------------------------------
normalizeRuntimeAdapterImplementationPlanGatewayRequest(input) ==
    Envelope("implementation_plan_request", input)

RuntimeAdapterImplementationPlanGatewayResponse(id, answer) == Shown(id, answer)

runtimeAdapterImplementationPlanGatewayFailure(id) == Withheld(id)

inspectRuntimeAdapterImplementationPlanGatewayRequest(input) ==
    Inspection(normalizeRuntimeAdapterImplementationPlanGatewayRequest(input),
               Implementation!createRuntimeAdapterImplementationPlan,
               RuntimeAdapterImplementationPlanGatewayResponse,
               runtimeAdapterImplementationPlanGatewayFailure)

-----------------------------------------------------------------------------
normalizeRuntimeAdapterImplementationAuthorizationRequestGatewayRequest(input) ==
    Envelope("authorization_request", input)

RuntimeAdapterImplementationAuthorizationRequestGatewayResponse(id, answer) == Shown(id, answer)

runtimeAdapterImplementationAuthorizationRequestGatewayFailure(id) == Withheld(id)

inspectRuntimeAdapterImplementationAuthorizationRequestGatewayRequest(input) ==
    Inspection(normalizeRuntimeAdapterImplementationAuthorizationRequestGatewayRequest(input),
               Implementation!createRuntimeAdapterImplementationAuthorizationRequest,
               RuntimeAdapterImplementationAuthorizationRequestGatewayResponse,
               runtimeAdapterImplementationAuthorizationRequestGatewayFailure)

-----------------------------------------------------------------------------
normalizeRuntimeAdapterImplementationApprovalGateGatewayRequest(input) ==
    Envelope("approval_gate_request", input)

RuntimeAdapterImplementationApprovalGateGatewayResponse(id, answer) == Shown(id, answer)

runtimeAdapterImplementationApprovalGateGatewayFailure(id) == Withheld(id)

inspectRuntimeAdapterImplementationApprovalGateGatewayRequest(input) ==
    Inspection(normalizeRuntimeAdapterImplementationApprovalGateGatewayRequest(input),
               Implementation!createRuntimeAdapterImplementationApprovalGate,
               RuntimeAdapterImplementationApprovalGateGatewayResponse,
               runtimeAdapterImplementationApprovalGateGatewayFailure)

-----------------------------------------------------------------------------
normalizeRuntimeAdapterImplementationDryRunEvidenceGatewayRequest(input) ==
    Envelope("dry_run_evidence_request", input)

RuntimeAdapterImplementationDryRunEvidenceGatewayResponse(id, answer) == Shown(id, answer)

runtimeAdapterImplementationDryRunEvidenceGatewayFailure(id) == Withheld(id)

inspectRuntimeAdapterImplementationDryRunEvidenceGatewayRequest(input) ==
    Inspection(normalizeRuntimeAdapterImplementationDryRunEvidenceGatewayRequest(input),
               Implementation!createRuntimeAdapterImplementationDryRunEvidence,
               RuntimeAdapterImplementationDryRunEvidenceGatewayResponse,
               runtimeAdapterImplementationDryRunEvidenceGatewayFailure)

===================================================================================
