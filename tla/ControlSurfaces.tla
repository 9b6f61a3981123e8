----------------------------- MODULE ControlSurfaces -----------------------------
(***************************************************************************)
(* Where the Gateway's inspections can be asked for: the HTTP routes of    *)
(* apps/api/src/server.ts, the tools of packages/mcp/src/index.ts, and the *)
(* tools' line-by-line stdio form.  A tool is named by its contract.       *)
(***************************************************************************)
EXTENDS ControlGateway

HttpStatus(response) == IF response.ok THEN 200 ELSE 400

Reply(response, status(_)) == [status |-> status(response), body |-> response]

ThroughMcp(response) == [ok |-> response.ok, gateway_response |-> response]

-----------------------------------------------------------------------------
substrateControlIntentHttpStatus(response) == HttpStatus(response)

registerSubstrateControlIntentRoute(body) ==
    Reply(inspectSubstrateControlIntentGatewayRequest(body),
          substrateControlIntentHttpStatus)

inspectSubstrateControlIntentThroughMcpAdapterContract(input) ==
    ThroughMcp(inspectSubstrateControlIntentGatewayRequest(input))

createMcpSubstrateControlIntentEndpoint(input) ==
    inspectSubstrateControlIntentThroughMcpAdapterContract(input)

-----------------------------------------------------------------------------
capabilityBrokerRequestHttpStatus(response) == HttpStatus(response)

registerCapabilityBrokerRequestRoute(body) ==
    Reply(inspectCapabilityBrokerRequestGatewayRequest(body),
          capabilityBrokerRequestHttpStatus)

inspectCapabilityBrokerRequestThroughMcpAdapterContract(input) ==
    ThroughMcp(inspectCapabilityBrokerRequestGatewayRequest(input))

createMcpCapabilityBrokerRequestEndpoint(input) ==
    inspectCapabilityBrokerRequestThroughMcpAdapterContract(input)

-----------------------------------------------------------------------------
substrateAdapterManifestHttpStatus(response) == HttpStatus(response)

registerSubstrateAdapterManifestRoute(body) ==
    Reply(inspectSubstrateAdapterManifestGatewayRequest(body),
          substrateAdapterManifestHttpStatus)

inspectSubstrateAdapterManifestThroughMcpAdapterContract(input) ==
    ThroughMcp(inspectSubstrateAdapterManifestGatewayRequest(input))

createMcpSubstrateAdapterManifestEndpoint(input) ==
    inspectSubstrateAdapterManifestThroughMcpAdapterContract(input)

-----------------------------------------------------------------------------
adapterInvocationPreflightHttpStatus(response) == HttpStatus(response)

registerAdapterInvocationPreflightRoute(body) ==
    Reply(inspectAdapterInvocationPreflightGatewayRequest(body),
          adapterInvocationPreflightHttpStatus)

inspectAdapterInvocationPreflightThroughMcpAdapterContract(input) ==
    ThroughMcp(inspectAdapterInvocationPreflightGatewayRequest(input))

createMcpAdapterInvocationPreflightEndpoint(input) ==
    inspectAdapterInvocationPreflightThroughMcpAdapterContract(input)

-----------------------------------------------------------------------------
adapterInvocationResultHttpStatus(response) == HttpStatus(response)

registerAdapterInvocationResultRoute(body) ==
    Reply(inspectAdapterInvocationResultGatewayRequest(body),
          adapterInvocationResultHttpStatus)

inspectAdapterInvocationResultThroughMcpAdapterContract(input) ==
    ThroughMcp(inspectAdapterInvocationResultGatewayRequest(input))

createMcpAdapterInvocationResultEndpoint(input) ==
    inspectAdapterInvocationResultThroughMcpAdapterContract(input)

-----------------------------------------------------------------------------
adapterInvocationAuthorizationBundleHttpStatus(response) == HttpStatus(response)

registerAdapterInvocationAuthorizationBundleRoute(body) ==
    Reply(inspectAdapterInvocationAuthorizationBundleGatewayRequest(body),
          adapterInvocationAuthorizationBundleHttpStatus)

inspectAdapterInvocationAuthorizationBundleThroughMcpAdapterContract(input) ==
    ThroughMcp(inspectAdapterInvocationAuthorizationBundleGatewayRequest(input))

createMcpAdapterInvocationAuthorizationBundleEndpoint(input) ==
    inspectAdapterInvocationAuthorizationBundleThroughMcpAdapterContract(input)

-----------------------------------------------------------------------------
runtimeAdapterReadinessGateHttpStatus(response) == HttpStatus(response)

registerRuntimeAdapterReadinessGateRoute(body) ==
    Reply(inspectRuntimeAdapterReadinessGateGatewayRequest(body),
          runtimeAdapterReadinessGateHttpStatus)

inspectRuntimeAdapterReadinessGateThroughMcpAdapterContract(input) ==
    ThroughMcp(inspectRuntimeAdapterReadinessGateGatewayRequest(input))

createMcpRuntimeAdapterReadinessGateEndpoint(input) ==
    inspectRuntimeAdapterReadinessGateThroughMcpAdapterContract(input)

-----------------------------------------------------------------------------
runtimeAdapterImplementationScopeHttpStatus(response) == HttpStatus(response)

registerRuntimeAdapterImplementationScopeRoute(body) ==
    Reply(inspectRuntimeAdapterImplementationScopeGatewayRequest(body),
          runtimeAdapterImplementationScopeHttpStatus)

inspectRuntimeAdapterImplementationScopeThroughMcpAdapterContract(input) ==
    ThroughMcp(inspectRuntimeAdapterImplementationScopeGatewayRequest(input))

createMcpRuntimeAdapterImplementationScopeEndpoint(input) ==
    inspectRuntimeAdapterImplementationScopeThroughMcpAdapterContract(input)

-----------------------------------------------------------------------------
runtimeAdapterImplementationPlanHttpStatus(response) == HttpStatus(response)

registerRuntimeAdapterImplementationPlanRoute(body) ==
    Reply(inspectRuntimeAdapterImplementationPlanGatewayRequest(body),
          runtimeAdapterImplementationPlanHttpStatus)

inspectRuntimeAdapterImplementationPlanThroughMcpAdapterContract(input) ==
    ThroughMcp(inspectRuntimeAdapterImplementationPlanGatewayRequest(input))

createMcpRuntimeAdapterImplementationPlanEndpoint(input) ==
    inspectRuntimeAdapterImplementationPlanThroughMcpAdapterContract(input)

-----------------------------------------------------------------------------
runtimeAdapterImplementationAuthorizationRequestHttpStatus(response) == HttpStatus(response)

registerRuntimeAdapterImplementationAuthorizationRequestRoute(body) ==
    Reply(inspectRuntimeAdapterImplementationAuthorizationRequestGatewayRequest(body),
          runtimeAdapterImplementationAuthorizationRequestHttpStatus)

inspectRuntimeAdapterImplementationAuthorizationRequestThroughMcpAdapterContract(input) ==
    ThroughMcp(inspectRuntimeAdapterImplementationAuthorizationRequestGatewayRequest(input))

createMcpRuntimeAdapterImplementationAuthorizationRequestEndpoint(input) ==
    inspectRuntimeAdapterImplementationAuthorizationRequestThroughMcpAdapterContract(input)

-----------------------------------------------------------------------------
runtimeAdapterImplementationApprovalGateHttpStatus(response) == HttpStatus(response)

registerRuntimeAdapterImplementationApprovalGateRoute(body) ==
    Reply(inspectRuntimeAdapterImplementationApprovalGateGatewayRequest(body),
          runtimeAdapterImplementationApprovalGateHttpStatus)

inspectRuntimeAdapterImplementationApprovalGateThroughMcpAdapterContract(input) ==
    ThroughMcp(inspectRuntimeAdapterImplementationApprovalGateGatewayRequest(input))

createMcpRuntimeAdapterImplementationApprovalGateEndpoint(input) ==
    inspectRuntimeAdapterImplementationApprovalGateThroughMcpAdapterContract(input)

-----------------------------------------------------------------------------
runtimeAdapterImplementationDryRunEvidenceHttpStatus(response) == HttpStatus(response)

registerRuntimeAdapterImplementationDryRunEvidenceRoute(body) ==
    Reply(inspectRuntimeAdapterImplementationDryRunEvidenceGatewayRequest(body),
          runtimeAdapterImplementationDryRunEvidenceHttpStatus)

inspectRuntimeAdapterImplementationDryRunEvidenceThroughMcpAdapterContract(input) ==
    ThroughMcp(inspectRuntimeAdapterImplementationDryRunEvidenceGatewayRequest(input))

createMcpRuntimeAdapterImplementationDryRunEvidenceEndpoint(input) ==
    inspectRuntimeAdapterImplementationDryRunEvidenceThroughMcpAdapterContract(input)

-----------------------------------------------------------------------------
buildApiGateway(contract, body) ==
    CASE contract = "intent" -> registerSubstrateControlIntentRoute(body)
      [] contract = "broker" -> registerCapabilityBrokerRequestRoute(body)
      [] contract = "manifest" -> registerSubstrateAdapterManifestRoute(body)
      [] contract = "preflight" -> registerAdapterInvocationPreflightRoute(body)
      [] contract = "result" -> registerAdapterInvocationResultRoute(body)
      [] contract = "bundle" -> registerAdapterInvocationAuthorizationBundleRoute(body)
      [] contract = "readiness" -> registerRuntimeAdapterReadinessGateRoute(body)
      [] contract = "scope" -> registerRuntimeAdapterImplementationScopeRoute(body)
      [] contract = "plan" -> registerRuntimeAdapterImplementationPlanRoute(body)
      [] contract = "authorization" -> registerRuntimeAdapterImplementationAuthorizationRequestRoute(body)
      [] contract = "approval_gate" -> registerRuntimeAdapterImplementationApprovalGateRoute(body)
      [] contract = "dry_run" -> registerRuntimeAdapterImplementationDryRunEvidenceRoute(body)

\* The name has been checked against the registered tools.
dispatchRegisteredToolCall(name, input) ==
    CASE name = "intent" ->
            createMcpSubstrateControlIntentEndpoint(input)
      [] name = "broker" ->
            createMcpCapabilityBrokerRequestEndpoint(input)
      [] name = "manifest" ->
            createMcpSubstrateAdapterManifestEndpoint(input)
      [] name = "preflight" ->
            createMcpAdapterInvocationPreflightEndpoint(input)
      [] name = "result" ->
            createMcpAdapterInvocationResultEndpoint(input)
      [] name = "bundle" ->
            createMcpAdapterInvocationAuthorizationBundleEndpoint(input)
      [] name = "readiness" ->
            createMcpRuntimeAdapterReadinessGateEndpoint(input)
      [] name = "scope" ->
            createMcpRuntimeAdapterImplementationScopeEndpoint(input)
      [] name = "plan" ->
            createMcpRuntimeAdapterImplementationPlanEndpoint(input)
      [] name = "authorization" ->
            createMcpRuntimeAdapterImplementationAuthorizationRequestEndpoint(input)
      [] name = "approval_gate" ->
            createMcpRuntimeAdapterImplementationApprovalGateEndpoint(input)
      [] name = "dry_run" ->
            createMcpRuntimeAdapterImplementationDryRunEvidenceEndpoint(input)

Tools == {"intent", "broker", "manifest", "preflight", "result", "bundle", "readiness", "scope",
          "plan", "authorization", "approval_gate", "dry_run"}

\* A call without arguments, or with null, has empty ones.
normalizeMcpToolCallRequest(call) ==
    IF call.kind # "object" \/ Part(call, "name").kind # "text" THEN [ok |-> FALSE]
    ELSE [ok |-> TRUE, name |-> call.parts.name.text,
          arguments |-> IF Part(call, "arguments") \in {Absent, Null}
                        THEN O([none \in {} |-> Absent]) ELSE call.parts.arguments]

mcpCallFailure == [ok |-> FALSE, is_error |-> TRUE, content |-> <<>>]

\* Mutant: a tool that answered is never an error, whatever its answer.
createMcpCallResponseLax(response) == [ok |-> TRUE, is_error |-> FALSE, content |-> <<response>>]

createMcpCallResponse(response) ==
    [ok |-> response.ok, is_error |-> ~response.ok, content |-> <<response>>]

createLnsatReadOnlyMcpServer(call) ==
    LET normalized == normalizeMcpToolCallRequest(call)
    IN  IF ~normalized.ok \/ normalized.name \notin Tools THEN mcpCallFailure
        ELSE createMcpCallResponse(
                 dispatchRegisteredToolCall(normalized.name, normalized.arguments))

\* A line that is not one JSON object is given as Null.
parseLocalStdioSmokeLine(line) ==
    /\ line.kind = "object"
    /\ DOMAIN line.parts \subseteq {"request_id", "tool_call"}
    /\ "tool_call" \in DOMAIN line.parts

stdioResponse(response) == [ok |-> response.ok, mcp_response |-> <<response>>]

handleLocalStdioSmokeRequestLine(line) ==
    IF ~parseLocalStdioSmokeLine(line) THEN [ok |-> FALSE, mcp_response |-> <<>>]
    ELSE stdioResponse(createLnsatReadOnlyMcpServer(line.parts.tool_call))

==================================================================================
