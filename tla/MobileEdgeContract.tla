----------------------------- MODULE MobileEdgeContract -----------------------------
(***************************************************************************)
(* packages/packets/src/mobile-edge-contract.ts: the five documents of a   *)
(* workload on a mobile device, and the chain that they have to form.  The *)
(* device states what it is (manifest), policy decides on it, a lease is   *)
(* issued and signed, its status is published and signed, and the device   *)
(* signs what it did (result).                                             *)
(*                                                                         *)
(* Documents, texts and field shapes are those of SourceContract.  A       *)
(* timestamp is a number; -1 is none.  A document carries the hash of its  *)
(* content: "plain" as its maker hashed or signed it, "changed" or         *)
(* "another" once the content is another.  The constraints of a decision   *)
(* and of a lease, and the runtimes under compute, are fields of their own *)
(* here.  Limits on depth and size of the input are left out.              *)
(***************************************************************************)
EXTENDS SourceContract

Ref == Text(Refs)
NullableRef == Text(Refs \cup {"null"})
SafeText == Text(Strings)
Digest == Text({"plain", "another"})
Digests == EveryOf({"plain", "another"}, 1)
Bool == Text({"true", "false"})
False == Text({"false"})
Amount(least) == [shape |-> "number", scale |-> least .. 8]
Utc == [shape |-> "number", scale |-> 0 .. 20]
NoSideEffects == [shape |-> "number", scale |-> {0}]      \* how many there are

workloadClasses == {"embedding", "reranking", "ocr", "transcription", "classification",
                    "redaction", "sensor_preprocessing", "evaluation_shard"}
dataClasses == {"public", "internal", "personal", "sensitive", "regulated"}
sensors == {"camera", "microphone", "location", "motion"}
thermalRanks == [nominal |-> 0, fair |-> 1, serious |-> 2, critical |-> 3]

\* The ceilings on durations, in the unit of the timestamps: five minutes of work and of
\* validity of a status, an hour of validity of a lease.
CONSTANTS WorkCeiling, StatusCeiling, LeaseCeiling

ASSUME Ceilings == WorkCeiling \in Nat /\ StatusCeiling \in Nat /\ LeaseCeiling \in Nat

-----------------------------------------------------------------------------
(***************************************************************************)
(* The shapes of the documents.                                            *)
(***************************************************************************)
resultSigningKey ==
    Object([key_ref |-> Ref, key_version |-> SafeText, attestation_evidence_ref |-> Ref], {})

compute ==
    Object([accelerator |-> Text({"cpu_only", "gpu", "npu", "gpu_npu"}),
            supported_precisions |-> EveryOf({"fp32", "fp16", "bf16", "int8", "int4"}, 1),
            ram_budget_mb |-> Amount(1), storage_budget_mb |-> Amount(0)], {})

runtime == Object([runtime_ref |-> Ref, runtime_digest |-> Digest,
                   model_formats |-> EveryOf(Strings, 1)], {})

power ==
    Object([battery_percent |-> Amount(0), charging |-> Bool,
            thermal_state |-> Text(DOMAIN thermalRanks), low_power_mode |-> Bool,
            background_posture |-> Text({"foreground_only", "os_scheduled"})], {})

network ==
    Object([transport |-> Text({"offline", "wifi", "cellular"}), metered |-> Bool,
            roaming |-> Bool, outbound_only |-> True, inbound_listener_allowed |-> False,
            peer_mesh_allowed |-> False], {})

sensor == Object([sensor |-> Text(sensors),
                  os_permission |-> Text({"granted", "denied", "prompt_required"}),
                  policy_allowed |-> Bool], {})

cachedModel == Object([model_digest |-> Digest, runtime_digest |-> Digest], {})

Plainly(shape, least) == List(shape, least, <<PlainObject(shape)>>)

manifestFields ==
    [contract_id |-> Text({"capability_manifest"}), manifest_version |-> Text({"current"}),
     manifest_ref |-> Ref, manifest_digest |-> Digest, device_ref |-> Ref, owner_ref |-> Ref,
     tenant_ref |-> Ref, substrate_kind |-> Text({"mobile_edge"}),
     management_mode |->
        Text({"personal_opt_in", "work_profile", "company_owned", "dedicated", "lab"}),
     platform |-> Text({"ios", "ipados", "android"}), os_version |-> SafeText,
     patch_level |-> SafeText, app_version |-> SafeText,
     architecture |-> Text({"arm64", "x86_64", "other"}), soc_family |-> SafeText,
     result_signing_key |-> resultSigningKey, compute |-> compute,
     runtimes |-> Plainly(runtime, 1), power |-> power, network |-> network,
     sensors |-> Plainly(sensor, 0),
     supported_workload_classes |-> EveryOf(workloadClasses, 1),
     forbidden_capabilities |-> EveryOf(Strings, 1), model_cache |-> Plainly(cachedModel, 0),
     policy_version |-> SafeText, revoked |-> Bool, quarantined |-> Bool,
     observed_at |-> Utc, expires_at |-> Utc, evidence_refs |-> EveryOf(Refs, 1),
     side_effects |-> NoSideEffects]

resourceLimits ==
    Object([max_duration_ms |-> Amount(1), max_ram_mb |-> Amount(1), max_storage_mb |-> Amount(0),
            battery_floor_percent |-> Amount(0), charging_required |-> Bool,
            max_thermal_state |-> Text({"nominal", "fair", "serious"}),
            network |-> Text({"offline_only", "wifi_only", "unmetered", "any"}),
            background |-> Text({"foreground_only", "os_scheduled"}),
            retry_limit |-> Amount(0)], {})

dataPolicy ==
    Object([allowed_data_classes |-> EveryOf(dataClasses, 1),
            allowed_sensors |-> EveryOf(sensors, 0),
            egress |-> Text({"local_only", "approved_relay"}), result_destination_ref |-> Ref,
            input_retention_seconds |-> Amount(0), output_retention_seconds |-> Amount(0)], {})

policyFields ==
    [contract_id |-> Text({"policy_decision"}), decision_version |-> Text({"current"}),
     decision_ref |-> Ref, decision_digest |-> Digest, packet_ref |-> Ref, device_ref |-> Ref,
     owner_ref |-> Ref, tenant_ref |-> Ref, operator_ref |-> Ref, session_ref |-> Ref,
     manifest_ref |-> Ref, manifest_digest |-> Digest, policy_ref |-> Ref,
     policy_digest |-> Digest, decision |-> Text({"allow", "deny", "approval_required"}),
     lease_issuance |-> Text({"eligible", "blocked", "pending_approval"}),
     required_approval_ref |-> NullableRef, approval_evidence_ref |-> NullableRef,
     approved_model_digests |-> Digests, approved_runtime_digests |-> Digests,
     allowed_workload_classes |-> EveryOf(workloadClasses, 1),
     resource_limits |-> resourceLimits, data_policy |-> dataPolicy,
     reasons |-> EveryOf(Strings, 1), evaluated_at |-> Utc, expires_at |-> Utc,
     evidence_refs |-> EveryOf(Refs, 1), side_effects |-> NoSideEffects]

signatureShape ==
    Object([algorithm |-> Text({"Ed25519"}), key_ref |-> Ref, key_version |-> SafeText,
            signed_payload_digest |-> Digest, signature_base64url |-> Text({"plain", "another"})],
           {})

leaseFields ==
    [contract_id |-> Text({"signed_workload_lease"}), lease_version |-> Text({"current"}),
     lease_ref |-> Ref, packet_ref |-> Ref, device_ref |-> Ref, owner_ref |-> Ref,
     tenant_ref |-> Ref, operator_ref |-> Ref, session_ref |-> Ref, manifest_ref |-> Ref,
     manifest_digest |-> Digest, policy_decision_ref |-> Ref, policy_decision_digest |-> Digest,
     approval_evidence_ref |-> NullableRef, model_digest |-> Digest, runtime_digest |-> Digest,
     workload_class |-> Text(workloadClasses), input_refs |-> EveryOf(Refs, 1),
     resource_limits |-> resourceLimits, data_policy |-> dataPolicy, issued_at |-> Utc,
     not_before |-> Utc, expires_at |-> Utc, cancellation_ref |-> Ref, nonce |-> SafeText,
     idempotency_key |-> SafeText, checkpoint_required |-> Bool,
     evidence_obligations |-> EveryOf(Refs, 1), signature |-> signatureShape,
     side_effects |-> NoSideEffects]

statusFields ==
    [contract_id |-> Text({"lease_status_evidence"}), status_version |-> Text({"current"}),
     status_ref |-> Ref, lease_ref |-> Ref, cancellation_ref |-> Ref, sequence |-> Amount(0),
     status |-> Text({"active", "cancelled", "revoked"}), observed_at |-> Utc,
     expires_at |-> Utc, evidence_refs |-> EveryOf(Refs, 1), signature |-> signatureShape,
     side_effects |-> NoSideEffects]

resourceUsage ==
    Object([duration_ms |-> Amount(0), peak_ram_mb |-> Amount(0),
            storage_written_mb |-> Amount(0), retry_count |-> Amount(0)], {})

verification ==
    Object([lease_signature_verified |-> True, device_binding_verified |-> True,
            policy_valid_at_start |-> True, model_digest_verified |-> True,
            runtime_digest_verified |-> True, output_filter_passed |-> Bool], {})

resultFields ==
    [contract_id |-> Text({"result_evidence"}), result_version |-> Text({"current"}),
     result_ref |-> Ref, lease_ref |-> Ref, packet_ref |-> Ref, device_ref |-> Ref,
     owner_ref |-> Ref, tenant_ref |-> Ref, operator_ref |-> Ref, session_ref |-> Ref,
     manifest_digest |-> Digest, policy_decision_digest |-> Digest, model_digest |-> Digest,
     runtime_digest |-> Digest, input_refs |-> EveryOf(Refs, 1), result_destination_ref |-> Ref,
     egress |-> Text({"local_only", "approved_relay"}),
     status |-> Text({"completed", "failed", "denied", "cancelled", "expired"}),
     started_at |-> Utc, finished_at |-> Utc, output_refs |-> EveryOf(Refs, 0),
     error_codes |-> EveryOf(Strings, 0), resource_usage |-> resourceUsage,
     verification |-> verification, evidence_refs |-> EveryOf(Refs, 1),
     signature |-> signatureShape, publication_performed |-> False,
     side_effects |-> NoSideEffects]

trustKeyFields ==
    [key_ref |-> Ref, key_version |-> SafeText,
     public_key_spki_base64url |-> Text({"plain", "another"}), valid_from |-> Utc,
     valid_until |-> Utc, revoked |-> Bool]

statusHeadFields ==
    [lease_ref |-> Ref, status_ref |-> Ref, sequence |-> Amount(0),
     status |-> Text({"active", "cancelled", "revoked"}), observed_at |-> Utc,
     evidence_ref |-> Ref]

-----------------------------------------------------------------------------
(***************************************************************************)
(* Each document by itself.                                                *)
(***************************************************************************)
\* Secret-like values are refused wherever they stand.
snapshotInput(d) == \A f \in DOMAIN d.parts : "secret" \notin TextsOf(d.parts[f])

Distinct(items) == \A i, j \in DOMAIN items : items[i] = items[j] => i = j

UniqueLeaf(shape, v) == shape.shape = "every" => Distinct(v.items)

expectUniqueStrings(shape, v) ==
    CASE shape.shape = "object" -> \A p \in DOMAIN shape.parts : UniqueLeaf(shape.parts[p], v.parts[p])
      [] shape.shape = "list" ->
            \A i \in DOMAIN v.items : \A p \in DOMAIN shape.of.parts :
                UniqueLeaf(shape.of.parts[p], v.items[i].parts[p])
      [] OTHER -> UniqueLeaf(shape, v)

\* Exactly the fields, each of its shape.
exactKeys(fields, d) ==
    /\ DOMAIN d.parts = DOMAIN fields
    /\ \A f \in DOMAIN fields :
          Fits(fields[f], d.parts[f]) /\ expectUniqueStrings(fields[f], d.parts[f])

At(d, f) == d.parts[f].number
Is(d, f, text) == d.parts[f].text = text
Holds(d, f) == {d.parts[f].items[i].text : i \in DOMAIN d.parts[f].items}
SensorNames(d) == [i \in DOMAIN d.parts.sensors.items |-> d.parts.sensors.items[i].parts.sensor]

validateMobileCapabilityManifest(d) ==
    /\ snapshotInput(d) /\ exactKeys(manifestFields, d)
    /\ Distinct(SensorNames(d))
    /\ At(d, "expires_at") > At(d, "observed_at")

\* Issuance follows the decision, and approval references follow both.
approvalRefsFit(d) ==
    /\ Is(d, "lease_issuance", CASE Is(d, "decision", "allow") -> "eligible"
                                 [] Is(d, "decision", "deny") -> "blocked"
                                 [] OTHER -> "pending_approval")
    /\ Is(d, "decision", "approval_required") =>
          ~Is(d, "required_approval_ref", "null") /\ Is(d, "approval_evidence_ref", "null")
    /\ Is(d, "decision", "allow") /\ ~Is(d, "required_approval_ref", "null") =>
          ~Is(d, "approval_evidence_ref", "null")
    /\ Is(d, "decision", "deny") =>
          Is(d, "required_approval_ref", "null") /\ Is(d, "approval_evidence_ref", "null")

WorkIsShort(d) == At(d.parts.resource_limits, "max_duration_ms") <= WorkCeiling

validateMobilePolicyDecision(d) ==
    /\ snapshotInput(d) /\ exactKeys(policyFields, d)
    /\ approvalRefsFit(d)
    /\ WorkIsShort(d)
    /\ At(d, "expires_at") > At(d, "evaluated_at")

validateMobileSignedWorkloadLease(d) ==
    /\ snapshotInput(d) /\ exactKeys(leaseFields, d)
    /\ WorkIsShort(d)
    /\ At(d, "not_before") >= At(d, "issued_at")
    /\ At(d, "expires_at") - At(d, "not_before") \in 1 .. LeaseCeiling

validateMobileLeaseStatusEvidence(d) ==
    /\ snapshotInput(d) /\ exactKeys(statusFields, d)
    /\ At(d, "expires_at") - At(d, "observed_at") \in 1 .. StatusCeiling

validateMobileResultEvidence(d) ==
    /\ snapshotInput(d) /\ exactKeys(resultFields, d)
    /\ At(d, "finished_at") >= At(d, "started_at")
    /\ IF Is(d, "status", "completed")
       THEN /\ Holds(d, "output_refs") # {} /\ Holds(d, "error_codes") = {}
            /\ Is(d.parts.verification, "output_filter_passed", "true")
       ELSE Holds(d, "error_codes") # {}

-----------------------------------------------------------------------------
(***************************************************************************)
(* Digests and signatures.                                                 *)
(***************************************************************************)
hashCanonicalPayload(d) == T(d.hash)

\* The key is the one that signed, was in force when the document says it was made, and
\* has not been revoked since; the signature is over the content as it is now.
verifyEd25519Evidence(d, key, authorityTime) ==
    /\ snapshotInput(key) /\ exactKeys(trustKeyFields, key)
    /\ key.parts.key_ref = d.parts.signature.parts.key_ref
    /\ key.parts.key_version = d.parts.signature.parts.key_version
    /\ ~Is(key, "revoked", "true")
    /\ At(key, "valid_from") <= authorityTime /\ authorityTime < At(key, "valid_until")
    /\ hashCanonicalPayload(d) = d.parts.signature.parts.signed_payload_digest
    /\ Is(key, "public_key_spki_base64url", "plain")
    /\ Is(d.parts.signature, "signature_base64url", "plain")

verifyMobileWorkloadLeaseSignature(d, key) ==
    validateMobileSignedWorkloadLease(d) /\ verifyEd25519Evidence(d, key, At(d, "issued_at"))

verifyMobileLeaseStatusSignature(d, key) ==
    validateMobileLeaseStatusEvidence(d) /\ verifyEd25519Evidence(d, key, At(d, "observed_at"))

verifyMobileResultEvidenceSignature(d, key) ==
    validateMobileResultEvidence(d) /\ verifyEd25519Evidence(d, key, At(d, "finished_at"))

-----------------------------------------------------------------------------
(***************************************************************************)
(* The chain.                                                              *)
(***************************************************************************)
requireEqual(a, b, fields) == \A f \in fields : a.parts[f] = b.parts[f]

policyBindsManifest(c) ==
    requireEqual(c.policy, c.manifest,
                 {"device_ref", "owner_ref", "tenant_ref", "manifest_ref", "manifest_digest"})

\* Mutant: the session of the lease is not compared.
leaseBindsPolicyButSession(c) ==
    /\ requireEqual(c.lease, c.policy, {"packet_ref", "owner_ref", "tenant_ref", "operator_ref",
                                        "approval_evidence_ref"})
    /\ requireEqual(c.lease, c.manifest, {"device_ref", "manifest_ref", "manifest_digest"})
    /\ c.lease.parts.policy_decision_ref = c.policy.parts.decision_ref
    /\ c.lease.parts.policy_decision_digest = c.policy.parts.decision_digest

leaseBindsPolicy(c) ==
    /\ requireEqual(c.lease, c.policy, {"packet_ref", "owner_ref", "tenant_ref", "operator_ref",
                                        "session_ref", "approval_evidence_ref"})
    /\ requireEqual(c.lease, c.manifest, {"device_ref", "manifest_ref", "manifest_digest"})
    /\ c.lease.parts.policy_decision_ref = c.policy.parts.decision_ref
    /\ c.lease.parts.policy_decision_digest = c.policy.parts.decision_digest

\* Mutant: the status is told from the head by what it says, not by when.
statusIsHeadByState(c, head) ==
    /\ requireEqual(c.status, c.lease, {"lease_ref", "cancellation_ref"})
    /\ requireEqual(c.status, head, {"lease_ref", "status_ref", "status"})
    /\ head.parts.evidence_ref.text \in Holds(c.status, "evidence_refs")

\* The status is of this lease, and is the latest that was published.
statusIsHead(c, head) ==
    /\ requireEqual(c.status, c.lease, {"lease_ref", "cancellation_ref"})
    /\ requireEqual(c.status, head, {"lease_ref", "status_ref", "sequence", "status",
                                     "observed_at"})
    /\ head.parts.evidence_ref.text \in Holds(c.status, "evidence_refs")

resultBindsLease(c) ==
    /\ requireEqual(c.result, c.lease,
                    {"lease_ref", "packet_ref", "device_ref", "owner_ref", "tenant_ref",
                     "operator_ref", "session_ref", "manifest_digest", "policy_decision_digest",
                     "model_digest", "runtime_digest", "input_refs"})
    /\ requireEqual(c.result, c.lease.parts.data_policy, {"result_destination_ref", "egress"})
    /\ requireEqual(c.result.parts.signature, c.manifest.parts.result_signing_key,
                    {"key_ref", "key_version"})

policyAdmitsLease(c) ==
    /\ Is(c.manifest, "revoked", "false") /\ Is(c.manifest, "quarantined", "false")
    /\ Is(c.status, "status", "active")
    /\ Is(c.policy, "decision", "allow") /\ Is(c.policy, "lease_issuance", "eligible")
    /\ c.lease.parts.model_digest.text \in Holds(c.policy, "approved_model_digests")
    /\ c.lease.parts.runtime_digest.text \in Holds(c.policy, "approved_runtime_digests")
    /\ c.lease.parts.workload_class.text \in Holds(c.policy, "allowed_workload_classes")
                                               \cap Holds(c.manifest, "supported_workload_classes")
    /\ requireEqual(c.policy, c.lease, {"resource_limits", "data_policy"})

Entries(d, f) == {d.parts[f].items[i].parts : i \in DOMAIN d.parts[f].items}

deviceHoldsModel(c) ==
    /\ [model_digest |-> c.lease.parts.model_digest,
        runtime_digest |-> c.lease.parts.runtime_digest] \in Entries(c.manifest, "model_cache")
    /\ \E r \in Entries(c.manifest, "runtimes") : r.runtime_digest = c.lease.parts.runtime_digest

deviceMeetsLimits(c) ==
    LET limits == c.lease.parts.resource_limits
        device == c.manifest.parts
    IN  /\ At(limits, "max_ram_mb") <= At(device.compute, "ram_budget_mb")
        /\ At(limits, "max_storage_mb") <= At(device.compute, "storage_budget_mb")
        /\ Is(limits, "background", "os_scheduled") =>
              Is(device.power, "background_posture", "os_scheduled")
        /\ At(device.power, "battery_percent") >= At(limits, "battery_floor_percent")
        /\ Is(limits, "charging_required", "true") => Is(device.power, "charging", "true")
        /\ thermalRanks[device.power.parts.thermal_state.text]
              <= thermalRanks[limits.parts.max_thermal_state.text]
        /\ Is(limits, "network", "offline_only") => Is(device.network, "transport", "offline")
        /\ Is(limits, "network", "wifi_only") => Is(device.network, "transport", "wifi")
        /\ Is(limits, "network", "unmetered") => Is(device.network, "metered", "false")

sensorsGranted(c) ==
    \A s \in Holds(c.lease.parts.data_policy, "allowed_sensors") :
        \E granted \in Entries(c.manifest, "sensors") :
            granted = [sensor |-> T(s), os_permission |-> T("granted"), policy_allowed |-> T("true")]

obligationsMet(c) ==
    Holds(c.lease, "evidence_obligations") \subseteq Holds(c.result, "evidence_refs")

leaseInsideAuthority(c) ==
    /\ At(c.lease, "issued_at") >= At(c.policy, "evaluated_at")
    /\ At(c.lease, "expires_at") <= At(c.policy, "expires_at")
    /\ At(c.lease, "expires_at") <= At(c.manifest, "expires_at")

resultInsideLease(c) ==
    /\ At(c.result, "started_at") >= At(c.lease, "not_before")
    /\ At(c.result, "finished_at") <= At(c.lease, "expires_at")
    /\ At(c.result, "started_at") >= At(c.policy, "evaluated_at")
    /\ At(c.result, "started_at") < At(c.policy, "expires_at")
    /\ At(c.result, "started_at") >= At(c.manifest, "observed_at")
    /\ At(c.result, "started_at") < At(c.manifest, "expires_at")

\* Mutant: the status only has to cover the start.
statusCoversResultStart(c) ==
    /\ At(c.status, "observed_at") <= At(c.result, "started_at")
    /\ At(c.status, "expires_at") >= At(c.result, "started_at")
    /\ At(c.status, "observed_at") >= At(c.lease, "issued_at")
    /\ At(c.status, "expires_at") <= At(c.lease, "expires_at")

statusCoversResult(c) ==
    /\ At(c.status, "observed_at") <= At(c.result, "started_at")
    /\ At(c.status, "expires_at") >= At(c.result, "finished_at")
    /\ At(c.status, "observed_at") >= At(c.lease, "issued_at")
    /\ At(c.status, "expires_at") <= At(c.lease, "expires_at")

resultInsideBudget(c) ==
    LET limits == c.lease.parts.resource_limits
        used == c.result.parts.resource_usage
        elapsed == At(c.result, "finished_at") - At(c.result, "started_at")
    IN  /\ elapsed = At(used, "duration_ms") /\ elapsed <= At(limits, "max_duration_ms")
        /\ At(used, "peak_ram_mb") <= At(limits, "max_ram_mb")
        /\ At(used, "storage_written_mb") <= At(limits, "max_storage_mb")
        /\ At(used, "retry_count") <= At(limits, "retry_limit")

\* The documents c are judged with the trusted keys and status head, at time now.
validateMobileEdgeContractChain(c, trust, now) ==
    /\ snapshotInput(trust.head) /\ exactKeys(statusHeadFields, trust.head)
    /\ validateMobileCapabilityManifest(c.manifest)
    /\ validateMobilePolicyDecision(c.policy)
    /\ verifyMobileWorkloadLeaseSignature(c.lease, trust.issuer)
    /\ verifyMobileLeaseStatusSignature(c.status, trust.issuer)
    /\ verifyMobileResultEvidenceSignature(c.result, trust.device)
    /\ hashCanonicalPayload(c.manifest) = c.manifest.parts.manifest_digest
    /\ hashCanonicalPayload(c.policy) = c.policy.parts.decision_digest
    /\ policyBindsManifest(c) /\ leaseBindsPolicy(c) /\ statusIsHead(c, trust.head)
    /\ resultBindsLease(c)
    /\ policyAdmitsLease(c)
    /\ deviceHoldsModel(c) /\ deviceMeetsLimits(c) /\ sensorsGranted(c)
    /\ obligationsMet(c)
    /\ At(c.result, "finished_at") <= now
    /\ leaseInsideAuthority(c) /\ resultInsideLease(c) /\ statusCoversResult(c)
    /\ resultInsideBudget(c)

=====================================================================================
