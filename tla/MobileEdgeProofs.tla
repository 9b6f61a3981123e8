---------------------------- MODULE MobileEdgeProofs ----------------------------
(***************************************************************************)
(* What a result that validateMobileEdgeContractChain accepts says about   *)
(* the work behind it, for any ceilings, any horizon, any lives and any    *)
(* number of statuses, and whichever documents may be mistaken or altered. *)
(*                                                                         *)
(* The verdict is passed on documents that do not change afterwards, so    *)
(* that most of it is about the rules of the chain: which fields are       *)
(* numbers and digests, and how the comparisons of neighbours link all of  *)
(* the documents.  Two facts about the past are needed beside the verdict: *)
(* every status but the latest left the lease active, and a document given *)
(* a new digest has a neighbour that still quotes the old one.             *)
(***************************************************************************)
EXTENDS MobileEdge, TLAPS

-----------------------------------------------------------------------------
(***************************************************************************)
(* What the shapes let through.                                            *)
(***************************************************************************)
\* A number inside of a fitting object is on its scale.
LEMMA LeafNumber ==
    ASSUME NEW scale, NEW v, FitsLeaf([shape |-> "number", scale |-> scale], v)
    PROVE  v.number \in scale /\ v.kind = "number"
<1>1. FitsPlain([shape |-> "number", scale |-> scale], v)
  BY SMTT(60) DEF FitsLeaf
<1>. QED
  BY SMTT(60), <1>1 DEF FitsPlain

\* A text inside of a fitting object is one that its shape lists.
LEMMA LeafText ==
    ASSUME NEW texts, NEW v, FitsLeaf(Text(texts), v)
    PROVE  v.text \in texts /\ v.kind = "text"
<1>1. FitsPlain(Text(texts), v)
  BY SMTT(60) DEF FitsLeaf, Text
<1>. QED
  BY SMTT(60), <1>1 DEF FitsPlain, Text

\* A field of a document with exactly its keys fits its shape.
LEMMA FieldFits ==
    ASSUME NEW fields, NEW d, exactKeys(fields, d), NEW f \in DOMAIN fields
    PROVE  Fits(fields[f], d.parts[f])
BY Zenon DEF exactKeys

\* A timestamp is a number.
LEMMA TimeOf ==
    ASSUME NEW fields, NEW d, exactKeys(fields, d), NEW f \in DOMAIN fields, fields[f] = Utc
    PROVE  At(d, f) \in Int
<1>1. Fits(Utc, d.parts[f])
  BY Zenon, FieldFits
<1>2. FitsLeaf(Utc, d.parts[f])
  BY SMTT(60), <1>1 DEF Fits, Utc
<1>3. d.parts[f].number \in 0 .. 20
  BY Zenon, <1>2, LeafNumber DEF Utc
<1>. QED
  BY SMTT(60), <1>3 DEF At

\* A digest is one of the two that a document may state.
LEMMA DigestOf ==
    ASSUME NEW fields, NEW d, exactKeys(fields, d), NEW f \in DOMAIN fields, fields[f] = Digest
    PROVE  d.parts[f].text \in {"plain", "another"}
<1>1. Fits(Digest, d.parts[f])
  BY Zenon, FieldFits
<1>2. FitsLeaf(Digest, d.parts[f])
  BY SMTT(60), <1>1 DEF Fits, Digest, Text
<1>. QED
  BY Zenon, <1>2, LeafText DEF Digest

\* A part that an object has to have fits its shape.
LEMMA PartFits ==
    ASSUME NEW fields, NEW d, exactKeys(fields, d), NEW f \in DOMAIN fields,
           NEW parts, fields[f] = Object(parts, {}), NEW p \in DOMAIN parts
    PROVE  FitsLeaf(parts[p], Part(d.parts[f], p))
<1>1. Fits(Object(parts, {}), d.parts[f])
  BY Zenon, FieldFits
<1>2. FitsObject(Object(parts, {}), d.parts[f])
  BY SMTT(60), <1>1 DEF Fits, Object
<1>. QED
  BY Zenon, <1>2 DEF FitsObject, Object

\* An amount inside of an object is a number, and is there.
LEMMA AmountOf ==
    ASSUME NEW fields, NEW d, exactKeys(fields, d), NEW f \in DOMAIN fields,
           NEW parts, fields[f] = Object(parts, {}), NEW p \in DOMAIN parts,
           NEW least \in Nat, parts[p] = Amount(least)
    PROVE  At(d.parts[f], p) \in Int
<1>1. FitsLeaf(Amount(least), Part(d.parts[f], p))
  BY Zenon, PartFits
<1>2. /\ Part(d.parts[f], p).number \in least .. 8
      /\ Part(d.parts[f], p).kind = "number"
  BY ZenonT(60), <1>1, LeafNumber DEF Amount
<1>3. Part(d.parts[f], p) = d.parts[f].parts[p]
  <2>1. Absent.kind # "number"
    BY SMT DEF Absent
  <2>. QED
    BY Zenon, <1>2, <2>1 DEF Part
<1>. QED
  BY SMTT(60), <1>2, <1>3 DEF At

\* A signature quotes one of the two digests that a document may state.
LEMMA SignedDigest ==
    ASSUME NEW fields, NEW d, exactKeys(fields, d), "signature" \in DOMAIN fields,
           fields["signature"] = signatureShape
    PROVE  d.parts.signature.parts.signed_payload_digest.text \in {"plain", "another"}
<1>. DEFINE parts ==
       [algorithm |-> Text({"Ed25519"}), key_ref |-> Ref, key_version |-> SafeText,
        signed_payload_digest |-> Digest, signature_base64url |-> Text({"plain", "another"})]
            p == "signed_payload_digest"
<1>1. signatureShape = Object(parts, {}) /\ p \in DOMAIN parts /\ parts[p] = Digest
  BY Zenon DEF signatureShape
<1>. HIDE DEF parts
<1>2. FitsLeaf(Digest, Part(d.parts["signature"], p))
  BY Zenon, <1>1, PartFits
<1>3. /\ Part(d.parts["signature"], p).text \in {"plain", "another"}
      /\ Part(d.parts["signature"], p).kind = "text"
  BY Zenon, <1>2, LeafText DEF Digest
<1>4. Part(d.parts["signature"], p) = d.parts["signature"].parts[p]
  BY SMTT(60), <1>3 DEF Part, Absent
<1>. QED
  BY Zenon, <1>3, <1>4

-----------------------------------------------------------------------------
(***************************************************************************)
(* What validateMobileEdgeContractChain establishes of the documents c.    *)
(***************************************************************************)
\* Every document of an accepted chain has exactly its keys.
LEMMA AcceptedShapes ==
    ASSUME NEW c, NEW trust, NEW t, validateMobileEdgeContractChain(c, trust, t)
    PROVE  /\ exactKeys(manifestFields, c.manifest)
           /\ exactKeys(policyFields, c.policy)
           /\ exactKeys(leaseFields, c.lease)
           /\ exactKeys(statusFields, c.status)
           /\ exactKeys(resultFields, c.result)
BY Zenon DEF validateMobileEdgeContractChain, validateMobileCapabilityManifest,
   validateMobilePolicyDecision, verifyMobileWorkloadLeaseSignature,
   verifyMobileLeaseStatusSignature, verifyMobileResultEvidenceSignature,
   validateMobileSignedWorkloadLease, validateMobileLeaseStatusEvidence,
   validateMobileResultEvidence

\* The timestamps of an accepted chain are numbers.
LEMMA AcceptedTimes ==
    ASSUME NEW c, NEW trust, NEW t, validateMobileEdgeContractChain(c, trust, t)
    PROVE  /\ At(c.manifest, "observed_at") \in Int /\ At(c.manifest, "expires_at") \in Int
           /\ At(c.policy, "evaluated_at") \in Int /\ At(c.policy, "expires_at") \in Int
           /\ At(c.lease, "not_before") \in Int /\ At(c.lease, "expires_at") \in Int
           /\ At(c.status, "observed_at") \in Int /\ At(c.status, "expires_at") \in Int
           /\ At(c.result, "started_at") \in Int /\ At(c.result, "finished_at") \in Int
<1>1. At(c.manifest, "observed_at") \in Int /\ At(c.manifest, "expires_at") \in Int
  <2>1. /\ {"observed_at", "expires_at"} \subseteq DOMAIN manifestFields
        /\ manifestFields["observed_at"] = Utc /\ manifestFields["expires_at"] = Utc
    BY ZenonT(60) DEF manifestFields
  <2>. QED
    BY Zenon, <2>1, AcceptedShapes, TimeOf
<1>2. At(c.policy, "evaluated_at") \in Int /\ At(c.policy, "expires_at") \in Int
  <2>1. /\ {"evaluated_at", "expires_at"} \subseteq DOMAIN policyFields
        /\ policyFields["evaluated_at"] = Utc /\ policyFields["expires_at"] = Utc
    BY ZenonT(60) DEF policyFields
  <2>. QED
    BY Zenon, <2>1, AcceptedShapes, TimeOf
<1>3. At(c.lease, "not_before") \in Int /\ At(c.lease, "expires_at") \in Int
  <2>1. /\ {"not_before", "expires_at"} \subseteq DOMAIN leaseFields
        /\ leaseFields["not_before"] = Utc /\ leaseFields["expires_at"] = Utc
    BY ZenonT(60) DEF leaseFields
  <2>. QED
    BY Zenon, <2>1, AcceptedShapes, TimeOf
<1>4. At(c.status, "observed_at") \in Int /\ At(c.status, "expires_at") \in Int
  <2>1. /\ {"observed_at", "expires_at"} \subseteq DOMAIN statusFields
        /\ statusFields["observed_at"] = Utc /\ statusFields["expires_at"] = Utc
    BY Zenon DEF statusFields
  <2>. QED
    BY Zenon, <2>1, AcceptedShapes, TimeOf
<1>5. At(c.result, "started_at") \in Int /\ At(c.result, "finished_at") \in Int
  <2>1. /\ {"started_at", "finished_at"} \subseteq DOMAIN resultFields
        /\ resultFields["started_at"] = Utc /\ resultFields["finished_at"] = Utc
    BY ZenonT(60) DEF resultFields
  <2>. QED
    BY Zenon, <2>1, AcceptedShapes, TimeOf
<1>. QED
  BY Zenon, <1>1, <1>2, <1>3, <1>4, <1>5

\* The work lies inside of every window, although only some of the windows are
\* compared with its end: the others enclose the lease.
LEMMA AcceptedWindows ==
    ASSUME NEW c, NEW trust, NEW t, validateMobileEdgeContractChain(c, trust, t)
    PROVE  /\ At(c.manifest, "observed_at") <= At(c.result, "started_at")
           /\ At(c.result, "finished_at") <= At(c.manifest, "expires_at")
           /\ At(c.policy, "evaluated_at") <= At(c.result, "started_at")
           /\ At(c.result, "finished_at") <= At(c.policy, "expires_at")
           /\ At(c.lease, "not_before") <= At(c.result, "started_at")
           /\ At(c.result, "finished_at") <= At(c.lease, "expires_at")
           /\ At(c.status, "observed_at") <= At(c.result, "started_at")
           /\ At(c.result, "finished_at") <= At(c.status, "expires_at")
           /\ At(c.result, "started_at") < At(c.manifest, "expires_at")
           /\ At(c.result, "started_at") < At(c.policy, "expires_at")
<1>1. leaseInsideAuthority(c) /\ resultInsideLease(c) /\ statusCoversResult(c)
  BY Zenon DEF validateMobileEdgeContractChain
<1>. QED
  BY SMTT(60), <1>1, AcceptedTimes
     DEF leaseInsideAuthority, resultInsideLease, statusCoversResult

\* The lease states every fact that two of the documents share, and each of
\* them agrees with the lease on what it states.
LEMMA AgreeWithLease ==
    ASSUME NEW c, NEW trust, NEW t, validateMobileEdgeContractChain(c, trust, t)
    PROVE  \A d \in {c.manifest, c.policy, c.lease, c.status, c.result} :
              \A f \in Shared \cap DOMAIN d.parts : d.parts[f] = c.lease.parts[f]
<1>1. /\ DOMAIN c.manifest.parts = DOMAIN manifestFields
      /\ DOMAIN c.policy.parts = DOMAIN policyFields
      /\ DOMAIN c.status.parts = DOMAIN statusFields
      /\ DOMAIN c.result.parts = DOMAIN resultFields
  BY Zenon, AcceptedShapes DEF exactKeys
<1>2. /\ policyBindsManifest(c) /\ leaseBindsPolicy(c) /\ statusIsHead(c, trust.head)
      /\ resultBindsLease(c) /\ policyAdmitsLease(c)
  BY Zenon DEF validateMobileEdgeContractChain
<1>3. \A f \in Shared \cap DOMAIN c.manifest.parts : c.manifest.parts[f] = c.lease.parts[f]
  <2>1. Shared \cap DOMAIN manifestFields \subseteq
          {"device_ref", "owner_ref", "tenant_ref", "manifest_ref", "manifest_digest"}
    BY SMTT(60) DEF Shared, manifestFields
  <2>. QED
    BY SMTT(60), <1>1, <1>2, <2>1 DEF policyBindsManifest, leaseBindsPolicy, requireEqual
<1>4. \A f \in Shared \cap DOMAIN c.policy.parts : c.policy.parts[f] = c.lease.parts[f]
  <2>1. Shared \cap DOMAIN policyFields \subseteq
          {"device_ref", "owner_ref", "tenant_ref", "packet_ref", "operator_ref", "session_ref",
           "manifest_ref", "manifest_digest", "approval_evidence_ref", "resource_limits",
           "data_policy"}
    BY SMTT(60) DEF Shared, policyFields
  <2>. QED
    <3>1. \A f \in {"packet_ref", "owner_ref", "tenant_ref", "operator_ref", "session_ref",
                   "approval_evidence_ref"} : c.lease.parts[f] = c.policy.parts[f]
      BY Zenon, <1>2 DEF leaseBindsPolicy, requireEqual
    <3>2. \A f \in {"device_ref", "manifest_ref", "manifest_digest"} :
            c.lease.parts[f] = c.manifest.parts[f]
      BY Zenon, <1>2 DEF leaseBindsPolicy, requireEqual
    <3>3. \A f \in {"device_ref", "manifest_ref", "manifest_digest"} :
            c.policy.parts[f] = c.manifest.parts[f]
      BY Zenon, <1>2 DEF policyBindsManifest, requireEqual
    <3>4. \A f \in {"resource_limits", "data_policy"} : c.policy.parts[f] = c.lease.parts[f]
      BY Zenon, <1>2 DEF policyAdmitsLease, requireEqual
    <3>5. \A f \in {"device_ref", "manifest_ref", "manifest_digest"} :
            c.policy.parts[f] = c.lease.parts[f]
      BY Zenon, <3>2, <3>3
    <3>6. ASSUME NEW f \in Shared \cap DOMAIN c.policy.parts
          PROVE  \/ f \in {"packet_ref", "owner_ref", "tenant_ref", "operator_ref", "session_ref",
                           "approval_evidence_ref"}
                 \/ f \in {"device_ref", "manifest_ref", "manifest_digest"}
                 \/ f \in {"resource_limits", "data_policy"}
      BY Zenon, <1>1, <2>1
    <3>. QED
      BY Zenon, <3>1, <3>4, <3>5, <3>6
<1>5. \A f \in Shared \cap DOMAIN c.status.parts : c.status.parts[f] = c.lease.parts[f]
  <2>1. Shared \cap DOMAIN statusFields \subseteq {"lease_ref", "cancellation_ref"}
    BY SMTT(60) DEF Shared, statusFields
  <2>. QED
    BY SMTT(60), <1>1, <1>2, <2>1 DEF statusIsHead, requireEqual
<1>6. \A f \in Shared \cap DOMAIN c.result.parts : c.result.parts[f] = c.lease.parts[f]
  <2>1. Shared \cap DOMAIN resultFields \subseteq
          {"lease_ref", "packet_ref", "device_ref", "owner_ref", "tenant_ref", "operator_ref",
           "session_ref", "manifest_digest", "policy_decision_digest", "model_digest",
           "runtime_digest", "input_refs"}
    BY SMTT(60) DEF Shared, resultFields
  <2>. QED
    <3>1. \A f \in {"lease_ref", "packet_ref", "device_ref", "owner_ref", "tenant_ref",
                   "operator_ref", "session_ref", "manifest_digest", "policy_decision_digest",
                   "model_digest", "runtime_digest", "input_refs"} :
            c.result.parts[f] = c.lease.parts[f]
      BY Zenon, <1>2 DEF resultBindsLease, requireEqual
    <3>2. ASSUME NEW f \in Shared \cap DOMAIN c.result.parts
          PROVE  f \in {"lease_ref", "packet_ref", "device_ref", "owner_ref", "tenant_ref",
                       "operator_ref", "session_ref", "manifest_digest",
                       "policy_decision_digest", "model_digest", "runtime_digest", "input_refs"}
      BY Zenon, <1>1, <2>1
    <3>. QED
      BY Zenon, <3>1, <3>2
<1>. QED
  BY Zenon, <1>3, <1>4, <1>5, <1>6

\* What the result reports to have used is within what the device can spare,
\* through the limits of the lease.
LEMMA AcceptedBudget ==
    ASSUME NEW c, NEW trust, NEW t, validateMobileEdgeContractChain(c, trust, t)
    PROVE  /\ At(c.result.parts.resource_usage, "peak_ram_mb")
                <= At(c.manifest.parts.compute, "ram_budget_mb")
           /\ At(c.result.parts.resource_usage, "storage_written_mb")
                <= At(c.manifest.parts.compute, "storage_budget_mb")
           /\ At(c.result, "finished_at") - At(c.result, "started_at") <= WorkCeiling
<1>. DEFINE usage ==
       [duration_ms |-> Amount(0), peak_ram_mb |-> Amount(0), storage_written_mb |-> Amount(0),
        retry_count |-> Amount(0)]
            limit ==
       [max_duration_ms |-> Amount(1), max_ram_mb |-> Amount(1), max_storage_mb |-> Amount(0),
        battery_floor_percent |-> Amount(0), charging_required |-> Bool,
        max_thermal_state |-> Text({"nominal", "fair", "serious"}),
        network |-> Text({"offline_only", "wifi_only", "unmetered", "any"}),
        background |-> Text({"foreground_only", "os_scheduled"}), retry_limit |-> Amount(0)]
            spare ==
       [accelerator |-> Text({"cpu_only", "gpu", "npu", "gpu_npu"}),
        supported_precisions |-> EveryOf({"fp32", "fp16", "bf16", "int8", "int4"}, 1),
        ram_budget_mb |-> Amount(1), storage_budget_mb |-> Amount(0)]
<1>1. /\ "resource_usage" \in DOMAIN resultFields
      /\ resultFields["resource_usage"] = Object(usage, {})
      /\ {"peak_ram_mb", "storage_written_mb"} \subseteq DOMAIN usage
      /\ usage["peak_ram_mb"] = Amount(0) /\ usage["storage_written_mb"] = Amount(0)
  BY Zenon DEF resultFields, resourceUsage
<1>2. /\ "resource_limits" \in DOMAIN leaseFields
      /\ leaseFields["resource_limits"] = Object(limit, {})
      /\ {"max_duration_ms", "max_ram_mb", "max_storage_mb"} \subseteq DOMAIN limit
      /\ limit["max_duration_ms"] = Amount(1) /\ limit["max_ram_mb"] = Amount(1)
      /\ limit["max_storage_mb"] = Amount(0)
  BY Zenon DEF leaseFields, resourceLimits
<1>3. /\ "compute" \in DOMAIN manifestFields
      /\ manifestFields["compute"] = Object(spare, {})
      /\ {"ram_budget_mb", "storage_budget_mb"} \subseteq DOMAIN spare
      /\ spare["ram_budget_mb"] = Amount(1) /\ spare["storage_budget_mb"] = Amount(0)
  BY Zenon DEF manifestFields, compute
<1>. HIDE DEF usage, limit, spare
<1>. 0 \in Nat /\ 1 \in Nat
  OBVIOUS
<1>4. /\ At(c.result.parts["resource_usage"], "peak_ram_mb") \in Int
      /\ At(c.result.parts["resource_usage"], "storage_written_mb") \in Int
  BY Zenon, <1>1, AcceptedShapes, AmountOf
<1>5. /\ At(c.lease.parts["resource_limits"], "max_duration_ms") \in Int
      /\ At(c.lease.parts["resource_limits"], "max_ram_mb") \in Int
      /\ At(c.lease.parts["resource_limits"], "max_storage_mb") \in Int
  BY Zenon, <1>2, AcceptedShapes, AmountOf
<1>6. /\ At(c.manifest.parts["compute"], "ram_budget_mb") \in Int
      /\ At(c.manifest.parts["compute"], "storage_budget_mb") \in Int
  BY Zenon, <1>3, AcceptedShapes, AmountOf
<1>7. resultInsideBudget(c) /\ deviceMeetsLimits(c) /\ WorkIsShort(c.lease)
  BY Zenon DEF validateMobileEdgeContractChain, verifyMobileWorkloadLeaseSignature,
     validateMobileSignedWorkloadLease
<1>8. /\ At(c.result, "finished_at") - At(c.result, "started_at")
            <= At(c.lease.parts.resource_limits, "max_duration_ms")
      /\ At(c.result.parts.resource_usage, "peak_ram_mb")
            <= At(c.lease.parts.resource_limits, "max_ram_mb")
      /\ At(c.result.parts.resource_usage, "storage_written_mb")
            <= At(c.lease.parts.resource_limits, "max_storage_mb")
  BY Zenon, <1>7 DEF resultInsideBudget
<1>9. /\ At(c.lease.parts.resource_limits, "max_ram_mb")
            <= At(c.manifest.parts.compute, "ram_budget_mb")
      /\ At(c.lease.parts.resource_limits, "max_storage_mb")
            <= At(c.manifest.parts.compute, "storage_budget_mb")
      /\ At(c.lease.parts.resource_limits, "max_duration_ms") <= WorkCeiling
  BY Zenon, <1>7 DEF deviceMeetsLimits, WorkIsShort
<1>. QED
  BY SMTT(60), <1>4, <1>5, <1>6, <1>8, <1>9, AcceptedTimes, Ceilings

\* The model of the result is one that policy approved.
LEMMA AcceptedModel ==
    ASSUME NEW c, NEW trust, NEW t, validateMobileEdgeContractChain(c, trust, t)
    PROVE  c.result.parts.model_digest.text \in Holds(c.policy, "approved_model_digests")
<1>1. resultBindsLease(c) /\ policyAdmitsLease(c)
  BY Zenon DEF validateMobileEdgeContractChain
<1>2. c.result.parts["model_digest"] = c.lease.parts["model_digest"]
  BY Zenon, <1>1 DEF resultBindsLease, requireEqual
<1>. QED
  BY Zenon, <1>1, <1>2 DEF policyAdmitsLease

\* No document of an accepted chain was altered and left with its old digest
\* or signature.
LEMMA AcceptedUnaltered ==
    ASSUME NEW c, NEW trust, NEW t, validateMobileEdgeContractChain(c, trust, t)
    PROVE  /\ c.manifest.hash # "changed" /\ c.policy.hash # "changed"
           /\ c.lease.hash # "changed" /\ c.result.hash # "changed"
<1>1. /\ T(c.manifest.hash) = c.manifest.parts["manifest_digest"]
      /\ T(c.policy.hash) = c.policy.parts["decision_digest"]
      /\ T(c.lease.hash) = c.lease.parts.signature.parts.signed_payload_digest
      /\ T(c.result.hash) = c.result.parts.signature.parts.signed_payload_digest
  BY Zenon DEF validateMobileEdgeContractChain, hashCanonicalPayload,
     verifyMobileWorkloadLeaseSignature, verifyMobileResultEvidenceSignature,
     verifyEd25519Evidence
<1>2. "manifest_digest" \in DOMAIN manifestFields /\ manifestFields["manifest_digest"] = Digest
  BY Zenon DEF manifestFields
<1>3. "decision_digest" \in DOMAIN policyFields /\ policyFields["decision_digest"] = Digest
  BY Zenon DEF policyFields
<1>4. "signature" \in DOMAIN leaseFields /\ leaseFields["signature"] = signatureShape
  BY Zenon DEF leaseFields
<1>5. "signature" \in DOMAIN resultFields /\ resultFields["signature"] = signatureShape
  BY Zenon DEF resultFields
<1>6. /\ c.manifest.parts["manifest_digest"].text \in {"plain", "another"}
      /\ c.policy.parts["decision_digest"].text \in {"plain", "another"}
  BY Zenon, <1>2, <1>3, AcceptedShapes, DigestOf
<1>7. /\ c.lease.parts.signature.parts.signed_payload_digest.text \in {"plain", "another"}
      /\ c.result.parts.signature.parts.signed_payload_digest.text \in {"plain", "another"}
  BY Zenon, <1>4, <1>5, AcceptedShapes, SignedDigest
<1>8. \A h : T(h).text = h
  BY Zenon DEF T
<1>. QED
  BY Zenon, <1>1, <1>6, <1>7, <1>8

\* A manifest or a decision that was given a new digest is quoted with it.
LEMMA AcceptedQuoted ==
    ASSUME NEW c, NEW trust, NEW t, validateMobileEdgeContractChain(c, trust, t)
    PROVE  /\ c.policy.parts["manifest_digest"] = T(c.manifest.hash)
           /\ c.lease.parts["policy_decision_digest"] = T(c.policy.hash)
<1>1. /\ T(c.manifest.hash) = c.manifest.parts["manifest_digest"]
      /\ T(c.policy.hash) = c.policy.parts["decision_digest"]
      /\ policyBindsManifest(c) /\ leaseBindsPolicy(c)
  BY Zenon DEF validateMobileEdgeContractChain, hashCanonicalPayload
<1>. QED
  BY Zenon, <1>1 DEF policyBindsManifest, leaseBindsPolicy, requireEqual

-----------------------------------------------------------------------------
(***************************************************************************)
(* The invariant.                                                          *)
(***************************************************************************)
\* Documents follow one another; the lease is there before the work.
DocsInv ==
    /\ DOMAIN doc = {"manifest", "policy", "lease", "result"}
    /\ Have("policy") => Have("manifest")
    /\ Have("lease") => Have("policy")
    /\ started # Never => Have("lease")
    /\ Have("result") => Have("lease")

Logged == {log[j] : j \in DOMAIN log}

\* Statuses are published one after the other, and nothing follows one that
\* cancels or revokes.
LogInv ==
    /\ log \in Seq(Logged)
    /\ \A j \in 1 .. Len(log) - 1 : Is(Published(j), "status", "active")

QuotedByPolicy == Entire("policy").parts["manifest_digest"] = T("plain")
QuotedByLease == Entire("lease").parts["policy_decision_digest"] = T("plain")

\* A fault is visible: an altered document does not have its hash, and one that
\* was given a new digest is still quoted with the old one.
FaultInv ==
    /\ fault \in {"none", "mistaken", "altered", "resealed"}
    /\ fault = "none" /\ Have("policy") => QuotedByPolicy
    /\ fault = "none" /\ Have("lease") => QuotedByLease
    /\ fault \in {"altered", "resealed"} => Have("result")
    /\ fault = "altered" => \E name \in DOMAIN doc : doc[name].hash = "changed"
    /\ fault = "resealed" => \/ doc["manifest"].hash = "another" /\ QuotedByPolicy
                             \/ doc["policy"].hash = "another" /\ QuotedByLease

\* What was accepted passes now.
VerdictInv == accepted = Unjudged \/ accepted \subseteq {i \in DOMAIN log : Passes(i)}

EdgeInv == DocsInv /\ LogInv /\ FaultInv /\ VerdictInv

\* What is not stated is taken from the rest.
LEMMA OverOthers ==
    ASSUME NEW parts, NEW others, NEW f \in DOMAIN others, f \notin DOMAIN parts
    PROVE  f \in DOMAIN Over(parts, others) /\ Over(parts, others)[f] = others[f]
BY Zenon DEF Over

\* An honest maker leaves a digest plain wherever it says nothing else.
LEMMA PlainDigest ==
    ASSUME NEW fields, NEW f \in DOMAIN fields, fields[f] = Digest,
           NEW parts, f \notin DOMAIN parts, f # "side_effects"
    PROVE  f \in DOMAIN PlainBut(parts, fields) /\ PlainBut(parts, fields)[f] = T("plain")
<1>1. PlainLeaf(Digest) = T("plain")
  BY SMTT(60) DEF PlainLeaf, Digest, Text, Pick
<1>2. PlainValue(Digest) = T("plain")
  BY SMTT(60), <1>1 DEF PlainValue, Digest, Text
<1>3. f \in DOMAIN Plain(fields) /\ Plain(fields)[f] = T("plain")
  BY Zenon, <1>2 DEF Plain
<1>4. f \notin DOMAIN [side_effects |-> N(0)]
  BY Zenon
<1>5. /\ f \in DOMAIN Over([side_effects |-> N(0)], Plain(fields))
      /\ Over([side_effects |-> N(0)], Plain(fields))[f] = T("plain")
  BY ZenonT(60), <1>3, <1>4, OverOthers
<1>. QED
  BY ZenonT(60), <1>5, OverOthers DEF PlainBut

\* The decision quotes the manifest, and the lease the decision, by the digest
\* that its maker computed.
LEMMA HonestQuotes ==
    /\ "manifest_digest" \in DOMAIN honest["policy"]
    /\ honest["policy"]["manifest_digest"] = T("plain")
    /\ "policy_decision_digest" \in DOMAIN honest["lease"]
    /\ honest["lease"]["policy_decision_digest"] = T("plain")
<1>1. honest["policy"] = honestPolicy /\ honest["lease"] = honestLease
  BY Zenon DEF honest
<1>2. "manifest_digest" \in DOMAIN policyFields /\ policyFields["manifest_digest"] = Digest
  BY Zenon DEF policyFields
<1>3. /\ "policy_decision_digest" \in DOMAIN leaseFields
      /\ leaseFields["policy_decision_digest"] = Digest
  BY Zenon DEF leaseFields
<1>4. /\ "manifest_digest" \in DOMAIN honestPolicy
      /\ honestPolicy["manifest_digest"] = T("plain")
  <2>. DEFINE parts ==
         [decision |-> T("allow"), lease_issuance |-> T("eligible"),
          allowed_workload_classes |-> L(<<T("ocr")>>), resource_limits |-> limits,
          data_policy |-> data]
  <2>1. "manifest_digest" \notin DOMAIN parts /\ honestPolicy = PlainBut(parts, policyFields)
    BY Zenon DEF honestPolicy
  <2>. HIDE DEF parts
  <2>. QED
    BY Zenon, <1>2, <2>1, PlainDigest
<1>5. /\ "policy_decision_digest" \in DOMAIN honestLease
      /\ honestLease["policy_decision_digest"] = T("plain")
  <2>. DEFINE parts ==
         [workload_class |-> T("ocr"), resource_limits |-> limits, data_policy |-> data]
  <2>1. "policy_decision_digest" \notin DOMAIN parts /\ honestLease = PlainBut(parts, leaseFields)
    BY Zenon DEF honestLease
  <2>. HIDE DEF parts
  <2>. QED
    BY Zenon, <1>3, <2>1, PlainDigest
<1>. QED
  BY Zenon, <1>1, <1>4, <1>5

\* A document that was made is there.
LEMMA StatingIsSome ==
    ASSUME NEW parts
    PROVE  Stating(parts) # None
BY SMTT(60) DEF Stating, None

\* A maker states what it means to, or it is mistaken, which only happens once.
LEMMA MadeOf ==
    ASSUME NEW name, NEW parts, NEW made \in Made(name, parts)
    PROVE  \/ made.mistake = "none" /\ made.parts = parts
           \/ made.mistake = "mistaken" /\ fault = "none"
<1>1. CASE made \in [mistake : {"none"}, parts : {parts}]
  BY SMTT(60), <1>1
<1>2. CASE plan = "faulty" /\ fault = "none" /\ name \in Faulty
           /\ made \in [mistake : {"mistaken"},
                        parts : {Over(spoilt, parts) : spoilt \in Spoilt(name, parts)}]
  BY SMTT(60), <1>2
<1>. QED
  BY Zenon, <1>1, <1>2 DEF Made

\* Making a document keeps the invariant, if the ones before it are there and
\* an honest maker says nothing of its own about digests.
LEMMA MakeKeeps ==
    ASSUME EdgeInv, accepted = Unjudged,
           NEW name \in {"manifest", "policy", "lease", "result"}, NEW parts,
           name = "policy" => Have("manifest") /\ "manifest_digest" \notin DOMAIN parts,
           name = "lease" => Have("policy") /\ "policy_decision_digest" \notin DOMAIN parts,
           name = "result" => Have("lease"),
           Make(name, parts)
    PROVE  EdgeInv'
<1>1. PICK made \in Made(name, parts) :
          /\ doc' = [doc EXCEPT ![name] = Stating(made.parts)]
          /\ fault' = IF made.mistake = "none" THEN fault ELSE made.mistake
  BY Zenon DEF Make
<1>2. /\ UNCHANGED <<plan, now, log, started, keys, accepted>>
      /\ ~Have(name)
  BY Zenon DEF Make
<1>3. /\ DOMAIN doc = {"manifest", "policy", "lease", "result"}
      /\ DOMAIN doc' = DOMAIN doc
      /\ doc'[name] = Stating(made.parts)
      /\ \A other \in DOMAIN doc \ {name} : doc'[other] = doc[other]
  BY Zenon, <1>1 DEF EdgeInv, DocsInv
<1>4. Have(name)' /\ \A other \in DOMAIN doc : Have(other) => Have(other)'
  BY Zenon, <1>3, StatingIsSome DEF Have
<1>5. DocsInv'
  BY Zenon, <1>2, <1>3, <1>4 DEF EdgeInv, DocsInv, Have
<1>6. LogInv'
  BY Zenon, <1>2 DEF EdgeInv, LogInv, Logged, Published
<1>7. FaultInv'
  <2>1. \/ made.mistake = "none" /\ made.parts = parts /\ fault' = fault
        \/ fault = "none" /\ fault' = "mistaken"
    BY Zenon, <1>1, MadeOf
  <2>2. fault \notin {"altered", "resealed"}
    BY Zenon, <1>2 DEF EdgeInv, FaultInv, DocsInv
  <2>3. CASE fault' = "mistaken"
    BY Zenon, <2>3 DEF FaultInv
  <2>4. CASE fault' = fault /\ made.mistake = "none" /\ made.parts = parts
    <3>1. fault' \in {"none", "mistaken"}
      BY Zenon, <2>2, <2>4 DEF EdgeInv, FaultInv
    <3>2. fault = "none" /\ Have("policy")' => QuotedByPolicy'
      <4>1. CASE name = "policy"
        <5>1. Entire("policy")' = Whole("policy", Stating(parts))
          BY Zenon, <4>1, <1>3, <2>4 DEF Entire
        <5>2. Whole("policy", Stating(parts)).parts = Over(parts, honest["policy"])
          BY Zenon DEF Whole, Stating
        <5>3. Over(parts, honest["policy"])["manifest_digest"] = T("plain")
          <6>1. "manifest_digest" \notin DOMAIN parts
            BY Zenon, <4>1
          <6>2. "manifest_digest" \in DOMAIN honest["policy"]
            BY Zenon, HonestQuotes
          <6>3. Over(parts, honest["policy"])["manifest_digest"] = honest["policy"]["manifest_digest"]
            BY Zenon, <6>1, <6>2 DEF Over
          <6>. QED
            BY Zenon, <6>3, HonestQuotes
        <5>. QED
          BY Zenon, <5>1, <5>2, <5>3 DEF QuotedByPolicy
      <4>2. CASE name # "policy"
        BY Zenon, <4>2, <1>3 DEF EdgeInv, FaultInv, QuotedByPolicy, Entire, Have
      <4>. QED
        BY Zenon, <4>1, <4>2
    <3>3. fault = "none" /\ Have("lease")' => QuotedByLease'
      <4>1. CASE name = "lease"
        <5>1. Entire("lease")' = Whole("lease", Stating(parts))
          BY Zenon, <4>1, <1>3, <2>4 DEF Entire
        <5>2. Whole("lease", Stating(parts)).parts = Over(parts, honest["lease"])
          BY Zenon DEF Whole, Stating
        <5>3. Over(parts, honest["lease"])["policy_decision_digest"] = T("plain")
          <6>1. "policy_decision_digest" \notin DOMAIN parts
            BY Zenon, <4>1
          <6>2. "policy_decision_digest" \in DOMAIN honest["lease"]
            BY Zenon, HonestQuotes
          <6>3. Over(parts, honest["lease"])["policy_decision_digest"] = honest["lease"]["policy_decision_digest"]
            BY Zenon, <6>1, <6>2 DEF Over
          <6>. QED
            BY Zenon, <6>3, HonestQuotes
        <5>. QED
          BY Zenon, <5>1, <5>2, <5>3 DEF QuotedByLease
      <4>2. CASE name # "lease"
        BY Zenon, <4>2, <1>3 DEF EdgeInv, FaultInv, QuotedByLease, Entire, Have
      <4>. QED
        BY Zenon, <4>1, <4>2
    <3>. QED
      BY Zenon, <2>4, <3>1, <3>2, <3>3 DEF FaultInv
  <2>. QED
    BY Zenon, <2>1, <2>3, <2>4
<1>8. VerdictInv'
  BY Zenon, <1>2 DEF VerdictInv, Unjudged, Never
<1>. QED
  BY Zenon, <1>5, <1>6, <1>7, <1>8 DEF EdgeInv

\* Appending to a sequence of some elements gives one of those and the new one.
LEMMA AppendSeq ==
    ASSUME log \in Seq(Logged), NEW e, log' = Append(log, e)
    PROVE  /\ log' \in Seq(Logged')
           /\ Len(log) \in Nat /\ Len(log') = Len(log) + 1
           /\ DOMAIN log = 1 .. Len(log) /\ DOMAIN log' = 1 .. Len(log')
           /\ \A j \in 1 .. Len(log) : log'[j] = log[j]
<1>. DEFINE S == Logged \cup {e}
<1>1. log \in Seq(S) /\ e \in S
  BY SMTT(60)
<1>. HIDE DEF S
<1>2. /\ log' \in Seq(S) /\ Len(log) \in Nat /\ Len(log') = Len(log) + 1
      /\ DOMAIN log = 1 .. Len(log) /\ DOMAIN log' = 1 .. Len(log')
      /\ \A j \in 1 .. Len(log) : log'[j] = log[j]
  BY SMTT(60), <1>1
<1>3. \A j \in 1 .. Len(log') : log'[j] \in Logged'
  BY Zenon, <1>2 DEF Logged
<1>4. log' \in Seq(Logged')
  BY SMTT(60), <1>2, <1>3
<1>. QED
  BY Zenon, <1>2, <1>4

\* Publishing a status keeps the invariant: it is only done while the latest
\* one leaves the lease active.
LEMMA PublishKeeps ==
    ASSUME EdgeInv, accepted = Unjudged, NEW status, Publish(status)
    PROVE  EdgeInv'
<1>. PICK parts : \E made \in Made("status", parts) :
          /\ log' = Append(log, Stating(made.parts))
          /\ fault' = IF made.mistake = "none" THEN fault ELSE made.mistake
  BY Zenon DEF Publish
<1>1. PICK made \in Made("status", parts) :
          /\ log' = Append(log, Stating(made.parts))
          /\ fault' = IF made.mistake = "none" THEN fault ELSE made.mistake
  OBVIOUS
<1>2. /\ UNCHANGED <<plan, now, doc, started, keys, accepted>>
      /\ log # <<>> => Is(Published(Len(log)), "status", "active")
  BY Zenon DEF Publish
<1>3. DocsInv'
  BY Zenon, <1>2 DEF EdgeInv, DocsInv, Have
<1>4. LogInv'
  <2>1. log \in Seq(Logged)
    BY Zenon DEF EdgeInv, LogInv
  <2>2. /\ log' \in Seq(Logged')
        /\ Len(log) \in Nat /\ Len(log') = Len(log) + 1
        /\ \A j \in 1 .. Len(log) : log'[j] = log[j]
    BY Zenon, <1>1, <2>1, AppendSeq
  <2>3. ASSUME NEW j \in 1 .. Len(log') - 1
        PROVE  Is(Published(j), "status", "active")'
    <3>1. j \in 1 .. Len(log)
      BY SMTT(60), <2>2
    <3>2. Published(j)' = Published(j)
      BY Zenon, <2>2, <3>1 DEF Published
    <3>3. Is(Published(j), "status", "active")
      <4>1. CASE j = Len(log)
        <5>1. log # <<>>
          BY SMTT(60), <3>1
        <5>. QED
          BY Zenon, <1>2, <4>1, <5>1
      <4>2. CASE j # Len(log)
        <5>1. j \in 1 .. Len(log) - 1
          BY SMTT(60), <2>2, <3>1, <4>2
        <5>. QED
          BY Zenon, <5>1 DEF EdgeInv, LogInv
      <4>. QED
        BY Zenon, <4>1, <4>2
    <3>. QED
      BY Zenon, <3>2, <3>3 DEF Is
  <2>. QED
    BY Zenon, <2>2, <2>3 DEF LogInv
<1>5. FaultInv'
  <2>1. fault' = fault \/ fault' = "mistaken"
    BY Zenon, <1>1, MadeOf
  <2>2. CASE fault' = fault
    BY Zenon, <1>2, <2>2 DEF EdgeInv, FaultInv, Have, QuotedByPolicy, QuotedByLease, Entire
  <2>3. CASE fault' = "mistaken"
    BY Zenon, <2>3 DEF FaultInv
  <2>. QED
    BY Zenon, <2>1, <2>2, <2>3
<1>6. VerdictInv'
  BY Zenon, <1>2 DEF VerdictInv, Unjudged, Never
<1>. QED
  BY Zenon, <1>3, <1>4, <1>5, <1>6 DEF EdgeInv

\* Altering a document keeps the invariant: its neighbour still quotes the old
\* digest.
LEMMA AlterKeeps ==
    ASSUME EdgeInv, accepted = Unjudged, NEW name \in DOMAIN doc, Alter(name)
    PROVE  EdgeInv'
<1>1. /\ fault = "none" /\ Have("result")
      /\ UNCHANGED <<plan, now, log, started, keys, accepted>>
  BY Zenon DEF Alter
<1>2. DOMAIN doc = {"manifest", "policy", "lease", "result"}
  BY Zenon DEF EdgeInv, DocsInv
<1>3. Have("manifest") /\ Have("policy") /\ Have("lease") /\ QuotedByPolicy /\ QuotedByLease
  BY Zenon, <1>1 DEF EdgeInv, DocsInv, FaultInv
<1>4. \E parts, hash :
          /\ doc' = [doc EXCEPT ![name] = [parts |-> parts, hash |-> hash]]
          /\ \/ hash = "changed" /\ fault' = "altered"
             \/ hash = "another" /\ fault' = "resealed" /\ name \in DOMAIN digestField
  BY Zenon DEF Alter
<1>5. PICK parts, hash :
          /\ doc' = [doc EXCEPT ![name] = [parts |-> parts, hash |-> hash]]
          /\ \/ hash = "changed" /\ fault' = "altered"
             \/ hash = "another" /\ fault' = "resealed" /\ name \in DOMAIN digestField
  BY Zenon, <1>4
<1>6. /\ DOMAIN doc' = DOMAIN doc
      /\ doc'[name] = [parts |-> parts, hash |-> hash]
      /\ \A other \in DOMAIN doc \ {name} : doc'[other] = doc[other]
  BY Zenon, <1>2, <1>5
<1>7. \A other \in DOMAIN doc : Have(other)'
  <2>1. [parts |-> parts, hash |-> hash] # None
    BY SMTT(60) DEF None
  <2>. QED
    BY Zenon, <1>2, <1>3, <1>1, <1>6, <2>1 DEF Have
<1>8. DocsInv'
  BY Zenon, <1>2, <1>6, <1>7 DEF DocsInv
<1>9. LogInv'
  BY Zenon, <1>1 DEF EdgeInv, LogInv, Logged, Published
<1>10. FaultInv'
  <2>1. doc'[name].hash = hash
    BY SMTT(60), <1>6
  <2>2. CASE fault' = "altered" /\ hash = "changed"
    BY Zenon, <1>2, <1>6, <1>7, <2>1, <2>2 DEF FaultInv
  <2>3. CASE fault' = "resealed" /\ hash = "another" /\ name \in DOMAIN digestField
    <3>1. name = "manifest" \/ name = "policy"
      BY Zenon, <2>3 DEF digestField
    <3>2. name = "manifest" => QuotedByPolicy'
      BY Zenon, <1>2, <1>3, <1>6 DEF QuotedByPolicy, Entire
    <3>3. name = "policy" => QuotedByLease'
      BY Zenon, <1>2, <1>3, <1>6 DEF QuotedByLease, Entire
    <3>. QED
      BY Zenon, <1>2, <1>6, <1>7, <2>1, <2>3, <3>1, <3>2, <3>3 DEF FaultInv
  <2>. QED
    BY Zenon, <1>5, <2>2, <2>3
<1>11. VerdictInv'
  BY Zenon, <1>1 DEF VerdictInv, Unjudged, Never
<1>. QED
  BY Zenon, <1>8, <1>9, <1>10, <1>11 DEF EdgeInv

\* The verdict keeps the invariant: nothing that it looked at changes with it.
LEMMA JudgeKeeps ==
    ASSUME EdgeInv, Judge
    PROVE  EdgeInv'
<1>1. UNCHANGED <<plan, now, doc, log, started, keys, fault>>
  BY Zenon DEF Judge
<1>2. DocsInv' /\ LogInv' /\ FaultInv'
  BY Zenon, <1>1 DEF EdgeInv, DocsInv, LogInv, Logged, FaultInv, Have, QuotedByPolicy, QuotedByLease,
     Entire, Published
<1>3. \A i : Passes(i)' = Passes(i)
  BY Zenon, <1>1 DEF Passes, Chain, Entire, Published
<1>4. VerdictInv'
  BY Zenon, <1>1, <1>3 DEF Judge, VerdictInv
<1>. QED
  BY Zenon, <1>2, <1>4 DEF EdgeInv

\* The first states satisfy the invariant.
LEMMA InitEdgeInv == Init => EdgeInv
<1>. SUFFICES ASSUME Init PROVE EdgeInv
  OBVIOUS
<1>1. /\ DOMAIN doc = {"manifest", "policy", "lease", "result"}
      /\ \A name \in DOMAIN doc : ~Have(name)
      /\ log = <<>> /\ fault = "none" /\ accepted = Unjudged /\ started = Never
  <2>1. DOMAIN fieldsOf \ {"status"} = {"manifest", "policy", "lease", "result"}
    BY SMTT(60) DEF fieldsOf
  <2>. QED
    BY Zenon, <2>1 DEF Init, Have
<1>2. LogInv
  BY SMTT(60), <1>1 DEF LogInv
<1>. QED
  BY Zenon, <1>1, <1>2 DEF EdgeInv, DocsInv, FaultInv, VerdictInv

\* Every step keeps the invariant.
LEMMA NextEdgeInv == EdgeInv /\ [Next]_vars => EdgeInv'
<1>. SUFFICES ASSUME EdgeInv, [Next]_vars PROVE EdgeInv'
  OBVIOUS
<1>1. CASE UNCHANGED vars
  <2>1. UNCHANGED <<plan, now, doc, log, started, keys, fault, accepted>>
    BY Zenon, <1>1 DEF vars
  <2>2. \A i : Passes(i)' = Passes(i)
    BY Zenon, <2>1 DEF Passes, Chain, Entire, Published
  <2>. QED
    BY Zenon, <2>1, <2>2 DEF EdgeInv, DocsInv, LogInv, Logged, FaultInv, VerdictInv, Have,
       QuotedByPolicy, QuotedByLease, Entire, Published
<1>2. CASE accepted = Unjudged /\ Observe
  <2>1. PICK parts : Make("manifest", parts)
    BY Zenon, <1>2 DEF Observe
  <2>. QED
    BY Zenon, <1>2, <2>1, MakeKeeps
<1>3. CASE accepted = Unjudged /\ Decide
  <2>1. PICK life \in LivesNow(Lives, 5) :
            Make("policy", [evaluated_at |-> N(now), expires_at |-> N(now + life)])
    BY Zenon, <1>3 DEF Decide
  <2>2. "manifest_digest" \notin DOMAIN [evaluated_at |-> N(now), expires_at |-> N(now + life)]
    BY Zenon
  <2>3. Have("manifest")
    BY Zenon, <1>3 DEF Decide
  <2>. QED
    BY Zenon, <1>3, <2>1, <2>2, <2>3, MakeKeeps
<1>4. CASE accepted = Unjudged /\ Issue
  <2>1. PICK wait \in LivesNow({0, 1}, 0), life \in LivesNow({2, LeaseCeiling}, LeaseCeiling) :
            Make("lease", [issued_at |-> N(now), not_before |-> N(now + wait),
                           expires_at |-> N(now + wait + life)])
    BY Zenon, <1>4 DEF Issue
  <2>2. "policy_decision_digest" \notin
            DOMAIN [issued_at |-> N(now), not_before |-> N(now + wait),
                    expires_at |-> N(now + wait + life)]
    BY Zenon
  <2>3. Have("policy")
    BY Zenon, <1>4 DEF Issue
  <2>. QED
    BY Zenon, <1>4, <2>1, <2>2, <2>3, MakeKeeps
<1>5. CASE accepted = Unjudged /\ Finish
  <2>1. PICK parts : Make("result", parts)
    BY Zenon, <1>5 DEF Finish
  <2>2. Have("lease")
    BY Zenon, <1>5 DEF Finish, EdgeInv, DocsInv
  <2>. QED
    BY Zenon, <1>5, <2>1, <2>2, MakeKeeps
<1>6. CASE accepted = Unjudged /\ (Start \/ Tick \/ \E k \in {"issuer", "device"} : Withdraw(k))
  <2>1. /\ UNCHANGED <<doc, log, fault, accepted>>
        /\ started' # started => Have("lease")
    BY Zenon, <1>6 DEF Start, Tick, Withdraw
  <2>. QED
    BY Zenon, <1>6, <2>1 DEF EdgeInv, DocsInv, LogInv, Logged, FaultInv, VerdictInv, Have, QuotedByPolicy,
       QuotedByLease, Entire, Published, Unjudged, Never
<1>. QED
  BY Zenon, <1>1, <1>2, <1>3, <1>4, <1>5, <1>6, PublishKeeps, AlterKeeps, JudgeKeeps DEF Next

\* The invariant holds in every reachable state.
THEOREM EdgeInvariant == Spec => []EdgeInv
<1>1. Init => EdgeInv
  BY InitEdgeInv
<1>2. EdgeInv /\ [Next]_vars => EdgeInv'
  BY NextEdgeInv
<1>. QED
  BY <1>1, <1>2, PTL DEF Spec

-----------------------------------------------------------------------------
(***************************************************************************)
(* What the invariant says of an accepted result.                          *)
(***************************************************************************)
\* A status with which the result was accepted is one that passes now.
LEMMA PresentedPasses ==
    ASSUME EdgeInv, NEW i \in Presented
    PROVE  /\ i \in DOMAIN log /\ Passes(i)
           /\ Len(log) \in Nat /\ DOMAIN log = 1 .. Len(log)
<1>1. i \in DOMAIN log /\ Passes(i)
  BY Zenon DEF EdgeInv, VerdictInv, Presented
<1>2. log \in Seq(Logged)
  BY Zenon DEF EdgeInv, LogInv
<1>. QED
  BY SMTT(60), <1>1, <1>2

\* Work whose result validateMobileEdgeContractChain accepts was done while the
\* manifest, the decision, the lease and the status were in force, and no status
\* that was ever published withdraws the lease.
THEOREM AcceptedWorkIsAuthorized == Spec => []WorkInsideAuthority
<1>1. EdgeInv => WorkInsideAuthority
  <2>. SUFFICES ASSUME EdgeInv, NEW i \in Presented
               PROVE  /\ Encloses(Entire("manifest"), "observed_at", "expires_at")
                      /\ Encloses(Entire("policy"), "evaluated_at", "expires_at")
                      /\ Encloses(Entire("lease"), "not_before", "expires_at")
                      /\ Encloses(Published(i), "observed_at", "expires_at")
                      /\ \A name \in {"manifest", "policy"} :
                            At(Entire("result"), "started_at") < At(Entire(name), "expires_at")
                      /\ \A j \in DOMAIN log : Is(Published(j), "status", "active")
    BY Zenon DEF WorkInsideAuthority
  <2>. DEFINE c == Chain(i)
              trust == [issuer |-> keys.issuer, device |-> keys.device,
                        head |-> StatusHead(Published(Len(log)))]
  <2>1. validateMobileEdgeContractChain(c, trust, now)
    BY Zenon, PresentedPasses DEF Passes
  <2>2. /\ c.manifest = Entire("manifest") /\ c.policy = Entire("policy")
        /\ c.lease = Entire("lease") /\ c.status = Published(i) /\ c.result = Entire("result")
        /\ trust.head = StatusHead(Published(Len(log)))
    BY Zenon DEF Chain
  <2>. HIDE DEF c, trust
  <2>3. /\ Encloses(Entire("manifest"), "observed_at", "expires_at")
        /\ Encloses(Entire("policy"), "evaluated_at", "expires_at")
        /\ Encloses(Entire("lease"), "not_before", "expires_at")
        /\ Encloses(Published(i), "observed_at", "expires_at")
        /\ At(Entire("result"), "started_at") < At(Entire("manifest"), "expires_at")
        /\ At(Entire("result"), "started_at") < At(Entire("policy"), "expires_at")
    BY Zenon, <2>1, <2>2, AcceptedWindows DEF Encloses
  <2>4. ASSUME NEW j \in DOMAIN log
        PROVE  Is(Published(j), "status", "active")
    <3>1. statusIsHead(c, trust.head) /\ Is(c.status, "status", "active")
      BY Zenon, <2>1 DEF validateMobileEdgeContractChain, policyAdmitsLease
    <3>2. c.status.parts["status"] = StatusHead(Published(Len(log))).parts["status"]
      BY Zenon, <2>2, <3>1 DEF statusIsHead, requireEqual
    <3>3. StatusHead(Published(Len(log))).parts["status"] = Published(Len(log)).parts["status"]
      BY Zenon DEF StatusHead, Document
    <3>4. Is(Published(Len(log)), "status", "active")
      BY Zenon, <3>1, <3>2, <3>3 DEF Is
    <3>5. j = Len(log) \/ j \in 1 .. Len(log) - 1
      BY SMTT(60), PresentedPasses
    <3>. QED
      BY Zenon, <3>4, <3>5 DEF EdgeInv, LogInv
  <2>. QED
    BY Zenon, <2>3, <2>4
<1>. QED
  BY <1>1, EdgeInvariant, PTL

\* The documents of an accepted result agree wherever two of them speak of the
\* same thing, the work stayed within what the device can spare and on a model
\* that policy approved, and none of them was altered after it was made.
THEOREM AcceptedDocumentsAgree == Spec => []OneStory
<1>1. EdgeInv => OneStory
  <2>. SUFFICES ASSUME EdgeInv, NEW i \in Presented
               PROVE  /\ \A a, b \in {Entire(name) : name \in DOMAIN doc} \cup {Published(i)} :
                            SameStory(a, b)
                      /\ At(Entire("result").parts.resource_usage, "peak_ram_mb")
                            <= At(Entire("manifest").parts.compute, "ram_budget_mb")
                      /\ At(Entire("result").parts.resource_usage, "storage_written_mb")
                            <= At(Entire("manifest").parts.compute, "storage_budget_mb")
                      /\ At(Entire("result"), "finished_at") - At(Entire("result"), "started_at")
                            <= WorkCeiling
                      /\ Entire("result").parts.model_digest.text
                            \in Holds(Entire("policy"), "approved_model_digests")
                      /\ fault \in {"none", "mistaken"}
    BY Zenon DEF OneStory
  <2>. DEFINE c == Chain(i)
              trust == [issuer |-> keys.issuer, device |-> keys.device,
                        head |-> StatusHead(Published(Len(log)))]
  <2>1. validateMobileEdgeContractChain(c, trust, now)
    BY Zenon, PresentedPasses DEF Passes
  <2>2. /\ c.manifest = Entire("manifest") /\ c.policy = Entire("policy")
        /\ c.lease = Entire("lease") /\ c.status = Published(i) /\ c.result = Entire("result")
    BY Zenon DEF Chain
  <2>. HIDE DEF c, trust
  <2>3. \A a, b \in {Entire(name) : name \in DOMAIN doc} \cup {Published(i)} : SameStory(a, b)
    <3>1. {Entire(name) : name \in DOMAIN doc} \cup {Published(i)}
            \subseteq {c.manifest, c.policy, c.lease, c.status, c.result}
      BY Zenon, <2>2 DEF EdgeInv, DocsInv
    <3>2. \A d \in {c.manifest, c.policy, c.lease, c.status, c.result} :
             \A f \in Shared \cap DOMAIN d.parts : d.parts[f] = c.lease.parts[f]
      BY Zenon, <2>1, AgreeWithLease
    <3>. QED
      BY ZenonT(60), <3>1, <3>2 DEF SameStory
  <2>4. /\ At(Entire("result").parts.resource_usage, "peak_ram_mb")
              <= At(Entire("manifest").parts.compute, "ram_budget_mb")
        /\ At(Entire("result").parts.resource_usage, "storage_written_mb")
              <= At(Entire("manifest").parts.compute, "storage_budget_mb")
        /\ At(Entire("result"), "finished_at") - At(Entire("result"), "started_at") <= WorkCeiling
    BY Zenon, <2>1, <2>2, AcceptedBudget
  <2>5. Entire("result").parts.model_digest.text
            \in Holds(Entire("policy"), "approved_model_digests")
    BY Zenon, <2>1, <2>2, AcceptedModel
  <2>6. fault \in {"none", "mistaken"}
    <3>1. \A name : Entire(name).hash = doc[name].hash
      BY Zenon DEF Entire, Whole
    <3>2. fault # "altered"
      <4>1. /\ c.manifest.hash # "changed" /\ c.policy.hash # "changed"
            /\ c.lease.hash # "changed" /\ c.result.hash # "changed"
        BY Zenon, <2>1, AcceptedUnaltered
      <4>2. \A name \in {"manifest", "policy", "lease", "result"} : doc[name].hash # "changed"
        BY Zenon, <2>2, <3>1, <4>1
      <4>. QED
        BY Zenon, <4>2 DEF EdgeInv, DocsInv, FaultInv
    <3>3. fault # "resealed"
      <4>1. /\ Entire("policy").parts["manifest_digest"] = T(doc["manifest"].hash)
            /\ Entire("lease").parts["policy_decision_digest"] = T(doc["policy"].hash)
        BY Zenon, <2>1, <2>2, <3>1, AcceptedQuoted
      <4>2. T("another") # T("plain")
        BY SMTT(60) DEF T
      <4>. QED
        BY Zenon, <4>1, <4>2 DEF EdgeInv, FaultInv, QuotedByPolicy, QuotedByLease
    <3>. QED
      BY Zenon, <3>2, <3>3 DEF EdgeInv, FaultInv
  <2>. QED
    BY Zenon, <2>3, <2>4, <2>5, <2>6
<1>. QED
  BY <1>1, EdgeInvariant, PTL
=================================================================================
