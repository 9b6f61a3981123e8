--------------------------------- MODULE MobileEdge ---------------------------------
(***************************************************************************)
(* A workload on a mobile device, from the device's manifest to the result *)
(* it reports, judged by the contract of MobileEdgeContract.  The device,  *)
(* policy, the issuer of leases and time are outside of this repository;   *)
(* what they may produce is what the contract's documents can say.         *)
(*                                                                         *)
(* On a "timed" plan every maker is honest and time passes between any two *)
(* steps, so that windows end, statuses are renewed, leases are cancelled  *)
(* and keys are withdrawn while the work goes on.  On a "faulty" plan the  *)
(* schedule is generous and one thing goes wrong: a maker gets one part of *)
(* its document wrong, or a document is altered on its way, with or        *)
(* without a new digest.                                                   *)
(***************************************************************************)
EXTENDS MobileEdgeContract

CONSTANTS
    Horizon,        \* when time stops
    Lives,          \* for how long a manifest or a decision may be valid
    Statuses,       \* how many statuses are published at most
    Faulty          \* the documents that may be mistaken or altered

VARIABLES
    plan, now,
    doc,            \* the manifest, the decision, the lease and the result
    log,            \* the statuses that were published, the latest last
    started,        \* when the work began
    keys,           \* the trusted keys of the issuer and of the device
    fault,          \* "none", "mistaken", "altered" or "resealed"
    accepted        \* the statuses with which the result was accepted, once it was judged

vars == <<plan, now, doc, log, started, keys, fault, accepted>>

None == [kind |-> "none"]
Never == 0 - 1
Unjudged == {Never}

-----------------------------------------------------------------------------
(***************************************************************************)
(* The documents of honest makers.                                         *)
(***************************************************************************)
PlainValue(d) ==
    CASE d.shape = "object" -> PlainObject(d)
      [] d.shape = "list" -> L(d.sample)
      [] OTHER -> PlainLeaf(d)

Plain(fields) == [f \in DOMAIN fields |-> PlainValue(fields[f])]

\* These parts, and of the others those that are not among them.
Over(parts, others) ==
    [f \in DOMAIN parts \cup DOMAIN others |-> IF f \in DOMAIN parts THEN parts[f] ELSE others[f]]

With(object, parts) == O(Over(parts, object.parts))
PlainBut(parts, fields) == Over(parts, Over([side_effects |-> N(0)], Plain(fields)))

honestManifest == PlainBut(
    [compute |-> With(PlainObject(compute), [ram_budget_mb |-> N(4), storage_budget_mb |-> N(4)]),
     power |-> With(PlainObject(power), [battery_percent |-> N(5), charging |-> T("true"),
                    thermal_state |-> T("fair"), background_posture |-> T("os_scheduled")]),
     network |-> With(PlainObject(network), [transport |-> T("wifi"), metered |-> T("false")]),
     sensors |-> L(<<O([sensor |-> T("camera"), os_permission |-> T("granted"),
                        policy_allowed |-> T("true")])>>),
     supported_workload_classes |-> L(<<T("ocr")>>), revoked |-> T("false"),
     quarantined |-> T("false")], manifestFields)

limits ==
    With(PlainObject(resourceLimits),
         [max_duration_ms |-> N(WorkCeiling), max_ram_mb |-> N(4), max_storage_mb |-> N(4),
          battery_floor_percent |-> N(4), charging_required |-> T("true"),
          max_thermal_state |-> T("fair"), network |-> T("unmetered"),
          background |-> T("os_scheduled"), retry_limit |-> N(3)])

data == With(PlainObject(dataPolicy), [allowed_sensors |-> L(<<T("camera")>>),
                                       egress |-> T("approved_relay")])

honestPolicy == PlainBut(
    [decision |-> T("allow"), lease_issuance |-> T("eligible"),
     allowed_workload_classes |-> L(<<T("ocr")>>), resource_limits |-> limits,
     data_policy |-> data], policyFields)

honestLease == PlainBut(
    [workload_class |-> T("ocr"), resource_limits |-> limits, data_policy |-> data], leaseFields)

honestStatus == Over([side_effects |-> N(0)], Plain(statusFields))

used(duration) ==
    With(PlainObject(resourceUsage), [duration_ms |-> N(duration), retry_count |-> N(3)])

honestResult == PlainBut(
    [status |-> T("completed"), egress |-> T("approved_relay"), error_codes |-> L(<<>>),
     verification |-> With(PlainObject(verification), [output_filter_passed |-> T("true")])],
    resultFields)

honest == [manifest |-> honestManifest, policy |-> honestPolicy, lease |-> honestLease,
           status |-> honestStatus, result |-> honestResult]

\* Of a document the state keeps what it says beyond that.
Stating(parts) == [parts |-> parts, hash |-> "plain"]
Whole(name, d) == [kind |-> "object", parts |-> Over(d.parts, honest[name]), hash |-> d.hash]
Document(parts) == [kind |-> "object", parts |-> parts, hash |-> "plain"]

-----------------------------------------------------------------------------
(***************************************************************************)
(* One part of a document that is off.                                     *)
(***************************************************************************)
OffObject(d, v) ==
    UNION {{O([v.parts EXCEPT ![p] = w]) : w \in LeafVariants(d.parts[p])} : p \in DOMAIN d.parts}

Off(d, v) ==
    CASE d.shape = "object" -> OffObject(d, v)
      [] d.shape = "list" ->
            {L(<<>>), L(v.items \o v.items)} \cup {L(<<w>>) : w \in OffObject(d.of, v.items[1])}
      [] OTHER -> LeafVariants(d)

fieldsOf == [manifest |-> manifestFields, policy |-> policyFields, lease |-> leaseFields,
             status |-> statusFields, result |-> resultFields]

\* One field off, or one too many.
Spoilt(name, parts) ==
    {[other |-> T("plain")]}
    \cup UNION {{[g \in {f} |-> w] : w \in Off(fieldsOf[name][f], Over(parts, honest[name])[f])
                                            \ {Over(parts, honest[name])[f]}} :
                    f \in DOMAIN fieldsOf[name]}

\* What a maker makes of the document in which it means to state these parts.
Made(name, parts) ==
    [mistake : {"none"}, parts : {parts}]
    \cup IF plan = "faulty" /\ fault = "none" /\ name \in Faulty
         THEN [mistake : {"mistaken"}, parts : {Over(spoilt, parts) : spoilt \in Spoilt(name, parts)}]
         ELSE {}

digestField == [manifest |-> "manifest_digest", policy |-> "decision_digest"]

-----------------------------------------------------------------------------
trustKey(until) ==
    Document(Over([valid_from |-> N(0), valid_until |-> N(until), revoked |-> T("false")],
                  Plain(trustKeyFields)))

Init ==
    /\ plan \in {"timed", "faulty"}
    /\ now = IF plan = "timed" THEN 0 ELSE Horizon - 1
    /\ doc = [name \in DOMAIN fieldsOf \ {"status"} |-> None]
    /\ log = <<>>
    /\ started = Never
    /\ keys = [issuer |-> trustKey(IF plan = "timed" THEN Horizon ELSE 9),
               device |-> trustKey(9)]
    /\ fault = "none"
    /\ accepted = Unjudged

Have(name) == doc[name] # None
Entire(name) == Whole(name, doc[name])
Published(i) == Whole("status", log[i])
LivesNow(timed, generous) == IF plan = "timed" THEN timed ELSE {generous}

Make(name, parts) ==
    /\ ~Have(name)
    /\ \E made \in Made(name, parts) :
          /\ doc' = [doc EXCEPT ![name] = Stating(made.parts)]
          /\ fault' = IF made.mistake = "none" THEN fault ELSE made.mistake
    /\ UNCHANGED <<plan, now, log, started, keys, accepted>>

Observe == \E life \in LivesNow(Lives, 5) :
    Make("manifest", [observed_at |-> N(now), expires_at |-> N(now + life)])

Decide ==
    /\ Have("manifest")
    /\ \E life \in LivesNow(Lives, 5) :
          Make("policy", [evaluated_at |-> N(now), expires_at |-> N(now + life)])

Issue ==
    /\ Have("policy")
    /\ \E wait \in LivesNow({0, 1}, 0), life \in LivesNow({2, LeaseCeiling}, LeaseCeiling) :
          Make("lease", [issued_at |-> N(now), not_before |-> N(now + wait),
                         expires_at |-> N(now + wait + life)])

\* A lease that was cancelled or revoked never becomes active again.
Publish(status) ==
    /\ Have("lease") /\ Len(log) < Statuses
    /\ log # <<>> => plan = "timed" /\ Is(Published(Len(log)), "status", "active")
    /\ plan = "faulty" => status = "active"
    /\ \E life \in LivesNow({StatusCeiling, StatusCeiling + 1}, StatusCeiling) :
       \E made \in Made("status", [sequence |-> N(Len(log)), status |-> T(status),
                                observed_at |-> N(now), expires_at |-> N(now + life)]) :
          /\ log' = Append(log, Stating(made.parts))
          /\ fault' = IF made.mistake = "none" THEN fault ELSE made.mistake
    /\ UNCHANGED <<plan, now, doc, started, keys, accepted>>

Start ==
    /\ Have("lease") /\ started = Never
    /\ plan = "faulty" => log # <<>>
    /\ started' = now
    /\ UNCHANGED <<plan, now, doc, log, keys, fault, accepted>>

Finish ==
    /\ started # Never
    /\ plan = "faulty" => now = started + 1
    /\ Make("result", [started_at |-> N(started), finished_at |-> N(now),
                       resource_usage |-> used(now - started)])

\* Time is counted from the decision on; what follows the result happens in no time.
Tick ==
    /\ now < Horizon /\ Have("policy") /\ ~Have("result")
    /\ plan = "faulty" => now = started
    /\ now' = now + 1
    /\ UNCHANGED <<plan, doc, log, started, keys, fault, accepted>>

Withdraw(k) ==
    /\ plan = "timed" /\ Have("result")
    /\ \A any \in DOMAIN keys : keys[any].parts.revoked = T("false")
    /\ keys' = [keys EXCEPT ![k].parts.revoked = T("true")]
    /\ UNCHANGED <<plan, now, doc, log, started, fault, accepted>>

\* A document is altered on its way; what is not signed may be given a new digest.
Alter(name) ==
    /\ plan = "faulty" /\ fault = "none" /\ name \in Faulty
    /\ Have("result")
    /\ \E spoilt \in Spoilt(name, doc[name].parts) :
          \/ /\ doc' = [doc EXCEPT ![name] = [parts |-> Over(spoilt, @.parts), hash |-> "changed"]]
             /\ fault' = "altered"
          \/ /\ name \in DOMAIN digestField
             /\ doc' = [doc EXCEPT ![name] =
                    [parts |-> Over([f \in {digestField[name]} |-> T("another")],
                                    Over(spoilt, @.parts)),
                     hash |-> "another"]]
             /\ fault' = "resealed"
    /\ UNCHANGED <<plan, now, log, started, keys, accepted>>

-----------------------------------------------------------------------------
(***************************************************************************)
(* The verdict on the documents with the i-th status, now.                 *)
(***************************************************************************)
Chain(i) == [manifest |-> Entire("manifest"), policy |-> Entire("policy"), lease |-> Entire("lease"),
             status |-> Published(i), result |-> Entire("result")]

\* The head that the verifier trusts: what the latest status says of itself.
StatusHead(status) ==
    Document([lease_ref |-> status.parts.lease_ref, status_ref |-> status.parts.status_ref,
              sequence |-> status.parts.sequence, status |-> status.parts.status,
              observed_at |-> status.parts.observed_at, evidence_ref |-> T("plain")])

Complete == Have("result") /\ log # <<>>

Passes(i) ==
    validateMobileEdgeContractChain(
        Chain(i),
        [issuer |-> keys.issuer, device |-> keys.device, head |-> StatusHead(Published(Len(log)))],
        now)

\* The result is judged, with each of the statuses.
Judge ==
    /\ Complete
    /\ accepted' = {i \in DOMAIN log : Passes(i)}
    /\ UNCHANGED <<plan, now, doc, log, started, keys, fault>>

Next ==
    /\ accepted = Unjudged
    /\ \/ Observe \/ Decide \/ Issue \/ Start \/ Finish \/ Tick
       \/ \E status \in {"active", "revoked"} : Publish(status)
       \/ \E k \in {"issuer", "device"} : Withdraw(k)
       \/ \E name \in DOMAIN doc : Alter(name)
       \/ Judge

Spec == Init /\ [][Next]_vars

\* The statuses with which the result was accepted.
Presented == accepted \ Unjudged

\* The work lies inside of the window that a document states, its ends included.
Encloses(d, from, until) ==
    /\ At(d, from) <= At(Entire("result"), "started_at")
    /\ At(Entire("result"), "finished_at") <= At(d, until)

\* A result that validateMobileEdgeContractChain accepts is of work done under authority
\* from its first instant to its last, also when it took no time: the manifest, the
\* decision, the lease and the status enclose it, although the code compares its end with
\* the lease and the status only; it began before the manifest or the decision ran out;
\* and when it is accepted no status that was ever published says that the lease was
\* cancelled or revoked, not even one published after the work or after the status that
\* is presented.
WorkInsideAuthority ==
    \A i \in Presented :
        /\ Encloses(Entire("manifest"), "observed_at", "expires_at")
        /\ Encloses(Entire("policy"), "evaluated_at", "expires_at")
        /\ Encloses(Entire("lease"), "not_before", "expires_at")
        /\ Encloses(Published(i), "observed_at", "expires_at")
        /\ \A name \in {"manifest", "policy"} :
              At(Entire("result"), "started_at") < At(Entire(name), "expires_at")
        /\ \A j \in DOMAIN log : Is(Published(j), "status", "active")

Shared == {"device_ref", "owner_ref", "tenant_ref", "packet_ref", "operator_ref", "session_ref",
           "lease_ref", "cancellation_ref", "manifest_ref", "manifest_digest",
           "policy_decision_digest", "approval_evidence_ref", "model_digest", "runtime_digest",
           "input_refs", "resource_limits", "data_policy"}

SameStory(a, b) ==
    \A f \in Shared \cap DOMAIN a.parts \cap DOMAIN b.parts : a.parts[f] = b.parts[f]

\* The documents of an accepted result tell one story, the one that was told when they
\* were made.  Any two of them agree wherever they speak of the same thing, although
\* validateMobileEdgeContractChain compares only neighbours; what the result reports to have used is
\* within what the device said it can spare, on a model that policy approved for it; and
\* none of them was altered after it was hashed or signed.
OneStory ==
    \A i \in Presented :
        /\ \A a, b \in {Entire(name) : name \in DOMAIN doc} \cup {Published(i)} : SameStory(a, b)
        /\ At(Entire("result").parts.resource_usage, "peak_ram_mb")
              <= At(Entire("manifest").parts.compute, "ram_budget_mb")
        /\ At(Entire("result").parts.resource_usage, "storage_written_mb")
              <= At(Entire("manifest").parts.compute, "storage_budget_mb")
        /\ At(Entire("result"), "finished_at") - At(Entire("result"), "started_at") <= WorkCeiling
        /\ Entire("result").parts.model_digest.text \in Holds(Entire("policy"), "approved_model_digests")
        /\ fault \in {"none", "mistaken"}

Within(t, d, from, until) == At(d, from) <= t /\ t < At(d, until)

\* Everybody did what they should.  The lease ends before the manifest and the decision
\* do, every status is one that the issuer may publish, and the keys are good.
HonestMakers ==
    /\ fault = "none"
    /\ \A name \in {"manifest", "policy"} :
          At(Entire("lease"), "expires_at") <= At(Entire(name), "expires_at")
    /\ At(Entire("lease"), "issued_at") < At(keys.issuer, "valid_until")
    /\ \A i \in DOMAIN log :
          /\ Is(Published(i), "status", "active")
          /\ At(Published(i), "expires_at") <= At(Entire("lease"), "expires_at")
          /\ At(Published(i), "expires_at") - At(Published(i), "observed_at") <= StatusCeiling
          /\ At(Published(i), "observed_at") < At(keys.issuer, "valid_until")
    /\ \A k \in DOMAIN keys : keys[k].parts.revoked = T("false")

\* At every instant of the work the lease was in force and some status, not always the
\* same one, said so.
CoveredThroughout ==
    /\ At(Entire("result"), "finished_at") - started <= WorkCeiling
    /\ \A t \in {started} \cup (started .. At(Entire("result"), "finished_at") - 1) :
          /\ Within(t, Entire("lease"), "not_before", "expires_at")
          /\ \E i \in DOMAIN log : Within(t, Published(i), "observed_at", "expires_at")

\* Honest work that was covered throughout is accepted, with one exception: if a status
\* was published after the work began, be it one that prolongs the cover, the result is
\* accepted with no status at all.  The older ones are no longer the head
\* (mobile-edge-contract.ts:3084), and the new one was observed after the start (:3414).
OnlyRenewalRefuses ==
    accepted # Unjudged /\ HonestMakers /\ CoveredThroughout =>
        (accepted # {} <=> At(Published(Len(log)), "observed_at") <= started)

=====================================================================================
