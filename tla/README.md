# LNSAT: TLA+ models and proofs

LNSAT lets a program act on a target only on the strength of an approval that
another person gave. The Rust crates are the engine: a SQLite evidence store
whose rows are never changed (`lnsat-store`) and a loopback daemon that serves
it (`lnsatd`). The TypeScript packages hold the gateway's durable operations,
the audit ledger writer, the local control plane of the API, and the contracts
that review a request before anything is allowed to happen. This directory
models these parts, model-checks them on small instances, and proves the
properties that matter most for every instance: of the engine, of the gateway
and its file, of the ledger, of the local control plane and of the mobile edge.

## The system's parts

| part | code | modules |
|---|---|---|
| attempts, nonces, execution authorizations, redemption, sessions as the chain reads them | `crates/lnsat-store/src/phase7_{persistence,nonce,consumption}.rs`, `lib.rs` | `Authority`, `AuthorityClock` |
| git and docker dispatch, receipts, reconciliation, the daemon's slot and mutex | `crates/lnsat-store/src/phase7_git_adapter.rs`, `crates/lnsatd/src/lib.rs` | `Dispatch`, `OneShot` |
| both over one store, as the daemon serves them | `crates/lnsatd/src/lib.rs` | `Runtime` |
| durable gateway operations, and their file | `packages/gateway/src/operation-recovery.ts` | `GatewayOperations`, `GatewayEffect`, `GatewayOperationFile` |
| PostgreSQL audit ledger writer | `packages/audit/src/postgresql-audit-ledger-writer.ts` | `AuditLedger` |
| local control plane: sessions, packet intake, policy decisions, approval requests | `apps/api/src/local-*`, `apps/api/migrations` | `LocalControlPlane` |
| twelve substrate and adapter contracts, ten persistence contracts | `packages/packets/src/*` | `SourceContract`, `ControlVocabulary`, `PersistenceVocabulary` and a module per contract or family |
| where those contracts can be asked for | `apps/api/src`, `packages/mcp/src` | `ControlGateway`, `ControlSurfaces`, `ContractEvidence` |
| mobile edge documents and their chain | `packages/packets/src/mobile-edge-contract.ts` | `MobileEdgeContract`, `MobileEdge` |

An approved decision is turned into an **attempt**, the attempt into a
**nonce**, both into an **execution authorization** stored with its
**operation**. Issuing the authorization hands out a secret **capability**
once. The execute route redeems it: in one transaction the capability is
consumed and a **dispatch attempt** is claimed. A git child or a container then
moves the target's ref from the approved base to the approved commit, and a
**receipt** completes the operation. Whatever fails in between leaves the
operation `outcome_unknown`, which only a **reconciliation** of the target can
complete. The gateway does the same for operations of a remote side that it
cannot inspect: it has receipts to go by, and nothing else.

## Modules

**Authority** has one row per decision in each table, because identifiers,
digests and secrets are derived from the decision: `attempt`, `nonce`, `auth`
(authorization with its operation), `consumption`; `held`, the decisions whose
capability reached its requester; `session`, the last activity and revocation
of each session. A row carries its latest state event, `state` and `at`. Every
operation is one immediate transaction, hence one action, and one that fails
rolls back, hence is no action. Every operation but the plain session touch
runs the store's verifier first, which is `Verified`, built from the
`validate_*` functions. The clock is `SystemTime::now()`: it may repeat, jump
and run backwards, and some operations read it before they wait for the
database. So a reading is any member of `Time`, in any order. `ServedNext` is
what the daemon's routes reach; `Next` adds `CancelNonce`, which only the
library offers. **AuthorityClock** has the same operations under a clock that
never runs backwards, with early and late sampling told apart.

**Dispatch**: `opLog` and `attLog` are the state event chains of an operation
and of its dispatch attempt; `consumed`, `receipt` and `recon` the rows beside
them; `head`, `proc`, `landed` and `launches` the target and the processes that
act on it; `worker`, `dispatchActive`, `mutex` and `up` the daemon. A git
operation holds the store mutex from claim to receipt; a docker operation takes
it for claim, check and persistence separately, so reconcile requests and
session routes run in between. The git child or container outlives the worker
and the daemon. `StoreMayFail` says whether the best-effort `outcome_unknown`
write may be lost; `lost` remembers for which operation it was. `MoveTarget`
and `Crash` are the environment. **OneShot** is what dispatch promises: a
claimed operation may take effect once, doubt may be recorded, completion is
recorded only after the effect and for good.

**Runtime** extends `Authority` and instantiates `Dispatch`. `Execute` is
redemption and claim in one step; `PreSupervisorCheck` authenticates the
requester again before the container starts; every other route needs a running
daemon and a free mutex.

**GatewayOperations**: `record` is the store, `call` what each caller is in the
middle of between two awaits, `sent` and `world` what was handed to the
transport and what the remote side made of it, `receipts` and `used` the
receipts issued and handed over. A method loads, computes the changed record
(one operator per method, named as in the source), validates it and asks for a
compare-and-swap on the version. A receipt call awaits the verifier between two
loads. The store may fail with or without having stored. The remote side is
external: it carries an attempt out once, or rules it out for good.
**GatewayEffect** is the promise: one effect at most, and a report of exactly
that. **GatewayOperationFile** is the JSON file behind the store: the queue,
the temporary file, its sync, the rename and the directory sync, each of which
may fail, and a stop of the machine between any two of them.

**AuditLedger** follows one append through its checks, the two verifiers, the
executor's transaction and its answer, with overlapping calls and an executor
that fails before, in or after its commit. Running the callback
(`RunCallback`) and the database's answer to its insert (`Insert`) are two
steps: a call whose insert waits for another transaction has already attempted
a write, and is told so if its executor gives up.

**LocalControlPlane** has the operator's row, the sessions, the three tables
and the requests in progress. A request is checked by the route and again
inside its transaction, whose locks are modelled. A statement that took effect
may still be reported as a failure, session creation included. An approval
request for a decision without reason codes is answered as unavailable storage,
because `selectReviewablePolicy` does not take such a row for a valid one.

The **contract modules** each state the fields of a contract, their normalisers
and the rules between fields; `SourceContract` is what the normalisers share.
`ContractEvidence` is a requester who submits, resubmits, lowers the risk of
and walks back along the contracts with what it is shown. It states again what
the evidence shows, except for the contracts' own default wording, of which
some would be refused if stated ("no raw shell or SSH" is refused by the
`safeString` of the very files that use it). It walks back along `backedBy`:
from broker, preflight, scope, plan, approval gate and dry run to the contracts
whose rules they repeat. The other contracts are laxer than their predecessors
on purpose: from the result on a forbidden mode may be recorded, a manifest may
list no rollback, and bundle, readiness gate and authorization request take the
words of approvals and gates as they are.
`AdapterInvocation` covers preflight, result and authorization bundle;
`RuntimeAdapterImplementation` covers scope, plan, authorization request,
approval gate and dry run evidence.

**MobileEdgeContract** is the five documents and the chain validator,
**MobileEdge** a workload with honest makers and passing time, or with one
mistake or alteration.

`MC*` modules give small instances. Definitions whose comment starts with
"Mutant" are faulty variants of the definition that follows them; they are not
part of any specification.

## Runs

| run | cfg | what it shows | states |
|---|---|---|---|
| `authority_library` | `MCAuthority.cfg` | the whole library interface under every order of clock readings: consumptions inside approvals, the inductive invariant of the proofs, terminal rows final, a lost capability stays lost | 43456 |
| `authority_cancel` | `AuthorityClock.cfg` | **violated**: finding 1 |  |
| `dispatch_faults` | `MCDispatch_faults.cfg` | one launch per capability, chains in step, receipts earned, `OneShot` implemented, no operation dispatching for ever, the slot given back | 7820 |
| `dispatch_repeated` | `MCDispatch_repeated.cfg` | **violated**: finding 2 |  |
| `runtime` | `MCRuntime.cfg` | redemption is claim, withdrawn authorizations never launch, landed commits lie inside their approval, both parts are implemented | 16528 |
| `gateway_attempts` | `GatewayOperations_attempts.cfg` | one sender per attempt, sends recorded, no blind retry, lawful changes but for a second orphaning, `GatewayEffect` implemented | 473777 |
| `gateway_redelivered` | `GatewayOperations_redelivered.cfg` | **violated**: finding 3 |  |
| `gateway_file` | `GatewayOperationFile.cfg` | the file always loads, what was confirmed survives a stop, each confirmation is of a later version | 55261 |
| `audit_writer` | `AuditLedger.cfg` | a call is told the truth about its write, answers follow the append semantics, a key is appended once and as granted, every call is answered | 116357 |
| `local_control_plane` | `MCLocalControlPlane.cfg` | rows were authorized when stored, the tables agree, one writer per row, withdrawn sessions write nothing, answers are true | 851036 |
| `source_contracts` | `ContractEvidence.cfg` | evidence is clean, can be restated, does not depend on the surface, is backed by the earlier contracts that its own repeats, and no contract asks less of a riskier request | 139487 |
| `mobile_edge` | `MobileEdge.cfg` | accepted work lay inside every authority and tells one story; honest work that was covered throughout is refused only for a status published after it began | 130528 |

Bounds. In `MCAuthority.cfg` `Time` is 0..4 with lifetimes of 2 and 3, so that
each lifetime can end inside the window and the clock can run back across its
end. There is one decision: operations on two decisions share sessions and keys
only. What is said of keys of different decisions is therefore not exercised by
the run but by its proof, which covers any number. Two operations (one
git, one docker), two workers and one target give every race of execute,
reconcile, crash and restart. The runtime run has one decision and a docker
operation, the adapter with more interleavings; the lost write is left to
`dispatch_faults`. `MaxVersion = 6` gives an
operation of the gateway two attempts; two calls give every overlap of a read
and a swap. The file run has a pid that comes back after a restart, two
operations and two versions. Three audit calls of two callers give a retry
while another call collides. The control plane run has two requests at a time,
two sessions, and three packets that bear one identifier, one of each kind of
verdict (held for approval, denied, allowed without reasons); its `VIEW` leaves out
the last answer, which no step reads, and sessions and calls are
interchangeable, which is sound since no liveness is checked there. The contract run slips in one place at a
time, and combines the fields that rules relate. The mobile run has four
instants, so that manifests, decisions, leases and statuses can all end during
the work.

`CHECK_DEADLOCK FALSE`: in `MCAuthority.cfg`, a store that a cancellation has
made unacceptable refuses everything (finding 1); in the gateway, file, audit
and mobile runs, a bounded history ends.

Fairness. `FairSpec` of `Dispatch`: a route handler returns, because the waits
for the git child and for the supervisor have deadlines and the mutex is never
kept by a worker that has returned; a stopped daemon is started again. Nothing
is assumed of the git child, of reconcile requests or of the clock.
`DispatchResolves` speaks of operations whose mark was written: the code
ignores the failure of the `outcome_unknown` write, and then the next start
resolves the operation, which is its second conjunct. `AuditLedger`: a call that can take its next step takes it,
since verifiers, executor and database answer what they
are asked; a transaction that waits for another's is not assumed to give up.

## Findings

1. **A nonce cancelled in the millisecond its authorization was issued makes
   the store unacceptable to itself** (`authority_cancel`).
   `cancel_phase7_authorization_nonce_v1` commits an event timed by its own
   reading; `validate_stored_authorization` then requires a nonce that is no
   longer active to have left that state strictly after the issue. A reading
   taken before waiting for the database is enough, the clock need not run
   back. The doc comment of the function says that it fails closed. The daemon
   serves no route that cancels nonces, and `ServedStoreVerifies` is proved for
   what it serves.
2. **Reconciliation recognises a commit by its content only**
   (`dispatch_repeated`). When the same change with the same metadata is
   approved twice, an operation whose process never started is completed from
   the other's commit.
3. **A receipt names no attempt** (`gateway_redelivered`). A receipt of
   non-execution for the first attempt that is delivered again while the second
   is in flight moves the operation back to `authorized`, although the second
   attempt may have taken effect.

Findings 2 and 3 are the hypotheses of the theorems about dispatch and the
gateway that need them, and the two runs show that they cannot be dropped.

## Proofs

Everything below is checked by TLAPS for all values of the constants that
satisfy the named assumptions: `ConstantsAssumption` (types and positive
lifetimes), `DispatchAssumption` (types; an approved commit is not an approved
base and not the foreign one; no worker is named like the free mutex),
`GatewayBounds` and `FileBounds` (the bounds are positive, a counter may be
zero), `LocalAssumption` (types; `None` is no call and no session) and
`Ceilings` (the ceilings are natural numbers). The ledger needs none.
`MaxVersion`, `MaxTime`, `MaxCounter` and `MaxCalls` bound the length of a
history, and the theorems hold for every bound.

**The chain** (`AuthorityProofs`, first part). `TypeCorrect`;
`TerminalEvidenceIsFinal` and `LostCapabilityIsGone`, the action properties;
`ServedStoreVerifies`: `TypeOK /\ Verified` is inductive for `ServedNext`,
because rows of other decisions are untouched (`SameRowsStayValid`) and each
operation writes only rows the verifier accepts. It is not inductive for
`Next`: finding 1. `ChainInvariantHolds`, and from it
`ConsumptionIsAuthorized`, `ExpiryIsBounded` and `KeysAreUnambiguous`.
`ConsumedWithinApproval` alone is not inductive: that a redemption is inside
the approval follows from the authorization's expiry, so
`AuthorizedWithinApproval` is added. Every operation that writes runs
`Verified` first, which ties a new authorization to its attempt even though
`Verified` is not part of the invariant.

**Dispatch** (`DispatchProofs`). The invariant `DispatchInv` says that an
operation's log is one of five and that the attempt's log, the capability, the
receipt and the reconciliation follow from which (`StoreInv`); that a process
is started once and only for a claimed operation (`TargetInv`); and that one
worker at a time holds the slot, with a git operation keeping the mutex so that
nobody else touches its log (`WorkerInv`). Without the last part a second
worker could launch what the first one claimed. It gives `StoreAlwaysVerifies`,
`ChainsAlwaysAgree`, `NeverLaunchedTwice` and `ReceiptsAreEarned`. Where no two
operations are approved for the same commit it also gives `ReconciledRan`, and
`DispatchIsOneShot`: dispatch implements `OneShot`, step by step.

**The daemon** (`AuthorityProofs`, second part). `RuntimeImplementsParts`: every step of the
daemon is, to the chain, a step of `ServedNext` or none (the second
authentication before the supervisor is a session touch), and to dispatch a
step of its own specification or none. So the theorems about the chain hold in
the daemon. `RuntimeInv` adds that an operation that was not claimed has left
no trace in the evidence, among the processes or on the target, and that claim
and redemption coincide (`RedemptionClaims`). From both follow
`WithdrawnStaysOffTarget` and `LandedWasApproved`, which relate the target to
the approval across the two parts.

**The gateway** (`GatewayProofs`, `GatewayEffectProofs`). Calls compute their
change long before they swap. `GatewayInv` says that a swap whose expected
version is still the stored one is a lawful change of the very record in the
store, because versions never come back; that an attempt is in one pair of
hands, or sent, or neither; and that an attempt which the record does not count
has left no trace. The steps are sorted into asking, giving up and storing, and
the invariant is proved for those. It gives `AttemptsSentOnce`,
`SendsAreRecorded` and `ChangesAreLawful`, with or without redelivery. The last
one has an exception that it proves as well: the table of transitions has no
step from orphaned to orphaned, so `markOrphaned` on an orphan is answered as a
store that failed integrity validation. Where
each receipt is handed over once, `VerdictInv` adds that every attempt before
the last was ruled out by a receipt of its own and that a swap which leads to a
free or final state has its verdict. It gives `RetriesAreNotBlind`, and
`GatewayTakesEffectOnce`: only the last attempt can have taken effect, so the
coordinator implements `GatewayEffect`.

**The ledger** (`AuditLedgerProofs`). `LedgerInv` says whose every number and
every uncommitted row is, and what each answer implies of the ledger. It is
proved over four moves of a call and gives `OutcomesAreTrue`,
`AnswersFollowSemantics` and `AppendsAreGranted`.

**The file** (`GatewayFileProofs`). That the file loads after a stop and that
confirmed versions survive are facts about what is durable, and the durable
states are what earlier saves left. `FileInv` says that every state a stop can
leave is a whole list without two rows for one operation or key, which carries
each confirmed version or a later one (`FilesInv`); that one request at a time
saves, since they are queued; that the list it is about to save already has
those three properties and the version it will confirm; and how far its
temporary file has come: complete once written, synced before the rename,
visible after it (`JobsInv`). It gives `FileAlwaysLoads`, `ConfirmedIsDurable`
and, for the answers, `VersionsConfirmOnce`: each confirmation is of a later
version than any before it, so that two swaps from one version are never both
confirmed.

**The local control plane** (`ControlPlaneProofs`). A request checks first and
writes several steps later, while sessions are revoked, the operator is
changed and other requests write. `PlaneInv` says of each request in progress
what it still relies on (`OpenFit` before its insert, `CommitFit` after it):
its session and its operator stand from the assertion inside the transaction
on, the packet it has read is the one stored, and the row it is about to write
is free. That stays true because rows never change, a session changes only by
being revoked, and the locks keep others out (`LockInv`). Of the tables it says
that each row was dated inside the life of a session with the capability, and
that each row follows from the one before it in the chain. It gives
`EveryRowAuthorized`, `TablesAgree`, `OneWriterAtATime`, and the action
properties `WithdrawnAddsNothing` and `CallersAreToldTheTruth`.

**The mobile edge** (`MobileEdgeProofs`). The verdict of
`validateMobileEdgeContractChain` is passed on documents that do not change
afterwards, so most of the argument is about the chain's rules: the shapes make
times and amounts numbers and digests one of two, and the comparisons of
neighbouring documents link every document to the lease (`AgreeWithLease`).
`EdgeInv` adds the two facts about the past that the verdict does not see:
every status but the latest left the lease active, and a document given a new
digest has a neighbour that still quotes the old one. It gives
`AcceptedWorkIsAuthorized` and `AcceptedDocumentsAgree`, for any ceilings,
horizon and lives, and whichever documents may be mistaken or altered.

TLC has checked each inductive invariant on small instances as well, those of
the last three parts on the instances of their runs.

Only model-checked:

- liveness (`DispatchResolves`, `SlotReleased`, `EveryCallAnswered`): fairness
  is out of the prover's reach;
- `OnlyRenewalRefuses` of the mobile edge. It is the converse of the two
  theorems above, with the one exception the code makes: a status published
  while the work goes on leaves the result without an acceptable status. What honest makers write is concrete but for its times, so
  that a proof would mostly repeat, field by field, the evaluation of the
  chain's rules that TLC performs;
- the five invariants of `ContractEvidence` (`CleanEvidence`, `SurfacesAgree`,
  `BackedByEarlierStage`, `LowerRiskAccepted`, `RestatedEvidenceAccepted`). They
  compare what twenty-two instances of the contracts compute over nested
  documents, each with its own shapes, normalisers and rules between fields. An
  argument would have to unfold every contract, and the steps that unfold a
  single one already exceed what the prover's translation handles.

## What is not modelled

- Identities and credentials of the engine (bootstrap, password rotation, owner
  recovery, throttling), session issue and rotation: sessions are touched and
  revoked only. Password hashing and token encoding are pure computation.
- Packets, policies, approval requests and decisions of the engine: approved
  decisions are inputs of `Authority`.
- Action requests, request admission and results; lease, migrations, backup and
  restore of the store; one daemon is assumed.
- The docker supervisor and the adapter process protocol, which `Dispatch` sees
  as a process that runs, ends and may land; headless startup and the product
  surface, which are host inspection, configuration and I/O.
- The Rust contracts: parsing, canonical encoding and digests.
- Descriptive builders of the packages, the command line and the console.
