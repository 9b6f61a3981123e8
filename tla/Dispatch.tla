-------------------------------- MODULE Dispatch --------------------------------
(***************************************************************************)
(* How the daemon turns a redeemed capability into one commit on a         *)
(* disposable Git target and into evidence of it.  The code is the execute *)
(* and reconcile routes of crates/lnsatd/src/lib.rs and the git and docker *)
(* compositions of crates/lnsat-store/src/phase7_git_adapter.rs.           *)
(*                                                                         *)
(* A store transaction is one step.  A "git" operation runs from claim to  *)
(* receipt under the store mutex, so only a crash and the git child itself *)
(* interleave with it.  A "docker" operation holds the mutex for each of   *)
(* claim, verification and persistence, and releases it in between.        *)
(* The process that moves the target outlives the worker that started it.  *)
(***************************************************************************)
EXTENDS Naturals, Sequences, FiniteSets

CONSTANTS
    Operations,     \* operations with an active authorization
    Workers,        \* connection threads of one daemon
    Adapter,        \* "git" or "docker", per operation
    Commits,        \* what the target's head ref can name
    Base, Result,   \* approved base and approved commit, per operation
    Foreign,        \* a commit no operation approved
    StoreMayFail    \* may a best-effort outcome_unknown write be lost?

Free == "free"
NoOp == "none"

ASSUME DispatchAssumption ==
    /\ Free \notin Workers
    /\ Adapter \in [Operations -> {"git", "docker"}]
    /\ Base \in [Operations -> Commits]
    /\ Result \in [Operations -> Commits]
    /\ Foreign \in Commits
    /\ \A o, p \in Operations : Result[o] # Base[p] /\ Result[o] # Foreign
    /\ StoreMayFail \in BOOLEAN

VARIABLES
    opLog,          \* state events of each operation
    attLog,         \* state events of its one dispatch attempt
    consumed,       \* operations whose capability is consumed
    receipt,        \* operations with an accepted receipt
    recon,          \* operations with a "matched" reconciliation
    lost,           \* operations whose outcome_unknown mark was not written
    head,           \* commit the target's head ref names
    proc,           \* the git child or container of each operation
    landed,         \* operations whose own process moved the head
    launches,       \* how often a process was started, per operation
    worker,         \* each connection thread
    dispatchActive, \* consequential_dispatch_active, an AtomicBool
    mutex,          \* worker holding the store mutex across steps, or Free
    up              \* is the daemon running?

store == <<opLog, attLog, consumed, receipt, recon, lost>>
target == <<head, proc, landed, launches>>
daemon == <<worker, dispatchActive, mutex, up>>
vars == <<opLog, attLog, consumed, receipt, recon, lost, head, proc, landed,
          launches, worker, dispatchActive, mutex, up>>

Idle == [pc |-> "idle", op |-> NoOp]

Init ==
    /\ opLog = [o \in Operations |-> <<"prepared">>]
    /\ attLog = [o \in Operations |-> <<>>]
    /\ consumed = {}
    /\ receipt = {}
    /\ recon = {}
    /\ lost = {}
    /\ head \in {Base[o] : o \in Operations}
    /\ proc = [o \in Operations |-> "none"]
    /\ landed = {}
    /\ launches = [o \in Operations |-> 0]
    /\ worker = [w \in Workers |-> Idle]
    /\ dispatchActive = FALSE
    /\ mutex = Free
    /\ up = TRUE

Last(log) == log[Len(log)]

--------------------------------------------------------------------------------
(***************************************************************************)
(* The store's verifier for these rows, and its state machines.            *)
(***************************************************************************)

\* "failed" is accepted; no operation writes it.
ValidTransition(s, t) ==
    \/ s = "prepared" /\ t = "dispatching"
    \/ s = "dispatching" /\ t \in {"outcome_unknown", "completed", "failed"}
    \/ s = "outcome_unknown" /\ t = "completed"

ValidChain(log, first) ==
    /\ log # <<>> => log[1] = first
    /\ \A i \in 1..(Len(log) - 1) : ValidTransition(log[i], log[i + 1])

Verified ==
    \A o \in Operations :
        /\ opLog[o] # <<>>
        /\ ValidChain(opLog[o], "prepared")
        /\ ValidChain(attLog[o], "dispatching")
        /\ o \in receipt => o \in consumed /\ attLog[o] # <<>>
        /\ o \in recon => o \in receipt

\* One event on the attempt and one on the operation, in one transaction;
\* an operation event that is no valid transition rolls both back.
Append2(os, state) ==
    /\ opLog' = [o \in Operations |->
                   IF o \in os THEN Append(opLog[o], state) ELSE opLog[o]]
    /\ attLog' = [o \in Operations |->
                    IF o \in os THEN Append(attLog[o], state) ELSE attLog[o]]

Dispatching(o) == Last(opLog[o]) = "dispatching"

\* Mutant: marks from any state.
MarkAnyState(o) ==
    /\ Append2({o}, "outcome_unknown")
    /\ UNCHANGED <<consumed, receipt, recon, lost>>

\* Recording outcome_unknown has an effect from "dispatching" only.  Callers
\* ignore its failure.
MarkOutcomeUnknown(o) ==
    /\ \/ /\ Append2({o} \cap {p \in Operations : Dispatching(p)}, "outcome_unknown")
          /\ UNCHANGED lost
       \/ /\ StoreMayFail
          /\ lost' = lost \cup {o}
          /\ UNCHANGED <<opLog, attLog>>
    /\ UNCHANGED <<consumed, receipt, recon>>

Complete(o, withReconciliation) ==
    /\ Append2({o}, "completed")
    /\ receipt' = receipt \cup {o}
    /\ recon' = IF withReconciliation THEN recon \cup {o} ELSE recon
    /\ UNCHANGED <<consumed, lost>>

--------------------------------------------------------------------------------
(***************************************************************************)
(* The execute route, one worker thread.                                   *)
(***************************************************************************)

MutexFor(w) == mutex \in {Free, w}

\* Mutant: the admission guard is leaked.
ReturnLeaksSlot(w) ==
    /\ worker' = [worker EXCEPT ![w] = Idle]
    /\ mutex' = IF mutex = w THEN Free ELSE mutex
    /\ UNCHANGED <<dispatchActive, up>>

\* The route returns: the admission guard and the mutex guard are dropped.
Return(w) ==
    /\ worker' = [worker EXCEPT ![w] = Idle]
    /\ dispatchActive' = FALSE
    /\ mutex' = IF mutex = w THEN Free ELSE mutex
    /\ UNCHANGED up

Proceed(w, pc) ==
    /\ worker' = [worker EXCEPT ![w].pc = pc]
    /\ UNCHANGED <<dispatchActive, up>>

Admit(w, o) ==
    /\ up
    /\ worker[w].pc = "idle"
    /\ ~dispatchActive
    /\ dispatchActive' = TRUE
    /\ worker' = [worker EXCEPT ![w] = [pc |-> "admitted", op |-> o]]
    /\ UNCHANGED <<store, target, mutex, up>>

\* Mutant: the replay of a consumed request resumes the dispatch.
RefuseResumes(w) ==
    /\ worker[w].pc = "admitted"
    /\ mutex = Free
    /\ IF worker[w].op \in consumed
         THEN Proceed(w, "ready") /\ UNCHANGED mutex
         ELSE Return(w)
    /\ UNCHANGED <<store, target>>

\* A refused request, or the replay of a consumed one, which only reads.
Refuse(w) ==
    /\ worker[w].pc = "admitted"
    /\ mutex = Free
    /\ Return(w)
    /\ UNCHANGED <<store, target>>

\* Consumption, attempt and "dispatching" are one transaction, taken only
\* while the target is at its approved base.
Consume(o) ==
    /\ Verified
    /\ o \notin consumed
    /\ head = Base[o]
    /\ Last(opLog[o]) = "prepared"
    /\ consumed' = consumed \cup {o}
    /\ UNCHANGED <<receipt, recon>>

Claim(w) ==
    LET o == worker[w].op
    IN  /\ worker[w].pc = "admitted"
        /\ mutex = Free
        /\ Consume(o)
        /\ Append2({o}, "dispatching")
        /\ UNCHANGED lost
        /\ Proceed(w, IF Adapter[o] = "git" THEN "ready" ELSE "claimed")
        /\ mutex' = IF Adapter[o] = "git" THEN w ELSE Free
        /\ UNCHANGED target

\* The commit of the claim is reported as failed but took effect, or the
\* target moved before it was checked again: the attempt is marked and the
\* request rejected, all under one hold of the mutex.
ClaimUncertain(w) ==
    LET o == worker[w].op
        Grown(log) == [log EXCEPT ![o] = @ \o
                         <<"dispatching", "outcome_unknown">>]
        Stuck(log) == [log EXCEPT ![o] = Append(@, "dispatching")]
    IN  /\ worker[w].pc = "admitted"
        /\ mutex = Free
        /\ Consume(o)
        /\ \/ /\ opLog' = Grown(opLog) /\ attLog' = Grown(attLog)
              /\ UNCHANGED lost
           \/ /\ StoreMayFail
              /\ opLog' = Stuck(opLog) /\ attLog' = Stuck(attLog)
              /\ lost' = lost \cup {o}
        /\ Return(w)
        /\ UNCHANGED target

\* verify_phase11_docker_pre_supervisor_v1: still the state the claim left.
VerifyClaim(w) ==
    LET o == worker[w].op
    IN  /\ worker[w].pc = "claimed"
        /\ mutex = Free
        /\ Verified
        /\ Last(opLog[o]) = "dispatching" /\ Len(opLog[o]) = 2
        /\ Last(attLog[o]) = "dispatching" /\ Len(attLog[o]) = 1
        /\ o \notin receipt /\ o \notin recon
        /\ Proceed(w, "ready")
        /\ UNCHANGED <<store, target, mutex>>

Launch(w) ==
    LET o == worker[w].op
    IN  /\ worker[w].pc = "ready"
        /\ proc' = [proc EXCEPT ![o] = "running"]
        /\ launches' = [launches EXCEPT ![o] = @ + 1]
        /\ Proceed(w, "running")
        /\ UNCHANGED <<store, head, landed, mutex>>

\* Mutant: the exit of the process is taken for its result.
ObserveExitOnly(w) ==
    /\ worker[w].pc = "running"
    /\ proc[worker[w].op] = "ended"
    /\ Proceed(w, "observed")
    /\ UNCHANGED <<store, target, mutex>>

\* The process reported success and the worker found the exact commit.
Observe(w) ==
    LET o == worker[w].op
    IN  /\ worker[w].pc = "running"
        /\ proc[o] = "ended"
        /\ o \in landed
        /\ head = Result[o]
        /\ Proceed(w, "observed")
        /\ UNCHANGED <<store, target, mutex>>

\* Mutant: a result that comes after doubt is stored as if there were none.
PersistForgetsDoubt(w) ==
    LET o == worker[w].op
    IN  /\ worker[w].pc = "observed"
        /\ MutexFor(w)
        /\ Verified
        /\ \/ /\ Adapter[o] = "git" \/ head = Result[o]
              /\ Last(opLog[o]) # "completed"
              /\ Complete(o, FALSE)
           \/ Last(opLog[o]) = "completed" /\ UNCHANGED store
        /\ Return(w)
        /\ UNCHANGED target

\* A docker result is inspected again; one already reconciled is read back.
Persist(w) ==
    LET o == worker[w].op
    IN  /\ worker[w].pc = "observed"
        /\ MutexFor(w)
        /\ Verified
        /\ \/ /\ Adapter[o] = "git" \/ head = Result[o]
              /\ Last(opLog[o]) # "completed"
              /\ Complete(o, Adapter[o] = "docker"
                              /\ Last(opLog[o]) = "outcome_unknown")
           \/ Last(opLog[o]) = "completed" /\ UNCHANGED store
        /\ Return(w)
        /\ UNCHANGED target

\* Verification fails, the launch fails, the supervisor times out or returns
\* an error, or the result is not persisted.
Abandon(w) ==
    /\ worker[w].pc \in {"claimed", "ready", "running", "observed"}
    /\ MutexFor(w)
    /\ MarkOutcomeUnknown(worker[w].op)
    /\ Return(w)
    /\ UNCHANGED target

--------------------------------------------------------------------------------
(***************************************************************************)
(* The reconcile route, the target and the daemon's life.                  *)
(***************************************************************************)

\* Inspection only: it takes no admission and starts no process.
Reconcile(o) ==
    /\ up
    /\ mutex = Free
    /\ Verified
    /\ o \in consumed
    /\ o \notin receipt
    /\ head = Result[o]
    /\ Complete(o, Adapter[o] = "git" \/ Last(opLog[o]) = "outcome_unknown")
    /\ UNCHANGED <<target, daemon>>

\* A docker reconciliation whose transaction fails marks the attempt.
ReconcileFails(o) ==
    /\ up
    /\ mutex = Free
    /\ Adapter[o] = "docker"
    /\ o \in consumed
    /\ o \notin receipt
    /\ head = Result[o]
    /\ MarkOutcomeUnknown(o)
    /\ UNCHANGED <<target, daemon>>

\* update-ref moves the head only from the approved base.
Land(o) ==
    /\ proc[o] = "running"
    /\ head = Base[o]
    /\ head' = Result[o]
    /\ landed' = landed \cup {o}
    /\ proc' = [proc EXCEPT ![o] = "ended"]
    /\ UNCHANGED <<store, launches, daemon>>

ProcessDies(o) ==
    /\ proc[o] = "running"
    /\ proc' = [proc EXCEPT ![o] = "ended"]
    /\ UNCHANGED <<store, head, landed, launches, daemon>>

\* Someone else moves the ref, or resets it to an approved base.
MoveTarget ==
    /\ head' \in {Foreign} \cup {Base[o] : o \in Operations}
    /\ UNCHANGED <<store, proc, landed, launches, daemon>>

Crash ==
    /\ up
    /\ up' = FALSE
    /\ worker' = [w \in Workers |-> Idle]
    /\ dispatchActive' = FALSE
    /\ mutex' = Free
    /\ UNCHANGED <<store, target>>

\* Mutant: interrupted attempts are marked, their operations are not.
RestartMarksAttempts ==
    /\ ~up
    /\ Verified
    /\ attLog' = [o \in Operations |->
                    IF attLog[o] # <<>> /\ Last(attLog[o]) = "dispatching"
                      THEN Append(attLog[o], "outcome_unknown") ELSE attLog[o]]
    /\ up' = TRUE
    /\ UNCHANGED <<opLog, consumed, receipt, recon, lost, target, worker,
                   dispatchActive, mutex>>

\* Mutant: interrupted attempts are left alone.
RestartMarksNothing ==
    /\ ~up
    /\ Verified
    /\ up' = TRUE
    /\ UNCHANGED <<store, target, worker, dispatchActive, mutex>>

\* bind: the lease is free, the store opens and verifies, and every attempt
\* left "dispatching" becomes outcome_unknown before the listener exists.
Restart ==
    /\ ~up
    /\ Verified
    /\ Append2({o \in Operations : attLog[o] # <<>> /\ Last(attLog[o]) = "dispatching"},
               "outcome_unknown")
    /\ up' = TRUE
    /\ UNCHANGED <<consumed, receipt, recon, lost, target, worker,
                   dispatchActive, mutex>>

--------------------------------------------------------------------------------

WorkerStep(w) ==
    \/ Refuse(w)
    \/ Claim(w)
    \/ ClaimUncertain(w)
    \/ VerifyClaim(w)
    \/ Launch(w)
    \/ Observe(w)
    \/ Persist(w)
    \/ Abandon(w)

Next ==
    \/ \E w \in Workers : WorkerStep(w) \/ \E o \in Operations : Admit(w, o)
    \/ \E o \in Operations :
          \/ Reconcile(o)
          \/ ReconcileFails(o)
          \/ Land(o)
          \/ ProcessDies(o)
    \/ MoveTarget
    \/ Crash
    \/ Restart

Spec == Init /\ [][Next]_vars

\* A route handler always returns: each of its waits has a timeout.  A
\* stopped daemon is started again.
FairSpec ==
    /\ Spec
    /\ \A w \in Workers : WF_vars(WorkerStep(w))
    /\ WF_vars(Restart)

--------------------------------------------------------------------------------
(***************************************************************************)
(* Properties.                                                             *)
(***************************************************************************)

\* Whatever workers, reconcilers, crashes and restarts interleave, the state
\* event chains, receipts and reconciliations pass verify_current_schema.
StoreVerifies == Verified

\* The attempt's events are the operation's events after "prepared", and they
\* exist exactly when the capability is consumed: claim, mark and completion
\* each reach both chains or neither (append_phase7_operation_state_event_v1).
ChainsAgree ==
    \A o \in Operations :
        /\ attLog[o] = Tail(opLog[o])
        /\ o \in consumed <=> attLog[o] # <<>>

\* A capability buys at most one launch, ever: no replay, reconciliation,
\* crash or restart starts a second process for an operation.
LaunchedAtMostOnce ==
    \A o \in Operations :
        /\ launches[o] <= 1
        /\ launches[o] = 1 => o \in consumed

\* "completed" means an accepted receipt and a receipt means "completed",
\* and the approved commit did reach the target.  An operation that was ever
\* outcome_unknown completes only together with a reconciliation record, and a
\* docker operation has one only then.
ReceiptIsEarned ==
    \A o \in Operations :
        /\ o \in receipt <=> Last(opLog[o]) = "completed"
        /\ o \in receipt =>
              LET wasUnknown == \E i \in 1..Len(opLog[o]) : opLog[o][i] = "outcome_unknown"
              IN  /\ \E p \in landed : Result[p] = Result[o]
                  /\ wasUnknown => o \in recon
                  /\ Adapter[o] = "docker" /\ o \in recon => wasUnknown

\* A reconciled operation had been started: the record of its completion is
\* about a process that ran ("without invented evidence").
ReconciledWasLaunched == \A o \in recon : launches[o] = 1

\* No operation stays "dispatching" forever, unless the write that marks it
\* failed: the worker, a reconciliation or the next start resolves it.  The
\* next start resolves those that are left, since bind marks every interrupted
\* attempt before the listener exists.
DispatchResolves ==
    \A o \in Operations :
        /\ (Dispatching(o) /\ o \notin lost) ~> (~Dispatching(o) \/ o \in lost)
        /\ (~up /\ Dispatching(o)) ~> ~Dispatching(o)

\* The single dispatch slot is always given back.
SlotReleased == dispatchActive ~> ~dispatchActive

Promise == INSTANCE OneShot
             WITH status <- [o \in Operations |-> Last(opLog[o])],
                  effect <- landed

\* Seen through its evidence and its target, dispatch is the one-shot effect
\* of OneShot: claimed first, taking effect once, completed only afterwards.
ImplementsOneShot == Promise!Spec

================================================================================
