----------------------------- MODULE GatewayOperations -----------------------------
(***************************************************************************)
(* The gateway's durable operations: a coordinator that moves an operation *)
(* record through its states with a read and a compare-and-swap, calls of  *)
(* it that overlap at every await, the remote side that may carry out a    *)
(* dispatched attempt, and the receipts that say what it did.              *)
(*                                                                         *)
(* A call is a caller's own: it loads the record, computes the changed     *)
(* record, and swaps it in if the version is still the one it loaded.  A   *)
(* receipt call loads twice, with the receipt verifier awaited in between. *)
(* The remote side and the sending of an attempt are outside this source   *)
(* and are modelled from how the source uses them.                         *)
(***************************************************************************)
EXTENDS Integers, FiniteSets

CONSTANTS
    Operations,     \* operation identifiers inside one tenant and project
    Calls,          \* coordinator calls that may be in progress together
    MaxTime,        \* bound on the clock readings callers pass
    MaxVersion,     \* bound on the length of a record's history
    StaleAfter,     \* the age at which a caller asks for an orphan
    Redelivery      \* may a receipt be handed to the coordinator again?

ASSUME GatewayBounds ==
    /\ MaxTime \in Nat \ {0}
    /\ MaxVersion \in Nat \ {0}
    /\ StaleAfter \in Nat \ {0}
    /\ Redelivery \in BOOLEAN

VARIABLES
    record,      \* the store: operation -> record or None
    call,        \* what each caller is in the middle of
    sent,        \* operation -> attempts handed to the transport, with a count
    world,       \* operation -> attempt -> what the remote side did with it
    receipts,    \* receipts the gateway has issued
    used         \* receipts that have been handed to the coordinator

vars == <<record, call, sent, world, receipts, used>>

-----------------------------------------------------------------------------
Times == 0 .. MaxTime
Attempts == 1 .. MaxVersion \div 2
None == [state |-> "none", version |-> 0]

Open == {"dispatching", "accepted", "working", "input_required"}
Doubtful == {"outcome_unknown", "reconciling", "cancel_requested"}
Final == {"completed", "failed", "expired"}

NoReceipt == [status |-> "none"]

Idle == [pc |-> "idle"]

initialRecord(at, expires) ==
    [state |-> "prepared", version |-> 1, attempts |-> 0, requested |-> at, expires |-> expires, last |-> at,
     receipt |-> NoReceipt]

nextRecord(r, state, at) ==
    [r EXCEPT !.state = state, !.version = @ + 1, !.last = at]

\* The states that a record in the given state may move to.
allowedFrom(state) ==
    CASE state = "prepared" -> {"authorized", "orphaned"}
      [] state = "authorized" ->
            {"dispatching", "transport_unavailable", "expired", "orphaned"}
      [] state = "transport_unavailable" -> {"authorized", "expired", "orphaned"}
      [] state \in Open \cup {"reconciling"} ->
            (Open \ {"dispatching"}) \cup Final \cup
            {"outcome_unknown", "cancel_requested", "authorized", "orphaned"}
      [] state = "outcome_unknown" ->
            Final \cup {"reconciling", "cancel_requested", "authorized", "orphaned"}
      [] state = "cancel_requested" ->
            (Open \ {"dispatching"}) \cup Final \cup
            {"outcome_unknown", "reconciling", "authorized", "orphaned"}
      [] state = "orphaned" -> {"reconciling"}
      [] OTHER -> {}

isAllowedTransition(from, to) == to \in allowedFrom(from)

\* What a changed record must satisfy beside the record it was made from.
isValidOperationRecord(from, r) ==
    /\ isAllowedTransition(from.state, r.state)
    /\ r.last >= from.last
    /\ r.expires > r.requested
    /\ r.state = "completed" => r.receipt.status = "completed"
    /\ r.state = "failed" => r.receipt.status = "application_error"

-----------------------------------------------------------------------------
(***************************************************************************)
(* What each method makes of the record it loaded: a changed record, or    *)
(* the code it fails with.                                                 *)
(***************************************************************************)
changed(r) == [code |-> "none", record |-> r]
failure(code) == [code |-> code]

transition(r, target, at, allowed) ==
    IF r.state \in allowed THEN changed(nextRecord(r, target, at))
    ELSE failure("invalid_transition")

authorize(r, at) == transition(r, "authorized", at, {"prepared"})

beginDispatch(r, at) ==
    IF r.state # "authorized" THEN failure("invalid_transition")
    ELSE IF r.expires <= at THEN failure("authorization_expired")
    ELSE changed([nextRecord(r, "dispatching", at) EXCEPT !.attempts = @ + 1])

\* A remote terminal state is only ever a reason to doubt.
observeRemoteState(r, matching, remote, at) ==
    IF ~matching THEN failure("retry_mismatch")
    ELSE transition(r, IF remote \in {"completed", "failed"}
                       THEN "outcome_unknown" ELSE remote,
                    at, Open \cup {"cancel_requested", "reconciling"})

markTransportFailure(r, at) ==
    IF r.state = "authorized"
    THEN changed(nextRecord(r, "transport_unavailable", at))
    ELSE transition(r, "outcome_unknown", at, Open \cup {"cancel_requested"})

RequestCancellationEarly(r, at) ==
    transition(r, "cancel_requested", at,
               Open \cup {"authorized", "outcome_unknown", "reconciling"})

requestCancellation(r, at) ==
    transition(r, "cancel_requested", at,
               Open \cup {"outcome_unknown", "reconciling"})

beginReconciliation(r, at) ==
    transition(r, "reconciling", at,
               {"outcome_unknown", "cancel_requested", "orphaned"})

RetryExactBlind(r, exact, at) ==
    IF r.state \notin {"transport_unavailable", "outcome_unknown"}
    THEN failure("invalid_transition")
    ELSE IF ~exact THEN failure("retry_mismatch")
    ELSE changed(nextRecord(r, IF r.expires <= at THEN "expired"
                               ELSE "authorized", at))

\* A retry that is exact; one that is not fails in the same states.
retryExact(r, exact, at) ==
    IF r.state \in {"outcome_unknown", "reconciling"}
    THEN failure("reconciliation_required")
    ELSE IF r.state # "transport_unavailable" THEN failure("invalid_transition")
    ELSE IF ~exact THEN failure("retry_mismatch")
    ELSE changed(nextRecord(r, IF r.expires <= at THEN "expired"
                               ELSE "authorized", at))

\* Elsewhere the record is returned as it is, as a replay.
recoverAfterRestart(r, at) ==
    IF r.state \in Open \cup {"cancel_requested"}
    THEN changed(nextRecord(r, "outcome_unknown", at))
    ELSE failure("replay")

markOrphaned(r, at) ==
    IF r.state \in Final \/ at - r.last < StaleAfter
    THEN failure("invalid_transition")
    ELSE changed(nextRecord(r, "orphaned", at))

\* The change a verified receipt makes.
withReceipt(r, receipt, at) ==
    IF r.state \notin Open \cup Doubtful THEN failure("invalid_transition")
    ELSE LET target == CASE receipt.status = "completed" -> "completed"
                         [] receipt.status = "application_error" -> "failed"
                         [] OTHER -> IF r.expires > at THEN "authorized"
                                     ELSE "expired"
         IN changed([nextRecord(r, target, at) EXCEPT !.receipt = receipt])

remoteStates == {"accepted", "working", "input_required", "completed", "failed"}

\* What every method makes of a record, given these receipts for it.
outcomes(r, presented, at) ==
    {authorize(r, at), beginDispatch(r, at), markTransportFailure(r, at),
     requestCancellation(r, at), beginReconciliation(r, at),
     retryExact(r, TRUE, at), recoverAfterRestart(r, at), markOrphaned(r, at)}
    \cup {observeRemoteState(r, TRUE, remote, at) : remote \in remoteStates}
    \cup {withReceipt(r, receipt, at) : receipt \in presented}

\* The record read after the verifier's answer must be the one read before.
afterVerifier(read, r, receipt, at) ==
    IF r.version # read.version THEN failure("concurrent_update")
    ELSE withReceipt(r, receipt, at)

-----------------------------------------------------------------------------
\* A call that only answers, with a code or with a replay, changes nothing but
\* its caller's place.
Answer(c) == call' = [call EXCEPT ![c] = Idle]

\* The end of #mutate: a lawful change is taken to the store, anything else
\* ("clock_skew", the method's own code, "store_corrupted") is the answer.
proceeds(r, at, outcome) ==
    /\ at >= r.last
    /\ outcome.code = "none"
    /\ isValidOperationRecord(r, outcome.record)

swap(o, r, outcome) ==
    [pc |-> "swap", op |-> o, expected |-> r.version, record |-> outcome.record]

\* A method call that gets as far as asking the store for its swap.
mutate(c, o, at, outcome) ==
    /\ call[c] = Idle
    /\ record[o].version < MaxVersion
    /\ proceeds(record[o], at, outcome)
    /\ call' = [call EXCEPT ![c] = swap(o, record[o], outcome)]
    /\ UNCHANGED <<record, sent, world, receipts, used>>

\* The store's atomic prepare of a new operation; a clash stores nothing.
prepare(o, at, expires) ==
    /\ expires > at
    /\ record[o] = None
    /\ record' = [record EXCEPT ![o] = initialRecord(at, expires)]
    /\ UNCHANGED <<call, sent, world, receipts, used>>

Do(c, o, at, outcome) == record[o] # None /\ mutate(c, o, at, outcome)

Authorize(c, o, at) == Do(c, o, at, authorize(record[o], at))
BeginDispatch(c, o, at) == Do(c, o, at, beginDispatch(record[o], at))
MarkTransportFailure(c, o, at) == Do(c, o, at, markTransportFailure(record[o], at))
RequestCancellation(c, o, at) == Do(c, o, at, requestCancellation(record[o], at))
BeginReconciliation(c, o, at) == Do(c, o, at, beginReconciliation(record[o], at))
RecoverAfterRestart(c, o, at) == Do(c, o, at, recoverAfterRestart(record[o], at))
MarkOrphaned(c, o, at) == Do(c, o, at, markOrphaned(record[o], at))
ObserveRemoteState(c, o, at) ==
    \E remote \in remoteStates,
       matching \in BOOLEAN :
        Do(c, o, at, observeRemoteState(record[o], matching, remote, at))
RetryExact(c, o, at) ==
    \E exact \in BOOLEAN : Do(c, o, at, retryExact(record[o], exact, at))

\* completeWithGatewayReceipt up to the await of the receipt verifier.
PresentReceipt(c, receipt, at) ==
    LET r == record[receipt.op]
    IN  /\ call[c] = Idle
        /\ r # None
        /\ Redelivery \/ receipt \notin used
        /\ receipt.received \in r.requested .. at
        /\ used' = used \cup {receipt}
        /\ call' = [call EXCEPT ![c] =
                      [pc |-> "verify", op |-> receipt.op, read |-> r,
                       receipt |-> receipt, at |-> at]]
        /\ UNCHANGED <<record, sent, world, receipts>>

\* The verifier answered: the record is read again, and must not have moved.
ReceiptVerified(c) ==
    LET k == call[c]
        r == record[k.op]
        replay == k.read.state \in {"completed", "failed"}
                  /\ k.read.receipt = k.receipt
        outcome == afterVerifier(k.read, r, k.receipt, k.at)
    IN  /\ k.pc = "verify"
        /\ IF ~replay /\ proceeds(r, k.at, outcome)
           THEN /\ r.version < MaxVersion
                /\ call' = [call EXCEPT ![c] = swap(k.op, r, outcome)]
           ELSE Answer(c)
        /\ UNCHANGED <<record, sent, world, receipts, used>>

\* The verifier refused or threw.
ReceiptRefused(c) ==
    /\ call[c].pc = "verify"
    /\ Answer(c)
    /\ UNCHANGED <<record, sent, world, receipts, used>>

\* A dispatch that was stored leaves its caller with an attempt to send.
AfterSwap(c, k) ==
    IF k.record.state = "dispatching"
    THEN [pc |-> "send", op |-> k.op, attempt |-> k.record.attempts]
    ELSE Idle

SwapUnchecked(c) ==
    LET k == call[c]
    IN  /\ k.pc = "swap"
        /\ record' = [record EXCEPT ![k.op] = k.record]
        /\ call' = [call EXCEPT ![c] = AfterSwap(c, k)]
        /\ UNCHANGED <<sent, world, receipts, used>>

SwapConflictIgnored(c) ==
    LET k == call[c]
    IN  /\ k.pc = "swap"
        /\ record' = IF record[k.op].version = k.expected
                     THEN [record EXCEPT ![k.op] = k.record] ELSE record
        /\ call' = [call EXCEPT ![c] = AfterSwap(c, k)]
        /\ UNCHANGED <<sent, world, receipts, used>>

compareAndSwap(c) ==
    LET k == call[c]
    IN  /\ k.pc = "swap"
        /\ IF record[k.op].version = k.expected
           THEN /\ record' = [record EXCEPT ![k.op] = k.record]
                /\ call' = [call EXCEPT ![c] = AfterSwap(c, k)]
           ELSE /\ Answer(c)
                /\ UNCHANGED record
        /\ UNCHANGED <<sent, world, receipts, used>>

\* The store failed: the swap may have reached it all the same.
StoreUnavailable(c) ==
    LET k == call[c]
    IN  /\ k.pc = "swap"
        /\ \/ UNCHANGED record
           \/ /\ record[k.op].version = k.expected
              /\ record' = [record EXCEPT ![k.op] = k.record]
        /\ Answer(c)
        /\ UNCHANGED <<sent, world, receipts, used>>

\* The gateway stops; what its callers were doing is gone.
Restart ==
    /\ \E c \in Calls : call[c] # Idle
    /\ call' = [c \in Calls |-> Idle]
    /\ UNCHANGED <<record, sent, world, receipts, used>>

-----------------------------------------------------------------------------
(***************************************************************************)
(* The transport and the remote side.  An attempt in someone's hands is    *)
(* sent at most by that caller; the remote side carries an attempt out at  *)
(* most once, or rules it out for good, and issues one receipt for it.     *)
(***************************************************************************)
Send(c) ==
    LET k == call[c]
    IN  /\ k.pc = "send"
        /\ sent' = [sent EXCEPT ![k.op][k.attempt] = @ + 1]
        /\ call' = [call EXCEPT ![c] = Idle]
        /\ UNCHANGED <<record, world, receipts, used>>

Remote(o, a) ==
    /\ world[o][a] = "open"
    /\ \/ /\ sent[o][a] > 0
          /\ \E s \in {"completed", "application_error"} :
                world' = [world EXCEPT ![o][a] = s]
       \/ /\ record[o] # None
          /\ a <= record[o].attempts
          /\ world' = [world EXCEPT ![o][a] = "not_executed"]
    /\ UNCHANGED <<record, call, sent, receipts, used>>

IssueReceipt(o, a, at) ==
    /\ world[o][a] # "open"
    /\ ~\E r \in receipts : r.op = o /\ r.attempt = a
    /\ receipts' = receipts \cup
         {[op |-> o, attempt |-> a, status |-> world[o][a], received |-> at]}
    /\ UNCHANGED <<record, call, sent, world, used>>

-----------------------------------------------------------------------------
Init ==
    /\ record = [o \in Operations |-> None]
    /\ call = [c \in Calls |-> Idle]
    /\ sent = [o \in Operations |-> [a \in Attempts |-> 0]]
    /\ world = [o \in Operations |-> [a \in Attempts |-> "open"]]
    /\ receipts = {}
    /\ used = {}

Method(c, o, at) ==
    \/ Authorize(c, o, at)
    \/ BeginDispatch(c, o, at)
    \/ ObserveRemoteState(c, o, at)
    \/ MarkTransportFailure(c, o, at)
    \/ RequestCancellation(c, o, at)
    \/ BeginReconciliation(c, o, at)
    \/ RetryExact(c, o, at)
    \/ RecoverAfterRestart(c, o, at)
    \/ MarkOrphaned(c, o, at)

Next ==
    \/ \E o \in Operations, at \in Times, e \in Times : prepare(o, at, e)
    \/ \E c \in Calls, o \in Operations, at \in Times : Method(c, o, at)
    \/ \E c \in Calls, r \in receipts, at \in Times : PresentReceipt(c, r, at)
    \/ \E c \in Calls : \/ ReceiptVerified(c) \/ ReceiptRefused(c)
                        \/ compareAndSwap(c) \/ StoreUnavailable(c) \/ Send(c)
    \/ Restart
    \/ \E o \in Operations, a \in Attempts : Remote(o, a)
    \/ \E o \in Operations, a \in Attempts, at \in Times : IssueReceipt(o, a, at)

Spec == Init /\ [][Next]_vars

-----------------------------------------------------------------------------


\* However beginDispatch calls overlap, fail in the store or are cut off by a
\* restart, an attempt is in the hands of one caller at most and is sent once.
OneSenderPerAttempt ==
    \A o \in Operations, a \in Attempts :
        sent[o][a] + Cardinality({c \in Calls :
            call[c].pc = "send" /\ call[c].op = o /\ call[c].attempt = a}) <= 1

\* No attempt is sent that the store does not know: a gateway that restarts
\* after a send finds the attempt in the record it loads.
SentIsRecorded ==
    \A o \in Operations, a \in Attempts :
        sent[o][a] > 0 => record[o] # None /\ a <= record[o].attempts

\* "No blind retry": an operation that is free to be dispatched again, or has
\* been given up as expired, has no earlier attempt that took or may still
\* take effect.
NoBlindRetry ==
    \A o \in Operations :
        record[o].state \in {"authorized", "transport_unavailable", "expired"} =>
            \A a \in 1 .. record[o].attempts : world[o][a] = "not_executed"

\* A change that a method makes is a lawful one, whatever the record it is called on, so
\* that no method answers that the store "failed integrity validation" when nobody
\* altered it.  There is one exception: markOrphaned on an operation that is orphaned
\* already always gets that answer, for it checks its change against a table that has
\* no such step.
IntegrityHolds ==
    \A o \in Operations, at \in Times :
        record[o] # None /\ at >= record[o].last =>
            \A outcome \in outcomes(record[o], {r \in receipts : r.op = o}, at) :
                outcome.code = "none" =>
                    (isValidOperationRecord(record[o], outcome.record)
                     <=> ~(record[o].state = "orphaned" /\ outcome = markOrphaned(record[o], at)))

Executed(o) == {a \in Attempts : world[o][a] \in {"completed", "application_error"}}

Effect == INSTANCE GatewayEffect WITH
    effect <- [o \in Operations |->
                 IF Executed(o) = {} THEN "none"
                 ELSE IF Cardinality(Executed(o)) > 1 THEN "twice"
                 ELSE world[o][CHOOSE a \in Executed(o) : TRUE]],
    known <- [o \in Operations |->
                IF record[o].state \in Final THEN record[o].state ELSE "open"]

\* Over any number of attempts, retries and restarts the operation takes effect
\* at most once and reports exactly what happened; one reported as expired
\* never takes effect.
ImplementsEffect == Effect!Spec

================================================================================
