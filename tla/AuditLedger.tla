-------------------------------- MODULE AuditLedger --------------------------------
(***************************************************************************)
(* Appending to the PostgreSQL audit ledger.  A call validates its input,  *)
(* awaits the digest verifier and the authorization verifier, and then     *)
(* runs one transaction through an injected executor: an insert that does  *)
(* nothing when the key is taken, and in that case a read of the row that  *)
(* took it.  Calls overlap; the executor may fail before, during or after  *)
(* the commit, run the callback again, or return something else.  What a   *)
(* call answers is compared with what the ledger holds.                    *)
(***************************************************************************)
EXTENDS Integers, FiniteSets

CONSTANTS
    Keys,       \* idempotency keys
    Digests,    \* canonical record digests
    Callers,    \* who may have a call in progress at the same time
    MaxCalls    \* bound on the calls of a behaviour, retries included

VARIABLES
    ledger,     \* the committed rows of audit_events
    call,       \* caller -> the call it is in the middle of
    held,       \* rows of transactions that are not committed
    answers,    \* what the calls have been answered
    calls       \* how many calls have begun

vars == <<ledger, call, held, answers, calls>>

-----------------------------------------------------------------------------
Requests == [key : Keys, digest : Digests]
Idle == [pc |-> "idle"]

\* The append semantics that the writer contract names: what a ledger makes of
\* a request, whoever sends it.
evaluateAuditLedgerAppendSemantics(prior, r) ==
    LET existing == {e \in prior : e.key = r.key}
    IN  IF existing = {} THEN "append_proposed"
        ELSE IF \E e \in existing : e.digest # r.digest THEN "idempotency_collision"
        ELSE "exact_replay"

FailureNeverUnsure(code, attempted) == [ok |-> FALSE, code |-> code,
                                        write |-> "not_performed"]

\* A failure after the insert was asked for leaves the outcome open, unless it
\* is a collision.
failure(code, attempted) ==
    [ok |-> FALSE, code |-> code,
     write |-> IF attempted /\ code # "idempotency_collision"
               THEN "indeterminate" ELSE "not_performed"]

success(outcome) ==
    [ok |-> TRUE, code |-> outcome,
     write |-> IF outcome = "appended" THEN "performed" ELSE "not_performed"]

Answer(c, result) ==
    /\ answers' = answers \cup {[call |-> call[c].number, request |-> call[c].request,
                                 result |-> result]}
    /\ call' = [call EXCEPT ![c] = Idle]

Row(c) == [key |-> call[c].request.key, digest |-> call[c].request.digest,
           call |-> call[c].number]

-----------------------------------------------------------------------------
Begin(c, request) ==
    /\ call[c] = Idle
    /\ calls < MaxCalls
    /\ calls' = calls + 1
    /\ call' = [call EXCEPT ![c] = [pc |-> "checks", request |-> request,
                                    number |-> calls + 1, attempted |-> FALSE]]
    /\ UNCHANGED <<ledger, held, answers>>

\* Everything appendPostgreSqlAuditLedgerRecord looks at before its first await:
\* input, record, writer contract, their agreement, and the dependencies.
\* Whatever is wrong, the call is refused and nothing was asked of the database.
Checks(c) ==
    /\ call[c].pc = "checks"
    /\ \/ call' = [call EXCEPT ![c].pc = "digest"] /\ UNCHANGED answers
       \/ Answer(c, failure("refused", FALSE))
    /\ UNCHANGED <<ledger, held, calls>>

\* The verifier attests the digest of this record, of another one, or nothing.
digestAttestationMatches(c, attested) == attested = call[c].request.digest

VerifyDigest(c) ==
    /\ call[c].pc = "digest"
    /\ \/ \E attested \in Digests :
             IF digestAttestationMatches(c, attested)
             THEN call' = [call EXCEPT ![c].pc = "authorization"] /\ UNCHANGED answers
             ELSE Answer(c, failure("refused", FALSE))
       \/ Answer(c, failure("refused", FALSE))
    /\ UNCHANGED <<ledger, held, calls>>

GrantMatchesKey(c, granted) == granted.key = call[c].request.key

\* The grant has to be bound to this very request.
verifiedGrantMatches(c, granted) == granted = call[c].request

VerifyAuthorization(c) ==
    /\ call[c].pc = "authorization"
    /\ \/ \E granted \in Requests :
             IF verifiedGrantMatches(c, granted)
             THEN /\ call' = [call EXCEPT ![c] = [pc |-> "executor",
                                request |-> @.request, number |-> @.number,
                                attempted |-> FALSE, granted |-> granted]]
                  /\ UNCHANGED answers
             ELSE Answer(c, failure("refused", FALSE))
       \/ Answer(c, failure("refused", FALSE))
    /\ UNCHANGED <<ledger, held, calls>>

-----------------------------------------------------------------------------
(***************************************************************************)
(* The transaction callback.  It notes that a write was attempted before   *)
(* it asks for one; the insert then waits for a transaction that holds the *)
(* same key.                                                               *)
(***************************************************************************)
RunCallback(c) ==
    /\ call[c].pc = "executor"
    /\ call' = [call EXCEPT ![c].pc = "insert", ![c].attempted = TRUE]
    /\ UNCHANGED <<ledger, held, answers, calls>>

Insert(c) ==
    /\ call[c].pc = "insert"
    /\ ~\E h \in held : h.key = call[c].request.key
    /\ IF \E e \in ledger : e.key = call[c].request.key
       THEN /\ call' = [call EXCEPT ![c].pc = "select"]
            /\ UNCHANGED held
       ELSE /\ held' = held \cup {Row(c)}
            /\ call' = [call EXCEPT ![c].pc = "appended"]
    /\ UNCHANGED <<ledger, answers, calls>>

ReplayAnyDigest(c, row) == TRUE

\* An existing row is this record's own when its digest is.
isExactReplay(c, row) == row.digest = call[c].request.digest

\* A row that the transaction's snapshot does not show is an error of its own.
Select(c) ==
    /\ call[c].pc = "select"
    /\ \/ \E row \in ledger :
             /\ row.key = call[c].request.key
             /\ IF isExactReplay(c, row)
                THEN call' = [call EXCEPT ![c].pc = "exact_replay"] /\ UNCHANGED answers
                ELSE Answer(c, failure("idempotency_collision", TRUE))
       \/ Answer(c, failure("executor_failed", TRUE))
    /\ UNCHANGED <<ledger, held, calls>>

\* The executor commits and returns the callback's own result.
Commit(c) ==
    /\ call[c].pc \in {"appended", "exact_replay"}
    /\ ledger' = ledger \cup (held \cap {Row(c)})
    /\ held' = held \ {Row(c)}
    /\ Answer(c, success(call[c].pc))
    /\ UNCHANGED calls

\* The executor commits, and its caller learns nothing of it or is told
\* something else than the callback's result.
CommitUnreported(c) ==
    /\ call[c].pc \in {"appended", "exact_replay"}
    /\ ledger' = ledger \cup (held \cap {Row(c)})
    /\ held' = held \ {Row(c)}
    /\ Answer(c, failure("executor_failed", TRUE))
    /\ UNCHANGED calls

ExecutorHoldsOn(c) ==
    /\ call[c].pc \in {"executor", "insert", "select", "appended", "exact_replay"}
    /\ Answer(c, failure("executor_failed", call[c].attempted))
    /\ UNCHANGED <<ledger, held, calls>>

\* The executor fails before the callback, a query throws, also one that waits, the
\* transaction is rolled back, or the callback is run a second time and refuses.
ExecutorFails(c) ==
    /\ call[c].pc \in {"executor", "insert", "select", "appended", "exact_replay"}
    /\ held' = held \ {Row(c)}
    /\ Answer(c, failure("executor_failed", call[c].attempted))
    /\ UNCHANGED <<ledger, calls>>

-----------------------------------------------------------------------------
Init ==
    /\ ledger = {}
    /\ call = [c \in Callers |-> Idle]
    /\ held = {}
    /\ answers = {}
    /\ calls = 0

Step(c) ==
    \/ Checks(c)
    \/ VerifyDigest(c)
    \/ VerifyAuthorization(c)
    \/ RunCallback(c)
    \/ Insert(c)
    \/ Select(c)
    \/ Commit(c)
    \/ CommitUnreported(c)

Next == \E c \in Callers :
    Step(c) \/ ExecutorFails(c) \/ \E r \in Requests : Begin(c, r)

\* The verifiers, the executor and the database answer what they are asked; the
\* executor is not assumed to give up on a transaction that waits.
Fairness == \A c \in Callers : WF_vars(Step(c))

Spec == Init /\ [][Next]_vars /\ Fairness

-----------------------------------------------------------------------------
\* What a call was told of its own write is what happened to it: "performed"
\* names a committed row, "not_performed" a write that never commits, and only
\* "indeterminate" leaves it open.
WriteOutcomeIsTrue ==
    \A a \in answers :
        LET committed == \E row \in ledger : row.call = a.call
        IN  /\ a.result.write = "performed" => committed
            /\ a.result.write = "not_performed" => ~committed

\* An answer agrees with the append semantics of the ledger without the call's
\* own row: it appended where an append was proposed, replayed or collided
\* where they say so.
FollowsAppendSemantics ==
    \A a \in answers :
        LET others == {row \in ledger : row.call # a.call}
            said == evaluateAuditLedgerAppendSemantics(others, a.request)
        IN  /\ a.result.code = "appended" => said = "append_proposed"
            /\ a.result.code = "exact_replay" => said = "exact_replay"
            /\ a.result.code = "idempotency_collision" => said = "idempotency_collision"

\* However often a request is sent again after an unknown outcome, its key is
\* appended once, by a call whose grant was bound to that key and digest.
AppendedOnceAsGranted ==
    /\ \A row, other \in ledger \cup held : row.key = other.key => row = other
    /\ \A c \in Callers : call[c].pc = "appended" =>
          call[c].granted = [key |-> Row(c).key, digest |-> Row(c).digest]

\* Every call is answered: transactions wait for each other's key at most, and
\* never in a circle.
EveryCallAnswered == \A c \in Callers : (call[c] # Idle) ~> (call[c] = Idle)

=================================================================================
