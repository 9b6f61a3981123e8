----------------------------- MODULE GatewayProofs -----------------------------
(***************************************************************************)
(* The gateway's durable operations, for any number of operations, calls,  *)
(* clock readings and versions.  A swap that may still succeed is a lawful *)
(* change of the record in the store, because a record's version never     *)
(* comes back; an attempt that the record does not count has left no trace *)
(* anywhere.                                                               *)
(***************************************************************************)
EXTENDS GatewayOperations, FiniteSetTheorems, TLAPS

Freed == {"authorized", "transport_unavailable", "expired"}
States == {"prepared", "orphaned"} \cup Freed \cup Open \cup Doubtful \cup Final
Verdicts == {"completed", "application_error", "not_executed"}

Receipts == [op : Operations, attempt : Attempts, status : Verdicts, received : Times]

Records == [state : States, version : Nat, attempts : Nat, requested : Times,
            expires : Times, last : Times, receipt : Receipts \cup {NoReceipt}]

Verifying == [pc : {"verify"}, op : Operations, read : Records, receipt : Receipts,
              at : Times]
Swapping == [pc : {"swap"}, op : Operations, expected : Nat, record : Records]
Sending == [pc : {"send"}, op : Operations, attempt : Attempts]

TypeOK ==
    /\ record \in [Operations -> {None} \cup Records]
    /\ call \in [Calls -> {Idle} \cup Verifying \cup Swapping \cup Sending]
    /\ sent \in [Operations -> [Attempts -> Nat]]
    /\ world \in [Operations -> [Attempts -> {"open"} \cup Verdicts]]
    /\ receipts \subseteq Receipts
    /\ used \subseteq receipts

\* A stored record: every attempt has cost an authorization and a dispatch, so
\* that the bound on versions bounds the attempts.
Sound(r) ==
    /\ r \in Records
    /\ r.expires > r.requested
    /\ r.version <= MaxVersion
    /\ 2 * r.attempts + 1 <= r.version
    /\ r.state \in {"authorized", "transport_unavailable"} => 2 * r.attempts + 2 <= r.version
    /\ r.state = "prepared" => r.attempts = 0

\* A change that the coordinator may make of a record.
Change(r, s) ==
    /\ Sound(s)
    /\ s.version = r.version + 1
    /\ s.attempts = IF s.state = "dispatching" THEN r.attempts + 1 ELSE r.attempts
    /\ s.state = "dispatching" => r.state = "authorized"
    /\ s.state # "prepared"
    /\ r.state \notin Final

RecordsInv == \A o \in Operations : record[o] # None => Sound(record[o])

\* A call holds a version the store has had; if the store still has it, the
\* call holds the very record, or a lawful change of it.
CallsInv ==
    \A c \in Calls :
        /\ call[c].pc = "verify" =>
              /\ call[c].read.version \in 1 .. record[call[c].op].version
              /\ record[call[c].op].version = call[c].read.version =>
                    record[call[c].op] = call[c].read
        /\ call[c].pc = "swap" =>
              /\ call[c].expected \in 1 .. record[call[c].op].version
              /\ record[call[c].op].version = call[c].expected =>
                    Change(record[call[c].op], call[c].record)

AttemptsOf(o) == IF record[o] = None THEN 0 ELSE record[o].attempts

\* An attempt is in one pair of hands, or sent once, or neither.
SendersInv ==
    /\ \A c \in Calls : call[c].pc = "send" =>
          /\ call[c].attempt <= AttemptsOf(call[c].op)
          /\ sent[call[c].op][call[c].attempt] = 0
          /\ \A d \in Calls \ {c} : call[d].pc = "send" =>
                call[d].op # call[c].op \/ call[d].attempt # call[c].attempt
    /\ \A o \in Operations, a \in Attempts :
          /\ sent[o][a] <= 1
          /\ a > AttemptsOf(o) => /\ sent[o][a] = 0 /\ world[o][a] = "open"
                                  /\ \A r \in receipts : r.op # o \/ r.attempt # a

\* The inductive invariant of the coordinator, its callers and the transport.
GatewayInv == TypeOK /\ RecordsInv /\ CallsInv /\ SendersInv

-----------------------------------------------------------------------------
(***************************************************************************)
(* What the methods make of a record.                                      *)
(***************************************************************************)

\* Attempts are numbered from one.
LEMMA AttemptsAreNat == \A a \in Attempts : a \in Nat /\ a # 0 /\ ~(a < 0)
BY GatewayBounds DEF Attempts

\* How versions and numbers of attempts compare.
LEMMA NoneBelowOne == \A n : n \notin 1 .. 0
BY SMT

LEMMA LastOfRange == \A v \in Nat \ {0} : v \in 1 .. v
BY SMT

LEMMA RangeGrows == \A v \in Nat : \A n \in 1 .. v : n \in 1 .. (v + 1) /\ n # v + 1
BY SMT

LEMMA AtMostItself == \A m \in Nat : m <= m
BY SMT

LEMMA AtMost == \A m, n \in Nat : m <= n <=> ~(m > n)
BY SMT

LEMMA AtMostIsNotNext == \A m, n \in Nat : m <= n => m # n + 1
BY SMT

LEMMA NextAbove == \A n \in Nat : n + 1 > n
BY SMT

LEMMA BelowNext == \A m, n \in Nat : m < n + 1 => m < n \/ m = n
BY SMT

LEMMA NumberEqual == \A m, n \in Nat : ~(m > n) /\ ~(m < n) => m = n
BY SMT

LEMMA NumberTransitive ==
    \A k, m, n \in Nat : /\ k <= m /\ n >= m => k <= n
                         /\ k > n /\ n >= m => k > m
BY SMT

\* The bound on versions bounds the attempts of a stored record.
LEMMA AttemptsBounded ==
    ASSUME NEW r, Sound(r)
    PROVE  /\ r.attempts \in Nat
           /\ r.attempts # 0 => r.attempts \in Attempts
<1>1. r.attempts \in Nat /\ r.version \in Nat /\ MaxVersion \in Nat
    BY Zenon, GatewayBounds DEF Sound, Records
<1>2. 2 * r.attempts + 1 <= MaxVersion
    BY <1>1 DEF Sound
<1>3. r.attempts <= MaxVersion \div 2
    BY <1>1, <1>2
<1>. QED
    BY <1>1, <1>3, GatewayBounds DEF Attempts

\* What nextRecord changes of a record, and what it keeps.
LEMMA NextRecordFields ==
    ASSUME NEW r \in Records, NEW state \in States, NEW at \in Times, NEW s,
           s = nextRecord(r, state, at)
    PROVE  /\ s \in Records /\ s.state = state /\ s.version = r.version + 1
           /\ s.attempts = r.attempts /\ s.requested = r.requested /\ s.expires = r.expires
<1>1. PICK t : t = [r EXCEPT !.state = state]
    BY Zenon
<1>2. t \in Records
    BY Zenon, <1>1 DEF Records
<1>3. PICK u : u = [t EXCEPT !.version = @ + 1]
    BY Zenon
<1>4. u \in Records
    BY <1>2, <1>3 DEF Records
<1>5. s = [u EXCEPT !.last = at]
    BY Zenon, <1>1, <1>3 DEF nextRecord
<1>6. s \in Records
    BY Zenon, <1>4, <1>5 DEF Records
<1>. QED
    BY Zenon, <1>6 DEF Records, nextRecord

\* nextRecord makes a lawful change, short of a dispatch, of a record that is not final.
LEMMA NextRecordChanges ==
    ASSUME NEW r, Sound(r), r.version < MaxVersion, r.state \notin Final, NEW at \in Times,
           NEW state \in States \ {"prepared", "dispatching"}
    PROVE  /\ Change(r, nextRecord(r, state, at))
           /\ nextRecord(r, state, at).state = state
<1>. DEFINE s == nextRecord(r, state, at)
<1>1. /\ s \in Records /\ s.state = state /\ s.version = r.version + 1
      /\ s.attempts = r.attempts /\ s.requested = r.requested /\ s.expires = r.expires
    BY NextRecordFields DEF Sound
<1>2. r.version \in Nat /\ r.attempts \in Nat /\ MaxVersion \in Nat
    BY Zenon, GatewayBounds DEF Sound, Records
<1>. QED
    BY <1>1, <1>2 DEF Change, Sound

\* So does beginDispatch, which counts the attempt as it moves on.
LEMMA DispatchChanges ==
    ASSUME NEW r, Sound(r), r.version < MaxVersion, r.state = "authorized", NEW at \in Times
    PROVE  LET s == [nextRecord(r, "dispatching", at) EXCEPT !.attempts = @ + 1]
           IN  Change(r, s) /\ s.state = "dispatching"
<1>. DEFINE s == [nextRecord(r, "dispatching", at) EXCEPT !.attempts = @ + 1]
<1>1. /\ s \in Records /\ s.state = "dispatching" /\ s.version = r.version + 1
      /\ s.attempts = r.attempts + 1 /\ s.requested = r.requested /\ s.expires = r.expires
  <2>1. PICK t : t = nextRecord(r, "dispatching", at)
    BY Zenon
  <2>2. /\ t \in Records /\ t.state = "dispatching" /\ t.version = r.version + 1
        /\ t.attempts = r.attempts /\ t.requested = r.requested /\ t.expires = r.expires
    BY <2>1, NextRecordFields DEF Sound, States, Open
  <2>. QED
    BY <2>1, <2>2 DEF Records
<1>2. r.version \in Nat /\ r.attempts \in Nat /\ MaxVersion \in Nat
    BY Zenon, GatewayBounds DEF Sound, Records
<1>3. r.state \notin Final
    BY Zenon DEF Final
<1>. QED
    BY <1>1, <1>2, <1>3 DEF Change, Sound

\* A receipt that a record takes in moves it to the state the receipt's status names: an
\* application error fails it, and only an attempt that was not executed frees it.
LEMMA ReceiptChanges ==
    ASSUME NEW r, Sound(r), r.version < MaxVersion, NEW at \in Times, NEW receipt \in Receipts,
           withReceipt(r, receipt, at).code = "none"
    PROVE  LET s == withReceipt(r, receipt, at).record
           IN  /\ Change(r, s)
               /\ s.state \in {"completed", "failed"} \cup Freed
               /\ s.state = "completed" => receipt.status = "completed"
               /\ s.state = "failed" => receipt.status = "application_error"
               /\ s.state \in Freed => receipt.status = "not_executed"
<1>1. r.state \in Open \cup Doubtful /\ r.state \notin Final
    BY Zenon DEF withReceipt, failure, Open, Doubtful, Final
<1>. DEFINE target == CASE receipt.status = "completed" -> "completed"
                        [] receipt.status = "application_error" -> "failed"
                        [] OTHER -> IF r.expires > at THEN "authorized" ELSE "expired"
            s == [nextRecord(r, target, at) EXCEPT !.receipt = receipt]
<1>2. withReceipt(r, receipt, at).record = s
    BY Zenon, <1>1 DEF withReceipt, changed
<1>3. receipt.status \in Verdicts
    BY Zenon DEF Receipts
<1>4. /\ target \in {"completed", "failed", "authorized", "expired"}
      /\ target = "completed" => receipt.status = "completed"
      /\ target = "failed" => receipt.status = "application_error"
      /\ target \in {"authorized", "expired"} => receipt.status = "not_executed"
    BY Zenon, <1>3 DEF Verdicts
<1>. HIDE DEF target
<1>5. /\ s \in Records /\ s.state = target /\ s.version = r.version + 1
      /\ s.attempts = r.attempts /\ s.requested = r.requested /\ s.expires = r.expires
  <2>1. PICK t : t = nextRecord(r, target, at)
    BY Zenon
  <2>2. /\ t \in Records /\ t.state = target /\ t.version = r.version + 1
        /\ t.attempts = r.attempts /\ t.requested = r.requested /\ t.expires = r.expires
    BY <1>4, <2>1, NextRecordFields DEF Sound, States, Freed, Final
  <2>3. s = [t EXCEPT !.receipt = receipt]
    BY Zenon, <2>1
  <2>. QED
    BY Zenon, <2>2, <2>3 DEF Records
<1>6. r.version \in Nat /\ r.attempts \in Nat /\ MaxVersion \in Nat
    BY Zenon, GatewayBounds DEF Sound, Records
<1>7. Change(r, s)
    BY <1>1, <1>4, <1>5, <1>6 DEF Change, Sound
<1>. QED
    BY Zenon, <1>2, <1>4, <1>5, <1>7 DEF Freed

\* A change that needs no receipt.
Ordinary(r, s) ==
    /\ Change(r, s)
    /\ s.state \in Freed => r.state \in Freed \cup {"prepared"}
    /\ s.state \notin {"completed", "failed"}

\* transition makes an ordinary change, from the states it is allowed to leave.
LEMMA TransitionChanges ==
    ASSUME NEW r, Sound(r), r.version < MaxVersion, NEW at \in Times,
           NEW target \in States \ {"prepared", "dispatching", "completed", "failed"},
           NEW allowed, allowed \cap Final = {},
           target \in Freed => allowed \subseteq Freed \cup {"prepared"},
           transition(r, target, at, allowed).code = "none"
    PROVE  Ordinary(r, transition(r, target, at, allowed).record)
<1>1. r.state \in allowed /\ r.state \notin Final
    BY Zenon DEF transition, failure
<1>2. transition(r, target, at, allowed).record = nextRecord(r, target, at)
    BY Zenon, <1>1 DEF transition, changed
<1>3. /\ Change(r, nextRecord(r, target, at))
      /\ nextRecord(r, target, at).state = target
    BY <1>1, NextRecordChanges
<1>. QED
    BY Zenon, <1>1, <1>2, <1>3 DEF Ordinary

\* Every method of the coordinator other than a dispatch or a receipt makes an ordinary change.
LEMMA MethodChanges ==
    ASSUME NEW r, Sound(r), r.version < MaxVersion, NEW at \in Times, NEW outcome,
           \/ outcome \in outcomes(r, {}, at)
           \/ outcome = retryExact(r, FALSE, at)
           \/ \E remote \in remoteStates,
                 matching \in BOOLEAN : outcome = observeRemoteState(r, matching, remote, at),
           outcome.code = "none"
    PROVE  Ordinary(r, outcome.record)
<1>. USE DEF Open, Doubtful, Final, Freed, States
<1>1. CASE outcome = authorize(r, at)
    BY Zenon, <1>1, TransitionChanges DEF authorize
<1>2. CASE outcome = beginDispatch(r, at)
  <2>1. r.state = "authorized"
    BY Zenon, <1>2 DEF beginDispatch, failure
  <2>2. outcome.record = [nextRecord(r, "dispatching", at) EXCEPT !.attempts = @ + 1]
    BY Zenon, <1>2, <2>1 DEF beginDispatch, failure, changed
  <2>. QED
    BY <2>1, <2>2, DispatchChanges DEF Ordinary
<1>3. CASE outcome = markTransportFailure(r, at)
  <2>1. CASE r.state = "authorized"
    <3>1. outcome.record = nextRecord(r, "transport_unavailable", at)
      BY Zenon, <1>3, <2>1 DEF markTransportFailure, changed
    <3>. QED
      BY <2>1, <3>1, NextRecordChanges DEF Ordinary
  <2>2. CASE r.state # "authorized"
    BY Zenon, <1>3, <2>2, TransitionChanges DEF markTransportFailure
  <2>. QED
    BY Zenon, <2>1, <2>2
<1>4. CASE outcome = requestCancellation(r, at)
    BY Zenon, <1>4, TransitionChanges DEF requestCancellation
<1>5. CASE outcome = beginReconciliation(r, at)
    BY Zenon, <1>5, TransitionChanges DEF beginReconciliation
<1>6. ASSUME NEW exact \in BOOLEAN, outcome = retryExact(r, exact, at)
      PROVE  Ordinary(r, outcome.record)
  <2>1. r.state = "transport_unavailable"
    BY Zenon, <1>6 DEF retryExact, failure
  <2>2. \/ outcome.record = nextRecord(r, "authorized", at)
        \/ outcome.record = nextRecord(r, "expired", at)
    BY Zenon, <1>6, <2>1 DEF retryExact, failure, changed
  <2>. QED
    BY <2>1, <2>2, NextRecordChanges DEF Ordinary
<1>7. CASE outcome = recoverAfterRestart(r, at)
  <2>1. r.state \in Open \cup {"cancel_requested"}
    BY Zenon, <1>7 DEF recoverAfterRestart, failure
  <2>2. outcome.record = nextRecord(r, "outcome_unknown", at)
    BY Zenon, <1>7, <2>1 DEF recoverAfterRestart, changed
  <2>. QED
    BY <2>1, <2>2, NextRecordChanges DEF Ordinary
<1>8. CASE outcome = markOrphaned(r, at)
  <2>1. r.state \notin Final
    BY Zenon, <1>8 DEF markOrphaned, failure
  <2>2. outcome.record = nextRecord(r, "orphaned", at)
    BY Zenon, <1>8 DEF markOrphaned, failure, changed
  <2>. QED
    BY <2>1, <2>2, NextRecordChanges DEF Ordinary
<1>9. ASSUME NEW remote \in remoteStates,
             NEW matching \in BOOLEAN, outcome = observeRemoteState(r, matching, remote, at)
      PROVE  Ordinary(r, outcome.record)
  <2>. DEFINE target == IF remote \in {"completed", "failed"} THEN "outcome_unknown" ELSE remote
              allowed == Open \cup {"cancel_requested", "reconciling"}
  <2>1. matching /\ outcome = transition(r, target, at, allowed)
    BY Zenon, <1>9 DEF observeRemoteState, failure
  <2>2. target \in {"outcome_unknown", "accepted", "working", "input_required"}
    BY Zenon DEF remoteStates
  <2>. HIDE DEF target
  <2>. QED
    BY Zenon, <2>1, <2>2, TransitionChanges
<1>. QED
    BY Zenon, <1>1, <1>2, <1>3, <1>4, <1>5, <1>6, <1>7, <1>8, <1>9 DEF outcomes

-----------------------------------------------------------------------------

(***************************************************************************)
(* The moves of the callers: asking for a swap, giving up, storing.        *)
(***************************************************************************)
Asks(c, k) ==
    /\ call[c].pc \in {"idle", "verify"}
    /\ k \in Swapping
    /\ record[k.op] # None
    /\ k.expected = record[k.op].version
    /\ Change(record[k.op], k.record)
    /\ call' = [call EXCEPT ![c] = k]
    /\ UNCHANGED <<record, sent, world, receipts, used>>

Ends(c) ==
    /\ call' = [call EXCEPT ![c] = Idle]
    /\ UNCHANGED <<record, sent, world, receipts, used>>

Stores(c, then) ==
    /\ call[c].pc = "swap"
    /\ record[call[c].op].version = call[c].expected
    /\ then \in {Idle, AfterSwap(c, call[c])}
    /\ record' = [record EXCEPT ![call[c].op] = call[c].record]
    /\ call' = [call EXCEPT ![c] = then]
    /\ UNCHANGED <<sent, world, receipts, used>>

\* What a caller holds, by where it is.
LEMMA CallShape ==
    ASSUME TypeOK, NEW c \in Calls
    PROVE  /\ call[c].pc \in {"idle", "verify", "swap", "send"}
           /\ call[c].pc = "verify" => call[c] \in Verifying
           /\ call[c].pc = "swap" => call[c] \in Swapping
           /\ call[c].pc = "send" => call[c] \in Sending
<1>1. call[c] \in {Idle} \cup Verifying \cup Swapping \cup Sending
    BY Zenon DEF TypeOK
<1>. QED
    BY <1>1 DEF Idle, Verifying, Swapping, Sending

\* What the store holds of an operation, and how many attempts that counts.
LEMMA StoredIsSound ==
    ASSUME GatewayInv, NEW o \in Operations
    PROVE  /\ record[o] = None => record[o].version = 0 /\ AttemptsOf(o) = 0
           /\ record[o] # None => /\ Sound(record[o]) /\ record[o] \in Records
                                  /\ record[o].version \in Nat \ {0}
                                  /\ AttemptsOf(o) = record[o].attempts
           /\ AttemptsOf(o) \in Nat
           /\ AttemptsOf(o) # 0 => AttemptsOf(o) \in Attempts
<1>1. CASE record[o] = None
    BY <1>1 DEF None, AttemptsOf
<1>2. CASE record[o] # None
  <2>1. Sound(record[o])
    BY Zenon, <1>2 DEF GatewayInv, RecordsInv
  <2>2. record[o].version \in Nat \ {0} /\ record[o].attempts \in Nat
    BY <2>1 DEF Sound, Records
  <2>. QED
    BY Zenon, <1>2, <2>1, <2>2, AttemptsBounded DEF AttemptsOf, Sound
<1>. QED
    BY Zenon, <1>1, <1>2

\* A version the store has had is the version of a record.
LEMMA HeldIsStored ==
    ASSUME GatewayInv, NEW o \in Operations, record[o].version # 0
    PROVE  /\ record[o] # None /\ Sound(record[o]) /\ record[o].version \in Nat
           /\ AttemptsOf(o) = record[o].attempts /\ AttemptsOf(o) \in Nat
BY Zenon, StoredIsSound

\* A method that gets as far as the store asks for an ordinary change of the record it read.
LEMMA MethodAsks ==
    ASSUME GatewayInv, NEW c \in Calls, NEW o \in Operations, NEW at \in Times, Method(c, o, at)
    PROVE  \E k \in Swapping : Asks(c, k) /\ Ordinary(record[k.op], k.record)
<1>1. ASSUME NEW outcome, Do(c, o, at, outcome),
             \/ outcome \in outcomes(record[o], {}, at)
             \/ outcome = retryExact(record[o], FALSE, at)
             \/ \E remote \in remoteStates,
                   matching \in BOOLEAN :
                     outcome = observeRemoteState(record[o], matching, remote, at)
      PROVE  \E k \in Swapping : Asks(c, k) /\ Ordinary(record[k.op], k.record)
  <2>1. Sound(record[o]) /\ record[o].version \in Nat
    BY Zenon, <1>1, StoredIsSound DEF Do
  <2>2. outcome.code = "none" /\ record[o].version < MaxVersion
    BY Zenon, <1>1 DEF Do, mutate, proceeds
  <2>3. Ordinary(record[o], outcome.record)
    BY ZenonT(60), <1>1, <2>1, <2>2, MethodChanges
  <2>. DEFINE k == swap(o, record[o], outcome)
  <2>4. k \in Swapping /\ k.op = o /\ k.expected = record[o].version /\ k.record = outcome.record
    BY Zenon, <2>1, <2>3 DEF swap, Swapping, Ordinary, Change, Sound
  <2>5. Asks(c, k)
    BY <1>1, <2>3, <2>4 DEF Do, mutate, Asks, Ordinary, Idle
  <2>. QED
    BY Zenon, <2>3, <2>4, <2>5
<1>. QED
    BY Zenon, <1>1 DEF Method, Authorize, BeginDispatch, ObserveRemoteState, MarkTransportFailure,
                RequestCancellation, BeginReconciliation, RetryExact, RecoverAfterRestart,
                MarkOrphaned, outcomes

\* A receipt that was verified asks for a change of the record as it was read before the
\* verifier was awaited, or is answered.
LEMMA VerifiedAsks ==
    ASSUME GatewayInv, NEW c \in Calls, ReceiptVerified(c)
    PROVE  \/ Ends(c)
           \/ \E k \in Swapping :
                 /\ Asks(c, k)
                 /\ call[c].pc = "verify" /\ k.op = call[c].op
                 /\ record[k.op].version = call[c].read.version
                 /\ k.record.state \in {"completed", "failed"} \cup Freed
                 /\ k.record.state = "completed" => call[c].receipt.status = "completed"
                 /\ k.record.state = "failed" => call[c].receipt.status = "application_error"
                 /\ k.record.state \in Freed => call[c].receipt.status = "not_executed"
<1>. DEFINE o == call[c].op
            r == record[o]
            outcome == afterVerifier(call[c].read, r, call[c].receipt, call[c].at)
<1>1. call[c].pc = "verify" /\ call[c] \in Verifying
    BY Zenon, CallShape DEF ReceiptVerified, GatewayInv
<1>2. o \in Operations /\ call[c].receipt \in Receipts /\ call[c].at \in Times
    BY Zenon, <1>1 DEF Verifying
<1>3. CASE Answer(c)
    BY Zenon, <1>3 DEF ReceiptVerified, Answer, Ends
<1>4. CASE /\ proceeds(r, call[c].at, outcome) /\ r.version < MaxVersion
           /\ call' = [call EXCEPT ![c] = swap(o, r, outcome)]
  <2>1. r # None /\ Sound(r) /\ r.version \in Nat
    <3>1. r.version # 0
      BY Zenon, <1>1, NoneBelowOne DEF GatewayInv, CallsInv
    <3>. QED
      BY Zenon, <1>2, <3>1, HeldIsStored
  <2>2. /\ r.version = call[c].read.version
        /\ outcome = withReceipt(r, call[c].receipt, call[c].at) /\ outcome.code = "none"
    BY ZenonT(60), <1>4 DEF proceeds, afterVerifier, failure
  <2>3. LET s == outcome.record
        IN  /\ Change(r, s)
            /\ s.state \in {"completed", "failed"} \cup Freed
            /\ s.state = "completed" => call[c].receipt.status = "completed"
            /\ s.state = "failed" => call[c].receipt.status = "application_error"
            /\ s.state \in Freed => call[c].receipt.status = "not_executed"
    <3>. HIDE DEF o, r, outcome
    <3>1. r.version < MaxVersion /\ withReceipt(r, call[c].receipt, call[c].at).code = "none"
      BY Zenon, <1>4, <2>2
    <3>. QED
      BY ZenonT(60), <1>2, <2>1, <2>2, <3>1, ReceiptChanges
  <2>. DEFINE k == swap(o, r, outcome)
  <2>4. k \in Swapping /\ k.op = o /\ k.expected = r.version /\ k.record = outcome.record
    BY ZenonT(60), <1>2, <2>1, <2>3 DEF swap, Swapping, Change, Sound
  <2>5. Asks(c, k)
    BY Zenon, <1>1, <1>4, <2>1, <2>3, <2>4 DEF ReceiptVerified, Asks
  <2>. QED
    BY ZenonT(60), <1>1, <2>2, <2>3, <2>4, <2>5
<1>. QED
    BY Zenon, <1>3, <1>4 DEF ReceiptVerified

-----------------------------------------------------------------------------
\* Each kind of step keeps the invariant.

\* A caller that waits for nothing holds nothing.
LEMMA IdleWaits == Idle.pc = "idle"
BY SMT DEF Idle

\* A call that lets go of what it held says nothing of the store any more.
LEMMA LetsGo ==
    ASSUME CallsInv, UNCHANGED record,
           \A d \in Calls : call'[d] = call[d] \/ call'[d].pc \notin {"verify", "swap"}
    PROVE  CallsInv'
BY ZenonT(60) DEF CallsInv

\* Two callers never have the same attempt to send.
LEMMA SendersApart ==
    ASSUME SendersInv, NEW c \in Calls, NEW d \in Calls, c # d,
           call[c].pc = "send", call[d].pc = "send"
    PROVE  call[d].op # call[c].op \/ call[d].attempt # call[c].attempt
BY Zenon DEF SendersInv

\* An attempt is sent at most once, and one that is still ahead has left no trace.
LEMMA AttemptsAhead ==
    ASSUME SendersInv, NEW o \in Operations, NEW a \in Attempts
    PROVE  /\ sent[o][a] <= 1
           /\ a > AttemptsOf(o) => /\ sent[o][a] = 0 /\ world[o][a] = "open"
                                   /\ \A r \in receipts : r.op # o \/ r.attempt # a
BY Zenon DEF SendersInv

\* A step that hands out nothing to send, and sends nothing, keeps the hands apart.
LEMMA NothingHandedOut ==
    ASSUME SendersInv, UNCHANGED <<record, sent, world, receipts>>,
           \A d \in Calls : call'[d] = call[d] \/ call'[d].pc # "send"
    PROVE  SendersInv'
<1>1. \A o : AttemptsOf(o)' = AttemptsOf(o)
    BY Zenon DEF AttemptsOf
<1>2. ASSUME NEW c \in Calls, call'[c].pc = "send"
      PROVE  /\ call'[c].attempt <= AttemptsOf(call'[c].op)
             /\ sent[call'[c].op][call'[c].attempt] = 0
    BY Zenon, <1>2 DEF SendersInv
<1>3. ASSUME NEW c \in Calls, call'[c].pc = "send", NEW d \in Calls \ {c}, call'[d].pc = "send"
      PROVE  call'[d].op # call'[c].op \/ call'[d].attempt # call'[c].attempt
  <2>1. call'[c] = call[c] /\ call'[d] = call[d]
    BY Zenon, <1>3
  <2>. QED
    BY Zenon, <1>3, <2>1, SendersApart
<1>4. \A o \in Operations, a \in Attempts :
         /\ sent[o][a] <= 1
         /\ a > AttemptsOf(o) => /\ sent[o][a] = 0 /\ world[o][a] = "open"
                                 /\ \A r \in receipts : r.op # o \/ r.attempt # a
    BY Zenon DEF SendersInv
<1>5. ASSUME NEW c \in Calls, call'[c].pc = "send"
      PROVE  (call[c].attempt <= AttemptsOf(call[c].op))'
    BY Zenon, <1>2, <1>5 DEF AttemptsOf
<1>. QED
    BY ZenonT(60), <1>1, <1>2, <1>3, <1>4, <1>5 DEF SendersInv

\* Asking for a swap keeps the invariant.
LEMMA AsksKeeps ==
    ASSUME GatewayInv, NEW c \in Calls, NEW k \in Swapping, Asks(c, k)
    PROVE  GatewayInv'
<1>. USE DEF GatewayInv
<1>1. call'[c] = k /\ k.pc = "swap" /\ \A d \in Calls \ {c} : call'[d] = call[d]
    BY Zenon DEF Asks, TypeOK, Swapping
<1>2. TypeOK'
    BY Zenon DEF Asks, TypeOK
<1>3. RecordsInv'
    BY Zenon DEF Asks, RecordsInv
<1>4. CallsInv'
  <2>1. k.expected \in 1 .. record[k.op].version
    BY Zenon, StoredIsSound, LastOfRange DEF Asks, Swapping
  <2>2. record' = record /\ Change(record[k.op], k.record)
    BY Zenon DEF Asks
  <2>3. ASSUME NEW d \in Calls, call'[d].pc = "verify"
        PROVE  /\ call'[d].read.version \in 1 .. record'[call'[d].op].version
               /\ record'[call'[d].op].version = call'[d].read.version =>
                     record'[call'[d].op] = call'[d].read
    <3>1. call'[d] = call[d]
      BY Zenon, <1>1, <2>3
    <3>. QED
      BY Zenon, <2>2, <2>3, <3>1 DEF CallsInv
  <2>4. ASSUME NEW d \in Calls, call'[d].pc = "swap"
        PROVE  /\ call'[d].expected \in 1 .. record'[call'[d].op].version
               /\ record'[call'[d].op].version = call'[d].expected =>
                     Change(record'[call'[d].op], call'[d].record)
    <3>1. CASE d = c
      BY Zenon, <1>1, <2>1, <2>2, <3>1
    <3>2. CASE d # c
      <4>1. call'[d] = call[d]
        BY Zenon, <1>1, <3>2
      <4>. QED
        BY Zenon, <2>2, <2>4, <4>1 DEF CallsInv
    <3>. QED
      BY Zenon, <3>1, <3>2
  <2>. QED
    BY Zenon, <2>3, <2>4 DEF CallsInv
<1>5. SendersInv'
  <2>1. UNCHANGED <<record, sent, world, receipts>>
    BY Zenon DEF Asks
  <2>. QED
    BY Zenon, <1>1, <2>1, NothingHandedOut
<1>. QED
    BY Zenon, <1>2, <1>3, <1>4, <1>5

\* Giving up keeps the invariant.
LEMMA EndsKeeps ==
    ASSUME GatewayInv, NEW c \in Calls, Ends(c)
    PROVE  GatewayInv'
<1>. USE DEF GatewayInv
<1>1. call'[c] = Idle /\ \A d \in Calls \ {c} : call'[d] = call[d]
    BY Zenon DEF Ends, TypeOK
<1>2. TypeOK'
    BY Zenon DEF Ends, TypeOK
<1>3. RecordsInv'
    BY Zenon DEF Ends, RecordsInv
<1>4. CallsInv'
  <2>1. call'[c].pc \notin {"verify", "swap"} /\ record' = record
    BY Zenon, <1>1, IdleWaits DEF Ends
  <2>. QED
    BY Zenon, <1>1, <2>1, LetsGo
<1>5. SendersInv'
  <2>1. call'[c].pc # "send" /\ UNCHANGED <<record, sent, world, receipts>>
    BY Zenon, <1>1, IdleWaits DEF Ends
  <2>. QED
    BY Zenon, <1>1, <2>1, NothingHandedOut
<1>. QED
    BY Zenon, <1>2, <1>3, <1>4, <1>5

\* A swap that succeeds changes the record of its operation, and lawfully so: the version
\* it expected is the version of the record that it was computed from.
LEMMA StoredChange ==
    ASSUME GatewayInv, NEW c \in Calls, NEW then, Stores(c, then),
           NEW o, o = call[c].op, NEW s, s = call[c].record
    PROVE  /\ o \in Operations /\ call[c] \in Swapping
           /\ record[o] # None /\ Sound(record[o]) /\ Change(record[o], s) /\ s # None
           /\ record'[o] = s /\ \A p \in Operations \ {o} : record'[p] = record[p]
           /\ AttemptsOf(o)' = s.attempts
           /\ \A p \in Operations \ {o} : AttemptsOf(p)' = AttemptsOf(p)
           /\ record[o].version \in Nat /\ AttemptsOf(o) = record[o].attempts
           /\ AttemptsOf(o) \in Nat
<1>1. call[c] \in Swapping /\ o \in Operations /\ s \in Records
  <2>1. call[c] \in Swapping
    BY Zenon, CallShape DEF Stores, GatewayInv
  <2>. QED
    BY Zenon, <2>1 DEF Swapping
<1>2. record[o].version # 0 /\ Change(record[o], s)
    BY Zenon, <1>1, NoneBelowOne DEF Stores, GatewayInv, CallsInv
<1>3. record[o] # None /\ Sound(record[o]) /\ record[o].version \in Nat
      /\ AttemptsOf(o) = record[o].attempts /\ AttemptsOf(o) \in Nat
    BY Zenon, <1>1, <1>2, HeldIsStored
<1>4. s # None
  <2>1. None.version = 0
    BY SMT DEF None
  <2>2. s.version = record[o].version + 1
    BY Zenon, <1>2, <1>3 DEF Change
  <2>3. s.version # 0
    BY SMT, <1>3, <2>2
  <2>. QED
    BY Zenon, <2>1, <2>3
<1>5. record'[o] = s /\ \A p \in Operations \ {o} : record'[p] = record[p]
    BY Zenon, <1>1 DEF Stores, GatewayInv, TypeOK
<1>. QED
    BY Zenon, <1>1, <1>2, <1>3, <1>4, <1>5 DEF AttemptsOf

\* A swap that succeeds keeps the invariant: any other swap on the record is now stale.
LEMMA StoresKeeps ==
    ASSUME GatewayInv, NEW c \in Calls, NEW then, Stores(c, then)
    PROVE  GatewayInv'
<1>. USE DEF GatewayInv
<1>0. PICK o, s : o = call[c].op /\ s = call[c].record
    BY Zenon
<1>1. /\ o \in Operations /\ call[c] \in Swapping
      /\ record[o] # None /\ Sound(record[o]) /\ Change(record[o], s) /\ s # None
      /\ record'[o] = s /\ \A p \in Operations \ {o} : record'[p] = record[p]
      /\ AttemptsOf(o)' = s.attempts
      /\ \A p \in Operations \ {o} : AttemptsOf(p)' = AttemptsOf(p)
      /\ record[o].version \in Nat /\ AttemptsOf(o) = record[o].attempts
      /\ AttemptsOf(o) \in Nat
    BY <1>0, StoredChange
<1>2. Sound(s) /\ s \in Records /\ s.version = record[o].version + 1
      /\ s.attempts = IF s.state = "dispatching" THEN AttemptsOf(o) + 1 ELSE AttemptsOf(o)
    BY Zenon, <1>1 DEF Change, Sound
<1>3. /\ then = Idle \/ then \in Sending
      /\ then # Idle => /\ s.state = "dispatching" /\ then.op = o /\ then.attempt = s.attempts
                        /\ then.pc = "send"
  <2>1. s.state = "dispatching" => s.attempts \in Attempts
    BY <1>1, <1>2, AttemptsBounded
  <2>. QED
    <3>1. \/ then = Idle
          \/ s.state = "dispatching" /\ then = [pc |-> "send", op |-> o, attempt |-> s.attempts]
      BY Zenon, <1>0 DEF Stores, AfterSwap
    <3>2. CASE then = Idle
      BY Zenon, <3>2
    <3>3. CASE s.state = "dispatching" /\ then = [pc |-> "send", op |-> o, attempt |-> s.attempts]
      <4>1. then.op = o /\ then.attempt = s.attempts /\ then.pc = "send"
        BY SMT, <3>3
      <4>2. then \in Sending
        BY Zenon, <1>1, <2>1, <3>3 DEF Sending
      <4>. QED
        BY Zenon, <3>3, <4>1, <4>2
    <3>. QED
      BY Zenon, <3>1, <3>2, <3>3
<1>4. call'[c] = then /\ \A d \in Calls \ {c} : call'[d] = call[d]
    BY Zenon DEF Stores, TypeOK
<1>5. TypeOK'
    BY Zenon, <1>0, <1>1, <1>2, <1>3 DEF Stores, TypeOK
<1>6. RecordsInv'
    BY Zenon, <1>1, <1>2 DEF RecordsInv
<1>7. CallsInv'
  <2>1. ASSUME NEW d \in Calls, d # c, call[d].pc = "verify"
        PROVE  /\ call[d].read.version \in 1 .. record'[call[d].op].version
               /\ record'[call[d].op].version = call[d].read.version =>
                     record'[call[d].op] = call[d].read
    <3>1. call[d].op \in Operations
      BY Zenon, <2>1, CallShape DEF Verifying
    <3>. QED
      <4>1. CASE call[d].op = o
        <5>1. call[d].read.version \in 1 .. record[o].version
          BY Zenon, <2>1, <4>1 DEF CallsInv
        <5>. QED
          BY Zenon, <1>1, <1>2, <4>1, <5>1, RangeGrows
      <4>2. CASE call[d].op # o
        BY Zenon, <1>1, <2>1, <3>1, <4>2 DEF CallsInv
      <4>. QED
        BY Zenon, <4>1, <4>2
  <2>2. ASSUME NEW d \in Calls, d # c, call[d].pc = "swap"
        PROVE  /\ call[d].expected \in 1 .. record'[call[d].op].version
               /\ record'[call[d].op].version = call[d].expected =>
                     Change(record'[call[d].op], call[d].record)
    <3>1. call[d].op \in Operations
      BY Zenon, <2>2, CallShape DEF Swapping
    <3>. QED
      <4>1. CASE call[d].op = o
        <5>1. call[d].expected \in 1 .. record[o].version
          BY Zenon, <2>2, <4>1 DEF CallsInv
        <5>. QED
          BY Zenon, <1>1, <1>2, <4>1, <5>1, RangeGrows
      <4>2. CASE call[d].op # o
        BY Zenon, <1>1, <2>2, <3>1, <4>2 DEF CallsInv
      <4>. QED
        BY Zenon, <4>1, <4>2
  <2>3. call'[c].pc \notin {"verify", "swap"}
    BY Zenon, <1>3, <1>4, IdleWaits
  <2>. QED
    BY Zenon, <1>4, <2>1, <2>2, <2>3 DEF CallsInv
<1>8. SendersInv'
  <2>1. \A p \in Operations : AttemptsOf(p)' >= AttemptsOf(p) /\ AttemptsOf(p) \in Nat
    BY <1>1, <1>2, StoredIsSound
  <2>2. \A d \in Calls : call[d].pc = "send" =>
           call[d].op \in Operations /\ call[d].attempt \in Attempts
    BY Zenon, CallShape DEF Sending
  <2>3. Attempts \subseteq Nat
    BY Zenon, AttemptsAreNat
  <2>4. \A p \in Operations, a \in Attempts : a > AttemptsOf(p)' => a > AttemptsOf(p)
    <3>1. \A p \in Operations : AttemptsOf(p)' \in Nat
      BY SMTT(60), <1>1, <1>2, <2>1
    <3>2. SUFFICES ASSUME NEW p \in Operations, NEW a \in Attempts PROVE a > AttemptsOf(p)' => a > AttemptsOf(p)
      BY Zenon
    <3>3. a \in Nat /\ AttemptsOf(p) \in Nat /\ AttemptsOf(p)' \in Nat /\ AttemptsOf(p)' >= AttemptsOf(p)
      BY Zenon, <2>1, <2>3, <3>1
    <3>. QED
      BY Zenon, <3>3, NumberTransitive
  <2>5. \A d \in Calls, p \in Operations :
          call'[d].pc = "send" /\ call'[d].op = p => call'[d].attempt <= AttemptsOf(p)'
    <3>1. \A p \in Operations : AttemptsOf(p)' \in Nat
      BY SMTT(60), <1>1, <1>2, <2>1
    <3>2. ASSUME NEW d \in Calls, d # c, call[d].pc = "send"
          PROVE  call[d].attempt <= AttemptsOf(call[d].op)
      BY Zenon, <3>2 DEF SendersInv
    <3>3. ASSUME NEW d \in Calls, d # c, NEW p \in Operations, call'[d].pc = "send", call'[d].op = p
          PROVE  call'[d].attempt <= AttemptsOf(p)'
      <4>1. call[d].attempt \in Nat /\ call[d].attempt <= AttemptsOf(p)
        BY ZenonT(60), <1>4, <2>2, <2>3, <3>2, <3>3
      <4>. QED
        BY ZenonT(60), <1>4, <2>1, <3>1, <3>3, <4>1, NumberTransitive
    <3>4. ASSUME NEW p \in Operations, call'[c].pc = "send", call'[c].op = p
          PROVE  call'[c].attempt <= AttemptsOf(p)'
      <4>1. then # Idle
        BY Zenon, <1>4, <3>4, IdleWaits
      <4>2. p = o /\ call'[c].attempt = AttemptsOf(p)'
        BY Zenon, <1>1, <1>3, <1>4, <3>4, <4>1
      <4>. QED
        BY Zenon, <3>1, <4>2, AtMostItself
    <3>. QED
      BY Zenon, <3>3, <3>4
  <2>6. then # Idle => /\ sent[o][then.attempt] = 0
                       /\ \A d \in Calls \ {c} : call[d].pc = "send" =>
                             call[d].op # o \/ call[d].attempt # then.attempt
    <3>. SUFFICES ASSUME then # Idle
                  PROVE  /\ sent[o][then.attempt] = 0
                         /\ \A d \in Calls \ {c} : call[d].pc = "send" =>
                               call[d].op # o \/ call[d].attempt # then.attempt
      BY Zenon
    <3>1. then.attempt \in Attempts /\ then.attempt = AttemptsOf(o) + 1
      BY Zenon, <1>2, <1>3 DEF Sending
    <3>2. then.attempt > AttemptsOf(o)
      BY Zenon, <1>1, <3>1, NextAbove
    <3>3. sent[o][then.attempt] = 0
      BY Zenon, <1>1, <3>1, <3>2 DEF SendersInv
    <3>4. ASSUME NEW d \in Calls \ {c}, call[d].pc = "send", call[d].op = o
          PROVE  call[d].attempt # then.attempt
      <4>1. call[d].attempt \in Nat /\ call[d].attempt <= AttemptsOf(o)
        BY Zenon, <2>2, <2>3, <3>4 DEF SendersInv
      <4>. QED
        BY Zenon, <1>1, <3>1, <4>1, AtMostIsNotNext
    <3>. QED
      BY Zenon, <3>3, <3>4
  <2>7. \A d \in Calls : call'[d].pc = "send" =>
          /\ sent'[call'[d].op][call'[d].attempt] = 0
          /\ \A e \in Calls \ {d} : call'[e].pc = "send" =>
                call'[e].op # call'[d].op \/ call'[e].attempt # call'[d].attempt
    <3>1. call'[c].pc = "send" => then # Idle /\ then.op = o
      BY Zenon, <1>3, <1>4, IdleWaits
    <3>2. sent' = sent
      BY Zenon DEF Stores
    <3>3. ASSUME NEW d \in Calls, call'[d].pc = "send"
          PROVE  sent'[call'[d].op][call'[d].attempt] = 0
      <4>1. CASE d = c
        BY Zenon, <1>4, <2>6, <3>1, <3>2, <3>3, <4>1
      <4>2. CASE d # c
        BY Zenon, <1>4, <3>2, <3>3, <4>2 DEF SendersInv
      <4>. QED
        BY Zenon, <4>1, <4>2
    <3>4. ASSUME NEW d \in Calls, call'[d].pc = "send",
                 NEW e \in Calls \ {d}, call'[e].pc = "send"
          PROVE  call'[e].op # call'[d].op \/ call'[e].attempt # call'[d].attempt
      <4>1. CASE d = c
        BY Zenon, <1>4, <2>6, <3>1, <3>4, <4>1
      <4>2. CASE e = c
        BY Zenon, <1>4, <2>6, <3>1, <3>4, <4>2
      <4>3. CASE d # c /\ e # c
        <5>1. call'[d] = call[d] /\ call'[e] = call[e]
          BY Zenon, <1>4, <4>3
        <5>. QED
          BY Zenon, <3>4, <5>1, SendersApart
      <4>. QED
        BY Zenon, <4>1, <4>2, <4>3
    <3>. QED
      BY Zenon, <3>3, <3>4
  <2>8. \A p \in Operations, a \in Attempts :
          /\ sent'[p][a] <= 1
          /\ a > AttemptsOf(p)' => /\ sent'[p][a] = 0 /\ world'[p][a] = "open"
                                   /\ \A r \in receipts' : r.op # p \/ r.attempt # a
    <3>1. sent' = sent /\ world' = world /\ receipts' = receipts
      BY Zenon DEF Stores
    <3>. QED
      BY ZenonT(60), <2>4, <3>1 DEF SendersInv
  <2>9. \A d \in Calls : call'[d].pc = "send" => call'[d].op \in Operations
    BY <1>5, CallShape DEF TypeOK, Sending, Idle, Verifying, Swapping
  <2>. QED
    BY Zenon, <2>5, <2>7, <2>8, <2>9 DEF SendersInv, AttemptsOf
<1>. QED
    BY Zenon, <1>5, <1>6, <1>7, <1>8

\* prepare keeps the invariant: the operation has left no trace before it.
LEMMA PrepareKeeps ==
    ASSUME GatewayInv, NEW o \in Operations, NEW at \in Times, NEW expires \in Times,
           prepare(o, at, expires)
    PROVE  GatewayInv'
<1>. USE DEF GatewayInv
<1>. DEFINE r == initialRecord(at, expires)
<1>1. /\ r \in Records /\ r.attempts = 0 /\ r.version = 1 /\ r.expires = expires
      /\ r.requested = at /\ r.state = "prepared"
    BY Zenon DEF initialRecord, Records, States
<1>2. Sound(r) /\ r # None
    BY <1>1, GatewayBounds DEF prepare, Sound, None
<1>3. record'[o] = r /\ \A p \in Operations \ {o} : record'[p] = record[p]
    BY Zenon DEF prepare, TypeOK
<1>4. record[o] = None /\ record[o].version = 0
    BY DEF prepare, None
<1>5. TypeOK'
    BY Zenon, <1>1 DEF prepare, TypeOK
<1>6. RecordsInv'
    BY Zenon, <1>2, <1>3 DEF RecordsInv
<1>7. CallsInv'
  <2>1. \A c \in Calls : call[c].pc = "verify" => call[c].op \in Operations \ {o}
    BY Zenon, <1>4, CallShape, NoneBelowOne DEF CallsInv, Verifying
  <2>2. \A c \in Calls : call[c].pc = "swap" => call[c].op \in Operations \ {o}
    BY Zenon, <1>4, CallShape, NoneBelowOne DEF CallsInv, Swapping
  <2>3. call' = call
    BY Zenon DEF prepare
  <2>4. \A c \in Calls : call[c].pc \in {"verify", "swap"} =>
           record'[call[c].op] = record[call[c].op]
    BY Zenon, <1>3, <2>1, <2>2
  <2>. QED
    BY Zenon, <2>3, <2>4 DEF CallsInv
<1>8. SendersInv'
  <2>1. \A p \in Operations : AttemptsOf(p)' = AttemptsOf(p)
    BY Zenon, <1>1, <1>2, <1>3, <1>4 DEF AttemptsOf
  <2>2. \A c \in Calls : call[c].pc = "send" => call[c].op \in Operations
    BY Zenon, CallShape DEF Sending
  <2>3. \A c \in Calls : call[c].pc = "send" =>
          (call[c].attempt <= AttemptsOf(call[c].op))'
    BY <2>1, <2>2 DEF SendersInv, prepare, AttemptsOf
  <2>. QED
    BY SMTT(60), <2>1, <2>3 DEF SendersInv, prepare
<1>. QED
    BY Zenon, <1>5, <1>6, <1>7, <1>8

\* Handing over a receipt keeps the invariant.
LEMMA PresentKeeps ==
    ASSUME GatewayInv, NEW c \in Calls, NEW receipt \in receipts, NEW at \in Times,
           PresentReceipt(c, receipt, at)
    PROVE  GatewayInv'
<1>. USE DEF GatewayInv
<1>. DEFINE k == [pc |-> "verify", op |-> receipt.op, read |-> record[receipt.op],
                  receipt |-> receipt, at |-> at]
<1>1. receipt \in Receipts /\ receipt.op \in Operations
    BY Zenon DEF TypeOK, Receipts
<1>2. /\ record[receipt.op] \in Records
      /\ record[receipt.op].version \in Nat \ {0}
    BY Zenon, <1>1, StoredIsSound DEF PresentReceipt
<1>3. k \in Verifying
    BY Zenon, <1>1, <1>2 DEF Verifying
<1>4. call'[c] = k /\ \A d \in Calls \ {c} : call'[d] = call[d]
    BY Zenon DEF PresentReceipt, TypeOK
<1>5. TypeOK'
    BY Zenon, <1>3 DEF PresentReceipt, TypeOK
<1>6. RecordsInv'
    BY Zenon DEF PresentReceipt, RecordsInv
<1>7. CallsInv'
  <2>1. /\ call'[c].pc = "verify" /\ call'[c].op = receipt.op
        /\ call'[c].read = record[receipt.op]
    BY SMT, <1>4
  <2>2. record' = record
    BY Zenon DEF PresentReceipt
  <2>3. record[receipt.op].version \in 1 .. record[receipt.op].version
    BY Zenon, <1>2, LastOfRange
  <2>4. ASSUME NEW d \in Calls, d # c
        PROVE  /\ call'[d].pc = "verify" =>
                     /\ call'[d].read.version \in 1 .. record'[call'[d].op].version
                     /\ record'[call'[d].op].version = call'[d].read.version =>
                           record'[call'[d].op] = call'[d].read
               /\ call'[d].pc = "swap" =>
                     /\ call'[d].expected \in 1 .. record'[call'[d].op].version
                     /\ record'[call'[d].op].version = call'[d].expected =>
                           Change(record'[call'[d].op], call'[d].record)
    BY Zenon, <1>4, <2>2, <2>4 DEF CallsInv
  <2>. QED
    BY Zenon, <2>1, <2>2, <2>3, <2>4 DEF CallsInv
<1>8. SendersInv'
  <2>1. UNCHANGED <<record, sent, world, receipts>>
    BY Zenon DEF PresentReceipt
  <2>2. call'[c].pc # "send"
    BY SMT, <1>4
  <2>. QED
    BY Zenon, <1>4, <2>1, <2>2, NothingHandedOut
<1>. QED
    BY Zenon, <1>5, <1>6, <1>7, <1>8

\* Sending an attempt keeps the invariant: it leaves the only hands it was in.
LEMMA SendKeeps ==
    ASSUME GatewayInv, NEW c \in Calls, Send(c)
    PROVE  GatewayInv'
<1>. USE DEF GatewayInv
<1>1. PICK o, a : o = call[c].op /\ a = call[c].attempt
    BY Zenon
<1>2. o \in Operations /\ a \in Attempts /\ sent[o][a] = 0 /\ a <= AttemptsOf(o)
  <2>1. call[c] \in Sending
    BY Zenon, CallShape DEF Send
  <2>. QED
    BY Zenon, <1>1, <2>1 DEF Send, SendersInv, Sending
<1>3. call'[c] = Idle /\ \A d \in Calls \ {c} : call'[d] = call[d]
    BY Zenon DEF Send, TypeOK
<1>4. /\ sent'[o][a] = 1
      /\ \A p \in Operations, b \in Attempts : p # o \/ b # a => sent'[p][b] = sent[p][b]
  <2>1. sent \in [Operations -> [Attempts -> Nat]]
    BY Zenon DEF TypeOK
  <2>2. sent' = [sent EXCEPT ![o][a] = @ + 1]
    BY Zenon, <1>1 DEF Send
  <2>. QED
    BY SMT, <1>2, <2>1, <2>2
<1>5. TypeOK'
    BY <1>1, <1>2 DEF Send, TypeOK
<1>6. RecordsInv'
    BY Zenon DEF Send, RecordsInv
<1>7. CallsInv'
  <2>1. call'[c].pc \notin {"verify", "swap"} /\ record' = record
    BY Zenon, <1>3, IdleWaits DEF Send
  <2>. QED
    BY Zenon, <1>3, <2>1, LetsGo
<1>8. SendersInv'
  <2>1. \A d \in Calls \ {c} : call[d].pc = "send" =>
          /\ call[d].op \in Operations /\ call[d].attempt \in Attempts
          /\ call[d].op # o \/ call[d].attempt # a
    BY ZenonT(60), <1>1, CallShape DEF Send, SendersInv, Sending
  <2>2. \A p \in Operations : AttemptsOf(p)' = AttemptsOf(p)
    BY Zenon DEF Send, AttemptsOf
  <2>3. \A d \in Calls : call'[d].pc = "send" =>
          /\ d # c /\ call[d].pc = "send"
          /\ sent'[call'[d].op][call'[d].attempt] = 0
    <3>1. ASSUME NEW d \in Calls, call'[d].pc = "send"
          PROVE  d # c /\ call[d].pc = "send" /\ call'[d] = call[d]
      BY Zenon, <1>3, <3>1, IdleWaits
    <3>2. ASSUME NEW d \in Calls, call'[d].pc = "send"
          PROVE  sent'[call[d].op][call[d].attempt] = 0
      <4>1. sent[call[d].op][call[d].attempt] = 0
        BY Zenon, <3>1, <3>2 DEF SendersInv
      <4>. QED
        <5>1. /\ call[d].op \in Operations /\ call[d].attempt \in Attempts
              /\ call[d].op # o \/ call[d].attempt # a
          BY Zenon, <2>1, <3>1, <3>2
        <5>. QED
          BY Zenon, <1>4, <4>1, <5>1
    <3>. QED
      BY Zenon, <3>1, <3>2
  <2>4. \A d \in Calls : call'[d].pc = "send" => (call[d].attempt <= AttemptsOf(call[d].op))'
    <3>1. ASSUME NEW d \in Calls, call'[d].pc = "send"
          PROVE  /\ call'[d] = call[d] /\ call[d].op \in Operations
                 /\ call[d].attempt <= AttemptsOf(call[d].op)
      BY Zenon, <1>3, <2>1, <2>3, <3>1 DEF SendersInv
    <3>. QED
      BY ZenonT(60), <3>1 DEF Send, AttemptsOf
  <2>5. \A p \in Operations, b \in Attempts :
          /\ sent'[p][b] <= 1
          /\ b > AttemptsOf(p)' => sent'[p][b] = 0
    <3>1. a \in Nat /\ AttemptsOf(o) \in Nat
      BY Zenon, <1>2, AttemptsAreNat, StoredIsSound
    <3>2. ~(a > AttemptsOf(o))
      BY Zenon, <1>2, <3>1, AtMost
    <3>3. 1 <= 1
      BY SMT
    <3>4. ASSUME NEW p \in Operations, NEW b \in Attempts
          PROVE  /\ sent'[p][b] <= 1
                 /\ b > AttemptsOf(p)' => sent'[p][b] = 0
      <4>1. CASE p = o /\ b = a
        BY Zenon, <1>4, <2>2, <3>2, <3>3, <4>1
      <4>2. CASE p # o \/ b # a
        <5>1. sent'[p][b] = sent[p][b]
          BY Zenon, <1>4, <4>2
        <5>. QED
          BY Zenon, <2>2, <5>1 DEF SendersInv
      <4>. QED
        BY Zenon, <4>1, <4>2
    <3>. QED
      BY Zenon, <3>4
  <2>6. \A d \in Calls : call'[d].pc = "send" =>
          \A e \in Calls \ {d} : call'[e].pc = "send" =>
                call'[e].op # call'[d].op \/ call'[e].attempt # call'[d].attempt
    <3>1. ASSUME NEW d \in Calls, call'[d].pc = "send", NEW e \in Calls \ {d}, call'[e].pc = "send"
          PROVE  call'[e].op # call'[d].op \/ call'[e].attempt # call'[d].attempt
      <4>1. /\ call'[d] = call[d] /\ call'[e] = call[e]
            /\ call[d].pc = "send" /\ call[e].pc = "send"
        BY Zenon, <1>3, <2>3, <3>1
      <4>. QED
        BY Zenon, <3>1, <4>1, SendersApart
    <3>. QED
      BY Zenon, <3>1
  <2>7. \A p \in Operations, b \in Attempts : b > AttemptsOf(p)' =>
          world'[p][b] = "open" /\ \A r \in receipts' : r.op # p \/ r.attempt # b
    <3>1. world' = world /\ receipts' = receipts
      BY Zenon DEF Send
    <3>. QED
      <4>1. ASSUME NEW p \in Operations, NEW b \in Attempts, b > AttemptsOf(p)'
            PROVE  world[p][b] = "open" /\ \A r \in receipts : r.op # p \/ r.attempt # b
        <5>1. b > AttemptsOf(p)
          BY Zenon, <2>2, <4>1
        <5>. QED
          BY Zenon, <5>1, AttemptsAhead
      <4>. QED
        BY Zenon, <3>1, <4>1
  <2>8. \A p \in Operations, b \in Attempts :
          /\ sent'[p][b] <= 1
          /\ b > AttemptsOf(p)' => /\ sent'[p][b] = 0 /\ world'[p][b] = "open"
                                   /\ \A r \in receipts' : r.op # p \/ r.attempt # b
    BY Zenon, <2>5, <2>7
  <2>9. \A d \in Calls : call'[d].pc = "send" => sent'[call'[d].op][call'[d].attempt] = 0
    BY Zenon, <2>3
  <2>. QED
    BY ZenonT(60), <2>4, <2>6, <2>8, <2>9 DEF SendersInv
<1>. QED
    BY Zenon, <1>5, <1>6, <1>7, <1>8

\* The remote side decides only attempts that the record counts.
LEMMA RemoteKeeps ==
    ASSUME GatewayInv, NEW o \in Operations, NEW a \in Attempts, Remote(o, a)
    PROVE  /\ GatewayInv'
           /\ a <= AttemptsOf(o)
<1>. USE DEF GatewayInv
<1>1. ~(a > AttemptsOf(o))
  <2>1. a \in Nat /\ sent[o][a] \in Nat /\ AttemptsOf(o) \in Nat
    BY Zenon, AttemptsAreNat, StoredIsSound DEF TypeOK
  <2>2. CASE sent[o][a] > 0
    BY <2>1, <2>2 DEF SendersInv
  <2>3. CASE record[o] # None /\ a <= record[o].attempts
    BY <2>1, <2>3 DEF AttemptsOf
  <2>. QED
    BY Zenon, <2>2, <2>3 DEF Remote
<1>2. PICK verdict \in Verdicts : world' = [world EXCEPT ![o][a] = verdict]
    BY Zenon DEF Remote, Verdicts
<1>3. TypeOK'
    BY Zenon, <1>2 DEF Remote, TypeOK
<1>4. RecordsInv'
    BY Zenon DEF Remote, RecordsInv
<1>5. CallsInv'
    BY Zenon DEF Remote, CallsInv
<1>6. SendersInv'
  <2>1. \A p \in Operations, b \in Attempts : b > AttemptsOf(p) => world'[p][b] = world[p][b]
    BY Zenon, <1>1, <1>2 DEF TypeOK
  <2>. QED
    <3>1. UNCHANGED <<record, call, sent, receipts>>
      BY Zenon DEF Remote
    <3>2. \A p : AttemptsOf(p)' = AttemptsOf(p)
      BY Zenon, <3>1 DEF AttemptsOf
    <3>3. \A d \in Calls : call'[d].pc = "send" => (call[d].attempt <= AttemptsOf(call[d].op))'
      BY Zenon, <3>1 DEF SendersInv, AttemptsOf
    <3>4. \A p \in Operations, b \in Attempts :
            /\ sent'[p][b] <= 1
            /\ b > AttemptsOf(p)' => /\ sent'[p][b] = 0 /\ world'[p][b] = "open"
                                     /\ \A r \in receipts' : r.op # p \/ r.attempt # b
      <4>1. ASSUME NEW p \in Operations, NEW b \in Attempts
            PROVE  /\ sent[p][b] <= 1
                   /\ b > AttemptsOf(p) => /\ sent[p][b] = 0 /\ world'[p][b] = "open"
                                           /\ \A r \in receipts : r.op # p \/ r.attempt # b
        <5>1. sent[p][b] <= 1
          BY Zenon, AttemptsAhead
        <5>2. ASSUME b > AttemptsOf(p)
              PROVE  /\ sent[p][b] = 0 /\ world[p][b] = "open"
                     /\ \A r \in receipts : r.op # p \/ r.attempt # b
          BY Zenon, <5>2, AttemptsAhead
        <5>. QED
          BY Zenon, <2>1, <5>1, <5>2
      <4>. QED
        BY Zenon, <3>1, <3>2, <4>1
    <3>. QED
      BY ZenonT(60), <3>1, <3>3, <3>4 DEF SendersInv
<1>7. a <= AttemptsOf(o)
    BY Zenon, <1>1, AttemptsAreNat, StoredIsSound, AtMost
<1>. QED
    BY Zenon, <1>3, <1>4, <1>5, <1>6, <1>7

\* Issuing a receipt keeps the invariant.
LEMMA IssueKeeps ==
    ASSUME GatewayInv, NEW o \in Operations, NEW a \in Attempts, NEW at \in Times,
           IssueReceipt(o, a, at)
    PROVE  GatewayInv'
<1>. USE DEF GatewayInv
<1>. DEFINE r == [op |-> o, attempt |-> a, status |-> world[o][a], received |-> at]
<1>1. r \in Receipts
    BY Zenon DEF Receipts, IssueReceipt, TypeOK
<1>2. TypeOK'
    BY Zenon, <1>1 DEF IssueReceipt, TypeOK
<1>3. RecordsInv'
    BY Zenon DEF IssueReceipt, RecordsInv
<1>4. CallsInv'
    BY Zenon DEF IssueReceipt, CallsInv
<1>5. SendersInv'
  <2>1. UNCHANGED <<record, call, sent, world>> /\ receipts' = receipts \cup {r}
        /\ world[o][a] # "open"
    BY Zenon DEF IssueReceipt
  <2>2. \A p : AttemptsOf(p)' = AttemptsOf(p)
    BY Zenon, <2>1 DEF AttemptsOf
  <2>3. r.op = o /\ r.attempt = a
    BY SMT
  <2>4. ASSUME NEW p \in Operations, NEW b \in Attempts, b > AttemptsOf(p)
        PROVE  \A q \in receipts' : q.op # p \/ q.attempt # b
    <3>. HIDE DEF r
    <3>1. world[p][b] = "open" /\ \A q \in receipts : q.op # p \/ q.attempt # b
      BY Zenon, <2>4, AttemptsAhead
    <3>2. r.op # p \/ r.attempt # b
      BY Zenon, <2>1, <2>3, <3>1
    <3>. QED
      BY Zenon, <2>1, <3>1, <3>2
  <2>. HIDE DEF r
  <2>. QED
    BY ZenonT(60), <2>1, <2>2, <2>4 DEF SendersInv
<1>. QED
    BY Zenon, <1>2, <1>3, <1>4, <1>5

\* A restart keeps the invariant: what was in somebody's hands is never sent.
LEMMA RestartKeeps ==
    ASSUME GatewayInv, Restart
    PROVE  GatewayInv'
<1>. USE DEF GatewayInv
<1>1. \A c \in Calls : call'[c] = Idle
    BY Zenon DEF Restart
<1>2. TypeOK' /\ RecordsInv'
    BY Zenon DEF Restart, TypeOK, RecordsInv
<1>3. CallsInv' /\ SendersInv'
  <2>1. \A c \in Calls : call'[c].pc = "idle"
    BY Zenon, <1>1, IdleWaits
  <2>2. UNCHANGED <<record, sent, world, receipts>>
    BY Zenon DEF Restart
  <2>. QED
    BY Zenon, <2>1, <2>2, LetsGo, NothingHandedOut
<1>. QED
    BY Zenon, <1>2, <1>3

\* A swap is stored, with or without the caller learning of it, or it is not.
LEMMA SwapStores ==
    ASSUME NEW c \in Calls, compareAndSwap(c) \/ StoreUnavailable(c)
    PROVE  Ends(c) \/ \E then \in {Idle, AfterSwap(c, call[c])} : Stores(c, then)
    BY Zenon DEF compareAndSwap, StoreUnavailable, Answer, Ends, Stores

\* Every step keeps the inductive invariant.
LEMMA GatewayInvStep ==
    ASSUME GatewayInv, [Next]_vars
    PROVE  GatewayInv'
<1>1. ASSUME NEW c \in Calls, compareAndSwap(c) \/ StoreUnavailable(c) PROVE GatewayInv'
    BY Zenon, <1>1, SwapStores, EndsKeeps, StoresKeeps
<1>2. ASSUME NEW c \in Calls, ReceiptVerified(c) PROVE GatewayInv'
    BY Zenon, <1>2, VerifiedAsks, EndsKeeps, AsksKeeps
<1>3. ASSUME NEW c \in Calls, ReceiptRefused(c) PROVE GatewayInv'
    BY Zenon, <1>3, EndsKeeps DEF ReceiptRefused, Answer, Ends
<1>4. ASSUME NEW c \in Calls, NEW o \in Operations, NEW at \in Times, Method(c, o, at)
      PROVE  GatewayInv'
    BY Zenon, <1>4, MethodAsks, AsksKeeps
<1>5. ASSUME UNCHANGED vars PROVE GatewayInv'
    BY ZenonT(60), <1>5 DEF vars, GatewayInv, TypeOK, RecordsInv, CallsInv, SendersInv, AttemptsOf
<1>. QED
    BY Zenon, <1>1, <1>2, <1>3, <1>4, <1>5, PrepareKeeps, PresentKeeps, SendKeeps, RemoteKeeps,
       IssueKeeps, RestartKeeps DEF Next

-----------------------------------------------------------------------------

\* The coordinator, its callers and the transport keep GatewayInv, whatever the interleaving
\* of reads, awaited verifiers, swaps, lost answers of the store and restarts.
THEOREM GatewayInvariant == Spec => []GatewayInv
<1>1. Init => GatewayInv
  <2>. SUFFICES ASSUME Init PROVE GatewayInv
    BY Zenon
  <2>1. TypeOK
    BY Zenon DEF Init, TypeOK
  <2>2. RecordsInv /\ CallsInv
    BY Zenon DEF Init, RecordsInv, CallsInv, Idle
  <2>3. SendersInv
    BY DEF Init, SendersInv, Idle
  <2>. QED
    BY Zenon, <2>1, <2>2, <2>3 DEF GatewayInv
<1>2. GatewayInv /\ [Next]_vars => GatewayInv'
    BY Zenon, GatewayInvStep
<1>. QED
    BY <1>1, <1>2, PTL DEF Spec

\* beginDispatch hands an attempt number to one caller, and it is sent once at most,
\* whatever the store loses and however often the gateway restarts.
THEOREM AttemptsSentOnce == Spec => []OneSenderPerAttempt
<1>1. ASSUME GatewayInv, NEW o \in Operations, NEW a \in Attempts
      PROVE  sent[o][a] + Cardinality({c \in Calls :
                 call[c].pc = "send" /\ call[c].op = o /\ call[c].attempt = a}) <= 1
  <2>. DEFINE senders == {c \in Calls :
                 call[c].pc = "send" /\ call[c].op = o /\ call[c].attempt = a}
  <2>1. sent[o][a] \in Nat /\ sent[o][a] <= 1
    BY <1>1 DEF GatewayInv, TypeOK, SendersInv
  <2>2. CASE senders = {}
    <3>1. Cardinality(senders) = 0
      BY Zenon, <2>2, FS_EmptySet
    <3>. QED
      BY <2>1, <3>1
  <2>3. ASSUME NEW c \in senders
        PROVE  sent[o][a] = 0 /\ senders = {c}
    BY <1>1 DEF GatewayInv, SendersInv
  <2>4. CASE senders # {}
    <3>1. PICK c : c \in senders
      BY Zenon, <2>4
    <3>2. Cardinality(senders) = 1
      BY ZenonT(60), <2>3, <3>1, FS_Singleton
    <3>. QED
      BY <2>3, <3>1, <3>2
  <2>. QED
    BY Zenon, <2>2, <2>4
<1>2. GatewayInv => OneSenderPerAttempt
    BY Zenon, <1>1 DEF OneSenderPerAttempt
<1>. QED
    BY <1>2, GatewayInvariant, PTL

\* An attempt that was sent is one that the stored record counts: the swap of
\* beginDispatch comes before the transport.
THEOREM SendsAreRecorded == Spec => []SentIsRecorded
<1>1. ASSUME GatewayInv, NEW o \in Operations, NEW a \in Attempts, sent[o][a] > 0
      PROVE  record[o] # None /\ a <= record[o].attempts
  <2>1. a \in Nat \ {0} /\ AttemptsOf(o) \in Nat
    BY <1>1, GatewayBounds, StoredIsSound DEF Attempts
  <2>2. ~(a > AttemptsOf(o))
    BY <1>1 DEF GatewayInv, SendersInv
  <2>. QED
    BY <1>1, <2>1, <2>2, StoredIsSound
<1>2. GatewayInv => SentIsRecorded
    BY Zenon, <1>1 DEF SentIsRecorded
<1>. QED
    BY <1>2, GatewayInvariant, PTL

\* nextRecord's change is valid when the table of transitions allows it.
LEMMA NextIsValid ==
    ASSUME NEW r, Sound(r), NEW at \in Times, at >= r.last, NEW s,
           NEW target \in States \ {"completed", "failed"}, target \in allowedFrom(r.state),
           \/ s = nextRecord(r, target, at)
           \/ s = [nextRecord(r, target, at) EXCEPT !.attempts = @ + 1]
    PROVE  isValidOperationRecord(r, s)
<1>1. PICK t : t = nextRecord(r, target, at)
    BY Zenon
<1>2. /\ t \in Records /\ t.state = target /\ t.requested = r.requested /\ t.expires = r.expires
      /\ t.last = at
  <2>1. t \in Records /\ t.state = target /\ t.requested = r.requested /\ t.expires = r.expires
    BY <1>1, NextRecordFields DEF Sound
  <2>2. t.last = at
    BY Zenon, <1>1 DEF nextRecord, Sound, Records
  <2>. QED
    BY Zenon, <2>1, <2>2
<1>3. s.state = target /\ s.requested = r.requested /\ s.expires = r.expires /\ s.last = at
    BY Zenon, <1>1, <1>2 DEF Records
<1>. QED
    BY Zenon, <1>3 DEF isValidOperationRecord, isAllowedTransition, Sound

\* nextRecord's change is not valid when the table has no such step.
LEMMA NextIsInvalid ==
    ASSUME NEW r, Sound(r), NEW at, NEW target, target \notin allowedFrom(r.state)
    PROVE  ~isValidOperationRecord(r, nextRecord(r, target, at))
<1>1. nextRecord(r, target, at).state = target
    BY Zenon DEF nextRecord, Sound, Records
<1>. QED
    BY Zenon, <1>1 DEF isValidOperationRecord, isAllowedTransition

\* The change that a receipt makes is a lawful one.
LEMMA ReceiptIsLawful ==
    ASSUME NEW r, Sound(r), NEW at \in Times, at >= r.last, NEW receipt,
           withReceipt(r, receipt, at).code = "none"
    PROVE  isValidOperationRecord(r, withReceipt(r, receipt, at).record)
<1>. DEFINE target == CASE receipt.status = "completed" -> "completed"
                         [] receipt.status = "application_error" -> "failed"
                         [] OTHER -> IF r.expires > at THEN "authorized" ELSE "expired"
            s == [nextRecord(r, target, at) EXCEPT !.receipt = receipt]
<1>1. r.state \in Open \cup Doubtful /\ withReceipt(r, receipt, at).record = s
    BY Zenon DEF withReceipt, failure, changed
<1>2. /\ target \in {"completed", "failed", "authorized", "expired"}
      /\ target = "completed" => receipt.status = "completed"
      /\ target = "failed" => receipt.status = "application_error"
    BY Zenon
<1>3. /\ s.state = target /\ s.requested = r.requested /\ s.expires = r.expires
      /\ s.last = at /\ s.receipt = receipt
    BY Zenon DEF nextRecord, Sound, Records
<1>. HIDE DEF s, target
<1>4. target \in allowedFrom(r.state)
    BY Zenon, <1>1, <1>2 DEF allowedFrom, Open, Doubtful, Final
<1>. QED
    BY Zenon, <1>1, <1>2, <1>3, <1>4 DEF isValidOperationRecord, isAllowedTransition, Sound

\* Whatever record the store holds, a method that does not fail makes a change of it that
\* isValidOperationRecord accepts, so that no method reports a store that failed integrity
\* validation; markOrphaned on an orphaned operation is the one exception, and always is.
THEOREM ChangesAreLawful == Spec => []IntegrityHolds
<1>1. ASSUME NEW r, Sound(r), NEW presented, NEW at \in Times, at >= r.last,
             NEW outcome \in outcomes(r, presented, at), outcome.code = "none",
             ~(r.state = "orphaned" /\ outcome = markOrphaned(r, at))
      PROVE  isValidOperationRecord(r, outcome.record)
  <2>. USE DEF Open, Doubtful, Final, Freed, States, allowedFrom, failure, changed
  <2>0. r.state \in States
    BY Zenon, <1>1 DEF Sound, Records
  <2>1. CASE outcome = authorize(r, at)
    BY Zenon, <1>1, <2>0, <2>1, NextIsValid DEF authorize, transition
  <2>2. CASE outcome = beginDispatch(r, at)
    BY <1>1, <2>0, <2>2, NextIsValid DEF beginDispatch
  <2>3. CASE outcome = markTransportFailure(r, at)
    BY Zenon, <1>1, <2>0, <2>3, NextIsValid DEF markTransportFailure, transition
  <2>4. CASE outcome = requestCancellation(r, at)
    BY Zenon, <1>1, <2>0, <2>4, NextIsValid DEF requestCancellation, transition
  <2>5. CASE outcome = beginReconciliation(r, at)
    BY Zenon, <1>1, <2>0, <2>5, NextIsValid DEF beginReconciliation, transition
  <2>6. CASE outcome = retryExact(r, TRUE, at)
    BY Zenon, <1>1, <2>0, <2>6, NextIsValid DEF retryExact
  <2>7. CASE outcome = recoverAfterRestart(r, at)
    BY Zenon, <1>1, <2>0, <2>7, NextIsValid DEF recoverAfterRestart
  <2>8. CASE outcome = markOrphaned(r, at)
    BY SMTT(60), <1>1, <2>0, <2>8, NextIsValid DEF markOrphaned
  <2>9. ASSUME NEW remote \in remoteStates, outcome = observeRemoteState(r, TRUE, remote, at)
        PROVE  isValidOperationRecord(r, outcome.record)
    <3>1. PICK target \in {"accepted", "working", "input_required", "outcome_unknown"} :
            outcome = transition(r, target, at, Open \cup {"cancel_requested", "reconciling"})
      BY Zenon, <2>9 DEF observeRemoteState, remoteStates
    <3>2. /\ r.state \in Open \cup {"cancel_requested", "reconciling"}
          /\ outcome.record = nextRecord(r, target, at)
      BY Zenon, <1>1, <3>1 DEF transition
    <3>. QED
      BY Zenon, <1>1, <3>2, NextIsValid
  <2>10. ASSUME NEW receipt \in presented, outcome = withReceipt(r, receipt, at)
         PROVE  isValidOperationRecord(r, outcome.record)
    BY Zenon, <1>1, <2>10, ReceiptIsLawful
  <2>. QED
    BY Zenon, <1>1, <2>1, <2>2, <2>3, <2>4, <2>5, <2>6, <2>7, <2>8, <2>9, <2>10 DEF outcomes
<1>2. ASSUME NEW r, Sound(r), NEW at \in Times, r.state = "orphaned",
             markOrphaned(r, at).code = "none"
      PROVE  ~isValidOperationRecord(r, markOrphaned(r, at).record)
  <2>1. markOrphaned(r, at).record = nextRecord(r, "orphaned", at)
    BY Zenon, <1>2 DEF markOrphaned, failure, changed
  <2>2. "orphaned" \notin allowedFrom(r.state)
    BY Zenon, <1>2 DEF allowedFrom, Open
  <2>. QED
    BY Zenon, <1>2, <2>1, <2>2, NextIsInvalid
<1>3. GatewayInv => IntegrityHolds
    BY Zenon, <1>1, <1>2, StoredIsSound DEF IntegrityHolds
<1>. QED
    BY <1>3, GatewayInvariant, PTL

================================================================================
