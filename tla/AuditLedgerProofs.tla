--------------------------- MODULE AuditLedgerProofs ---------------------------
(***************************************************************************)
(* What the audit writer's answers say of the ledger, for any keys,        *)
(* digests, callers and number of calls.  A row is tied to the call that   *)
(* wrote it by the call's number; a transaction that is not committed      *)
(* belongs to a call that is still in progress.                            *)
(***************************************************************************)
EXTENDS AuditLedger, TLAPS

Rows == [key : Keys, digest : Digests, call : Nat]

Writes == {"performed", "not_performed", "indeterminate"}
Codes == {"refused", "executor_failed", "idempotency_collision", "appended", "exact_replay"}

Answers == [call : Nat, request : Requests,
            result : [ok : BOOLEAN, code : Codes, write : Writes]]

\* A call before its grant, one that has its grant and has asked the database
\* for nothing, and one that has asked for its insert.
Early == [pc : {"checks", "digest", "authorization"}, request : Requests,
          number : Nat, attempted : {FALSE}]
Granted == [pc : {"executor"}, request : Requests, number : Nat,
            attempted : {FALSE}, granted : Requests]
Attempted == [pc : {"insert", "select", "appended", "exact_replay"}, request : Requests,
              number : Nat, attempted : {TRUE}, granted : Requests]

TypeOK ==
    /\ ledger \subseteq Rows
    /\ held \subseteq Rows
    /\ answers \subseteq Answers
    /\ calls \in Nat
    /\ call \in [Callers -> {Idle} \cup Early \cup Granted \cup Attempted]

Active(c) == call[c].pc # "idle"

\* A number belongs to one call: in progress, or answered.
NumbersInv ==
    /\ \A c \in Callers : Active(c) =>
          /\ call[c].number <= calls
          /\ \A d \in Callers \ {c} : Active(d) => call[d].number # call[c].number
          /\ \A a \in answers : a.call # call[c].number
          /\ \A row \in ledger : row.call # call[c].number
    /\ \A a \in answers : a.call <= calls
    /\ \A row \in ledger \cup held : row.call <= calls

\* The rows that wait for their commit are those of the calls that appended.
HeldInv ==
    /\ \A h \in held : \E c \in Callers : call[c].pc = "appended" /\ h = Row(c)
    /\ \A c \in Callers : call[c].pc = "appended" => Row(c) \in held
    /\ \A row, other \in ledger \cup held : row.key = other.key => row = other

\* A call past its grant has the grant for its own request, and one that
\* replays has found the row it replays.
CallsInv ==
    \A c \in Callers :
        /\ call[c].pc \in {"executor", "insert", "select", "appended", "exact_replay"} =>
              call[c].granted = call[c].request
        /\ call[c].pc = "exact_replay" =>
              \E row \in ledger : /\ row.key = call[c].request.key
                                  /\ row.digest = call[c].request.digest

\* What an answer says of the ledger.
Accounted(a) ==
    /\ a.result.write = "performed" <=> a.result.code = "appended"
    /\ a.result.code = "appended" =>
          \E row \in ledger : row.call = a.call /\ row.key = a.request.key
    /\ a.result.write = "not_performed" => \A row \in ledger : row.call # a.call
    /\ a.result.code = "exact_replay" =>
          \E row \in ledger : /\ row.key = a.request.key /\ row.call # a.call
                              /\ row.digest = a.request.digest
    /\ a.result.code = "idempotency_collision" =>
          \E row \in ledger : /\ row.key = a.request.key /\ row.call # a.call
                              /\ row.digest # a.request.digest

AnswersInv == \A a \in answers : Accounted(a)

\* The inductive invariant of the audit writer.
LedgerInv == TypeOK /\ NumbersInv /\ HeldInv /\ CallsInv /\ AnswersInv

--------------------------------------------------------------------------------
(***************************************************************************)
(* The moves of the writer: whatever the verifiers and the executor do, a  *)
(* step of a call is one of four.                                          *)
(***************************************************************************)
Results == [ok : BOOLEAN, code : Codes, write : Writes]

\* A call begins with a number of its own.
Starts(c, r) ==
    /\ ~Active(c)
    /\ call' = [call EXCEPT ![c] = [pc |-> "checks", request |-> r,
                                    number |-> calls + 1, attempted |-> FALSE]]
    /\ calls' = calls + 1
    /\ UNCHANGED <<ledger, held, answers>>

\* A call gets further; the ledger is only read.
Passes(c, state) ==
    /\ Active(c)
    /\ call[c].pc # "appended"
    /\ state \in Early \cup Granted \cup Attempted
    /\ state.request = call[c].request /\ state.number = call[c].number
    /\ state.pc # "appended"
    /\ state.pc \in {"executor", "insert", "select", "exact_replay"} => state.granted = state.request
    /\ state.pc = "exact_replay" => \E row \in ledger : /\ row.key = state.request.key
                                                        /\ row.digest = state.request.digest
    /\ call' = [call EXCEPT ![c] = state]
    /\ UNCHANGED <<ledger, held, answers, calls>>

\* A call puts its row in a transaction of its own, under a key that is free.
Appends(c, state) ==
    /\ call[c].pc = "insert"
    /\ ~\E row \in ledger \cup held : row.key = call[c].request.key
    /\ state \in Attempted /\ state.pc = "appended"
    /\ state.request = call[c].request /\ state.number = call[c].number
    /\ state.granted = state.request
    /\ call' = [call EXCEPT ![c] = state]
    /\ held' = held \cup {Row(c)}
    /\ UNCHANGED <<ledger, answers, calls>>

\* A call is answered, and its row is committed or rolled back.
Settles(c, result, rows) ==
    /\ Active(c)
    /\ rows \in {{}, held \cap {Row(c)}}
    /\ result \in Results
    /\ ledger' = ledger \cup rows
    /\ held' = held \ {Row(c)}
    /\ Answer(c, result)
    /\ UNCHANGED calls

\* What the answer of a settled call says is so.
Truthful(c, result, rows) ==
    /\ result.write = "performed" <=> result.code = "appended"
    /\ result.code = "appended" => rows = {Row(c)}
    /\ result.write = "not_performed" => rows = {}
    /\ result.code = "exact_replay" =>
          \E row \in ledger : row.key = Row(c).key /\ row.digest = Row(c).digest
    /\ result.code = "idempotency_collision" =>
          \E row \in ledger : row.key = Row(c).key /\ row.digest # Row(c).digest

\* A step of the writer.
WriterStep ==
    \/ UNCHANGED vars
    \/ \E c \in Callers, r \in Requests : Starts(c, r)
    \/ \E c \in Callers : \E state \in Early \cup Granted \cup Attempted :
          Passes(c, state) \/ Appends(c, state)
    \/ \E c \in Callers, result \in Results :
          \E rows \in SUBSET held : Settles(c, result, rows) /\ Truthful(c, result, rows)

\* Where a call is determines which fields it has.
LEMMA CallShape ==
    ASSUME TypeOK, NEW c \in Callers
    PROVE  /\ ~Active(c) => call[c] = Idle
           /\ Active(c) => /\ call[c].request \in Requests
                           /\ call[c].number \in Nat
                           /\ Row(c) \in Rows
           /\ call[c].pc \in {"checks", "digest", "authorization"} => call[c] \in Early
           /\ call[c].pc = "executor" => call[c] \in Granted
           /\ call[c].pc \in {"insert", "select", "appended", "exact_replay"} =>
                 call[c] \in Attempted
<1>1. call[c] \in {Idle} \cup Early \cup Granted \cup Attempted
    BY Zenon DEF TypeOK
<1>2. CASE call[c] = Idle
    BY <1>2 DEF Idle, Active
<1>3. CASE call[c] \in Early
    BY Zenon, <1>3 DEF Early, Active, Row, Rows, Requests
<1>4. CASE call[c] \in Granted
    BY Zenon, <1>4 DEF Granted, Active, Row, Rows, Requests
<1>5. CASE call[c] \in Attempted
    BY Zenon, <1>5 DEF Attempted, Active, Row, Rows, Requests
<1>. QED
    BY Zenon, <1>1, <1>2, <1>3, <1>4, <1>5

\* Only a call that appended has a row that waits for a commit: numbers tell
\* the rows of overlapping calls apart.
LEMMA NotHeld ==
    ASSUME TypeOK, NumbersInv, HeldInv, NEW c \in Callers, Active(c), call[c].pc # "appended"
    PROVE  Row(c) \notin held
<1>1. ASSUME NEW d \in Callers, call[d].pc = "appended" PROVE Row(c) # Row(d)
    BY Zenon, <1>1 DEF NumbersInv, Active, Row
<1>. QED
    BY Zenon, <1>1 DEF HeldInv

--------------------------------------------------------------------------------
\* An executor that fails leaves no row, and the answer does not deny one that
\* was asked for.
LEMMA FailureSettles ==
    ASSUME LedgerInv, NEW c \in Callers, Active(c), NEW code \in {"refused", "executor_failed"},
           NEW attempted \in BOOLEAN, Answer(c, failure(code, attempted)),
           ledger' = ledger, held' = held \ {Row(c)}, calls' = calls
    PROVE  WriterStep
<1>1. failure(code, attempted) \in Results
    BY Zenon DEF failure, Results, Codes, Writes
<1>2. Settles(c, failure(code, attempted), {})
    BY Zenon, <1>1 DEF Settles
<1>3. Truthful(c, failure(code, attempted), {})
    BY Zenon DEF Truthful, failure
<1>. QED
    BY Zenon, <1>1, <1>2, <1>3 DEF WriterStep

\* A refusal before the insert, or after a read that found no row.
LEMMA RefusalSettles ==
    ASSUME LedgerInv, NEW c \in Callers, Active(c), call[c].pc # "appended",
           NEW code \in {"refused", "executor_failed"},
           NEW attempted \in BOOLEAN, Answer(c, failure(code, attempted)),
           UNCHANGED <<ledger, held, calls>>
    PROVE  WriterStep
<1>1. held' = held \ {Row(c)}
    BY Zenon, NotHeld DEF LedgerInv
<1>. QED
    BY Zenon, <1>1, FailureSettles

\* A commit, reported or not: the row is in the ledger, and an answer that
\* claims it is only given by the call that wrote it.
LEMMA CommitSettles ==
    ASSUME LedgerInv, NEW c \in Callers, call[c].pc \in {"appended", "exact_replay"},
           NEW result \in {success(call[c].pc), failure("executor_failed", TRUE)},
           Answer(c, result), ledger' = ledger \cup (held \cap {Row(c)}),
           held' = held \ {Row(c)}, calls' = calls
    PROVE  WriterStep
<1>. DEFINE rows == held \cap {Row(c)}
<1>1. Active(c)
    BY Zenon DEF Active
<1>2. result \in Results
  <2>1. \A outcome \in {"appended", "exact_replay"} : success(outcome) \in Results
    BY Zenon DEF success, Results, Codes, Writes
  <2>2. failure("executor_failed", TRUE) \in Results
    BY Zenon DEF failure, Results, Codes, Writes
  <2>. QED
    BY Zenon, <2>1, <2>2
<1>3. Settles(c, result, rows)
    BY Zenon, <1>1, <1>2 DEF Settles
<1>4. rows = IF call[c].pc = "appended" THEN {Row(c)} ELSE {}
    BY Zenon, <1>1, NotHeld DEF LedgerInv, HeldInv
<1>5. call[c].pc = "exact_replay" =>
        \E row \in ledger : row.key = Row(c).key /\ row.digest = Row(c).digest
    BY Zenon DEF LedgerInv, CallsInv, Row
<1>6. Truthful(c, result, rows)
    BY <1>4, <1>5 DEF Truthful, success, failure
<1>. QED
    BY Zenon, <1>2, <1>3, <1>6 DEF WriterStep

\* Every step of every call is one of the moves, with an answer that is so.
LEMMA WriterSteps ==
    ASSUME LedgerInv, [Next]_vars
    PROVE  WriterStep
<1>. USE DEF LedgerInv
<1>1. ASSUME NEW c \in Callers, NEW r \in Requests, Begin(c, r) PROVE WriterStep
  <2>1. Starts(c, r)
    BY <1>1 DEF Begin, Starts, Active, Idle
  <2>. QED
    BY Zenon, <2>1 DEF WriterStep
<1>2. ASSUME NEW c \in Callers, Checks(c) PROVE WriterStep
  <2>1. Active(c) /\ call[c].pc # "appended" /\ call[c] \in Early
    BY Zenon, <1>2, CallShape DEF Checks, Active
  <2>2. CASE Answer(c, failure("refused", FALSE))
    BY Zenon, <1>2, <2>1, <2>2, RefusalSettles DEF Checks
  <2>3. CASE call' = [call EXCEPT ![c].pc = "digest"] /\ UNCHANGED answers
    <3>. DEFINE state == [call[c] EXCEPT !.pc = "digest"]
    <3>1. state \in Early /\ state.request = call[c].request /\ state.number = call[c].number
          /\ state.pc = "digest"
      BY Zenon, <2>1 DEF Early
    <3>2. Passes(c, state)
      BY Zenon, <1>2, <2>1, <2>3, <3>1 DEF Checks, Passes
    <3>. QED
      BY Zenon, <3>1, <3>2 DEF WriterStep
  <2>. QED
    BY Zenon, <1>2, <2>2, <2>3 DEF Checks
<1>3. ASSUME NEW c \in Callers, VerifyDigest(c) PROVE WriterStep
  <2>1. Active(c) /\ call[c].pc # "appended" /\ call[c] \in Early
    BY Zenon, <1>3, CallShape DEF VerifyDigest, Active
  <2>2. CASE Answer(c, failure("refused", FALSE))
    BY Zenon, <1>3, <2>1, <2>2, RefusalSettles DEF VerifyDigest
  <2>3. CASE call' = [call EXCEPT ![c].pc = "authorization"] /\ UNCHANGED answers
    <3>. DEFINE state == [call[c] EXCEPT !.pc = "authorization"]
    <3>1. state \in Early /\ state.request = call[c].request /\ state.number = call[c].number
          /\ state.pc = "authorization"
      BY Zenon, <2>1 DEF Early
    <3>2. Passes(c, state)
      BY Zenon, <1>3, <2>1, <2>3, <3>1 DEF VerifyDigest, Passes
    <3>. QED
      BY Zenon, <3>1, <3>2 DEF WriterStep
  <2>. QED
    BY Zenon, <1>3, <2>2, <2>3 DEF VerifyDigest
<1>4. ASSUME NEW c \in Callers, VerifyAuthorization(c) PROVE WriterStep
  <2>1. Active(c) /\ call[c].pc # "appended" /\ call[c] \in Early
    BY Zenon, <1>4, CallShape DEF VerifyAuthorization, Active
  <2>2. CASE Answer(c, failure("refused", FALSE))
    BY Zenon, <1>4, <2>1, <2>2, RefusalSettles DEF VerifyAuthorization
  <2>3. ASSUME NEW granted \in Requests, verifiedGrantMatches(c, granted), UNCHANGED answers,
               call' = [call EXCEPT ![c] = [pc |-> "executor", request |-> @.request,
                          number |-> @.number, attempted |-> FALSE, granted |-> granted]]
        PROVE  WriterStep
    <3>. DEFINE state == [pc |-> "executor", request |-> call[c].request,
                          number |-> call[c].number, attempted |-> FALSE, granted |-> granted]
    <3>1. state \in Granted
      BY Zenon, <2>1, CallShape DEF Granted
    <3>2. call' = [call EXCEPT ![c] = state]
      BY Zenon, <2>3
    <3>3. Passes(c, state)
      BY Zenon, <1>4, <2>1, <2>3, <3>1, <3>2 DEF VerifyAuthorization, Passes, verifiedGrantMatches
    <3>. QED
      BY Zenon, <3>1, <3>3 DEF WriterStep
  <2>. QED
    BY Zenon, <1>4, <2>2, <2>3 DEF VerifyAuthorization
<1>5. ASSUME NEW c \in Callers, Insert(c) PROVE WriterStep
  <2>1. Active(c) /\ call[c].pc # "appended" /\ call[c] \in Attempted
        /\ call[c].granted = call[c].request
    BY Zenon, <1>5, CallShape DEF Insert, Active, CallsInv
  <2>2. CASE \E e \in ledger : e.key = call[c].request.key
    <3>. DEFINE state == [call[c] EXCEPT !.pc = "select"]
    <3>1. /\ state \in Attempted /\ state.pc = "select" /\ state.granted = state.request
          /\ state.request = call[c].request /\ state.number = call[c].number
      BY Zenon, <2>1 DEF Attempted
    <3>2. call' = [call EXCEPT ![c] = state]
      BY Zenon, <1>5, <2>2 DEF Insert
    <3>3. Passes(c, state)
      BY Zenon, <1>5, <2>1, <2>2, <3>1, <3>2 DEF Insert, Passes
    <3>. QED
      BY Zenon, <3>1, <3>3 DEF WriterStep
  <2>3. CASE ~\E e \in ledger : e.key = call[c].request.key
    <3>. DEFINE state == [call[c] EXCEPT !.pc = "appended"]
    <3>1. /\ state \in Attempted /\ state.pc = "appended" /\ state.granted = state.request
          /\ state.request = call[c].request /\ state.number = call[c].number
      BY Zenon, <2>1 DEF Attempted
    <3>2. call' = [call EXCEPT ![c] = state]
      BY Zenon, <1>5, <2>3 DEF Insert
    <3>3. Appends(c, state)
      BY Zenon, <1>5, <2>1, <2>3, <3>1, <3>2 DEF Insert, Appends
    <3>. QED
      BY Zenon, <3>1, <3>3 DEF WriterStep
  <2>. QED
    BY Zenon, <2>2, <2>3
<1>6. ASSUME NEW c \in Callers, Select(c) PROVE WriterStep
  <2>1. Active(c) /\ call[c].pc # "appended" /\ call[c] \in Attempted
        /\ call[c].granted = call[c].request
    BY Zenon, <1>6, CallShape DEF Select, Active, CallsInv
  <2>2. CASE Answer(c, failure("executor_failed", TRUE))
    BY Zenon, <1>6, <2>1, <2>2, RefusalSettles DEF Select
  <2>3. ASSUME NEW row \in ledger, row.key = call[c].request.key, isExactReplay(c, row),
               call' = [call EXCEPT ![c].pc = "exact_replay"], UNCHANGED answers
        PROVE  WriterStep
    <3>. DEFINE state == [call[c] EXCEPT !.pc = "exact_replay"]
    <3>1. /\ state \in Attempted /\ state.pc = "exact_replay" /\ state.granted = state.request
          /\ state.request = call[c].request /\ state.number = call[c].number
      BY Zenon, <2>1 DEF Attempted
    <3>2. Passes(c, state)
      BY Zenon, <1>6, <2>1, <2>3, <3>1 DEF Select, Passes, isExactReplay
    <3>. QED
      BY Zenon, <3>1, <3>2 DEF WriterStep
  <2>4. ASSUME NEW row \in ledger, row.key = call[c].request.key, ~isExactReplay(c, row),
               Answer(c, failure("idempotency_collision", TRUE))
        PROVE  WriterStep
    <3>. DEFINE result == failure("idempotency_collision", TRUE)
    <3>1. result \in Results
      BY Zenon DEF failure, Results, Codes, Writes
    <3>2. Settles(c, result, {})
      BY Zenon, <1>6, <2>1, <2>4, <3>1, NotHeld DEF Select, Settles
    <3>3. Truthful(c, result, {})
      BY Zenon, <2>4 DEF Truthful, failure, isExactReplay, Row
    <3>. QED
      BY Zenon, <3>1, <3>2, <3>3 DEF WriterStep
  <2>. QED
    BY Zenon, <1>6, <2>2, <2>3, <2>4 DEF Select
<1>7. ASSUME NEW c \in Callers, Commit(c) \/ CommitUnreported(c) PROVE WriterStep
    BY Zenon, <1>7, CommitSettles DEF Commit, CommitUnreported
<1>8. ASSUME NEW c \in Callers, ExecutorFails(c) PROVE WriterStep
  <2>1. Active(c) /\ call[c].attempted \in BOOLEAN
    BY Zenon, <1>8, CallShape DEF ExecutorFails, Active, Granted, Attempted
  <2>. QED
    BY Zenon, <1>8, <2>1, FailureSettles DEF ExecutorFails
<1>9. ASSUME NEW c \in Callers, RunCallback(c) PROVE WriterStep
  <2>1. Active(c) /\ call[c].pc # "appended" /\ call[c] \in Granted
        /\ call[c].granted = call[c].request
    BY Zenon, <1>9, CallShape DEF RunCallback, Active, CallsInv
  <2>. DEFINE state == [call[c] EXCEPT !.pc = "insert", !.attempted = TRUE]
  <2>2. /\ state \in Attempted /\ state.pc = "insert" /\ state.granted = state.request
        /\ state.request = call[c].request /\ state.number = call[c].number
    BY Zenon, <2>1 DEF Granted, Attempted
  <2>3. Passes(c, state)
    BY Zenon, <1>9, <2>1, <2>2 DEF RunCallback, Passes
  <2>. QED
    BY Zenon, <2>2, <2>3 DEF WriterStep
<1>10. ASSUME UNCHANGED vars PROVE WriterStep
    BY Zenon, <1>10 DEF WriterStep
<1>. QED
    BY Zenon, <1>1, <1>2, <1>3, <1>4, <1>5, <1>6, <1>7, <1>8, <1>9, <1>10 DEF Next, Step

--------------------------------------------------------------------------------
\* An answered call is over, and no other call notices.
LEMMA SettledCall ==
    ASSUME TypeOK, NEW c \in Callers, NEW result, Answer(c, result)
    PROVE  /\ call'[c] = Idle /\ ~Active(c)'
           /\ \A d \in Callers \ {c} : call'[d] = call[d]
           /\ \A d \in Callers : Active(d)' => d # c /\ Active(d)
    BY Zenon DEF Answer, TypeOK, Active, Idle

\* The moves keep the invariant.
LEMMA LedgerInvStep ==
    ASSUME LedgerInv, WriterStep
    PROVE  LedgerInv'
<1>. USE DEF LedgerInv
<1>1. ASSUME NEW c \in Callers, NEW r \in Requests, Starts(c, r) PROVE LedgerInv'
  <2>. DEFINE state == [pc |-> "checks", request |-> r, number |-> calls + 1, attempted |-> FALSE]
  <2>1. state \in Early /\ call'[c] = state /\ \A d \in Callers \ {c} : call'[d] = call[d]
    BY <1>1 DEF Starts, Early, TypeOK
  <2>2. TypeOK'
    BY <1>1, <2>1 DEF Starts, TypeOK
  <2>3. NumbersInv'
    BY <1>1, <2>1, CallShape DEF Starts, TypeOK, NumbersInv, Active, Rows, Answers
  <2>4. HeldInv'
    BY <1>1, <2>1 DEF Starts, HeldInv, Row, Active
  <2>5. CallsInv'
    BY <1>1, <2>1 DEF Starts, CallsInv
  <2>6. AnswersInv'
    BY Zenon, <1>1 DEF Starts, AnswersInv, Accounted
  <2>. QED
    BY Zenon, <2>2, <2>3, <2>4, <2>5, <2>6
<1>2. ASSUME NEW c \in Callers, NEW state \in Early \cup Granted \cup Attempted, Passes(c, state)
      PROVE  LedgerInv'
  <2>1. call'[c] = state /\ \A d \in Callers \ {c} : call'[d] = call[d]
    BY Zenon, <1>2 DEF Passes, TypeOK
  <2>2. TypeOK'
    BY Zenon, <1>2, <2>1 DEF Passes, TypeOK
  <2>3. NumbersInv'
    BY <1>2, <2>1 DEF Passes, NumbersInv, Active
  <2>4. HeldInv'
    BY <1>2, <2>1 DEF Passes, HeldInv, Row
  <2>5. CallsInv'
    BY <1>2, <2>1 DEF Passes, CallsInv
  <2>6. AnswersInv'
    BY Zenon, <1>2 DEF Passes, AnswersInv, Accounted
  <2>. QED
    BY Zenon, <2>2, <2>3, <2>4, <2>5, <2>6
<1>3. ASSUME NEW c \in Callers, NEW state \in Early \cup Granted \cup Attempted, Appends(c, state)
      PROVE  LedgerInv'
  <2>1. call'[c] = state /\ \A d \in Callers \ {c} : call'[d] = call[d]
    BY Zenon, <1>3 DEF Appends, TypeOK
  <2>2. Active(c) /\ Row(c) \in Rows /\ Row(c)' = Row(c)
    BY Zenon, <1>3, <2>1, CallShape DEF Appends, Active, Row
  <2>3. TypeOK'
    BY Zenon, <1>3, <2>1, <2>2 DEF Appends, TypeOK
  <2>4. NumbersInv'
    BY <1>3, <2>1, <2>2 DEF Appends, NumbersInv, Active, Row
  <2>5. HeldInv'
    <3>1. \A d \in Callers : call[d].pc = "appended" => d # c /\ Row(d)' = Row(d)
      BY Zenon, <1>3, <2>1 DEF Appends, Row
    <3>2. Row(c).key = call[c].request.key
      BY Zenon DEF Row
    <3>3. \A row, other \in (ledger \cup held)' : row.key = other.key => row = other
      BY <1>3, <3>2 DEF Appends, HeldInv
    <3>. QED
      BY <1>3, <2>1, <2>2, <3>1, <3>3 DEF Appends, HeldInv
  <2>6. CallsInv'
    BY <1>3, <2>1 DEF Appends, CallsInv
  <2>7. AnswersInv'
    BY <1>3 DEF Appends, AnswersInv, Accounted
  <2>. QED
    BY Zenon, <2>3, <2>4, <2>5, <2>6, <2>7
<1>4. ASSUME NEW c \in Callers, NEW result \in Results, NEW rows \in SUBSET held,
             Settles(c, result, rows), Truthful(c, result, rows)
      PROVE  LedgerInv'
  <2>. DEFINE a == [call |-> call[c].number, request |-> call[c].request, result |-> result]
  <2>1. Answer(c, result) /\ answers' = answers \cup {a}
    BY Zenon, <1>4 DEF Settles, Answer
  <2>2. /\ call'[c] = Idle /\ ~Active(c)'
        /\ \A d \in Callers \ {c} : call'[d] = call[d]
        /\ \A d \in Callers : Active(d)' => d # c /\ Active(d)
    BY Zenon, <2>1, SettledCall
  <2>3. /\ Active(c) /\ call[c].number \in Nat /\ call[c].request \in Requests
        /\ Row(c) = [key |-> call[c].request.key, digest |-> call[c].request.digest,
                     call |-> call[c].number]
    BY Zenon, <1>4, CallShape DEF Settles, Row
  <2>4. \A row \in rows : row = Row(c)
    BY Zenon, <1>4 DEF Settles
  <2>5. TypeOK'
    <3>1. a \in Answers
      BY Zenon, <1>4, <2>3 DEF Answers, Results
    <3>. QED
      BY Zenon, <1>4, <2>1, <3>1 DEF Settles, Answer, TypeOK
  <2>6. NumbersInv'
    BY <1>4, <2>1, <2>2, <2>3, <2>4 DEF Settles, NumbersInv, Active
  <2>7. HeldInv'
    <3>1. \A d \in Callers : call'[d].pc = "appended" =>
             /\ d # c /\ call[d].pc = "appended" /\ Row(d)' = Row(d) /\ Row(d) # Row(c)
      BY Zenon, <2>2, <2>3 DEF NumbersInv, Active, Row, Idle
    <3>2. \A d \in Callers : call[d].pc = "appended" /\ d # c => call'[d].pc = "appended"
      BY Zenon, <2>2
    <3>3. (ledger \cup held)' \subseteq ledger \cup held
      BY Zenon, <1>4 DEF Settles
    <3>4. held' = held \ {Row(c)}
      BY Zenon, <1>4 DEF Settles
    <3>. QED
      BY <3>1, <3>2, <3>3, <3>4 DEF HeldInv
  <2>8. CallsInv'
    BY <1>4, <2>2 DEF Settles, CallsInv, Idle
  <2>9. AnswersInv'
    <3>1. \A row \in ledger : row.call # a.call
      BY Zenon, <2>3 DEF NumbersInv
    <3>2. ASSUME NEW b, b = a PROVE Accounted(b)'
      <4>1. /\ Row(c).key = b.request.key /\ Row(c).digest = b.request.digest
            /\ Row(c).call = b.call /\ b.result = result
        BY <2>3, <3>2
      <4>2. \A row \in ledger : row.call # b.call
        BY Zenon, <3>1, <3>2
      <4>. QED
        BY Zenon, <1>4, <2>4, <4>1, <4>2 DEF Settles, Truthful, Accounted
    <3>3. ASSUME NEW b \in answers PROVE Accounted(b)'
      <4>1. b.call # Row(c).call
        BY <2>3 DEF NumbersInv
      <4>2. Accounted(b)
        BY Zenon DEF AnswersInv
      <4>. QED
        BY Zenon, <1>4, <2>4, <4>1, <4>2 DEF Settles, Accounted
    <3>. QED
      BY Zenon, <2>1, <3>2, <3>3 DEF AnswersInv
  <2>. QED
    BY Zenon, <2>5, <2>6, <2>7, <2>8, <2>9
<1>5. ASSUME UNCHANGED vars PROVE LedgerInv'
    BY <1>5 DEF vars, TypeOK, NumbersInv, HeldInv, CallsInv, AnswersInv, Accounted, Active, Row
<1>. QED
    BY Zenon, <1>1, <1>2, <1>3, <1>4, <1>5 DEF WriterStep

\* The inductive invariant holds in every reachable state, whatever the keys,
\* digests and callers, and however many calls are made.
THEOREM LedgerInvariant == Spec => []LedgerInv
<1>1. Init => LedgerInv
    BY DEF Init, LedgerInv, TypeOK, NumbersInv, HeldInv, CallsInv, AnswersInv, Active, Idle
<1>2. LedgerInv /\ [Next]_vars => LedgerInv'
    BY Zenon, WriterSteps, LedgerInvStep
<1>. QED
    BY <1>1, <1>2, PTL DEF Spec

\* "performed" names a committed row and "not_performed" one that never
\* commits, whenever the executor fails or loses an answer.
THEOREM OutcomesAreTrue == Spec => []WriteOutcomeIsTrue
<1>1. LedgerInv => WriteOutcomeIsTrue
    BY DEF LedgerInv, AnswersInv, Accounted, WriteOutcomeIsTrue
<1>. QED
    BY <1>1, LedgerInvariant, PTL

\* What appendPostgreSqlAuditLedgerRecord answers is what
\* evaluateAuditLedgerAppendSemantics says of the ledger without the call's row.
THEOREM AnswersFollowSemantics == Spec => []FollowsAppendSemantics
<1>1. ASSUME LedgerInv, NEW a \in answers, NEW others,
             others = {row \in ledger : row.call # a.call}
      PROVE  /\ a.result.code = "appended" =>
                  evaluateAuditLedgerAppendSemantics(others, a.request) = "append_proposed"
             /\ a.result.code = "exact_replay" =>
                  evaluateAuditLedgerAppendSemantics(others, a.request) = "exact_replay"
             /\ a.result.code = "idempotency_collision" =>
                  evaluateAuditLedgerAppendSemantics(others, a.request) = "idempotency_collision"
  <2>1. Accounted(a)
    BY Zenon, <1>1 DEF LedgerInv, AnswersInv
  <2>2. \A row, other \in ledger : row.key = other.key => row = other
    BY Zenon, <1>1 DEF LedgerInv, HeldInv
  <2>. DEFINE existing == {e \in others : e.key = a.request.key}
  <2>3. a.result.code = "appended" => existing = {}
    BY Zenon, <1>1, <2>1, <2>2 DEF Accounted
  <2>4. a.result.code = "exact_replay" =>
          existing # {} /\ ~\E e \in existing : e.digest # a.request.digest
    BY Zenon, <1>1, <2>1, <2>2 DEF Accounted
  <2>5. a.result.code = "idempotency_collision" =>
          existing # {} /\ \E e \in existing : e.digest # a.request.digest
    BY Zenon, <1>1, <2>1 DEF Accounted
  <2>. QED
    BY Zenon, <2>3, <2>4, <2>5 DEF evaluateAuditLedgerAppendSemantics
<1>2. LedgerInv => FollowsAppendSemantics
    BY Zenon, <1>1 DEF FollowsAppendSemantics
<1>. QED
    BY <1>2, LedgerInvariant, PTL

\* A key is appended once, by a call whose grant names that key and digest.
THEOREM AppendsAreGranted == Spec => []AppendedOnceAsGranted
<1>1. LedgerInv => AppendedOnceAsGranted
  <2>1. ASSUME LedgerInv, NEW c \in Callers, call[c].pc = "appended"
        PROVE  call[c].granted = [key |-> Row(c).key, digest |-> Row(c).digest]
    <3>1. call[c].granted = call[c].request /\ call[c].request \in Requests
      BY Zenon, <2>1, CallShape DEF LedgerInv, CallsInv, Active
    <3>. QED
      BY Zenon, <3>1 DEF Requests, Row
  <2>. QED
    BY Zenon, <2>1 DEF LedgerInv, HeldInv, AppendedOnceAsGranted
<1>. QED
    BY <1>1, LedgerInvariant, PTL

================================================================================
