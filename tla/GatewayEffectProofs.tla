-------------------------- MODULE GatewayEffectProofs --------------------------
(***************************************************************************)
(* What the gateway's records say of the remote side, where the host hands *)
(* each receipt over once: every attempt before the last one was ruled out *)
(* by a receipt of its own, so that the remote side takes effect at most   *)
(* once and the final state of a record reports what it did.               *)
(***************************************************************************)
EXTENDS GatewayProofs

\* A receipt of the operation's attempt with this verdict has been handed over.
Told(o, a, verdict) == \E r \in used : r.op = o /\ r.attempt = a /\ r.status = verdict

\* A receipt says what the remote side did, and there is one per attempt.
ReceiptsInv ==
    /\ \A r \in receipts : world[r.op][r.attempt] = r.status
    /\ \A r, s \in receipts : r.op = s.op /\ r.attempt = s.attempt => r = s

\* The attempts that a record has behind it are ruled out.
BehindInv ==
    \A o \in Operations : record[o] # None =>
        /\ \A a \in Attempts :
              a < record[o].attempts \/ (a = record[o].attempts /\ record[o].state \in Freed)
                  => Told(o, a, "not_executed")
        /\ record[o].state = "completed" => Told(o, record[o].attempts, "completed")
        /\ record[o].state = "failed" => Told(o, record[o].attempts, "application_error")

\* The verdict that lets a record make the change.
Warranted(o, r, s) ==
    /\ s.state \in Freed =>
          r.state \in Freed \cup {"prepared"} \/ Told(o, r.attempts, "not_executed")
    /\ s.state = "completed" => Told(o, r.attempts, "completed")
    /\ s.state = "failed" => Told(o, r.attempts, "application_error")

\* A receipt that waits for its verifier is about the last attempt, and a swap
\* that may still succeed has its verdict.
WarrantsInv ==
    \A c \in Calls :
        /\ call[c].pc = "verify" =>
              /\ call[c].receipt \in used
              /\ call[c].receipt.op = call[c].op
              /\ call[c].receipt.attempt = call[c].read.attempts
        /\ call[c].pc = "swap" /\ record[call[c].op].version = call[c].expected =>
                  Warranted(call[c].op, record[call[c].op], call[c].record)

\* The invariant that holds beside GatewayInv when no receipt is handed over again.
VerdictInv == ReceiptsInv /\ BehindInv /\ WarrantsInv

\* What has been handed over stays handed over, and warrants what it did.
LEMMA StillWarranted ==
    ASSUME used \subseteq used'
    PROVE  /\ \A o, a, verdict : Told(o, a, verdict) => Told(o, a, verdict)'
           /\ \A o, r, s : Warranted(o, r, s) => Warranted(o, r, s)'
<1>1. \A o, a, verdict : Told(o, a, verdict) => Told(o, a, verdict)'
    BY Zenon DEF Told
<1>. QED
    BY Zenon, <1>1 DEF Warranted

\* A step that leaves the record, the verdicts and the receipts alone, and starts no call,
\* keeps what is known of the verdicts.
LEMMA VerdictKept ==
    ASSUME VerdictInv, UNCHANGED <<record, world, receipts, used>>,
           \A c \in Calls : call'[c] = call[c] \/ call'[c].pc \in {"idle", "send"}
    PROVE  VerdictInv'
<1>1. ReceiptsInv' /\ BehindInv'
    BY DEF VerdictInv, ReceiptsInv, BehindInv, Told
<1>2. WarrantsInv'
    BY DEF VerdictInv, WarrantsInv, Warranted, Told
<1>. QED
    BY Zenon, <1>1, <1>2 DEF VerdictInv

\* Asking for a warranted swap keeps what is known of the verdicts.
LEMMA AsksWarranted ==
    ASSUME GatewayInv, VerdictInv, NEW c \in Calls, NEW k \in Swapping, Asks(c, k),
           Warranted(k.op, record[k.op], k.record)
    PROVE  VerdictInv'
<1>1. ReceiptsInv' /\ BehindInv'
    BY DEF VerdictInv, ReceiptsInv, BehindInv, Told, Asks
<1>2. call'[c] = k /\ k.pc = "swap" /\ \A d \in Calls \ {c} : call'[d] = call[d]
    BY Zenon DEF Asks, GatewayInv, TypeOK, Swapping
<1>3. WarrantsInv'
  <2>1. record' = record /\ used' = used
    BY Zenon DEF Asks
  <2>2. \A p, r, s : Warranted(p, r, s) => Warranted(p, r, s)'
    BY Zenon, <2>1, StillWarranted
  <2>3. ASSUME NEW d \in Calls, call'[d].pc = "swap",
               record'[call'[d].op].version = call'[d].expected
        PROVE  Warranted(call'[d].op, record'[call'[d].op], call'[d].record)
    <3>1. CASE d = c
      BY Zenon, <1>2, <2>1, <3>1
    <3>2. CASE d # c
      <4>1. call'[d] = call[d]
        BY Zenon, <1>2, <3>2
      <4>. QED
        BY Zenon, <2>1, <2>3, <4>1 DEF VerdictInv, WarrantsInv
    <3>. QED
      BY Zenon, <3>1, <3>2
  <2>4. ASSUME NEW d \in Calls, call'[d].pc = "verify"
        PROVE  /\ call'[d].receipt \in used'
               /\ call'[d].receipt.op = call'[d].op
               /\ call'[d].receipt.attempt = call'[d].read.attempts
    <3>1. call'[d] = call[d]
      BY Zenon, <1>2, <2>4
    <3>. QED
      BY Zenon, <2>1, <2>4, <3>1 DEF VerdictInv, WarrantsInv
  <2>. QED
    BY Zenon, <2>2, <2>3, <2>4 DEF WarrantsInv
<1>. QED
    BY Zenon, <1>1, <1>3 DEF VerdictInv

\* A verified receipt warrants the change it asks for, if the record has not moved on.
LEMMA VerifiedWarranted ==
    ASSUME GatewayInv, VerdictInv, NEW c \in Calls, NEW k \in Swapping,
           call[c].pc = "verify", k.op = call[c].op,
           record[k.op].version = call[c].read.version,
           k.record.state = "completed" => call[c].receipt.status = "completed",
           k.record.state = "failed" => call[c].receipt.status = "application_error",
           k.record.state \in Freed => call[c].receipt.status = "not_executed"
    PROVE  Warranted(k.op, record[k.op], k.record)
<1>1. record[k.op] = call[c].read
    BY Zenon DEF GatewayInv, CallsInv
<1>2. Told(k.op, record[k.op].attempts, call[c].receipt.status)
    BY Zenon, <1>1 DEF VerdictInv, WarrantsInv, Told
<1>. QED
    BY Zenon, <1>2 DEF Warranted

\* A swap that succeeds keeps what is known of the verdicts: a dispatch puts a freed
\* attempt behind the record, and a receipt's verdict is there for the state it leads to.
LEMMA StoresWarranted ==
    ASSUME GatewayInv, VerdictInv, NEW c \in Calls, NEW then, Stores(c, then)
    PROVE  VerdictInv'
<1>1. PICK o, s : o = call[c].op /\ s = call[c].record
    BY Zenon
<1>2. /\ o \in Operations /\ call[c] \in Swapping
      /\ record[o] # None /\ Sound(record[o]) /\ Change(record[o], s) /\ s # None
      /\ record'[o] = s /\ \A p \in Operations \ {o} : record'[p] = record[p]
      /\ record[o].version \in Nat /\ record[o].attempts \in Nat
    BY <1>1, StoredChange
<1>3. Warranted(o, record[o], s)
    BY Zenon, <1>1 DEF VerdictInv, WarrantsInv, Stores
<1>4. \A p, a, v : Told(p, a, v)' = Told(p, a, v)
    BY Zenon DEF Stores, Told
<1>5. ReceiptsInv'
    BY Zenon DEF VerdictInv, ReceiptsInv, Stores
<1>6. BehindInv'
  <2>1. /\ s.state = "completed" => Told(o, s.attempts, "completed")
        /\ s.state = "failed" => Told(o, s.attempts, "application_error")
    BY Zenon, <1>2, <1>3 DEF Change, Warranted
  <2>2. ASSUME NEW a \in Attempts,
               a < s.attempts \/ (a = s.attempts /\ s.state \in Freed)
        PROVE  Told(o, a, "not_executed")
    <3>0. a \in Nat
      BY Zenon, AttemptsAreNat
    <3>1. a < record[o].attempts => Told(o, a, "not_executed")
      BY Zenon, <1>2 DEF VerdictInv, BehindInv
    <3>2. CASE s.state = "dispatching"
      <4>1. a < record[o].attempts \/ a = record[o].attempts
        <5>1. s.attempts = record[o].attempts + 1
          BY Zenon, <1>2, <3>2 DEF Change
        <5>2. a < s.attempts
          BY Zenon, <2>2, <3>2 DEF Freed
        <5>. QED
          BY Zenon, <1>2, <3>0, <5>1, <5>2, BelowNext
      <4>2. record[o].state \in Freed
        BY Zenon, <1>2, <3>2 DEF Change, Freed
      <4>. QED
        BY Zenon, <1>2, <3>1, <4>1, <4>2 DEF VerdictInv, BehindInv
    <3>3. CASE s.state # "dispatching"
      <4>1. CASE a < record[o].attempts
        BY Zenon, <3>1, <4>1
      <4>2. CASE a = record[o].attempts /\ s.state \in Freed
        <5>1. record[o].state \in Freed \/ Told(o, a, "not_executed")
          <6>1. record[o].state # "prepared"
            BY Zenon, <1>2, <4>2, AttemptsAreNat DEF Sound
          <6>. QED
            BY Zenon, <1>3, <4>2, <6>1 DEF Warranted
        <5>. QED
          BY Zenon, <1>2, <4>2, <5>1 DEF VerdictInv, BehindInv
      <4>. QED
        BY Zenon, <1>2, <2>2, <3>3, <4>1, <4>2 DEF Change
    <3>. QED
      BY Zenon, <3>2, <3>3
  <2>. QED
    BY Zenon, <1>2, <1>4, <2>1, <2>2 DEF VerdictInv, BehindInv
<1>7. WarrantsInv'
  <2>1. call'[c] = then /\ \A d \in Calls \ {c} : call'[d] = call[d]
    BY Zenon DEF Stores, GatewayInv, TypeOK
  <2>2. then.pc \in {"idle", "send"}
    BY DEF Stores, AfterSwap, Idle
  <2>3. ASSUME NEW d \in Calls, d # c, call[d].pc = "swap",
               record'[call[d].op].version = call[d].expected
        PROVE  Warranted(call[d].op, record'[call[d].op], call[d].record)
    <3>1. call[d].op \in Operations /\ call[d].expected \in 1 .. record[call[d].op].version
      BY Zenon, <2>3, CallShape DEF GatewayInv, CallsInv, Swapping
    <3>2. call[d].op # o
      BY <1>2, <2>3, <3>1 DEF Change
    <3>. QED
      BY Zenon, <1>2, <2>3, <3>1, <3>2 DEF VerdictInv, WarrantsInv
  <2>4. ASSUME NEW d \in Calls, d # c, call[d].pc = "verify"
        PROVE  /\ call[d].receipt \in used'
               /\ call[d].receipt.op = call[d].op
               /\ call[d].receipt.attempt = call[d].read.attempts
    BY Zenon, <2>4 DEF VerdictInv, WarrantsInv, Stores
  <2>5. \A p, r, t : Warranted(p, r, t) => Warranted(p, r, t)'
    BY Zenon, StillWarranted DEF Stores
  <2>6. ASSUME NEW d \in Calls, call'[d].pc \in {"verify", "swap"}
        PROVE  d # c /\ call'[d] = call[d]
    BY Zenon, <2>1, <2>2, <2>6
  <2>. QED
    BY Zenon, <2>3, <2>4, <2>5, <2>6 DEF WarrantsInv
<1>. QED
    BY Zenon, <1>5, <1>6, <1>7 DEF VerdictInv

\* prepare keeps what is known of the verdicts.
LEMMA PrepareWarranted ==
    ASSUME GatewayInv, VerdictInv, NEW o \in Operations, NEW at \in Times,
           NEW expires \in Times, prepare(o, at, expires)
    PROVE  VerdictInv'
<1>1. record'[o] = initialRecord(at, expires) /\ \A p \in Operations \ {o} : record'[p] = record[p]
    BY Zenon DEF prepare, GatewayInv, TypeOK
<1>2. record'[o].attempts = 0 /\ record'[o].state = "prepared"
    BY <1>1 DEF initialRecord
<1>3. \A c \in Calls : call[c].pc = "swap" => call[c].op \in Operations \ {o}
    BY CallShape DEF GatewayInv, CallsInv, Swapping, prepare, None
<1>4. ReceiptsInv'
    BY Zenon DEF VerdictInv, ReceiptsInv, prepare
<1>5. BehindInv'
  <2>1. \A a \in Attempts : ~(a < 0) /\ a # 0
    BY Zenon, AttemptsAreNat
  <2>. QED
    BY <1>1, <1>2, <2>1 DEF VerdictInv, BehindInv, Told, prepare
<1>6. WarrantsInv'
  <2>1. call' = call /\ used' = used
    BY Zenon DEF prepare
  <2>2. \A p, r, s : Warranted(p, r, s) => Warranted(p, r, s)'
    BY Zenon, <2>1, StillWarranted
  <2>3. \A c \in Calls : call[c].pc = "swap" => record'[call[c].op] = record[call[c].op]
    BY Zenon, <1>1, <1>3
  <2>. QED
    BY Zenon, <2>1, <2>2, <2>3 DEF VerdictInv, WarrantsInv
<1>. QED
    BY Zenon, <1>4, <1>5, <1>6 DEF VerdictInv

\* A receipt handed over for the first time is about the last attempt of the record.
LEMMA PresentWarranted ==
    ASSUME GatewayInv, VerdictInv, ~Redelivery, NEW c \in Calls, NEW receipt \in receipts,
           NEW at \in Times, PresentReceipt(c, receipt, at)
    PROVE  VerdictInv'
<1>. DEFINE o == receipt.op
<1>1. o \in Operations /\ receipt.attempt \in Attempts /\ receipt \notin used
    BY Zenon DEF GatewayInv, TypeOK, Receipts, PresentReceipt
<1>2. receipt.attempt = record[o].attempts
  <2>1. record[o] # None /\ AttemptsOf(o) = record[o].attempts /\ AttemptsOf(o) \in Nat
        /\ receipt.attempt \in Nat
    BY Zenon, <1>1, StoredIsSound, AttemptsAreNat DEF PresentReceipt
  <2>2. ~(receipt.attempt > AttemptsOf(o))
    BY Zenon, <1>1 DEF GatewayInv, SendersInv
  <2>3. ~Told(o, receipt.attempt, "not_executed")
    BY Zenon, <1>1 DEF VerdictInv, ReceiptsInv, Told, GatewayInv, TypeOK
  <2>4. ~(receipt.attempt < record[o].attempts)
    BY Zenon, <1>1, <2>1, <2>3 DEF VerdictInv, BehindInv
  <2>. QED
    BY Zenon, <2>1, <2>2, <2>4, NumberEqual
<1>3. /\ call'[c] = [pc |-> "verify", op |-> o, read |-> record[o], receipt |-> receipt, at |-> at]
      /\ \A d \in Calls \ {c} : call'[d] = call[d]
    BY Zenon DEF PresentReceipt, GatewayInv, TypeOK
<1>4. used' = used \cup {receipt} /\ UNCHANGED <<record, world, receipts>>
    BY Zenon DEF PresentReceipt
<1>5. \A p, a, v : Told(p, a, v) => Told(p, a, v)'
    BY Zenon, <1>4 DEF Told
<1>6. ReceiptsInv' /\ BehindInv'
    BY Zenon, <1>4, <1>5 DEF VerdictInv, ReceiptsInv, BehindInv
<1>7. WarrantsInv'
  <2>1. \A p, r, s : Warranted(p, r, s) => Warranted(p, r, s)'
    BY Zenon, <1>5 DEF Warranted
  <2>. QED
    BY <1>2, <1>3, <1>4, <2>1 DEF VerdictInv, WarrantsInv
<1>. QED
    BY Zenon, <1>6, <1>7 DEF VerdictInv

\* The remote side and its receipts keep what is known of the verdicts.
LEMMA RemoteWarranted ==
    ASSUME GatewayInv, VerdictInv, NEW o \in Operations, NEW a \in Attempts,
           Remote(o, a) \/ \E at \in Times : IssueReceipt(o, a, at)
    PROVE  VerdictInv'
<1>1. BehindInv' /\ WarrantsInv'
  <2>1. record' = record /\ call' = call /\ used' = used
    BY Zenon DEF Remote, IssueReceipt
  <2>2. /\ \A p, b, v : Told(p, b, v) => Told(p, b, v)'
        /\ \A p, r, s : Warranted(p, r, s) => Warranted(p, r, s)'
    BY Zenon, <2>1, StillWarranted
  <2>3. BehindInv'
    BY Zenon, <2>1, <2>2 DEF VerdictInv, BehindInv
  <2>4. WarrantsInv'
    BY Zenon, <2>1, <2>2 DEF VerdictInv, WarrantsInv
  <2>. QED
    BY Zenon, <2>3, <2>4
<1>2. CASE Remote(o, a)
  <2>1. \A p \in Operations, b \in Attempts : p # o \/ b # a => world'[p][b] = world[p][b]
    BY <1>2 DEF Remote, GatewayInv, TypeOK
  <2>2. \A r \in receipts : r.op \in Operations /\ r.attempt \in Attempts /\ r.status # "open"
    BY Zenon DEF GatewayInv, TypeOK, Receipts, Verdicts
  <2>3. \A r \in receipts : r.op # o \/ r.attempt # a
    BY Zenon, <1>2, <2>2 DEF Remote, VerdictInv, ReceiptsInv
  <2>. QED
    BY Zenon, <1>1, <1>2, <2>1, <2>2, <2>3 DEF Remote, VerdictInv, ReceiptsInv
<1>3. ASSUME NEW at \in Times, IssueReceipt(o, a, at) PROVE VerdictInv'
    BY <1>1, <1>3 DEF IssueReceipt, VerdictInv, ReceiptsInv
<1>. QED
    BY Zenon, <1>2, <1>3

\* Every step keeps what is known of the verdicts, when no receipt is handed over again.
LEMMA VerdictInvStep ==
    ASSUME GatewayInv, VerdictInv, ~Redelivery, [Next]_vars
    PROVE  VerdictInv'
<1>1. ASSUME NEW c \in Calls, Ends(c) PROVE VerdictInv'
    BY Zenon, <1>1, VerdictKept DEF Ends, GatewayInv, TypeOK, Idle
<1>2. ASSUME NEW c \in Calls, compareAndSwap(c) \/ StoreUnavailable(c) PROVE VerdictInv'
    BY Zenon, <1>1, <1>2, SwapStores, StoresWarranted
<1>3. ASSUME NEW c \in Calls, ReceiptVerified(c) PROVE VerdictInv'
    BY Zenon, <1>1, <1>3, VerifiedAsks, VerifiedWarranted, AsksWarranted
<1>4. ASSUME NEW c \in Calls, ReceiptRefused(c) PROVE VerdictInv'
    BY Zenon, <1>1, <1>4 DEF ReceiptRefused, Answer, Ends
<1>5. ASSUME NEW c \in Calls, NEW o \in Operations, NEW at \in Times, Method(c, o, at)
      PROVE  VerdictInv'
  <2>1. PICK k \in Swapping : Asks(c, k) /\ Ordinary(record[k.op], k.record)
    BY Zenon, <1>5, MethodAsks
  <2>2. Warranted(k.op, record[k.op], k.record)
    BY Zenon, <2>1 DEF Ordinary, Warranted
  <2>. QED
    BY Zenon, <2>1, <2>2, AsksWarranted
<1>6. ASSUME NEW c \in Calls, Send(c) PROVE VerdictInv'
    BY Zenon, <1>6, VerdictKept DEF Send, GatewayInv, TypeOK, Idle
<1>7. ASSUME Restart PROVE VerdictInv'
    BY Zenon, <1>7, VerdictKept DEF Restart, Idle
<1>8. ASSUME UNCHANGED vars PROVE VerdictInv'
    BY Zenon, <1>8, VerdictKept DEF vars
<1>. QED
    BY Zenon, <1>2, <1>3, <1>4, <1>5, <1>6, <1>7, <1>8, PrepareWarranted, PresentWarranted,
       RemoteWarranted DEF Next

-----------------------------------------------------------------------------

\* Where the host hands each receipt to the coordinator once, the verdicts behind a record are
\* the remote side's own.
THEOREM VerdictInvariant ==
    ASSUME ~Redelivery
    PROVE  Spec => []VerdictInv
<1>1. Init => VerdictInv
    BY DEF Init, VerdictInv, ReceiptsInv, BehindInv, WarrantsInv, Idle
<1>2. GatewayInv /\ VerdictInv /\ [Next]_vars => VerdictInv'
    BY Zenon, VerdictInvStep
<1>. QED
    BY <1>1, <1>2, GatewayInvariant, PTL DEF Spec

\* A receipt that was handed over says what the remote side did.
LEMMA RuledOut ==
    ASSUME GatewayInv, VerdictInv, NEW o \in Operations, NEW a, NEW verdict, Told(o, a, verdict)
    PROVE  world[o][a] = verdict
    BY Zenon DEF GatewayInv, TypeOK, VerdictInv, ReceiptsInv, Told

\* Where each receipt is handed over once, a record that can be dispatched again, or has
\* expired, has no attempt behind it that the remote side executed or may still execute.
THEOREM RetriesAreNotBlind ==
    ASSUME ~Redelivery
    PROVE  Spec => []NoBlindRetry
<1>1. ASSUME GatewayInv, VerdictInv, NEW o \in Operations, record[o].state \in Freed,
             NEW a \in 1 .. record[o].attempts
      PROVE  world[o][a] = "not_executed"
  <2>1. record[o] # None
    BY <1>1 DEF Freed, None
  <2>2. record[o].attempts \in Nat /\ (record[o].attempts # 0 => record[o].attempts \in Attempts)
    BY Zenon, <1>1, <2>1, StoredIsSound
  <2>3. a \in Attempts /\ (a < record[o].attempts \/ a = record[o].attempts)
    BY <2>2, GatewayBounds DEF Attempts
  <2>4. Told(o, a, "not_executed")
    BY Zenon, <1>1, <2>1, <2>3 DEF VerdictInv, BehindInv
  <2>. QED
    BY Zenon, <1>1, <2>4, RuledOut
<1>2. GatewayInv /\ VerdictInv => NoBlindRetry
    BY Zenon, <1>1 DEF NoBlindRetry, Freed
<1>. QED
    BY <1>2, GatewayInvariant, VerdictInvariant, PTL

-----------------------------------------------------------------------------

\* What the refinement mapping makes of an operation.
EffectOf(o) ==
    IF Executed(o) = {} THEN "none"
    ELSE IF Cardinality(Executed(o)) > 1 THEN "twice"
    ELSE world[o][CHOOSE a \in Executed(o) : TRUE]
KnownOf(o) == IF record[o].state \in Final THEN record[o].state ELSE "open"

\* At most the last attempt that the record counts was executed.
LEMMA OnlyLastExecuted ==
    ASSUME GatewayInv, VerdictInv, NEW o \in Operations
    PROVE  Executed(o) \subseteq {AttemptsOf(o)}
<1>1. ASSUME NEW a \in Executed(o) PROVE a = AttemptsOf(o)
  <2>1. a \in Attempts /\ world[o][a] \in {"completed", "application_error"}
    BY Zenon DEF Executed
  <2>2. a \in Nat \ {0} /\ AttemptsOf(o) \in Nat
    BY <2>1, GatewayBounds, StoredIsSound DEF Attempts
  <2>3. ~(a > AttemptsOf(o))
    BY Zenon, <2>1 DEF GatewayInv, SendersInv
  <2>4. record[o] # None /\ AttemptsOf(o) = record[o].attempts
    BY <2>2, <2>3, StoredIsSound
  <2>5. ~Told(o, a, "not_executed")
    BY Zenon, <2>1, RuledOut
  <2>6. ~(a < AttemptsOf(o))
    BY Zenon, <2>1, <2>4, <2>5 DEF VerdictInv, BehindInv
  <2>. QED
    BY <2>2, <2>3, <2>6
<1>. QED
    BY Zenon, <1>1

\* The one element of a singleton.
LEMMA EffectOfOne ==
    ASSUME NEW S, NEW a, S = {a}
    PROVE  S # {} /\ ~(Cardinality(S) > 1) /\ (CHOOSE b \in S : TRUE) = a
<1>1. Cardinality(S) = 1
    BY Zenon, FS_Singleton
<1>. QED
    BY <1>1

\* A record becomes final with the report of what took effect.
LEMMA FinalIsReported ==
    ASSUME GatewayInv, VerdictInv, NEW o \in Operations, record[o] # None, NEW s,
           Change(record[o], s), Warranted(o, record[o], s), s.state \in Final
    PROVE  s.state = Effect!Report[EffectOf(o)]
<1>. DEFINE n == record[o].attempts
<1>1. AttemptsOf(o) = n /\ Executed(o) \subseteq {n} /\ Sound(record[o])
    BY Zenon, OnlyLastExecuted, StoredIsSound
<1>2. ASSUME NEW verdict \in {"completed", "application_error"}, Told(o, n, verdict)
      PROVE  EffectOf(o) = verdict
  <2>1. n \in Attempts /\ world[o][n] = verdict
    <3>1. n \in Attempts
      BY Zenon, <1>2 DEF Told, GatewayInv, TypeOK, Receipts
    <3>. QED
      BY Zenon, <1>2, <3>1, RuledOut
  <2>2. Executed(o) = {n}
    BY Zenon, <1>1, <2>1 DEF Executed
  <2>. QED
    BY Zenon, <2>1, <2>2, EffectOfOne DEF EffectOf
<1>3. CASE s.state = "completed"
    BY <1>2, <1>3 DEF Warranted, Effect!Report
<1>4. CASE s.state = "failed"
    BY <1>2, <1>4 DEF Warranted, Effect!Report
<1>5. CASE s.state = "expired"
  <2>1. n \notin Executed(o)
    <3>1. CASE Told(o, n, "not_executed")
      BY Zenon, <3>1, RuledOut DEF Executed
    <3>2. CASE record[o].state \in Freed
      BY Zenon, <3>1, <3>2 DEF VerdictInv, BehindInv, Executed
    <3>3. CASE record[o].state = "prepared"
      BY Zenon, <1>1, <3>3, AttemptsAreNat DEF Sound, Executed
    <3>. QED
      BY Zenon, <1>5, <3>1, <3>2, <3>3 DEF Warranted, Freed
  <2>2. EffectOf(o) = "none"
    BY Zenon, <1>1, <2>1 DEF EffectOf
  <2>. QED
    BY <1>5, <2>2 DEF Effect!Report
<1>. QED
    BY Zenon, <1>3, <1>4, <1>5 DEF Final

\* Where each receipt is handed over once, the coordinator implements GatewayEffect: over any
\* number of attempts, retries and restarts the remote side takes effect at most once, and the
\* final state of the record reports exactly that.
THEOREM GatewayTakesEffectOnce ==
    ASSUME ~Redelivery
    PROVE  Spec => ImplementsEffect
<1>. DEFINE effect == [o \in Operations |-> EffectOf(o)]
            known == [o \in Operations |-> KnownOf(o)]
            Same == UNCHANGED <<effect, known>>
<1>1. Init => Effect!Init
    BY DEF Init, Effect!Init, Executed, None, Final
<1>2. ASSUME UNCHANGED <<record, world>> PROVE Same
    BY Zenon, <1>2 DEF EffectOf, KnownOf, Executed
<1>3. ASSUME GatewayInv, NEW o \in Operations, NEW at \in Times, NEW e \in Times, prepare(o, at, e)
      PROVE  Same
  <2>1. record'[o].state = "prepared" /\ \A p \in Operations \ {o} : record'[p] = record[p]
    BY Zenon, <1>3 DEF prepare, GatewayInv, TypeOK, initialRecord
  <2>2. \A p \in Operations : KnownOf(p)' = KnownOf(p)
    BY <1>3, <2>1 DEF KnownOf, Final, None, prepare
  <2>. QED
    BY Zenon, <1>3, <2>2 DEF prepare, EffectOf, Executed
<1>4. ASSUME GatewayInv, VerdictInv, NEW c \in Calls, NEW then, Stores(c, then)
      PROVE  Effect!Next \/ Same
  <2>1. PICK o, s : o = call[c].op /\ s = call[c].record
    BY Zenon
  <2>2. /\ o \in Operations /\ record[o] # None /\ Change(record[o], s)
        /\ record'[o] = s /\ \A p \in Operations \ {o} : record'[p] = record[p]
    BY <1>4, <2>1, StoredChange
  <2>3. \A p \in Operations : EffectOf(p)' = EffectOf(p)
    BY Zenon, <1>4 DEF Stores, EffectOf, Executed
  <2>4. KnownOf(o) = "open" /\ \A p \in Operations \ {o} : KnownOf(p)' = KnownOf(p)
    BY Zenon, <2>2 DEF Change, KnownOf
  <2>5. CASE s.state \notin Final
    <3>1. KnownOf(o)' = "open"
      BY Zenon, <2>2, <2>5 DEF KnownOf
    <3>. QED
      BY Zenon, <2>3, <2>4, <3>1
  <2>6. CASE s.state \in Final
    <3>1. Warranted(o, record[o], s)
      BY Zenon, <1>4, <2>1 DEF VerdictInv, WarrantsInv, Stores
    <3>2. s.state = Effect!Report[EffectOf(o)]
      BY Zenon, <1>4, <2>2, <2>6, <3>1, FinalIsReported
    <3>3. KnownOf(o)' = s.state
      BY Zenon, <2>2, <2>6 DEF KnownOf
    <3>4. known' = [known EXCEPT ![o] = Effect!Report[effect[o]]] /\ effect' = effect
      BY ZenonT(60), <2>2, <2>3, <2>4, <3>2, <3>3
    <3>5. Effect!Settle(o)
      BY Zenon, <2>2, <2>4, <3>4 DEF Effect!Settle, KnownOf, EffectOf
    <3>. QED
      BY Zenon, <2>2, <3>5 DEF Effect!Next
  <2>. QED
    BY Zenon, <2>5, <2>6
<1>5. ASSUME GatewayInv, VerdictInv, NEW o \in Operations, NEW a \in Attempts, Remote(o, a)
      PROVE  Effect!Next \/ Same
  <2>1. PICK verdict \in Verdicts :
          /\ world' = [world EXCEPT ![o][a] = verdict]
          /\ verdict = "not_executed" \/ verdict \in {"completed", "application_error"}
    BY Zenon, <1>5 DEF Remote, Verdicts
  <2>2. /\ world'[o][a] = verdict /\ world[o][a] = "open"
        /\ \A p \in Operations, b \in Attempts : p # o \/ b # a => world'[p][b] = world[p][b]
    BY Zenon, <1>5, <2>1 DEF Remote, GatewayInv, TypeOK
  <2>3. \A p \in Operations : KnownOf(p)' = KnownOf(p)
    BY Zenon, <1>5 DEF Remote, KnownOf
  <2>4. ASSUME NEW p \in Operations \ {o} PROVE EffectOf(p)' = EffectOf(p)
    <3>1. Executed(p)' = Executed(p) /\ world'[p] = world[p]
      BY Zenon, <1>5, <2>1 DEF GatewayInv, TypeOK, Executed
    <3>2. CASE Executed(p) = {}
      BY Zenon, <3>1, <3>2 DEF EffectOf
    <3>3. ASSUME NEW b, Executed(p) = {b} PROVE EffectOf(p)' = EffectOf(p)
      <4>1. EffectOf(p) = world[p][b]
        BY Zenon, <3>3, EffectOfOne DEF EffectOf
      <4>2. EffectOf(p)' = world'[p][b]
        BY Zenon, <3>1, <3>3, EffectOfOne DEF EffectOf
      <4>. QED
        BY Zenon, <3>1, <4>1, <4>2
    <3>4. Executed(p) \subseteq {AttemptsOf(p)}
      BY Zenon, <1>5, OnlyLastExecuted
    <3>. QED
      BY Zenon, <3>2, <3>3, <3>4
  <2>5. CASE verdict = "not_executed"
    <3>1. Executed(o)' = Executed(o) /\ a \notin Executed(o)
      BY Zenon, <2>2, <2>5 DEF Executed
    <3>2. EffectOf(o)' = EffectOf(o)
      <4>1. CASE Executed(o) = {}
        BY Zenon, <3>1, <4>1 DEF EffectOf
      <4>2. ASSUME NEW b, Executed(o) = {b} PROVE EffectOf(o)' = EffectOf(o)
        <5>1. EffectOf(o) = world[o][b]
          BY Zenon, <4>2, EffectOfOne DEF EffectOf
        <5>2. EffectOf(o)' = world'[o][b]
          BY Zenon, <3>1, <4>2, EffectOfOne DEF EffectOf
        <5>3. b # a /\ b \in Attempts
          BY Zenon, <3>1, <4>2 DEF Executed
        <5>. QED
          BY Zenon, <2>2, <5>1, <5>2, <5>3
      <4>3. Executed(o) \subseteq {AttemptsOf(o)}
        BY Zenon, <1>5, OnlyLastExecuted
      <4>. QED
        BY Zenon, <4>1, <4>2, <4>3
    <3>. QED
      BY Zenon, <2>3, <2>4, <3>2
  <2>6. CASE verdict \in {"completed", "application_error"}
    <3>1. /\ a <= AttemptsOf(o) /\ a \in Nat \ {0} /\ AttemptsOf(o) \in Nat
          /\ record[o] # None => AttemptsOf(o) = record[o].attempts
          /\ record[o] = None => AttemptsOf(o) = 0
      BY Zenon, <1>5, RemoteKeeps, StoredIsSound, AttemptsAreNat
    <3>2. record[o] # None /\ AttemptsOf(o) = record[o].attempts
      BY <3>1
    <3>3. ~Told(o, a, "not_executed") /\ ~Told(o, a, "completed")
            /\ ~Told(o, a, "application_error")
      BY Zenon, <1>5, <2>2, RuledOut
    <3>4. a = AttemptsOf(o)
      <4>1. ~(a < AttemptsOf(o))
        BY Zenon, <1>5, <3>2, <3>3 DEF VerdictInv, BehindInv
      <4>2. ~(a > AttemptsOf(o))
        BY Zenon, <3>1, AtMost
      <4>. QED
        BY Zenon, <3>1, <4>1, <4>2, NumberEqual
    <3>5. record[o].state \notin Final
      BY Zenon, <1>5, <3>2, <3>3, <3>4 DEF VerdictInv, BehindInv, Final, Freed
    <3>6. Executed(o) = {} /\ Executed(o)' = {a}
      <4>1. Executed(o) \subseteq {a}
        BY Zenon, <1>5, <3>4, OnlyLastExecuted
      <4>2. Executed(o) = {}
        BY Zenon, <2>2, <4>1 DEF Executed
      <4>. QED
        BY Zenon, <2>2, <2>6, <4>2 DEF Executed
    <3>7. EffectOf(o) = "none" /\ EffectOf(o)' = verdict
      BY Zenon, <2>2, <3>6, EffectOfOne DEF EffectOf
    <3>8. effect' = [effect EXCEPT ![o] = verdict] /\ known' = known
      BY ZenonT(60), <2>3, <2>4, <3>7
    <3>9. effect[o] = "none" /\ known[o] = "open"
      BY Zenon, <3>5, <3>7 DEF KnownOf
    <3>10. Effect!TakeEffect(o)
      BY ZenonT(60), <2>6, <3>8, <3>9 DEF Effect!TakeEffect, EffectOf, KnownOf
    <3>. QED
      BY Zenon, <3>10 DEF Effect!Next
  <2>. QED
    BY Zenon, <2>1, <2>5, <2>6
<1>6. ASSUME GatewayInv, VerdictInv, [Next]_vars PROVE Effect!Next \/ Same
  <2>1. ASSUME NEW c \in Calls, compareAndSwap(c) \/ StoreUnavailable(c)
        PROVE  Effect!Next \/ Same
    BY Zenon, <1>2, <1>4, <1>6, <2>1, SwapStores DEF Ends
  <2>2. ASSUME NEW c \in Calls, NEW o \in Operations, NEW at \in Times, Method(c, o, at)
        PROVE  Same
    BY Zenon, <1>2, <1>6, <2>2, MethodAsks DEF Asks
  <2>3. ASSUME NEW c \in Calls, ReceiptVerified(c) \/ ReceiptRefused(c) \/ Send(c)
        PROVE  Same
    BY Zenon, <1>2, <1>6, <2>3, VerifiedAsks DEF Asks, Ends, ReceiptRefused, Answer, Send
  <2>4. ASSUME NEW c \in Calls, NEW r \in receipts, NEW at \in Times, PresentReceipt(c, r, at)
        PROVE  Same
    BY Zenon, <1>2, <2>4 DEF PresentReceipt
  <2>5. ASSUME \/ Restart \/ UNCHANGED vars
               \/ \E o \in Operations, a \in Attempts, at \in Times : IssueReceipt(o, a, at)
        PROVE  Same
    BY Zenon, <1>2, <2>5 DEF Restart, IssueReceipt, vars
  <2>. HIDE DEF effect, known, Same
  <2>. QED
    BY Zenon, <1>3, <1>5, <1>6, <2>1, <2>2, <2>3, <2>4, <2>5 DEF Next
<1>7. GatewayInv /\ VerdictInv /\ [Next]_vars
        => [Effect!Next]_<<effect, known>>
    BY Zenon, <1>6
<1>. QED
    BY <1>1, <1>7, GatewayInvariant, VerdictInvariant, PTL
       DEF Spec, ImplementsEffect, Effect!Spec, EffectOf, KnownOf

================================================================================
