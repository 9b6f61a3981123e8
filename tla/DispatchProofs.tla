----------------------------- MODULE DispatchProofs -----------------------------
(***************************************************************************)
(* The evidence of dispatch, for any operations, workers and commits.      *)
(* An operation's log is one of five, and everything else that the store   *)
(* holds about it follows from which; what a worker may still do follows   *)
(* from where it is and from the one slot it holds.                        *)
(***************************************************************************)
EXTENDS Dispatch, SequenceTheorems, TLAPS

P == <<"prepared">>
PD == <<"prepared", "dispatching">>
PDU == <<"prepared", "dispatching", "outcome_unknown">>
PDC == <<"prepared", "dispatching", "completed">>
PDUC == <<"prepared", "dispatching", "outcome_unknown", "completed">>

Events == {"prepared", "dispatching", "outcome_unknown", "completed"}
Logs == {P, PD, PDU, PDC, PDUC}
Completed == {PDC, PDUC}

\* What the store says of an operation is determined by its log, but for the
\* reconciliation record of a git operation that was never in doubt.
StoreInv ==
    /\ opLog \in [Operations -> Logs]
    /\ attLog \in [Operations -> {Tail(log) : log \in Logs}]
    /\ consumed \subseteq Operations /\ receipt \subseteq Operations
    /\ recon \subseteq receipt
    /\ \A o \in Operations :
          /\ attLog[o] = Tail(opLog[o])
          /\ o \in consumed <=> opLog[o] # P
          /\ o \in receipt <=> opLog[o] \in Completed
          /\ opLog[o] = PDUC => o \in recon
          /\ Adapter[o] = "docker" /\ o \in recon => opLog[o] = PDUC

\* A process is started once, for an operation that is claimed, and moves the
\* head once; the head names an approved commit only once a process moved it there.
TargetInv ==
    /\ proc \in [Operations -> {"none", "running", "ended"}]
    /\ launches \in [Operations -> {0, 1}]
    /\ landed \subseteq Operations
    /\ \A o \in Operations :
          /\ launches[o] = 1 => opLog[o] # P
          /\ proc[o] = "running" => launches[o] = 1 /\ o \notin landed
          /\ o \in landed => launches[o] = 1
          /\ head = Result[o] \/ o \in receipt =>
                \E p \in landed : Result[p] = Result[o]

Stages == {"idle", "admitted", "claimed", "ready", "running", "observed"}

\* The slot is held by one worker at a time.  A git operation keeps the mutex
\* from its claim on, so that nobody else touches its log.
WorkerInv ==
    /\ worker \in [Workers -> [pc : Stages, op : Operations \cup {NoOp}]]
    /\ \A w \in Workers : worker[w].pc # "idle" =>
          /\ worker[w].op \in Operations
          /\ dispatchActive /\ up
          /\ \A v \in Workers \ {w} : worker[v].pc = "idle"
          /\ worker[w].pc \in {"claimed", "ready"} =>
                opLog[worker[w].op] # P /\ launches[worker[w].op] = 0
          /\ worker[w].pc \in {"running", "observed"} => launches[worker[w].op] = 1
          /\ worker[w].pc = "observed" => worker[w].op \in landed
          /\ Adapter[worker[w].op] = "git" /\ worker[w].pc # "admitted" =>
                mutex = w /\ opLog[worker[w].op] = PD

\* The inductive invariant of dispatch.
DispatchInv == StoreInv /\ TargetInv /\ WorkerInv

---------------------------------------------------------------------------------
(***************************************************************************)
(* The five logs: what an event makes of each, how it ends, and that the   *)
(* store's verifier accepts it.                                            *)
(***************************************************************************)

\* Claim, mark and completion (append_phase7_operation_state_event_v1) lead
\* from one of the five logs to another.
LEMMA LogsGrow ==
    /\ Append(P, "dispatching") = PD
    /\ Append(PD, "outcome_unknown") = PDU
    /\ Append(PD, "completed") = PDC
    /\ Append(PDU, "completed") = PDUC
    /\ P \o <<"dispatching", "outcome_unknown">> = PDU
<1>1. Append(P, "dispatching") = PD
  <2>1. Append(P, "dispatching") \in Seq(Events) /\ PD \in Seq(Events)
    BY DEF P, PD, Events
  <2>2. Len(Append(P, "dispatching")) = 2 /\ Len(PD) = 2
    BY DEF P, PD
  <2>3. \A i \in 1 .. 2 : i = 1 \/ i = 2
    OBVIOUS
  <2>4. \A i \in 1 .. 2 : (Append(P, "dispatching"))[i] = PD[i]
    BY <2>3 DEF P, PD
  <2>. QED
    BY Zenon, <2>1, <2>2, <2>4, SeqEqual
<1>2. Append(PD, "outcome_unknown") = PDU
  <2>1. Append(PD, "outcome_unknown") \in Seq(Events) /\ PDU \in Seq(Events)
    BY DEF PD, PDU, Events
  <2>2. Len(Append(PD, "outcome_unknown")) = 3 /\ Len(PDU) = 3
    BY DEF PD, PDU
  <2>3. \A i \in 1 .. 3 : i = 1 \/ i = 2 \/ i = 3
    OBVIOUS
  <2>4. \A i \in 1 .. 3 : (Append(PD, "outcome_unknown"))[i] = PDU[i]
    BY <2>3 DEF PD, PDU
  <2>. QED
    BY Zenon, <2>1, <2>2, <2>4, SeqEqual
<1>3. Append(PD, "completed") = PDC
  <2>1. Append(PD, "completed") \in Seq(Events) /\ PDC \in Seq(Events)
    BY DEF PD, PDC, Events
  <2>2. Len(Append(PD, "completed")) = 3 /\ Len(PDC) = 3
    BY DEF PD, PDC
  <2>3. \A i \in 1 .. 3 : i = 1 \/ i = 2 \/ i = 3
    OBVIOUS
  <2>4. \A i \in 1 .. 3 : (Append(PD, "completed"))[i] = PDC[i]
    BY <2>3 DEF PD, PDC
  <2>. QED
    BY Zenon, <2>1, <2>2, <2>4, SeqEqual
<1>4. Append(PDU, "completed") = PDUC
  <2>1. Append(PDU, "completed") \in Seq(Events) /\ PDUC \in Seq(Events)
    BY DEF PDU, PDUC, Events
  <2>2. Len(Append(PDU, "completed")) = 4 /\ Len(PDUC) = 4
    BY DEF PDU, PDUC
  <2>3. \A i \in 1 .. 4 : i = 1 \/ i = 2 \/ i = 3 \/ i = 4
    OBVIOUS
  <2>4. \A i \in 1 .. 4 : (Append(PDU, "completed"))[i] = PDUC[i]
    BY <2>3 DEF PDU, PDUC
  <2>. QED
    BY Zenon, <2>1, <2>2, <2>4, SeqEqual
<1>5. P \o <<"dispatching", "outcome_unknown">> = PDU
  <2>1. P \o <<"dispatching", "outcome_unknown">> \in Seq(Events) /\ PDU \in Seq(Events)
    BY DEF P, PDU, Events
  <2>2. Len(P \o <<"dispatching", "outcome_unknown">>) = 3 /\ Len(PDU) = 3
    BY DEF P, PDU
  <2>3. \A i \in 1 .. 3 : i = 1 \/ i = 2 \/ i = 3
    OBVIOUS
  <2>4. \A i \in 1 .. 3 : (P \o <<"dispatching", "outcome_unknown">>)[i] = PDU[i]
    BY <2>3 DEF P, PDU
  <2>. QED
    BY Zenon, <2>1, <2>2, <2>4, SeqEqual
<1>. QED
  BY Zenon, <1>1, <1>2, <1>3, <1>4, <1>5

\* The same events on the attempt's chain, which lacks "prepared".
LEMMA TailsGrow ==
    /\ Append(Tail(P), "dispatching") = Tail(PD)
    /\ Append(Tail(PD), "outcome_unknown") = Tail(PDU)
    /\ Append(Tail(PD), "completed") = Tail(PDC)
    /\ Append(Tail(PDU), "completed") = Tail(PDUC)
    /\ Tail(P) \o <<"dispatching", "outcome_unknown">> = Tail(PDU)
<1>1. /\ P \in Seq(Events) /\ P # <<>>
      /\ PD \in Seq(Events) /\ PD # <<>>
      /\ PDU \in Seq(Events) /\ PDU # <<>>
  BY DEF P, PD, PDU, Events
<1>2. \A log \in {P, PD, PDU}, e \in Events : Tail(Append(log, e)) = Append(Tail(log), e)
  BY Zenon, <1>1, HeadTailAppend
<1>3. Tail(P) \o <<"dispatching", "outcome_unknown">> = Tail(PDU)
  BY DEF P, PDU
<1>. QED
  BY Zenon, <1>2, <1>3, LogsGrow DEF Events

\* The state that each log leaves its operation in.
LEMMA LogsLast ==
    /\ Last(P) = "prepared"
    /\ Last(PD) = "dispatching"
    /\ Last(PDU) = "outcome_unknown"
    /\ Last(PDC) = "completed"
    /\ Last(PDUC) = "completed"
BY Zenon DEF P, PD, PDU, PDC, PDUC, Last

\* The state that each log leaves the attempt in.
LEMMA TailsLast ==
    /\ Tail(P) = <<>>
    /\ Tail(PD) # <<>> /\ Last(Tail(PD)) = "dispatching"
    /\ Tail(PDU) # <<>> /\ Last(Tail(PDU)) = "outcome_unknown"
    /\ Tail(PDC) # <<>> /\ Last(Tail(PDC)) = "completed"
    /\ Tail(PDUC) # <<>> /\ Last(Tail(PDUC)) = "completed"
BY DEF P, PD, PDU, PDC, PDUC, Last

\* The logs are five.
LEMMA LogsDistinct ==
    /\ P # PD /\ P # PDU /\ P # PDC /\ P # PDUC
    /\ PD # PDU /\ PD # PDC /\ PD # PDUC
    /\ PDU # PDC /\ PDU # PDUC /\ PDC # PDUC
BY Zenon DEF P, PD, PDU, PDC, PDUC

\* Both chains of each log pass the verifier's transition checks.
LEMMA LogsValid ==
    ASSUME NEW log \in Logs
    PROVE  /\ log # <<>>
           /\ ValidChain(log, "prepared")
           /\ ValidChain(Tail(log), "dispatching")
<1>1. CASE log = P
    BY <1>1 DEF P, ValidChain
<1>2. CASE log = PD
    BY <1>2 DEF PD, ValidChain, ValidTransition
<1>3. CASE log = PDU
  <2>1. Len(PDU) = 3 /\ Len(Tail(PDU)) = 2 /\ Tail(PDU) = <<"dispatching", "outcome_unknown">>
    BY DEF PDU
  <2>2. \A i \in 1 .. 2 : i = 1 \/ i = 2
    OBVIOUS
  <2>. QED
    BY <1>3, <2>1, <2>2 DEF PDU, ValidChain, ValidTransition
<1>4. CASE log = PDC
  <2>1. Len(PDC) = 3 /\ Len(Tail(PDC)) = 2 /\ Tail(PDC) = <<"dispatching", "completed">>
    BY DEF PDC
  <2>2. \A i \in 1 .. 2 : i = 1 \/ i = 2
    OBVIOUS
  <2>. QED
    BY <1>4, <2>1, <2>2 DEF PDC, ValidChain, ValidTransition
<1>5. CASE log = PDUC
  <2>1. Len(PDUC) = 4 /\ Len(Tail(PDUC)) = 3
        /\ Tail(PDUC) = <<"dispatching", "outcome_unknown", "completed">>
    BY DEF PDUC
  <2>2. \A i \in 1 .. 3 : i = 1 \/ i = 2 \/ i = 3
    OBVIOUS
  <2>. QED
    BY <1>5, <2>1, <2>2 DEF PDUC, ValidChain, ValidTransition
<1>. QED
    BY Zenon, <1>1, <1>2, <1>3, <1>4, <1>5 DEF Logs

---------------------------------------------------------------------------------
(***************************************************************************)
(* The moves of the store.  Whatever the interleaving, a step leaves the   *)
(* evidence alone, claims one prepared operation, puts dispatching         *)
(* operations in doubt, or finishes one whose commit has reached the       *)
(* target.                                                                 *)
(***************************************************************************)
\* The evidence is left as it is.
Rests == UNCHANGED <<opLog, attLog, consumed, receipt, recon>>

\* The capability is consumed, and the attempt begins; it may be in doubt at once.
Claims(o, log) ==
    /\ opLog[o] = P
    /\ opLog' = [opLog EXCEPT ![o] = log]
    /\ attLog' = [attLog EXCEPT ![o] = Tail(log)]
    /\ consumed' = consumed \cup {o}
    /\ UNCHANGED <<receipt, recon>>

\* Operations that were dispatching become outcome_unknown.
Doubts(os) ==
    /\ \A o \in os : opLog[o] = PD
    /\ opLog' = [o \in Operations |-> IF o \in os THEN PDU ELSE opLog[o]]
    /\ attLog' = [o \in Operations |-> IF o \in os THEN Tail(PDU) ELSE attLog[o]]
    /\ UNCHANGED <<consumed, receipt, recon>>

\* An operation completes; one that was in doubt completes with a reconciliation.
Finishes(o, log) ==
    /\ <<opLog[o], log>> \in {<<PD, PDC>>, <<PDU, PDUC>>}
    /\ opLog' = [opLog EXCEPT ![o] = log]
    /\ attLog' = [attLog EXCEPT ![o] = Tail(log)]
    /\ receipt' = receipt \cup {o}
    /\ recon' \in {recon, recon \cup {o}}
    /\ log = PDUC => o \in recon'
    /\ Adapter[o] = "docker" /\ log = PDC => recon' = recon
    /\ \E p \in landed : Result[p] = Result[o]
    /\ UNCHANGED consumed

StoreStep ==
    \/ Rests
    \/ \E o \in Operations, log \in {PD, PDU} : Claims(o, log)
    \/ \E os \in SUBSET Operations : Doubts(os)
    \/ \E o \in Operations, log \in Completed : Finishes(o, log)

\* The store's own verifier accepts every store that StoreInv describes, so
\* that no route is refused by verify_current_schema.
LEMMA StoreInvVerifies ==
    StoreInv => Verified
<1>1. ASSUME StoreInv, NEW o \in Operations
      PROVE  opLog[o] \in Logs /\ attLog[o] = Tail(opLog[o])
    BY Zenon, <1>1 DEF StoreInv
<1>2. ASSUME StoreInv, NEW o \in Operations, o \in receipt
      PROVE  o \in consumed /\ attLog[o] # <<>>
    BY Zenon, <1>2, LogsDistinct, TailsLast DEF StoreInv, Completed
<1>. QED
    BY Zenon, <1>1, <1>2, LogsValid DEF StoreInv, Verified

\* Recording outcome_unknown only takes an operation out of "dispatching", or
\* changes nothing.
LEMMA MarkDoubts ==
    ASSUME StoreInv, NEW o \in Operations, MarkOutcomeUnknown(o)
    PROVE  StoreStep
<1>1. CASE UNCHANGED <<opLog, attLog>>
    BY Zenon, <1>1 DEF MarkOutcomeUnknown, StoreStep, Rests
<1>2. CASE Append2({o} \cap {p \in Operations : Dispatching(p)}, "outcome_unknown")
  <2>. DEFINE os == {o} \cap {p \in Operations : Dispatching(p)}
  <2>1. \A p \in os : opLog[p] = PD /\ attLog[p] = Tail(PD)
    BY Zenon, LogsLast DEF StoreInv, Logs, Dispatching
  <2>2. Doubts(os)
    BY Zenon, <1>2, <2>1, LogsGrow, TailsGrow DEF MarkOutcomeUnknown, Append2, Doubts
  <2>. QED
    BY Zenon, <2>2 DEF StoreStep
<1>. QED
    BY Zenon, <1>1, <1>2 DEF MarkOutcomeUnknown

\* Completing an operation that is claimed and has no receipt is a finishing
\* move, whether persistence or reconciliation does it.
LEMMA CompleteFinishes ==
    ASSUME StoreInv, NEW o \in Operations, o \in consumed, o \notin receipt,
           NEW r \in BOOLEAN, Complete(o, r),
           Last(opLog[o]) = "outcome_unknown" => r,
           Adapter[o] = "docker" /\ r => Last(opLog[o]) = "outcome_unknown",
           \E p \in landed : Result[p] = Result[o]
    PROVE  StoreStep
<1>1. opLog[o] \in {PD, PDU} /\ attLog[o] = Tail(opLog[o])
    BY Zenon DEF StoreInv, Logs, Completed
<1>. DEFINE log == IF opLog[o] = PD THEN PDC ELSE PDUC
<1>2. /\ log \in Completed
      /\ <<opLog[o], log>> \in {<<PD, PDC>>, <<PDU, PDUC>>}
  <2>1. CASE opLog[o] = PD
    BY Zenon, <2>1 DEF Completed
  <2>2. CASE opLog[o] = PDU
    BY Zenon, <2>2, LogsDistinct DEF Completed
  <2>. QED
    BY Zenon, <1>1, <2>1, <2>2
<1>a. Append(opLog[o], "completed") = log /\ Append(attLog[o], "completed") = Tail(log)
    BY Zenon, <1>1, <1>2, LogsGrow, TailsGrow
<1>. HIDE DEF log
<1>3. opLog' = [opLog EXCEPT ![o] = log] /\ attLog' = [attLog EXCEPT ![o] = Tail(log)]
    BY Zenon, <1>a DEF Complete, Append2, StoreInv
<1>4. /\ recon' \in {recon, recon \cup {o}}
      /\ log = PDUC => o \in recon'
      /\ Adapter[o] = "docker" /\ log = PDC => recon' = recon
    BY Zenon, <1>2, LogsLast, LogsDistinct DEF Complete
<1>5. Finishes(o, log)
    BY Zenon, <1>2, <1>3, <1>4 DEF Finishes, Complete
<1>. QED
    BY Zenon, <1>2, <1>5 DEF StoreStep

\* The claim's transaction starts from "prepared" alone.
LEMMA ClaimClaims ==
    ASSUME StoreInv, NEW o \in Operations, Consume(o)
    PROVE  /\ opLog[o] = P /\ attLog[o] = Tail(P)
           /\ Append(opLog[o], "dispatching") = PD
           /\ Append(attLog[o], "dispatching") = Tail(PD)
           /\ opLog[o] \o <<"dispatching", "outcome_unknown">> = PDU
           /\ attLog[o] \o <<"dispatching", "outcome_unknown">> = Tail(PDU)
<1>1. opLog[o] = P
    BY Zenon, LogsLast DEF StoreInv, Logs, Consume
<1>. QED
    BY Zenon, <1>1, LogsGrow, TailsGrow DEF StoreInv

\* Every step of every route, of the target and of the daemon's life is one of
\* the four moves on the store.
LEMMA StoreSteps ==
    ASSUME DispatchInv, [Next]_vars
    PROVE  StoreStep
<1>. USE DEF DispatchInv
<1>1. ASSUME UNCHANGED vars PROVE StoreStep
    BY Zenon, <1>1 DEF vars, StoreStep, Rests
<1>2. ASSUME UNCHANGED store PROVE StoreStep
    BY Zenon, <1>2 DEF store, StoreStep, Rests
<1>3. ASSUME NEW w \in Workers, Claim(w) PROVE StoreStep
  <2>. DEFINE o == worker[w].op
  <2>1. o \in Operations
    BY Zenon, <1>3 DEF WorkerInv, Claim
  <2>2. /\ Append(opLog[o], "dispatching") = PD
        /\ Append(attLog[o], "dispatching") = Tail(PD)
        /\ opLog[o] = P
    BY Zenon, <1>3, <2>1, ClaimClaims DEF Claim
  <2>3. Claims(o, PD)
    BY ZenonT(60), <1>3, <2>1, <2>2 DEF Claim, Consume, Append2, Claims, StoreInv
  <2>. QED
    BY Zenon, <2>1, <2>3 DEF StoreStep
<1>4. ASSUME NEW w \in Workers, ClaimUncertain(w) PROVE StoreStep
  <2>. DEFINE o == worker[w].op
  <2>1. o \in Operations
    BY Zenon, <1>4 DEF WorkerInv, ClaimUncertain
  <2>2. /\ Append(opLog[o], "dispatching") = PD
        /\ Append(attLog[o], "dispatching") = Tail(PD)
        /\ opLog[o] \o <<"dispatching", "outcome_unknown">> = PDU
        /\ attLog[o] \o <<"dispatching", "outcome_unknown">> = Tail(PDU)
        /\ opLog[o] = P
    BY ZenonT(60), <1>4, <2>1, ClaimClaims DEF ClaimUncertain
  <2>3. Claims(o, PD) \/ Claims(o, PDU)
    BY Zenon, <1>4, <2>1, <2>2 DEF ClaimUncertain, Consume, Claims, StoreInv
  <2>. QED
    BY Zenon, <2>1, <2>3 DEF StoreStep
<1>5. ASSUME NEW w \in Workers, Persist(w) PROVE StoreStep
  <2>. DEFINE o == worker[w].op
  <2>1. /\ o \in Operations /\ o \in landed /\ o \in consumed
        /\ Adapter[o] = "git" => opLog[o] = PD
    BY <1>5 DEF WorkerInv, TargetInv, StoreInv, Persist
  <2>2. CASE UNCHANGED store
    BY Zenon, <1>2, <2>2
  <2>3. CASE /\ Last(opLog[o]) # "completed"
             /\ Complete(o, Adapter[o] = "docker" /\ Last(opLog[o]) = "outcome_unknown")
    <3>1. o \notin receipt
      BY Zenon, <2>1, <2>3, LogsLast DEF StoreInv, Completed
    <3>2. Adapter[o] # "docker" => Last(opLog[o]) # "outcome_unknown"
      BY Zenon, <2>1, LogsLast, DispatchAssumption
    <3>. QED
      BY Zenon, <2>1, <2>3, <3>1, <3>2, CompleteFinishes
  <2>. QED
    BY Zenon, <1>5, <2>2, <2>3 DEF Persist
<1>6. ASSUME NEW w \in Workers, Abandon(w) PROVE StoreStep
    BY Zenon, <1>6, MarkDoubts DEF Abandon, WorkerInv
<1>7. ASSUME NEW o \in Operations, Reconcile(o) PROVE StoreStep
  <2>1. \E p \in landed : Result[p] = Result[o]
    BY Zenon, <1>7 DEF Reconcile, TargetInv
  <2>. QED
    BY Zenon, <1>7, <2>1, CompleteFinishes, DispatchAssumption DEF Reconcile
<1>8. ASSUME NEW o \in Operations, ReconcileFails(o) PROVE StoreStep
    BY Zenon, <1>8, MarkDoubts DEF ReconcileFails
<1>9. ASSUME Restart PROVE StoreStep
  <2>. DEFINE os == {o \in Operations : attLog[o] # <<>> /\ Last(attLog[o]) = "dispatching"}
  <2>1. \A o \in os : opLog[o] = PD /\ attLog[o] = Tail(PD)
    BY Zenon, TailsLast DEF StoreInv, Logs
  <2>2. Doubts(os)
    BY Zenon, <1>9, <2>1, LogsGrow, TailsGrow DEF Restart, Append2, Doubts
  <2>. QED
    BY Zenon, <2>2 DEF StoreStep
<1>10. ASSUME NEW w \in Workers, WorkerStep(w) PROVE StoreStep
    BY Zenon, <1>2, <1>3, <1>4, <1>5, <1>6, <1>10
       DEF WorkerStep, Refuse, VerifyClaim, Launch, Observe
<1>. QED
    BY Zenon, <1>1, <1>2, <1>7, <1>8, <1>9, <1>10
       DEF Next, Admit, Land, ProcessDies, MoveTarget, Crash

\* The four moves keep what the store says of its operations consistent.
LEMMA StoreInvStep ==
    ASSUME StoreInv, StoreStep
    PROVE  StoreInv'
<1>1. CASE Rests
    BY Zenon, <1>1 DEF Rests, StoreInv
<1>2. ASSUME NEW o \in Operations, NEW log \in {PD, PDU}, Claims(o, log)
      PROVE  StoreInv'
    BY Zenon, <1>2, LogsDistinct DEF Claims, StoreInv, Logs, Completed
<1>3. ASSUME NEW os \in SUBSET Operations, Doubts(os)
      PROVE  StoreInv'
    BY Zenon, <1>3, LogsDistinct DEF Doubts, StoreInv, Logs, Completed
<1>4. ASSUME NEW o \in Operations, NEW log \in Completed, Finishes(o, log)
      PROVE  StoreInv'
    BY Zenon, <1>4, LogsDistinct DEF Finishes, StoreInv, Logs, Completed
<1>. QED
    BY Zenon, <1>1, <1>2, <1>3, <1>4 DEF StoreStep

---------------------------------------------------------------------------------
(***************************************************************************)
(* The target and the workers.                                             *)
(***************************************************************************)

\* A claim and a receipt are for good, and a new receipt names a commit that
\* some process has brought to the target.
LEMMA ClaimedStays ==
    ASSUME StoreInv, StoreStep, NEW o \in Operations
    PROVE  /\ opLog[o] # P => opLog'[o] # P
           /\ receipt \subseteq receipt'
           /\ o \in receipt' => o \in receipt \/ \E p \in landed : Result[p] = Result[o]
<1>1. CASE Rests
    BY Zenon, <1>1 DEF Rests
<1>2. ASSUME NEW q \in Operations, NEW log \in {PD, PDU}, Claims(q, log)
      PROVE  receipt' = receipt /\ (opLog[o] # P => opLog'[o] # P)
    BY Zenon, <1>2, LogsDistinct DEF Claims, StoreInv
<1>3. ASSUME NEW os \in SUBSET Operations, Doubts(os)
      PROVE  receipt' = receipt /\ (opLog[o] # P => opLog'[o] # P)
    BY Zenon, <1>3, LogsDistinct DEF Doubts, StoreInv
<1>4. ASSUME NEW q \in Operations, NEW log \in Completed, Finishes(q, log)
      PROVE  /\ opLog[o] # P => opLog'[o] # P
             /\ receipt \subseteq receipt'
             /\ o \in receipt' => o \in receipt \/ \E p \in landed : Result[p] = Result[o]
    BY Zenon, <1>4, LogsDistinct DEF Finishes, StoreInv, Completed
<1>. QED
    BY Zenon, <1>1, <1>2, <1>3, <1>4 DEF StoreStep

\* No step starts a second process, lands twice, or lets the head name an
\* approved commit that no process brought there.
LEMMA TargetInvStep ==
    ASSUME DispatchInv, [Next]_vars
    PROVE  TargetInv'
<1>. USE DEF DispatchInv
<1>1. \A o \in Operations :
        /\ opLog[o] # P => opLog'[o] # P
        /\ o \in receipt' => o \in receipt \/ \E p \in landed : Result[p] = Result[o]
    BY Zenon, StoreSteps, ClaimedStays
<1>2. ASSUME UNCHANGED target PROVE TargetInv'
    BY Zenon, <1>1, <1>2 DEF target, TargetInv
<1>3. ASSUME NEW w \in Workers, Launch(w) PROVE TargetInv'
  <2>1. /\ worker[w].op \in Operations
        /\ opLog[worker[w].op] # P /\ launches[worker[w].op] = 0
    BY Zenon, <1>3 DEF Launch, WorkerInv
  <2>. QED
    BY <1>1, <1>3, <2>1 DEF Launch, TargetInv
<1>4. ASSUME NEW o \in Operations, Land(o) PROVE TargetInv'
    BY <1>1, <1>4 DEF Land, TargetInv
<1>5. ASSUME NEW o \in Operations, ProcessDies(o) PROVE TargetInv'
    BY <1>1, <1>5 DEF ProcessDies, TargetInv
<1>6. ASSUME MoveTarget PROVE TargetInv'
  <2>1. \A o \in Operations : head' # Result[o]
    BY Zenon, <1>6, DispatchAssumption DEF MoveTarget
  <2>. QED
    BY Zenon, <1>1, <1>6, <2>1 DEF MoveTarget, TargetInv
<1>7. ASSUME NEW w \in Workers, WorkerStep(w) PROVE TargetInv'
    BY Zenon, <1>2, <1>3, <1>7 DEF WorkerStep, Refuse, Claim, ClaimUncertain, VerifyClaim,
                            Observe, Persist, Abandon
<1>8. ASSUME UNCHANGED vars PROVE TargetInv'
    BY Zenon, <1>2, <1>8 DEF vars, target
<1>. QED
    BY Zenon, <1>2, <1>4, <1>5, <1>6, <1>7, <1>8
       DEF Next, Admit, Reconcile, ReconcileFails, Crash, Restart

\* Worker w alone holds the slot, at stage pc of the operation it admitted.
SlotAt(w, pc) ==
    /\ worker' \in [Workers -> [pc : Stages, op : Operations \cup {NoOp}]]
    /\ worker'[w].pc = pc /\ worker'[w].op = worker[w].op /\ worker[w].op \in Operations
    /\ \A v \in Workers \ {w} : worker'[v].pc = "idle"
    /\ \A v \in Workers : worker'[v].pc # "idle" => v = w
    /\ dispatchActive' /\ up'

\* A worker that moves on keeps its operation and the slot, and the others stay
\* idle: only what its new stage says of the operation is left to show.
LEMMA ProceedKeepsSlot ==
    ASSUME WorkerInv, NEW w \in Workers, worker[w].pc # "idle",
           NEW pc \in Stages, Proceed(w, pc)
    PROVE  SlotAt(w, pc)
<1>1. worker \in [Workers -> [pc : Stages, op : Operations \cup {NoOp}]]
      /\ worker' = [worker EXCEPT ![w].pc = pc]
    BY Zenon DEF Proceed, WorkerInv
<1>2. worker' \in [Workers -> [pc : Stages, op : Operations \cup {NoOp}]]
      /\ worker'[w].pc = pc /\ worker'[w].op = worker[w].op
    BY SMT, <1>1
<1>3. \A v \in Workers \ {w} : worker'[v] = worker[v]
    BY Zenon, <1>1
<1>4. \A v \in Workers \ {w} : worker[v].pc = "idle"
    BY Zenon DEF WorkerInv
<1>5. worker[w].op \in Operations /\ dispatchActive' /\ up'
    BY Zenon DEF Proceed, WorkerInv
<1>. QED
    BY Zenon, <1>2, <1>3, <1>4, <1>5 DEF SlotAt

\* No step gives the dispatch slot to two workers, and a git operation is left
\* alone while its worker holds the mutex.
LEMMA WorkerInvStep ==
    ASSUME DispatchInv, [Next]_vars
    PROVE  WorkerInv'
<1>. USE DEF DispatchInv
<1>1. \A o \in Operations : opLog[o] # P => opLog'[o] # P
    BY Zenon, StoreSteps, ClaimedStays
<1>2. ASSUME NEW w \in Workers, worker[w].pc # "idle", Return(w) PROVE WorkerInv'
  <2>1. worker' \in [Workers -> [pc : Stages, op : Operations \cup {NoOp}]]
    BY Zenon, <1>2 DEF Return, WorkerInv, Idle, Stages
  <2>2. \A v \in Workers : worker[w].pc # "idle" \/ worker[v].pc = "idle" => worker'[v].pc = "idle"
    BY Zenon, <1>2 DEF Return, WorkerInv, Idle
  <2>. QED
    BY Zenon, <1>2, <2>1, <2>2 DEF WorkerInv
<1>3. ASSUME NEW w \in Workers, NEW o \in Operations, Admit(w, o) PROVE WorkerInv'
    BY Zenon, <1>1, <1>3 DEF Admit, WorkerInv, Stages, store, target
<1>4. ASSUME NEW w \in Workers, Claim(w) PROVE WorkerInv'
  <2>. DEFINE o == worker[w].op
  <2>1. o \in Operations /\ worker[w].pc = "admitted"
    BY Zenon, <1>4 DEF WorkerInv, Claim
  <2>2. opLog'[o] = PD
    BY Zenon, <1>4, <2>1, ClaimClaims DEF Claim, Append2
  <2>3. launches[o] = 0 /\ launches' = launches
    BY <1>4, <2>1, ClaimClaims DEF Claim, TargetInv, target
  <2>. QED
    <3>1. opLog'[o] # P
      BY Zenon, <2>2, LogsDistinct
    <3>2. CASE Adapter[o] = "git"
      <4>1. Proceed(w, "ready") /\ mutex' = w
        BY Zenon, <1>4, <3>2 DEF Claim
      <4>. QED
        <5>1. SlotAt(w, "ready")
          BY Zenon, <2>1, <4>1, ProceedKeepsSlot DEF Stages
        <5>. QED
          BY ZenonT(60), <2>1, <2>2, <2>3, <3>1, <4>1, <5>1 DEF SlotAt, WorkerInv
    <3>3. CASE Adapter[o] # "git"
      <4>1. Proceed(w, "claimed")
        BY Zenon, <1>4, <3>3 DEF Claim
      <4>. QED
        <5>1. SlotAt(w, "claimed")
          BY Zenon, <2>1, <4>1, ProceedKeepsSlot DEF Stages
        <5>. QED
          BY ZenonT(60), <2>1, <2>2, <2>3, <3>1, <3>3, <5>1 DEF SlotAt, WorkerInv
    <3>. QED
      BY Zenon, <3>2, <3>3
<1>5. ASSUME NEW w \in Workers, VerifyClaim(w) PROVE WorkerInv'
  <2>. DEFINE o == worker[w].op
  <2>1. worker[w].pc = "claimed" /\ Proceed(w, "ready")
    BY Zenon, <1>5 DEF VerifyClaim
  <2>2. opLog' = opLog /\ launches' = launches /\ mutex' = mutex
    BY Zenon, <1>5 DEF VerifyClaim, store, target
  <2>3. /\ opLog[o] # P /\ launches[o] = 0
        /\ Adapter[o] = "git" => mutex = w /\ opLog[o] = PD
    BY Zenon, <2>1 DEF WorkerInv
  <2>. QED
    <3>1. SlotAt(w, "ready")
      BY Zenon, <2>1, ProceedKeepsSlot DEF Stages
    <3>. QED
      BY ZenonT(60), <2>1, <2>2, <2>3, <3>1 DEF SlotAt, WorkerInv
<1>6. ASSUME NEW w \in Workers, Launch(w) PROVE WorkerInv'
  <2>. DEFINE o == worker[w].op
  <2>1. worker[w].pc = "ready" /\ Proceed(w, "running")
    BY Zenon, <1>6 DEF Launch
  <2>2. opLog' = opLog /\ mutex' = mutex /\ launches' = [launches EXCEPT ![o] = @ + 1]
    BY Zenon, <1>6 DEF Launch, store
  <2>3. /\ o \in Operations /\ launches[o] = 0
        /\ Adapter[o] = "git" => mutex = w /\ opLog[o] = PD
    BY Zenon, <2>1 DEF WorkerInv
  <2>4. launches'[o] = 1
    <3>1. launches \in [Operations -> {0, 1}]
      BY Zenon DEF TargetInv
    <3>. QED
      BY SMT, <2>2, <2>3, <3>1
  <2>. QED
    <3>1. SlotAt(w, "running")
      BY Zenon, <2>1, ProceedKeepsSlot DEF Stages
    <3>. QED
      BY ZenonT(60), <2>1, <2>2, <2>3, <2>4, <3>1 DEF SlotAt, WorkerInv
<1>7. ASSUME NEW w \in Workers, Observe(w) PROVE WorkerInv'
  <2>. DEFINE o == worker[w].op
  <2>1. worker[w].pc = "running" /\ Proceed(w, "observed") /\ o \in landed
    BY Zenon, <1>7 DEF Observe
  <2>2. opLog' = opLog /\ launches' = launches /\ landed' = landed /\ mutex' = mutex
    BY Zenon, <1>7 DEF Observe, store, target
  <2>3. launches[o] = 1 /\ (Adapter[o] = "git" => mutex = w /\ opLog[o] = PD)
    BY Zenon, <2>1 DEF WorkerInv
  <2>. QED
    <3>1. SlotAt(w, "observed")
      BY Zenon, <2>1, ProceedKeepsSlot DEF Stages
    <3>. QED
      BY ZenonT(60), <2>1, <2>2, <2>3, <3>1 DEF SlotAt, WorkerInv
<1>8. ASSUME Crash PROVE WorkerInv'
    BY Zenon, <1>8 DEF Crash, WorkerInv, Stages, Idle
<1>9. ASSUME UNCHANGED daemon, launches' = launches, landed \subseteq landed',
             (\A w \in Workers : mutex # w) \/ opLog' = opLog
      PROVE  WorkerInv'
    BY Zenon, <1>1, <1>9 DEF daemon, WorkerInv
<1>10. ASSUME NEW w \in Workers, WorkerStep(w) PROVE WorkerInv'
    BY Zenon, <1>2, <1>4, <1>5, <1>6, <1>7, <1>10
       DEF WorkerStep, Refuse, ClaimUncertain, Persist, Abandon, target
<1>11. ASSUME NEW o \in Operations, Reconcile(o) \/ ReconcileFails(o) PROVE WorkerInv'
    BY Zenon, <1>9, <1>11, DispatchAssumption DEF Reconcile, ReconcileFails, target
<1>12. ASSUME NEW o \in Operations, Land(o) \/ ProcessDies(o) PROVE WorkerInv'
    BY Zenon, <1>9, <1>12 DEF Land, ProcessDies, store
<1>13. ASSUME MoveTarget PROVE WorkerInv'
    BY Zenon, <1>9, <1>13 DEF MoveTarget, store
<1>14. ASSUME Restart PROVE WorkerInv'
    BY Zenon, <1>14 DEF Restart, WorkerInv, target
<1>15. ASSUME UNCHANGED vars PROVE WorkerInv'
    BY Zenon, <1>9, <1>15 DEF vars, daemon
<1>. QED
    BY Zenon, <1>3, <1>8, <1>10, <1>11, <1>12, <1>13, <1>14, <1>15 DEF Next

---------------------------------------------------------------------------------
(***************************************************************************)
(* The theorems.                                                           *)
(***************************************************************************)

\* The inductive invariant holds in every reachable state, for any set of
\* operations, workers and commits, with lost marks, crashes and restarts.
THEOREM DispatchInvariant == Spec => []DispatchInv
<1>1. Init => DispatchInv
  <2>. SUFFICES ASSUME Init PROVE DispatchInv
    BY Zenon
  <2>1. StoreInv
    BY LogsDistinct DEF Init, StoreInv, Logs, Completed, P
  <2>2. TargetInv
    BY DispatchAssumption DEF Init, TargetInv
  <2>3. WorkerInv
    BY Zenon DEF Init, WorkerInv, Stages, Idle, NoOp
  <2>. QED
    BY Zenon, <2>1, <2>2, <2>3 DEF DispatchInv
<1>2. DispatchInv /\ [Next]_vars => DispatchInv'
    BY Zenon, StoreSteps, StoreInvStep, TargetInvStep, WorkerInvStep DEF DispatchInv
<1>. QED
    BY <1>1, <1>2, PTL DEF Spec

\* The state event chains, receipts and reconciliations pass
\* verify_current_schema whatever interleaves.
THEOREM StoreAlwaysVerifies == Spec => []StoreVerifies
<1>1. DispatchInv => StoreVerifies
    BY Zenon, StoreInvVerifies DEF DispatchInv, StoreVerifies
<1>. QED
    BY <1>1, DispatchInvariant, PTL

\* Claim, mark and completion reach the operation's chain and the attempt's
\* chain together, and the attempt exists exactly when the capability is consumed.
THEOREM ChainsAlwaysAgree == Spec => []ChainsAgree
<1>1. DispatchInv => ChainsAgree
  <2>. SUFFICES ASSUME DispatchInv, NEW o \in Operations
                PROVE  /\ attLog[o] = Tail(opLog[o])
                       /\ o \in consumed <=> attLog[o] # <<>>
    BY Zenon DEF ChainsAgree
  <2>. QED
    BY ZenonT(60), TailsLast, LogsDistinct DEF DispatchInv, StoreInv, Logs
<1>. QED
    BY <1>1, DispatchInvariant, PTL

\* One capability starts one process at most.
THEOREM NeverLaunchedTwice == Spec => []LaunchedAtMostOnce
<1>1. DispatchInv => LaunchedAtMostOnce
    BY DEF DispatchInv, StoreInv, TargetInv, LaunchedAtMostOnce
<1>. QED
    BY <1>1, DispatchInvariant, PTL

\* A receipt is accepted for an approved commit that reached the target, and
\* doubt is settled by a reconciliation record only.
THEOREM ReceiptsAreEarned == Spec => []ReceiptIsEarned
<1>1. ASSUME DispatchInv, NEW o \in Operations
      PROVE  o \in receipt <=> Last(opLog[o]) = "completed"
    BY Zenon, <1>1, LogsLast DEF DispatchInv, StoreInv, Logs, Completed
<1>2. ~\E i \in 1 .. Len(PDC) : PDC[i] = "outcome_unknown"
  <2>1. Len(PDC) = 3 /\ \A i \in 1 .. 3 : i = 1 \/ i = 2 \/ i = 3
    BY DEF PDC
  <2>. QED
    BY <2>1 DEF PDC
<1>3. \E i \in 1 .. Len(PDUC) : PDUC[i] = "outcome_unknown"
  <2>1. Len(PDUC) = 4 /\ PDUC[3] = "outcome_unknown"
    BY Zenon DEF PDUC
  <2>. QED
    BY <2>1
<1>4. ASSUME DispatchInv, NEW o \in Operations, o \in receipt,
             NEW unknown, unknown = \E i \in 1 .. Len(opLog[o]) : opLog[o][i] = "outcome_unknown"
      PROVE  /\ \E p \in landed : Result[p] = Result[o]
             /\ unknown => o \in recon
             /\ Adapter[o] = "docker" /\ o \in recon => unknown
  <2>1. opLog[o] = PDC \/ opLog[o] = PDUC
    BY Zenon, <1>4 DEF DispatchInv, StoreInv, Completed
  <2>2. \E p \in landed : Result[p] = Result[o]
    BY Zenon, <1>4 DEF DispatchInv, TargetInv
  <2>3. CASE opLog[o] = PDC
    BY Zenon, <1>2, <1>4, <2>2, <2>3, LogsDistinct DEF DispatchInv, StoreInv
  <2>4. CASE opLog[o] = PDUC
    BY Zenon, <1>3, <1>4, <2>2, <2>4 DEF DispatchInv, StoreInv
  <2>. QED
    BY Zenon, <2>1, <2>3, <2>4
<1>5. DispatchInv => ReceiptIsEarned
    BY ZenonT(60), <1>1, <1>4 DEF ReceiptIsEarned
<1>. QED
    BY <1>5, DispatchInvariant, PTL

\* When no two operations were approved with the same commit, what the
\* reconcile route settles is a process that ran.
THEOREM ReconciledRan ==
    ASSUME \A o, p \in Operations : Result[o] = Result[p] => o = p
    PROVE  Spec => []ReconciledWasLaunched
<1>1. DispatchInv => ReconciledWasLaunched
    BY DEF DispatchInv, StoreInv, TargetInv, ReconciledWasLaunched
<1>. QED
    BY <1>1, DispatchInvariant, PTL

\* When no two operations were approved with the same commit, dispatch
\* implements OneShot: claimed first, taking effect once, completed afterwards.
\* The hypothesis is needed: an operation whose commit another one brings to the
\* target is completed by the reconcile route without having run.
THEOREM DispatchIsOneShot ==
    ASSUME \A o, p \in Operations : Result[o] = Result[p] => o = p
    PROVE  Spec => ImplementsOneShot
<1>. DEFINE status == [o \in Operations |-> Last(opLog[o])]
<1>1. Init => Promise!Init
    BY ZenonT(60), LogsLast DEF Init, Promise!Init, P
<1>2. ASSUME DispatchInv, Next
      PROVE  Promise!Next \/ UNCHANGED <<status, landed>>
  <2>. USE <1>2 DEF DispatchInv
  <2>1. ASSUME NEW o \in Operations, Land(o) PROVE Promise!TakeEffect(o)
    <3>1. opLog[o] # P /\ o \notin landed
      BY Zenon, <2>1 DEF Land, TargetInv
    <3>2. status[o] # "prepared"
      BY Zenon, <3>1, LogsLast DEF StoreInv, Logs
    <3>. QED
      BY Zenon, <2>1, <3>1, <3>2 DEF Land, store, Promise!TakeEffect
  <2>2. landed' = landed \/ \E o \in Operations : Land(o)
    BY ZenonT(60) DEF Next, WorkerStep, Admit, Refuse, Claim, ClaimUncertain, VerifyClaim, Launch,
           Observe, Persist, Abandon, Reconcile, ReconcileFails, ProcessDies,
           MoveTarget, Crash, Restart, target
  <2>3. ASSUME Rests PROVE UNCHANGED status
    BY Zenon, <2>3 DEF Rests
  <2>4. ASSUME NEW o \in Operations, NEW log \in {PD, PDU}, Claims(o, log), landed' = landed
        PROVE  Promise!Claim(o)
    <3>1. status[o] = "prepared" /\ Last(log) \in {"dispatching", "outcome_unknown"}
      BY Zenon, <2>4, LogsLast DEF Claims
    <3>2. status' = [status EXCEPT ![o] = Last(log)]
      BY ZenonT(60), <2>4 DEF Claims, StoreInv
    <3>. QED
      BY Zenon, <2>4, <3>1, <3>2 DEF Promise!Claim
  <2>5. ASSUME NEW os \in SUBSET Operations, Doubts(os), landed' = landed
        PROVE  Promise!Doubt(os)
    BY Zenon, <2>5, LogsLast DEF Doubts, StoreInv, Promise!Doubt
  <2>6. ASSUME NEW o \in Operations, NEW log \in Completed, Finishes(o, log), landed' = landed
        PROVE  Promise!Finish(o)
    <3>1. status[o] \in {"dispatching", "outcome_unknown"} /\ Last(log) = "completed"
      BY Zenon, <2>6, LogsLast DEF Finishes
    <3>2. o \in landed
      BY <2>6 DEF Finishes, TargetInv
    <3>3. status' = [status EXCEPT ![o] = Last(log)]
      BY ZenonT(60), <2>6 DEF Finishes, StoreInv
    <3>. QED
      BY Zenon, <2>6, <3>1, <3>2, <3>3 DEF Promise!Finish
  <2>7. StoreStep
    BY Zenon, StoreSteps
  <2>8. CASE \E o \in Operations : Land(o)
    BY Zenon, <2>1, <2>8 DEF Promise!Next
  <2>9. CASE landed' = landed
    BY Zenon, <2>3, <2>4, <2>5, <2>6, <2>7, <2>9 DEF StoreStep, Promise!Next
  <2>. QED
    BY Zenon, <2>2, <2>8, <2>9
<1>3. UNCHANGED vars => UNCHANGED <<status, landed>>
    BY Zenon DEF vars
<1>4. DispatchInv /\ [Next]_vars => [Promise!Next]_<<status, landed>>
    BY Zenon, <1>2, <1>3
<1>. QED
    BY <1>1, <1>4, DispatchInvariant, PTL DEF Spec, ImplementsOneShot, Promise!Spec

=================================================================================
