-------------------------- MODULE ControlPlaneProofs --------------------------
(***************************************************************************)
(* The local control plane, for any sessions, requests, packets, grants    *)
(* and clock readings.  What a request in progress relies on is written    *)
(* down as a fact about the request and the tables: it stays true while    *)
(* others work because rows are never changed, a session changes only by   *)
(* being revoked, and the locks of a transaction keep everybody else from  *)
(* the rows it has read.                                                   *)
(***************************************************************************)
EXTENDS LocalControlPlane, TLAPS

WriterKinds == {"submit", "evaluate", "request"}
ReaderKinds == {"readPacket", "readPolicy", "readRequest"}
ServedKinds == WriterKinds \cup ReaderKinds

OperatorRow == [credential : Credentials, capabilities : Grants, disabled : BOOLEAN]
SessionRow == [capabilities : Grants, issued : Instants, expires : Int, revoked : BOOLEAN]

Verdicts == {decideUniversalPacketPolicy(x, now) : x \in Contents, now \in Instants}
Reasons == {reasonCodesOf(x) : x \in Contents}
IntakeRow == [content : Contents, session : Sessions, at : Instants]
DecisionRow == [content : Contents, session : Sessions, at : Instants, verdict : Verdicts]
RequestRow == [content : Contents, session : Sessions, at : Instants, reasons : Reasons]
StoredRow == IntakeRow \cup DecisionRow \cup RequestRow

AnyBody == UNION {FitBodies(kind) : kind \in ServedKinds}
IssueCall == [pc : {"createSession"}, kind : {"issue"}, record : SessionRow]
RevokeCall == [pc : {"revokeSession"}, kind : {"revoke"}, session : Sessions, at : Instants]
OpenCall == [pc : {"lock", "assert", "select", "insert"}, kind : ServedKinds,
             session : Sessions, body : AnyBody, input : IntakeRow \cup {None},
             putting : BOOLEAN]
CommitCall == [pc : {"commit"}, kind : WriterKinds, putting : {TRUE},
               session : Sessions, body : AnyBody, record : StoredRow]
Call == {Idle} \cup IssueCall \cup RevokeCall \cup OpenCall \cup CommitCall

PlaneTypeOK ==
    /\ clock \in Instants
    /\ operator \in OperatorRow \cup {None}
    /\ session \in [Sessions -> SessionRow \cup {None}]
    /\ row \in [Tables -> [Packets -> StoredRow \cup {None}]]
    /\ \A p \in Packets : row["intake"][p] \in IntakeRow \cup {None}
    /\ call \in [Calls -> Call]

-----------------------------------------------------------------------------
(***************************************************************************)
(* What a request j relies on, of the sessions, the operator's row and the *)
(* tables.                                                                 *)
(***************************************************************************)
\* Its session and its operator have not been withdrawn.
Standing(j, sessions, op) ==
    /\ sessions[j.session] # None
    /\ ~sessions[j.session].revoked
    /\ ~op.disabled

Free(j, rows) == rows[Writers[j.kind]][j.body.packet] = None

\* A request before its insert: the packet an evaluation has read is still the
\* one stored, and whoever is about to insert has found no row.
OpenFit(j, sessions, op, rows) ==
    /\ j.body \in FitBodies(j.kind)
    /\ j.putting \/ j.pc \in {"lock", "insert"} => j.kind \in WriterKinds
    /\ j.kind \in {"submit", "request"} /\ j.pc # "lock" => j.putting
    /\ j.pc = "insert" => j.putting
    /\ j.kind = "evaluate" /\ (j.putting \/ j.pc = "lock") => j.input # None
    /\ j.input # None => j.input = rows["intake"][j.body.packet]
    /\ j.pc \in {"select", "insert"} => Standing(j, sessions, op)
    /\ j.pc = "insert" => Free(j, rows)
    /\ j.pc = "insert" /\ j.kind = "request" => rows["decision"][j.body.packet] # None

\* A row of a table was dated inside the lifetime of its session, which has the
\* capability for the table.
Earned(r, t, sessions) ==
    /\ sessions[r.session] # None
    /\ sessions[r.session].issued <= r.at /\ r.at < sessions[r.session].expires
    /\ RequiredCapability[t] \in sessions[r.session].capabilities

DecisionFollows(d, i) ==
    /\ i # None /\ d.content = i.content /\ i.at <= d.at
    /\ d.verdict = decideUniversalPacketPolicy(i.content, i.at)

RequestFollows(r, d) ==
    /\ d # None /\ d.verdict.kind = "approval_required"
    /\ r.content = d.content /\ r.reasons = d.verdict.reasons

\* A request whose row is inserted and not yet committed.
CommitFit(j, sessions, op, rows) ==
    /\ j.record.session = j.session
    /\ Standing(j, sessions, op)
    /\ Free(j, rows)
    /\ Earned(j.record, Writers[j.kind], sessions)
    /\ j.kind = "submit" => j.record \in IntakeRow
    /\ j.kind = "evaluate" => DecisionFollows(j.record, rows["intake"][j.body.packet])
    /\ j.kind = "request" => RequestFollows(j.record, rows["decision"][j.body.packet])

Fit(j, sessions, op, rows) ==
    /\ j.pc = "revokeSession" => sessions[j.session] # None
    /\ j.pc \in {"lock", "assert", "select", "insert"} => OpenFit(j, sessions, op, rows)
    /\ j.pc = "commit" => CommitFit(j, sessions, op, rows)

\* The lock of a table and a packet has one holder.
Holds(j) == j.pc \in {"assert", "select", "insert", "commit"} /\ j.putting
Alike(j, k) == TableOf(j.kind) = TableOf(k.kind) /\ j.body.packet = k.body.packet

LockInv ==
    \A c, d \in Calls : c # d /\ Holds(call[c]) /\ Holds(call[d]) => ~Alike(call[c], call[d])

RowsEarned(sessions, rows) ==
    \A t \in Tables, p \in Packets : rows[t][p] # None => Earned(rows[t][p], t, sessions)

ChainsFollow(rows) ==
    \A p \in Packets :
       /\ rows["decision"][p] # None => DecisionFollows(rows["decision"][p], rows["intake"][p])
       /\ rows["request"][p] # None => RequestFollows(rows["request"][p], rows["decision"][p])

PlaneInv ==
    /\ PlaneTypeOK
    /\ \A c \in Calls : Fit(call[c], session, operator, row)
    /\ LockInv
    /\ RowsEarned(session, row)
    /\ ChainsFollow(row)

-----------------------------------------------------------------------------
\* The kinds of request that touch a table, and the table each touches.
LEMMA KindFacts ==
    /\ DOMAIN Writers = WriterKinds /\ DOMAIN Readers = ReaderKinds
    /\ TableOf("submit") = "intake" /\ TableOf("readPacket") = "intake"
    /\ TableOf("evaluate") = "decision" /\ TableOf("readPolicy") = "decision"
    /\ TableOf("request") = "request" /\ TableOf("readRequest") = "request"
    /\ \A kind \in WriterKinds : TableOf(kind) = Writers[kind] /\ Writers[kind] \in Tables
    /\ Writers["submit"] = "intake" /\ Writers["evaluate"] = "decision"
    /\ Writers["request"] = "request"
    /\ \A kind : Serves(kind) <=> kind \in ServedKinds
<1>1. DOMAIN Writers = WriterKinds /\ DOMAIN Readers = ReaderKinds
  BY SMTT(60) DEF Writers, Readers, WriterKinds, ReaderKinds
<1>2. /\ Writers["submit"] = "intake" /\ Writers["evaluate"] = "decision"
      /\ Writers["request"] = "request" /\ Readers["readPacket"] = "intake"
      /\ Readers["readPolicy"] = "decision" /\ Readers["readRequest"] = "request"
  BY SMTT(60) DEF Writers, Readers
<1>3. \A kind \in WriterKinds : TableOf(kind) = Writers[kind] /\ Writers[kind] \in Tables
  BY SMTT(60), <1>1, <1>2 DEF WriterKinds, TableOf, Tables
<1>4. \A kind \in ReaderKinds : TableOf(kind) = Readers[kind]
  BY SMTT(60), <1>1 DEF WriterKinds, ReaderKinds, TableOf
<1>5. \A kind : Serves(kind) <=> kind \in ServedKinds
  BY Zenon, <1>1 DEF Serves, ServedKinds
<1>. QED
  BY SMTT(60), <1>1, <1>2, <1>3, <1>4, <1>5 DEF WriterKinds, ReaderKinds

\* A body that parses names a packet, and what its kind of request is about.
LEMMA BodyFacts ==
    ASSUME NEW kind \in ServedKinds, NEW body \in FitBodies(kind)
    PROVE  /\ body \in AnyBody
           /\ body.packet \in Packets
           /\ kind \in {"submit", "request"} => body.content \in Contents
           /\ kind = "request" => body.reasons \in Reasons
<1>1. body \in AnyBody
  BY Zenon DEF AnyBody
<1>2. CASE kind = "submit"
  BY SMTT(60), <1>1, <1>2 DEF FitBodies
<1>3. CASE kind = "request"
  BY SMTT(60), <1>1, <1>3 DEF FitBodies, Reasons
<1>4. CASE kind \notin {"submit", "request"}
  BY SMTT(60), <1>1, <1>4 DEF FitBodies
<1>. QED
  BY Zenon, <1>2, <1>3, <1>4

\* Any body that parses names a packet.
LEMMA AnyBodyFacts == \A body \in AnyBody : body.packet \in Packets
  BY Zenon, BodyFacts DEF AnyBody

\* Where a request stands tells what it carries.
LEMMA PcShape ==
    ASSUME NEW j \in Call
    PROVE  /\ j.pc = "createSession" => j \in IssueCall
           /\ j.pc = "revokeSession" => j \in RevokeCall
           /\ j.pc \in {"lock", "assert", "select", "insert"} => j \in OpenCall
           /\ j.pc = "commit" => j \in CommitCall
<1>1. /\ \A k \in IssueCall : k.pc = "createSession"
      /\ \A k \in RevokeCall : k.pc = "revokeSession"
      /\ \A k \in OpenCall : k.pc \in {"lock", "assert", "select", "insert"}
      /\ \A k \in CommitCall : k.pc = "commit"
      /\ Idle.pc = "idle"
  BY Zenon DEF IssueCall, RevokeCall, OpenCall, CommitCall, Idle
<1>. QED
  BY SMTT(60), <1>1 DEF Call

\* The same of the request in a slot.
LEMMA CallShape ==
    ASSUME PlaneTypeOK, NEW c \in Calls
    PROVE  /\ call[c] \in Call
           /\ call[c].pc = "createSession" => call[c] \in IssueCall
           /\ call[c].pc = "revokeSession" => call[c] \in RevokeCall
           /\ call[c].pc \in {"lock", "assert", "select", "insert"} => call[c] \in OpenCall
           /\ call[c].pc = "commit" => call[c] \in CommitCall
<1>1. call[c] \in Call
  BY Zenon DEF PlaneTypeOK
<1>. QED
  BY Zenon, <1>1, PcShape

\* The fields of a request before its insert.
LEMMA OpenShape ==
    ASSUME NEW j \in OpenCall
    PROVE  /\ j.kind \in ServedKinds /\ j.session \in Sessions /\ j.body \in AnyBody
           /\ j.body.packet \in Packets /\ j.input \in IntakeRow \cup {None}
           /\ j.putting \in BOOLEAN
  BY Zenon, AnyBodyFacts DEF OpenCall

\* The fields of a request whose row is inserted.
LEMMA CommitShape ==
    ASSUME NEW j \in CommitCall
    PROVE  /\ j.kind \in WriterKinds /\ j.session \in Sessions /\ j.body \in AnyBody
           /\ j.body.packet \in Packets /\ j.record \in StoredRow /\ j.putting
  BY Zenon, AnyBodyFacts DEF CommitCall

\* One request goes on or ends and nothing else changes.
LEMMA ContinueKeeps ==
    ASSUME PlaneInv, NEW c \in Calls, NEW next \in Call,
           call' = [call EXCEPT ![c] = next], UNCHANGED <<clock, operator, session, row>>,
           Fit(next, session, operator, row),
           \A d \in Calls \ {c} : Holds(next) /\ Holds(call[d]) => ~Alike(next, call[d])
    PROVE  PlaneInv'
<1>1. call \in [Calls -> Call]
  BY Zenon DEF PlaneInv, PlaneTypeOK
<1>2. call' \in [Calls -> Call] /\ call'[c] = next
      /\ \A d \in Calls : d # c => call'[d] = call[d]
  BY Zenon, <1>1
<1>3. PlaneTypeOK'
  BY Zenon, <1>2 DEF PlaneInv, PlaneTypeOK
<1>4. \A d \in Calls : Fit(call'[d], session', operator', row')
  BY Zenon, <1>2 DEF PlaneInv
<1>5. LockInv'
  <2>1. \A j, k : Alike(j, k) => Alike(k, j)
    BY Zenon DEF Alike
  <2>. QED
    BY Zenon, <1>2, <2>1 DEF PlaneInv, LockInv
<1>. QED
  BY Zenon, <1>3, <1>4, <1>5 DEF PlaneInv

\* A request ends, with whatever answer.
LEMMA AnswerKeeps ==
    ASSUME PlaneInv, NEW c \in Calls, call' = [call EXCEPT ![c] = Idle],
           UNCHANGED <<clock, operator, session, row>>
    PROVE  PlaneInv'
<1>1. Idle \in Call /\ Idle.pc = "idle"
  BY Zenon DEF Call, Idle
<1>2. ~Holds(Idle)
  BY SMTT(60), <1>1 DEF Holds
<1>3. Fit(Idle, session, operator, row)
  BY SMTT(60), <1>1 DEF Fit
<1>. QED
  BY Zenon, <1>1, <1>2, <1>3, ContinueKeeps

-----------------------------------------------------------------------------
\* A sign-in carries the session that it will store.
LEMMA IssueKeeps ==
    ASSUME PlaneInv, NEW c \in Calls, BeginIssue(c)
    PROVE  PlaneInv'
<1> DEFINE record(ttl) == [capabilities |-> operator.capabilities, issued |-> clock,
                           expires |-> clock + ttl, revoked |-> FALSE]
           next(ttl) == [pc |-> "createSession", kind |-> "issue", record |-> record(ttl)]
<1>1. PICK ttl \in Ttls :
        \/ call' = [call EXCEPT ![c] = Idle]
        \/ operator # None /\ call' = [call EXCEPT ![c] = next(ttl)]
  BY Zenon DEF BeginIssue, Answer, Continue
<1>2. UNCHANGED <<clock, operator, session, row>>
  BY Zenon DEF BeginIssue
<1>3. CASE operator # None /\ call' = [call EXCEPT ![c] = next(ttl)]
  <2>1. operator.capabilities \in Grants
    BY Zenon, <1>3 DEF PlaneInv, PlaneTypeOK, OperatorRow
  <2>2. clock + ttl \in Int /\ clock \in Instants
    BY SMTT(60), LocalAssumption DEF PlaneInv, PlaneTypeOK
  <2>3. record(ttl) \in SessionRow
    BY Zenon, <2>1, <2>2 DEF SessionRow
  <2>4. next(ttl) \in IssueCall /\ next(ttl).pc = "createSession"
    <3>. HIDE DEF record
    <3>. QED
      BY Zenon, <2>3 DEF IssueCall
  <2>. HIDE DEF next
  <2>5. next(ttl) \in Call /\ Fit(next(ttl), session, operator, row) /\ ~Holds(next(ttl))
    BY SMTT(60), <2>4 DEF Call, Fit, Holds
  <2>. QED
    BY Zenon, <1>2, <1>3, <2>5, ContinueKeeps
<1>. QED
  BY Zenon, <1>1, <1>2, <1>3, AnswerKeeps

\* A verified token names a session that exists.
LEMMA VerifiedExists ==
    ASSUME NEW kind, NEW token \in Sessions, NEW proof \in Sessions, NEW checkedAt,
           authorizeRequest(kind, token, proof, checkedAt) = "ok"
    PROVE  session[token] # None
<1>1. verifyToken(token, proof, checkedAt) = "ok"
  BY Zenon DEF authorizeRequest, authorize
<1>2. "invalid_session" # "ok"
  BY SMTT(60)
<1>. QED
  BY Zenon, <1>1, <1>2 DEF verifyToken

\* A body without a fault is one that parses.
LEMMA ParsedBody ==
    ASSUME NEW kind \in ServedKinds, NEW body \in Bodies(kind), body.fault = "none"
    PROVE  body \in FitBodies(kind)
<1>1. /\ \A b \in [fault : {"invalid_request"}] : b.fault # "none"
      /\ \A k \in WriterKinds : \A b \in [fault : Faults[k]] : b.fault # "none"
  BY SMTT(60) DEF Faults, WriterKinds
<1>2. DOMAIN Writers = WriterKinds /\ DOMAIN Readers = ReaderKinds
  BY Zenon, KindFacts
<1>. QED
  BY Zenon, <1>1, <1>2 DEF Bodies, ServedKinds

\* A request that passes the route's check begins with nothing read and no
\* lock.
LEMMA VerifyKeeps ==
    ASSUME PlaneInv, NEW c \in Calls, Verify(c)
    PROVE  PlaneInv'
<1> DEFINE revoking(token) == [pc |-> "revokeSession", kind |-> "revoke",
                               session |-> token, at |-> clock]
<1>0. PICK kind \in Kinds, token \in Sessions, proof \in Sessions, checkedAt \in Instants :
        IF authorizeRequest(kind, token, proof, checkedAt) # "ok"
        THEN Answer(c, authorizeRequest(kind, token, proof, checkedAt), None)
        ELSE IF kind \in {"view", "readback"} THEN Answer(c, "ok", session[token])
        ELSE IF kind = "revoke" THEN Continue(c, revoking(token))
        ELSE \E body \in Bodies(kind) :
                IF body.fault # "none" THEN Answer(c, body.fault, None)
                ELSE Continue(c, Opened(kind, token, body))
  BY Zenon DEF Verify
<1>1. \/ call' = [call EXCEPT ![c] = Idle]
      \/ /\ authorizeRequest(kind, token, proof, checkedAt) = "ok"
         /\ call' = [call EXCEPT ![c] = revoking(token)]
      \/ /\ kind \notin {"view", "readback", "revoke"}
         /\ \E body \in Bodies(kind) :
              body.fault = "none" /\ call' = [call EXCEPT ![c] = Opened(kind, token, body)]
  <2>. HIDE DEF revoking
  <2>. QED
    BY Zenon, <1>0 DEF Answer, Continue
<1>2. UNCHANGED <<clock, operator, session, row>>
  BY Zenon DEF Verify
<1>3. CASE /\ authorizeRequest(kind, token, proof, checkedAt) = "ok"
           /\ call' = [call EXCEPT ![c] = revoking(token)]
  <2>1. session[token] # None
    BY Zenon, <1>3, VerifiedExists
  <2>2. revoking(token) \in RevokeCall /\ revoking(token).pc = "revokeSession"
        /\ revoking(token).session = token
    BY Zenon DEF PlaneInv, PlaneTypeOK, RevokeCall
  <2>. HIDE DEF revoking
  <2>3. revoking(token) \in Call /\ ~Holds(revoking(token))
        /\ Fit(revoking(token), session, operator, row)
    BY SMTT(60), <2>1, <2>2 DEF Call, Fit, Holds
  <2>. QED
    BY Zenon, <1>2, <1>3, <2>3, ContinueKeeps
<1>4. CASE /\ kind \notin {"view", "readback", "revoke"}
           /\ \E body \in Bodies(kind) :
                body.fault = "none" /\ call' = [call EXCEPT ![c] = Opened(kind, token, body)]
  <2>1. kind \in ServedKinds
    BY Zenon, <1>4, KindFacts DEF Kinds, ServedKinds
  <2>2. PICK body \in Bodies(kind) :
          body.fault = "none" /\ call' = [call EXCEPT ![c] = Opened(kind, token, body)]
    BY Zenon, <1>4
  <2>3. body \in FitBodies(kind) /\ body \in AnyBody
    BY Zenon, <2>1, <2>2, ParsedBody, BodyFacts
  <2> DEFINE j == Opened(kind, token, body)
  <2>4. /\ j.kind = kind /\ j.session = token /\ j.body = body /\ j.input = None
        /\ j.putting = FALSE
        /\ j.pc = IF kind \in {"submit", "request"} THEN "lock" ELSE "assert"
    BY Zenon DEF Opened
  <2>5. j \in OpenCall
    BY SMTT(60), <2>1, <2>3 DEF Opened, OpenCall
  <2>. HIDE DEF j
  <2>6. OpenFit(j, session, operator, row)
    BY SMTT(60), <2>3, <2>4 DEF OpenFit, WriterKinds
  <2>7. j \in Call /\ ~Holds(j) /\ Fit(j, session, operator, row)
    BY SMTT(60), <2>4, <2>5, <2>6 DEF Call, Fit, Holds
  <2>. QED
    BY Zenon, <1>2, <2>2, <2>7, ContinueKeeps DEF j
<1>. QED
  BY Zenon, <1>1, <1>2, <1>3, <1>4, AnswerKeeps

\* A step of a request that only moves on keeps what the request carries.
LEMMA MovedCall ==
    ASSUME NEW j \in OpenCall, NEW pc \in {"lock", "assert", "select", "insert"}
    PROVE  LET next == [j EXCEPT !.pc = pc]
           IN  /\ next \in OpenCall /\ next.pc = pc /\ next.kind = j.kind
               /\ next.session = j.session /\ next.body = j.body /\ next.input = j.input
               /\ next.putting = j.putting
  BY Zenon DEF OpenCall

\* The advisory lock of a table and a packet is taken when nobody has it.
LEMMA LockKeeps ==
    ASSUME PlaneInv, NEW c \in Calls, Lock(c)
    PROVE  PlaneInv'
<1> DEFINE j == call[c]
           next == [j EXCEPT !.pc = "assert", !.putting = TRUE]
<1>1. j.pc = "lock" /\ LockFree(c) /\ call' = [call EXCEPT ![c] = next]
      /\ UNCHANGED <<clock, operator, session, row>>
  BY Zenon DEF Lock, Continue
<1>2. j \in OpenCall /\ OpenFit(j, session, operator, row)
  BY Zenon, <1>1, CallShape DEF PlaneInv, Fit
<1>3. next \in OpenCall /\ next.pc = "assert" /\ next.kind = j.kind
      /\ next.session = j.session /\ next.body = j.body /\ next.input = j.input
      /\ next.putting = TRUE
  <2>. HIDE DEF j
  <2>. QED
    BY Zenon, <1>2 DEF OpenCall
<1>4. \A d \in Calls \ {c} : Holds(call[d]) => ~Alike(next, call[d])
  <2>1. \A d \in Calls \ {c} : Holds(call[d]) => ~Alike(j, call[d])
    BY Zenon, <1>1 DEF LockFree, HoldsLock, Same, Holds, Alike
  <2>. QED
    BY Zenon, <1>3, <2>1 DEF Alike
<1>. HIDE DEF next, j
<1>5. OpenFit(next, session, operator, row)
  BY SMTT(60), <1>1, <1>2, <1>3 DEF OpenFit
<1>6. next \in Call /\ Fit(next, session, operator, row)
  BY SMTT(60), <1>3, <1>5 DEF Call, Fit
<1>. QED
  BY Zenon, <1>1, <1>4, <1>6, ContinueKeeps

\* The transaction's own check finds a session and an operator in force.
LEMMA AssertKeeps ==
    ASSUME PlaneInv, NEW c \in Calls, assertCurrentAuthorization(c)
    PROVE  PlaneInv'
<1> DEFINE j == call[c]
           next == [j EXCEPT !.pc = "select"]
<1>1. j.pc = "assert" /\ UNCHANGED <<clock, operator, session, row>>
  BY Zenon DEF assertCurrentAuthorization
<1>2. \/ call' = [call EXCEPT ![c] = Idle]
      \/ Current(c) /\ call' = [call EXCEPT ![c] = next]
  BY Zenon DEF assertCurrentAuthorization, Answer, Continue
<1>3. j \in OpenCall /\ OpenFit(j, session, operator, row)
  BY Zenon, <1>1, CallShape DEF PlaneInv, Fit
<1>4. CASE Current(c) /\ call' = [call EXCEPT ![c] = next]
  <2>1. Standing(j, session, operator)
    BY Zenon, <1>4 DEF Current, Live, Standing
  <2>2. next \in OpenCall /\ next.pc = "select" /\ next.kind = j.kind
        /\ next.session = j.session /\ next.body = j.body /\ next.input = j.input
        /\ next.putting = j.putting
    BY Zenon, <1>3, MovedCall
  <2>3. \A d \in Calls \ {c} : Holds(next) /\ Holds(call[d]) => ~Alike(next, call[d])
    <3>1. Holds(next) => Holds(j)
      BY Zenon, <1>1, <2>2 DEF Holds
    <3>2. \A k : Alike(next, k) => Alike(j, k)
      BY Zenon, <2>2 DEF Alike
    <3>. QED
      BY Zenon, <3>1, <3>2 DEF PlaneInv, LockInv
  <2>. HIDE DEF next, j
  <2>4. OpenFit(next, session, operator, row)
    BY SMTT(60), <1>1, <1>3, <2>1, <2>2 DEF OpenFit, Standing
  <2>5. next \in Call /\ Fit(next, session, operator, row)
    BY SMTT(60), <2>2, <2>4 DEF Call, Fit
  <2>. QED
    BY Zenon, <1>1, <1>4, <2>3, <2>5, ContinueKeeps
<1>. QED
  BY Zenon, <1>1, <1>2, <1>4, AnswerKeeps

-----------------------------------------------------------------------------
\* An answer a repository may give: a conflict is about a real difference, and
\* a row that is shown is the one stored.
TrueAnswer(c) ==
    \E code, shown :
       /\ Answer(c, code, shown)
       /\ code # "created"
       /\ code = "conflict" => Differs(c)
       /\ code = "ok" => Subject(c) = shown

\* What reading the tables leads to: an answer, a packet to decide about, or an
\* insert that has found its place free.
SelectOutcome(c) ==
    \/ TrueAnswer(c)
    \/ /\ call[c].kind = "evaluate" /\ ~call[c].putting /\ Stored(c, "intake") # None
       /\ Continue(c, [call[c] EXCEPT !.pc = "lock", !.input = Stored(c, "intake")])
    \/ /\ call[c].kind \in WriterKinds /\ call[c].putting /\ Free(call[c], row)
       /\ call[c].kind = "request" => Stored(c, "decision") # None
       /\ Continue(c, [call[c] EXCEPT !.pc = "insert"])

\* The codes of the answers are different strings.
LEMMA CodeFacts ==
    /\ "ok" # "created" /\ "conflict" # "created" /\ "not_found" # "created"
    /\ "not_reviewable" # "created" /\ "conflict" # "ok" /\ "not_found" # "ok"
    /\ "not_reviewable" # "ok" /\ "not_found" # "conflict" /\ "not_reviewable" # "conflict"
    /\ "storage_unavailable" \notin {"created", "ok", "conflict"}
    /\ "authorization_changed" \notin {"created", "ok", "conflict"}
    /\ "revoked_session" \notin {"created", "ok", "conflict"}
  BY SMTT(60)

\* A row that is shown, or is not there.
LEMMA ShownOutcome ==
    ASSUME NEW c \in Calls, Shown(c, Subject(c))
    PROVE  TrueAnswer(c)
  BY Zenon, CodeFacts DEF Shown, TrueAnswer

\* A row that is there already, and differs or does not.
LEMMA ExistingOutcome ==
    ASSUME NEW c \in Calls, NEW matches, Existing(c, Subject(c), matches),
           call[c].kind \in WriterKinds, call[c].putting,
           call[c].kind = "request" => Stored(c, "decision") # None,
           Subject(c) # None /\ ~matches => Differs(c)
    PROVE  SelectOutcome(c)
<1>1. Subject(c) = None => Free(call[c], row)
  BY Zenon, KindFacts DEF Subject, Free
<1>2. Subject(c) # None => TrueAnswer(c)
  BY Zenon, CodeFacts DEF Existing, TrueAnswer
<1>. QED
  BY Zenon, <1>1, <1>2 DEF Existing, SelectOutcome

\* The statement a request runs is the one of its kind.
LEMMA SelectByKind ==
    ASSUME NEW c \in Calls, Select(c), call[c].kind \in ServedKinds,
           call[c].putting \in BOOLEAN
    PROVE  \/ call[c].kind = "readPacket" /\ readPacket(c)
           \/ call[c].kind = "readPolicy" /\ readPolicy(c)
           \/ call[c].kind = "readRequest" /\ readRequest(c)
           \/ call[c].kind = "submit" /\ putIntake(c)
           \/ call[c].kind = "evaluate" /\ ~call[c].putting /\ LoadInput(c)
           \/ call[c].kind = "evaluate" /\ call[c].putting /\ putDecision(c)
           \/ call[c].kind = "request" /\ putRequest(c)
<1>1. CASE call[c].kind = "readPacket"
  BY SMTT(60), <1>1 DEF Select
<1>2. CASE call[c].kind = "readPolicy"
  BY SMTT(60), <1>2 DEF Select
<1>3. CASE call[c].kind = "readRequest"
  BY SMTT(60), <1>3 DEF Select
<1>4. CASE call[c].kind = "submit"
  BY SMTT(60), <1>4 DEF Select
<1>5. CASE call[c].kind = "request"
  BY SMTT(60), <1>5 DEF Select
<1>6. CASE call[c].kind = "evaluate" /\ ~call[c].putting
  BY SMTT(60), <1>6 DEF Select
<1>7. CASE call[c].kind = "evaluate" /\ call[c].putting
  BY SMTT(60), <1>7 DEF Select
<1>. QED
  BY Zenon, <1>1, <1>2, <1>3, <1>4, <1>5, <1>6, <1>7 DEF ServedKinds, WriterKinds, ReaderKinds

\* What the statements of the three repositories lead to.
LEMMA SelectOutcomes ==
    ASSUME PlaneInv, NEW c \in Calls, Select(c)
    PROVE  SelectOutcome(c)
<1> DEFINE j == call[c]
           p == call[c].body.packet
<1>1. j.pc = "select"
  BY Zenon DEF Select
<1>2. j \in OpenCall /\ OpenFit(j, session, operator, row)
  BY Zenon, <1>1, CallShape DEF PlaneInv, Fit
<1>3. j.kind \in ServedKinds /\ p \in Packets /\ j.putting \in BOOLEAN
  BY Zenon, <1>2, OpenShape
<1>4. CASE j.kind = "readPacket" /\ readPacket(c)
  <2>1. Stored(c, "intake") = Subject(c)
    BY Zenon, <1>4, KindFacts DEF Subject, Stored
  <2>. QED
    BY Zenon, <1>4, <2>1, ShownOutcome DEF readPacket, SelectOutcome
<1>5. CASE j.kind = "readPolicy" /\ readPolicy(c)
  <2>1. Stored(c, "decision") = Subject(c)
    BY Zenon, <1>5, KindFacts DEF Subject, Stored
  <2>2. Stored(c, "decision") # None => Stored(c, "decision").verdict =
          decideUniversalPacketPolicy(Stored(c, "intake").content, Stored(c, "intake").at)
    BY Zenon, <1>3 DEF PlaneInv, ChainsFollow, DecisionFollows, Stored
  <2>. QED
    BY Zenon, <1>5, <2>1, <2>2, ShownOutcome DEF readPolicy, SelectOutcome
<1>6. CASE j.kind = "readRequest" /\ readRequest(c)
  <2>1. Stored(c, "request") = Subject(c)
    BY Zenon, <1>6, KindFacts DEF Subject, Stored
  <2>. QED
    BY Zenon, <1>6, <2>1, ShownOutcome DEF readRequest, SelectOutcome
<1>7. CASE j.kind = "submit" /\ putIntake(c)
  <2>1. Stored(c, "intake") = Subject(c)
    BY Zenon, <1>7, KindFacts DEF Subject, Stored
  <2>2. Stored(c, "intake").content # j.body.content => Differs(c)
    BY SMTT(60), <1>7 DEF Differs
  <2>3. j.putting /\ j.kind \in WriterKinds /\ j.kind # "request"
    BY SMTT(60), <1>1, <1>2, <1>7 DEF OpenFit, WriterKinds
  <2>. QED
    BY Zenon, <1>7, <2>1, <2>2, <2>3, ExistingOutcome DEF putIntake
<1>8. CASE j.kind = "evaluate" /\ ~j.putting /\ LoadInput(c)
  BY Zenon, <1>8, CodeFacts DEF LoadInput, SelectOutcome, TrueAnswer
<1>9. CASE j.kind = "evaluate" /\ j.putting /\ putDecision(c)
  <2>1. Stored(c, "decision") = Subject(c)
    BY Zenon, <1>9, KindFacts DEF Subject, Stored
  <2>2. j.input # None /\ j.input = Stored(c, "intake")
    BY Zenon, <1>2, <1>9 DEF OpenFit, Stored
  <2>3. Stored(c, "decision") # None => Stored(c, "decision").verdict = verdictOf(c)
    BY Zenon, <1>3, <2>2 DEF PlaneInv, ChainsFollow, DecisionFollows, Stored, verdictOf
  <2>4. Existing(c, Subject(c), Stored(c, "decision").verdict = verdictOf(c))
    BY Zenon, <1>9, <2>1, <2>2 DEF putDecision
  <2>5. j.kind \in WriterKinds /\ j.kind # "request"
    BY SMTT(60), <1>9 DEF WriterKinds
  <2>. QED
    BY Zenon, <1>9, <2>1, <2>3, <2>4, <2>5, ExistingOutcome
<1>10. CASE j.kind = "request" /\ putRequest(c)
  <2> DEFINE policy == Stored(c, "decision")
             stored == Stored(c, "request")
             matches == /\ stored.content = j.body.content
                        /\ stored.reasons = j.body.reasons
                        /\ stored.session = j.session
  <2>1. stored = Subject(c)
    BY Zenon, <1>10, KindFacts DEF Subject, Stored
  <2>2. j.putting /\ j.kind \in WriterKinds
    BY SMTT(60), <1>1, <1>2, <1>10 DEF OpenFit, WriterKinds
  <2>3. Differs(c) <=> \/ policy.content # j.body.content
                       \/ policy.verdict.reasons # j.body.reasons
                       \/ stored # None /\ stored.session # j.session
    BY SMTT(60), <1>10 DEF Differs
  <2>4. stored # None => stored.content = policy.content
                         /\ stored.reasons = policy.verdict.reasons
    BY Zenon, <1>3 DEF PlaneInv, ChainsFollow, RequestFollows, Stored
  <2>5. stored # None /\ ~matches => Differs(c)
    BY Zenon, <2>3, <2>4
  <2>6. \/ Answer(c, "not_found", None) \/ Answer(c, "not_reviewable", None)
        \/ Answer(c, "storage_unavailable", None)
        \/ Differs(c) /\ Answer(c, "conflict", None)
        \/ policy # None /\ Existing(c, stored, matches)
    BY Zenon, <1>10, <2>3 DEF putRequest
  <2>7. CASE policy # None /\ Existing(c, stored, matches)
    <3>. HIDE DEF stored, matches
    <3>. QED
      BY Zenon, <2>1, <2>2, <2>5, <2>7, ExistingOutcome
  <2>8. CASE Answer(c, "storage_unavailable", None)
    BY Zenon, <2>8, CodeFacts DEF SelectOutcome, TrueAnswer
  <2>. QED
    BY Zenon, <2>6, <2>7, <2>8, CodeFacts DEF SelectOutcome, TrueAnswer
<1>. QED
  BY Zenon, <1>3, <1>4, <1>5, <1>6, <1>7, <1>8, <1>9, <1>10, SelectByKind

\* A request that has read its tables goes on with what it has found.
LEMMA SelectKeeps ==
    ASSUME PlaneInv, NEW c \in Calls, Select(c)
    PROVE  PlaneInv'
<1> DEFINE j == call[c]
           loaded == [j EXCEPT !.pc = "lock", !.input = Stored(c, "intake")]
           inserting == [j EXCEPT !.pc = "insert"]
<1>1. j.pc = "select" /\ UNCHANGED <<clock, operator, session, row>>
  BY Zenon DEF Select
<1>2. j \in OpenCall /\ OpenFit(j, session, operator, row)
  BY Zenon, <1>1, CallShape DEF PlaneInv, Fit
<1>3. j.body.packet \in Packets
  BY Zenon, <1>2, OpenShape
<1>4. CASE TrueAnswer(c)
  BY Zenon, <1>1, <1>4, AnswerKeeps DEF TrueAnswer, Answer
<1>5. CASE /\ j.kind = "evaluate" /\ ~j.putting /\ Stored(c, "intake") # None
           /\ Continue(c, loaded)
  <2>1. Stored(c, "intake") \in IntakeRow
    BY Zenon, <1>3, <1>5 DEF PlaneInv, PlaneTypeOK, Stored
  <2> DEFINE i == Stored(c, "intake")
  <2>2. loaded \in OpenCall /\ loaded.pc = "lock" /\ loaded.kind = j.kind
        /\ loaded.session = j.session /\ loaded.body = j.body /\ loaded.input = i
        /\ loaded.putting = j.putting
    <3>. HIDE DEF j, i
    <3>. QED
      BY Zenon, <1>2, <2>1 DEF OpenCall, i
  <2>3. i = row["intake"][j.body.packet] /\ i # None
    BY Zenon, <1>5 DEF Stored
  <2>. HIDE DEF loaded, j, i
  <2>4. OpenFit(loaded, session, operator, row)
    BY SMTT(60), <1>2, <1>5, <2>2, <2>3 DEF OpenFit, WriterKinds
  <2>5. loaded \in Call /\ Fit(loaded, session, operator, row) /\ ~Holds(loaded)
    BY SMTT(60), <2>2, <2>4 DEF Call, Fit, Holds
  <2>. QED
    BY Zenon, <1>1, <1>5, <2>5, ContinueKeeps DEF Continue
<1>6. CASE /\ j.kind \in WriterKinds /\ j.putting /\ Free(j, row)
           /\ j.kind = "request" => Stored(c, "decision") # None
           /\ Continue(c, inserting)
  <2>1. inserting \in OpenCall /\ inserting.pc = "insert" /\ inserting.kind = j.kind
        /\ inserting.session = j.session /\ inserting.body = j.body
        /\ inserting.input = j.input /\ inserting.putting = j.putting
    BY Zenon, <1>2, MovedCall
  <2>2. \A d \in Calls \ {c} : Holds(inserting) /\ Holds(call[d]) => ~Alike(inserting, call[d])
    <3>1. Holds(j)
      BY Zenon, <1>1, <1>6 DEF Holds
    <3>2. \A k : Alike(inserting, k) => Alike(j, k)
      BY Zenon, <2>1 DEF Alike
    <3>. QED
      BY Zenon, <3>1, <3>2 DEF PlaneInv, LockInv
  <2>3. j.kind = "request" => row["decision"][j.body.packet] # None
    BY Zenon, <1>6 DEF Stored
  <2>4. Free(inserting, row)
    BY Zenon, <1>6, <2>1 DEF Free
  <2>5. Standing(inserting, session, operator)
    BY Zenon, <1>1, <1>2, <2>1 DEF OpenFit, Standing
  <2>. HIDE DEF inserting, j
  <2>6. OpenFit(inserting, session, operator, row)
    BY SMTT(60), <1>2, <1>6, <2>1, <2>3, <2>4, <2>5 DEF OpenFit
  <2>7. inserting \in Call /\ Fit(inserting, session, operator, row)
    BY SMTT(60), <2>1, <2>6 DEF Call, Fit
  <2>. QED
    BY Zenon, <1>1, <1>6, <2>2, <2>7, ContinueKeeps DEF Continue
<1>. QED
  BY Zenon, <1>4, <1>5, <1>6, SelectOutcomes DEF SelectOutcome

\* The row of an insert that the trigger accepts.
LEMMA InsertedRow ==
    ASSUME PlaneInv, NEW c \in Calls, call[c].pc = "insert", TriggerAccepts(c)
    PROVE  /\ NewRow(c) \in StoredRow
           /\ NewRow(c).session = call[c].session
           /\ Earned(NewRow(c), Writers[call[c].kind], session)
           /\ call[c].kind = "submit" => NewRow(c) \in IntakeRow
           /\ call[c].kind = "evaluate" => DecisionFollows(NewRow(c), Stored(c, "intake"))
           /\ call[c].kind = "request" => RequestFollows(NewRow(c), Stored(c, "decision"))
<1> DEFINE j == call[c]
<1>1. j \in OpenCall /\ OpenFit(j, session, operator, row)
  BY Zenon, CallShape DEF PlaneInv, Fit
<1>2. j.kind \in WriterKinds /\ j.session \in Sessions /\ j.body \in FitBodies(j.kind)
      /\ j.body.packet \in Packets /\ j.input \in IntakeRow \cup {None} /\ j.putting
      /\ clock \in Instants
  BY Zenon, <1>1, OpenShape DEF OpenFit, PlaneInv, PlaneTypeOK
<1>3. j.kind \in ServedKinds
  BY Zenon, <1>2 DEF ServedKinds
<1>4. session[j.session] # None /\ session[j.session].issued <= clock
      /\ clock < session[j.session].expires
      /\ RequiredCapability[Writers[j.kind]] \in session[j.session].capabilities
  BY Zenon, <1>2, KindFacts DEF TriggerAccepts, Current, Live
<1>5. ASSUME NewRow(c).session = j.session, NewRow(c).at = clock
      PROVE  Earned(NewRow(c), Writers[j.kind], session)
  BY Zenon, <1>4, <1>5 DEF Earned
<1>6. CASE j.kind = "submit"
  <2> DEFINE r == [content |-> j.body.content, session |-> j.session, at |-> clock]
  <2>1. NewRow(c) = r
    BY SMTT(60), <1>6 DEF NewRow
  <2>2. j.body.content \in Contents
    BY Zenon, <1>2, <1>3, <1>6, BodyFacts
  <2>3. r \in IntakeRow /\ r.session = j.session /\ r.at = clock
    BY Zenon, <1>2, <2>2 DEF IntakeRow
  <2>4. j.kind # "evaluate" /\ j.kind # "request"
    BY SMTT(60), <1>6
  <2>. HIDE DEF r
  <2>. QED
    BY Zenon, <1>5, <2>1, <2>3, <2>4 DEF StoredRow
<1>7. CASE j.kind = "evaluate"
  <2> DEFINE r == [content |-> j.input.content, session |-> j.session, at |-> clock,
                   verdict |-> verdictOf(c)]
  <2>1. NewRow(c) = r
    BY SMTT(60), <1>7 DEF NewRow
  <2>2. j.input # None /\ j.input = Stored(c, "intake") /\ j.input \in IntakeRow
    BY Zenon, <1>1, <1>2, <1>7 DEF OpenFit, Stored
  <2>3. j.input.content \in Contents /\ j.input.at \in Instants
    BY Zenon, <2>2 DEF IntakeRow
  <2>4. verdictOf(c) \in Verdicts
    BY SMTT(60), <2>3 DEF verdictOf, Verdicts
  <2>5. r \in DecisionRow /\ r.session = j.session /\ r.at = clock
        /\ r.content = j.input.content /\ r.verdict = verdictOf(c)
    BY Zenon, <1>2, <2>3, <2>4 DEF DecisionRow
  <2>6. j.input.at <= clock
    BY Zenon, <1>7 DEF TriggerAccepts, Bound
  <2>7. j.kind # "submit" /\ j.kind # "request"
    BY SMTT(60), <1>7
  <2>. HIDE DEF r
  <2>8. DecisionFollows(r, Stored(c, "intake"))
    BY Zenon, <2>2, <2>5, <2>6 DEF DecisionFollows, verdictOf
  <2>. QED
    BY Zenon, <1>5, <2>1, <2>5, <2>7, <2>8 DEF StoredRow
<1>8. CASE j.kind = "request"
  <2> DEFINE r == [content |-> j.body.content, session |-> j.session, at |-> clock,
                   reasons |-> j.body.reasons]
  <2>1. NewRow(c) = r
    BY SMTT(60), <1>8 DEF NewRow
  <2>2. j.body.content \in Contents /\ j.body.reasons \in Reasons
    BY Zenon, <1>2, <1>3, <1>8, BodyFacts
  <2>3. r \in RequestRow /\ r.session = j.session /\ r.at = clock
        /\ r.content = j.body.content /\ r.reasons = j.body.reasons
    BY Zenon, <1>2, <2>2 DEF RequestRow
  <2>4. Stored(c, "decision") # None
    BY Zenon, <1>1, <1>8 DEF OpenFit, Stored
  <2>5. j.kind # "submit" /\ j.kind # "evaluate"
    BY SMTT(60), <1>8
  <2>. HIDE DEF r
  <2>6. RequestFollows(r, Stored(c, "decision"))
    BY Zenon, <1>8, <2>3, <2>4 DEF RequestFollows, TriggerAccepts, Bound
  <2>. QED
    BY Zenon, <1>5, <2>1, <2>3, <2>5, <2>6 DEF StoredRow
<1>. QED
  BY Zenon, <1>2, <1>6, <1>7, <1>8 DEF WriterKinds

\* An accepted insert waits for its commit, with its row.
LEMMA InsertKeeps ==
    ASSUME PlaneInv, NEW c \in Calls, Insert(c)
    PROVE  PlaneInv'
<1> DEFINE j == call[c]
           next == [pc |-> "commit", kind |-> j.kind, putting |-> TRUE,
                    session |-> j.session, body |-> j.body, record |-> NewRow(c)]
<1>1. j.pc = "insert" /\ UNCHANGED <<clock, operator, session, row>>
  BY Zenon DEF Insert
<1>2. \/ call' = [call EXCEPT ![c] = Idle]
      \/ TriggerAccepts(c) /\ call' = [call EXCEPT ![c] = next]
  BY Zenon DEF Insert, Answer, Continue
<1>3. CASE TriggerAccepts(c) /\ call' = [call EXCEPT ![c] = next]
  <2>1. j \in OpenCall /\ OpenFit(j, session, operator, row)
    BY Zenon, <1>1, CallShape DEF PlaneInv, Fit
  <2>2. j.kind \in WriterKinds /\ j.session \in Sessions /\ j.body \in AnyBody /\ j.putting
        /\ Free(j, row) /\ Standing(j, session, operator)
    BY Zenon, <1>1, <2>1, OpenShape DEF OpenFit
  <2> DEFINE r == NewRow(c)
  <2>3. /\ r \in StoredRow /\ r.session = j.session
        /\ Earned(r, Writers[j.kind], session)
        /\ j.kind = "submit" => r \in IntakeRow
        /\ j.kind = "evaluate" => DecisionFollows(r, row["intake"][j.body.packet])
        /\ j.kind = "request" => RequestFollows(r, row["decision"][j.body.packet])
    BY Zenon, <1>1, <1>3, InsertedRow DEF Stored
  <2>. HIDE DEF r, j
  <2>4. next \in CommitCall /\ next.pc = "commit" /\ next.kind = j.kind /\ next.putting
        /\ next.session = j.session /\ next.body = j.body /\ next.record = r
    BY Zenon, <2>2, <2>3 DEF CommitCall, r
  <2>5. \A d \in Calls \ {c} : Holds(call[d]) => ~Alike(next, call[d])
    <3>1. Holds(j)
      BY Zenon, <1>1, <2>2 DEF Holds
    <3>2. \A k : Alike(next, k) => Alike(j, k)
      BY Zenon, <2>4 DEF Alike
    <3>. QED
      BY Zenon, <3>1, <3>2 DEF PlaneInv, LockInv, j
  <2>. HIDE DEF next
  <2>6. CommitFit(next, session, operator, row)
    BY Zenon, <2>2, <2>3, <2>4 DEF CommitFit, Standing, Free
  <2>7. next \in Call /\ Fit(next, session, operator, row)
    BY SMTT(60), <2>4, <2>6 DEF Call, Fit
  <2>. QED
    BY Zenon, <1>1, <1>3, <2>5, <2>7, ContinueKeeps
<1>. QED
  BY Zenon, <1>1, <1>2, <1>3, AnswerKeeps

-----------------------------------------------------------------------------
(***************************************************************************)
(* The steps that change a session, the operator or a table: what the      *)
(* requests in progress rely on stays true.                                *)
(***************************************************************************)
\* A session keeps its lifetime and its capabilities.
SessionsKept(old, new) ==
    \A s \in Sessions : old[s] # None =>
        /\ new[s] # None
        /\ new[s].issued = old[s].issued /\ new[s].expires = old[s].expires
        /\ new[s].capabilities = old[s].capabilities

\* A row stays as it is.
RowsKept(old, new) ==
    \A t \in Tables, p \in Packets : old[t][p] # None => new[t][p] = old[t][p]

\* A row stays earned while sessions keep their lifetimes.
LEMMA EarnedKept ==
    ASSUME NEW old, NEW new, SessionsKept(old, new), NEW r, r.session \in Sessions,
           NEW t, Earned(r, t, old)
    PROVE  Earned(r, t, new)
  BY Zenon DEF SessionsKept, Earned

\* A request still has what it relies on when sessions and rows are kept, its
\* own session and operator are not withdrawn and its place is free.
LEMMA FitKept ==
    ASSUME NEW j \in Call, NEW old, NEW new, NEW op1, NEW op2, NEW rows1, NEW rows2,
           Fit(j, old, op1, rows1), SessionsKept(old, new), RowsKept(rows1, rows2),
           j.pc \in {"select", "insert", "commit"} =>
               new[j.session].revoked = old[j.session].revoked /\ op2.disabled = op1.disabled,
           j.pc \in {"insert", "commit"} => Free(j, rows2)
    PROVE  Fit(j, new, op2, rows2)
<1>1. ASSUME j.pc = "revokeSession" PROVE new[j.session] # None
  <2>1. j.session \in Sessions
    BY Zenon, <1>1, PcShape DEF RevokeCall
  <2>. QED
    BY Zenon, <1>1, <2>1 DEF Fit, SessionsKept
<1>2. ASSUME j.session \in Sessions, j.pc \in {"select", "insert", "commit"},
             Standing(j, old, op1)
      PROVE  Standing(j, new, op2)
  BY Zenon, <1>2 DEF Standing, SessionsKept
<1>3. "intake" \in Tables /\ "decision" \in Tables
  BY SMTT(60) DEF Tables
<1>4. ASSUME j.pc \in {"lock", "assert", "select", "insert"}
      PROVE  OpenFit(j, new, op2, rows2)
  <2>1. j \in OpenCall /\ OpenFit(j, old, op1, rows1)
    BY Zenon, <1>4, PcShape DEF Fit
  <2>2. j.session \in Sessions /\ j.body.packet \in Packets
    BY Zenon, <2>1, OpenShape
  <2>3. j.pc \in {"select", "insert"} => Standing(j, new, op2)
    BY Zenon, <1>2, <2>1, <2>2 DEF OpenFit
  <2>4. j.pc = "insert" => Free(j, rows2)
    BY Zenon
  <2>5. j.input # None => j.input = rows2["intake"][j.body.packet]
    BY Zenon, <1>3, <2>1, <2>2 DEF OpenFit, RowsKept
  <2>6. j.pc = "insert" /\ j.kind = "request" => rows2["decision"][j.body.packet] # None
    BY Zenon, <1>3, <2>1, <2>2 DEF OpenFit, RowsKept
  <2>. QED
    BY Zenon, <2>1, <2>3, <2>4, <2>5, <2>6 DEF OpenFit
<1>5. ASSUME j.pc = "commit" PROVE CommitFit(j, new, op2, rows2)
  <2>1. j \in CommitCall /\ CommitFit(j, old, op1, rows1)
    BY Zenon, <1>5, PcShape DEF Fit
  <2>2. j.session \in Sessions /\ j.body.packet \in Packets /\ j.record.session = j.session
    BY Zenon, <2>1, CommitShape DEF CommitFit
  <2>3. Standing(j, new, op2) /\ Free(j, rows2)
    BY Zenon, <1>2, <1>5, <2>1, <2>2 DEF CommitFit
  <2>4. Earned(j.record, Writers[j.kind], new)
    BY Zenon, <2>1, <2>2, EarnedKept DEF CommitFit
  <2>5. j.kind = "evaluate" => DecisionFollows(j.record, rows2["intake"][j.body.packet])
    BY Zenon, <1>3, <2>1, <2>2 DEF CommitFit, DecisionFollows, RowsKept
  <2>6. j.kind = "request" => RequestFollows(j.record, rows2["decision"][j.body.packet])
    BY Zenon, <1>3, <2>1, <2>2 DEF CommitFit, RequestFollows, RowsKept
  <2>. QED
    BY Zenon, <2>1, <2>3, <2>4, <2>5, <2>6 DEF CommitFit
<1>. QED
  BY Zenon, <1>1, <1>4, <1>5 DEF Fit

\* A step that keeps the sessions and the rows, where every request ends or
\* stays where it is, undisturbed if it holds a lock.
LEMMA ChangeKeeps ==
    ASSUME PlaneInv, PlaneTypeOK', SessionsKept(session, session'), RowsKept(row, row'),
           \A d \in Calls :
              \/ call'[d] = Idle
              \/ /\ call'[d] = call[d]
                 /\ HoldsShare(d) =>
                       /\ session'[call[d].session].revoked = session[call[d].session].revoked
                       /\ operator'.disabled = operator.disabled
                 /\ call[d].pc \in {"insert", "commit"} => Free(call[d], row'),
           RowsEarned(session', row'), ChainsFollow(row')
    PROVE  PlaneInv'
<1>1. Idle.pc = "idle"
  BY Zenon DEF Idle
<1>2. ASSUME NEW d \in Calls PROVE Fit(call'[d], session', operator', row')
  <2>1. CASE call'[d] = Idle
    BY SMTT(60), <1>1, <2>1 DEF Fit
  <2>2. CASE call'[d] # Idle
    <3>1. call[d] \in Call /\ Fit(call[d], session, operator, row)
      BY Zenon, CallShape DEF PlaneInv
    <3>2. call'[d] = call[d]
          /\ (call[d].pc \in {"select", "insert", "commit"} =>
                 session'[call[d].session].revoked = session[call[d].session].revoked
                 /\ operator'.disabled = operator.disabled)
          /\ (call[d].pc \in {"insert", "commit"} => Free(call[d], row'))
      BY Zenon, <2>2 DEF HoldsShare, InTransaction
    <3>. QED
      BY Zenon, <3>1, <3>2, FitKept
  <2>. QED
    BY Zenon, <2>1, <2>2
<1>3. LockInv'
  <2>1. ~Holds(Idle)
    BY SMTT(60), <1>1 DEF Holds
  <2>. QED
    BY Zenon, <2>1 DEF PlaneInv, LockInv
<1>. QED
  BY Zenon, <1>2, <1>3 DEF PlaneInv

\* Rows stay earned and in agreement where no row changes.
LEMMA SameRows ==
    ASSUME PlaneInv, SessionsKept(session, session'), row' = row
    PROVE  RowsEarned(session', row') /\ ChainsFollow(row') /\ RowsKept(row, row')
<1>1. ASSUME NEW t \in Tables, NEW p \in Packets, row[t][p] # None
      PROVE  Earned(row[t][p], t, session')
  <2>1. row[t][p] \in StoredRow
    BY Zenon, <1>1 DEF PlaneInv, PlaneTypeOK
  <2>2. row[t][p].session \in Sessions
    BY Zenon, <2>1 DEF StoredRow, IntakeRow, DecisionRow, RequestRow
  <2>. QED
    BY Zenon, <1>1, <2>2, EarnedKept DEF PlaneInv, RowsEarned
<1>. QED
  BY Zenon, <1>1 DEF PlaneInv, RowsEarned, RowsKept

\* A request inside its transaction has a session and an operator in force.
LEMMA InForce ==
    ASSUME PlaneInv, NEW d \in Calls, HoldsShare(d)
    PROVE  call[d].session \in Sessions /\ Standing(call[d], session, operator)
<1>1. call[d].pc \in {"select", "insert", "commit"} /\ Fit(call[d], session, operator, row)
  BY Zenon DEF HoldsShare, InTransaction, PlaneInv
<1>2. CASE call[d].pc = "commit"
  BY Zenon, <1>1, <1>2, CallShape, CommitShape DEF PlaneInv, Fit, CommitFit
<1>3. CASE call[d].pc \in {"select", "insert"}
  <2>1. call[d].pc \in {"lock", "assert", "select", "insert"}
    BY Zenon, <1>3
  <2>2. call[d] \in OpenCall /\ OpenFit(call[d], session, operator, row)
    BY Zenon, <1>1, <2>1, CallShape DEF PlaneInv, Fit
  <2>. QED
    BY Zenon, <1>3, <2>2, OpenShape DEF OpenFit
<1>. QED
  BY Zenon, <1>1, <1>2, <1>3

\* A request at its insert or its commit has the lock, and its place is free.
LEMMA AtItsPlace ==
    ASSUME PlaneInv, NEW d \in Calls, call[d].pc \in {"insert", "commit"}
    PROVE  /\ Free(call[d], row) /\ Holds(call[d])
           /\ call[d].kind \in WriterKinds /\ call[d].body.packet \in Packets
<1>1. CASE call[d].pc = "commit"
  <2>1. call[d] \in CommitCall /\ CommitFit(call[d], session, operator, row)
    BY Zenon, <1>1, CallShape DEF PlaneInv, Fit
  <2>. QED
    BY Zenon, <1>1, <2>1, CommitShape DEF CommitFit, Holds
<1>2. CASE call[d].pc = "insert"
  <2>1. call[d] \in OpenCall /\ OpenFit(call[d], session, operator, row)
    BY Zenon, <1>2, CallShape DEF PlaneInv, Fit
  <2>. QED
    BY Zenon, <1>2, <2>1, OpenShape DEF OpenFit, Holds
<1>. QED
  BY Zenon, <1>1, <1>2

\* A new session has an identifier that nothing refers to.
LEMMA CreateKeeps ==
    ASSUME PlaneInv, NEW c \in Calls, CreateSession(c)
    PROVE  PlaneInv'
<1>1. PICK s \in Sessions : session[s] = None
        /\ session' = [session EXCEPT ![s] = call[c].record]
        /\ call' = [call EXCEPT ![c] = Idle]
  BY Zenon DEF CreateSession, Outcome, Answer
<1>2. UNCHANGED <<clock, operator, row>> /\ call[c].pc = "createSession"
  BY Zenon DEF CreateSession
<1>3. call[c].record \in SessionRow
  BY Zenon, <1>2, CallShape DEF PlaneInv, IssueCall
<1>4. session \in [Sessions -> SessionRow \cup {None}] /\ call \in [Calls -> Call]
      /\ Idle \in Call
  BY Zenon DEF PlaneInv, PlaneTypeOK, Call
<1>5. session' \in [Sessions -> SessionRow \cup {None}]
      /\ \A t \in Sessions : t # s => session'[t] = session[t]
  BY Zenon, <1>1, <1>3, <1>4
<1>6. call' \in [Calls -> Call] /\ call'[c] = Idle
      /\ \A d \in Calls : d # c => call'[d] = call[d]
  BY Zenon, <1>1, <1>4
<1>7. PlaneTypeOK'
  BY Zenon, <1>2, <1>5, <1>6 DEF PlaneInv, PlaneTypeOK
<1>8. SessionsKept(session, session')
  BY Zenon, <1>1, <1>5 DEF SessionsKept
<1>9. \A d \in Calls : HoldsShare(d) =>
         session'[call[d].session].revoked = session[call[d].session].revoked
  BY Zenon, <1>1, <1>5, InForce DEF Standing
<1>10. \A d \in Calls : call[d].pc \in {"insert", "commit"} => Free(call[d], row')
  BY Zenon, <1>2, AtItsPlace
<1>. QED
  BY Zenon, <1>2, <1>6, <1>7, <1>8, <1>9, <1>10, SameRows, ChangeKeeps

\* A session is revoked when no transaction relies on it.
LEMMA RevokeKeeps ==
    ASSUME PlaneInv, NEW c \in Calls, RevokeSession(c)
    PROVE  PlaneInv'
<1> DEFINE s == call[c].session
<1>1. call[c].pc = "revokeSession" /\ UNCHANGED <<clock, operator, row>>
      /\ call' = [call EXCEPT ![c] = Idle]
  BY Zenon DEF RevokeSession, Answer, Outcome
<1>2. s \in Sessions /\ session[s] # None
  BY Zenon, <1>1, CallShape DEF PlaneInv, RevokeCall, Fit
<1>3. session \in [Sessions -> SessionRow \cup {None}] /\ call \in [Calls -> Call]
      /\ Idle \in Call
  BY Zenon DEF PlaneInv, PlaneTypeOK, Call
<1>4. call' \in [Calls -> Call] /\ call'[c] = Idle
      /\ \A d \in Calls : d # c => call'[d] = call[d]
  BY Zenon, <1>1, <1>3
<1>5. CASE session' = session
  BY Zenon, <1>1, <1>5, AnswerKeeps
<1>6. CASE session' = [session EXCEPT ![s].revoked = TRUE]
  <2>1. session[s] \in SessionRow
    BY Zenon, <1>2, <1>3
  <2> DEFINE new == [session[s] EXCEPT !.revoked = TRUE]
  <2>2. new \in SessionRow /\ new.issued = session[s].issued
        /\ new.expires = session[s].expires /\ new.capabilities = session[s].capabilities
    BY Zenon, <2>1 DEF SessionRow
  <2>3. new # None
    BY Zenon, <2>2, LocalAssumption DEF SessionRow
  <2>4. session' = [session EXCEPT ![s] = new]
    BY Zenon, <1>6
  <2>. HIDE DEF new
  <2>5. session' \in [Sessions -> SessionRow \cup {None}] /\ session'[s] = new
        /\ \A t \in Sessions : t # s => session'[t] = session[t]
    BY Zenon, <1>2, <1>3, <2>2, <2>4
  <2>6. PlaneTypeOK'
    BY Zenon, <1>1, <1>4, <2>5 DEF PlaneInv, PlaneTypeOK
  <2>7. SessionsKept(session, session')
    BY Zenon, <2>2, <2>3, <2>5 DEF SessionsKept
  <2>8. \A d \in Calls : HoldsShare(d) => call[d].session # s
    BY Zenon DEF RevokeSession, SessionLocked
  <2>9. \A d \in Calls : HoldsShare(d) =>
           session'[call[d].session].revoked = session[call[d].session].revoked
    BY Zenon, <2>5, <2>8, InForce
  <2>10. \A d \in Calls : call[d].pc \in {"insert", "commit"} => Free(call[d], row')
    BY Zenon, <1>1, AtItsPlace
  <2>. QED
    BY Zenon, <1>1, <1>4, <2>6, <2>7, <2>9, <2>10, SameRows, ChangeKeeps
<1>. QED
  BY Zenon, <1>5, <1>6 DEF RevokeSession

\* A commit fills the place that the request found free.
LEMMA CommitFills ==
    ASSUME PlaneInv, NEW c \in Calls, Commit(c)
    PROVE  LET t == Writers[call[c].kind]
               p == call[c].body.packet
           IN  /\ t \in Tables /\ p \in Packets /\ row[t][p] = None
               /\ row'[t][p] = call[c].record
               /\ row' \in [Tables -> [Packets -> StoredRow \cup {None}]]
               /\ \A u \in Tables, q \in Packets :
                     ~(u = t /\ q = p) => row'[u][q] = row[u][q]
<1> DEFINE t == Writers[call[c].kind]
           p == call[c].body.packet
<1>1. call[c].pc = "commit" /\ row' = [row EXCEPT ![t][p] = call[c].record]
  BY Zenon DEF Commit
<1>2. call[c] \in CommitCall
  BY Zenon, <1>1, CallShape DEF PlaneInv
<1>3. t \in Tables /\ p \in Packets /\ call[c].record \in StoredRow
  BY Zenon, <1>2, CommitShape, KindFacts
<1>4. row[t][p] = None
  BY Zenon, <1>1, AtItsPlace DEF Free
<1>5. row \in [Tables -> [Packets -> StoredRow \cup {None}]]
  BY Zenon DEF PlaneInv, PlaneTypeOK
<1>. HIDE DEF t, p
<1> DEFINE line == [row[t] EXCEPT ![p] = call[c].record]
<1>6. row' = [row EXCEPT ![t] = line]
  BY Zenon, <1>1
<1>7. line \in [Packets -> StoredRow \cup {None}] /\ line[p] = call[c].record
      /\ \A q \in Packets : q # p => line[q] = row[t][q]
  BY Zenon, <1>3, <1>5
<1>. HIDE DEF line
<1>8. row' \in [Tables -> [Packets -> StoredRow \cup {None}]] /\ row'[t] = line
      /\ \A u \in Tables : u # t => row'[u] = row[u]
  BY Zenon, <1>3, <1>5, <1>6, <1>7
<1>9. row'[t][p] = call[c].record
      /\ \A u \in Tables, q \in Packets : ~(u = t /\ q = p) => row'[u][q] = row[u][q]
  BY Zenon, <1>7, <1>8
<1>. QED
  BY Zenon, <1>3, <1>4, <1>8, <1>9 DEF t, p

\* The new row is earned, it agrees with the tables, and nobody else was about
\* to fill its place.
LEMMA CommitKeeps ==
    ASSUME PlaneInv, NEW c \in Calls, Commit(c)
    PROVE  PlaneInv'
<1> DEFINE j == call[c]
           t == Writers[j.kind]
           p == j.body.packet
<1>1. j.pc = "commit" /\ UNCHANGED <<clock, operator, session>>
      /\ call' = [call EXCEPT ![c] = Idle]
  BY Zenon DEF Commit, Answer, Outcome
<1>2. j \in CommitCall /\ CommitFit(j, session, operator, row)
  BY Zenon, <1>1, CallShape DEF PlaneInv, Fit
<1>3. /\ t \in Tables /\ p \in Packets /\ row[t][p] = None /\ row'[t][p] = j.record
      /\ row' \in [Tables -> [Packets -> StoredRow \cup {None}]]
      /\ \A u \in Tables, q \in Packets : ~(u = t /\ q = p) => row'[u][q] = row[u][q]
  BY Zenon, CommitFills
<1>4. j.kind \in WriterKinds /\ j.record \in StoredRow
  BY Zenon, <1>2, CommitShape
<1>5. /\ t = "intake" => j.kind = "submit"
      /\ t = "decision" => j.kind = "evaluate"
      /\ t = "request" => j.kind = "request"
      /\ "intake" # "decision" /\ "decision" # "request" /\ "intake" # "request"
      /\ "intake" \in Tables /\ "decision" \in Tables /\ "request" \in Tables
  BY SMTT(60), <1>4, KindFacts DEF WriterKinds, Tables
<1>6. call \in [Calls -> Call] /\ Idle \in Call
  BY Zenon DEF PlaneInv, PlaneTypeOK, Call
<1>7. call' \in [Calls -> Call] /\ call'[c] = Idle
      /\ \A d \in Calls : d # c => call'[d] = call[d]
  BY Zenon, <1>1, <1>6
<1>. HIDE DEF t, p
<1>8. PlaneTypeOK'
  <2>1. \A q \in Packets : row'["intake"][q] \in IntakeRow \cup {None}
    BY Zenon, <1>2, <1>3, <1>5 DEF CommitFit, PlaneInv, PlaneTypeOK
  <2>. QED
    BY Zenon, <1>1, <1>3, <1>7, <2>1 DEF PlaneInv, PlaneTypeOK
<1>9. RowsKept(row, row') /\ SessionsKept(session, session')
  BY Zenon, <1>1, <1>3 DEF RowsKept, SessionsKept
<1>10. RowsEarned(session', row')
  BY ZenonT(60), <1>1, <1>2, <1>3 DEF CommitFit, RowsEarned, PlaneInv, t
<1>11. ChainsFollow(row')
  <2>1. ASSUME NEW q \in Packets, row'["decision"][q] # None
        PROVE  DecisionFollows(row'["decision"][q], row'["intake"][q])
    <3>1. CASE t = "decision" /\ q = p
      <4>1. DecisionFollows(j.record, row["intake"][p])
        BY Zenon, <1>2, <1>5, <3>1 DEF CommitFit, p
      <4>2. row'["intake"][p] = row["intake"][p]
        BY Zenon, <1>3, <1>5, <3>1
      <4>. QED
        BY Zenon, <1>3, <3>1, <4>1, <4>2
    <3>2. CASE ~(t = "decision" /\ q = p)
      <4>1. row'["decision"][q] = row["decision"][q]
        BY Zenon, <1>3, <1>5, <3>2
      <4>2. DecisionFollows(row["decision"][q], row["intake"][q])
        BY Zenon, <2>1, <4>1 DEF PlaneInv, ChainsFollow
      <4>3. row'["intake"][q] = row["intake"][q]
        BY Zenon, <1>5, <1>9, <4>2 DEF DecisionFollows, RowsKept
      <4>. QED
        BY Zenon, <4>1, <4>2, <4>3
    <3>. QED
      BY Zenon, <3>1, <3>2
  <2>2. ASSUME NEW q \in Packets, row'["request"][q] # None
        PROVE  RequestFollows(row'["request"][q], row'["decision"][q])
    <3>1. CASE t = "request" /\ q = p
      <4>1. RequestFollows(j.record, row["decision"][p])
        BY Zenon, <1>2, <1>5, <3>1 DEF CommitFit, p
      <4>2. row'["decision"][p] = row["decision"][p]
        BY Zenon, <1>3, <1>5, <3>1
      <4>. QED
        BY Zenon, <1>3, <3>1, <4>1, <4>2
    <3>2. CASE ~(t = "request" /\ q = p)
      <4>1. row'["request"][q] = row["request"][q]
        BY Zenon, <1>3, <1>5, <3>2
      <4>2. RequestFollows(row["request"][q], row["decision"][q])
        BY Zenon, <2>2, <4>1 DEF PlaneInv, ChainsFollow
      <4>3. row'["decision"][q] = row["decision"][q]
        BY Zenon, <1>5, <1>9, <4>2 DEF RequestFollows, RowsKept
      <4>. QED
        BY Zenon, <4>1, <4>2, <4>3
    <3>. QED
      BY Zenon, <3>1, <3>2
  <2>. QED
    BY Zenon, <2>1, <2>2 DEF ChainsFollow
<1>12. ASSUME NEW d \in Calls, d # c, call[d].pc \in {"insert", "commit"}
       PROVE  Free(call[d], row')
  <2>1. Free(call[d], row) /\ Holds(call[d]) /\ call[d].kind \in WriterKinds
        /\ call[d].body.packet \in Packets /\ Holds(j)
    BY Zenon, <1>1, <1>12, AtItsPlace
  <2>2. ~Alike(call[d], j)
    BY Zenon, <1>12, <2>1 DEF PlaneInv, LockInv
  <2>3. Writers[call[d].kind] \in Tables /\ ~(Writers[call[d].kind] = t /\ call[d].body.packet = p)
    BY Zenon, <1>4, <2>1, <2>2, KindFacts DEF Alike, t, p
  <2>. QED
    BY Zenon, <1>3, <2>1, <2>3 DEF Free
<1>. QED
  BY Zenon, <1>1, <1>7, <1>8, <1>9, <1>10, <1>11, <1>12, ChangeKeeps

\* The operator's row changes when no transaction is open, the clock whenever
\* it likes, and a restart ends every request.
LEMMA OutsideKeeps ==
    ASSUME PlaneInv, Provision \/ Disable \/ MoveClock \/ Restart \/ UNCHANGED vars
    PROVE  PlaneInv'
<1>1. session' = session /\ row' = row
  BY Zenon DEF Provision, Disable, MoveClock, Restart, vars
<1>2. SessionsKept(session, session')
  BY Zenon, <1>1 DEF SessionsKept
<1>3. operator' \in OperatorRow \cup {None} /\ clock' \in Instants
  <2>1. operator \in OperatorRow \cup {None} /\ clock \in Instants
    BY Zenon DEF PlaneInv, PlaneTypeOK
  <2>2. CASE Provision
    <3>1. PICK credential \in Credentials, capabilities \in Grants :
            operator' = [credential |-> credential, capabilities |-> capabilities,
                         disabled |-> operator # None /\ operator.disabled]
      BY Zenon, <2>2 DEF Provision
    <3>2. (operator # None /\ operator.disabled) \in BOOLEAN
      BY Zenon
    <3>3. operator' \in OperatorRow
      BY Zenon, <3>1, <3>2 DEF OperatorRow
    <3>. QED
      BY Zenon, <2>1, <2>2, <3>3 DEF Provision
  <2>3. CASE Disable
    <3>1. operator \in OperatorRow /\ operator' = [operator EXCEPT !.disabled = TRUE]
      BY Zenon, <2>1, <2>3 DEF Disable
    <3>2. operator' \in OperatorRow
      BY Zenon, <3>1 DEF OperatorRow
    <3>. QED
      BY Zenon, <2>1, <2>3, <3>2 DEF Disable
  <2>4. CASE MoveClock \/ Restart \/ UNCHANGED vars
    BY Zenon, <2>1, <2>4 DEF MoveClock, Restart, vars
  <2>. QED
    BY Zenon, <2>2, <2>3, <2>4
<1>4. call' \in [Calls -> Call]
      /\ \A d \in Calls :
            \/ call'[d] = Idle
            \/ call'[d] = call[d] /\ (HoldsShare(d) => operator'.disabled = operator.disabled)
  <2>1. call \in [Calls -> Call] /\ Idle \in Call
    BY Zenon DEF PlaneInv, PlaneTypeOK, Call
  <2>2. CASE Restart
    BY Zenon, <2>1, <2>2 DEF Restart
  <2>3. CASE Provision \/ Disable
    BY Zenon, <2>1, <2>3 DEF Provision, Disable, OperatorLocked
  <2>4. CASE MoveClock \/ UNCHANGED vars
    BY Zenon, <2>1, <2>4 DEF MoveClock, vars
  <2>. QED
    BY Zenon, <2>2, <2>3, <2>4
<1>5. PlaneTypeOK'
  BY Zenon, <1>1, <1>3, <1>4 DEF PlaneInv, PlaneTypeOK
<1>6. \A d \in Calls : call[d].pc \in {"insert", "commit"} => Free(call[d], row')
  BY Zenon, <1>1, AtItsPlace
<1>. QED
  BY Zenon, <1>1, <1>2, <1>4, <1>5, <1>6, SameRows, ChangeKeeps

\* Nothing is stored and nothing is in progress at the start.
LEMMA InitPlaneInv == Init => PlaneInv
<1>. SUFFICES ASSUME Init PROVE PlaneInv
  OBVIOUS
<1>1. Idle.pc = "idle" /\ Idle \in Call
  BY Zenon DEF Idle, Call
<1>2. \A c \in Calls : call[c] = Idle
  BY Zenon DEF Init
<1>3. \A t \in Tables, p \in Packets : row[t][p] = None
  BY Zenon DEF Init
<1>4. "intake" \in Tables /\ "decision" \in Tables /\ "request" \in Tables
  BY SMTT(60) DEF Tables
<1>5. PlaneTypeOK
  BY Zenon, <1>1, <1>3, <1>4 DEF Init, PlaneTypeOK
<1>6. \A c \in Calls : Fit(call[c], session, operator, row)
  BY SMTT(60), <1>1, <1>2 DEF Fit
<1>7. LockInv
  BY SMTT(60), <1>1, <1>2 DEF LockInv, Holds
<1>8. RowsEarned(session, row) /\ ChainsFollow(row)
  BY Zenon, <1>3, <1>4 DEF RowsEarned, ChainsFollow
<1>. QED
  BY Zenon, <1>5, <1>6, <1>7, <1>8 DEF PlaneInv

\* Every step keeps the invariant.
LEMMA NextPlaneInv == PlaneInv /\ [Next]_vars => PlaneInv'
<1>. SUFFICES ASSUME PlaneInv, [Next]_vars PROVE PlaneInv'
  OBVIOUS
<1>1. ASSUME NEW c \in Calls, Step(c) PROVE PlaneInv'
  <2>1. CASE TurnAway(c) \/ Fail(c)
    BY Zenon, <2>1, AnswerKeeps DEF TurnAway, Fail, Answer
  <2>. QED
    BY Zenon, <1>1, <2>1, IssueKeeps, CreateKeeps, VerifyKeeps, RevokeKeeps, LockKeeps,
       AssertKeeps, SelectKeeps, InsertKeeps, CommitKeeps DEF Step
<1>. QED
  BY Zenon, <1>1, OutsideKeeps DEF Next

\* The invariant of the control plane holds in every reachable state.
THEOREM PlaneInvariant == Spec => []PlaneInv
<1>1. Init => PlaneInv
  BY InitPlaneInv
<1>2. PlaneInv /\ [Next]_vars => PlaneInv'
  BY NextPlaneInv
<1>. QED
  BY <1>1, <1>2, PTL DEF Spec

\* Every row of the three tables was dated inside the lifetime of its session,
\* which had the capability for the table, however the checks of the route and
\* of the transaction were overtaken.
THEOREM EveryRowAuthorized == Spec => []RowsAuthorized
<1>1. PlaneInv => RowsAuthorized
  BY Zenon DEF PlaneInv, RowsEarned, Earned, RowsAuthorized, Rows
<1>. QED
  BY <1>1, PlaneInvariant, PTL

\* The tables tell one story of a packet: its decision follows from the packet
\* that was accepted, its request from the decision.
THEOREM TablesAgree == Spec => []ChainAgrees
<1>1. PlaneInv => ChainAgrees
  BY Zenon DEF PlaneInv, ChainsFollow, DecisionFollows, RequestFollows, ChainAgrees
<1>. QED
  BY <1>1, PlaneInvariant, PTL

\* A request about to insert finds its place free and nobody else about to fill
\* it.
THEOREM OneWriterAtATime == Spec => []OneWriterPerRow
<1>1. PlaneInv => OneWriterPerRow
  <2>. SUFFICES ASSUME PlaneInv, NEW c \in Calls, call[c].pc = "insert"
                PROVE  /\ Stored(c, Writers[call[c].kind]) = None
                       /\ \A d \in Calls \ {c} :
                            call[d].pc \in {"insert", "commit"} => ~Same(c, d)
    BY Zenon DEF OneWriterPerRow
  <2>1. Free(call[c], row) /\ Holds(call[c])
    BY Zenon, AtItsPlace
  <2>2. \A d \in Calls \ {c} : call[d].pc \in {"insert", "commit"} => Holds(call[d])
    BY Zenon, AtItsPlace
  <2>. QED
    BY Zenon, <2>1, <2>2 DEF Free, Stored, Same, Alike, PlaneInv, LockInv
<1>. QED
  BY <1>1, PlaneInvariant, PTL

\* A session that has been revoked, or whose operator is disabled, adds no row,
\* whatever its requests had passed before.
THEOREM WithdrawnAddsNothing == Spec => WithdrawnWritesNothing
<1> DEFINE Adds == \A t \in Tables, p \in Packets :
                      row'[t][p] # row[t][p] =>
                         /\ ~session[row'[t][p].session].revoked
                         /\ ~operator.disabled
<1>1. ASSUME PlaneInv, [Next]_vars PROVE [Adds]_vars
  <2>1. ASSUME NEW c \in Calls, Commit(c) PROVE Adds
    <3>1. call[c] \in CommitCall /\ CommitFit(call[c], session, operator, row)
      BY Zenon, <1>1, <2>1, CallShape DEF Commit, PlaneInv, Fit
    <3>2. call[c].record.session = call[c].session /\ Standing(call[c], session, operator)
      BY Zenon, <3>1 DEF CommitFit
    <3>3. \A t \in Tables, p \in Packets :
            row'[t][p] # row[t][p] => row'[t][p] = call[c].record
      BY Zenon, <1>1, <2>1, CommitFills
    <3>. QED
      BY Zenon, <3>2, <3>3 DEF Standing
  <2>2. CASE row' = row
    BY Zenon, <2>2
  <2>. QED
    BY Zenon, <1>1, <2>1, <2>2 DEF Next, Step, BeginIssue, CreateSession, TurnAway, Verify,
       RevokeSession, Lock, assertCurrentAuthorization, Select, Insert, Fail, Provision,
       Disable, MoveClock, Restart, vars
<1>. QED
  BY <1>1, PlaneInvariant, PTL DEF Spec, WithdrawnWritesNothing

-----------------------------------------------------------------------------
(***************************************************************************)
(* What a caller is told.                                                  *)
(***************************************************************************)
\* A 4xx status: the request has been refused.
Refuses(status) == status \in 400..499

\* The promise about the answer of one step to one request.
AnswerIsTrue(c) ==
    /\ Refuses(told'.status) => UNCHANGED <<session, row>>
    /\ told'.code = "conflict" => Differs(c)
    /\ call[c].kind = "revoke" /\ told'.code = "ok" =>
          ~session[call[c].session].revoked /\ session'[call[c].session].revoked
    /\ Serves(call[c].kind) /\ told'.code = "created" =>
          /\ Subject(c) = None
          /\ row'[Writers[call[c].kind]][call[c].body.packet] = told'.shown
    /\ Serves(call[c].kind) /\ told'.code = "ok" =>
          Subject(c) = told'.shown /\ UNCHANGED row

\* The fields of an answer.
LEMMA AnswerShape ==
    ASSUME NEW c, NEW code, NEW shown, Answer(c, code, shown)
    PROVE  told'.call = c /\ told'.code = code /\ told'.shown = shown
           /\ told'.status = StatusOf(code)
  BY Zenon DEF Answer

\* Created, done and unknown are not 4xx.
LEMMA StatusFacts ==
    /\ ~Refuses(StatusOf("created"))
    /\ ~Refuses(StatusOf("ok"))
    /\ ~Refuses(StatusOf("storage_unavailable"))
<1>1. StatusOf("created") = 201
  BY SMTT(60) DEF StatusOf
<1>2. StatusOf("ok") = 200
  BY SMTT(60) DEF StatusOf
<1>3. StatusOf("storage_unavailable") = 503
  BY SMTT(60) DEF StatusOf
<1>. QED
  BY SMTT(60), <1>1, <1>2, <1>3 DEF Refuses

\* An answer that may not be heard.
LEMMA OutcomeShape ==
    ASSUME NEW c, NEW code, NEW shown, Outcome(c, code, shown),
           ~Refuses(StatusOf(code))
    PROVE  /\ ~Refuses(told'.status)
           /\ \/ told'.code = code /\ told'.shown = shown
              \/ told'.code = "storage_unavailable"
<1>1. CASE Answer(c, code, shown)
  <2>1. told'.code = code /\ told'.shown = shown /\ told'.status = StatusOf(code)
    BY Zenon, <1>1 DEF Answer
  <2>. QED
    BY Zenon, <2>1
<1>2. CASE Answer(c, "storage_unavailable", None)
  <2>1. told'.code = "storage_unavailable" /\ told'.status = StatusOf("storage_unavailable")
    BY Zenon, <1>2 DEF Answer
  <2>. QED
    BY Zenon, <2>1, StatusFacts
<1>. QED
  BY Zenon, <1>1, <1>2 DEF Outcome

\* A refusal that says neither created, nor ok, nor conflict promises only that
\* nothing has changed.
LEMMA PlainRefusal ==
    ASSUME NEW c \in Calls, NEW code, code \notin {"created", "ok", "conflict"},
           Answer(c, code, None), UNCHANGED <<session, row>>
    PROVE  AnswerIsTrue(c)
  BY Zenon, AnswerShape DEF AnswerIsTrue

\* The kinds of request that touch no table.
LEMMA OtherKinds == ~Serves("issue") /\ ~Serves("revoke") /\ "issue" # "revoke"
                    /\ \A kind \in ServedKinds : kind # "revoke"
<1>1. "issue" \notin ServedKinds /\ "revoke" \notin ServedKinds /\ "issue" # "revoke"
  BY SMTT(60) DEF ServedKinds, WriterKinds, ReaderKinds
<1>. QED
  BY Zenon, <1>1, KindFacts

\* What each step tells the caller of a request under way is so.
LEMMA StepAnswers ==
    ASSUME PlaneInv, NEW c \in Calls, Step(c), call[c] # Idle, told' # Nothing
    PROVE  AnswerIsTrue(c)
<1>1. CASE CreateSession(c)
  <2>1. call[c] \in IssueCall /\ call[c].kind = "issue"
    BY Zenon, <1>1, CallShape DEF CreateSession, PlaneInv, IssueCall
  <2>2. Outcome(c, "created", call[c].record)
    BY Zenon, <1>1 DEF CreateSession
  <2>3. ~Refuses(told'.status) /\ told'.code \in {"created", "storage_unavailable"}
    BY Zenon, <2>2, OutcomeShape, StatusFacts
  <2>. QED
    BY Zenon, <2>1, <2>3, CodeFacts, OtherKinds DEF AnswerIsTrue
<1>2. CASE RevokeSession(c)
  <2> DEFINE s == call[c].session
  <2>1. call[c] \in RevokeCall /\ call[c].kind = "revoke" /\ s \in Sessions
        /\ session[s] # None
    BY Zenon, <1>2, CallShape DEF RevokeSession, PlaneInv, RevokeCall, Fit
  <2>2. row' = row
    BY Zenon, <1>2 DEF RevokeSession
  <2>3. CASE session' = session /\ \E code \in {"revoked_session", "storage_unavailable"} :
                Answer(c, code, None)
    BY Zenon, <2>2, <2>3, CodeFacts, PlainRefusal
  <2>4. CASE /\ ~session[s].revoked /\ session' = [session EXCEPT ![s].revoked = TRUE]
             /\ Outcome(c, "ok", None)
    <3>1. session'[s].revoked
      <4>1. session \in [Sessions -> SessionRow \cup {None}] /\ session[s] \in SessionRow
        BY Zenon, <2>1 DEF PlaneInv, PlaneTypeOK
      <4>2. session'[s] = [session[s] EXCEPT !.revoked = TRUE]
        BY Zenon, <2>1, <2>4, <4>1
      <4>. QED
        BY Zenon, <4>1, <4>2 DEF SessionRow
    <3>2. ~Refuses(told'.status)
          /\ (told'.code = "ok" \/ told'.code = "storage_unavailable")
      BY Zenon, <2>4, OutcomeShape, StatusFacts
    <3>. QED
      BY Zenon, <2>1, <2>4, <3>1, <3>2, CodeFacts, OtherKinds DEF AnswerIsTrue
  <2>. QED
    BY Zenon, <1>2, <2>3, <2>4 DEF RevokeSession
<1>3. CASE assertCurrentAuthorization(c)
  <2>1. Answer(c, "authorization_changed", None) /\ UNCHANGED <<session, row>>
    BY Zenon, <1>3 DEF assertCurrentAuthorization, Continue
  <2>. QED
    BY Zenon, <2>1, CodeFacts, PlainRefusal
<1>4. CASE Insert(c)
  <2>1. Answer(c, "storage_unavailable", None) /\ UNCHANGED <<session, row>>
    BY Zenon, <1>4 DEF Insert, Continue
  <2>. QED
    BY Zenon, <2>1, CodeFacts, PlainRefusal
<1>5. CASE Select(c)
  <2>1. TrueAnswer(c)
    BY Zenon, <1>5, SelectOutcomes DEF SelectOutcome, Continue
  <2>2. PICK code, shown : /\ Answer(c, code, shown) /\ code # "created"
                           /\ code = "conflict" => Differs(c)
                           /\ code = "ok" => Subject(c) = shown
    BY Zenon, <2>1 DEF TrueAnswer
  <2>3. told'.code = code /\ told'.shown = shown
    BY Zenon, <2>2, AnswerShape
  <2>4. call[c].kind # "revoke"
    BY Zenon, <1>5, CallShape, OpenShape, OtherKinds DEF Select, PlaneInv
  <2>5. UNCHANGED <<session, row>>
    BY Zenon, <1>5 DEF Select
  <2>. QED
    BY Zenon, <2>2, <2>3, <2>4, <2>5 DEF AnswerIsTrue
<1>6. CASE Commit(c)
  <2>1. call[c].pc \in {"insert", "commit"}
        /\ Outcome(c, "created", call[c].record)
    BY Zenon, <1>6 DEF Commit
  <2>2. call[c].kind \in WriterKinds /\ Free(call[c], row)
    BY Zenon, <2>1, AtItsPlace
  <2>3. Subject(c) = None
    BY Zenon, <2>2, KindFacts DEF Subject, Free
  <2>4. row'[Writers[call[c].kind]][call[c].body.packet] = call[c].record
    BY Zenon, <1>6, CommitFills
  <2>5. call[c].kind # "revoke"
    BY Zenon, <2>2, OtherKinds DEF ServedKinds
  <2>6. /\ ~Refuses(told'.status)
        /\ \/ told'.code = "created" /\ told'.shown = call[c].record
           \/ told'.code = "storage_unavailable"
    BY Zenon, <2>1, OutcomeShape, StatusFacts
  <2>. QED
    BY Zenon, <2>3, <2>4, <2>5, <2>6, CodeFacts DEF AnswerIsTrue
<1>7. CASE Fail(c)
  BY Zenon, <1>7, CodeFacts, PlainRefusal DEF Fail
<1>8. CASE BeginIssue(c) \/ TurnAway(c) \/ Verify(c) \/ Lock(c)
  BY Zenon, <1>8 DEF BeginIssue, TurnAway, Verify, Lock, Continue
<1>. QED
  BY Zenon, <1>1, <1>2, <1>3, <1>4, <1>5, <1>6, <1>7, <1>8 DEF Step

\* What a caller is told is so: created means added, a row shown is the row
\* stored, revoked means revoked, a conflict is about a difference and a 4xx
\* status has changed nothing.
THEOREM CallersAreToldTheTruth == Spec => AnswersAreTrue
<1> DEFINE Tells == \A c \in Calls : told'.call = c /\ call[c] # Idle => AnswerIsTrue(c)
<1>1. ASSUME PlaneInv, [Next]_vars PROVE [Tells]_vars
  <2>1. Nothing.call = None /\ None \notin Calls
    BY Zenon, LocalAssumption DEF Nothing
  <2>2. ASSUME NEW d \in Calls, Step(d) PROVE Tells
    <3>1. told' = Nothing \/ told'.call = d
      <4>1. \A code, shown : Answer(d, code, shown) => told'.call = d
        BY Zenon, AnswerShape
      <4>2. \A next : Continue(d, next) => told' = Nothing
        BY Zenon DEF Continue
      <4>3. CASE Select(d)
        BY Zenon, <1>1, <4>1, <4>2, <4>3, SelectOutcomes DEF SelectOutcome, TrueAnswer
      <4>4. CASE BeginIssue(d)
        BY Zenon, <4>1, <4>2, <4>4 DEF BeginIssue
      <4>5. CASE Verify(d)
        BY Zenon, <4>1, <4>2, <4>5 DEF Verify
      <4>6. CASE RevokeSession(d) \/ Commit(d)
        BY Zenon, <4>1, <4>2, <4>6 DEF RevokeSession, Commit, Outcome
      <4>7. CASE assertCurrentAuthorization(d) \/ Insert(d)
        BY Zenon, <4>1, <4>2, <4>7 DEF assertCurrentAuthorization, Insert
      <4>8. CASE CreateSession(d) \/ TurnAway(d) \/ Lock(d) \/ Fail(d)
        BY Zenon, <4>1, <4>2, <4>8 DEF CreateSession, Outcome, TurnAway, Lock, Fail
      <4>. QED
        BY Zenon, <2>2, <4>3, <4>4, <4>5, <4>6, <4>7, <4>8 DEF Step
    <3>2. CASE told' = Nothing
      BY Zenon, <2>1, <3>2
    <3>3. CASE told' # Nothing
      BY Zenon, <1>1, <2>2, <3>1, <3>3, StepAnswers
    <3>. QED
      BY Zenon, <3>2, <3>3
  <2>3. CASE Provision \/ Disable \/ MoveClock \/ Restart
    <3>1. told' = Nothing
      BY Zenon, <2>3 DEF Provision, Disable, MoveClock, Restart
    <3>. QED
      BY Zenon, <2>1, <3>1
  <2>. QED
    BY Zenon, <1>1, <2>2, <2>3 DEF Next
<1>. QED
  BY <1>1, PlaneInvariant, PTL DEF Spec, AnswersAreTrue, AnswerIsTrue, Refuses

=============================================================================
