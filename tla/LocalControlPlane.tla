------------------------------ MODULE LocalControlPlane ------------------------------
(***************************************************************************)
(* The local control plane of the API: an operator signs in, and the       *)
(* session accepts packets, has policy decide about them and asks for the  *)
(* approval that a decision requires.  Every request is checked twice: by  *)
(* the route, before the request is parsed, and again inside the database  *)
(* transaction that serves it, which keeps the session and the operator    *)
(* from changing until it ends.  Requests overlap, time moves both ways    *)
(* (it is the wall clock), the operator is provisioned anew or disabled    *)
(* behind the API's back, statements fail, and the process restarts.       *)
(***************************************************************************)
EXTENDS Integers, Sequences

CONSTANTS
    Sessions,       \* session identifiers, each with its token and its proof
    Calls,          \* HTTP requests that may be in progress at the same time
    Packets,        \* packet identifiers
    Contents,       \* packets as policy sees them
    Credentials,    \* operator credentials
    Grants,         \* capability sets that an operator is provisioned with
    Instants,       \* what the clocks may show
    Ttls,           \* lifetimes a caller may ask for
    MinTtl, MaxTtl, \* lifetimes issue accepts (60 and 3600 seconds)
    None

VARIABLES
    clock,      \* the wall clock, of the API and of the database
    operator,   \* the row of local_operators
    session,    \* local_sessions
    row,        \* table -> packet -> its row, or None
    call,       \* the request in progress in each slot
    told        \* the answer given in the last step, if one was

vars == <<clock, operator, session, row, call, told>>

-----------------------------------------------------------------------------
Tables == {"intake", "decision", "request"}

\* The capability each table asks of a session.
RequiredCapability ==
    [intake   |-> "control_plane.packet.submit",
     decision |-> "control_plane.packet.policy.evaluate",
     request  |-> "control_plane.packet.approval.request"]

LOCAL_OPERATOR_CAPABILITY == "control_plane.operator"

Writers == [submit |-> "intake", evaluate |-> "decision", request |-> "request"]
Readers == [readPacket |-> "intake", readPolicy |-> "decision", readRequest |-> "request"]
TableOf(kind) == IF kind \in DOMAIN Writers THEN Writers[kind] ELSE Readers[kind]
Serves(kind) == kind \in DOMAIN Writers \cup DOMAIN Readers

\* A packet as policy sees it: what it allows itself, and what it admits to.
PacketContent == [blocked : BOOLEAN, forbidden : BOOLEAN, gated : BOOLEAN,
                  requires_approval : BOOLEAN, risk_level : 0..9]

ASSUME LocalAssumption ==
    /\ Contents \subseteq PacketContent
    /\ Instants \subseteq Int /\ Ttls \subseteq Int /\ MinTtl \in Int /\ MaxTtl \in Int
    /\ None \notin Calls \cup [capabilities : Grants, issued : Instants, expires : Int,
                               revoked : BOOLEAN]

Reason(holds, code) == IF holds THEN <<code>> ELSE <<>>

reasonCodesOf(packet) ==
    IF packet.blocked \/ packet.forbidden
    THEN Reason(packet.blocked, "policy.capability_blocked")
         \o Reason(packet.forbidden, "policy.capability_forbidden")
    ELSE Reason(packet.requires_approval, "policy.packet_requires_approval")
         \o Reason(packet.risk_level >= 5, "policy.risk_requires_approval")
         \o Reason(packet.gated, "policy.capability_requires_approval")

selectDecision(packet) ==
    IF packet.blocked \/ packet.forbidden THEN "deny"
    ELSE IF reasonCodesOf(packet) # <<>> THEN "approval_required" ELSE "allow"

\* What policy says depends on the packet and on when it was accepted alone.
decideUniversalPacketPolicy(packet, now) ==
    [kind |-> selectDecision(packet), reasons |-> reasonCodesOf(packet),
     created |-> now]

\* What a slot holds between two requests.
Idle == [pc |-> "idle"]
Nothing == [call |-> None]

\* The status a code is sent with.
StatusOf(code) ==
    CASE code = "created" -> 201
      [] code = "ok" -> 200
      [] code \in {"loopback_required", "capability_denied"} -> 403
      [] code \in {"invalid_credential", "invalid_session", "revoked_session",
                   "expired_session", "authorization_changed"} -> 401
      [] code = "not_found" -> 404
      [] code \in {"conflict", "not_reviewable"} -> 409
      [] code = "request_too_large" -> 413
      [] code = "storage_unavailable" -> 503
      [] OTHER -> 400

\* A call ends: its answer goes out and its transaction, if any, is over.
Answer(c, code, shown) ==
    /\ told' = [call |-> c, code |-> code, status |-> StatusOf(code), shown |-> shown]
    /\ call' = [call EXCEPT ![c] = Idle]

\* The outcome is not always heard: the statement may have run all the same.
Outcome(c, code, shown) ==
    Answer(c, code, shown) \/ Answer(c, "storage_unavailable", None)

Continue(c, next) == call' = [call EXCEPT ![c] = next] /\ told' = Nothing

-----------------------------------------------------------------------------
(***************************************************************************)
(* Sessions.                                                               *)
(***************************************************************************)
\* POST /auth/session.  The operator's row is read, and the session is stored
\* later, with what the row said then.
BeginIssue(c) ==
    /\ call[c] = Idle
    /\ \E credential \in Credentials, ttl \in Ttls :
          IF ttl < MinTtl \/ ttl > MaxTtl THEN Answer(c, "invalid_ttl", None)
          ELSE IF operator = None \/ operator.disabled
                  \/ operator.credential # credential
          THEN Answer(c, "invalid_credential", None)
          ELSE Continue(c, [pc |-> "createSession", kind |-> "issue",
                            record |-> [capabilities |-> operator.capabilities,
                                        issued |-> clock, expires |-> clock + ttl,
                                        revoked |-> FALSE]])
    /\ UNCHANGED <<clock, operator, session, row>>

\* Identifiers are random: a new session has one that no other has.
CreateSession(c) ==
    /\ call[c].pc = "createSession"
    /\ \E s \in Sessions :
          /\ session[s] = None
          /\ session' = [session EXCEPT ![s] = call[c].record]
          /\ Outcome(c, "created", call[c].record)
    /\ UNCHANGED <<clock, operator, row>>

\* The join that getSession reads through hides the sessions of a disabled
\* operator, and the token and the proof are compared with the row's digests.
verifyToken(token, proof, checkedAt) ==
    IF session[token] = None \/ operator.disabled \/ proof # token
    THEN "invalid_session"
    ELSE IF session[token].revoked THEN "revoked_session"
    ELSE IF checkedAt >= session[token].expires THEN "expired_session"
    ELSE "ok"

authorize(token, proof, checkedAt, capability) ==
    IF verifyToken(token, proof, checkedAt) # "ok"
    THEN verifyToken(token, proof, checkedAt)
    ELSE IF capability \notin session[token].capabilities
    THEN "capability_denied" ELSE "ok"

\* What a body may be refused for.  A body too large for the policy or the
\* approval route is sent as invalid_request, with the same status.
Faults ==
    [submit   |-> {"invalid_request", "request_too_large", "invalid_packet",
                   "synthetic_required"},
     evaluate |-> {"invalid_request", "request_too_large"},
     request  |-> {"invalid_request", "request_too_large"}]

\* The bodies that parse: a packet, nothing at all, or what a caller takes the
\* packet, one with reasons, and the reasons of its policy decision to be.
FitBodies(kind) ==
    CASE kind = "submit" ->
            [packet : Packets, content : Contents, fault : {"none"}]
      [] kind = "request" ->
            [packet : Packets, fault : {"none"},
             content : {x \in Contents : reasonCodesOf(x) # <<>>},
             reasons : {reasonCodesOf(x) : x \in Contents} \ {<<>>}]
      [] OTHER -> [packet : Packets, fault : {"none"}]

Bodies(kind) ==
    FitBodies(kind) \cup
    (IF kind \in DOMAIN Writers THEN [fault : Faults[kind]]
     ELSE IF kind \in DOMAIN Readers THEN [fault : {"invalid_request"}] ELSE {})

Kinds == {"view", "readback", "revoke"} \cup DOMAIN Writers \cup DOMAIN Readers

\* A request that is not local, or lacks the cookie or the proof header, or whose
\* session cannot be read.
TurnAway(c) ==
    /\ call[c] = Idle
    /\ \E code \in {"loopback_required", "invalid_session", "storage_unavailable"} :
          Answer(c, code, None)
    /\ UNCHANGED <<clock, operator, session, row>>

\* The capability a route asks for; showing and ending a session asks for none.
authorizeRequest(kind, token, proof, checkedAt) ==
    IF Serves(kind)
    THEN authorize(token, proof, checkedAt, RequiredCapability[TableOf(kind)])
    ELSE IF kind = "readback"
    THEN authorize(token, proof, checkedAt, LOCAL_OPERATOR_CAPABILITY)
    ELSE verifyToken(token, proof, checkedAt)

\* A request that goes on: submit and create wait for their lock, everything
\* else first reads in a transaction of its own.
Opened(kind, token, body) ==
    [pc |-> IF kind \in {"submit", "request"} THEN "lock" ELSE "assert",
     kind |-> kind, session |-> token, body |-> body, input |-> None,
     putting |-> FALSE]

\* The session is read some time after the request came in, and compared with
\* what the clock showed then; the body is parsed once it has passed.
Verify(c) ==
    /\ call[c] = Idle
    /\ \E kind \in Kinds, token, proof \in Sessions, checkedAt \in Instants :
          IF authorizeRequest(kind, token, proof, checkedAt) # "ok"
          THEN Answer(c, authorizeRequest(kind, token, proof, checkedAt), None)
          ELSE IF kind \in {"view", "readback"} THEN Answer(c, "ok", session[token])
          ELSE IF kind = "revoke"
          THEN Continue(c, [pc |-> "revokeSession", kind |-> "revoke",
                            session |-> token, at |-> clock])
          ELSE \E body \in Bodies(kind) :
                  IF body.fault # "none" THEN Answer(c, body.fault, None)
                  ELSE Continue(c, Opened(kind, token, body))
    /\ UNCHANGED <<clock, operator, session, row>>

-----------------------------------------------------------------------------
(***************************************************************************)
(* Transactions.  The assertion of the authorization locks the session and *)
(* the operator against change until the transaction ends.                 *)
(***************************************************************************)
InTransaction(c) == call[c].pc \in {"select", "insert", "commit"}
HoldsShareNever(c) == FALSE
HoldsShare(c) == InTransaction(c)
SessionLocked(s) == \E c \in Calls : HoldsShare(c) /\ call[c].session = s
OperatorLocked == \E c \in Calls : HoldsShare(c)

\* The update finds the session not yet revoked, or revokes nothing.  The time
\* it writes is older than the wait; the table refuses one before the issue.
RevokeSession(c) ==
    /\ call[c].pc = "revokeSession"
    /\ ~SessionLocked(call[c].session)
    /\ IF session[call[c].session].revoked
       THEN Answer(c, "revoked_session", None) /\ UNCHANGED session
       ELSE IF call[c].at < session[call[c].session].issued
       THEN Answer(c, "storage_unavailable", None) /\ UNCHANGED session
       ELSE /\ session' = [session EXCEPT ![call[c].session].revoked = TRUE]
            /\ Outcome(c, "ok", None)
    /\ UNCHANGED <<clock, operator, row>>

Same(c, d) ==
    /\ TableOf(call[c].kind) = TableOf(call[d].kind)
    /\ call[c].body.packet = call[d].body.packet

HoldsLock(d) ==
    /\ call[d].pc \in {"assert", "select", "insert", "commit"}
    /\ call[d].putting

LockFreeOfAll(c) == TRUE

\* pg_advisory_xact_lock, one per table and packet.
LockFree(c) == ~\E d \in Calls \ {c} : HoldsLock(d) /\ Same(c, d)

Lock(c) ==
    /\ call[c].pc = "lock"
    /\ LockFree(c)
    /\ Continue(c, [call[c] EXCEPT !.pc = "assert", !.putting = TRUE])
    /\ UNCHANGED <<clock, operator, session, row>>

Live(s, capability) ==
    /\ session[s] # None /\ ~operator.disabled /\ ~session[s].revoked
    /\ session[s].issued <= clock /\ clock < session[s].expires
    /\ capability \in session[s].capabilities

Current(c) == Live(call[c].session, RequiredCapability[TableOf(call[c].kind)])

assertCurrentAuthorization(c) ==
    /\ call[c].pc = "assert"
    /\ IF Current(c) THEN Continue(c, [call[c] EXCEPT !.pc = "select"])
       ELSE Answer(c, "authorization_changed", None)
    /\ UNCHANGED <<clock, operator, session, row>>

Stored(c, table) == row[table][call[c].body.packet]

-----------------------------------------------------------------------------
(***************************************************************************)
(* What each repository finds once it is authorized, and what its service  *)
(* makes of it.  The rows are never changed or removed.                    *)
(***************************************************************************)
Shown(c, stored) ==
    IF stored = None THEN Answer(c, "not_found", None) ELSE Answer(c, "ok", stored)

readPacket(c) == Shown(c, Stored(c, "intake"))

\* A stored decision is derived once more from the packet before it is shown.
readPolicy(c) ==
    IF Stored(c, "decision") # None
       /\ Stored(c, "decision").verdict # decideUniversalPacketPolicy(
              Stored(c, "intake").content, Stored(c, "intake").at)
    THEN Answer(c, "conflict", None)
    ELSE Shown(c, Stored(c, "decision"))

readRequest(c) == Shown(c, Stored(c, "request"))

\* loadInput: the transaction ends, and the packet it read is decided about.
LoadInput(c) ==
    IF Stored(c, "intake") = None THEN Answer(c, "not_found", None)
    ELSE Continue(c, [call[c] EXCEPT !.pc = "lock", !.input = Stored(c, "intake")])

ExistingIsCreated(c, stored, matches) ==
    IF stored = None THEN Continue(c, [call[c] EXCEPT !.pc = "insert"])
    ELSE IF matches THEN Answer(c, "created", stored)
    ELSE Answer(c, "conflict", None)

\* A row that is there already answers the request if it is what the request
\* would have stored.
Existing(c, stored, matches) ==
    IF stored = None THEN Continue(c, [call[c] EXCEPT !.pc = "insert"])
    ELSE IF matches THEN Answer(c, "ok", stored)
    ELSE Answer(c, "conflict", None)

putIntake(c) ==
    Existing(c, Stored(c, "intake"),
             Stored(c, "intake").content = call[c].body.content)

VerdictNow(c) == decideUniversalPacketPolicy(call[c].input.content, clock)

verdictOf(c) == decideUniversalPacketPolicy(call[c].input.content, call[c].input.at)

putDecision(c) ==
    IF Stored(c, "intake") = None \/ Stored(c, "intake").content # call[c].input.content
    THEN Answer(c, "conflict", None)
    ELSE Existing(c, Stored(c, "decision"), Stored(c, "decision").verdict = verdictOf(c))

\* selectReviewablePolicy takes a decision without reasons, which is one that allows the
\* packet, for a damaged row: the caller hears that storage failed, not that there is
\* nothing to review.  The request is bound to the session that made it: repeated from
\* another session of the same operator, it conflicts.
putRequest(c) ==
    LET policy == Stored(c, "decision")
        stored == Stored(c, "request")
    IN  IF policy = None THEN Answer(c, "not_found", None)
        ELSE IF policy.verdict.reasons = <<>> THEN Answer(c, "storage_unavailable", None)
        ELSE IF policy.verdict.kind # "approval_required"
        THEN Answer(c, "not_reviewable", None)
        ELSE IF policy.content # call[c].body.content
                \/ policy.verdict.reasons # call[c].body.reasons
        THEN Answer(c, "conflict", None)
        ELSE Existing(c, stored, /\ stored.content = call[c].body.content
                                 /\ stored.reasons = call[c].body.reasons
                                 /\ stored.session = call[c].session)

Select(c) ==
    /\ call[c].pc = "select"
    /\ CASE call[c].kind = "readPacket" -> readPacket(c)
         [] call[c].kind = "readPolicy" -> readPolicy(c)
         [] call[c].kind = "readRequest" -> readRequest(c)
         [] call[c].kind = "submit" -> putIntake(c)
         [] call[c].kind = "evaluate" /\ ~call[c].putting -> LoadInput(c)
         [] call[c].kind = "evaluate" /\ call[c].putting -> putDecision(c)
         [] call[c].kind = "request" -> putRequest(c)
    /\ UNCHANGED <<clock, operator, session, row>>

\* The row of an insert, dated by the database.
NewRow(c) ==
    CASE call[c].kind = "submit" ->
            [content |-> call[c].body.content, session |-> call[c].session, at |-> clock]
      [] call[c].kind = "evaluate" ->
            [content |-> call[c].input.content, session |-> call[c].session, at |-> clock,
             verdict |-> verdictOf(c)]
      [] call[c].kind = "request" ->
            [content |-> call[c].body.content, session |-> call[c].session, at |-> clock,
             reasons |-> call[c].body.reasons]

\* Constraints and triggers tie a row to the rows it is about.
Bound(c) ==
    /\ call[c].kind = "evaluate" =>
          /\ Stored(c, "intake").content = call[c].input.content
          /\ call[c].input.at <= clock
    /\ call[c].kind = "request" =>
          /\ Stored(c, "decision").content = call[c].body.content
          /\ Stored(c, "decision").verdict.kind = "approval_required"
          /\ Stored(c, "decision").verdict.reasons = call[c].body.reasons

TriggerTrustsAssertion(c) == Bound(c)

\* The trigger checks the authorization once more, at the time of the insert.
TriggerAccepts(c) == Current(c) /\ Bound(c)

\* A unique index makes an insert wait for one of the same key that is not
\* committed, and refuses a key that is taken.
Insert(c) ==
    /\ call[c].pc = "insert"
    /\ ~\E d \in Calls \ {c} : call[d].pc = "commit" /\ Same(c, d)
    /\ IF TriggerAccepts(c) /\ Stored(c, Writers[call[c].kind]) = None
       THEN Continue(c, [pc |-> "commit", kind |-> call[c].kind, putting |-> TRUE,
                         session |-> call[c].session, body |-> call[c].body,
                         record |-> NewRow(c)])
       ELSE Answer(c, "storage_unavailable", None)
    /\ UNCHANGED <<clock, operator, session, row>>

Commit(c) ==
    /\ call[c].pc = "commit"
    /\ row' = [row EXCEPT ![Writers[call[c].kind]][call[c].body.packet] = call[c].record]
    /\ Outcome(c, "created", call[c].record)
    /\ UNCHANGED <<clock, operator, session>>

\* A connection, a statement or a commit fails: the transaction is rolled back.
Fail(c) ==
    /\ call[c] # Idle
    /\ Answer(c, "storage_unavailable", None)
    /\ UNCHANGED <<clock, operator, session, row>>

-----------------------------------------------------------------------------
\* The database script stores the operator, or gives it another credential and
\* other capabilities; it never enables a disabled one.
Provision ==
    /\ ~OperatorLocked
    /\ \E credential \in Credentials, capabilities \in Grants :
          operator' = [credential |-> credential, capabilities |-> capabilities,
                       disabled |-> operator # None /\ operator.disabled]
    /\ operator' # operator
    /\ told' = Nothing
    /\ UNCHANGED <<clock, session, row, call>>

\* disabled_at is set in the database; nothing in the API sets it.
Disable ==
    /\ ~OperatorLocked
    /\ operator # None /\ ~operator.disabled
    /\ operator' = [operator EXCEPT !.disabled = TRUE]
    /\ told' = Nothing
    /\ UNCHANGED <<clock, session, row, call>>

MoveClock ==
    /\ clock' \in Instants \ {clock}
    /\ told' = Nothing
    /\ UNCHANGED <<operator, session, row, call>>

\* The process ends; the database rolls back what was not committed.
Restart ==
    /\ \E c \in Calls : call[c] # Idle
    /\ call' = [c \in Calls |-> Idle]
    /\ told' = Nothing
    /\ UNCHANGED <<clock, operator, session, row>>

Init ==
    /\ clock \in Instants
    /\ operator = None
    /\ session = [s \in Sessions |-> None]
    /\ row = [t \in Tables |-> [p \in Packets |-> None]]
    /\ call = [c \in Calls |-> Idle]
    /\ told = Nothing

Step(c) ==
    \/ BeginIssue(c) \/ CreateSession(c) \/ TurnAway(c) \/ Verify(c) \/ RevokeSession(c)
    \/ Lock(c) \/ assertCurrentAuthorization(c) \/ Select(c) \/ Insert(c) \/ Commit(c)
    \/ Fail(c)

Next == (\E c \in Calls : Step(c)) \/ Provision \/ Disable \/ MoveClock \/ Restart

Spec == Init /\ [][Next]_vars

-----------------------------------------------------------------------------
(***************************************************************************)
(* Properties.                                                             *)
(***************************************************************************)
\* A session that has been revoked, or whose operator has been disabled, adds
\* no row any more, not even through a request that was let in before: the
\* transactions of the three repositories keep both rows as they found them
\* until they have committed.
WithdrawnWritesNothing ==
    [][\A t \in Tables, p \in Packets :
          row'[t][p] # row[t][p] =>
             /\ ~session[row'[t][p].session].revoked
             /\ ~operator.disabled]_vars

Rows(t) == {row[t][p] : p \in Packets} \ {None}

\* Every row was dated, by the database, inside the lifetime of the session it
\* names, and that session had been given the capability for its table: the
\* checks of the route and of the transaction may be out of date by then, the
\* one of the insert trigger is not.
RowsAuthorized ==
    \A t \in Tables : \A r \in Rows(t) :
       /\ session[r.session] # None
       /\ session[r.session].issued <= r.at /\ r.at < session[r.session].expires
       /\ RequiredCapability[t] \in session[r.session].capabilities

\* The three tables tell one story of a packet: a decision is what policy says
\* of the packet that was accepted, at the time it was accepted and never dated
\* before it, and approval is asked for only where that decision requires it,
\* for its reasons.
ChainAgrees ==
    \A p \in Packets :
       LET i == row["intake"][p]
           d == row["decision"][p]
           r == row["request"][p]
       IN  /\ d # None =>
                /\ i # None /\ d.content = i.content /\ i.at <= d.at
                /\ d.verdict = decideUniversalPacketPolicy(i.content, i.at)
           /\ r # None =>
                /\ d # None /\ d.verdict.kind = "approval_required"
                /\ r.content = d.content /\ r.reasons = d.verdict.reasons

\* Of all that write about one packet in one table, one at a time is past its
\* lock, and an insert finds no row: a request never fails on the unique index
\* because another one came first.
OneWriterPerRow ==
    \A c \in Calls : call[c].pc = "insert" =>
       /\ Stored(c, Writers[call[c].kind]) = None
       /\ \A d \in Calls \ {c} : call[d].pc \in {"insert", "commit"} => ~Same(c, d)

\* The request differs from what is stored.
Differs(c) ==
    CASE call[c].kind = "submit" -> Stored(c, "intake").content # call[c].body.content
      [] call[c].kind = "request" ->
            \/ Stored(c, "decision").content # call[c].body.content
            \/ Stored(c, "decision").verdict.reasons # call[c].body.reasons
            \/ Stored(c, "request") # None /\ Stored(c, "request").session # call[c].session
      [] OTHER -> FALSE

Subject(c) == row[TableOf(call[c].kind)][call[c].body.packet]

\* What a caller is told is so.  Who is told "created" added the row, who is
\* shown a row is shown the one stored, who is told that a session is revoked
\* revoked it, a conflict is about a real difference, and a request refused with
\* a 4xx status has changed nothing.  (A 503 leaves the caller in the dark.)
AnswersAreTrue ==
    [][\A c \in Calls : told'.call = c /\ call[c] # Idle =>
          /\ told'.status \in 400..499 => UNCHANGED <<session, row>>
          /\ told'.code = "conflict" => Differs(c)
          /\ call[c].kind = "revoke" /\ told'.code = "ok" =>
                ~session[call[c].session].revoked /\ session'[call[c].session].revoked
          /\ Serves(call[c].kind) /\ told'.code = "created" =>
                /\ Subject(c) = None
                /\ row'[Writers[call[c].kind]][call[c].body.packet] = told'.shown
          /\ Serves(call[c].kind) /\ told'.code = "ok" =>
                Subject(c) = told'.shown /\ UNCHANGED row]_vars
====
