--------------------------- MODULE GatewayOperationFile ---------------------------
(***************************************************************************)
(* The file behind the gateway's durable operations.  A store queues its   *)
(* requests; each loads the whole file, and one that changes it writes the *)
(* new list to a temporary file, syncs it, renames it over the old file    *)
(* and syncs the directory.  Any step may fail, and the machine may stop   *)
(* between any two: then a file that was not synced may be torn, and a     *)
(* rename that was not followed by a directory sync may be undone.         *)
(***************************************************************************)
EXTENDS Integers, FiniteSets

CONSTANTS
    Operations,
    Keys,           \* idempotency keys
    Callers,        \* requests that may be queued together
    Pids,           \* process identifiers, which the system may hand out again
    MaxVersion,     \* bound on a record's version
    MaxCounter      \* bound on the temporary files one process creates

ASSUME FileBounds == MaxVersion \in Nat \ {0} /\ MaxCounter \in Nat

VARIABLES
    visible,    \* what a reader of the path finds
    durable,    \* what a stop of the machine leaves of it
    temps,      \* temporary file name -> its content
    job,        \* the queued requests that have begun
    process,    \* the running process: its pid and its counter
    acked       \* operation -> the last version the store has confirmed

vars == <<visible, durable, temps, job, process, acked>>

-----------------------------------------------------------------------------
Whole(rows) == [rows |-> rows, whole |-> TRUE]
Torn == [rows |-> {}, whole |-> FALSE]
Idle == [pc |-> "idle"]
Names == Pids \X (0 .. MaxCounter)
NoFile == [rows |-> {}, whole |-> TRUE, synced |-> FALSE, exists |-> FALSE]

\* The name the next #save uses, and the counter it leaves behind.
temporaryPath == <<process.pid, process.counter>>

VersionOf(rows, o) ==
    IF \E r \in rows : r.op = o
    THEN (CHOOSE r \in rows : r.op = o).version ELSE 0

\* What #load accepts: complete, and no operation or key twice.
Loads(file) ==
    /\ file.whole
    /\ \A r, s \in file.rows : r.op = s.op \/ r.key = s.key => r = s

-----------------------------------------------------------------------------
ExclusiveDropped(c) == job[c] = Idle

\* #exclusive: a request begins when no other one is under way.
exclusive(c) == \A d \in Callers : job[d] = Idle

\* The list that a request is about to save, with what it will confirm.
saving(c, rows, o, version) ==
    job' = [job EXCEPT ![c] = [pc |-> "open", rows |-> rows, op |-> o,
                               version |-> version, name |-> temporaryPath]]

Begin(c) ==
    /\ exclusive(c)
    /\ Loads(visible)
    /\ process.counter < MaxCounter

\* A request that clashes with a stored row is answered from the file alone.
prepare(c, o, k) ==
    /\ Begin(c)
    /\ ~\E r \in visible.rows : r.op = o \/ r.key = k
    /\ saving(c, visible.rows \cup {[op |-> o, key |-> k, version |-> 1]}, o, 1)
    /\ process' = [process EXCEPT !.counter = @ + 1]
    /\ UNCHANGED <<visible, durable, temps, acked>>

compareAndSwap(c, o, expected) ==
    /\ Begin(c)
    /\ expected < MaxVersion
    /\ \E r \in visible.rows :
          /\ r.op = o
          /\ r.version = expected
          /\ saving(c, (visible.rows \ {r}) \cup {[r EXCEPT !.version = @ + 1]},
                    o, expected + 1)
    /\ process' = [process EXCEPT !.counter = @ + 1]
    /\ UNCHANGED <<visible, durable, temps, acked>>

-----------------------------------------------------------------------------
(***************************************************************************)
(* The steps of #save.                                                     *)
(***************************************************************************)
At(c, pc) == job[c].pc = pc
Goto(c, pc) == job' = [job EXCEPT ![c].pc = pc]

\* open(..., "wx"): only a name that is not there.
OpenTemporary(c) ==
    /\ At(c, "open")
    /\ ~temps[job[c].name].exists
    /\ temps' = [temps EXCEPT ![job[c].name] =
                   [rows |-> {}, whole |-> FALSE, synced |-> FALSE, exists |-> TRUE]]
    /\ Goto(c, "write")
    /\ UNCHANGED <<visible, durable, process, acked>>

WriteTemporary(c) ==
    /\ At(c, "write")
    /\ temps' = [temps EXCEPT ![job[c].name].rows = job[c].rows,
                              ![job[c].name].whole = TRUE]
    /\ Goto(c, "sync")
    /\ UNCHANGED <<visible, durable, process, acked>>

SyncSkipped(c) ==
    /\ At(c, "sync")
    /\ Goto(c, "rename")
    /\ UNCHANGED <<visible, durable, temps, process, acked>>

SyncTemporary(c) ==
    /\ At(c, "sync")
    /\ temps' = [temps EXCEPT ![job[c].name].synced = TRUE]
    /\ Goto(c, "rename")
    /\ UNCHANGED <<visible, durable, process, acked>>

\* Until the directory is synced, a stop may leave the old file, or the new
\* one as far as its data had been synced.
Rename(c) ==
    LET t == temps[job[c].name]
    IN  /\ At(c, "rename")
        /\ t.exists
        /\ visible' = [rows |-> t.rows, whole |-> t.whole]
        /\ durable' = durable \cup {IF t.synced THEN visible' ELSE Torn}
        /\ temps' = [temps EXCEPT ![job[c].name] = NoFile]
        /\ Goto(c, "directory")
        /\ UNCHANGED <<process, acked>>

DirectorySyncSkipped(c) ==
    /\ At(c, "directory")
    /\ acked' = [acked EXCEPT ![job[c].op] = job[c].version]
    /\ job' = [job EXCEPT ![c] = Idle]
    /\ UNCHANGED <<visible, durable, temps, process>>

\* The directory is synced and the request is confirmed.
SyncDirectory(c) ==
    /\ At(c, "directory")
    /\ durable' = {IF visible \in durable THEN visible ELSE Torn}
    /\ acked' = [acked EXCEPT ![job[c].op] = job[c].version]
    /\ job' = [job EXCEPT ![c] = Idle]
    /\ UNCHANGED <<visible, temps, process>>

\* A step that fails: #save's finally closes the handle and removes the
\* temporary name, whoever created it; the request is answered with an error.
SaveFails(c) ==
    /\ job[c] # Idle
    /\ temps' = [temps EXCEPT ![job[c].name] = NoFile]
    /\ job' = [job EXCEPT ![c] = Idle]
    /\ UNCHANGED <<visible, durable, process, acked>>

-----------------------------------------------------------------------------
\* The machine stops and a new process opens the store.  A temporary file may
\* be left over, whole or torn; pids are handed out again.
Stop ==
    /\ \E left \in durable : visible' = left /\ durable' = {left}
    /\ \E kept \in SUBSET {n \in Names : temps[n].exists} :
          temps' = [n \in Names |-> IF n \in kept THEN temps[n] ELSE NoFile]
    /\ \E p \in Pids : process' = [pid |-> p, counter |-> 0]
    /\ job' = [c \in Callers |-> Idle]
    /\ UNCHANGED acked

-----------------------------------------------------------------------------
Init ==
    /\ visible = Whole({})
    /\ durable = {Whole({})}
    /\ temps = [n \in Names |-> NoFile]
    /\ job = [c \in Callers |-> Idle]
    /\ process \in [pid : Pids, counter : {0}]
    /\ acked = [o \in Operations |-> 0]

Save(c) ==
    \/ OpenTemporary(c)
    \/ WriteTemporary(c)
    \/ SyncTemporary(c)
    \/ Rename(c)
    \/ SyncDirectory(c)
    \/ SaveFails(c)

Next ==
    \/ \E c \in Callers, o \in Operations, k \in Keys : prepare(c, o, k)
    \/ \E c \in Callers, o \in Operations, v \in 1 .. MaxVersion :
          compareAndSwap(c, o, v)
    \/ \E c \in Callers : Save(c)
    \/ Stop

Spec == Init /\ [][Next]_vars

-----------------------------------------------------------------------------


\* Whenever the machine stops, and whatever fails before, what is left is a
\* complete list that #load accepts: one row per operation and per key.
AlwaysLoads == Loads(visible) /\ \A d \in durable : Loads(d)

\* What the store has confirmed, a stop of the machine does not undo, and no
\* other request overwrites.
ConfirmedSurvives ==
    \A o \in Operations, d \in durable \cup {visible} :
        VersionOf(d.rows, o) >= acked[o]

\* A version is confirmed to one request only.  Whenever #save ends well, no request was
\* told before that this version of the operation, or a later one, is stored: of two
\* requests that overlap and start from the same version the later one is refused, and
\* not told that its own list is the one in the file.
ConfirmedOnce ==
    [][\A c \in Callers : SyncDirectory(c) => acked[job[c].op] < job[c].version]_vars

=================================================================================
