--------------------------- MODULE GatewayFileProofs ---------------------------
(***************************************************************************)
(* The file behind the gateway's operations, for any operations, keys,     *)
(* callers, process identifiers and bounds.  One request at a time saves;  *)
(* the list it is about to save already carries every version confirmed so *)
(* far, so that each state a stop of the machine can leave does too.       *)
(***************************************************************************)
EXTENDS GatewayOperationFile, TLAPS

Row == [op : Operations, key : Keys, version : 1 .. MaxVersion]
File == [rows : SUBSET Row, whole : BOOLEAN]
Temporary == [rows : SUBSET Row, whole : BOOLEAN, synced : BOOLEAN, exists : BOOLEAN]
Job == [pc : {"open", "write", "sync", "rename", "directory"}, rows : SUBSET Row,
        op : Operations, version : 1 .. MaxVersion, name : Names]

FileTypeOK ==
    /\ visible \in File
    /\ durable \in SUBSET File
    /\ temps \in [Names -> Temporary]
    /\ job \in [Callers -> Job \cup {Idle}]
    /\ process \in [pid : Pids, counter : 0 .. MaxCounter]
    /\ acked \in [Operations -> 0 .. MaxVersion]

\* No operation and no key has two rows.
Unique(rows) == \A r, s \in rows : r.op = s.op \/ r.key = s.key => r = s

\* The list carries every confirmed version, or a later one.
Covers(rows, confirmed) ==
    \A o \in Operations :
        confirmed[o] = 0 \/ \E r \in rows : r.op = o /\ r.version >= confirmed[o]

\* What a request is about to save, and confirm.
Prospect(j) ==
    /\ Unique(j.rows)
    /\ Covers(j.rows, acked)
    /\ j.version > acked[j.op]
    /\ \E r \in j.rows : r.op = j.op /\ r.version = j.version

\* How far #save has come with it.
Progress(j) ==
    /\ j.pc \in {"sync", "rename"} =>
          temps[j.name].rows = j.rows /\ temps[j.name].whole
    /\ j.pc = "rename" => temps[j.name].synced
    /\ j.pc = "directory" => visible = Whole(j.rows)

FilesInv ==
    /\ visible \in durable
    /\ \A d \in durable : d.whole /\ Unique(d.rows) /\ Covers(d.rows, acked)

JobsInv ==
    /\ \A c, d \in Callers : job[c] # Idle /\ job[d] # Idle => c = d
    /\ \A c \in Callers : job[c] # Idle => Prospect(job[c]) /\ Progress(job[c])

FileInv == FileTypeOK /\ FilesInv /\ JobsInv

-----------------------------------------------------------------------------
\* The version of an operation is the version of its one row: the CHOOSE of
\* VersionOf has one candidate in a list that #load accepts.
LEMMA VersionIs ==
    ASSUME NEW rows, Unique(rows), NEW r \in rows
    PROVE  VersionOf(rows, r.op) = r.version
<1>1. \A s \in rows : s.op = r.op => s = r
  BY Zenon DEF Unique
<1>2. (CHOOSE s \in rows : s.op = r.op) \in rows
      /\ (CHOOSE s \in rows : s.op = r.op).op = r.op
  BY Zenon
<1>3. (CHOOSE s \in rows : s.op = r.op) = r
  BY Zenon, <1>1, <1>2
<1>. QED
  BY Zenon, <1>3 DEF VersionOf

\* A list that covers what is confirmed has a version at least as high.
LEMMA CoveredVersion ==
    ASSUME acked \in [Operations -> 0 .. MaxVersion],
           NEW rows \in SUBSET Row, Unique(rows), Covers(rows, acked),
           NEW o \in Operations
    PROVE  VersionOf(rows, o) >= acked[o]
<1>1. CASE \E r \in rows : r.op = o
  <2>1. PICK r \in rows : r.op = o
    BY Zenon, <1>1
  <2>2. VersionOf(rows, o) = r.version
    BY Zenon, <2>1, VersionIs
  <2>3. r.version \in 1 .. MaxVersion /\ acked[o] \in 0 .. MaxVersion
    BY Zenon, <2>1 DEF Row
  <2>4. acked[o] = 0 \/ r.version >= acked[o]
    <3>1. \A s \in rows : s.op = o => s = r
      BY Zenon, <2>1 DEF Unique
    <3>. QED
      BY Zenon, <3>1 DEF Covers
  <2>. QED
    BY SMTT(60), <2>2, <2>3, <2>4, FileBounds
<1>2. CASE ~\E r \in rows : r.op = o
  <2>1. VersionOf(rows, o) = 0 /\ acked[o] = 0
    BY Zenon, <1>2 DEF VersionOf, Covers
  <2>. QED
    BY SMTT(60), <2>1
<1>. QED
  BY Zenon, <1>1, <1>2

\* The empty store satisfies the invariant.
LEMMA InitFileInv == Init => FileInv
<1>. SUFFICES ASSUME Init PROVE FileInv
  OBVIOUS
<1>1. FileTypeOK
  BY SMTT(60), FileBounds DEF Init, FileTypeOK, File, Temporary, Whole, NoFile
<1>2. FilesInv
  BY SMTT(60) DEF Init, FilesInv, Unique, Covers, Whole
<1>3. JobsInv
  BY SMTT(60) DEF Init, JobsInv
<1>. QED
  BY Zenon, <1>1, <1>2, <1>3 DEF FileInv

-----------------------------------------------------------------------------
\* A request that begins leaves the files alone and takes the queue.
LEMMA BeginKeeps ==
    ASSUME FileInv, NEW c \in Callers, NEW rows \in SUBSET Row, NEW o \in Operations,
           NEW version \in 1 .. MaxVersion, Begin(c), saving(c, rows, o, version),
           process' = [process EXCEPT !.counter = @ + 1],
           UNCHANGED <<visible, durable, temps, acked>>,
           Unique(rows), Covers(rows, acked), version > acked[o],
           \E r \in rows : r.op = o /\ r.version = version
    PROVE  FileInv'
<1> DEFINE j == [pc |-> "open", rows |-> rows, op |-> o,
                 version |-> version, name |-> temporaryPath]
<1>1. job' = [job EXCEPT ![c] = j] /\ \A d \in Callers : job[d] = Idle
  BY Zenon DEF saving, Begin, exclusive
<1>2. process.pid \in Pids /\ process.counter \in 0 .. MaxCounter
  BY Zenon DEF FileInv, FileTypeOK
<1>3. temporaryPath \in Names
  BY SMTT(60), <1>2 DEF temporaryPath, Names
<1>4. j \in Job
  BY SMTT(60), <1>3 DEF Job
<1>5. process' \in [pid : Pids, counter : 0 .. MaxCounter]
  BY SMTT(60), FileBounds DEF FileInv, FileTypeOK, Begin
<1>6. FileTypeOK'
  BY SMTT(60), <1>1, <1>4, <1>5 DEF FileInv, FileTypeOK
<1>7. FilesInv'
  BY Zenon DEF FileInv, FilesInv, Unique, Covers
<1>8. job'[c] = j /\ \A d \in Callers : d # c => job'[d] = Idle
  BY SMTT(60), <1>1 DEF FileInv, FileTypeOK
<1>9. acked' = acked /\ j.pc = "open" /\ j.rows = rows /\ j.op = o /\ j.version = version
  BY Zenon
<1>10. JobsInv'
  <2>1. \A d \in Callers : job'[d] # Idle => d = c
    BY Zenon, <1>8
  <2>2. Prospect(job[c])' /\ Progress(job[c])'
    <3>. HIDE DEF j
    <3>. QED
      BY SMTT(60), <1>8, <1>9 DEF Prospect, Progress
  <2>. QED
    BY Zenon, <2>1, <2>2 DEF JobsInv
<1>. QED
  BY Zenon, <1>6, <1>7, <1>10 DEF FileInv

\* prepare adds the first version of an operation that has no row yet.
LEMMA PrepareKeeps ==
    ASSUME FileInv, NEW c \in Callers, NEW o \in Operations, NEW k \in Keys,
           prepare(c, o, k)
    PROVE  FileInv'
<1> DEFINE row == [op |-> o, key |-> k, version |-> 1]
           rows == visible.rows \cup {row}
<1>1. Begin(c) /\ saving(c, rows, o, 1)
      /\ process' = [process EXCEPT !.counter = @ + 1]
      /\ UNCHANGED <<visible, durable, temps, acked>>
      /\ ~\E r \in visible.rows : r.op = o \/ r.key = k
  BY Zenon DEF prepare
<1>2. 1 \in 1 .. MaxVersion
  BY SMTT(60), FileBounds
<1>3. row \in Row
  BY SMTT(60), <1>2 DEF Row
<1>4. visible.rows \in SUBSET Row /\ Unique(visible.rows) /\ Covers(visible.rows, acked)
  BY SMTT(60) DEF FileInv, FileTypeOK, FilesInv, File
<1>5. Unique(rows)
  BY SMTT(60), <1>1, <1>4 DEF Unique
<1>6. Covers(rows, acked)
  BY Zenon, <1>4 DEF Covers
<1>7. acked[o] = 0
  BY Zenon, <1>1, <1>4 DEF Covers
<1>8. 1 > acked[o] /\ row.op = o /\ row.version = 1
  BY SMTT(60), <1>7
<1>9. rows \in SUBSET Row /\ row \in rows
  BY Zenon, <1>3, <1>4
<1>. HIDE DEF row, rows
<1>. QED
  BY Zenon, <1>1, <1>2, <1>5, <1>6, <1>8, <1>9, BeginKeeps

\* compareAndSwap replaces the one row of an operation by its next version.
LEMMA SwapKeeps ==
    ASSUME FileInv, NEW c \in Callers, NEW o \in Operations,
           NEW expected \in 1 .. MaxVersion, compareAndSwap(c, o, expected)
    PROVE  FileInv'
<1>1. PICK r \in visible.rows :
        /\ r.op = o
        /\ r.version = expected
        /\ saving(c, (visible.rows \ {r}) \cup {[r EXCEPT !.version = @ + 1]},
                  o, expected + 1)
  BY Zenon DEF compareAndSwap
<1> DEFINE row == [r EXCEPT !.version = @ + 1]
           rows == (visible.rows \ {r}) \cup {row}
<1>2. Begin(c) /\ expected < MaxVersion /\ saving(c, rows, o, expected + 1)
      /\ process' = [process EXCEPT !.counter = @ + 1]
      /\ UNCHANGED <<visible, durable, temps, acked>>
  BY Zenon, <1>1 DEF compareAndSwap
<1>3. visible.rows \in SUBSET Row /\ Unique(visible.rows) /\ Covers(visible.rows, acked)
  BY SMTT(60) DEF FileInv, FileTypeOK, FilesInv, File
<1>4. expected + 1 \in 1 .. MaxVersion
  BY SMTT(60), <1>2, FileBounds
<1>5. row \in Row /\ row.op = o /\ row.key = r.key /\ row.version = expected + 1
  BY SMTT(60), <1>1, <1>3, <1>4 DEF Row
<1>6. acked[o] \in 0 .. MaxVersion /\ VersionOf(visible.rows, o) = expected
  <2>1. VersionOf(visible.rows, r.op) = r.version
    BY Zenon, <1>1, <1>3, VersionIs
  <2>2. acked[o] \in 0 .. MaxVersion
    BY Zenon DEF FileInv, FileTypeOK
  <2>. QED
    BY Zenon, <1>1, <2>1, <2>2
<1>7. expected >= acked[o]
  <2>1. VersionOf(visible.rows, o) >= acked[o]
    BY Zenon, <1>3, CoveredVersion DEF FileInv, FileTypeOK
  <2>. QED
    BY Zenon, <2>1, <1>6
<1>8. expected + 1 > acked[o] /\ expected + 1 >= acked[o]
  BY SMTT(60), <1>6, <1>7
<1>9. \A s \in visible.rows : s # r => s.op # o /\ s.key # r.key
  BY Zenon, <1>1, <1>3 DEF Unique
<1>10. rows \in SUBSET Row /\ row \in rows
       /\ \A s \in rows : s = row \/ (s \in visible.rows /\ s # r)
  <2>. HIDE DEF row
  <2>. QED
    BY SMTT(60), <1>3, <1>5
<1>11. Unique(rows)
  BY Zenon, <1>3, <1>5, <1>9, <1>10 DEF Unique
<1>12. Covers(rows, acked)
  <2>1. \A s \in visible.rows : s # r => s \in rows
    BY Zenon
  <2>. HIDE DEF row, rows
  <2>2. ASSUME NEW p \in Operations, acked[p] # 0
        PROVE  \E s \in rows : s.op = p /\ s.version >= acked[p]
    <3>1. CASE p = o
      BY Zenon, <3>1, <1>5, <1>8, <1>10
    <3>2. CASE p # o
      BY Zenon, <3>2, <2>1, <2>2, <1>1, <1>3 DEF Covers
    <3>. QED
      BY Zenon, <3>1, <3>2
  <2>. QED
    BY Zenon, <2>2 DEF Covers
<1>. HIDE DEF row, rows
<1>. QED
  BY Zenon, <1>2, <1>4, <1>5, <1>8, <1>10, <1>11, <1>12, BeginKeeps

-----------------------------------------------------------------------------
\* The request under way: its list is fit to be saved, and no other request
\* has begun.
LEMMA Active ==
    ASSUME FileInv, NEW c \in Callers, job[c] # Idle
    PROVE  /\ job[c] \in Job
           /\ Prospect(job[c])
           /\ Progress(job[c])
           /\ \A d \in Callers : d # c => job[d] = Idle
  BY Zenon DEF FileInv, FileTypeOK, JobsInv

\* A step of #save that only touches the temporary file and moves on.
LEMMA TemporaryKeeps ==
    ASSUME FileInv, NEW c \in Callers, job[c] # Idle,
           NEW pc \in {"write", "sync", "rename"}, NEW file \in Temporary,
           temps' = [temps EXCEPT ![job[c].name] = file], Goto(c, pc),
           UNCHANGED <<visible, durable, process, acked>>,
           pc \in {"sync", "rename"} => file.rows = job[c].rows /\ file.whole,
           pc = "rename" => file.synced
    PROVE  FileInv'
<1>1. job[c] \in Job /\ Prospect(job[c]) /\ \A d \in Callers : d # c => job[d] = Idle
  BY Zenon, Active
<1>2. job \in [Callers -> Job \cup {Idle}] /\ temps \in [Names -> Temporary]
  BY Zenon DEF FileInv, FileTypeOK
<1>3. job[c].name \in Names /\ job' = [job EXCEPT ![c].pc = pc]
  BY SMTT(60), <1>1 DEF Job, Goto
<1>4. job'[c] = [job[c] EXCEPT !.pc = pc] /\ \A d \in Callers : d # c => job'[d] = Idle
  BY SMTT(60), <1>1, <1>2, <1>3
<1>5. job'[c] \in Job /\ job'[c].pc = pc /\ job'[c].rows = job[c].rows
      /\ job'[c].op = job[c].op /\ job'[c].version = job[c].version
      /\ job'[c].name = job[c].name
  BY SMTT(60), <1>1, <1>4 DEF Job
<1>6. job' \in [Callers -> Job \cup {Idle}]
  BY SMTT(60), <1>2, <1>3, <1>4, <1>5
<1>7. temps' \in [Names -> Temporary] /\ temps'[job[c].name] = file
  BY SMTT(60), <1>2, <1>3
<1>8. FileTypeOK'
  BY Zenon, <1>6, <1>7 DEF FileInv, FileTypeOK
<1>9. FilesInv'
  BY Zenon DEF FileInv, FilesInv
<1>10. Prospect(job[c])'
  BY Zenon, <1>1, <1>5 DEF Prospect
<1>11. Progress(job[c])'
  BY Zenon, <1>5, <1>7 DEF Progress
<1>12. JobsInv'
  BY Zenon, <1>4, <1>10, <1>11 DEF JobsInv
<1>. QED
  BY Zenon, <1>8, <1>9, <1>12 DEF FileInv

\* Opening, writing and syncing the temporary file are such steps.
LEMMA WritingKeeps ==
    ASSUME FileInv, NEW c \in Callers,
           OpenTemporary(c) \/ WriteTemporary(c) \/ SyncTemporary(c)
    PROVE  FileInv'
<1>1. job[c] # Idle
  BY SMTT(60) DEF OpenTemporary, WriteTemporary, SyncTemporary, At, Idle
<1>2. job[c] \in Job /\ Progress(job[c])
  BY Zenon, <1>1, Active
<1>3. job[c].name \in Names /\ job[c].rows \in SUBSET Row
  BY SMTT(60), <1>2 DEF Job
<1>4. temps \in [Names -> Temporary]
  BY Zenon DEF FileInv, FileTypeOK
<1> DEFINE t == temps[job[c].name]
           opened == [rows |-> {}, whole |-> FALSE, synced |-> FALSE, exists |-> TRUE]
           written == [t EXCEPT !.rows = job[c].rows, !.whole = TRUE]
           synced == [t EXCEPT !.synced = TRUE]
<1>t. t \in Temporary
  BY Zenon, <1>3, <1>4
<1>5. CASE OpenTemporary(c)
  <2>1. opened \in Temporary
    BY SMTT(60) DEF Temporary
  <2>2. temps' = [temps EXCEPT ![job[c].name] = opened]
        /\ Goto(c, "write") /\ UNCHANGED <<visible, durable, process, acked>>
    BY Zenon, <1>5 DEF OpenTemporary
  <2>. HIDE DEF opened
  <2>3. "write" \in {"write", "sync", "rename"} /\ "write" \notin {"sync", "rename"}
        /\ "write" # "rename"
    BY SMTT(60)
  <2>. QED
    BY Zenon, <1>1, <2>1, <2>2, <2>3, TemporaryKeeps
<1>6. CASE WriteTemporary(c)
  <2>1. written \in Temporary /\ written.rows = job[c].rows /\ written.whole
    <3>. HIDE DEF t
    <3>. QED
      BY Zenon, <1>3, <1>t DEF Temporary
  <2>2. temps' = [temps EXCEPT ![job[c].name] = written]
        /\ Goto(c, "sync") /\ UNCHANGED <<visible, durable, process, acked>>
    BY Zenon, <1>3, <1>4, <1>6 DEF WriteTemporary
  <2>. HIDE DEF written
  <2>3. "sync" \in {"write", "sync", "rename"} /\ "sync" # "rename"
    BY SMTT(60)
  <2>. QED
    BY Zenon, <1>1, <2>1, <2>2, <2>3, TemporaryKeeps
<1>7. CASE SyncTemporary(c)
  <2>1. t.rows = job[c].rows /\ t.whole
    BY Zenon, <1>2, <1>7 DEF Progress, SyncTemporary, At
  <2>2. synced \in Temporary /\ synced.rows = job[c].rows /\ synced.whole /\ synced.synced
    <3>. HIDE DEF t
    <3>. QED
      BY Zenon, <1>t, <2>1 DEF Temporary
  <2>3. temps' = [temps EXCEPT ![job[c].name] = synced]
        /\ Goto(c, "rename") /\ UNCHANGED <<visible, durable, process, acked>>
    BY SMTT(60), <1>3, <1>4, <1>7 DEF SyncTemporary
  <2>. HIDE DEF synced
  <2>4. "rename" \in {"write", "sync", "rename"}
    BY SMTT(60)
  <2>. QED
    BY Zenon, <1>1, <2>2, <2>3, <2>4, TemporaryKeeps
<1>. QED
  BY Zenon, <1>5, <1>6, <1>7

\* The renamed file is whole and synced, so that a stop leaves the old list
\* or the new one, and both carry what is confirmed.
LEMMA RenameKeeps ==
    ASSUME FileInv, NEW c \in Callers, Rename(c)
    PROVE  FileInv'
<1> DEFINE t == temps[job[c].name]
<1>1. job[c] # Idle /\ job[c].pc = "rename"
  BY SMTT(60) DEF Rename, At, Idle
<1>2. job[c] \in Job /\ Prospect(job[c]) /\ Progress(job[c])
      /\ \A d \in Callers : d # c => job[d] = Idle
  BY Zenon, <1>1, Active
<1>3. t.rows = job[c].rows /\ t.whole /\ t.synced
  BY Zenon, <1>1, <1>2 DEF Progress
<1>4. job \in [Callers -> Job \cup {Idle}] /\ temps \in [Names -> Temporary]
  BY Zenon DEF FileInv, FileTypeOK
<1>5. job[c].name \in Names /\ job[c].rows \in SUBSET Row
  BY SMTT(60), <1>2 DEF Job
<1>6. t \in Temporary
  BY Zenon, <1>4, <1>5
<1>7. t.whole = TRUE
  BY SMTT(60), <1>3, <1>6 DEF Temporary
<1>8. visible' = Whole(job[c].rows) /\ durable' = durable \cup {visible'}
  BY Zenon, <1>3, <1>7 DEF Rename, Whole
<1>9. Whole(job[c].rows) \in File /\ Whole(job[c].rows).whole
      /\ Whole(job[c].rows).rows = job[c].rows
  BY SMTT(60), <1>5 DEF File, Whole
<1>10. job' = [job EXCEPT ![c].pc = "directory"] /\ process' = process /\ acked' = acked
       /\ temps' = [temps EXCEPT ![job[c].name] = NoFile]
  BY Zenon DEF Rename, Goto
<1>11. job'[c] = [job[c] EXCEPT !.pc = "directory"]
       /\ \A d \in Callers : d # c => job'[d] = Idle
  BY SMTT(60), <1>2, <1>4, <1>10
<1>12. job'[c] \in Job /\ job'[c].pc = "directory" /\ job'[c].rows = job[c].rows
       /\ job'[c].op = job[c].op /\ job'[c].version = job[c].version
  BY SMTT(60), <1>2, <1>11 DEF Job
<1>13. job' \in [Callers -> Job \cup {Idle}]
  BY SMTT(60), <1>4, <1>10, <1>11, <1>12
<1>14. temps' \in [Names -> Temporary]
  BY SMTT(60), <1>4, <1>5, <1>10 DEF Temporary, NoFile
<1>15. FileTypeOK'
  BY Zenon, <1>8, <1>9, <1>10, <1>13, <1>14 DEF FileInv, FileTypeOK
<1>16. FilesInv'
  BY Zenon, <1>2, <1>8, <1>9, <1>10 DEF FileInv, FilesInv, Prospect
<1>17. Prospect(job[c])'
  BY Zenon, <1>2, <1>10, <1>12 DEF Prospect
<1>18. Progress(job[c])'
  BY SMTT(60), <1>8, <1>12 DEF Progress
<1>19. JobsInv'
  BY Zenon, <1>11, <1>17, <1>18 DEF JobsInv
<1>. QED
  BY Zenon, <1>15, <1>16, <1>19 DEF FileInv

\* The directory sync leaves one file, the confirmed one: a higher version of
\* its operation, and every other confirmed version still in it.
LEMMA DirectoryKeeps ==
    ASSUME FileInv, NEW c \in Callers, SyncDirectory(c)
    PROVE  /\ FileInv'
           /\ acked' = [acked EXCEPT ![job[c].op] = job[c].version]
           /\ job[c].op \in Operations
           /\ job[c].version > acked[job[c].op]
<1>1. job[c] # Idle /\ job[c].pc = "directory"
  BY SMTT(60) DEF SyncDirectory, At, Idle
<1>2. job[c] \in Job /\ Prospect(job[c]) /\ Progress(job[c])
      /\ \A d \in Callers : d # c => job[d] = Idle
  BY Zenon, <1>1, Active
<1>3. visible = Whole(job[c].rows) /\ visible \in durable
  BY Zenon, <1>1, <1>2 DEF Progress, FileInv, FilesInv
<1>4. durable' = {visible} /\ visible' = visible /\ temps' = temps /\ process' = process
      /\ acked' = [acked EXCEPT ![job[c].op] = job[c].version]
      /\ job' = [job EXCEPT ![c] = Idle]
  BY Zenon, <1>3 DEF SyncDirectory
<1>5. job[c].op \in Operations /\ job[c].version \in 1 .. MaxVersion
      /\ job[c].rows \in SUBSET Row
  BY SMTT(60), <1>2 DEF Job
<1>6. acked \in [Operations -> 0 .. MaxVersion] /\ job \in [Callers -> Job \cup {Idle}]
  BY Zenon DEF FileInv, FileTypeOK
<1>7. acked' \in [Operations -> 0 .. MaxVersion] /\ acked'[job[c].op] = job[c].version
      /\ \A o \in Operations : o # job[c].op => acked'[o] = acked[o]
  BY SMTT(60), <1>4, <1>5, <1>6
<1>8. job' \in [Callers -> Job \cup {Idle}] /\ \A d \in Callers : job'[d] = Idle
  BY SMTT(60), <1>2, <1>4, <1>6
<1>9. FileTypeOK'
  <2>1. visible \in File
    BY Zenon DEF FileInv, FileTypeOK
  <2>. QED
    BY Zenon, <1>4, <1>7, <1>8, <2>1 DEF FileInv, FileTypeOK
<1>10. Covers(visible.rows, acked')
  <2>1. visible.rows = job[c].rows
    BY SMTT(60), <1>3 DEF Whole
  <2>2. PICK r \in job[c].rows : r.op = job[c].op /\ r.version = job[c].version
    BY Zenon, <1>2 DEF Prospect
  <2>3. r.version >= acked'[job[c].op]
    BY SMTT(60), <1>5, <1>7, <2>2
  <2>4. ASSUME NEW o \in Operations, acked'[o] # 0
        PROVE  \E q \in job[c].rows : q.op = o /\ q.version >= acked'[o]
    <3>1. CASE o = job[c].op
      BY Zenon, <3>1, <2>2, <2>3
    <3>2. CASE o # job[c].op
      BY Zenon, <3>2, <2>4, <1>2, <1>7 DEF Prospect, Covers
    <3>. QED
      BY Zenon, <3>1, <3>2
  <2>. QED
    BY Zenon, <2>1, <2>4 DEF Covers
<1>11. FilesInv'
  <2>1. visible.whole /\ Unique(visible.rows)
    BY Zenon, <1>3 DEF FileInv, FilesInv
  <2>. QED
    BY Zenon, <1>4, <1>10, <2>1 DEF FilesInv
<1>12. JobsInv'
  BY Zenon, <1>8 DEF JobsInv
<1>13. job[c].version > acked[job[c].op]
  BY Zenon, <1>2 DEF Prospect
<1>. QED
  BY Zenon, <1>4, <1>5, <1>9, <1>11, <1>12, <1>13 DEF FileInv

\* A request that fails leaves the files as they are, renamed or not.
LEMMA FailureKeeps ==
    ASSUME FileInv, NEW c \in Callers, SaveFails(c)
    PROVE  FileInv'
<1>1. job[c] # Idle /\ job' = [job EXCEPT ![c] = Idle]
      /\ temps' = [temps EXCEPT ![job[c].name] = NoFile]
      /\ visible' = visible /\ durable' = durable /\ process' = process /\ acked' = acked
  BY Zenon DEF SaveFails
<1>2. \A d \in Callers : d # c => job[d] = Idle
  BY Zenon, <1>1, Active
<1>3. temps \in [Names -> Temporary] /\ job \in [Callers -> Job \cup {Idle}]
  BY Zenon DEF FileInv, FileTypeOK
<1>4. temps' \in [Names -> Temporary]
  <2>1. NoFile \in Temporary
    BY SMTT(60) DEF NoFile, Temporary
  <2>. QED
    BY Zenon, <1>1, <1>3, <2>1
<1>5. job' \in [Callers -> Job \cup {Idle}] /\ \A d \in Callers : job'[d] = Idle
  BY SMTT(60), <1>1, <1>2, <1>3
<1>6. FileTypeOK'
  BY Zenon, <1>1, <1>4, <1>5 DEF FileInv, FileTypeOK
<1>7. FilesInv'
  BY Zenon, <1>1 DEF FileInv, FilesInv
<1>8. JobsInv'
  BY Zenon, <1>5 DEF JobsInv
<1>. QED
  BY Zenon, <1>6, <1>7, <1>8 DEF FileInv

\* A stop leaves one of the durable files and forgets every request.
LEMMA StopKeeps ==
    ASSUME FileInv, Stop
    PROVE  FileInv'
<1>1. PICK left \in durable : visible' = left /\ durable' = {left}
  BY Zenon DEF Stop
<1>2. PICK kept \in SUBSET {n \in Names : temps[n].exists} :
        temps' = [n \in Names |-> IF n \in kept THEN temps[n] ELSE NoFile]
  BY Zenon DEF Stop
<1>3. PICK p \in Pids : process' = [pid |-> p, counter |-> 0]
  BY Zenon DEF Stop
<1>4. job' = [c \in Callers |-> Idle] /\ acked' = acked
  BY Zenon DEF Stop
<1>5. temps' \in [Names -> Temporary]
  <2>1. NoFile \in Temporary
    BY SMTT(60) DEF NoFile, Temporary
  <2>2. temps \in [Names -> Temporary]
    BY Zenon DEF FileInv, FileTypeOK
  <2>. QED
    BY SMTT(60), <1>2, <2>1, <2>2
<1>6. process' \in [pid : Pids, counter : 0 .. MaxCounter]
  BY SMTT(60), <1>3, FileBounds
<1>7. job' \in [Callers -> Job \cup {Idle}] /\ \A c \in Callers : job'[c] = Idle
  BY Zenon, <1>4
<1>8. FileTypeOK'
  BY Zenon, <1>1, <1>4, <1>5, <1>6, <1>7 DEF FileInv, FileTypeOK
<1>9. FilesInv'
  BY Zenon, <1>1, <1>4 DEF FileInv, FilesInv
<1>10. JobsInv'
  BY Zenon, <1>7 DEF JobsInv
<1>. QED
  BY Zenon, <1>8, <1>9, <1>10 DEF FileInv

-----------------------------------------------------------------------------
\* Every step keeps the invariant.
LEMMA NextFileInv == FileInv /\ [Next]_vars => FileInv'
<1>. SUFFICES ASSUME FileInv, [Next]_vars PROVE FileInv'
  OBVIOUS
<1>1. CASE \E c \in Callers, o \in Operations, k \in Keys : prepare(c, o, k)
  BY Zenon, <1>1, PrepareKeeps
<1>2. CASE \E c \in Callers, o \in Operations, v \in 1 .. MaxVersion : compareAndSwap(c, o, v)
  BY Zenon, <1>2, SwapKeeps
<1>3. CASE \E c \in Callers : Save(c)
  BY Zenon, <1>3, WritingKeeps, RenameKeeps, DirectoryKeeps, FailureKeeps DEF Save
<1>4. CASE Stop
  BY Zenon, <1>4, StopKeeps
<1>5. CASE UNCHANGED vars
  BY SMTT(60), <1>5 DEF vars, FileInv, FileTypeOK, FilesInv, JobsInv, Prospect, Progress
<1>. QED
  BY Zenon, <1>1, <1>2, <1>3, <1>4, <1>5 DEF Next

\* The invariant of the file holds in every reachable state.
THEOREM FileInvariant == Spec => []FileInv
<1>1. Init => FileInv
  BY InitFileInv
<1>2. FileInv /\ [Next]_vars => FileInv'
  BY NextFileInv
<1>. QED
  BY <1>1, <1>2, PTL DEF Spec

\* Whatever fails and wherever the machine stops, what is left of the file is
\* a complete list that #load accepts.
THEOREM FileAlwaysLoads == Spec => []AlwaysLoads
<1>1. FileInv => AlwaysLoads
  BY Zenon DEF FileInv, FilesInv, AlwaysLoads, Loads, Unique
<1>. QED
  BY <1>1, FileInvariant, PTL

\* A version that prepare or compareAndSwap has confirmed is never lost: it is
\* in the file now, and in every file that a stop can leave.
THEOREM ConfirmedIsDurable == Spec => []ConfirmedSurvives
<1>1. FileInv => ConfirmedSurvives
  <2>. SUFFICES ASSUME FileInv, NEW o \in Operations, NEW d \in durable \cup {visible}
                PROVE  VersionOf(d.rows, o) >= acked[o]
    BY Zenon DEF ConfirmedSurvives
  <2>1. d \in durable /\ d \in File /\ acked \in [Operations -> 0 .. MaxVersion]
    BY Zenon DEF FileInv, FilesInv, FileTypeOK
  <2>2. d.rows \in SUBSET Row /\ Unique(d.rows) /\ Covers(d.rows, acked)
    BY Zenon, <2>1 DEF FileInv, FilesInv, File
  <2>. QED
    BY Zenon, <2>1, <2>2, CoveredVersion
<1>. QED
  BY <1>1, FileInvariant, PTL

\* A request is told that its version is stored only when no request was told so of that
\* version or a later one: no version is confirmed twice, and no two confirmed swaps start
\* from the same version.
THEOREM VersionsConfirmOnce == Spec => ConfirmedOnce
<1> DEFINE Fresh == \A c \in Callers : SyncDirectory(c) => acked[job[c].op] < job[c].version
<1>1. ASSUME FileInv PROVE Fresh
  <2>. SUFFICES ASSUME NEW c \in Callers, SyncDirectory(c)
                PROVE  acked[job[c].op] < job[c].version
    OBVIOUS
  <2>1. job[c].op \in Operations /\ job[c].version > acked[job[c].op]
    BY Zenon, <1>1, DirectoryKeeps
  <2>. QED
    BY Zenon, <2>1
<1>2. FileInv /\ [Next]_vars => [Fresh]_vars
  BY <1>1
<1>. QED
  BY <1>2, FileInvariant, PTL DEF Spec, ConfirmedOnce

=============================================================================
