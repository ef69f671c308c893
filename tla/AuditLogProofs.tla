--------------------------- MODULE AuditLogProofs ---------------------------
(***************************************************************************)
(* Proofs about AuditLog for every rotation size, retention, bound and     *)
(* number of faults, as long as audit.log does not fill up twice in one    *)
(* second.                                                                 *)
(***************************************************************************)
EXTENDS AuditLog, FiniteSetTheorems, TLAPS

\* What the job records hold in each phase.
LEMMA JobCases ==
    ASSUME job \in Jobs
    PROVE  /\ job.pc \in {"rotate", "append"} => job \in [pc : {"rotate", "append"}, rec : Record]
           /\ job.pc \in {"gzip", "copy", "unlink"} =>
                 job \in [pc : {"gzip", "copy", "unlink"}, rec : Record, ts : Seconds]
           /\ job.pc = "cleanup" => job \in [pc : {"cleanup"}, rec : Record, asof : Nat]
           /\ job.pc = "boot" => job \in [pc : {"boot"}, asof : Nat]
           /\ job.pc = "idle" => job = Idle
  BY DEF Jobs, Idle

LEMMA JobRecord ==
    ASSUME job \in Jobs
    PROVE  job.pc \notin {"idle", "boot"} => job.rec \in Record
<1>1. job.pc \in {"idle", "rotate", "append", "gzip", "copy", "unlink", "cleanup", "boot"}
  BY DEF Jobs, Idle
<1> QED BY <1>1, JobCases

\* A step cut short writes what it would have written, or less.
LEMMA CutTypes ==
    ASSUME TypeOK, CutShort
    PROVE  /\ gz' \in [Seconds -> SUBSET Record] /\ torn' \in BOOLEAN
           /\ UNCHANGED <<current, size, plain, mtime>>
<1> USE DEF TypeOK
<1>1. CASE job.pc = "copy"
  <2>1. job.ts \in Seconds /\ job.pc # "append"
    BY <1>1, JobCases
  <2>2. PICK part \in SUBSET plain[job.ts] : gz' = [gz EXCEPT ![job.ts] = part]
    BY <2>1 DEF CutShort
  <2>3. part \in SUBSET Record
    BY <2>1
  <2> QED BY <2>1, <2>2, <2>3 DEF CutShort
<1>2. CASE job.pc # "copy"
  BY <1>2 DEF CutShort
<1> QED BY <1>1, <1>2

LEMMA LineTypes ==
    ASSUME TypeOK, WriteLine, job.rec \in Record
    PROVE  current' \subseteq Record /\ size' \in Nat /\ torn' \in BOOLEAN
<1>1. torn' \in BOOLEAN
  BY DEF WriteLine
<1>2. size' \in Nat
  BY DEF TypeOK, WriteLine
<1>3. current' = current \/ current' = current \cup {job.rec}
  BY DEF WriteLine
<1> QED BY <1>1, <1>2, <1>3 DEF TypeOK

\* The files and the call in progress keep their types.
LEMMA NextTypeOK == TypeOK /\ [Next]_vars => TypeOK'
<1> SUFFICES ASSUME TypeOK, [Next]_vars PROVE TypeOK'
  OBVIOUS
<1> USE AuditAssumption DEF TypeOK
<1>j. job \in Jobs
  OBVIOUS
<1>1. CASE Log
  <2>1. job' \in [pc : {"rotate", "append"}, rec : Record]
    BY <1>1 DEF Log, Record, Seconds
  <2>9. job' \in Jobs
    BY <2>1 DEF Jobs
  <2> QED BY <1>1, <2>9 DEF Log, files
<1>2. CASE NoRotation
  <2>1. job' \in [pc : {"rotate", "append"}, rec : Record]
    BY <1>2, JobCases DEF NoRotation
  <2>9. job' \in Jobs
    BY <2>1 DEF Jobs
  <2> QED BY <1>2, <2>9 DEF NoRotation, files
<1>3. CASE Rename
  <2>1. job' \in [pc : {"gzip", "copy", "unlink"}, rec : Record, ts : Seconds]
    BY <1>3, JobCases DEF Rename
  <2>2. plain' \in [Seconds -> SUBSET Record]
    BY <1>3 DEF Rename
  <2>3. last' \in Nat
    BY <1>3 DEF Rename, Seconds
  <2>9. job' \in Jobs
    BY <2>1 DEF Jobs
  <2> QED BY <1>3, <2>2, <2>3, <2>9 DEF Rename
<1>4. CASE GzipOpen
  <2>1. job \in [pc : {"gzip", "copy", "unlink"}, rec : Record, ts : Seconds]
    BY <1>4, JobCases DEF GzipOpen
  <2>2. job' \in [pc : {"gzip", "copy", "unlink"}, rec : Record, ts : Seconds]
    BY <1>4, <2>1 DEF GzipOpen
  <2>9. job' \in Jobs
    BY <2>2 DEF Jobs
  <2>3. gz' \in [Seconds -> SUBSET Record] /\ mtime' \in [Seconds -> Nat]
    BY <1>4, <2>1 DEF GzipOpen, Seconds
  <2> QED BY <1>4, <2>3, <2>9 DEF GzipOpen
<1>5. CASE GzipCopy
  <2>1. job \in [pc : {"gzip", "copy", "unlink"}, rec : Record, ts : Seconds]
    BY <1>5, JobCases DEF GzipCopy
  <2>2. job' \in [pc : {"gzip", "copy", "unlink"}, rec : Record, ts : Seconds]
    BY <1>5, <2>1 DEF GzipCopy
  <2>9. job' \in Jobs
    BY <2>2 DEF Jobs
  <2>3. gz' \in [Seconds -> SUBSET Record] /\ mtime' \in [Seconds -> Nat]
    BY <1>5, <2>1 DEF GzipCopy, Seconds
  <2> QED BY <1>5, <2>3, <2>9 DEF GzipCopy
<1>6. CASE Unlink
  <2>1. job \in [pc : {"gzip", "copy", "unlink"}, rec : Record, ts : Seconds]
    BY <1>6, JobCases DEF Unlink
  <2>2. job' \in [pc : {"cleanup"}, rec : Record, asof : Nat]
    BY <1>6, <2>1 DEF Unlink, Seconds
  <2>9. job' \in Jobs
    BY <2>2 DEF Jobs
  <2>3. plain' \in [Seconds -> SUBSET Record]
    BY <1>6, <2>1 DEF Unlink
  <2> QED BY <1>6, <2>3, <2>9 DEF Unlink
<1>7. CASE Delete
  BY <1>7 DEF Delete
<1>8. CASE CleanupDone
  <2>1. job' \in Jobs
    BY <1>8, JobCases DEF CleanupDone, Jobs
  <2> QED BY <1>8, <2>1 DEF CleanupDone, files
<1>9. CASE Append
  <2>1. job.rec \in Record
    BY <1>9, JobCases DEF Append
  <2>2. job' \in Jobs
    BY <1>9 DEF Append, Jobs
  <2>3. returned' \subseteq Record
    BY <1>9, <2>1 DEF Append
  <2>4. current' \subseteq Record /\ size' \in Nat /\ torn' \in BOOLEAN
    BY <1>9, <2>1, LineTypes DEF Append
  <2>5. UNCHANGED <<now, plain, gz, mtime, next, last, faults>>
    BY <1>9 DEF Append
  <2> QED BY <2>2, <2>3, <2>4, <2>5
<1>10. CASE WriteFails
  <2>1. job' \in Jobs
    BY <1>10 DEF WriteFails, Jobs
  <2>2. faults' \in Nat /\ UNCHANGED <<now, returned, next, last>>
    BY <1>10 DEF WriteFails, Fault
  <2> QED BY <1>10, <2>1, <2>2, CutTypes DEF WriteFails, files
<1>11. CASE Crash
  <2>1. job' \in [pc : {"boot"}, asof : Nat]
    BY <1>11 DEF Crash, Seconds
  <2>2. job' \in Jobs
    BY <2>1 DEF Jobs
  <2>3. faults' \in Nat /\ UNCHANGED <<now, returned, next, last>>
    BY <1>11 DEF Crash, Fault
  <2>4. CASE job.pc = "append" /\ WriteLine /\ UNCHANGED <<plain, gz, mtime>>
    <3>1. job.rec \in Record
      BY <2>4, JobCases
    <3> QED BY <2>2, <2>3, <2>4, <3>1, LineTypes
  <2>5. CASE UNCHANGED files \/ CutShort
    BY <2>2, <2>3, <2>5, CutTypes DEF files
  <2> QED BY <1>11, <2>4, <2>5 DEF Crash
<1>12. CASE Tick
  BY <1>12 DEF Tick, files, Seconds
<1>13. CASE UNCHANGED vars
  BY <1>13 DEF vars, files
<1> QED
  BY <1>1, <1>2, <1>3, <1>4, <1>5, <1>6, <1>7, <1>8, <1>9, <1>10, <1>11, <1>12, <1>13
  DEF Next, Step

LEMMA InitTypeOK == Init => TypeOK
<1> SUFFICES ASSUME Init PROVE TypeOK
  OBVIOUS
<1>1. job \in [pc : {"boot"}, asof : Nat]
  BY DEF Init
<1>2. job \in Jobs
  BY <1>1 DEF Jobs
<1>3. Empty \in [Seconds -> SUBSET Record] /\ [s \in Seconds |-> 0] \in [Seconds -> Nat]
  BY DEF Empty
<1>4. 0 \in Seconds
  BY AuditAssumption DEF Seconds
<1> QED BY <1>2, <1>3, <1>4 DEF Init, TypeOK

\* The type invariant of AuditLogger's files holds in every behaviour.
THEOREM AuditTypeOK == Spec => []TypeOK
  BY InitTypeOK, NextTypeOK, PTL DEF Spec

\* A record is readable when some file has it.
HasRecord(r) == r \in current \/ \E s \in Seconds : r \in plain[s] \/ r \in gz[s]

LEMMA InFiles == \A r : r \in Readable <=> HasRecord(r)
<1> TAKE r
<1>1. r \in UNION {Archive(s) : s \in Seconds} <=> \E s \in Seconds : r \in Archive(s)
  OBVIOUS
<1> QED BY <1>1 DEF Readable, HasRecord, Archive

LEMMA InFilesNext == \A r : r \in Readable' <=> HasRecord(r)'
<1> TAKE r
<1>1. r \in UNION {Archive(s)' : s \in Seconds} <=> \E s \in Seconds : r \in Archive(s)'
  OBVIOUS
<1> QED BY <1>1 DEF Readable, HasRecord, Archive

LEMMA ReadableNumbers ==
    ASSUME TypeOK
    PROVE  \A r \in Readable \cup returned : r.id \in Nat /\ r.at \in Nat
  BY InFiles DEF HasRecord, TypeOK, Record

\* A call of log() makes a record that no file has.
LEMMA LogKeeps ==
    ASSUME LogInv, TypeOK', Log, ~SameSecond
    PROVE  LogInv'
<1> USE AuditAssumption DEF LogInv, TypeOK, Seconds
<1>f. UNCHANGED <<current, plain, gz, mtime, Readable>>
  BY DEF Log, files, Readable, Archive
<1>1. NamesAreFresh'
  BY <1>f DEF NamesAreFresh, Log, files, Idle
<1>2. Numbered'
  BY SMTT(30), <1>f, ReadableNumbers DEF Numbered, Log, files, Idle, Record
<1>3. Archived'
  BY <1>f DEF Archived, Log, Idle
<1>4. ChronologicalFiles'
  BY <1>f DEF ChronologicalFiles, Archive
<1> QED BY <1>1, <1>2, <1>3, <1>4

\* A small file is not rotated.
LEMMA NoRotationKeeps ==
    ASSUME LogInv, TypeOK', NoRotation, ~SameSecond
    PROVE  LogInv'
<1> USE AuditAssumption DEF LogInv, TypeOK, Seconds
<1>f. UNCHANGED <<current, plain, gz, mtime, Readable>>
  BY DEF NoRotation, files, Readable, Archive
<1>1. NamesAreFresh'
  BY JobCases, <1>f DEF NamesAreFresh, NoRotation, files, Idle
<1>2. Numbered'
  BY JobCases, <1>f DEF Numbered, NoRotation, files, Idle
<1>3. Archived'
  BY JobCases, <1>f DEF Archived, NoRotation, Idle
<1>4. ChronologicalFiles'
  BY <1>f DEF ChronologicalFiles, Archive
<1> QED BY <1>1, <1>2, <1>3, <1>4

\* The cleanup is over.
LEMMA CleanupDoneKeeps ==
    ASSUME LogInv, TypeOK', CleanupDone, ~SameSecond
    PROVE  LogInv'
<1> USE AuditAssumption DEF LogInv, TypeOK, Seconds
<1>f. UNCHANGED <<current, plain, gz, mtime, Readable>>
  BY DEF CleanupDone, files, Readable, Archive
<1>1. NamesAreFresh'
  BY JobCases, <1>f DEF NamesAreFresh, CleanupDone, files, Idle
<1>2. Numbered'
  BY JobCases, <1>f DEF Numbered, CleanupDone, files, Idle
<1>3. Archived'
  BY JobCases, <1>f DEF Archived, CleanupDone, Idle
<1>4. ChronologicalFiles'
  BY <1>f DEF ChronologicalFiles, Archive
<1> QED BY <1>1, <1>2, <1>3, <1>4

\* Time passes.
LEMMA TickKeeps ==
    ASSUME LogInv, TypeOK', Tick, ~SameSecond
    PROVE  LogInv'
<1> USE AuditAssumption DEF LogInv, TypeOK, Seconds
<1>f. UNCHANGED <<current, plain, gz, mtime, Readable>>
  BY DEF Tick, files, Readable, Archive
<1>j. job' = job /\ (job.pc \notin {"idle", "boot"} => job.rec.at \in Nat)
  BY JobRecord DEF Tick, Record
<1>1. NamesAreFresh'
  BY JobCases, <1>f DEF NamesAreFresh, Tick, files, Idle
<1>2. Numbered'
  BY SMTT(30), <1>f, <1>j, ReadableNumbers DEF Numbered, Tick
<1>3. Archived'
  BY JobCases, <1>f DEF Archived, Tick, Idle
<1>4. ChronologicalFiles'
  BY <1>f DEF ChronologicalFiles, Archive
<1> QED BY <1>1, <1>2, <1>3, <1>4

\* The rotated file gets a name that is new and later than all.
LEMMA RenameKeeps ==
    ASSUME LogInv, TypeOK', Rename, ~SameSecond
    PROVE  LogInv'
<1> USE AuditAssumption DEF LogInv, TypeOK, Seconds
<1>f. \A r : r \in Readable' => r \in Readable
  BY InFiles, InFilesNext DEF Rename, HasRecord
<1>1. NamesAreFresh'
  BY JobCases DEF NamesAreFresh, Rename
<1>2. Numbered'
  BY JobCases, <1>f DEF Numbered, Rename
<1>3. Archived'
  BY JobCases, InFiles DEF Archived, NamesAreFresh, Rename
<1>4. ChronologicalFiles'
  BY SMTT(30), InFiles DEF HasRecord, ChronologicalFiles, Archive, NamesAreFresh, Rename
<1> QED BY <1>1, <1>2, <1>3, <1>4

\* Opening the archive truncates nothing: its name is new.
LEMMA GzipOpenKeeps ==
    ASSUME LogInv, TypeOK', GzipOpen, ~SameSecond
    PROVE  LogInv'
<1> USE AuditAssumption DEF LogInv, TypeOK, Seconds
<1>t. job.ts \in Seconds
  BY JobCases DEF GzipOpen
<1>f. \A s \in Seconds : Archive(s)' \subseteq Archive(s)
  BY <1>t DEF GzipOpen, Archive, Archived
<1>g. \A r : r \in Readable' => r \in Readable
  BY <1>f, InFiles, InFilesNext DEF GzipOpen, HasRecord, Archive
<1>1. NamesAreFresh'
  BY JobCases DEF NamesAreFresh, GzipOpen
<1>2. Numbered'
  BY JobCases, <1>g DEF Numbered, GzipOpen
<1>3. Archived'
  BY JobCases, <1>t, InFiles DEF HasRecord, Archived, Numbered, GzipOpen
<1>4. ChronologicalFiles'
  BY <1>f DEF ChronologicalFiles, GzipOpen
<1> QED BY <1>1, <1>2, <1>3, <1>4

\* The archive gets what the rotated file has.
LEMMA GzipCopyKeeps ==
    ASSUME LogInv, TypeOK', GzipCopy, ~SameSecond
    PROVE  LogInv'
<1> USE AuditAssumption DEF LogInv, TypeOK, Seconds
<1>t. job.ts \in Seconds
  BY JobCases DEF GzipCopy
<1>f. \A s \in Seconds : Archive(s)' \subseteq Archive(s)
  BY <1>t DEF GzipCopy, Archive, Archived
<1>g. \A r : r \in Readable' => r \in Readable
  BY <1>f, InFiles, InFilesNext DEF GzipCopy, HasRecord, Archive
<1>1. NamesAreFresh'
  BY JobCases DEF NamesAreFresh, GzipCopy
<1>2. Numbered'
  BY JobCases, <1>g DEF Numbered, GzipCopy
<1>3. Archived'
  BY JobCases, <1>t, InFiles DEF HasRecord, Archived, Numbered, GzipCopy
<1>4. ChronologicalFiles'
  BY <1>f DEF ChronologicalFiles, GzipCopy
<1> QED BY <1>1, <1>2, <1>3, <1>4

\* The rotated file goes when its archive is complete.
LEMMA UnlinkKeeps ==
    ASSUME LogInv, TypeOK', Unlink, ~SameSecond
    PROVE  LogInv'
<1> USE AuditAssumption DEF LogInv, TypeOK, Seconds
<1>t. job.ts \in Seconds
  BY JobCases DEF Unlink
<1>f. \A s \in Seconds : Archive(s)' \subseteq Archive(s)
  BY <1>t DEF Unlink, Archive, Archived
<1>g. \A r : r \in Readable' => r \in Readable
  BY <1>f, InFiles, InFilesNext DEF Unlink, HasRecord, Archive
<1>1. NamesAreFresh'
  BY JobCases DEF NamesAreFresh, Unlink
<1>2. Numbered'
  BY JobCases, <1>g DEF Numbered, Unlink
<1>3. Archived'
  BY JobCases, <1>t, InFiles DEF HasRecord, Archived, Numbered, Unlink
<1>4. ChronologicalFiles'
  BY <1>f DEF ChronologicalFiles, Unlink
<1> QED BY <1>1, <1>2, <1>3, <1>4

\* Retention only takes records away.
LEMMA DeleteKeeps ==
    ASSUME LogInv, TypeOK', Delete, ~SameSecond
    PROVE  LogInv'
<1> USE AuditAssumption DEF LogInv, TypeOK, Seconds
<1>f. \A s \in Seconds : Archive(s)' \subseteq Archive(s) /\ gz'[s] \subseteq gz[s]
  BY DEF Delete, Archive
<1>g. \A r : r \in Readable' => r \in Readable
  BY <1>f, InFiles, InFilesNext DEF Delete, HasRecord, Archive
<1>1. NamesAreFresh'
  BY <1>f DEF NamesAreFresh, Delete
<1>2. Numbered'
  BY <1>g DEF Numbered, Delete
<1>3. Archived'
  BY <1>f DEF Archived, Delete
<1>4. ChronologicalFiles'
  BY <1>f DEF ChronologicalFiles, Delete
<1> QED BY <1>1, <1>2, <1>3, <1>4

\* The new record comes after all others, if it is not glued to a torn line.
LEMMA LineKeeps ==
    ASSUME LogInv, job.pc = "append", WriteLine, UNCHANGED <<plain, gz, mtime>>
    PROVE  /\ job.rec \in Record
           /\ \A r : r \in Readable' => r \in Readable \/ r = job.rec
           /\ ChronologicalFiles'
<1> USE AuditAssumption DEF LogInv, TypeOK, Seconds
<1>1. job.rec \in Record
  BY JobCases
<1>2. current' = current \/ current' = current \cup {job.rec}
  BY DEF WriteLine
<1>3. \A r : r \in Readable' => r \in Readable \/ r = job.rec
  BY <1>2, InFiles, InFilesNext DEF HasRecord
<1>4. ChronologicalFiles'
  BY <1>1, <1>2, InFiles DEF HasRecord, ChronologicalFiles, Archive, Numbered
<1> QED BY <1>1, <1>3, <1>4

LEMMA AppendKeeps ==
    ASSUME LogInv, TypeOK', Append, ~SameSecond
    PROVE  LogInv'
<1> USE AuditAssumption DEF LogInv, TypeOK, Seconds
<1>g. /\ job.rec \in Record
      /\ \A r : r \in Readable' => r \in Readable \/ r = job.rec
      /\ ChronologicalFiles'
  BY LineKeeps DEF Append
<1>1. NamesAreFresh'
  BY DEF NamesAreFresh, Append, Idle
<1>2. Numbered'
  BY <1>g DEF Numbered, Append, Idle
<1>3. Archived'
  BY DEF Archived, Append, Idle
<1> QED BY <1>1, <1>2, <1>3, <1>g

\* A step cut short leaves at most part of an archive, next to the file it is made from.
LEMMA CutKeeps ==
    ASSUME LogInv, UNCHANGED files \/ CutShort
    PROVE  /\ UNCHANGED <<current, size, plain, mtime>>
           /\ \A s \in Seconds : Archive(s)' = Archive(s)
           /\ \A r : r \in Readable' <=> r \in Readable
           /\ \A s \in Seconds : \A r \in gz[s]' : r.at <= mtime[s]
<1> USE DEF LogInv, TypeOK
<1>t. UNCHANGED <<current, size, plain, mtime>>
  BY DEF CutShort, files
<1>u. \/ gz' = gz
      \/ job.pc = "copy" /\ \E part \in SUBSET plain[job.ts] : gz' = [gz EXCEPT ![job.ts] = part]
  BY DEF CutShort, files
<1>v. job.pc = "copy" => job.ts \in Seconds
  BY JobCases
<1>f. \A s \in Seconds : Archive(s)' = Archive(s)
  BY <1>t, <1>u, <1>v DEF Archive, Archived
<1>g. \A r : r \in Readable' <=> r \in Readable
  BY <1>f, <1>t, InFiles, InFilesNext DEF HasRecord, Archive
<1>h. \A s \in Seconds : \A r \in gz[s]' : r.at <= mtime[s]
  BY <1>t, <1>u, <1>v DEF Archived
<1> QED BY <1>t, <1>f, <1>g, <1>h

LEMMA WriteFailsKeeps ==
    ASSUME LogInv, TypeOK', WriteFails, ~SameSecond
    PROVE  LogInv'
<1> USE AuditAssumption DEF LogInv, TypeOK, Seconds
<1>t. job' = Idle /\ UNCHANGED <<now, returned, next, last>>
  BY DEF WriteFails
<1>c. UNCHANGED files \/ CutShort
  BY DEF WriteFails
<1>1. NamesAreFresh'
  BY <1>t, <1>c, CutKeeps DEF NamesAreFresh, Archive, Idle
<1>2. Numbered'
  BY <1>t, <1>c, CutKeeps DEF Numbered, Idle
<1>3. Archived'
  BY <1>t, <1>c, CutKeeps DEF Archived, Idle
<1>4. ChronologicalFiles'
  BY <1>c, CutKeeps DEF ChronologicalFiles
<1> QED BY <1>1, <1>2, <1>3, <1>4

\* A crash leaves the files as they are, a step cut short, or the line written.
LEMMA CrashKeeps ==
    ASSUME LogInv, TypeOK', Crash, ~SameSecond
    PROVE  LogInv'
<1> USE AuditAssumption DEF LogInv, TypeOK, Seconds
<1>t. job' = [pc |-> "boot", asof |-> now] /\ UNCHANGED <<now, returned, next, last>>
  BY DEF Crash
<1>1. CASE UNCHANGED files \/ CutShort
  <2>1. NamesAreFresh'
    BY <1>t, <1>1, CutKeeps DEF NamesAreFresh, Archive
  <2>2. Numbered'
    BY <1>t, <1>1, CutKeeps DEF Numbered
  <2>3. Archived'
    <3>1. \A s \in Seconds : \A r \in gz[s]' : r.at <= mtime'[s]
      BY <1>1, CutKeeps
    <3>2. job'.pc = "boot" /\ job'.asof <= now'
      BY <1>t
    <3> QED BY <3>1, <3>2 DEF Archived
  <2>4. ChronologicalFiles'
    BY <1>1, CutKeeps DEF ChronologicalFiles
  <2> QED BY <2>1, <2>2, <2>3, <2>4
<1>2. CASE job.pc = "append" /\ WriteLine /\ UNCHANGED <<plain, gz, mtime>>
  <2>g. /\ job.rec \in Record
        /\ \A r : r \in Readable' => r \in Readable \/ r = job.rec
        /\ ChronologicalFiles'
    BY <1>2, LineKeeps
  <2>1. NamesAreFresh'
    BY <1>t, <1>2 DEF NamesAreFresh
  <2>2. Numbered'
    BY <1>t, <1>2, <2>g DEF Numbered
  <2>3. Archived'
    BY <1>t, <1>2 DEF Archived
  <2> QED BY <2>1, <2>2, <2>3, <2>g
<1> QED BY <1>1, <1>2 DEF Crash

\* Every step keeps the invariant.
LEMMA NextKeeps ==
    ASSUME ~SameSecond
    PROVE  LogInv /\ [Next]_vars => LogInv'
<1> SUFFICES ASSUME LogInv, [Next]_vars PROVE LogInv'
  OBVIOUS
<1>1. TypeOK'
  BY NextTypeOK DEF LogInv
<1>2. CASE UNCHANGED vars
  <2>1. UNCHANGED <<Readable, ChronologicalFiles>>
    BY <1>2 DEF vars, files, Readable, Archive, ChronologicalFiles
  <2> QED BY <1>1, <1>2, <2>1 DEF vars, files, LogInv, NamesAreFresh, Numbered, Archived
<1>3. CASE Log \/ NoRotation \/ Rename \/ GzipOpen \/ GzipCopy \/ Unlink
  BY <1>1, <1>3, LogKeeps, NoRotationKeeps, RenameKeeps, GzipOpenKeeps, GzipCopyKeeps, UnlinkKeeps
<1>4. CASE Delete \/ CleanupDone \/ Append \/ WriteFails \/ Crash \/ Tick
  BY <1>1, <1>4, DeleteKeeps, CleanupDoneKeeps, AppendKeeps, WriteFailsKeeps, CrashKeeps, TickKeeps
<1> QED BY <1>2, <1>3, <1>4 DEF Next, Step

LEMMA InitKeeps == Init => LogInv
<1> SUFFICES ASSUME Init PROVE LogInv
  OBVIOUS
<1>1. TypeOK
  BY InitTypeOK
<1>2. \A r : r \notin Readable
  BY InFiles DEF HasRecord, Init, Empty
<1> QED BY <1>1, <1>2, AuditAssumption
        DEF Init, Empty, LogInv, NamesAreFresh, Numbered, Archived, ChronologicalFiles, Archive

\* The files tell the events in the order they were logged, across rotations, crashes
\* and failed writes.
THEOREM FilesChronological ==
    ASSUME ~SameSecond
    PROVE  Spec => []ChronologicalFiles
<1>1. LogInv => ChronologicalFiles
  BY DEF LogInv
<1> QED BY <1>1, InitKeeps, NextKeeps, PTL DEF Spec

--------------------------------------------------------------------------
(* The refinement: every step is a step of the trail or leaves it alone.   *)

\* Moving records between files leaves what can be read alone.
LEMMA MovesKeepTrail ==
    ASSUME LogInv, ~SameSecond,
           Rename \/ GzipOpen \/ GzipCopy \/ Unlink
    PROVE  UNCHANGED <<Readable, returned, now>> /\ torn' \in {torn, FALSE}
<1> USE DEF LogInv, TypeOK
<1>1. \A r : HasRecord(r)' <=> HasRecord(r)
  <2>1. CASE Rename
    <3>1. now \in Seconds /\ plain[now] = {}
      BY <2>1 DEF NamesAreFresh, Rename
    <3> QED BY <2>1, <3>1 DEF HasRecord, Rename
  <2>2. CASE GzipOpen \/ GzipCopy \/ Unlink
    <3>1. job.ts \in Seconds
      BY <2>2, JobCases DEF GzipOpen, GzipCopy, Unlink
    <3> QED BY <2>2, <3>1 DEF HasRecord, Archived, GzipOpen, GzipCopy, Unlink
  <2> QED BY <2>1, <2>2
<1>2. Readable' = Readable
  BY <1>1, InFiles, InFilesNext
<1> QED BY <1>2 DEF Rename, GzipOpen, GzipCopy, Unlink

\* So does a step that fails half way; it may leave a torn line.
LEMMA CutsKeepTrail ==
    ASSUME LogInv, UNCHANGED files \/ CutShort
    PROVE  Readable' = Readable /\ torn' \in {torn, TRUE}
<1>1. Readable' = Readable
  BY CutKeeps
<1>2. torn' = torn \/ torn' = TRUE
  <2>1. CASE job.pc = "copy"
    BY <2>1, JobCases DEF CutShort, files, LogInv, TypeOK
  <2>2. CASE job.pc # "copy"
    BY <2>2 DEF CutShort, files
  <2> QED BY <2>1, <2>2
<1> QED BY <1>1, <1>2

\* Retention deletes an archive only when every record in it is old enough.
LEMMA DeleteForgets ==
    ASSUME LogInv, Delete
    PROVE  Trail!Forget
<1> USE AuditAssumption DEF LogInv, TypeOK, Seconds
<1>1. PICK s \in Seconds : Expired(s) /\ gz' = [gz EXCEPT ![s] = {}]
  BY DEF Delete
<1>2. \A r : HasRecord(r)' => HasRecord(r)
  BY <1>1 DEF HasRecord, Delete
<1>3. \A r : HasRecord(r) /\ ~HasRecord(r)' => r \in gz[s]
  BY <1>1 DEF HasRecord, Delete
<1>4. job.asof \in Nat /\ job.asof <= now
  BY JobCases DEF Delete, Archived
<1>5. \A r \in gz[s] : r.at + Retention < now
  BY <1>1, <1>4 DEF Archived, Expired, Record
<1> QED BY <1>2, <1>3, <1>5, InFiles, InFilesNext DEF Trail!Forget, Delete

\* A line that is written can be read, unless the one before it was torn.
LEMMA LineAppends ==
    ASSUME LogInv, job.pc = "append", WriteLine, UNCHANGED <<plain, gz, mtime, now>>,
           returned' \in {returned, returned \cup {job.rec}}
    PROVE  Trail!Append1 \/ Trail!Swallow
<1> USE DEF LogInv, TypeOK
<1>1. job.rec \in Record /\ job.rec \notin Readable \cup returned /\ job.rec.at <= now
  BY JobCases DEF Numbered, Record
<1>2. CASE torn = TRUE
  <2>1. \A r : HasRecord(r)' <=> HasRecord(r)
    BY <1>2 DEF HasRecord, WriteLine
  <2>2. Readable' = Readable
    BY <2>1, InFiles, InFilesNext
  <2> QED BY <1>1, <1>2, <2>2 DEF WriteLine, Trail!Swallow, Trail!Record, Record
<1>3. CASE torn = FALSE
  <2>1. \A r : HasRecord(r)' <=> HasRecord(r) \/ r = job.rec
    BY <1>3 DEF HasRecord, WriteLine
  <2>2. Readable' = Readable \cup {job.rec}
    BY <2>1, InFiles, InFilesNext
  <2> QED BY <1>1, <1>3, <2>2 DEF WriteLine, Trail!Append1, Trail!Record, Record
<1> QED BY <1>2, <1>3

\* Every step of the logger is a step of the trail.
LEMMA StepKeepsTrail ==
    ASSUME LogInv, [Next]_vars, ~SameSecond
    PROVE  [Trail!TrailNext]_<<Readable, returned, torn, now>>
<1>t. torn \in BOOLEAN
  BY DEF LogInv, TypeOK
<1>1. CASE Log \/ NoRotation \/ CleanupDone \/ UNCHANGED vars
  BY <1>1 DEF Log, NoRotation, CleanupDone, vars, files, Readable, Archive
<1>2. CASE Rename \/ GzipOpen \/ GzipCopy \/ Unlink
  BY <1>2, <1>t, MovesKeepTrail DEF Trail!TrailNext, Trail!Swallow
<1>3. CASE Tick
  BY <1>3 DEF Tick, files, Readable, Archive, Trail!TrailNext, Trail!Tick
<1>4. CASE Delete
  BY <1>4, DeleteForgets DEF Trail!TrailNext
<1>5. CASE Append
  BY <1>5, LineAppends DEF Append, Trail!TrailNext
<1>6. CASE WriteFails
  BY <1>6, <1>t, CutsKeepTrail DEF WriteFails, Trail!TrailNext, Trail!CutShort
<1>7. CASE Crash
  <2>1. CASE UNCHANGED files \/ CutShort
    BY <1>7, <1>t, <2>1, CutsKeepTrail DEF Crash, Trail!TrailNext, Trail!CutShort
  <2>2. CASE job.pc = "append" /\ WriteLine /\ UNCHANGED <<plain, gz, mtime>>
    BY <1>7, <2>2, LineAppends DEF Crash, Trail!TrailNext
  <2> QED BY <1>7, <2>1, <2>2 DEF Crash
<1> QED BY <1>1, <1>2, <1>3, <1>4, <1>5, <1>6, <1>7 DEF Next, Step

\* AuditLogger implements the audit trail, whatever crashes in between and whichever
\* write fails: a record that can be read stays so until it is older than the retention,
\* and every record whose log() returns can be read but the first one after a line that
\* was cut short.
THEOREM LogImplementsTrail ==
    ASSUME ~SameSecond
    PROVE  Spec => NothingLost
<1>1. Init => Trail!TrailInit
  <2> SUFFICES ASSUME Init PROVE Trail!TrailInit
    OBVIOUS
  <2>1. \A r : r \notin Readable
    BY InFiles DEF HasRecord, Init, Empty
  <2> QED BY <2>1 DEF Init, Trail!TrailInit
<1>2. LogInv /\ [Next]_vars => [Trail!TrailNext]_<<Readable, returned, torn, now>>
  BY StepKeepsTrail
<1> QED BY <1>1, <1>2, InitKeeps, NextKeeps, PTL DEF Spec, NothingLost, Trail!TrailSpec

--------------------------------------------------------------------------
(* Orphans: files that no clean-up will ever look at.                      *)

\* There are at most as many files as seconds.
LEMMA FilesAreFinite == IsFiniteSet(Orphans)
<1>1. IsFiniteSet(Seconds)
  BY AuditAssumption, FS_Interval DEF Seconds
<1> QED BY <1>1, FS_Subset DEF Orphans

\* No step but a fault leaves a file behind.
LEMMA StepsOrphanNothing ==
    ASSUME TypeOK, [Next]_vars, ~(WriteFails \/ Crash)
    PROVE  Orphans' \subseteq Orphans /\ faults' = faults
<1> USE DEF TypeOK, Orphans, Rotating
<1>1. CASE Rename
  BY <1>1, JobCases DEF Rename
<1>2. CASE Unlink
  BY <1>2, JobCases DEF Unlink
<1>3. CASE GzipOpen \/ GzipCopy
  BY <1>3, JobCases DEF GzipOpen, GzipCopy
<1>4. CASE Log \/ NoRotation
  BY <1>4, JobCases DEF Log, NoRotation, files, Idle
<1>5. CASE CleanupDone \/ Append
  BY <1>5, JobCases DEF CleanupDone, Append, WriteLine, files, Idle
<1>6. CASE Delete \/ Tick \/ UNCHANGED vars
  BY <1>6 DEF Delete, Tick, vars, files
<1> QED BY <1>1, <1>2, <1>3, <1>4, <1>5, <1>6 DEF Next, Step

\* A fault leaves the file that was being rotated, if there was one.
LEMMA FaultsOrphanOne ==
    ASSUME TypeOK, WriteFails \/ Crash
    PROVE  /\ \E x : Orphans' \subseteq Orphans \cup {x}
           /\ faults' = faults + 1
<1>1. plain' = plain /\ faults' = faults + 1
  BY DEF WriteFails, Crash, CutShort, WriteLine, Fault, files
<1>2. \E x : Rotating \subseteq {x}
  BY DEF Rotating
<1> QED BY <1>1, <1>2 DEF Orphans

\* An audit file out of the reach of retention is the trace of a crash or a failed
\* write, whether or not a file fills twice in a second.
THEOREM OrphansAreFaults == Spec => []OrphansNeedFaults
<1>1. Init => OrphansNeedFaults
  <2> SUFFICES ASSUME Init PROVE OrphansNeedFaults
    OBVIOUS
  <2>1. Orphans = {}
    BY DEF Init, Orphans, Empty
  <2> QED BY <2>1, FS_EmptySet DEF Init, OrphansNeedFaults
<1>2. TypeOK /\ OrphansNeedFaults /\ [Next]_vars => OrphansNeedFaults'
  <2> SUFFICES ASSUME TypeOK, OrphansNeedFaults, [Next]_vars PROVE OrphansNeedFaults'
    OBVIOUS
  <2>1. IsFiniteSet(Orphans) /\ Cardinality(Orphans) \in Nat /\ faults \in Nat
    BY FilesAreFinite, FS_CardinalityType DEF TypeOK
  <2>2. PICK x : \/ Orphans' \subseteq Orphans \cup {x} /\ faults' = faults + 1
                 \/ Orphans' \subseteq Orphans /\ faults' = faults
    BY StepsOrphanNothing, FaultsOrphanOne
  <2>3. CASE Orphans' \subseteq Orphans /\ faults' = faults
    <3>1. Cardinality(Orphans') <= Cardinality(Orphans) /\ Cardinality(Orphans') \in Nat
      BY <2>1, <2>3, FS_Subset, FS_CardinalityType
    <3> QED BY <2>1, <2>3, <3>1 DEF OrphansNeedFaults
  <2>4. CASE Orphans' \subseteq Orphans \cup {x} /\ faults' = faults + 1
    <3>1. IsFiniteSet(Orphans \cup {x})
      BY <2>1, FS_AddElement
    <3>2. Cardinality(Orphans \cup {x}) <= Cardinality(Orphans) + 1
      BY <2>1, FS_AddElement
    <3>3. Cardinality(Orphans') <= Cardinality(Orphans \cup {x}) /\ Cardinality(Orphans') \in Nat
      BY <2>4, <3>1, FS_Subset, FS_CardinalityType
    <3>4. Cardinality(Orphans \cup {x}) \in Nat
      BY <3>1, FS_CardinalityType
    <3> QED BY <2>1, <2>4, <3>2, <3>3, <3>4 DEF OrphansNeedFaults
  <2> QED BY <2>2, <2>3, <2>4
<1> QED BY <1>1, <1>2, AuditTypeOK, PTL DEF Spec

=============================================================================
