------------------------------ MODULE AuditLog ------------------------------
(***************************************************************************)
(* AuditLogger (src/src/devbox_bridge/audit.py): records are appended to   *)
(* audit.log; a log() call that finds it full first renames it to          *)
(* audit-<second>.log, compresses that to audit-<second>.log.gz, removes   *)
(* it and deletes the archives past their retention.  The process may die, *)
(* or the disk fill up, between any two of these steps or in the middle of *)
(* one, leaving part of an archive or of a line.                           *)
(*                                                                         *)
(* A file is the set of records that can be read from it (the empty set is *)
(* also a file that is not there); its size is counted in records.  log()  *)
(* holds the lock from the rotation to the append, so there is at most one *)
(* call in progress.                                                       *)
(***************************************************************************)
EXTENDS Naturals, FiniteSets

CONSTANTS
    RotationSize,   \* rotation_size_mb, in records
    Retention,      \* retention_days, in seconds
    SameSecond,     \* whether audit.log can fill up twice in one second
    MaxRecords,     \* bound: log() calls
    Horizon,        \* bound: the clock
    MaxFaults       \* bound: crashes and failed writes

ASSUME AuditAssumption ==
    /\ RotationSize \in Nat \ {0}
    /\ Retention \in Nat \ {0}
    /\ SameSecond \in BOOLEAN
    /\ MaxRecords \in Nat /\ Horizon \in Nat /\ MaxFaults \in Nat

Record == [id : Nat, at : Nat]
Seconds == 0..Horizon

VARIABLES
    now,      \* the wall clock, in seconds
    current,  \* audit.log
    size,     \* its size
    torn,     \* its last line has no end
    plain,    \* audit-<second>.log
    gz,       \* audit-<second>.log.gz
    mtime,    \* ... when it was last written
    job,      \* what the process is doing
    returned, \* auxiliary: the records whose log() call returned
    next,     \* the number of the next record
    last,     \* the second of the last rotation (none yet: 0)
    faults    \* crashes and failed writes so far

files == <<current, size, torn, plain, gz, mtime>>
vars == <<now, files, job, returned, next, last, faults>>

Idle == [pc |-> "idle"]
Empty == [s \in Seconds |-> {}]

--------------------------------------------------------------------------
(* log(), for an event that is to be audited.                              *)

\* The record is made, with its timestamp, and the lock taken.  Unless SameSecond,
\* callers are slow enough not to fill the file twice within a second.
Log ==
    /\ job = Idle /\ next < MaxRecords
    /\ SameSecond \/ size < RotationSize \/ last < now
    /\ job' = [pc |-> "rotate", rec |-> [id |-> next, at |-> now]]
    /\ next' = next + 1
    /\ UNCHANGED <<now, files, returned, last, faults>>

\* _maybe_rotate_locked finds no file, or a small one.
NoRotation ==
    /\ job.pc = "rotate" /\ size < RotationSize
    /\ job' = [job EXCEPT !.pc = "append"]
    /\ UNCHANGED <<now, files, returned, next, last, faults>>

\* Mutant: the name of the rotated file has the time of day and not the date.
RenameUndated ==
    /\ job.pc = "rotate" /\ size >= RotationSize
    /\ plain' = [plain EXCEPT ![now % 2] = current]
    /\ current' = {} /\ size' = 0 /\ torn' = FALSE
    /\ last' = now
    /\ job' = [pc |-> "gzip", rec |-> job.rec, ts |-> now % 2]
    /\ UNCHANGED <<now, gz, mtime, returned, next, faults>>

\* rename() replaces a file that has the new name already.
Rename ==
    /\ job.pc = "rotate" /\ size >= RotationSize
    /\ plain' = [plain EXCEPT ![now] = current]
    /\ current' = {} /\ size' = 0 /\ torn' = FALSE
    /\ last' = now
    /\ job' = [pc |-> "gzip", rec |-> job.rec, ts |-> now]
    /\ UNCHANGED <<now, gz, mtime, returned, next, faults>>

\* gzip.open(.., "wb") truncates an archive of that name.
GzipOpen ==
    /\ job.pc = "gzip"
    /\ gz' = [gz EXCEPT ![job.ts] = {}]
    /\ mtime' = [mtime EXCEPT ![job.ts] = now]
    /\ job' = [job EXCEPT !.pc = "copy"]
    /\ UNCHANGED <<now, current, size, torn, plain, returned, next, last, faults>>

GzipCopy ==
    /\ job.pc = "copy"
    /\ gz' = [gz EXCEPT ![job.ts] = plain[job.ts]]
    /\ mtime' = [mtime EXCEPT ![job.ts] = now]
    /\ job' = [job EXCEPT !.pc = "unlink"]
    /\ UNCHANGED <<now, current, size, torn, plain, returned, next, last, faults>>

\* Mutant: the compressed file is kept.
UnlinkSkipped ==
    /\ job.pc = "unlink"
    /\ job' = [pc |-> "cleanup", rec |-> job.rec, asof |-> now]
    /\ UNCHANGED <<now, current, size, torn, plain, gz, mtime, returned, next, last, faults>>

Unlink ==
    /\ job.pc = "unlink"
    /\ plain' = [plain EXCEPT ![job.ts] = {}]
    /\ job' = [pc |-> "cleanup", rec |-> job.rec, asof |-> now]
    /\ UNCHANGED <<now, current, size, torn, gz, mtime, returned, next, last, faults>>

\* Mutant: an archive goes on the day its retention ends.
ExpiredToday(s) == gz[s] # {} /\ mtime[s] + Retention <= job.asof

\* _cleanup_old_files, one archive at a time in no particular order; its cutoff is
\* taken once.
Expired(s) == gz[s] # {} /\ mtime[s] + Retention < job.asof

Delete ==
    /\ job.pc \in {"cleanup", "boot"}
    /\ \E s \in Seconds : Expired(s) /\ gz' = [gz EXCEPT ![s] = {}]
    /\ UNCHANGED <<now, current, size, torn, plain, mtime, job, returned, next, last, faults>>

CleanupDone ==
    /\ job.pc \in {"cleanup", "boot"}
    /\ \A s \in Seconds : ~Expired(s)
    /\ job' = IF job.pc = "boot" THEN Idle ELSE [pc |-> "append", rec |-> job.rec]
    /\ UNCHANGED <<now, files, returned, next, last, faults>>

\* The line is written; after a torn one it is no line of its own.
WriteLine ==
    /\ current' = IF torn THEN current ELSE current \cup {job.rec}
    /\ size' = size + 1
    /\ torn' = FALSE

\* ... and log() returns.
Append ==
    /\ job.pc = "append"
    /\ WriteLine
    /\ job' = Idle
    /\ returned' = returned \cup {job.rec}
    /\ UNCHANGED <<now, plain, gz, mtime, next, last, faults>>

--------------------------------------------------------------------------
(* Faults and time.                                                        *)

Fault == faults < MaxFaults /\ faults' = faults + 1

\* The step in progress stops half way: part of the archive is written, or of the line.
CutShort ==
    \/ /\ job.pc = "copy"
       /\ \E part \in SUBSET plain[job.ts] : gz' = [gz EXCEPT ![job.ts] = part]
       /\ UNCHANGED <<current, size, torn, plain, mtime>>
    \/ /\ job.pc = "append"
       /\ torn' = TRUE
       /\ UNCHANGED <<current, size, plain, gz, mtime>>

\* The disk is full, or a file may not be written: log() raises out of the step it is in.
WriteFails ==
    /\ Fault
    /\ job.pc \notin {"idle", "boot"}
    /\ UNCHANGED files \/ CutShort
    /\ job' = Idle
    /\ UNCHANGED <<now, returned, next, last>>

\* The process dies, perhaps with its line written, and systemd starts a new one, whose
\* AuditLogger cleans up.
Crash ==
    /\ Fault
    /\ \/ UNCHANGED files
       \/ CutShort
       \/ job.pc = "append" /\ WriteLine /\ UNCHANGED <<plain, gz, mtime>>
    /\ job' = [pc |-> "boot", asof |-> now]
    /\ UNCHANGED <<now, returned, next, last>>

Tick ==
    /\ now < Horizon
    /\ now' = now + 1
    /\ UNCHANGED <<files, job, returned, next, last, faults>>

Init ==
    /\ now = 0
    /\ current = {} /\ size = 0 /\ torn = FALSE
    /\ plain = Empty /\ gz = Empty
    /\ mtime = [s \in Seconds |-> 0]
    /\ job = [pc |-> "boot", asof |-> 0]
    /\ returned = {} /\ next = 0 /\ last = 0 /\ faults = 0

Step == NoRotation \/ Rename \/ GzipOpen \/ GzipCopy \/ Unlink \/ Delete \/ CleanupDone \/ Append

Next == Log \/ Step \/ WriteFails \/ Crash \/ Tick

Spec == Init /\ [][Next]_vars

--------------------------------------------------------------------------
(* Properties.                                                             *)

Archive(s) == plain[s] \cup gz[s]
Readable == current \cup UNION {Archive(s) : s \in Seconds}

Jobs == {Idle}
    \cup [pc : {"rotate", "append"}, rec : Record]
    \cup [pc : {"gzip", "copy", "unlink"}, rec : Record, ts : Seconds]
    \cup [pc : {"cleanup"}, rec : Record, asof : Nat]
    \cup [pc : {"boot"}, asof : Nat]

\* The type invariant of the files and the call in progress.
TypeOK ==
    /\ now \in Seconds
    /\ current \subseteq Record /\ size \in Nat /\ torn \in BOOLEAN
    /\ plain \in [Seconds -> SUBSET Record]
    /\ gz \in [Seconds -> SUBSET Record]
    /\ mtime \in [Seconds -> Nat]
    /\ job \in Jobs
    /\ returned \subseteq Record
    /\ next \in Nat /\ last \in Nat /\ faults \in Nat

\* Refinement: rotation moves records and loses none ("nessuna scrittura va persa",
\* audit.py:252); only retention removes them, and never before their time; and a failure
\* costs at most the record being written and the next one.
Trail == INSTANCE AuditTrail WITH trail <- Readable, cut <- torn
NothingLost == Trail!TrailSpec

\* "Sotto Lock, nessuna scrittura va persa" (audit.py:252), as it is stated: a record whose
\* log() returns can be read.  A line that a full disk has cut short has no end, and the
\* next record is glued to it.
WritesAreNeverLost == [][returned' \ returned \subseteq Readable']_vars

\* Read in the order of their names, and audit.log last, the files tell the events in
\* the order they were logged.
ChronologicalFiles ==
    /\ \A s, t \in Seconds : \A p \in Archive(s), q \in Archive(t) : s < t => p.id < q.id
    /\ \A s \in Seconds : \A p \in Archive(s), q \in current : p.id < q.id

\* An audit-<second>.log that is not being rotated is out of the reach of retention
\* for good: only a fault leaves one, and each fault at most one.
Rotating == IF job.pc \in {"gzip", "copy", "unlink"} THEN {job.ts} ELSE {}
Orphans == {s \in Seconds \ Rotating : plain[s] # {}}
OrphansNeedFaults == Cardinality(Orphans) <= faults

--------------------------------------------------------------------------
(* The inductive invariant behind NothingLost and ChronologicalFiles.      *)

\* No file has the name the next rotation will give.
NamesAreFresh ==
    /\ last <= now
    /\ \A s \in Seconds : s > last => plain[s] = {} /\ gz[s] = {}
    /\ (job.pc = "rotate" /\ size >= RotationSize) => last < now
    /\ job.pc \in {"gzip", "copy", "unlink"} => job.ts = last

\* Records are numbered and stamped as they are made; the one being logged is in no file.
Numbered ==
    /\ \A r \in Readable \cup returned : r.id < next /\ r.at <= now
    /\ job.pc \notin {"idle", "boot"} =>
          /\ job.rec.id < next /\ job.rec.at <= now
          /\ \A r \in Readable \cup returned : r.id < job.rec.id

\* An archive is as young as its youngest record, and the plain file goes only when
\* the archive has all of it.
Archived ==
    /\ \A s \in Seconds : \A r \in gz[s] : r.at <= mtime[s]
    /\ job.pc \in {"gzip", "copy"} => gz[job.ts] = {}
    /\ job.pc = "copy" => \A r \in plain[job.ts] : r.at <= mtime[job.ts]
    /\ job.pc = "unlink" => plain[job.ts] \subseteq gz[job.ts]
    /\ job.pc \in {"cleanup", "boot"} => job.asof <= now

LogInv == TypeOK /\ NamesAreFresh /\ Numbered /\ Archived /\ ChronologicalFiles

=============================================================================
