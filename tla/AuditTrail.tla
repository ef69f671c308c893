----------------------------- MODULE AuditTrail -----------------------------
(***************************************************************************)
(* What the audit log promises to whoever reads it after an incident: a    *)
(* record, once written, can be read back for as long as retention_days    *)
(* says, whatever happens to the files that hold it.  A write that is cut  *)
(* short takes at most the next record with it.                            *)
(***************************************************************************)
EXTENDS Naturals

CONSTANTS Retention,  \* how long a record must stay readable
          Horizon     \* bound on the clock

VARIABLES trail,     \* the records that can be read back
          returned,  \* the records whose log() call returned
          cut,       \* a write was cut short since the last record
          now        \* the clock, in seconds

Record == [id : Nat, at : Nat]

TrailInit == trail = {} /\ returned = {} /\ cut = FALSE /\ now = 0

\* log() returns for one new record, stamped no later than now, that can be read; or
\* dies with the record written.
Append1 ==
    /\ ~cut
    /\ \E r \in trail' \ trail :
          /\ r \in Record /\ r.at <= now /\ r \notin returned
          /\ trail' = trail \cup {r}
          /\ returned' \in {returned, returned \cup {r}}
    /\ UNCHANGED <<cut, now>>

\* A write fails, ...
CutShort ==
    /\ cut' = TRUE
    /\ UNCHANGED <<trail, returned, now>>

\* ... which the next record pays for, unless the file is rotated before.
Swallow ==
    /\ cut /\ cut' = FALSE
    /\ \/ UNCHANGED returned
       \/ \E r \in returned' \ returned : r \in Record /\ returned' = returned \cup {r}
    /\ UNCHANGED <<trail, now>>

\* Records can go once they are older than the retention.
Forget ==
    /\ trail' \subseteq trail
    /\ \A r \in trail \ trail' : r.at + Retention < now
    /\ UNCHANGED <<returned, cut, now>>

Tick ==
    /\ now < Horizon
    /\ now' = now + 1
    /\ UNCHANGED <<trail, returned, cut>>

TrailNext == Append1 \/ CutShort \/ Swallow \/ Forget \/ Tick

TrailSpec == TrailInit /\ [][TrailNext]_<<trail, returned, cut, now>>

=============================================================================
