---------------------------- MODULE RateLimiter -----------------------------
(***************************************************************************)
(* RateLimiter (src/src/devbox_bridge/auth.py): a sliding window over the  *)
(* calls admitted for the token.  There is one token, so one bucket; it is *)
(* in memory only, and a restart forgets it.                               *)
(***************************************************************************)
EXTENDS Naturals, Sequences

CONSTANTS
    MaxPerMinute,   \* calls admitted per window
    Window,         \* RATE_LIMIT_WINDOW_SECONDS
    Horizon         \* bound: the clock

ASSUME LimiterAssumption ==
    MaxPerMinute \in Nat \ {0} /\ Window \in Nat /\ Horizon \in Nat

VARIABLES
    clock,    \* time.monotonic(), in seconds
    bucket,   \* the admissions the limiter remembers
    hits      \* auxiliary: all admissions of this process

limiterVars == <<clock, bucket, hits>>

--------------------------------------------------------------------------

\* A hit exactly a window old still counts.
Old(t) == t + Window < clock

\* How many hits the popleft loop removes: it stops at the first that is not old.
Popped == {k \in 0..Len(bucket) : /\ \A i \in 1..k : Old(bucket[i])
                                  /\ k < Len(bucket) => ~Old(bucket[k+1])}
Without(k) == SubSeq(bucket, k + 1, Len(bucket))

\* Mutant: the limit is one too high.
AdmitOneMore ==
    \E k \in Popped :
        /\ Len(bucket) - k <= MaxPerMinute
        /\ bucket' = Append(Without(k), clock)
        /\ hits' = Append(hits, clock)
        /\ UNCHANGED clock

\* check() records the hit ...
Admit ==
    \E k \in Popped :
        /\ Len(bucket) - k < MaxPerMinute
        /\ bucket' = Append(Without(k), clock)
        /\ hits' = Append(hits, clock)
        /\ UNCHANGED clock

\* Mutant: the old hits are not dropped before the bucket is measured.
RefuseUnpruned ==
    /\ Len(bucket) >= MaxPerMinute
    /\ UNCHANGED limiterVars

\* ... or raises RateLimitExceeded, with the old hits dropped all the same.
Refuse ==
    \E k \in Popped :
        /\ Len(bucket) - k >= MaxPerMinute
        /\ bucket' = Without(k)
        /\ UNCHANGED <<clock, hits>>

Restart ==
    /\ bucket' = <<>> /\ hits' = <<>>
    /\ UNCHANGED clock

Tick ==
    /\ clock < Horizon
    /\ clock' = clock + 1
    /\ UNCHANGED <<bucket, hits>>

LimiterInit == clock = 0 /\ bucket = <<>> /\ hits = <<>>

LimiterNext == Admit \/ Refuse \/ Restart \/ Tick

LimiterSpec == LimiterInit /\ [][LimiterNext]_limiterVars

--------------------------------------------------------------------------
(* Properties.                                                             *)

LimiterTypeOK ==
    /\ clock \in Nat
    /\ bucket \in Seq(Nat)
    /\ hits \in Seq(Nat)

\* No window, wherever it starts, has more than MaxPerMinute admissions of one process:
\* the bucket may have been pruned and refilled any number of times in between.
WindowBound ==
    \A i \in 1..Len(hits) :
        i + MaxPerMinute <= Len(hits) => hits[i] + Window < hits[i + MaxPerMinute]

\* A call is refused only when the window that ends now is full.
WindowFull == /\ Len(hits) >= MaxPerMinute
              /\ hits[Len(hits) - MaxPerMinute + 1] + Window >= clock

--------------------------------------------------------------------------
(* The inductive invariant: the bucket is the end of the admissions, and   *)
(* what is no longer in it is too old to count.                            *)

Forgotten == Len(hits) - Len(bucket)

BucketIsTail ==
    /\ Len(bucket) <= Len(hits) /\ Len(bucket) <= MaxPerMinute
    /\ \A j \in 1..Len(bucket) : bucket[j] = hits[Forgotten + j]
    /\ \A i \in 1..Forgotten : Old(hits[i])
    /\ \A i \in 1..Len(hits) : hits[i] <= clock

LimiterInv == LimiterTypeOK /\ BucketIsTail /\ WindowBound

=============================================================================
