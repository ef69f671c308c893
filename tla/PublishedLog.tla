---------------------------- MODULE PublishedLog ----------------------------
(***************************************************************************)
(* What the notes tools promise to their client, without the vault: there  *)
(* is one published history, it only ever grows at its end ("MAI --force", *)
(* notes.py), and a note write is acknowledged only once its commit is in  *)
(* that history.  NotesVault implements this specification.                *)
(***************************************************************************)
EXTENDS Naturals, Sequences

VARIABLES
    log,      \* the published commits, oldest first
    acked     \* the writes whose success was reported to the client

pubVars == <<log, acked>>

\* A commit publishes a write when it is the commit made for it.
Publishes(c, w) == c.by = "bridge" /\ c.note = w.note /\ c.piece = w.piece

PubInit == acked = {}

\* Someone appends commits to the published history; none is ever rewritten.
Publish ==
    /\ Len(log') >= Len(log)
    /\ \A i \in 1..Len(log) : log'[i] = log[i]
    /\ acked' = acked

\* A write is acknowledged, perhaps in the step that publishes it.
Acknowledge ==
    /\ Len(log') >= Len(log)
    /\ \A i \in 1..Len(log) : log'[i] = log[i]
    /\ \E w \in acked' :
          /\ acked' = acked \cup {w}
          /\ \E i \in 1..Len(log') : Publishes(log'[i], w)

PubNext == Publish \/ Acknowledge

PubSpec == PubInit /\ [][PubNext]_pubVars
=============================================================================
