--------------------------- MODULE MCNotesVault ---------------------------
(* NotesVault on small instances: two notes under the write dirs, in one of *)
(* them also a note outside, and one content a client writes, and retries.  *)
EXTENDS NotesVault

CONSTANTS n1, n2, n3, x

MCWritable == {n1, n2}
MCNotes == MCWritable \cup {n3}
MCIds == {x}
=============================================================================
