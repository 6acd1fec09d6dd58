--------------------------- MODULE MCDocumentEditor ---------------------------
(* A small instance of the document server and its editors for TLC.         *)
EXTENDS DocumentEditor

CONSTANTS v

Set(p, value) == [path |-> p, value |-> value]

\* One path is set, or set and set back.
SetAndSetBack == UNION {{<<Set(p, v)>>, <<Set(p, v), Set(p, Empty)>>} : p \in Paths}

\* Another program fills the file or damages it.
FilledOrDamaged == {[p \in Paths |-> v], Damaged}

Symmetry == Permutations(Clients) \cup Permutations(Paths)
=============================================================================
