--------------------------- MODULE MCContentStore ---------------------------
(***************************************************************************)
(* Instances of ContentStore for TLC.                                      *)
(***************************************************************************)
EXTENDS ContentStore, TLC

CONSTANTS d1, d2

\* d2 is a folder inside d1.
Nested == (d1 :> {d1, d2}) @@ (d2 :> {d2})
OneFolder == (d1 :> {d1})

Interchangeable ==
    Permutations(Hash) \cup Permutations(FileId) \cup Permutations(Request)
=============================================================================
