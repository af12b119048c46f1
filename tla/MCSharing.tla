------------------------------ MODULE MCSharing ------------------------------
(***************************************************************************)
(* Instances of Sharing for TLC: a file in a folder inside another folder. *)
(***************************************************************************)
EXTENDS Sharing, TLC

CONSTANTS d1, d2, f1, alice, bob

Nested == (d1 :> {d1, d2}) @@ (d2 :> {d2})
InnerHome == f1 :> d2

\* Bob's file is in a folder of Alice's.
Owners == (d1 :> alice) @@ (d2 :> alice) @@ (f1 :> bob)

Interchangeable ==
    Permutations(Token) \cup Permutations(ShareId) \cup Permutations(Request)
=============================================================================
