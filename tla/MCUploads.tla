----------------------------- MODULE MCUploads -----------------------------
(***************************************************************************)
(* Instances of Uploads for TLC.                                           *)
(***************************************************************************)
EXTENDS Uploads, TLC

CONSTANTS h1, h2, root, d1, n1

\* One content twice, and two contents that want the same name.
AtRoot == [hash |-> h1, place |-> root, name |-> n1]
InFolder == [hash |-> h1, place |-> d1, name |-> n1]
OtherContent == [hash |-> h2, place |-> d1, name |-> n1]

MCLists == {<<AtRoot, InFolder>>, <<OtherContent, InFolder>>}
=============================================================================
