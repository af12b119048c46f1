-------------------------- MODULE ContentLifecycle --------------------------
(***************************************************************************)
(* What ContentStore promises of each stored content, whatever its         *)
(* requests, transactions and worker do: a content is unknown, then kept,  *)
(* then condemned, and never goes back; kept content is in the bucket; and *)
(* only condemned content is ever removed from it.                         *)
(***************************************************************************)
CONSTANT Hash

VARIABLES
    phase,    \* how far each content has come
    stored    \* the contents in the bucket

vars == <<phase, stored>>

Phase == {"unknown", "kept", "condemned"}

Init ==
    /\ phase = [h \in Hash |-> "unknown"]
    /\ stored = {}

\* A client uploads; it may do so in every phase.
Put(h) ==
    /\ stored' = stored \cup {h}
    /\ UNCHANGED phase

\* Content that is in the bucket becomes known.
Register(h) ==
    /\ phase[h] = "unknown"
    /\ h \in stored
    /\ phase' = [phase EXCEPT ![h] = "kept"]
    /\ UNCHANGED stored

\* Deletions give up some contents at once.
Condemn(S) ==
    /\ \A h \in S : phase[h] = "kept"
    /\ phase' = [h \in Hash |-> IF h \in S THEN "condemned" ELSE phase[h]]
    /\ UNCHANGED stored

Collect(h) ==
    /\ phase[h] = "condemned"
    /\ stored' = stored \ {h}
    /\ UNCHANGED phase

Next ==
    \/ \E h \in Hash : Put(h) \/ Register(h) \/ Collect(h)
    \/ \E S \in SUBSET Hash : Condemn(S)

Spec == Init /\ [][Next]_vars
=============================================================================
