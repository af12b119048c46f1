------------------------------ MODULE Response ------------------------------
(***************************************************************************)
(* What a GraphQL operation promises, apart from goroutines, counters and  *)
(* groups: every selected position is resolved once, by whoever may, the   *)
(* fields of a mutation in their order; when nothing is left to resolve,   *)
(* there is one answer: data, or null if a null was carried up to it.      *)
(***************************************************************************)
EXTENDS FiniteSets

CONSTANTS Position, Root, Parent, Below, Kind, NonNull, Guard, Before,
          Operations, Requester

VARIABLES
    operation, requester,
    present,   \* the positions that the response has so far
    returned,  \* what was returned for each of them
    answer     \* none yet, null or data

vars == <<operation, requester, present, returned, answer>>

Children(p) == {c \in Position \ {Root} : Parent[c] = p}
Selected(p) == {c \in operation \ {Root} : Parent[c] = p}

Permitted(p) ==
    /\ Guard[p] = "auth" => requester # "anonymous"
    /\ Guard[p] = "admin" => requester = "admin"

AllReturned(S) == \A d \in S \cap present : returned[d] # "none"

Intact(p) ==
    \A d \in Below[p] \cap present :
        (\A e \in Below[p] \ {p} : d \in Below[e] => e \in NonNull)
            => returned[d] = "value"

Init ==
    /\ operation \in Operations
    /\ requester \in Requester
    /\ present = {Root} \cup Selected(Root)
    /\ returned = [p \in operation |-> IF p = Root THEN "value" ELSE "none"]
    /\ answer = "none"

ResolveTo(p, outcome, parts) ==
    /\ p \in present /\ returned[p] = "none"
    /\ \A q \in Before[p] \cap operation : AllReturned(Below[q])
    /\ Permitted(p) \/ outcome = "error"
    /\ returned' = [returned EXCEPT ![p] = outcome]
    /\ present' = present \cup parts
    /\ UNCHANGED <<operation, requester, answer>>

Parts(p) ==
    CASE Kind[p] = "leaf" -> {{}}
      [] Kind[p] = "object" -> {Selected(p)}
      [] Kind[p] = "list" -> SUBSET Selected(p)

Resolve(p) ==
    \/ \E outcome \in {"error", "nil"} : ResolveTo(p, outcome, {})
    \/ \E parts \in Parts(p) : ResolveTo(p, "value", parts)

Respond ==
    /\ answer = "none"
    /\ AllReturned(present)
    /\ answer' = IF Intact(Root) THEN "data" ELSE "null"
    /\ UNCHANGED <<operation, requester, present, returned>>

Next == Respond \/ \E p \in operation : Resolve(p)

Spec == Init /\ [][Next]_vars
=============================================================================
