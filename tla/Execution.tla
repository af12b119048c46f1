------------------------------ MODULE Execution ------------------------------
(***************************************************************************)
(* How files-backend executes one GraphQL operation                        *)
(* (internal/graph/generated/).  A response is a tree of positions: the    *)
(* operation, its root fields, the fields of objects, the elements of      *)
(* lists.  Fields that a resolver method computes run in goroutines of     *)
(* their own, next to each other; fields that are read from a struct run   *)
(* in the goroutine of their object, one after the other; the root fields  *)
(* of a mutation do so too.  An object counts its required fields that are *)
(* null and becomes null itself if there are any.                          *)
(*                                                                         *)
(* The schema is a parameter: module Schema has the tables of the          *)
(* generated functions.  A resolver may return whatever its Go type        *)
(* allows; what resolvers do to the tables and the bucket is the subject   *)
(* of the other modules.  Panics of a resolver are recovered by            *)
(* graphql.ResolveField and are errors here.  @defer is left out: the      *)
(* server does not declare that directive.                                 *)
(***************************************************************************)
EXTENDS Integers, FiniteSets

CONSTANTS
    Position,    \* the places that a response can have
    Root,        \* the operation itself
    Parent,      \* Parent[p]: the object or list that p is a part of
    Below,       \* Below[p]: p and everything inside it
    Kind,        \* Kind[p]: a leaf, an object or a list
    NonNull,     \* the positions whose type does not allow null
    Nilable,     \* those whose Go value can be nil (or the zero time)
    Resolved,    \* those whose value comes from a resolver method
    Parsed,      \* those that have arguments
    Guard,       \* Guard[p]: the directive that stands before the resolver
    Before,      \* Before[p]: what the goroutine of its object does before p
    InSequence,  \* the fields of mutations, each to be finished before the next
    Restricted,  \* those that are for administrators only
    Operations,  \* those that clients send: the positions they select
    Requester    \* what clients may be: roles of users, or without a session

Kinds == {"leaf", "object", "list"}
Guards == {"none", "auth", "admin"}
Children(p) == {c \in Position \ {Root} : Parent[c] = p}

ASSUME TreeAssumption ==
    /\ Root \in Position
    /\ Parent \in [Position \ {Root} -> Position]
    /\ Below \in [Position -> SUBSET Position]
    /\ Below[Root] = Position
    /\ \A p \in Position :
        /\ p \in Below[p]
        /\ \A q \in Below[p] : Below[q] \subseteq Below[p]
        /\ \A q \in Below[p] \ {p} :
            /\ q # Root /\ Parent[q] \in Below[p]
            /\ \E c \in Children(p) : q \in Below[c]
        /\ \A c \in Children(p) :
            /\ c \in Below[p] /\ p \notin Below[c]
            /\ \A d \in Children(p) \ {c} : Below[c] \cap Below[d] = {}

\* Directives are on fields with resolvers, elements are never optional.
ASSUME SchemaAssumption ==
    /\ Kind \in [Position -> Kinds] /\ Kind[Root] = "object"
    /\ NonNull \subseteq Position
    /\ \A p \in Position : Kind[p] = "list" => Children(p) \subseteq NonNull
    /\ Guard \in [Position -> Guards]
    /\ \A p \in Position \ Resolved : Guard[p] = "none"
    /\ Root \notin Resolved

\* A goroutine does one field after the other, and starts the computed ones
\* when it is through.
ASSUME OrderAssumption ==
    /\ Before \in [Position -> SUBSET (Position \ {Root})]
    /\ Before[Root] = {}
    /\ \A p \in Position : \A q \in Before[p] :
        /\ q # p /\ Parent[q] = Parent[p] /\ Kind[Parent[p]] = "object"
        /\ Before[q] \subseteq Before[p]

ASSUME SequenceAssumption ==
    /\ InSequence \subseteq Position \ {Root}
    /\ \A p, q \in InSequence : p # q => p \in Before[q] \/ q \in Before[p]

\* With a position, an operation selects what it is inside of.
ASSUME OperationsAssumption ==
    \A o \in Operations :
        /\ o \subseteq Position /\ IsFiniteSet(o) /\ Root \in o
        /\ \A p \in o, q \in Position : p \in Below[q] => q \in o

VARIABLES
    operation,  \* the positions that the operation selects
    requester,  \* who sent it
    phase,      \* how far each of them is
    returned,   \* history variable: what was returned for it
    value,      \* what stands there in the response
    invalids,   \* FieldSet.Invalids of each object
    errors      \* the positions for which an error was recorded

request == <<operation, requester>>
vars == <<request, phase, returned, value, invalids, errors>>

-----------------------------------------------------------------------------
Phases == {"absent", "waiting", "running", "completing", "valued", "done"}
Outcomes == {"none", "error", "nil", "value"}
Values == {"none", "null", "data"}

Selected(p) == {c \in operation \ {Root} : Parent[c] = p}

\* Exec: the root fields are about to be resolved.
Init ==
    /\ operation \in Operations
    /\ requester \in Requester
    /\ phase = [p \in operation |->
                  IF p = Root THEN "completing"
                  ELSE IF p \in Selected(Root) THEN "waiting" ELSE "absent"]
    /\ returned = [p \in operation |-> IF p = Root THEN "value" ELSE "none"]
    /\ value = [p \in operation |-> "none"]
    /\ invalids = [p \in operation |-> 0]
    /\ errors = {}

-----------------------------------------------------------------------------
(* graphql.ResolveField, for one position.                                 *)

\* Mutant: nothing is waited for, as if every field were concurrent.
ReadyAtOnce(p) == phase[p] = "waiting"

Ready(p) ==
    /\ phase[p] = "waiting"
    /\ \A q \in Before[p] \cap operation : phase[q] = "done"

\* The directives @auth and @hasRole(role: admin).
Permitted(p) ==
    /\ Guard[p] = "auth" => requester # "anonymous"
    /\ Guard[p] = "admin" => requester = "admin"

Return(p, outcome) == returned' = [returned EXCEPT ![p] = outcome]
Put(p, v) ==
    /\ phase' = [phase EXCEPT ![p] = "valued"]
    /\ value' = [value EXCEPT ![p] = v]

Fail(p) ==
    /\ Return(p, "error")
    /\ Put(p, "null")
    /\ errors' = errors \cup {p}
    /\ UNCHANGED <<request, invalids>>

\* Mutant: nothing is recorded.
FailSilently(p) ==
    /\ p \in Nilable
    /\ Return(p, "nil")
    /\ Put(p, "null")
    /\ UNCHANGED <<request, invalids, errors>>

\* nil, where the schema does not allow it, is an error of its own.
ReturnNil(p) ==
    /\ p \in Nilable
    /\ Return(p, "nil")
    /\ Put(p, "null")
    /\ errors' = IF p \in NonNull THEN errors \cup {p} ELSE errors
    /\ UNCHANGED <<request, invalids>>

\* A list has as many elements as it happens to have, an object the fields
\* that the operation selects.
Parts(p) == IF Kind[p] = "list" THEN SUBSET Selected(p) ELSE {Selected(p)}

\* The marshalling of a value: a scalar is written, the parts of anything else
\* are now to be resolved.
ReturnValue(p) ==
    /\ Return(p, "value")
    /\ IF Kind[p] = "leaf"
       THEN Put(p, "data")
       ELSE /\ \E parts \in Parts(p) :
                 phase' = [c \in operation |->
                             IF c = p THEN "completing"
                             ELSE IF c \in parts THEN "waiting" ELSE phase[c]]
            /\ UNCHANGED value
    /\ UNCHANGED <<request, invalids, errors>>

\* fieldContext_...: an argument cannot be unmarshalled.
RefuseArguments(p) == p \in Parsed /\ Ready(p) /\ Fail(p)

RefuseRequester(p) == Ready(p) /\ ~Permitted(p) /\ Fail(p)

\* Mutant: the directive runs beside the resolver.
CallUnguarded(p) ==
    /\ p \in Resolved
    /\ Ready(p)
    /\ phase' = [phase EXCEPT ![p] = "running"]
    /\ UNCHANGED <<request, returned, value, invalids, errors>>

CallResolver(p) ==
    /\ p \in Resolved
    /\ Ready(p) /\ Permitted(p)
    /\ phase' = [phase EXCEPT ![p] = "running"]
    /\ UNCHANGED <<request, returned, value, invalids, errors>>

ResolverFails(p) == phase[p] = "running" /\ Fail(p)

ResolverReturns(p) == phase[p] = "running" /\ (ReturnNil(p) \/ ReturnValue(p))

\* A field of a struct, or an element of a slice.
ReadField(p) == p \notin Resolved /\ Ready(p) /\ (ReturnNil(p) \/ ReturnValue(p))

-----------------------------------------------------------------------------
(* The functions of the object types, and those that marshal lists.        *)

\* Mutant: null counts whatever the type of the field allows.
CountEveryNull(p) ==
    /\ p # Root /\ phase[p] = "valued"
    /\ phase' = [phase EXCEPT ![p] = "done"]
    /\ invalids' =
         IF value[p] = "null" /\ Kind[Parent[p]] = "object"
         THEN [invalids EXCEPT ![Parent[p]] = @ + 1] ELSE invalids
    /\ UNCHANGED <<request, returned, value, errors>>

\* Mutant: an element that is nil returns without wg.Done.
CountUnlessNil(p) ==
    /\ p # Root /\ phase[p] = "valued"
    /\ returned[p] = "nil" => Kind[Parent[p]] # "list"
    /\ phase' = [phase EXCEPT ![p] = "done"]
    /\ invalids' =
         IF value[p] = "null" /\ p \in NonNull /\ Kind[Parent[p]] = "object"
         THEN [invalids EXCEPT ![Parent[p]] = @ + 1] ELSE invalids
    /\ UNCHANGED <<request, returned, value, errors>>

\* Mutant: the wrong direction.
CountDown(p) ==
    /\ p # Root /\ phase[p] = "valued"
    /\ phase' = [phase EXCEPT ![p] = "done"]
    /\ invalids' =
         IF value[p] = "null" /\ p \in NonNull /\ Kind[Parent[p]] = "object"
         THEN [invalids EXCEPT ![Parent[p]] = @ - 1] ELSE invalids
    /\ UNCHANGED <<request, returned, value, errors>>

\* The field is put into its object, or the element into its list, and the
\* group that waits for it (wg.Done) is told.  An object counts nulls.
CountField(p) ==
    /\ p # Root /\ phase[p] = "valued"
    /\ phase' = [phase EXCEPT ![p] = "done"]
    /\ invalids' =
         IF value[p] = "null" /\ p \in NonNull /\ Kind[Parent[p]] = "object"
         THEN [invalids EXCEPT ![Parent[p]] = @ + 1] ELSE invalids
    /\ UNCHANGED <<request, returned, value, errors>>

Nulls(p) == {c \in Selected(p) : value[c] = "null"}
Collected(p) ==
    LET bad == IF Kind[p] = "object" THEN invalids[p] > 0 ELSE Nulls(p) # {}
    IN  IF bad THEN "null" ELSE "data"

\* Mutant: one null is enough, the others are not waited for.
CollectFirstNull(p) ==
    /\ phase[p] = "completing"
    /\ \/ \A c \in Selected(p) : phase[c] \in {"absent", "done"}
       \/ Collected(p) = "null"
    /\ Put(p, Collected(p))
    /\ UNCHANGED <<request, returned, invalids, errors>>

\* Dispatch and wg.Wait have returned: the object or the list is complete.
CollectFields(p) ==
    /\ phase[p] = "completing"
    /\ \A c \in Selected(p) : phase[c] \in {"absent", "done"}
    /\ Put(p, Collected(p))
    /\ UNCHANGED <<request, returned, invalids, errors>>

\* Exec: data is marshalled, the response is sent.
Respond ==
    /\ phase[Root] = "valued"
    /\ phase' = [phase EXCEPT ![Root] = "done"]
    /\ UNCHANGED <<request, returned, value, invalids, errors>>

Resolve(p) ==
    \/ CallResolver(p) \/ RefuseArguments(p) \/ RefuseRequester(p)
    \/ ResolverFails(p) \/ ResolverReturns(p) \/ ReadField(p)
Complete(p) == CountField(p) \/ CollectFields(p)

Next == Respond \/ \E p \in operation : Resolve(p) \/ Complete(p)

Spec == Init /\ [][Next]_vars

\* Resolvers return: they are finitely many statements and S3 calls, each with
\* a deadline of its library.  Goroutines are scheduled.
Fairness == WF_vars(Next)
FairSpec == Spec /\ Fairness

-----------------------------------------------------------------------------
TypeOK ==
    /\ operation \in Operations /\ requester \in Requester
    /\ phase \in [operation -> Phases]
    /\ returned \in [operation -> Outcomes]
    /\ value \in [operation -> Values]
    /\ invalids \in [operation -> Nat]
    /\ errors \subseteq operation

Finished(p) == phase[p] \in {"valued", "done"}

\* d is inside p and no field between them may be null, so that null at d is
\* carried up to p.
CarriesUp(d, p) ==
    \A e \in Below[p] \ {p} : d \in Below[e] => e \in NonNull

\* What the position has to be, whatever ran in which order.
Intact(p) ==
    \A d \in Below[p] \cap operation :
        phase[d] # "absent" /\ CarriesUp(d, p) => returned[d] = "value"

\* Null in the response is exactly null propagation of what the resolvers
\* returned: an interleaving of fields and counters neither loses a null nor
\* lets one pass a field that may be null (_Folder, _Share, _Query, the
\* marshalN functions).
NullsPropagate ==
    \A p \in operation : Finished(p) => (value[p] = "data" <=> Intact(p))

\* Where null stands though no resolver answered null for a field that allows
\* it, the client is told an error at that position or inside it: null data is
\* never unexplained.
NullsAreExplained ==
    \A p \in operation :
        value[p] = "null" /\ (returned[p] = "nil" => p \in NonNull)
            => errors \cap Below[p] # {}

\* The fields of a mutation run one after the other, each with everything
\* inside it, whatever goroutines that starts (_Mutation).  Nothing else keeps
\* a client's deleteFile from running next to the upload it follows.
MutationsInSequence ==
    \A p, q \in InSequence \cap operation :
        p # q => ~\E d \in Below[p] \cap operation, e \in Below[q] \cap operation :
                    phase[d] \in {"running", "completing", "valued"}
                        /\ phase[e] \in {"running", "completing", "valued"}

\* No resolver runs that the directive of its field does not let the requester
\* call.  And at what the schema keeps for administrators nothing happens for
\* anybody else: no resolver runs, nothing but an error is answered, no data
\* stands, on whatever path leads there (getUsageStatsByUser checks nothing
\* itself, getUsers only that there is a session; what is inside of their
\* answers has no directive).
AdministrationIsForAdmins ==
    /\ \A p \in operation : phase[p] = "running" => Permitted(p)
    /\ requester # "admin" =>
        \A p \in Restricted \cap operation :
            /\ phase[p] # "running"
            /\ returned[p] \in {"none", "error"}
            /\ value[p] # "data"

\* Whatever leads to a restricted position passes @hasRole: what the schema
\* has to be for that.
DirectivesStand ==
    \A p \in Restricted :
        \E q \in Position : Guard[q] = "admin" /\ p \in Below[q]

\* Every operation is answered: no group waits for a field that cannot end.
OperationsAreAnswered == <>(phase[Root] = "done")

Selects(p, d) == d \in Below[p] \cap operation /\ d # p

\* How far a position is, by what has been returned and written for it.
Staged ==
    /\ phase[Root] \in {"completing", "valued", "done"}
    /\ \A p \in operation :
        /\ returned[p] = "none" <=> phase[p] \in {"absent", "waiting", "running"}
        /\ value[p] = "none" <=> ~Finished(p)
        /\ phase[p] = "completing" => returned[p] = "value" /\ Kind[p] # "leaf"
        /\ phase[p] = "running" =>
            Permitted(p) /\ \A q \in Before[p] \cap operation : phase[q] = "done"

\* The response grows from the root, and what is finished stays so.
Nested ==
    \A p, d \in operation : Selects(p, d) =>
        /\ phase[d] # "absent" => returned[p] = "value"
        /\ Finished(p) => phase[d] \in {"absent", "done"}

\* The counter of an object is about its fields that are done.
Counted ==
    \A p \in operation : Kind[p] = "object" =>
        (invalids[p] > 0 <=> \E c \in Selected(p) :
            phase[c] = "done" /\ value[c] = "null" /\ c \in NonNull)

\* What a goroutine does in order, it does in order.
Ordered ==
    \A p \in operation \ {Root} : phase[p] \notin {"absent", "waiting"} =>
        \A q \in Before[p] \cap operation : phase[q] = "done"

\* Nothing but an error is returned against a directive.
Guarded ==
    \A p \in operation : returned[p] \in {"nil", "value"} => Permitted(p)

\* The fields of an object are started all together.
Together ==
    \A p \in operation : Kind[p] = "object" =>
        \A c, d \in Selected(p) : phase[c] = "absent" => phase[d] = "absent"

\* The inductive invariant.
IndInv ==
    /\ TypeOK /\ Staged /\ Nested /\ Counted
    /\ NullsPropagate /\ NullsAreExplained

\* What stands between a position and its next phase is over.
CanStep(p) ==
    \/ Ready(p) \/ phase[p] \in {"running", "valued"}
    \/ /\ phase[p] = "completing"
       /\ \A c \in Selected(p) : phase[c] \in {"absent", "done"}

\* Until the operation is answered some goroutine can go on: the groups, the
\* order of fields and the objects around them never wait in a circle.
NobodyIsStuck == phase[Root] # "done" => \E p \in operation : CanStep(p)

Leads == {<<"absent", "waiting">>, <<"waiting", "running">>,
          <<"waiting", "completing">>, <<"waiting", "valued">>,
          <<"running", "completing">>, <<"running", "valued">>,
          <<"completing", "valued">>, <<"valued", "done">>}

\* No position is resolved or counted twice: a phase that was left is over.
OnlyForward ==
    [][\A p \in operation :
         phase'[p] # phase[p] => <<phase[p], phase'[p]>> \in Leads]_vars

\* The operation is a response in the abstract.
Present == {p \in operation : phase[p] # "absent"}
Answer == IF phase[Root] = "done" THEN value[Root] ELSE "none"
R == INSTANCE Response WITH present <- Present, answer <- Answer
ImplementsResponse == R!Spec
=============================================================================
