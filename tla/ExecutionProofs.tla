--------------------------- MODULE ExecutionProofs ---------------------------
(***************************************************************************)
(* Proofs about Execution, for every schema, operation and requester that  *)
(* the assumptions allow.                                                  *)
(***************************************************************************)
EXTENDS Execution, FiniteSetTheorems, TLAPS

-----------------------------------------------------------------------------
(* The tree of positions.                                                  *)

LEMMA OperationFacts ==
    ASSUME TypeOK
    PROVE  /\ operation \subseteq Position /\ Root \in operation
           /\ \A p \in operation, q \in Position : p \in Below[q] => q \in operation
BY OperationsAssumption DEF TypeOK

LEMMA PartFacts ==
    ASSUME TypeOK, NEW p \in operation, NEW c \in Selected(p)
    PROVE  /\ c \in operation /\ c # Root /\ c # p /\ Parent[c] = p
           /\ c \in Children(p) /\ c \in Below[p] /\ c \in Below[c]
           /\ p \notin Below[c] /\ Selects(p, c)
           /\ Below[c] \subseteq Below[p]
BY OperationFacts, TreeAssumption DEF Selected, Children, Selects

\* What is inside a position is inside one of its parts.
LEMMA PartOf ==
    ASSUME TypeOK, NEW p \in operation, NEW d \in operation, Selects(p, d)
    PROVE  \E c \in Selected(p) : d \in Below[c]
<1>1. PICK c \in Children(p) : d \in Below[c]
  BY OperationFacts, TreeAssumption DEF Selects
<1>2. c \in operation
  BY <1>1, OperationFacts DEF Children
<1> QED
  BY <1>1, <1>2 DEF Selected, Children

LEMMA OnePart ==
    ASSUME TypeOK, NEW p \in operation,
           NEW c \in Selected(p), NEW e \in Selected(p),
           NEW d, d \in Below[c], d \in Below[e]
    PROVE  c = e
BY PartFacts, OperationFacts, TreeAssumption

LEMMA Inside ==
    ASSUME TypeOK, NEW q \in operation, NEW p \in operation, NEW c \in Selected(p),
           Selects(q, c)
    PROVE  p \in Below[q]
BY PartFacts, OperationFacts, TreeAssumption DEF Selects

\* Null is carried through a part if the part may not be null.
LEMMA CarriesUpStep ==
    ASSUME TypeOK, NEW p \in operation, NEW c \in Selected(p),
           NEW d \in operation, d \in Below[c]
    PROVE  CarriesUp(d, p) <=> c \in NonNull /\ CarriesUp(d, c)
<1>1. ASSUME CarriesUp(d, p)
      PROVE  c \in NonNull /\ CarriesUp(d, c)
  BY <1>1, PartFacts DEF CarriesUp
<1>2. ASSUME c \in NonNull, CarriesUp(d, c),
             NEW e \in Below[p] \ {p}, d \in Below[e]
      PROVE  e \in NonNull
  <2>1. e \in Position /\ e \in operation
    BY <1>2, OperationFacts, TreeAssumption
  <2>2. PICK b \in Selected(p) : e \in Below[b]
    BY <1>2, <2>1, PartOf DEF Selects
  <2>3. d \in Below[b]
    BY <1>2, <2>1, <2>2, PartFacts, OperationFacts, TreeAssumption
  <2>4. b = c
    BY <2>2, <2>3, OnePart
  <2> QED
    BY <1>2, <2>2, <2>4 DEF CarriesUp
<1> QED
  BY <1>1, <1>2 DEF CarriesUp

LEMMA CarriesUpSelf ==
    ASSUME TypeOK, NEW p \in operation
    PROVE  p \in Below[p] /\ CarriesUp(p, p)
<1>1. ASSUME NEW e \in Below[p] \ {p}, p \in Below[e]
      PROVE  FALSE
  <2>1. e \in operation
    BY <1>1, OperationFacts, TreeAssumption
  <2>2. PICK c \in Selected(p) : e \in Below[c]
    BY <1>1, <2>1, PartOf DEF Selects
  <2> QED
    BY <1>1, <2>1, <2>2, PartFacts, OperationFacts, TreeAssumption
<1> QED
  BY <1>1, OperationFacts, TreeAssumption DEF CarriesUp

\* A position is as it has to be if its own value was returned and its
\* required parts are as they have to be.
LEMMA IntactStep ==
    ASSUME TypeOK, Staged, Nested, NEW p \in operation, phase[p] # "absent"
    PROVE  Intact(p) <=>
             /\ returned[p] = "value"
             /\ \A c \in Selected(p) :
                    phase[c] # "absent" /\ c \in NonNull => Intact(c)
<1>0. p \in Below[p] /\ CarriesUp(p, p)
  BY CarriesUpSelf
<1>1. ASSUME Intact(p)
      PROVE  returned[p] = "value"
  BY <1>0, <1>1 DEF Intact
<1>2. ASSUME Intact(p), NEW c \in Selected(p), c \in NonNull
      PROVE  Intact(c)
  BY <1>2, PartFacts, CarriesUpStep DEF Intact
<1>3. ASSUME returned[p] = "value",
             \A c \in Selected(p) :
                 phase[c] # "absent" /\ c \in NonNull => Intact(c)
      PROVE  Intact(p)
  <2> SUFFICES ASSUME NEW d \in Below[p] \cap operation,
                      phase[d] # "absent", CarriesUp(d, p), d # p
               PROVE  returned[d] = "value"
    BY <1>3 DEF Intact
  <2>1. PICK c \in Selected(p) : d \in Below[c]
    BY PartOf DEF Selects
  <2>2. c \in operation /\ c \in NonNull /\ CarriesUp(d, c)
    BY <2>1, PartFacts, CarriesUpStep
  <2>3. phase[c] # "absent"
    <3>1. CASE d = c
      BY <3>1
    <3>2. CASE d # c
      BY <2>1, <2>2, <3>2 DEF Nested, Staged, Selects
    <3> QED
      BY <3>1, <3>2
  <2> QED
    BY <1>3, <2>1, <2>2, <2>3 DEF Intact
<1> QED
  BY <1>1, <1>2, <1>3

-----------------------------------------------------------------------------
(* Positions that are being resolved.                                      *)

\* Nothing inside p is there yet, and nothing around it is finished.
LEMMA Unresolved ==
    ASSUME IndInv, NEW p \in operation, phase[p] \in {"waiting", "running"}
    PROVE  /\ p # Root /\ returned[p] = "none" /\ value[p] = "none"
           /\ \A d \in Below[p] \cap operation : d # p => phase[d] = "absent"
           /\ \A q \in operation : Finished(q) => p \notin Below[q]
<1>1. p # Root /\ returned[p] = "none" /\ value[p] = "none" /\ ~Finished(p)
  BY DEF IndInv, Staged, Finished
<1>2. ASSUME NEW d \in Below[p] \cap operation, d # p
      PROVE  phase[d] = "absent"
  BY <1>1, <1>2 DEF IndInv, Nested, Selects
<1>3. ASSUME NEW q \in operation, Finished(q), p \in Below[q]
      PROVE  FALSE
  BY <1>1, <1>3 DEF IndInv, Nested, Selects
<1> QED
  BY <1>1, <1>2, <1>3

\* A position is finished by what its resolver, its struct or the executor
\* returned for it.
LEMMA FinishKeepsInvariant ==
    ASSUME IndInv, NEW p \in operation, phase[p] \in {"waiting", "running"},
           NEW outcome \in {"error", "nil", "value"},
           NEW v \in {"null", "data"}, v = "data" <=> outcome = "value",
           Return(p, outcome), Put(p, v),
           UNCHANGED <<request, invalids>>,
           errors' = errors \/ errors' = errors \cup {p},
           v = "null" /\ (outcome = "nil" => p \in NonNull) => p \in errors'
    PROVE  IndInv'
<1> USE DEF Return, Put, request
<1>1. TypeOK /\ Staged /\ Nested /\ Counted /\ NullsPropagate /\ NullsAreExplained
  BY DEF IndInv
<1>2. TypeOK'
  BY <1>1 DEF TypeOK, Outcomes, Phases, Values
<1>3. phase'[p] = "valued" /\ returned'[p] = outcome /\ value'[p] = v
  BY <1>1 DEF TypeOK
<1>4. \A q \in operation \ {p} :
        phase'[q] = phase[q] /\ returned'[q] = returned[q] /\ value'[q] = value[q]
  BY <1>1 DEF TypeOK
<1>5. \A q \in operation : Selected(q)' = Selected(q)
  BY DEF Selected
<1>6. Staged'
  <2>1. phase'[Root] = phase[Root]
    BY <1>1, <1>4, OperationFacts, Unresolved
  <2> QED
    BY <1>1, <1>3, <1>4, <2>1 DEF Staged, Finished, Permitted
<1>7. Nested'
  <2> SUFFICES ASSUME NEW q \in operation, NEW d \in operation, Selects(q, d)
               PROVE  /\ phase'[d] # "absent" => returned'[q] = "value"
                      /\ Finished(q)' => phase'[d] \in {"absent", "done"}
    BY DEF Nested, Selects
  <2>1. CASE q = p
    BY <1>3, <1>4, <2>1, Unresolved DEF Selects
  <2>2. CASE q # p /\ d = p
    BY <1>1, <1>3, <1>4, <2>2, Unresolved DEF Nested, Selects, Finished
  <2>3. CASE q # p /\ d # p
    BY <1>1, <1>4, <2>3 DEF Nested, Finished
  <2> QED
    BY <2>1, <2>2, <2>3
<1>8. Counted'
  BY <1>1, <1>3, <1>4, <1>5, PartFacts DEF Counted
<1>9. NullsPropagate'
  <2> SUFFICES ASSUME NEW q \in operation, Finished(q)'
               PROVE  value'[q] = "data" <=> Intact(q)'
    BY DEF NullsPropagate
  <2>1. CASE q = p
    <3>1. \A d \in Below[p] \cap operation : d # p => phase'[d] = "absent"
      BY <1>4, Unresolved
    <3>2. p \in Below[p] /\ CarriesUp(p, p)' /\ Staged' /\ Nested'
      BY <1>1, <1>6, <1>7, CarriesUpSelf DEF CarriesUp
    <3> QED
      BY <1>3, <2>1, <3>1, <3>2 DEF Intact
  <2>2. CASE q # p
    BY <1>1, <1>4, <2>2, Unresolved DEF NullsPropagate, Intact, Finished, CarriesUp
  <2> QED
    BY <2>1, <2>2
<1>10. NullsAreExplained'
  <2>1. p \in Below[p] /\ errors \subseteq errors'
    BY <1>1, OperationFacts, TreeAssumption
  <2> QED
    BY <1>1, <1>3, <1>4, <2>1 DEF NullsAreExplained
<1> QED
  BY <1>2, <1>6, <1>7, <1>8, <1>9, <1>10 DEF IndInv

\* An object or a list is returned: parts of it are to be resolved.
LEMMA OpenKeepsInvariant ==
    ASSUME IndInv, NEW p \in operation, phase[p] \in {"waiting", "running"},
           Kind[p] # "leaf", NEW parts \in SUBSET Selected(p),
           Return(p, "value"),
           phase' = [c \in operation |->
                       IF c = p THEN "completing"
                       ELSE IF c \in parts THEN "waiting" ELSE phase[c]],
           UNCHANGED <<request, value, invalids, errors>>
    PROVE  IndInv'
<1> USE DEF Return, request
<1>1. TypeOK /\ Staged /\ Nested /\ Counted /\ NullsPropagate /\ NullsAreExplained
  BY DEF IndInv
<1>2. TypeOK'
  BY <1>1 DEF TypeOK, Outcomes, Phases
<1>3. phase'[p] = "completing" /\ returned'[p] = "value"
  BY <1>1 DEF TypeOK
<1>4. \A c \in parts : c \in operation /\ phase[c] = "absent" /\ phase'[c] = "waiting"
  BY <1>1, PartFacts, Unresolved
<1>5. \A q \in operation \ {p} :
        /\ returned'[q] = returned[q]
        /\ q \notin parts => phase'[q] = phase[q]
  BY <1>1 DEF TypeOK
<1>6. \A q \in operation : Finished(q)' <=> Finished(q)
  BY <1>3, <1>4, <1>5 DEF Finished
<1>7. \A q \in operation : Finished(q) =>
        \A d \in Below[q] \cap operation : d # p /\ d \notin parts
  <2> SUFFICES ASSUME NEW q \in operation, Finished(q), NEW c \in parts, c \in Below[q]
               PROVE  FALSE
    BY Unresolved
  <2>1. c # q
    BY <1>4 DEF Finished
  <2>2. p \in Below[q]
    BY <1>1, <1>4, <2>1, Inside DEF Selects
  <2> QED
    BY <2>2, Unresolved
<1>8. Staged'
  <2>1. phase'[Root] = phase[Root]
    BY <1>1, <1>4, <1>5, OperationFacts, Unresolved DEF Staged
  <2> QED
    BY <1>1, <1>3, <1>4, <1>5, <1>6, <2>1 DEF Staged, Permitted, Finished
<1>9. Nested'
  <2> SUFFICES ASSUME NEW q \in operation, NEW d \in operation, Selects(q, d)
               PROVE  /\ phase'[d] # "absent" => returned'[q] = "value"
                      /\ Finished(q) => phase'[d] \in {"absent", "done"}
    BY <1>6 DEF Nested, Selects
  <2>1. Finished(q) => phase'[d] \in {"absent", "done"}
    BY <1>1, <1>5, <1>7 DEF Nested, Selects
  <2>2. CASE q = p
    BY <1>3, <2>1, <2>2
  <2>3. CASE q # p /\ d \in parts
    <3>1. Selects(q, p)
      BY <1>1, <2>3, Inside DEF Selects
    <3> QED
      BY <1>1, <1>5, <2>1, <2>3, <3>1 DEF Nested
  <2>4. CASE q # p /\ d \notin parts
    BY <1>1, <1>3, <1>5, <2>1, <2>4 DEF Nested
  <2> QED
    BY <2>2, <2>3, <2>4
<1>10. Counted'
  <2>1. \A q \in operation : Selected(q)' = Selected(q)
    BY DEF Selected
  <2>2. \A c \in operation : phase'[c] = "done" <=> phase[c] = "done"
    BY <1>3, <1>4, <1>5
  <2> QED
    BY <1>1, <2>1, <2>2, PartFacts DEF Counted
<1>11. NullsPropagate'
  BY <1>1, <1>5, <1>6, <1>7 DEF NullsPropagate, Intact, CarriesUp
<1>12. NullsAreExplained'
  BY <1>1, <1>3, <1>5, Unresolved DEF NullsAreExplained
<1> QED
  BY <1>2, <1>8, <1>9, <1>10, <1>11, <1>12 DEF IndInv

-----------------------------------------------------------------------------
(* The other steps.                                                        *)

LEMMA CallKeepsInvariant ==
    ASSUME IndInv, NEW p \in operation, CallResolver(p)
    PROVE  IndInv'
<1> USE DEF CallResolver, request
<1>1. TypeOK /\ Staged /\ Nested /\ Counted /\ NullsPropagate /\ NullsAreExplained
  BY DEF IndInv
<1>2. phase[p] = "waiting" /\ phase'[p] = "running"
  BY <1>1 DEF Ready, TypeOK
<1>3. \A q \in operation \ {p} : phase'[q] = phase[q]
  BY <1>1 DEF TypeOK
<1>4. TypeOK'
  BY <1>1 DEF TypeOK, Phases
<1>5. \A q \in operation : Finished(q)' <=> Finished(q)
  BY <1>2, <1>3 DEF Finished
<1>6. Staged'
  BY <1>1, <1>2, <1>3, <1>5, OperationFacts DEF Staged, Ready, Permitted
<1>7. Nested'
  BY <1>1, <1>2, <1>3, <1>5 DEF Nested, Selects
<1>8. Counted'
  <2>1. \A q \in operation : Selected(q)' = Selected(q)
    BY DEF Selected
  <2> QED
    BY <1>1, <1>2, <1>3, <2>1, PartFacts DEF Counted
<1>9. NullsPropagate'
  BY <1>1, <1>2, <1>3, <1>5 DEF NullsPropagate, Intact, CarriesUp
<1>10. NullsAreExplained'
  BY <1>1 DEF NullsAreExplained
<1> QED
  BY <1>1, <1>4, <1>6, <1>7, <1>8, <1>9, <1>10 DEF IndInv

LEMMA CountKeepsInvariant ==
    ASSUME IndInv, NEW p \in operation, CountField(p)
    PROVE  IndInv'
<1> USE DEF CountField, request
<1>1. TypeOK /\ Staged /\ Nested /\ Counted /\ NullsPropagate /\ NullsAreExplained
  BY DEF IndInv
<1>2. p # Root /\ phase[p] = "valued" /\ phase'[p] = "done"
  BY <1>1 DEF TypeOK
<1>3. \A q \in operation \ {p} : phase'[q] = phase[q]
  BY <1>1 DEF TypeOK
<1>4. PICK o \in operation : o = Parent[p]
  <2>1. p \in Position /\ Parent[p] \in Position /\ p \in Children(Parent[p])
    BY <1>1, <1>2, OperationFacts, TreeAssumption DEF Children
  <2>2. p \in Below[Parent[p]]
    BY <2>1, TreeAssumption
  <2> QED
    BY <1>1, <2>1, <2>2, OperationFacts
<1>5. TypeOK'
  BY <1>1, <1>4 DEF TypeOK, Phases
<1>6. \A q \in operation : Finished(q)' <=> Finished(q)
  BY <1>2, <1>3 DEF Finished
<1>7. Staged'
  BY <1>1, <1>2, <1>3, <1>6, OperationFacts DEF Staged, Permitted
<1>8. Nested'
  BY <1>1, <1>2, <1>3, <1>6 DEF Nested, Selects
<1>9. Counted'
  <2> SUFFICES ASSUME NEW q \in operation, Kind[q] = "object"
               PROVE  invalids'[q] > 0 <=> \E c \in Selected(q) :
                          phase'[c] = "done" /\ value[c] = "null" /\ c \in NonNull
    BY DEF Counted, Selected
  <2>1. CASE q # o
    <3>1. p \notin Selected(q)
      BY <1>4, <2>1 DEF Selected
    <3>2. invalids'[q] = invalids[q]
      BY <1>1, <1>4, <2>1 DEF TypeOK
    <3>3. \A c \in Selected(q) : phase'[c] = phase[c]
      BY <1>1, <1>3, <3>1, PartFacts
    <3> QED
      BY <1>1, <3>2, <3>3 DEF Counted
  <2>2. CASE q = o /\ value[p] = "null" /\ p \in NonNull
    <3>1. p \in Selected(q)
      BY <1>2, <1>4, <2>2 DEF Selected
    <3>2. invalids'[q] = invalids[q] + 1 /\ invalids[q] \in Nat
      BY <1>1, <1>4, <2>2 DEF TypeOK
    <3> QED
      BY <1>2, <2>2, <3>1, <3>2
  <2>3. CASE q = o /\ ~(value[p] = "null" /\ p \in NonNull)
    <3>1. invalids'[q] = invalids[q]
      BY <2>3
    <3>2. \A c \in Selected(q) : c # p => phase'[c] = phase[c]
      BY <1>1, <1>3, PartFacts
    <3> QED
      BY <1>1, <1>2, <2>3, <3>1, <3>2 DEF Counted
  <2> QED
    BY <2>1, <2>2, <2>3
<1>10. NullsPropagate'
  BY <1>1, <1>2, <1>3, <1>6 DEF NullsPropagate, Intact, CarriesUp
<1>11. NullsAreExplained'
  BY <1>1 DEF NullsAreExplained
<1> QED
  BY <1>5, <1>7, <1>8, <1>9, <1>10, <1>11 DEF IndInv

\* The counter, or the elements, tell an object or a list whether null was
\* carried up to it.
LEMMA CollectedIsPropagated ==
    ASSUME IndInv, NEW p \in operation, phase[p] = "completing",
           \A c \in Selected(p) : phase[c] \in {"absent", "done"}
    PROVE  /\ Collected(p) \in {"null", "data"}
           /\ Collected(p) = "data" <=> Intact(p)
           /\ Collected(p) = "null" => errors \cap Below[p] # {}
<1>1. TypeOK /\ Staged /\ Nested /\ Counted /\ NullsPropagate /\ NullsAreExplained
  BY DEF IndInv
<1>2. \A c \in Selected(p) :
        phase[c] = "done" => (value[c] = "null" <=> ~Intact(c))
  BY <1>1, PartFacts DEF NullsPropagate, Staged, Finished, TypeOK, Values
<1>3. \A c \in Selected(p) : phase[c] = "absent" => value[c] # "null"
  BY <1>1, PartFacts DEF Staged, Finished
<1>4. Collected(p) = "null" <=>
        \E c \in Selected(p) :
            phase[c] = "done" /\ value[c] = "null" /\ c \in NonNull
  <2>1. CASE Kind[p] = "object"
    BY <1>1, <2>1 DEF Collected, Counted
  <2>2. CASE Kind[p] = "list"
    BY <1>1, <1>3, <2>2, SchemaAssumption, OperationFacts, PartFacts
       DEF Collected, Nulls
  <2> QED
    BY <1>1, <2>1, <2>2, OperationFacts, SchemaAssumption DEF Kinds, Staged
<1>5. Collected(p) = "data" <=> Intact(p)
  <2>1. Collected(p) \in {"null", "data"}
    BY DEF Collected
  <2>2. returned[p] = "value"
    BY <1>1 DEF Staged
  <2> QED
    BY <1>1, <1>2, <1>4, <2>1, <2>2, IntactStep
<1>6. ASSUME NEW c \in Selected(p), value[c] = "null", c \in NonNull
      PROVE  errors \cap Below[p] # {}
  BY <1>1, <1>6, PartFacts DEF NullsAreExplained
<1> QED
  BY <1>4, <1>5, <1>6 DEF Collected

LEMMA CollectKeepsInvariant ==
    ASSUME IndInv, NEW p \in operation, CollectFields(p)
    PROVE  IndInv'
<1> USE DEF CollectFields, Put, request
<1>1. TypeOK /\ Staged /\ Nested /\ Counted /\ NullsPropagate /\ NullsAreExplained
  BY DEF IndInv
<1>2. phase[p] = "completing" /\ phase'[p] = "valued" /\ value'[p] = Collected(p)
  BY <1>1 DEF TypeOK
<1>3. \A q \in operation \ {p} : phase'[q] = phase[q] /\ value'[q] = value[q]
  BY <1>1 DEF TypeOK
<1>4. Collected(p) \in {"null", "data"}
  BY DEF Collected
<1>5. TypeOK'
  BY <1>1, <1>4 DEF TypeOK, Phases, Values
<1>6. \A q \in operation \ {p} : Finished(q)' <=> Finished(q)
  BY <1>3 DEF Finished
<1>7. Staged'
  BY <1>1, <1>2, <1>3, <1>4, <1>6, OperationFacts DEF Staged, Permitted, Finished
<1>8. Nested'
  <2> SUFFICES ASSUME NEW q \in operation, NEW d \in operation, Selects(q, d)
               PROVE  /\ phase'[d] # "absent" => returned[q] = "value"
                      /\ Finished(q)' => phase'[d] \in {"absent", "done"}
    BY DEF Nested, Selects
  <2>1. CASE q = p
    <3>1. PICK c \in Selected(p) : d \in Below[c]
      BY <1>1, <2>1, PartOf
    <3>2. c \in operation /\ phase[c] \in {"absent", "done"}
      BY <1>1, PartFacts
    <3>3. CASE d = c
      BY <1>1, <1>2, <1>3, <2>1, <3>2, <3>3 DEF Staged
    <3>4. CASE d # c
      BY <1>1, <1>2, <1>3, <2>1, <3>1, <3>2, <3>4
         DEF Nested, Staged, Selects, Finished
    <3> QED
      BY <3>3, <3>4
  <2>2. CASE q # p
    BY <1>1, <1>2, <1>3, <1>6, <2>2 DEF Nested
  <2> QED
    BY <2>1, <2>2
<1>9. Counted'
  <2>1. \A q \in operation : Selected(q)' = Selected(q)
    BY DEF Selected
  <2> QED
    BY <1>1, <1>2, <1>3, <2>1, PartFacts DEF Counted
<1>10. NullsPropagate'
  <2>1. \A q \in operation : Intact(q)' <=> Intact(q)
    BY <1>1, <1>2, <1>3 DEF Intact, CarriesUp
  <2> QED
    BY <1>1, <1>2, <1>3, <1>6, <2>1, CollectedIsPropagated DEF NullsPropagate
<1>11. NullsAreExplained'
  BY <1>1, <1>2, <1>3, CollectedIsPropagated DEF NullsAreExplained
<1> QED
  BY <1>5, <1>7, <1>8, <1>9, <1>10, <1>11 DEF IndInv

LEMMA RespondKeepsInvariant ==
    ASSUME IndInv, Respond
    PROVE  IndInv'
<1> USE DEF Respond, request
<1>1. TypeOK /\ Staged /\ Nested /\ Counted /\ NullsPropagate /\ NullsAreExplained
  BY DEF IndInv
<1>2. Root \in operation /\ phase[Root] = "valued" /\ phase'[Root] = "done"
  BY <1>1, OperationFacts DEF TypeOK
<1>3. \A q \in operation \ {Root} : phase'[q] = phase[q]
  BY <1>1 DEF TypeOK
<1>4. TypeOK'
  BY <1>1 DEF TypeOK, Phases
<1>5. \A q \in operation : Finished(q)' <=> Finished(q)
  BY <1>2, <1>3 DEF Finished
<1>6. Staged'
  BY <1>1, <1>2, <1>3, <1>5 DEF Staged, Permitted
<1>7. Nested'
  BY <1>1, <1>2, <1>3, <1>5 DEF Nested, Selects
<1>8. Counted'
  <2>1. \A q \in operation : Selected(q)' = Selected(q)
    BY DEF Selected
  <2> QED
    BY <1>1, <1>3, <2>1, PartFacts DEF Counted
<1>9. NullsPropagate'
  BY <1>1, <1>2, <1>3, <1>5 DEF NullsPropagate, Intact, CarriesUp
<1>10. NullsAreExplained'
  BY <1>1 DEF NullsAreExplained
<1> QED
  BY <1>4, <1>6, <1>7, <1>8, <1>9, <1>10 DEF IndInv

-----------------------------------------------------------------------------
(* The invariant.                                                          *)

LEMMA InitEstablishesInvariant == Init => IndInv
<1> SUFFICES ASSUME Init PROVE IndInv
  OBVIOUS
<1>1. operation \in Operations /\ Root \in operation /\ operation \subseteq Position
  BY OperationsAssumption DEF Init
<1>2. phase[Root] = "completing" /\ returned[Root] = "value" /\ value[Root] = "none"
  BY <1>1 DEF Init
<1>3. \A p \in operation \ {Root} :
        /\ phase[p] \in {"waiting", "absent"}
        /\ returned[p] = "none" /\ value[p] = "none"
        /\ phase[p] # "absent" => p \in Selected(Root)
  BY DEF Init
<1>4. TypeOK
  BY <1>1 DEF Init, TypeOK, Phases, Outcomes, Values
<1>5. Staged
  BY <1>1, <1>2, <1>3, SchemaAssumption DEF Staged, Finished
<1>6. Nested
  <2> SUFFICES ASSUME NEW p \in operation, NEW d \in operation, Selects(p, d),
                      phase[d] # "absent", p # Root
               PROVE  FALSE
    BY <1>1, <1>2, <1>3 DEF Nested, Finished
  <2>1. d # Root
    BY <1>1, TreeAssumption DEF Selects
  <2>2. Root \in Below[p]
    BY <1>1, <1>3, <1>4, <2>1, Inside
  <2> QED
    BY <1>1, <2>2, TreeAssumption
<1>7. Counted
  BY <1>1, <1>2, <1>3, <1>4, PartFacts DEF Counted, Init
<1>8. NullsPropagate /\ NullsAreExplained
  BY <1>1, <1>2, <1>3 DEF NullsPropagate, NullsAreExplained, Finished
<1> QED
  BY <1>4, <1>5, <1>6, <1>7, <1>8 DEF IndInv

LEMMA FailKeepsInvariant ==
    ASSUME IndInv, NEW p \in operation, phase[p] \in {"waiting", "running"}, Fail(p)
    PROVE  IndInv'
BY FinishKeepsInvariant DEF Fail

LEMMA ReturnNilKeepsInvariant ==
    ASSUME IndInv, NEW p \in operation, phase[p] \in {"waiting", "running"},
           ReturnNil(p)
    PROVE  IndInv'
<1>1. CASE p \in NonNull
  BY <1>1, FinishKeepsInvariant DEF ReturnNil
<1>2. CASE p \notin NonNull
  BY <1>2, FinishKeepsInvariant DEF ReturnNil
<1> QED
  BY <1>1, <1>2

LEMMA ReturnValueKeepsInvariant ==
    ASSUME IndInv, NEW p \in operation, phase[p] \in {"waiting", "running"},
           ReturnValue(p)
    PROVE  IndInv'
<1>1. CASE Kind[p] = "leaf"
  BY <1>1, FinishKeepsInvariant DEF ReturnValue
<1>2. CASE Kind[p] # "leaf"
  <2>1. \A parts \in Parts(p) : parts \in SUBSET Selected(p)
    BY DEF Parts
  <2> QED
    BY <1>2, <2>1, OpenKeepsInvariant DEF ReturnValue
<1> QED
  BY <1>1, <1>2

LEMMA StepKeepsInvariant == IndInv /\ [Next]_vars => IndInv'
<1> SUFFICES ASSUME IndInv, [Next]_vars PROVE IndInv'
  OBVIOUS
<1>1. CASE Respond
  BY <1>1, RespondKeepsInvariant
<1>2. ASSUME NEW p \in operation, Resolve(p)
      PROVE  IndInv'
  <2>1. CASE CallResolver(p)
    BY <2>1, CallKeepsInvariant
  <2>2. CASE RefuseArguments(p)
    BY <2>2, FailKeepsInvariant DEF RefuseArguments, Ready
  <2>3. CASE RefuseRequester(p)
    BY <2>3, FailKeepsInvariant DEF RefuseRequester, Ready
  <2>4. CASE ResolverFails(p)
    BY <2>4, FailKeepsInvariant DEF ResolverFails
  <2>5. CASE ResolverReturns(p)
    BY <2>5, ReturnNilKeepsInvariant, ReturnValueKeepsInvariant DEF ResolverReturns
  <2>6. CASE ReadField(p)
    BY <2>6, ReturnNilKeepsInvariant, ReturnValueKeepsInvariant DEF ReadField, Ready
  <2> QED
    BY <1>2, <2>1, <2>2, <2>3, <2>4, <2>5, <2>6 DEF Resolve
<1>3. ASSUME NEW p \in operation, Complete(p)
      PROVE  IndInv'
  BY <1>3, CountKeepsInvariant, CollectKeepsInvariant DEF Complete
<1>4. CASE UNCHANGED vars
  BY <1>4 DEF vars, request, IndInv, TypeOK, Staged, Nested, Counted, NullsPropagate,
              NullsAreExplained, Finished, Selects, Selected, Intact, CarriesUp,
              Permitted
<1> QED
  BY <1>1, <1>2, <1>3, <1>4 DEF Next

\* The inductive invariant holds in every reachable state: how far positions
\* are, what surrounds and what is inside those that are finished, and the
\* counters (_Folder and the other functions of objects, the marshalN
\* functions of lists).
THEOREM Invariance == Spec => []IndInv
BY InitEstablishesInvariant, StepKeepsInvariant, PTL DEF Spec

\* Every variable keeps its type.
THEOREM TypeCorrectness == Spec => []TypeOK
<1>1. IndInv => TypeOK
  BY DEF IndInv
<1> QED
  BY <1>1, Invariance, PTL

\* Null stands exactly where it was returned, or carried up to through fields
\* and elements that may not be null.
THEOREM NullPropagation == Spec => []NullsPropagate
<1>1. IndInv => NullsPropagate
  BY DEF IndInv
<1> QED
  BY <1>1, Invariance, PTL

\* Null that no resolver answered for an optional field comes with an error.
THEOREM NullsExplained == Spec => []NullsAreExplained
<1>1. IndInv => NullsAreExplained
  BY DEF IndInv
<1> QED
  BY <1>1, Invariance, PTL

-----------------------------------------------------------------------------
(* What a step does to the positions.                                      *)

\* How a position may come to be resolved: in its turn.
InTurn(p) ==
    /\ phase[p] \in {"waiting", "running"}
    /\ \A q \in Before[p] \cap operation : phase[q] = "done"

\* Starting the parts of p starts no other field, and all of an object.
Starts(p, parts) ==
    /\ parts \subseteq Selected(p)
    /\ Kind[p] = "object" => parts = Selected(p)
    /\ \A c \in operation \ {p} :
        phase'[c] = IF c \in parts THEN "waiting" ELSE phase[c]

\* One step of p: where it goes, what is returned for it, what it starts.
Moves(p, to) ==
    /\ UNCHANGED request
    /\ phase[p] # "absent" /\ <<phase[p], to>> \in Leads /\ phase'[p] = to
    /\ phase[p] = "waiting" => \A q \in Before[p] \cap operation : phase[q] = "done"
    /\ returned'[p] \in {"nil", "value"} => returned'[p] = returned[p] \/ Permitted(p)
    /\ \A q \in operation \ {p} : returned'[q] = returned[q]
    /\ \/ \A q \in operation \ {p} : phase'[q] = phase[q]
       \/ \E parts : Starts(p, parts) /\ \A c \in parts : phase[c] = "absent"

LEMMA FinishMoves ==
    ASSUME IndInv, NEW p \in operation, InTurn(p),
           NEW outcome, Permitted(p) \/ outcome = "error", NEW v,
           Return(p, outcome), Put(p, v), UNCHANGED request
    PROVE  Moves(p, "valued")
BY DEF IndInv, TypeOK, InTurn, Return, Put, Moves, Leads

LEMMA ReturnMoves ==
    ASSUME IndInv, NEW p \in operation, InTurn(p), Permitted(p),
           ReturnNil(p) \/ ReturnValue(p)
    PROVE  \E to \in Phases : Moves(p, to)
<1>1. CASE ReturnNil(p)
  BY <1>1, FinishMoves DEF ReturnNil, Phases
<1>2. CASE ReturnValue(p) /\ Kind[p] = "leaf"
  BY <1>2, FinishMoves DEF ReturnValue, Phases
<1>3. CASE ReturnValue(p) /\ Kind[p] # "leaf"
  <2>1. PICK parts \in Parts(p) :
          phase' = [c \in operation |->
                      IF c = p THEN "completing"
                      ELSE IF c \in parts THEN "waiting" ELSE phase[c]]
    BY <1>3 DEF ReturnValue
  <2>2. p \in Position /\ Kind[p] \in {"object", "list"}
    BY <1>3, SchemaAssumption, OperationFacts DEF Kinds, IndInv
  <2>3. parts \subseteq Selected(p) /\ (Kind[p] = "object" => parts = Selected(p))
    BY <2>1, <2>2 DEF Parts
  <2>4. \A c \in parts : c \in operation /\ c # p /\ phase[c] = "absent"
    BY <2>3, PartFacts, Unresolved DEF InTurn, IndInv
  <2>5. Starts(p, parts)
    BY <2>1, <2>3 DEF Starts
  <2>6. phase'[p] = "completing" /\ <<phase[p], "completing">> \in Leads
    BY <2>1 DEF InTurn, Leads
  <2>7. UNCHANGED request /\ \A q \in operation \ {p} : returned'[q] = returned[q]
    BY <1>3 DEF ReturnValue, Return, IndInv, TypeOK
  <2> QED
    BY <2>4, <2>5, <2>6, <2>7 DEF Moves, InTurn, Phases
<1> QED
  BY <1>1, <1>2, <1>3

\* Every step is that of one position.
LEMMA StepMoves ==
    ASSUME IndInv, Next
    PROVE  \E p \in operation : \E to \in Phases : Moves(p, to)
<1>0. TypeOK /\ Root \in operation
  BY OperationFacts DEF IndInv
<1>1. CASE Respond
  BY <1>0, <1>1 DEF Respond, Moves, TypeOK, Leads, Phases
<1>2. ASSUME NEW p \in operation, Resolve(p)
      PROVE  \E to \in Phases : Moves(p, to)
  <2>1. CASE CallResolver(p)
    BY <1>0, <2>1 DEF CallResolver, Ready, Moves, TypeOK, Leads, Phases
  <2>2. CASE (RefuseArguments(p) \/ RefuseRequester(p)) /\ ~CallResolver(p)
    BY <2>2, FinishMoves DEF RefuseArguments, RefuseRequester, Ready, InTurn, Fail, Phases
  <2>3. CASE phase[p] = "running"
    <3>1. InTurn(p) /\ Permitted(p)
      BY <2>3 DEF IndInv, Staged, InTurn
    <3>2. Fail(p) \/ ReturnNil(p) \/ ReturnValue(p)
      BY <1>2, <2>3 DEF Resolve, CallResolver, RefuseArguments, RefuseRequester,
                        ResolverFails, ResolverReturns, ReadField, Ready
    <3> QED
      BY <3>1, <3>2, FinishMoves, ReturnMoves DEF Fail, Phases
  <2>4. CASE ReadField(p)
    <3>1. Permitted(p) /\ InTurn(p)
      BY <1>0, <2>4, SchemaAssumption, OperationFacts
         DEF ReadField, Permitted, Ready, InTurn
    <3> QED
      BY <2>4, <3>1, ReturnMoves DEF ReadField
  <2> QED
    BY <1>2, <2>1, <2>2, <2>3, <2>4 DEF Resolve, ResolverFails, ResolverReturns
<1>3. ASSUME NEW p \in operation, Complete(p)
      PROVE  \E to \in Phases : Moves(p, to)
  BY <1>0, <1>3
     DEF Complete, CountField, CollectFields, Put, Moves, TypeOK, Leads, Phases
<1> QED
  BY <1>1, <1>2, <1>3 DEF Next

\* For every position, what a step may do to it.
LEMMA StepFacts ==
    ASSUME IndInv, [Next]_vars
    PROVE  /\ UNCHANGED request
           /\ \A q \in operation :
                /\ phase'[q] # phase[q] => <<phase[q], phase'[q]>> \in Leads
                /\ phase[q] = "waiting" /\ phase'[q] # "waiting" =>
                    \A r \in Before[q] \cap operation : phase[r] = "done"
                /\ returned'[q] \in {"nil", "value"} =>
                    returned'[q] = returned[q] \/ Permitted(q)
                /\ Kind[q] = "object" =>
                    \A c, d \in Selected(q) :
                        phase[c] = "absent" /\ phase'[c] # "absent"
                            => phase'[d] # "absent"
<1>1. CASE UNCHANGED vars
  BY <1>1 DEF vars, request
<1>2. CASE Next
  <2>1. PICK p \in operation : \E to \in Phases : Moves(p, to)
    BY <1>2, StepMoves
  <2>2. UNCHANGED request
    BY <2>1 DEF Moves
  <2>3. phase'[p] # phase[p] => <<phase[p], phase'[p]>> \in Leads
    BY <2>1 DEF Moves
  <2>4. \A q \in operation \ {p} : phase'[q] # phase[q] =>
            phase[q] = "absent" /\ phase'[q] = "waiting"
    BY <2>1 DEF Moves, Starts
  <2>5. phase[p] = "waiting" => \A r \in Before[p] \cap operation : phase[r] = "done"
    BY <2>1 DEF Moves
  <2>6. \A q \in operation : returned'[q] \in {"nil", "value"} =>
            returned'[q] = returned[q] \/ Permitted(q)
    BY <2>1 DEF Moves
  <2>7. phase[p] # "absent"
    BY <2>1 DEF Moves
  <2>8. ASSUME NEW q \in operation, Kind[q] = "object",
               NEW c \in Selected(q), NEW d \in Selected(q),
               phase[c] = "absent", phase'[c] # "absent"
        PROVE  phase'[d] # "absent"
    <3>0. TypeOK /\ c \in operation /\ d \in operation /\ c # p
      BY <2>7, <2>8, PartFacts DEF IndInv
    <3>1. PICK parts : Starts(p, parts)
      BY <2>1, <2>8, <3>0 DEF Moves
    <3>2. c \in Selected(p)
      BY <2>8, <3>0, <3>1 DEF Starts
    <3>3. p = q
      BY <2>8, <3>2 DEF Selected
    <3>4. d \in parts
      BY <2>8, <3>1, <3>3 DEF Starts
    <3>5. d # p
      BY <2>8, <3>0, <3>3, PartFacts
    <3> QED
      BY <3>0, <3>1, <3>4, <3>5 DEF Starts
  <2>9. ASSUME NEW q \in operation
        PROVE  /\ phase'[q] # phase[q] => <<phase[q], phase'[q]>> \in Leads
               /\ phase[q] = "waiting" /\ phase'[q] # "waiting" =>
                    \A r \in Before[q] \cap operation : phase[r] = "done"
    BY <2>3, <2>4, <2>5 DEF Leads
  <2> QED
    BY <2>2, <2>6, <2>8, <2>9
<1> QED
  BY <1>1, <1>2

\* Phases only move forward, whatever the interleaving of goroutines: no
\* resolver runs twice, no field is counted twice.
THEOREM PositionsOnlyAdvance == Spec => OnlyForward
<1>1. IndInv /\ [Next]_vars =>
        [\A p \in operation :
            phase'[p] # phase[p] => <<phase[p], phase'[p]>> \in Leads]_vars
  BY StepFacts
<1> QED
  BY <1>1, Invariance, PTL DEF Spec, OnlyForward

-----------------------------------------------------------------------------
(* Order and directives.                                                   *)

\* What the order of fields, the directives and the objects themselves keep,
\* besides the inductive invariant.
Disciplined == Ordered /\ Guarded /\ Together

LEMMA InitIsDisciplined == Init => Disciplined
<1> SUFFICES ASSUME Init PROVE Disciplined
  OBVIOUS
<1>1. Root \in operation /\ operation \subseteq Position
  BY OperationsAssumption DEF Init
<1>2. Ordered
  BY DEF Init, Ordered
<1>3. Guarded
  BY <1>1, SchemaAssumption DEF Init, Guarded, Permitted
<1>4. Together
  BY <1>1 DEF Init, Together, Selected
<1> QED
  BY <1>2, <1>3, <1>4 DEF Disciplined

LEMMA StepIsDisciplined == IndInv /\ Disciplined /\ [Next]_vars => Disciplined'
<1> SUFFICES ASSUME IndInv, Disciplined, [Next]_vars PROVE Disciplined'
  OBVIOUS
<1>1. operation' = operation /\ requester' = requester
  BY StepFacts DEF request
<1>2. Ordered'
  <2> SUFFICES ASSUME NEW p \in operation \ {Root}, phase'[p] \notin {"absent", "waiting"},
                      NEW q \in Before[p] \cap operation
               PROVE  phase'[q] = "done"
    BY <1>1 DEF Ordered
  <2>1. phase[p] # "absent"
    BY StepFacts DEF Leads
  <2>2. phase[q] = "done"
    BY <2>1, StepFacts DEF Disciplined, Ordered
  <2> QED
    BY <2>2, StepFacts DEF Leads
<1>3. Guarded'
  BY <1>1, StepFacts DEF Disciplined, Guarded, Permitted
<1>4. Together'
  <2> SUFFICES ASSUME NEW p \in operation, Kind[p] = "object",
                      NEW c \in Selected(p), NEW d \in Selected(p),
                      phase'[c] = "absent", phase'[d] # "absent"
               PROVE  FALSE
    BY <1>1 DEF Together, Selected
  <2>1. c \in operation /\ d \in operation
    BY DEF Selected
  <2>2. phase[c] = "absent"
    BY <2>1, StepFacts DEF Leads
  <2>3. phase[d] = "absent"
    BY <2>2 DEF Disciplined, Together
  <2> QED
    BY <2>3, StepFacts
<1> QED
  BY <1>2, <1>3, <1>4 DEF Disciplined

LEMMA Discipline == Spec => []Disciplined
BY InitIsDisciplined, StepIsDisciplined, Invariance, PTL DEF Spec

\* A part that is there was started by a value, at an earlier phase.
LEMMA InsideOfStarted ==
    ASSUME IndInv, NEW q \in operation, NEW e \in Below[q] \cap operation,
           phase[e] \notin {"absent", "waiting"}
    PROVE  phase[q] \notin {"absent", "waiting"}
<1>1. CASE e = q
  BY <1>1
<1>2. CASE e # q
  BY <1>2 DEF IndInv, Nested, Selects, Staged
<1> QED
  BY <1>1, <1>2

\* Two fields of a mutation never overlap, with whatever is inside of them and
\* however many goroutines that takes.
THEOREM MutationsRunInSequence == Spec => []MutationsInSequence
<1>1. ASSUME IndInv, Ordered, NEW p \in InSequence \cap operation,
             NEW q \in InSequence \cap operation, p \in Before[q],
             NEW d \in Below[p] \cap operation, NEW e \in Below[q] \cap operation,
             phase[d] \in {"running", "completing", "valued"},
             phase[e] \in {"running", "completing", "valued"}
      PROVE  FALSE
  <2>1. phase[q] \notin {"absent", "waiting"} /\ q # Root
    BY <1>1, InsideOfStarted, SequenceAssumption
  <2>2. phase[p] = "done"
    BY <1>1, <2>1 DEF Ordered
  <2> QED
    BY <1>1, <2>2 DEF IndInv, Nested, Selects, Finished
<1>2. IndInv /\ Disciplined => MutationsInSequence
  <2> SUFFICES ASSUME IndInv, Ordered, NEW p \in InSequence \cap operation,
                      NEW q \in InSequence \cap operation, p # q,
                      NEW d \in Below[p] \cap operation,
                      NEW e \in Below[q] \cap operation,
                      phase[d] \in {"running", "completing", "valued"},
                      phase[e] \in {"running", "completing", "valued"}
               PROVE  FALSE
    BY DEF MutationsInSequence, Disciplined
  <2>1. p \in Before[q] \/ q \in Before[p]
    BY SequenceAssumption
  <2> QED
    BY <1>1, <2>1
<1> QED
  BY <1>2, Invariance, Discipline, PTL

\* No resolver runs against its directive, and where the directives of the
\* schema stand before every restricted position, no requester but an
\* administrator has a resolver run, an answer or data there.
THEOREM AdministrationStaysWithAdmins ==
    ASSUME DirectivesStand
    PROVE  Spec => []AdministrationIsForAdmins
<1>1. IndInv /\ Disciplined => AdministrationIsForAdmins
  <2> SUFFICES ASSUME IndInv, Guarded
               PROVE  AdministrationIsForAdmins
    BY DEF Disciplined
  <2>1. \A p \in operation : phase[p] = "running" => Permitted(p)
    BY DEF IndInv, Staged
  <2>2. ASSUME requester # "admin", NEW p \in Restricted \cap operation
        PROVE  /\ phase[p] # "running"
               /\ returned[p] \in {"none", "error"}
               /\ value[p] # "data"
    <3>1. PICK q \in Position : Guard[q] = "admin" /\ p \in Below[q]
      BY DirectivesStand DEF DirectivesStand
    <3>2. q \in operation /\ returned[q] \in Outcomes
      BY <3>1, OperationFacts DEF IndInv, TypeOK
    <3>3. ~Permitted(q)
      BY <2>2, <3>1 DEF Permitted
    <3>4. phase[q] # "running" /\ returned[q] \in {"none", "error"}
      BY <3>2, <3>3 DEF Guarded, Outcomes, IndInv, Staged
    <3>5. CASE p = q
      <4>1. value[p] = "data" => Finished(p) /\ phase[p] # "absent"
        BY DEF IndInv, Staged, Finished
      <4>2. value[p] = "data" => returned[p] = "value"
        BY <4>1, CarriesUpSelf DEF IndInv, NullsPropagate, Intact
      <4> QED
        BY <3>4, <3>5, <4>2
    <3>6. CASE p # q
      <4>1. phase[p] = "absent"
        BY <3>1, <3>2, <3>4, <3>6 DEF IndInv, Nested, Selects
      <4>2. returned[p] = "none" /\ value[p] = "none"
        BY <4>1 DEF IndInv, Staged, Finished
      <4> QED
        BY <4>1, <4>2
    <3> QED
      BY <3>5, <3>6
  <2> QED
    BY <2>1, <2>2 DEF AdministrationIsForAdmins
<1> QED
  BY <1>1, Invariance, Discipline, PTL

-----------------------------------------------------------------------------
(* Nobody is stuck.                                                        *)

\* Of sets of positions there is one with no other inside of it.
LEMMA LeastSet ==
    ASSUME NEW S, IsFiniteSet(S), NEW F, F \subseteq SUBSET S, F # {}
    PROVE  \E x \in F : \A y \in F : y \subseteq x => y = x
<1>1. IsWellFoundedOn(StrictSubsetOrdering(S), SUBSET S)
  BY FS_StrictSubsetOrderingWellFounded, FS_FiniteSubsetsOfFinite
<1>2. PICK x \in F : \A y \in F : ~ <<y, x>> \in StrictSubsetOrdering(S)
  BY <1>1, WFMin
<1> QED
  BY <1>2 DEF StrictSubsetOrdering

\* What is inside of p, and inside of what its goroutine does before p.
Ahead(p) ==
    operation \cap (Below[p] \cup UNION {Below[q] : q \in Before[p]})

Unfinished == {p \in operation : phase[p] \notin {"absent", "done"}}

\* Waiting for what is inside, or for what stands before, is waiting for less.
LEMMA PartIsAhead ==
    ASSUME TypeOK, NEW p \in operation, NEW c \in Selected(p)
    PROVE  Ahead(c) \subseteq Ahead(p) /\ Ahead(c) # Ahead(p)
<1>1. c \in Position /\ p \in Position /\ p \in Below[p] /\ p \in operation
  BY PartFacts, OperationFacts, TreeAssumption
<1>2. c \in Children(p) /\ Below[c] \subseteq Below[p] /\ p \notin Below[c]
  BY PartFacts
<1>3. ASSUME NEW q \in Before[c]
      PROVE  Below[q] \subseteq Below[p] /\ p \notin Below[q]
  <2>1. q \in Children(p)
    BY <1>1, <1>2, OrderAssumption DEF Children
  <2> QED
    BY <1>1, <2>1, TreeAssumption
<1> QED
  BY <1>1, <1>2, <1>3 DEF Ahead

LEMMA BeforeIsAhead ==
    ASSUME TypeOK, NEW p \in operation, NEW q \in Before[p] \cap operation
    PROVE  Ahead(q) \subseteq Ahead(p) /\ Ahead(q) # Ahead(p)
<1>1. p \in Position /\ q \in Position /\ p \in Below[p] /\ p # Root /\ q # Root
  BY OperationFacts, TreeAssumption, OrderAssumption
<1>2. Parent[p] \in Position /\ p \in Children(Parent[p])
  BY <1>1, TreeAssumption DEF Children
<1>3. ASSUME NEW r \in Before[p]
      PROVE  p \notin Below[r]
  <2>1. r \in Children(Parent[p]) /\ r # p
    BY <1>1, OrderAssumption DEF Children
  <2> QED
    BY <1>1, <1>2, <2>1, TreeAssumption
<1>4. Before[q] \subseteq Before[p]
  BY <1>1, OrderAssumption
<1> QED
  BY <1>1, <1>3, <1>4 DEF Ahead

\* Until the answer is sent there is a position whose wait is over: the one
\* with least ahead of it waits for nobody.
LEMMA SomebodyCanStep ==
    ASSUME IndInv, Disciplined, phase[Root] # "done"
    PROVE  \E p \in operation : CanStep(p)
<1>1. TypeOK /\ Root \in operation /\ IsFiniteSet(operation)
  BY OperationFacts, OperationsAssumption DEF IndInv, TypeOK
<1>2. Root \in Unfinished
  BY <1>1 DEF IndInv, Staged, Unfinished
<1>3. PICK p \in Unfinished :
        \A q \in Unfinished : Ahead(q) \subseteq Ahead(p) => Ahead(q) = Ahead(p)
  <2> DEFINE F == {Ahead(q) : q \in Unfinished}
  <2>1. F # {} /\ F \subseteq SUBSET operation
    BY <1>2 DEF Ahead
  <2> HIDE DEF F
  <2>2. PICK x \in F : \A y \in F : y \subseteq x => y = x
    BY <1>1, <2>1, LeastSet
  <2> QED
    BY <2>2 DEF F
<1>4. p \in operation
  BY DEF Unfinished
<1>5. CASE phase[p] \in {"running", "valued"}
  BY <1>4, <1>5 DEF CanStep
<1>6. CASE phase[p] = "completing"
  <2> SUFFICES ASSUME NEW c \in Selected(p), phase[c] \notin {"absent", "done"}
               PROVE  FALSE
    BY <1>4, <1>6 DEF CanStep
  <2>1. c \in Unfinished
    BY DEF Unfinished, Selected
  <2> QED
    BY <1>1, <1>3, <1>4, <2>1, PartIsAhead
<1>7. CASE phase[p] = "waiting"
  <2> SUFFICES ASSUME NEW q \in Before[p] \cap operation, phase[q] # "done"
               PROVE  FALSE
    BY <1>4, <1>7 DEF CanStep, Ready
  <2>1. phase[q] # "absent"
    <3>1. p # Root /\ q # Root /\ p \in Position /\ Parent[q] = Parent[p]
          /\ Kind[Parent[p]] = "object"
      BY <1>1, <1>4, <1>7, OperationFacts, OrderAssumption DEF IndInv, Staged
    <3>2. Parent[p] \in Position /\ p \in Children(Parent[p])
      BY <3>1, TreeAssumption DEF Children
    <3>3. Parent[p] \in operation
      BY <1>1, <1>4, <3>2, OperationFacts, TreeAssumption
    <3>4. p \in Selected(Parent[p]) /\ q \in Selected(Parent[p])
      BY <1>4, <3>1 DEF Selected
    <3> QED
      BY <1>7, <3>1, <3>3, <3>4 DEF Disciplined, Together
  <2>2. q \in Unfinished
    BY <2>1 DEF Unfinished
  <2> QED
    BY <1>1, <1>3, <1>4, <2>2, BeforeIsAhead
<1> QED
  BY <1>1, <1>4, <1>5, <1>6, <1>7 DEF Unfinished, TypeOK, Phases

\* The executor has no deadlock: neither the groups that wait for the parts of
\* objects and lists nor the order of their fields lets everybody wait.
THEOREM ExecutorNeverStuck == Spec => []NobodyIsStuck
<1>1. IndInv /\ Disciplined => NobodyIsStuck
  BY SomebodyCanStep DEF NobodyIsStuck
<1> QED
  BY <1>1, Invariance, Discipline, PTL

-----------------------------------------------------------------------------
(* Execution implements Response.                                          *)

LEMMA SelectedAlike == \A p : R!Selected(p) = Selected(p)
BY DEF R!Selected, Selected

LEMMA InitImplements == Init => R!Init
<1> SUFFICES ASSUME Init PROVE R!Init
  OBVIOUS
<1>1. Root \in operation
  BY OperationsAssumption DEF Init
<1>2. Present = {Root} \cup Selected(Root)
  BY <1>1 DEF Present, Init, Selected
<1>3. Answer = "none"
  BY <1>1 DEF Answer, Init
<1> QED
  BY <1>2, <1>3, SelectedAlike DEF R!Init, Init

\* What is done is resolved with everything inside it.
LEMMA DoneIsResolved ==
    ASSUME IndInv, NEW q \in operation, Finished(q)
    PROVE  R!AllReturned(Below[q])
<1> SUFFICES ASSUME NEW d \in Below[q] \cap Present
             PROVE  returned[d] # "none"
  BY DEF R!AllReturned
<1>1. d \in operation /\ phase[d] # "absent"
  BY DEF Present
<1>2. CASE d = q
  BY <1>1, <1>2 DEF IndInv, Staged, Finished
<1>3. CASE d # q
  <2>1. phase[d] = "done"
    BY <1>1, <1>3 DEF IndInv, Nested, Selects
  <2> QED
    BY <1>1, <2>1 DEF IndInv, Staged
<1> QED
  BY <1>2, <1>3

\* Returning something is the abstract step.
LEMMA ReturnImplements ==
    ASSUME IndInv, NEW p \in operation, phase[p] \in {"waiting", "running"},
           \A q \in Before[p] \cap operation : phase[q] = "done",
           NEW outcome, NEW parts \in SUBSET operation, Return(p, outcome),
           Permitted(p) \/ outcome = "error",
           phase'[p] # "absent", p # Root,
           \A c \in operation \ {p} :
               phase'[c] # "absent" <=> phase[c] # "absent" \/ c \in parts,
           phase'[Root] = phase[Root], value'[Root] = value[Root],
           UNCHANGED request, p \notin parts
    PROVE  R!ResolveTo(p, outcome, parts)
<1>1. p \in Present /\ returned[p] = "none"
  BY Unresolved DEF Present
<1>2. \A q \in Before[p] \cap operation : R!AllReturned(Below[q])
  BY DoneIsResolved DEF Finished
<1>3. Present' = Present \cup parts
  BY DEF Present, request
<1>4. Answer' = Answer
  BY DEF Answer
<1> QED
  BY <1>1, <1>2, <1>3, <1>4
     DEF R!ResolveTo, R!Permitted, Permitted, Return, request

LEMMA PutKeeps ==
    ASSUME IndInv, NEW p \in operation, InTurn(p), NEW v, Put(p, v)
    PROVE  /\ p # Root /\ phase'[p] # "absent"
           /\ \A c \in operation \ {p} : phase'[c] = phase[c]
           /\ phase'[Root] = phase[Root] /\ value'[Root] = value[Root]
<1>1. TypeOK /\ p # Root /\ Root \in operation
  BY Unresolved, OperationFacts DEF IndInv, InTurn
<1> QED
  BY <1>1 DEF Put, TypeOK

LEMMA FailImplements ==
    ASSUME IndInv, NEW p \in operation, InTurn(p), Fail(p)
    PROVE  R!Resolve(p)
<1>1. R!ResolveTo(p, "error", {})
  BY PutKeeps, ReturnImplements DEF Fail, InTurn
<1> QED
  BY <1>1 DEF R!Resolve

LEMMA ReturnNilImplements ==
    ASSUME IndInv, NEW p \in operation, InTurn(p), Permitted(p), ReturnNil(p)
    PROVE  R!Resolve(p)
<1>1. R!ResolveTo(p, "nil", {})
  BY PutKeeps, ReturnImplements DEF ReturnNil, InTurn
<1> QED
  BY <1>1 DEF R!Resolve

LEMMA ReturnValueImplements ==
    ASSUME IndInv, NEW p \in operation, InTurn(p), Permitted(p), ReturnValue(p)
    PROVE  R!Resolve(p)
<1>1. CASE Kind[p] = "leaf"
  <2>1. R!ResolveTo(p, "value", {})
    BY <1>1, PutKeeps, ReturnImplements DEF ReturnValue, InTurn
  <2> QED
    BY <1>1, <2>1 DEF R!Resolve, R!Parts
<1>2. CASE Kind[p] # "leaf"
  <2>1. PICK parts \in Parts(p) :
          phase' = [c \in operation |->
                      IF c = p THEN "completing"
                      ELSE IF c \in parts THEN "waiting" ELSE phase[c]]
    BY <1>2 DEF ReturnValue
  <2>2. parts \in SUBSET Selected(p) /\ parts \in R!Parts(p)
    BY <1>2, SelectedAlike, SchemaAssumption, OperationFacts
       DEF Parts, R!Parts, Kinds, IndInv
  <2>3. parts \in SUBSET operation /\ Root \notin parts /\ p \notin parts
    BY <2>2, PartFacts DEF IndInv
  <2>4. p # Root /\ Root \in operation
    BY Unresolved, OperationFacts DEF InTurn, IndInv
  <2>5. R!ResolveTo(p, "value", parts)
    <3>1. Return(p, "value") /\ UNCHANGED request /\ value' = value
      BY <1>2 DEF ReturnValue
    <3>2. \A c \in operation \ {p} :
            phase'[c] # "absent" <=> phase[c] # "absent" \/ c \in parts
      BY <2>1
    <3>3. phase'[p] # "absent" /\ phase'[Root] = phase[Root]
      BY <2>1, <2>3, <2>4
    <3> QED
      BY <2>3, <2>4, <3>1, <3>2, <3>3, ReturnImplements DEF InTurn
  <2> QED
    BY <2>2, <2>5 DEF R!Resolve
<1> QED
  BY <1>1, <1>2

\* Steps inside the executor are not seen.
LEMMA InternalStepStutters ==
    ASSUME IndInv, NEW p \in operation, NEW to, NEW from,
           phase[p] = from, from # "absent", to # "absent",
           phase' = [phase EXCEPT ![p] = to],
           p = Root => to # "done" /\ from # "done",
           UNCHANGED <<request, returned>>,
           \/ value' = value
           \/ phase[Root] # "done" /\ phase'[Root] # "done"
    PROVE  UNCHANGED R!vars
<1>1. Root \in operation /\ TypeOK
  BY OperationFacts DEF IndInv
<1>2. phase'[Root] = "done" <=> phase[Root] = "done"
  BY <1>1 DEF TypeOK
<1>3. Present' = Present
  BY <1>1 DEF Present, TypeOK, request
<1>4. Answer' = Answer
  BY <1>2 DEF Answer
<1> QED
  BY <1>3, <1>4 DEF R!vars, request

LEMMA RespondImplements ==
    ASSUME IndInv, Respond
    PROVE  R!Respond
<1>1. TypeOK /\ Root \in operation /\ operation \subseteq Position
  BY OperationFacts DEF IndInv
<1>2. Finished(Root) /\ phase'[Root] = "done" /\ Present' = Present
  BY <1>1 DEF Respond, TypeOK, Finished, Present, request
<1>3. R!AllReturned(Present)
  <2>1. Present \subseteq Below[Root]
    BY <1>1, TreeAssumption DEF Present
  <2> QED
    BY <1>1, <1>2, <2>1, DoneIsResolved DEF R!AllReturned
<1>4. value[Root] = "data" <=> Intact(Root)
  BY <1>1, <1>2 DEF IndInv, NullsPropagate
<1>5. Intact(Root) <=> R!Intact(Root)
  BY DEF Intact, R!Intact, CarriesUp, Present
<1>6. value[Root] \in {"null", "data"}
  BY <1>1, <1>2 DEF IndInv, Staged, TypeOK, Values
<1>7. Answer = "none" /\ Answer' = IF R!Intact(Root) THEN "data" ELSE "null"
  BY <1>2, <1>4, <1>5, <1>6 DEF Answer, Respond
<1> QED
  BY <1>2, <1>3, <1>7 DEF R!Respond, Respond, request

LEMMA StepImplements ==
    IndInv /\ [Next]_vars => [R!Next]_(R!vars)
<1> SUFFICES ASSUME IndInv, [Next]_vars PROVE [R!Next]_(R!vars)
  OBVIOUS
<1>1. CASE Respond
  BY <1>1, RespondImplements DEF R!Next
<1>2. ASSUME NEW p \in operation, Resolve(p)
      PROVE  R!Resolve(p) \/ UNCHANGED R!vars
  <2>1. CASE CallResolver(p)
    <3>1. Root \in operation /\ p # Root
      BY <2>1, OperationFacts, Unresolved DEF CallResolver, Ready, IndInv
    <3>2. phase[p] = "waiting" /\ phase' = [phase EXCEPT ![p] = "running"]
      BY <2>1 DEF CallResolver, Ready
    <3>3. UNCHANGED <<request, returned, value>>
      BY <2>1 DEF CallResolver
    <3> QED
      BY <3>1, <3>2, <3>3, InternalStepStutters
  <2>2. CASE RefuseArguments(p)
    BY <2>2, FailImplements DEF RefuseArguments, Ready, InTurn
  <2>3. CASE RefuseRequester(p)
    BY <2>3, FailImplements DEF RefuseRequester, Ready, InTurn
  <2>4. CASE phase[p] = "running"
    <3>1. InTurn(p) /\ Permitted(p)
      BY <2>4 DEF IndInv, Staged, InTurn
    <3>2. Fail(p) \/ ReturnNil(p) \/ ReturnValue(p)
      BY <1>2, <2>4 DEF Resolve, CallResolver, RefuseArguments, RefuseRequester,
                        ResolverFails, ResolverReturns, ReadField, Ready
    <3> QED
      BY <3>1, <3>2, FailImplements, ReturnNilImplements, ReturnValueImplements
  <2>5. CASE ReadField(p)
    <3>1. Permitted(p) /\ InTurn(p)
      BY <2>5, SchemaAssumption, OperationFacts
         DEF ReadField, Permitted, Ready, InTurn, IndInv
    <3> QED
      BY <2>5, <3>1, ReturnNilImplements, ReturnValueImplements DEF ReadField
  <2> QED
    BY <1>2, <2>1, <2>2, <2>3, <2>4, <2>5
       DEF Resolve, ResolverFails, ResolverReturns
<1>3. ASSUME NEW p \in operation, Complete(p)
      PROVE  UNCHANGED R!vars
  <2>1. CASE CountField(p)
    <3>1. p # Root /\ phase[p] = "valued" /\ phase' = [phase EXCEPT ![p] = "done"]
      BY <2>1 DEF CountField
    <3>2. UNCHANGED <<request, returned, value>>
      BY <2>1 DEF CountField
    <3> QED
      BY <3>1, <3>2, InternalStepStutters
  <2>2. CASE CollectFields(p)
    <3>1. Root \in operation /\ TypeOK
      BY OperationFacts DEF IndInv
    <3>2. phase[p] = "completing" /\ phase' = [phase EXCEPT ![p] = "valued"]
      BY <2>2 DEF CollectFields, Put
    <3>3. UNCHANGED <<request, returned>>
      BY <2>2 DEF CollectFields
    <3>4. phase[Root] # "done" /\ phase'[Root] # "done"
      <4>1. p # Root => phase[Root] # "done"
        BY <3>1, <3>2, OperationFacts, TreeAssumption
           DEF IndInv, Nested, Selects, Finished
      <4> QED
        BY <3>1, <3>2, <4>1 DEF TypeOK
    <3> QED
      BY <3>2, <3>3, <3>4, InternalStepStutters
  <2> QED
    BY <1>3, <2>1, <2>2 DEF Complete
<1>4. CASE UNCHANGED vars
  BY <1>4 DEF vars, request, R!vars, Present, Answer
<1> QED
  BY <1>1, <1>2, <1>3, <1>4 DEF Next, R!Next

\* Whatever its goroutines do, the executor resolves every selected position
\* once, in turn and by whoever may, and answers what the abstract response
\* answers.
THEOREM ImplementsAbstraction == Spec => ImplementsResponse
<1>1. Spec => R!Spec
  BY InitImplements, StepImplements, Invariance, PTL DEF Spec, R!Spec
<1> QED
  BY <1>1 DEF ImplementsResponse
=============================================================================
