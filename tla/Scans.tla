-------------------------------- MODULE Scans --------------------------------
(***************************************************************************)
(* Facts about the statements that FolderTree and ContentStore model as    *)
(* scans: they find a finite set of rows and handle them one by one, in    *)
(* whatever order.                                                         *)
(***************************************************************************)
EXTENDS Integers, Sequences, FiniteSets, SequencesExt, FiniteSetTheorems, TLAPS

\* Every ordering of a finite set of rows is a sequence of rows.
LEMMA ScanType ==
  ASSUME NEW Row, NEW S \in SUBSET Row, IsFiniteSet(S), NEW scan \in SetToSeqs(S)
  PROVE  scan \in Seq(Row)
  <1>1. Cardinality(S) \in Nat
    BY FS_CardinalityType
  <1>2. scan \in [1..Cardinality(S) -> Row]
    BY DEF SetToSeqs
  <1> QED
    BY <1>1, <1>2

\* A scan visits every row of its set.
LEMMA ScanRows ==
  ASSUME NEW S, IsFiniteSet(S), NEW scan \in SetToSeqs(S)
  PROVE  ToSet(scan) = S
  <1> DEFINE D == 1..Cardinality(S)
  <1>1. Cardinality(S) \in Nat
    BY FS_CardinalityType
  <1>2. scan \in [D -> S] /\ \A i, j \in D : i # j => scan[i] # scan[j]
    BY DEF SetToSeqs
  <1>3. scan \in Injection(D, S)
    BY <1>2 DEF Injection, IsInjective
  <1>4. Cardinality(D) = Cardinality(S)
    BY <1>1, FS_Interval
  <1>5. scan \in Surjection(D, S)
    BY <1>3, <1>4, FS_Injection
  <1>6. \A x \in S : \E i \in D : scan[i] = x
    BY <1>5 DEF Surjection
  <1> QED
    BY <1>2, <1>6 DEF ToSet

\* The next row, and those that are left.
LEMMA HeadAndTail ==
  ASSUME NEW Row, NEW s \in Seq(Row), s # <<>>
  PROVE  ToSet(s) = {Head(s)} \cup ToSet(Tail(s))
  <1>1. /\ Len(s) \in Nat \ {0} /\ DOMAIN s = 1..Len(s)
        /\ DOMAIN Tail(s) = 1..(Len(s) - 1)
        /\ Head(s) = s[1] /\ \A i \in 1..(Len(s) - 1) : Tail(s)[i] = s[i + 1]
    OBVIOUS
  <1>2. ASSUME NEW i \in 1..Len(s), i # 1
        PROVE  i - 1 \in 1..(Len(s) - 1) /\ s[i] = Tail(s)[i - 1]
    BY <1>1, <1>2
  <1>3. \A i \in 1..(Len(s) - 1) : i + 1 \in 1..Len(s) /\ Tail(s)[i] = s[i + 1]
    BY <1>1
  <1>4. ASSUME NEW i \in 1..Len(s)
        PROVE  s[i] \in {Head(s)} \cup ToSet(Tail(s))
    BY <1>1, <1>2 DEF ToSet
  <1>5. {Head(s)} \cup ToSet(Tail(s)) \subseteq ToSet(s)
    BY <1>1, <1>3 DEF ToSet
  <1>6. ToSet(s) \subseteq {Head(s)} \cup ToSet(Tail(s))
    BY <1>1, <1>4 DEF ToSet
  <1> QED
    BY <1>5, <1>6

\* A scan with no row left has handled all of them.
LEMMA NoRows == ToSet(<<>>) = {}
  BY DEF ToSet

\* Of finite sets there is one with no other inside of it.
LEMMA LeastSet ==
  ASSUME NEW S, IsFiniteSet(S), NEW F, F \subseteq SUBSET S, F # {}
  PROVE  \E x \in F : \A y \in F : y \subseteq x => y = x
  <1>1. IsWellFoundedOn(StrictSubsetOrdering(S), SUBSET S)
    BY FS_StrictSubsetOrderingWellFounded, FS_FiniteSubsetsOfFinite
  <1>2. PICK x \in F : \A y \in F : ~ <<y, x>> \in StrictSubsetOrdering(S)
    BY <1>1, WFMin
  <1> QED
    BY <1>2 DEF StrictSubsetOrdering
=============================================================================
