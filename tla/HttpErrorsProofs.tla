-------------------------- MODULE HttpErrorsProofs --------------------------
(***************************************************************************)
(* What the validation pipe computes, for every tree of errors: the        *)
(* recursive path of a node, that no two nodes have the same, and that it  *)
(* spells the chain of errors that leads to the node.                      *)
(***************************************************************************)
EXTENDS HttpErrors, FiniteSetTheorems, SequenceTheorems, WellFoundedInduction, TLAPS

-----------------------------------------------------------------------------
(* Induction over a set of natural numbers: WFMin speaks of sets, not of operators. *)

LEMMA LeastElement ==
    ASSUME NEW T \in SUBSET Nat, T # {}
    PROVE  \E n \in T : \A k \in T : ~(k < n)
<1> DEFINE R == OpToRel(<, Nat)
<1>1. R = {ss \in Nat \X Nat : ss[1] < ss[2]}
  BY DEF OpToRel
<1>2. IsWellFoundedOn(R, Nat)
  BY NatLessThanWellFounded
<1> HIDE DEF R
<1>3. \E n \in T : \A k \in T : <<k, n>> \notin R
  BY <1>2, WFMin
<1>4. \A k, n \in Nat : k < n => <<k, n>> \in R
  BY <1>1
<1> QED BY <1>3, <1>4

\* A set that has a number as soon as it has all smaller ones has them all.
LEMMA SetInduction ==
    ASSUME NEW S, \A n \in Nat : (\A k \in Nat : k < n => k \in S) => n \in S
    PROVE  Nat \subseteq S
<1> SUFFICES ASSUME Nat \ S # {} PROVE FALSE
  OBVIOUS
<1>1. PICK n \in Nat \ S : \A k \in Nat \ S : ~(k < n)
  BY LeastElement
<1> QED BY <1>1

-----------------------------------------------------------------------------
(* Trees of errors *)

\* What the lemmas need of a list of errors: parents come first and siblings differ.
Tree(e) ==
    /\ Len(e) \in Nat /\ DOMAIN e = 1 .. Len(e)
    /\ \A i \in DOMAIN e :
          /\ e[i].property \in Properties /\ e[i].constraints \in BOOLEAN
          /\ e[i].parent \in Nat /\ e[i].parent < i
          /\ \A k \in 1 .. i - 1 : e[k].parent = e[i].parent => e[k].property # e[i].property

LEMMA ErrorsAreTrees ==
    ASSUME MaxNodes \in Nat, NEW e \in ValidationErrors
    PROVE  Tree(e) /\ Len(e) \in 1 .. MaxNodes
<1> DEFINE Node(n) == [property : Properties, constraints : BOOLEAN, parent : 0 .. n - 1]
<1>1. PICK n \in 1 .. MaxNodes :
         /\ e \in [1 .. n -> Node(n)]
         /\ \A i \in 1 .. n :
               /\ e[i].parent < i
               /\ \A k \in 1 .. i - 1 : e[k].parent = e[i].parent => e[k].property # e[i].property
  BY SMTT(30) DEF ValidationErrors
<1>2. n \in Nat /\ DOMAIN e = 1 .. n /\ Len(e) = n
  <2> HIDE DEF Node
  <2> QED BY <1>1
<1>3. ASSUME NEW i \in 1 .. n
      PROVE  e[i].property \in Properties /\ e[i].constraints \in BOOLEAN /\ e[i].parent \in Nat
  <2>1. e[i] \in Node(n)
    <3> HIDE DEF Node
    <3> QED BY <1>1
  <2> QED BY <1>2, <2>1
<1> HIDE DEF Node
<1> QED BY <1>1, <1>2, <1>3 DEF Tree

-----------------------------------------------------------------------------
(* propertyPath is defined: the recursion follows parents, which come first. *)

\* One step of the recursion.
Extend(e, path, i) ==
    IF e[i].parent = 0 THEN <<e[i].property>> ELSE Append(path[e[i].parent], e[i].property)

LEMMA PathsExist ==
    ASSUME NEW e, Tree(e)
    PROVE  \E path : path = [i \in DOMAIN e |-> Extend(e, path, i)]
<1> DEFINE Paths(n, path) == path = [i \in 1 .. n |-> Extend(e, path, i)]
           S == {n \in Nat : n <= Len(e) => \E path : Paths(n, path)}
<1>1. ASSUME NEW n \in Nat, \A k \in Nat : k < n => k \in S PROVE n \in S
  <2> SUFFICES ASSUME n <= Len(e) PROVE \E path : Paths(n, path)
    OBVIOUS
  <2>1. CASE n = 0
    <3> DEFINE path == [i \in 1 .. 0 |-> 0]
    <3>1. path = [i \in 1 .. 0 |-> Extend(e, path, i)]
      OBVIOUS
    <3> QED BY <2>1, <3>1
  <2>2. CASE n # 0
    <3>1. PICK path : path = [i \in 1 .. n - 1 |-> Extend(e, path, i)]
      <4>1. n - 1 \in Nat /\ n - 1 < n /\ n - 1 <= Len(e)
        BY <2>2 DEF Tree
      <4> QED BY <1>1, <4>1
    <3> DEFINE longer == [i \in 1 .. n |-> IF i = n THEN Extend(e, path, n) ELSE path[i]]
    <3>2. ASSUME NEW i \in 1 .. n PROVE longer[i] = Extend(e, longer, i)
      <4>1. e[i].parent \in Nat /\ e[i].parent < i
        BY DEF Tree
      <4>2. e[i].parent # 0 => longer[e[i].parent] = path[e[i].parent]
        BY <4>1
      <4>3. longer[i] = Extend(e, path, i)
        BY <3>1
      <4> HIDE DEF longer
      <4> QED BY <4>2, <4>3 DEF Extend
    <3>3. longer = [i \in 1 .. n |-> longer[i]]
      OBVIOUS
    <3> HIDE DEF longer
    <3>4. longer = [i \in 1 .. n |-> Extend(e, longer, i)]
      BY <3>2, <3>3
    <3> QED BY <3>4
  <2> QED BY <2>1, <2>2
<1>2. Nat \subseteq S
  <2> HIDE DEF S
  <2> QED BY <1>1, SetInduction
<1> QED BY <1>2 DEF Tree

\* The recursion equation of propertyPath.
LEMMA PathEquation ==
    ASSUME NEW e, Tree(e)
    PROVE  propertyPath(e) = [i \in DOMAIN e |-> Extend(e, propertyPath(e), i)]
<1> DEFINE Solves(path) == path = [i \in DOMAIN e |-> Extend(e, path, i)]
<1>1. propertyPath(e) = CHOOSE path : Solves(path)
  BY DEF propertyPath, Extend
<1>2. \E path : Solves(path)
  BY PathsExist
<1> HIDE DEF Solves
<1>3. Solves(propertyPath(e))
  BY <1>1, <1>2
<1> QED BY <1>3 DEF Solves

LEMMA PathOf ==
    ASSUME NEW e, Tree(e), NEW i \in DOMAIN e
    PROVE  /\ e[i].parent = 0 => propertyPath(e)[i] = <<e[i].property>>
           /\ e[i].parent # 0 =>
                 /\ e[i].parent \in DOMAIN e
                 /\ propertyPath(e)[i] = Append(propertyPath(e)[e[i].parent], e[i].property)
<1>1. propertyPath(e)[i] = Extend(e, propertyPath(e), i)
  BY PathEquation
<1>2. e[i].parent # 0 => e[i].parent \in DOMAIN e
  BY DEF Tree
<1> QED BY <1>1, <1>2 DEF Extend

LEMMA PathType ==
    ASSUME NEW e, Tree(e), NEW j \in DOMAIN e
    PROVE  propertyPath(e)[j] \in Seq(Properties) /\ propertyPath(e)[j] # <<>>
<1> DEFINE S == {i \in Nat : i \in DOMAIN e =>
                    propertyPath(e)[i] \in Seq(Properties) /\ propertyPath(e)[i] # <<>>}
<1>1. ASSUME NEW i \in Nat, \A k \in Nat : k < i => k \in S PROVE i \in S
  <2> SUFFICES ASSUME i \in DOMAIN e
               PROVE  propertyPath(e)[i] \in Seq(Properties) /\ propertyPath(e)[i] # <<>>
    OBVIOUS
  <2>1. e[i].property \in Properties /\ e[i].parent \in Nat /\ e[i].parent < i
    BY DEF Tree
  <2>2. CASE e[i].parent = 0
    <3>1. propertyPath(e)[i] = <<e[i].property>>
      BY <2>2, PathOf
    <3>2. <<e[i].property>> \in Seq(Properties) /\ <<e[i].property>> # <<>>
      BY <2>1
    <3> QED BY <3>1, <3>2
  <2>3. CASE e[i].parent # 0
    <3>1. e[i].parent \in DOMAIN e /\ propertyPath(e)[i] = Append(propertyPath(e)[e[i].parent], e[i].property)
      BY <2>3, PathOf
    <3>2. propertyPath(e)[e[i].parent] \in Seq(Properties)
      BY <1>1, <2>1, <3>1
    <3> QED BY <2>1, <3>1, <3>2, AppendProperties
  <2> QED BY <2>2, <2>3
<1>2. Nat \subseteq S
  <2> HIDE DEF S
  <2> QED BY <1>1, SetInduction
<1>3. j \in Nat
  BY DEF Tree
<1> QED BY <1>2, <1>3

LEMMA Unappended ==
    ASSUME NEW s \in Seq(Properties), NEW t \in Seq(Properties), NEW f \in Properties, NEW g \in Properties,
           Append(s, f) = Append(t, g)
    PROVE  s = t /\ f = g
BY AppendInjective

\* No two errors have the same path: one key of the details never stands for two failures.
LEMMA PathsDiffer ==
    ASSUME NEW e, Tree(e), NEW x \in DOMAIN e, NEW y \in DOMAIN e,
           propertyPath(e)[x] = propertyPath(e)[y]
    PROVE  x = y
<1> DEFINE path == propertyPath(e)
           S == {i \in Nat : i \in DOMAIN e => \A j \in DOMAIN e : path[i] = path[j] => i = j}
<1> HIDE DEF path
<1>0. \A i \in DOMAIN e : path[i] \in Seq(Properties) /\ path[i] # <<>>
  BY PathType DEF path
<1>1. \A i \in DOMAIN e :
         /\ e[i].parent = 0 => path[i] = <<e[i].property>>
         /\ e[i].parent # 0 =>
               e[i].parent \in DOMAIN e /\ path[i] = Append(path[e[i].parent], e[i].property)
  BY PathOf DEF path
<1>2. \A i \in DOMAIN e : i \in Nat /\ e[i].property \in Properties /\ e[i].parent \in Nat /\ e[i].parent < i
  BY DEF Tree
<1>3. ASSUME NEW i \in DOMAIN e, NEW j \in DOMAIN e,
             e[i].parent = e[j].parent, e[i].property = e[j].property
      PROVE  i = j
  <2>1. \A k, l \in DOMAIN e : k < l /\ e[k].parent = e[l].parent => e[k].property # e[l].property
    BY <1>2 DEF Tree
  <2>2. ~(i < j) /\ ~(j < i)
    BY <1>3, <2>1
  <2> QED BY <1>2, <2>2
<1>4. ASSUME NEW i \in DOMAIN e, NEW j \in DOMAIN e, e[i].parent = 0, e[j].parent # 0
      PROVE  path[i] # path[j]
  <2>1. Len(path[i]) = 1
    <3>1. path[i] = <<e[i].property>>
      BY <1>1, <1>4
    <3> QED BY <3>1
  <2>2. e[j].parent \in DOMAIN e /\ path[j] = Append(path[e[j].parent], e[j].property)
    BY <1>1, <1>4
  <2>3. path[e[j].parent] \in Seq(Properties) /\ path[e[j].parent] # <<>>
    BY <1>0, <2>2
  <2>4. Len(path[j]) = Len(path[e[j].parent]) + 1 /\ Len(path[e[j].parent]) \in Nat \ {0}
    BY <1>2, <2>2, <2>3, AppendProperties, LenProperties, EmptySeq
  <2>5. Len(path[j]) # 1
    BY <2>4
  <2> QED BY <2>1, <2>5
<1>5. ASSUME NEW i \in Nat, \A k \in Nat : k < i => k \in S PROVE i \in S
  <2> SUFFICES ASSUME i \in DOMAIN e, NEW j \in DOMAIN e, path[i] = path[j] PROVE i = j
    OBVIOUS
  <2>1. CASE e[i].parent = 0
    <3>1. e[j].parent = 0
      BY <1>4, <2>1
    <3>2. <<e[i].property>> = <<e[j].property>>
      BY <1>1, <2>1, <3>1
    <3> QED BY <1>3, <2>1, <3>1, <3>2
  <2>2. CASE e[i].parent # 0
    <3>1. e[j].parent # 0
      BY <1>4, <2>2
    <3> DEFINE p == e[i].parent
               q == e[j].parent
    <3>2. /\ p \in DOMAIN e /\ path[i] = Append(path[p], e[i].property)
          /\ q \in DOMAIN e /\ path[j] = Append(path[q], e[j].property)
      BY <1>1, <2>2, <3>1
    <3>3. path[p] = path[q] /\ e[i].property = e[j].property
      <4>1. /\ path[p] \in Seq(Properties) /\ path[q] \in Seq(Properties)
            /\ e[i].property \in Properties /\ e[j].property \in Properties
        BY <1>0, <1>2, <3>2
      <4>2. Append(path[p], e[i].property) = Append(path[q], e[j].property)
        BY <3>2
      <4> DEFINE s == path[p]
                 t == path[q]
                 f == e[i].property
                 g == e[j].property
      <4>3. /\ s \in Seq(Properties) /\ t \in Seq(Properties) /\ f \in Properties /\ g \in Properties
            /\ Append(s, f) = Append(t, g)
        BY <4>1, <4>2
      <4> HIDE DEF s, t, f, g
      <4>4. s = t /\ f = g
        BY <4>3, Unappended
      <4> QED BY <4>4 DEF s, t, f, g
    <3>4. p = q
      BY <1>2, <1>5, <3>2, <3>3
    <3> QED BY <1>3, <3>3, <3>4
  <2> QED BY <2>1, <2>2
<1>6. Nat \subseteq S
  <2> HIDE DEF S
  <2> QED BY <1>5, SetInduction
<1> QED BY <1>2, <1>6 DEF path

-----------------------------------------------------------------------------
(* The paths are the names of the chains of errors. *)

\* A chain of n errors from the list down, each the parent of the next.
IsChain(e, chain, n) ==
    /\ chain \in [1 .. n -> DOMAIN e]
    /\ e[chain[1]].parent = 0
    /\ \A i \in 1 .. n - 1 : e[chain[i + 1]].parent = chain[i]

\* A chain spells the path of its last error.
LEMMA ChainNames ==
    ASSUME NEW e, Tree(e), NEW n \in Nat \ {0}, NEW chain, IsChain(e, chain, n)
    PROVE  [k \in 1 .. n |-> e[chain[k]].property] = propertyPath(e)[chain[n]]
<1> DEFINE path == propertyPath(e)
           Spells(m) == [k \in 1 .. m |-> e[chain[k]].property] = path[chain[m]]
           S == {m \in Nat : m \in 1 .. n => Spells(m)}
<1>1. ASSUME NEW m \in Nat, \A k \in Nat : k < m => k \in S PROVE m \in S
  <2> SUFFICES ASSUME m \in 1 .. n PROVE Spells(m)
    OBVIOUS
  <2>1. chain[m] \in DOMAIN e /\ e[chain[m]].property \in Properties
    BY DEF IsChain, Tree
  <2>2. CASE m = 1
    <3>1. path[chain[1]] = <<e[chain[1]].property>>
      BY <2>1, <2>2, PathOf DEF IsChain
    <3>2. [k \in 1 .. 1 |-> e[chain[k]].property] = <<e[chain[1]].property>>
      OBVIOUS
    <3> QED BY <2>2, <3>1, <3>2
  <2>3. CASE m # 1
    <3> DEFINE p == m - 1
    <3>1. p \in Nat /\ p < m /\ p \in 1 .. n /\ p \in 1 .. n - 1 /\ p + 1 = m
      BY <2>3
    <3>2. e[chain[m]].parent = chain[p] /\ chain[p] \in DOMAIN e
      BY <3>1 DEF IsChain
    <3>3. chain[p] # 0
      BY <3>2 DEF Tree
    <3>4. path[chain[m]] = Append(path[chain[p]], e[chain[m]].property)
      BY <2>1, <3>2, <3>3, PathOf
    <3>5. Spells(p)
      BY <1>1, <3>1
    <3> DEFINE names == [k \in 1 .. p |-> e[chain[k]].property]
    <3>6. names \in Seq(Properties) /\ Len(names) = p
      <4>1. \A k \in 1 .. p : e[chain[k]].property \in Properties
        BY <3>1 DEF IsChain, Tree
      <4> QED BY <3>1, <4>1
    <3>7. [k \in 1 .. m |-> e[chain[k]].property] = Append(names, e[chain[m]].property)
      BY <2>1, <3>1, <3>6
    <3> QED BY <3>4, <3>5, <3>7
  <2> QED BY <2>2, <2>3
<1>2. Nat \subseteq S
  <2> HIDE DEF S
  <2> QED BY <1>1, SetInduction
<1>3. n \in S
  <2> HIDE DEF S
  <2> QED BY <1>2
<1> QED BY <1>3

\* Every error is at the end of a chain that is no longer than the list.
LEMMA ChainTo ==
    ASSUME NEW e, Tree(e), NEW j \in DOMAIN e
    PROVE  \E n \in 1 .. j : \E chain : IsChain(e, chain, n) /\ chain[n] = j
<1> DEFINE Reached(i) == \E n \in 1 .. i : \E chain : IsChain(e, chain, n) /\ chain[n] = i
           S == {i \in Nat : i \in DOMAIN e => Reached(i)}
<1>1. ASSUME NEW i \in Nat, \A k \in Nat : k < i => k \in S PROVE i \in S
  <2> SUFFICES ASSUME i \in DOMAIN e PROVE Reached(i)
    OBVIOUS
  <2>1. i \in 1 .. Len(e) /\ Len(e) \in Nat /\ e[i].parent \in Nat /\ e[i].parent < i
    BY DEF Tree
  <2>2. CASE e[i].parent = 0
    <3> DEFINE chain == [k \in 1 .. 1 |-> i]
    <3>1. IsChain(e, chain, 1) /\ chain[1] = i
      BY <2>2 DEF IsChain
    <3>2. 1 \in 1 .. i
      BY <2>1
    <3> HIDE DEF chain
    <3> QED BY <3>1, <3>2
  <2>3. CASE e[i].parent # 0
    <3> DEFINE p == e[i].parent
    <3>1. p \in Nat /\ p < i /\ p \in DOMAIN e
      BY <2>1, <2>3 DEF Tree
    <3>2. PICK n \in 1 .. p : \E chain : IsChain(e, chain, n) /\ chain[n] = p
      BY <1>1, <3>1
    <3>3. PICK chain : IsChain(e, chain, n) /\ chain[n] = p
      BY <3>2
    <3> DEFINE longer == [k \in 1 .. n + 1 |-> IF k = n + 1 THEN i ELSE chain[k]]
    <3>4. n \in Nat /\ n >= 1 /\ n + 1 \in 1 .. i
      BY <3>1, <3>3
    <3>5. \A k \in 1 .. n : longer[k] = chain[k] /\ chain[k] \in DOMAIN e
      BY <3>3, <3>4 DEF IsChain
    <3>6. longer[n + 1] = i
      BY <3>4
    <3>7. longer \in [1 .. n + 1 -> DOMAIN e]
      <4>1. \A k \in 1 .. n + 1 : k # n + 1 => k \in 1 .. n
        BY <3>4
      <4>2. \A k \in 1 .. n + 1 : (IF k = n + 1 THEN i ELSE chain[k]) \in DOMAIN e
        BY <3>5, <4>1
      <4> QED BY <4>2
    <3> HIDE DEF longer, p
    <3>8. e[longer[1]].parent = 0
      BY <3>3, <3>4, <3>5 DEF IsChain
    <3>9. ASSUME NEW k \in 1 .. n PROVE e[longer[k + 1]].parent = longer[k]
      <4>1. CASE k = n
        BY <3>3, <3>4, <3>5, <3>6, <4>1 DEF p
      <4>2. CASE k # n
        <5>1. k \in 1 .. n - 1 /\ k + 1 \in 1 .. n
          BY <3>4, <4>2
        <5> QED BY <3>3, <3>5, <5>1 DEF IsChain
      <4> QED BY <4>1, <4>2
    <3>10. IsChain(e, longer, n + 1)
      <4>1. (n + 1) - 1 = n
        BY <3>4
      <4> QED BY <3>7, <3>8, <3>9, <4>1 DEF IsChain
    <3> QED BY <3>4, <3>6, <3>10
  <2> QED BY <2>2, <2>3
<1>2. Nat \subseteq S
  <2> HIDE DEF S
  <2> QED BY <1>1, SetInduction
<1>3. j \in Nat /\ j \in S
  <2>1. j \in Nat
    BY DEF Tree
  <2> HIDE DEF S
  <2> QED BY <1>2, <2>1
<1> QED BY <1>3

\* The details have one key for each error with constraints.
LEMMA DetailsCounted ==
    ASSUME NEW e, Tree(e)
    PROVE  Cardinality(processValidationErrors(e)) = Cardinality({i \in DOMAIN e : e[i].constraints})
<1> DEFINE failed == {i \in DOMAIN e : e[i].constraints}
           path == propertyPath(e)
           key == [i \in failed |-> path[i]]
<1>1. IsFiniteSet(failed)
  <2>1. DOMAIN e = 1 .. Len(e) /\ Len(e) \in Nat
    BY DEF Tree
  <2>2. IsFiniteSet(1 .. Len(e))
    BY <2>1, FS_Interval
  <2> QED BY <2>1, <2>2, FS_Subset
<1>2. processValidationErrors(e) = {path[i] : i \in failed}
  BY DEF processValidationErrors
<1>3. \A i, j \in failed : path[i] = path[j] => i = j
  BY PathsDiffer
<1> HIDE DEF path, failed
<1>4. key \in Bijection(failed, processValidationErrors(e))
  BY <1>2, <1>3 DEF Bijection, Injection, Surjection, IsInjective
<1>5. ExistsBijection(failed, processValidationErrors(e))
  BY <1>4 DEF ExistsBijection
<1>6. Cardinality(processValidationErrors(e)) = Cardinality(failed)
  BY <1>1, <1>5, FS_Bijection
<1> QED BY <1>6 DEF failed
=============================================================================
