-------------------------------- MODULE Sums --------------------------------
(***************************************************************************)
(* Facts about SumFunction, the sum of the values of a function with a     *)
(* finite domain, for functions to the natural numbers: amounts of money,  *)
(* minutes and days.  The operator is defined by recursion over the        *)
(* subsets of the domain; the proofs look at a smallest subset for which a *)
(* fact would fail.                                                        *)
(***************************************************************************)
EXTENDS Integers, FiniteSets, Functions, FiniteSetTheorems, WellFoundedInduction, TLAPS

(* Of subsets of a finite set, one is minimal. *)
LEMMA MinimalSubset ==
  ASSUME NEW S, IsFiniteSet(S), NEW T \in SUBSET (SUBSET S), T # {}
  PROVE  \E s \in T : \A t \in T : t \subseteq s => t = s
<1>1. T \subseteq FiniteSubsetsOf(S)
  BY FS_Subset DEF FiniteSubsetsOf
<1>2. PICK s \in T : \A t \in T : ~ (<<t, s>> \in StrictSubsetOrdering(S))
  BY <1>1, FS_StrictSubsetOrderingWellFounded, WFMin
<1>3. \A t \in T : t \subseteq s /\ t # s => <<t, s>> \in StrictSubsetOrdering(S)
  BY DEF StrictSubsetOrdering
<1>4. \A t \in T : t \subseteq s => t = s
  BY <1>2, <1>3
<1> QED BY <1>4

(***************************************************************************)
(* The recursion defines a function.                                       *)
(***************************************************************************)
Pick(s) == CHOOSE x \in s : TRUE

(* g has the sums of f over the members of D. *)
IsTable(g, f, D) ==
  g = [s \in D |-> IF s = {} THEN 0 ELSE f[Pick(s)] + g[s \ {Pick(s)}]]

SumsOver(g, f, S) == IsTable(g, f, SUBSET S)

(* The subsets of S of at most n elements. *)
UpTo(S, n) == {s \in SUBSET S : Cardinality(s) <= n}

LEMMA TableGrows ==
  ASSUME NEW f, NEW S, IsFiniteSet(S), NEW n \in Nat, NEW g, IsTable(g, f, UpTo(S, n))
  PROVE  \E h : IsTable(h, f, UpTo(S, n + 1))
<1> DEFINE h == [s \in UpTo(S, n + 1) |-> IF s = {} THEN 0 ELSE f[Pick(s)] + g[s \ {Pick(s)}]]
<1>1. ASSUME NEW s \in UpTo(S, n + 1), s # {}
      PROVE  s \ {Pick(s)} \in UpTo(S, n)
  <2>1. Pick(s) \in s
    BY <1>1 DEF Pick
  <2>2. IsFiniteSet(s) /\ Cardinality(s) \in Nat /\ Cardinality(s) <= n + 1
    BY FS_Subset, FS_CardinalityType DEF UpTo
  <2>3. Cardinality(s \ {Pick(s)}) = Cardinality(s) - 1
    BY <2>1, <2>2, FS_RemoveElement
  <2> QED BY <2>2, <2>3 DEF UpTo
<1>2. ASSUME NEW s \in UpTo(S, n)
      PROVE  s \in UpTo(S, n + 1) /\ h[s] = g[s]
  <2>1. Cardinality(s) \in Nat
    BY FS_Subset, FS_CardinalityType DEF UpTo
  <2>2. s \in UpTo(S, n + 1)
    BY <2>1 DEF UpTo
  <2> QED BY <2>2 DEF IsTable
<1>3. h = [s \in UpTo(S, n + 1) |-> IF s = {} THEN 0 ELSE f[Pick(s)] + h[s \ {Pick(s)}]]
  BY <1>1, <1>2
<1> QED BY <1>3 DEF IsTable

LEMMA TableExists ==
  ASSUME NEW f, NEW S, IsFiniteSet(S)
  PROVE  \E g : IsTable(g, f, SUBSET S)
<1> DEFINE Missing == {n \in Nat : ~ \E g : IsTable(g, f, UpTo(S, n))}
<1>1. 0 \notin Missing
  <2>1. UpTo(S, 0) = {{}}
    <3>1. \A s \in SUBSET S : IsFiniteSet(s) /\ Cardinality(s) \in Nat
      BY FS_Subset, FS_CardinalityType
    <3>2. \A s \in SUBSET S : Cardinality(s) <= 0 <=> s = {}
      BY <3>1, FS_EmptySet
    <3> QED BY <3>2 DEF UpTo
  <2>2. IsTable([s \in {{}} |-> 0], f, {{}})
    BY DEF IsTable
  <2> QED BY <2>1, <2>2
<1>2. Missing = {}
  <2> SUFFICES ASSUME Missing # {} PROVE FALSE
    OBVIOUS
  <2>1. PICK n \in Missing : \A m \in Missing : ~ (<<m, n>> \in OpToRel(<, Nat))
    BY NatLessThanWellFounded, WFMin
  <2>2. n \in Nat /\ n # 0
    BY <1>1
  <2>3. n - 1 \in Nat /\ <<n - 1, n>> \in OpToRel(<, Nat)
    BY <2>2 DEF OpToRel
  <2>4. n - 1 \notin Missing
    BY <2>1, <2>3
  <2>5. \E g : IsTable(g, f, UpTo(S, (n - 1) + 1))
    BY <2>3, <2>4, TableGrows
  <2>6. (n - 1) + 1 = n
    BY <2>2
  <2>7. n \notin Missing
    BY <2>5, <2>6
  <2> QED BY <2>7
<1>3. Cardinality(S) \in Nat
  BY FS_CardinalityType
<1>4. SUBSET S = UpTo(S, Cardinality(S))
  BY FS_Subset DEF UpTo
<1>5. \E g : IsTable(g, f, UpTo(S, Cardinality(S)))
  BY <1>2, <1>3
<1> QED BY <1>4, <1>5

LEMMA TableUnique ==
  ASSUME NEW f, NEW S, IsFiniteSet(S), NEW T \in SUBSET S,
         NEW g, SumsOver(g, f, S), NEW h, SumsOver(h, f, T)
  PROVE  g[T] = h[T]
<1> USE DEF SumsOver
<1> DEFINE Apart == {s \in SUBSET T : g[s] # h[s]}
<1>1. ASSUME NEW s \in SUBSET T, s \ {Pick(s)} \notin Apart
      PROVE  s \notin Apart
  BY <1>1 DEF IsTable
<1>2. Apart = {}
  <2> SUFFICES ASSUME Apart # {} PROVE FALSE
    OBVIOUS
  <2>1. IsFiniteSet(T)
    BY FS_Subset
  <2>2. PICK s \in Apart : \A t \in Apart : t \subseteq s => t = s
    <3>1. Apart \in SUBSET (SUBSET T)
      OBVIOUS
    <3> HIDE DEF Apart
    <3> QED BY <2>1, <3>1, MinimalSubset
  <2>3. s # {}
    BY <2>2 DEF IsTable
  <2>4. s \ {Pick(s)} # s
    BY <2>3 DEF Pick
  <2>5. s \in SUBSET T /\ s \ {Pick(s)} \subseteq s
    OBVIOUS
  <2>6. s \ {Pick(s)} \notin Apart
    BY <2>2, <2>4, <2>5
  <2>7. s \notin Apart
    BY <1>1, <2>5, <2>6
  <2> QED BY <2>7
<1> QED BY <1>2

LEMMA SumIsTable ==
  ASSUME NEW f, NEW S, IsFiniteSet(S)
  PROVE  \E g : SumsOver(g, f, S) /\ SumFunctionOnSet(f, S) = g[S]
<1> DEFINE h == CHOOSE g :
      g = [s \in SUBSET S |-> IF s = {} THEN 0 ELSE f[Pick(s)] + g[s \ {Pick(s)}]]
<1>1. IsTable(h, f, SUBSET S)
  <2>1. \E g : IsTable(g, f, SUBSET S)
    BY TableExists
  <2> QED BY <2>1 DEF IsTable
<1>2. SumFunctionOnSet(f, S) = h[S]
  BY DEF SumFunctionOnSet, FoldFunctionOnSet, MapThenFoldSet, Pick
<1> QED BY <1>1, <1>2 DEF SumsOver

(* The equation of the recursion. *)
LEMMA SumUnfolds ==
  ASSUME NEW f, NEW S, IsFiniteSet(S)
  PROVE  SumFunctionOnSet(f, S) =
           IF S = {} THEN 0 ELSE f[Pick(S)] + SumFunctionOnSet(f, S \ {Pick(S)})
<1>1. PICK g : SumsOver(g, f, S) /\ SumFunctionOnSet(f, S) = g[S]
  BY SumIsTable
<1>2. PICK h : /\ SumsOver(h, f, S \ {Pick(S)})
               /\ SumFunctionOnSet(f, S \ {Pick(S)}) = h[S \ {Pick(S)}]
  BY SumIsTable, FS_RemoveElement
<1>3. ASSUME NEW T, T = S \ {Pick(S)}
      PROVE  g[T] = h[T]
  <2>1. T \in SUBSET S
    BY <1>3
  <2>2. SumsOver(g, f, S) /\ SumsOver(h, f, T)
    BY <1>1, <1>2, <1>3
  <2> QED BY <2>1, <2>2, TableUnique
<1>4. g[S] = IF S = {} THEN 0 ELSE f[Pick(S)] + g[S \ {Pick(S)}]
  BY <1>1 DEF SumsOver, IsTable
<1> QED BY <1>1, <1>2, <1>3, <1>4

(***************************************************************************)
(* Sums over one set.                                                      *)
(***************************************************************************)
LEMMA SumOfNone ==
  ASSUME NEW f
  PROVE  SumFunctionOnSet(f, {}) = 0
BY SumUnfolds, FS_EmptySet

(* A sum of natural numbers is one, and depends on the values over the set only. *)
LEMMA SumOfNats ==
  ASSUME NEW S, IsFiniteSet(S), NEW f, NEW g,
         \A x \in S : f[x] \in Nat /\ g[x] = f[x]
  PROVE  SumFunctionOnSet(f, S) \in Nat /\ SumFunctionOnSet(g, S) = SumFunctionOnSet(f, S)
<1> DEFINE Good(s) == /\ SumFunctionOnSet(f, s) \in Nat
                      /\ SumFunctionOnSet(g, s) = SumFunctionOnSet(f, s)
           Bad == {s \in SUBSET S : ~ Good(s)}
<1>1. Bad = {}
  <2> SUFFICES ASSUME Bad # {} PROVE FALSE
    OBVIOUS
  <2>1. PICK s \in Bad : \A t \in Bad : t \subseteq s => t = s
    <3>1. Bad \in SUBSET (SUBSET S)
      OBVIOUS
    <3> HIDE DEF Bad
    <3> QED BY <3>1, MinimalSubset
  <2>2. IsFiniteSet(s)
    BY FS_Subset
  <2>3. /\ SumFunctionOnSet(f, s) = IF s = {} THEN 0 ELSE f[Pick(s)] + SumFunctionOnSet(f, s \ {Pick(s)})
        /\ SumFunctionOnSet(g, s) = IF s = {} THEN 0 ELSE g[Pick(s)] + SumFunctionOnSet(g, s \ {Pick(s)})
    BY <2>2, SumUnfolds
  <2>4. CASE s = {}
    BY <2>3, <2>4
  <2>5. CASE s # {}
    <3>1. Pick(s) \in s /\ s \ {Pick(s)} # s /\ s \ {Pick(s)} \in SUBSET S
      BY <2>5 DEF Pick
    <3>2. Good(s \ {Pick(s)})
      BY <2>1, <3>1
    <3>3. f[Pick(s)] \in Nat /\ g[Pick(s)] = f[Pick(s)]
      BY <3>1
    <3> QED BY <2>3, <2>5, <3>2, <3>3
  <2> QED BY <2>4, <2>5
<1> QED BY <1>1

(* Any element may be added last. *)
LEMMA SumTakesAny ==
  ASSUME NEW S, IsFiniteSet(S), NEW f, \A y \in S : f[y] \in Nat, NEW x \in S
  PROVE  SumFunctionOnSet(f, S) = f[x] + SumFunctionOnSet(f, S \ {x})
<1> DEFINE Bad == {s \in SUBSET S :
               ~ \A y \in s : SumFunctionOnSet(f, s) = f[y] + SumFunctionOnSet(f, s \ {y})}
<1>1. Bad = {}
  <2> SUFFICES ASSUME Bad # {} PROVE FALSE
    OBVIOUS
  <2>1. PICK s \in Bad : \A t \in Bad : t \subseteq s => t = s
    <3>1. Bad \in SUBSET (SUBSET S)
      OBVIOUS
    <3> HIDE DEF Bad
    <3> QED BY <3>1, MinimalSubset
  <2>2. PICK y \in s : SumFunctionOnSet(f, s) # f[y] + SumFunctionOnSet(f, s \ {y})
    OBVIOUS
  <2>3. Pick(s) \in s
    BY DEF Pick
  <2> DEFINE p == Pick(s)
  <2>4. IsFiniteSet(s) /\ IsFiniteSet(s \ {y}) /\ IsFiniteSet(s \ {p}) /\ IsFiniteSet((s \ {p}) \ {y})
    BY FS_Subset
  <2>5. SumFunctionOnSet(f, s) = f[p] + SumFunctionOnSet(f, s \ {p})
    BY <2>3, <2>4, SumUnfolds
  <2>6. y # p
    BY <2>2, <2>5
  <2>7. s \ {p} \notin Bad
    BY <2>1, <2>3
  <2>8. SumFunctionOnSet(f, s \ {p}) = f[y] + SumFunctionOnSet(f, (s \ {p}) \ {y})
    BY <2>6, <2>7
  <2>9. s \ {y} \notin Bad
    BY <2>1
  <2>10. SumFunctionOnSet(f, s \ {y}) = f[p] + SumFunctionOnSet(f, (s \ {y}) \ {p})
    BY <2>3, <2>6, <2>9
  <2>11. (s \ {y}) \ {p} = (s \ {p}) \ {y}
    OBVIOUS
  <2>12. f[y] \in Nat /\ f[p] \in Nat
    BY <2>3
  <2>13. SumFunctionOnSet(f, (s \ {p}) \ {y}) \in Nat
    <3>1. \A z \in (s \ {p}) \ {y} : f[z] \in Nat /\ f[z] = f[z]
      OBVIOUS
    <3> HIDE DEF p
    <3> QED BY <2>4, <3>1, SumOfNats
  <2>14. PICK rest \in Nat : rest = SumFunctionOnSet(f, (s \ {p}) \ {y})
    BY <2>13
  <2>15. SumFunctionOnSet(f, s \ {p}) = f[y] + rest
    BY <2>8, <2>14
  <2>16. SumFunctionOnSet(f, s \ {y}) = f[p] + rest
    BY <2>10, <2>11, <2>14
  <2>17. f[p] + (f[y] + rest) = f[y] + (f[p] + rest)
    BY <2>12
  <2>18. SumFunctionOnSet(f, s) = f[y] + SumFunctionOnSet(f, s \ {y})
    BY <2>5, <2>15, <2>16, <2>17, Zenon
  <2> QED BY <2>2, <2>18
<1> QED BY <1>1

(***************************************************************************)
(* SumFunction, the sum over the domain: what the models' proofs cite.     *)
(***************************************************************************)
LEMMA SumEmpty ==
  ASSUME NEW f, DOMAIN f = {}
  PROVE  SumFunction(f) = 0
BY SumOfNone DEF SumFunction

LEMMA SumType ==
  ASSUME NEW S, IsFiniteSet(S), NEW f \in [S -> Nat]
  PROVE  SumFunction(f) \in Nat
<1>1. \A x \in S : f[x] \in Nat /\ f[x] = f[x]
  OBVIOUS
<1>2. SumFunctionOnSet(f, S) \in Nat
  BY <1>1, SumOfNats
<1> QED BY <1>2 DEF SumFunction

(* One more element. *)
LEMMA SumAdd ==
  ASSUME NEW S, IsFiniteSet(S), NEW f \in [S -> Nat], NEW x, x \notin S,
         NEW g \in [S \cup {x} -> Nat], \A y \in S : g[y] = f[y]
  PROVE  SumFunction(g) = SumFunction(f) + g[x]
<1>1. IsFiniteSet(S \cup {x})
  BY FS_AddElement
<1>2. SumFunctionOnSet(g, S \cup {x}) = g[x] + SumFunctionOnSet(g, (S \cup {x}) \ {x})
  BY <1>1, SumTakesAny
<1>3. (S \cup {x}) \ {x} = S
  OBVIOUS
<1>4. \A y \in S : f[y] \in Nat /\ g[y] = f[y]
  OBVIOUS
<1>5. SumFunctionOnSet(f, S) \in Nat /\ SumFunctionOnSet(g, S) = SumFunctionOnSet(f, S)
  BY <1>4, SumOfNats
<1>6. g[x] \in Nat
  OBVIOUS
<1>7. SumFunctionOnSet(g, S \cup {x}) = SumFunctionOnSet(f, S) + g[x]
  BY <1>2, <1>3, <1>5, <1>6
<1> QED BY <1>7 DEF SumFunction

(* More elements and larger values make a sum no smaller. *)
LEMMA SumMono ==
  ASSUME NEW T, IsFiniteSet(T), NEW S \in SUBSET T,
         NEW f \in [S -> Nat], NEW g \in [T -> Nat], \A x \in S : f[x] <= g[x]
  PROVE  SumFunction(f) <= SumFunction(g)
<1> DEFINE Bad == {s \in SUBSET T :
               ~ (SumFunctionOnSet(f, s \cap S) <= SumFunctionOnSet(g, s))}
<1>1. Bad = {}
  <2> SUFFICES ASSUME Bad # {} PROVE FALSE
    OBVIOUS
  <2>1. PICK s \in Bad : \A t \in Bad : t \subseteq s => t = s
    <3>1. Bad \in SUBSET (SUBSET T)
      OBVIOUS
    <3> HIDE DEF Bad
    <3> QED BY <3>1, MinimalSubset
  <2>2. s # {}
    <3>1. SumFunctionOnSet(f, {}) = 0 /\ SumFunctionOnSet(g, {}) = 0
      BY SumOfNone
    <3>2. {} \cap S = {}
      OBVIOUS
    <3> QED BY <3>1, <3>2
  <2>3. PICK x \in s : TRUE
    BY <2>2
  <2>4. s \ {x} \notin Bad
    BY <2>1
  <2>5. SumFunctionOnSet(f, (s \ {x}) \cap S) <= SumFunctionOnSet(g, s \ {x})
    BY <2>4
  <2>6. IsFiniteSet(s) /\ IsFiniteSet(s \cap S) /\ IsFiniteSet(s \ {x}) /\ IsFiniteSet((s \ {x}) \cap S)
    BY FS_Subset
  <2>7. \A y \in s : g[y] \in Nat
    OBVIOUS
  <2>8. SumFunctionOnSet(g, s) = g[x] + SumFunctionOnSet(g, s \ {x})
    BY <2>6, <2>7, SumTakesAny
  <2>9. SumFunctionOnSet(g, s \ {x}) \in Nat
    <3>1. \A y \in s \ {x} : g[y] \in Nat /\ g[y] = g[y]
      OBVIOUS
    <3> QED BY <2>6, <3>1, SumOfNats
  <2>10. CASE x \in S
    <3>1. SumFunctionOnSet(f, s \cap S) = f[x] + SumFunctionOnSet(f, (s \cap S) \ {x})
      <4>1. x \in s \cap S /\ \A y \in s \cap S : f[y] \in Nat
        BY <2>10
      <4> QED BY <2>6, <4>1, SumTakesAny
    <3>2. (s \cap S) \ {x} = (s \ {x}) \cap S
      OBVIOUS
    <3>3. SumFunctionOnSet(f, (s \ {x}) \cap S) \in Nat
      <4>1. \A y \in (s \ {x}) \cap S : f[y] \in Nat /\ f[y] = f[y]
        OBVIOUS
      <4> QED BY <2>6, <4>1, SumOfNats
    <3>4. f[x] \in Nat /\ g[x] \in Nat /\ f[x] <= g[x]
      BY <2>10
    <3>5. SumFunctionOnSet(f, s \cap S) <= SumFunctionOnSet(g, s)
      <4>1. SumFunctionOnSet(f, s \cap S) = f[x] + SumFunctionOnSet(f, (s \ {x}) \cap S)
        BY <3>1, <3>2
      <4> HIDE DEF Bad
      <4> QED BY <2>5, <2>8, <2>9, <3>3, <3>4, <4>1
    <3> QED BY <3>5
  <2>11. CASE x \notin S
    <3>1. s \cap S = (s \ {x}) \cap S
      BY <2>11
    <3>2. SumFunctionOnSet(f, (s \ {x}) \cap S) \in Nat
      <4>1. \A y \in (s \ {x}) \cap S : f[y] \in Nat /\ f[y] = f[y]
        OBVIOUS
      <4> QED BY <2>6, <4>1, SumOfNats
    <3>3. g[x] \in Nat
      OBVIOUS
    <3>4. SumFunctionOnSet(f, s \cap S) <= SumFunctionOnSet(g, s)
      <4>1. SumFunctionOnSet(g, s \ {x}) <= SumFunctionOnSet(g, s)
        BY <2>8, <2>9, <3>3
      <4>2. SumFunctionOnSet(f, s \cap S) <= SumFunctionOnSet(g, s \ {x})
        BY <2>5, <3>1
      <4>3. SumFunctionOnSet(f, s \cap S) \in Nat /\ SumFunctionOnSet(g, s) \in Nat
        BY <2>8, <2>9, <3>1, <3>2, <3>3
      <4> QED BY <2>9, <4>1, <4>2, <4>3
    <3> QED BY <3>4
  <2> QED BY <2>10, <2>11
<1>2. T \cap S = S
  OBVIOUS
<1>3. SumFunctionOnSet(f, T \cap S) <= SumFunctionOnSet(g, T)
  BY <1>1
<1>4. SumFunctionOnSet(f, S) <= SumFunctionOnSet(g, T)
  BY <1>2, <1>3
<1> QED BY <1>4 DEF SumFunction

LEMMA Quadruple ==
  ASSUME NEW a, NEW b, NEW c, NEW d
  PROVE  IsFiniteSet({a, b, c, d})
<1>1. IsFiniteSet({} \cup {a})
  BY FS_EmptySet, FS_AddElement
<1>2. IsFiniteSet(({} \cup {a}) \cup {b})
  BY <1>1, FS_AddElement
<1>3. IsFiniteSet((({} \cup {a}) \cup {b}) \cup {c})
  BY <1>2, FS_AddElement
<1>4. IsFiniteSet(((({} \cup {a}) \cup {b}) \cup {c}) \cup {d})
  BY <1>3, FS_AddElement
<1>5. ((({} \cup {a}) \cup {b}) \cup {c}) \cup {d} = {a, b, c, d}
  OBVIOUS
<1> QED BY <1>4, <1>5

(* S is {a, b, c, d}, the four of them distinct. *)
AreFour(S, a, b, c, d) ==
  /\ a # b /\ a # c /\ a # d /\ b # c /\ b # d /\ c # d
  /\ S = {a, b, c, d}

LEMMA SumOfFour ==
  ASSUME NEW S, NEW a, NEW b, NEW c, NEW d, AreFour(S, a, b, c, d),
         NEW f \in [S -> Nat]
  PROVE  SumFunction(f) = f[a] + f[b] + f[c] + f[d]
<1> USE DEF AreFour
<1> DEFINE On(s) == SumFunctionOnSet(f, s)
<1>1. ASSUME NEW x \in {a, b, c, d}, NEW s \in SUBSET {a, b, c, d}, x \notin s
      PROVE  On(s \cup {x}) = f[x] + On(s)
  <2>1. IsFiniteSet({a, b, c, d})
    BY Quadruple
  <2>2. IsFiniteSet(s \cup {x}) /\ \A y \in s \cup {x} : f[y] \in Nat
    BY <2>1, FS_Subset
  <2>3. On(s \cup {x}) = f[x] + On((s \cup {x}) \ {x})
    BY <2>2, SumTakesAny
  <2>4. (s \cup {x}) \ {x} = s
    BY <1>1
  <2> QED BY <2>3, <2>4
<1>2. On({}) = 0
  BY SumOfNone
<1> HIDE DEF On
<1>3. On({d}) = f[d] + 0
  <2>1. {d} = {} \cup {d} /\ {} \in SUBSET {a, b, c, d}
    OBVIOUS
  <2> QED BY <1>1, <1>2, <2>1
<1>4. On({c, d}) = f[c] + On({d})
  <2>1. {c, d} = {d} \cup {c} /\ {d} \in SUBSET {a, b, c, d} /\ c \notin {d}
    OBVIOUS
  <2> QED BY <1>1, <2>1
<1>5. On({b, c, d}) = f[b] + On({c, d})
  <2>1. {b, c, d} = {c, d} \cup {b} /\ {c, d} \in SUBSET {a, b, c, d} /\ b \notin {c, d}
    OBVIOUS
  <2> QED BY <1>1, <2>1
<1>6. On({a, b, c, d}) = f[a] + On({b, c, d})
  <2>1. {a, b, c, d} = {b, c, d} \cup {a} /\ {b, c, d} \in SUBSET {a, b, c, d} /\ a \notin {b, c, d}
    OBVIOUS
  <2> QED BY <1>1, <2>1
<1>7. f[a] \in Nat /\ f[b] \in Nat /\ f[c] \in Nat /\ f[d] \in Nat
  OBVIOUS
<1>8. On({a, b, c, d}) = f[a] + f[b] + f[c] + f[d]
  BY <1>3, <1>4, <1>5, <1>6, <1>7
<1> QED BY <1>8 DEF On, SumFunction
=============================================================================
