--------------------------- MODULE BuilderProofs ---------------------------
(***************************************************************************)
(* Proofs about the builder: AssemblyEngine, and RelaySubmission that      *)
(* composes it with the relay client.                                      *)
(*                                                                         *)
(* The engine's totals are sums over a set of candidates, folds that take  *)
(* its elements in an unknown order.  What a fold computes needs induction *)
(* over the set: SubsetInduction has the property as a set of subsets, so  *)
(* that it can be cited like any other lemma.                              *)
(***************************************************************************)
EXTENDS RelaySubmission, FiniteSetTheorems, TLAPS

----------------------------------------------------------------------------
(* Sums over finite sets *)

\* Induction over the subsets of a finite set, with the property as a set.
LEMMA SubsetInduction ==
    ASSUME NEW S, IsFiniteSet(S), NEW Good \in SUBSET (SUBSET S),
           \A s \in SUBSET S : (\A x \in s : s \ {x} \in Good) => s \in Good
    PROVE  \A s \in SUBSET S : s \in Good
<1>1. IsWellFoundedOn(StrictSubsetOrdering(S), SUBSET S)
  <2>1. FiniteSubsetsOf(S) = SUBSET S
    BY FS_FiniteSubsetsOfFinite
  <2>2. QED
    BY <2>1, FS_StrictSubsetOrderingWellFounded
<1> DEFINE Bad == (SUBSET S) \ Good
<1> SUFFICES ASSUME Bad # {} PROVE FALSE
  OBVIOUS
<1>2. Bad \subseteq SUBSET S
  OBVIOUS
<1> HIDE DEF Bad
<1>3. PICK m \in Bad : \A s \in Bad : <<s, m>> \notin StrictSubsetOrdering(S)
  BY <1>1, <1>2, WFMin
<1>4. m \in SUBSET S /\ m \notin Good
  BY <1>3 DEF Bad
<1>5. ASSUME NEW x \in m PROVE m \ {x} \in Good
  <2>1. <<m \ {x}, m>> \in StrictSubsetOrdering(S)
    BY <1>4, <1>5 DEF StrictSubsetOrdering
  <2>2. m \ {x} \notin Bad
    BY <1>3, <2>1
  <2>3. QED
    BY <1>4, <2>2 DEF Bad
<1>6. QED
  BY <1>4, <1>5

\* The element that a fold takes first.
First(s) == CHOOSE x \in s : TRUE

\* g is the fold that adds up F over the subsets of S.
Sums(F, S, g) ==
    g = [s \in SUBSET S |-> IF s = {} THEN 0 ELSE F[First(s)] + g[s \ {First(s)}]]

SumOver(F, S) == (CHOOSE g : Sums(F, S, g))[S]

\* The first element is an element.
LEMMA FirstIn == ASSUME NEW s, s # {} PROVE First(s) \in s
BY DEF First

\* The equation of a fold, at one set.
LEMMA SumsAt ==
    ASSUME NEW F, NEW S, NEW g, Sums(F, S, g), NEW s \in SUBSET S
    PROVE  g[s] = IF s = {} THEN 0 ELSE F[First(s)] + g[s \ {First(s)}]
BY DEF Sums

\* Two folds agree where both are defined.
LEMMA SumsAgree ==
    ASSUME NEW F, NEW S, IsFiniteSet(S), NEW R, NEW g, Sums(F, S, g), NEW h, Sums(F, R, h),
           NEW u, u \in SUBSET S, u \in SUBSET R
    PROVE  g[u] = h[u]
<1>1. PICK both : both = S \cap R
  OBVIOUS
<1> DEFINE Good == {s \in SUBSET both : g[s] = h[s]}
<1>2. IsFiniteSet(both) /\ u \in SUBSET both
  BY <1>1, FS_Subset, S \cap R \in SUBSET S
<1>3. ASSUME NEW s \in SUBSET both, \A x \in s : s \ {x} \in Good PROVE s \in Good
  <2>1. /\ g[s] = IF s = {} THEN 0 ELSE F[First(s)] + g[s \ {First(s)}]
        /\ h[s] = IF s = {} THEN 0 ELSE F[First(s)] + h[s \ {First(s)}]
    <3>1. s \in SUBSET S /\ s \in SUBSET R
      BY <1>1
    <3>2. QED
      BY <3>1, SumsAt
  <2>2. s # {} => g[s \ {First(s)}] = h[s \ {First(s)}]
    BY <1>3, FirstIn
  <2>3. QED
    BY <2>1, <2>2
<1>4. Good \in SUBSET (SUBSET both)
  OBVIOUS
<1>5. u \in Good
  <2> HIDE DEF Good
  <2>1. QED
    BY <1>2, <1>3, <1>4, SubsetInduction
<1>6. QED
  BY <1>5

\* There is a fold over the subsets of every finite set.
LEMMA SumsExist ==
    ASSUME NEW F, NEW S, IsFiniteSet(S)
    PROVE  \E g : Sums(F, S, g)
<1> DEFINE Good == {s \in SUBSET S : \E g : Sums(F, s, g)}
           fold(s) == CHOOSE g : Sums(F, s, g)
<1>1. ASSUME NEW s \in SUBSET S, \A x \in s : s \ {x} \in Good PROVE s \in Good
  <2> DEFINE part(x) == fold(s \ {x})
             value(t) == IF t = {} THEN 0 ELSE F[First(t)] + part(First(t))[t \ {First(t)}]
             g == [t \in SUBSET s |-> value(t)]
  <2>1. ASSUME NEW x \in s PROVE Sums(F, s \ {x}, part(x))
    <3>1. \E h : Sums(F, s \ {x}, h)
      BY <1>1, <2>1
    <3>2. QED
      BY <3>1
  <2>2. ASSUME NEW t \in SUBSET s, t # {}
        PROVE  g[t \ {First(t)}] = part(First(t))[t \ {First(t)}]
    <3>1. PICK x, u : x = First(t) /\ u = t \ {x}
      OBVIOUS
    <3>2. x \in s /\ u \in SUBSET s /\ u \in SUBSET (s \ {x})
      BY <2>2, <3>1, FirstIn
    <3>3. Sums(F, s \ {x}, part(x))
      BY <2>1, <3>2
    <3>4. g[u] = value(u)
      BY <3>2
    <3> HIDE DEF part, g
    <3>5. part(x)[u] = IF u = {} THEN 0 ELSE F[First(u)] + part(x)[u \ {First(u)}]
      BY <3>2, <3>3, SumsAt
    <3>6. ASSUME u # {} PROVE part(x)[u \ {First(u)}] = part(First(u))[u \ {First(u)}]
      <4>1. PICK y, v : y = First(u) /\ v = u \ {y}
        OBVIOUS
      <4>2. y \in s /\ v \in SUBSET (s \ {x}) /\ v \in SUBSET (s \ {y})
        BY <3>2, <3>6, <4>1, FirstIn
      <4>3. Sums(F, s \ {y}, part(y))
        BY <2>1, <4>2
      <4>4. IsFiniteSet(s \ {x})
        BY FS_Subset, s \ {x} \subseteq S
      <4>5. part(x)[v] = part(y)[v]
        BY <3>3, <4>2, <4>3, <4>4, SumsAgree
      <4>6. QED
        BY <4>1, <4>5
    <3>7. part(x)[u] = value(u)
      BY <3>5, <3>6
    <3>8. QED
      BY <3>1, <3>4, <3>7
  <2>3. Sums(F, s, g)
    <3> HIDE DEF part
    <3>1. \A t \in SUBSET s : value(t) = IF t = {} THEN 0 ELSE F[First(t)] + g[t \ {First(t)}]
      BY <2>2
    <3>2. g = [t \in SUBSET s |-> IF t = {} THEN 0 ELSE F[First(t)] + g[t \ {First(t)}]]
      BY <3>1
    <3>3. QED
      BY <3>2 DEF Sums
  <2>4. QED
    BY <2>3
<1>2. Good \in SUBSET (SUBSET S) /\ S \in SUBSET S
  OBVIOUS
<1>3. S \in Good
  <2> HIDE DEF Good
  <2>1. QED
    BY <1>1, <1>2, SubsetInduction
<1>4. QED
  BY <1>3

\* A fold over a larger set gives the same sum.
LEMMA SumOverIs ==
    ASSUME NEW F, NEW S, IsFiniteSet(S), NEW g, Sums(F, S, g), NEW s \in SUBSET S
    PROVE  SumOver(F, s) = g[s]
<1>1. IsFiniteSet(s)
  BY FS_Subset
<1>2. PICK h : h = CHOOSE k : Sums(F, s, k)
  OBVIOUS
<1>3. \E k : Sums(F, s, k)
  BY <1>1, SumsExist
<1>4. Sums(F, s, h)
  BY <1>2, <1>3
<1>5. h[s] = g[s]
  BY <1>1, <1>4, SumsAgree, s \in SUBSET s
<1>6. QED
  BY <1>2, <1>5 DEF SumOver

\* The sum, one element at a time, in the order of the fold.
LEMMA SumUnfolds ==
    ASSUME NEW F, NEW S, IsFiniteSet(S)
    PROVE  SumOver(F, S) = IF S = {} THEN 0 ELSE F[First(S)] + SumOver(F, S \ {First(S)})
<1>1. PICK g : Sums(F, S, g)
  BY SumsExist
<1>2. S \in SUBSET S /\ S \ {First(S)} \in SUBSET S
  OBVIOUS
<1>3. SumOver(F, S) = g[S] /\ SumOver(F, S \ {First(S)}) = g[S \ {First(S)}]
  BY <1>1, <1>2, SumOverIs
<1>4. g[S] = IF S = {} THEN 0 ELSE F[First(S)] + g[S \ {First(S)}]
  BY <1>1, <1>2, SumsAt
<1>5. QED
  BY <1>3, <1>4

\* A sum of natural numbers is one.
LEMMA SumIsNat ==
    ASSUME NEW D, NEW F \in [D -> Nat], NEW S \in SUBSET D, IsFiniteSet(S)
    PROVE  SumOver(F, S) \in Nat
<1> DEFINE Good == {s \in SUBSET S : SumOver(F, s) \in Nat}
<1>1. ASSUME NEW s \in SUBSET S, \A x \in s : s \ {x} \in Good PROVE s \in Good
  <2>1. IsFiniteSet(s)
    BY FS_Subset
  <2>2. SumOver(F, s) = IF s = {} THEN 0 ELSE F[First(s)] + SumOver(F, s \ {First(s)})
    BY <2>1, SumUnfolds
  <2>3. s # {} => F[First(s)] \in Nat /\ SumOver(F, s \ {First(s)}) \in Nat
    BY <1>1, FirstIn
  <2>4. QED
    BY <2>2, <2>3
<1>2. Good \in SUBSET (SUBSET S) /\ S \in SUBSET S
  OBVIOUS
<1>3. S \in Good
  <2> HIDE DEF Good
  <2>1. QED
    BY <1>1, <1>2, SubsetInduction
<1>4. QED
  BY <1>3

\* The order does not matter: any element may be taken out first.
LEMMA SumTakesOut ==
    ASSUME NEW D, NEW F \in [D -> Nat], NEW S \in SUBSET D, IsFiniteSet(S), NEW e \in S
    PROVE  SumOver(F, S) = F[e] + SumOver(F, S \ {e})
<1> DEFINE Good == {s \in SUBSET S : \A x \in s : SumOver(F, s) = F[x] + SumOver(F, s \ {x})}
<1>1. \A s \in SUBSET S : IsFiniteSet(s) /\ SumOver(F, s) \in Nat
  <2>1. ASSUME NEW s \in SUBSET S PROVE IsFiniteSet(s) /\ SumOver(F, s) \in Nat
    <3>1. IsFiniteSet(s) /\ s \in SUBSET D
      BY FS_Subset
    <3>2. QED
      BY <3>1, SumIsNat
  <2>2. QED
    BY <2>1
<1>2. ASSUME NEW s \in SUBSET S, \A x \in s : s \ {x} \in Good, NEW x \in s
      PROVE  SumOver(F, s) = F[x] + SumOver(F, s \ {x})
  <2>1. PICK y : y = First(s)
    OBVIOUS
  <2>2. y \in s /\ SumOver(F, s) = F[y] + SumOver(F, s \ {y})
    BY <1>1, <2>1, FirstIn, SumUnfolds
  <2>3. CASE x = y
    BY <2>2, <2>3
  <2>4. CASE x # y
    <3>1. SumOver(F, s \ {y}) = F[x] + SumOver(F, (s \ {y}) \ {x})
      BY <1>2, <2>2, <2>4
    <3>2. SumOver(F, s \ {x}) = F[y] + SumOver(F, (s \ {x}) \ {y})
      BY <1>2, <2>2, <2>4
    <3>3. PICK r : r = SumOver(F, (s \ {x}) \ {y})
      OBVIOUS
    <3>4. (s \ {y}) \ {x} = (s \ {x}) \ {y}
      OBVIOUS
    <3>5. (s \ {x}) \ {y} \in SUBSET S
      OBVIOUS
    <3>6. r \in Nat /\ F[x] \in Nat /\ F[y] \in Nat
      BY <1>1, <2>2, <3>3, <3>5
    <3>7. F[y] + (F[x] + r) = F[x] + (F[y] + r)
      BY <3>6
    <3>8. QED
      BY <2>2, <3>1, <3>2, <3>3, <3>4, <3>7
  <2>5. QED
    BY <2>3, <2>4
<1>3. Good \in SUBSET (SUBSET S) /\ S \in SUBSET S
  OBVIOUS
<1>4. \A s \in SUBSET S : (\A x \in s : s \ {x} \in Good) => s \in Good
  BY <1>2
<1>5. S \in Good
  <2> HIDE DEF Good
  <2>1. QED
    BY <1>3, <1>4, SubsetInduction
<1>6. QED
  BY <1>5

\* The sum over a set is the sum over a part of it and over the rest.
LEMMA SumSplits ==
    ASSUME NEW D, NEW F \in [D -> Nat], NEW S \in SUBSET D, IsFiniteSet(S), NEW T \in SUBSET S
    PROVE  SumOver(F, S) = SumOver(F, T) + SumOver(F, S \ T)
<1> DEFINE Good == {t \in SUBSET S : SumOver(F, S) = SumOver(F, t) + SumOver(F, S \ t)}
<1>1. \A s \in SUBSET S : s \in SUBSET D /\ IsFiniteSet(s) /\ SumOver(F, s) \in Nat
  <2>1. ASSUME NEW s \in SUBSET S PROVE s \in SUBSET D /\ IsFiniteSet(s) /\ SumOver(F, s) \in Nat
    <3>1. IsFiniteSet(s) /\ s \in SUBSET D
      BY FS_Subset
    <3>2. QED
      BY <3>1, SumIsNat
  <2>2. QED
    BY <2>1
<1>2. ASSUME NEW t \in SUBSET S, \A x \in t : t \ {x} \in Good PROVE t \in Good
  <2>1. CASE t = {}
    <3>1. S \ t = S /\ SumOver(F, t) = 0 /\ SumOver(F, S) \in Nat
      BY <1>1, <2>1, SumUnfolds
    <3>2. QED
      BY <3>1
  <2>2. ASSUME NEW x \in t PROVE t \in Good
    <3>1. SumOver(F, t) = F[x] + SumOver(F, t \ {x})
      BY <1>1, SumTakesOut
    <3>2. PICK rest : rest = S \ t
      OBVIOUS
    <3>3. PICK more : more = rest \cup {x}
      OBVIOUS
    <3>4. more = S \ (t \ {x}) /\ more \ {x} = rest /\ x \in more /\ more \in SUBSET S
      BY <3>2, <3>3
    <3>5. SumOver(F, more) = F[x] + SumOver(F, rest)
      BY <1>1, <3>4, SumTakesOut
    <3>6. SumOver(F, S) = SumOver(F, t \ {x}) + SumOver(F, more)
      BY <1>2, <3>4
    <3>7. SumOver(F, t \ {x}) \in Nat /\ SumOver(F, rest) \in Nat /\ F[x] \in Nat
      BY <1>1, <3>2
    <3>8. SumOver(F, S) = SumOver(F, t) + SumOver(F, rest)
      BY <3>1, <3>5, <3>6, <3>7
    <3>9. QED
      BY <3>2, <3>8
  <2>3. QED
    BY <2>1, <2>2
<1>3. Good \in SUBSET (SUBSET S)
  OBVIOUS
<1>4. T \in Good
  <2> HIDE DEF Good
  <2>1. QED
    BY <1>2, <1>3, SubsetInduction
<1>5. QED
  BY <1>4

----------------------------------------------------------------------------
(* The sums of the engine *)

GasOf == [c \in Candidate |-> c.gas_used]
ScoreOf == [c \in Candidate |-> c.priority_score]
SizeOf == [c \in Candidate |-> Cardinality(c.tx_hashes)]

\* What is added up are natural numbers.
LEMMA SummandsType ==
    /\ GasOf \in [Candidate -> Nat]
    /\ ScoreOf \in [Candidate -> Nat]
    /\ SizeOf \in [Candidate -> Nat]
<1>1. \A c \in Candidate : c.gas_used \in Nat /\ c.priority_score \in Nat
  BY AssemblyAssumption DEF Candidate
<1>2. ASSUME NEW c \in Candidate PROVE Cardinality(c.tx_hashes) \in Nat
  <2>1. c.tx_hashes \in SUBSET Hashes
    BY DEF Candidate
  <2>2. IsFiniteSet(c.tx_hashes)
    BY <2>1, AssemblyAssumption, FS_Subset
  <2>3. QED
    BY <2>2, FS_CardinalityType
<1>3. QED
  BY <1>1, <1>2 DEF GasOf, ScoreOf, SizeOf

\* The sum of the gas.
LEMMA GasSum ==
    ASSUME NEW S \in SUBSET Candidate, IsFiniteSet(S)
    PROVE  SumOfGas(S) = SumOver(GasOf, S)
<1> DEFINE Fold(g) ==
      g = [s \in SUBSET S |-> IF s = {} THEN 0
             ELSE (CHOOSE x \in s : TRUE).gas_used + g[s \ {CHOOSE x \in s : TRUE}]]
<1>1. SumOfGas(S) = (CHOOSE g : Fold(g))[S]
  BY DEF SumOfGas, MapThenSumSet, MapThenFoldSet
<1>2. ASSUME NEW g PROVE Fold(g) <=> Sums(GasOf, S, g)
  <2>1. \A s \in SUBSET S : s # {} => GasOf[First(s)] = First(s).gas_used
    BY FirstIn DEF GasOf
  <2>2. QED
    BY <2>1 DEF Sums, First
<1> HIDE DEF Fold
<1>3. \E g : Fold(g)
  BY <1>2, SumsExist
<1>4. PICK g : g = CHOOSE h : Fold(h)
  OBVIOUS
<1>5. Sums(GasOf, S, g)
  BY <1>2, <1>3, <1>4
<1>6. QED
  BY <1>1, <1>4, <1>5, SumOverIs, S \in SUBSET S

\* The sum of the scores.
LEMMA ScoreSum ==
    ASSUME NEW S \in SUBSET Candidate, IsFiniteSet(S)
    PROVE  SumOfScores(S) = SumOver(ScoreOf, S)
<1> DEFINE Fold(g) ==
      g = [s \in SUBSET S |-> IF s = {} THEN 0
             ELSE (CHOOSE x \in s : TRUE).priority_score + g[s \ {CHOOSE x \in s : TRUE}]]
<1>1. SumOfScores(S) = (CHOOSE g : Fold(g))[S]
  BY DEF SumOfScores, MapThenSumSet, MapThenFoldSet
<1>2. ASSUME NEW g PROVE Fold(g) <=> Sums(ScoreOf, S, g)
  <2>1. \A s \in SUBSET S : s # {} => ScoreOf[First(s)] = First(s).priority_score
    BY FirstIn DEF ScoreOf
  <2>2. QED
    BY <2>1 DEF Sums, First
<1> HIDE DEF Fold
<1>3. \E g : Fold(g)
  BY <1>2, SumsExist
<1>4. PICK g : g = CHOOSE h : Fold(h)
  OBVIOUS
<1>5. Sums(ScoreOf, S, g)
  BY <1>2, <1>3, <1>4
<1>6. QED
  BY <1>1, <1>4, <1>5, SumOverIs, S \in SUBSET S

\* The sum of the lengths of the member lists.
LEMMA SizeSum ==
    ASSUME NEW S \in SUBSET Candidate, IsFiniteSet(S)
    PROVE  MapThenSumSet(LAMBDA c : Cardinality(c.tx_hashes), S) = SumOver(SizeOf, S)
<1> DEFINE Fold(g) ==
      g = [s \in SUBSET S |-> IF s = {} THEN 0
             ELSE Cardinality((CHOOSE x \in s : TRUE).tx_hashes)
                    + g[s \ {CHOOSE x \in s : TRUE}]]
<1>1. MapThenSumSet(LAMBDA c : Cardinality(c.tx_hashes), S) = (CHOOSE g : Fold(g))[S]
  BY DEF MapThenSumSet, MapThenFoldSet
<1>2. ASSUME NEW g PROVE Fold(g) <=> Sums(SizeOf, S, g)
  <2>1. \A s \in SUBSET S : s # {} => SizeOf[First(s)] = Cardinality(First(s).tx_hashes)
    BY FirstIn DEF SizeOf
  <2>2. QED
    BY <2>1 DEF Sums, First
<1> HIDE DEF Fold
<1>3. \E g : Fold(g)
  BY <1>2, SumsExist
<1>4. PICK g : g = CHOOSE h : Fold(h)
  OBVIOUS
<1>5. Sums(SizeOf, S, g)
  BY <1>2, <1>3, <1>4
<1>6. QED
  BY <1>1, <1>4, <1>5, SumOverIs, S \in SUBSET S

\* The gas of a simulated bundle.
LEMMA BundleGasType ==
    ASSUME NEW sim \in Simulations, NEW S \in SUBSET DOMAIN sim
    PROVE  MapThenSumSet(LAMBDA h : sim[h].gas_used, S) \in Nat
<1>1. PICK gas : gas = [h \in DOMAIN sim |-> sim[h].gas_used]
  OBVIOUS
<1>2. gas \in [DOMAIN sim -> Nat]
  BY <1>1, AssemblyAssumption
<1>3. S \in SUBSET Hashes
  BY AssemblyAssumption
<1>4. IsFiniteSet(S)
  BY <1>3, AssemblyAssumption, FS_Subset
<1> DEFINE Fold(g) ==
      g = [s \in SUBSET S |-> IF s = {} THEN 0
             ELSE sim[CHOOSE x \in s : TRUE].gas_used + g[s \ {CHOOSE x \in s : TRUE}]]
<1>5. MapThenSumSet(LAMBDA h : sim[h].gas_used, S) = (CHOOSE g : Fold(g))[S]
  BY DEF MapThenSumSet, MapThenFoldSet
<1>6. ASSUME NEW g PROVE Fold(g) <=> Sums(gas, S, g)
  <2>1. \A s \in SUBSET S : s # {} => gas[First(s)] = sim[First(s)].gas_used
    BY <1>1, FirstIn
  <2>2. QED
    BY <2>1 DEF Sums, First
<1> HIDE DEF Fold
<1>7. \E g : Fold(g)
  BY <1>4, <1>6, SumsExist
<1>8. PICK g : g = CHOOSE h : Fold(h)
  OBVIOUS
<1>9. Sums(gas, S, g)
  BY <1>6, <1>7, <1>8
<1>10. SumOver(gas, S) = g[S]
  BY <1>4, <1>9, SumOverIs, S \in SUBSET S
<1>11. SumOver(gas, S) \in Nat
  BY <1>2, <1>4, SumIsNat
<1>12. QED
  BY <1>5, <1>8, <1>10, <1>11

\* Candidates without a transaction in common have as many transactions as the lengths of
\* their member lists add up to.
LEMMA MembersCounted ==
    ASSUME NEW S \in SUBSET Candidate, IsFiniteSet(S),
           \A c, d \in S : c # d => c.tx_hashes \cap d.tx_hashes = {}
    PROVE  SumOver(SizeOf, S) = Cardinality(UNION {c.tx_hashes : c \in S})
<1> DEFINE Members(s) == UNION {c.tx_hashes : c \in s}
           Good == {s \in SUBSET S : SumOver(SizeOf, s) = Cardinality(Members(s))}
<1>1. ASSUME NEW s \in SUBSET S, \A x \in s : s \ {x} \in Good PROVE s \in Good
  <2>1. IsFiniteSet(s) /\ s \in SUBSET Candidate
    BY FS_Subset
  <2>2. CASE s = {}
    <3>1. SumOver(SizeOf, s) = 0
      BY <2>1, <2>2, SumUnfolds
    <3>2. Members(s) = {}
      BY <2>2
    <3>3. QED
      BY <3>1, <3>2, FS_EmptySet
  <2>3. ASSUME NEW c \in s PROVE s \in Good
    <3>1. SumOver(SizeOf, s) = SizeOf[c] + SumOver(SizeOf, s \ {c})
      BY <2>1, SumTakesOut, SummandsType
    <3>2. PICK own, others : own = c.tx_hashes /\ others = Members(s \ {c})
      OBVIOUS
    <3>3. SizeOf[c] = Cardinality(own)
      BY <2>1, <3>2 DEF SizeOf
    <3>4. SumOver(SizeOf, s \ {c}) = Cardinality(others)
      BY <1>1, <3>2
    <3>5. Members(s) = own \cup others
      BY <3>2
    <3>6. own \cap others = {}
      BY <3>2
    <3>7. own \in SUBSET Hashes /\ others \in SUBSET Hashes
      BY <2>1, <3>2 DEF Candidate
    <3>8. IsFiniteSet(own) /\ IsFiniteSet(others)
      BY <3>7, AssemblyAssumption, FS_Subset
    <3>9. Cardinality(own \cup others) = Cardinality(own) + Cardinality(others)
      <4>1. Cardinality(own \cup others)
              = Cardinality(own) + Cardinality(others) - Cardinality(own \cap others)
        BY <3>8, FS_Union
      <4>2. Cardinality(own \cap others) = 0
        BY <3>6, FS_EmptySet
      <4>3. Cardinality(own) \in Nat /\ Cardinality(others) \in Nat
        BY <3>8, FS_CardinalityType
      <4>4. QED
        BY <4>1, <4>2, <4>3
    <3>10. QED
      BY <3>1, <3>3, <3>4, <3>5, <3>9
  <2>4. QED
    BY <2>2, <2>3
<1>2. Good \in SUBSET (SUBSET S) /\ S \in SUBSET S
  OBVIOUS
<1>3. S \in Good
  <2> HIDE DEF Good
  <2>1. QED
    BY <1>1, <1>2, SubsetInduction
<1>4. QED
  BY <1>3

----------------------------------------------------------------------------
(* No transaction twice *)

\* Every active candidate was approved and contains the transaction that its id
\* names.
NamedByMember ==
    \A c \in candidates : c.approved /\ c.candidate_id[2] \in c.tx_hashes

\* `from_simulated_opportunity` makes a candidate and keeps the transaction of the
\* opportunity.
LEMMA OfferNamed ==
    ASSUME NEW c \in Offers
    PROVE  c \in Candidate /\ c.candidate_id[2] \in c.tx_hashes
<1>1. PICK o \in Opportunities, sim \in Simulations :
        TxHashes(o) \subseteq DOMAIN sim /\ c = FromSimulatedOpportunity(o, sim)
  BY DEF Offers
<1>2. PICK gas : gas = MapThenSumSet(LAMBDA h : sim[h].gas_used, TxHashes(o))
  OBVIOUS
<1>3. TxHashes(o) \in SUBSET DOMAIN sim
  BY <1>1
<1>4. gas \in Nat
  BY <1>2, <1>3, BundleGasType
<1>5. Saturate(gas) \in 0..U64Max
  BY <1>4, AssemblyAssumption DEF Saturate
<1>6. o \in Opportunity /\ o.tx_hash \in TxHashes(o) /\ TxHashes(o) \in SUBSET Hashes
  BY AssemblyAssumption DEF TxHashes, Opportunity
<1>7. c = [candidate_id |-> <<o.strategy, o.tx_hash>>, tx_hashes |-> TxHashes(o),
           priority_score |-> o.score, gas_used |-> Saturate(gas),
           approved |-> \A h \in TxHashes(o) : sim[h].success]
  BY <1>1, <1>2 DEF FromSimulatedOpportunity
<1>8. PICK approved \in BOOLEAN :
        c = [candidate_id |-> <<o.strategy, o.tx_hash>>, tx_hashes |-> TxHashes(o),
             priority_score |-> o.score, gas_used |-> Saturate(gas), approved |-> approved]
  BY <1>7
<1>9. QED
  BY <1>5, <1>6, <1>8 DEF Candidate, Opportunity

\* An accepted candidate shares nothing with those that stay.
LEMMA AcceptKeepsApart ==
    ASSUME NoSharedTransaction, NamedByMember, NEW c \in Offers, Accept(c)
    PROVE  NoSharedTransaction' /\ NamedByMember'
<1>1. candidates' = (candidates \ Conflicts(c)) \cup {c} /\ c.approved
  BY DEF Accept
<1>2. c.candidate_id[2] \in c.tx_hashes
  BY OfferNamed
<1>3. NamedByMember'
  BY <1>1, <1>2 DEF NamedByMember
<1>4. \A d \in candidates \ Conflicts(c) :
         d.tx_hashes \cap c.tx_hashes = {} /\ d.candidate_id # c.candidate_id
  BY <1>2 DEF Conflicts, NamedByMember
<1>5. NoSharedTransaction'
  BY <1>1, <1>4 DEF NoSharedTransaction
<1>6. QED
  BY <1>3, <1>5

\* A call of the engine, seen from the active set: it stays, takes an offer in or lets a
\* candidate go.
LEMMA EngineCalls ==
    ASSUME [Next]_vars
    PROVE  \/ candidates' = candidates
           \/ \E c \in Offers : Accept(c)
           \/ \E id \in Strategies \X Hashes : RemoveCandidate(id)
BY DEF Next, vars, Insert, RejectNotApproved, RejectNotImproved, RejectGasLimit

\* No transaction is in the block twice and an id names one active candidate,
\* for every set of opportunities and simulation results.
THEOREM NoTransactionTwice == Spec => []NoSharedTransaction
<1>1. Init => NoSharedTransaction /\ NamedByMember
  BY DEF Init, NoSharedTransaction, NamedByMember
<1>2. NoSharedTransaction /\ NamedByMember /\ [Next]_vars
        => NoSharedTransaction' /\ NamedByMember'
  <2> SUFFICES ASSUME NoSharedTransaction, NamedByMember, [Next]_vars
               PROVE  NoSharedTransaction' /\ NamedByMember'
    OBVIOUS
  <2>1. CASE \E c \in Offers : Accept(c)
    BY <2>1, AcceptKeepsApart
  <2>2. CASE candidates' \subseteq candidates
    BY <2>2 DEF NoSharedTransaction, NamedByMember
  <2>3. QED
    BY <2>1, <2>2, EngineCalls DEF RemoveCandidate
<1>3. QED
  BY <1>1, <1>2, PTL DEF Spec

----------------------------------------------------------------------------
(* The cached objective *)

Counters ==
    [inserted_total : Nat, replaced_total : Nat, rejected_total : Nat,
     rejected_simulation_not_approved_total : Nat,
     rejected_objective_not_improved_total : Nat,
     rejected_gas_limit_total : Nat, rollback_total : Nat,
     active_candidate_total : Nat, total_priority_score : Nat, total_gas_used : Nat]

EngineTypeOK ==
    /\ candidates \in SUBSET Candidate /\ IsFiniteSet(candidates)
    /\ NamedByMember
    /\ metrics \in Counters

\* The cached gas is the exact gas of the block, which is within the limit.
GasExact ==
    /\ metrics.total_gas_used = SumOfGas(candidates)
    /\ SumOfGas(candidates) <= BlockGasLimit

EngineInv == EngineTypeOK /\ GasExact

\* Sums over the active set or a part of it.
LEMMA SumsType ==
    ASSUME NEW S \in SUBSET Candidate, IsFiniteSet(S), NEW T \in SUBSET S
    PROVE  /\ SumOfGas(S) \in Nat /\ SumOfScores(S) \in Nat
           /\ SumOfGas(T) \in Nat /\ SumOfScores(T) \in Nat
           /\ SumOfGas(S) = SumOfGas(T) + SumOfGas(S \ T)
           /\ SumOfScores(S) = SumOfScores(T) + SumOfScores(S \ T)
<1>1. /\ T \in SUBSET Candidate /\ IsFiniteSet(T)
      /\ S \ T \in SUBSET Candidate /\ IsFiniteSet(S \ T)
  BY FS_Subset, S \ T \in SUBSET S
<1>2. /\ SumOfGas(S) = SumOver(GasOf, S) /\ SumOfGas(T) = SumOver(GasOf, T)
      /\ SumOfGas(S \ T) = SumOver(GasOf, S \ T)
  BY <1>1, GasSum
<1>3. /\ SumOfScores(S) = SumOver(ScoreOf, S) /\ SumOfScores(T) = SumOver(ScoreOf, T)
      /\ SumOfScores(S \ T) = SumOver(ScoreOf, S \ T)
  BY <1>1, ScoreSum
<1>4. /\ SumOver(GasOf, S) \in Nat /\ SumOver(GasOf, T) \in Nat
      /\ SumOver(ScoreOf, S) \in Nat /\ SumOver(ScoreOf, T) \in Nat
  BY <1>1, SumIsNat, SummandsType
<1>5. /\ SumOver(GasOf, S) = SumOver(GasOf, T) + SumOver(GasOf, S \ T)
      /\ SumOver(ScoreOf, S) = SumOver(ScoreOf, T) + SumOver(ScoreOf, S \ T)
  BY SumSplits, SummandsType
<1>6. QED
  BY <1>2, <1>3, <1>4, <1>5

\* One candidate alone.
LEMMA SumsOfOne ==
    ASSUME NEW c \in Candidate
    PROVE  SumOfGas({c}) = c.gas_used /\ SumOfScores({c}) = c.priority_score
<1>1. {c} \in SUBSET Candidate /\ IsFiniteSet({c}) /\ c \in {c} /\ {c} \ {c} = {}
  BY FS_Singleton
<1>2. SumOfGas({c}) = SumOver(GasOf, {c}) /\ SumOfScores({c}) = SumOver(ScoreOf, {c})
  BY <1>1, GasSum, ScoreSum
<1>3. /\ SumOver(GasOf, {c}) = GasOf[c] + SumOver(GasOf, {c} \ {c})
      /\ SumOver(ScoreOf, {c}) = ScoreOf[c] + SumOver(ScoreOf, {c} \ {c})
  BY <1>1, SumTakesOut, SummandsType
<1>4. SumOver(GasOf, {}) = 0 /\ SumOver(ScoreOf, {}) = 0
  BY FS_EmptySet, SumUnfolds
<1>5. /\ GasOf[c] = c.gas_used /\ ScoreOf[c] = c.priority_score
      /\ c.gas_used \in Nat /\ c.priority_score \in Nat
  BY AssemblyAssumption DEF GasOf, ScoreOf, Candidate
<1>6. QED
  BY <1>1, <1>2, <1>3, <1>4, <1>5

\* The sums before and after an insertion.
LEMMA AcceptSums ==
    ASSUME EngineTypeOK, NEW c \in Offers, Accept(c)
    PROVE  /\ candidates' \in SUBSET Candidate /\ IsFiniteSet(candidates')
           /\ Conflicts(c) \in SUBSET candidates
           /\ SumOfGas(candidates) - SumOfGas(Conflicts(c)) + c.gas_used = SumOfGas(candidates')
           /\ SumOfScores(candidates) - SumOfScores(Conflicts(c)) + c.priority_score
                = SumOfScores(candidates')
<1>1. PICK old, gone, new : old = candidates /\ gone = Conflicts(c) /\ new = candidates'
  OBVIOUS
<1>2. /\ new = (old \ gone) \cup {c} /\ gone \in SUBSET old
      /\ old \in SUBSET Candidate /\ IsFiniteSet(old)
  BY <1>1 DEF Accept, Conflicts, EngineTypeOK
<1>3. c \in Candidate /\ c.candidate_id[2] \in c.tx_hashes
  BY OfferNamed
<1>4. c \notin old \ gone
  BY <1>1, <1>3 DEF Conflicts
<1>5. IsFiniteSet(new)
  BY <1>2, FS_Subset, FS_AddElement, old \ gone \in SUBSET old
<1>6. new \in SUBSET Candidate /\ {c} \in SUBSET new /\ new \ {c} = old \ gone
  BY <1>2, <1>3, <1>4
<1>7. /\ SumOfGas(new) = SumOfGas({c}) + SumOfGas(old \ gone)
      /\ SumOfScores(new) = SumOfScores({c}) + SumOfScores(old \ gone)
  <2>1. /\ SumOfGas(new) = SumOfGas({c}) + SumOfGas(new \ {c})
        /\ SumOfScores(new) = SumOfScores({c}) + SumOfScores(new \ {c})
    BY <1>5, <1>6, SumsType
  <2>2. QED
    BY <1>6, <2>1
<1>8. /\ SumOfGas(old) = SumOfGas(gone) + SumOfGas(old \ gone)
      /\ SumOfScores(old) = SumOfScores(gone) + SumOfScores(old \ gone)
      /\ SumOfGas(gone) \in Nat /\ SumOfScores(gone) \in Nat
  BY <1>2, SumsType
<1>9. SumOfGas(old \ gone) \in Nat /\ SumOfScores(old \ gone) \in Nat
  BY <1>2, SumsType, old \ gone \in SUBSET old
<1>10. /\ SumOfGas({c}) = c.gas_used /\ SumOfScores({c}) = c.priority_score
       /\ c.gas_used \in Nat /\ c.priority_score \in Nat
  BY <1>3, SumsOfOne, AssemblyAssumption DEF Candidate
<1>11. /\ SumOfGas(old) - SumOfGas(gone) + c.gas_used = SumOfGas(new)
       /\ SumOfScores(old) - SumOfScores(gone) + c.priority_score = SumOfScores(new)
  BY <1>7, <1>8, <1>9, <1>10
<1>12. QED
  BY <1>1, <1>2, <1>5, <1>6, <1>11

\* A counter counts, up to its limit.
LEMMA BumpType == \A n, by \in Nat : Bump(n, by) \in Nat
BY AssemblyAssumption DEF Bump

\* Refreshing replaces the three cached totals and nothing else.
LEMMA RefreshFacts ==
    ASSUME NEW m \in Counters, NEW S \in SUBSET Candidate, IsFiniteSet(S)
    PROVE  /\ RefreshLiveMetrics(m, S) \in Counters
           /\ RefreshLiveMetrics(m, S).total_gas_used = TotalGas(S)
           /\ RefreshLiveMetrics(m, S).rollback_total = m.rollback_total
<1>1. Cardinality(S) \in Nat
  BY FS_CardinalityType
<1>2. SumOfGas(S) \in Nat /\ SumOfScores(S) \in Nat
  BY SumsType, S \in SUBSET S
<1>3. TotalGas(S) \in Nat /\ TotalScore(S) \in Nat
  BY <1>2, AssemblyAssumption DEF TotalGas, TotalScore, Saturate
<1>4. QED
  BY <1>1, <1>3 DEF RefreshLiveMetrics, Counters

\* The gas check of an insertion is exact: nothing saturates in it that is let through.
LEMMA AcceptKeepsGas ==
    ASSUME EngineInv, NEW c \in Offers, Accept(c)
    PROVE  EngineInv'
<1>1. EngineTypeOK /\ GasExact
  BY DEF EngineInv
<1>2. /\ candidates' \in SUBSET Candidate /\ IsFiniteSet(candidates')
      /\ Conflicts(c) \in SUBSET candidates
      /\ SumOfGas(candidates) - SumOfGas(Conflicts(c)) + c.gas_used = SumOfGas(candidates')
  BY <1>1, AcceptSums
<1>3. PICK all, gone, gas, next :
        /\ all = SumOfGas(candidates) /\ gone = SumOfGas(Conflicts(c))
        /\ gas = c.gas_used /\ next = SumOfGas(candidates')
  OBVIOUS
<1>4. all \in Nat /\ gone \in Nat
  BY <1>1, <1>2, <1>3, SumsType DEF EngineTypeOK
<1>5. gone <= all
  <2>1. SumOfGas(candidates) = SumOfGas(Conflicts(c)) + SumOfGas(candidates \ Conflicts(c))
    BY <1>1, <1>2, SumsType DEF EngineTypeOK
  <2>2. SumOfGas(candidates \ Conflicts(c)) \in Nat
    BY <1>1, SumsType, candidates \ Conflicts(c) \in SUBSET candidates DEF EngineTypeOK
  <2>3. QED
    BY <1>3, <1>4, <2>1, <2>2
<1>6. next \in Nat
  BY <1>2, <1>3, SumsType, candidates' \in SUBSET candidates'
<1>7. gas \in Nat
  BY <1>3, OfferNamed, AssemblyAssumption DEF Candidate
<1>8. U64Max \in Nat /\ BlockGasLimit \in Nat /\ BlockGasLimit < U64Max
  BY AssemblyAssumption
<1>9. all <= BlockGasLimit /\ metrics.total_gas_used = all
  BY <1>1, <1>3 DEF GasExact
<1>10. TotalGas(Conflicts(c)) = gone
  BY <1>3, <1>4, <1>5, <1>8, <1>9 DEF TotalGas, Saturate
<1>11. SaturatingSub(all, gone) = all - gone
  BY <1>4, <1>5 DEF SaturatingSub
<1>12. Saturate(all - gone + gas) <= BlockGasLimit
  BY <1>3, <1>9, <1>10, <1>11 DEF Accept, NextGasUsed
<1>13. next = all - gone + gas
  BY <1>2, <1>3
<1>14. next <= BlockGasLimit
  BY <1>4, <1>5, <1>6, <1>7, <1>8, <1>12, <1>13 DEF Saturate
<1>15. TotalGas(candidates') = next
  BY <1>3, <1>6, <1>8, <1>14 DEF TotalGas, Saturate
<1>16. PICK m : m = [metrics EXCEPT !.inserted_total = Bump(@, 1),
                                    !.replaced_total = Bump(@, Cardinality(Conflicts(c)))]
  OBVIOUS
<1>17. m \in Counters
  <2>1. IsFiniteSet(Conflicts(c))
    BY <1>1, <1>2, FS_Subset DEF EngineTypeOK
  <2>2. Cardinality(Conflicts(c)) \in Nat
    BY <2>1, FS_CardinalityType
  <2>3. metrics \in Counters
    BY <1>1 DEF EngineTypeOK
  <2>4. /\ Bump(metrics.inserted_total, 1) \in Nat
        /\ Bump(metrics.replaced_total, Cardinality(Conflicts(c))) \in Nat
    BY <2>2, <2>3, BumpType DEF Counters
  <2>5. QED
    BY <1>16, <2>3, <2>4 DEF Counters
<1>18. metrics' = RefreshLiveMetrics(m, candidates')
  BY <1>16 DEF Accept
<1>19. metrics' \in Counters /\ metrics'.total_gas_used = next
  BY <1>2, <1>15, <1>17, <1>18, RefreshFacts
<1>20. NamedByMember'
  BY <1>1, OfferNamed DEF Accept, NamedByMember, EngineTypeOK
<1>21. EngineTypeOK'
  BY <1>2, <1>19, <1>20 DEF EngineTypeOK
<1>22. GasExact'
  BY <1>3, <1>14, <1>19 DEF GasExact
<1>23. QED
  BY <1>21, <1>22 DEF EngineInv

\* A rollback keeps the totals exact.
LEMMA RemoveKeepsGas ==
    ASSUME EngineInv, NEW id, RemoveCandidate(id)
    PROVE  /\ EngineInv'
           /\ \E c \in candidates : candidates' = candidates \ {c}
           /\ metrics'.rollback_total = Bump(metrics.rollback_total, 1)
<1>1. EngineTypeOK /\ GasExact
  BY DEF EngineInv
<1>2. PICK c \in candidates :
        /\ candidates' = candidates \ {c}
        /\ metrics' = RefreshLiveMetrics([metrics EXCEPT !.rollback_total = Bump(@, 1)],
                                         candidates')
  BY DEF RemoveCandidate
<1>3. PICK m : m = [metrics EXCEPT !.rollback_total = Bump(@, 1)]
  OBVIOUS
<1>4. metrics \in Counters
  BY <1>1 DEF EngineTypeOK
<1>5. Bump(metrics.rollback_total, 1) \in Nat
  BY <1>4, BumpType DEF Counters
<1>6. m \in Counters /\ m.rollback_total = Bump(metrics.rollback_total, 1)
  BY <1>3, <1>4, <1>5 DEF Counters
<1>7. candidates' \in SUBSET Candidate /\ IsFiniteSet(candidates')
  BY <1>1, <1>2, FS_RemoveElement DEF EngineTypeOK
<1>8. /\ metrics' \in Counters /\ metrics'.total_gas_used = TotalGas(candidates')
      /\ metrics'.rollback_total = Bump(metrics.rollback_total, 1)
  BY <1>2, <1>3, <1>6, <1>7, RefreshFacts
<1>9. SumOfGas(candidates') \in Nat /\ SumOfGas(candidates') <= BlockGasLimit
  <2>1. PICK old, rest : old = candidates /\ rest = candidates'
    OBVIOUS
  <2>2. /\ rest \in SUBSET old /\ old \ rest \in SUBSET old
        /\ old \in SUBSET Candidate /\ IsFiniteSet(old)
    BY <1>1, <1>2, <2>1 DEF EngineTypeOK
  <2>3. /\ SumOfGas(old) = SumOfGas(rest) + SumOfGas(old \ rest)
        /\ SumOfGas(rest) \in Nat /\ SumOfGas(old) \in Nat
    BY <2>2, SumsType
  <2>4. SumOfGas(old \ rest) \in Nat
    BY <2>2, SumsType
  <2>5. SumOfGas(old) <= BlockGasLimit /\ BlockGasLimit \in Nat
    BY <1>1, <2>1, AssemblyAssumption DEF GasExact
  <2>6. QED
    BY <2>1, <2>3, <2>4, <2>5
<1>10. TotalGas(candidates') = SumOfGas(candidates')
  BY <1>9, AssemblyAssumption DEF TotalGas, Saturate
<1>11. NamedByMember'
  BY <1>1, <1>2 DEF NamedByMember, EngineTypeOK
<1>12. QED
  BY <1>2, <1>7, <1>8, <1>9, <1>10, <1>11 DEF EngineInv, EngineTypeOK, GasExact

\* A refusal changes counters only.
LEMMA RejectKeepsGas ==
    ASSUME EngineInv, NEW c,
           RejectNotApproved(c) \/ RejectNotImproved(c) \/ RejectGasLimit(c)
    PROVE  EngineInv' /\ candidates' = candidates
<1>1. EngineTypeOK /\ GasExact /\ metrics \in Counters /\ candidates' = candidates
  BY DEF EngineInv, EngineTypeOK, RejectNotApproved, RejectNotImproved, RejectGasLimit
<1>2. /\ Bump(metrics.rejected_total, 1) \in Nat
      /\ Bump(metrics.rejected_simulation_not_approved_total, 1) \in Nat
      /\ Bump(metrics.rejected_objective_not_improved_total, 1) \in Nat
      /\ Bump(metrics.rejected_gas_limit_total, 1) \in Nat
  BY <1>1, BumpType DEF Counters
<1>3. metrics' \in Counters /\ metrics'.total_gas_used = metrics.total_gas_used
  BY <1>1, <1>2 DEF Counters, RejectNotApproved, RejectNotImproved, RejectGasLimit
<1>4. EngineTypeOK'
  BY <1>1, <1>3 DEF EngineTypeOK, NamedByMember
<1>5. GasExact'
  BY <1>1, <1>3 DEF GasExact
<1>6. QED
  BY <1>1, <1>4, <1>5 DEF EngineInv

\* The cached gas is exact and within the limit after every call.
LEMMA EngineKeepsGas == Spec => []EngineInv
<1>1. Init => EngineInv
  <2> SUFFICES ASSUME Init PROVE EngineInv
    OBVIOUS
  <2>1. candidates = {} /\ {} \in SUBSET Candidate /\ IsFiniteSet({})
    BY FS_EmptySet DEF Init
  <2>2. SumOfGas({}) = 0
    BY <2>1, GasSum, SumUnfolds
  <2>3. metrics \in Counters /\ metrics.total_gas_used = 0
    BY DEF Init, Counters
  <2>4. BlockGasLimit \in Nat
    BY AssemblyAssumption
  <2>5. QED
    BY <2>1, <2>2, <2>3, <2>4 DEF EngineInv, EngineTypeOK, GasExact, NamedByMember
<1>2. EngineInv /\ [Next]_vars => EngineInv'
  <2> SUFFICES ASSUME EngineInv, [Next]_vars PROVE EngineInv'
    OBVIOUS
  <2>1. CASE UNCHANGED vars
    BY <2>1 DEF vars, EngineInv, EngineTypeOK, NamedByMember, GasExact
  <2>2. QED
    BY <2>1, AcceptKeepsGas, RemoveKeepsGas, RejectKeepsGas DEF Next, Insert
<1>3. QED
  BY <1>1, <1>2, PTL DEF Spec

\* Candidates are displaced only for a higher sum of scores, for every set of offers and
\* whatever saturates: a candidate that wins scores more than the sum of all it displaces.
THEOREM DisplacementPays == Spec => DisplacementRaisesScore
<1> DEFINE Pays == \/ candidates \subseteq candidates'
                   \/ SumOfScores(candidates') > SumOfScores(candidates)
                   \/ \E c \in candidates :
                        /\ candidates' = candidates \ {c}
                        /\ metrics'.rollback_total = Bump(metrics.rollback_total, 1)
<1>1. EngineInv /\ [Next]_vars => Pays
  <2> SUFFICES ASSUME EngineInv, [Next]_vars PROVE Pays
    OBVIOUS
  <2>1. ASSUME NEW c \in Offers, Accept(c) PROVE Pays
    <3>1. EngineTypeOK
      BY DEF EngineInv
    <3>2. PICK gone, total, lost, after, score :
            /\ gone = Conflicts(c) /\ total = SumOfScores(candidates)
            /\ lost = SumOfScores(gone) /\ after = SumOfScores(candidates')
            /\ score = c.priority_score
      OBVIOUS
    <3>3. CASE gone = {}
      BY <2>1, <3>2, <3>3 DEF Accept
    <3>4. CASE gone # {}
      <4>1. gone \in SUBSET candidates /\ total - lost + score = after
        BY <2>1, <3>1, <3>2, AcceptSums
      <4>2. lost \in Nat /\ total \in Nat
        BY <3>1, <3>2, <4>1, SumsType DEF EngineTypeOK
      <4>3. score \in 0..U64Max /\ U64Max \in Nat
        BY <3>2, OfferNamed, AssemblyAssumption DEF Candidate
      <4>4. score > Saturate(lost)
        BY <2>1, <3>2, <3>4 DEF Accept, Improves, TotalScore
      <4>5. score > lost
        BY <4>2, <4>3, <4>4 DEF Saturate
      <4>6. after > total
        BY <4>1, <4>2, <4>3, <4>5
      <4>7. QED
        BY <3>2, <4>6
    <3>5. QED
      BY <3>3, <3>4
  <2>2. ASSUME NEW id \in Strategies \X Hashes, RemoveCandidate(id) PROVE Pays
    BY <2>2, RemoveKeepsGas
  <2>3. CASE candidates' = candidates
    BY <2>3
  <2>4. QED
    BY <2>1, <2>2, <2>3, EngineCalls
<1>2. QED
  BY <1>1, EngineKeepsGas, PTL DEF Spec, DisplacementRaisesScore

----------------------------------------------------------------------------
(* The template on its way to the relay *)

Template == [tx_count : Nat, gas_used : Nat]
Submission == [at : {"idle", "sending", "backoff"}, attempt : Nat, template : Template]

\* The template counts the members and has the gas of the active set.
Carries(t) == t.tx_count = SumOver(SizeOf, candidates) /\ t.gas_used = metrics.total_gas_used

SubmissionsOK ==
    /\ submission \in [Submitters -> Submission]
    /\ \A s \in Submitters : submission[s].at # "idle" => Carries(submission[s].template)

\* The engine beside its relay client is an engine: what a submission borrows it does not
\* change.  Every theorem about AssemblyEngine holds here.
THEOREM RelayRunsEngine == RelaySpec => Spec
<1>1. RelayInit => Init
  BY DEF RelayInit
<1>2. [RelayNext]_allVars => [Next]_vars
  BY DEF RelayNext, EngineStep, Submit, SubmitWhileOpen, Proceed, Accepted, Retry, Resend,
         Exhausted, Tick, allVars, vars
<1>3. QED
  BY <1>1, <1>2, PTL DEF RelaySpec, Spec

\* A new template is the active set's.
LEMMA BuiltTemplate ==
    ASSUME EngineInv
    PROVE  BuildRelayTemplate \in Template /\ Carries(BuildRelayTemplate)
<1>1. candidates \in SUBSET Candidate /\ IsFiniteSet(candidates) /\ metrics \in Counters
  BY DEF EngineInv, EngineTypeOK
<1>2. PICK n : n = MapThenSumSet(LAMBDA c : Cardinality(c.tx_hashes), candidates)
  OBVIOUS
<1>3. n = SumOver(SizeOf, candidates)
  BY <1>1, <1>2, SizeSum
<1>4. n \in Nat
  BY <1>1, <1>3, SumIsNat, SummandsType
<1>5. BuildRelayTemplate = [tx_count |-> n, gas_used |-> metrics.total_gas_used]
  BY <1>2 DEF BuildRelayTemplate
<1>6. QED
  BY <1>1, <1>3, <1>4, <1>5 DEF Template, Carries, Counters

\* Every step keeps the template of a submission that is under way.
LEMMA RelayKeepsTemplates ==
    ASSUME EngineInv, SubmissionsOK, [RelayNext]_allVars
    PROVE  SubmissionsOK'
<1>1. submission \in [Submitters -> Submission]
  BY DEF SubmissionsOK
<1>2. Idle \in Submission /\ Idle.at = "idle"
  BY DEF Idle, Submission, Template
<1>3. ASSUME UNCHANGED <<candidates, metrics>>, NEW s \in Submitters, NEW sub \in Submission,
             submission' = [submission EXCEPT ![s] = sub],
             sub.at # "idle" => Carries(sub.template)
      PROVE  SubmissionsOK'
  BY <1>1, <1>3 DEF SubmissionsOK, Carries
<1>4. CASE EngineStep
  BY <1>1, <1>4 DEF EngineStep, Borrowed, relayVars, SubmissionsOK
<1>5. CASE UNCHANGED <<candidates, metrics, submission>>
  BY <1>5 DEF SubmissionsOK, Carries
<1>6. ASSUME NEW s \in Submitters, Submit(s) PROVE SubmissionsOK'
  <2>1. PICK sub : sub = [at |-> "sending", attempt |-> 0, template |-> BuildRelayTemplate]
    OBVIOUS
  <2>2. sub \in Submission /\ Carries(sub.template)
    BY <2>1, BuiltTemplate DEF Submission
  <2>3. submission' = [submission EXCEPT ![s] = sub] /\ UNCHANGED <<candidates, metrics>>
    BY <1>6, <2>1 DEF Submit
  <2>4. QED
    BY <1>3, <2>2, <2>3
<1>7. ASSUME NEW s \in Submitters, Accepted(s) \/ Exhausted(s) PROVE SubmissionsOK'
  BY <1>2, <1>3, <1>7 DEF Accepted, Exhausted
<1>8. ASSUME NEW s \in Submitters, Retry(s) \/ Resend(s) PROVE SubmissionsOK'
  <2>1. PICK sub : sub = submission'[s]
    OBVIOUS
  <2>2. submission[s] \in Submission /\ submission[s].at # "idle"
    BY <1>1, <1>8 DEF Retry, Resend
  <2>3. sub \in Submission /\ sub.template = submission[s].template
    BY <1>1, <1>8, <2>1, <2>2 DEF Retry, Resend, Submission
  <2>4. submission' = [submission EXCEPT ![s] = sub] /\ UNCHANGED <<candidates, metrics>>
    BY <1>1, <1>8, <2>1 DEF Retry, Resend
  <2>5. Carries(sub.template)
    BY <2>2, <2>3 DEF SubmissionsOK
  <2>6. QED
    BY <1>3, <2>3, <2>4, <2>5
<1>9. QED
  BY <1>4, <1>5, <1>6, <1>7, <1>8 DEF RelayNext, Proceed, SubmitWhileOpen, Tick, allVars

\* TemplateIsTheBlock for every set of offers, any number of concurrent submissions and of
\* retries: when the relay answers, the template counts each transaction of the block once
\* and has its exact gas, within the limit.
THEOREM TemplateIsExact == RelaySpec => []TemplateIsTheBlock
<1>1. RelayInit => SubmissionsOK
  BY DEF RelayInit, SubmissionsOK, Idle, Submission, Template
<1>2. EngineInv /\ SubmissionsOK /\ [RelayNext]_allVars => SubmissionsOK'
  BY RelayKeepsTemplates
<1>3. EngineInv /\ NoSharedTransaction /\ SubmissionsOK => TemplateIsTheBlock
  <2> SUFFICES ASSUME EngineInv, NoSharedTransaction, SubmissionsOK,
                      NEW s \in Submitters, submission[s].at # "idle"
               PROVE  LET t == submission[s].template
                      IN  /\ t.tx_count = Cardinality(UNION {c.tx_hashes : c \in candidates})
                          /\ t.gas_used = SumOfGas(candidates)
                          /\ t.gas_used <= BlockGasLimit
    BY DEF TemplateIsTheBlock
  <2>1. Carries(submission[s].template)
    BY DEF SubmissionsOK
  <2>2. candidates \in SUBSET Candidate /\ IsFiniteSet(candidates)
    BY DEF EngineInv, EngineTypeOK
  <2>3. \A c, d \in candidates : c # d => c.tx_hashes \cap d.tx_hashes = {}
    BY DEF NoSharedTransaction
  <2>4. SumOver(SizeOf, candidates) = Cardinality(UNION {c.tx_hashes : c \in candidates})
    BY <2>2, <2>3, MembersCounted
  <2>5. QED
    BY <2>1, <2>4 DEF Carries, EngineInv, GasExact
<1>4. QED
  BY <1>1, <1>2, <1>3, RelayRunsEngine, EngineKeepsGas, NoTransactionTwice, PTL DEF RelaySpec
=============================================================================
