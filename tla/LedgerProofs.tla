----------------------------- MODULE LedgerProofs -----------------------------
(***************************************************************************)
(* The wallets and the ledger, for any number of wallets, orders, workers  *)
(* and cents.  The first part is about sums: what SumFunctionOnSet adds up *)
(* whichever element it takes first; induction over a finite set is the    *)
(* choice of a smallest counterexample.                                    *)
(***************************************************************************)
EXTENDS PaymentLedger, FiniteSetTheorems, TLAPS

\* The element a sum takes first, and the sum after it.
Pick(s) == CHOOSE x \in s : TRUE
SumStep(g, f, s) == IF s = {} THEN 0 ELSE f[Pick(s)] + g[s \ {Pick(s)}]

(* Among sets of parts of a finite set there is one none of whose own      *)
(* parts is among them.                                                    *)
LEMMA Least ==
    ASSUME NEW S, IsFiniteSet(S), NEW B \in SUBSET SUBSET S, B # {}
    PROVE  \E U \in B : \A V \in SUBSET U : V # U => V \notin B
<1>1. IsWellFoundedOn(StrictSubsetOrdering(S), FiniteSubsetsOf(S))
    BY FS_StrictSubsetOrderingWellFounded
<1>2. B \subseteq FiniteSubsetsOf(S)
    BY FS_Subset DEF FiniteSubsetsOf
<1>3. PICK U \in B : \A V \in B : <<V, U>> \notin StrictSubsetOrdering(S)
    BY <1>1, <1>2, WFMin
<1> QED
    BY <1>3 DEF StrictSubsetOrdering

(* Induction over a finite set: G has every part of S if it has each part  *)
(* from which every removal of one element is in G.                        *)
LEMMA SetInduction ==
    ASSUME NEW S, IsFiniteSet(S), NEW G,
           \A U \in SUBSET S : (\A x \in U : U \ {x} \in G) => U \in G
    PROVE  \A U \in SUBSET S : U \in G
<1> DEFINE B == (SUBSET S) \ G
<1> SUFFICES ASSUME B # {} PROVE FALSE
    OBVIOUS
<1>1. B \in SUBSET SUBSET S
    OBVIOUS
<1> HIDE DEF B
<1>2. PICK U \in B : \A V \in SUBSET U : V # U => V \notin B
    BY <1>1, Least
<1>3. U \in SUBSET S /\ U \notin G
    BY DEF B
<1>4. ASSUME NEW x \in U PROVE U \ {x} \in G
    BY <1>2, <1>3 DEF B
<1> QED
    BY <1>3, <1>4

(* A set of natural numbers has a least one.                               *)
LEMMA LeastNat ==
    ASSUME NEW B \in SUBSET Nat, B # {}
    PROVE  \E n \in B : \A m \in B : ~ (m < n)
<1>1. IsWellFoundedOn(OpToRel(<, Nat), Nat)
    BY NatLessThanWellFounded
<1>2. PICK n \in B : \A m \in B : <<m, n>> \notin OpToRel(<, Nat)
    BY <1>1, WFMin
<1> QED
    BY <1>2 DEF OpToRel

(* The recursive function that the fold defines exists: up to every size   *)
(* of the parts of S there is one that obeys the recursion.                *)
LEMMA SumExists ==
    ASSUME NEW f, NEW S, IsFiniteSet(S)
    PROVE  \E g : g = [s \in SUBSET S |-> SumStep(g, f, s)]
<1> DEFINE Upto(n, h) == /\ h = [s \in SUBSET S |-> h[s]]
                         /\ \A s \in SUBSET S : Cardinality(s) <= n => h[s] = SumStep(h, f, s)
           B == {n \in Nat : ~ \E h : Upto(n, h)}
<1>1. \A s \in SUBSET S : IsFiniteSet(s) /\ Cardinality(s) \in Nat /\ Cardinality(s) <= Cardinality(S)
    BY FS_Subset, FS_CardinalityType
<1>2. \A s \in SUBSET S : s # {} => /\ Pick(s) \in s /\ s \ {Pick(s)} \in SUBSET S
                                    /\ Cardinality(s \ {Pick(s)}) = Cardinality(s) - 1
    <2> TAKE s \in SUBSET S
    <2>1. s # {} => Pick(s) \in s
        BY DEF Pick
    <2>2. IsFiniteSet(s)
        BY <1>1
    <2> QED
        BY <2>1, <2>2, FS_RemoveElement
<1>3. \E h : Upto(0, h)
    <2> DEFINE h == [s \in SUBSET S |-> 0]
    <2>1. \A s \in SUBSET S : Cardinality(s) <= 0 => s = {}
        BY <1>1, FS_EmptySet
    <2>2. Upto(0, h)
        BY <2>1 DEF SumStep
    <2> QED
        BY <2>2
<1>4. ASSUME NEW n \in Nat, NEW h, Upto(n, h)
      PROVE  \E k : Upto(n + 1, k)
    <2> DEFINE k == [s \in SUBSET S |-> SumStep(h, f, s)]
    <2>1. \A s \in SUBSET S : Cardinality(s) <= n => k[s] = h[s]
        BY <1>4
    <2>2. ASSUME NEW s \in SUBSET S, Cardinality(s) <= n + 1
          PROVE  k[s] = SumStep(k, f, s)
        <3>1. CASE s = {}
            BY <3>1 DEF SumStep
        <3>2. CASE s # {}
            <4> DEFINE r == s \ {Pick(s)}
            <4>1. r \in SUBSET S /\ Cardinality(r) <= n
                BY <1>1, <1>2, <2>2, <3>2
            <4>2. k[r] = h[r]
                BY <2>1, <4>1
            <4>3. k[s] = SumStep(h, f, s)
                OBVIOUS
            <4> HIDE DEF k
            <4> QED
                BY <4>2, <4>3, <3>2 DEF SumStep
        <3> QED
            BY <3>1, <3>2
    <2>3. k = [s \in SUBSET S |-> k[s]]
        OBVIOUS
    <2> HIDE DEF k
    <2>4. Upto(n + 1, k)
        BY <2>2, <2>3
    <2> QED
        BY <2>4
<1>5. B = {}
    <2> SUFFICES ASSUME B # {} PROVE FALSE
        OBVIOUS
    <2>1. B \in SUBSET Nat
        OBVIOUS
    <2> HIDE DEF B
    <2>2. PICK n \in B : \A m \in B : ~ (m < n)
        BY <2>1, LeastNat
    <2>3. n \in Nat /\ ~ \E h : Upto(n, h)
        BY DEF B
    <2> HIDE DEF Upto
    <2>4. n # 0
        BY <1>3, <2>3
    <2>5. n - 1 \in Nat /\ (n - 1) + 1 = n
        BY <2>3, <2>4
    <2>6. n - 1 \notin B
        BY <2>2, <2>5
    <2>7. \E h : Upto(n - 1, h)
        BY <2>5, <2>6 DEF B
    <2> QED
        BY <1>4, <2>3, <2>5, <2>7
<1>6. PICK h : Upto(Cardinality(S), h)
    BY <1>1, <1>5
<1>7. \A s \in SUBSET S : h[s] = SumStep(h, f, s)
    BY <1>1, <1>6
<1>8. h = [s \in SUBSET S |-> h[s]]
    BY <1>6
<1>9. h = [s \in SUBSET S |-> SumStep(h, f, s)]
    BY <1>7, <1>8
<1> QED
    BY <1>9

\* The sums over all parts of S.
Sums(f, S) == CHOOSE g : g = [s \in SUBSET S |-> SumStep(g, f, s)]

(* What SumFunctionOnSet computes: the last of these sums.                 *)
LEMMA SumIs ==
    ASSUME NEW f, NEW S, IsFiniteSet(S)
    PROVE  /\ SumFunctionOnSet(f, S) = Sums(f, S)[S]
           /\ \A s \in SUBSET S : Sums(f, S)[s] = SumStep(Sums(f, S), f, s)
<1>1. SumFunctionOnSet(f, S) = Sums(f, S)[S]
    BY DEF SumFunctionOnSet, FoldFunctionOnSet, MapThenFoldSet, Pick, Sums, SumStep
<1>2. Sums(f, S) = [s \in SUBSET S |-> SumStep(Sums(f, S), f, s)]
    BY SumExists DEF Sums
<1>3. \A s \in SUBSET S : Sums(f, S)[s] = SumStep(Sums(f, S), f, s)
    BY <1>2
<1> QED
    BY <1>1, <1>3

(* A sum of integers is one.                                               *)
LEMMA SumsType ==
    ASSUME NEW f, NEW S, IsFiniteSet(S), \A x \in S : f[x] \in Int
    PROVE  \A s \in SUBSET S : Sums(f, S)[s] \in Int
<1> DEFINE g == Sums(f, S)
           G == {s \in SUBSET S : g[s] \in Int}
<1>1. \A s \in SUBSET S : g[s] = SumStep(g, f, s)
    BY SumIs
<1> HIDE DEF g
<1>2. ASSUME NEW U \in SUBSET S, \A x \in U : U \ {x} \in G
      PROVE  U \in G
    <2>1. U # {} => Pick(U) \in U
        BY DEF Pick
    <2>2. g[U] = SumStep(g, f, U)
        BY <1>1
    <2> QED
        BY <1>2, <2>1, <2>2 DEF SumStep
<1> HIDE DEF G
<1>3. \A U \in SUBSET S : U \in G
    BY <1>2, SetInduction
<1> QED
    BY <1>3 DEF g, G

(* Whichever element is taken first, the sum is the same.                  *)
LEMMA SumsPick ==
    ASSUME NEW f, NEW S, IsFiniteSet(S), \A x \in S : f[x] \in Int,
           NEW s \in SUBSET S, NEW x \in s
    PROVE  Sums(f, S)[s] = f[x] + Sums(f, S)[s \ {x}]
<1> DEFINE g == Sums(f, S)
           G == {t \in SUBSET S : \A y \in t : g[t] = f[y] + g[t \ {y}]}
<1>1. \A t \in SUBSET S : g[t] = SumStep(g, f, t) /\ g[t] \in Int
    BY SumIs, SumsType
<1> HIDE DEF g
<1>2. ASSUME NEW U \in SUBSET S, \A v \in U : U \ {v} \in G, NEW y \in U
      PROVE  g[U] = f[y] + g[U \ {y}]
    <2> DEFINE z == Pick(U)
               W == (U \ {z}) \ {y}
    <2>1. z \in U
        BY DEF Pick
    <2>2. g[U] = f[z] + g[U \ {z}]
        BY <1>1, <2>1 DEF SumStep
    <2> HIDE DEF z
    <2>3. CASE z = y
        BY <2>2, <2>3
    <2>4. CASE z # y
        <3>1. g[U \ {z}] = f[y] + g[W]
            BY <1>2, <2>1, <2>4
        <3>2. g[U \ {y}] = f[z] + g[(U \ {y}) \ {z}]
            BY <1>2, <2>1, <2>4
        <3>3. (U \ {y}) \ {z} = W
            OBVIOUS
        <3>4. f[y] \in Int /\ f[z] \in Int /\ g[W] \in Int
            BY <1>1, <2>1
        <3> HIDE DEF W
        <3>5. g[U \ {y}] = f[z] + g[W]
            BY <3>2, <3>3
        <3> QED
            BY <2>2, <3>1, <3>4, <3>5
    <2> QED
        BY <2>3, <2>4
<1>3. \A U \in SUBSET S : (\A v \in U : U \ {v} \in G) => U \in G
    BY <1>2
<1> HIDE DEF G
<1>4. \A U \in SUBSET S : U \in G
    BY <1>3, SetInduction
<1> QED
    BY <1>4 DEF g, G

(* A sum depends on the values at the elements that are added, and on      *)
(* nothing else of the function or of the set it is part of.               *)
LEMMA SumsAgree ==
    ASSUME NEW f, NEW S, IsFiniteSet(S), NEW h, NEW T, IsFiniteSet(T),
           NEW s \in SUBSET (S \cap T), \A x \in s : f[x] = h[x]
    PROVE  Sums(f, S)[s] = Sums(h, T)[s]
<1> DEFINE g == Sums(f, S)
           k == Sums(h, T)
           G == {t \in SUBSET s : g[t] = k[t]}
<1>1. /\ \A t \in SUBSET S : g[t] = SumStep(g, f, t)
      /\ \A t \in SUBSET T : k[t] = SumStep(k, h, t)
    BY SumIs
<1> HIDE DEF g, k
<1>2. ASSUME NEW U \in SUBSET s, \A x \in U : U \ {x} \in G
      PROVE  U \in G
    <2>1. U # {} => Pick(U) \in U
        BY DEF Pick
    <2>2. g[U] = SumStep(g, f, U) /\ k[U] = SumStep(k, h, U)
        BY <1>1
    <2> QED
        BY <1>2, <2>1, <2>2 DEF SumStep
<1> HIDE DEF G
<1>3. IsFiniteSet(s)
    BY FS_Subset
<1>4. \A U \in SUBSET s : U \in G
    BY <1>2, <1>3, SetInduction
<1> QED
    BY <1>4 DEF g, k, G

(* An empty sum is 0.                                                      *)
LEMMA SumEmpty == ASSUME NEW f PROVE SumFunctionOnSet(f, {}) = 0
<1>1. IsFiniteSet({})
    BY FS_EmptySet
<1>2. Sums(f, {})[{}] = SumStep(Sums(f, {}), f, {})
    BY <1>1, SumIs
<1> QED
    BY <1>1, <1>2, SumIs DEF SumStep

(* A sum of integers is an integer.                                        *)
LEMMA SumType ==
    ASSUME NEW f, NEW S, IsFiniteSet(S), \A x \in S : f[x] \in Int
    PROVE  SumFunctionOnSet(f, S) \in Int
<1> QED
    BY SumIs, SumsType

(* What sums are known by from here on: any element can be taken out of a  *)
(* sum, and what is left is the sum of the others.                         *)
LEMMA SumPick ==
    ASSUME NEW f, NEW S, IsFiniteSet(S), \A x \in S : f[x] \in Int, NEW x \in S
    PROVE  SumFunctionOnSet(f, S) = f[x] + SumFunctionOnSet(f, S \ {x})
<1>1. IsFiniteSet(S \ {x})
    BY FS_Subset
<1>2. SumFunctionOnSet(f, S) = Sums(f, S)[S] /\ SumFunctionOnSet(f, S \ {x}) = Sums(f, S \ {x})[S \ {x}]
    BY <1>1, SumIs
<1>3. Sums(f, S)[S] = f[x] + Sums(f, S)[S \ {x}]
    BY SumsPick
<1>4. Sums(f, S)[S \ {x}] = Sums(f, S \ {x})[S \ {x}]
    BY <1>1, SumsAgree
<1> QED
    BY <1>2, <1>3, <1>4

(* Equal at every element, equal in sum.                                   *)
LEMMA SumSame ==
    ASSUME NEW f, NEW h, NEW S, IsFiniteSet(S), \A x \in S : f[x] = h[x]
    PROVE  SumFunctionOnSet(f, S) = SumFunctionOnSet(h, S)
<1>1. Sums(f, S)[S] = Sums(h, S)[S]
    BY SumsAgree
<1> QED
    BY <1>1, SumIs

(* One more element adds its value.                                        *)
LEMMA SumAdd ==
    ASSUME NEW f, NEW S, IsFiniteSet(S), NEW x, x \notin S, \A y \in S \cup {x} : f[y] \in Int
    PROVE  SumFunctionOnSet(f, S \cup {x}) = f[x] + SumFunctionOnSet(f, S)
<1>1. IsFiniteSet(S \cup {x})
    BY FS_AddElement
<1>2. (S \cup {x}) \ {x} = S
    OBVIOUS
<1> QED
    BY <1>1, <1>2, SumPick

(* A sum of sums is the sum of the two.                                    *)
LEMMA SumPlus ==
    ASSUME NEW f, NEW e, NEW h, NEW S, IsFiniteSet(S),
           \A x \in S : f[x] \in Int /\ e[x] \in Int /\ h[x] = f[x] + e[x]
    PROVE  SumFunctionOnSet(h, S) = SumFunctionOnSet(f, S) + SumFunctionOnSet(e, S)
<1> DEFINE G == {s \in SUBSET S : SumFunctionOnSet(h, s) = SumFunctionOnSet(f, s) + SumFunctionOnSet(e, s)}
<1>1. ASSUME NEW U \in SUBSET S, \A x \in U : U \ {x} \in G
      PROVE  U \in G
    <2>1. CASE U = {}
        BY <2>1, SumEmpty
    <2>2. CASE U # {}
        <3>1. PICK x \in U : TRUE
            BY <2>2
        <3>2. IsFiniteSet(U) /\ IsFiniteSet(U \ {x})
            BY FS_Subset
        <3>3. \A y \in U : f[y] \in Int /\ e[y] \in Int /\ h[y] \in Int
            OBVIOUS
        <3>4. /\ SumFunctionOnSet(h, U) = h[x] + SumFunctionOnSet(h, U \ {x})
              /\ SumFunctionOnSet(f, U) = f[x] + SumFunctionOnSet(f, U \ {x})
              /\ SumFunctionOnSet(e, U) = e[x] + SumFunctionOnSet(e, U \ {x})
            BY <3>2, <3>3, SumPick
        <3>5. /\ SumFunctionOnSet(f, U \ {x}) \in Int
              /\ SumFunctionOnSet(e, U \ {x}) \in Int
            BY <3>2, <3>3, SumType
        <3>6. h[x] = f[x] + e[x] /\ f[x] \in Int /\ e[x] \in Int
            OBVIOUS
        <3> QED
            BY <1>1, <3>4, <3>5, <3>6
    <2> QED
        BY <2>1, <2>2
<1> HIDE DEF G
<1>2. \A U \in SUBSET S : U \in G
    BY <1>1, SetInduction
<1> QED
    BY <1>2 DEF G

(* Zeros add up to zero.                                                   *)
LEMMA SumZero ==
    ASSUME NEW f, NEW S, IsFiniteSet(S), \A x \in S : f[x] = 0
    PROVE  SumFunctionOnSet(f, S) = 0
<1>1. SumFunctionOnSet(f, S) = SumFunctionOnSet(f, S) + SumFunctionOnSet(f, S)
    BY SumPlus
<1>2. SumFunctionOnSet(f, S) \in Int
    BY SumType
<1>3. \A n \in Int : n = n + n => n = 0
    OBVIOUS
<1> QED
    BY <1>1, <1>2, <1>3, Zenon

(* A sum that is zero but at one element is the value there.               *)
LEMMA SumSingle ==
    ASSUME NEW f, NEW S, IsFiniteSet(S), NEW x \in S, f[x] \in Int,
           \A y \in S : y # x => f[y] = 0
    PROVE  SumFunctionOnSet(f, S) = f[x]
<1>1. \A y \in S : f[y] \in Int
    OBVIOUS
<1>2. IsFiniteSet(S \ {x})
    BY FS_Subset
<1>3. SumFunctionOnSet(f, S \ {x}) = 0
    BY <1>2, SumZero
<1> QED
    BY <1>1, <1>3, SumPick

(* The sum with the other sign.                                            *)
LEMMA SumNegate ==
    ASSUME NEW f, NEW h, NEW S, IsFiniteSet(S), \A x \in S : f[x] \in Int /\ h[x] = -f[x]
    PROVE  SumFunctionOnSet(h, S) = -SumFunctionOnSet(f, S)
<1> DEFINE z == [x \in S |-> 0]
<1>1. \A x \in S : f[x] \in Int /\ h[x] \in Int /\ z[x] = f[x] + h[x]
    OBVIOUS
<1>2. \A x \in S : z[x] = 0
    OBVIOUS
<1> HIDE DEF z
<1>3. SumFunctionOnSet(z, S) = SumFunctionOnSet(f, S) + SumFunctionOnSet(h, S)
    BY <1>1, SumPlus
<1>4. SumFunctionOnSet(z, S) = 0
    BY <1>2, SumZero
<1>5. SumFunctionOnSet(f, S) \in Int /\ SumFunctionOnSet(h, S) \in Int
    BY <1>1, SumType
<1> QED
    BY <1>3, <1>4, <1>5

(* A sum of natural numbers is one.                                        *)
LEMMA SumNonneg ==
    ASSUME NEW f, NEW S, IsFiniteSet(S), \A x \in S : f[x] \in Nat
    PROVE  SumFunctionOnSet(f, S) \in Nat
<1> DEFINE G == {s \in SUBSET S : SumFunctionOnSet(f, s) \in Nat}
<1>1. ASSUME NEW U \in SUBSET S, \A x \in U : U \ {x} \in G
      PROVE  U \in G
    <2>1. CASE U = {}
        BY <2>1, SumEmpty
    <2>2. CASE U # {}
        <3>1. PICK x \in U : TRUE
            BY <2>2
        <3>2. IsFiniteSet(U) /\ \A y \in U : f[y] \in Int
            BY FS_Subset
        <3>3. SumFunctionOnSet(f, U) = f[x] + SumFunctionOnSet(f, U \ {x})
            BY <3>2, SumPick
        <3> QED
            BY <1>1, <3>3
    <2> QED
        BY <2>1, <2>2
<1> HIDE DEF G
<1>2. \A U \in SUBSET S : U \in G
    BY <1>1, SetInduction
<1> QED
    BY <1>2 DEF G

(* A smaller value at every element, a smaller sum.                        *)
LEMMA SumAtMost ==
    ASSUME NEW f, NEW h, NEW S, IsFiniteSet(S),
           \A x \in S : f[x] \in Int /\ h[x] \in Int /\ f[x] <= h[x]
    PROVE  SumFunctionOnSet(f, S) <= SumFunctionOnSet(h, S)
<1> DEFINE d == [x \in S |-> h[x] - f[x]]
<1>1. \A x \in S : f[x] \in Int /\ d[x] \in Nat /\ h[x] = f[x] + d[x]
    OBVIOUS
<1> HIDE DEF d
<1>2. SumFunctionOnSet(h, S) = SumFunctionOnSet(f, S) + SumFunctionOnSet(d, S)
    BY <1>1, SumPlus
<1>3. SumFunctionOnSet(d, S) \in Nat /\ SumFunctionOnSet(f, S) \in Int
    BY <1>1, SumNonneg, SumType
<1> QED
    BY <1>2, <1>3

(* The sum over a set is the sum over a part and over the rest.            *)
LEMMA SumSplit ==
    ASSUME NEW f, NEW S, IsFiniteSet(S), \A x \in S : f[x] \in Int, NEW P \in SUBSET S
    PROVE  SumFunctionOnSet(f, S) = SumFunctionOnSet(f, P) + SumFunctionOnSet(f, S \ P)
<1> DEFINE G == {s \in SUBSET S :
                    SumFunctionOnSet(f, s) = SumFunctionOnSet(f, s \cap P) + SumFunctionOnSet(f, s \ P)}
<1>1. ASSUME NEW U \in SUBSET S, \A x \in U : U \ {x} \in G
      PROVE  U \in G
    <2>1. CASE U = {}
        <3>1. U \cap P = {} /\ U \ P = {}
            BY <2>1
        <3> QED
            BY <2>1, <3>1, SumEmpty
    <2>2. CASE U # {}
        <3>1. PICK x \in U : TRUE
            BY <2>2
        <3> DEFINE V == U \ {x}
        <3>2. /\ IsFiniteSet(U) /\ IsFiniteSet(U \cap P) /\ IsFiniteSet(U \ P)
              /\ IsFiniteSet(V \cap P) /\ IsFiniteSet(V \ P)
            BY FS_Subset
        <3>3. SumFunctionOnSet(f, U) = f[x] + SumFunctionOnSet(f, V)
            BY <3>2, SumPick
        <3>4. SumFunctionOnSet(f, V) = SumFunctionOnSet(f, V \cap P) + SumFunctionOnSet(f, V \ P)
            BY <1>1
        <3>5. SumFunctionOnSet(f, V \cap P) \in Int /\ SumFunctionOnSet(f, V \ P) \in Int /\ f[x] \in Int
            BY <3>2, SumType
        <3> SUFFICES SumFunctionOnSet(f, U) = SumFunctionOnSet(f, U \cap P) + SumFunctionOnSet(f, U \ P)
            OBVIOUS
        <3> HIDE DEF V
        <3>6. CASE x \in P
            <4>1. (U \cap P) \ {x} = V \cap P /\ U \ P = V \ P /\ x \in U \cap P
                BY <3>6 DEF V
            <4>2. SumFunctionOnSet(f, U \cap P) = f[x] + SumFunctionOnSet(f, V \cap P)
                BY <3>2, <4>1, SumPick
            <4>3. SumFunctionOnSet(f, U \ P) = SumFunctionOnSet(f, V \ P)
                BY <4>1, Zenon
            <4> QED
                BY <3>3, <3>4, <3>5, <4>2, <4>3
        <3>7. CASE x \notin P
            <4>1. (U \ P) \ {x} = V \ P /\ U \cap P = V \cap P /\ x \in U \ P
                BY <3>7 DEF V
            <4>2. SumFunctionOnSet(f, U \ P) = f[x] + SumFunctionOnSet(f, V \ P)
                BY <3>2, <4>1, SumPick
            <4>3. SumFunctionOnSet(f, U \cap P) = SumFunctionOnSet(f, V \cap P)
                BY <4>1, Zenon
            <4> QED
                BY <3>3, <3>4, <3>5, <4>2, <4>3
        <3> QED
            BY <3>6, <3>7
    <2> QED
        BY <2>1, <2>2
<1> HIDE DEF G
<1>2. S \in G
    BY <1>1, SetInduction
<1>3. S \cap P = P
    OBVIOUS
<1> QED
    BY <1>2, <1>3 DEF G

(* Division by a positive number, rounded down.                            *)
LEMMA DivIs ==
    ASSUME NEW T \in Nat, T > 0, NEW x \in Int
    PROVE  x \div T \in Int /\ T * (x \div T) <= x /\ x < T * (x \div T) + T
OBVIOUS

(* A multiple below the next multiple is not above this one.               *)
LEMMA MultipleBelow ==
    ASSUME NEW T \in Nat, T > 0, NEW a \in Int, NEW b \in Int, T * a < T * b + T
    PROVE  a <= b
<1> SUFFICES ASSUME a >= b + 1 PROVE FALSE
    OBVIOUS
<1>1. a - (b + 1) \in Nat
    OBVIOUS
<1>2. T * (a - (b + 1)) \in Nat
    BY <1>1
<1>3. T * (a - (b + 1)) = T * a - (T * b + T) /\ T * a \in Int /\ T * b \in Int
    OBVIOUS
<1> QED
    BY <1>2, <1>3

(* There is one quotient.                                                  *)
LEMMA DivUnique ==
    ASSUME NEW T \in Nat, T > 0, NEW x \in Int, NEW q \in Int, T * q <= x, x < T * q + T
    PROVE  x \div T = q
<1>1. PICK p \in Int : p = x \div T
    BY DivIs
<1>2. T * p <= x /\ x < T * p + T
    BY <1>1, DivIs
<1>3. T * p \in Int /\ T * q \in Int
    BY <1>1
<1>4. p <= q
    BY <1>2, <1>3, MultipleBelow
<1>5. q <= p
    BY <1>2, <1>3, MultipleBelow
<1> QED
    BY <1>1, <1>4, <1>5

(* The divisor more or less changes the quotient by one.                   *)
LEMMA DivStep ==
    ASSUME NEW T \in Nat, T > 0, NEW x \in Int
    PROVE  (x + T) \div T = (x \div T) + 1 /\ (x - T) \div T = (x \div T) - 1
<1>1. PICK p \in Int : p = x \div T
    BY DivIs
<1>2. T * p <= x /\ x < T * p + T
    BY <1>1, DivIs
<1>3. T * p \in Int /\ T * (p + 1) = T * p + T /\ T * (p - 1) = T * p - T
    BY <1>1
<1>4. (x + T) \div T = p + 1
    BY <1>2, <1>3, DivUnique
<1>5. (x - T) \div T = p - 1
    BY <1>2, <1>3, DivUnique
<1> QED
    BY <1>1, <1>4, <1>5

(* The quotient of a natural number is one and not more than it.           *)
LEMMA DivBounds ==
    ASSUME NEW T \in Nat, T > 0, NEW x \in Nat
    PROVE  x \div T \in Nat /\ x \div T <= x
<1>1. PICK p \in Int : p = x \div T
    BY DivIs
<1>2. T * p <= x /\ x < T * p + T
    BY <1>1, DivIs
<1>3. p >= 0
    <2>1. T * 0 = 0
        OBVIOUS
    <2> QED
        BY <1>2, <2>1, MultipleBelow
<1>4. p <= T * p
    <2>1. (T - 1) * p \in Nat /\ (T - 1) * p = T * p - p
        BY <1>1, <1>3
    <2> QED
        BY <1>1, <2>1
<1> QED
    BY <1>1, <1>2, <1>3, <1>4
-----------------------------------------------------------------------------
(* The inductive invariant.                                                *)

Answers == {"none", "succeeded", "short", "failed", "refund_pending", "refunded"}
TxRecord ==
    [op: Ops, ref: Orders \cup Adjustments \cup {Nobody}, pc: TxPcs, todo: SUBSET Owners,
     seen: [Owners -> Int], answer: Answers, from: {"none", "webhook", "query"}]

\* The money has reached the gateway, whatever became of it there.
Real == {"paid", "refunding", "refunded"}
PaidStatuses == {"succeeded", "refund_pending", "refunded"}

EntryRecord ==
    [kind: {"payment", "refund", "balance_adjustment"}, ref: Orders \cup Adjustments,
     key: {"payment", "refund", "gateway-refund", "adjust"} \X (Orders \cup Adjustments),
     entries: [Owners -> Int]]

EntryOK(e) ==
    /\ e \in EntryRecord
    /\ SumFunctionOnSet(e.entries, Owners) = 0
    /\ e.kind = "payment" => e.key = <<"payment", e.ref>> /\ e.ref \in Orders
    /\ e.kind = "refund" => e.key[1] \in {"refund", "gateway-refund"}
    /\ e.kind = "balance_adjustment" => e.key = <<"adjust", e.ref>>

\* A ledger L of such entries has each kind once for each reference.
EntriesOK(L) ==
    /\ IsFiniteSet(L)
    /\ \A e \in L : EntryOK(e)
    /\ \A e, f \in L : e.kind = f.kind /\ e.ref = f.ref => e = f
LedgerOK == EntriesOK(ledger)

Recorded(kind, o) == \E e \in ledger : e.kind = kind /\ e.ref = o
StatusOK(o) ==
    /\ Recorded("payment", o) <=> status[o] \in PaidStatuses
    /\ Recorded("refund", o) <=> status[o] = "refunded"

GatewayOK(o) ==
    /\ status[o] = "none" => via[o] = "none" /\ gateway[o] = "none"
    /\ status[o] = "pending" => via[o] = "gateway"

RowTypes ==
    /\ status \in [Orders -> {"none", "pending", "succeeded", "failed", "refund_pending", "refunded"}]
    /\ via \in [Orders -> {"none", "wallet", "gateway"}]
    /\ announced \in [Orders -> BOOLEAN]
    /\ wallet \in [Owners -> Int]
    /\ inbox \subseteq Orders \X {"succeeded", "failed", "short"}
    /\ gateway \in [Orders -> {"none", "open", "paid", "short", "failed", "refunding", "refunded"}]
    /\ walletLock \in [Owners -> Workers \cup {Nobody}]
    /\ payLock \in [Orders -> Workers \cup {Nobody}]

BooksInv ==
    /\ RowTypes /\ LedgerOK
    /\ \A o \in Orders : StatusOK(o) /\ GatewayOK(o)
    /\ WalletsMatchLedger /\ NoOverdraft
    /\ GatewayMoneyIsReal /\ ConsumedIsApplied

\* The wallets a transaction at its wallets locks, done and still to do.
LockSet(r) ==
    CASE r.op = "adjust" -> {Target[r.ref], Funding}
      [] r.op = "pay" -> Touched(r.ref, Buyer[r.ref])
      [] r.op = "result" -> Touched(r.ref, Clearing)
      [] OTHER -> EntryWallets(r.ref)

\* A balance read under its lock is still the balance.
ReadsHold(t, r) ==
    r.pc = "wallets" =>
        /\ r.todo \subseteq LockSet(r)
        /\ \A w \in LockSet(r) \ r.todo : walletLock[w] = t /\ r.seen[w] = wallet[w]

\* What a transaction has found out about its payment.
CallOK(t, r) ==
    /\ r.pc = "wallets" => r.op \in {"adjust", "pay", "result", "refund"}
    /\ r.op = "adjust" => r.ref \in Adjustments
    /\ r.op \in {"pay", "checkout", "result", "refund"} => r.ref \in Orders
    /\ r.op \in {"result", "refund"} => status[r.ref] # "none"
    /\ r.op = "result" /\ r.pc = "wallets" =>
           payLock[r.ref] = t /\ status[r.ref] = "pending" /\ r.answer = "succeeded"
    /\ r.op = "refund" /\ r.pc = "wallets" =>
           payLock[r.ref] = t /\ status[r.ref] \in {"succeeded", "refund_pending"}
    /\ r.op = "refund" /\ r.pc \in {"gateway", "mark"} => via[r.ref] = "gateway"
    /\ r.op = "refund" /\ r.pc \in {"payment", "wallets"} =>
           via[r.ref] = "wallet" \/ gateway[r.ref] = "refunded"
    /\ r.op = "result" /\ r.answer = "succeeded" => gateway[r.ref] \in Real
    /\ r.op = "result" /\ r.answer = "refunded" => gateway[r.ref] = "refunded"
    /\ r.op = "result" /\ r.from = "webhook" => r.answer \in {"succeeded", "short", "failed"}

CallsInv ==
    /\ tx \in [Workers -> TxRecord]
    /\ \A t \in Workers : ReadsHold(t, tx[t]) /\ CallOK(t, tx[t])

LedgerInv == BooksInv /\ CallsInv
-----------------------------------------------------------------------------
(* Whose wallets there are.                                                *)

(* The three system wallets are wallets, and nobody is no worker.          *)
LEMMA SystemOwners ==
    /\ IsFiniteSet(Owners) /\ Nobody \notin Workers
    /\ Platform \in Owners /\ Clearing \in Owners /\ Funding \in Owners
<1>1. IsFiniteSet(Owners)
    BY LedgerAssumption
<1>2. Nobody \notin Workers
    BY LedgerAssumption
<1>3. Platform \in Owners /\ Clearing \in Owners /\ Funding \in Owners
    BY LedgerAssumption
<1> QED
    BY <1>1, <1>2, <1>3

(* Allocations and fees are amounts; the adjustments are finitely many.    *)
LEMMA AmountsGiven ==
    /\ FeeBPS \in Nat /\ FeeBPS <= 10000
    /\ Allocation \in [Orders -> [Owners -> Nat]]
    /\ IsFiniteSet(Adjustments) /\ Delta \in [Adjustments -> Int]
<1>1. FeeBPS \in Nat /\ FeeBPS <= 10000
    BY LedgerAssumption
<1>2. Allocation \in [Orders -> [Owners -> Nat]]
    BY LedgerAssumption
<1>3. IsFiniteSet(Adjustments)
    BY LedgerAssumption
<1>4. Delta \in [Adjustments -> Int]
    BY LedgerAssumption
<1> QED
    BY <1>1, <1>2, <1>3, <1>4

(* Buyers and those whose balance is adjusted have wallets.                *)
LEMMA CustomerOwners ==
    /\ \A o \in Orders : Buyer[o] \in Owners
    /\ \A k \in Adjustments : Target[k] \in Owners /\ Target[k] # Funding
<1>1. Buyer \in [Orders -> Customers]
    BY LedgerAssumption
<1>2. Target \in [Adjustments -> Customers]
    BY LedgerAssumption
<1>3. Customers \subseteq Owners /\ Funding \notin Customers
    BY DEF Customers
<1> QED
    BY <1>1, <1>2, <1>3

(* The wallets a payment touches are wallets.                              *)
LEMMA TouchedOwners ==
    ASSUME NEW o, NEW payer \in Owners
    PROVE  Touched(o, payer) \subseteq Owners
BY SystemOwners DEF Touched

-----------------------------------------------------------------------------
(* Amounts.                                                                *)

(* The fee of an allocation is not negative and not more than it.          *)
LEMMA FeeBounds ==
    ASSUME NEW a \in Nat
    PROVE  Fee(a) \in Nat /\ Fee(a) <= a /\ (a = 0 => Fee(a) = 0)
<1> DEFINE q == a \div 10000
           r == a % 10000
<1>1. q \in Nat /\ r \in Nat /\ a = 10000 * q + r
    OBVIOUS
<1>2. FeeBPS \in Nat /\ FeeBPS <= 10000
    BY SystemOwners, AmountsGiven
<1>3. a = 0 => q = 0 /\ r = 0
    OBVIOUS
<1>4. Fee(a) = q * FeeBPS + (r * FeeBPS) \div 10000
    BY DEF Fee
<1> HIDE DEF q, r
<1>5. ASSUME NEW n \in Nat
      PROVE  n * FeeBPS \in Nat /\ n * FeeBPS <= 10000 * n
    BY <1>2
<1>6. ASSUME NEW m \in Nat, m <= 10000 * r
      PROVE  m \div 10000 \in Nat /\ m \div 10000 <= r
    BY <1>1, <1>6
<1>7. q * FeeBPS \in Nat /\ q * FeeBPS <= 10000 * q
    BY <1>1, <1>5
<1>8. (r * FeeBPS) \div 10000 \in Nat /\ (r * FeeBPS) \div 10000 <= r
    BY <1>1, <1>5, <1>6
<1>9. a = 0 => Fee(a) = 0
    BY <1>2, <1>3, <1>4
<1> QED
    BY <1>1, <1>4, <1>7, <1>8, <1>9

(* Whoever pays an order, the deltas of its wallets add up to zero, change *)
(* only the wallets the payment locks, and take from the payer only.       *)
LEMMA DeltasBalance ==
    ASSUME NEW o \in Orders, NEW payer \in Owners
    PROVE  /\ Deltas(o, payer) \in [Owners -> Int]
           /\ SumFunctionOnSet(Deltas(o, payer), Owners) = 0
           /\ \A w \in Owners \ Touched(o, payer) : Deltas(o, payer)[w] = 0
           /\ \A w \in Owners \ {payer} : Deltas(o, payer)[w] >= 0
<1> DEFINE alloc == Allocation[o]
           fee == [w \in Owners |-> Fee(alloc[w])]
           debit == [w \in Owners |-> IF w = payer THEN -Total(o) ELSE 0]
           share == [w \in Owners |-> alloc[w] - fee[w]]
           credit == [w \in Owners |-> IF w = Platform THEN TotalFee(o) ELSE 0]
           both == [w \in Owners |-> debit[w] + share[w]]
           taken == [w \in Owners |-> -fee[w]]
           sum == Deltas(o, payer)
<1>1. IsFiniteSet(Owners) /\ Platform \in Owners /\ alloc \in [Owners -> Nat]
    BY SystemOwners, AmountsGiven
<1>2. \A w \in Owners : fee[w] \in Nat /\ fee[w] <= alloc[w] /\ (alloc[w] = 0 => fee[w] = 0)
    BY <1>1, FeeBounds
<1>3. Total(o) = SumFunctionOnSet(alloc, Owners) /\ TotalFee(o) = SumFunctionOnSet(fee, Owners)
    BY DEF Total, TotalFee
<1>4. Total(o) \in Nat /\ TotalFee(o) \in Nat
    BY <1>1, <1>2, <1>3, SumNonneg
<1>5. \A w \in Owners : sum[w] = both[w] + credit[w]
    BY DEF Deltas
<1>6. /\ \A w \in Owners : debit[w] = IF w = payer THEN -Total(o) ELSE 0
      /\ \A w \in Owners : credit[w] = IF w = Platform THEN TotalFee(o) ELSE 0
      /\ \A w \in Owners : share[w] = alloc[w] + taken[w] /\ taken[w] = -fee[w]
      /\ \A w \in Owners : both[w] = debit[w] + share[w]
    OBVIOUS
<1>7. sum = [w \in Owners |-> sum[w]]
    BY DEF Deltas
<1> HIDE DEF alloc, fee, debit, share, credit, both, taken, sum
<1>8. \A w \in Owners : /\ debit[w] \in Int /\ credit[w] \in Nat /\ share[w] \in Nat
                        /\ taken[w] \in Int /\ both[w] \in Int /\ sum[w] \in Int
    BY <1>1, <1>2, <1>4, <1>5, <1>6
<1>9. SumFunctionOnSet(sum, Owners) = 0
    <2>1. SumFunctionOnSet(debit, Owners) = -Total(o)
        BY <1>1, <1>4, <1>6, SumSingle
    <2>2. SumFunctionOnSet(credit, Owners) = TotalFee(o)
        BY <1>1, <1>4, <1>6, SumSingle
    <2>3. SumFunctionOnSet(taken, Owners) = -TotalFee(o)
        BY <1>1, <1>2, <1>3, <1>6, SumNegate
    <2>4. SumFunctionOnSet(share, Owners) = Total(o) + SumFunctionOnSet(taken, Owners)
        BY <1>1, <1>3, <1>6, <1>8, SumPlus
    <2>5. SumFunctionOnSet(both, Owners) = SumFunctionOnSet(debit, Owners) + SumFunctionOnSet(share, Owners)
        BY <1>1, <1>6, <1>8, SumPlus
    <2>6. SumFunctionOnSet(sum, Owners) = SumFunctionOnSet(both, Owners) + SumFunctionOnSet(credit, Owners)
        BY <1>1, <1>5, <1>8, SumPlus
    <2>7. /\ SumFunctionOnSet(share, Owners) = Total(o) + (-TotalFee(o))
          /\ SumFunctionOnSet(both, Owners) = -Total(o) + SumFunctionOnSet(share, Owners)
          /\ SumFunctionOnSet(sum, Owners) = SumFunctionOnSet(both, Owners) + TotalFee(o)
        BY <2>1, <2>2, <2>3, <2>4, <2>5, <2>6, Zenon
    <2>8. SumFunctionOnSet(share, Owners) \in Int /\ SumFunctionOnSet(both, Owners) \in Int /\ SumFunctionOnSet(sum, Owners) \in Int
        BY <1>4, <2>7
    <2> QED
        BY <1>4, <2>7, <2>8
<1>10. ASSUME NEW w \in Owners, w \notin Touched(o, payer)
       PROVE  sum[w] = 0
    <2>1. w # payer /\ w # Platform /\ alloc[w] = 0
        BY <1>1, <1>10 DEF Touched, alloc
    <2>2. fee[w] = 0
        BY <1>2, <2>1
    <2>3. /\ debit[w] = 0 /\ credit[w] = 0 /\ taken[w] = -0 /\ share[w] = 0 + taken[w]
          /\ both[w] = debit[w] + share[w] /\ sum[w] = both[w] + credit[w]
        BY <1>5, <1>6, <2>1, <2>2, Zenon
    <2> QED
        BY <2>3
<1>11. ASSUME NEW w \in Owners, w # payer
       PROVE  sum[w] >= 0
    BY <1>4, <1>5, <1>6, <1>8, <1>11
<1> QED
    BY <1>7, <1>8, <1>9, <1>10, <1>11 DEF sum

(* An adjustment moves an amount between its target and the funding wallet. *)
LEMMA AdjustBalances ==
    ASSUME NEW k \in Adjustments
    PROVE  /\ AdjustEntries(k) \in [Owners -> Int]
           /\ SumFunctionOnSet(AdjustEntries(k), Owners) = 0
           /\ \A w \in Owners \ {Target[k], Funding} : AdjustEntries(k)[w] = 0
           /\ AdjustEntries(k)[Target[k]] = Delta[k]
           /\ {Target[k], Funding} \subseteq Owners
<1> DEFINE f == AdjustEntries(k)
           a == Target[k]
<1>1. IsFiniteSet(Owners) /\ Funding \in Owners /\ a \in Owners /\ a # Funding /\ Delta[k] \in Int
    BY SystemOwners, CustomerOwners, AmountsGiven
<1>2. f = [w \in Owners |-> f[w]]
    BY DEF AdjustEntries
<1>3. /\ f[a] = Delta[k] /\ f[Funding] = -Delta[k]
      /\ \A w \in Owners \ {a, Funding} : f[w] = 0
    BY <1>1 DEF AdjustEntries
<1> HIDE DEF f, a
<1>4. \A w \in Owners : f[w] \in Int
    BY <1>1, <1>3
<1>5. SumFunctionOnSet(f, Owners) = f[a] + SumFunctionOnSet(f, Owners \ {a})
    BY <1>1, <1>4, SumPick
<1>6. IsFiniteSet(Owners \ {a}) /\ Funding \in Owners \ {a}
    BY <1>1, FS_Subset
<1>7. \A w \in Owners \ {a} : w # Funding => f[w] = 0
    BY <1>3
<1>8. SumFunctionOnSet(f, Owners \ {a}) = f[Funding]
    BY <1>4, <1>6, <1>7, SumSingle
<1> QED
    BY <1>1, <1>2, <1>3, <1>4, <1>5, <1>8 DEF f, a

(* The image of a finite set under an injection is finite, and the sum     *)
(* over the set is the sum over the image.                                 *)
LEMMA SumImage ==
    ASSUME NEW f, NEW h, NEW m, NEW S, IsFiniteSet(S),
           \A x \in S : f[x] \in Int /\ h[m[x]] = f[x],
           \A x, y \in S : m[x] = m[y] => x = y
    PROVE  /\ IsFiniteSet({m[x] : x \in S})
           /\ SumFunctionOnSet(f, S) = SumFunctionOnSet(h, {m[x] : x \in S})
<1> DEFINE img(U) == {m[x] : x \in U}
           G == {U \in SUBSET S : /\ IsFiniteSet(img(U))
                                 /\ SumFunctionOnSet(f, U) = SumFunctionOnSet(h, img(U))}
<1>1. ASSUME NEW U \in SUBSET S, \A x \in U : U \ {x} \in G
      PROVE  U \in G
    <2>1. CASE U = {}
        <3>1. img(U) = {}
            BY <2>1
        <3> HIDE DEF img
        <3> QED
            BY <2>1, <3>1, SumEmpty, FS_EmptySet
    <2>2. CASE U # {}
        <3>1. PICK x \in U : TRUE
            BY <2>2
        <3>2. IsFiniteSet(U) /\ IsFiniteSet(U \ {x})
            BY FS_Subset
        <3>3. img(U) = img(U \ {x}) \cup {m[x]}
            OBVIOUS
        <3>4. img(U) \ {m[x]} = img(U \ {x}) /\ m[x] \in img(U)
            OBVIOUS
        <3>5. \A y \in img(U) : h[y] \in Int
            OBVIOUS
        <3>6. SumFunctionOnSet(f, U) = f[x] + SumFunctionOnSet(f, U \ {x})
            BY <3>2, SumPick
        <3>7. IsFiniteSet(img(U \ {x})) /\ SumFunctionOnSet(f, U \ {x}) = SumFunctionOnSet(h, img(U \ {x}))
            BY <1>1
        <3> HIDE DEF img
        <3>8. IsFiniteSet(img(U))
            <4>1. IsFiniteSet(img(U \ {x}) \cup {m[x]})
                BY <3>7, FS_AddElement, Zenon
            <4> QED
                BY <3>3, <4>1
        <3>9. SumFunctionOnSet(h, img(U)) = h[m[x]] + SumFunctionOnSet(h, img(U) \ {m[x]})
            BY <3>4, <3>5, <3>8, SumPick
        <3> QED
            BY <3>4, <3>6, <3>7, <3>8, <3>9
    <2> QED
        BY <2>1, <2>2
<1> HIDE DEF G
<1>2. \A U \in SUBSET S : U \in G
    BY <1>1, SetInduction
<1> QED
    BY <1>2 DEF G
-----------------------------------------------------------------------------
(* The books.                                                              *)

(* A ledger transaction of a kind and reference not yet posted, written    *)
(* with the wallets it changes, keeps the ledger and the wallets in step.  *)
LEMMA PostingKeepsBooks ==
    ASSUME LedgerOK, WalletsMatchLedger, wallet \in [Owners -> Int], NEW n, EntryOK(n),
           \A e \in ledger : ~ (e.kind = n.kind /\ e.ref = n.ref),
           ledger' = ledger \cup {n},
           wallet' = [w \in Owners |-> wallet[w] + n.entries[w]]
    PROVE  LedgerOK' /\ WalletsMatchLedger' /\ wallet' \in [Owners -> Int]
<1>1. n.entries \in [Owners -> Int] /\ \A e \in ledger : e.entries \in [Owners -> Int]
    BY DEF LedgerOK, EntriesOK, EntryOK, EntryRecord
<1>2. n \notin ledger
    OBVIOUS
<1>3. IsFiniteSet(ledger) /\ IsFiniteSet(ledger')
    BY FS_AddElement DEF LedgerOK, EntriesOK
<1>4. LedgerOK'
    <2>1. \A e \in ledger' : EntryOK(e)
        BY DEF LedgerOK, EntriesOK
    <2>2. \A e, f \in ledger' : e.kind = f.kind /\ e.ref = f.ref => e = f
        BY DEF LedgerOK, EntriesOK
    <2> QED
        BY <1>3, <2>1, <2>2 DEF LedgerOK, EntriesOK, EntryOK
<1>5. wallet' \in [Owners -> Int]
    BY <1>1
<1>6. ASSUME NEW w \in Owners
      PROVE  wallet'[w] = SumFunctionOnSet([e \in ledger' |-> e.entries[w]], ledger')
    <2> DEFINE old == [e \in ledger |-> e.entries[w]]
               new == [e \in ledger' |-> e.entries[w]]
    <2>1. wallet[w] = SumFunctionOnSet(old, ledger)
        BY DEF WalletsMatchLedger
    <2>2. \A e \in ledger : old[e] = new[e]
        OBVIOUS
    <2>3. \A e \in ledger \cup {n} : new[e] \in Int
        BY <1>1
    <2>4. new[n] = n.entries[w]
        OBVIOUS
    <2>5. wallet'[w] = wallet[w] + n.entries[w] /\ wallet[w] \in Int /\ n.entries[w] \in Int
        BY <1>1
    <2> SUFFICES wallet'[w] = SumFunctionOnSet(new, ledger')
        OBVIOUS
    <2> HIDE DEF old, new
    <2>6. SumFunctionOnSet(new, ledger \cup {n}) = new[n] + SumFunctionOnSet(new, ledger)
        BY <1>2, <1>3, <2>3, SumAdd
    <2>7. SumFunctionOnSet(old, ledger) = SumFunctionOnSet(new, ledger)
        BY <1>3, <2>2, SumSame
    <2> QED
        BY <2>1, <2>4, <2>5, <2>6, <2>7
<1> QED
    BY <1>4, <1>5, <1>6 DEF WalletsMatchLedger

(* The posting of an order's payment is found again under its key.         *)
LEMMA KeyFinds ==
    ASSUME NEW L, EntriesOK(L), NEW o \in Orders, NEW p \in L, p.kind = "payment", p.ref = o
    PROVE  (CHOOSE e \in L : e.key = <<"payment", o>>) = p
<1> DEFINE q == CHOOSE e \in L : e.key = <<"payment", o>>
<1>1. p.key = <<"payment", o>>
    BY DEF EntriesOK, EntryOK
<1>2. q \in L /\ q.key = <<"payment", o>>
    BY <1>1
<1> HIDE DEF q
<1>3. EntryOK(q) /\ q.kind \in {"payment", "refund", "balance_adjustment"}
    BY <1>2 DEF EntriesOK, EntryOK, EntryRecord
<1>4. q.kind = "payment" /\ q.ref = o
    BY <1>2, <1>3 DEF EntryOK
<1>5. q = p
    BY <1>2, <1>4 DEF EntriesOK
<1> QED
    BY <1>5 DEF q

(* Later postings do not change what a refund of the order will reverse.   *)
LEMMA PaymentStays ==
    ASSUME LedgerOK, LedgerOK', ledger \subseteq ledger', NEW o \in Orders, Recorded("payment", o)
    PROVE  /\ PaymentEntry(o) \in ledger
           /\ PaymentEntry(o)' = PaymentEntry(o) /\ EntryWallets(o)' = EntryWallets(o)
<1>1. PICK p \in ledger : p.kind = "payment" /\ p.ref = o
    BY DEF Recorded
<1>2. p \in ledger'
    BY <1>1
<1>3. PaymentEntry(o) = p
    BY <1>1, KeyFinds DEF PaymentEntry, LedgerOK
<1>4. PaymentEntry(o)' = p
    BY <1>1, <1>2, KeyFinds DEF PaymentEntry, LedgerOK
<1> QED
    BY <1>3, <1>4 DEF EntryWallets

(* Nothing reversed is nothing.                                            *)
LEMMA MinusZero == -0 = 0
<1>1. 0 \in Int /\ \A n \in Int : n + (-n) = 0 /\ -n \in Int
    OBVIOUS
<1> DEFINE x == -0
<1>2. 0 + x = 0 /\ x \in Int
    BY <1>1, Zenon
<1> HIDE DEF x
<1>3. x = 0
    BY <1>2
<1> QED
    BY <1>3 DEF x

(* The reversal of a payment balances as the payment does.                 *)
LEMMA ReversalBalances ==
    ASSUME LedgerOK, NEW o \in Orders, Recorded("payment", o),
           NEW f, f = [w \in Owners |-> -PaymentEntry(o).entries[w]]
    PROVE  /\ f \in [Owners -> Int] /\ SumFunctionOnSet(f, Owners) = 0
           /\ \A w \in Owners \ EntryWallets(o) : f[w] = 0
           /\ EntryWallets(o) \subseteq Owners
<1> DEFINE e == PaymentEntry(o)
<1>1. e \in ledger
    BY KeyFinds DEF Recorded, PaymentEntry, LedgerOK
<1>2. e.entries \in [Owners -> Int] /\ SumFunctionOnSet(e.entries, Owners) = 0
    BY <1>1 DEF LedgerOK, EntriesOK, EntryOK, EntryRecord
<1>3. \A w \in Owners : e.entries[w] \in Int /\ f[w] = -e.entries[w]
    BY <1>2
<1>4. f \in [Owners -> Int]
    BY <1>2
<1>5. EntryWallets(o) = {w \in Owners : e.entries[w] # 0}
    BY DEF EntryWallets
<1> HIDE DEF e
<1>6. SumFunctionOnSet(f, Owners) = -SumFunctionOnSet(e.entries, Owners)
    BY <1>3, SumNegate, SystemOwners
<1>7. SumFunctionOnSet(f, Owners) = 0
    <2>1. SumFunctionOnSet(f, Owners) = -0
        BY <1>2, <1>6, Zenon
    <2> QED
        BY <2>1, MinusZero, Zenon
<1>8. \A w \in Owners \ EntryWallets(o) : f[w] = 0
    BY <1>3, <1>5
<1> QED
    BY <1>4, <1>5, <1>7, <1>8
-----------------------------------------------------------------------------
(* Initially only adjustments are posted, and they only add to customers'  *)
(* wallets.                                                                *)
LEMMA LedgerStarts == LedgerInit => LedgerInv
<1> SUFFICES ASSUME LedgerInit PROVE LedgerInv
    OBVIOUS
<1> DEFINE entry(k) == [kind |-> "balance_adjustment", ref |-> k, key |-> <<"adjust", k>>,
                        entries |-> AdjustEntries(k)]
<1>1. PICK funded \in SUBSET {k \in Adjustments : Delta[k] > 0} :
          /\ ledger = {entry(k) : k \in funded}
          /\ wallet = [w \in Owners |-> SumFunctionOnSet([k \in Adjustments |-> AdjustEntries(k)[w]], funded)]
    BY DEF LedgerInit
<1> DEFINE m == [k \in funded |-> entry(k)]
<1>2. ledger = {m[k] : k \in funded}
    BY <1>1
<1>3. IsFiniteSet(funded) /\ funded \subseteq Adjustments
    BY AmountsGiven, FS_Subset
<1>4. \A k \in funded : /\ m[k].kind = "balance_adjustment" /\ m[k].ref = k
                        /\ m[k].entries = AdjustEntries(k)
    OBVIOUS
<1>5. \A j, k \in funded : m[j] = m[k] => j = k
    BY <1>4
<1>6. ASSUME NEW k \in funded
      PROVE  EntryOK(m[k])
    <2>1. AdjustEntries(k) \in [Owners -> Int] /\ SumFunctionOnSet(AdjustEntries(k), Owners) = 0
        BY <1>3, AdjustBalances
    <2>2. m[k] \in EntryRecord
        BY <1>3, <2>1 DEF EntryRecord
    <2> QED
        BY <1>4, <2>1, <2>2 DEF EntryOK
<1> HIDE DEF m
<1>7. ASSUME NEW w \in Owners
      PROVE  /\ IsFiniteSet(ledger)
             /\ wallet[w] \in Int
             /\ wallet[w] = SumFunctionOnSet([e \in ledger |-> e.entries[w]], ledger)
             /\ AllowNegative(w) \/ wallet[w] >= 0
    <2> DEFINE f == [k \in Adjustments |-> AdjustEntries(k)[w]]
               h == [e \in ledger |-> e.entries[w]]
    <2>1. \A k \in funded : f[k] \in Int /\ f[k] = AdjustEntries(k)[w]
        BY <1>3, AdjustBalances
    <2>2. \A k \in funded : h[m[k]] = f[k]
        BY <1>2, <1>3, <1>4
    <2>3. wallet[w] = SumFunctionOnSet(f, funded)
        BY <1>1
    <2>4. w # Funding => \A k \in funded : f[k] \in Nat
        <3> SUFFICES ASSUME w # Funding, NEW k \in funded PROVE f[k] \in Nat
            OBVIOUS
        <3>1. Delta[k] \in Int /\ Delta[k] > 0
            BY SystemOwners, AmountsGiven
        <3>2. f[k] = Delta[k] \/ f[k] = 0
            BY <1>3, <2>1, AdjustBalances
        <3> QED
            BY <3>1, <3>2
    <2> SUFFICES /\ IsFiniteSet(ledger) /\ wallet[w] \in Int /\ wallet[w] = SumFunctionOnSet(h, ledger)
                 /\ AllowNegative(w) \/ wallet[w] >= 0
        OBVIOUS
    <2> HIDE DEF f, h
    <2>5. /\ IsFiniteSet({m[k] : k \in funded})
          /\ SumFunctionOnSet(f, funded) = SumFunctionOnSet(h, {m[k] : k \in funded})
        <3>1. \A k \in funded : f[k] \in Int /\ h[m[k]] = f[k]
            BY <2>1, <2>2
        <3> QED
            BY <1>3, <1>5, <3>1, SumImage
    <2>6. SumFunctionOnSet(f, funded) \in Int
        BY <1>3, <2>1, SumType
    <2>7. w # Funding => SumFunctionOnSet(f, funded) \in Nat
        BY <1>3, <2>4, SumNonneg
    <2> QED
        BY <1>2, <2>3, <2>5, <2>6, <2>7 DEF AllowNegative
<1>8. LedgerOK
    <2>1. IsFiniteSet(ledger)
        <3>1. Platform \in Owners
            BY SystemOwners, AmountsGiven
        <3> QED
            BY <1>7, <3>1
    <2> QED
        BY <1>2, <1>4, <1>6, <2>1 DEF LedgerOK, EntriesOK
<1>9. wallet = [w \in Owners |-> wallet[w]]
    BY <1>1
<1>10. wallet \in [Owners -> Int]
    BY <1>7, <1>9
<1>11. \A e \in ledger : e.kind = "balance_adjustment" /\ e.entries \in [Owners -> Int]
    BY <1>2, <1>4, <1>6 DEF EntryOK, EntryRecord
<1>12. tx = [t \in Workers |-> Idle] /\ Idle \in TxRecord
    BY DEF LedgerInit, Idle, TxRecord, Ops, TxPcs, Answers, Zero
<1>13. \A t \in Workers : /\ tx[t] = Idle /\ tx[t].op = "none" /\ tx[t].pc = "idle" /\ tx[t].todo = {}
                          /\ tx[t].seen = Zero
    BY <1>12 DEF Idle
<1>14. RowTypes
    BY <1>10 DEF LedgerInit, RowTypes
<1>15. BooksInv
    BY <1>7, <1>8, <1>11, <1>14 DEF BooksInv, StatusOK, Recorded, PaidStatuses, WalletsMatchLedger, NoOverdraft,
        GatewayOK, GatewayMoneyIsReal, ConsumedIsApplied, LedgerInit
<1>16. CallsInv
    BY <1>12, <1>13 DEF CallsInv, ReadsHold, CallOK
<1> QED
    BY <1>15, <1>16 DEF LedgerInv
-----------------------------------------------------------------------------
(* What a step of one transaction leaves to the others.                    *)

Frame(t) ==
    /\ \A u \in Workers \ {t} : tx'[u] = tx[u]
    /\ \A w \in Owners : walletLock[w] \notin {t, Nobody} => walletLock'[w] = walletLock[w] /\ wallet'[w] = wallet[w]
    /\ \A o \in Orders :
        /\ payLock[o] \notin {t, Nobody} /\ status[o] # "none" => payLock'[o] = payLock[o] /\ status'[o] = status[o]
        /\ status[o] # "none" => status'[o] # "none" /\ via'[o] = via[o]
        /\ gateway[o] \in Real => gateway'[o] \in Real
        /\ gateway[o] = "refunded" => gateway'[o] = "refunded"
        /\ Recorded("payment", o) => EntryWallets(o)' = EntryWallets(o)

(* A transaction keeps what it has read and found out while others work.   *)
LEMMA OthersKeep ==
    ASSUME LedgerInv, NEW t, Frame(t), NEW u \in Workers \ {t}
    PROVE  ReadsHold(u, tx[u])' /\ CallOK(u, tx[u])'
<1> PICK r \in TxRecord : r = tx[u]
    BY DEF LedgerInv, CallsInv
<1>1. tx'[u] = r /\ u # Nobody /\ u # t
    BY SystemOwners DEF Frame
<1>2. ReadsHold(u, r) /\ CallOK(u, r)
    BY DEF LedgerInv, CallsInv
<1>3. CallOK(u, r)'
    BY <1>1, <1>2 DEF Frame, CallOK, Real
<1>4. r.pc = "wallets" => LockSet(r)' = LockSet(r) /\ LockSet(r) \subseteq Owners
    <2> SUFFICES ASSUME r.pc = "wallets" PROVE LockSet(r)' = LockSet(r) /\ LockSet(r) \subseteq Owners
        OBVIOUS
    <2>1. CASE r.op = "adjust"
        BY <1>2, <2>1, SystemOwners, CustomerOwners DEF LockSet, CallOK
    <2>2. CASE r.op = "pay"
        <3>1. r.ref \in Orders
            BY <1>2, <2>2 DEF CallOK
        <3>2. LockSet(r) = Touched(r.ref, Buyer[r.ref]) /\ LockSet(r)' = Touched(r.ref, Buyer[r.ref])
            BY <2>2 DEF LockSet, Touched
        <3> QED
            BY <3>1, <3>2, CustomerOwners, TouchedOwners
    <2>3. CASE r.op = "result"
        <3>1. LockSet(r) = Touched(r.ref, Clearing) /\ LockSet(r)' = Touched(r.ref, Clearing)
            BY <2>3 DEF LockSet, Touched
        <3> QED
            BY <3>1, SystemOwners, TouchedOwners
    <2>4. CASE r.op = "refund"
        <3>1. r.ref \in Orders /\ status[r.ref] \in PaidStatuses
            BY <1>2, <2>4 DEF CallOK, PaidStatuses
        <3>2. Recorded("payment", r.ref)
            BY <3>1 DEF LedgerInv, BooksInv, StatusOK
        <3>3. EntryWallets(r.ref)' = EntryWallets(r.ref)
            BY <3>1, <3>2 DEF Frame
        <3> QED
            BY <2>4, <3>3 DEF LockSet, EntryWallets
    <2> QED
        BY <1>2, <2>1, <2>2, <2>3, <2>4 DEF CallOK
<1>5. ReadsHold(u, r)'
    BY <1>1, <1>2, <1>4 DEF Frame, ReadsHold
<1> QED
    BY <1>1, <1>3, <1>5

(* The transactions of a step: the others', by the frame, and its own.     *)
LEMMA CallsKept ==
    ASSUME LedgerInv, NEW t, Frame(t), tx' \in [Workers -> TxRecord],
           t \in Workers => ReadsHold(t, tx[t])' /\ CallOK(t, tx[t])'
    PROVE  CallsInv'
<1> SUFFICES ASSUME NEW u \in Workers PROVE ReadsHold(u, tx[u])' /\ CallOK(u, tx[u])'
    BY DEF CallsInv
<1> QED
    BY OthersKeep

(* While nothing is posted the books stay as they are.                     *)
LEMMA NothingPosted ==
    ASSUME BooksInv, UNCHANGED <<wallet, ledger>>
    PROVE  /\ LedgerOK' /\ WalletsMatchLedger' /\ NoOverdraft'
           /\ \A kind, o : Recorded(kind, o)' <=> Recorded(kind, o)
           /\ \A o \in Orders : EntryWallets(o)' = EntryWallets(o)
<1> QED
    BY DEF BooksInv, LedgerOK, WalletsMatchLedger, NoOverdraft, Recorded, EntryWallets, PaymentEntry

(* While the rows stay as they are, so does all that is said of them.      *)
LEMMA RowsKept ==
    ASSUME BooksInv, UNCHANGED <<rows, gateway>>,
           walletLock' \in [Owners -> Workers \cup {Nobody}], payLock' \in [Orders -> Workers \cup {Nobody}]
    PROVE  BooksInv'
<1> USE DEF rows
<1>1. RowTypes'
    BY DEF BooksInv, RowTypes
<1>2. \A o \in Orders : StatusOK(o)' /\ GatewayOK(o)'
    BY NothingPosted DEF BooksInv, StatusOK, GatewayOK
<1>3. GatewayMoneyIsReal' /\ ConsumedIsApplied'
    BY DEF BooksInv, GatewayMoneyIsReal, ConsumedIsApplied
<1> QED
    BY <1>1, <1>2, <1>3, NothingPosted DEF BooksInv

(* The end of a transaction, committed or not.                             *)
LEMMA FinishFrees ==
    ASSUME LedgerInv, NEW t \in Workers, Finish(t)
    PROVE  /\ tx' \in [Workers -> TxRecord] /\ ReadsHold(t, tx[t])' /\ CallOK(t, tx[t])'
           /\ \A u \in Workers \ {t} : tx'[u] = tx[u]
           /\ walletLock' \in [Owners -> Workers \cup {Nobody}] /\ payLock' \in [Orders -> Workers \cup {Nobody}]
           /\ \A w \in Owners : walletLock[w] \notin {t, Nobody} => walletLock'[w] = walletLock[w]
           /\ \A o \in Orders : payLock[o] \notin {t, Nobody} => payLock'[o] = payLock[o]
<1>1. Idle \in TxRecord
    BY DEF Idle, TxRecord, Ops, TxPcs, Answers, Zero
<1>2. tx' = [tx EXCEPT ![t] = Idle] /\ tx \in [Workers -> TxRecord]
    BY DEF Finish, LedgerInv, CallsInv
<1>3. tx' \in [Workers -> TxRecord] /\ tx'[t] = Idle /\ \A u \in Workers \ {t} : tx'[u] = tx[u]
    BY <1>1, <1>2
<1>4. Idle.pc = "idle" /\ Idle.op = "none"
    BY DEF Idle
<1>5. ReadsHold(t, tx[t])' /\ CallOK(t, tx[t])'
    BY <1>3, <1>4 DEF ReadsHold, CallOK
<1>6. /\ walletLock' \in [Owners -> Workers \cup {Nobody}] /\ payLock' \in [Orders -> Workers \cup {Nobody}]
      /\ \A w \in Owners : walletLock[w] \notin {t, Nobody} => walletLock'[w] = walletLock[w]
      /\ \A o \in Orders : payLock[o] \notin {t, Nobody} => payLock'[o] = payLock[o]
    BY DEF Finish, LedgerInv, BooksInv, RowTypes
<1> QED
    BY <1>3, <1>5, <1>6

(* A rollback, a cancelled call, a crash: nothing remains but the end.     *)
LEMMA RollbackStep ==
    ASSUME LedgerInv, NEW t \in Workers, Rollback(t)
    PROVE  LedgerInv'
<1>1. Finish(t) /\ UNCHANGED <<rows, gateway>>
    BY DEF Rollback
<1>2. BooksInv'
    BY <1>1, FinishFrees, RowsKept DEF LedgerInv
<1>3. Frame(t)
    BY <1>1, FinishFrees, NothingPosted DEF Frame, rows, LedgerInv
<1>4. CallsInv'
    BY <1>1, <1>3, FinishFrees, CallsKept
<1> QED
    BY <1>2, <1>4 DEF LedgerInv
-----------------------------------------------------------------------------
(* The calls that begin a transaction.                                     *)

(* Any of them: a transaction that has locked nothing yet has little to be *)
(* true about it.                                                          *)
LEMMA BeginStep ==
    ASSUME LedgerInv, NEW t \in Workers, NEW r \in TxRecord,
           tx' = [tx EXCEPT ![t] = r], UNCHANGED <<rows, gateway, locks>>,
           CallOK(t, r), r.pc = "wallets" => r.todo = LockSet(r)
    PROVE  LedgerInv'
<1>1. tx' \in [Workers -> TxRecord] /\ tx'[t] = r /\ \A u \in Workers \ {t} : tx'[u] = tx[u]
    BY DEF LedgerInv, CallsInv
<1>2. BooksInv'
    BY RowsKept DEF LedgerInv, BooksInv, RowTypes, locks
<1>3. Frame(t)
    BY <1>1, NothingPosted DEF Frame, rows, locks, LedgerInv
<1>4. CallOK(t, r)' /\ ReadsHold(t, r)'
    <2>1. CallOK(t, r)'
        BY DEF CallOK, rows, locks
    <2>2. LockSet(r)' = LockSet(r)
        BY DEF LockSet, EntryWallets, PaymentEntry, rows
    <2> QED
        BY <2>1, <2>2 DEF ReadsHold
<1>5. CallsInv'
    BY <1>1, <1>3, <1>4, CallsKept
<1> QED
    BY <1>2, <1>5 DEF LedgerInv

(* AdjustBalance, CreatePayment, RefundPayment, the webhook and the        *)
(* reconciler.                                                             *)
LEMMA RequestStep ==
    ASSUME LedgerInv, NEW t \in Workers, Request(t)
    PROVE  LedgerInv'
<1> DEFINE first(op, ref, pc, todo) == [Idle EXCEPT !.op = op, !.ref = ref, !.pc = pc, !.todo = todo]
<1>1. ASSUME NEW op \in Ops, NEW ref \in Orders \cup Adjustments, NEW pc \in TxPcs, NEW todo \in SUBSET Owners
      PROVE  /\ first(op, ref, pc, todo) \in TxRecord
             /\ first(op, ref, pc, todo).op = op /\ first(op, ref, pc, todo).ref = ref
             /\ first(op, ref, pc, todo).pc = pc /\ first(op, ref, pc, todo).todo = todo
    <2>1. Idle \in TxRecord
        BY DEF Idle, TxRecord, Ops, TxPcs, Answers, Zero
    <2> QED
        BY <2>1 DEF TxRecord
<1>2. ASSUME NEW op, NEW ref, NEW pc, NEW todo, Begin(t, op, ref, pc, todo)
      PROVE  tx' = [tx EXCEPT ![t] = first(op, ref, pc, todo)] /\ UNCHANGED <<rows, gateway, locks>>
    BY <1>2 DEF Begin
<1> HIDE DEF first
<1>3. ASSUME NEW k \in Adjustments, AdjustBalance(t, k) PROVE LedgerInv'
    <2> DEFINE r == first("adjust", k, "wallets", {Target[k], Funding})
    <2>1. r \in TxRecord /\ r.op = "adjust" /\ r.ref = k /\ r.pc = "wallets" /\ r.todo = {Target[k], Funding}
        BY <1>1, AdjustBalances DEF Ops, TxPcs
    <2>2. tx' = [tx EXCEPT ![t] = r] /\ UNCHANGED <<rows, gateway, locks>>
        BY <1>2, <1>3 DEF AdjustBalance
    <2> HIDE DEF r
    <2>3. CallOK(t, r) /\ r.todo = LockSet(r)
        BY <2>1 DEF CallOK, LockSet
    <2> QED
        BY <2>1, <2>2, <2>3, BeginStep
<1>4. ASSUME NEW o \in Orders, CreatePayment(t, o) PROVE LedgerInv'
    <2> DEFINE r == first("pay", o, "wallets", Touched(o, Buyer[o]))
    <2>1. Touched(o, Buyer[o]) \subseteq Owners
        BY CustomerOwners, TouchedOwners
    <2>2. r \in TxRecord /\ r.op = "pay" /\ r.ref = o /\ r.pc = "wallets" /\ r.todo = Touched(o, Buyer[o])
        BY <1>1, <2>1 DEF Ops, TxPcs
    <2>3. tx' = [tx EXCEPT ![t] = r] /\ UNCHANGED <<rows, gateway, locks>>
        BY <1>2, <1>4 DEF CreatePayment
    <2> HIDE DEF r
    <2>4. CallOK(t, r) /\ r.todo = LockSet(r)
        BY <2>2 DEF CallOK, LockSet
    <2> QED
        BY <2>2, <2>3, <2>4, BeginStep
<1>5. ASSUME NEW o \in Orders, CreateCheckout(t, o) PROVE LedgerInv'
    <2> DEFINE r == first("checkout", o, "insert", {})
    <2>1. r \in TxRecord /\ r.op = "checkout" /\ r.ref = o /\ r.pc = "insert"
        BY <1>1 DEF Ops, TxPcs
    <2>2. tx' = [tx EXCEPT ![t] = r] /\ UNCHANGED <<rows, gateway, locks>>
        BY <1>2, <1>5 DEF CreateCheckout
    <2> HIDE DEF r
    <2>3. CallOK(t, r)
        BY <2>1 DEF CallOK
    <2> QED
        BY <2>1, <2>2, <2>3, BeginStep
<1>6. ASSUME NEW o \in Orders, RefundPayment(t, o) PROVE LedgerInv'
    <2>1. PICK pc \in {"payment", "gateway"} :
              /\ Begin(t, "refund", o, pc, {})
              /\ status[o] # "none"
              /\ pc = "gateway" => via[o] = "gateway"
              /\ pc = "payment" => via[o] = "wallet" \/ gateway[o] = "refunded"
        <3>1. Query(o) = "refunded" => gateway[o] = "refunded"
            BY DEF Query
        <3> QED
            BY <1>6, <3>1 DEF RefundPayment
    <2> DEFINE r == first("refund", o, pc, {})
    <2>2. r \in TxRecord /\ r.op = "refund" /\ r.ref = o /\ r.pc = pc
        BY <1>1 DEF Ops, TxPcs
    <2>3. tx' = [tx EXCEPT ![t] = r] /\ UNCHANGED <<rows, gateway, locks>>
        BY <1>2, <2>1
    <2> HIDE DEF r
    <2>4. CallOK(t, r)
        BY <2>1, <2>2 DEF CallOK
    <2> QED
        BY <2>2, <2>3, <2>4, BeginStep
<1> DEFINE result(o, answer, from) ==
        [Idle EXCEPT !.op = "result", !.ref = o, !.pc = "payment", !.answer = answer, !.from = from]
<1>7. ASSUME NEW o \in Orders, NEW answer \in Answers, NEW from \in {"webhook", "query"},
             BeginResult(t, o, answer, from), status[o] # "none",
             answer = "succeeded" => gateway[o] \in Real,
             answer = "refunded" => gateway[o] = "refunded",
             from = "webhook" => answer \in {"succeeded", "short", "failed"}
      PROVE  LedgerInv'
    <2> DEFINE r == result(o, answer, from)
    <2>1. /\ r \in TxRecord /\ r.op = "result" /\ r.ref = o /\ r.pc = "payment"
          /\ r.answer = answer /\ r.from = from
        <3>1. Idle \in TxRecord /\ "result" \in Ops /\ "payment" \in TxPcs
            BY DEF Idle, TxRecord, Ops, TxPcs, Answers, Zero
        <3> QED
            BY <3>1 DEF TxRecord
    <2>2. tx' = [tx EXCEPT ![t] = r] /\ UNCHANGED <<rows, gateway, locks>>
        BY <1>7 DEF BeginResult
    <2> HIDE DEF r
    <2>3. CallOK(t, r)
        BY <1>7, <2>1 DEF CallOK
    <2> QED
        BY <2>1, <2>2, <2>3, BeginStep
<1>8. ASSUME NEW o \in Orders, ProcessWebhook(t, o) PROVE LedgerInv'
    <2>1. PICK notice \in Notice(o) : BeginResult(t, o, notice, "webhook")
        BY <1>8 DEF ProcessWebhook
    <2>2. /\ gateway[o] # "none" /\ notice \in {"succeeded", "short", "failed"}
          /\ notice = "succeeded" => gateway[o] \in Real
        BY DEF Notice, Real
    <2>3. status[o] # "none"
        BY <2>2 DEF LedgerInv, BooksInv, GatewayOK
    <2> QED
        BY <1>7, <2>1, <2>2, <2>3 DEF Answers
<1>9. ASSUME NEW o \in Orders, ReconcilePendingPayments(t, o) PROVE LedgerInv'
    <2> DEFINE answer == Query(o)
    <2>1. BeginResult(t, o, answer, "query") /\ status[o] # "none" /\ answer \notin {"pending", "short"}
        BY <1>9 DEF ReconcilePendingPayments
    <2>2. gateway[o] \in {"none", "open", "paid", "short", "failed", "refunding", "refunded"}
        BY DEF LedgerInv, BooksInv, RowTypes
    <2>3. /\ answer \in Answers
          /\ answer = "succeeded" => gateway[o] \in Real
          /\ answer = "refunded" => gateway[o] = "refunded"
        BY <2>1, <2>2 DEF Query, Answers, Real
    <2> HIDE DEF answer
    <2> QED
        BY <1>7, <2>1, <2>3
<1> HIDE DEF result
<1> QED
    BY <1>3, <1>4, <1>5, <1>6, <1>8, <1>9 DEF Request

(* LockWallet: the balance read is the balance, and no other transaction   *)
(* holds the wallet.                                                       *)
LEMMA LockWalletStep ==
    ASSUME LedgerInv, NEW t \in Workers, LockWallet(t)
    PROVE  LedgerInv'
<1> PICK r \in TxRecord : r = tx[t]
    BY DEF LedgerInv, CallsInv
<1>1. CallOK(t, r) /\ ReadsHold(t, r) /\ r.pc = "wallets"
    BY DEF LedgerInv, CallsInv, LockWallet
<1>2. PICK w \in r.todo :
          /\ walletLock[w] = Nobody
          /\ walletLock' = [walletLock EXCEPT ![w] = t]
          /\ tx' = [tx EXCEPT ![t].todo = @ \ {w}, ![t].seen[w] = wallet[w]]
          /\ UNCHANGED <<rows, gateway, payLock>>
    BY DEF LockWallet
<1>3. w \in Owners /\ wallet[w] \in Int
    BY DEF TxRecord, LedgerInv, BooksInv, RowTypes
<1>4. PICK q : q = [r EXCEPT !.todo = @ \ {w}, !.seen[w] = wallet[w]]
    OBVIOUS
<1>5. /\ q \in TxRecord /\ q.op = r.op /\ q.ref = r.ref /\ q.pc = r.pc /\ q.answer = r.answer /\ q.from = r.from
      /\ q.todo = r.todo \ {w} /\ q.seen[w] = wallet[w]
      /\ \A v \in Owners \ {w} : q.seen[v] = r.seen[v]
    BY <1>3, <1>4 DEF TxRecord
<1>6. tx' \in [Workers -> TxRecord] /\ tx'[t] = q /\ \A u \in Workers \ {t} : tx'[u] = tx[u]
    <2>1. tx' = [tx EXCEPT ![t] = q] /\ tx \in [Workers -> TxRecord]
        BY <1>2, <1>4 DEF LedgerInv, CallsInv
    <2> QED
        BY <1>5, <2>1
<1>7. BooksInv'
    BY <1>2, <1>3, RowsKept DEF LedgerInv, BooksInv, RowTypes
<1>8. Frame(t)
    BY <1>2, <1>3, <1>6, NothingPosted DEF Frame, rows, LedgerInv, BooksInv, RowTypes
<1>9. CallOK(t, q)'
    BY <1>1, <1>2, <1>5 DEF CallOK, rows
<1>10. ReadsHold(t, q)'
    <2>1. LockSet(q)' = LockSet(r)
        BY <1>2, <1>5 DEF LockSet, EntryWallets, PaymentEntry, rows
    <2>2. LockSet(r) \subseteq Owners
        <3>1. Funding \in Owners /\ Platform \in Owners /\ Clearing \in Owners
            BY SystemOwners
        <3>2. r.op = "adjust" => Target[r.ref] \in Owners
            BY <1>1, CustomerOwners DEF CallOK
        <3>3. r.op = "pay" => Buyer[r.ref] \in Owners
            BY <1>1, CustomerOwners DEF CallOK
        <3> QED
            BY <3>1, <3>2, <3>3 DEF LockSet, Touched, EntryWallets
    <2> QED
        BY <1>1, <1>2, <1>3, <1>5, <2>1, <2>2 DEF ReadsHold, rows, LedgerInv, BooksInv, RowTypes
<1>11. CallsInv'
    BY <1>6, <1>8, <1>9, <1>10, CallsKept
<1> QED
    BY <1>7, <1>11 DEF LedgerInv
-----------------------------------------------------------------------------
(* The gateway.                                                            *)

(* Whatever the buyer does and the gateway settles, what was posted keeps  *)
(* its ground: money that arrived stays known there, and what is refunded  *)
(* there stays so.                                                         *)
LEMMA GatewayMoves ==
    ASSUME BooksInv, UNCHANGED rows, NEW o \in Orders, NEW g, gateway' = [gateway EXCEPT ![o] = g],
           \/ gateway[o] = "open" /\ g \in {"paid", "short", "failed"}
           \/ gateway[o] \in {"paid", "refunding"} /\ g \in Real,
           walletLock' \in [Owners -> Workers \cup {Nobody}], payLock' \in [Orders -> Workers \cup {Nobody}]
    PROVE  /\ BooksInv'
           /\ \A p \in Orders : /\ gateway[p] \in Real => gateway'[p] \in Real
                                /\ gateway[p] = "refunded" => gateway'[p] = "refunded"
<1> USE DEF rows
<1>1. /\ gateway' \in [Orders -> {"none", "open", "paid", "short", "failed", "refunding", "refunded"}]
      /\ gateway'[o] = g /\ \A p \in Orders \ {o} : gateway'[p] = gateway[p]
    BY DEF BooksInv, RowTypes, Real
<1>2. RowTypes'
    BY <1>1 DEF BooksInv, RowTypes
<1>3. \A p \in Orders : StatusOK(p)' /\ GatewayOK(p)'
    BY <1>1, NothingPosted DEF BooksInv, StatusOK, GatewayOK
<1>4. GatewayMoneyIsReal' /\ ConsumedIsApplied'
    BY <1>1 DEF BooksInv, GatewayMoneyIsReal, ConsumedIsApplied, Real
<1>5. \A p \in Orders : /\ gateway[p] \in Real => gateway'[p] \in Real
                        /\ gateway[p] = "refunded" => gateway'[p] = "refunded"
    BY <1>1 DEF Real
<1> QED
    BY <1>2, <1>3, <1>4, <1>5, NothingPosted DEF BooksInv

(* The buyer and the gateway act on their own.                             *)
LEMMA OutsideStep ==
    ASSUME LedgerInv, NEW o \in Orders, BuyerPays(o) \/ GatewaySettlesRefund(o)
    PROVE  LedgerInv'
<1>1. PICK g : /\ gateway' = [gateway EXCEPT ![o] = g] /\ UNCHANGED <<rows, tx, locks>>
               /\ \/ gateway[o] = "open" /\ g \in {"paid", "short", "failed"}
                  \/ gateway[o] \in {"paid", "refunding"} /\ g \in Real
    BY DEF BuyerPays, GatewaySettlesRefund, Real
<1>2. /\ BooksInv'
      /\ \A p \in Orders : /\ gateway[p] \in Real => gateway'[p] \in Real
                           /\ gateway[p] = "refunded" => gateway'[p] = "refunded"
    <2>1. /\ walletLock' \in [Owners -> Workers \cup {Nobody}]
          /\ payLock' \in [Orders -> Workers \cup {Nobody}]
          /\ UNCHANGED rows /\ gateway' = [gateway EXCEPT ![o] = g]
        BY <1>1 DEF LedgerInv, BooksInv, RowTypes, locks
    <2>2. BooksInv
        BY DEF LedgerInv
    <2> QED
        BY <1>1, <2>1, <2>2, GatewayMoves
<1>3. Frame(Nobody)
    BY <1>1, <1>2, NothingPosted DEF Frame, rows, locks, LedgerInv
<1>4. CallsInv'
    BY <1>1, <1>3, CallsKept, SystemOwners DEF LedgerInv, CallsInv
<1> QED
    BY <1>2, <1>4 DEF LedgerInv

(* The call of the refund, answered or lost, repeated or not.              *)
LEMMA GatewayRefundStep ==
    ASSUME LedgerInv, NEW t \in Workers, GatewayRefund(t)
    PROVE  LedgerInv'
<1> PICK r \in TxRecord : r = tx[t]
    BY DEF LedgerInv, CallsInv
<1> DEFINE o == r.ref
<1>1. CallOK(t, r) /\ r.op = "refund" /\ r.pc = "gateway" /\ UNCHANGED rows
    BY DEF LedgerInv, CallsInv, GatewayRefund, At
<1>2. o \in Orders /\ status[o] # "none"
    BY <1>1 DEF CallOK
<1>3. ASSUME UNCHANGED locks, NEW g, gateway' = [gateway EXCEPT ![o] = g] \/ (g = gateway[o] /\ UNCHANGED gateway),
             (gateway[o] \in {"paid", "refunding"} /\ g \in Real) \/ UNCHANGED gateway,
             NEW pc \in {"payment", "mark"}, tx' = [tx EXCEPT ![t].pc = pc],
             pc = "payment" => g = "refunded" /\ gateway' = [gateway EXCEPT ![o] = g]
      PROVE  LedgerInv'
    <2>1. BooksInv'
          /\ \A p \in Orders : /\ gateway[p] \in Real => gateway'[p] \in Real
                               /\ gateway[p] = "refunded" => gateway'[p] = "refunded"
        <3>1. /\ walletLock' \in [Owners -> Workers \cup {Nobody}]
              /\ payLock' \in [Orders -> Workers \cup {Nobody}]
            BY <1>3 DEF LedgerInv, BooksInv, RowTypes, locks
        <3>2. BooksInv
            BY DEF LedgerInv
        <3>3. CASE UNCHANGED gateway
            BY <1>1, <3>1, <3>2, <3>3, RowsKept
        <3>4. CASE gateway' # gateway
            BY <1>1, <1>2, <1>3, <3>1, <3>2, <3>4, GatewayMoves
        <3> QED
            BY <3>3, <3>4
    <2>2. PICK q : q = [r EXCEPT !.pc = pc]
        OBVIOUS
    <2>3. /\ q \in TxRecord /\ q.op = r.op /\ q.ref = r.ref /\ q.pc = pc
          /\ q.answer = r.answer /\ q.from = r.from /\ q.todo = r.todo
        BY <2>2 DEF TxRecord, TxPcs
    <2>4. tx' \in [Workers -> TxRecord] /\ tx'[t] = q /\ \A u \in Workers \ {t} : tx'[u] = tx[u]
        <3>1. tx' = [tx EXCEPT ![t] = q] /\ tx \in [Workers -> TxRecord]
            BY <1>3, <2>2 DEF LedgerInv, CallsInv
        <3> QED
            BY <2>3, <3>1
    <2>5. Frame(t)
        BY <1>1, <1>3, <2>1, <2>4, NothingPosted DEF Frame, rows, locks, LedgerInv
    <2>6. pc = "payment" => gateway'[o] = "refunded"
        BY <1>2, <1>3 DEF LedgerInv, BooksInv, RowTypes
    <2>7. CallOK(t, q)' /\ ReadsHold(t, q)'
        BY <1>1, <1>2, <2>3, <2>6 DEF CallOK, ReadsHold, rows
    <2>8. CallsInv'
        BY <2>4, <2>5, <2>7, CallsKept
    <2> QED
        BY <2>1, <2>8 DEF LedgerInv
<1>4. ASSUME gateway[o] = "paid", NEW g \in {"refunded", "refunding"}, gateway' = [gateway EXCEPT ![o] = g], Finish(t)
      PROVE  LedgerInv'
    <2>1. BooksInv'
          /\ \A p \in Orders : /\ gateway[p] \in Real => gateway'[p] \in Real
                               /\ gateway[p] = "refunded" => gateway'[p] = "refunded"
        BY <1>1, <1>2, <1>4, FinishFrees, GatewayMoves DEF LedgerInv, Real
    <2>2. Frame(t)
        BY <1>1, <1>4, <2>1, FinishFrees, NothingPosted DEF Frame, rows, LedgerInv
    <2>3. CallsInv'
        BY <1>4, <2>2, FinishFrees, CallsKept
    <2> QED
        BY <2>1, <2>3 DEF LedgerInv
<1>5. CASE gateway[o] = "paid" /\ UNCHANGED locks
           /\ \E g \in {"refunded", "refunding"} :
                  /\ gateway' = [gateway EXCEPT ![o] = g]
                  /\ tx' = [tx EXCEPT ![t].pc = IF g = "refunded" THEN "payment" ELSE "mark"]
    BY <1>3, <1>5 DEF Real
<1>6. CASE gateway[o] = "paid" /\ Finish(t)
           /\ \E g \in {"refunded", "refunding"} : gateway' = [gateway EXCEPT ![o] = g]
    BY <1>4, <1>6
<1>7. CASE tx' = [tx EXCEPT ![t].pc = "mark"] /\ UNCHANGED <<gateway, locks>>
    BY <1>3, <1>7
<1> QED
    BY <1>5, <1>6, <1>7 DEF GatewayRefund

(* The payment's row is locked: its status, read under the lock, stays     *)
(* what it is until the end of the transaction.                            *)
LEMMA LockPaymentStep ==
    ASSUME LedgerInv, NEW t \in Workers, NEW op \in {"result", "refund"}, NEW todo \in SUBSET Owners,
           NEW r \in TxRecord, r = tx[t], r.op \in {"result", "refund"}, r.pc = "payment",
           payLock[r.ref] = Nobody, LockPaymentAnd(t, op, todo),
           op = "result" => /\ status[r.ref] = "pending" /\ r.answer = "succeeded" /\ r.op = "result"
                            /\ todo = Touched(r.ref, Clearing),
           op = "refund" => /\ status[r.ref] \in {"succeeded", "refund_pending"}
                            /\ via[r.ref] = "wallet" \/ gateway[r.ref] = "refunded"
                            /\ todo = EntryWallets(r.ref)
    PROVE  LedgerInv'
<1>1. CallOK(t, r)
    BY DEF LedgerInv, CallsInv
<1>2. r.ref \in Orders
    BY <1>1 DEF CallOK
<1>3. PICK q : q = [r EXCEPT !.op = op, !.pc = "wallets", !.todo = todo]
    OBVIOUS
<1>4. /\ q \in TxRecord /\ q.op = op /\ q.ref = r.ref /\ q.pc = "wallets"
      /\ q.answer = r.answer /\ q.from = r.from /\ q.todo = todo
    BY <1>3 DEF TxRecord, TxPcs, Ops
<1>5. tx' \in [Workers -> TxRecord] /\ tx'[t] = q /\ \A u \in Workers \ {t} : tx'[u] = tx[u]
    <2>1. tx' = [tx EXCEPT ![t] = q] /\ tx \in [Workers -> TxRecord]
        BY <1>3 DEF LedgerInv, CallsInv, LockPaymentAnd
    <2> QED
        BY <1>4, <2>1
<1>6. /\ payLock' \in [Orders -> Workers \cup {Nobody}] /\ payLock'[r.ref] = t
      /\ \A o \in Orders \ {r.ref} : payLock'[o] = payLock[o]
      /\ UNCHANGED <<rows, gateway, walletLock>>
    BY <1>2 DEF LedgerInv, BooksInv, RowTypes, LockPaymentAnd
<1>7. BooksInv'
    BY <1>6, RowsKept DEF LedgerInv, BooksInv, RowTypes
<1>8. Frame(t)
    BY <1>2, <1>5, <1>6, NothingPosted DEF Frame, rows, LedgerInv
<1>9. CallOK(t, q)'
    BY <1>1, <1>2, <1>4, <1>6 DEF CallOK, rows
<1>10. ReadsHold(t, q)'
    <2>1. LockSet(q)' = todo
        BY <1>4, <1>6 DEF LockSet, EntryWallets, PaymentEntry, rows
    <2> QED
        BY <1>4, <2>1 DEF ReadsHold
<1>11. CallsInv'
    BY <1>5, <1>8, <1>9, <1>10, CallsKept
<1> QED
    BY <1>7, <1>11 DEF LedgerInv
-----------------------------------------------------------------------------
(* The transactions that only change the payment's row.                    *)

(* The end of a transaction that posts nothing and moves its order's       *)
(* status where nobody else holds it.                                      *)
LEMMA StatusStep ==
    ASSUME LedgerInv, NEW t \in Workers, Finish(t), UNCHANGED <<wallet, ledger>>, NEW o \in Orders,
           \A p \in Orders \ {o} : status'[p] = status[p] /\ via'[p] = via[p] /\ gateway'[p] = gateway[p],
           payLock[o] \in {t, Nobody} \/ status[o] = "none",
           status[o] # "none" => status'[o] # "none" /\ via'[o] = via[o] /\ gateway'[o] = gateway[o],
           status[o] = "none" => status'[o] = "pending" /\ via'[o] = "gateway" /\ gateway'[o] = "open",
           status'[o] = "pending" => status[o] \in {"none", "pending"},
           status'[o] \in PaidStatuses <=> status[o] \in PaidStatuses,
           status'[o] = "refunded" <=> status[o] = "refunded",
           RowTypes', ConsumedIsApplied'
    PROVE  LedgerInv'
<1>1. \A p \in Orders : /\ gateway[p] \in Real => gateway'[p] \in Real
                        /\ gateway[p] = "refunded" => gateway'[p] = "refunded"
    BY DEF LedgerInv, BooksInv, GatewayOK, Real
<1>2. \A p \in Orders : StatusOK(p)' /\ GatewayOK(p)'
    BY NothingPosted DEF LedgerInv, BooksInv, StatusOK, GatewayOK
<1>3. GatewayMoneyIsReal'
    BY DEF LedgerInv, BooksInv, GatewayMoneyIsReal, PaidStatuses
<1>4. BooksInv'
    BY <1>2, <1>3, NothingPosted DEF LedgerInv, BooksInv
<1>5. Frame(t)
    BY <1>1, FinishFrees, NothingPosted DEF Frame, LedgerInv
<1>6. CallsInv'
    BY <1>5, FinishFrees, CallsKept
<1> QED
    BY <1>4, <1>6 DEF LedgerInv

(* CreatePayment at a gateway inserts the row.                             *)
LEMMA CheckoutStep ==
    ASSUME LedgerInv, NEW t \in Workers, CreateGatewayPayment(t)
    PROVE  LedgerInv'
<1> PICK r \in TxRecord : r = tx[t]
    BY DEF LedgerInv, CallsInv
<1>1. CallOK(t, r) /\ r.op = "checkout"
    BY DEF LedgerInv, CallsInv, CreateGatewayPayment, At
<1>2. r.ref \in Orders
    BY <1>1 DEF CallOK
<1>3. CASE Rollback(t)
    BY <1>3, RollbackStep
<1>4. CASE /\ status[r.ref] = "none"
           /\ status' = [status EXCEPT ![r.ref] = "pending"]
           /\ via' = [via EXCEPT ![r.ref] = "gateway"]
           /\ gateway' = [gateway EXCEPT ![r.ref] = "open"]
           /\ Finish(t)
           /\ UNCHANGED <<announced, wallet, ledger, inbox>>
    <2>1. RowTypes'
        BY <1>4, FinishFrees DEF LedgerInv, BooksInv, RowTypes
    <2>2. /\ status'[r.ref] = "pending" /\ via'[r.ref] = "gateway" /\ gateway'[r.ref] = "open"
          /\ \A p \in Orders \ {r.ref} : status'[p] = status[p] /\ via'[p] = via[p] /\ gateway'[p] = gateway[p]
        BY <1>2, <1>4 DEF LedgerInv, BooksInv, RowTypes
    <2>3. ConsumedIsApplied'
        BY <1>2, <1>4, <2>2 DEF LedgerInv, BooksInv, ConsumedIsApplied
    <2> QED
        BY <1>2, <1>4, <2>1, <2>2, <2>3, StatusStep DEF PaidStatuses
<1> QED
    BY <1>3, <1>4 DEF CreateGatewayPayment

(* A gateway refund that is accepted but not carried out yet is marked.    *)
LEMMA MarkStep ==
    ASSUME LedgerInv, NEW t \in Workers, MarkRefundPending(t)
    PROVE  LedgerInv'
<1> PICK r \in TxRecord : r = tx[t]
    BY DEF LedgerInv, CallsInv
<1> DEFINE o == r.ref
<1>1. CallOK(t, r) /\ r.op = "refund" /\ payLock[o] = Nobody /\ Finish(t)
      /\ status' = [status EXCEPT ![o] = IF @ = "succeeded" THEN "refund_pending" ELSE @]
      /\ UNCHANGED <<via, announced, wallet, ledger, inbox, gateway>>
    BY DEF LedgerInv, CallsInv, MarkRefundPending, At
<1>2. o \in Orders /\ status[o] # "none"
    BY <1>1 DEF CallOK
<1>3. RowTypes'
    BY <1>1, <1>2, FinishFrees DEF LedgerInv, BooksInv, RowTypes
<1>4. /\ status'[o] = IF status[o] = "succeeded" THEN "refund_pending" ELSE status[o]
      /\ \A p \in Orders \ {o} : status'[p] = status[p]
    BY <1>1, <1>2 DEF LedgerInv, BooksInv, RowTypes
<1>5. ConsumedIsApplied'
    <2>1. inbox' = inbox /\ \A p \in Orders : status[p] \notin {"none", "pending"} => status'[p] \notin {"none", "pending"}
        BY <1>1, <1>4
    <2> QED
        BY <2>1 DEF LedgerInv, BooksInv, ConsumedIsApplied
<1> QED
    BY <1>1, <1>2, <1>3, <1>4, <1>5, StatusStep DEF PaidStatuses

(* A result that settles nothing, or that the payment failed.              *)
LEMMA ConsumeStep ==
    ASSUME LedgerInv, NEW t \in Workers, NEW r \in TxRecord, r = tx[t], r.op = "result",
           payLock[r.ref] = Nobody, Consume(t), Finish(t), UNCHANGED <<via, wallet, ledger, gateway>>,
           \/ /\ status[r.ref] = "pending"
              /\ status' = [status EXCEPT ![r.ref] = "failed"] /\ announced' = [announced EXCEPT ![r.ref] = TRUE]
           \/ /\ ~ (status[r.ref] = "pending" /\ r.answer \in {"succeeded", "failed"})
              /\ UNCHANGED <<status, announced>>
    PROVE  LedgerInv'
<1> DEFINE o == r.ref
<1>1. CallOK(t, r)
    BY DEF LedgerInv, CallsInv
<1>2. o \in Orders /\ status[o] # "none"
    BY <1>1 DEF CallOK
<1>3. /\ inbox' \subseteq inbox \cup {<<o, r.answer>>}
      /\ inbox' \subseteq Orders \X {"succeeded", "failed", "short"}
    BY <1>1, <1>2 DEF Consume, CallOK, LedgerInv, BooksInv, RowTypes
<1>4. RowTypes'
    BY <1>2, <1>3, FinishFrees DEF LedgerInv, BooksInv, RowTypes
<1>5. /\ \A p \in Orders \ {o} : status'[p] = status[p]
      /\ \/ status[o] = "pending" /\ status'[o] = "failed"
         \/ status'[o] = status[o] /\ ~ (status[o] = "pending" /\ r.answer \in {"succeeded", "failed"})
    BY <1>2 DEF LedgerInv, BooksInv, RowTypes
<1>6. ConsumedIsApplied'
    <2> SUFFICES ASSUME NEW p \in Orders, NEW answer \in {"succeeded", "failed"}, <<p, answer>> \in inbox'
                 PROVE  status'[p] \notin {"none", "pending"}
        BY DEF ConsumedIsApplied
    <2>1. CASE <<p, answer>> \in inbox
        BY <1>5, <2>1 DEF LedgerInv, BooksInv, ConsumedIsApplied
    <2>2. CASE p = o /\ answer = r.answer
        BY <1>2, <1>5, <2>2
    <2> QED
        BY <1>3, <2>1, <2>2
<1> QED
    BY <1>2, <1>4, <1>5, <1>6, StatusStep DEF PaidStatuses

(* ApplyGatewayResult under the lock of the payment's row.                 *)
LEMMA ApplyStep ==
    ASSUME LedgerInv, NEW t \in Workers, ApplyGatewayResult(t)
    PROVE  LedgerInv'
<1> PICK r \in TxRecord : r = tx[t]
    BY DEF LedgerInv, CallsInv
<1> DEFINE o == r.ref
<1>1. CallOK(t, r) /\ r.op = "result" /\ r.pc = "payment" /\ payLock[o] = Nobody
    BY DEF LedgerInv, CallsInv, ApplyGatewayResult, At
<1>2. CASE status[o] = "pending" /\ r.answer = "succeeded"
    <2>1. LockPaymentAnd(t, "result", Touched(o, Clearing))
        BY <1>2 DEF ApplyGatewayResult
    <2>2. Touched(o, Clearing) \subseteq Owners
        BY SystemOwners, TouchedOwners
    <2> QED
        BY <1>1, <1>2, <2>1, <2>2, LockPaymentStep
<1>3. CASE status[o] = "refund_pending" /\ r.answer = "refunded"
    <2>1. LockPaymentAnd(t, "refund", EntryWallets(o))
        BY <1>3 DEF ApplyGatewayResult
    <2>2. EntryWallets(o) \subseteq Owners /\ gateway[o] = "refunded"
        BY <1>1, <1>3 DEF EntryWallets, CallOK
    <2> QED
        BY <1>1, <1>3, <2>1, <2>2, LockPaymentStep
<1>4. CASE status[o] = "pending" /\ r.answer = "failed"
    BY <1>1, <1>4, ConsumeStep DEF ApplyGatewayResult
<1>5. CASE ~ \/ status[o] = "pending" /\ r.answer = "succeeded"
             \/ status[o] = "refund_pending" /\ r.answer = "refunded"
             \/ status[o] = "pending" /\ r.answer = "failed"
    BY <1>1, <1>5, ConsumeStep DEF ApplyGatewayResult
<1> QED
    BY <1>2, <1>3, <1>4, <1>5

(* RefundPayment under the lock of the payment's row.                      *)
LEMMA LockRefundStep ==
    ASSUME LedgerInv, NEW t \in Workers, LockRefund(t)
    PROVE  LedgerInv'
<1> PICK r \in TxRecord : r = tx[t]
    BY DEF LedgerInv, CallsInv
<1> DEFINE o == r.ref
<1>1. CallOK(t, r) /\ r.op = "refund" /\ r.pc = "payment" /\ payLock[o] = Nobody
    BY DEF LedgerInv, CallsInv, LockRefund, At
<1>2. CASE Rollback(t)
    BY <1>2, RollbackStep
<1>3. CASE status[o] \in {"succeeded", "refund_pending"} /\ LockPaymentAnd(t, "refund", EntryWallets(o))
    <2>1. EntryWallets(o) \subseteq Owners /\ (via[o] = "wallet" \/ gateway[o] = "refunded")
        BY <1>1 DEF EntryWallets, CallOK
    <2> QED
        BY <1>1, <1>3, <2>1, LockPaymentStep
<1> QED
    BY <1>2, <1>3 DEF LockRefund
-----------------------------------------------------------------------------
(* The transactions that post.                                             *)

(* The balances were read under the locks that are still held, so what is  *)
(* written is the balances with the entries added.                         *)
LEMMA PostKeeps ==
    ASSUME LedgerInv, NEW t \in Workers, NEW r \in TxRecord, r = tx[t], r.pc = "wallets", r.todo = {},
           NEW kind, NEW key, NEW entries, NEW ws \in SUBSET Owners, ws = LockSet(r),
           Post(t, kind, key, entries, ws),
           EntryOK([kind |-> kind, ref |-> r.ref, key |-> key, entries |-> entries]),
           ~ Recorded(kind, r.ref),
           \A w \in Owners \ ws : entries[w] = 0,
           \A w \in ws : AllowNegative(w) \/ entries[w] >= 0 \/ r.seen[w] + entries[w] >= 0
    PROVE  /\ LedgerOK' /\ WalletsMatchLedger' /\ NoOverdraft' /\ wallet' \in [Owners -> Int]
           /\ \A k, o : Recorded(k, o)' <=> Recorded(k, o) \/ (k = kind /\ o = r.ref)
           /\ \A w \in Owners : walletLock[w] # t => wallet'[w] = wallet[w]
           /\ \A o \in Orders : Recorded("payment", o) => EntryWallets(o)' = EntryWallets(o)
<1> DEFINE n == [kind |-> kind, ref |-> r.ref, key |-> key, entries |-> entries]
<1>1. n.kind = kind /\ n.ref = r.ref /\ n.entries = entries /\ EntryOK(n)
    OBVIOUS
<1>2. ledger' = ledger \cup {n} /\ wallet' = [w \in Owners |-> IF w \in ws THEN r.seen[w] + entries[w] ELSE wallet[w]]
    BY DEF Post
<1> HIDE DEF n
<1>3. entries \in [Owners -> Int] /\ wallet \in [Owners -> Int]
    BY <1>1 DEF EntryOK, EntryRecord, LedgerInv, BooksInv, RowTypes
<1>4. \A w \in ws : walletLock[w] = t /\ r.seen[w] = wallet[w]
    BY DEF LedgerInv, CallsInv, ReadsHold
<1>5. wallet' = [w \in Owners |-> wallet[w] + n.entries[w]]
    <2>1. \A w \in Owners \ ws : wallet[w] = wallet[w] + entries[w]
        BY <1>3
    <2> QED
        BY <1>1, <1>2, <1>4, <2>1
<1>6. \A e \in ledger : ~ (e.kind = n.kind /\ e.ref = n.ref)
    BY <1>1 DEF Recorded
<1>7. LedgerOK' /\ WalletsMatchLedger' /\ wallet' \in [Owners -> Int]
    BY <1>1, <1>2, <1>3, <1>5, <1>6, PostingKeepsBooks DEF LedgerInv, BooksInv
<1>8. NoOverdraft'
    <2> SUFFICES ASSUME NEW w \in Owners, ~ AllowNegative(w) PROVE wallet'[w] >= 0
        BY DEF NoOverdraft, AllowNegative
    <2>1. wallet[w] >= 0 /\ wallet[w] \in Int /\ entries[w] \in Int
        BY <1>3 DEF LedgerInv, BooksInv, NoOverdraft
    <2>2. wallet'[w] = wallet[w] + entries[w]
        BY <1>1, <1>5
    <2>3. CASE w \in ws
        BY <1>4, <2>1, <2>2, <2>3
    <2>4. CASE w \notin ws
        BY <2>1, <2>2, <2>4
    <2> QED
        BY <2>3, <2>4
<1>9. \A k, o : Recorded(k, o)' <=> Recorded(k, o) \/ (k = kind /\ o = r.ref)
    BY <1>1, <1>2 DEF Recorded
<1>10. \A w \in Owners : walletLock[w] # t => wallet'[w] = wallet[w]
    BY <1>2, <1>4
<1>11. ASSUME NEW o \in Orders, Recorded("payment", o)
       PROVE  EntryWallets(o)' = EntryWallets(o)
    BY <1>2, <1>7, <1>11, PaymentStays DEF LedgerInv, BooksInv
<1> QED
    BY <1>7, <1>8, <1>9, <1>10, <1>11

(* A posting moves its order's status, where nobody else holds it, to what *)
(* was posted.                                                             *)
LEMMA PostedStep ==
    ASSUME LedgerInv, NEW t \in Workers, Finish(t), UNCHANGED gateway,
           LedgerOK', WalletsMatchLedger', NoOverdraft', RowTypes',
           NEW kind \in {"payment", "refund"}, NEW o \in Orders, ~ Recorded(kind, o),
           \A k, p : Recorded(k, p)' <=> Recorded(k, p) \/ (k = kind /\ p = o),
           \A w \in Owners : walletLock[w] # t => wallet'[w] = wallet[w],
           \A p \in Orders : Recorded("payment", p) => EntryWallets(p)' = EntryWallets(p),
           \A p \in Orders \ {o} : status'[p] = status[p] /\ via'[p] = via[p],
           payLock[o] = t \/ status[o] = "none",
           status[o] # "none" => via'[o] = via[o],
           kind = "payment" => status'[o] = "succeeded" /\ (via'[o] = "gateway" => gateway[o] \in Real),
           kind = "refund" => /\ status[o] \in {"succeeded", "refund_pending"} /\ status'[o] = "refunded"
                              /\ via[o] = "wallet" \/ gateway[o] = "refunded",
           ConsumedIsApplied'
    PROVE  LedgerInv'
<1>1. \A p \in Orders : StatusOK(p) /\ GatewayOK(p)
    BY DEF LedgerInv, BooksInv
<1>2. status'[o] \in {"succeeded", "refunded"}
    OBVIOUS
<1>3. \A p \in Orders : StatusOK(p)'
    BY <1>1 DEF StatusOK, PaidStatuses
<1>4. \A p \in Orders : GatewayOK(p)'
    BY <1>1, <1>2 DEF GatewayOK
<1>5. GatewayMoneyIsReal'
    BY DEF LedgerInv, BooksInv, GatewayMoneyIsReal, Real
<1>6. BooksInv'
    BY <1>3, <1>4, <1>5 DEF BooksInv
<1>7. Frame(t)
    BY <1>2, FinishFrees DEF Frame
<1>8. CallsInv'
    BY <1>7, FinishFrees, CallsKept
<1> QED
    BY <1>6, <1>8 DEF LedgerInv

(* AdjustBalance posts a key once, with the target not overdrawn.          *)
LEMMA PostAdjustmentStep ==
    ASSUME LedgerInv, NEW t \in Workers, PostAdjustment(t)
    PROVE  LedgerInv'
<1> PICK r \in TxRecord : r = tx[t]
    BY DEF LedgerInv, CallsInv
<1> DEFINE k == r.ref
           ws == {Target[k], Funding}
<1>1. CallOK(t, r) /\ r.op = "adjust" /\ r.pc = "wallets" /\ r.todo = {}
    BY DEF LedgerInv, CallsInv, PostAdjustment, Ready, At
<1>2. k \in Adjustments
    BY <1>1 DEF CallOK
<1>3. CASE Rollback(t)
    BY <1>3, RollbackStep
<1>4. CASE /\ ~ Posted(<<"adjust", k>>) /\ Affordable(t, AdjustEntries(k), {Target[k]})
           /\ Post(t, "balance_adjustment", <<"adjust", k>>, AdjustEntries(k), ws) /\ Finish(t)
           /\ UNCHANGED <<status, via, announced, inbox, gateway>>
    <2> DEFINE n == [kind |-> "balance_adjustment", ref |-> k, key |-> <<"adjust", k>>, entries |-> AdjustEntries(k)]
    <2>1. EntryOK(n)
        <3>1. AdjustEntries(k) \in [Owners -> Int] /\ SumFunctionOnSet(AdjustEntries(k), Owners) = 0
            BY <1>2, AdjustBalances
        <3>2. n \in EntryRecord
            BY <1>2, <3>1 DEF EntryRecord
        <3> QED
            BY <3>1, <3>2 DEF EntryOK
    <2>2. ~ Recorded("balance_adjustment", k)
        BY <1>4 DEF Recorded, Posted, LedgerInv, BooksInv, LedgerOK, EntriesOK, EntryOK
    <2>3. ws = LockSet(r) /\ ws \in SUBSET Owners /\ \A w \in Owners \ ws : AdjustEntries(k)[w] = 0
        BY <1>1, <1>2, AdjustBalances DEF LockSet
    <2>4. \A w \in ws : \/ AllowNegative(w) \/ AdjustEntries(k)[w] >= 0
                        \/ r.seen[w] + AdjustEntries(k)[w] >= 0
        BY <1>4 DEF Affordable, AllowNegative
    <2> HIDE DEF ws, n
    <2>5. /\ LedgerOK' /\ WalletsMatchLedger' /\ NoOverdraft' /\ wallet' \in [Owners -> Int]
          /\ \A kind, o : Recorded(kind, o)' <=> Recorded(kind, o) \/ (kind = "balance_adjustment" /\ o = k)
          /\ \A w \in Owners : walletLock[w] # t => wallet'[w] = wallet[w]
          /\ \A o \in Orders : Recorded("payment", o) => EntryWallets(o)' = EntryWallets(o)
        BY <1>1, <1>4, <2>1, <2>2, <2>3, <2>4, PostKeeps DEF n
    <2>6. RowTypes'
        BY <1>4, <2>5, FinishFrees DEF LedgerInv, BooksInv, RowTypes
    <2>7. \A o \in Orders : StatusOK(o)' /\ GatewayOK(o)'
        BY <1>4, <2>5 DEF LedgerInv, BooksInv, StatusOK, GatewayOK
    <2>8. GatewayMoneyIsReal' /\ ConsumedIsApplied'
        BY <1>4 DEF LedgerInv, BooksInv, GatewayMoneyIsReal, ConsumedIsApplied
    <2>9. BooksInv'
        BY <2>5, <2>6, <2>7, <2>8 DEF BooksInv
    <2>10. Frame(t)
        BY <1>4, <2>5, FinishFrees DEF Frame
    <2>11. CallsInv'
        BY <1>4, <2>10, FinishFrees, CallsKept
    <2> QED
        BY <2>9, <2>11 DEF LedgerInv
<1> QED
    BY <1>3, <1>4 DEF PostAdjustment
(* A payment from a wallet: the funds suffice, and the order has no        *)
(* payment yet.                                                            *)
LEMMA PostPaymentStep ==
    ASSUME LedgerInv, NEW t \in Workers, PostPayment(t)
    PROVE  LedgerInv'
<1> PICK r \in TxRecord : r = tx[t]
    BY DEF LedgerInv, CallsInv
<1> DEFINE o == r.ref
           entries == Deltas(o, Buyer[o])
           ws == Touched(o, Buyer[o])
<1>1. CallOK(t, r) /\ r.op = "pay" /\ r.pc = "wallets" /\ r.todo = {}
    BY DEF LedgerInv, CallsInv, PostPayment, Ready, At
<1>2. o \in Orders
    BY <1>1 DEF CallOK
<1>3. CASE Rollback(t)
    BY <1>3, RollbackStep
<1>4. CASE /\ Affordable(t, entries, ws) /\ status[o] = "none"
           /\ Post(t, "payment", <<"payment", o>>, entries, ws)
           /\ status' = [status EXCEPT ![o] = "succeeded"]
           /\ via' = [via EXCEPT ![o] = "wallet"]
           /\ Finish(t)
           /\ UNCHANGED <<announced, inbox, gateway>>
    <2> DEFINE n == [kind |-> "payment", ref |-> o, key |-> <<"payment", o>>, entries |-> entries]
    <2>1. Buyer[o] \in Owners
        BY <1>2, CustomerOwners
    <2>2. /\ entries \in [Owners -> Int] /\ SumFunctionOnSet(entries, Owners) = 0
          /\ \A w \in Owners \ ws : entries[w] = 0
        BY <1>2, <2>1, DeltasBalance
    <2>3. ws = LockSet(r) /\ ws \in SUBSET Owners
        <3>1. LockSet(r) = ws
            BY <1>1 DEF LockSet
        <3> QED
            BY <2>1, <3>1, TouchedOwners
    <2>4. \A w \in ws : AllowNegative(w) \/ entries[w] >= 0 \/ r.seen[w] + entries[w] >= 0
        BY <1>4 DEF Affordable
    <2>5. ~ Recorded("payment", o)
        BY <1>2, <1>4 DEF LedgerInv, BooksInv, StatusOK, PaidStatuses
    <2> HIDE DEF entries, ws
    <2>6. EntryOK(n)
        <3>1. n \in EntryRecord
            BY <1>2, <2>2 DEF EntryRecord
        <3> QED
            BY <1>2, <2>2, <3>1 DEF EntryOK
    <2> HIDE DEF n
    <2>7. /\ LedgerOK' /\ WalletsMatchLedger' /\ NoOverdraft' /\ wallet' \in [Owners -> Int]
          /\ \A k, p : Recorded(k, p)' <=> Recorded(k, p) \/ (k = "payment" /\ p = o)
          /\ \A w \in Owners : walletLock[w] # t => wallet'[w] = wallet[w]
          /\ \A p \in Orders : Recorded("payment", p) => EntryWallets(p)' = EntryWallets(p)
        BY <1>1, <1>4, <2>2, <2>3, <2>4, <2>5, <2>6, PostKeeps DEF n
    <2>8. RowTypes'
        BY <1>4, <2>7, FinishFrees DEF LedgerInv, BooksInv, RowTypes
    <2>9. /\ status'[o] = "succeeded" /\ via'[o] = "wallet"
          /\ \A p \in Orders \ {o} : status'[p] = status[p] /\ via'[p] = via[p]
        BY <1>2, <1>4 DEF LedgerInv, BooksInv, RowTypes
    <2>10. ConsumedIsApplied'
        BY <1>4, <2>9 DEF LedgerInv, BooksInv, ConsumedIsApplied
    <2> HIDE DEF o
    <2> QED
        BY <1>2, <1>4, <2>5, <2>7, <2>8, <2>9, <2>10, PostedStep
<1> QED
    BY <1>3, <1>4 DEF PostPayment

(* A payment at the gateway: the buyer's money is there, and every wallet  *)
(* but the clearing account receives.                                      *)
LEMMA PostGatewayStep ==
    ASSUME LedgerInv, NEW t \in Workers, PostGatewayLedger(t)
    PROVE  LedgerInv'
<1> PICK r \in TxRecord : r = tx[t]
    BY DEF LedgerInv, CallsInv
<1> DEFINE o == r.ref
           entries == Deltas(o, Clearing)
           ws == Touched(o, Clearing)
           n == [kind |-> "payment", ref |-> o, key |-> <<"payment", o>>, entries |-> entries]
<1>1. CallOK(t, r) /\ r.op = "result" /\ r.pc = "wallets" /\ r.todo = {}
    BY DEF LedgerInv, CallsInv, PostGatewayLedger, Ready, At
<1>2. /\ o \in Orders /\ payLock[o] = t /\ status[o] = "pending" /\ r.answer = "succeeded"
      /\ gateway[o] \in Real
      /\ r.from = "webhook" => r.answer \in {"succeeded", "failed", "short"}
    BY <1>1 DEF CallOK
<1>3. /\ Post(t, "payment", <<"payment", o>>, entries, ws)
      /\ status' = [status EXCEPT ![o] = "succeeded"]
      /\ announced' = [announced EXCEPT ![o] = TRUE]
      /\ Consume(t) /\ Finish(t)
      /\ UNCHANGED <<via, gateway>>
    BY DEF PostGatewayLedger
<1>4. /\ entries \in [Owners -> Int] /\ SumFunctionOnSet(entries, Owners) = 0
      /\ \A w \in Owners \ ws : entries[w] = 0
      /\ \A w \in Owners \ {Clearing} : entries[w] >= 0
    BY <1>2, DeltasBalance, SystemOwners
<1>5. ws = LockSet(r) /\ ws \in SUBSET Owners
    <2>1. LockSet(r) = ws
        BY <1>1 DEF LockSet
    <2> QED
        BY <2>1, SystemOwners, TouchedOwners
<1> HIDE DEF entries, ws
<1>6. \A w \in ws : AllowNegative(w) \/ entries[w] >= 0 \/ r.seen[w] + entries[w] >= 0
    BY <1>4, <1>5 DEF AllowNegative
<1>7. ~ Recorded("payment", o)
    BY <1>2 DEF LedgerInv, BooksInv, StatusOK, PaidStatuses
<1>8. EntryOK(n)
    <2>1. n \in EntryRecord
        BY <1>2, <1>4 DEF EntryRecord
    <2> QED
        BY <1>2, <1>4, <2>1 DEF EntryOK
<1> HIDE DEF n
<1>9. /\ LedgerOK' /\ WalletsMatchLedger' /\ NoOverdraft' /\ wallet' \in [Owners -> Int]
      /\ \A k, p : Recorded(k, p)' <=> Recorded(k, p) \/ (k = "payment" /\ p = o)
      /\ \A w \in Owners : walletLock[w] # t => wallet'[w] = wallet[w]
      /\ \A p \in Orders : Recorded("payment", p) => EntryWallets(p)' = EntryWallets(p)
    BY <1>1, <1>3, <1>4, <1>5, <1>6, <1>7, <1>8, PostKeeps DEF n
<1>10. /\ inbox' \subseteq inbox \cup {<<o, "succeeded">>}
       /\ inbox' \subseteq Orders \X {"succeeded", "failed", "short"}
    BY <1>2, <1>3 DEF Consume, LedgerInv, BooksInv, RowTypes
<1>11. RowTypes'
    BY <1>2, <1>3, <1>9, <1>10, FinishFrees DEF LedgerInv, BooksInv, RowTypes
<1>12. status'[o] = "succeeded" /\ \A p \in Orders \ {o} : status'[p] = status[p]
    BY <1>2, <1>3 DEF LedgerInv, BooksInv, RowTypes
<1>13. ConsumedIsApplied'
    <2> SUFFICES ASSUME NEW p \in Orders, NEW answer \in {"succeeded", "failed"}, <<p, answer>> \in inbox'
                 PROVE  status'[p] \notin {"none", "pending"}
        BY DEF ConsumedIsApplied
    <2> QED
        BY <1>10, <1>12 DEF LedgerInv, BooksInv, ConsumedIsApplied
<1> HIDE DEF o
<1> QED
    BY <1>2, <1>3, <1>7, <1>9, <1>11, <1>12, <1>13, PostedStep

(* A refund reverses the payment's entries, if the sellers can pay.        *)
LEMMA PostRefundStep ==
    ASSUME LedgerInv, NEW t \in Workers, PostRefund(t)
    PROVE  LedgerInv'
<1> PICK r \in TxRecord : r = tx[t]
    BY DEF LedgerInv, CallsInv
<1> DEFINE o == r.ref
           entries == [w \in Owners |-> -PaymentEntry(o).entries[w]]
           ws == EntryWallets(o)
<1>1. CallOK(t, r) /\ r.op = "refund" /\ r.pc = "wallets" /\ r.todo = {}
    BY DEF LedgerInv, CallsInv, PostRefund, Ready, At
<1>2. /\ o \in Orders /\ payLock[o] = t /\ status[o] \in {"succeeded", "refund_pending"}
      /\ via[o] = "wallet" \/ gateway[o] = "refunded"
    BY <1>1 DEF CallOK
<1>3. CASE Rollback(t)
    BY <1>3, RollbackStep
<1>4. CASE /\ Affordable(t, entries, ws)
           /\ Post(t, "refund", RefundKey(t), entries, ws)
           /\ status' = [status EXCEPT ![o] = "refunded"]
           /\ announced' = [announced EXCEPT ![o] = TRUE]
           /\ Finish(t)
           /\ UNCHANGED <<via, inbox, gateway>>
    <2> DEFINE n == [kind |-> "refund", ref |-> o, key |-> RefundKey(t), entries |-> entries]
    <2>1. Recorded("payment", o) /\ ~ Recorded("refund", o)
        BY <1>2 DEF LedgerInv, BooksInv, StatusOK, PaidStatuses
    <2>2. /\ entries \in [Owners -> Int] /\ SumFunctionOnSet(entries, Owners) = 0
          /\ \A w \in Owners \ ws : entries[w] = 0
          /\ ws \in SUBSET Owners
        BY <1>2, <2>1, ReversalBalances DEF LedgerInv, BooksInv
    <2>3. ws = LockSet(r)
        BY <1>1 DEF LockSet
    <2>4. \A w \in ws : AllowNegative(w) \/ entries[w] >= 0 \/ r.seen[w] + entries[w] >= 0
        BY <1>4 DEF Affordable
    <2> HIDE DEF entries, ws
    <2>5. RefundKey(t) \in {"refund", "gateway-refund"} \X {o} /\ RefundKey(t)[1] \in {"refund", "gateway-refund"}
        BY DEF RefundKey
    <2>6. EntryOK(n)
        <3>1. n \in EntryRecord
            BY <1>2, <2>2, <2>5 DEF EntryRecord
        <3> QED
            BY <2>2, <2>5, <3>1 DEF EntryOK
    <2> HIDE DEF n
    <2>7. /\ LedgerOK' /\ WalletsMatchLedger' /\ NoOverdraft' /\ wallet' \in [Owners -> Int]
          /\ \A k, p : Recorded(k, p)' <=> Recorded(k, p) \/ (k = "refund" /\ p = o)
          /\ \A w \in Owners : walletLock[w] # t => wallet'[w] = wallet[w]
          /\ \A p \in Orders : Recorded("payment", p) => EntryWallets(p)' = EntryWallets(p)
        BY <1>1, <1>4, <2>1, <2>2, <2>3, <2>4, <2>6, PostKeeps DEF n
    <2>8. RowTypes'
        BY <1>2, <1>4, <2>7, FinishFrees DEF LedgerInv, BooksInv, RowTypes
    <2>9. status'[o] = "refunded" /\ \A p \in Orders \ {o} : status'[p] = status[p]
        BY <1>2, <1>4 DEF LedgerInv, BooksInv, RowTypes
    <2>10. ConsumedIsApplied'
        BY <1>4, <2>9 DEF LedgerInv, BooksInv, ConsumedIsApplied
    <2> HIDE DEF o
    <2> QED
        BY <1>2, <1>4, <2>1, <2>7, <2>8, <2>9, <2>10, PostedStep
<1> QED
    BY <1>3, <1>4 DEF PostRefund

-----------------------------------------------------------------------------
(* Every step, and what follows.                                           *)

(* No step breaks the inductive invariant.                                 *)
LEMMA LedgerStep == LedgerInv /\ [LedgerNext]_ledgerVars => LedgerInv'
<1> SUFFICES ASSUME LedgerInv, [LedgerNext]_ledgerVars PROVE LedgerInv'
    OBVIOUS
<1>1. ASSUME NEW t \in Workers, Request(t) PROVE LedgerInv'
    BY <1>1, RequestStep
<1>2. ASSUME NEW t \in Workers, Abort(t) PROVE LedgerInv'
    BY <1>2, RollbackStep DEF Abort
<1>3. ASSUME NEW t \in Workers, Statement(t) PROVE LedgerInv'
    BY <1>3, LockWalletStep, PostAdjustmentStep, PostPaymentStep, CheckoutStep, ApplyStep,
       PostGatewayStep, GatewayRefundStep, MarkStep, LockRefundStep, PostRefundStep DEF Statement
<1>4. CASE UNCHANGED ledgerVars
    <2>1. UNCHANGED <<rows, gateway, tx, locks>>
        BY <1>4 DEF ledgerVars
    <2>2. BooksInv'
        BY <2>1, RowsKept DEF LedgerInv, BooksInv, RowTypes, locks
    <2>3. Frame(Nobody)
        BY <2>1, NothingPosted DEF Frame, rows, locks, LedgerInv
    <2>4. CallsInv'
        BY <2>1, <2>3, CallsKept, SystemOwners DEF LedgerInv, CallsInv
    <2> QED
        BY <2>2, <2>4 DEF LedgerInv
<1> QED
    BY <1>1, <1>2, <1>3, <1>4, OutsideStep DEF LedgerNext

(* The inductive invariant holds of every state.                           *)
THEOREM LedgerSafety == LedgerSpec => []LedgerInv
<1> QED
    BY LedgerStarts, LedgerStep, PTL DEF LedgerSpec

(* Rows, gateway and open transactions have their types.                   *)
THEOREM LedgerTypes == LedgerSpec => []LedgerTypeOK
<1>1. LedgerInv => LedgerTypeOK
    BY DEF LedgerInv, BooksInv, CallsInv, RowTypes, LedgerOK, EntriesOK, EntryOK, EntryRecord, TxRecord, LedgerTypeOK
<1> QED
    BY <1>1, LedgerSafety, PTL

(* Double entry: the entries of every ledger transaction add up to zero,   *)
(* for any fee, any split between sellers, and refunds as well.            *)
THEOREM EntriesBalance == LedgerSpec => []TransactionsBalance
<1>1. LedgerInv => TransactionsBalance
    BY DEF LedgerInv, BooksInv, LedgerOK, EntriesOK, EntryOK, TransactionsBalance
<1> QED
    BY <1>1, LedgerSafety, PTL

(* Every wallet holds what its entries say: no update of a balance is lost *)
(* between concurrent payments, refunds and adjustments.                   *)
THEOREM BalancesMatchLedger == LedgerSpec => []WalletsMatchLedger
<1>1. LedgerInv => WalletsMatchLedger
    BY DEF LedgerInv, BooksInv
<1> QED
    BY <1>1, LedgerSafety, PTL

(* No wallet of a customer, a seller or the platform is overdrawn.         *)
THEOREM NobodyIsOverdrawn == LedgerSpec => []NoOverdraft
<1>1. LedgerInv => NoOverdraft
    BY DEF LedgerInv, BooksInv
<1> QED
    BY <1>1, LedgerSafety, PTL

(* An order is charged once at most and refunded once at most, and its     *)
(* status says which of the two was posted.                                *)
THEOREM ChargedOnceRefundedOnce == LedgerSpec => []PostedAsStatusSays
<1>1. ASSUME LedgerInv, NEW o \in Orders, NEW kind \in {"payment", "refund"}
      PROVE  Cardinality({e \in ledger : e.kind = kind /\ e.ref = o}) = IF Recorded(kind, o) THEN 1 ELSE 0
    <2> DEFINE posted == {e \in ledger : e.kind = kind /\ e.ref = o}
    <2>1. CASE Recorded(kind, o)
        <3>1. PICK e \in ledger : e.kind = kind /\ e.ref = o
            BY <2>1 DEF Recorded
        <3>2. posted = {e}
            BY <1>1, <3>1 DEF LedgerInv, BooksInv, LedgerOK, EntriesOK
        <3> QED
            BY <2>1, <3>2, FS_Singleton
    <2>2. CASE ~ Recorded(kind, o)
        <3>1. posted = {}
            BY <2>2 DEF Recorded
        <3> QED
            BY <2>2, <3>1, FS_EmptySet
    <2> QED
        BY <2>1, <2>2
<1>2. LedgerInv => PostedAsStatusSays
    BY <1>1 DEF LedgerInv, BooksInv, StatusOK, PaidStatuses, PostedAsStatusSays
<1> QED
    BY <1>2, LedgerSafety, PTL

(* Nothing is posted for money the gateway does not have, and nothing is   *)
(* given back before the gateway has given it back.                        *)
THEOREM GatewayIsAhead == LedgerSpec => []GatewayMoneyIsReal
<1>1. LedgerInv => GatewayMoneyIsReal
    BY DEF LedgerInv, BooksInv
<1> QED
    BY <1>1, LedgerSafety, PTL

(* A webhook event in the inbox has had its effect.                        *)
THEOREM EventsTakeEffect == LedgerSpec => []ConsumedIsApplied
<1>1. LedgerInv => ConsumedIsApplied
    BY DEF LedgerInv, BooksInv
<1> QED
    BY <1>1, LedgerSafety, PTL

-----------------------------------------------------------------------------
(* The payment rows, as the checkout saga sees them: the order's total is  *)
(* in the wallet (1) until it is taken from it (0).                        *)

RowView == INSTANCE OrderPayment WITH
    payment <- status,
    provider <- via,
    balance <- [o \in Orders |-> IF via[o] = "wallet" /\ status[o] \in {"succeeded", "refund_pending"} THEN 0 ELSE 1],
    payEvent <- announced,
    MaxBalance <- 1,
    OpeningBalances <- {1}

(* Steps that leave the rows alone are stuttering steps of the service.    *)
LEMMA RowsStutter == UNCHANGED <<status, via, announced>> => UNCHANGED RowView!payVars
<1> QED
    BY DEF RowView!payVars

\* Writing payment row o, and what such a write may do to it.
RowSet(o, s, v, e) ==
    status' = [status EXCEPT ![o] = s] /\ via' = [via EXCEPT ![o] = v] /\ announced' = [announced EXCEPT ![o] = e]
RowMove(o, s, v, e) ==
    \/ status[o] = "none" /\ via[o] = "none" /\ s = "succeeded" /\ v = "wallet" /\ e = announced[o]
    \/ status[o] = "none" /\ via[o] = "none" /\ s = "pending" /\ v = "gateway" /\ e = announced[o]
    \/ status[o] = "pending" /\ via[o] # "wallet" /\ s \in {"succeeded", "failed"} /\ v = via[o] /\ e = TRUE
    \/ status[o] \in {"succeeded", "refund_pending"} /\ s = "refunded" /\ v = via[o] /\ e = TRUE
    \/ status[o] = "succeeded" /\ via[o] = "gateway" /\ s = "refund_pending" /\ v = via[o] /\ e = announced[o]

(* A step on the row of one order, read through the mapping.               *)
LEMMA RowMoves ==
    ASSUME RowTypes, NEW o \in Orders, NEW s, NEW v, NEW e, RowSet(o, s, v, e), RowMove(o, s, v, e)
    PROVE  [RowView!PaymentNext]_(RowView!payVars)
<1> USE DEF RowSet
<1> DEFINE taken == via[o] = "wallet" /\ status[o] \in {"succeeded", "refund_pending"}
           bal == [p \in Orders |-> IF via[p] = "wallet" /\ status[p] \in {"succeeded", "refund_pending"} THEN 0 ELSE 1]
           bal2 == [p \in Orders |-> IF via'[p] = "wallet" /\ status'[p] \in {"succeeded", "refund_pending"} THEN 0 ELSE 1]
<1>1. /\ bal[o] = IF taken THEN 0 ELSE 1
      /\ bal2[o] = IF v = "wallet" /\ s \in {"succeeded", "refund_pending"} THEN 0 ELSE 1
      /\ \A p \in Orders \ {o} : bal2[p] = bal[p]
      /\ bal = [p \in Orders |-> bal[p]] /\ bal2 = [p \in Orders |-> bal2[p]]
    BY DEF RowTypes
<1>2. /\ v = via[o] => via' = via
      /\ e = announced[o] => announced' = announced
    BY DEF RowTypes
<1> HIDE DEF bal, bal2, taken
<1>3. bal2[o] = bal[o] => bal2 = bal
    BY <1>1
<1>4. CASE status[o] = "none" /\ via[o] = "none" /\ s = "succeeded" /\ v = "wallet" /\ e = announced[o]
    <2>1. bal[o] = 1 /\ bal2 = [bal EXCEPT ![o] = @ - 1]
        BY <1>1, <1>4 DEF taken
    <2>2. RowView!WalletCharge(o)
        BY <1>2, <1>4, <2>1 DEF RowView!WalletCharge, RowView!WalletDeclines, bal, bal2
    <2> QED
        BY <2>2 DEF RowView!PaymentNext
<1>5. CASE status[o] = "none" /\ via[o] = "none" /\ s = "pending" /\ v = "gateway" /\ e = announced[o]
    <2>1. bal2 = bal
        BY <1>1, <1>3, <1>5 DEF taken
    <2>2. RowView!GatewayCheckout(o)
        BY <1>2, <1>5, <2>1 DEF RowView!GatewayCheckout, bal, bal2
    <2> QED
        BY <2>2 DEF RowView!PaymentNext
<1>6. CASE status[o] = "pending" /\ via[o] # "wallet" /\ s \in {"succeeded", "failed"} /\ v = via[o] /\ e = TRUE
    <2>1. bal2 = bal
        BY <1>1, <1>3, <1>6 DEF taken
    <2>2. RowView!GatewayResult(o)
        BY <1>2, <1>6, <2>1 DEF RowView!GatewayResult, bal, bal2
    <2> QED
        BY <2>2 DEF RowView!PaymentNext
<1>7. CASE status[o] \in {"succeeded", "refund_pending"} /\ s = "refunded" /\ v = via[o] /\ e = TRUE
    <2>1. bal2 = IF via[o] = "wallet" /\ bal[o] < 1 THEN [bal EXCEPT ![o] = @ + 1] ELSE bal
        BY <1>1, <1>3, <1>7 DEF taken
    <2>2. RowView!CompleteRefund(o)
        BY <1>2, <1>7, <2>1 DEF RowView!CompleteRefund, bal, bal2
    <2> QED
        BY <2>2 DEF RowView!PaymentNext, RowView!RefundPayment
<1>8. CASE status[o] = "succeeded" /\ via[o] = "gateway" /\ s = "refund_pending" /\ v = via[o] /\ e = announced[o]
    <2>1. bal2 = bal
        BY <1>1, <1>3, <1>8 DEF taken
    <2>2. RowView!DeferRefund(o)
        BY <1>2, <1>8, <2>1 DEF RowView!DeferRefund, bal, bal2
    <2> QED
        BY <2>2 DEF RowView!PaymentNext, RowView!RefundPayment
<1> QED
    BY <1>4, <1>5, <1>6, <1>7, <1>8 DEF RowMove

\* The rows stay as they are, or one of them moves.
RowsMove ==
    \/ UNCHANGED <<status, via, announced>>
    \/ \E o \in Orders : \E s, v, e : RowSet(o, s, v, e) /\ RowMove(o, s, v, e)

(* A step of the transactions moves one payment row at most, forward.      *)
LEMMA LedgerMovesRows ==
    ASSUME LedgerInv, [LedgerNext]_ledgerVars
    PROVE  RowsMove
<1>1. UNCHANGED <<status, via, announced>> => RowsMove
    BY DEF RowsMove
<1>2. RowTypes /\ \A o \in Orders : GatewayOK(o)
    BY DEF LedgerInv, BooksInv
<1>3. status = [o \in Orders |-> status[o]] /\ via = [o \in Orders |-> via[o]] /\ announced = [o \in Orders |-> announced[o]]
    BY <1>2 DEF RowTypes
<1>4. ASSUME NEW t \in Workers, Statement(t)
      PROVE  RowsMove
    <2> PICK r \in TxRecord : r = tx[t]
        BY DEF LedgerInv, CallsInv
    <2> DEFINE o == r.ref
    <2>1. CallOK(t, r)
        BY DEF LedgerInv, CallsInv
    <2>2. CASE PostPayment(t)
        <3>1. r.op = "pay" /\ o \in Orders
            BY <2>1, <2>2 DEF PostPayment, Ready, At, CallOK
        <3>2. CASE Rollback(t)
            BY <1>1, <3>2 DEF Rollback, rows
        <3>3. CASE /\ status[o] = "none" /\ status' = [status EXCEPT ![o] = "succeeded"]
                   /\ via' = [via EXCEPT ![o] = "wallet"] /\ UNCHANGED announced
            <4>1. announced' = [announced EXCEPT ![o] = announced[o]] /\ via[o] = "none"
                BY <1>2, <1>3, <3>1, <3>3 DEF GatewayOK
            <4>2. RowSet(o, "succeeded", "wallet", announced[o]) /\ RowMove(o, "succeeded", "wallet", announced[o])
                BY <3>3, <4>1 DEF RowSet, RowMove
            <4> QED
                BY <3>1, <4>2 DEF RowsMove
        <3> QED
            BY <2>2, <3>2, <3>3 DEF PostPayment
    <2>3. CASE CreateGatewayPayment(t)
        <3>1. r.op = "checkout" /\ o \in Orders
            BY <2>1, <2>3 DEF CreateGatewayPayment, At, CallOK
        <3>2. CASE Rollback(t)
            BY <1>1, <3>2 DEF Rollback, rows
        <3>3. CASE /\ status[o] = "none" /\ status' = [status EXCEPT ![o] = "pending"]
                   /\ via' = [via EXCEPT ![o] = "gateway"] /\ UNCHANGED announced
            <4>1. announced' = [announced EXCEPT ![o] = announced[o]] /\ via[o] = "none"
                BY <1>2, <1>3, <3>1, <3>3 DEF GatewayOK
            <4>2. RowSet(o, "pending", "gateway", announced[o]) /\ RowMove(o, "pending", "gateway", announced[o])
                BY <3>3, <4>1 DEF RowSet, RowMove
            <4> QED
                BY <3>1, <4>2 DEF RowsMove
        <3> QED
            BY <2>3, <3>2, <3>3 DEF CreateGatewayPayment
    <2>4. CASE ApplyGatewayResult(t)
        <3>1. r.op = "result" /\ o \in Orders
            BY <2>1, <2>4 DEF ApplyGatewayResult, At, CallOK
        <3>2. CASE UNCHANGED <<status, via, announced>>
            BY <1>1, <3>2
        <3>3. CASE /\ status[o] = "pending" /\ status' = [status EXCEPT ![o] = "failed"]
                   /\ announced' = [announced EXCEPT ![o] = TRUE] /\ UNCHANGED via
            <4>1. via' = [via EXCEPT ![o] = via[o]] /\ via[o] # "wallet"
                BY <1>2, <1>3, <3>1, <3>3 DEF GatewayOK
            <4>2. RowSet(o, "failed", via[o], TRUE) /\ RowMove(o, "failed", via[o], TRUE)
                BY <3>3, <4>1 DEF RowSet, RowMove
            <4> QED
                BY <3>1, <4>2 DEF RowsMove
        <3> QED
            BY <2>4, <3>2, <3>3 DEF ApplyGatewayResult, LockPaymentAnd, rows
    <2>5. CASE PostGatewayLedger(t)
        <3>1. o \in Orders /\ status[o] = "pending"
            BY <2>1, <2>5 DEF PostGatewayLedger, Ready, At, CallOK
        <3>2. /\ status' = [status EXCEPT ![o] = "succeeded"]
              /\ announced' = [announced EXCEPT ![o] = TRUE] /\ UNCHANGED via
            BY <2>5 DEF PostGatewayLedger
        <3>3. via' = [via EXCEPT ![o] = via[o]] /\ via[o] # "wallet"
            BY <1>2, <1>3, <3>1, <3>2 DEF GatewayOK
        <3>4. RowSet(o, "succeeded", via[o], TRUE) /\ RowMove(o, "succeeded", via[o], TRUE)
            BY <3>1, <3>2, <3>3 DEF RowSet, RowMove
        <3> QED
            BY <3>1, <3>4 DEF RowsMove
    <2>6. CASE MarkRefundPending(t)
        <3>1. o \in Orders /\ via[o] = "gateway"
            BY <2>1, <2>6 DEF MarkRefundPending, At, CallOK
        <3>2. /\ status' = [status EXCEPT ![o] = IF status[o] = "succeeded" THEN "refund_pending" ELSE status[o]]
              /\ UNCHANGED <<via, announced>>
            BY <2>6 DEF MarkRefundPending
        <3>3. CASE status[o] = "succeeded"
            <4>1. via' = [via EXCEPT ![o] = via[o]] /\ announced' = [announced EXCEPT ![o] = announced[o]]
                BY <1>3, <3>1, <3>2
            <4>2. RowSet(o, "refund_pending", via[o], announced[o]) /\ RowMove(o, "refund_pending", via[o], announced[o])
                BY <3>1, <3>2, <3>3, <4>1 DEF RowSet, RowMove
            <4> QED
                BY <3>1, <4>2 DEF RowsMove
        <3>4. CASE status[o] # "succeeded"
            BY <1>1, <1>3, <3>1, <3>2, <3>4
        <3> QED
            BY <3>3, <3>4
    <2>7. CASE PostRefund(t)
        <3>1. o \in Orders /\ status[o] \in {"succeeded", "refund_pending"}
            BY <2>1, <2>7 DEF PostRefund, Ready, At, CallOK
        <3>2. CASE Rollback(t)
            BY <1>1, <3>2 DEF Rollback, rows
        <3>3. CASE /\ status' = [status EXCEPT ![o] = "refunded"]
                   /\ announced' = [announced EXCEPT ![o] = TRUE] /\ UNCHANGED via
            <4>1. via' = [via EXCEPT ![o] = via[o]]
                BY <1>3, <3>1, <3>3
            <4>2. RowSet(o, "refunded", via[o], TRUE) /\ RowMove(o, "refunded", via[o], TRUE)
                BY <3>1, <3>3, <4>1 DEF RowSet, RowMove
            <4> QED
                BY <3>1, <4>2 DEF RowsMove
        <3> QED
            BY <2>7, <3>2, <3>3 DEF PostRefund
    <2>8. CASE LockWallet(t) \/ PostAdjustment(t) \/ GatewayRefund(t) \/ LockRefund(t)
        BY <1>1, <2>8 DEF LockWallet, PostAdjustment, GatewayRefund, LockRefund, LockPaymentAnd, Rollback, rows
    <2> QED
        BY <1>4, <2>2, <2>3, <2>4, <2>5, <2>6, <2>7, <2>8 DEF Statement
<1>5. ASSUME NEW t \in Workers, Request(t)
      PROVE  UNCHANGED <<status, via, announced>>
    BY <1>5 DEF Request, AdjustBalance, CreatePayment, CreateCheckout, ProcessWebhook,
        ReconcilePendingPayments, RefundPayment, Begin, BeginResult, rows
<1>6. ASSUME NEW t \in Workers, Abort(t)
      PROVE  UNCHANGED <<status, via, announced>>
    BY <1>6 DEF Abort, Rollback, rows
<1>7. ASSUME NEW o \in Orders, BuyerPays(o) \/ GatewaySettlesRefund(o)
      PROVE  UNCHANGED <<status, via, announced>>
    BY <1>7 DEF BuyerPays, GatewaySettlesRefund, rows
<1>8. UNCHANGED ledgerVars => UNCHANGED <<status, via, announced>>
    BY DEF ledgerVars, rows
<1> QED
    BY <1>1, <1>4, <1>5, <1>6, <1>7, <1>8 DEF LedgerNext

(* So every step of the transactions is a step of the payment service, or  *)
(* none.                                                                   *)
LEMMA LedgerRowStep ==
    ASSUME LedgerInv, [LedgerNext]_ledgerVars
    PROVE  [RowView!PaymentNext]_(RowView!payVars)
<1>1. CASE UNCHANGED <<status, via, announced>>
    BY <1>1, RowsStutter
<1>2. CASE \E o \in Orders : \E s, v, e : RowSet(o, s, v, e) /\ RowMove(o, s, v, e)
    BY <1>2, RowMoves DEF LedgerInv, BooksInv
<1> QED
    BY <1>1, <1>2, LedgerMovesRows DEF RowsMove

(* The transactions implement the payment service the saga composes: a row *)
(* is charged once, settled once and refunded once, in its own order, and  *)
(* announced when it is settled.                                           *)
THEOREM LedgerImplementsPayments == LedgerSpec => RowView!PaymentSpec
<1>1. LedgerInit => RowView!PaymentInit
    BY DEF LedgerInit, RowView!PaymentInit
<1> QED
    BY <1>1, LedgerRowStep, LedgerSafety, PTL DEF LedgerSpec, RowView!PaymentSpec

-----------------------------------------------------------------------------
(* The balance counted in order totals (SagaView).  OrderPayment gives an  *)
(* order a balance of its own, as if it alone were paid from that wallet.  *)

\* Each buyer has one order and is allocated nothing, and totals are positive
\* (CreatePayment turns down others).
OneOrderEach ==
    /\ \A o \in Orders : Total(o) > 0
    /\ \A o, p \in Orders : Allocation[p][Buyer[o]] = 0
    /\ \A o, p \in Orders : Buyer[o] = Buyer[p] => o = p

TopUps == [k \in Adjustments |-> IF Delta[k] > 0 THEN Delta[k] ELSE 0]
AllTopUps == SumFunctionOnSet(TopUps, Adjustments)
NotYet == {k \in Adjustments : ~ Posted(<<"adjust", k>>)}

\* What the buyer of o would have without the payment.
Charged(o) == via[o] = "wallet" /\ status[o] \in {"succeeded", "refund_pending"}
Purse(o) == wallet[Buyer[o]] + (IF Charged(o) THEN Total(o) ELSE 0)

\* What the entries of a payment take from the buyers.
TakesTotal(e) ==
    e.kind = "payment" =>
        \A o \in Orders : e.entries[Buyer[o]] = IF e.ref = o /\ via[o] = "wallet" THEN -Total(o) ELSE 0

\* A buyer has never had more than was and will be paid in.
PurseInv ==
    /\ \A o \in Orders : Purse(o) + SumFunctionOnSet(TopUps, NotYet) <= AllTopUps
    /\ \A e \in ledger : TakesTotal(e)

(* Totals and what is paid in are amounts, and a buyer's wallet is a       *)
(* customer's.                                                             *)
LEMMA PurseFacts ==
    ASSUME OneOrderEach
    PROVE  /\ \A o \in Orders : Total(o) \in Nat /\ Total(o) > 0
           /\ \A k \in Adjustments : TopUps[k] \in Nat /\ Delta[k] \in Int /\ Delta[k] <= TopUps[k]
           /\ \A S \in SUBSET Adjustments : IsFiniteSet(S) /\ SumFunctionOnSet(TopUps, S) \in Nat
           /\ AllTopUps \in Nat
           /\ \A o \in Orders : /\ Buyer[o] \in Owners /\ ~ AllowNegative(Buyer[o])
                                /\ Buyer[o] \notin {Platform, Clearing, Funding}
<1>1. \A o \in Orders : Total(o) \in Nat /\ Total(o) > 0
    <2> SUFFICES ASSUME NEW o \in Orders PROVE Total(o) \in Nat
        BY DEF OneOrderEach
    <2>1. \A w \in Owners : Allocation[o][w] \in Nat
        BY AmountsGiven
    <2> QED
        BY <2>1, SystemOwners, SumNonneg DEF Total
<1>2. \A k \in Adjustments : TopUps[k] \in Nat /\ Delta[k] \in Int /\ Delta[k] <= TopUps[k]
    BY AmountsGiven DEF TopUps
<1>3. ASSUME NEW S \in SUBSET Adjustments
      PROVE  IsFiniteSet(S) /\ SumFunctionOnSet(TopUps, S) \in Nat
    <2>1. IsFiniteSet(S)
        BY AmountsGiven, FS_Subset
    <2> QED
        BY <1>2, <2>1, SumNonneg
<1>4. ASSUME NEW o \in Orders
      PROVE  Buyer[o] \in Owners /\ ~ AllowNegative(Buyer[o]) /\ Buyer[o] \notin {Platform, Clearing, Funding}
    <2>1. Buyer \in [Orders -> Customers]
        BY LedgerAssumption
    <2> QED
        BY <2>1 DEF Customers, AllowNegative
<1> QED
    BY <1>1, <1>2, <1>3, <1>4 DEF AllTopUps

(* A payment takes its total from the buyer who pays it himself and leaves *)
(* the other buyers alone; an adjustment concerns its target.              *)
LEMMA BuyersShare ==
    ASSUME OneOrderEach, NEW p \in Orders
    PROVE  /\ \A o \in Orders : Deltas(o, Buyer[o])[Buyer[p]] = IF o = p THEN -Total(o) ELSE 0
           /\ \A o \in Orders : Deltas(o, Clearing)[Buyer[p]] = 0
           /\ \A k \in Adjustments : AdjustEntries(k)[Buyer[p]] = IF Buyer[p] = Target[k] THEN Delta[k] ELSE 0
<1>1. ASSUME NEW o \in Orders, NEW payer \in Owners
      PROVE  Deltas(o, payer)[Buyer[p]] = IF Buyer[p] = payer THEN -Total(o) ELSE 0
    <2>1. Allocation[o][Buyer[p]] = 0 /\ Buyer[p] \in Owners /\ Buyer[p] # Platform
        BY PurseFacts DEF OneOrderEach
    <2>2. Fee(0) = 0
        BY FeeBounds
    <2>3. Deltas(o, payer)[Buyer[p]] = (IF Buyer[p] = payer THEN -Total(o) ELSE 0) + (0 - 0) + 0
        BY <2>1, <2>2 DEF Deltas
    <2>4. Total(o) \in Nat
        BY PurseFacts
    <2> QED
        BY <2>3, <2>4
<1>2. \A o \in Orders : Deltas(o, Buyer[o])[Buyer[p]] = IF o = p THEN -Total(o) ELSE 0
    BY <1>1, PurseFacts DEF OneOrderEach
<1>3. \A o \in Orders : Deltas(o, Clearing)[Buyer[p]] = 0
    BY <1>1, PurseFacts, SystemOwners
<1>4. \A k \in Adjustments : AdjustEntries(k)[Buyer[p]] = IF Buyer[p] = Target[k] THEN Delta[k] ELSE 0
    BY PurseFacts DEF AdjustEntries
<1> QED
    BY <1>2, <1>3, <1>4

(* At first nothing is charged, and what was paid in is due no more.       *)
LEMMA PurseStarts ==
    ASSUME OneOrderEach, LedgerInit
    PROVE  PurseInv
<1>1. PICK funded \in SUBSET {k \in Adjustments : Delta[k] > 0} :
          /\ ledger = {[kind |-> "balance_adjustment", ref |-> k, key |-> <<"adjust", k>>,
                        entries |-> AdjustEntries(k)] : k \in funded}
          /\ wallet = [w \in Owners |-> SumFunctionOnSet([k \in Adjustments |-> AdjustEntries(k)[w]], funded)]
    BY DEF LedgerInit
<1>2. NotYet = Adjustments \ funded
    <2>1. ASSUME NEW k \in funded PROVE Posted(<<"adjust", k>>)
        <3> DEFINE e == [kind |-> "balance_adjustment", ref |-> k, key |-> <<"adjust", k>>,
                         entries |-> AdjustEntries(k)]
        <3>1. e \in ledger /\ e.key = <<"adjust", k>>
            BY <1>1
        <3> QED
            BY <3>1 DEF Posted
    <2>2. ASSUME NEW k \in Adjustments, Posted(<<"adjust", k>>) PROVE k \in funded
        <3>1. \A e \in ledger : \E j \in funded : e.key = <<"adjust", j>>
            BY <1>1
        <3>2. PICK e \in ledger : e.key = <<"adjust", k>>
            BY <2>2 DEF Posted
        <3>3. PICK j \in funded : <<"adjust", j>> = <<"adjust", k>>
            BY <3>1, <3>2
        <3> QED
            BY <3>3
    <2> QED
        BY <2>1, <2>2 DEF NotYet
<1>3. ASSUME NEW o \in Orders
      PROVE  Purse(o) + SumFunctionOnSet(TopUps, NotYet) <= AllTopUps
    <2> DEFINE f == [k \in Adjustments |-> AdjustEntries(k)[Buyer[o]]]
    <2>1. Purse(o) = SumFunctionOnSet(f, funded) + 0
        BY <1>1, PurseFacts DEF Purse, Charged, LedgerInit
    <2>2. \A k \in funded : f[k] \in Int /\ TopUps[k] \in Int /\ f[k] <= TopUps[k]
        BY BuyersShare, PurseFacts
    <2> HIDE DEF f
    <2>3. IsFiniteSet(funded) /\ IsFiniteSet(Adjustments) /\ funded \in SUBSET Adjustments
        BY PurseFacts
    <2>4. SumFunctionOnSet(f, funded) <= SumFunctionOnSet(TopUps, funded) /\ SumFunctionOnSet(f, funded) \in Int
        BY <2>2, <2>3, SumAtMost, SumType
    <2>5. \A k \in Adjustments : TopUps[k] \in Int
        BY PurseFacts
    <2>6. AllTopUps = SumFunctionOnSet(TopUps, funded) + SumFunctionOnSet(TopUps, NotYet)
        BY <1>2, <2>3, <2>5, SumSplit DEF AllTopUps
    <2>7. SumFunctionOnSet(TopUps, funded) \in Nat /\ SumFunctionOnSet(TopUps, NotYet) \in Nat
        BY <1>2, <2>3, PurseFacts
    <2> QED
        BY <2>1, <2>4, <2>6, <2>7
<1>4. \A e \in ledger : TakesTotal(e)
    BY <1>1 DEF TakesTotal
<1> QED
    BY <1>3, <1>4 DEF PurseInv

(* A posting adds its entries to the wallets, although it writes balances. *)
LEMMA PostAdds ==
    ASSUME LedgerInv, NEW t \in Workers, NEW r \in TxRecord, r = tx[t], r.pc = "wallets", r.todo = {},
           NEW entries \in [Owners -> Int], NEW ws, ws = LockSet(r),
           wallet' = [w \in Owners |-> IF w \in ws THEN r.seen[w] + entries[w] ELSE wallet[w]],
           \A w \in Owners \ ws : entries[w] = 0
    PROVE  \A w \in Owners : wallet[w] \in Int /\ wallet'[w] = wallet[w] + entries[w]
<1>1. \A w \in ws : r.seen[w] = wallet[w]
    BY DEF LedgerInv, CallsInv, ReadsHold
<1>2. wallet \in [Owners -> Int]
    BY DEF LedgerInv, BooksInv, RowTypes
<1>3. \A w \in Owners \ ws : wallet[w] = wallet[w] + entries[w]
    BY <1>2
<1> QED
    BY <1>1, <1>2, <1>3

\* What the step does to the buyers: each keeps his purse, or one of them has his
\* balance adjusted.
PurseMove ==
    \/ \A o \in Orders : Purse(o)' = Purse(o)
    \/ \E o \in Orders : /\ UNCHANGED <<status, via, announced>>
                         /\ \A p \in Orders \ {o} : wallet'[Buyer[p]] = wallet[Buyer[p]]

(* A step that posts nothing.                                              *)
LEMMA PurseStays ==
    ASSUME OneOrderEach, LedgerInv, PurseInv, UNCHANGED <<wallet, ledger>>,
           \A o \in Orders : Charged(o)' <=> Charged(o),
           \A o \in Orders : via'[o] = via[o] \/ status[o] = "none"
    PROVE  PurseInv' /\ PurseMove
<1>1. \A o \in Orders : Purse(o)' = Purse(o)
    BY DEF Purse
<1>2. NotYet' = NotYet
    BY DEF NotYet, Posted
<1>3. ASSUME NEW e \in ledger, TakesTotal(e), e.kind = "payment", NEW o \in Orders
      PROVE  e.entries[Buyer[o]] = IF e.ref = o /\ via'[o] = "wallet" THEN -Total(o) ELSE 0
    <2>1. e.ref = o => status[o] # "none"
        BY <1>3 DEF LedgerInv, BooksInv, StatusOK, Recorded, PaidStatuses
    <2> QED
        BY <1>3, <2>1 DEF TakesTotal
<1>4. \A e \in ledger' : TakesTotal(e)'
    BY <1>3 DEF PurseInv, TakesTotal
<1>5. \A o \in Orders : (Purse(o) + SumFunctionOnSet(TopUps, NotYet) <= AllTopUps)'
    BY <1>1, <1>2 DEF PurseInv, AllTopUps, TopUps
<1> QED
    BY <1>1, <1>4, <1>5 DEF PurseInv, PurseMove

(* A posting of a payment or a refund of o that changes the buyer's wallet *)
(* by what the status says of it.                                          *)
LEMMA PursePosts ==
    ASSUME OneOrderEach, LedgerInv, PurseInv, NEW t, NEW o \in Orders,
           NEW kind \in {"payment", "refund"}, NEW key, key[1] \in {"payment", "refund", "gateway-refund"},
           NEW entries, NEW n, n.kind = kind, n.ref = o, n.key = key, n.entries = entries,
           ledger' = ledger \cup {n},
           \A w \in Owners : wallet[w] \in Int /\ wallet'[w] = wallet[w] + entries[w],
           \A p \in Orders \ {o} : status'[p] = status[p] /\ via'[p] = via[p] /\ entries[Buyer[p]] = 0,
           via'[o] = via[o] \/ status[o] = "none",
           entries[Buyer[o]] = (IF Charged(o) THEN Total(o) ELSE 0) - (IF Charged(o)' THEN Total(o) ELSE 0),
           kind = "payment" => ~ Charged(o) /\ (Charged(o)' <=> via'[o] = "wallet")
    PROVE  PurseInv' /\ PurseMove
<1>1. ASSUME NEW p \in Orders
      PROVE  Purse(p)' = Purse(p)
    <2>1. /\ wallet[Buyer[p]] \in Int /\ wallet'[Buyer[p]] = wallet[Buyer[p]] + entries[Buyer[p]]
          /\ Total(p) \in Nat
        BY PurseFacts
    <2>2. CASE p = o
        BY <2>1, <2>2 DEF Purse
    <2>3. CASE p # o
        BY <2>1, <2>3 DEF Purse, Charged
    <2> QED
        BY <2>2, <2>3
<1>2. NotYet' = NotYet
    <2>1. \A k \in Adjustments : key # <<"adjust", k>>
        OBVIOUS
    <2> QED
        BY <2>1 DEF NotYet, Posted
<1>3. ASSUME NEW e \in ledger, e.kind = "payment", NEW p \in Orders
      PROVE  e.entries[Buyer[p]] = IF e.ref = p /\ via'[p] = "wallet" THEN -Total(p) ELSE 0
    <2>1. TakesTotal(e)
        BY DEF PurseInv
    <2>2. e.ref = p => status[p] # "none"
        BY <1>3 DEF LedgerInv, BooksInv, StatusOK, Recorded, PaidStatuses
    <2>3. e.ref = p => via'[p] = via[p]
        BY <2>2
    <2> QED
        BY <1>3, <2>1, <2>3 DEF TakesTotal
<1>4. ASSUME kind = "payment", NEW p \in Orders
      PROVE  entries[Buyer[p]] = IF o = p /\ via'[p] = "wallet" THEN -Total(p) ELSE 0
    BY <1>4, PurseFacts
<1>5. \A e \in ledger' : TakesTotal(e)'
    BY <1>3, <1>4 DEF TakesTotal
<1>6. \A p \in Orders : (Purse(p) + SumFunctionOnSet(TopUps, NotYet) <= AllTopUps)'
    BY <1>1, <1>2 DEF PurseInv, AllTopUps, TopUps
<1> QED
    BY <1>1, <1>5, <1>6 DEF PurseInv, PurseMove

(* PostAdjustment: what the key pays in is due no more.                    *)
LEMMA PurseAdjusts ==
    ASSUME OneOrderEach, LedgerInv, PurseInv, NEW t \in Workers, PostAdjustment(t)
    PROVE  PurseInv' /\ PurseMove
<1> PICK r \in TxRecord : r = tx[t]
    BY DEF LedgerInv, CallsInv
<1> DEFINE k == r.ref
           f == AdjustEntries(k)
           ws == {Target[k], Funding}
<1>1. r.op = "adjust" /\ r.pc = "wallets" /\ r.todo = {} /\ k \in Adjustments
    BY DEF LedgerInv, CallsInv, CallOK, PostAdjustment, Ready, At
<1>2. CASE Rollback(t)
    BY <1>2, PurseStays DEF Rollback, rows, Charged
<1>3. CASE /\ ~ Posted(<<"adjust", k>>) /\ Post(t, "balance_adjustment", <<"adjust", k>>, f, ws)
           /\ UNCHANGED <<status, via, announced>>
    <2>1. f \in [Owners -> Int] /\ \A w \in Owners \ ws : f[w] = 0
        BY <1>1, AdjustBalances
    <2>2. ws = LockSet(r)
        BY <1>1 DEF LockSet
    <2>3. /\ ledger' = ledger \cup {[kind |-> "balance_adjustment", ref |-> k, key |-> <<"adjust", k>>, entries |-> f]}
          /\ wallet' = [w \in Owners |-> IF w \in ws THEN r.seen[w] + f[w] ELSE wallet[w]]
        BY <1>3 DEF Post
    <2>4. \A o \in Orders : f[Buyer[o]] = IF Buyer[o] = Target[k] THEN Delta[k] ELSE 0
        BY <1>1, BuyersShare
    <2> HIDE DEF f, ws
    <2>5. \A w \in Owners : wallet[w] \in Int /\ wallet'[w] = wallet[w] + f[w]
        BY <1>1, <2>1, <2>2, <2>3, PostAdds
    <2>6. k \in NotYet /\ NotYet' = NotYet \ {k}
        <3> DEFINE n == [kind |-> "balance_adjustment", ref |-> k, key |-> <<"adjust", k>>, entries |-> f]
        <3>1. ledger' = ledger \cup {n} /\ n.key = <<"adjust", k>>
            BY <2>3
        <3> HIDE DEF n
        <3>2. \A j : <<"adjust", k>> = <<"adjust", j>> <=> j = k
            OBVIOUS
        <3>3. \A j \in Adjustments : Posted(<<"adjust", j>>)' <=> Posted(<<"adjust", j>>) \/ j = k
            BY <3>1, <3>2 DEF Posted
        <3> QED
            BY <1>1, <1>3, <3>3 DEF NotYet
    <2>7. /\ SumFunctionOnSet(TopUps, NotYet) = TopUps[k] + SumFunctionOnSet(TopUps, NotYet')
          /\ SumFunctionOnSet(TopUps, NotYet') \in Nat
        <3>1. NotYet \in SUBSET Adjustments /\ NotYet \ {k} \in SUBSET Adjustments
            BY DEF NotYet
        <3>2. IsFiniteSet(NotYet) /\ \A j \in NotYet : TopUps[j] \in Int
            BY <3>1, PurseFacts
        <3>3. SumFunctionOnSet(TopUps, NotYet) = TopUps[k] + SumFunctionOnSet(TopUps, NotYet \ {k})
            BY <2>6, <3>2, SumPick
        <3>4. SumFunctionOnSet(TopUps, NotYet \ {k}) \in Nat
            BY <3>1, PurseFacts
        <3> QED
            BY <2>6, <3>3, <3>4, Zenon
    <2>8. ASSUME NEW o \in Orders
          PROVE  (Purse(o) + SumFunctionOnSet(TopUps, NotYet) <= AllTopUps)'
        <3> DEFINE due == SumFunctionOnSet(TopUps, NotYet)
                   left == SumFunctionOnSet(TopUps, NotYet')
                   spent == IF Charged(o) THEN Total(o) ELSE 0
        <3>1. /\ wallet[Buyer[o]] \in Int /\ wallet'[Buyer[o]] = wallet[Buyer[o]] + f[Buyer[o]]
              /\ f[Buyer[o]] \in {Delta[k], 0} /\ Delta[k] \in Int /\ TopUps[k] \in Nat /\ Delta[k] <= TopUps[k]
              /\ spent \in Nat /\ AllTopUps \in Nat
            BY <1>1, <2>4, <2>5, PurseFacts
        <3>2. Purse(o) = wallet[Buyer[o]] + spent /\ Purse(o)' = wallet'[Buyer[o]] + spent
            BY <1>3 DEF Purse, Charged
        <3>3. Purse(o) + due <= AllTopUps
            BY DEF PurseInv
        <3>4. due = TopUps[k] + left /\ left \in Nat
            BY <2>7
        <3> HIDE DEF due, left, spent
        <3>5. Purse(o)' + left <= AllTopUps
            BY <3>1, <3>2, <3>3, <3>4
        <3> QED
            BY <3>5 DEF left, AllTopUps, TopUps
    <2>9. \A e \in ledger' : TakesTotal(e)'
        BY <1>3, <2>3 DEF PurseInv, TakesTotal
    <2>10. PurseMove
        <3>1. CASE \E o \in Orders : Buyer[o] = Target[k]
            <4>1. PICK o \in Orders : Buyer[o] = Target[k]
                BY <3>1
            <4>2. \A p \in Orders \ {o} : f[Buyer[p]] = 0
                BY <2>4, <4>1 DEF OneOrderEach
            <4>3. \A p \in Orders \ {o} : wallet'[Buyer[p]] = wallet[Buyer[p]]
                BY <2>5, <4>2, PurseFacts
            <4> QED
                BY <1>3, <4>3 DEF PurseMove
        <3>2. CASE ~ \E o \in Orders : Buyer[o] = Target[k]
            <4>1. \A o \in Orders : wallet'[Buyer[o]] = wallet[Buyer[o]]
                BY <2>4, <2>5, <3>2, PurseFacts
            <4> QED
                BY <1>3, <4>1 DEF PurseMove, Purse, Charged
        <3> QED
            BY <3>1, <3>2
    <2> QED
        BY <2>8, <2>9, <2>10 DEF PurseInv
<1> QED
    BY <1>2, <1>3 DEF PostAdjustment

(* PostPayment: the buyer's wallet loses the total.                        *)
LEMMA PursePays ==
    ASSUME OneOrderEach, LedgerInv, PurseInv, NEW t \in Workers, PostPayment(t)
    PROVE  PurseInv' /\ PurseMove
<1> PICK r \in TxRecord : r = tx[t]
    BY DEF LedgerInv, CallsInv
<1> DEFINE o == r.ref
           f == Deltas(o, Buyer[o])
           ws == Touched(o, Buyer[o])
           key == <<"payment", o>>
           n == [kind |-> "payment", ref |-> o, key |-> key, entries |-> f]
<1>1. r.op = "pay" /\ r.pc = "wallets" /\ r.todo = {} /\ o \in Orders
    BY DEF LedgerInv, CallsInv, CallOK, PostPayment, Ready, At
<1>2. CASE Rollback(t)
    BY <1>2, PurseStays DEF Rollback, rows, Charged
<1>3. CASE /\ status[o] = "none" /\ Post(t, "payment", key, f, ws)
           /\ status' = [status EXCEPT ![o] = "succeeded"] /\ via' = [via EXCEPT ![o] = "wallet"]
    <2>1. f \in [Owners -> Int] /\ \A w \in Owners \ ws : f[w] = 0
        BY <1>1, CustomerOwners, DeltasBalance
    <2>2. ws = LockSet(r)
        BY <1>1 DEF LockSet
    <2>3. /\ ledger' = ledger \cup {n}
          /\ wallet' = [w \in Owners |-> IF w \in ws THEN r.seen[w] + f[w] ELSE wallet[w]]
        BY <1>3 DEF Post
    <2>4. \A p \in Orders : f[Buyer[p]] = IF p = o THEN -Total(o) ELSE 0
        BY <1>1, BuyersShare
    <2>5. /\ status'[o] = "succeeded" /\ via'[o] = "wallet"
          /\ \A p \in Orders \ {o} : status'[p] = status[p] /\ via'[p] = via[p]
        BY <1>1, <1>3 DEF LedgerInv, BooksInv, RowTypes
    <2>6. ~ Charged(o) /\ Charged(o)'
        BY <1>3, <2>5 DEF Charged
    <2>7. n.kind = "payment" /\ n.ref = o /\ n.key = key /\ n.entries = f /\ key[1] = "payment"
        OBVIOUS
    <2> HIDE DEF f, ws, n, key
    <2>8. \A w \in Owners : wallet[w] \in Int /\ wallet'[w] = wallet[w] + f[w]
        BY <1>1, <2>1, <2>2, <2>3, PostAdds
    <2>9. f[Buyer[o]] = (IF Charged(o) THEN Total(o) ELSE 0) - (IF Charged(o)' THEN Total(o) ELSE 0)
        BY <1>1, <2>4, <2>6, PurseFacts
    <2> HIDE DEF o
    <2> QED
        BY <1>1, <1>3, <2>3, <2>4, <2>5, <2>6, <2>7, <2>8, <2>9, PursePosts
<1> QED
    BY <1>2, <1>3 DEF PostPayment

(* PostGatewayLedger: no buyer's wallet changes.                           *)
LEMMA PurseReceives ==
    ASSUME OneOrderEach, LedgerInv, PurseInv, NEW t \in Workers, PostGatewayLedger(t)
    PROVE  PurseInv' /\ PurseMove
<1> PICK r \in TxRecord : r = tx[t]
    BY DEF LedgerInv, CallsInv
<1> DEFINE o == r.ref
           f == Deltas(o, Clearing)
           ws == Touched(o, Clearing)
           key == <<"payment", o>>
           n == [kind |-> "payment", ref |-> o, key |-> key, entries |-> f]
<1>1. r.op = "result" /\ r.pc = "wallets" /\ r.todo = {} /\ o \in Orders /\ status[o] = "pending" /\ via[o] = "gateway"
    <2>1. r.op = "result" /\ r.pc = "wallets" /\ r.todo = {} /\ o \in Orders /\ status[o] = "pending"
        BY DEF LedgerInv, CallsInv, CallOK, PostGatewayLedger, Ready, At
    <2> QED
        BY <2>1 DEF LedgerInv, BooksInv, GatewayOK
<1>2. /\ Post(t, "payment", key, f, ws)
      /\ status' = [status EXCEPT ![o] = "succeeded"] /\ UNCHANGED via
    BY DEF PostGatewayLedger
<1>3. f \in [Owners -> Int] /\ \A w \in Owners \ ws : f[w] = 0
    BY <1>1, SystemOwners, DeltasBalance
<1>4. ws = LockSet(r)
    BY <1>1 DEF LockSet
<1>5. /\ ledger' = ledger \cup {n}
      /\ wallet' = [w \in Owners |-> IF w \in ws THEN r.seen[w] + f[w] ELSE wallet[w]]
    BY <1>2 DEF Post
<1>6. \A p \in Orders : f[Buyer[p]] = 0
    BY <1>1, BuyersShare
<1>7. \A p \in Orders \ {o} : status'[p] = status[p] /\ via'[p] = via[p]
    BY <1>1, <1>2 DEF LedgerInv, BooksInv, RowTypes
<1>8. ~ Charged(o) /\ ~ Charged(o)' /\ via'[o] # "wallet" /\ via'[o] = via[o]
    BY <1>1, <1>2 DEF Charged
<1>9. n.kind = "payment" /\ n.ref = o /\ n.key = key /\ n.entries = f /\ key[1] = "payment"
    OBVIOUS
<1> HIDE DEF f, ws, n, key
<1>10. \A w \in Owners : wallet[w] \in Int /\ wallet'[w] = wallet[w] + f[w]
    BY <1>1, <1>3, <1>4, <1>5, PostAdds
<1>11. f[Buyer[o]] = (IF Charged(o) THEN Total(o) ELSE 0) - (IF Charged(o)' THEN Total(o) ELSE 0)
    BY <1>1, <1>6, <1>8
<1> HIDE DEF o
<1> QED
    BY <1>1, <1>5, <1>6, <1>7, <1>8, <1>9, <1>10, <1>11, PursePosts

(* PostRefund: the buyer gets back what his wallet paid, if it did.        *)
LEMMA PurseGetsBack ==
    ASSUME OneOrderEach, LedgerInv, PurseInv, NEW t \in Workers, PostRefund(t)
    PROVE  PurseInv' /\ PurseMove
<1> PICK r \in TxRecord : r = tx[t]
    BY DEF LedgerInv, CallsInv
<1> DEFINE o == r.ref
           f == [w \in Owners |-> -PaymentEntry(o).entries[w]]
           ws == EntryWallets(o)
           key == RefundKey(t)
           n == [kind |-> "refund", ref |-> o, key |-> key, entries |-> f]
<1>1. /\ r.op = "refund" /\ r.pc = "wallets" /\ r.todo = {} /\ o \in Orders
      /\ status[o] \in {"succeeded", "refund_pending"}
    BY DEF LedgerInv, CallsInv, CallOK, PostRefund, Ready, At
<1>2. CASE Rollback(t)
    BY <1>2, PurseStays DEF Rollback, rows, Charged
<1>3. CASE /\ Post(t, "refund", key, f, ws)
           /\ status' = [status EXCEPT ![o] = "refunded"] /\ UNCHANGED via
    <2>1. Recorded("payment", o) /\ LedgerOK
        BY <1>1 DEF LedgerInv, BooksInv, StatusOK, PaidStatuses
    <2>2. f \in [Owners -> Int] /\ \A w \in Owners \ ws : f[w] = 0
        BY <1>1, <2>1, ReversalBalances
    <2>3. PaymentEntry(o) \in ledger /\ PaymentEntry(o).kind = "payment" /\ PaymentEntry(o).ref = o
        BY <1>1, <2>1, KeyFinds DEF Recorded, PaymentEntry, LedgerOK
    <2>4. \A p \in Orders : f[Buyer[p]] = IF o = p /\ via[p] = "wallet" THEN Total(p) ELSE 0
        <3> SUFFICES ASSUME NEW p \in Orders
                     PROVE  f[Buyer[p]] = IF o = p /\ via[p] = "wallet" THEN Total(p) ELSE 0
            OBVIOUS
        <3>1. PaymentEntry(o).entries[Buyer[p]] = IF o = p /\ via[p] = "wallet" THEN -Total(p) ELSE 0
            BY <2>3 DEF PurseInv, TakesTotal
        <3>2. f[Buyer[p]] = -PaymentEntry(o).entries[Buyer[p]] /\ Total(p) \in Nat
            BY PurseFacts
        <3> HIDE DEF f
        <3> QED
            BY <3>1, <3>2
    <2>5. ws = LockSet(r)
        BY <1>1 DEF LockSet
    <2>6. /\ ledger' = ledger \cup {n}
          /\ wallet' = [w \in Owners |-> IF w \in ws THEN r.seen[w] + f[w] ELSE wallet[w]]
        BY <1>3 DEF Post
    <2>7. status'[o] = "refunded" /\ \A p \in Orders \ {o} : status'[p] = status[p] /\ via'[p] = via[p]
        BY <1>1, <1>3 DEF LedgerInv, BooksInv, RowTypes
    <2>8. (Charged(o) <=> via[o] = "wallet") /\ ~ Charged(o)'
        BY <1>1, <2>7 DEF Charged
    <2>9. n.kind = "refund" /\ n.ref = o /\ n.key = key /\ n.entries = f /\ key[1] \in {"refund", "gateway-refund"}
        BY DEF RefundKey
    <2> HIDE DEF f, ws, n, key
    <2>10. \A w \in Owners : wallet[w] \in Int /\ wallet'[w] = wallet[w] + f[w]
        BY <1>1, <2>2, <2>5, <2>6, PostAdds
    <2>11. f[Buyer[o]] = (IF Charged(o) THEN Total(o) ELSE 0) - (IF Charged(o)' THEN Total(o) ELSE 0)
        BY <1>1, <2>4, <2>8, PurseFacts
    <2> HIDE DEF o
    <2> QED
        BY <1>1, <1>3, <2>4, <2>6, <2>7, <2>9, <2>10, <2>11, PursePosts
<1> QED
    BY <1>2, <1>3 DEF PostRefund

(* No step breaks the bound on what buyers have.                           *)
LEMMA PurseStep ==
    ASSUME OneOrderEach, LedgerInv, PurseInv, [LedgerNext]_ledgerVars
    PROVE  PurseInv' /\ PurseMove
<1> DEFINE Goal == PurseInv' /\ PurseMove
<1>1. UNCHANGED <<status, via, wallet, ledger>> => Goal
    BY PurseStays DEF Charged
<1> HIDE DEF Goal
<1>2. ASSUME NEW t \in Workers, Statement(t)
      PROVE  Goal
    <2> PICK r \in TxRecord : r = tx[t]
        BY DEF LedgerInv, CallsInv
    <2> DEFINE o == r.ref
    <2>1. RowTypes /\ CallOK(t, r) /\ \A p \in Orders : GatewayOK(p)
        BY DEF LedgerInv, BooksInv, CallsInv
    <2>2. CASE CreateGatewayPayment(t)
        <3>1. o \in Orders
            BY <2>1, <2>2 DEF CreateGatewayPayment, At, CallOK
        <3>2. CASE Rollback(t)
            BY <1>1, <3>2 DEF Rollback, rows
        <3>3. CASE /\ status[o] = "none" /\ status' = [status EXCEPT ![o] = "pending"]
                   /\ via' = [via EXCEPT ![o] = "gateway"] /\ UNCHANGED <<wallet, ledger>>
            BY <2>1, <3>1, <3>3, PurseStays DEF RowTypes, Charged, Goal
        <3> QED
            BY <2>2, <3>2, <3>3 DEF CreateGatewayPayment
    <2>3. CASE ApplyGatewayResult(t)
        <3>1. o \in Orders
            BY <2>1, <2>3 DEF ApplyGatewayResult, At, CallOK
        <3>2. CASE UNCHANGED <<status, via, wallet, ledger>>
            BY <1>1, <3>2
        <3>3. CASE /\ status[o] = "pending" /\ status' = [status EXCEPT ![o] = "failed"]
                   /\ UNCHANGED <<via, wallet, ledger>>
            BY <2>1, <3>1, <3>3, PurseStays DEF RowTypes, Charged, Goal
        <3> QED
            BY <2>3, <3>2, <3>3 DEF ApplyGatewayResult, LockPaymentAnd, rows
    <2>4. CASE MarkRefundPending(t)
        <3>1. o \in Orders /\ via[o] = "gateway"
            BY <2>1, <2>4 DEF MarkRefundPending, At, CallOK
        <3>2. /\ \A p \in Orders \ {o} : status'[p] = status[p]
              /\ UNCHANGED <<via, wallet, ledger>>
            BY <2>1, <2>4, <3>1 DEF MarkRefundPending, RowTypes
        <3> QED
            BY <3>1, <3>2, PurseStays DEF Charged, Goal
    <2>5. CASE LockWallet(t) \/ GatewayRefund(t) \/ LockRefund(t)
        BY <1>1, <2>5 DEF LockWallet, GatewayRefund, LockRefund, LockPaymentAnd, Rollback, rows
    <2>6. CASE PostAdjustment(t) \/ PostPayment(t) \/ PostGatewayLedger(t) \/ PostRefund(t)
        BY <2>6, PurseAdjusts, PursePays, PurseReceives, PurseGetsBack DEF Goal
    <2> QED
        BY <1>2, <2>2, <2>3, <2>4, <2>5, <2>6 DEF Statement
<1>3. ASSUME NEW t \in Workers, Request(t)
      PROVE  UNCHANGED <<status, via, wallet, ledger>>
    BY <1>3 DEF Request, AdjustBalance, CreatePayment, CreateCheckout, ProcessWebhook,
        ReconcilePendingPayments, RefundPayment, Begin, BeginResult, rows
<1>4. ASSUME NEW t \in Workers, Abort(t)
      PROVE  UNCHANGED <<status, via, wallet, ledger>>
    BY <1>4 DEF Abort, Rollback, rows
<1>5. ASSUME NEW o \in Orders, BuyerPays(o) \/ GatewaySettlesRefund(o)
      PROVE  UNCHANGED <<status, via, wallet, ledger>>
    BY <1>5 DEF BuyerPays, GatewaySettlesRefund, rows
<1>6. UNCHANGED ledgerVars => UNCHANGED <<status, via, wallet, ledger>>
    BY DEF ledgerVars, rows
<1>7. Goal
    BY <1>1, <1>2, <1>3, <1>4, <1>5, <1>6 DEF LedgerNext
<1> QED
    BY <1>7 DEF Goal

(* A buyer's balance in totals is within its bound.                        *)
LEMMA BalanceBounds ==
    ASSUME OneOrderEach, RowTypes, NoOverdraft, PurseInv, NEW o \in Orders
    PROVE  wallet[Buyer[o]] \in Nat /\ wallet[Buyer[o]] \div Total(o) \in 0..AllTopUps
<1>1. /\ wallet[Buyer[o]] \in Int /\ wallet[Buyer[o]] >= 0
      /\ Total(o) \in Nat /\ Total(o) > 0 /\ AllTopUps \in Nat
    BY PurseFacts DEF RowTypes, NoOverdraft
<1>2. SumFunctionOnSet(TopUps, NotYet) \in Nat
    BY PurseFacts DEF NotYet
<1>3. wallet[Buyer[o]] <= AllTopUps
    BY <1>1, <1>2 DEF PurseInv, Purse
<1>4. wallet[Buyer[o]] \div Total(o) \in Nat /\ wallet[Buyer[o]] \div Total(o) <= wallet[Buyer[o]]
    BY <1>1, DivBounds
<1> QED
    BY <1>1, <1>3, <1>4

(* A row moves with its buyer's purse unchanged: the balance pays one, is  *)
(* paid back one, or stays.                                                *)
LEMMA PaidInTotals ==
    ASSUME OneOrderEach, RowTypes, NoOverdraft, PurseInv, (RowTypes /\ NoOverdraft /\ PurseInv)',
           NEW o \in Orders, NEW s, NEW v, NEW e, RowSet(o, s, v, e), RowMove(o, s, v, e),
           \A p \in Orders : Purse(p)' = Purse(p)
    PROVE  [SagaView!PaymentNext]_(SagaView!payVars)
<1> DEFINE bal == [p \in Orders |-> wallet[Buyer[p]] \div Total(p)]
           bal2 == [p \in Orders |-> wallet'[Buyer[p]] \div Total(p)]
<1>1. /\ status'[o] = s /\ via'[o] = v
      /\ \A p \in Orders \ {o} : Charged(p)' <=> Charged(p)
    BY DEF RowSet, RowTypes, Charged
<1>2. /\ v = via[o] => via' = via
      /\ e = announced[o] => announced' = announced
      /\ status' = [status EXCEPT ![o] = s] /\ via' = [via EXCEPT ![o] = v] /\ announced' = [announced EXCEPT ![o] = e]
    BY DEF RowSet, RowTypes
<1>3. ASSUME NEW p \in Orders
      PROVE  /\ wallet[Buyer[p]] \in Nat /\ wallet'[Buyer[p]] \in Nat
             /\ Total(p) \in Nat /\ Total(p) > 0
             /\ bal[p] = wallet[Buyer[p]] \div Total(p) /\ bal2[p] = wallet'[Buyer[p]] \div Total(p)
             /\ bal[p] \in 0..AllTopUps
    <2>1. wallet[Buyer[p]] \in Nat /\ wallet[Buyer[p]] \div Total(p) \in 0..AllTopUps
        BY BalanceBounds
    <2>2. wallet'[Buyer[p]] \in Nat
        BY PurseFacts DEF RowTypes, NoOverdraft, AllowNegative
    <2> QED
        BY <2>1, <2>2, PurseFacts
<1>4. bal2[o] \in 0..AllTopUps
    <2>1. SumFunctionOnSet(TopUps, NotYet') \in Nat /\ AllTopUps \in Nat
        BY PurseFacts DEF NotYet
    <2>2. (Purse(o) + SumFunctionOnSet(TopUps, NotYet) <= AllTopUps)'
        BY DEF PurseInv
    <2>3. Purse(o)' + SumFunctionOnSet(TopUps, NotYet') <= AllTopUps
        BY <2>2 DEF AllTopUps, TopUps
    <2>4. wallet'[Buyer[o]] <= AllTopUps
        BY <1>3, <2>1, <2>3 DEF Purse
    <2>5. bal2[o] \in Nat /\ bal2[o] <= wallet'[Buyer[o]]
        BY <1>3, DivBounds
    <2> QED
        BY <1>3, <2>1, <2>4, <2>5
<1>5. bal = [p \in Orders |-> bal[p]] /\ bal2 = [p \in Orders |-> bal2[p]]
    OBVIOUS
<1>6. ASSUME NEW p \in Orders, Charged(p)' <=> Charged(p)
      PROVE  wallet'[Buyer[p]] = wallet[Buyer[p]]
    <2>1. Purse(p)' = Purse(p)
        OBVIOUS
    <2>2. wallet[Buyer[p]] \in Nat /\ wallet'[Buyer[p]] \in Nat /\ Total(p) \in Nat
        BY <1>3
    <2> HIDE DEF bal, bal2
    <2> QED
        BY <1>6, <2>1, <2>2 DEF Purse, Charged
<1> HIDE DEF bal, bal2
<1>7. \A p \in Orders \ {o} : bal2[p] = bal[p]
    BY <1>1, <1>3, <1>6
<1>8. (Charged(o)' <=> Charged(o)) => bal2 = bal
    BY <1>3, <1>5, <1>6, <1>7
<1>9. CASE status[o] = "none" /\ via[o] = "none" /\ s = "succeeded" /\ v = "wallet" /\ e = announced[o]
    <2>1. wallet'[Buyer[o]] = wallet[Buyer[o]] - Total(o)
        BY <1>1, <1>3, <1>9 DEF Purse, Charged
    <2>2. bal2[o] = bal[o] - 1
        <3>1. wallet[Buyer[o]] \in Int /\ Total(o) \in Nat /\ Total(o) > 0
            BY <1>3
        <3>2. (wallet[Buyer[o]] - Total(o)) \div Total(o) = (wallet[Buyer[o]] \div Total(o)) - 1
            BY <3>1, DivStep
        <3> QED
            BY <1>3, <2>1, <3>2, Zenon
    <2>3. bal2 = [bal EXCEPT ![o] = @ - 1] /\ bal[o] # 0
        BY <1>3, <1>4, <1>5, <1>7, <2>2
    <2>4. SagaView!WalletCharge(o)
        BY <1>2, <1>9, <2>3 DEF SagaView!WalletCharge, SagaView!WalletDeclines, bal, bal2
    <2> QED
        BY <2>4 DEF SagaView!PaymentNext
<1>10. CASE status[o] = "none" /\ via[o] = "none" /\ s = "pending" /\ v = "gateway" /\ e = announced[o]
    <2>1. bal2 = bal
        BY <1>1, <1>8, <1>10 DEF Charged
    <2>2. SagaView!GatewayCheckout(o)
        BY <1>2, <1>10, <2>1 DEF SagaView!GatewayCheckout, bal, bal2
    <2> QED
        BY <2>2 DEF SagaView!PaymentNext
<1>11. CASE status[o] = "pending" /\ via[o] # "wallet" /\ s \in {"succeeded", "failed"} /\ v = via[o] /\ e = TRUE
    <2>1. bal2 = bal
        BY <1>1, <1>8, <1>11 DEF Charged
    <2>2. SagaView!GatewayResult(o)
        BY <1>2, <1>11, <2>1 DEF SagaView!GatewayResult, bal, bal2
    <2> QED
        BY <2>2 DEF SagaView!PaymentNext
<1>12. CASE status[o] \in {"succeeded", "refund_pending"} /\ s = "refunded" /\ v = via[o] /\ e = TRUE
    <2>1. bal2 = IF via[o] = "wallet" /\ bal[o] < AllTopUps THEN [bal EXCEPT ![o] = @ + 1] ELSE bal
        <3>1. CASE via[o] = "wallet"
            <4>1. wallet'[Buyer[o]] = wallet[Buyer[o]] + Total(o)
                BY <1>1, <1>3, <1>12, <3>1 DEF Purse, Charged
            <4>2. bal2[o] = bal[o] + 1
                <5>1. wallet[Buyer[o]] \in Int /\ Total(o) \in Nat /\ Total(o) > 0
                    BY <1>3
                <5>2. (wallet[Buyer[o]] + Total(o)) \div Total(o) = (wallet[Buyer[o]] \div Total(o)) + 1
                    BY <5>1, DivStep
                <5> QED
                    BY <1>3, <4>1, <5>2, Zenon
            <4>3. bal[o] < AllTopUps
                BY <1>3, <1>4, <4>2, PurseFacts
            <4>4. bal2 = [bal EXCEPT ![o] = bal[o] + 1]
                BY <1>5, <1>7, <4>2
            <4> QED
                BY <3>1, <4>3, <4>4
        <3>2. CASE via[o] # "wallet"
            BY <1>1, <1>8, <1>12, <3>2 DEF Charged
        <3> QED
            BY <3>1, <3>2
    <2>2. SagaView!CompleteRefund(o)
        BY <1>2, <1>12, <2>1 DEF SagaView!CompleteRefund, bal, bal2, AllTopUps, TopUps
    <2> QED
        BY <2>2 DEF SagaView!PaymentNext, SagaView!RefundPayment
<1>13. CASE status[o] = "succeeded" /\ via[o] = "gateway" /\ s = "refund_pending" /\ v = via[o] /\ e = announced[o]
    <2>1. bal2 = bal
        BY <1>1, <1>8, <1>13 DEF Charged
    <2>2. SagaView!DeferRefund(o)
        BY <1>2, <1>13, <2>1 DEF SagaView!DeferRefund, bal, bal2
    <2> QED
        BY <2>2 DEF SagaView!PaymentNext, SagaView!RefundPayment
<1> QED
    BY <1>9, <1>10, <1>11, <1>12, <1>13 DEF RowMove

(* No row moves and every buyer but one keeps his balance: the buyer of    *)
(* one order tops up or spends elsewhere.                                  *)
LEMMA BalanceChangesAlone ==
    ASSUME OneOrderEach, (RowTypes /\ NoOverdraft /\ PurseInv)', UNCHANGED <<status, via, announced>>,
           NEW o \in Orders, \A p \in Orders \ {o} : wallet'[Buyer[p]] = wallet[Buyer[p]]
    PROVE  SagaView!UpdateBalance(o)
<1> DEFINE bal == [p \in Orders |-> wallet[Buyer[p]] \div Total(p)]
           bal2 == [p \in Orders |-> wallet'[Buyer[p]] \div Total(p)]
<1>1. bal2[o] \in 0..AllTopUps
    <2>1. wallet'[Buyer[o]] \in Nat /\ Total(o) \in Nat /\ Total(o) > 0 /\ AllTopUps \in Nat
        BY PurseFacts DEF RowTypes, NoOverdraft, AllowNegative
    <2>2. SumFunctionOnSet(TopUps, NotYet') \in Nat
        BY PurseFacts DEF NotYet
    <2>3. (Purse(o) + SumFunctionOnSet(TopUps, NotYet) <= AllTopUps)'
        BY DEF PurseInv
    <2>4. Purse(o)' + SumFunctionOnSet(TopUps, NotYet') <= AllTopUps
        BY <2>3 DEF AllTopUps, TopUps
    <2>5. wallet'[Buyer[o]] <= AllTopUps
        BY <2>1, <2>2, <2>4 DEF Purse
    <2>6. wallet'[Buyer[o]] \div Total(o) \in Nat /\ wallet'[Buyer[o]] \div Total(o) <= wallet'[Buyer[o]]
        BY <2>1, DivBounds
    <2> QED
        BY <2>1, <2>5, <2>6
<1>2. bal2 = [bal EXCEPT ![o] = bal2[o]]
    OBVIOUS
<1>3. \E amount \in 0..AllTopUps : bal2 = [bal EXCEPT ![o] = amount]
    BY <1>1, <1>2
<1> HIDE DEF bal, bal2
<1> QED
    BY <1>3 DEF SagaView!UpdateBalance, bal, bal2, AllTopUps, TopUps

(* Every step of the transactions is a step of the payment service with    *)
(* balances, or none.                                                      *)
LEMMA LedgerViewStep ==
    ASSUME OneOrderEach, LedgerInv, LedgerInv', PurseInv, PurseInv', [LedgerNext]_ledgerVars
    PROVE  [SagaView!PaymentNext]_(SagaView!payVars)
<1>1. RowTypes /\ NoOverdraft /\ (RowTypes /\ NoOverdraft /\ PurseInv)'
    BY DEF LedgerInv, BooksInv
<1>2. PurseMove /\ RowsMove
    BY PurseStep, LedgerMovesRows
<1>3. CASE \E o \in Orders : /\ UNCHANGED <<status, via, announced>>
                             /\ \A p \in Orders \ {o} : wallet'[Buyer[p]] = wallet[Buyer[p]]
    BY <1>1, <1>3, BalanceChangesAlone DEF SagaView!PaymentNext
<1>4. CASE (\A p \in Orders : Purse(p)' = Purse(p)) /\ UNCHANGED <<status, via, announced>>
    <2>1. \A p \in Orders : wallet'[Buyer[p]] = wallet[Buyer[p]]
        BY <1>1, <1>4, PurseFacts DEF Purse, Charged, RowTypes
    <2>2. [p \in Orders |-> wallet'[Buyer[p]] \div Total(p)] = [p \in Orders |-> wallet[Buyer[p]] \div Total(p)]
        BY <2>1
    <2> QED
        BY <1>4, <2>2 DEF SagaView!payVars
<1>5. CASE /\ \A p \in Orders : Purse(p)' = Purse(p)
           /\ \E o \in Orders : \E s, v, e : RowSet(o, s, v, e) /\ RowMove(o, s, v, e)
    BY <1>1, <1>5, PaidInTotals
<1> QED
    BY <1>2, <1>3, <1>4, <1>5 DEF PurseMove, RowsMove

(* The transactions implement the payment service with balances the saga   *)
(* composes: a wallet is charged only if it holds the total, gets it back  *)
(* at most once, and otherwise changes by adjustments only.                *)
THEOREM LedgerImplementsBalances ==
    ASSUME OneOrderEach
    PROVE  LedgerSpec => SagaPaymentSpec
<1>1. LedgerInit => PurseInv /\ SagaView!PaymentInit
    <2> SUFFICES ASSUME LedgerInit PROVE PurseInv /\ SagaView!PaymentInit
        OBVIOUS
    <2>1. PurseInv
        BY PurseStarts
    <2>2. RowTypes /\ NoOverdraft
        BY LedgerStarts DEF LedgerInv, BooksInv
    <2>3. [o \in Orders |-> wallet[Buyer[o]] \div Total(o)] \in [Orders -> 0..AllTopUps]
        BY <2>1, <2>2, BalanceBounds
    <2>4. SagaView!PaymentInit
        BY <2>3 DEF LedgerInit, SagaView!PaymentInit, AllTopUps, TopUps
    <2> QED
        BY <2>1, <2>4
<1>2. LedgerInv /\ PurseInv /\ [LedgerNext]_ledgerVars => PurseInv'
    BY PurseStep
<1>3. LedgerInv /\ LedgerInv' /\ PurseInv /\ PurseInv' /\ [LedgerNext]_ledgerVars
          => [SagaView!PaymentNext]_(SagaView!payVars)
    BY LedgerViewStep
<1>4. LedgerSpec => []LedgerInv
    BY LedgerSafety
<1> QED
    BY <1>1, <1>2, <1>3, <1>4, PTL DEF LedgerSpec, SagaPaymentSpec, SagaView!PaymentSpec
=============================================================================
