-------------------------- MODULE RiskLedger_proofs --------------------------
(***************************************************************************)
(* Theorems about RiskLedger for any orders, markets, prices, limits and   *)
(* overlapping sessions: its books are well-formed, never hold more than   *)
(* was filled, closed positions stay closed, the newest portfolio snapshot *)
(* lacks just what others booked meanwhile, and careful use stays within   *)
(* the limits.                                                             *)
(***************************************************************************)
EXTENDS RiskLedger, FiniteSetTheorems, SequenceTheorems, WellFoundedInduction, TLAPS

-----------------------------------------------------------------------------
(* Sums over finite sets, SumFunctionOnSet of the community modules.  It is *)
(* a CHOOSE of a recursive function; what holds for every finite set is     *)
(* proved from a smallest subset for which it would not.                    *)

Chosen(s) == CHOOSE x \in s : TRUE
Sums(w, S, g) ==
    g = [s \in SUBSET S |-> IF s = {} THEN 0 ELSE w[Chosen(s)] + g[s \ {Chosen(s)}]]
SumBy(w, S) == CHOOSE g : Sums(w, S, g)

\* The sum over a set is computed element by element.
LEMMA SumIs == \A w, S : SumFunctionOnSet(w, S) = SumBy(w, S)[S]
BY DEF SumFunctionOnSet, FoldFunctionOnSet, MapThenFoldSet, Sums, SumBy, Chosen

\* A chosen element is one of the set.
LEMMA ChosenIn == \A s : s # {} => Chosen(s) \in s
BY DEF Chosen

\* Natural numbers have a least one among them.
LEMMA LeastOf ==
    ASSUME NEW T \in SUBSET Nat, T # {}
    PROVE  \E x \in T : \A y \in T : x <= y
<1> DEFINE less == OpToRel(<, Nat)
<1>1. IsWellFoundedOn(less, Nat)
    BY NatLessThanWellFounded
<1>2. \A x, y \in Nat : <<y, x>> \in less <=> y < x
    BY DEF OpToRel
<1> HIDE DEF less
<1>3. PICK x \in T : \A y \in T : ~ (<<y, x>> \in less)
    BY <1>1, WFMin
<1>4. ASSUME NEW y \in T PROVE x <= y
    <2>1. ~ (<<y, x>> \in less) /\ x \in Nat /\ y \in Nat
        BY <1>3
    <2>2. ~ (y < x)
        BY <2>1, <1>2
    <2> QED BY <2>1, <2>2
<1> QED BY <1>4

\* Among subsets of a finite set there is one that is not if an element is removed.
LEMMA SmallestOf ==
    ASSUME NEW S, IsFiniteSet(S), NEW B \in SUBSET SUBSET S, B # {}
    PROVE  \E s \in B : IsFiniteSet(s) /\ \A x \in s : s \ {x} \notin B
<1> DEFINE T == {Cardinality(s) : s \in B}
<1>1. \A s \in B : IsFiniteSet(s) /\ Cardinality(s) \in Nat
    BY FS_Subset, FS_CardinalityType
<1>2. T \in SUBSET Nat /\ T # {}
    BY <1>1
<1>3. PICK n \in T : \A y \in T : n <= y
    BY <1>2, LeastOf
<1>4. PICK s \in B : Cardinality(s) = n
    BY <1>3
<1>5. ASSUME NEW x \in s, s \ {x} \in B PROVE FALSE
    <2>1. Cardinality(s \ {x}) = n - 1
        BY <1>1, <1>4, FS_RemoveElement
    <2>2. n <= Cardinality(s \ {x})
        BY <1>3, <1>5
    <2>3. n \in Nat
        BY <1>2
    <2> QED BY <2>1, <2>2, <2>3
<1> QED BY <1>1, <1>5

\* The sums of two computations agree on what both sum.
LEMMA SumsAgree ==
    ASSUME NEW w, NEW S, NEW T, NEW g, NEW h, IsFiniteSet(S), Sums(w, S, g), Sums(w, T, h)
    PROVE  \A s \in SUBSET S : s \in SUBSET T => g[s] = h[s]
<1> DEFINE B == {s \in SUBSET S : s \in SUBSET T /\ g[s] # h[s]}
<1> SUFFICES ASSUME B # {} PROVE FALSE
    OBVIOUS
<1>1. PICK s \in B : IsFiniteSet(s) /\ \A x \in s : s \ {x} \notin B
    BY SmallestOf
<1>2. s \in SUBSET S /\ s \in SUBSET T /\ g[s] # h[s]
    OBVIOUS
<1>3. s # {}
    BY <1>2 DEF Sums
<1> DEFINE c == Chosen(s)
<1>4. c \in s
    BY <1>3, ChosenIn
<1>5. g[s] = w[c] + g[s \ {c}] /\ h[s] = w[c] + h[s \ {c}]
    BY <1>2, <1>3 DEF Sums
<1> HIDE DEF c
<1>6. g[s \ {c}] = h[s \ {c}]
    BY <1>1, <1>2, <1>4
<1> QED BY <1>2, <1>5, <1>6

\* There is such a computation for every finite set.
LEMMA SumsExist ==
    ASSUME NEW w, NEW S, IsFiniteSet(S)
    PROVE  Sums(w, S, SumBy(w, S))
<1> DEFINE Good(T) == Sums(w, T, SumBy(w, T))
<1> DEFINE B == {T \in SUBSET S : ~Good(T)}
<1> SUFFICES ASSUME B # {} PROVE FALSE
    OBVIOUS
<1>1. PICK T \in B : IsFiniteSet(T) /\ \A x \in T : T \ {x} \notin B
    BY SmallestOf
<1>2. T \in SUBSET S /\ ~Good(T)
    OBVIOUS
<1>3. \A x \in T : Good(T \ {x}) /\ IsFiniteSet(T \ {x})
    BY <1>1, <1>2, FS_RemoveElement
<1> DEFINE before(s) == SumBy(w, T \ {Chosen(s)})[s \ {Chosen(s)}]
<1> DEFINE h == [s \in SUBSET T |-> IF s = {} THEN 0 ELSE w[Chosen(s)] + before(s)]
<1>4. ASSUME NEW s \in SUBSET T, s # {} PROVE h[s \ {Chosen(s)}] = before(s)
    <2> DEFINE c == Chosen(s)
    <2> DEFINE u == s \ {c}
    <2>1. c \in s /\ c \in T
        BY <1>4, ChosenIn
    <2>2. Good(T \ {c})
        BY <1>3, <2>1
    <2>3. u \in SUBSET (T \ {c}) /\ u \in SUBSET T
        OBVIOUS
    <2>4. CASE u = {}
        <3>1. SumBy(w, T \ {c})[u] = 0
            BY <2>2, <2>3, <2>4 DEF Sums
        <3>2. h[u] = 0
            BY <2>3, <2>4
        <3> QED BY <3>1, <3>2
    <2>5. CASE u # {}
        <3> DEFINE d == Chosen(u)
        <3>1. d \in u
            BY <2>5, ChosenIn
        <3>2. SumBy(w, T \ {c})[u] = w[d] + SumBy(w, T \ {c})[u \ {d}]
            BY <2>2, <2>3, <2>5 DEF Sums
        <3>3. h[u] = w[d] + SumBy(w, T \ {d})[u \ {d}]
            BY <2>3, <2>5
        <3>4. Good(T \ {d})
            BY <1>3, <3>1
        <3>5. u \ {d} \in SUBSET (T \ {c}) /\ u \ {d} \in SUBSET (T \ {d})
            OBVIOUS
        <3> HIDE DEF h, u, c, d
        <3>6. SumBy(w, T \ {c})[u \ {d}] = SumBy(w, T \ {d})[u \ {d}]
            BY <1>3, <2>1, <2>2, <3>4, <3>5, SumsAgree
        <3> QED BY <3>2, <3>3, <3>6 DEF u, c
    <2> QED BY <2>4, <2>5
<1>5. h = [s \in SUBSET T |-> IF s = {} THEN 0 ELSE w[Chosen(s)] + h[s \ {Chosen(s)}]]
    BY <1>4
<1> HIDE DEF h
<1>6. Sums(w, T, h)
    BY <1>5 DEF Sums
<1>7. Sums(w, T, CHOOSE g : Sums(w, T, g))
    BY <1>6
<1> QED BY <1>2, <1>7 DEF SumBy

\* The sum over a set, element by element.
LEMMA SumSteps ==
    ASSUME NEW w, NEW S, IsFiniteSet(S)
    PROVE  /\ SumFunctionOnSet(w, {}) = 0
           /\ S # {} => /\ Chosen(S) \in S
                        /\ SumFunctionOnSet(w, S) =
                             w[Chosen(S)] + SumFunctionOnSet(w, S \ {Chosen(S)})
<1>1. SumFunctionOnSet(w, {}) = 0
    <2>1. Sums(w, {}, SumBy(w, {}))
        BY FS_EmptySet, SumsExist
    <2>2. SumBy(w, {})[{}] = 0
        BY <2>1 DEF Sums
    <2> QED BY <2>2, SumIs
<1>2. ASSUME S # {}
      PROVE  /\ Chosen(S) \in S
             /\ SumFunctionOnSet(w, S) = w[Chosen(S)] + SumFunctionOnSet(w, S \ {Chosen(S)})
    <2> DEFINE c == Chosen(S)
    <2>1. c \in S
        BY <1>2, ChosenIn
    <2>2. IsFiniteSet(S \ {c})
        BY FS_RemoveElement
    <2>3. Sums(w, S, SumBy(w, S)) /\ Sums(w, S \ {c}, SumBy(w, S \ {c}))
        BY <2>2, SumsExist
    <2>4. SumBy(w, S)[S] = w[c] + SumBy(w, S)[S \ {c}]
        BY <1>2, <2>3 DEF Sums
    <2> HIDE DEF c
    <2>5. SumBy(w, S)[S \ {c}] = SumBy(w, S \ {c})[S \ {c}]
        BY <2>3, SumsAgree
    <2>6. SumFunctionOnSet(w, S) = w[c] + SumFunctionOnSet(w, S \ {c})
        BY <2>4, <2>5, SumIs
    <2> QED BY <2>1, <2>6 DEF c
<1> QED BY <1>1, <1>2

\* A sum of natural numbers is one.
LEMMA SumIsNat ==
    ASSUME NEW w, NEW S, IsFiniteSet(S), \A x \in S : w[x] \in Nat
    PROVE  SumFunctionOnSet(w, S) \in Nat
<1> DEFINE B == {s \in SUBSET S : SumFunctionOnSet(w, s) \notin Nat}
<1> SUFFICES ASSUME B # {} PROVE FALSE
    OBVIOUS
<1>1. PICK s \in B : IsFiniteSet(s) /\ \A x \in s : s \ {x} \notin B
    BY SmallestOf
<1>2. s \in SUBSET S /\ SumFunctionOnSet(w, s) \notin Nat
    OBVIOUS
<1>3. s # {}
    <2>1. SumFunctionOnSet(w, {}) = 0
        BY <1>1, SumSteps
    <2>2. SumFunctionOnSet(w, {}) \in Nat
        BY <2>1
    <2> QED BY <1>2, <2>2
<1> DEFINE c == Chosen(s)
<1>4. c \in s /\ SumFunctionOnSet(w, s) = w[c] + SumFunctionOnSet(w, s \ {c})
    BY <1>1, <1>3, SumSteps
<1> HIDE DEF c
<1>5. SumFunctionOnSet(w, s \ {c}) \in Nat
    BY <1>1, <1>2, <1>4
<1>6. w[c] \in Nat
    BY <1>2, <1>4
<1> QED BY <1>2, <1>4, <1>5, <1>6

\* Whichever element is taken out first.
LEMMA SumWithout ==
    ASSUME NEW w, NEW S, IsFiniteSet(S), \A x \in S : w[x] \in Nat
    PROVE  \A x \in S : SumFunctionOnSet(w, S) = w[x] + SumFunctionOnSet(w, S \ {x})
<1> DEFINE F(s) == SumFunctionOnSet(w, s)
<1> DEFINE B == {s \in SUBSET S : \E x \in s : F(s) # w[x] + F(s \ {x})}
<1> SUFFICES ASSUME B # {} PROVE FALSE
    OBVIOUS
<1>1. PICK s \in B : IsFiniteSet(s) /\ \A x \in s : s \ {x} \notin B
    BY SmallestOf
<1>2. PICK x \in s : F(s) # w[x] + F(s \ {x})
    OBVIOUS
<1>3. s \in SUBSET S /\ s # {}
    BY <1>2
<1> DEFINE c == Chosen(s)
<1>4. c \in s /\ F(s) = w[c] + F(s \ {c})
    BY <1>1, <1>3, SumSteps
<1>5. c # x
    BY <1>2, <1>4
<1>6. s \ {c} \notin B /\ s \ {x} \notin B
    BY <1>1, <1>4
<1>7. s \ {c} \in SUBSET S /\ s \ {x} \in SUBSET S
    BY <1>3
<1> HIDE DEF c, F
<1>8. F(s \ {c}) = w[x] + F((s \ {c}) \ {x})
    BY <1>2, <1>5, <1>6, <1>7
<1>9. F(s \ {x}) = w[c] + F((s \ {x}) \ {c})
    BY <1>4, <1>5, <1>6, <1>7
<1>10. (s \ {c}) \ {x} = (s \ {x}) \ {c}
    OBVIOUS
<1> DEFINE rest == (s \ {x}) \ {c}
<1>11. w[x] \in Nat /\ w[c] \in Nat
    BY <1>2, <1>3, <1>4
<1>12. F(rest) \in Nat
    <2>1. IsFiniteSet(rest)
        BY <1>1, FS_RemoveElement
    <2>2. \A y \in rest : w[y] \in Nat
        BY <1>3
    <2> HIDE DEF rest
    <2> QED BY <2>1, <2>2, SumIsNat DEF F
<1>13. F(s) = w[c] + (w[x] + F(rest)) /\ F(s \ {x}) = w[c] + F(rest)
    BY <1>4, <1>8, <1>9, <1>10
<1> HIDE DEF rest
<1> DEFINE a == w[c]
<1> DEFINE b == w[x]
<1> DEFINE f == F(rest)
<1>14. a + (b + f) = b + (a + f)
    <2>1. a \in Nat /\ b \in Nat /\ f \in Nat
        BY <1>11, <1>12
    <2> HIDE DEF a, b, f
    <2> QED BY <2>1
<1> QED BY <1>2, <1>13, <1>14

\* Only the weights of its elements matter to a sum.
LEMMA SumEqual ==
    ASSUME NEW w, NEW v, NEW S, IsFiniteSet(S), \A x \in S : w[x] = v[x]
    PROVE  SumFunctionOnSet(w, S) = SumFunctionOnSet(v, S)
<1> DEFINE B == {s \in SUBSET S : SumFunctionOnSet(w, s) # SumFunctionOnSet(v, s)}
<1> SUFFICES ASSUME B # {} PROVE FALSE
    OBVIOUS
<1>1. PICK s \in B : IsFiniteSet(s) /\ \A x \in s : s \ {x} \notin B
    BY SmallestOf
<1>2. s \in SUBSET S /\ SumFunctionOnSet(w, s) # SumFunctionOnSet(v, s)
    OBVIOUS
<1>3. s # {}
    BY <1>1, <1>2, SumSteps
<1> DEFINE c == Chosen(s)
<1>4. c \in s /\ SumFunctionOnSet(w, s) = w[c] + SumFunctionOnSet(w, s \ {c})
    BY <1>1, <1>3, SumSteps
<1>5. SumFunctionOnSet(v, s) = v[c] + SumFunctionOnSet(v, s \ {c})
    BY <1>1, <1>3, SumSteps
<1> HIDE DEF c
<1>6. SumFunctionOnSet(w, s \ {c}) = SumFunctionOnSet(v, s \ {c})
    BY <1>1, <1>2, <1>4
<1>7. w[c] = v[c]
    BY <1>2, <1>4
<1> QED BY <1>2, <1>4, <1>5, <1>6, <1>7

\* A new element brings its weight.
LEMMA SumInserted ==
    ASSUME NEW w, NEW v, NEW S, IsFiniteSet(S), NEW x, x \notin S,
           v[x] \in Nat, \A y \in S : w[y] \in Nat /\ v[y] = w[y]
    PROVE  SumFunctionOnSet(v, S \cup {x}) = v[x] + SumFunctionOnSet(w, S)
<1>1. IsFiniteSet(S \cup {x})
    BY FS_AddElement
<1>2. \A y \in S \cup {x} : v[y] \in Nat
    OBVIOUS
<1>3. SumFunctionOnSet(v, S \cup {x}) = v[x] + SumFunctionOnSet(v, (S \cup {x}) \ {x})
    <2>1. x \in S \cup {x}
        OBVIOUS
    <2> QED BY <2>1, <1>1, <1>2, SumWithout
<1>4. (S \cup {x}) \ {x} = S
    OBVIOUS
<1>5. SumFunctionOnSet(v, S) = SumFunctionOnSet(w, S)
    BY SumEqual
<1> QED BY <1>3, <1>4, <1>5

\* A weight that rises by k raises the sum by k.
LEMMA SumRaised ==
    ASSUME NEW w, NEW v, NEW S, IsFiniteSet(S), NEW x \in S, NEW k \in Nat,
           v[x] = w[x] + k, \A y \in S : w[y] \in Nat, \A y \in S \ {x} : v[y] = w[y]
    PROVE  SumFunctionOnSet(v, S) = SumFunctionOnSet(w, S) + k
<1> DEFINE rest == S \ {x}
<1>1. IsFiniteSet(rest) /\ x \notin rest /\ rest \cup {x} = S
    BY FS_RemoveElement
<1>2. v[x] \in Nat /\ w[x] \in Nat
    OBVIOUS
<1>3. \A y \in rest : w[y] \in Nat /\ v[y] = w[y]
    OBVIOUS
<1> HIDE DEF rest
<1>4. SumFunctionOnSet(v, S) = v[x] + SumFunctionOnSet(w, rest)
    BY <1>1, <1>2, <1>3, SumInserted
<1>5. SumFunctionOnSet(w, S) = w[x] + SumFunctionOnSet(w, rest)
    BY <1>1, <1>2, <1>3, SumInserted
<1>6. SumFunctionOnSet(w, rest) \in Nat
    BY <1>1, <1>3, SumIsNat
<1> DEFINE a == w[x]
<1> DEFINE b == SumFunctionOnSet(w, rest)
<1>7. (a + k) + b = (a + b) + k
    <2>1. a \in Nat /\ b \in Nat
        BY <1>2, <1>6
    <2> HIDE DEF a, b
    <2> QED BY <2>1
<1> QED BY <1>4, <1>5, <1>7

\* Weights that are no larger have no larger sum.
LEMMA SumNoMore ==
    ASSUME NEW w, NEW v, NEW S, IsFiniteSet(S),
           \A x \in S : w[x] \in Nat /\ v[x] \in Nat /\ w[x] <= v[x]
    PROVE  SumFunctionOnSet(w, S) <= SumFunctionOnSet(v, S)
<1> DEFINE F(s) == SumFunctionOnSet(w, s)
<1> DEFINE G(s) == SumFunctionOnSet(v, s)
<1> DEFINE B == {s \in SUBSET S : ~ (F(s) <= G(s))}
<1> SUFFICES ASSUME B # {} PROVE FALSE
    OBVIOUS
<1>1. PICK s \in B : IsFiniteSet(s) /\ \A x \in s : s \ {x} \notin B
    BY SmallestOf
<1>2. s \in SUBSET S /\ ~ (F(s) <= G(s))
    OBVIOUS
<1>3. s # {}
    <2>1. F({}) = 0 /\ G({}) = 0
        BY <1>1, SumSteps
    <2>2. F({}) <= G({})
        BY <2>1
    <2> QED BY <1>2, <2>2
<1> DEFINE c == Chosen(s)
<1>4. c \in s /\ F(s) = w[c] + F(s \ {c}) /\ G(s) = v[c] + G(s \ {c})
    BY <1>1, <1>3, SumSteps
<1>5. s \ {c} \notin B /\ s \ {c} \in SUBSET S /\ IsFiniteSet(s \ {c})
    BY <1>1, <1>2, <1>4, FS_RemoveElement
<1> HIDE DEF c
<1>6. F(s \ {c}) <= G(s \ {c})
    BY <1>5
<1>7. F(s \ {c}) \in Nat
    <2>1. \A y \in s \ {c} : w[y] \in Nat
        BY <1>5
    <2> QED BY <2>1, <1>5, SumIsNat
<1>8. G(s \ {c}) \in Nat
    <2>1. \A y \in s \ {c} : v[y] \in Nat
        BY <1>5
    <2> QED BY <2>1, <1>5, SumIsNat
<1>9. w[c] \in Nat /\ v[c] \in Nat /\ w[c] <= v[c]
    BY <1>2, <1>4
<1> DEFINE a == w[c]
<1> DEFINE b == v[c]
<1> DEFINE f == F(s \ {c})
<1> DEFINE g == G(s \ {c})
<1>10. a + f <= b + g
    <2>1. a \in Nat /\ b \in Nat /\ f \in Nat /\ g \in Nat /\ a <= b /\ f <= g
        BY <1>6, <1>7, <1>8, <1>9
    <2> HIDE DEF a, b, f, g
    <2> QED BY <2>1
<1> QED BY <1>2, <1>4, <1>10

\* Fewer elements have no larger sum.
LEMMA SumOfFewer ==
    ASSUME NEW w, NEW S, IsFiniteSet(S), \A x \in S : w[x] \in Nat, NEW R \in SUBSET S
    PROVE  SumFunctionOnSet(w, R) <= SumFunctionOnSet(w, S)
<1> DEFINE F(s) == SumFunctionOnSet(w, s)
<1> DEFINE B == {s \in SUBSET S : R \subseteq s /\ ~ (F(R) <= F(s))}
<1> SUFFICES ASSUME B # {} PROVE FALSE
    OBVIOUS
<1>0. B \in SUBSET SUBSET S
    OBVIOUS
<1>1. PICK s \in B : IsFiniteSet(s) /\ \A x \in s : s \ {x} \notin B
    <2> HIDE DEF B
    <2> QED BY <1>0, SmallestOf
<1>2. s \in SUBSET S /\ R \subseteq s /\ ~ (F(R) <= F(s))
    OBVIOUS
<1>3. IsFiniteSet(R) /\ F(R) \in Nat
    <2>1. IsFiniteSet(R)
        BY FS_Subset
    <2>2. \A y \in R : w[y] \in Nat
        OBVIOUS
    <2> QED BY <2>1, <2>2, SumIsNat
<1>4. s # R
    <2> DEFINE r == F(R)
    <2>1. r <= r
        <3>1. r \in Nat
            BY <1>3
        <3> HIDE DEF r
        <3> QED BY <3>1
    <2> QED BY <1>2, <2>1
<1>5. PICK x \in s : x \notin R
    BY <1>2, <1>4
<1>6. s \ {x} \notin B /\ s \ {x} \in SUBSET S /\ R \subseteq s \ {x} /\ IsFiniteSet(s \ {x})
    BY <1>1, <1>2, <1>5, FS_RemoveElement
<1>7. F(R) <= F(s \ {x})
    BY <1>6
<1>8. F(s) = w[x] + F(s \ {x})
    <2>1. \A y \in s : w[y] \in Nat
        BY <1>2
    <2> QED BY <2>1, <1>1, SumWithout
<1>9. F(s \ {x}) \in Nat /\ w[x] \in Nat
    <2>1. \A y \in s \ {x} : w[y] \in Nat
        BY <1>2
    <2>2. w[x] \in Nat
        BY <1>2
    <2> QED BY <2>1, <2>2, <1>6, SumIsNat
<1> DEFINE a == w[x]
<1> DEFINE f == F(s \ {x})
<1> DEFINE r == F(R)
<1>10. r <= a + f
    <2>1. a \in Nat /\ f \in Nat /\ r \in Nat /\ r <= f
        BY <1>3, <1>7, <1>9
    <2> HIDE DEF a, f, r
    <2> QED BY <2>1
<1> QED BY <1>2, <1>8, <1>10

-----------------------------------------------------------------------------
(* The parts of the invariant. *)

\* A session that is about to write the book, and the market it writes.
WritesTo(s, b) ==
    sessions[s].pc \in IF b = "live" THEN {"reconcile"} ELSE {"paper", "written"}
Target(s) == MarketOf[sessions[s].order]

\* What a session works on exists, and what it has read of a position is a row's.
SessionSound(s) ==
    /\ sessions[s].pc # "idle" => sessions[s].order \in Orders
    /\ sessions[s].pc = "reconcile" => /\ sessions[s].update \in updates
                                       /\ sessions[s].order = sessions[s].update.order
    /\ sessions[s].row = 0 => sessions[s].contracts = 0 /\ sessions[s].exposure = 0
    /\ sessions[s].pc \in {"paper", "written"} => sessions[s].fill # 0 /\ sessions[s].value # 0
    /\ \A b \in Books : WritesTo(s, b) /\ sessions[s].row # 0 =>
          /\ sessions[s].row \in DOMAIN books[b]
          /\ books[b][sessions[s].row].market = Target(s)

SessionsAreSound == \A s \in Sessions : SessionSound(s)

\* Reports are finitely many, and what is in the books was reported.
ReportsAreSound ==
    /\ IsFiniteSet(updates) /\ IsFiniteSet(applied)
    /\ \A a \in applied : a[1] \in updates
    /\ \A a \in applied : a[2] <= TimesApplied(a[1])
    /\ \A o \in Orders : Cardinality(Filled(o)) <= CountOf[o]

\* On paper nothing reaches the exchange, and live nothing the paper book.
ModesApart ==
    /\ mode = "paper" => /\ onExchange = {} /\ updates = {} /\ books["live"] = <<>>
    /\ mode = "live" => \A s \in Sessions : sessions[s].pc \notin {"paper", "written"}

\* What the fills have brought to a market.
Written(b, m) == IF b = "live" THEN Cardinality(AppliedFills(m)) ELSE PaperFilled(m)

\* The contracts of all fills, row by row as they were written, lost ones included.
Tallies(b, w) ==
    LET rows == books[b]
    IN  /\ w \in Seq(Nat) /\ Len(w) = Len(rows)
        /\ \A i \in DOMAIN rows :
              /\ rows[i].contracts <= w[i]
              /\ <<b, rows[i].market>> \notin raced => rows[i].contracts = w[i]
        /\ \A s \in Sessions : WritesTo(s, b) /\ sessions[s].row # 0 =>
              sessions[s].contracts <= w[sessions[s].row]
        /\ \A m \in Markets : SumFunctionOnSet(w, RowsOf(rows, m)) = Written(b, m)

BooksAreTallied == \A b \in Books : \E w \in Seq(Nat) : Tallies(b, w)

\* What is still to be filled of an order, as the books know it.
AppliedOf(o) == {u \in Filled(o) : u \in Applied}
Left(o) == CountOf[o] - Cardinality(AppliedOf(o))

LiveExposure == ExposureOver(books["live"], OpenLive)

\* The rest of the order has room within the limits.
HasRoom(o, cents) ==
    /\ MarketExposure(MarketOf[o]) + cents <= MarketLimit
    /\ Catalogued = {} => LiveExposure + cents <= CategoryLimit
    /\ Cardinality(OpenLive) <= PositionLimit
    /\ OpenRows("live", MarketOf[o]) = {} => Cardinality(OpenLive) < PositionLimit

OneAtATime ==
    /\ \A o, p \in Orders : Outstanding(o) /\ Outstanding(p) => o = p
    /\ \A o \in Orders : Outstanding(o) => HasRoom(o, Left(o) * UnitPrice(o))

OrdersAreSound ==
    \A o \in Orders :
        /\ orders[o] \in {"absent", "blocked", "pending_approval"} => Reported(o) = {} /\ o \notin onExchange
        /\ o \in onExchange => ~Canceled(o)

\* What a session has decided on is still so.
IsCurrent(s) ==
    /\ sessions[s].pc = "reconcile" /\ sessions[s].update.count = 1 =>
          IF sessions[s].row = 0 THEN OpenRows("live", Target(s)) = {}
          ELSE books["live"][sessions[s].row].exposure = sessions[s].exposure
    /\ sessions[s].pc = "preview" /\ sessions[s].calm =>
          /\ orders[sessions[s].order] = "absent"
          /\ \A o \in Orders : ~Outstanding(o)
          /\ sessions[s].passed => HasRoom(sessions[s].order, Estimate(sessions[s].order))
                                   /\ Cardinality(OpenLive) < PositionLimit

ReadsAreCurrent == \A s \in Sessions : IsCurrent(s)

LimitsHold ==
    /\ \A m \in Markets : MarketExposure(m) <= MarketLimit
    /\ Catalogued = {} => LiveExposure <= CategoryLimit
    /\ Cardinality(OpenLive) <= PositionLimit

CarefulInv ==
    careful /\ mode = "live" => LimitsHold /\ OneAtATime /\ OrdersAreSound /\ ReadsAreCurrent

-----------------------------------------------------------------------------
(* What the steps do to the books. *)

\* A function over 1..n is a sequence of length n.
LEMMA SeqOver ==
    ASSUME NEW T, NEW n \in Nat, NEW R, R = [j \in DOMAIN R |-> R[j]], DOMAIN R = 1..n,
           \A j \in 1..n : R[j] \in T
    PROVE  R \in Seq(T) /\ Len(R) = n
<1>1. R \in [1..n -> T]
    OBVIOUS
<1> QED BY <1>1

\* A row whose contracts and exposure are written keeps its market, age and result,
\* and the other rows are not touched.
Rewritten(rows, i, c, e) == [rows EXCEPT ![i].contracts = c, ![i].exposure = e]

\* Writing contracts and exposure into one row changes nothing else.
LEMMA RewrittenRow ==
    ASSUME NEW rows \in Seq(Positions), NEW i \in DOMAIN rows, NEW c \in Nat, NEW e \in Nat,
           NEW R, R = Rewritten(rows, i, c, e)
    PROVE  /\ R \in Seq(Positions) /\ Len(R) = Len(rows)
           /\ \A j \in DOMAIN rows : j # i => R[j] = rows[j]
           /\ R[i].market = rows[i].market /\ R[i].age = rows[i].age /\ R[i].lost = rows[i].lost
           /\ R[i].contracts = c /\ R[i].exposure = e
<1>1. rows[i] \in Positions /\ i \in 1..Len(rows)
    BY ElementOfSeq
<1>0. R = [rows EXCEPT ![i].contracts = c, ![i].exposure = e]
    BY DEF Rewritten
<1>2. R[i] = [rows[i] EXCEPT !.contracts = c, !.exposure = e]
    BY <1>0
<1>3. /\ R[i] \in Positions
      /\ R[i].market = rows[i].market /\ R[i].age = rows[i].age /\ R[i].lost = rows[i].lost
      /\ R[i].contracts = c /\ R[i].exposure = e
    BY <1>1, <1>2 DEF Positions
<1>4. DOMAIN R = 1..Len(rows) /\ \A j \in DOMAIN rows : j # i => R[j] = rows[j]
    BY <1>0
<1>5. \A j \in 1..Len(rows) : R[j] \in Positions
    <2> TAKE j \in 1..Len(rows)
    <2>1. rows[j] \in Positions
        BY ElementOfSeq
    <2> QED BY <2>1, <1>3, <1>4
<1>6. Len(rows) \in Nat /\ R = [j \in DOMAIN R |-> R[j]] /\ DOMAIN R = 1..Len(rows)
    <2>1. R = [j \in DOMAIN R |-> R[j]]
        BY <1>0, Zenon
    <2>2. Len(rows) \in Nat
        OBVIOUS
    <2> QED BY <1>4, <2>1, <2>2
<1>7. R \in Seq(Positions) /\ Len(R) = Len(rows)
    BY <1>5, <1>6, SeqOver
<1> QED BY <1>3, <1>4, <1>7

\* Likewise a row whose age and result are written.
Grown(rows, i, a, l) == [rows EXCEPT ![i].age = a, ![i].lost = l]

\* Closing or ageing one row changes nothing else.
LEMMA AgedRow ==
    ASSUME NEW rows \in Seq(Positions), NEW i \in DOMAIN rows,
           NEW a \in {"fresh", "today", "old"}, NEW l \in BOOLEAN,
           NEW R, R = Grown(rows, i, a, l)
    PROVE  /\ R \in Seq(Positions) /\ Len(R) = Len(rows)
           /\ \A j \in DOMAIN rows : j # i => R[j] = rows[j]
           /\ R[i].market = rows[i].market /\ R[i].contracts = rows[i].contracts
           /\ R[i].exposure = rows[i].exposure /\ R[i].age = a /\ R[i].lost = l
<1>1. rows[i] \in Positions /\ i \in 1..Len(rows)
    BY ElementOfSeq
<1>0. R = [rows EXCEPT ![i].age = a, ![i].lost = l]
    BY DEF Grown
<1>2. R[i] = [rows[i] EXCEPT !.age = a, !.lost = l]
    BY <1>0
<1>3. R[i].lost = l /\ R[i].age = a
    BY <1>1, <1>2 DEF Positions
<1>4. /\ R[i].market = rows[i].market /\ R[i].contracts = rows[i].contracts
      /\ R[i].exposure = rows[i].exposure
    BY <1>1, <1>2 DEF Positions
<1>5. R[i] \in Positions
    <2>1. [rows[i] EXCEPT !.age = a] \in Positions
        BY <1>1 DEF Positions
    <2>2. [[rows[i] EXCEPT !.age = a] EXCEPT !.lost = l] \in Positions
        BY <2>1 DEF Positions
    <2> QED BY <1>1, <1>2, <2>2 DEF Positions
<1>6. DOMAIN R = 1..Len(rows) /\ \A j \in DOMAIN rows : j # i => R[j] = rows[j]
    BY <1>0
<1>7. \A j \in 1..Len(rows) : R[j] \in Positions
    <2> TAKE j \in 1..Len(rows)
    <2>1. rows[j] \in Positions
        BY ElementOfSeq
    <2> QED BY <2>1, <1>5, <1>6
<1>8. Len(rows) \in Nat /\ R = [j \in DOMAIN R |-> R[j]] /\ DOMAIN R = 1..Len(rows)
    <2>1. R = [j \in DOMAIN R |-> R[j]]
        BY <1>0, Zenon
    <2>2. Len(rows) \in Nat
        OBVIOUS
    <2> QED BY <1>6, <2>1, <2>2
<1>9. R \in Seq(Positions) /\ Len(R) = Len(rows)
    BY <1>7, <1>8, SeqOver
<1> QED BY <1>3, <1>4, <1>6, <1>9

\* What a commit makes of the rows of its book: the row it has read is written, or
\* there is one more.
Committed(s, b, count, value) ==
    LET rows == books[b]
        i == sessions[s].row
        cents == sessions[s].exposure + value
    IN  /\ books' \in [Books -> Seq(Positions)]
        /\ \A c \in Books : c # b => books'[c] = books[c]
        /\ i = 0 => /\ Len(books'[b]) = Len(rows) + 1
                    /\ \A j \in DOMAIN rows : books'[b][j] = rows[j]
                    /\ books'[b][Len(rows) + 1] =
                         [market |-> Target(s), contracts |-> count, exposure |-> value,
                          age |-> "open", lost |-> FALSE]
        /\ i # 0 => /\ i \in DOMAIN rows /\ rows[i].market = Target(s)
                    /\ Len(books'[b]) = Len(rows)
                    /\ \A j \in DOMAIN rows : j # i => books'[b][j] = rows[j]
                    /\ books'[b][i].market = rows[i].market
                    /\ books'[b][i].age = rows[i].age /\ books'[b][i].lost = rows[i].lost
                    /\ books'[b][i].contracts = sessions[s].contracts + count
                    /\ cents = sessions[s].exposure => books'[b][i].exposure = rows[i].exposure
                    /\ cents # sessions[s].exposure => books'[b][i].exposure = cents

\* CommitBook, in terms of rows: one is rewritten or a new one is added.
LEMMA BookEffect ==
    ASSUME LedgerTypeOK, SessionsAreSound, NEW s \in Sessions, NEW b \in Books, WritesTo(s, b),
           NEW count \in Nat, NEW value \in Nat, CommitBook(s, b, Target(s), count, value)
    PROVE  Committed(s, b, count, value)
<1> DEFINE rows == books[b]
<1> DEFINE seen == sessions[s]
<1> DEFINE R == Upserted(s, b, Target(s), count, value)
<1>1. rows \in Seq(Positions) /\ Len(rows) \in Nat /\ DOMAIN rows = 1..Len(rows)
    <2>1. rows \in Seq(Positions)
        BY DEF LedgerTypeOK
    <2> QED BY <2>1
<1>2. seen.contracts \in Nat /\ seen.exposure \in Nat
    BY DEF LedgerTypeOK, SessionStates
<1>3. seen.contracts + count \in Nat /\ seen.exposure + value \in Nat
    <2> DEFINE x == seen.contracts
    <2> DEFINE y == seen.exposure
    <2> HIDE DEF x, y
    <2>1. x \in Nat /\ y \in Nat
        BY <1>2 DEF x, y
    <2>2. x + count \in Nat /\ y + value \in Nat
        BY <2>1
    <2> QED BY <2>2 DEF x, y
<1>4. Target(s) \in Markets
    <2>1. sessions[s].pc # "idle"
        BY DEF WritesTo
    <2>2. sessions[s].order \in Orders
        BY <2>1 DEF SessionsAreSound, SessionSound
    <2> QED BY <2>2, MarketsAssumption DEF Target
<1>5. books' = [books EXCEPT ![b] = R] /\ books \in [Books -> Seq(Positions)]
    BY DEF CommitBook, LedgerTypeOK
<1>6. CASE seen.row = 0
    <2> DEFINE r == [market |-> Target(s), contracts |-> count, exposure |-> value,
                     age |-> "open", lost |-> FALSE]
    <2>1. seen.contracts = 0 /\ seen.exposure = 0
        BY <1>6 DEF SessionsAreSound, SessionSound
    <2>2. R = Append(rows, r)
        <3>1. seen.contracts + count = count /\ seen.exposure + value = value
            BY <2>1
        <3> QED BY <1>6, <3>1 DEF Upserted, RowsWith
    <2>3. r \in Positions
        BY <1>4 DEF Positions
    <2> HIDE DEF r
    <2>4. /\ R \in Seq(Positions) /\ Len(R) = Len(rows) + 1
          /\ \A j \in DOMAIN rows : R[j] = rows[j]
          /\ R[Len(rows) + 1] = r
        BY <1>1, <2>2, <2>3, AppendProperties
    <2> HIDE DEF R, rows, seen
    <2>5. books' \in [Books -> Seq(Positions)] /\ books'[b] = R
          /\ \A c \in Books : c # b => books'[c] = books[c]
        BY <1>5, <2>4
    <2> QED BY <1>6, <2>4, <2>5 DEF Committed, r, rows, seen
<1>7. CASE seen.row # 0
    <2> DEFINE i == seen.row
    <2> DEFINE cents == seen.exposure + value
    <2> DEFINE e == IF cents = seen.exposure THEN rows[i].exposure ELSE cents
    <2>1. i \in DOMAIN rows /\ rows[i].market = Target(s)
        BY <1>7 DEF SessionsAreSound, SessionSound
    <2>2. rows[i] \in Positions
        BY <1>1, <2>1, ElementOfSeq
    <2>3. e \in Nat
        <3>1. rows[i].exposure \in Nat
            BY <2>2 DEF Positions
        <3> QED BY <1>3, <3>1
    <2>4. R = Rewritten(rows, i, seen.contracts + count, e)
        <3>1. R = [rows EXCEPT ![i].contracts = seen.contracts + count,
                               ![i].exposure = IF cents = seen.exposure THEN @ ELSE cents]
            BY <1>7 DEF Upserted, RowsWith
        <3> QED BY <3>1, <2>1, <2>2 DEF Positions, Rewritten
    <2> DEFINE c == seen.contracts + count
    <2> HIDE DEF c, e, R, rows, seen, i, cents
    <2>5. /\ R \in Seq(Positions) /\ Len(R) = Len(rows)
          /\ \A j \in DOMAIN rows : j # i => R[j] = rows[j]
          /\ R[i].market = rows[i].market /\ R[i].age = rows[i].age /\ R[i].lost = rows[i].lost
          /\ R[i].contracts = c /\ R[i].exposure = e
        <3>1. c \in Nat
            BY <1>3 DEF c
        <3>2. R = Rewritten(rows, i, c, e)
            BY <2>4 DEF c
        <3> QED BY <1>1, <2>1, <2>3, <3>1, <3>2, RewrittenRow
    <2>6. books' \in [Books -> Seq(Positions)] /\ books'[b] = R
          /\ \A d \in Books : d # b => books'[d] = books[d]
        BY <1>5, <2>5
    <2> QED BY <1>7, <2>1, <2>5, <2>6 DEF Committed, rows, seen, i, cents, c, e
<1> QED BY <1>6, <1>7

\* What closing or ageing makes of the live rows.
Settled(i, lost) ==
    LET rows == books["live"]
    IN  /\ books' \in [Books -> Seq(Positions)]
        /\ books'["paper"] = books["paper"]
        /\ i \in DOMAIN rows /\ Len(books'["live"]) = Len(rows)
        /\ \A j \in DOMAIN rows : j # i => books'["live"][j] = rows[j]
        /\ books'["live"][i].market = rows[i].market
        /\ books'["live"][i].contracts = rows[i].contracts
        /\ books'["live"][i].exposure = rows[i].exposure
        /\ books'["live"][i].age # "open" /\ books'["live"][i].lost = lost

\* mark_position_closed changes no more than the age and the loss of a row.
LEMMA CloseEffect ==
    ASSUME LedgerTypeOK, NEW i, NEW lost \in BOOLEAN, ClosePosition(i, lost)
    PROVE  Settled(i, lost)
<1> DEFINE rows == books["live"]
<1> DEFINE a == IF lost THEN "fresh" ELSE "old"
<1> DEFINE R == Grown(rows, i, a, lost)
<1>1. rows \in Seq(Positions) /\ books \in [Books -> Seq(Positions)]
    BY DEF LedgerTypeOK, Books
<1>2. i \in DOMAIN rows
    BY DEF ClosePosition, OpenLive
<1>3. books' = [books EXCEPT !["live"] = R]
    BY <1>1, <1>2 DEF ClosePosition, Grown, Books
<1>4. a \in {"fresh", "today", "old"} /\ a # "open"
    OBVIOUS
<1> HIDE DEF rows, a, R
<1>5. /\ R \in Seq(Positions) /\ Len(R) = Len(rows)
      /\ \A j \in DOMAIN rows : j # i => R[j] = rows[j]
      /\ R[i].market = rows[i].market /\ R[i].contracts = rows[i].contracts
      /\ R[i].exposure = rows[i].exposure /\ R[i].age = a /\ R[i].lost = lost
    BY <1>1, <1>2, <1>4, AgedRow DEF R
<1>6. books' \in [Books -> Seq(Positions)] /\ books'["live"] = R /\ books'["paper"] = books["paper"]
    BY <1>1, <1>3, <1>5 DEF Books
<1> QED BY <1>2, <1>4, <1>5, <1>6 DEF Settled, rows

\* Time changes no more than the age of a row that is closed already.
LEMMA AgeEffect ==
    ASSUME LedgerTypeOK, NEW i \in DOMAIN books["live"], Age(i)
    PROVE  Settled(i, books["live"][i].lost) /\ books["live"][i].age # "open"
<1> DEFINE rows == books["live"]
<1> DEFINE a == IF rows[i].age = "fresh" THEN "today" ELSE "old"
<1> DEFINE l == rows[i].lost
<1> DEFINE R == Grown(rows, i, a, l)
<1>1. rows \in Seq(Positions) /\ books \in [Books -> Seq(Positions)]
    BY DEF LedgerTypeOK, Books
<1>2. rows[i] \in Positions /\ rows[i].age # "open" /\ i \in DOMAIN rows
    BY <1>1, ElementOfSeq DEF Age
<1>3. [rows[i] EXCEPT !.age = a] = [rows[i] EXCEPT !.age = a, !.lost = l]
    <2>1. [rows[i] EXCEPT !.age = a] \in Positions
        BY <1>2 DEF Positions
    <2>2. [rows[i] EXCEPT !.age = a].lost = l
        BY <1>2 DEF Positions
    <2> QED BY <1>2, <2>1, <2>2 DEF Positions
<1>4. books' = [books EXCEPT !["live"] = [rows EXCEPT ![i] = [rows[i] EXCEPT !.age = a]]]
    BY <1>1, <1>2 DEF Age, Books
<1>5. R = [rows EXCEPT ![i] = [rows[i] EXCEPT !.age = a, !.lost = l]]
    BY <1>2 DEF Grown
<1>6. books' = [books EXCEPT !["live"] = R]
    BY <1>3, <1>4, <1>5
<1>7. a \in {"fresh", "today", "old"} /\ a # "open"
    OBVIOUS
<1>8. l \in BOOLEAN
    BY <1>2 DEF Positions
<1> HIDE DEF rows, a, R, l
<1>9. /\ R \in Seq(Positions) /\ Len(R) = Len(rows)
      /\ \A j \in DOMAIN rows : j # i => R[j] = rows[j]
      /\ R[i].market = rows[i].market /\ R[i].contracts = rows[i].contracts
      /\ R[i].exposure = rows[i].exposure /\ R[i].age = a /\ R[i].lost = l
    <2>1. R = Grown(rows, i, a, l)
        BY DEF R
    <2>2. i \in DOMAIN rows /\ rows \in Seq(Positions)
        BY <1>1, <1>2
    <2>3. a \in {"fresh", "today", "old"} /\ l \in BOOLEAN
        BY <1>7, <1>8
    <2> HIDE DEF rows, a, R, l
    <2> QED BY <2>1, <2>2, <2>3, AgedRow
<1>10. books' \in [Books -> Seq(Positions)] /\ books'["live"] = R /\ books'["paper"] = books["paper"]
    <2>1. R \in Seq(Positions)
        BY <1>9
    <2>2. "live" \in Books /\ "paper" \in Books /\ "live" # "paper"
        BY DEF Books
    <2> QED BY <1>1, <1>6, <2>1, <2>2
<1>11. Settled(i, l)
    BY <1>2, <1>7, <1>9, <1>10 DEF Settled, rows
<1> QED BY <1>2, <1>11 DEF rows, l

-----------------------------------------------------------------------------
(* The books, sessions and reports are well-formed. *)

BaseInv == LedgerTypeOK /\ SessionsAreSound /\ ReportsAreSound /\ ModesApart

\* The state of a session that serves nothing.
LEMMA IdleIsState ==
    /\ Idle \in SessionStates
    /\ Idle.pc = "idle" /\ Idle.row = 0 /\ Idle.contracts = 0 /\ Idle.exposure = 0
BY DEF Idle, SessionStates

\* The state of a session that has just begun.
LEMMA ReadingIsState ==
    ASSUME NEW pc \in {"preview", "reconcile", "paper"}, NEW o \in Orders
    PROVE  /\ Reading(pc, o) \in SessionStates
           /\ Reading(pc, o).pc = pc /\ Reading(pc, o).order = o
           /\ Reading(pc, o).row = 0 /\ Reading(pc, o).contracts = 0
           /\ Reading(pc, o).exposure = 0
<1>1. Reading(pc, o) = [Idle EXCEPT !.pc = pc, !.order = o]
    BY DEF Reading
<1>2. [Idle EXCEPT !.pc = pc] \in SessionStates
    BY IdleIsState DEF SessionStates
<1> QED BY <1>1, <1>2, IdleIsState DEF SessionStates

\* A session takes over the figures of the open row of its market, if there is one.
LEMMA PositionIsRead ==
    ASSUME LedgerTypeOK, NEW q \in SessionStates, NEW b \in Books, NEW m,
           q.row = 0, q.contracts = 0, q.exposure = 0
    PROVE  LET r == WithPosition(q, b, m)
           IN  /\ r \in SessionStates
               /\ r.pc = q.pc /\ r.order = q.order /\ r.update = q.update
               /\ r.passed = q.passed /\ r.calm = q.calm
               /\ OpenRows(b, m) = {} => r.row = 0 /\ r.contracts = 0 /\ r.exposure = 0
               /\ OpenRows(b, m) # {} =>
                     /\ r.row \in OpenRows(b, m)
                     /\ r.contracts = books[b][r.row].contracts
                     /\ r.exposure = books[b][r.row].exposure
<1> DEFINE r == WithPosition(q, b, m)
<1>1. CASE OpenRows(b, m) = {}
    <2>1. r = q
        BY <1>1 DEF WithPosition
    <2> QED BY <1>1, <2>1
<1>2. CASE OpenRows(b, m) # {}
    <2> DEFINE i == CHOOSE j \in OpenRows(b, m) : TRUE
    <2>1. i \in OpenRows(b, m)
        BY <1>2
    <2>2. r = [q EXCEPT !.row = i, !.contracts = books[b][i].contracts,
                        !.exposure = books[b][i].exposure]
        BY <1>2 DEF WithPosition
    <2> HIDE DEF i
    <2>3. books[b] \in Seq(Positions) /\ i \in DOMAIN books[b]
        BY <2>1 DEF LedgerTypeOK, OpenRows
    <2>4. books[b][i] \in Positions /\ i \in Nat
        BY <2>3, ElementOfSeq
    <2> DEFINE c == books[b][i].contracts
    <2> DEFINE e == books[b][i].exposure
    <2>5. c \in Nat /\ e \in Nat
        BY <2>4 DEF Positions
    <2>6. r = [q EXCEPT !.row = i, !.contracts = c, !.exposure = e]
        BY <2>2
    <2> HIDE DEF c, e, r
    <2>7. [q EXCEPT !.row = i] \in SessionStates
        BY <2>4 DEF SessionStates
    <2>8. /\ r \in SessionStates
          /\ r.pc = q.pc /\ r.order = q.order /\ r.update = q.update
          /\ r.passed = q.passed /\ r.calm = q.calm
          /\ r.row = i /\ r.contracts = c /\ r.exposure = e
        BY <2>4, <2>5, <2>6, <2>7 DEF SessionStates
    <2> QED BY <1>2, <2>1, <2>8 DEF c, e, r
<1> QED BY <1>1, <1>2

\* Counts, prices and markets of the orders are of their kinds.
LEMMA PricesAreNat ==
    /\ \A o \in Orders : /\ PriceOf[o] \in Nat /\ UnitPrice(o) \in Nat /\ CountOf[o] \in Nat
                         /\ CountOf[o] # 0 /\ MarketOf[o] \in Markets
                         /\ \A p \in PaperPrices(o) : p \in Nat \ {0}
    /\ \A p \in FillPrices \cup {0} : p \in Nat
<1>1. \A p \in FillPrices \cup {0} : p \in Nat
    BY PricesAssumption
<1> QED BY <1>1, PricesAssumption, CountsAssumption, MarketsAssumption DEF UnitPrice, PaperPrices

\* A reconciliation writes the live book, unless there is nothing to write.
LEMMA ReconcileEffect ==
    ASSUME BaseInv, NEW s \in Sessions, CommitReconcile(s)
    PROVE  LET u == sessions[s].update
           IN  /\ u \in Updates /\ u \in updates /\ u.order \in Orders /\ u.price \in Nat
               /\ u.order = sessions[s].order /\ Target(s) = MarketOf[u.order]
               /\ WritesTo(s, "live")
               /\ u.count = 0 => books' = books /\ raced' = raced
               /\ u.count # 0 => /\ u.count = 1 /\ CommitBook(s, "live", Target(s), 1, u.price)
                                 /\ Committed(s, "live", 1, u.price)
               /\ sessions' = [sessions EXCEPT ![s] = Idle]
<1> DEFINE u == sessions[s].update
<1>1. u \in updates /\ u.order = sessions[s].order /\ sessions[s].pc = "reconcile"
    BY DEF BaseInv, SessionsAreSound, SessionSound, CommitReconcile
<1>2. u \in Updates
    BY <1>1 DEF BaseInv, LedgerTypeOK
<1>3. u.order \in Orders /\ u.price \in Nat /\ u.count \in {0, 1}
    <2> HIDE DEF u
    <2>1. u.order \in Orders /\ u.price \in FillPrices \cup {0} /\ u.count \in {0, 1}
        BY <1>2 DEF Updates
    <2>2. u.price \in Nat
        BY <2>1, PricesAreNat
    <2> QED BY <2>1, <2>2
<1>4. Target(s) = MarketOf[u.order] /\ WritesTo(s, "live")
    BY <1>1 DEF Target, WritesTo
<1>5. u.count = 0 => books' = books /\ raced' = raced /\ sessions' = [sessions EXCEPT ![s] = Idle]
    BY DEF CommitReconcile
<1>6. u.count # 0 => CommitBook(s, "live", Target(s), 1, u.price)
    BY <1>4 DEF CommitReconcile
<1>7. u.count # 0 => sessions' = [sessions EXCEPT ![s] = Idle]
    BY <1>6 DEF CommitBook
<1>8. ASSUME u.count # 0 PROVE Committed(s, "live", 1, u.price)
    <2> DEFINE v == u.price
    <2>1. v \in Nat /\ CommitBook(s, "live", Target(s), 1, v)
        BY <1>3, <1>6, <1>8
    <2> HIDE DEF v
    <2>2. "live" \in Books /\ 1 \in Nat /\ LedgerTypeOK /\ SessionsAreSound
        BY DEF Books, BaseInv
    <2>3. Committed(s, "live", 1, v)
        BY <1>4, <2>1, <2>2, BookEffect
    <2> QED BY <2>3 DEF v
<1> QED BY <1>1, <1>2, <1>3, <1>4, <1>5, <1>6, <1>7, <1>8

\* A paper execution writes the paper book.
LEMMA PaperEffect ==
    ASSUME BaseInv, NEW s \in Sessions, CommitPaper(s)
    PROVE  /\ sessions[s].order \in Orders /\ sessions[s].fill \in Nat /\ sessions[s].fill # 0
           /\ WritesTo(s, "paper") /\ Target(s) = MarketOf[sessions[s].order]
           /\ \E value \in Nat : /\ value = sessions[s].value
                                 /\ CommitBook(s, "paper", Target(s), sessions[s].fill, value)
                                 /\ Committed(s, "paper", sessions[s].fill, value)
           /\ sessions' = [sessions EXCEPT ![s] = Idle]
<1> DEFINE o == sessions[s].order
<1> DEFINE n == sessions[s].fill
<1> DEFINE v == sessions[s].value
<1>1. o \in Orders /\ n \in Nat /\ n # 0 /\ v \in Nat
    BY DEF BaseInv, SessionsAreSound, SessionSound, CommitPaper, LedgerTypeOK, SessionStates
<1>2. WritesTo(s, "paper") /\ Target(s) = MarketOf[o]
    BY DEF CommitPaper, WritesTo, Target
<1>3. CommitBook(s, "paper", Target(s), n, v)
    BY <1>2 DEF CommitPaper
<1>4. sessions' = [sessions EXCEPT ![s] = Idle]
    BY <1>3 DEF CommitBook
<1> HIDE DEF v, n
<1>5. "paper" \in Books /\ LedgerTypeOK /\ SessionsAreSound
    BY DEF Books, BaseInv
<1>6. Committed(s, "paper", n, v)
    BY <1>1, <1>2, <1>3, <1>5, BookEffect
<1> QED BY <1>1, <1>2, <1>3, <1>4, <1>6 DEF n, v

\* No row goes, nor changes its market.
RowsStay ==
    \A b \in Books : \A i \in DOMAIN books[b] :
        i \in DOMAIN books'[b] /\ books'[b][i].market = books[b][i].market

\* A commit removes no row, nor moves it to another market.
LEMMA CommittedRowsStay ==
    ASSUME LedgerTypeOK, NEW s, NEW b \in Books, NEW count, NEW value,
           Committed(s, b, count, value)
    PROVE  RowsStay
<1> SUFFICES ASSUME NEW c \in Books, NEW i \in DOMAIN books[c]
             PROVE  i \in DOMAIN books'[c] /\ books'[c][i].market = books[c][i].market
    BY DEF RowsStay
<1>1. CASE c # b
    BY <1>1 DEF Committed
<1>2. CASE c = b
    <2>1. books[b] \in Seq(Positions) /\ books'[b] \in Seq(Positions)
        BY DEF LedgerTypeOK, Committed
    <2>2. Len(books'[b]) = Len(books[b]) + 1 \/ Len(books'[b]) = Len(books[b])
        BY DEF Committed
    <2>3. i \in 1..Len(books[b]) /\ Len(books[b]) \in Nat /\ DOMAIN books'[b] = 1..Len(books'[b])
        BY <1>2, <2>1
    <2>4. i \in DOMAIN books'[b]
        BY <2>2, <2>3
    <2>5. books'[b][i].market = books[b][i].market
        <3>1. CASE sessions[s].row = 0
            BY <1>2, <3>1 DEF Committed
        <3>2. CASE sessions[s].row # 0
            <4>1. CASE sessions[s].row = i
                BY <3>2, <4>1 DEF Committed
            <4>2. CASE sessions[s].row # i
                BY <1>2, <3>2, <4>2 DEF Committed
            <4> QED BY <4>1, <4>2
        <3> QED BY <3>1, <3>2
    <2> QED BY <1>2, <2>4, <2>5
<1> QED BY <1>1, <1>2

\* Closing and ageing keep every row at its place.
LEMMA SettledRowsStay ==
    ASSUME LedgerTypeOK, NEW i, NEW lost, Settled(i, lost)
    PROVE  RowsStay
<1> SUFFICES ASSUME NEW c \in Books, NEW j \in DOMAIN books[c]
             PROVE  j \in DOMAIN books'[c] /\ books'[c][j].market = books[c][j].market
    BY DEF RowsStay
<1>1. CASE c = "paper"
    BY <1>1 DEF Settled
<1>2. CASE c = "live"
    <2>1. books["live"] \in Seq(Positions) /\ books'["live"] \in Seq(Positions)
        BY DEF LedgerTypeOK, Settled, Books
    <2>2. DOMAIN books'["live"] = DOMAIN books["live"]
        BY <2>1 DEF Settled
    <2>3. books'["live"][j].market = books["live"][j].market
        BY <1>2 DEF Settled
    <2> QED BY <1>2, <2>2, <2>3
<1> QED BY <1>1, <1>2 DEF Books

\* What is at stake is a sum of natural numbers.
LEMMA ExposureIsNat ==
    ASSUME NEW rows \in Seq(Positions)
    PROVE  /\ TotalExposure(rows) \in Nat
           /\ \A S \in SUBSET DOMAIN rows : IsFiniteSet(S) /\ ExposureOver(rows, S) \in Nat
<1>1. \A S \in SUBSET DOMAIN rows : IsFiniteSet(S) /\ ExposureOver(rows, S) \in Nat
    <2> TAKE S \in SUBSET DOMAIN rows
    <2> DEFINE w == [i \in DOMAIN rows |-> rows[i].exposure]
    <2>1. IsFiniteSet(S)
        <3>1. Len(rows) \in Nat /\ DOMAIN rows = 1..Len(rows)
            OBVIOUS
        <3>2. IsFiniteSet(1..Len(rows))
            BY <3>1, FS_Interval
        <3> QED BY <3>1, <3>2, FS_Subset
    <2>2. \A i \in S : w[i] \in Nat
        <3> TAKE i \in S
        <3>1. rows[i] \in Positions /\ i \in DOMAIN rows
            BY ElementOfSeq
        <3> QED BY <3>1 DEF Positions
    <2> HIDE DEF w
    <2>3. SumFunctionOnSet(w, S) \in Nat
        BY <2>1, <2>2, SumIsNat
    <2> QED BY <2>1, <2>3 DEF ExposureOver, w
<1> QED BY <1>1 DEF TotalExposure

\* A paper execution begins with what it is to fill, and the open row of its market.
LEMMA BeginPaperEffect ==
    ASSUME BaseInv, NEW s \in Sessions, NEW o \in Orders, BeginPaper(s, o)
    PROVE  \E q \in SessionStates :
              /\ sessions' = [sessions EXCEPT ![s] = q]
              /\ q.pc = "paper" /\ q.order = o /\ q.fill # 0 /\ q.value # 0
              /\ q.row = 0 => q.contracts = 0 /\ q.exposure = 0
              /\ q.row # 0 => /\ q.row \in OpenRows("paper", MarketOf[o])
                              /\ q.contracts = books["paper"][q.row].contracts
<1> DEFINE g == Reading("paper", o)
<1> DEFINE r == WithPosition(g, "paper", MarketOf[o])
<1> DEFINE n == FillCount(o)
<1>1. PICK price \in PaperPrices(o) :
         sessions' = [sessions EXCEPT ![s] = [r EXCEPT !.fill = n, !.value = n * price]]
    BY DEF BeginPaper
<1>2. price \in Nat \ {0}
    BY PricesAreNat
<1>3. n \in Nat \ {0}
    <2> DEFINE k == CountOf[o]
    <2>1. k \in Nat \ {0}
        BY PricesAreNat
    <2>2. Larger(1, k \div 2) \in Nat \ {0}
        <3> HIDE DEF k
        <3> QED BY <2>1 DEF Larger
    <2>3. n = Larger(1, k \div 2) \/ n = k
        BY DEF FillCount
    <2> QED BY <2>1, <2>2, <2>3
<1>4. /\ g \in SessionStates /\ g.pc = "paper" /\ g.order = o
      /\ g.row = 0 /\ g.contracts = 0 /\ g.exposure = 0
    BY ReadingIsState
<1>5. LedgerTypeOK /\ "paper" \in Books
    BY DEF BaseInv, Books
<1> HIDE DEF g, n
<1>6. /\ r \in SessionStates /\ r.pc = "paper" /\ r.order = o
      /\ OpenRows("paper", MarketOf[o]) = {} =>
            r.row = 0 /\ r.contracts = 0 /\ r.exposure = 0
      /\ OpenRows("paper", MarketOf[o]) # {} =>
            /\ r.row \in OpenRows("paper", MarketOf[o])
            /\ r.contracts = books["paper"][r.row].contracts
    BY <1>4, <1>5, PositionIsRead
<1>7. OpenRows("paper", MarketOf[o]) # {} => r.row # 0
    <2>1. books["paper"] \in Seq(Positions)
        BY <1>5 DEF LedgerTypeOK
    <2>2. \A i \in DOMAIN books["paper"] : i # 0
        BY <2>1
    <2> HIDE DEF r
    <2> QED BY <1>6, <2>2 DEF OpenRows
<1> HIDE DEF r
<1>8. PICK v : v = n * price
    OBVIOUS
<1>9. v \in Nat \ {0}
    BY <1>2, <1>3, <1>8
<1> DEFINE q == [r EXCEPT !.fill = n, !.value = v]
<1>10. sessions' = [sessions EXCEPT ![s] = q]
    BY <1>1, <1>8
<1>11. /\ q \in SessionStates /\ q.pc = "paper" /\ q.order = o /\ q.fill = n /\ q.value = v
       /\ q.row = r.row /\ q.contracts = r.contracts /\ q.exposure = r.exposure
    BY <1>3, <1>6, <1>9 DEF SessionStates
<1> HIDE DEF q
<1> QED BY <1>3, <1>6, <1>7, <1>9, <1>10, <1>11

\* One that has written its position has read the portfolio besides.
LEMMA WritePaperEffect ==
    ASSUME BaseInv, NEW s \in Sessions, WritePaper(s)
    PROVE  \E q \in SessionStates :
              /\ sessions' = [sessions EXCEPT ![s] = q]
              /\ sessions[s].pc = "paper" /\ q.pc = "written" /\ q.order = sessions[s].order
              /\ q.fill = sessions[s].fill /\ q.value = sessions[s].value
              /\ q.row = sessions[s].row /\ q.contracts = sessions[s].contracts
              /\ q.exposure = sessions[s].exposure
              /\ q.captured = Captured(s) /\ q.stored = TotalExposure(books["paper"])
<1> DEFINE rows == books["paper"]
<1>1. rows \in Seq(Positions) /\ sessions[s] \in SessionStates
    BY DEF BaseInv, LedgerTypeOK, Books
<1>2. TotalExposure(rows) \in Nat /\ ExposureOver(rows, OpenPaper \ {sessions[s].row}) \in Nat
    <2>1. OpenPaper \ {sessions[s].row} \in SUBSET DOMAIN rows
        BY DEF OpenPaper
    <2> HIDE DEF rows
    <2> QED BY <1>1, <2>1, ExposureIsNat
<1>3. Captured(s) \in Nat
    <2> DEFINE x == ExposureOver(rows, OpenPaper \ {sessions[s].row})
    <2> DEFINE e == sessions[s].exposure
    <2> DEFINE v == sessions[s].value
    <2>1. x \in Nat /\ e \in Nat /\ v \in Nat /\ Captured(s) = x + e + v
        BY <1>1, <1>2 DEF SessionStates, Captured
    <2> HIDE DEF x, e, v
    <2> QED BY <2>1
<1>4. PICK c \in Nat : c = Captured(s)
    BY <1>3
<1>5. PICK t \in Nat : t = TotalExposure(rows)
    BY <1>2
<1>6. PICK x \in SessionStates : x = sessions[s]
    BY <1>1
<1> DEFINE q == [x EXCEPT !.pc = "written", !.captured = c, !.stored = t]
<1>7. sessions' = [sessions EXCEPT ![s] = q]
    <2>1. sessions' = [sessions EXCEPT ![s].pc = "written", ![s].captured = c, ![s].stored = t]
        BY <1>4, <1>5 DEF WritePaper
    <2>2. sessions \in [Sessions -> SessionStates]
        BY DEF BaseInv, LedgerTypeOK
    <2> QED BY <1>6, <2>1, <2>2
<1>8. /\ q \in SessionStates /\ q.pc = "written" /\ q.order = x.order /\ q.fill = x.fill
      /\ q.value = x.value /\ q.row = x.row /\ q.contracts = x.contracts
      /\ q.exposure = x.exposure /\ q.captured = c /\ q.stored = t
    BY DEF SessionStates
<1> HIDE DEF q
<1> QED BY <1>4, <1>5, <1>6, <1>7, <1>8 DEF WritePaper

\* The types are inductive given what the sessions hold.
LEMMA LedgerTypesKept ==
    ASSUME BaseInv, [LedgerNext]_ledgerVars
    PROVE  LedgerTypeOK'
<1> USE DEF BaseInv
<1>0. IsFiniteSet(updates) /\ IsFiniteSet(applied)
    BY DEF ReportsAreSound
<1>1. ASSUME NEW s \in Sessions, NEW o \in Orders, BeginPreview(s, o)
      PROVE  LedgerTypeOK'
    <2> DEFINE p == RulesPass(o)
    <2> DEFINE c == (Active = {} /\ \A x \in Orders : ~Outstanding(x))
    <2> DEFINE q == [Reading("preview", o) EXCEPT !.passed = p, !.calm = c]
    <2>1. p \in BOOLEAN
        BY DEF RulesPass
    <2>2. c \in BOOLEAN
        OBVIOUS
    <2>3. sessions' = [sessions EXCEPT ![s] = q]
        BY <1>1 DEF BeginPreview
    <2>4. q \in SessionStates
        <3> HIDE DEF p, c
        <3>1. [Reading("preview", o) EXCEPT !.passed = p] \in SessionStates
            BY <2>1, ReadingIsState DEF SessionStates
        <3> QED BY <2>1, <2>2, <3>1, ReadingIsState DEF SessionStates
    <2> HIDE DEF q
    <2>5. sessions' \in [Sessions -> SessionStates]
        BY <2>3, <2>4 DEF LedgerTypeOK
    <2> QED BY <1>1, <2>5 DEF BeginPreview, LedgerTypeOK
<1>2. ASSUME NEW s \in Sessions, NEW o \in Orders, BeginPaper(s, o)
      PROVE  LedgerTypeOK'
    <2>1. PICK q \in SessionStates : sessions' = [sessions EXCEPT ![s] = q]
        BY <1>2, BeginPaperEffect
    <2>2. sessions' \in [Sessions -> SessionStates]
        BY <2>1 DEF LedgerTypeOK
    <2> QED BY <1>2, <2>2 DEF BeginPaper, LedgerTypeOK
<1>3. ASSUME NEW s \in Sessions, CommitPreview(s)
      PROVE  LedgerTypeOK'
    <2> DEFINE o == sessions[s].order
    <2> DEFINE v == IF sessions[s].passed THEN "pending_approval" ELSE "blocked"
    <2>1. v \in ApprovalStatus
        BY DEF ApprovalStatus
    <2>2. orders' = [orders EXCEPT ![o] = v]
        BY <1>3 DEF CommitPreview
    <2> HIDE DEF v, o
    <2>3. orders' \in [Orders -> ApprovalStatus]
        BY <2>1, <2>2 DEF LedgerTypeOK
    <2>4. sessions' \in [Sessions -> SessionStates]
        BY <1>3, IdleIsState DEF CommitPreview, LedgerTypeOK
    <2>5. careful' \in BOOLEAN
        BY <1>3 DEF CommitPreview
    <2> QED BY <1>3, <2>3, <2>4, <2>5 DEF CommitPreview, LedgerTypeOK
<1>4. ASSUME NEW s \in Sessions, CommitReconcile(s)
      PROVE  LedgerTypeOK'
    <2> DEFINE u == sessions[s].update
    <2>1. /\ u \in Updates /\ u.order \in Orders /\ Target(s) \in Markets
          /\ u.count = 0 => books' = books /\ raced' = raced
          /\ u.count # 0 => CommitBook(s, "live", Target(s), 1, u.price)
                            /\ Committed(s, "live", 1, u.price)
          /\ sessions' = [sessions EXCEPT ![s] = Idle]
        BY <1>4, ReconcileEffect, PricesAreNat
    <2>2. books' \in [Books -> Seq(Positions)]
        BY <2>1 DEF Committed, LedgerTypeOK
    <2>3. raced' \subseteq Books \X Markets
        <3>1. CASE u.count = 0
            BY <2>1, <3>1 DEF LedgerTypeOK
        <3>2. CASE u.count # 0
            <4>1. raced' = raced \/ raced' = raced \cup {<<"live", Target(s)>>}
                BY <2>1, <3>2 DEF CommitBook
            <4> QED BY <2>1, <4>1 DEF LedgerTypeOK, Books
        <3> QED BY <3>1, <3>2
    <2>4. sessions' \in [Sessions -> SessionStates]
        BY <2>1, IdleIsState DEF LedgerTypeOK
    <2>6. applied' \subseteq Updates \X (Nat \ {0})
        <3> DEFINE k == TimesApplied(u)
        <3>1. k \in Nat
            <4>1. IsFiniteSet({a \in applied : a[1] = u})
                BY <1>0, FS_Subset
            <4> QED BY <4>1, FS_CardinalityType DEF TimesApplied
        <3>2. applied' = applied \cup {<<u, k + 1>>}
            BY <1>4 DEF CommitReconcile
        <3> HIDE DEF k
        <3>3. k + 1 \in Nat \ {0}
            BY <3>1
        <3> QED BY <2>1, <3>2, <3>3 DEF LedgerTypeOK
    <2>7. careful' \in BOOLEAN
        BY <1>4 DEF CommitReconcile
    <2> QED BY <1>4, <2>2, <2>3, <2>4, <2>6, <2>7 DEF CommitReconcile, LedgerTypeOK
<1>5. ASSUME NEW s \in Sessions, CommitPaper(s)
      PROVE  LedgerTypeOK'
    <2> DEFINE o == sessions[s].order
    <2> DEFINE n == sessions[s].fill
    <2>1. /\ o \in Orders /\ n \in Nat /\ n # 0 /\ Target(s) = MarketOf[o] /\ Target(s) \in Markets
          /\ sessions' = [sessions EXCEPT ![s] = Idle]
        BY <1>5, PaperEffect, PricesAreNat
    <2>2. PICK value \in Nat : /\ CommitBook(s, "paper", Target(s), n, value)
                               /\ Committed(s, "paper", n, value)
        BY <1>5, PaperEffect
    <2>3. books' \in [Books -> Seq(Positions)]
        BY <2>2 DEF Committed
    <2>4. raced' \subseteq Books \X Markets
        <3>1. raced' = raced \/ raced' = raced \cup {<<"paper", Target(s)>>}
            BY <2>2 DEF CommitBook
        <3> QED BY <2>1, <3>1 DEF LedgerTypeOK, Books
    <2>5. sessions' \in [Sessions -> SessionStates]
        BY <2>1, IdleIsState DEF LedgerTypeOK
    <2>7. paperFills' \in Seq(PaperFills)
        <3>1. [market |-> MarketOf[o], count |-> n] \in PaperFills
            BY <2>1 DEF PaperFills
        <3>2. paperFills' = Append(paperFills, [market |-> MarketOf[o], count |-> n])
            BY <1>5 DEF CommitPaper
        <3> QED BY <3>1, <3>2, AppendProperties DEF LedgerTypeOK
    <2>8. portfolio' \in Seq(PortfolioRows)
        <3> DEFINE c == sessions[s].captured
        <3> DEFINE d == TotalExposure(books["paper"])
        <3> DEFINE e == sessions[s].stored
        <3>1. c \in Nat /\ e \in Nat
            BY DEF LedgerTypeOK, SessionStates
        <3>2. d \in Nat
            BY ExposureIsNat DEF LedgerTypeOK, Books
        <3>3. portfolio' = Append(portfolio, [exposure |-> c, missed |-> d - e])
            BY <1>5 DEF CommitPaper
        <3> HIDE DEF c, d, e
        <3>4. [exposure |-> c, missed |-> d - e] \in PortfolioRows
            BY <3>1, <3>2 DEF PortfolioRows
        <3> QED BY <3>3, <3>4, AppendProperties DEF LedgerTypeOK
    <2> QED BY <1>5, <2>3, <2>4, <2>5, <2>7, <2>8 DEF CommitPaper, LedgerTypeOK
<1>6. ASSUME NEW o \in Orders, Place(o)
      PROVE  LedgerTypeOK'
    <2>1. orders' \in [Orders -> ApprovalStatus] /\ onExchange' \subseteq Orders
        BY <1>6 DEF Place, LedgerTypeOK, ApprovalStatus
    <2> QED BY <1>6, <2>1 DEF Place, LedgerTypeOK
<1>7. ASSUME NEW o \in Orders, NEW count \in {0, 1}, NEW price \in FillPrices \cup {0},
             Report(o, count, price)
      PROVE  updates' \subseteq Updates
    <2> DEFINE k == Cardinality(Reported(o))
    <2>1. k \in Nat
        <3>1. IsFiniteSet(Reported(o))
            BY <1>0, FS_Subset DEF Reported
        <3> QED BY <3>1, FS_CardinalityType
    <2>2. updates' = updates \cup {[order |-> o, nth |-> k + 1, count |-> count, price |-> price]}
        BY <1>7 DEF Report
    <2> HIDE DEF k
    <2>3. [order |-> o, nth |-> k + 1, count |-> count, price |-> price] \in Updates
        BY <2>1 DEF Updates
    <2> QED BY <2>2, <2>3 DEF LedgerTypeOK
<1>8. ASSUME NEW o \in Orders, ExchangeFill(o)
      PROVE  LedgerTypeOK'
    <2>1. PICK price \in FillPrices \cup {0} : Report(o, 1, price)
        BY <1>8 DEF ExchangeFill
    <2>2. updates' \subseteq Updates
        BY <1>7, <2>1
    <2> QED BY <1>8, <2>2 DEF ExchangeFill, LedgerTypeOK
<1>9. ASSUME NEW o \in Orders, ExchangeCancel(o)
      PROVE  LedgerTypeOK'
    <2>1. updates' \subseteq Updates
        BY <1>7, <1>9 DEF ExchangeCancel
    <2>2. onExchange' \subseteq Orders
        BY <1>9 DEF ExchangeCancel, LedgerTypeOK
    <2> QED BY <1>9, <2>1, <2>2 DEF ExchangeCancel, LedgerTypeOK
<1>10. ASSUME NEW s \in Sessions, NEW u \in updates, BeginReconcile(s, u)
      PROVE  LedgerTypeOK'
    <2>1. u \in Updates /\ u.order \in Orders
        BY DEF LedgerTypeOK, Updates
    <2> DEFINE q == [Reading("reconcile", u.order) EXCEPT !.update = u]
    <2>2. q \in SessionStates /\ q.row = 0 /\ q.contracts = 0 /\ q.exposure = 0
        BY <2>1, ReadingIsState DEF SessionStates
    <2> DEFINE r == WithPosition(q, "live", MarketOf[u.order])
    <2>3. sessions' = [sessions EXCEPT ![s] = IF u.count = 0 THEN q ELSE r]
        BY <1>10 DEF BeginReconcile
    <2>4. r \in SessionStates
        <3> HIDE DEF q
        <3>1. "live" \in Books /\ LedgerTypeOK
            BY DEF Books
        <3> QED BY <2>2, <3>1, PositionIsRead
    <2> HIDE DEF q, r
    <2>5. sessions' \in [Sessions -> SessionStates]
        BY <2>2, <2>3, <2>4 DEF LedgerTypeOK
    <2> QED BY <1>10, <2>5 DEF BeginReconcile, LedgerTypeOK
<1>11. ASSUME NEW i \in DOMAIN books["live"], Age(i)
      PROVE  LedgerTypeOK'
    <2>1. books' \in [Books -> Seq(Positions)]
        BY <1>11, AgeEffect DEF Settled
    <2> QED BY <1>11, <2>1 DEF Age, LedgerTypeOK
<1>12. ASSUME NEW i \in DOMAIN books["live"], NEW lost \in BOOLEAN, ClosePosition(i, lost)
      PROVE  LedgerTypeOK'
    <2>1. books' \in [Books -> Seq(Positions)]
        BY <1>12, CloseEffect DEF Settled
    <2> QED BY <1>12, <2>1 DEF ClosePosition, LedgerTypeOK
<1>13. ASSUME NEW m \in Markets, NEW state \in MarketStates, Observe(m, state)
      PROVE  LedgerTypeOK'
    <2>1. Append(snapshots[m], state) \in Seq(MarketStates)
        BY AppendProperties DEF LedgerTypeOK
    <2>2. snapshots' \in [Markets -> Seq(MarketStates)]
        BY <1>13, <2>1 DEF Observe, LedgerTypeOK
    <2> QED BY <1>13, <2>2 DEF Observe, LedgerTypeOK
<1>14. CASE UNCHANGED ledgerVars
    BY <1>14 DEF ledgerVars, LedgerTypeOK
<1>15. ASSUME NEW s \in Sessions, WritePaper(s)
      PROVE  LedgerTypeOK'
    <2>1. PICK q \in SessionStates : sessions' = [sessions EXCEPT ![s] = q]
        BY <1>15, WritePaperEffect
    <2>2. sessions' \in [Sessions -> SessionStates]
        BY <2>1 DEF LedgerTypeOK
    <2> QED BY <1>15, <2>2 DEF WritePaper, LedgerTypeOK
<1> QED BY <1>1, <1>2, <1>3, <1>4, <1>5, <1>6, <1>8, <1>9, <1>10, <1>11, <1>12, <1>13, <1>14,
           <1>15
        DEF LedgerNext, LedgerSteps

\* A session that does not move stays sound, as rows and reports stay.
LEMMA SessionCarried ==
    ASSUME NEW t \in Sessions, SessionSound(t), RowsStay, updates \subseteq updates',
           sessions'[t] = sessions[t]
    PROVE  SessionSound(t)'
BY DEF SessionSound, RowsStay, WritesTo, Target

\* A session that has ended holds nothing.
LEMMA IdleIsSound ==
    ASSUME NEW s \in Sessions, sessions'[s] = Idle
    PROVE  SessionSound(s)'
<1>1. \A b \in Books : ~ (WritesTo(s, b)')
    BY IdleIsState DEF WritesTo, Books
<1> QED BY <1>1, IdleIsState DEF SessionSound

\* A step of one session, idle or sound afterwards, leaves the sessions sound.
LEMMA SessionsCarried ==
    ASSUME BaseInv, NEW s \in Sessions, NEW q, sessions' = [sessions EXCEPT ![s] = q],
           RowsStay, updates' = updates, q = Idle \/ SessionSound(s)'
    PROVE  SessionsAreSound'
<1> SUFFICES ASSUME NEW t \in Sessions PROVE SessionSound(t)'
    BY DEF SessionsAreSound
<1>1. CASE t = s
    <2>1. sessions'[s] = q
        BY DEF BaseInv, LedgerTypeOK
    <2> QED BY <1>1, <2>1, IdleIsSound
<1>2. CASE t # s
    <2>1. sessions'[t] = sessions[t] /\ SessionSound(t) /\ updates \subseteq updates'
        BY <1>2 DEF BaseInv, LedgerTypeOK, SessionsAreSound
    <2> QED BY <2>1, SessionCarried
<1> QED BY <1>1, <1>2

\* Rows that do not change stay.
LEMMA SameRowsStay == UNCHANGED books => RowsStay
BY DEF RowsStay

\* What the sessions have read remains readable: the row is still there.
LEMMA SessionsKept ==
    ASSUME BaseInv, [LedgerNext]_ledgerVars
    PROVE  SessionsAreSound'
<1>1. ASSUME NEW s \in Sessions, NEW o \in Orders, BeginPreview(s, o)
      PROVE  SessionsAreSound'
    <2> DEFINE r == Reading("preview", o)
    <2> DEFINE p == RulesPass(o)
    <2> DEFINE c == (Active = {} /\ \A x \in Orders : ~Outstanding(x))
    <2> DEFINE q == [r EXCEPT !.passed = p, !.calm = c]
    <2>1. sessions' = [sessions EXCEPT ![s] = q] /\ updates' = updates /\ UNCHANGED books
        BY <1>1 DEF BeginPreview
    <2>2. q.pc = "preview" /\ q.order = o /\ q.row = 0 /\ q.contracts = 0 /\ q.exposure = 0
        <3> HIDE DEF p, c, r
        <3>1. r \in SessionStates /\ r.pc = "preview" /\ r.order = o /\ r.row = 0
              /\ r.contracts = 0 /\ r.exposure = 0
            BY ReadingIsState DEF r
        <3> QED BY <3>1 DEF SessionStates
    <2> HIDE DEF q
    <2>3. sessions'[s] = q
        BY <2>1 DEF BaseInv, LedgerTypeOK
    <2>4. SessionSound(s)'
        BY <2>2, <2>3 DEF SessionSound, WritesTo, Books
    <2> QED BY <2>1, <2>4, SessionsCarried, SameRowsStay
<1>2. ASSUME NEW s \in Sessions, NEW o \in Orders, BeginPaper(s, o)
      PROVE  SessionsAreSound'
    <2>1. PICK q \in SessionStates :
             /\ sessions' = [sessions EXCEPT ![s] = q]
             /\ q.pc = "paper" /\ q.order = o /\ q.fill # 0 /\ q.value # 0
             /\ q.row = 0 => q.contracts = 0 /\ q.exposure = 0
             /\ q.row # 0 => q.row \in OpenRows("paper", MarketOf[o])
        BY <1>2, BeginPaperEffect
    <2>2. updates' = updates /\ UNCHANGED books
        BY <1>2 DEF BeginPaper
    <2>3. sessions'[s] = q
        BY <2>1 DEF BaseInv, LedgerTypeOK
    <2>4. q.row # 0 => /\ q.row \in DOMAIN books["paper"]
                       /\ books["paper"][q.row].market = MarketOf[o]
        BY <2>1 DEF OpenRows
    <2>5. SessionSound(s)'
        BY <2>1, <2>2, <2>3, <2>4 DEF SessionSound, WritesTo, Books, Target
    <2> QED BY <2>1, <2>2, <2>5, SessionsCarried, SameRowsStay
<1>3. ASSUME NEW s \in Sessions, NEW u \in updates, BeginReconcile(s, u)
      PROVE  SessionsAreSound'
    <2> DEFINE o == u.order
    <2> DEFINE g == Reading("reconcile", o)
    <2> DEFINE h == [g EXCEPT !.update = u]
    <2> DEFINE r == WithPosition(h, "live", MarketOf[o])
    <2> DEFINE q == IF u.count = 0 THEN h ELSE r
    <2>1. sessions' = [sessions EXCEPT ![s] = q] /\ updates' = updates /\ UNCHANGED books
        BY <1>3 DEF BeginReconcile
    <2>2. u \in Updates /\ o \in Orders
        BY DEF BaseInv, LedgerTypeOK, Updates
    <2>3. g \in SessionStates /\ g.pc = "reconcile" /\ g.order = o /\ g.row = 0
          /\ g.contracts = 0 /\ g.exposure = 0
        BY <2>2, ReadingIsState
    <2> HIDE DEF g, o
    <2>4. /\ h \in SessionStates /\ h.pc = "reconcile" /\ h.order = o /\ h.row = 0
          /\ h.contracts = 0 /\ h.exposure = 0 /\ h.update = u
        BY <2>2, <2>3 DEF SessionStates
    <2>5. LedgerTypeOK /\ "live" \in Books
        BY DEF BaseInv, Books
    <2> HIDE DEF h
    <2>6. /\ r \in SessionStates /\ r.pc = "reconcile" /\ r.order = o /\ r.update = u
          /\ OpenRows("live", MarketOf[o]) = {} =>
                r.row = 0 /\ r.contracts = 0 /\ r.exposure = 0
          /\ OpenRows("live", MarketOf[o]) # {} => r.row \in OpenRows("live", MarketOf[o])
        BY <2>4, <2>5, PositionIsRead
    <2> HIDE DEF r
    <2>7. r.row # 0 => r.row \in DOMAIN books["live"]
                       /\ books["live"][r.row].market = MarketOf[o]
        BY <2>6 DEF OpenRows
    <2>8. OpenRows("live", MarketOf[o]) # {} => r.row # 0
        <3>1. \A i \in DOMAIN books["live"] : i # 0
            <4>1. books["live"] \in Seq(Positions)
                BY <2>5 DEF LedgerTypeOK
            <4> QED BY <4>1
        <3> QED BY <2>6, <3>1 DEF OpenRows
    <2>9. /\ q.pc = "reconcile" /\ q.order = o /\ q.update = u
          /\ q.row = 0 => q.contracts = 0 /\ q.exposure = 0
          /\ q.row # 0 => q.row \in DOMAIN books["live"]
                          /\ books["live"][q.row].market = MarketOf[o]
        <3>1. CASE u.count = 0
            BY <2>4, <3>1
        <3>2. CASE u.count # 0
            <4>1. q = r
                BY <3>2
            <4> QED BY <4>1, <2>6, <2>7, <2>8
        <3> QED BY <3>1, <3>2
    <2> HIDE DEF q
    <2>10. sessions'[s] = q
        BY <2>1 DEF BaseInv, LedgerTypeOK
    <2>11. SessionSound(s)'
        BY <2>1, <2>2, <2>9, <2>10 DEF SessionSound, WritesTo, Books, Target, o
    <2> QED BY <2>1, <2>11, SessionsCarried, SameRowsStay
<1>4. ASSUME NEW s \in Sessions, CommitPreview(s)
      PROVE  SessionsAreSound'
    <2>1. sessions' = [sessions EXCEPT ![s] = Idle] /\ updates' = updates /\ UNCHANGED books
        BY <1>4 DEF CommitPreview
    <2> QED BY <2>1, SessionsCarried, SameRowsStay
<1>5. ASSUME NEW s \in Sessions, CommitReconcile(s)
      PROVE  SessionsAreSound'
    <2> DEFINE u == sessions[s].update
    <2>1. /\ u.count = 0 => books' = books
          /\ u.count # 0 => Committed(s, "live", 1, u.price)
          /\ sessions' = [sessions EXCEPT ![s] = Idle]
        BY <1>5, ReconcileEffect
    <2>2. RowsStay
        BY <2>1, SameRowsStay, CommittedRowsStay DEF BaseInv, Books
    <2>3. updates' = updates
        BY <1>5 DEF CommitReconcile
    <2> QED BY <2>1, <2>2, <2>3, SessionsCarried
<1>6. ASSUME NEW s \in Sessions, CommitPaper(s)
      PROVE  SessionsAreSound'
    <2>1. sessions' = [sessions EXCEPT ![s] = Idle]
        BY <1>6, PaperEffect
    <2>2. PICK value \in Nat : Committed(s, "paper", sessions[s].fill, value)
        BY <1>6, PaperEffect
    <2>3. RowsStay
        BY <2>2, CommittedRowsStay DEF BaseInv, Books
    <2>4. updates' = updates
        BY <1>6 DEF CommitPaper
    <2> QED BY <2>1, <2>3, <2>4, SessionsCarried
<1>7. ASSUME UNCHANGED sessions, RowsStay, updates \subseteq updates'
      PROVE  SessionsAreSound'
    BY <1>7, SessionCarried DEF BaseInv, SessionsAreSound
<1>8. ASSUME NEW o \in Orders, Place(o) \/ ExchangeFill(o) \/ ExchangeCancel(o)
      PROVE  SessionsAreSound'
    <2>1. UNCHANGED sessions /\ UNCHANGED books /\ updates \subseteq updates'
        BY <1>8 DEF Place, ExchangeFill, ExchangeCancel, Report
    <2> QED BY <2>1, <1>7, SameRowsStay
<1>9. ASSUME NEW i \in DOMAIN books["live"], Age(i) \/ \E lost \in BOOLEAN : ClosePosition(i, lost)
      PROVE  SessionsAreSound'
    <2>1. \E lost : Settled(i, lost)
        BY <1>9, AgeEffect, CloseEffect DEF BaseInv
    <2>2. UNCHANGED sessions /\ UNCHANGED updates
        BY <1>9 DEF Age, ClosePosition
    <2> QED BY <2>1, <2>2, <1>7, SettledRowsStay DEF BaseInv
<1>10. ASSUME NEW m \in Markets, NEW state \in MarketStates, Observe(m, state)
      PROVE  SessionsAreSound'
    BY <1>7, <1>10, SameRowsStay DEF Observe
<1>11. CASE UNCHANGED ledgerVars
    BY <1>7, <1>11, SameRowsStay DEF ledgerVars
<1>12. ASSUME NEW s \in Sessions, WritePaper(s)
      PROVE  SessionsAreSound'
    <2>1. PICK q \in SessionStates :
             /\ sessions' = [sessions EXCEPT ![s] = q]
             /\ sessions[s].pc = "paper" /\ q.pc = "written" /\ q.order = sessions[s].order
             /\ q.fill = sessions[s].fill /\ q.value = sessions[s].value
             /\ q.row = sessions[s].row /\ q.contracts = sessions[s].contracts
             /\ q.exposure = sessions[s].exposure
        BY <1>12, WritePaperEffect
    <2>2. updates' = updates /\ UNCHANGED books
        BY <1>12 DEF WritePaper
    <2>3. sessions'[s] = q /\ SessionSound(s)
        BY <2>1 DEF BaseInv, LedgerTypeOK, SessionsAreSound
    <2>4. SessionSound(s)'
        BY <2>1, <2>2, <2>3 DEF SessionSound, WritesTo, Books, Target
    <2> QED BY <2>1, <2>2, <2>4, SessionsCarried, SameRowsStay
<1> QED BY <1>1, <1>2, <1>3, <1>4, <1>5, <1>6, <1>8, <1>9, <1>10, <1>11, <1>12
        DEF LedgerNext, LedgerSteps

\* The times an update was applied, and the number of the next time is a new one.
LEMMA NextTime ==
    ASSUME ReportsAreSound, NEW u
    PROVE  /\ TimesApplied(u) \in Nat /\ <<u, TimesApplied(u) + 1>> \notin applied
           /\ IsFiniteSet({a \in applied : a[1] = u})
<1> DEFINE A == {a \in applied : a[1] = u}
<1> DEFINE k == TimesApplied(u)
<1>1. IsFiniteSet(A)
    BY FS_Subset DEF ReportsAreSound
<1>2. k \in Nat
    BY <1>1, FS_CardinalityType DEF TimesApplied
<1>3. ASSUME <<u, k + 1>> \in applied PROVE FALSE
    <2>1. <<u, k + 1>>[2] <= TimesApplied(<<u, k + 1>>[1])
        BY <1>3 DEF ReportsAreSound
    <2>2. k + 1 <= k
        BY <2>1
    <2> HIDE DEF k
    <2> QED BY <1>2, <2>2
<1> QED BY <1>1, <1>2, <1>3

\* Updates, reported and applied, remain those of orders at the exchange.
LEMMA ReportsKept ==
    ASSUME BaseInv, [LedgerNext]_ledgerVars
    PROVE  ReportsAreSound'
<1>0. ReportsAreSound
    BY DEF BaseInv
<1>1. ASSUME NEW s \in Sessions, CommitReconcile(s)
      PROVE  ReportsAreSound'
    <2>0. PICK u : u = sessions[s].update
        OBVIOUS
    <2> DEFINE k == TimesApplied(u)
    <2> DEFINE n == <<u, k + 1>>
    <2>1. u \in updates
        BY <1>1, <2>0, ReconcileEffect
    <2>2. applied' = applied \cup {n} /\ UNCHANGED updates
        BY <1>1, <2>0 DEF CommitReconcile
    <2>3. k \in Nat /\ n \notin applied /\ IsFiniteSet({a \in applied : a[1] = u})
        BY <1>0, NextTime
    <2>4. IsFiniteSet(applied')
        BY <1>0, <2>2, FS_AddElement DEF ReportsAreSound
    <2>5. \A a \in applied' : a[1] \in updates'
        BY <1>0, <2>1, <2>2 DEF ReportsAreSound
    <2>6. TimesApplied(u)' = k + 1
        <3>1. {a \in applied' : a[1] = u} = {a \in applied : a[1] = u} \cup {n}
            BY <2>2
        <3>2. n \notin {a \in applied : a[1] = u}
            BY <2>3
        <3>3. Cardinality({a \in applied' : a[1] = u}) = Cardinality({a \in applied : a[1] = u}) + 1
            <4> HIDE DEF n
            <4> QED BY <2>3, <3>1, <3>2, FS_AddElement
        <3>4. TimesApplied(u)' = Cardinality({a \in applied' : a[1] = u})
            BY DEF TimesApplied
        <3> QED BY <3>3, <3>4 DEF TimesApplied
    <2>7. ASSUME NEW a \in applied' PROVE a[2] <= (TimesApplied(a[1]))'
        <3>1. CASE a[1] # u
            <4>1. {b \in applied' : b[1] = a[1]} = {b \in applied : b[1] = a[1]}
                BY <2>2, <3>1
            <4>2. (TimesApplied(a[1]))' = TimesApplied(a[1])
                BY <4>1 DEF TimesApplied
            <4>3. a \in applied
                BY <2>2, <3>1
            <4> QED BY <1>0, <4>2, <4>3 DEF ReportsAreSound
        <3>2. CASE a[1] = u /\ a \in applied
            <4>1. a[2] <= k
                BY <1>0, <3>2 DEF ReportsAreSound
            <4>2. a[2] \in Nat
                BY <3>2 DEF BaseInv, LedgerTypeOK
            <4>3. (TimesApplied(a[1]))' = k + 1
                BY <2>6, <3>2 DEF TimesApplied
            <4> HIDE DEF k
            <4> QED BY <2>3, <4>1, <4>2, <4>3
        <3>3. CASE a = n
            <4>1. a[2] = k + 1 /\ a[1] = u
                BY <3>3
            <4>2. (TimesApplied(a[1]))' = k + 1
                BY <2>6, <4>1 DEF TimesApplied
            <4> HIDE DEF k
            <4> QED BY <2>3, <4>1, <4>2
        <3> QED BY <2>2, <3>1, <3>2, <3>3
    <2>8. \A o \in Orders : (Cardinality(Filled(o)) <= CountOf[o])'
        BY <1>0, <2>2 DEF ReportsAreSound, Filled, Reported
    <2>9. IsFiniteSet(updates')
        BY <1>0, <2>2 DEF ReportsAreSound
    <2> QED BY <2>4, <2>5, <2>7, <2>8, <2>9 DEF ReportsAreSound
<1>2. ASSUME NEW o \in Orders, NEW count \in {0, 1}, NEW price, Report(o, count, price),
             Cardinality(Filled(o)) < CountOf[o], UNCHANGED applied
      PROVE  ReportsAreSound'
    <2>1. PICK x : updates' = updates \cup {x} /\ x.order = o
        <3> DEFINE x == [order |-> o, nth |-> Cardinality(Reported(o)) + 1, count |-> count,
                         price |-> price]
        <3>1. updates' = updates \cup {x} /\ x.order = o
            BY <1>2 DEF Report
        <3> QED BY <3>1
    <2>2. IsFiniteSet(updates')
        BY <1>0, <2>1, FS_AddElement DEF ReportsAreSound
    <2>3. ASSUME NEW p \in Orders PROVE (Cardinality(Filled(p)) <= CountOf[p])'
        <3>1. CASE p = o
            <4>0. IsFiniteSet(Filled(o))
                BY <1>0, FS_Subset DEF ReportsAreSound, Filled, Reported
            <4>1. Filled(o)' \subseteq Filled(o) \cup {x}
                BY <2>1 DEF Filled, Reported
            <4>2. /\ IsFiniteSet(Filled(o) \cup {x})
                  /\ Cardinality(Filled(o) \cup {x}) <= Cardinality(Filled(o)) + 1
                <5>1. CASE x \in Filled(o)
                    <6>1. Filled(o) \cup {x} = Filled(o)
                        BY <5>1
                    <6>2. Cardinality(Filled(o)) \in Nat
                        BY <4>0, FS_CardinalityType
                    <6>3. Cardinality(Filled(o)) <= Cardinality(Filled(o)) + 1
                        BY <6>2
                    <6> QED BY <4>0, <6>1, <6>3
                <5>2. CASE x \notin Filled(o)
                    <6>1. /\ IsFiniteSet(Filled(o) \cup {x})
                          /\ Cardinality(Filled(o) \cup {x}) = Cardinality(Filled(o)) + 1
                        BY <4>0, <5>2, FS_AddElement
                    <6>2. Cardinality(Filled(o) \cup {x}) \in Nat
                        BY <6>1, FS_CardinalityType
                    <6> QED BY <6>1, <6>2
                <5> QED BY <5>1, <5>2
            <4> DEFINE m == Cardinality(Filled(o))
            <4> DEFINE n == Cardinality(Filled(o)')
            <4>3. n <= Cardinality(Filled(o) \cup {x}) /\ n \in Nat
                BY <4>1, <4>2, FS_Subset, FS_CardinalityType
            <4>4. Cardinality(Filled(o) \cup {x}) \in Nat /\ m \in Nat
                BY <4>0, <4>2, FS_CardinalityType
            <4> DEFINE h == Cardinality(Filled(o) \cup {x})
            <4> DEFINE c == CountOf[o]
            <4>5. m < c /\ h <= m + 1 /\ c \in Nat /\ n <= h /\ h \in Nat /\ m \in Nat /\ n \in Nat
                BY <1>2, <4>2, <4>3, <4>4, PricesAreNat
            <4>6. n <= c
                <5> HIDE DEF m, n, h, c
                <5> QED BY <4>5
            <4> QED BY <3>1, <4>6 DEF Filled, Reported
        <3>2. CASE p # o
            <4>1. Filled(p)' = Filled(p)
                BY <2>1, <3>2 DEF Filled, Reported
            <4> QED BY <1>0, <4>1 DEF ReportsAreSound
        <3> QED BY <3>1, <3>2
    <2> QED BY <1>0, <1>2, <2>1, <2>2, <2>3 DEF ReportsAreSound, TimesApplied
<1>3. ASSUME NEW o \in Orders, ExchangeFill(o)
      PROVE  ReportsAreSound'
    <2>1. PICK price : Report(o, 1, price)
        BY <1>3 DEF ExchangeFill
    <2> QED BY <1>2, <1>3, <2>1 DEF ExchangeFill
<1>4. ASSUME NEW o \in Orders, ExchangeCancel(o)
      PROVE  ReportsAreSound'
    BY <1>2, <1>4 DEF ExchangeCancel
<1>5. ASSUME UNCHANGED updates, UNCHANGED applied
      PROVE  ReportsAreSound'
    BY <1>0, <1>5 DEF ReportsAreSound, TimesApplied, Filled, Reported
<1>6. ASSUME NEW s \in Sessions, NEW o \in Orders, BeginPreview(s, o) \/ BeginPaper(s, o)
      PROVE  ReportsAreSound'
    BY <1>5, <1>6 DEF BeginPreview, BeginPaper
<1>7. ASSUME NEW s \in Sessions, CommitPreview(s) \/ WritePaper(s) \/ CommitPaper(s)
      PROVE  ReportsAreSound'
    BY <1>5, <1>7 DEF CommitPreview, WritePaper, CommitPaper
<1>8. ASSUME NEW o \in Orders, Place(o)
      PROVE  ReportsAreSound'
    BY <1>5, <1>8 DEF Place
<1>9. ASSUME NEW s \in Sessions, NEW u \in updates, BeginReconcile(s, u)
      PROVE  ReportsAreSound'
    BY <1>5, <1>9 DEF BeginReconcile
<1>10. ASSUME NEW i \in DOMAIN books["live"],
              Age(i) \/ \E lost \in BOOLEAN : ClosePosition(i, lost)
       PROVE  ReportsAreSound'
    BY <1>5, <1>10 DEF Age, ClosePosition
<1>11. ASSUME NEW m \in Markets, NEW state \in MarketStates, Observe(m, state)
       PROVE  ReportsAreSound'
    BY <1>5, <1>11 DEF Observe
<1>12. CASE UNCHANGED ledgerVars
    BY <1>5, <1>12 DEF ledgerVars
<1> QED BY <1>1, <1>3, <1>4, <1>6, <1>7, <1>8, <1>9, <1>10, <1>11, <1>12
        DEF LedgerNext, LedgerSteps

\* In paper mode the exchange and the live book stay empty, in live mode nobody simulates.
LEMMA ModesKept ==
    ASSUME BaseInv, [LedgerNext]_ledgerVars
    PROVE  ModesApart'
<1>0. ModesApart /\ mode' = mode
    BY DEF BaseInv, LedgerNext, LedgerSteps, ledgerVars, BeginPreview, BeginPaper, CommitPreview,
           CommitReconcile, WritePaper, CommitPaper, Place, ExchangeFill, ExchangeCancel, BeginReconcile,
           Age, ClosePosition, Observe
<1>1. ASSUME mode = "live" PROVE \A s \in Sessions : sessions'[s].pc \notin {"paper", "written"}
    <2>1. ASSUME NEW s \in Sessions, NEW q, q.pc \notin {"paper", "written"}, sessions' = [sessions EXCEPT ![s] = q]
          PROVE  \A t \in Sessions : sessions'[t].pc \notin {"paper", "written"}
        <3> TAKE t \in Sessions
        <3>1. CASE t = s
            BY <2>1, <3>1 DEF BaseInv, LedgerTypeOK
        <3>2. CASE t # s
            BY <1>0, <1>1, <2>1, <3>2 DEF BaseInv, LedgerTypeOK, ModesApart
        <3> QED BY <3>1, <3>2
    <2>2. ASSUME NEW s \in Sessions, NEW o \in Orders, BeginPreview(s, o)
          PROVE  \A t \in Sessions : sessions'[t].pc \notin {"paper", "written"}
        <3> DEFINE r == Reading("preview", o)
        <3> DEFINE p == RulesPass(o)
        <3> DEFINE c == (Active = {} /\ \A x \in Orders : ~Outstanding(x))
        <3> DEFINE q == [r EXCEPT !.passed = p, !.calm = c]
        <3>1. r \in SessionStates /\ r.pc = "preview"
            BY ReadingIsState
        <3>2. sessions' = [sessions EXCEPT ![s] = q]
            BY <2>2 DEF BeginPreview
        <3> HIDE DEF r, p, c
        <3>3. q.pc \notin {"paper", "written"}
            BY <3>1 DEF SessionStates
        <3> QED BY <2>1, <3>2, <3>3
    <2>3. ASSUME NEW s \in Sessions, NEW u \in updates, BeginReconcile(s, u)
          PROVE  \A t \in Sessions : sessions'[t].pc \notin {"paper", "written"}
        <3> DEFINE q == [Reading("reconcile", u.order) EXCEPT !.update = u]
        <3>1. u \in Updates /\ u.order \in Orders
            BY DEF BaseInv, LedgerTypeOK, Updates
        <3>2. /\ q \in SessionStates /\ q.pc = "reconcile"
              /\ q.row = 0 /\ q.contracts = 0 /\ q.exposure = 0
            BY <3>1, ReadingIsState DEF SessionStates
        <3> DEFINE r == WithPosition(q, "live", MarketOf[u.order])
        <3>3. sessions' = [sessions EXCEPT ![s] = IF u.count = 0 THEN q ELSE r]
            BY <2>3 DEF BeginReconcile
        <3>4. r.pc = "reconcile"
            <4> HIDE DEF q
            <4>1. "live" \in Books /\ LedgerTypeOK
                BY DEF Books, BaseInv
            <4> QED BY <3>2, <4>1, PositionIsRead
        <3> HIDE DEF q, r
        <3>5. CASE u.count = 0
            BY <2>1, <3>2, <3>3, <3>5
        <3>6. CASE u.count # 0
            BY <2>1, <3>3, <3>4, <3>6
        <3> QED BY <3>5, <3>6
    <2>4. ASSUME NEW s \in Sessions, sessions' = [sessions EXCEPT ![s] = Idle]
          PROVE  \A t \in Sessions : sessions'[t].pc \notin {"paper", "written"}
        BY <2>1, <2>4, IdleIsState
    <2>5. ASSUME NEW s \in Sessions, CommitPreview(s) \/ CommitReconcile(s) \/ CommitPaper(s)
          PROVE  \A t \in Sessions : sessions'[t].pc \notin {"paper", "written"}
        BY <2>4, <2>5, ReconcileEffect, PaperEffect DEF CommitPreview
    <2>6. ASSUME UNCHANGED sessions
          PROVE  \A t \in Sessions : sessions'[t].pc \notin {"paper", "written"}
        BY <1>0, <1>1, <2>6 DEF ModesApart
    <2>7. ASSUME NEW s \in Sessions, NEW o \in Orders, BeginPaper(s, o)
          PROVE  FALSE
        BY <1>1, <2>7 DEF BeginPaper
    <2>8. ASSUME NEW s \in Sessions, WritePaper(s)
          PROVE  FALSE
        BY <1>0, <1>1, <2>8 DEF WritePaper, ModesApart
    <2> QED BY <2>2, <2>3, <2>5, <2>6, <2>7, <2>8
            DEF LedgerNext, LedgerSteps, ledgerVars, Place, ExchangeFill, ExchangeCancel,
                Age, ClosePosition, Observe
<1>2. ASSUME mode = "paper" PROVE onExchange' = {} /\ updates' = {} /\ books'["live"] = <<>>
    <2>1. onExchange = {} /\ updates = {} /\ books["live"] = <<>>
        BY <1>0, <1>2 DEF ModesApart
    <2>2. ASSUME NEW s \in Sessions, CommitReconcile(s) PROVE FALSE
        BY <2>1, <2>2, ReconcileEffect
    <2>3. ASSUME NEW s \in Sessions, CommitPaper(s)
          PROVE  onExchange' = {} /\ updates' = {} /\ books'["live"] = <<>>
        <3>1. PICK value \in Nat : Committed(s, "paper", sessions[s].fill, value)
            BY <2>3, PaperEffect
        <3>2. books'["live"] = books["live"]
            BY <3>1 DEF Committed, Books
        <3> QED BY <2>1, <2>3, <3>2 DEF CommitPaper
    <2>4. ASSUME NEW o \in Orders, Place(o) \/ ExchangeFill(o) \/ ExchangeCancel(o) PROVE FALSE
        BY <1>2, <2>1, <2>4 DEF Place, ExchangeFill, ExchangeCancel
    <2>5. ASSUME NEW i \in DOMAIN books["live"] PROVE FALSE
        BY <2>1
    <2>6. ASSUME UNCHANGED <<onExchange, updates, books>>
          PROVE  onExchange' = {} /\ updates' = {} /\ books'["live"] = <<>>
        BY <2>1, <2>6
    <2>7. ASSUME NEW s \in Sessions, NEW o \in Orders, BeginPreview(s, o) \/ BeginPaper(s, o)
          PROVE  UNCHANGED <<onExchange, updates, books>>
        BY <2>7 DEF BeginPreview, BeginPaper
    <2>8. ASSUME NEW s \in Sessions, CommitPreview(s)
          PROVE  UNCHANGED <<onExchange, updates, books>>
        BY <2>8 DEF CommitPreview
    <2>9. ASSUME NEW s \in Sessions, NEW u \in updates, BeginReconcile(s, u) PROVE FALSE
        BY <2>1
    <2>10. ASSUME NEW m \in Markets, NEW state \in MarketStates, Observe(m, state)
           PROVE  UNCHANGED <<onExchange, updates, books>>
        BY <2>10 DEF Observe
    <2>11. CASE UNCHANGED ledgerVars
        BY <2>6, <2>11 DEF ledgerVars
    <2>12. ASSUME NEW s \in Sessions, WritePaper(s)
           PROVE  UNCHANGED <<onExchange, updates, books>>
        BY <2>12 DEF WritePaper
    <2> QED BY <2>2, <2>3, <2>4, <2>5, <2>6, <2>7, <2>8, <2>9, <2>10, <2>11, <2>12
            DEF LedgerNext, LedgerSteps
<1> QED BY <1>0, <1>1, <1>2 DEF ModesApart

\* The base invariant holds at the start.
LEMMA BaseBegins == LedgerInit => BaseInv
<1> SUFFICES ASSUME LedgerInit PROVE BaseInv
    OBVIOUS
<1>1. LedgerTypeOK
    BY IdleIsState DEF LedgerInit, LedgerTypeOK, ApprovalStatus
<1>2. \A s \in Sessions : sessions[s] = Idle
    BY DEF LedgerInit
<1>3. SessionsAreSound
    BY <1>2, IdleIsState DEF SessionsAreSound, SessionSound, WritesTo, Books
<1>4. ReportsAreSound
    <2>1. \A o \in Orders : Filled(o) = {}
        BY DEF LedgerInit, Filled, Reported
    <2>2. \A o \in Orders : Cardinality(Filled(o)) <= CountOf[o]
        <3> TAKE o \in Orders
        <3> DEFINE c == CountOf[o]
        <3>1. c \in Nat /\ Cardinality(Filled(o)) = 0
            BY <2>1, FS_EmptySet, PricesAreNat
        <3> HIDE DEF c
        <3>2. 0 <= c
            BY <3>1
        <3> QED BY <3>1, <3>2 DEF c
    <2> QED BY <2>2, FS_EmptySet DEF LedgerInit, ReportsAreSound
<1>5. ModesApart
    BY <1>2, IdleIsState DEF LedgerInit, ModesApart, Books
<1> QED BY <1>1, <1>3, <1>4, <1>5 DEF BaseInv

\* The base invariant is inductive.
LEMMA BaseKept == BaseInv /\ [LedgerNext]_ledgerVars => BaseInv'
BY LedgerTypesKept, SessionsKept, ReportsKept, ModesKept DEF BaseInv

\* The base invariant holds throughout.
LEMMA BaseInvariance == LedgerSpec => []BaseInv
BY BaseBegins, BaseKept, PTL DEF LedgerSpec

\* Every variable of the ledger holds rows of its kind, whichever sessions race
\* (execution_engine/orders, paper and previews).
THEOREM LedgerTypes == LedgerSpec => []LedgerTypeOK
BY BaseInvariance, PTL DEF BaseInv

-----------------------------------------------------------------------------
(* Closed positions, and the portfolio. *)

\* Steps other than a live commit, a close and an ageing leave the live book.
LEMMA LiveSteps ==
    ASSUME BaseInv, [LedgerNext]_ledgerVars
    PROVE  \/ books'["live"] = books["live"]
           \/ \E s \in Sessions : /\ CommitReconcile(s) /\ sessions[s].update.count # 0
                                  /\ Committed(s, "live", 1, sessions[s].update.price)
           \/ \E i \in DOMAIN books["live"], lost \in BOOLEAN :
                 ClosePosition(i, lost) /\ Settled(i, lost)
           \/ \E i \in DOMAIN books["live"] :
                 Age(i) /\ Settled(i, books["live"][i].lost) /\ ~IsOpen(books["live"][i])
<1>1. ASSUME NEW s \in Sessions, CommitReconcile(s)
      PROVE  \/ books'["live"] = books["live"]
             \/ /\ sessions[s].update.count # 0
                /\ Committed(s, "live", 1, sessions[s].update.price)
    BY <1>1, ReconcileEffect
<1>2. ASSUME NEW s \in Sessions, CommitPaper(s)
      PROVE  books'["live"] = books["live"]
    <2>1. PICK value \in Nat : Committed(s, "paper", sessions[s].fill, value)
        BY <1>2, PaperEffect
    <2> QED BY <2>1 DEF Committed, Books
<1>3. ASSUME NEW i \in DOMAIN books["live"], NEW lost \in BOOLEAN, ClosePosition(i, lost)
      PROVE  Settled(i, lost)
    BY <1>3, CloseEffect DEF BaseInv
<1>4. ASSUME NEW i \in DOMAIN books["live"], Age(i)
      PROVE  Settled(i, books["live"][i].lost) /\ ~IsOpen(books["live"][i])
    BY <1>4, AgeEffect DEF BaseInv, IsOpen
<1>5. ASSUME NEW s \in Sessions, NEW o \in Orders, BeginPreview(s, o) \/ BeginPaper(s, o)
      PROVE  books'["live"] = books["live"]
    BY <1>5 DEF BeginPreview, BeginPaper
<1>6. ASSUME NEW s \in Sessions, CommitPreview(s) \/ WritePaper(s)
      PROVE  books'["live"] = books["live"]
    BY <1>6 DEF CommitPreview, WritePaper
<1>7. ASSUME NEW o \in Orders, Place(o) \/ ExchangeFill(o) \/ ExchangeCancel(o)
      PROVE  books'["live"] = books["live"]
    BY <1>7 DEF Place, ExchangeFill, ExchangeCancel
<1>8. ASSUME NEW s \in Sessions, NEW u \in updates, BeginReconcile(s, u)
      PROVE  books'["live"] = books["live"]
    BY <1>8 DEF BeginReconcile
<1>9. ASSUME NEW m \in Markets, NEW state \in MarketStates, Observe(m, state)
      PROVE  books'["live"] = books["live"]
    BY <1>9 DEF Observe
<1>10. CASE UNCHANGED ledgerVars
    BY <1>10 DEF ledgerVars
<1> QED BY <1>1, <1>2, <1>3, <1>4, <1>5, <1>6, <1>7, <1>8, <1>9, <1>10
        DEF LedgerNext, LedgerSteps

\* Of one row: closed, it stays closed with its result.
StaysClosed(i) ==
    ~IsOpen(books["live"][i]) =>
        /\ ~IsOpen(books'["live"][i])
        /\ books'["live"][i].lost = books["live"][i].lost

\* No step opens a closed row again.
LEMMA ClosedIsFinal ==
    ASSUME BaseInv, [LedgerNext]_ledgerVars, NEW i \in DOMAIN books["live"]
    PROVE  StaysClosed(i)
<1>1. ASSUME books'["live"] = books["live"] PROVE StaysClosed(i)
    BY <1>1 DEF StaysClosed
<1>2. ASSUME NEW s \in Sessions, NEW v, Committed(s, "live", 1, v) PROVE StaysClosed(i)
    <2>1. CASE sessions[s].row = 0
        BY <1>2, <2>1 DEF StaysClosed, Committed
    <2>2. CASE sessions[s].row # 0 /\ sessions[s].row # i
        BY <1>2, <2>2 DEF StaysClosed, Committed
    <2>3. CASE sessions[s].row # 0 /\ sessions[s].row = i
        <3>1. books'["live"][i].age = books["live"][i].age
              /\ books'["live"][i].lost = books["live"][i].lost
            BY <1>2, <2>3 DEF Committed
        <3> QED BY <3>1 DEF StaysClosed, IsOpen
    <2> QED BY <2>1, <2>2, <2>3
<1>3. ASSUME NEW j \in DOMAIN books["live"], NEW lost \in BOOLEAN,
             ClosePosition(j, lost), Settled(j, lost)
      PROVE  StaysClosed(i)
    <2>1. CASE i = j
        BY <1>3, <2>1 DEF StaysClosed, ClosePosition, OpenLive
    <2>2. CASE i # j
        BY <1>3, <2>2 DEF StaysClosed, Settled
    <2> QED BY <2>1, <2>2
<1>4. ASSUME NEW j \in DOMAIN books["live"], Settled(j, books["live"][j].lost)
      PROVE  StaysClosed(i)
    <2>1. CASE i = j
        BY <1>4, <2>1 DEF StaysClosed, Settled, IsOpen
    <2>2. CASE i # j
        BY <1>4, <2>2 DEF StaysClosed, Settled
    <2> QED BY <2>1, <2>2
<1> QED BY <1>1, <1>2, <1>3, <1>4, LiveSteps

\* A closed position stays closed with its result, although a session that read it
\* open may still commit a fill into it (mark_position_closed, reconcile).
THEOREM ClosedForGood == LedgerSpec => ClosedStaysClosed
<1>1. BaseInv /\ [LedgerNext]_ledgerVars =>
         [\A i \in DOMAIN books["live"] :
             ~IsOpen(books["live"][i]) =>
                 /\ ~IsOpen(books'["live"][i])
                 /\ books'["live"][i].lost = books["live"][i].lost]_ledgerVars
    BY ClosedIsFinal DEF StaysClosed
<1> QED BY <1>1, BaseInvariance, PTL DEF LedgerSpec, ClosedStaysClosed

\* What the session's own position counts for: as it is stored, and as it writes it.
Was(s) == IF sessions[s].row = 0 THEN 0 ELSE books["paper"][sessions[s].row].exposure
Own(s) == sessions[s].exposure + sessions[s].value

PaperIsOpen == \A i \in DOMAIN books["paper"] : IsOpen(books["paper"][i])

\* A session that has read the portfolio saw the books, but for its own position.
OwnIsCaptured(s) ==
    sessions[s].pc = "written" => sessions[s].captured + Was(s) = sessions[s].stored + Own(s)

RowsAreHeld ==
    \A s, t \in Sessions :
        s # t /\ sessions[s].pc = "written" /\ sessions[t].pc = "written" /\ sessions[s].row # 0
            => sessions[s].row # sessions[t].row

PortfolioInv ==
    /\ PaperIsOpen /\ RowsAreHeld /\ PortfolioFollowsBooks
    /\ \A s \in Sessions : OwnIsCaptured(s)

\* The paper book with its rows open: a session's own row and the others.
LEMMA PaperParts ==
    ASSUME BaseInv, PaperIsOpen, NEW s \in Sessions, WritesTo(s, "paper")
    PROVE  LET rows == books["paper"]
               rest == OpenPaper \ {sessions[s].row}
           IN  /\ rows \in Seq(Positions) /\ Len(rows) \in Nat /\ DOMAIN rows = 1..Len(rows)
               /\ OpenPaper = DOMAIN rows /\ TotalExposure(rows) = ExposureOver(rows, OpenPaper)
               /\ IsFiniteSet(rest) /\ ExposureOver(rows, rest) \in Nat /\ Was(s) \in Nat
               /\ sessions[s].row # 0 => sessions[s].row \in DOMAIN rows
               /\ TotalExposure(rows) = Was(s) + ExposureOver(rows, rest)
<1> DEFINE rows == books["paper"]
<1> DEFINE rest == OpenPaper \ {sessions[s].row}
<1> DEFINE w == [i \in DOMAIN rows |-> rows[i].exposure]
<1>1. rows \in Seq(Positions)
    BY DEF BaseInv, LedgerTypeOK, Books
<1>2. Len(rows) \in Nat /\ DOMAIN rows = 1..Len(rows)
    BY <1>1
<1>3. OpenPaper = DOMAIN rows /\ TotalExposure(rows) = ExposureOver(rows, OpenPaper)
    BY DEF OpenPaper, PaperIsOpen, TotalExposure
<1>4. sessions[s].row # 0 => sessions[s].row \in DOMAIN rows
    BY DEF BaseInv, SessionsAreSound, SessionSound, Books
<1>5. /\ IsFiniteSet(rest) /\ ExposureOver(rows, rest) \in Nat
      /\ IsFiniteSet(DOMAIN rows)
    <2>1. rest \in SUBSET DOMAIN rows /\ DOMAIN rows \in SUBSET DOMAIN rows
        BY <1>3
    <2> HIDE DEF rest, rows
    <2> QED BY <1>1, <2>1, ExposureIsNat
<1>6. \A i \in DOMAIN rows : w[i] \in Nat /\ w[i] = rows[i].exposure
    <2> TAKE i \in DOMAIN rows
    <2>1. rows[i] \in Positions
        BY <1>1, ElementOfSeq
    <2> QED BY <2>1 DEF Positions
<1>7. \A S : ExposureOver(rows, S) = SumFunctionOnSet(w, S)
    BY DEF ExposureOver
<1>8. CASE sessions[s].row = 0
    <2>1. rest = OpenPaper
        BY <1>2, <1>3, <1>8
    <2>2. Was(s) = 0
        BY <1>8 DEF Was
    <2> DEFINE x == ExposureOver(rows, rest)
    <2>3. TotalExposure(rows) = x /\ x \in Nat
        BY <1>3, <1>5, <2>1
    <2> HIDE DEF x, rows, rest
    <2>4. x = 0 + x
        BY <2>3
    <2> QED BY <1>1, <1>2, <1>3, <1>4, <1>5, <2>2, <2>3, <2>4 DEF x, rows, rest
<1>9. CASE sessions[s].row # 0
    <2>1. PICK i : i = sessions[s].row
        OBVIOUS
    <2>2. i \in DOMAIN rows /\ rest = DOMAIN rows \ {i} /\ Was(s) = w[i]
        BY <1>3, <1>4, <1>6, <1>9, <2>1 DEF Was
    <2> HIDE DEF w, rows, rest
    <2>3. SumFunctionOnSet(w, DOMAIN rows) = w[i] + SumFunctionOnSet(w, DOMAIN rows \ {i})
        BY <1>5, <1>6, <2>2, SumWithout
    <2>4. TotalExposure(rows) = Was(s) + ExposureOver(rows, rest)
        BY <1>3, <1>7, <2>2, <2>3
    <2>5. Was(s) \in Nat
        BY <1>6, <2>2
    <2> QED BY <1>1, <1>2, <1>3, <1>4, <1>5, <2>4, <2>5 DEF rows, rest
<1> QED BY <1>8, <1>9

\* A paper execution puts its own in place of what its position was.
LEMMA PaperGrows ==
    ASSUME BaseInv, PaperIsOpen, NEW s \in Sessions, CommitPaper(s)
    PROVE  /\ PaperIsOpen'
           /\ TotalExposure(books'["paper"]) =
                 Own(s) + ExposureOver(books["paper"], OpenPaper \ {sessions[s].row})
           /\ \A i \in DOMAIN books["paper"] :
                 i # sessions[s].row => books'["paper"][i] = books["paper"][i]
           /\ Own(s) \in Nat
<1> DEFINE rows == books["paper"]
<1> DEFINE R == books'["paper"]
<1> DEFINE rest == OpenPaper \ {sessions[s].row}
<1> DEFINE w == [i \in DOMAIN rows |-> rows[i].exposure]
<1> DEFINE v == [i \in DOMAIN R |-> R[i].exposure]
<1>1. WritesTo(s, "paper") /\ "paper" \in Books
    BY PaperEffect DEF Books
<1>2. Committed(s, "paper", sessions[s].fill, sessions[s].value)
    BY PaperEffect
<1>3. /\ rows \in Seq(Positions) /\ Len(rows) \in Nat /\ DOMAIN rows = 1..Len(rows)
      /\ OpenPaper = DOMAIN rows /\ IsFiniteSet(rest)
      /\ sessions[s].row # 0 => sessions[s].row \in DOMAIN rows
    BY <1>1, PaperParts
<1>4. R \in Seq(Positions) /\ Len(R) \in Nat /\ DOMAIN R = 1..Len(R)
    <2>1. R \in Seq(Positions)
        BY <1>1, <1>2 DEF Committed
    <2> HIDE DEF R
    <2> QED BY <2>1
<1>5. PICK e, k : e = sessions[s].exposure /\ k = sessions[s].value
    OBVIOUS
<1>6. e \in Nat /\ k \in Nat /\ k # 0 /\ Own(s) = e + k
    BY <1>5 DEF CommitPaper, BaseInv, SessionsAreSound, SessionSound, LedgerTypeOK,
                SessionStates, Own
<1>7. e + k \in Nat /\ e + k # e
    BY <1>6
<1>8. PICK i : i = IF sessions[s].row = 0 THEN Len(rows) + 1 ELSE sessions[s].row
    OBVIOUS
<1>9. /\ DOMAIN R = rest \cup {i} /\ i \notin rest
      /\ \A j \in rest : R[j] = rows[j]
      /\ R[i].exposure = e + k /\ IsOpen(R[i])
    <2>1. CASE sessions[s].row = 0
        <3>1. /\ Len(R) = Len(rows) + 1 /\ \A j \in DOMAIN rows : R[j] = rows[j]
              /\ R[Len(rows) + 1] = [market |-> Target(s), contracts |-> sessions[s].fill,
                                     exposure |-> sessions[s].value, age |-> "open", lost |-> FALSE]
            BY <1>2, <2>1 DEF Committed
        <3>2. e = 0
            BY <1>5, <2>1 DEF BaseInv, SessionsAreSound, SessionSound
        <3>3. i = Len(rows) + 1 /\ rest = DOMAIN rows
            BY <1>3, <1>8, <2>1
        <3>4. R[i].exposure = k /\ R[i].age = "open"
            BY <1>5, <3>1, <3>3
        <3>5. e + k = k
            BY <1>6, <3>2
        <3>6. DOMAIN R = DOMAIN rows \cup {i} /\ i \notin DOMAIN rows
            <4> HIDE DEF R, rows
            <4> QED BY <1>3, <1>4, <3>1, <3>3
        <3> QED BY <3>1, <3>3, <3>4, <3>5, <3>6 DEF IsOpen
    <2>2. CASE sessions[s].row # 0
        <3>1. /\ Len(R) = Len(rows) /\ \A j \in DOMAIN rows : j # i => R[j] = rows[j]
              /\ R[i].age = rows[i].age
            BY <1>2, <1>8, <2>2 DEF Committed
        <3>2. R[i].exposure = e + k
            <4>1. sessions[s].exposure + sessions[s].value # sessions[s].exposure =>
                     R[i].exposure = sessions[s].exposure + sessions[s].value
                BY <1>2, <1>8, <2>2 DEF Committed
            <4> QED BY <1>5, <1>7, <4>1
        <3>3. i \in DOMAIN rows /\ rest = DOMAIN rows \ {i}
            BY <1>3, <1>8, <2>2
        <3>4. IsOpen(R[i])
            BY <3>1, <3>3 DEF PaperIsOpen, IsOpen
        <3> QED BY <1>3, <1>4, <3>1, <3>2, <3>3, <3>4
    <2> QED BY <2>1, <2>2
<1>10. \A j \in DOMAIN R : IsOpen(R[j])
    BY <1>3, <1>9 DEF PaperIsOpen
<1>11. TotalExposure(R) = SumFunctionOnSet(v, rest \cup {i})
    <2>1. {j \in DOMAIN R : IsOpen(R[j])} = rest \cup {i}
        BY <1>9, <1>10
    <2> QED BY <2>1 DEF TotalExposure, ExposureOver
<1>12. v[i] = e + k /\ \A j \in rest : w[j] \in Nat /\ v[j] = w[j]
    <2>1. v[i] = e + k
        BY <1>9
    <2>2. ASSUME NEW j \in rest PROVE w[j] \in Nat /\ v[j] = w[j]
        <3>1. rows[j] \in Positions /\ j \in DOMAIN rows
            BY <1>3, ElementOfSeq
        <3>2. w[j] \in Nat
            BY <3>1 DEF Positions
        <3>3. j \in DOMAIN R
            BY <1>9
        <3> QED BY <1>9, <3>1, <3>2, <3>3
    <2> QED BY <2>1, <2>2
<1>13. ExposureOver(rows, rest) = SumFunctionOnSet(w, rest)
    BY DEF ExposureOver
<1> HIDE DEF v, w, rest
<1>14. SumFunctionOnSet(v, rest \cup {i}) = v[i] + SumFunctionOnSet(w, rest)
    BY <1>3, <1>7, <1>9, <1>12, SumInserted
<1>15. TotalExposure(R) = Own(s) + ExposureOver(rows, rest)
    BY <1>6, <1>11, <1>12, <1>13, <1>14
<1>16. \A j \in DOMAIN rows : j # sessions[s].row => R[j] = rows[j]
    BY <1>3, <1>9 DEF rest
<1> QED BY <1>6, <1>7, <1>10, <1>15, <1>16 DEF PaperIsOpen, rest

\* A step that neither writes the paper book nor makes a session one that has read it.
LEMMA PortfolioBeside ==
    ASSUME PortfolioInv, UNCHANGED portfolio, books'["paper"] = books["paper"],
           \A t \in Sessions : sessions'[t].pc = "written" => sessions'[t] = sessions[t]
    PROVE  PortfolioInv'
<1>1. PaperIsOpen' /\ PortfolioFollowsBooks'
    BY DEF PortfolioInv, PaperIsOpen, PortfolioFollowsBooks
<1>2. RowsAreHeld'
    BY DEF PortfolioInv, RowsAreHeld
<1>3. ASSUME NEW t \in Sessions, sessions'[t].pc = "written"
      PROVE  OwnIsCaptured(t)'
    <2>1. sessions'[t] = sessions[t] /\ OwnIsCaptured(t)
        BY <1>3 DEF PortfolioInv
    <2> QED BY <1>3, <2>1 DEF OwnIsCaptured, Was, Own
<1>4. \A t \in Sessions : OwnIsCaptured(t)'
    BY <1>3 DEF OwnIsCaptured
<1> QED BY <1>1, <1>2, <1>4 DEF PortfolioInv

\* The same of a step of one session.
LEMMA PortfolioAside ==
    ASSUME BaseInv, PortfolioInv, UNCHANGED portfolio, books'["paper"] = books["paper"],
           NEW s \in Sessions, NEW q, q.pc # "written", sessions' = [sessions EXCEPT ![s] = q]
    PROVE  PortfolioInv'
<1>1. ASSUME NEW t \in Sessions, sessions'[t].pc = "written" PROVE sessions'[t] = sessions[t]
    <2>1. sessions'[s] = q /\ \A x \in Sessions : x # s => sessions'[x] = sessions[x]
        BY DEF BaseInv, LedgerTypeOK
    <2> QED BY <1>1, <2>1
<1> QED BY <1>1, PortfolioBeside

\* A session that writes its position reads the portfolio with it.
LEMMA PortfolioRead ==
    ASSUME BaseInv, PortfolioInv, NEW s \in Sessions, WritePaper(s)
    PROVE  PortfolioInv'
<1>1. PICK q \in SessionStates :
         /\ sessions' = [sessions EXCEPT ![s] = q]
         /\ sessions[s].pc = "paper" /\ q.pc = "written" /\ q.value = sessions[s].value
         /\ q.row = sessions[s].row /\ q.exposure = sessions[s].exposure
         /\ q.captured = Captured(s) /\ q.stored = TotalExposure(books["paper"])
    BY WritePaperEffect
<1>2. UNCHANGED <<books, portfolio>>
    BY DEF WritePaper
<1>3. sessions'[s] = q /\ \A t \in Sessions : t # s => sessions'[t] = sessions[t]
    BY <1>1 DEF BaseInv, LedgerTypeOK
<1>4. PaperIsOpen' /\ PortfolioFollowsBooks'
    BY <1>2 DEF PortfolioInv, PaperIsOpen, PortfolioFollowsBooks
<1>5. OwnIsCaptured(s)'
    <2> DEFINE a == Was(s)
    <2> DEFINE x == ExposureOver(books["paper"], OpenPaper \ {sessions[s].row})
    <2> DEFINE e == sessions[s].exposure
    <2> DEFINE k == sessions[s].value
    <2> DEFINE y == TotalExposure(books["paper"])
    <2>1. WritesTo(s, "paper") /\ PaperIsOpen
        BY <1>1 DEF WritesTo, PortfolioInv
    <2>2. a \in Nat /\ x \in Nat /\ y = a + x
        BY <2>1, PaperParts
    <2>3. e \in Nat /\ k \in Nat
        BY DEF BaseInv, LedgerTypeOK, SessionStates
    <2>4. /\ (Was(s))' = a /\ (Own(s))' = e + k
          /\ sessions'[s].captured = x + e + k /\ sessions'[s].stored = y
        BY <1>1, <1>2, <1>3 DEF Was, Own, Captured
    <2>5. (x + e + k) + a = y + (e + k)
        <3> HIDE DEF a, x, e, k, y
        <3> QED BY <2>2, <2>3
    <2> HIDE DEF a, x, e, k, y
    <2> QED BY <2>4, <2>5 DEF OwnIsCaptured
<1>6. ASSUME NEW t \in Sessions, t # s PROVE OwnIsCaptured(t)'
    <2>1. OwnIsCaptured(t)
        BY DEF PortfolioInv
    <2> QED BY <1>2, <1>3, <1>6, <2>1 DEF OwnIsCaptured, Was, Own
<1>7. RowsAreHeld'
    <2>1. ASSUME NEW t \in Sessions, t # s, sessions[t].pc = "written", sessions[s].row # 0
          PROVE  sessions[t].row # sessions[s].row
        <3>1. t \in Active /\ RowIsFree(s)
            BY <2>1 DEF Active, WritePaper
        <3> QED BY <2>1, <3>1 DEF RowIsFree
    <2> QED BY <1>1, <1>3, <2>1 DEF RowsAreHeld, PortfolioInv
<1> QED BY <1>4, <1>5, <1>6, <1>7 DEF PortfolioInv

\* A commit stores what was read, and what it missed in between.
LEMMA PortfolioStored ==
    ASSUME BaseInv, PortfolioInv, NEW s \in Sessions, CommitPaper(s)
    PROVE  PortfolioInv'
<1>1. WritesTo(s, "paper") /\ PaperIsOpen /\ sessions[s].pc = "written"
    BY PaperEffect DEF PortfolioInv, CommitPaper
<1>2. PaperIsOpen' /\ \A i \in DOMAIN books["paper"] :
                         i # sessions[s].row => books'["paper"][i] = books["paper"][i]
    BY <1>1, PaperGrows
<1>3. sessions'[s] = Idle /\ \A t \in Sessions : t # s => sessions'[t] = sessions[t]
    BY PaperEffect DEF BaseInv, LedgerTypeOK
<1>4. RowsAreHeld'
    BY <1>3, IdleIsState DEF RowsAreHeld, PortfolioInv
<1>5. ASSUME NEW t \in Sessions PROVE OwnIsCaptured(t)'
    <2>1. CASE t = s
        BY <1>3, <2>1, IdleIsState DEF OwnIsCaptured
    <2>2. CASE t # s /\ sessions[t].pc # "written"
        BY <1>3, <2>2 DEF OwnIsCaptured
    <2>3. CASE t # s /\ sessions[t].pc = "written"
        <3>1. sessions'[t] = sessions[t] /\ OwnIsCaptured(t)
            BY <1>3, <2>3 DEF PortfolioInv
        <3>2. CASE sessions[t].row = 0
            BY <3>1, <3>2 DEF OwnIsCaptured, Was, Own
        <3>3. CASE sessions[t].row # 0
            <4>1. sessions[t].row # sessions[s].row
                BY <1>1, <2>3, <3>3 DEF RowsAreHeld, PortfolioInv
            <4>2. sessions[t].row \in DOMAIN books["paper"]
                BY <2>3, <3>3 DEF BaseInv, SessionsAreSound, SessionSound, WritesTo, Books
            <4>3. books'["paper"][sessions[t].row] = books["paper"][sessions[t].row]
                BY <1>2, <4>1, <4>2
            <4> QED BY <3>1, <3>3, <4>3 DEF OwnIsCaptured, Was, Own
        <3> QED BY <3>2, <3>3
    <2> QED BY <2>1, <2>2, <2>3
<1>6. PortfolioFollowsBooks'
    <2> DEFINE a == Was(s)
    <2> DEFINE x == ExposureOver(books["paper"], OpenPaper \ {sessions[s].row})
    <2> DEFINE o == Own(s)
    <2> DEFINE y == TotalExposure(books["paper"])
    <2> DEFINE z == TotalExposure(books'["paper"])
    <2> DEFINE c == sessions[s].captured
    <2> DEFINE e == sessions[s].stored
    <2>1. a \in Nat /\ x \in Nat /\ y = a + x
        BY <1>1, PaperParts
    <2>2. o \in Nat /\ z = o + x
        BY <1>1, PaperGrows
    <2>3. c \in Nat /\ e \in Nat
        BY DEF BaseInv, LedgerTypeOK, SessionStates
    <2>4. c + a = e + o
        BY <1>1 DEF PortfolioInv, OwnIsCaptured
    <2>5. portfolio' = Append(portfolio, [exposure |-> c, missed |-> y - e])
        BY DEF CommitPaper
    <2>6. portfolio \in Seq(PortfolioRows)
        BY DEF BaseInv, LedgerTypeOK
    <2>7. PortfolioFollowsBooks' <=>
             (portfolio' # <<>> =>
                 portfolio'[Len(portfolio')].exposure + portfolio'[Len(portfolio')].missed = z)
        BY DEF PortfolioFollowsBooks
    <2> HIDE DEF a, x, o, y, z, c, e
    <2>8. c + (y - e) = z
        BY <2>1, <2>2, <2>3, <2>4
    <2>9. PICK r : r = [exposure |-> c, missed |-> y - e]
        OBVIOUS
    <2>10. r \in PortfolioRows /\ r.exposure = c /\ r.missed = y - e
        BY <2>1, <2>3, <2>9 DEF PortfolioRows
    <2>11. portfolio'[Len(portfolio')] = r
        <3>1. portfolio' = Append(portfolio, r)
            BY <2>5, <2>9
        <3>2. Len(portfolio') = Len(portfolio) + 1 /\ portfolio'[Len(portfolio) + 1] = r
            BY <2>6, <2>10, <3>1, AppendProperties
        <3> QED BY <3>2
    <2> QED BY <2>7, <2>8, <2>10, <2>11
<1> QED BY <1>2, <1>4, <1>5, <1>6 DEF PortfolioInv

\* The portfolio invariant is inductive.
LEMMA PortfolioKept ==
    ASSUME BaseInv, PortfolioInv, [LedgerNext]_ledgerVars
    PROVE  PortfolioInv'
<1>1. ASSUME NEW s \in Sessions, NEW o \in Orders, BeginPreview(s, o)
      PROVE  PortfolioInv'
    <2> DEFINE r == Reading("preview", o)
    <2> DEFINE p == RulesPass(o)
    <2> DEFINE c == (Active = {} /\ \A x \in Orders : ~Outstanding(x))
    <2> DEFINE q == [r EXCEPT !.passed = p, !.calm = c]
    <2>1. r \in SessionStates /\ r.pc = "preview"
        BY ReadingIsState
    <2>2. sessions' = [sessions EXCEPT ![s] = q] /\ UNCHANGED <<books, portfolio>>
        BY <1>1 DEF BeginPreview
    <2> HIDE DEF r, p, c
    <2>3. q.pc # "written"
        BY <2>1 DEF SessionStates
    <2> HIDE DEF q
    <2> QED BY <2>2, <2>3, PortfolioAside
<1>2. ASSUME NEW s \in Sessions, NEW o \in Orders, BeginPaper(s, o)
      PROVE  PortfolioInv'
    <2>1. PICK q \in SessionStates : sessions' = [sessions EXCEPT ![s] = q] /\ q.pc = "paper"
        BY <1>2, BeginPaperEffect
    <2>2. UNCHANGED <<books, portfolio>>
        BY <1>2 DEF BeginPaper
    <2> QED BY <2>1, <2>2, PortfolioAside
<1>3. ASSUME NEW s \in Sessions, NEW u \in updates, BeginReconcile(s, u)
      PROVE  PortfolioInv'
    <2> DEFINE h == [Reading("reconcile", u.order) EXCEPT !.update = u]
    <2> DEFINE r == WithPosition(h, "live", MarketOf[u.order])
    <2>1. /\ sessions' = [sessions EXCEPT ![s] = IF u.count = 0 THEN h ELSE r]
          /\ UNCHANGED <<books, portfolio>>
        BY <1>3 DEF BeginReconcile
    <2>2. u \in Updates /\ u.order \in Orders
        BY DEF BaseInv, LedgerTypeOK, Updates
    <2>3. /\ h \in SessionStates /\ h.pc = "reconcile" /\ h.row = 0
          /\ h.contracts = 0 /\ h.exposure = 0
        BY <2>2, ReadingIsState DEF SessionStates
    <2>4. "live" \in Books /\ LedgerTypeOK
        BY DEF Books, BaseInv
    <2> HIDE DEF h
    <2>5. r.pc = "reconcile"
        BY <2>3, <2>4, PositionIsRead
    <2> HIDE DEF r
    <2>6. PICK q : q = IF u.count = 0 THEN h ELSE r
        OBVIOUS
    <2>7. q.pc # "written" /\ sessions' = [sessions EXCEPT ![s] = q]
        BY <2>1, <2>3, <2>5, <2>6
    <2> QED BY <2>1, <2>7, PortfolioAside
<1>4. ASSUME NEW s \in Sessions, CommitPreview(s)
      PROVE  PortfolioInv'
    BY <1>4, IdleIsState, PortfolioAside DEF CommitPreview
<1>5. ASSUME NEW s \in Sessions, CommitReconcile(s)
      PROVE  PortfolioInv'
    <2>1. \/ books' = books
          \/ Committed(s, "live", 1, sessions[s].update.price)
        BY <1>5, ReconcileEffect
    <2>2. books'["paper"] = books["paper"]
        BY <2>1 DEF Committed, Books
    <2>3. sessions' = [sessions EXCEPT ![s] = Idle] /\ UNCHANGED portfolio
        BY <1>5, ReconcileEffect DEF CommitReconcile
    <2> QED BY <2>2, <2>3, IdleIsState, PortfolioAside
<1>6. ASSUME UNCHANGED <<portfolio, sessions>>, books'["paper"] = books["paper"]
      PROVE  PortfolioInv'
    BY <1>6, PortfolioBeside
<1>7. ASSUME NEW i \in DOMAIN books["live"], Age(i) \/ \E lost \in BOOLEAN : ClosePosition(i, lost)
      PROVE  PortfolioInv'
    <2>1. \E lost : Settled(i, lost)
        BY <1>7, AgeEffect, CloseEffect DEF BaseInv
    <2>2. books'["paper"] = books["paper"]
        BY <2>1 DEF Settled
    <2> QED BY <1>6, <1>7, <2>2 DEF Age, ClosePosition
<1>8. ASSUME NEW o \in Orders, Place(o) \/ ExchangeFill(o) \/ ExchangeCancel(o)
      PROVE  PortfolioInv'
    BY <1>6, <1>8 DEF Place, ExchangeFill, ExchangeCancel
<1>9. ASSUME NEW m \in Markets, NEW state \in MarketStates, Observe(m, state)
      PROVE  PortfolioInv'
    BY <1>6, <1>9 DEF Observe
<1>10. CASE UNCHANGED ledgerVars
    BY <1>6, <1>10 DEF ledgerVars
<1> QED BY <1>1, <1>2, <1>3, <1>4, <1>5, <1>7, <1>8, <1>9, <1>10, PortfolioRead, PortfolioStored
        DEF LedgerNext, LedgerSteps

\* The newest portfolio snapshot shows the paper positions as they are, but for what
\* executions of other positions committed between its reads and its commit
\* (PaperExecutionService.submit_order, capture_portfolio_snapshot).
THEOREM PortfolioIsCurrent == LedgerSpec => []PortfolioFollowsBooks
<1>1. LedgerInit => PortfolioInv
    <2> SUFFICES ASSUME LedgerInit PROVE PortfolioInv
        OBVIOUS
    <2>1. \A s \in Sessions : sessions[s].pc = "idle"
        BY IdleIsState DEF LedgerInit
    <2>2. PaperIsOpen /\ PortfolioFollowsBooks
        BY DEF LedgerInit, Books, PaperIsOpen, PortfolioFollowsBooks
    <2> QED BY <2>1, <2>2 DEF PortfolioInv, RowsAreHeld, OwnIsCaptured
<1>2. BaseInv /\ PortfolioInv /\ [LedgerNext]_ledgerVars => PortfolioInv'
    BY PortfolioKept
<1>3. PortfolioInv => PortfolioFollowsBooks
    BY DEF PortfolioInv
<1> QED BY <1>1, <1>2, <1>3, BaseInvariance, PTL DEF LedgerSpec

-----------------------------------------------------------------------------
(* The books never hold more than was filled. *)

\* The rows of a market, and the sums over them, of sequences of rows and tallies.
LEMMA TallyIsSound ==
    ASSUME BaseInv, NEW b \in Books, NEW w, Tallies(b, w)
    PROVE  /\ books[b] \in Seq(Positions) /\ Len(books[b]) \in Nat
           /\ DOMAIN books[b] = 1..Len(books[b])
           /\ w \in Seq(Nat) /\ Len(w) = Len(books[b]) /\ DOMAIN w = DOMAIN books[b]
           /\ \A i \in DOMAIN books[b] : /\ w[i] \in Nat /\ books[b][i] \in Positions
                                         /\ books[b][i].contracts \in Nat
                                         /\ books[b][i].market \in Markets
           /\ \A m : /\ IsFiniteSet(RowsOf(books[b], m))
                     /\ RowsOf(books[b], m) \subseteq DOMAIN books[b]
<1>1. books[b] \in Seq(Positions) /\ w \in Seq(Nat) /\ Len(w) = Len(books[b])
    BY DEF BaseInv, LedgerTypeOK, Tallies
<1>2. Len(books[b]) \in Nat /\ DOMAIN books[b] = 1..Len(books[b]) /\ DOMAIN w = DOMAIN books[b]
    BY <1>1
<1>3. ASSUME NEW i \in DOMAIN books[b]
      PROVE  /\ w[i] \in Nat /\ books[b][i] \in Positions
             /\ books[b][i].contracts \in Nat /\ books[b][i].market \in Markets
    <2>1. books[b][i] \in Positions
        BY <1>1, ElementOfSeq
    <2>2. i \in 1..Len(w)
        BY <1>1, <1>2
    <2>3. w[i] \in Nat
        BY <1>1, <2>2, ElementOfSeq
    <2> QED BY <2>1, <2>3 DEF Positions
<1>4. ASSUME NEW m
      PROVE  IsFiniteSet(RowsOf(books[b], m)) /\ RowsOf(books[b], m) \subseteq DOMAIN books[b]
    <2>1. RowsOf(books[b], m) \subseteq 1..Len(books[b])
        BY <1>2 DEF RowsOf
    <2> DEFINE n == Len(books[b])
    <2>2. IsFiniteSet(1..n)
        <3>1. n \in Int /\ 1 \in Int
            BY <1>2
        <3> HIDE DEF n
        <3> QED BY <3>1, FS_Interval
    <2>3. IsFiniteSet(RowsOf(books[b], m))
        BY <2>1, <2>2, FS_Subset
    <2> QED BY <1>2, <2>1, <2>3
<1> QED BY <1>1, <1>2, <1>3, <1>4

\* A tally remains one while the contracts of the rows do, whatever sessions read.
LEMMA TallyCarried ==
    ASSUME BaseInv, NEW b \in Books, NEW w, Tallies(b, w),
           books'[b] \in Seq(Positions), Len(books'[b]) = Len(books[b]),
           \A i \in DOMAIN books[b] : /\ books'[b][i].market = books[b][i].market
                                      /\ books'[b][i].contracts = books[b][i].contracts,
           raced \subseteq raced',
           \A m \in Markets : (Written(b, m))' = Written(b, m),
           \A t \in Sessions :
              (WritesTo(t, b))' /\ sessions'[t].row # 0 =>
                  \/ /\ WritesTo(t, b) /\ sessions'[t].row = sessions[t].row
                     /\ sessions'[t].contracts = sessions[t].contracts
                  \/ /\ sessions'[t].row \in DOMAIN books[b]
                     /\ sessions'[t].contracts = books[b][sessions'[t].row].contracts
    PROVE  (Tallies(b, w))'
<1>1. DOMAIN books'[b] = DOMAIN books[b]
    BY TallyIsSound
<1>2. \A m \in Markets : RowsOf(books'[b], m) = RowsOf(books[b], m)
    BY <1>1 DEF RowsOf
<1>3. \A m \in Markets : SumFunctionOnSet(w, RowsOf(books'[b], m)) = (Written(b, m))'
    BY <1>2 DEF Tallies
<1>4. \A i \in DOMAIN books'[b] :
         /\ books'[b][i].contracts <= w[i]
         /\ <<b, books'[b][i].market>> \notin raced' => books'[b][i].contracts = w[i]
    BY <1>1 DEF Tallies
<1>5. ASSUME NEW t \in Sessions, (WritesTo(t, b))', sessions'[t].row # 0
      PROVE  sessions'[t].contracts <= w[sessions'[t].row]
    BY <1>5 DEF Tallies
<1>6. w \in Seq(Nat) /\ Len(w) = Len(books'[b])
    BY DEF Tallies
<1> QED BY <1>3, <1>4, <1>5, <1>6 DEF Tallies

\* A commit that opens a row adds its fill to the tally.
LEMMA TallyAppended ==
    ASSUME BaseInv, NEW b \in Books, NEW w, Tallies(b, w), NEW s \in Sessions, WritesTo(s, b),
           NEW count \in Nat, NEW value, Committed(s, b, count, value),
           CommitBook(s, b, Target(s), count, value), sessions[s].row = 0,
           \A m \in Markets : (Written(b, m))' = IF m = Target(s) THEN Written(b, m) + count
                                                 ELSE Written(b, m)
    PROVE  (Tallies(b, Append(w, count)))'
<1> DEFINE v == Append(w, count)
<1> DEFINE rows == books[b]
<1> DEFINE n == Len(rows) + 1
<1> DEFINE m == Target(s)
<1>1. /\ rows \in Seq(Positions) /\ Len(rows) \in Nat /\ DOMAIN rows = 1..Len(rows)
      /\ w \in Seq(Nat) /\ Len(w) = Len(rows) /\ DOMAIN w = DOMAIN rows
      /\ \A i \in DOMAIN rows : w[i] \in Nat
    BY TallyIsSound
<1>2. /\ v \in Seq(Nat) /\ Len(v) = n /\ v[n] = count
      /\ \A i \in DOMAIN rows : v[i] = w[i]
    BY <1>1, AppendProperties
<1>3. /\ books'[b] \in Seq(Positions) /\ Len(books'[b]) = n
      /\ \A j \in DOMAIN rows : books'[b][j] = rows[j]
      /\ books'[b][n] = [market |-> m, contracts |-> count, exposure |-> value,
                         age |-> "open", lost |-> FALSE]
    BY DEF Committed
<1>4. DOMAIN books'[b] = 1..n /\ n \notin DOMAIN rows /\ 1..n = DOMAIN rows \cup {n}
    BY <1>1, <1>3
<1> HIDE DEF v, n, rows
<1>5. raced \subseteq raced'
    BY DEF CommitBook
<1>6. \A i \in DOMAIN books'[b] :
         /\ books'[b][i].contracts <= v[i]
         /\ <<b, books'[b][i].market>> \notin raced' => books'[b][i].contracts = v[i]
    <2> TAKE i \in DOMAIN books'[b]
    <2>1. CASE i = n
        <3>1. books'[b][i].contracts = count /\ v[i] = count
            BY <1>2, <1>3, <2>1
        <3> QED BY <3>1
    <2>2. CASE i \in DOMAIN rows
        BY <1>2, <1>3, <1>5, <2>2 DEF Tallies, rows
    <2> QED BY <1>4, <2>1, <2>2
<1>7. ASSUME NEW t \in Sessions, (WritesTo(t, b))', sessions'[t].row # 0
      PROVE  sessions'[t].contracts <= v[sessions'[t].row]
    <2>1. t # s
        BY <1>7, IdleIsState DEF CommitBook, WritesTo, BaseInv, LedgerTypeOK, Books
    <2>2. sessions'[t] = sessions[t]
        BY <2>1 DEF CommitBook, BaseInv, LedgerTypeOK
    <2>3. WritesTo(t, b) /\ sessions[t].row # 0
        BY <1>7, <2>2 DEF WritesTo
    <2>4. sessions[t].row \in DOMAIN rows /\ sessions[t].contracts <= w[sessions[t].row]
        BY <2>3 DEF BaseInv, SessionsAreSound, SessionSound, Tallies, rows
    <2> QED BY <1>2, <2>2, <2>4
<1>8. ASSUME NEW k \in Markets
      PROVE  SumFunctionOnSet(v, RowsOf(books'[b], k)) = (Written(b, k))'
    <2>1. IsFiniteSet(RowsOf(rows, k)) /\ RowsOf(rows, k) \subseteq DOMAIN rows
          /\ SumFunctionOnSet(w, RowsOf(rows, k)) = Written(b, k)
        BY TallyIsSound DEF Tallies, rows
    <2>2. \A i \in RowsOf(rows, k) : w[i] \in Nat /\ v[i] = w[i]
        BY <1>1, <1>2, <2>1
    <2>3. CASE k # m
        <3>1. RowsOf(books'[b], k) = RowsOf(rows, k)
            BY <1>3, <1>4, <2>3 DEF RowsOf
        <3>2. SumFunctionOnSet(v, RowsOf(rows, k)) = SumFunctionOnSet(w, RowsOf(rows, k))
            BY <2>1, <2>2, SumEqual
        <3> QED BY <2>1, <2>3, <3>1, <3>2
    <2>4. CASE k = m
        <3>1. RowsOf(books'[b], k) = RowsOf(rows, k) \cup {n}
            BY <1>3, <1>4, <2>4 DEF RowsOf
        <3>2. n \notin RowsOf(rows, k) /\ v[n] \in Nat
            BY <1>2, <1>4, <2>1
        <3>3. SumFunctionOnSet(v, RowsOf(rows, k) \cup {n})
                 = v[n] + SumFunctionOnSet(w, RowsOf(rows, k))
            BY <2>1, <2>2, <3>2, SumInserted
        <3>4. SumFunctionOnSet(v, RowsOf(books'[b], k)) = count + Written(b, k)
            BY <1>2, <2>1, <3>1, <3>3
        <3>5. Written(b, k) \in Nat
            BY <2>1, <2>2, SumIsNat
        <3> DEFINE x == Written(b, k)
        <3>6. count + x = x + count
            <4> HIDE DEF x
            <4> QED BY <3>5 DEF x
        <3> QED BY <2>4, <3>4, <3>6
    <2> QED BY <2>3, <2>4
<1> QED BY <1>2, <1>3, <1>6, <1>7, <1>8 DEF Tallies, v

\* A commit into a row adds its fill to the row's tally, and what it writes is no
\* more, and just that unless the row had been written meanwhile.
LEMMA TallyRaised ==
    ASSUME BaseInv, NEW b \in Books, NEW w, Tallies(b, w), NEW s \in Sessions, WritesTo(s, b),
           NEW count \in Nat, NEW value, Committed(s, b, count, value),
           CommitBook(s, b, Target(s), count, value), sessions[s].row # 0,
           \A m \in Markets : (Written(b, m))' = IF m = Target(s) THEN Written(b, m) + count
                                                 ELSE Written(b, m)
    PROVE  \E v \in Seq(Nat) : (Tallies(b, v))'
<1>0. PICK i, seen, m : i = sessions[s].row /\ seen = sessions[s].contracts /\ m = Target(s)
    OBVIOUS
<1> DEFINE v == [w EXCEPT ![i] = w[i] + count]
<1> DEFINE rows == books[b]
<1>1. /\ rows \in Seq(Positions) /\ Len(rows) \in Nat /\ DOMAIN rows = 1..Len(rows)
      /\ w \in Seq(Nat) /\ Len(w) = Len(rows) /\ DOMAIN w = DOMAIN rows
      /\ \A j \in DOMAIN rows : w[j] \in Nat
    BY TallyIsSound
<1>2. /\ i \in DOMAIN rows /\ rows[i].market = m /\ rows[i].contracts \in Nat
      /\ rows[i].contracts <= w[i] /\ seen <= w[i] /\ seen \in Nat
    <2>1. i \in DOMAIN rows /\ rows[i].market = m
        BY <1>0 DEF Committed
    <2>2. seen \in Nat
        BY <1>0 DEF BaseInv, LedgerTypeOK, SessionStates
    <2>3. rows[i].contracts <= w[i] /\ seen <= w[i]
        BY <1>0, <2>1 DEF Tallies
    <2>4. rows[i].contracts \in Nat
        BY <2>1, TallyIsSound
    <2> QED BY <2>1, <2>2, <2>3, <2>4
<1>3. /\ books'[b] \in Seq(Positions) /\ Len(books'[b]) = Len(rows)
      /\ \A j \in DOMAIN rows : j # i => books'[b][j] = rows[j]
      /\ books'[b][i].market = rows[i].market
      /\ books'[b][i].contracts = seen + count
    BY <1>0 DEF Committed
<1>4. DOMAIN books'[b] = DOMAIN rows
    BY <1>1, <1>3
<1>5. w[i] \in Nat /\ w[i] + count \in Nat
    BY <1>1, <1>2
<1>6. /\ v \in Seq(Nat) /\ Len(v) = Len(rows) /\ v[i] = w[i] + count
      /\ \A j \in DOMAIN rows : j # i => v[j] = w[j]
    <2>1. i \in 1..Len(w)
        BY <1>1, <1>2
    <2> QED BY <1>1, <1>5, <2>1, ExceptSeq
<1>7. raced \subseteq raced'
    BY DEF CommitBook
<1>8. <<b, m>> \notin raced' => rows[i].contracts = seen
    <2>1. ASSUME rows[i].contracts # seen PROVE <<b, m>> \in raced'
        <3>1. Overtaken(s, b, m)
            <4>1. \/ books[b][sessions[s].row].contracts # sessions[s].contracts
                  \/ books[b][sessions[s].row].exposure # sessions[s].exposure
                BY <1>0, <2>1
            <4> QED BY <4>1 DEF Overtaken
        <3> QED BY <1>0, <3>1 DEF CommitBook
    <2> QED BY <2>1
<1> HIDE DEF v, rows
<1>9. \A j \in DOMAIN books'[b] :
         /\ books'[b][j].contracts <= v[j]
         /\ <<b, books'[b][j].market>> \notin raced' => books'[b][j].contracts = v[j]
    <2> TAKE j \in DOMAIN books'[b]
    <2>1. CASE j = i
        <3> DEFINE x == w[i]
        <3> DEFINE y == rows[i].contracts
        <3>1. books'[b][j].contracts = seen + count /\ v[j] = x + count
            BY <1>3, <1>6, <2>1
        <3>2. seen + count <= x + count
            <4> HIDE DEF x
            <4>1. x \in Nat /\ seen <= x /\ seen \in Nat
                BY <1>2, <1>5 DEF x
            <4> QED BY <4>1
        <3>3. ASSUME <<b, m>> \notin raced' PROVE seen = x
            <4>1. y = seen
                BY <1>8, <3>3
            <4>2. <<b, rows[i].market>> \notin raced
                BY <1>2, <1>7, <3>3
            <4>3. y = x
                BY <1>2, <4>2 DEF Tallies, rows
            <4> QED BY <4>1, <4>3
        <3>4. books'[b][j].market = m
            BY <1>2, <1>3, <2>1
        <3> QED BY <3>1, <3>2, <3>3, <3>4
    <2>2. CASE j # i
        BY <1>3, <1>4, <1>6, <1>7, <2>2 DEF Tallies, rows
    <2> QED BY <2>1, <2>2
<1>10. ASSUME NEW t \in Sessions, (WritesTo(t, b))', sessions'[t].row # 0
       PROVE  sessions'[t].contracts <= v[sessions'[t].row]
    <2>1. t # s
        BY <1>10, IdleIsState DEF CommitBook, WritesTo, BaseInv, LedgerTypeOK, Books
    <2>2. sessions'[t] = sessions[t]
        BY <2>1 DEF CommitBook, BaseInv, LedgerTypeOK
    <2>3. WritesTo(t, b) /\ sessions[t].row # 0
        BY <1>10, <2>2 DEF WritesTo
    <2>4. sessions[t].row \in DOMAIN rows /\ sessions[t].contracts <= w[sessions[t].row]
        BY <2>3 DEF BaseInv, SessionsAreSound, SessionSound, Tallies, rows
    <2>5. CASE sessions[t].row # i
        BY <1>6, <2>2, <2>4, <2>5
    <2>6. CASE sessions[t].row = i
        <3> DEFINE x == w[i]
        <3> DEFINE y == sessions[t].contracts
        <3>1. y \in Nat
            BY DEF BaseInv, LedgerTypeOK, SessionStates
        <3>2. y <= x /\ x \in Nat
            BY <1>5, <2>4, <2>6
        <3>3. y <= x + count
            <4> HIDE DEF x, y
            <4> QED BY <3>1, <3>2
        <3> QED BY <1>6, <2>2, <2>6, <3>3
    <2> QED BY <2>5, <2>6
<1>11. ASSUME NEW k \in Markets
       PROVE  SumFunctionOnSet(v, RowsOf(books'[b], k)) = (Written(b, k))'
    <2>1. IsFiniteSet(RowsOf(rows, k)) /\ RowsOf(rows, k) \subseteq DOMAIN rows
          /\ SumFunctionOnSet(w, RowsOf(rows, k)) = Written(b, k)
        BY TallyIsSound DEF Tallies, rows
    <2>2. RowsOf(books'[b], k) = RowsOf(rows, k)
        <3>1. \A j \in DOMAIN rows : books'[b][j].market = rows[j].market
            BY <1>3
        <3> QED BY <1>4, <3>1 DEF RowsOf
    <2>3. \A j \in RowsOf(rows, k) : w[j] \in Nat
        BY <1>1, <2>1
    <2>4. CASE k # m
        <3>1. \A j \in RowsOf(rows, k) : v[j] = w[j]
            BY <1>2, <1>6, <2>1, <2>4 DEF RowsOf
        <3>2. SumFunctionOnSet(v, RowsOf(rows, k)) = SumFunctionOnSet(w, RowsOf(rows, k))
            BY <2>1, <3>1, SumEqual
        <3> QED BY <1>0, <2>1, <2>2, <2>4, <3>2
    <2>5. CASE k = m
        <3>1. i \in RowsOf(rows, k)
            BY <1>2, <2>5 DEF RowsOf
        <3>2. \A j \in RowsOf(rows, k) \ {i} : v[j] = w[j]
            BY <1>6, <2>1
        <3>3. SumFunctionOnSet(v, RowsOf(rows, k)) = SumFunctionOnSet(w, RowsOf(rows, k)) + count
            BY <1>6, <2>1, <2>3, <3>1, <3>2, SumRaised
        <3> QED BY <1>0, <2>1, <2>2, <2>5, <3>3
    <2> QED BY <2>4, <2>5
<1>12. (Tallies(b, v))'
    BY <1>1, <1>3, <1>6, <1>9, <1>10, <1>11 DEF Tallies
<1> QED BY <1>6, <1>12

\* Without a commit into the book, and with rows read as they are, tallies remain.
ReadAsTheyAre(b) ==
    \A t \in Sessions :
        (WritesTo(t, b))' /\ sessions'[t].row # 0 =>
            \/ /\ WritesTo(t, b) /\ sessions'[t].row = sessions[t].row
               /\ sessions'[t].contracts = sessions[t].contracts
            \/ /\ sessions'[t].row \in DOMAIN books[b]
               /\ sessions'[t].contracts = books[b][sessions'[t].row].contracts

\* A step of one session leaves the others' reads as they are.
LEMMA OneReads ==
    ASSUME BaseInv, NEW b \in Books, NEW s \in Sessions, NEW q,
           sessions' = [sessions EXCEPT ![s] = q],
           \/ q.pc \notin (IF b = "live" THEN {"reconcile"} ELSE {"paper", "written"})
           \/ q.row = 0
           \/ q.row \in DOMAIN books[b] /\ q.contracts = books[b][q.row].contracts
           \/ /\ WritesTo(s, b) /\ q.row = sessions[s].row
              /\ q.contracts = sessions[s].contracts
    PROVE  ReadAsTheyAre(b)
<1> SUFFICES ASSUME NEW t \in Sessions, (WritesTo(t, b))', sessions'[t].row # 0
             PROVE  \/ /\ WritesTo(t, b) /\ sessions'[t].row = sessions[t].row
                       /\ sessions'[t].contracts = sessions[t].contracts
                    \/ /\ sessions'[t].row \in DOMAIN books[b]
                       /\ sessions'[t].contracts = books[b][sessions'[t].row].contracts
    BY DEF ReadAsTheyAre
<1>1. CASE t = s
    <2>1. sessions'[t] = q
        BY <1>1 DEF BaseInv, LedgerTypeOK
    <2> QED BY <2>1 DEF WritesTo
<1>2. CASE t # s
    <2>1. sessions'[t] = sessions[t]
        BY <1>2 DEF BaseInv, LedgerTypeOK
    <2> QED BY <2>1 DEF WritesTo
<1> QED BY <1>1, <1>2

\* Steps that move no session leave the reads as they are.
LEMMA NobodyReads ==
    ASSUME NEW b, UNCHANGED sessions
    PROVE  ReadAsTheyAre(b)
BY DEF ReadAsTheyAre, WritesTo

\* A preview, a reconciliation and a paper execution that begin, and one that writes.
LEMMA BeginsRead ==
    ASSUME BaseInv, NEW b \in Books, NEW s \in Sessions,
           \/ \E o \in Orders : BeginPreview(s, o) \/ BeginPaper(s, o)
           \/ WritePaper(s)
           \/ \E u \in updates : BeginReconcile(s, u)
    PROVE  ReadAsTheyAre(b)
<1>1. ASSUME NEW o \in Orders, BeginPreview(s, o) PROVE ReadAsTheyAre(b)
    <2> DEFINE r == Reading("preview", o)
    <2> DEFINE p == RulesPass(o)
    <2> DEFINE c == (Active = {} /\ \A x \in Orders : ~Outstanding(x))
    <2> DEFINE q == [r EXCEPT !.passed = p, !.calm = c]
    <2>1. r \in SessionStates /\ r.pc = "preview"
        BY ReadingIsState
    <2>2. sessions' = [sessions EXCEPT ![s] = q]
        BY <1>1 DEF BeginPreview
    <2> HIDE DEF r, p, c
    <2>3. q.pc = "preview"
        BY <2>1 DEF SessionStates
    <2> HIDE DEF q
    <2> QED BY <2>2, <2>3, OneReads
<1>2. ASSUME NEW o \in Orders, BeginPaper(s, o) PROVE ReadAsTheyAre(b)
    <2>1. PICK q \in SessionStates :
             /\ sessions' = [sessions EXCEPT ![s] = q] /\ q.pc = "paper"
             /\ q.row # 0 => /\ q.row \in OpenRows("paper", MarketOf[o])
                             /\ q.contracts = books["paper"][q.row].contracts
        BY <1>2, BeginPaperEffect
    <2>2. q.row = 0 \/ /\ q.row \in DOMAIN books["paper"]
                       /\ q.contracts = books["paper"][q.row].contracts
        BY <2>1 DEF OpenRows
    <2> QED BY <2>1, <2>2, OneReads DEF Books
<1>3. ASSUME NEW u \in updates, BeginReconcile(s, u) PROVE ReadAsTheyAre(b)
    <2> DEFINE o == u.order
    <2> DEFINE h == [Reading("reconcile", o) EXCEPT !.update = u]
    <2> DEFINE r == WithPosition(h, "live", MarketOf[o])
    <2> DEFINE q == IF u.count = 0 THEN h ELSE r
    <2>1. sessions' = [sessions EXCEPT ![s] = q]
        BY <1>3 DEF BeginReconcile
    <2>2. u \in Updates /\ o \in Orders
        BY DEF BaseInv, LedgerTypeOK, Updates
    <2>3. /\ h \in SessionStates /\ h.pc = "reconcile" /\ h.row = 0
          /\ h.contracts = 0 /\ h.exposure = 0
        BY <2>2, ReadingIsState DEF SessionStates
    <2>4. LedgerTypeOK /\ "live" \in Books
        BY DEF BaseInv, Books
    <2> HIDE DEF h, o
    <2>5. /\ r.pc = "reconcile"
          /\ OpenRows("live", MarketOf[o]) = {} => r.row = 0
          /\ OpenRows("live", MarketOf[o]) # {} =>
                /\ r.row \in OpenRows("live", MarketOf[o])
                /\ r.contracts = books["live"][r.row].contracts
        BY <2>3, <2>4, PositionIsRead
    <2> HIDE DEF r
    <2>6. q.pc = "reconcile" /\ (q.row = 0 \/ /\ q.row \in DOMAIN books["live"]
                                              /\ q.contracts = books["live"][q.row].contracts)
        <3>1. CASE u.count = 0
            BY <2>3, <3>1
        <3>2. CASE u.count # 0
            BY <2>5, <3>2 DEF OpenRows
        <3> QED BY <3>1, <3>2
    <2> HIDE DEF q
    <2> QED BY <2>1, <2>6, OneReads DEF Books
<1>4. ASSUME WritePaper(s) PROVE ReadAsTheyAre(b)
    <2>1. PICK q \in SessionStates :
             /\ sessions' = [sessions EXCEPT ![s] = q]
             /\ sessions[s].pc = "paper" /\ q.pc = "written"
             /\ q.row = sessions[s].row /\ q.contracts = sessions[s].contracts
        BY <1>4, WritePaperEffect
    <2>2. \/ q.pc \notin (IF b = "live" THEN {"reconcile"} ELSE {"paper", "written"})
          \/ WritesTo(s, b)
        BY <2>1 DEF WritesTo
    <2> QED BY <2>1, <2>2, OneReads
<1> QED BY <1>1, <1>2, <1>3, <1>4

\* What was filled, where neither a fill nor a reconciliation is committed.
LEMMA WrittenSame ==
    ASSUME UNCHANGED applied, UNCHANGED paperFills, NEW b \in Books, NEW m
    PROVE  (Written(b, m))' = Written(b, m)
<1>1. (AppliedFills(m))' = AppliedFills(m)
    BY DEF AppliedFills
<1>2. (PaperFilled(m))' = PaperFilled(m)
    BY DEF PaperFilled
<1> QED BY <1>1, <1>2 DEF Written

\* A reconciled fill is one more for its market, a cancellation for none.
LEMMA WrittenLive ==
    ASSUME BaseInv, NEW s \in Sessions, CommitReconcile(s), NEW m \in Markets
    PROVE  (Written("live", m))' =
              IF m = Target(s) /\ sessions[s].update.count # 0 THEN Written("live", m) + 1
              ELSE Written("live", m)
<1>0. PICK u : u = sessions[s].update
    OBVIOUS
<1> DEFINE n == <<u, TimesApplied(u) + 1>>
<1>1. applied' = applied \cup {n}
    BY <1>0 DEF CommitReconcile
<1>2. u \in Updates /\ u.count \in {0, 1} /\ Target(s) = MarketOf[u.order]
    BY <1>0, ReconcileEffect DEF Updates
<1>3. n \notin applied /\ n[1] = u
    BY NextTime DEF BaseInv
<1> HIDE DEF n
<1>4. CASE u.count = 0 \/ m # Target(s)
    <2>1. (AppliedFills(m))' = AppliedFills(m)
        BY <1>1, <1>2, <1>3, <1>4 DEF AppliedFills
    <2> QED BY <1>0, <1>4, <2>1 DEF Written
<1>5. CASE u.count # 0 /\ m = Target(s)
    <2>1. u.count = 1
        BY <1>2, <1>5
    <2>2. (AppliedFills(m))' = AppliedFills(m) \cup {n}
        BY <1>1, <1>2, <1>3, <1>5, <2>1 DEF AppliedFills
    <2>3. IsFiniteSet(AppliedFills(m)) /\ n \notin AppliedFills(m)
        <3>1. IsFiniteSet(applied) /\ AppliedFills(m) \subseteq applied
            BY DEF BaseInv, ReportsAreSound, AppliedFills
        <3>2. IsFiniteSet(AppliedFills(m))
            BY <3>1, FS_Subset
        <3> QED BY <1>3, <3>1, <3>2
    <2>4. Cardinality((AppliedFills(m))') = Cardinality(AppliedFills(m)) + 1
        BY <2>2, <2>3, FS_AddElement
    <2> QED BY <1>0, <1>5, <2>4 DEF Written
<1> QED BY <1>4, <1>5

\* A paper execution's fill counts for its market.
LEMMA WrittenPaper ==
    ASSUME BaseInv, NEW s \in Sessions, CommitPaper(s), NEW m \in Markets
    PROVE  (Written("paper", m))' =
              IF m = Target(s) THEN Written("paper", m) + sessions[s].fill
              ELSE Written("paper", m)
<1>0. PICK count : count = sessions[s].fill
    OBVIOUS
<1> DEFINE fills == paperFills
<1> DEFINE n == Len(fills) + 1
<1> DEFINE w == [i \in DOMAIN paperFills |-> paperFills[i].count]
<1> DEFINE v == [i \in DOMAIN paperFills' |-> paperFills'[i].count]
<1> DEFINE S == RowsOf(paperFills, m)
<1>1. count \in Nat /\ count # 0 /\ Target(s) = MarketOf[sessions[s].order] /\ Target(s) \in Markets
    BY <1>0, PaperEffect, PricesAreNat
<1>2. paperFills' = Append(paperFills, [market |-> Target(s), count |-> count])
    BY <1>0, <1>1 DEF CommitPaper
<1>3. /\ fills \in Seq(PaperFills) /\ Len(fills) \in Nat /\ DOMAIN fills = 1..Len(fills)
    BY DEF BaseInv, LedgerTypeOK
<1>4. /\ DOMAIN paperFills' = 1..n
      /\ \A i \in DOMAIN fills : paperFills'[i] = fills[i]
      /\ paperFills'[n] = [market |-> Target(s), count |-> count]
    <2>1. [market |-> Target(s), count |-> count] \in PaperFills
        BY <1>1 DEF PaperFills
    <2> DEFINE r == [market |-> Target(s), count |-> count]
    <2> HIDE DEF r
    <2>2. /\ Append(fills, r) \in Seq(PaperFills) /\ Len(Append(fills, r)) = n
          /\ \A i \in 1..Len(fills) : Append(fills, r)[i] = fills[i]
          /\ Append(fills, r)[n] = r
        BY <1>3, <2>1, AppendProperties DEF r
    <2>3. DOMAIN Append(fills, r) = 1..Len(Append(fills, r))
        BY <2>2
    <2> QED BY <1>2, <1>3, <2>2, <2>3 DEF r
<1>5. n \notin DOMAIN fills /\ 1..n = DOMAIN fills \cup {n}
    BY <1>3
<1>6. \A i \in DOMAIN fills : w[i] \in Nat /\ v[i] = w[i]
    <2> TAKE i \in DOMAIN fills
    <2>1. fills[i] \in PaperFills
        BY <1>3, ElementOfSeq
    <2>2. w[i] \in Nat
        BY <2>1 DEF PaperFills
    <2>3. i \in DOMAIN paperFills'
        BY <1>4, <1>5
    <2> QED BY <1>4, <2>2, <2>3
<1>7. n \in DOMAIN paperFills' /\ v[n] = count
    <2>1. n \in DOMAIN paperFills'
        BY <1>4, <1>5
    <2> QED BY <1>4, <2>1
<1>8. IsFiniteSet(S) /\ S \subseteq DOMAIN fills
    <2>1. S \subseteq 1..Len(fills)
        BY <1>3 DEF RowsOf
    <2> DEFINE k == Len(fills)
    <2>2. IsFiniteSet(1..k)
        <3>1. k \in Int /\ 1 \in Int
            BY <1>3
        <3> HIDE DEF k
        <3> QED BY <3>1, FS_Interval
    <2>3. IsFiniteSet(S)
        BY <2>1, <2>2, FS_Subset
    <2> QED BY <1>3, <2>1, <2>3
<1>9. Written("paper", m) = SumFunctionOnSet(w, S)
    BY DEF Written, PaperFilled
<1>10. (Written("paper", m))' = SumFunctionOnSet(v, RowsOf(paperFills', m))
    BY DEF Written, PaperFilled
<1>11. CASE m # Target(s)
    <2>1. RowsOf(paperFills', m) = S
        BY <1>4, <1>5, <1>11 DEF RowsOf
    <2> HIDE DEF v, w, S
    <2>2. SumFunctionOnSet(v, S) = SumFunctionOnSet(w, S)
        BY <1>6, <1>8, SumEqual
    <2> QED BY <1>9, <1>10, <1>11, <2>1, <2>2
<1>12. CASE m = Target(s)
    <2>1. RowsOf(paperFills', m) = S \cup {n}
        BY <1>4, <1>5, <1>12 DEF RowsOf
    <2>2. n \notin S
        BY <1>5, <1>8
    <2>3. \A i \in S : w[i] \in Nat /\ v[i] = w[i]
        BY <1>6, <1>8
    <2> HIDE DEF v, w, S, n
    <2>4. SumFunctionOnSet(v, S \cup {n}) = v[n] + SumFunctionOnSet(w, S)
        BY <1>1, <1>7, <1>8, <2>2, <2>3, SumInserted
    <2>5. SumFunctionOnSet(w, S) \in Nat
        BY <1>8, <2>3, SumIsNat
    <2> DEFINE x == SumFunctionOnSet(w, S)
    <2>6. count + x = x + count
        <3> HIDE DEF x
        <3> QED BY <1>1, <2>5 DEF x
    <2> QED BY <1>0, <1>7, <1>9, <1>10, <1>12, <2>1, <2>4, <2>6
<1> QED BY <1>11, <1>12

\* Neither book, but perhaps what sessions read, changes.
LEMMA TalliesUnmoved ==
    ASSUME BaseInv, BooksAreTallied, BaseInv', UNCHANGED <<books, raced, applied, paperFills>>,
           \A b \in Books : ReadAsTheyAre(b)
    PROVE  BooksAreTallied'
<1> SUFFICES ASSUME NEW b \in Books PROVE \E w \in Seq(Nat) : (Tallies(b, w))'
    BY DEF BooksAreTallied
<1>1. PICK w \in Seq(Nat) : Tallies(b, w)
    BY DEF BooksAreTallied
<1>2. books'[b] \in Seq(Positions)
    BY DEF BaseInv, LedgerTypeOK
<1>3. \A m \in Markets : (Written(b, m))' = Written(b, m)
    BY WrittenSame
<1>4. (Tallies(b, w))'
    BY <1>1, <1>2, <1>3, TallyCarried DEF ReadAsTheyAre
<1> QED BY <1>4

\* A commit into one book leaves it tallied.
LEMMA TalliesCommitted ==
    ASSUME BaseInv, BooksAreTallied, NEW b \in Books, NEW s \in Sessions, WritesTo(s, b),
           NEW count \in Nat, NEW value, Committed(s, b, count, value),
           CommitBook(s, b, Target(s), count, value),
           \A m \in Markets : (Written(b, m))' = IF m = Target(s) THEN Written(b, m) + count
                                                 ELSE Written(b, m)
    PROVE  \E w \in Seq(Nat) : (Tallies(b, w))'
<1>1. PICK w \in Seq(Nat) : Tallies(b, w)
    BY DEF BooksAreTallied
<1>2. CASE sessions[s].row = 0
    <2>1. (Tallies(b, Append(w, count)))'
        BY <1>1, <1>2, TallyAppended
    <2>2. Append(w, count) \in Seq(Nat)
        BY <1>1, AppendProperties
    <2> QED BY <2>1, <2>2
<1>3. CASE sessions[s].row # 0
    BY <1>1, <1>3, TallyRaised
<1> QED BY <1>2, <1>3

\* And the other book.
LEMMA TalliesBeside ==
    ASSUME BaseInv, BooksAreTallied, BaseInv', NEW b \in Books, books'[b] = books[b],
           raced \subseteq raced', \A m \in Markets : (Written(b, m))' = Written(b, m),
           NEW s \in Sessions, sessions' = [sessions EXCEPT ![s] = Idle]
    PROVE  \E w \in Seq(Nat) : (Tallies(b, w))'
<1>1. PICK w \in Seq(Nat) : Tallies(b, w)
    BY DEF BooksAreTallied
<1>2. books'[b] \in Seq(Positions)
    BY DEF BaseInv, LedgerTypeOK
<1>3. ReadAsTheyAre(b)
    <2> DEFINE q == Idle
    <2>1. q.row = 0
        BY IdleIsState
    <2> HIDE DEF q
    <2> QED BY <2>1, OneReads DEF q
<1>4. (Tallies(b, w))'
    BY <1>1, <1>2, <1>3, TallyCarried DEF ReadAsTheyAre
<1> QED BY <1>4

\* The tally of the books is inductive: every step adds to it what it adds to the books.
LEMMA TalliesKept ==
    ASSUME BaseInv, BooksAreTallied, BaseInv', [LedgerNext]_ledgerVars
    PROVE  BooksAreTallied'
<1>1. ASSUME NEW s \in Sessions, CommitReconcile(s)
      PROVE  BooksAreTallied'
    <2> DEFINE u == sessions[s].update
    <2>1. /\ WritesTo(s, "live") /\ u.price \in Nat
          /\ u.count = 0 => books' = books /\ raced' = raced
          /\ u.count # 0 => /\ CommitBook(s, "live", Target(s), 1, u.price)
                            /\ Committed(s, "live", 1, u.price)
          /\ sessions' = [sessions EXCEPT ![s] = Idle]
        BY <1>1, ReconcileEffect
    <2>2. raced \subseteq raced'
        BY <2>1 DEF CommitBook
    <2>3. \A m \in Markets : (Written("paper", m))' = Written("paper", m)
        <3>1. UNCHANGED paperFills
            BY <1>1 DEF CommitReconcile
        <3>2. ASSUME NEW m \in Markets PROVE (PaperFilled(m))' = PaperFilled(m)
            BY <3>1 DEF PaperFilled
        <3> QED BY <3>2 DEF Written
    <2>4. books'["paper"] = books["paper"]
        BY <2>1 DEF Committed, Books
    <2>5. \E w \in Seq(Nat) : (Tallies("paper", w))'
        BY <2>1, <2>2, <2>3, <2>4, TalliesBeside DEF Books
    <2>6. \E w \in Seq(Nat) : (Tallies("live", w))'
        <3>1. CASE u.count = 0
            <4>1. \A m \in Markets : (Written("live", m))' = Written("live", m)
                BY <1>1, <3>1, WrittenLive
            <4>2. books'["live"] = books["live"]
                BY <2>1, <3>1
            <4> QED BY <2>1, <2>2, <4>1, <4>2, TalliesBeside DEF Books
        <3>2. CASE u.count # 0
            <4>1. \A m \in Markets :
                     (Written("live", m))' = IF m = Target(s) THEN Written("live", m) + 1
                                             ELSE Written("live", m)
                BY <1>1, <3>2, WrittenLive
            <4>2. PICK v : v = u.price
                OBVIOUS
            <4>3. CommitBook(s, "live", Target(s), 1, v) /\ Committed(s, "live", 1, v)
                BY <2>1, <3>2, <4>2
            <4>4. "live" \in Books /\ 1 \in Nat
                BY DEF Books
            <4> QED BY <2>1, <4>1, <4>3, <4>4, TalliesCommitted
        <3> QED BY <3>1, <3>2
    <2> QED BY <2>5, <2>6 DEF BooksAreTallied, Books
<1>2. ASSUME NEW s \in Sessions, CommitPaper(s)
      PROVE  BooksAreTallied'
    <2>1. /\ sessions[s].fill \in Nat /\ WritesTo(s, "paper")
          /\ sessions' = [sessions EXCEPT ![s] = Idle]
        BY <1>2, PaperEffect
    <2>2. PICK value \in Nat : /\ CommitBook(s, "paper", Target(s), sessions[s].fill, value)
                               /\ Committed(s, "paper", sessions[s].fill, value)
        BY <1>2, PaperEffect
    <2>3. \A m \in Markets : (Written("live", m))' = Written("live", m)
        <3>1. UNCHANGED applied
            BY <1>2 DEF CommitPaper
        <3>2. ASSUME NEW m \in Markets PROVE (AppliedFills(m))' = AppliedFills(m)
            BY <3>1 DEF AppliedFills
        <3> QED BY <3>2 DEF Written
    <2>4. books'["live"] = books["live"] /\ raced \subseteq raced'
        BY <2>2 DEF Committed, CommitBook, Books
    <2>5. \E w \in Seq(Nat) : (Tallies("live", w))'
        BY <2>1, <2>3, <2>4, TalliesBeside DEF Books
    <2>6. \E w \in Seq(Nat) : (Tallies("paper", w))'
        <3>1. PICK n : n = sessions[s].fill
            OBVIOUS
        <3>2. \A m \in Markets :
                 (Written("paper", m))' = IF m = Target(s) THEN Written("paper", m) + n
                                          ELSE Written("paper", m)
            BY <1>2, <3>1, WrittenPaper
        <3>3. /\ n \in Nat /\ "paper" \in Books
              /\ CommitBook(s, "paper", Target(s), n, value) /\ Committed(s, "paper", n, value)
            BY <2>1, <2>2, <3>1 DEF Books
        <3> QED BY <2>1, <3>2, <3>3, TalliesCommitted
    <2> QED BY <2>5, <2>6 DEF BooksAreTallied, Books
<1>3. ASSUME NEW i \in DOMAIN books["live"], Age(i) \/ \E lost \in BOOLEAN : ClosePosition(i, lost)
      PROVE  BooksAreTallied'
    <2>1. PICK lost : Settled(i, lost)
        BY <1>3, AgeEffect, CloseEffect DEF BaseInv
    <2>2. UNCHANGED <<raced, applied, paperFills, sessions>>
        BY <1>3 DEF Age, ClosePosition
    <2>3. ASSUME NEW b \in Books PROVE \E w \in Seq(Nat) : (Tallies(b, w))'
        <3>1. PICK w \in Seq(Nat) : Tallies(b, w)
            BY DEF BooksAreTallied
        <3>2. /\ books'[b] \in Seq(Positions) /\ Len(books'[b]) = Len(books[b])
              /\ \A j \in DOMAIN books[b] :
                    /\ books'[b][j].market = books[b][j].market
                    /\ books'[b][j].contracts = books[b][j].contracts
            <4>1. CASE b = "paper"
                BY <2>1, <4>1 DEF Settled, BaseInv, LedgerTypeOK
            <4>2. CASE b = "live"
                <5>1. books'[b] \in Seq(Positions) /\ Len(books'[b]) = Len(books[b])
                    BY <2>1, <4>2 DEF Settled, Books
                <5>2. ASSUME NEW j \in DOMAIN books[b]
                      PROVE  /\ books'[b][j].market = books[b][j].market
                             /\ books'[b][j].contracts = books[b][j].contracts
                    <6>1. CASE j = i
                        BY <2>1, <4>2, <6>1 DEF Settled
                    <6>2. CASE j # i
                        BY <2>1, <4>2, <6>2 DEF Settled
                    <6> QED BY <6>1, <6>2
                <5> QED BY <5>1, <5>2
            <4> QED BY <4>1, <4>2 DEF Books
        <3>3. \A m \in Markets : (Written(b, m))' = Written(b, m)
            BY <2>2, WrittenSame
        <3>4. ReadAsTheyAre(b)
            BY <2>2, NobodyReads
        <3>5. raced \subseteq raced'
            BY <2>2
        <3>6. (Tallies(b, w))'
            BY <3>1, <3>2, <3>3, <3>4, <3>5, TallyCarried DEF ReadAsTheyAre
        <3> QED BY <3>6
    <2> QED BY <2>3 DEF BooksAreTallied
<1>4. ASSUME NEW s \in Sessions, NEW o \in Orders, BeginPreview(s, o) \/ BeginPaper(s, o)
      PROVE  BooksAreTallied'
    <2>1. UNCHANGED <<books, raced, applied, paperFills>>
        BY <1>4 DEF BeginPreview, BeginPaper
    <2> QED BY <1>4, <2>1, BeginsRead, TalliesUnmoved
<1>5. ASSUME NEW s \in Sessions, NEW u \in updates, BeginReconcile(s, u)
      PROVE  BooksAreTallied'
    <2>1. UNCHANGED <<books, raced, applied, paperFills>>
        BY <1>5 DEF BeginReconcile
    <2> QED BY <1>5, <2>1, BeginsRead, TalliesUnmoved
<1>6. ASSUME NEW s \in Sessions, CommitPreview(s)
      PROVE  BooksAreTallied'
    <2>1. UNCHANGED <<books, raced, applied, paperFills>>
        BY <1>6 DEF CommitPreview
    <2>2. \A b \in Books : ReadAsTheyAre(b)
        <3> DEFINE q == Idle
        <3>1. sessions' = [sessions EXCEPT ![s] = q] /\ q.row = 0
            BY <1>6, IdleIsState DEF CommitPreview
        <3> HIDE DEF q
        <3> QED BY <3>1, OneReads
    <2> QED BY <2>1, <2>2, TalliesUnmoved
<1>7. ASSUME UNCHANGED <<books, raced, applied, paperFills, sessions>>
      PROVE  BooksAreTallied'
    BY <1>7, NobodyReads, TalliesUnmoved
<1>8. ASSUME NEW o \in Orders, Place(o) \/ ExchangeFill(o) \/ ExchangeCancel(o)
      PROVE  BooksAreTallied'
    BY <1>7, <1>8 DEF Place, ExchangeFill, ExchangeCancel
<1>9. ASSUME NEW m \in Markets, NEW state \in MarketStates, Observe(m, state)
      PROVE  BooksAreTallied'
    BY <1>7, <1>9 DEF Observe
<1>10. CASE UNCHANGED ledgerVars
    BY <1>7, <1>10 DEF ledgerVars
<1>11. ASSUME NEW s \in Sessions, WritePaper(s)
      PROVE  BooksAreTallied'
    <2>1. UNCHANGED <<books, raced, applied, paperFills>>
        BY <1>11 DEF WritePaper
    <2> QED BY <1>11, <2>1, BeginsRead, TalliesUnmoved
<1> QED BY <1>1, <1>2, <1>3, <1>4, <1>5, <1>6, <1>8, <1>9, <1>10, <1>11
        DEF LedgerNext, LedgerSteps

\* Nothing is filled at first.
LEMMA TalliesBegin ==
    ASSUME LedgerInit
    PROVE  BooksAreTallied
<1> SUFFICES ASSUME NEW b \in Books PROVE \E w \in Seq(Nat) : Tallies(b, w)
    BY DEF BooksAreTallied
<1>1. BaseInv
    BY BaseBegins
<1>2. books[b] = <<>> /\ applied = {} /\ paperFills = <<>>
    BY DEF LedgerInit
<1>3. ASSUME NEW m PROVE Written(b, m) = 0 /\ SumFunctionOnSet(<<>>, RowsOf(books[b], m)) = 0
    <2>1. RowsOf(books[b], m) = {} /\ RowsOf(paperFills, m) = {} /\ AppliedFills(m) = {}
        BY <1>2 DEF RowsOf, AppliedFills
    <2>2. \A w : SumFunctionOnSet(w, {}) = 0
        BY FS_EmptySet, SumSteps
    <2>3. Cardinality({}) = 0
        BY FS_EmptySet
    <2> QED BY <2>1, <2>2, <2>3 DEF Written, PaperFilled
<1>4. \A s \in Sessions : ~WritesTo(s, b)
    BY IdleIsState DEF LedgerInit, WritesTo
<1>5. <<>> \in Seq(Nat) /\ Len(<<>>) = 0 /\ DOMAIN books[b] = {}
    BY <1>2
<1>6. Tallies(b, <<>>)
    BY <1>2, <1>3, <1>4, <1>5 DEF Tallies
<1> QED BY <1>5, <1>6

\* Tallied books hold no more than what was filled, and just that where none raced.
LEMMA TalliedMatches ==
    ASSUME BaseInv, NEW b \in Books, NEW w, Tallies(b, w), NEW m \in Markets
    PROVE  /\ ContractsOver(books[b], RowsOf(books[b], m)) <= Written(b, m)
           /\ <<b, m>> \notin raced =>
                 ContractsOver(books[b], RowsOf(books[b], m)) = Written(b, m)
<1> DEFINE rows == books[b]
<1> DEFINE S == RowsOf(rows, m)
<1> DEFINE c == [i \in DOMAIN rows |-> rows[i].contracts]
<1>1. ContractsOver(rows, S) = SumFunctionOnSet(c, S) /\ SumFunctionOnSet(w, S) = Written(b, m)
    BY DEF ContractsOver, Tallies
<1>2. IsFiniteSet(S) /\ S \subseteq DOMAIN rows
    BY TallyIsSound
<1>3. \A i \in S : c[i] \in Nat /\ w[i] \in Nat /\ c[i] <= w[i]
    BY <1>2, TallyIsSound DEF Tallies
<1>4. <<b, m>> \notin raced => \A i \in S : c[i] = w[i]
    BY <1>2 DEF Tallies, RowsOf
<1> HIDE DEF c, S, rows
<1>5. SumFunctionOnSet(c, S) <= SumFunctionOnSet(w, S)
    BY <1>2, <1>3, SumNoMore
<1>6. <<b, m>> \notin raced => SumFunctionOnSet(c, S) = SumFunctionOnSet(w, S)
    BY <1>2, <1>4, SumEqual
<1> QED BY <1>1, <1>5, <1>6 DEF S, rows

\* A fill can be lost when sessions race, but the positions of a market never hold
\* more contracts than its fills, and just as many where no commit wrote over a newer
\* row (reconcile, _upsert_paper_position).
THEOREM BooksHoldFills == LedgerSpec => []BooksMatchFills
<1>1. LedgerInit => BooksAreTallied
    BY TalliesBegin
<1>2. BaseInv /\ BaseInv' /\ BooksAreTallied /\ [LedgerNext]_ledgerVars => BooksAreTallied'
    BY TalliesKept
<1>3. BaseInv /\ BooksAreTallied => BooksMatchFills
    <2> SUFFICES ASSUME BaseInv, BooksAreTallied, NEW m \in Markets
                 PROVE  \A b \in Books :
                          /\ ContractsOver(books[b], RowsOf(books[b], m)) <= Written(b, m)
                          /\ <<b, m>> \notin raced =>
                                ContractsOver(books[b], RowsOf(books[b], m)) = Written(b, m)
        BY DEF BooksMatchFills, Books, Written
    <2> TAKE b \in Books
    <2>1. PICK w \in Seq(Nat) : Tallies(b, w)
        BY DEF BooksAreTallied
    <2> QED BY <2>1, TalliedMatches
<1> QED BY <1>1, <1>2, <1>3, BaseInvariance, PTL DEF LedgerSpec

-----------------------------------------------------------------------------
(* Careful use stays within the limits. *)

\* The limits are natural numbers.
LEMMA LimitsAreNat ==
    MarketLimit \in Nat /\ CategoryLimit \in Nat /\ PositionLimit \in Nat
BY LimitsAssumption

\* What is at stake over rows of which only these changed.
LEMMA ExposureOfFewer ==
    ASSUME NEW rows \in Seq(Positions), NEW R \in Seq(Positions), Len(R) = Len(rows),
           NEW S \in SUBSET DOMAIN rows, NEW T \in SUBSET S,
           \A i \in T : R[i].exposure = rows[i].exposure
    PROVE  ExposureOver(R, T) <= ExposureOver(rows, S)
<1> DEFINE w == [i \in DOMAIN rows |-> rows[i].exposure]
<1> DEFINE v == [i \in DOMAIN R |-> R[i].exposure]
<1>1. DOMAIN R = DOMAIN rows
    OBVIOUS
<1>2. IsFiniteSet(S) /\ IsFiniteSet(T)
    <2>1. T \in SUBSET DOMAIN rows
        OBVIOUS
    <2> QED BY <2>1, ExposureIsNat
<1>3. \A i \in S : w[i] \in Nat
    <2> TAKE i \in S
    <2>1. rows[i] \in Positions
        BY ElementOfSeq
    <2> QED BY <2>1 DEF Positions
<1>4. \A i \in T : v[i] = w[i]
    BY <1>1
<1> HIDE DEF v, w
<1>5. SumFunctionOnSet(v, T) = SumFunctionOnSet(w, T)
    BY <1>2, <1>4, SumEqual
<1>6. SumFunctionOnSet(w, T) <= SumFunctionOnSet(w, S)
    BY <1>2, <1>3, SumOfFewer
<1> QED BY <1>5, <1>6 DEF ExposureOver, v, w

\* One more row adds its exposure to the sum.
LEMMA ExposureOfMore ==
    ASSUME NEW rows \in Seq(Positions), NEW R \in Seq(Positions), NEW n \in DOMAIN R,
           NEW S \in SUBSET DOMAIN rows, S \subseteq DOMAIN R, n \notin S,
           \A i \in S : R[i].exposure = rows[i].exposure
    PROVE  ExposureOver(R, S \cup {n}) = R[n].exposure + ExposureOver(rows, S)
<1> DEFINE w == [i \in DOMAIN rows |-> rows[i].exposure]
<1> DEFINE v == [i \in DOMAIN R |-> R[i].exposure]
<1>1. IsFiniteSet(S)
    BY ExposureIsNat
<1>2. \A i \in S : w[i] \in Nat /\ v[i] = w[i]
    <2> TAKE i \in S
    <2>1. rows[i] \in Positions
        BY ElementOfSeq
    <2> QED BY <2>1 DEF Positions
<1>3. v[n] = R[n].exposure /\ v[n] \in Nat
    <2>1. R[n] \in Positions
        BY ElementOfSeq
    <2> QED BY <2>1 DEF Positions
<1> HIDE DEF v, w
<1>4. SumFunctionOnSet(v, S \cup {n}) = v[n] + SumFunctionOnSet(w, S)
    BY <1>1, <1>2, <1>3, SumInserted
<1> QED BY <1>3, <1>4 DEF ExposureOver, v, w

\* Raising the exposure of one row raises the sum by as much.
LEMMA ExposureRaised ==
    ASSUME NEW rows \in Seq(Positions), NEW R \in Seq(Positions), Len(R) = Len(rows),
           NEW S \in SUBSET DOMAIN rows, NEW i \in S, NEW cents \in Nat,
           R[i].exposure = rows[i].exposure + cents,
           \A j \in S \ {i} : R[j].exposure = rows[j].exposure
    PROVE  ExposureOver(R, S) = ExposureOver(rows, S) + cents
<1> DEFINE w == [j \in DOMAIN rows |-> rows[j].exposure]
<1> DEFINE v == [j \in DOMAIN R |-> R[j].exposure]
<1>1. IsFiniteSet(S) /\ DOMAIN R = DOMAIN rows
    BY ExposureIsNat
<1>2. \A j \in S : w[j] \in Nat
    <2> TAKE j \in S
    <2>1. rows[j] \in Positions
        BY ElementOfSeq
    <2> QED BY <2>1 DEF Positions
<1>3. v[i] = w[i] + cents /\ \A j \in S \ {i} : v[j] = w[j]
    BY <1>1
<1> HIDE DEF v, w
<1>4. SumFunctionOnSet(v, S) = SumFunctionOnSet(w, S) + cents
    BY <1>1, <1>2, <1>3, SumRaised
<1> QED BY <1>4 DEF ExposureOver, v, w

\* The open rows of the live book, and what is at stake in them.
LEMMA LiveIsSound ==
    ASSUME BaseInv
    PROVE  /\ books["live"] \in Seq(Positions) /\ Len(books["live"]) \in Nat
           /\ DOMAIN books["live"] = 1..Len(books["live"])
           /\ OpenLive \in SUBSET DOMAIN books["live"] /\ IsFiniteSet(OpenLive)
           /\ Cardinality(OpenLive) \in Nat
           /\ LiveExposure \in Nat
           /\ \A m : /\ OpenRows("live", m) \in SUBSET OpenLive
                     /\ OpenRows("live", m) \in SUBSET DOMAIN books["live"]
                     /\ MarketExposure(m) \in Nat
<1>1. books["live"] \in Seq(Positions)
    BY DEF BaseInv, LedgerTypeOK, Books
<1>2. OpenLive \in SUBSET DOMAIN books["live"]
    BY DEF OpenLive
<1>3. IsFiniteSet(OpenLive) /\ LiveExposure \in Nat
    BY <1>1, <1>2, ExposureIsNat DEF LiveExposure
<1>4. Cardinality(OpenLive) \in Nat
    BY <1>3, FS_CardinalityType
<1>5. ASSUME NEW m
      PROVE  /\ OpenRows("live", m) \in SUBSET OpenLive
             /\ OpenRows("live", m) \in SUBSET DOMAIN books["live"]
             /\ MarketExposure(m) \in Nat
    <2>1. OpenRows("live", m) \in SUBSET OpenLive /\ OpenRows("live", m) \in SUBSET DOMAIN books["live"]
        BY DEF OpenRows, OpenLive
    <2>2. MarketExposure(m) \in Nat
        BY <1>1, <2>1, ExposureIsNat DEF MarketExposure
    <2> QED BY <2>1, <2>2
<1>6. Len(books["live"]) \in Nat /\ DOMAIN books["live"] = 1..Len(books["live"])
    BY <1>1
<1> QED BY <1>1, <1>2, <1>3, <1>4, <1>5, <1>6

\* The same figures before and after a step.
LiveFigures ==
    /\ Cardinality(OpenLive) \in Nat /\ LiveExposure \in Nat
    /\ \A m \in Markets : MarketExposure(m) \in Nat

\* The figures of the live book are natural numbers.
LEMMA FiguresAreNat == BaseInv => LiveFigures
BY LiveIsSound DEF LiveFigures

\* They are after the step, too.
LEMMA FiguresStayNat == BaseInv' => LiveFigures'
BY FiguresAreNat, PTL

\* Room for more is room for less.
LEMMA RoomForLess ==
    ASSUME BaseInv, NEW o, NEW a \in Nat, NEW b \in Nat, b <= a, HasRoom(o, a)
    PROVE  HasRoom(o, b)
<1> DEFINE x == MarketExposure(MarketOf[o])
<1> DEFINE y == LiveExposure
<1>1. x \in Nat /\ y \in Nat
    BY LiveIsSound
<1>2. x + a <= MarketLimit /\ (Catalogued = {} => y + a <= CategoryLimit)
    BY DEF HasRoom
<1> HIDE DEF x, y
<1>3. x + b <= MarketLimit
    BY <1>1, <1>2, LimitsAreNat
<1>4. ASSUME Catalogued = {} PROVE y + b <= CategoryLimit
    <2>1. y + a <= CategoryLimit
        BY <1>2, <1>4
    <2> QED BY <1>1, <2>1, LimitsAreNat
<1> QED BY <1>3, <1>4 DEF HasRoom, x, y

\* The figures after a close or an ageing: fewer rows are open.
LEMMA SettledRows ==
    ASSUME BaseInv, BaseInv', NEW i, NEW lost, Settled(i, lost)
    PROVE  /\ OpenLive' = OpenLive \ {i}
           /\ \A m \in Markets : /\ (OpenRows("live", m))' = OpenRows("live", m) \ {i}
                                 /\ (MarketExposure(m))' <= MarketExposure(m)
           /\ LiveExposure' <= LiveExposure
<1> DEFINE rows == books["live"]
<1> DEFINE R == books'["live"]
<1>1. /\ rows \in Seq(Positions) /\ R \in Seq(Positions) /\ Len(R) = Len(rows)
      /\ i \in DOMAIN rows /\ DOMAIN R = DOMAIN rows
    BY LiveIsSound DEF Settled, Books
<1>2. \A j \in DOMAIN rows : R[j].exposure = rows[j].exposure /\ R[j].market = rows[j].market
    BY DEF Settled
<1>3. \A j \in DOMAIN rows : IsOpen(R[j]) <=> IsOpen(rows[j]) /\ j # i
    BY DEF Settled, IsOpen
<1>4. OpenLive' = OpenLive \ {i}
    BY <1>1, <1>3 DEF OpenLive
<1>5. ASSUME NEW m \in Markets
      PROVE  (OpenRows("live", m))' = OpenRows("live", m) \ {i}
    BY <1>1, <1>2, <1>3 DEF OpenRows
<1>6. ASSUME NEW m \in Markets PROVE (MarketExposure(m))' <= MarketExposure(m)
    <2> DEFINE S == OpenRows("live", m)
    <2> DEFINE T == OpenRows("live", m) \ {i}
    <2>1. S \in SUBSET DOMAIN rows /\ T \in SUBSET S
        BY LiveIsSound
    <2>2. \A j \in T : R[j].exposure = rows[j].exposure
        BY <1>2, <2>1
    <2> HIDE DEF S, T, rows, R
    <2>3. ExposureOver(R, T) <= ExposureOver(rows, S)
        BY <1>1, <2>1, <2>2, ExposureOfFewer
    <2> QED BY <1>5, <2>3 DEF MarketExposure, S, T, rows, R
<1>7. LiveExposure' <= LiveExposure
    <2> DEFINE S == OpenLive
    <2> DEFINE T == OpenLive \ {i}
    <2>1. S \in SUBSET DOMAIN rows /\ T \in SUBSET S
        BY LiveIsSound
    <2>2. \A j \in T : R[j].exposure = rows[j].exposure
        BY <1>2, <2>1
    <2> HIDE DEF S, T, rows, R
    <2>3. ExposureOver(R, T) <= ExposureOver(rows, S)
        BY <1>1, <2>1, <2>2, ExposureOfFewer
    <2> QED BY <1>4, <2>3 DEF LiveExposure, S, T, rows, R
<1> QED BY <1>4, <1>5, <1>6, <1>7

\* And the room that is left is no less.
LEMMA SettledRoom ==
    ASSUME BaseInv, BaseInv', NEW i, NEW lost, Settled(i, lost)
    PROVE  /\ LimitsHold => LimitsHold'
           /\ \A o \in Orders, cents \in Nat : HasRoom(o, cents) => (HasRoom(o, cents))'
           /\ Cardinality(OpenLive') <= Cardinality(OpenLive)
<1>1. Cardinality(OpenLive') <= Cardinality(OpenLive)
    <2>1. OpenLive' \subseteq OpenLive /\ IsFiniteSet(OpenLive)
        BY LiveIsSound, SettledRows
    <2> QED BY <2>1, FS_Subset
<1> DEFINE x == Cardinality(OpenLive)
<1> DEFINE y == Cardinality(OpenLive')
<1> DEFINE e == LiveExposure
<1> DEFINE f == LiveExposure'
<1>2. x \in Nat /\ y \in Nat /\ y <= x /\ e \in Nat /\ f \in Nat /\ f <= e
    BY <1>1, SettledRows, FiguresAreNat, FiguresStayNat DEF LiveFigures
<1>3. ASSUME NEW cents \in Nat, e + cents <= CategoryLimit PROVE f + cents <= CategoryLimit
    <2> HIDE DEF e, f
    <2> QED BY <1>2, <1>3, LimitsAreNat
<1>4. ASSUME NEW cents \in Nat, NEW m \in Markets, MarketExposure(m) + cents <= MarketLimit
      PROVE  (MarketExposure(m))' + cents <= MarketLimit
    <2> DEFINE g == MarketExposure(m)
    <2> DEFINE h == (MarketExposure(m))'
    <2>1. g \in Nat /\ h \in Nat /\ h <= g /\ g + cents <= MarketLimit
        BY <1>4, SettledRows, FiguresAreNat, FiguresStayNat DEF LiveFigures
    <2>2. h + cents <= MarketLimit
        <3> HIDE DEF g, h
        <3> QED BY <2>1, LimitsAreNat
    <2> QED BY <2>2
<1>5. ASSUME x <= PositionLimit PROVE y <= PositionLimit
    <2> HIDE DEF x, y
    <2> QED BY <1>2, <1>5, LimitsAreNat
<1>6. ASSUME NEW o \in Orders, NEW cents \in Nat, HasRoom(o, cents)
      PROVE  (HasRoom(o, cents))'
    <2> DEFINE m == MarketOf[o]
    <2>1. m \in Markets
        BY PricesAreNat
    <2>2. (MarketExposure(m))' + cents <= MarketLimit
        BY <1>4, <1>6, <2>1 DEF HasRoom
    <2>3. Catalogued = {} => f + cents <= CategoryLimit
        BY <1>3, <1>6 DEF HasRoom
    <2>4. y <= PositionLimit
        BY <1>5, <1>6 DEF HasRoom
    <2>5. ASSUME (OpenRows("live", m))' = {} PROVE y < PositionLimit
        <3>1. CASE OpenRows("live", m) = {}
            <4>1. x < PositionLimit
                BY <1>6, <3>1 DEF HasRoom
            <4> HIDE DEF x, y
            <4> QED BY <1>2, <4>1, LimitsAreNat
        <3>2. CASE OpenRows("live", m) # {}
            <4>1. i \in OpenRows("live", m)
                BY <2>1, <2>5, <3>2, SettledRows
            <4>2. i \in OpenLive
                BY <4>1, LiveIsSound
            <4>3. y = x - 1
                <5>1. OpenLive' = OpenLive \ {i} /\ IsFiniteSet(OpenLive)
                    BY LiveIsSound, SettledRows
                <5> QED BY <4>2, <5>1, FS_RemoveElement
            <4>4. x <= PositionLimit
                BY <1>6 DEF HasRoom
            <4> HIDE DEF x, y
            <4> QED BY <1>2, <4>3, <4>4, LimitsAreNat
        <3> QED BY <3>1, <3>2
    <2> QED BY <2>2, <2>3, <2>4, <2>5 DEF HasRoom
<1>7. ASSUME LimitsHold PROVE LimitsHold'
    <2>1. ASSUME NEW m \in Markets PROVE (MarketExposure(m))' <= MarketLimit
        <3> DEFINE g == MarketExposure(m)
        <3> DEFINE h == (MarketExposure(m))'
        <3>1. g \in Nat /\ h \in Nat /\ h <= g /\ g <= MarketLimit
            BY <1>7, SettledRows, FiguresAreNat, FiguresStayNat DEF LimitsHold, LiveFigures
        <3>2. h <= MarketLimit
            <4> HIDE DEF g, h
            <4> QED BY <3>1, LimitsAreNat
        <3> QED BY <3>2
    <2>2. ASSUME Catalogued = {} PROVE f <= CategoryLimit
        <3>1. e <= CategoryLimit
            BY <1>7, <2>2 DEF LimitsHold
        <3> HIDE DEF e, f
        <3> QED BY <1>2, <3>1, LimitsAreNat
    <2>3. y <= PositionLimit
        BY <1>5, <1>7 DEF LimitsHold
    <2> QED BY <2>1, <2>2, <2>3 DEF LimitsHold
<1> QED BY <1>1, <1>6, <1>7

\* What a reconciled fill makes of the figures, if what its session read is current.
FilledFigures(m, cents) ==
    /\ (MarketExposure(m))' <= MarketExposure(m) + cents
    /\ \A k \in Markets : k # m => (MarketExposure(k))' <= MarketExposure(k)
    /\ LiveExposure' <= LiveExposure + cents
    /\ \/ OpenLive' = OpenLive /\ (OpenRows("live", m))' = OpenRows("live", m)
       \/ /\ OpenRows("live", m) = {} /\ (OpenRows("live", m))' # {}
          /\ Cardinality(OpenLive') = Cardinality(OpenLive) + 1

\* A new position is opened, or an open or closed one is written.
LEMMA FillOpens ==
    ASSUME BaseInv, BaseInv', NEW s \in Sessions, NEW m \in Markets, m = Target(s),
           NEW cents \in Nat, Committed(s, "live", 1, cents), sessions[s].row = 0,
           OpenRows("live", m) = {}
    PROVE  /\ (MarketExposure(m))' <= MarketExposure(m) + cents
           /\ \A k \in Markets : k # m => (MarketExposure(k))' <= MarketExposure(k)
           /\ LiveExposure' <= LiveExposure + cents
           /\ (OpenRows("live", m))' # {}
           /\ Cardinality(OpenLive') = Cardinality(OpenLive) + 1
<1> DEFINE rows == books["live"]
<1> DEFINE R == books'["live"]
<1> DEFINE n == Len(rows) + 1
<1>1. /\ rows \in Seq(Positions) /\ R \in Seq(Positions) /\ Len(R) = n /\ Len(rows) \in Nat
      /\ DOMAIN rows = 1..Len(rows) /\ DOMAIN R = 1..n
      /\ \A j \in DOMAIN rows : R[j] = rows[j]
      /\ R[n].market = m /\ R[n].age = "open" /\ R[n].exposure = cents
    BY LiveIsSound DEF Committed, Books
<1>2. n \notin DOMAIN rows /\ DOMAIN R = DOMAIN rows \cup {n} /\ n \in DOMAIN R
    BY <1>1
<1> HIDE DEF n
<1>3. OpenLive' = OpenLive \cup {n}
    BY <1>1, <1>2 DEF OpenLive, IsOpen
<1>4. (OpenRows("live", m))' = {n}
    <2>1. (OpenRows("live", m))' = OpenRows("live", m) \cup {n}
        BY <1>1, <1>2 DEF OpenRows, IsOpen
    <2> QED BY <2>1
<1>5. ASSUME NEW k \in Markets, k # m
      PROVE  (MarketExposure(k))' <= MarketExposure(k)
    <2>1. (OpenRows("live", k))' = OpenRows("live", k)
        BY <1>1, <1>2, <1>5 DEF OpenRows, IsOpen
    <2> DEFINE S == OpenRows("live", k)
    <2>2. S \in SUBSET DOMAIN rows /\ S \in SUBSET DOMAIN R
        BY <1>2, LiveIsSound
    <2> DEFINE w == [i \in DOMAIN rows |-> rows[i].exposure]
    <2> DEFINE v == [i \in DOMAIN R |-> R[i].exposure]
    <2>3. \A i \in S : v[i] = w[i]
        BY <1>1, <2>2
    <2>4. IsFiniteSet(S)
        BY <1>1, <2>2, ExposureIsNat
    <2> HIDE DEF v, w, S
    <2>5. SumFunctionOnSet(v, S) = SumFunctionOnSet(w, S)
        BY <2>3, <2>4, SumEqual
    <2>6. (MarketExposure(k))' = MarketExposure(k)
        BY <2>1, <2>5 DEF MarketExposure, ExposureOver, v, w, S
    <2> DEFINE g == MarketExposure(k)
    <2>7. g <= g
        <3>1. g \in Nat
            BY FiguresAreNat DEF LiveFigures
        <3> HIDE DEF g
        <3> QED BY <3>1
    <2> QED BY <2>6, <2>7
<1>6. LiveExposure' <= LiveExposure + cents
    <2> DEFINE S == OpenLive
    <2>1. S \in SUBSET DOMAIN rows /\ S \subseteq DOMAIN R /\ n \notin S
        BY <1>2, LiveIsSound
    <2>2. \A i \in S : R[i].exposure = rows[i].exposure
        BY <1>1, <2>1
    <2> HIDE DEF S, R, rows
    <2>3. ExposureOver(R, S \cup {n}) = R[n].exposure + ExposureOver(rows, S)
        BY <1>1, <1>2, <2>1, <2>2, ExposureOfMore
    <2> DEFINE g == ExposureOver(rows, S)
    <2>4. LiveExposure' = cents + g /\ g \in Nat
        BY <1>1, <1>3, <2>1, <2>3, ExposureIsNat DEF LiveExposure, S, R, rows
    <2>5. LiveExposure = g
        BY DEF LiveExposure, S, R, rows
    <2>6. cents + g <= g + cents
        <3> HIDE DEF g
        <3> QED BY <2>4
    <2> QED BY <2>4, <2>5, <2>6
<1>7. (MarketExposure(m))' <= MarketExposure(m) + cents
    <2> DEFINE S == OpenRows("live", m)
    <2>1. S \in SUBSET DOMAIN rows /\ S \subseteq DOMAIN R /\ n \notin S
        BY <1>2
    <2>2. \A i \in S : R[i].exposure = rows[i].exposure
        BY <1>1, <2>1
    <2>3. (OpenRows("live", m))' = S \cup {n}
        BY <1>4
    <2> HIDE DEF S, R, rows
    <2>4. ExposureOver(R, S \cup {n}) = R[n].exposure + ExposureOver(rows, S)
        BY <1>1, <1>2, <2>1, <2>2, ExposureOfMore
    <2> DEFINE g == ExposureOver(rows, S)
    <2>5. (MarketExposure(m))' = cents + g /\ g \in Nat
        BY <1>1, <2>1, <2>3, <2>4, ExposureIsNat DEF MarketExposure, R, rows
    <2>6. MarketExposure(m) = g
        BY DEF MarketExposure, S, R, rows
    <2>7. cents + g <= g + cents
        <3> HIDE DEF g
        <3> QED BY <2>5
    <2> QED BY <2>5, <2>6, <2>7
<1>8. Cardinality(OpenLive') = Cardinality(OpenLive) + 1
    <2>1. n \notin OpenLive /\ IsFiniteSet(OpenLive)
        BY <1>2, LiveIsSound
    <2> QED BY <1>3, <2>1, FS_AddElement
<1> QED BY <1>4, <1>5, <1>6, <1>7, <1>8

\* A fill written into an open row raises the exposure of its market only, by its cost.
LEMMA FillWrites ==
    ASSUME BaseInv, BaseInv', NEW s \in Sessions, NEW m \in Markets, m = Target(s),
           NEW cents \in Nat, Committed(s, "live", 1, cents), sessions[s].row # 0,
           books["live"][sessions[s].row].exposure = sessions[s].exposure
    PROVE  /\ (MarketExposure(m))' <= MarketExposure(m) + cents
           /\ \A k \in Markets : k # m => (MarketExposure(k))' <= MarketExposure(k)
           /\ LiveExposure' <= LiveExposure + cents
           /\ OpenLive' = OpenLive /\ (OpenRows("live", m))' = OpenRows("live", m)
<1> DEFINE rows == books["live"]
<1> DEFINE R == books'["live"]
<1>0. PICK i : i = sessions[s].row
    OBVIOUS
<1>1. /\ rows \in Seq(Positions) /\ R \in Seq(Positions) /\ Len(R) = Len(rows)
      /\ DOMAIN R = DOMAIN rows /\ i \in DOMAIN rows /\ rows[i].market = m
      /\ \A j \in DOMAIN rows : j # i => R[j] = rows[j]
      /\ R[i].market = rows[i].market /\ R[i].age = rows[i].age
    BY <1>0, LiveIsSound DEF Committed, Books
<1>2. R[i].exposure = rows[i].exposure + cents
    <2> DEFINE e == sessions[s].exposure
    <2>1. e \in Nat /\ rows[i].exposure = e
        BY <1>0 DEF BaseInv, LedgerTypeOK, SessionStates
    <2>2. (e + cents = e => R[i].exposure = e) /\ (e + cents # e => R[i].exposure = e + cents)
        BY <1>0, <2>1 DEF Committed
    <2> QED BY <2>1, <2>2
<1>3. \A j \in DOMAIN rows : R[j].market = rows[j].market /\ (IsOpen(R[j]) <=> IsOpen(rows[j]))
    BY <1>1 DEF IsOpen
<1>4. OpenLive' = OpenLive /\ \A k \in Markets : (OpenRows("live", k))' = OpenRows("live", k)
    BY <1>1, <1>3 DEF OpenLive, OpenRows
<1>5. ASSUME NEW S \in SUBSET DOMAIN rows
      PROVE  /\ ExposureOver(R, S) <= ExposureOver(rows, S) + cents
             /\ i \notin S => ExposureOver(R, S) <= ExposureOver(rows, S)
    <2>1. ExposureOver(rows, S) \in Nat /\ ExposureOver(R, S) \in Nat
        BY <1>1, ExposureIsNat
    <2>2. CASE i \in S
        <3>1. \A j \in S \ {i} : R[j].exposure = rows[j].exposure
            BY <1>1
        <3> HIDE DEF R, rows
        <3>2. ExposureOver(R, S) = ExposureOver(rows, S) + cents
            BY <1>1, <1>2, <2>2, <3>1, ExposureRaised
        <3> DEFINE g == ExposureOver(rows, S)
        <3>3. g + cents <= g + cents
            <4>1. g \in Nat
                BY <2>1
            <4> HIDE DEF g
            <4> QED BY <4>1
        <3> QED BY <2>2, <3>2, <3>3
    <2>3. CASE i \notin S
        <3>1. \A j \in S : R[j].exposure = rows[j].exposure
            BY <1>1, <2>3
        <3> HIDE DEF R, rows
        <3>2. ExposureOver(R, S) <= ExposureOver(rows, S)
            <4>1. S \in SUBSET S
                OBVIOUS
            <4> QED BY <1>1, <3>1, <4>1, ExposureOfFewer
        <3> DEFINE g == ExposureOver(rows, S)
        <3> DEFINE h == ExposureOver(R, S)
        <3>3. h <= g + cents
            <4>1. g \in Nat /\ h \in Nat /\ h <= g
                BY <2>1, <3>2
            <4> HIDE DEF g, h
            <4> QED BY <4>1
        <3> QED BY <3>2, <3>3
    <2> QED BY <2>2, <2>3
<1>6. LiveExposure' <= LiveExposure + cents
    <2>1. OpenLive \in SUBSET DOMAIN rows
        BY LiveIsSound
    <2>2. ExposureOver(R, OpenLive) <= ExposureOver(rows, OpenLive) + cents
        BY <1>5, <2>1
    <2> QED BY <1>4, <2>2 DEF LiveExposure
<1>7. ASSUME NEW k \in Markets
      PROVE  /\ (MarketExposure(k))' <= MarketExposure(k) + cents
             /\ k # m => (MarketExposure(k))' <= MarketExposure(k)
    <2>1. OpenRows("live", k) \in SUBSET DOMAIN rows
        BY LiveIsSound
    <2> DEFINE S == OpenRows("live", k)
    <2>2. k # m => i \notin S
        BY <1>1 DEF OpenRows
    <2>3. /\ ExposureOver(R, S) <= ExposureOver(rows, S) + cents
          /\ k # m => ExposureOver(R, S) <= ExposureOver(rows, S)
        BY <1>5, <2>1, <2>2
    <2> QED BY <1>4, <2>3 DEF MarketExposure
<1> QED BY <1>4, <1>6, <1>7

\* A fill that is applied, to an old row or a new one, raises no figure by more than it costs.
LEMMA FillFigures ==
    ASSUME BaseInv, BaseInv', ReadsAreCurrent, NEW s \in Sessions, WritesTo(s, "live"),
           sessions[s].update.count = 1, NEW cents \in Nat, Committed(s, "live", 1, cents),
           NEW m, m = Target(s)
    PROVE  m \in Markets /\ FilledFigures(m, cents)
<1>1. m \in Markets
    BY PricesAreNat DEF Target, BaseInv, SessionsAreSound, SessionSound, WritesTo
<1>2. IF sessions[s].row = 0 THEN OpenRows("live", m) = {}
      ELSE books["live"][sessions[s].row].exposure = sessions[s].exposure
    BY DEF ReadsAreCurrent, IsCurrent, WritesTo
<1>3. CASE sessions[s].row = 0
    <2>1. OpenRows("live", m) = {}
        BY <1>2, <1>3
    <2> QED BY <1>1, <1>3, <2>1, FillOpens DEF FilledFigures
<1>4. CASE sessions[s].row # 0
    <2>1. books["live"][sessions[s].row].exposure = sessions[s].exposure
        BY <1>2, <1>4
    <2> QED BY <1>1, <1>4, <2>1, FillWrites DEF FilledFigures
<1> QED BY <1>1, <1>3, <1>4

\* A fill takes what it costs from the room there was.
LEMMA FilledRoom ==
    ASSUME BaseInv, BaseInv', LimitsHold, NEW o \in Orders, NEW k \in Nat, NEW cents \in Nat,
           HasRoom(o, k + cents), FilledFigures(MarketOf[o], cents)
    PROVE  LimitsHold' /\ (HasRoom(o, k))'
<1>0. PICK m : m = MarketOf[o]
    OBVIOUS
<1> DEFINE x == Cardinality(OpenLive)
<1> DEFINE y == Cardinality(OpenLive')
<1> DEFINE e == LiveExposure
<1> DEFINE f == LiveExposure'
<1> DEFINE g == MarketExposure(m)
<1> DEFINE h == (MarketExposure(m))'
<1>1. m \in Markets
    BY <1>0, PricesAreNat
<1>2. x \in Nat /\ y \in Nat /\ e \in Nat /\ f \in Nat /\ g \in Nat /\ h \in Nat
    BY <1>1, FiguresAreNat, FiguresStayNat DEF LiveFigures
<1>3. h <= g + cents /\ f <= e + cents
    BY <1>0 DEF FilledFigures
<1>4. /\ g + (k + cents) <= MarketLimit
      /\ Catalogued = {} => e + (k + cents) <= CategoryLimit
      /\ x <= PositionLimit /\ (OpenRows("live", m) = {} => x < PositionLimit)
    BY <1>0 DEF HasRoom
<1>5. h + k <= MarketLimit /\ h <= MarketLimit
    <2> HIDE DEF g, h
    <2> QED BY <1>2, <1>3, <1>4, LimitsAreNat
<1>6. ASSUME Catalogued = {} PROVE f + k <= CategoryLimit /\ f <= CategoryLimit
    <2>1. e + (k + cents) <= CategoryLimit
        BY <1>4, <1>6
    <2> HIDE DEF e, f
    <2> QED BY <1>2, <1>3, <2>1, LimitsAreNat
<1>7. \/ y = x /\ (OpenRows("live", m))' = OpenRows("live", m)
      \/ OpenRows("live", m) = {} /\ (OpenRows("live", m))' # {} /\ y = x + 1
    BY <1>0 DEF FilledFigures
<1>8. y <= PositionLimit /\ ((OpenRows("live", m))' = {} => y < PositionLimit)
    <2>1. CASE y = x /\ (OpenRows("live", m))' = OpenRows("live", m)
        BY <1>4, <2>1
    <2>2. CASE OpenRows("live", m) = {} /\ (OpenRows("live", m))' # {} /\ y = x + 1
        <3>1. x < PositionLimit /\ y = x + 1
            BY <1>4, <2>2
        <3>2. y <= PositionLimit
            <4> HIDE DEF x, y
            <4> QED BY <1>2, <3>1, LimitsAreNat
        <3> QED BY <2>2, <3>2
    <2> QED BY <1>7, <2>1, <2>2
<1>9. ASSUME NEW n \in Markets PROVE (MarketExposure(n))' <= MarketLimit
    <2>1. CASE n = m
        BY <1>5, <2>1
    <2>2. CASE n # m
        <3> DEFINE a == MarketExposure(n)
        <3> DEFINE b == (MarketExposure(n))'
        <3>1. a \in Nat /\ b \in Nat /\ b <= a /\ a <= MarketLimit
            BY <1>0, <2>2, FiguresAreNat, FiguresStayNat DEF FilledFigures, LimitsHold, LiveFigures
        <3>2. b <= MarketLimit
            <4> HIDE DEF a, b
            <4> QED BY <3>1, LimitsAreNat
        <3> QED BY <3>2
    <2> QED BY <2>1, <2>2
<1>10. LimitsHold'
    BY <1>6, <1>8, <1>9 DEF LimitsHold
<1>11. (HasRoom(o, k))'
    BY <1>0, <1>5, <1>6, <1>8 DEF HasRoom
<1> QED BY <1>10, <1>11

\* Where prices times the same count compare, so do the prices.
LEMMA PriceCompares ==
    ASSUME NEW a \in Nat, NEW b \in Nat, NEW c \in Nat, c # 0, a * c <= b * c
    PROVE  a <= b
<1>1. ASSUME b < a PROVE FALSE
    <2>1. PICK d \in Nat : a = b + 1 + d
        <3>1. a - b - 1 \in Nat /\ a = b + 1 + (a - b - 1)
            BY <1>1
        <3> QED BY <3>1
    <2>2. a * c = b * c + c + d * c
        BY <2>1
    <2>3. b * c \in Nat /\ d * c \in Nat /\ a * c \in Nat
        OBVIOUS
    <2> DEFINE p == a * c
    <2> DEFINE q == b * c
    <2> DEFINE r == d * c
    <2> HIDE DEF p, q, r
    <2> QED BY <2>2, <2>3 DEF p, q, r
<1> QED BY <1>1

\* What is left of an order, and what it may cost.
LEMMA LeftIsNat ==
    BaseInv => \A o \in Orders : /\ IsFiniteSet(AppliedOf(o)) /\ Left(o) \in Nat
                                 /\ Left(o) * UnitPrice(o) \in Nat
<1> SUFFICES ASSUME BaseInv, NEW o \in Orders
             PROVE  /\ IsFiniteSet(AppliedOf(o)) /\ Left(o) \in Nat
                    /\ Left(o) * UnitPrice(o) \in Nat
    OBVIOUS
<1>1. IsFiniteSet(Filled(o))
    <2>1. Filled(o) \subseteq updates
        BY DEF Filled, Reported
    <2> QED BY <2>1, FS_Subset DEF BaseInv, ReportsAreSound
<1>2. AppliedOf(o) \subseteq Filled(o)
    BY DEF AppliedOf
<1>3. IsFiniteSet(AppliedOf(o)) /\ Cardinality(AppliedOf(o)) <= Cardinality(Filled(o))
    BY <1>1, <1>2, FS_Subset
<1> DEFINE a == Cardinality(AppliedOf(o))
<1> DEFINE f == Cardinality(Filled(o))
<1> DEFINE c == CountOf[o]
<1>4. a \in Nat
    BY <1>3, FS_CardinalityType
<1>5. f \in Nat
    BY <1>1, FS_CardinalityType
<1>6. f <= c /\ c \in Nat
    BY PricesAreNat DEF BaseInv, ReportsAreSound
<1>7. c - a \in Nat
    <2>1. a <= f
        BY <1>3
    <2> HIDE DEF a, f, c
    <2> QED BY <1>4, <1>5, <1>6, <2>1
<1>8. Left(o) \in Nat
    BY <1>7 DEF Left
<1>9. Left(o) * UnitPrice(o) \in Nat
    <2> DEFINE l == Left(o)
    <2> DEFINE p == UnitPrice(o)
    <2>1. l \in Nat /\ p \in Nat
        BY <1>8, PricesAreNat
    <2> HIDE DEF l, p
    <2>2. l * p \in Nat
        BY <2>1
    <2> QED BY <2>2 DEF l, p
<1> QED BY <1>3, <1>8, <1>9

\* What is left of an order, and what it may still cost, is a natural number.
LEMMA LeftStaysNat ==
    BaseInv' => (\A o \in Orders : /\ IsFiniteSet(AppliedOf(o)) /\ Left(o) \in Nat
                                   /\ Left(o) * UnitPrice(o) \in Nat)'
BY LeftIsNat, PTL

\* The books alone decide how much room there is.
LEMMA SameRoom ==
    ASSUME UNCHANGED books
    PROVE  /\ OpenLive' = OpenLive /\ LimitsHold' = LimitsHold
           /\ \A m : (OpenRows("live", m))' = OpenRows("live", m)
           /\ \A o, cents : (HasRoom(o, cents))' = HasRoom(o, cents)
<1>1. OpenLive' = OpenLive
    BY DEF OpenLive
<1>2. \A m : (OpenRows("live", m))' = OpenRows("live", m)
    BY DEF OpenRows
<1>3. \A m : (MarketExposure(m))' = MarketExposure(m)
    BY <1>2 DEF MarketExposure
<1>4. LiveExposure' = LiveExposure
    BY <1>1 DEF LiveExposure
<1> QED BY <1>1, <1>2, <1>3, <1>4 DEF LimitsHold, HasRoom

\* Steps that leave the sessions, and after which nothing more is outstanding and
\* the books hold no more.
Quieter ==
    \A o \in Orders : /\ Outstanding(o)' => Outstanding(o)
                      /\ (AppliedOf(o))' = AppliedOf(o)
                      /\ orders[o] = "absent" => orders'[o] = "absent"
Roomier ==
    /\ LimitsHold => LimitsHold'
    /\ \A o \in Orders, cents \in Nat : HasRoom(o, cents) => (HasRoom(o, cents))'
    /\ Cardinality(OpenLive') <= Cardinality(OpenLive)
    /\ \A m \in Markets : (OpenRows("live", m))' \subseteq OpenRows("live", m)
    /\ \A i \in DOMAIN books["live"] : books'["live"][i].exposure = books["live"][i].exposure

\* Unchanged books leave the room they left.
LEMMA RoomsOfSame ==
    ASSUME BaseInv, UNCHANGED books
    PROVE  Roomier
<1> DEFINE x == Cardinality(OpenLive)
<1>1. x <= x
    <2>1. x \in Nat
        BY LiveIsSound
    <2> HIDE DEF x
    <2> QED BY <2>1
<1> QED BY <1>1, SameRoom DEF Roomier

\* At most one session goes on when none begins.
LEMMA OneStays ==
    ASSUME BaseInv, OneAtATime, Quieter, Roomier
    PROVE  OneAtATime'
<1>1. ASSUME NEW o \in Orders, NEW p \in Orders, Outstanding(o)', Outstanding(p)'
      PROVE  o = p
    BY <1>1 DEF OneAtATime, Quieter
<1>2. ASSUME NEW o \in Orders, Outstanding(o)'
      PROVE  (HasRoom(o, Left(o) * UnitPrice(o)))'
    <2>1. PICK k : k = Left(o) * UnitPrice(o)
        OBVIOUS
    <2>2. k \in Nat
        BY <2>1, LeftIsNat
    <2>3. HasRoom(o, k)
        BY <1>2, <2>1 DEF OneAtATime, Quieter
    <2>4. (HasRoom(o, k))'
        BY <2>2, <2>3 DEF Roomier
    <2>5. (Left(o))' = Left(o) /\ (UnitPrice(o))' = UnitPrice(o)
        BY DEF Quieter, Left, UnitPrice
    <2>6. (Left(o) * UnitPrice(o))' = k
        BY <2>1, <2>5
    <2> QED BY <2>4, <2>6 DEF HasRoom
<1> QED BY <1>1, <1>2 DEF OneAtATime

\* A read stays current when the books leave no less room.
LEMMA ReadsStay ==
    ASSUME BaseInv, BaseInv', ReadsAreCurrent, Quieter, Roomier, NEW s \in Sessions,
           sessions'[s] = sessions[s]
    PROVE  IsCurrent(s)'
<1>0. IsCurrent(s)
    BY DEF ReadsAreCurrent
<1>1. (Target(s))' = Target(s)
    BY DEF Target
<1>2. ASSUME sessions[s].pc = "reconcile", sessions[s].update.count = 1
      PROVE  IF sessions[s].row = 0 THEN (OpenRows("live", Target(s)))' = {}
             ELSE books'["live"][sessions[s].row].exposure = sessions[s].exposure
    <2>0. PICK m : m = Target(s)
        OBVIOUS
    <2>1. m \in Markets
        BY <1>2, <2>0, PricesAreNat DEF BaseInv, SessionsAreSound, SessionSound, Target
    <2>2. CASE sessions[s].row = 0
        <3>1. OpenRows("live", m) = {}
            BY <1>0, <1>2, <2>0, <2>2 DEF IsCurrent
        <3>2. (OpenRows("live", m))' = {}
            BY <2>1, <3>1 DEF Roomier
        <3> QED BY <1>1, <2>0, <2>2, <3>2 DEF OpenRows
    <2>3. CASE sessions[s].row # 0
        <3>1. sessions[s].row \in DOMAIN books["live"]
            BY <1>2, <2>3 DEF BaseInv, SessionsAreSound, SessionSound, WritesTo, Books
        <3>2. books["live"][sessions[s].row].exposure = sessions[s].exposure
            BY <1>0, <1>2, <2>3 DEF IsCurrent
        <3> QED BY <2>3, <3>1, <3>2 DEF Roomier
    <2> QED BY <2>2, <2>3
<1>3. ASSUME sessions[s].pc = "preview", sessions[s].calm
      PROVE  /\ orders'[sessions[s].order] = "absent"
             /\ \A o \in Orders : ~Outstanding(o)'
             /\ sessions[s].passed => (HasRoom(sessions[s].order, Estimate(sessions[s].order)))'
                                      /\ Cardinality(OpenLive') < PositionLimit
    <2>0. PICK o : o = sessions[s].order
        OBVIOUS
    <2>1. o \in Orders
        BY <1>3, <2>0 DEF BaseInv, SessionsAreSound, SessionSound
    <2>2. orders'[o] = "absent" /\ \A p \in Orders : ~Outstanding(p)'
        BY <1>0, <1>3, <2>0, <2>1 DEF IsCurrent, Quieter
    <2>3. ASSUME sessions[s].passed
          PROVE  /\ (HasRoom(sessions[s].order, Estimate(sessions[s].order)))'
                 /\ Cardinality(OpenLive') < PositionLimit
        <3>1. PICK k : k = Estimate(o)
            OBVIOUS
        <3>2. k \in Nat
            <4> DEFINE a == UnitPrice(o)
            <4> DEFINE b == CountOf[o]
            <4>1. a \in Nat /\ b \in Nat
                BY <2>1, PricesAreNat
            <4> HIDE DEF a, b
            <4>2. a * b \in Nat
                BY <4>1
            <4> QED BY <3>1, <4>2 DEF Estimate, a, b
        <3>3. HasRoom(o, k) /\ Cardinality(OpenLive) < PositionLimit
            BY <1>0, <1>3, <2>0, <2>3, <3>1 DEF IsCurrent
        <3>4. (HasRoom(o, k))'
            BY <2>1, <3>2, <3>3 DEF Roomier
        <3>5. (HasRoom(sessions[s].order, Estimate(sessions[s].order)))'
            <4>1. sessions'[s].order = o /\ (Estimate(sessions[s].order))' = k
                BY <2>0, <3>1 DEF Estimate, UnitPrice
            <4> QED BY <3>4, <4>1 DEF HasRoom
        <3> DEFINE x == Cardinality(OpenLive)
        <3> DEFINE y == Cardinality(OpenLive')
        <3>6. x \in Nat /\ y \in Nat /\ y <= x /\ x < PositionLimit
            BY <3>3, FiguresAreNat, FiguresStayNat DEF LiveFigures, Roomier
        <3>7. y < PositionLimit
            <4> HIDE DEF x, y
            <4> QED BY <3>6, LimitsAreNat
        <3> QED BY <3>5, <3>7
    <2> QED BY <2>0, <2>2, <2>3
<1> QED BY <1>1, <1>2, <1>3 DEF IsCurrent

\* A session that begins, with nothing else changed.
LEMMA ReadsBegun ==
    ASSUME BaseInv, BaseInv', ReadsAreCurrent, NEW s \in Sessions, NEW q \in SessionStates,
           sessions' = [sessions EXCEPT ![s] = q],
           UNCHANGED <<orders, updates, applied, books>>,
           IsCurrent(s)'
    PROVE  ReadsAreCurrent'
<1>1. Quieter
    BY DEF Quieter, Outstanding, AppliedOf, Applied, Filled, Canceled, Reported
<1>2. Roomier
    BY RoomsOfSame
<1>3. ASSUME NEW t \in Sessions PROVE IsCurrent(t)'
    <2>1. CASE t = s
        BY <2>1
    <2>2. CASE t # s
        <3>1. sessions'[t] = sessions[t]
            BY <2>2 DEF BaseInv, LedgerTypeOK
        <3> QED BY <1>1, <1>2, <3>1, ReadsStay
    <2> QED BY <2>1, <2>2
<1> QED BY <1>3 DEF ReadsAreCurrent

\* The last session that commits leaves nothing that was read.
LEMMA ReadsEnded ==
    ASSUME BaseInv, NEW s \in Sessions, Active = {s}, sessions' = [sessions EXCEPT ![s] = Idle]
    PROVE  ReadsAreCurrent'
<1>1. ASSUME NEW t \in Sessions PROVE sessions'[t].pc = "idle"
    <2>1. CASE t = s
        BY <2>1, IdleIsState DEF BaseInv, LedgerTypeOK
    <2>2. CASE t # s
        BY <2>2 DEF BaseInv, LedgerTypeOK, Active
    <2> QED BY <2>1, <2>2
<1> QED BY <1>1 DEF ReadsAreCurrent, IsCurrent

CarefulParts == LimitsHold /\ OneAtATime /\ OrdersAreSound /\ ReadsAreCurrent

\* Outside the sessions.
LEMMA CarefulBeside ==
    ASSUME BaseInv, BaseInv', CarefulParts, UNCHANGED sessions, Quieter, Roomier
    PROVE  LimitsHold' /\ OneAtATime' /\ ReadsAreCurrent'
<1>1. ASSUME NEW t \in Sessions PROVE IsCurrent(t)'
    BY ReadsStay DEF CarefulParts
<1>2. ReadsAreCurrent'
    BY <1>1 DEF ReadsAreCurrent
<1> QED BY <1>2, OneStays DEF CarefulParts, Roomier

\* Closing and ageing only ever make room.
LEMMA CarefulSettled ==
    ASSUME BaseInv, BaseInv', CarefulParts, NEW i, NEW lost, Settled(i, lost),
           UNCHANGED <<orders, onExchange, updates, applied, sessions>>
    PROVE  CarefulParts'
<1>1. Quieter
    BY DEF Quieter, Outstanding, AppliedOf, Applied, Filled, Canceled, Reported
<1>2. \A m \in Markets : (OpenRows("live", m))' \subseteq OpenRows("live", m)
    BY SettledRows
<1>3. \A j \in DOMAIN books["live"] : books'["live"][j].exposure = books["live"][j].exposure
    BY DEF Settled
<1>4. Roomier
    BY <1>2, <1>3, SettledRoom DEF Roomier
<1>5. OrdersAreSound'
    BY DEF CarefulParts, OrdersAreSound, Canceled, Reported
<1> QED BY <1>1, <1>4, <1>5, CarefulBeside DEF CarefulParts

\* A placed order has the room that its preview found.
LEMMA CarefulPlaced ==
    ASSUME BaseInv, BaseInv', CarefulParts, NEW o \in Orders, Place(o)
    PROVE  CarefulParts'
<1>1. orders' = [orders EXCEPT ![o] = "submitted"] /\ orders[o] = "pending_approval"
      /\ onExchange' = onExchange \cup {o}
      /\ UNCHANGED <<updates, applied, books, sessions>>
    BY DEF Place
<1>2. \A p \in Orders : p # o => orders'[p] = orders[p]
    BY <1>1 DEF BaseInv, LedgerTypeOK
<1>3. orders'[o] = "submitted"
    BY <1>1 DEF BaseInv, LedgerTypeOK
<1>4. \A p \in Orders : /\ (Reported(p))' = Reported(p) /\ (Filled(p))' = Filled(p)
                        /\ (Canceled(p))' = Canceled(p) /\ (AppliedOf(p))' = AppliedOf(p)
    BY <1>1 DEF AppliedOf, Applied, Filled, Canceled, Reported
<1>5. ASSUME NEW p \in Orders, Outstanding(p)' PROVE Outstanding(p)
    <2>1. Applied' = Applied
        BY <1>1 DEF Applied
    <2>2. ~(Reported(p) \subseteq Applied
            /\ (Canceled(p) \/ Cardinality(Filled(p)) = CountOf[p]))
        BY <1>4, <1>5, <2>1 DEF Outstanding
    <2>3. orders[p] \notin {"absent", "blocked"}
        BY <1>1, <1>2, <1>5 DEF Outstanding
    <2> QED BY <2>2, <2>3 DEF Outstanding
<1>6. Quieter
    BY <1>1, <1>2, <1>4, <1>5 DEF Quieter
<1>7. Roomier
    BY <1>1, RoomsOfSame
<1>8. OrdersAreSound'
    <2>1. OrdersAreSound
        BY DEF CarefulParts
    <2>2. ASSUME NEW p \in Orders, orders'[p] \in {"absent", "blocked", "pending_approval"}
          PROVE  (Reported(p))' = {} /\ p \notin onExchange'
        <3>1. p # o
            BY <1>3, <2>2
        <3>2. Reported(p) = {} /\ p \notin onExchange
            BY <1>2, <2>1, <2>2, <3>1 DEF OrdersAreSound
        <3> QED BY <1>1, <1>4, <3>1, <3>2
    <2>3. ASSUME NEW p \in Orders, p \in onExchange'
          PROVE  ~(Canceled(p))'
        <3>1. CASE p = o
            <4>1. Reported(o) = {}
                BY <1>1, <2>1 DEF OrdersAreSound
            <4> QED BY <1>4, <3>1, <4>1 DEF Canceled
        <3>2. CASE p # o
            BY <1>1, <1>4, <2>1, <2>3, <3>2 DEF OrdersAreSound
        <3> QED BY <3>1, <3>2
    <2> QED BY <2>2, <2>3 DEF OrdersAreSound
<1> QED BY <1>1, <1>6, <1>7, <1>8, CarefulBeside DEF CarefulParts

\* A report the exchange adds, on an order it works on.
LEMMA CarefulReported ==
    ASSUME BaseInv, BaseInv', CarefulParts, NEW o \in Orders, o \in onExchange,
           Cardinality(Filled(o)) < CountOf[o], NEW u, u.order = o,
           updates' = updates \cup {u}, onExchange' \subseteq onExchange,
           u.count = 0 => o \notin onExchange', u.count \in {0, 1},
           UNCHANGED <<orders, applied, books, sessions>>
    PROVE  CarefulParts'
<1>1. OrdersAreSound
    BY DEF CarefulParts
<1>2. Applied' = Applied /\ Applied \subseteq updates
    BY DEF Applied, BaseInv, ReportsAreSound
<1>3. (Reported(o))' = Reported(o) \cup {u}
    BY DEF Reported
<1>4. \A p \in Orders : p # o => (Reported(p))' = Reported(p)
    BY DEF Reported
<1>5. \A p \in Orders : p # o => (Filled(p))' = Filled(p) /\ (Canceled(p))' = Canceled(p)
    BY <1>4 DEF Filled, Canceled
<1>6. Outstanding(o)
    <2>1. orders[o] \notin {"absent", "blocked"}
        BY <1>1 DEF OrdersAreSound
    <2>2. ~Canceled(o)
        BY <1>1 DEF OrdersAreSound
    <2>3. Cardinality(Filled(o)) # CountOf[o]
        <3>1. IsFiniteSet(Filled(o))
            <4>1. Filled(o) \subseteq updates
                BY DEF Filled, Reported
            <4> QED BY <4>1, FS_Subset DEF BaseInv, ReportsAreSound
        <3> DEFINE f == Cardinality(Filled(o))
        <3> DEFINE c == CountOf[o]
        <3>2. f \in Nat
            BY <3>1, FS_CardinalityType
        <3>3. c \in Nat /\ f < c
            BY PricesAreNat
        <3>4. f # c
            <4> HIDE DEF f, c
            <4> QED BY <3>2, <3>3
        <3> QED BY <3>4
    <2> QED BY <2>1, <2>2, <2>3 DEF Outstanding
<1>7. ASSUME NEW p \in Orders, Outstanding(p)' PROVE Outstanding(p)
    <2>1. CASE p = o
        BY <1>6, <2>1
    <2>2. CASE p # o
        BY <1>2, <1>4, <1>5, <1>7, <2>2 DEF Outstanding
    <2> QED BY <2>1, <2>2
<1>8. ASSUME NEW p \in Orders PROVE (AppliedOf(p))' = AppliedOf(p)
    <2>1. Filled(p) \subseteq (Filled(p))'
        BY DEF Filled, Reported
    <2>2. ASSUME NEW v \in (Filled(p))', v \in Applied PROVE v \in Filled(p)
        BY <1>2, <2>2 DEF Filled, Reported
    <2> QED BY <1>2, <2>1, <2>2 DEF AppliedOf
<1>9. Quieter
    BY <1>7, <1>8 DEF Quieter
<1>10. Roomier
    BY RoomsOfSame
<1>11. OrdersAreSound'
    <2>1. ASSUME NEW p \in Orders, orders'[p] \in {"absent", "blocked", "pending_approval"}
          PROVE  (Reported(p))' = {} /\ p \notin onExchange'
        BY <1>1, <1>4, <2>1 DEF OrdersAreSound
    <2>2. ASSUME NEW p \in Orders, p \in onExchange' PROVE ~(Canceled(p))'
        <3>1. CASE p = o
            <4>1. u.count # 0 /\ ~Canceled(o)
                BY <1>1, <2>2, <3>1 DEF OrdersAreSound
            <4> QED BY <1>3, <3>1, <4>1 DEF Canceled
        <3>2. CASE p # o
            BY <1>1, <1>5, <2>2, <3>2 DEF OrdersAreSound
        <3> QED BY <3>1, <3>2
    <2> QED BY <2>1, <2>2 DEF OrdersAreSound
<1> QED BY <1>9, <1>10, <1>11, CarefulBeside DEF CarefulParts

\* A preview that begins alone reads the figures as they are.
LEMMA CarefulPreviewBegun ==
    ASSUME BaseInv, BaseInv', CarefulParts, NEW s \in Sessions, NEW o \in Orders,
           BeginPreview(s, o)
    PROVE  CarefulParts'
<1> DEFINE r == Reading("preview", o)
<1>0. PICK p \in BOOLEAN : p = RulesPass(o)
    BY DEF RulesPass
<1>1. PICK c \in BOOLEAN : c = (Active = {} /\ \A x \in Orders : ~Outstanding(x))
    OBVIOUS
<1> DEFINE q == [r EXCEPT !.passed = p, !.calm = c]
<1>2. r \in SessionStates /\ r.pc = "preview" /\ r.order = o
    BY ReadingIsState
<1>3. /\ sessions' = [sessions EXCEPT ![s] = q] /\ orders[o] = "absent"
      /\ UNCHANGED <<orders, onExchange, updates, applied, books>>
    BY <1>0, <1>1 DEF BeginPreview
<1> HIDE DEF r
<1>4. q \in SessionStates /\ q.pc = "preview" /\ q.order = o /\ q.passed = p /\ q.calm = c
    BY <1>2 DEF SessionStates
<1> HIDE DEF q
<1>5. sessions'[s] = q
    BY <1>3 DEF BaseInv, LedgerTypeOK
<1>6. ASSUME p PROVE HasRoom(o, Estimate(o)) /\ Cardinality(OpenLive) < PositionLimit
    <2>1. /\ MarketExposure(MarketOf[o]) + Estimate(o) <= MarketLimit
          /\ CategoryExposure(MarketOf[o]) + Estimate(o) <= CategoryLimit
          /\ Cardinality(OpenLive) < PositionLimit
        BY <1>0, <1>6 DEF RulesPass
    <2>2. Catalogued = {} => CategoryExposure(MarketOf[o]) = LiveExposure
        BY DEF CategoryExposure, LiveExposure
    <2> DEFINE x == Cardinality(OpenLive)
    <2>3. x <= PositionLimit
        <3>1. x \in Nat /\ x < PositionLimit
            BY <2>1, LiveIsSound
        <3> HIDE DEF x
        <3> QED BY <3>1, LimitsAreNat
    <2> QED BY <2>1, <2>2, <2>3 DEF HasRoom
<1>7. \A x \in Orders : Outstanding(x)' <=> Outstanding(x)
    BY <1>3 DEF Outstanding, Applied, Filled, Canceled, Reported
<1>8. IsCurrent(s)'
    <2>1. ASSUME p
          PROVE  (HasRoom(o, Estimate(o)))' /\ Cardinality(OpenLive') < PositionLimit
        <3>1. PICK k : k = Estimate(o)
            OBVIOUS
        <3>2. (HasRoom(o, k))' /\ OpenLive' = OpenLive
            BY <1>3, <1>6, <2>1, <3>1, SameRoom
        <3>3. (Estimate(o))' = k
            BY <3>1 DEF Estimate, UnitPrice
        <3> QED BY <1>6, <2>1, <3>2, <3>3 DEF HasRoom
    <2>2. ASSUME c PROVE \A x \in Orders : ~Outstanding(x)'
        BY <1>1, <1>7, <2>2
    <2>3. orders'[o] = "absent"
        BY <1>3
    <2>4. p => (HasRoom(sessions[s].order, Estimate(sessions[s].order)))'
        BY <1>4, <1>5, <2>1 DEF HasRoom, Estimate, UnitPrice
    <2> QED BY <1>4, <1>5, <2>1, <2>2, <2>3, <2>4 DEF IsCurrent
<1>9. ReadsAreCurrent'
    BY <1>3, <1>4, <1>8, ReadsBegun DEF CarefulParts
<1>10. OrdersAreSound'
    BY <1>3 DEF CarefulParts, OrdersAreSound, Canceled, Reported
<1>11. Quieter
    BY <1>3 DEF Quieter, Outstanding, AppliedOf, Applied, Filled, Canceled, Reported
<1>12. LimitsHold' /\ OneAtATime'
    BY <1>3, <1>11, RoomsOfSame, OneStays DEF CarefulParts, Roomier
<1> QED BY <1>9, <1>10, <1>12 DEF CarefulParts

\* A reconciliation that begins alone reads the row as it is.
LEMMA CarefulReconcileBegun ==
    ASSUME BaseInv, BaseInv', CarefulParts, NEW s \in Sessions, NEW u \in updates,
           BeginReconcile(s, u)
    PROVE  CarefulParts'
<1> DEFINE o == u.order
<1> DEFINE h == [Reading("reconcile", o) EXCEPT !.update = u]
<1> DEFINE r == WithPosition(h, "live", MarketOf[o])
<1> DEFINE q == IF u.count = 0 THEN h ELSE r
<1>1. /\ sessions' = [sessions EXCEPT ![s] = q]
      /\ UNCHANGED <<orders, onExchange, updates, applied, books>>
    BY DEF BeginReconcile
<1>2. u \in Updates /\ o \in Orders
    BY DEF BaseInv, LedgerTypeOK, Updates
<1>3. /\ h \in SessionStates /\ h.pc = "reconcile" /\ h.row = 0 /\ h.update = u /\ h.order = o
      /\ h.contracts = 0 /\ h.exposure = 0
    BY <1>2, ReadingIsState DEF SessionStates
<1>4. LedgerTypeOK /\ "live" \in Books
    BY DEF BaseInv, Books
<1> HIDE DEF h, o
<1>5. /\ r \in SessionStates /\ r.pc = "reconcile" /\ r.update = u /\ r.order = o
      /\ OpenRows("live", MarketOf[o]) = {} => r.row = 0
      /\ OpenRows("live", MarketOf[o]) # {} =>
            /\ r.row \in OpenRows("live", MarketOf[o])
            /\ r.exposure = books["live"][r.row].exposure
    BY <1>3, <1>4, PositionIsRead
<1> HIDE DEF r
<1>6. /\ q \in SessionStates /\ q.pc = "reconcile" /\ q.update = u /\ q.order = o
      /\ u.count = 1 => IF q.row = 0 THEN OpenRows("live", MarketOf[o]) = {}
                        ELSE books["live"][q.row].exposure = q.exposure
    <2>1. CASE u.count = 0
        BY <1>3, <2>1
    <2>2. CASE u.count # 0
        <3>1. 0 \notin OpenRows("live", MarketOf[o])
            BY LiveIsSound
        <3> QED BY <1>5, <2>2, <3>1
    <2> QED BY <2>1, <2>2
<1> HIDE DEF q
<1>7. sessions'[s] = q
    BY <1>1 DEF BaseInv, LedgerTypeOK
<1>8. IsCurrent(s)'
    <2>1. (Target(s))' = MarketOf[o]
        BY <1>6, <1>7 DEF Target
    <2>2. (OpenRows("live", Target(s)))' = OpenRows("live", MarketOf[o])
        BY <1>1, <2>1 DEF OpenRows
    <2> QED BY <1>1, <1>6, <1>7, <2>2 DEF IsCurrent
<1>9. ReadsAreCurrent'
    BY <1>1, <1>6, <1>8, ReadsBegun DEF CarefulParts
<1>10. OrdersAreSound'
    BY <1>1 DEF CarefulParts, OrdersAreSound, Canceled, Reported
<1>11. Quieter
    BY <1>1 DEF Quieter, Outstanding, AppliedOf, Applied, Filled, Canceled, Reported
<1>12. LimitsHold' /\ OneAtATime'
    BY <1>1, <1>11, RoomsOfSame, OneStays DEF CarefulParts, Roomier
<1> QED BY <1>9, <1>10, <1>12 DEF CarefulParts

\* A preview that nothing overlapped decided on what is still so.
LEMMA CarefulPreviewed ==
    ASSUME BaseInv, BaseInv', CarefulParts, NEW s \in Sessions, CommitPreview(s), careful'
    PROVE  CarefulParts'
<1>0. PICK o : o = sessions[s].order
    OBVIOUS
<1>1. o \in Orders /\ sessions[s].pc = "preview"
    BY <1>0 DEF CommitPreview, BaseInv, SessionsAreSound, SessionSound
<1>2. /\ sessions[s].calm /\ Active = {s} /\ sessions' = [sessions EXCEPT ![s] = Idle]
      /\ orders' = [orders EXCEPT ![o] = IF sessions[s].passed THEN "pending_approval"
                                         ELSE "blocked"]
      /\ UNCHANGED <<onExchange, updates, applied, books>>
    BY <1>0 DEF CommitPreview
<1>3. /\ orders[o] = "absent" /\ \A p \in Orders : ~Outstanding(p)
      /\ sessions[s].passed => HasRoom(o, Estimate(o))
    BY <1>0, <1>1, <1>2 DEF CarefulParts, ReadsAreCurrent, IsCurrent
<1>4. \A p \in Orders : p # o => orders'[p] = orders[p]
    BY <1>2 DEF BaseInv, LedgerTypeOK
<1>5. ~sessions[s].passed => orders'[o] = "blocked"
    BY <1>1, <1>2 DEF BaseInv, LedgerTypeOK
<1>6. \A p \in Orders : p # o => (Outstanding(p)' <=> Outstanding(p))
    BY <1>2, <1>4 DEF Outstanding, Applied, Filled, Canceled, Reported
<1>7. Reported(o) = {} /\ o \notin onExchange
    BY <1>1, <1>3 DEF CarefulParts, OrdersAreSound
<1>8. ASSUME NEW p \in Orders, Outstanding(p)' PROVE p = o /\ sessions[s].passed
    <2>1. p = o
        BY <1>3, <1>6, <1>8
    <2> QED BY <1>5, <1>8, <2>1 DEF Outstanding
<1>9. ASSUME sessions[s].passed PROVE (HasRoom(o, Left(o) * UnitPrice(o)))'
    <2>1. AppliedOf(o) = {}
        BY <1>7 DEF AppliedOf, Filled
    <2>2. Left(o) = CountOf[o]
        <3>1. Cardinality(AppliedOf(o)) = 0
            BY <2>1, FS_EmptySet
        <3> QED BY <1>1, <3>1, PricesAreNat DEF Left
    <2>3. PICK k : k = Estimate(o)
        OBVIOUS
    <2>4. Left(o) * UnitPrice(o) = k
        <3> DEFINE a == UnitPrice(o)
        <3> DEFINE b == CountOf[o]
        <3>1. a \in Nat /\ b \in Nat
            BY <1>1, PricesAreNat
        <3>2. k = a * b /\ Left(o) * UnitPrice(o) = b * a
            BY <2>2, <2>3 DEF Estimate
        <3>3. a * b = b * a
            <4> HIDE DEF a, b
            <4> QED BY <3>1
        <3> QED BY <3>2, <3>3
    <2>5. (Left(o) * UnitPrice(o))' = Left(o) * UnitPrice(o)
        BY <1>2 DEF Left, AppliedOf, Applied, Filled, Reported, UnitPrice
    <2>6. HasRoom(o, k)
        BY <1>3, <1>9, <2>3
    <2>7. (HasRoom(o, k))'
        BY <1>2, <2>6, SameRoom
    <2> QED BY <2>4, <2>5, <2>7 DEF HasRoom
<1>10. OneAtATime'
    BY <1>8, <1>9 DEF OneAtATime
<1>11. LimitsHold'
    BY <1>2, SameRoom DEF CarefulParts
<1>12. OrdersAreSound'
    <2>1. ASSUME NEW p \in Orders
          PROVE  (Reported(p))' = Reported(p) /\ (Canceled(p))' = Canceled(p)
        BY <1>2 DEF Canceled, Reported
    <2>2. ASSUME NEW p \in Orders, orders'[p] \in {"absent", "blocked", "pending_approval"}
          PROVE  (Reported(p))' = {} /\ p \notin onExchange'
        <3>1. CASE p = o
            BY <1>2, <1>7, <2>1, <3>1
        <3>2. CASE p # o
            BY <1>2, <1>4, <2>1, <2>2, <3>2 DEF CarefulParts, OrdersAreSound
        <3> QED BY <3>1, <3>2
    <2>3. ASSUME NEW p \in Orders, p \in onExchange' PROVE ~(Canceled(p))'
        BY <1>2, <2>1, <2>3 DEF CarefulParts, OrdersAreSound
    <2> QED BY <2>2, <2>3 DEF OrdersAreSound
<1>13. ReadsAreCurrent'
    BY <1>2, ReadsEnded
<1> QED BY <1>10, <1>11, <1>12, <1>13 DEF CarefulParts

\* A report that is reconciled alone, for the first time and at no higher price
\* than its order was estimated at.
LEMMA CarefulReconciled ==
    ASSUME BaseInv, BaseInv', CarefulParts, NEW s \in Sessions, CommitReconcile(s), careful'
    PROVE  CarefulParts'
<1>0. PICK u : u = sessions[s].update
    OBVIOUS
<1>1. PICK o : o = u.order
    OBVIOUS
<1>2. /\ u \in Updates /\ u \in updates /\ o \in Orders /\ u.price \in Nat
      /\ o = sessions[s].order /\ Target(s) = MarketOf[o] /\ WritesTo(s, "live")
      /\ u.count = 0 => books' = books
      /\ u.count # 0 => u.count = 1 /\ Committed(s, "live", 1, u.price)
      /\ sessions' = [sessions EXCEPT ![s] = Idle]
    BY <1>0, <1>1, ReconcileEffect
<1>3. /\ Active = {s} /\ u \notin Applied /\ u.price * CountOf[o] <= Estimate(o)
      /\ orders' = orders
      /\ applied' = applied \cup {<<u, TimesApplied(u) + 1>>}
      /\ UNCHANGED <<onExchange, updates>>
    <2>1. careful' = (careful /\ Active = {s} /\ u \notin Applied
                      /\ u.price * CountOf[o] <= Estimate(o))
        BY <1>0, <1>1 DEF CommitReconcile
    <2>2. Active = {s} /\ u \notin Applied /\ u.price * CountOf[o] <= Estimate(o)
        BY <2>1, Zenon
    <2>3. /\ orders' = orders
          /\ applied' = applied \cup {<<u, TimesApplied(u) + 1>>}
          /\ UNCHANGED <<onExchange, updates>>
        BY <1>0, <1>1 DEF CommitReconcile
    <2> QED BY <2>2, <2>3
<1>4. Applied' = Applied \cup {u}
    <2>1. PICK x : x = <<u, TimesApplied(u) + 1>>
        OBVIOUS
    <2>2. x[1] = u /\ applied' = applied \cup {x}
        BY <1>3, <2>1
    <2> QED BY <2>2 DEF Applied
<1>5. \A p \in Orders : /\ (Reported(p))' = Reported(p) /\ (Filled(p))' = Filled(p)
                        /\ (Canceled(p))' = Canceled(p)
    BY <1>3 DEF Reported, Filled, Canceled
<1>6. u \in Reported(o) /\ \A p \in Orders : p # o => u \notin Reported(p)
    BY <1>1, <1>2 DEF Reported
<1>7. Outstanding(o)
    <2>1. orders[o] \notin {"absent", "blocked"}
        BY <1>2, <1>6 DEF CarefulParts, OrdersAreSound
    <2> QED BY <1>3, <1>6, <2>1 DEF Outstanding
<1>8. \A p \in Orders : orders'[p] = orders[p]
    BY <1>3
<1>10. ASSUME NEW p \in Orders, Outstanding(p)' PROVE Outstanding(p)
    <2>1. CASE p = o
        BY <1>7, <2>1
    <2>2. CASE p # o
        <3>1. Reported(p) \subseteq Applied => (Reported(p))' \subseteq Applied'
            BY <1>4, <1>5
        <3> QED BY <1>5, <1>8, <1>10, <2>2, <3>1 DEF Outstanding
    <2> QED BY <2>1, <2>2
<1>11. OrdersAreSound'
    <2>1. ASSUME NEW p \in Orders, orders'[p] \in {"absent", "blocked", "pending_approval"}
          PROVE  (Reported(p))' = {} /\ p \notin onExchange'
        BY <1>3, <1>5, <1>8, <2>1 DEF CarefulParts, OrdersAreSound
    <2>2. ASSUME NEW p \in Orders, p \in onExchange' PROVE ~(Canceled(p))'
        BY <1>3, <1>5, <2>2 DEF CarefulParts, OrdersAreSound
    <2> QED BY <2>1, <2>2 DEF OrdersAreSound
<1>12. ReadsAreCurrent'
    BY <1>2, <1>3, ReadsEnded
<1>13. ASSUME u.count = 0 PROVE LimitsHold' /\ OneAtATime'
    <2>1. \A p \in Orders : (AppliedOf(p))' = AppliedOf(p)
        BY <1>4, <1>5, <1>13 DEF AppliedOf, Filled
    <2>2. \A p \in Orders : orders[p] = "absent" => orders'[p] = "absent"
        BY <1>7, <1>8 DEF Outstanding
    <2>3. Quieter
        BY <1>10, <2>1, <2>2 DEF Quieter
    <2>4. Roomier
        BY <1>2, <1>13, RoomsOfSame
    <2> QED BY <2>3, <2>4, OneStays DEF CarefulParts, Roomier
<1>14. ASSUME u.count # 0 PROVE LimitsHold' /\ OneAtATime'
    <2>0. PICK v : v = u.price
        OBVIOUS
    <2>1. u.count = 1 /\ Committed(s, "live", 1, v) /\ v \in Nat
        BY <1>2, <1>14, <2>0
    <2>2. FilledFigures(MarketOf[o], v)
        <3>1. PICK m : m = MarketOf[o]
            OBVIOUS
        <3>2. m = Target(s) /\ sessions[s].update.count = 1 /\ ReadsAreCurrent
            BY <1>0, <1>2, <2>1, <3>1 DEF CarefulParts
        <3>3. FilledFigures(m, v)
            BY <1>2, <2>1, <3>2, FillFigures
        <3> QED BY <3>1, <3>3
    <2>3. Cardinality((AppliedOf(o))') = Cardinality(AppliedOf(o)) + 1
        <3>1. (AppliedOf(o))' = AppliedOf(o) \cup {u}
            BY <1>2, <1>4, <1>5, <1>6, <2>1 DEF AppliedOf, Filled
        <3>2. u \notin AppliedOf(o) /\ IsFiniteSet(AppliedOf(o))
            BY <1>2, <1>3, LeftIsNat DEF AppliedOf
        <3> QED BY <3>1, <3>2, FS_AddElement
    <2> DEFINE p == UnitPrice(o)
    <2> DEFINE c == CountOf[o]
    <2> DEFINE a == Cardinality(AppliedOf(o))
    <2> DEFINE b == (Cardinality(AppliedOf(o)))'
    <2>4. p \in Nat /\ c \in Nat /\ c # 0 /\ a \in Nat /\ b = a + 1
        <3>1. p \in Nat /\ c \in Nat /\ c # 0
            BY <1>2, PricesAreNat
        <3>2. IsFiniteSet(AppliedOf(o))
            BY <1>2, LeftIsNat
        <3>3. a \in Nat
            BY <3>2, FS_CardinalityType
        <3>4. b = a + 1
            BY <2>3
        <3> QED BY <3>1, <3>3, <3>4
    <2>5. v <= p
        <3>1. v * c <= p * c
            BY <1>3, <2>0 DEF Estimate
        <3> HIDE DEF p, c
        <3> QED BY <2>1, <2>4, <3>1, PriceCompares
    <2>6. Left(o) = c - a /\ (Left(o))' = c - b /\ (Left(o) * UnitPrice(o))' = (c - b) * p
        BY DEF Left, UnitPrice
    <2>7. PICK k : k = (c - b) * p
        OBVIOUS
    <2>8. c - b \in Nat /\ k \in Nat
        <3>1. (Left(o))' \in Nat
            BY <1>2, LeftStaysNat
        <3>2. c - b \in Nat
            BY <2>6, <3>1
        <3>3. k \in Nat
            <4> DEFINE d == c - b
            <4>1. d \in Nat /\ k = d * p
                BY <2>7, <3>2
            <4> HIDE DEF c, b, d, p
            <4> QED BY <2>4, <4>1
        <3> QED BY <3>2, <3>3
    <2>9. PICK n : n = (c - a) * p
        OBVIOUS
    <2>10. n = k + p /\ n \in Nat
        <3> DEFINE d == c - b
        <3>1. c - a = d + 1
            <4> HIDE DEF a, b, c
            <4> QED BY <2>4
        <3>2. d \in Nat /\ k = d * p
            BY <2>7, <2>8
        <3>3. n = (d + 1) * p
            BY <2>9, <3>1
        <3> HIDE DEF d, p, a, b, c
        <3> QED BY <2>4, <2>8, <3>2, <3>3
    <2>11. HasRoom(o, n)
        BY <1>2, <1>7, <2>6, <2>9 DEF CarefulParts, OneAtATime
    <2>12. HasRoom(o, k + v)
        <3>1. k + v \in Nat /\ k + v <= n
            <4> HIDE DEF p
            <4> QED BY <2>1, <2>4, <2>5, <2>8, <2>10
        <3> QED BY <2>10, <2>11, <3>1, RoomForLess
    <2>13. LimitsHold' /\ (HasRoom(o, k))'
        BY <1>2, <2>1, <2>2, <2>8, <2>12, FilledRoom DEF CarefulParts
    <2>14. (HasRoom(o, Left(o) * UnitPrice(o)))'
        BY <2>6, <2>7, <2>13 DEF HasRoom
    <2>15. \A x \in Orders : Outstanding(x)' => x = o
        BY <1>2, <1>7, <1>10 DEF CarefulParts, OneAtATime
    <2> QED BY <2>13, <2>14, <2>15 DEF OneAtATime
<1> QED BY <1>11, <1>12, <1>13, <1>14 DEF CarefulParts

\* The careful invariant is inductive.
LEMMA CarefulKept ==
    ASSUME BaseInv, BaseInv', CarefulInv, [LedgerNext]_ledgerVars
    PROVE  CarefulInv'
<1> SUFFICES ASSUME careful', mode' = "live" PROVE CarefulParts'
    BY DEF CarefulInv, CarefulParts
<1>1. mode = "live"
    BY DEF LedgerNext, LedgerSteps, ledgerVars, BeginPreview, BeginPaper, CommitPreview,
           CommitReconcile, WritePaper, CommitPaper, Place, ExchangeFill, ExchangeCancel,
           BeginReconcile, Age, ClosePosition, Observe
<1>2. careful
    BY DEF LedgerNext, LedgerSteps, ledgerVars, BeginPreview, BeginPaper, CommitPreview,
           CommitReconcile, WritePaper, CommitPaper, Place, ExchangeFill, ExchangeCancel,
           BeginReconcile, Age, ClosePosition, Observe
<1>3. CarefulParts
    BY <1>1, <1>2 DEF CarefulInv, CarefulParts
<1>4. ASSUME NEW s \in Sessions, NEW o \in Orders, BeginPreview(s, o) PROVE CarefulParts'
    BY <1>3, <1>4, CarefulPreviewBegun
<1>5. ASSUME NEW s \in Sessions, NEW o \in Orders, BeginPaper(s, o) PROVE FALSE
    BY <1>1, <1>5 DEF BeginPaper
<1>6. ASSUME NEW s \in Sessions, CommitPreview(s) PROVE CarefulParts'
    BY <1>3, <1>6, CarefulPreviewed
<1>7. ASSUME NEW s \in Sessions, CommitReconcile(s) PROVE CarefulParts'
    BY <1>3, <1>7, CarefulReconciled
<1>8. ASSUME NEW s \in Sessions, CommitPaper(s) PROVE FALSE
    BY <1>1, <1>8 DEF CommitPaper, BaseInv, ModesApart
<1>9. ASSUME NEW o \in Orders, Place(o) PROVE CarefulParts'
    BY <1>3, <1>9, CarefulPlaced
<1>10. ASSUME NEW o \in Orders, ExchangeFill(o) PROVE CarefulParts'
    <2>1. PICK price : Report(o, 1, price)
        BY <1>10 DEF ExchangeFill
    <2>2. PICK u : /\ u = [order |-> o, nth |-> Cardinality(Reported(o)) + 1, count |-> 1,
                           price |-> price]
                   /\ updates' = updates \cup {u}
        BY <2>1 DEF Report
    <2>3. u.order = o /\ u.count = 1
        BY <2>2
    <2>4. /\ o \in onExchange /\ Cardinality(Filled(o)) < CountOf[o] /\ onExchange' \subseteq onExchange
          /\ UNCHANGED <<orders, applied, books, sessions>>
        BY <1>10 DEF ExchangeFill
    <2> QED BY <1>3, <2>2, <2>3, <2>4, CarefulReported
<1>11. ASSUME NEW o \in Orders, ExchangeCancel(o) PROVE CarefulParts'
    <2>1. PICK u : /\ u = [order |-> o, nth |-> Cardinality(Reported(o)) + 1, count |-> 0,
                           price |-> 0]
                   /\ updates' = updates \cup {u}
        BY <1>11 DEF ExchangeCancel, Report
    <2>2. u.order = o /\ u.count = 0
        BY <2>1
    <2>3. /\ o \in onExchange /\ Cardinality(Filled(o)) < CountOf[o]
          /\ onExchange' \subseteq onExchange /\ o \notin onExchange'
          /\ UNCHANGED <<orders, applied, books, sessions>>
        BY <1>11 DEF ExchangeCancel
    <2> QED BY <1>3, <2>1, <2>2, <2>3, CarefulReported
<1>12. ASSUME NEW s \in Sessions, NEW u \in updates, BeginReconcile(s, u) PROVE CarefulParts'
    BY <1>3, <1>12, CarefulReconcileBegun
<1>13. ASSUME NEW i \in DOMAIN books["live"], Age(i) PROVE CarefulParts'
    <2>1. Settled(i, books["live"][i].lost)
        BY <1>13, AgeEffect DEF BaseInv
    <2>2. UNCHANGED <<orders, onExchange, updates, applied, sessions>>
        BY <1>13 DEF Age
    <2> QED BY <1>3, <2>1, <2>2, CarefulSettled
<1>14. ASSUME NEW i, NEW lost \in BOOLEAN, ClosePosition(i, lost) PROVE CarefulParts'
    <2>1. Settled(i, lost)
        BY <1>14, CloseEffect DEF BaseInv
    <2>2. UNCHANGED <<orders, onExchange, updates, applied, sessions>>
        BY <1>14 DEF ClosePosition
    <2> QED BY <1>3, <2>1, <2>2, CarefulSettled
<1>15. ASSUME UNCHANGED <<orders, onExchange, updates, applied, sessions, books>>
       PROVE  CarefulParts'
    <2>1. Quieter
        BY <1>15 DEF Quieter, Outstanding, AppliedOf, Applied, Filled, Canceled, Reported
    <2>2. Roomier
        BY <1>15, RoomsOfSame
    <2>3. OrdersAreSound'
        BY <1>3, <1>15 DEF CarefulParts, OrdersAreSound, Canceled, Reported
    <2> QED BY <1>3, <1>15, <2>1, <2>2, <2>3, CarefulBeside DEF CarefulParts
<1>16. ASSUME NEW m \in Markets, NEW state \in MarketStates, Observe(m, state)
       PROVE  CarefulParts'
    BY <1>15, <1>16 DEF Observe
<1>17. CASE UNCHANGED ledgerVars
    BY <1>15, <1>17 DEF ledgerVars
<1>18. ASSUME NEW s \in Sessions, WritePaper(s) PROVE FALSE
    BY <1>1, <1>18 DEF WritePaper, BaseInv, ModesApart
<1> QED BY <1>4, <1>5, <1>6, <1>7, <1>8, <1>9, <1>10, <1>11, <1>12, <1>13, <1>14, <1>16, <1>17,
           <1>18
        DEF LedgerNext, LedgerSteps

\* The careful invariant holds at the start.
LEMMA CarefulBegins == LedgerInit => CarefulInv
<1> SUFFICES ASSUME LedgerInit PROVE CarefulParts
    BY DEF CarefulInv, CarefulParts
<1>1. books["live"] = <<>> /\ DOMAIN books["live"] = {}
    BY DEF LedgerInit, Books
<1>2. OpenLive = {} /\ \A m : OpenRows("live", m) = {}
    BY <1>1 DEF OpenLive, OpenRows
<1>3. \A w : SumFunctionOnSet(w, {}) = 0
    BY FS_EmptySet, SumSteps
<1>4. LiveExposure = 0 /\ \A m : MarketExposure(m) = 0
    BY <1>2, <1>3 DEF LiveExposure, MarketExposure, ExposureOver
<1>5. Cardinality(OpenLive) = 0
    BY <1>2, FS_EmptySet
<1>6. LimitsHold
    BY <1>4, <1>5, LimitsAreNat DEF LimitsHold
<1>7. \A o \in Orders : orders[o] = "absent" /\ Reported(o) = {} /\ onExchange = {}
    BY DEF LedgerInit, Reported
<1>8. OneAtATime
    BY <1>7 DEF OneAtATime, Outstanding
<1>9. OrdersAreSound
    BY <1>7 DEF OrdersAreSound
<1>10. ReadsAreCurrent
    <2>1. \A s \in Sessions : sessions[s].pc = "idle"
        BY IdleIsState DEF LedgerInit
    <2> QED BY <2>1 DEF ReadsAreCurrent, IsCurrent
<1> QED BY <1>6, <1>8, <1>9, <1>10 DEF CarefulParts

\* Both invariants hold throughout.
LEMMA CarefulInvariance == LedgerSpec => [](BaseInv /\ CarefulInv)
<1>1. BaseInv /\ CarefulInv /\ [LedgerNext]_ledgerVars => BaseInv' /\ CarefulInv'
    BY BaseKept, CarefulKept
<1>2. LedgerInit => BaseInv /\ CarefulInv
    BY BaseBegins, CarefulBegins
<1> QED BY <1>1, <1>2, PTL DEF LedgerSpec

\* Orders previewed one after another, whose reports are reconciled alone, once and
\* at no higher price than estimated, leave the open positions within the limits of
\* risk/engine.py, whatever the limits, the prices and the sessions.
THEOREM CarefulStaysWithin == LedgerSpec => []ExposureWithinLimits
<1>1. ASSUME BaseInv, CarefulInv PROVE ExposureWithinLimits
    <2>1. CASE mode = "live"
        BY <1>1, <2>1 DEF CarefulInv, LimitsHold, LiveExposure, ExposureWithinLimits
    <2>2. CASE mode = "paper"
        <3>1. DOMAIN books["live"] = {}
            BY <1>1, <2>2 DEF BaseInv, ModesApart
        <3>2. OpenLive = {} /\ \A m : OpenRows("live", m) = {}
            BY <3>1 DEF OpenLive, OpenRows
        <3>3. \A w : SumFunctionOnSet(w, {}) = 0
            BY FS_EmptySet, SumSteps
        <3>4. ExposureOver(books["live"], OpenLive) = 0 /\ \A m : MarketExposure(m) = 0
            BY <3>2, <3>3 DEF MarketExposure, ExposureOver
        <3>5. Cardinality(OpenLive) = 0
            BY <3>2, FS_EmptySet
        <3> QED BY <3>4, <3>5, LimitsAreNat DEF ExposureWithinLimits
    <2>3. mode \in {"live", "paper"}
        BY <1>1 DEF BaseInv, LedgerTypeOK
    <2> QED BY <2>1, <2>2, <2>3
<1> QED BY <1>1, CarefulInvariance, PTL
=============================================================================
