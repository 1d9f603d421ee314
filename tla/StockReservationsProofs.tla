----------------------- MODULE StockReservationsProofs -----------------------
(***************************************************************************)
(* Theorems about StockReservations, for any number of sessions, places,   *)
(* lines and allocations, any quantities, and any statement that fails.    *)
(* First what the proofs need to know of SumFunctionOnSet, the sum of a    *)
(* function over a finite set: that it is defined, that any element can be *)
(* taken out of it first, and what follows from that for two functions or  *)
(* two sets.                                                               *)
(***************************************************************************)
EXTENDS StockReservations, FiniteSetTheorems, WellFoundedInduction, TLAPS

-----------------------------------------------------------------------------
(* Induction over finite sets: a set of them has a minimal one. *)

\* The least-number principle, for sets.
LEMMA LeastNumber ==
  ASSUME NEW T \in SUBSET Nat, T # {}
  PROVE  \E x \in T : \A y \in T : x <= y
<1> DEFINE R == OpToRel(<, Nat)
<1>1. IsWellFoundedOn(R, Nat)
  BY NatLessThanWellFounded
<1>2. \A x, y \in Nat : <<y, x>> \in R <=> y < x
  BY DEF OpToRel
<1> HIDE DEF R
<1>3. PICK x \in T : \A y \in T : ~(<<y, x>> \in R)
  BY <1>1, WFMin
<1>4. \A y \in T : x \in Nat /\ y \in Nat /\ ~(y < x)
  BY <1>2, <1>3
<1> QED
  BY <1>4

\* Among some subsets of a finite set there is one that contains no other.
LEMMA MinimalSubset ==
  ASSUME NEW S, IsFiniteSet(S), NEW B \in SUBSET (SUBSET S), B # {}
  PROVE  \E T \in B : \A U \in B : U \subseteq T => U = T
<1> DEFINE Sizes == {Cardinality(T) : T \in B}
<1>1. \A T \in B : IsFiniteSet(T) /\ Cardinality(T) \in Nat
  BY FS_Subset, FS_CardinalityType
<1>2. Sizes \in SUBSET Nat /\ Sizes # {}
  BY <1>1
<1>3. PICK n \in Sizes : \A m \in Sizes : n <= m
  <2> HIDE DEF Sizes
  <2> QED
    BY <1>2, LeastNumber
<1>4. PICK T \in B : n = Cardinality(T)
  BY <1>3
<1>5. ASSUME NEW U \in B, U \subseteq T PROVE U = T
  <2>1. Cardinality(U) <= Cardinality(T) /\ (Cardinality(T) = Cardinality(U) => T = U)
    BY <1>1, <1>5, FS_Subset
  <2>2. Cardinality(T) <= Cardinality(U)
    BY <1>3, <1>4
  <2> QED
    BY <1>1, <2>1, <2>2
<1> QED
  BY <1>5

-----------------------------------------------------------------------------
(* The sum is defined. *)

First(s) == CHOOSE x \in s : TRUE

\* F gives each subset of S its sum.
Sums(F, f, S) ==
    F = [s \in SUBSET S |-> IF s = {} THEN 0 ELSE f[First(s)] + F[s \ {First(s)}]]

\* The chosen element is one of the set, and without it the set is smaller.
LEMMA FirstIn ==
  ASSUME NEW S, NEW s \in SUBSET S, s # {}
  PROVE  First(s) \in s /\ s \ {First(s)} \in SUBSET S /\ s \ {First(s)} # s
  BY DEF First

\* At most one function does.
LEMMA SumsUnique ==
  ASSUME NEW S, IsFiniteSet(S), NEW f, NEW F, NEW G, Sums(F, f, S), Sums(G, f, S)
  PROVE  F = G
<1> DEFINE B == {s \in SUBSET S : F[s] # G[s]}
<1>0. /\ F = [s \in SUBSET S |-> F[s]]
      /\ G = [s \in SUBSET S |-> G[s]]
      /\ \A s \in SUBSET S : F[s] = IF s = {} THEN 0 ELSE f[First(s)] + F[s \ {First(s)}]
      /\ \A s \in SUBSET S : G[s] = IF s = {} THEN 0 ELSE f[First(s)] + G[s \ {First(s)}]
  BY DEF Sums
<1>1. ASSUME B # {} PROVE FALSE
  <2>1. B \in SUBSET (SUBSET S)
    OBVIOUS
  <2>2. PICK T \in B : \A U \in B : U \subseteq T => U = T
    <3> HIDE DEF B
    <3> QED
      BY <1>1, <2>1, MinimalSubset
  <2>3. T # {}
    BY <1>0
  <2>4. T \ {First(T)} \notin B
    BY <2>2, <2>3, FirstIn
  <2> QED
    BY <1>0, <2>3, <2>4, FirstIn
<1> QED
  BY <1>0, <1>1

\* What gives the subsets of S their sums gives them to those of a part of S.
LEMMA SumsRestrict ==
  ASSUME NEW S, NEW T \in SUBSET S, NEW f, NEW F, Sums(F, f, S)
  PROVE  Sums([s \in SUBSET T |-> F[s]], f, T)
<1>1. \A s \in SUBSET T : F[s] = IF s = {} THEN 0 ELSE f[First(s)] + F[s \ {First(s)}]
  BY DEF Sums
<1>2. \A s \in SUBSET T : s # {} => s \ {First(s)} \in SUBSET T
  BY FirstIn
<1> QED
  BY <1>1, <1>2 DEF Sums

\* One does.
LEMMA SumsExist ==
  ASSUME NEW S, IsFiniteSet(S), NEW f
  PROVE  \E F : Sums(F, f, S)
<1> DEFINE B == {s \in SUBSET S : ~\E F : Sums(F, f, s)}
<1>1. ASSUME B # {} PROVE FALSE
  <2>1. B \in SUBSET (SUBSET S)
    OBVIOUS
  <2>2. PICK T \in B : \A U \in B : U \subseteq T => U = T
    <3> HIDE DEF B
    <3> QED
      BY <1>1, <2>1, MinimalSubset
  <2> DEFINE Of(U) == CHOOSE F : Sums(F, f, U)
             Rest(s) == s \ {First(s)}
             G == [s \in SUBSET T |-> IF s = {} THEN 0 ELSE f[First(s)] + Of(Rest(s))[Rest(s)]]
  <2>3. \A U \in SUBSET T : IsFiniteSet(U)
    BY FS_Subset
  <2>4. ASSUME NEW U \in SUBSET T, U # T PROVE Sums(Of(U), f, U)
    <3>1. U \notin B
      BY <2>2, <2>4
    <3>2. \E F : Sums(F, f, U)
      BY <3>1
    <3> QED
      BY <3>2
  <2>5. \A s \in SUBSET T : s # {} => First(s) \in s /\ Rest(s) \in SUBSET T /\ Rest(s) # T
    BY FirstIn
  <2> HIDE DEF Of
  <2>6. ASSUME NEW u \in SUBSET T, u # T PROVE G[u] = Of(u)[u]
    <3>1. Sums(Of(u), f, u)
      BY <2>4, <2>6
    <3>2. CASE u = {}
      BY <3>1, <3>2 DEF Sums
    <3>3. CASE u # {}
      <4> DEFINE v == Rest(u)
      <4>1. v \in SUBSET u /\ v # T /\ v \in SUBSET T
        BY <2>5, <3>3
      <4>2. Of(u)[u] = f[First(u)] + Of(u)[v]
        BY <3>1, <3>3 DEF Sums
      <4>3. Sums([s \in SUBSET v |-> Of(u)[s]], f, v)
        <5> HIDE DEF v
        <5> QED
          BY <3>1, <4>1, SumsRestrict
      <4>4. Sums(Of(v), f, v)
        BY <2>4, <4>1
      <4>5. Of(v) = [s \in SUBSET v |-> Of(u)[s]]
        <5> HIDE DEF v
        <5> QED
          BY <2>3, <4>1, <4>3, <4>4, SumsUnique
      <4>6. Of(v)[v] = Of(u)[v]
        BY <4>5
      <4> QED
        BY <3>3, <4>2, <4>6
    <3> QED
      BY <3>2, <3>3
  <2>7. \A s \in SUBSET T : G[s] = IF s = {} THEN 0 ELSE f[First(s)] + G[Rest(s)]
    BY <2>5, <2>6
  <2>8. Sums(G, f, T)
    BY <2>7 DEF Sums
  <2> QED
    BY <2>2, <2>8
<1>2. S \notin B
  BY <1>1
<1> QED
  BY <1>2

SumIs(f, S) == CHOOSE F : Sums(F, f, S)

\* The sum of the community modules is that one.
LEMMA SumDefined ==
  ASSUME NEW f, NEW S
  PROVE  SumFunctionOnSet(f, S) = SumIs(f, S)[S]
  BY DEF SumFunctionOnSet, FoldFunctionOnSet, MapThenFoldSet, SumIs, Sums, First

-----------------------------------------------------------------------------
(* Elements are taken out of a sum. *)

\* The sum over nothing is zero.
LEMMA SumOfNone ==
  ASSUME NEW f
  PROVE  SumFunctionOnSet(f, {}) = 0
<1>1. IsFiniteSet({})
  BY FS_EmptySet
<1>2. Sums(SumIs(f, {}), f, {})
  BY <1>1, SumsExist DEF SumIs
<1> QED
  BY <1>2, SumDefined DEF Sums

\* A sum is its chosen element and the sum of the others.
LEMMA SumOfFirst ==
  ASSUME NEW S, IsFiniteSet(S), S # {}, NEW f
  PROVE  SumFunctionOnSet(f, S) = f[First(S)] + SumFunctionOnSet(f, S \ {First(S)})
<1> DEFINE T == S \ {First(S)}
<1>1. IsFiniteSet(T) /\ T \in SUBSET S
  BY FS_Subset
<1>2. Sums(SumIs(f, S), f, S) /\ Sums(SumIs(f, T), f, T)
  BY <1>1, SumsExist DEF SumIs
<1>3. SumIs(f, T) = [s \in SUBSET T |-> SumIs(f, S)[s]]
  <2> DEFINE F == SumIs(f, S)
  <2>1. T \in SUBSET S /\ Sums(F, f, S)
    BY <1>1, <1>2
  <2> HIDE DEF T, F
  <2>2. Sums([s \in SUBSET T |-> F[s]], f, T)
    BY <2>1, SumsRestrict
  <2>3. IsFiniteSet(T) /\ Sums(SumIs(f, T), f, T)
    BY <1>1, <1>2 DEF T
  <2>4. SumIs(f, T) = [s \in SUBSET T |-> F[s]]
    BY <2>2, <2>3, SumsUnique
  <2> QED
    BY <2>4 DEF F
<1>4. SumIs(f, T)[T] = SumIs(f, S)[T]
  BY <1>3
<1>5. SumIs(f, S)[S] = f[First(S)] + SumIs(f, S)[T]
  BY <1>2 DEF Sums
<1> QED
  BY <1>4, <1>5, SumDefined

\* A sum of integers is one.
LEMMA SumOfIntegers ==
  ASSUME NEW S, IsFiniteSet(S), NEW f, \A x \in S : f[x] \in Int
  PROVE  SumFunctionOnSet(f, S) \in Int
<1> DEFINE B == {T \in SUBSET S : SumFunctionOnSet(f, T) \notin Int}
<1>1. ASSUME B # {} PROVE FALSE
  <2>1. B \in SUBSET (SUBSET S)
    OBVIOUS
  <2>2. PICK T \in B : \A U \in B : U \subseteq T => U = T
    <3> HIDE DEF B
    <3> QED
      BY <1>1, <2>1, MinimalSubset
  <2>3. IsFiniteSet(T) /\ T # {}
    <3>1. SumFunctionOnSet(f, {}) = 0
      BY SumOfNone
    <3>2. T # {}
      BY <3>1
    <3> QED
      BY <3>2, FS_Subset
  <2>4. First(T) \in T /\ T \ {First(T)} \notin B
    BY <2>2, <2>3, FirstIn
  <2>5. SumFunctionOnSet(f, T \ {First(T)}) \in Int
    BY <2>4
  <2>6. f[First(T)] \in Int
    BY <2>4
  <2>7. SumFunctionOnSet(f, T) = f[First(T)] + SumFunctionOnSet(f, T \ {First(T)})
    BY <2>3, SumOfFirst
  <2> QED
    BY <2>5, <2>6, <2>7
<1> QED
  BY <1>1

\* Whichever element is taken out first, the sum is the same.
LEMMA SumTakesOut ==
  ASSUME NEW S, IsFiniteSet(S), NEW f, \A x \in S : f[x] \in Int, NEW a \in S
  PROVE  SumFunctionOnSet(f, S) = f[a] + SumFunctionOnSet(f, S \ {a})
<1> DEFINE B == {T \in SUBSET S : \E x \in T :
                    SumFunctionOnSet(f, T) # f[x] + SumFunctionOnSet(f, T \ {x})}
<1>1. ASSUME B # {} PROVE FALSE
  <2>1. B \in SUBSET (SUBSET S)
    OBVIOUS
  <2>2. PICK T \in B : \A U \in B : U \subseteq T => U = T
    <3> HIDE DEF B
    <3> QED
      BY <1>1, <2>1, MinimalSubset
  <2>3. PICK x \in T : SumFunctionOnSet(f, T) # f[x] + SumFunctionOnSet(f, T \ {x})
    BY <2>2
  <2> DEFINE c == First(T)
             U == (T \ {x}) \ {c}
  <2>4. c \in T /\ c # x /\ U = (T \ {c}) \ {x}
    <3>1. IsFiniteSet(T)
      BY FS_Subset
    <3> QED
      BY <2>3, <3>1, FirstIn, SumOfFirst
  <2>5. IsFiniteSet(T) /\ IsFiniteSet(U) /\ \A y \in T : f[y] \in Int
    BY FS_Subset
  <2>6. SumFunctionOnSet(f, T) = f[c] + SumFunctionOnSet(f, T \ {c})
    BY <2>3, <2>5, SumOfFirst
  <2> HIDE DEF c
  <2>7. SumFunctionOnSet(f, T \ {c}) = f[x] + SumFunctionOnSet(f, U)
    <3>1. T \ {c} \notin B
      BY <2>2, <2>4
    <3> QED
      BY <2>4, <3>1
  <2>8. SumFunctionOnSet(f, T \ {x}) = f[c] + SumFunctionOnSet(f, U)
    <3>1. T \ {x} \notin B
      BY <2>2
    <3> QED
      BY <2>4, <3>1
  <2>9. SumFunctionOnSet(f, U) \in Int /\ f[c] \in Int /\ f[x] \in Int
    <3> HIDE DEF U
    <3>1. U \subseteq T
      BY DEF U
    <3> QED
      BY <2>4, <2>5, <3>1, SumOfIntegers
  <2> HIDE DEF U
  <2> QED
    BY <2>3, <2>6, <2>7, <2>8, <2>9
<1> QED
  BY <1>1

-----------------------------------------------------------------------------
(* Sums of two functions, and over two sets. *)

\* Functions that agree on a set have one sum over it.
LEMMA SumOfEqual ==
  ASSUME NEW S, IsFiniteSet(S), NEW f, NEW g, \A x \in S : f[x] = g[x]
  PROVE  SumFunctionOnSet(f, S) = SumFunctionOnSet(g, S)
<1> DEFINE B == {T \in SUBSET S : SumFunctionOnSet(f, T) # SumFunctionOnSet(g, T)}
<1>1. ASSUME B # {} PROVE FALSE
  <2>1. B \in SUBSET (SUBSET S)
    OBVIOUS
  <2>2. PICK T \in B : \A U \in B : U \subseteq T => U = T
    <3> HIDE DEF B
    <3> QED
      BY <1>1, <2>1, MinimalSubset
  <2>3. IsFiniteSet(T) /\ T # {}
    <3>1. SumFunctionOnSet(f, {}) = 0 /\ SumFunctionOnSet(g, {}) = 0
      BY SumOfNone
    <3>2. T # {}
      BY <3>1
    <3> QED
      BY <3>2, FS_Subset
  <2>4. First(T) \in T /\ T \ {First(T)} \notin B
    BY <2>2, <2>3, FirstIn
  <2>5. /\ SumFunctionOnSet(f, T) = f[First(T)] + SumFunctionOnSet(f, T \ {First(T)})
        /\ SumFunctionOnSet(g, T) = g[First(T)] + SumFunctionOnSet(g, T \ {First(T)})
    BY <2>3, SumOfFirst
  <2> QED
    BY <2>4, <2>5
<1> QED
  BY <1>1

\* The sum of f and g is the sum of their sums.
LEMMA SumOfBoth ==
  ASSUME NEW S, IsFiniteSet(S), NEW f, NEW g, NEW h,
         \A x \in S : f[x] \in Int /\ g[x] \in Int /\ h[x] = f[x] + g[x]
  PROVE  SumFunctionOnSet(h, S) = SumFunctionOnSet(f, S) + SumFunctionOnSet(g, S)
<1> DEFINE B == {T \in SUBSET S :
                    SumFunctionOnSet(h, T) # SumFunctionOnSet(f, T) + SumFunctionOnSet(g, T)}
<1>1. ASSUME B # {} PROVE FALSE
  <2>1. B \in SUBSET (SUBSET S)
    OBVIOUS
  <2>2. PICK T \in B : \A U \in B : U \subseteq T => U = T
    <3> HIDE DEF B
    <3> QED
      BY <1>1, <2>1, MinimalSubset
  <2>3. IsFiniteSet(T) /\ T # {}
    <3>1. SumFunctionOnSet(f, {}) = 0 /\ SumFunctionOnSet(g, {}) = 0 /\ SumFunctionOnSet(h, {}) = 0
      BY SumOfNone
    <3>2. SumFunctionOnSet(h, {}) = SumFunctionOnSet(f, {}) + SumFunctionOnSet(g, {})
      BY <3>1
    <3>3. T # {}
      BY <3>2
    <3> QED
      BY <3>3, FS_Subset
  <2> DEFINE c == First(T)
             U == T \ {c}
  <2>4. c \in T /\ U \notin B /\ U \in SUBSET S /\ IsFiniteSet(U)
    BY <2>2, <2>3, FirstIn, FS_Subset
  <2>5. /\ SumFunctionOnSet(f, T) = f[c] + SumFunctionOnSet(f, U)
        /\ SumFunctionOnSet(g, T) = g[c] + SumFunctionOnSet(g, U)
        /\ SumFunctionOnSet(h, T) = h[c] + SumFunctionOnSet(h, U)
    BY <2>3, SumOfFirst
  <2> HIDE DEF c, U
  <2>6. SumFunctionOnSet(h, U) = SumFunctionOnSet(f, U) + SumFunctionOnSet(g, U)
    BY <2>4
  <2>7. SumFunctionOnSet(f, U) \in Int /\ SumFunctionOnSet(g, U) \in Int
    BY <2>4, SumOfIntegers
  <2>8. f[c] \in Int /\ g[c] \in Int /\ h[c] = f[c] + g[c]
    BY <2>4
  <2> QED
    BY <2>2, <2>5, <2>6, <2>7, <2>8
<1> QED
  BY <1>1

\* What is nowhere more has no larger sum.
LEMMA SumOfLess ==
  ASSUME NEW S, IsFiniteSet(S), NEW f, NEW g,
         \A x \in S : f[x] \in Int /\ g[x] \in Int /\ f[x] <= g[x]
  PROVE  SumFunctionOnSet(f, S) <= SumFunctionOnSet(g, S)
<1> DEFINE B == {T \in SUBSET S : ~(SumFunctionOnSet(f, T) <= SumFunctionOnSet(g, T))}
<1>1. ASSUME B # {} PROVE FALSE
  <2>1. B \in SUBSET (SUBSET S)
    OBVIOUS
  <2>2. PICK T \in B : \A U \in B : U \subseteq T => U = T
    <3> HIDE DEF B
    <3> QED
      BY <1>1, <2>1, MinimalSubset
  <2>3. IsFiniteSet(T) /\ T # {}
    <3>1. SumFunctionOnSet(f, {}) = 0 /\ SumFunctionOnSet(g, {}) = 0
      BY SumOfNone
    <3>2. T # {}
      BY <3>1
    <3> QED
      BY <3>2, FS_Subset
  <2> DEFINE c == First(T)
             U == T \ {c}
  <2>4. c \in T /\ U \notin B /\ U \in SUBSET S /\ IsFiniteSet(U)
    BY <2>2, <2>3, FirstIn, FS_Subset
  <2>5. /\ SumFunctionOnSet(f, T) = f[c] + SumFunctionOnSet(f, U)
        /\ SumFunctionOnSet(g, T) = g[c] + SumFunctionOnSet(g, U)
    BY <2>3, SumOfFirst
  <2> HIDE DEF c, U
  <2>6. SumFunctionOnSet(f, U) <= SumFunctionOnSet(g, U)
    BY <2>4
  <2>7. SumFunctionOnSet(f, U) \in Int /\ SumFunctionOnSet(g, U) \in Int
    BY <2>4, SumOfIntegers
  <2>8. f[c] \in Int /\ g[c] \in Int /\ f[c] <= g[c]
    BY <2>4
  <2> QED
    BY <2>2, <2>5, <2>6, <2>7, <2>8
<1> QED
  BY <1>1

\* Elements that add nothing may be left out.
LEMMA SumOfPart ==
  ASSUME NEW S, IsFiniteSet(S), NEW f, NEW P \in SUBSET S,
         \A x \in S : f[x] \in Int, \A x \in S \ P : f[x] = 0
  PROVE  SumFunctionOnSet(f, S) = SumFunctionOnSet(f, P)
<1> DEFINE B == {T \in SUBSET S : P \subseteq T /\ SumFunctionOnSet(f, T) # SumFunctionOnSet(f, P)}
<1>1. ASSUME B # {} PROVE FALSE
  <2>1. B \in SUBSET (SUBSET S)
    OBVIOUS
  <2>2. PICK T \in B : \A U \in B : U \subseteq T => U = T
    <3> HIDE DEF B
    <3> QED
      BY <1>1, <2>1, MinimalSubset
  <2>3. PICK x \in T : x \notin P
    BY <2>2
  <2>4. IsFiniteSet(T) /\ IsFiniteSet(T \ {x})
    BY FS_Subset
  <2>5. SumFunctionOnSet(f, T) = f[x] + SumFunctionOnSet(f, T \ {x})
    BY <2>4, SumTakesOut
  <2>6. SumFunctionOnSet(f, T \ {x}) \in Int /\ f[x] = 0
    BY <2>3, <2>4, SumOfIntegers
  <2>7. T \ {x} \in B
    BY <2>2, <2>3, <2>5, <2>6
  <2> QED
    BY <2>2, <2>7
<1> QED
  BY <1>1

\* Quantities that are not negative add up to one that is not.
LEMMA SumOfNaturals ==
  ASSUME NEW S, IsFiniteSet(S), NEW f, \A x \in S : f[x] \in Nat
  PROVE  SumFunctionOnSet(f, S) \in Nat
<1> DEFINE z == [x \in S |-> 0]
<1>1. \A x \in S : z[x] = 0 /\ z[x] \in Int /\ f[x] \in Int /\ z[x] <= f[x]
  OBVIOUS
<1> HIDE DEF z
<1>2. SumFunctionOnSet(z, S) = SumFunctionOnSet(z, {})
  <2>1. {} \in SUBSET S
    OBVIOUS
  <2> QED
    BY <1>1, <2>1, SumOfPart
<1>3. SumFunctionOnSet(z, {}) = 0
  BY SumOfNone
<1>4. SumFunctionOnSet(z, S) <= SumFunctionOnSet(f, S)
  BY <1>1, SumOfLess
<1>5. SumFunctionOnSet(f, S) \in Int
  BY <1>1, SumOfIntegers
<1> QED
  BY <1>2, <1>3, <1>4, <1>5

-----------------------------------------------------------------------------
(* The requests.                                                               *)

Sales == {"reserve", "release", "cancel", "deliver"}
Keepers == {"reserve", "deliver", "reallocate"}
Givers == {"release", "cancel", "deliver", "free", "drop", "reallocate"}

Does(s, K) == tx[s].kind \in K

-----------------------------------------------------------------------------
(* The inductive invariant: what holds of a session between two of its         *)
(* statements.                                                                 *)

\* Where each kind of request can be; only sales works on lines that are not shared.
RouteOK(s) ==
    /\ pc[s] = "order" => Does(s, Sales)
    /\ pc[s] = "parent" => Does(s, Keepers \cup {"free"})
    /\ pc[s] = "list" => Does(s, {"release", "cancel", "deliver", "free"})
    /\ pc[s] = "claim" => Does(s, {"deliver"})
    /\ pc[s] \in {"alloc", "balance", "totals", "sync"} => Does(s, Givers)
    /\ pc[s] \in {"check", "position"} => Does(s, {"move", "deliver"})
    /\ pc[s] = "item" => Does(s, Keepers \cup {"move"})
    /\ pc[s] \in {"demand", "pick", "rows", "insert"} => Does(s, Keepers)
    /\ Does(s, Sales \cup {"move"}) \/ tx[s].line \in Shared

\* Amid giving up an allocation, which for a delivery includes its posting.
Giving(s) ==
    \/ pc[s] \in {"balance", "totals", "sync"}
    \/ pc[s] \in {"check", "item", "position"} /\ Does(s, {"deliver"}) /\ tx[s].take > 0

\* What is taken is of the allocation in turn, whose row is held.
GiveOK(s) ==
    /\ pc[s] \in {"check", "position"} /\ Does(s, {"deliver"}) => tx[s].take > 0
    /\ Giving(s) => /\ tx[s].take > 0 /\ Listed(s) # {} /\ lock[Alloc(InTurn(s))] = s
                    /\ Whole(s) \/ tx[s].take <= tx[s].amount
    /\ tx[s].take > 0 => Giving(s) \/ pc[s] = "rollback"
    /\ pc[s] = "balance" => tx[s].take <= Left(s, InTurn(s))
    /\ pc[s] = "alloc" => Listed(s) # {}
    /\ pc[s] = "claim" => Unclaimed(s) # {}

\* On the way to reserve something, at positions that have something to give.
KeepOK(s) ==
    /\ \/ pc[s] \in {"demand", "pick", "rows", "insert"}
       \/ pc[s] = "item" /\ ~Posting(s)
       \/ pc[s] = "parent" /\ ~Does(s, {"free"})
       => tx[s].amount > 0
    /\ pc[s] \in {"rows", "insert"} =>
          /\ tx[s].rows # {} /\ tx[s].rows \subseteq tx[s].checked
          /\ \A p \in tx[s].rows : lock[Balance(p)] = s => Suits(s, p)
    /\ pc[s] = "insert" => Unlocked(s) = {}

\* Nothing given back or reserved yet, and no allocation locked.
Starting(s) == pc[s] \in {"idle", "order", "list"} \/ (pc[s] = "parent" /\ Does(s, {"free"}))

\* An allocation that a session lists, writes, holds or made is its line's, and nobody
\* else made it; what it writes it holds, and takes no more than there is.
OwnOK(s) ==
    /\ \A a \in Allocs :
           /\ tx[s].listed[a] > 0 \/ lock[Alloc(a)] = s =>
                 line[a] = tx[s].line /\ \A t \in Sessions \ {s} : a \notin tx[t].made
           /\ tx[s].alloc[a] # 0 => lock[Alloc(a)] = s
           /\ a \in tx[s].made => active[a] = 0 /\ lock[Alloc(a)] = s
           /\ Left(s, a) >= 0
    /\ Starting(s) => \A a \in Allocs : lock[Alloc(a)] # s
    /\ pc[s] = "idle" => \A r \in Rows : lock[r] # s

\* A balance is written as its allocations are.
SumsOK(s) ==
    \A p \in Places : tx[s].held[p] = SumFunctionOnSet(tx[s].alloc, {a \in Allocs : place[a] = p})

\* Sales has the order, and so what it read of the demand stands.
NoneWritten(s) == tx[s].total = Unwritten /\ \A a \in Allocs : tx[s].alloc[a] = 0

OrderOK(s) ==
    /\ Does(s, Sales) /\ pc[s] \notin {"idle", "order", "rollback"} => lock[Order(tx[s].line)] = s
    /\ Does(s, {"cancel", "deliver"}) /\ pc[s] \notin {"idle", "order", "rollback"} =>
          tx[s].n <= need[tx[s].line]
    /\ Does(s, {"move"}) \/ Starting(s) => NoneWritten(s)
    /\ Does(s, Sales) => tx[s].n > 0
    /\ tx[s].total = Unwritten \/ tx[s].total \in Nat
    /\ tx[s].seen \in Nat

\* So what the trigger read of the totals stands, too.
TotalsOK(s) ==
    tx[s].line \notin Shared /\ pc[s] # "rollback" =>
        /\ pc[s] = "sync" => tx[s].seen = HeldBy(s, tx[s].line)
        /\ \/ pc[s] \in {"totals", "sync"}
           \/ tx[s].total = HeldBy(s, tx[s].line)
           \/ NoneWritten(s)

\* A balance is written by who holds it, who knows what it is, and had looked for a count;
\* nothing is promised of it that is not there.
BalanceOK(s) ==
    pc[s] # "rollback" => \A p \in Places :
        /\ tx[s].hand[p] = Unwritten => tx[s].moved[p] = 0
        /\ tx[s].hand[p] # Unwritten =>
              /\ lock[Balance(p)] = s /\ p \in tx[s].checked
              /\ tx[s].hand[p] \in Nat /\ tx[s].hand[p] = onHand[p] + tx[s].moved[p]
        /\ tx[s].held[p] # 0 => lock[Balance(p)] = s
        /\ tx[s].held[p] > 0 => p \in tx[s].checked
        /\ Free(s, p) >= 0

\* Who had looked for a count when there was none is known as having come before it; a
\* reallocation picks its row before it looks.
CheckedOK(s) ==
    /\ pc[s] # "rollback" /\ ~(Does(s, {"reallocate"}) /\ pc[s] = "rows") =>
          \A p \in tx[s].checked \cap counted : s \in early[p]
    /\ Does(s, {"reallocate"}) => tx[s].checked \subseteq {tx[s].place}
    /\ pc[s] \in {"item", "position"} /\ Posting(s) => PostedAt(s) \in tx[s].checked

SessionOK(s) ==
    /\ RouteOK(s) /\ GiveOK(s) /\ KeepOK(s) /\ OwnOK(s) /\ SumsOK(s)
    /\ OrderOK(s) /\ TotalsOK(s) /\ BalanceOK(s) /\ CheckedOK(s)

SessionsOK == \A s \in Sessions : SessionOK(s)

\* A row of stock_reservations that does not exist holds nothing, nowhere.
AllocsOK ==
    \A a \in Allocs :
        /\ line[a] = Nobody <=> place[a] = Nobody
        /\ line[a] = Nobody => active[a] = 0

\* No more is reserved than there is.
Covered == \A p \in Places : reserved[p] <= onHand[p]

Inv ==
    /\ TypeOK
    /\ SessionsOK
    /\ AllocsOK
    /\ Covered
    /\ ReservedIsActive
    /\ BalanceIsLedger
    /\ OrderTotalsFollow

-----------------------------------------------------------------------------
(* Choices. *)

\* A finite set has an element with the largest value.
LEMMA LargestOf ==
  ASSUME NEW S, IsFiniteSet(S), S # {}, NEW f, \A x \in S : f[x] \in Int
  PROVE  \E x \in S : \A y \in S : f[x] >= f[y]
<1> DEFINE B == {T \in SUBSET S : T # {} /\ ~\E x \in T : \A y \in T : f[x] >= f[y]}
<1>1. ASSUME B # {} PROVE FALSE
  <2>1. B \in SUBSET (SUBSET S)
    OBVIOUS
  <2>2. PICK T \in B : \A U \in B : U \subseteq T => U = T
    <3> HIDE DEF B
    <3> QED
      BY <1>1, <2>1, MinimalSubset
  <2>3. PICK c \in T : TRUE
    BY <2>2
  <2>4. CASE T \ {c} = {}
    <3>1. \A y \in T : y = c
      BY <2>4
    <3>2. f[c] \in Int
      OBVIOUS
    <3> QED
      BY <3>1, <3>2
  <2>5. CASE T \ {c} # {}
    <3>1. T \ {c} \notin B
      BY <2>2
    <3>2. PICK x \in T \ {c} : \A y \in T \ {c} : f[x] >= f[y]
      BY <2>5, <3>1
    <3>3. f[x] \in Int /\ f[c] \in Int /\ \A y \in T : f[y] \in Int
      OBVIOUS
    <3>4. CASE f[x] >= f[c]
      BY <3>2, <3>4
    <3>5. CASE ~(f[x] >= f[c])
      <4>1. \A y \in T : f[c] >= f[y]
        BY <3>2, <3>3, <3>5
      <4> QED
        BY <4>1
    <3> QED
      BY <3>4, <3>5
  <2> QED
    BY <2>4, <2>5
<1> QED
  BY <1>1

\* There is a largest and a smallest number in a finite set of them.
LEMMA MaxAndMin ==
  ASSUME NEW S \in SUBSET Nat, IsFiniteSet(S), S # {}
  PROVE  Max(S) \in S /\ Min(S) \in S
<1>1. \E x \in S : \A y \in S : x >= y
  <2> DEFINE f == [x \in S |-> x]
  <2>1. \A x \in S : f[x] \in Int
    OBVIOUS
  <2>2. PICK x \in S : \A y \in S : f[x] >= f[y]
    <3> HIDE DEF f
    <3> QED
      BY <2>1, LargestOf
  <2> QED
    BY <2>2
<1>2. \E x \in S : \A y \in S : x <= y
  BY LeastNumber
<1> QED
  BY <1>1, <1>2 DEF Max, Min

\* The model's own choices are made among what there is.
LEMMA AllocsFinite == IsFiniteSet(Allocs) /\ Allocs \subseteq Nat
<1>1. 1 \in Int /\ AllocCap \in Int
  BY ConstantsOK
<1>2. IsFiniteSet(1 .. AllocCap)
  BY <1>1, FS_Interval
<1>3. 1 .. AllocCap \subseteq Nat
  BY <1>1
<1> QED
  BY <1>2, <1>3 DEF Allocs

\* The allocation in turn is a listed one.
LEMMA InTurnListed ==
  ASSUME NEW s \in Sessions, Listed(s) # {}
  PROVE  InTurn(s) \in Allocs /\ tx[s].listed[InTurn(s)] > 0
<1>1. Listed(s) \in SUBSET Nat /\ IsFiniteSet(Listed(s)) /\ Listed(s) \subseteq Allocs
  BY AllocsFinite, FS_Subset DEF Listed
<1>2. InTurn(s) \in Listed(s)
  BY <1>1, MaxAndMin DEF InTurn
<1> QED
  BY <1>2 DEF Listed

\* So is the next to be claimed, and it is not held yet.
LEMMA UnclaimedTurn ==
  ASSUME NEW s \in Sessions, Unclaimed(s) # {}
  PROVE  /\ Min(Unclaimed(s)) \in Allocs
         /\ tx[s].listed[Min(Unclaimed(s))] > 0
         /\ lock[Alloc(Min(Unclaimed(s)))] # s
<1>1. Unclaimed(s) \in SUBSET Nat /\ IsFiniteSet(Unclaimed(s)) /\ Unclaimed(s) \subseteq Allocs
  BY AllocsFinite, FS_Subset DEF Unclaimed, Listed
<1>2. Min(Unclaimed(s)) \in Unclaimed(s)
  BY <1>1, MaxAndMin
<1> QED
  BY <1>1, <1>2 DEF Unclaimed, Listed

\* The next free row is one that nobody's reservation uses.
LEMMA FreshTurn ==
  ASSUME Fresh # {}
  PROVE  Min(Fresh) \in Allocs /\ line[Min(Fresh)] = Nobody
<1>1. Fresh \in SUBSET Nat /\ IsFiniteSet(Fresh) /\ Fresh \subseteq Allocs
  BY AllocsFinite, FS_Subset DEF Fresh
<1>2. Min(Fresh) \in Fresh
  BY <1>1, MaxAndMin
<1> QED
  BY <1>1, <1>2 DEF Fresh

\* Quantities that a session sees are integers.
LEMMA SeenTyped ==
  ASSUME TypeOK, NEW s \in Sessions
  PROVE  /\ tx[s] \in Request
         /\ \A a \in Allocs : /\ Left(s, a) \in Int /\ tx[s].alloc[a] \in Int /\ active[a] \in Nat
                              /\ tx[s].listed[a] \in Nat
         /\ \A p \in Places : /\ Free(s, p) \in Int /\ Hand(s, p) \in Int /\ tx[s].held[p] \in Int
                              /\ tx[s].hand[p] \in Int /\ tx[s].moved[p] \in Int
                              /\ reserved[p] \in Nat /\ onHand[p] \in Nat /\ ledger[p] \in Int
  BY DEF TypeOK, Request, Writes, Left, Free, Hand, Unwritten

\* The place with the most to give is one of those it is chosen from.
LEMMA FullestIn ==
  ASSUME TypeOK, NEW s \in Sessions, NEW S \in SUBSET Places, S # {}
  PROVE  Fullest(s, S) \in S
<1> DEFINE f == [p \in Places |-> Free(s, p)]
<1>1. IsFiniteSet(S)
  BY ConstantsOK, FS_Subset
<1>2. \A p \in S : f[p] \in Int
  BY SeenTyped
<1>3. PICK p \in S : \A q \in S : f[p] >= f[q]
  <2> HIDE DEF f
  <2> QED
    BY <1>1, <1>2, LargestOf
<1>4. \A q \in S : Free(s, p) >= Free(s, q)
  BY <1>3
<1> QED
  BY <1>4 DEF Fullest

-----------------------------------------------------------------------------
(* Rows and their locks. *)

\* The rows of the model are rows, and none is another.
LEMMA RowsApart ==
  /\ Item \in Rows
  /\ \A l \in Lines : Order(l) \in Rows /\ Parent(l) \in Rows
  /\ \A p \in Places : Balance(p) \in Rows
  /\ \A a \in Allocs : Alloc(a) \in Rows
  /\ \A x, y : Alloc(x) = Alloc(y) <=> x = y
  /\ \A x, y : Balance(x) = Balance(y) <=> x = y
  /\ \A x, y : Order(x) = Order(y) <=> x = y
  /\ \A x, y : /\ Alloc(x) # Balance(y) /\ Alloc(x) # Order(y) /\ Alloc(x) # Parent(y)
               /\ Balance(x) # Order(y) /\ Balance(x) # Parent(y) /\ Order(x) # Parent(y)
  /\ \A x : Alloc(x) # Item /\ Balance(x) # Item /\ Order(x) # Item
  BY DEF Rows, Item, Order, Parent, Balance, Alloc

\* What a statement that takes a row does to the locks.
LEMMA TakesRow ==
  ASSUME TypeOK, NEW s \in Sessions, pc[s] \in Locking, pc[s] = "rows" => Unlocked(s) # {}, Take(s)
  PROVE  /\ lock' \in [Rows -> Sessions \cup {Nobody}]
         /\ \A t \in Sessions \ {s}, r \in Rows : lock'[r] = t <=> lock[r] = t
         /\ \A r \in Rows : lock[r] = s => lock'[r] = s
         /\ \A r \in Rows : r # Wanted(s) => lock'[r] = lock[r]
         /\ Wanted(s) \in Rows => lock'[Wanted(s)] = s
<1>1. lock[Wanted(s)] \in {Nobody, s}
  BY DEF Take, Blocked, Asking
<1>2. lock' = [lock EXCEPT ![Wanted(s)] = s]
  BY DEF Take
<1>3. lock \in [Rows -> Sessions \cup {Nobody}] /\ Nobody \notin Sessions
  BY ConstantsOK DEF TypeOK
<1> DEFINE r0 == Wanted(s)
<1> HIDE DEF r0
<1>4. lock' = [lock EXCEPT ![r0] = s] /\ lock[r0] \in {Nobody, s}
  BY <1>1, <1>2 DEF r0
<1>5. lock' \in [Rows -> Sessions \cup {Nobody}]
  BY <1>3, <1>4
<1>6. \A t \in Sessions \ {s}, r \in Rows : lock'[r] = t <=> lock[r] = t
  BY <1>3, <1>4
<1>7. \A r \in Rows : r # r0 => lock'[r] = lock[r]
  BY <1>3, <1>4
<1>8. r0 \in Rows => lock'[r0] = s
  BY <1>3, <1>4
<1>9. \A r \in Rows : lock[r] = s => lock'[r] = s
  BY <1>3, <1>4
<1> QED
  BY <1>5, <1>6, <1>7, <1>8, <1>9 DEF r0

\* Which row each statement locks.
LEMMA WantedRow ==
  ASSUME NEW s \in Sessions
  PROVE  /\ pc[s] = "order" => Wanted(s) = Order(tx[s].line)
         /\ pc[s] = "claim" => Wanted(s) = Alloc(Min(Unclaimed(s)))
         /\ pc[s] = "alloc" => Wanted(s) = Alloc(InTurn(s))
         /\ pc[s] = "balance" => Wanted(s) = Balance(place[InTurn(s)])
         /\ pc[s] \in {"sync", "parent"} => Wanted(s) = Parent(tx[s].line)
         /\ pc[s] = "position" => Wanted(s) = Balance(PostedAt(s))
         /\ pc[s] = "rows" => Wanted(s) = Balance(Fullest(s, Unlocked(s)))
         /\ pc[s] = "item" => Wanted(s) = Item
  BY DEF Wanted

-----------------------------------------------------------------------------
(* What a statement may change. *)

Request0(s) ==
    BeginSales(s) \/ BeginRelease(s) \/ BeginReleaseOne(s) \/ BeginReallocate(s) \/ BeginMove(s)

Ordering(s) == ReserveForOrder(s) \/ ReleaseForOrder(s) \/ CancelRemaining(s) \/ DispatchDelivery(s)

\* The statements that write nothing others can see before the commit.
Quiet(s) ==
    \/ Ordering(s)
    \/ LockReservation(s) \/ ListAllocations(s) \/ ClaimAllocation(s) \/ LockAllocation(s)
    \/ GiveUpReserved(s) \/ ReadTotals(s) \/ WriteTotals(s)
    \/ CheckCount(s) \/ LockInventoryItem(s) \/ PostMovement(s)
    \/ ReadDemand(s) \/ EnsureReservation(s) \/ PickRows(s) \/ LockRow(s) \/ RowsLocked(s)

Fails(s) == StatementFails(s) \/ DetectDeadlock(s)

\* The statements, by what others can see of them.
LEMMA Steps ==
  ASSUME NEW s \in Sessions
  PROVE  Statement(s) <=> Quiet(s) \/ InsertReservation(s) \/ Commit(s) \/ Rollback(s)
  BY DEF Statement, Quiet, Ordering

\* Nobody else notices: the database stays, and so do the others' rows.
Quietly(s) ==
    /\ UNCHANGED database
    /\ \A t \in Sessions \ {s} : tx'[t] = tx[t] /\ pc'[t] = pc[t]
    /\ \A t \in Sessions \ {s}, r \in Rows : lock'[r] = t <=> lock[r] = t
    /\ lock' \in [Rows -> Sessions \cup {Nobody}]
    /\ pc' = [pc EXCEPT ![s] = pc'[s]]

\* Of a quiet statement the others see no more than the lock it takes.
LEMMA QuietIsQuiet ==
  ASSUME TypeOK, NEW s \in Sessions, Quiet(s)
  PROVE  /\ Quietly(s)
         /\ \A r \in Rows : lock[r] = s => lock'[r] = s
         /\ \A r \in Rows : lock'[r] # lock[r] => pc[s] \in Locking /\ r = Wanted(s)
<1> USE DEF Quietly, TypeOK, Go, At, database, balances, allocations, documents, freeze, bounds
<1>a. ASSUME Take(s), pc[s] \in Locking, pc[s] = "rows" => Unlocked(s) # {}
      PROVE  /\ lock' \in [Rows -> Sessions \cup {Nobody}]
             /\ \A t \in Sessions \ {s}, r \in Rows : lock'[r] = t <=> lock[r] = t
             /\ \A r \in Rows : lock[r] = s => lock'[r] = s
             /\ \A r \in Rows : r # Wanted(s) => lock'[r] = lock[r]
  BY <1>a, TakesRow
<1>1. ASSUME Ordering(s) PROVE Take(s) /\ pc[s] = "order"
  BY <1>1 DEF Ordering, ReserveForOrder, ReleaseForOrder, CancelRemaining, DispatchDelivery
<1>2. CASE Ordering(s)
  BY <1>a, <1>1, <1>2 DEF Ordering, ReserveForOrder, ReleaseForOrder, CancelRemaining,
     DispatchDelivery, Locking
<1>3. CASE LockReservation(s) \/ ClaimAllocation(s) \/ LockAllocation(s) \/ GiveUpReserved(s)
  BY <1>a, <1>3 DEF LockReservation, ClaimAllocation, LockAllocation, GiveUpReserved, Locking
<1>4. CASE WriteTotals(s) \/ LockInventoryItem(s) \/ PostMovement(s)
  BY <1>a, <1>4 DEF WriteTotals, LockInventoryItem, PostMovement, Locking
<1>5. CASE EnsureReservation(s) \/ LockRow(s)
  BY <1>a, <1>5 DEF EnsureReservation, LockRow, Locking
<1>6. CASE ListAllocations(s) \/ ReadTotals(s) \/ CheckCount(s) \/ ReadDemand(s) \/ PickRows(s)
           \/ RowsLocked(s)
  BY <1>6 DEF ListAllocations, ReadTotals, CheckCount, ReadDemand, PickRows, RowsLocked
<1> QED
  BY <1>2, <1>3, <1>4, <1>5, <1>6 DEF Quiet

\* Of a request that arrives they see nothing.
LEMMA RequestIsQuiet ==
  ASSUME TypeOK, NEW s \in Sessions, Request0(s)
  PROVE  Quietly(s) /\ lock' = lock /\ pc[s] = "idle"
  BY DEF Request0, BeginSales, BeginRelease, BeginReleaseOne, BeginReallocate, BeginMove, Begin,
     Quietly, TypeOK, Go, At

\* Nor of a transaction that fails, before it is rolled back.
LEMMA FailIsQuiet ==
  ASSUME TypeOK, NEW s \in Sessions, Fails(s)
  PROVE  Quietly(s) /\ lock' = lock /\ tx' = tx /\ pc'[s] = "rollback" /\ pc[s] # "idle"
<1>1. CASE StatementFails(s)
  BY <1>1 DEF StatementFails, Quietly, TypeOK, Go
<1>2. CASE DetectDeadlock(s)
  BY <1>2 DEF DetectDeadlock, Deadlocked, Blocked, Asking, Locking, Quietly, TypeOK, Go
<1> QED
  BY <1>1, <1>2 DEF Fails

\* An allocation that is dealt with: no longer listed, nothing of it in hand.
Unlisted(s) == [tx[s].listed EXCEPT ![InTurn(s)] = 0]
Remaining(s) == IF Does(s, {"reallocate"}) THEN tx[s].take
                ELSE IF Does(s, {"free", "drop"}) THEN tx[s].amount ELSE tx[s].amount - tx[s].take

\* What is in hand once it is dealt with.
LEMMA SettledFields ==
  ASSUME TypeOK, NEW s \in Sessions, GiveOK(s), Giving(s)
  PROVE  /\ Settled(s) \in Request
         /\ Settled(s).listed = Unlisted(s) /\ Settled(s).take = 0 /\ Settled(s).amount = Remaining(s)
         /\ Settled(s).kind = tx[s].kind /\ Settled(s).line = tx[s].line
         /\ Settled(s).place = tx[s].place /\ Settled(s).n = tx[s].n /\ Settled(s).seen = tx[s].seen
         /\ Settled(s).rows = tx[s].rows /\ Settled(s).checked = tx[s].checked
         /\ Settled(s).made = tx[s].made /\ Settled(s).hand = tx[s].hand
         /\ Settled(s).moved = tx[s].moved /\ Settled(s).held = tx[s].held
         /\ Settled(s).alloc = tx[s].alloc /\ Settled(s).total = tx[s].total
<1>1. tx[s] \in Request
  BY DEF TypeOK
<1>2. Settled(s) = [tx[s] EXCEPT !.listed = Unlisted(s), !.take = 0, !.amount = Remaining(s)]
  <2>1. Remaining(s) = IF tx[s].kind = "reallocate" THEN tx[s].take
                       ELSE IF tx[s].kind \in {"free", "drop"} THEN tx[s].amount
                       ELSE tx[s].amount - tx[s].take
    BY DEF Remaining, Does
  <2> HIDE DEF Remaining
  <2> QED
    BY <1>1, <2>1 DEF Settled, Unlisted, Request
<1>3. Unlisted(s) \in [Allocs -> Nat]
  BY <1>1 DEF Unlisted, Request
<1>4. Remaining(s) \in Nat
  BY <1>1 DEF Remaining, Does, Request, GiveOK, Giving, Whole
<1>5. Settled(s) \in Request
  <2>1. PICK r \in Request : r = tx[s]
    BY <1>1
  <2>2. PICK L \in [Allocs -> Nat] : L = Unlisted(s)
    BY <1>3
  <2>3. PICK m \in Nat : m = Remaining(s)
    BY <1>4
  <2>4. [r EXCEPT !.listed = L, !.take = 0, !.amount = m] \in Request
    BY DEF Request
  <2> QED
    BY <1>2, <2>1, <2>2, <2>3, <2>4
<1> QED
  BY <1>1, <1>2, <1>5 DEF Request

\* Which statements write which part of what a session has in hand.
LEMMA Fields ==
  ASSUME TypeOK, NEW s \in Sessions, RouteOK(s), GiveOK(s), Quiet(s)
  PROVE  /\ tx'[s].kind = tx[s].kind /\ tx'[s].line = tx[s].line /\ tx'[s].place = tx[s].place
         /\ tx'[s].n = tx[s].n /\ tx'[s].made = tx[s].made
         /\ GiveUpReserved(s) \/ (tx'[s].alloc = tx[s].alloc /\ tx'[s].held = tx[s].held)
         /\ PostMovement(s) \/ (tx'[s].hand = tx[s].hand /\ tx'[s].moved = tx[s].moved)
         /\ CheckCount(s) \/ PickRows(s) \/ tx'[s].checked = tx[s].checked
         /\ PickRows(s) \/ LockRow(s) \/ tx'[s].rows = tx[s].rows
         /\ WriteTotals(s) \/ tx'[s].total = tx[s].total
         /\ ReadTotals(s) \/ ReadDemand(s) \/ tx'[s].seen = tx[s].seen
         /\ LockAllocation(s) \/ WriteTotals(s) \/ PostMovement(s) \/ tx'[s].take = tx[s].take
         /\ \/ ListAllocations(s) \/ ClaimAllocation(s) \/ LockAllocation(s) \/ WriteTotals(s)
            \/ PostMovement(s) \/ tx'[s].listed = tx[s].listed
<1> USE DEF TypeOK, Request
<1>2. CASE Ordering(s)
  BY <1>2 DEF Ordering, ReserveForOrder, ReleaseForOrder, CancelRemaining, DispatchDelivery
<1>3. CASE LockReservation(s) \/ LockInventoryItem(s) \/ RowsLocked(s)
  BY <1>3 DEF LockReservation, LockInventoryItem, RowsLocked
<1>4. CASE ListAllocations(s) \/ ClaimAllocation(s)
  BY <1>4 DEF ListAllocations, ClaimAllocation
<1>5. CASE LockAllocation(s)
  <2>1. PICK L, m, k : \/ tx' = [tx EXCEPT ![s].listed = L, ![s].amount = m]
                       \/ tx' = [tx EXCEPT ![s].take = k]
    BY <1>5 DEF LockAllocation
  <2> QED
    BY <1>5, <2>1
<1>6. CASE GiveUpReserved(s)
  BY <1>6 DEF GiveUpReserved
<1>7. CASE ReadTotals(s) \/ ReadDemand(s)
  BY <1>7 DEF ReadTotals, ReadDemand
<1>8. CASE WriteTotals(s)
  <2>1. CASE tx' = [tx EXCEPT ![s].total = tx[s].seen]
    BY <1>8, <2>1
  <2>2. CASE tx' = [tx EXCEPT ![s] = [Settled(s) EXCEPT !.total = tx[s].seen]]
    <3>1. Giving(s)
      BY <1>8 DEF WriteTotals, At, Giving
    <3>2. tx'[s] = [Settled(s) EXCEPT !.total = tx[s].seen] /\ Settled(s) \in Request
      BY <2>2, <3>1, SettledFields
    <3> QED
      BY <1>8, <3>1, <3>2, SettledFields
  <2> QED
    BY <1>8, <2>1, <2>2 DEF WriteTotals
<1>9. CASE CheckCount(s) \/ EnsureReservation(s)
  BY <1>9 DEF CheckCount, EnsureReservation
<1>10. CASE PostMovement(s)
  <2>1. PICK r, h, m : /\ tx' = [tx EXCEPT ![s] = [r EXCEPT !.hand = h, !.moved = m]]
                       /\ r = tx[s] \/ (r = Settled(s) /\ tx[s].kind # "move")
    <3> DEFINE r == IF tx[s].kind = "move" THEN tx[s] ELSE Settled(s)
    <3>1. r = tx[s] \/ (r = Settled(s) /\ tx[s].kind # "move")
      OBVIOUS
    <3>2. [r EXCEPT !.hand[PostedAt(s)] = Posted(s, PostedAt(s)),
                    !.moved[PostedAt(s)] = @ + Signed(s)]
          = [r EXCEPT !.hand = [r.hand EXCEPT ![PostedAt(s)] = Posted(s, PostedAt(s))],
                      !.moved = [r.moved EXCEPT ![PostedAt(s)] = @ + Signed(s)]]
      OBVIOUS
    <3>3. tx' = [tx EXCEPT ![s] = [r EXCEPT !.hand[PostedAt(s)] = Posted(s, PostedAt(s)),
                                            !.moved[PostedAt(s)] = @ + Signed(s)]]
      BY <1>10 DEF PostMovement
    <3> HIDE DEF r
    <3> QED
      BY <3>1, <3>2, <3>3
  <2>2. tx'[s] = [r EXCEPT !.hand = h, !.moved = m]
    BY <2>1
  <2>3. CASE r = tx[s]
    BY <1>10, <2>2, <2>3
  <2>4. CASE r = Settled(s) /\ tx[s].kind # "move"
    <3>1. Giving(s)
      BY <1>10, <2>4 DEF PostMovement, At, Giving, GiveOK, RouteOK, Does
    <3>2. r \in Request
      BY <2>4, <3>1, SettledFields
    <3> QED
      BY <1>10, <2>2, <2>4, <3>1, <3>2, SettledFields
  <2> QED
    BY <2>1, <2>3, <2>4
<1>11. CASE PickRows(s)
  <2> DEFINE found == {p \in Places : Suits(s, p) /\ (tx[s].kind = "reallocate" \/ p \notin counted)}
  <2>1. tx' = [tx EXCEPT ![s].rows = found, ![s].checked = tx[s].checked \cup found]
    BY <1>11 DEF PickRows
  <2> HIDE DEF found
  <2> QED
    BY <1>11, <2>1
<1>12. CASE LockRow(s)
  <2>1. PICK rows : tx' = [tx EXCEPT ![s].rows = rows]
    BY <1>12 DEF LockRow
  <2> QED
    BY <1>12, <2>1
<1> QED
  BY <1>2, <1>3, <1>4, <1>5, <1>6, <1>7, <1>8, <1>9, <1>10, <1>11, <1>12 DEF Quiet

-----------------------------------------------------------------------------
(* Who does not take the step keeps what is said of it, if the step keeps its  *)
(* hands off what the session has locked, listed or read.                      *)

Undisturbed(t) ==
    /\ tx'[t] = tx[t] /\ pc'[t] = pc[t]
    /\ \A r \in Rows : lock'[r] = t <=> lock[r] = t
    /\ \A u \in Sessions \ {t} : tx'[u].made \subseteq tx[u].made \cup Fresh
    /\ \A a \in Allocs : tx[t].listed[a] > 0 \/ lock[Alloc(a)] = t =>
                             line'[a] = line[a] /\ place'[a] = place[a]
    /\ \A a \in Allocs : lock[Alloc(a)] = t => active'[a] = active[a]
    /\ \A p \in Places : lock[Balance(p)] = t => onHand'[p] = onHand[p] /\ reserved'[p] = reserved[p]
    /\ \A l \in Lines : lock[Order(l)] = t => need'[l] = need[l]
    /\ SumsOK(t)'
    /\ tx[t].line \notin Shared /\ lock[Order(tx[t].line)] = t =>
          HeldBy(t, tx[t].line)' = HeldBy(t, tx[t].line)
    /\ \A p \in tx[t].checked \cap counted' : (p \in counted /\ t \notin early[p]) \/ t \in early'[p]

\* An undisturbed session keeps its part of the invariant.
LEMMA UndisturbedKeeps ==
  ASSUME TypeOK, AllocsOK, TypeOK', Covered', NEW t \in Sessions, SessionOK(t), Undisturbed(t)
  PROVE  SessionOK(t)'
<1> USE DEF SessionOK
<1>1. /\ tx'[t] = tx[t] /\ pc'[t] = pc[t]
      /\ \A r \in Rows : lock'[r] = t <=> lock[r] = t
      /\ Listed(t)' = Listed(t) /\ Whole(t)' = Whole(t) /\ Starting(t)' = Starting(t)
      /\ InTurn(t)' = InTurn(t) /\ Posting(t)' = Posting(t) /\ Giving(t)' = Giving(t)
      /\ NoneWritten(t)' = NoneWritten(t)
  BY DEF Undisturbed, Listed, InTurn, Posting, Giving, Whole, NoneWritten, Starting, Does
<1>2. /\ \A a \in Allocs : lock'[Alloc(a)] = t <=> lock[Alloc(a)] = t
      /\ \A p \in Places : lock'[Balance(p)] = t <=> lock[Balance(p)] = t
      /\ \A l \in Lines : lock'[Order(l)] = t <=> lock[Order(l)] = t
  BY <1>1, RowsApart
<1>3. tx[t] \in Request
  BY DEF TypeOK
<1>4. Unclaimed(t)' = Unclaimed(t) /\ Unlocked(t)' = Unlocked(t)
  BY <1>1, <1>2, <1>3 DEF Unclaimed, Unlocked, Listed, Request
<1>5. RouteOK(t)'
  BY <1>1 DEF RouteOK, Does
<1>6. \A a \in Allocs : lock[Alloc(a)] = t => Left(t, a)' = Left(t, a)
  BY <1>1 DEF Left, Undisturbed
<1>7. GiveOK(t)'
  <2>1. Giving(t) => Left(t, InTurn(t))' = Left(t, InTurn(t)) /\ Alloc(InTurn(t)) \in Rows
    <3>1. Giving(t) => InTurn(t) \in Allocs /\ lock[Alloc(InTurn(t))] = t
      BY InTurnListed DEF GiveOK
    <3>2. Left(t, InTurn(t))' = active'[InTurn(t)] + tx'[t].alloc[InTurn(t)]
      BY <1>1 DEF Left
    <3>3. Giving(t) => active'[InTurn(t)] = active[InTurn(t)]
      BY <3>1 DEF Undisturbed
    <3> QED
      BY <1>1, <3>1, <3>2, <3>3, RowsApart DEF Left
  <2> QED
    BY <1>1, <1>2, <1>4, <2>1 DEF GiveOK, Does, Giving
<1>8. \A p \in Places : lock[Balance(p)] = t => Free(t, p)' = Free(t, p) /\ Suits(t, p)' = Suits(t, p)
  BY <1>1 DEF Free, Suits, Hand, Undisturbed
<1>9. KeepOK(t)'
  BY <1>1, <1>2, <1>3, <1>4, <1>8 DEF KeepOK, Request, Does
<1>10. OwnOK(t)'
  <2>1. ASSUME NEW a \in Allocs
        PROVE  /\ tx[t].listed[a] > 0 \/ lock[Alloc(a)] = t =>
                     line'[a] = tx[t].line /\ \A u \in Sessions \ {t} : a \notin tx'[u].made
               /\ tx[t].alloc[a] # 0 => lock[Alloc(a)] = t
               /\ a \in tx[t].made => active'[a] = 0 /\ lock[Alloc(a)] = t
               /\ Left(t, a)' >= 0
    <3>1. tx[t].listed[a] > 0 \/ lock[Alloc(a)] = t =>
             line'[a] = tx[t].line /\ \A u \in Sessions \ {t} : a \notin tx'[u].made
      BY <1>3, ConstantsOK DEF OwnOK, Undisturbed, Fresh, Request
    <3>2. Left(t, a)' >= 0
      <4>1. CASE lock[Alloc(a)] = t
        BY <1>6, <4>1 DEF OwnOK
      <4>2. CASE lock[Alloc(a)] # t
        BY <1>1, <4>2 DEF OwnOK, Left, TypeOK
      <4> QED
        BY <4>1, <4>2
    <3> QED
      BY <3>1, <3>2 DEF OwnOK, Undisturbed
  <2>2. Starting(t) => \A a \in Allocs : lock[Alloc(a)] # t
    BY DEF OwnOK
  <2>3. pc[t] = "idle" => \A r \in Rows : lock[r] # t
    BY DEF OwnOK
  <2> QED
    BY <1>1, <1>2, <2>1, <2>2, <2>3 DEF OwnOK
<1>11. OrderOK(t)'
  <2>1. tx[t].line \in Lines
    BY <1>3 DEF Request
  <2>2. Does(t, {"cancel", "deliver"}) => Does(t, Sales)
    BY DEF Does, Sales
  <2>3. lock[Order(tx[t].line)] = t => need'[tx[t].line] = need[tx[t].line]
    BY <2>1 DEF Undisturbed
  <2> QED
    BY <1>1, <1>2, <2>1, <2>2, <2>3 DEF OrderOK, Does
<1>12. TotalsOK(t)'
  <2>1. tx[t].line \in Lines
    BY <1>3 DEF Request
  <2> SUFFICES ASSUME tx[t].line \notin Shared, pc[t] # "rollback"
               PROVE  /\ pc[t] = "sync" => tx[t].seen = HeldBy(t, tx[t].line)'
                      /\ \/ pc[t] \in {"totals", "sync"}
                         \/ tx[t].total = HeldBy(t, tx[t].line)'
                         \/ NoneWritten(t)
    BY <1>1 DEF TotalsOK
  <2>2. CASE lock[Order(tx[t].line)] = t
    <3>1. HeldBy(t, tx[t].line)' = HeldBy(t, tx[t].line)
      BY <2>2 DEF Undisturbed
    <3> QED
      BY <3>1 DEF TotalsOK
  <2>3. CASE lock[Order(tx[t].line)] # t
    <3>1. Does(t, {"move"}) \/ pc[t] \in {"idle", "order"}
      BY <2>3 DEF OrderOK, RouteOK, Does
    <3> QED
      BY <3>1 DEF OrderOK, RouteOK, Does, Givers, Starting
  <2> QED
    BY <2>2, <2>3
<1>13. BalanceOK(t)'
  <2> SUFFICES ASSUME pc[t] # "rollback", NEW p \in Places
               PROVE  /\ tx[t].hand[p] = Unwritten => tx[t].moved[p] = 0
                      /\ tx[t].hand[p] # Unwritten =>
                            /\ lock[Balance(p)] = t /\ p \in tx[t].checked
                            /\ tx[t].hand[p] \in Nat /\ tx[t].hand[p] = onHand'[p] + tx[t].moved[p]
                      /\ tx[t].held[p] # 0 => lock[Balance(p)] = t
                      /\ tx[t].held[p] > 0 => p \in tx[t].checked
                      /\ Free(t, p)' >= 0
    BY <1>1, <1>2 DEF BalanceOK
  <2>1. CASE lock[Balance(p)] = t
    BY <1>8, <2>1 DEF BalanceOK, Undisturbed
  <2>2. CASE lock[Balance(p)] # t
    <3>1. tx[t].hand[p] = Unwritten /\ tx[t].held[p] = 0
      BY <2>2 DEF BalanceOK
    <3>2. Free(t, p)' = onHand'[p] - reserved'[p]
      BY <1>1, <3>1 DEF Free, Hand, TypeOK
    <3> QED
      BY <2>2, <3>1, <3>2 DEF BalanceOK, Covered, TypeOK
  <2> QED
    BY <2>1, <2>2
<1>14. CheckedOK(t)'
  <2>1. pc[t] \in {"item", "position"} /\ Posting(t) => PostedAt(t)' = PostedAt(t)
    <3>1. CASE tx[t].kind = "move"
      BY <1>1, <3>1 DEF PostedAt
    <3>2. CASE tx[t].kind # "move" /\ tx[t].take > 0 /\ pc[t] \in {"item", "position"}
      <4>1. Listed(t) # {}
        BY <3>2 DEF GiveOK
      <4>2. InTurn(t) \in Allocs /\ tx[t].listed[InTurn(t)] > 0
        BY <4>1, InTurnListed
      <4>3. place'[InTurn(t)] = place[InTurn(t)]
        BY <4>2 DEF Undisturbed
      <4> QED
        BY <1>1, <3>2, <4>3 DEF PostedAt
    <3> QED
      BY <3>1, <3>2, <1>3 DEF Posting
  <2>2. pc[t] # "rollback" /\ ~(Does(t, {"reallocate"}) /\ pc[t] = "rows") =>
            \A p \in tx[t].checked \cap counted' : t \in early'[p]
    BY DEF CheckedOK, Undisturbed
  <2> QED
    BY <1>1, <2>1, <2>2 DEF CheckedOK, Does
<1>15. SumsOK(t)'
  BY DEF Undisturbed
<1> QED
  BY <1>5, <1>7, <1>9, <1>10, <1>11, <1>12, <1>13, <1>14, <1>15

\* A quiet statement disturbs nobody.
LEMMA QuietSpares ==
  ASSUME TypeOK, NEW s \in Sessions, NEW t \in Sessions \ {s}, SessionOK(t),
         Quietly(s), tx'[s].made \subseteq tx[s].made
  PROVE  Undisturbed(t)
<1> USE DEF Quietly, database, balances, allocations, documents, freeze
<1>1. \A u \in Sessions \ {t} : tx'[u].made \subseteq tx[u].made \cup Fresh
  OBVIOUS
<1>2. SumsOK(t)'
  BY DEF SessionOK, SumsOK
<1>3. HeldBy(t, tx[t].line)' = HeldBy(t, tx[t].line)
  BY DEF HeldBy, AllLeft, Left
<1>4. \A p \in tx[t].checked \cap counted' : (p \in counted /\ t \notin early[p]) \/ t \in early'[p]
  OBVIOUS
<1> QED
  BY <1>1, <1>2, <1>3, <1>4 DEF Undisturbed

\* A count that starts or is given up, and a step that is none.
LEMMA CountSpares ==
  ASSUME TypeOK, NEW t \in Sessions, SessionOK(t),
         \/ \E p \in Places : StartCount(p) \/ CancelCount(p)
         \/ UNCHANGED vars
  PROVE  Undisturbed(t)
<1> USE DEF vars, database, balances, allocations, documents, freeze, StartCount, CancelCount
<1>1. UNCHANGED <<balances, allocations, documents, lock, pc, tx>>
  OBVIOUS
<1>2. SumsOK(t)'
  BY <1>1 DEF SessionOK, SumsOK
<1>3. HeldBy(t, tx[t].line)' = HeldBy(t, tx[t].line)
  BY <1>1 DEF HeldBy, AllLeft, Left
<1>4. \A p \in tx[t].checked \cap counted' : (p \in counted /\ t \notin early[p]) \/ t \in early'[p]
  <2>1. CASE UNCHANGED vars
    BY <2>1
  <2>2. ASSUME NEW q \in Places, StartCount(q)
        PROVE  \A p \in tx[t].checked \cap counted' : (p \in counted /\ t \notin early[p]) \/ t \in early'[p]
    BY <2>2 DEF TypeOK, Request
  <2>3. ASSUME NEW q \in Places, CancelCount(q)
        PROVE  \A p \in tx[t].checked \cap counted' : (p \in counted /\ t \notin early[p]) \/ t \in early'[p]
    BY <2>3 DEF TypeOK, Request
  <2> QED
    BY <2>1, <2>2, <2>3
<1> QED
  BY <1>1, <1>2, <1>3, <1>4 DEF Undisturbed

\* What nobody has reserved is nobody's, and holds nothing.
LEMMA FreshIsClear ==
  ASSUME TypeOK, AllocsOK, NEW t \in Sessions, SessionOK(t), NEW a \in Allocs, line[a] = Nobody
  PROVE  /\ lock[Alloc(a)] # t /\ tx[t].alloc[a] = 0 /\ a \notin tx[t].made /\ tx[t].listed[a] = 0
         /\ active[a] = 0 /\ place[a] = Nobody /\ Left(t, a) = 0
<1>1. tx[t].line # Nobody /\ tx[t].listed[a] \in Nat
  BY ConstantsOK DEF TypeOK, Request
<1> QED
  BY <1>1 DEF SessionOK, OwnOK, AllocsOK, Left

\* A sum does not notice that an element which adds nothing changes groups.
LEMMA SumOfGroup ==
  ASSUME NEW f, NEW g, NEW A \in SUBSET Allocs, NEW B \in SUBSET Allocs,
         \A a \in Allocs : f[a] \in Int /\ g[a] \in Int,
         \A a \in Allocs : IF a \in A /\ a \in B THEN f[a] = g[a]
                           ELSE IF a \in A THEN f[a] = 0 ELSE a \in B => g[a] = 0
  PROVE  SumFunctionOnSet(f, A) = SumFunctionOnSet(g, B)
<1>1. IsFiniteSet(A) /\ IsFiniteSet(B) /\ IsFiniteSet(A \cap B)
  BY AllocsFinite, FS_Subset
<1>2. SumFunctionOnSet(f, A) = SumFunctionOnSet(f, A \cap B)
  BY <1>1, SumOfPart
<1>3. SumFunctionOnSet(g, B) = SumFunctionOnSet(g, A \cap B)
  BY <1>1, SumOfPart
<1>4. SumFunctionOnSet(f, A \cap B) = SumFunctionOnSet(g, A \cap B)
  BY <1>1, SumOfEqual
<1> QED
  BY <1>2, <1>3, <1>4

\* What a session holds of a line is a number.
LEMMA HeldTyped ==
  ASSUME TypeOK, NEW s \in Sessions, NEW l
  PROVE  /\ HeldBy(s, l) \in Int
         /\ OwnOK(s) => HeldBy(s, l) \in Nat
<1> DEFINE A == {a \in Allocs : line[a] = l}
<1>1. IsFiniteSet(A)
  BY AllocsFinite, FS_Subset
<1>2. \A a \in A : AllLeft(s)[a] = Left(s, a) /\ Left(s, a) \in Int
  BY SeenTyped DEF AllLeft
<1>3. HeldBy(s, l) = SumFunctionOnSet(AllLeft(s), A)
  BY DEF HeldBy
<1>4. OwnOK(s) => \A a \in A : Left(s, a) >= 0
  BY DEF OwnOK
<1> HIDE DEF A
<1>5. SumFunctionOnSet(AllLeft(s), A) \in Int
  BY <1>1, <1>2, SumOfIntegers
<1>6. OwnOK(s) => SumFunctionOnSet(AllLeft(s), A) \in Nat
  <2>1. ASSUME OwnOK(s) PROVE \A a \in A : AllLeft(s)[a] \in Nat
    BY <1>2, <1>4, <2>1
  <2> QED
    BY <1>1, <2>1, SumOfNaturals
<1> QED
  BY <1>3, <1>5, <1>6

\* What reserving takes: the place with the most, as much of what is lacking as it has,
\* and the next free row.
TakenPlace(s) == Fullest(s, tx[s].rows)
TakenAmount(s) == Smaller(tx[s].amount, Free(s, TakenPlace(s)))
Mine(s) == [tx[s].alloc EXCEPT ![Min(Fresh)] = TakenAmount(s)]
Consumable(s) == [b \in Allocs |-> IF Mine(s)[b] > 0 THEN Mine(s)[b] ELSE 0]

\* The row it makes, the place and the quantity; and where it goes on.
Taking(s, a, p, q) ==
    /\ a \in Allocs /\ line[a] = Nobody /\ p \in tx[s].rows /\ p \in Places
    /\ lock[Balance(p)] = s /\ Suits(s, p)
    /\ q \in Nat /\ q > 0 /\ q <= tx[s].amount /\ q <= Free(s, p)
GoesOn(s, p, q) ==
    \/ /\ pc'[s] = "insert" \/ (pc'[s] = "commit" /\ ~Does(s, {"deliver"}))
       /\ tx'[s].rows = tx[s].rows \ {p} /\ tx'[s].amount = tx[s].amount - q
       /\ pc'[s] = "insert" => tx'[s].amount > 0 /\ tx'[s].rows # {}
       /\ tx'[s].listed = tx[s].listed
    \/ /\ Does(s, {"deliver"}) /\ pc'[s] \in {"alloc", "rollback"}
       /\ pc'[s] = "alloc" => q = tx[s].amount
       /\ tx'[s].rows = {} /\ tx'[s].listed = Consumable(s)
       /\ tx'[s].amount = SumFunctionOnSet(Consumable(s), Allocs)

\* What is in hand once a reservation is inserted.
LEMMA InsertFields ==
  ASSUME TypeOK, NEW s \in Sessions, SessionOK(s), InsertReservation(s),
         NEW a, a = Min(Fresh), NEW p, p = TakenPlace(s), NEW q, q = TakenAmount(s)
  PROVE  /\ Taking(s, a, p, q) /\ GoesOn(s, p, q)
         /\ tx'[s] \in Request /\ \A u \in Sessions \ {s} : tx'[u] = tx[u]
         /\ pc' = [pc EXCEPT ![s] = pc'[s]]
         /\ tx'[s].kind = tx[s].kind /\ tx'[s].line = tx[s].line /\ tx'[s].place = tx[s].place
         /\ tx'[s].n = tx[s].n /\ tx'[s].take = tx[s].take /\ tx'[s].seen = tx[s].seen
         /\ tx'[s].checked = tx[s].checked /\ tx'[s].hand = tx[s].hand /\ tx'[s].moved = tx[s].moved
         /\ tx'[s].alloc = [tx[s].alloc EXCEPT ![a] = q]
         /\ tx'[s].held = [tx[s].held EXCEPT ![p] = tx[s].held[p] + q]
         /\ tx'[s].made = tx[s].made \cup {a}
         /\ tx'[s].total = HeldBy(s, tx[s].line) + q
<1>1. pc[s] = "insert" /\ Fresh # {} /\ tx[s] \in Request
  BY DEF InsertReservation, At, TypeOK
<1>2. a \in Allocs /\ line[a] = Nobody
  BY <1>1, FreshTurn
<1>3. p \in tx[s].rows /\ p \in Places
  BY <1>1, FullestIn DEF SessionOK, KeepOK, TakenPlace, Request
<1>4. lock[Balance(p)] = s /\ Suits(s, p)
  BY <1>1, <1>3 DEF SessionOK, KeepOK, Unlocked
<1>5. tx[s].amount \in Nat /\ tx[s].amount > 0 /\ Free(s, p) \in Int
  BY <1>1, <1>3, SeenTyped DEF SessionOK, KeepOK, Request
<1>6. q \in Nat /\ q > 0 /\ q <= tx[s].amount /\ q <= Free(s, p)
  <2>1. Free(s, p) > 0
    BY <1>4, <1>5 DEF Suits
  <2> QED
    BY <1>5, <2>1 DEF TakenAmount, Smaller
<1> DEFINE mine == Mine(s)
           tot == HeldBy(s, tx[s].line) + q
           held == [tx[s].held EXCEPT ![p] = tx[s].held[p] + q]
           made == tx[s].made \cup {a}
           rows == tx[s].rows \ {p}
           am == tx[s].amount - q
           taken == Consumable(s)
           sum == SumFunctionOnSet(taken, Allocs)
           W == [tx[s] EXCEPT !.alloc = mine, !.held = held, !.made = made, !.total = tot,
                              !.rows = rows, !.amount = am]
           V == [W EXCEPT !.listed = taken, !.rows = {}, !.amount = sum]
<1>7. mine = [tx[s].alloc EXCEPT ![a] = q] /\ mine \in [Allocs -> Int]
  BY <1>1, <1>2, <1>6 DEF Mine, Request
<1>8. held \in Writes /\ made \in SUBSET Allocs /\ rows \in SUBSET Places /\ am \in Nat
  BY <1>1, <1>2, <1>3, <1>5, <1>6 DEF Request, Writes
<1>9. tot \in Int
  BY <1>6, HeldTyped
<1>10. taken \in [Allocs -> Nat]
  BY <1>7 DEF Consumable
<1>11. sum \in Nat
  BY <1>10, AllocsFinite, SumOfNaturals
<1>12. /\ W \in Request /\ V \in Request
       /\ W.kind = tx[s].kind /\ W.line = tx[s].line /\ W.place = tx[s].place /\ W.n = tx[s].n
       /\ W.take = tx[s].take /\ W.seen = tx[s].seen /\ W.checked = tx[s].checked
       /\ W.hand = tx[s].hand /\ W.moved = tx[s].moved /\ W.listed = tx[s].listed
       /\ W.alloc = mine /\ W.held = held /\ W.made = made /\ W.total = tot /\ W.rows = rows /\ W.amount = am
       /\ V.kind = tx[s].kind /\ V.line = tx[s].line /\ V.place = tx[s].place /\ V.n = tx[s].n
       /\ V.take = tx[s].take /\ V.seen = tx[s].seen /\ V.checked = tx[s].checked
       /\ V.hand = tx[s].hand /\ V.moved = tx[s].moved /\ V.listed = taken
       /\ V.alloc = mine /\ V.held = held /\ V.made = made /\ V.total = tot /\ V.rows = {} /\ V.amount = sum
  <2> HIDE DEF mine, tot, held, made, rows, am, taken, sum
  <2>1. W \in Request
    BY <1>1, <1>7, <1>8, <1>9 DEF Request
  <2>2. V \in Request
    <3> HIDE DEF W
    <3> QED
      BY <2>1, <1>10, <1>11 DEF Request
  <2>3. /\ W.kind = tx[s].kind /\ W.line = tx[s].line /\ W.place = tx[s].place /\ W.n = tx[s].n
        /\ W.take = tx[s].take /\ W.seen = tx[s].seen /\ W.checked = tx[s].checked
        /\ W.hand = tx[s].hand /\ W.moved = tx[s].moved /\ W.listed = tx[s].listed
        /\ W.alloc = mine /\ W.held = held /\ W.made = made /\ W.total = tot /\ W.rows = rows
        /\ W.amount = am
    BY <1>1 DEF Request
  <2> HIDE DEF W
  <2>4. /\ V.kind = W.kind /\ V.line = W.line /\ V.place = W.place /\ V.n = W.n
        /\ V.take = W.take /\ V.seen = W.seen /\ V.checked = W.checked
        /\ V.hand = W.hand /\ V.moved = W.moved /\ V.listed = taken
        /\ V.alloc = W.alloc /\ V.held = W.held /\ V.made = W.made /\ V.total = W.total
        /\ V.rows = {} /\ V.amount = sum
    BY <2>1 DEF Request
  <2> HIDE DEF V
  <2> QED
    BY <2>1, <2>2, <2>3, <2>4
<1>13. \/ am > 0 /\ rows # {} /\ tx' = [tx EXCEPT ![s] = W] /\ Go(s, "insert")
       \/ Does(s, {"deliver"}) /\ tx' = [tx EXCEPT ![s] = V] /\ Go(s, Unless(am = 0, "alloc"))
       \/ ~Does(s, {"deliver"}) /\ tx' = [tx EXCEPT ![s] = W] /\ Go(s, "commit")
  <2> DEFINE W0 == [tx[s] EXCEPT !.alloc = mine, !.held[p] = @ + q, !.made = @ \cup {a}, !.total = tot,
                                 !.rows = rows, !.amount = am]
  <2>1. W0 = W
    <3> HIDE DEF mine, tot, rows, am
    <3> QED
      BY <1>1 DEF Request
  <2>2. \/ am > 0 /\ rows # {} /\ tx' = [tx EXCEPT ![s] = W0] /\ Go(s, "insert")
        \/ /\ Does(s, {"deliver"}) /\ Go(s, Unless(am = 0, "alloc"))
           /\ tx' = [tx EXCEPT ![s] = [W0 EXCEPT !.listed = taken, !.rows = {}, !.amount = sum]]
        \/ ~Does(s, {"deliver"}) /\ tx' = [tx EXCEPT ![s] = W0] /\ Go(s, "commit")
    BY DEF InsertReservation, TakenPlace, TakenAmount, Mine, Consumable, Does
  <2> HIDE DEF W0, W, am, rows
  <2> QED
    BY <2>1, <2>2
<1>14. am \in Nat /\ (am = 0 => q = tx[s].amount)
  BY <1>5, <1>6
<1> HIDE DEF W, V, mine, held, made, taken, sum, am
<1>15. tx'[s] \in {W, V} /\ \A u \in Sessions \ {s} : tx'[u] = tx[u]
  BY <1>13 DEF TypeOK
<1>16. pc' = [pc EXCEPT ![s] = pc'[s]]
  BY <1>13 DEF TypeOK, Go, Unless
<1>17. \/ tx'[s] = W /\ (pc'[s] = "insert" \/ (pc'[s] = "commit" /\ ~Does(s, {"deliver"})))
               /\ (pc'[s] = "insert" => am > 0 /\ rows # {})
       \/ tx'[s] = V /\ Does(s, {"deliver"}) /\ pc'[s] \in {"alloc", "rollback"}
               /\ (pc'[s] = "alloc" => am = 0)
  BY <1>13 DEF TypeOK, Go, Unless
<1>18. am = tx[s].amount - q /\ made = tx[s].made \cup {a} /\ taken = Consumable(s)
       /\ held = [tx[s].held EXCEPT ![p] = tx[s].held[p] + q]
       /\ sum = SumFunctionOnSet(Consumable(s), Allocs)
  BY DEF am, made, held, taken, sum
<1>19. Taking(s, a, p, q)
  BY <1>2, <1>3, <1>4, <1>6 DEF Taking
<1>20. GoesOn(s, p, q)
  BY <1>12, <1>14, <1>17, <1>18 DEF GoesOn
<1> QED
  BY <1>7, <1>12, <1>15, <1>16, <1>18, <1>19, <1>20

\* Nor does a reservation: its row was free.
LEMMA InsertSpares ==
  ASSUME TypeOK, AllocsOK, NEW s \in Sessions, NEW t \in Sessions \ {s}, SessionOK(t), SessionOK(s),
         InsertReservation(s)
  PROVE  Undisturbed(t)
<1> DEFINE a == Min(Fresh)
           p == TakenPlace(s)
<1>1. /\ a \in Allocs /\ line[a] = Nobody
      /\ lock' = [lock EXCEPT ![Alloc(a)] = s]
      /\ place' = [place EXCEPT ![a] = p] /\ line' = [line EXCEPT ![a] = tx[s].line]
      /\ UNCHANGED <<onHand, reserved, ledger, active, total, need, counted, early>>
  BY FreshTurn DEF InsertReservation, balances, documents, freeze, TakenPlace
<1>2. /\ tx'[t] = tx[t] /\ pc'[t] = pc[t]
      /\ \A u \in Sessions \ {s} : tx'[u] = tx[u]
      /\ tx'[s].made = tx[s].made \cup {a}
  <2>1. PICK q : q = TakenAmount(s)
    OBVIOUS
  <2> HIDE DEF a, p
  <2>2. a = Min(Fresh) /\ p = TakenPlace(s)
    BY DEF a, p
  <2>3. /\ pc' = [pc EXCEPT ![s] = pc'[s]] /\ \A u \in Sessions \ {s} : tx'[u] = tx[u]
        /\ tx'[s].made = tx[s].made \cup {a}
    BY <2>1, <2>2, InsertFields
  <2> QED
    BY <2>3 DEF TypeOK
<1> HIDE DEF p
<1>3. /\ lock[Alloc(a)] # t /\ tx[t].alloc[a] = 0 /\ tx[t].listed[a] = 0 /\ active[a] = 0 /\ place[a] = Nobody
  BY <1>1, FreshIsClear
<1> SUFFICES ASSUME NEW c \in Allocs, c = a PROVE Undisturbed(t)
  BY <1>1
<1> HIDE DEF a
<1>4. \A r \in Rows : lock'[r] = t <=> lock[r] = t
  BY <1>1, <1>3 DEF TypeOK
<1>5. \A x \in Allocs \ {c} : line'[x] = line[x] /\ place'[x] = place[x]
  BY <1>1 DEF TypeOK
<1>6. \A u \in Sessions \ {t} : tx'[u].made \subseteq tx[u].made \cup Fresh
  BY <1>1, <1>2 DEF Fresh
<1>7. \A x \in Allocs : tx[t].alloc[x] \in Int /\ Left(t, x) \in Int
  BY SeenTyped
<1>8. SumsOK(t)'
  <2> SUFFICES ASSUME NEW o \in Places
               PROVE  tx[t].held[o] = SumFunctionOnSet(tx[t].alloc, {x \in Allocs : place'[x] = o})
    BY <1>2 DEF SumsOK
  <2> DEFINE A == {x \in Allocs : place[x] = o}
             B == {x \in Allocs : place'[x] = o}
             f == tx[t].alloc
  <2>1. tx[t].held[o] = SumFunctionOnSet(f, A)
    BY DEF SessionOK, SumsOK
  <2>2. \A x \in Allocs : IF x \in A /\ x \in B THEN f[x] = f[x]
                          ELSE IF x \in A THEN f[x] = 0 ELSE x \in B => f[x] = 0
    BY <1>3, <1>5
  <2>3. A \in SUBSET Allocs /\ B \in SUBSET Allocs /\ \A x \in Allocs : f[x] \in Int
    BY <1>7
  <2> HIDE DEF A, B, f
  <2>4. SumFunctionOnSet(f, A) = SumFunctionOnSet(f, B)
    BY <2>2, <2>3, SumOfGroup
  <2> QED
    BY <2>1, <2>4 DEF A, B, f
<1>9. HeldBy(t, tx[t].line)' = HeldBy(t, tx[t].line)
  <2> DEFINE A == {x \in Allocs : line[x] = tx[t].line}
             B == {x \in Allocs : line'[x] = tx[t].line}
             f == AllLeft(t)
  <2>1. AllLeft(t)' = f
    BY <1>1, <1>2 DEF AllLeft, Left
  <2>2. f[c] = 0 /\ \A x \in Allocs : f[x] \in Int
    BY <1>1, <1>3, <1>7 DEF AllLeft, Left
  <2>3. \A x \in Allocs : IF x \in A /\ x \in B THEN f[x] = f[x]
                          ELSE IF x \in A THEN f[x] = 0 ELSE x \in B => f[x] = 0
    BY <1>5, <2>2
  <2>4. A \in SUBSET Allocs /\ B \in SUBSET Allocs
    OBVIOUS
  <2> HIDE DEF f
  <2>5. HeldBy(t, tx[t].line)' = SumFunctionOnSet(f, B)
    BY <1>2, <2>1 DEF HeldBy
  <2>6. HeldBy(t, tx[t].line) = SumFunctionOnSet(f, A)
    BY DEF HeldBy, f
  <2> HIDE DEF A, B
  <2> QED
    BY <2>2, <2>3, <2>4, <2>5, <2>6, SumOfGroup
<1>10. \A o \in tx[t].checked \cap counted' : (o \in counted /\ t \notin early[o]) \/ t \in early'[o]
  BY <1>1
<1>11. \A x \in Allocs : tx[t].listed[x] > 0 \/ lock[Alloc(x)] = t => line'[x] = line[x] /\ place'[x] = place[x]
  BY <1>3, <1>5
<1> QED
  BY <1>1, <1>2, <1>4, <1>6, <1>8, <1>9, <1>10, <1>11 DEF Undisturbed

\* A session that is idle has nothing in hand.
LEMMA IdleTyped ==
  /\ Idle \in Request
  /\ Idle.kind = "move" /\ Idle.n = 0 /\ Idle.amount = 0 /\ Idle.take = 0 /\ Idle.seen = 0
  /\ Idle.rows = {} /\ Idle.checked = {} /\ Idle.made = {} /\ Idle.total = Unwritten
  /\ Idle.line \in Lines /\ Idle.place \in Places
  /\ Idle.listed = [a \in Allocs |-> 0] /\ Idle.alloc = [a \in Allocs |-> 0]
  /\ Idle.hand = [p \in Places |-> Unwritten]
  /\ Idle.moved = [p \in Places |-> 0] /\ Idle.held = [p \in Places |-> 0]
<1>1. AnyPlace \in Places /\ AnyLine \in Lines
  BY ConstantsOK DEF AnyPlace, AnyLine
<1>2. /\ [a \in Allocs |-> 0] \in [Allocs -> Nat] /\ [a \in Allocs |-> 0] \in [Allocs -> Int]
      /\ [p \in Places |-> Unwritten] \in Writes /\ [p \in Places |-> 0] \in Writes
  BY DEF Writes, Unwritten
<1>3. "move" \in Kinds /\ Unwritten \in Int
  BY DEF Kinds, Unwritten
<1> HIDE DEF Unwritten, Writes, Kinds
<1>4. Idle \in Request
  BY <1>1, <1>2, <1>3 DEF Idle, Request
<1> QED
  BY <1>1, <1>4 DEF Idle

\* The end of a transaction: its locks are gone and nothing is left in hand.
LEMMA Ends ==
  ASSUME TypeOK, NEW s \in Sessions, End(s)
  PROVE  /\ lock' \in [Rows -> Sessions \cup {Nobody}] /\ early' \in [Places -> SUBSET Sessions]
         /\ \A r \in Rows : lock'[r] # s
         /\ \A t \in Sessions \ {s}, r \in Rows : lock'[r] = t <=> lock[r] = t
         /\ \A t \in Sessions \ {s}, p \in Places : t \in early'[p] <=> t \in early[p]
         /\ \A t \in Sessions \ {s} : tx'[t] = tx[t] /\ pc'[t] = pc[t]
         /\ tx'[s] = Idle /\ pc'[s] = "idle" /\ pc' = [pc EXCEPT ![s] = "idle"]
         /\ tx' = [tx EXCEPT ![s] = Idle]
<1>1. Nobody \notin Sessions
  BY ConstantsOK
<1>2. lock' = [r \in Rows |-> IF lock[r] = s THEN Nobody ELSE lock[r]]
  BY DEF End, LetGo
<1> QED
  BY <1>1, <1>2 DEF End, TypeOK, Go

\* Nor does a commit: what it publishes is of rows the others do not hold, and of an order
\* they have not locked.
LEMMA CommitSpares ==
  ASSUME TypeOK, AllocsOK, NEW s \in Sessions, NEW t \in Sessions \ {s}, SessionOK(t), SessionOK(s),
         Commit(s)
  PROVE  Undisturbed(t)
<1>1. /\ pc[s] = "commit" /\ End(s) /\ UNCHANGED <<place, line, counted>>
      /\ onHand' = [p \in Places |-> Hand(s, p)]
      /\ reserved' = [p \in Places |-> reserved[p] + tx[s].held[p]]
      /\ active' = [a \in Allocs |-> active[a] + tx[s].alloc[a]]
      /\ \A l \in Lines : l # tx[s].line \/ ~Does(s, {"cancel", "deliver"}) => need'[l] = need[l]
  BY DEF Commit, At, Does, TypeOK
<1>2. /\ \A r \in Rows : lock'[r] = t <=> lock[r] = t
      /\ \A p \in Places : t \in early'[p] <=> t \in early[p]
      /\ \A u \in Sessions \ {s} : tx'[u] = tx[u] /\ pc'[u] = pc[u]
      /\ tx'[s].made = {}
  BY <1>1, Ends, IdleTyped
<1>3. /\ tx[s] \in Request /\ tx[t] \in Request
      /\ \A a \in Allocs : tx[s].alloc[a] \in Int /\ active[a] \in Nat
      /\ \A p \in Places : reserved[p] \in Nat /\ tx[s].held[p] \in Int
  BY SeenTyped DEF TypeOK
<1>4. \A a \in Allocs : tx[s].alloc[a] = 0 => active'[a] = active[a]
  BY <1>1, <1>3
<1>5. \A a \in Allocs : lock[Alloc(a)] = t => active'[a] = active[a]
  BY <1>4 DEF SessionOK, OwnOK
<1>6. \A p \in Places : lock[Balance(p)] = t => onHand'[p] = onHand[p] /\ reserved'[p] = reserved[p]
  <2> SUFFICES ASSUME NEW p \in Places, lock[Balance(p)] = t
               PROVE  onHand'[p] = onHand[p] /\ reserved'[p] = reserved[p]
    OBVIOUS
  <2>1. tx[s].hand[p] = Unwritten /\ tx[s].held[p] = 0
    BY <1>1 DEF SessionOK, BalanceOK
  <2> QED
    BY <1>1, <1>3, <2>1 DEF Hand
<1>7. \A l \in Lines : lock[Order(l)] = t => need'[l] = need[l]
  BY <1>1 DEF SessionOK, OrderOK, Does, Sales
<1>8. SumsOK(t)'
  BY <1>1, <1>2 DEF SessionOK, SumsOK
<1>9. ASSUME tx[t].line \notin Shared, lock[Order(tx[t].line)] = t
      PROVE  HeldBy(t, tx[t].line)' = HeldBy(t, tx[t].line)
  <2> DEFINE l == tx[t].line
             A == {a \in Allocs : line[a] = l}
             f == AllLeft(t)
             g == AllLeft(t)'
  <2>1. ASSUME NEW a \in A PROVE tx[s].alloc[a] = 0
    <3>1. CASE tx[s].line # l
      BY <3>1 DEF SessionOK, OwnOK
    <3>2. CASE tx[s].line = l
      <4>1. Does(s, Sales \cup {"move"}) /\ lock[Order(tx[s].line)] # s
        BY <1>9, <3>2 DEF SessionOK, RouteOK
      <4>2. NoneWritten(s)
        BY <1>1, <4>1 DEF SessionOK, OrderOK, Does
      <4> QED
        BY <4>2 DEF NoneWritten
    <3> QED
      BY <3>1, <3>2
  <2>2. \A a \in Allocs : f[a] = active[a] + tx[t].alloc[a] /\ g[a] = active'[a] + tx[t].alloc[a]
    BY <1>2 DEF AllLeft, Left
  <2>3. IsFiniteSet(A) /\ \A a \in A : f[a] = g[a]
    <3>1. IsFiniteSet(A)
      BY AllocsFinite, FS_Subset
    <3> HIDE DEF f, g
    <3> QED
      BY <1>4, <2>1, <2>2, <3>1
  <2>4. HeldBy(t, l)' = SumFunctionOnSet(g, A) /\ HeldBy(t, l) = SumFunctionOnSet(f, A)
    BY <1>1, <1>2 DEF HeldBy
  <2> HIDE DEF A, f, g
  <2>5. SumFunctionOnSet(f, A) = SumFunctionOnSet(g, A)
    BY <2>3, SumOfEqual
  <2> QED
    BY <2>4, <2>5
<1>10. \A p \in tx[t].checked \cap counted' : (p \in counted /\ t \notin early[p]) \/ t \in early'[p]
  BY <1>1, <1>2, <1>3 DEF Request
<1>11. \A u \in Sessions \ {t} : tx'[u].made \subseteq tx[u].made \cup Fresh
  BY <1>2
<1> QED
  BY <1>1, <1>2, <1>5, <1>6, <1>7, <1>8, <1>9, <1>10, <1>11 DEF Undisturbed

\* Nor does a rollback: the rows it unmakes are listed and held by nobody else.
LEMMA RollbackSpares ==
  ASSUME TypeOK, AllocsOK, NEW s \in Sessions, NEW t \in Sessions \ {s}, SessionOK(t), SessionOK(s),
         Rollback(s)
  PROVE  Undisturbed(t)
<1>1. /\ End(s) /\ UNCHANGED <<onHand, reserved, active, need, counted>>
      /\ place' = [a \in Allocs |-> IF a \in tx[s].made THEN Nobody ELSE place[a]]
      /\ line' = [a \in Allocs |-> IF a \in tx[s].made THEN Nobody ELSE line[a]]
  BY DEF Rollback, balances, documents
<1>2. /\ \A r \in Rows : lock'[r] = t <=> lock[r] = t
      /\ \A p \in Places : t \in early'[p] <=> t \in early[p]
      /\ \A u \in Sessions \ {s} : tx'[u] = tx[u] /\ pc'[u] = pc[u]
      /\ tx'[s].made = {}
  BY <1>1, Ends, IdleTyped
<1>3. tx[s] \in Request /\ tx[t] \in Request /\ Nobody \notin Places \cup Lines
  BY ConstantsOK DEF TypeOK
<1>4. \A a \in Allocs : a \in tx[s].made =>
          tx[t].alloc[a] = 0 /\ tx[t].listed[a] = 0 /\ lock[Alloc(a)] # t /\ active[a] = 0
  BY <1>3 DEF SessionOK, OwnOK, Request
<1>5. \A a \in Allocs : a \notin tx[s].made => line'[a] = line[a] /\ place'[a] = place[a]
  BY <1>1
<1>6. \A a \in Allocs : a \in tx[s].made => line'[a] = Nobody /\ place'[a] = Nobody
  BY <1>1
<1>7. \A a \in Allocs : tx[t].alloc[a] \in Int /\ active[a] \in Nat
  BY SeenTyped
<1>8. SumsOK(t)'
  <2> SUFFICES ASSUME NEW o \in Places
               PROVE  tx[t].held[o] = SumFunctionOnSet(tx[t].alloc, {x \in Allocs : place'[x] = o})
    BY <1>2 DEF SumsOK
  <2> DEFINE A == {x \in Allocs : place[x] = o}
             B == {x \in Allocs : place'[x] = o}
             f == tx[t].alloc
  <2>1. tx[t].held[o] = SumFunctionOnSet(f, A)
    BY DEF SessionOK, SumsOK
  <2>2. \A x \in Allocs : IF x \in A /\ x \in B THEN f[x] = f[x]
                          ELSE IF x \in A THEN f[x] = 0 ELSE x \in B => f[x] = 0
    BY <1>4, <1>5, <1>6
  <2>3. A \in SUBSET Allocs /\ B \in SUBSET Allocs /\ \A x \in Allocs : f[x] \in Int
    BY <1>7
  <2> HIDE DEF A, B, f
  <2>4. SumFunctionOnSet(f, A) = SumFunctionOnSet(f, B)
    BY <2>2, <2>3, SumOfGroup
  <2> QED
    BY <2>1, <2>4 DEF A, B, f
<1>9. HeldBy(t, tx[t].line)' = HeldBy(t, tx[t].line)
  <2> DEFINE A == {x \in Allocs : line[x] = tx[t].line}
             B == {x \in Allocs : line'[x] = tx[t].line}
             f == AllLeft(t)
  <2>1. AllLeft(t)' = f
    BY <1>1, <1>2 DEF AllLeft, Left
  <2>2. \A x \in Allocs : f[x] \in Int /\ (x \in tx[s].made => f[x] = 0)
    BY <1>4, <1>7 DEF AllLeft, Left
  <2>3. \A x \in Allocs : IF x \in A /\ x \in B THEN f[x] = f[x]
                          ELSE IF x \in A THEN f[x] = 0 ELSE x \in B => f[x] = 0
    BY <1>5, <2>2
  <2>4. A \in SUBSET Allocs /\ B \in SUBSET Allocs
    OBVIOUS
  <2> HIDE DEF f
  <2>5. HeldBy(t, tx[t].line)' = SumFunctionOnSet(f, B)
    BY <1>2, <2>1 DEF HeldBy
  <2>6. HeldBy(t, tx[t].line) = SumFunctionOnSet(f, A)
    BY DEF HeldBy, f
  <2> HIDE DEF A, B
  <2> QED
    BY <2>2, <2>3, <2>4, <2>5, <2>6, SumOfGroup
<1>10. \A p \in tx[t].checked \cap counted' : (p \in counted /\ t \notin early[p]) \/ t \in early'[p]
  BY <1>1, <1>2, <1>3 DEF Request
<1>11. \A u \in Sessions \ {t} : tx'[u].made \subseteq tx[u].made \cup Fresh
  BY <1>2
<1>12. \A a \in Allocs : tx[t].listed[a] > 0 \/ lock[Alloc(a)] = t => line'[a] = line[a] /\ place'[a] = place[a]
  BY <1>4, <1>5
<1> QED
  BY <1>1, <1>2, <1>8, <1>9, <1>10, <1>11, <1>12 DEF Undisturbed

-----------------------------------------------------------------------------
(* The step of the session itself: its transaction begins or ends.             *)

\* Nothing of it in hand.
EmptyHanded(r) ==
    /\ r.take = 0 /\ r.seen = 0 /\ r.rows = {} /\ r.checked = {} /\ r.made = {} /\ r.total = Unwritten
    /\ r.alloc = [a \in Allocs |-> 0] /\ r.hand = [p \in Places |-> Unwritten]
    /\ r.moved = [p \in Places |-> 0] /\ r.held = [p \in Places |-> 0]

\* Zeros add up to zero.
LEMMA SumOfZeros ==
  ASSUME NEW A \in SUBSET Allocs
  PROVE  SumFunctionOnSet([a \in Allocs |-> 0], A) = 0
<1> DEFINE z == [a \in Allocs |-> 0]
<1>1. IsFiniteSet(A) /\ {} \in SUBSET A
  BY AllocsFinite, FS_Subset
<1>2. \A a \in A : z[a] \in Int /\ z[a] = 0
  OBVIOUS
<1> HIDE DEF z
<1>3. SumFunctionOnSet(z, A) = SumFunctionOnSet(z, {})
  BY <1>1, <1>2, SumOfPart
<1>4. SumFunctionOnSet(z, A) = 0
  BY <1>3, SumOfNone
<1> QED
  BY <1>4 DEF z

\* A transaction that begins has nothing in hand, and all is well with it.
LEMMA StartsOK ==
  ASSUME TypeOK', Covered', NEW s \in Sessions, EmptyHanded(tx'[s]), RouteOK(s)',
         \A r \in Rows : lock'[r] # s,
         \/ pc'[s] \in {"idle", "order"}
         \/ pc'[s] = "parent" /\ Does(s, {"free"})'
         \/ pc'[s] = "alloc" /\ ~Does(s, Sales)' /\ Listed(s)' # {}
         \/ pc'[s] = "check" /\ Does(s, {"move"})',
         \A a \in Allocs : tx'[s].listed[a] > 0 =>
             line'[a] = tx'[s].line /\ \A t \in Sessions \ {s} : a \notin tx'[t].made,
         Does(s, Sales)' => tx'[s].n > 0
  PROVE  SessionOK(s)'
<1> USE DEF EmptyHanded
<1>1. /\ tx'[s] \in Request /\ active' \in [Allocs -> Nat]
      /\ onHand' \in [Places -> Nat] /\ reserved' \in [Places -> Nat]
  BY DEF TypeOK
<1>2. \A p \in Places : lock'[Balance(p)] # s
  BY RowsApart
<1>3. \A a \in Allocs : lock'[Alloc(a)] # s
  BY RowsApart
<1>4. NoneWritten(s)'
  BY DEF NoneWritten
<1>5. ~Giving(s)'
  BY DEF Giving
<1>6. GiveOK(s)'
  BY <1>5 DEF GiveOK, Does
<1>7. KeepOK(s)'
  BY DEF KeepOK, Does
<1>8. OwnOK(s)'
  <2>1. \A a \in Allocs : Left(s, a)' >= 0
    BY <1>1 DEF Left
  <2> QED
    BY <1>3, <2>1 DEF OwnOK
<1>9. SumsOK(s)'
  <2> SUFFICES ASSUME NEW p \in Places
               PROVE  0 = SumFunctionOnSet([a \in Allocs |-> 0], {a \in Allocs : place'[a] = p})
    BY DEF SumsOK
  <2> QED
    BY SumOfZeros
<1>10. OrderOK(s)'
  BY <1>4 DEF OrderOK, Does, Sales, RouteOK
<1>11. TotalsOK(s)'
  BY <1>4 DEF TotalsOK
<1>12. BalanceOK(s)'
  <2>1. \A p \in Places : Free(s, p)' = onHand'[p] - reserved'[p]
    BY <1>1 DEF Free, Hand
  <2> QED
    BY <1>1, <2>1 DEF BalanceOK, Covered
<1>13. CheckedOK(s)'
  BY DEF CheckedOK
<1> QED
  BY <1>6, <1>7, <1>8, <1>9, <1>10, <1>11, <1>12, <1>13 DEF SessionOK

\* Back to rest.
LEMMA RestsOK ==
  ASSUME TypeOK', Covered', NEW s \in Sessions, tx'[s] = Idle, pc'[s] = "idle",
         \A r \in Rows : lock'[r] # s
  PROVE  SessionOK(s)'
<1>1. EmptyHanded(tx'[s]) /\ tx'[s].kind = "move" /\ \A a \in Allocs : tx'[s].listed[a] = 0
  BY IdleTyped DEF EmptyHanded
<1>2. RouteOK(s)'
  BY <1>1 DEF RouteOK, Does, Sales
<1>3. ~Does(s, Sales)'
  BY <1>1 DEF Does, Sales
<1> QED
  BY <1>1, <1>2, <1>3, StartsOK

\* A request that arrives: which it can be, and where it starts.
LEMMA RequestFields ==
  ASSUME TypeOK, NEW s \in Sessions, Request0(s)
  PROVE  /\ tx'[s] \in Request /\ EmptyHanded(tx'[s])
         /\ \/ tx'[s].kind \in Sales /\ tx'[s].n > 0 /\ pc'[s] = "order"
            \/ tx'[s].kind = "free" /\ pc'[s] = "parent" /\ tx'[s].line \in Shared
            \/ /\ tx'[s].kind \in {"drop", "reallocate"} /\ pc'[s] = "alloc" /\ tx'[s].line \in Shared
               /\ \E a \in Allocs :
                      /\ tx'[s].listed[a] > 0 /\ active[a] > 0 /\ line[a] = tx'[s].line
                      /\ \A b \in Allocs : tx'[s].listed[b] > 0 => b = a
            \/ tx'[s].kind = "move" /\ pc'[s] = "check"
         /\ tx'[s].kind \notin {"drop", "reallocate"} => \A a \in Allocs : tx'[s].listed[a] = 0
         /\ requests' \in 0 .. Requests /\ UNCHANGED counts
         /\ \A u \in Sessions \ {s} : tx'[u] = tx[u]
<1> DEFINE z == [a \in Allocs |-> 0]
<1>0. Idle.listed = z /\ Idle \in Request
  BY IdleTyped
<1>1. ASSUME NEW where \in {"order", "parent", "alloc", "check"}, NEW r \in Request, Begin(s, where, r)
      PROVE  /\ tx'[s] = r /\ pc'[s] = where /\ requests' \in 0 .. Requests /\ UNCHANGED counts
             /\ \A u \in Sessions \ {s} : tx'[u] = tx[u]
  <2>1. Requests \in Nat
    BY ConstantsOK
  <2> QED
    BY <1>1, <2>1 DEF Begin, Go, TypeOK
<1>2. ASSUME NEW l \in Lines, NEW kind \in Sales,
             Begin(s, "order", [Idle EXCEPT !.kind = kind, !.line = l, !.n = Asked[l]])
      PROVE  /\ tx'[s] \in Request /\ EmptyHanded(tx'[s]) /\ tx'[s].kind = kind /\ tx'[s].n > 0
             /\ pc'[s] = "order" /\ tx'[s].listed = z
             /\ requests' \in 0 .. Requests /\ UNCHANGED counts
             /\ \A u \in Sessions \ {s} : tx'[u] = tx[u]
  <2>0. PICK n \in Nat \ {0} : n = Asked[l]
    BY ConstantsOK
  <2> DEFINE r == [Idle EXCEPT !.kind = kind, !.line = l, !.n = n]
  <2>1. kind \in Kinds /\ n \in Int /\ Begin(s, "order", r)
    BY <1>2, <2>0 DEF Sales, Kinds
  <2>2. r \in Request
    BY <1>0, <2>1 DEF Request
  <2>4. r.kind = kind /\ r.n = n /\ r.listed = z
    BY <1>0 DEF Request
  <2>3. EmptyHanded(r)
    BY <1>0, IdleTyped DEF EmptyHanded, Request
  <2> HIDE DEF r
  <2> QED
    BY <1>1, <2>1, <2>2, <2>3, <2>4
<1>3. ASSUME NEW l \in Shared, Begin(s, "parent", [Idle EXCEPT !.kind = "free", !.line = l])
      PROVE  /\ tx'[s] \in Request /\ EmptyHanded(tx'[s]) /\ tx'[s].kind = "free" /\ tx'[s].line = l
             /\ pc'[s] = "parent" /\ tx'[s].listed = z
             /\ requests' \in 0 .. Requests /\ UNCHANGED counts
             /\ \A u \in Sessions \ {s} : tx'[u] = tx[u]
  <2> DEFINE r == [Idle EXCEPT !.kind = "free", !.line = l]
  <2>1. l \in Lines /\ "free" \in Kinds
    BY ConstantsOK DEF Kinds
  <2>2. r \in Request /\ r.kind = "free" /\ r.line = l /\ r.listed = z
    BY <1>0, <2>1 DEF Request
  <2>3. EmptyHanded(r)
    BY <1>0, IdleTyped DEF EmptyHanded, Request
  <2> HIDE DEF r
  <2> QED
    BY <1>1, <1>3, <2>2, <2>3 DEF r
<1>4. ASSUME NEW a \in Allocs, line[a] \in Shared, NEW p \in Places, NEW kind \in {"drop", "reallocate"},
             \/ Begin(s, "alloc", [Idle EXCEPT !.kind = kind, !.line = line[a], !.listed[a] = 1])
             \/ Begin(s, "alloc", [Idle EXCEPT !.kind = kind, !.line = line[a], !.place = p,
                                               !.listed[a] = 1])
      PROVE  /\ tx'[s] \in Request /\ EmptyHanded(tx'[s]) /\ tx'[s].kind = kind /\ tx'[s].line = line[a]
             /\ pc'[s] = "alloc" /\ tx'[s].listed[a] = 1
             /\ \A b \in Allocs : tx'[s].listed[b] > 0 => b = a
             /\ requests' \in 0 .. Requests /\ UNCHANGED counts
             /\ \A u \in Sessions \ {s} : tx'[u] = tx[u]
  <2>1. line[a] \in Lines /\ kind \in Kinds
    BY <1>4, ConstantsOK DEF Kinds
  <2>2. PICK L \in [Allocs -> Nat] : L = [z EXCEPT ![a] = 1]
    OBVIOUS
  <2>3. L[a] = 1 /\ \A b \in Allocs : L[b] > 0 => b = a
    BY <2>2
  <2> DEFINE r1 == [Idle EXCEPT !.kind = kind, !.line = line[a], !.listed = L]
             r2 == [Idle EXCEPT !.kind = kind, !.line = line[a], !.place = p, !.listed = L]
  <2>4. Begin(s, "alloc", r1) \/ Begin(s, "alloc", r2)
    <3> HIDE DEF z
    <3> QED
      BY <1>4, <1>0, <2>2
  <2>5. r1 \in Request /\ r1.kind = kind /\ r1.line = line[a] /\ r1.listed = L
    BY <1>0, <2>1 DEF Request
  <2>6. r2 \in Request /\ r2.kind = kind /\ r2.line = line[a] /\ r2.listed = L
    BY <1>0, <2>1 DEF Request
  <2>7. EmptyHanded(r1) /\ EmptyHanded(r2)
    BY <1>0, IdleTyped DEF EmptyHanded, Request
  <2> HIDE DEF r1, r2
  <2>8. tx'[s] \in {r1, r2} /\ pc'[s] = "alloc" /\ requests' \in 0 .. Requests /\ UNCHANGED counts
        /\ \A u \in Sessions \ {s} : tx'[u] = tx[u]
    BY <1>1, <2>4, <2>5, <2>6
  <2> QED
    BY <2>3, <2>5, <2>6, <2>7, <2>8
<1>5. ASSUME NEW p \in Places, NEW n \in Postings,
             Begin(s, "check", [Idle EXCEPT !.kind = "move", !.place = p, !.n = n])
      PROVE  /\ tx'[s] \in Request /\ EmptyHanded(tx'[s]) /\ tx'[s].kind = "move"
             /\ pc'[s] = "check" /\ tx'[s].listed = z
             /\ requests' \in 0 .. Requests /\ UNCHANGED counts
             /\ \A u \in Sessions \ {s} : tx'[u] = tx[u]
  <2> DEFINE r == [Idle EXCEPT !.kind = "move", !.place = p, !.n = n]
  <2>1. n \in Int /\ "move" \in Kinds
    BY ConstantsOK DEF Kinds
  <2>2. r \in Request /\ r.kind = "move" /\ r.listed = z
    BY <1>0, <2>1 DEF Request
  <2>3. EmptyHanded(r)
    BY <1>0, IdleTyped DEF EmptyHanded, Request
  <2> HIDE DEF r
  <2> QED
    BY <1>1, <1>5, <2>2, <2>3 DEF r
<1>6. \A a \in Allocs : z[a] = 0
  OBVIOUS
<1> HIDE DEF z
<1>7. CASE BeginSales(s)
  BY <1>2, <1>6, <1>7 DEF BeginSales, Sales
<1>8. CASE BeginRelease(s)
  BY <1>3, <1>6, <1>8 DEF BeginRelease, Sales
<1>9. CASE BeginReleaseOne(s)
  <2>1. PICK p \in Places : TRUE
    BY ConstantsOK
  <2>2. PICK a \in Allocs : /\ active[a] > 0 /\ line[a] \in Shared
                            /\ Begin(s, "alloc", [Idle EXCEPT !.kind = "drop", !.line = line[a], !.listed[a] = 1])
    BY <1>9 DEF BeginReleaseOne
  <2>3. /\ tx'[s] \in Request /\ EmptyHanded(tx'[s]) /\ tx'[s].kind = "drop" /\ tx'[s].line = line[a]
        /\ pc'[s] = "alloc" /\ tx'[s].listed[a] = 1
        /\ \A b \in Allocs : tx'[s].listed[b] > 0 => b = a
        /\ requests' \in 0 .. Requests /\ UNCHANGED counts
        /\ \A u \in Sessions \ {s} : tx'[u] = tx[u]
    BY <1>4, <2>1, <2>2
  <2> QED
    BY <2>2, <2>3
<1>10. CASE BeginReallocate(s)
  <2>1. PICK a \in Allocs, p \in Places :
            /\ active[a] > 0 /\ line[a] \in Shared
            /\ Begin(s, "alloc", [Idle EXCEPT !.kind = "reallocate", !.line = line[a], !.place = p,
                                              !.listed[a] = 1])
    BY <1>10 DEF BeginReallocate
  <2>2. /\ tx'[s] \in Request /\ EmptyHanded(tx'[s]) /\ tx'[s].kind = "reallocate" /\ tx'[s].line = line[a]
        /\ pc'[s] = "alloc" /\ tx'[s].listed[a] = 1
        /\ \A b \in Allocs : tx'[s].listed[b] > 0 => b = a
        /\ requests' \in 0 .. Requests /\ UNCHANGED counts
        /\ \A u \in Sessions \ {s} : tx'[u] = tx[u]
    BY <1>4, <2>1
  <2> QED
    BY <2>1, <2>2
<1>11. CASE BeginMove(s)
  BY <1>5, <1>6, <1>11 DEF BeginMove, Sales
<1> QED
  BY <1>7, <1>8, <1>9, <1>10, <1>11 DEF Request0

\* Every request begins so.
LEMMA RequestOK ==
  ASSUME TypeOK, SessionsOK, TypeOK', Covered', NEW s \in Sessions, Request0(s)
  PROVE  SessionOK(s)'
<1>1. Quietly(s) /\ lock' = lock /\ pc[s] = "idle"
  BY RequestIsQuiet
<1>2. /\ tx'[s] \in Request /\ EmptyHanded(tx'[s])
      /\ \/ tx'[s].kind \in Sales /\ tx'[s].n > 0 /\ pc'[s] = "order"
         \/ tx'[s].kind = "free" /\ pc'[s] = "parent" /\ tx'[s].line \in Shared
         \/ /\ tx'[s].kind \in {"drop", "reallocate"} /\ pc'[s] = "alloc" /\ tx'[s].line \in Shared
            /\ \E a \in Allocs :
                   /\ tx'[s].listed[a] > 0 /\ active[a] > 0 /\ line[a] = tx'[s].line
                   /\ \A b \in Allocs : tx'[s].listed[b] > 0 => b = a
         \/ tx'[s].kind = "move" /\ pc'[s] = "check"
      /\ tx'[s].kind \notin {"drop", "reallocate"} => \A a \in Allocs : tx'[s].listed[a] = 0
  BY RequestFields
<1>3. \A r \in Rows : lock'[r] # s
  BY <1>1 DEF SessionsOK, SessionOK, OwnOK
<1>4. RouteOK(s)'
  BY <1>2 DEF RouteOK, Does, Sales, Keepers, Givers
<1>5. \A a \in Allocs : tx'[s].listed[a] > 0 =>
          line'[a] = tx'[s].line /\ \A t \in Sessions \ {s} : a \notin tx'[t].made
  <2>1. \A a \in Allocs : active[a] > 0 => \A t \in Sessions \ {s} : a \notin tx[t].made
    BY DEF SessionsOK, SessionOK, OwnOK
  <2>2. \A a \in Allocs : tx'[s].listed[a] > 0 => active[a] > 0 /\ line[a] = tx'[s].line
    BY <1>2 DEF Sales
  <2>3. line' = line /\ \A t \in Sessions \ {s} : tx'[t] = tx[t]
    BY <1>1 DEF Quietly, database, allocations
  <2> QED
    BY <2>1, <2>2, <2>3
<1>6. pc'[s] = "alloc" => Listed(s)' # {}
  BY <1>2 DEF Listed, Sales
<1> QED
  BY <1>2, <1>3, <1>4, <1>5, <1>6, StartsOK DEF Does, Sales

\* A statement that fails leaves what is in hand to be undone.
LEMMA FailOK ==
  ASSUME TypeOK, NEW s \in Sessions, SessionOK(s), Fails(s)
  PROVE  SessionOK(s)'
<1> USE DEF SessionOK
<1>1. Quietly(s) /\ lock' = lock /\ tx' = tx /\ pc'[s] = "rollback"
  BY FailIsQuiet
<1>2. UNCHANGED <<onHand, reserved, ledger, active, place, line, total, need, counted, early>>
  BY <1>1 DEF Quietly, database, balances, allocations, documents, freeze
<1>3. RouteOK(s)' /\ GiveOK(s)' /\ KeepOK(s)' /\ TotalsOK(s)' /\ BalanceOK(s)'
  BY <1>1, <1>2 DEF RouteOK, Does, GiveOK, Giving, KeepOK, TotalsOK, BalanceOK
<1>4. OwnOK(s)'
  BY <1>1, <1>2 DEF OwnOK, Left, Starting
<1>5. SumsOK(s)'
  BY <1>1, <1>2 DEF SumsOK
<1>6. OrderOK(s)'
  BY <1>1, <1>2 DEF OrderOK, Does, NoneWritten, Starting
<1>7. CheckedOK(s)'
  BY <1>1, <1>2 DEF CheckedOK, Does
<1> QED
  BY <1>3, <1>4, <1>5, <1>6, <1>7

-----------------------------------------------------------------------------
(* Types.                                                                      *)

\* A session's record keeps its type when a field gets a value of its own type.
LEMMA FieldTyped ==
  ASSUME tx \in [Sessions -> Request], NEW s \in Sessions
  PROVE  /\ \A r \in Request : [tx EXCEPT ![s] = r] \in [Sessions -> Request]
         /\ \A m \in Nat : [tx EXCEPT ![s].amount = m] \in [Sessions -> Request]
         /\ \A L \in [Allocs -> Nat] : [tx EXCEPT ![s].listed = L] \in [Sessions -> Request]
         /\ \A L \in [Allocs -> Nat], m \in Nat :
                [tx EXCEPT ![s].listed = L, ![s].amount = m] \in [Sessions -> Request]
         /\ \A m \in Nat : [tx EXCEPT ![s].take = m] \in [Sessions -> Request]
         /\ \A i \in Int : [tx EXCEPT ![s].seen = i] \in [Sessions -> Request]
         /\ \A i \in Int : [tx EXCEPT ![s].total = i] \in [Sessions -> Request]
         /\ \A R \in SUBSET Places : [tx EXCEPT ![s].rows = R] \in [Sessions -> Request]
         /\ \A C \in SUBSET Places : [tx EXCEPT ![s].checked = C] \in [Sessions -> Request]
         /\ \A R, C \in SUBSET Places :
                [tx EXCEPT ![s].rows = R, ![s].checked = C] \in [Sessions -> Request]
         /\ \A h \in Writes, b \in [Allocs -> Int] :
                [tx EXCEPT ![s].held = h, ![s].alloc = b] \in [Sessions -> Request]
<1>1. \A r \in Request : [tx EXCEPT ![s] = r] \in [Sessions -> Request]
  OBVIOUS
<1>2. \A m \in Nat : [tx EXCEPT ![s].amount = m] \in [Sessions -> Request]
  <2>1. \A r \in Request, m \in Nat : [r EXCEPT !.amount = m] \in Request
    BY DEF Request
  <2> QED
    BY <2>1
<1>3. \A L \in [Allocs -> Nat] : [tx EXCEPT ![s].listed = L] \in [Sessions -> Request]
  <2>1. \A r \in Request, L \in [Allocs -> Nat] : [r EXCEPT !.listed = L] \in Request
    BY DEF Request
  <2> QED
    BY <2>1
<1>4. \A L \in [Allocs -> Nat], m \in Nat :
          [tx EXCEPT ![s].listed = L, ![s].amount = m] \in [Sessions -> Request]
  <2>1. \A r \in Request, L \in [Allocs -> Nat], m \in Nat : [r EXCEPT !.listed = L, !.amount = m] \in Request
    BY DEF Request
  <2> QED
    BY <2>1
<1>5. \A m \in Nat : [tx EXCEPT ![s].take = m] \in [Sessions -> Request]
  <2>1. \A r \in Request, m \in Nat : [r EXCEPT !.take = m] \in Request
    BY DEF Request
  <2> QED
    BY <2>1
<1>6. \A i \in Int : [tx EXCEPT ![s].seen = i] \in [Sessions -> Request]
  <2>1. \A r \in Request, i \in Int : [r EXCEPT !.seen = i] \in Request
    BY DEF Request
  <2> QED
    BY <2>1
<1>7. \A i \in Int : [tx EXCEPT ![s].total = i] \in [Sessions -> Request]
  <2>1. \A r \in Request, i \in Int : [r EXCEPT !.total = i] \in Request
    BY DEF Request
  <2> QED
    BY <2>1
<1>8. \A R \in SUBSET Places : [tx EXCEPT ![s].rows = R] \in [Sessions -> Request]
  <2>1. \A r \in Request, R \in SUBSET Places : [r EXCEPT !.rows = R] \in Request
    BY DEF Request
  <2> QED
    BY <2>1
<1>9. \A C \in SUBSET Places : [tx EXCEPT ![s].checked = C] \in [Sessions -> Request]
  <2>1. \A r \in Request, C \in SUBSET Places : [r EXCEPT !.checked = C] \in Request
    BY DEF Request
  <2> QED
    BY <2>1
<1>10. \A R, C \in SUBSET Places :
          [tx EXCEPT ![s].rows = R, ![s].checked = C] \in [Sessions -> Request]
  <2>1. \A r \in Request, R, C \in SUBSET Places : [r EXCEPT !.rows = R, !.checked = C] \in Request
    BY DEF Request
  <2> QED
    BY <2>1
<1>11. \A h \in Writes, b \in [Allocs -> Int] :
          [tx EXCEPT ![s].held = h, ![s].alloc = b] \in [Sessions -> Request]
  <2>1. \A r \in Request, h \in Writes, b \in [Allocs -> Int] : [r EXCEPT !.held = h, !.alloc = b] \in Request
    BY DEF Request
  <2> QED
    BY <2>1
<1> QED
  BY <1>1, <1>2, <1>3, <1>4, <1>5, <1>6, <1>7, <1>8, <1>9, <1>10, <1>11

\* An allocation that is listed is somebody's, somewhere.
LEMMA TurnPlaced ==
  ASSUME TypeOK, AllocsOK, NEW s \in Sessions, OwnOK(s), Listed(s) # {}
  PROVE  /\ InTurn(s) \in Allocs /\ tx[s].listed[InTurn(s)] > 0 /\ line[InTurn(s)] = tx[s].line
         /\ place[InTurn(s)] \in Places /\ Left(s, InTurn(s)) \in Nat
<1>1. InTurn(s) \in Allocs /\ tx[s].listed[InTurn(s)] > 0
  BY InTurnListed
<1> DEFINE a == InTurn(s)
<1> HIDE DEF a
<1>2. line[a] = tx[s].line /\ Left(s, a) >= 0 /\ a \in Allocs
  BY <1>1 DEF OwnOK, a
<1>3. tx[s].line \in Lines /\ Nobody \notin Lines
  BY ConstantsOK DEF TypeOK, Request
<1>4. place[a] \in Places
  BY <1>2, <1>3 DEF TypeOK, AllocsOK
<1> QED
  BY <1>1, <1>2, <1>4, SeenTyped DEF a

\* The place of a posting is one.
LEMMA PostedPlace ==
  ASSUME TypeOK, AllocsOK, NEW s \in Sessions, SessionOK(s),
         pc[s] \in {"check", "position"} \/ (pc[s] = "item" /\ Posting(s))
  PROVE  /\ PostedAt(s) \in Places /\ Signed(s) \in Int
         /\ tx[s].kind = "move" \/ (tx[s].kind = "deliver" /\ Giving(s) /\ PostedAt(s) = place[InTurn(s)])
         /\ Posting(s)
<1>1. tx[s] \in Request
  BY DEF TypeOK
<1>2. CASE tx[s].kind = "move"
  BY <1>1, <1>2 DEF PostedAt, Signed, Posting, Request
<1>3. CASE tx[s].kind # "move"
  <2>1. tx[s].take > 0 /\ tx[s].kind = "deliver"
    BY <1>1, <1>3 DEF SessionOK, RouteOK, GiveOK, Does, Posting, Giving, Request
  <2>2. Giving(s)
    BY <2>1 DEF Giving, Does
  <2>3. place[InTurn(s)] \in Places
    BY <2>2, TurnPlaced DEF SessionOK, GiveOK
  <2> QED
    BY <1>1, <1>3, <2>1, <2>2, <2>3 DEF PostedAt, Signed, Posting, Request
<1> QED
  BY <1>2, <1>3

\* The larger and the smaller of two numbers.
LEMMA LargerSmaller ==
  ASSUME NEW m \in Int, NEW n \in Int
  PROVE  /\ Larger(m, 0) \in Nat /\ (m > 0 => Larger(m, 0) = m)
         /\ Smaller(m, n) \in {m, n} /\ Smaller(m, n) <= m /\ Smaller(m, n) <= n
  BY DEF Larger, Smaller

\* What is posted.
PostedRecord(s) == IF tx[s].kind = "move" THEN tx[s] ELSE Settled(s)

\* What is in hand once a movement is posted.
LEMMA PostFields ==
  ASSUME TypeOK, AllocsOK, NEW s \in Sessions, SessionOK(s), PostMovement(s), NEW p, p = PostedAt(s)
  PROVE  /\ p \in Places
         /\ tx' = [tx EXCEPT ![s] = tx'[s]] /\ tx'[s] \in Request
         /\ tx'[s].hand = [tx[s].hand EXCEPT ![p] = Posted(s, p)]
         /\ tx'[s].moved = [tx[s].moved EXCEPT ![p] = tx[s].moved[p] + Signed(s)]
         /\ tx'[s].listed = PostedRecord(s).listed /\ tx'[s].take = 0
         /\ tx'[s].amount = PostedRecord(s).amount
         /\ tx[s].kind # "move" => Giving(s) /\ PostedRecord(s).listed = Unlisted(s)
                                    /\ PostedRecord(s).amount = tx[s].amount - tx[s].take
         /\ tx[s].kind = "move" => tx'[s].listed = tx[s].listed /\ tx'[s].amount = tx[s].amount
<1> DEFINE r == PostedRecord(s)
           h == [tx[s].hand EXCEPT ![p] = Posted(s, p)]
           m == [tx[s].moved EXCEPT ![p] = tx[s].moved[p] + Signed(s)]
<1>1. pc[s] = "position" /\ p \in Places /\ Signed(s) \in Int /\ Posting(s)
      /\ (tx[s].kind = "move" \/ (tx[s].kind = "deliver" /\ Giving(s)))
  BY PostedPlace DEF PostMovement, At
<1>2. tx[s] \in Request
  BY DEF TypeOK
<1>3. tx[s].kind = "move" => tx[s].take = 0
  BY <1>1, <1>2 DEF SessionOK, GiveOK, Giving, Does, Request
<1>4. /\ r \in Request /\ r.take = 0 /\ r.hand = tx[s].hand /\ r.moved = tx[s].moved
      /\ tx[s].kind = "move" => r = tx[s]
      /\ tx[s].kind # "move" => r.listed = Unlisted(s) /\ r.amount = tx[s].amount - tx[s].take
  <2>1. CASE tx[s].kind = "move"
    BY <1>2, <1>3, <2>1 DEF PostedRecord
  <2>2. CASE tx[s].kind # "move"
    <3>1. Giving(s) /\ r = Settled(s) /\ tx[s].kind = "deliver"
      BY <1>1, <2>2 DEF PostedRecord
    <3> HIDE DEF r
    <3>2. Remaining(s) = tx[s].amount - tx[s].take
      BY <3>1 DEF Remaining, Does
    <3> QED
      BY <2>2, <3>1, <3>2, SettledFields DEF SessionOK
  <2> QED
    BY <2>1, <2>2
<1>5. h \in Writes /\ m \in Writes
  BY <1>1, <1>2, SeenTyped DEF Posted, Writes, Request
<1>6. tx' = [tx EXCEPT ![s] = [r EXCEPT !.hand = h, !.moved = m]]
  <2>1. tx' = [tx EXCEPT ![s] = [r EXCEPT !.hand[p] = Posted(s, p), !.moved[p] = @ + Signed(s)]]
    BY DEF PostMovement, PostedRecord
  <2>2. [r EXCEPT !.hand[p] = Posted(s, p), !.moved[p] = @ + Signed(s)]
        = [r EXCEPT !.hand = [r.hand EXCEPT ![p] = Posted(s, p)],
                    !.moved = [r.moved EXCEPT ![p] = r.moved[p] + Signed(s)]]
    <3> HIDE DEF r
    <3> QED
      BY <1>4 DEF Request
  <2> HIDE DEF r
  <2> QED
    BY <1>4, <2>1, <2>2
<1> HIDE DEF r, h, m
<1>7. [r EXCEPT !.hand = h, !.moved = m] \in Request
  BY <1>4, <1>5 DEF Request
<1>8. tx'[s] = [r EXCEPT !.hand = h, !.moved = m] /\ tx' = [tx EXCEPT ![s] = tx'[s]]
  BY <1>6 DEF TypeOK
<1>9. tx'[s].hand = h /\ tx'[s].moved = m /\ tx'[s].listed = r.listed /\ tx'[s].take = r.take
      /\ tx'[s].amount = r.amount
  BY <1>4, <1>8 DEF Request
<1>10. tx'[s].hand = [tx[s].hand EXCEPT ![p] = Posted(s, p)]
       /\ tx'[s].moved = [tx[s].moved EXCEPT ![p] = tx[s].moved[p] + Signed(s)]
       /\ tx'[s].listed = PostedRecord(s).listed /\ tx'[s].amount = PostedRecord(s).amount
  BY <1>9 DEF h, m, r
<1> QED
  BY <1>1, <1>4, <1>7, <1>8, <1>9, <1>10 DEF r

\* A quiet statement keeps every type.
LEMMA QuietTypes ==
  ASSUME TypeOK, AllocsOK, NEW s \in Sessions, SessionOK(s), Quiet(s)
  PROVE  TypeOK'
<1>1. tx \in [Sessions -> Request] /\ tx[s] \in Request /\ pc = [t \in Sessions |-> pc[t]]
  BY DEF TypeOK
<1>2. tx' \in [Sessions -> Request]
  <2> USE <1>1
  <2>1. CASE Ordering(s)
    <3>1. PICK m \in Nat : tx' = [tx EXCEPT ![s].amount = m]
      <4>0. HeldBy(s, tx[s].line) \in Int
        BY HeldTyped
      <4>1. need[tx[s].line] \in Int /\ tx[s].n \in Int
        BY DEF TypeOK, Request
      <4>2. CASE ReserveForOrder(s)
        <5>1. need[tx[s].line] - HeldBy(s, tx[s].line) \in Int
          BY <4>0, <4>1
        <5>2. Larger(need[tx[s].line] - HeldBy(s, tx[s].line), 0) \in Nat
          BY <5>1, LargerSmaller
        <5> QED
          BY <4>2, <5>2 DEF ReserveForOrder
      <4>3. CASE CancelRemaining(s)
        <5>1. Excess(s, tx[s].line) \in Int
          BY <4>0, <4>1 DEF Excess
        <5>2. Larger(Excess(s, tx[s].line), 0) \in Nat
          BY <5>1, LargerSmaller
        <5> QED
          BY <4>3, <5>2 DEF CancelRemaining
      <4>4. CASE ReleaseForOrder(s) \/ DispatchDelivery(s)
        <5>1. tx[s].n \in Nat
          BY <4>1, <4>4 DEF SessionOK, OrderOK, Does, Sales, ReleaseForOrder, DispatchDelivery
        <5> QED
          BY <4>4, <5>1 DEF ReleaseForOrder, DispatchDelivery
      <4> QED
        BY <2>1, <4>2, <4>3, <4>4 DEF Ordering
    <3> QED
      BY <3>1, FieldTyped
  <2>2. CASE LockReservation(s) \/ LockInventoryItem(s) \/ RowsLocked(s)
    BY <2>2 DEF LockReservation, LockInventoryItem, RowsLocked
  <2>3. CASE ListAllocations(s)
    <3>1. PICK L \in [Allocs -> Nat] : tx' = [tx EXCEPT ![s].listed = L]
      BY <2>3 DEF ListAllocations, TypeOK
    <3> QED
      BY <3>1, FieldTyped
  <2>4. CASE ClaimAllocation(s)
    <3>1. PICK L \in [Allocs -> Nat] : tx' = [tx EXCEPT ![s].listed = L]
      <4>1. tx[s].listed \in [Allocs -> Nat] /\ active \in [Allocs -> Nat]
        BY DEF TypeOK, Request
      <4>2. Min(Unclaimed(s)) \in Allocs
        BY <2>4, UnclaimedTurn DEF SessionOK, GiveOK, ClaimAllocation, At
      <4>3. [tx[s].listed EXCEPT ![Min(Unclaimed(s))] = active[Min(Unclaimed(s))]] \in [Allocs -> Nat]
        BY <4>1, <4>2
      <4> QED
        BY <2>4, <4>3 DEF ClaimAllocation
    <3> QED
      BY <3>1, FieldTyped
  <2>5. CASE LockAllocation(s)
    <3>1. Unlisted(s) \in [Allocs -> Nat]
      BY DEF Unlisted, Request
    <3>2. Left(s, InTurn(s)) \in Nat /\ tx[s].listed[InTurn(s)] \in Nat /\ tx[s].amount \in Nat
      BY <2>5, TurnPlaced DEF SessionOK, GiveOK, LockAllocation, Found, At, Request
    <3>3. Takes(s, InTurn(s)) \in Nat /\ (~Whole(s) => Takes(s, InTurn(s)) <= tx[s].amount)
      BY <3>2, LargerSmaller DEF Takes, Found
    <3>4. PICK m \in Nat, k \in Nat : \/ tx' = [tx EXCEPT ![s].listed = Unlisted(s), ![s].amount = m]
                                      \/ tx' = [tx EXCEPT ![s].take = k]
      <4>1. (IF Whole(s) THEN tx[s].amount ELSE tx[s].amount - Takes(s, InTurn(s))) \in Nat
        BY <3>2, <3>3
      <4> QED
        BY <2>5, <3>3, <4>1 DEF LockAllocation, Found, Unlisted
    <3>5. CASE tx' = [tx EXCEPT ![s].listed = Unlisted(s), ![s].amount = m]
      BY <3>1, <3>5, FieldTyped
    <3>6. CASE tx' = [tx EXCEPT ![s].take = k]
      BY <3>6, FieldTyped
    <3> QED
      BY <3>4, <3>5, <3>6
  <2>6. CASE GiveUpReserved(s)
    <3>1. PICK h \in Writes, b \in [Allocs -> Int] : tx' = [tx EXCEPT ![s].held = h, ![s].alloc = b]
      <4> DEFINE a == InTurn(s)
                 p == place[a]
                 h == [tx[s].held EXCEPT ![p] = @ - Freed(s, a)]
                 b == [tx[s].alloc EXCEPT ![a] = @ - tx[s].take]
      <4>1. tx' = [tx EXCEPT ![s].held = h, ![s].alloc = b]
        BY <2>6 DEF GiveUpReserved
      <4>2. a \in Allocs /\ p \in Places /\ Freed(s, a) \in Int /\ tx[s].take \in Int
        BY <2>6, TurnPlaced DEF SessionOK, GiveOK, Giving, GiveUpReserved, At, Freed, Request
      <4>3. tx[s].held \in [Places -> Int] /\ tx[s].alloc \in [Allocs -> Int]
        BY DEF Request, Writes
      <4>4. h \in Writes /\ b \in [Allocs -> Int]
        <5> HIDE DEF a, p
        <5> QED
          BY <4>2, <4>3 DEF Writes
      <4> HIDE DEF h, b
      <4> QED
        BY <4>1, <4>4
    <3> QED
      BY <3>1, FieldTyped
  <2>7. CASE ReadTotals(s)
    <3>1. Totals(s) \in Int
      BY HeldTyped DEF Totals
    <3> QED
      BY <2>7, <3>1, FieldTyped DEF ReadTotals
  <2>8. CASE ReadDemand(s)
    <3>1. need[tx[s].line] \in Int
      BY DEF TypeOK, Request
    <3> QED
      BY <2>8, <3>1, FieldTyped DEF ReadDemand
  <2>9. CASE WriteTotals(s)
    <3>1. tx[s].seen \in Int
      BY DEF Request
    <3>2. Settled(s) \in Request
      BY <2>9, SettledFields DEF SessionOK, WriteTotals, At, Giving
    <3>3. [Settled(s) EXCEPT !.total = tx[s].seen] \in Request
      <4>1. PICK r \in Request : r = Settled(s)
        BY <3>2
      <4>2. PICK i \in Int : i = tx[s].seen
        BY <3>1
      <4>3. [r EXCEPT !.total = i] \in Request
        BY DEF Request
      <4> QED
        BY <4>1, <4>2, <4>3
    <3>4. \/ tx' = [tx EXCEPT ![s].total = tx[s].seen]
          \/ tx' = [tx EXCEPT ![s] = [Settled(s) EXCEPT !.total = tx[s].seen]]
      BY <2>9 DEF WriteTotals
    <3>5. CASE tx' = [tx EXCEPT ![s].total = tx[s].seen]
      BY <3>1, <3>5, FieldTyped
    <3>6. CASE tx' = [tx EXCEPT ![s] = [Settled(s) EXCEPT !.total = tx[s].seen]]
      <4>1. PICK r \in Request : r = [Settled(s) EXCEPT !.total = tx[s].seen]
        BY <3>3
      <4> QED
        BY <3>6, <4>1, FieldTyped
    <3> QED
      BY <3>4, <3>5, <3>6
  <2>10. CASE CheckCount(s)
    <3>1. PICK C \in SUBSET Places : tx' = [tx EXCEPT ![s].checked = C]
      <4>1. PostedAt(s) \in Places /\ tx[s].checked \in SUBSET Places
        BY <2>10, PostedPlace DEF CheckCount, At, Request
      <4>2. tx[s].checked \cup {PostedAt(s)} \in SUBSET Places
        BY <4>1
      <4> QED
        BY <2>10, <4>2 DEF CheckCount
    <3> QED
      BY <3>1, FieldTyped
  <2>11. CASE PostMovement(s)
    <3>1. PICK p : p = PostedAt(s)
      OBVIOUS
    <3>2. tx' = [tx EXCEPT ![s] = tx'[s]] /\ tx'[s] \in Request
      BY <2>11, <3>1, PostFields
    <3> QED
      BY <3>2, FieldTyped
  <2>12. CASE EnsureReservation(s)
    <3> DEFINE room == Larger(tx[s].seen - Total(s, tx[s].line), 0)
    <3>1. room \in Nat
      <4>1. Total(s, tx[s].line) \in Int /\ tx[s].seen \in Int
        BY DEF Total, TypeOK, Request
      <4> QED
        BY <4>1, LargerSmaller
    <3>2. tx[s].amount \in Nat
      BY DEF Request
    <3>3. Smaller(tx[s].amount, room) \in Nat
      BY <3>1, <3>2, LargerSmaller
    <3>4. tx' = [tx EXCEPT ![s].amount = Smaller(tx[s].amount, room)]
      BY <2>12 DEF EnsureReservation
    <3> HIDE DEF room
    <3> QED
      BY <3>3, <3>4, FieldTyped
  <2>13. CASE PickRows(s)
    <3>1. PICK R \in SUBSET Places : tx' = [tx EXCEPT ![s].rows = R, ![s].checked = tx[s].checked \cup R]
      BY <2>13 DEF PickRows
    <3>2. PICK C \in SUBSET Places : C = tx[s].checked \cup R
      BY DEF Request
    <3> QED
      BY <3>1, <3>2, FieldTyped
  <2>14. CASE LockRow(s)
    <3>1. PICK R \in SUBSET Places : tx' = [tx EXCEPT ![s].rows = R]
      <4>1. tx[s].rows \in SUBSET Places
        BY DEF Request
      <4>2. PICK p : p = Fullest(s, Unlocked(s))
        OBVIOUS
      <4>3. (IF Suits(s, p) THEN tx[s].rows ELSE tx[s].rows \ {p}) \in SUBSET Places
        BY <4>1
      <4> QED
        BY <2>14, <4>2, <4>3 DEF LockRow
    <3> QED
      BY <3>1, FieldTyped
  <2> QED
    BY <2>1, <2>2, <2>3, <2>4, <2>5, <2>6, <2>7, <2>8, <2>9, <2>10, <2>11, <2>12, <2>13, <2>14 DEF Quiet
<1>3. Quietly(s)
  BY QuietIsQuiet
<1>4. pc'[s] \in Locking \cup {"idle", "list", "totals", "check", "demand", "pick", "insert", "commit",
                               "rollback"}
  <2> USE <1>1 DEF Go, Unless, Continue, NothingFound, Locking
  <2>1. CASE Ordering(s)
    BY <2>1 DEF Ordering, ReserveForOrder, ReleaseForOrder, CancelRemaining, DispatchDelivery
  <2>2. CASE LockReservation(s) \/ ListAllocations(s) \/ ClaimAllocation(s) \/ LockAllocation(s)
    BY <2>2 DEF LockReservation, ListAllocations, ClaimAllocation, LockAllocation
  <2>3. CASE GiveUpReserved(s) \/ ReadTotals(s) \/ WriteTotals(s) \/ CheckCount(s) \/ LockInventoryItem(s)
    BY <2>3 DEF GiveUpReserved, ReadTotals, WriteTotals, CheckCount, LockInventoryItem
  <2>4. CASE PostMovement(s)
    <3>1. PICK w, listed, amount : /\ pc' = [pc EXCEPT ![s] = w]
                                   /\ w = "rollback" \/ w = Continue(s, listed, amount)
      BY <2>4 DEF PostMovement
    <3> QED
      BY <3>1
  <2>5. CASE ReadDemand(s) \/ EnsureReservation(s) \/ PickRows(s) \/ LockRow(s) \/ RowsLocked(s)
    BY <2>5 DEF ReadDemand, EnsureReservation, PickRows, LockRow, RowsLocked
  <2> QED
    BY <2>1, <2>2, <2>3, <2>4, <2>5 DEF Quiet
<1>5. UNCHANGED <<requests, counts>>
  <2> USE DEF bounds
  <2>1. CASE Ordering(s)
    BY <2>1 DEF Ordering, ReserveForOrder, ReleaseForOrder, CancelRemaining, DispatchDelivery
  <2>2. CASE LockReservation(s) \/ ListAllocations(s) \/ ClaimAllocation(s) \/ LockAllocation(s)
    BY <2>2 DEF LockReservation, ListAllocations, ClaimAllocation, LockAllocation
  <2>3. CASE GiveUpReserved(s) \/ ReadTotals(s) \/ WriteTotals(s) \/ CheckCount(s) \/ LockInventoryItem(s)
    BY <2>3 DEF GiveUpReserved, ReadTotals, WriteTotals, CheckCount, LockInventoryItem
  <2>4. CASE PostMovement(s)
    BY <2>4 DEF PostMovement
  <2>5. CASE ReadDemand(s) \/ EnsureReservation(s) \/ PickRows(s) \/ LockRow(s) \/ RowsLocked(s)
    BY <2>5 DEF ReadDemand, EnsureReservation, PickRows, LockRow, RowsLocked
  <2> QED
    BY <2>1, <2>2, <2>3, <2>4, <2>5 DEF Quiet
<1> QED
  BY <1>2, <1>3, <1>4, <1>5 DEF TypeOK, Quietly, database, balances, allocations, documents, freeze

\* With what a session wrote, a balance still shows as reserved what its allocations hold.
LEMMA Promised ==
  ASSUME TypeOK, ReservedIsActive, NEW s \in Sessions, SumsOK(s), NEW p \in Places
  PROVE  /\ reserved[p] + tx[s].held[p] = SumFunctionOnSet(AllLeft(s), {a \in Allocs : place[a] = p})
         /\ OwnOK(s) => reserved[p] + tx[s].held[p] \in Nat
<1> DEFINE A == {a \in Allocs : place[a] = p}
           f == tx[s].alloc
           h == AllLeft(s)
<1>1. IsFiniteSet(A)
  BY AllocsFinite, FS_Subset
<1>2. \A a \in A : active[a] \in Int /\ f[a] \in Int /\ h[a] = active[a] + f[a]
  BY SeenTyped DEF AllLeft, Left
<1>3. reserved[p] = SumFunctionOnSet(active, A) /\ tx[s].held[p] = SumFunctionOnSet(f, A)
  BY DEF ReservedIsActive, ActiveAt, SumsOK
<1>4. OwnOK(s) => \A a \in A : h[a] \in Nat
  BY SeenTyped DEF OwnOK, AllLeft, Left
<1> HIDE DEF A, f, h
<1>5. SumFunctionOnSet(h, A) = SumFunctionOnSet(active, A) + SumFunctionOnSet(f, A)
  BY <1>1, <1>2, SumOfBoth
<1>6. OwnOK(s) => SumFunctionOnSet(h, A) \in Nat
  <2>1. ASSUME OwnOK(s) PROVE SumFunctionOnSet(h, A) \in Nat
    BY <1>1, <1>4, <2>1, SumOfNaturals
  <2> QED
    BY <2>1
<1>7. reserved[p] + tx[s].held[p] = SumFunctionOnSet(h, A)
  BY <1>3, <1>5
<1> QED
  BY <1>6, <1>7 DEF A, h

-----------------------------------------------------------------------------
(* What all see: the balances, the allocations and the totals.                 *)

Globals ==
    TypeOK /\ AllocsOK /\ Covered /\ ReservedIsActive /\ BalanceIsLedger /\ OrderTotalsFollow

\* Nothing of it changes.
LEMMA UnseenKeeps ==
  ASSUME Globals, TypeOK', UNCHANGED <<onHand, reserved, ledger, active, place, line, total>>
  PROVE  Globals'
  BY DEF Globals, AllocsOK, Covered, ReservedIsActive, BalanceIsLedger, OrderTotalsFollow,
     ActiveAt, ActiveFor

\* A quiet statement changes nothing that all see.
LEMMA QuietGlobals ==
  ASSUME Globals, NEW s \in Sessions, SessionOK(s), Quiet(s)
  PROVE  Globals'
<1>1. TypeOK' /\ Quietly(s)
  BY QuietTypes, QuietIsQuiet DEF Globals
<1> QED
  BY <1>1, UnseenKeeps DEF Quietly, database, balances, allocations, documents

\* Nor does a request.
LEMMA RequestGlobals ==
  ASSUME Globals, NEW s \in Sessions, Request0(s)
  PROVE  Globals'
<1>1. /\ tx'[s] \in Request /\ requests' \in 0 .. Requests /\ UNCHANGED counts
      /\ pc'[s] \in Locking \cup {"check"}
  BY RequestFields DEF Globals, Locking
<1>2. Quietly(s) /\ lock' = lock
  BY RequestIsQuiet DEF Globals
<1>3. tx' = [tx EXCEPT ![s] = tx'[s]]
  <2>1. PICK r : tx' = [tx EXCEPT ![s] = r]
    BY DEF Request0, BeginSales, BeginRelease, BeginReleaseOne, BeginReallocate, BeginMove, Begin
  <2> QED
    BY <2>1 DEF Globals, TypeOK
<1>4. TypeOK'
  BY <1>1, <1>2, <1>3
     DEF Globals, TypeOK, Quietly, database, balances, allocations, documents, freeze
<1> QED
  BY <1>2, <1>4, UnseenKeeps DEF Quietly, database, balances, allocations, documents

\* Nor does a failure.
LEMMA FailGlobals ==
  ASSUME Globals, NEW s \in Sessions, Fails(s)
  PROVE  Globals'
<1>1. Quietly(s) /\ lock' = lock /\ tx' = tx /\ pc'[s] = "rollback"
  BY FailIsQuiet DEF Globals
<1>2. UNCHANGED bounds
  BY DEF Fails, StatementFails, DetectDeadlock
<1>3. TypeOK'
  BY <1>1, <1>2
     DEF Globals, TypeOK, Quietly, database, balances, allocations, documents, freeze, bounds
<1> QED
  BY <1>1, <1>3, UnseenKeeps DEF Quietly, database, balances, allocations, documents

\* Nor does a count: it is no movement.
LEMMA CountGlobals ==
  ASSUME Globals, \A s \in Sessions : SessionOK(s),
         \/ \E p \in Places : StartCount(p) \/ CancelCount(p)
         \/ UNCHANGED vars
  PROVE  Globals'
<1>1. UNCHANGED <<onHand, reserved, ledger, active, place, line, total, need, lock, pc, tx>>
  BY DEF vars, database, balances, allocations, documents, freeze, StartCount, CancelCount
<1>2. /\ counted' \in SUBSET Places /\ early' \in [Places -> SUBSET Sessions]
      /\ requests' \in 0 .. Requests /\ counts' \in 0 .. CountCap
  <2>1. CASE UNCHANGED vars
    BY <2>1 DEF vars, database, freeze, bounds, Globals, TypeOK
  <2>2. ASSUME NEW p \in Places, StartCount(p)
        PROVE  /\ counted' \in SUBSET Places /\ early' \in [Places -> SUBSET Sessions]
               /\ requests' \in 0 .. Requests /\ counts' \in 0 .. CountCap
    <3>1. {s \in Sessions : p \in tx[s].checked} \in SUBSET Sessions
      OBVIOUS
    <3>2. CountCap \in Nat
      BY ConstantsOK
    <3> QED
      BY <2>2, <3>1, <3>2 DEF StartCount, Globals, TypeOK
  <2>3. ASSUME NEW p \in Places, CancelCount(p)
        PROVE  /\ counted' \in SUBSET Places /\ early' \in [Places -> SUBSET Sessions]
               /\ requests' \in 0 .. Requests /\ counts' \in 0 .. CountCap
    BY <2>3 DEF CancelCount, Globals, TypeOK, bounds
  <2> QED
    BY <2>1, <2>2, <2>3
<1>3. TypeOK'
  BY <1>1, <1>2 DEF Globals, TypeOK
<1> QED
  BY <1>1, <1>3, UnseenKeeps

\* Rows that hold nothing come and go unnoticed.
LEMMA RegroupedGlobals ==
  ASSUME Globals, TypeOK', AllocsOK', UNCHANGED <<onHand, reserved, ledger, active, total>>,
         \A a \in Allocs : active[a] > 0 => place'[a] = place[a] /\ line'[a] = line[a]
  PROVE  Globals'
<1>1. \A a \in Allocs : active[a] \in Nat
  BY DEF Globals, TypeOK
<1>2. ASSUME NEW p \in Places PROVE ActiveAt(p)' = ActiveAt(p)
  <2> DEFINE A == {a \in Allocs : place[a] = p}
             B == {a \in Allocs : place'[a] = p}
  <2>1. \A a \in Allocs : IF a \in A /\ a \in B THEN active[a] = active[a]
                          ELSE IF a \in A THEN active[a] = 0 ELSE a \in B => active[a] = 0
    BY <1>1
  <2>2. A \in SUBSET Allocs /\ B \in SUBSET Allocs /\ \A a \in Allocs : active[a] \in Int
    BY <1>1
  <2> HIDE DEF A, B
  <2>3. SumFunctionOnSet(active, A) = SumFunctionOnSet(active, B)
    BY <2>1, <2>2, SumOfGroup
  <2> QED
    BY <2>3 DEF ActiveAt, A, B
<1>3. ASSUME NEW l \in Lines PROVE ActiveFor(l)' = ActiveFor(l)
  <2> DEFINE A == {a \in Allocs : line[a] = l}
             B == {a \in Allocs : line'[a] = l}
  <2>1. \A a \in Allocs : IF a \in A /\ a \in B THEN active[a] = active[a]
                          ELSE IF a \in A THEN active[a] = 0 ELSE a \in B => active[a] = 0
    BY <1>1
  <2>2. A \in SUBSET Allocs /\ B \in SUBSET Allocs /\ \A a \in Allocs : active[a] \in Int
    BY <1>1
  <2> HIDE DEF A, B
  <2>3. SumFunctionOnSet(active, A) = SumFunctionOnSet(active, B)
    BY <2>1, <2>2, SumOfGroup
  <2> QED
    BY <2>3 DEF ActiveFor, A, B
<1>4. ReservedIsActive'
  BY <1>2 DEF Globals, ReservedIsActive
<1>5. OrderTotalsFollow'
  BY <1>3 DEF Globals, OrderTotalsFollow
<1> QED
  BY <1>4, <1>5 DEF Globals, Covered, BalanceIsLedger

\* A row of stock_reservations that is made holds nothing before the commit.
LEMMA InsertGlobals ==
  ASSUME Globals, NEW s \in Sessions, SessionOK(s), InsertReservation(s)
  PROVE  Globals'
<1>1. PICK a, p, q : a = Min(Fresh) /\ p = TakenPlace(s) /\ q = TakenAmount(s)
  OBVIOUS
<1>2. /\ a \in Allocs /\ line[a] = Nobody /\ p \in Places
      /\ tx'[s] \in Request /\ (\A u \in Sessions \ {s} : tx'[u] = tx[u])
      /\ pc' = [pc EXCEPT ![s] = pc'[s]] /\ pc'[s] \in {"insert", "commit", "alloc", "rollback"}
  <2>1. TypeOK
    BY DEF Globals
  <2>2. /\ Taking(s, a, p, q) /\ GoesOn(s, p, q)
        /\ tx'[s] \in Request /\ (\A u \in Sessions \ {s} : tx'[u] = tx[u])
        /\ pc' = [pc EXCEPT ![s] = pc'[s]]
    BY <1>1, <2>1, InsertFields
  <2>3. a \in Allocs /\ line[a] = Nobody /\ p \in Places
    BY <2>2 DEF Taking
  <2>4. pc'[s] \in {"insert", "commit", "alloc", "rollback"}
    BY <2>2 DEF GoesOn
  <2> QED
    BY <2>2, <2>3, <2>4
<1>3. /\ lock' = [lock EXCEPT ![Alloc(a)] = s]
      /\ place' = [place EXCEPT ![a] = p] /\ line' = [line EXCEPT ![a] = tx[s].line]
      /\ UNCHANGED <<onHand, reserved, ledger, active, total, need, counted, early, requests, counts>>
  BY <1>1 DEF InsertReservation, balances, documents, freeze, bounds, TakenPlace
<1>4. tx[s].line \in Lines
  BY DEF Globals, TypeOK, Request
<1>5. tx' = [tx EXCEPT ![s] = tx'[s]]
  <2>1. PICK r, v : tx' = [tx EXCEPT ![s] = r] \/ tx' = [tx EXCEPT ![s] = v]
    BY DEF InsertReservation
  <2> QED
    BY <2>1 DEF Globals, TypeOK
<1>6. TypeOK'
  BY <1>2, <1>3, <1>4, <1>5 DEF Globals, TypeOK, Locking
<1>7. active[a] = 0
  BY <1>2 DEF Globals, AllocsOK
<1>8. AllocsOK'
  BY <1>2, <1>3, <1>4, <1>7, ConstantsOK DEF Globals, TypeOK, AllocsOK
<1>9. \A b \in Allocs : active[b] > 0 => place'[b] = place[b] /\ line'[b] = line[b]
  BY <1>3, <1>7 DEF Globals, TypeOK
<1> QED
  BY <1>3, <1>6, <1>8, <1>9, RegroupedGlobals

\* The rows a rollback unmakes held nothing.
LEMMA RollbackGlobals ==
  ASSUME Globals, NEW s \in Sessions, SessionOK(s), Rollback(s)
  PROVE  Globals'
<1>1. /\ End(s)
      /\ UNCHANGED <<onHand, reserved, ledger, active, total, need, counted, requests, counts>>
      /\ place' = [a \in Allocs |-> IF a \in tx[s].made THEN Nobody ELSE place[a]]
      /\ line' = [a \in Allocs |-> IF a \in tx[s].made THEN Nobody ELSE line[a]]
  BY DEF Rollback, balances, documents, bounds
<1>2. /\ lock' \in [Rows -> Sessions \cup {Nobody}] /\ early' \in [Places -> SUBSET Sessions]
      /\ tx' = [tx EXCEPT ![s] = Idle] /\ pc' = [pc EXCEPT ![s] = "idle"]
  BY <1>1, Ends DEF Globals
<1>3. TypeOK'
  BY <1>1, <1>2, IdleTyped DEF Globals, TypeOK
<1>4. \A a \in Allocs : a \in tx[s].made => active[a] = 0
  BY DEF SessionOK, OwnOK
<1>5. AllocsOK'
  BY <1>1, <1>4 DEF Globals, AllocsOK
<1>6. \A a \in Allocs : active[a] > 0 => place'[a] = place[a] /\ line'[a] = line[a]
  BY <1>1, <1>4 DEF Globals, TypeOK
<1> QED
  BY <1>1, <1>3, <1>5, <1>6, RegroupedGlobals

\* A commit changes balances, allocations and totals together.
LEMMA CommitGlobals ==
  ASSUME Globals, NEW s \in Sessions, SessionOK(s), Commit(s)
  PROVE  Globals'
<1> USE DEF Globals
<1>1. /\ pc[s] = "commit" /\ End(s) /\ UNCHANGED <<place, line, counted, requests, counts>>
      /\ onHand' = [p \in Places |-> Hand(s, p)]
      /\ ledger' = [p \in Places |-> ledger[p] + tx[s].moved[p]]
      /\ reserved' = [p \in Places |-> reserved[p] + tx[s].held[p]]
      /\ active' = [a \in Allocs |-> active[a] + tx[s].alloc[a]]
      /\ total' = [total EXCEPT ![tx[s].line] = Total(s, tx[s].line)]
      /\ need' = [need EXCEPT ![tx[s].line] = IF Does(s, {"cancel", "deliver"}) THEN need[tx[s].line] - tx[s].n
                                              ELSE need[tx[s].line]]
  BY DEF Commit, At, bounds, Does
<1>2. /\ lock' \in [Rows -> Sessions \cup {Nobody}] /\ early' \in [Places -> SUBSET Sessions]
      /\ tx' = [tx EXCEPT ![s] = Idle] /\ pc' = [pc EXCEPT ![s] = "idle"]
  BY <1>1, Ends
<1>3. tx[s] \in Request /\ tx[s].line \in Lines /\ tx[s].n \in Int
  BY DEF TypeOK, Request
<1>4. /\ \A a \in Allocs : active[a] \in Nat /\ tx[s].alloc[a] \in Int /\ active'[a] = Left(s, a)
                           /\ active'[a] \in Nat
      /\ active' \in [Allocs -> Nat]
  BY <1>1, SeenTyped DEF Left, SessionOK, OwnOK
<1>5. \A p \in Places : /\ reserved'[p] \in Nat
                        /\ reserved'[p] = SumFunctionOnSet(AllLeft(s), {a \in Allocs : place[a] = p})
  BY <1>1, Promised DEF SessionOK
<1>6. \A p \in Places : onHand'[p] \in Nat /\ onHand'[p] = onHand[p] + tx[s].moved[p]
                        /\ reserved'[p] <= onHand'[p]
  <2> SUFFICES ASSUME NEW p \in Places
               PROVE  onHand'[p] \in Nat /\ onHand'[p] = onHand[p] + tx[s].moved[p]
                      /\ reserved'[p] <= onHand'[p]
    OBVIOUS
  <2>1. /\ Free(s, p) = onHand'[p] - reserved'[p] /\ Free(s, p) >= 0 /\ onHand[p] \in Nat
        /\ tx[s].hand[p] = Unwritten => tx[s].moved[p] = 0
        /\ tx[s].hand[p] # Unwritten => tx[s].hand[p] \in Nat /\ tx[s].hand[p] = onHand[p] + tx[s].moved[p]
    BY <1>1, SeenTyped DEF Free, SessionOK, BalanceOK
  <2>2. onHand'[p] = Hand(s, p)
    BY <1>1
  <2>3. onHand'[p] \in Nat /\ onHand'[p] = onHand[p] + tx[s].moved[p]
    BY <2>1, <2>2 DEF Hand
  <2>4. reserved'[p] \in Nat
    BY <1>5
  <2>5. reserved'[p] <= onHand'[p]
    BY <2>1, <2>3, <2>4
  <2> QED
    BY <2>3, <2>5
<1>7. total' \in [Lines -> Nat] /\ need' \in [Lines -> Nat]
  <2>1. Total(s, tx[s].line) \in Nat
    BY <1>3 DEF Total, SessionOK, OrderOK, TypeOK
  <2>2. Does(s, {"cancel", "deliver"}) => need[tx[s].line] - tx[s].n \in Nat
    <3>1. Does(s, {"cancel", "deliver"}) => tx[s].n <= need[tx[s].line]
      BY <1>1 DEF SessionOK, OrderOK
    <3>2. need[tx[s].line] \in Nat
      BY <1>3 DEF TypeOK
    <3> QED
      BY <1>3, <3>1, <3>2
  <2> QED
    BY <1>1, <2>1, <2>2 DEF TypeOK
<1>8. ledger' \in [Places -> Int] /\ onHand' \in [Places -> Nat] /\ reserved' \in [Places -> Nat]
  <2>1. \A p \in Places : ledger'[p] \in Int
    BY <1>1, SeenTyped
  <2> QED
    BY <1>1, <1>5, <1>6, <2>1
<1>9. TypeOK'
  BY <1>1, <1>2, <1>4, <1>7, <1>8, IdleTyped DEF TypeOK
<1>10. AllocsOK'
  <2>1. \A a \in Allocs : line[a] = Nobody => tx[s].alloc[a] = 0
    BY FreshIsClear
  <2> QED
    BY <1>1, <1>4, <2>1 DEF AllocsOK
<1>11. Covered'
  BY <1>6 DEF Covered
<1>12. BalanceIsLedger'
  BY <1>1, <1>6, SeenTyped DEF BalanceIsLedger
<1>13. ReservedIsActive'
  <2> SUFFICES ASSUME NEW p \in Places PROVE reserved'[p] = ActiveAt(p)'
    BY DEF ReservedIsActive
  <2> DEFINE A == {a \in Allocs : place[a] = p}
             h == AllLeft(s)
  <2>1. IsFiniteSet(A)
    BY AllocsFinite, FS_Subset
  <2>2. \A a \in A : h[a] = active'[a]
    BY <1>4 DEF AllLeft
  <2>3. ActiveAt(p)' = SumFunctionOnSet(active', A)
    BY <1>1 DEF ActiveAt
  <2>4. reserved'[p] = SumFunctionOnSet(h, A)
    BY <1>5
  <2> HIDE DEF A, h
  <2> QED
    BY <2>1, <2>2, <2>3, <2>4, SumOfEqual
<1>14. OrderTotalsFollow'
  <2> SUFFICES ASSUME NEW l \in Lines \ Shared PROVE total'[l] = ActiveFor(l)'
    BY DEF OrderTotalsFollow
  <2> DEFINE A == {a \in Allocs : line[a] = l}
             h == AllLeft(s)
             g == active'
  <2>1. IsFiniteSet(A) /\ ActiveFor(l)' = SumFunctionOnSet(g, A) /\ \A a \in A : h[a] = g[a]
    <3>1. IsFiniteSet(A)
      BY AllocsFinite, FS_Subset
    <3>2. ActiveFor(l)' = SumFunctionOnSet(g, A)
      BY <1>1 DEF ActiveFor
    <3>3. \A a \in A : h[a] = g[a]
      BY <1>4 DEF AllLeft
    <3> QED
      BY <3>1, <3>2, <3>3
  <2>2. SumFunctionOnSet(h, A) = SumFunctionOnSet(g, A)
    <3> HIDE DEF A, h, g
    <3> QED
      BY <2>1, SumOfEqual
  <2>3. total[l] = SumFunctionOnSet(active, A)
    BY DEF OrderTotalsFollow, ActiveFor
  <2>4. ASSUME \A a \in A : tx[s].alloc[a] = 0 PROVE SumFunctionOnSet(active, A) = SumFunctionOnSet(g, A)
    <3>1. \A a \in A : active[a] = g[a]
      BY <1>1, <1>4, <2>4
    <3> HIDE DEF A, g
    <3> QED
      BY <2>1, <3>1, SumOfEqual
  <2>5. CASE l # tx[s].line
    <3>1. \A a \in A : tx[s].alloc[a] = 0
      BY <2>5 DEF SessionOK, OwnOK
    <3>2. total'[l] = total[l]
      BY <1>1, <2>5 DEF TypeOK
    <3> QED
      BY <2>1, <2>3, <2>4, <3>1, <3>2
  <2>6. CASE l = tx[s].line /\ NoneWritten(s)
    <3>1. \A a \in A : tx[s].alloc[a] = 0
      BY <2>6 DEF NoneWritten
    <3>2. total'[l] = total[l]
      BY <1>1, <2>6 DEF TypeOK, Total, NoneWritten
    <3> QED
      BY <2>1, <2>3, <2>4, <3>1, <3>2
  <2>7. CASE l = tx[s].line /\ tx[s].total = HeldBy(s, l)
    <3>1. HeldBy(s, l) \in Nat
      BY HeldTyped DEF SessionOK
    <3>2. total'[l] = HeldBy(s, l)
      BY <1>1, <2>7, <3>1 DEF TypeOK, Total, Unwritten
    <3>3. HeldBy(s, l) = SumFunctionOnSet(h, A)
      BY DEF HeldBy
    <3> QED
      BY <2>1, <2>2, <3>2, <3>3
  <2> QED
    BY <1>1, <2>5, <2>6, <2>7 DEF SessionOK, TotalsOK
<1> QED
  BY <1>9, <1>10, <1>11, <1>12, <1>13, <1>14

\* At rest again.
LEMMA EndOK ==
  ASSUME Globals, NEW s \in Sessions, SessionOK(s), Commit(s) \/ Rollback(s)
  PROVE  SessionOK(s)'
<1>1. Globals'
  BY CommitGlobals, RollbackGlobals
<1>2. End(s)
  BY DEF Commit, Rollback
<1>3. tx'[s] = Idle /\ pc'[s] = "idle" /\ \A r \in Rows : lock'[r] # s
  BY <1>2, Ends DEF Globals
<1> QED
  BY <1>1, <1>3, RestsOK DEF Globals

-----------------------------------------------------------------------------
(* The step of the session itself: a statement.                                *)

\* Where a transaction goes once it has dealt with an allocation.
LEMMA ContinueTo ==
  ASSUME NEW s \in Sessions, NEW listed, NEW amount, NEW w, w = Continue(s, listed, amount)
  PROVE  /\ w \in {"alloc", "item", "commit"}
         /\ w = "alloc" => (\E a \in Allocs : listed[a] > 0) /\ (amount > 0 \/ Does(s, {"free"}))
         /\ w = "item" => Does(s, {"reallocate"}) \/ (Does(s, {"deliver"}) /\ amount > 0)
  BY DEF Continue, Does

\* What a sales document does first.
LEMMA OrderingGoes ==
  ASSUME TypeOK, NEW s \in Sessions, RouteOK(s), Ordering(s)
  PROVE  /\ pc[s] = "order" /\ Does(s, Sales) /\ lock'[Order(tx[s].line)] = s
         /\ pc'[s] \in {"item", "commit", "list", "rollback"}
         /\ pc'[s] = "item" => Does(s, {"reserve"}) /\ tx'[s].amount > 0
         /\ pc'[s] = "list" => Does(s, {"release", "cancel", "deliver"})
         /\ pc'[s] # "rollback" /\ Does(s, {"cancel", "deliver"}) => tx[s].n <= need[tx[s].line]
<1>1. /\ pc[s] = "order" /\ Take(s)
  BY DEF Ordering, ReserveForOrder, ReleaseForOrder, CancelRemaining, DispatchDelivery, At
<1>2. Wanted(s) = Order(tx[s].line) /\ Order(tx[s].line) \in Rows
  BY <1>1, WantedRow, RowsApart DEF TypeOK, Request
<1>3. lock'[Order(tx[s].line)] = s
  BY <1>1, <1>2, TakesRow DEF Locking
<1>4. CASE ReserveForOrder(s)
  <2>1. HeldBy(s, tx[s].line) \in Int
    BY HeldTyped
  <2>2. need[tx[s].line] \in Int
    BY DEF TypeOK, Request
  <2>3. PICK lacking \in Int : lacking = need[tx[s].line] - HeldBy(s, tx[s].line)
    BY <2>1, <2>2
  <2>4. tx'[s].amount = Larger(lacking, 0) /\ pc'[s] = IF lacking > 0 THEN "item" ELSE "commit"
    BY <1>4, <2>3 DEF ReserveForOrder, Go, TypeOK, Request
  <2>5. lacking > 0 => tx'[s].amount > 0
    BY <2>4, LargerSmaller
  <2>6. tx[s].kind = "reserve"
    BY <1>4 DEF ReserveForOrder
  <2> QED
    BY <1>1, <1>3, <2>4, <2>5, <2>6 DEF RouteOK, Does
<1>5. CASE ReleaseForOrder(s) \/ CancelRemaining(s) \/ DispatchDelivery(s)
  BY <1>1, <1>3, <1>5 DEF ReleaseForOrder, CancelRemaining, DispatchDelivery, Go, Unless, TypeOK,
     RouteOK, Does
<1> QED
  BY <1>4, <1>5 DEF Ordering

\* How the allocations of a line are found and taken in turn.
LEMMA ListingGoes ==
  ASSUME TypeOK, NEW s \in Sessions, SessionOK(s)
  PROVE  /\ LockReservation(s) =>
               pc[s] = "parent" /\ Does(s, {"free"}) /\ pc'[s] \in {"list", "commit"} /\ tx' = tx
         /\ ListAllocations(s) =>
               /\ pc[s] = "list" /\ pc'[s] \in {"claim", "alloc", "item", "commit"} /\ lock' = lock
               /\ tx'[s].amount = tx[s].amount
               /\ \A a \in Allocs : tx'[s].listed[a] = IF a \in Open(tx[s].line) THEN active[a] ELSE 0
               /\ pc'[s] = "claim" => Does(s, {"deliver"}) /\ Open(tx[s].line) # {}
               /\ pc'[s] = "alloc" => Listed(s)' # {}
               /\ pc'[s] = "item" => Does(s, {"deliver"}) /\ tx'[s].amount > 0
         /\ ClaimAllocation(s) =>
               /\ pc[s] = "claim" /\ pc'[s] \in {"claim", "alloc", "item", "commit"}
               /\ tx'[s].amount = tx[s].amount
               /\ lock'[Alloc(Min(Unclaimed(s)))] = s /\ Wanted(s) = Alloc(Min(Unclaimed(s)))
               /\ tx'[s].listed = [tx[s].listed EXCEPT ![Min(Unclaimed(s))] = active[Min(Unclaimed(s))]]
               /\ pc'[s] = "claim" => Unclaimed(s) # {Min(Unclaimed(s))}
               /\ pc'[s] = "alloc" => Listed(s)' # {}
               /\ pc'[s] = "item" => Does(s, {"deliver"}) /\ tx'[s].amount > 0
         /\ LockAllocation(s) =>
               /\ pc[s] = "alloc" /\ lock'[Alloc(InTurn(s))] = s /\ Wanted(s) = Alloc(InTurn(s))
               /\ \/ /\ Left(s, InTurn(s)) = 0 /\ ~Does(s, {"reallocate"})
                     /\ tx'[s].listed = Unlisted(s) /\ tx'[s].take = tx[s].take
                     /\ pc'[s] \in {"alloc", "item", "commit"}
                     /\ pc'[s] = "alloc" => Listed(s)' # {}
                     /\ pc'[s] = "item" => Does(s, {"deliver"}) /\ tx'[s].amount > 0
                  \/ /\ tx'[s].listed = tx[s].listed /\ tx'[s].amount = tx[s].amount
                     /\ pc'[s] \in {"balance", "rollback"}
                     /\ pc'[s] = "balance" => /\ tx'[s].take > 0 /\ tx'[s].take <= Left(s, InTurn(s))
                                              /\ Whole(s) \/ tx'[s].take <= tx[s].amount
<1> USE DEF SessionOK
<1>1. tx[s] \in Request
  BY DEF TypeOK
<1>2. ASSUME LockReservation(s)
      PROVE  pc[s] = "parent" /\ Does(s, {"free"}) /\ pc'[s] \in {"list", "commit"} /\ tx' = tx
  BY <1>2 DEF LockReservation, At, Go, TypeOK, Does
<1>3. ASSUME ListAllocations(s)
      PROVE  /\ pc[s] = "list" /\ pc'[s] \in {"claim", "alloc", "item", "commit"} /\ lock' = lock
             /\ tx'[s].amount = tx[s].amount
             /\ \A a \in Allocs : tx'[s].listed[a] = IF a \in Open(tx[s].line) THEN active[a] ELSE 0
             /\ pc'[s] = "claim" => Does(s, {"deliver"}) /\ Open(tx[s].line) # {}
             /\ pc'[s] = "alloc" => Listed(s)' # {}
             /\ pc'[s] = "item" => Does(s, {"deliver"}) /\ tx'[s].amount > 0
  <2>1. PICK L : L = [a \in Allocs |-> IF a \in Open(tx[s].line) THEN active[a] ELSE 0]
    OBVIOUS
  <2>2. /\ tx' = [tx EXCEPT ![s].listed = L] /\ pc[s] = "list" /\ lock' = lock
        /\ pc' = [pc EXCEPT ![s] = IF Does(s, {"deliver"}) /\ Open(tx[s].line) # {} THEN "claim"
                                   ELSE Continue(s, L, tx[s].amount)]
    BY <1>3, <2>1 DEF ListAllocations, At, Go, Does
  <2>3. tx'[s].listed = L /\ tx'[s].amount = tx[s].amount
    BY <1>1, <2>2 DEF TypeOK, Request
  <2>4. \/ pc'[s] = "claim" /\ Does(s, {"deliver"}) /\ Open(tx[s].line) # {}
        \/ pc'[s] = Continue(s, L, tx[s].amount)
    BY <2>2 DEF TypeOK
  <2>5. ~Does(s, {"reallocate"})
    BY <2>2 DEF RouteOK, Does
  <2>6. CASE pc'[s] = "claim"
    BY <2>1, <2>2, <2>3, <2>4, <2>6, ContinueTo
  <2>7. CASE pc'[s] = Continue(s, L, tx[s].amount)
    <3>1. /\ pc'[s] \in {"alloc", "item", "commit"}
          /\ pc'[s] = "alloc" => \E a \in Allocs : L[a] > 0
          /\ pc'[s] = "item" => Does(s, {"deliver"}) /\ tx[s].amount > 0
      BY <2>5, <2>7, ContinueTo
    <3> QED
      BY <2>1, <2>2, <2>3, <3>1 DEF Listed
  <2> QED
    BY <2>4, <2>6, <2>7
<1>4. ASSUME ClaimAllocation(s)
      PROVE  /\ pc[s] = "claim" /\ pc'[s] \in {"claim", "alloc", "item", "commit"}
             /\ tx'[s].amount = tx[s].amount
             /\ lock'[Alloc(Min(Unclaimed(s)))] = s /\ Wanted(s) = Alloc(Min(Unclaimed(s)))
             /\ tx'[s].listed = [tx[s].listed EXCEPT ![Min(Unclaimed(s))] = active[Min(Unclaimed(s))]]
             /\ pc'[s] = "claim" => Unclaimed(s) # {Min(Unclaimed(s))}
             /\ pc'[s] = "alloc" => Listed(s)' # {}
             /\ pc'[s] = "item" => Does(s, {"deliver"}) /\ tx'[s].amount > 0
  <2>1. PICK L : L = [tx[s].listed EXCEPT ![Min(Unclaimed(s))] = active[Min(Unclaimed(s))]]
    OBVIOUS
  <2>2. /\ tx' = [tx EXCEPT ![s].listed = L] /\ pc[s] = "claim" /\ Take(s)
        /\ pc' = [pc EXCEPT ![s] = IF Unclaimed(s) # {Min(Unclaimed(s))} THEN "claim"
                                   ELSE Continue(s, L, tx[s].amount)]
    BY <1>4, <2>1 DEF ClaimAllocation, At, Go
  <2>3. tx'[s].listed = L /\ tx'[s].amount = tx[s].amount
    BY <1>1, <2>2 DEF TypeOK, Request
  <2>4. \/ pc'[s] = "claim" /\ Unclaimed(s) # {Min(Unclaimed(s))}
        \/ pc'[s] = Continue(s, L, tx[s].amount)
    BY <2>2 DEF TypeOK
  <2>5. ~Does(s, {"reallocate"})
    BY <2>2 DEF RouteOK, Does
  <2>6. lock'[Alloc(Min(Unclaimed(s)))] = s /\ Wanted(s) = Alloc(Min(Unclaimed(s)))
    <3>1. Wanted(s) = Alloc(Min(Unclaimed(s))) /\ Min(Unclaimed(s)) \in Allocs
      BY <2>2, WantedRow, UnclaimedTurn DEF GiveOK
    <3> QED
      BY <2>2, <3>1, TakesRow, RowsApart DEF Locking
  <2>7. CASE pc'[s] = "claim"
    BY <2>1, <2>2, <2>3, <2>4, <2>6, <2>7, ContinueTo
  <2>8. CASE pc'[s] = Continue(s, L, tx[s].amount)
    <3>1. /\ pc'[s] \in {"alloc", "item", "commit"}
          /\ pc'[s] = "alloc" => \E a \in Allocs : L[a] > 0
          /\ pc'[s] = "item" => Does(s, {"deliver"}) /\ tx[s].amount > 0
      BY <2>5, <2>8, ContinueTo
    <3> QED
      BY <2>1, <2>2, <2>3, <2>6, <3>1 DEF Listed
  <2> QED
    BY <2>4, <2>7, <2>8
<1>5. ASSUME LockAllocation(s)
      PROVE  /\ pc[s] = "alloc" /\ lock'[Alloc(InTurn(s))] = s /\ Wanted(s) = Alloc(InTurn(s))
             /\ \/ /\ Left(s, InTurn(s)) = 0 /\ ~Does(s, {"reallocate"})
                   /\ tx'[s].listed = Unlisted(s) /\ tx'[s].take = tx[s].take
                   /\ pc'[s] \in {"alloc", "item", "commit"}
                   /\ pc'[s] = "alloc" => Listed(s)' # {}
                   /\ pc'[s] = "item" => Does(s, {"deliver"}) /\ tx'[s].amount > 0
                \/ /\ tx'[s].listed = tx[s].listed /\ tx'[s].amount = tx[s].amount
                   /\ pc'[s] \in {"balance", "rollback"}
                   /\ pc'[s] = "balance" => /\ tx'[s].take > 0 /\ tx'[s].take <= Left(s, InTurn(s))
                                            /\ Whole(s) \/ tx'[s].take <= tx[s].amount
  <2>1. PICK L, m, k : /\ L = Unlisted(s) /\ k = Takes(s, InTurn(s))
                       /\ m = IF Whole(s) THEN tx[s].amount ELSE tx[s].amount - k
    OBVIOUS
  <2>2. pc[s] = "alloc" /\ Take(s)
    BY <1>5 DEF LockAllocation, At
  <2>3. \/ /\ Left(s, InTurn(s)) = 0 /\ ~Does(s, {"reallocate"})
           /\ tx' = [tx EXCEPT ![s].listed = L, ![s].amount = m]
           /\ pc' = [pc EXCEPT ![s] = Continue(s, L, m)]
        \/ /\ tx' = [tx EXCEPT ![s].take = k]
           /\ pc' = [pc EXCEPT ![s] = IF 0 < k /\ k <= Left(s, InTurn(s)) THEN "balance" ELSE "rollback"]
    BY <1>5, <2>1 DEF LockAllocation, Found, Unlisted, Go, Unless, Does
  <2>4. lock'[Alloc(InTurn(s))] = s /\ Wanted(s) = Alloc(InTurn(s))
    <3>1. Wanted(s) = Alloc(InTurn(s)) /\ InTurn(s) \in Allocs
      BY <2>2, WantedRow, InTurnListed DEF GiveOK
    <3> QED
      BY <2>2, <3>1, TakesRow, RowsApart DEF Locking
  <2>5. CASE /\ Left(s, InTurn(s)) = 0 /\ ~Does(s, {"reallocate"})
             /\ tx' = [tx EXCEPT ![s].listed = L, ![s].amount = m]
             /\ pc' = [pc EXCEPT ![s] = Continue(s, L, m)]
    <3>1. /\ pc'[s] \in {"alloc", "item", "commit"}
          /\ pc'[s] = "alloc" => \E a \in Allocs : L[a] > 0
          /\ pc'[s] = "item" => Does(s, {"deliver"}) /\ m > 0
      <4>1. pc'[s] = Continue(s, L, m)
        BY <2>5 DEF TypeOK
      <4> QED
        BY <2>5, <4>1, ContinueTo
    <3>2. tx'[s].listed = L /\ tx'[s].amount = m /\ tx'[s].take = tx[s].take
      BY <1>1, <2>5 DEF TypeOK, Request
    <3> QED
      BY <2>1, <2>2, <2>4, <2>5, <3>1, <3>2 DEF Listed
  <2>6. CASE /\ tx' = [tx EXCEPT ![s].take = k]
             /\ pc' = [pc EXCEPT ![s] = IF 0 < k /\ k <= Left(s, InTurn(s)) THEN "balance" ELSE "rollback"]
    <3>1. tx'[s].listed = tx[s].listed /\ tx'[s].amount = tx[s].amount /\ tx'[s].take = k
      BY <1>1, <2>6 DEF TypeOK, Request
    <3>2. pc'[s] \in {"balance", "rollback"} /\ (pc'[s] = "balance" => 0 < k /\ k <= Left(s, InTurn(s)))
      BY <2>6 DEF TypeOK
    <3>3. Whole(s) \/ k <= tx[s].amount
      <4>1. InTurn(s) \in Allocs /\ tx[s].amount \in Int
        BY <1>1, <2>2, InTurnListed DEF GiveOK, Request
      <4>2. tx[s].listed[InTurn(s)] \in Int
        BY <1>1, <4>1 DEF Request
      <4> QED
        BY <2>1, <4>1, <4>2, LargerSmaller DEF Takes, Found
    <3>4. 0 < k => k > 0
      <4>1. k \in Int
        <5>1. InTurn(s) \in Allocs /\ tx[s].amount \in Int
          BY <1>1, <2>2, InTurnListed DEF GiveOK, Request
        <5>2. tx[s].listed[InTurn(s)] \in Int /\ Left(s, InTurn(s)) \in Int
          BY <5>1, SeenTyped
        <5> QED
          BY <2>1, <5>1, <5>2, LargerSmaller DEF Takes, Found
      <4> QED
        BY <4>1
    <3> QED
      BY <2>2, <2>4, <3>1, <3>2, <3>3, <3>4
  <2> QED
    BY <2>3, <2>5, <2>6
<1> QED
  BY <1>2, <1>3, <1>4, <1>5

\* How an allocation is given up, and consumed.
LEMMA GivingGoes ==
  ASSUME TypeOK, AllocsOK, NEW s \in Sessions, SessionOK(s)
  PROVE  /\ GiveUpReserved(s) =>
               /\ pc[s] = "balance" /\ pc'[s] \in {"totals", "rollback"}
               /\ tx'[s].amount = tx[s].amount
               /\ lock'[Balance(place[InTurn(s)])] = s /\ Wanted(s) = Balance(place[InTurn(s)])
               /\ tx'[s].held = [tx[s].held EXCEPT ![place[InTurn(s)]] = tx[s].held[place[InTurn(s)]] - tx[s].take]
               /\ tx'[s].alloc = [tx[s].alloc EXCEPT ![InTurn(s)] = tx[s].alloc[InTurn(s)] - tx[s].take]
         /\ ReadTotals(s) =>
               /\ pc[s] = "totals" /\ pc'[s] = "sync" /\ lock' = lock
               /\ tx'[s].amount = tx[s].amount /\ tx'[s].seen = HeldBy(s, tx[s].line)
         /\ WriteTotals(s) =>
               /\ pc[s] = "sync" /\ Wanted(s) = Parent(tx[s].line) /\ tx'[s].total = tx[s].seen
               /\ \/ /\ Does(s, {"deliver"}) /\ pc'[s] = "check"
                     /\ tx'[s].listed = tx[s].listed /\ tx'[s].take = tx[s].take /\ tx'[s].amount = tx[s].amount
                  \/ /\ ~Does(s, {"deliver"}) /\ pc'[s] \in {"alloc", "item", "commit"}
                     /\ tx'[s].listed = Unlisted(s) /\ tx'[s].take = 0 /\ tx'[s].amount = Remaining(s)
                     /\ pc'[s] = "alloc" => Listed(s)' # {}
                     /\ pc'[s] = "item" => Does(s, {"reallocate"})
         /\ CheckCount(s) =>
               /\ pc[s] = "check" /\ pc'[s] \in {"item", "rollback"} /\ lock' = lock
               /\ tx'[s].amount = tx[s].amount
               /\ tx'[s].checked = tx[s].checked \cup {PostedAt(s)}
               /\ pc'[s] = "item" => PostedAt(s) \notin counted
         /\ LockInventoryItem(s) =>
               /\ pc[s] = "item" /\ Wanted(s) = Item /\ tx' = tx
               /\ pc'[s] = IF Posting(s) THEN "position" ELSE "demand"
         /\ PostMovement(s) =>
               /\ pc[s] = "position" /\ pc'[s] \in {"alloc", "item", "commit", "rollback"}
               /\ lock'[Balance(PostedAt(s))] = s /\ Wanted(s) = Balance(PostedAt(s))
               /\ pc'[s] \in {"alloc", "item"} => Does(s, {"deliver"})
               /\ pc'[s] = "alloc" => Listed(s)' # {}
               /\ pc'[s] = "item" => tx'[s].amount > 0
               /\ pc'[s] # "rollback" => Enough(s, PostedAt(s))
<1> USE DEF SessionOK
<1>1. tx[s] \in Request
  BY DEF TypeOK
<1>2. ASSUME GiveUpReserved(s)
      PROVE  /\ pc[s] = "balance" /\ pc'[s] \in {"totals", "rollback"}
             /\ tx'[s].amount = tx[s].amount
             /\ lock'[Balance(place[InTurn(s)])] = s /\ Wanted(s) = Balance(place[InTurn(s)])
             /\ tx'[s].held = [tx[s].held EXCEPT ![place[InTurn(s)]] = tx[s].held[place[InTurn(s)]] - tx[s].take]
             /\ tx'[s].alloc = [tx[s].alloc EXCEPT ![InTurn(s)] = tx[s].alloc[InTurn(s)] - tx[s].take]
  <2>1. pc[s] = "balance" /\ Take(s)
    BY <1>2 DEF GiveUpReserved, At
  <2>2. PICK a, p : a = InTurn(s) /\ p = place[a]
    OBVIOUS
  <2>3. tx' = [tx EXCEPT ![s].held[p] = @ - tx[s].take, ![s].alloc[a] = @ - tx[s].take]
    BY <1>2, <2>2 DEF GiveUpReserved, Freed
  <2>4. /\ tx'[s].amount = tx[s].amount
        /\ tx'[s].held = [tx[s].held EXCEPT ![p] = tx[s].held[p] - tx[s].take]
        /\ tx'[s].alloc = [tx[s].alloc EXCEPT ![a] = tx[s].alloc[a] - tx[s].take]
    BY <1>1, <2>3 DEF TypeOK, Request
  <2>5. Wanted(s) = Balance(place[InTurn(s)]) /\ place[InTurn(s)] \in Places
    BY <2>1, WantedRow, TurnPlaced DEF GiveOK, Giving
  <2>6. lock'[Balance(place[InTurn(s)])] = s
    BY <2>1, <2>5, TakesRow, RowsApart DEF Locking
  <2>7. pc'[s] \in {"totals", "rollback"}
    BY <1>2 DEF GiveUpReserved, Go, Unless, TypeOK
  <2> QED
    BY <2>1, <2>2, <2>4, <2>5, <2>6, <2>7
<1>3. ASSUME ReadTotals(s)
      PROVE  /\ pc[s] = "totals" /\ pc'[s] = "sync" /\ lock' = lock
             /\ tx'[s].amount = tx[s].amount /\ tx'[s].seen = HeldBy(s, tx[s].line)
  BY <1>1, <1>3 DEF ReadTotals, At, Go, TypeOK, Request, Totals
<1>4. ASSUME WriteTotals(s)
      PROVE  /\ pc[s] = "sync" /\ Wanted(s) = Parent(tx[s].line) /\ tx'[s].total = tx[s].seen
             /\ \/ /\ Does(s, {"deliver"}) /\ pc'[s] = "check"
                   /\ tx'[s].listed = tx[s].listed /\ tx'[s].take = tx[s].take /\ tx'[s].amount = tx[s].amount
                \/ /\ ~Does(s, {"deliver"}) /\ pc'[s] \in {"alloc", "item", "commit"}
                   /\ tx'[s].listed = Unlisted(s) /\ tx'[s].take = 0 /\ tx'[s].amount = Remaining(s)
                   /\ pc'[s] = "alloc" => Listed(s)' # {}
                   /\ pc'[s] = "item" => Does(s, {"reallocate"})
  <2>1. pc[s] = "sync" /\ Take(s) /\ Giving(s)
    BY <1>4 DEF WriteTotals, At, Giving
  <2>2. Wanted(s) = Parent(tx[s].line)
    BY <2>1, WantedRow
  <2>3. CASE Does(s, {"deliver"})
    <3>1. tx' = [tx EXCEPT ![s].total = tx[s].seen] /\ pc' = [pc EXCEPT ![s] = "check"]
      BY <1>4, <2>3 DEF WriteTotals, Does, Go
    <3> QED
      BY <1>1, <2>1, <2>2, <2>3, <3>1 DEF TypeOK, Request
  <2>4. CASE ~Does(s, {"deliver"})
    <3>1. PICK r : r = Settled(s)
      OBVIOUS
    <3>2. /\ r \in Request /\ r.listed = Unlisted(s) /\ r.take = 0 /\ r.amount = Remaining(s)
      BY <2>1, <3>1, SettledFields
    <3>3. PICK x : x = [r EXCEPT !.total = tx[s].seen]
      OBVIOUS
    <3>4. x.total = tx[s].seen /\ x.listed = r.listed /\ x.take = r.take /\ x.amount = r.amount
      BY <3>2, <3>3 DEF Request
    <3>5. tx' = [tx EXCEPT ![s] = x] /\ pc' = [pc EXCEPT ![s] = Continue(s, x.listed, x.amount)]
      BY <1>4, <2>4, <3>1, <3>3 DEF WriteTotals, Does, Go
    <3>6. tx'[s] = x /\ pc'[s] = Continue(s, x.listed, x.amount)
      BY <3>5 DEF TypeOK
    <3>7. /\ pc'[s] \in {"alloc", "item", "commit"}
          /\ pc'[s] = "alloc" => \E a \in Allocs : x.listed[a] > 0
          /\ pc'[s] = "item" => Does(s, {"reallocate"})
      BY <2>4, <3>6, ContinueTo
    <3> QED
      BY <2>1, <2>2, <2>4, <3>2, <3>4, <3>6, <3>7 DEF Listed
  <2> QED
    BY <2>3, <2>4
<1>5. ASSUME CheckCount(s)
      PROVE  /\ pc[s] = "check" /\ pc'[s] \in {"item", "rollback"} /\ lock' = lock
             /\ tx'[s].amount = tx[s].amount
             /\ tx'[s].checked = tx[s].checked \cup {PostedAt(s)}
             /\ pc'[s] = "item" => PostedAt(s) \notin counted
  BY <1>1, <1>5 DEF CheckCount, At, Go, Unless, TypeOK, Request
<1>6. ASSUME LockInventoryItem(s)
      PROVE  /\ pc[s] = "item" /\ Wanted(s) = Item /\ tx' = tx
             /\ pc'[s] = IF Posting(s) THEN "position" ELSE "demand"
  BY <1>6, WantedRow DEF LockInventoryItem, At, Go, TypeOK
<1>7. ASSUME PostMovement(s)
      PROVE  /\ pc[s] = "position" /\ pc'[s] \in {"alloc", "item", "commit", "rollback"}
             /\ lock'[Balance(PostedAt(s))] = s /\ Wanted(s) = Balance(PostedAt(s))
             /\ pc'[s] \in {"alloc", "item"} => Does(s, {"deliver"})
             /\ pc'[s] = "alloc" => Listed(s)' # {}
             /\ pc'[s] = "item" => tx'[s].amount > 0
             /\ pc'[s] # "rollback" => Enough(s, PostedAt(s))
  <2>1. pc[s] = "position" /\ Take(s)
    BY <1>7 DEF PostMovement, At
  <2>2. PICK p : p = PostedAt(s)
    OBVIOUS
  <2>3. /\ p \in Places /\ tx'[s].listed = PostedRecord(s).listed /\ tx'[s].amount = PostedRecord(s).amount
    BY <1>7, <2>2, PostFields
  <2>4. Wanted(s) = Balance(p)
    BY <2>1, <2>2, WantedRow
  <2>5. lock'[Balance(p)] = s
    BY <2>1, <2>3, <2>4, TakesRow, RowsApart DEF Locking
  <2>6. PICK m : m = IF tx[s].kind = "move" THEN 0 ELSE PostedRecord(s).amount
    OBVIOUS
  <2>7. \/ pc'[s] = "rollback"
        \/ Enough(s, p) /\ pc'[s] = Continue(s, PostedRecord(s).listed, m)
    BY <1>7, <2>2, <2>6 DEF PostMovement, Go, Unless, PostedRecord, TypeOK
  <2>8. tx[s].kind \in {"move", "deliver"}
    BY <2>1 DEF RouteOK, Does
  <2>9. CASE pc'[s] = "rollback"
    BY <2>1, <2>2, <2>4, <2>5, <2>9
  <2>10. CASE Enough(s, p) /\ pc'[s] = Continue(s, PostedRecord(s).listed, m)
    <3>1. /\ pc'[s] \in {"alloc", "item", "commit"}
          /\ pc'[s] = "alloc" => (\E a \in Allocs : tx'[s].listed[a] > 0) /\ (m > 0 \/ Does(s, {"free"}))
          /\ pc'[s] = "item" => Does(s, {"reallocate"}) \/ (Does(s, {"deliver"}) /\ m > 0)
      BY <2>3, <2>10, ContinueTo
    <3>2. pc'[s] \in {"alloc", "item"} => Does(s, {"deliver"}) /\ m = tx'[s].amount
      BY <2>3, <2>6, <2>8, <3>1 DEF Does
    <3>3. pc'[s] = "item" => tx'[s].amount > 0
      BY <2>8, <3>1, <3>2 DEF Does
    <3> QED
      BY <2>1, <2>2, <2>4, <2>5, <2>10, <3>1, <3>2, <3>3 DEF Listed
  <2> QED
    BY <2>7, <2>9, <2>10
<1> QED
  BY <1>2, <1>3, <1>4, <1>5, <1>6, <1>7

\* How positions to reserve at are found.
LEMMA KeepingGoes ==
  ASSUME TypeOK, NEW s \in Sessions, SessionOK(s)
  PROVE  /\ ReadDemand(s) =>
               /\ pc[s] = "demand" /\ pc'[s] \in {"parent", "rollback"} /\ lock' = lock
               /\ tx'[s].amount = tx[s].amount /\ tx'[s].seen = need[tx[s].line]
         /\ EnsureReservation(s) =>
               /\ pc[s] = "parent" /\ Does(s, Keepers) /\ pc'[s] \in {"pick", "commit", "rollback"}
               /\ Wanted(s) = Parent(tx[s].line)
               /\ pc'[s] = "pick" => tx'[s].amount > 0
         /\ PickRows(s) =>
               /\ pc[s] = "pick" /\ pc'[s] \in {"rows", "commit", "rollback"} /\ lock' = lock
               /\ tx'[s].amount = tx[s].amount
               /\ pc'[s] = "rows" => tx'[s].rows # {}
               /\ pc'[s] = "commit" => Does(s, {"reserve"})
               /\ tx'[s].checked = tx[s].checked \cup tx'[s].rows
               /\ \A p \in tx'[s].rows : Suits(s, p) /\ (Does(s, {"reallocate"}) \/ p \notin counted)
         /\ LockRow(s) =>
               /\ pc[s] = "rows" /\ pc'[s] \in {"rows", "commit", "rollback"}
               /\ tx'[s].amount = tx[s].amount
               /\ Unlocked(s) # {} /\ Wanted(s) = Balance(Fullest(s, Unlocked(s)))
               /\ tx'[s].rows = IF Suits(s, Fullest(s, Unlocked(s))) THEN tx[s].rows
                                ELSE tx[s].rows \ {Fullest(s, Unlocked(s))}
               /\ pc'[s] = "rows" => tx'[s].rows # {}
               /\ pc'[s] = "commit" => Does(s, {"reserve"})
         /\ RowsLocked(s) =>
               /\ pc[s] = "rows" /\ pc'[s] \in {"insert", "rollback"} /\ lock' = lock /\ tx' = tx
               /\ Unlocked(s) = {}
               /\ pc'[s] = "insert" => ~Does(s, {"reallocate"}) \/ tx[s].place \notin counted
<1> USE DEF SessionOK
<1>1. tx[s] \in Request
  BY DEF TypeOK
<1>2. ASSUME ReadDemand(s)
      PROVE  /\ pc[s] = "demand" /\ pc'[s] \in {"parent", "rollback"} /\ lock' = lock
             /\ tx'[s].amount = tx[s].amount /\ tx'[s].seen = need[tx[s].line]
  BY <1>1, <1>2 DEF ReadDemand, At, Go, Unless, TypeOK, Request
<1>3. ASSUME EnsureReservation(s)
      PROVE  /\ pc[s] = "parent" /\ Does(s, Keepers) /\ pc'[s] \in {"pick", "commit", "rollback"}
             /\ Wanted(s) = Parent(tx[s].line)
             /\ pc'[s] = "pick" => tx'[s].amount > 0
  <2>1. pc[s] = "parent" /\ Does(s, Keepers)
    BY <1>3 DEF EnsureReservation, At, RouteOK, Does, Keepers
  <2>2. Wanted(s) = Parent(tx[s].line)
    BY <2>1, WantedRow
  <2>3. tx[s].amount \in Int /\ tx[s].amount > 0
    BY <1>1, <2>1 DEF KeepOK, Does, Keepers, Request
  <2>4. PICK room \in Int : room = Larger(tx[s].seen - Total(s, tx[s].line), 0)
    <3>1. Total(s, tx[s].line) \in Int /\ tx[s].seen \in Int
      BY <1>1 DEF Total, TypeOK, Request
    <3> QED
      BY <3>1, LargerSmaller
  <2>5. /\ tx' = [tx EXCEPT ![s].amount = Smaller(tx[s].amount, room)]
        /\ pc' = [pc EXCEPT ![s] = IF Exact(s) THEN IF tx[s].amount <= room THEN "pick" ELSE "rollback"
                                   ELSE IF room > 0 THEN "pick" ELSE "commit"]
    BY <1>3, <2>4 DEF EnsureReservation, Go, Unless
  <2>6. tx'[s].amount = Smaller(tx[s].amount, room)
    BY <1>1, <2>5 DEF TypeOK, Request
  <2>7. pc'[s] = "pick" => tx[s].amount <= room \/ room > 0
    BY <2>5 DEF TypeOK
  <2>8. pc'[s] = "pick" => tx'[s].amount > 0
    BY <2>3, <2>6, <2>7 DEF Smaller
  <2>9. pc'[s] \in {"pick", "commit", "rollback"}
    BY <2>5 DEF TypeOK
  <2> QED
    BY <2>1, <2>2, <2>8, <2>9
<1>4. ASSUME PickRows(s)
      PROVE  /\ pc[s] = "pick" /\ pc'[s] \in {"rows", "commit", "rollback"} /\ lock' = lock
             /\ tx'[s].amount = tx[s].amount
             /\ pc'[s] = "rows" => tx'[s].rows # {}
             /\ pc'[s] = "commit" => Does(s, {"reserve"})
             /\ tx'[s].checked = tx[s].checked \cup tx'[s].rows
             /\ \A p \in tx'[s].rows : Suits(s, p) /\ (Does(s, {"reallocate"}) \/ p \notin counted)
  <2>1. PICK R : R = {p \in Places : Suits(s, p) /\ (tx[s].kind = "reallocate" \/ p \notin counted)}
    OBVIOUS
  <2>2. /\ tx' = [tx EXCEPT ![s].rows = R, ![s].checked = tx[s].checked \cup R]
        /\ pc' = [pc EXCEPT ![s] = IF R = {} THEN NothingFound(s) ELSE "rows"]
        /\ pc[s] = "pick" /\ lock' = lock
    BY <1>4, <2>1 DEF PickRows, At, Go
  <2>3. tx'[s].rows = R /\ tx'[s].checked = tx[s].checked \cup R /\ tx'[s].amount = tx[s].amount
    BY <1>1, <2>2 DEF TypeOK, Request
  <2>4. /\ pc'[s] \in {"rows", "commit", "rollback"} /\ (pc'[s] = "rows" => R # {})
        /\ pc'[s] = "commit" => Does(s, {"reserve"})
    BY <2>2 DEF TypeOK, NothingFound, Exact, Does
  <2> QED
    BY <2>1, <2>2, <2>3, <2>4 DEF Does
<1>5. ASSUME LockRow(s)
      PROVE  /\ pc[s] = "rows" /\ pc'[s] \in {"rows", "commit", "rollback"}
             /\ tx'[s].amount = tx[s].amount
             /\ Unlocked(s) # {} /\ Wanted(s) = Balance(Fullest(s, Unlocked(s)))
             /\ tx'[s].rows = IF Suits(s, Fullest(s, Unlocked(s))) THEN tx[s].rows
                              ELSE tx[s].rows \ {Fullest(s, Unlocked(s))}
             /\ pc'[s] = "rows" => tx'[s].rows # {}
             /\ pc'[s] = "commit" => Does(s, {"reserve"})
  <2>1. PICK p, R : p = Fullest(s, Unlocked(s)) /\ R = IF Suits(s, p) THEN tx[s].rows ELSE tx[s].rows \ {p}
    OBVIOUS
  <2>2. /\ tx' = [tx EXCEPT ![s].rows = R] /\ pc[s] = "rows" /\ Unlocked(s) # {}
        /\ pc' = [pc EXCEPT ![s] = IF R = {} THEN NothingFound(s) ELSE "rows"]
    BY <1>5, <2>1 DEF LockRow, At, Go
  <2>3. tx'[s].rows = R /\ tx'[s].amount = tx[s].amount
    BY <1>1, <2>2 DEF TypeOK, Request
  <2>4. /\ pc'[s] \in {"rows", "commit", "rollback"} /\ (pc'[s] = "rows" => R # {})
        /\ pc'[s] = "commit" => Does(s, {"reserve"})
    BY <2>2 DEF TypeOK, NothingFound, Exact, Does
  <2>5. Wanted(s) = Balance(Fullest(s, Unlocked(s)))
    BY <2>2, WantedRow
  <2> QED
    BY <2>1, <2>2, <2>3, <2>4, <2>5
<1>6. ASSUME RowsLocked(s)
      PROVE  /\ pc[s] = "rows" /\ pc'[s] \in {"insert", "rollback"} /\ lock' = lock /\ tx' = tx
             /\ Unlocked(s) = {}
             /\ pc'[s] = "insert" => ~Does(s, {"reallocate"}) \/ tx[s].place \notin counted
  BY <1>6 DEF RowsLocked, At, Go, Unless, MayReserve, Does, TypeOK
<1> QED
  BY <1>2, <1>3, <1>4, <1>5, <1>6
\* Each statement has a place of its own in its transaction.
LEMMA Whereabouts ==
  ASSUME NEW s \in Sessions
  PROVE  /\ Ordering(s) => pc[s] = "order"
         /\ LockReservation(s) => pc[s] = "parent" /\ tx[s].kind = "free"
         /\ ListAllocations(s) => pc[s] = "list"
         /\ ClaimAllocation(s) => pc[s] = "claim"
         /\ LockAllocation(s) => pc[s] = "alloc"
         /\ GiveUpReserved(s) => pc[s] = "balance"
         /\ ReadTotals(s) => pc[s] = "totals"
         /\ WriteTotals(s) => pc[s] = "sync"
         /\ CheckCount(s) => pc[s] = "check"
         /\ LockInventoryItem(s) => pc[s] = "item"
         /\ PostMovement(s) => pc[s] = "position"
         /\ ReadDemand(s) => pc[s] = "demand"
         /\ EnsureReservation(s) => pc[s] = "parent" /\ tx[s].kind # "free"
         /\ PickRows(s) => pc[s] = "pick"
         /\ LockRow(s) => pc[s] = "rows"
         /\ RowsLocked(s) => pc[s] = "rows"
  BY DEF Ordering, ReserveForOrder, ReleaseForOrder, CancelRemaining, DispatchDelivery, LockReservation,
     ListAllocations, ClaimAllocation, LockAllocation, GiveUpReserved, ReadTotals, WriteTotals,
     CheckCount, LockInventoryItem, PostMovement, ReadDemand, EnsureReservation, PickRows, LockRow,
     RowsLocked, At

\* Where a statement leads to, requests of its kind may be.
LEMMA QuietRoute ==
  ASSUME TypeOK, AllocsOK, NEW s \in Sessions, SessionOK(s), Quiet(s)
  PROVE  RouteOK(s)'
<1> USE DEF SessionOK
<1>1. tx'[s].kind = tx[s].kind /\ tx'[s].line = tx[s].line
  BY Fields
<1>2. Does(s, Sales \cup {"move"}) \/ tx[s].line \in Shared
  BY DEF RouteOK
<1>3. CASE Ordering(s)
  BY <1>1, <1>2, <1>3, OrderingGoes DEF RouteOK, Does, Sales, Keepers
<1>4. CASE LockReservation(s) \/ ListAllocations(s) \/ ClaimAllocation(s) \/ LockAllocation(s)
  BY <1>1, <1>2, <1>4, ListingGoes DEF RouteOK, Does, Keepers, Givers
<1>5. CASE GiveUpReserved(s) \/ ReadTotals(s) \/ WriteTotals(s)
  BY <1>1, <1>2, <1>5, GivingGoes DEF RouteOK, Does, Keepers, Givers
<1>6. CASE CheckCount(s) \/ PostMovement(s)
  BY <1>1, <1>2, <1>6, GivingGoes DEF RouteOK, Does, Keepers, Givers
<1>7. CASE LockInventoryItem(s)
  <2>1. pc[s] = "item" /\ tx' = tx /\ pc'[s] = IF Posting(s) THEN "position" ELSE "demand"
    BY <1>7, GivingGoes
  <2>2. CASE Posting(s)
    BY <1>1, <1>2, <2>1, <2>2 DEF RouteOK, Does, GiveOK, Giving, Posting
  <2>3. CASE ~Posting(s)
    BY <1>1, <1>2, <2>1, <2>3 DEF RouteOK, Does, Posting, Keepers
  <2> QED
    BY <2>2, <2>3
<1>8. CASE ReadDemand(s) \/ EnsureReservation(s) \/ PickRows(s) \/ LockRow(s) \/ RowsLocked(s)
  BY <1>1, <1>2, <1>8, KeepingGoes DEF RouteOK, Does, Keepers
<1> QED
  BY <1>3, <1>4, <1>5, <1>6, <1>7, <1>8 DEF Quiet

\* What is being given up stays of the allocation in turn, and covered by it.
LEMMA QuietGive ==
  ASSUME TypeOK, AllocsOK, NEW s \in Sessions, SessionOK(s), Quiet(s)
  PROVE  GiveOK(s)'
<1> USE DEF SessionOK
<1>1. /\ tx'[s].kind = tx[s].kind /\ tx'[s].line = tx[s].line /\ tx[s] \in Request
      /\ \A r \in Rows : lock[r] = s => lock'[r] = s
      /\ \A a \in Allocs : Alloc(a) \in Rows /\ (lock[Alloc(a)] = s => lock'[Alloc(a)] = s)
      /\ Whole(s)' = Whole(s)
  BY Fields, QuietIsQuiet, RowsApart DEF TypeOK, Whole
<1>2. tx[s].take \in Nat /\ tx[s].amount \in Nat
  BY <1>1 DEF Request
\* A session that is giving nothing up before and after.
<1>3. ASSUME tx'[s].take = 0, pc'[s] \notin {"balance", "totals", "sync", "check", "alloc", "claim"},
             pc'[s] = "position" => Does(s, {"move"})
      PROVE  GiveOK(s)'
  <2>1. ~Giving(s)'
    BY <1>3 DEF Giving
  <2> QED
    BY <1>1, <1>3, <2>1 DEF GiveOK, Does
<1>4. pc[s] \in {"order", "list", "claim", "alloc", "parent", "demand", "pick", "rows"} => tx[s].take = 0
  BY <1>2 DEF GiveOK, Giving
<1>5. CASE Ordering(s)
  <2>1. tx'[s].take = tx[s].take
    BY <1>5, Fields, Whereabouts
  <2> QED
    BY <1>3, <1>4, <1>5, <2>1, OrderingGoes
<1>6. CASE LockReservation(s)
  BY <1>3, <1>4, <1>6, ListingGoes
<1>7. CASE ListAllocations(s)
  <2>1. pc[s] = "list" /\ pc'[s] \in {"claim", "alloc", "item", "commit"} /\ lock' = lock
    BY <1>7, ListingGoes
  <2>2. tx'[s].take = 0
    BY <1>4, <2>1, Fields, Whereabouts
  <2>3. ~Giving(s)'
    BY <2>1, <2>2 DEF Giving
  <2>4. pc'[s] = "alloc" => Listed(s)' # {}
    BY <1>7, ListingGoes
  <2>5. ASSUME pc'[s] = "claim" PROVE Unclaimed(s)' # {}
    <3>1. PICK a \in Open(tx[s].line) : TRUE
      BY <1>7, <2>5, ListingGoes
    <3>2. a \in Allocs /\ active[a] > 0 /\ tx'[s].listed[a] = active[a]
      BY <1>7, <3>1, ListingGoes DEF Open
    <3>3. lock'[Alloc(a)] # s
      BY <2>1, <3>2 DEF OwnOK, Starting
    <3> QED
      BY <3>2, <3>3 DEF Unclaimed, Listed
  <2> QED
    BY <2>1, <2>2, <2>3, <2>4, <2>5 DEF GiveOK
<1>8. CASE ClaimAllocation(s)
  <2>1. PICK a : a = Min(Unclaimed(s))
    OBVIOUS
  <2>2. /\ pc[s] = "claim" /\ pc'[s] \in {"claim", "alloc", "item", "commit"}
        /\ Wanted(s) = Alloc(a) /\ tx'[s].listed = [tx[s].listed EXCEPT ![a] = active[a]]
        /\ pc'[s] = "claim" => Unclaimed(s) # {a}
        /\ pc'[s] = "alloc" => Listed(s)' # {}
    BY <1>8, <2>1, ListingGoes
  <2>3. tx'[s].take = 0
    BY <1>4, <2>2, Fields, Whereabouts
  <2>4. ~Giving(s)'
    BY <2>2, <2>3 DEF Giving
  <2>5. ASSUME pc'[s] = "claim" PROVE Unclaimed(s)' # {}
    <3>1. Unclaimed(s) # {}
      BY <2>2 DEF GiveOK
    <3>2. PICK b \in Unclaimed(s) : b # a
      BY <2>2, <2>5, <3>1
    <3>3. b \in Allocs /\ tx[s].listed[b] > 0 /\ lock[Alloc(b)] # s
      BY <3>2 DEF Unclaimed, Listed
    <3>4. tx'[s].listed[b] > 0
      BY <1>1, <2>2, <3>2, <3>3 DEF Request
    <3>5. Alloc(b) \in Rows /\ Alloc(b) # Wanted(s)
      BY <2>2, <3>2, <3>3, RowsApart
    <3>6. lock'[Alloc(b)] # s
      BY <3>3, <3>5, QuietIsQuiet
    <3> QED
      BY <3>3, <3>4, <3>6 DEF Unclaimed, Listed
  <2> QED
    BY <2>2, <2>3, <2>4, <2>5 DEF GiveOK
<1>9. CASE LockAllocation(s)
  <2>1. /\ pc[s] = "alloc" /\ lock'[Alloc(InTurn(s))] = s
        /\ \/ /\ tx'[s].take = tx[s].take /\ pc'[s] \in {"alloc", "item", "commit"}
              /\ pc'[s] = "alloc" => Listed(s)' # {}
           \/ /\ tx'[s].listed = tx[s].listed /\ tx'[s].amount = tx[s].amount
              /\ pc'[s] \in {"balance", "rollback"}
              /\ pc'[s] = "balance" => /\ tx'[s].take > 0 /\ tx'[s].take <= Left(s, InTurn(s))
                                       /\ Whole(s) \/ tx'[s].take <= tx[s].amount
    BY <1>9, ListingGoes
  <2>2. CASE pc'[s] \in {"alloc", "item", "commit"}
    <3>1. tx'[s].take = 0
      BY <1>4, <2>1, <2>2
    <3>2. ~Giving(s)'
      BY <2>2, <3>1 DEF Giving
    <3> QED
      BY <2>1, <2>2, <3>1, <3>2 DEF GiveOK
  <2>3. CASE pc'[s] = "balance"
    <3>1. /\ InTurn(s)' = InTurn(s) /\ Listed(s)' = Listed(s) /\ Listed(s) # {}
          /\ tx'[s].take > 0 /\ (Whole(s) \/ tx'[s].take <= tx'[s].amount)
          /\ tx'[s].take <= Left(s, InTurn(s)) /\ lock'[Alloc(InTurn(s))] = s
      BY <1>1, <2>1, <2>3 DEF InTurn, Listed, GiveOK
    <3>2. Left(s, InTurn(s))' = Left(s, InTurn(s))
      <4>1. tx'[s].alloc = tx[s].alloc
        BY <2>1, Fields, Whereabouts
      <4>2. active' = active
        BY QuietIsQuiet DEF Quietly, database, allocations
      <4> QED
        BY <3>1, <4>1, <4>2 DEF Left
    <3> QED
      BY <1>1, <2>3, <3>1, <3>2 DEF GiveOK, Giving
  <2>4. CASE pc'[s] = "rollback"
    BY <2>4 DEF GiveOK, Giving
  <2> QED
    BY <2>1, <2>2, <2>3, <2>4
<1>10. CASE GiveUpReserved(s) \/ ReadTotals(s) \/ (WriteTotals(s) /\ Does(s, {"deliver"}))
  <2>1. /\ pc[s] \in {"balance", "totals", "sync"} /\ pc'[s] \in {"totals", "sync", "check", "rollback"}
        /\ pc'[s] = "check" => Does(s, {"deliver"})
        /\ tx'[s].amount = tx[s].amount
    BY <1>10, GivingGoes
  <2>2. tx'[s].take = tx[s].take /\ tx'[s].listed = tx[s].listed
    <3>1. CASE GiveUpReserved(s) \/ ReadTotals(s)
      BY <3>1, Fields, Whereabouts
    <3>2. CASE WriteTotals(s) /\ Does(s, {"deliver"})
      BY <3>2, GivingGoes
    <3> QED
      BY <1>10, <3>1, <3>2
  <2>3. Giving(s)
    BY <2>1 DEF Giving
  <2>4. /\ InTurn(s)' = InTurn(s) /\ Listed(s)' = Listed(s)
        /\ tx[s].take > 0 /\ Listed(s) # {} /\ lock[Alloc(InTurn(s))] = s
        /\ Whole(s) \/ tx[s].take <= tx[s].amount
    BY <1>1, <2>2, <2>3 DEF InTurn, Listed, GiveOK
  <2>5. lock'[Alloc(InTurn(s))] = s
    BY <1>1, <2>4, InTurnListed
  <2> QED
    BY <1>1, <2>1, <2>2, <2>4, <2>5 DEF GiveOK, Giving, Does
<1>11. CASE WriteTotals(s) /\ ~Does(s, {"deliver"})
  <2>1. /\ pc'[s] \in {"alloc", "item", "commit"} /\ tx'[s].take = 0
        /\ pc'[s] = "alloc" => Listed(s)' # {}
    BY <1>11, GivingGoes
  <2>2. ~Giving(s)'
    BY <2>1 DEF Giving
  <2> QED
    BY <2>1, <2>2 DEF GiveOK
<1>12. CASE CheckCount(s) \/ LockInventoryItem(s)
  <2>1. /\ pc[s] \in {"check", "item"} /\ pc'[s] \in {"item", "position", "demand", "rollback"}
        /\ pc'[s] = "position" => Posting(s)
        /\ pc'[s] = "demand" => ~Posting(s)
        /\ tx'[s].amount = tx[s].amount
    BY <1>12, GivingGoes
  <2>2. tx'[s].take = tx[s].take /\ tx'[s].listed = tx[s].listed
    BY <1>12, <2>1, Fields, Whereabouts
  <2>3. CASE tx[s].take = 0
    <3>1. pc'[s] = "position" => Does(s, {"move"})
      BY <2>1, <2>3 DEF Posting, Does
    <3> QED
      BY <1>3, <2>1, <2>2, <2>3, <3>1
  <2>4. CASE tx[s].take > 0
    <3>1. Giving(s) /\ Does(s, {"deliver"})
      BY <2>1, <2>4 DEF GiveOK, Giving
    <3>2. /\ InTurn(s)' = InTurn(s) /\ Listed(s)' = Listed(s)
          /\ Listed(s) # {} /\ lock[Alloc(InTurn(s))] = s
          /\ Whole(s) \/ tx[s].take <= tx[s].amount
      BY <1>1, <2>2, <3>1 DEF InTurn, Listed, GiveOK
    <3>3. lock'[Alloc(InTurn(s))] = s
      BY <1>1, <3>2, InTurnListed
    <3>4. pc'[s] # "demand"
      BY <2>1, <2>4 DEF Posting
    <3> QED
      BY <1>1, <2>1, <2>2, <2>4, <3>1, <3>2, <3>3, <3>4 DEF GiveOK, Giving, Does
  <2> QED
    BY <1>2, <2>3, <2>4
<1>13. CASE PostMovement(s)
  <2>1. PICK p : p = PostedAt(s)
    OBVIOUS
  <2>2. tx'[s].take = 0
    BY <1>13, <2>1, PostFields
  <2>3. pc'[s] \in {"alloc", "item", "commit", "rollback"} /\ (pc'[s] = "alloc" => Listed(s)' # {})
    BY <1>13, GivingGoes
  <2>4. ~Giving(s)'
    BY <2>2, <2>3 DEF Giving
  <2> QED
    BY <2>2, <2>3, <2>4 DEF GiveOK
<1>14. CASE ReadDemand(s) \/ EnsureReservation(s) \/ PickRows(s) \/ LockRow(s) \/ RowsLocked(s)
  <2>1. /\ pc[s] \in {"parent", "demand", "pick", "rows"}
        /\ pc'[s] \in {"parent", "pick", "rows", "insert", "commit", "rollback"}
    BY <1>14, KeepingGoes
  <2>2. tx'[s].take = tx[s].take
    BY <2>1, Fields, Whereabouts
  <2> QED
    BY <1>3, <1>4, <2>1, <2>2
<1> QED
  BY <1>5, <1>6, <1>7, <1>8, <1>9, <1>10, <1>11, <1>12, <1>13, <1>14 DEF Quiet

\* What it sees of the stock at a place changes only with what it writes there.
LEMMA SeesTheSame ==
  ASSUME TypeOK, NEW s \in Sessions, UNCHANGED <<onHand, reserved>>,
         tx'[s].hand = tx[s].hand, tx'[s].held = tx[s].held
  PROVE  \A p \in Places : Free(s, p)' = Free(s, p) /\ Hand(s, p)' = Hand(s, p)
  BY DEF Free, Hand

\* The positions it is about to reserve at still have something to give.
LEMMA QuietKeep ==
  ASSUME TypeOK, AllocsOK, NEW s \in Sessions, SessionOK(s), Quiet(s)
  PROVE  KeepOK(s)'
<1> USE DEF SessionOK
<1>1. /\ tx'[s].kind = tx[s].kind /\ tx'[s].place = tx[s].place /\ tx[s] \in Request
      /\ UNCHANGED <<onHand, reserved>>
  BY Fields, QuietIsQuiet DEF TypeOK, Quietly, database, balances
\* Not on the way to reserve.
<1>2. ASSUME pc'[s] \notin {"demand", "pick", "rows", "insert", "parent"},
             pc'[s] = "item" => Posting(s)' \/ tx'[s].amount > 0
      PROVE  KeepOK(s)'
  BY <1>2 DEF KeepOK
<1>3. CASE Ordering(s)
  BY <1>2, <1>3, OrderingGoes
<1>4. CASE LockReservation(s) \/ ListAllocations(s) \/ ClaimAllocation(s)
  BY <1>2, <1>4, ListingGoes
<1>5. CASE LockAllocation(s)
  <2>1. \/ pc'[s] \in {"alloc", "item", "commit"} /\ (pc'[s] = "item" => tx'[s].amount > 0)
        \/ pc'[s] \in {"balance", "rollback"}
    BY <1>5, ListingGoes
  <2> QED
    BY <1>2, <2>1
<1>6. CASE GiveUpReserved(s) \/ ReadTotals(s)
  BY <1>2, <1>6, GivingGoes
<1>7. CASE WriteTotals(s)
  <2>1. \/ pc'[s] = "check"
        \/ /\ pc'[s] \in {"alloc", "item", "commit"} /\ tx'[s].amount = Remaining(s)
           /\ pc'[s] = "item" => Does(s, {"reallocate"})
    BY <1>7, GivingGoes
  <2>2. tx[s].take > 0
    BY <1>7, Whereabouts DEF GiveOK, Giving
  <2>3. pc'[s] = "item" => tx'[s].amount > 0
    BY <2>1, <2>2 DEF Remaining
  <2> QED
    BY <1>2, <2>1, <2>3
<1>8. CASE CheckCount(s)
  <2>1. pc'[s] \in {"item", "rollback"} /\ Posting(s)
    BY <1>8, GivingGoes, PostedPlace, Whereabouts
  <2>2. tx'[s].take = tx[s].take
    BY <1>8, Fields, Whereabouts
  <2> QED
    BY <1>1, <1>2, <2>1, <2>2 DEF Posting
<1>9. CASE PostMovement(s)
  BY <1>2, <1>9, GivingGoes
<1>10. CASE LockInventoryItem(s)
  <2>1. pc[s] = "item" /\ tx' = tx /\ pc'[s] = IF Posting(s) THEN "position" ELSE "demand"
    BY <1>10, GivingGoes
  <2> QED
    BY <2>1 DEF KeepOK
<1>11. CASE ReadDemand(s) \/ EnsureReservation(s)
  <2>1. /\ pc'[s] \in {"parent", "pick", "commit", "rollback"}
        /\ pc'[s] \in {"parent", "pick"} => tx'[s].amount > 0
    <3>1. CASE ReadDemand(s)
      BY <3>1, KeepingGoes DEF KeepOK
    <3>2. CASE EnsureReservation(s)
      BY <3>2, KeepingGoes
    <3> QED
      BY <1>11, <3>1, <3>2
  <2> QED
    BY <2>1 DEF KeepOK
<1>12. CASE PickRows(s)
  <2>1. /\ pc[s] = "pick" /\ pc'[s] \in {"rows", "commit", "rollback"}
        /\ tx'[s].amount = tx[s].amount /\ (pc'[s] = "rows" => tx'[s].rows # {})
        /\ tx'[s].checked = tx[s].checked \cup tx'[s].rows
        /\ \A p \in tx'[s].rows : Suits(s, p)
    BY <1>12, KeepingGoes
  <2>2. tx'[s].hand = tx[s].hand /\ tx'[s].held = tx[s].held
    BY <1>12, Fields, Whereabouts
  <2>3. tx'[s].rows \subseteq Places
    BY QuietTypes DEF TypeOK, Request
  <2>4. \A p \in tx'[s].rows : Suits(s, p)'
    BY <1>1, <2>1, <2>2, <2>3, SeesTheSame DEF Suits
  <2> QED
    BY <2>1, <2>4 DEF KeepOK
<1>13. CASE LockRow(s)
  <2>1. PICK p : p = Fullest(s, Unlocked(s))
    OBVIOUS
  <2>2. /\ pc[s] = "rows" /\ pc'[s] \in {"rows", "commit", "rollback"}
        /\ tx'[s].amount = tx[s].amount /\ Unlocked(s) # {} /\ Wanted(s) = Balance(p)
        /\ tx'[s].rows = (IF Suits(s, p) THEN tx[s].rows ELSE tx[s].rows \ {p})
        /\ (pc'[s] = "rows" => tx'[s].rows # {})
    BY <1>13, <2>1, KeepingGoes
  <2>3. tx'[s].hand = tx[s].hand /\ tx'[s].held = tx[s].held /\ tx'[s].checked = tx[s].checked
    BY <1>13, Fields, Whereabouts
  <2>4. tx[s].rows \subseteq Places
    BY <1>1 DEF Request
  <2>5. ASSUME NEW q \in tx'[s].rows, lock'[Balance(q)] = s PROVE Suits(s, q)'
    <3>1. q \in tx[s].rows /\ q \in Places
      BY <2>2, <2>4
    <3>2. Suits(s, q)
      <4>1. CASE q = p
        BY <2>2, <4>1
      <4>2. CASE q # p
        <5>1. Balance(q) \in Rows /\ Balance(q) # Wanted(s)
          BY <2>2, <3>1, <4>2, RowsApart
        <5>2. lock[Balance(q)] = s
          BY <2>5, <5>1, QuietIsQuiet
        <5> QED
          BY <2>2, <3>1, <5>2 DEF KeepOK
      <4> QED
        BY <4>1, <4>2
    <3> QED
      BY <1>1, <2>2, <2>3, <3>1, <3>2, SeesTheSame DEF Suits
  <2> QED
    BY <2>2, <2>3, <2>5 DEF KeepOK
<1>14. CASE RowsLocked(s)
  <2>1. /\ pc[s] = "rows" /\ pc'[s] \in {"insert", "rollback"} /\ lock' = lock /\ tx' = tx
        /\ Unlocked(s) = {}
    BY <1>14, KeepingGoes
  <2>2. Unlocked(s)' = {}
    BY <2>1 DEF Unlocked
  <2>3. \A p \in Places : Suits(s, p)' = Suits(s, p)
    BY <1>1, <2>1, SeesTheSame DEF Suits
  <2>4. tx[s].rows \subseteq Places
    BY <1>1 DEF Request
  <2> QED
    BY <2>1, <2>2, <2>3, <2>4 DEF KeepOK
<1> QED
  BY <1>3, <1>4, <1>5, <1>6, <1>7, <1>8, <1>9, <1>10, <1>11, <1>12, <1>13, <1>14 DEF Quiet

\* What it lists, writes and holds stays its own line's.
LEMMA QuietOwn ==
  ASSUME TypeOK, AllocsOK, NEW s \in Sessions, SessionsOK, Quiet(s)
  PROVE  OwnOK(s)'
<1>1. SessionOK(s)
  BY DEF SessionsOK
<1> USE DEF SessionOK
<1>2. /\ tx[s] \in Request /\ tx'[s].kind = tx[s].kind /\ tx'[s].line = tx[s].line /\ tx'[s].made = tx[s].made
      /\ UNCHANGED <<active, line>>
      /\ \A t \in Sessions \ {s} : tx'[t] = tx[t]
      /\ \A a \in Allocs : Alloc(a) \in Rows /\ (lock[Alloc(a)] = s => lock'[Alloc(a)] = s)
  BY <1>1, Fields, QuietIsQuiet, RowsApart DEF TypeOK, Quietly, database, allocations
<1> DEFINE Ours(a) == line[a] = tx[s].line /\ \A t \in Sessions \ {s} : a \notin tx[t].made
<1>3. \A a \in Allocs : tx[s].listed[a] > 0 \/ lock[Alloc(a)] = s => Ours(a)
  BY <1>1 DEF OwnOK
<1>4. \A a \in Allocs : tx'[s].listed[a] > 0 => Ours(a)
  <2>0. \A a \in Allocs : active[a] > 0 => \A t \in Sessions \ {s} : a \notin tx[t].made
    BY DEF SessionsOK, OwnOK
  <2>1. CASE ListAllocations(s)
    <3>1. \A a \in Allocs : tx'[s].listed[a] = IF a \in Open(tx[s].line) THEN active[a] ELSE 0
      BY <1>1, <2>1, ListingGoes
    <3>2. \A a \in Allocs : a \in Open(tx[s].line) <=> active[a] > 0 /\ line[a] = tx[s].line
      BY DEF Open
    <3> QED
      BY <2>0, <3>1, <3>2
  <2>2. CASE tx'[s].listed = tx[s].listed
    BY <1>3, <2>2
  <2>3. CASE tx'[s].listed = Unlisted(s)
    BY <1>2, <1>3, <2>3 DEF Unlisted, Request
  <2>4. CASE ClaimAllocation(s)
    <3>1. PICK a \in Allocs : a = Min(Unclaimed(s)) /\ tx[s].listed[a] > 0
      BY <1>1, <2>4, UnclaimedTurn, Whereabouts DEF GiveOK
    <3>2. tx'[s].listed = [tx[s].listed EXCEPT ![a] = active[a]]
      BY <1>1, <2>4, <3>1, ListingGoes
    <3> QED
      BY <1>2, <1>3, <3>1, <3>2 DEF Request
  <2>5. CASE PostMovement(s)
    <3>1. PICK p : p = PostedAt(s)
      OBVIOUS
    <3>2. tx'[s].listed = PostedRecord(s).listed
          /\ (tx[s].kind # "move" => PostedRecord(s).listed = Unlisted(s))
          /\ (tx[s].kind = "move" => tx'[s].listed = tx[s].listed)
      BY <1>1, <2>5, <3>1, PostFields
    <3> QED
      BY <2>2, <2>3, <3>2
  <2>6. CASE LockAllocation(s)
    BY <1>1, <2>2, <2>3, <2>6, ListingGoes
  <2>7. CASE WriteTotals(s)
    BY <1>1, <2>2, <2>3, <2>7, GivingGoes
  <2> QED
    BY <1>1, <2>1, <2>2, <2>4, <2>5, <2>6, <2>7, Fields
<1>5. \A a \in Allocs : lock'[Alloc(a)] = s => Ours(a)
  <2> SUFFICES ASSUME NEW a \in Allocs, lock'[Alloc(a)] = s, lock[Alloc(a)] # s PROVE Ours(a)
    BY <1>3
  <2>1. pc[s] \in Locking /\ Alloc(a) = Wanted(s) /\ Alloc(a) \in Rows
    BY <1>2, QuietIsQuiet
  <2>2. pc[s] \in {"claim", "alloc"}
    BY <2>1, WantedRow, RowsApart DEF Locking
  <2>3. CASE pc[s] = "claim"
    <3>1. Min(Unclaimed(s)) \in Allocs /\ tx[s].listed[Min(Unclaimed(s))] > 0
      BY <1>1, <2>3, UnclaimedTurn DEF GiveOK
    <3>2. a = Min(Unclaimed(s))
      BY <2>1, <2>3, WantedRow, RowsApart
    <3> QED
      BY <1>3, <3>1, <3>2
  <2>4. CASE pc[s] = "alloc"
    <3>1. InTurn(s) \in Allocs /\ tx[s].listed[InTurn(s)] > 0
      BY <1>1, <2>4, InTurnListed DEF GiveOK
    <3>2. a = InTurn(s)
      BY <2>1, <2>4, WantedRow, RowsApart
    <3> QED
      BY <1>3, <3>1, <3>2
  <2> QED
    BY <2>2, <2>3, <2>4
<1>6. \A a \in Allocs : (tx'[s].alloc[a] # 0 => lock'[Alloc(a)] = s) /\ Left(s, a)' >= 0
  <2>1. CASE tx'[s].alloc = tx[s].alloc
    BY <1>1, <1>2, <2>1 DEF OwnOK, Left
  <2>2. CASE GiveUpReserved(s)
    <3>1. PICK a \in Allocs : a = InTurn(s) /\ lock[Alloc(a)] = s /\ tx[s].take <= Left(s, a)
      BY <1>1, <2>2, InTurnListed, Whereabouts DEF GiveOK, Giving
    <3>2. tx'[s].alloc = [tx[s].alloc EXCEPT ![a] = tx[s].alloc[a] - tx[s].take]
      BY <1>1, <2>2, <3>1, GivingGoes
    <3>3. tx[s].alloc \in [Allocs -> Int] /\ tx[s].take \in Int /\ active \in [Allocs -> Nat]
      BY <1>2 DEF Request, TypeOK
    <3>4. \A b \in Allocs \ {a} : tx'[s].alloc[b] = tx[s].alloc[b]
      BY <3>2, <3>3
    <3>5. tx'[s].alloc[a] = tx[s].alloc[a] - tx[s].take
      BY <3>2, <3>3
    <3>6. Left(s, a)' >= 0
      BY <1>2, <3>1, <3>3, <3>5 DEF Left
    <3> QED
      BY <1>1, <1>2, <3>1, <3>4, <3>6 DEF OwnOK, Left
  <2> QED
    BY <1>1, <2>1, <2>2, Fields
<1>7. Starting(s)' => \A a \in Allocs : lock'[Alloc(a)] # s
  <2>1. Starting(s)' => Starting(s) /\ pc[s] \notin {"claim", "alloc"}
    <3>1. pc'[s] = "list" => Starting(s)
      BY <1>1, Whereabouts, OrderingGoes, ListingGoes, GivingGoes, KeepingGoes DEF Quiet, Starting, Does
    <3>2. ~(pc'[s] = "parent" /\ Does(s, {"free"})')
      <4>1. pc'[s] = "parent" => ReadDemand(s)
        BY <1>1, OrderingGoes, ListingGoes, GivingGoes, KeepingGoes DEF Quiet
      <4>2. ReadDemand(s) => ~Does(s, {"free"})
        BY <1>1, Whereabouts DEF RouteOK, Does, Keepers
      <4> QED
        BY <1>2, <4>1, <4>2 DEF Does
    <3>3. pc'[s] \notin {"idle", "order"}
      BY <1>1, OrderingGoes, ListingGoes, GivingGoes, KeepingGoes DEF Quiet
    <3> QED
      BY <3>1, <3>2, <3>3 DEF Starting
  <2>2. ASSUME Starting(s)', NEW a \in Allocs PROVE lock'[Alloc(a)] # s
    <3>1. lock[Alloc(a)] # s /\ pc[s] \in {"order", "list", "parent", "idle"}
      BY <1>1, <2>1, <2>2 DEF OwnOK, Starting
    <3>2. lock'[Alloc(a)] # lock[Alloc(a)] => pc[s] \in Locking /\ Alloc(a) = Wanted(s)
      BY <1>2, QuietIsQuiet
    <3>3. pc[s] \in Locking => Alloc(a) # Wanted(s)
      BY <3>1, WantedRow, RowsApart DEF Locking
    <3> QED
      BY <3>1, <3>2, <3>3
  <2> QED
    BY <2>2
<1>8. pc'[s] # "idle"
  BY <1>1, OrderingGoes, ListingGoes, GivingGoes, KeepingGoes DEF Quiet
<1>9. \A a \in Allocs : a \in tx[s].made => active[a] = 0 /\ lock'[Alloc(a)] = s
  BY <1>1, <1>2 DEF OwnOK
<1> QED
  BY <1>2, <1>4, <1>5, <1>6, <1>7, <1>8, <1>9 DEF OwnOK
\* An allocation and its balance are written together.
LEMMA QuietSums ==
  ASSUME TypeOK, AllocsOK, NEW s \in Sessions, SessionOK(s), Quiet(s)
  PROVE  SumsOK(s)'
<1> USE DEF SessionOK
<1>1. /\ tx[s] \in Request /\ place' = place
      /\ GiveUpReserved(s) \/ (tx'[s].alloc = tx[s].alloc /\ tx'[s].held = tx[s].held)
  BY Fields, QuietIsQuiet DEF TypeOK, Quietly, database, allocations
<1>2. CASE tx'[s].alloc = tx[s].alloc /\ tx'[s].held = tx[s].held
  BY <1>1, <1>2 DEF SumsOK
<1>3. CASE GiveUpReserved(s)
  <2>1. PICK a \in Allocs, q \in Places : a = InTurn(s) /\ q = place[a]
    <3>1. Listed(s) # {}
      BY <1>3, Whereabouts DEF GiveOK, Giving
    <3> QED
      BY <1>3, <3>1, TurnPlaced, Whereabouts
  <2>2. PICK k \in Nat : k = tx[s].take
    BY <1>1 DEF Request
  <2>3. tx[s].alloc \in [Allocs -> Int] /\ tx[s].held \in [Places -> Int]
    BY <1>1 DEF Request, Writes
  <2>4. /\ tx'[s].held = [tx[s].held EXCEPT ![q] = tx[s].held[q] - k]
        /\ tx'[s].alloc = [tx[s].alloc EXCEPT ![a] = tx[s].alloc[a] - k]
    BY <1>3, <2>1, <2>2, GivingGoes
  <2> SUFFICES ASSUME NEW p \in Places
               PROVE  tx'[s].held[p] = SumFunctionOnSet(tx'[s].alloc, {b \in Allocs : place[b] = p})
    BY <1>1 DEF SumsOK
  <2> DEFINE A == {b \in Allocs : place[b] = p}
             f == tx[s].alloc
             g == tx'[s].alloc
  <2>5. IsFiniteSet(A) /\ IsFiniteSet(A \ {a})
    BY AllocsFinite, FS_Subset
  <2>6. tx[s].held[p] = SumFunctionOnSet(f, A)
    BY DEF SumsOK
  <2>7. \A b \in A : f[b] \in Int /\ g[b] \in Int
    BY <2>2, <2>3, <2>4
  <2>8. g[a] = f[a] - k /\ f[a] \in Int /\ \A b \in A \ {a} : f[b] = g[b]
    BY <2>3, <2>4
  <2>9. a \in A <=> p = q
    BY <2>1
  <2>10. tx'[s].held[p] = IF p = q THEN tx[s].held[p] - k ELSE tx[s].held[p]
    BY <2>3, <2>4
  <2> HIDE DEF A, f, g
  <2>11. SumFunctionOnSet(f, A \ {a}) = SumFunctionOnSet(g, A \ {a})
    BY <2>5, <2>8, SumOfEqual
  <2>12. CASE a \in A
    <3>1. SumFunctionOnSet(f, A) = f[a] + SumFunctionOnSet(f, A \ {a})
      BY <2>5, <2>7, <2>12, SumTakesOut
    <3>2. SumFunctionOnSet(g, A) = g[a] + SumFunctionOnSet(g, A \ {a})
      BY <2>5, <2>7, <2>12, SumTakesOut
    <3>3. SumFunctionOnSet(f, A \ {a}) \in Int
      BY <2>5, <2>7, SumOfIntegers
    <3>4. tx'[s].held[p] = SumFunctionOnSet(g, A)
      BY <2>2, <2>6, <2>8, <2>9, <2>10, <2>11, <2>12, <3>1, <3>2, <3>3
    <3> QED
      BY <3>4 DEF A, g
  <2>13. CASE a \notin A
    <3>1. A \ {a} = A
      BY <2>13
    <3>2. tx'[s].held[p] = SumFunctionOnSet(g, A)
      BY <2>6, <2>9, <2>10, <2>11, <2>13, <3>1
    <3> QED
      BY <3>2 DEF A, g
  <2> QED
    BY <2>12, <2>13
<1> QED
  BY <1>1, <1>2, <1>3

\* Sales keeps its order, and what it read of the demand stands.
LEMMA QuietOrder ==
  ASSUME TypeOK, AllocsOK, NEW s \in Sessions, SessionOK(s), Quiet(s)
  PROVE  OrderOK(s)'
<1> USE DEF SessionOK
<1>1. /\ tx'[s].kind = tx[s].kind /\ tx'[s].line = tx[s].line /\ tx'[s].n = tx[s].n
      /\ tx[s] \in Request /\ need' = need
      /\ \A r \in Rows : lock[r] = s => lock'[r] = s
  BY Fields, QuietIsQuiet DEF TypeOK, Quietly, database, documents
<1>2. tx[s].line \in Lines /\ Order(tx[s].line) \in Rows
  BY <1>1, RowsApart DEF Request
<1>3. pc[s] # "idle" /\ pc[s] # "rollback"
  BY Whereabouts DEF Quiet
<1>4. Ordering(s) => /\ lock'[Order(tx[s].line)] = s
                     /\ pc'[s] # "rollback" /\ Does(s, {"cancel", "deliver"}) => tx[s].n <= need[tx[s].line]
  BY OrderingGoes
<1>5. ~Ordering(s) => pc[s] # "order"
  <2>1. ASSUME ~Ordering(s) PROVE pc[s] # "order"
    BY <2>1, Whereabouts DEF Quiet
  <2> QED
    BY <2>1
<1>6. Does(s, Sales) => lock'[Order(tx[s].line)] = s
  BY <1>1, <1>2, <1>3, <1>4, <1>5 DEF OrderOK
<1>7. Does(s, {"cancel", "deliver"}) /\ pc'[s] # "rollback" => tx[s].n <= need[tx[s].line]
  BY <1>3, <1>4, <1>5 DEF OrderOK
<1>8. tx'[s].total = tx[s].total \/ (WriteTotals(s) /\ tx'[s].total = tx[s].seen)
  BY Fields, GivingGoes
<1>9. tx'[s].seen = tx[s].seen \/ tx'[s].seen \in Nat
  <2>1. CASE ReadTotals(s)
    <3>1. tx'[s].seen = HeldBy(s, tx[s].line)
      BY <2>1, GivingGoes
    <3> QED
      BY <3>1, HeldTyped
  <2>2. CASE ReadDemand(s)
    <3>1. tx'[s].seen = need[tx[s].line]
      BY <2>2, KeepingGoes
    <3> QED
      BY <1>2, <3>1 DEF TypeOK
  <2> QED
    BY <2>1, <2>2, Fields
<1>10. Starting(s)' => Starting(s) /\ tx'[s].alloc = tx[s].alloc /\ tx'[s].total = tx[s].total
  <2>1. pc'[s] = "list" => Ordering(s) \/ LockReservation(s)
    BY ListingGoes, GivingGoes, KeepingGoes DEF Quiet
  <2>2. pc'[s] \notin {"idle", "order"}
    BY OrderingGoes, ListingGoes, GivingGoes, KeepingGoes DEF Quiet
  <2>3. ~(pc'[s] = "parent" /\ Does(s, {"free"})')
    <3>1. pc'[s] = "parent" => ReadDemand(s)
      BY OrderingGoes, ListingGoes, GivingGoes, KeepingGoes DEF Quiet
    <3>2. ReadDemand(s) => ~Does(s, {"free"})
      BY Whereabouts DEF RouteOK, Does, Keepers
    <3> QED
      BY <1>1, <3>1, <3>2 DEF Does
  <2>4. Starting(s)' => Ordering(s) \/ LockReservation(s)
    BY <2>1, <2>2, <2>3 DEF Starting
  <2>5. Ordering(s) \/ LockReservation(s) => Starting(s) /\ ~GiveUpReserved(s) /\ ~WriteTotals(s)
    BY Whereabouts DEF Starting, Does
  <2> QED
    BY <2>4, <2>5, Fields
<1>11. Does(s, {"move"}) => tx'[s].alloc = tx[s].alloc /\ tx'[s].total = tx[s].total
  <2>1. Does(s, {"move"}) => ~GiveUpReserved(s) /\ ~WriteTotals(s)
    BY Whereabouts DEF RouteOK, Does, Givers
  <2> QED
    BY <2>1, Fields
<1>12. Does(s, {"move"})' \/ Starting(s)' => NoneWritten(s)'
  BY <1>1, <1>10, <1>11 DEF OrderOK, NoneWritten, Does
<1>13. Does(s, Sales) => tx[s].n > 0
  BY DEF OrderOK
<1>14. tx'[s].total = Unwritten \/ tx'[s].total \in Nat
  BY <1>8 DEF OrderOK
<1>15. tx'[s].seen \in Nat
  BY <1>9 DEF OrderOK
<1> QED
  BY <1>1, <1>6, <1>7, <1>12, <1>13, <1>14, <1>15 DEF OrderOK, Does

\* The total the trigger writes is the one there is.
LEMMA QuietTotals ==
  ASSUME TypeOK, AllocsOK, NEW s \in Sessions, SessionOK(s), Quiet(s)
  PROVE  TotalsOK(s)'
<1> USE DEF SessionOK
<1>1. /\ tx'[s].kind = tx[s].kind /\ tx'[s].line = tx[s].line /\ tx[s] \in Request
      /\ UNCHANGED <<active, line>>
  BY Fields, QuietIsQuiet DEF TypeOK, Quietly, database, allocations
<1> SUFFICES ASSUME tx[s].line \notin Shared, pc'[s] # "rollback"
             PROVE  /\ pc'[s] = "sync" => tx'[s].seen = HeldBy(s, tx[s].line)'
                    /\ \/ pc'[s] \in {"totals", "sync"}
                       \/ tx'[s].total = HeldBy(s, tx[s].line)'
                       \/ NoneWritten(s)'
  BY <1>1 DEF TotalsOK
<1>2. pc[s] # "rollback"
  BY Whereabouts DEF Quiet
<1>3. /\ pc[s] = "sync" => tx[s].seen = HeldBy(s, tx[s].line)
      /\ pc[s] \in {"totals", "sync"} \/ tx[s].total = HeldBy(s, tx[s].line) \/ NoneWritten(s)
  BY <1>2 DEF TotalsOK
<1>4. tx'[s].alloc = tx[s].alloc => HeldBy(s, tx[s].line)' = HeldBy(s, tx[s].line)
  BY <1>1 DEF HeldBy, AllLeft, Left
<1>5. CASE GiveUpReserved(s)
  BY <1>5, GivingGoes
<1>6. CASE ReadTotals(s)
  <2>1. tx'[s].seen = HeldBy(s, tx[s].line) /\ pc'[s] = "sync" /\ tx'[s].alloc = tx[s].alloc
    BY <1>6, GivingGoes, Fields, Whereabouts
  <2> QED
    BY <1>4, <2>1
<1>7. CASE WriteTotals(s)
  <2>1. tx'[s].total = tx[s].seen /\ pc[s] = "sync" /\ tx'[s].alloc = tx[s].alloc /\ pc'[s] # "sync"
    BY <1>7, GivingGoes, Fields, Whereabouts
  <2> QED
    BY <1>3, <1>4, <2>1
<1>8. CASE ~GiveUpReserved(s) /\ ~ReadTotals(s) /\ ~WriteTotals(s)
  <2>1. tx'[s].alloc = tx[s].alloc /\ tx'[s].total = tx[s].total
    BY <1>8, Fields
  <2>2. pc[s] \notin {"totals", "sync"}
    BY <1>8, Whereabouts DEF Quiet
  <2>3. pc'[s] # "sync"
    BY <1>8, OrderingGoes, ListingGoes, GivingGoes, KeepingGoes DEF Quiet
  <2> QED
    BY <1>3, <1>4, <2>1, <2>2, <2>3 DEF NoneWritten
<1> QED
  BY <1>5, <1>6, <1>7, <1>8
\* Nothing is promised of a balance that is not there.
LEMMA QuietBalance ==
  ASSUME Globals, NEW s \in Sessions, SessionOK(s), Quiet(s)
  PROVE  BalanceOK(s)'
<1> USE DEF SessionOK
<1>0. TypeOK /\ AllocsOK /\ ReservedIsActive
  BY DEF Globals
<1>1. /\ tx[s] \in Request /\ UNCHANGED <<onHand, reserved>>
      /\ \A r \in Rows : lock[r] = s => lock'[r] = s
      /\ pc[s] # "rollback"
  BY <1>0, QuietIsQuiet, SeenTyped, Whereabouts DEF Quietly, database, balances, Quiet
<1>2. \A p \in Places : Balance(p) \in Rows /\ (lock[Balance(p)] = s => lock'[Balance(p)] = s)
  BY <1>1, RowsApart
<1>3. \A p \in Places :
        /\ tx[s].hand[p] = Unwritten => tx[s].moved[p] = 0
        /\ tx[s].hand[p] # Unwritten =>
              /\ lock[Balance(p)] = s /\ p \in tx[s].checked
              /\ tx[s].hand[p] \in Nat /\ tx[s].hand[p] = onHand[p] + tx[s].moved[p]
        /\ tx[s].held[p] # 0 => lock[Balance(p)] = s
        /\ tx[s].held[p] > 0 => p \in tx[s].checked
        /\ Free(s, p) >= 0
  BY <1>1 DEF BalanceOK
<1>4. tx[s].checked \subseteq tx'[s].checked
  <2>1. CASE CheckCount(s)
    <3>1. tx'[s].checked = tx[s].checked \cup {PostedAt(s)}
      BY <1>0, <2>1, GivingGoes
    <3> QED
      BY <3>1
  <2>2. CASE PickRows(s)
    <3>1. tx'[s].checked = tx[s].checked \cup tx'[s].rows
      BY <1>0, <2>2, KeepingGoes
    <3> QED
      BY <3>1
  <2> QED
    BY <1>0, <2>1, <2>2, Fields
<1>5. CASE ~GiveUpReserved(s) /\ ~PostMovement(s)
  <2>1. /\ tx'[s].alloc = tx[s].alloc /\ tx'[s].held = tx[s].held
        /\ tx'[s].hand = tx[s].hand /\ tx'[s].moved = tx[s].moved
    BY <1>0, <1>5, Fields
  <2>2. \A p \in Places : Free(s, p)' = Free(s, p)
    BY <1>0, <1>1, <2>1, SeesTheSame
  <2> QED
    BY <1>1, <1>2, <1>3, <1>4, <2>1, <2>2 DEF BalanceOK
<1>6. CASE GiveUpReserved(s)
  <2>0. Listed(s) # {} /\ pc[s] = "balance"
    BY <1>6, Whereabouts DEF GiveOK, Giving
  <2>1. PICK a \in Allocs, q \in Places : a = InTurn(s) /\ q = place[a]
    BY <1>0, <2>0, TurnPlaced
  <2>2. PICK k \in Nat : k = tx[s].take
    BY <1>1 DEF Request
  <2>3. /\ tx'[s].held = [tx[s].held EXCEPT ![q] = tx[s].held[q] - k]
        /\ lock'[Balance(q)] = s
    BY <1>0, <1>6, <2>1, <2>2, GivingGoes
  <2>4. tx'[s].hand = tx[s].hand /\ tx'[s].moved = tx[s].moved /\ tx'[s].checked = tx[s].checked
    BY <1>0, <1>6, <2>0, Fields, Whereabouts
  <2>5. tx[s].held \in [Places -> Int]
    BY <1>1 DEF Request, Writes
  <2> SUFFICES ASSUME NEW p \in Places
               PROVE  /\ tx'[s].held[p] # 0 => lock'[Balance(p)] = s
                      /\ tx'[s].held[p] > 0 => p \in tx[s].checked
                      /\ Free(s, p)' >= 0
    BY <1>1, <1>2, <1>3, <2>4 DEF BalanceOK
  <2>6. tx'[s].held[p] = IF p = q THEN tx[s].held[p] - k ELSE tx[s].held[p]
    BY <2>3, <2>5
  <2>7. tx[s].held[p] \in Int
    BY <2>5
  <2>8. tx'[s].held[p] \in Int /\ tx'[s].held[p] <= tx[s].held[p]
    BY <2>2, <2>6, <2>7
  <2>9. Hand(s, p)' = Hand(s, p) /\ reserved'[p] = reserved[p]
    BY <1>1, <2>4 DEF Hand
  <2>10. Hand(s, p) \in Int /\ reserved[p] \in Int
    BY <1>0, SeenTyped
  <2>11. Free(s, p) = Hand(s, p) - (reserved[p] + tx[s].held[p])
    BY DEF Free
  <2>12. Free(s, p)' = Hand(s, p) - (reserved[p] + tx'[s].held[p])
    BY <2>9 DEF Free
  <2> QED
    BY <1>2, <1>3, <2>3, <2>6, <2>7, <2>8, <2>10, <2>11, <2>12
<1>7. CASE PostMovement(s)
  <2>1. PICK q : q = PostedAt(s)
    OBVIOUS
  <2>2. PICK n \in Int : n = Signed(s)
    BY <1>0, <1>7, PostedPlace, Whereabouts
  <2>3. /\ q \in Places
        /\ tx'[s].hand = [tx[s].hand EXCEPT ![q] = Posted(s, q)]
        /\ tx'[s].moved = [tx[s].moved EXCEPT ![q] = tx[s].moved[q] + n]
    BY <1>0, <1>7, <2>1, <2>2, PostFields
  <2>4. lock'[Balance(q)] = s /\ (pc'[s] # "rollback" => Enough(s, q))
    BY <1>0, <1>7, <2>1, GivingGoes
  <2>5. q \in tx[s].checked
    BY <1>0, <1>7, <2>1, PostedPlace, Whereabouts DEF CheckedOK
  <2>6. tx'[s].held = tx[s].held
    BY <1>0, <1>7, Fields, Whereabouts
  <2>7. tx[s].hand \in [Places -> Int] /\ tx[s].moved \in [Places -> Int]
    BY <1>1 DEF Request, Writes
  <2>8. Posted(s, q) = Hand(s, q) + n
    BY <2>2 DEF Posted
  <2>9. /\ Hand(s, q) \in Nat /\ onHand[q] \in Nat
        /\ Hand(s, q) = onHand[q] + tx[s].moved[q]
    <3>1. onHand[q] \in Nat /\ tx[s].moved[q] \in Int
      BY <1>0, <2>3, SeenTyped
    <3> QED
      BY <1>3, <2>3, <3>1 DEF Hand
  <2>10. reserved[q] + tx[s].held[q] \in Nat
    BY <1>0, <2>3, Promised
  <2>11. PICK w \in Nat : w = reserved[q] + tx[s].held[q]
    BY <2>10
  <2>12. Free(s, q) = Hand(s, q) - w /\ Free(s, q) >= 0
    BY <1>3, <2>3, <2>11 DEF Free
  <2>13. Enough(s, q) => n > 0 \/ Free(s, q) + n >= 0
    BY <2>2 DEF Enough
  <2>14. tx'[s].hand[q] = Hand(s, q) + n /\ tx'[s].moved[q] = tx[s].moved[q] + n
    BY <2>3, <2>7, <2>8
  <2>15. Enough(s, q) => Hand(s, q) + n \in Nat /\ Hand(s, q) + n - w >= 0
    BY <2>9, <2>11, <2>12, <2>13
  <2>16. \A p \in Places \ {q} : tx'[s].hand[p] = tx[s].hand[p] /\ tx'[s].moved[p] = tx[s].moved[p]
    BY <2>3, <2>7
  <2> SUFFICES ASSUME pc'[s] # "rollback", NEW p \in Places
               PROVE  /\ tx'[s].hand[p] = Unwritten => tx'[s].moved[p] = 0
                      /\ tx'[s].hand[p] # Unwritten =>
                            /\ lock'[Balance(p)] = s /\ p \in tx'[s].checked
                            /\ tx'[s].hand[p] \in Nat /\ tx'[s].hand[p] = onHand[p] + tx'[s].moved[p]
                      /\ tx'[s].held[p] # 0 => lock'[Balance(p)] = s
                      /\ tx'[s].held[p] > 0 => p \in tx'[s].checked
                      /\ Free(s, p)' >= 0
    BY <1>1 DEF BalanceOK
  <2>17. CASE p # q
    <3>1. Free(s, p)' = Free(s, p)
      BY <1>1, <2>6, <2>16, <2>17 DEF Free, Hand
    <3> QED
      BY <1>2, <1>3, <1>4, <2>6, <2>16, <2>17, <3>1
  <2>18. CASE p = q
    <3>1. Enough(s, q)
      BY <2>4
    <3>2. tx'[s].hand[q] \in Nat /\ tx'[s].hand[q] # Unwritten
      BY <2>14, <2>15, <3>1 DEF Unwritten
    <3>3. Free(s, q)' = Hand(s, q) + n - w
      <4>1. Hand(s, q)' = tx'[s].hand[q]
        BY <3>2 DEF Hand
      <4>2. Free(s, q)' = Hand(s, q)' - (reserved'[q] + tx'[s].held[q])
        BY DEF Free
      <4>3. reserved'[q] + tx'[s].held[q] = w
        BY <1>1, <2>6, <2>11
      <4>4. PICK h \in Nat : h = Hand(s, q)
        BY <2>9
      <4>5. PICK g \in Nat : g = tx'[s].hand[q]
        BY <3>2
      <4>6. Free(s, q)' = g - w
        BY <4>1, <4>2, <4>3, <4>5
      <4>7. g = h + n
        BY <2>14, <4>4, <4>5
      <4> QED
        BY <4>4, <4>6, <4>7
    <3>4. tx'[s].hand[q] = onHand[q] + tx'[s].moved[q]
      <4>1. tx[s].moved[q] \in Int
        BY <1>0, <2>3, SeenTyped
      <4> QED
        BY <2>2, <2>9, <2>14, <4>1
    <3> QED
      BY <1>3, <1>4, <2>4, <2>5, <2>6, <2>15, <2>18, <3>1, <3>2, <3>3, <3>4
  <2> QED
    BY <2>17, <2>18
<1> QED
  BY <1>5, <1>6, <1>7

\* Whoever goes on had looked for a count.
LEMMA QuietChecked ==
  ASSUME TypeOK, AllocsOK, NEW s \in Sessions, SessionOK(s), Quiet(s)
  PROVE  CheckedOK(s)'
<1> USE DEF SessionOK
<1>1. /\ tx[s] \in Request /\ tx'[s].kind = tx[s].kind /\ tx'[s].place = tx[s].place
      /\ UNCHANGED <<place, counted, early>> /\ pc[s] # "rollback"
  BY QuietIsQuiet, SeenTyped, Fields, Whereabouts DEF Quietly, database, allocations, freeze, Quiet
<1>2. /\ ~(Does(s, {"reallocate"}) /\ pc[s] = "rows") => \A p \in tx[s].checked \cap counted : s \in early[p]
      /\ Does(s, {"reallocate"}) => tx[s].checked \subseteq {tx[s].place}
  BY <1>1 DEF CheckedOK
<1>3. GiveOK(s)'
  BY QuietGive
\* What was found free of a count was so at the statement.
<1>4. ASSUME pc'[s] # "rollback", ~(Does(s, {"reallocate"}) /\ pc'[s] = "rows"), NEW p \in tx'[s].checked \cap counted
      PROVE  s \in early[p]
  <2>1. CASE CheckCount(s)
    <3>1. tx'[s].checked = tx[s].checked \cup {PostedAt(s)} /\ PostedAt(s) \notin counted /\ pc[s] = "check"
      BY <1>4, <2>1, GivingGoes
    <3> QED
      BY <1>2, <1>4, <3>1
  <2>2. CASE PickRows(s)
    <3>1. /\ tx'[s].checked = tx[s].checked \cup tx'[s].rows
          /\ \A q \in tx'[s].rows : Does(s, {"reallocate"}) \/ q \notin counted
          /\ pc'[s] \in {"rows", "commit", "rollback"} /\ (pc'[s] = "commit" => Does(s, {"reserve"}))
          /\ pc[s] = "pick"
      BY <2>2, KeepingGoes
    <3> QED
      BY <1>2, <1>4, <3>1 DEF Does
  <2>3. CASE LockRow(s)
    <3>1. ~Does(s, {"reallocate"})
      BY <1>4, <2>3, KeepingGoes DEF Does
    <3>2. tx'[s].checked = tx[s].checked
      BY <2>3, Fields, Whereabouts
    <3> QED
      BY <1>2, <1>4, <3>1, <3>2
  <2>4. CASE RowsLocked(s)
    <3>1. tx' = tx /\ pc'[s] = "insert" /\ (~Does(s, {"reallocate"}) \/ tx[s].place \notin counted)
      BY <1>4, <2>4, KeepingGoes
    <3> QED
      BY <1>2, <1>4, <3>1
  <2>5. CASE ~CheckCount(s) /\ ~PickRows(s) /\ ~LockRow(s) /\ ~RowsLocked(s)
    <3>1. pc[s] # "rows"
      BY <2>5, Whereabouts DEF Quiet
    <3>2. tx'[s].checked = tx[s].checked
      BY <2>5, Fields
    <3> QED
      BY <1>2, <1>4, <3>1, <3>2
  <2> QED
    BY <2>1, <2>2, <2>3, <2>4, <2>5
<1>5. Does(s, {"reallocate"}) => tx'[s].checked \subseteq {tx[s].place}
  <2>1. CASE CheckCount(s)
    BY <2>1, Whereabouts DEF RouteOK, Does
  <2>2. CASE PickRows(s)
    <3>1. /\ tx'[s].checked = tx[s].checked \cup tx'[s].rows
          /\ \A p \in tx'[s].rows : Suits(s, p)
      BY <2>2, KeepingGoes
    <3> QED
      BY <1>2, <3>1 DEF Suits, Does
  <2> QED
    BY <1>2, <2>1, <2>2, Fields
<1>6. pc'[s] \in {"item", "position"} /\ Posting(s)' => PostedAt(s)' \in tx'[s].checked
  <2>1. CASE CheckCount(s)
    <3>1. tx'[s].take = tx[s].take /\ tx'[s].listed = tx[s].listed
      BY <2>1, Fields, Whereabouts
    <3>2. PostedAt(s)' = PostedAt(s)
      BY <1>1, <3>1 DEF PostedAt, InTurn, Listed
    <3> QED
      BY <2>1, <3>2, GivingGoes
  <2>2. CASE LockInventoryItem(s)
    <3>1. tx' = tx /\ pc[s] = "item"
      BY <2>2, GivingGoes
    <3>2. PostedAt(s)' = PostedAt(s) /\ Posting(s)' = Posting(s)
      BY <1>1, <3>1 DEF PostedAt, Posting, InTurn, Listed
    <3> QED
      BY <3>1, <3>2 DEF CheckedOK
  <2>3. CASE ~CheckCount(s) /\ ~LockInventoryItem(s)
    <3>1. pc'[s] # "position"
      BY <2>3, OrderingGoes, ListingGoes, GivingGoes, KeepingGoes DEF Quiet
    <3>2. pc'[s] = "item" => tx[s].kind # "move"
      BY <2>3, OrderingGoes, ListingGoes, GivingGoes, KeepingGoes DEF Quiet, Does
    <3>3. ASSUME pc'[s] = "item", tx'[s].take > 0 PROVE FALSE
      <4>1. Does(s, {"deliver"})
        BY <1>1, <1>3, <3>3 DEF GiveOK, Giving, Does
      <4>2. ListAllocations(s) \/ ClaimAllocation(s) \/ LockAllocation(s) \/ WriteTotals(s) \/ PostMovement(s)
        BY <2>3, <3>3, <4>1, OrderingGoes, ListingGoes, GivingGoes, KeepingGoes DEF Quiet, Does
      <4>3. CASE ListAllocations(s) \/ ClaimAllocation(s)
        BY <1>1, <3>3, <4>3, Fields, Whereabouts DEF GiveOK, Giving
      <4>4. CASE LockAllocation(s)
        <5>1. tx'[s].take = tx[s].take
          BY <3>3, <4>4, ListingGoes
        <5> QED
          BY <1>1, <3>3, <4>4, <5>1, Whereabouts DEF GiveOK, Giving
      <4>5. CASE WriteTotals(s)
        <5>1. pc'[s] = "check" \/ tx'[s].take = 0
          BY <4>5, GivingGoes
        <5> QED
          BY <3>3, <5>1
      <4>6. CASE PostMovement(s)
        <5>1. PICK q : q = PostedAt(s)
          OBVIOUS
        <5>2. tx'[s].take = 0
          BY <4>6, <5>1, PostFields
        <5> QED
          BY <3>3, <5>2
      <4> QED
        BY <4>2, <4>3, <4>4, <4>5, <4>6
    <3> QED
      BY <1>1, <3>1, <3>2, <3>3 DEF Posting
  <2> QED
    BY <2>1, <2>2, <2>3
<1> QED
  BY <1>1, <1>4, <1>5, <1>6 DEF CheckedOK, Does
\* A session that takes a quiet statement keeps its part of the invariant.
LEMMA QuietOK ==
  ASSUME Globals, SessionsOK, NEW s \in Sessions, Quiet(s)
  PROVE  SessionOK(s)'
<1>1. TypeOK /\ AllocsOK /\ SessionOK(s)
  BY DEF Globals, SessionsOK
<1>2. RouteOK(s)' /\ GiveOK(s)' /\ KeepOK(s)'
  BY <1>1, QuietRoute, QuietGive, QuietKeep
<1>3. OwnOK(s)'
  BY <1>1, QuietOwn
<1>4. SumsOK(s)' /\ OrderOK(s)' /\ TotalsOK(s)'
  BY <1>1, QuietSums, QuietOrder, QuietTotals
<1>5. BalanceOK(s)' /\ CheckedOK(s)'
  BY <1>1, QuietBalance, QuietChecked
<1> QED
  BY <1>2, <1>3, <1>4, <1>5 DEF SessionOK

-----------------------------------------------------------------------------
(* The step of the session itself: a reservation.                              *)

\* A sum over one element more.
LEMMA SumGains ==
  ASSUME NEW A \in SUBSET Allocs, NEW a \in Allocs \ A, NEW f, NEW g,
         \A b \in A : f[b] \in Int /\ g[b] = f[b], g[a] \in Int
  PROVE  SumFunctionOnSet(g, A \cup {a}) = SumFunctionOnSet(f, A) + g[a]
<1>1. IsFiniteSet(A) /\ IsFiniteSet(A \cup {a})
  BY AllocsFinite, FS_Subset
<1>2. \A b \in A \cup {a} : g[b] \in Int
  OBVIOUS
<1>3. SumFunctionOnSet(g, A \cup {a}) = g[a] + SumFunctionOnSet(g, (A \cup {a}) \ {a})
  BY <1>1, <1>2, SumTakesOut
<1>4. (A \cup {a}) \ {a} = A
  OBVIOUS
<1>5. SumFunctionOnSet(g, A) = SumFunctionOnSet(f, A)
  BY <1>1, SumOfEqual
<1>6. PICK m \in Int, k \in Int : m = SumFunctionOnSet(f, A) /\ k = g[a]
  BY <1>1, SumOfIntegers
<1>7. SumFunctionOnSet(g, A \cup {a}) = g[a] + SumFunctionOnSet(g, A)
  BY <1>3, <1>4
<1>8. SumFunctionOnSet(g, A \cup {a}) = k + m
  BY <1>5, <1>6, <1>7
<1> QED
  BY <1>6, <1>8

\* So does one that makes a reservation.
LEMMA InsertOK ==
  ASSUME Globals, SessionsOK, NEW s \in Sessions, InsertReservation(s)
  PROVE  SessionOK(s)'
<1>1. TypeOK /\ AllocsOK /\ SessionOK(s)
  BY DEF Globals, SessionsOK
<1>2. PICK a, p, q : a = Min(Fresh) /\ p = TakenPlace(s) /\ q = TakenAmount(s)
  OBVIOUS
<1>3. /\ a \in Allocs /\ line[a] = Nobody /\ p \in tx[s].rows /\ p \in Places
      /\ lock[Balance(p)] = s /\ Suits(s, p)
      /\ q \in Nat /\ q > 0 /\ q <= tx[s].amount /\ q <= Free(s, p)
      /\ \A u \in Sessions \ {s} : tx'[u] = tx[u]
      /\ tx'[s].kind = tx[s].kind /\ tx'[s].line = tx[s].line /\ tx'[s].place = tx[s].place
      /\ tx'[s].n = tx[s].n /\ tx'[s].take = tx[s].take /\ tx'[s].seen = tx[s].seen
      /\ tx'[s].checked = tx[s].checked /\ tx'[s].hand = tx[s].hand /\ tx'[s].moved = tx[s].moved
  <2>1. Taking(s, a, p, q)
    BY <1>1, <1>2, InsertFields
  <2>2. /\ \A u \in Sessions \ {s} : tx'[u] = tx[u]
        /\ tx'[s].kind = tx[s].kind /\ tx'[s].line = tx[s].line /\ tx'[s].place = tx[s].place
    BY <1>1, <1>2, InsertFields
  <2>3. /\ tx'[s].n = tx[s].n /\ tx'[s].take = tx[s].take /\ tx'[s].seen = tx[s].seen
        /\ tx'[s].checked = tx[s].checked /\ tx'[s].hand = tx[s].hand /\ tx'[s].moved = tx[s].moved
    BY <1>1, <1>2, InsertFields
  <2> QED
    BY <2>1, <2>2, <2>3 DEF Taking
<1>4. /\ tx'[s].alloc = [tx[s].alloc EXCEPT ![a] = q]
      /\ tx'[s].held = [tx[s].held EXCEPT ![p] = tx[s].held[p] + q]
      /\ tx'[s].made = tx[s].made \cup {a}
      /\ tx'[s].total = HeldBy(s, tx[s].line) + q
  BY <1>1, <1>2, InsertFields
<1>5. \/ /\ pc'[s] = "insert" \/ (pc'[s] = "commit" /\ ~Does(s, {"deliver"}))
         /\ tx'[s].rows = tx[s].rows \ {p}
         /\ pc'[s] = "insert" => tx'[s].amount > 0 /\ tx'[s].rows # {}
         /\ tx'[s].listed = tx[s].listed
      \/ /\ Does(s, {"deliver"}) /\ pc'[s] \in {"alloc", "rollback"}
         /\ tx'[s].listed = Consumable(s)
  <2>1. GoesOn(s, p, q)
    BY <1>1, <1>2, InsertFields
  <2> QED
    BY <2>1 DEF GoesOn
<1>6. /\ lock' = [lock EXCEPT ![Alloc(a)] = s]
      /\ place' = [place EXCEPT ![a] = p] /\ line' = [line EXCEPT ![a] = tx[s].line]
      /\ UNCHANGED <<onHand, reserved, active, need, counted, early>>
      /\ pc[s] = "insert"
  BY <1>2 DEF InsertReservation, At, balances, documents, freeze, TakenPlace
<1>7. tx[s] \in Request /\ Does(s, Keepers)
  BY <1>1, <1>6 DEF TypeOK, SessionOK, RouteOK
<1>8. /\ \A b \in Allocs \ {a} : lock'[Alloc(b)] = lock[Alloc(b)]
      /\ lock'[Alloc(a)] = s
      /\ \A r \in Places : lock'[Balance(r)] = lock[Balance(r)]
      /\ \A l \in Lines : lock'[Order(l)] = lock[Order(l)]
  BY <1>1, <1>3, <1>6, RowsApart DEF TypeOK
<1>9. /\ tx[s].alloc \in [Allocs -> Int] /\ tx[s].held \in [Places -> Int]
      /\ tx[s].listed \in [Allocs -> Nat] /\ tx[s].line \in Lines /\ tx[s].rows \subseteq Places
  BY <1>7 DEF Request, Writes
<1>10. /\ \A b \in Allocs \ {a} : tx'[s].alloc[b] = tx[s].alloc[b]
       /\ tx'[s].alloc[a] = q
       /\ \A r \in Places \ {p} : tx'[s].held[r] = tx[s].held[r]
       /\ tx'[s].held[p] = tx[s].held[p] + q
  BY <1>3, <1>4, <1>9
<1>11. /\ \A b \in Allocs \ {a} : place'[b] = place[b] /\ line'[b] = line[b]
       /\ place'[a] = p /\ line'[a] = tx[s].line
  BY <1>1, <1>3, <1>6 DEF TypeOK
<1>12. /\ active[a] = 0 /\ place[a] = Nobody /\ tx[s].alloc[a] = 0 /\ Left(s, a) = 0
       /\ \A t \in Sessions : a \notin tx[t].made
  BY <1>1, <1>3, FreshIsClear DEF SessionsOK
<1>13. Consumable(s)[a] > 0 /\ \A b \in Allocs \ {a} : Consumable(s)[b] > 0 => tx[s].alloc[b] # 0
  <2>1. \A b \in Allocs : Consumable(s)[b] = IF tx'[s].alloc[b] > 0 THEN tx'[s].alloc[b] ELSE 0
    BY <1>2, <1>4 DEF Consumable, Mine
  <2> QED
    BY <1>3, <1>9, <1>10, <2>1
<1>14. RouteOK(s)'
  BY <1>1, <1>3, <1>5, <1>7 DEF SessionOK, RouteOK, Does, Keepers, Givers
<1>15. GiveOK(s)'
  <2>1. tx'[s].take = 0
    <3>1. ~Giving(s)
      BY <1>6 DEF Giving
    <3>2. tx[s].take \in Nat
      BY <1>7 DEF Request
    <3> QED
      BY <1>1, <1>3, <1>6, <3>1, <3>2 DEF SessionOK, GiveOK
  <2>2. pc'[s] = "alloc" => Listed(s)' # {}
    BY <1>3, <1>5, <1>13 DEF Listed
  <2>3. pc'[s] \in {"insert", "commit", "alloc", "rollback"}
    BY <1>5
  <2> QED
    BY <2>1, <2>2, <2>3 DEF GiveOK, Giving
<1>16. KeepOK(s)'
  <2>1. CASE pc'[s] # "insert"
    BY <1>5, <2>1 DEF KeepOK
  <2>2. CASE pc'[s] = "insert"
    <3>1. tx'[s].rows = tx[s].rows \ {p} /\ tx'[s].amount > 0 /\ tx'[s].rows # {}
      BY <1>5, <2>2
    <3>2. tx[s].rows \subseteq tx[s].checked /\ Unlocked(s) = {}
      BY <1>1, <1>6 DEF SessionOK, KeepOK
    <3>3. \A r \in tx[s].rows : lock[Balance(r)] = s /\ Suits(s, r)
      BY <1>1, <1>6, <3>2 DEF SessionOK, KeepOK, Unlocked
    <3>4. Unlocked(s)' = {}
      BY <1>8, <1>9, <3>1, <3>3 DEF Unlocked
    <3>5. ASSUME NEW r \in tx'[s].rows PROVE Suits(s, r)'
      <4>1. r \in tx[s].rows /\ r # p /\ r \in Places
        BY <1>9, <3>1
      <4>2. tx[s].kind # "reallocate" /\ Free(s, r) > 0
        BY <1>3, <3>3, <4>1 DEF Suits
      <4>3. Free(s, r)' = Free(s, r)
        BY <1>3, <1>6, <1>10, <4>1 DEF Free, Hand
      <4> QED
        BY <1>3, <4>2, <4>3 DEF Suits
    <3> QED
      BY <1>3, <2>2, <3>1, <3>2, <3>4, <3>5 DEF KeepOK
  <2> QED
    BY <2>1, <2>2
<1>17. OwnOK(s)'
  <2>1. ASSUME NEW b \in Allocs, tx'[s].listed[b] > 0 \/ lock'[Alloc(b)] = s
        PROVE  line'[b] = tx[s].line /\ \A t \in Sessions \ {s} : b \notin tx[t].made
    <3>1. CASE b = a
      BY <1>11, <1>12, <3>1
    <3>2. CASE b # a
      <4>1. tx[s].listed[b] > 0 \/ lock[Alloc(b)] = s
        <5>1. tx'[s].listed[b] > 0 => tx[s].listed[b] > 0 \/ tx[s].alloc[b] # 0
          BY <1>5, <1>13, <3>2
        <5>2. tx[s].alloc[b] # 0 => lock[Alloc(b)] = s
          BY <1>1 DEF SessionOK, OwnOK
        <5> QED
          BY <1>8, <2>1, <3>2, <5>1, <5>2
      <4> QED
        BY <1>1, <1>11, <3>2, <4>1 DEF SessionOK, OwnOK
    <3> QED
      BY <3>1, <3>2
  <2>2. \A b \in Allocs : tx'[s].alloc[b] # 0 => lock'[Alloc(b)] = s
    BY <1>1, <1>8, <1>10 DEF SessionOK, OwnOK
  <2>3. \A b \in Allocs : b \in tx'[s].made => active[b] = 0 /\ lock'[Alloc(b)] = s
    BY <1>1, <1>4, <1>8, <1>12 DEF SessionOK, OwnOK
  <2>4. ASSUME NEW b \in Allocs PROVE Left(s, b)' >= 0
    <3>1. CASE b = a
      BY <1>3, <1>6, <1>10, <1>12, <3>1 DEF Left
    <3>2. CASE b # a
      BY <1>1, <1>6, <1>10, <3>2 DEF Left, SessionOK, OwnOK
    <3> QED
      BY <3>1, <3>2
  <2>5. ~Starting(s)' /\ pc'[s] # "idle"
    BY <1>5 DEF Starting
  <2> QED
    BY <1>3, <1>6, <2>1, <2>2, <2>3, <2>4, <2>5 DEF OwnOK
<1>18. SumsOK(s)'
  <2> SUFFICES ASSUME NEW r \in Places
               PROVE  tx'[s].held[r] = SumFunctionOnSet(tx'[s].alloc, {b \in Allocs : place'[b] = r})
    BY DEF SumsOK
  <2> DEFINE A == {b \in Allocs : place[b] = r}
             B == {b \in Allocs : place'[b] = r}
             f == tx[s].alloc
             g == tx'[s].alloc
  <2>1. tx[s].held[r] = SumFunctionOnSet(f, A)
    BY <1>1 DEF SessionOK, SumsOK
  <2>2. a \notin A /\ A \in SUBSET Allocs /\ B = IF r = p THEN A \cup {a} ELSE A
    BY <1>3, <1>11, <1>12, ConstantsOK
  <2>3. \A b \in A : f[b] \in Int /\ g[b] = f[b]
    BY <1>9, <1>10, <2>2
  <2>4. g[a] = q /\ q \in Int
    BY <1>3, <1>10
  <2>5. IsFiniteSet(A)
    BY AllocsFinite, FS_Subset
  <2> HIDE DEF A, B, f, g
  <2>6. CASE r = p
    <3>0. a \in Allocs \ A /\ A \in SUBSET Allocs /\ g[a] \in Int
      BY <1>3, <2>2, <2>4
    <3>1. SumFunctionOnSet(g, A \cup {a}) = SumFunctionOnSet(f, A) + g[a]
      BY <2>3, <3>0, SumGains
    <3>2. tx'[s].held[r] = SumFunctionOnSet(g, B)
      BY <1>10, <2>1, <2>2, <2>4, <2>6, <3>1
    <3> QED
      BY <3>2 DEF B, g
  <2>7. CASE r # p
    <3>1. SumFunctionOnSet(f, A) = SumFunctionOnSet(g, A)
      BY <2>3, <2>5, SumOfEqual
    <3>2. tx'[s].held[r] = SumFunctionOnSet(g, B)
      BY <1>10, <2>1, <2>2, <2>7, <3>1
    <3> QED
      BY <3>2 DEF B, g
  <2> QED
    BY <2>6, <2>7
<1>19. HeldBy(s, tx[s].line)' = HeldBy(s, tx[s].line) + q /\ HeldBy(s, tx[s].line) \in Nat
  <2> DEFINE A == {b \in Allocs : line[b] = tx[s].line}
             B == {b \in Allocs : line'[b] = tx[s].line}
             f == AllLeft(s)
             g == AllLeft(s)'
  <2>1. HeldBy(s, tx[s].line) = SumFunctionOnSet(f, A)
    BY DEF HeldBy
  <2>2. HeldBy(s, tx[s].line)' = SumFunctionOnSet(g, B)
    BY <1>3 DEF HeldBy
  <2>3. a \notin A /\ A \in SUBSET Allocs /\ B = A \cup {a}
    BY <1>3, <1>9, <1>11, ConstantsOK
  <2>4. \A b \in Allocs : f[b] = active[b] + tx[s].alloc[b] /\ g[b] = active[b] + tx'[s].alloc[b]
    BY <1>6 DEF AllLeft, Left
  <2>5. \A b \in Allocs : active[b] \in Int /\ tx[s].alloc[b] \in Int
    BY <1>1, SeenTyped
  <2>6. (\A b \in A : f[b] \in Int /\ g[b] = f[b]) /\ g[a] = q /\ q \in Int
    BY <1>3, <1>10, <1>12, <2>3, <2>4, <2>5
  <2>7. HeldBy(s, tx[s].line) \in Nat
    BY <1>1, HeldTyped DEF SessionOK
  <2> HIDE DEF A, B, f, g
  <2>8. a \in Allocs \ A /\ A \in SUBSET Allocs /\ g[a] \in Int
    BY <1>3, <2>3, <2>6
  <2>9. SumFunctionOnSet(g, A \cup {a}) = SumFunctionOnSet(f, A) + g[a]
    BY <2>6, <2>8, SumGains
  <2> QED
    BY <2>1, <2>2, <2>3, <2>6, <2>7, <2>9
<1>20. OrderOK(s)'
  <2>1. Does(s, Sales) => lock'[Order(tx[s].line)] = s
    BY <1>1, <1>6, <1>8, <1>9 DEF SessionOK, OrderOK
  <2>2. Does(s, {"cancel", "deliver"}) => tx[s].n <= need[tx[s].line]
    BY <1>1, <1>6 DEF SessionOK, OrderOK
  <2>3. ~(Does(s, {"move"}) \/ Starting(s)')
    BY <1>5, <1>7 DEF Does, Keepers, Starting
  <2>4. tx'[s].total \in Nat
    BY <1>3, <1>4, <1>19
  <2>5. (Does(s, Sales) => tx[s].n > 0) /\ tx[s].seen \in Nat
    BY <1>1 DEF SessionOK, OrderOK
  <2> QED
    BY <1>3, <1>6, <2>1, <2>2, <2>3, <2>4, <2>5 DEF OrderOK, Does
<1>21. TotalsOK(s)'
  BY <1>3, <1>4, <1>5, <1>19 DEF TotalsOK
<1>22. BalanceOK(s)'
  <2> SUFFICES ASSUME NEW r \in Places
               PROVE  /\ tx'[s].hand[r] = Unwritten => tx'[s].moved[r] = 0
                      /\ tx'[s].hand[r] # Unwritten =>
                            /\ lock'[Balance(r)] = s /\ r \in tx'[s].checked
                            /\ tx'[s].hand[r] \in Nat /\ tx'[s].hand[r] = onHand'[r] + tx'[s].moved[r]
                      /\ tx'[s].held[r] # 0 => lock'[Balance(r)] = s
                      /\ tx'[s].held[r] > 0 => r \in tx'[s].checked
                      /\ Free(s, r)' >= 0
    BY DEF BalanceOK
  <2>1. /\ tx[s].hand[r] = Unwritten => tx[s].moved[r] = 0
        /\ tx[s].hand[r] # Unwritten =>
              /\ lock[Balance(r)] = s /\ r \in tx[s].checked
              /\ tx[s].hand[r] \in Nat /\ tx[s].hand[r] = onHand[r] + tx[s].moved[r]
        /\ tx[s].held[r] # 0 => lock[Balance(r)] = s
        /\ tx[s].held[r] > 0 => r \in tx[s].checked
        /\ Free(s, r) >= 0
    BY <1>1, <1>6 DEF SessionOK, BalanceOK
  <2>2. CASE r # p
    <3>1. Free(s, r)' = Free(s, r)
      BY <1>3, <1>6, <1>10, <2>2 DEF Free, Hand
    <3> QED
      BY <1>3, <1>6, <1>8, <1>10, <2>1, <2>2, <3>1
  <2>3. CASE r = p
    <3>1. p \in tx[s].checked
      BY <1>1, <1>3, <1>6 DEF SessionOK, KeepOK
    <3>2. PICK h \in Int, v \in Nat, w \in Int : h = Hand(s, p) /\ v = reserved[p] /\ w = tx[s].held[p]
      BY <1>1, <1>3, SeenTyped
    <3>3. Free(s, p) = h - (v + w)
      BY <3>2 DEF Free
    <3>4. Free(s, p)' = h - (v + (w + q))
      BY <1>3, <1>6, <1>10, <3>2 DEF Free, Hand
    <3>5. Free(s, p)' >= 0
      BY <1>3, <3>3, <3>4
    <3> QED
      BY <1>3, <1>6, <1>8, <2>1, <2>3, <3>1, <3>5
  <2> QED
    BY <2>2, <2>3
<1>23. CheckedOK(s)'
  <2>1. \A r \in tx[s].checked \cap counted : s \in early[r]
    BY <1>1, <1>6 DEF SessionOK, CheckedOK
  <2>2. Does(s, {"reallocate"}) => tx[s].checked \subseteq {tx[s].place}
    BY <1>1 DEF SessionOK, CheckedOK
  <2>3. pc'[s] \notin {"item", "position"}
    BY <1>5
  <2> QED
    BY <1>3, <1>6, <2>1, <2>2, <2>3 DEF CheckedOK, Does
<1> QED
  BY <1>14, <1>15, <1>16, <1>17, <1>18, <1>20, <1>21, <1>22, <1>23 DEF SessionOK

-----------------------------------------------------------------------------
(* The theorems.                                                               *)

\* At the start nobody has made a request, the books agree, and no line keeps more than it needs.
LEMMA InitInv ==
  ASSUME Init
  PROVE  Inv /\ \A l \in Lines : ActiveFor(l) <= need[l]
<1>1. PICK b \in Books0 :
         /\ active = [a \in Allocs |-> IF a \in DOMAIN b THEN b[a].n ELSE 0]
         /\ place = [a \in Allocs |-> IF a \in DOMAIN b THEN b[a].place ELSE Nobody]
         /\ line = [a \in Allocs |-> IF a \in DOMAIN b THEN b[a].line ELSE Nobody]
         /\ reserved = [p \in Places |-> KeptIn(b, {a \in DOMAIN b : b[a].place = p})]
         /\ total = [l \in Lines |-> KeptIn(b, {a \in DOMAIN b : b[a].line = l})]
  BY DEF Init
<1>2. /\ DOMAIN b \in SUBSET Allocs
      /\ \A a \in DOMAIN b : b[a].line \in Lines /\ b[a].place \in Places /\ b[a].n \in Nat \ {0}
      /\ \A p \in Places : KeptIn(b, {a \in DOMAIN b : b[a].place = p}) <= Stock0[p]
      /\ \A l \in Lines : KeptIn(b, {a \in DOMAIN b : b[a].line = l}) <= Need0[l]
  BY ConstantsOK
<1>3. /\ onHand = Stock0 /\ ledger = Stock0 /\ need = Need0 /\ counted = {}
      /\ early = [p \in Places |-> {}] /\ lock = [r \in Rows |-> Nobody]
      /\ pc = [s \in Sessions |-> "idle"] /\ tx = [s \in Sessions |-> Idle]
      /\ requests = 0 /\ counts = 0
  BY DEF Init
<1>4. Nobody \notin Sessions /\ Nobody \notin Places /\ Nobody \notin Lines
  BY ConstantsOK
<1>5. \A a \in Allocs : active[a] \in Nat
  BY <1>1, <1>2
\* The sums of the books are those of the allocations.
<1>6. ASSUME NEW S \in SUBSET DOMAIN b, NEW T \in SUBSET Allocs, S \subseteq T,
             \A a \in T \ S : active[a] = 0
      PROVE  KeptIn(b, S) = SumFunctionOnSet(active, T) /\ KeptIn(b, S) \in Nat
  <2> DEFINE f == [a \in DOMAIN b |-> b[a].n]
  <2>1. IsFiniteSet(T) /\ IsFiniteSet(S) /\ S \in SUBSET T
    BY <1>2, <1>6, AllocsFinite, FS_Subset
  <2>2. \A a \in S : f[a] = active[a]
    BY <1>1, <1>2
  <2>3. \A a \in T : active[a] \in Int
    BY <1>5
  <2>4. \A a \in S : active[a] \in Nat
    BY <1>2, <1>5
  <2>5. KeptIn(b, S) = SumFunctionOnSet(f, S)
    BY DEF KeptIn
  <2> HIDE DEF f
  <2>6. SumFunctionOnSet(f, S) = SumFunctionOnSet(active, S)
    BY <2>1, <2>2, SumOfEqual
  <2>7. SumFunctionOnSet(active, T) = SumFunctionOnSet(active, S)
    BY <1>6, <2>1, <2>3, SumOfPart
  <2>8. SumFunctionOnSet(active, S) \in Nat
    BY <2>1, <2>4, SumOfNaturals
  <2> QED
    BY <2>5, <2>6, <2>7, <2>8
<1>7. ASSUME NEW p \in Places
      PROVE  /\ reserved[p] = ActiveAt(p) /\ reserved[p] \in Nat
             /\ reserved[p] <= Stock0[p]
  <2> DEFINE S == {a \in DOMAIN b : b[a].place = p}
             T == {a \in Allocs : place[a] = p}
  <2>1. S \in SUBSET DOMAIN b /\ T \in SUBSET Allocs /\ S \subseteq T /\ \A a \in T \ S : active[a] = 0
    BY <1>1, <1>2, <1>4
  <2>2. reserved[p] = KeptIn(b, S)
    BY <1>1
  <2>3. KeptIn(b, S) <= Stock0[p]
    BY <1>2
  <2> HIDE DEF S, T
  <2>4. KeptIn(b, S) = SumFunctionOnSet(active, T) /\ KeptIn(b, S) \in Nat
    BY <1>6, <2>1
  <2> QED
    BY <2>2, <2>3, <2>4 DEF ActiveAt, T
<1>8. ASSUME NEW l \in Lines
      PROVE  /\ total[l] = ActiveFor(l) /\ total[l] \in Nat
             /\ total[l] <= Need0[l]
  <2> DEFINE S == {a \in DOMAIN b : b[a].line = l}
             T == {a \in Allocs : line[a] = l}
  <2>1. S \in SUBSET DOMAIN b /\ T \in SUBSET Allocs /\ S \subseteq T /\ \A a \in T \ S : active[a] = 0
    BY <1>1, <1>2, <1>4
  <2>2. total[l] = KeptIn(b, S)
    BY <1>1
  <2>3. KeptIn(b, S) <= Need0[l]
    BY <1>2
  <2> HIDE DEF S, T
  <2>4. KeptIn(b, S) = SumFunctionOnSet(active, T) /\ KeptIn(b, S) \in Nat
    BY <1>6, <2>1
  <2> QED
    BY <2>2, <2>3, <2>4 DEF ActiveFor, T
<1>9. TypeOK
  <2>1. onHand \in [Places -> Nat] /\ ledger \in [Places -> Int] /\ need \in [Lines -> Nat]
    BY <1>3, ConstantsOK
  <2>2. reserved \in [Places -> Nat] /\ total \in [Lines -> Nat]
    BY <1>1, <1>7, <1>8
  <2>3. /\ active \in [Allocs -> Nat]
        /\ place \in [Allocs -> Places \cup {Nobody}] /\ line \in [Allocs -> Lines \cup {Nobody}]
    BY <1>1, <1>2
  <2>4. requests \in 0 .. Requests /\ counts \in 0 .. CountCap
    BY <1>3, ConstantsOK
  <2>5. tx \in [Sessions -> Request]
    BY <1>3, IdleTyped
  <2> QED
    BY <1>3, <2>1, <2>2, <2>3, <2>4, <2>5 DEF TypeOK
<1>10. AllocsOK
  BY <1>1, <1>2, <1>4 DEF AllocsOK
<1>11. Covered
  BY <1>3, <1>7 DEF Covered
<1>12. ReservedIsActive /\ BalanceIsLedger /\ OrderTotalsFollow
  BY <1>3, <1>7, <1>8, ConstantsOK DEF ReservedIsActive, BalanceIsLedger, OrderTotalsFollow
<1>13. ASSUME NEW s \in Sessions PROVE SessionOK(s)
  <2>1. tx[s] = Idle /\ pc[s] = "idle" /\ \A r \in Rows : lock[r] # s
    BY <1>3, <1>4
  <2>2. /\ tx[s].kind = "move" /\ tx[s].take = 0 /\ tx[s].seen = 0 /\ tx[s].rows = {}
        /\ tx[s].checked = {} /\ tx[s].made = {} /\ tx[s].total = Unwritten
    BY <2>1, IdleTyped
  <2>3. /\ \A a \in Allocs : tx[s].listed[a] = 0 /\ tx[s].alloc[a] = 0
        /\ \A p \in Places : tx[s].hand[p] = Unwritten /\ tx[s].moved[p] = 0 /\ tx[s].held[p] = 0
    BY <2>1, IdleTyped
  <2>4. RouteOK(s) /\ GiveOK(s) /\ KeepOK(s)
    BY <2>1, <2>2 DEF RouteOK, GiveOK, KeepOK, Giving, Does, Sales
  <2>5. OwnOK(s)
    <3>1. \A a \in Allocs : lock[Alloc(a)] # s /\ Left(s, a) >= 0
      BY <1>5, <2>1, <2>3, RowsApart DEF Left
    <3> QED
      BY <2>1, <2>2, <2>3, <3>1 DEF OwnOK
  <2>6. SumsOK(s)
    <3>1. tx[s].alloc = [a \in Allocs |-> 0]
      BY <2>1, IdleTyped
    <3>2. ASSUME NEW p \in Places
          PROVE  SumFunctionOnSet(tx[s].alloc, {a \in Allocs : place[a] = p}) = 0
      BY <3>1, SumOfZeros
    <3> QED
      BY <2>3, <3>2 DEF SumsOK
  <2>7. NoneWritten(s)
    BY <2>2, <2>3 DEF NoneWritten
  <2>8. OrderOK(s)
    BY <2>1, <2>2, <2>7 DEF OrderOK, Does, Sales
  <2>9. TotalsOK(s)
    BY <2>1, <2>7 DEF TotalsOK
  <2>10. BalanceOK(s)
    <3>1. ASSUME NEW p \in Places PROVE Free(s, p) >= 0
      <4>1. PICK m \in Nat, n \in Nat : m = onHand[p] /\ n = reserved[p]
        BY <1>9 DEF TypeOK
      <4>2. n <= m
        BY <1>3, <1>7, <4>1
      <4>3. Free(s, p) = m - (n + 0)
        BY <2>3, <4>1 DEF Free, Hand
      <4> QED
        BY <4>2, <4>3
    <3> QED
      BY <2>3, <3>1 DEF BalanceOK
  <2>11. CheckedOK(s)
    BY <2>1, <2>2 DEF CheckedOK, Does
  <2> QED
    BY <2>4, <2>5, <2>6, <2>8, <2>9, <2>10, <2>11 DEF SessionOK
<1>14. Inv
  BY <1>9, <1>10, <1>11, <1>12, <1>13 DEF Inv, SessionsOK
<1> QED
  BY <1>3, <1>8, <1>14

\* Every step keeps the invariant: whoever takes it by the lemma of that step, everybody
\* else because it leaves alone what they rely on.
LEMMA StepKeepsInv ==
  ASSUME Inv, [Next]_vars
  PROVE  Inv'
<1>1. TypeOK /\ AllocsOK /\ Globals /\ SessionsOK /\ \A t \in Sessions : SessionOK(t)
  BY DEF Inv, Globals, SessionsOK
\* It is enough that all sessions and all that is seen by all are as they should be.
<1>2. ASSUME Globals', NEW s \in Sessions, SessionOK(s)', \A t \in Sessions \ {s} : Undisturbed(t)
      PROVE  Inv'
  <2>1. TypeOK' /\ Covered'
    BY <1>2 DEF Globals
  <2>2. ASSUME NEW t \in Sessions PROVE SessionOK(t)'
    <3>1. CASE t = s
      BY <1>2, <3>1
    <3>2. CASE t # s
      <4>1. Undisturbed(t)
        BY <1>2, <3>2
      <4> QED
        BY <1>1, <2>1, <4>1, UndisturbedKeeps
    <3> QED
      BY <3>1, <3>2
  <2>3. SessionsOK'
    BY <2>2 DEF SessionsOK
  <2> QED
    BY <1>2, <2>3 DEF Inv, Globals
<1>3. ASSUME NEW s \in Sessions, Request0(s) PROVE Inv'
  <2>1. Globals'
    BY <1>1, <1>3, RequestGlobals
  <2>2. TypeOK' /\ Covered'
    BY <2>1 DEF Globals
  <2>3. SessionOK(s)'
    BY <1>1, <1>3, <2>2, RequestOK
  <2>4. Quietly(s) /\ tx'[s].made \subseteq tx[s].made
    BY <1>1, <1>3, RequestIsQuiet, RequestFields DEF EmptyHanded
  <2>5. \A t \in Sessions \ {s} : Undisturbed(t)
    BY <1>1, <2>4, QuietSpares
  <2> QED
    BY <1>2, <2>1, <2>3, <2>5
<1>4. ASSUME NEW s \in Sessions, Fails(s) PROVE Inv'
  <2>1. Globals' /\ SessionOK(s)'
    BY <1>1, <1>4, FailGlobals, FailOK
  <2>2. Quietly(s) /\ tx'[s].made \subseteq tx[s].made
    BY <1>1, <1>4, FailIsQuiet
  <2>3. \A t \in Sessions \ {s} : Undisturbed(t)
    BY <1>1, <2>2, QuietSpares
  <2> QED
    BY <1>2, <2>1, <2>3
<1>5. ASSUME NEW s \in Sessions, Quiet(s) PROVE Inv'
  <2>1. Globals' /\ SessionOK(s)'
    BY <1>1, <1>5, QuietGlobals, QuietOK
  <2>2. Quietly(s)
    BY <1>1, <1>5, QuietIsQuiet
  <2>3. tx'[s].made \subseteq tx[s].made
    <3>1. RouteOK(s) /\ GiveOK(s)
      BY <1>1 DEF SessionOK
    <3> QED
      BY <1>1, <1>5, <3>1, Fields
  <2>4. \A t \in Sessions \ {s} : Undisturbed(t)
    BY <1>1, <2>2, <2>3, QuietSpares
  <2> QED
    BY <1>2, <2>1, <2>4
<1>6. ASSUME NEW s \in Sessions, InsertReservation(s) PROVE Inv'
  <2>1. Globals' /\ SessionOK(s)'
    BY <1>1, <1>6, InsertGlobals, InsertOK
  <2>2. \A t \in Sessions \ {s} : Undisturbed(t)
    BY <1>1, <1>6, InsertSpares
  <2> QED
    BY <1>2, <2>1, <2>2
<1>7. ASSUME NEW s \in Sessions, Commit(s) PROVE Inv'
  <2>1. Globals' /\ SessionOK(s)'
    BY <1>1, <1>7, CommitGlobals, EndOK
  <2>2. \A t \in Sessions \ {s} : Undisturbed(t)
    BY <1>1, <1>7, CommitSpares
  <2> QED
    BY <1>2, <2>1, <2>2
<1>8. ASSUME NEW s \in Sessions, Rollback(s) PROVE Inv'
  <2>1. Globals' /\ SessionOK(s)'
    BY <1>1, <1>8, RollbackGlobals, EndOK
  <2>2. \A t \in Sessions \ {s} : Undisturbed(t)
    BY <1>1, <1>8, RollbackSpares
  <2> QED
    BY <1>2, <2>1, <2>2
<1>9. ASSUME (\E p \in Places : StartCount(p) \/ CancelCount(p)) \/ UNCHANGED vars PROVE Inv'
  <2>1. Globals'
    BY <1>1, <1>9, CountGlobals
  <2>2. TypeOK' /\ Covered'
    BY <2>1 DEF Globals
  <2>3. ASSUME NEW t \in Sessions PROVE SessionOK(t)'
    <3>1. Undisturbed(t)
      BY <1>1, <1>9, CountSpares
    <3> QED
      BY <1>1, <2>2, <3>1, UndisturbedKeeps
  <2> QED
    BY <2>1, <2>3 DEF Inv, Globals, SessionsOK
<1>10. ASSUME NEW s \in Sessions, Statement(s) PROVE Inv'
  BY <1>5, <1>6, <1>7, <1>8, <1>10, Steps
<1> QED
  BY <1>3, <1>4, <1>9, <1>10 DEF Next, Request0, Fails

\* The invariant holds in every state of every behaviour.
THEOREM Invariance == Spec => []Inv
<1>1. Init => Inv
  BY InitInv
<1>2. Inv /\ [Next]_vars => Inv'
  BY StepKeepsInv
<1> QED
  BY <1>1, <1>2, PTL DEF Spec

\* Every variable keeps its type: no quantity of the database ever goes below zero, whatever
\* transactions interleave, fail or are given up.
THEOREM TypeCorrect == Spec => []TypeOK
<1>1. Inv => TypeOK
  BY DEF Inv
<1> QED
  BY <1>1, Invariance, PTL

\* What a balance row shows as reserved is what its active allocations hold.
THEOREM ReservedAgrees == Spec => []ReservedIsActive
<1>1. Inv => ReservedIsActive
  BY DEF Inv
<1> QED
  BY <1>1, Invariance, PTL

\* The recorded stock is the sum of the ledger.
THEOREM LedgerAgrees == Spec => []BalanceIsLedger
<1>1. Inv => BalanceIsLedger
  BY DEF Inv
<1> QED
  BY <1>1, Invariance, PTL

\* The reservation of an order line shows what its allocations hold, on every line that
\* Inventory does not release or reallocate.
THEOREM TotalsFollowOrder == Spec => []OrderTotalsFollow
<1>1. Inv => OrderTotalsFollow
  BY DEF Inv
<1> QED
  BY <1>1, Invariance, PTL

\* Never is more reserved at a place than there is.
THEOREM NeverOversold == Spec => []Covered
<1>1. Inv => Covered
  BY DEF Inv
<1> QED
  BY <1>1, Invariance, PTL

\* Stock under a count does move (CountedStays does not hold).  Whoever moves it, or has
\* more of it reserved, is at the commit of a transaction that looked for a count before
\* this one started: nobody who looked later gets past the count.
OnlyEarlierMoves ==
    [][\A p \in counted \cap counted' :
          onHand'[p] # onHand[p] \/ reserved'[p] > reserved[p]
          => \E s \in early[p] : pc[s] = "commit" /\ pc'[s] = "idle"]_vars

\* The exception to "Stock under an active physical count does not move", and the only one.
THEOREM OnlyEarlier == Spec => OnlyEarlierMoves
<1> DEFINE Moves(p) == onHand'[p] # onHand[p] \/ reserved'[p] > reserved[p]
           By(p) == \E s \in early[p] : pc[s] = "commit" /\ pc'[s] = "idle"
           Only == \A p \in counted \cap counted' : Moves(p) => By(p)
<1>1. ASSUME Inv, [Next]_vars PROVE [Only]_vars
  <2>1. TypeOK /\ \A s \in Sessions : SessionOK(s)
    BY <1>1 DEF Inv, SessionsOK
  <2>2. ASSUME UNCHANGED <<onHand, reserved>> PROVE Only
    <3>1. \A p \in Places : reserved[p] \in Nat
      BY <2>1 DEF TypeOK
    <3>2. counted \subseteq Places
      BY <2>1 DEF TypeOK
    <3>3. \A p \in counted : ~(reserved[p] > reserved[p])
      BY <3>1, <3>2
    <3> QED
      BY <2>2, <3>3
  <2>3. ASSUME NEW s \in Sessions, Commit(s) PROVE Only
    <3>1. /\ pc[s] = "commit" /\ pc'[s] = "idle"
          /\ onHand' = [p \in Places |-> Hand(s, p)]
          /\ reserved' = [p \in Places |-> reserved[p] + tx[s].held[p]]
      BY <2>1, <2>3 DEF Commit, At, End, Go, TypeOK
    <3>2. BalanceOK(s) /\ CheckedOK(s)
      BY <2>1 DEF SessionOK
    <3>3. ASSUME NEW p \in counted, Moves(p) PROVE s \in early[p]
      <4>1. p \in Places
        BY <2>1 DEF TypeOK
      <4>2. reserved[p] \in Nat /\ tx[s].held[p] \in Int
        BY <2>1, <4>1, SeenTyped
      <4>3. tx[s].hand[p] # Unwritten \/ tx[s].held[p] > 0
        BY <3>1, <3>3, <4>1, <4>2 DEF Hand
      <4>4. p \in tx[s].checked
        BY <3>1, <3>2, <4>1, <4>3 DEF BalanceOK
      <4> QED
        BY <3>1, <3>2, <3>3, <4>4 DEF CheckedOK
    <3> QED
      BY <3>1, <3>3
  <2>4. CASE UNCHANGED vars
    BY <2>4
  <2>5. ASSUME NEW s \in Sessions, ~Commit(s),
               \/ Request0(s) \/ Fails(s) \/ Quiet(s) \/ InsertReservation(s) \/ Rollback(s)
        PROVE  UNCHANGED <<onHand, reserved>>
    <3>1. Request0(s) \/ Fails(s) \/ Quiet(s) => Quietly(s)
      BY <2>1, RequestIsQuiet, FailIsQuiet, QuietIsQuiet
    <3>2. InsertReservation(s) \/ Rollback(s) => UNCHANGED <<onHand, reserved>>
      BY DEF InsertReservation, Rollback, balances
    <3> QED
      BY <2>5, <3>1, <3>2 DEF Quietly, database, balances
  <2>6. ASSUME NEW p \in Places, StartCount(p) \/ CancelCount(p) PROVE UNCHANGED <<onHand, reserved>>
    BY <2>6 DEF StartCount, CancelCount, balances
  <2> HIDE DEF Only
  <2>7. ASSUME NEW s \in Sessions, Statement(s) PROVE Only
    BY <2>2, <2>3, <2>5, <2>7, Steps
  <2> QED
    BY <1>1, <2>2, <2>4, <2>5, <2>6, <2>7, <2>3 DEF Next, Request0, Fails
<1>2. Spec => [][Only]_vars
  BY <1>1, Invariance, PTL DEF Spec
<1> QED
  BY <1>2 DEF OnlyEarlierMoves
=============================================================================
