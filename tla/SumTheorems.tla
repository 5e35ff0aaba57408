----------------------------- MODULE SumTheorems -----------------------------
(***************************************************************************)
(* Sums over finite sets, for every set: what the community modules' fold  *)
(* computes, by induction on the set.                                      *)
(***************************************************************************)
EXTENDS Integers, FiniteSets, FiniteSetsExt, FiniteSetTheorems, WellFoundedInduction, TLAPS

\* Induction on the naturals, and on a finite set one element at a time, for a
\* property given as the set of what has it.
LEMMA Induction ==
    ASSUME NEW S, 0 \in S, \A n \in Nat : n \in S => n + 1 \in S
    PROVE  \A n \in Nat : n \in S
<1> SUFFICES ASSUME NEW k \in Nat, k \notin S PROVE FALSE
  OBVIOUS
<1> DEFINE Bad == {n \in Nat : n \notin S}
<1>1. OpToRel(<, Nat) = {ss \in Nat \X Nat : ss[1] < ss[2]}
  BY DEF OpToRel
<1>2. PICK x \in Bad : \A y \in Bad : ~ (<<y, x>> \in OpToRel(<, Nat))
  <2>1. Bad \subseteq Nat /\ Bad # {}
    OBVIOUS
  <2> HIDE DEF Bad
  <2> QED BY <2>1, NatLessThanWellFounded, WFMin, Zenon
<1>3. x # 0 /\ x \in Nat
  OBVIOUS
<1>4. x - 1 \in Nat /\ x - 1 \notin S
  BY <1>3
<1>5. <<x - 1, x>> \in {ss \in Nat \X Nat : ss[1] < ss[2]}
  BY <1>3, <1>4
<1> QED BY <1>1, <1>2, <1>4, <1>5

LEMMA Part ==
    ASSUME NEW S, IsFiniteSet(S), NEW T \in SUBSET S
    PROVE  IsFiniteSet(T) /\ Cardinality(T) \in Nat /\ (Cardinality(T) = 0 <=> T = {})
  BY FS_Subset, FS_CardinalityType, FS_EmptySet

LEMMA OneLess ==
    ASSUME NEW S, IsFiniteSet(S), NEW T \in SUBSET S, NEW x \in T, NEW n \in Nat,
           Cardinality(T) = n + 1
    PROVE  T \ {x} \in SUBSET S /\ Cardinality(T \ {x}) = n
<1>1. IsFiniteSet(T)
  BY FS_Subset
<1> QED BY <1>1, FS_RemoveElement

LEMMA SetInduction ==
    ASSUME NEW S, IsFiniteSet(S), NEW F, {} \in F,
           \A T \in SUBSET S : \A x \in S \ T : T \in F => T \cup {x} \in F
    PROVE  S \in F
<1> DEFINE Proved == {n \in Nat : \A T \in SUBSET S : Cardinality(T) = n => T \in F}
<1>1. \A T \in SUBSET S : Cardinality(T) \in Nat /\ (Cardinality(T) = 0 <=> T = {})
  BY Part
<1>2. 0 \in Proved
  BY <1>1
<1>3. ASSUME NEW n \in Nat, n \in Proved PROVE n + 1 \in Proved
  <2> SUFFICES ASSUME NEW T \in SUBSET S, Cardinality(T) = n + 1 PROVE T \in F
    OBVIOUS
  <2>1. PICK x \in T : TRUE
    BY <1>1
  <2>2. T \ {x} \in SUBSET S /\ Cardinality(T \ {x}) = n
    BY OneLess
  <2>3. T \ {x} \in F /\ (T \ {x}) \cup {x} = T
    BY <1>3, <2>1, <2>2
  <2> QED BY <2>1, <2>3
<1> HIDE DEF Proved
<1>4. \A n \in Nat : n \in Proved
  BY <1>2, <1>3, Induction
<1> QED BY <1>1, <1>4 DEF Proved

-----------------------------------------------------------------------------
\* The sum of a function's values over a set, and what its fold runs through.
SumOver(by, T) == MapThenSumSet(LAMBDA c : by[c], T)
SumsUp(g, by, T) ==
    g = [s \in SUBSET T |-> IF s = {} THEN 0
            ELSE by[CHOOSE x \in s : TRUE] + g[s \ {CHOOSE x \in s : TRUE}]]

LEMMA SumExists ==
    ASSUME NEW T, IsFiniteSet(T), NEW by
    PROVE  \E g : SumsUp(g, by, T)
<1> DEFINE pick(s) == CHOOSE x \in s : TRUE
           Small(n) == {s \in SUBSET T : Cardinality(s) <= n}
           Upto(n, g) == g = [s \in Small(n) |-> IF s = {} THEN 0 ELSE by[pick(s)] + g[s \ {pick(s)}]]
           Found == {n \in Nat : \E g : Upto(n, g)}
<1>1. \A s \in SUBSET T : IsFiniteSet(s) /\ Cardinality(s) \in Nat
                          /\ (Cardinality(s) = 0 <=> s = {}) /\ Cardinality(s) <= Cardinality(T)
  BY FS_Subset, FS_CardinalityType, FS_EmptySet
<1>2. \A s \in SUBSET T : s # {} => pick(s) \in s
  OBVIOUS
<1>3. \A s \in SUBSET T : s # {} => Cardinality(s \ {pick(s)}) = Cardinality(s) - 1
  BY <1>1, <1>2, FS_RemoveElement
<1> HIDE DEF pick
<1>4. 0 \in Found
  <2>1. \A s \in Small(0) : s = {}
    BY <1>1
  <2>2. Upto(0, [s \in Small(0) |-> 0])
    BY <2>1
  <2> QED BY <2>2
<1>5. ASSUME NEW n \in Nat, n \in Found PROVE n + 1 \in Found
  <2>1. PICK g : Upto(n, g)
    BY <1>5
  <2> DEFINE h == [s \in Small(n + 1) |-> IF s = {} THEN 0 ELSE by[pick(s)] + g[s \ {pick(s)}]]
  <2>2. ASSUME NEW t \in Small(n) PROVE h[t] = g[t]
    <3>1. t \in Small(n + 1)
      BY <1>1, <2>2
    <3>2. g[t] = IF t = {} THEN 0 ELSE by[pick(t)] + g[t \ {pick(t)}]
      BY <2>1, <2>2, Zenon
    <3> QED BY <3>1, <3>2
  <2>3. ASSUME NEW s \in Small(n + 1), s # {}
        PROVE  s \ {pick(s)} \in Small(n)
    BY <1>1, <1>3, <2>3
  <2>4. ASSUME NEW s \in Small(n + 1)
        PROVE  h[s] = IF s = {} THEN 0 ELSE by[pick(s)] + h[s \ {pick(s)}]
    BY <2>2, <2>3
  <2>5. Upto(n + 1, h)
    <3>1. h = [s \in Small(n + 1) |-> h[s]]
      OBVIOUS
    <3> HIDE DEF h, Small
    <3> QED BY <2>4, <3>1
  <2>6. \E f : Upto(n + 1, f)
    <3> HIDE DEF Upto, h
    <3> QED BY <2>5
  <2> HIDE DEF Upto, h
  <2> QED BY <2>6
<1>6. Cardinality(T) \in Nat /\ Small(Cardinality(T)) = SUBSET T
  BY <1>1
<1>7. Cardinality(T) \in Found
  <2> HIDE DEF Found
  <2> QED BY <1>4, <1>5, <1>6, Induction
<1>8. PICK g : Upto(Cardinality(T), g)
  BY <1>7
<1>9. g = [s \in SUBSET T |-> IF s = {} THEN 0 ELSE by[pick(s)] + g[s \ {pick(s)}]]
  <2> HIDE DEF Small
  <2> QED BY <1>6, <1>8
<1> QED BY <1>9 DEF pick, SumsUp

LEMMA SumIs ==
    ASSUME NEW T, IsFiniteSet(T), NEW by
    PROVE  \E g : SumsUp(g, by, T) /\ SumOver(by, T) = g[T]
<1> DEFINE iter[s \in SUBSET T] == IF s = {} THEN 0
                                   ELSE LET x == CHOOSE x \in s : TRUE
                                        IN by[x] + iter[s \ {x}]
<1>1. SumOver(by, T) = iter[T]
  BY DEF SumOver, MapThenSumSet, MapThenFoldSet
<1>2. iter = CHOOSE g : SumsUp(g, by, T)
  BY DEF SumsUp
<1> HIDE DEF iter
<1>3. SumsUp(iter, by, T)
  BY <1>2, SumExists
<1> QED BY <1>1, <1>3

\* The values a fold runs through are sums themselves, and the order of the
\* elements is no matter.
LEMMA SumsFrom ==
    ASSUME NEW T, NEW by, NEW g, SumsUp(g, by, T)
    PROVE  /\ g[{}] = 0
           /\ \A s \in SUBSET T : s # {} => \E x \in s : g[s] = by[x] + g[s \ {x}]
<1> DEFINE pick(r) == CHOOSE x \in r : TRUE
<1>1. \A r \in SUBSET T : g[r] = IF r = {} THEN 0 ELSE by[pick(r)] + g[r \ {pick(r)}]
  BY Zenon DEF SumsUp
<1>2. \A r \in SUBSET T : r # {} => pick(r) \in r
  OBVIOUS
<1> HIDE DEF pick
<1> QED BY <1>1, <1>2

LEMMA SumsType ==
    ASSUME NEW T, IsFiniteSet(T), NEW by, \A x \in T : by[x] \in Int, NEW g, SumsUp(g, by, T)
    PROVE  \A s \in SUBSET T : g[s] \in Int
<1> DEFINE N == {n \in Nat : \A r \in SUBSET T : Cardinality(r) = n => g[r] \in Int}
<1>1. \A r \in SUBSET T : Cardinality(r) \in Nat /\ (Cardinality(r) = 0 <=> r = {})
  BY Part
<1>2. 0 \in N
  <2>1. g[{}] = 0
    BY SumsFrom
  <2> QED BY <1>1, <2>1
<1>3. ASSUME NEW n \in Nat, n \in N PROVE n + 1 \in N
  <2>1. ASSUME NEW r \in SUBSET T, Cardinality(r) = n + 1 PROVE g[r] \in Int
    <3>1. r # {}
      BY <1>1, <2>1
    <3>2. PICK x \in r : g[r] = by[x] + g[r \ {x}]
      BY <3>1, SumsFrom
    <3>3. r \ {x} \in SUBSET T /\ Cardinality(r \ {x}) = n
      BY <2>1, OneLess
    <3>4. g[r \ {x}] \in Int
      BY <1>3, <3>3
    <3> HIDE DEF N
    <3> QED BY <3>2, <3>4
  <2> QED BY <2>1
<1>4. \A n \in Nat : n \in N
  <2> HIDE DEF N
  <2> QED BY <1>2, <1>3, Induction
<1> QED BY <1>1, <1>4

LEMMA SumsTake ==
    ASSUME NEW T, IsFiniteSet(T), NEW by, \A x \in T : by[x] \in Int, NEW g, SumsUp(g, by, T)
    PROVE  \A s \in SUBSET T : \A t \in s : g[s] = by[t] + g[s \ {t}]
<1> DEFINE Any(r) == \A t \in r : g[r] = by[t] + g[r \ {t}]
           N == {n \in Nat : \A r \in SUBSET T : Cardinality(r) = n => Any(r)}
<1>1. \A r \in SUBSET T : Cardinality(r) \in Nat /\ (Cardinality(r) = 0 <=> r = {})
  BY Part
<1>2. 0 \in N
  BY <1>1
<1>3. ASSUME NEW n \in Nat, n \in N PROVE n + 1 \in N
  <2>1. ASSUME NEW r \in SUBSET T, Cardinality(r) = n + 1 PROVE Any(r)
    <3> SUFFICES ASSUME NEW u \in r PROVE g[r] = by[u] + g[r \ {u}]
      OBVIOUS
    <3>1. PICK x \in r : g[r] = by[x] + g[r \ {x}]
      BY SumsFrom
    <3>2. CASE u # x
      <4> DEFINE rest == (r \ {x}) \ {u}
      <4>1. /\ rest = (r \ {u}) \ {x} /\ u \in r \ {x} /\ x \in r \ {u} /\ rest \in SUBSET T
        BY <3>2
      <4>2. /\ r \ {x} \in SUBSET T /\ Cardinality(r \ {x}) = n
            /\ r \ {u} \in SUBSET T /\ Cardinality(r \ {u}) = n
        BY <2>1, OneLess
      <4>3. Any(r \ {x}) /\ Any(r \ {u})
        BY <1>3, <4>2
      <4>4. g[r \ {x}] = by[u] + g[rest] /\ g[r \ {u}] = by[x] + g[rest]
        BY <4>1, <4>3
      <4>5. by[u] \in Int /\ by[x] \in Int /\ g[rest] \in Int
        BY <4>1, SumsType
      <4> HIDE DEF rest, N, Any
      <4> QED BY <3>1, <4>4, <4>5
    <3> QED BY <3>1, <3>2
  <2> HIDE DEF Any
  <2> QED BY <2>1
<1>4. \A n \in Nat : n \in N
  <2> HIDE DEF N
  <2> QED BY <1>2, <1>3, Induction
<1> QED BY <1>1, <1>4

\* Two folds of functions that agree on a set agree on its sum.
LEMMA SumsAgree ==
    ASSUME NEW T, IsFiniteSet(T), NEW by, \A x \in T : by[x] \in Int, NEW g, SumsUp(g, by, T),
           NEW U, IsFiniteSet(U), NEW at, \A x \in U : at[x] \in Int, NEW h, SumsUp(h, at, U),
           NEW S, S \subseteq T, S \subseteq U, \A x \in S : by[x] = at[x]
    PROVE  g[S] = h[S]
<1> DEFINE F == {s \in SUBSET S : g[s] = h[s]}
<1>1. IsFiniteSet(S)
  BY FS_Subset
<1>2. {} \in F
  BY Zenon DEF SumsUp
<1>3. ASSUME NEW s \in SUBSET S, NEW x \in S \ s, s \in F PROVE s \cup {x} \in F
  <2>1. PICK more : more = s \cup {x}
    OBVIOUS
  <2>2. more \in SUBSET T /\ more \in SUBSET U /\ x \in more /\ more \ {x} = s
    BY <2>1
  <2>3. g[more] = by[x] + g[more \ {x}]
    BY <2>2, SumsTake
  <2>4. h[more] = at[x] + h[more \ {x}]
    BY <2>2, SumsTake
  <2> QED BY <1>3, <2>1, <2>2, <2>3, <2>4
<1> HIDE DEF F
<1>4. S \in F
  BY <1>1, <1>2, <1>3, SetInduction
<1> QED BY <1>4 DEF F

-----------------------------------------------------------------------------
\* What is known of a sum from here on.
LEMMA SumEmpty == ASSUME NEW by PROVE SumOver(by, {}) = 0
<1>1. IsFiniteSet({})
  BY FS_EmptySet
<1>2. PICK g : SumsUp(g, by, {}) /\ SumOver(by, {}) = g[{}]
  BY <1>1, SumIs
<1> QED BY <1>2, Zenon DEF SumsUp

LEMMA SumType ==
    ASSUME NEW T, IsFiniteSet(T), NEW by, \A x \in T : by[x] \in Int
    PROVE  SumOver(by, T) \in Int
  BY SumIs, SumsType

LEMMA SumSame ==
    ASSUME NEW T, IsFiniteSet(T), NEW by, NEW at,
           \A x \in T : by[x] \in Int /\ by[x] = at[x]
    PROVE  SumOver(by, T) = SumOver(at, T)
<1>1. PICK g : SumsUp(g, by, T) /\ SumOver(by, T) = g[T]
  BY SumIs
<1>2. PICK h : SumsUp(h, at, T) /\ SumOver(at, T) = h[T]
  BY SumIs
<1> QED BY <1>1, <1>2, SumsAgree

LEMMA SumTake ==
    ASSUME NEW T, IsFiniteSet(T), NEW by, \A x \in T : by[x] \in Int, NEW t \in T
    PROVE  SumOver(by, T) = by[t] + SumOver(by, T \ {t})
<1>1. IsFiniteSet(T \ {t})
  BY FS_RemoveElement
<1>2. PICK g : SumsUp(g, by, T) /\ SumOver(by, T) = g[T]
  BY SumIs
<1>3. PICK h : SumsUp(h, by, T \ {t}) /\ SumOver(by, T \ {t}) = h[T \ {t}]
  BY <1>1, SumIs
<1>4. g[T \ {t}] = h[T \ {t}]
  BY <1>1, <1>2, <1>3, SumsAgree
<1>5. g[T] = by[t] + g[T \ {t}]
  BY <1>2, SumsTake
<1> QED BY <1>2, <1>3, <1>4, <1>5

LEMMA SumAdd ==
    ASSUME NEW T, IsFiniteSet(T), NEW t, t \notin T, NEW by, \A x \in T \cup {t} : by[x] \in Int
    PROVE  SumOver(by, T \cup {t}) = by[t] + SumOver(by, T)
<1>1. IsFiniteSet(T \cup {t}) /\ t \in T \cup {t} /\ (T \cup {t}) \ {t} = T
  BY FS_AddElement
<1>2. SumOver(by, T \cup {t}) = by[t] + SumOver(by, (T \cup {t}) \ {t})
  BY <1>1, SumTake
<1> QED BY <1>1, <1>2

\* One value changes, and the sum by as much.
LEMMA SumChanges ==
    ASSUME NEW T, IsFiniteSet(T), NEW t \in T, NEW by, NEW at,
           \A x \in T : by[x] \in Int /\ at[x] \in Int,
           \A x \in T : x # t => at[x] = by[x]
    PROVE  SumOver(at, T) = SumOver(by, T) + at[t] - by[t]
<1>1. IsFiniteSet(T \ {t})
  BY FS_RemoveElement
<1>2. SumOver(at, T \ {t}) = SumOver(by, T \ {t}) /\ SumOver(by, T \ {t}) \in Int
  BY <1>1, SumSame, SumType
<1>3. SumOver(at, T) = at[t] + SumOver(at, T \ {t}) /\ SumOver(by, T) = by[t] + SumOver(by, T \ {t})
  BY SumTake
<1> QED BY <1>2, <1>3

\* A sum of naturals is a natural, and at least the sum over any part.
LEMMA SumNat ==
    ASSUME NEW T, IsFiniteSet(T), NEW by, \A x \in T : by[x] \in Nat
    PROVE  SumOver(by, T) \in Nat
<1> DEFINE F == {s \in SUBSET T : SumOver(by, s) \in Nat}
<1>1. {} \in F
  BY SumEmpty
<1>2. ASSUME NEW s \in SUBSET T, NEW x \in T \ s, s \in F PROVE s \cup {x} \in F
  <2>1. IsFiniteSet(s) /\ \A y \in s \cup {x} : by[y] \in Int
    BY FS_Subset
  <2>2. SumOver(by, s \cup {x}) = by[x] + SumOver(by, s)
    BY <2>1, SumAdd
  <2> QED BY <1>2, <2>2
<1> HIDE DEF F
<1>3. T \in F
  BY <1>1, <1>2, SetInduction
<1> QED BY <1>3 DEF F

LEMMA SumAtLeast ==
    ASSUME NEW T, IsFiniteSet(T), NEW by, \A x \in T : by[x] \in Nat
    PROVE  /\ \A t \in T : SumOver(by, T) >= by[t]
           /\ \A t, u \in T : t # u => SumOver(by, T) >= by[t] + by[u]
<1>1. ASSUME NEW t \in T
      PROVE  /\ SumOver(by, T \ {t}) \in Nat /\ by[t] \in Nat
             /\ SumOver(by, T) = by[t] + SumOver(by, T \ {t})
  <2>1. IsFiniteSet(T \ {t}) /\ \A x \in T : by[x] \in Int
    BY FS_RemoveElement
  <2>2. SumOver(by, T \ {t}) \in Nat
    BY <2>1, SumNat
  <2> QED BY <2>1, <2>2, SumTake
<1>2. ASSUME NEW t \in T, NEW u \in T, t # u
      PROVE  SumOver(by, T \ {t}) >= by[u]
  <2>1. /\ IsFiniteSet(T \ {t}) /\ IsFiniteSet((T \ {t}) \ {u}) /\ u \in T \ {t}
    BY <1>2, FS_RemoveElement
  <2>2. SumOver(by, T \ {t}) = by[u] + SumOver(by, (T \ {t}) \ {u})
    BY <2>1, SumTake
  <2>3. SumOver(by, (T \ {t}) \ {u}) \in Nat
    BY <2>1, SumNat
  <2> QED BY <2>2, <2>3
<1>3. ASSUME NEW t \in T PROVE SumOver(by, T) >= by[t]
  <2>1. /\ SumOver(by, T \ {t}) \in Nat /\ by[t] \in Nat
        /\ SumOver(by, T) = by[t] + SumOver(by, T \ {t})
    BY <1>1
  <2> QED BY <2>1
<1>4. ASSUME NEW t \in T, NEW u \in T, t # u PROVE SumOver(by, T) >= by[t] + by[u]
  <2>1. /\ SumOver(by, T \ {t}) >= by[u] /\ SumOver(by, T \ {t}) \in Nat
        /\ by[t] \in Nat /\ by[u] \in Nat /\ SumOver(by, T) = by[t] + SumOver(by, T \ {t})
    BY <1>1, <1>2, <1>4
  <2> QED BY <2>1
<1> QED BY <1>3, <1>4

\* Part of a sum is no more than the sum.
LEMMA SumPart ==
    ASSUME NEW T, IsFiniteSet(T), NEW by, \A x \in T : by[x] \in Nat, NEW S \in SUBSET T
    PROVE  SumOver(by, S) \in Nat /\ SumOver(by, S) <= SumOver(by, T)
<1> DEFINE F == {r \in SUBSET T : SumOver(by, S) <= SumOver(by, S \cup r)}
<1>1. \A r \in SUBSET T : IsFiniteSet(S \cup r) /\ SumOver(by, S \cup r) \in Nat
  <2> SUFFICES ASSUME NEW r \in SUBSET T
               PROVE  IsFiniteSet(S \cup r) /\ SumOver(by, S \cup r) \in Nat
    OBVIOUS
  <2>1. IsFiniteSet(S \cup r) /\ \A x \in S \cup r : by[x] \in Nat
    BY FS_Subset
  <2> QED BY <2>1, SumNat
<1>2. SumOver(by, S) \in Nat
  <2>1. {} \in SUBSET T /\ S \cup {} = S
    OBVIOUS
  <2> QED BY <1>1, <2>1
<1>3. {} \in F
  <2>1. S \cup {} = S
    OBVIOUS
  <2> QED BY <1>2, <2>1
<1>4. ASSUME NEW r \in SUBSET T, NEW x \in T \ r, r \in F PROVE r \cup {x} \in F
  <2>1. CASE x \in S
    <3>1. S \cup (r \cup {x}) = S \cup r
      BY <2>1
    <3> QED BY <1>4, <3>1
  <2>2. CASE x \notin S
    <3>1. S \cup (r \cup {x}) = (S \cup r) \cup {x} /\ x \notin S \cup r
      BY <2>2
    <3>2. /\ IsFiniteSet(S \cup r) /\ SumOver(by, S \cup r) \in Nat
          /\ \A y \in (S \cup r) \cup {x} : by[y] \in Int
      BY <1>1
    <3>3. SumOver(by, (S \cup r) \cup {x}) = by[x] + SumOver(by, S \cup r)
      BY <3>1, <3>2, SumAdd
    <3>4. SumOver(by, S) <= SumOver(by, S \cup r) /\ by[x] \in Nat
      BY <1>4
    <3>5. SumOver(by, S) <= by[x] + SumOver(by, S \cup r)
      BY <1>2, <3>2, <3>4
    <3> QED BY <3>1, <3>3, <3>5
  <2> QED BY <2>1, <2>2
<1> HIDE DEF F
<1>5. T \in F
  BY <1>3, <1>4, SetInduction
<1>6. S \cup T = T
  OBVIOUS
<1> QED BY <1>2, <1>5, <1>6 DEF F

\* What is put after the n-th comes on top of a sum over what was before it.
Beside(by, S, n, at, k) ==
  /\ n \in Nat /\ k \in Nat /\ IsFiniteSet(S) /\ S \subseteq 1 .. n
  /\ \A x \in S : by[x] \in Nat
  /\ \A j \in 1 .. k : at[j] \in Nat /\ by[n + j] = at[j]
LEMMA SumBeside ==
    ASSUME NEW n, NEW k, NEW S, NEW by, NEW at, Beside(by, S, n, at, k)
    PROVE  SumOver(by, S \cup ((n + 1) .. (n + k))) = SumOver(by, S) + SumOver(at, 1 .. k)
<1>h. /\ n \in Nat /\ k \in Nat /\ IsFiniteSet(S) /\ S \subseteq 1 .. n
      /\ \A x \in S : by[x] \in Nat
      /\ \A j \in 1 .. k : at[j] \in Nat /\ by[n + j] = at[j]
  BY DEF Beside
<1> USE <1>h
<1> DEFINE Adds(m) == /\ IsFiniteSet(1 .. m) /\ IsFiniteSet(S \cup ((n + 1) .. (n + m)))
                        /\ SumOver(at, 1 .. m) \in Nat
                        /\ SumOver(by, S \cup ((n + 1) .. (n + m)))
                             = SumOver(by, S) + SumOver(at, 1 .. m)
           Good == {m \in Nat : m <= k => Adds(m)}
<1>0. SumOver(by, S) \in Nat
  BY SumNat
<1>1. 0 \in Good
  <2>1. 1 .. 0 = {} /\ S \cup ((n + 1) .. (n + 0)) = S
    OBVIOUS
  <2>2. SumOver(at, {}) = 0 /\ IsFiniteSet({})
    BY SumEmpty, FS_EmptySet
  <2>3. Adds(0)
    BY <1>0, <2>1, <2>2
  <2> QED BY <2>3
<1>2. ASSUME NEW m \in Nat, m \in Good PROVE m + 1 \in Good
  <2> SUFFICES ASSUME m + 1 <= k PROVE Adds(m + 1)
    OBVIOUS
  <2> DEFINE A == 1 .. m
             B == S \cup ((n + 1) .. (n + m))
  <2>1. Adds(m)
    BY <1>2
  <2>2. /\ 1 .. (m + 1) = A \cup {m + 1} /\ m + 1 \notin A
        /\ S \cup ((n + 1) .. (n + (m + 1))) = B \cup {n + (m + 1)} /\ n + (m + 1) \notin B
    OBVIOUS
  <2>3. /\ at[m + 1] \in Nat /\ by[n + (m + 1)] = at[m + 1]
        /\ \A x \in A \cup {m + 1} : at[x] \in Int
    OBVIOUS
  <2>4. \A x \in B \cup {n + (m + 1)} : by[x] \in Int
    <3> SUFFICES ASSUME NEW x \in B \cup {n + (m + 1)}, x \notin S PROVE by[x] \in Int
      OBVIOUS
    <3>1. x - n \in 1 .. k /\ n + (x - n) = x
      OBVIOUS
    <3>2. by[n + (x - n)] \in Nat
      BY <3>1
    <3> QED BY <3>1, <3>2
  <2>5. IsFiniteSet(A) /\ IsFiniteSet(B)
    BY <2>1
  <2> HIDE DEF A, B
  <2>6. IsFiniteSet(A \cup {m + 1}) /\ IsFiniteSet(B \cup {n + (m + 1)})
    <3> DEFINE x == m + 1
               y == n + (m + 1)
    <3> HIDE DEF x, y
    <3>1. IsFiniteSet(A \cup {x}) /\ IsFiniteSet(B \cup {y})
      BY <2>5, FS_AddElement
    <3> QED BY <3>1 DEF x, y
  <2>7. SumOver(at, A \cup {m + 1}) = at[m + 1] + SumOver(at, A)
    BY <2>2, <2>3, <2>5, SumAdd
  <2>8. SumOver(by, B \cup {n + (m + 1)}) = by[n + (m + 1)] + SumOver(by, B)
    BY <2>2, <2>4, <2>5, SumAdd
  <2>9. SumOver(at, A) \in Nat /\ SumOver(by, B) = SumOver(by, S) + SumOver(at, A)
    BY <2>1 DEF A, B
  <2>10. /\ SumOver(at, A \cup {m + 1}) \in Nat
         /\ SumOver(by, B \cup {n + (m + 1)}) = SumOver(by, S) + SumOver(at, A \cup {m + 1})
    BY <1>0, <2>3, <2>7, <2>8, <2>9
  <2> QED BY <2>2, <2>6, <2>10
<1> HIDE DEF Good
<1>3. \A m \in Nat : m \in Good
  BY <1>1, <1>2, Induction
<1>4. k \in Good /\ k <= k
  BY <1>3
<1> QED BY <1>4 DEF Good
=============================================================================
