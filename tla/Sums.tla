-------------------------------- MODULE Sums --------------------------------
(* Sums over finite sets: SumFunctionOnSet of the community modules is a      *)
(* recursive function on the subsets of its set.  What adds up one member at  *)
(* a time is that sum (SumIs), by taking a least set on which they would      *)
(* differ; everything else follows from adding one member.                    *)
EXTENDS Integers, FiniteSets, Functions, FiniteSetTheorems, TLAPS

LEMMA LeastSet ==
  ASSUME NEW S, IsFiniteSet(S), NEW B \in SUBSET (SUBSET S), B # {}
  PROVE  \E T \in B : \A U \in SUBSET T : U # T => U \notin B
<1>1. IsWellFoundedOn(StrictSubsetOrdering(S), SUBSET S)
  BY FS_StrictSubsetOrderingWellFounded, FS_FiniteSubsetsOfFinite
<1>2. PICK T \in B : \A U \in B : <<U, T>> \notin StrictSubsetOrdering(S)
  BY <1>1, WFMin
<1>3. \A U \in SUBSET T : U # T => U \notin B
  BY <1>2 DEF StrictSubsetOrdering
<1>. QED
  BY <1>3

LEMMA BySets ==
  ASSUME NEW S, IsFiniteSet(S), NEW Good \in SUBSET (SUBSET S), {} \in Good,
         \A T \in Good, x \in S : x \notin T => T \cup {x} \in Good
  PROVE  S \in Good
<1>. SUFFICES ASSUME S \notin Good PROVE FALSE
  OBVIOUS
<1>. DEFINE B == {T \in SUBSET S : T \notin Good}
<1>0. B \in SUBSET (SUBSET S) /\ B # {}
  OBVIOUS
<1>1. PICK T \in B : \A U \in SUBSET T : U # T => U \notin B
  <2>. HIDE DEF B
  <2>. QED
    BY <1>0, LeastSet
<1>a. T \in SUBSET S /\ T # {} /\ T \notin Good
  OBVIOUS
<1>2. PICK x : x \in T
  BY <1>a
<1>b. T \ {x} \in SUBSET T /\ T \ {x} # T
  BY <1>2
<1>3. T \ {x} \in Good
  BY <1>1, <1>a, <1>b
<1>4. T = (T \ {x}) \cup {x} /\ x \in S /\ x \notin T \ {x}
  BY <1>2, <1>a
<1>. QED
  BY <1>3, <1>4, <1>a

\* h adds one member at a time.
AddsUp(h, f, S) ==
  /\ h \in [SUBSET S -> Int] /\ h[{}] = 0
  /\ \A T \in SUBSET S : \A x \in S \ T : h[T \cup {x}] = h[T] + f[x]

LEMMA SomethingAddsUp ==
  ASSUME NEW S, IsFiniteSet(S), NEW f, \A x \in S : f[x] \in Int
  PROVE  \E h : AddsUp(h, f, S)
<1>. DEFINE Good == {T \in SUBSET S : \E h : AddsUp(h, f, T)}
<1>1. {} \in Good
  <2>. DEFINE h == [T \in SUBSET {} |-> 0]
  <2>1. AddsUp(h, f, {})
    BY DEF AddsUp
  <2>. QED
    BY <2>1
<1>2. ASSUME NEW T \in Good, NEW x \in S, x \notin T PROVE T \cup {x} \in Good
  <2>1. PICK h : AddsUp(h, f, T)
    OBVIOUS
  <2>. DEFINE S2 == T \cup {x}
              k == [U \in SUBSET S2 |-> IF x \in U THEN h[U \ {x}] + f[x] ELSE h[U]]
  <2>2. k \in [SUBSET S2 -> Int]
    BY <2>1 DEF AddsUp
  <2>3. k[{}] = 0
    BY <2>1 DEF AddsUp
  <2>4. ASSUME NEW U \in SUBSET S2, NEW y \in S2 \ U PROVE k[U \cup {y}] = k[U] + f[y]
    <3>1. CASE y = x
      <4>1. U \in SUBSET T /\ (U \cup {y}) \ {x} = U
        BY <1>2, <3>1
      <4>. QED
        BY <1>2, <3>1, <4>1
    <3>2. CASE y # x /\ x \in U
      <4>1. (U \cup {y}) \ {x} = (U \ {x}) \cup {y} /\ U \ {x} \in SUBSET T /\ y \in T \ (U \ {x})
        BY <3>2
      <4>2. h[(U \ {x}) \cup {y}] = h[U \ {x}] + f[y]
        BY <2>1, <4>1 DEF AddsUp
      <4>3. h[U \ {x}] \in Int /\ f[x] \in Int /\ f[y] \in Int
        BY <2>1, <4>1, <1>2 DEF AddsUp
      <4>. QED
        BY <3>2, <4>1, <4>2, <4>3
    <3>3. CASE y # x /\ x \notin U
      <4>1. U \in SUBSET T /\ y \in T \ U /\ x \notin U \cup {y}
        BY <3>3
      <4>2. h[U \cup {y}] = h[U] + f[y]
        BY <2>1, <4>1 DEF AddsUp
      <4>. QED
        BY <3>3, <4>1, <4>2
    <3>. QED
      BY <3>1, <3>2, <3>3
  <2>5. AddsUp(k, f, S2)
    BY <2>2, <2>3, <2>4 DEF AddsUp
  <2>. QED
    BY <2>5, <1>2
<1>3. S \in Good
  <2>. HIDE DEF Good
  <2>1. Good \in SUBSET (SUBSET S)
    BY DEF Good
  <2>. QED
    BY <1>1, <1>2, <2>1, BySets
<1>. QED
  BY <1>3

\* What adds up over the subsets is the sum over each of them.
LEMMA SumIs ==
  ASSUME NEW S, IsFiniteSet(S), NEW f, \A x \in S : f[x] \in Int,
         NEW h, AddsUp(h, f, S), NEW T \in SUBSET S
  PROVE  SumFunctionOnSet(f, T) = h[T]
<1>. DEFINE one(s) == CHOOSE x \in s : TRUE
            body(g) == [s \in SUBSET T |-> IF s = {} THEN 0 ELSE f[one(s)] + g[s \ {one(s)}]]
            sum == CHOOSE g : g = body(g)
            r == [s \in SUBSET T |-> h[s]]
<1>1. SumFunctionOnSet(f, T) = sum[T]
  BY DEF SumFunctionOnSet, FoldFunctionOnSet, MapThenFoldSet
<1>0. \A s : s # {} => one(s) \in s
  OBVIOUS
<1>. HIDE DEF one
<1>2. ASSUME NEW s \in SUBSET T, s # {}
      PROVE /\ s \ {one(s)} \in SUBSET T
            /\ h[s] = f[one(s)] + h[s \ {one(s)}]
  <2>1. one(s) \in s
    BY <1>0, <1>2
  <2>. DEFINE x == one(s)
              u == s \ {x}
  <2>2. u \in SUBSET S /\ u \in SUBSET T /\ x \in S \ u /\ s = u \cup {x}
    BY <2>1
  <2>. HIDE DEF u, x
  <2>3. h[u \cup {x}] = h[u] + f[x] /\ h[u] \in Int /\ f[x] \in Int
    BY <2>2 DEF AddsUp
  <2>4. h[s] = f[x] + h[u] /\ u \in SUBSET T
    BY <2>2, <2>3
  <2>. QED
    BY <2>4 DEF u, x
<1>3. r = body(r)
  <2>1. ASSUME NEW s \in SUBSET T PROVE r[s] = body(r)[s]
    <3>1. CASE s = {}
      BY <3>1 DEF AddsUp
    <3>2. CASE s # {}
      BY <3>2, <1>2
    <3>. QED
      BY <3>1, <3>2
  <2>. QED
    BY <2>1
<1>4. sum = body(sum)
  <2>. HIDE DEF r
  <2>. QED
    BY <1>3
<1>5. \A s \in SUBSET T : sum[s] = IF s = {} THEN 0 ELSE f[one(s)] + sum[s \ {one(s)}]
  <2>. HIDE DEF sum
  <2>. QED
    BY <1>4
<1>. HIDE DEF sum, body
<1>. DEFINE B == {s \in SUBSET T : sum[s] # h[s]}
<1>6. B = {}
  <2>. SUFFICES ASSUME B # {} PROVE FALSE
    OBVIOUS
  <2>0. IsFiniteSet(T) /\ B \in SUBSET (SUBSET T)
    BY FS_Subset
  <2>1. PICK s \in B : \A U \in SUBSET s : U # s => U \notin B
    <3>. HIDE DEF B
    <3>. QED
      BY <2>0, LeastSet
  <2>2. s \in SUBSET T /\ sum[s] # h[s]
    OBVIOUS
  <2>3. s # {}
    BY <2>2, <1>5 DEF AddsUp
  <2>4. one(s) \in s /\ s \ {one(s)} \in SUBSET T /\ h[s] = f[one(s)] + h[s \ {one(s)}]
    BY <2>2, <2>3, <1>0, <1>2
  <2>5. s \ {one(s)} # s /\ s \ {one(s)} \in SUBSET s
    BY <2>4
  <2>6. sum[s \ {one(s)}] = h[s \ {one(s)}]
    BY <2>1, <2>4, <2>5
  <2>7. sum[s] = f[one(s)] + sum[s \ {one(s)}]
    BY <1>5, <2>2, <2>3
  <2>. QED
    BY <2>2, <2>4, <2>6, <2>7
<1>. QED
  BY <1>1, <1>6

LEMMA SumEmpty ==
  ASSUME NEW f
  PROVE  SumFunctionOnSet(f, {}) = 0
<1>1. IsFiniteSet({})
  BY FS_EmptySet
<1>2. PICK h : AddsUp(h, f, {})
  BY <1>1, SomethingAddsUp
<1>3. {} \in SUBSET {} /\ \A x \in {} : f[x] \in Int
  OBVIOUS
<1>4. SumFunctionOnSet(f, {}) = h[{}]
  BY <1>1, <1>2, <1>3, SumIs
<1>. QED
  BY <1>2, <1>4 DEF AddsUp

LEMMA SumAdd ==
  ASSUME NEW T, IsFiniteSet(T), NEW f, \A y \in T : f[y] \in Int,
         NEW x, x \notin T, f[x] \in Int
  PROVE  /\ SumFunctionOnSet(f, T) \in Int
         /\ SumFunctionOnSet(f, T \cup {x}) = SumFunctionOnSet(f, T) + f[x]
<1>. DEFINE S == T \cup {x}
<1>1. IsFiniteSet(S)
  BY FS_AddElement
<1>2. \A y \in S : f[y] \in Int
  OBVIOUS
<1>3. T \in SUBSET S /\ x \in S \ T /\ S \in SUBSET S
  OBVIOUS
<1>. HIDE DEF S
<1>4. PICK h : AddsUp(h, f, S)
  BY <1>1, <1>2, SomethingAddsUp
<1>5. SumFunctionOnSet(f, T) = h[T] /\ SumFunctionOnSet(f, S) = h[S]
  BY <1>1, <1>2, <1>3, <1>4, SumIs
<1>6. h[T] \in Int /\ h[T \cup {x}] = h[T] + f[x]
  BY <1>3, <1>4 DEF AddsUp
<1>. QED
  BY <1>5, <1>6 DEF S

LEMMA SumType ==
  ASSUME NEW T, IsFiniteSet(T), NEW f, \A y \in T : f[y] \in Int
  PROVE  SumFunctionOnSet(f, T) \in Int
<1>1. PICK h : AddsUp(h, f, T)
  BY SomethingAddsUp
<1>2. T \in SUBSET T
  OBVIOUS
<1>3. SumFunctionOnSet(f, T) = h[T]
  BY <1>1, <1>2, SumIs
<1>. QED
  BY <1>1, <1>2, <1>3 DEF AddsUp

LEMMA SumRemove ==
  ASSUME NEW T, IsFiniteSet(T), NEW f, \A y \in T : f[y] \in Int, NEW x \in T
  PROVE  /\ SumFunctionOnSet(f, T \ {x}) \in Int
         /\ SumFunctionOnSet(f, T) = SumFunctionOnSet(f, T \ {x}) + f[x]
<1>. DEFINE U == T \ {x}
<1>1. IsFiniteSet(U) /\ x \notin U /\ U \cup {x} = T /\ \A y \in U : f[y] \in Int
  BY FS_RemoveElement
<1>. HIDE DEF U
<1>2. SumFunctionOnSet(f, U) \in Int /\ SumFunctionOnSet(f, U \cup {x}) = SumFunctionOnSet(f, U) + f[x]
  BY <1>1, SumAdd
<1>. QED
  BY <1>1, <1>2 DEF U

\* Sums of a sum.
LEMMA SumStep ==
  ASSUME NEW T, IsFiniteSet(T), NEW f, \A y \in T : f[y] \in Int,
         NEW U \in SUBSET T, NEW x \in T, x \notin U
  PROVE  /\ SumFunctionOnSet(f, U) \in Int
         /\ SumFunctionOnSet(f, U \cup {x}) = SumFunctionOnSet(f, U) + f[x]
<1>1. IsFiniteSet(U) /\ \A y \in U : f[y] \in Int
  BY FS_Subset
<1>. QED
  BY <1>1, SumAdd

LEMMA SumPlus ==
  ASSUME NEW T, IsFiniteSet(T), NEW f, NEW g, NEW k,
         \A x \in T : f[x] \in Int /\ g[x] \in Int /\ k[x] = f[x] + g[x]
  PROVE  SumFunctionOnSet(k, T) = SumFunctionOnSet(f, T) + SumFunctionOnSet(g, T)
<1>. DEFINE Good == {U \in SUBSET T : SumFunctionOnSet(k, U) = SumFunctionOnSet(f, U) + SumFunctionOnSet(g, U)}
<1>1. {} \in Good
  BY SumEmpty
<1>2. ASSUME NEW U \in Good, NEW x \in T, x \notin U PROVE U \cup {x} \in Good
  <2>0. SumFunctionOnSet(k, U) = SumFunctionOnSet(f, U) + SumFunctionOnSet(g, U)
    OBVIOUS
  <2>1. U \in SUBSET T
    OBVIOUS
  <2>. HIDE DEF Good
  <2>2. ASSUME NEW w, \A y \in T : w[y] \in Int
        PROVE  /\ SumFunctionOnSet(w, U) \in Int
               /\ SumFunctionOnSet(w, U \cup {x}) = SumFunctionOnSet(w, U) + w[x]
    BY <1>2, <2>1, <2>2, SumStep
  <2>3. \A y \in T : k[y] \in Int /\ k[y] = f[y] + g[y]
    OBVIOUS
  <2>4. SumFunctionOnSet(f, U \cup {x}) = SumFunctionOnSet(f, U) + f[x]
        /\ SumFunctionOnSet(f, U) \in Int
    BY <2>2
  <2>5. SumFunctionOnSet(g, U \cup {x}) = SumFunctionOnSet(g, U) + g[x]
        /\ SumFunctionOnSet(g, U) \in Int
    BY <2>2
  <2>6. SumFunctionOnSet(k, U \cup {x}) = SumFunctionOnSet(k, U) + k[x]
    BY <2>2, <2>3
  <2>7. SumFunctionOnSet(k, U \cup {x})
          = SumFunctionOnSet(f, U \cup {x}) + SumFunctionOnSet(g, U \cup {x})
    BY <2>0, <2>3, <2>4, <2>5, <2>6
  <2>. QED
    BY <2>1, <2>7 DEF Good
<1>3. Good \in SUBSET (SUBSET T)
  OBVIOUS
<1>4. T \in Good
  <2>. HIDE DEF Good
  <2>. QED
    BY <1>1, <1>2, <1>3, BySets
<1>. QED
  BY <1>4

LEMMA SumZero ==
  ASSUME NEW T, IsFiniteSet(T), NEW f, \A x \in T : f[x] = 0
  PROVE  SumFunctionOnSet(f, T) = 0
<1>. DEFINE s == SumFunctionOnSet(f, T)
<1>1. s \in Int
  BY SumType
<1>2. s = s + s
  BY SumPlus
<1>. HIDE DEF s
<1>3. s = 0
  BY <1>1, <1>2
<1>. QED
  BY <1>3 DEF s

LEMMA SumSame ==
  ASSUME NEW T, IsFiniteSet(T), NEW f, NEW g, \A x \in T : f[x] \in Int /\ g[x] = f[x]
  PROVE  SumFunctionOnSet(g, T) = SumFunctionOnSet(f, T)
<1>. DEFINE z == [x \in T |-> 0]
<1>1. SumFunctionOnSet(z, T) = 0
  BY SumZero
<1>2. \A x \in T : f[x] \in Int /\ z[x] \in Int /\ g[x] = f[x] + z[x]
  OBVIOUS
<1>. HIDE DEF z
<1>3. SumFunctionOnSet(g, T) = SumFunctionOnSet(f, T) + SumFunctionOnSet(z, T)
  BY <1>2, SumPlus
<1>. QED
  BY <1>1, <1>3, SumType

\* One summand changes.
LEMMA SumChange ==
  ASSUME NEW T, IsFiniteSet(T), NEW f, NEW g, NEW y \in T,
         \A x \in T : f[x] \in Int /\ g[x] \in Int /\ (x # y => g[x] = f[x])
  PROVE  SumFunctionOnSet(g, T) = SumFunctionOnSet(f, T) + g[y] - f[y]
<1>. DEFINE U == T \ {y}
<1>1. IsFiniteSet(U) /\ \A x \in U : f[x] \in Int /\ g[x] = f[x]
  BY FS_RemoveElement
<1>. HIDE DEF U
<1>2. SumFunctionOnSet(g, U) = SumFunctionOnSet(f, U)
  BY <1>1, SumSame
<1>3. /\ SumFunctionOnSet(f, U) \in Int
      /\ SumFunctionOnSet(f, T) = SumFunctionOnSet(f, U) + f[y]
  BY SumRemove DEF U
<1>4. SumFunctionOnSet(g, T) = SumFunctionOnSet(g, U) + g[y]
  BY SumRemove DEF U
<1>. QED
  BY <1>2, <1>3, <1>4

LEMMA SumPoint ==
  ASSUME NEW T, IsFiniteSet(T), NEW f, NEW y \in T, f[y] \in Int, \A x \in T : x # y => f[x] = 0
  PROVE  SumFunctionOnSet(f, T) = f[y]
<1>. DEFINE z == [x \in T |-> 0]
<1>1. \A x \in T : z[x] = 0
  OBVIOUS
<1>2. \A x \in T : z[x] \in Int /\ f[x] \in Int /\ (x # y => f[x] = z[x])
  BY <1>1
<1>. HIDE DEF z
<1>3. SumFunctionOnSet(f, T) = SumFunctionOnSet(z, T) + f[y] - z[y]
  BY <1>2, SumChange
<1>4. SumFunctionOnSet(z, T) = 0
  BY <1>1, SumZero
<1>. QED
  BY <1>1, <1>3, <1>4

LEMMA SumNat ==
  ASSUME NEW T, IsFiniteSet(T), NEW f, \A x \in T : f[x] \in Nat
  PROVE  SumFunctionOnSet(f, T) \in Nat
<1>. DEFINE Good == {U \in SUBSET T : SumFunctionOnSet(f, U) \in Nat}
<1>1. {} \in Good
  BY SumEmpty
<1>2. ASSUME NEW U \in Good, NEW x \in T, x \notin U PROVE U \cup {x} \in Good
  <2>1. IsFiniteSet(U) /\ \A y \in U : f[y] \in Int
    BY FS_Subset
  <2>2. SumFunctionOnSet(f, U \cup {x}) = SumFunctionOnSet(f, U) + f[x]
    BY <1>2, <2>1, SumAdd
  <2>. QED
    BY <2>2
<1>3. Good \in SUBSET (SUBSET T)
  OBVIOUS
<1>4. T \in Good
  <2>. HIDE DEF Good
  <2>. QED
    BY <1>1, <1>2, <1>3, BySets
<1>. QED
  BY <1>4

\* A sum over other names of the same things.
LEMMA SumImage ==
  ASSUME NEW T, IsFiniteSet(T), NEW f, NEW g, NEW m,
         \A x \in T : f[x] \in Int /\ g[m[x]] = f[x],
         \A x, y \in T : m[x] = m[y] => x = y
  PROVE  SumFunctionOnSet(g, {m[x] : x \in T}) = SumFunctionOnSet(f, T)
<1>. DEFINE Good == {U \in SUBSET T :
       /\ IsFiniteSet({m[x] : x \in U})
       /\ SumFunctionOnSet(g, {m[x] : x \in U}) = SumFunctionOnSet(f, U)}
<1>1. {} \in Good
  <2>1. {m[x] : x \in {}} = {}
    OBVIOUS
  <2>. QED
    BY <2>1, SumEmpty, FS_EmptySet
<1>2. ASSUME NEW U \in Good, NEW x \in T, x \notin U PROVE U \cup {x} \in Good
  <2>. DEFINE V == {m[y] : y \in U}
  <2>1. IsFiniteSet(U) /\ \A y \in U : f[y] \in Int
    BY FS_Subset
  <2>2. IsFiniteSet(V) /\ SumFunctionOnSet(g, V) = SumFunctionOnSet(f, U)
    OBVIOUS
  <2>3. \A v \in V : g[v] \in Int
    BY <2>1
  <2>4. m[x] \notin V /\ g[m[x]] = f[x] /\ f[x] \in Int
    BY <1>2
  <2>5. {m[y] : y \in U \cup {x}} = V \cup {m[x]}
    OBVIOUS
  <2>6. SumFunctionOnSet(f, U \cup {x}) = SumFunctionOnSet(f, U) + f[x]
    BY <1>2, <2>1, <2>4, SumAdd
  <2>7. U \cup {x} \in SUBSET T
    OBVIOUS
  <2>. HIDE DEF V
  <2>8. SumFunctionOnSet(g, V \cup {m[x]}) = SumFunctionOnSet(g, V) + g[m[x]]
    BY <2>2, <2>3, <2>4, SumAdd
  <2>9. IsFiniteSet(V \cup {m[x]})
    BY <2>2, FS_AddElement
  <2>. QED
    BY <2>2, <2>4, <2>5, <2>6, <2>7, <2>8, <2>9
<1>3. Good \in SUBSET (SUBSET T)
  OBVIOUS
<1>4. T \in Good
  <2>. HIDE DEF Good
  <2>. QED
    BY <1>1, <1>2, <1>3, BySets
<1>. QED
  BY <1>4

\* A sum over a part, as one over everything.
LEMMA SumFilter ==
  ASSUME NEW T, IsFiniteSet(T), NEW f, \A x \in T : f[x] \in Int,
         NEW U \in SUBSET T, NEW g, \A x \in T : g[x] = IF x \in U THEN f[x] ELSE 0
  PROVE  SumFunctionOnSet(f, U) = SumFunctionOnSet(g, T)
<1>. DEFINE V == T \ U
            Good == {W \in SUBSET V : SumFunctionOnSet(g, U \cup W) = SumFunctionOnSet(f, U)}
<1>1. IsFiniteSet(U) /\ IsFiniteSet(V)
  BY FS_Subset, FS_Difference
<1>2. {} \in Good
  <2>1. \A x \in U : f[x] \in Int /\ g[x] = f[x]
    OBVIOUS
  <2>2. SumFunctionOnSet(g, U) = SumFunctionOnSet(f, U)
    BY <1>1, <2>1, SumSame
  <2>3. U \cup {} = U
    OBVIOUS
  <2>. QED
    BY <2>2, <2>3
<1>3. ASSUME NEW W \in Good, NEW x \in V, x \notin W PROVE W \cup {x} \in Good
  <2>1. SumFunctionOnSet(g, U \cup W) = SumFunctionOnSet(f, U)
    OBVIOUS
  <2>2. W \in SUBSET V /\ x \in T /\ x \notin U
    OBVIOUS
  <2>. HIDE DEF Good
  <2>. DEFINE X == U \cup W
  <2>3. X \in SUBSET T /\ x \notin X /\ U \cup (W \cup {x}) = X \cup {x}
    BY <1>3, <2>2
  <2>4. \A y \in T : g[y] \in Int
    OBVIOUS
  <2>5. g[x] = 0
    BY <2>2
  <2>6. SumFunctionOnSet(g, X) = SumFunctionOnSet(f, U)
    BY <2>1
  <2>. HIDE DEF X
  <2>7. /\ SumFunctionOnSet(g, X) \in Int
        /\ SumFunctionOnSet(g, X \cup {x}) = SumFunctionOnSet(g, X) + g[x]
    BY <2>2, <2>3, <2>4, SumStep
  <2>8. SumFunctionOnSet(g, X \cup {x}) = SumFunctionOnSet(f, U)
    BY <2>5, <2>6, <2>7
  <2>. QED
    BY <2>2, <2>3, <2>8 DEF Good
<1>4. V \in Good
  <2>1. Good \in SUBSET (SUBSET V)
    OBVIOUS
  <2>. HIDE DEF Good, V
  <2>. QED
    BY <1>1, <1>2, <1>3, <2>1, BySets
<1>5. U \cup V = T
  OBVIOUS
<1>. QED
  BY <1>4, <1>5
=============================================================================
