------------------------------ MODULE DataLemmas ------------------------------
(***************************************************************************)
(* Facts about the data that several components share: sequences from      *)
(* which an element is removed, and sums over finite sets.                 *)
(***************************************************************************)
EXTENDS Integers, SequencesExt, FiniteSetsExt, SequenceTheorems,
        FiniteSetTheorems, WellFoundedInduction, TLAPS

-----------------------------------------------------------------------------
(***************************************************************************)
(* RemoveAt of SequencesExt: both registries of the kernel module, the     *)
(* linked list and the scored one, shrink by it.                           *)
(***************************************************************************)
\* The sequence gets one shorter, and what stood behind p moves up.
LEMMA RemoveAtFacts ==
    ASSUME NEW S, NEW q \in Seq(S), NEW p \in 1 .. Len(q)
    PROVE  /\ RemoveAt(q, p) \in Seq(S)
           /\ Len(RemoveAt(q, p)) = Len(q) - 1
           /\ \A i \in 1 .. Len(q) - 1 :
                 RemoveAt(q, p)[i] = IF i < p THEN q[i] ELSE q[i + 1]
<1> DEFINE front == SubSeq(q, 1, p - 1)
           back == SubSeq(q, p + 1, Len(q))
<1>0. Len(q) \in Nat /\ \A i \in 1 .. Len(q) : q[i] \in S
  OBVIOUS
<1>1. /\ front \in Seq(S) /\ Len(front) = p - 1
      /\ \A i \in 1 .. p - 1 : front[i] = q[i]
  BY <1>0, SubSeqProperties
<1>2. /\ back \in Seq(S) /\ Len(back) = Len(q) - p
      /\ \A i \in 1 .. Len(q) - p : back[i] = q[p + i]
  <2>1. /\ back \in Seq(S)
        /\ Len(back) = IF p + 1 <= Len(q) THEN Len(q) - (p + 1) + 1 ELSE 0
        /\ \A i \in 1 .. Len(q) - (p + 1) + 1 : back[i] = q[p + 1 + i - 1]
    BY <1>0, SubSeqProperties
  <2>2. \A i \in Nat : p + 1 + i - 1 = p + i
    OBVIOUS
  <2> HIDE DEF back
  <2>3. \A i \in 1 .. Len(q) - p : back[i] = q[p + i]
    BY <1>0, <2>1, <2>2
  <2>4. Len(back) = Len(q) - p
    BY <1>0, <2>1
  <2> QED
    BY <2>1, <2>3, <2>4
<1> HIDE DEF front, back
<1>3. /\ front \o back \in Seq(S)
      /\ Len(front \o back) = Len(q) - 1
      /\ \A i \in 1 .. Len(q) - 1 :
            (front \o back)[i] = IF i <= Len(front) THEN front[i] ELSE back[i - Len(front)]
  <2>1. /\ front \o back \in Seq(S)
        /\ Len(front \o back) = Len(front) + Len(back)
        /\ \A i \in 1 .. Len(front) + Len(back) :
              (front \o back)[i] = IF i <= Len(front) THEN front[i] ELSE back[i - Len(front)]
    BY <1>1, <1>2, ConcatProperties
  <2>2. Len(front) + Len(back) = Len(q) - 1
    BY <1>0, <1>1, <1>2
  <2> QED
    BY <2>1, <2>2
<1>4. \A i \in 1 .. Len(q) - 1 : (front \o back)[i] = IF i < p THEN q[i] ELSE q[i + 1]
  <2> SUFFICES ASSUME NEW i \in 1 .. Len(q) - 1
               PROVE  (front \o back)[i] = IF i < p THEN q[i] ELSE q[i + 1]
    OBVIOUS
  <2>1. CASE i < p
    <3>1. i \in 1 .. p - 1 /\ i <= Len(front)
      BY <2>1, <1>1
    <3> QED
      BY <2>1, <3>1, <1>1, <1>3
  <2>2. CASE ~ (i < p)
    <3>1. i - (p - 1) \in 1 .. Len(q) - p /\ p + (i - (p - 1)) = i + 1
      BY <2>2, <1>0
    <3> QED
      BY <2>2, <3>1, <1>0, <1>1, <1>2, <1>3
  <2> QED
    BY <2>1, <2>2
<1> QED
  BY <1>3, <1>4 DEF RemoveAt, front, back

-----------------------------------------------------------------------------
(***************************************************************************)
(* Sums over finite sets, as _used_bytes of the simulator computes them.   *)
(* A fold is a recursive function on the subsets of a set.  What holds of  *)
(* it is shown by a least counterexample: the strict subsets of a finite   *)
(* set are well founded.                                                   *)
(***************************************************************************)
\* Among the subsets of a finite set for which something goes wrong, there is one
\* for whose strict subsets it does not.
LEMMA MinimalSubset ==
    ASSUME NEW S, IsFiniteSet(S), NEW Bad \in SUBSET SUBSET S, Bad # {}
    PROVE  \E T \in Bad : \A U \in SUBSET T : U # T => U \notin Bad
<1>1. IsWellFoundedOn(StrictSubsetOrdering(S), SUBSET S)
  BY FS_StrictSubsetOrderingWellFounded, FS_FiniteSubsetsOfFinite
<1>2. PICK T \in Bad : \A U \in Bad : ~ (<<U, T>> \in StrictSubsetOrdering(S))
  BY <1>1, WFMin
<1>3. ASSUME NEW U \in SUBSET T, U # T, U \in Bad PROVE FALSE
  <2>1. <<U, T>> \in (SUBSET S) \X (SUBSET S)
    BY <1>3
  <2>2. <<U, T>>[1] = U /\ <<U, T>>[2] = T
    OBVIOUS
  <2>3. <<U, T>> \in StrictSubsetOrdering(S)
    BY <1>3, <2>1, <2>2 DEF StrictSubsetOrdering
  <2> QED
    BY <1>2, <1>3, <2>3
<1> QED
  BY <1>3

\* Among the indices of a sequence for which something goes wrong there is a first.
LEMMA FirstIndex ==
    ASSUME NEW n \in Nat, NEW Bad \in SUBSET (1 .. n), Bad # {}
    PROVE  \E i \in Bad : \A j \in Bad : i <= j
<1> DEFINE Segments == {1 .. i : i \in Bad}
<1>1. IsFiniteSet(1 .. n) /\ Segments \in SUBSET SUBSET (1 .. n) /\ Segments # {}
  <2>1. \A i \in Bad : 1 .. i \in SUBSET (1 .. n)
    OBVIOUS
  <2>2. IsFiniteSet(1 .. n)
    BY FS_Interval
  <2>3. \A T \in Segments : T \in SUBSET (1 .. n)
    BY <2>1
  <2>4. Segments # {}
    OBVIOUS
  <2> HIDE DEF Segments
  <2> QED
    BY <2>2, <2>3, <2>4
<1>2. PICK T \in Segments : \A U \in SUBSET T : U # T => U \notin Segments
  <2> HIDE DEF Segments
  <2> QED BY <1>1, MinimalSubset
<1>3. PICK i \in Bad : T = 1 .. i
  BY <1>2
<1>4. ASSUME NEW j \in Bad, j < i PROVE FALSE
  <2>1. 1 .. j \in SUBSET T /\ i \in T /\ i \notin 1 .. j
    BY <1>3, <1>4
  <2>2. 1 .. j \in Segments
    OBVIOUS
  <2> QED
    BY <1>2, <2>1, <2>2
<1> QED
  BY <1>4

\* g holds the sum of f over each subset of S, computed as the fold does.
SumsOf(g, f, S) ==
    g = [s \in SUBSET S |->
           IF s = {} THEN 0
           ELSE f[CHOOSE x \in s : TRUE] + g[s \ {CHOOSE x \in s : TRUE}]]

\* The table of sums up to S and the one up to T agree on T.
LEMMA SumsUnique ==
    ASSUME NEW f, NEW S, NEW T \in SUBSET S, IsFiniteSet(T), NEW g, NEW h,
           SumsOf(g, f, S), SumsOf(h, f, T)
    PROVE  g[T] = h[T]
<1> DEFINE Bad == {s \in SUBSET T : g[s] # h[s]}
<1> SUFFICES Bad = {}
  OBVIOUS
<1> SUFFICES ASSUME Bad # {} PROVE FALSE
  OBVIOUS
<1>1. Bad \in SUBSET SUBSET T
  OBVIOUS
<1>2. PICK s \in Bad : \A U \in SUBSET s : U # s => U \notin Bad
  <2> HIDE DEF Bad
  <2> QED BY <1>1, MinimalSubset
<1>3. g[s] = IF s = {} THEN 0
             ELSE f[CHOOSE x \in s : TRUE] + g[s \ {CHOOSE x \in s : TRUE}]
  BY DEF SumsOf
<1>4. h[s] = IF s = {} THEN 0
             ELSE f[CHOOSE x \in s : TRUE] + h[s \ {CHOOSE x \in s : TRUE}]
  BY DEF SumsOf
<1>5. s # {} => g[s \ {CHOOSE x \in s : TRUE}] = h[s \ {CHOOSE x \in s : TRUE}]
  <2> SUFFICES ASSUME s # {} PROVE g[s \ {CHOOSE x \in s : TRUE}] = h[s \ {CHOOSE x \in s : TRUE}]
    OBVIOUS
  <2> DEFINE x == CHOOSE x \in s : TRUE
  <2>1. x \in s
    OBVIOUS
  <2> HIDE DEF x
  <2>2. s \ {x} \in SUBSET s /\ s \ {x} # s
    BY <2>1
  <2>3. s \ {x} \notin Bad
    BY <1>2, <2>2
  <2>4. g[s \ {x}] = h[s \ {x}]
    BY <2>3
  <2> QED
    BY <2>4 DEF x
<1> QED
  BY <1>3, <1>4, <1>5

\* The recursion has a solution on every finite set.
LEMMA SumsExist ==
    ASSUME NEW f, NEW S, IsFiniteSet(S)
    PROVE  \E g : SumsOf(g, f, S)
<1> DEFINE Bad == {T \in SUBSET S : ~ \E g : SumsOf(g, f, T)}
<1> SUFFICES ASSUME Bad # {} PROVE FALSE
  OBVIOUS
<1>1. PICK T \in Bad : \A U \in SUBSET T : U # T => U \notin Bad
  <2>1. Bad \in SUBSET SUBSET S
    OBVIOUS
  <2> HIDE DEF Bad
  <2> QED BY <2>1, MinimalSubset
<1> DEFINE tab(s) == CHOOSE g : SumsOf(g, f, s)
           pick(s) == CHOOSE x \in s : TRUE
           rest(s) == s \ {pick(s)}
           G == [s \in SUBSET T |->
                   IF s = {} THEN 0 ELSE f[pick(s)] + tab(rest(s))[rest(s)]]
<1>f. \A s \in SUBSET T : IsFiniteSet(s)
  BY FS_Subset
<1>2. ASSUME NEW s \in SUBSET T, s # {}
      PROVE  rest(s) \in SUBSET T /\ rest(s) # T /\ rest(s) \in SUBSET s /\ rest(s) # s
  <2>1. pick(s) \in s
    BY <1>2
  <2> HIDE DEF pick
  <2> QED
    BY <2>1
<1>3. ASSUME NEW s \in SUBSET T, s # T PROVE SumsOf(tab(s), f, s)
  <2>1. \E g : SumsOf(g, f, s)
    BY <1>1, <1>3
  <2> QED
    BY <2>1
<1>4. ASSUME NEW s \in SUBSET T, s # {} PROVE G[rest(s)] = tab(rest(s))[rest(s)]
  <2> DEFINE r == rest(s)
             t == tab(r)
  <2>0. r \in SUBSET T /\ r # T
    BY <1>2, <1>4
  <2>1. SumsOf(t, f, r)
    BY <1>3, <2>0
  <2>2. r = {} => t[r] = 0
    BY <2>1 DEF SumsOf
  <2>3. ASSUME r # {} PROVE t[r] = f[pick(r)] + tab(rest(r))[rest(r)]
    <3>1. t[r] = f[pick(r)] + t[rest(r)]
      BY <2>1, <2>3 DEF SumsOf
    <3>2. rest(r) \in SUBSET r /\ rest(r) \in SUBSET T /\ rest(r) # T /\ IsFiniteSet(rest(r))
      BY <1>2, <1>f, <2>0, <2>3
    <3>3. SumsOf(tab(rest(r)), f, rest(r))
      BY <1>3, <3>2
    <3> HIDE DEF tab, rest, pick
    <3>4. t[rest(r)] = tab(rest(r))[rest(r)]
      BY <2>1, <3>2, <3>3, SumsUnique
    <3> QED
      BY <3>1, <3>4
  <2>4. G[r] = IF r = {} THEN 0 ELSE f[pick(r)] + tab(rest(r))[rest(r)]
    BY <2>0
  <2> QED
    BY <2>2, <2>3, <2>4
<1>5. SumsOf(G, f, T)
  <2>1. ASSUME NEW s \in SUBSET T
        PROVE  G[s] = IF s = {} THEN 0 ELSE f[pick(s)] + G[rest(s)]
    <3>1. G[s] = IF s = {} THEN 0 ELSE f[pick(s)] + tab(rest(s))[rest(s)]
      OBVIOUS
    <3> HIDE DEF G, tab, rest, pick
    <3> QED
      BY <1>4, <3>1
  <2>2. G = [s \in SUBSET T |-> G[s]]
    OBVIOUS
  <2>3. G = [s \in SUBSET T |-> IF s = {} THEN 0 ELSE f[pick(s)] + G[rest(s)]]
    <3> HIDE DEF G, tab, rest, pick
    <3> QED
      BY <2>1, <2>2
  <2> QED
    BY <2>3 DEF SumsOf
<1> QED
  BY <1>5
\* The sum of f over S.
SumOver(f, S) == (CHOOSE g : SumsOf(g, f, S))[S]

\* The equation by which the fold was defined.
LEMMA SumStep ==
    ASSUME NEW f, NEW S, IsFiniteSet(S)
    PROVE  SumOver(f, S) = IF S = {} THEN 0
                           ELSE f[CHOOSE x \in S : TRUE]
                                + SumOver(f, S \ {CHOOSE x \in S : TRUE})
<1> DEFINE g == CHOOSE g : SumsOf(g, f, S)
<1>1. SumsOf(g, f, S)
  BY SumsExist
<1>2. SumOver(f, S) = g[S]
  BY DEF SumOver
<1>3. g[S] = IF S = {} THEN 0
             ELSE f[CHOOSE x \in S : TRUE] + g[S \ {CHOOSE x \in S : TRUE}]
  <2> HIDE DEF g
  <2> QED BY <1>1 DEF SumsOf
<1>4. ASSUME NEW T \in SUBSET S PROVE g[T] = SumOver(f, T)
  <2> DEFINE h == CHOOSE h : SumsOf(h, f, T)
  <2>1. IsFiniteSet(T)
    BY FS_Subset
  <2>2. SumsOf(h, f, T)
    BY <2>1, SumsExist
  <2> HIDE DEF g, h
  <2>3. g[T] = h[T]
    BY <1>1, <2>1, <2>2, SumsUnique
  <2> QED
    BY <2>3 DEF SumOver, h
<1> HIDE DEF g
<1> QED
  BY <1>2, <1>3, <1>4

\* A sum of sizes is a size.
LEMMA SumIsNat ==
    ASSUME NEW f, NEW S, IsFiniteSet(S), \A x \in S : f[x] \in Nat
    PROVE  SumOver(f, S) \in Nat
<1> DEFINE Bad == {T \in SUBSET S : SumOver(f, T) \notin Nat}
<1> SUFFICES ASSUME Bad # {} PROVE FALSE
  OBVIOUS
<1>1. PICK T \in Bad : \A U \in SUBSET T : U # T => U \notin Bad
  <2>1. Bad \in SUBSET SUBSET S
    OBVIOUS
  <2> HIDE DEF Bad
  <2> QED BY <2>1, MinimalSubset
<1> DEFINE x == CHOOSE x \in T : TRUE
<1>2. SumOver(f, T) = IF T = {} THEN 0 ELSE f[x] + SumOver(f, T \ {x})
  BY SumStep, FS_Subset
<1>3. T # {} => x \in T
  OBVIOUS
<1> HIDE DEF x
<1>4. T # {} => SumOver(f, T \ {x}) \in Nat
  BY <1>1, <1>3
<1> QED
  BY <1>2, <1>3, <1>4

\* Any element can be counted first: the order of the fold does not matter.
LEMMA SumRemove ==
    ASSUME NEW f, NEW S, IsFiniteSet(S), \A x \in S : f[x] \in Nat, NEW y \in S
    PROVE  SumOver(f, S) = f[y] + SumOver(f, S \ {y})
<1> DEFINE Bad == {T \in SUBSET S : \E z \in T : SumOver(f, T) # f[z] + SumOver(f, T \ {z})}
<1> SUFFICES ASSUME Bad # {} PROVE FALSE
  OBVIOUS
<1>1. PICK T \in Bad : \A U \in SUBSET T : U # T => U \notin Bad
  <2>1. Bad \in SUBSET SUBSET S
    OBVIOUS
  <2> HIDE DEF Bad
  <2> QED BY <2>1, MinimalSubset
<1>2. PICK z \in T : SumOver(f, T) # f[z] + SumOver(f, T \ {z})
  OBVIOUS
<1>f. \A U \in SUBSET S : IsFiniteSet(U)
  BY FS_Subset
<1> DEFINE x == CHOOSE x \in T : TRUE
<1>3. SumOver(f, T) = f[x] + SumOver(f, T \ {x})
  BY SumStep, <1>f, <1>2
<1>4. x \in T
  BY <1>2
<1> HIDE DEF x
<1>5. x # z
  BY <1>2, <1>3
<1>6. SumOver(f, T \ {x}) = f[z] + SumOver(f, (T \ {x}) \ {z})
  <2>1. T \ {x} \notin Bad
    BY <1>1, <1>4
  <2> QED
    BY <2>1, <1>5
<1>7. SumOver(f, T \ {z}) = f[x] + SumOver(f, (T \ {z}) \ {x})
  <2>1. T \ {z} \notin Bad
    BY <1>1, <1>2
  <2> QED
    BY <2>1, <1>4, <1>5
<1>8. (T \ {x}) \ {z} = (T \ {z}) \ {x}
  OBVIOUS
<1>9. SumOver(f, (T \ {z}) \ {x}) \in Nat
  <2>1. (T \ {z}) \ {x} \in SUBSET S
    OBVIOUS
  <2> QED
    BY <2>1, <1>f, SumIsNat
<1>10. f[x] \in Nat /\ f[z] \in Nat
  BY <1>4
<1> DEFINE r == SumOver(f, (T \ {z}) \ {x})
<1>11. SumOver(f, T) = f[x] + (f[z] + r) /\ SumOver(f, T \ {z}) = f[x] + r /\ r \in Nat
  BY <1>3, <1>6, <1>7, <1>8, <1>9
<1> HIDE DEF r
<1> QED
  BY <1>2, <1>10, <1>11

\* Fewer and smaller elements have a smaller sum.
LEMMA SumMonotone ==
    ASSUME NEW f, NEW g, NEW S, IsFiniteSet(S), NEW R \in SUBSET S,
           \A x \in S : f[x] \in Nat, \A x \in R : g[x] \in Nat /\ g[x] <= f[x]
    PROVE  SumOver(g, R) <= SumOver(f, S)
<1> DEFINE Bad == {T \in SUBSET S : ~ (SumOver(g, T \cap R) <= SumOver(f, T))}
<1> SUFFICES ASSUME Bad # {} PROVE FALSE
  <2>1. S \notin Bad /\ S \cap R = R
    OBVIOUS
  <2> QED BY <2>1
<1>1. PICK T \in Bad : \A U \in SUBSET T : U # T => U \notin Bad
  <2>1. Bad \in SUBSET SUBSET S
    OBVIOUS
  <2> HIDE DEF Bad
  <2> QED BY <2>1, MinimalSubset
<1>f. \A U \in SUBSET S : IsFiniteSet(U)
  BY FS_Subset
<1>z. SumOver(f, {}) = 0 /\ SumOver(g, {}) = 0
  BY SumStep, FS_EmptySet
<1>2. CASE T = {}
  <2>1. T \cap R = {}
    BY <1>2
  <2> QED
    BY <1>z, <1>2, <2>1
<1>3. CASE T # {}
  <2>1. PICK x \in T : TRUE
    BY <1>3
  <2> DEFINE U == T \ {x}
  <2>2. SumOver(f, T) = f[x] + SumOver(f, U)
    BY SumRemove, <1>f
  <2>3. SumOver(f, U) \in Nat /\ SumOver(g, U \cap R) \in Nat
    BY SumIsNat, <1>f
  <2>4. SumOver(g, U \cap R) <= SumOver(f, U)
    <3>1. U \notin Bad
      BY <1>1, <2>1
    <3> QED BY <3>1
  <2>5. SumOver(g, T \cap R) = IF x \in R THEN g[x] + SumOver(g, U \cap R) ELSE SumOver(g, U \cap R)
    <3>1. CASE x \in R
      <4>1. (T \cap R) \ {x} = U \cap R
        OBVIOUS
      <4>2. SumOver(g, T \cap R) = g[x] + SumOver(g, (T \cap R) \ {x})
        BY SumRemove, <1>f, <3>1
      <4> QED BY <3>1, <4>1, <4>2
    <3>2. CASE x \notin R
      <4>1. T \cap R = U \cap R
        BY <3>2
      <4> QED BY <3>2, <4>1
    <3> QED BY <3>1, <3>2
  <2>6. f[x] \in Nat /\ (x \in R => g[x] \in Nat /\ g[x] <= f[x])
    OBVIOUS
  <2>7. ~ (SumOver(g, T \cap R) <= SumOver(f, T))
    OBVIOUS
  <2> HIDE DEF U, Bad
  <2> QED
    BY <2>2, <2>3, <2>4, <2>5, <2>6, <2>7
<1> QED
  BY <1>2, <1>3

\* Nothing sums to nothing.
LEMMA SumEmpty ==
    ASSUME NEW f
    PROVE  SumOver(f, {}) = 0
BY SumStep, FS_EmptySet

-----------------------------------------------------------------------------
(***************************************************************************)
(* Maximum and minimum of two numbers, and remainders: the ring of the     *)
(* io_uring reader takes its counters modulo one number and then modulo    *)
(* another.                                                                *)
(***************************************************************************)
\* The operators of FiniteSetsExt on two numbers.
LEMMA MaxMinOfTwo ==
    ASSUME NEW a \in Int, NEW b \in Int
    PROVE  /\ Max({a, b}) = IF a >= b THEN a ELSE b
           /\ Min({a, b}) = IF a <= b THEN a ELSE b
<1>1. \E x \in {a, b} : \A y \in {a, b} : x >= y
  OBVIOUS
<1>2. \E x \in {a, b} : \A y \in {a, b} : x <= y
  OBVIOUS
<1>3. Max({a, b}) \in {a, b} /\ \A y \in {a, b} : Max({a, b}) >= y
  BY <1>1 DEF Max
<1>4. Min({a, b}) \in {a, b} /\ \A y \in {a, b} : Min({a, b}) <= y
  BY <1>2 DEF Min
<1> QED
  BY <1>3, <1>4

\* No multiple of m lies strictly between -m and m but zero.
LEMMA NoMultipleBetween ==
    ASSUME NEW m \in Nat \ {0}, NEW k \in Int, -m < m * k, m * k < m
    PROVE  k = 0
<1>1. k >= 1 => m * k >= m
  OBVIOUS
<1>2. k <= -1 => m * k <= -m
  OBVIOUS
<1> QED
  BY <1>1, <1>2

\* A name for the remainder, behind which the provers see no arithmetic.
Remainder(x, m) == x % m

\* A number is so many turns of m and its remainder.
LEMMA RemainderFacts ==
    ASSUME NEW x \in Nat, NEW m \in Nat \ {0}
    PROVE  /\ Remainder(x, m) \in 0 .. m - 1
           /\ \E q \in Nat : x = m * q + Remainder(x, m)
<1> DEFINE q == x \div m
<1>1. q \in Nat /\ x = m * q + (x % m) /\ x % m \in 0 .. m - 1
  OBVIOUS
<1> QED
  BY <1>1 DEF Remainder

\* There is one such remainder.
LEMMA RemainderUnique ==
    ASSUME NEW x \in Nat, NEW m \in Nat \ {0}, NEW q \in Nat, NEW r \in 0 .. m - 1,
           x = m * q + r
    PROVE  Remainder(x, m) = r
<1>1. PICK k \in Nat : x = m * k + Remainder(x, m)
  BY RemainderFacts
<1> DEFINE s == Remainder(x, m)
<1>2. s \in 0 .. m - 1
  BY RemainderFacts
<1>3. x = m * k + s
  BY <1>1
<1> HIDE DEF s
<1>4. m * (k - q) = m * k - m * q /\ m * k \in Int /\ m * q \in Int
  OBVIOUS
<1>5. m * (k - q) = r - s
  BY <1>2, <1>3, <1>4
<1>6. -m < m * (k - q) /\ m * (k - q) < m
  BY <1>2, <1>5
<1>7. k - q = 0
  BY <1>6, NoMultipleBetween
<1>8. k = q
  BY <1>7
<1> QED
  BY <1>2, <1>3, <1>8 DEF s

\* A counter that wraps at a multiple of n loses nothing of its remainder by n.
LEMMA RemainderOfWrapped ==
    ASSUME NEW x \in Nat, NEW k \in Nat, NEW m \in Nat \ {0}, NEW n \in Nat \ {0},
           Remainder(m, n) = 0
    PROVE  Remainder(Remainder(x, m) + k, n) = Remainder(x + k, n)
<1> DEFINE w == Remainder(x, m)
<1>1. PICK a \in Nat : x = m * a + w
  BY RemainderFacts
<1>2. PICK c \in Nat : m = n * c
  <2>1. PICK c \in Nat : m = n * c + Remainder(m, n)
    BY RemainderFacts
  <2> QED
    BY <2>1
<1>3. w \in Nat
  <2>1. w \in 0 .. m - 1
    BY RemainderFacts
  <2> QED
    BY <2>1
<1> HIDE DEF w
<1>4. w + k \in Nat
  BY <1>3
<1> DEFINE s == Remainder(w + k, n)
<1>5. PICK b \in Nat : w + k = n * b + s
  BY <1>4, RemainderFacts
<1>6. s \in 0 .. n - 1
  BY <1>4, RemainderFacts
<1> HIDE DEF s
<1>7. PICK t \in Nat : t = c * a + b
  OBVIOUS
<1>8. n * t = m * a + n * b
  BY <1>2, <1>7
<1>9. x + k = n * t + s
  <2>1. m * a \in Nat /\ n * b \in Nat /\ n * t \in Nat
    OBVIOUS
  <2> QED
    BY <1>1, <1>3, <1>5, <1>6, <1>8, <2>1
<1>10. x + k \in Nat
  OBVIOUS
<1>11. Remainder(x + k, n) = s
  BY <1>6, <1>7, <1>9, <1>10, RemainderUnique
<1> QED
  BY <1>11 DEF s, w

\* Fewer than n numbers in a row have different remainders.
LEMMA RemaindersDiffer ==
    ASSUME NEW x \in Nat, NEW n \in Nat \ {0}, NEW i \in 0 .. n - 1, NEW j \in 0 .. n - 1,
           Remainder(x + i, n) = Remainder(x + j, n)
    PROVE  i = j
<1> DEFINE r == Remainder(x + i, n)
<1>0. x + i \in Nat /\ x + j \in Nat
  OBVIOUS
<1>1. PICK a \in Nat : x + i = n * a + r
  BY <1>0, RemainderFacts
<1>2. PICK b \in Nat : x + j = n * b + r
  <2>1. PICK b \in Nat : x + j = n * b + Remainder(x + j, n)
    BY <1>0, RemainderFacts
  <2> QED
    BY <2>1
<1>3. r \in 0 .. n - 1
  BY <1>0, RemainderFacts
<1> HIDE DEF r
<1>4. n * (a - b) = n * a - n * b /\ n * a \in Int /\ n * b \in Int
  OBVIOUS
<1>5. n * (a - b) = i - j
  BY <1>1, <1>2, <1>3, <1>4
<1>6. a - b = 0
  BY <1>5, NoMultipleBetween
<1> QED
  BY <1>1, <1>2, <1>3, <1>6

-----------------------------------------------------------------------------
(***************************************************************************)
(* FlattenSeq of SequencesExt: the producers of traces join the events of  *)
(* one request or one step after the other.                                *)
(***************************************************************************)
\* f holds what the first i of the sequences are together, for each i up to n.
JoinsOf(f, seqs, n) ==
    f = [i \in 1 .. n |-> IF i = 1 THEN seqs[i] ELSE f[i - 1] \o seqs[i]]

\* The first i of the sequences, one after the other.
Joined(seqs, i) ==
    IF i = 0 THEN <<>> ELSE (CHOOSE f : JoinsOf(f, seqs, Len(seqs)))[i]

\* The recursion of FlattenSeq has a solution.
LEMMA JoinsExist ==
    ASSUME NEW seqs, NEW n \in Nat
    PROVE  \E f : JoinsOf(f, seqs, n)
<1> DEFINE Bad == {i \in 1 .. n : ~ \E f : JoinsOf(f, seqs, i)}
<1>0. \E f : JoinsOf(f, seqs, 0)
  <2> DEFINE e == [i \in 1 .. 0 |-> seqs[i]]
  <2>1. JoinsOf(e, seqs, 0)
    BY DEF JoinsOf
  <2> QED BY <2>1
<1>1. Bad = {}
  <2> SUFFICES ASSUME Bad # {} PROVE FALSE
    OBVIOUS
  <2>1. PICK i \in Bad : \A j \in Bad : i <= j
    <3>1. Bad \in SUBSET (1 .. n)
      OBVIOUS
    <3> HIDE DEF Bad
    <3> QED BY <3>1, FirstIndex
  <2>2. \E f : JoinsOf(f, seqs, i - 1)
    <3>1. CASE i = 1
      BY <3>1, <1>0
    <3>2. CASE i # 1
      <4>1. i - 1 \in 1 .. n /\ i - 1 \notin Bad
        BY <3>2, <2>1
      <4> QED BY <4>1
    <3> QED BY <3>1, <3>2
  <2>3. PICK f : JoinsOf(f, seqs, i - 1)
    BY <2>2
  <2> DEFINE g == [j \in 1 .. i |-> IF j = i THEN IF i = 1 THEN seqs[i] ELSE f[i - 1] \o seqs[i]
                                             ELSE f[j]]
  <2>4. ASSUME NEW j \in 1 .. i
        PROVE  g[j] = IF j = 1 THEN seqs[j] ELSE g[j - 1] \o seqs[j]
    <3>1. CASE j = i
      <4>1. i # 1 => g[i - 1] = f[i - 1]
        OBVIOUS
      <4> QED BY <3>1, <4>1
    <3>2. CASE j # i
      <4>1. j \in 1 .. i - 1 /\ g[j] = f[j] /\ (j # 1 => g[j - 1] = f[j - 1])
        BY <3>2
      <4>2. f[j] = IF j = 1 THEN seqs[j] ELSE f[j - 1] \o seqs[j]
        BY <4>1, <2>3 DEF JoinsOf
      <4> QED BY <4>1, <4>2
    <3> QED BY <3>1, <3>2
  <2>5. JoinsOf(g, seqs, i)
    <3>1. g = [j \in 1 .. i |-> g[j]]
      OBVIOUS
    <3> HIDE DEF g
    <3> QED BY <2>4, <3>1 DEF JoinsOf
  <2> HIDE DEF g
  <2> QED BY <2>5, <2>1
<1>2. CASE n = 0
  BY <1>2, <1>0
<1>3. CASE n # 0
  <2>1. n \in 1 .. n /\ n \notin Bad
    BY <1>1, <1>3
  <2> QED BY <2>1
<1> QED BY <1>2, <1>3

\* FlattenSeq joins all of the sequences, each after those before it.
LEMMA FlattenJoins ==
    ASSUME NEW S, NEW seqs \in Seq(Seq(S))
    PROVE  /\ FlattenSeq(seqs) = Joined(seqs, Len(seqs))
           /\ Joined(seqs, 0) = <<>>
           /\ \A i \in 1 .. Len(seqs) :
                 /\ Joined(seqs, i) = Joined(seqs, i - 1) \o seqs[i]
                 /\ Joined(seqs, i) \in Seq(S)
<1> DEFINE n == Len(seqs)
           g == CHOOSE f : JoinsOf(f, seqs, n)
<1>0. n \in Nat /\ \A i \in 1 .. n : seqs[i] \in Seq(S)
  OBVIOUS
<1>1. JoinsOf(g, seqs, n)
  BY <1>0, JoinsExist
<1>2. Joined(seqs, 0) = <<>>
  BY DEF Joined
<1>3. \A i \in 1 .. n : Joined(seqs, i) = g[i]
  <2> SUFFICES ASSUME NEW i \in 1 .. n PROVE Joined(seqs, i) = g[i]
    OBVIOUS
  <2>1. i # 0
    BY <1>0
  <2> QED BY <2>1 DEF Joined
<1>4. \A i \in 1 .. n : g[i] = IF i = 1 THEN seqs[i] ELSE g[i - 1] \o seqs[i]
  <2> HIDE DEF g
  <2> QED BY <1>1 DEF JoinsOf
<1>5. \A i \in 1 .. n : Joined(seqs, i) = Joined(seqs, i - 1) \o seqs[i]
  <2> SUFFICES ASSUME NEW i \in 1 .. n PROVE Joined(seqs, i) = Joined(seqs, i - 1) \o seqs[i]
    OBVIOUS
  <2>1. CASE i = 1
    <3>1. Joined(seqs, i) = seqs[i] /\ Joined(seqs, i - 1) = <<>>
      <4> HIDE DEF g, n
      <4> QED BY <2>1, <1>2, <1>3, <1>4
    <3>2. <<>> \o seqs[i] = seqs[i]
      BY <1>0, ConcatEmptySeq
    <3> QED BY <3>1, <3>2
  <2>2. CASE i # 1
    <3>1. i - 1 \in 1 .. n
      BY <2>2, <1>0
    <3> HIDE DEF g, n
    <3> QED BY <2>2, <3>1, <1>3, <1>4
  <2> QED BY <2>1, <2>2
<1>6. \A i \in 1 .. n : Joined(seqs, i) \in Seq(S)
  <2> DEFINE Bad == {i \in 1 .. n : Joined(seqs, i) \notin Seq(S)}
  <2> SUFFICES ASSUME Bad # {} PROVE FALSE
    OBVIOUS
  <2>1. PICK i \in Bad : \A j \in Bad : i <= j
    <3>1. Bad \in SUBSET (1 .. n)
      OBVIOUS
    <3> HIDE DEF Bad, n
    <3> QED BY <1>0, <3>1, FirstIndex
  <2>2. Joined(seqs, i - 1) \in Seq(S)
    <3>1. CASE i = 1
      <4>1. i - 1 = 0
        BY <3>1
      <4>2. <<>> \in Seq(S)
        BY EmptySeq
      <4> QED BY <4>1, <4>2, <1>2
    <3>2. CASE i # 1
      <4>1. i - 1 \in 1 .. n /\ i - 1 \notin Bad
        BY <3>2, <2>1, <1>0
      <4> QED BY <4>1
    <3> QED BY <3>1, <3>2
  <2>3. i \in 1 .. n /\ Joined(seqs, i) \notin Seq(S)
    OBVIOUS
  <2>4. Joined(seqs, i) = Joined(seqs, i - 1) \o seqs[i] /\ seqs[i] \in Seq(S)
    BY <2>3, <1>0, <1>5
  <2>5. Joined(seqs, i - 1) \o seqs[i] \in Seq(S)
    BY <2>2, <2>4, ConcatProperties
  <2> QED BY <2>3, <2>4, <2>5
<1>7. FlattenSeq(seqs) = Joined(seqs, n)
  <2>1. CASE n = 0
    <3>1. seqs = <<>>
      BY <2>1
    <3>2. FlattenSeq(seqs) = seqs
      BY <2>1 DEF FlattenSeq
    <3> QED BY <2>1, <3>1, <3>2, <1>2
  <2>2. CASE n # 0
    <3>1. FlattenSeq(seqs) = g[n]
      BY <2>2 DEF FlattenSeq, JoinsOf
    <3> HIDE DEF g
    <3> QED BY <2>2, <3>1, <1>0, <1>3
  <2> QED BY <2>1, <2>2
<1> QED BY <1>2, <1>5, <1>6, <1>7

\* Sequences without repetitions that share nothing are joined without any.
LEMMA ConcatInjective ==
    ASSUME NEW S, NEW s \in Seq(S), NEW t \in Seq(S), IsInjective(s), IsInjective(t),
           Range(s) \cap Range(t) = {}
    PROVE  IsInjective(s \o t)
<1>1. /\ s \o t \in Seq(S) /\ Len(s \o t) = Len(s) + Len(t)
      /\ \A i \in 1 .. Len(s) + Len(t) :
            (s \o t)[i] = IF i <= Len(s) THEN s[i] ELSE t[i - Len(s)]
  BY ConcatProperties
<1>2. DOMAIN (s \o t) = 1 .. Len(s) + Len(t)
  BY <1>1
<1>3. Len(s) \in Nat /\ Len(t) \in Nat /\ DOMAIN s = 1 .. Len(s) /\ DOMAIN t = 1 .. Len(t)
  OBVIOUS
<1>4. \A i \in 1 .. Len(s), j \in 1 .. Len(t) : s[i] # t[j]
  BY <1>3 DEF Range
<1> DEFINE r == s \o t
<1> SUFFICES ASSUME NEW a \in DOMAIN r, NEW b \in DOMAIN r, r[a] = r[b] PROVE a = b
  BY DEF IsInjective
<1> DEFINE m == Len(s)
           p == Len(t)
<1>5. a \in 1 .. m + p /\ b \in 1 .. m + p
  BY <1>2
<1>6. /\ r[a] = IF a <= m THEN s[a] ELSE t[a - m]
      /\ r[b] = IF b <= m THEN s[b] ELSE t[b - m]
  BY <1>1, <1>5
<1>m. m \in Nat /\ p \in Nat /\ DOMAIN s = 1 .. m /\ DOMAIN t = 1 .. p
  BY <1>3
<1>d. \A i \in 1 .. m, j \in 1 .. p : s[i] # t[j]
  BY <1>4
<1> HIDE DEF r, m, p
<1>i. \A x \in 1 .. m + p : IF x <= m THEN x \in 1 .. m ELSE x - m \in 1 .. p
  BY <1>m
<1>7. CASE a <= m /\ b <= m
  <2>1. a \in DOMAIN s /\ b \in DOMAIN s
    BY <1>i, <1>m, <1>5, <1>7
  <2>2. s[a] = s[b]
    BY <1>6, <1>7
  <2> QED BY <2>1, <2>2 DEF IsInjective
<1>8. CASE ~ (a <= m) /\ ~ (b <= m)
  <2>1. a - m \in DOMAIN t /\ b - m \in DOMAIN t
    BY <1>i, <1>m, <1>5, <1>8
  <2>2. t[a - m] = t[b - m]
    BY <1>6, <1>8
  <2>3. a - m = b - m
    BY <2>1, <2>2 DEF IsInjective
  <2> QED BY <2>3, <1>m, <1>5
<1>9. CASE a <= m /\ ~ (b <= m)
  <2>1. a \in 1 .. m /\ b - m \in 1 .. p
    BY <1>i, <1>5, <1>9
  <2>2. s[a] = t[b - m]
    BY <1>6, <1>9
  <2> QED BY <2>1, <2>2, <1>d
<1>10. CASE ~ (a <= m) /\ b <= m
  <2>1. b \in 1 .. m /\ a - m \in 1 .. p
    BY <1>i, <1>5, <1>10
  <2>2. s[b] = t[a - m]
    BY <1>6, <1>10
  <2> QED BY <2>1, <2>2, <1>d
<1> QED BY <1>7, <1>8, <1>9, <1>10

\* What the first i of the sequences are about, together.
LEMMA JoinedRange ==
    ASSUME NEW S, NEW seqs \in Seq(Seq(S)), NEW i \in 0 .. Len(seqs)
    PROVE  Range(Joined(seqs, i)) = UNION {Range(seqs[j]) : j \in 1 .. i}
<1> DEFINE Upto(k) == UNION {Range(seqs[j]) : j \in 1 .. k}
           Bad == {k \in 1 .. Len(seqs) : Range(Joined(seqs, k)) # Upto(k)}
<1>0. Len(seqs) \in Nat /\ \A k \in 1 .. Len(seqs) : seqs[k] \in Seq(S)
  OBVIOUS
<1>1. Range(Joined(seqs, 0)) = Upto(0)
  <2>1. Joined(seqs, 0) = <<>>
    BY FlattenJoins
  <2>2. Range(<<>>) = {} /\ Upto(0) = {}
    BY DEF Range
  <2> HIDE DEF Upto
  <2> QED BY <2>1, <2>2
<1>2. Bad = {}
  <2> SUFFICES ASSUME Bad # {} PROVE FALSE
    OBVIOUS
  <2>1. PICK k \in Bad : \A j \in Bad : k <= j
    <3>1. Bad \in SUBSET (1 .. Len(seqs))
      OBVIOUS
    <3> HIDE DEF Bad
    <3> QED BY <1>0, <3>1, FirstIndex
  <2>k. k \in 1 .. Len(seqs) /\ Range(Joined(seqs, k)) # Upto(k)
    OBVIOUS
  <2>2. Range(Joined(seqs, k - 1)) = Upto(k - 1)
    <3>1. CASE k = 1
      <4>1. k - 1 = 0
        BY <3>1
      <4> HIDE DEF Upto
      <4> QED BY <4>1, <1>1
    <3>2. CASE k # 1
      <4>1. k - 1 \in 1 .. Len(seqs) /\ ~ (k <= k - 1)
        BY <3>2, <2>k, <1>0
      <4>2. k - 1 \notin Bad
        <5> HIDE DEF Bad
        <5> QED BY <2>1, <4>1
      <4> QED BY <4>1, <4>2
    <3> QED BY <3>1, <3>2
  <2>3. Joined(seqs, k) = Joined(seqs, k - 1) \o seqs[k]
    BY <2>k, FlattenJoins
  <2>4. Joined(seqs, k - 1) \in Seq(S)
    <3>1. CASE k = 1
      <4>1. k - 1 = 0
        BY <3>1
      <4>2. <<>> \in Seq(S) /\ Joined(seqs, 0) = <<>>
        BY FlattenJoins, EmptySeq
      <4> QED BY <4>1, <4>2
    <3>2. CASE k # 1
      <4>1. k - 1 \in 1 .. Len(seqs)
        BY <3>2, <2>k, <1>0
      <4> QED BY <4>1, FlattenJoins
    <3> QED BY <3>1, <3>2
  <2>5. Range(Joined(seqs, k)) = Range(Joined(seqs, k - 1)) \cup Range(seqs[k])
    BY <2>3, <2>4, <2>k, <1>0, RangeConcatenation
  <2>6. Upto(k) = Upto(k - 1) \cup Range(seqs[k])
    <3>1. 1 .. k = (1 .. k - 1) \cup {k}
      BY <2>k, <1>0
    <3> QED BY <3>1
  <2> HIDE DEF Upto, Bad
  <2> QED BY <2>k, <2>2, <2>5, <2>6
<1>3. CASE i = 0
  <2> HIDE DEF Upto
  <2> SUFFICES Range(Joined(seqs, i)) = Upto(i)
    BY DEF Upto
  <2> QED BY <1>1, <1>3
<1>4. CASE i # 0
  <2>1. i \in 1 .. Len(seqs) /\ i \notin Bad
    BY <1>2, <1>4, <1>0
  <2> QED BY <2>1
<1> QED BY <1>3, <1>4

\* What all of the sequences are about.
LEMMA FlattenRange ==
    ASSUME NEW S, NEW seqs \in Seq(Seq(S))
    PROVE  /\ FlattenSeq(seqs) \in Seq(S)
           /\ Range(FlattenSeq(seqs)) = UNION {Range(seqs[j]) : j \in 1 .. Len(seqs)}
<1>0. Len(seqs) \in Nat /\ Len(seqs) \in 0 .. Len(seqs)
  OBVIOUS
<1>1. FlattenSeq(seqs) = Joined(seqs, Len(seqs))
  BY FlattenJoins
<1>2. FlattenSeq(seqs) \in Seq(S)
  <2>1. CASE Len(seqs) = 0
    <3>1. Joined(seqs, 0) = <<>> /\ <<>> \in Seq(S)
      BY FlattenJoins, EmptySeq
    <3> QED BY <2>1, <1>1, <3>1
  <2>2. CASE Len(seqs) # 0
    <3>1. Len(seqs) \in 1 .. Len(seqs)
      BY <2>2, <1>0
    <3> QED BY <3>1, <1>1, FlattenJoins
  <2> QED BY <2>1, <2>2
<1> QED BY <1>0, <1>1, <1>2, JoinedRange

\* Sequences without repetitions of which no two share anything.
LEMMA FlattenInjective ==
    ASSUME NEW S, NEW seqs \in Seq(Seq(S)),
           \A j \in 1 .. Len(seqs) : IsInjective(seqs[j]),
           \A j, k \in 1 .. Len(seqs) : j # k => Range(seqs[j]) \cap Range(seqs[k]) = {}
    PROVE  IsInjective(FlattenSeq(seqs))
<1> DEFINE Bad == {k \in 1 .. Len(seqs) : ~ IsInjective(Joined(seqs, k))}
<1>0. Len(seqs) \in Nat /\ \A k \in 1 .. Len(seqs) : seqs[k] \in Seq(S)
  OBVIOUS
<1>1. IsInjective(Joined(seqs, 0)) /\ Joined(seqs, 0) \in Seq(S)
  <2>1. Joined(seqs, 0) = <<>> /\ <<>> \in Seq(S)
    BY FlattenJoins, EmptySeq
  <2>2. IsInjective(<<>>)
    BY DEF IsInjective
  <2> QED BY <2>1, <2>2
<1>2. Bad = {}
  <2> SUFFICES ASSUME Bad # {} PROVE FALSE
    OBVIOUS
  <2>1. PICK k \in Bad : \A j \in Bad : k <= j
    <3>1. Bad \in SUBSET (1 .. Len(seqs))
      OBVIOUS
    <3> HIDE DEF Bad
    <3> QED BY <1>0, <3>1, FirstIndex
  <2>k. k \in 1 .. Len(seqs) /\ ~ IsInjective(Joined(seqs, k))
    OBVIOUS
  <2>2. IsInjective(Joined(seqs, k - 1)) /\ Joined(seqs, k - 1) \in Seq(S)
    <3>1. CASE k = 1
      <4>1. k - 1 = 0
        BY <3>1
      <4> QED BY <4>1, <1>1
    <3>2. CASE k # 1
      <4>1. k - 1 \in 1 .. Len(seqs) /\ k - 1 \notin Bad
        BY <3>2, <2>1, <2>k, <1>0
      <4> QED BY <4>1, FlattenJoins
    <3> QED BY <3>1, <3>2
  <2>3. Range(Joined(seqs, k - 1)) = UNION {Range(seqs[j]) : j \in 1 .. k - 1}
    <3>1. k - 1 \in 0 .. Len(seqs)
      BY <2>k, <1>0
    <3> QED BY <3>1, JoinedRange
  <2>4. \A j \in 1 .. k - 1 : j \in 1 .. Len(seqs) /\ j # k
    BY <2>k, <1>0
  <2>5. Range(Joined(seqs, k - 1)) \cap Range(seqs[k]) = {}
    BY <2>3, <2>4, <2>k
  <2>6. IsInjective(Joined(seqs, k - 1) \o seqs[k])
    <3>1. seqs[k] \in Seq(S) /\ IsInjective(seqs[k])
      BY <2>k, <1>0
    <3> QED BY <3>1, <2>2, <2>5, ConcatInjective
  <2> QED BY <2>k, <2>6, FlattenJoins
<1>3. IsInjective(Joined(seqs, Len(seqs)))
  <2>1. CASE Len(seqs) = 0
    BY <2>1, <1>1
  <2>2. CASE Len(seqs) # 0
    <3>1. Len(seqs) \in 1 .. Len(seqs) /\ Len(seqs) \notin Bad
      BY <2>2, <1>0, <1>2
    <3> QED BY <3>1
  <2> QED BY <2>1, <2>2
<1> QED BY <1>3, FlattenJoins

\* A sequence without repetitions is as long as its range is large.
LEMMA InjectiveLen ==
    ASSUME NEW S, NEW s \in Seq(S), IsInjective(s)
    PROVE  IsFiniteSet(Range(s)) /\ Cardinality(Range(s)) = Len(s)
<1>1. Len(s) \in Nat /\ s \in [1 .. Len(s) -> Range(s)] /\ DOMAIN s = 1 .. Len(s)
  BY DEF Range
<1>2. s \in Bijection(1 .. Len(s), Range(s))
  <2>1. s \in Injection(1 .. Len(s), Range(s))
    BY <1>1 DEF Injection, IsInjective
  <2>2. s \in Surjection(1 .. Len(s), Range(s))
    BY <1>1 DEF Surjection, Range
  <2> QED BY <2>1, <2>2 DEF Bijection
<1>3. ExistsBijection(1 .. Len(s), Range(s))
  BY <1>2 DEF ExistsBijection
<1>4. IsFiniteSet(1 .. Len(s)) /\ Cardinality(1 .. Len(s)) = Len(s)
  BY <1>1, FS_Interval
<1> QED BY <1>3, <1>4, FS_Bijection

\* The sequence read backwards.
LEMMA ReverseFacts ==
    ASSUME NEW S, NEW s \in Seq(S)
    PROVE  /\ Reverse(s) \in Seq(S) /\ Len(Reverse(s)) = Len(s)
           /\ Range(Reverse(s)) = Range(s)
           /\ IsInjective(s) => IsInjective(Reverse(s))
<1> DEFINE m == Len(s)
           r == Reverse(s)
<1>1. m \in Nat /\ DOMAIN s = 1 .. m /\ \A i \in 1 .. m : s[i] \in S
  OBVIOUS
<1>2. r = [i \in 1 .. m |-> s[(m - i) + 1]]
  BY DEF Reverse
<1> HIDE DEF m
<1>3. \A i \in 1 .. m : (m - i) + 1 \in 1 .. m /\ (m - ((m - i) + 1)) + 1 = i
  BY <1>1
<1>4. DOMAIN r = 1 .. m /\ \A i \in 1 .. m : r[i] = s[(m - i) + 1]
  BY <1>2
<1>5. r \in [1 .. m -> S]
  BY <1>1, <1>2, <1>3
<1> HIDE DEF r
<1>6. r \in Seq(S) /\ Len(r) = m
  BY <1>1, <1>5
<1>7. Range(r) = Range(s)
  <2>1. ASSUME NEW i \in 1 .. m PROVE r[i] \in Range(s) /\ s[i] \in Range(r)
    <3>1. (m - i) + 1 \in 1 .. m /\ (m - ((m - i) + 1)) + 1 = i
      BY <1>3
    <3>2. r[i] = s[(m - i) + 1] /\ r[(m - i) + 1] = s[i]
      BY <3>1, <1>4
    <3> QED BY <3>1, <3>2, <1>1, <1>4 DEF Range
  <2> QED BY <2>1, <1>1, <1>4 DEF Range
<1>8. ASSUME IsInjective(s) PROVE IsInjective(r)
  <2> SUFFICES ASSUME NEW a \in 1 .. m, NEW b \in 1 .. m, r[a] = r[b] PROVE a = b
    BY <1>4 DEF IsInjective
  <2>1. s[(m - a) + 1] = s[(m - b) + 1] /\ (m - a) + 1 \in DOMAIN s /\ (m - b) + 1 \in DOMAIN s
    BY <1>1, <1>3, <1>4
  <2>2. (m - a) + 1 = (m - b) + 1
    BY <2>1, <1>8 DEF IsInjective
  <2> QED BY <2>2, <1>1
<1> QED BY <1>6, <1>7, <1>8 DEF r, m

-----------------------------------------------------------------------------
(***************************************************************************)
(* Least and greatest elements, for inductions by counterexample.          *)
(***************************************************************************)
\* A non-empty set of natural numbers has a least element.
LEMMA LeastNatural ==
    ASSUME NEW S \in SUBSET Nat, S # {}
    PROVE  \E i \in S : \A j \in S : i <= j
<1>1. PICK m \in S : TRUE
  OBVIOUS
<1> DEFINE Shifted == {i \in 1 .. m + 1 : i - 1 \in S}
<1>2. m \in Nat /\ m + 1 \in Shifted /\ Shifted \in SUBSET (1 .. m + 1) /\ m + 1 \in Nat
  BY <1>1
<1>3. PICK i \in Shifted : \A j \in Shifted : i <= j
  <2> HIDE DEF Shifted
  <2> QED BY <1>2, FirstIndex
<1>4. i \in 1 .. m + 1 /\ i - 1 \in S
  OBVIOUS
<1>5. ASSUME NEW j \in S, j < i - 1 PROVE FALSE
  <2>1. j + 1 \in 1 .. m + 1 /\ (j + 1) - 1 = j /\ ~ (i <= j + 1)
    BY <1>2, <1>4, <1>5
  <2>2. j + 1 \in Shifted
    BY <2>1
  <2> QED BY <1>3, <2>1, <2>2
<1>6. \A j \in S : i - 1 <= j
  <2> SUFFICES ASSUME NEW j \in S PROVE i - 1 <= j
    OBVIOUS
  <2>1. ~ (j < i - 1) /\ j \in Nat /\ i - 1 \in Nat
    BY <1>4, <1>5
  <2> QED BY <2>1
<1> QED BY <1>4, <1>6

\* A non-empty set of numbers below a bound has a greatest element.
LEMMA GreatestBelow ==
    ASSUME NEW n \in Nat, NEW S \in SUBSET (0 .. n - 1), S # {}
    PROVE  \E i \in S : \A j \in S : j <= i
<1> DEFINE Mirrored == {n - i : i \in S}
<1>1. \A i \in S : i \in Int /\ 0 <= i /\ i <= n - 1
  OBVIOUS
<1>2. Mirrored \in SUBSET Nat /\ Mirrored # {}
  <2>1. \A i \in S : n - i \in Nat
    BY <1>1
  <2>2. \A x \in Mirrored : x \in Nat
    BY <2>1
  <2>3. Mirrored # {}
    OBVIOUS
  <2> HIDE DEF Mirrored
  <2> QED BY <2>2, <2>3
<1>3. PICK k \in Mirrored : \A j \in Mirrored : k <= j
  <2> HIDE DEF Mirrored
  <2> QED BY <1>2, LeastNatural
<1>4. PICK i \in S : k = n - i
  OBVIOUS
<1>5. \A j \in S : n - i <= n - j
  BY <1>3, <1>4
<1> QED BY <1>1, <1>5

\* Taking the head off a sequence, with and without repetitions.
LEMMA HeadAndTail ==
    ASSUME NEW S, NEW s \in Seq(S), s # <<>>
    PROVE  /\ Head(s) \in S /\ Tail(s) \in Seq(S)
           /\ Range(s) = {Head(s)} \cup Range(Tail(s))
           /\ IsInjective(s) => IsInjective(Tail(s)) /\ Head(s) \notin Range(Tail(s))
<1> DEFINE m == Len(s)
           t == Tail(s)
<1>1. /\ m \in Nat \ {0} /\ DOMAIN s = 1 .. m /\ Head(s) = s[1] /\ \A i \in 1 .. m : s[i] \in S
  BY EmptySeq
<1>2. /\ t \in Seq(S) /\ Len(t) = m - 1 /\ DOMAIN t = 1 .. m - 1
      /\ \A i \in 1 .. m - 1 : t[i] = s[i + 1]
  BY HeadTailProperties
<1> HIDE DEF m, t
<1>3. \A i \in 1 .. m - 1 : i + 1 \in 1 .. m /\ i + 1 # 1
  BY <1>1
<1>4. \A i \in 1 .. m : i = 1 \/ (i - 1 \in 1 .. m - 1 /\ (i - 1) + 1 = i)
  BY <1>1
<1>5. Range(s) = {s[1]} \cup Range(t)
  <2>1. ASSUME NEW i \in 1 .. m PROVE s[i] \in {s[1]} \cup Range(t)
    <3>1. CASE i = 1
      BY <3>1
    <3>2. CASE i # 1
      <4>1. i - 1 \in DOMAIN t /\ t[i - 1] = s[i]
        BY <3>2, <1>2, <1>4
      <4> QED BY <4>1 DEF Range
    <3> QED BY <3>1, <3>2
  <2>2. ASSUME NEW i \in 1 .. m - 1 PROVE t[i] \in Range(s)
    BY <1>1, <1>2, <1>3 DEF Range
  <2>3. s[1] \in Range(s)
    BY <1>1 DEF Range
  <2>4. Range(s) \subseteq {s[1]} \cup Range(t)
    BY <2>1, <1>1 DEF Range
  <2>5. Range(t) \subseteq Range(s)
    BY <2>2, <1>2 DEF Range
  <2> QED BY <2>3, <2>4, <2>5
<1>6. ASSUME IsInjective(s) PROVE IsInjective(t) /\ s[1] \notin Range(t)
  <2>1. ASSUME NEW a \in 1 .. m - 1, NEW b \in 1 .. m - 1, t[a] = t[b] PROVE a = b
    <3>1. a + 1 \in DOMAIN s /\ b + 1 \in DOMAIN s /\ s[a + 1] = s[b + 1]
      BY <2>1, <1>1, <1>2, <1>3
    <3>2. a + 1 = b + 1
      BY <3>1, <1>6 DEF IsInjective
    <3> QED BY <3>2
  <2>2. ASSUME NEW a \in 1 .. m - 1, t[a] = s[1] PROVE FALSE
    <3>1. a + 1 \in DOMAIN s /\ 1 \in DOMAIN s /\ s[a + 1] = s[1] /\ a + 1 # 1
      BY <2>2, <1>1, <1>2, <1>3
    <3> QED BY <3>1, <1>6 DEF IsInjective
  <2> QED BY <2>1, <2>2, <1>2 DEF Range, IsInjective
<1> QED BY <1>1, <1>2, <1>5, <1>6 DEF t

=============================================================================
