---------------------------- MODULE FoldTheorems ----------------------------
(***************************************************************************)
(* Lemmas about loops and folds, for the proofs about the programs and the *)
(* arithmetic units: the folds of the community modules (MapThenSumSet,    *)
(* FoldLeft, FlattenSeq) exist as functions, a sum may take any element    *)
(* first, the number that digits stand for grows with each digit as it     *)
(* should, and powers of two, quotients and remainders follow the laws of  *)
(* arithmetic.  They rest on the well-foundedness of the naturals, which   *)
(* gives induction without an operator as a parameter.                     *)
(***************************************************************************)
EXTENDS Integers, SequencesExt, FiniteSetsExt, FiniteSetTheorems, WellFoundedInduction, TLAPS

\* A nonempty set of naturals has a least element.
LEMMA Least ==
    ASSUME NEW S \in SUBSET Nat, S # {}
    PROVE  \E m \in S : \A k \in S : m <= k
  <1> DEFINE R == {ss \in Nat \X Nat : ss[1] < ss[2]}
  <1>1. IsWellFoundedOn(R, Nat)
    BY NatLessThanWellFounded DEF OpToRel
  <1> HIDE DEF R
  <1>2. PICK m \in S : \A k \in S : <<k, m>> \notin R
    BY <1>1, WFMin, Zenon
  <1>3. ASSUME NEW k \in S, k < m PROVE FALSE
    BY <1>2, <1>3 DEF R
  <1> QED
    BY <1>2, <1>3

\* Induction up to n: a set that holds 0 and with each number the next one.
LEMMA UpTo ==
    ASSUME NEW n \in Nat, NEW S, 0 \in S, \A i \in 0 .. n - 1 : i \in S => i + 1 \in S
    PROVE  0 .. n \subseteq S
  <1> DEFINE Bad == {i \in 0 .. n : i \notin S}
  <1>1. SUFFICES ASSUME Bad # {} PROVE FALSE
    OBVIOUS
  <1>2. PICK m \in Bad : \A k \in Bad : m <= k
    <2>1. Bad \in SUBSET Nat
      OBVIOUS
    <2> HIDE DEF Bad
    <2> QED
      BY <1>1, <2>1, Least
  <1>3. m \in 0 .. n /\ m \notin S /\ m # 0
    BY <1>2
  <1>4. m - 1 \in 0 .. n - 1 /\ m - 1 \in 0 .. n /\ m - 1 + 1 = m /\ ~(m <= m - 1)
    BY <1>3
  <1>5. m - 1 \notin Bad
    BY <1>2, <1>4
  <1>6. m - 1 \in S
    BY <1>4, <1>5
  <1> QED
    BY <1>3, <1>4, <1>6

\* Folds over the subsets of a finite set, whatever element C takes next and
\* whatever H does with it and the fold of the others.
IsFold(S, a, C, H, g) == \A s \in SUBSET S : g[s] = IF s = {} THEN a ELSE H[<<s, g[s \ {C[s]}]>>]

LEMMA FoldsExist ==
    ASSUME NEW S, IsFiniteSet(S), NEW T, NEW a \in T,
           NEW C, \A s \in SUBSET S : s # {} => C[s] \in s,
           NEW H \in [(SUBSET S) \X T -> T]
    PROVE  \E g \in [SUBSET S -> T] : IsFold(S, a, C, H, g)
  <1> DEFINE Upto(n, g) == \A s \in SUBSET S : Cardinality(s) <= n =>
                 g[s] = IF s = {} THEN a ELSE H[<<s, g[s \ {C[s]}]>>]
             Good == {n \in Nat : \E g \in [SUBSET S -> T] : Upto(n, g)}
  <1>0. \A s \in SUBSET S : /\ IsFiniteSet(s) /\ Cardinality(s) \in Nat
                            /\ Cardinality(s) <= Cardinality(S)
                            /\ Cardinality(s) = 0 <=> s = {}
    BY FS_Subset, FS_CardinalityType, FS_EmptySet
  <1>1. ASSUME NEW n \in Nat, NEW g \in [SUBSET S -> T], n = 0 \/ Upto(n - 1, g)
        PROVE  \E h \in [SUBSET S -> T] : Upto(n, h)
    <2> DEFINE h == [s \in SUBSET S |-> IF s = {} THEN a ELSE H[<<s, g[s \ {C[s]}]>>]]
    <2>1. h \in [SUBSET S -> T]
      <3>1. ASSUME NEW s \in SUBSET S PROVE H[<<s, g[s \ {C[s]}]>>] \in T
        <4>1. s \ {C[s]} \in SUBSET S
          OBVIOUS
        <4>2. g[s \ {C[s]}] \in T
          BY <4>1
        <4> QED
          BY <4>2
      <3> QED
        BY <3>1
    <2>2. ASSUME NEW s \in SUBSET S, Cardinality(s) <= n, s # {}
          PROVE  h[s \ {C[s]}] = g[s \ {C[s]}]
      <3> DEFINE t == s \ {C[s]}
      <3>1. t \in SUBSET S /\ Cardinality(t) = Cardinality(s) - 1 /\ Cardinality(s) > 0
        <4>1. C[s] \in s /\ IsFiniteSet(s)
          BY <1>0, <2>2
        <4>2. Cardinality(t) = Cardinality(s) - 1
          <5>1. \A x : Cardinality(s \ {x}) = IF x \in s THEN Cardinality(s) - 1 ELSE Cardinality(s)
            BY <4>1, FS_RemoveElement
          <5> QED
            BY <4>1, <5>1
        <4> QED
          BY <1>0, <2>2, <4>2
      <3>2. n # 0 /\ Cardinality(t) <= n - 1
        BY <1>0, <2>2, <3>1
      <3>3. g[t] = IF t = {} THEN a ELSE H[<<t, g[t \ {C[t]}]>>]
        BY <1>1, <3>1, <3>2
      <3>4. h[t] = IF t = {} THEN a ELSE H[<<t, g[t \ {C[t]}]>>]
        BY <3>1
      <3> QED
        BY <3>3, <3>4
    <2>3. Upto(n, h)
      <3>1. ASSUME NEW s \in SUBSET S, Cardinality(s) <= n
            PROVE  h[s] = IF s = {} THEN a ELSE H[<<s, h[s \ {C[s]}]>>]
        <4>1. h[s] = IF s = {} THEN a ELSE H[<<s, g[s \ {C[s]}]>>]
          OBVIOUS
        <4>2. s # {} => h[s \ {C[s]}] = g[s \ {C[s]}]
          BY <2>2, <3>1
        <4> HIDE DEF h
        <4> QED
          BY <4>1, <4>2
      <3> HIDE DEF h
      <3> QED
        BY <3>1
    <2> QED
      BY <2>1, <2>3
  <1>2. 0 \in Good /\ \A n \in Nat : n \in Good => n + 1 \in Good
    <2>1. [s \in SUBSET S |-> a] \in [SUBSET S -> T]
      OBVIOUS
    <2> HIDE DEF Upto
    <2>2. 0 \in Good
      BY <1>1, <2>1
    <2>3. ASSUME NEW n \in Nat, n \in Good PROVE n + 1 \in Good
      <3>1. PICK g \in [SUBSET S -> T] : Upto(n, g)
        BY <2>3
      <3>2. n + 1 \in Nat /\ n + 1 - 1 = n
        OBVIOUS
      <3> DEFINE m == n + 1
      <3>4. m \in Nat /\ Upto(m - 1, g)
        <4>1. m - 1 = n
          OBVIOUS
        <4> QED
          BY <3>1, <4>1
      <3> HIDE DEF m
      <3>5. \E h \in [SUBSET S -> T] : Upto(m, h)
        BY <1>1, <3>4
      <3>3. \E h \in [SUBSET S -> T] : Upto(n + 1, h)
        BY <3>5 DEF m
      <3> QED
        BY <3>2, <3>3
    <2> QED
      BY <2>2, <2>3
  <1>3. Cardinality(S) \in Nat
    BY FS_CardinalityType
  <1>4. PICK g \in [SUBSET S -> T] : Upto(Cardinality(S), g)
    <2> HIDE DEF Upto
    <2>1. \A i \in 0 .. Cardinality(S) - 1 : i \in Nat
      OBVIOUS
    <2>2. 0 .. Cardinality(S) \subseteq Good
      <3> HIDE DEF Good
      <3> QED
        BY <1>2, <1>3, <2>1, UpTo
    <2> DEFINE c == Cardinality(S)
    <2>3. c \in Good
      <3>1. c \in 0 .. c
        BY <1>3
      <3> HIDE DEF Good, c
      <3>2. 0 .. c \subseteq Good
        BY <2>2 DEF c
      <3> QED
        BY <3>1, <3>2
    <2> QED
      BY <2>3
  <1>5. ASSUME NEW s \in SUBSET S
        PROVE  g[s] = IF s = {} THEN a ELSE H[<<s, g[s \ {C[s]}]>>]
    BY <1>0, <1>4
  <1> QED
    BY <1>5 DEF IsFold

-----------------------------------------------------------------------------
(* Sums.                                                                   *)

\* The element a fold takes next, and the functions that sum F over the subsets
\* of S the way MapThenSumSet does.
Chosen(s) == CHOOSE x \in s : TRUE
SumsUp(F, S, g) == \A s \in SUBSET S :
    g[s] = IF s = {} THEN 0 ELSE F[Chosen(s)] + g[s \ {Chosen(s)}]

LEMMA ChosenIn == \A s : s # {} => Chosen(s) \in s
  BY DEF Chosen

LEMMA SumsExist ==
    ASSUME NEW S, IsFiniteSet(S), NEW F \in [S -> Int]
    PROVE  \E g \in [SUBSET S -> Int] : SumsUp(F, S, g)
  <1> DEFINE C == [s \in SUBSET S |-> Chosen(s)]
             H == [sv \in (SUBSET S) \X Int |-> IF sv[1] = {} THEN 0 ELSE F[C[sv[1]]] + sv[2]]
  <1>1. \A s \in SUBSET S : s # {} => C[s] \in s
    BY ChosenIn
  <1>2. H \in [(SUBSET S) \X Int -> Int]
    <2>1. ASSUME NEW sv \in (SUBSET S) \X Int
          PROVE  (IF sv[1] = {} THEN 0 ELSE F[C[sv[1]]] + sv[2]) \in Int
      <3>1. sv[1] \in SUBSET S /\ sv[2] \in Int
        OBVIOUS
      <3>2. sv[1] # {} => C[sv[1]] \in S
        <4> HIDE DEF C
        <4> QED
          BY <1>1, <3>1
      <3>3. sv[1] # {} => F[C[sv[1]]] \in Int
        <4> HIDE DEF C
        <4> QED
          BY <3>2
      <3> HIDE DEF C
      <3> QED
        BY <3>1, <3>3
    <2> QED
      BY <2>1
  <1>3. PICK g \in [SUBSET S -> Int] : IsFold(S, 0, C, H, g)
    <2>1. 0 \in Int
      OBVIOUS
    <2> HIDE DEF C, H
    <2> QED
      BY <1>1, <1>2, <2>1, FoldsExist
  <1>4. ASSUME NEW s \in SUBSET S
        PROVE  g[s] = IF s = {} THEN 0 ELSE F[Chosen(s)] + g[s \ {Chosen(s)}]
    <2>1. C[s] = Chosen(s) /\ s \ {C[s]} \in SUBSET S
      OBVIOUS
    <2>2. g[s \ {C[s]}] \in Int
      BY <2>1
    <2>3. s # {} => H[<<s, g[s \ {C[s]}]>>] = F[C[s]] + g[s \ {C[s]}]
      BY <2>2
    <2> HIDE DEF C, H
    <2> QED
      BY <1>3, <2>1, <2>3 DEF IsFold
  <1> QED
    BY <1>4 DEF SumsUp

\* Any element may be taken first.
AnyFirst(F, S, g) == \A T \in SUBSET S : \A x \in T : g[T] = F[x] + g[T \ {x}]

LEMMA SumAdds ==
    ASSUME NEW S, IsFiniteSet(S), NEW F \in [S -> Int],
           NEW g \in [SUBSET S -> Int], SumsUp(F, S, g)
    PROVE  AnyFirst(F, S, g)
  <1> DEFINE Good(T) == \A x \in T : g[T] = F[x] + g[T \ {x}]
             Bad == {n \in Nat : \E T \in SUBSET S : Cardinality(T) = n /\ ~Good(T)}
  <1>0. \A s \in SUBSET S : IsFiniteSet(s) /\ Cardinality(s) \in Nat
    BY FS_Subset, FS_CardinalityType
  <1>1. \A T \in SUBSET S : \A x \in T : /\ T \ {x} \in SUBSET S
                                      /\ Cardinality(T \ {x}) = Cardinality(T) - 1
    BY <1>0, FS_RemoveElement
  <1>2. Bad = {}
    <2>1. SUFFICES ASSUME Bad # {} PROVE FALSE
      OBVIOUS
    <2>2. PICK n \in Bad : \A k \in Bad : n <= k
      <3> HIDE DEF Bad
      <3>1. Bad \in SUBSET Nat
        BY DEF Bad
      <3> QED
        BY <2>1, <3>1, Least
    <2>3. PICK T \in SUBSET S : Cardinality(T) = n /\ ~Good(T)
      <3> HIDE DEF Good
      <3> QED
        BY <2>2
    <2>4. PICK x \in T : g[T] # F[x] + g[T \ {x}]
      BY <2>3
    <2> DEFINE c == Chosen(T)
               U == T \ {c}
               V == T \ {x}
    <2>5. c \in T /\ g[T] = F[c] + g[U]
      BY <2>4, ChosenIn DEF SumsUp
    <2>6. c # x /\ x \in U /\ c \in V
      BY <2>4, <2>5
    <2>7. U \in SUBSET S /\ V \in SUBSET S /\ U \ {x} = V \ {c} /\ U \ {x} \in SUBSET S
      OBVIOUS
    <2>8. Cardinality(U) = n - 1 /\ Cardinality(V) = n - 1
      BY <1>1, <2>3, <2>5
    <2> HIDE DEF c, U, V
    <2>9. n - 1 \notin Bad
      <3> HIDE DEF Bad
      <3>1. n \in Int
        BY <2>2 DEF Bad
      <3> QED
        BY <2>2, <3>1
    <2>10. n - 1 \in Nat
      BY <1>0, <2>7, <2>8
    <2>11. Good(U) /\ Good(V)
      <3> HIDE DEF Good
      <3> QED
        BY <2>7, <2>8, <2>9, <2>10
    <2>12. g[U] = F[x] + g[U \ {x}] /\ g[V] = F[c] + g[V \ {c}]
      BY <2>6, <2>11
    <2>13. F[x] \in Int /\ F[c] \in Int /\ g[U \ {x}] \in Int
      BY <2>4, <2>5, <2>7
    <2>14. g[V] = F[c] + g[U \ {x}]
      BY <2>7, <2>12
    <2>15. g[T] = F[c] + (F[x] + g[U \ {x}])
      BY <2>5, <2>12
    <2>16. \A a, b, d \in Int : a + (b + d) = b + (a + d)
      OBVIOUS
    <2>17. g[T] = F[x] + g[V]
      BY <2>13, <2>14, <2>15, <2>16
    <2> QED
      BY <2>4, <2>17 DEF V
  <1>3. ASSUME NEW T \in SUBSET S PROVE Good(T)
    <2> HIDE DEF Good
    <2> QED
      BY <1>0, <1>2
  <1> QED
    BY <1>3 DEF AnyFirst

\* All such functions agree.
LEMMA SumsAgree ==
    ASSUME NEW S, IsFiniteSet(S), NEW F \in [S -> Int], NEW g, NEW h, SumsUp(F, S, g), SumsUp(F, S, h)
    PROVE  \A T \in SUBSET S : g[T] = h[T]
  <1> DEFINE Bad == {n \in Nat : \E T \in SUBSET S : Cardinality(T) = n /\ g[T] # h[T]}
  <1>0. \A s \in SUBSET S : IsFiniteSet(s) /\ Cardinality(s) \in Nat
    BY FS_Subset, FS_CardinalityType
  <1>2. Bad = {}
    <2>1. SUFFICES ASSUME Bad # {} PROVE FALSE
      OBVIOUS
    <2>2. PICK n \in Bad : \A k \in Bad : n <= k
      <3> HIDE DEF Bad
      <3>1. Bad \in SUBSET Nat
        BY Zenon DEF Bad
      <3> QED
        BY <2>1, <3>1, Least
    <2>3. PICK T \in SUBSET S : Cardinality(T) = n /\ g[T] # h[T]
      BY <2>2
    <2>4. T # {}
      BY <2>3 DEF SumsUp
    <2> DEFINE U == T \ {Chosen(T)}
    <2>5. U \in SUBSET S /\ g[T] = F[Chosen(T)] + g[U] /\ h[T] = F[Chosen(T)] + h[U]
      BY <2>4 DEF SumsUp
    <2>6. Cardinality(U) = n - 1
      BY <1>0, <2>3, <2>4, ChosenIn, FS_RemoveElement
    <2> HIDE DEF U
    <2>7. g[U] # h[U]
      BY <2>3, <2>5
    <2>8. n - 1 \in Nat
      BY <1>0, <2>5, <2>6
    <2>9. n - 1 \in Bad
      BY <2>5, <2>6, <2>7, <2>8
    <2>10. n <= n - 1 /\ n \in Nat
      BY <2>2, <2>9
    <2> QED
      BY <2>10
  <1> QED
    BY <1>0, <1>2

\* The sum of F over a subset T of S.
SumOver(F, S, T) == (CHOOSE g \in [SUBSET S -> Int] : SumsUp(F, S, g))[T]

LEMMA SumOverIs ==
    ASSUME NEW S, IsFiniteSet(S), NEW F \in [S -> Int]
    PROVE  \E g \in [SUBSET S -> Int] :
               SumsUp(F, S, g) /\ AnyFirst(F, S, g) /\ \A T : SumOver(F, S, T) = g[T]
  <1> DEFINE h == CHOOSE g \in [SUBSET S -> Int] : SumsUp(F, S, g)
  <1>1. h \in [SUBSET S -> Int] /\ SumsUp(F, S, h)
    BY SumsExist
  <1>2. \A T : SumOver(F, S, T) = h[T]
    BY DEF SumOver
  <1> HIDE DEF h
  <1>3. AnyFirst(F, S, h)
    BY <1>1, SumAdds
  <1> QED
    BY <1>1, <1>2, <1>3

\* A loop that adds F[n] after F[0], .., F[n - 1].
LEMMA SumOverInterval ==
    ASSUME NEW N \in Nat, NEW F \in [0 .. N - 1 -> Int]
    PROVE  /\ SumOver(F, 0 .. N - 1, 0 .. -1) = 0
           /\ \A n \in 0 .. N - 1 :
                  SumOver(F, 0 .. N - 1, 0 .. n) = F[n] + SumOver(F, 0 .. N - 1, 0 .. n - 1)
           /\ \A n \in -1 .. N - 1 : SumOver(F, 0 .. N - 1, 0 .. n) \in Int
  <1> DEFINE S == 0 .. N - 1
  <1>1. IsFiniteSet(S)
    BY FS_Interval
  <1>2. 0 .. -1 = {}
    OBVIOUS
  <1>3. \A n \in S : 0 .. n \in SUBSET S /\ n \in 0 .. n /\ (0 .. n) \ {n} = 0 .. n - 1
    OBVIOUS
  <1>4. \A n \in -1 .. N - 1 : 0 .. n \in SUBSET S
    OBVIOUS
  <1>5. F \in [S -> Int]
    OBVIOUS
  <1> HIDE DEF S
  <1>6. PICK g \in [SUBSET S -> Int] :
            SumsUp(F, S, g) /\ AnyFirst(F, S, g) /\ \A T : SumOver(F, S, T) = g[T]
    BY <1>1, <1>5, SumOverIs
  <1>7. g[0 .. -1] = 0
    <2>1. {} \in SUBSET S /\ g[{}] = 0
      BY <1>6 DEF SumsUp
    <2> QED
      BY <1>2, <2>1
  <1>8. ASSUME NEW n \in S PROVE g[0 .. n] = F[n] + g[0 .. n - 1]
    <2>1. g[0 .. n] = F[n] + g[(0 .. n) \ {n}]
      BY <1>3, <1>6 DEF AnyFirst
    <2> QED
      BY <1>3, <2>1
  <1>9. \A n \in -1 .. N - 1 : g[0 .. n] \in Int
    BY <1>4, <1>6
  <1>10. SumOver(F, S, 0 .. -1) = 0
    BY <1>6, <1>7, Zenon
  <1>11. ASSUME NEW n \in S PROVE SumOver(F, S, 0 .. n) = F[n] + SumOver(F, S, 0 .. n - 1)
    BY <1>6, <1>8, Zenon
  <1>12. ASSUME NEW n \in -1 .. N - 1 PROVE SumOver(F, S, 0 .. n) \in Int
    BY <1>6, <1>9, Zenon
  <1> QED
    BY <1>10, <1>11, <1>12, Zenon DEF S

\* The function a fold defines is such a sum.
LEMMA FoldIsSum ==
    ASSUME NEW S, IsFiniteSet(S), NEW F \in [S -> Int], NEW iter, SumsUp(F, S, iter)
    PROVE  iter[S] = SumOver(F, S, S)
  <1> DEFINE g == CHOOSE g \in [SUBSET S -> Int] : SumsUp(F, S, g)
  <1>1. SumsUp(F, S, g)
    BY SumsExist
  <1>2. \A T : SumOver(F, S, T) = g[T]
    BY DEF SumOver
  <1> HIDE DEF g
  <1> QED
    BY <1>1, <1>2, SumsAgree

-----------------------------------------------------------------------------
(* Loops.                                                                  *)

\* What a loop of n rounds computes from a, round by round.
IsLoop(f, n, a, round) == f[0] = a /\ \A i \in 1 .. n : f[i] = round[i][f[i - 1]]

\* Such a function exists.
LEMMA LoopExists ==
    ASSUME NEW S, NEW n \in Nat, NEW a \in S, NEW round \in [1 .. n -> [S -> S]]
    PROVE  \E f \in [0 .. n -> S] : IsLoop(f, n, a, round)
  <1> DEFINE Is(m, f) == f[0] = a /\ \A i \in 1 .. m : f[i] = round[i][f[i - 1]]
             Good == {m \in 0 .. n : \E f \in [0 .. m -> S] : Is(m, f)}
  <1>1. 0 \in Good
    <2> DEFINE f == [i \in 0 .. 0 |-> a]
    <2>1. f \in [0 .. 0 -> S] /\ f[0] = a /\ \A i \in 1 .. 0 : f[i] = round[i][f[i - 1]]
      OBVIOUS
    <2> HIDE DEF f
    <2>2. \E g \in [0 .. 0 -> S] : Is(0, g)
      BY <2>1
    <2> QED
      BY <2>2
  <1>2. ASSUME NEW m \in 0 .. n - 1, m \in Good PROVE m + 1 \in Good
    <2>1. PICK f \in [0 .. m -> S] : Is(m, f)
      BY <1>2
    <2> DEFINE g == [i \in 0 .. m + 1 |-> IF i = m + 1 THEN round[m + 1][f[m]] ELSE f[i]]
    <2>2. m + 1 \in 1 .. n /\ m \in Nat /\ round[m + 1] \in [S -> S] /\ f[m] \in S
      OBVIOUS
    <2>3. g \in [0 .. m + 1 -> S]
      BY <2>2
    <2>4. ASSUME NEW i \in 1 .. m + 1 PROVE g[i] = round[i][g[i - 1]]
      <3>1. i - 1 \in 0 .. m /\ i - 1 # m + 1
        BY <2>2
      <3>2. g[i - 1] = f[i - 1]
        BY <2>2, <3>1
      <3>3. CASE i = m + 1
        BY <2>2, <3>2, <3>3
      <3>4. CASE i # m + 1
        BY <2>1, <2>2, <3>2, <3>4
      <3> QED
        BY <3>3, <3>4
    <2>5. g[0] = a
      BY <2>1, <2>2
    <2>6. Is(m + 1, g)
      <3> HIDE DEF g
      <3> QED
        BY <2>4, <2>5
    <2> HIDE DEF g, Is
    <2> QED
      BY <2>2, <2>3, <2>6
  <1>3. 0 .. n \subseteq Good
    <2> HIDE DEF Good
    <2> QED
      BY <1>1, <1>2, UpTo
  <1> QED
    BY <1>3 DEF IsLoop

\* A set of sequences that is closed under concatenation holds what is flattened
\* of its members.
LEMMA FlattenIn ==
    ASSUME NEW G, \A s, t \in G : s \o t \in G, NEW n \in Nat \ {0}, NEW seqs \in [1 .. n -> G]
    PROVE  FlattenSeq(seqs) \in G
  <1>1. seqs \in Seq(G) /\ Len(seqs) = n
    OBVIOUS
  <1> DEFINE round == [i \in 1 .. n - 1 |-> [x \in G |-> x \o seqs[i + 1]]]
             body(g) == [i \in 1 .. n |-> IF i = 1 THEN seqs[i] ELSE g[i - 1] \o seqs[i]]
             flatten == CHOOSE g : g = body(g)
  <1>2. round \in [1 .. n - 1 -> [G -> G]] /\ seqs[1] \in G /\ n - 1 \in Nat
    <2>1. \A i \in 1 .. n - 1 : i + 1 \in 1 .. n
      OBVIOUS
    <2>2. \A i \in 1 .. n - 1 : seqs[i + 1] \in G
      BY <2>1
    <2>3. \A i \in 1 .. n - 1 : [x \in G |-> x \o seqs[i + 1]] \in [G -> G]
      BY <2>2
    <2> QED
      BY <2>3
  <1>3. PICK f \in [0 .. n - 1 -> G] : IsLoop(f, n - 1, seqs[1], round)
    <2> HIDE DEF round
    <2> QED
      BY <1>2, LoopExists
  <1> DEFINE g == [i \in 1 .. n |-> f[i - 1]]
  <1>4. ASSUME NEW i \in 1 .. n PROVE g[i] = body(g)[i]
    <2>1. CASE i = 1
      BY <1>3, <2>1 DEF IsLoop
    <2>2. CASE i # 1
      <3>1. i - 1 \in 1 .. n - 1 /\ i - 1 - 1 \in 0 .. n - 1 /\ i - 1 + 1 = i
        BY <2>2
      <3>2. f[i - 1 - 1] \in G /\ f[i - 1] = round[i - 1][f[i - 1 - 1]]
        BY <1>3, <3>1 DEF IsLoop
      <3>3. round[i - 1][f[i - 1 - 1]] = f[i - 1 - 1] \o seqs[i]
        BY <3>1, <3>2
      <3>4. g[i] = f[i - 1] /\ g[i - 1] = f[i - 1 - 1]
        BY <3>1
      <3> HIDE DEF round, g
      <3> QED
        BY <2>2, <3>2, <3>3, <3>4
    <2> QED
      BY <2>1, <2>2
  <1>5. g = body(g)
    BY <1>4
  <1>6. flatten = body(flatten)
    BY <1>5
  <1>7. \A i \in 1 .. n : flatten[i] = IF i = 1 THEN seqs[i] ELSE flatten[i - 1] \o seqs[i]
    <2>1. \A h : h = body(h) => \A i \in 1 .. n : h[i] = IF i = 1 THEN seqs[i] ELSE h[i - 1] \o seqs[i]
      OBVIOUS
    <2> HIDE DEF body, flatten
    <2> QED
      BY <1>6, <2>1
  <1> HIDE DEF flatten, body
  <1> DEFINE Good == {i \in Nat : i # 0 => flatten[i] \in G}
  <1>8. ASSUME NEW i \in 0 .. n - 1, i \in Good PROVE i + 1 \in Good
    <2>1. PICK k \in 1 .. n : k = i + 1 /\ k - 1 = i
      OBVIOUS
    <2>2. k # 1 => flatten[k - 1] \in G
      BY <1>8, <2>1
    <2>3. flatten[k] \in G
      BY <1>7, <2>2
    <2> QED
      BY <2>1, <2>3
  <1>9. 0 .. n \subseteq Good
    <2>1. 0 \in Good
      OBVIOUS
    <2> HIDE DEF Good
    <2> QED
      BY <1>8, <2>1, UpTo
  <1>10. flatten[n] \in G
    BY <1>9
  <1>11. FlattenSeq(seqs) = flatten[n]
    BY <1>1, Zenon DEF FlattenSeq, flatten, body
  <1> QED
    BY <1>10, <1>11

-----------------------------------------------------------------------------
(* The number that digits stand for.                                       *)

Horner(base, d) == FoldLeft(LAMBDA sum, x : base * sum + x, 0, d)

\* FoldLeft takes the last element of a sequence first.
LEMMA MaxOfInterval ==
    /\ \A n \in Nat : \A s \in SUBSET (1 .. n) : s # {} => Max(s) \in s
    /\ \A n \in Nat \ {0} : Max(1 .. n) = n
  <1>1. ASSUME NEW n \in Nat, NEW s \in SUBSET (1 .. n), s # {} PROVE \E x \in s : \A y \in s : x >= y
    <2> DEFINE up == {k \in Nat : \A y \in s : y <= k}
    <2>1. n \in up
      OBVIOUS
    <2>2. PICK m \in up : \A k \in up : m <= k
      <3>1. up \in SUBSET Nat /\ up # {}
        BY <2>1
      <3> HIDE DEF up
      <3> QED
        BY <3>1, Least
    <2>3. m \in s
      <3>1. SUFFICES ASSUME m \notin s PROVE FALSE
        OBVIOUS
      <3>2. PICK z \in s : z \in 1 .. n
        BY <1>1
      <3>3. m \in Nat /\ \A y \in s : y <= m /\ y # m /\ y \in Nat
        BY <2>2, <3>1
      <3>4. m - 1 \in Nat /\ \A y \in s : y <= m - 1
        BY <3>2, <3>3
      <3>5. m - 1 \in up
        BY <3>4
      <3>6. m <= m - 1
        <4> HIDE DEF up
        <4> QED
          BY <2>2, <3>5
      <3> QED
        BY <3>3, <3>6
    <2>4. \A y \in s : m >= y
      BY <2>2
    <2> QED
      BY <2>3, <2>4
  <1>2. ASSUME NEW n \in Nat \ {0} PROVE Max(1 .. n) = n
    <2>1. \E x \in 1 .. n : \A y \in 1 .. n : x >= y
      <3>1. n \in 1 .. n /\ \A y \in 1 .. n : n >= y
        OBVIOUS
      <3> QED
        BY <3>1
    <2>2. Max(1 .. n) \in 1 .. n /\ \A y \in 1 .. n : Max(1 .. n) >= y
      BY <2>1 DEF Max
    <2> QED
      BY <2>2
  <1>3. \A n \in Nat : \A s \in SUBSET (1 .. n) : s # {} => Max(s) \in s
    BY <1>1 DEF Max
  <1> QED
    BY <1>2, <1>3

\* The value of a sequence of digits is the last one a recurrence gives.
LEMMA HornerIs ==
    ASSUME NEW base \in Nat, NEW d \in Seq(Nat), NEW v \in [0 .. Len(d) -> Nat],
           v[0] = 0, \A i \in 1 .. Len(d) : v[i] = base * v[i - 1] + d[i]
    PROVE  Horner(base, d) = v[Len(d)]
  <1> DEFINE n == Len(d)
             S == 1 .. n
             C == [s \in SUBSET S |-> Max(s)]
             H == [p \in (SUBSET S) \X Int |-> base * p[2] + (IF p[1] = {} THEN 0 ELSE d[Max(p[1])])]
             body(g) == [s \in SUBSET S |-> IF s = {} THEN 0
                                            ELSE LET x == Max(s) IN base * g[s \ {x}] + d[x]]
             iter == CHOOSE g : g = body(g)
  <1>1. n \in Nat /\ DOMAIN d = S /\ IsFiniteSet(S)
    BY FS_Interval
  <1>2. \A s \in SUBSET S : s # {} => Max(s) \in s
    BY <1>1, MaxOfInterval
  <1>3. H \in [(SUBSET S) \X Int -> Int]
    <2>1. ASSUME NEW p \in (SUBSET S) \X Int
          PROVE  base * p[2] + (IF p[1] = {} THEN 0 ELSE d[Max(p[1])]) \in Int
      <3>1. p[1] # {} => Max(p[1]) \in S
        BY <1>2
      <3>2. (IF p[1] = {} THEN 0 ELSE d[Max(p[1])]) \in Int
        BY <1>1, <3>1
      <3>3. base * p[2] \in Int
        OBVIOUS
      <3> QED
        BY <3>2, <3>3
    <2> QED
      BY <2>1
  <1>4. PICK g \in [SUBSET S -> Int] : IsFold(S, 0, C, H, g)
    <2>1. \A s \in SUBSET S : s # {} => C[s] \in s
      BY <1>2
    <2>2. 0 \in Int
      OBVIOUS
    <2> HIDE DEF H, C, S
    <2> QED
      BY <1>1, <1>3, <2>1, <2>2, FoldsExist
  <1>5. ASSUME NEW s \in SUBSET S PROVE g[s] = body(g)[s]
    <2>1. CASE s = {}
      BY <1>4, <2>1 DEF IsFold
    <2>2. CASE s # {}
      <3>1. s \ {Max(s)} \in SUBSET S /\ C[s] = Max(s)
        OBVIOUS
      <3>2. g[s \ {Max(s)}] \in Int
        BY <3>1
      <3>3. H[<<s, g[s \ {Max(s)}]>>] = base * g[s \ {Max(s)}] + d[Max(s)]
        BY <2>2, <3>2
      <3>4. g[s] = H[<<s, g[s \ {Max(s)}]>>]
        BY <1>4, <2>2, <3>1 DEF IsFold
      <3>5. body(g)[s] = base * g[s \ {Max(s)}] + d[Max(s)]
        BY <2>2
      <3> QED
        BY <3>3, <3>4, <3>5
    <2> QED
      BY <2>1, <2>2
  <1>6. g = body(g)
    BY <1>5
  <1>7. iter = body(iter)
    BY <1>6
  <1>8. \A s \in SUBSET S : iter[s] = IF s = {} THEN 0 ELSE base * iter[s \ {Max(s)}] + d[Max(s)]
    <2>1. \A h : h = body(h) =>
              \A s \in SUBSET S : h[s] = IF s = {} THEN 0 ELSE base * h[s \ {Max(s)}] + d[Max(s)]
      OBVIOUS
    <2> HIDE DEF body, iter
    <2> QED
      BY <1>7, <2>1
  <1>9. Horner(base, d) = iter[DOMAIN d]
    BY <1>1, Zenon DEF Horner, FoldLeft, MapThenFoldSet, iter, body
  <1> HIDE DEF iter, body, C, H
  <1> DEFINE Good == {i \in Nat : iter[1 .. i] = v[i]}
  <1>10. 0 \in Good
    <2>1. 1 .. 0 = {} /\ {} \in SUBSET S
      OBVIOUS
    <2> QED
      BY <1>8, <2>1
  <1>11. ASSUME NEW i \in 0 .. n - 1, i \in Good PROVE i + 1 \in Good
    <2> DEFINE k == i + 1
    <2>1. /\ k \in 1 .. n /\ k - 1 = i /\ k \in Nat \ {0} /\ 1 .. k \in SUBSET S
          /\ (1 .. k) \ {k} = 1 .. i /\ 1 .. k # {}
      <3>1. k \in 1 .. n /\ k - 1 = i /\ k \in Nat \ {0}
        BY <1>1
      <3> HIDE DEF k
      <3>2. 1 .. k \in SUBSET S
        BY <1>1, <3>1
      <3>3. (1 .. k) \ {k} = 1 .. i
        BY <3>1
      <3>4. k \in 1 .. k
        BY <3>1
      <3> QED
        BY <3>1, <3>2, <3>3, <3>4
    <2> HIDE DEF k
    <2>2. Max(1 .. k) = k
      BY <2>1, MaxOfInterval
    <2>3. iter[1 .. k] = base * iter[1 .. i] + d[k]
      BY <1>8, <2>1, <2>2
    <2>4. v[k] = base * v[i] + d[k]
      BY <2>1
    <2>5. iter[1 .. i] = v[i]
      BY <1>11
    <2>6. k \in Good
      BY <2>1, <2>3, <2>4, <2>5
    <2> QED
      BY <2>6 DEF k
  <1>12. 0 .. n \subseteq Good
    <2> HIDE DEF Good
    <2> QED
      BY <1>1, <1>10, <1>11, UpTo
  <1>13. iter[S] = v[n]
    BY <1>1, <1>12
  <1> QED
    BY <1>1, <1>9, <1>13

\* Digit by digit.
LEMMA HornerGrows ==
    ASSUME NEW base \in Nat, NEW d \in Seq(Nat), NEW x \in Nat
    PROVE  /\ Horner(base, <<>>) = 0
           /\ Horner(base, d) \in Nat
           /\ Horner(base, Append(d, x)) = base * Horner(base, d) + x
  <1> DEFINE n == Len(d)
             e == Append(d, x)
             round == [i \in 1 .. n + 1 |-> [z \in Nat |-> base * z + e[i]]]
  <1>1. /\ n \in Nat /\ e \in Seq(Nat) /\ Len(e) = n + 1 /\ e[n + 1] = x
        /\ \A i \in 1 .. n : e[i] = d[i]
    OBVIOUS
  <1>2. \A i \in 1 .. n + 1 : e[i] \in Nat
    BY <1>1
  <1> HIDE DEF e
  <1>3. \A i \in 1 .. n + 1 : \A z \in Nat : base * z + e[i] \in Nat
    BY <1>2
  <1>4. round \in [1 .. n + 1 -> [Nat -> Nat]]
    BY <1>3
  <1>5. PICK v \in [0 .. n + 1 -> Nat] : IsLoop(v, n + 1, 0, round)
    <2>1. n + 1 \in Nat /\ 0 \in Nat
      BY <1>1
    <2> HIDE DEF round
    <2> QED
      BY <1>4, <2>1, LoopExists
  <1>6. v[0] = 0 /\ \A i \in 1 .. n + 1 : v[i - 1] \in Nat /\ v[i] = base * v[i - 1] + e[i]
    <2>1. \A i \in 1 .. n + 1 : i - 1 \in 0 .. n + 1
      BY <1>1
    <2>2. \A i \in 1 .. n + 1 : v[i - 1] \in Nat
      BY <2>1
    <2>3. \A i \in 1 .. n + 1 : \A z \in Nat : round[i][z] = base * z + e[i]
      OBVIOUS
    <2> HIDE DEF round
    <2> QED
      BY <1>5, <2>2, <2>3 DEF IsLoop
  <1>7. Horner(base, e) = v[n + 1]
    <2>1. v \in [0 .. Len(e) -> Nat] /\ \A i \in 1 .. Len(e) : v[i] = base * v[i - 1] + e[i]
      BY <1>1, <1>6
    <2>2. Horner(base, e) = v[Len(e)]
      BY <1>1, <1>6, <2>1, HornerIs
    <2> QED
      BY <1>1, <2>2
  <1>8. Horner(base, d) = v[n]
    <2> DEFINE w == [i \in 0 .. n |-> v[i]]
    <2>1. \A i \in 0 .. n : w[i] = v[i] /\ v[i] \in Nat
      BY <1>1
    <2>2. w \in [0 .. n -> Nat]
      BY <2>1
    <2>3. \A i \in 1 .. n : i \in 0 .. n /\ i - 1 \in 0 .. n /\ i \in 1 .. n + 1
      BY <1>1
    <2> HIDE DEF w
    <2>4. w[0] = 0 /\ \A i \in 1 .. n : w[i] = base * w[i - 1] + d[i]
      <3>1. 0 \in 0 .. n
        BY <1>1
      <3> QED
        BY <1>1, <1>6, <2>1, <2>3, <3>1
    <2>5. Horner(base, d) = w[n]
      BY <2>2, <2>4, HornerIs
    <2>6. n \in 0 .. n
      BY <1>1
    <2> QED
      BY <2>1, <2>5, <2>6
  <1>9. Horner(base, <<>>) = 0
    <2> DEFINE z == [i \in 0 .. 0 |-> 0]
    <2>1. Len(<<>>) = 0 /\ <<>> \in Seq(Nat)
      OBVIOUS
    <2>2. z \in [0 .. Len(<<>>) -> Nat] /\ z[0] = 0
          /\ \A i \in 1 .. Len(<<>>) : z[i] = base * z[i - 1] + <<>>[i]
      BY <2>1
    <2> HIDE DEF z
    <2>3. Horner(base, <<>>) = z[Len(<<>>)]
      BY <2>1, <2>2, HornerIs
    <2> QED
      BY <2>1, <2>2, <2>3
  <1>10. v[n] \in Nat /\ v[n + 1] = base * v[n] + x
    <2>1. PICK k \in 1 .. n + 1 : k = n + 1 /\ k - 1 = n
      BY <1>1
    <2>2. v[k - 1] \in Nat /\ v[k] = base * v[k - 1] + e[k] /\ e[k] = x
      BY <1>1, <1>6, <2>1
    <2> QED
      BY <2>1, <2>2
  <1> QED
    BY <1>7, <1>8, <1>9, <1>10 DEF e

-----------------------------------------------------------------------------
(* Powers of two.                                                          *)

\* A set with one element more has twice as many subsets.
LEMMA Doubles == \A n \in Nat : 2 ^ n \in Nat /\ 2 ^ (n + 1) = 2 * 2 ^ n
  <1> SUFFICES ASSUME NEW n \in Nat PROVE 2 ^ n \in Nat /\ 2 ^ (n + 1) = 2 * 2 ^ n
    OBVIOUS
  <1> DEFINE S == 1 .. n
             T == 1 .. n + 1
             U == {X \in SUBSET T : n + 1 \in X}
  <1>1. IsFiniteSet(S) /\ Cardinality(S) = n /\ IsFiniteSet(T) /\ Cardinality(T) = n + 1
    <2>1. n \in Int /\ 1 \in Int /\ n + 1 \in Int
      OBVIOUS
    <2>2. IsFiniteSet(S) /\ IsFiniteSet(T)
      BY <2>1, FS_Interval
    <2>3. Cardinality(S) = n
      <3>1. Cardinality(S) = IF 1 > n THEN 0 ELSE n - 1 + 1
        BY <2>1, FS_Interval
      <3> QED
        BY <3>1
    <2>4. Cardinality(T) = n + 1
      <3>1. Cardinality(T) = IF 1 > n + 1 THEN 0 ELSE (n + 1) - 1 + 1
        BY <2>1, FS_Interval
      <3> QED
        BY <3>1
    <2> QED
      BY <2>2, <2>3, <2>4
  <1>2. /\ IsFiniteSet(SUBSET S) /\ Cardinality(SUBSET S) = 2 ^ n
        /\ IsFiniteSet(SUBSET T) /\ Cardinality(SUBSET T) = 2 ^ (n + 1)
    <2>1. Cardinality(SUBSET S) = 2 ^ Cardinality(S) /\ Cardinality(SUBSET T) = 2 ^ Cardinality(T)
          /\ IsFiniteSet(SUBSET S) /\ IsFiniteSet(SUBSET T)
      BY <1>1, FS_SUBSET
    <2> QED
      BY <1>1, <2>1
  <1>3. S \subseteq T /\ n + 1 \in T /\ n + 1 \notin S /\ T \ {n + 1} = S
    OBVIOUS
  <1> DEFINE f == [X \in SUBSET S |-> X \cup {n + 1}]
  <1>4. f \in Bijection(SUBSET S, U)
    <2> HIDE DEF S, T
    <2>1. f \in [SUBSET S -> U]
      BY <1>3
    <2>2. \A X, Y \in SUBSET S : f[X] = f[Y] => X = Y
      <3> SUFFICES ASSUME NEW X \in SUBSET S, NEW Y \in SUBSET S, f[X] = f[Y] PROVE X = Y
        OBVIOUS
      <3>1. X = f[X] \ {n + 1} /\ Y = f[Y] \ {n + 1}
        BY <1>3
      <3> QED
        BY <3>1
    <2>3. \A Z \in U : \E X \in SUBSET S : f[X] = Z
      <3> SUFFICES ASSUME NEW Z \in U PROVE \E X \in SUBSET S : f[X] = Z
        OBVIOUS
      <3>1. Z \ {n + 1} \in SUBSET S /\ Z = (Z \ {n + 1}) \cup {n + 1}
        BY <1>3
      <3> QED
        BY <3>1
    <2> HIDE DEF f, U
    <2> QED
      BY <2>1, <2>2, <2>3 DEF Bijection, Injection, Surjection, IsInjective
  <1>5. Cardinality(U) = Cardinality(SUBSET S) /\ IsFiniteSet(U)
    <2> HIDE DEF S, T, U, f
    <2> QED
      BY <1>2, <1>4, FS_Bijection DEF ExistsBijection
  <1>6. SUBSET T = (SUBSET S) \cup U /\ (SUBSET S) \cap U = {}
    <2> HIDE DEF S, T
    <2> QED
      BY <1>3
  <1>7. Cardinality(SUBSET T) = Cardinality(SUBSET S) + Cardinality(U)
    <2> HIDE DEF S, T, U
    <2>1. Cardinality((SUBSET S) \cup U)
              = Cardinality(SUBSET S) + Cardinality(U) - Cardinality((SUBSET S) \cap U)
      BY <1>2, <1>5, FS_Union
    <2>2. Cardinality((SUBSET S) \cap U) = 0
      BY <1>6, FS_EmptySet
    <2>3. Cardinality(SUBSET S) \in Nat /\ Cardinality(U) \in Nat
      BY <1>2, <1>5, FS_CardinalityType
    <2> DEFINE A == SUBSET S
               B == SUBSET T
    <2>4. B = A \cup U
      BY <1>6
    <2> HIDE DEF A, B
    <2>5. Cardinality(B) = Cardinality(A \cup U)
      BY <2>4
    <2> QED
      BY <2>1, <2>2, <2>3, <2>5 DEF A, B
  <1>8. Cardinality(SUBSET S) \in Nat
    BY <1>2, FS_CardinalityType
  <1> HIDE DEF S, T, U, f
  <1> QED
    BY <1>2, <1>5, <1>7, <1>8

\* Powers of two are positive, and multiply as they should.
LEMMA Powers ==
    /\ 2 ^ 0 = 1
    /\ \A n \in Nat : 2 ^ n \in Nat \ {0}
    /\ \A m, n \in Nat : 2 ^ (m + n) = 2 ^ m * 2 ^ n
    /\ \A m, n \in Nat : m <= n => \E k \in Nat \ {0} : 2 ^ n = 2 ^ m * k
  <1>1. 2 ^ 0 = 1
    <2>1. IsFiniteSet({}) /\ Cardinality({}) = 0
      BY FS_EmptySet
    <2>2. Cardinality(SUBSET {}) = 2 ^ Cardinality({})
      BY <2>1, FS_SUBSET
    <2>3. SUBSET {} = {{}}
      OBVIOUS
    <2>4. Cardinality({{}}) = 1
      BY FS_Singleton
    <2> QED
      BY <2>1, <2>2, <2>3, <2>4, Zenon
  <1>2. ASSUME NEW n \in Nat PROVE 2 ^ n \in Nat \ {0}
    <2> DEFINE S == {i \in Nat : 2 ^ i > 0}
    <2>1. 0 \in S
      BY <1>1
    <2>2. ASSUME NEW i \in 0 .. n - 1, i \in S PROVE i + 1 \in S
      <3>1. i \in Nat /\ 2 ^ i \in Nat /\ 2 ^ i > 0 /\ 2 ^ (i + 1) = 2 * 2 ^ i
        BY <2>2, Doubles
      <3> QED
        BY <3>1
    <2>3. 0 .. n \subseteq S
      <3> HIDE DEF S
      <3> QED
        BY <2>1, <2>2, UpTo
    <2>4. n \in S
      BY <2>3
    <2> QED
      BY <2>4, Doubles
  <1>3. ASSUME NEW m \in Nat, NEW n \in Nat PROVE 2 ^ (m + n) = 2 ^ m * 2 ^ n
    <2> DEFINE S == {i \in Nat : 2 ^ (m + i) = 2 ^ m * 2 ^ i}
    <2>1. 0 \in S
      <3>1. m + 0 = m /\ 2 ^ m \in Nat
        BY <1>2
      <3> QED
        BY <1>1, <3>1
    <2>2. ASSUME NEW i \in 0 .. n - 1, i \in S PROVE i + 1 \in S
      <3>1. i \in Nat /\ 2 ^ i \in Nat /\ 2 ^ (i + 1) = 2 * 2 ^ i
        BY Doubles
      <3>2. m + i \in Nat /\ m + (i + 1) = (m + i) + 1 /\ 2 ^ m \in Nat
        BY Doubles
      <3>3. 2 ^ ((m + i) + 1) = 2 * 2 ^ (m + i)
        BY <3>2, Doubles
      <3>4. 2 ^ (m + i) = 2 ^ m * 2 ^ i
        BY <2>2
      <3>5. 2 * (2 ^ m * 2 ^ i) = 2 ^ m * (2 * 2 ^ i)
        <4>1. \A x, y \in Nat : 2 * (x * y) = x * (2 * y)
          OBVIOUS
        <4> QED
          BY <3>1, <3>2, <4>1
      <3>6. 2 ^ (m + (i + 1)) = 2 ^ m * 2 ^ (i + 1)
        BY <3>1, <3>2, <3>3, <3>4, <3>5
      <3> QED
        BY <3>1, <3>6
    <2>3. 0 .. n \subseteq S
      <3> HIDE DEF S
      <3> QED
        BY <2>1, <2>2, UpTo
    <2> QED
      BY <2>3
  <1>4. ASSUME NEW m \in Nat, NEW n \in Nat, m <= n PROVE \E k \in Nat \ {0} : 2 ^ n = 2 ^ m * k
    <2>1. PICK d \in Nat : m + d = n
      <3>1. n - m \in Nat /\ m + (n - m) = n
        BY <1>4
      <3> QED
        BY <3>1
    <2> QED
      BY <1>2, <1>3, <2>1
  <1> QED
    BY <1>1, <1>2, <1>3, <1>4

-----------------------------------------------------------------------------
(* Quotients and remainders.                                               *)

LEMMA DivMod ==
    ASSUME NEW a \in Int, NEW b \in Nat \ {0}
    PROVE  a \div b \in Int /\ a % b \in 0 .. b - 1 /\ a = b * (a \div b) + (a % b)
  <1>1. a \div b \in Int /\ a % b \in Int
    OBVIOUS
  <1>2. a = b * (a \div b) + (a % b)
    OBVIOUS
  <1>3. 0 <= a % b /\ a % b < b
    OBVIOUS
  <1> QED
    BY <1>1, <1>2, <1>3

\* There is one quotient and one remainder.
LEMMA DivModIs ==
    ASSUME NEW a \in Int, NEW b \in Nat \ {0}, NEW q \in Int, NEW r \in 0 .. b - 1, a = b * q + r
    PROVE  a \div b = q /\ a % b = r
  <1> DEFINE p == a \div b
             s == a % b
  <1>1. p \in Int /\ s \in 0 .. b - 1 /\ a = b * p + s
    BY DivMod
  <1> HIDE DEF p, s
  <1>2. \A x \in Int : x >= 1 => b * x >= b
    OBVIOUS
  <1>3. p <= q
    <2>1. SUFFICES ASSUME p - q >= 1 PROVE FALSE
      BY <1>1
    <2>2. b * (p - q) >= b /\ b * (p - q) = b * p - b * q
      BY <1>1, <1>2, <2>1
    <2>3. b * p \in Int /\ b * q \in Int
      BY <1>1
    <2> QED
      BY <1>1, <2>2, <2>3
  <1>4. q <= p
    <2>1. SUFFICES ASSUME q - p >= 1 PROVE FALSE
      BY <1>1
    <2>2. b * (q - p) >= b /\ b * (q - p) = b * q - b * p
      BY <1>1, <1>2, <2>1
    <2>3. b * p \in Int /\ b * q \in Int
      BY <1>1
    <2> QED
      BY <1>1, <2>2, <2>3
  <1>5. p = q
    BY <1>1, <1>3, <1>4
  <1>6. s = r
    <2>1. b * p \in Int
      BY <1>1
    <2> QED
      BY <1>1, <1>5, <2>1
  <1> QED
    BY <1>5, <1>6 DEF p, s

\* Multiples of the divisor.
LEMMA DivModAdds ==
    ASSUME NEW a \in Int, NEW b \in Nat \ {0}, NEW k \in Int
    PROVE  (a + b * k) \div b = a \div b + k /\ (a + b * k) % b = a % b
  <1> DEFINE q == a \div b
             r == a % b
  <1>1. q \in Int /\ r \in 0 .. b - 1 /\ a = b * q + r
    BY DivMod
  <1> HIDE DEF q, r
  <1>2. a + b * k = b * (q + k) + r /\ a + b * k \in Int /\ q + k \in Int
    <2>1. b * (q + k) = b * q + b * k /\ b * q \in Int /\ b * k \in Int
      BY <1>1
    <2> QED
      BY <1>1, <2>1
  <1>3. (a + b * k) \div b = q + k /\ (a + b * k) % b = r
    BY <1>1, <1>2, DivModIs
  <1> QED
    BY <1>3 DEF q, r

\* The digit above the lower part of a number.
LEMMA ModSplit ==
    ASSUME NEW a \in Int, NEW b \in Nat \ {0}, NEW c \in Nat \ {0}
    PROVE  /\ a % (b * c) = (a % b) + ((a \div b) % c) * b
           /\ (a \div b) \div c = a \div (b * c)
  <1> DEFINE q == a \div b
             r == a % b
             p == q \div c
             s == q % c
  <1>1. q \in Int /\ r \in 0 .. b - 1 /\ a = b * q + r
    BY DivMod
  <1> HIDE DEF q, r
  <1>2. p \in Int /\ s \in 0 .. c - 1 /\ q = c * p + s
    BY <1>1, DivMod
  <1> HIDE DEF p, s
  <1>3. b * c \in Nat \ {0}
    OBVIOUS
  <1>4. a = (b * c) * p + (r + s * b)
    <2>1. b * q = b * (c * p + s) /\ b * (c * p + s) = b * (c * p) + b * s
      BY <1>2
    <2>2. b * (c * p) = (b * c) * p /\ b * s = s * b
      BY <1>2
    <2>3. b * (c * p) \in Int /\ b * s \in Int
      BY <1>2
    <2> QED
      BY <1>1, <2>1, <2>2, <2>3
  <1>5. r + s * b \in 0 .. b * c - 1
    <2>1. s * b >= 0 /\ s * b \in Int
      BY <1>2
    <2>2. s * b <= (c - 1) * b
      BY <1>2
    <2>3. (c - 1) * b = b * c - b
      OBVIOUS
    <2> QED
      BY <1>1, <1>3, <2>1, <2>2, <2>3
  <1>6. a \div (b * c) = p /\ a % (b * c) = r + s * b
    BY <1>2, <1>3, <1>4, <1>5, DivModIs
  <1> QED
    BY <1>6 DEF p, s, q, r

LEMMA SmallMod ==
    ASSUME NEW b \in Nat \ {0}, NEW x \in 0 .. b - 1
    PROVE  x \div b = 0 /\ x % b = x
  <1>1. x \in Int /\ x = b * 0 + x
    OBVIOUS
  <1>2. \A r \in 0 .. b - 1 : x = b * 0 + r => x \div b = 0 /\ x % b = r
    BY <1>1, DivModIs
  <1> QED
    BY <1>1, <1>2
=============================================================================
