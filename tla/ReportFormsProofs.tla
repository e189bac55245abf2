-------------------------- MODULE ReportFormsProofs --------------------------
(***************************************************************************)
(* Theorems about the pages of the browser, for any figures the user        *)
(* enters, any answers of the API and any number of inputs, posts and       *)
(* requests: the signing page, the declaration, the plan of the EEA13, what *)
(* every form hands to the autosave, the totals of the matrices, the flags  *)
(* and the comparison, and the figures of the dashboards.                   *)
(*                                                                         *)
(* A step of one page leaves the state of the others alone, so each page    *)
(* has an inductive invariant of its own.                                   *)
(***************************************************************************)
EXTENDS ReportForms, SequenceTheorems, FiniteSetTheorems, WellFoundedInduction, TLAPS
(***************************************************************************)
(* Sums. The community module sums over a set in an order of its own; the   *)
(* order does not matter, and a table has one sum by its rows and by its    *)
(* columns.                                                                 *)
(***************************************************************************)
\* What the empty set has, and keeps with one element more, every finite set has.
LEMMA SetInduction ==
    ASSUME NEW S, IsFiniteSet(S), NEW T, {} \in T,
           \A U \in SUBSET S : \A x \in S \ U : U \in T => U \cup {x} \in T
    PROVE  S \in T
  <1> DEFINE Bad == {U \in SUBSET S : U \notin T}
  <1>1. SUFFICES ASSUME S \notin T PROVE FALSE
    OBVIOUS
  <1>2. IsWellFoundedOn(StrictSubsetOrdering(S), SUBSET S)
    BY FS_StrictSubsetOrderingWellFounded, FS_FiniteSubsetsOfFinite
  <1>3. Bad \subseteq SUBSET S /\ Bad # {}
    BY <1>1
  <1>4. PICK U \in Bad : \A V \in Bad : <<V, U>> \notin StrictSubsetOrdering(S)
    <2> HIDE DEF Bad
    <2> QED BY <1>2, <1>3, WFMin
  <1>5. PICK x \in U : TRUE
    BY <1>4
  <1>6. U \ {x} \in SUBSET S /\ U \ {x} # U
    BY <1>4, <1>5
  <1>7. <<U \ {x}, U>> \in StrictSubsetOrdering(S)
    BY <1>4, <1>6 DEF StrictSubsetOrdering
  <1>8. U \ {x} \in T
    BY <1>4, <1>6, <1>7
  <1>9. (U \ {x}) \cup {x} = U /\ x \in S \ (U \ {x})
    BY <1>4, <1>5
  <1>10. QED
    BY <1>4, <1>6, <1>8, <1>9

\* The same of the numbers: a set with 0 and with every successor has them all.
LEMMA NatSetInduction ==
    ASSUME NEW T, 0 \in T, \A n \in Nat : n \in T => n + 1 \in T
    PROVE  \A n \in Nat : n \in T
  <1> TAKE n \in Nat
  <1> DEFINE Counted == {U \in SUBSET (1..n) : Cardinality(U) \in T}
  <1>1. IsFiniteSet(1..n) /\ Cardinality(1..n) = n
    BY FS_Interval
  <1>2. {} \in Counted
    BY FS_EmptySet
  <1>3. ASSUME NEW U \in SUBSET (1..n), NEW x \in (1..n) \ U, U \in Counted
        PROVE  U \cup {x} \in Counted
    <2>1. IsFiniteSet(U) /\ Cardinality(U) \in Nat
      BY <1>1, FS_Subset, FS_CardinalityType
    <2>2. Cardinality(U \cup {x}) = Cardinality(U) + 1
      BY <1>3, <2>1, FS_AddElement
    <2>3. QED
      BY <1>3, <2>1, <2>2
  <1>4. (1..n) \in Counted
    <2> HIDE DEF Counted
    <2> QED BY <1>1, <1>2, <1>3, SetInduction
  <1>5. QED
    BY <1>1, <1>4

\* What MapThenFoldSet recurs on.
Chosen(s) == CHOOSE x \in s : TRUE
IteratesUpto(g, f, S, n) ==
    g = [s \in SUBSET S |-> IF s = {} \/ Cardinality(s) > n THEN 0
                            ELSE f[Chosen(s)] + g[s \ {Chosen(s)}]]
Iterates(iter, f, S) ==
    iter = [s \in SUBSET S |-> IF s = {} THEN 0 ELSE f[Chosen(s)] + iter[s \ {Chosen(s)}]]

\* Without the chosen element there is one less.
LEMMA Removed ==
    ASSUME NEW S, IsFiniteSet(S), NEW s \in SUBSET S, s # {}
    PROVE  /\ Chosen(s) \in s /\ s \ {Chosen(s)} \in SUBSET S
           /\ Cardinality(s) \in Nat \ {0}
           /\ Cardinality(s \ {Chosen(s)}) = Cardinality(s) - 1
  <1>1. Chosen(s) \in s
    BY DEF Chosen
  <1>2. IsFiniteSet(s) /\ Cardinality(s) \in Nat /\ Cardinality(s) # 0
    BY FS_Subset, FS_CardinalityType, FS_EmptySet
  <1>3. QED
    BY <1>1, <1>2, FS_RemoveElement

\* There is a function that sums every subset, one element after the other.
LEMMA IterExists ==
    ASSUME NEW f, NEW S, IsFiniteSet(S)
    PROVE  \E iter : Iterates(iter, f, S)
  <1> DEFINE T == {n \in Nat : \E g : IteratesUpto(g, f, S, n)}
  <1>1. 0 \in T
    <2>1. IteratesUpto([s \in SUBSET S |-> 0], f, S, 0)
      <3>1. ASSUME NEW s \in SUBSET S, s # {} PROVE Cardinality(s) > 0
        <4>1. Cardinality(s) \in Nat \ {0}
          BY <3>1, Removed
        <4>2. QED
          BY <4>1
      <3>2. QED
        BY <3>1 DEF IteratesUpto
    <2>2. QED
      BY <2>1
  <1>2. ASSUME NEW n \in Nat, n \in T PROVE n + 1 \in T
    <2>1. PICK g : IteratesUpto(g, f, S, n)
      BY <1>2
    <2> DEFINE h == [s \in SUBSET S |-> IF s = {} \/ Cardinality(s) > n + 1 THEN 0
                                        ELSE f[Chosen(s)] + g[s \ {Chosen(s)}]]
    <2>2. ASSUME NEW s \in SUBSET S, s # {}, ~(Cardinality(s) > n + 1)
          PROVE  h[s \ {Chosen(s)}] = g[s \ {Chosen(s)}]
      <3> DEFINE t == s \ {Chosen(s)}
      <3>1. t \in SUBSET S /\ Cardinality(t) \in Int /\ ~(Cardinality(t) > n) /\ ~(Cardinality(t) > n + 1)
        BY <2>2, Removed
      <3> HIDE DEF t
      <3>2. h[t] = g[t]
        BY <2>1, <3>1 DEF IteratesUpto
      <3>3. QED
        BY <3>2 DEF t
    <2>3. IteratesUpto(h, f, S, n + 1)
      <3>1. ASSUME NEW s \in SUBSET S
            PROVE  h[s] = IF s = {} \/ Cardinality(s) > n + 1 THEN 0
                          ELSE f[Chosen(s)] + h[s \ {Chosen(s)}]
        BY <2>2
      <3>2. h = [s \in SUBSET S |-> h[s]]
        OBVIOUS
      <3> HIDE DEF h
      <3>3. QED
        BY <3>1, <3>2 DEF IteratesUpto
    <2>4. QED
      <3> HIDE DEF h
      <3> QED BY <2>3
  <1>3. \A n \in Nat : n \in T
    <2> HIDE DEF T
    <2> QED BY <1>1, <1>2, NatSetInduction
  <1>4. Cardinality(S) \in Nat
    BY FS_CardinalityType
  <1>5. PICK g : IteratesUpto(g, f, S, Cardinality(S))
    BY <1>3, <1>4
  <1>6. \A s \in SUBSET S : Cardinality(s) \in Nat /\ ~(Cardinality(s) > Cardinality(S))
    <2>1. \A s \in SUBSET S : Cardinality(s) \in Nat /\ Cardinality(s) <= Cardinality(S)
      BY FS_Subset, FS_CardinalityType
    <2>2. QED BY <1>4, <2>1
  <1>7. Iterates(g, f, S)
    BY <1>5, <1>6 DEF Iterates, IteratesUpto
  <1>8. QED
    BY <1>7

\* Two such functions agree on the subsets both have.
LEMMA IterUnique ==
    ASSUME NEW f, NEW S, IsFiniteSet(S), NEW U \in SUBSET S, NEW g, NEW h,
           Iterates(g, f, S), Iterates(h, f, U)
    PROVE  g[U] = h[U]
  <1> DEFINE T == {n \in Nat : \A s \in SUBSET U : Cardinality(s) = n => g[s] = h[s]}
  <1>1. IsFiniteSet(U) /\ Cardinality(U) \in Nat
    BY FS_Subset, FS_CardinalityType
  <1>2. ASSUME NEW s \in SUBSET U, s # {}, g[s \ {Chosen(s)}] = h[s \ {Chosen(s)}]
        PROVE  g[s] = h[s]
    BY <1>2 DEF Iterates
  <1>3. g[{}] = h[{}]
    BY DEF Iterates
  <1>4. 0 \in T
    BY <1>1, <1>3, Removed
  <1>5. ASSUME NEW n \in Nat, n \in T PROVE n + 1 \in T
    <2>1. ASSUME NEW s \in SUBSET U, Cardinality(s) = n + 1 PROVE g[s] = h[s]
      <3>1. CASE s = {}
        BY <3>1, <1>3
      <3>2. CASE s # {}
        <4>1. s \ {Chosen(s)} \in SUBSET U /\ Cardinality(s \ {Chosen(s)}) = n
          BY <1>1, <2>1, <3>2, Removed
        <4>2. QED
          BY <1>2, <1>5, <3>2, <4>1
      <3>3. QED
        BY <3>1, <3>2
    <2>2. QED
      BY <2>1
  <1>6. \A n \in Nat : n \in T
    <2> HIDE DEF T
    <2> QED BY <1>4, <1>5, NatSetInduction
  <1>7. QED
    BY <1>1, <1>6

\* A sum of the community module is what such a function returns.
LEMMA SumIter ==
    ASSUME NEW f, NEW S, IsFiniteSet(S)
    PROVE  \E iter : Iterates(iter, f, S) /\ SumFunctionOnSet(f, S) = iter[S]
  <1> DEFINE it == CHOOSE iter : Iterates(iter, f, S)
  <1>1. SumFunctionOnSet(f, S) = it[S]
    BY DEF SumFunctionOnSet, FoldFunctionOnSet, MapThenFoldSet, Iterates, Chosen
  <1>2. Iterates(it, f, S)
    BY IterExists
  <1>3. QED
    BY <1>1, <1>2

\* So a sum is the chosen element and the sum of the others.
LEMMA SumStep ==
    ASSUME NEW f, NEW S, IsFiniteSet(S)
    PROVE  SumFunctionOnSet(f, S) =
              IF S = {} THEN 0
              ELSE f[Chosen(S)] + SumFunctionOnSet(f, S \ {Chosen(S)})
  <1>1. PICK g : Iterates(g, f, S) /\ SumFunctionOnSet(f, S) = g[S]
    BY SumIter
  <1>2. CASE S = {}
    BY <1>1, <1>2 DEF Iterates
  <1>3. CASE S # {}
    <2> DEFINE U == S \ {Chosen(S)}
    <2>1. U \in SUBSET S /\ IsFiniteSet(U)
      BY FS_Subset
    <2>2. PICK h : Iterates(h, f, U) /\ SumFunctionOnSet(f, U) = h[U]
      BY <2>1, SumIter
    <2>3. g[U] = h[U]
      BY <1>1, <2>1, <2>2, IterUnique
    <2>4. g[S] = f[Chosen(S)] + g[U]
      BY <1>1, <1>3 DEF Iterates
    <2>5. QED
      BY <1>1, <1>3, <2>2, <2>3, <2>4
  <1>4. QED
    BY <1>2, <1>3

\* A sum of integers is an integer.
LEMMA SumInt ==
    ASSUME NEW f, NEW S, IsFiniteSet(S), \A x \in S : f[x] \in Int
    PROVE  SumFunctionOnSet(f, S) \in Int
  <1> DEFINE T == {n \in Nat : \A U \in SUBSET S :
                      Cardinality(U) = n => SumFunctionOnSet(f, U) \in Int}
  <1>1. \A U \in SUBSET S : IsFiniteSet(U) /\ Cardinality(U) \in Nat
    BY FS_Subset, FS_CardinalityType
  <1>2. 0 \in T
    <2>1. ASSUME NEW U \in SUBSET S, Cardinality(U) = 0 PROVE SumFunctionOnSet(f, U) = 0
      BY <1>1, <2>1, FS_EmptySet, SumStep
    <2>2. QED
      BY <2>1
  <1>3. ASSUME NEW n \in Nat, n \in T PROVE n + 1 \in T
    <2>1. ASSUME NEW U \in SUBSET S, Cardinality(U) = n + 1
          PROVE  SumFunctionOnSet(f, U) \in Int
      <3>1. U # {}
        BY <2>1, FS_EmptySet
      <3>2. /\ Chosen(U) \in S /\ U \ {Chosen(U)} \in SUBSET S
            /\ Cardinality(U \ {Chosen(U)}) = n
        BY <2>1, <3>1, Removed
      <3>3. SumFunctionOnSet(f, U \ {Chosen(U)}) \in Int
        BY <1>3, <3>2
      <3>4. QED
        BY <1>1, <3>1, <3>2, <3>3, SumStep
    <2>2. QED
      BY <2>1
  <1>4. \A n \in Nat : n \in T
    <2> HIDE DEF T
    <2> QED BY <1>2, <1>3, NatSetInduction
  <1>5. QED
    BY <1>1, <1>4

\* Nothing sums to 0.
LEMMA SumEmpty == \A f : SumFunctionOnSet(f, {}) = 0
  BY SumStep, FS_EmptySet

\* The order does not matter.
LEMMA SumRemove ==
    ASSUME NEW f, NEW S, IsFiniteSet(S), \A x \in S : f[x] \in Int, NEW e \in S
    PROVE  SumFunctionOnSet(f, S) = f[e] + SumFunctionOnSet(f, S \ {e})
  <1> DEFINE Splits(U) == \A x \in U : SumFunctionOnSet(f, U) = f[x] + SumFunctionOnSet(f, U \ {x})
             T == {n \in Nat : \A U \in SUBSET S : Cardinality(U) = n => Splits(U)}
  <1>1. \A U \in SUBSET S : IsFiniteSet(U) /\ Cardinality(U) \in Nat
    BY FS_Subset, FS_CardinalityType
  <1>2. 0 \in T
    BY <1>1, FS_EmptySet
  <1>3. ASSUME NEW n \in Nat, n \in T PROVE n + 1 \in T
    <2>1. ASSUME NEW U \in SUBSET S, Cardinality(U) = n + 1, NEW x \in U
          PROVE  SumFunctionOnSet(f, U) = f[x] + SumFunctionOnSet(f, U \ {x})
      <3> DEFINE c == Chosen(U)
      <3>1. /\ c \in U /\ U \ {c} \in SUBSET S /\ Cardinality(U \ {c}) = n
            /\ IsFiniteSet(U \ {c})
        BY <1>1, <2>1, Removed
      <3>2. SumFunctionOnSet(f, U) = f[c] + SumFunctionOnSet(f, U \ {c})
        BY <1>1, <2>1, SumStep
      <3> HIDE DEF c
      <3>3. CASE x = c
        BY <3>2, <3>3
      <3>4. CASE x # c
        <4>1. /\ U \ {x} \in SUBSET S /\ Cardinality(U \ {x}) = n
              /\ c \in U \ {x} /\ x \in U \ {c}
          BY <1>1, <2>1, <3>1, <3>4, FS_RemoveElement
        <4> DEFINE V == (U \ {c}) \ {x}
        <4>2. V = (U \ {x}) \ {c} /\ V \in SUBSET S
          BY <4>1
        <4>3. SumFunctionOnSet(f, U \ {c}) = f[x] + SumFunctionOnSet(f, V)
          BY <1>3, <3>1, <4>1
        <4>4. SumFunctionOnSet(f, U \ {x}) = f[c] + SumFunctionOnSet(f, V)
          BY <1>3, <4>1, <4>2
        <4>5. f[x] \in Int /\ f[c] \in Int /\ SumFunctionOnSet(f, V) \in Int
          BY <1>1, <3>1, <4>2, SumInt
        <4>6. QED
          BY <3>2, <4>3, <4>4, <4>5
      <3>5. QED
        BY <3>3, <3>4
    <2>2. QED
      BY <2>1
  <1>4. \A n \in Nat : n \in T
    <2> HIDE DEF T
    <2> QED BY <1>2, <1>3, NatSetInduction
  <1>5. QED
    BY <1>1, <1>4

\* One element more.
LEMMA SumAdd ==
    ASSUME NEW f, NEW S, IsFiniteSet(S), NEW e, e \notin S, \A x \in S \cup {e} : f[x] \in Int
    PROVE  SumFunctionOnSet(f, S \cup {e}) = f[e] + SumFunctionOnSet(f, S)
  <1>1. IsFiniteSet(S \cup {e}) /\ (S \cup {e}) \ {e} = S
    BY FS_AddElement
  <1>2. SumFunctionOnSet(f, S \cup {e}) = f[e] + SumFunctionOnSet(f, (S \cup {e}) \ {e})
    BY <1>1, SumRemove
  <1>3. QED
    BY <1>1, <1>2

\* A sum of naturals is a natural.
LEMMA SumNat ==
    ASSUME NEW f, NEW S, IsFiniteSet(S), \A x \in S : f[x] \in Nat
    PROVE  SumFunctionOnSet(f, S) \in Nat
  <1> DEFINE T == {U \in SUBSET S : SumFunctionOnSet(f, U) \in Nat}
  <1>1. {} \in T
    BY SumEmpty
  <1>2. ASSUME NEW U \in SUBSET S, NEW x \in S \ U, U \in T PROVE U \cup {x} \in T
    <2>1. SumFunctionOnSet(f, U \cup {x}) = f[x] + SumFunctionOnSet(f, U)
      BY FS_Subset, SumAdd
    <2>2. QED
      BY <1>2, <2>1
  <1>3. S \in T
    <2> HIDE DEF T
    <2> QED BY <1>1, <1>2, SetInduction
  <1>4. QED
    BY <1>3

\* Functions that agree have the same sum.
LEMMA SumSame ==
    ASSUME NEW f, NEW g, NEW S, IsFiniteSet(S), \A x \in S : f[x] \in Int /\ f[x] = g[x]
    PROVE  SumFunctionOnSet(f, S) = SumFunctionOnSet(g, S)
  <1> DEFINE T == {U \in SUBSET S : SumFunctionOnSet(f, U) = SumFunctionOnSet(g, U)}
  <1>1. {} \in T
    BY SumEmpty
  <1>2. ASSUME NEW U \in SUBSET S, NEW x \in S \ U, U \in T PROVE U \cup {x} \in T
    <2>1. IsFiniteSet(U)
      BY FS_Subset
    <2>2. /\ SumFunctionOnSet(f, U \cup {x}) = f[x] + SumFunctionOnSet(f, U)
          /\ SumFunctionOnSet(g, U \cup {x}) = g[x] + SumFunctionOnSet(g, U)
      BY <2>1, SumAdd
    <2>3. QED
      BY <1>2, <2>2
  <1>3. S \in T
    <2> HIDE DEF T
    <2> QED BY <1>1, <1>2, SetInduction
  <1>4. QED
    BY <1>3

\* Adding cell by cell adds the sums.
LEMMA SumOfSums ==
    ASSUME NEW f, NEW g, NEW h, NEW S, IsFiniteSet(S),
           \A x \in S : f[x] \in Int /\ g[x] \in Int /\ h[x] = f[x] + g[x]
    PROVE  SumFunctionOnSet(h, S) = SumFunctionOnSet(f, S) + SumFunctionOnSet(g, S)
  <1> DEFINE T == {U \in SUBSET S : SumFunctionOnSet(h, U) =
                                       SumFunctionOnSet(f, U) + SumFunctionOnSet(g, U)}
  <1>1. {} \in T
    BY SumEmpty
  <1>2. ASSUME NEW U \in SUBSET S, NEW x \in S \ U, U \in T PROVE U \cup {x} \in T
    <2>1. IsFiniteSet(U)
      BY FS_Subset
    <2>2. /\ SumFunctionOnSet(f, U \cup {x}) = f[x] + SumFunctionOnSet(f, U)
          /\ SumFunctionOnSet(g, U \cup {x}) = g[x] + SumFunctionOnSet(g, U)
      BY <2>1, SumAdd
    <2>3. SumFunctionOnSet(h, U \cup {x}) = h[x] + SumFunctionOnSet(h, U)
      <3>1. \A y \in U \cup {x} : h[y] \in Int
        OBVIOUS
      <3>2. QED
        BY <2>1, <3>1, SumAdd
    <2>4. SumFunctionOnSet(f, U) \in Int /\ SumFunctionOnSet(g, U) \in Int
      BY <2>1, SumInt
    <2>5. QED
      BY <1>2, <2>2, <2>3, <2>4
  <1>3. S \in T
    <2> HIDE DEF T
    <2> QED BY <1>1, <1>2, SetInduction
  <1>4. QED
    BY <1>3

\* The sum over two sets that share nothing is that over the one and the other.
LEMMA SumUnion ==
    ASSUME NEW f, NEW S, NEW T, IsFiniteSet(S), IsFiniteSet(T), S \cap T = {},
           \A x \in S \cup T : f[x] \in Int
    PROVE  SumFunctionOnSet(f, S \cup T) = SumFunctionOnSet(f, S) + SumFunctionOnSet(f, T)
  <1> DEFINE Good == {U \in SUBSET T : SumFunctionOnSet(f, S \cup U) =
                                     SumFunctionOnSet(f, S) + SumFunctionOnSet(f, U)}
  <1>1. {} \in Good
    <2>1. SumFunctionOnSet(f, S) \in Int /\ S \cup {} = S
      BY SumInt
    <2>2. QED
      BY <2>1, SumEmpty
  <1>2. ASSUME NEW U \in SUBSET T, NEW x \in T \ U, U \in Good PROVE U \cup {x} \in Good
    <2>1. IsFiniteSet(U) /\ IsFiniteSet(S \cup U) /\ x \notin S \cup U
      BY FS_Subset, FS_Union
    <2>2. SumFunctionOnSet(f, U \cup {x}) = f[x] + SumFunctionOnSet(f, U)
      BY <2>1, SumAdd
    <2>3. SumFunctionOnSet(f, (S \cup U) \cup {x}) = f[x] + SumFunctionOnSet(f, S \cup U)
      BY <2>1, SumAdd
    <2>4. SumFunctionOnSet(f, U) \in Int /\ SumFunctionOnSet(f, S) \in Int /\ f[x] \in Int
      BY <2>1, SumInt
    <2>6. (S \cup U) \cup {x} = S \cup (U \cup {x})
      <3> HIDE DEF Good
      <3> QED OBVIOUS
    <2>7. SumFunctionOnSet(f, S \cup U) = SumFunctionOnSet(f, S) + SumFunctionOnSet(f, U)
      BY <1>2
    <2>8. SumFunctionOnSet(f, S \cup (U \cup {x})) =
             SumFunctionOnSet(f, S) + SumFunctionOnSet(f, U \cup {x})
      <3> HIDE DEF Good
      <3>1. SumFunctionOnSet(f, (S \cup U) \cup {x}) =
               SumFunctionOnSet(f, S) + SumFunctionOnSet(f, U \cup {x})
        BY <2>2, <2>3, <2>4, <2>7
      <3>2. QED
        BY <3>1, <2>6
    <2>5. QED
      BY <2>8
  <1>3. T \in Good
    <2> HIDE DEF Good
    <2> QED BY <1>1, <1>2, SetInduction
  <1>4. QED
    BY <1>3

\* The cells of a table, f[<<a, b>>] = g[a][b], add up by rows and by columns.
IsTable(f, g, A, B) == \A a \in A, b \in B : f[<<a, b>>] = g[a][b] /\ g[a][b] \in Int

\* The sum of a table over one row is that of the row.
LEMMA SumOfRow ==
    ASSUME NEW f, NEW g, NEW A, NEW B, IsFiniteSet(B), IsTable(f, g, A, B), NEW a \in A
    PROVE  SumFunctionOnSet(f, {a} \X B) = SumFunctionOnSet(g[a], B)
  <1> DEFINE T == {U \in SUBSET B : SumFunctionOnSet(f, {a} \X U) = SumFunctionOnSet(g[a], U)}
  <1>1. {} \in T
    <2>1. {a} \X {} = {}
      OBVIOUS
    <2>2. QED
      BY <2>1, SumEmpty
  <1>2. ASSUME NEW U \in SUBSET B, NEW x \in B \ U, U \in T PROVE U \cup {x} \in T
    <2>1. IsFiniteSet(U) /\ IsFiniteSet({a} \X U)
      BY FS_Subset, FS_Singleton, FS_Product
    <2>2. /\ <<a, x>> \notin {a} \X U
          /\ {a} \X (U \cup {x}) = ({a} \X U) \cup {<<a, x>>}
      OBVIOUS
    <2>3. \A y \in ({a} \X U) \cup {<<a, x>>} : f[y] \in Int
      BY DEF IsTable
    <2>4. SumFunctionOnSet(f, {a} \X (U \cup {x})) = f[<<a, x>>] + SumFunctionOnSet(f, {a} \X U)
      BY <2>1, <2>2, <2>3, SumAdd
    <2>5. SumFunctionOnSet(g[a], U \cup {x}) = g[a][x] + SumFunctionOnSet(g[a], U)
      BY <2>1, SumAdd DEF IsTable
    <2>6. QED
      BY <1>2, <2>4, <2>5 DEF IsTable
  <1>3. B \in T
    <2> HIDE DEF T
    <2> QED BY <1>1, <1>2, SetInduction
  <1>4. QED
    BY <1>3

\* The sum of a table is that of the sums of its rows.
LEMMA SumOfRows ==
    ASSUME NEW f, NEW g, NEW A, NEW B, IsFiniteSet(A), IsFiniteSet(B), IsTable(f, g, A, B),
           NEW h, \A a \in A : h[a] = SumFunctionOnSet(g[a], B)
    PROVE  SumFunctionOnSet(f, A \X B) = SumFunctionOnSet(h, A)
  <1> DEFINE T == {U \in SUBSET A : SumFunctionOnSet(f, U \X B) = SumFunctionOnSet(h, U)}
  <1>1. {} \in T
    <2>1. {} \X B = {}
      OBVIOUS
    <2>2. QED
      BY <2>1, SumEmpty
  <1>2. ASSUME NEW U \in SUBSET A, NEW x \in A \ U, U \in T PROVE U \cup {x} \in T
    <2>1. IsFiniteSet(U) /\ IsFiniteSet(U \X B) /\ IsFiniteSet({x} \X B)
      BY FS_Subset, FS_Singleton, FS_Product
    <2>2. /\ (U \X B) \cap ({x} \X B) = {}
          /\ (U \cup {x}) \X B = (U \X B) \cup ({x} \X B)
      OBVIOUS
    <2>3. \A y \in (U \X B) \cup ({x} \X B) : f[y] \in Int
      BY DEF IsTable
    <2>4. SumFunctionOnSet(f, (U \cup {x}) \X B) =
             SumFunctionOnSet(f, U \X B) + SumFunctionOnSet(f, {x} \X B)
      BY <2>1, <2>2, <2>3, SumUnion
    <2>5. SumFunctionOnSet(f, {x} \X B) = h[x]
      BY SumOfRow
    <2>6. \A y \in A : h[y] \in Int
      <3>1. \A y \in A : SumFunctionOnSet(g[y], B) \in Int
        BY SumInt DEF IsTable
      <3>2. QED BY <3>1
    <2>7. SumFunctionOnSet(h, U \cup {x}) = h[x] + SumFunctionOnSet(h, U)
      BY <2>1, <2>6, SumAdd
    <2>8. SumFunctionOnSet(h, U) \in Int
      BY <2>1, <2>6, SumInt
    <2>9. QED
      BY <1>2, <2>4, <2>5, <2>6, <2>7, <2>8
  <1>3. A \in T
    <2> HIDE DEF T
    <2> QED BY <1>1, <1>2, SetInduction
  <1>4. QED
    BY <1>3

\* The sum of a table is that of the sums of its columns, too.
LEMMA SumOfColumns ==
    ASSUME NEW f, NEW g, NEW A, NEW B, IsFiniteSet(A), IsFiniteSet(B), IsTable(f, g, A, B),
           NEW h, \A b \in B : h[b] = SumFunctionOnSet([a \in A |-> g[a][b]], A)
    PROVE  SumFunctionOnSet(f, A \X B) = SumFunctionOnSet(h, B)
  <1> DEFINE Col(b) == [a \in A |-> g[a][b]]
             T == {U \in SUBSET A : SumFunctionOnSet(f, U \X B) =
                      SumFunctionOnSet([b \in B |-> SumFunctionOnSet(Col(b), U)], B)}
  <1>0. \A U \in SUBSET A : IsFiniteSet(U) /\ \A b \in B : SumFunctionOnSet(Col(b), U) \in Int
    BY FS_Subset, SumInt DEF IsTable
  <1>1. {} \in T
    <2> DEFINE z == [b \in B |-> SumFunctionOnSet(Col(b), {})]
    <2>1. {} \X B = {}
      OBVIOUS
    <2>2. SumFunctionOnSet(z, B) + SumFunctionOnSet(z, B) = SumFunctionOnSet(z, B)
      <3>1. \A b \in B : z[b] = 0
        BY SumEmpty
      <3> HIDE DEF z
      <3>2. QED BY <3>1, SumOfSums
    <2>3. SumFunctionOnSet(z, B) \in Int
      BY <1>0, SumInt
    <2> HIDE DEF z
    <2>4. SumFunctionOnSet(z, B) = 0
      <3> DEFINE v == SumFunctionOnSet(z, B)
      <3>1. v + v = v /\ v \in Int
        BY <2>2, <2>3
      <3> HIDE DEF v
      <3>2. v = 0
        BY <3>1
      <3>3. QED
        BY <3>2 DEF v
    <2>5. QED
      BY <2>1, <2>4, SumEmpty DEF z
  <1>2. ASSUME NEW U \in SUBSET A, NEW x \in A \ U, U \in T PROVE U \cup {x} \in T
    <2> DEFINE old == [b \in B |-> SumFunctionOnSet(Col(b), U)]
               new == [b \in B |-> SumFunctionOnSet(Col(b), U \cup {x})]
    <2>1. IsFiniteSet(U) /\ IsFiniteSet(U \X B) /\ IsFiniteSet({x} \X B)
      BY FS_Subset, FS_Singleton, FS_Product
    <2>2. /\ (U \X B) \cap ({x} \X B) = {}
          /\ (U \cup {x}) \X B = (U \X B) \cup ({x} \X B)
      OBVIOUS
    <2>3. \A y \in (U \X B) \cup ({x} \X B) : f[y] \in Int
      BY DEF IsTable
    <2>4. SumFunctionOnSet(f, (U \cup {x}) \X B) =
             SumFunctionOnSet(f, U \X B) + SumFunctionOnSet(f, {x} \X B)
      BY <2>1, <2>2, <2>3, SumUnion
    <2>5. SumFunctionOnSet(f, {x} \X B) = SumFunctionOnSet(g[x], B)
      BY SumOfRow
    <2>6. ASSUME NEW b \in B
          PROVE  old[b] \in Int /\ g[x][b] \in Int /\ new[b] = old[b] + g[x][b]
      <3>1. SumFunctionOnSet(Col(b), U \cup {x}) = Col(b)[x] + SumFunctionOnSet(Col(b), U)
        <4>1. \A y \in U \cup {x} : Col(b)[y] \in Int
          BY DEF IsTable
        <4> HIDE DEF Col
        <4>2. QED
          BY <2>1, <4>1, SumAdd
      <3>2. Col(b)[x] = g[x][b] /\ g[x][b] \in Int
        BY DEF IsTable
      <3>3. SumFunctionOnSet(Col(b), U) \in Int
        BY <1>0
      <3> HIDE DEF Col
      <3>4. QED
        BY <3>1, <3>2, <3>3
    <2> HIDE DEF old, new
    <2>7. SumFunctionOnSet(new, B) = SumFunctionOnSet(old, B) + SumFunctionOnSet(g[x], B)
      BY <2>6, SumOfSums
    <2>8. SumFunctionOnSet(f, U \X B) = SumFunctionOnSet(old, B)
      BY <1>2 DEF old
    <2>9. QED
      BY <2>4, <2>5, <2>7, <2>8 DEF new
  <1>3. A \in T
    <2> HIDE DEF T
    <2> QED BY <1>1, <1>2, SetInduction
  <1>4. SumFunctionOnSet(h, B) = SumFunctionOnSet([b \in B |-> SumFunctionOnSet(Col(b), A)], B)
    <2> DEFINE whole == [b \in B |-> SumFunctionOnSet(Col(b), A)]
    <2>1. \A b \in B : whole[b] \in Int /\ whole[b] = h[b]
      BY <1>0
    <2> HIDE DEF whole
    <2>2. SumFunctionOnSet(whole, B) = SumFunctionOnSet(h, B)
      BY <2>1, SumSame
    <2>3. QED
      BY <2>2 DEF whole
  <1>5. QED
    BY <1>3, <1>4

\* The sum of a table over one column is that of the column.
LEMMA SumOfColumn ==
    ASSUME NEW f, NEW g, NEW A, NEW B, IsFiniteSet(A), IsTable(f, g, A, B), NEW b \in B
    PROVE  SumFunctionOnSet(f, A \X {b}) = SumFunctionOnSet([a \in A |-> g[a][b]], A)
  <1> DEFINE h == [a \in A |-> g[a][b]]
  <1>1. IsTable(f, g, A, {b}) /\ IsFiniteSet({b})
    BY FS_Singleton DEF IsTable
  <1>2. \A a \in A : h[a] = SumFunctionOnSet(g[a], {b})
    <2>1. ASSUME NEW a \in A PROVE SumFunctionOnSet(g[a], {b}) = g[a][b]
      <3>1. SumFunctionOnSet(g[a], {} \cup {b}) = g[a][b] + SumFunctionOnSet(g[a], {})
        BY FS_EmptySet, SumAdd DEF IsTable
      <3>2. {} \cup {b} = {b} /\ g[a][b] \in Int
        BY DEF IsTable
      <3>3. QED
        BY <3>1, <3>2, SumEmpty
    <2>2. QED
      BY <2>1
  <1> HIDE DEF h
  <1>3. SumFunctionOnSet(f, A \X {b}) = SumFunctionOnSet(h, A)
    BY <1>1, <1>2, SumOfRows
  <1>4. QED
    BY <1>3 DEF h

(***************************************************************************)
(* The signing page.                                                        *)
(***************************************************************************)
\* A signature nobody could have missed: unless one is committed while another handler has
\* read the draft, there is one at most, what is signed stays signed, and no handler that has
\* read the draft before is left.  Whatever the page signed it hears of, or an answer was lost.
Unraced ==
    /\ signatures <= 1 /\ (signatures = 1 => form = "signed")
    /\ locked \/ answer = "signed" => form = "signed"
    /\ answer = "FormIsImmutable" \/ errors.form = "FormIsImmutable" => form = "signed"
    /\ form = "signed" => ~decided /\ writing = {} /\ \A l \in late : ~l.decided

SignInv ==
    /\ signatures \in Nat /\ others \in Nat
    /\ errors = [totp |-> errors.totp, name |-> errors.name, form |-> errors.form]
    /\ ~raced => Unraced
    /\ raced => unheard \/ others # 0
    /\ late # {} => unheard
    /\ writing # {} => others # 0
    /\ signatures # 0 => locked \/ unheard \/ answer = "signed"
    /\ request = Undefined \/ answer = Undefined
    /\ decided => request # Undefined

\* A page of which nothing was entered has signed nothing (eea2-sign).
LEMMA SignInit == Sign!Init => SignInv
  <1> SUFFICES ASSUME Sign!Init PROVE SignInv
    OBVIOUS
  <1>1. /\ errors = [totp |-> errors.totp, name |-> errors.name, form |-> errors.form]
        /\ errors.form = Undefined
    BY DEF Sign!Init, Sign!NoErrors
  <1>2. /\ request = Undefined /\ answer = Undefined /\ ~locked /\ late = {} /\ writing = {}
        /\ signatures = 0 /\ others = 0 /\ ~decided /\ ~raced
    BY DEF Sign!Init
  <1>3. QED
    BY <1>1, <1>2, UndefinedAssumption DEF SignInv, Unraced

\* A message is about one field; what is said of the form is the answer.
LEMMA MessageOfAnswer ==
    ASSUME NEW a
    PROVE  \E t, n : \E f \in {a, Undefined} :
               Sign!MessageOf(a) = [totp |-> t, name |-> n, form |-> f]
  <1>1. CASE a \in {"InvalidTotpCode", "TotpNotConfigured"}
    BY <1>1 DEF Sign!MessageOf, Sign!NoErrors
  <1>2. CASE a = "NameDoesNotMatch"
    BY <1>2 DEF Sign!MessageOf, Sign!NoErrors
  <1>3. CASE a \notin {"InvalidTotpCode", "TotpNotConfigured", "NameDoesNotMatch"}
    BY <1>3 DEF Sign!MessageOf, Sign!NoErrors
  <1>4. QED
    BY <1>1, <1>2, <1>3

\* A handler that may sign has read a draft that is not signed.
LEMMA NotSigned == ASSUME NEW posted, Sign!Refusals(posted) = {} PROVE form # "signed"
  BY DEF Sign!Refusals

\* Every step of the signing page keeps what it knows of the form.
LEMMA SignStep == SignInv /\ Sign!Next => SignInv'
  <1> SUFFICES ASSUME SignInv, Sign!Next PROVE SignInv'
    OBVIOUS
  <1> USE UndefinedAssumption DEF SignInv, Unraced
  <1>1. ASSUME NEW v \in Sign!Codes, Sign!EnterCode(v) PROVE SignInv'
    BY <1>1 DEF Sign!EnterCode, Sign!Enters, Sign!server
  <1>2. ASSUME NEW v \in Sign!Names, Sign!EnterName(v) PROVE SignInv'
    BY <1>2 DEF Sign!EnterName, Sign!Enters, Sign!server
  <1>3. ASSUME NEW v \in BOOLEAN, Sign!Confirm(v) PROVE SignInv'
    BY <1>3 DEF Sign!Confirm, Sign!Enters, Sign!server
  <1>4. CASE Sign!Submit
    BY <1>4 DEF Sign!Submit, Sign!CanSubmit, Sign!IsSubmitting, Sign!NoErrors, Sign!server
  <1>5. CASE Sign!AnswerArrives
    BY <1>5, MessageOfAnswer DEF Sign!AnswerArrives, Sign!server
  <1>6. CASE Sign!AnswerLost
    BY <1>6 DEF Sign!AnswerLost, Sign!NoErrors
  <1>7. CASE Sign!Refuse
    <2>1. PICK a \in {"InvalidTotpCode", "TotpNotConfigured", "Forbidden"} \cup Sign!Refusals(request) :
             Sign!Replies(a)
      BY <1>7 DEF Sign!Refuse
    <2>2. a # "signed" /\ (a = "FormIsImmutable" => form = "signed")
      BY DEF Sign!Refusals
    <2>3. answer = Undefined /\ request' = Undefined /\ answer' = a /\ ~decided'
      BY <1>7, <2>1 DEF Sign!Refuse, Sign!Replies
    <2>4. UNCHANGED <<form, signatures, raced, errors, locked, others, late, writing, unheard>>
      BY <1>7, <2>1 DEF Sign!Refuse, Sign!Replies
    <2>5. QED
      BY <1>7, <2>2, <2>3, <2>4 DEF Sign!Refuse
  <1>8. CASE Sign!Decide
    BY <1>8, NotSigned DEF Sign!Decide, Sign!server
  <1>9. CASE Sign!Sign
    <2>1. /\ decided /\ form' = "signed" /\ signatures' = signatures + 1 /\ ~decided'
          /\ request' = Undefined /\ answer' = "signed"
          /\ UNCHANGED <<errors, locked, others, late, writing, unheard>>
      BY <1>9 DEF Sign!Sign, Sign!Replies
    <2>2. raced' <=> raced \/ (\E l \in late : l.decided) \/ writing # {}
      BY <1>9 DEF Sign!Sign, Sign!Beside
    <2>3. Unraced => signatures = 0
      BY <2>1 DEF Unraced
    <2>4. ~raced' => Unraced'
      BY <2>1, <2>2, <2>3 DEF Unraced
    <2>5. raced' => unheard \/ others # 0
      <3>1. (\E l \in late : l.decided) => late # {}
        OBVIOUS
      <3>2. QED
        BY <2>2, <3>1
    <2>6. QED
      BY <2>1, <2>4, <2>5
  <1>10. CASE Sign!Rollback
    BY <1>10 DEF Sign!Rollback, Sign!Replies
  <1>11. ASSUME NEW l \in late, Sign!DecideLate(l) PROVE SignInv'
    BY <1>11, NotSigned DEF Sign!DecideLate
  <1>12. ASSUME NEW l \in late, Sign!SignLate(l) PROVE SignInv'
    <2>1. /\ l.decided /\ form' = "signed" /\ signatures' = signatures + 1
          /\ late' = late \ {l} /\ unheard
          /\ UNCHANGED <<request, decided, answer, errors, locked, others, writing, unheard>>
      BY <1>12 DEF Sign!SignLate
    <2>2. raced' <=> raced \/ decided \/ (\E m \in late \ {l} : m.decided) \/ writing # {}
      BY <1>12, <2>1 DEF Sign!SignLate, Sign!Beside
    <2>3. Unraced => signatures = 0
      BY <1>12, <2>1 DEF Unraced
    <2>4. ~raced' => Unraced'
      BY <2>1, <2>2, <2>3 DEF Unraced
    <2>5. QED
      BY <2>1, <2>4
  <1>13. ASSUME NEW status, Sign!OthersRead(status) PROVE SignInv'
    BY <1>13 DEF Sign!OthersRead
  <1>14. ASSUME NEW w \in writing, Sign!OthersWrite(w) PROVE SignInv'
    BY <1>14 DEF Sign!OthersWrite, Sign!Beside
  <1>15. QED
    BY <1>1, <1>2, <1>3, <1>4, <1>5, <1>6, <1>7, <1>8, <1>9, <1>10, <1>11, <1>12, <1>13, <1>14
    DEF Sign!Next

(***************************************************************************)
(* The declaration: what is posted and what is stored.                      *)
(***************************************************************************)

\* The details of a disability are there for the answer Yes alone.
Answered(p) ==
    /\ p = [race |-> p.race, gender |-> p.gender, disability |-> p.disability,
            disabilityNature |-> p.disabilityNature,
            reasonableAccommodation |-> p.reasonableAccommodation]
    /\ p.disabilityNature # "" \/ p.reasonableAccommodation = TRUE => p.disability = "Yes"

PostOf(p) ==
    /\ DOMAIN p.body = Form1!PostFields
    /\ p.body["signatureDataUrl"] = "drawn" \/ p.wiped
    /\ p.body["disabilityNature"] # Undefined \/ p.body["reasonableAccommodation"] = TRUE
          => p.body["disability"] = "Yes"

FiledAs(filed) ==
    /\ filed["declarationDate"].value = "today"
    /\ filed["foreignNational"].value = TRUE => filed["citizenshipDate"].value # Undefined
    /\ \A f \in Form1!EncryptedFields :
          filed[f].ciphertext <=> filed[f].value \notin {Undefined, Absent}

\* The page has what the section shows, and knows of a drawn signature until it is wiped.
DeclaredInv ==
    /\ formState = [details |-> formState.details, errors |-> formState.errors,
                    nationality |-> formState.nationality, pii |-> formState.pii]
    /\ Answered(formState.pii) /\ pii = formState.pii
    /\ canvas = [ink |-> canvas.ink, hasInk |-> canvas.hasInk, wiped |-> canvas.wiped]
    /\ canvas.hasInk => canvas.ink \/ canvas.wiped
    /\ \A p \in posts : PostOf(p)
    /\ stored # Undefined => FiledAs(stored)

\* An answer stays an answer when the details go with it.
LEMMA AnswersStay ==
    ASSUME NEW p, Answered(p), NEW v
    PROVE  /\ Answered([p EXCEPT !.race = v]) /\ Answered([p EXCEPT !.gender = v])
           /\ p.disability = "Yes" =>
                 /\ Answered([p EXCEPT !.disabilityNature = v])
                 /\ Answered([p EXCEPT !.reasonableAccommodation = v])
           /\ Answered([p EXCEPT !.disability = "Yes"])
           /\ Answered([p EXCEPT !.disability = v, !.disabilityNature = "",
                                 !.reasonableAccommodation = FALSE])
  <1> DEFINE answers(r, g, d, n, a) ==
               [race |-> r, gender |-> g, disability |-> d, disabilityNature |-> n,
                reasonableAccommodation |-> a]
  <1>1. ASSUME NEW r, NEW g, NEW d, NEW n, NEW a, n # "" \/ a = TRUE => d = "Yes"
        PROVE  Answered(answers(r, g, d, n, a))
    BY <1>1 DEF Answered
  <1>2. PICK r, g, d, n, a : p = answers(r, g, d, n, a)
    BY DEF Answered
  <1>3. (n # "" \/ a = TRUE) => d = "Yes"
    BY <1>2 DEF Answered
  <1>4. p.disability = d
    BY <1>2
  <1>5. [p EXCEPT !.race = v] = answers(v, g, d, n, a)
    BY <1>2
  <1>6. [p EXCEPT !.gender = v] = answers(r, v, d, n, a)
    BY <1>2
  <1>7. [p EXCEPT !.disabilityNature = v] = answers(r, g, d, v, a)
    BY <1>2
  <1>8. [p EXCEPT !.reasonableAccommodation = v] = answers(r, g, d, n, v)
    BY <1>2
  <1>9. [p EXCEPT !.disability = "Yes"] = answers(r, g, "Yes", n, a)
    BY <1>2
  <1>10. [p EXCEPT !.disability = v, !.disabilityNature = "", !.reasonableAccommodation = FALSE]
            = answers(r, g, v, "", FALSE)
    <2>1. [answers(r, g, d, n, a) EXCEPT !.disability = v] = answers(r, g, v, n, a)
      OBVIOUS
    <2>2. \A w : [answers(r, g, v, n, a) EXCEPT !.disabilityNature = w] = answers(r, g, v, w, a)
      OBVIOUS
    <2>3. \A w, x : [answers(r, g, v, w, a) EXCEPT !.reasonableAccommodation = x]
                       = answers(r, g, v, w, x)
      OBVIOUS
    <2>4. QED
      BY <1>2, <2>1, <2>2, <2>3, Zenon
  <1>11. Answered(answers(v, g, d, n, a)) /\ Answered(answers(r, v, d, n, a))
    BY <1>1, <1>3, Zenon
  <1>12. d = "Yes" => Answered(answers(r, g, d, v, a)) /\ Answered(answers(r, g, d, n, v))
    BY <1>1, <1>3, Zenon
  <1>13. Answered(answers(r, g, "Yes", n, a))
    BY <1>1, Zenon
  <1>14. Answered(answers(r, g, v, "", FALSE))
    <2>1. ~("" # "" \/ FALSE = TRUE)
      OBVIOUS
    <2>2. QED
      BY <1>1, <2>1, Zenon
  <1> HIDE DEF answers
  <1>15. QED
    BY <1>4, <1>5, <1>6, <1>7, <1>8, <1>9, <1>10, <1>11, <1>12, <1>13, <1>14, Zenon

\* What the server files of a body it accepts is dated by it, of a citizen or with a date,
\* and enciphered or withheld (declarations.ts, kms-encrypt.ts).
LEMMA Filed ==
    ASSUME NEW body, DOMAIN body = Form1!PostFields, Form1!AcceptsPost(body)
    PROVE  FiledAs(Form1!Declaration(body))
  <1> DEFINE dated == [body EXCEPT !["declarationDate"] = "today"]
             filed == Form1!Declaration(body)
  <1>1. /\ DOMAIN dated = Form1!PostFields /\ dated["declarationDate"] = "today"
        /\ dated["foreignNational"] = body["foreignNational"]
        /\ dated["citizenshipDate"] = body["citizenshipDate"]
    BY DEF Form1!PostFields, Form1!PatchableFields, Form1!PiiFields
  <1>2. \A f \in Form1!PostFields :
           /\ filed[f].value = dated[f]
           /\ filed[f].ciphertext =
                 (f \in Form1!EncryptedFields /\ dated[f] \notin {Undefined, Absent})
    BY <1>1 DEF Form1!Declaration, Form1!EncryptPii, Form1!Column
  <1>3. /\ {"declarationDate", "foreignNational", "citizenshipDate"} \subseteq Form1!PostFields
        /\ Form1!EncryptedFields \subseteq Form1!PostFields
    BY DEF Form1!PostFields, Form1!PatchableFields, Form1!PiiFields, Form1!EncryptedFields
  <1>4. body["foreignNational"] = TRUE => body["citizenshipDate"] # Undefined
    BY DEF Form1!AcceptsPost
  <1> HIDE DEF dated, filed
  <1>5. \A f \in Form1!EncryptedFields :
           filed[f].ciphertext <=> filed[f].value \notin {Undefined, Absent}
    BY <1>2, <1>3
  <1>6. QED
    BY <1>1, <1>2, <1>3, <1>4, <1>5 DEF filed, FiledAs

\* A page that was just opened has posted and filed nothing.
LEMMA DeclaredInit == Form1!Init => DeclaredInv
  <1> SUFFICES ASSUME Form1!Init PROVE DeclaredInv
    OBVIOUS
  <1>1. formState = [details |-> Form1!PersonalDetails, errors |-> {},
                     nationality |-> Form1!Nationality, pii |-> Form1!DefaultPii]
    BY DEF Form1!Init
  <1>2. pii = Form1!DefaultPii /\ canvas = Form1!EmptyCanvas /\ posts = {} /\ stored = Undefined
    BY DEF Form1!Init
  <1>3. Answered(Form1!DefaultPii)
    BY DEF Answered, Form1!DefaultPii
  <1>4. /\ canvas = [ink |-> canvas.ink, hasInk |-> canvas.hasInk, wiped |-> canvas.wiped]
        /\ ~canvas.hasInk
    BY <1>2 DEF Form1!EmptyCanvas
  <1>5. /\ formState = [details |-> formState.details, errors |-> formState.errors,
                        nationality |-> formState.nationality, pii |-> formState.pii]
        /\ formState.pii = Form1!DefaultPii
    BY <1>1
  <1>6. QED
    BY <1>2, <1>3, <1>4, <1>5, Zenon DEF DeclaredInv

\* The other sections leave the answers alone.
LEMMA OtherSections ==
    ASSUME DeclaredInv, NEW v,
           \/ formState' = [formState EXCEPT !.details = v]
           \/ formState' = [formState EXCEPT !.errors = v]
           \/ formState' = [formState EXCEPT !.nationality = v],
           UNCHANGED <<pii, canvas, posts, stored>>
    PROVE  DeclaredInv'
  <1>1. /\ formState' = [details |-> formState'.details, errors |-> formState'.errors,
                         nationality |-> formState'.nationality, pii |-> formState'.pii]
        /\ formState'.pii = formState.pii
    BY DEF DeclaredInv
  <1>2. QED
    BY <1>1, Zenon DEF DeclaredInv, PostOf, FiledAs

\* The demographic section hands its answers to the page.
LEMMA SectionAnswers ==
    ASSUME DeclaredInv, NEW next, Answered(next), Form1!Answers(next)
    PROVE  DeclaredInv'
  <1>1. formState' = [formState EXCEPT !.pii = next] /\ pii' = next
    BY DEF Form1!Answers
  <1>2. /\ formState' = [details |-> formState'.details, errors |-> formState'.errors,
                         nationality |-> formState'.nationality, pii |-> formState'.pii]
        /\ formState'.pii = next
    BY <1>1 DEF DeclaredInv
  <1>3. UNCHANGED <<canvas, posts, stored>>
    BY DEF Form1!Answers
  <1>4. QED
    BY <1>1, <1>2, <1>3, Zenon DEF DeclaredInv, PostOf, FiledAs

\* What the page posts is what was drawn and answered.
LEMMA Posted ==
    ASSUME DeclaredInv, canvas.hasInk
    PROVE  PostOf([body |-> Form1!PageBody, wiped |-> canvas.wiped])
  <1> DEFINE body == Form1!PageBody
  <1>1. DOMAIN body = Form1!PostFields
    BY DEF Form1!PageBody
  <1>2. {"signatureDataUrl", "disabilityNature", "disability", "reasonableAccommodation"}
           \subseteq Form1!PostFields
    BY DEF Form1!PostFields, Form1!PiiFields
  <1>3. \A f \in Form1!PostFields : body[f] = Form1!PageField(f)
    BY DEF Form1!PageBody
  <1>4. body["signatureDataUrl"] = Form1!ToDataURL
    <2>1. Form1!PageField("signatureDataUrl") = Form1!ToDataURL
      BY DEF Form1!PageField, Form1!PiiFields
    <2>2. QED
      BY <1>2, <1>3, <2>1
  <1>5. body["disabilityNature"] = IF pii["disabilityNature"] = "" THEN Undefined ELSE pii["disabilityNature"]
    <2>1. Form1!PageField("disabilityNature")
             = IF pii["disabilityNature"] = "" THEN Undefined ELSE pii["disabilityNature"]
      BY DEF Form1!PageField, Form1!PiiFields
    <2>2. QED
      BY <1>2, <1>3, <2>1, Zenon
  <1>6. /\ body["disability"] = pii["disability"]
        /\ body["reasonableAccommodation"] = pii["reasonableAccommodation"]
    <2>1. /\ Form1!PageField("disability") = pii["disability"]
          /\ Form1!PageField("reasonableAccommodation") = pii["reasonableAccommodation"]
      BY DEF Form1!PageField, Form1!PiiFields
    <2>2. QED
      BY <1>2, <1>3, <2>1
  <1> HIDE DEF body
  <1>7. body["disabilityNature"] # Undefined => pii["disabilityNature"] # ""
    BY <1>5, Zenon
  <1>8. /\ canvas.ink \/ canvas.wiped
        /\ pii.disabilityNature # "" \/ pii.reasonableAccommodation = TRUE => pii.disability = "Yes"
    BY Zenon DEF DeclaredInv, Answered
  <1>9. QED
    BY <1>1, <1>4, <1>6, <1>7, <1>8 DEF PostOf, body, Form1!ToDataURL

\* Every step of the declaration keeps what was answered (eea1-new, DemographicFieldsSection,
\* SignatureStep, declarations.ts).
LEMMA DeclaredStep == DeclaredInv /\ Form1!Next => DeclaredInv'
  <1> SUFFICES ASSUME DeclaredInv, Form1!Next PROVE DeclaredInv'
    OBVIOUS
  <1>0. Answered(formState.pii)
    BY DEF DeclaredInv
  <1>1. ASSUME NEW f \in {"name", "workplaceNumber"}, Form1!BlurDetail(f) PROVE DeclaredInv'
    BY <1>1, OtherSections DEF Form1!BlurDetail
  <1>2. ASSUME NEW f \in {"name", "workplaceNumber"}, NEW v \in {"valid", "invalid"},
               Form1!ChangeDetail(f, v)
        PROVE  DeclaredInv'
    BY <1>2, OtherSections DEF Form1!ChangeDetail
  <1>3. ASSUME NEW foreign \in BOOLEAN, Form1!ChangeNationality(foreign) PROVE DeclaredInv'
    <2>1. PICK v : formState' = [formState EXCEPT !.nationality = v]
      BY <1>3 DEF Form1!ChangeNationality
    <2>2. QED
      BY <1>3, <2>1, OtherSections DEF Form1!ChangeNationality
  <1>4. ASSUME NEW date \in {"", "2015-03-01"}, Form1!ChangeDate(date) PROVE DeclaredInv'
    <2>1. PICK v : formState' = [formState EXCEPT !.nationality = v]
      BY <1>4 DEF Form1!ChangeDate
    <2>2. QED
      BY <1>4, <2>1, OtherSections DEF Form1!ChangeDate
  <1>5. ASSUME NEW v \in {"stated", Absent}, Form1!ChangeRace(v) \/ Form1!ChangeGender(v)
        PROVE  DeclaredInv'
    BY <1>0, <1>5, AnswersStay, SectionAnswers DEF Form1!ChangeRace, Form1!ChangeGender
  <1>6. ASSUME NEW v \in {"Yes", "No", Absent}, Form1!ChangeDisability(v) PROVE DeclaredInv'
    <2>1. Answered(Form1!AfterDisability(v))
      BY <1>0, AnswersStay, Zenon DEF Form1!AfterDisability
    <2>2. QED
      BY <1>6, <2>1, SectionAnswers DEF Form1!ChangeDisability
  <1>7. ASSUME NEW v \in {"", "stated"}, Form1!ChangeNature(v) PROVE DeclaredInv'
    BY <1>0, <1>7, AnswersStay, SectionAnswers DEF Form1!ChangeNature, Form1!HasDetailBlock
  <1>8. ASSUME NEW v \in BOOLEAN, Form1!ChangeAccommodation(v) PROVE DeclaredInv'
    BY <1>0, <1>8, AnswersStay, SectionAnswers DEF Form1!ChangeAccommodation, Form1!HasDetailBlock
  <1>9. ASSUME NEW next, Form1!Draws(next),
               next = [ink |-> next.ink, hasInk |-> next.hasInk, wiped |-> next.wiped],
               next.hasInk => next.ink \/ next.wiped
        PROVE  DeclaredInv'
    BY <1>9, Zenon DEF Form1!Draws, DeclaredInv, PostOf, FiledAs
  <1>10. CASE Form1!Stroke
    BY <1>9, <1>10 DEF Form1!Stroke
  <1>11. CASE Form1!Clear
    BY <1>9, <1>11 DEF Form1!Clear, Form1!EmptyCanvas
  <1>12. CASE Form1!ResizeWindow
    BY <1>9, <1>12 DEF Form1!ResizeWindow
  <1>13. CASE Form1!Submit
    <2>1. PostOf([body |-> Form1!PageBody, wiped |-> canvas.wiped])
      BY <1>13, Posted DEF Form1!Submit
    <2>2. \A p \in posts' : PostOf(p)
      BY <1>13, <2>1, Zenon DEF Form1!Submit, DeclaredInv
    <2>3. UNCHANGED <<formState, pii, canvas, stored>>
      BY <1>13 DEF Form1!Submit
    <2>4. QED
      BY <2>2, <2>3, Zenon DEF DeclaredInv, PostOf, FiledAs
  <1>14. ASSUME NEW p \in posts, Form1!SubmitEnds(p) PROVE DeclaredInv'
    <2>1. stored' # Undefined => FiledAs(stored')
      <3>1. CASE stored' = stored
        BY <3>1, Zenon DEF DeclaredInv
      <3>2. CASE Form1!AcceptsPost(p.body) /\ stored' = Form1!Declaration(p.body)
        BY <3>2, Filed, Zenon DEF DeclaredInv, PostOf
      <3>3. QED
        BY <1>14, <3>1, <3>2, Zenon DEF Form1!SubmitEnds, Form1!PostDeclaration
    <2>2. \A q \in posts' : PostOf(q)
      BY <1>14, Zenon DEF Form1!SubmitEnds, DeclaredInv
    <2>3. UNCHANGED <<formState, pii, canvas>>
      BY <1>14 DEF Form1!SubmitEnds
    <2>4. QED
      BY <2>1, <2>2, <2>3, Zenon DEF DeclaredInv, PostOf, FiledAs
  <1>15. ASSUME NEW body \in OtherBodies, Form1!OtherClientPosts(body) PROVE DeclaredInv'
    <2>1. stored' # Undefined => FiledAs(stored')
      BY <1>15, Filed, BodiesAssumption, Zenon DEF Form1!OtherClientPosts, Form1!PostDeclaration
    <2>2. UNCHANGED <<formState, pii, canvas, posts>>
      BY <1>15 DEF Form1!OtherClientPosts
    <2>3. QED
      BY <2>1, <2>2, Zenon DEF DeclaredInv, PostOf, FiledAs
  <1>16. QED
    BY <1>1, <1>2, <1>3, <1>4, <1>5, <1>6, <1>7, <1>8, <1>10, <1>11, <1>12, <1>13, <1>14, <1>15
    DEF Form1!Next

(***************************************************************************)
(* What the forms hand to the autosave.                                     *)
(***************************************************************************)

\* EEA1: the details that were handed over are those the section shows.
DetailsOf(details, handed) ==
    \A f \in {"name", "workplaceNumber"} : details[f] # "" => handed[f] = details[f]

\* A citizen has no date, and the date of a foreign national is handed over once it is one.
NationalityOf(n, handed) ==
    /\ handed["foreignNational"] # Undefined => handed["foreignNational"] = n.foreignNational
    /\ ~n.foreignNational =>
          n.citizenshipDate = "" /\ handed["citizenshipDate"] \in {Undefined, Absent}
    /\ n.foreignNational /\ n.citizenshipDate # "" => handed["citizenshipDate"] = n.citizenshipDate

Handed1 ==
    /\ formState = [details |-> formState.details, errors |-> formState.errors,
                    nationality |-> formState.nationality, pii |-> formState.pii]
    /\ DOMAIN formState.details = {"name", "workplaceNumber"}
    /\ \E foreign, date, dateError :
          formState.nationality =
              [foreignNational |-> foreign, citizenshipDate |-> date, dateError |-> dateError]
    /\ DOMAIN sent = Form1!PatchableFields
    /\ DetailsOf(formState.details, sent)
    /\ NationalityOf(formState.nationality, sent)

\* A declaration that was just opened has handed over nothing.
LEMMA Handed1Init == Form1!Init => Handed1
  <1> SUFFICES ASSUME Form1!Init PROVE Handed1
    OBVIOUS
  <1>1. formState = [details |-> Form1!PersonalDetails, errors |-> {},
                     nationality |-> Form1!Nationality, pii |-> Form1!DefaultPii]
    BY DEF Form1!Init
  <1>2. /\ formState = [details |-> formState.details, errors |-> formState.errors,
                        nationality |-> formState.nationality, pii |-> formState.pii]
        /\ formState.details = Form1!PersonalDetails
        /\ formState.nationality = Form1!Nationality
    BY <1>1
  <1>3. sent = [f \in Form1!PatchableFields |-> Undefined]
    BY DEF Form1!Init
  <1>4. DOMAIN sent = Form1!PatchableFields /\ sent["foreignNational"] = Undefined
        /\ sent["citizenshipDate"] = Undefined
    BY <1>3 DEF Form1!PatchableFields
  <1>5. /\ DOMAIN Form1!PersonalDetails = {"name", "workplaceNumber"}
        /\ \A f \in {"name", "workplaceNumber"} : Form1!PersonalDetails[f] = ""
    BY DEF Form1!PersonalDetails
  <1>6. Form1!Nationality.citizenshipDate = "" /\ ~Form1!Nationality.foreignNational
    BY DEF Form1!Nationality
  <1>7. DetailsOf(formState.details, sent)
    BY <1>2, <1>5 DEF DetailsOf
  <1>8. NationalityOf(formState.nationality, sent)
    BY <1>2, <1>4, <1>6, Zenon DEF NationalityOf
  <1>9. \E foreign, date, dateError : Form1!Nationality =
              [foreignNational |-> foreign, citizenshipDate |-> date, dateError |-> dateError]
    BY Zenon DEF Form1!Nationality
  <1>10. QED
    BY <1>2, <1>4, <1>5, <1>7, <1>8, <1>9, Zenon DEF Handed1

\* Nothing else the employee does touches the fields of the two sections.
LEMMA Handed1Elsewhere ==
    ASSUME Handed1, UNCHANGED sent, NEW v,
           \/ formState' = formState
           \/ formState' = [formState EXCEPT !.errors = v]
           \/ formState' = [formState EXCEPT !.pii = v]
    PROVE  Handed1'
  <1>1. /\ formState' = [details |-> formState'.details, errors |-> formState'.errors,
                         nationality |-> formState'.nationality, pii |-> formState'.pii]
        /\ formState'.details = formState.details
        /\ formState'.nationality = formState.nationality
    BY DEF Handed1
  <1>2. \E foreign, date, dateError : formState'.nationality =
              [foreignNational |-> foreign, citizenshipDate |-> date, dateError |-> dateError]
    <2>1. PICK f, d, e : formState.nationality =
              [foreignNational |-> f, citizenshipDate |-> d, dateError |-> e]
      BY DEF Handed1
    <2>2. QED
      BY <1>1, <2>1, Zenon
  <1>3. /\ DOMAIN formState'.details = {"name", "workplaceNumber"}
        /\ DOMAIN sent' = Form1!PatchableFields
        /\ DetailsOf(formState'.details, sent') /\ NationalityOf(formState'.nationality, sent')
    BY <1>1 DEF Handed1
  <1>4. QED
    BY <1>1, <1>2, <1>3 DEF Handed1

\* A detail is handed over as it is typed (PersonalDetailsSection).
LEMMA DetailHandedOver ==
    ASSUME Handed1, NEW f \in {"name", "workplaceNumber"}, NEW v, Form1!ChangeDetail(f, v)
    PROVE  Handed1'
  <1>1. /\ formState' = [formState EXCEPT !.details = [@ EXCEPT ![f] = v]]
        /\ sent' = [sent EXCEPT ![f] = v]
    BY DEF Form1!ChangeDetail
  <1>2. /\ formState' = [details |-> formState'.details, errors |-> formState'.errors,
                         nationality |-> formState'.nationality, pii |-> formState'.pii]
        /\ formState'.details = [formState.details EXCEPT ![f] = v]
        /\ formState'.nationality = formState.nationality
    BY <1>1 DEF Handed1
  <1>3. /\ DOMAIN formState'.details = {"name", "workplaceNumber"}
        /\ DetailsOf(formState'.details, sent')
    BY <1>1, <1>2 DEF Handed1, DetailsOf, Form1!PatchableFields
  <1>4. /\ DOMAIN sent' = Form1!PatchableFields
        /\ sent'["foreignNational"] = sent["foreignNational"]
        /\ sent'["citizenshipDate"] = sent["citizenshipDate"]
    BY <1>1 DEF Handed1, Form1!PatchableFields
  <1>5. NationalityOf(formState'.nationality, sent')
    BY <1>2, <1>4, Zenon DEF Handed1, NationalityOf
  <1>6. \E foreign, date, dateError : formState'.nationality =
              [foreignNational |-> foreign, citizenshipDate |-> date, dateError |-> dateError]
    <2>1. \E foreign, date, dateError : formState.nationality =
                [foreignNational |-> foreign, citizenshipDate |-> date, dateError |-> dateError]
      BY Zenon DEF Handed1
    <2>2. QED
      BY <1>2, <2>1, Zenon
  <1>7. QED
    BY <1>2, <1>3, <1>4, <1>5, <1>6 DEF Handed1

\* A citizen's date is taken back, and the next one starts from nothing (NationalitySection).
LEMMA NationalityHandedOver ==
    ASSUME Handed1, NEW foreign \in BOOLEAN, Form1!ChangeNationality(foreign)
    PROVE  Handed1'
  <1> DEFINE old == formState.nationality
             next == IF foreign THEN [old EXCEPT !.foreignNational = TRUE] ELSE Form1!Nationality
             date == Form1!DateAfterNationality(foreign, sent["citizenshipDate"])
  <1>1. formState' = [formState EXCEPT !.nationality = next]
    BY DEF Form1!ChangeNationality
  <1>2. sent' = [sent EXCEPT !["foreignNational"] = foreign, !["citizenshipDate"] = date]
    BY DEF Form1!ChangeNationality, Handed1, Form1!PatchableFields
  <1>3. /\ \E f, d, e : next = [foreignNational |-> f, citizenshipDate |-> d, dateError |-> e]
        /\ next.foreignNational = foreign
        /\ next.citizenshipDate = IF foreign THEN old.citizenshipDate ELSE ""
    <2>1. PICK f, d, e : old = [foreignNational |-> f, citizenshipDate |-> d, dateError |-> e]
      BY DEF Handed1
    <2>2. \A w : [old EXCEPT !.foreignNational = w] =
                   [foreignNational |-> w, citizenshipDate |-> d, dateError |-> e]
      BY <2>1
    <2>3. \A w : [old EXCEPT !.foreignNational = w].foreignNational = w
      BY <2>1
    <2>4. \A w : [old EXCEPT !.foreignNational = w].citizenshipDate = old.citizenshipDate
      BY <2>1
    <2>5. CASE foreign = TRUE
      BY <2>2, <2>3, <2>4, <2>5, Zenon
    <2>6. CASE foreign = FALSE
      BY <2>6, Zenon DEF Form1!Nationality
    <2>7. QED
      BY <2>5, <2>6, Zenon
  <1>4. /\ DOMAIN sent' = Form1!PatchableFields
        /\ sent'["foreignNational"] = foreign /\ sent'["citizenshipDate"] = date
        /\ \A f \in {"name", "workplaceNumber"} : sent'[f] = sent[f]
    BY <1>2 DEF Handed1, Form1!PatchableFields
  <1> HIDE DEF next, date
  <1>5. /\ formState' = [details |-> formState'.details, errors |-> formState'.errors,
                         nationality |-> formState'.nationality, pii |-> formState'.pii]
        /\ formState'.details = formState.details
        /\ formState'.nationality = next
    BY <1>1 DEF Handed1
  <1>6. DetailsOf(formState'.details, sent')
    BY <1>4, <1>5, Zenon DEF Handed1, DetailsOf
  <1>7. NationalityOf(next, sent')
    <2>1. foreign => date = sent["citizenshipDate"]
      BY Zenon DEF date, Form1!DateAfterNationality
    <2>2. ~foreign => date = Absent
      BY Zenon DEF date, Form1!DateAfterNationality
    <2>3. CASE ~foreign
      BY <1>3, <1>4, <2>2, <2>3, Zenon DEF NationalityOf
    <2>4. CASE foreign
      <3>1. old.citizenshipDate # "" => old.foreignNational
        BY Zenon DEF Handed1, NationalityOf
      <3>2. old.citizenshipDate # "" => sent["citizenshipDate"] = old.citizenshipDate
        BY <3>1, Zenon DEF Handed1, NationalityOf
      <3>3. QED
        BY <1>3, <1>4, <2>1, <2>4, <3>2, Zenon DEF NationalityOf
    <2>5. QED
      BY <2>3, <2>4
  <1>8. QED
    BY <1>3, <1>4, <1>5, <1>6, <1>7, Zenon DEF Handed1

\* A date is handed over when it is one (NationalitySection).
LEMMA DateHandedOver ==
    ASSUME Handed1, NEW date, Form1!ChangeDate(date)
    PROVE  Handed1'
  <1> DEFINE old == formState.nationality
             next == [foreignNational |-> TRUE, citizenshipDate |-> date, dateError |-> date = ""]
             handed == IF date = "" THEN sent["citizenshipDate"] ELSE date
  <1>1. formState' = [formState EXCEPT !.nationality = next] /\ old.foreignNational
    BY DEF Form1!ChangeDate, Form1!HasDateField
  <1>2. sent' = [sent EXCEPT !["citizenshipDate"] = handed]
    BY DEF Form1!ChangeDate
  <1>3. /\ \E f, d, e : next = [foreignNational |-> f, citizenshipDate |-> d, dateError |-> e]
        /\ next.foreignNational = TRUE /\ next.citizenshipDate = date
    OBVIOUS
  <1>4. /\ DOMAIN sent' = Form1!PatchableFields
        /\ sent'["foreignNational"] = sent["foreignNational"] /\ sent'["citizenshipDate"] = handed
        /\ \A f \in {"name", "workplaceNumber"} : sent'[f] = sent[f]
    BY <1>2 DEF Handed1, Form1!PatchableFields
  <1> HIDE DEF next
  <1>5. /\ formState' = [details |-> formState'.details, errors |-> formState'.errors,
                         nationality |-> formState'.nationality, pii |-> formState'.pii]
        /\ formState'.details = formState.details
        /\ formState'.nationality = next
    BY <1>1 DEF Handed1
  <1>6. DetailsOf(formState'.details, sent')
    BY <1>4, <1>5, Zenon DEF Handed1, DetailsOf
  <1>7. NationalityOf(next, sent')
    <2>1. sent["foreignNational"] # Undefined => sent["foreignNational"] = old.foreignNational
      BY Zenon DEF Handed1, NationalityOf
    <2>2. old.foreignNational = TRUE
      BY <1>1
    <2>3. date # "" => handed = date
      BY Zenon
    <2>4. QED
      BY <1>3, <1>4, <2>1, <2>2, <2>3, Zenon DEF NationalityOf
  <1>8. QED
    BY <1>3, <1>4, <1>5, <1>6, <1>7, Zenon DEF Handed1

\* Every step of the declaration hands over what the sections show.
LEMMA Handed1Step == Handed1 /\ Form1!Next => Handed1'
  <1> SUFFICES ASSUME Handed1, Form1!Next PROVE Handed1'
    OBVIOUS
  <1>1. ASSUME NEW f \in {"name", "workplaceNumber"}, Form1!BlurDetail(f) PROVE Handed1'
    BY <1>1, Handed1Elsewhere DEF Form1!BlurDetail
  <1>2. ASSUME NEW f \in {"name", "workplaceNumber"}, NEW v \in {"valid", "invalid"},
               Form1!ChangeDetail(f, v)
        PROVE  Handed1'
    BY <1>2, DetailHandedOver
  <1>3. ASSUME NEW foreign \in BOOLEAN, Form1!ChangeNationality(foreign) PROVE Handed1'
    BY <1>3, NationalityHandedOver
  <1>4. ASSUME NEW date \in {"", "2015-03-01"}, Form1!ChangeDate(date) PROVE Handed1'
    BY <1>4, DateHandedOver
  <1>5. ASSUME NEW next, Form1!Answers(next) PROVE Handed1'
    BY <1>5, Handed1Elsewhere DEF Form1!Answers
  <1>6. ASSUME NEW v \in {"stated", Absent}, Form1!ChangeRace(v) \/ Form1!ChangeGender(v)
        PROVE  Handed1'
    BY <1>5, <1>6 DEF Form1!ChangeRace, Form1!ChangeGender
  <1>7. ASSUME NEW v \in {"Yes", "No", Absent}, Form1!ChangeDisability(v) PROVE Handed1'
    BY <1>5, <1>7 DEF Form1!ChangeDisability
  <1>8. ASSUME NEW v \in {"", "stated"}, Form1!ChangeNature(v) PROVE Handed1'
    BY <1>5, <1>8 DEF Form1!ChangeNature
  <1>9. ASSUME NEW v \in BOOLEAN, Form1!ChangeAccommodation(v) PROVE Handed1'
    BY <1>5, <1>9 DEF Form1!ChangeAccommodation
  <1>10. CASE UNCHANGED <<formState, sent>>
    BY <1>10, Handed1Elsewhere
  <1>11. CASE Form1!Stroke \/ Form1!Clear \/ Form1!ResizeWindow
    BY <1>10, <1>11 DEF Form1!Stroke, Form1!Clear, Form1!ResizeWindow, Form1!Draws
  <1>12. CASE Form1!Submit
    BY <1>10, <1>12 DEF Form1!Submit
  <1>13. ASSUME NEW p \in posts, Form1!SubmitEnds(p) PROVE Handed1'
    BY <1>10, <1>13 DEF Form1!SubmitEnds
  <1>14. ASSUME NEW body \in OtherBodies, Form1!OtherClientPosts(body) PROVE Handed1'
    BY <1>10, <1>14 DEF Form1!OtherClientPosts
  <1>15. QED
    BY <1>1, <1>2, <1>3, <1>4, <1>6, <1>7, <1>8, <1>9, <1>11, <1>12, <1>13, <1>14 DEF Form1!Next

\* EEA13: every step hands over the form as it leaves it, and none that leaves it alone does.
LEMMA Handed13Step == sent = formState /\ Form13!Next => sent' = formState'
  <1> SUFFICES ASSUME sent = formState, Form13!Next PROVE sent' = formState'
    OBVIOUS
  <1>1. ASSUME NEW next, Form13!SetStepData(next) PROVE sent' = formState'
    BY <1>1 DEF Form13!SetStepData
  <1>2. ASSUME UNCHANGED <<formState, sent>> PROVE sent' = formState'
    BY <1>2
  <1>3. ASSUME NEW setup, Form13!UpdateSetup(setup) PROVE sent' = formState'
    BY <1>1, <1>3 DEF Form13!UpdateSetup
  <1>4. CASE Form13!ChangeSetup
    BY <1>3, <1>4 DEF Form13!ChangeSetup
  <1>5. ASSUME NEW entries, NEW meta, Form13!SetBarriers(entries, meta) PROVE sent' = formState'
    BY <1>1, <1>5 DEF Form13!SetBarriers
  <1>6. CASE Form13!ChangeBarriers
    BY <1>5, <1>6 DEF Form13!ChangeBarriers
  <1>7. ASSUME NEW field, NEW n, Form13!UpdateField(field, n) PROVE sent' = formState'
    BY <1>1, <1>7 DEF Form13!UpdateField
  <1>8. ASSUME NEW i, NEW draft, Form13!SetDraft(i, draft) PROVE sent' = formState'
    BY <1>2, <1>8 DEF Form13!SetDraft
  <1>9. ASSUME NEW i, NEW goals, Form13!SetGoals(i, goals) PROVE sent' = formState'
    BY <1>1, <1>9 DEF Form13!SetGoals
  <1>10. ASSUME NEW i, Form13!SaveGoal(i) PROVE sent' = formState'
    BY <1>9, <1>10 DEF Form13!SaveGoal
  <1>11. ASSUME NEW i, NEW j, Form13!EditGoal(i, j) \/ Form13!RemoveGoal(i, j)
         PROVE  sent' = formState'
    BY <1>2, <1>9, <1>11 DEF Form13!EditGoal, Form13!RemoveGoal
  <1>12. ASSUME NEW plans, Form13!SetPlans(plans) PROVE sent' = formState'
    BY <1>1, <1>12 DEF Form13!SetPlans
  <1>13. ASSUME NEW i, NEW x, \/ Form13!ChooseKind(i, x) \/ Form13!EnterTarget(i, x) \/ Form13!Complete(i)
                             \/ Form13!ChangeYear(i, x) \/ Form13!SetReviewDate(i)
                             \/ Form13!RemoveYear(i) \/ Form13!AddYear
         PROVE  sent' = formState'
    BY <1>8, <1>12, <1>13
    DEF Form13!ChooseKind, Form13!EnterTarget, Form13!Complete, Form13!ChangeYear,
        Form13!SetReviewDate, Form13!RemoveYear, Form13!AddYear
  <1>14. ASSUME NEW field, Form13!WriteDispute(field) PROVE sent' = formState'
    BY <1>1, <1>14 DEF Form13!WriteDispute
  <1>15. ASSUME NEW s, Form13!GoTo(s) PROVE sent' = formState'
    BY <1>1, <1>2, <1>15 DEF Form13!GoTo
  <1>16. QED
    BY <1>4, <1>6, <1>7, <1>10, <1>11, <1>13, <1>14, <1>15 DEF Form13!Next

\* EEA12: what the autosave has of the three sections is what they have.
Handed12 == {"a", "b", "c"} \subseteq DOMAIN formState /\ Form12!EditsAreHandedOver

\* A form that is handed over as it is.
LEMMA Given12 ==
    ASSUME NEW next, Form12!SetStepData(next), {"a", "b", "c"} \subseteq DOMAIN next
    PROVE  Handed12'
  BY DEF Form12!SetStepData, Handed12, Form12!EditsAreHandedOver

\* A form of which other parts change is still the one that was handed over.
LEMMA Kept12 ==
    ASSUME Handed12, UNCHANGED sent, DOMAIN formState' = DOMAIN formState,
           \A s \in {"a", "b", "c"} : formState'[s] = formState[s]
    PROVE  Handed12'
  BY DEF Handed12, Form12!EditsAreHandedOver

\* The prefill hands over what it filled in, and nothing if it filled in nothing.
LEMMA Prefilled12 ==
    ASSUME Handed12, NEW s, NEW next, NEW applied, Form12!Prefill(s, next, applied),
           DOMAIN next = DOMAIN formState, \A x \in {"a", "b", "c"} : next[x] = formState[x]
    PROVE  Handed12'
  <1>1. CASE formState' = next /\ UNCHANGED sent
    BY <1>1, Kept12
  <1>2. CASE Form12!FillRows(next)
    BY <1>2, Given12 DEF Form12!FillRows, Handed12
  <1>3. QED
    BY <1>1, <1>2 DEF Form12!Prefill

\* Every step of the EEA12 hands over what the sections show.
LEMMA Handed12Step == Handed12 /\ Form12!Next => Handed12'
  <1> SUFFICES ASSUME Handed12, Form12!Next PROVE Handed12'
    OBVIOUS
  <1>1. CASE UNCHANGED <<formState, sent>>
    BY <1>1, Kept12
  <1>2. ASSUME NEW p, Form12!ChangePeriod(p) PROVE Handed12'
    BY <1>1, <1>2 DEF Form12!ChangePeriod
  <1>3. ASSUME NEW id, Form12!Link(id) PROVE Handed12'
    BY <1>1, <1>3 DEF Form12!Link
  <1>4. CASE Form12!EEA2Fails
    BY <1>1, <1>4 DEF Form12!EEA2Fails
  <1>5. CASE Form12!EEA2Arrives
    <2>1. PICK w, d : Form12!Prefill(step, [formState EXCEPT !.workforce = w, !.disability = d], prefilled)
      BY <1>5 DEF Form12!EEA2Arrives
    <2>2. QED
      BY <2>1, Prefilled12 DEF Handed12
  <1>6. ASSUME NEW entries, Form12!SetEntries(entries) PROVE Handed12'
    BY <1>6, Given12 DEF Form12!SetEntries, Handed12
  <1>7. CASE Form12!HandleAdd \/ Form12!HandleNilReturn
    BY <1>6, <1>7 DEF Form12!HandleAdd, Form12!HandleNilReturn
  <1>8. ASSUME NEW i, Form12!HandleRemove(i) \/ Form12!HandleChange(i) PROVE Handed12'
    BY <1>6, <1>8 DEF Form12!HandleRemove, Form12!HandleChange
  <1>9. ASSUME NEW k, NEW n, Form12!HandleRowChange(k, n) PROVE Handed12'
    BY <1>9, Given12 DEF Form12!HandleRowChange, Handed12
  <1>10. ASSUME NEW s, Form12!GoTo(s) PROVE Handed12'
    <2>1. CASE Form12!ShowComparison
      BY <2>1, Given12 DEF Form12!ShowComparison, Handed12
    <2>2. CASE Form12!Prefill(s, formState, FALSE)
      BY <2>2, Prefilled12
    <2>3. QED
      BY <1>10, <2>1, <2>2 DEF Form12!GoTo
  <1>11. QED
    BY <1>2, <1>3, <1>4, <1>5, <1>7, <1>8, <1>9, <1>10 DEF Form12!Next

\* EEA4: the autosave has the report, and only an EEA4 that is linked shows another section
\* than the first.
Figures4 == {"c", "d1", "d2", "e"}

Handed4 ==
    /\ Figures4 \subseteq DOMAIN formState /\ Figures4 \cup {"linked"} \subseteq DOMAIN report
    /\ step \in Form4!StepIds
    /\ report["linked"] = Undefined => step = "c"
    /\ sent = report
    /\ \A s \in Figures4 : formState[s] # Undefined => formState[s] = report[s]

\* The form and the report of a step before it hands its figures over.
Alike4(fs, rep) ==
    /\ DOMAIN fs = DOMAIN formState /\ DOMAIN rep = DOMAIN report
    /\ \A s \in Figures4 : fs[s] = formState[s] /\ rep[s] = report[s]

\* The figures of a section go to the form, the report and the autosave alike.
LEMMA Given4 ==
    ASSUME Handed4, NEW s \in Figures4, NEW fs, NEW rep, NEW data, Alike4(fs, rep),
           Form4!SetStepData(s, fs, rep, data),
           step' \in Form4!StepIds, rep["linked"] = Undefined => step' = "c"
    PROVE  Handed4'
  <1>1. /\ formState' = [fs EXCEPT ![s] = data] /\ report' = [rep EXCEPT ![s] = data]
        /\ sent' = report'
    BY DEF Form4!SetStepData, Form4!TriggerAutosave
  <1>2. s # "linked"
    BY DEF Figures4
  <1>3. QED
    BY <1>1, <1>2 DEF Handed4, Alike4

\* What leaves the figures alone keeps them handed over.
LEMMA Kept4 ==
    ASSUME Handed4, Alike4(formState', report'), report' = report \/ sent' = report',
           sent' = sent \/ sent' = report',
           step' \in Form4!StepIds, report'["linked"] = Undefined => step' = "c"
    PROVE  Handed4'
  BY DEF Handed4, Alike4

\* A section that is shown hands its figures over if they are a matrix.
LEMMA Shown4 ==
    ASSUME Handed4, NEW s \in Form4!StepIds, NEW fs, NEW rep, Alike4(fs, rep),
           Form4!ShowStep(s, fs, rep),
           rep["linked"] = Undefined => s = "c", s \in Form4!MatrixSteps \/ rep = report
    PROVE  Handed4'
  <1>1. step' = s
    BY DEF Form4!ShowStep
  <1>2. CASE s \in Form4!MatrixSteps
    <2>1. Form4!SetStepData(s, fs, rep, Form4!Mounted(s, fs))
      BY <1>2 DEF Form4!ShowStep
    <2>2. s \in Figures4
      BY <1>2 DEF Form4!MatrixSteps, Figures4
    <2>3. QED
      BY <1>1, <2>1, <2>2, Given4
  <1>3. CASE s \notin Form4!MatrixSteps
    <2>1. formState' = fs /\ report' = rep /\ sent' = sent
      BY <1>3 DEF Form4!ShowStep
    <2>2. QED
      BY <1>1, <1>3, <2>1, Kept4
  <1>4. QED
    BY <1>2, <1>3

\* Every step of the EEA4 hands over what the report says.
LEMMA Handed4Step == Handed4 /\ Form4!Next => Handed4'
  <1> SUFFICES ASSUME Handed4, Form4!Next PROVE Handed4'
    OBVIOUS
  <1>1. Alike4(formState, report)
    BY DEF Alike4
  <1>2. CASE UNCHANGED <<step, formState, sent, report>>
    BY <1>2 DEF Handed4
  <1>3. ASSUME NEW list, Form4!ListArrives(list) PROVE Handed4'
    <2>1. Alike4(Form4!Synced(list), report)
      <3>1. \A matrix : Alike4([formState EXCEPT !["eea2"] = matrix], report)
        BY DEF Alike4, Handed4, Figures4
      <3>2. QED
        BY <1>1, <3>1 DEF Form4!Synced
    <2>2. step' = step /\ step \in Form4!StepIds /\ (report["linked"] = Undefined => step = "c")
      BY <1>3 DEF Form4!ListArrives, Handed4
    <2>3. ASSUME NEW data, step \in Form4!MatrixSteps,
                 Form4!SetStepData(step, Form4!Synced(list), report, data)
          PROVE  Handed4'
      <3>1. step \in Figures4
        BY <2>3 DEF Form4!MatrixSteps, Figures4
      <3>2. QED
        BY <2>1, <2>2, <2>3, <3>1, Given4
    <2>4. CASE formState' = Form4!Synced(list) /\ UNCHANGED <<report, sent>>
      BY <2>1, <2>2, <2>4, Kept4
    <2>5. QED
      BY <1>3, <2>3, <2>4 DEF Form4!ListArrives
  <1>4. CASE Form4!LinkEEA2
    <2>1. PICK id \in Form4!EEA2Picker :
             Form4!ShowStep(step,
                 IF available[id] = Undefined THEN formState
                 ELSE [formState EXCEPT !["eea2"] = available[id]],
                 [report EXCEPT !.linked = id])
      BY <1>4 DEF Form4!LinkEEA2
    <2> DEFINE fs == IF available[id] = Undefined THEN formState
                     ELSE [formState EXCEPT !["eea2"] = available[id]]
               rep == [report EXCEPT !.linked = id]
    <2>2. step = "c"
      BY DEF Handed4, Form4!EEA2Picker, Form4!IsLinked
    <2>3. Alike4(fs, rep)
      BY DEF Alike4, Handed4, Figures4
    <2>4. "c" \in Form4!MatrixSteps /\ "c" \in Form4!StepIds
      BY DEF Form4!MatrixSteps, Form4!StepIds
    <2> HIDE DEF fs, rep
    <2>5. Form4!ShowStep("c", fs, rep)
      BY <2>1, <2>2 DEF fs, rep
    <2>6. QED
      BY <2>3, <2>4, <2>5, Shown4
  <1>5. ASSUME NEW next, Form4!Edits(next) PROVE Handed4'
    BY <1>2, <1>5 DEF Form4!Edits
  <1>6. ASSUME NEW r, NEW c, NEW v, Form4!ChangeC(r, c, v) \/ Form4!Paste(r, c, v)
        PROVE  Handed4'
    BY <1>5, <1>6 DEF Form4!ChangeC, Form4!Paste
  <1>7. ASSUME NEW r, NEW c, NEW field, NEW v, Form4!ChangeD(r, c, field, v) PROVE Handed4'
    BY <1>5, <1>7 DEF Form4!ChangeD
  <1>8. ASSUME NEW field, NEW v, Form4!ChangeE(field, v) PROVE Handed4'
    BY <1>5, <1>8 DEF Form4!ChangeE
  <1>9. CASE Form4!FillDeclaration
    BY <1>2, <1>9 DEF Form4!FillDeclaration
  <1>10. CASE Form4!Blur
    <2>1. step \in Figures4
      BY <1>10 DEF Form4!Blur, Handed4, Form4!StepIds, Form4!MatrixSteps, Figures4
    <2>2. step' = step /\ Form4!SetStepData(step, formState, report, local)
      BY <1>10 DEF Form4!Blur
    <2>3. QED
      BY <1>1, <2>1, <2>2, Given4 DEF Handed4
  <1>11. CASE Form4!Sign
    <2>1. report' = [report EXCEPT !.declared = TRUE, !.status = "pending_ceo"] /\ sent' = report'
      BY <1>11 DEF Form4!Sign, Form4!TriggerAutosave
    <2>2. UNCHANGED <<step, formState>>
      BY <1>11 DEF Form4!Sign
    <2>3. Alike4(formState', report') /\ report'["linked"] = report["linked"]
      BY <2>1, <2>2 DEF Alike4, Handed4, Figures4
    <2>4. QED
      BY <2>1, <2>2, <2>3, Kept4 DEF Handed4
  <1>12. ASSUME NEW s \in Form4!StepIds, Form4!IsLinked, Form4!GoTo(s) PROVE Handed4'
    <2>1. Form4!ShowStep(s, formState, report)
      BY <1>12 DEF Form4!GoTo
    <2>2. report["linked"] # Undefined
      BY <1>12 DEF Form4!IsLinked
    <2>3. QED
      BY <1>1, <2>1, <2>2, Shown4
  <1>13. QED
    BY <1>3, <1>4, <1>6, <1>7, <1>8, <1>9, <1>10, <1>11, <1>12 DEF Form4!Next

(***************************************************************************)
(* EEA2: the events of section C1.                                          *)
(***************************************************************************)
Values2 == Heads \cup {0}
Events2 == [cell : Form2!Cells, previousValue : Values2, newValue : Values2]

\* The rows and columns of the matrix that are edited are not those that are computed.
LEMMA EditedNotComputed ==
    /\ Form2!Editable \subseteq Form2!Rows /\ Form2!Demo \subseteq Form2!Cols
    /\ "total" \notin Form2!Demo /\ Form2!Editable \cap {"totalPermanent", "grandTotal"} = {}
  <1>1. Form2!Editable \subseteq Form2!Rows /\ Form2!Demo \subseteq Form2!Cols
    BY DEF Form2!Rows, Form2!Cols
  <1>2. Form2!Demo = Demo
    BY DEF Form2!Demo, Demo, Form2!Range, Range
  <1>3. QED
    BY <1>1, <1>2, RowsAssumption, Rows2Assumption, Zenon

\* The total of a row replaces no figure of it.
LEMMA RowTotalKeepsFigures ==
    ASSUME NEW row, NEW sum, DOMAIN row = Form2!Cols
    PROVE  /\ DOMAIN [row EXCEPT !["total"] = sum] = Form2!Cols
           /\ \A c \in Form2!Demo : [row EXCEPT !["total"] = sum][c] = row[c]
  BY EditedNotComputed

\* Computing the totals changes no cell that is edited (compute-totals.ts).
LEMMA TotalsKeepFigures ==
    ASSUME NEW g, NEW r \in Form2!Editable, DOMAIN g[r] = Form2!Cols
    PROVE  /\ DOMAIN Form2!ComputeGridTotals(g)[r] = Form2!Cols
           /\ \A c \in Form2!Demo : Form2!ComputeGridTotals(g)[r][c] = g[r][c]
  <1>1. Form2!ComputeGridTotals(g)[r] = Form2!WithRowTotal(g[r])
    BY EditedNotComputed, Zenon DEF Form2!ComputeGridTotals
  <1>2. PICK sum : Form2!WithRowTotal(g[r]) = [g[r] EXCEPT !["total"] = sum]
    BY Zenon DEF Form2!WithRowTotal
  <1>3. QED
    BY <1>1, <1>2, RowTotalKeepsFigures

\* A paste puts the figure of the clipboard into a cell, or leaves it (PasteAt).
LEMMA PasteKeepsOrPuts ==
    ASSUME NEW g, NEW r, NEW c, NEW n, NEW x \in Form2!Editable
    PROVE  LET pasted == Form2!PasteAt(g, r, c, <<<<n, n>>>>)
           IN /\ DOMAIN pasted[x] = Form2!Cols
              /\ \A y \in Form2!Demo : pasted[x][y] \in {n, g[x][y]}
  <1> DEFINE block == <<<<n, n>>>>
  <1>1. \A i \in DOMAIN block : \A j \in DOMAIN block[i] : block[i][j] = n
    OBVIOUS
  <1> HIDE DEF block
  <1>2. x \in Form2!Rows
    BY EditedNotComputed
  <1>3. DOMAIN Form2!PasteAt(g, r, c, block)[x] = Form2!Cols
    BY <1>2 DEF Form2!PasteAt
  <1>4. ASSUME NEW y \in Form2!Demo PROVE Form2!PasteAt(g, r, c, block)[x][y] \in {n, g[x][y]}
    <2>1. y \in Form2!Cols
      BY EditedNotComputed
    <2>2. QED
      BY <1>1, <1>2, <2>1 DEF Form2!PasteAt
  <1>5. QED
    BY <1>3, <1>4 DEF block

\* A new event changes nothing of where the events before it led, and where those of its
\* cell lead now is its new value.
LEMMA NewEvent ==
    ASSUME NEW events \in Seq(Events2), NEW e \in Events2, NEW cell, NEW n \in Nat, NEW v
    PROVE  LET more == Append(events, e)
           IN /\ n <= Len(events) /\ Form2!LeadTo(events, cell, n, v) => Form2!LeadTo(more, cell, n, v)
              /\ e.cell # cell /\ Form2!LeadTo(events, cell, Len(events), v)
                    => Form2!LeadTo(more, cell, Len(more), v)
              /\ e.cell = cell => Form2!LeadTo(more, cell, Len(more), e.newValue)
  <1> DEFINE more == Append(events, e)
             Before(s, k) == Form2!EventsOf(s, cell) \cap (1..k)
  <1>1. /\ Len(more) = Len(events) + 1 /\ Len(events) \in Nat
        /\ DOMAIN more = 1..Len(more) /\ DOMAIN events = 1..Len(events)
        /\ more[Len(more)] = e
        /\ \A i \in 1..Len(events) : more[i] = events[i]
    BY AppendProperties
  <1> HIDE DEF more
  <1>2. n <= Len(events) => Before(more, n) = Before(events, n)
    BY <1>1 DEF Form2!EventsOf
  <1>3. e.cell # cell => Before(more, Len(more)) = Before(events, Len(events))
    BY <1>1 DEF Form2!EventsOf
  <1>4. \A k \in Nat : Before(events, k) \subseteq 1..Len(events)
    BY <1>1 DEF Form2!EventsOf
  <1>5. e.cell = cell => Len(more) \in Before(more, Len(more))
    BY <1>1 DEF Form2!EventsOf
  <1>6. ASSUME n <= Len(events), Form2!LeadTo(events, cell, n, v)
        PROVE  Form2!LeadTo(more, cell, n, v)
    BY <1>1, <1>2, <1>4, <1>6 DEF Form2!LeadTo
  <1>7. ASSUME e.cell # cell, Form2!LeadTo(events, cell, Len(events), v)
        PROVE  Form2!LeadTo(more, cell, Len(more), v)
    BY <1>1, <1>3, <1>4, <1>7 DEF Form2!LeadTo
  <1>8. ASSUME e.cell = cell PROVE Form2!LeadTo(more, cell, Len(more), e.newValue)
    BY <1>1, <1>5, <1>8 DEF Form2!LeadTo
  <1>9. QED
    BY <1>6, <1>7, <1>8 DEF more

\* The matrix of section C1 as it is in a form.
C1Of(f) == f["matrix"]["c1"]

FiguresOf(g) ==
    \A r \in Form2!Editable :
        DOMAIN g[r] = Form2!Cols /\ \A c \in Form2!Demo : g[r][c] \in Values2

FormOf(f) ==
    /\ "matrix" \in DOMAIN f /\ DOMAIN f["matrix"] = Form2!MatrixSections
    /\ FiguresOf(C1Of(f))

\* Where the events of a cell lead, but for one that has the focus.
Chained(events, cell) ==
    \A i \in Form2!EventsOf(events, cell) :
        Form2!LeadTo(events, cell, i - 1, events[i].previousValue)

\* While a cell has the focus, its events lead to the value it had before.
Handed2 ==
    /\ FormOf(formState) /\ sent \in Seq(Events2)
    /\ focus # Undefined =>
          /\ step = "c1" /\ focus.cell \in Form2!Cells /\ focus.prevValue \in Values2
          /\ focus.cell \notin loose => Form2!LeadTo(sent, focus.cell, Len(sent), focus.prevValue)
    /\ \A cell \in Form2!Cells \ loose :
          /\ Chained(sent, cell)
          /\ (focus # Undefined /\ focus.cell = cell) \/
             Form2!LeadTo(sent, cell, Len(sent), C1Of(formState)[cell[1]][cell[2]])

\* The form of a report that was just opened holds nothing.
LEMMA Handed2Init == Form2!Init => Handed2
  <1> SUFFICES ASSUME Form2!Init PROVE Handed2
    OBVIOUS
  <1>1. /\ formState = Form2!BlankForm /\ focus = Undefined /\ sent = << >>
    BY DEF Form2!Init
  <1>2. /\ "matrix" \in DOMAIN formState /\ DOMAIN formState["matrix"] = Form2!MatrixSections
        /\ C1Of(formState) = Form2!ZeroGrid
    BY <1>1 DEF Form2!BlankForm, C1Of, Form2!MatrixSections
  <1>3. /\ FiguresOf(Form2!ZeroGrid)
        /\ \A cell \in Form2!Cells : Form2!ZeroGrid[cell[1]][cell[2]] = 0
    BY EditedNotComputed DEF FiguresOf, Form2!ZeroGrid, Form2!Cells, Values2
  <1>4. /\ sent \in Seq(Events2) /\ DOMAIN sent = {}
    BY <1>1
  <1>5. \A cell \in Form2!Cells \ loose :
           Chained(sent, cell) /\ Form2!LeadTo(sent, cell, Len(sent), 0)
    BY <1>4 DEF Chained, Form2!LeadTo, Form2!EventsOf
  <1>6. QED
    BY <1>1, <1>2, <1>3, <1>4, <1>5 DEF Handed2, FormOf

\* A step that writes no event and moves no focus keeps what was handed over, if each cell
\* it changes is the one in focus or is left out from then on.
LEMMA Edited2 ==
    ASSUME Handed2, UNCHANGED <<sent, focus, step>>, FormOf(formState'), loose \subseteq loose',
           \A cell \in Form2!Cells \ loose' :
               \/ focus # Undefined /\ focus.cell = cell
               \/ C1Of(formState')[cell[1]][cell[2]] = C1Of(formState)[cell[1]][cell[2]]
    PROVE  Handed2'
  BY DEF Handed2

\* So does a step that leaves the matrix alone, while no cell has the focus.
LEMMA Elsewhere2 ==
    ASSUME Handed2, UNCHANGED <<sent, loose>>, focus' = Undefined, focus = Undefined,
           "matrix" \in DOMAIN formState', formState'["matrix"] = formState["matrix"]
    PROVE  Handed2'
  BY DEF Handed2, FormOf, C1Of

\* Other fields of the form than the matrix.
LEMMA OtherFields2 ==
    ASSUME Handed2, UNCHANGED <<sent, focus, step, loose>>,
           "matrix" \in DOMAIN formState', formState'["matrix"] = formState["matrix"]
    PROVE  Handed2'
  BY Edited2 DEF Handed2, FormOf, C1Of

\* What a matrix section makes of its figures touches its own matrix alone.
LEMMA Changed2 ==
    ASSUME Handed2, step \in Form2!MatrixSections, NEW figures, Form2!OnChange(figures),
           step = "c1" => FiguresOf(figures)
    PROVE  /\ FormOf(formState')
           /\ \A cell \in Form2!Cells :
                 C1Of(formState')[cell[1]][cell[2]] =
                     IF step = "c1" THEN figures[cell[1]][cell[2]]
                     ELSE C1Of(formState)[cell[1]][cell[2]]
  <1> DEFINE totals == Form2!ComputeGridTotals(figures)
  <1>1. formState' = [formState EXCEPT !.matrix = [@ EXCEPT ![step] = totals]]
    BY DEF Form2!OnChange
  <1>2. \A r \in Form2!Editable : DOMAIN figures[r] = Form2!Cols =>
           DOMAIN totals[r] = Form2!Cols /\ \A c \in Form2!Demo : totals[r][c] = figures[r][c]
    BY TotalsKeepFigures
  <1> HIDE DEF totals
  <1>3. /\ "matrix" \in DOMAIN formState'
        /\ formState'["matrix"] = [formState["matrix"] EXCEPT ![step] = totals]
        /\ "c1" \in DOMAIN formState["matrix"]
    BY <1>1 DEF Handed2, FormOf, Form2!MatrixSections
  <1>4. /\ DOMAIN formState'["matrix"] = Form2!MatrixSections
        /\ C1Of(formState') = IF step = "c1" THEN totals ELSE C1Of(formState)
    BY <1>3 DEF Handed2, FormOf, C1Of
  <1>5. CASE step = "c1"
    BY <1>2, <1>3, <1>4, <1>5 DEF FormOf, FiguresOf, Form2!Cells
  <1>6. CASE step # "c1"
    BY <1>3, <1>4, <1>6 DEF FormOf, Handed2
  <1>7. QED
    BY <1>5, <1>6

\* An entry changes the cell in focus.
LEMMA CellChanged2 ==
    ASSUME Handed2, NEW r \in Form2!Editable, NEW c \in Form2!Demo, NEW n \in Heads,
           Form2!HandleCellChange(r, c, n)
    PROVE  Handed2'
  <1> DEFINE g == formState["matrix"][step]
             figures == [g EXCEPT ![r] = [@ EXCEPT ![c] = n]]
  <1>1. /\ step \in Form2!MatrixSections /\ Form2!HasFocus(r, c) /\ Form2!OnChange(figures)
        /\ UNCHANGED <<step, sent, focus, loose>>
    BY DEF Form2!HandleCellChange, Form2!Figures
  <1>2. step = "c1" =>
           /\ FiguresOf(figures)
           /\ \A x \in Form2!Editable, y \in Form2!Demo :
                 figures[x][y] = g[x][y] \/ (x = r /\ y = c)
    <2>1. step = "c1" => FiguresOf(g)
      BY DEF Handed2, FormOf, C1Of
    <2>2. c \in Form2!Cols /\ n \in Values2
      BY EditedNotComputed DEF Values2
    <2> HIDE DEF g
    <2>3. FiguresOf(g) => \A x \in Form2!Editable :
             /\ DOMAIN figures[x] = Form2!Cols
             /\ \A y \in Form2!Demo : figures[x][y] = g[x][y] \/ (x = r /\ y = c /\ figures[x][y] = n)
      BY <2>2, EditedNotComputed DEF FiguresOf
    <2> HIDE DEF figures
    <2>4. QED
      BY <2>1, <2>2, <2>3 DEF FiguresOf
  <1>3. step = "c1" => g = C1Of(formState) /\ focus # Undefined /\ focus.cell = <<r, c>>
    BY <1>1 DEF C1Of, Form2!HasFocus
  <1> HIDE DEF g, figures
  <1>4. /\ FormOf(formState')
        /\ \A cell \in Form2!Cells :
              C1Of(formState')[cell[1]][cell[2]] =
                  IF step = "c1" THEN figures[cell[1]][cell[2]]
                  ELSE C1Of(formState)[cell[1]][cell[2]]
    BY <1>1, <1>2, Changed2
  <1>5. \A cell \in Form2!Cells :
           \/ focus # Undefined /\ focus.cell = cell
           \/ C1Of(formState')[cell[1]][cell[2]] = C1Of(formState)[cell[1]][cell[2]]
    BY <1>2, <1>3, <1>4 DEF Form2!Cells
  <1>6. QED
    BY <1>1, <1>4, <1>5, Edited2

\* A paste changes the cell in focus too, and leaves out those beside it.
LEMMA Pasted2 ==
    ASSUME Handed2, NEW r \in Form2!Editable, NEW c \in Form2!Demo, NEW n \in Heads,
           Form2!HandlePaste(r, c, n)
    PROVE  Handed2'
  <1> DEFINE g == formState["matrix"][step]
             figures == Form2!PasteAt(g, r, c, <<<<n, n>>>>)
  <1>1. /\ step \in Form2!MatrixSections /\ Form2!HasFocus(r, c) /\ Form2!OnChange(figures)
        /\ UNCHANGED <<step, sent, focus>>
        /\ loose' = IF step # "c1" THEN loose
                    ELSE loose \cup {rc \in Form2!Cells \ {<<r, c>>} :
                            figures[rc[1]][rc[2]] # g[rc[1]][rc[2]]}
    BY DEF Form2!HandlePaste, Form2!Figures
  <1>2. \A x \in Form2!Editable :
           DOMAIN figures[x] = Form2!Cols /\ \A y \in Form2!Demo : figures[x][y] \in {n, g[x][y]}
    BY PasteKeepsOrPuts
  <1>3. step = "c1" => FiguresOf(g)
    BY DEF Handed2, FormOf, C1Of
  <1>4. step = "c1" => g = C1Of(formState) /\ focus # Undefined /\ focus.cell = <<r, c>>
    BY <1>1 DEF C1Of, Form2!HasFocus
  <1> HIDE DEF g, figures
  <1>5. step = "c1" => FiguresOf(figures)
    BY <1>2, <1>3 DEF FiguresOf, Values2
  <1>6. /\ FormOf(formState')
        /\ \A cell \in Form2!Cells :
              C1Of(formState')[cell[1]][cell[2]] =
                  IF step = "c1" THEN figures[cell[1]][cell[2]]
                  ELSE C1Of(formState)[cell[1]][cell[2]]
    BY <1>1, <1>5, Changed2
  <1>7. \A cell \in Form2!Cells \ loose' :
           \/ focus # Undefined /\ focus.cell = cell
           \/ C1Of(formState')[cell[1]][cell[2]] = C1Of(formState)[cell[1]][cell[2]]
    <2>1. CASE step # "c1"
      BY <1>6, <2>1
    <2>2. CASE step = "c1"
      BY <1>1, <1>4, <1>6, <2>2
    <2>3. QED
      BY <2>1, <2>2
  <1>8. loose \subseteq loose'
    BY <1>1
  <1>9. QED
    BY <1>1, <1>6, <1>7, <1>8, Edited2

\* A cell that takes the focus holds what its events lead to.
LEMMA Focused2 ==
    ASSUME Handed2, NEW r \in Form2!Editable, NEW c \in Form2!Demo, Form2!HandleCellFocus(r, c)
    PROVE  Handed2'
  <1>1. /\ step = "c1" /\ focus = Undefined
        /\ focus' = [cell |-> <<r, c>>, prevValue |-> C1Of(formState)[r][c]]
        /\ UNCHANGED <<step, formState, sent, loose>>
    BY DEF Form2!HandleCellFocus, Form2!Figures, C1Of
  <1>2. /\ focus'.cell = <<r, c>> /\ focus'.prevValue = C1Of(formState)[r][c]
        /\ <<r, c>> \in Form2!Cells /\ <<r, c>>[1] = r /\ <<r, c>>[2] = c
    BY <1>1 DEF Form2!Cells
  <1>3. C1Of(formState)[r][c] \in Values2
    BY DEF Handed2, FormOf, FiguresOf
  <1>4. \A cell \in Form2!Cells \ loose :
           /\ Chained(sent, cell)
           /\ Form2!LeadTo(sent, cell, Len(sent), C1Of(formState)[cell[1]][cell[2]])
    BY <1>1 DEF Handed2
  <1>5. <<r, c>> \notin loose => Form2!LeadTo(sent, <<r, c>>, Len(sent), C1Of(formState)[r][c])
    BY <1>2, <1>4
  <1>6. QED
    BY <1>1, <1>2, <1>3, <1>4, <1>5 DEF Handed2

\* A cell that loses the focus with another value than before gets the event of it.
LEMMA Blurred2 ==
    ASSUME Handed2, Form2!HandleCellBlur
    PROVE  Handed2'
  <1> DEFINE cell == focus.cell  new == C1Of(formState)[cell[1]][cell[2]]
             e == Form2!Event(cell, focus.prevValue, new)
  <1>1. /\ focus # Undefined /\ focus' = Undefined /\ UNCHANGED <<step, formState, loose>>
        /\ step = "c1" /\ cell \in Form2!Cells /\ focus.prevValue \in Values2
        /\ cell \notin loose => Form2!LeadTo(sent, cell, Len(sent), focus.prevValue)
    BY DEF Form2!HandleCellBlur, Handed2
  <1>2. sent' = IF focus.prevValue = new THEN sent ELSE Append(sent, e)
    BY <1>1 DEF Form2!HandleCellBlur, Form2!Figures, C1Of
  <1>3. \A x \in Form2!Cells \ loose :
           /\ Chained(sent, x)
           /\ x # cell => Form2!LeadTo(sent, x, Len(sent), C1Of(formState)[x[1]][x[2]])
    BY <1>1 DEF Handed2
  <1>4. CASE focus.prevValue = new
    BY <1>1, <1>2, <1>3, <1>4 DEF Handed2
  <1>5. CASE focus.prevValue # new
    <2>1. new \in Values2
      BY <1>1 DEF Handed2, FormOf, FiguresOf, Form2!Cells
    <2>2. /\ e \in Events2 /\ e.cell = cell /\ e.newValue = new /\ e.previousValue = focus.prevValue
      BY <1>1, <2>1 DEF Form2!Event, Events2
    <2> HIDE DEF cell, new, e
    <2>3. sent \in Seq(Events2) /\ sent' = Append(sent, e)
      BY <1>2, <1>5 DEF Handed2
    <2>4. /\ sent' \in Seq(Events2) /\ Len(sent') = Len(sent) + 1 /\ Len(sent) \in Nat
          /\ DOMAIN sent' = 1..Len(sent') /\ DOMAIN sent = 1..Len(sent)
          /\ sent'[Len(sent')] = e /\ \A i \in 1..Len(sent) : sent'[i] = sent[i]
      BY <2>2, <2>3, AppendProperties
    <2>5. ASSUME NEW x \in Form2!Cells \ loose PROVE Chained(sent', x)
      <3>1. ASSUME NEW i \in Form2!EventsOf(sent', x), i \in 1..Len(sent)
            PROVE  Form2!LeadTo(sent', x, i - 1, sent'[i].previousValue)
        <4>1. i \in Form2!EventsOf(sent, x) /\ i - 1 \in Nat /\ i - 1 <= Len(sent)
          BY <2>4, <3>1 DEF Form2!EventsOf
        <4>2. Form2!LeadTo(sent, x, i - 1, sent[i].previousValue)
          BY <1>3, <4>1 DEF Chained
        <4>3. QED
          BY <2>2, <2>3, <2>4, <3>1, <4>1, <4>2, NewEvent
      <3>2. ASSUME NEW i \in Form2!EventsOf(sent', x), i = Len(sent')
            PROVE  Form2!LeadTo(sent', x, i - 1, sent'[i].previousValue)
        <4>1. x = cell /\ i - 1 = Len(sent) /\ sent'[i].previousValue = focus.prevValue
          BY <2>2, <2>4, <3>2 DEF Form2!EventsOf
        <4>2. Form2!LeadTo(sent, x, Len(sent), focus.prevValue)
          BY <1>1, <4>1
        <4>3. QED
          BY <2>2, <2>3, <2>4, <4>1, <4>2, NewEvent
      <3>3. \A i \in Form2!EventsOf(sent', x) : i \in 1..Len(sent) \/ i = Len(sent')
        BY <2>4 DEF Form2!EventsOf
      <3>4. QED
        BY <3>1, <3>2, <3>3 DEF Chained
    <2>6. ASSUME NEW x \in Form2!Cells \ loose
          PROVE  Form2!LeadTo(sent', x, Len(sent'), C1Of(formState)[x[1]][x[2]])
      <3>1. CASE x = cell
        <4>1. Form2!LeadTo(sent', cell, Len(sent'), new)
          BY <2>2, <2>3, <2>4, NewEvent
        <4>2. QED
          BY <3>1, <4>1 DEF new
      <3>2. CASE x # cell
        BY <1>3, <2>2, <2>3, <2>4, <3>2, NewEvent
      <3>3. QED
        BY <3>1, <3>2
    <2>7. QED
      BY <1>1, <2>4, <2>5, <2>6 DEF Handed2
  <1>6. QED
    BY <1>4, <1>5

\* The answer of a save takes section C1 away, with a cell that has the focus.
LEMMA SaveAnswered2 ==
    ASSUME Handed2, Form2!SaveAnswered
    PROVE  Handed2'
  <1>1. /\ focus' = Undefined /\ UNCHANGED <<sent, formState>>
        /\ loose' = loose \cup (IF focus = Undefined THEN {} ELSE
              {rc \in {focus.cell} : C1Of(formState)[rc[1]][rc[2]] # focus.prevValue})
    BY DEF Form2!SaveAnswered, Form2!ShowStep, C1Of
  <1>2. ASSUME NEW cell \in Form2!Cells \ loose'
        PROVE  /\ Chained(sent, cell)
               /\ Form2!LeadTo(sent, cell, Len(sent), C1Of(formState)[cell[1]][cell[2]])
    <2>1. cell \in Form2!Cells \ loose
      BY <1>1, <1>2
    <2>2. CASE focus # Undefined /\ focus.cell = cell
      <3>1. C1Of(formState)[cell[1]][cell[2]] = focus.prevValue
        BY <1>1, <1>2, <2>2
      <3>2. QED
        BY <2>1, <2>2, <3>1 DEF Handed2
    <2>3. CASE ~(focus # Undefined /\ focus.cell = cell)
      BY <2>1, <2>3 DEF Handed2
    <2>4. QED
      BY <2>2, <2>3
  <1>3. QED
    BY <1>1, <1>2 DEF Handed2

\* Whatever section is shown next, nothing of what it does is an edit.
LEMMA Shown2 ==
    ASSUME Handed2, NEW s, Form2!GoTo(s)
    PROVE  Handed2'
  <1>1. /\ focus = Undefined /\ focus' = Undefined /\ UNCHANGED <<sent, loose>>
        /\ formState' = IF s = "a" THEN Form2!ReadOnlyFields(formState, "blank") ELSE formState
    BY DEF Form2!GoTo, Form2!ShowStep
  <1>2. "matrix" \in DOMAIN formState' /\ formState'["matrix"] = formState["matrix"]
    BY <1>1 DEF Handed2, FormOf, Form2!ReadOnlyFields
  <1>3. QED
    BY <1>1, <1>2, Elsewhere2

\* A field of the form that is not its matrix.
LEMMA FieldSet2 ==
    ASSUME Handed2, UNCHANGED <<sent, focus, step, loose>>,
           NEW f, NEW v, f # "matrix", formState' = [formState EXCEPT ![f] = v]
    PROVE  Handed2'
  <1>1. "matrix" \in DOMAIN formState' /\ formState'["matrix"] = formState["matrix"]
    BY DEF Handed2, FormOf
  <1>2. QED
    BY <1>1, OtherFields2

\* Every step keeps the events of section C1 together.
LEMMA Handed2Step == Handed2 /\ Form2!Next => Handed2'
  <1> SUFFICES ASSUME Handed2, Form2!Next PROVE Handed2'
    OBVIOUS
  <1>1. ASSUME UNCHANGED <<sent, focus, step, loose, formState>> PROVE Handed2'
    BY <1>1, Edited2 DEF Handed2
  <1>2. CASE Form2!TimePasses \/ Form2!SubmitForSigning \/ Form2!PrefillFails
    BY <1>1, <1>2 DEF Form2!TimePasses, Form2!SubmitForSigning, Form2!PrefillFails
  <1>3. ASSUME NEW n, Form2!CountDisabled(n) PROVE Handed2'
    BY <1>1, <1>3 DEF Form2!CountDisabled
  <1>4. ASSUME NEW p, Form2!PrefillArrives(p) PROVE Handed2'
    <2>1. PICK v : formState' = [formState EXCEPT !["a"] = v]
      BY <1>4 DEF Form2!PrefillArrives, Form2!ReadOnlyFields
    <2>2. UNCHANGED <<sent, focus, step, loose>>
      BY <1>4 DEF Form2!PrefillArrives
    <2>3. QED
      BY <2>1, <2>2, FieldSet2
  <1>5. CASE Form2!UpdateContact
    <2>1. PICK v : formState' = [formState EXCEPT !["a"] = v]
      BY <1>5 DEF Form2!UpdateContact
    <2>2. UNCHANGED <<sent, focus, step, loose>>
      BY <1>5 DEF Form2!UpdateContact
    <2>3. QED
      BY <2>1, <2>2, FieldSet2
  <1>6. ASSUME NEW w, NEW field, NEW n, Form2!UpdateRow(w, field, n) PROVE Handed2'
    <2>1. PICK v : formState' = [formState EXCEPT !["b"] = v]
      BY <1>6, Zenon DEF Form2!UpdateRow
    <2>2. UNCHANGED <<sent, focus, step, loose>>
      BY <1>6 DEF Form2!UpdateRow
    <2>3. QED
      BY <2>1, <2>2, FieldSet2
  <1>7. ASSUME NEW r, NEW i, Form2!SetReason(r, i) PROVE Handed2'
    <2>1. PICK v : formState' = [formState EXCEPT !["involuntary"] = v]
      BY <1>7, Zenon DEF Form2!SetReason
    <2>2. UNCHANGED <<sent, focus, step, loose>>
      BY <1>7 DEF Form2!SetReason
    <2>3. QED
      BY <2>1, <2>2, FieldSet2
  <1>8. ASSUME NEW next, Form2!UpdateEntry(next) PROVE Handed2'
    <2>1. PICK v : formState' = [formState EXCEPT !["h1"] = v]
      BY <1>8 DEF Form2!UpdateEntry
    <2>2. UNCHANGED <<sent, focus, step, loose>>
      BY <1>8 DEF Form2!UpdateEntry
    <2>3. QED
      BY <2>1, <2>2, FieldSet2
  <1>9. CASE Form2!SaveAnswered \/ Form2!HandleCellBlur
    BY <1>9, SaveAnswered2, Blurred2
  <1>10. CASE \E r \in Form2!Editable, c \in Form2!Demo, n \in Heads :
                 Form2!HandleCellChange(r, c, n) \/ Form2!HandlePaste(r, c, n)
    BY <1>10, CellChanged2, Pasted2
  <1>11. CASE \E r \in Form2!Editable, c \in Form2!Demo : Form2!HandleCellFocus(r, c)
    BY <1>11, Focused2
  <1>12. CASE \E s \in Form2!StepIds : Form2!GoTo(s)
    BY <1>12, Shown2
  <1>13. QED
    BY <1>2, <1>3, <1>4, <1>5, <1>6, <1>7, <1>8, <1>9, <1>10, <1>11, <1>12 DEF Form2!Next

(***************************************************************************)
(* EEA13: the years of the plan, the goals, the editors and the barriers.   *)
(***************************************************************************)
\* What is left of a sequence without one of its elements.
LEMMA Removed13 ==
    ASSUME NEW S, NEW s \in Seq(S), NEW i \in 1..Len(s)
    PROVE  LET left == Form13!Without(s, i)
           IN /\ left \in Seq(S) /\ Len(left) = Len(s) - 1
              /\ \A k \in 1..Len(left) : left[k] = IF k < i THEN s[k] ELSE s[k + 1]
  <1> DEFINE before == SubSeq(s, 1, i - 1)  after == SubSeq(s, i + 1, Len(s))
  <1>1. Len(s) \in Nat /\ \A k \in 1..Len(s) : s[k] \in S
    BY LenProperties, ElementOfSeq
  <1>2. /\ before \in Seq(S) /\ Len(before) = i - 1
        /\ \A k \in 1..(i - 1) : before[k] = s[k]
    <2>1. \A k \in 1..(i - 1) : s[k] \in S
      BY <1>1
    <2>2. 1 \in Int /\ i - 1 \in Int
      BY <1>1
    <2>3. /\ before \in Seq(S) /\ Len(before) = IF 1 <= i - 1 THEN (i - 1) - 1 + 1 ELSE 0
          /\ \A k \in 1..((i - 1) - 1 + 1) : before[k] = s[1 + k - 1]
      BY <2>1, <2>2, SubSeqProperties
    <2>4. QED
      BY <1>1, <2>3
  <1>3. /\ after \in Seq(S) /\ Len(after) = Len(s) - i
        /\ \A k \in 1..(Len(s) - i) : after[k] = s[i + k]
    <2>1. \A k \in (i + 1)..Len(s) : s[k] \in S
      BY <1>1
    <2>2. i + 1 \in Int /\ Len(s) \in Int
      BY <1>1
    <2>3. /\ after \in Seq(S) /\ Len(after) = IF i + 1 <= Len(s) THEN Len(s) - (i + 1) + 1 ELSE 0
          /\ \A k \in 1..(Len(s) - (i + 1) + 1) : after[k] = s[(i + 1) + k - 1]
      BY <2>1, <2>2, SubSeqProperties
    <2>4. QED
      BY <1>1, <2>3
  <1>4. Form13!Without(s, i) = before \o after
    BY DEF Form13!Without
  <1> HIDE DEF before, after
  <1>5. /\ before \o after \in Seq(S) /\ Len(before \o after) = Len(before) + Len(after)
        /\ \A k \in 1..(Len(before) + Len(after)) :
              (before \o after)[k] = IF k <= Len(before) THEN before[k] ELSE after[k - Len(before)]
    BY <1>2, <1>3, ConcatProperties
  <1>6. ASSUME NEW k \in 1..(Len(s) - 1)
        PROVE  (before \o after)[k] = IF k < i THEN s[k] ELSE s[k + 1]
    <2>1. CASE k < i
      BY <1>1, <1>2, <1>3, <1>5, <2>1
    <2>2. CASE ~(k < i)
      <3>1. k - (i - 1) \in 1..(Len(s) - i) /\ i + (k - (i - 1)) = k + 1
        BY <1>1, <2>2
      <3>2. after[k - (i - 1)] = s[k + 1]
        BY <1>3, <3>1
      <3>3. k \in 1..(Len(before) + Len(after)) /\ ~(k <= Len(before)) /\ Len(before) = i - 1
        BY <1>1, <1>2, <1>3, <2>2
      <3>4. (before \o after)[k] = after[k - (i - 1)]
        BY <1>5, <3>3
      <3>5. QED
        BY <2>2, <3>2, <3>4
    <2>3. QED
      BY <2>1, <2>2
  <1>7. Len(before \o after) = Len(s) - 1
    BY <1>1, <1>2, <1>3, <1>5
  <1>8. QED
    BY <1>4, <1>5, <1>6, <1>7

\* The minimum of a goal is at least the population's share (EffectiveMinimum).
LEMMA Minimum13 ==
    ASSUME NEW sector \in Sectors, NEW kind \in Kinds
    PROVE  Form13!EffectiveMinimum(sector, kind) \in Int
           /\ Form13!EffectiveMinimum(sector, kind) >= EapOf[kind]
  <1>1. EapOf[kind] \in Int /\ SectorTarget[sector][kind] \in Int \cup {Undefined}
    BY PlansAssumption
  <1>2. CASE SectorTarget[sector][kind] = Undefined
    BY <1>1, <1>2 DEF Form13!EffectiveMinimum
  <1>3. CASE SectorTarget[sector][kind] # Undefined
    <2> DEFINE a == EapOf[kind]  b == SectorTarget[sector][kind]
    <2>1. a \in Int /\ b \in Int
      BY <1>1, <1>3
    <2>2. Form13!EffectiveMinimum(sector, kind) = Form13!Max({a, b})
      BY <1>3 DEF Form13!EffectiveMinimum
    <2> HIDE DEF a, b
    <2>3. \E x \in {a, b} : \A y \in {a, b} : x >= y
      BY <2>1
    <2>4. Form13!Max({a, b}) \in {a, b} /\ \A y \in {a, b} : Form13!Max({a, b}) >= y
      BY <2>3 DEF Form13!Max
    <2>5. QED
      BY <2>1, <2>2, <2>4 DEF a
  <1>4. QED
    BY <1>2, <1>3

\* A year that AddYear proposes is one of the options that no plan has, if four have one.
LEMMA NextYear13 ==
    ASSUME NEW used, IsFiniteSet(used), Cardinality(used) <= 4
    PROVE  LET free == Form13!YearOptions \ used
           IN ~(Form13!YearOptions \subseteq used) /\ Form13!Min(free) \in free
  <1> DEFINE years == Form13!YearOptions  free == years \ used
  <1>1. IsFiniteSet(years) /\ Cardinality(years) = 6
    <2>1. Form13!YearOptions = 2025..2030
      BY DEF Form13!YearOptions
    <2>2. PICK a \in Int, b \in Int : a = 2025 /\ b = 2030
      OBVIOUS
    <2>3. IsFiniteSet(a..b) /\ Cardinality(a..b) = IF a > b THEN 0 ELSE b - a + 1
      BY FS_Interval
    <2>4. Form13!YearOptions = a..b
      BY <2>1, <2>2
    <2>5. QED
      BY <2>2, <2>3, <2>4
  <1>2. Cardinality(used) \in Nat
    BY FS_CardinalityType
  <1>3. ~(years \subseteq used)
    BY <1>1, <1>2, FS_Subset
  <1>4. \E x \in free : \A y \in free : x <= y
    <2>1. free \subseteq 2025..2030 /\ \E x : x \in free
      BY <1>3 DEF Form13!YearOptions
    <2> HIDE DEF free
    <2>2. \A y \in free : y \in {2025, 2026, 2027, 2028, 2029, 2030}
      BY <2>1
    <2>3. CASE 2025 \in free
      BY <2>2, <2>3
    <2>4. CASE 2025 \notin free /\ 2026 \in free
      BY <2>2, <2>4
    <2>5. CASE 2025 \notin free /\ 2026 \notin free /\ 2027 \in free
      BY <2>2, <2>5
    <2>6. CASE 2025 \notin free /\ 2026 \notin free /\ 2027 \notin free
      <3>1. \A y \in free : y = 2028 \/ y = 2029 \/ y = 2030
        BY <2>2, <2>6
      <3>2. CASE 2028 \in free
        BY <3>1, <3>2
      <3>3. CASE 2028 \notin free /\ 2029 \in free
        BY <3>1, <3>3
      <3>4. CASE 2028 \notin free /\ 2029 \notin free
        <4>1. \A y \in free : y = 2030
          BY <3>1, <3>4
        <4>2. PICK x : x \in free
          BY <2>1
        <4>3. QED
          BY <4>1, <4>2
      <3>5. QED
        BY <3>2, <3>3, <3>4
    <2>7. QED
      BY <2>3, <2>4, <2>5, <2>6
  <1>5. QED
    BY <1>3, <1>4 DEF Form13!Min

\* A goal is at or above the minimum of the sector it was saved for.
Sound13(goal) == goal.target >= Form13!EffectiveMinimum(goal.sector, goal.kind)

Goals13(goals) == goals \in Seq(Form13!Goals) /\ \A k \in 1..Len(goals) : Sound13(goals[k])

Plans13(plans) ==
    /\ plans \in Seq(Form13!YearlyPlans) /\ Len(plans) \in 3..5
    /\ \A i, j \in 1..Len(plans) : plans[i].year = plans[j].year => i = j
    /\ \A i \in 1..Len(plans) : Goals13(plans[i].goals)

\* An editor that edits a goal has its position, unless a goal before it was removed.
Editor13(e, goals) ==
    /\ DOMAIN e = {"draft", "editing", "shifted"}
    /\ DOMAIN e.draft = {"kind", "target", "ready", "id"}
    /\ e.draft.kind \in Kinds /\ e.draft.target \in Int /\ e.draft.id \in Nat
    /\ e.editing \in Nat
    /\ e.editing # 0 /\ ~e.shifted =>
          e.editing \in 1..Len(goals) /\ goals[e.editing].id = e.draft.id

Editors13(eds, plans) ==
    DOMAIN eds = 1..Len(plans) /\ \A i \in 1..Len(plans) : Editor13(eds[i], plans[i].goals)

\* A plan is of a year, and its fields are those of the type.
LEMMA Fields13 ==
    ASSUME NEW plans, Plans13(plans), NEW i \in 1..Len(plans)
    PROVE  /\ plans[i] \in Form13!YearlyPlans
           /\ DOMAIN plans[i] = {"year", "goals", "reviewed"}
           /\ plans[i].year \in Form13!YearOptions /\ plans[i].reviewed \in BOOLEAN
           /\ Goals13(plans[i].goals)
           /\ plans[i] = [year |-> plans[i].year, goals |-> plans[i].goals,
                          reviewed |-> plans[i].reviewed]
  <1>1. plans[i] \in Form13!YearlyPlans
    BY ElementOfSeq DEF Plans13
  <1>2. QED
    BY <1>1 DEF Plans13, Form13!YearlyPlans

\* A plan of the type, from its fields.
LEMMA Plan13 ==
    ASSUME NEW y \in Form13!YearOptions, NEW goals \in Seq(Form13!Goals), NEW b \in BOOLEAN
    PROVE  [year |-> y, goals |-> goals, reviewed |-> b] \in Form13!YearlyPlans
  BY DEF Form13!YearlyPlans

\* A year that was not there before, and has no goals.
LEMMA BlankYear13 ==
    ASSUME NEW y \in Form13!YearOptions
    PROVE  /\ Form13!BuildDefaultYear(y) \in Form13!YearlyPlans
           /\ Form13!BuildDefaultYear(y).year = y
           /\ Goals13(Form13!BuildDefaultYear(y).goals)
  <1>1. << >> \in Seq(Form13!Goals) /\ Len(<< >>) = 0
    BY EmptySeq
  <1>2. \A b \in BOOLEAN : [year |-> y, goals |-> << >>, reviewed |-> b] \in Form13!YearlyPlans
    BY <1>1, Plan13
  <1>3. Goals13(<< >>)
    BY <1>1 DEF Goals13
  <1>4. PICK b \in BOOLEAN : b = FALSE
    OBVIOUS
  <1>5. Form13!BuildDefaultYear(y) = [year |-> y, goals |-> << >>, reviewed |-> b]
    BY <1>4, Zenon DEF Form13!BuildDefaultYear
  <1>6. QED
    BY <1>2, <1>3, <1>5

\* The plan that is shown when none was stored (buildDefaultYear).
LEMMA Default13 == Plans13([i \in 1..Form13!MinYears |-> Form13!BuildDefaultYear(2024 + i)])
  <1> DEFINE plans == [i \in 1..Form13!MinYears |-> Form13!BuildDefaultYear(2024 + i)]
  <1>1. Form13!MinYears = 3
    BY DEF Form13!MinYears
  <1>2. \A i \in 1..3 : 2024 + i \in Form13!YearOptions /\ plans[i] = Form13!BuildDefaultYear(2024 + i)
    BY <1>1 DEF Form13!YearOptions
  <1>3. DOMAIN plans = 1..3
    BY <1>1
  <1>4. \A i \in 1..3 : plans[i] \in Form13!YearlyPlans /\ plans[i].year = 2024 + i
                        /\ Goals13(plans[i].goals)
    BY <1>2, BlankYear13
  <1>5. plans \in [1..3 -> Form13!YearlyPlans]
    BY <1>1, <1>4
  <1> HIDE DEF plans
  <1>6. plans \in Seq(Form13!YearlyPlans)
    BY <1>5, SeqDef
  <1>7. Len(plans) = 3
    BY <1>3, <1>6, LenProperties
  <1>8. Plans13(plans)
    BY <1>4, <1>6, <1>7 DEF Plans13
  <1>9. QED
    BY <1>8 DEF plans

\* The plan with another one in one place, of a year of its own.
LEMMA Replaced13 ==
    ASSUME NEW plans, Plans13(plans), NEW i \in 1..Len(plans), NEW p \in Form13!YearlyPlans,
           Goals13(p.goals),
           \A j \in 1..Len(plans) : j # i => plans[j].year # p.year
    PROVE  LET next == [plans EXCEPT ![i] = p]
           IN /\ Plans13(next) /\ Len(next) = Len(plans) /\ next[i] = p
              /\ \A j \in 1..Len(plans) : j # i => next[j] = plans[j]
  <1> DEFINE next == [plans EXCEPT ![i] = p]
  <1>1. /\ next \in Seq(Form13!YearlyPlans) /\ Len(next) = Len(plans)
        /\ \A j \in 1..Len(plans) : next[j] = IF j = i THEN p ELSE plans[j]
    BY ExceptSeq DEF Plans13
  <1> HIDE DEF next
  <1>2. QED
    BY <1>1 DEF Plans13, next

\* One plan more, of a year of its own.
LEMMA Added13 ==
    ASSUME NEW plans, Plans13(plans), Len(plans) < 5, NEW p \in Form13!YearlyPlans,
           Goals13(p.goals), \A j \in 1..Len(plans) : plans[j].year # p.year
    PROVE  LET next == Append(plans, p)
           IN Plans13(next) /\ \A j \in 1..Len(plans) : next[j] = plans[j]
  <1> DEFINE next == Append(plans, p)
  <1>1. /\ next \in Seq(Form13!YearlyPlans) /\ Len(next) = Len(plans) + 1
        /\ next[Len(plans) + 1] = p /\ \A j \in 1..Len(plans) : next[j] = plans[j]
    BY AppendProperties DEF Plans13
  <1> HIDE DEF next
  <1>2. Len(next) \in 3..5 /\ \A j \in 1..Len(next) : j \in 1..Len(plans) \/ j = Len(plans) + 1
    BY <1>1 DEF Plans13
  <1>3. \A i, j \in 1..Len(next) : next[i].year = next[j].year => i = j
    BY <1>1, <1>2 DEF Plans13
  <1>4. \A i \in 1..Len(next) : Goals13(next[i].goals)
    BY <1>1, <1>2 DEF Plans13
  <1>5. Plans13(next)
    BY <1>1, <1>2, <1>3, <1>4 DEF Plans13
  <1>6. QED
    BY <1>1, <1>5 DEF next

\* One plan less; a plan that stays at its position is one before it.
LEMMA Left13 ==
    ASSUME NEW plans, Plans13(plans), Len(plans) > 3, NEW i \in 1..Len(plans)
    PROVE  LET next == Form13!Without(plans, i)
           IN /\ Plans13(next)
              /\ \A j \in 1..Len(next) : j \in 1..Len(plans)
                    /\ (plans[j].year = next[j].year => next[j] = plans[j])
  <1> DEFINE next == Form13!Without(plans, i)
  <1>1. /\ next \in Seq(Form13!YearlyPlans) /\ Len(next) = Len(plans) - 1
        /\ \A k \in 1..Len(next) : next[k] = IF k < i THEN plans[k] ELSE plans[k + 1]
    BY Removed13 DEF Plans13
  <1> HIDE DEF next
  <1>2. Len(plans) \in 3..5
    BY DEF Plans13
  <1>3. \A k \in 1..Len(next) : k \in 1..Len(plans) /\ k + 1 \in 1..Len(plans)
    BY <1>1, <1>2
  <1>4. ASSUME NEW j \in 1..Len(next), NEW k \in 1..Len(next), next[j].year = next[k].year
        PROVE  j = k
    <2> DEFINE Was(x) == IF x < i THEN x ELSE x + 1
    <2>1. next[j] = plans[Was(j)] /\ next[k] = plans[Was(k)]
      BY <1>1
    <2>2. Was(j) \in 1..Len(plans) /\ Was(k) \in 1..Len(plans)
      BY <1>3
    <2>3. Was(j) = Was(k)
      BY <1>4, <2>1, <2>2 DEF Plans13
    <2>4. QED
      BY <2>3
  <1>5. \A k \in 1..Len(next) : Goals13(next[k].goals)
    BY <1>1, <1>3 DEF Plans13
  <1>6. ASSUME NEW k \in 1..Len(next), plans[k].year = next[k].year PROVE next[k] = plans[k]
    <2>1. CASE k < i
      BY <1>1, <2>1
    <2>2. CASE ~(k < i)
      <3>1. plans[k].year = plans[k + 1].year
        BY <1>1, <1>6, <2>2
      <3>2. k = k + 1
        BY <1>3, <3>1 DEF Plans13
      <3>3. QED
        BY <3>2
    <2>3. QED
      BY <2>1, <2>2
  <1>7. Len(next) \in 3..5
    BY <1>1, <1>2
  <1>8. Plans13(next)
    BY <1>1, <1>4, <1>5, <1>7 DEF Plans13
  <1>9. QED
    BY <1>3, <1>6, <1>8 DEF next

\* A goals editor that was just opened edits no goal.
LEMMA NewEditor13 ==
    ASSUME NEW goals
    PROVE  Editor13(Form13!NewEditor, goals)
  <1> DEFINE k == CHOOSE k \in Kinds : TRUE
  <1>1. k \in Kinds /\ EapOf[k] \in Int
    BY PlansAssumption
  <1> HIDE DEF k
  <1>2. \A w : LET d == [kind |-> k, target |-> EapOf[k], ready |-> w, id |-> 0]
               IN /\ DOMAIN d = {"kind", "target", "ready", "id"}
                  /\ d.kind = k /\ d.target = EapOf[k] /\ d.id = 0
    OBVIOUS
  <1>3. \A d, w : LET e == [draft |-> d, editing |-> 0, shifted |-> w]
                  IN DOMAIN e = {"draft", "editing", "shifted"} /\ e.draft = d /\ e.editing = 0
    OBVIOUS
  <1>4. PICK d : /\ DOMAIN d = {"kind", "target", "ready", "id"}
                 /\ d.kind = k /\ d.target = EapOf[k] /\ d.id = 0
                 /\ Form13!NewEditor = [draft |-> d, editing |-> 0, shifted |-> FALSE]
    BY <1>2, Zenon DEF Form13!NewEditor, Form13!NewDraft, k
  <1>5. /\ DOMAIN Form13!NewEditor = {"draft", "editing", "shifted"}
        /\ Form13!NewEditor.draft = d /\ Form13!NewEditor.editing = 0
    BY <1>3, <1>4, Zenon
  <1>6. QED
    BY <1>1, <1>4, <1>5 DEF Editor13

\* An editor does not notice when the goals stay those it knows.
LEMMA OtherGoals13 ==
    ASSUME NEW e, NEW goals, Editor13(e, goals), NEW other,
           Len(goals) <= Len(other), Len(goals) \in Nat, Len(other) \in Nat,
           \A k \in 1..Len(goals) : other[k].id = goals[k].id
    PROVE  Editor13(e, other)
  BY DEF Editor13

\* A plan with another value in one of its fields.
LEMMA PlanWith13 ==
    ASSUME NEW y \in Form13!YearOptions, NEW goals, Goals13(goals), NEW b \in BOOLEAN,
           NEW p, p = [year |-> y, goals |-> goals, reviewed |-> b]
    PROVE  /\ \A v : [p EXCEPT !.goals = v] = [year |-> y, goals |-> v, reviewed |-> b]
           /\ \A v : [p EXCEPT !.year = v] = [year |-> v, goals |-> goals, reviewed |-> b]
           /\ \A v : [p EXCEPT !.reviewed = v] = [year |-> y, goals |-> goals, reviewed |-> v]
  <1>1. \A v : [p EXCEPT !.goals = v] = [year |-> y, goals |-> v, reviewed |-> b]
    OBVIOUS
  <1>2. \A v : [p EXCEPT !.year = v] = [year |-> v, goals |-> goals, reviewed |-> b]
    OBVIOUS
  <1>3. \A v : [p EXCEPT !.reviewed = v] = [year |-> y, goals |-> goals, reviewed |-> v]
    OBVIOUS
  <1>4. QED
    BY <1>1, <1>2, <1>3

\* The goals of one plan, replaced.
LEMMA WithGoals13 ==
    ASSUME NEW plans, Plans13(plans), NEW i \in 1..Len(plans), NEW goals, Goals13(goals)
    PROVE  LET next == [plans EXCEPT ![i] = [@ EXCEPT !.goals = goals]]
           IN /\ Plans13(next) /\ Len(next) = Len(plans) /\ next[i].goals = goals
              /\ \A j \in 1..Len(plans) : j # i => next[j] = plans[j]
  <1> DEFINE p == [plans[i] EXCEPT !.goals = goals]
  <1>0. /\ plans[i].year \in Form13!YearOptions /\ plans[i].reviewed \in BOOLEAN
        /\ Goals13(plans[i].goals)
        /\ plans[i] = [year |-> plans[i].year, goals |-> plans[i].goals,
                       reviewed |-> plans[i].reviewed]
    BY Fields13
  <1>1. p = [year |-> plans[i].year, goals |-> goals, reviewed |-> plans[i].reviewed]
    BY <1>0, PlanWith13
  <1>2. p \in Form13!YearlyPlans
    BY <1>0, <1>1, Plan13 DEF Goals13
  <1>3. p.year = plans[i].year /\ p.goals = goals
    BY <1>1
  <1> HIDE DEF p
  <1>4. \A j \in 1..Len(plans) : j # i => plans[j].year # p.year
    BY <1>3 DEF Plans13
  <1>5. LET next == [plans EXCEPT ![i] = p]
        IN /\ Plans13(next) /\ Len(next) = Len(plans) /\ next[i] = p
           /\ \A j \in 1..Len(plans) : j # i => next[j] = plans[j]
    BY <1>2, <1>3, <1>4, Replaced13
  <1>6. [plans EXCEPT ![i] = [@ EXCEPT !.goals = goals]] = [plans EXCEPT ![i] = p]
    BY DEF p
  <1>7. QED
    BY <1>3, <1>5, <1>6

\* The plan of a year, moved to another year.
LEMMA WithYear13 ==
    ASSUME NEW plans, Plans13(plans), NEW i \in 1..Len(plans), NEW y \in Form13!YearOptions,
           \A j \in 1..Len(plans) : plans[j].year # y
    PROVE  LET next == [plans EXCEPT ![i] = [@ EXCEPT !.year = y]]
           IN /\ Plans13(next) /\ Len(next) = Len(plans)
              /\ \A j \in 1..Len(plans) : plans[j].year = next[j].year => next[j] = plans[j]
  <1> DEFINE p == [plans[i] EXCEPT !.year = y]
  <1>0. /\ plans[i].year \in Form13!YearOptions /\ plans[i].reviewed \in BOOLEAN
        /\ Goals13(plans[i].goals)
        /\ plans[i] = [year |-> plans[i].year, goals |-> plans[i].goals,
                       reviewed |-> plans[i].reviewed]
    BY Fields13
  <1>1. p = [year |-> y, goals |-> plans[i].goals, reviewed |-> plans[i].reviewed]
    BY <1>0, PlanWith13
  <1>2. p \in Form13!YearlyPlans
    BY <1>0, <1>1, Plan13 DEF Goals13
  <1>3. p.year = y /\ Goals13(p.goals)
    BY <1>0, <1>1
  <1> HIDE DEF p
  <1>4. LET next == [plans EXCEPT ![i] = p]
        IN /\ Plans13(next) /\ Len(next) = Len(plans) /\ next[i] = p
           /\ \A j \in 1..Len(plans) : j # i => next[j] = plans[j]
    BY <1>2, <1>3, Replaced13
  <1>5. [plans EXCEPT ![i] = [@ EXCEPT !.year = y]] = [plans EXCEPT ![i] = p]
    BY DEF p
  <1>6. QED
    BY <1>3, <1>4, <1>5

\* A plan that is reviewed keeps its goals.
LEMMA Reviewed13 ==
    ASSUME NEW plans, Plans13(plans), NEW i \in 1..Len(plans)
    PROVE  LET next == [plans EXCEPT ![i] = [@ EXCEPT !.reviewed = TRUE]]
           IN /\ Plans13(next) /\ Len(next) = Len(plans)
              /\ \A j \in 1..Len(plans) : next[j].goals = plans[j].goals
  <1>1. PICK b \in BOOLEAN : b = TRUE
    OBVIOUS
  <1> DEFINE p == [plans[i] EXCEPT !.reviewed = b]
  <1>0. /\ plans[i].year \in Form13!YearOptions /\ plans[i].reviewed \in BOOLEAN
        /\ Goals13(plans[i].goals)
        /\ plans[i] = [year |-> plans[i].year, goals |-> plans[i].goals,
                       reviewed |-> plans[i].reviewed]
    BY Fields13
  <1>2. p = [year |-> plans[i].year, goals |-> plans[i].goals, reviewed |-> b]
    BY <1>0, PlanWith13
  <1>3. p \in Form13!YearlyPlans
    BY <1>0, <1>2, Plan13 DEF Goals13
  <1>4. p.year = plans[i].year /\ p.goals = plans[i].goals /\ Goals13(p.goals)
    BY <1>2, Fields13
  <1>5. [plans EXCEPT ![i] = [@ EXCEPT !.reviewed = TRUE]] = [plans EXCEPT ![i] = p]
    BY <1>1, Zenon
  <1> HIDE DEF p
  <1>6. \A j \in 1..Len(plans) : j # i => plans[j].year # p.year
    BY <1>4 DEF Plans13
  <1>7. LET next == [plans EXCEPT ![i] = p]
        IN /\ Plans13(next) /\ Len(next) = Len(plans) /\ next[i] = p
           /\ \A j \in 1..Len(plans) : j # i => next[j] = plans[j]
    BY <1>3, <1>4, <1>6, Replaced13
  <1>8. QED
    BY <1>4, <1>5, <1>7

\* A goal that was saved is at or above its minimum, among the others.
LEMMA Saved13 ==
    ASSUME NEW goals, Goals13(goals), NEW goal \in Form13!Goals, Sound13(goal)
    PROVE  /\ Goals13(Append(goals, goal))
           /\ \A n : Goals13([j \in DOMAIN goals |-> IF j = n THEN goal ELSE goals[j]])
  <1>1. /\ Len(goals) \in Nat /\ DOMAIN goals = 1..Len(goals)
        /\ \A k \in 1..Len(goals) : goals[k] \in Form13!Goals
    BY LenProperties, ElementOfSeq DEF Goals13
  <1>2. Goals13(Append(goals, goal))
    <2> DEFINE more == Append(goals, goal)
    <2>1. /\ more \in Seq(Form13!Goals) /\ Len(more) = Len(goals) + 1
          /\ more[Len(goals) + 1] = goal /\ \A k \in 1..Len(goals) : more[k] = goals[k]
      BY AppendProperties DEF Goals13
    <2> HIDE DEF more
    <2>2. \A k \in 1..Len(more) : k \in 1..Len(goals) \/ k = Len(goals) + 1
      BY <1>1, <2>1
    <2>3. Goals13(more)
      BY <2>1, <2>2 DEF Goals13
    <2>4. QED
      BY <2>3 DEF more
  <1>3. ASSUME NEW n
        PROVE  Goals13([j \in DOMAIN goals |-> IF j = n THEN goal ELSE goals[j]])
    <2> DEFINE next == [j \in DOMAIN goals |-> IF j = n THEN goal ELSE goals[j]]
    <2>1. next \in [1..Len(goals) -> Form13!Goals] /\ DOMAIN next = 1..Len(goals)
      BY <1>1
    <2>2. \A k \in 1..Len(goals) : Sound13(next[k])
      BY <1>1 DEF Goals13
    <2> HIDE DEF next
    <2>3. next \in Seq(Form13!Goals)
      BY <1>1, <2>1, SeqDef
    <2>4. Len(next) = Len(goals)
      BY <1>1, <2>1, <2>3, LenProperties
    <2>5. Goals13(next)
      BY <2>2, <2>3, <2>4 DEF Goals13
    <2>6. QED
      BY <2>5 DEF next
  <1>4. QED
    BY <1>2, <1>3

\* A removed goal leaves those before it where they were.
LEMMA WithoutGoal13 ==
    ASSUME NEW goals, Goals13(goals), NEW j \in 1..Len(goals)
    PROVE  LET next == Form13!Without(goals, j)
           IN /\ Goals13(next) /\ Len(next) = Len(goals) - 1
              /\ \A k \in 1..(j - 1) : next[k] = goals[k]
  <1> DEFINE next == Form13!Without(goals, j)
  <1>1. /\ next \in Seq(Form13!Goals) /\ Len(next) = Len(goals) - 1
        /\ \A k \in 1..Len(next) : next[k] = IF k < j THEN goals[k] ELSE goals[k + 1]
    BY Removed13 DEF Goals13
  <1> HIDE DEF next
  <1>2. Len(goals) \in Nat
    BY LenProperties DEF Goals13
  <1>3. \A k \in 1..Len(next) : Sound13(next[k])
    <2>1. \A k \in 1..Len(next) : k \in 1..Len(goals) /\ k + 1 \in 1..Len(goals)
      BY <1>1, <1>2
    <2>2. QED
      BY <1>1, <2>1 DEF Goals13
  <1>4. \A k \in 1..(j - 1) : next[k] = goals[k]
    BY <1>1, <1>2
  <1>5. QED
    BY <1>1, <1>3, <1>4 DEF Goals13, next

(* The barriers an action is seeded from. *)
Barriers == [category : STRING, severity : DOMAIN Form13!SeverityOrder]

Order13(b) == Form13!SeverityOrder[b.severity]

\* The order of the three severities.
LEMMA Order13Of ==
    /\ DOMAIN Form13!SeverityOrder = {"high", "medium", "low"}
    /\ Form13!SeverityOrder["high"] = 0 /\ Form13!SeverityOrder["medium"] = 1
    /\ Form13!SeverityOrder["low"] = 2
  BY DEF Form13!SeverityOrder

\* Of two barriers one sorts before the other, and never both.
LEMMA Sorted13 ==
    ASSUME NEW bs \in Seq(Barriers)
    PROVE  /\ \A i \in DOMAIN bs : Order13(bs[i]) \in 0..2 /\ bs[i].severity \in {"high", "medium", "low"}
           /\ \A i, j \in DOMAIN bs :
                 Form13!SortsBefore(bs, i, j) <=>
                    Order13(bs[i]) < Order13(bs[j]) \/ (Order13(bs[i]) = Order13(bs[j]) /\ i < j)
           /\ DOMAIN bs = 1..Len(bs) /\ Len(bs) \in Nat
  <1>1. DOMAIN bs = 1..Len(bs) /\ Len(bs) \in Nat /\ \A i \in DOMAIN bs : bs[i] \in Barriers
    BY LenProperties, ElementOfSeq
  <1>2. \A i \in DOMAIN bs : bs[i].severity \in {"high", "medium", "low"}
    BY <1>1, Order13Of DEF Barriers
  <1>3. \A i \in DOMAIN bs : Order13(bs[i]) \in 0..2
    BY <1>2, Order13Of DEF Order13
  <1>4. QED
    BY <1>1, <1>2, <1>3, Zenon DEF Form13!SortsBefore, Order13

\* The form counts as the rest does.
LEMMA SameCardinality == ASSUME NEW S PROVE Form13!Cardinality(S) = Cardinality(S)
  BY Zenon DEF Form13!Cardinality, Cardinality

\* Up to each number there is a barrier with that many before it, itself among them.
LEMMA Placed13 ==
    ASSUME NEW bs \in Seq(Barriers), NEW first, first \subseteq DOMAIN bs,
           NEW n \in 1..Cardinality(first)
    PROVE  \E i \in first :
              Cardinality({j \in first : j = i \/ Form13!SortsBefore(bs, j, i)}) = n
  <1> DEFINE UpTo(i) == {j \in first : j = i \/ Form13!SortsBefore(bs, j, i)}
             place == [i \in first |-> Cardinality(UpTo(i))]
  <1>1. IsFiniteSet(first) /\ Cardinality(first) \in Nat
    <2>1. DOMAIN bs = 1..Len(bs) /\ Len(bs) \in Nat
      BY Sorted13
    <2>2. IsFiniteSet(1..Len(bs))
      BY <2>1, FS_Interval
    <2>3. IsFiniteSet(first)
      BY <2>1, <2>2, FS_Subset
    <2>4. QED
      BY <2>3, FS_CardinalityType
  <1>2. \A i \in first : /\ IsFiniteSet(UpTo(i)) /\ i \in UpTo(i) /\ UpTo(i) \in SUBSET first
                         /\ Cardinality(UpTo(i)) \in 1..Cardinality(first)
    <2>1. ASSUME NEW i \in first
          PROVE  /\ IsFiniteSet(UpTo(i)) /\ i \in UpTo(i) /\ UpTo(i) \in SUBSET first
                 /\ Cardinality(UpTo(i)) \in 1..Cardinality(first)
      <3>1. i \in UpTo(i) /\ UpTo(i) \in SUBSET first
        BY Zenon
      <3> DEFINE U == UpTo(i)
      <3> HIDE DEF UpTo
      <3>2. IsFiniteSet(U) /\ Cardinality(U) <= Cardinality(first)
        BY <1>1, <3>1, FS_Subset
      <3>3. Cardinality(U) \in Nat /\ (Cardinality(U) = 0 <=> U = {})
        BY <3>2, FS_CardinalityType, FS_EmptySet
      <3>4. Cardinality(U) \in 1..Cardinality(first)
        BY <1>1, <3>1, <3>2, <3>3
      <3>5. QED
        BY <3>1, <3>2, <3>4
    <2>2. QED
      BY <2>1
  <1>3. ASSUME NEW i \in first, NEW j \in first, Form13!SortsBefore(bs, i, j)
        PROVE  Cardinality(UpTo(i)) # Cardinality(UpTo(j))
    <2>1. UpTo(i) \subseteq UpTo(j)
      BY <1>3, Sorted13
    <2>2. j \notin UpTo(i) /\ j \in UpTo(j)
      BY <1>3, Sorted13
    <2> HIDE DEF UpTo
    <2>3. IsFiniteSet(UpTo(j)) /\ UpTo(i) \in SUBSET UpTo(j)
      BY <1>2, <2>1
    <2>4. Cardinality(UpTo(j)) = Cardinality(UpTo(i)) => UpTo(j) = UpTo(i)
      BY <2>3, FS_Subset
    <2>5. QED
      BY <2>2, <2>4
  <1>4. \A i, j \in first : i # j => Form13!SortsBefore(bs, i, j) \/ Form13!SortsBefore(bs, j, i)
    BY Sorted13
  <1>5. \A i, j \in first : Cardinality(UpTo(i)) = Cardinality(UpTo(j)) => i = j
    BY <1>3, <1>4
  <1> HIDE DEF UpTo
  <1>6. place \in Injection(first, 1..Cardinality(first))
    BY <1>2, <1>5 DEF Injection, IsInjective
  <1>7. /\ IsFiniteSet(1..Cardinality(first))
        /\ Cardinality(1..Cardinality(first)) = Cardinality(first)
    BY <1>1, FS_Interval
  <1>8. place \in Surjection(first, 1..Cardinality(first))
    <2> HIDE DEF place
    <2>1. QED
      BY <1>6, <1>7, FS_Injection
  <1>9. \E i \in first : place[i] = n
    BY <1>8 DEF Surjection
  <1>10. QED
    BY <1>9 DEF UpTo

\* The seeds: of every category the severest barrier, and each category once.
Severest13(bs, s) ==
    /\ s \in Barriers
    /\ \E j \in DOMAIN bs : bs[j] = s
    /\ \A j \in DOMAIN bs : bs[j].category = s.category => Order13(s) <= Order13(bs[j])

LEMMA Seeds13 ==
    ASSUME NEW bs \in Seq(Barriers)
    PROVE  LET seeds == Form13!SeedEntries(bs)
           IN /\ \E n \in Nat : DOMAIN seeds = 1..n
              /\ \A k \in DOMAIN seeds : Severest13(bs, seeds[k])
              /\ \A k, m \in DOMAIN seeds : seeds[k].category = seeds[m].category => k = m
  <1> DEFINE seeds == Form13!SeedEntries(bs)
             first == Form13!FirstOfCategory(bs)
             Place(i) == Form13!Cardinality({j \in first : j = i \/ Form13!SortsBefore(bs, j, i)})
             at == [n \in 1..Form13!Cardinality(first) |-> CHOOSE i \in first : Place(i) = n]
  <1>1. DOMAIN bs = 1..Len(bs) /\ Len(bs) \in Nat /\ \A i \in DOMAIN bs : bs[i] \in Barriers
    BY LenProperties, ElementOfSeq
  <1>2. /\ first \subseteq DOMAIN bs
        /\ \A i \in first, j \in DOMAIN bs :
              bs[j].category = bs[i].category => j = i \/ Form13!SortsBefore(bs, i, j)
    BY Zenon DEF Form13!FirstOfCategory
  <1>3. Form13!Cardinality(first) = Cardinality(first) /\ Cardinality(first) \in Nat
    <2>1. IsFiniteSet(1..Len(bs))
      BY <1>1, FS_Interval
    <2>2. IsFiniteSet(first)
      BY <1>1, <1>2, <2>1, FS_Subset
    <2>3. QED
      BY <2>2, FS_CardinalityType, SameCardinality
  <1>4. /\ DOMAIN seeds = 1..Form13!Cardinality(first)
        /\ \A n \in 1..Form13!Cardinality(first) : seeds[n] = bs[at[n]]
    <2>1. seeds = [n \in 1..Form13!Cardinality(first) |-> bs[CHOOSE i \in first : Place(i) = n]]
      BY Zenon DEF Form13!SeedEntries
    <2>2. \A n \in 1..Form13!Cardinality(first) : at[n] = CHOOSE i \in first : Place(i) = n
      BY Zenon
    <2> HIDE DEF first, Place, at, seeds
    <2>3. QED
      BY <2>1, <2>2
  <1> HIDE DEF first
  <1>5. \A n \in 1..Form13!Cardinality(first) : \E i \in first : Place(i) = n
    BY <1>2, <1>3, Placed13, SameCardinality
  <1>6. \A n \in 1..Form13!Cardinality(first) : at[n] \in first /\ Place(at[n]) = n
    BY <1>5
  <1> HIDE DEF Place, at, seeds
  <1>7. ASSUME NEW k \in DOMAIN seeds PROVE Severest13(bs, seeds[k])
    <2>1. at[k] \in first /\ seeds[k] = bs[at[k]] /\ at[k] \in DOMAIN bs
      BY <1>2, <1>4, <1>6
    <2>2. \A j \in DOMAIN bs : bs[j].category = bs[at[k]].category
             => j = at[k] \/ Form13!SortsBefore(bs, at[k], j)
      BY <1>2, <2>1
    <2>3. \A j \in DOMAIN bs : bs[j].category = bs[at[k]].category
             => Order13(bs[at[k]]) <= Order13(bs[j])
      BY <2>1, <2>2, Sorted13
    <2>4. QED
      BY <1>1, <2>1, <2>3 DEF Severest13
  <1>8. ASSUME NEW k \in DOMAIN seeds, NEW m \in DOMAIN seeds,
               seeds[k].category = seeds[m].category
        PROVE  k = m
    <2>1. /\ at[k] \in first /\ at[m] \in first /\ at[k] \in DOMAIN bs /\ at[m] \in DOMAIN bs
          /\ bs[at[k]].category = bs[at[m]].category
      BY <1>2, <1>4, <1>6, <1>8
    <2>2. at[k] = at[m] \/ (Form13!SortsBefore(bs, at[k], at[m]) /\ Form13!SortsBefore(bs, at[m], at[k]))
      BY <1>2, <2>1
    <2>3. at[k] = at[m]
      BY <2>1, <2>2, Sorted13
    <2>4. QED
      BY <1>4, <1>6, <2>3
  <1>9. QED
    BY <1>3, <1>4, <1>7, <1>8 DEF seeds

(* The severities of a category, and the highest of them. *)
Severities13(category, bs) ==
    {x.severity : x \in {y \in Form13!Range(bs) : y.category = category}}

Highest13(set) ==
    IF "high" \in set THEN "high" ELSE IF "medium" \in set THEN "medium" ELSE "low"

\* A seed has the highest severity of its category.
LEMMA HighestOfSeed13 ==
    ASSUME NEW bs \in Seq(Barriers), NEW s, Severest13(bs, s)
    PROVE  Highest13(Severities13(s.category, bs)) = s.severity
  <1> DEFINE set == Severities13(s.category, bs)
  <1>1. \A v : v \in set <=> \E j \in DOMAIN bs : bs[j].category = s.category /\ bs[j].severity = v
    BY DEF Severities13, Form13!Range
  <1>2. s.severity \in {"high", "medium", "low"} /\ s.severity \in set
    BY <1>1, Order13Of DEF Severest13, Barriers
  <1>3. \A v \in set : Form13!SeverityOrder[s.severity] <= Form13!SeverityOrder[v]
    BY <1>1 DEF Severest13, Order13
  <1> HIDE DEF set
  <1>4. "high" \in set => s.severity = "high"
    BY <1>2, <1>3, Order13Of
  <1>5. "medium" \in set => s.severity # "low"
    BY <1>2, <1>3, Order13Of
  <1>6. Highest13(set) = s.severity
    BY <1>2, <1>4, <1>5 DEF Highest13
  <1>7. QED
    BY <1>6 DEF set

(* The actions of the removal plan. *)
Categories13 == STRING \cup {"other"}

Entries13 == [category : Categories13, filled : BOOLEAN, of : STRING \cup {Undefined}]
Metas13   == [fromSeed : BOOLEAN, severity : {"high", "medium", "low"} \cup {Undefined}]

MetaOf13(of, p) ==
    IF of = Undefined THEN Form13!BlankMeta
    ELSE [fromSeed |-> TRUE, severity |-> Highest13(Severities13(of, p.barriers))]

Rows13(entries, meta, p) ==
    /\ entries \in Seq(Entries13) /\ meta \in Seq(Metas13) /\ Len(entries) = Len(meta)
    /\ \A i \in 1..Len(entries) : meta[i] = MetaOf13(entries[i].of, p)
    /\ \A i, j \in 1..Len(entries) :
          entries[i].of = entries[j].of => i = j \/ entries[i].of = Undefined

Barriers13(b, p) == b = [entries |-> b.entries, meta |-> b.meta] /\ Rows13(b.entries, b.meta, p)

\* An action from its fields, and with another value in one of them.
LEMMA Entry13 ==
    ASSUME NEW c \in Categories13, NEW w \in BOOLEAN, NEW o \in STRING \cup {Undefined},
           NEW e, e = [category |-> c, filled |-> w, of |-> o]
    PROVE  /\ e \in Entries13 /\ e.of = o
           /\ \A v : [e EXCEPT !.filled = v] = [category |-> c, filled |-> v, of |-> o]
           /\ \A v : [e EXCEPT !.category = v] = [category |-> v, filled |-> w, of |-> o]
  <1>1. e \in Entries13
    BY DEF Entries13
  <1>2. e.of = o
    OBVIOUS
  <1>3. \A v : [e EXCEPT !.filled = v] = [category |-> c, filled |-> v, of |-> o]
    OBVIOUS
  <1>4. \A v : [e EXCEPT !.category = v] = [category |-> v, filled |-> w, of |-> o]
    OBVIOUS
  <1>5. QED
    BY <1>1, <1>2, <1>3, <1>4

\* The fields of an action.
LEMMA EntryOf13 ==
    ASSUME NEW e \in Entries13
    PROVE  /\ e.category \in Categories13 /\ e.filled \in BOOLEAN /\ e.of \in STRING \cup {Undefined}
           /\ e = [category |-> e.category, filled |-> e.filled, of |-> e.of]
  BY DEF Entries13

\* What is shown beside an action, from its fields.
LEMMA Meta13 ==
    ASSUME NEW w \in BOOLEAN, NEW v \in {"high", "medium", "low"} \cup {Undefined}
    PROVE  [fromSeed |-> w, severity |-> v] \in Metas13
  BY DEF Metas13

\* The action a user adds comes from no barrier.
LEMMA BlankRow13 ==
    /\ Form13!Plan("other", Undefined) \in Entries13
    /\ Form13!Plan("other", Undefined).of = Undefined
    /\ Form13!BlankMeta \in Metas13
    /\ \A p : MetaOf13(Undefined, p) = Form13!BlankMeta
  <1>0. PICK c \in Categories13 : c = "other"
    BY Zenon DEF Categories13
  <1>1. PICK w \in BOOLEAN : w = FALSE
    OBVIOUS
  <1> DEFINE e == [category |-> c, filled |-> w, of |-> Undefined]
  <1>2. Form13!Plan("other", Undefined) = e
    BY <1>0, <1>1, Zenon DEF Form13!Plan
  <1>3. e \in Entries13 /\ e.of = Undefined
    <2>1. Undefined \in STRING \cup {Undefined}
      OBVIOUS
    <2>2. QED
      BY <2>1, Entry13
  <1>4. Form13!BlankMeta = [fromSeed |-> w, severity |-> Undefined]
    BY <1>1, Zenon DEF Form13!BlankMeta
  <1>5. [fromSeed |-> w, severity |-> Undefined] \in Metas13
    BY Meta13
  <1>6. \A p : MetaOf13(Undefined, p) = Form13!BlankMeta
    BY Zenon DEF MetaOf13
  <1> HIDE DEF e
  <1>7. QED
    BY <1>2, <1>3, <1>4, <1>5, <1>6

\* Adding, removing or editing an action keeps each beside its severity.
LEMMA RowAdded13 ==
    ASSUME NEW entries, NEW meta, NEW p, Rows13(entries, meta, p)
    PROVE  Rows13(Append(entries, Form13!Plan("other", Undefined)), Append(meta, Form13!BlankMeta), p)
  <1> DEFINE e == Form13!Plan("other", Undefined)  m == Form13!BlankMeta
             es == Append(entries, e)  ms == Append(meta, m)
  <1>1. e \in Entries13 /\ e.of = Undefined /\ m \in Metas13 /\ m = MetaOf13(Undefined, p)
    BY BlankRow13
  <1> HIDE DEF e, m
  <1>2. /\ es \in Seq(Entries13) /\ Len(es) = Len(entries) + 1 /\ es[Len(entries) + 1] = e
        /\ \A i \in 1..Len(entries) : es[i] = entries[i]
    BY <1>1, AppendProperties DEF Rows13
  <1>3. /\ ms \in Seq(Metas13) /\ Len(ms) = Len(meta) + 1 /\ ms[Len(meta) + 1] = m
        /\ \A i \in 1..Len(meta) : ms[i] = meta[i]
    BY <1>1, AppendProperties DEF Rows13
  <1> HIDE DEF es, ms
  <1>4. Len(entries) \in Nat /\ \A i \in 1..Len(es) : i \in 1..Len(entries) \/ i = Len(entries) + 1
    BY <1>2, LenProperties DEF Rows13
  <1>5. \A i \in 1..Len(es) : ms[i] = MetaOf13(es[i].of, p)
    BY <1>1, <1>2, <1>3, <1>4 DEF Rows13
  <1>6. \A i, j \in 1..Len(es) : es[i].of = es[j].of => i = j \/ es[i].of = Undefined
    BY <1>1, <1>2, <1>4 DEF Rows13
  <1>7. Rows13(es, ms, p)
    BY <1>2, <1>3, <1>5, <1>6 DEF Rows13
  <1>8. QED
    BY <1>7 DEF es, ms, e, m

LEMMA RowRemoved13 ==
    ASSUME NEW entries, NEW meta, NEW p, Rows13(entries, meta, p), NEW i \in 1..Len(entries)
    PROVE  Rows13(Form13!Without(entries, i), Form13!Without(meta, i), p)
  <1> DEFINE es == Form13!Without(entries, i)  ms == Form13!Without(meta, i)
             Was(x) == IF x < i THEN x ELSE x + 1
  <1>1. /\ es \in Seq(Entries13) /\ Len(es) = Len(entries) - 1
        /\ \A k \in 1..Len(es) : es[k] = IF k < i THEN entries[k] ELSE entries[k + 1]
    BY Removed13 DEF Rows13
  <1>2. /\ ms \in Seq(Metas13) /\ Len(ms) = Len(meta) - 1
        /\ \A k \in 1..Len(ms) : ms[k] = IF k < i THEN meta[k] ELSE meta[k + 1]
    BY Removed13 DEF Rows13
  <1> HIDE DEF es, ms
  <1>3. Len(entries) \in Nat /\ Len(meta) = Len(entries)
    BY LenProperties DEF Rows13
  <1>4. ASSUME NEW k \in 1..Len(es)
        PROVE  Was(k) \in 1..Len(entries) /\ es[k] = entries[Was(k)] /\ ms[k] = meta[Was(k)]
    <2>1. k \in 1..Len(ms) /\ k \in 1..Len(entries) /\ k + 1 \in 1..Len(entries)
      BY <1>1, <1>2, <1>3
    <2>2. CASE k < i
      BY <1>1, <1>2, <2>1, <2>2
    <2>3. CASE ~(k < i)
      BY <1>1, <1>2, <2>1, <2>3
    <2>4. QED
      BY <2>2, <2>3
  <1>5. \A j, k \in 1..Len(es) : Was(j) = Was(k) => j = k
    BY <1>1, <1>3
  <1> HIDE DEF Was
  <1>6. \A k \in 1..Len(es) : ms[k] = MetaOf13(es[k].of, p)
    BY <1>4 DEF Rows13
  <1>7. ASSUME NEW j \in 1..Len(es), NEW k \in 1..Len(es), es[j].of = es[k].of
        PROVE  j = k \/ es[j].of = Undefined
    <2>1. /\ Was(j) \in 1..Len(entries) /\ Was(k) \in 1..Len(entries)
          /\ es[j] = entries[Was(j)] /\ es[k] = entries[Was(k)]
      BY <1>4
    <2>2. Was(j) = Was(k) \/ es[j].of = Undefined
      BY <1>7, <2>1 DEF Rows13
    <2>3. QED
      BY <1>5, <2>2
  <1>8. Rows13(es, ms, p)
    BY <1>1, <1>2, <1>3, <1>6, <1>7 DEF Rows13
  <1>9. QED
    BY <1>8 DEF es, ms

LEMMA RowPatched13 ==
    ASSUME NEW entries, NEW meta, NEW p, Rows13(entries, meta, p), NEW i \in 1..Len(entries),
           NEW plan \in Form13!Patches(entries[i])
    PROVE  Rows13([entries EXCEPT ![i] = plan], meta, p)
  <1> DEFINE es == [entries EXCEPT ![i] = plan]
  <1>1. entries[i] \in Entries13
    BY ElementOfSeq DEF Rows13
  <1>2. plan \in Entries13 /\ plan.of = entries[i].of
    <2>0. PICK c \in Categories13 : c = "other"
      BY Zenon DEF Categories13
    <2>1. PICK w \in BOOLEAN : w = TRUE
      OBVIOUS
    <2>2. plan = [entries[i] EXCEPT !.filled = w] \/ plan = [entries[i] EXCEPT !.category = c]
      BY <2>0, <2>1, Zenon DEF Form13!Patches
    <2>3. PICK d \in Categories13, f \in BOOLEAN, o \in STRING \cup {Undefined} :
             entries[i] = [category |-> d, filled |-> f, of |-> o]
      BY <1>1, EntryOf13, Zenon
    <2>4. entries[i].of = o
      BY <2>3, Entry13
    <2>5. plan = [category |-> d, filled |-> w, of |-> o] \/ plan = [category |-> c, filled |-> f, of |-> o]
      BY <2>2, <2>3, Entry13
    <2>6. QED
      BY <2>4, <2>5, Entry13
  <1>3. /\ es \in Seq(Entries13) /\ Len(es) = Len(entries)
        /\ \A j \in 1..Len(entries) : es[j] = IF j = i THEN plan ELSE entries[j]
    BY <1>2, ExceptSeq DEF Rows13
  <1> HIDE DEF es
  <1>4. \A j \in 1..Len(entries) : es[j].of = entries[j].of
    BY <1>2, <1>3
  <1>5. Rows13(es, meta, p)
    BY <1>3, <1>4 DEF Rows13
  <1>6. QED
    BY <1>5 DEF es

\* The actions that are seeded stand beside the severities of their barriers.
LEMMA SeededRows13 ==
    ASSUME NEW p \in Prefills \ {Undefined}
    PROVE  LET seeds == Form13!SeedEntries(p.barriers)
           IN Rows13(Form13!SeedRemovalPlan(seeds), Form13!SeedMeta(seeds), p)
  <1> DEFINE seeds == Form13!SeedEntries(p.barriers)
             es == Form13!SeedRemovalPlan(seeds)  ms == Form13!SeedMeta(seeds)
  <1>1. p.barriers \in Seq(Barriers)
    BY PrefillsAssumption DEF Barriers
  <1>2. PICK n \in Nat : DOMAIN seeds = 1..n
    BY <1>1, Seeds13
  <1>3. /\ \A k \in 1..n : Severest13(p.barriers, seeds[k])
        /\ \A k, m \in 1..n : seeds[k].category = seeds[m].category => k = m
    BY <1>1, <1>2, Seeds13
  <1> HIDE DEF seeds
  <1>4. \A k \in 1..n : /\ seeds[k].category \in STRING /\ seeds[k].severity \in {"high", "medium", "low"}
                        /\ Highest13(Severities13(seeds[k].category, p.barriers)) = seeds[k].severity
    <2>1. \A k \in 1..n : seeds[k] \in Barriers
      BY <1>3 DEF Severest13
    <2>2. \A k \in 1..n : Highest13(Severities13(seeds[k].category, p.barriers)) = seeds[k].severity
      BY <1>1, <1>3, HighestOfSeed13
    <2>3. QED
      BY <2>1, <2>2, Order13Of DEF Barriers
  <1>5. PICK w \in BOOLEAN : w = FALSE
    OBVIOUS
  <1>6. PICK v \in BOOLEAN : v = TRUE
    OBVIOUS
  <1>7. es = [k \in 1..n |-> [category |-> seeds[k].category, filled |-> w, of |-> seeds[k].category]]
    BY <1>2, <1>5, Zenon DEF Form13!SeedRemovalPlan, Form13!Plan
  <1>8. ms = [k \in 1..n |-> [fromSeed |-> v, severity |-> seeds[k].severity]]
    BY <1>2, <1>6, Zenon DEF Form13!SeedMeta
  <1> HIDE DEF es, ms
  <1>9. \A k \in 1..n : es[k] \in Entries13 /\ es[k].of = seeds[k].category
    <2>1. ASSUME NEW k \in 1..n PROVE es[k] \in Entries13 /\ es[k].of = seeds[k].category
      <3> DEFINE c == seeds[k].category
      <3>1. c \in Categories13 /\ c \in STRING \cup {Undefined}
        BY <1>4 DEF Categories13
      <3>2. es[k] = [category |-> c, filled |-> w, of |-> c]
        BY <1>7
      <3> HIDE DEF c
      <3>3. es[k] \in Entries13 /\ es[k].of = c
        BY <3>1, <3>2, Entry13
      <3>4. QED
        BY <3>3 DEF c
    <2>2. QED
      BY <2>1
  <1>10. \A k \in 1..n : ms[k] \in Metas13 /\ ms[k] = [fromSeed |-> v, severity |-> seeds[k].severity]
    BY <1>4, <1>8, Meta13
  <1>11. /\ es \in Seq(Entries13) /\ ms \in Seq(Metas13) /\ Len(es) = n /\ Len(ms) = n
    <2>1. es \in [1..n -> Entries13] /\ ms \in [1..n -> Metas13] /\ DOMAIN es = 1..n /\ DOMAIN ms = 1..n
      BY <1>7, <1>8, <1>9, <1>10
    <2>2. es \in Seq(Entries13) /\ ms \in Seq(Metas13)
      BY <2>1, SeqDef
    <2>3. QED
      BY <2>1, <2>2, LenProperties
  <1>12. \A k \in 1..n : ms[k] = MetaOf13(es[k].of, p)
    <2>1. ASSUME NEW k \in 1..n PROVE ms[k] = MetaOf13(es[k].of, p)
      <3> DEFINE c == seeds[k].category
      <3>1. c # Undefined
        BY <1>4, PrefillsAssumption
      <3>2. MetaOf13(c, p) = [fromSeed |-> v, severity |-> Highest13(Severities13(c, p.barriers))]
        BY <1>6, <3>1, Zenon DEF MetaOf13
      <3>3. QED
        BY <1>4, <1>9, <1>10, <3>2
    <2>2. QED
      BY <2>1
  <1>13. \A k, m \in 1..n : es[k].of = es[m].of => k = m \/ es[k].of = Undefined
    BY <1>3, <1>9
  <1>14. Rows13(es, ms, p)
    BY <1>11, <1>12, <1>13 DEF Rows13
  <1>15. QED
    BY <1>14 DEF es, ms, seeds

\* A single action that a user is offered when there is nothing to seed.
LEMMA FirstRow13 ==
    ASSUME NEW p
    PROVE  Rows13(<< Form13!Plan("other", Undefined) >>, << Form13!BlankMeta >>, p)
  <1> DEFINE e == Form13!Plan("other", Undefined)  m == Form13!BlankMeta
  <1>1. e \in Entries13 /\ e.of = Undefined /\ m \in Metas13 /\ m = MetaOf13(Undefined, p)
    BY BlankRow13
  <1> HIDE DEF e, m
  <1>2. /\ << e >> \in Seq(Entries13) /\ << m >> \in Seq(Metas13) /\ Len(<< e >>) = 1 /\ Len(<< m >>) = 1
        /\ << e >>[1] = e /\ << m >>[1] = m
    BY <1>1
  <1>3. Rows13(<< e >>, << m >>, p)
    BY <1>1, <1>2 DEF Rows13
  <1>4. QED
    BY <1>3 DEF e, m

(* The page. *)
Base13 ==
    /\ {"setup", "plans", "barriers", "prefill"} \subseteq DOMAIN formState
    /\ "sector" \in DOMAIN formState.setup /\ formState.setup.sector \in Sectors \cup {""}
    /\ formState.prefill \in Prefills /\ made \in Nat
    /\ step \notin {"setup", "workforce"} => formState.setup.sector # ""
    /\ formState.barriers # Undefined \/ step = "barriers" =>
          Barriers13(formState.barriers, formState.prefill)

Inv13 ==
    /\ Base13 /\ Plans13(Form13!Plans)
    /\ IF step = "plans" THEN Editors13(editors, Form13!Plans) ELSE editors = << >>

\* The step of the removal plan finds the actions that are stored, or seeds them.
LEMMA Seeded13 ==
    ASSUME Base13
    PROVE  Barriers13(Form13!Seeded, formState.prefill)
  <1> DEFINE p == formState.prefill  seeds == Form13!SeedEntries(p.barriers)
  <1>1. ASSUME NEW es, NEW ms, Rows13(es, ms, p)
        PROVE  Barriers13([entries |-> es, meta |-> ms], p)
    BY <1>1 DEF Barriers13
  <1>2. CASE formState.barriers # Undefined
    BY <1>2, Zenon DEF Base13, Form13!Seeded
  <1>3. CASE formState.barriers = Undefined
    <2>1. \/ Form13!Seeded = [entries |-> << Form13!Plan("other", Undefined) >>,
                              meta |-> << Form13!BlankMeta >>]
          \/ p # Undefined /\ Form13!Seeded = [entries |-> Form13!SeedRemovalPlan(seeds),
                                               meta |-> Form13!SeedMeta(seeds)]
      BY <1>3, Zenon DEF Form13!Seeded
    <2>2. p \in Prefills
      BY DEF Base13
    <2>3. QED
      BY <1>1, <2>1, <2>2, SeededRows13, FirstRow13
  <1>4. QED
    BY <1>2, <1>3

\* What is put into the form is there, and the rest of the form stays.
LEMMA Put13 ==
    ASSUME NEW f \in {"setup", "plans", "barriers", "workforce", "disputes"}, NEW x,
           formState' = [formState EXCEPT ![f] = x]
    PROVE  /\ DOMAIN formState' = DOMAIN formState
           /\ f \in DOMAIN formState => formState'[f] = x
           /\ \A g \in DOMAIN formState : g # f => formState'[g] = formState[g]
  OBVIOUS

\* A step that leaves plans and editors alone leaves what is said of them alone.
LEMMA Elsewhere13 ==
    ASSUME Inv13, Base13', UNCHANGED <<step, editors>>, formState'.plans = formState.plans
    PROVE  Inv13'
  <1>1. Form13!Plans' = Form13!Plans
    BY DEF Form13!Plans
  <1>2. QED
    BY <1>1 DEF Inv13

\* A step that stores plans on the step that shows them.
LEMMA Planned13 ==
    ASSUME Inv13, step = "plans", step' = step, made' \in Nat, NEW plans, Plans13(plans),
           formState' = [formState EXCEPT !.plans = plans], Editors13(editors', plans)
    PROVE  Inv13'
  <1>0. {"setup", "plans", "barriers", "prefill"} \subseteq DOMAIN formState
    BY DEF Inv13, Base13
  <1>1. /\ DOMAIN formState' = DOMAIN formState /\ formState'.plans = plans
        /\ \A g \in {"setup", "barriers", "prefill"} : formState'[g] = formState[g]
    BY <1>0
  <1>2. Base13'
    BY <1>1 DEF Inv13, Base13
  <1>3. plans # Undefined
    BY PlansAssumption DEF Plans13
  <1>4. Form13!Plans' = plans
    BY <1>1, <1>3 DEF Form13!Plans
  <1>5. QED
    BY <1>2, <1>4 DEF Inv13

\* One editor and the goals of its plan changed, the others as they were.
LEMMA OneEditor13 ==
    ASSUME NEW eds, NEW plans, Editors13(eds, plans), NEW i \in 1..Len(plans), NEW e,
           NEW next, Len(next) = Len(plans),
           \A j \in 1..Len(plans) : j # i => next[j].goals = plans[j].goals,
           Editor13(e, next[i].goals)
    PROVE  Editors13([eds EXCEPT ![i] = e], next)
  <1> DEFINE es == [eds EXCEPT ![i] = e]
  <1>1. DOMAIN es = 1..Len(plans) /\ \A j \in 1..Len(plans) : es[j] = IF j = i THEN e ELSE eds[j]
    BY DEF Editors13
  <1> HIDE DEF es
  <1>2. Editors13(es, next)
    BY <1>1 DEF Editors13
  <1>3. QED
    BY <1>2 DEF es

\* Every editor is new when the step is shown.
LEMMA Opened13 ==
    ASSUME NEW plans, Plans13(plans)
    PROVE  Editors13(Form13!EditorsOf(plans), plans)
  <1>1. DOMAIN plans = 1..Len(plans)
    BY LenProperties DEF Plans13
  <1>2. QED
    BY <1>1, NewEditor13 DEF Editors13, Form13!EditorsOf

\* The editors that stay when plans are added, removed or moved know the goals of their plans.
LEMMA Kept13 ==
    ASSUME Editors13(editors, Form13!Plans), Plans13(Form13!Plans), NEW plans, Plans13(plans),
           \A j \in 1..Len(plans) : j \in 1..Len(Form13!Plans) /\ Form13!Plans[j].year = plans[j].year
              => plans[j].goals = Form13!Plans[j].goals
    PROVE  Editors13(Form13!EditorsKept(plans), plans)
  <1>1. DOMAIN plans = 1..Len(plans) /\ DOMAIN Form13!Plans = 1..Len(Form13!Plans)
    BY LenProperties DEF Plans13
  <1>2. ASSUME NEW j \in 1..Len(plans)
        PROVE  Editor13(Form13!EditorsKept(plans)[j], plans[j].goals)
    <2>1. CASE j \in 1..Len(Form13!Plans) /\ Form13!Plans[j].year = plans[j].year
      <3>1. Form13!EditorsKept(plans)[j] = editors[j]
        BY <1>1, <2>1 DEF Form13!EditorsKept
      <3>2. QED
        BY <2>1, <3>1 DEF Editors13
    <2>2. CASE ~(j \in 1..Len(Form13!Plans) /\ Form13!Plans[j].year = plans[j].year)
      <3>1. Form13!EditorsKept(plans)[j] = Form13!NewEditor
        BY <1>1, <2>2 DEF Form13!EditorsKept
      <3>2. QED
        BY <3>1, NewEditor13
    <2>3. QED
      BY <2>1, <2>2
  <1>3. DOMAIN Form13!EditorsKept(plans) = 1..Len(plans)
    BY <1>1 DEF Form13!EditorsKept
  <1>4. QED
    BY <1>2, <1>3 DEF Editors13

\* Plans that are set on their step, with a year that no other has.
LEMMA PlansSet13 ==
    ASSUME Inv13, NEW plans, Form13!SetPlans(plans), Plans13(plans),
           \A j \in 1..Len(plans) : j \in 1..Len(Form13!Plans) /\ Form13!Plans[j].year = plans[j].year
              => plans[j].goals = Form13!Plans[j].goals
    PROVE  Inv13'
  <1>1. /\ step = "plans" /\ step' = step /\ made' = made
        /\ formState' = [formState EXCEPT !.plans = plans]
        /\ editors' = Form13!EditorsKept(plans)
    BY DEF Form13!SetPlans, Form13!SetStepData
  <1>2. Editors13(editors, Form13!Plans) /\ Plans13(Form13!Plans) /\ made' \in Nat
    BY <1>1 DEF Inv13, Base13
  <1>3. Editors13(editors', plans)
    BY <1>1, <1>2, Kept13
  <1>4. QED
    BY <1>1, <1>2, <1>3, Planned13

\* As many years are used as there are plans.
LEMMA Years13 ==
    ASSUME Plans13(Form13!Plans)
    PROVE  /\ IsFiniteSet(Form13!UsedYears) /\ Cardinality(Form13!UsedYears) = Len(Form13!Plans)
           /\ Form13!UsedYears \subseteq Form13!YearOptions
           /\ Form13!UsedYears = {Form13!Plans[i].year : i \in 1..Len(Form13!Plans)}
  <1> DEFINE plans == Form13!Plans  n == Len(plans)
             f == [i \in 1..n |-> plans[i].year]  years == {plans[i].year : i \in 1..n}
  <1>1. DOMAIN plans = 1..n /\ n \in Nat
    BY LenProperties DEF Plans13
  <1>2. Form13!UsedYears = years
    BY <1>1 DEF Form13!UsedYears
  <1>3. \A i \in 1..n : plans[i].year \in Form13!YearOptions
    BY Fields13
  <1>4. \A i, j \in 1..n : plans[i].year = plans[j].year => i = j
    BY DEF Plans13
  <1> HIDE DEF plans
  <1>5. f \in Injection(1..n, years) /\ f \in Surjection(1..n, years)
    BY <1>4 DEF Injection, IsInjective, Surjection
  <1>6. IsFiniteSet(1..n) /\ Cardinality(1..n) = n
    <2> HIDE DEF n
    <2>1. QED
      BY <1>1, FS_Interval
  <1> HIDE DEF f, years, n
  <1>7. IsFiniteSet(years) /\ Cardinality(years) = n
    BY <1>5, <1>6, FS_Surjection
  <1>8. years \subseteq Form13!YearOptions
    BY <1>3 DEF years
  <1>9. QED
    BY Zenon, <1>2, <1>7, <1>8 DEF plans, n, years

\* The step of a yearly plan: who is there has a sector, and an editor for every plan.
LEMMA OnPlans13 ==
    ASSUME Inv13, step = "plans"
    PROVE  /\ Form13!Sector \in Sectors /\ Editors13(editors, Form13!Plans)
           /\ Plans13(Form13!Plans) /\ DOMAIN editors = 1..Len(Form13!Plans)
           /\ made \in Nat
  <1>1. formState.setup.sector # ""
    BY DEF Inv13, Base13
  <1>2. QED
    BY <1>1 DEF Inv13, Base13, Form13!Sector, Editors13

\* The end date that is proposed leaves the sector alone.
LEMMA Suggested13 ==
    ASSUME NEW setup, "sector" \in DOMAIN setup
    PROVE  "sector" \in DOMAIN Form13!SuggestedEnd(setup)
           /\ Form13!SuggestedEnd(setup).sector = setup.sector
  BY DEF Form13!SuggestedEnd

\* The setup of the plan: only its sector matters here.
LEMMA Setup13 ==
    ASSUME Inv13, NEW setup, "sector" \in DOMAIN setup, setup.sector \in Sectors \cup {""},
           step = "setup", formState' = [formState EXCEPT !.setup = setup],
           UNCHANGED <<step, editors, made>>
    PROVE  Inv13'
  <1>1. /\ DOMAIN formState' = DOMAIN formState /\ formState'.setup = setup
        /\ \A g \in {"plans", "barriers", "prefill"} : formState'[g] = formState[g]
    BY Put13 DEF Inv13, Base13
  <1>2. Base13'
    BY <1>1 DEF Inv13, Base13
  <1>3. QED
    BY <1>1, <1>2, Elsewhere13

LEMMA SetupChanged13 == ASSUME Inv13, step = "setup", Form13!ChangeSetup PROVE Inv13'
  <1> DEFINE setup == formState.setup
  <1>1. "sector" \in DOMAIN setup /\ setup.sector \in Sectors \cup {""}
    BY DEF Inv13, Base13
  <1>2. ASSUME NEW next, Form13!UpdateSetup(next), "sector" \in DOMAIN next,
               next.sector \in Sectors \cup {""}
        PROVE  Inv13'
    BY <1>2, Setup13 DEF Form13!UpdateSetup, Form13!SetStepData
  <1> HIDE DEF setup
  <1>3. ASSUME NEW s \in Sectors \cup {""}, Form13!UpdateSetup([setup EXCEPT !.sector = s])
        PROVE  Inv13'
    BY <1>1, <1>2, <1>3
  <1>4. ASSUME NEW d, Form13!UpdateSetup(Form13!SuggestedEnd([setup EXCEPT !.start = d, !.end = Undefined]))
        PROVE  Inv13'
    <2> DEFINE next == [setup EXCEPT !.start = d, !.end = Undefined]
    <2>1. "sector" \in DOMAIN next /\ next.sector = setup.sector
      BY <1>1
    <2> HIDE DEF next
    <2>2. "sector" \in DOMAIN Form13!SuggestedEnd(next) /\ Form13!SuggestedEnd(next).sector = setup.sector
      BY <2>1, Suggested13
    <2>3. QED
      BY <1>1, <1>2, <1>4, <2>2 DEF next
  <1>5. ASSUME NEW d, Form13!UpdateSetup([setup EXCEPT !.end = d])
        PROVE  Inv13'
    BY <1>1, <1>2, <1>5
  <1>6. ASSUME NEW box, Form13!UpdateSetup([setup EXCEPT !.consultation = Form13!SymDiff(@, {box})])
        PROVE  Inv13'
    <2> DEFINE next == [setup EXCEPT !.consultation = Form13!SymDiff(@, {box})]
    <2>1. "sector" \in DOMAIN next /\ next.sector = setup.sector
      BY <1>1
    <2> HIDE DEF next
    <2>2. QED
      BY <1>1, <1>2, <1>6, <2>1 DEF next
  <1>7. QED
    BY <1>3, <1>4, <1>5, <1>6, Zenon DEF Form13!ChangeSetup, setup

\* What is stored beside setup, plans and barriers matters to none of them.
LEMMA Other13 ==
    ASSUME Inv13, NEW f \in {"workforce", "disputes"}, NEW x,
           formState' = [formState EXCEPT ![f] = x], UNCHANGED <<step, editors, made>>
    PROVE  Inv13'
  <1>1. /\ DOMAIN formState' = DOMAIN formState
        /\ \A g \in {"setup", "plans", "barriers", "prefill"} : formState'[g] = formState[g]
    BY Put13 DEF Inv13, Base13
  <1>2. Base13'
    BY <1>1 DEF Inv13, Base13
  <1>3. QED
    BY <1>1, <1>2, Elsewhere13

LEMMA FigureGiven13 == ASSUME Inv13, NEW f, NEW n, Form13!UpdateField(f, n) PROVE Inv13'
  BY Other13 DEF Form13!UpdateField, Form13!SetStepData

LEMMA DisputeWritten13 == ASSUME Inv13, NEW f, Form13!WriteDispute(f) PROVE Inv13'
  BY Other13 DEF Form13!WriteDispute, Form13!SetStepData

\* The removal of barriers.
LEMMA BarriersSet13 ==
    ASSUME Inv13, NEW entries, NEW meta, Rows13(entries, meta, formState.prefill),
           Form13!SetBarriers(entries, meta)
    PROVE  Inv13'
  <1> DEFINE b == [entries |-> entries, meta |-> meta]
  <1>1. formState' = [formState EXCEPT !.barriers = b] /\ UNCHANGED <<step, editors, made>>
    BY DEF Form13!SetBarriers, Form13!SetStepData
  <1>2. b = [entries |-> b.entries, meta |-> b.meta] /\ b.entries = entries /\ b.meta = meta
    OBVIOUS
  <1>3. Barriers13(b, formState.prefill)
    BY <1>2 DEF Barriers13
  <1> HIDE DEF b
  <1>4. {"setup", "plans", "barriers", "prefill"} \subseteq DOMAIN formState
    BY DEF Inv13, Base13
  <1>5. /\ DOMAIN formState' = DOMAIN formState /\ formState'.barriers = b
        /\ \A g \in {"setup", "plans", "prefill"} : formState'[g] = formState[g]
    BY <1>1, <1>4
  <1>6. Base13'
    BY <1>1, <1>3, <1>5 DEF Inv13, Base13
  <1>7. QED
    BY <1>1, <1>5, <1>6, Elsewhere13

LEMMA BarriersChanged13 == ASSUME Inv13, step = "barriers", Form13!ChangeBarriers PROVE Inv13'
  <1> DEFINE b == formState.barriers  p == formState.prefill
  <1>1. Rows13(b.entries, b.meta, p)
    BY DEF Inv13, Base13, Barriers13
  <1>2. DOMAIN b.entries = 1..Len(b.entries)
    BY <1>1, LenProperties DEF Rows13
  <1>3. ASSUME NEW i \in DOMAIN b.entries, NEW plan \in Form13!Patches(b.entries[i]),
               Form13!SetBarriers([b.entries EXCEPT ![i] = plan], b.meta)
        PROVE  Inv13'
    BY <1>1, <1>2, <1>3, RowPatched13, BarriersSet13
  <1>4. ASSUME NEW i \in DOMAIN b.entries,
               Form13!SetBarriers(Form13!Without(b.entries, i), Form13!Without(b.meta, i))
        PROVE  Inv13'
    BY <1>1, <1>2, <1>4, RowRemoved13, BarriersSet13
  <1>5. ASSUME Form13!SetBarriers(Append(b.entries, Form13!Plan("other", Undefined)),
                                  Append(b.meta, Form13!BlankMeta))
        PROVE  Inv13'
    BY <1>1, <1>5, RowAdded13, BarriersSet13
  <1>6. QED
    BY <1>3, <1>4, <1>5, Zenon DEF Form13!ChangeBarriers

\* A draft whose fields are of their types.
Draft13(d) ==
    /\ DOMAIN d = {"kind", "target", "ready", "id"}
    /\ d.kind \in Kinds /\ d.target \in Int /\ d.id \in Nat

\* What is known of an editor's draft.
LEMMA DraftOf13 ==
    ASSUME NEW e, NEW goals, Editor13(e, goals)
    PROVE  Draft13(e.draft)
  BY DEF Editor13, Draft13

\* The user's entries in a draft leave alone the goal it replaces.
LEMMA Drafted13 ==
    ASSUME Inv13, NEW i \in DOMAIN editors, NEW d, Draft13(d), d.id = editors[i].draft.id,
           Form13!SetDraft(i, d)
    PROVE  Inv13'
  <1>1. /\ step = "plans" /\ UNCHANGED <<step, formState, made>>
        /\ editors' = [editors EXCEPT ![i] = [@ EXCEPT !.draft = d]]
    BY DEF Form13!SetDraft
  <1>2. Editors13(editors, Form13!Plans) /\ Plans13(Form13!Plans) /\ i \in 1..Len(Form13!Plans)
    BY <1>1, OnPlans13
  <1> DEFINE e == editors[i]  goals == Form13!Plans[i].goals  next == [e EXCEPT !.draft = d]
  <1>3. Editor13(e, goals)
    BY <1>2 DEF Editors13
  <1>4. editors' = [editors EXCEPT ![i] = next]
    BY <1>1
  <1>5. d.id = e.draft.id
    OBVIOUS
  <1> HIDE DEF e
  <1>6. next.draft = d /\ next.editing = e.editing /\ next.shifted = e.shifted
        /\ DOMAIN next = {"draft", "editing", "shifted"}
    BY <1>3 DEF Editor13
  <1> HIDE DEF next
  <1>7. Editor13(next, goals)
    BY <1>3, <1>5, <1>6 DEF Editor13, Draft13
  <1> HIDE DEF goals
  <1>8. Editors13(editors', Form13!Plans)
    BY <1>2, <1>4, <1>7, OneEditor13 DEF goals
  <1>9. Form13!Plans' = Form13!Plans
    BY <1>1 DEF Form13!Plans
  <1>10. Base13'
    BY <1>1 DEF Inv13, Base13
  <1>11. QED
    BY <1>1, <1>2, <1>8, <1>9, <1>10 DEF Inv13

\* The draft of an editor on the screen.
LEMMA DraftOn13 ==
    ASSUME Inv13, step = "plans", NEW i \in DOMAIN editors
    PROVE  Draft13(editors[i].draft)
  BY OnPlans13, DraftOf13 DEF Editors13

LEMMA KindChosen13 ==
    ASSUME Inv13, NEW i \in DOMAIN editors, NEW k \in Kinds, Form13!ChooseKind(i, k)
    PROVE  Inv13'
  <1> DEFINE draft == editors[i].draft
             d == [kind |-> k, target |-> Form13!TargetAfter(draft, k),
                   ready |-> draft.ready, id |-> draft.id]
  <1>1. Form13!SetDraft(i, d)
    BY DEF Form13!ChooseKind
  <1>2. Draft13(draft)
    BY <1>1, DraftOn13 DEF Form13!SetDraft
  <1>3. Form13!TargetAfter(draft, k) \in Int
    BY <1>2, PlansAssumption DEF Draft13, Form13!TargetAfter
  <1> HIDE DEF draft
  <1>4. Draft13(d) /\ d.id = draft.id
    BY <1>2, <1>3 DEF Draft13
  <1> HIDE DEF d
  <1>5. QED
    BY <1>1, <1>4, Drafted13 DEF draft

LEMMA TargetEntered13 ==
    ASSUME Inv13, NEW i \in DOMAIN editors, NEW t \in Targets, Form13!EnterTarget(i, t)
    PROVE  Inv13'
  <1> DEFINE draft == editors[i].draft  d == [draft EXCEPT !.target = t]
  <1>1. Form13!SetDraft(i, d)
    BY DEF Form13!EnterTarget
  <1>2. Draft13(draft) /\ t \in Int
    BY <1>1, DraftOn13, PlansAssumption DEF Form13!SetDraft
  <1> HIDE DEF draft
  <1>3. Draft13(d) /\ d.id = draft.id
    BY <1>2 DEF Draft13
  <1> HIDE DEF d
  <1>4. QED
    BY <1>1, <1>3, Drafted13 DEF draft

LEMMA Completed13 ==
    ASSUME Inv13, NEW i \in DOMAIN editors, Form13!Complete(i)
    PROVE  Inv13'
  <1> DEFINE draft == editors[i].draft
  <1>1. PICK w : w = TRUE
    OBVIOUS
  <1> DEFINE d == [draft EXCEPT !.ready = w]
  <1>2. Form13!SetDraft(i, d)
    BY <1>1, Zenon DEF Form13!Complete
  <1>3. Draft13(draft)
    BY <1>2, DraftOn13 DEF Form13!SetDraft
  <1> HIDE DEF draft
  <1>4. Draft13(d) /\ d.id = draft.id
    BY <1>3 DEF Draft13
  <1> HIDE DEF d
  <1>5. QED
    BY <1>2, <1>4, Drafted13 DEF draft

\* The goals of one plan are stored, and one editor follows.
LEMMA GoalsSet13 ==
    ASSUME Inv13, NEW i \in DOMAIN editors, NEW goals, Goals13(goals), Form13!SetGoals(i, goals),
           NEW e, Editor13(e, goals), editors' = [editors EXCEPT ![i] = e], made' \in Nat
    PROVE  Inv13'
  <1> DEFINE plans == Form13!Plans  next == [plans EXCEPT ![i] = [@ EXCEPT !.goals = goals]]
  <1>1. step = "plans" /\ step' = step /\ formState' = [formState EXCEPT !.plans = next]
    BY DEF Form13!SetGoals, Form13!SetStepData
  <1>2. Editors13(editors, plans) /\ Plans13(plans) /\ i \in 1..Len(plans)
    BY <1>1, OnPlans13
  <1> HIDE DEF plans
  <1>3. /\ Plans13(next) /\ Len(next) = Len(plans) /\ next[i].goals = goals
        /\ \A j \in 1..Len(plans) : j # i => next[j] = plans[j]
    BY <1>2, WithGoals13
  <1> HIDE DEF next
  <1>4. Editors13(editors', next)
    BY <1>2, <1>3, OneEditor13
  <1>5. QED
    BY <1>1, <1>3, <1>4, Planned13

\* The goals of a plan on the screen.
LEMMA GoalsOn13 ==
    ASSUME Inv13, step = "plans", NEW i \in DOMAIN editors
    PROVE  /\ Goals13(Form13!Plans[i].goals) /\ Editor13(editors[i], Form13!Plans[i].goals)
           /\ DOMAIN Form13!Plans[i].goals = 1..Len(Form13!Plans[i].goals)
           /\ Len(Form13!Plans[i].goals) \in Nat
           /\ \A k \in 1..Len(Form13!Plans[i].goals) : Form13!Plans[i].goals[k] \in Form13!Goals
  <1>1. Goals13(Form13!Plans[i].goals) /\ Editor13(editors[i], Form13!Plans[i].goals)
    BY OnPlans13 DEF Plans13, Editors13
  <1>2. QED
    BY <1>1, LenProperties, ElementOfSeq DEF Goals13

LEMMA GoalSaved13 ==
    ASSUME Inv13, NEW i \in DOMAIN editors, Form13!SaveGoal(i)
    PROVE  Inv13'
  <1> DEFINE goals == Form13!Plans[i].goals  draft == editors[i].draft  sector == Form13!Sector
             saved(id) == [kind |-> draft.kind, target |-> draft.target, id |-> id, sector |-> sector]
  <1>1. /\ Form13!CanSave(draft) /\ step = "plans"
        /\ editors' = [editors EXCEPT ![i] = Form13!NewEditor]
    BY DEF Form13!SaveGoal, Form13!SetGoals
  <1>2. Goals13(goals) /\ Draft13(draft) /\ sector \in Sectors /\ made \in Nat
    BY <1>1, GoalsOn13, DraftOn13, OnPlans13
  <1>3. draft.target >= Form13!EffectiveMinimum(sector, draft.kind)
    BY <1>1 DEF Form13!CanSave
  <1>4. \/ made' = made + 1 /\ Form13!SetGoals(i, Append(goals, saved(made')))
        \/ /\ made' = made
           /\ Form13!SetGoals(i, [j \in DOMAIN goals |->
                 IF j = editors[i].editing THEN saved(draft.id) ELSE goals[j]])
    BY Zenon DEF Form13!SaveGoal
  <1> HIDE DEF goals, draft, sector
  <1>5. ASSUME NEW id \in Nat PROVE saved(id) \in Form13!Goals /\ Sound13(saved(id))
    <2> DEFINE g == saved(id)
    <2>1. g.kind = draft.kind /\ g.target = draft.target /\ g.sector = sector
      OBVIOUS
    <2>2. g \in Form13!Goals
      BY <1>2 DEF Draft13, Form13!Goals
    <2> HIDE DEF g
    <2>3. Sound13(g)
      BY <1>3, <2>1 DEF Sound13
    <2>4. QED
      BY <2>2, <2>3 DEF g
  <1> HIDE DEF saved
  <1>6. CASE made' = made + 1 /\ Form13!SetGoals(i, Append(goals, saved(made')))
    <2>1. made' \in Nat
      BY <1>2, <1>6
    <2>2. Goals13(Append(goals, saved(made')))
      BY <1>2, <1>5, <2>1, Saved13
    <2>3. QED
      BY <1>1, <1>6, <2>1, <2>2, NewEditor13, GoalsSet13
  <1>7. CASE /\ made' = made
             /\ Form13!SetGoals(i, [j \in DOMAIN goals |->
                   IF j = editors[i].editing THEN saved(draft.id) ELSE goals[j]])
    <2> DEFINE next == [j \in DOMAIN goals |->
                   IF j = editors[i].editing THEN saved(draft.id) ELSE goals[j]]
    <2>1. made' \in Nat /\ draft.id \in Nat
      BY <1>2, <1>7 DEF Draft13
    <2>2. Goals13(next)
      BY <1>2, <1>5, <2>1, Saved13
    <2>3. Form13!SetGoals(i, next)
      BY <1>7
    <2> HIDE DEF next
    <2>4. QED
      BY <1>1, <2>1, <2>2, <2>3, NewEditor13, GoalsSet13
  <1>8. QED
    BY <1>4, <1>6, <1>7

LEMMA GoalEdited13 ==
    ASSUME Inv13, NEW i \in DOMAIN editors, NEW j \in DOMAIN Form13!Plans[i].goals,
           Form13!EditGoal(i, j)
    PROVE  Inv13'
  <1> DEFINE goals == Form13!Plans[i].goals  goal == goals[j]
  <1>1. PICK t, f : t = TRUE /\ f = FALSE
    OBVIOUS
  <1> DEFINE d == [kind |-> goal.kind, target |-> goal.target, ready |-> t, id |-> goal.id]
             e == [draft |-> d, editing |-> j, shifted |-> f]
  <1>2. /\ step = "plans" /\ UNCHANGED <<step, formState, made>>
        /\ editors' = [editors EXCEPT ![i] = e]
    BY <1>1, Zenon DEF Form13!EditGoal
  <1>3. goal \in Form13!Goals /\ j \in 1..Len(goals) /\ Len(goals) \in Nat
    BY <1>2, GoalsOn13
  <1> HIDE DEF goal
  <1>4. Draft13(d) /\ d.id = goal.id
    BY <1>3 DEF Draft13, Form13!Goals
  <1> HIDE DEF d
  <1>5. e.draft = d /\ e.editing = j /\ DOMAIN e = {"draft", "editing", "shifted"}
    OBVIOUS
  <1> HIDE DEF e, goals
  <1>6. Editor13(e, goals)
    BY <1>3, <1>4, <1>5 DEF Editor13, Draft13, goal
  <1>7. Editors13(editors', Form13!Plans) /\ Plans13(Form13!Plans)
    BY <1>2, <1>6, OnPlans13, OneEditor13 DEF goals
  <1>8. Form13!Plans' = Form13!Plans
    BY <1>2 DEF Form13!Plans
  <1>9. Base13'
    BY <1>2 DEF Inv13, Base13
  <1>10. QED
    BY <1>2, <1>7, <1>8, <1>9 DEF Inv13

LEMMA GoalRemoved13 ==
    ASSUME Inv13, NEW i \in DOMAIN editors, NEW j \in DOMAIN Form13!Plans[i].goals,
           Form13!RemoveGoal(i, j)
    PROVE  Inv13'
  <1> DEFINE goals == Form13!Plans[i].goals  next == Form13!Without(goals, j)  e == editors[i]
             moved == e.shifted \/ j < e.editing
             es == IF j = e.editing THEN Form13!NewEditor ELSE [e EXCEPT !.shifted = moved]
  <1>1. /\ Form13!SetGoals(i, next) /\ step = "plans" /\ made' = made
        /\ editors' = [editors EXCEPT ![i] = es]
    BY Zenon DEF Form13!RemoveGoal, Form13!SetGoals
  <1>2. Goals13(goals) /\ Editor13(e, goals) /\ j \in 1..Len(goals) /\ Len(goals) \in Nat
        /\ made \in Nat
    BY <1>1, GoalsOn13, OnPlans13
  <1> HIDE DEF goals, e
  <1>3. /\ Goals13(next) /\ Len(next) = Len(goals) - 1
        /\ \A k \in 1..(j - 1) : next[k] = goals[k]
    BY <1>2, WithoutGoal13
  <1> HIDE DEF next
  <1>4. Editor13(es, next)
    <2>1. CASE j = e.editing
      BY <2>1, NewEditor13
    <2>2. CASE j # e.editing
      <3>1. PICK w : w = moved
        OBVIOUS
      <3> DEFINE x == [e EXCEPT !.shifted = w]
      <3>2. es = x
        BY <2>2, <3>1, Zenon
      <3>3. x.draft = e.draft /\ x.editing = e.editing /\ x.shifted = w
            /\ DOMAIN x = {"draft", "editing", "shifted"}
        BY <1>2 DEF Editor13
      <3>4. ~x.shifted => ~e.shifted /\ ~(j < e.editing)
        BY <3>1, <3>3, Zenon
      <3> HIDE DEF x
      <3>5. ASSUME x.editing # 0, ~x.shifted
            PROVE  x.editing \in 1..Len(next) /\ next[x.editing].id = x.draft.id
        <4>1. e.editing \in 1..Len(goals) /\ goals[e.editing].id = e.draft.id
          BY <1>2, <3>3, <3>4, <3>5 DEF Editor13
        <4>2. e.editing \in 1..(j - 1)
          BY <1>2, <2>2, <3>4, <3>5, <4>1
        <4>3. QED
          BY <1>2, <1>3, <3>3, <4>1, <4>2
      <3>6. Editor13(x, next)
        BY <1>2, <3>3, <3>5 DEF Editor13
      <3>7. QED
        BY <3>2, <3>6
    <2>3. QED
      BY <2>1, <2>2
  <1> HIDE DEF es
  <1>5. QED
    BY <1>1, <1>2, <1>3, <1>4, GoalsSet13

\* Yearly plans are moved, reviewed, added and removed on their step.
LEMMA YearChanged13 ==
    ASSUME Inv13, NEW i \in DOMAIN editors, NEW y \in Form13!YearOptions, Form13!ChangeYear(i, y)
    PROVE  Inv13'
  <1> DEFINE plans == Form13!Plans  next == [plans EXCEPT ![i] = [@ EXCEPT !.year = y]]
  <1>1. y \notin Form13!UsedYears /\ Form13!SetPlans(next) /\ step = "plans"
    BY DEF Form13!ChangeYear, Form13!SetPlans
  <1>2. Plans13(plans) /\ i \in 1..Len(plans)
    BY <1>1, OnPlans13
  <1>3. \A j \in 1..Len(plans) : plans[j].year # y
    BY <1>1, <1>2, Years13
  <1> HIDE DEF plans
  <1>4. /\ Plans13(next) /\ Len(next) = Len(plans)
        /\ \A j \in 1..Len(plans) : plans[j].year = next[j].year => next[j] = plans[j]
    BY <1>2, <1>3, WithYear13
  <1> HIDE DEF next
  <1>5. QED
    BY <1>1, <1>4, PlansSet13 DEF plans

LEMMA DateReviewed13 ==
    ASSUME Inv13, NEW i \in DOMAIN editors, Form13!SetReviewDate(i)
    PROVE  Inv13'
  <1> DEFINE plans == Form13!Plans  next == [plans EXCEPT ![i] = [@ EXCEPT !.reviewed = TRUE]]
  <1>1. Form13!SetPlans(next) /\ step = "plans"
    BY Zenon DEF Form13!SetReviewDate, Form13!SetPlans
  <1>2. Plans13(plans) /\ i \in 1..Len(plans)
    BY <1>1, OnPlans13
  <1> HIDE DEF plans
  <1>3. /\ Plans13(next) /\ Len(next) = Len(plans)
        /\ \A j \in 1..Len(plans) : next[j].goals = plans[j].goals
    BY <1>2, Reviewed13
  <1> HIDE DEF next
  <1>4. QED
    BY <1>1, <1>3, PlansSet13 DEF plans

LEMMA YearAdded13 == ASSUME Inv13, Form13!AddYear PROVE Inv13'
  <1> DEFINE plans == Form13!Plans  y == Form13!NextAvailableYear  p == Form13!BuildDefaultYear(y)
             next == Append(plans, p)
  <1>1. Len(plans) < 5 /\ Form13!SetPlans(next) /\ step = "plans"
    BY DEF Form13!AddYear, Form13!SetPlans, Form13!MaxYears
  <1>2. Plans13(plans) /\ Len(plans) \in Nat
    <2>1. Plans13(plans)
      BY <1>1, OnPlans13
    <2>2. QED
      BY <2>1, LenProperties DEF Plans13
  <1>3. /\ IsFiniteSet(Form13!UsedYears) /\ Cardinality(Form13!UsedYears) <= 4
        /\ Form13!UsedYears = {plans[i].year : i \in 1..Len(plans)}
    BY <1>1, <1>2, Years13
  <1>4. y \in Form13!YearOptions \ Form13!UsedYears
    <2>1. /\ ~(Form13!YearOptions \subseteq Form13!UsedYears)
          /\ Form13!Min(Form13!YearOptions \ Form13!UsedYears) \in Form13!YearOptions \ Form13!UsedYears
      BY <1>3, NextYear13
    <2>2. QED
      BY <2>1, Zenon DEF Form13!NextAvailableYear
  <1>5. \A j \in 1..Len(plans) : plans[j].year # y
    BY <1>3, <1>4
  <1> HIDE DEF plans, y
  <1>6. p \in Form13!YearlyPlans /\ p.year = y /\ Goals13(p.goals)
    BY <1>4, BlankYear13
  <1> HIDE DEF p
  <1>7. Plans13(next) /\ \A j \in 1..Len(plans) : next[j] = plans[j]
    BY <1>1, <1>2, <1>5, <1>6, Added13
  <1> HIDE DEF next
  <1>8. QED
    BY <1>1, <1>7, PlansSet13 DEF plans

LEMMA YearRemoved13 ==
    ASSUME Inv13, NEW i \in DOMAIN editors, Form13!RemoveYear(i)
    PROVE  Inv13'
  <1> DEFINE plans == Form13!Plans  next == Form13!Without(plans, i)
  <1>1. Len(plans) > 3 /\ Form13!SetPlans(next) /\ step = "plans"
    BY DEF Form13!RemoveYear, Form13!SetPlans, Form13!MinYears
  <1>2. Plans13(plans) /\ i \in 1..Len(plans)
    BY <1>1, OnPlans13
  <1> HIDE DEF plans
  <1>3. /\ Plans13(next)
        /\ \A j \in 1..Len(next) : j \in 1..Len(plans)
              /\ (plans[j].year = next[j].year => next[j] = plans[j])
    BY <1>1, <1>2, Left13
  <1> HIDE DEF next
  <1>4. QED
    BY <1>1, <1>3, PlansSet13 DEF plans

\* A step is shown, with what its effect fills in.
LEMMA Shown13 ==
    ASSUME Inv13, NEW s \in Form13!Range(Form13!StepIds), Form13!GoTo(s)
    PROVE  Inv13'
  <1> DEFINE setup == Form13!SuggestedEnd(formState.setup)
  <1>1. /\ step' = s /\ made' = made
        /\ s \notin {"setup", "workforce"} => formState.setup.sector # ""
        /\ editors' = IF s = "plans" THEN Form13!EditorsOf(Form13!Plans) ELSE << >>
    BY DEF Form13!GoTo, Form13!CanNavigateToStep, Form13!Sector, Form13!StepIds
  <1>2. {"setup", "plans", "barriers", "prefill"} \subseteq DOMAIN formState
    BY DEF Inv13, Base13
  <1>3. /\ "sector" \in DOMAIN formState.setup /\ formState.setup.sector \in Sectors \cup {""}
        /\ setup.sector = formState.setup.sector /\ "sector" \in DOMAIN setup
    BY Suggested13 DEF Inv13, Base13
  <1>4. \/ s = "setup" /\ formState' = [formState EXCEPT !.setup = setup]
        \/ s = "barriers" /\ formState' = [formState EXCEPT !.barriers = Form13!Seeded]
        \/ s # "barriers" /\ formState' = formState
    <2>1. CASE s = "setup"
      BY <2>1 DEF Form13!GoTo, Form13!SetStepData
    <2>2. CASE s = "barriers"
      BY <2>2 DEF Form13!GoTo, Form13!SetStepData
    <2>3. CASE s \notin {"setup", "barriers"}
      BY <2>3 DEF Form13!GoTo, Form13!SetStepData
    <2>4. QED
      BY <2>1, <2>2, <2>3
  <1>5. Barriers13(Form13!Seeded, formState.prefill)
    BY Seeded13 DEF Inv13
  <1> DEFINE seeded == Form13!Seeded
  <1> HIDE DEF setup, seeded
  <1>6. /\ formState'.plans = formState.plans /\ formState'.prefill = formState.prefill
        /\ {"setup", "plans", "barriers", "prefill"} \subseteq DOMAIN formState'
        /\ "sector" \in DOMAIN formState'.setup
        /\ formState'.setup.sector = formState.setup.sector
        /\ formState'.barriers = IF s = "barriers" THEN seeded ELSE formState.barriers
    <2>1. CASE s = "setup" /\ formState' = [formState EXCEPT !.setup = setup]
      BY <1>2, <1>3, <2>1
    <2>2. CASE s = "barriers" /\ formState' = [formState EXCEPT !.barriers = seeded]
      BY <1>2, <1>3, <2>2
    <2>3. CASE s # "barriers" /\ formState' = formState
      BY <1>2, <1>3, <2>3
    <2>4. QED
      BY <1>4, <2>1, <2>2, <2>3 DEF seeded
  <1>7. Base13'
    BY <1>1, <1>3, <1>5, <1>6 DEF Inv13, Base13, seeded
  <1>8. Form13!Plans' = Form13!Plans /\ Plans13(Form13!Plans)
    BY <1>6 DEF Form13!Plans, Inv13
  <1>9. s = "plans" => Editors13(editors', Form13!Plans)
    BY <1>1, <1>8, Opened13
  <1>10. QED
    BY <1>1, <1>7, <1>8, <1>9 DEF Inv13

\* Every step of the EEA13 keeps its invariant.
LEMMA Inv13Step == Inv13 /\ Form13!Next => Inv13'
  <1> SUFFICES ASSUME Inv13, Form13!Next PROVE Inv13'
    OBVIOUS
  <1>1. CASE step = "setup" /\ Form13!ChangeSetup
    BY <1>1, SetupChanged13
  <1>2. CASE step = "barriers" /\ Form13!ChangeBarriers
    BY <1>2, BarriersChanged13
  <1>3. ASSUME NEW i \in DOMAIN editors,
               \/ \E k \in Kinds : Form13!ChooseKind(i, k)
               \/ \E t \in Targets : Form13!EnterTarget(i, t)
               \/ Form13!Complete(i) \/ Form13!SaveGoal(i)
               \/ \E j \in DOMAIN Form13!Plans[i].goals :
                     Form13!EditGoal(i, j) \/ Form13!RemoveGoal(i, j)
        PROVE  Inv13'
    BY <1>3, KindChosen13, TargetEntered13, Completed13, GoalSaved13, GoalEdited13, GoalRemoved13
  <1>4. ASSUME NEW i \in DOMAIN editors,
               \/ \E y \in Form13!YearOptions : Form13!ChangeYear(i, y)
               \/ Form13!SetReviewDate(i) \/ Form13!RemoveYear(i)
        PROVE  Inv13'
    BY <1>4, YearChanged13, DateReviewed13, YearRemoved13
  <1>5. QED
    BY <1>1, <1>2, <1>3, <1>4, FigureGiven13, DisputeWritten13, YearAdded13, Shown13, Zenon
    DEF Form13!Next

\* A plan that was just opened, with or without an EEA12 before it.
LEMMA Inv13Init == Form13!Init => Inv13
  <1> SUFFICES ASSUME Form13!Init PROVE Inv13
    OBVIOUS
  <1>1. PICK given \in Prefills : formState = Form13!BlankForm(given)
    BY DEF Form13!Init
  <1>2. step = "setup" /\ editors = << >> /\ made = 0
    BY DEF Form13!Init
  <1>3. PICK blank : blank = ""
    OBVIOUS
  <1> DEFINE setup == [sector |-> blank, start |-> Undefined, end |-> Undefined, consultation |-> {}]
  <1>4. formState = [setup |-> setup, workforce |-> Undefined, plans |-> Undefined,
                     barriers |-> Undefined, disputes |-> {}, prefill |-> given]
    BY <1>1, <1>3, Zenon DEF Form13!BlankForm, Form13!BlankSetup
  <1>5. "sector" \in DOMAIN setup /\ setup.sector = blank
    OBVIOUS
  <1> HIDE DEF setup
  <1>6. /\ {"setup", "plans", "barriers", "prefill"} \subseteq DOMAIN formState
        /\ formState.setup = setup /\ formState.prefill = given
        /\ formState.plans = Undefined /\ formState.barriers = Undefined
    BY <1>4
  <1>7. formState.setup.sector \in Sectors \cup {""}
    BY <1>3, <1>5, <1>6, Zenon
  <1>8. Base13
    BY <1>2, <1>5, <1>6, <1>7 DEF Base13
  <1>9. Plans13(Form13!Plans)
    BY <1>6, Default13 DEF Form13!Plans
  <1>10. QED
    BY <1>2, <1>8, <1>9 DEF Inv13

\* The invariant says what the run asks of the plan.
LEMMA Sound13Plan ==
    ASSUME Inv13
    PROVE  Form13!UpdateHitsItsGoal /\ Form13!PlansStaySound /\ Form13!SeverityFollowsItsRow
  <1> DEFINE plans == Form13!Plans
  <1>1. Plans13(plans) /\ DOMAIN plans = 1..Len(plans) /\ Len(plans) \in 3..5
    BY LenProperties DEF Inv13, Plans13
  <1>2. Form13!UpdateHitsItsGoal
    <2>1. CASE step = "plans"
      <3>1. DOMAIN editors = 1..Len(plans)
        BY <2>1, OnPlans13
      <3>2. ASSUME NEW i \in DOMAIN editors, editors[i].editing # 0, ~editors[i].shifted
            PROVE  /\ editors[i].editing \in DOMAIN plans[i].goals
                   /\ plans[i].goals[editors[i].editing].id = editors[i].draft.id
        <4>1. Editor13(editors[i], plans[i].goals) /\ DOMAIN plans[i].goals = 1..Len(plans[i].goals)
          BY <2>1, GoalsOn13
        <4>2. QED
          BY <3>2, <4>1 DEF Editor13
      <3>3. QED
        BY <3>2, Zenon DEF Form13!UpdateHitsItsGoal
    <2>2. CASE step # "plans"
      <3>1. DOMAIN editors = {}
        BY <2>2 DEF Inv13
      <3>2. QED
        BY <3>1 DEF Form13!UpdateHitsItsGoal
    <2>3. QED
      BY <2>1, <2>2
  <1>3. Form13!PlansStaySound
    <2>1. Len(plans) \in Form13!MinYears..Form13!MaxYears
      BY <1>1 DEF Form13!MinYears, Form13!MaxYears
    <2>2. Form13!Cardinality(Form13!UsedYears) = Len(plans) /\ Form13!UsedYears \subseteq Form13!YearOptions
      BY <1>1, Years13, SameCardinality
    <2>3. step \notin {"setup", "workforce"} => Form13!Sector # ""
      BY DEF Inv13, Base13, Form13!Sector
    <2>4. ASSUME NEW i \in DOMAIN plans, NEW goal \in Form13!Range(plans[i].goals)
          PROVE  /\ goal.target >= EapOf[goal.kind]
                 /\ Form13!Sector = goal.sector
                       => goal.target >= Form13!EffectiveMinimum(Form13!Sector, goal.kind)
      <3> DEFINE goals == plans[i].goals
      <3>1. Goals13(goals)
        BY <1>1 DEF Plans13
      <3> HIDE DEF plans
      <3>2. PICK k \in DOMAIN goals : goal = goals[k]
        BY DEF Form13!Range
      <3> HIDE DEF goals
      <3>3. goal \in Form13!Goals /\ Sound13(goal)
        BY <3>1, <3>2, LenProperties, ElementOfSeq DEF Goals13
      <3>4. goal.sector \in Sectors /\ goal.kind \in Kinds /\ goal.target \in Int
        BY <3>3 DEF Form13!Goals
      <3> DEFINE least == Form13!EffectiveMinimum(goal.sector, goal.kind)
      <3>5. least \in Int /\ least >= EapOf[goal.kind] /\ goal.target >= least
        BY <3>3, <3>4, Minimum13 DEF Sound13
      <3>6. EapOf[goal.kind] \in Int
        BY <3>4, PlansAssumption
      <3> HIDE DEF least
      <3>7. goal.target >= EapOf[goal.kind]
        BY <3>4, <3>5, <3>6
      <3>8. QED
        BY <3>5, <3>7 DEF least
    <2>5. QED
      BY <2>1, <2>2, <2>3, <2>4, Zenon DEF Form13!PlansStaySound
  <1>4. Form13!SeverityFollowsItsRow
    <2> DEFINE b == formState.barriers  p == formState.prefill
    <2>1. ASSUME b # Undefined PROVE Rows13(b.entries, b.meta, p)
      BY <2>1 DEF Inv13, Base13, Barriers13
    <2>2. ASSUME b # Undefined
          PROVE  /\ DOMAIN b.entries = 1..Len(b.entries) /\ DOMAIN b.meta = DOMAIN b.entries
                 /\ \A i \in DOMAIN b.entries : b.meta[i] = MetaOf13(b.entries[i].of, p)
                 /\ \A i, j \in DOMAIN b.entries :
                       b.entries[i].of = b.entries[j].of => i = j \/ b.entries[i].of = Undefined
      BY <2>1, <2>2, LenProperties DEF Rows13
    <2>3. QED
      BY <2>2, Zenon DEF Form13!SeverityFollowsItsRow, MetaOf13, Highest13, Severities13
  <1>5. QED
    BY <1>2, <1>3, <1>4

(***************************************************************************)
(* The matrices of the EEA2 and the EEA4: every total is the sum of its     *)
(* cells.                                                                   *)
(***************************************************************************)
\* No part of a sum is more than the sum.
LEMMA SumBounds ==
    ASSUME NEW f, NEW S, IsFiniteSet(S), \A x \in S : f[x] \in Nat, NEW e \in S
    PROVE  f[e] <= SumFunctionOnSet(f, S)
  <1>1. SumFunctionOnSet(f, S) = f[e] + SumFunctionOnSet(f, S \ {e})
    BY SumRemove
  <1>2. SumFunctionOnSet(f, S \ {e}) \in Nat
    BY FS_Subset, SumNat
  <1>3. QED
    BY <1>1, <1>2

\* A matrix of the reports: levels P above the temporary row t, columns D, its totals summed.
RowsOf(P, t) == P \cup {t, "totalPermanent", "grandTotal"}
ColsOf(D) == D \cup {"total"}
IsGrid(g, P, t, D) ==
    /\ DOMAIN g = RowsOf(P, t) /\ \A r \in RowsOf(P, t) : DOMAIN g[r] = ColsOf(D)
    /\ \A r \in RowsOf(P, t), c \in ColsOf(D) : g[r][c] \in Nat
Frame(P, t, E, D) ==
    /\ E = P \cup {t} /\ IsFiniteSet(P) /\ IsFiniteSet(D) /\ t \notin P /\ "total" \notin D
    /\ E \cap {"totalPermanent", "grandTotal"} = {}
Column(g, rows, c) == [r \in rows |-> g[r][c]]

Totalled(g, P, t, D) ==
    /\ \A r \in RowsOf(P, t) : g[r]["total"] = SumFunctionOnSet(g[r], D)
    /\ \A c \in D :
          /\ g["totalPermanent"][c] = SumFunctionOnSet(Column(g, P, c), P)
          /\ g["grandTotal"][c] = g["totalPermanent"][c] + g[t][c]

\* What a matrix that is summed adds up to, by its rows and by its columns.
CellsOf(g, rows, cols) == [rc \in rows \X cols |-> g[rc[1]][rc[2]]]
SumOfCells(g, rows, cols) == SumFunctionOnSet(CellsOf(g, rows, cols), rows \X cols)

\* The cells of a grid are a table.
LEMMA TableOfCells ==
    ASSUME NEW g, NEW rows, NEW cols, \A r \in rows, c \in cols : g[r][c] \in Int
    PROVE  IsTable(CellsOf(g, rows, cols), g, rows, cols)
  BY DEF IsTable, CellsOf

\* A column of the editable rows is that of the levels and the temporary row.
LEMMA ColumnWithTemporary ==
    ASSUME NEW P, NEW t, NEW E, NEW D, Frame(P, t, E, D), NEW g, NEW c,
           \A r \in E : g[r][c] \in Int
    PROVE  SumFunctionOnSet(Column(g, E, c), E) = SumFunctionOnSet(Column(g, P, c), P) + g[t][c]
  <1> DEFINE all == Column(g, E, c)
  <1>1. /\ IsFiniteSet(P) /\ t \notin P /\ E = P \cup {t}
        /\ \A r \in E : all[r] \in Int /\ all[r] = g[r][c]
    BY DEF Frame, Column
  <1>2. \A r \in P : all[r] = Column(g, P, c)[r]
    BY <1>1 DEF Column
  <1> HIDE DEF all
  <1>3. SumFunctionOnSet(all, E) = all[t] + SumFunctionOnSet(all, P)
    BY <1>1, SumAdd
  <1>4. SumFunctionOnSet(all, P) = SumFunctionOnSet(Column(g, P, c), P)
    BY <1>1, <1>2, SumSame
  <1>5. SumFunctionOnSet(all, P) \in Int
    BY <1>1, SumInt
  <1>6. all[t] = g[t][c]
    BY <1>1
  <1>7. SumFunctionOnSet(all, E) = SumFunctionOnSet(Column(g, P, c), P) + g[t][c]
    BY <1>1, <1>3, <1>4, <1>5, <1>6
  <1>8. QED
    BY <1>7 DEF all

\* The totals of a totalled grid are the sums of the cells they are of.
LEMMA GridAddsUp ==
    ASSUME NEW P, NEW t, NEW E, NEW D, NEW g, Frame(P, t, E, D), IsGrid(g, P, t, D), Totalled(g, P, t, D)
    PROVE  /\ \A r \in E : g[r]["total"] = SumOfCells(g, {r}, D)
           /\ \A c \in D : /\ g["totalPermanent"][c] = SumOfCells(g, P, {c})
                           /\ g["grandTotal"][c] = SumOfCells(g, E, {c})
           /\ g["totalPermanent"]["total"] = SumOfCells(g, P, D)
           /\ g["grandTotal"]["total"] = SumOfCells(g, E, D)
  <1>1. IsFiniteSet(P) /\ IsFiniteSet(E) /\ IsFiniteSet(D) /\ E \subseteq RowsOf(P, t)
    BY FS_AddElement DEF Frame, RowsOf
  <1>2. \A r \in E, c \in ColsOf(D) : g[r][c] \in Int
    BY <1>1 DEF IsGrid
  <1>3. ASSUME NEW r \in E PROVE g[r]["total"] = SumOfCells(g, {r}, D)
    <2>1. IsTable(CellsOf(g, {r}, D), g, {r}, D)
      BY <1>2, TableOfCells DEF ColsOf
    <2>2. SumOfCells(g, {r}, D) = SumFunctionOnSet(g[r], D)
      BY <1>1, <2>1, SumOfRow DEF SumOfCells
    <2>3. QED
      BY <1>1, <2>2 DEF Totalled
  <1>4. ASSUME NEW rows \in {P, E}
        PROVE  /\ \A c \in D : SumOfCells(g, rows, {c}) = SumFunctionOnSet(Column(g, rows, c), rows)
               /\ IsTable(CellsOf(g, rows, D), g, rows, D)
    <2>1. IsFiniteSet(rows) /\ rows \subseteq E
      BY <1>1 DEF Frame
    <2>2. ASSUME NEW c \in D
          PROVE  SumOfCells(g, rows, {c}) = SumFunctionOnSet(Column(g, rows, c), rows)
      <3>1. IsTable(CellsOf(g, rows, {c}), g, rows, {c}) /\ c \in {c}
        BY <1>2, <2>1, TableOfCells DEF ColsOf
      <3>2. SumFunctionOnSet(CellsOf(g, rows, {c}), rows \X {c}) =
               SumFunctionOnSet([r \in rows |-> g[r][c]], rows)
        BY <2>1, <3>1, SumOfColumn
      <3>3. QED
        BY <3>2 DEF SumOfCells, Column
    <2>3. IsTable(CellsOf(g, rows, D), g, rows, D)
      BY <1>2, <2>1, TableOfCells DEF ColsOf
    <2>4. QED
      BY <2>2, <2>3
  <1>5. ASSUME NEW c \in D
        PROVE  /\ g["totalPermanent"][c] = SumFunctionOnSet(Column(g, P, c), P)
               /\ g["grandTotal"][c] = SumFunctionOnSet(Column(g, E, c), E)
    <2>1. \A r \in E : g[r][c] \in Int
      BY <1>2 DEF ColsOf
    <2>2. SumFunctionOnSet(Column(g, E, c), E) = SumFunctionOnSet(Column(g, P, c), P) + g[t][c]
      BY <2>1, ColumnWithTemporary
    <2>3. QED
      BY <2>2 DEF Totalled
  <1>6. g["totalPermanent"]["total"] = SumOfCells(g, P, D)
    <2>1. g["totalPermanent"]["total"] = SumFunctionOnSet(g["totalPermanent"], D)
      BY DEF Totalled, RowsOf
    <2>2. \A c \in D : g["totalPermanent"][c] = SumFunctionOnSet([r \in P |-> g[r][c]], P)
      BY <1>5 DEF Column
    <2>3. IsTable(CellsOf(g, P, D), g, P, D)
      BY <1>4
    <2>4. QED
      BY <1>1, <2>1, <2>2, <2>3, SumOfColumns DEF SumOfCells
  <1>7. g["grandTotal"]["total"] = SumOfCells(g, E, D)
    <2>1. g["grandTotal"]["total"] = SumFunctionOnSet(g["grandTotal"], D)
      BY DEF Totalled, RowsOf
    <2>2. \A c \in D : g["grandTotal"][c] = SumFunctionOnSet([r \in E |-> g[r][c]], E)
      BY <1>5 DEF Column
    <2>3. IsTable(CellsOf(g, E, D), g, E, D)
      BY <1>4
    <2>4. QED
      BY <1>1, <2>1, <2>2, <2>3, SumOfColumns DEF SumOfCells
  <1>8. QED
    BY <1>3, <1>4, <1>5, <1>6, <1>7

\* The totals of the computed rows and columns agree with one another.
LEMMA TotalsAgree ==
    ASSUME NEW P, NEW t, NEW E, NEW D, NEW g, Frame(P, t, E, D), IsGrid(g, P, t, D), Totalled(g, P, t, D)
    PROVE  /\ g["totalPermanent"]["total"] = SumFunctionOnSet(Column(g, P, "total"), P)
           /\ g["grandTotal"]["total"] = g["totalPermanent"]["total"] + g[t]["total"]
  <1>1. IsFiniteSet(P) /\ IsFiniteSet(D)
    BY DEF Frame
  <1>2. \A r \in P, c \in D : g[r][c] \in Int
    BY DEF IsGrid, RowsOf, ColsOf
  <1>3. g["totalPermanent"]["total"] = SumFunctionOnSet(Column(g, P, "total"), P)
    <2>1. IsTable(CellsOf(g, P, D), g, P, D)
      BY <1>2, TableOfCells
    <2>2. \A r \in P : Column(g, P, "total")[r] = SumFunctionOnSet(g[r], D)
      BY DEF Column, Totalled, RowsOf
    <2>3. SumOfCells(g, P, D) = SumFunctionOnSet(Column(g, P, "total"), P)
      BY <1>1, <2>1, <2>2, SumOfRows DEF SumOfCells
    <2>4. g["totalPermanent"]["total"] = SumOfCells(g, P, D)
      BY GridAddsUp
    <2>5. QED
      BY <2>3, <2>4
  <1>4. g["grandTotal"]["total"] = g["totalPermanent"]["total"] + g[t]["total"]
    <2>1. \A c \in D : /\ g["totalPermanent"][c] \in Int /\ g[t][c] \in Int
                       /\ g["grandTotal"][c] = g["totalPermanent"][c] + g[t][c]
      BY DEF IsGrid, RowsOf, ColsOf, Totalled
    <2>2. SumFunctionOnSet(g["grandTotal"], D) =
             SumFunctionOnSet(g["totalPermanent"], D) + SumFunctionOnSet(g[t], D)
      BY <1>1, <2>1, SumOfSums
    <2>3. QED
      BY <2>2 DEF Totalled, RowsOf
  <1>5. QED
    BY <1>3, <1>4

\* No cell is above the grand total.
LEMMA GrandTotalBounds ==
    ASSUME NEW P, NEW t, NEW E, NEW D, NEW g, Frame(P, t, E, D), IsGrid(g, P, t, D), Totalled(g, P, t, D),
           NEW r \in RowsOf(P, t), NEW c \in D
    PROVE  g[r][c] <= g["grandTotal"]["total"]
  <1>1. IsFiniteSet(P) /\ IsFiniteSet(D)
    BY DEF Frame
  <1>2. \A x \in RowsOf(P, t), y \in D : g[x][y] \in Nat
    BY DEF IsGrid, ColsOf
  <1>3. {t, "totalPermanent", "grandTotal"} \subseteq RowsOf(P, t) /\ P \subseteq RowsOf(P, t)
    BY DEF RowsOf
  <1>4. g["grandTotal"][c] <= g["grandTotal"]["total"]
    <2>1. g["grandTotal"][c] <= SumFunctionOnSet(g["grandTotal"], D)
      BY <1>1, <1>2, <1>3, SumBounds
    <2>2. QED
      BY <1>3, <2>1 DEF Totalled
  <1>5. ASSUME NEW x \in P PROVE g[x][c] <= g["totalPermanent"][c]
    <2>1. \A y \in P : Column(g, P, c)[y] \in Nat /\ Column(g, P, c)[y] = g[y][c]
      BY <1>2, <1>3 DEF Column
    <2>2. Column(g, P, c)[x] <= SumFunctionOnSet(Column(g, P, c), P)
      BY <1>1, <2>1, SumBounds
    <2>3. QED
      BY <2>1, <2>2 DEF Totalled
  <1>6. g["grandTotal"][c] = g["totalPermanent"][c] + g[t][c]
    BY DEF Totalled
  <1>7. /\ g["grandTotal"]["total"] \in Nat /\ g["grandTotal"][c] \in Nat
        /\ g["totalPermanent"][c] \in Nat /\ g[t][c] \in Nat /\ g[r][c] \in Nat
    BY <1>2, <1>3 DEF IsGrid, ColsOf
  <1>8. g[r][c] <= g["grandTotal"][c]
    <2>1. CASE r \in P
      BY <1>5, <1>6, <1>7, <2>1
    <2>2. CASE r \in {t, "totalPermanent", "grandTotal"}
      BY <1>6, <1>7, <2>2
    <2>3. QED
      BY <2>1, <2>2 DEF RowsOf
  <1>9. QED
    BY <1>4, <1>7, <1>8

\* A sum of one form is a sum.
LEMMA SameSum ==
    ASSUME NEW f, NEW S
    PROVE  /\ Form2!SumFunctionOnSet(f, S) = SumFunctionOnSet(f, S)
           /\ Form4!SumFunctionOnSet(f, S) = SumFunctionOnSet(f, S)
           /\ Form12!SumFunctionOnSet(f, S) = SumFunctionOnSet(f, S)
           /\ Data!SumFunctionOnSet(f, S) = SumFunctionOnSet(f, S)
  BY DEF SumFunctionOnSet, FoldFunctionOnSet, MapThenFoldSet,
         Form2!SumFunctionOnSet, Form2!FoldFunctionOnSet, Form2!MapThenFoldSet,
         Form4!SumFunctionOnSet, Form4!FoldFunctionOnSet, Form4!MapThenFoldSet,
         Form12!SumFunctionOnSet, Form12!FoldFunctionOnSet, Form12!MapThenFoldSet,
         Data!SumFunctionOnSet, Data!FoldFunctionOnSet, Data!MapThenFoldSet

\* And so is one over all of a function.
LEMMA SameSums ==
    ASSUME NEW f
    PROVE  /\ Form2!SumFunction(f) = SumFunctionOnSet(f, DOMAIN f)
           /\ Form4!SumFunction(f) = SumFunctionOnSet(f, DOMAIN f)
           /\ Form12!SumFunction(f) = SumFunctionOnSet(f, DOMAIN f)
           /\ Data!SumFunction(f) = SumFunctionOnSet(f, DOMAIN f)
  BY SameSum DEF Form2!SumFunction, Form4!SumFunction, Form12!SumFunction, Data!SumFunction

\* What is in a sequence is finite, and a longer one has one more.
LEMMA Listed ==
    ASSUME NEW S, NEW s \in Seq(S)
    PROVE  /\ IsFiniteSet({s[i] : i \in DOMAIN s})
           /\ \A e \in S : {Append(s, e)[i] : i \in DOMAIN Append(s, e)} = {s[i] : i \in DOMAIN s} \cup {e}
  <1> DEFINE R == {s[i] : i \in DOMAIN s}
  <1>1. DOMAIN s = 1..Len(s) /\ Len(s) \in Nat
    BY LenProperties
  <1>2. IsFiniteSet(R)
    <2>1. IsFiniteSet(1..Len(s))
      BY <1>1, FS_Interval
    <2>2. [i \in 1..Len(s) |-> s[i]] \in Surjection(1..Len(s), R)
      BY <1>1 DEF Surjection
    <2> HIDE DEF R
    <2>3. QED
      BY <2>1, <2>2, FS_Surjection
  <1>3. ASSUME NEW e \in S
        PROVE  {Append(s, e)[i] : i \in DOMAIN Append(s, e)} = R \cup {e}
    <2> DEFINE long == Append(s, e)
    <2>1. /\ DOMAIN long = 1..Len(s) + 1 /\ \A i \in 1..Len(s) : long[i] = s[i]
          /\ long[Len(s) + 1] = e
      BY <1>1, AppendProperties, LenProperties
    <2>2. QED
      <3> HIDE DEF long
      <3>1. \A x : (\E i \in 1..Len(s) + 1 : x = long[i]) <=> (\E i \in 1..Len(s) : x = s[i]) \/ x = e
        BY <1>1, <2>1
      <3>2. \A x : x \in {long[i] : i \in DOMAIN long} <=> x \in R \cup {e}
        BY <1>1, <2>1, <3>1
      <3>3. QED
        BY <3>2 DEF long
  <1>4. QED
    BY <1>2, <1>3

\* The same of the names of rows and columns.
LEMMA InSequence ==
    \A s \in Seq(STRING) :
       /\ IsFiniteSet({s[i] : i \in DOMAIN s})
       /\ \A e \in STRING :
             {Append(s, e)[i] : i \in DOMAIN Append(s, e)} = {s[i] : i \in DOMAIN s} \cup {e}
  <1> DEFINE S == STRING
  <1>1. \A s \in Seq(S) :
           /\ IsFiniteSet({s[i] : i \in DOMAIN s})
           /\ \A e \in S :
                 {Append(s, e)[i] : i \in DOMAIN Append(s, e)} = {s[i] : i \in DOMAIN s} \cup {e}
    <2> HIDE DEF S
    <2>1. QED
      BY SMTT(30), Listed
  <1>2. QED
    BY <1>1

\* The matrices of the EEA2 and of the EEA4.
LEMMA Frame2 == Frame(Form2!Permanent, TemporaryRow, Form2!Editable, Form2!Demo)
  <1>1. /\ PermanentRows2 \in Seq(STRING) /\ TemporaryRow \in STRING /\ DemoCols \in Seq(STRING)
        /\ "total" \notin Form2!Demo
    BY Rows2Assumption, RowsAssumption DEF Demo, Form2!Demo, Range, Form2!Range
  <1>2. /\ Form2!Permanent = {PermanentRows2[i] : i \in DOMAIN PermanentRows2}
        /\ Form2!Editable = {Append(PermanentRows2, TemporaryRow)[i] :
                               i \in DOMAIN Append(PermanentRows2, TemporaryRow)}
        /\ Form2!Demo = {DemoCols[i] : i \in DOMAIN DemoCols}
    BY DEF Form2!Permanent, Form2!Editable, Form2!Demo, Form2!Range, Form2!EditableRows
  <1>3. /\ Form2!Editable = Form2!Permanent \cup {TemporaryRow}
        /\ IsFiniteSet(Form2!Permanent) /\ IsFiniteSet(Form2!Demo)
    BY <1>1, <1>2, InSequence
  <1>4. QED
    BY <1>1, <1>3, Rows2Assumption DEF Frame

\* The rows and columns of the EEA4 are those of a grid.
LEMMA Frame4 == Frame(Form4!Permanent, TemporaryRow, Form4!Editable, Form4!Demo)
  <1>1. /\ PermanentRows \in Seq(STRING) /\ TemporaryRow \in STRING /\ DemoCols \in Seq(STRING)
        /\ "total" \notin Form4!Demo /\ TemporaryRow \notin Form4!Permanent
        /\ Form4!Editable \cap {"totalPermanent", "grandTotal"} = {}
    BY RowsAssumption DEF Demo, Form4!Demo, Range, Form4!Range, Form4!Permanent, Permanent,
        Form4!Editable, Editable, Form4!EditableRows, EditableRows
  <1>2. /\ Form4!Permanent = {PermanentRows[i] : i \in DOMAIN PermanentRows}
        /\ Form4!Editable = {Append(PermanentRows, TemporaryRow)[i] :
                               i \in DOMAIN Append(PermanentRows, TemporaryRow)}
        /\ Form4!Demo = {DemoCols[i] : i \in DOMAIN DemoCols}
    BY DEF Form4!Permanent, Form4!Editable, Form4!Demo, Form4!Range, Form4!EditableRows
  <1>3. /\ Form4!Editable = Form4!Permanent \cup {TemporaryRow}
        /\ IsFiniteSet(Form4!Permanent) /\ IsFiniteSet(Form4!Demo)
    BY <1>1, <1>2, InSequence
  <1>4. QED
    BY <1>1, <1>3 DEF Frame

\* What the component makes of the figures of a matrix.
SummedRow(row, D) == [row EXCEPT !["total"] = SumFunctionOnSet(row, D)]
SummedRows(g, rows, D) ==
    SummedRow([c \in ColsOf(D) |-> SumFunctionOnSet(Column(g, rows, c), rows)], D)
Computed(data, P, t, E, D) ==
    LET permanent == SummedRows(data, P, D)
        summed    == [r \in {"totalPermanent", t} |-> IF r = t THEN data[r] ELSE permanent]
    IN [r \in RowsOf(P, t) |->
           CASE r \in E -> SummedRow(data[r], D)
             [] r = "totalPermanent" -> permanent
             [] r = "grandTotal" -> SummedRows(summed, {"totalPermanent", t}, D)]

\* Both forms sum rows and columns as the grid does.
LEMMA SameRows ==
    /\ \A g, rows : Form2!SumRows(g, rows) = SummedRows(g, rows, Form2!Demo)
    /\ \A row : Form2!WithRowTotal(row) = SummedRow(row, Form2!Demo)
    /\ \A g, rows : Form4!SumRows(g, rows) = SummedRows(g, rows, Form4!Demo)
    /\ \A row : Form4!WithRowTotal(row) = SummedRow(row, Form4!Demo)
  <1>1. \A row : /\ Form2!WithRowTotal(row) = SummedRow(row, Form2!Demo)
                 /\ Form4!WithRowTotal(row) = SummedRow(row, Form4!Demo)
    BY SameSum DEF Form2!WithRowTotal, Form4!WithRowTotal, SummedRow
  <1>2. ASSUME NEW g, NEW rows, NEW c
        PROVE  /\ Form2!SumFunction([r \in rows |-> g[r][c]]) = SumFunctionOnSet(Column(g, rows, c), rows)
               /\ Form4!SumFunction([r \in rows |-> g[r][c]]) = SumFunctionOnSet(Column(g, rows, c), rows)
    <2> DEFINE f == [r \in rows |-> g[r][c]]
    <2>1. DOMAIN f = rows
      OBVIOUS
    <2>2. f = Column(g, rows, c)
      BY DEF Column
    <2> HIDE DEF f
    <2>3. /\ Form2!SumFunction(f) = SumFunctionOnSet(f, rows)
          /\ Form4!SumFunction(f) = SumFunctionOnSet(f, rows)
      BY <2>1, SameSums
    <2>4. QED
      BY <2>2, <2>3 DEF f
  <1>3. ASSUME NEW g, NEW rows
        PROVE  /\ Form2!SumRows(g, rows) = SummedRows(g, rows, Form2!Demo)
               /\ Form4!SumRows(g, rows) = SummedRows(g, rows, Form4!Demo)
    BY <1>1, <1>2 DEF Form2!SumRows, Form4!SumRows, SummedRows, Form2!Cols, Form4!Cols, ColsOf
  <1>4. QED
    BY <1>1, <1>3

\* Both forms compute the totals of a grid alike (compute-totals.ts).
LEMMA SameTotals ==
    ASSUME NEW data
    PROVE  /\ Form2!ComputeGridTotals(data) =
                 Computed(data, Form2!Permanent, TemporaryRow, Form2!Editable, Form2!Demo)
           /\ Form4!ComputeGridTotals(data) =
                 Computed(data, Form4!Permanent, TemporaryRow, Form4!Editable, Form4!Demo)
  <1>1. /\ Form2!Rows = RowsOf(Form2!Permanent, TemporaryRow)
        /\ Form4!Rows = RowsOf(Form4!Permanent, TemporaryRow)
    BY Frame2, Frame4 DEF Form2!Rows, Form4!Rows, RowsOf, Frame
  <1>2. Form2!ComputeGridTotals(data) =
                 Computed(data, Form2!Permanent, TemporaryRow, Form2!Editable, Form2!Demo)
    <2> DEFINE permanent == SummedRows(data, Form2!Permanent, Form2!Demo)
               both == {"totalPermanent", TemporaryRow}
               summed == [r \in both |-> IF r = TemporaryRow THEN data[r] ELSE permanent]
    <2>1. /\ Form2!SumRows(data, Form2!Permanent) = permanent
          /\ Form2!SumRows(summed, DOMAIN summed) = SummedRows(summed, both, Form2!Demo)
          /\ \A r : Form2!WithRowTotal(data[r]) = SummedRow(data[r], Form2!Demo)
      <3>1. DOMAIN summed = both
        OBVIOUS
      <3> HIDE DEF summed, both, permanent
      <3>2. QED
        BY <3>1, SameRows DEF permanent
    <2>2. Form2!ComputeGridTotals(data) =
             [r \in Form2!Rows |-> CASE r \in Form2!Editable -> Form2!WithRowTotal(data[r])
                [] r = "totalPermanent" -> permanent
                [] r = "grandTotal" -> Form2!SumRows(summed, DOMAIN summed)]
      BY <2>1 DEF Form2!ComputeGridTotals
    <2>3. Computed(data, Form2!Permanent, TemporaryRow, Form2!Editable, Form2!Demo) =
             [r \in RowsOf(Form2!Permanent, TemporaryRow) |->
                CASE r \in Form2!Editable -> SummedRow(data[r], Form2!Demo)
                  [] r = "totalPermanent" -> permanent
                  [] r = "grandTotal" -> SummedRows(summed, both, Form2!Demo)]
      BY DEF Computed
    <2>4. QED
      BY <1>1, <2>1, <2>2, <2>3
  <1>3. Form4!ComputeGridTotals(data) =
                 Computed(data, Form4!Permanent, TemporaryRow, Form4!Editable, Form4!Demo)
    <2> DEFINE permanent == SummedRows(data, Form4!Permanent, Form4!Demo)
               both == {"totalPermanent", TemporaryRow}
               summed == [r \in both |-> IF r = TemporaryRow THEN data[r] ELSE permanent]
    <2>1. /\ Form4!SumRows(data, Form4!Permanent) = permanent
          /\ Form4!SumRows(summed, DOMAIN summed) = SummedRows(summed, both, Form4!Demo)
          /\ \A r : Form4!WithRowTotal(data[r]) = SummedRow(data[r], Form4!Demo)
      <3>1. DOMAIN summed = both
        OBVIOUS
      <3> HIDE DEF summed, both, permanent
      <3>2. QED
        BY <3>1, SameRows DEF permanent
    <2>2. Form4!ComputeGridTotals(data) =
             [r \in Form4!Rows |-> CASE r \in Form4!Editable -> Form4!WithRowTotal(data[r])
                [] r = "totalPermanent" -> permanent
                [] r = "grandTotal" -> Form4!SumRows(summed, DOMAIN summed)]
      BY <2>1 DEF Form4!ComputeGridTotals
    <2>3. Computed(data, Form4!Permanent, TemporaryRow, Form4!Editable, Form4!Demo) =
             [r \in RowsOf(Form4!Permanent, TemporaryRow) |->
                CASE r \in Form4!Editable -> SummedRow(data[r], Form4!Demo)
                  [] r = "totalPermanent" -> permanent
                  [] r = "grandTotal" -> SummedRows(summed, both, Form4!Demo)]
      BY DEF Computed
    <2>4. QED
      BY <1>1, <2>1, <2>2, <2>3
  <1>4. QED
    BY <1>2, <1>3

\* A row whose total is summed keeps its figures.
LEMMA RowSummed ==
    ASSUME NEW D, IsFiniteSet(D), "total" \notin D, NEW row, DOMAIN row = ColsOf(D),
           \A c \in D : row[c] \in Nat
    PROVE  LET new == SummedRow(row, D)
           IN /\ DOMAIN new = ColsOf(D) /\ \A c \in D : new[c] = row[c]
              /\ new["total"] = SumFunctionOnSet(new, D)
              /\ \A c \in ColsOf(D) : new[c] \in Nat
  <1> DEFINE new == SummedRow(row, D)
  <1>1. /\ DOMAIN new = ColsOf(D) /\ \A c \in D : new[c] = row[c]
        /\ new["total"] = SumFunctionOnSet(row, D)
    BY DEF SummedRow, ColsOf
  <1> HIDE DEF new
  <1>2. SumFunctionOnSet(new, D) = SumFunctionOnSet(row, D)
    BY <1>1, SumSame
  <1>3. SumFunctionOnSet(row, D) \in Nat
    BY SumNat
  <1>4. QED
    BY <1>1, <1>2, <1>3 DEF new, ColsOf

\* The sum of some rows.
LEMMA RowsSummed ==
    ASSUME NEW D, IsFiniteSet(D), "total" \notin D, NEW rows, IsFiniteSet(rows), NEW g,
           \A r \in rows, c \in D : g[r][c] \in Nat
    PROVE  LET new == SummedRows(g, rows, D)
           IN /\ DOMAIN new = ColsOf(D)
              /\ \A c \in D : new[c] = SumFunctionOnSet(Column(g, rows, c), rows)
              /\ new["total"] = SumFunctionOnSet(new, D)
              /\ \A c \in ColsOf(D) : new[c] \in Nat
  <1> DEFINE row == [c \in ColsOf(D) |-> SumFunctionOnSet(Column(g, rows, c), rows)]
  <1>1. ASSUME NEW c \in D PROVE SumFunctionOnSet(Column(g, rows, c), rows) \in Nat
    <2>1. \A r \in rows : Column(g, rows, c)[r] \in Nat
      BY DEF Column
    <2>2. QED
      BY <2>1, SumNat
  <1>2. /\ DOMAIN row = ColsOf(D) /\ SummedRows(g, rows, D) = SummedRow(row, D)
        /\ \A c \in D : row[c] = SumFunctionOnSet(Column(g, rows, c), rows)
    BY DEF SummedRows, ColsOf
  <1> HIDE DEF row
  <1>3. \A c \in D : row[c] \in Nat
    BY <1>1, <1>2
  <1>4. QED
    BY <1>2, <1>3, RowSummed

\* The computed matrix is summed, and its editable cells are those it was computed from.
LEMMA ComputedTotalled ==
    ASSUME NEW P, NEW t, NEW E, NEW D, Frame(P, t, E, D), NEW data,
           \A r \in E : DOMAIN data[r] = ColsOf(D) /\ \A c \in D : data[r][c] \in Nat
    PROVE  LET g == Computed(data, P, t, E, D)
           IN IsGrid(g, P, t, D) /\ Totalled(g, P, t, D) /\ \A r \in E, c \in D : g[r][c] = data[r][c]
  <1> DEFINE g == Computed(data, P, t, E, D)
             permanent == SummedRows(data, P, D)
             both == {"totalPermanent", t}
             summed == [r \in both |-> IF r = t THEN data[r] ELSE permanent]
             grand == SummedRows(summed, both, D)
  <1>1. /\ E = P \cup {t} /\ IsFiniteSet(P) /\ IsFiniteSet(D) /\ t \notin P /\ "total" \notin D
        /\ E \cap {"totalPermanent", "grandTotal"} = {} /\ t # "totalPermanent"
        /\ RowsOf(P, t) = E \cup {"totalPermanent", "grandTotal"}
    BY DEF Frame, RowsOf
  <1>2. DOMAIN g = RowsOf(P, t)
    BY DEF Computed
  <1>3. \A r \in E : g[r] = SummedRow(data[r], D)
    BY <1>1 DEF Computed
  <1>4. g["totalPermanent"] = permanent
    BY <1>1 DEF Computed
  <1>5. g["grandTotal"] = grand
    BY <1>1 DEF Computed
  <1>6. ASSUME NEW r \in E
        PROVE  /\ DOMAIN g[r] = ColsOf(D) /\ \A c \in D : g[r][c] = data[r][c]
               /\ g[r]["total"] = SumFunctionOnSet(g[r], D) /\ \A c \in ColsOf(D) : g[r][c] \in Nat
    <2> DEFINE row == data[r]
               new == SummedRow(row, D)
    <2>1. DOMAIN row = ColsOf(D) /\ \A c \in D : row[c] \in Nat
      OBVIOUS
    <2>2. g[r] = new
      BY <1>3
    <2> HIDE DEF row, g
    <2>3. /\ DOMAIN new = ColsOf(D) /\ \A c \in D : new[c] = row[c]
          /\ new["total"] = SumFunctionOnSet(new, D) /\ \A c \in ColsOf(D) : new[c] \in Nat
      BY <1>1, <2>1, RowSummed
    <2> HIDE DEF new
    <2>4. QED
      BY <2>2, <2>3 DEF row
  <1>7. /\ DOMAIN permanent = ColsOf(D)
        /\ \A c \in D : permanent[c] = SumFunctionOnSet(Column(data, P, c), P)
        /\ permanent["total"] = SumFunctionOnSet(permanent, D)
        /\ \A c \in ColsOf(D) : permanent[c] \in Nat
    BY <1>1, RowsSummed
  <1>8. /\ DOMAIN grand = ColsOf(D)
        /\ \A c \in D : grand[c] = SumFunctionOnSet(Column(summed, both, c), both)
        /\ grand["total"] = SumFunctionOnSet(grand, D)
        /\ \A c \in ColsOf(D) : grand[c] \in Nat
    <2>1. IsFiniteSet(both)
      <3>1. IsFiniteSet({"totalPermanent"}) /\ both = {"totalPermanent"} \cup {t}
        BY FS_Singleton
      <3>2. QED
        BY <3>1, FS_AddElement
    <2>2. \A r \in both, c \in D : summed[r][c] \in Nat
      BY <1>1, <1>7 DEF ColsOf
    <2> HIDE DEF summed, both
    <2>3. QED
      BY <1>1, <2>1, <2>2, RowsSummed
  <1>9. \A c \in D : grand[c] = permanent[c] + data[t][c]
    <2> TAKE c \in D
    <2> DEFINE col == Column(summed, both, c)
    <2>1. /\ col["totalPermanent"] = permanent[c] /\ col[t] = data[t][c]
          /\ permanent[c] \in Nat /\ data[t][c] \in Nat
      BY <1>1, <1>7 DEF Column, ColsOf
    <2>2. SumFunctionOnSet(col, {"totalPermanent"} \cup {t}) = col[t] + SumFunctionOnSet(col, {"totalPermanent"})
      <3> HIDE DEF col
      <3>1. IsFiniteSet({"totalPermanent"}) /\ t \notin {"totalPermanent"}
        BY <1>1, FS_Singleton
      <3>3. \A x \in {"totalPermanent"} \cup {t} : col[x] \in Int
        BY <2>1
      <3>2. QED
        BY <3>1, <3>3, SumAdd
    <2>3. SumFunctionOnSet(col, {} \cup {"totalPermanent"}) = col["totalPermanent"] + SumFunctionOnSet(col, {})
      <3> HIDE DEF col
      <3>1. IsFiniteSet({}) /\ \A x \in {} \cup {"totalPermanent"} : col[x] \in Int
        BY <2>1, FS_EmptySet
      <3>2. QED
        BY <3>1, SumAdd
    <2>4. SumFunctionOnSet(col, {}) = 0
      BY SumEmpty
    <2>5. /\ {} \cup {"totalPermanent"} = {"totalPermanent"}
          /\ {"totalPermanent"} \cup {t} = both
      OBVIOUS
    <2>8. /\ SumFunctionOnSet(col, {"totalPermanent"}) = col["totalPermanent"] + SumFunctionOnSet(col, {})
          /\ SumFunctionOnSet(col, both) = col[t] + SumFunctionOnSet(col, {"totalPermanent"})
      BY <2>2, <2>3, <2>5
    <2>6. grand[c] = SumFunctionOnSet(col, both)
      BY <1>8
    <2> HIDE DEF col, both, grand, permanent
    <2>7. QED
      BY <2>1, <2>4, <2>6, <2>8
  <1> HIDE DEF g, grand, permanent
  <1>10. IsGrid(g, P, t, D)
    BY <1>1, <1>2, <1>4, <1>5, <1>6, <1>7, <1>8 DEF IsGrid
  <1>11. \A c \in D : permanent[c] = SumFunctionOnSet(Column(g, P, c), P)
    <2> TAKE c \in D
    <2>1. \A r \in P : Column(data, P, c)[r] = Column(g, P, c)[r] /\ Column(data, P, c)[r] \in Int
      BY <1>1, <1>6 DEF Column
    <2>2. QED
      BY <1>1, <1>7, <2>1, SumSame
  <1>12. Totalled(g, P, t, D)
    <2>1. \A r \in RowsOf(P, t) : g[r]["total"] = SumFunctionOnSet(g[r], D)
      BY <1>1, <1>4, <1>5, <1>6, <1>7, <1>8
    <2>2. \A c \in D : g[t][c] = data[t][c]
      BY <1>1, <1>6
    <2>3. QED
      BY <1>4, <1>5, <1>9, <1>11, <2>1, <2>2 DEF Totalled
  <1>13. QED
    BY <1>6, <1>10, <1>12 DEF g

\* A matrix of zeros is summed.
LEMMA ZerosTotalled ==
    ASSUME NEW P, NEW t, NEW E, NEW D, Frame(P, t, E, D),
           NEW g, g = [r \in RowsOf(P, t) |-> [c \in ColsOf(D) |-> 0]]
    PROVE  IsGrid(g, P, t, D) /\ Totalled(g, P, t, D)
  <1>1. IsFiniteSet(P) /\ IsFiniteSet(D) /\ P \subseteq RowsOf(P, t)
        /\ {t, "totalPermanent", "grandTotal"} \subseteq RowsOf(P, t) /\ D \subseteq ColsOf(D)
        /\ "total" \in ColsOf(D)
    BY DEF Frame, RowsOf, ColsOf
  <1>2. ASSUME NEW f, NEW S, IsFiniteSet(S), \A x \in S : f[x] = 0
        PROVE  SumFunctionOnSet(f, S) = 0
    <2>1. \A x \in S : f[x] \in Int /\ f[x] \in Int /\ f[x] = f[x] + f[x]
      BY <1>2
    <2>2. SumFunctionOnSet(f, S) = SumFunctionOnSet(f, S) + SumFunctionOnSet(f, S)
      BY <1>2, <2>1, SumOfSums
    <2>3. SumFunctionOnSet(f, S) \in Int
      BY <1>2, <2>1, SumInt
    <2> DEFINE sum == SumFunctionOnSet(f, S)
    <2> HIDE DEF sum
    <2>4. sum \in Int /\ sum = sum + sum => sum = 0
      OBVIOUS
    <2>5. QED
      BY <2>2, <2>3, <2>4 DEF sum
  <1>3. \A r \in RowsOf(P, t) : g[r]["total"] = SumFunctionOnSet(g[r], D)
    <2> TAKE r \in RowsOf(P, t)
    <2>1. \A c \in D : g[r][c] = 0
      BY <1>1
    <2>2. SumFunctionOnSet(g[r], D) = 0
      BY <1>1, <1>2, <2>1
    <2>3. QED
      BY <1>1, <2>2
  <1>4. \A c \in D : SumFunctionOnSet(Column(g, P, c), P) = 0
    <2> TAKE c \in D
    <2>1. \A r \in P : Column(g, P, c)[r] = 0
      BY <1>1 DEF Column
    <2>2. QED
      BY <1>1, <1>2, <2>1
  <1>5. IsGrid(g, P, t, D)
    BY DEF IsGrid
  <1>6. Totalled(g, P, t, D)
    <2>1. \A c \in D : g["grandTotal"][c] = 0 /\ g["totalPermanent"][c] = 0 /\ g[t][c] = 0
      BY <1>1
    <2>2. QED
      BY <1>3, <1>4, <2>1 DEF Totalled
  <1>7. QED
    BY <1>5, <1>6

(***************************************************************************)
(* EEA2: the figures, the flags, and section A.                             *)
(***************************************************************************)
\* A matrix of the EEA2 with its totals.
Matrix2(g) ==
    /\ IsGrid(g, Form2!Permanent, TemporaryRow, Form2!Demo)
    /\ Totalled(g, Form2!Permanent, TemporaryRow, Form2!Demo)

Profile2 ==
    /\ formState["a"] = [profile |-> formState["a"].profile, contact |-> contact]
    /\ prefill.awaited => prefill.data = "blank"
    /\ step = "a" => formState["a"].profile = prefill.data

Totals2(b) ==
    /\ b = [rows |-> b.rows, totals |-> b.totals]
    /\ DOMAIN b.rows = Form2!WorkerTypes
    /\ \A w \in Form2!WorkerTypes :
          /\ b.rows[w] = [male |-> b.rows[w].male, female |-> b.rows[w].female]
          /\ b.rows[w].male \in Nat /\ b.rows[w].female \in Nat
    /\ b.totals \in {Undefined, Form2!CalculateSectionBTotals(b.rows)}

Flags2 ==
    /\ DOMAIN context = {"disabled", "disability", "barrier", "overdue"}
    /\ context["disability"] <=>
          Form2!DisabilityFlagActive(formState["matrix"]["c1"], context["disabled"])
    /\ Form2!DetectBarrierTrigger(formState["matrix"]["f"], formState["involuntary"]) => context["barrier"]
    /\ Form2!HasOverdueRequest(formState["h1"], checked) => context["overdue"]
    /\ Form2!SubmittedUnflagged

Inv2 ==
    /\ DOMAIN formState = {"a", "b", "matrix", "involuntary", "h1"}
    /\ DOMAIN formState["matrix"] = Form2!MatrixSections
    /\ \A s \in Form2!MatrixSections : Matrix2(formState["matrix"][s])
    /\ Totals2(formState["b"])
    /\ Profile2 /\ Flags2

\* Rows and columns, by both names.
LEMMA SameGrid2 ==
    /\ Form2!Rows = RowsOf(Form2!Permanent, TemporaryRow) /\ Form2!Cols = ColsOf(Form2!Demo)
    /\ Form2!Editable \subseteq RowsOf(Form2!Permanent, TemporaryRow)
    /\ Form2!Demo \subseteq ColsOf(Form2!Demo)
  BY Frame2 DEF Form2!Rows, Form2!Cols, RowsOf, ColsOf, Frame

\* A matrix of figures is one with its totals once they are computed.
LEMMA Computed2 ==
    ASSUME NEW data, \A r \in Form2!Editable :
              DOMAIN data[r] = Form2!Cols /\ \A c \in Form2!Demo : data[r][c] \in Nat
    PROVE  Matrix2(Form2!ComputeGridTotals(data))
  <1>1. Form2!ComputeGridTotals(data) =
            Computed(data, Form2!Permanent, TemporaryRow, Form2!Editable, Form2!Demo)
    BY SameTotals
  <1>2. \A r \in Form2!Editable :
           DOMAIN data[r] = ColsOf(Form2!Demo) /\ \A c \in Form2!Demo : data[r][c] \in Nat
    BY SameGrid2
  <1>3. QED
    BY <1>1, <1>2, Frame2, ComputedTotalled DEF Matrix2

\* A new EEA2: every matrix is of zeros, and no flag is due.
LEMMA Inv2Init == Form2!Init => Inv2
  <1> SUFFICES ASSUME Form2!Init PROVE Inv2
    OBVIOUS
  <1>1. /\ formState = Form2!BlankForm /\ context = Form2!NoFlags /\ prefill = Form2!Asked
        /\ submitted = Undefined /\ contact = "blank" /\ step = "a"
    BY DEF Form2!Init
  <1>2. /\ formState["a"] = [profile |-> "blank", contact |-> "blank"]
        /\ formState["b"] = [rows |-> Form2!EmptySectionB, totals |-> Undefined]
        /\ formState["matrix"] = [s \in Form2!MatrixSections |-> Form2!ZeroGrid]
        /\ formState["involuntary"] = [r \in Form2!Editable |-> FALSE]
        /\ formState["h1"] = Undefined
        /\ DOMAIN formState = {"a", "b", "matrix", "involuntary", "h1"}
    BY <1>1 DEF Form2!BlankForm
  <1>3. Matrix2(Form2!ZeroGrid)
    <2>1. Form2!ZeroGrid =
             [r \in RowsOf(Form2!Permanent, TemporaryRow) |-> [c \in ColsOf(Form2!Demo) |-> 0]]
      BY SameGrid2 DEF Form2!ZeroGrid
    <2>2. QED
      BY <2>1, Frame2, ZerosTotalled DEF Matrix2
  <1>4. Profile2
    BY <1>1, <1>2 DEF Profile2, Form2!Asked
  <1>5. Totals2(formState["b"])
    <2>1. \A w \in Form2!WorkerTypes : Form2!EmptySectionB[w] = [male |-> 0, female |-> 0]
      BY DEF Form2!EmptySectionB
    <2>2. DOMAIN Form2!EmptySectionB = Form2!WorkerTypes
      BY DEF Form2!EmptySectionB
    <2>3. formState["b"].rows = Form2!EmptySectionB /\ formState["b"].totals = Undefined
      BY <1>2
    <2>4. QED
      BY <1>2, <2>1, <2>2, <2>3 DEF Totals2
  <1>6. Flags2
    <2>1. formState["matrix"]["c1"] = Form2!ZeroGrid /\ formState["matrix"]["f"] = Form2!ZeroGrid
      BY <1>2 DEF Form2!MatrixSections
    <2>2. ~Form2!DetectBarrierTrigger(Form2!ZeroGrid, formState["involuntary"])
      BY <1>2 DEF Form2!DetectBarrierTrigger
    <2>3. ~Form2!HasOverdueRequest(formState["h1"], checked)
      BY <1>2 DEF Form2!HasOverdueRequest
    <2>4. ~Form2!DisabilityFlagActive(Form2!ZeroGrid, 0)
      <3>1. Form2!GrandTotal(Form2!ZeroGrid) = 0
        BY DEF Form2!GrandTotal, Form2!ZeroGrid, Form2!Rows, Form2!Cols
      <3>2. QED
        BY <3>1 DEF Form2!DisabilityFlagActive
    <2>5. /\ DOMAIN context = {"disabled", "disability", "barrier", "overdue"}
          /\ context["disabled"] = 0 /\ context["disability"] = FALSE
      BY <1>1 DEF Form2!NoFlags
    <2>6. Form2!SubmittedUnflagged
      BY <1>1 DEF Form2!SubmittedUnflagged
    <2>7. QED
      BY <2>1, <2>2, <2>3, <2>4, <2>5, <2>6, Zenon DEF Flags2
  <1>7. QED
    BY <1>2, <1>3, <1>4, <1>5, <1>6 DEF Inv2

\* Another section, and a step that touches no figure.
LEMMA Unflagged2 ==
    ASSUME Inv2, UNCHANGED <<context, checked, submitted>>, formState'["matrix"] = formState["matrix"],
           formState'["involuntary"] = formState["involuntary"], formState'["h1"] = formState["h1"]
    PROVE  Flags2'
  BY DEF Inv2, Flags2, Form2!SubmittedUnflagged

\* A step that changes one field of the form.
LEMMA Field2 ==
    ASSUME Inv2, NEW f, NEW v, formState' = [formState EXCEPT ![f] = v]
    PROVE  /\ DOMAIN formState' = {"a", "b", "matrix", "involuntary", "h1"}
           /\ \A x \in {"a", "b", "matrix", "involuntary", "h1"} :
                 formState'[x] = IF x = f THEN v ELSE formState[x]
  BY DEF Inv2

\* A step that only shows another section.
LEMMA ShownInv2 ==
    ASSUME Inv2, NEW s \in Form2!StepIds, Form2!ShowStep(s)
    PROVE  Inv2'
  <1>1. /\ step' = s /\ UNCHANGED <<submitted, contact, checked>>
        /\ formState' = IF s = "a" THEN Form2!ReadOnlyFields(formState, "blank") ELSE formState
        /\ prefill' = IF s = "a" THEN Form2!Asked ELSE Form2!NotShown
        /\ context' = IF s = "c1" THEN Form2!Mirrored(context, formState) ELSE context
    BY DEF Form2!ShowStep
  <1> DEFINE a == [formState["a"] EXCEPT !.profile = "blank"]
  <1>2. formState' = IF s = "a" THEN [formState EXCEPT !["a"] = a] ELSE formState
    BY <1>1 DEF Form2!ReadOnlyFields
  <1>3. a = [profile |-> "blank", contact |-> contact]
    BY DEF Inv2, Profile2
  <1> HIDE DEF a
  <1>4. /\ DOMAIN formState' = {"a", "b", "matrix", "involuntary", "h1"}
        /\ \A x \in {"b", "matrix", "involuntary", "h1"} : formState'[x] = formState[x]
        /\ formState'["a"] = IF s = "a" THEN a ELSE formState["a"]
    BY <1>2 DEF Inv2
  <1>5. Profile2'
    BY <1>1, <1>3, <1>4 DEF Inv2, Profile2, Form2!Asked, Form2!NotShown
  <1>6. Flags2'
    <2>1. CASE s # "c1"
      BY <1>1, <1>4, <2>1, Unflagged2
    <2>2. CASE s = "c1"
      <3> DEFINE flag == Form2!DisabilityFlagActive(formState["matrix"]["c1"], context["disabled"])
      <3>1. context' = [context EXCEPT !["disability"] = flag]
        BY <1>1, <2>2 DEF Form2!Mirrored
      <3>2. /\ DOMAIN context' = DOMAIN context /\ context'["disability"] = flag
            /\ \A x \in DOMAIN context \ {"disability"} : context'[x] = context[x]
        BY <3>1 DEF Inv2, Flags2
      <3>3. /\ DOMAIN context' = {"disabled", "disability", "barrier", "overdue"}
            /\ context'["disability"] = flag /\ context'["disabled"] = context["disabled"]
            /\ context'["barrier"] = context["barrier"] /\ context'["overdue"] = context["overdue"]
        BY <3>2 DEF Inv2, Flags2
      <3>4. UNCHANGED <<submitted, checked>> /\ formState'["matrix"] = formState["matrix"]
            /\ formState'["involuntary"] = formState["involuntary"] /\ formState'["h1"] = formState["h1"]
        BY <1>1, <1>4
      <3>5. QED
        BY <3>3, <3>4, Zenon DEF Inv2, Flags2, Form2!SubmittedUnflagged
    <2>3. QED
      BY <2>1, <2>2
  <1>7. QED
    BY <1>4, <1>5, <1>6 DEF Inv2

\* The answer of the prefill, and what the user enters in section A.
LEMMA PrefilledInv2 ==
    ASSUME Inv2, NEW p, Form2!PrefillArrives(p)
    PROVE  Inv2'
  <1>1. /\ prefill' = [awaited |-> FALSE, data |-> p]
        /\ UNCHANGED <<step, context, submitted, contact, checked>>
        /\ formState' = Form2!ReadOnlyFields(formState, p)
    BY DEF Form2!PrefillArrives
  <1> DEFINE a == [formState["a"] EXCEPT !.profile = p]
  <1>2. formState' = [formState EXCEPT !["a"] = a]
    BY <1>1 DEF Form2!ReadOnlyFields
  <1>3. a = [profile |-> p, contact |-> contact]
    BY DEF Inv2, Profile2
  <1> HIDE DEF a
  <1>4. /\ DOMAIN formState' = {"a", "b", "matrix", "involuntary", "h1"}
        /\ \A x \in {"b", "matrix", "involuntary", "h1"} : formState'[x] = formState[x]
        /\ formState'["a"] = a
    BY <1>2, Field2
  <1>5. Profile2'
    BY <1>1, <1>3, <1>4 DEF Profile2
  <1>6. Flags2'
    BY <1>1, <1>4, Unflagged2
  <1>7. QED
    BY <1>4, <1>5, <1>6 DEF Inv2

\* The contact the user enters.
LEMMA ContactInv2 ==
    ASSUME Inv2, Form2!UpdateContact
    PROVE  Inv2'
  <1>1. /\ contact' = "entered" /\ UNCHANGED <<step, context, submitted, prefill, checked>>
        /\ formState' = [formState EXCEPT !.a = [@ EXCEPT !.contact = "entered"]]
    BY DEF Form2!UpdateContact
  <1> DEFINE a == [formState["a"] EXCEPT !.contact = "entered"]
  <1>2. formState' = [formState EXCEPT !["a"] = a]
    BY <1>1
  <1>3. a = [profile |-> formState["a"].profile, contact |-> "entered"]
    BY DEF Inv2, Profile2
  <1> HIDE DEF a
  <1>4. /\ DOMAIN formState' = {"a", "b", "matrix", "involuntary", "h1"}
        /\ \A x \in {"b", "matrix", "involuntary", "h1"} : formState'[x] = formState[x]
        /\ formState'["a"] = a
    BY <1>2, Field2
  <1>5. Profile2'
    BY <1>1, <1>3, <1>4 DEF Inv2, Profile2
  <1>6. Flags2'
    BY <1>1, <1>4, Unflagged2
  <1>7. QED
    BY <1>4, <1>5, <1>6 DEF Inv2

\* Section B has its own totals.
LEMMA RowInv2 ==
    ASSUME Inv2, NEW w \in Form2!WorkerTypes, NEW field \in {"male", "female"}, NEW n \in Heads,
           Form2!UpdateRow(w, field, n)
    PROVE  Inv2'
  <1> DEFINE old == formState["b"].rows
             rows == [old EXCEPT ![w] = [@ EXCEPT ![field] = n]]
             b == [rows |-> rows, totals |-> Form2!CalculateSectionBTotals(rows)]
  <1>1. /\ UNCHANGED <<step, context, submitted, contact, prefill, checked>>
        /\ formState' = [formState EXCEPT !["b"] = b]
    BY DEF Form2!UpdateRow
  <1>2. /\ DOMAIN old = Form2!WorkerTypes /\ n \in Nat
        /\ \A x \in Form2!WorkerTypes :
              /\ old[x] = [male |-> old[x].male, female |-> old[x].female]
              /\ old[x].male \in Nat /\ old[x].female \in Nat
    BY FiguresAssumption DEF Inv2, Totals2
  <1> HIDE DEF old
  <1>3. /\ DOMAIN rows = Form2!WorkerTypes
        /\ \A x \in Form2!WorkerTypes :
              rows[x] = IF x = w THEN [old[w] EXCEPT ![field] = n] ELSE old[x]
    BY <1>2
  <1>4. \A x \in Form2!WorkerTypes :
              /\ rows[x] = [male |-> rows[x].male, female |-> rows[x].female]
              /\ rows[x].male \in Nat /\ rows[x].female \in Nat
    <2>1. CASE field = "male"
      <3>1. [old[w] EXCEPT ![field] = n] = [male |-> n, female |-> old[w].female]
        BY <1>2, <2>1
      <3>2. QED
        BY <1>2, <1>3, <3>1
    <2>2. CASE field = "female"
      <3>1. [old[w] EXCEPT ![field] = n] = [male |-> old[w].male, female |-> n]
        BY <1>2, <2>2
      <3>2. QED
        BY <1>2, <1>3, <3>1
    <2>3. QED
      BY <2>1, <2>2
  <1> HIDE DEF rows
  <1>5. Totals2(b)
    BY <1>3, <1>4 DEF Totals2
  <1> HIDE DEF b
  <1>6. /\ DOMAIN formState' = {"a", "b", "matrix", "involuntary", "h1"}
        /\ \A x \in {"a", "matrix", "involuntary", "h1"} : formState'[x] = formState[x]
        /\ formState'["b"] = b
    BY <1>1, Field2
  <1>7. Profile2'
    BY <1>1, <1>6 DEF Inv2, Profile2
  <1>8. Flags2'
    BY <1>1, <1>6, Unflagged2
  <1>9. QED
    BY <1>5, <1>6, <1>7, <1>8 DEF Inv2

\* What a matrix section makes of figures that are entered or pasted.
LEMMA OnChangeInv2 ==
    ASSUME Inv2, step \in Form2!MatrixSections, NEW figures, Form2!OnChange(figures),
           \A r \in Form2!Editable :
              DOMAIN figures[r] = Form2!Cols /\ \A c \in Form2!Demo : figures[r][c] \in Nat,
           UNCHANGED <<step, prefill, contact, submitted, checked>>
    PROVE  Inv2'
  <1> DEFINE totals == Form2!ComputeGridTotals(figures)
             matrix == [formState["matrix"] EXCEPT ![step] = totals]
             next == [formState EXCEPT !["matrix"] = matrix]
  <1>1. formState' = next /\ context' = Form2!ContextAfter(next)
    BY DEF Form2!OnChange
  <1>2. Matrix2(totals)
    BY Computed2
  <1> HIDE DEF totals
  <1>3. /\ DOMAIN matrix = Form2!MatrixSections
        /\ \A s \in Form2!MatrixSections :
              matrix[s] = IF s = step THEN totals ELSE formState["matrix"][s]
    BY DEF Inv2
  <1> HIDE DEF matrix
  <1>4. /\ DOMAIN formState' = {"a", "b", "matrix", "involuntary", "h1"}
        /\ \A x \in {"a", "b", "involuntary", "h1"} : formState'[x] = formState[x]
        /\ formState'["matrix"] = matrix
    BY <1>1, Field2
  <1>5. Profile2'
    BY <1>4 DEF Inv2, Profile2
  <1>6. Flags2'
    <2>1. {"c1", "f", "d1"} = Form2!MatrixSections
      BY DEF Form2!MatrixSections
    <2>2. CASE step = "d1"
      <3>1. matrix["c1"] = formState["matrix"]["c1"] /\ matrix["f"] = formState["matrix"]["f"]
        BY <1>3, <2>1, <2>2
      <3>2. context' = context
        BY <1>1, <2>2 DEF Form2!ContextAfter
      <3>3. QED
        BY <1>4, <3>1, <3>2 DEF Inv2, Flags2, Form2!SubmittedUnflagged
    <2>3. CASE step = "c1"
      <3> DEFINE flag == Form2!DisabilityFlagActive(totals, context["disabled"])
      <3>1. matrix["c1"] = totals /\ matrix["f"] = formState["matrix"]["f"]
        BY <1>3, <2>1, <2>3
      <3>2. context' = [context EXCEPT !["disability"] = flag]
        <4>1. next["matrix"]["c1"] = totals
          BY <1>1, <1>4, <3>1
        <4>2. QED
          BY <1>1, <2>3, <4>1 DEF Form2!ContextAfter, Form2!Mirrored
      <3>3. /\ DOMAIN context' = {"disabled", "disability", "barrier", "overdue"}
            /\ context'["disability"] = flag /\ context'["disabled"] = context["disabled"]
            /\ context'["barrier"] = context["barrier"] /\ context'["overdue"] = context["overdue"]
        BY <3>2 DEF Inv2, Flags2
      <3>4. /\ formState'["matrix"]["c1"] = totals
            /\ formState'["matrix"]["f"] = formState["matrix"]["f"]
            /\ formState'["involuntary"] = formState["involuntary"] /\ formState'["h1"] = formState["h1"]
        BY <1>4, <3>1
      <3>5. QED
        BY <3>3, <3>4, Zenon DEF Inv2, Flags2, Form2!SubmittedUnflagged
    <2>4. CASE step = "f"
      <3> DEFINE found == Form2!DetectBarrierTrigger(totals, formState["involuntary"])
      <3>1. matrix["f"] = totals /\ matrix["c1"] = formState["matrix"]["c1"]
        BY <1>3, <2>1, <2>4
      <3>2. context' = IF found THEN [context EXCEPT !["barrier"] = TRUE] ELSE context
        <4>1. next["matrix"]["f"] = totals /\ next["involuntary"] = formState["involuntary"]
          BY <1>1, <1>4, <3>1
        <4>2. QED
          BY <1>1, <2>4, <4>1 DEF Form2!ContextAfter, Form2!EvaluateBarrier
      <3>3. /\ DOMAIN context' = {"disabled", "disability", "barrier", "overdue"}
            /\ context'["disability"] = context["disability"]
            /\ context'["disabled"] = context["disabled"] /\ context'["overdue"] = context["overdue"]
            /\ found => context'["barrier"] = TRUE
        BY <3>2 DEF Inv2, Flags2
      <3>4. /\ formState'["matrix"]["f"] = totals
            /\ formState'["matrix"]["c1"] = formState["matrix"]["c1"]
            /\ formState'["involuntary"] = formState["involuntary"] /\ formState'["h1"] = formState["h1"]
        BY <1>4, <3>1
      <3>5. QED
        BY <3>3, <3>4, Zenon DEF Inv2, Flags2, Form2!SubmittedUnflagged
    <2>5. QED
      BY <2>1, <2>2, <2>3, <2>4
  <1>7. \A s \in Form2!MatrixSections : Matrix2(formState'["matrix"][s])
    BY <1>2, <1>3, <1>4 DEF Inv2
  <1>8. QED
    BY <1>3, <1>4, <1>5, <1>6, <1>7 DEF Inv2

\* The cells of a matrix that are edited.
LEMMA CellsOf2 ==
    ASSUME NEW g, Matrix2(g), NEW r \in Form2!Editable
    PROVE  /\ r \in DOMAIN g /\ DOMAIN g[r] = Form2!Cols
           /\ \A c \in Form2!Demo : c \in DOMAIN g[r] /\ g[r][c] \in Nat
  BY SameGrid2 DEF Matrix2, IsGrid

\* A figure typed or pasted into a matrix, and the flags it raises.
LEMMA EnteredInv2 ==
    ASSUME Inv2, NEW r \in Form2!Editable, NEW c \in Form2!Demo, NEW n \in Heads,
           Form2!HandleCellChange(r, c, n) \/ Form2!HandlePaste(r, c, n)
    PROVE  Inv2'
  <1> DEFINE g == formState["matrix"][step]
             figures == [g EXCEPT ![r] = [@ EXCEPT ![c] = n]]
             pasted == Form2!PasteAt(g, r, c, <<<<n, n>>>>)
  <1>1. /\ step \in Form2!MatrixSections /\ (Form2!OnChange(figures) \/ Form2!OnChange(pasted))
        /\ UNCHANGED <<step, prefill, contact, submitted, checked>>
    BY DEF Form2!HandleCellChange, Form2!HandlePaste, Form2!Figures
  <1>2. \A x \in Form2!Editable :
           /\ x \in DOMAIN g /\ DOMAIN g[x] = Form2!Cols
           /\ \A y \in Form2!Demo : y \in DOMAIN g[x] /\ g[x][y] \in Nat
    BY <1>1, CellsOf2 DEF Inv2
  <1>3. n \in Nat
    BY FiguresAssumption
  <1>4. \A x \in Form2!Editable :
           DOMAIN pasted[x] = Form2!Cols /\ \A y \in Form2!Demo : pasted[x][y] \in {n, g[x][y]}
    BY PasteKeepsOrPuts
  <1> HIDE DEF g, pasted
  <1>5. \A x \in Form2!Editable :
           DOMAIN figures[x] = Form2!Cols /\ \A y \in Form2!Demo : figures[x][y] \in Nat
    BY <1>2, <1>3
  <1>6. \A x \in Form2!Editable :
           DOMAIN pasted[x] = Form2!Cols /\ \A y \in Form2!Demo : pasted[x][y] \in Nat
    BY <1>2, <1>3, <1>4
  <1> HIDE DEF figures
  <1>7. QED
    BY <1>1, <1>5, <1>6, OnChangeInv2

\* The number of the employees with disabilities.
LEMMA DisabledInv2 ==
    ASSUME Inv2, NEW n, Form2!CountDisabled(n)
    PROVE  Inv2'
  <1> DEFINE flag == Form2!DisabilityFlagActive(formState["matrix"]["c1"], n)
  <1>1. /\ context' = Form2!Mirrored([context EXCEPT !.disabled = n], formState)
        /\ UNCHANGED <<step, formState, prefill, contact, submitted, checked>>
    BY DEF Form2!CountDisabled
  <1>2. [context EXCEPT !.disabled = n]["disabled"] = n
    BY DEF Inv2, Flags2
  <1>3. context' = [[context EXCEPT !["disabled"] = n] EXCEPT !["disability"] = flag]
    BY <1>1, <1>2 DEF Form2!Mirrored
  <1>4. /\ DOMAIN context' = {"disabled", "disability", "barrier", "overdue"}
        /\ context'["disability"] = flag /\ context'["disabled"] = n
        /\ context'["barrier"] = context["barrier"] /\ context'["overdue"] = context["overdue"]
    BY <1>3 DEF Inv2, Flags2
  <1>5. Flags2'
    BY <1>1, <1>4, Zenon DEF Inv2, Flags2, Form2!SubmittedUnflagged
  <1>6. Profile2'
    BY <1>1 DEF Inv2, Profile2
  <1>7. QED
    BY <1>1, <1>5, <1>6 DEF Inv2

\* The reason of a termination.
LEMMA ReasonInv2 ==
    ASSUME Inv2, NEW r, NEW i, Form2!SetReason(r, i)
    PROVE  Inv2'
  <1> DEFINE involuntary == [formState["involuntary"] EXCEPT ![r] = i]
             next == [formState EXCEPT !["involuntary"] = involuntary]
  <1>1. /\ step = "f" /\ formState' = next /\ context' = Form2!ContextAfter(next)
        /\ UNCHANGED <<step, prefill, contact, submitted, checked>>
    BY DEF Form2!SetReason
  <1> HIDE DEF involuntary
  <1>2. /\ DOMAIN formState' = {"a", "b", "matrix", "involuntary", "h1"}
        /\ \A x \in {"a", "b", "matrix", "h1"} : formState'[x] = formState[x]
        /\ formState'["involuntary"] = involuntary
    BY <1>1, Field2
  <1> DEFINE found == Form2!DetectBarrierTrigger(formState["matrix"]["f"], involuntary)
  <1>3. context' = IF found THEN [context EXCEPT !["barrier"] = TRUE] ELSE context
    <2>1. next["matrix"]["f"] = formState["matrix"]["f"] /\ next["involuntary"] = involuntary
      BY <1>1, <1>2
    <2>2. QED
      BY <1>1, <2>1 DEF Form2!ContextAfter, Form2!EvaluateBarrier
  <1>4. /\ DOMAIN context' = {"disabled", "disability", "barrier", "overdue"}
        /\ context'["disability"] = context["disability"]
        /\ context'["disabled"] = context["disabled"] /\ context'["overdue"] = context["overdue"]
        /\ found => context'["barrier"] = TRUE
    BY <1>3 DEF Inv2, Flags2
  <1>5. /\ formState'["matrix"] = formState["matrix"] /\ formState'["h1"] = formState["h1"]
        /\ formState'["involuntary"] = involuntary
    BY <1>2
  <1>6. Flags2'
    BY <1>1, <1>4, <1>5, Zenon DEF Inv2, Flags2, Form2!SubmittedUnflagged
  <1>7. Profile2'
    BY <1>1, <1>2 DEF Inv2, Profile2
  <1>8. QED
    BY <1>2, <1>6, <1>7 DEF Inv2

\* The requests of section H1.
LEMMA RequestInv2 ==
    ASSUME Inv2, NEW asked, Form2!UpdateEntry(asked)
    PROVE  Inv2'
  <1>1. /\ formState' = [formState EXCEPT !["h1"] = asked] /\ checked' = today
        /\ context' = IF Form2!HasOverdueRequest(asked, today)
                      THEN [context EXCEPT !["overdue"] = TRUE] ELSE context
        /\ UNCHANGED <<step, prefill, contact, submitted>>
    BY DEF Form2!UpdateEntry
  <1>2. /\ DOMAIN formState' = {"a", "b", "matrix", "involuntary", "h1"}
        /\ formState'["matrix"] = formState["matrix"] /\ formState'["a"] = formState["a"]
        /\ formState'["b"] = formState["b"] /\ formState'["involuntary"] = formState["involuntary"]
        /\ formState'["h1"] = asked
    BY <1>1, Field2
  <1>3. /\ DOMAIN context' = {"disabled", "disability", "barrier", "overdue"}
        /\ context'["disability"] = context["disability"]
        /\ context'["disabled"] = context["disabled"] /\ context'["barrier"] = context["barrier"]
        /\ Form2!HasOverdueRequest(asked, today) => context'["overdue"] = TRUE
    BY <1>1 DEF Inv2, Flags2
  <1>4. Flags2'
    BY <1>1, <1>2, <1>3, Zenon DEF Inv2, Flags2, Form2!SubmittedUnflagged
  <1>5. Profile2'
    BY <1>1, <1>2 DEF Inv2, Profile2
  <1>6. QED
    BY <1>2, <1>4, <1>5 DEF Inv2

\* The flag says what the validation of the matrix says.
LEMMA SameFlag2 ==
    ASSUME NEW g, Matrix2(g), NEW n
    PROVE  Form2!DisabilityFlagActive(g, n) <=>
              Form2!DisabilityBelow3Pct(g, Form2!GrandTotal(g) >= 50, n)
  <1>1. Form2!GrandTotal(g) \in Nat
    BY DEF Matrix2, IsGrid, RowsOf, ColsOf, Form2!GrandTotal
  <1>2. QED
    BY <1>1 DEF Form2!DisabilityFlagActive, Form2!DisabilityBelow3Pct

\* Only a report without a flag it should have is submitted.
LEMMA SubmittedInv2 ==
    ASSUME Inv2, Form2!SubmitForSigning
    PROVE  Inv2'
  <1> DEFINE grid == formState["matrix"]["c1"]
             low == Form2!DisabilityBelow3Pct(grid, Form2!GrandTotal(grid) >= 50, context["disabled"])
             barrier == Form2!DetectBarrierTrigger(formState["matrix"]["f"], formState["involuntary"])
             overdue == Form2!HasOverdueRequest(formState["h1"], checked)
  <1>1. /\ UNCHANGED <<step, formState, context, prefill, contact, checked>>
        /\ ~context["disability"] /\ ~context["barrier"] /\ ~context["overdue"]
        /\ submitted' = [disability |-> low, barrier |-> barrier, overdue |-> overdue]
    BY DEF Form2!SubmitForSigning, Form2!IsSubmitDisabled
  <1>2. Matrix2(grid)
    BY DEF Inv2, Form2!MatrixSections
  <1>3. ~barrier /\ ~overdue
    BY <1>1 DEF Inv2, Flags2
  <1>4. ~low
    <2>1. ~Form2!DisabilityFlagActive(grid, context["disabled"])
      BY <1>1 DEF Inv2, Flags2
    <2>2. QED
      BY <1>2, <2>1, SameFlag2
  <1>5. low = FALSE /\ barrier = FALSE /\ overdue = FALSE
    BY <1>3, <1>4 DEF Form2!DisabilityBelow3Pct, Form2!DetectBarrierTrigger, Form2!HasOverdueRequest
  <1> HIDE DEF low, barrier, overdue
  <1>6. submitted' = [disability |-> FALSE, barrier |-> FALSE, overdue |-> FALSE]
    BY <1>1, <1>5
  <1>7. Flags2'
    BY <1>1, <1>6 DEF Inv2, Flags2, Form2!SubmittedUnflagged
  <1>8. Profile2'
    BY <1>1 DEF Inv2, Profile2
  <1>9. QED
    BY <1>1, <1>7, <1>8 DEF Inv2

\* Every step of the EEA2 keeps its matrices summed, its flags and its sources.
LEMMA Inv2Step == Inv2 /\ Form2!Next => Inv2'
  <1> SUFFICES ASSUME Inv2, Form2!Next PROVE Inv2'
    OBVIOUS
  <1>1. ASSUME UNCHANGED <<step, formState, context, submitted, contact, checked>>,
               prefill' = prefill \/ (prefill.awaited /\ prefill' = Form2!NotShown)
        PROVE  Inv2'
    <2>1. Profile2'
      BY <1>1 DEF Inv2, Profile2, Form2!NotShown
    <2>2. Flags2'
      BY <1>1, Unflagged2
    <2>3. QED
      BY <1>1, <2>1, <2>2 DEF Inv2
  <1>2. CASE Form2!TimePasses \/ Form2!PrefillFails \/ Form2!HandleCellBlur
    BY <1>1, <1>2 DEF Form2!TimePasses, Form2!PrefillFails, Form2!HandleCellBlur
  <1>3. ASSUME NEW r, NEW c, Form2!HandleCellFocus(r, c) PROVE Inv2'
    BY <1>1, <1>3 DEF Form2!HandleCellFocus
  <1>4. CASE \E s \in Form2!StepIds : Form2!GoTo(s)
    BY <1>4, ShownInv2 DEF Form2!GoTo
  <1>5. CASE Form2!SaveAnswered
    <2>1. "d1" \in Form2!StepIds
      BY DEF Form2!StepIds, Form2!MatrixSections
    <2>2. QED
      BY <1>5, <2>1, ShownInv2 DEF Form2!SaveAnswered
  <1>6. CASE \E w \in Form2!WorkerTypes, field \in {"male", "female"}, n \in Heads :
                Form2!UpdateRow(w, field, n)
    BY <1>6, RowInv2
  <1>7. CASE \E r \in Form2!Editable, c \in Form2!Demo, n \in Heads :
                 Form2!HandleCellChange(r, c, n) \/ Form2!HandlePaste(r, c, n)
    BY <1>7, EnteredInv2
  <1>8. QED
    BY <1>2, <1>3, <1>4, <1>5, <1>6, <1>7, SubmittedInv2, PrefilledInv2, ContactInv2,
       DisabledInv2, ReasonInv2, RequestInv2 DEF Form2!Next

\* Section A shows what was answered and what was entered.
LEMMA Sources2 == Inv2 => Form2!ProfileIsOfItsSources
  <1> SUFFICES ASSUME Inv2 PROVE Form2!ProfileIsOfItsSources
    OBVIOUS
  <1>1. formState["a"].contact = contact
    BY DEF Inv2, Profile2
  <1>2. QED
    BY <1>1 DEF Inv2, Profile2, Form2!ProfileIsOfItsSources

\* The flags are those of the figures, and what was submitted had them.
LEMMA Flagged2 == Inv2 => Form2!FlagsAreOfTheFigures /\ Form2!SubmittedUnflagged
  <1> SUFFICES ASSUME Inv2 PROVE Form2!FlagsAreOfTheFigures /\ Form2!SubmittedUnflagged
    OBVIOUS
  <1> DEFINE grid == formState["matrix"]["c1"]
  <1>1. Matrix2(grid)
    BY DEF Inv2, Form2!MatrixSections
  <1>2. Form2!DisabilityFlagActive(grid, context["disabled"]) <=>
           Form2!DisabilityBelow3Pct(grid, Form2!GrandTotal(grid) >= 50, context["disabled"])
    BY <1>1, SameFlag2
  <1>3. QED
    BY <1>2, Zenon DEF Inv2, Flags2, Form2!FlagsAreOfTheFigures

\* The sum of the cells of some rows and columns, in the words of the form.
LEMMA CellSums2 ==
    ASSUME NEW g, NEW rows, NEW cols
    PROVE  Form2!SumFunction([rc \in rows \X cols |-> g[rc[1]][rc[2]]]) = SumOfCells(g, rows, cols)
  <1> DEFINE f == [rc \in rows \X cols |-> g[rc[1]][rc[2]]]
  <1>1. f = CellsOf(g, rows, cols) /\ DOMAIN f = rows \X cols
    BY DEF CellsOf
  <1> HIDE DEF f
  <1>2. Form2!SumFunction(f) = SumFunctionOnSet(f, DOMAIN f)
    BY SameSums
  <1>3. QED
    BY <1>1, <1>2 DEF f, SumOfCells

\* A matrix of the EEA2 adds up as the property says.
LEMMA AddsUp2 == ASSUME NEW g, Matrix2(g) PROVE Form2!AddsUp(g)
  <1> DEFINE P == Form2!Permanent
             E == Form2!Editable
             D == Form2!Demo
             Of(rows, cols) == Form2!SumFunction([rc \in rows \X cols |-> g[rc[1]][rc[2]]])
  <1>1. \A rows, cols : Of(rows, cols) = SumOfCells(g, rows, cols)
    BY CellSums2
  <1> HIDE DEF Of
  <1>2. Frame(P, TemporaryRow, E, D) /\ IsGrid(g, P, TemporaryRow, D) /\ Totalled(g, P, TemporaryRow, D)
    BY Frame2 DEF Matrix2
  <1>3. Form2!Cols = ColsOf(D) /\ "total" \notin D
    BY SameGrid2, <1>2 DEF Frame
  <1> HIDE DEF P, E, D
  <1>4. /\ \A r \in E : g[r]["total"] = SumOfCells(g, {r}, D)
        /\ \A c \in D : /\ g["totalPermanent"][c] = SumOfCells(g, P, {c})
                        /\ g["grandTotal"][c] = SumOfCells(g, E, {c})
        /\ g["totalPermanent"]["total"] = SumOfCells(g, P, D)
        /\ g["grandTotal"]["total"] = SumOfCells(g, E, D)
    BY <1>2, GridAddsUp
  <1>5. ASSUME NEW c \in Form2!Cols
        PROVE  LET cols == IF c = "total" THEN D ELSE {c}
               IN /\ g["totalPermanent"][c] = SumOfCells(g, P, cols)
                  /\ g["grandTotal"][c] = SumOfCells(g, E, cols)
    <2>1. CASE c = "total"
      BY <1>4, <2>1
    <2>2. CASE c # "total"
      BY <1>3, <1>4, <2>2 DEF ColsOf
    <2>3. QED
      BY <2>1, <2>2
  <1>6. \A r \in E : g[r]["total"] = Of({r}, D)
    BY <1>1, <1>4
  <1>7. \A c \in Form2!Cols : LET cols == IF c = "total" THEN D ELSE {c}
                              IN /\ g["totalPermanent"][c] = Of(P, cols)
                                 /\ g["grandTotal"][c] = Of(E, cols)
    BY <1>1, <1>5
  <1>8. QED
    BY <1>6, <1>7 DEF Form2!AddsUp, Of, P, E, D

\* In the words of the validation of a matrix.
LEMMA Valid2 ==
    ASSUME NEW g, Matrix2(g)
    PROVE  Form2!ColumnTotalMismatch(g) = {} /\ Form2!CellExceedsGrandTotal(g) = {}
  <1> DEFINE P == Form2!Permanent
             E == Form2!Editable
             D == Form2!Demo
  <1>1. Frame(P, TemporaryRow, E, D) /\ IsGrid(g, P, TemporaryRow, D) /\ Totalled(g, P, TemporaryRow, D)
    BY Frame2 DEF Matrix2
  <1>2. /\ Form2!Cols = ColsOf(D) /\ "total" \notin D /\ E \subseteq RowsOf(P, TemporaryRow)
        /\ Form2!Rows = RowsOf(P, TemporaryRow)
    BY SameGrid2, <1>1 DEF Frame
  <1>3. \A r \in E : Form2!SumFunctionOnSet(g[r], D) = g[r]["total"]
    BY <1>1, <1>2, SameSum DEF Totalled
  <1>4. ASSUME NEW c \in Form2!Cols
        PROVE  Form2!SumFunction([r \in P |-> g[r][c]]) = SumFunctionOnSet(Column(g, P, c), P)
    <2> DEFINE f == [r \in P |-> g[r][c]]
    <2>1. f = Column(g, P, c) /\ DOMAIN f = P
      BY DEF Column
    <2> HIDE DEF f
    <2>2. Form2!SumFunction(f) = SumFunctionOnSet(f, DOMAIN f)
      BY SameSums
    <2>3. QED
      BY <2>1, <2>2 DEF f
  <1> HIDE DEF P, E, D
  <1>5. /\ g["totalPermanent"]["total"] = SumFunctionOnSet(Column(g, P, "total"), P)
        /\ g["grandTotal"]["total"] = g["totalPermanent"]["total"] + g[TemporaryRow]["total"]
    BY <1>1, TotalsAgree
  <1>6. ASSUME NEW c \in ColsOf(D)
        PROVE  /\ SumFunctionOnSet(Column(g, P, c), P) = g["totalPermanent"][c]
               /\ g["totalPermanent"][c] + g[TemporaryRow][c] = g["grandTotal"][c]
    <2>1. CASE c = "total"
      BY <1>5, <2>1
    <2>2. CASE c \in D
      BY <1>1, <2>2 DEF Totalled
    <2>3. QED
      BY <2>1, <2>2 DEF ColsOf
  <1>7. Form2!ColumnTotalMismatch(g) = {}
    <2>1. {x \in E : Form2!SumFunctionOnSet(g[x], D) # g[x]["total"]} = {}
      BY <1>3
    <2>2. {x \in Form2!Cols : Form2!SumFunction([r \in P |-> g[r][x]]) # g["totalPermanent"][x]} = {}
      BY <1>2, <1>4, <1>6
    <2>3. {x \in Form2!Cols : g["totalPermanent"][x] + g[TemporaryRow][x] # g["grandTotal"][x]} = {}
      BY <1>2, <1>6
    <2>4. QED
      BY <2>1, <2>2, <2>3 DEF Form2!ColumnTotalMismatch, P, E, D
  <1>8. Form2!CellExceedsGrandTotal(g) = {}
    <2>1. ASSUME NEW r \in RowsOf(P, TemporaryRow), NEW c \in D PROVE ~(g[r][c] > g["grandTotal"]["total"])
      <3>1. g[r][c] <= g["grandTotal"]["total"]
        BY <1>1, GrandTotalBounds
      <3>2. g[r][c] \in Nat /\ g["grandTotal"]["total"] \in Nat
        BY <1>1 DEF IsGrid, RowsOf, ColsOf
      <3>3. QED
        BY <3>1, <3>2
    <2>2. QED
      BY <1>2, <2>1 DEF Form2!CellExceedsGrandTotal, Form2!GrandTotal, D
  <1>9. QED
    BY <1>7, <1>8

\* The totals of section B are of all its figures.
LEMMA SectionB2 ==
    ASSUME NEW b, Totals2(b), b.totals # Undefined
    PROVE  b.totals.grand =
              Form2!SumFunction([wf \in Form2!WorkerTypes \X {"male", "female"} |-> b.rows[wf[1]][wf[2]]])
  <1> DEFINE A == Form2!WorkerTypes
             B == {"male", "female"}
             rows == b.rows
             total == [w \in A |-> rows[w].male + rows[w].female]
             cells == [wf \in A \X B |-> rows[wf[1]][wf[2]]]
  <1>1. b.totals.grand = Form2!SumFunction(total)
    BY DEF Totals2, Form2!CalculateSectionBTotals
  <1>2. DOMAIN total = A /\ DOMAIN cells = A \X B
    OBVIOUS
  <1>3. \A w \in A : /\ rows[w]["male"] \in Nat /\ rows[w]["female"] \in Nat
                     /\ total[w] = rows[w]["male"] + rows[w]["female"]
    BY DEF Totals2
  <1>4. IsTable(cells, rows, A, B)
    BY <1>3 DEF IsTable
  <1>5. IsFiniteSet(A) /\ IsFiniteSet(B)
    <2>1. A = {"permanent", "nonPermanent", "contract"}
      BY DEF Form2!WorkerTypes
    <2>2. /\ {"male", "female"} = {"male"} \cup {"female"}
          /\ {"permanent", "nonPermanent", "contract"} = {"permanent"} \cup {"nonPermanent"} \cup {"contract"}
      OBVIOUS
    <2>3. IsFiniteSet({"male"}) /\ IsFiniteSet({"permanent"})
      BY FS_Singleton
    <2>4. IsFiniteSet({"male"} \cup {"female"}) /\ IsFiniteSet({"permanent"} \cup {"nonPermanent"})
      BY <2>3, FS_AddElement
    <2>5. IsFiniteSet({"permanent"} \cup {"nonPermanent"} \cup {"contract"})
      BY <2>4, FS_AddElement
    <2>6. QED
      BY <2>1, <2>2, <2>4, <2>5
  <1>6. ASSUME NEW w \in A PROVE total[w] = SumFunctionOnSet(rows[w], B)
    <2>1. SumFunctionOnSet(rows[w], B) = rows[w]["male"] + SumFunctionOnSet(rows[w], B \ {"male"})
      <3>1. \A x \in B : rows[w][x] \in Int
        BY <1>3
      <3> HIDE DEF rows, A
      <3>2. QED
        BY <1>5, <3>1, SumRemove
    <2>2. SumFunctionOnSet(rows[w], {} \cup {"female"}) = rows[w]["female"] + SumFunctionOnSet(rows[w], {})
      <3>1. \A x \in {} \cup {"female"} : rows[w][x] \in Int
        BY <1>3
      <3> HIDE DEF rows, A
      <3>2. QED
        BY <3>1, FS_EmptySet, SumAdd
    <2>3. B \ {"male"} = {} \cup {"female"}
      OBVIOUS
    <2>4. SumFunctionOnSet(rows[w], {}) = 0
      BY SumEmpty
    <2>5. rows[w]["male"] \in Nat /\ rows[w]["female"] \in Nat /\ total[w] = rows[w]["male"] + rows[w]["female"]
      BY <1>3
    <2> DEFINE all == SumFunctionOnSet(rows[w], B)
               rest == SumFunctionOnSet(rows[w], B \ {"male"})
               m == rows[w]["male"]
               f == rows[w]["female"]
    <2>6. rest = SumFunctionOnSet(rows[w], {} \cup {"female"})
      BY <2>3
    <2>7. all = m + rest /\ rest = f + 0
      BY <2>1, <2>2, <2>4, <2>6
    <2>8. m \in Nat /\ f \in Nat /\ total[w] = m + f
      BY <2>5
    <2> HIDE DEF all, rest, m, f, total
    <2>9. total[w] = all
      BY <2>7, <2>8
    <2>10. QED
      BY <2>9 DEF all
  <1> HIDE DEF total, cells, A, B, rows
  <1>7. SumFunctionOnSet(cells, A \X B) = SumFunctionOnSet(total, A)
    BY <1>4, <1>5, <1>6, SumOfRows
  <1>8. Form2!SumFunction(cells) = SumFunctionOnSet(cells, A \X B)
    BY <1>2, SameSums
  <1>9. Form2!SumFunction(total) = SumFunctionOnSet(total, A)
    BY <1>2, SameSums
  <1>10. QED
    BY <1>1, <1>7, <1>8, <1>9 DEF cells, A, B, rows

\* So do all of them, and the columns of section B.
LEMMA Figures2 == Inv2 => Form2!FiguresAddUp
  <1> SUFFICES ASSUME Inv2 PROVE Form2!FiguresAddUp
    OBVIOUS
  <1>1. \A s \in Form2!MatrixSections :
           /\ Form2!AddsUp(formState["matrix"][s])
           /\ Form2!ColumnTotalMismatch(formState["matrix"][s]) = {}
           /\ Form2!CellExceedsGrandTotal(formState["matrix"][s]) = {}
    BY AddsUp2, Valid2 DEF Inv2
  <1> DEFINE b == formState["b"]
  <1>2. b.totals # Undefined => b.totals.grand =
           Form2!SumFunction([wf \in Form2!WorkerTypes \X {"male", "female"} |-> b.rows[wf[1]][wf[2]]])
    BY SectionB2 DEF Inv2
  <1>3. QED
    BY <1>1, <1>2 DEF Form2!FiguresAddUp

(***************************************************************************)
(* EEA12: the rows of section B and the comparison.                         *)
(***************************************************************************)
\* Part of a sum of numbers.
LEMMA SumOfPart ==
    ASSUME NEW f, NEW S, IsFiniteSet(S), \A x \in S : f[x] \in Nat, NEW U \in SUBSET S
    PROVE  SumFunctionOnSet(f, U) \in Nat /\ SumFunctionOnSet(f, U) <= SumFunctionOnSet(f, S)
  <1> DEFINE V == S \ U
  <1>1. IsFiniteSet(U) /\ IsFiniteSet(V) /\ U \cap V = {} /\ S = U \cup V
    BY FS_Subset
  <1>2. SumFunctionOnSet(f, U) \in Nat /\ SumFunctionOnSet(f, V) \in Nat
    BY <1>1, SumNat
  <1>3. SumFunctionOnSet(f, U \cup V) = SumFunctionOnSet(f, U) + SumFunctionOnSet(f, V)
    <2>1. \A x \in U \cup V : f[x] \in Int
      BY <1>1
    <2> HIDE DEF V
    <2>2. QED
      BY <1>1, <2>1, SumUnion
  <1> DEFINE u == SumFunctionOnSet(f, U)
             v == SumFunctionOnSet(f, V)
             s == SumFunctionOnSet(f, S)
  <1>4. s = u + v /\ u \in Nat /\ v \in Nat
    BY <1>1, <1>2, <1>3
  <1> HIDE DEF u, v, s
  <1>5. u \in Nat /\ u <= s
    BY <1>4
  <1>6. QED
    BY <1>5 DEF u, s

\* The sum of what is there of two.
LEMMA SumOfOne ==
    ASSUME NEW f, NEW S, NEW p, p \in S => f[p] \in Int
    PROVE  SumFunctionOnSet(f, S \cap {p}) = IF p \in S THEN f[p] ELSE 0
  <1>1. SumFunctionOnSet(f, {}) = 0
    BY SumEmpty
  <1>2. CASE p \in S
    <2>1. SumFunctionOnSet(f, {} \cup {p}) = f[p] + SumFunctionOnSet(f, {})
      <3>1. IsFiniteSet({}) /\ \A x \in {} \cup {p} : f[x] \in Int
        BY <1>2, FS_EmptySet
      <3>2. QED
        BY <3>1, SumAdd
    <2>2. {} \cup {p} = S \cap {p}
      BY <1>2
    <2> DEFINE sum == SumFunctionOnSet(f, S \cap {p})
               one == f[p]
    <2>3. sum = one + 0 /\ one \in Int
      BY <1>1, <1>2, <2>1, <2>2
    <2> HIDE DEF sum, one
    <2>4. sum = one
      BY <2>3
    <2>5. QED
      BY <1>2, <2>4 DEF sum, one
  <1>3. CASE p \notin S
    <2>1. S \cap {p} = {}
      BY <1>3
    <2>2. QED
      BY <1>1, <1>3, <2>1
  <1>4. QED
    BY <1>2, <1>3

\* A sum over at most two elements.
LEMMA SumOfTwo ==
    ASSUME NEW f, NEW S, NEW p, NEW q, p # q, S \subseteq {p, q}, \A x \in S : f[x] \in Int
    PROVE  SumFunctionOnSet(f, S) = (IF p \in S THEN f[p] ELSE 0) + (IF q \in S THEN f[q] ELSE 0)
  <1> DEFINE A == S \cap {p}
             B == S \cap {q}
  <1>1. S = A \cup B /\ A \cap B = {} /\ A \subseteq {p} /\ B \subseteq {q}
    OBVIOUS
  <1>2. IsFiniteSet(A) /\ IsFiniteSet(B)
    <2>1. IsFiniteSet({p}) /\ IsFiniteSet({q})
      BY FS_Singleton
    <2> HIDE DEF A, B
    <2>2. QED
      BY <1>1, <2>1, FS_Subset
  <1>3. /\ SumFunctionOnSet(f, A) = IF p \in S THEN f[p] ELSE 0
        /\ SumFunctionOnSet(f, B) = IF q \in S THEN f[q] ELSE 0
    BY SumOfOne
  <1>4. \A x \in A \cup B : f[x] \in Int
    OBVIOUS
  <1> HIDE DEF A, B
  <1>5. SumFunctionOnSet(f, A \cup B) = SumFunctionOnSet(f, A) + SumFunctionOnSet(f, B)
    BY <1>1, <1>2, <1>4, SumUnion
  <1>6. QED
    BY <1>1, <1>3, <1>5

Table12 == [Levels -> [Form12!Columns -> Nat]]

\* The greater of 0 and another number.
LEMMA MaxOfZero12 == ASSUME NEW x \in Int PROVE Form12!Max({0, x}) = IF x > 0 THEN x ELSE 0
  <1> DEFINE m == IF x > 0 THEN x ELSE 0
  <1>1. m \in {0, x} /\ \A y \in {0, x} : m >= y /\ (y >= m => y = m)
    OBVIOUS
  <1>2. Form12!Max({0, x}) = m
    BY <1>1 DEF Form12!Max
  <1>3. QED
    BY <1>2

\* How many of two tables have a row.
LEMMA CountIn12 ==
    ASSUME NEW w \in Table12, NEW d \in Table12, NEW k \in Form12!Keys
    PROVE  /\ w[k.level][k.race] \in Nat /\ d[k.level][k.race] \in Nat
           /\ Form12!CountIn(w, d, k) =
                 IF k.disability THEN d[k.level][k.race]
                 ELSE IF w[k.level][k.race] > d[k.level][k.race]
                      THEN w[k.level][k.race] - d[k.level][k.race] ELSE 0
  <1>1. w[k.level][k.race] \in Nat /\ d[k.level][k.race] \in Nat
    BY DEF Table12, Form12!Keys, Form12!Columns
  <1>2. w[k.level][k.race] - d[k.level][k.race] \in Int
    BY <1>1
  <1>3. QED
    BY <1>1, <1>2, MaxOfZero12 DEF Form12!CountIn

\* The rows of a profile: those of the tables, but for what was typed.
Rows12(b, t, w, d) ==
    /\ \A k \in Form12!Keys : k \in DOMAIN b <=> Form12!CountIn(w, d, k) > 0
    /\ \A k \in DOMAIN b : b[k] = IF k \in DOMAIN t THEN t[k] ELSE Form12!CountIn(w, d, k)

\* The tables are of an EEA2, unless it lacked one of them.
OfOne12(w, d) ==
    \E id \in DOMAIN Tables :
        /\ Tables[id].w \in {w, Undefined} /\ Tables[id].d \in {d, Undefined}
        /\ {Tables[id].w, Tables[id].d} # {Undefined}

Inv12 ==
    /\ DOMAIN formState = {"a", "b", "c", "workforce", "disability"}
    /\ formState["workforce"] \in Table12 \cup {Undefined}
    /\ formState["disability"] \in Table12 \cup {Undefined}
    /\ {formState["workforce"], formState["disability"]} # {Undefined} =>
          OfOne12(formState["workforce"], formState["disability"])
    /\ DOMAIN linked = {"id", "awaited"} /\ (linked["awaited"] => linked["id"] \in DOMAIN Tables)
    /\ DOMAIN formState["b"] \subseteq Form12!Keys
    /\ \A k \in DOMAIN formState["b"] : formState["b"][k] \in Nat
    /\ DOMAIN typed \subseteq DOMAIN formState["b"]
    /\ basis # Undefined =>
          /\ basis.w # Undefined /\ basis.w \in Table12 /\ basis.d \in Table12 /\ OfOne12(basis.w, basis.d)
          /\ Rows12(formState["b"], typed, basis.w, basis.d)
    /\ step = "c" => sent.form["c"] = Form12!BuildEapComparison(formState["b"])

\* A new EEA12 has no rows from an EEA2.
LEMMA Inv12Init == Form12!Init => Inv12
  <1> SUFFICES ASSUME Form12!Init PROVE Inv12
    OBVIOUS
  <1>1. /\ step = "a" /\ formState = Form12!BlankForm /\ typed = << >> /\ basis = Undefined
        /\ linked = [id |-> Undefined, awaited |-> FALSE]
    BY DEF Form12!Init, Form12!None
  <1>2. /\ DOMAIN formState = {"a", "b", "c", "workforce", "disability"}
        /\ formState["b"] = << >> /\ formState["workforce"] = Undefined
        /\ formState["disability"] = Undefined
    BY <1>1 DEF Form12!BlankForm, Form12!None
  <1>3. DOMAIN << >> = {}
    OBVIOUS
  <1>4. DOMAIN linked = {"id", "awaited"} /\ linked["awaited"] = FALSE
    BY <1>1
  <1>5. QED
    BY <1>1, <1>2, <1>3, <1>4 DEF Inv12

\* What leaves the rows alone.
LEMMA Same12 ==
    ASSUME Inv12, UNCHANGED <<formState, linked, typed, basis>>,
           step' = step, UNCHANGED sent
    PROVE  Inv12'
  BY DEF Inv12

\* The prefill fills the rows from the two tables of the form, if there are none.
LEMMA Filled12 ==
    ASSUME NEW w \in Table12, NEW d \in Table12, NEW t, DOMAIN t = {}
    PROVE  LET b == Form12!DecomposeEEA2Workforce(w, d)
           IN /\ DOMAIN b \subseteq Form12!Keys /\ (\A k \in DOMAIN b : b[k] \in Nat)
              /\ Rows12(b, t, w, d)
  <1> DEFINE b == Form12!DecomposeEEA2Workforce(w, d)
  <1>1. /\ DOMAIN b = {x \in Form12!Keys : Form12!CountIn(w, d, x) > 0}
        /\ \A k \in DOMAIN b : b[k] = Form12!CountIn(w, d, k)
    BY DEF Form12!DecomposeEEA2Workforce
  <1>2. \A k \in Form12!Keys : Form12!CountIn(w, d, k) \in Nat
    BY CountIn12
  <1> HIDE DEF b
  <1>3. QED
    BY <1>1, <1>2 DEF b, Rows12

\* The rows are prefilled from the tables there are.
LEMMA PrefilledInv12 ==
    ASSUME Inv12, NEW next, NEW s, NEW applied, Form12!Prefill(s, next, applied), step' = s, s # "c" \/ step = "c",
           DOMAIN next = {"a", "b", "c", "workforce", "disability"}, next["b"] = formState["b"],
           next["workforce"] \in Table12 \cup {Undefined},
           next["disability"] \in Table12 \cup {Undefined},
           {next["workforce"], next["disability"]} # {Undefined} =>
               OfOne12(next["workforce"], next["disability"]),
           DOMAIN linked' = {"id", "awaited"}, linked'["awaited"] => linked'["id"] \in DOMAIN Tables
    PROVE  Inv12'
  <1>1. CASE formState' = next /\ UNCHANGED <<sent, typed, basis>>
    BY <1>1 DEF Inv12
  <1>2. CASE ~(formState' = next /\ UNCHANGED <<sent, typed, basis>>)
    <2> DEFINE w == next["workforce"]
               d == next["disability"]
               b == Form12!DecomposeEEA2Workforce(w, d)
    <2>1. /\ s = "b" /\ w # Undefined /\ d # Undefined /\ DOMAIN next["b"] = {}
          /\ Form12!FillRows(next) /\ UNCHANGED typed
      BY <1>2 DEF Form12!Prefill, Form12!PrefillApplies
    <2>2. w \in Table12 /\ d \in Table12 /\ OfOne12(w, d)
      BY <2>1
    <2>3. formState' = [next EXCEPT !["b"] = b] /\ basis' = [w |-> w, d |-> d]
      BY <2>1 DEF Form12!FillRows, Form12!SetStepData
    <2>4. /\ DOMAIN formState' = {"a", "b", "c", "workforce", "disability"}
          /\ formState'["b"] = b /\ formState'["workforce"] = w /\ formState'["disability"] = d
      BY <2>3
    <2>5. DOMAIN typed' = {}
      BY <2>1 DEF Inv12
    <2>6. /\ DOMAIN b \subseteq Form12!Keys /\ (\A k \in DOMAIN b : b[k] \in Nat)
          /\ Rows12(b, typed', w, d)
      BY <2>2, <2>5, Filled12
    <2>7. basis'.w = w /\ basis'.d = d
      BY <2>3
    <2> HIDE DEF w, d, b
    <2>8. QED
      BY <2>1, <2>2, <2>4, <2>5, <2>6, <2>7 DEF Inv12
  <1>3. QED
    BY <1>1, <1>2

\* A step that only shows another section.
LEMMA ShownInv12 ==
    ASSUME Inv12, NEW s, Form12!GoTo(s)
    PROVE  Inv12'
  <1>1. step' = s /\ UNCHANGED linked
    BY DEF Form12!GoTo
  <1>2. CASE s = "c"
    <2>1. Form12!ShowComparison
      BY <1>2 DEF Form12!GoTo
    <2> DEFINE row == Form12!BuildEapComparison(formState["b"])
    <2>2. /\ formState' = [formState EXCEPT !["c"] = row] /\ sent'.form = formState'
          /\ UNCHANGED <<typed, basis>>
      BY <2>1 DEF Form12!ShowComparison, Form12!SetStepData
    <2>3. /\ DOMAIN formState' = {"a", "b", "c", "workforce", "disability"}
          /\ formState'["c"] = row /\ formState'["b"] = formState["b"]
          /\ formState'["workforce"] = formState["workforce"]
          /\ formState'["disability"] = formState["disability"]
      BY <2>2 DEF Inv12
    <2>4. sent'.form["c"] = Form12!BuildEapComparison(formState'["b"])
      BY <2>2, <2>3
    <2> HIDE DEF row
    <2>5. QED
      BY <1>1, <2>2, <2>3, <2>4 DEF Inv12
  <1>3. CASE s # "c"
    <2>1. Form12!Prefill(s, formState, FALSE)
      BY <1>3 DEF Form12!GoTo
    <2>2. QED
      BY <1>1, <1>3, <2>1, PrefilledInv12 DEF Inv12
  <1>4. QED
    BY <1>2, <1>3

\* The EEA2 that was asked for is answered.
LEMMA ArrivedInv12 ==
    ASSUME Inv12, Form12!EEA2Arrives
    PROVE  Inv12'
  <1> DEFINE id == linked["id"]
             w == Form12!Kept(Tables[id].w, formState["workforce"])
             d == Form12!Kept(Tables[id].d, formState["disability"])
             next == [formState EXCEPT !["workforce"] = w, !["disability"] = d]
  <1>1. /\ id \in DOMAIN Tables /\ linked' = [linked EXCEPT !["awaited"] = FALSE] /\ UNCHANGED step
        /\ Form12!Prefill(step, next, prefilled)
    BY DEF Form12!EEA2Arrives, Inv12
  <1>2. {Tables[id].w, Tables[id].d} \subseteq Table12 \cup {Undefined}
    BY <1>1, TablesAssumption DEF Table12
  <1>3. w \in Table12 \cup {Undefined} /\ d \in Table12 \cup {Undefined}
    BY <1>2 DEF Form12!Kept, Inv12
  <1>4. {w, d} # {Undefined} => OfOne12(w, d)
    <2>1. CASE {Tables[id].w, Tables[id].d} = {Undefined}
      BY <2>1 DEF Form12!Kept, Inv12
    <2>2. CASE {Tables[id].w, Tables[id].d} # {Undefined}
      BY <1>1, <2>2 DEF Form12!Kept, OfOne12
    <2>3. QED
      BY <2>1, <2>2
  <1>5. DOMAIN linked' = {"id", "awaited"} /\ linked'["awaited"] = FALSE
    BY <1>1 DEF Inv12
  <1>6. /\ DOMAIN next = {"a", "b", "c", "workforce", "disability"} /\ next["b"] = formState["b"]
        /\ next["workforce"] = w /\ next["disability"] = d
    BY DEF Inv12
  <1> HIDE DEF w, d, next
  <1>7. QED
    BY <1>1, <1>3, <1>4, <1>5, <1>6, PrefilledInv12

\* A figure the user enters in section B.
LEMMA TypedInv12 ==
    ASSUME Inv12, NEW k \in DOMAIN formState["b"], NEW n \in Counts, Form12!HandleRowChange(k, n)
    PROVE  Inv12'
  <1> DEFINE b == [formState["b"] EXCEPT ![k] = n]
             t == [x \in DOMAIN typed \cup {k} |-> IF x = k THEN n ELSE typed[x]]
  <1>1. /\ step = "b" /\ formState' = [formState EXCEPT !["b"] = b] /\ typed' = t
        /\ UNCHANGED <<step, linked, basis>>
    BY DEF Form12!HandleRowChange, Form12!SetStepData
  <1>2. /\ DOMAIN b = DOMAIN formState["b"]
        /\ \A x \in DOMAIN b : b[x] = IF x = k THEN n ELSE formState["b"][x]
        /\ DOMAIN t = DOMAIN typed \cup {k} /\ t[k] = n /\ \A x \in DOMAIN typed \ {k} : t[x] = typed[x]
    OBVIOUS
  <1>3. n \in Nat
    BY FiguresAssumption
  <1> HIDE DEF b, t
  <1>4. /\ DOMAIN formState' = {"a", "b", "c", "workforce", "disability"} /\ formState'["b"] = b
        /\ formState'["workforce"] = formState["workforce"]
        /\ formState'["disability"] = formState["disability"]
    BY <1>1 DEF Inv12
  <1>5. \A w, d : Rows12(formState["b"], typed, w, d) => Rows12(b, t, w, d)
    BY <1>2 DEF Rows12
  <1>6. DOMAIN b \subseteq Form12!Keys /\ (\A x \in DOMAIN b : b[x] \in Nat) /\ DOMAIN t \subseteq DOMAIN b
    BY <1>2, <1>3 DEF Inv12
  <1>7. QED
    BY <1>1, <1>4, <1>5, <1>6 DEF Inv12

\* Every step of the EEA12 keeps its invariant.
LEMMA Inv12Step == Inv12 /\ Form12!Next => Inv12'
  <1> SUFFICES ASSUME Inv12, Form12!Next PROVE Inv12'
    OBVIOUS
  <1>1. ASSUME NEW p, Form12!ChangePeriod(p) PROVE Inv12'
    BY <1>1, Same12 DEF Form12!ChangePeriod
  <1>2. ASSUME NEW id \in DOMAIN Tables, Form12!Link(id) PROVE Inv12'
    <2>1. linked' = [id |-> id, awaited |-> TRUE] /\ UNCHANGED <<step, formState, sent, typed, basis>>
      BY <1>2 DEF Form12!Link
    <2>2. DOMAIN linked' = {"id", "awaited"} /\ linked'["id"] = id
      BY <2>1
    <2>3. QED
      BY <2>1, <2>2 DEF Inv12
  <1>3. CASE Form12!EEA2Fails
    <2>1. linked' = [linked EXCEPT !["awaited"] = FALSE] /\ UNCHANGED <<step, formState, sent, typed, basis>>
      BY <1>3 DEF Form12!EEA2Fails
    <2>2. DOMAIN linked' = {"id", "awaited"} /\ linked'["awaited"] = FALSE
      BY <2>1 DEF Inv12
    <2>3. QED
      BY <2>1, <2>2 DEF Inv12
  <1>4. ASSUME NEW entries, Form12!SetEntries(entries) PROVE Inv12'
    <2>1. /\ step = "a" /\ formState' = [formState EXCEPT !["a"] = entries]
          /\ UNCHANGED <<step, linked, typed, basis>>
      BY <1>4 DEF Form12!SetEntries, Form12!SetStepData
    <2>2. /\ DOMAIN formState' = {"a", "b", "c", "workforce", "disability"}
          /\ formState'["b"] = formState["b"] /\ formState'["workforce"] = formState["workforce"]
          /\ formState'["disability"] = formState["disability"]
      BY <2>1 DEF Inv12
    <2>3. QED
      BY <2>1, <2>2 DEF Inv12
  <1>5. CASE Form12!HandleAdd \/ Form12!HandleNilReturn
    BY <1>4, <1>5 DEF Form12!HandleAdd, Form12!HandleNilReturn
  <1>6. ASSUME NEW i, Form12!HandleRemove(i) \/ Form12!HandleChange(i) PROVE Inv12'
    BY <1>4, <1>6 DEF Form12!HandleRemove, Form12!HandleChange
  <1>7. ASSUME NEW k \in DOMAIN formState["b"], NEW n \in Counts, Form12!HandleRowChange(k, n) PROVE Inv12'
    BY <1>7, TypedInv12
  <1>8. QED
    BY <1>1, <1>2, <1>3, <1>5, <1>6, <1>7, ArrivedInv12, ShownInv12 DEF Form12!Next

\* The rows of one level are finitely many.
LEMMA LevelKeys12 ==
    ASSUME NEW l \in Levels
    PROVE  IsFiniteSet({k \in Form12!Keys : k.level = l})
  <1> DEFINE S == {k \in Form12!Keys : k.level = l}
             A == Races \X BOOLEAN
             f == [p \in A |-> Form12!Key(l, p[1], p[2])]
  <1>1. IsFiniteSet(A)
    <2>1. IsFiniteSet({TRUE} \cup {FALSE})
      BY FS_Singleton, FS_Union
    <2>2. {TRUE} \cup {FALSE} = BOOLEAN
      OBVIOUS
    <2>3. IsFiniteSet(Races) /\ IsFiniteSet(BOOLEAN)
      BY <2>1, <2>2, TablesAssumption
    <2>4. QED
      BY <2>3, FS_Product
  <1>2. \A p \in A : f[p] \in S
    BY DEF Form12!Key, Form12!Keys
  <1>3. ASSUME NEW k \in S PROVE \E p \in A : f[p] = k
    <2>1. k = [level |-> l, race |-> k.race, disability |-> k.disability] /\ k.race \in Races /\ k.disability \in BOOLEAN
      BY DEF Form12!Keys
    <2>2. <<k.race, k.disability>> \in A
      BY <2>1
    <2>3. f[<<k.race, k.disability>>] = k
      BY <2>1, <2>2 DEF Form12!Key
    <2>4. QED
      BY <2>2, <2>3
  <1>4. f \in Surjection(A, S)
    BY <1>2, <1>3 DEF Surjection
  <1> HIDE DEF A, S, f
  <1>5. QED
    BY <1>1, <1>4, FS_Surjection DEF S

\* The rows are those of two tables, and how many a column has in both rows of a level.
Decomposed12(b, w, d) ==
    /\ DOMAIN b \subseteq Form12!Keys
    /\ \A k \in Form12!Keys : k \in DOMAIN b <=> Form12!CountIn(w, d, k) > 0
    /\ \A k \in DOMAIN b : b[k] = Form12!CountIn(w, d, k)
InBoth12(h, w, d, l) ==
    \A x \in Races : h[x] = Form12!CountIn(w, d, Form12!Key(l, x, TRUE))
                            + Form12!CountIn(w, d, Form12!Key(l, x, FALSE))

\* Those of one level have everybody of the two tables once, the larger of the two counts.
LEMMA LevelSum12 ==
    ASSUME NEW w \in Table12, NEW d \in Table12, NEW b, NEW l \in Levels, NEW h,
           Decomposed12(b, w, d), InBoth12(h, w, d, l),
           NEW all, all = {k \in Form12!Keys : k.level = l} \cap DOMAIN b
    PROVE  SumFunctionOnSet(b, all) = SumFunctionOnSet(h, Races)
  <1> DEFINE Of(U) == {k \in all : k.race \in U}
             T == {U \in SUBSET Races : SumFunctionOnSet(b, Of(U)) = SumFunctionOnSet(h, U)}
  <1>1. IsFiniteSet(Races)
    BY TablesAssumption
  <1> USE DEF Decomposed12, InBoth12
  <1>2. IsFiniteSet(all) /\ all \subseteq Form12!Keys
    BY LevelKeys12, FS_Subset
  <1>3. \A k \in Form12!Keys : Form12!CountIn(w, d, k) \in Nat
    BY CountIn12
  <1>4. \A k \in all : b[k] \in Int
    BY <1>3
  <1>5. \A x \in Races : h[x] \in Int
    <2>1. ASSUME NEW x \in Races PROVE h[x] \in Int
      <3>1. Form12!Key(l, x, TRUE) \in Form12!Keys /\ Form12!Key(l, x, FALSE) \in Form12!Keys
        BY DEF Form12!Key, Form12!Keys
      <3>2. /\ Form12!CountIn(w, d, Form12!Key(l, x, TRUE)) \in Nat
            /\ Form12!CountIn(w, d, Form12!Key(l, x, FALSE)) \in Nat
        BY <1>3, <3>1
      <3> DEFINE m == Form12!CountIn(w, d, Form12!Key(l, x, TRUE))
                 n == Form12!CountIn(w, d, Form12!Key(l, x, FALSE))
      <3>3. h[x] = m + n /\ m \in Nat /\ n \in Nat
        BY <3>2
      <3> HIDE DEF m, n
      <3>4. QED
        BY <3>3
    <2>2. QED
      BY <2>1
  <1>6. {} \in T
    <2>1. Of({}) = {}
      OBVIOUS
    <2>2. QED
      BY <2>1, SumEmpty
  <1>7. ASSUME NEW U \in SUBSET Races, NEW x \in Races \ U, U \in T PROVE U \cup {x} \in T
    <2> DEFINE p == Form12!Key(l, x, TRUE)
               q == Form12!Key(l, x, FALSE)
               one == Of({x})
    <2>1. p \in Form12!Keys /\ q \in Form12!Keys /\ p.level = l /\ q.level = l /\ p # q /\ p.race = x /\ q.race = x
      BY DEF Form12!Key, Form12!Keys
    <2>2. \A k \in Form12!Keys : k.level = l /\ k.race = x => k \in {p, q}
      BY DEF Form12!Key, Form12!Keys
    <2>3. one \subseteq {p, q} /\ (p \in one <=> p \in DOMAIN b) /\ (q \in one <=> q \in DOMAIN b)
      BY <2>1, <2>2
    <2>4. \A k \in one : b[k] \in Int
      BY <1>4
    <2>5. Of(U \cup {x}) = Of(U) \cup one /\ Of(U) \cap one = {}
      OBVIOUS
    <2>6. IsFiniteSet(Of(U)) /\ IsFiniteSet(one)
      <3>1. Of(U) \subseteq all /\ one \subseteq all
        OBVIOUS
      <3> HIDE DEF Of, one
      <3>2. QED
        BY <1>2, <3>1, FS_Subset
    <2>7. \A k \in Of(U) \cup one : b[k] \in Int
      BY <1>4
    <2>8. h[x] = Form12!CountIn(w, d, p) + Form12!CountIn(w, d, q)
      OBVIOUS
    <2>9. (IF p \in one THEN b[p] ELSE 0) = Form12!CountIn(w, d, p)
      <3> HIDE DEF one, p
      <3>1. CASE p \in DOMAIN b
        BY <2>3, <3>1
      <3>2. CASE p \notin DOMAIN b
        <4>1. Form12!CountIn(w, d, p) \in Nat /\ ~(Form12!CountIn(w, d, p) > 0)
          BY <1>3, <2>1, <3>2
        <4>2. Form12!CountIn(w, d, p) = 0
          BY <4>1
        <4>3. QED
          BY <2>3, <3>2, <4>2
      <3>3. QED
        BY <3>1, <3>2
    <2>10. (IF q \in one THEN b[q] ELSE 0) = Form12!CountIn(w, d, q)
      <3> HIDE DEF one, q
      <3>1. CASE q \in DOMAIN b
        BY <2>3, <3>1
      <3>2. CASE q \notin DOMAIN b
        <4>1. Form12!CountIn(w, d, q) \in Nat /\ ~(Form12!CountIn(w, d, q) > 0)
          BY <1>3, <2>1, <3>2
        <4>2. Form12!CountIn(w, d, q) = 0
          BY <4>1
        <4>3. QED
          BY <2>3, <3>2, <4>2
      <3>3. QED
        BY <3>1, <3>2
    <2>11. IsFiniteSet(U) /\ x \notin U /\ \A y \in U \cup {x} : h[y] \in Int
      BY <1>1, <1>5, FS_Subset
    <2>12. SumFunctionOnSet(b, Of(U)) = SumFunctionOnSet(h, U)
      BY <1>7
    <2> HIDE DEF one, Of, T, p, q
    <2>13. SumFunctionOnSet(b, one) = (IF p \in one THEN b[p] ELSE 0) + (IF q \in one THEN b[q] ELSE 0)
      BY <2>1, <2>3, <2>4, SumOfTwo
    <2>14. SumFunctionOnSet(b, one) = h[x]
      BY <2>8, <2>9, <2>10, <2>13
    <2>15. SumFunctionOnSet(b, Of(U \cup {x})) = SumFunctionOnSet(b, Of(U)) + SumFunctionOnSet(b, one)
      <3> DEFINE before == Of(U)
                 after == Of(U \cup {x})
      <3>1. /\ after = before \cup one /\ before \cap one = {} /\ IsFiniteSet(before) /\ IsFiniteSet(one)
            /\ \A k \in before \cup one : b[k] \in Int
        BY <2>5, <2>6, <2>7
      <3> HIDE DEF before, after
      <3>2. SumFunctionOnSet(b, before \cup one) = SumFunctionOnSet(b, before) + SumFunctionOnSet(b, one)
        BY <3>1, SumUnion
      <3>3. QED
        BY <3>1, <3>2 DEF before, after
    <2>16. SumFunctionOnSet(h, U \cup {x}) = h[x] + SumFunctionOnSet(h, U)
      BY <2>11, SumAdd
    <2>17. SumFunctionOnSet(h, U) \in Int /\ h[x] \in Int
      BY <2>11, SumInt
    <2> DEFINE left == SumFunctionOnSet(b, Of(U \cup {x}))
               right == SumFunctionOnSet(h, U \cup {x})
               sum == SumFunctionOnSet(h, U)
    <2>18. left = sum + h[x] /\ right = h[x] + sum /\ sum \in Int /\ h[x] \in Int
      BY <2>12, <2>14, <2>15, <2>16, <2>17
    <2> HIDE DEF left, right, sum
    <2>19. left = right
      BY <2>18
    <2>20. QED
      BY <2>19 DEF T, left, right
  <1>8. Races \in T
    <2> HIDE DEF T
    <2>1. QED
      BY <1>1, <1>6, <1>7, SetInduction
  <1>9. Of(Races) = all
    BY DEF Form12!Keys
  <1>10. QED
    BY <1>8, <1>9

\* A level diverges by its foreign nationals, and by those with a disability who do not work.
LEMMA Diverging12 ==
    ASSUME NEW w \in Table12, NEW d \in Table12, NEW b,
           Decomposed12(b, w, d), w # Undefined
    PROVE  Form12!ComputeDivergingLevels(b, w) =
              {l \in Levels : w[l]["foreign"] # Form12!SumFunction(
                  [r \in Races |-> Form12!Max({0, d[l][r] - w[l][r]})])}
  <1>1. ASSUME NEW l \in Levels
        PROVE  Form12!SumOf(b, {k \in Form12!Keys : k.level = l}) # Form12!TableTotal(w, l)
               <=> w[l]["foreign"] # Form12!SumFunction([r \in Races |-> Form12!Max({0, d[l][r] - w[l][r]})])
    <2> DEFINE row == w[l]
               more == [r \in Races |-> Form12!Max({0, d[l][r] - w[l][r]})]
               h == [r \in Races |-> more[r] + row[r]]
    <2>1. IsFiniteSet(Races) /\ "foreign" \notin Races
      BY TablesAssumption
    <2>2. \A r \in Races \cup {"foreign"} : w[l][r] \in Nat /\ d[l][r] \in Nat
      BY DEF Table12, Form12!Columns
    <2>3. \A r \in Races : more[r] = IF d[l][r] - w[l][r] > 0 THEN d[l][r] - w[l][r] ELSE 0
      <3>1. \A r \in Races : d[l][r] - w[l][r] \in Int
        BY <2>2
      <3>2. QED
        BY <3>1, MaxOfZero12
    <2>4. ASSUME NEW r \in Races
          PROVE  h[r] = Form12!CountIn(w, d, Form12!Key(l, r, TRUE)) + Form12!CountIn(w, d, Form12!Key(l, r, FALSE))
      <3> DEFINE p == Form12!Key(l, r, TRUE)
                 q == Form12!Key(l, r, FALSE)
      <3>1. /\ p \in Form12!Keys /\ p.level = l /\ p.race = r /\ p.disability = TRUE
            /\ q \in Form12!Keys /\ q.level = l /\ q.race = r /\ q.disability = FALSE
        BY DEF Form12!Key, Form12!Keys
      <3> HIDE DEF p, q
      <3>2. /\ Form12!CountIn(w, d, p) = d[l][r]
            /\ Form12!CountIn(w, d, q) = IF w[l][r] > d[l][r] THEN w[l][r] - d[l][r] ELSE 0
        BY <3>1, CountIn12
      <3>3. w[l][r] \in Nat /\ d[l][r] \in Nat /\ h[r] = more[r] + w[l][r]
        BY <2>2
      <3> HIDE DEF h, more
      <3> DEFINE here == w[l][r]
                 there == d[l][r]
                 cp == Form12!CountIn(w, d, p)
                 cq == Form12!CountIn(w, d, q)
      <3>4. /\ cp = there /\ cq = IF here > there THEN here - there ELSE 0
            /\ here \in Nat /\ there \in Nat /\ h[r] = more[r] + here
            /\ more[r] = IF there - here > 0 THEN there - here ELSE 0
        BY <2>3, <3>2, <3>3
      <3> HIDE DEF here, there, cp, cq
      <3>5. h[r] = cp + cq
        BY <3>4
      <3>6. QED
        BY <3>5 DEF cp, cq, p, q
    <2>5. Form12!SumOf(b, {k \in Form12!Keys : k.level = l}) = SumFunctionOnSet(h, Races)
      <3> HIDE DEF h
      <3> DEFINE all == {k \in Form12!Keys : k.level = l} \cap DOMAIN b
      <3>0. all = {k \in Form12!Keys : k.level = l} \cap DOMAIN b
        OBVIOUS
      <3> HIDE DEF all
      <3>1. SumFunctionOnSet(b, all) = SumFunctionOnSet(h, Races)
        <4>1. InBoth12(h, w, d, l)
          BY <2>4 DEF InBoth12
        <4>2. QED
          BY <3>0, <4>1, LevelSum12
      <3>2. QED
        BY <3>1, SameSum DEF Form12!SumOf, all
    <2>6. \A r \in Races : more[r] \in Int /\ row[r] \in Int /\ h[r] = more[r] + row[r]
      BY <2>2, <2>3
    <2>7. Form12!TableTotal(w, l) = SumFunctionOnSet(row, Races \cup {"foreign"})
      BY SameSum DEF Form12!TableTotal, Form12!Columns
    <2>8. Form12!SumFunction(more) = SumFunctionOnSet(more, Races)
      BY SameSums
    <2>9. \A r \in Races \cup {"foreign"} : row[r] \in Int
      BY <2>2
    <2> HIDE DEF row, more, h
    <2>10. SumFunctionOnSet(h, Races) = SumFunctionOnSet(more, Races) + SumFunctionOnSet(row, Races)
      BY <2>1, <2>6, SumOfSums
    <2>11. SumFunctionOnSet(row, Races \cup {"foreign"}) = row["foreign"] + SumFunctionOnSet(row, Races)
      BY <2>1, <2>9, SumAdd
    <2>12. SumFunctionOnSet(more, Races) \in Int /\ SumFunctionOnSet(row, Races) \in Int
      BY <2>1, <2>6, SumInt
    <2> DEFINE sm == SumFunctionOnSet(more, Races)
               sr == SumFunctionOnSet(row, Races)
               left == Form12!SumOf(b, {k \in Form12!Keys : k.level = l})
               right == Form12!TableTotal(w, l)
               fo == row["foreign"]
               su == Form12!SumFunction(more)
    <2>13. left = sm + sr /\ right = fo + sr /\ sm \in Int /\ sr \in Int /\ fo \in Int /\ su = sm
      BY <2>5, <2>7, <2>8, <2>9, <2>10, <2>11, <2>12
    <2> HIDE DEF sm, sr, left, right, fo, su
    <2>14. left # right <=> fo # su
      BY <2>13
    <2>15. QED
      BY <2>14 DEF left, right, fo, su, row, more
  <1>2. QED
    BY <1>1 DEF Form12!ComputeDivergingLevels

\* The rows of section B are what the user entered or the tables have.
LEMMA Sources12 == Inv12 => Form12!ProfileIsOfItsSources
  <1> SUFFICES ASSUME Inv12, basis # Undefined PROVE Form12!ProfileIsOfItsSources
    BY DEF Form12!ProfileIsOfItsSources
  <1> DEFINE w == basis.w
             d == basis.d
             b == formState["b"]
  <1>1. /\ w \in Table12 /\ d \in Table12 /\ OfOne12(w, d) /\ Rows12(b, typed, w, d)
        /\ w # Undefined /\ DOMAIN b \subseteq Form12!Keys
    BY DEF Inv12
  <1> HIDE DEF w, d, b
  <1>2. \A k \in Form12!Keys :
           /\ w[k.level][k.race] \in Nat /\ d[k.level][k.race] \in Nat
           /\ Form12!CountIn(w, d, k) =
                 IF k.disability THEN d[k.level][k.race]
                 ELSE IF w[k.level][k.race] > d[k.level][k.race]
                      THEN w[k.level][k.race] - d[k.level][k.race] ELSE 0
    BY <1>1, CountIn12
  <1>3. ASSUME NEW k \in Form12!Keys
        PROVE  k \in DOMAIN b <=> (IF k.disability THEN d[k.level][k.race] > 0
                                   ELSE w[k.level][k.race] > d[k.level][k.race])
    <2>1. k \in DOMAIN b <=> Form12!CountIn(w, d, k) > 0
      BY <1>1 DEF Rows12
    <2>2. QED
      BY <1>2, <2>1
  <1>4. ASSUME NEW k \in DOMAIN b
        PROVE  b[k] = IF k \in DOMAIN typed THEN typed[k]
                      ELSE IF k.disability THEN d[k.level][k.race]
                      ELSE w[k.level][k.race] - d[k.level][k.race]
    <2>1. k \in Form12!Keys /\ b[k] = IF k \in DOMAIN typed THEN typed[k] ELSE Form12!CountIn(w, d, k)
      BY <1>1 DEF Rows12
    <2>2. k.disability \/ w[k.level][k.race] > d[k.level][k.race]
      BY <1>3, <2>1
    <2>3. Form12!CountIn(w, d, k) = IF k.disability THEN d[k.level][k.race]
                                    ELSE w[k.level][k.race] - d[k.level][k.race]
      BY <1>2, <2>1, <2>2
    <2>4. QED
      BY <2>1, <2>3
  <1>5. ASSUME typed = << >>
        PROVE  Form12!ComputeDivergingLevels(b, w) =
                  {l \in Levels : w[l]["foreign"] # Form12!SumFunction(
                      [r \in Races |-> Form12!Max({0, d[l][r] - w[l][r]})])}
    <2>1. DOMAIN typed = {}
      BY <1>5
    <2>2. \A k \in Form12!Keys : k \in DOMAIN b <=> Form12!CountIn(w, d, k) > 0
      BY <1>1 DEF Rows12
    <2>3. \A k \in DOMAIN b : b[k] = Form12!CountIn(w, d, k)
      BY <1>1, <2>1 DEF Rows12
    <2>4. QED
      BY <1>1, <2>2, <2>3, Diverging12 DEF Decomposed12
  <1>6. QED
    BY <1>1, <1>3, <1>4, <1>5 DEF Form12!ProfileIsOfItsSources, w, d, b, OfOne12, Form12!None

\* A quotient is the last multiple that is not above.
LEMMA Quotient ==
    ASSUME NEW a \in Int, NEW m \in Int, m > 0
    PROVE  a \div m \in Int /\ m * (a \div m) <= a /\ a < m * (a \div m) + m
  OBVIOUS

\* A share is rounded to the nearest tenth.
LEMMA Share12 ==
    ASSUME NEW part \in Nat, NEW whole \in Nat, part <= whole
    PROVE  LET share == Form12!SharePct(part, whole)
           IN /\ share \in Int /\ (whole = 0 => share = 0)
              /\ 2 * (share * whole - 1000 * part) \in (-whole)..whole
  <1> DEFINE share == Form12!SharePct(part, whole)
  <1>1. CASE whole = 0
    <2>1. share = 0 /\ part = 0
      BY <1>1 DEF Form12!SharePct
    <2> HIDE DEF share
    <2>2. share * whole = 0
      BY <1>1, <2>1
    <2>3. QED
      BY <1>1, <2>1, <2>2 DEF share
  <1>2. CASE whole # 0
    <2> DEFINE a == 2000 * part + whole
               m == 2 * whole
               q == a \div m
    <2>1. share = q
      BY <1>2 DEF Form12!SharePct
    <2>2. a \in Int /\ m \in Int /\ m > 0
      BY <1>2
    <2> HIDE DEF a, m
    <2>3. q \in Int /\ m * q <= a /\ a < m * q + m
      BY <2>2, Quotient
    <2> HIDE DEF q, share
    <2> DEFINE t == q * whole
    <2>4. t \in Int /\ m * q = 2 * t
      BY <2>3 DEF m
    <2> HIDE DEF t
    <2>5. 2 * (t - 1000 * part) \in (-whole)..whole
      BY <2>3, <2>4 DEF a, m
    <2>6. share * whole = t
      BY <2>1 DEF t
    <2>7. QED
      BY <1>2, <2>1, <2>3, <2>5, <2>6 DEF share
  <1>3. QED
    BY <1>1, <1>2

\* Only what is not below is met.
LEMMA Classify12 == \A delta \in Int : Form12!Classify(delta) = "met" <=> delta >= 0
  BY DEF Form12!Classify

\* The comparison on the screen is that of the rows.
LEMMA Comparison12 == Inv12 => Form12!ComparisonIsOfTheRows
  <1> SUFFICES ASSUME Inv12, step = "c", NEW l \in Levels
               PROVE  LET everyone == Form12!SumOf(formState.b, {k \in Form12!Keys : k.level = l})
                          desig == Form12!SumOf(formState.b,
                                       {k \in Form12!Keys : k.level = l /\ k.race \in Designated})
                          row == sent.form.c[l]
                      IN /\ 2 * (row.actual * everyone - 1000 * desig) \in (-everyone)..everyone
                         /\ Form12!Classify(row.gap) = "met" <=> row.actual >= Form12!EapDesignatedPct
                         /\ everyone = 0 => row.actual = 0
    BY SMTT(30) DEF Form12!ComparisonIsOfTheRows
  <1> DEFINE b == formState["b"]
             all == {k \in Form12!Keys : k.level = l}
             some == {k \in Form12!Keys : k.level = l /\ k.race \in Designated}
             S == all \cap DOMAIN b
             U == some \cap DOMAIN b
             everyone == Form12!SumOf(b, all)
             desig == Form12!SumOf(b, some)
             row == sent.form["c"][l]
             share == Form12!SharePct(desig, everyone)
             eap == Form12!EapDesignatedPct
  <1>1. row = [actual |-> share, eap |-> eap, gap |-> share - eap]
    BY DEF Inv12, Form12!BuildEapComparison, Form12!ActualDesignatedPct
  <1>2. everyone = SumFunctionOnSet(b, S) /\ desig = SumFunctionOnSet(b, U)
    BY SameSum DEF Form12!SumOf
  <1>3. U \in SUBSET S /\ \A k \in S : b[k] \in Nat
    BY DEF Inv12
  <1>4. IsFiniteSet(S)
    BY LevelKeys12, FS_Subset
  <1> HIDE DEF b, S, U, row, share, eap
  <1>5. everyone \in Nat /\ desig \in Nat /\ desig <= everyone
    <2>1. /\ SumFunctionOnSet(b, U) \in Nat
          /\ SumFunctionOnSet(b, U) <= SumFunctionOnSet(b, S)
      BY <1>3, <1>4, SumOfPart
    <2>2. SumFunctionOnSet(b, S) \in Nat
      BY <1>3, <1>4, SumNat
    <2>3. QED
      BY <1>2, <2>1, <2>2
  <1> HIDE DEF everyone, desig
  <1>6. share \in Int /\ (everyone = 0 => share = 0) /\ 2 * (share * everyone - 1000 * desig) \in (-everyone)..everyone
    BY <1>5, Share12 DEF share
  <1>7. eap \in Int
    <2>1. IsFiniteSet(Designated) /\ \A r \in Designated : EapPct[r] \in Int
      BY TablesAssumption, FS_Subset
    <2>2. SumFunctionOnSet(EapPct, Designated) \in Int
      BY <2>1, SumInt
    <2>3. QED
      BY <2>2, SameSum DEF eap, Form12!EapDesignatedPct
  <1>8. row.actual = share /\ row.gap = share - eap
    BY <1>1
  <1>9. Form12!Classify(row.gap) = "met" <=> share >= eap
    <2>1. row.gap \in Int /\ (row.gap >= 0 <=> share >= eap)
      BY <1>6, <1>7, <1>8
    <2>2. QED
      BY <2>1, Classify12
  <1>10. QED
    BY <1>6, <1>8, <1>9 DEF row, eap, b, everyone, desig

(***************************************************************************)
(* EEA4: the matrices of sections C and D, and what is signed.              *)
(***************************************************************************)
\* A matrix of the EEA4 with its totals, and one that need not have them.
Cells4(g) == IsGrid(g, Form4!Permanent, TemporaryRow, Form4!Demo)
Matrix4(g) == Cells4(g) /\ Totalled(g, Form4!Permanent, TemporaryRow, Form4!Demo)

\* Rows and columns, by both names.
LEMMA SameGrid4 ==
    /\ Form4!Rows = RowsOf(Form4!Permanent, TemporaryRow) /\ Form4!Cols = ColsOf(Form4!Demo)
    /\ Form4!Editable \subseteq Form4!Rows /\ Form4!Demo \subseteq Form4!Cols
    /\ Form4!Permanent \subseteq Form4!Editable /\ TemporaryRow \in Form4!Editable
    /\ Form4!Rows = Form4!Editable \cup {"totalPermanent", "grandTotal"}
    /\ Form4!Cols = Form4!Demo \cup {"total"}
  BY Frame4 DEF Form4!Rows, Form4!Cols, RowsOf, ColsOf, Frame

\* The computed matrix, in the words of the form.
LEMMA Computed4 ==
    ASSUME NEW data, \A r \in Form4!Editable :
              DOMAIN data[r] = Form4!Cols /\ \A c \in Form4!Demo : data[r][c] \in Nat
    PROVE  LET g == Form4!ComputeGridTotals(data)
           IN Matrix4(g) /\ \A r \in Form4!Editable, c \in Form4!Demo : g[r][c] = data[r][c]
  <1>1. Form4!ComputeGridTotals(data) =
            Computed(data, Form4!Permanent, TemporaryRow, Form4!Editable, Form4!Demo)
    BY SameTotals
  <1>2. \A r \in Form4!Editable :
           DOMAIN data[r] = ColsOf(Form4!Demo) /\ \A c \in Form4!Demo : data[r][c] \in Nat
    BY SameGrid4
  <1>3. QED
    BY <1>1, <1>2, Frame4, ComputedTotalled DEF Matrix4, Cells4

\* A matrix of zeros.
LEMMA Zeros4 == Matrix4(Form4!ZeroGrid)
  <1>1. Form4!ZeroGrid = [r \in RowsOf(Form4!Permanent, TemporaryRow) |-> [c \in ColsOf(Form4!Demo) |-> 0]]
    BY SameGrid4 DEF Form4!ZeroGrid
  <1>2. QED
    BY <1>1, Frame4, ZerosTotalled DEF Matrix4, Cells4

\* The cells are numbers.
LEMMA CellsAreNumbers4 ==
    ASSUME NEW g, Cells4(g)
    PROVE  /\ DOMAIN g = Form4!Rows
           /\ \A r \in Form4!Rows : DOMAIN g[r] = Form4!Cols /\ \A c \in Form4!Cols : g[r][c] \in Nat
  BY SameGrid4 DEF Cells4, IsGrid

\* What is nowhere above zero sums up to zero, and what sums up to zero is nowhere above it.
LEMMA SumOfZeros ==
    ASSUME NEW f, NEW S, IsFiniteSet(S)
    PROVE  /\ (\A x \in S : f[x] = 0) => SumFunctionOnSet(f, S) = 0
           /\ (\A x \in S : f[x] \in Nat) /\ SumFunctionOnSet(f, S) = 0 => \A x \in S : f[x] = 0
  <1>1. ASSUME \A x \in S : f[x] = 0 PROVE SumFunctionOnSet(f, S) = 0
    <2>1. \A x \in S : f[x] \in Int /\ f[x] \in Int /\ f[x] = f[x] + f[x]
      BY <1>1
    <2>2. SumFunctionOnSet(f, S) = SumFunctionOnSet(f, S) + SumFunctionOnSet(f, S)
      BY <2>1, SumOfSums
    <2>3. SumFunctionOnSet(f, S) \in Int
      BY <2>1, SumInt
    <2> DEFINE sum == SumFunctionOnSet(f, S)
    <2> HIDE DEF sum
    <2>4. sum \in Int /\ sum = sum + sum => sum = 0
      OBVIOUS
    <2>5. QED
      BY <2>2, <2>3, <2>4 DEF sum
  <1>2. ASSUME \A x \in S : f[x] \in Nat, SumFunctionOnSet(f, S) = 0, NEW x \in S PROVE f[x] = 0
    <2>1. f[x] <= SumFunctionOnSet(f, S) /\ f[x] \in Nat
      BY <1>2, SumBounds
    <2>2. QED
      BY <1>2, <2>1
  <1>3. QED
    BY <1>1, <1>2

\* Where one sum is zero, so is one of what is zero wherever the other's parts are.
LEMMA SumsOfZeros ==
    ASSUME NEW f, NEW g, NEW S, IsFiniteSet(S),
           \A x \in S : f[x] \in Nat /\ (f[x] = 0 => g[x] = 0), SumFunctionOnSet(f, S) = 0
    PROVE  SumFunctionOnSet(g, S) = 0
  <1>1. \A x \in S : f[x] = 0
    BY SumOfZeros
  <1>2. \A x \in S : g[x] = 0
    BY <1>1
  <1>3. QED
    BY <1>2, SumOfZeros

\* Nobody is paid who is not there, in the totals either.
NobodyIsPaid(h, p) == \A r \in Form4!Rows, c \in Form4!Cols : h[r][c] = 0 => p[r][c] = 0

\* Where no cell without heads is paid, no total without heads is.
LEMMA NobodyIsPaid4 ==
    ASSUME NEW h, NEW p, Matrix4(h), Matrix4(p),
           \A r \in Form4!Editable, c \in Form4!Demo : h[r][c] = 0 => p[r][c] = 0
    PROVE  NobodyIsPaid(h, p)
  <1> DEFINE P == Form4!Permanent
             E == Form4!Editable
             D == Form4!Demo
             t == TemporaryRow
  <1>1. /\ E = P \cup {t} /\ IsFiniteSet(P) /\ IsFiniteSet(D)
    BY Frame4 DEF Frame
  <1>2. /\ Form4!Rows = E \cup {"totalPermanent", "grandTotal"} /\ Form4!Cols = D \cup {"total"}
        /\ RowsOf(P, t) = Form4!Rows
    BY SameGrid4
  <1>3. \A r \in Form4!Rows, c \in Form4!Cols : h[r][c] \in Nat /\ p[r][c] \in Nat
    BY CellsAreNumbers4 DEF Matrix4
  <1>4. Totalled(h, P, t, D) /\ Totalled(p, P, t, D)
    BY DEF Matrix4
  <1>5. \A r \in E, c \in D : h[r][c] = 0 => p[r][c] = 0
    OBVIOUS
  <1> HIDE DEF P, E, D, t
  <1>6. ASSUME NEW c \in D
        PROVE  /\ h["totalPermanent"][c] = 0 => p["totalPermanent"][c] = 0
               /\ h["grandTotal"][c] = 0 => p["grandTotal"][c] = 0
    <2>1. /\ h["totalPermanent"][c] = SumFunctionOnSet(Column(h, P, c), P)
          /\ p["totalPermanent"][c] = SumFunctionOnSet(Column(p, P, c), P)
          /\ h["grandTotal"][c] = h["totalPermanent"][c] + h[t][c]
          /\ p["grandTotal"][c] = p["totalPermanent"][c] + p[t][c]
      BY <1>4 DEF Totalled
    <2>2. h["totalPermanent"][c] = 0 => p["totalPermanent"][c] = 0
      <3> SUFFICES ASSUME h["totalPermanent"][c] = 0 PROVE p["totalPermanent"][c] = 0
        OBVIOUS
      <3> DEFINE f == Column(h, P, c)
                 g == Column(p, P, c)
      <3>1. \A r \in P : f[r] \in Nat /\ (f[r] = 0 => g[r] = 0)
        BY <1>1, <1>2, <1>3, <1>5 DEF Column
      <3> HIDE DEF f, g
      <3>2. SumFunctionOnSet(f, P) = 0
        BY <2>1 DEF f
      <3>3. SumFunctionOnSet(g, P) = 0
        BY <1>1, <3>1, <3>2, SumsOfZeros
      <3>4. QED
        BY <2>1, <3>3 DEF g
    <2>3. h["grandTotal"][c] = 0 => p["grandTotal"][c] = 0
      <3>1. /\ h["totalPermanent"][c] \in Nat /\ h[t][c] \in Nat /\ (h[t][c] = 0 => p[t][c] = 0)
        BY <1>1, <1>2, <1>3, <1>5
      <3>2. h["grandTotal"][c] = 0 => h["totalPermanent"][c] = 0 /\ h[t][c] = 0
        BY <2>1, <3>1
      <3>3. QED
        BY <2>1, <2>2, <3>1, <3>2
    <2>4. QED
      BY <2>2, <2>3
  <1>7. \A r \in Form4!Rows, c \in D : h[r][c] = 0 => p[r][c] = 0
    BY <1>2, <1>5, <1>6
  <1>8. ASSUME NEW r \in Form4!Rows, h[r]["total"] = 0 PROVE p[r]["total"] = 0
    <2> DEFINE f == h[r]
               g == p[r]
    <2>1. f["total"] = SumFunctionOnSet(f, D) /\ g["total"] = SumFunctionOnSet(g, D)
      BY <1>2, <1>4 DEF Totalled
    <2>2. \A c \in D : f[c] \in Nat /\ (f[c] = 0 => g[c] = 0)
      BY <1>2, <1>3, <1>7
    <2>3. f["total"] = 0
      BY <1>8
    <2> HIDE DEF f, g
    <2>4. SumFunctionOnSet(g, D) = 0
      BY <1>1, <2>1, <2>2, <2>3, SumsOfZeros
    <2>5. QED
      BY <2>1, <2>4 DEF g
  <1>9. QED
    BY <1>2, <1>7, <1>8 DEF NobodyIsPaid

SectionC4(m) ==
    /\ DOMAIN m = {"headcount", "remuneration"}
    /\ Matrix4(m["headcount"]) /\ Matrix4(m["remuneration"])
    /\ NobodyIsPaid(m["headcount"], m["remuneration"])
SectionD4(m) ==
    /\ DOMAIN m = {"fixed", "variable"}
    /\ Matrix4(m["fixed"]) /\ Matrix4(m["variable"])
Section4(s, m) == IF s = "c" THEN SectionC4(m) ELSE SectionD4(m)

\* The head counts are those of the source; nothing is left of the locked rows.
HeadsOf4(m, source) == \A r \in Form4!Editable, c \in Form4!Demo : m["headcount"][r][c] = source[r][c]
Unpaid4(m, frozen) ==
    \A r \in frozen \cap Form4!Editable, c \in Form4!Cols : m["fixed"][r][c] = 0 /\ m["variable"][r][c] = 0

\* What section C makes of head counts and of what is entered beside them.
LEMMA MadeC4 ==
    ASSUME NEW h, Cells4(h), NEW p, Cells4(p)
    PROVE  LET m == Form4!ComputeSectionCTotals(Form4!NormaliseAgainstHeadcount(Form4!SectionC(h, p)))
           IN SectionC4(m) /\ HeadsOf4(m, h)
  <1> DEFINE q == [r \in Form4!Rows |-> [c \in Form4!Cols |-> IF h[r][c] = 0 THEN 0 ELSE p[r][c]]]
             hs == Form4!ComputeGridTotals(h)
             ps == Form4!ComputeGridTotals(q)
             m == Form4!ComputeSectionCTotals(Form4!NormaliseAgainstHeadcount(Form4!SectionC(h, p)))
  <1>1. m = [headcount |-> hs, remuneration |-> ps]
    BY DEF Form4!ComputeSectionCTotals, Form4!NormaliseAgainstHeadcount, Form4!SectionC
  <1>2. \A r \in Form4!Rows : /\ DOMAIN h[r] = Form4!Cols /\ DOMAIN p[r] = Form4!Cols
                              /\ \A c \in Form4!Cols : h[r][c] \in Nat /\ p[r][c] \in Nat
    BY CellsAreNumbers4
  <1>3. \A r \in Form4!Rows : /\ DOMAIN q[r] = Form4!Cols
                              /\ \A c \in Form4!Cols : q[r][c] \in Nat /\ (h[r][c] = 0 => q[r][c] = 0)
    BY <1>2
  <1> HIDE DEF m, q
  <1>4. Matrix4(hs) /\ \A r \in Form4!Editable, c \in Form4!Demo : hs[r][c] = h[r][c]
    BY <1>2, SameGrid4, Computed4
  <1>5. Matrix4(ps) /\ \A r \in Form4!Editable, c \in Form4!Demo : ps[r][c] = q[r][c]
    BY <1>3, SameGrid4, Computed4
  <1> HIDE DEF hs, ps
  <1>6. \A r \in Form4!Editable, c \in Form4!Demo : hs[r][c] = 0 => ps[r][c] = 0
    BY <1>3, <1>4, <1>5, SameGrid4
  <1>7. NobodyIsPaid(hs, ps)
    BY <1>4, <1>5, <1>6, NobodyIsPaid4
  <1>8. DOMAIN m = {"headcount", "remuneration"} /\ m["headcount"] = hs /\ m["remuneration"] = ps
    BY <1>1
  <1>9. QED
    BY <1>4, <1>5, <1>7, <1>8 DEF SectionC4, HeadsOf4, m

\* What the sections D1 and D2 make of what is entered.
LEMMA MadeD4 ==
    ASSUME NEW given, Cells4(given["fixed"]), Cells4(given["variable"]), NEW frozen
    PROVE  LET m == Form4!ComputeBreakdownTotals(Form4!NormaliseBreakdown(given, frozen))
           IN SectionD4(m) /\ Unpaid4(m, frozen)
  <1> DEFINE Unlocked(g) == [r \in Form4!Rows |-> IF r \in frozen THEN Form4!ZeroGrid[r] ELSE g[r]]
             fs == Form4!ComputeGridTotals(Unlocked(given["fixed"]))
             vs == Form4!ComputeGridTotals(Unlocked(given["variable"]))
             m == Form4!ComputeBreakdownTotals(Form4!NormaliseBreakdown(given, frozen))
  <1>1. m = [fixed |-> fs, variable |-> vs]
    BY DEF Form4!ComputeBreakdownTotals, Form4!NormaliseBreakdown, Form4!SectionD
  <1>2. ASSUME NEW g, Cells4(g)
        PROVE  LET new == Form4!ComputeGridTotals(Unlocked(g))
               IN Matrix4(new) /\ \A r \in frozen \cap Form4!Editable, c \in Form4!Cols : new[r][c] = 0
    <2> DEFINE u == Unlocked(g)
               new == Form4!ComputeGridTotals(u)
    <2>1. \A r \in Form4!Rows : DOMAIN g[r] = Form4!Cols /\ \A c \in Form4!Cols : g[r][c] \in Nat
      BY <1>2, CellsAreNumbers4
    <2>2. \A r \in Form4!Rows : /\ DOMAIN u[r] = Form4!Cols /\ \A c \in Form4!Cols : u[r][c] \in Nat
                                /\ r \in frozen => \A c \in Form4!Cols : u[r][c] = 0
      BY <2>1 DEF Form4!ZeroGrid
    <2> HIDE DEF u
    <2>3. Matrix4(new) /\ \A r \in Form4!Editable, c \in Form4!Demo : new[r][c] = u[r][c]
      BY <2>2, SameGrid4, Computed4
    <2> HIDE DEF new
    <2>4. ASSUME NEW r \in frozen \cap Form4!Editable PROVE \A c \in Form4!Cols : new[r][c] = 0
      <3>1. \A c \in Form4!Demo : new[r][c] = 0
        BY <2>2, <2>3, SameGrid4
      <3>2. new[r]["total"] = SumFunctionOnSet(new[r], Form4!Demo)
        BY <2>3, SameGrid4 DEF Matrix4, Totalled
      <3>3. IsFiniteSet(Form4!Demo)
        BY Frame4 DEF Frame
      <3>4. SumFunctionOnSet(new[r], Form4!Demo) = 0
        BY <3>1, <3>3, SumOfZeros
      <3>5. QED
        BY <3>1, <3>2, <3>4, SameGrid4
    <2>5. QED
      BY <2>3, <2>4 DEF new, u
  <1> HIDE DEF Unlocked
  <1>3. /\ Matrix4(fs) /\ \A r \in frozen \cap Form4!Editable, c \in Form4!Cols : fs[r][c] = 0
        /\ Matrix4(vs) /\ \A r \in frozen \cap Form4!Editable, c \in Form4!Cols : vs[r][c] = 0
    BY <1>2
  <1> HIDE DEF fs, vs, m
  <1>4. DOMAIN m = {"fixed", "variable"} /\ m["fixed"] = fs /\ m["variable"] = vs
    BY <1>1
  <1>5. QED
    BY <1>3, <1>4 DEF SectionD4, Unpaid4, m

\* The figures of a section on the screen: they add up, and follow the linked Table 1.1.
Correct4(s, m, source) ==
    /\ Section4(s, m)
    /\ s = "c" => HeadsOf4(m, source)
    /\ s = "d2" => Unpaid4(m, Form4!SingleEmployeeRows(source))

Table4(g) == g = Undefined \/ Cells4(g)

Inv4 ==
    /\ DOMAIN formState = {"c", "d1", "d2", "e", "eea2"}
    /\ DOMAIN report = {"linked", "c", "d1", "d2", "e", "declared", "status"}
    /\ Table4(formState["eea2"]) /\ \A id \in DOMAIN available : Table4(available[id])
    /\ \A s \in Form4!MatrixSteps :
          /\ formState[s] = Undefined \/ Section4(s, formState[s])
          /\ report[s] = Undefined \/ Section4(s, report[s])
    /\ step \in Form4!MatrixSteps /\ report["linked"] # Undefined =>
          /\ Correct4(step, local, Form4!Source(formState))
          /\ Correct4(step, report[step], Form4!Source(formState))
    /\ Form4!Signed => Form4!IsLinked
    /\ Form4!SignedOverSoundFigures

\* The source of the head counts is a matrix.
LEMMA Source4 == ASSUME NEW fs, Table4(fs["eea2"]) PROVE Cells4(Form4!Source(fs))
  BY Zeros4 DEF Table4, Form4!Source, Matrix4

\* What a section makes of its figures when it is shown.
LEMMA Recomputed4 ==
    ASSUME NEW s \in Form4!MatrixSteps, NEW source, Cells4(source), NEW figures,
           figures = Undefined \/ Section4(s, figures)
    PROVE  Correct4(s, Form4!Recomputed(s, source, figures), source)
  <1> DEFINE new == Form4!Recomputed(s, source, figures)
  <1>1. CASE s = "c"
    <2> DEFINE p == IF figures = Undefined THEN Form4!ZeroGrid ELSE figures["remuneration"]
    <2>1. new = Form4!ComputeSectionCTotals(Form4!NormaliseAgainstHeadcount(Form4!SectionC(source, p)))
      BY <1>1 DEF Form4!Recomputed, Form4!PrefillSectionC
    <2>2. Cells4(p)
      BY <1>1, Zeros4 DEF Section4, SectionC4, Matrix4
    <2> HIDE DEF p, new
    <2>3. SectionC4(new) /\ HeadsOf4(new, source)
      BY <2>1, <2>2, MadeC4
    <2>4. QED
      BY <1>1, <2>3 DEF Correct4, Section4, new
  <1>2. CASE s # "c"
    <2> DEFINE given == IF figures = Undefined THEN Form4!SectionD(Form4!ZeroGrid, Form4!ZeroGrid) ELSE figures
               frozen == Form4!LockedRows(s, source)
    <2>1. new = Form4!ComputeBreakdownTotals(Form4!NormaliseBreakdown(given, frozen))
      BY <1>2 DEF Form4!Recomputed
    <2>2. Cells4(given["fixed"]) /\ Cells4(given["variable"])
      BY <1>2, Zeros4 DEF Section4, SectionD4, Matrix4, Form4!SectionD
    <2>3. s = "d2" => frozen = Form4!SingleEmployeeRows(source)
      BY DEF Form4!LockedRows
    <2> HIDE DEF given, new, frozen
    <2>4. SectionD4(new) /\ Unpaid4(new, frozen)
      BY <2>1, <2>2, MadeD4
    <2>5. QED
      BY <1>2, <2>3, <2>4 DEF Correct4, Section4, new
  <1>3. QED
    BY <1>1, <1>2

\* What is signed stays sound when neither the report nor the listed tables change.
LEMMA StaysSound4 ==
    ASSUME Inv4, available' = available, touched => touched',
           Form4!Signed' => Form4!Signed,
           \A x \in {"linked", "c", "d1", "d2"} : Form4!Signed /\ ~touched' => report'[x] = report[x]
    PROVE  Form4!SignedOverSoundFigures'
  <1> SUFFICES ASSUME Form4!Signed', ~touched' PROVE Form4!SignedOverSoundFigures'
    BY DEF Form4!SignedOverSoundFigures
  <1>1. Form4!Signed /\ ~touched /\ Form4!SignedOverSoundFigures
    BY DEF Inv4
  <1>2. /\ report'["linked"] = report["linked"] /\ report'["c"] = report["c"]
        /\ report'["d1"] = report["d1"] /\ report'["d2"] = report["d2"]
    BY <1>1
  <1>3. QED
    BY <1>1, <1>2 DEF Form4!SignedOverSoundFigures, Form4!Total

\* A section hands over its figures, perhaps with a new Table 1.1 or a new link.
LEMMA GivenInv4 ==
    ASSUME Inv4, NEW s \in {"c", "d1", "d2", "e"}, NEW fs, NEW rep, NEW data,
           Form4!SetStepData(s, fs, rep, data), step' = s, local' = data,
           DOMAIN fs = DOMAIN formState, \A x \in {"c", "d1", "d2", "e"} : fs[x] = formState[x],
           Table4(fs["eea2"]),
           DOMAIN rep = DOMAIN report, \A x \in {"c", "d1", "d2", "e", "status"} : rep[x] = report[x],
           rep["linked"] = report["linked"] \/ ~Form4!IsLinked,
           s \in Form4!MatrixSteps => Correct4(s, data, Form4!Source(fs)),
           available' = available \/ (Form4!Signed => fs # formState),
           \A id \in DOMAIN available' : Table4(available'[id])
    PROVE  Inv4'
  <1>1. /\ formState' = [fs EXCEPT ![s] = data] /\ report' = [rep EXCEPT ![s] = data]
        /\ touched' = (touched \/ (Form4!Signed /\ (report[s] # data \/ fs # formState)))
    BY DEF Form4!SetStepData
  <1>2. /\ DOMAIN formState' = {"c", "d1", "d2", "e", "eea2"}
        /\ \A x \in {"c", "d1", "d2", "e"} : formState'[x] = IF x = s THEN data ELSE formState[x]
        /\ formState'["eea2"] = fs["eea2"]
    BY <1>1 DEF Inv4
  <1>3. /\ DOMAIN report' = {"linked", "c", "d1", "d2", "e", "declared", "status"}
        /\ \A x \in {"c", "d1", "d2", "e"} : report'[x] = IF x = s THEN data ELSE report[x]
        /\ report'["linked"] = rep["linked"] /\ report'["status"] = report["status"]
    BY <1>1 DEF Inv4
  <1>4. Form4!Source(formState') = Form4!Source(fs)
    BY <1>2 DEF Form4!Source
  <1>5. \A x \in Form4!MatrixSteps : /\ formState'[x] = Undefined \/ Section4(x, formState'[x])
                                     /\ report'[x] = Undefined \/ Section4(x, report'[x])
    BY <1>2, <1>3 DEF Inv4, Form4!MatrixSteps, Correct4
  <1>6. s \in Form4!MatrixSteps => /\ Correct4(s, local', Form4!Source(formState'))
                                   /\ Correct4(s, report'[s], Form4!Source(formState'))
    BY <1>3, <1>4 DEF Form4!MatrixSteps
  <1>7. Form4!Signed' <=> Form4!Signed
    BY <1>3 DEF Form4!Signed
  <1>8. Form4!Signed' => Form4!IsLinked' /\ rep["linked"] = report["linked"]
    BY <1>3, <1>7 DEF Inv4, Form4!IsLinked
  <1>9. Form4!SignedOverSoundFigures'
    <2> SUFFICES ASSUME Form4!Signed', ~touched' PROVE Form4!SignedOverSoundFigures'
      BY DEF Form4!SignedOverSoundFigures
    <2>1. report[s] = data /\ fs = formState /\ available' = available
      BY <1>1, <1>7
    <2>2. \A x \in {"linked", "c", "d1", "d2"} : report'[x] = report[x]
      BY <1>3, <1>8, <2>1
    <2>3. touched => touched'
      BY <1>1
    <2>4. QED
      BY <1>7, <2>1, <2>2, <2>3, StaysSound4
  <1>10. Table4(formState'["eea2"])
    BY <1>2
  <1>11. QED
    BY <1>2, <1>3, <1>5, <1>6, <1>8, <1>9, <1>10 DEF Inv4

\* A section is shown.
LEMMA ShownInv4 ==
    ASSUME Inv4, NEW s \in Form4!StepIds, NEW fs, NEW rep, Form4!ShowStep(s, fs, rep),
           DOMAIN fs = DOMAIN formState, \A x \in {"c", "d1", "d2", "e"} : fs[x] = formState[x],
           Table4(fs["eea2"]),
           DOMAIN rep = DOMAIN report, \A x \in {"c", "d1", "d2", "e", "status"} : rep[x] = report[x],
           rep["linked"] = report["linked"] \/ ~Form4!IsLinked,
           s \notin Form4!MatrixSteps => fs = formState /\ rep = report,
           available' = available
    PROVE  Inv4'
  <1> DEFINE mounted == Form4!Mounted(s, fs)
  <1>1. CASE s \in Form4!MatrixSteps
    <2>1. mounted = Form4!Recomputed(s, Form4!Source(fs), fs[s])
      BY <1>1 DEF Form4!Mounted, Form4!MatrixSteps
    <2>2. s \in {"c", "d1", "d2", "e"} /\ (fs[s] = Undefined \/ Section4(s, fs[s]))
      BY <1>1 DEF Form4!MatrixSteps, Inv4
    <2>3. Cells4(Form4!Source(fs))
      BY Source4
    <2>4. Form4!SetStepData(s, fs, rep, mounted) /\ step' = s /\ local' = mounted
      BY <1>1 DEF Form4!ShowStep
    <2> HIDE DEF mounted
    <2>5. Correct4(s, mounted, Form4!Source(fs))
      BY <1>1, <2>1, <2>2, <2>3, Recomputed4
    <2>6. \A id \in DOMAIN available' : Table4(available'[id])
      BY DEF Inv4
    <2>7. QED
      BY <2>2, <2>4, <2>5, <2>6, GivenInv4
  <1>2. CASE s \notin Form4!MatrixSteps
    <2>1. formState' = formState /\ report' = report /\ touched' = touched /\ step' = s
      BY <1>2 DEF Form4!ShowStep
    <2>2. Form4!SignedOverSoundFigures' /\ (Form4!Signed' => Form4!IsLinked')
      BY <2>1 DEF Inv4, Form4!SignedOverSoundFigures, Form4!Signed, Form4!IsLinked
    <2>3. QED
      BY <1>2, <2>1, <2>2 DEF Inv4
  <1>3. QED
    BY <1>1, <1>2

\* What is entered in the section on the screen.
LEMMA EditedInv4 ==
    ASSUME Inv4, NEW next, Form4!Edits(next),
           step \in Form4!MatrixSteps => Correct4(step, next, Form4!Source(formState))
    PROVE  Inv4'
  <1>1. /\ local' = next /\ UNCHANGED <<step, formState, available, report, touched>>
    BY DEF Form4!Edits
  <1>2. Form4!SignedOverSoundFigures' /\ (Form4!Signed' => Form4!IsLinked')
    BY <1>1 DEF Inv4, Form4!SignedOverSoundFigures, Form4!Signed, Form4!IsLinked
  <1>3. QED
    BY <1>1, <1>2 DEF Inv4

\* The sections take numbers, entered or pasted.
LEMMA Entered4 ==
    ASSUME NEW g, Cells4(g), NEW r \in Form4!Editable, NEW c \in Form4!Demo, NEW v \in Amounts
    PROVE  /\ Cells4([g EXCEPT ![r][c] = v])
           /\ Cells4(Form4!PasteAt(g, r, c, <<<<v, v>>, <<v, v>>>>))
  <1>1. v \in Nat
    BY FiguresAssumption
  <1>2. /\ DOMAIN g = Form4!Rows /\ r \in Form4!Rows /\ c \in Form4!Cols
        /\ \A x \in Form4!Rows : DOMAIN g[x] = Form4!Cols /\ \A y \in Form4!Cols : g[x][y] \in Nat
    BY CellsAreNumbers4, SameGrid4
  <1>3. ASSUME NEW new, DOMAIN new = Form4!Rows,
               \A x \in Form4!Rows : DOMAIN new[x] = Form4!Cols /\ \A y \in Form4!Cols : new[x][y] \in Nat
        PROVE  Cells4(new)
    BY <1>3, SameGrid4 DEF Cells4, IsGrid
  <1>4. Cells4([g EXCEPT ![r][c] = v])
    <2> DEFINE new == [g EXCEPT ![r][c] = v]
    <2>1. DOMAIN new = Form4!Rows
      BY <1>2
    <2>2. \A x \in Form4!Rows : DOMAIN new[x] = Form4!Cols /\ \A y \in Form4!Cols : new[x][y] \in {v, g[x][y]}
      BY <1>2
    <2> HIDE DEF new
    <2>3. \A x \in Form4!Rows : \A y \in Form4!Cols : new[x][y] \in Nat
      BY <1>1, <1>2, <2>2
    <2>4. Cells4(new)
      BY <1>3, <2>1, <2>2, <2>3
    <2>5. QED
      BY <2>4 DEF new
  <1>5. Cells4(Form4!PasteAt(g, r, c, <<<<v, v>>, <<v, v>>>>))
    <2> DEFINE block == <<<<v, v>>, <<v, v>>>>
               new == Form4!PasteAt(g, r, c, block)
    <2>1. \A i \in DOMAIN block : \A j \in DOMAIN block[i] : block[i][j] = v
      OBVIOUS
    <2> HIDE DEF block
    <2>2. DOMAIN new = Form4!Rows
      BY DEF Form4!PasteAt
    <2>3. \A x \in Form4!Rows : DOMAIN new[x] = Form4!Cols
      BY DEF Form4!PasteAt
    <2>4. \A x \in Form4!Rows : \A y \in Form4!Cols : new[x][y] \in {v, g[x][y]}
      BY <2>1 DEF Form4!PasteAt
    <2> HIDE DEF new
    <2>5. \A x \in Form4!Rows : \A y \in Form4!Cols : new[x][y] \in Nat
      BY <1>1, <1>2, <2>4
    <2>6. Cells4(new)
      BY <1>3, <2>2, <2>3, <2>5
    <2>7. QED
      BY <2>6 DEF new, block
  <1>6. QED
    BY <1>4, <1>5

\* What is entered in section C, and in the sections D1 and D2.
LEMMA AfterC4 ==
    ASSUME Inv4, Form4!IsLinked, step = "c", NEW p, Cells4(p), Form4!Edits(Form4!AfterC(p))
    PROVE  Inv4'
  <1> DEFINE next == Form4!AfterC(p)
             h == local["headcount"]
  <1>1. SectionC4(local) /\ HeadsOf4(local, Form4!Source(formState))
    BY DEF Inv4, Form4!IsLinked, Form4!MatrixSteps, Correct4, Section4
  <1>2. Cells4(h)
    BY <1>1 DEF SectionC4, Matrix4
  <1>3. next = Form4!ComputeSectionCTotals(Form4!NormaliseAgainstHeadcount(Form4!SectionC(h, p)))
    BY DEF Form4!AfterC
  <1> HIDE DEF next, h
  <1>4. SectionC4(next) /\ HeadsOf4(next, h)
    BY <1>2, <1>3, MadeC4
  <1>5. HeadsOf4(next, Form4!Source(formState))
    BY <1>1, <1>4 DEF HeadsOf4, h
  <1>6. Correct4(step, next, Form4!Source(formState))
    BY <1>4, <1>5 DEF Correct4, Section4
  <1>7. Form4!Edits(next)
    BY DEF next
  <1>8. QED
    BY <1>6, <1>7, EditedInv4

\* An edit of section D1 or D2.
LEMMA AfterD4 ==
    ASSUME Inv4, step \in {"d1", "d2"}, NEW given, Cells4(given["fixed"]), Cells4(given["variable"]),
           Form4!Edits(Form4!AfterD(given))
    PROVE  Inv4'
  <1> DEFINE source == Form4!Source(formState)
             frozen == Form4!LockedRows(step, source)
             next == Form4!AfterD(given)
  <1>1. next = Form4!ComputeBreakdownTotals(Form4!NormaliseBreakdown(given, frozen))
    BY DEF Form4!AfterD
  <1>2. step = "d2" => frozen = Form4!SingleEmployeeRows(source)
    BY DEF Form4!LockedRows
  <1>3. Form4!Edits(next)
    OBVIOUS
  <1> HIDE DEF next, source, frozen
  <1>4. SectionD4(next) /\ Unpaid4(next, frozen)
    BY <1>1, MadeD4
  <1>5. Correct4(step, next, source)
    BY <1>2, <1>4 DEF Correct4, Section4
  <1>6. QED
    BY <1>3, <1>5, EditedInv4 DEF source

\* What the user does in a matrix section.
LEMMA ChangedInv4 ==
    ASSUME Inv4, Form4!IsLinked, NEW r \in Form4!Editable, NEW c \in Form4!Demo, NEW v \in Amounts,
           \/ Form4!ChangeC(r, c, v) \/ Form4!Paste(r, c, v)
           \/ \E field \in {"fixed", "variable"} : Form4!ChangeD(r, c, field, v)
    PROVE  Inv4'
  <1>1. step = "c" => Cells4(local["remuneration"])
    BY DEF Inv4, Form4!IsLinked, Form4!MatrixSteps, Correct4, Section4, SectionC4, Matrix4
  <1>2. step \in {"d1", "d2"} => /\ DOMAIN local = {"fixed", "variable"}
                                 /\ Cells4(local["fixed"]) /\ Cells4(local["variable"])
    BY DEF Inv4, Form4!IsLinked, Form4!MatrixSteps, Correct4, Section4, SectionD4, Matrix4
  <1>3. CASE Form4!ChangeC(r, c, v)
    <2> DEFINE p == [local["remuneration"] EXCEPT ![r][c] = v]
    <2>1. step = "c" /\ Form4!Edits(Form4!AfterC(p))
      BY <1>3 DEF Form4!ChangeC
    <2>2. Cells4(p)
      BY <1>1, <2>1, Entered4
    <2> HIDE DEF p
    <2>3. QED
      BY <2>1, <2>2, AfterC4
  <1>4. ASSUME NEW field \in {"fixed", "variable"}, Form4!ChangeD(r, c, field, v) PROVE Inv4'
    <2> DEFINE given == [local EXCEPT ![field][r][c] = v]
               one == [local[field] EXCEPT ![r][c] = v]
    <2>1. step \in {"d1", "d2"} /\ Form4!Edits(Form4!AfterD(given))
      BY <1>4 DEF Form4!ChangeD
    <2>2. given = [local EXCEPT ![field] = one]
      OBVIOUS
    <2>3. Cells4(one)
      BY <1>2, <2>1, Entered4
    <2> HIDE DEF given, one
    <2>4. given["fixed"] \in {one, local["fixed"]} /\ given["variable"] \in {one, local["variable"]}
      BY <1>2, <2>1, <2>2
    <2>5. Cells4(given["fixed"]) /\ Cells4(given["variable"])
      BY <1>2, <2>1, <2>3, <2>4
    <2>6. QED
      BY <2>1, <2>5, AfterD4
  <1>5. CASE Form4!Paste(r, c, v)
    <2> DEFINE block == <<<<v, v>>, <<v, v>>>>
               p == Form4!PasteAt(local["remuneration"], r, c, block)
               f == Form4!PasteAt(local["fixed"], r, c, block)
               w == Form4!PasteAt(local["variable"], r, c, block)
               given == Form4!SectionD(f, w)
    <2>1. /\ step \in Form4!MatrixSteps
          /\ Form4!Edits(IF step = "c" THEN Form4!AfterC(p) ELSE Form4!AfterD(given))
      BY <1>5 DEF Form4!Paste
    <2>2. CASE step = "c"
      <3>1. Form4!Edits(Form4!AfterC(p))
        BY <2>1, <2>2
      <3>2. Cells4(p)
        BY <1>1, <2>2, Entered4
      <3> HIDE DEF p
      <3>3. QED
        BY <2>2, <3>1, <3>2, AfterC4
    <2>3. CASE step # "c"
      <3>1. step \in {"d1", "d2"} /\ Form4!Edits(Form4!AfterD(given))
        BY <2>1, <2>3 DEF Form4!MatrixSteps
      <3>2. Cells4(f) /\ Cells4(w)
        BY <1>2, <3>1, Entered4
      <3>3. given["fixed"] = f /\ given["variable"] = w
        BY DEF Form4!SectionD
      <3> HIDE DEF given, f, w
      <3>4. QED
        BY <3>1, <3>2, <3>3, AfterD4
    <2>4. QED
      BY <2>2, <2>3
  <1>6. QED
    BY <1>3, <1>4, <1>5

\* The list of EEA2 forms arrives.
LEMMA ArrivedInv4 ==
    ASSUME Inv4, Handed4, NEW items \in Lists, Form4!ListArrives(Form4!Descriptors(items))
    PROVE  Inv4'
  <1> DEFINE list == Form4!Descriptors(items)
             fs == Form4!Synced(list)
             changed == Form4!Source(fs) # Form4!Source(formState)
             figures == Form4!Recomputed(step, Form4!Source(fs), local)
  <1>1. \A id \in DOMAIN list : Table4(list[id])
    <2>1. \A id \in DOMAIN list : id \in DOMAIN items /\ list[id] = items[id].workforce
      BY DEF Form4!Descriptors
    <2>2. \A id \in DOMAIN items : items[id].workforce \in {Undefined} \cup Form4!Grid
      BY FiguresAssumption
    <2>3. \A g \in Form4!Grid : Cells4(g)
      BY SameGrid4 DEF Form4!Grid, Cells4, IsGrid
    <2>4. QED
      BY <2>1, <2>2, <2>3 DEF Table4
  <1>2. /\ list # available /\ available' = list /\ step' = step
        /\ IF Form4!IsLinked /\ step \in Form4!MatrixSteps /\ changed
           THEN local' = figures /\ Form4!SetStepData(step, fs, report, figures)
           ELSE /\ formState' = fs
                /\ touched' = (touched \/ (Form4!Signed /\ list # available))
                /\ UNCHANGED <<local, report, sent>>
    BY DEF Form4!ListArrives
  <1> HIDE DEF list
  <1>3. /\ DOMAIN fs = DOMAIN formState /\ \A x \in {"c", "d1", "d2", "e"} : fs[x] = formState[x]
        /\ Table4(fs["eea2"])
    <2>1. CASE fs = formState
      BY <2>1 DEF Inv4
    <2>2. CASE fs # formState
      <3>1. report.linked \in DOMAIN list /\ fs = [formState EXCEPT !["eea2"] = list[report.linked]]
        BY <2>2 DEF Form4!Synced
      <3>2. QED
        BY <1>1, <3>1 DEF Inv4
    <2>3. QED
      BY <2>1, <2>2
  <1>4. CASE Form4!IsLinked /\ step \in Form4!MatrixSteps /\ changed
    <2>1. Cells4(Form4!Source(fs))
      BY <1>3, Source4
    <2>2. Section4(step, local)
      BY <1>4 DEF Inv4, Correct4, Form4!IsLinked
    <2>3. Correct4(step, figures, Form4!Source(fs))
      BY <1>4, <2>1, <2>2, Recomputed4
    <2>4. local' = figures /\ Form4!SetStepData(step, fs, report, figures)
      BY <1>2, <1>4
    <2>5. fs # formState
      BY <1>4
    <2>6. step \in {"c", "d1", "d2", "e"}
      BY <1>4 DEF Form4!MatrixSteps
    <2>7. \A id \in DOMAIN available' : Table4(available'[id])
      BY <1>1, <1>2
    <2> HIDE DEF fs, figures
    <2>8. QED
      BY <1>2, <1>3, <2>3, <2>4, <2>5, <2>6, <2>7, GivenInv4
  <1>5. CASE ~(Form4!IsLinked /\ step \in Form4!MatrixSteps /\ changed)
    <2>1. /\ formState' = fs /\ touched' = (touched \/ (Form4!Signed /\ list # available))
          /\ UNCHANGED <<local, report>>
      BY <1>2, <1>5
    <2>2. Form4!Source(formState') = Form4!Source(formState) \/ ~(Form4!IsLinked /\ step \in Form4!MatrixSteps)
      BY <1>5, <2>1
    <2> HIDE DEF fs
    <2>3. /\ DOMAIN formState' = {"c", "d1", "d2", "e", "eea2"} /\ Table4(formState'["eea2"])
          /\ \A x \in Form4!MatrixSteps : formState'[x] = formState[x]
      BY <1>3, <2>1 DEF Inv4, Form4!MatrixSteps
    <2>4. Form4!Signed' => touched'
      BY <1>2, <2>1 DEF Form4!Signed
    <2>5. Form4!SignedOverSoundFigures' /\ (Form4!Signed' => Form4!IsLinked')
      BY <2>1, <2>4 DEF Inv4, Form4!SignedOverSoundFigures, Form4!Signed, Form4!IsLinked
    <2>6. step' \in Form4!MatrixSteps /\ report'["linked"] # Undefined =>
             /\ Correct4(step', local', Form4!Source(formState'))
             /\ Correct4(step', report'[step'], Form4!Source(formState'))
      BY <1>2, <2>1, <2>2 DEF Inv4, Form4!IsLinked
    <2>7. \A id \in DOMAIN available' : Table4(available'[id])
      BY <1>1, <1>2
    <2>8. \A x \in Form4!MatrixSteps : /\ formState'[x] = Undefined \/ Section4(x, formState'[x])
                                       /\ report'[x] = Undefined \/ Section4(x, report'[x])
      BY <2>1, <2>3 DEF Inv4
    <2>9. DOMAIN report' = {"linked", "c", "d1", "d2", "e", "declared", "status"}
      BY <2>1 DEF Inv4
    <2>10. QED
      BY <2>3, <2>5, <2>6, <2>7, <2>8, <2>9 DEF Inv4
  <1>6. QED
    BY <1>4, <1>5

\* The rules of the declaration pass when nothing blocks it: the first and the third of them.
LEMMA Unblocked4 ==
    ASSUME ~Form4!Blocked
    PROVE  \A rc \in Form4!Rows \X Form4!Cols :
              /\ Form4!Gate!View(Form4!LinkedEEA2Form).workforce[rc] # Undefined
              /\ Form4!Gate!View(Form4!EEA4View).headcount[rc] =
                    Form4!Gate!View(Form4!LinkedEEA2Form).workforce[rc]
              /\ Form4!Gate!View(Form4!EEA4View).highest[rc] # Undefined
              /\ Form4!Gate!View(Form4!EEA4View).lowest[rc] # Undefined
              /\ Form4!Gate!View(Form4!EEA4View).lowest[rc] <= Form4!Gate!View(Form4!EEA4View).highest[rc]
  <1> DEFINE rules == Form4!Gate!DeclarationRules
             a == Form4!Gate!View(Form4!LinkedEEA2Form)
             b == Form4!Gate!View(Form4!EEA4View)
             Fails(i) == ~Form4!Gate!Passes(rules[i], a, b, Form4!Gate!MetaAt(rules, i, a, b))
             failed == Form4!Gate!EvaluateRules(rules, Form4!LinkedEEA2Form, Form4!EEA4View)
  <1>1. DOMAIN rules = 1..4 /\ rules[1] = "headcount" /\ rules[3] = "highpaid"
    BY DEF Form4!Gate!DeclarationRules
  <1>2. failed = {rules[i] : i \in {k \in DOMAIN rules : Fails(k)}}
    BY DEF Form4!Gate!EvaluateRules
  <1>3. {rule \in failed : Form4!Gate!Severity(rule) = "error"} = {}
    BY DEF Form4!Blocked, Form4!Gate!Errors
  <1>4. Form4!Gate!Severity("headcount") = "error" /\ Form4!Gate!Severity("highpaid") = "error"
    BY DEF Form4!Gate!Severity
  <1> HIDE DEF failed, rules, a, b
  <1>5. ~Fails(1) /\ ~Fails(3)
    <2> HIDE DEF Fails
    <2>1. 1 \in 1..4 /\ 3 \in 1..4
      OBVIOUS
    <2>2. QED
      BY <1>1, <1>2, <1>3, <1>4, <2>1
  <1>6. /\ Form4!Gate!Passes("headcount", a, b, Form4!Gate!MetaAt(rules, 1, a, b))
        /\ Form4!Gate!Passes("highpaid", a, b, Form4!Gate!MetaAt(rules, 3, a, b))
    BY <1>1, <1>5
  <1>7. \A rc \in Form4!Rows \X Form4!Cols :
           /\ Form4!Gate!Equality(a.workforce[rc], b.headcount[rc])
           /\ Form4!Gate!Gte(b.highest[rc], b.lowest[rc])
    BY <1>6 DEF Form4!Gate!Passes
  <1>8. QED
    BY <1>7 DEF Form4!Gate!Equality, Form4!Gate!Gte, Form4!Gate!Lte, Form4!Gate!Defined, a, b

\* Who signs has all the figures, and they agree.
LEMMA SoundWhenSigned4 ==
    ASSUME ~Form4!Blocked
    PROVE  /\ report.linked \in DOMAIN available /\ available[report.linked] # Undefined
           /\ Undefined \notin {report.c, report.d1, report.d2}
           /\ \A r \in Form4!Rows, c \in Form4!Cols :
                 /\ report.c.headcount[r][c] = available[report.linked][r][c]
                 /\ Form4!Total(report.d2, r, c) <= Form4!Total(report.d1, r, c)
  <1> DEFINE one == Form4!LinkedEEA2Form
             other == Form4!EEA4View
             Cell == Form4!Rows \X Form4!Cols
             a == Form4!Gate!View(one)
             b == Form4!Gate!View(other)
             blank == Form4!Gate!Blank
  <1>1. \A rc \in Cell : /\ a.workforce[rc] # Undefined /\ b.headcount[rc] = a.workforce[rc]
                         /\ b.highest[rc] # Undefined /\ b.lowest[rc] # Undefined
                         /\ b.lowest[rc] <= b.highest[rc]
    BY Unblocked4
  <1>2. <<"grandTotal", "total">> \in Cell
    BY SameGrid4
  <1>3. \A rc \in Cell : /\ blank.workforce[rc] = Undefined /\ blank.headcount[rc] = Undefined
                         /\ blank.highest[rc] = Undefined /\ blank.lowest[rc] = Undefined
    BY DEF Form4!Gate!Blank
  <1>4. a = one /\ b = other /\ one # Absent
    <2> HIDE DEF one, other, Cell, blank
    <2>1. a \in {one, blank} /\ b \in {other, blank} /\ (one = Absent => a = blank)
      BY DEF Form4!Gate!View, blank
    <2> HIDE DEF a, b
    <2>2. a # blank /\ b # blank
      BY <1>1, <1>2, <1>3
    <2>3. QED
      BY <2>1, <2>2
  <1> HIDE DEF a, b
  <1>5. report.linked \in DOMAIN available
    BY <1>4 DEF Form4!LinkedEEA2Form
  <1> DEFINE t == available[report.linked]
             c == report.c
             d1 == report.d1
             d2 == report.d2
  <1>6. one.workforce = Form4!CellsOf(t, Form4!ByCell(t))
    BY <1>5 DEF Form4!LinkedEEA2Form, Form4!Gate!Blank
  <1>7. /\ other.headcount = Form4!CellsOf(c, Form4!ByCell(c.headcount))
        /\ other.highest = Form4!CellsOf(d1, Form4!Sums(d1))
        /\ other.lowest = Form4!CellsOf(d2, Form4!Sums(d2))
    BY DEF Form4!EEA4View, Form4!Gate!Blank
  <1> HIDE DEF one, other, t, c, d1, d2
  <1>8. \A section, values : Form4!CellsOf(section, values) = IF section = Undefined THEN blank.headcount ELSE values
    BY DEF Form4!CellsOf, blank
  <1> HIDE DEF blank, Cell
  <1>9. t # Undefined /\ c # Undefined /\ d1 # Undefined /\ d2 # Undefined
    BY <1>1, <1>2, <1>3, <1>4, <1>6, <1>7, <1>8
  <1>10. \A rc \in Cell : Form4!ByCell(t)[rc] = Form4!ByCell(c.headcount)[rc] /\ Form4!Sums(d2)[rc] <= Form4!Sums(d1)[rc]
    BY <1>1, <1>4, <1>6, <1>7, <1>8, <1>9
  <1>11. ASSUME NEW x \in Form4!Rows, NEW y \in Form4!Cols
         PROVE  /\ c.headcount[x][y] = t[x][y]
                /\ Form4!Total(d2, x, y) <= Form4!Total(d1, x, y)
    <2>1. <<x, y>> \in Cell
      BY DEF Cell
    <2>2. /\ Form4!ByCell(t)[<<x, y>>] = t[x][y] /\ Form4!ByCell(c.headcount)[<<x, y>>] = c.headcount[x][y]
          /\ Form4!Sums(d1)[<<x, y>>] = Form4!Total(d1, x, y) /\ Form4!Sums(d2)[<<x, y>>] = Form4!Total(d2, x, y)
      BY <2>1 DEF Form4!ByCell, Form4!Sums, Cell
    <2>3. QED
      BY <1>10, <2>1, <2>2
  <1>12. QED
    BY <1>5, <1>9, <1>11 DEF t, c, d1, d2

\* The EEA4 starts without figures.
LEMMA Inv4Init == Form4!Init => Inv4
  <1> SUFFICES ASSUME Form4!Init PROVE Inv4
    OBVIOUS
  <1>1. /\ available = << >> /\ report = Form4!BlankReport
        /\ formState = [s \in Form4!MatrixSteps \cup {"e", "eea2"} |-> Undefined]
    BY DEF Form4!Init
  <1>2. /\ DOMAIN formState = {"c", "d1", "d2", "e", "eea2"} /\ formState["eea2"] = Undefined
        /\ \A s \in Form4!MatrixSteps : formState[s] = Undefined
    BY <1>1 DEF Form4!MatrixSteps
  <1>3. /\ DOMAIN report = {"linked", "c", "d1", "d2", "e", "declared", "status"}
        /\ \A s \in Form4!MatrixSteps : report[s] = Undefined
        /\ report["linked"] = Undefined /\ report["status"] = "draft"
    BY <1>1 DEF Form4!BlankReport, Form4!MatrixSteps
  <1>4. ~Form4!Signed
    BY <1>3 DEF Form4!Signed
  <1>5. \A id \in DOMAIN available : Table4(available[id])
    BY <1>1
  <1>6. QED
    BY <1>2, <1>3, <1>4, <1>5 DEF Inv4, Table4, Form4!SignedOverSoundFigures

\* The EEA2 that is picked brings its Table 1.1.
LEMMA LinkedInv4 ==
    ASSUME Inv4, Handed4, Form4!LinkEEA2
    PROVE  Inv4'
  <1>1. PICK id \in Form4!EEA2Picker :
           Form4!ShowStep(step,
               IF available[id] = Undefined THEN formState
               ELSE [formState EXCEPT !["eea2"] = available[id]],
               [report EXCEPT !.linked = id])
    BY DEF Form4!LinkEEA2
  <1> DEFINE fs == IF available[id] = Undefined THEN formState
                   ELSE [formState EXCEPT !["eea2"] = available[id]]
             rep == [report EXCEPT !["linked"] = id]
  <1>2. ~Form4!IsLinked /\ id \in DOMAIN available
    BY DEF Form4!EEA2Picker
  <1>3. step = "c" /\ "c" \in Form4!StepIds /\ "c" \in Form4!MatrixSteps
    BY <1>2 DEF Handed4, Form4!IsLinked, Form4!StepIds, Form4!MatrixSteps
  <1>4. /\ DOMAIN fs = DOMAIN formState /\ \A x \in {"c", "d1", "d2", "e"} : fs[x] = formState[x]
        /\ Table4(fs["eea2"])
    BY <1>2 DEF Inv4
  <1>5. DOMAIN rep = DOMAIN report /\ \A x \in {"c", "d1", "d2", "e", "status"} : rep[x] = report[x]
    OBVIOUS
  <1>6. Form4!ShowStep("c", fs, rep) /\ available' = available
    BY <1>1, <1>3 DEF Form4!LinkEEA2
  <1> HIDE DEF fs, rep
  <1>7. QED
    BY <1>2, <1>3, <1>4, <1>5, <1>6, ShownInv4

\* Every step of the EEA4 keeps its figures.
LEMMA Inv4Step == Inv4 /\ Handed4 /\ Form4!Next => Inv4'
  <1> SUFFICES ASSUME Inv4, Handed4, Form4!Next PROVE Inv4'
    OBVIOUS
  <1>1. ASSUME NEW items \in Lists, Form4!ListArrives(Form4!Descriptors(items)) PROVE Inv4'
    BY <1>1, ArrivedInv4
  <1>2. CASE Form4!LinkEEA2
    BY <1>2, LinkedInv4
  <1>3. ASSUME Form4!IsLinked, NEW r \in Form4!Editable, NEW c \in Form4!Demo, NEW v \in Amounts,
               \/ Form4!ChangeC(r, c, v) \/ Form4!Paste(r, c, v)
               \/ \E field \in {"fixed", "variable"} : Form4!ChangeD(r, c, field, v)
        PROVE  Inv4'
    BY <1>3, ChangedInv4
  <1>4. ASSUME NEW field, NEW v, Form4!ChangeE(field, v) PROVE Inv4'
    <2>1. step = "e" /\ Form4!Edits([local EXCEPT ![field] = v])
      BY <1>4 DEF Form4!ChangeE
    <2>2. step \notin Form4!MatrixSteps
      BY <2>1 DEF Form4!MatrixSteps
    <2>3. QED
      BY <2>1, <2>2, EditedInv4
  <1>5. CASE Form4!FillDeclaration
    <2>1. step \notin Form4!MatrixSteps /\ UNCHANGED <<step, formState, available, report, touched>>
      BY <1>5 DEF Form4!FillDeclaration, Form4!MatrixSteps
    <2>2. Form4!SignedOverSoundFigures' /\ (Form4!Signed' => Form4!IsLinked')
      BY <2>1 DEF Inv4, Form4!SignedOverSoundFigures, Form4!Signed, Form4!IsLinked
    <2>3. QED
      BY <2>1, <2>2 DEF Inv4
  <1>6. CASE Form4!Blur
    <2>1. /\ step \in {"c", "d1", "d2", "e"} /\ Form4!IsLinked /\ UNCHANGED <<step, available, local>>
          /\ Form4!SetStepData(step, formState, report, local)
      BY <1>6 DEF Form4!Blur, Handed4, Form4!StepIds, Form4!MatrixSteps
    <2>2. step \in Form4!MatrixSteps => Correct4(step, local, Form4!Source(formState))
      BY <2>1 DEF Inv4, Form4!IsLinked
    <2>3. Table4(formState["eea2"]) /\ \A id \in DOMAIN available' : Table4(available'[id])
      BY <2>1 DEF Inv4
    <2>4. QED
      BY <2>1, <2>2, <2>3, GivenInv4
  <1>7. CASE Form4!Sign /\ Form4!IsLinked
    <2>1. /\ step = "declaration" /\ ~Form4!Blocked
          /\ report' = [report EXCEPT !["declared"] = TRUE, !["status"] = "pending_ceo"]
          /\ UNCHANGED <<step, formState, available, local, touched>>
      BY <1>7 DEF Form4!Sign
    <2>2. /\ DOMAIN report' = DOMAIN report
          /\ \A x \in {"linked", "c", "d1", "d2", "e"} : report'[x] = report[x]
      <3>1. DOMAIN report' = DOMAIN report /\ \A x \in DOMAIN report \ {"declared", "status"} : report'[x] = report[x]
        BY <2>1
      <3>2. {"linked", "c", "d1", "d2", "e"} \subseteq DOMAIN report \ {"declared", "status"}
        BY DEF Inv4
      <3>3. QED
        BY <3>1, <3>2
    <2>3. /\ report.linked \in DOMAIN available /\ available[report.linked] # Undefined
          /\ Undefined \notin {report.c, report.d1, report.d2}
          /\ \A r \in Form4!Rows, c \in Form4!Cols :
                /\ report.c.headcount[r][c] = available[report.linked][r][c]
                /\ Form4!Total(report.d2, r, c) <= Form4!Total(report.d1, r, c)
      BY <2>1, SoundWhenSigned4
    <2>4. Form4!SignedOverSoundFigures'
      <3>1. /\ report'.linked = report.linked /\ available' = available
            /\ report'.c = report.c /\ report'.d1 = report.d1 /\ report'.d2 = report.d2
        BY <2>1, <2>2
      <3>2. QED
        BY <2>3, <3>1 DEF Form4!SignedOverSoundFigures, Form4!Total
    <2>5. step' \notin Form4!MatrixSteps /\ Form4!IsLinked'
      BY <1>7, <2>1, <2>2 DEF Form4!MatrixSteps, Form4!IsLinked
    <2>6. \A s \in Form4!MatrixSteps : report'[s] = report[s]
      BY <2>2 DEF Form4!MatrixSteps
    <2>7. /\ DOMAIN formState' = {"c", "d1", "d2", "e", "eea2"}
          /\ DOMAIN report' = {"linked", "c", "d1", "d2", "e", "declared", "status"}
          /\ Table4(formState'["eea2"]) /\ \A id \in DOMAIN available' : Table4(available'[id])
      BY <2>1, <2>2 DEF Inv4
    <2>8. \A s \in Form4!MatrixSteps :
             /\ formState'[s] = Undefined \/ Section4(s, formState'[s])
             /\ report'[s] = Undefined \/ Section4(s, report'[s])
      BY <2>1, <2>6 DEF Inv4
    <2>9. QED
      BY <2>4, <2>5, <2>7, <2>8 DEF Inv4
  <1>8. ASSUME NEW s \in Form4!StepIds, Form4!GoTo(s) PROVE Inv4'
    <2>1. Form4!ShowStep(s, formState, report) /\ available' = available
      BY <1>8 DEF Form4!GoTo
    <2>2. Table4(formState["eea2"])
      BY DEF Inv4
    <2>3. QED
      BY <2>1, <2>2, ShownInv4
  <1>9. QED
    BY <1>1, <1>2, <1>3, <1>4, <1>5, <1>6, <1>7, <1>8 DEF Form4!Next

\* The sum of the cells of some rows and columns, in the words of the form.
LEMMA CellSums4 ==
    ASSUME NEW g, NEW rows, NEW cols
    PROVE  Form4!SumFunction([rc \in rows \X cols |-> g[rc[1]][rc[2]]]) = SumOfCells(g, rows, cols)
  <1> DEFINE f == [rc \in rows \X cols |-> g[rc[1]][rc[2]]]
  <1>1. f = CellsOf(g, rows, cols) /\ DOMAIN f = rows \X cols
    BY DEF CellsOf
  <1> HIDE DEF f
  <1>2. Form4!SumFunction(f) = SumFunctionOnSet(f, DOMAIN f)
    BY SameSums
  <1>3. QED
    BY <1>1, <1>2 DEF f, SumOfCells

\* A summed matrix adds up.
LEMMA AddsUp4 == ASSUME NEW g, Matrix4(g) PROVE Form4!AddsUp(g)
  <1> DEFINE Of(rows, cols) == Form4!SumFunction([rc \in rows \X cols |-> g[rc[1]][rc[2]]])
  <1>1. \A rows, cols : Of(rows, cols) = SumOfCells(g, rows, cols)
    BY CellSums4
  <1> HIDE DEF Of
  <1>2. "total" \notin Form4!Demo
    BY Frame4 DEF Frame
  <1>3. /\ \A r \in Form4!Editable : g[r]["total"] = SumOfCells(g, {r}, Form4!Demo)
        /\ \A c \in Form4!Demo :
              /\ g["totalPermanent"][c] = SumOfCells(g, Form4!Permanent, {c})
              /\ g["grandTotal"][c] = SumOfCells(g, Form4!Editable, {c})
        /\ g["totalPermanent"]["total"] = SumOfCells(g, Form4!Permanent, Form4!Demo)
        /\ g["grandTotal"]["total"] = SumOfCells(g, Form4!Editable, Form4!Demo)
    BY GridAddsUp, Frame4 DEF Matrix4, Cells4
  <1>4. ASSUME NEW c \in Form4!Cols
        PROVE  LET cols == IF c = "total" THEN Form4!Demo ELSE {c}
               IN /\ g["totalPermanent"][c] = SumOfCells(g, Form4!Permanent, cols)
                  /\ g["grandTotal"][c] = SumOfCells(g, Form4!Editable, cols)
    <2>1. CASE c = "total"
      BY <1>3, <2>1
    <2>2. CASE c # "total"
      BY <1>3, <2>2, SameGrid4
    <2>3. QED
      BY <2>1, <2>2
  <1>5. \A r \in Form4!Editable : g[r]["total"] = Of({r}, Form4!Demo)
    BY <1>1, <1>3
  <1>6. \A c \in Form4!Cols : LET cols == IF c = "total" THEN Form4!Demo ELSE {c}
                              IN /\ g["totalPermanent"][c] = Of(Form4!Permanent, cols)
                                 /\ g["grandTotal"][c] = Of(Form4!Editable, cols)
    BY <1>1, <1>4
  <1>7. QED
    BY <1>5, <1>6 DEF Form4!AddsUp, Of

\* The figures of the report.
LEMMA Figures4AddUp == Inv4 => Form4!FiguresAddUp
  <1> SUFFICES ASSUME Inv4 PROVE Form4!FiguresAddUp
    OBVIOUS
  <1>1. {"c", "d1", "d2"} = Form4!MatrixSteps
    BY DEF Form4!MatrixSteps
  <1>2. ASSUME report["c"] # Undefined
        PROVE  /\ Form4!AddsUp(report.c.headcount) /\ Form4!AddsUp(report.c.remuneration)
               /\ \A r \in Form4!Rows, c \in Form4!Cols :
                     report.c.headcount[r][c] = 0 => report.c.remuneration[r][c] = 0
    <2>1. SectionC4(report["c"])
      BY <1>1, <1>2 DEF Inv4, Section4
    <2>2. QED
      BY <2>1, AddsUp4 DEF SectionC4, NobodyIsPaid
  <1>3. ASSUME NEW s \in {"d1", "d2"}, report[s] # Undefined
        PROVE  Form4!AddsUp(report[s].fixed) /\ Form4!AddsUp(report[s].variable)
    <2>1. SectionD4(report[s])
      BY <1>1, <1>3 DEF Inv4, Section4
    <2>2. QED
      BY <2>1, AddsUp4 DEF SectionD4
  <1>4. ASSUME Form4!IsLinked, step \in Form4!MatrixSteps
        PROVE  Correct4(step, report[step], Form4!Source(formState))
    BY <1>4 DEF Inv4, Form4!IsLinked
  <1>5. ASSUME Form4!IsLinked, step = "d2",
               NEW r \in Form4!SingleEmployeeRows(Form4!Source(formState)) \cap Form4!Editable, NEW c \in Form4!Cols
        PROVE  Form4!Total(report.d2, r, c) = 0
    <2>1. Unpaid4(report["d2"], Form4!SingleEmployeeRows(Form4!Source(formState)))
      BY <1>1, <1>4, <1>5 DEF Correct4
    <2>2. report["d2"]["fixed"][r][c] = 0 /\ report["d2"]["variable"][r][c] = 0
      BY <2>1 DEF Unpaid4
    <2>3. QED
      BY <2>2 DEF Form4!Total
  <1>6. QED
    BY <1>1, <1>2, <1>3, <1>4, <1>5 DEF Form4!FiguresAddUp, Correct4, HeadsOf4

(***************************************************************************)
(* The dashboards: what is shown, and its figures.                          *)
(***************************************************************************)
\* An EEA2 with a valid Table 1.1 that some tenant may have, and the sections C there are.
LiveItems ==
    {item \in UNION {UNION {Range(list) : list \in AnsweredLists[t]} : t \in Tenants} :
        item.workforce # Undefined}
SectionsOf == UNION {SectionsC[id] : id \in Eea4Ids}

Asked == [tenant : Tenants \cup {""}, eea4 : Eea4Ids \cup {""}]

Runs ==
    {run \in [options : Asked, workforce : LiveItems \cup {Undefined, Absent},
              remuneration : SectionsOf \cup {Undefined, Absent}, aborted : BOOLEAN] :
        Data!IsComplete(run.options)}

Ended(run) == Absent \notin {run.workforce, run.remuneration}

\* What is shown is of an effect that has ended, of the last one if that has; only the last
\* one is not aborted, and none is once something is not asked for.
DataInv ==
    /\ options \in Asked /\ effects \in Seq(Runs) /\ shownRun \in 0..Len(effects)
    /\ result = IF shownRun = 0 THEN Data!FixtureResult ELSE Data!Outcome(effects[shownRun])
    /\ shownRun # 0 => Ended(effects[shownRun])
    /\ \A i \in 1..Len(effects) : i < Len(effects) \/ ~Data!IsComplete(options) => effects[i].aborted
    /\ ~Data!IsComplete(options) => shownRun = 0
    /\ Data!IsComplete(options) =>
          /\ Len(effects) > 0 /\ effects[Len(effects)].options = options
          /\ ~effects[Len(effects)].aborted
          /\ Ended(effects[Len(effects)]) => shownRun = Len(effects)

\* The page opens with the demonstration company.
LEMMA DataInit == Data!Init => DataInv
  <1> SUFFICES ASSUME Data!Init PROVE DataInv
    OBVIOUS
  <1>1. /\ options = [tenant |-> "", eea4 |-> ""] /\ effects = <<>>
        /\ result = Data!FixtureResult /\ shownRun = 0
    BY DEF Data!Init
  <1>2. ~Data!IsComplete(options) /\ options \in Asked
    BY <1>1 DEF Data!IsComplete, Asked
  <1>3. effects \in Seq(Runs) /\ Len(effects) = 0
    BY <1>1, EmptySeq
  <1>4. QED
    <2>1. shownRun = 0 /\ result = Data!FixtureResult
      BY <1>1
    <2>4. shownRun \in 0..Len(effects)
      BY <1>3, <2>1
    <2>2. \A i \in 1..Len(effects) : FALSE
      BY <1>3
    <2>3. QED
      BY <1>2, <1>3, <2>1, <2>2, <2>4 DEF DataInv

\* A run that is aborted is the same run otherwise.
LEMMA AbortedRuns ==
    ASSUME NEW runs \in Seq(Runs)
    PROVE  /\ Data!Aborted(runs) \in Seq(Runs) /\ Len(Data!Aborted(runs)) = Len(runs)
           /\ \A i \in 1..Len(runs) :
                 LET new == Data!Aborted(runs)[i]
                 IN /\ new.aborted /\ new.workforce = runs[i].workforce
                    /\ new.remuneration = runs[i].remuneration /\ new.options = runs[i].options
  <1> DEFINE new == Data!Aborted(runs)
  <1>1. DOMAIN runs = 1..Len(runs) /\ Len(runs) \in Nat
    BY LenProperties
  <1>2. new = [i \in 1..Len(runs) |-> [runs[i] EXCEPT !.aborted = TRUE]]
    BY <1>1 DEF Data!Aborted
  <1>3. ASSUME NEW i \in 1..Len(runs)
        PROVE  /\ new[i] \in Runs /\ new[i].aborted /\ new[i].workforce = runs[i].workforce
               /\ new[i].remuneration = runs[i].remuneration /\ new[i].options = runs[i].options
    <2>1. runs[i] \in Runs /\ new[i] = [runs[i] EXCEPT !.aborted = TRUE]
      BY <1>1, <1>2, ElementOfSeq
    <2>2. QED
      BY <2>1 DEF Runs
  <1>4. new \in [1..Len(runs) -> Runs]
    BY <1>2, <1>3
  <1> HIDE DEF new
  <1>5. new \in Seq(Runs) /\ Len(new) = Len(runs)
    BY <1>1, <1>4, IsASeq, LenProperties
  <1>6. QED
    BY <1>3, <1>5 DEF new

\* The figures on the screen are those of the two answers alone.
LEMMA SameOutcome ==
    ASSUME NEW a, NEW b, a.workforce = b.workforce, a.remuneration = b.remuneration
    PROVE  Data!Outcome(a) = Data!Outcome(b) /\ (Ended(a) <=> Ended(b))
  BY DEF Data!Outcome, Ended

\* A change of what is asked for.
LEMMA OptionsChanged ==
    ASSUME DataInv, NEW o \in Asked, Data!ChangeOptions(o)
    PROVE  DataInv'
  <1> DEFINE old == Data!Aborted(effects)
  <1>1. /\ old \in Seq(Runs) /\ Len(old) = Len(effects) /\ Len(effects) \in Nat
        /\ \A i \in 1..Len(effects) :
              /\ old[i].aborted /\ old[i].workforce = effects[i].workforce
              /\ old[i].remuneration = effects[i].remuneration
    BY AbortedRuns, LenProperties DEF DataInv
  <1>2. options' = o
    BY DEF Data!ChangeOptions
  <1>3. CASE Data!IsComplete(o)
    <2> DEFINE run == Data!NewRun(o)
    <2>1. effects' = Append(old, run) /\ UNCHANGED <<result, shownRun>>
      BY <1>3 DEF Data!ChangeOptions
    <2>2. /\ run.options = o /\ run.workforce = Absent /\ run.remuneration = Absent
          /\ run.aborted = FALSE
      BY DEF Data!NewRun
    <2>3. run \in Runs
      BY <1>3 DEF Data!NewRun, Runs
    <2> HIDE DEF run, old
    <2>4. /\ effects' \in Seq(Runs) /\ Len(effects') = Len(effects) + 1
          /\ effects'[Len(effects')] = run /\ \A i \in 1..Len(effects) : effects'[i] = old[i]
      BY <1>1, <2>1, <2>3, AppendProperties
    <2>5. ~Ended(run) /\ ~run.aborted
      BY <2>2 DEF Ended
    <2>6. shownRun # 0 =>
             /\ Data!Outcome(effects'[shownRun]) = Data!Outcome(effects[shownRun])
             /\ Ended(effects'[shownRun])
      <3>1. ASSUME shownRun # 0
            PROVE  /\ Data!Outcome(effects'[shownRun]) = Data!Outcome(effects[shownRun])
                   /\ Ended(effects'[shownRun])
        <4>1. shownRun \in 1..Len(effects) /\ Ended(effects[shownRun])
          BY <1>1, <3>1 DEF DataInv
        <4>2. effects'[shownRun] = old[shownRun]
          BY <2>4, <4>1
        <4>3. /\ effects'[shownRun].workforce = effects[shownRun].workforce
              /\ effects'[shownRun].remuneration = effects[shownRun].remuneration
          BY <1>1, <4>1, <4>2
        <4>4. QED
          BY <4>1, <4>3, SameOutcome
      <3>2. QED
        BY <3>1
    <2>7. /\ options' \in Asked /\ shownRun' \in 0..Len(effects')
          /\ Len(effects') > 0 /\ effects'[Len(effects')].options = options'
          /\ ~effects'[Len(effects')].aborted /\ ~Ended(effects'[Len(effects')])
      BY <1>1, <1>2, <2>1, <2>2, <2>4, <2>5 DEF DataInv
    <2>8. \A i \in 1..Len(effects') : i < Len(effects') => effects'[i].aborted
      BY <1>1, <2>4
    <2>9. result' = IF shownRun' = 0 THEN Data!FixtureResult ELSE Data!Outcome(effects'[shownRun'])
      BY <2>1, <2>6 DEF DataInv
    <2>10. QED
      BY <1>2, <1>3, <2>1, <2>4, <2>6, <2>7, <2>8, <2>9 DEF DataInv
  <1>4. CASE ~Data!IsComplete(o)
    <2>1. effects' = old /\ result' = Data!FixtureResult /\ shownRun' = 0
      BY <1>4 DEF Data!ChangeOptions
    <2> HIDE DEF old
    <2>2. QED
      BY <1>1, <1>2, <1>4, <2>1 DEF DataInv
  <1>5. QED
    BY <1>3, <1>4

\* An answer to one of the two requests of a run that has not ended.
LEMMA AnswerArrived ==
    ASSUME DataInv, NEW i \in DOMAIN effects, NEW run \in Runs, ~Ended(effects[i]),
           run.options = effects[i].options, run.aborted = effects[i].aborted,
           Data!Arrives(i, run)
    PROVE  DataInv'
  <1>1. effects \in Seq(Runs) /\ i \in 1..Len(effects) /\ Len(effects) \in Nat
    BY LenProperties DEF DataInv
  <1>2. /\ effects' = [effects EXCEPT ![i] = run] /\ options' = options
        /\ IF Ended(run) /\ ~run.aborted THEN result' = Data!Outcome(run) /\ shownRun' = i
           ELSE UNCHANGED <<result, shownRun>>
    BY DEF Data!Arrives, Data!Settles, Ended
  <1>3. /\ effects' \in Seq(Runs) /\ Len(effects') = Len(effects) /\ effects'[i] = run
        /\ \A j \in 1..Len(effects) : j # i => effects'[j] = effects[j]
    BY <1>1, <1>2, ExceptSeq
  <1>4. shownRun # i
    BY <1>1 DEF DataInv
  <1>5. shownRun # 0 => effects'[shownRun] = effects[shownRun]
    BY <1>1, <1>3, <1>4 DEF DataInv
  <1>6. /\ \A j \in 1..Len(effects') :
              j < Len(effects') \/ ~Data!IsComplete(options') => effects'[j].aborted
        /\ options' \in Asked
        /\ Data!IsComplete(options') =>
              /\ Len(effects') > 0 /\ effects'[Len(effects')].options = options'
              /\ ~effects'[Len(effects')].aborted
    BY <1>1, <1>2, <1>3 DEF DataInv
  <1>7. CASE Ended(run) /\ ~run.aborted
    <2>1. i = Len(effects) /\ Data!IsComplete(options)
      BY <1>1, <1>7 DEF DataInv
    <2>2. shownRun' = i /\ result' = Data!Outcome(effects'[i]) /\ Ended(effects'[i])
      BY <1>2, <1>3, <1>7
    <2>3. QED
      BY <1>1, <1>2, <1>3, <1>6, <2>1, <2>2 DEF DataInv
  <1>8. CASE ~(Ended(run) /\ ~run.aborted)
    <2>1. UNCHANGED <<result, shownRun>>
      BY <1>2, <1>8
    <2>2. Data!IsComplete(options) /\ Ended(effects'[Len(effects)]) => shownRun = Len(effects)
      <3>1. CASE i = Len(effects)
        BY <1>3, <1>8, <3>1 DEF DataInv
      <3>2. CASE i # Len(effects)
        BY <1>1, <1>3, <3>2 DEF DataInv
      <3>3. QED
        BY <3>1, <3>2
    <2>3. /\ result' = IF shownRun' = 0 THEN Data!FixtureResult ELSE Data!Outcome(effects'[shownRun'])
          /\ shownRun' # 0 => Ended(effects'[shownRun'])
      BY <1>5, <2>1 DEF DataInv
    <2>4. QED
      BY <1>2, <1>3, <1>6, <2>1, <2>2, <2>3 DEF DataInv
  <1>9. QED
    BY <1>7, <1>8

\* There is a least among some numbers.
LEMMA LeastNumber ==
    ASSUME NEW S \in SUBSET Nat, S # {}
    PROVE  \E m \in S : \A x \in S : m <= x
  <1> DEFINE less == {p \in Nat \X Nat : p[1] < p[2]}
  <1>1. IsWellFoundedOn(less, Nat)
    BY NatLessThanWellFounded, Zenon DEF OpToRel
  <1>2. \E m \in S : \A x \in S : ~(<<x, m>> \in less)
    <2> DEFINE N == Nat
    <2>1. IsWellFoundedOn(less, N) /\ S \subseteq N
      BY <1>1
    <2> HIDE DEF less, N
    <2> QED BY <2>1, WFMin
  <1>3. \A m \in S, x \in S : ~(<<x, m>> \in less) => m <= x
    <2>1. \A m \in Nat, x \in Nat : ~(<<x, m>> \in less) => m <= x
      OBVIOUS
    <2>2. QED
      BY <2>1
  <1>4. QED
    BY <1>2, <1>3

\* The first valid table of a list is one of the list.
LEMMA FirstValid ==
    ASSUME NEW t \in Tenants, NEW list \in AnsweredLists[t], list \in Seq(Range(list))
    PROVE  Data!LiveWorkforce(list) \in LiveItems \cup {Undefined}
  <1> DEFINE valid == {i \in DOMAIN list : list[i].workforce # Undefined}
  <1>1. DOMAIN list \subseteq Nat
    BY LenProperties
  <1>2. CASE valid # {}
    <2>1. valid \subseteq Nat
      BY <1>1
    <2>2. \E m \in valid : \A x \in valid : m <= x
      <3> HIDE DEF valid
      <3> QED BY <1>2, <2>1, LeastNumber
    <2>3. Data!Min(valid) \in valid
      <3> HIDE DEF valid
      <3> QED BY <2>2 DEF Data!Min
    <2>4. Data!LiveWorkforce(list) = list[Data!Min(valid)]
      BY <1>2 DEF Data!LiveWorkforce
    <2>5. list[Data!Min(valid)] \in Range(list) /\ list[Data!Min(valid)].workforce # Undefined
      BY <2>3 DEF Range
    <2>6. QED
      <3> HIDE DEF valid
      <3> QED BY <2>4, <2>5 DEF LiveItems
  <1>3. CASE valid = {}
    BY <1>3 DEF Data!LiveWorkforce
  <1>4. QED
    BY <1>2, <1>3

\* Every step of the dashboards keeps what is shown with its sources.
LEMMA DataStep == DataInv /\ Data!Next => DataInv'
  <1> SUFFICES ASSUME DataInv, Data!Next PROVE DataInv'
    OBVIOUS
  <1>1. effects \in Seq(Runs) /\ DOMAIN effects = 1..Len(effects)
    BY LenProperties DEF DataInv
  <1>2. ASSUME NEW t \in Tenants \cup {""}, NEW id \in Eea4Ids \cup {""},
               Data!ChangeOptions([tenant |-> t, eea4 |-> id])
        PROVE  DataInv'
    <2>1. [tenant |-> t, eea4 |-> id] \in Asked
      BY DEF Asked
    <2>2. QED
      BY <1>2, <2>1, OptionsChanged
  <1>3. ASSUME NEW i \in DOMAIN effects
        PROVE  /\ effects[i] \in Runs
               /\ effects[i].options.tenant \in Tenants /\ effects[i].options.eea4 \in Eea4Ids
    <2>1. effects[i] \in Runs
      BY <1>1, ElementOfSeq
    <2>2. effects[i].options \in Asked /\ Data!IsComplete(effects[i].options)
      BY <2>1 DEF Runs
    <2>3. QED
      BY <2>1, <2>2 DEF Asked, Data!IsComplete
  <1>4. ASSUME NEW i \in DOMAIN effects,
               NEW list \in AnsweredLists[effects[i].options.tenant] \cup {<<>>},
               Data!FetchLiveWorkforce(i, list)
        PROVE  DataInv'
    <2> DEFINE run == [effects[i] EXCEPT !.workforce = Data!LiveWorkforce(list)]
    <2>1. effects[i].workforce = Absent /\ Data!Arrives(i, run)
      BY <1>4 DEF Data!FetchLiveWorkforce
    <2>2. Data!LiveWorkforce(list) \in LiveItems \cup {Undefined}
      <3>1. CASE list = <<>>
        BY <3>1 DEF Data!LiveWorkforce
      <3>2. CASE list # <<>>
        <4>1. list \in Seq(Range(list))
          BY <1>3, <3>2, AnswersAssumption DEF Range
        <4>2. QED
          BY <1>3, <3>2, <4>1, FirstValid
      <3>3. QED
        BY <3>1, <3>2
    <2>3. /\ run \in Runs /\ run.options = effects[i].options /\ run.aborted = effects[i].aborted
          /\ ~Ended(effects[i])
      BY <1>3, <2>1, <2>2 DEF Runs, Ended
    <2> HIDE DEF run
    <2>4. QED
      BY <2>1, <2>3, AnswerArrived
  <1>5. ASSUME NEW i \in DOMAIN effects,
               NEW matrix \in SectionsC[effects[i].options.eea4] \cup {Undefined},
               Data!FetchLiveRemuneration(i, matrix)
        PROVE  DataInv'
    <2> DEFINE run == [effects[i] EXCEPT !.remuneration = matrix]
    <2>1. effects[i].remuneration = Absent /\ Data!Arrives(i, run)
      BY <1>5 DEF Data!FetchLiveRemuneration
    <2>2. matrix \in SectionsOf \cup {Undefined}
      BY <1>3 DEF SectionsOf
    <2>3. /\ run \in Runs /\ run.options = effects[i].options /\ run.aborted = effects[i].aborted
          /\ ~Ended(effects[i])
      BY <1>3, <2>1, <2>2 DEF Runs, Ended
    <2> HIDE DEF run
    <2>4. QED
      BY <2>1, <2>3, AnswerArrived
  <1>6. QED
    BY <1>2, <1>4, <1>5 DEF Data!Next

\* The two tables are of one request, and no late answer replaces what is shown.
LEMMA DataSources == DataInv => Data!ShownIsOfItsSources
  <1> SUFFICES ASSUME DataInv PROVE Data!ShownIsOfItsSources
    OBVIOUS
  <1>1. DOMAIN effects = 1..Len(effects) /\ Len(effects) \in Nat
    BY LenProperties DEF DataInv
  <1>2. QED
    BY <1>1 DEF DataInv, Ended, Data!ShownIsOfItsSources

\* Heads and figures of a company on the dashboards.
Staffed == [citizens : [Data!PayGroups -> Nat], foreign : [Data!Genders -> Nat], disabled : Nat]
Paid == [Data!PayGroups -> [headcount : Nat, avg : Nat]]
Company == [workforce : [RealLevels -> Staffed], remuneration : [RealLevels -> Paid], penalties : Nat]

\* The groups are finitely many.
LEMMA GroupsAreFinite ==
    /\ IsFiniteSet(Data!PayGroups) /\ IsFiniteSet(Data!Genders)
    /\ \A S \in SUBSET PayRaces : \A e : IsFiniteSet(S \X {e})
  <1>1. IsFiniteSet({"male"} \cup {"female"})
    BY FS_Singleton, FS_Union
  <1>2. {"male"} \cup {"female"} = Data!Genders
    BY DEF Data!Genders
  <1>3. IsFiniteSet(PayRaces) /\ IsFiniteSet(Data!Genders)
    BY <1>1, <1>2, AnswersAssumption
  <1>4. IsFiniteSet(Data!PayGroups)
    BY <1>3, FS_Product DEF Data!PayGroups
  <1>5. ASSUME NEW S \in SUBSET PayRaces, NEW e PROVE IsFiniteSet(S \X {e})
    <2>1. IsFiniteSet(S) /\ IsFiniteSet({e})
      BY <1>3, FS_Subset, FS_Singleton
    <2>2. QED
      BY <2>1, FS_Product
  <1>6. QED
    BY <1>3, <1>4, <1>5

\* A quotient of numbers that are not below zero is not below zero; one is rounded to the
\* nearest.
LEMMA Rounded ==
    ASSUME NEW a \in Int, NEW b \in Nat, b > 0
    PROVE  LET q == Data!Round(a, b)
           IN /\ q \in Int /\ (a >= 0 => q >= 0) /\ 2 * (b * q - a) \in (-b)..b
              /\ (a <= 100 * b => q <= 100)
  <1> DEFINE n == 2 * a + b
             m == 2 * b
             q == n \div m
             t == b * q
  <1>1. Data!Round(a, b) = q
    BY DEF Data!Round
  <1>2. n \in Int /\ m \in Int /\ m > 0
    OBVIOUS
  <1> HIDE DEF n, m
  <1>3. q \in Int /\ m * q <= n /\ n < m * q + m
    BY <1>2, Quotient
  <1> HIDE DEF q
  <1>4. t \in Int /\ m * q = 2 * t
    BY <1>3 DEF m
  <1>5. 2 * (t - a) \in (-b)..b
    <2> HIDE DEF t
    <2>1. QED
      BY <1>3, <1>4 DEF n, m
  <1>6. ASSUME a >= 0 PROVE q >= 0
    <2> SUFFICES ASSUME q <= -1 PROVE FALSE
      BY <1>3
    <2>1. t <= -b
      BY <1>3
    <2> HIDE DEF t
    <2>2. QED
      BY <1>3, <1>4, <1>6, <2>1 DEF n, m
  <1>7. ASSUME a <= 100 * b PROVE q <= 100
    <2> SUFFICES ASSUME q >= 101 PROVE FALSE
      BY <1>3
    <2>1. t >= 101 * b
      BY <1>3
    <2> HIDE DEF t
    <2>2. QED
      BY <1>3, <1>4, <1>7, <2>1 DEF n, m
  <1>8. QED
    BY <1>1, <1>3, <1>5, <1>6, <1>7

\* What is shown is a company.
LEMMA AdaptedWorkforce ==
    ASSUME NEW t \in TableAnswered, NEW d, d = Undefined \/ d \in TableAnswered
    PROVE  Data!AdaptWorkforce(t, d) \in [RealLevels -> Staffed]
  <1> SUFFICES ASSUME NEW l \in RealLevels
               PROVE  [citizens |-> [g \in Data!PayGroups |-> t[l][g]],
                       foreign |-> [g \in Data!Genders |-> t[l][<<"foreign", g>>]],
                       disabled |-> IF d = Undefined THEN 0 ELSE Data!HeadsOf(d[l], Data!PayGroups)] \in Staffed
    BY DEF Data!AdaptWorkforce
  <1>1. \A c \in HeadsAnswered : t[l][c] \in Nat
    BY DEF TableAnswered
  <1>2. (IF d = Undefined THEN 0 ELSE Data!HeadsOf(d[l], Data!PayGroups)) \in Nat
    <2>1. CASE d # Undefined
      <3>1. \A c \in Data!PayGroups : d[l][c] \in Nat
        BY <2>1 DEF TableAnswered, HeadsAnswered
      <3>2. SumFunctionOnSet(d[l], Data!PayGroups) \in Nat
        BY <3>1, GroupsAreFinite, SumNat
      <3>3. QED
        BY <2>1, <3>2, SameSum DEF Data!HeadsOf
    <2>2. QED
      BY <2>1
  <1>3. /\ \A g \in Data!PayGroups : t[l][g] \in Nat
        /\ \A g \in Data!Genders : t[l][<<"foreign", g>>] \in Nat
    BY <1>1 DEF HeadsAnswered
  <1>4. QED
    BY <1>2, <1>3 DEF Staffed

\* The monthly pay of the dashboards is the annual one, rounded.
LEMMA AdaptedRemuneration ==
    ASSUME NEW s \in [RealLevels -> [Data!PayGroups -> [headcount : Nat, total : Nat]]]
    PROVE  /\ Data!AdaptRemuneration(s) \in [RealLevels -> Paid]
           /\ \A l \in RealLevels, g \in Data!PayGroups :
                 LET pay == Data!AdaptRemuneration(s)[l][g]
                 IN pay.headcount = s[l][g].headcount /\
                    (pay.headcount > 0 => 12 * pay.headcount * pay.avg - s[l][g].total
                                             \in (-6 * pay.headcount)..(6 * pay.headcount))
  <1>1. ASSUME NEW l \in RealLevels, NEW g \in Data!PayGroups
        PROVE  /\ Data!BuildGroupPay(s[l][g]) \in [headcount : Nat, avg : Nat]
               /\ LET pay == Data!BuildGroupPay(s[l][g])
                  IN pay.headcount = s[l][g].headcount /\
                     (pay.headcount > 0 => 12 * pay.headcount * pay.avg - s[l][g].total
                                              \in (-6 * pay.headcount)..(6 * pay.headcount))
    <2> DEFINE h == s[l][g].headcount
               total == s[l][g].total
               avg == IF h = 0 THEN 0 ELSE Data!Round(total, 12 * h)
               pay == Data!BuildGroupPay(s[l][g])
    <2>1. pay = [headcount |-> h, avg |-> avg]
      BY DEF Data!BuildGroupPay
    <2>2. h \in Nat /\ total \in Nat
      OBVIOUS
    <2> HIDE DEF pay, h, total
    <2>3. avg \in Nat /\ (h > 0 => 12 * h * avg - total \in (-6 * h)..(6 * h))
      <3>1. CASE h = 0
        BY <2>2, <3>1
      <3>2. CASE h # 0
        <4> DEFINE b == 12 * h
                   q == Data!Round(total, b)
        <4>1. b \in Nat /\ b > 0 /\ total \in Int
          BY <2>2, <3>2
        <4> HIDE DEF b
        <4>2. q \in Int /\ q >= 0 /\ 2 * (b * q - total) \in (-b)..b
          BY <2>2, <4>1, Rounded
        <4> HIDE DEF q
        <4> DEFINE p == b * q
        <4>3. p \in Int
          BY <4>1, <4>2
        <4>4. 2 * (p - total) \in (-b)..b
          BY <4>2
        <4>5. 12 * h * q = p
          BY <2>2, <4>2 DEF b
        <4> HIDE DEF p
        <4>6. p - total \in (-6 * h)..(6 * h)
          BY <2>2, <4>3, <4>4 DEF b
        <4>7. avg = q
          BY <3>2 DEF q, b
        <4>8. QED
          BY <4>2, <4>5, <4>6, <4>7
      <3>3. QED
        BY <3>1, <3>2
    <2> HIDE DEF avg
    <2>4. QED
      BY <2>1, <2>2, <2>3 DEF pay, h, total
  <1>2. \A l \in RealLevels, g \in Data!PayGroups : Data!AdaptRemuneration(s)[l][g] = Data!BuildGroupPay(s[l][g])
    BY DEF Data!AdaptRemuneration
  <1>3. Data!AdaptRemuneration(s) \in [RealLevels -> Paid]
    BY <1>1 DEF Data!AdaptRemuneration, Paid
  <1>4. QED
    BY <1>1, <1>2, <1>3

\* The designated groups and the white men are the citizens.
LEMMA GroupsOfCitizens ==
    ASSUME NEW row \in Staffed
    PROVE  /\ Data!CountCitizens(row) \in Nat /\ Data!CountForeign(row) \in Nat
           /\ Data!DesignatedMale(row) + Data!DesignatedFemale(row) + row.citizens[<<"white", "male">>]
                 = Data!CountCitizens(row)
  <1> DEFINE m == (PayRaces \ {"white"}) \X {"male"}
             w == PayRaces \X {"female"}
             e == <<"white", "male">>
             f == row.citizens
  <1>1. /\ IsFiniteSet(Data!PayGroups) /\ IsFiniteSet(Data!Genders)
        /\ IsFiniteSet(m) /\ IsFiniteSet(w)
    BY GroupsAreFinite, AnswersAssumption
  <1>2. /\ Data!PayGroups = (m \cup w) \cup {e} /\ m \cap w = {} /\ e \notin m \cup w
    BY AnswersAssumption DEF Data!PayGroups, Data!Genders
  <1>3. /\ \A x \in Data!PayGroups : f[x] \in Nat
        /\ \A x \in Data!Genders : row.foreign[x] \in Nat
    BY DEF Staffed
  <1>4. /\ Data!CountCitizens(row) = SumFunctionOnSet(f, Data!PayGroups)
        /\ Data!CountForeign(row) = SumFunctionOnSet(row.foreign, Data!Genders)
        /\ Data!DesignatedMale(row) = SumFunctionOnSet(f, m)
        /\ Data!DesignatedFemale(row) = SumFunctionOnSet(f, w)
    BY SameSum DEF Data!CountCitizens, Data!CountForeign, Data!DesignatedMale,
                   Data!DesignatedFemale, Data!HeadsOf
  <1>5. /\ SumFunctionOnSet(f, Data!PayGroups) \in Nat
        /\ SumFunctionOnSet(row.foreign, Data!Genders) \in Nat
    BY <1>1, <1>3, SumNat
  <1> HIDE DEF m, w, e, f
  <1>6. \A x \in (m \cup w) \cup {e} : f[x] \in Int
    BY <1>2, <1>3
  <1>7. IsFiniteSet(m \cup w)
    BY <1>1, FS_Union
  <1>8. SumFunctionOnSet(f, (m \cup w) \cup {e}) = f[e] + SumFunctionOnSet(f, m \cup w)
    BY <1>2, <1>6, <1>7, SumAdd
  <1>9. SumFunctionOnSet(f, m \cup w) = SumFunctionOnSet(f, m) + SumFunctionOnSet(f, w)
    BY <1>1, <1>2, <1>6, SumUnion
  <1>10. /\ SumFunctionOnSet(f, m) \in Int /\ SumFunctionOnSet(f, w) \in Int /\ f[e] \in Int
    BY <1>1, <1>6, SumInt
  <1>11. QED
    BY <1>2, <1>4, <1>5, <1>8, <1>9, <1>10 DEF e, f

\* A sum of at most ten each.
LEMMA TenEach ==
    ASSUME NEW f, NEW S, IsFiniteSet(S), \A x \in S : f[x] \in 0..10
    PROVE  SumFunctionOnSet(f, S) \in 0..(10 * Cardinality(S))
  <1> DEFINE T == {U \in SUBSET S : SumFunctionOnSet(f, U) \in 0..(10 * Cardinality(U))}
  <1>1. {} \in T
    <2>1. Cardinality({}) = 0
      BY FS_EmptySet
    <2>2. QED
      BY <2>1, SumEmpty
  <1>2. ASSUME NEW U \in SUBSET S, NEW x \in S \ U, U \in T PROVE U \cup {x} \in T
    <2>1. IsFiniteSet(U) /\ Cardinality(U) \in Nat
      BY FS_Subset, FS_CardinalityType
    <2>2. Cardinality(U \cup {x}) = Cardinality(U) + 1
      BY <2>1, FS_AddElement
    <2>3. SumFunctionOnSet(f, U \cup {x}) = f[x] + SumFunctionOnSet(f, U)
      BY <2>1, SumAdd
    <2>4. QED
      BY <1>2, <2>1, <2>2, <2>3
  <1>3. S \in T
    <2> HIDE DEF T
    <2> QED BY <1>1, <1>2, SetInduction
  <1>4. QED
    BY <1>3

\* The score is a percentage: some level is assessed, and no action takes it below zero.
LEMMA ScoreInRange ==
    ASSUME NEW company \in Company
    PROVE  Data!ComputeComplianceScore(company) \in 0..100
  <1> DEFINE levels == Data!ComputeSectorCompliance(company)
             kinds == {"male", "female", "disabled"}
             all == {<<l, k>> : l \in AssessedLevels, k \in kinds}
             points == [lk \in all |->
                           CASE levels[lk[1]].groups[lk[2]].status = "met" -> 10
                             [] levels[lk[1]].groups[lk[2]].status = "close" -> 6
                             [] OTHER -> 0]
             sum == Data!SumFunction(points)
             action == Data!Max({0, 100 - company.penalties})
             n == Cardinality(all)
             a == 6 * sum * 10 + 4 * action * n
             b == 10 * n
  <1>1. Data!ComputeComplianceScore(company) = Data!Round(a, b)
    <2>1. Data!Cardinality(all) = n
      BY DEF Data!Cardinality, Cardinality
    <2>2. QED
      BY <2>1 DEF Data!ComputeComplianceScore
  <1>2. IsFiniteSet(all) /\ n \in Nat /\ n # 0
    <2>1. IsFiniteSet(AssessedLevels)
      BY AnswersAssumption, CompanyAssumption, FS_Subset
    <2>2. IsFiniteSet(({"male"} \cup {"female"}) \cup {"disabled"})
      BY FS_Singleton, FS_Union
    <2>3. ({"male"} \cup {"female"}) \cup {"disabled"} = kinds
      OBVIOUS
    <2>4. IsFiniteSet(AssessedLevels \X kinds)
      BY <2>1, <2>2, <2>3, FS_Product
    <2>5. all = AssessedLevels \X kinds
      OBVIOUS
    <2>6. PICK l \in AssessedLevels : TRUE
      BY CompanyAssumption
    <2>7. <<l, "male">> \in all
      BY <2>6
    <2> HIDE DEF all
    <2>8. QED
      BY <2>4, <2>5, <2>7, FS_CardinalityType, FS_EmptySet
  <1>3. sum \in 0..(10 * n)
    <2>1. \A lk \in all : points[lk] \in 0..10
      <3>1. TAKE lk \in all
      <3>2. QED
        OBVIOUS
    <2>2. sum = SumFunctionOnSet(points, all)
      <3>1. DOMAIN points = all
        OBVIOUS
      <3> HIDE DEF points, all
      <3>2. QED
        BY <3>1, SameSums
    <2> HIDE DEF points, all, sum
    <2>3. QED
      BY <1>2, <2>1, <2>2, TenEach
  <1>4. action \in 0..100
    <2>1. company.penalties \in Nat
      BY DEF Company
    <2>2. \E x \in {0, 100 - company.penalties} : \A y \in {0, 100 - company.penalties} : x >= y
      BY <2>1
    <2>3. /\ action \in {0, 100 - company.penalties}
          /\ \A y \in {0, 100 - company.penalties} : action >= y
      BY <2>2 DEF Data!Max
    <2> HIDE DEF action
    <2>4. QED
      BY <2>1, <2>3
  <1> HIDE DEF sum, action, n
  <1> DEFINE p == action * n
  <1>5. p \in Nat /\ p <= 100 * n
    BY <1>2, <1>4
  <1>6. 4 * action * n = 4 * p
    BY <1>2, <1>4
  <1> HIDE DEF p
  <1>7. a \in Nat /\ b \in Nat /\ b > 0 /\ a <= 100 * b
    BY <1>2, <1>3, <1>5, <1>6
  <1> HIDE DEF a, b
  <1>8. Data!Round(a, b) \in Int /\ Data!Round(a, b) >= 0 /\ Data!Round(a, b) <= 100
    BY <1>7, Rounded
  <1>9. QED
    BY <1>1, <1>8

\* Everybody in the levels of Table 1.1 is on the dashboards, once.
LEMMA NobodyIsLost ==
    ASSUME NEW t \in TableAnswered, NEW d, d = Undefined \/ d \in TableAnswered,
           \A c \in HeadsAnswered :
              t[Data!Total][c] = SumFunction([l \in RealLevels |-> t[l][c]])
    PROVE  Data!SumFunction([l \in RealLevels |-> Data!RowTotal(Data!AdaptWorkforce(t, d)[l])])
              = Data!HeadsOf(t[Data!Total], DOMAIN t[Data!Total])
  <1> DEFINE w == Data!AdaptWorkforce(t, d)
             rows == [l \in RealLevels |-> Data!RowTotal(w[l])]
             top == t[Data!Total]
             cells == [p \in RealLevels \X HeadsAnswered |-> t[p[1]][p[2]]]
             fs == {"foreign"} \X Data!Genders
  <1>1. /\ IsFiniteSet(Data!PayGroups) /\ IsFiniteSet(Data!Genders) /\ IsFiniteSet(RealLevels)
    BY GroupsAreFinite, AnswersAssumption
  <1>2. IsFiniteSet(fs) /\ IsFiniteSet(HeadsAnswered)
    <2>1. IsFiniteSet({"foreign"})
      BY FS_Singleton
    <2>2. IsFiniteSet(fs)
      BY <1>1, <2>1, FS_Product
    <2>3. QED
      BY <1>1, <2>2, FS_Union DEF HeadsAnswered
  <1>3. Data!PayGroups \cap fs = {} /\ HeadsAnswered = Data!PayGroups \cup fs
    BY AnswersAssumption DEF Data!PayGroups, HeadsAnswered
  <1>4. \A l \in RealLevels \cup {Data!Total}, c \in HeadsAnswered : t[l][c] \in Nat
    BY DEF TableAnswered
  <1>5. ASSUME NEW l \in RealLevels
        PROVE  rows[l] = SumFunctionOnSet(t[l], HeadsAnswered)
    <2> DEFINE row == w[l]
               given == t[l]
               g == [x \in {"foreign"} |-> row.foreign]
    <2>1. /\ row.citizens = [x \in Data!PayGroups |-> given[x]]
          /\ row.foreign = [x \in Data!Genders |-> given[<<"foreign", x>>]]
      BY DEF Data!AdaptWorkforce
    <2>2. /\ rows[l] = Data!CountCitizens(row) + Data!CountForeign(row)
          /\ Data!CountCitizens(row) = SumFunctionOnSet(row.citizens, Data!PayGroups)
          /\ Data!CountForeign(row) = SumFunctionOnSet(row.foreign, Data!Genders)
      BY SameSum DEF Data!RowTotal, Data!CountCitizens, Data!CountForeign, Data!HeadsOf
    <2>3. \A x \in HeadsAnswered : given[x] \in Int
      BY <1>4
    <2> HIDE DEF row, given, rows
    <2>4. SumFunctionOnSet(row.citizens, Data!PayGroups) = SumFunctionOnSet(given, Data!PayGroups)
      <3>1. \A x \in Data!PayGroups : row.citizens[x] \in Int /\ row.citizens[x] = given[x]
        BY <1>3, <2>1, <2>3
      <3>2. QED
        BY <1>1, <3>1, SumSame
    <2>5. SumFunctionOnSet(given, fs) = SumFunctionOnSet(row.foreign, Data!Genders)
      <3>1. IsTable(given, g, {"foreign"}, Data!Genders)
        BY <1>3, <2>1, <2>3 DEF IsTable
      <3>2. "foreign" \in {"foreign"} /\ g["foreign"] = row.foreign
        OBVIOUS
      <3> HIDE DEF g
      <3>3. SumFunctionOnSet(given, {"foreign"} \X Data!Genders) = SumFunctionOnSet(g["foreign"], Data!Genders)
        BY <1>1, <3>1, <3>2, SumOfRow
      <3>4. QED
        BY <3>2, <3>3
    <2>6. SumFunctionOnSet(given, Data!PayGroups \cup fs) =
             SumFunctionOnSet(given, Data!PayGroups) + SumFunctionOnSet(given, fs)
      <3> HIDE DEF fs
      <3>1. \A x \in Data!PayGroups \cup fs : given[x] \in Int
        BY <1>3, <2>3
      <3>2. QED
        BY <1>1, <1>2, <1>3, <3>1, SumUnion
    <2>7. QED
      BY <1>3, <2>2, <2>4, <2>5, <2>6 DEF given
  <1>6. ASSUME NEW c \in HeadsAnswered
        PROVE  top[c] = SumFunctionOnSet([l \in RealLevels |-> t[l][c]], RealLevels)
    BY DEF SumFunction, SumFunctionOnSet
  <1>7. DOMAIN top = HeadsAnswered /\ DOMAIN rows = RealLevels
    BY DEF TableAnswered
  <1>8. IsTable(cells, t, RealLevels, HeadsAnswered)
    BY <1>4 DEF IsTable
  <1> HIDE DEF cells, rows, top, w
  <1>9. SumFunctionOnSet(cells, RealLevels \X HeadsAnswered) = SumFunctionOnSet(rows, RealLevels)
    BY <1>1, <1>2, <1>5, <1>8, SumOfRows
  <1>10. SumFunctionOnSet(cells, RealLevels \X HeadsAnswered) = SumFunctionOnSet(top, HeadsAnswered)
    BY <1>1, <1>2, <1>6, <1>8, SumOfColumns
  <1>11. /\ Data!SumFunction(rows) = SumFunctionOnSet(rows, RealLevels)
         /\ Data!HeadsOf(top, HeadsAnswered) = SumFunctionOnSet(top, HeadsAnswered)
    BY <1>7, SameSum, SameSums DEF Data!HeadsOf
  <1>12. QED
    BY <1>7, <1>9, <1>10, <1>11 DEF rows, top, w

\* A group that is flagged is paid less than the white men of its level.
LEMMA FlaggedIsPaidLess ==
    ASSUME NEW pay \in [headcount : Nat, avg : Nat], NEW bench \in [headcount : Nat, avg : Nat],
           Data!Flagged(Data!GapPct(pay, bench))
    PROVE  pay.avg < bench.avg
  <1> DEFINE a == 1000 * (pay.avg - bench.avg)
             b == bench.avg
  <1>1. Data!GapPct(pay, bench) # Undefined /\ Data!GapPct(pay, bench) < -150
    BY DEF Data!Flagged
  <1>2. Data!GapPct(pay, bench) = Data!Round(a, b) /\ b # 0
    BY <1>1 DEF Data!GapPct
  <1>3. a \in Int /\ b \in Nat /\ b > 0
    BY <1>2
  <1> SUFFICES ASSUME pay.avg >= bench.avg PROVE FALSE
    OBVIOUS
  <1>4. a >= 0
    OBVIOUS
  <1> HIDE DEF a, b
  <1>5. Data!Round(a, b) \in Int /\ Data!Round(a, b) >= 0
    BY <1>3, <1>4, Rounded
  <1>6. QED
    BY <1>1, <1>2, <1>5

\* What is live is of answers that were both valid.
LEMMA LiveRun ==
    ASSUME DataInv, result.source = "live"
    PROVE  LET run == effects[shownRun]
           IN /\ run.workforce \in LiveItems /\ run.remuneration \in SectionsOf
              /\ result.company = [DemoCompany EXCEPT
                    !.workforce = Data!AdaptWorkforce(run.workforce.workforce, run.workforce.disability),
                    !.remuneration = Data!AdaptRemuneration(run.remuneration)]
  <1> DEFINE run == effects[shownRun]
  <1>1. Data!FixtureResult.source # "live"
    BY DEF Data!FixtureResult
  <1>2. shownRun # 0 /\ result = Data!Outcome(run)
    BY <1>1 DEF DataInv
  <1>3. run \in Runs /\ Ended(run)
    BY <1>2, ElementOfSeq DEF DataInv
  <1>4. Undefined \notin {run.workforce, run.remuneration}
    BY <1>1, <1>2 DEF Data!Outcome
  <1>5. QED
    BY <1>2, <1>3, <1>4 DEF Data!Outcome, Runs, Ended

\* The tables that were answered.
LEMMA AnsweredTables ==
    /\ \A item \in LiveItems :
          /\ item.workforce \in TableAnswered
          /\ item.disability = Undefined \/ item.disability \in TableAnswered
          /\ \A c \in HeadsAnswered : item.workforce[Data!Total][c] =
                SumFunction([l \in RealLevels |-> item.workforce[l][c]])
    /\ SectionsOf \subseteq [RealLevels -> [Data!PayGroups -> [headcount : Nat, total : Nat]]]
  <1>1. ASSUME NEW item \in LiveItems
        PROVE  /\ item.workforce \in TableAnswered
               /\ item.disability = Undefined \/ item.disability \in TableAnswered
               /\ \A c \in HeadsAnswered : item.workforce[Data!Total][c] =
                     SumFunction([l \in RealLevels |-> item.workforce[l][c]])
    <2>1. /\ {item.workforce, item.disability} \subseteq {Undefined} \cup TableAnswered
          /\ item.workforce # Undefined
          /\ item.workforce # Undefined => \A c \in HeadsAnswered :
                item.workforce[Data!Total][c] = SumFunction([l \in RealLevels |-> item.workforce[l][c]])
      BY AnswersAssumption DEF LiveItems
    <2>2. QED
      BY <2>1
  <1>2. SectionsOf \subseteq [RealLevels -> [Data!PayGroups -> [headcount : Nat, total : Nat]]]
    BY AnswersAssumption DEF SectionsOf
  <1>3. QED
    BY <1>1, <1>2

\* The company on the screen has its figures, the demonstration company or another.
LEMMA CompanyShown ==
    ASSUME DataInv
    PROVE  result.company \in Company
  <1>1. DemoCompany \in Company
    BY CompanyAssumption DEF Company, Staffed, Paid
  <1>2. CASE result.source # "live"
    <2>1. result = Data!FixtureResult
      BY <1>2 DEF DataInv, Data!Outcome
    <2>2. QED
      BY <1>1, <2>1 DEF Data!FixtureResult
  <1>3. CASE result.source = "live"
    <2> DEFINE run == effects[shownRun]
               w == Data!AdaptWorkforce(run.workforce.workforce, run.workforce.disability)
               s == Data!AdaptRemuneration(run.remuneration)
    <2>1. /\ run.workforce \in LiveItems /\ run.remuneration \in SectionsOf
          /\ result.company = [DemoCompany EXCEPT !.workforce = w, !.remuneration = s]
      BY <1>3, LiveRun
    <2>2. w \in [RealLevels -> Staffed]
      BY <2>1, AnsweredTables, AdaptedWorkforce
    <2>3. s \in [RealLevels -> Paid]
      BY <2>1, AnsweredTables, AdaptedRemuneration
    <2> HIDE DEF w, s
    <2>4. QED
      BY <1>1, <2>1, <2>2, <2>3 DEF Company
  <1>4. QED
    BY <1>2, <1>3

\* The figures of the dashboards add up.
LEMMA DataAddsUp ==
    ASSUME DataInv
    PROVE  Data!FiguresAddUp
  <1> DEFINE company == result.company
             levels == Data!ComputeSectorCompliance(company)
             live == effects[shownRun]
  <1>1. company \in Company
    BY CompanyShown
  <1>2. ASSUME NEW l \in RealLevels
        PROVE  /\ Data!DesignatedMale(company.workforce[l]) + Data!DesignatedFemale(company.workforce[l])
                     + company.workforce[l].citizens[<<"white", "male">>] = levels[l].citizens
               /\ levels[l].status = "gap" => l \in AssessedLevels
    <2>1. company.workforce[l] \in Staffed
      BY <1>1 DEF Company
    <2>2. levels[l].citizens = Data!CountCitizens(company.workforce[l])
      BY DEF Data!ComputeSectorCompliance
    <2>3. ASSUME l \notin AssessedLevels PROVE levels[l].status # "gap"
      <3>1. levels[l].status = Data!WorstStatus(<<>>)
        BY <2>3 DEF Data!ComputeSectorCompliance
      <3>2. DOMAIN <<>> = {}
        OBVIOUS
      <3>3. Data!WorstStatus(<<>>) = "met"
        BY <3>2 DEF Data!WorstStatus
      <3>4. QED
        BY <3>1, <3>3
    <2> HIDE DEF levels, company
    <2>4. QED
      BY <2>1, <2>2, <2>3, GroupsOfCitizens
  <1>3. Data!ComputeComplianceScore(company) \in 0..100
    BY <1>1, ScoreInRange
  <1>4. ASSUME result.source = "live"
        PROVE  /\ Data!SumFunction([l \in RealLevels |-> Data!RowTotal(company.workforce[l])])
                     = Data!HeadsOf(live.workforce.workforce[Data!Total],
                                    DOMAIN live.workforce.workforce[Data!Total])
               /\ \A l \in RealLevels, g \in Data!PayGroups :
                     LET pay == company.remuneration[l][g]
                         given == live.remuneration[l][g]
                     IN /\ pay.headcount > 0 =>
                              12 * pay.headcount * pay.avg - given.total
                                  \in (-6 * pay.headcount)..(6 * pay.headcount)
                        /\ g # <<"white", "male">> /\ Data!Flagged(Data!ComputeEea4Breakdown(company)[l][g]) =>
                              pay.avg < company.remuneration[l][<<"white", "male">>].avg
    <2> DEFINE t == live.workforce.workforce
               d == live.workforce.disability
               s == live.remuneration
               w == Data!AdaptWorkforce(t, d)
               r == Data!AdaptRemuneration(s)
    <2>1. /\ live.workforce \in LiveItems /\ s \in SectionsOf
          /\ company = [DemoCompany EXCEPT !.workforce = w, !.remuneration = r]
      BY <1>4, LiveRun
    <2>2. company.workforce = w /\ company.remuneration = r
      BY <2>1, CompanyAssumption
    <2>3. /\ t \in TableAnswered /\ (d = Undefined \/ d \in TableAnswered)
          /\ \A c \in HeadsAnswered :
                t[Data!Total][c] = SumFunction([l \in RealLevels |-> t[l][c]])
          /\ s \in [RealLevels -> [Data!PayGroups -> [headcount : Nat, total : Nat]]]
      BY <2>1, AnsweredTables
    <2> HIDE DEF t, d, s
    <2>4. Data!SumFunction([l \in RealLevels |-> Data!RowTotal(w[l])])
             = Data!HeadsOf(t[Data!Total], DOMAIN t[Data!Total])
      BY <2>3, NobodyIsLost
    <2>5. ASSUME NEW l \in RealLevels, NEW g \in Data!PayGroups
          PROVE  /\ r[l][g].headcount > 0 =>
                       12 * r[l][g].headcount * r[l][g].avg - s[l][g].total
                           \in (-6 * r[l][g].headcount)..(6 * r[l][g].headcount)
                 /\ g # <<"white", "male">> /\ Data!Flagged(Data!ComputeEea4Breakdown(company)[l][g]) =>
                       r[l][g].avg < r[l][<<"white", "male">>].avg
      <3>1. /\ r \in [RealLevels -> Paid]
            /\ r[l][g].headcount = s[l][g].headcount
            /\ r[l][g].headcount > 0 => 12 * r[l][g].headcount * r[l][g].avg - s[l][g].total
                           \in (-6 * r[l][g].headcount)..(6 * r[l][g].headcount)
        BY <2>3, AdaptedRemuneration
      <3> DEFINE e == <<"white", "male">>
      <3>2. e \in Data!PayGroups
        BY AnswersAssumption DEF Data!PayGroups, Data!Genders
      <3>3. /\ r[l][g] \in [headcount : Nat, avg : Nat]
            /\ r[l][e] \in [headcount : Nat, avg : Nat]
        BY <3>1, <3>2 DEF Paid
      <3>4. ASSUME g # e, Data!Flagged(Data!ComputeEea4Breakdown(company)[l][g])
            PROVE  r[l][g].avg < r[l][e].avg
        <4>1. Data!ComputeEea4Breakdown(company)[l][g] = Data!GapPct(r[l][g], r[l][e])
          BY <2>2, <3>4 DEF Data!ComputeEea4Breakdown
        <4>2. QED
          BY <3>3, <3>4, <4>1, FlaggedIsPaidLess
      <3>5. QED
        BY <3>1, <3>4
    <2> HIDE DEF w, r
    <2>6. QED
      BY <2>2, <2>4, <2>5 DEF t, s
  <1>5. QED
    BY <1>2, <1>3, <1>4 DEF Data!FiguresAddUp

(***************************************************************************)
(* The pages together.                                                      *)
(***************************************************************************)
\* An EEA4 that was just opened has handed over what it shows.
LEMMA Handed4Init == Form4!Init => Handed4
  <1> SUFFICES ASSUME Form4!Init PROVE Handed4
    OBVIOUS
  <1>1. /\ step = "c" /\ report = Form4!BlankReport /\ sent = report
        /\ formState = [s \in Form4!MatrixSteps \cup {"e", "eea2"} |-> Undefined]
    BY DEF Form4!Init
  <1>2. Figures4 \subseteq Form4!MatrixSteps \cup {"e", "eea2"}
    BY DEF Figures4, Form4!MatrixSteps
  <1>3. Figures4 \cup {"linked"} \subseteq DOMAIN Form4!BlankReport /\ step \in Form4!StepIds
    BY <1>1 DEF Form4!BlankReport, Figures4, Form4!StepIds, Form4!MatrixSteps
  <1>4. QED
    BY <1>1, <1>2, <1>3 DEF Handed4

\* So has an EEA12.
LEMMA Handed12Init == Form12!Init => Handed12
  <1> SUFFICES ASSUME Form12!Init PROVE Handed12
    OBVIOUS
  <1>1. formState = Form12!BlankForm /\ sent.form = Form12!BlankForm
    BY DEF Form12!Init
  <1>2. {"a", "b", "c"} \subseteq DOMAIN Form12!BlankForm
    BY DEF Form12!BlankForm
  <1>3. QED
    BY <1>1, <1>2 DEF Handed12, Form12!EditsAreHandedOver

\* The inductive invariant: that of the page on the screen.
IInv ==
    /\ page = "sign"  => SignInv
    /\ page = "eea1"  => DeclaredInv /\ Handed1
    /\ page = "eea2"  => Handed2 /\ Inv2
    /\ page = "eea4"  => Handed4 /\ Inv4
    /\ page = "eea12" => Handed12 /\ Inv12
    /\ page = "eea13" => Inv13 /\ sent = formState
    /\ page = "dashboards" => DataInv

\* A page that was just opened has its invariant.
LEMMA PagesInit == Init => IInv
  <1>1. ASSUME page = "eea13", Form13!Init PROVE sent = formState
    BY <1>1 DEF Form13!Init
  <1>2. QED
    BY <1>1, Inv13Init, SignInit, DeclaredInit, Handed1Init, Handed2Init, Handed4Init, Handed12Init,
       Inv2Init, Inv4Init, Inv12Init, DataInit
    DEF Init, IInv

\* A step is one of the page on the screen, and keeps that page's invariant.
LEMMA PagesStep == IInv /\ [Next]_vars => IInv'
  <1> SUFFICES ASSUME IInv, [Next]_vars PROVE IInv'
    OBVIOUS
  <1>1. CASE page = "sign" /\ Sign!Next /\ UNCHANGED page
    BY <1>1, SignStep DEF IInv
  <1>2. CASE page = "eea1" /\ Form1!Next /\ UNCHANGED page
    BY <1>2, DeclaredStep, Handed1Step DEF IInv
  <1>3. CASE page = "eea2" /\ Form2!Next /\ UNCHANGED page
    BY <1>3, Handed2Step, Inv2Step DEF IInv
  <1>4. CASE page = "eea4" /\ Form4!Next /\ UNCHANGED page
    BY <1>4, Handed4Step, Inv4Step DEF IInv
  <1>5. CASE page = "eea12" /\ Form12!Next /\ UNCHANGED page
    BY <1>5, Handed12Step, Inv12Step DEF IInv
  <1>6. CASE page = "eea13" /\ Form13!Next /\ UNCHANGED page
    BY <1>6, Handed13Step, Inv13Step DEF IInv
  <1>7. CASE page = "dashboards" /\ Data!Next /\ UNCHANGED page
    BY <1>7, DataStep DEF IInv
  <1>8. CASE UNCHANGED vars
    <2>1. UNCHANGED <<page, step, formState, sent>>
      BY <1>8 DEF vars, shell
    <2>2. SignInv' <=> SignInv
      BY <1>8 DEF vars, onlySign, SignInv, Unraced
    <2>3. DeclaredInv' <=> DeclaredInv
      BY <2>1, <1>8 DEF vars, only1, DeclaredInv
    <2>4. Handed1' <=> Handed1
      BY <2>1, <1>8 DEF vars, only1, Handed1
    <2>5. Handed2' <=> Handed2
      BY <2>1, <1>8 DEF vars, only2, Handed2
    <2>6. Handed4' <=> Handed4
      BY <2>1, <1>8 DEF vars, only4, Handed4
    <2>7. Handed12' <=> Handed12
      BY <2>1, <1>8 DEF vars, only12, Handed12, Form12!EditsAreHandedOver
    <2>8. Inv13' <=> Inv13
      <3>1. UNCHANGED <<editors, made>>
        BY <1>8 DEF vars, only13
      <3>2. Form13!Plans' = Form13!Plans
        BY <2>1 DEF Form13!Plans
      <3>3. QED
        BY <2>1, <3>1, <3>2 DEF Inv13, Base13
    <2>9. Inv2' <=> Inv2
      <3>1. UNCHANGED <<context, prefill, submitted, contact, checked>>
        BY <1>8 DEF vars, only2
      <3>2. QED
        BY <2>1, <3>1 DEF Inv2, Profile2, Flags2, Form2!SubmittedUnflagged
    <2>10. Inv4' <=> Inv4
      <3>1. UNCHANGED <<available, report, local, touched>>
        BY <1>8 DEF vars, only4
      <3>2. Form4!SignedOverSoundFigures' <=> Form4!SignedOverSoundFigures
        BY <3>1 DEF Form4!SignedOverSoundFigures, Form4!Signed, Form4!Total
      <3>3. Form4!Source(formState)' = Form4!Source(formState)
        BY <2>1 DEF Form4!Source
      <3>4. QED
        BY <2>1, <3>1, <3>2, <3>3 DEF Inv4, Form4!Signed, Form4!IsLinked
    <2>11. Inv12' <=> Inv12
      <3>1. UNCHANGED <<period, linked, prefilled, typed, basis>>
        BY <1>8 DEF vars, only12
      <3>2. QED
        BY <2>1, <3>1 DEF Inv12
    <2>12. DataInv' <=> DataInv
      BY <1>8 DEF vars, onlyData, DataInv
    <2>13. QED
      BY <2>1, <2>2, <2>3, <2>4, <2>5, <2>6, <2>7, <2>8, <2>9, <2>10, <2>11, <2>12 DEF IInv
  <1>9. QED
    BY <1>1, <1>2, <1>3, <1>4, <1>5, <1>6, <1>7, <1>8 DEF Next

\* On every page its invariant holds.
THEOREM Inductive == Spec => []IInv
  BY PagesInit, PagesStep, PTL DEF Spec

\* The signing page signs a form once, unless a signature is committed while another handler
\* has read the draft, and what it signed it shows locked.
THEOREM SignedOnce == Spec => []SignedOnceAndSeen
  <1>1. IInv => SignedOnceAndSeen
    BY UndefinedAssumption
    DEF IInv, SignInv, Unraced, SignedOnceAndSeen, Sign!SignedOnceAndSeen, Sign!IsSubmitting
  <1>2. QED
    BY <1>1, Inductive, PTL

\* What is posted and stored is what was answered, with a signature that was drawn.
THEOREM Declared == Spec => []DeclaredAsAnswered
  <1>1. DeclaredInv => Form1!DeclaredAsAnswered
    BY DEF DeclaredInv, PostOf, FiledAs, Form1!DeclaredAsAnswered
  <1>2. IInv => DeclaredAsAnswered
    BY <1>1 DEF IInv, DeclaredAsAnswered
  <1>3. QED
    BY <1>2, Inductive, PTL

\* Every form has handed over what its sections show.
THEOREM HandedOver == Spec => []EditsAreHandedOver
  <1>1. Handed1 => Form1!EditsAreHandedOver
    BY DEF Handed1, DetailsOf, NationalityOf, Form1!EditsAreHandedOver, Form1!PersonalDetails
  <1>2. Handed2 => Form2!EditsAreHandedOver
    BY DEF Handed2, Chained, C1Of, Form2!EditsAreHandedOver
  <1>3. Handed4 => Form4!ReportIsHandedOver
    BY DEF Handed4, Figures4, Form4!ReportIsHandedOver, Form4!MatrixSteps
  <1>4. Handed12 => Form12!EditsAreHandedOver
    BY DEF Handed12
  <1>5. sent = formState => Form13!EditsAreHandedOver
    BY DEF Form13!EditsAreHandedOver
  <1>6. IInv => EditsAreHandedOver
    BY <1>1, <1>2, <1>3, <1>4, <1>5 DEF IInv, EditsAreHandedOver
  <1>7. QED
    BY <1>6, Inductive, PTL

\* The plan keeps its years, its minimums, its edits and its barriers apart.
THEOREM Planned == Spec => []PlansStaySound
  <1>1. IInv => PlansStaySound
    BY Sound13Plan DEF IInv, PlansStaySound
  <1>2. QED
    BY <1>1, Inductive, PTL

\* Every matrix adds up, and nobody is lost or counted twice on the way to the dashboards.
THEOREM AddedUp == Spec => []FiguresAddUp
  <1>1. IInv => FiguresAddUp
    BY Figures2, Figures4AddUp, DataAddsUp DEF IInv, FiguresAddUp
  <1>2. QED
    BY <1>1, Inductive, PTL

\* The flags of the EEA2 and the comparison of the EEA12 are of the figures there are.
THEOREM Flagged == Spec => []FlagsAreOfTheFigures
  <1>1. IInv => FlagsAreOfTheFigures
    BY Flagged2, Comparison12 DEF IInv, FlagsAreOfTheFigures
  <1>2. QED
    BY <1>1, Inductive, PTL

\* What goes to the CEO, and what the CEO signs, is sound.
THEOREM SignedSound == Spec => []SignedOverSoundFigures
  <1>1. IInv => SignedOverSoundFigures
    BY Flagged2 DEF IInv, Inv4, SignedOverSoundFigures
  <1>2. QED
    BY <1>1, Inductive, PTL

\* What is shown is of its sources, and of no answer that came too late.
THEOREM OfItsSources == Spec => []ShownIsOfItsSources
  <1>1. IInv => ShownIsOfItsSources
    BY Sources2, Sources12, DataSources DEF IInv, ShownIsOfItsSources
  <1>2. QED
    BY <1>1, Inductive, PTL
=============================================================================
