-------------------------------- MODULE Sums --------------------------------
(***************************************************************************)
(* Sums of a function over a finite set: the SumFunction of the community  *)
(* modules, which folds its values in an order CHOOSE picks.  The fold is  *)
(* well defined, and its value does not depend on the order.               *)
(***************************************************************************)
EXTENDS FiniteSetTheorems, TLAPS

\* The fold as a table: what it gives for each subset, from the smaller ones.
Pick(s) == CHOOSE x \in s : TRUE
Entry(g, f, s) == IF s = {} THEN 0 ELSE f[Pick(s)] + g[s \ {Pick(s)}]
Table(g, f, S) == g = [s \in SUBSET S |-> Entry(g, f, s)]
SomeTable(f, S) == CHOOSE g : Table(g, f, S)

\* The community modules' sum is the table's entry for the whole set.
LEMMA Unfold == ASSUME NEW f, NEW S PROVE SumFunctionOnSet(f, S) = SomeTable(f, S)[S]
BY DEF SumFunctionOnSet, FoldFunctionOnSet, MapThenFoldSet, Entry, Table, SomeTable, Pick

\* The element the fold picks is one of the set's.
LEMMA PickIsElement == ASSUME NEW s, s # {} PROVE Pick(s) \in s
BY DEF Pick

\* Induction over the subsets of a finite set, as a smallest counterexample.
LEMMA LeastSet ==
    ASSUME NEW S, IsFiniteSet(S), NEW F, F \subseteq SUBSET S, F # {}
    PROVE  \E T \in F : \A U \in F : U \subseteq T => U = T
<1> DEFINE R == StrictSubsetOrdering(S)
<1>1. IsWellFoundedOn(R, SUBSET S)
  BY FS_StrictSubsetOrderingWellFounded, FS_FiniteSubsetsOfFinite
<1>2. PICK T \in F : \A U \in F : <<U, T>> \notin R
  <2> HIDE DEF R
  <2> QED BY <1>1, WFMin
<1>3. \A U \in F : U \subseteq T => U = T
  <2> SUFFICES ASSUME NEW U \in F, U \subseteq T, U # T PROVE FALSE
    OBVIOUS
  <2>1. <<U, T>> \in (SUBSET S) \X (SUBSET S)
    OBVIOUS
  <2>2. <<U, T>> \in R
    BY <2>1 DEF StrictSubsetOrdering
  <2> QED BY <2>2, <1>2
<1> QED BY <1>3

\* Two tables agree on the subsets they share.
LEMMA TablesAgree ==
    ASSUME NEW S, IsFiniteSet(S), NEW f, NEW T \in SUBSET S,
           NEW g, Table(g, f, S), NEW h, Table(h, f, T)
    PROVE  \A s \in SUBSET T : g[s] = h[s]
<1> DEFINE Bad == {s \in SUBSET T : g[s] # h[s]}
<1> SUFFICES ASSUME Bad # {} PROVE FALSE
  OBVIOUS
<1>1. PICK s \in Bad : \A u \in Bad : u \subseteq s => u = s
  <2>1. Bad \subseteq SUBSET S
    OBVIOUS
  <2> HIDE DEF Bad
  <2> QED BY <2>1, LeastSet
<1>2. g[s] = Entry(g, f, s) /\ h[s] = Entry(h, f, s)
  BY DEF Table
<1>3. s # {}
  BY <1>2 DEF Entry
<1> DEFINE u == s \ {Pick(s)}
<1>4. u \in SUBSET T /\ u \subseteq s /\ u # s
  BY <1>3, PickIsElement
<1>5. g[u] = h[u]
  BY <1>1, <1>4
<1> QED BY <1>2, <1>3, <1>5 DEF Entry

\* There is a table for every finite set: the fold is well defined.
LEMMA TableExists ==
    ASSUME NEW S, IsFiniteSet(S), NEW f
    PROVE  Table(SomeTable(f, S), f, S)
<1> DEFINE Bad == {T \in SUBSET S : ~ Table(SomeTable(f, T), f, T)}
<1> SUFFICES ASSUME Bad # {} PROVE FALSE
  OBVIOUS
<1>1. PICK T \in Bad : \A U \in Bad : U \subseteq T => U = T
  <2> HIDE DEF Bad
  <2>1. Bad \subseteq SUBSET S
    BY DEF Bad
  <2> QED BY <2>1, LeastSet
<1>2. \A U \in SUBSET T : U # T => Table(SomeTable(f, U), f, U)
  BY <1>1
<1> DEFINE g == [s \in SUBSET T |-> IF s = {} THEN 0
                   ELSE f[Pick(s)] + SomeTable(f, s \ {Pick(s)})[s \ {Pick(s)}]]
<1>3. ASSUME NEW u \in SUBSET T, u # T PROVE g[u] = SomeTable(f, u)[u]
  <2> DEFINE h == SomeTable(f, u)
  <2>1. Table(h, f, u)
    BY <1>2, <1>3
  <2>2. h[u] = Entry(h, f, u)
    BY <2>1 DEF Table
  <2>3. CASE u = {}
    BY <2>2, <2>3 DEF Entry
  <2>4. CASE u # {}
    <3> DEFINE v == u \ {Pick(u)}
    <3>1. v \in SUBSET u /\ v \in SUBSET T /\ v # T /\ IsFiniteSet(u)
      BY <1>3, <2>4, PickIsElement, FS_Subset
    <3>2. Table(SomeTable(f, v), f, v)
      BY <1>2, <3>1
    <3>3. h[v] = SomeTable(f, v)[v]
      <4> HIDE DEF h, v
      <4> QED BY <2>1, <3>1, <3>2, TablesAgree
    <3> QED BY <2>2, <2>4, <3>3 DEF Entry
  <2> QED BY <2>3, <2>4
<1>4. \A s \in SUBSET T : g[s] = Entry(g, f, s)
  <2> SUFFICES ASSUME NEW s \in SUBSET T, s # {} PROVE g[s] = Entry(g, f, s)
    BY DEF Entry
  <2> DEFINE u == s \ {Pick(s)}
  <2>1. u \in SUBSET T /\ u # T
    BY PickIsElement
  <2>2. g[u] = SomeTable(f, u)[u]
    BY <2>1, <1>3
  <2> QED BY <2>2 DEF Entry
<1>5. Table(g, f, T)
  <2>1. g = [s \in SUBSET T |-> g[s]]
    OBVIOUS
  <2> HIDE DEF g
  <2> QED BY <1>4, <2>1 DEF Table
<1>6. Table(SomeTable(f, T), f, T)
  <2> HIDE DEF g
  <2> QED BY <1>5 DEF SomeTable
<1> QED BY <1>6, <1>1

\* The sum over the empty set.
LEMMA SumEmpty == ASSUME NEW f PROVE SumFunctionOnSet(f, {}) = 0
<1>1. Table(SomeTable(f, {}), f, {})
  BY TableExists, FS_EmptySet
<1>2. SomeTable(f, {})[{}] = Entry(SomeTable(f, {}), f, {})
  BY <1>1 DEF Table
<1> QED BY <1>2, Unfold DEF Entry

\* The sum is the value at the picked element and the sum over the rest.
LEMMA SumPick ==
    ASSUME NEW f, NEW S, IsFiniteSet(S), S # {}
    PROVE  SumFunctionOnSet(f, S) = f[Pick(S)] + SumFunctionOnSet(f, S \ {Pick(S)})
<1> DEFINE g == SomeTable(f, S)
           T == S \ {Pick(S)}
<1>1. Table(g, f, S)
  BY TableExists
<1>2. g[S] = Entry(g, f, S)
  BY <1>1 DEF Table
<1>3. T \in SUBSET S /\ IsFiniteSet(T)
  BY FS_Subset
<1>4. Table(SomeTable(f, T), f, T)
  BY <1>3, TableExists
<1>5. g[T] = SomeTable(f, T)[T]
  <2> HIDE DEF g, T
  <2> QED BY <1>1, <1>3, <1>4, TablesAgree
<1> QED BY <1>2, <1>5, Unfold DEF Entry

\* A sum of integers is an integer.
LEMMA SumInt ==
    ASSUME NEW S, IsFiniteSet(S), NEW f, \A x \in S : f[x] \in Int
    PROVE  SumFunctionOnSet(f, S) \in Int
<1> DEFINE Bad == {T \in SUBSET S : SumFunctionOnSet(f, T) \notin Int}
<1> SUFFICES ASSUME Bad # {} PROVE FALSE
  OBVIOUS
<1>1. PICK T \in Bad : \A U \in Bad : U \subseteq T => U = T
  <2>1. Bad \subseteq SUBSET S
    OBVIOUS
  <2> HIDE DEF Bad
  <2> QED BY <2>1, LeastSet
<1>2. T # {} /\ IsFiniteSet(T)
  <2>1. {} \notin Bad
    BY SumEmpty
  <2> QED BY <2>1, FS_Subset
<1> DEFINE U == T \ {Pick(T)}
<1>3. SumFunctionOnSet(f, U) \in Int /\ f[Pick(T)] \in Int
  BY <1>1, <1>2, PickIsElement
<1> QED BY <1>2, <1>3, SumPick

\* Any element may be taken out first.
LEMMA SumTake ==
    ASSUME NEW S, IsFiniteSet(S), NEW f, \A x \in S : f[x] \in Int
    PROVE  \A a \in S : SumFunctionOnSet(f, S) = f[a] + SumFunctionOnSet(f, S \ {a})
<1> DEFINE Bad == {T \in SUBSET S : \E a \in T :
                     SumFunctionOnSet(f, T) # f[a] + SumFunctionOnSet(f, T \ {a})}
<1> SUFFICES ASSUME Bad # {} PROVE FALSE
  OBVIOUS
<1>1. PICK T \in Bad : \A U \in Bad : U \subseteq T => U = T
  <2>1. Bad \subseteq SUBSET S
    OBVIOUS
  <2> HIDE DEF Bad
  <2> QED BY <2>1, LeastSet
<1>2. PICK a \in T : SumFunctionOnSet(f, T) # f[a] + SumFunctionOnSet(f, T \ {a})
  OBVIOUS
<1> DEFINE p == Pick(T)
<1>3. T # {} /\ IsFiniteSet(T) /\ p \in T
  BY FS_Subset, PickIsElement
<1>4. SumFunctionOnSet(f, T) = f[p] + SumFunctionOnSet(f, T \ {p})
  BY <1>3, SumPick
<1>5. a # p
  BY <1>2, <1>4
<1>6. SumFunctionOnSet(f, T \ {p}) = f[a] + SumFunctionOnSet(f, (T \ {p}) \ {a})
  <2>1. T \ {p} \notin Bad /\ T \ {p} \in SUBSET S /\ a \in T \ {p}
    BY <1>1, <1>3, <1>5
  <2> HIDE DEF p
  <2> QED BY <2>1
<1>7. SumFunctionOnSet(f, T \ {a}) = f[p] + SumFunctionOnSet(f, (T \ {a}) \ {p})
  <2>1. T \ {a} \notin Bad /\ T \ {a} \in SUBSET S /\ p \in T \ {a}
    BY <1>1, <1>3, <1>5
  <2> HIDE DEF p
  <2> QED BY <2>1
<1>8. (T \ {a}) \ {p} = (T \ {p}) \ {a}
  OBVIOUS
<1>9. /\ f[a] \in Int /\ f[p] \in Int
      /\ SumFunctionOnSet(f, (T \ {p}) \ {a}) \in Int
  <2>1. IsFiniteSet((T \ {p}) \ {a})
    BY <1>3, FS_Subset
  <2>2. \A x \in (T \ {p}) \ {a} : f[x] \in Int
    OBVIOUS
  <2>3. SumFunctionOnSet(f, (T \ {p}) \ {a}) \in Int
    <3> HIDE DEF p
    <3> QED BY <2>1, <2>2, SumInt
  <2> QED BY <2>3, <1>3
<1>10. SumFunctionOnSet(f, T) = f[a] + SumFunctionOnSet(f, T \ {a})
  <2> DEFINE rest == SumFunctionOnSet(f, (T \ {p}) \ {a})
             left == SumFunctionOnSet(f, T \ {a})
             right == SumFunctionOnSet(f, T \ {p})
             all == SumFunctionOnSet(f, T)
  <2>1. left = f[p] + rest
    BY <1>7, <1>8
  <2>2. right = f[a] + rest /\ all = f[p] + right /\ rest \in Int
    BY <1>4, <1>6, <1>9
  <2>3. all = f[a] + left
    <3> HIDE DEF p, rest, left, right, all
    <3> QED BY <2>1, <2>2, <1>9
  <2> QED BY <2>3
<1> QED BY <1>2, <1>10

\* Functions that agree on the set have the same sum.
LEMMA SumAgrees ==
    ASSUME NEW S, IsFiniteSet(S), NEW f, NEW g,
           \A x \in S : f[x] = g[x]
    PROVE  SumFunctionOnSet(f, S) = SumFunctionOnSet(g, S)
<1> DEFINE Bad == {T \in SUBSET S : SumFunctionOnSet(f, T) # SumFunctionOnSet(g, T)}
<1> SUFFICES ASSUME Bad # {} PROVE FALSE
  OBVIOUS
<1>1. PICK T \in Bad : \A U \in Bad : U \subseteq T => U = T
  <2>1. Bad \subseteq SUBSET S
    OBVIOUS
  <2> HIDE DEF Bad
  <2> QED BY <2>1, LeastSet
<1>2. T # {} /\ IsFiniteSet(T)
  <2>1. {} \notin Bad
    BY SumEmpty
  <2> QED BY <2>1, FS_Subset
<1> DEFINE U == T \ {Pick(T)}
<1>3. SumFunctionOnSet(f, U) = SumFunctionOnSet(g, U) /\ f[Pick(T)] = g[Pick(T)]
  BY <1>1, <1>2, PickIsElement
<1> QED BY <1>2, <1>3, SumPick

\* One value of the function changes.
LEMMA SumUpdate ==
    ASSUME NEW S, IsFiniteSet(S), NEW f \in [S -> Int], NEW a \in S, NEW v \in Int
    PROVE  SumFunction([f EXCEPT ![a] = v]) = (SumFunction(f) - f[a]) + v
<1> DEFINE g == [f EXCEPT ![a] = v]
           R == S \ {a}
<1>1. g \in [S -> Int] /\ DOMAIN g = S /\ DOMAIN f = S /\ g[a] = v
  OBVIOUS
<1>2. IsFiniteSet(R)
  BY FS_Subset
<1>3. \A x \in R : g[x] = f[x] /\ f[x] \in Int
  OBVIOUS
<1>a. f[a] \in Int /\ \A x \in S : g[x] \in Int /\ f[x] \in Int
  BY <1>1
<1> HIDE DEF g, R
<1>4. SumFunctionOnSet(f, R) = SumFunctionOnSet(g, R) /\ SumFunctionOnSet(f, R) \in Int
  BY <1>2, <1>3, SumAgrees, SumInt
<1>5. SumFunctionOnSet(f, S) = f[a] + SumFunctionOnSet(f, R)
  BY <1>a, SumTake DEF R
<1>6. SumFunctionOnSet(g, S) = g[a] + SumFunctionOnSet(g, R)
  BY <1>a, SumTake DEF R
<1>7. SumFunction(f) = SumFunctionOnSet(f, S) /\ SumFunction(g) = SumFunctionOnSet(g, S)
  BY <1>1 DEF SumFunction
<1>8. SumFunction(g) = (SumFunction(f) - f[a]) + v
  BY <1>1, <1>a, <1>4, <1>5, <1>6, <1>7
<1> QED BY <1>8 DEF g

\* Where no value exceeds another function's by more than one, the sum exceeds the
\* other's by no more than the number of elements where one does.
LEMMA SumExcess ==
    ASSUME NEW S, IsFiniteSet(S), NEW f, NEW g,
           \A x \in S : f[x] \in Int /\ g[x] \in Int /\ f[x] <= g[x] + 1
    PROVE  SumFunctionOnSet(f, S)
             <= SumFunctionOnSet(g, S) + Cardinality({x \in S : f[x] > g[x]})
<1> DEFINE Over(T) == {x \in T : f[x] > g[x]}
           Bad == {T \in SUBSET S : ~(SumFunctionOnSet(f, T)
                     <= SumFunctionOnSet(g, T) + Cardinality(Over(T)))}
<1> SUFFICES ASSUME Bad # {} PROVE FALSE
  OBVIOUS
<1>1. PICK T \in Bad : \A U \in Bad : U \subseteq T => U = T
  <2>1. Bad \subseteq SUBSET S
    OBVIOUS
  <2> HIDE DEF Bad
  <2> QED BY <2>1, LeastSet
<1>2. T # {} /\ IsFiniteSet(T)
  <2>1. Over({}) = {} /\ Cardinality({}) = 0
    BY FS_EmptySet
  <2>2. {} \notin Bad
    BY <2>1, SumEmpty
  <2> QED BY <2>2, FS_Subset
<1> DEFINE p == Pick(T)
           U == T \ {p}
<1>3. p \in T /\ U \in SUBSET S /\ U # T /\ U \subseteq T /\ IsFiniteSet(U)
  BY <1>2, PickIsElement, FS_Subset
<1>4. SumFunctionOnSet(f, U) <= SumFunctionOnSet(g, U) + Cardinality(Over(U))
  <2>1. U \notin Bad
    <3> HIDE DEF Bad, U
    <3> QED BY <1>1, <1>3
  <2> QED BY <2>1, <1>3
<1>5. /\ SumFunctionOnSet(f, U) \in Int /\ SumFunctionOnSet(g, U) \in Int
      /\ f[p] \in Int /\ g[p] \in Int /\ f[p] <= g[p] + 1
  <2>1. \A x \in U : f[x] \in Int /\ g[x] \in Int
    OBVIOUS
  <2> HIDE DEF U
  <2> QED BY <1>3, <2>1, SumInt
<1>6. IsFiniteSet(Over(U)) /\ Cardinality(Over(U)) \in Nat /\ p \notin Over(U)
  BY <1>3, FS_Subset, FS_CardinalityType
<1>7. /\ SumFunctionOnSet(f, T) = f[p] + SumFunctionOnSet(f, U)
      /\ SumFunctionOnSet(g, T) = g[p] + SumFunctionOnSet(g, U)
  BY <1>2, SumPick
<1>8. CASE f[p] > g[p]
  <2>1. Over(T) = Over(U) \cup {p}
    BY <1>3, <1>8
  <2>2. Cardinality(Over(T)) = Cardinality(Over(U)) + 1
    <3> HIDE DEF Over
    <3> QED BY <2>1, <1>6, FS_AddElement
  <2>3. SumFunctionOnSet(f, T) <= SumFunctionOnSet(g, T) + Cardinality(Over(T))
    <3> HIDE DEF Over, U, p
    <3> QED BY <2>2, <1>4, <1>5, <1>6, <1>7
  <2> QED BY <2>3, <1>1
<1>9. CASE ~ (f[p] > g[p])
  <2>1. Over(T) = Over(U)
    BY <1>3, <1>9
  <2>3. SumFunctionOnSet(f, T) <= SumFunctionOnSet(g, T) + Cardinality(Over(T))
    <3> HIDE DEF Over, U, p
    <3> QED BY <2>1, <1>4, <1>5, <1>6, <1>7, <1>9
  <2> QED BY <2>3, <1>1
<1> QED BY <1>8, <1>9

\* One element joins the domain.
LEMMA SumExtends ==
    ASSUME NEW S, IsFiniteSet(S), NEW a, a \notin S,
           NEW f, DOMAIN f = S, NEW g, DOMAIN g = S \cup {a},
           \A x \in S : f[x] \in Int /\ g[x] = f[x], g[a] \in Int
    PROVE  SumFunction(g) = SumFunction(f) + g[a]
<1>1. IsFiniteSet(S \cup {a}) /\ \A x \in S \cup {a} : g[x] \in Int
  BY FS_AddElement
<1>2. SumFunctionOnSet(g, S \cup {a}) = g[a] + SumFunctionOnSet(g, S)
  <2>1. (S \cup {a}) \ {a} = S
    OBVIOUS
  <2>2. SumFunctionOnSet(g, S \cup {a}) = g[a] + SumFunctionOnSet(g, (S \cup {a}) \ {a})
    BY <1>1, SumTake
  <2> QED BY <2>1, <2>2
<1>4. SumFunctionOnSet(g, S) = SumFunctionOnSet(f, S)
  BY SumAgrees
<1>5. SumFunctionOnSet(f, S) \in Int
  BY SumInt
<1>6. SumFunction(g) = SumFunctionOnSet(g, S \cup {a}) /\ SumFunction(f) = SumFunctionOnSet(f, S)
  BY DEF SumFunction
<1> DEFINE whole == SumFunctionOnSet(g, S \cup {a})
           part == SumFunctionOnSet(f, S)
<1>7. whole = part + g[a]
  <2>1. whole = g[a] + part /\ part \in Int /\ g[a] \in Int
    BY <1>2, <1>4, <1>5
  <2> HIDE DEF whole, part
  <2> QED BY <2>1
<1> QED BY <1>6, <1>7

\* The sum over a set is the sum over a part of it and the sum over the rest.
LEMMA SumSplits ==
    ASSUME NEW S, IsFiniteSet(S), NEW f, \A x \in S : f[x] \in Int
    PROVE  \A T \in SUBSET S :
              SumFunctionOnSet(f, S) = SumFunctionOnSet(f, T) + SumFunctionOnSet(f, S \ T)
<1> DEFINE all == SumFunctionOnSet(f, S)
           Bad == {T \in SUBSET S : all # SumFunctionOnSet(f, T) + SumFunctionOnSet(f, S \ T)}
<1> SUFFICES ASSUME Bad # {} PROVE FALSE
  OBVIOUS
<1>1. PICK T \in Bad : \A U \in Bad : U \subseteq T => U = T
  <2>1. Bad \subseteq SUBSET S
    OBVIOUS
  <2> HIDE DEF Bad
  <2> QED BY <2>1, LeastSet
<1>2. T # {} /\ IsFiniteSet(T)
  <2>1. all \in Int /\ S \ {} = S
    BY SumInt
  <2>2. {} \notin Bad
    BY <2>1, SumEmpty
  <2> QED BY <2>2, FS_Subset
<1> DEFINE p == Pick(T)
           U == T \ {p}
           left == SumFunctionOnSet(f, U)
           right == SumFunctionOnSet(f, S \ T)
<1>3. p \in T /\ p \in S /\ U \in SUBSET S /\ U # T /\ U \subseteq T
  BY <1>2, PickIsElement
<1>4. all = left + SumFunctionOnSet(f, S \ U)
  <2>1. U \notin Bad
    <3> HIDE DEF Bad, U
    <3> QED BY <1>1, <1>3
  <2> HIDE DEF U, all, p
  <2> QED BY <2>1, <1>3
<1>5. SumFunctionOnSet(f, S \ U) = f[p] + right
  <2>1. IsFiniteSet(S \ U) /\ p \in S \ U /\ \A x \in S \ U : f[x] \in Int
    BY <1>3, FS_Subset
  <2>2. (S \ U) \ {p} = S \ T
    BY <1>3
  <2>3. SumFunctionOnSet(f, S \ U) = f[p] + SumFunctionOnSet(f, (S \ U) \ {p})
    <3> HIDE DEF p, U
    <3> QED BY <2>1, SumTake
  <2> QED BY <2>2, <2>3
<1>6. SumFunctionOnSet(f, T) = f[p] + left
  BY <1>2, SumPick
<1>7. f[p] \in Int /\ left \in Int /\ right \in Int
  <2>1. IsFiniteSet(U) /\ IsFiniteSet(S \ T)
    BY <1>3, FS_Subset
  <2>2. (\A x \in U : f[x] \in Int) /\ (\A x \in S \ T : f[x] \in Int)
    BY <1>3
  <2> HIDE DEF p, U
  <2> QED BY <2>1, <2>2, <1>3, SumInt
<1>8. all = SumFunctionOnSet(f, T) + right
  <2> HIDE DEF p, U, left, right, all
  <2> QED BY <1>4, <1>5, <1>6, <1>7
<1> QED BY <1>8, <1>1
=============================================================================
