---------------------------- MODULE DataTheorems ----------------------------
(***************************************************************************)
(* What the proofs need to know of the data of the models: SUM, the        *)
(* statements that change a table, totals over rows of any sign, and the   *)
(* rounding of shares.                                                     *)
(***************************************************************************)
EXTENDS Tables, Shares, FunctionTheorems, FiniteSetTheorems, TLAPS

\* The sum of a column over a finite set of rows is a natural number, because
\* its units are a finite set.
LEMMA SumType ==
    ASSUME NEW S, IsFiniteSet(S), NEW column, \A k \in S : column[k] \in Nat
    PROVE  IsFiniteSet(Units(S, column)) /\ SumOf(S, column) \in Nat
<1> DEFINE Cell(k) == {k} \X (1 .. column[k])
           Cells   == {Cell(k) : k \in S}
           f       == [k \in S |-> Cell(k)]
<1>1. f \in Surjection(S, Cells)
  BY DEF Surjection
<1>2. IsFiniteSet(Cells)
  BY <1>1, FS_Surjection
<1>3. ASSUME NEW k \in S PROVE IsFiniteSet(Cell(k))
  <2>1. IsFiniteSet({k})
    BY FS_Singleton
  <2>2. IsFiniteSet(1 .. column[k])
    BY FS_Interval
  <2> QED
    BY <2>1, <2>2, FS_Product
<1>4. IsFiniteSet(UNION Cells)
  BY <1>2, <1>3, FS_UNION
<1>5. Units(S, column) = UNION Cells
  BY DEF Units
<1> QED
  BY <1>4, <1>5, FS_CardinalityType DEF SumOf

\* Only the values on the rows that are summed matter.
LEMMA SumSameColumn ==
    ASSUME NEW S, NEW c, NEW d, \A k \in S : c[k] = d[k]
    PROVE  SumOf(S, c) = SumOf(S, d)
<1>1. Units(S, c) = Units(S, d)
  BY DEF Units
<1> QED
  BY <1>1 DEF SumOf

\* Nothing sums to zero.
LEMMA SumNothing == ASSUME NEW c PROVE SumOf({}, c) = 0
<1>1. Units({}, c) = {}
  BY DEF Units
<1> QED
  BY <1>1, FS_EmptySet DEF SumOf

\* Fewer rows never sum to more.
LEMMA SumOfFewer ==
    ASSUME NEW S, IsFiniteSet(S), NEW T \in SUBSET S,
           NEW c, \A k \in S : c[k] \in Nat
    PROVE  SumOf(T, c) <= SumOf(S, c)
<1>1. Units(T, c) \subseteq Units(S, c)
  BY DEF Units
<1>2. IsFiniteSet(Units(S, c))
  BY SumType
<1> QED
  BY <1>1, <1>2, FS_Subset DEF SumOf

\* Smaller values never sum to more.
LEMMA SumOfSmaller ==
    ASSUME NEW S, IsFiniteSet(S), NEW c, NEW d,
           \A k \in S : c[k] \in Nat /\ d[k] \in Nat /\ c[k] <= d[k]
    PROVE  SumOf(S, c) <= SumOf(S, d)
<1>1. IsFiniteSet(Units(S, d))
  BY SumType
<1>2. Units(S, c) \subseteq Units(S, d)
  BY DEF Units
<1> QED
  BY <1>1, <1>2, FS_Subset DEF SumOf

\* One more row adds its value to the sum.
LEMMA SumOneMore ==
    ASSUME NEW S, IsFiniteSet(S), NEW x, x \notin S,
           NEW c, \A k \in S \cup {x} : c[k] \in Nat
    PROVE  SumOf(S \cup {x}, c) = SumOf(S, c) + c[x]
<1> DEFINE Cell == {x} \X (1 .. c[x])
<1>1. Units(S \cup {x}, c) = Units(S, c) \cup Cell
  BY DEF Units
<1>2. Units(S, c) \cap Cell = {}
  BY DEF Units
<1>3. IsFiniteSet(Units(S, c))
  BY SumType
<1>4. IsFiniteSet(Cell) /\ Cardinality(Cell) = c[x]
  <2>1. IsFiniteSet({x}) /\ Cardinality({x}) = 1
    BY FS_Singleton
  <2>2. IsFiniteSet(1 .. c[x]) /\ Cardinality(1 .. c[x]) = c[x]
    BY FS_Interval
  <2> QED
    BY <2>1, <2>2, FS_Product
<1>5. Cardinality(Units(S, c) \cup Cell) = Cardinality(Units(S, c)) + Cardinality(Cell) - Cardinality({})
  BY <1>2, <1>3, <1>4, FS_Union
<1>6. Cardinality(Units(S, c)) \in Nat /\ c[x] \in Nat
  BY <1>3, FS_CardinalityType
<1> HIDE DEF Cell
<1>7. SumOf(S \cup {x}, c) = SumOf(S, c) + c[x] - 0
  BY <1>1, <1>4, <1>5, FS_EmptySet DEF SumOf
<1> QED
  BY <1>6, <1>7 DEF SumOf

\* A row's value can be taken out of the sum.
LEMMA SumOneLess ==
    ASSUME NEW S, IsFiniteSet(S), NEW x \in S,
           NEW c, \A k \in S : c[k] \in Nat
    PROVE  SumOf(S, c) = SumOf(S \ {x}, c) + c[x]
<1>1. IsFiniteSet(S \ {x})
  BY FS_RemoveElement
<1>2. S = (S \ {x}) \cup {x}
  OBVIOUS
<1> QED
  BY <1>1, <1>2, SumOneMore

\* No value is above the sum it is part of.
LEMMA ValueWithinSum ==
    ASSUME NEW S, IsFiniteSet(S), NEW x \in S,
           NEW c, \A k \in S : c[k] \in Nat
    PROVE  c[x] <= SumOf(S, c)
<1>1. IsFiniteSet(S \ {x})
  BY FS_Subset
<1>2. SumOf(S \ {x}, c) \in Nat
  BY <1>1, SumType
<1>3. SumOf(S, c) = SumOf(S \ {x}, c) + c[x]
  BY SumOneLess
<1> QED
  BY <1>2, <1>3

(***************************************************************************)
(* Rows keyed <<p, k>> with p fixed sum to what rows keyed k sum to: the   *)
(* worker rows of a saved project against those of its form.               *)
(***************************************************************************)
LEMMA SumTagged ==
    ASSUME NEW S, IsFiniteSet(S), NEW p, NEW c, NEW d,
           \A k \in S : c[k] \in Nat /\ d[<<p, k>>] = c[k]
    PROVE  SumOf({p} \X S, d) = SumOf(S, c)
<1> DEFINE U == Units(S, c)
           V == Units({p} \X S, d)
           f == [u \in U |-> << <<p, u[1]>>, u[2] >>]
<1>1. \A u : u \in U <=> \E k \in S, n \in Nat : n \in 1 .. c[k] /\ u = <<k, n>>
  BY DEF Units
<1>2. \A v : v \in V <=> \E k \in S, n \in Nat : n \in 1 .. c[k] /\ v = << <<p, k>>, n >>
  BY DEF Units
<1> HIDE DEF U, V
<1>3. f \in [U -> V]
  BY <1>1, <1>2
<1>4. ASSUME NEW u1 \in U, NEW u2 \in U, f[u1] = f[u2] PROVE u1 = u2
  BY <1>1, <1>4
<1>5. ASSUME NEW v \in V PROVE \E u \in U : f[u] = v
  <2>1. PICK k \in S, n \in Nat : n \in 1 .. c[k] /\ v = << <<p, k>>, n >>
    BY <1>2
  <2>2. <<k, n>> \in U /\ f[<<k, n>>] = v
    BY <1>1, <2>1
  <2> QED
    BY <2>2
<1>6. f \in Bijection(U, V)
  BY <1>3, <1>4, <1>5, Fun_IsBij
<1>7. ExistsBijection(U, V)
  BY <1>6 DEF ExistsBijection
<1>8. IsFiniteSet(U)
  BY SumType DEF U
<1>9. Cardinality(V) = Cardinality(U)
  BY <1>7, <1>8, FS_Bijection
<1> QED
  BY <1>9 DEF SumOf, U, V
-----------------------------------------------------------------------------
\* A table of rows under some keys is one under more keys.
LEMMA MoreKeys ==
    ASSUME NEW t, NEW K, NEW L, NEW R, IsTable(t, K, R), K \subseteq L
    PROVE  IsTable(t, L, R)
BY DEF IsTable

\* INSERT or UPDATE of well-typed rows.
LEMMA UpsertTable ==
    ASSUME NEW t, NEW rows, NEW K, NEW R, IsTable(t, K, R), IsTable(rows, K, R)
    PROVE  /\ IsTable(Upsert(t, rows), K, R)
           /\ DOMAIN Upsert(t, rows) = DOMAIN t \cup DOMAIN rows
           /\ \A k \in DOMAIN rows : Upsert(t, rows)[k] = rows[k]
           /\ \A k \in DOMAIN t \ DOMAIN rows : Upsert(t, rows)[k] = t[k]
BY DEF IsTable, Upsert

\* One row inserted or replaced.
LEMMA PutTable ==
    ASSUME NEW t, NEW key, NEW row, NEW K, NEW R, IsTable(t, K, R), key \in K, row \in R
    PROVE  /\ IsTable(Put(t, key, row), K, R)
           /\ DOMAIN Put(t, key, row) = DOMAIN t \cup {key}
           /\ Put(t, key, row)[key] = row
           /\ \A k \in DOMAIN t \ {key} : Put(t, key, row)[k] = t[k]
BY DEF IsTable, Put, Upsert

\* DELETE.
LEMMA WithoutTable ==
    ASSUME NEW t, NEW gone, NEW K, NEW R, IsTable(t, K, R)
    PROVE  /\ IsTable(Without(t, gone), K, R)
           /\ DOMAIN Without(t, gone) = DOMAIN t \ gone
           /\ \A k \in DOMAIN t \ gone : Without(t, gone)[k] = t[k]
BY DEF IsTable, Without, Restrict

\* A new database's tables.
LEMMA EmptyIsTable == ASSUME NEW K, NEW R PROVE IsTable(EmptyTable, K, R) /\ DOMAIN EmptyTable = {}
BY DEF IsTable, EmptyTable

(***************************************************************************)
(* Induction over a finite set, without an operator as a parameter: what   *)
(* has the empty set, and with every subset also each with one element     *)
(* more, has the whole set.                                                *)
(***************************************************************************)
LEMMA SetInduction ==
    ASSUME NEW S, IsFiniteSet(S), NEW Good, {} \in Good,
           \A s \in SUBSET S : \A x \in S \ s : s \in Good => s \cup {x} \in Good
    PROVE  S \in Good
<1> DEFINE Bad == {s \in SUBSET S : s \notin Good}
<1> SUFFICES ASSUME Bad # {} PROVE FALSE
  OBVIOUS
<1>1. IsWellFoundedOn(StrictSubsetOrdering(S), FiniteSubsetsOf(S))
  BY FS_StrictSubsetOrderingWellFounded
<1>2. Bad \subseteq FiniteSubsetsOf(S)
  BY FS_FiniteSubsetsOfFinite
<1>3. PICK s \in Bad : \A t \in Bad : <<t, s>> \notin StrictSubsetOrdering(S)
  BY <1>1, <1>2, WFMin
<1>4. PICK x \in s : TRUE
  OBVIOUS
<1>5. <<s \ {x}, s>> \in StrictSubsetOrdering(S) /\ s \ {x} \in SUBSET S
  BY <1>4 DEF StrictSubsetOrdering
<1>6. s \ {x} \in Good
  BY <1>3, <1>5
<1>7. s = (s \ {x}) \cup {x} /\ x \in S \ (s \ {x})
  BY <1>4
<1> QED
  BY <1>5, <1>6, <1>7

\* Two sets of rows that have none in common are summed one by one.
LEMMA SumOfBoth ==
    ASSUME NEW A, NEW B, IsFiniteSet(A), IsFiniteSet(B), A \cap B = {},
           NEW c, \A k \in A \cup B : c[k] \in Nat
    PROVE  SumOf(A \cup B, c) = SumOf(A, c) + SumOf(B, c)
<1>1. Units(A \cup B, c) = Units(A, c) \cup Units(B, c) /\ Units(A, c) \cap Units(B, c) = {}
  BY DEF Units
<1>2. IsFiniteSet(Units(A, c)) /\ IsFiniteSet(Units(B, c)) /\ SumOf(A, c) \in Nat /\ SumOf(B, c) \in Nat
  BY SumType
<1>3. Cardinality(Units(A, c) \cup Units(B, c))
        = Cardinality(Units(A, c)) + Cardinality(Units(B, c)) - Cardinality({})
  BY <1>1, <1>2, FS_Union
<1>4. SumOf(A \cup B, c) = SumOf(A, c) + SumOf(B, c) - 0
  BY <1>1, <1>3, FS_EmptySet DEF SumOf
<1> QED
  BY <1>2, <1>4
-----------------------------------------------------------------------------
(***************************************************************************)
(* The total of a function with integer values, SumFunctionOnSet of the    *)
(* community modules: its equation has one solution, which the sums of     *)
(* what is above zero and of what is below it give.                        *)
(***************************************************************************)
Above(f, S) == [k \in S |-> IF f[k] > 0 THEN f[k] ELSE 0]
Below(f, S) == [k \in S |-> IF f[k] < 0 THEN 0 - f[k] ELSE 0]
Net(f, S)   == SumOf(S, Above(f, S)) - SumOf(S, Below(f, S))

\* One element more adds its value to the net sum.
LEMMA NetOneMore ==
    ASSUME NEW S, IsFiniteSet(S), NEW x, x \notin S, NEW f, \A k \in S \cup {x} : f[k] \in Int
    PROVE  Net(f, S) \in Int /\ Net(f, S \cup {x}) = Net(f, S) + f[x]
<1> DEFINE T == S \cup {x}
           a == Above(f, T)
           b == Below(f, T)
<1>1. /\ \A k \in T : a[k] \in Nat /\ b[k] \in Nat
      /\ a[x] - b[x] = f[x]
      /\ \A k \in S : a[k] = Above(f, S)[k] /\ b[k] = Below(f, S)[k]
  BY DEF Above, Below
<1> HIDE DEF a, b
<1>2. SumOf(T, a) = SumOf(S, a) + a[x] /\ SumOf(T, b) = SumOf(S, b) + b[x]
  BY <1>1, SumOneMore
<1>3. SumOf(S, a) = SumOf(S, Above(f, S)) /\ SumOf(S, b) = SumOf(S, Below(f, S))
  BY <1>1, SumSameColumn
<1>4. SumOf(S, a) \in Nat /\ SumOf(S, b) \in Nat /\ a[x] \in Nat /\ b[x] \in Nat /\ f[x] \in Int
  BY <1>1, SumType
<1> QED
  BY <1>1, <1>2, <1>3, <1>4 DEF Net, a, b

\* The fold is the net sum.
LEMMA TotalIsNet ==
    ASSUME NEW S, IsFiniteSet(S), NEW f, \A k \in S : f[k] \in Int
    PROVE  SumFunctionOnSet(f, S) = Net(f, S)
<1> DEFINE Some(s) == CHOOSE x \in s : TRUE
           Step(h) == [s \in SUBSET S |-> IF s = {} THEN 0 ELSE f[Some(s)] + h[s \ {Some(s)}]]
           n       == [s \in SUBSET S |-> Net(f, s)]
           g       == CHOOSE h : h = Step(h)
<1>1. SumFunctionOnSet(f, S) = g[S]
  BY DEF SumFunctionOnSet, FoldFunctionOnSet, MapThenFoldSet
<1>2. Net(f, {}) = 0
  BY SumNothing DEF Net
<1>3. ASSUME NEW s \in SUBSET S, s # {}
      PROVE  /\ Some(s) \in s /\ s \ {Some(s)} \in SUBSET S
             /\ Net(f, s) = f[Some(s)] + Net(f, s \ {Some(s)})
  <2>1. Some(s) \in s
    BY <1>3
  <2> DEFINE x == Some(s)
             r == s \ {x}
  <2> HIDE DEF x
  <2>2. /\ IsFiniteSet(s) /\ IsFiniteSet(r) /\ x \notin r /\ s = r \cup {x}
        /\ \A k \in r \cup {x} : f[k] \in Int
    BY <2>1, FS_Subset DEF x
  <2> HIDE DEF r
  <2>3. Net(f, r) \in Int /\ Net(f, r \cup {x}) = Net(f, r) + f[x]
    BY <2>2, NetOneMore
  <2>4. Net(f, s) = f[x] + Net(f, r)
    BY <2>2, <2>3
  <2> QED
    BY <2>1, <2>4 DEF r, x
<1>4. n = Step(n)
  BY <1>2, <1>3
<1>5. g = Step(g)
  BY <1>4
<1> HIDE DEF g
<1>6. \A s \in SUBSET S : g[s] = IF s = {} THEN 0 ELSE f[Some(s)] + g[s \ {Some(s)}]
  BY <1>5
<1> DEFINE Bad == {s \in SUBSET S : g[s] # Net(f, s)}
<1>7. Bad = {}
  <2> SUFFICES ASSUME Bad # {} PROVE FALSE
    OBVIOUS
  <2>1. IsWellFoundedOn(StrictSubsetOrdering(S), FiniteSubsetsOf(S)) /\ Bad \subseteq FiniteSubsetsOf(S)
    BY FS_StrictSubsetOrderingWellFounded, FS_FiniteSubsetsOfFinite
  <2>2. PICK s \in Bad : \A t \in Bad : <<t, s>> \notin StrictSubsetOrdering(S)
    BY <2>1, WFMin
  <2>3. s # {}
    BY <1>2, <1>6, <2>2
  <2> DEFINE r == s \ {Some(s)}
  <2>4. r \in SUBSET S /\ <<r, s>> \in StrictSubsetOrdering(S)
    BY <1>3, <2>2, <2>3 DEF StrictSubsetOrdering
  <2>5. g[r] = Net(f, r)
    BY <2>2, <2>4
  <2>6. s \in SUBSET S /\ g[s] # Net(f, s)
    BY <2>2
  <2>7. g[s] = f[Some(s)] + g[r]
    BY <1>6, <2>3, <2>6
  <2>8. Net(f, s) = f[Some(s)] + Net(f, r)
    BY <1>3, <2>3, <2>6
  <2> QED
    BY ONLY <2>5, <2>6, <2>7, <2>8
<1> QED
  BY <1>1, <1>7

\* Totals over finite sets are integers.
LEMMA TotalType ==
    ASSUME NEW S, IsFiniteSet(S), NEW f, \A k \in S : f[k] \in Int
    PROVE  SumFunctionOnSet(f, S) \in Int
<1>1. \A k \in S : Above(f, S)[k] \in Nat /\ Below(f, S)[k] \in Nat
  BY DEF Above, Below
<1>2. SumOf(S, Above(f, S)) \in Nat /\ SumOf(S, Below(f, S)) \in Nat
  BY <1>1, SumType
<1> QED
  BY <1>2, TotalIsNet DEF Net

\* Two functions that agree on a set have the same total over it.
LEMMA TotalSame ==
    ASSUME NEW S, IsFiniteSet(S), NEW f, NEW g, \A k \in S : f[k] \in Int /\ g[k] = f[k]
    PROVE  SumFunctionOnSet(f, S) = SumFunctionOnSet(g, S)
<1>1. Above(f, S) = Above(g, S) /\ Below(f, S) = Below(g, S)
  BY DEF Above, Below
<1> QED
  BY <1>1, TotalIsNet DEF Net

\* The total over nothing.
LEMMA TotalNothing == ASSUME NEW f PROVE SumFunctionOnSet(f, {}) = 0
BY TotalIsNet, SumNothing, FS_EmptySet DEF Net

\* An element more adds its value to the total.
LEMMA TotalOneMore ==
    ASSUME NEW S, IsFiniteSet(S), NEW x, x \notin S, NEW f, \A k \in S \cup {x} : f[k] \in Int
    PROVE  SumFunctionOnSet(f, S \cup {x}) = SumFunctionOnSet(f, S) + f[x]
<1>1. IsFiniteSet(S \cup {x})
  BY FS_AddElement
<1>2. SumFunctionOnSet(f, S \cup {x}) = Net(f, S \cup {x})
  BY <1>1, TotalIsNet
<1>3. SumFunctionOnSet(f, S) = Net(f, S)
  BY TotalIsNet
<1>4. Net(f, S \cup {x}) = Net(f, S) + f[x]
  BY NetOneMore
<1> QED
  BY <1>2, <1>3, <1>4

\* A column without a positive value sums to nothing.
LEMMA SumOfZeros ==
    ASSUME NEW S, NEW c, \A k \in S : c[k] = 0
    PROVE  SumOf(S, c) = 0
<1>1. \A k \in S : 1 .. c[k] = {}
  OBVIOUS
<1>2. Units(S, c) = {}
  BY <1>1 DEF Units
<1> QED
  BY <1>2, FS_EmptySet DEF SumOf

\* The total of natural numbers is what SUM gives.
LEMMA TotalIsSum ==
    ASSUME NEW S, IsFiniteSet(S), NEW c, \A k \in S : c[k] \in Nat
    PROVE  SumFunctionOnSet(c, S) = SumOf(S, c)
<1>1. \A k \in S : Above(c, S)[k] = c[k] /\ Below(c, S)[k] = 0
  BY DEF Above, Below
<1>2. SumOf(S, Above(c, S)) = SumOf(S, c) /\ SumOf(S, Below(c, S)) = 0
  BY <1>1, SumSameColumn, SumOfZeros
<1>3. SumOf(S, c) \in Nat
  BY SumType
<1> QED
  BY <1>2, <1>3, TotalIsNet DEF Net

\* Values of zero and below do not add up to more.
LEMMA TotalNotAbove ==
    ASSUME NEW S, IsFiniteSet(S), NEW f, \A k \in S : f[k] \in Int /\ f[k] <= 0
    PROVE  SumFunctionOnSet(f, S) <= 0
<1>1. \A k \in S : Above(f, S)[k] = 0 /\ Below(f, S)[k] \in Nat
  BY DEF Above, Below
<1>2. SumOf(S, Above(f, S)) = 0 /\ SumOf(S, Below(f, S)) \in Nat
  BY <1>1, SumType, SumOfZeros
<1> QED
  BY <1>2, TotalIsNet DEF Net

\* The total of differences is the difference of the totals.
LEMMA TotalOfDifferences ==
    ASSUME NEW S, IsFiniteSet(S), NEW f, NEW g, NEW h,
           \A k \in S : f[k] \in Int /\ g[k] \in Int /\ h[k] = f[k] - g[k]
    PROVE  SumFunctionOnSet(h, S) = SumFunctionOnSet(f, S) - SumFunctionOnSet(g, S)
<1> DEFINE Good == {s \in SUBSET S :
              SumFunctionOnSet(h, s) = SumFunctionOnSet(f, s) - SumFunctionOnSet(g, s)}
<1>1. {} \in Good
  BY TotalNothing
<1>2. ASSUME NEW s \in SUBSET S, NEW x \in S \ s, s \in Good PROVE s \cup {x} \in Good
  <2>1. IsFiniteSet(s)
    BY FS_Subset
  <2>2. /\ SumFunctionOnSet(f, s) \in Int /\ SumFunctionOnSet(g, s) \in Int
        /\ f[x] \in Int /\ g[x] \in Int /\ h[x] = f[x] - g[x]
    BY <2>1, TotalType
  <2>3. \A k \in s \cup {x} : f[k] \in Int /\ g[k] \in Int /\ h[k] \in Int
    OBVIOUS
  <2>4. SumFunctionOnSet(f, s \cup {x}) = SumFunctionOnSet(f, s) + f[x]
    BY <2>1, <2>3, TotalOneMore
  <2>5. SumFunctionOnSet(g, s \cup {x}) = SumFunctionOnSet(g, s) + g[x]
    BY <2>1, <2>3, TotalOneMore
  <2>6. SumFunctionOnSet(h, s \cup {x}) = SumFunctionOnSet(h, s) + h[x]
    BY <2>1, <2>3, TotalOneMore
  <2>7. SumFunctionOnSet(h, s) = SumFunctionOnSet(f, s) - SumFunctionOnSet(g, s)
    BY <1>2
  <2> QED
    BY <2>2, <2>4, <2>5, <2>6, <2>7
<1> HIDE DEF Good
<1>3. S \in Good
  BY <1>1, <1>2, SetInduction
<1> QED
  BY <1>3 DEF Good

\* A total is that of a part and of the rest.
LEMMA TotalOfPart ==
    ASSUME NEW S, IsFiniteSet(S), NEW T \in SUBSET S, NEW f, \A k \in S : f[k] \in Int
    PROVE  SumFunctionOnSet(f, S) = SumFunctionOnSet(f, T) + SumFunctionOnSet(f, S \ T)
<1> DEFINE Good == {t \in SUBSET T :
              SumFunctionOnSet(f, S) = SumFunctionOnSet(f, t) + SumFunctionOnSet(f, S \ t)}
<1>1. {} \in Good
  <2>1. S \ {} = S /\ SumFunctionOnSet(f, S) \in Int
    BY TotalType
  <2> QED
    BY <2>1, TotalNothing
<1>2. ASSUME NEW t \in SUBSET T, NEW x \in T \ t, t \in Good PROVE t \cup {x} \in Good
  <2> DEFINE r == S \ (t \cup {x})
  <2>1. IsFiniteSet(t) /\ IsFiniteSet(r) /\ x \notin r /\ r \cup {x} = S \ t /\ r \subseteq S
    BY FS_Subset
  <2> HIDE DEF r
  <2>2. SumFunctionOnSet(f, t) \in Int /\ SumFunctionOnSet(f, r) \in Int /\ f[x] \in Int
    BY <2>1, TotalType
  <2>3. /\ SumFunctionOnSet(f, t \cup {x}) = SumFunctionOnSet(f, t) + f[x]
        /\ SumFunctionOnSet(f, S \ t) = SumFunctionOnSet(f, r) + f[x]
    BY <2>1, TotalOneMore
  <2> QED
    BY <1>2, <2>2, <2>3 DEF r
<1> HIDE DEF Good
<1>3. IsFiniteSet(T)
  BY FS_Subset
<1>4. T \in Good
  BY <1>1, <1>2, <1>3, SetInduction
<1> QED
  BY <1>4 DEF Good

(***************************************************************************)
(* The rows of R whose key is k.  The sums of all groups add up to the sum *)
(* of all rows that are in one: GROUP BY against a plain SUM.              *)
(***************************************************************************)
Group(R, key, k) == {r \in R : key[r] = k}

\* The sums of the groups of a column add up to the sum of the column.
LEMMA TotalByGroup ==
    ASSUME NEW K, IsFiniteSet(K), NEW R, IsFiniteSet(R), NEW key, NEW c,
           \A r \in R : c[r] \in Nat /\ key[r] \in K,
           NEW sums, \A k \in K : sums[k] = SumOf(Group(R, key, k), c)
    PROVE  SumFunctionOnSet(sums, K) = SumOf(R, c)
<1> DEFINE Of(s) == {r \in R : key[r] \in s}
           Good  == {s \in SUBSET K : SumFunctionOnSet(sums, s) = SumOf(Of(s), c)}
<1>1. {} \in Good
  <2>1. Of({}) = {}
    OBVIOUS
  <2> QED
    BY <2>1, TotalNothing, SumNothing
<1>2. ASSUME NEW s \in SUBSET K, NEW x \in K \ s, s \in Good PROVE s \cup {x} \in Good
  <2> DEFINE A == Of(s)
             B == Group(R, key, x)
  <2>1. Of(s \cup {x}) = A \cup B /\ A \cap B = {} /\ A \cup B \subseteq R
    BY DEF Group
  <2>2. IsFiniteSet(A) /\ IsFiniteSet(B) /\ IsFiniteSet(s)
    BY FS_Subset DEF Group
  <2>3. \A k \in s \cup {x} : sums[k] \in Int
    <3> SUFFICES ASSUME NEW k \in K PROVE sums[k] \in Int
      OBVIOUS
    <3> DEFINE G == Group(R, key, k)
    <3>1. IsFiniteSet(G) /\ \A r \in G : c[r] \in Nat
      BY FS_Subset DEF Group
    <3>2. sums[k] = SumOf(G, c)
      OBVIOUS
    <3> HIDE DEF G
    <3> QED
      BY <3>1, <3>2, SumType
  <2>4. SumFunctionOnSet(sums, s \cup {x}) = SumFunctionOnSet(sums, s) + sums[x]
    BY <2>2, <2>3, TotalOneMore
  <2>5. sums[x] = SumOf(B, c) /\ SumFunctionOnSet(sums, s) = SumOf(A, c)
    BY <1>2
  <2>6. \A r \in A \cup B : c[r] \in Nat
    BY <2>1
  <2> HIDE DEF A, B
  <2>7. SumOf(A \cup B, c) = SumOf(A, c) + SumOf(B, c)
    BY <2>1, <2>2, <2>6, SumOfBoth
  <2> QED
    BY <2>1, <2>4, <2>5, <2>7
<1>3. Of(K) = R
  OBVIOUS
<1> HIDE DEF Good
<1>4. K \in Good
  BY <1>1, <1>2, SetInduction
<1> QED
  BY <1>3, <1>4 DEF Good
-----------------------------------------------------------------------------
\* round() in utils.worker_share returns a natural number within half a unit
\* of the exact quotient.
THEOREM RoundingNearest ==
    ASSUME NEW num \in Nat, NEW den \in Nat \ {0}
    PROVE  LET n == RoundHalfEven(num, den)
           IN  /\ n \in Nat
               /\ 2 * num - den <= 2 * (den * n)
               /\ 2 * (den * n) <= 2 * num + den
<1> DEFINE q == num \div den
           r == num % den
<1>1. q \in Nat /\ r \in Nat /\ r < den /\ num = den * q + r
  OBVIOUS
<1>2. den * q \in Nat /\ den * (q + 1) = den * q + den
  BY <1>1
<1> HIDE DEF q, r
<1>3. RoundHalfEven(num, den) = IF 2 * r > den \/ (2 * r = den /\ q % 2 = 1) THEN q + 1 ELSE q
  BY DEF RoundHalfEven, q, r
<1>4. CASE 2 * r > den \/ (2 * r = den /\ q % 2 = 1)
  <2> DEFINE d == den * q
  <2>1. RoundHalfEven(num, den) = q + 1 /\ den * (q + 1) = d + den /\ d \in Nat /\ num = d + r
    BY <1>1, <1>2, <1>3, <1>4
  <2>2. 2 * r >= den
    BY <1>1, <1>4
  <2> QED
    BY <1>1, <2>1, <2>2
<1>5. CASE ~(2 * r > den \/ (2 * r = den /\ q % 2 = 1))
  <2> DEFINE d == den * q
  <2>1. RoundHalfEven(num, den) = q /\ d \in Nat /\ num = d + r
    BY <1>1, <1>2, <1>3, <1>5
  <2>2. 2 * r <= den
    BY <1>1, <1>5
  <2> QED
    BY <1>1, <2>1, <2>2
<1> QED
  BY <1>4, <1>5

\* One hundred percent, in the unit of Hundred, is one million.
LEMMA HundredValue == Hundred = 1000000
BY SMT DEF Hundred, PercentUnit

\* A percentage can be divided by it.
LEMMA HundredType == Hundred \in Nat \ {0}
BY HundredValue, SMT

\* A share is a natural number of tomans.
LEMMA ShareType ==
    ASSUME NEW labor \in Nat, NEW percent \in Nat
    PROVE  worker_share(labor, percent) \in Nat
<1>1. labor * percent \in Nat
  OBVIOUS
<1> QED
  BY <1>1, HundredType, RoundingNearest DEF worker_share

\* A worker paid by percent never earns more than the whole labor amount.
THEOREM ShareWithinLabor ==
    ASSUME NEW labor \in Nat, NEW percent \in Nat, percent <= Hundred
    PROVE  worker_share(labor, percent) <= labor
<1> DEFINE num == labor * percent
           n   == worker_share(labor, percent)
<1>1. num \in Nat /\ num <= labor * 1000000
  BY HundredValue, SMT
<1>2. n \in Nat /\ 2 * (Hundred * n) <= 2 * num + Hundred
  BY <1>1, HundredType, RoundingNearest DEF worker_share
<1> HIDE DEF num, n
<1>3. n <= labor
  BY <1>1, <1>2, HundredValue, SMT
<1> QED
  BY <1>3 DEF n

\* A row of the project form stands for a natural number of tomans.
LEMMA RowShareType ==
    ASSUME NEW labor \in Nat, NEW Percents, Percents \subseteq 0 .. Hundred,
           NEW Amounts \in SUBSET Nat, NEW row \in Entries(Percents, Amounts)
    PROVE  row_share(labor, row) \in Nat
<1>1. CASE row.mode = "fixed"
  BY <1>1 DEF Entries, row_share
<1>2. CASE row.mode # "fixed"
  <2>1. row.value \in 0 .. Hundred
    BY <1>2 DEF Entries
  <2>2. row.value \in Nat
    BY <2>1, HundredType
  <2> QED
    BY <1>2, <2>2, ShareType DEF row_share
<1> QED
  BY <1>1, <1>2

(***************************************************************************)
(* The live calculation of the form and the server round the same quotient *)
(* and disagree only on a tie, and then the form shows one toman more.     *)
(***************************************************************************)
THEOREM LiveShareCloseToServer ==
    ASSUME NEW labor \in Nat, NEW percent \in Nat
    PROVE  /\ live_share(labor, percent) - worker_share(labor, percent) \in {0, 1}
           /\ live_share(labor, percent) # worker_share(labor, percent)
                => (2 * (labor * percent)) % Hundred = 0
<1> DEFINE num == labor * percent
<1>1. num \in Nat
  OBVIOUS
<1>2. Hundred = 1000000
  BY SMT DEF Hundred, PercentUnit
<1> HIDE DEF num
<1>3. /\ RoundHalfUp(num, 1000000) - RoundHalfEven(num, 1000000) \in {0, 1}
      /\ RoundHalfUp(num, 1000000) # RoundHalfEven(num, 1000000) => (2 * num) % 1000000 = 0
  BY <1>1, SMT DEF RoundHalfUp, RoundHalfEven
<1> QED
  BY <1>2, <1>3, SMT DEF live_share, worker_share, num
=============================================================================
