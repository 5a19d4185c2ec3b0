-------------------------- MODULE SpendingPulseProofs --------------------------
(***************************************************************************)
(* Proofs about SpendingPulse: to the alerts, its requests are calls of    *)
(* PaceAlerts that may begin at any time with any spending, so that what   *)
(* is proved of PaceAlerts holds of the whole, for any table, calendar and *)
(* number of requests.                                                     *)
(***************************************************************************)
EXTENDS SpendingPulse, PaceAlertsProofs, FiniteSetTheorems

(* Sums over finite sets.  A sum that holds of the smaller sets holds of   *)
(* all: a smallest one it fails for would be the counterexample.           *)

\* A set of numbers has a least one.
LEMMA LeastNatural ==
  ASSUME NEW T, T \subseteq Nat, T # {}
  PROVE  \E x \in T : \A y \in T : x <= y
<1> DEFINE R == OpToRel(<, Nat)
<1>1. IsWellFoundedOn(R, Nat)
  BY NatLessThanWellFounded
<1>2. \A x, y \in Nat : y < x => <<y, x>> \in R
  BY DEF OpToRel
<1> HIDE DEF R
<1>3. PICK x \in T : \A y \in T : <<y, x>> \notin R
  BY <1>1, WFMin
<1>4. ASSUME NEW y \in T PROVE x <= y
  <2>1. ~(y < x) /\ x \in Nat /\ y \in Nat
    BY <1>2, <1>3
  <2>2. QED
    BY <2>1
<1>5. QED
  BY <1>4

\* Among sets there is one that loses its place with any of its elements.
LEMMA SmallestSet ==
  ASSUME NEW S, IsFiniteSet(S), NEW Bad \in SUBSET SUBSET S, Bad # {}
  PROVE  \E T \in Bad : \A x \in T : T \ {x} \notin Bad
<1> DEFINE sizes == {Cardinality(T) : T \in Bad}
<1>1. \A T \in Bad : IsFiniteSet(T) /\ Cardinality(T) \in Nat
  BY FS_Subset, FS_CardinalityType
<1>2. PICK n \in sizes : \A m \in sizes : n <= m
  <2>1. sizes \subseteq Nat /\ sizes # {}
    BY <1>1
  <2> HIDE DEF sizes
  <2>2. QED
    BY <2>1, LeastNatural
<1>3. PICK T \in Bad : Cardinality(T) = n
  OBVIOUS
<1>4. ASSUME NEW x \in T, T \ {x} \in Bad PROVE FALSE
  <2>1. Cardinality(T \ {x}) = Cardinality(T) - 1
    BY <1>1, FS_RemoveElement
  <2>2. n <= Cardinality(T \ {x})
    BY <1>2, <1>4
  <2>3. QED
    BY <1>1, <1>3, <2>1, <2>2
<1>5. QED
  BY <1>4

\* The sums of f, as MapThenSumSet makes them up: over no elements zero,
\* else that of some element and the sum of the others.
Some(s) == CHOOSE x \in s : TRUE
Adds(f, S, g) == g = [s \in SUBSET S |-> IF s = {} THEN 0 ELSE f[Some(s)] + g[s \ {Some(s)}]]
Sums(f) == CHOOSE g : Adds(f, DOMAIN f, g)
SumOf(f, s) == Sums(f)[s]

LEMMA SomeIsElement == \A s : s # {} => Some(s) \in s
  BY DEF Some

LEMMA SumsExist ==
  ASSUME NEW S, IsFiniteSet(S), NEW f \in [S -> Int]
  PROVE  \E g : Adds(f, S, g)
<1> DEFINE Next1(g) == [s \in SUBSET S |-> IF s = {} THEN 0 ELSE f[Some(s)] + g[s \ {Some(s)}]]
           Upto(n) == \E g \in [SUBSET S -> Int] : \A s \in SUBSET S : Cardinality(s) <= n => g[s] = Next1(g)[s]
           Bad == {n \in Nat : ~ Upto(n)}
<1>1. \A s \in SUBSET S : IsFiniteSet(s) /\ Cardinality(s) \in Nat /\ (Cardinality(s) = 0 => s = {})
  BY FS_Subset, FS_CardinalityType, FS_EmptySet
<1>2. \A s \in SUBSET S : s # {} =>
        /\ Some(s) \in S /\ s \ {Some(s)} \in SUBSET S
        /\ Cardinality(s \ {Some(s)}) = Cardinality(s) - 1
  <2> SUFFICES ASSUME NEW s \in SUBSET S, s # {}
               PROVE  /\ Some(s) \in S /\ s \ {Some(s)} \in SUBSET S
                      /\ Cardinality(s \ {Some(s)}) = Cardinality(s) - 1
    OBVIOUS
  <2>1. Some(s) \in s
    BY SomeIsElement
  <2>2. QED
    BY <1>1, <2>1, FS_RemoveElement
<1>3. Upto(0)
  <2> DEFINE g == [s \in SUBSET S |-> 0]
  <2>1. g \in [SUBSET S -> Int]
    OBVIOUS
  <2>2. \A s \in SUBSET S : Cardinality(s) <= 0 => g[s] = Next1(g)[s]
    BY <1>1
  <2>3. QED
    BY <2>1, <2>2
<1>4. ASSUME NEW n \in Nat, Upto(n) PROVE Upto(n + 1)
  <2>1. PICK g \in [SUBSET S -> Int] : \A s \in SUBSET S : Cardinality(s) <= n => g[s] = Next1(g)[s]
    BY <1>4
  <2> DEFINE h == Next1(g)
  <2>2. h \in [SUBSET S -> Int]
    <3>1. \A s \in SUBSET S : s # {} => f[Some(s)] \in Int /\ g[s \ {Some(s)}] \in Int
      BY <1>2
    <3>2. QED
      BY <3>1
  <2>3. ASSUME NEW s \in SUBSET S, Cardinality(s) <= n + 1 PROVE h[s] = Next1(h)[s]
    <3>1. CASE s = {}
      BY <3>1
    <3>2. CASE s # {}
      <4>1. s \ {Some(s)} \in SUBSET S /\ Cardinality(s \ {Some(s)}) <= n
        BY <1>1, <1>2, <2>3, <3>2
      <4>2. g[s \ {Some(s)}] = h[s \ {Some(s)}]
        BY <2>1, <4>1
      <4> HIDE DEF h
      <4>3. h[s] = f[Some(s)] + g[s \ {Some(s)}]
        BY <3>2 DEF h
      <4>4. QED
        BY <3>2, <4>2, <4>3
    <3>3. QED
      BY <3>1, <3>2
  <2> HIDE DEF h
  <2>4. QED
    BY <2>2, <2>3
<1> HIDE DEF Upto
<1>5. Bad = {}
  <2> SUFFICES ASSUME Bad # {} PROVE FALSE
    OBVIOUS
  <2>1. PICK n \in Bad : \A m \in Bad : n <= m
    BY LeastNatural
  <2>2. n # 0
    BY <1>3
  <2>3. n - 1 \in Nat /\ n - 1 \notin Bad
    BY <2>1, <2>2
  <2>4. Upto((n - 1) + 1)
    BY <1>4, <2>3
  <2>5. QED
    BY <2>1, <2>4
<1>6. Upto(Cardinality(S))
  BY <1>1, <1>5
<1>7. PICK g \in [SUBSET S -> Int] : \A s \in SUBSET S : Cardinality(s) <= Cardinality(S) => g[s] = Next1(g)[s]
  BY <1>6 DEF Upto
<1>8. \A s \in SUBSET S : Cardinality(s) <= Cardinality(S)
  BY FS_Subset
<1>9. g = Next1(g)
  BY <1>7, <1>8
<1>10. QED
  BY <1>9 DEF Adds

\* What is known of sums: they are whole numbers, and any element may be
\* taken out first.
LEMMA SumFacts ==
  ASSUME NEW S, IsFiniteSet(S), NEW f \in [S -> Int]
  PROVE  /\ SumOf(f, {}) = 0
         /\ \A s \in SUBSET S : SumOf(f, s) \in Int
         /\ \A s \in SUBSET S : \A x \in s : SumOf(f, s) = f[x] + SumOf(f, s \ {x})
<1>0. PICK g : g = Sums(f)
  OBVIOUS
<1>1. g = [s \in SUBSET S |-> IF s = {} THEN 0 ELSE f[Some(s)] + g[s \ {Some(s)}]]
  <2>1. DOMAIN f = S
    OBVIOUS
  <2>2. Adds(f, S, g)
    BY <1>0, <2>1, SumsExist DEF Sums
  <2>3. QED
    BY <2>2 DEF Adds
<1>2. \A s \in SUBSET S : g[s] = IF s = {} THEN 0 ELSE f[Some(s)] + g[s \ {Some(s)}]
  BY <1>1
<1>3. g[{}] = 0
  BY <1>2
<1>4. \A s \in SUBSET S : s # {} => Some(s) \in s /\ f[Some(s)] \in Int /\ s \ {Some(s)} \in SUBSET S
  BY SomeIsElement
<1>5. \A s \in SUBSET S : g[s] \in Int
  <2> DEFINE Bad == {s \in SUBSET S : g[s] \notin Int}
  <2> SUFFICES ASSUME Bad # {} PROVE FALSE
    OBVIOUS
  <2>1. PICK s \in Bad : \A x \in s : s \ {x} \notin Bad
    BY SmallestSet
  <2>2. s # {}
    BY <1>3
  <2>3. g[s \ {Some(s)}] \in Int
    BY <1>4, <2>1, <2>2
  <2>4. g[s] = f[Some(s)] + g[s \ {Some(s)}]
    BY <1>2, <2>2
  <2>5. QED
    BY <1>4, <2>2, <2>3, <2>4
<1>6. \A s \in SUBSET S : \A x \in s : g[s] = f[x] + g[s \ {x}]
  <2> DEFINE Bad == {s \in SUBSET S : \E x \in s : g[s] # f[x] + g[s \ {x}]}
  <2> SUFFICES ASSUME Bad # {} PROVE FALSE
    OBVIOUS
  <2>1. PICK s \in Bad : \A x \in s : s \ {x} \notin Bad
    BY SmallestSet
  <2>2. PICK x \in s : g[s] # f[x] + g[s \ {x}]
    OBVIOUS
  <2> DEFINE c == Some(s)
  <2>3. c \in s /\ g[s] = f[c] + g[s \ {c}]
    BY <1>2, <1>4, <2>2
  <2> HIDE DEF c
  <2>4. c # x
    BY <2>2, <2>3
  <2>5. s \ {c} \in SUBSET S /\ s \ {x} \in SUBSET S /\ x \in s \ {c} /\ c \in s \ {x}
    BY <2>3, <2>4
  <2>6. g[s \ {c}] = f[x] + g[(s \ {c}) \ {x}]
    BY <2>1, <2>3, <2>5
  <2>7. g[s \ {x}] = f[c] + g[(s \ {x}) \ {c}]
    BY <2>1, <2>2, <2>5
  <2>8. (s \ {c}) \ {x} = (s \ {x}) \ {c}
    OBVIOUS
  <2>9. f[x] \in Int /\ f[c] \in Int /\ g[(s \ {x}) \ {c}] \in Int
    BY <1>5, <2>2, <2>3
  <2> DEFINE rest == g[(s \ {x}) \ {c}]
  <2>10. g[s \ {c}] = f[x] + rest /\ g[s \ {x}] = f[c] + rest
    BY <2>6, <2>7, <2>8
  <2> HIDE DEF rest
  <2>11. g[s] = f[c] + (f[x] + rest) /\ rest \in Int
    BY <2>3, <2>9, <2>10 DEF rest
  <2>12. f[x] + g[s \ {x}] = f[x] + (f[c] + rest)
    BY <2>10
  <2>13. f[c] + (f[x] + rest) = f[x] + (f[c] + rest)
    BY <2>9, <2>11
  <2>14. QED
    BY <2>2, <2>11, <2>12, <2>13
<1>7. \A s : SumOf(f, s) = g[s]
  BY <1>0 DEF SumOf
<1>8. ASSUME NEW s \in SUBSET S, NEW x \in s PROVE SumOf(f, s) = f[x] + SumOf(f, s \ {x})
  <2>1. SumOf(f, s) = g[s] /\ SumOf(f, s \ {x}) = g[s \ {x}]
    BY <1>7
  <2>2. g[s] = f[x] + g[s \ {x}]
    BY <1>6
  <2>3. QED
    BY <2>1, <2>2
<1>9. QED
  BY <1>3, <1>5, <1>7, <1>8

\* There is but one way to add up.
LEMMA AddsAgree ==
  ASSUME NEW S, IsFiniteSet(S), NEW f, NEW g, NEW h, Adds(f, S, g), Adds(f, S, h), NEW T \in SUBSET S
  PROVE  g[T] = h[T]
<1>1. \A s \in SUBSET S : /\ g[s] = IF s = {} THEN 0 ELSE f[Some(s)] + g[s \ {Some(s)}]
                          /\ h[s] = IF s = {} THEN 0 ELSE f[Some(s)] + h[s \ {Some(s)}]
  BY DEF Adds
<1> DEFINE Bad == {s \in SUBSET S : g[s] # h[s]}
<1> SUFFICES ASSUME Bad # {} PROVE FALSE
  OBVIOUS
<1>2. PICK s \in Bad : \A x \in s : s \ {x} \notin Bad
  BY SmallestSet
<1>3. s # {}
  BY <1>1
<1>4. Some(s) \in s
  BY <1>3, SomeIsElement
<1>5. g[s \ {Some(s)}] = h[s \ {Some(s)}]
  BY <1>2, <1>4
<1>6. QED
  BY <1>1, <1>3, <1>5

\* A sum over a part depends on the part only,
LEMMA SumsAgree ==
  ASSUME NEW S, IsFiniteSet(S), NEW f \in [S -> Int], NEW R, IsFiniteSet(R), NEW e \in [R -> Int],
         NEW T \in SUBSET S, T \in SUBSET R, \A x \in T : f[x] = e[x]
  PROVE  SumOf(f, T) = SumOf(e, T)
<1> DEFINE Bad == {s \in SUBSET T : SumOf(f, s) # SumOf(e, s)}
<1> SUFFICES ASSUME Bad # {} PROVE FALSE
  OBVIOUS
<1>1. IsFiniteSet(T)
  BY FS_Subset
<1>2. PICK s \in Bad : \A x \in s : s \ {x} \notin Bad
  BY <1>1, SmallestSet
<1>3. s # {}
  BY SumFacts
<1>4. PICK x \in s : TRUE
  BY <1>3
<1>5. SumOf(f, s) = f[x] + SumOf(f, s \ {x})
  BY SumFacts
<1>6. SumOf(e, s) = e[x] + SumOf(e, s \ {x})
  BY SumFacts
<1>7. SumOf(f, s \ {x}) = SumOf(e, s \ {x}) /\ f[x] = e[x]
  BY <1>2
<1>8. QED
  BY <1>5, <1>6, <1>7

\* that over two parts is the sum of both sums,
LEMMA SumOfBoth ==
  ASSUME NEW S, IsFiniteSet(S), NEW f \in [S -> Int],
         NEW A \in SUBSET S, NEW B \in SUBSET S, A \cap B = {}
  PROVE  SumOf(f, A \cup B) = SumOf(f, A) + SumOf(f, B)
<1> DEFINE Bad == {s \in SUBSET B : SumOf(f, A \cup s) # SumOf(f, A) + SumOf(f, s)}
<1> SUFFICES ASSUME Bad # {} PROVE FALSE
  OBVIOUS
<1>1. IsFiniteSet(B)
  BY FS_Subset
<1>2. PICK s \in Bad : \A x \in s : s \ {x} \notin Bad
  BY <1>1, SmallestSet
<1>3. s # {}
  <2>1. SumOf(f, A) \in Int /\ SumOf(f, {}) = 0 /\ A \cup {} = A
    BY SumFacts
  <2>2. SumOf(f, A \cup {}) = SumOf(f, A) + SumOf(f, {})
    BY <2>1
  <2>3. QED
    BY <2>2
<1>4. PICK x \in s : TRUE
  BY <1>3
<1>5. A \cup s \in SUBSET S /\ s \in SUBSET S /\ x \in A \cup s /\ (A \cup s) \ {x} = A \cup (s \ {x})
  OBVIOUS
<1>6. SumOf(f, A \cup s) = f[x] + SumOf(f, A \cup (s \ {x}))
  BY <1>5, SumFacts
<1>7. SumOf(f, s) = f[x] + SumOf(f, s \ {x})
  BY <1>5, SumFacts
<1>8. SumOf(f, A \cup (s \ {x})) = SumOf(f, A) + SumOf(f, s \ {x})
  BY <1>2
<1>9. SumOf(f, A) \in Int /\ SumOf(f, s \ {x}) \in Int /\ f[x] \in Int
  BY <1>5, SumFacts
<1>10. SumOf(f, A \cup s) = f[x] + (SumOf(f, A) + SumOf(f, s \ {x}))
  BY <1>6, <1>8
<1>11. SumOf(f, A) + SumOf(f, s) = SumOf(f, A) + (f[x] + SumOf(f, s \ {x}))
  BY <1>7
<1>12. QED
  BY <1>9, <1>10, <1>11

\* that of nothing negative is not negative, and grows with the set,
LEMMA SumNotNegative ==
  ASSUME NEW S, IsFiniteSet(S), NEW f \in [S -> Int], NEW T \in SUBSET S, \A x \in T : f[x] >= 0
  PROVE  SumOf(f, T) >= 0
<1> DEFINE Bad == {s \in SUBSET T : ~ (SumOf(f, s) >= 0)}
<1> SUFFICES ASSUME Bad # {} PROVE FALSE
  OBVIOUS
<1>1. IsFiniteSet(T)
  BY FS_Subset
<1>2. PICK s \in Bad : \A x \in s : s \ {x} \notin Bad
  BY <1>1, SmallestSet
<1>3. s # {}
  <2>1. SumOf(f, {}) = 0
    BY SumFacts
  <2>2. SumOf(f, {}) >= 0
    BY <2>1
  <2>3. QED
    BY <2>2
<1>4. PICK x \in s : TRUE
  BY <1>3
<1>5. f[x] \in Int /\ SumOf(f, s \ {x}) \in Int
  <2>1. x \in S /\ s \ {x} \in SUBSET S
    OBVIOUS
  <2>2. QED
    BY <2>1, SumFacts
<1>6. SumOf(f, s) = f[x] + SumOf(f, s \ {x})
  BY SumFacts
<1>7. SumOf(f, s \ {x}) >= 0 /\ f[x] >= 0
  BY <1>2
<1>8. QED
  BY <1>5, <1>6, <1>7

LEMMA SumGrows ==
  ASSUME NEW S, IsFiniteSet(S), NEW f \in [S -> Int], NEW T \in SUBSET S, NEW U \in SUBSET T,
         \A x \in T : f[x] >= 0
  PROVE  SumOf(f, U) <= SumOf(f, T)
<1>1. T = U \cup (T \ U) /\ U \cap (T \ U) = {} /\ U \in SUBSET S /\ T \ U \in SUBSET S
  OBVIOUS
<1>2. SumOf(f, U \cup (T \ U)) = SumOf(f, U) + SumOf(f, T \ U)
  BY <1>1, SumOfBoth
<1>3. SumOf(f, T \ U) >= 0
  BY <1>1, SumNotNegative
<1>4. SumOf(f, U) \in Int /\ SumOf(f, T \ U) \in Int
  BY <1>1, SumFacts
<1>5. SumOf(f, T) = SumOf(f, U) + SumOf(f, T \ U)
  BY <1>1, <1>2
<1>6. QED
  BY <1>3, <1>4, <1>5

\* and that of ones counts.
LEMMA SumOfOnes ==
  ASSUME NEW S, IsFiniteSet(S), NEW T \in SUBSET S
  PROVE  SumOf([x \in S |-> 1], T) = Cardinality(T)
<1> DEFINE ones == [x \in S |-> 1]
           Bad == {s \in SUBSET T : SumOf(ones, s) # Cardinality(s)}
<1>0. ones \in [S -> Int] /\ \A x \in S : ones[x] = 1
  OBVIOUS
<1> HIDE DEF ones
<1> SUFFICES ASSUME Bad # {} PROVE FALSE
  BY DEF ones
<1>1. IsFiniteSet(T)
  BY FS_Subset
<1>2. PICK s \in Bad : \A x \in s : s \ {x} \notin Bad
  BY <1>1, SmallestSet
<1>3. s # {}
  BY <1>0, SumFacts, FS_EmptySet
<1>4. PICK x \in s : TRUE
  BY <1>3
<1>5. SumOf(ones, s) = 1 + SumOf(ones, s \ {x})
  BY <1>0, SumFacts
<1>6. SumOf(ones, s \ {x}) = Cardinality(s \ {x})
  BY <1>2
<1>7. IsFiniteSet(s)
  BY <1>1, FS_Subset
<1>8. Cardinality(s \ {x}) = Cardinality(s) - 1 /\ Cardinality(s) \in Nat
  BY <1>7, FS_RemoveElement, FS_CardinalityType
<1>9. QED
  BY <1>5, <1>6, <1>8

-------------------------------------------------------------------------------
(* The sums of the module.                                                 *)

Price == [x \in Txs |-> -Amount[x]]

LEMMA PriceType == Price \in [Txs -> Int] /\ \A x \in Txs : Price[x] = -Amount[x]
  BY AmountAssumption DEF Price

LEMMA CentsIsSum ==
  ASSUME NEW rows \in SUBSET Txs
  PROVE  Cents(rows) = SumOf(Price, rows) /\ Cents(rows) \in Int
<1> DEFINE f == [x \in rows |-> -Amount[x]]
           Here(g) == [s \in SUBSET rows |-> IF s = {} THEN 0 ELSE -Amount[CHOOSE x \in s : TRUE] + g[s \ {CHOOSE x \in s : TRUE}]]
<1>1. IsFiniteSet(rows) /\ IsFiniteSet(Txs)
  BY TxsAssumption, FS_Subset
<1>2. f \in [rows -> Int]
  BY AmountAssumption
<1>3. Cents(rows) = (CHOOSE g : g = Here(g))[rows]
  BY DEF Cents, MapThenSumSet, MapThenFoldSet
<1>4. \A g : g = Here(g) <=> Adds(f, rows, g)
  <2> SUFFICES ASSUME NEW g
               PROVE Here(g) = [s \in SUBSET rows |-> IF s = {} THEN 0 ELSE f[Some(s)] + g[s \ {Some(s)}]]
    BY DEF Adds
  <2>1. \A s \in SUBSET rows : s # {} => f[Some(s)] = -Amount[Some(s)]
    BY SomeIsElement
  <2>2. QED
    BY <2>1 DEF Some
<1> HIDE DEF Here
<1>5. PICK g : g = Here(g) /\ Cents(rows) = g[rows]
  <2>1. \E g : g = Here(g)
    BY <1>1, <1>2, <1>4, SumsExist
  <2>2. QED
    BY <1>3, <2>1
<1>6. Adds(f, rows, g) /\ Adds(f, rows, Sums(f))
  <2>1. DOMAIN f = rows
    OBVIOUS
  <2>2. QED
    BY <1>1, <1>2, <1>4, <1>5, <2>1, SumsExist DEF Sums
<1>7. Cents(rows) = SumOf(f, rows)
  BY <1>1, <1>5, <1>6, AddsAgree DEF SumOf
<1>8. \A x \in rows : f[x] = Price[x]
  BY PriceType
<1> HIDE DEF f
<1>9. SumOf(f, rows) = SumOf(Price, rows)
  BY <1>1, <1>2, <1>8, PriceType, SumsAgree
<1>10. QED
  BY <1>1, <1>7, <1>9, PriceType, SumFacts

-------------------------------------------------------------------------------
(* What the requests have read, and what they start.                       *)

Groups == [name : {Category[x] : x \in Txs}, cents : Int, count : Nat]
Readings == [current : Int, last : Int, count : Nat, categories : SUBSET Groups, surprises : SUBSET Txs]

ReadingsOK == ledger \subseteq Txs /\ pulse \in [Pulses -> Readings]

LEMMA WindowTypes ==
  ASSUME ledger \subseteq Txs, NEW t
  PROVE  /\ InCurrent(ledger, t) \in SUBSET Txs /\ InLast(ledger, t) \in SUBSET Txs
         /\ Cardinality(InCurrent(ledger, t)) \in Nat
         /\ Cents(Expenses(InCurrent(ledger, t))) \in Int
         /\ Cents(Expenses(InLast(ledger, t))) \in Int
<1>1. InCurrent(ledger, t) \in SUBSET Txs /\ InLast(ledger, t) \in SUBSET Txs
  BY DEF InCurrent, InLast
<1>2. Expenses(InCurrent(ledger, t)) \in SUBSET Txs /\ Expenses(InLast(ledger, t)) \in SUBSET Txs
  BY <1>1 DEF Expenses
<1>3. Cardinality(InCurrent(ledger, t)) \in Nat
  BY <1>1, TxsAssumption, FS_Subset, FS_CardinalityType
<1>4. QED
  BY <1>1, <1>2, <1>3, CentsIsSum

\* The groups of a set of rows, as GROUP BY makes them.
GroupOf(rows, c) == {x \in rows : Category[x] = c}
GroupsOf(rows) ==
  {[name |-> c, cents |-> Cents(GroupOf(rows, c)), count |-> Cardinality(GroupOf(rows, c))] :
     c \in {Category[x] : x \in rows}}

LEMMA GroupTypes ==
  ASSUME NEW rows \in SUBSET Txs
  PROVE  GroupsOf(rows) \in SUBSET Groups
<1> SUFFICES ASSUME NEW y \in rows
             PROVE [name |-> Category[y], cents |-> Cents(GroupOf(rows, Category[y])),
                    count |-> Cardinality(GroupOf(rows, Category[y]))] \in Groups
  BY DEF GroupsOf
<1>1. GroupOf(rows, Category[y]) \in SUBSET Txs
  BY DEF GroupOf
<1>2. Cents(GroupOf(rows, Category[y])) \in Int
  BY <1>1, CentsIsSum
<1>3. Cardinality(GroupOf(rows, Category[y])) \in Nat
  BY <1>1, TxsAssumption, FS_Subset, FS_CardinalityType
<1>4. QED
  BY <1>2, <1>3 DEF Groups

LEMMA TopAreGroups ==
  ASSUME NEW t, NEW top \in TopCategories(t)
  PROVE  /\ top \subseteq GroupsOf(Expenses(InCurrent(ledger, t)))
         /\ Cardinality(top) = (IF Cardinality(GroupsOf(Expenses(InCurrent(ledger, t)))) < TopLimit
                                THEN Cardinality(GroupsOf(Expenses(InCurrent(ledger, t)))) ELSE TopLimit)
  BY DEF TopCategories, Largest, CategoryWindow, GroupsOf, GroupOf

LEMMA NewAreExpenses ==
  ASSUME NEW t, NEW new \in SurpriseExpenses(t)
  PROVE  new \subseteq Expenses(InCurrent(ledger, t))
  BY DEF SurpriseExpenses, Largest

LEMMA InitReadings == Init => ReadingsOK
  BY TxsAssumption DEF Init, ReadingsOK, Readings, NoPulse

LEMMA StepReadings == ReadingsOK /\ [Next]_vars => ReadingsOK'
<1> SUFFICES ASSUME ReadingsOK, [Next]_vars PROVE ReadingsOK'
  OBVIOUS
<1> USE DEF ReadingsOK
<1>1. ASSUME NEW p \in Pulses, Begin(p) PROVE ReadingsOK'
  BY <1>1 DEF Begin
<1>2. ASSUME NEW p \in Pulses, PulseStep(p) PROVE ReadingsOK'
  <2>1. CASE ReadCurrent(p)
    BY <2>1, WindowTypes DEF ReadCurrent, Readings
  <2>2. CASE ReadLast(p)
    BY <2>2, WindowTypes DEF ReadLast, Readings
  <2>3. CASE ReadSumsFails(p) \/ ReadExtraFails(p)
    BY <2>3 DEF ReadSumsFails, ReadExtraFails
  <2>4. CASE ReadCount(p)
    BY <2>4, WindowTypes DEF ReadCount, Readings
  <2>5. CASE ReadCategories(p)
    <3>1. PICK top \in TopCategories(asOf[p]) : pulse' = [pulse EXCEPT ![p].categories = top] /\ ledger' = ledger
      BY <2>5 DEF ReadCategories
    <3>2. Expenses(InCurrent(ledger, asOf[p])) \in SUBSET Txs
      BY WindowTypes DEF Expenses
    <3>3. top \in SUBSET Groups
      BY <3>1, <3>2, TopAreGroups, GroupTypes
    <3>4. QED
      BY <3>1, <3>3 DEF Readings
  <2>6. CASE ReadSurprises(p)
    <3>1. PICK new \in SurpriseExpenses(asOf[p]) : pulse' = [pulse EXCEPT ![p].surprises = new] /\ ledger' = ledger
      BY <2>6 DEF ReadSurprises
    <3>2. new \in SUBSET Txs
      BY <3>1, WindowTypes, NewAreExpenses DEF Expenses
    <3>3. QED
      BY <3>1, <3>2 DEF Readings
  <2>7. CASE Answer(p)
    <3>1. NoPulse \in Readings
      BY DEF NoPulse, Readings
    <3>2. QED
      BY <2>7, <3>1 DEF Answer
  <2>8. QED
    BY <1>2, <2>1, <2>2, <2>3, <2>4, <2>5, <2>6, <2>7 DEF PulseStep
<1>3. ASSUME NEW p \in Pulses, Panic(p) PROVE ReadingsOK'
  BY <1>3 DEF Panic
<1>4. CASE ChangeLedger
  BY <1>4, TxsAssumption DEF ChangeLedger
<1>5. CASE UNCHANGED pulseVars
  BY <1>5 DEF pulseVars
<1>6. QED
  BY <1>1, <1>2, <1>3, <1>4, <1>5 DEF Next, Alerting, vars

\* A request starts its call when it answers, and not before.
Unanswered == {"idle", "current", "last", "count", "categories", "surprises", "reply"}
StartsOnce ==
  /\ pulsePc \in [Pulses -> Unanswered \cup {"answered", "failed", "lost"}]
  /\ alertPc \in [Pulses -> AlertSteps]
  /\ \A p \in Pulses : pulsePc[p] \in Unanswered => alertPc[p] = "idle"

LEMMA InitPulse == Init => StartsOnce /\ \E first \in 0..LastDay : AlertInit(first)
<1> SUFFICES ASSUME Init PROVE StartsOnce /\ \E first \in 0..LastDay : AlertInit(first)
  OBVIOUS
<1>1. LastDay - 1 \in 0..LastDay
  BY DaysAssumption
<1>2. \E first \in 0..LastDay : AlertInit(first)
  BY <1>1 DEF Init
<1>3. StartsOnce
  BY DEF Init, AlertInit, StartsOnce, Unanswered, AlertSteps
<1>4. QED
  BY <1>2, <1>3

\* What a step of a request does to the calls: nothing, the count of failed
\* queries, or the start of its own call.
LEMMA PulseStepMaps ==
  ASSUME StartsOnce, ReadingsOK, NEW p \in Pulses, Begin(p) \/ PulseStep(p)
  PROVE  StartsOnce' /\ [AlertNext]_alertVars
<1>1. CASE Begin(p)
  BY <1>1 DEF Begin, StartsOnce, Unanswered, alertVars
<1>2. CASE ReadCurrent(p) \/ ReadLast(p) \/ ReadCount(p) \/ ReadCategories(p) \/ ReadSurprises(p)
  BY <1>2 DEF ReadCurrent, ReadLast, ReadCount, ReadCategories, ReadSurprises, Read, StartsOnce, Unanswered, alertVars
<1>3. CASE ReadSumsFails(p) \/ ReadExtraFails(p)
  <2>1. QueryFails
    BY <1>3 DEF ReadSumsFails, ReadExtraFails
  <2>2. AlertNext
    BY <2>1 DEF AlertNext
  <2>3. alertPc' = alertPc
    BY <2>1 DEF QueryFails
  <2>4. StartsOnce'
    BY <1>3, <2>3 DEF ReadSumsFails, ReadExtraFails, Read, StartsOnce, Unanswered
  <2>5. QED
    BY <2>2, <2>4
<1>4. CASE Answer(p)
  <2>1. pulsePc[p] = "reply" /\ pulsePc' = [pulsePc EXCEPT ![p] = "answered"]
    BY <1>4 DEF Answer, Read
  <2>2. alertPc[p] = "idle"
    BY <2>1 DEF StartsOnce, Unanswered
  <2>3. CASE Told(p).notify
    <3>1. Trigger(p, pulse[p].current, pulse[p].last)
      BY <1>4, <2>3 DEF Answer
    <3>2. ShouldNotify(pulse[p].current, pulse[p].last)
      BY <2>3 DEF Told, NoReply
    <3>3. AlertNext
      <4>1. pulse[p].current \in Int /\ pulse[p].last \in Int
        BY DEF ReadingsOK, Readings
      <4>2. QED
        BY <2>2, <3>1, <3>2, <4>1 DEF AlertNext
    <3>4. alertPc' \in [Pulses -> AlertSteps] /\ \A q \in Pulses : q # p => alertPc'[q] = alertPc[q]
      BY <3>1 DEF Trigger, StartsOnce, AlertSteps
    <3>5. QED
      BY <2>1, <3>3, <3>4 DEF StartsOnce, Unanswered
  <2>4. CASE ~ Told(p).notify
    <3>1. UNCHANGED alertVars
      BY <1>4, <2>4 DEF Answer
    <3>2. QED
      BY <2>1, <3>1 DEF StartsOnce, Unanswered, alertVars
  <2>5. QED
    BY <2>3, <2>4
<1>5. QED
  BY <1>1, <1>2, <1>3, <1>4 DEF PulseStep

\* The steps of a call leave the requests alone, and only an idle call can
\* be one whose request has not answered.
LEMMA AlertStepMaps ==
  ASSUME StartsOnce, NEW p \in Pulses, Alerting(p)
  PROVE  StartsOnce' /\ AlertNext
<1>1. AlertStep(p) /\ pulsePc' = pulsePc
  BY DEF Alerting, pulseVars
<1>2. AlertNext
  BY <1>1 DEF AlertNext
<1>3. alertPc[p] # "idle" /\ \E pc \in AlertSteps : alertPc' = [alertPc EXCEPT ![p] = pc]
  BY <1>1 DEF AlertStep, CheckAlert, CheckAlertFails, CreateAlert, CreateAlertFails, GetToken, PostPush, AlertSteps
<1>4. QED
  BY <1>1, <1>2, <1>3 DEF StartsOnce

LEMMA StepMaps == StartsOnce /\ ReadingsOK /\ [Next]_vars => StartsOnce' /\ [AlertNext]_alertVars
<1> SUFFICES ASSUME StartsOnce, ReadingsOK, [Next]_vars PROVE StartsOnce' /\ [AlertNext]_alertVars
  OBVIOUS
<1>1. ASSUME NEW p \in Pulses, Begin(p) \/ PulseStep(p) PROVE StartsOnce' /\ [AlertNext]_alertVars
  BY <1>1, PulseStepMaps
<1>2. ASSUME NEW p \in Pulses, Alerting(p) PROVE StartsOnce' /\ [AlertNext]_alertVars
  BY <1>2, AlertStepMaps
<1>3. ASSUME NEW p \in Pulses, Panic(p) PROVE StartsOnce' /\ [AlertNext]_alertVars
  <2>1. PanicPush(p)
    BY <1>3 DEF Panic
  <2>2. AlertNext
    BY <2>1 DEF AlertNext
  <2>3. alertPc' \in [Pulses -> AlertSteps] /\ \A q \in Pulses : alertPc[q] = "idle" => alertPc'[q] = "idle"
    BY <2>1 DEF PanicPush, Interrupted, StartsOnce, AlertSteps
  <2>4. \A q \in Pulses : pulsePc'[q] = pulsePc[q] \/ pulsePc'[q] = "lost"
    BY <1>3 DEF Panic
  <2>5. pulsePc' \in [Pulses -> Unanswered \cup {"answered", "failed", "lost"}]
    BY <1>3 DEF Panic, StartsOnce
  <2>6. QED
    BY <2>2, <2>3, <2>4, <2>5 DEF StartsOnce, Unanswered
<1>4. ASSUME NEW p \in Pulses, MarkAlertRead(p) \/ DismissAlert(p), UNCHANGED pulseVars
      PROVE  StartsOnce' /\ [AlertNext]_alertVars
  <2>1. AlertNext
    BY <1>4 DEF AlertNext
  <2>2. alertPc' = alertPc /\ pulsePc' = pulsePc
    BY <1>4 DEF MarkAlertRead, DismissAlert, Handle, pulseVars
  <2>3. QED
    BY <2>1, <2>2 DEF StartsOnce
<1>5. CASE (UpdatePushToken \/ NextDay) /\ UNCHANGED pulseVars
  <2>1. AlertNext
    BY <1>5 DEF AlertNext
  <2>2. alertPc' = alertPc /\ pulsePc' = pulsePc
    BY <1>5 DEF UpdatePushToken, NextDay, pulseVars
  <2>3. QED
    BY <2>1, <2>2 DEF StartsOnce
<1>6. CASE ChangeLedger
  BY <1>6 DEF ChangeLedger, StartsOnce, alertVars
<1>7. CASE UNCHANGED vars
  BY <1>7 DEF vars, pulseVars, alertVars, StartsOnce
<1>8. QED
  BY <1>1, <1>2, <1>3, <1>4, <1>5, <1>6, <1>7 DEF Next

-------------------------------------------------------------------------------
(* The groups of a sum add up to it.                                       *)

LEMMA GroupsFinite ==
  ASSUME NEW rows \in SUBSET Txs
  PROVE  IsFiniteSet(rows) /\ IsFiniteSet(GroupsOf(rows))
<1> DEFINE group(c) == [name |-> c, cents |-> Cents(GroupOf(rows, c)), count |-> Cardinality(GroupOf(rows, c))]
           h == [x \in rows |-> group(Category[x])]
<1>1. IsFiniteSet(rows)
  BY TxsAssumption, FS_Subset
<1>2. GroupsOf(rows) = {group(c) : c \in {Category[x] : x \in rows}}
  BY DEF GroupsOf
<1> HIDE DEF group
<1>3. h \in Surjection(rows, GroupsOf(rows))
  BY <1>2 DEF Surjection
<1>4. QED
  BY <1>1, <1>3, FS_Surjection

\* The rows of some of the groups.
Covered(rows, T) == {x \in rows : \E g \in T : g.name = Category[x]}

\* A weight that each group has as the sum of its rows has the sum of their
\* rows on any groups together: no row is in two of them.
LEMMA GroupsAddUp ==
  ASSUME NEW rows \in SUBSET Txs, NEW f \in [Txs -> Int], NEW w \in [GroupsOf(rows) -> Int],
         \A g \in GroupsOf(rows) : w[g] = SumOf(f, GroupOf(rows, g.name)),
         NEW T \in SUBSET GroupsOf(rows)
  PROVE  SumOf(w, T) = SumOf(f, Covered(rows, T))
<1> DEFINE G == GroupsOf(rows)
           Bad == {U \in SUBSET T : SumOf(w, U) # SumOf(f, Covered(rows, U))}
<1>1. IsFiniteSet(G) /\ IsFiniteSet(T) /\ IsFiniteSet(Txs)
  BY GroupsFinite, FS_Subset, TxsAssumption
<1> SUFFICES ASSUME Bad # {} PROVE FALSE
  OBVIOUS
<1>2. PICK U \in Bad : \A g \in U : U \ {g} \notin Bad
  BY <1>1, SmallestSet
<1>3. U # {}
  <2>1. SumOf(w, {}) = 0 /\ SumOf(f, {}) = 0
    BY <1>1, SumFacts
  <2>2. Covered(rows, {}) = {}
    BY DEF Covered
  <2>3. QED
    BY <2>1, <2>2
<1>4. PICK g \in U : TRUE
  BY <1>3
<1>5. g \in G /\ U \in SUBSET G
  OBVIOUS
<1> DEFINE A == Covered(rows, U \ {g})
           B == GroupOf(rows, g.name)
<1>6. \A e \in G : e.name = g.name => e = g
  BY <1>5 DEF GroupsOf
<1>7. A \in SUBSET Txs /\ B \in SUBSET Txs /\ Covered(rows, U) = A \cup B /\ A \cap B = {}
  BY <1>5, <1>6 DEF Covered, GroupOf
<1>8. SumOf(w, U \ {g}) = SumOf(f, A)
  BY <1>2
<1>9. w[g] = SumOf(f, B)
  BY <1>5
<1> HIDE DEF A, B
<1>10. SumOf(f, Covered(rows, U)) = SumOf(f, A) + SumOf(f, B)
  <2>1. SumOf(f, A \cup B) = SumOf(f, A) + SumOf(f, B)
    BY <1>1, <1>7, SumOfBoth
  <2>2. QED
    BY <1>7, <2>1
<1>11. SumOf(w, U) = w[g] + SumOf(w, U \ {g})
  BY <1>1, <1>5, SumFacts
<1>12. SumOf(f, A) \in Int /\ SumOf(f, B) \in Int
  BY <1>1, <1>7, SumFacts
<1>13. SumOf(w, U) = SumOf(f, B) + SumOf(f, A)
  BY <1>8, <1>9, <1>11
<1>14. QED
  BY <1>10, <1>12, <1>13

\* The two sums over categories, as MapThenSumSet makes them up.
LEMMA CentsOfGroups ==
  ASSUME NEW T, IsFiniteSet(T), T \subseteq Groups
  PROVE  MapThenSumSet(LAMBDA g : g.cents, T) = SumOf([g \in T |-> g.cents], T)
<1> DEFINE f == [g \in T |-> g.cents]
           Here(h) == [s \in SUBSET T |-> IF s = {} THEN 0 ELSE (CHOOSE g \in s : TRUE).cents + h[s \ {CHOOSE g \in s : TRUE}]]
<1>1. f \in [T -> Int]
  BY DEF Groups
<1>2. MapThenSumSet(LAMBDA g : g.cents, T) = (CHOOSE h : h = Here(h))[T]
  BY DEF MapThenSumSet, MapThenFoldSet
<1>3. \A h : h = Here(h) <=> Adds(f, T, h)
  <2> SUFFICES ASSUME NEW h
               PROVE Here(h) = [s \in SUBSET T |-> IF s = {} THEN 0 ELSE f[Some(s)] + h[s \ {Some(s)}]]
    BY DEF Adds
  <2>1. \A s \in SUBSET T : s # {} => f[Some(s)] = Some(s).cents
    BY SomeIsElement
  <2>2. QED
    BY <2>1 DEF Some
<1> HIDE DEF Here
<1>4. PICK h : h = Here(h) /\ MapThenSumSet(LAMBDA g : g.cents, T) = h[T]
  <2>1. \E h : h = Here(h)
    BY <1>1, <1>3, SumsExist
  <2>2. QED
    BY <1>2, <2>1
<1>5. Adds(f, T, h) /\ Adds(f, T, Sums(f))
  <2>1. DOMAIN f = T
    OBVIOUS
  <2>2. QED
    BY <1>1, <1>3, <1>4, <2>1, SumsExist DEF Sums
<1>6. QED
  BY <1>4, <1>5, AddsAgree DEF SumOf

LEMMA CountOfGroups ==
  ASSUME NEW T, IsFiniteSet(T), T \subseteq Groups
  PROVE  MapThenSumSet(LAMBDA g : g.count, T) = SumOf([g \in T |-> g.count], T)
<1> DEFINE f == [g \in T |-> g.count]
           Here(h) == [s \in SUBSET T |-> IF s = {} THEN 0 ELSE (CHOOSE g \in s : TRUE).count + h[s \ {CHOOSE g \in s : TRUE}]]
<1>1. f \in [T -> Int]
  BY DEF Groups
<1>2. MapThenSumSet(LAMBDA g : g.count, T) = (CHOOSE h : h = Here(h))[T]
  BY DEF MapThenSumSet, MapThenFoldSet
<1>3. \A h : h = Here(h) <=> Adds(f, T, h)
  <2> SUFFICES ASSUME NEW h
               PROVE Here(h) = [s \in SUBSET T |-> IF s = {} THEN 0 ELSE f[Some(s)] + h[s \ {Some(s)}]]
    BY DEF Adds
  <2>1. \A s \in SUBSET T : s # {} => f[Some(s)] = Some(s).count
    BY SomeIsElement
  <2>2. QED
    BY <2>1 DEF Some
<1> HIDE DEF Here
<1>4. PICK h : h = Here(h) /\ MapThenSumSet(LAMBDA g : g.count, T) = h[T]
  <2>1. \E h : h = Here(h)
    BY <1>1, <1>3, SumsExist
  <2>2. QED
    BY <1>2, <2>1
<1>5. Adds(f, T, h) /\ Adds(f, T, Sums(f))
  <2>1. DOMAIN f = T
    OBVIOUS
  <2>2. QED
    BY <1>1, <1>3, <1>4, <2>1, SumsExist DEF Sums
<1>6. QED
  BY <1>4, <1>5, AddsAgree DEF SumOf

-------------------------------------------------------------------------------
(* A client told of a notification.                                        *)

\* What an answer says of the alert: it announces one only when the pace is
\* over the sum of last month, and then the call has begun.
Announced ==
  /\ DOMAIN reply = Pulses
  /\ \A p \in Pulses : reply[p].notify => reply[p].message = "Spending ahead" /\ alertPc[p] # "idle"

LEMMA InitAnnounced == Init => Announced
<1> SUFFICES ASSUME Init PROVE Announced
  OBVIOUS
<1>1. reply = [p \in Pulses |-> NoReply]
  BY DEF Init
<1>2. NoReply.notify = FALSE
  BY DEF NoReply
<1>3. \A p \in Pulses : reply[p].notify = FALSE
  BY <1>1, <1>2
<1>4. DOMAIN reply = Pulses
  BY <1>1
<1>5. QED
  BY <1>3, <1>4 DEF Announced

LEMMA ToldAhead ==
  ASSUME ReadingsOK, NEW p \in Pulses
  PROVE  Told(p).notify => Told(p).message = "Spending ahead"
<1> DEFINE q == pulse[p]
<1>1. q.current \in Int /\ q.last \in Int
  BY DEF ReadingsOK, Readings
<1>2. ShouldNotify(q.current, q.last) => PaceMessage(q) = "Spending ahead"
  <2> SUFFICES ASSUME ShouldNotify(q.current, q.last) PROVE PaceMessage(q) = "Spending ahead"
    OBVIOUS
  <2>1. q.last # 0 /\ q.current > q.last
    BY <1>1 DEF ShouldNotify, OverBy
  <2> HIDE DEF q
  <2>2. QED
    BY <1>1, <2>1 DEF PaceMessage
<1> HIDE DEF q
<1>3. Told(p) = IF kind[p] = "pulse"
                THEN [NoReply EXCEPT !.notify = ShouldNotify(q.current, q.last), !.message = PaceMessage(q)]
                ELSE [NoReply EXCEPT !.message = PaceMessage(q), !.color = Color(q), !.hook = Hook(q)]
  BY DEF Told, q
<1>4. CASE kind[p] = "pulse"
  <2>1. PICK due, none : due = ShouldNotify(q.current, q.last) /\ none = ""
    OBVIOUS
  <2>2. Told(p) = [notify |-> due, message |-> PaceMessage(q), color |-> none, hook |-> none]
    BY <1>3, <1>4, <2>1 DEF NoReply
  <2>3. Told(p).notify = due
    BY <2>2
  <2>4. Told(p).message = PaceMessage(q)
    BY <2>2
  <2>5. QED
    BY <1>2, <2>1, <2>3, <2>4
<1>5. CASE kind[p] # "pulse"
  <2>1. Told(p) = [notify |-> FALSE, message |-> PaceMessage(q), color |-> Color(q), hook |-> Hook(q)]
    BY <1>3, <1>5 DEF NoReply
  <2>2. Told(p).notify = FALSE
    BY <2>1
  <2>3. QED
    BY <2>2
<1>6. QED
  BY <1>4, <1>5

\* No step takes a call back to where it has not begun.
LEMMA StepAnnounced == Announced /\ StartsOnce /\ ReadingsOK /\ [Next]_vars => Announced'
<1> SUFFICES ASSUME Announced, StartsOnce, ReadingsOK, [Next]_vars PROVE Announced'
  OBVIOUS
<1>1. ASSUME reply' = reply, \A p \in Pulses : alertPc[p] # "idle" => alertPc'[p] # "idle" PROVE Announced'
  BY <1>1 DEF Announced
<1>2. ASSUME NEW p \in Pulses, Begin(p) PROVE Announced'
  BY <1>1, <1>2 DEF Begin, alertVars
<1>3. ASSUME NEW p \in Pulses, PulseStep(p), ~ Answer(p) PROVE Announced'
  <2>1. reply' = reply /\ alertPc' = alertPc
    BY <1>3 DEF PulseStep, ReadCurrent, ReadLast, ReadSumsFails, ReadCount, ReadCategories, ReadExtraFails,
                ReadSurprises, QueryFails, alertVars
  <2>2. QED
    BY <1>1, <2>1
<1>4. ASSUME NEW p \in Pulses, Answer(p) PROVE Announced'
  <2>1. reply' = [reply EXCEPT ![p] = Told(p)]
    BY <1>4 DEF Answer
  <2>2. \A q \in Pulses : alertPc[q] # "idle" => alertPc'[q] # "idle"
    <3>1. CASE Told(p).notify
      BY <1>4, <3>1 DEF Answer, Trigger, StartsOnce
    <3>2. CASE ~ Told(p).notify
      BY <1>4, <3>2 DEF Answer, alertVars
    <3>3. QED
      BY <3>1, <3>2
  <2>3. Told(p).notify => alertPc'[p] # "idle"
    BY <1>4 DEF Answer, Trigger, StartsOnce
  <2>4. QED
    BY <2>1, <2>2, <2>3, ToldAhead DEF Announced
<1>5. ASSUME NEW p \in Pulses, Alerting(p) PROVE Announced'
  <2>1. reply' = reply /\ alertPc[p] # "idle" /\ \E pc \in AlertSteps \ {"idle"} : alertPc' = [alertPc EXCEPT ![p] = pc]
    BY <1>5 DEF Alerting, AlertStep, CheckAlert, CheckAlertFails, CreateAlert, CreateAlertFails, GetToken, PostPush,
                AlertSteps, pulseVars
  <2>2. QED
    BY <1>1, <2>1 DEF StartsOnce
<1>6. ASSUME NEW p \in Pulses, Panic(p) PROVE Announced'
  BY <1>1, <1>6 DEF Panic, PanicPush, Interrupted
<1>7. ASSUME NEW p \in Pulses, MarkAlertRead(p) \/ DismissAlert(p), UNCHANGED pulseVars PROVE Announced'
  BY <1>1, <1>7 DEF MarkAlertRead, DismissAlert, Handle, pulseVars
<1>8. CASE (UpdatePushToken \/ NextDay) /\ UNCHANGED pulseVars
  BY <1>1, <1>8 DEF UpdatePushToken, NextDay, pulseVars
<1>9. CASE ChangeLedger
  BY <1>1, <1>9 DEF ChangeLedger, alertVars
<1>10. CASE UNCHANGED vars
  BY <1>1, <1>10 DEF vars, pulseVars, alertVars
<1>11. QED
  BY <1>2, <1>3, <1>4, <1>5, <1>6, <1>7, <1>8, <1>9, <1>10 DEF Next

LEMMA AnnouncedIsAlerted == Announced /\ AlertInv => NotifiedIsAlerted
  BY DEF Announced, AlertInv, EndsWithAlert, NotifiedIsAlerted, Interrupted

-------------------------------------------------------------------------------
(* The parts of one answer.                                                *)

\* Rows that differ from others by rows that moved only.
Near(R, rows, between) == R \in SUBSET Txs /\ R \ between = rows \ between

\* What a request has read by each phase is what its queries give on tables
\* that differ from the one as it is by the rows that moved since.
FreshOf(rows, between, q, pc) ==
  /\ pc \in {"last", "count", "categories", "surprises", "reply"} =>
       \E R : Near(R, rows, between) /\ q.current = Cents(Expenses(R))
  /\ pc \in {"categories", "surprises", "reply"} =>
       \E R : Near(R, rows, between) /\ q.count = Cardinality(R)
  /\ pc \in {"surprises", "reply"} =>
       \E R : /\ Near(R, rows, between)
              /\ q.categories \subseteq GroupsOf(Expenses(R))
              /\ Cardinality(q.categories) = (IF Cardinality(GroupsOf(Expenses(R))) < TopLimit
                                              THEN Cardinality(GroupsOf(Expenses(R))) ELSE TopLimit)
  /\ pc = "reply" => \E R : Near(R, rows, between) /\ q.surprises \subseteq Expenses(R)

FreshAt(p) ==
  p \notin partial => FreshOf(InCurrent(ledger, asOf[p]), InCurrent(moved[p], asOf[p]), pulse[p], pulsePc[p])

Fresh ==
  /\ partial \subseteq Pulses /\ moved \in [Pulses -> SUBSET Txs]
  /\ \A p \in Pulses : FreshAt(p)

LEMMA InitFresh == Init => Fresh
  BY DEF Init, Fresh, FreshAt, FreshOf

\* The ghosts keep their types.
LEMMA GhostsKept ==
  ASSUME Fresh, [Next]_vars
  PROVE  partial' \subseteq Pulses /\ moved' \in [Pulses -> SUBSET Txs]
<1> USE DEF Fresh
<1>1. ASSUME NEW p \in Pulses, PulseStep(p) PROVE partial' \subseteq Pulses /\ moved' \in [Pulses -> SUBSET Txs]
  BY <1>1 DEF PulseStep, ReadCurrent, ReadLast, ReadSumsFails, ReadCount, ReadCategories, ReadExtraFails, ReadSurprises,
              Answer
<1>2. ASSUME NEW p \in Pulses, Begin(p) \/ Panic(p) PROVE partial' \subseteq Pulses /\ moved' \in [Pulses -> SUBSET Txs]
  BY <1>2 DEF Begin, Panic
<1>3. CASE ChangeLedger
  BY <1>3, TxsAssumption DEF ChangeLedger
<1>4. CASE UNCHANGED pulseVars
  BY <1>4 DEF pulseVars
<1>5. QED
  BY <1>1, <1>2, <1>3, <1>4 DEF Next, Alerting, vars

\* A step that leaves the table and a request alone leaves it fresh.
LEMMA StaysFresh ==
  ASSUME Fresh, ledger' = ledger, NEW q \in Pulses, q \notin partial' => q \notin partial,
         asOf'[q] = asOf[q], moved'[q] = moved[q], pulse'[q] = pulse[q], pulsePc'[q] \in {pulsePc[q], "failed", "lost"}
  PROVE  FreshAt(q)'
<1>1. CASE pulsePc'[q] = pulsePc[q]
  BY <1>1 DEF Fresh, FreshAt
<1>2. CASE pulsePc'[q] \in {"failed", "lost"}
  BY <1>2 DEF FreshAt, FreshOf
<1>3. QED
  BY <1>1, <1>2

\* A row that comes or goes is one that moved.
LEMMA MovesFresh ==
  ASSUME Fresh, ReadingsOK, NEW q \in Pulses, ChangeLedger
  PROVE  FreshAt(q)'
<1> DEFINE rows == InCurrent(ledger, asOf[q])
           after == InCurrent(ledger', asOf[q])
           between == InCurrent(moved[q], asOf[q])
           wider == InCurrent(moved'[q], asOf[q])
<1>1. UNCHANGED <<pulsePc, asOf, pulse, partial>>
  BY DEF ChangeLedger
<1>2. CASE ~ UnderWay(q)
  BY <1>1, <1>2 DEF UnderWay, FreshAt, FreshOf
<1>3. CASE UnderWay(q)
  <2>1. PICK x \in Moving : ledger' \in {ledger \cup {x}, ledger \ {x}} /\ moved'[q] = moved[q] \cup {x}
    BY <1>3 DEF ChangeLedger
  <2>2. between \subseteq wider /\ after \ wider = rows \ wider
    BY <2>1 DEF InCurrent
  <2>3. \A R : Near(R, rows, between) => Near(R, after, wider)
    BY <2>2 DEF Near
  <2>4. q \notin partial => FreshOf(rows, between, pulse[q], pulsePc[q])
    BY DEF Fresh, FreshAt
  <2> HIDE DEF rows, after, between, wider
  <2>5. q \notin partial => FreshOf(after, wider, pulse[q], pulsePc[q])
    BY <2>3, <2>4 DEF FreshOf
  <2>6. QED
    BY <1>1, <2>5 DEF FreshAt, after, wider
<1>4. QED
  BY <1>2, <1>3

\* Each query of a request adds what it reads to what is fresh.
LEMMA QueriesFresh ==
  ASSUME Fresh, StartsOnce, ReadingsOK, NEW p \in Pulses, p \notin partial,
         \/ ReadCurrent(p) \/ ReadLast(p) \/ ReadCount(p) \/ ReadCategories(p) \/ ReadSurprises(p)
  PROVE  FreshOf(InCurrent(ledger, asOf[p]), InCurrent(moved[p], asOf[p]), pulse'[p], pulsePc'[p])
<1> DEFINE rows == InCurrent(ledger, asOf[p])
           between == InCurrent(moved[p], asOf[p])
<1>1. FreshOf(rows, between, pulse[p], pulsePc[p])
  BY DEF Fresh, FreshAt
<1>2. p \in DOMAIN pulse /\ p \in DOMAIN pulsePc /\ pulse[p] \in Readings /\ Near(rows, rows, between)
  BY DEF ReadingsOK, StartsOnce, Near, InCurrent
<1> HIDE DEF between
<1>3. CASE ReadCurrent(p)
  <2>1. pulsePc'[p] = "last" /\ pulse'[p].current = Cents(Expenses(rows))
    BY <1>2, <1>3 DEF ReadCurrent, Read, Readings
  <2> HIDE DEF rows
  <2>2. QED
    BY <1>2, <2>1 DEF FreshOf, rows, between
<1>4. CASE ReadLast(p)
  <2>1. pulsePc[p] = "last" /\ pulsePc'[p] = "count" /\ pulse'[p].current = pulse[p].current
    BY <1>2, <1>4 DEF ReadLast, Read, Readings
  <2> HIDE DEF rows
  <2>2. QED
    BY <1>1, <2>1 DEF FreshOf, rows, between
<1>5. CASE ReadCount(p)
  <2>1. /\ pulsePc[p] = "count" /\ pulsePc'[p] = "categories"
        /\ pulse'[p].current = pulse[p].current /\ pulse'[p].count = Cardinality(rows)
    BY <1>2, <1>5 DEF ReadCount, Read, Readings
  <2> HIDE DEF rows
  <2>2. QED
    BY <1>1, <1>2, <2>1 DEF FreshOf, rows, between
<1>6. CASE ReadCategories(p)
  <2>1. PICK top \in TopCategories(asOf[p]) : pulse' = [pulse EXCEPT ![p].categories = top]
    BY <1>6 DEF ReadCategories
  <2>2. /\ top \subseteq GroupsOf(Expenses(rows))
        /\ Cardinality(top) = (IF Cardinality(GroupsOf(Expenses(rows))) < TopLimit
                               THEN Cardinality(GroupsOf(Expenses(rows))) ELSE TopLimit)
    BY <2>1, TopAreGroups
  <2> HIDE DEF rows
  <2>3. /\ pulse'[p].categories = top
        /\ pulse'[p].current = pulse[p].current
        /\ pulse'[p].count = pulse[p].count
    BY <1>2, <2>1 DEF Readings
  <2>4. pulsePc[p] = "categories" /\ pulsePc'[p] = "surprises"
    BY <1>2, <1>6 DEF ReadCategories, Read
  <2>5. QED
    BY <1>1, <1>2, <2>2, <2>3, <2>4 DEF FreshOf, rows, between
<1>7. CASE ReadSurprises(p)
  <2>1. PICK new \in SurpriseExpenses(asOf[p]) : pulse' = [pulse EXCEPT ![p].surprises = new]
    BY <1>7 DEF ReadSurprises
  <2>2. new \subseteq Expenses(rows)
    BY <2>1, NewAreExpenses
  <2> HIDE DEF rows
  <2>3. /\ pulse'[p].surprises = new
        /\ pulse'[p].current = pulse[p].current
        /\ pulse'[p].count = pulse[p].count
        /\ pulse'[p].categories = pulse[p].categories
    BY <1>2, <2>1 DEF Readings
  <2>4. pulsePc[p] = "surprises" /\ pulsePc'[p] = "reply"
    BY <1>2, <1>7 DEF ReadSurprises, Read
  <2>5. QED
    BY <1>1, <1>2, <2>2, <2>3, <2>4 DEF FreshOf, rows, between
<1>8. QED
  BY <1>3, <1>4, <1>5, <1>6, <1>7

LEMMA StepFresh == Fresh /\ StartsOnce /\ ReadingsOK /\ [Next]_vars => Fresh'
<1> SUFFICES ASSUME Fresh, StartsOnce, ReadingsOK, [Next]_vars, NEW q \in Pulses PROVE FreshAt(q)'
  BY GhostsKept DEF Fresh
<1>1. ASSUME NEW p \in Pulses, Begin(p) PROVE FreshAt(q)'
  <2>1. CASE p = q
    <3>1. pulsePc'[q] = "current"
      BY <1>1, <2>1 DEF Begin, StartsOnce
    <3>2. QED
      BY <3>1 DEF FreshAt, FreshOf
  <2>2. CASE p # q
    <3>1. PICK k, t : kind' = [kind EXCEPT ![p] = k] /\ asOf' = [asOf EXCEPT ![p] = t]
      BY <1>1 DEF Begin
    <3>2. UNCHANGED <<ledger, partial, moved>> /\ asOf'[q] = asOf[q] /\ pulse'[q] = pulse[q] /\ pulsePc'[q] = pulsePc[q]
      BY <1>1, <2>2, <3>1 DEF Begin, StartsOnce
    <3>3. QED
      BY <3>2, StaysFresh
  <2>3. QED
    BY <2>1, <2>2
<1>2. ASSUME NEW p \in Pulses, ReadCurrent(p) \/ ReadLast(p) \/ ReadCount(p) \/ ReadCategories(p) \/ ReadSurprises(p)
      PROVE  FreshAt(q)'
  <2>1. UNCHANGED <<ledger, asOf, partial, moved>>
    BY <1>2 DEF ReadCurrent, ReadLast, ReadCount, ReadCategories, ReadSurprises
  <2>2. CASE p = q
    BY <1>2, <2>1, <2>2, QueriesFresh DEF FreshAt
  <2>3. CASE p # q
    <3>1. pulse'[q] = pulse[q] /\ pulsePc'[q] = pulsePc[q]
      BY <1>2, <2>3 DEF ReadCurrent, ReadLast, ReadCount, ReadCategories, ReadSurprises, Read, StartsOnce, ReadingsOK
    <3>2. QED
      BY <2>1, <3>1, StaysFresh
  <2>4. QED
    BY <2>2, <2>3
<1>3. ASSUME NEW p \in Pulses, ReadSumsFails(p) PROVE FreshAt(q)'
  BY <1>3, StaysFresh DEF ReadSumsFails, StartsOnce
<1>4. ASSUME NEW p \in Pulses, ReadExtraFails(p) PROVE FreshAt(q)'
  <2>1. UNCHANGED <<ledger, asOf, pulse, moved>> /\ partial' = partial \cup {p}
    BY <1>4 DEF ReadExtraFails
  <2>2. CASE p = q
    BY <2>1, <2>2 DEF FreshAt
  <2>3. CASE p # q
    <3>1. pulsePc'[q] = pulsePc[q]
      BY <1>4, <2>3 DEF ReadExtraFails, Read, StartsOnce
    <3>2. QED
      BY <2>1, <3>1, StaysFresh
  <2>4. QED
    BY <2>2, <2>3
<1>5. ASSUME NEW p \in Pulses, Answer(p) PROVE FreshAt(q)'
  <2>1. CASE p = q
    <3>1. pulsePc'[q] = "answered"
      BY <1>5, <2>1 DEF Answer, Read, StartsOnce
    <3>2. QED
      BY <3>1 DEF FreshAt, FreshOf
  <2>2. CASE p # q
    <3>1. /\ ledger' = ledger /\ partial' = partial \ {p} /\ asOf' = [asOf EXCEPT ![p] = 0]
          /\ moved' = [moved EXCEPT ![p] = {}]
      BY <1>5 DEF Answer
    <3>2. pulse'[q] = pulse[q] /\ pulsePc'[q] = pulsePc[q]
      BY <1>5, <2>2 DEF Answer, Read, StartsOnce, ReadingsOK
    <3>3. moved'[q] = moved[q] /\ asOf'[q] = asOf[q]
      BY <2>2, <3>1
    <3>4. QED
      BY <2>2, <3>1, <3>2, <3>3, StaysFresh
  <2>3. QED
    BY <2>1, <2>2
<1>6. ASSUME NEW p \in Pulses, Panic(p) PROVE FreshAt(q)'
  BY <1>6, StaysFresh DEF Panic
<1>7. CASE ChangeLedger
  BY <1>7, MovesFresh
<1>8. CASE UNCHANGED pulseVars
  BY <1>8, StaysFresh DEF pulseVars
<1>9. QED
  BY <1>1, <1>2, <1>3, <1>4, <1>5, <1>6, <1>7, <1>8 DEF Next, PulseStep, Alerting, vars

\* What is shown of the categories and of the new expenses against the sum
\* and the count.
LEMMA PartsOfSum ==
  ASSUME NEW rows \in SUBSET Txs, NEW T \in SUBSET GroupsOf(Expenses(rows)), NEW new \in SUBSET Expenses(rows)
  PROVE  /\ MapThenSumSet(LAMBDA g : g.cents, T) <= Cents(Expenses(rows))
         /\ T = GroupsOf(Expenses(rows)) => MapThenSumSet(LAMBDA g : g.cents, T) = Cents(Expenses(rows))
         /\ MapThenSumSet(LAMBDA g : g.count, T) <= Cardinality(rows)
         /\ Cents(new) <= Cents(Expenses(rows))
<1> DEFINE E == Expenses(rows)
           C == Covered(E, T)
           cents == [g \in GroupsOf(E) |-> g.cents]
           count == [g \in GroupsOf(E) |-> g.count]
           ones == [x \in Txs |-> 1]
<1>1. E \in SUBSET Txs /\ E \in SUBSET rows /\ \A x \in E : Price[x] \in Int /\ Price[x] >= 0
  <2>1. E \in SUBSET Txs /\ E \in SUBSET rows /\ \A x \in E : Amount[x] < 0
    BY DEF Expenses
  <2>2. \A x \in E : Amount[x] \in Int
    BY <2>1, AmountAssumption
  <2>3. QED
    BY <2>1, <2>2, PriceType
<1> HIDE DEF E
<1>2. IsFiniteSet(Txs) /\ IsFiniteSet(GroupsOf(E)) /\ IsFiniteSet(T) /\ T \subseteq Groups /\ GroupsOf(E) \subseteq Groups
  BY <1>1, TxsAssumption, GroupsFinite, GroupTypes, FS_Subset DEF E
<1>3. T \in SUBSET GroupsOf(E)
  BY DEF E
<1>4. C \in SUBSET E /\ C \in SUBSET Txs
  BY <1>1 DEF Covered
<1>5. Price \in [Txs -> Int] /\ cents \in [GroupsOf(E) -> Int] /\ count \in [GroupsOf(E) -> Int] /\ ones \in [Txs -> Int]
  BY <1>2, PriceType DEF Groups
<1>6. \A g \in GroupsOf(E) : /\ g.cents = Cents(GroupOf(E, g.name)) /\ g.count = Cardinality(GroupOf(E, g.name))
                             /\ GroupOf(E, g.name) \in SUBSET Txs
  <2> SUFFICES ASSUME NEW g \in GroupsOf(E)
               PROVE  /\ g.cents = Cents(GroupOf(E, g.name)) /\ g.count = Cardinality(GroupOf(E, g.name))
                      /\ GroupOf(E, g.name) \in SUBSET Txs
    OBVIOUS
  <2>1. PICK c : g = [name |-> c, cents |-> Cents(GroupOf(E, c)), count |-> Cardinality(GroupOf(E, c))]
    BY DEF GroupsOf
  <2>2. g.name = c /\ g.cents = Cents(GroupOf(E, c)) /\ g.count = Cardinality(GroupOf(E, c))
    BY <2>1
  <2>3. GroupOf(E, c) \in SUBSET Txs
    BY <1>1 DEF GroupOf
  <2>4. QED
    BY <2>2, <2>3
<1>7. \A g \in GroupsOf(E) : cents[g] = SumOf(Price, GroupOf(E, g.name))
  BY <1>6, CentsIsSum
<1>8. \A g \in GroupsOf(E) : count[g] = SumOf(ones, GroupOf(E, g.name))
  BY <1>2, <1>6, SumOfOnes
<1>9. SumOf([g \in T |-> g.cents], T) = SumOf(cents, T)
  <2> DEFINE part == [g \in T |-> g.cents]
  <2>1. part \in [T -> Int] /\ \A g \in T : part[g] = cents[g]
    BY <1>2, <1>3 DEF Groups
  <2> HIDE DEF part, cents
  <2>2. SumOf(part, T) = SumOf(cents, T)
    BY <1>2, <1>3, <1>5, <2>1, SumsAgree
  <2>3. QED
    BY <2>2 DEF part
<1>10. SumOf([g \in T |-> g.count], T) = SumOf(count, T)
  <2> DEFINE part == [g \in T |-> g.count]
  <2>1. part \in [T -> Int] /\ \A g \in T : part[g] = count[g]
    BY <1>2, <1>3 DEF Groups
  <2> HIDE DEF part, count
  <2>2. SumOf(part, T) = SumOf(count, T)
    BY <1>2, <1>3, <1>5, <2>1, SumsAgree
  <2>3. QED
    BY <2>2 DEF part
<1> HIDE DEF cents, count, ones
<1>11. SumOf(cents, T) = SumOf(Price, C)
  BY <1>1, <1>3, <1>5, <1>7, GroupsAddUp
<1>12. SumOf(count, T) = SumOf(ones, C)
  BY <1>1, <1>3, <1>5, <1>8, GroupsAddUp
<1>13. SumOf(Price, C) <= SumOf(Price, E)
  BY <1>1, <1>2, <1>4, <1>5, SumGrows
<1>14. Cents(E) = SumOf(Price, E) /\ Cents(new) = SumOf(Price, new)
  BY <1>1, CentsIsSum DEF E
<1>15. MapThenSumSet(LAMBDA g : g.cents, T) = SumOf(Price, C)
  BY <1>2, <1>9, <1>11, CentsOfGroups
<1>16. T = GroupsOf(E) => C = E
  <2> SUFFICES ASSUME T = GroupsOf(E), NEW x \in E PROVE x \in C
    BY <1>4
  <2> DEFINE g == [name |-> Category[x], cents |-> Cents(GroupOf(E, Category[x])),
                   count |-> Cardinality(GroupOf(E, Category[x]))]
  <2>1. g \in GroupsOf(E) /\ g.name = Category[x]
    BY DEF GroupsOf
  <2>2. QED
    BY <2>1 DEF Covered
<1>17. MapThenSumSet(LAMBDA g : g.count, T) <= Cardinality(rows)
  <2>1. MapThenSumSet(LAMBDA g : g.count, T) = SumOf(ones, C)
    BY <1>2, <1>10, <1>12, CountOfGroups
  <2>2. SumOf(ones, C) = Cardinality(C)
    BY <1>2, <1>4, SumOfOnes DEF ones
  <2>3. C \in SUBSET rows /\ IsFiniteSet(rows)
    BY <1>1, <1>4, TxsAssumption, FS_Subset
  <2>4. Cardinality(C) <= Cardinality(rows)
    BY <2>3, FS_Subset
  <2>5. QED
    BY <2>1, <2>2, <2>4
<1>18. SumOf(Price, new) <= SumOf(Price, E)
  BY <1>1, <1>2, <1>5, SumGrows DEF E
<1>19. QED
  BY <1>13, <1>14, <1>15, <1>16, <1>17, <1>18 DEF E

\* Tables that differ by some rows differ in their sums and counts by no more
\* than those rows have.
LEMMA NearSums ==
  ASSUME NEW between \in SUBSET Txs, NEW R \in SUBSET Txs, NEW T \in SUBSET Txs, R \ between = T \ between
  PROVE  /\ Cents(Expenses(R)) <= Cents(Expenses(T)) + Cents(Expenses(between))
         /\ Cardinality(R) <= Cardinality(T) + Cardinality(between)
<1> DEFINE A == Expenses(R)
           B == Expenses(T)
           C == Expenses(between) \ B
           D == Expenses(between)
<1>1. /\ A \in SUBSET Txs /\ B \in SUBSET Txs /\ C \in SUBSET D /\ D \in SUBSET Txs /\ C \in SUBSET Txs
      /\ B \cap C = {} /\ A \in SUBSET (B \cup C) /\ B \cup C \in SUBSET Txs
  BY DEF Expenses
<1>2. \A x \in B \cup D : Price[x] >= 0
  <2>1. \A x \in B \cup D : Amount[x] < 0 /\ Amount[x] \in Int /\ Price[x] = -Amount[x]
    BY AmountAssumption, PriceType DEF Expenses
  <2>2. QED
    BY <2>1
<1>3. IsFiniteSet(Txs) /\ Price \in [Txs -> Int]
  BY TxsAssumption, PriceType
<1>4. Cents(A) = SumOf(Price, A) /\ Cents(B) = SumOf(Price, B) /\ Cents(D) = SumOf(Price, D)
  BY <1>1, CentsIsSum
<1> HIDE DEF A, B, C, D
<1>5. SumOf(Price, A) <= SumOf(Price, B \cup C)
  <2>1. \A x \in B \cup C : Price[x] >= 0
    BY <1>1, <1>2
  <2>2. QED
    BY <1>1, <1>3, <2>1, SumGrows
<1>6. SumOf(Price, B \cup C) = SumOf(Price, B) + SumOf(Price, C)
  BY <1>1, <1>3, SumOfBoth
<1>7. SumOf(Price, C) <= SumOf(Price, D)
  BY <1>1, <1>2, <1>3, SumGrows
<1>8. /\ SumOf(Price, A) \in Int /\ SumOf(Price, B) \in Int /\ SumOf(Price, C) \in Int
      /\ SumOf(Price, D) \in Int /\ SumOf(Price, B \cup C) \in Int
  BY <1>1, <1>3, SumFacts
<1>9. Cents(A) <= Cents(B) + Cents(D)
  BY <1>4, <1>5, <1>6, <1>7, <1>8
<1>10. Cardinality(R) <= Cardinality(T) + Cardinality(between)
  <2>1. IsFiniteSet(T) /\ IsFiniteSet(between)
    BY TxsAssumption, FS_Subset
  <2>2. IsFiniteSet(T \cup between) /\ R \in SUBSET (T \cup between)
    BY <2>1, FS_Union
  <2>3. Cardinality(R) <= Cardinality(T \cup between)
    BY <2>2, FS_Subset
  <2>4. Cardinality(T \cup between) = Cardinality(T) + Cardinality(between) - Cardinality(T \cap between)
    BY <2>1, FS_Union
  <2>5. IsFiniteSet(R) /\ IsFiniteSet(T \cap between)
    BY <2>1, TxsAssumption, FS_Subset
  <2>6. /\ Cardinality(R) \in Nat /\ Cardinality(T) \in Nat /\ Cardinality(between) \in Nat
        /\ Cardinality(T \cap between) \in Nat
    BY <2>1, <2>5, FS_CardinalityType
  <2>7. QED
    BY <2>3, <2>4, <2>6
<1>11. QED
  BY <1>9, <1>10 DEF A, B, D

\* The sums over categories are numbers.
LEMMA GroupSumTypes ==
  ASSUME NEW T, IsFiniteSet(T), T \subseteq Groups
  PROVE  /\ MapThenSumSet(LAMBDA g : g.cents, T) \in Int
         /\ MapThenSumSet(LAMBDA g : g.count, T) \in Int
<1> DEFINE cents == [g \in T |-> g.cents]
           count == [g \in T |-> g.count]
<1>1. cents \in [T -> Int] /\ count \in [T -> Int]
  BY DEF Groups
<1>2. MapThenSumSet(LAMBDA g : g.cents, T) = SumOf(cents, T) /\ MapThenSumSet(LAMBDA g : g.count, T) = SumOf(count, T)
  BY CentsOfGroups, CountOfGroups
<1> HIDE DEF cents, count
<1>3. SumOf(cents, T) \in Int /\ SumOf(count, T) \in Int
  BY <1>1, SumFacts
<1>4. QED
  BY <1>2, <1>3

LEMMA FreshAddsUp == Fresh /\ ReadingsOK => PulseAddsUp
<1> SUFFICES ASSUME Fresh, ReadingsOK, NEW p \in Pulses, pulsePc[p] = "reply", p \notin partial
             PROVE  LET q == pulse[p]
                        shown == MapThenSumSet(LAMBDA g : g.cents, q.categories)
                        between == InCurrent(moved[p], asOf[p])
                        slack == Cents(Expenses(between))
                    IN  /\ shown <= q.current + slack
                        /\ Cardinality(q.categories) < TopLimit => q.current <= shown + slack
                        /\ MapThenSumSet(LAMBDA g : g.count, q.categories) <= q.count + Cardinality(between)
                        /\ Cents(q.surprises) <= q.current + slack
  BY DEF PulseAddsUp
<1> DEFINE rows == InCurrent(ledger, asOf[p])
           between == InCurrent(moved[p], asOf[p])
           T == pulse[p].categories
           shown == MapThenSumSet(LAMBDA g : g.cents, T)
           counted == MapThenSumSet(LAMBDA g : g.count, T)
<1>1. rows \in SUBSET Txs /\ between \in SUBSET Txs
  BY DEF ReadingsOK, InCurrent, Fresh
<1>2. FreshOf(rows, between, pulse[p], "reply")
  BY DEF Fresh, FreshAt
<1> HIDE DEF rows, between
<1>3. PICK R0 : Near(R0, rows, between) /\ pulse[p].current = Cents(Expenses(R0))
  BY <1>2 DEF FreshOf
<1>4. PICK R1 : Near(R1, rows, between) /\ pulse[p].count = Cardinality(R1)
  BY <1>2 DEF FreshOf
<1>5. PICK R2 : /\ Near(R2, rows, between) /\ T \in SUBSET GroupsOf(Expenses(R2))
                /\ Cardinality(T) = IF Cardinality(GroupsOf(Expenses(R2))) < TopLimit
                                    THEN Cardinality(GroupsOf(Expenses(R2))) ELSE TopLimit
  BY <1>2 DEF FreshOf
<1>6. PICK R3 : Near(R3, rows, between) /\ pulse[p].surprises \in SUBSET Expenses(R3)
  BY <1>2 DEF FreshOf
<1>7. /\ R0 \in SUBSET Txs /\ R1 \in SUBSET Txs /\ R2 \in SUBSET Txs /\ R3 \in SUBSET Txs
      /\ R0 \ between = R1 \ between /\ R0 \ between = R2 \ between /\ R0 \ between = R3 \ between
  BY <1>3, <1>4, <1>5, <1>6 DEF Near
<1> DEFINE G == GroupsOf(Expenses(R2))
<1>8. IsFiniteSet(G) /\ G \subseteq Groups
  BY <1>7, GroupsFinite, GroupTypes DEF Expenses
<1>9. Cardinality(T) < TopLimit => T = G
  <2> SUFFICES ASSUME Cardinality(T) < TopLimit PROVE T = G
    OBVIOUS
  <2>1. Cardinality(T) = Cardinality(G)
    BY <1>5, TopLimitAssumption
  <2>2. QED
    BY <1>5, <1>8, <2>1, FS_Subset
<1>10. shown \in Int /\ counted \in Int
  <2>1. IsFiniteSet(T) /\ T \subseteq Groups
    BY <1>5, <1>8, FS_Subset
  <2>2. QED
    BY <2>1, GroupSumTypes
<1> HIDE DEF T, G
<1>11. /\ shown <= Cents(Expenses(R2)) /\ (T = G => shown = Cents(Expenses(R2))) /\ counted <= Cardinality(R2)
  <2>1. {} \in SUBSET Expenses(R2)
    OBVIOUS
  <2>2. QED
    BY <1>5, <1>7, <2>1, PartsOfSum DEF G
<1>12. Cents(pulse[p].surprises) <= Cents(Expenses(R3))
  <2>1. {} \in SUBSET GroupsOf(Expenses(R3))
    OBVIOUS
  <2>2. QED
    BY <1>6, <1>7, <2>1, PartsOfSum
<1>13. /\ Cents(Expenses(R2)) <= Cents(Expenses(R0)) + Cents(Expenses(between))
       /\ Cents(Expenses(R0)) <= Cents(Expenses(R2)) + Cents(Expenses(between))
       /\ Cents(Expenses(R3)) <= Cents(Expenses(R0)) + Cents(Expenses(between))
       /\ Cardinality(R2) <= Cardinality(R1) + Cardinality(between)
  <2>1. R1 \ between = R2 \ between
    BY <1>7
  <2>2. QED
    BY <1>1, <1>7, <2>1, NearSums
<1>14. /\ Cents(Expenses(R0)) \in Int /\ Cents(Expenses(R2)) \in Int /\ Cents(Expenses(R3)) \in Int
       /\ Cents(Expenses(between)) \in Int /\ Cents(pulse[p].surprises) \in Int
  <2>1. /\ Expenses(R0) \in SUBSET Txs /\ Expenses(R2) \in SUBSET Txs /\ Expenses(R3) \in SUBSET Txs
        /\ Expenses(between) \in SUBSET Txs /\ pulse[p].surprises \in SUBSET Txs
    BY <1>1, <1>6, <1>7 DEF Expenses
  <2>2. QED
    BY <2>1, CentsIsSum
<1>15. Cardinality(R1) \in Nat /\ Cardinality(R2) \in Nat /\ Cardinality(between) \in Nat
  BY <1>1, <1>7, TxsAssumption, FS_Subset, FS_CardinalityType
<1> HIDE DEF shown, counted
<1>16. shown <= pulse[p].current + Cents(Expenses(between))
  BY <1>3, <1>10, <1>11, <1>13, <1>14
<1>17. Cardinality(T) < TopLimit => pulse[p].current <= shown + Cents(Expenses(between))
  BY <1>3, <1>9, <1>10, <1>11, <1>13, <1>14
<1>18. counted <= pulse[p].count + Cardinality(between)
  BY <1>4, <1>10, <1>11, <1>13, <1>15
<1>19. Cents(pulse[p].surprises) <= pulse[p].current + Cents(Expenses(between))
  BY <1>3, <1>12, <1>13, <1>14
<1>20. QED
  BY <1>16, <1>17, <1>18, <1>19 DEF shown, counted, T, between

-------------------------------------------------------------------------------
(* The calendar.  Every day of it is in one month, and the instants of a   *)
(* day lie between its first and its last second.                          *)

Months == 1..(Len(MonthStart) - 1)

LEMMA MonthStarts == \A m \in 1..Len(MonthStart) : MonthStart[m] \in Nat
  BY MonthStartAssumption

LEMMA MonthsGrow ==
  ASSUME NEW m \in 1..Len(MonthStart), NEW n \in 1..Len(MonthStart), m <= n
  PROVE  MonthStart[m] <= MonthStart[n]
<1> DEFINE Bad == {k \in Nat : k \in m..Len(MonthStart) /\ ~ (MonthStart[m] <= MonthStart[k])}
<1>0. Len(MonthStart) \in Nat
  BY MonthStartAssumption
<1> SUFFICES ASSUME Bad # {} PROVE FALSE
  BY <1>0
<1>1. PICK k \in Bad : \A j \in Bad : k <= j
  BY LeastNatural
<1>2. k # m
  BY <1>0, MonthStarts
<1>3. k - 1 \in m..Len(MonthStart) /\ k - 1 \in Nat /\ k \in 2..Len(MonthStart) /\ k - 1 \in 1..Len(MonthStart)
  BY <1>0, <1>1, <1>2
<1>4. k - 1 \notin Bad
  BY <1>1, <1>3
<1>5. MonthStart[m] <= MonthStart[k-1]
  BY <1>3, <1>4
<1>6. MonthStart[k-1] < MonthStart[k]
  BY <1>3, MonthStartAssumption
<1>7. MonthStart[m] \in Nat /\ MonthStart[k-1] \in Nat /\ MonthStart[k] \in Nat
  BY <1>3, MonthStarts
<1>8. QED
  BY <1>1, <1>5, <1>6, <1>7

LEMMA InMonth ==
  ASSUME NEW d \in Nat, NEW m \in Months, MonthStart[m] <= d, d < MonthStart[m+1]
  PROVE  MonthOf(d) = m
<1> DEFINE In(n) == MonthStart[n] <= d /\ d < MonthStart[n+1]
<1>0. Len(MonthStart) \in Nat
  BY MonthStartAssumption
<1>1. ASSUME NEW n \in Months, In(n) PROVE n = m
  <2>1. /\ m \in 1..Len(MonthStart) /\ n \in 1..Len(MonthStart)
        /\ m + 1 \in 1..Len(MonthStart) /\ n + 1 \in 1..Len(MonthStart)
    BY <1>0 DEF Months
  <2>2. MonthStart[m] \in Nat /\ MonthStart[n] \in Nat /\ MonthStart[m+1] \in Nat /\ MonthStart[n+1] \in Nat
    BY <2>1, MonthStarts
  <2>3. ~ (m + 1 <= n)
    <3>1. m + 1 <= n => MonthStart[m+1] <= MonthStart[n]
      BY <2>1, MonthsGrow
    <3>2. QED
      BY <1>1, <2>2, <3>1
  <2>4. ~ (n + 1 <= m)
    <3>1. n + 1 <= m => MonthStart[n+1] <= MonthStart[m]
      BY <2>1, MonthsGrow
    <3>2. QED
      BY <1>1, <2>2, <3>1
  <2>5. QED
    BY <1>0, <2>3, <2>4 DEF Months
<1>2. MonthOf(d) = CHOOSE n \in Months : In(n)
  BY DEF MonthOf, Months
<1>3. In(m)
  OBVIOUS
<1> HIDE DEF In
<1>4. QED
  BY <1>1, <1>2, <1>3

LEMMA EveryDayHasAMonth ==
  ASSUME NEW d \in Nat, d < MonthStart[Len(MonthStart)]
  PROVE  MonthOf(d) \in Months /\ MonthStart[MonthOf(d)] <= d /\ d < MonthStart[MonthOf(d)+1]
<1> DEFINE After == {n \in Nat : n \in 1..Len(MonthStart) /\ d < MonthStart[n]}
<1>0. Len(MonthStart) \in Nat /\ Len(MonthStart) \in 1..Len(MonthStart) /\ MonthStart[1] = 0
  BY MonthStartAssumption
<1>1. PICK n \in After : \A k \in After : n <= k
  BY <1>0, LeastNatural
<1>2. n # 1
  BY <1>0
<1>3. n - 1 \in Nat /\ n - 1 \in 1..Len(MonthStart) /\ n - 1 \in Months /\ (n - 1) + 1 = n
  BY <1>0, <1>1, <1>2 DEF Months
<1>4. ~ (d < MonthStart[n-1])
  BY <1>1, <1>3
<1>5. MonthStart[n-1] <= d
  BY <1>3, <1>4, MonthStarts
<1>6. d < MonthStart[(n-1)+1]
  BY <1>1, <1>3
<1>7. MonthOf(d) = n - 1
  BY <1>3, <1>5, <1>6, InMonth
<1>8. QED
  BY <1>3, <1>5, <1>6, <1>7

LEMMA DayBounds ==
  ASSUME NEW t \in Nat
  PROVE  DayAt(t) \in Nat /\ 3 * DayAt(t) <= t /\ t <= 3 * DayAt(t) + 2
  BY DEF DayAt

LEMMA TimesOfDay ==
  ASSUME NEW t \in Nat
  PROVE  TimeOfDay(t) = t - 3 * DayAt(t)
  BY DEF TimeOfDay, DayAt

\* An instant of the calendar: its day and its month.
LEMMA InstantFacts ==
  ASSUME NEW m \in 1..Len(MonthStart), NEW t \in Instants(m)
  PROVE  /\ t \in Nat /\ DayAt(t) \in Nat /\ 3 * DayAt(t) <= t /\ t <= 3 * DayAt(t) + 2
         /\ Month(t) \in Months /\ Month(t) >= m
         /\ MonthStart[Month(t)] \in Nat /\ MonthStart[Month(t)] <= DayAt(t)
         /\ MonthStart[Month(t)+1] \in Nat /\ DayAt(t) < MonthStart[Month(t)+1]
<1>0. Len(MonthStart) \in Nat
  BY MonthStartAssumption
<1>1. t \in Nat /\ MonthStart[m] <= DayAt(t) /\ DayAt(t) < MonthStart[Len(MonthStart)]
  BY DEF Instants
<1>2. DayAt(t) \in Nat /\ 3 * DayAt(t) <= t /\ t <= 3 * DayAt(t) + 2
  BY <1>1, DayBounds
<1>3. Month(t) \in Months /\ MonthStart[Month(t)] <= DayAt(t) /\ DayAt(t) < MonthStart[Month(t)+1]
  BY <1>1, <1>2, EveryDayHasAMonth DEF Month
<1>4. Month(t) \in 1..Len(MonthStart) /\ Month(t) + 1 \in 1..Len(MonthStart)
  BY <1>0, <1>3 DEF Months
<1>5. MonthStart[Month(t)] \in Nat /\ MonthStart[Month(t)+1] \in Nat /\ MonthStart[m] \in Nat
  BY <1>4, MonthStarts
<1>6. Month(t) >= m
  <2>1. Month(t) + 1 <= m => MonthStart[Month(t)+1] <= MonthStart[m]
    BY <1>4, MonthsGrow
  <2>2. QED
    BY <1>0, <1>1, <1>2, <1>3, <1>4, <1>5, <2>1
<1>7. QED
  BY <1>1, <1>2, <1>3, <1>5, <1>6

\* One row against the windows of one instant.
LEMMA RowInWindows ==
  ASSUME NEW t \in Instants(2), NEW x \in Txs
  PROVE  LET current == currentMonthStart(t) <= Posted[x] /\ Posted[x] < currentMonthEnd(t)
             last == lastMonthStart(t) <= Posted[x] /\ Posted[x] <= lastMonthSameDay(t)
         IN  /\ ~ (current /\ last)
             /\ last <=> Month(Posted[x]) = Month(t) - 1 /\ DayOfMonth(Posted[x]) <= DayOfMonth(t)
             /\ current <=> \/ Month(Posted[x]) = Month(t) /\ DayAt(Posted[x]) <= DayAt(t)
                            \/ DayAt(Posted[x]) = DayAt(t) + 1 /\ TimeOfDay(Posted[x]) < TimeOfDay(t)
<1> DEFINE m == Month(t)
           d == DayAt(t)
           X == Posted[x]
           mx == Month(X)
           dx == DayAt(X)
           here == MonthStart[m]
           next == MonthStart[m+1]
           before == MonthStart[m-1]
<1>0. Len(MonthStart) \in Nat /\ 1 \in 1..Len(MonthStart) /\ 2 \in 1..Len(MonthStart)
  BY MonthStartAssumption
<1>1. /\ t \in Nat /\ d \in Nat /\ 3 * d <= t /\ t <= 3 * d + 2
      /\ m \in Months /\ m >= 2 /\ here \in Nat /\ here <= d /\ next \in Nat /\ d < next
  BY <1>0, InstantFacts
<1>2. /\ X \in Nat /\ dx \in Nat /\ 3 * dx <= X /\ X <= 3 * dx + 2
      /\ mx \in Months /\ MonthStart[mx] \in Nat /\ MonthStart[mx] <= dx /\ MonthStart[mx+1] \in Nat /\ dx < MonthStart[mx+1]
  BY <1>0, PostedAssumption, InstantFacts
<1>3. m - 1 \in Months /\ m - 1 \in 1..Len(MonthStart) /\ m \in 1..Len(MonthStart) /\ (m - 1) + 1 = m
  BY <1>0, <1>1 DEF Months
<1>4. before \in Nat /\ before < here
  <2>1. before \in Nat
    BY <1>3, MonthStarts
  <2>2. m \in 2..Len(MonthStart)
    BY <1>0, <1>1, <1>3
  <2>3. QED
    BY <2>1, <2>2, MonthStartAssumption
<1>5. before <= dx /\ dx < here => mx = m - 1
  BY <1>2, <1>3, InMonth DEF Month
<1>6. here <= dx /\ dx < next => mx = m
  BY <1>1, <1>2, InMonth DEF Month
<1>7. mx = m - 1 => before <= dx /\ dx < here /\ MonthStart[mx] = before
  BY <1>2, <1>3
<1>8. mx = m => here <= dx
  BY <1>2
<1> DEFINE dom == d - here + 1
           day == IF dom > here - before THEN here - before ELSE dom
<1>9. /\ currentMonthStart(t) = 3 * here /\ lastMonthStart(t) = 3 * before
      /\ currentMonthEnd(t) = t + 3 /\ lastMonthSameDay(t) = 3 * (before + day - 1) + 2
  BY DEF currentMonthStart, lastMonthStart, currentMonthEnd, lastMonthSameDay, lastMonthLastDay, Midnight, LastSecond, DayOfMonth
<1>10. DayOfMonth(t) = dom /\ DayOfMonth(X) = dx - MonthStart[mx] + 1
  BY DEF DayOfMonth
<1>11. day \in Int /\ day <= here - before /\ day <= dom /\ (day = here - before \/ day = dom) /\ dom \in Int
  BY <1>1, <1>4
<1> HIDE DEF m, d, X, mx, dx, here, next, before, dom, day
<1> DEFINE current == 3 * here <= X /\ X < t + 3
           last == 3 * before <= X /\ X <= 3 * (before + day - 1) + 2
<1>12. ~ (current /\ last)
  BY <1>1, <1>2, <1>4, <1>11
<1>13. last <=> (before <= dx /\ dx <= before + day - 1)
  BY <1>2, <1>4, <1>11
<1>14. last <=> mx = m - 1 /\ dx - MonthStart[mx] + 1 <= dom
  <2>1. ASSUME last PROVE mx = m - 1 /\ dx - MonthStart[mx] + 1 <= dom
    <3>1. before <= dx /\ dx < here
      BY <1>1, <1>2, <1>4, <1>11, <1>13, <2>1
    <3>2. mx = m - 1 /\ MonthStart[mx] = before
      BY <1>5, <1>7, <3>1
    <3>3. QED
      BY <1>2, <1>4, <1>11, <1>13, <2>1, <3>2
  <2>2. ASSUME mx = m - 1, dx - MonthStart[mx] + 1 <= dom PROVE last
    BY <1>1, <1>2, <1>4, <1>7, <1>11, <1>13, <2>2
  <2>3. QED
    BY <2>1, <2>2
<1>15. mx = m /\ dx <= d => current
  BY <1>1, <1>2, <1>8
<1>16. dx = d + 1 /\ X - 3 * dx < t - 3 * d => current
  BY <1>1, <1>2
<1>17. current => (mx = m /\ dx <= d) \/ (dx = d + 1 /\ X - 3 * dx < t - 3 * d)
  <2> SUFFICES ASSUME current, ~ (dx = d + 1) PROVE mx = m /\ dx <= d
    BY <1>1, <1>2
  <2>1. here <= dx /\ dx <= d
    BY <1>1, <1>2
  <2>2. dx < next
    BY <1>1, <1>2, <2>1
  <2>3. QED
    BY <1>6, <2>1, <2>2
<1>18. TimeOfDay(Posted[x]) = X - 3 * dx /\ TimeOfDay(t) = t - 3 * d
  BY <1>1, <1>2, TimesOfDay DEF X, dx, d
<1>19. QED
  BY <1>9, <1>10, <1>12, <1>14, <1>15, <1>16, <1>17, <1>18 DEF m, d, X, mx, dx

\* The clock stays within the calendar, and so does what is asked.
Asked ==
  /\ today \in (LastDay - 1)..LastDay /\ DOMAIN asOf = Pulses
  /\ \A p \in Pulses : pulsePc[p] = "current" => asOf[p] \in Instants(2)

LEMMA InitAsked == Init => Asked
  BY DaysAssumption DEF Init, AlertInit, Asked

LEMMA StepAsked == Asked /\ StartsOnce /\ [Next]_vars => Asked'
<1> SUFFICES ASSUME Asked, StartsOnce, [Next]_vars PROVE Asked'
  OBVIOUS
<1>1. ASSUME today' = today, DOMAIN asOf' = DOMAIN asOf,
             \A q \in Pulses : pulsePc'[q] = "current" => pulsePc[q] = "current" /\ asOf'[q] = asOf[q]
      PROVE  Asked'
  BY <1>1 DEF Asked
<1>2. ASSUME NEW p \in Pulses, Begin(p) PROVE Asked'
  <2>1. Midnight(today) + 1 \in Instants(2)
    <3>1. today \in Nat /\ MonthStart[2] \in Nat /\ MonthStart[2] <= today /\ today < MonthStart[Len(MonthStart)]
      <4>1. /\ 2 \in 1..Len(MonthStart) /\ Len(MonthStart) \in 1..Len(MonthStart)
        BY MonthStartAssumption
      <4>2. MonthStart[2] \in Nat /\ MonthStart[Len(MonthStart)] \in Nat
        BY <4>1, MonthStarts
      <4>3. QED
        BY <4>2, DaysAssumption, LastDayAssumption DEF Asked
    <3>2. DayAt(3 * today + 1) = today
      BY <3>1 DEF DayAt
    <3>3. QED
      BY <3>1, <3>2 DEF Instants, Midnight
  <2>2. PICK k, t : /\ kind' = [kind EXCEPT ![p] = k] /\ asOf' = [asOf EXCEPT ![p] = t]
                    /\ t \in {Midnight(today) + 1} \cup AsOfs
    BY <1>2 DEF Begin
  <2>3. t \in Instants(2)
    BY <2>1, <2>2, AsOfsAssumption
  <2>4. QED
    BY <1>2, <2>2, <2>3 DEF Begin, Asked, StartsOnce, alertVars
<1>3. ASSUME NEW p \in Pulses, PulseStep(p) PROVE Asked'
  <2>1. CASE ~ Answer(p)
    <3>1. today' = today /\ asOf' = asOf
      BY <1>3, <2>1 DEF PulseStep, ReadCurrent, ReadLast, ReadSumsFails, ReadCount, ReadCategories, ReadExtraFails,
                        ReadSurprises, QueryFails, alertVars
    <3>2. \E pc \in {"last", "count", "categories", "surprises", "reply", "failed"} :
            pulsePc' = [pulsePc EXCEPT ![p] = pc]
      BY <1>3, <2>1 DEF PulseStep, ReadCurrent, ReadLast, ReadSumsFails, ReadCount, ReadCategories, ReadExtraFails,
                        ReadSurprises, Read
    <3>3. QED
      BY <1>1, <3>1, <3>2 DEF StartsOnce
  <2>2. CASE Answer(p)
    <3>1. today' = today
      BY <2>2 DEF Answer, Trigger, alertVars
    <3>2. pulsePc' = [pulsePc EXCEPT ![p] = "answered"] /\ asOf' = [asOf EXCEPT ![p] = 0]
      BY <2>2 DEF Answer, Read
    <3>3. QED
      BY <1>1, <3>1, <3>2 DEF StartsOnce, Asked
  <2>3. QED
    BY <2>1, <2>2
<1>4. ASSUME NEW p \in Pulses, Panic(p) PROVE Asked'
  BY <1>1, <1>4 DEF Panic, PanicPush
<1>5. CASE ChangeLedger
  BY <1>1, <1>5 DEF ChangeLedger, alertVars
<1>6. CASE UNCHANGED pulseVars /\ today' = today
  BY <1>1, <1>6 DEF pulseVars
<1>7. CASE UNCHANGED pulseVars /\ NextDay
  BY <1>7, DaysAssumption DEF pulseVars, NextDay, Asked
<1>8. ASSUME NEW p \in Pulses, Alerting(p) PROVE UNCHANGED pulseVars /\ today' = today
  BY <1>8 DEF Alerting, AlertStep, CheckAlert, CheckAlertFails, CreateAlert, CreateAlertFails, GetToken, PostPush
<1>9. ASSUME NEW p \in Pulses, MarkAlertRead(p) \/ DismissAlert(p) PROVE today' = today
  BY <1>9 DEF MarkAlertRead, DismissAlert, Handle
<1>10. UpdatePushToken => today' = today
  BY DEF UpdatePushToken
<1>11. UNCHANGED vars => UNCHANGED pulseVars /\ today' = today
  BY DEF vars, alertVars
<1>12. QED
  BY <1>2, <1>3, <1>4, <1>5, <1>6, <1>7, <1>8, <1>9, <1>10, <1>11 DEF Next

LEMMA AskedIsTrue == Asked => WindowsTrue
<1> SUFFICES ASSUME Asked, NEW p \in Pulses, pulsePc[p] = "current"
             PROVE  /\ InCurrent(Txs, asOf[p]) \cap InLast(Txs, asOf[p]) = {}
                    /\ InLast(Txs, asOf[p]) =
                         {x \in Txs : Month(Posted[x]) = Month(asOf[p]) - 1 /\ DayOfMonth(Posted[x]) <= DayOfMonth(asOf[p])}
                    /\ InCurrent(Txs, asOf[p]) = {x \in Txs :
                         \/ Month(Posted[x]) = Month(asOf[p]) /\ DayAt(Posted[x]) <= DayAt(asOf[p])
                         \/ DayAt(Posted[x]) = DayAt(asOf[p]) + 1 /\ TimeOfDay(Posted[x]) < TimeOfDay(asOf[p])}
  BY DEF WindowsTrue
<1>1. asOf[p] \in Instants(2)
  BY DEF Asked
<1>2. QED
  BY <1>1, RowInWindows DEF InCurrent, InLast

-------------------------------------------------------------------------------
(* The theorems.                                                           *)

\* The requests with their queries implement the calls of PaceAlerts.
THEOREM ImplementsAlerts == Spec => AlertSpec
<1>1. Init => StartsOnce /\ (\E first \in 0..LastDay : AlertInit(first))
  BY InitPulse
<1>2. StartsOnce /\ ReadingsOK /\ [Next]_vars => StartsOnce' /\ [AlertNext]_alertVars
  BY StepMaps
<1>3. Init => ReadingsOK
  BY InitReadings
<1>4. ReadingsOK /\ [Next]_vars => ReadingsOK'
  BY StepReadings
<1>5. QED
  BY <1>1, <1>2, <1>3, <1>4, PTL DEF Spec, AlertSpec

\* One alert a day, with the requests and the table around it.
THEOREM PulsesAlertOnce == Spec => []OneAlertPerDay
  BY ImplementsAlerts, OneAlert, PTL

\* A second push of a day comes only by a race, with the requests and the
\* table around it.
THEOREM PulsesPushOnce == Spec => []SecondPushOnlyByRace
  BY ImplementsAlerts, SecondPush, PTL

\* The phases of the requests and what they have read keep their types.
THEOREM ReadingsInv == Spec => [](StartsOnce /\ ReadingsOK)
<1>1. Init => StartsOnce /\ ReadingsOK
  BY InitPulse, InitReadings
<1>2. StartsOnce /\ ReadingsOK /\ [Next]_vars => StartsOnce' /\ ReadingsOK'
  BY StepMaps, StepReadings
<1>3. QED
  BY <1>1, <1>2, PTL DEF Spec

\* A client that is told of a notification gets an alert, whatever queries
\* and calls run beside it.
THEOREM AlertsFollowNotices == Spec => []NotifiedIsAlerted
<1>1. Init => Announced
  BY InitAnnounced
<1>2. Announced /\ StartsOnce /\ ReadingsOK /\ [Next]_vars => Announced'
  BY StepAnnounced
<1>3. Spec => []AlertInv
  BY ImplementsAlerts, Inductive, PTL
<1>4. Announced /\ AlertInv => NotifiedIsAlerted
  BY AnnouncedIsAlerted
<1>5. QED
  BY <1>1, <1>2, <1>3, <1>4, ReadingsInv, PTL DEF Spec

\* The parts of an answer add up: what it shows of the categories and of the
\* new expenses is within the sum and the count it gives, up to the rows that
\* moved between its queries.
THEOREM PartsAddUp == Spec => []PulseAddsUp
<1>1. Init => Fresh
  BY InitFresh
<1>2. Fresh /\ StartsOnce /\ ReadingsOK /\ [Next]_vars => Fresh'
  BY StepFresh
<1>3. Fresh /\ ReadingsOK => PulseAddsUp
  BY FreshAddsUp
<1>4. QED
  BY <1>1, <1>2, <1>3, ReadingsInv, PTL DEF Spec

\* The windows of the two sums are exactly the days and the hours of the next
\* that they stand for, whatever the lengths of the months and whatever instant
\* is asked about.
THEOREM WindowsAreTrue == Spec => []WindowsTrue
<1>1. Init => Asked
  BY InitAsked
<1>2. Asked /\ StartsOnce /\ [Next]_vars => Asked'
  BY StepAsked
<1>3. Asked => WindowsTrue
  BY AskedIsTrue
<1>4. QED
  BY <1>1, <1>2, <1>3, ReadingsInv, PTL DEF Spec

===============================================================================
