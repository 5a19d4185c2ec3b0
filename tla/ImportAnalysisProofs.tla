------------------------- MODULE ImportAnalysisProofs -------------------------
(***************************************************************************)
(* Proofs about ImportAnalysis, for every statement whatever its lines:    *)
(* the loop over the first lines finds the header the bank wrote, the      *)
(* import takes the analysis's word for it, no mapping makes a worker      *)
(* index a record out of range, a learned mapping is not replaced; and of  *)
(* a statement written as banks write, whose header row and columns are    *)
(* known, the rows come out in order with the descriptions, amounts, dates *)
(* and currency the bank meant, but for the cases the properties name.     *)
(***************************************************************************)
EXTENDS ImportAnalysis, FiniteSetTheorems, WellFoundedInduction, NaturalsInduction, TLAPS

(* Folds.  What a fold from the left passes through is one value after     *)
(* each element; the values stay in any set that the step stays in.        *)

\* A set of numbers has a least one.
LEMMA LeastNatural ==
  ASSUME NEW T, T \subseteq Nat, T # {}
  PROVE  \E x \in T : \A y \in T : x <= y
<1> DEFINE R == OpToRel(<, Nat)
<1>1. IsWellFoundedOn(R, Nat)
  BY NatLessThanWellFounded
<1>2. \A x, y \in Nat : y < x => <<y, x>> \in R
  BY DEF OpToRel
<1> HIDE DEF R
<1>3. PICK x \in T : \A y \in T : <<y, x>> \notin R
  BY <1>1, WFMin
<1>4. ASSUME NEW y \in T PROVE x <= y
  <2>1. ~(y < x) /\ x \in Nat /\ y \in Nat
    BY <1>2, <1>3
  <2>2. QED
    BY <2>1
<1>5. QED
  BY <1>4

LEMMA RangeFinite == \A n \in Nat : IsFiniteSet(1..n)
  BY FS_Interval

LEMMA FiveAreFinite ==
  ASSUME NEW a, NEW b, NEW c, NEW d, NEW e
  PROVE  IsFiniteSet({a, b, c, d, e})
<1>1. IsFiniteSet({a})
  BY FS_Singleton
<1>2. IsFiniteSet({a} \cup {b})
  BY <1>1, FS_AddElement
<1>3. IsFiniteSet({a} \cup {b} \cup {c})
  BY <1>2, FS_AddElement
<1>4. IsFiniteSet({a} \cup {b} \cup {c} \cup {d})
  BY <1>3, FS_AddElement
<1>5. IsFiniteSet({a} \cup {b} \cup {c} \cup {d} \cup {e})
  BY <1>4, FS_AddElement
<1>6. {a, b, c, d, e} = {a} \cup {b} \cup {c} \cup {d} \cup {e}
  OBVIOUS
<1>7. QED
  BY <1>5, <1>6

LEMMA MinIsElement ==
  ASSUME NEW T, T \subseteq Nat, T # {}
  PROVE  Min(T) \in T
<1>1. \E x \in T : \A y \in T : x <= y
  BY LeastNatural
<1>2. QED
  BY <1>1 DEF Min

LEMMA MaxIsElement ==
  ASSUME NEW n \in Nat, NEW s \in SUBSET (1..n), s # {}
  PROVE  Max(s) \in s
<1> DEFINE T == {n - x : x \in s}
<1>1. T \subseteq Nat /\ T # {}
  <2>1. \A x \in s : n - x \in Nat
    OBVIOUS
  <2>2. QED
    BY <2>1
<1> HIDE DEF T
<1>2. PICK y \in T : \A z \in T : y <= z
  BY <1>1, LeastNatural
<1>3. PICK x \in s : y = n - x
  BY DEF T
<1>4. \A z \in s : x >= z
  <2>1. \A z \in s : y <= n - z
    BY <1>2 DEF T
  <2>2. QED
    BY <1>3, <2>1
<1>5. \E m \in s : \A z \in s : m >= z
  BY <1>4
<1>6. QED
  BY <1>5 DEF Max

LEMMA MaxOfRange ==
  ASSUME NEW n \in Nat, NEW k \in 1..n
  PROVE  1..k \in SUBSET (1..n) /\ 1..k # {} /\ Max(1..k) = k /\ (1..k) \ {k} = 1..(k-1)
<1>1. 1..k \in SUBSET (1..n) /\ k \in 1..k /\ \A z \in 1..k : k >= z
  OBVIOUS
<1>2. \A m \in 1..k : (\A z \in 1..k : m >= z) => m = k
  OBVIOUS
<1>3. Max(1..k) = k
  BY <1>1, <1>2 DEF Max
<1>4. QED
  BY <1>1, <1>3

\* F takes a value of B and an element to the next value; g is its fold over
\* the sets of elements, and h what the fold over all of them passes through.
IsStep(n, B, base, F) == n \in Nat /\ base \in B /\ F \in [B \X (1..n) -> B]
Folded(n, B, base, F, g) ==
  /\ g \in [SUBSET (1..n) -> B]
  /\ \A s \in SUBSET (1..n) : g[s] = IF s = {} THEN base ELSE F[<<g[s \ {Max(s)}], Max(s)>>]
FoldsInside(n, B, base, F, g) ==
  /\ g[{}] = base
  /\ \A s \in SUBSET (1..n) : s # {} /\ g[s \ {Max(s)}] \in B => g[s] = F[<<g[s \ {Max(s)}], Max(s)>>]
Passes(n, B, base, F, g, h) ==
  /\ h \in [0..n -> B] /\ h[0] = base /\ h[n] = g[1..n]
  /\ \A k \in 1..n : h[k] = F[<<h[k-1], k>>]

\* A step that stays in B can be folded,
LEMMA FoldExists ==
  ASSUME NEW n, NEW B, NEW base, NEW F, IsStep(n, B, base, F)
  PROVE  \E g : Folded(n, B, base, F, g)
<1> DEFINE S == 1..n
           Next1(g) == [s \in SUBSET S |-> IF s = {} THEN base ELSE F[<<g[s \ {Max(s)}], Max(s)>>]]
           Upto(k) == \E g \in [SUBSET S -> B] : \A s \in SUBSET S : Cardinality(s) <= k => g[s] = Next1(g)[s]
           Bad == {k \in Nat : ~ Upto(k)}
<1> USE DEF IsStep
<1>0. IsFiniteSet(S)
  BY RangeFinite
<1>1. \A s \in SUBSET S : IsFiniteSet(s) /\ Cardinality(s) \in Nat /\ (Cardinality(s) = 0 => s = {})
  BY <1>0, FS_Subset, FS_CardinalityType, FS_EmptySet
<1>2. \A s \in SUBSET S : s # {} =>
        /\ Max(s) \in S /\ s \ {Max(s)} \in SUBSET S
        /\ Cardinality(s \ {Max(s)}) = Cardinality(s) - 1
  <2> SUFFICES ASSUME NEW s \in SUBSET S, s # {}
               PROVE  /\ Max(s) \in S /\ s \ {Max(s)} \in SUBSET S
                      /\ Cardinality(s \ {Max(s)}) = Cardinality(s) - 1
    OBVIOUS
  <2>1. Max(s) \in s
    BY MaxIsElement
  <2>2. QED
    BY <1>1, <2>1, FS_RemoveElement
<1> HIDE DEF S
<1>3. Upto(0)
  <2> DEFINE g == [s \in SUBSET S |-> base]
  <2>1. g \in [SUBSET S -> B]
    OBVIOUS
  <2>2. \A s \in SUBSET S : Cardinality(s) <= 0 => g[s] = Next1(g)[s]
    BY <1>1
  <2>3. QED
    BY <2>1, <2>2
<1>4. ASSUME NEW k \in Nat, Upto(k) PROVE Upto(k + 1)
  <2>1. PICK g \in [SUBSET S -> B] : \A s \in SUBSET S : Cardinality(s) <= k => g[s] = Next1(g)[s]
    BY <1>4
  <2> DEFINE h == Next1(g)
  <2>2. h \in [SUBSET S -> B]
    <3>1. \A s \in SUBSET S : s # {} => F[<<g[s \ {Max(s)}], Max(s)>>] \in B
      BY <1>2 DEF S
    <3>2. QED
      BY <3>1
  <2>3. ASSUME NEW s \in SUBSET S, Cardinality(s) <= k + 1 PROVE h[s] = Next1(h)[s]
    <3>1. CASE s = {}
      BY <3>1
    <3>2. CASE s # {}
      <4>1. s \ {Max(s)} \in SUBSET S /\ Cardinality(s \ {Max(s)}) <= k
        BY <1>1, <1>2, <2>3, <3>2
      <4>2. g[s \ {Max(s)}] = h[s \ {Max(s)}]
        BY <2>1, <4>1
      <4> HIDE DEF h
      <4>3. h[s] = F[<<g[s \ {Max(s)}], Max(s)>>]
        BY <3>2 DEF h
      <4>4. QED
        BY <3>2, <4>2, <4>3
    <3>3. QED
      BY <3>1, <3>2
  <2> HIDE DEF h
  <2>4. QED
    BY <2>2, <2>3
<1> HIDE DEF Upto
<1>5. Bad = {}
  <2> SUFFICES ASSUME Bad # {} PROVE FALSE
    OBVIOUS
  <2>1. PICK k \in Bad : \A m \in Bad : k <= m
    BY LeastNatural
  <2>2. k # 0
    BY <1>3
  <2>3. k - 1 \in Nat /\ k - 1 \notin Bad
    BY <2>1, <2>2
  <2>4. Upto((k - 1) + 1)
    BY <1>4, <2>3
  <2>5. QED
    BY <2>1, <2>4
<1>6. Upto(Cardinality(S))
  <2>1. Cardinality(S) \in Nat
    BY <1>1
  <2>2. QED
    BY <2>1, <1>5
<1>7. PICK g \in [SUBSET S -> B] : \A s \in SUBSET S : Cardinality(s) <= Cardinality(S) => g[s] = Next1(g)[s]
  BY <1>6 DEF Upto
<1>8. \A s \in SUBSET S : Cardinality(s) <= Cardinality(S)
  BY <1>0, FS_Subset
<1>9. \A s \in SUBSET S : g[s] = IF s = {} THEN base ELSE F[<<g[s \ {Max(s)}], Max(s)>>]
  BY <1>7, <1>8
<1>10. QED
  BY <1>9 DEF S, Folded

\* and whatever recursion does so as long as it is in B, never leaves B and
\* goes from one element to the next.
LEMMA FoldRuns ==
  ASSUME NEW n, NEW B, NEW base, NEW F, NEW g, IsStep(n, B, base, F), FoldsInside(n, B, base, F, g)
  PROVE  \E h : Passes(n, B, base, F, g, h)
<1> USE DEF IsStep, FoldsInside
<1> DEFINE Bad == {k \in 0..n : g[1..k] \notin B}
<1>1. \A k \in 1..n : g[1..(k-1)] \in B => g[1..k] = F[<<g[1..(k-1)], k>>]
  <2> SUFFICES ASSUME NEW k \in 1..n, g[1..(k-1)] \in B PROVE g[1..k] = F[<<g[1..(k-1)], k>>]
    OBVIOUS
  <2>1. 1..k \in SUBSET (1..n) /\ 1..k # {} /\ Max(1..k) = k /\ (1..k) \ {k} = 1..(k-1)
    BY MaxOfRange
  <2>2. g[(1..k) \ {Max(1..k)}] = g[1..(k-1)]
    BY <2>1
  <2>3. g[1..k] = F[<<g[(1..k) \ {Max(1..k)}], Max(1..k)>>]
    BY <2>1, <2>2
  <2>4. QED
    BY <2>1, <2>2, <2>3
<1>2. g[1..0] = base
  <2>1. 1..0 = {}
    OBVIOUS
  <2>2. QED
    BY <2>1
<1>3. Bad = {}
  <2> SUFFICES ASSUME Bad # {} PROVE FALSE
    OBVIOUS
  <2>1. PICK k \in Bad : \A m \in Bad : k <= m
    <3>1. Bad \subseteq Nat
      OBVIOUS
    <3> HIDE DEF Bad
    <3>2. QED
      BY <3>1, LeastNatural
  <2>2. k # 0
    BY <1>2
  <2>3. k \in 1..n /\ k - 1 \in 0..n /\ k - 1 \notin Bad
    BY <2>1, <2>2
  <2>4. g[1..(k-1)] \in B
    BY <2>3
  <2>5. g[1..k] = F[<<g[1..(k-1)], k>>]
    BY <1>1, <2>3, <2>4
  <2>6. <<g[1..(k-1)], k>> \in B \X (1..n)
    BY <2>3, <2>4
  <2>7. QED
    BY <2>5, <2>6
<1> DEFINE h == [k \in 0..n |-> g[1..k]]
<1>4. h \in [0..n -> B]
  BY <1>3
<1>5. h[0] = base /\ h[n] = g[1..n]
  BY <1>2
<1>6. \A k \in 1..n : h[k] = F[<<h[k-1], k>>]
  <2> SUFFICES ASSUME NEW k \in 1..n PROVE h[k] = F[<<h[k-1], k>>]
    OBVIOUS
  <2>1. k - 1 \in 0..n /\ k \in 0..n
    OBVIOUS
  <2>2. h[k-1] = g[1..(k-1)] /\ h[k] = g[1..k] /\ g[1..(k-1)] \in B
    BY <1>3, <2>1
  <2>3. QED
    BY <1>1, <2>2
<1>7. QED
  BY <1>4, <1>5, <1>6 DEF Passes

-------------------------------------------------------------------------------
(* The three folds of the header search.                                   *)

LEMMA LineFacts ==
  ASSUME NEW line \in Lines
  PROVE  /\ line.cells \in Seq(Cells) /\ Len(line.cells) \in Nat /\ DOMAIN line.cells = 1..Len(line.cells)
         /\ \A i \in 1..Len(line.cells) : line.cells[i] \in Cells
  BY DEF Lines

LEMMA CountIsInt ==
  ASSUME NEW line \in Lines, NEW d
  PROVE  CountIn(line, d) \in Int
<1> DEFINE inside(c) == Cardinality({i \in DOMAIN c.seps : c.seps[i] = d})
           n == Len(line.cells)
           base == IF line.delim = d /\ line.cells # <<>> THEN Len(line.cells) - 1 ELSE 0
           Here(g) == [s \in SUBSET (1..n) |-> IF s = {} THEN base ELSE g[s \ {Max(s)}] + inside(line.cells[Max(s)])]
           F == [x \in Int \X (1..n) |-> x[1] + inside(line.cells[x[2]])]
<1>1. n \in Nat /\ DOMAIN line.cells = 1..n
  BY LineFacts
<1>2. \A i \in 1..n : inside(line.cells[i]) \in Int
  <2> SUFFICES ASSUME NEW i \in 1..n PROVE inside(line.cells[i]) \in Int
    OBVIOUS
  <2>1. line.cells[i].seps \in Seq(STRING)
    BY LineFacts DEF Cells
  <2>2. Len(line.cells[i].seps) \in Nat /\ DOMAIN line.cells[i].seps = 1..Len(line.cells[i].seps)
    BY <2>1
  <2>3. IsFiniteSet({j \in DOMAIN line.cells[i].seps : line.cells[i].seps[j] = d})
    <3>1. IsFiniteSet(1..Len(line.cells[i].seps))
      BY <2>2, RangeFinite
    <3>2. QED
      BY <2>2, <3>1, FS_Subset
  <2>4. QED
    BY <2>3, FS_CardinalityType
<1>3. base \in Int
  BY <1>1
<1>4. CountIn(line, d) = (CHOOSE g : g = Here(g))[1..n]
  BY <1>1 DEF CountIn, FoldLeft, MapThenFoldSet
<1> HIDE DEF n, base, inside
<1>5. F \in [Int \X (1..n) -> Int] /\ \A v \in Int, i \in 1..n : F[<<v, i>>] = v + inside(line.cells[i])
  BY <1>2
<1> HIDE DEF F
<1>6. IsStep(n, Int, base, F)
  BY <1>1, <1>3, <1>5 DEF IsStep
<1>7. \E g : g = Here(g)
  <2>1. PICK g : Folded(n, Int, base, F, g)
    BY <1>6, FoldExists
  <2>2. \A s \in SUBSET (1..n) : s # {} => Max(s) \in 1..n /\ g[s \ {Max(s)}] \in Int
    BY <1>1, <2>1, MaxIsElement DEF Folded
  <2>3. \A s \in SUBSET (1..n) : s # {} => g[s] = g[s \ {Max(s)}] + inside(line.cells[Max(s)])
    BY <1>5, <2>1, <2>2 DEF Folded
  <2>4. \A s \in SUBSET (1..n) : g[s] = Here(g)[s]
    BY <2>1, <2>3 DEF Folded
  <2>5. g = Here(g)
    BY <2>1, <2>4 DEF Folded
  <2>6. QED
    BY <2>5
<1>8. PICK g : g = Here(g) /\ CountIn(line, d) = g[1..n]
  BY <1>4, <1>7
<1>9. FoldsInside(n, Int, base, F, g)
  <2>1. \A s \in SUBSET (1..n) : g[s] = IF s = {} THEN base ELSE g[s \ {Max(s)}] + inside(line.cells[Max(s)])
    BY <1>8
  <2>2. \A s \in SUBSET (1..n) : s # {} /\ g[s \ {Max(s)}] \in Int => g[s] = F[<<g[s \ {Max(s)}], Max(s)>>]
    BY <1>1, <1>5, <2>1, MaxIsElement
  <2>3. g[{}] = base
    BY <2>1
  <2>4. QED
    BY <2>2, <2>3 DEF FoldsInside
<1>10. PICK h : Passes(n, Int, base, F, g, h)
  BY <1>6, <1>9, FoldRuns
<1>11. QED
  BY <1>1, <1>8, <1>10 DEF Passes

LEMMA KeywordsFinite ==
  ASSUME NEW line
  PROVE  /\ IsFiniteSet(KeywordsIn(line)) /\ Cardinality(KeywordsIn(line)) \in Nat
         /\ KeywordsIn(line) = {} <=> Cardinality(KeywordsIn(line)) = 0
<1> DEFINE A == {"data mov", "descricao", "debito", "credito", "data valor"}
           B == {"saldo", "categoria", "date", "description", "amount"}
           C == {"debit", "credit", "balance", "category", "merchant"}
           D == {"fecha", "descripcion", "importe", "cargo", "abono"}
           E == {"data mov."}
<1>1. headerKeywords = A \cup B \cup C \cup D \cup E
  BY DEF headerKeywords
<1>2. IsFiniteSet(A) /\ IsFiniteSet(B) /\ IsFiniteSet(C) /\ IsFiniteSet(D) /\ IsFiniteSet(E)
  BY FiveAreFinite, FS_Singleton
<1> HIDE DEF A, B, C, D, E
<1>3. IsFiniteSet(headerKeywords)
  BY <1>1, <1>2, FS_Union
<1>4. KeywordsIn(line) \subseteq headerKeywords
  BY DEF KeywordsIn, KeywordsOf
<1>5. IsFiniteSet(KeywordsIn(line))
  BY <1>3, <1>4, FS_Subset
<1>6. QED
  BY <1>5, FS_CardinalityType, FS_EmptySet

LEMMA DelimiterCountIsInt ==
  ASSUME NEW line \in Lines
  PROVE  detectDelimiter(line).count \in Int
<1> DEFINE start == [delim |-> "", count |-> 0]
           D == {start.delim} \cup {Delimiters[i] : i \in 1..4}
           B == [delim : D, count : Int]
           next(best, i) == IF CountIn(line, Delimiters[i]) > best.count
                            THEN [delim |-> Delimiters[i], count |-> CountIn(line, Delimiters[i])] ELSE best
           Here(g) == [s \in SUBSET (1..4) |-> IF s = {} THEN start ELSE next(g[s \ {Max(s)}], Max(s))]
           F == [x \in B \X (1..4) |-> next(x[1], x[2])]
<1>1. DOMAIN Delimiters = 1..4
  BY DEF Delimiters
<1>2. detectDelimiter(line) = (CHOOSE g : g = Here(g))[1..4]
  BY <1>1 DEF detectDelimiter, FoldLeft, MapThenFoldSet
<1>3. start.count = 0 /\ start = [delim |-> start.delim, count |-> start.count]
  OBVIOUS
<1> HIDE DEF start
<1>4. start \in B
  BY <1>3
<1>5. \A b \in B, i \in 1..4 : next(b, i) \in B
  <2> SUFFICES ASSUME NEW b \in B, NEW i \in 1..4 PROVE next(b, i) \in B
    OBVIOUS
  <2>1. CountIn(line, Delimiters[i]) \in Int /\ Delimiters[i] \in D
    BY CountIsInt
  <2> HIDE DEF D
  <2>2. QED
    BY <2>1
<1> HIDE DEF next
<1>6. F \in [B \X (1..4) -> B] /\ \A b \in B, i \in 1..4 : F[<<b, i>>] = next(b, i)
  BY <1>5
<1> HIDE DEF F
<1>7. IsStep(4, B, start, F)
  BY <1>4, <1>6 DEF IsStep
<1>8. \E g : g = Here(g)
  <2> HIDE DEF B
  <2>1. PICK g : Folded(4, B, start, F, g)
    BY <1>7, FoldExists
  <2>2. \A s \in SUBSET (1..4) : s # {} => Max(s) \in 1..4 /\ g[s \ {Max(s)}] \in B
    <3>1. \A s \in SUBSET (1..4) : s # {} => Max(s) \in s
      BY MaxIsElement
    <3>2. QED
      BY <2>1, <3>1 DEF Folded
  <2>3. \A s \in SUBSET (1..4) : s # {} => g[s] = next(g[s \ {Max(s)}], Max(s))
    BY <1>6, <2>1, <2>2 DEF Folded
  <2>4. \A s \in SUBSET (1..4) : g[s] = Here(g)[s]
    BY <2>1, <2>3 DEF Folded
  <2>5. g = Here(g)
    BY <2>1, <2>4 DEF Folded
  <2>6. QED
    BY <2>5
<1>9. PICK g : g = Here(g) /\ detectDelimiter(line) = g[1..4]
  BY <1>2, <1>8
<1>10. FoldsInside(4, B, start, F, g)
  <2> HIDE DEF B
  <2>1. \A s \in SUBSET (1..4) : g[s] = IF s = {} THEN start ELSE next(g[s \ {Max(s)}], Max(s))
    BY <1>9
  <2>2. \A s \in SUBSET (1..4) : s # {} => Max(s) \in 1..4
    <3>1. \A s \in SUBSET (1..4) : s # {} => Max(s) \in s
      BY MaxIsElement
    <3>2. QED
      BY <3>1
  <2>3. \A s \in SUBSET (1..4) : s # {} /\ g[s \ {Max(s)}] \in B => g[s] = F[<<g[s \ {Max(s)}], Max(s)>>]
    BY <1>6, <2>1, <2>2
  <2>4. g[{}] = start
    BY <2>1
  <2>5. QED
    BY <2>3, <2>4 DEF FoldsInside
<1>11. PICK h : Passes(4, B, start, F, g, h)
  BY <1>7, <1>10, FoldRuns
<1>12. detectDelimiter(line) \in B
  BY <1>9, <1>11 DEF Passes
<1>13. QED
  BY <1>12

-------------------------------------------------------------------------------
(* The search for the header row.                                          *)

\* The lines it looks at, what it knows of each, and what it may find.
Looked(lines) == IF Len(lines) > 21 THEN 21 ELSE Len(lines)
Here(lines, i) == Found(i, detectDelimiter(lines[i]))
Matches(lines, i) == Cardinality(KeywordsIn(lines[i]))
Rows(lines) == {NoRow} \cup {Here(lines, i) : i \in 1..Looked(lines)}
Bests(lines) == [keyword : Rows(lines), fallback : Rows(lines)]

LEMMA BetterStays ==
  ASSUME NEW R, NEW best \in [keyword : R, fallback : R], NEW here \in R, NEW matches
  PROVE  Better(best, here, matches) \in [keyword : R, fallback : R]
  BY DEF Better

\* The best lines after each line of the loop.
Search(lines, h) ==
  /\ h \in [0..Looked(lines) -> Bests(lines)]
  /\ h[0] = [keyword |-> NoRow, fallback |-> NoRow] /\ h[Looked(lines)] = Candidates(lines)
  /\ \A k \in 1..Looked(lines) : h[k] = Better(h[k-1], Here(lines, k), Matches(lines, k))

LEMMA SearchExists ==
  ASSUME NEW lines \in Seq(Lines)
  PROVE  \E h : Search(lines, h)
<1> DEFINE n == Looked(lines)
           start == [keyword |-> NoRow, fallback |-> NoRow]
           B == Bests(lines)
           next(best, i) == Better(best, Here(lines, i), Matches(lines, i))
           Folds(g) == [s \in SUBSET (1..n) |-> IF s = {} THEN start ELSE next(g[s \ {Max(s)}], [i \in 1..n |-> i][Max(s)])]
           F == [x \in B \X (1..n) |-> next(x[1], x[2])]
<1>1. n \in Nat
  BY DEF Looked
<1>2. Candidates(lines) = (CHOOSE g : g = Folds(g))[1..n]
  BY DEF Candidates, FoldLeft, MapThenFoldSet, Looked, Here, Matches
<1> HIDE DEF n
<1>3. start \in B
  BY DEF Bests, Rows
<1>4. \A b \in B, i \in 1..n : next(b, i) \in B
  BY BetterStays DEF Bests, Rows, n
<1> HIDE DEF B, next, start
<1>5. F \in [B \X (1..n) -> B] /\ \A b \in B, i \in 1..n : F[<<b, i>>] = next(b, i)
  BY <1>4
<1> HIDE DEF F
<1>6. IsStep(n, B, start, F)
  BY <1>1, <1>3, <1>5 DEF IsStep
<1>7. \A s \in SUBSET (1..n) : s # {} => Max(s) \in 1..n /\ [i \in 1..n |-> i][Max(s)] = Max(s)
  <2>1. \A s \in SUBSET (1..n) : s # {} => Max(s) \in s
    BY <1>1, MaxIsElement
  <2>2. QED
    BY <2>1
<1>8. \E g : g = Folds(g)
  <2>1. PICK g : Folded(n, B, start, F, g)
    BY <1>6, FoldExists
  <2>2. \A s \in SUBSET (1..n) : s # {} => g[s] = next(g[s \ {Max(s)}], [i \in 1..n |-> i][Max(s)])
    BY <1>5, <1>7, <2>1 DEF Folded
  <2>3. \A s \in SUBSET (1..n) : g[s] = Folds(g)[s]
    BY <2>1, <2>2 DEF Folded
  <2>4. g = Folds(g)
    BY <2>1, <2>3 DEF Folded
  <2>5. QED
    BY <2>4
<1>9. PICK g : g = Folds(g) /\ Candidates(lines) = g[1..n]
  BY <1>2, <1>8
<1>10. FoldsInside(n, B, start, F, g)
  <2>1. \A s \in SUBSET (1..n) :
          g[s] = IF s = {} THEN start ELSE next(g[s \ {Max(s)}], [i \in 1..n |-> i][Max(s)])
    BY <1>9
  <2>2. \A s \in SUBSET (1..n) : s # {} /\ g[s \ {Max(s)}] \in B => g[s] = F[<<g[s \ {Max(s)}], Max(s)>>]
    BY <1>5, <1>7, <2>1
  <2>3. g[{}] = start
    BY <2>1
  <2>4. QED
    BY <2>2, <2>3 DEF FoldsInside
<1>11. PICK h : Passes(n, B, start, F, g, h)
  BY <1>6, <1>10, FoldRuns
<1>12. \A k \in 1..n : h[k] = next(h[k-1], k)
  <2>1. \A k \in 1..n : k - 1 \in 0..n
    BY <1>1
  <2>2. QED
    BY <1>5, <1>11, <2>1 DEF Passes
<1>13. QED
  BY <1>9, <1>11, <1>12 DEF Passes, Search, n, B, start, next

\* What it finds is a line of the file.
LEMMA FoundIsLine ==
  ASSUME NEW lines \in Seq(Lines)
  PROVE  findHeaderRow(lines) = NoRow \/ \E i \in 1..Len(lines) : findHeaderRow(lines) = Here(lines, i)
<1>1. PICK h : Search(lines, h)
  BY SearchExists
<1>2. Candidates(lines) \in Bests(lines)
  BY <1>1 DEF Search, Looked
<1>3. Candidates(lines).keyword \in Rows(lines) /\ Candidates(lines).fallback \in Rows(lines)
  BY <1>2 DEF Bests
<1>4. findHeaderRow(lines) \in Rows(lines)
  BY <1>3 DEF findHeaderRow, Preferred, Rows
<1>5. QED
  BY <1>4 DEF Rows, Looked

LEMMA LineCounts ==
  ASSUME NEW lines \in Seq(Lines), NEW i \in 1..Len(lines)
  PROVE  /\ Here(lines, i).row = i - 1 /\ Here(lines, i).delim = detectDelimiter(lines[i]).delim
         /\ Here(lines, i).count = detectDelimiter(lines[i]).count /\ Here(lines, i).count \in Int
         /\ Matches(lines, i) \in Nat /\ (Matches(lines, i) > 0 <=> KeywordsIn(lines[i]) # {})
<1>1. lines[i] \in Lines
  OBVIOUS
<1>2. detectDelimiter(lines[i]).count \in Int
  BY <1>1, DelimiterCountIsInt
<1>3. Matches(lines, i) \in Nat /\ (Matches(lines, i) > 0 <=> KeywordsIn(lines[i]) # {})
  BY KeywordsFinite DEF Matches
<1>4. QED
  BY <1>2, <1>3 DEF Here, Found

\* No keyword line but line H has as many delimiters or a dozen keywords.
Outdone(lines, H) ==
  \A i \in 1..Len(lines) :
    i # H /\ KeywordsIn(lines[i]) # {} =>
      detectDelimiter(lines[i]).count < detectDelimiter(lines[H]).count /\ Cardinality(KeywordsIn(lines[i])) < 12

\* The best keyword line is one with fewer delimiters up to line H, and then
\* line H to the end.
LEMMA FindsHeader ==
  ASSUME NEW lines \in Seq(Lines), NEW H \in 1..Len(lines), H <= 21, KeywordsIn(lines[H]) # {},
         detectDelimiter(lines[H]).count >= 2, Outdone(lines, H)
  PROVE  findHeaderRow(lines) = Here(lines, H)
<1> DEFINE n == Looked(lines)
           C == detectDelimiter(lines[H]).count
<1>1. PICK h : Search(lines, h)
  BY SearchExists
<1> DEFINE Kept(k) == IF k < H THEN h[k].keyword.count \in Int /\ h[k].keyword.count < C
                      ELSE h[k].keyword = Here(lines, H)
           Bad == {k \in 0..n : ~ Kept(k)}
<1>2. Len(lines) \in Nat /\ n \in Nat /\ H \in 1..n /\ \A k \in 1..n : k \in 1..Len(lines)
  BY DEF Looked
<1>3. C \in Int /\ C >= 2 /\ Here(lines, H).count = C /\ Here(lines, H).row = H - 1 /\ Matches(lines, H) \in Nat /\ Matches(lines, H) > 0
  BY LineCounts
<1>4. h \in [0..n -> Bests(lines)] /\ h[0].keyword = NoRow /\ h[n] = Candidates(lines)
  BY <1>1 DEF Search
<1>5. Kept(0)
  <2>1. NoRow.count = 0
    BY DEF NoRow
  <2>2. QED
    BY <1>2, <1>3, <1>4, <2>1
<1>6. ASSUME NEW k \in 1..n, Kept(k-1) PROVE Kept(k)
  <2> DEFINE best == h[k-1]
             here == Here(lines, k)
             m == Matches(lines, k)
  <2>1. h[k] = Better(best, here, m) /\ best \in Bests(lines) /\ k \in 1..Len(lines)
    <3>1. k - 1 \in 0..n
      BY <1>2
    <3>2. QED
      BY <1>1, <1>2, <1>4, <3>1 DEF Search
  <2>2. here.row = k - 1 /\ here.count \in Int /\ m \in Nat /\ (m > 0 <=> KeywordsIn(lines[k]) # {})
        /\ here.count = detectDelimiter(lines[k]).count
    BY <2>1, LineCounts
  <2>3. k # H /\ m > 0 => here.count < C /\ m < 12
    BY <2>1, <2>2 DEF Outdone, Matches
  <2> HIDE DEF best, m, here
  <2>4. \/ h[k].keyword = best.keyword /\ ~ (here.count >= 1 /\ m > 0 /\ BeatsKeyword(best.keyword, here.count, m))
        \/ h[k].keyword = here /\ here.count >= 1 /\ m > 0 /\ BeatsKeyword(best.keyword, here.count, m)
    <3>1. CASE here.count < 1
      BY <2>1, <2>2, <3>1 DEF Better
    <3>2. CASE here.count >= 1 /\ m > 0
      BY <2>1, <2>2, <3>2 DEF Better, Bests
    <3>3. CASE here.count >= 1 /\ ~ (m > 0)
      BY <2>1, <2>2, <3>3 DEF Better, Bests
    <3>4. QED
      BY <2>2, <3>1, <3>2, <3>3
  <2>5. CASE k < H
    <3>1. best.keyword.count \in Int /\ best.keyword.count < C
      BY <1>2, <1>6, <2>5 DEF best
    <3>2. QED
      BY <2>2, <2>3, <2>4, <2>5, <3>1
  <2>6. CASE k = H
    <3>1. best.keyword.count \in Int /\ best.keyword.count < C
      BY <1>2, <1>6, <2>6 DEF best
    <3>2. here.count = C /\ m \in Nat /\ m > 0 /\ here = Here(lines, H)
      BY <1>3, <2>6 DEF here, m
    <3>3. BeatsKeyword(best.keyword, here.count, m)
      <4>1. here.count * 10 + m > best.keyword.count * 10 + 1
        BY <1>3, <3>1, <3>2
      <4>2. QED
        BY <4>1 DEF BeatsKeyword
    <3>4. here.count >= 1
      BY <1>3, <3>2
    <3>5. h[k].keyword = here
      BY <2>4, <3>2, <3>3, <3>4
    <3>6. QED
      BY <2>6, <3>2, <3>5
  <2>7. CASE k > H
    <3>1. best.keyword = Here(lines, H)
      BY <1>2, <1>6, <2>7 DEF best
    <3>2. m > 0 => ~ BeatsKeyword(best.keyword, here.count, m)
      <4> SUFFICES ASSUME m > 0 PROVE ~ BeatsKeyword(best.keyword, here.count, m)
        OBVIOUS
      <4>1. here.count < C /\ m < 12 /\ best.keyword.count = C /\ best.keyword.row = H - 1
        BY <1>2, <1>3, <2>3, <2>7, <3>1
      <4>2. ~ (here.count * 10 + m > best.keyword.count * 10 + 1)
        BY <1>3, <2>2, <4>1
      <4>3. best.keyword.row # None
        BY <1>2, <4>1 DEF None
      <4>4. QED
        BY <4>2, <4>3 DEF BeatsKeyword
    <3>3. h[k].keyword = Here(lines, H)
      BY <2>4, <3>1, <3>2
    <3>4. QED
      BY <1>2, <2>7, <3>3
  <2>8. QED
    BY <1>2, <2>5, <2>6, <2>7
<1> HIDE DEF Kept, C, n
<1>7. Bad = {}
  <2> SUFFICES ASSUME Bad # {} PROVE FALSE
    OBVIOUS
  <2>1. PICK k \in Bad : \A j \in Bad : k <= j
    <3>1. Bad \subseteq Nat
      BY <1>2
    <3> HIDE DEF Bad
    <3>2. QED
      BY <3>1, LeastNatural
  <2>2. k # 0
    BY <1>5
  <2>3. k \in 1..n /\ k - 1 \in 0..n /\ k - 1 \notin Bad
    BY <1>2, <2>1, <2>2
  <2>4. QED
    BY <1>6, <2>3
<1>8. Candidates(lines).keyword = Here(lines, H)
  <2>1. Kept(n)
    BY <1>2, <1>7
  <2>2. ~ (n < H)
    BY <1>2
  <2>3. QED
    BY <1>4, <2>1, <2>2 DEF Kept
<1>9. QED
  BY <1>3, <1>8 DEF findHeaderRow, Preferred

-------------------------------------------------------------------------------
(* What DetectConfig says.                                                 *)

\* Of the row it goes by, only its number and the delimiter count.
LEMMA SameConfig ==
  ASSUME NEW lines, NEW a, NEW b, a.row = b.row, a.delim = b.delim
  PROVE  ConfigAt(lines, a) = ConfigAt(lines, b)
  BY DEF ConfigAt, ConfigWith

LEMMA NotOk == ~ NoConfig.ok /\ ~ Nothing.ok
  BY DEF NoConfig, Nothing

\* It can go by a row that has a number and a delimiter.
Usable(found) == found.row # None /\ found.delim # ""
Says(config, lines, found) ==
  /\ config.skipLines = found.row /\ config.delim = found.delim
  /\ config.headers = Split(lines[found.row + 1], found.delim)
  /\ config.sampleRows = getSampleRows(lines, found.delim, found.row + 1)

LEMMA ConfigFacts ==
  ASSUME NEW lines, NEW found, ConfigAt(lines, found) # NoConfig
  PROVE  ConfigAt(lines, found).ok /\ Usable(found) /\ Says(ConfigAt(lines, found), lines, found)
<1> DEFINE headers == Split(lines[found.row + 1], found.delim)
<1>1. Usable(found)
  BY DEF ConfigAt, Usable
<1>2. ConfigAt(lines, found) = ConfigWith(lines, found, headers)
  BY <1>1 DEF ConfigAt, Usable
<1> HIDE DEF headers
<1>3. headers # <<>>
  BY <1>2 DEF ConfigWith
<1>4. ConfigAt(lines, found) =
        [ok |-> TRUE, delim |-> found.delim, skipLines |-> found.row, headers |-> headers,
         fingerprint |-> generateFingerprint(headers),
         sampleRows |-> getSampleRows(lines, found.delim, found.row + 1)]
  BY <1>2, <1>3 DEF ConfigWith
<1>5. ConfigAt(lines, found).ok = TRUE
  BY <1>4
<1>6. Says(ConfigAt(lines, found), lines, found)
  BY <1>4 DEF Says, headers
<1>7. QED
  BY <1>1, <1>5, <1>6

\* The analysis: no row is given, so the search decides.
Detected(lines) == DetectConfig(lines, None, "")

LEMMA DetectedFacts ==
  ASSUME NEW lines \in Seq(Lines), Detected(lines) # NoConfig
  PROVE  \E i \in 1..Len(lines) :
           /\ findHeaderRow(lines) = Here(lines, i) /\ Usable(Here(lines, i))
           /\ Detected(lines).ok /\ Detected(lines).skipLines = i - 1 /\ Detected(lines).delim = Here(lines, i).delim
<1>1. Detected(lines) = ConfigAt(lines, findHeaderRow(lines))
  BY DEF Detected, DetectConfig, None
<1>2. Detected(lines).ok /\ Usable(findHeaderRow(lines)) /\ Says(Detected(lines), lines, findHeaderRow(lines))
  BY <1>1, ConfigFacts
<1>3. findHeaderRow(lines) # NoRow
  <2>1. NoRow.row = None
    BY DEF NoRow
  <2>2. QED
    BY <1>2, <2>1 DEF Usable
<1>4. PICK i \in 1..Len(lines) : findHeaderRow(lines) = Here(lines, i)
  BY <1>3, FoundIsLine
<1>5. Here(lines, i).row = i - 1
  BY LineCounts
<1>6. Detected(lines).skipLines = i - 1 /\ Detected(lines).delim = Here(lines, i).delim
  BY <1>2, <1>4, <1>5 DEF Says
<1>7. QED
  BY <1>2, <1>4, <1>6

\* What it says of the header line and the samples, by its own row.
SaysRow(config, lines) ==
  /\ config.headers = Split(lines[config.skipLines + 1], config.delim)
  /\ config.sampleRows = getSampleRows(lines, config.delim, config.skipLines + 1)

LEMMA SaysItsRow ==
  ASSUME NEW lines, NEW row, NEW delim, DetectConfig(lines, row, delim).ok
  PROVE  SaysRow(DetectConfig(lines, row, delim), lines)
<1>1. PICK found : DetectConfig(lines, row, delim) = ConfigAt(lines, found)
  BY DEF DetectConfig
<1>2. ConfigAt(lines, found) # NoConfig
  BY <1>1, NotOk
<1>3. Says(ConfigAt(lines, found), lines, found)
  BY <1>2, ConfigFacts
<1>4. QED
  BY <1>1, <1>3 DEF Says, SaysRow

\* Given the row and the delimiter it found, it says the same again.
LEMMA DetectedAgain ==
  ASSUME NEW lines \in Seq(Lines), Detected(lines).ok, NEW row \in Int, NEW delim,
         \/ row = None
         \/ row = Detected(lines).skipLines /\ delim = Detected(lines).delim
  PROVE  DetectConfig(lines, row, delim) = Detected(lines)
<1>1. CASE row = None
  BY <1>1 DEF Detected, DetectConfig, None
<1>2. CASE row = Detected(lines).skipLines /\ delim = Detected(lines).delim
  <2>1. Detected(lines) # NoConfig
    BY NotOk
  <2>2. PICK i \in 1..Len(lines) :
          /\ findHeaderRow(lines) = Here(lines, i) /\ Usable(Here(lines, i))
          /\ Detected(lines).skipLines = i - 1 /\ Detected(lines).delim = Here(lines, i).delim
    BY <2>1, DetectedFacts
  <2>3. Here(lines, i).row = i - 1
    BY LineCounts
  <2>4. Len(lines) \in Nat
    OBVIOUS
  <2>5. row >= 0 /\ ~ (row >= Len(lines))
    BY <1>2, <2>2, <2>4
  <2>6. GivenRow(lines, row, delim).row = row /\ GivenRow(lines, row, delim).delim = delim
    BY <1>2, <2>2, <2>5 DEF GivenRow, Usable
  <2>7. DetectConfig(lines, row, delim) = ConfigAt(lines, GivenRow(lines, row, delim))
    BY <2>5 DEF DetectConfig
  <2>8. Detected(lines) = ConfigAt(lines, Here(lines, i))
    BY <2>2 DEF Detected, DetectConfig, None
  <2>9. ConfigAt(lines, GivenRow(lines, row, delim)) = ConfigAt(lines, Here(lines, i))
    BY <1>2, <2>2, <2>3, <2>6, SameConfig
  <2>10. QED
    BY <2>7, <2>8, <2>9
<1>3. QED
  BY <1>1, <1>2

\* Its headers are numbered from one.
LEMMA HeadersNumbered ==
  ASSUME NEW lines \in Seq(Lines), NEW row \in Int, NEW delim
  PROVE  DetectConfig(lines, row, delim) = NoConfig \/ DOMAIN DetectConfig(lines, row, delim).headers \subseteq Nat
<1>1. ASSUME NEW i \in 1..Len(lines), NEW d PROVE DOMAIN Split(lines[i], d) \subseteq Nat
  <2>1. lines[i] \in Lines
    OBVIOUS
  <2>2. DOMAIN lines[i].cells \subseteq Nat
    BY <2>1, LineFacts
  <2>3. DOMAIN [j \in 1..(CountIn(lines[i], d) + 1) |-> Opaque] \subseteq Nat
    OBVIOUS
  <2>4. QED
    BY <2>2, <2>3 DEF Split
<1>2. ASSUME NEW found, found.row \in Int, found.row # None => found.row + 1 \in 1..Len(lines)
      PROVE  ConfigAt(lines, found) = NoConfig \/ DOMAIN ConfigAt(lines, found).headers \subseteq Nat
  <2> SUFFICES ASSUME ConfigAt(lines, found) # NoConfig
               PROVE  DOMAIN ConfigAt(lines, found).headers \subseteq Nat
    OBVIOUS
  <2>1. Usable(found) /\ Says(ConfigAt(lines, found), lines, found)
    BY ConfigFacts
  <2>2. found.row # None
    BY <2>1 DEF Usable
  <2>3. ConfigAt(lines, found).headers = Split(lines[found.row + 1], found.delim)
    BY <2>1 DEF Says
  <2>4. found.row + 1 \in 1..Len(lines)
    BY <1>2, <2>2
  <2>5. QED
    BY <1>1, <2>3, <2>4
<1>3. NoRow.row = None
  BY DEF NoRow
<1>4. CASE row >= 0
  <2>1. CASE row >= Len(lines)
    <3>1. GivenRow(lines, row, delim) = NoRow
      BY <2>1 DEF GivenRow
    <3>2. QED
      BY <1>2, <1>3, <1>4, <3>1 DEF DetectConfig, None
  <2>2. CASE ~ (row >= Len(lines))
    <3>1. GivenRow(lines, row, delim).row = row
      BY <2>2 DEF GivenRow
    <3>2. Len(lines) \in Nat /\ row + 1 \in 1..Len(lines)
      BY <1>4, <2>2
    <3>3. QED
      BY <1>2, <1>4, <3>1, <3>2 DEF DetectConfig
  <2>3. QED
    BY <2>1, <2>2
<1>5. CASE ~ (row >= 0)
  <2>1. DetectConfig(lines, row, delim) = ConfigAt(lines, findHeaderRow(lines))
    BY <1>5 DEF DetectConfig
  <2>2. CASE findHeaderRow(lines) = NoRow
    BY <1>2, <1>3, <2>1, <2>2 DEF None
  <2>3. ASSUME NEW i \in 1..Len(lines), findHeaderRow(lines) = Here(lines, i)
        PROVE  DetectConfig(lines, row, delim) = NoConfig \/ DOMAIN DetectConfig(lines, row, delim).headers \subseteq Nat
    <3>1. Here(lines, i).row = i - 1
      BY LineCounts
    <3>2. Here(lines, i).row \in Int /\ Here(lines, i).row + 1 = i
      BY <3>1
    <3>3. QED
      BY <1>2, <2>1, <2>3, <3>2
  <2>4. QED
    BY <2>2, <2>3, FoundIsLine
<1>6. QED
  BY <1>4, <1>5

-------------------------------------------------------------------------------
(* The columns of a mapping are numbers, so that resolveMapping's check    *)
(* that they are inside the header says what it seems to.                  *)

Fields == {"date", "desc", "amount", "debit", "credit", "category", "isDoubleEntry",
           "isEuropean", "dateFormat", "delim", "skipLines"}
Numbered(m) ==
  /\ m.date \in Int /\ m.desc \in Int /\ m.amount \in Int /\ m.debit \in Int /\ m.credit \in Int
Columned(m) == DOMAIN m = Fields /\ Numbered(m)

LEMMA FirstOfIsInt ==
  ASSUME NEW headers, DOMAIN headers \subseteq Nat, NEW parts, NEW texts
  PROVE  FirstOf(headers, parts, texts) \in Int
<1> DEFINE named(h) == h.word \in texts \/ \E word \in parts : Holds(h, word)
           at == {i \in DOMAIN headers : named(headers[i])}
<1>1. FirstOf(headers, parts, texts) = IF at = {} THEN None ELSE Min(at) - 1
  BY DEF FirstOf
<1>2. at \subseteq Nat
  OBVIOUS
<1> HIDE DEF at
<1>3. at # {} => Min(at) \in Nat
  BY <1>2, MinIsElement
<1>4. QED
  BY <1>1, <1>3 DEF None

LEMMA SuggestionsNumbered ==
  ASSUME NEW headers, DOMAIN headers \subseteq Nat
  PROVE  Numbered(SuggestColumns(headers))
<1>1. \A parts, texts : FirstOf(headers, parts, texts) \in Int
  BY FirstOfIsInt
<1>2. QED
  BY <1>1 DEF Numbered, SuggestColumns, Suggested

LEMMA FilledColumned ==
  ASSUME NEW m, NEW s, NEW double, Columned(m), Numbered(s)
  PROVE  Columned(Filled(m, s, double))
<1>1. \A a, b \in Int : Or(a, b) \in Int
  BY DEF Or
<1>2. DOMAIN Filled(m, s, double) = Fields
  BY DEF Filled, Columned, Fields
<1>3. /\ Filled(m, s, double).date = Or(m.date, s.date)
      /\ Filled(m, s, double).desc = Or(m.desc, s.desc)
      /\ Filled(m, s, double).amount = IF double THEN m.amount ELSE Or(m.amount, s.amount)
      /\ Filled(m, s, double).debit = IF double THEN Or(m.debit, s.debit) ELSE m.debit
      /\ Filled(m, s, double).credit = IF double THEN Or(m.credit, s.credit) ELSE m.credit
  BY DEF Filled, Columned, Fields
<1>4. Numbered(Filled(m, s, double))
  BY <1>1, <1>3 DEF Columned, Numbered
<1>5. QED
  BY <1>2, <1>4 DEF Columned

\* The formats do not touch the columns.
LEMMA DefaultsKeepColumns ==
  ASSUME NEW config, NEW m, Columned(m)
  PROVE  Used(applyFormatDefaults(config, m)) = Used(m)
<1> DEFINE dates == FirstDate(config.sampleRows, m.date)
           vote == detectEuropeanFormat(config.sampleRows, m)
<1>1. applyFormatDefaults(config, m) = WithDefaults(config, m, dates, vote)
  BY DEF applyFormatDefaults
<1> HIDE DEF dates, vote
<1>2. /\ WithDefaults(config, m, dates, vote).date = m.date
      /\ WithDefaults(config, m, dates, vote).desc = m.desc
      /\ WithDefaults(config, m, dates, vote).amount = m.amount
      /\ WithDefaults(config, m, dates, vote).debit = m.debit
      /\ WithDefaults(config, m, dates, vote).credit = m.credit
      /\ WithDefaults(config, m, dates, vote).isDoubleEntry = m.isDoubleEntry
  BY DEF WithDefaults, Columned, Fields
<1>3. QED
  BY <1>1, <1>2 DEF Used

\* Where the request names no layout, the first date sample does; the votes of
\* the samples come before the delimiter.
LEMMA DefaultsSay ==
  ASSUME NEW config, NEW m, Columned(m), NEW d, d = applyFormatDefaults(config, m)
  PROVE  /\ d.date = m.date /\ d.desc = m.desc /\ d.amount = m.amount /\ d.debit = m.debit
         /\ d.credit = m.credit /\ d.isDoubleEntry = m.isDoubleEntry
         /\ d.dateFormat = (IF m.dateFormat = NoFormat /\ FirstDate(config.sampleRows, m.date) # <<>>
                           THEN <<DetectDateFormat(FirstDate(config.sampleRows, m.date)[1])>> ELSE m.dateFormat)
         /\ detectEuropeanFormat(config.sampleRows, m) # 0
              => d.isEuropean = (detectEuropeanFormat(config.sampleRows, m) = 1)
<1> DEFINE dates == FirstDate(config.sampleRows, m.date)
           vote == detectEuropeanFormat(config.sampleRows, m)
<1>1. d = WithDefaults(config, m, dates, vote)
  BY DEF applyFormatDefaults
<1> HIDE DEF dates, vote
<1>2. /\ d.date = m.date /\ d.desc = m.desc /\ d.amount = m.amount /\ d.debit = m.debit
      /\ d.credit = m.credit /\ d.isDoubleEntry = m.isDoubleEntry
      /\ d.dateFormat = (IF m.dateFormat = NoFormat /\ dates # <<>> THEN <<DetectDateFormat(dates[1])>> ELSE m.dateFormat)
      /\ d.isEuropean = IF vote # 0 THEN vote = 1 ELSE FormatByDelimiter(config.delim, m.isEuropean)
  BY <1>1 DEF WithDefaults, Columned, Fields
<1>3. QED
  BY <1>2 DEF dates, vote

\* A row read with columns that are not negative is parsed or refused.
LEMMA NotNegativeNoPanic ==
  ASSUME NEW record, NEW m, NEW shortFirst, \A col \in Used(m) : col \in Int /\ col >= 0
  PROVE  parseRow(record, m, shortFirst) # Panic
<1>1. ~(m.date < 0) /\ ~(m.desc < 0) /\ ~(~m.isDoubleEntry /\ m.amount < 0)
  BY DEF Used
<1>2. parseRow(record, m, shortFirst) = Refused
        \/ parseRow(record, m, shortFirst).outcome = "parsed"
  BY <1>1 DEF parseRow
<1>3. Refused.outcome = "refused" /\ Panic.outcome = "panic"
  BY DEF Refused, Panic
<1>4. QED
  BY <1>2, <1>3

\* What resolveMapping lets through has all its columns inside the header.
LEMMA ResolvedInside ==
  ASSUME NEW config, NEW m, Columned(m), DOMAIN config.headers \subseteq Nat,
         resolveMapping(config, m).ok
  PROVE  /\ Columned(resolveMapping(config, m).mapping)
         /\ resolveMapping(config, m).mapping.dateFormat = m.dateFormat
         /\ \A col \in Used(resolveMapping(config, m).mapping) : col \in Int /\ col >= 0
<1> DEFINE s == SuggestColumns(config.headers)
           filled == FillColumns(m, s)
<1>1. Columned(filled)
  BY SuggestionsNumbered, FilledColumned DEF FillColumns
<1>2. resolveMapping(config, m) = Checked(config, filled)
  BY DEF resolveMapping
<1>7. filled.dateFormat = m.dateFormat
  BY DEF FillColumns, Filled, Columned, Fields
<1> HIDE DEF filled, s
<1>3. Checked(config, filled) # Nothing
  BY <1>2, NotOk
<1>4. \A col \in Used(filled) : InHeader(config, col)
  BY <1>3 DEF Checked
<1>5. resolveMapping(config, m).mapping = filled
  BY <1>2, <1>4 DEF Checked
<1>6. \A col \in Used(filled) : col \in Int /\ col >= 0
  BY <1>1, <1>4 DEF InHeader, Used, Columned, Numbered
<1>8. QED
  BY <1>1, <1>5, <1>6, <1>7

-------------------------------------------------------------------------------
(* What an import returns.                                                 *)

Heading(m, headerRows, lines) == DetectConfig(lines, HeaderRowIndex(m, headerRows), m.delim)
NonePanics(rows) == \A j \in DOMAIN rows : rows[j] # Panic

LEMMA HeadingNumbered ==
  ASSUME NEW lines \in Seq(Lines), NEW m, m.skipLines \in Int, NEW headerRows \in Int,
         Heading(m, headerRows, lines).ok
  PROVE  DOMAIN Heading(m, headerRows, lines).headers \subseteq Nat
<1>1. HeaderRowIndex(m, headerRows) \in Int
  BY DEF HeaderRowIndex
<1>2. Heading(m, headerRows, lines) # NoConfig
  BY NotOk
<1>3. QED
  BY <1>1, <1>2, HeadersNumbered DEF Heading

\* The mapping, the currency and the rows an import works out from the header
\* row it goes by.
Settled(config, m) == resolveMapping(config, m).mapping
Unnamed == ""
WorkedOut(config, mapping, currency, rows, m, account, lines) ==
  /\ Columned(Settled(config, m)) /\ Settled(config, m).dateFormat = m.dateFormat
  /\ mapping = applyFormatDefaults(config, Settled(config, m))
  /\ currency = resolveCurrencyCode(account, lines, config) /\ currency # Unnamed
  /\ \E shortFirst : rows = ParseRows(DataRecords(lines, config), mapping, shortFirst)

\* An import that gets as far as rows worked on the header row it was asked
\* for, and none of its rows is out of range.
LEMMA ImportReturns ==
  ASSUME NEW m, NEW headerRows \in Int, NEW account, NEW shortFirst,
         statement.lines \in Seq(Lines), Columned(m), m.skipLines \in Int,
         NEW imported, imported = ImportWithOptions(m, headerRows, account, shortFirst),
         imported # Nothing
  PROVE  /\ imported.ok = TRUE /\ imported.config = Heading(m, headerRows, statement.lines)
         /\ imported.config.ok /\ NonePanics(imported.rows)
         /\ WorkedOut(imported.config, imported.mapping, imported.currency, imported.rows, m, account, statement.lines)
<1> DEFINE config == Heading(m, headerRows, statement.lines)
           resolved == resolveMapping(config, m)
           mapping == applyFormatDefaults(config, resolved.mapping)
           currency == resolveCurrencyCode(account, statement.lines, config)
           records == DataRecords(statement.lines, config)
<1>1. imported = ImportConfigured(config, m, account, shortFirst)
  BY DEF ImportWithOptions, Heading
<1> HIDE DEF config
<1>2. config.ok /\ imported = ImportResolved(config, resolved, account, shortFirst)
  BY <1>1 DEF ImportConfigured
<1>3. resolved.ok /\ imported = Import(config, mapping, currency, shortFirst)
  BY <1>2 DEF ImportResolved
<1>4. DOMAIN config.headers \subseteq Nat
  BY <1>2, HeadingNumbered DEF config
<1>5. /\ Columned(resolved.mapping) /\ resolved.mapping.dateFormat = m.dateFormat
      /\ \A col \in Used(resolved.mapping) : col \in Int /\ col >= 0
  BY <1>3, <1>4, ResolvedInside
<1> HIDE DEF resolved, currency, records
<1>6. \A col \in Used(mapping) : col \in Int /\ col >= 0
  BY <1>5, DefaultsKeepColumns
<1> HIDE DEF mapping
<1>7. NonePanics(ParseRows(records, mapping, shortFirst))
  <2>1. \A record : parseRow(record, mapping, shortFirst) # Panic
    BY <1>6, NotNegativeNoPanic
  <2>2. QED
    BY <2>1 DEF NonePanics, ParseRows
<1>8. imported = [ok |-> TRUE, config |-> config, mapping |-> mapping, currency |-> currency,
                  rows |-> ParseRows(records, mapping, shortFirst)]
  BY <1>3 DEF Import, records
<1>9. imported.ok = TRUE /\ imported.config = config
      /\ imported.mapping = mapping /\ imported.currency = currency
      /\ imported.rows = ParseRows(records, mapping, shortFirst)
  BY <1>8
<1>10. WorkedOut(config, mapping, currency, imported.rows, m, account, statement.lines)
  <2>1. Settled(config, m) = resolved.mapping
    BY DEF Settled, resolved
  <2>2. mapping = applyFormatDefaults(config, Settled(config, m))
    BY <2>1 DEF mapping
  <2>3. currency = resolveCurrencyCode(account, statement.lines, config)
    BY DEF currency
  <2>4. imported.rows = ParseRows(DataRecords(statement.lines, config), mapping, shortFirst)
    BY <1>9 DEF records
  <2>5. currency # Unnamed
    BY <1>3 DEF Import, Unnamed
  <2>6. QED
    BY <1>5, <2>1, <2>2, <2>3, <2>4, <2>5 DEF WorkedOut
<1>11. QED
  BY <1>2, <1>7, <1>9, <1>10 DEF config

-------------------------------------------------------------------------------
(* The invariant: a reply is the analysis of the statement, a mapping of   *)
(* the user's own in it is the one the table still gives, and a result     *)
(* comes from the header row it was asked for.                             *)

Seen == Detected(statement.lines)
Probed(config) ==
  LET s == SuggestColumns(config.headers) IN ProbeDialect(config.sampleRows, ProbedColumn(s), s.date)
ReplyFrom(u) ==
  \/ reply[u] = Nothing
  \/ /\ reply[u].ok = TRUE /\ Seen.ok
     /\ reply[u].config = Seen /\ reply[u].suggestions = SuggestColumns(Seen.headers)
     /\ reply[u].dialect = Probed(Seen)

Own(u) == {m \in mappings : m.user = u /\ m.fingerprint = Seen.fingerprint}
AnyOf(S) == CHOOSE m \in S : TRUE
OwnKept(u) ==
  reply[u].ok /\ reply[u].mapping.ok /\ reply[u].mapping.user = u
    => Own(u) # {} /\ reply[u].mapping = AnyOf(Own(u))

\* The layouts an analysis can name.
Asked(format) == format = NoFormat \/ \E order \in {"DMY", "MDY"} : format = <<Layout(order, "/", TRUE, 0)>>

ResultFrom ==
  \/ result = Nothing
  \/ /\ result.ok = TRUE /\ result.config.ok
     /\ result.config = Heading(result.asked, result.headerRows, statement.lines)
     /\ NonePanics(result.rows) /\ Asked(result.asked.dateFormat)
     /\ WorkedOut(result.config, result.mapping, result.currency, result.rows,
                  result.asked, result.account, statement.lines)

AnalysisInv ==
  /\ statement \in Statements
  /\ DOMAIN reply = Users
  /\ \A u \in Users : ReplyFrom(u)
  /\ \A u \in Users : OwnKept(u)
  /\ ResultFrom

LEMMA InitAnalysis == Init => AnalysisInv
<1> SUFFICES ASSUME Init PROVE AnalysisInv
  OBVIOUS
<1>1. \A u \in Users : reply[u] = Nothing
  BY DEF Init
<1>2. \A u \in Users : ReplyFrom(u) /\ OwnKept(u)
  BY <1>1, NotOk DEF ReplyFrom, OwnKept
<1>3. QED
  BY <1>2 DEF Init, AnalysisInv, ResultFrom

\* A statement's lines are lines.
LEMMA StatementFacts ==
  ASSUME statement \in Statements
  PROVE  /\ statement.lines \in Seq(Lines) /\ Len(statement.lines) \in Nat
         /\ statement.header \in Nat /\ statement.header + 1 \in 1..Len(statement.lines)
<1>1. statement.lines \in Seq(Lines) /\ statement.header \in 0..(Len(statement.lines) - 1)
  BY StatementsAssumption DEF IsStatement
<1>2. QED
  BY <1>1

\* What the analysis found of a statement.
LEMMA SeenFacts ==
  ASSUME statement \in Statements, Seen.ok
  PROVE  /\ Seen # NoConfig /\ Seen.skipLines \in Nat /\ DOMAIN Seen.headers \subseteq Nat
<1>1. statement.lines \in Seq(Lines) /\ Seen # NoConfig
  BY StatementFacts, NotOk
<1>2. Seen.skipLines \in Nat
  <2>1. PICK i \in 1..Len(statement.lines) : Seen.skipLines = i - 1
    BY <1>1, DetectedFacts DEF Seen
  <2>2. QED
    BY <1>1, <2>1
<1>3. DOMAIN Seen.headers \subseteq Nat
  <2> DEFINE none == ""
  <2> HIDE DEF none
  <2>1. PICK d : Seen = DetectConfig(statement.lines, None, d)
    BY DEF Seen, Detected
  <2>2. None \in Int
    BY DEF None
  <2>3. QED
    BY <1>1, <2>1, <2>2, HeadersNumbered
<1>4. QED
  BY <1>1, <1>2, <1>3

\* What the analysis replies.
LEMMA AnalysisReplies ==
  ASSUME NEW u
  PROVE  \/ AnalyzeFile(u) = Nothing
         \/ /\ AnalyzeFile(u).ok = TRUE /\ Seen.ok
            /\ AnalyzeFile(u).config = Seen /\ AnalyzeFile(u).suggestions = SuggestColumns(Seen.headers)
            /\ AnalyzeFile(u).mapping = GetMappingByFingerprint(Seen.fingerprint, u)
            /\ AnalyzeFile(u).dialect = Probed(Seen)
<1>1. AnalyzeFile(u) = AnalyzeConfig(u, Seen)
  BY DEF AnalyzeFile, Seen, Detected
<1>2. AnalyzeConfig(u, Seen) = IF Seen.ok THEN Analysis(u, Seen, SuggestColumns(Seen.headers)) ELSE Nothing
  BY DEF AnalyzeConfig
<1> HIDE DEF Seen
<1>3. \A s : /\ Analysis(u, Seen, s).ok = TRUE
             /\ Analysis(u, Seen, s).config = Seen /\ Analysis(u, Seen, s).suggestions = s
             /\ Analysis(u, Seen, s).mapping = GetMappingByFingerprint(Seen.fingerprint, u)
             /\ Analysis(u, Seen, s).dialect = ProbeDialect(Seen.sampleRows, ProbedColumn(s), s.date)
  BY DEF Analysis
<1>4. ProbeDialect(Seen.sampleRows, ProbedColumn(SuggestColumns(Seen.headers)), SuggestColumns(Seen.headers).date) = Probed(Seen)
  BY DEF Probed
<1>5. QED
  BY <1>1, <1>2, <1>3, <1>4

\* A row of the user's own comes before any other.
LEMMA OwnFirst ==
  ASSUME NEW u
  PROVE  /\ Own(u) # {} => GetMappingByFingerprint(Seen.fingerprint, u) = AnyOf(Own(u))
         /\ GetMappingByFingerprint(Seen.fingerprint, u).ok
            /\ GetMappingByFingerprint(Seen.fingerprint, u).user = u => Own(u) # {}
<1> DEFINE rows(owner) == {m \in mappings : m.user = owner /\ m.fingerprint = Seen.fingerprint}
           first == GetMappingByFingerprint(Seen.fingerprint, u)
<1>1. Own(u) = rows(u)
  BY DEF Own
<1>2. first = IF rows(u) # {} THEN AnyOf(rows(u))
              ELSE IF rows("global") # {} THEN AnyOf(rows("global")) ELSE Nothing
  BY DEF GetMappingByFingerprint, AnyOf
<1>3. ASSUME rows(u) = {}, first.ok, first.user = u PROVE FALSE
  <2>1. rows("global") # {} /\ first = AnyOf(rows("global"))
    BY <1>2, <1>3, NotOk
  <2>2. AnyOf(rows("global")) \in rows("global")
    BY <2>1 DEF AnyOf
  <2>3. first \in rows(u)
    BY <1>3, <2>1, <2>2
  <2>4. QED
    BY <1>3, <2>3
<1>4. QED
  BY <1>1, <1>2, <1>3

\* The columns a client may send are numbers.
LEMMA BareFields ==
  ASSUME NEW p, NEW date, NEW amount, NEW debit, p = Bare(date, amount, debit)
  PROVE  /\ p.date = date /\ p.desc = None /\ p.amount = amount /\ p.debit = debit /\ p.credit = None
         /\ p.skipLines = 0
  BY DEF Bare, Proto

LEMMA ServiceFields ==
  ASSUME NEW p, NEW format
  PROVE  /\ DOMAIN protoMappingToService(p, format) = Fields
         /\ protoMappingToService(p, format).date = p.date
         /\ protoMappingToService(p, format).desc = p.desc
         /\ protoMappingToService(p, format).amount = p.amount
         /\ protoMappingToService(p, format).debit = p.debit
         /\ protoMappingToService(p, format).credit = p.credit
         /\ protoMappingToService(p, format).delim = p.delim
         /\ protoMappingToService(p, format).skipLines = p.skipLines
         /\ protoMappingToService(p, format).dateFormat = format
  BY DEF protoMappingToService, Fields

LEMMA EchoFields ==
  ASSUME NEW r
  PROVE  /\ Echo(r).date = r.suggestions.date /\ Echo(r).desc = r.suggestions.desc
         /\ Echo(r).amount = r.suggestions.amount /\ Echo(r).debit = r.suggestions.debit
         /\ Echo(r).credit = r.suggestions.credit
         /\ Echo(r).delim = r.config.delim /\ Echo(r).skipLines = r.config.skipLines
  BY DEF Echo, Proto

LEMMA RequestsNumbered ==
  ASSUME AnalysisInv, NEW u \in Users, NEW p \in Requests(u)
  PROVE  Numbered(p) /\ p.skipLines \in Int
<1>1. CASE p \in {Echo(r) : r \in Heard(u)}
  <2>1. reply[u].ok /\ p = Echo(reply[u])
    BY <1>1 DEF Heard
  <2>2. Seen.ok /\ reply[u].config = Seen /\ reply[u].suggestions = SuggestColumns(Seen.headers)
    BY <2>1, NotOk DEF AnalysisInv, ReplyFrom
  <2>3. Numbered(SuggestColumns(Seen.headers)) /\ Seen.skipLines \in Int
    BY <2>2, SeenFacts, SuggestionsNumbered DEF AnalysisInv
  <2>4. QED
    BY <2>1, <2>2, <2>3, EchoFields DEF Numbered
<1>2. ASSUME NEW date \in Int, NEW amount \in Int, NEW debit \in Int, p = Bare(date, amount, debit)
      PROVE  Numbered(p) /\ p.skipLines \in Int
  BY <1>2, BareFields DEF Numbered, None
<1>3. p \in {Echo(r) : r \in Heard(u)} \/ \E date, amount, debit \in Int : p = Bare(date, amount, debit)
  <2>1. None \in Int /\ Columns \subseteq Int
    BY ColumnsAssumption DEF None
  <2>2. QED
    BY <2>1 DEF Requests, NoProto
<1>4. QED
  BY <1>1, <1>2, <1>3

\* A client asks for no layout or one of the two an analysis names.
LEMMA FormatsAsked ==
  ASSUME AnalysisInv, NEW u \in Users, NEW format \in Formats(u)
  PROVE  Asked(format)
<1>1. CASE format = NoFormat
  BY <1>1 DEF Asked
<1>2. CASE reply[u].ok /\ format = <<reply[u].dialect.dateFormat>>
  <2>1. reply[u].dialect = Probed(Seen)
    BY <1>2, NotOk DEF AnalysisInv, ReplyFrom
  <2>2. \E order \in {"DMY", "MDY"} : Probed(Seen).dateFormat = Layout(order, "/", TRUE, 0)
    BY DEF Probed, ProbeDialect
  <2>3. QED
    BY <1>2, <2>1, <2>2 DEF Asked
<1>3. QED
  BY <1>1, <1>2 DEF Formats, Heard

-------------------------------------------------------------------------------
(* Every step keeps the invariant.                                         *)

LEMMA AnalyzeKeepsAnalysis ==
  ASSUME AnalysisInv, NEW w \in Users, AnalyzeCsvFile(w)
  PROVE  AnalysisInv'
<1>1. Seen' = Seen /\ \A u : Own(u)' = Own(u)
  BY DEF AnalyzeCsvFile, Seen, Own
<1>2. DOMAIN reply = Users /\ reply' = [reply EXCEPT ![w] = AnalyzeFile(w)]
  BY DEF AnalysisInv, AnalyzeCsvFile
<1>3. DOMAIN reply' = Users /\ reply'[w] = AnalyzeFile(w)
      /\ \A u \in Users : u # w => reply'[u] = reply[u]
  BY <1>2
<1> HIDE DEF Seen, Own
<1>4. ASSUME NEW u \in Users PROVE ReplyFrom(u)'
  <2>1. CASE u = w
    BY <1>1, <1>3, <2>1, AnalysisReplies DEF ReplyFrom
  <2>2. CASE u # w
    BY <1>1, <1>3, <2>2 DEF ReplyFrom, AnalysisInv
  <2>3. QED
    BY <2>1, <2>2
<1>5. ASSUME NEW u \in Users PROVE OwnKept(u)'
  <2>1. CASE u = w
    <3> SUFFICES ASSUME reply'[w].ok, reply'[w].mapping.ok, reply'[w].mapping.user = w
                 PROVE  Own(w) # {} /\ reply'[w].mapping = AnyOf(Own(w))
      BY <1>1, <2>1 DEF OwnKept, AnyOf
    <3>1. AnalyzeFile(w) # Nothing
      BY <1>3, NotOk
    <3>2. reply'[w].mapping = GetMappingByFingerprint(Seen.fingerprint, w)
      BY <1>3, <3>1, AnalysisReplies
    <3>3. QED
      BY <3>2, OwnFirst
  <2>2. CASE u # w
    BY <1>1, <1>3, <2>2 DEF OwnKept, AnalysisInv, AnyOf
  <2>3. QED
    BY <2>1, <2>2
<1>6. statement' \in Statements /\ ResultFrom'
  <2>1. statement' = statement /\ result' = result
    BY DEF AnalyzeCsvFile
  <2>2. QED
    BY <2>1 DEF AnalysisInv, ResultFrom, Heading, NonePanics
<1>7. QED
  BY <1>3, <1>4, <1>5, <1>6 DEF AnalysisInv

LEMMA SaveKeepsAnalysis ==
  ASSUME AnalysisInv, NEW w \in Users, SaveMapping(w)
  PROVE  AnalysisInv'
<1>1. reply' = reply /\ statement' = statement /\ result' = result /\ Seen' = Seen
  BY DEF SaveMapping, Seen
<1>2. reply[w].ok /\ ~ Taken(w, reply[w].config.fingerprint)
      /\ \E m : mappings' = mappings \cup {BankMapping(w, reply[w].config.fingerprint, m)}
  BY DEF SaveMapping
<1>3. reply[w].config = Seen
  BY <1>2, NotOk DEF AnalysisInv, ReplyFrom
<1>4. PICK row : mappings' = mappings \cup {row} /\ row.user = w
  <2>1. PICK m : mappings' = mappings \cup {BankMapping(w, reply[w].config.fingerprint, m)}
    BY <1>2
  <2>2. BankMapping(w, reply[w].config.fingerprint, m).user = w
    BY DEF BankMapping
  <2>3. QED
    BY <2>1, <2>2
<1>5. ASSUME NEW u, u # w PROVE Own(u)' = Own(u)
  BY <1>1, <1>4, <1>5 DEF Own
<1>6. Own(w) = {}
  BY <1>2, <1>3 DEF Own, Taken
<1>7. ASSUME NEW u \in Users PROVE OwnKept(u)'
  <2>1. CASE u = w
    BY <1>1, <1>6, <2>1 DEF OwnKept, AnalysisInv
  <2>2. CASE u # w
    <3>1. Own(u)' = Own(u)
      BY <1>5, <2>2
    <3> HIDE DEF Own
    <3>2. QED
      BY <1>1, <3>1 DEF OwnKept, AnalysisInv, AnyOf
  <2>3. QED
    BY <2>1, <2>2
<1>8. QED
  BY <1>1, <1>7 DEF AnalysisInv, ReplyFrom, ResultFrom, Heading, NonePanics

LEMMA ImportKeepsAnalysis ==
  ASSUME AnalysisInv, NEW w \in Users, ImportTransactionsCsv(w)
  PROVE  AnalysisInv'
<1>1. reply' = reply /\ statement' = statement /\ mappings' = mappings /\ Seen' = Seen
      /\ \A u : Own(u)' = Own(u)
  BY DEF ImportTransactionsCsv, Seen, Own
<1>2. PICK p \in Requests(w), format \in Formats(w), headerRows \in Int : \E account, shortFirst :
        result' = Remembered(protoMappingToService(p, format), headerRows, account,
                             ImportWithOptions(protoMappingToService(p, format), headerRows, account, shortFirst))
  <2>1. {0, statement.header + 1} \subseteq Int
    BY StatementFacts DEF AnalysisInv
  <2>2. QED
    BY <2>1, Zenon DEF ImportTransactionsCsv
<1>3. PICK account, shortFirst :
        result' = Remembered(protoMappingToService(p, format), headerRows, account,
                             ImportWithOptions(protoMappingToService(p, format), headerRows, account, shortFirst))
  BY <1>2
<1> DEFINE m == protoMappingToService(p, format)
           imported == ImportWithOptions(m, headerRows, account, shortFirst)
<1>4. Columned(m) /\ m.skipLines \in Int
  BY RequestsNumbered, ServiceFields DEF Columned, Numbered
<1>9. Asked(m.dateFormat)
  BY FormatsAsked, ServiceFields
<1> HIDE DEF m
<1>5. statement.lines \in Seq(Lines)
  BY StatementFacts DEF AnalysisInv
<1>6. CASE imported = Nothing
  <2>1. result' = Nothing
    BY <1>3, <1>6, NotOk DEF Remembered, m
  <2>2. QED
    BY <1>1, <2>1 DEF AnalysisInv, ReplyFrom, OwnKept, ResultFrom, AnyOf
<1>7. CASE imported # Nothing
  <2>1. /\ imported.ok = TRUE /\ imported.config = Heading(m, headerRows, statement.lines)
        /\ imported.config.ok /\ NonePanics(imported.rows)
        /\ WorkedOut(imported.config, imported.mapping, imported.currency, imported.rows, m, account, statement.lines)
    BY <1>4, <1>5, <1>7, ImportReturns
  <2>2. result' = Remembered(m, headerRows, account, imported)
    BY <1>3 DEF m
  <2> HIDE DEF imported
  <2>3. /\ result'.ok = TRUE /\ result'.asked = m /\ result'.headerRows = headerRows
        /\ result'.config = imported.config /\ result'.rows = imported.rows /\ result'.account = account
        /\ result'.mapping = imported.mapping /\ result'.currency = imported.currency
    BY <2>1, <2>2 DEF Remembered
  <2>4. ResultFrom'
    BY <1>1, <1>9, <2>1, <2>3 DEF ResultFrom, NonePanics, Heading
  <2>5. QED
    BY <1>1, <2>4 DEF AnalysisInv, ReplyFrom, OwnKept, AnyOf
<1>8. QED
  BY <1>6, <1>7

LEMMA StepKeepsAnalysis == AnalysisInv /\ [Next]_vars => AnalysisInv'
<1> SUFFICES ASSUME AnalysisInv, [Next]_vars PROVE AnalysisInv'
  OBVIOUS
<1>1. CASE Next
  BY <1>1, AnalyzeKeepsAnalysis, SaveKeepsAnalysis, ImportKeepsAnalysis DEF Next
<1>2. CASE UNCHANGED vars
  BY <1>2 DEF vars, AnalysisInv, ReplyFrom, OwnKept, ResultFrom, Seen, Own, AnyOf, Heading, NonePanics
<1>3. QED
  BY <1>1, <1>2

LEMMA AnalysisHolds == Spec => []AnalysisInv
  BY InitAnalysis, StepKeepsAnalysis, PTL DEF Spec

-------------------------------------------------------------------------------
(* What holds of every analysis and import.                                *)

LEMMA HeaderIsSeen ==
  ASSUME statement \in Statements, Seen.ok, PlainHeader, NoDecoy
  PROVE  HeaderSeen(Seen)
<1> DEFINE lines == statement.lines
           H == statement.header + 1
<1>1. lines \in Seq(Lines) /\ H \in 1..Len(lines) /\ statement.header \in Nat
  BY StatementFacts
<1>2. H <= 21 /\ KeywordsIn(lines[H]) # {} /\ detectDelimiter(lines[H]).delim = statement.delim
      /\ detectDelimiter(lines[H]).count >= 2
  BY <1>1 DEF PlainHeader, HeaderColumns
<1>3. Outdone(lines, H)
  BY DEF Outdone, NoDecoy, HeaderColumns
<1> HIDE DEF H
<1>4. findHeaderRow(lines) = Here(lines, H)
  BY <1>1, <1>2, <1>3, FindsHeader
<1>5. PICK i \in 1..Len(lines) :
        /\ findHeaderRow(lines) = Here(lines, i)
        /\ Seen.skipLines = i - 1 /\ Seen.delim = Here(lines, i).delim
  BY <1>1, NotOk, DetectedFacts DEF Seen
<1>6. Here(lines, i).row = i - 1 /\ Here(lines, H).row = H - 1
      /\ Here(lines, H).delim = detectDelimiter(lines[H]).delim
  BY <1>1, LineCounts
<1>7. Seen.skipLines = statement.header
  BY <1>1, <1>4, <1>5, <1>6 DEF H
<1>8. Seen.delim = statement.delim
  BY <1>2, <1>4, <1>5, <1>6
<1>9. QED
  BY <1>7, <1>8 DEF HeaderSeen

\* Whatever its lines, the analysis of a statement finds the header row and
\* the delimiter the bank wrote: its header has three columns and a keyword,
\* is among the first 21 lines, and no other keyword line has as many
\* delimiters or a dozen keywords (findHeaderRow).
THEOREM HeaderIsFound == Spec => []HeaderFound
<1>1. AnalysisInv => HeaderFound
  <2> SUFFICES ASSUME AnalysisInv, NEW u \in Users, reply[u].ok, PlainHeader, NoDecoy
               PROVE  HeaderSeen(reply[u].config)
    BY DEF HeaderFound
  <2>1. Seen.ok /\ reply[u].config = Seen
    BY NotOk DEF AnalysisInv, ReplyFrom
  <2>2. QED
    BY <2>1, HeaderIsSeen DEF AnalysisInv
<1>2. QED
  BY <1>1, AnalysisHolds, PTL

\* An import that sends the analysis back works on the analysis's own
\* header row, delimiter, headers and samples, also when the header is the
\* first line, where DetectConfigWithOptions searches again.
THEOREM EchoTakesSameConfig == Spec => []EchoAgrees
<1>1. AnalysisInv => EchoAgrees
  <2> SUFFICES ASSUME AnalysisInv, NEW u \in Users, IsEcho(u)
               PROVE  result.config = reply[u].config
    BY DEF EchoAgrees
  <2> DEFINE asked == result.asked
             row == HeaderRowIndex(asked, 0)
  <2>1. reply[u].ok /\ result.ok /\ result.headerRows = 0
        /\ asked = protoMappingToService(Echo(reply[u]), asked.dateFormat)
    BY DEF IsEcho
  <2>2. Seen.ok /\ reply[u].config = Seen
    BY <2>1, NotOk DEF AnalysisInv, ReplyFrom
  <2>3. result.config = DetectConfig(statement.lines, row, asked.delim)
    BY <2>1, NotOk DEF AnalysisInv, ResultFrom, Heading
  <2> HIDE DEF asked
  <2>4. asked.skipLines = Seen.skipLines /\ asked.delim = Seen.delim
    BY <2>1, <2>2, ServiceFields, EchoFields
  <2>5. Seen.skipLines \in Nat /\ statement.lines \in Seq(Lines)
    BY <2>2, SeenFacts, StatementFacts DEF AnalysisInv
  <2>6. row \in Int /\ (row = None \/ row = Seen.skipLines)
    BY <2>4, <2>5 DEF HeaderRowIndex, None
  <2> HIDE DEF row
  <2>7. DetectConfig(statement.lines, row, asked.delim) = Seen
    BY <2>2, <2>4, <2>5, <2>6, DetectedAgain DEF Seen
  <2>8. QED
    BY <2>2, <2>3, <2>7
<1>2. QED
  BY <1>1, AnalysisHolds, PTL

\* No mapping a client sends makes a worker of parseTransactionsStream index
\* a record out of range: every column it uses is one resolveMapping found
\* to be in the header, and parseRow looks at the record's length first.
THEOREM NeverOutOfRange == Spec => []NoPanic
<1>1. AnalysisInv => NoPanic
  BY NotOk DEF AnalysisInv, ResultFrom, NonePanics, NoPanic
<1>2. QED
  BY <1>1, AnalysisHolds, PTL

\* Once an analysis has offered a user's own mapping, every later one offers
\* that row: UNIQUE (fingerprint, user_id) keeps the user from adding another
\* and the lookup takes no other user's.
THEOREM MappingStays == Spec => LearnedMappingStays
<1> DEFINE Stays(u) == reply[u].ok /\ reply[u].mapping.ok /\ reply[u].mapping.user = u
                         => reply'[u].mapping = reply[u].mapping
<1>1. ASSUME AnalysisInv, [Next]_vars, NEW u \in Users PROVE Stays(u)
  <2> SUFFICES ASSUME reply[u].ok, reply[u].mapping.ok, reply[u].mapping.user = u
               PROVE  reply'[u].mapping = reply[u].mapping
    OBVIOUS
  <2>1. Own(u) # {} /\ reply[u].mapping = AnyOf(Own(u)) /\ Seen.ok
    BY <1>1, NotOk DEF AnalysisInv, OwnKept, ReplyFrom
  <2>2. ASSUME NEW w \in Users, AnalyzeCsvFile(w) PROVE reply'[u].mapping = reply[u].mapping
    <3>1. DOMAIN reply = Users /\ reply' = [reply EXCEPT ![w] = AnalyzeFile(w)]
      BY <1>1, <2>2 DEF AnalysisInv, AnalyzeCsvFile
    <3>2. CASE w # u
      BY <3>1, <3>2
    <3>3. CASE w = u
      <4>1. reply'[u] = AnalyzeFile(u)
        BY <3>1, <3>3
      <4>2. AnalyzeFile(u) = AnalyzeConfig(u, Seen)
        BY DEF AnalyzeFile, Seen, Detected
      <4>3. AnalyzeConfig(u, Seen).mapping = GetMappingByFingerprint(Seen.fingerprint, u)
        BY <2>1 DEF AnalyzeConfig, Analysis
      <4>4. QED
        BY <2>1, <4>1, <4>2, <4>3, OwnFirst
    <3>4. QED
      BY <3>2, <3>3
  <2>3. CASE \E w \in Users : SaveMapping(w) \/ ImportTransactionsCsv(w)
    BY <2>3 DEF SaveMapping, ImportTransactionsCsv
  <2>4. CASE UNCHANGED vars
    BY <2>4 DEF vars
  <2>5. QED
    BY <1>1, <2>2, <2>3, <2>4 DEF Next
<1>2. AnalysisInv /\ [Next]_vars =>
        [\A u \in Users :
           reply[u].ok /\ reply[u].mapping.ok /\ reply[u].mapping.user = u
             => reply'[u].mapping = reply[u].mapping]_vars
  BY <1>1
<1>3. QED
  BY <1>2, AnalysisHolds, PTL DEF Spec, LearnedMappingStays

-------------------------------------------------------------------------------
(* The records of a well-written file.  From the header on every line is   *)
(* one, so that the k-th record after the header is a line k plus the      *)
(* hidden ones below it.                                                   *)

Silent(lines, i) == lines[i].cells = <<>> \/ lines[i].cont
HiddenIn(lines, H) == Cardinality({i \in 1..H : Silent(lines, i)})
RecordsFrom(lines, H, d) == \A i \in H..Len(lines) : ~Silent(lines, i) /\ lines[i].delim = d
UpTo(lines, i) == {j \in Recorded(lines) : j <= i}

LEMMA CountUpTo ==
  ASSUME NEW n \in Nat
  PROVE  IsFiniteSet(1..n) /\ Cardinality(1..n) = n
<1>1. IsFiniteSet(1..n) /\ Cardinality(1..n) = IF 1 > n THEN 0 ELSE n - 1 + 1
  BY FS_Interval
<1>2. QED
  BY <1>1

LEMMA RecordsCounted ==
  ASSUME NEW lines \in Seq(Lines), NEW H \in 1..Len(lines), NEW d, RecordsFrom(lines, H, d),
         NEW i \in H..Len(lines)
  PROVE  /\ HiddenIn(lines, H) \in Nat /\ HiddenIn(lines, H) < H /\ i \in Recorded(lines)
         /\ Cardinality(UpTo(lines, i)) = i - HiddenIn(lines, H)
<1> DEFINE hidden == {j \in 1..H : Silent(lines, j)}
<1>1. Len(lines) \in Nat /\ H \in Nat /\ i \in Nat /\ DOMAIN lines = 1..Len(lines)
  OBVIOUS
<1>2. UpTo(lines, i) = (1..i) \ hidden /\ i \in Recorded(lines)
  BY <1>1 DEF UpTo, Recorded, Silent, RecordsFrom
<1>3. IsFiniteSet(1..i) /\ Cardinality(1..i) = i /\ (1..i) \cap hidden = hidden
  <2>1. IsFiniteSet(1..i) /\ Cardinality(1..i) = i
    BY <1>1, CountUpTo
  <2>2. (1..i) \cap hidden = hidden
    BY <1>1
  <2>3. QED
    BY <2>1, <2>2
<1>4. Cardinality((1..i) \ hidden) = i - Cardinality(hidden)
  BY <1>3, FS_Difference
<1>5. hidden \subseteq 1..(H-1)
  BY <1>1 DEF RecordsFrom
<1>6. IsFiniteSet(1..(H-1)) /\ Cardinality(1..(H-1)) = H - 1
  BY <1>1, CountUpTo
<1>7. Cardinality(hidden) \in Nat /\ Cardinality(hidden) <= H - 1
  BY <1>5, <1>6, FS_Subset, FS_CardinalityType
<1>8. QED
  BY <1>1, <1>2, <1>4, <1>7 DEF HiddenIn

LEMMA RecordsAligned ==
  ASSUME NEW lines \in Seq(Lines), NEW H \in 1..Len(lines), NEW d, RecordsFrom(lines, H, d)
  PROVE  /\ HiddenIn(lines, H) \in Nat /\ HiddenIn(lines, H) < H
         /\ Records(lines, d) \in Seq({Records(lines, d)[k] : k \in DOMAIN Records(lines, d)})
         /\ Len(Records(lines, d)) = Len(lines) - HiddenIn(lines, H)
         /\ \A i \in H..Len(lines) : Records(lines, d)[i - HiddenIn(lines, H)] = lines[i].cells
<1> DEFINE at == Recorded(lines)
           h == HiddenIn(lines, H)
           n == Len(lines)
<1>1. n \in Nat /\ H \in Nat /\ H <= n /\ at \subseteq 1..n /\ H \in H..n /\ n \in H..n
  BY DEF Recorded
<1>2. h \in Nat /\ h < H
  BY <1>1, RecordsCounted
<1>3. IsFiniteSet(at)
  BY <1>1, RangeFinite, FS_Subset
<1>4. Cardinality(at) = n - h
  <2>1. UpTo(lines, n) = at
    BY <1>1 DEF UpTo
  <2>2. QED
    BY <1>1, <2>1, RecordsCounted
<1>5. ASSUME NEW i \in at, NEW j \in at, i < j PROVE Cardinality(UpTo(lines, i)) # Cardinality(UpTo(lines, j))
  <2>1. UpTo(lines, i) \subseteq UpTo(lines, j) /\ j \in UpTo(lines, j) /\ j \notin UpTo(lines, i)
    BY <1>1, <1>5 DEF UpTo
  <2>2. IsFiniteSet(UpTo(lines, j))
    BY <1>3, FS_Subset DEF UpTo
  <2>3. QED
    BY <2>1, <2>2, FS_Subset
<1>6. ASSUME NEW i \in H..n PROVE Nth(at, i - h) = i
  <2>1. i \in at /\ Cardinality(UpTo(lines, i)) = i - h
    BY RecordsCounted
  <2>2. \A j \in at : Cardinality(UpTo(lines, j)) = i - h => j = i
    <3>1. \A j \in at : j \in Int /\ i \in Int
      BY <1>1
    <3>2. QED
      BY <1>5, <2>1, <3>1
  <2>3. Nth(at, i - h) = CHOOSE j \in at : Cardinality(UpTo(lines, j)) = i - h
    BY DEF Nth, UpTo
  <2>4. QED
    BY <2>1, <2>2, <2>3
<1>7. Records(lines, d) = [k \in 1..(n - h) |-> Split(lines[Nth(at, k)], d)]
  BY <1>4 DEF Records
<1> HIDE DEF at, h, n
<1>8. ASSUME NEW i \in H..n PROVE Records(lines, d)[i - h] = lines[i].cells
  <2>1. i - h \in 1..(n - h)
    BY <1>1, <1>2
  <2>2. Records(lines, d)[i - h] = Split(lines[i], d)
    BY <1>6, <1>7, <2>1
  <2>3. lines[i].delim = d
    BY <1>8 DEF RecordsFrom, n
  <2>4. QED
    BY <2>2, <2>3 DEF Split
<1>9. n - h \in Nat
  BY <1>1, <1>2
<1>10. Records(lines, d) \in Seq({Records(lines, d)[k] : k \in DOMAIN Records(lines, d)}) /\ Len(Records(lines, d)) = n - h
  BY <1>7, <1>9
<1>11. QED
  BY <1>2, <1>8, <1>10 DEF h, n

-------------------------------------------------------------------------------
(* The digits of an amount.                                                *)

Runs == [n : Nat, w : Nat]

LEMMA RunFacts ==
  ASSUME NEW nums \in Seq(Runs)
  PROVE  /\ Len(nums) \in Nat /\ DOMAIN nums = 1..Len(nums)
         /\ \A i \in 1..Len(nums) : nums[i].n \in Int /\ nums[i].w \in Int /\ 10^nums[i].w \in Int
<1>1. \A i \in 1..Len(nums) : nums[i] \in Runs
  OBVIOUS
<1>2. \A w \in Nat : 10^w \in Int
  OBVIOUS
<1>3. \A i \in 1..Len(nums) : nums[i].n \in Nat /\ nums[i].w \in Nat
  BY <1>1 DEF Runs
<1>4. QED
  BY <1>2, <1>3

LEMMA DigitsAdd ==
  ASSUME NEW nums \in Seq(Runs)
  PROVE  \E h : /\ h \in [0..Len(nums) -> Int] /\ h[0] = 0 /\ h[Len(nums)] = Digits(nums)
                /\ \A k \in 1..Len(nums) : h[k] = h[k-1] * 10^nums[k].w + nums[k].n
<1> DEFINE n == Len(nums)
           next(acc, i) == acc * 10^nums[i].w + nums[i].n
           Here1(g) == [s \in SUBSET (1..n) |-> IF s = {} THEN 0 ELSE next(g[s \ {Max(s)}], Max(s))]
           F == [x \in Int \X (1..n) |-> next(x[1], x[2])]
<1>1. n \in Nat /\ DOMAIN nums = 1..n
  BY RunFacts
<1>2. \A acc \in Int, i \in 1..n : next(acc, i) \in Int
  <2> SUFFICES ASSUME NEW acc \in Int, NEW i \in 1..n PROVE next(acc, i) \in Int
    OBVIOUS
  <2>1. nums[i].n \in Int /\ 10^nums[i].w \in Int
    BY RunFacts
  <2>2. \A p, q, r \in Int : p * q + r \in Int
    OBVIOUS
  <2>3. QED
    BY <2>1, <2>2
<1>3. Digits(nums) = (CHOOSE g : g = Here1(g))[1..n]
  BY <1>1 DEF Digits, FoldLeft, MapThenFoldSet
<1> HIDE DEF n, next
<1>4. F \in [Int \X (1..n) -> Int] /\ \A v \in Int, i \in 1..n : F[<<v, i>>] = next(v, i)
  BY <1>2
<1> HIDE DEF F
<1>5. IsStep(n, Int, 0, F)
  BY <1>1, <1>4 DEF IsStep
<1>6. \E g : g = Here1(g)
  <2>1. PICK g : Folded(n, Int, 0, F, g)
    BY <1>5, FoldExists
  <2>2. \A s \in SUBSET (1..n) : s # {} => Max(s) \in 1..n /\ g[s \ {Max(s)}] \in Int
    BY <1>1, <2>1, MaxIsElement DEF Folded
  <2>3. \A s \in SUBSET (1..n) : s # {} => g[s] = next(g[s \ {Max(s)}], Max(s))
    BY <1>4, <2>1, <2>2 DEF Folded
  <2>4. \A s \in SUBSET (1..n) : g[s] = Here1(g)[s]
    BY <2>1, <2>3 DEF Folded
  <2>5. g = Here1(g)
    BY <2>1, <2>4 DEF Folded
  <2>6. QED
    BY <2>5
<1>7. PICK g : g = Here1(g) /\ Digits(nums) = g[1..n]
  BY <1>3, <1>6
<1>8. FoldsInside(n, Int, 0, F, g)
  <2>1. \A s \in SUBSET (1..n) : g[s] = IF s = {} THEN 0 ELSE next(g[s \ {Max(s)}], Max(s))
    BY <1>7
  <2>2. \A s \in SUBSET (1..n) : s # {} /\ g[s \ {Max(s)}] \in Int => g[s] = F[<<g[s \ {Max(s)}], Max(s)>>]
    BY <1>1, <1>4, <2>1, MaxIsElement
  <2>3. g[{}] = 0
    BY <2>1
  <2>4. QED
    BY <2>2, <2>3 DEF FoldsInside
<1>9. PICK h : Passes(n, Int, 0, F, g, h)
  BY <1>5, <1>8, FoldRuns
<1>10. \A k \in 1..n : h[k] = next(h[k-1], k)
  <2>1. \A k \in 1..n : k - 1 \in 0..n
    BY <1>1
  <2>2. QED
    BY <1>4, <1>9, <2>1 DEF Passes
<1>11. QED
  BY <1>7, <1>9, <1>10 DEF Passes, n, next

\* The digits of some runs and one more.
LEMMA DigitsAppend ==
  ASSUME NEW nums \in Seq(Runs), NEW z \in Runs
  PROVE  Digits(Append(nums, z)) = Digits(nums) * 10^z.w + z.n /\ Digits(nums) \in Int
<1> DEFINE n == Len(nums)
           more == Append(nums, z)
<1>1. n \in Nat /\ more \in Seq(Runs) /\ Len(more) = n + 1 /\ more[n + 1] = z
      /\ \A k \in 1..n : more[k] = nums[k]
  BY RunFacts
<1>2. PICK h : /\ h \in [0..n -> Int] /\ h[0] = 0 /\ h[n] = Digits(nums)
               /\ \A k \in 1..n : h[k] = h[k-1] * 10^nums[k].w + nums[k].n
  BY DigitsAdd
<1> HIDE DEF more
<1>3. PICK f : /\ f \in [0..(n+1) -> Int] /\ f[0] = 0 /\ f[n+1] = Digits(more)
               /\ \A k \in 1..(n+1) : f[k] = f[k-1] * 10^more[k].w + more[k].n
  <2>1. Len(more) = n + 1
    BY <1>1
  <2>2. \E f : /\ f \in [0..Len(more) -> Int] /\ f[0] = 0 /\ f[Len(more)] = Digits(more)
               /\ \A k \in 1..Len(more) : f[k] = f[k-1] * 10^more[k].w + more[k].n
    BY <1>1, DigitsAdd
  <2> HIDE DEF n
  <2>3. QED
    BY <2>1, <2>2, Zenon
<1> HIDE DEF n
<1> DEFINE Bad == {k \in 0..n : f[k] # h[k]}
<1>4. Bad = {}
  <2> SUFFICES ASSUME Bad # {} PROVE FALSE
    OBVIOUS
  <2>1. PICK k \in Bad : \A m \in Bad : k <= m
    <3>1. Bad \subseteq Nat
      BY <1>1
    <3> HIDE DEF Bad
    <3>2. QED
      BY <3>1, LeastNatural
  <2>2. k # 0
    BY <1>2, <1>3
  <2>3. k \in 1..n /\ k - 1 \in 0..n /\ k - 1 \notin Bad /\ k \in 1..(n+1)
    BY <1>1, <2>1, <2>2
  <2>4. f[k-1] = h[k-1] /\ more[k] = nums[k]
    BY <1>1, <2>3
  <2>5. f[k] = f[k-1] * 10^more[k].w + more[k].n /\ h[k] = h[k-1] * 10^nums[k].w + nums[k].n
    BY <1>2, <1>3, <2>3
  <2>6. f[k] = h[k]
    BY <2>4, <2>5
  <2>7. QED
    BY <2>1, <2>6
<1>5. n \in 0..n /\ n + 1 \in 1..(n+1) /\ (n + 1) - 1 = n
  BY <1>1
<1>6. f[n] = h[n] /\ f[n+1] = f[n] * 10^z.w + z.n
  BY <1>1, <1>3, <1>4, <1>5
<1>7. QED
  BY <1>2, <1>3, <1>5, <1>6 DEF more

LEMMA DigitsOf ==
  /\ \A a \in Runs : Digits(<<a>>) = a.n
  /\ \A a, b \in Runs : Digits(<<a, b>>) = a.n * 10^b.w + b.n
  /\ \A a, b, c \in Runs : Digits(<<a, b, c>>) = (a.n * 10^b.w + b.n) * 10^c.w + c.n
<1>1. Digits(<<>>) = 0
  <2>1. <<>> \in Seq(Runs) /\ Len(<<>>) = 0
    OBVIOUS
  <2>2. QED
    BY <2>1, DigitsAdd
<1>2. ASSUME NEW a \in Runs PROVE Digits(<<a>>) = a.n
  <2>1. <<a>> = Append(<<>>, a) /\ <<>> \in Seq(Runs)
    OBVIOUS
  <2>2. Digits(<<a>>) = 0 * 10^a.w + a.n
    BY <1>1, <2>1, DigitsAppend
  <2>3. a.n \in Int /\ 10^a.w \in Int
    <3>1. \A w \in Nat : 10^w \in Int
      OBVIOUS
    <3>2. QED
      BY <3>1 DEF Runs
  <2>4. \A p, q \in Int : 0 * p + q = q
    OBVIOUS
  <2>5. QED
    BY <2>2, <2>3, <2>4
<1>3. ASSUME NEW a \in Runs, NEW b \in Runs PROVE Digits(<<a, b>>) = a.n * 10^b.w + b.n
  <2>1. <<a, b>> = Append(<<a>>, b) /\ <<a>> \in Seq(Runs)
    OBVIOUS
  <2>2. QED
    BY <1>2, <2>1, DigitsAppend
<1>4. ASSUME NEW a \in Runs, NEW b \in Runs, NEW c \in Runs
      PROVE  Digits(<<a, b, c>>) = (a.n * 10^b.w + b.n) * 10^c.w + c.n
  <2>1. <<a, b, c>> = Append(<<a, b>>, c) /\ <<a, b>> \in Seq(Runs)
    OBVIOUS
  <2>2. QED
    BY <1>3, <2>1, DigitsAppend
<1>5. QED
  BY <1>2, <1>3, <1>4

\* The same for their number, of which only short ones are needed.
LEMMA WidthOfRun ==
  /\ Width(<<>>) = 0
  /\ \A a \in Runs : Width(<<a>>) = a.w
<1>1. Width(<<>>) = 0
  <2> DEFINE Here1(g) == [s \in SUBSET (1..0) |-> IF s = {} THEN 0 ELSE g[s \ {Max(s)}] + <<>>[Max(s)].w]
  <2>1. Width(<<>>) = (CHOOSE g : g = Here1(g))[1..0]
    BY DEF Width, FoldLeft, MapThenFoldSet
  <2>2. SUBSET (1..0) = {{}} /\ 1..0 = {}
    OBVIOUS
  <2>3. \E g : g = Here1(g)
    <3>1. [s \in SUBSET (1..0) |-> 0] = Here1([s \in SUBSET (1..0) |-> 0])
      BY <2>2
    <3>2. QED
      BY <3>1
  <2>4. PICK g : g = Here1(g) /\ Width(<<>>) = g[1..0]
    BY <2>1, <2>3
  <2>5. QED
    BY <2>2, <2>4
<1>2. ASSUME NEW a \in Runs PROVE Width(<<a>>) = a.w
  <2> DEFINE Here1(g) == [s \in SUBSET (1..1) |-> IF s = {} THEN 0 ELSE g[s \ {Max(s)}] + <<a>>[Max(s)].w]
  <2>1. Width(<<a>>) = (CHOOSE g : g = Here1(g))[1..1]
    BY DEF Width, FoldLeft, MapThenFoldSet
  <2>2. 1..1 = {1} /\ \A s \in SUBSET (1..1) : s = {} \/ s = {1}
    <3>1. 1..1 = {1}
      OBVIOUS
    <3>2. \A s \in SUBSET {1} : s = {} \/ s = {1}
      OBVIOUS
    <3>3. QED
      BY <3>1, <3>2
  <2>3. Max({1}) = 1 /\ {1} \ {1} = {} /\ <<a>>[1] = a /\ a.w \in Int
    <3>1. Max({1}) = 1
      BY <2>2, MaxOfRange
    <3>2. QED
      BY <3>1 DEF Runs
  <2> DEFINE f == [s \in SUBSET (1..1) |-> IF s = {} THEN 0 ELSE a.w]
  <2>4. f = Here1(f)
    <3>1. \A s \in SUBSET (1..1) : f[s] = Here1(f)[s]
      <4>1. f[{}] = 0 /\ f[{1}] = a.w
        BY <2>2
      <4> HIDE DEF f
      <4>2. Here1(f)[{}] = 0 /\ Here1(f)[{1}] = f[{}] + a.w
        BY <2>2, <2>3
      <4> HIDE DEF Here1
      <4>3. f[{}] = Here1(f)[{}] /\ f[{1}] = Here1(f)[{1}]
        BY <2>3, <4>1, <4>2
      <4>4. QED
        BY <2>2, <4>3
    <3>2. QED
      BY <3>1
  <2>5. PICK g : g = Here1(g) /\ Width(<<a>>) = g[1..1]
    BY <2>1, <2>4
  <2>6. g[{}] = 0 /\ g[{1}] = g[{}] + a.w
    <3>1. {} \in SUBSET (1..1) /\ {1} \in SUBSET (1..1)
      BY <2>2
    <3>2. QED
      BY <2>3, <2>5, <3>1
  <2>7. QED
    BY <2>2, <2>3, <2>5, <2>6
<1>3. QED
  BY <1>1, <1>2

-------------------------------------------------------------------------------
(* The texts of an amount.                                                 *)

LEMMA Thousandths ==
  ASSUME NEW n \in Nat
  PROVE  /\ n \div 1000 \in Nat /\ (n % 1000) \in Nat /\ (n \div 1000) * 1000 + (n % 1000) = n
         /\ n \div Million = (n \div 1000) \div 1000
  BY SMT DEF Million

\* The groups of a number add up to it.
Ungrouped(g, units) == \E w \in Nat : g = << <<Run(units, w)>>, <<>> >>
OneComma(g, units, comma) ==
  \E w, a, b \in Nat : a * 1000 + b = units /\ g = << <<Run(a, w), Run(b, 3)>>, <<comma>> >>
TwoCommas(g, units, comma) ==
  \E w, a, b, c \in Nat : /\ (a * 1000 + b) * 1000 + c = units
                          /\ g = << <<Run(a, w), Run(b, 3), Run(c, 3)>>, <<comma, comma>> >>

LEMMA GroupsOf ==
  ASSUME NEW units \in Nat, NEW comma, NEW g \in Grouped(units, comma)
  PROVE  \/ Ungrouped(g, units)
         \/ OneComma(g, units, comma)
         \/ units >= Million /\ TwoCommas(g, units, comma)
<1>1. CASE \E w \in 1..9 : g = << <<Run(units, w)>>, <<>> >>
  BY <1>1 DEF Ungrouped
<1>2. ASSUME NEW w \in 1..6, g = << <<Run(units \div 1000, w), Run(units % 1000, 3)>>, <<comma>> >>
      PROVE  OneComma(g, units, comma)
  <2>1. units \div 1000 \in Nat /\ (units % 1000) \in Nat /\ (units \div 1000) * 1000 + (units % 1000) = units
    BY Thousandths
  <2>2. w \in Nat
    OBVIOUS
  <2>3. QED
    BY <1>2, <2>1, <2>2 DEF OneComma
<1>3. ASSUME units >= Million, NEW w \in 1..3,
             g = << <<Run(units \div Million, w), Run((units \div 1000) % 1000, 3), Run(units % 1000, 3)>>,
                    <<comma, comma>> >>
      PROVE  TwoCommas(g, units, comma)
  <2> DEFINE k == units \div 1000
             a == units \div Million
             b == k % 1000
             c == units % 1000
  <2>1. k \in Nat /\ c \in Nat /\ k * 1000 + c = units
    BY Thousandths
  <2>2. a \in Nat /\ b \in Nat /\ a * 1000 + b = k
    <3>1. a = k \div 1000
      BY Thousandths
    <3> HIDE DEF k, a
    <3>2. QED
      BY <2>1, <3>1, Thousandths
  <2>3. g = << <<Run(a, w), Run(b, 3), Run(c, 3)>>, <<comma, comma>> >>
    BY <1>3
  <2> HIDE DEF a, b, c
  <2>4. (a * 1000 + b) * 1000 + c = units /\ w \in Nat
    BY <2>1, <2>2
  <2>5. QED
    BY <2>1, <2>2, <2>3, <2>4 DEF TwoCommas
<1>4. \/ \E w \in 1..9 : g = << <<Run(units, w)>>, <<>> >>
      \/ \E w \in 1..6 : g = << <<Run(units \div 1000, w), Run(units % 1000, 3)>>, <<comma>> >>
      \/ /\ units >= Million
         /\ \E w \in 1..3 : g = << <<Run(units \div Million, w), Run((units \div 1000) % 1000, 3), Run(units % 1000, 3)>>,
                    <<comma, comma>> >>
  <2> DEFINE A == { << <<Run(units, w)>>, <<>> >> : w \in 1..9 }
             B == { << <<Run(units \div 1000, w), Run(units % 1000, 3)>>, <<comma>> >> : w \in 1..6 }
             C == { << <<Run(units \div Million, w), Run((units \div 1000) % 1000, 3), Run(units % 1000, 3)>>,
                       <<comma, comma>> >> : w \in 1..3 }
  <2>1. g \in A \/ g \in B \/ (units >= Million /\ g \in C)
    <3> HIDE DEF A, B, C
    <3>1. g \in A \cup (IF units < 1000 THEN {} ELSE B) \cup (IF units < Million THEN {} ELSE C)
      BY DEF Grouped, A, B, C
    <3>2. Million \in Nat
      BY DEF Million
    <3>3. QED
      BY <3>1, <3>2
  <2>2. QED
    BY <2>1
<1>5. QED
  BY <1>1, <1>2, <1>3, <1>4

LEMMA PowersOfTen == 10^2 = 100 /\ 10^3 = 1000 /\ 10^0 = 1
  OBVIOUS

LEMMA RunIs ==
  ASSUME NEW n \in Nat, NEW w \in Nat
  PROVE  Run(n, w) \in Runs /\ Run(n, w).n = n /\ Run(n, w).w = w
  BY DEF Run, Runs

\* Digit runs and one separator less.
Seps == {",", "."}
Paired(nums, seps) ==
  /\ nums \in Seq(Runs) /\ seps \in Seq(Seps) /\ Len(nums) = Len(seps) + 1

LEMMA SeqFacts ==
  ASSUME NEW S, NEW s \in Seq(S)
  PROVE  /\ Len(s) \in Nat /\ DOMAIN s = 1..Len(s) /\ (Len(s) > 0 => s # <<>>)
         /\ \A i \in 1..Len(s) : s[i] \in S
  OBVIOUS

LEMMA AppendFacts ==
  ASSUME NEW S, NEW s \in Seq(S), NEW e \in S
  PROVE  /\ Append(s, e) \in Seq(S) /\ Len(Append(s, e)) = Len(s) + 1 /\ Append(s, e)[Len(s) + 1] = e
         /\ \A i \in 1..Len(s) : Append(s, e)[i] = s[i]
  OBVIOUS

LEMMA ShortPairs ==
  ASSUME NEW sep \in Seps, NEW a \in Runs, NEW b \in Runs, NEW c \in Runs
  PROVE  /\ Paired(<<a>>, <<>>) /\ Paired(<<a, b>>, <<sep>>) /\ Paired(<<a, b, c>>, <<sep, sep>>)
         /\ Len(<<>>) = 0 /\ Len(<<sep>>) = 1 /\ Len(<<sep, sep>>) = 2
         /\ \A i \in 1..1 : <<sep>>[i] = sep
         /\ \A i \in 1..2 : <<sep, sep>>[i] = sep
<1>1. Paired(<<a>>, <<>>) /\ Paired(<<a, b>>, <<sep>>) /\ Paired(<<a, b, c>>, <<sep, sep>>)
  BY DEF Paired
<1>2. Len(<<>>) = 0 /\ Len(<<sep>>) = 1 /\ Len(<<sep, sep>>) = 2
  OBVIOUS
<1>3. \A i \in 1..1 : <<sep>>[i] = sep
  OBVIOUS
<1>4. \A i \in 1..2 : <<sep, sep>>[i] = sep
  <2>1. <<sep, sep>>[1] = sep /\ <<sep, sep>>[2] = sep /\ \A i \in 1..2 : i = 1 \/ i = 2
    OBVIOUS
  <2>2. QED
    BY <2>1
<1>5. QED
  BY <1>1, <1>2, <1>3, <1>4

LEMMA GroupShape ==
  ASSUME NEW units \in Nat, NEW comma \in Seps, NEW g \in Grouped(units, comma)
  PROVE  /\ Paired(g[1], g[2]) /\ Len(g[2]) <= 2 /\ (Len(g[2]) = 2 => units >= Million)
         /\ Digits(g[1]) = units /\ \A i \in 1..Len(g[2]) : g[2][i] = comma
<1>1. CASE Ungrouped(g, units)
  <2>1. PICK w \in Nat : g = << <<Run(units, w)>>, <<>> >>
    BY <1>1 DEF Ungrouped
  <2> DEFINE a == Run(units, w)
  <2>2. a \in Runs /\ a.n = units
    BY RunIs
  <2> HIDE DEF a
  <2>3. g[1] = <<a>> /\ g[2] = <<>>
    BY <2>1 DEF a
  <2>4. Digits(<<a>>) = units
    BY <2>2, DigitsOf
  <2>5. Paired(<<a>>, <<>>) /\ Len(<<>>) = 0
    BY <2>2, ShortPairs
  <2>6. QED
    BY <2>3, <2>4, <2>5
<1>2. CASE OneComma(g, units, comma)
  <2>1. PICK w, n, m \in Nat : n * 1000 + m = units /\ g = << <<Run(n, w), Run(m, 3)>>, <<comma>> >>
    BY <1>2 DEF OneComma
  <2> DEFINE a == Run(n, w)
             b == Run(m, 3)
  <2>2. a \in Runs /\ b \in Runs /\ a.n = n /\ b.n = m /\ b.w = 3
    <3>1. n \in Nat /\ w \in Nat /\ m \in Nat /\ 3 \in Nat
      BY <2>1
    <3>2. a \in Runs /\ a.n = n
      BY <3>1, RunIs
    <3>3. b \in Runs /\ b.n = m /\ b.w = 3
      BY <3>1, RunIs
    <3>4. QED
      BY <3>2, <3>3
  <2> HIDE DEF a, b
  <2>3. g[1] = <<a, b>> /\ g[2] = <<comma>>
    BY <2>1 DEF a, b
  <2>4. Digits(<<a, b>>) = units
    <3>1. Digits(<<a, b>>) = a.n * 10^b.w + b.n
      BY <2>2, DigitsOf
    <3>2. 10^b.w = 1000
      BY <2>2, PowersOfTen
    <3>3. QED
      BY <2>1, <2>2, <3>1, <3>2
  <2>5. Paired(<<a, b>>, <<comma>>) /\ Len(<<comma>>) = 1 /\ \A i \in 1..1 : <<comma>>[i] = comma
    BY <2>2, ShortPairs
  <2>6. QED
    BY <2>3, <2>4, <2>5
<1>3. CASE units >= Million /\ TwoCommas(g, units, comma)
  <2>1. PICK w, n, m, k \in Nat :
          /\ (n * 1000 + m) * 1000 + k = units
          /\ g = << <<Run(n, w), Run(m, 3), Run(k, 3)>>, <<comma, comma>> >>
    BY <1>3 DEF TwoCommas
  <2> DEFINE a == Run(n, w)
             b == Run(m, 3)
             d == Run(k, 3)
  <2>2. a \in Runs /\ b \in Runs /\ d \in Runs /\ a.n = n /\ b.n = m /\ b.w = 3 /\ d.n = k /\ d.w = 3
    <3>1. n \in Nat /\ w \in Nat /\ m \in Nat /\ k \in Nat /\ 3 \in Nat
      BY <2>1
    <3>2. a \in Runs /\ a.n = n
      BY <3>1, RunIs
    <3>3. b \in Runs /\ b.n = m /\ b.w = 3
      BY <3>1, RunIs
    <3>4. d \in Runs /\ d.n = k /\ d.w = 3
      BY <3>1, RunIs
    <3>5. QED
      BY <3>2, <3>3, <3>4
  <2> HIDE DEF a, b, d
  <2>3. g[1] = <<a, b, d>> /\ g[2] = <<comma, comma>>
    BY <2>1 DEF a, b, d
  <2>4. Digits(<<a, b, d>>) = units
    <3>1. Digits(<<a, b, d>>) = (a.n * 10^b.w + b.n) * 10^d.w + d.n
      BY <2>2, DigitsOf
    <3>2. 10^b.w = 1000 /\ 10^d.w = 1000
      <4>1. b.w = 3 /\ d.w = 3
        BY <2>2
      <4>2. 10^b.w = 10^3 /\ 10^d.w = 10^3
        BY <4>1, Zenon
      <4>3. QED
        BY <4>2, PowersOfTen
    <3>3. Digits(<<a, b, d>>) = (a.n * 1000 + b.n) * 1000 + d.n
      BY <3>1, <3>2
    <3>4. QED
      BY <2>1, <2>2, <3>3
  <2>5. Paired(<<a, b, d>>, <<comma, comma>>) /\ Len(<<comma, comma>>) = 2
        /\ \A i \in 1..2 : <<comma, comma>>[i] = comma
    BY <2>2, ShortPairs
  <2>6. QED
    BY <1>3, <2>3, <2>4, <2>5
<1>4. QED
  BY <1>1, <1>2, <1>3, GroupsOf

\* The text of an amount: its separators, its digits, and what is behind the
\* decimal point.
ShowsCents(c, cents, s) ==
  /\ Len(c.seps) >= 1 /\ Digits(c.nums) = Magnitude(cents)
  /\ c.seps[Len(c.seps)] = DecimalPoint(s.european) /\ c.nums[Len(c.nums)] \in Runs /\ c.nums[Len(c.nums)].w = 2
  /\ \A i \in 1..(Len(c.seps) - 1) : c.seps[i] = Thousands(s)
ShowsUnits(c, cents, s) ==
  /\ Digits(c.nums) = Magnitude(cents) \div 100
  /\ \A i \in 1..Len(c.seps) : c.seps[i] = Thousands(s)
  /\ Len(c.seps) <= 2 /\ (Len(c.seps) = 2 => Magnitude(cents) \div 100 >= Million)

LEMMA Hundredths ==
  ASSUME NEW cents \in Int
  PROVE  /\ Magnitude(cents) \in Nat /\ Magnitude(cents) \div 100 \in Nat /\ (Magnitude(cents) % 100) \in Nat
         /\ (Magnitude(cents) \div 100) * 100 + (Magnitude(cents) % 100) = Magnitude(cents)
<1>1. Magnitude(cents) \in Nat
  BY DEF Magnitude
<1>2. \A m \in Nat : m \div 100 \in Nat /\ (m % 100) \in Nat /\ (m \div 100) * 100 + (m % 100) = m
  OBVIOUS
<1>3. QED
  BY <1>1, <1>2

Wordless(c) == c.word = ""

LEMMA AmountShape ==
  ASSUME NEW cents \in Int, NEW s, NEW c \in AmountTexts(cents, s)
  PROVE  /\ Wordless(c) /\ (c.neg <=> cents < 0) /\ Paired(c.nums, c.seps)
         /\ s.cents => ShowsCents(c, cents, s)
         /\ ~s.cents => ShowsUnits(c, cents, s)
<1> DEFINE units == Magnitude(cents) \div 100
           part == Magnitude(cents) % 100
           comma == Thousands(s)
           point == DecimalPoint(s.european)
           z == Run(part, 2)
<1>1. units \in Nat /\ part \in Nat /\ units * 100 + part = Magnitude(cents)
  BY Hundredths
<1>2. PICK g \in Grouped(units, comma) :
        c = IF s.cents THEN Cell("", cents < 0, Append(g[1], z), Append(g[2], point))
            ELSE Cell("", cents < 0, g[1], g[2])
  BY DEF AmountTexts
<1>3. comma \in Seps /\ point \in Seps
  BY DEF Thousands, DecimalPoint, Seps
<1> HIDE DEF units, part, comma, point
<1>4. z \in Runs /\ z.n = part /\ z.w = 2
  BY <1>1, RunIs
<1> HIDE DEF z
<1>5. /\ Paired(g[1], g[2]) /\ Len(g[2]) <= 2 /\ (Len(g[2]) = 2 => units >= Million)
      /\ Digits(g[1]) = units /\ \A i \in 1..Len(g[2]) : g[2][i] = comma
  BY <1>1, <1>3, GroupShape
<1>6. CASE s.cents
  <2>1. Wordless(c) /\ (c.neg <=> cents < 0) /\ c.nums = Append(g[1], z) /\ c.seps = Append(g[2], point)
    <3>1. c = Cell("", cents < 0, Append(g[1], z), Append(g[2], point))
      BY <1>2, <1>6
    <3>2. QED
      BY <3>1 DEF Cell, Wordless
  <2> DEFINE nums == Append(g[1], z)
             seps == Append(g[2], point)
  <2>2. g[1] \in Seq(Runs) /\ g[2] \in Seq(Seps) /\ Len(g[1]) = Len(g[2]) + 1 /\ Len(g[2]) \in Nat
    BY <1>5, SeqFacts DEF Paired
  <2> HIDE DEF nums, seps
  <2>3. nums \in Seq(Runs) /\ Len(nums) = Len(g[1]) + 1 /\ nums[Len(nums)] = z
    BY <1>4, <2>2, AppendFacts DEF nums
  <2>4. seps \in Seq(Seps) /\ Len(seps) = Len(g[2]) + 1 /\ seps[Len(seps)] = point
    BY <1>3, <2>2, AppendFacts DEF seps
  <2>5. \A i \in 1..(Len(seps) - 1) : seps[i] = comma
    <3>1. \A i \in 1..Len(g[2]) : seps[i] = g[2][i]
      BY <1>3, <2>2, AppendFacts DEF seps
    <3>2. Len(seps) - 1 = Len(g[2])
      BY <2>2, <2>4
    <3>3. QED
      BY <1>5, <3>1, <3>2
  <2>6. Digits(nums) = Magnitude(cents)
    <3>1. Digits(nums) = Digits(g[1]) * 10^z.w + z.n
      BY <1>4, <2>2, DigitsAppend DEF nums
    <3>2. 10^z.w = 100
      BY <1>4, PowersOfTen
    <3>3. QED
      BY <1>1, <1>4, <1>5, <3>1, <3>2
  <2>7. Paired(nums, seps) /\ Len(seps) >= 1
    BY <2>2, <2>3, <2>4 DEF Paired
  <2>8. c.nums = nums /\ c.seps = seps
    BY <2>1 DEF nums, seps
  <2>9. ShowsCents(c, cents, s)
    BY <1>4, <2>3, <2>4, <2>5, <2>6, <2>7, <2>8 DEF ShowsCents, comma, point
  <2>10. QED
    BY <1>6, <2>1, <2>7, <2>8, <2>9
<1>7. CASE ~s.cents
  <2>1. Wordless(c) /\ (c.neg <=> cents < 0) /\ c.nums = g[1] /\ c.seps = g[2]
    <3>1. c = Cell("", cents < 0, g[1], g[2])
      BY <1>2, <1>7
    <3>2. QED
      BY <3>1 DEF Cell, Wordless
  <2>2. ShowsUnits(c, cents, s)
    BY <1>5, <2>1 DEF ShowsUnits, comma, units
  <2>3. QED
    BY <1>5, <1>7, <2>1, <2>2
<1>8. QED
  BY <1>6, <1>7

LEMMA CentsShape ==
  ASSUME NEW cents \in Int, NEW s, NEW c \in AmountTexts(cents, s), s.cents
  PROVE  ShowsCents(c, cents, s)
  BY AmountShape

-------------------------------------------------------------------------------
(* An amount is read back as it was written.                               *)

LEMMA RoundsExactly ==
  ASSUME NEW n \in Nat
  PROVE  RoundDiv(n * 100, 100) = n /\ RoundDiv(n * 100, 1) = n * 100
<1>1. (2 * (n * 100) + 100) \div (2 * 100) = n
  OBVIOUS
<1>2. (2 * (n * 100) + 1) \div (2 * 1) = n * 100
  OBVIOUS
<1>3. QED
  BY <1>1, <1>2 DEF RoundDiv

LEMMA TwoPoints ==
  ASSUME NEW s
  PROVE  /\ DecimalPoint(s.european) \in Seps /\ Thousands(s) \in Seps
         /\ DecimalPoint(s.european) # Thousands(s)
         /\ \A e \in Seps : e # "-"
  BY DEF DecimalPoint, Thousands, Seps

\* The last of the digit runs, behind the last separator.
LEMMA LastRun ==
  ASSUME NEW nums, NEW seps, Paired(nums, seps)
  PROVE  SubSeq(nums, Len(seps) + 1, Len(nums)) = << nums[Len(nums)] >>
<1>1. Len(seps) \in Nat /\ Len(nums) = Len(seps) + 1 /\ nums \in Seq(Runs)
  BY SeqFacts DEF Paired
<1>2. SubSeq(nums, Len(nums), Len(nums)) = << nums[Len(nums)] >>
  <2> DEFINE n == Len(nums)
             last == SubSeq(nums, n, n)
  <2>1. n \in Nat /\ n >= 1
    BY <1>1
  <2> HIDE DEF n
  <2>2. last = [i \in 1..1 |-> nums[(i + n) - 1]]
    <3>1. (n - n) + 1 = 1
      BY <2>1
    <3>2. QED
      BY <2>1, <3>1
  <2>3. \A i \in 1..1 : (i + n) - 1 = n
    BY <2>1
  <2>4. last = [i \in 1..1 |-> nums[n]]
    BY <2>2, <2>3
  <2> HIDE DEF last
  <2>5. [i \in 1..1 |-> nums[n]] = << nums[n] >>
    OBVIOUS
  <2>6. QED
    BY <2>4, <2>5 DEF n, last
<1>3. QED
  BY <1>1, <1>2

\* What ParseAmount makes of digits with at most one point among them.
Fraction(c, points) ==
  IF points = {} THEN <<>> ELSE SubSeq(c.nums, (CHOOSE i \in points : TRUE) + 1, Len(c.nums))
Worth(c, points) == RoundDiv(Digits(c.nums) * 100, 10^Width(Fraction(c, points)))

LEMMA Parses ==
  ASSUME NEW c, NEW european, Paired(c.nums, c.seps), NEW points, points = Points(c, european)
  PROVE  ParseAmount(c, european) =
           IF Cardinality(points) > 1 THEN Unreadable
           ELSE Read(IF c.neg THEN -Worth(c, points) ELSE Worth(c, points))
<1>1. c.nums # <<>> /\ \A i \in DOMAIN c.seps : c.seps[i] # "-"
  <2>1. Len(c.seps) \in Nat /\ Len(c.nums) > 0
    BY SeqFacts DEF Paired
  <2>2. c.nums # <<>>
    BY <2>1, SeqFacts DEF Paired
  <2>3. \A i \in DOMAIN c.seps : c.seps[i] \in Seps
    BY SeqFacts DEF Paired
  <2>4. QED
    BY <2>2, <2>3 DEF Seps
<1>2. QED
  BY <1>1 DEF ParseAmount, Worth, Fraction

LEMMA PointsOfCents ==
  ASSUME NEW cents \in Int, NEW s, NEW c, Paired(c.nums, c.seps), ShowsCents(c, cents, s),
         NEW european, DecimalPoint(european) = DecimalPoint(s.european)
  PROVE  Points(c, european) = {Len(c.seps)}
<1>1. Len(c.seps) \in Nat /\ DOMAIN c.seps = 1..Len(c.seps) /\ Len(c.seps) >= 1
  BY SeqFacts DEF Paired, ShowsCents
<1>2. c.seps[Len(c.seps)] = DecimalPoint(european)
  BY DEF ShowsCents
<1>3. \A i \in 1..(Len(c.seps) - 1) : c.seps[i] # DecimalPoint(european)
  BY TwoPoints DEF ShowsCents
<1>4. \A i \in 1..Len(c.seps) : i # Len(c.seps) => i \in 1..(Len(c.seps) - 1)
  BY <1>1
<1> DEFINE n == Len(c.seps)
<1> HIDE DEF n
<1>5. n \in DOMAIN c.seps /\ c.seps[n] = DecimalPoint(european)
      /\ \A i \in DOMAIN c.seps : c.seps[i] = DecimalPoint(european) => i = n
  BY <1>1, <1>2, <1>3, <1>4 DEF n
<1>6. QED
  BY <1>5 DEF Points, n

\* Read in the bank's own convention an amount is what it was.
LEMMA AmountReadBack ==
  ASSUME NEW cents \in Int, NEW s,
         s.cents \/ Magnitude(cents) % 100 = 0,
         NEW c \in AmountTexts(cents, s),
         NEW european, DecimalPoint(european) = DecimalPoint(s.european)
  PROVE  ParseAmount(c, european) = Read(cents)
<1> DEFINE points == Points(c, european)
<1>1. (c.neg <=> cents < 0) /\ Paired(c.nums, c.seps)
  BY AmountShape
<1>2. Magnitude(cents) \in Nat /\ (cents < 0 => -Magnitude(cents) = cents) /\ (~(cents < 0) => Magnitude(cents) = cents)
  BY DEF Magnitude
<1>3. ASSUME Cardinality(points) \in {0, 1}, Worth(c, points) = Magnitude(cents)
      PROVE  ParseAmount(c, european) = Read(cents)
  <2> HIDE DEF points
  <2>1. ~ (Cardinality(points) > 1)
    BY <1>3
  <2>2. ParseAmount(c, european) = Read(IF c.neg THEN -Worth(c, points) ELSE Worth(c, points))
    BY <1>1, <2>1, Parses DEF points
  <2>3. (IF c.neg THEN -Worth(c, points) ELSE Worth(c, points)) = cents
    BY <1>1, <1>2, <1>3
  <2>4. QED
    BY <2>2, <2>3
<1>4. CASE s.cents
  <2>1. ShowsCents(c, cents, s)
    BY <1>4, CentsShape
  <2>2. points = {Len(c.seps)}
    BY <1>1, <2>1, PointsOfCents
  <2> HIDE DEF points
  <2>3. Cardinality(points) = 1 /\ points # {} /\ (CHOOSE i \in points : TRUE) = Len(c.seps)
    BY <2>2, FS_Singleton
  <2>4. Fraction(c, points) = << c.nums[Len(c.nums)] >>
    BY <1>1, <2>3, LastRun DEF Fraction
  <2>5. Width(Fraction(c, points)) = 2
    BY <2>1, <2>4, WidthOfRun DEF ShowsCents
  <2>6. Worth(c, points) = RoundDiv(Magnitude(cents) * 100, 100)
    <3>1. 10^Width(Fraction(c, points)) = 100
      BY <2>5, PowersOfTen
    <3>2. QED
      BY <2>1, <3>1 DEF Worth, ShowsCents
  <2>7. Worth(c, points) = Magnitude(cents)
    BY <1>2, <2>6, RoundsExactly
  <2>8. QED
    BY <1>3, <2>3, <2>7 DEF points
<1>5. CASE ~s.cents
  <2>1. ShowsUnits(c, cents, s)
    BY <1>5, AmountShape
  <2>2. points = {}
    <3>1. \A i \in DOMAIN c.seps : c.seps[i] = Thousands(s)
      BY <1>1, <2>1, SeqFacts DEF Paired, ShowsUnits
    <3>2. QED
      BY <3>1, TwoPoints DEF Points
  <2> HIDE DEF points
  <2>3. Cardinality(points) = 0
    BY <2>2, FS_EmptySet
  <2>4. 10^Width(Fraction(c, points)) = 1
    <3>1. Width(Fraction(c, points)) = 0
      BY <2>2, WidthOfRun DEF Fraction
    <3>2. QED
      BY <3>1, PowersOfTen
  <2>5. Worth(c, points) = RoundDiv((Magnitude(cents) \div 100) * 100, 1)
    BY <2>1, <2>4 DEF Worth, ShowsUnits
  <2>6. Worth(c, points) = (Magnitude(cents) \div 100) * 100
    BY <2>5, Hundredths, RoundsExactly
  <2>7. Worth(c, points) = Magnitude(cents)
    <3>1. Magnitude(cents) % 100 = 0
      BY <1>5
    <3>2. QED
      BY <2>6, <3>1, Hundredths
  <2>8. QED
    BY <1>3, <2>3, <2>7 DEF points
<1>6. QED
  BY <1>4, <1>5

\* Whole units are read in any convention, but for a second point.
LEMMA UnitsReadable ==
  ASSUME NEW cents \in Int, NEW s, ~s.cents,
         NEW c \in AmountTexts(cents, s), NEW european
  PROVE  ParseAmount(c, european).ok \/ Magnitude(cents) \div 100 >= Million
<1> DEFINE points == Points(c, european)
           n == Len(c.seps)
<1>1. Paired(c.nums, c.seps) /\ ShowsUnits(c, cents, s)
  BY AmountShape
<1>2. n \in Nat /\ n <= 2 /\ (n = 2 => Magnitude(cents) \div 100 >= Million) /\ points \subseteq 1..n
  BY <1>1, SeqFacts DEF Paired, ShowsUnits, Points
<1> HIDE DEF points, n
<1>3. ASSUME n <= 1 PROVE ParseAmount(c, european).ok
  <2>1. IsFiniteSet(1..n) /\ Cardinality(1..n) = n
    BY <1>2, CountUpTo
  <2>2. Cardinality(points) \in Nat /\ Cardinality(points) <= n
    BY <1>2, <2>1, FS_Subset, FS_CardinalityType
  <2>3. ~ (Cardinality(points) > 1)
    BY <1>2, <1>3, <2>2
  <2>4. ParseAmount(c, european) = Read(IF c.neg THEN -Worth(c, points) ELSE Worth(c, points))
    BY <1>1, <2>3, Parses DEF points
  <2>5. QED
    BY <2>4 DEF Read
<1>4. QED
  BY <1>2, <1>3

-------------------------------------------------------------------------------
(* The votes of amounts on their format.                                   *)

VoteOf(s) == IF s.european THEN 1 ELSE -1

LEMMA NoSepsNoVote ==
  ASSUME NEW c, c.seps = <<>>
  PROVE  SepsIn(c) = {} /\ analyzeAmountFormat(c) = 0 /\ SampleVote(c) = 0
<1>1. SepsIn(c) = {}
  BY DEF SepsIn, ToSet
<1>2. analyzeAmountFormat(c) = 0
  BY <1>1 DEF analyzeAmountFormat
<1>3. QED
  BY <1>1, <1>2 DEF SampleVote

LEMMA CentsVote ==
  ASSUME NEW cents \in Int, NEW s, s.cents, NEW c \in AmountTexts(cents, s)
  PROVE  SepsIn(c) # {} /\ analyzeAmountFormat(c) = VoteOf(s) /\ SampleVote(c) = VoteOf(s)
<1> DEFINE n == Len(c.seps)
           counted == {i \in DOMAIN c.seps : c.seps[i] \in SepsIn(c)}
           point == DecimalPoint(s.european)
<1>1. Paired(c.nums, c.seps) /\ ShowsCents(c, cents, s)
  BY AmountShape, CentsShape
<1>2. n \in Nat /\ n >= 1 /\ DOMAIN c.seps = 1..n /\ Len(c.nums) = n + 1 /\ c.seps[n] = point
      /\ \A i \in 1..n : c.seps[i] \in Seps
  BY <1>1, SeqFacts DEF Paired, ShowsCents
<1>3. counted = 1..n /\ SepsIn(c) # {}
  <2>1. \A i \in 1..n : c.seps[i] \in SepsIn(c)
    BY <1>2 DEF SepsIn, ToSet, Seps
  <2>2. QED
    BY <1>2, <2>1
<1>4. SubSeq(c.nums, n + 1, Len(c.nums)) = << c.nums[Len(c.nums)] >>
  BY <1>1, LastRun
<1>5. Width(SubSeq(c.nums, n + 1, Len(c.nums))) = 2
  BY <1>1, <1>4, WidthOfRun DEF ShowsCents
<1>6. Max(counted) = n
  <2>1. n \in 1..n
    BY <1>2
  <2>2. Max(1..n) = n
    BY <1>2, <2>1, MaxOfRange
  <2>3. QED
    BY <1>3, <2>2
<1>7. (IF c.seps[n] = "," THEN 1 ELSE -1) = VoteOf(s)
  BY <1>2 DEF DecimalPoint, VoteOf
<1> DEFINE last == Max(counted)
           vote == IF c.seps[last] = "," THEN 1 ELSE -1
<1>8. analyzeAmountFormat(c) =
        IF SepsIn(c) = {} THEN 0
        ELSE IF Cardinality(SepsIn(c)) = 2 \/ Width(SubSeq(c.nums, last + 1, Len(c.nums))) <= 2 THEN vote ELSE 0
  BY DEF analyzeAmountFormat
<1>9. last = n /\ vote = VoteOf(s)
  BY <1>6, <1>7
<1> HIDE DEF n, counted, last, vote
<1>10. analyzeAmountFormat(c) = VoteOf(s)
  <2>1. Width(SubSeq(c.nums, last + 1, Len(c.nums))) <= 2
    BY <1>5, <1>9
  <2>2. QED
    BY <1>3, <1>8, <1>9, <2>1
<1>11. SampleVote(c) = VoteOf(s)
  BY <1>2, <1>10 DEF SampleVote, n
<1>12. QED
  BY <1>3, <1>10, <1>11

\* A minus alone.
Dash == Cell("", TRUE, <<>>, <<>>)

LEMMA UnusedAre ==
  ASSUME NEW s, NEW c \in UnusedTexts(s)
  PROVE  \/ s.fill = "zero" /\ c \in AmountTexts(0, s)
         \/ s.fill = "dash" /\ c = Dash
         \/ c = EmptyCell
<1>1. UnusedTexts(s) = CASE s.fill = "zero" -> AmountTexts(0, s) [] s.fill = "dash" -> {Dash} [] OTHER -> {EmptyCell}
  BY DEF UnusedTexts, Dash
<1>2. CASE s.fill = "zero"
  <2>1. ~ (s.fill = "dash")
    BY <1>2
  <2>2. UnusedTexts(s) = AmountTexts(0, s)
    BY <1>1, <1>2, <2>1
  <2>3. QED
    BY <1>2, <2>2
<1>3. CASE s.fill = "dash"
  <2>1. ~ (s.fill = "zero")
    BY <1>3
  <2>2. UnusedTexts(s) = {Dash}
    BY <1>1, <1>3, <2>1
  <2>3. QED
    BY <1>3, <2>2
<1>4. CASE ~ (s.fill = "zero") /\ ~ (s.fill = "dash")
  <2>1. UnusedTexts(s) = {EmptyCell}
    BY <1>1, <1>4
  <2>2. QED
    BY <2>1
<1>5. QED
  BY <1>2, <1>3, <1>4

LEMMA BareCells ==
  /\ Dash.seps = <<>> /\ EmptyCell.seps = <<>> /\ Dash.nums = <<>> /\ EmptyCell.nums = <<>>
  /\ Dash.neg /\ ~EmptyCell.neg /\ Dash # EmptyCell
<1>1. Dash.seps = <<>> /\ Dash.nums = <<>> /\ Dash.neg
  BY DEF Dash, Cell
<1>2. EmptyCell.seps = <<>> /\ EmptyCell.nums = <<>> /\ ~EmptyCell.neg
  BY DEF EmptyCell, Word, Cell
<1>3. Dash # EmptyCell
  BY <1>1, <1>2
<1>4. QED
  BY <1>1, <1>2, <1>3

LEMMA UnusedVote ==
  ASSUME NEW s, s.cents, NEW c \in UnusedTexts(s)
  PROVE  /\ SampleVote(c) \in {0, VoteOf(s)} /\ analyzeAmountFormat(c) \in {0, VoteOf(s)}
         /\ SepsIn(c) # {} => analyzeAmountFormat(c) = VoteOf(s)
<1>1. CASE c \in AmountTexts(0, s)
  BY <1>1, CentsVote
<1>2. CASE c.seps = <<>>
  BY <1>2, NoSepsNoVote
<1>3. c \in AmountTexts(0, s) \/ c.seps = <<>>
  BY UnusedAre, BareCells
<1>4. QED
  BY <1>1, <1>2, <1>3

LEMMA RowVotes ==
  ASSUME NEW s, s.cents, NEW cents \in Int, NEW cells, SaysAmount(cells, cents, s)
  PROVE  /\ \A col \in AmountColumns(s) :
              /\ SampleVote(cells[col + 1]) \in {0, VoteOf(s)} /\ analyzeAmountFormat(cells[col + 1]) \in {0, VoteOf(s)}
              /\ SepsIn(cells[col + 1]) # {} => analyzeAmountFormat(cells[col + 1]) = VoteOf(s)
         /\ \E col \in AmountColumns(s) : SampleVote(cells[col + 1]) = VoteOf(s) /\ SepsIn(cells[col + 1]) # {}
<1> DEFINE at(col) == cells[s.columns[col] + 1]
<1>1. -cents \in Int
  OBVIOUS
<1>2. CASE ~s.double
  <2>1. at("amount") \in AmountTexts(cents, s) /\ AmountColumns(s) = {s.columns["amount"]}
    BY <1>2 DEF SaysAmount, AmountColumns
  <2>2. QED
    BY <2>1, CentsVote
<1>3. CASE s.double
  <2>1. AmountColumns(s) = {s.columns["debit"], s.columns["credit"]}
    BY <1>3 DEF AmountColumns
  <2>2. CASE cents < 0
    <3>1. at("debit") \in AmountTexts(-cents, s) /\ at("credit") \in UnusedTexts(s)
      BY <1>3, <2>2 DEF SaysAmount
    <3>2. QED
      BY <1>1, <2>1, <3>1, CentsVote, UnusedVote
  <2>3. CASE ~ (cents < 0)
    <3>1. at("debit") \in UnusedTexts(s) /\ at("credit") \in AmountTexts(cents, s)
      BY <1>3, <2>3 DEF SaysAmount
    <3>2. QED
      BY <2>1, <3>1, CentsVote, UnusedVote
  <2>4. QED
    BY <2>2, <2>3
<1>4. QED
  BY <1>2, <1>3

-------------------------------------------------------------------------------
(* The amount of a row.                                                    *)

\* The mapping has the statement's amount columns.
AmountsSeen(m, s) ==
  /\ m.isDoubleEntry = s.double
  /\ s.double => m.debit = s.columns["debit"] /\ m.credit = s.columns["credit"]
  /\ ~s.double => m.amount = s.columns["amount"]
SamePoint(m, s) == DecimalPoint(m.isEuropean) = DecimalPoint(s.european)

LEMMA ParsedOrNot ==
  ASSUME NEW c, NEW european
  PROVE  ParseAmount(c, european) = Unreadable \/ \E v : ParseAmount(c, european) = Read(v)
  BY DEF ParseAmount

LEMMA ReadFacts ==
  /\ \A v : Read(v).ok = TRUE /\ Read(v).val = v
  /\ Unreadable.ok = FALSE
  BY DEF Read, Unreadable

\* The pair of a debit and a credit cell is worth what one of them is.
LEMMA PairWorth ==
  ASSUME NEW debit, NEW credit, NEW european, NEW side,
         side = IF IsBlank(debit) THEN ParseAmount(credit, european) ELSE ParseAmount(debit, european)
  PROVE  /\ NormalizeDebitCredit(debit, credit, european).ok = side.ok
         /\ NormalizeDebitCredit(debit, credit, european).val =
              IF IsBlank(debit) THEN Magnitude(side.val) ELSE -Magnitude(side.val)
<1>1. side = Unreadable \/ \E v : side = Read(v)
  BY ParsedOrNot
<1>2. side = [ok |-> side.ok, val |-> side.val]
  BY <1>1 DEF Read, Unreadable
<1>3. NormalizeDebitCredit(debit, credit, european) =
        [side EXCEPT !.val = IF ~IsBlank(debit) THEN -Magnitude(side.val) ELSE Magnitude(side.val)]
  <2>1. CASE IsBlank(debit)
    BY <2>1 DEF NormalizeDebitCredit, UsesDebit
  <2>2. CASE ~IsBlank(debit)
    BY <2>2 DEF NormalizeDebitCredit, UsesDebit
  <2>3. QED
    BY <2>1, <2>2
<1>4. QED
  BY <1>2, <1>3

LEMMA NotBlank ==
  /\ \A cents \in Int : \A s : \A c \in AmountTexts(cents, s) : ~IsBlank(c)
  /\ ~IsBlank(Dash) /\ IsBlank(EmptyCell)
<1>1. ASSUME NEW cents \in Int, NEW s, NEW c \in AmountTexts(cents, s) PROVE c # EmptyCell
  <2>1. Paired(c.nums, c.seps)
    BY AmountShape
  <2>2. Len(c.nums) > 0
    BY <2>1, SeqFacts DEF Paired
  <2>3. c.nums # <<>>
    BY <2>1, <2>2, SeqFacts DEF Paired
  <2>4. QED
    BY <2>3, BareCells
<1>2. QED
  BY <1>1, BareCells DEF IsBlank

LEMMA DashUnreadable ==
  ASSUME NEW european
  PROVE  ParseAmount(Dash, european) = Unreadable
  BY BareCells DEF ParseAmount

\* What a row's amount may come out as.
Refusing(cents, s) == s.double /\ s.fill = "dash" /\ cents >= 0
Hiding(cents, s) == s.double /\ s.fill = "zero" /\ cents > 0

LEMMA SingleAmount ==
  ASSUME NEW s, ~s.double, NEW cents \in Int, s.cents \/ Magnitude(cents) % 100 = 0,
         NEW cells, SaysAmount(cells, cents, s), NEW m, AmountsSeen(m, s),
         \A col \in AmountColumns(s) : ~(col < 0)
  PROVE  /\ SamePoint(m, s) => AmountOf(cells, m) = Read(cents)
         /\ ~s.cents => AmountOf(cells, m).ok \/ Magnitude(cents) \div 100 >= Million
<1> DEFINE c == cells[s.columns["amount"] + 1]
<1>1. AmountOf(cells, m) = ParseAmount(c, m.isEuropean)
  BY DEF AmountOf, AmountsSeen, AmountColumns
<1>2. c \in AmountTexts(cents, s)
  BY DEF SaysAmount
<1> HIDE DEF c
<1>3. SamePoint(m, s) => ParseAmount(c, m.isEuropean) = Read(cents)
  BY <1>2, AmountReadBack DEF SamePoint
<1>4. ~s.cents => ParseAmount(c, m.isEuropean).ok \/ Magnitude(cents) \div 100 >= Million
  BY <1>2, UnitsReadable
<1>5. QED
  BY <1>1, <1>3, <1>4

LEMMA DoubleAmount ==
  ASSUME NEW s, s.double, NEW cents \in Int, s.cents \/ Magnitude(cents) % 100 = 0,
         NEW cells, SaysAmount(cells, cents, s), NEW m, AmountsSeen(m, s),
         \A col \in AmountColumns(s) : ~(col < 0)
  PROVE  /\ SamePoint(m, s) => \/ AmountOf(cells, m).ok = TRUE /\ (AmountOf(cells, m).val = cents \/ Hiding(cents, s))
                               \/ Refusing(cents, s) /\ AmountOf(cells, m).ok = FALSE
         /\ ~s.cents => AmountOf(cells, m).ok \/ Refusing(cents, s) \/ Magnitude(cents) \div 100 >= Million
<1> DEFINE debit == cells[s.columns["debit"] + 1]
           credit == cells[s.columns["credit"] + 1]
           e == m.isEuropean
           side == IF IsBlank(debit) THEN ParseAmount(credit, e) ELSE ParseAmount(debit, e)
<1>1. AmountOf(cells, m) = NormalizeDebitCredit(debit, credit, e)
  BY DEF AmountOf, AmountsSeen, AmountColumns
<1>2. /\ cents < 0 => debit \in AmountTexts(-cents, s)
      /\ ~(cents < 0) => debit \in UnusedTexts(s) /\ credit \in AmountTexts(cents, s)
  BY DEF SaysAmount
<1>3. /\ AmountOf(cells, m).ok = side.ok
      /\ AmountOf(cells, m).val = IF IsBlank(debit) THEN Magnitude(side.val) ELSE -Magnitude(side.val)
  BY <1>1, PairWorth
<1> HIDE DEF debit, credit
<1>4. ASSUME cents < 0
      PROVE  /\ SamePoint(m, s) => AmountOf(cells, m).ok = TRUE /\ AmountOf(cells, m).val = cents
             /\ ~s.cents => AmountOf(cells, m).ok \/ Magnitude(cents) \div 100 >= Million
  <2>1. -cents \in Int /\ Magnitude(-cents) = Magnitude(cents) /\ -Magnitude(cents) = cents
    BY <1>4 DEF Magnitude
  <2>2. debit \in AmountTexts(-cents, s) /\ ~IsBlank(debit)
    BY <1>2, <1>4, <2>1, NotBlank
  <2>3. s.cents \/ Magnitude(-cents) % 100 = 0
    BY <2>1
  <2>4. side = ParseAmount(debit, e)
    BY <2>2
  <2> HIDE DEF side
  <2>5. ASSUME SamePoint(m, s) PROVE AmountOf(cells, m).ok = TRUE /\ AmountOf(cells, m).val = cents
    <3>1. side = Read(-cents)
      BY <2>1, <2>2, <2>3, <2>4, <2>5, AmountReadBack DEF SamePoint
    <3>2. side.ok = TRUE /\ side.val = -cents
      BY <3>1, ReadFacts
    <3>3. -Magnitude(-cents) = cents
      BY <2>1
    <3>4. QED
      BY <1>3, <2>2, <3>2, <3>3
  <2>6. ASSUME ~s.cents PROVE AmountOf(cells, m).ok \/ Magnitude(cents) \div 100 >= Million
    <3>1. side.ok \/ Magnitude(-cents) \div 100 >= Million
      BY <2>1, <2>2, <2>4, <2>6, UnitsReadable
    <3>2. QED
      BY <1>3, <2>1, <3>1
  <2>7. QED
    BY <2>5, <2>6
<1>5. ASSUME ~(cents < 0), debit = Dash PROVE AmountOf(cells, m).ok = FALSE
  <2>1. side = Unreadable
    BY <1>5, NotBlank, DashUnreadable
  <2> HIDE DEF side
  <2>2. QED
    BY <1>3, <2>1, ReadFacts
<1>6. ASSUME ~(cents < 0), debit = EmptyCell
      PROVE  /\ SamePoint(m, s) => AmountOf(cells, m).ok = TRUE /\ AmountOf(cells, m).val = cents
             /\ ~s.cents => AmountOf(cells, m).ok \/ Magnitude(cents) \div 100 >= Million
  <2>1. credit \in AmountTexts(cents, s) /\ IsBlank(debit) /\ Magnitude(cents) = cents
    BY <1>2, <1>6, NotBlank DEF Magnitude
  <2>2. side = ParseAmount(credit, e)
    BY <2>1
  <2> HIDE DEF side
  <2>3. ASSUME SamePoint(m, s) PROVE AmountOf(cells, m).ok = TRUE /\ AmountOf(cells, m).val = cents
    <3>1. side = Read(cents)
      BY <2>1, <2>2, <2>3, AmountReadBack DEF SamePoint
    <3>2. side.ok = TRUE /\ side.val = cents
      BY <3>1, ReadFacts
    <3>3. QED
      BY <1>3, <2>1, <3>2
  <2>4. ASSUME ~s.cents PROVE AmountOf(cells, m).ok \/ Magnitude(cents) \div 100 >= Million
    BY <1>3, <2>1, <2>2, <2>4, UnitsReadable
  <2>5. QED
    BY <2>3, <2>4
<1>7. ASSUME ~(cents < 0), debit \in AmountTexts(0, s)
      PROVE  /\ SamePoint(m, s) => AmountOf(cells, m).ok = TRUE /\ AmountOf(cells, m).val = 0
             /\ ~s.cents => AmountOf(cells, m).ok
  <2>1. ~IsBlank(debit) /\ Magnitude(0) = 0 /\ Magnitude(0) % 100 = 0 /\ ~ (Magnitude(0) \div 100 >= Million)
    <3>1. Magnitude(0) = 0
      BY DEF Magnitude
    <3>2. 0 \div 100 = 0 /\ 0 % 100 = 0
      OBVIOUS
    <3>3. Million \in Int /\ Million > 0
      BY DEF Million
    <3>4. ~IsBlank(debit)
      BY <1>7, NotBlank
    <3>5. ~ (Magnitude(0) \div 100 >= Million) /\ Magnitude(0) % 100 = 0
      BY <3>1, <3>2, <3>3
    <3>6. QED
      BY <3>1, <3>4, <3>5
  <2>2. side = ParseAmount(debit, e)
    BY <2>1
  <2> HIDE DEF side
  <2>3. ASSUME SamePoint(m, s) PROVE AmountOf(cells, m).ok = TRUE /\ AmountOf(cells, m).val = 0
    <3>1. side = Read(0)
      BY <1>7, <2>1, <2>2, <2>3, AmountReadBack DEF SamePoint
    <3>2. side.ok = TRUE /\ side.val = 0
      BY <3>1, ReadFacts
    <3>3. QED
      BY <1>3, <2>1, <3>2
  <2>4. ASSUME ~s.cents PROVE AmountOf(cells, m).ok
    BY <1>3, <1>7, <2>1, <2>2, <2>4, UnitsReadable
  <2>5. QED
    BY <2>3, <2>4
<1> HIDE DEF side, e
<1>8. CASE cents < 0
  BY <1>4, <1>8
<1>9. CASE ~(cents < 0)
  <2>1. cents >= 0
    BY <1>9
  <2>2. debit \in UnusedTexts(s)
    BY <1>2, <1>9
  <2>3. CASE s.fill = "dash" /\ debit = Dash
    BY <1>5, <1>9, <2>1, <2>3 DEF Refusing
  <2>4. CASE debit = EmptyCell
    BY <1>6, <1>9, <2>4
  <2>5. CASE s.fill = "zero" /\ debit \in AmountTexts(0, s)
    <3>1. cents = 0 \/ Hiding(cents, s)
      BY <2>1, <2>5 DEF Hiding
    <3>2. QED
      BY <1>7, <1>9, <2>5, <3>1
  <2>6. QED
    BY <2>2, <2>3, <2>4, <2>5, UnusedAre
<1>10. QED
  BY <1>8, <1>9

-------------------------------------------------------------------------------
(* The date of a row.                                                      *)

\* The layouts without a clock.
Orders == {"DMY", "MDY", "YMD"}
Dated(l) == l.clock = 0 /\ l.order \in Orders /\ l.padded \in BOOLEAN

LEMMA MonthsHaveDays ==
  ASSUME NEW m, NEW y
  PROVE  DaysIn(m, y) \in 28..31
<1>1. DaysIn(m, y) \in {28, 29, 30, 31}
  BY DEF DaysIn
<1>2. QED
  BY <1>1

LEMMA DatedSeps ==
  ASSUME NEW l, l.clock = 0
  PROVE  LayoutSeps(l) = <<l.sep, l.sep>>
<1>1. SubSeq(<<" ", ":", ":">>, 1, 0) = <<>>
  OBVIOUS
<1>2. \A s : <<s, s>> \o <<>> = <<s, s>>
  OBVIOUS
<1>3. QED
  BY <1>1, <1>2 DEF LayoutSeps

LEMMA ClockLengths ==
  ASSUME NEW a, NEW b, NEW s
  PROVE  Len(<<s, s>> \o SubSeq(<<a, b, b>>, 1, 2)) = 4 /\ Len(<<s, s>> \o SubSeq(<<a, b, b>>, 1, 3)) = 5
<1> DEFINE S == {a, b, s}
<1>1. <<s, s>> \in Seq(S) /\ Len(<<s, s>>) = 2
  OBVIOUS
<1>2. <<a, b, b>> \in Seq(S) /\ Len(<<a, b, b>>) = 3
  OBVIOUS
<1>3. ASSUME NEW u \in Seq(S), NEW v \in Seq(S), NEW k \in 0..Len(v), Len(u) = 2
      PROVE  Len(u \o SubSeq(v, 1, k)) = 2 + k
  <2> HIDE DEF S
  <2>1. Len(v) \in Nat /\ k \in Nat /\ k <= Len(v)
    OBVIOUS
  <2>2. SubSeq(v, 1, k) \in Seq(S)
    <3>1. \A i \in 1..k : i \in 1..Len(v) /\ v[i] \in S
      BY <2>1
    <3>2. QED
      BY <2>1, <3>1
  <2>3. Len(SubSeq(v, 1, k)) = k
    BY <2>1
  <2>4. ASSUME NEW w \in Seq(S) PROVE Len(u \o w) = Len(u) + Len(w)
    OBVIOUS
  <2>5. QED
    BY <1>3, <2>2, <2>3, <2>4
<1>4. QED
  <2> HIDE DEF S
  <2>1. 2 \in 0..3 /\ 3 \in 0..3
    OBVIOUS
  <2>2. QED
    BY <1>1, <1>2, <1>3, <2>1

LEMMA ClockedSeps ==
  ASSUME NEW l, l.clock \in {2, 3}
  PROVE  Len(LayoutSeps(l)) \in {4, 5}
<1>1. CASE l.clock = 2
  BY <1>1, ClockLengths DEF LayoutSeps
<1>2. CASE l.clock = 3
  BY <1>2, ClockLengths DEF LayoutSeps
<1>3. QED
  BY <1>1, <1>2

\* The parts of a date as the bank writes it.
Parts(c, date, s) ==
  /\ ~c.neg /\ Wordless(c) /\ c.seps = <<s.sep, s.sep>> /\ Len(c.nums) = 3
  /\ c.nums = DateParts(date, s.order)
LEMMA DateIsParts ==
  ASSUME NEW date, NEW s, s.order \in Orders
  PROVE  Parts(DateText(date, s), date, s)
<1>1. Len(DateParts(date, s.order)) = 3
  BY DEF DateParts, Orders
<1>2. QED
  BY <1>1 DEF Parts, DateText, Cell, Wordless

\* Year, month and day where the bank wrote them.
LEMMA PartsAre ==
  ASSUME NEW date, NEW order \in Orders, NEW p, p = DateParts(date, order)
  PROVE  /\ order = "DMY" => p[1] = Run(date[3], 2) /\ p[2] = Run(date[2], 2) /\ p[3] = Run(date[1], 4)
         /\ order = "MDY" => p[1] = Run(date[2], 2) /\ p[2] = Run(date[3], 2) /\ p[3] = Run(date[1], 4)
         /\ order = "YMD" => p[1] = Run(date[1], 4) /\ p[2] = Run(date[2], 2) /\ p[3] = Run(date[3], 2)
<1>1. CASE order = "DMY"
  BY <1>1 DEF DateParts
<1>2. CASE order = "MDY"
  BY <1>2 DEF DateParts
<1>3. CASE order = "YMD"
  BY <1>3 DEF DateParts
<1>4. QED
  BY <1>1, <1>2, <1>3 DEF Orders

\* A layout of the same separator fits in the bank's order, or with day and
\* month swapped.
Exchanged(a, b) == (a = "DMY" /\ b = "MDY") \/ (a = "MDY" /\ b = "DMY")
Fitted(date, s, l) ==
  /\ l.sep = s.sep
  /\ \/ l.order = s.order
     \/ Exchanged(l.order, s.order) /\ date[3] <= 12

LEMMA RunParts == \A n, w : Run(n, w).n = n /\ Run(n, w).w = w
  BY DEF Run

LEMMA FitsWhen ==
  ASSUME NEW date, IsDate(date), NEW s, s.order \in Orders, NEW c, Parts(c, date, s), NEW l, Dated(l)
  PROVE  Fits(c, l) <=> Fitted(date, s, l)
<1> DEFINE p == c.nums
           d == p[DayPart(l)]
           m == p[MonthPart(l)]
           y == p[YearPart(l)]
<1>1. LayoutSeps(l) = <<l.sep, l.sep>> /\ Len(LayoutSeps(l)) = 2
  BY DatedSeps DEF Dated
<1>2. c.seps = LayoutSeps(l) <=> l.sep = s.sep
  BY <1>1 DEF Parts
<1>3. Fits(c, l) <=> /\ l.sep = s.sep /\ y.w = 4 /\ {d.w, m.w} \subseteq (IF l.padded THEN {2} ELSE {1, 2})
                     /\ m.n \in 1..12 /\ d.n \in 1..DaysIn(m.n, y.n)
  <2>1. Fits(c, l) <=> /\ ~c.neg /\ Wordless(c) /\ Len(c.nums) = Len(LayoutSeps(l)) + 1 /\ c.seps = LayoutSeps(l)
                       /\ y.w = 4 /\ {d.w, m.w} \subseteq (IF l.padded THEN {2} ELSE {1, 2})
                       /\ m.n \in 1..12 /\ d.n \in 1..DaysIn(m.n, y.n)
    BY DEF Fits, Wordless
  <2> HIDE DEF y, d, m
  <2>2. ~c.neg /\ Wordless(c) /\ Len(c.nums) = Len(LayoutSeps(l)) + 1
    BY <1>1 DEF Parts
  <2>3. QED
    BY <1>2, <2>1, <2>2
<1>4. /\ l.order = "DMY" => d = p[1] /\ m = p[2] /\ y = p[3]
      /\ l.order = "MDY" => d = p[2] /\ m = p[1] /\ y = p[3]
      /\ l.order = "YMD" => d = p[3] /\ m = p[2] /\ y = p[1]
  BY DEF DayPart, MonthPart, YearPart
<1>5. p = DateParts(date, s.order) /\ l.order \in Orders
  BY DEF Parts, Dated
<1>6. /\ date[2] \in 1..12 /\ date[3] \in 1..31 /\ date[3] \in 1..DaysIn(date[2], date[1])
      /\ date[2] \in 1..DaysIn(date[3], date[1])
  BY MonthsHaveDays DEF IsDate
<1> HIDE DEF p, d, m, y
<1>7. \/ /\ l.order = s.order /\ y.n = date[1] /\ m.n = date[2] /\ d.n = date[3]
         /\ y.w = 4 /\ d.w = 2 /\ m.w = 2
      \/ /\ Exchanged(l.order, s.order) /\ y.n = date[1] /\ m.n = date[3] /\ d.n = date[2]
         /\ y.w = 4 /\ d.w = 2 /\ m.w = 2
      \/ l.order # s.order /\ ~Exchanged(l.order, s.order) /\ y.w = 2
  <2>1. CASE s.order = "DMY"
    <3>1. p[1] = Run(date[3], 2) /\ p[2] = Run(date[2], 2) /\ p[3] = Run(date[1], 4)
      BY <1>5, <2>1, PartsAre DEF Orders
    <3>2. QED
      BY <1>4, <1>5, <2>1, <3>1, RunParts DEF Exchanged, Orders
  <2>2. CASE s.order = "MDY"
    <3>1. p[1] = Run(date[2], 2) /\ p[2] = Run(date[3], 2) /\ p[3] = Run(date[1], 4)
      BY <1>5, <2>2, PartsAre DEF Orders
    <3>2. /\ p[1].n = date[2] /\ p[1].w = 2 /\ p[2].n = date[3] /\ p[2].w = 2
          /\ p[3].n = date[1] /\ p[3].w = 4
      BY <3>1, RunParts
    <3>3. CASE l.order = "MDY"
      BY <1>4, <2>2, <3>2, <3>3
    <3>4. CASE l.order = "DMY"
      <4>1. d = p[1] /\ m = p[2] /\ y = p[3]
        BY <1>4, <3>4
      <4>2. Exchanged(l.order, s.order)
        BY <2>2, <3>4 DEF Exchanged
      <4>3. QED
        BY <3>2, <4>1, <4>2
    <3>5. CASE l.order = "YMD"
      BY <1>4, <2>2, <3>2, <3>5 DEF Exchanged
    <3>6. QED
      BY <1>5, <3>3, <3>4, <3>5 DEF Orders
  <2>3. CASE s.order = "YMD"
    <3>1. p[1] = Run(date[1], 4) /\ p[2] = Run(date[2], 2) /\ p[3] = Run(date[3], 2)
      BY <1>5, <2>3, PartsAre DEF Orders
    <3>2. QED
      BY <1>4, <1>5, <2>3, <3>1, RunParts DEF Exchanged, Orders
  <2>4. QED
    BY <2>1, <2>2, <2>3 DEF Orders
<1>8. \A padded : {2, 2} \subseteq (IF padded THEN {2} ELSE {1, 2})
  OBVIOUS
<1>9. CASE l.order = s.order
  <2>1. ~Exchanged(l.order, s.order)
    BY <1>9 DEF Exchanged
  <2>2. y.n = date[1] /\ m.n = date[2] /\ d.n = date[3] /\ y.w = 4 /\ d.w = 2 /\ m.w = 2
    BY <1>7, <1>9, <2>1
  <2>3. {d.w, m.w} \subseteq (IF l.padded THEN {2} ELSE {1, 2})
    BY <2>2
  <2>4. m.n \in 1..12 /\ d.n \in 1..DaysIn(m.n, y.n)
    BY <1>6, <2>2
  <2>5. Fits(c, l) <=> l.sep = s.sep
    BY <1>3, <2>2, <2>3, <2>4
  <2>6. Fitted(date, s, l) <=> l.sep = s.sep
    BY <1>9 DEF Fitted
  <2>7. QED
    BY <2>5, <2>6
<1>10. CASE Exchanged(l.order, s.order)
  <2>1. l.order # s.order
    BY <1>10 DEF Exchanged
  <2>2. date[3] \in 1..12 <=> date[3] <= 12
    BY <1>6
  <2>3. QED
    BY <1>3, <1>6, <1>7, <1>8, <1>10, <2>1, <2>2 DEF Fitted
<1>11. CASE l.order # s.order /\ ~Exchanged(l.order, s.order)
  BY <1>3, <1>7, <1>11 DEF Fitted
<1>12. QED
  BY <1>9, <1>10, <1>11

-------------------------------------------------------------------------------
(* The layout that reads a date.                                           *)

Listed(i, order, sep) ==
  /\ Dated(dateFormats[i]) /\ dateFormats[i].order = order /\ dateFormats[i].sep = sep

LEMMA LayoutFields ==
  ASSUME NEW order \in Orders, NEW sep, NEW padded \in BOOLEAN, NEW clock, NEW i,
         dateFormats[i] = Layout(order, sep, padded, clock)
  PROVE  dateFormats[i].clock = clock /\ (clock = 0 => Listed(i, order, sep))
<1>1. /\ dateFormats[i].order = order /\ dateFormats[i].sep = sep
      /\ dateFormats[i].padded = padded /\ dateFormats[i].clock = clock
  BY DEF Layout
<1>2. QED
  BY <1>1 DEF Listed, Dated

LEMMA ListedLayouts ==
  /\ DOMAIN dateFormats = 1..14
  /\ Listed(1, "DMY", "-") /\ Listed(2, "DMY", "/") /\ Listed(3, "DMY", ".")
  /\ Listed(4, "DMY", "-") /\ Listed(5, "DMY", "/") /\ Listed(6, "MDY", "-")
  /\ Listed(7, "MDY", "/") /\ Listed(8, "MDY", "/") /\ Listed(9, "YMD", "-") /\ Listed(10, "YMD", "/")
  /\ \A i \in 11..14 : dateFormats[i].clock \in {2, 3}
<1>1. "DMY" \in Orders /\ "MDY" \in Orders /\ "YMD" \in Orders /\ TRUE \in BOOLEAN /\ FALSE \in BOOLEAN
  BY DEF Orders
<1>2. DOMAIN dateFormats = 1..14
  BY DEF dateFormats
<1>3. /\ dateFormats[1] = Layout("DMY", "-", TRUE, 0) /\ dateFormats[2] = Layout("DMY", "/", TRUE, 0)
      /\ dateFormats[3] = Layout("DMY", ".", TRUE, 0) /\ dateFormats[4] = Layout("DMY", "-", FALSE, 0)
      /\ dateFormats[5] = Layout("DMY", "/", FALSE, 0) /\ dateFormats[6] = Layout("MDY", "-", TRUE, 0)
      /\ dateFormats[7] = Layout("MDY", "/", TRUE, 0) /\ dateFormats[8] = Layout("MDY", "/", FALSE, 0)
      /\ dateFormats[9] = Layout("YMD", "-", TRUE, 0) /\ dateFormats[10] = Layout("YMD", "/", TRUE, 0)
  BY DEF dateFormats
<1>4. /\ dateFormats[11] = Layout("DMY", "-", TRUE, 2) /\ dateFormats[12] = Layout("DMY", "/", TRUE, 2)
      /\ dateFormats[13] = Layout("MDY", "/", TRUE, 2) /\ dateFormats[14] = Layout("YMD", "-", TRUE, 3)
  BY DEF dateFormats
<1>5. ASSUME NEW order \in Orders, NEW sep, NEW padded \in BOOLEAN, NEW i,
             dateFormats[i] = Layout(order, sep, padded, 0)
      PROVE  Listed(i, order, sep)
  BY <1>5, LayoutFields
<1>6. Listed(1, "DMY", "-") /\ Listed(2, "DMY", "/") /\ Listed(3, "DMY", ".")
  BY <1>1, <1>3, <1>5
<1>7. /\ Listed(4, "DMY", "-") /\ Listed(5, "DMY", "/") /\ Listed(6, "MDY", "-")
      /\ Listed(7, "MDY", "/") /\ Listed(8, "MDY", "/") /\ Listed(9, "YMD", "-") /\ Listed(10, "YMD", "/")
  <2>1. Listed(4, "DMY", "-")
    BY <1>1, <1>3, <1>5
  <2>2. Listed(5, "DMY", "/")
    BY <1>1, <1>3, <1>5
  <2>3. Listed(6, "MDY", "-")
    BY <1>1, <1>3, <1>5
  <2>4. Listed(7, "MDY", "/")
    BY <1>1, <1>3, <1>5
  <2>5. Listed(8, "MDY", "/")
    BY <1>1, <1>3, <1>5
  <2>6. Listed(9, "YMD", "-")
    BY <1>1, <1>3, <1>5
  <2>7. Listed(10, "YMD", "/")
    BY <1>1, <1>3, <1>5
  <2>8. QED
    BY <2>1, <2>2, <2>3, <2>4, <2>5, <2>6, <2>7
<1>8. \A i \in 11..14 : dateFormats[i].clock \in {2, 3}
  <2>1. \A i \in 11..14 : i = 11 \/ i = 12 \/ i = 13 \/ i = 14
    OBVIOUS
  <2>2. ASSUME NEW l, NEW order, NEW sep, NEW padded, NEW clock, l = Layout(order, sep, padded, clock), clock \in {2, 3}
        PROVE  l.clock \in {2, 3}
    BY <2>2 DEF Layout
  <2>3. dateFormats[11].clock \in {2, 3}
    BY <1>4, <2>2
  <2>4. dateFormats[12].clock \in {2, 3}
    BY <1>4, <2>2
  <2>5. dateFormats[13].clock \in {2, 3}
    BY <1>4, <2>2
  <2>6. dateFormats[14].clock \in {2, 3}
    BY <1>4, <2>2
  <2>7. QED
    BY <2>1, <2>3, <2>4, <2>5, <2>6
<1>9. QED
  BY <1>2, <1>6, <1>7, <1>8

LEMMA MinIs ==
  ASSUME NEW T, T \subseteq Nat, NEW k \in T, \A j \in T : k <= j
  PROVE  Min(T) = k
<1>1. \A x \in T : (\A y \in T : x <= y) => x = k
  OBVIOUS
<1>2. QED
  BY <1>1 DEF Min

\* The order the list reads a date in.
ListOrder(date, s) == IF s.order = "MDY" /\ date[3] <= 12 THEN "DMY" ELSE s.order

\* The listed layouts that fit, in a style.
Fitting(c) == {i \in DOMAIN dateFormats : Fits(c, dateFormats[i])}

LEMMA FittingAre ==
  ASSUME NEW date, IsDate(date), NEW s, s.order \in Orders, NEW c, Parts(c, date, s), NEW i \in Fitting(c)
  PROVE  i \in 1..10
<1>1. i \in 1..14 /\ Fits(c, dateFormats[i])
  BY ListedLayouts DEF Fitting
<1>2. ASSUME i \in 11..14 PROVE FALSE
  <2>1. Len(LayoutSeps(dateFormats[i])) \in {4, 5}
    BY <1>2, ListedLayouts, ClockedSeps
  <2>2. Len(c.nums) = Len(LayoutSeps(dateFormats[i])) + 1
    BY <1>1 DEF Fits
  <2>3. Len(c.nums) = 3
    BY DEF Parts
  <2> HIDE DEF Parts
  <2>4. QED
    BY <2>1, <2>2, <2>3
<1>3. QED
  BY <1>1, <1>2

Reads(order, date, s) == order = s.order \/ (Exchanged(order, s.order) /\ date[3] <= 12)

LEMMA ListFits ==
  ASSUME NEW date, IsDate(date), NEW s, s.order \in Orders, NEW c, Parts(c, date, s),
         NEW i, NEW order, NEW sep, Listed(i, order, sep), i \in 1..10
  PROVE  i \in Fitting(c) <=> sep = s.sep /\ Reads(order, date, s)
<1>1. Fits(c, dateFormats[i]) <=> Fitted(date, s, dateFormats[i])
  BY FitsWhen DEF Listed
<1>2. Fitted(date, s, dateFormats[i]) <=> sep = s.sep /\ Reads(order, date, s)
  BY DEF Fitted, Listed, Reads
<1>3. i \in DOMAIN dateFormats
  BY ListedLayouts
<1>4. QED
  BY <1>1, <1>2, <1>3 DEF Fitting

LEMMA FirstFits ==
  ASSUME NEW date, IsDate(date), NEW s, <<s.order, s.sep>> \in DateStyles, NEW c, Parts(c, date, s)
  PROVE  Fitting(c) # {} /\ \E sep : Listed(Min(Fitting(c)), ListOrder(date, s), sep)
<1> DEFINE F == Fitting(c)
           In(i, order, sep) == (i \in F) <=> (sep = s.sep /\ Reads(order, date, s))
<1>1. s.order \in Orders
  BY DEF DateStyles, Orders
<1>2. F \subseteq Nat /\ \A i \in F : i \in 1..10
  BY <1>1, FittingAre
<1>3. /\ In(1, "DMY", "-") /\ In(2, "DMY", "/") /\ In(3, "DMY", ".") /\ In(4, "DMY", "-") /\ In(5, "DMY", "/")
      /\ In(6, "MDY", "-") /\ In(7, "MDY", "/") /\ In(8, "MDY", "/") /\ In(9, "YMD", "-") /\ In(10, "YMD", "/")
  <2>1. ASSUME NEW i \in 1..10, NEW order, NEW sep, Listed(i, order, sep) PROVE In(i, order, sep)
    BY <1>1, <2>1, ListFits
  <2> HIDE DEF In
  <2>2. In(1, "DMY", "-") /\ In(2, "DMY", "/") /\ In(3, "DMY", ".") /\ In(4, "DMY", "-") /\ In(5, "DMY", "/")
    BY <2>1, ListedLayouts
  <2>3. In(6, "MDY", "-") /\ In(7, "MDY", "/") /\ In(8, "MDY", "/") /\ In(9, "YMD", "-") /\ In(10, "YMD", "/")
    BY <2>1, ListedLayouts
  <2>4. QED
    BY <2>2, <2>3
<1> HIDE DEF F
<1>4. ASSUME NEW k \in F, \A j \in 1..10 : j < k => j \notin F, NEW order, NEW sep, Listed(k, order, sep)
      PROVE  F # {} /\ Listed(Min(F), order, sep)
  <2>1. k \in Nat /\ \A j \in F : k <= j
    BY <1>2, <1>4
  <2>2. Min(F) = k
    BY <1>2, <2>1, MinIs
  <2>3. QED
    BY <1>4, <2>2
<1>5. CASE s.order = "DMY"
  <2>1. ListOrder(date, s) = "DMY" /\ s.sep \in {"/", "-", "."} /\ Reads("DMY", date, s)
    BY <1>5 DEF ListOrder, DateStyles, Reads
  <2>2. CASE s.sep = "-"
    <3>1. 1 \in F
      BY <1>3, <2>1, <2>2
    <3>2. \A j \in 1..10 : j < 1 => j \notin F
      OBVIOUS
    <3>3. F # {} /\ Listed(Min(F), "DMY", "-")
      BY <1>4, <3>1, <3>2, ListedLayouts
    <3>4. QED
      BY <2>1, <3>3 DEF F
  <2>3. CASE s.sep = "/"
    <3>1. 2 \in F /\ 1 \notin F
      BY <1>3, <2>1, <2>3
    <3>2. \A j \in 1..10 : j < 2 => j \notin F
      BY <3>1
    <3>3. F # {} /\ Listed(Min(F), "DMY", "/")
      BY <1>4, <3>1, <3>2, ListedLayouts
    <3>4. QED
      BY <2>1, <3>3 DEF F
  <2>4. CASE s.sep = "."
    <3>1. 3 \in F /\ 1 \notin F /\ 2 \notin F
      BY <1>3, <2>1, <2>4
    <3>2. \A j \in 1..10 : j < 3 => j \notin F
      BY <3>1
    <3>3. F # {} /\ Listed(Min(F), "DMY", ".")
      BY <1>4, <3>1, <3>2, ListedLayouts
    <3>4. QED
      BY <2>1, <3>3 DEF F
  <2>5. QED
    BY <2>1, <2>2, <2>3, <2>4
<1>6. CASE s.order = "MDY" /\ date[3] <= 12
  <2>1. ListOrder(date, s) = "DMY" /\ s.sep \in {"/", "-"} /\ Reads("DMY", date, s)
    BY <1>6 DEF ListOrder, DateStyles, Exchanged, Reads
  <2>2. CASE s.sep = "-"
    <3>1. 1 \in F
      BY <1>3, <2>1, <2>2
    <3>2. \A j \in 1..10 : j < 1 => j \notin F
      OBVIOUS
    <3>3. F # {} /\ Listed(Min(F), "DMY", "-")
      BY <1>4, <3>1, <3>2, ListedLayouts
    <3>4. QED
      BY <2>1, <3>3 DEF F
  <2>3. CASE s.sep = "/"
    <3>1. 2 \in F /\ 1 \notin F
      BY <1>3, <2>1, <2>3
    <3>2. \A j \in 1..10 : j < 2 => j \notin F
      BY <3>1
    <3>3. F # {} /\ Listed(Min(F), "DMY", "/")
      BY <1>4, <3>1, <3>2, ListedLayouts
    <3>4. QED
      BY <2>1, <3>3 DEF F
  <2>4. QED
    BY <2>1, <2>2, <2>3
<1>7. CASE s.order = "MDY" /\ ~(date[3] <= 12)
  <2>1. ListOrder(date, s) = "MDY" /\ s.sep \in {"/", "-"} /\ Reads("MDY", date, s)
    BY <1>7 DEF ListOrder, DateStyles, Reads
  <2>2. ~Reads("DMY", date, s)
    BY <1>7 DEF Reads
  <2>3. 1 \notin F /\ 2 \notin F /\ 3 \notin F /\ 4 \notin F /\ 5 \notin F
    BY <1>3, <2>2
  <2>4. CASE s.sep = "-"
    <3>1. 6 \in F
      BY <1>3, <2>1, <2>4
    <3>2. \A j \in 1..10 : j < 6 => j \notin F
      BY <2>3
    <3>3. F # {} /\ Listed(Min(F), "MDY", "-")
      BY <1>4, <3>1, <3>2, ListedLayouts
    <3>4. QED
      BY <2>1, <3>3 DEF F
  <2>5. CASE s.sep = "/"
    <3>1. 7 \in F /\ 6 \notin F
      BY <1>3, <2>1, <2>5
    <3>2. \A j \in 1..10 : j < 7 => j \notin F
      BY <2>3, <3>1
    <3>3. F # {} /\ Listed(Min(F), "MDY", "/")
      BY <1>4, <3>1, <3>2, ListedLayouts
    <3>4. QED
      BY <2>1, <3>3 DEF F
  <2>6. QED
    BY <2>1, <2>4, <2>5
<1>8. CASE s.order = "YMD"
  <2>1. ListOrder(date, s) = "YMD" /\ s.sep \in {"/", "-"} /\ Reads("YMD", date, s)
    BY <1>8 DEF ListOrder, DateStyles, Reads
  <2>2. ~Reads("DMY", date, s) /\ ~Reads("MDY", date, s)
    BY <1>8 DEF Exchanged, Reads
  <2>3. 1 \notin F /\ 2 \notin F /\ 3 \notin F /\ 4 \notin F /\ 5 \notin F
    BY <1>3, <2>2
  <2>4. 6 \notin F /\ 7 \notin F /\ 8 \notin F
    BY <1>3, <2>2
  <2>5. CASE s.sep = "-"
    <3>1. 9 \in F
      BY <1>3, <2>1, <2>5
    <3>2. \A j \in 1..10 : j < 9 => j \notin F
      BY <2>3, <2>4
    <3>3. F # {} /\ Listed(Min(F), "YMD", "-")
      BY <1>4, <3>1, <3>2, ListedLayouts
    <3>4. QED
      BY <2>1, <3>3 DEF F
  <2>6. CASE s.sep = "/"
    <3>1. 10 \in F /\ 9 \notin F
      BY <1>3, <2>1, <2>6
    <3>2. \A j \in 1..10 : j < 10 => j \notin F
      BY <2>3, <2>4, <3>1
    <3>3. F # {} /\ Listed(Min(F), "YMD", "/")
      BY <1>4, <3>1, <3>2, ListedLayouts
    <3>4. QED
      BY <2>1, <3>3 DEF F
  <2>7. QED
    BY <2>1, <2>5, <2>6
<1>9. QED
  BY <1>1, <1>5, <1>6, <1>7, <1>8 DEF Orders

LEMMA YearsRead ==
  ASSUME NEW y \in 1969..2068, NEW shortFirst
  PROVE  YearRead(y, shortFirst) = y
<1>1. CASE y < 2000
  <2>1. y = 100 * 19 + (y - 1900) /\ y - 1900 \in 69..99
    BY <1>1
  <2>2. y % 100 = y - 1900
    BY <2>1
  <2>3. QED
    BY <2>1, <2>2 DEF YearRead
<1>2. CASE ~(y < 2000)
  <2>1. y = 100 * 20 + (y - 2000) /\ y - 2000 \in 0..68
    BY <1>2
  <2>2. y % 100 = y - 2000
    BY <2>1
  <2>3. QED
    BY <2>1, <2>2 DEF YearRead
<1>3. QED
  BY <1>1, <1>2

\* The date a layout of the same separator reads.
LEMMA LayoutReads ==
  ASSUME NEW date, IsDate(date), NEW s, s.order \in Orders, NEW c, Parts(c, date, s), NEW l, Dated(l), NEW shortFirst
  PROVE  /\ l.order = s.order => DateBy(c, l, shortFirst) = date
         /\ Exchanged(l.order, s.order) => DateBy(c, l, shortFirst) = <<date[1], date[3], date[2]>>
<1> DEFINE p == c.nums
           d == p[DayPart(l)]
           m == p[MonthPart(l)]
           y == p[YearPart(l)]
<1>1. DateBy(c, l, shortFirst) = <<YearRead(y.n, shortFirst), m.n, d.n>>
  BY DEF DateBy
<1>2. /\ l.order = "DMY" => d = p[1] /\ m = p[2] /\ y = p[3]
      /\ l.order = "MDY" => d = p[2] /\ m = p[1] /\ y = p[3]
      /\ l.order = "YMD" => d = p[3] /\ m = p[2] /\ y = p[1]
  BY DEF DayPart, MonthPart, YearPart
<1>3. p = DateParts(date, s.order) /\ l.order \in Orders
  BY DEF Parts, Dated
<1>4. date[1] \in 1969..2068 /\ date = <<date[1], date[2], date[3]>>
  BY DEF IsDate
<1> HIDE DEF p, d, m, y
<1>5. /\ s.order = "DMY" => p[1].n = date[3] /\ p[2].n = date[2] /\ p[3].n = date[1]
      /\ s.order = "MDY" => p[1].n = date[2] /\ p[2].n = date[3] /\ p[3].n = date[1]
      /\ s.order = "YMD" => p[1].n = date[1] /\ p[2].n = date[2] /\ p[3].n = date[3]
  BY <1>3, PartsAre, RunParts
<1>6. ASSUME l.order = s.order PROVE DateBy(c, l, shortFirst) = date
  <2>1. y.n = date[1] /\ m.n = date[2] /\ d.n = date[3]
    BY <1>2, <1>3, <1>5, <1>6 DEF Orders
  <2>2. QED
    BY <1>1, <1>4, <2>1, YearsRead
<1>7. ASSUME Exchanged(l.order, s.order) PROVE DateBy(c, l, shortFirst) = <<date[1], date[3], date[2]>>
  <2>1. y.n = date[1] /\ m.n = date[3] /\ d.n = date[2]
    BY <1>2, <1>5, <1>7 DEF Exchanged
  <2>2. QED
    BY <1>1, <1>4, <2>1, YearsRead
<1>8. QED
  BY <1>6, <1>7

\* The order ParseFlexibleDate tries first.
Tried(format, s) == IF format # NoFormat /\ format[1].sep = s.sep THEN format[1].order ELSE "DMY"

\* A layout an import may prefer: ISO only for an ISO statement.
Suits(l, s) == Dated(l) /\ (l.order = "YMD" => s.order = "YMD")
FormatSuits(format, s) == format = NoFormat \/ \E l : format = <<l>> /\ Suits(l, s)
\* The outcome of a date: wrong exactly when day and month are swapped.
DateRead(read, date, format, s) ==
  /\ read.ok = TRUE
  /\ read.val # date <=> s.order # "YMD" /\ Tried(format, s) # s.order /\ Swappable(date)

LEMMA DateReadBack ==
  ASSUME NEW date, IsDate(date), NEW s, <<s.order, s.sep>> \in DateStyles, NEW c, Parts(c, date, s), NEW shortFirst,
         NEW format, FormatSuits(format, s)
  PROVE  DateRead(ParseFlexibleDate(c, format, shortFirst), date, format, s)
<1> DEFINE r == ParseFlexibleDate(c, format, shortFirst)
           fitting(ls) == {i \in DOMAIN ls : Fits(c, ls[i])}
           swapped == <<date[1], date[3], date[2]>>
           Wrong == s.order # "YMD" /\ Tried(format, s) # s.order /\ Swappable(date)
<1> SUFFICES r.ok = TRUE /\ (r.val # date <=> Wrong)
  BY DEF DateRead
<1>1. s.order \in Orders
  BY DEF DateStyles, Orders
<1>2. r = IF fitting(format) # {} THEN Read(DateBy(c, format[1], shortFirst))
          ELSE IF Fitting(c) # {} THEN Read(DateBy(c, dateFormats[Min(Fitting(c))], FALSE)) ELSE Unreadable
  BY DEF ParseFlexibleDate, Fitting
<1>3. date \in (1969..2068) \X (1..12) \X (1..31)
  BY DEF IsDate
<1>4. date[2] \in 1..12 /\ date[3] \in 1..31 /\ (swapped # date <=> date[2] # date[3])
  <2>1. date = <<date[1], date[2], date[3]>>
    BY <1>3
  <2>2. date[2] = date[3] => swapped = date
    BY <2>1
  <2>3. swapped[2] = date[3]
    OBVIOUS
  <2>4. QED
    BY <1>3, <2>2, <2>3
<1>5. /\ \A l : Dated(l) /\ l.order = s.order => DateBy(c, l, shortFirst) = date /\ DateBy(c, l, FALSE) = date
      /\ \A l : Dated(l) /\ Exchanged(l.order, s.order)
           => DateBy(c, l, shortFirst) = swapped /\ DateBy(c, l, FALSE) = swapped
  <2>1. ASSUME NEW l, Dated(l), NEW first
        PROVE  /\ l.order = s.order => DateBy(c, l, first) = date
               /\ Exchanged(l.order, s.order) => DateBy(c, l, first) = swapped
    BY <1>1, <2>1, LayoutReads
  <2> HIDE DEF swapped
  <2>2. QED
    BY <2>1
<1> HIDE DEF r, swapped
\* Where the list decides.
<1>6. ASSUME fitting(format) = {}
      PROVE  /\ r.ok = TRUE
             /\ r.val = IF s.order = "MDY" /\ date[3] <= 12 THEN swapped ELSE date
  <2>1. PICK sep : Fitting(c) # {} /\ Listed(Min(Fitting(c)), ListOrder(date, s), sep)
    BY FirstFits
  <2>2. r = Read(DateBy(c, dateFormats[Min(Fitting(c))], FALSE))
    BY <1>2, <1>6, <2>1
  <2>3. Dated(dateFormats[Min(Fitting(c))]) /\ dateFormats[Min(Fitting(c))].order = ListOrder(date, s)
    BY <2>1 DEF Listed
  <2>4. CASE s.order = "MDY" /\ date[3] <= 12
    <3>1. Exchanged(ListOrder(date, s), s.order)
      BY <2>4 DEF ListOrder, Exchanged
    <3>2. DateBy(c, dateFormats[Min(Fitting(c))], FALSE) = swapped
      BY <1>5, <2>3, <3>1
    <3>3. QED
      BY <2>2, <2>4, <3>2, ReadFacts
  <2>5. CASE ~(s.order = "MDY" /\ date[3] <= 12)
    <3>1. ListOrder(date, s) = s.order
      BY <2>5 DEF ListOrder
    <3>2. DateBy(c, dateFormats[Min(Fitting(c))], FALSE) = date
      BY <1>5, <2>3, <3>1
    <3>3. QED
      BY <2>2, <2>5, <3>2, ReadFacts
  <2>6. QED
    BY <2>4, <2>5
<1>7. CASE format = NoFormat
  <2>1. fitting(format) = {} /\ Tried(format, s) = "DMY"
    BY <1>7 DEF NoFormat, Tried
  <2> HIDE DEF fitting
  <2>2. r.ok = TRUE /\ r.val = IF s.order = "MDY" /\ date[3] <= 12 THEN swapped ELSE date
    BY <1>6, <2>1
  <2>3. r.val # date <=> s.order = "MDY" /\ date[3] <= 12 /\ date[2] # date[3]
    BY <1>4, <2>2
  <2>4. Wrong <=> s.order = "MDY" /\ date[3] <= 12 /\ date[2] # date[3]
    BY <1>1, <1>4, <2>1 DEF Swappable, Orders
  <2>5. QED
    BY <2>2, <2>3, <2>4
<1>8. CASE \E l : format = <<l>> /\ Suits(l, s)
  <2>1. PICK l : format = <<l>> /\ Suits(l, s)
    BY <1>8
  <2>2. format # NoFormat /\ format[1] = l /\ DOMAIN format = {1} /\ l.order \in Orders /\ Dated(l)
    BY <2>1 DEF NoFormat, Suits, Dated
  <2>3. fitting(format) # {} <=> Fitted(date, s, l)
    <3>1. fitting(format) # {} <=> Fits(c, l)
      BY <2>2
    <3>2. QED
      BY <1>1, <2>2, <3>1, FitsWhen
  <2>4. Tried(format, s) = IF l.sep = s.sep THEN l.order ELSE "DMY"
    BY <2>2 DEF Tried
  <2> HIDE DEF fitting
  <2>5. CASE l.sep = s.sep /\ l.order = s.order
    <3>1. Fitted(date, s, l)
      BY <2>5 DEF Fitted
    <3>2. r = Read(date)
      BY <1>2, <1>5, <2>2, <2>3, <2>5, <3>1
    <3>3. ~Wrong
      BY <2>4, <2>5
    <3>4. QED
      BY <3>2, <3>3, ReadFacts
  <2>6. CASE l.sep = s.sep /\ Exchanged(l.order, s.order) /\ date[3] <= 12
    <3>1. Fitted(date, s, l)
      BY <2>6 DEF Fitted
    <3>2. r = Read(swapped)
      BY <1>2, <1>5, <2>2, <2>3, <2>6, <3>1
    <3>3. Wrong <=> date[2] # date[3]
      BY <1>4, <2>4, <2>6 DEF Swappable, Exchanged
    <3>4. QED
      BY <1>4, <3>2, <3>3, ReadFacts
  <2>7. CASE l.sep = s.sep /\ Exchanged(l.order, s.order) /\ ~(date[3] <= 12)
    <3>1. fitting(format) = {}
      BY <2>3, <2>7 DEF Fitted, Exchanged
    <3>2. r.ok = TRUE /\ r.val = date
      BY <1>6, <2>7, <3>1
    <3>3. ~Wrong
      BY <2>7 DEF Swappable
    <3>4. QED
      BY <3>2, <3>3
  <2>8. CASE l.sep # s.sep
    <3>1. fitting(format) = {} /\ Tried(format, s) = "DMY"
      BY <2>3, <2>4, <2>8 DEF Fitted
    <3>2. r.ok = TRUE /\ r.val = IF s.order = "MDY" /\ date[3] <= 12 THEN swapped ELSE date
      BY <1>6, <3>1
    <3>3. r.val # date <=> s.order = "MDY" /\ date[3] <= 12 /\ date[2] # date[3]
      BY <1>4, <3>2
    <3>4. Wrong <=> s.order = "MDY" /\ date[3] <= 12 /\ date[2] # date[3]
      BY <1>1, <1>4, <3>1 DEF Swappable, Orders
    <3>5. QED
      BY <3>2, <3>3, <3>4
  <2>9. ASSUME l.order # s.order, ~Exchanged(l.order, s.order) PROVE s.order = "YMD"
    BY <1>1, <2>1, <2>2, <2>9 DEF Suits, Exchanged, Orders
  <2>10. CASE l.sep = s.sep /\ l.order # s.order /\ ~Exchanged(l.order, s.order)
    <3>1. s.order = "YMD" /\ fitting(format) = {}
      BY <2>3, <2>9, <2>10 DEF Fitted
    <3>2. r.ok = TRUE /\ r.val = date
      BY <1>6, <3>1
    <3>3. QED
      BY <3>1, <3>2
  <2>11. QED
    BY <2>5, <2>6, <2>7, <2>8, <2>10
<1>9. QED
  BY <1>7, <1>8 DEF FormatSuits

\* The layout guessed from a date of the statement suits it.
LEMMA GuessSuits ==
  ASSUME NEW date, NEW s, <<s.order, s.sep>> \in DateStyles, NEW c, Parts(c, date, s)
  PROVE  Suits(DetectDateFormat(c), s)
<1>1. s.order \in Orders
  BY DEF DateStyles, Orders
<1>2. \A sep : Suits(Layout("DMY", sep, TRUE, 0), s)
  BY DEF Suits, Dated, Layout, Orders
<1>3. \A sep : s.order = "YMD" => Suits(Layout("YMD", sep, TRUE, 0), s)
  BY DEF Suits, Dated, Layout, Orders
<1>4. c.nums[1].w = 4 => s.order = "YMD"
  <2>1. c.nums = DateParts(date, s.order)
    BY DEF Parts
  <2>2. s.order # "YMD" => c.nums[1].w = 2
    BY <1>1, <2>1, PartsAre, RunParts DEF Orders
  <2>3. QED
    BY <2>2
<1>5. \E sep : \/ DetectDateFormat(c) = Layout("DMY", sep, TRUE, 0)
               \/ DetectDateFormat(c) = Layout("YMD", sep, TRUE, 0) /\ c.nums[1].w = 4
  BY DEF DetectDateFormat
<1>6. QED
  BY <1>2, <1>3, <1>4, <1>5

-------------------------------------------------------------------------------
(* The rows of a well-written statement are its records.                   *)

TrueRow(cells, s, k) ==
  /\ k \in 1..Len(s.rows) /\ IsTransaction(s.rows[k], s)
  /\ \E line : line.cells = cells /\ line \in Lines /\ IsRow(line, s.rows[k], s)
  /\ \E i \in (s.header + 2)..Len(s.lines) : cells = s.lines[i].cells

LEMMA WrittenRecords ==
  ASSUME NEW s, IsStatement(s), Written(s)
  PROVE  s.header + 1 \in 1..Len(s.lines) /\ RecordsFrom(s.lines, s.header + 1, s.delim)
<1> DEFINE lines == s.lines
           H == s.header + 1
<1>1. lines \in Seq(Lines) /\ s.header \in 0..(Len(lines) - 1) /\ Len(s.rows) = Len(lines) - s.header - 1
  BY DEF IsStatement
<1>2. Len(lines) \in Nat /\ H \in 1..Len(lines)
  BY <1>1
<1>3. ~Silent(lines, H) /\ lines[H].delim = s.delim
  BY DEF Written, Silent
<1>4. ASSUME NEW i \in (H + 1)..Len(lines) PROVE ~Silent(lines, i) /\ lines[i].delim = s.delim
  <2>1. i - H \in 1..Len(s.rows) /\ s.header + 1 + (i - H) = i
    BY <1>1, <1>2
  <2>2. IsRow(lines[i], s.rows[i - H], s)
    <3>1. IsRow(s.lines[s.header + 1 + (i - H)], s.rows[i - H], s)
      BY <2>1 DEF Written
    <3>2. QED
      BY <2>1, <3>1
  <2>3. lines[i].delim = s.delim /\ ~lines[i].cont /\ s.columns["date"] \in 0..(Len(lines[i].cells) - 1)
    BY <2>2 DEF IsRow
  <2>4. lines[i].cells # <<>>
    <3>1. Len(<<>>) = 0 /\ 0..(0 - 1) = {}
      OBVIOUS
    <3>2. QED
      BY <2>3, <3>1
  <2>5. QED
    BY <2>3, <2>4 DEF Silent
<1>5. \A i \in H..Len(lines) : i = H \/ i \in (H + 1)..Len(lines)
  BY <1>2
<1>6. QED
  BY <1>2, <1>3, <1>4, <1>5 DEF RecordsFrom

LEMMA RowNumbers ==
  ASSUME NEW top, NEW h, NEW n \in Nat, NEW r, NEW H, NEW len,
         top \in 0..(n - 1), h \in Nat, h < H, H = top + 1, r = n - top - 1, len = n - h
  PROVE  /\ top \in Nat /\ h <= top /\ r \in Nat /\ len = top + 1 + r - h
         /\ \A k \in (top + 2)..len :
              /\ (k - top - 1 + h) \in 1..r /\ H + (k - top - 1 + h) \in H..n
              /\ (H + (k - top - 1 + h)) - h = k
  OBVIOUS

LEMMA RecordsAreRows ==
  ASSUME NEW s, IsStatement(s), Written(s), NEW R, R = Records(s.lines, s.delim),
         NEW h, h = HiddenIn(s.lines, s.header + 1)
  PROVE  /\ s.header \in Nat /\ h \in Nat /\ h <= s.header /\ Len(s.rows) \in Nat
         /\ R \in Seq({R[k] : k \in DOMAIN R}) /\ Len(R) = s.header + 1 + Len(s.rows) - h
         /\ \A k \in (s.header + 2)..Len(R) : TrueRow(R[k], s, k - s.header - 1 + h)
<1> DEFINE lines == s.lines
           H == s.header + 1
<1>1. /\ lines \in Seq(Lines) /\ Len(lines) \in Nat /\ s.header \in 0..(Len(lines) - 1)
      /\ Len(s.rows) = Len(lines) - s.header - 1 /\ H \in 1..Len(lines)
  BY DEF IsStatement
<1>2. /\ h \in Nat /\ h < H /\ R \in Seq({R[k] : k \in DOMAIN R}) /\ Len(R) = Len(lines) - h
      /\ \A i \in H..Len(lines) : R[i - h] = lines[i].cells
  <2>1. RecordsFrom(lines, H, s.delim)
    BY WrittenRecords
  <2> HIDE DEF lines, H
  <2>2. /\ HiddenIn(lines, H) \in Nat /\ HiddenIn(lines, H) < H
        /\ Records(lines, s.delim) \in Seq({Records(lines, s.delim)[k] : k \in DOMAIN Records(lines, s.delim)})
        /\ Len(Records(lines, s.delim)) = Len(lines) - HiddenIn(lines, H)
        /\ \A i \in H..Len(lines) : Records(lines, s.delim)[i - HiddenIn(lines, H)] = lines[i].cells
    BY <1>1, <2>1, RecordsAligned
  <2>3. R = Records(lines, s.delim) /\ h = HiddenIn(lines, H)
    BY DEF lines, H
  <2> HIDE DEF lines, H
  <2>4. QED
    BY <2>2, <2>3
<1>9. H = s.header + 1 /\ lines = s.lines
  OBVIOUS
<1> HIDE DEF lines, H
<1>4. /\ s.header \in Nat /\ h <= s.header /\ Len(s.rows) \in Nat /\ Len(R) = s.header + 1 + Len(s.rows) - h
      /\ \A k \in (s.header + 2)..Len(R) :
           /\ (k - s.header - 1 + h) \in 1..Len(s.rows) /\ H + (k - s.header - 1 + h) \in H..Len(lines)
           /\ (H + (k - s.header - 1 + h)) - h = k
  <2>1. Len(lines) \in Nat /\ s.header \in 0..(Len(lines) - 1) /\ Len(s.rows) = Len(lines) - s.header - 1
        /\ h \in Nat /\ h < H /\ Len(R) = Len(lines) - h /\ H = s.header + 1
    BY <1>1, <1>2, <1>9
  <2> DEFINE top == s.header
             r == Len(s.rows)
             n == Len(lines)
             len == Len(R)
  <2>2. n \in Nat /\ top \in 0..(n - 1) /\ r = n - top - 1 /\ h \in Nat /\ h < H /\ len = n - h /\ H = top + 1
    BY <2>1
  <2> HIDE DEF top, r, n, len
  <2>3. /\ top \in Nat /\ h <= top /\ r \in Nat /\ len = top + 1 + r - h
        /\ \A k \in (top + 2)..len :
              /\ (k - top - 1 + h) \in 1..r /\ H + (k - top - 1 + h) \in H..n
              /\ (H + (k - top - 1 + h)) - h = k
    BY <2>2, RowNumbers
  <2>4. QED
    BY <2>3 DEF top, r, n, len
<1>3. ASSUME NEW k \in (s.header + 2)..Len(R) PROVE TrueRow(R[k], s, k - s.header - 1 + h)
  <2> DEFINE j == k - s.header - 1 + h
  <2>1. j \in 1..Len(s.rows) /\ H + j \in H..Len(lines) /\ (H + j) - h = k
    BY <1>4 DEF j
  <2>2. IsTransaction(s.rows[j], s) /\ IsRow(lines[H + j], s.rows[j], s)
    BY <1>9, <2>1 DEF Written
  <2>3. R[k] = lines[H + j].cells /\ lines[H + j] \in Lines
    <3>1. R[(H + j) - h] = lines[H + j].cells
      BY <1>2, <2>1
    <3>2. lines[H + j] \in Lines
      <4>1. \A i \in 1..Len(lines) : lines[i] \in Lines
        BY <1>1
      <4>2. \A i \in H..Len(lines) : i \in 1..Len(lines)
        BY <1>1
      <4>3. QED
        BY <2>1, <4>1, <4>2
    <3>3. QED
      BY <2>1, <3>1, <3>2
  <2> HIDE DEF j
  <2>4. H + j \in (s.header + 2)..Len(s.lines)
    BY <1>1, <1>4, <1>9, <2>1
  <2>5. R[k] = s.lines[H + j].cells
    BY <1>9, <2>3
  <2>6. TrueRow(R[k], s, j)
    BY <2>1, <2>2, <2>3, <2>4, <2>5 DEF TrueRow
  <2>7. QED
    BY <2>6 DEF j
<1>5. QED
  BY <1>2, <1>3, <1>4

-------------------------------------------------------------------------------
(* What a row of the statement is parsed to.                               *)

Sees(m, s) == m.date = s.columns["date"] /\ m.desc = s.columns["desc"] /\ AmountsSeen(m, s)
Nameless(row) == row.desc = ""

LEMMA DescriptionsRead ==
  ASSUME NEW d
  PROVE  Word(d).word = d /\ (IsBlank(Word(d)) => Wordless(Word(d))) /\ (Wordless(Word(d)) => IsBlank(Word(d)))
<1>1. Word(d).word = d
  BY DEF Word, Cell
<1>2. IsBlank(Word(d)) => Wordless(Word(d))
  BY DEF IsBlank, EmptyCell, Word, Cell, Wordless
<1>3. Wordless(Word(d)) => IsBlank(Word(d))
  BY <1>1 DEF IsBlank, EmptyCell, Wordless
<1>4. QED
  BY <1>1, <1>2, <1>3

\* The amount of a row, in the format of the statement or of units in the other.
LEMMA RowAmount ==
  ASSUME NEW s, NEW row, IsTransaction(row, s), NEW cells, SaysAmount(cells, row.cents, s),
         NEW m, AmountsSeen(m, s), s.cents => m.isEuropean = s.european,
         \A col \in AmountColumns(s) : ~(col < 0)
  PROVE  /\ ~AmountOf(cells, m).ok =>
              \/ Refusing(row.cents, s)
              \/ ~s.cents /\ m.isEuropean # s.european /\ Magnitude(row.cents) \div 100 >= Million
         /\ AmountOf(cells, m).ok /\ AmountOf(cells, m).val # row.cents =>
              \/ Hiding(row.cents, s)
              \/ ~s.cents /\ m.isEuropean # s.european
<1>1. row.cents \in Int /\ (s.cents \/ Magnitude(row.cents) % 100 = 0)
  BY DEF IsTransaction
<1>2. m.isEuropean = s.european => SamePoint(m, s)
  BY DEF SamePoint
<1>3. CASE s.double
  <2>1. /\ SamePoint(m, s) => \/ AmountOf(cells, m).ok = TRUE /\ (AmountOf(cells, m).val = row.cents \/ Hiding(row.cents, s))
                              \/ Refusing(row.cents, s) /\ AmountOf(cells, m).ok = FALSE
        /\ ~s.cents => AmountOf(cells, m).ok \/ Refusing(row.cents, s) \/ Magnitude(row.cents) \div 100 >= Million
    BY <1>1, <1>3, DoubleAmount
  <2>2. QED
    BY <1>2, <2>1
<1>4. CASE ~s.double
  <2>1. /\ SamePoint(m, s) => AmountOf(cells, m) = Read(row.cents)
        /\ ~s.cents => AmountOf(cells, m).ok \/ Magnitude(row.cents) \div 100 >= Million
    BY <1>1, <1>4, SingleAmount
  <2>2. SamePoint(m, s) => AmountOf(cells, m).ok = TRUE /\ AmountOf(cells, m).val = row.cents
    BY <2>1, ReadFacts
  <2>3. QED
    BY <1>2, <2>1, <2>2
<1>5. QED
  BY <1>3, <1>4

LEMMA RowRead ==
  ASSUME NEW s, <<s.order, s.sep>> \in DateStyles, NEW cells, NEW k, TrueRow(cells, s, k),
         NEW m, Sees(m, s), s.cents => m.isEuropean = s.european,
         FormatSuits(m.dateFormat, s),
         NEW shortFirst, NEW row, row = s.rows[k], NEW r, r = parseRow(cells, m, shortFirst)
  PROVE  /\ r.outcome # "parsed" =>
              \/ Nameless(row) \/ Refusing(row.cents, s)
              \/ ~s.cents /\ m.isEuropean # s.european /\ Magnitude(row.cents) \div 100 >= Million
         /\ r.outcome = "parsed" =>
              /\ r.desc = row.desc
              /\ r.cents # row.cents => Hiding(row.cents, s) \/ (~s.cents /\ m.isEuropean # s.european)
              /\ r.date # row.date
                   <=> s.order # "YMD" /\ Tried(m.dateFormat, s) # s.order /\ Swappable(row.date)
<1> DEFINE date == ParseFlexibleDate(cells[m.date + 1], m.dateFormat, shortFirst)
           amount == AmountOf(cells, m)
           desc == cells[m.desc + 1]
<1>1. PICK line \in Lines : line.cells = cells /\ IsRow(line, row, s)
  BY DEF TrueRow
<1>2. /\ ({m.date, m.desc} \cup AmountColumns(s)) \subseteq 0..(Len(cells) - 1)
      /\ cells[m.date + 1] = DateText(row.date, s) /\ desc = Word(row.desc)
      /\ SaysAmount(cells, row.cents, s) /\ IsTransaction(row, s)
  BY <1>1 DEF IsRow, Sees, TrueRow
<1>3. Used(m) = {m.date, m.desc} \cup AmountColumns(s)
  BY DEF Used, AmountColumns, Sees, AmountsSeen
<1>4. ~(\E col \in Used(m) : col > Len(cells) - 1) /\ ~(\E col \in Used(m) : col < 0)
  <2>1. cells \in Seq(Cells)
    BY <1>1 DEF Lines
  <2>2. Len(cells) \in Nat
    BY <2>1
  <2>3. \A col \in Used(m) : col \in 0..(Len(cells) - 1)
    BY <1>2, <1>3
  <2>4. \A col \in Used(m) : ~(col > Len(cells) - 1) /\ ~(col < 0)
    BY <2>2, <2>3
  <2>5. QED
    BY <2>4
<1>5. r = IF ~date.ok \/ IsBlank(desc) \/ ~amount.ok THEN Refused
          ELSE [outcome |-> "parsed", date |-> date.val, cents |-> amount.val, desc |-> desc.word]
  <2>1. /\ ~(\E col \in {m.date, m.desc} : col > Len(cells) - 1) /\ ~(m.date < 0) /\ ~(m.desc < 0)
        /\ ~(~m.isDoubleEntry /\ m.amount < 0)
    BY <1>4 DEF Used
  <2> HIDE DEF date, amount
  <2>2. QED
    BY <1>4, <2>1 DEF parseRow, date, amount
<1>6. /\ date.ok = TRUE
      /\ date.val # row.date <=> s.order # "YMD" /\ Tried(m.dateFormat, s) # s.order /\ Swappable(row.date)
  <2>1. s.order \in Orders /\ IsDate(row.date)
    BY <1>2 DEF DateStyles, Orders, IsTransaction
  <2>2. Parts(cells[m.date + 1], row.date, s)
    BY <1>2, <2>1, DateIsParts
  <2> DEFINE c == cells[m.date + 1]
             format == m.dateFormat
             day == row.date
  <2>3. Parts(c, day, s) /\ IsDate(day) /\ FormatSuits(format, s)
    BY <2>1, <2>2
  <2> HIDE DEF c, format, day
  <2>4. DateRead(ParseFlexibleDate(c, format, shortFirst), day, format, s)
    BY <2>3, DateReadBack
  <2>5. QED
    BY <2>4 DEF c, format, day, DateRead
<1>7. desc.word = row.desc /\ (IsBlank(desc) <=> Nameless(row))
  BY <1>2, DescriptionsRead DEF Wordless, Nameless
<1>8. /\ ~amount.ok =>
           \/ Refusing(row.cents, s)
           \/ ~s.cents /\ m.isEuropean # s.european /\ Magnitude(row.cents) \div 100 >= Million
      /\ amount.ok /\ amount.val # row.cents =>
           \/ Hiding(row.cents, s)
           \/ ~s.cents /\ m.isEuropean # s.european
  <2>1. \A col \in AmountColumns(s) : ~(col < 0)
    BY <1>3, <1>4
  <2>2. QED
    BY <1>2, <2>1, RowAmount DEF Sees
<1> HIDE DEF date, amount, desc
<1>9. CASE IsBlank(desc) \/ ~amount.ok
  <2>1. r.outcome = "refused"
    BY <1>5, <1>9 DEF Refused
  <2>2. QED
    BY <1>7, <1>8, <1>9, <2>1
<1>10. CASE ~IsBlank(desc) /\ amount.ok
  <2>1. r.outcome = "parsed" /\ r.date = date.val /\ r.cents = amount.val /\ r.desc = desc.word
    BY <1>5, <1>6, <1>10
  <2>2. QED
    BY <1>6, <1>7, <1>8, <1>10, <2>1
<1>11. QED
  BY <1>9, <1>10

LEMMA PartOfSeq ==
  ASSUME NEW S, NEW R \in Seq(S), NEW a \in Nat, NEW b \in Int, a >= 1, b <= Len(R)
  PROVE  /\ DOMAIN SubSeq(R, a, b) = 1..(b - a + 1) /\ SubSeq(R, a, b) \in Seq(S)
         /\ Len(SubSeq(R, a, b)) = IF b < a THEN 0 ELSE b - a + 1
         /\ \A i \in 1..(b - a + 1) : SubSeq(R, a, b)[i] = R[a + i - 1]
<1>1. CASE b < a
  <2>1. SubSeq(R, a, b) = <<>>
    BY <1>1
  <2>2. 1..(b - a + 1) = {}
    BY <1>1
  <2>3. <<>> \in Seq(S) /\ DOMAIN <<>> = {} /\ Len(<<>>) = 0
    OBVIOUS
  <2>4. QED
    BY <1>1, <2>1, <2>2, <2>3
<1>2. CASE ~(b < a)
  <2>1. Len(R) \in Nat
    OBVIOUS
  <2>2. \A i \in a..b : i \in 1..Len(R)
    BY <2>1
  <2>3. SubSeq(R, a, b) \in Seq(S)
    BY <2>1, <2>2
  <2>4. Len(SubSeq(R, a, b)) = b - a + 1
    BY <1>2, <2>1
  <2>5. ASSUME NEW i \in 1..(b - a + 1) PROVE SubSeq(R, a, b)[i] = R[a + i - 1]
    BY <1>2, <2>1
  <2>6. DOMAIN SubSeq(R, a, b) = 1..(b - a + 1)
    BY <2>3, <2>4
  <2>7. QED
    BY <1>2, <2>3, <2>4, <2>5, <2>6
<1>3. QED
  BY <1>1, <1>2

LEMMA MaxWithZero ==
  ASSUME NEW x \in Int
  PROVE  Max({0, x}) = IF x < 0 THEN 0 ELSE x
<1>1. \A m \in {0, x} : (\A y \in {0, x} : m >= y) <=> m = IF x < 0 THEN 0 ELSE x
  OBVIOUS
<1>2. (IF x < 0 THEN 0 ELSE x) \in {0, x}
  OBVIOUS
<1>3. Max({0, x}) = CHOOSE m \in {0, x} : \A y \in {0, x} : m >= y
  BY DEF Max
<1>4. QED
  BY <1>1, <1>2, <1>3

\* The rows the import reads and those it looks at for the formats.
ReadsRows(config, s) ==
  /\ config.skipLines = s.header /\ config.delim = s.delim
  /\ config.sampleRows = getSampleRows(s.lines, config.delim, config.skipLines + 1)
AllTrue(rows, s, h) == \A i \in DOMAIN rows : TrueRow(rows[i], s, i + h)

LEMMA RowsRead ==
  ASSUME NEW s, IsStatement(s), Written(s), NEW config, ReadsRows(config, s),
         NEW h, h = HiddenIn(s.lines, s.header + 1), NEW D, D = DataRecords(s.lines, config)
  PROVE  /\ DOMAIN D = 1..Len(D) /\ Len(D) = Max({0, Len(s.rows) - h}) /\ AllTrue(D, s, h)
         /\ DOMAIN config.sampleRows \subseteq 1..5 /\ AllTrue(config.sampleRows, s, h)
         /\ D # <<>> => 1 \in DOMAIN config.sampleRows
         /\ \E k \in Nat : DOMAIN config.sampleRows = 1..k
<1> DEFINE R == Records(s.lines, s.delim)
           S == {R[k] : k \in DOMAIN R}
           top == s.header
           r == Len(s.rows)
           n == Len(R)
           last == IF n < top + 1 + 5 THEN n ELSE top + 1 + 5
           sample == config.sampleRows
<1>1. /\ top \in Nat /\ h \in Nat /\ h <= top /\ r \in Nat /\ R \in Seq(S) /\ n = top + 1 + r - h
      /\ \A k \in (top + 2)..n : TrueRow(R[k], s, k - top - 1 + h)
  BY RecordsAreRows
<1>2. D = SubSeq(R, top + 2, n) /\ sample = SubSeq(R, top + 2, last)
  <2>1. DataRecords(s.lines, config) = SubSeq(R, top + 2, n)
    BY DEF DataRecords, ReadsRows
  <2>2. getSampleRows(s.lines, s.delim, top + 1) = SubSeq(R, top + 1 + 1, last)
    BY DEF getSampleRows, SampleLimit
  <2>3. sample = getSampleRows(s.lines, s.delim, top + 1)
    BY DEF ReadsRows
  <2>4. top + 1 + 1 = top + 2
    BY <1>1
  <2>5. QED
    BY <2>1, <2>2, <2>3, <2>4
<1>3. top + 2 \in Nat /\ top + 2 >= 1 /\ n \in Int /\ last \in Int /\ last <= n
  <2>1. top \in Int /\ n \in Int /\ top + 2 \in Nat /\ top + 2 >= 1
    BY <1>1
  <2> HIDE DEF top, n
  <2>2. QED
    BY <2>1
<1> HIDE DEF R, S, top, r, n, last, sample
<1>4. ASSUME NEW b \in Int, b <= n, NEW T, T = SubSeq(R, top + 2, b)
      PROVE  /\ DOMAIN T = 1..(b - top - 1) /\ Len(T) = (IF b < top + 2 THEN 0 ELSE b - top - 1)
             /\ AllTrue(T, s, h)
  <2>1. /\ DOMAIN SubSeq(R, top + 2, b) = 1..(b - (top + 2) + 1)
        /\ Len(SubSeq(R, top + 2, b)) = IF b < top + 2 THEN 0 ELSE b - (top + 2) + 1
        /\ \A i \in 1..(b - (top + 2) + 1) : SubSeq(R, top + 2, b)[i] = R[top + 2 + i - 1]
    BY <1>1, <1>3, <1>4, PartOfSeq DEF n
  <2>2. b - (top + 2) + 1 = b - top - 1
    BY <1>1
  <2>3. ASSUME NEW i \in 1..(b - top - 1) PROVE TrueRow(T[i], s, i + h)
    <3>1. top + 2 + i - 1 \in (top + 2)..n /\ (top + 2 + i - 1) - top - 1 + h = i + h
      BY <1>1, <1>3, <1>4
    <3>2. T[i] = R[top + 2 + i - 1]
      BY <1>4, <2>1, <2>2, <2>3
    <3>3. TrueRow(R[top + 2 + i - 1], s, (top + 2 + i - 1) - top - 1 + h)
      BY <1>1, <3>1
    <3>4. QED
      BY <3>1, <3>2, <3>3
  <2>4. QED
    BY <1>4, <2>1, <2>2, <2>3 DEF AllTrue
<1>5. DOMAIN D = 1..(n - top - 1) /\ Len(D) = (IF n < top + 2 THEN 0 ELSE n - top - 1) /\ AllTrue(D, s, h)
  <2>1. n <= n
    BY <1>3
  <2>2. QED
    BY <1>2, <1>3, <1>4, <2>1
<1>6. DOMAIN sample = 1..(last - top - 1) /\ AllTrue(sample, s, h)
  BY <1>2, <1>3, <1>4
<1>7. Len(D) = Max({0, r - h}) /\ DOMAIN D = 1..Len(D)
  <2>1. r - h \in Int /\ n - top - 1 = r - h
    BY <1>1
  <2>2. Max({0, r - h}) = IF r - h < 0 THEN 0 ELSE r - h
    BY <2>1, MaxWithZero
  <2>3. Len(D) = IF r - h < 0 THEN 0 ELSE r - h
    BY <1>1, <1>5, <2>1
  <2>4. 1..(r - h) = 1..(IF r - h < 0 THEN 0 ELSE r - h)
    BY <2>1
  <2>5. QED
    BY <1>5, <2>1, <2>2, <2>3, <2>4
<1>8. DOMAIN sample \subseteq 1..5
  <2>1. last <= top + 1 + 5
    BY <1>1, <1>3 DEF last
  <2>2. \A j \in 1..(last - top - 1) : j \in 1..5
    BY <1>1, <1>3, <2>1
  <2>3. QED
    BY <1>6, <2>2
<1>9. D # <<>> => 1 \in DOMAIN sample
  <2>1. ASSUME n < top + 2 PROVE D = <<>>
    <3>1. SubSeq(R, top + 2, n) = <<>>
      BY <1>1, <1>3, <2>1
    <3>2. QED
      BY <1>2, <3>1
  <2>2. ~(n < top + 2) => 1 \in DOMAIN sample
    BY <1>1, <1>3, <1>6 DEF last
  <2>3. QED
    BY <2>1, <2>2
<1>10. \E k \in Nat : DOMAIN sample = 1..k
  <2>1. last - top - 1 \in Int
    BY <1>1, <1>3
  <2>2. 1..(last - top - 1) = 1..(IF last - top - 1 < 0 THEN 0 ELSE last - top - 1)
    BY <2>1
  <2>3. (IF last - top - 1 < 0 THEN 0 ELSE last - top - 1) \in Nat
    BY <2>1
  <2>4. QED
    BY <1>6, <2>2, <2>3
<1>11. QED
  BY <1>5, <1>6, <1>7, <1>8, <1>9, <1>10 DEF r, sample

-------------------------------------------------------------------------------
(* The votes of the sample rows.                                           *)

LEMMA CellsFinite ==
  ASSUME NEW rows, DOMAIN rows \subseteq 1..5, NEW col
  PROVE  IsFiniteSet(WrittenAt(rows, col))
<1> DEFINE A == DOMAIN rows
           f == [i \in A |-> <<i, rows[i][col + 1]>>]
           T == {f[i] : i \in A}
<1>1. IsFiniteSet(A)
  <2>1. IsFiniteSet(1..5)
    BY RangeFinite
  <2>2. QED
    BY <2>1, FS_Subset
<1>2. f \in Surjection(A, T)
  BY DEF Surjection
<1>3. IsFiniteSet(T)
  BY <1>1, <1>2, FS_Surjection
<1>4. WrittenAt(rows, col) \subseteq T
  BY DEF WrittenAt, CellsAt
<1>5. QED
  BY <1>3, <1>4, FS_Subset

LEMMA SamplesFinite ==
  ASSUME NEW rows, DOMAIN rows \subseteq 1..5, NEW a, NEW b
  PROVE  IsFiniteSet(Samples(rows, {a, b}))
<1>1. Samples(rows, {a, b}) = (WrittenAt(rows, a) \X {a}) \cup (WrittenAt(rows, b) \X {b})
  BY DEF Samples
<1>2. IsFiniteSet(WrittenAt(rows, a)) /\ IsFiniteSet(WrittenAt(rows, b)) /\ IsFiniteSet({a}) /\ IsFiniteSet({b})
  BY CellsFinite, FS_Singleton
<1>3. IsFiniteSet(WrittenAt(rows, a) \X {a}) /\ IsFiniteSet(WrittenAt(rows, b) \X {b})
  BY <1>2, FS_Product
<1> DEFINE X == WrittenAt(rows, a) \X {a}
           Y == WrittenAt(rows, b) \X {b}
<1>4. IsFiniteSet(X) /\ IsFiniteSet(Y) /\ Samples(rows, {a, b}) = X \cup Y
  BY <1>1, <1>3
<1> HIDE DEF X, Y
<1>5. IsFiniteSet(X \cup Y)
  BY <1>4, FS_Union
<1>6. QED
  BY <1>4, <1>5

\* A side with all the votes wins.
LEMMA AllOneWay ==
  ASSUME NEW V, IsFiniteSet(V), V # {}
  PROVE  Cardinality(V) \in Nat /\ Cardinality(V) > 0 /\ Cardinality({}) = 0
<1>1. Cardinality(V) \in Nat /\ Cardinality(V) # 0 /\ Cardinality({}) = 0
  BY FS_CardinalityType, FS_EmptySet
<1>2. QED
  BY <1>1

\* Where a cell of the samples stands and what it holds.
LEMMA WhereWritten ==
  ASSUME NEW rows, NEW col, NEW p \in WrittenAt(rows, col)
  PROVE  p[1] \in DOMAIN rows /\ p[2] = rows[p[1]][col + 1]
  BY DEF WrittenAt, CellsAt

LEMMA TrueCells ==
  ASSUME NEW s, s.cents, NEW cells, NEW k, TrueRow(cells, s, k)
  PROVE  /\ \A col \in AmountColumns(s) :
              /\ SampleVote(cells[col + 1]) \in {0, VoteOf(s)} /\ analyzeAmountFormat(cells[col + 1]) \in {0, VoteOf(s)}
              /\ SepsIn(cells[col + 1]) # {} => analyzeAmountFormat(cells[col + 1]) = VoteOf(s)
         /\ \E col \in AmountColumns(s) :
              /\ SampleVote(cells[col + 1]) = VoteOf(s) /\ ~IsBlank(cells[col + 1])
              /\ col >= 0 /\ col < Len(cells)
<1>1. PICK line \in Lines : line.cells = cells /\ IsRow(line, s.rows[k], s)
  BY DEF TrueRow
<1>2. SaysAmount(cells, s.rows[k].cents, s) /\ s.rows[k].cents \in Int
  BY <1>1 DEF IsRow, TrueRow, IsTransaction
<1>3. Len(cells) \in Nat /\ \A col \in AmountColumns(s) : col \in 0..(Len(cells) - 1)
  <2>1. cells \in Seq(Cells)
    BY <1>1 DEF Lines
  <2>2. Len(cells) \in Nat
    BY <2>1
  <2>3. AmountColumns(s) \subseteq 0..(Len(cells) - 1)
    BY <1>1 DEF IsRow
  <2>4. QED
    BY <2>2, <2>3
<1>4. \A col \in AmountColumns(s) : col >= 0 /\ col < Len(cells)
  BY <1>3
<1>5. \A c : SepsIn(c) # {} => ~IsBlank(c)
  BY BareCells, NoSepsNoVote DEF IsBlank
<1> DEFINE rowCents == s.rows[k].cents
<1>6. SaysAmount(cells, rowCents, s) /\ rowCents \in Int
  BY <1>2
<1> HIDE DEF rowCents
<1>7. /\ \A col \in AmountColumns(s) :
              /\ SampleVote(cells[col + 1]) \in {0, VoteOf(s)} /\ analyzeAmountFormat(cells[col + 1]) \in {0, VoteOf(s)}
              /\ SepsIn(cells[col + 1]) # {} => analyzeAmountFormat(cells[col + 1]) = VoteOf(s)
      /\ \E col \in AmountColumns(s) : SampleVote(cells[col + 1]) = VoteOf(s) /\ SepsIn(cells[col + 1]) # {}
  BY <1>6, RowVotes
<1>8. QED
  BY <1>4, <1>5, <1>7

LEMMA VotesDiffer == \A s : VoteOf(s) \in {1, -1} /\ VoteOf(s) # 0 /\ (VoteOf(s) = 1 => -VoteOf(s) = -1)
  BY DEF VoteOf

\* The samples of a statement that shows its cents decide for its format.
LEMMA SamplesDecide ==
  ASSUME NEW s, s.cents, NEW rows, NEW h, AllTrue(rows, s, h), DOMAIN rows \subseteq 1..5, DOMAIN rows # {},
         NEW m, AmountsSeen(m, s)
  PROVE  detectEuropeanFormat(rows, m) = VoteOf(s)
<1> DEFINE cols == AmountColumns(s)
           all == Samples(rows, cols)
           V(v) == {p \in all : SampleVote(p[1][2]) = v}
           votes(v) == Cardinality(V(v))
<1>1. detectEuropeanFormat(rows, m) = IF votes(1) = votes(-1) THEN 0 ELSE IF votes(1) > votes(-1) THEN 1 ELSE -1
  <2>1. cols = IF m.isDoubleEntry THEN {m.debit, m.credit} ELSE {m.amount}
    BY DEF AmountColumns, AmountsSeen
  <2> HIDE DEF cols
  <2>2. QED
    BY <2>1 DEF detectEuropeanFormat
<1>2. IsFiniteSet(all)
  <2>1. \E a, b : cols = {a, b}
    BY DEF AmountColumns
  <2> HIDE DEF cols
  <2>2. QED
    BY <2>1, SamplesFinite
<1>3. ASSUME NEW p \in all
      PROVE  \E i \in DOMAIN rows, col \in cols : p[1][2] = rows[i][col + 1]
  <2>1. PICK col \in cols : p \in WrittenAt(rows, col) \X {col}
    BY DEF Samples
  <2>2. p[1] \in WrittenAt(rows, col)
    BY <2>1
  <2>3. QED
    BY <2>2, WhereWritten
<1>4. ASSUME NEW i \in DOMAIN rows
      PROVE  /\ \A col \in cols : SampleVote(rows[i][col + 1]) \in {0, VoteOf(s)}
             /\ \E col \in cols : /\ SampleVote(rows[i][col + 1]) = VoteOf(s) /\ ~IsBlank(rows[i][col + 1])
                                  /\ col >= 0 /\ col < Len(rows[i])
  <2>1. TrueRow(rows[i], s, i + h)
    BY DEF AllTrue
  <2>2. QED
    BY <2>1, TrueCells
<1> HIDE DEF cols
<1>5. ASSUME NEW v, v # 0, v # VoteOf(s) PROVE V(v) = {}
  BY <1>3, <1>4, <1>5
<1>6. V(VoteOf(s)) # {}
  <2>1. PICK i \in DOMAIN rows : TRUE
    OBVIOUS
  <2>2. PICK col \in cols : /\ SampleVote(rows[i][col + 1]) = VoteOf(s) /\ ~IsBlank(rows[i][col + 1])
                            /\ col >= 0 /\ col < Len(rows[i])
    BY <1>4
  <2> DEFINE p == << <<i, rows[i][col + 1]>>, col >>
  <2>3. p[1] \in WrittenAt(rows, col)
    BY <2>2 DEF WrittenAt, CellsAt
  <2>4. p \in all
    BY <2>3 DEF Samples
  <2>5. SampleVote(p[1][2]) = VoteOf(s)
    BY <2>2
  <2> HIDE DEF p, all
  <2>6. QED
    BY <2>4, <2>5
<1>7. votes(VoteOf(s)) \in Nat /\ votes(VoteOf(s)) > 0 /\ \A v : v # 0 /\ v # VoteOf(s) => votes(v) = 0
  <2>1. IsFiniteSet(V(VoteOf(s)))
    BY <1>2, FS_Subset
  <2> HIDE DEF V
  <2>2. QED
    BY <1>5, <1>6, <2>1, AllOneWay
<1> HIDE DEF votes
<1>8. CASE VoteOf(s) = 1
  BY <1>1, <1>7, <1>8
<1>9. CASE VoteOf(s) = -1
  BY <1>1, <1>7, <1>9
<1>10. QED
  BY <1>8, <1>9, VotesDiffer

-------------------------------------------------------------------------------
(* What is understood of a statement is read as the bank meant it.         *)

LEMMA DateCells ==
  ASSUME NEW s, <<s.order, s.sep>> \in DateStyles, NEW cells, NEW k, TrueRow(cells, s, k)
  PROVE  Parts(cells[s.columns["date"] + 1], s.rows[k].date, s)
<1>1. s.order \in Orders
  BY DEF DateStyles, Orders
<1>2. cells[s.columns["date"] + 1] = DateText(s.rows[k].date, s)
  BY DEF TrueRow, IsRow
<1>3. QED
  BY <1>1, <1>2, DateIsParts

\* The first date sample is the date of a row.
LEMMA FirstDateSuits ==
  ASSUME NEW s, <<s.order, s.sep>> \in DateStyles, NEW rows, NEW h, AllTrue(rows, s, h), DOMAIN rows \subseteq 1..5,
         FirstDate(rows, s.columns["date"]) # <<>>
  PROVE  Suits(DetectDateFormat(FirstDate(rows, s.columns["date"])[1]), s)
<1> DEFINE col == s.columns["date"]
           written == WrittenAt(rows, col)
           T == {p[1] : p \in written}
           first == CHOOSE p \in written : \A q \in written : p[1] <= q[1]
<1>1. written # {} /\ FirstDate(rows, col)[1] = first[2]
  BY DEF FirstDate
<1>2. T \subseteq Nat /\ T # {}
  <2>1. \A p \in written : p[1] \in 1..5
    BY WhereWritten
  <2>2. QED
    BY <1>1, <2>1
<1>3. PICK x \in T : \A y \in T : x <= y
  BY <1>2, LeastNatural
<1>4. first \in written
  BY <1>3
<1> HIDE DEF first, written, T
<1>5. first[1] \in DOMAIN rows /\ first[2] = rows[first[1]][col + 1]
  BY <1>4, WhereWritten DEF written
<1>6. TrueRow(rows[first[1]], s, first[1] + h)
  BY <1>5 DEF AllTrue
<1> DEFINE k == first[1] + h
<1>7. Parts(first[2], s.rows[k].date, s)
  BY <1>5, <1>6, DateCells
<1> HIDE DEF k
<1>8. Suits(DetectDateFormat(first[2]), s)
  BY <1>7, GuessSuits
<1>9. QED
  BY <1>1, <1>8

\* A layout an analysis names suits every statement.
LEMMA AskedSuits ==
  ASSUME NEW format, Asked(format), NEW s
  PROVE  FormatSuits(format, s)
<1>1. \A order \in {"DMY", "MDY"} : Suits(Layout(order, "/", TRUE, 0), s)
  BY DEF Suits, Dated, Layout, Orders
<1>2. QED
  BY <1>1 DEF Asked, FormatSuits

LEMMA HiddenSame == Hidden = HiddenIn(statement.lines, statement.header + 1)
  BY DEF Hidden, HiddenIn, Unrecorded, Silent

\* What the import of an understood statement went by.
Data == DataRecords(statement.lines, result.config)
LEMMA UnderstoodImport ==
  ASSUME AnalysisInv, Understood
  PROVE  /\ IsStatement(statement) /\ <<statement.order, statement.sep>> \in DateStyles
         /\ ReadsRows(result.config, statement) /\ Sees(result.mapping, statement)
         /\ FormatSuits(result.mapping.dateFormat, statement)
         /\ DOMAIN Data = 1..Len(Data) /\ Len(Data) = Max({0, Len(statement.rows) - Hidden})
         /\ AllTrue(Data, statement, Hidden)
         /\ statement.cents /\ Data # <<>> => result.mapping.isEuropean = statement.european
<1> DEFINE s == statement
           config == result.config
           settled == Settled(config, result.asked)
           m == result.mapping
<1>1. IsStatement(s) /\ Written(s) /\ <<s.order, s.sep>> \in DateStyles /\ s.european \in BOOLEAN
  BY StatementsAssumption DEF AnalysisInv, Understood, Written
<1>2. /\ config.ok /\ config = Heading(result.asked, result.headerRows, s.lines)
      /\ Asked(result.asked.dateFormat)
      /\ Columned(settled) /\ settled.dateFormat = result.asked.dateFormat
      /\ m = applyFormatDefaults(config, settled)
  BY NotOk DEF AnalysisInv, ResultFrom, WorkedOut, Understood
<1>3. ReadsRows(config, s)
  <2>1. SaysRow(config, s.lines)
    BY <1>2, SaysItsRow DEF Heading
  <2>2. HeaderSeen(config)
    BY DEF Understood
  <2>3. QED
    BY <2>1, <2>2 DEF SaysRow, HeaderSeen, ReadsRows
<1>4. Sees(m, s)
  <2>1. ColumnsSeen(m)
    BY DEF Understood
  <2>2. QED
    BY <2>1 DEF ColumnsSeen, Sees, AmountsSeen
<1> DEFINE sample == config.sampleRows
<1>5. /\ DOMAIN Data = 1..Len(Data) /\ Len(Data) = Max({0, Len(s.rows) - Hidden}) /\ AllTrue(Data, s, Hidden)
      /\ DOMAIN sample \subseteq 1..5 /\ AllTrue(sample, s, Hidden)
      /\ Data # <<>> => 1 \in DOMAIN sample
  <2> DEFINE h == Hidden
             D == Data
  <2>1. h = HiddenIn(s.lines, s.header + 1) /\ D = DataRecords(s.lines, config)
    BY HiddenSame DEF Data
  <2> HIDE DEF h, D, s, config
  <2>2. /\ DOMAIN D = 1..Len(D) /\ Len(D) = Max({0, Len(s.rows) - h}) /\ AllTrue(D, s, h)
        /\ DOMAIN config.sampleRows \subseteq 1..5 /\ AllTrue(config.sampleRows, s, h)
        /\ D # <<>> => 1 \in DOMAIN config.sampleRows
    BY <1>1, <1>3, <2>1, RowsRead
  <2>3. QED
    BY <2>2 DEF h, D
<1>6. /\ m.date = settled.date /\ m.desc = settled.desc /\ m.amount = settled.amount /\ m.debit = settled.debit
      /\ m.credit = settled.credit /\ m.isDoubleEntry = settled.isDoubleEntry
      /\ m.dateFormat = (IF settled.dateFormat = NoFormat /\ FirstDate(sample, settled.date) # <<>>
                        THEN <<DetectDateFormat(FirstDate(sample, settled.date)[1])>> ELSE settled.dateFormat)
      /\ detectEuropeanFormat(sample, settled) # 0 => m.isEuropean = (detectEuropeanFormat(sample, settled) = 1)
  BY <1>2, DefaultsSay
<1> HIDE DEF s, config, settled, m, sample
<1>7. settled.date = s.columns["date"] /\ AmountsSeen(settled, s)
  BY <1>4, <1>6 DEF Sees, AmountsSeen
<1>8. FormatSuits(m.dateFormat, s)
  <2>1. CASE m.dateFormat = settled.dateFormat
    BY <1>2, <2>1, AskedSuits
  <2>2. CASE FirstDate(sample, settled.date) # <<>> /\ m.dateFormat = <<DetectDateFormat(FirstDate(sample, settled.date)[1])>>
    <3>1. Suits(DetectDateFormat(FirstDate(sample, settled.date)[1]), s)
      BY <1>1, <1>5, <1>7, <2>2, FirstDateSuits
    <3>2. QED
      BY <2>2, <3>1 DEF FormatSuits
  <2>3. QED
    BY <1>6, <2>1, <2>2
<1>9. ASSUME s.cents, Data # <<>> PROVE m.isEuropean = s.european
  <2>1. detectEuropeanFormat(sample, settled) = VoteOf(s)
    BY <1>5, <1>7, <1>9, SamplesDecide
  <2>2. m.isEuropean = (VoteOf(s) = 1)
    BY <1>6, <2>1, VotesDiffer
  <2>3. (VoteOf(s) = 1) = s.european
    BY <1>1 DEF VoteOf
  <2>4. QED
    BY <2>2, <2>3
<1>10. QED
  BY <1>1, <1>3, <1>4, <1>5, <1>8, <1>9 DEF s, config, m

\* The samples are rows of the statement.
LEMMA UnderstoodSamples ==
  ASSUME AnalysisInv, Understood
  PROVE  DOMAIN result.config.sampleRows \subseteq 1..5 /\ AllTrue(result.config.sampleRows, statement, Hidden)
<1> DEFINE s == statement
           config == result.config
           h == Hidden
<1>1. IsStatement(s) /\ Written(s) /\ h = HiddenIn(s.lines, s.header + 1)
  BY StatementsAssumption, HiddenSame DEF AnalysisInv, Understood
<1>2. ReadsRows(config, s)
  BY UnderstoodImport
<1> HIDE DEF s, config, h
<1>3. DOMAIN config.sampleRows \subseteq 1..5 /\ AllTrue(config.sampleRows, s, h)
  BY <1>1, <1>2, RowsRead
<1>4. QED
  BY <1>3 DEF s, config, h

\* What each row of the result is.
LEMMA UnderstoodRows ==
  ASSUME AnalysisInv, Understood
  PROVE  /\ DOMAIN result.rows = 1..Len(Data) /\ Len(result.rows) = Len(Data) /\ Len(Data) \in Nat
         /\ \E shortFirst : \A j \in DOMAIN result.rows :
              /\ result.rows[j] = parseRow(Data[j], result.mapping, shortFirst)
              /\ TrueRow(Data[j], statement, j + Hidden)
<1>1. PICK shortFirst : result.rows = ParseRows(Data, result.mapping, shortFirst)
  BY NotOk DEF AnalysisInv, ResultFrom, WorkedOut, Understood, Data
<1>2. /\ DOMAIN Data = 1..Len(Data) /\ Len(Data) = Max({0, Len(statement.rows) - Hidden})
      /\ AllTrue(Data, statement, Hidden)
  BY UnderstoodImport
<1> DEFINE n == Len(Data)
<1>3. n \in Nat
  <2>1. IsStatement(statement) /\ Written(statement)
    BY StatementsAssumption DEF AnalysisInv, Understood
  <2>2. Len(statement.rows) \in Nat /\ Hidden \in Nat
    BY <2>1, HiddenSame, RecordsAreRows
  <2>3. Len(statement.rows) - Hidden \in Int
    BY <2>2
  <2>4. QED
    BY <1>2, <2>3, MaxWithZero
<1> HIDE DEF n, Data
<1>4. result.rows = [j \in 1..n |-> parseRow(Data[j], result.mapping, shortFirst)]
  BY <1>1, <1>2 DEF ParseRows, n
<1>5. DOMAIN result.rows = 1..n /\ Len(result.rows) = n
  BY <1>3, <1>4
<1>6. \A j \in 1..n : result.rows[j] = parseRow(Data[j], result.mapping, shortFirst)
  BY <1>4
<1>7. \A j \in 1..n : TrueRow(Data[j], statement, j + Hidden)
  BY <1>2 DEF AllTrue, n
<1>8. QED
  BY <1>3, <1>5, <1>6, <1>7 DEF n

\* A row of the result and the row of the statement it stands for.
LEMMA ResultRow ==
  ASSUME AnalysisInv, Understood, NEW j \in DOMAIN result.rows
  PROVE  /\ ~(j \in Parsed) => Refusable(Truth(j))
         /\ j \in Parsed =>
              /\ result.rows[j].desc = Truth(j).desc
              /\ result.rows[j].cents # Truth(j).cents =>
                   \/ Hiding(Truth(j).cents, statement)
                   \/ ~statement.cents /\ result.mapping.isEuropean # statement.european
              /\ result.rows[j].date # Truth(j).date
                   <=> statement.order # "YMD" /\ OrderTried # statement.order /\ Swappable(Truth(j).date)
<1> DEFINE s == statement
           m == result.mapping
           r == result.rows[j]
           row == Truth(j)
<1>1. PICK shortFirst : r = parseRow(Data[j], m, shortFirst) /\ TrueRow(Data[j], s, j + Hidden)
  BY UnderstoodRows
<1>2. Data # <<>>
  <2>1. DOMAIN result.rows = 1..Len(Data) /\ Len(Data) \in Nat
    BY UnderstoodRows
  <2>2. Len(<<>>) = 0 /\ 1..0 = {}
    OBVIOUS
  <2>3. QED
    BY <2>1, <2>2
<1>3. /\ <<s.order, s.sep>> \in DateStyles /\ Sees(m, s) /\ FormatSuits(m.dateFormat, s)
      /\ s.cents => m.isEuropean = s.european
  BY <1>2, UnderstoodImport
<1>4. row = s.rows[j + Hidden]
  BY DEF Truth
<1>5. j \in Parsed <=> r.outcome = "parsed"
  BY DEF Parsed
<1>6. OrderTried = Tried(m.dateFormat, s)
  BY DEF OrderTried, Tried
<1>7. Refusable(row) <=> \/ Nameless(row) \/ Refusing(row.cents, s)
                         \/ ~s.cents /\ m.isEuropean # s.european /\ Magnitude(row.cents) \div 100 >= Million
  BY DEF Refusable, Nameless, Refusing
<1> HIDE DEF s, m, r, row
<1>8. /\ r.outcome # "parsed" =>
              \/ Nameless(row) \/ Refusing(row.cents, s)
              \/ ~s.cents /\ m.isEuropean # s.european /\ Magnitude(row.cents) \div 100 >= Million
      /\ r.outcome = "parsed" =>
              /\ r.desc = row.desc
              /\ r.cents # row.cents => Hiding(row.cents, s) \/ (~s.cents /\ m.isEuropean # s.european)
              /\ r.date # row.date
                   <=> s.order # "YMD" /\ Tried(m.dateFormat, s) # s.order /\ Swappable(row.date)
  BY <1>1, <1>3, <1>4, RowRead
<1>9. QED
  BY <1>5, <1>6, <1>7, <1>8 DEF s, m, r, row

\* The import of an understood statement reads its data lines in order, one
\* row each, but for as many at the top as lines above the header are no
\* records: getSampleRows and parseTransactionsStream count records where
\* findHeaderRow counted lines.  It refuses only rows without a description,
\* credits beside a dash and large whole amounts in the other convention.
THEOREM RowsAreAligned == Spec => []RowsAligned
<1>1. ASSUME AnalysisInv, Understood
      PROVE  /\ Len(result.rows) = Max({0, Len(statement.rows) - Hidden})
             /\ \A j \in DOMAIN result.rows :
                  IF j \in Parsed THEN result.rows[j].desc = Truth(j).desc ELSE Refusable(Truth(j))
  <2>1. Len(result.rows) = Max({0, Len(statement.rows) - Hidden})
    BY <1>1, UnderstoodRows, UnderstoodImport
  <2>2. QED
    BY <1>1, <2>1, ResultRow
<1>2. AnalysisInv => RowsAligned
  BY <1>1 DEF RowsAligned
<1>3. QED
  BY <1>2, AnalysisHolds, PTL

\* A statement that shows its cents is read in its own format whatever the
\* client asked for: applyFormatDefaults lets the votes of the samples come
\* first, and every amount with cents votes for the bank's.  Only a credit
\* hidden by a spelt-out zero in the debit cell is lost.
THEOREM AmountsAreTrue == Spec => []AmountsTrue
<1>1. ASSUME AnalysisInv, Understood, statement.cents, result.rows # <<>>
      PROVE  result.mapping.isEuropean = statement.european
  <2>1. Data # <<>>
    <3>1. DOMAIN result.rows = 1..Len(Data) /\ Len(result.rows) = Len(Data)
      BY <1>1, UnderstoodRows
    <3>2. ASSUME Data = <<>> PROVE result.rows = <<>>
      <4>1. Len(Data) = 0 /\ 1..0 = {}
        BY <3>2
      <4>2. PICK shortFirst : result.rows = ParseRows(Data, result.mapping, shortFirst)
        BY <1>1, NotOk DEF AnalysisInv, ResultFrom, WorkedOut, Understood, Data
      <4>3. DOMAIN Data = {}
        BY <3>2
      <4>4. result.rows = [i \in {} |-> parseRow(Data[i], result.mapping, shortFirst)]
        BY <4>2, <4>3 DEF ParseRows
      <4>5. QED
        BY <4>4
    <3>3. QED
      BY <1>1, <3>2
  <2>2. QED
    BY <1>1, <2>1, UnderstoodImport
<1>2. ASSUME AnalysisInv, Understood, NEW j \in Parsed, result.rows[j].cents # Truth(j).cents
      PROVE  \/ statement.double /\ statement.fill = "zero" /\ Truth(j).cents > 0
             \/ ~statement.cents /\ result.mapping.isEuropean # statement.european
  <2>1. j \in DOMAIN result.rows
    BY DEF Parsed
  <2>2. QED
    BY <1>2, <2>1, ResultRow DEF Hiding
<1>3. AnalysisInv => AmountsTrue
  BY <1>1, <1>2 DEF AmountsTrue
<1>4. QED
  BY <1>3, AnalysisHolds, PTL

\* A date comes out wrong exactly when it would be another day with day and
\* month swapped and the layout tried first has them in that order:
\* ParseFlexibleDate takes the first layout that fits the one date at hand.
THEOREM DatesAreTrue == Spec => []DatesTrue
<1>1. ASSUME AnalysisInv, Understood, NEW j \in Parsed
      PROVE  result.rows[j].date # Truth(j).date
               <=> statement.order # "YMD" /\ OrderTried # statement.order /\ Swappable(Truth(j).date)
  <2>1. j \in DOMAIN result.rows
    BY DEF Parsed
  <2>2. QED
    BY <1>1, <2>1, ResultRow
<1>2. AnalysisInv => DatesTrue
  BY <1>1 DEF DatesTrue
<1>3. QED
  BY <1>2, AnalysisHolds, PTL

-------------------------------------------------------------------------------
(* The two counts of the votes.                                            *)

Signs(rows, v) ==
  Cardinality({p \in UNION {{<<i, j>> : j \in DOMAIN rows[i]} : i \in DOMAIN rows} :
                 SymbolVote(rows[p[1]][p[2]]) = v})

LEMMA NoSignsNoVotes ==
  ASSUME NEW rows, \A i \in DOMAIN rows : \A j \in DOMAIN rows[i] : SymbolVote(rows[i][j]) = 0,
         NEW v, v # 0
  PROVE  Signs(rows, v) = 0
<1> DEFINE all == UNION {{<<i, j>> : j \in DOMAIN rows[i]} : i \in DOMAIN rows}
<1>1. \A p \in all : SymbolVote(rows[p[1]][p[2]]) = 0
  OBVIOUS
<1> HIDE DEF all
<1>2. {p \in all : SymbolVote(rows[p[1]][p[2]]) = v} = {}
  BY <1>1
<1>3. Cardinality({}) = 0
  BY FS_EmptySet
<1>4. QED
  BY <1>2, <1>3 DEF all, Signs

\* The probe finds the format of a statement that shows its cents.
LEMMA ProbeDecides ==
  ASSUME NEW s, s.cents, s.european \in BOOLEAN, NEW rows, NEW h, AllTrue(rows, s, h), DOMAIN rows \subseteq 1..5,
         \A i \in DOMAIN rows : \A j \in DOMAIN rows[i] : SymbolVote(rows[i][j]) = 0,
         NEW col \in AmountColumns(s), \E p \in WrittenAt(rows, col) : SepsIn(p[2]) # {}, NEW dates
  PROVE  ProbeDialect(rows, col, dates).isEuropeanFormat = s.european
<1> DEFINE V(v) == {p \in WrittenAt(rows, col) : analyzeAmountFormat(p[2]) = v}
           votes(v) == Cardinality(V(v)) + Signs(rows, v)
<1>1. ProbeDialect(rows, col, dates).isEuropeanFormat = (votes(1) > votes(-1))
  BY DEF ProbeDialect, Signs
<1>2. Signs(rows, 1) = 0 /\ Signs(rows, -1) = 0
  BY NoSignsNoVotes
<1>3. ASSUME NEW p \in WrittenAt(rows, col)
      PROVE  /\ analyzeAmountFormat(p[2]) \in {0, VoteOf(s)}
             /\ SepsIn(p[2]) # {} => analyzeAmountFormat(p[2]) = VoteOf(s)
  <2>1. p[1] \in DOMAIN rows /\ p[2] = rows[p[1]][col + 1]
    BY WhereWritten
  <2>2. TrueRow(rows[p[1]], s, p[1] + h)
    BY <2>1 DEF AllTrue
  <2> DEFINE cells == rows[p[1]]
             k == p[1] + h
  <2> HIDE DEF cells, k
  <2>3. TrueRow(cells, s, k) /\ p[2] = cells[col + 1]
    BY <2>1, <2>2 DEF cells, k
  <2>4. QED
    BY <2>3, TrueCells
<1>4. IsFiniteSet(V(VoteOf(s))) /\ V(VoteOf(s)) # {}
  <2>1. IsFiniteSet(WrittenAt(rows, col))
    BY CellsFinite
  <2>2. PICK p \in WrittenAt(rows, col) : SepsIn(p[2]) # {}
    OBVIOUS
  <2>3. p \in V(VoteOf(s))
    BY <1>3, <2>2
  <2>4. QED
    BY <2>1, <2>3, FS_Subset
<1>5. \A v : v # 0 /\ v # VoteOf(s) => V(v) = {}
  BY <1>3
<1> HIDE DEF V
<1>6. /\ Cardinality(V(VoteOf(s))) \in Nat /\ Cardinality(V(VoteOf(s))) > 0
      /\ \A v : v # 0 /\ v # VoteOf(s) => Cardinality(V(v)) = 0
  BY <1>4, <1>5, AllOneWay
<1>7. CASE s.european
  <2>1. VoteOf(s) = 1
    BY <1>7 DEF VoteOf
  <2>2. votes(1) > votes(-1)
    BY <1>2, <1>6, <2>1
  <2>3. QED
    BY <1>1, <1>7, <2>2
<1>8. CASE ~s.european
  <2>1. VoteOf(s) = -1
    BY <1>8 DEF VoteOf
  <2>2. ~(votes(1) > votes(-1))
    BY <1>2, <1>6, <2>1
  <2>3. QED
    BY <1>1, <1>8, <2>2
<1>9. QED
  BY <1>7, <1>8

\* The analysis counts the votes of the probed column and of every currency
\* sign, the import those of its amount columns alone; where a probed amount
\* shows its cents and no sign votes, both settle on the bank's format.
THEOREM FormatsDoAgree == Spec => []FormatsAgree
<1>1. ASSUME AnalysisInv, NEW u \in Users, IsEcho(u), Understood, statement.cents, result.config = reply[u].config,
             ~SignsSampled(result.config),
             ProbedColumn(reply[u].suggestions) \in AmountColumns(statement),
             ~(\A p \in WrittenAt(result.config.sampleRows, ProbedColumn(reply[u].suggestions)) : SepsIn(p[2]) = {})
      PROVE  /\ reply[u].dialect.isEuropeanFormat = statement.european
             /\ result.mapping.isEuropean = statement.european
  <2> DEFINE s == statement
             sample == result.config.sampleRows
             col == ProbedColumn(reply[u].suggestions)
             settled == Settled(result.config, result.asked)
  <2>1. Seen.ok /\ reply[u].config = Seen /\ reply[u].suggestions = SuggestColumns(Seen.headers)
        /\ reply[u].dialect = Probed(Seen)
    BY <1>1, NotOk DEF AnalysisInv, ReplyFrom, IsEcho
  <2>2. Probed(Seen) = ProbeDialect(sample, col, reply[u].suggestions.date)
    BY <1>1, <2>1 DEF Probed
  <2>3. DOMAIN sample \subseteq 1..5 /\ AllTrue(sample, s, Hidden)
    BY <1>1, UnderstoodSamples
  <2>4. s.european \in BOOLEAN /\ \A i \in DOMAIN sample : \A j \in DOMAIN sample[i] : SymbolVote(sample[i][j]) = 0
    BY <1>1 DEF SignsSampled, Understood, Written
  <2>5. \E p \in WrittenAt(sample, col) : SepsIn(p[2]) # {}
    BY <1>1
  <2>6. DOMAIN sample # {}
    BY <2>5, WhereWritten
  <2>7. result.mapping = applyFormatDefaults(result.config, settled) /\ Columned(settled)
    BY <1>1, NotOk DEF AnalysisInv, ResultFrom, WorkedOut, Understood
  <2>8. AmountsSeen(result.mapping, s)
    BY <1>1, UnderstoodImport DEF Sees
  <2>9. s.cents /\ col \in AmountColumns(s)
    BY <1>1
  <2> HIDE DEF s, sample, col, settled
  <2>10. ProbeDialect(sample, col, reply[u].suggestions.date).isEuropeanFormat = s.european
    BY <2>3, <2>4, <2>5, <2>9, ProbeDecides
  <2>11. AmountsSeen(settled, s)
         /\ (detectEuropeanFormat(sample, settled) # 0
               => result.mapping.isEuropean = (detectEuropeanFormat(sample, settled) = 1))
    <3> DEFINE config == result.config
               m == result.mapping
    <3>1. m = applyFormatDefaults(config, settled) /\ Columned(settled)
      BY <2>7
    <3> HIDE DEF config, m
    <3>2. /\ m.date = settled.date /\ m.desc = settled.desc /\ m.amount = settled.amount /\ m.debit = settled.debit
          /\ m.credit = settled.credit /\ m.isDoubleEntry = settled.isDoubleEntry
          /\ m.dateFormat = (IF settled.dateFormat = NoFormat /\ FirstDate(config.sampleRows, settled.date) # <<>>
                            THEN <<DetectDateFormat(FirstDate(config.sampleRows, settled.date)[1])>> ELSE settled.dateFormat)
          /\ detectEuropeanFormat(config.sampleRows, settled) # 0
               => m.isEuropean = (detectEuropeanFormat(config.sampleRows, settled) = 1)
      BY <3>1, DefaultsSay
    <3>3. sample = config.sampleRows
      BY DEF sample, config
    <3>4. QED
      BY <2>8, <3>2, <3>3 DEF AmountsSeen, m
  <2>12. detectEuropeanFormat(sample, settled) = VoteOf(s)
    BY <2>3, <2>6, <2>9, <2>11, SamplesDecide
  <2>13. (VoteOf(s) = 1) = s.european
    BY <2>4 DEF VoteOf
  <2>14. result.mapping.isEuropean = s.european
    BY <2>11, <2>12, <2>13, VotesDiffer
  <2>15. QED
    BY <2>1, <2>2, <2>10, <2>14 DEF s
<1>2. AnalysisInv /\ EchoAgrees => FormatsAgree
  BY <1>1 DEF FormatsAgree, EchoAgrees
<1>3. QED
  BY <1>2, AnalysisHolds, EchoTakesSameConfig, PTL

-------------------------------------------------------------------------------
(* The currency of a statement that names only one.                        *)

Symbol(cells, i) == \E c \in ToSet(cells) : Holds(c, currencySymbols[i][1])

LEMMA SymbolsName ==
  ASSUME NEW cells, NEW cur, \A i \in 1..10 : Symbol(cells, i) => currencySymbols[i][2] = cur
  PROVE  detectCurrencyFromSymbols(cells) \in {Unnamed, cur}
<1> DEFINE B == {Unnamed, cur}
           next(code, i) == IF code = Unnamed /\ Symbol(cells, i) THEN currencySymbols[i][2] ELSE code
           Folds(g) == [s \in SUBSET (1..10) |-> IF s = {} THEN Unnamed ELSE next(g[s \ {Max(s)}], Max(s))]
           F == [x \in B \X (1..10) |-> next(x[1], x[2])]
<1>1. DOMAIN currencySymbols = 1..10
  BY DEF currencySymbols
<1>2. detectCurrencyFromSymbols(cells) = (CHOOSE g : g = Folds(g))[1..10]
  BY <1>1 DEF detectCurrencyFromSymbols, FoldLeft, MapThenFoldSet, Symbol, Unnamed
<1>3. \A b \in B, i \in 1..10 : next(b, i) \in B
  OBVIOUS
<1>4. Unnamed \in B
  OBVIOUS
<1> HIDE DEF B, next
<1>5. F \in [B \X (1..10) -> B] /\ \A b \in B, i \in 1..10 : F[<<b, i>>] = next(b, i)
  BY <1>3
<1> HIDE DEF F
<1>6. IsStep(10, B, Unnamed, F)
  BY <1>4, <1>5 DEF IsStep
<1>7. \A s \in SUBSET (1..10) : s # {} => Max(s) \in 1..10
  <2>1. \A s \in SUBSET (1..10) : s # {} => Max(s) \in s
    BY MaxIsElement
  <2>2. QED
    BY <2>1
<1>8. \E g : g = Folds(g)
  <2>1. PICK g : Folded(10, B, Unnamed, F, g)
    BY <1>6, FoldExists
  <2>2. \A s \in SUBSET (1..10) : s # {} => g[s] = next(g[s \ {Max(s)}], Max(s))
    BY <1>5, <1>7, <2>1 DEF Folded
  <2>3. \A s \in SUBSET (1..10) : g[s] = Folds(g)[s]
    BY <2>1, <2>2 DEF Folded
  <2>4. g = Folds(g)
    BY <2>1, <2>3 DEF Folded
  <2>5. QED
    BY <2>4
<1>9. PICK g : g = Folds(g) /\ detectCurrencyFromSymbols(cells) = g[1..10]
  BY <1>2, <1>8
<1>10. FoldsInside(10, B, Unnamed, F, g)
  <2>1. \A s \in SUBSET (1..10) : g[s] = IF s = {} THEN Unnamed ELSE next(g[s \ {Max(s)}], Max(s))
    BY <1>9
  <2>2. \A s \in SUBSET (1..10) : s # {} /\ g[s \ {Max(s)}] \in B => g[s] = F[<<g[s \ {Max(s)}], Max(s)>>]
    BY <1>5, <1>7, <2>1
  <2>3. g[{}] = Unnamed
    BY <2>1
  <2>4. QED
    BY <2>2, <2>3 DEF FoldsInside
<1>11. PICK h : Passes(10, B, Unnamed, F, g, h)
  BY <1>6, <1>10, FoldRuns
<1>12. h[10] \in B
  BY <1>11 DEF Passes
<1>13. QED
  BY <1>9, <1>11, <1>12 DEF Passes, B

\* The first of a sequence of names is one of them.
LEMMA FirstNamed ==
  ASSUME NEW codes, NEW n \in Nat, DOMAIN codes = 1..n, NEW cur, \A i \in 1..n : codes[i] \in {Unnamed, cur}
  PROVE  FirstFound(codes) \in {Unnamed, cur}
<1> DEFINE B == {Unnamed, cur}
           next(code, i) == Else(code, codes[i])
           Folds(g) == [s \in SUBSET (1..n) |-> IF s = {} THEN Unnamed ELSE next(g[s \ {Max(s)}], Max(s))]
           F == [x \in B \X (1..n) |-> next(x[1], x[2])]
<1>1. FirstFound(codes) = (CHOOSE g : g = Folds(g))[1..n]
  BY DEF FirstFound, FoldLeft, MapThenFoldSet, Unnamed
<1>2. \A b \in B, i \in 1..n : next(b, i) \in B
  BY DEF Else
<1>3. Unnamed \in B
  OBVIOUS
<1> HIDE DEF B, next
<1>4. F \in [B \X (1..n) -> B] /\ \A b \in B, i \in 1..n : F[<<b, i>>] = next(b, i)
  BY <1>2
<1> HIDE DEF F
<1>5. IsStep(n, B, Unnamed, F)
  BY <1>3, <1>4 DEF IsStep
<1>6. \A s \in SUBSET (1..n) : s # {} => Max(s) \in 1..n
  <2>1. \A s \in SUBSET (1..n) : s # {} => Max(s) \in s
    BY MaxIsElement
  <2>2. QED
    BY <2>1
<1>7. \E g : g = Folds(g)
  <2>1. PICK g : Folded(n, B, Unnamed, F, g)
    BY <1>5, FoldExists
  <2>2. \A s \in SUBSET (1..n) : s # {} => g[s] = next(g[s \ {Max(s)}], Max(s))
    BY <1>4, <1>6, <2>1 DEF Folded
  <2>3. \A s \in SUBSET (1..n) : g[s] = Folds(g)[s]
    BY <2>1, <2>2 DEF Folded
  <2>4. g = Folds(g)
    BY <2>1, <2>3 DEF Folded
  <2>5. QED
    BY <2>4
<1>8. PICK g : g = Folds(g) /\ FirstFound(codes) = g[1..n]
  BY <1>1, <1>7
<1>9. FoldsInside(n, B, Unnamed, F, g)
  <2>1. \A s \in SUBSET (1..n) : g[s] = IF s = {} THEN Unnamed ELSE next(g[s \ {Max(s)}], Max(s))
    BY <1>8
  <2>2. \A s \in SUBSET (1..n) : s # {} /\ g[s \ {Max(s)}] \in B => g[s] = F[<<g[s \ {Max(s)}], Max(s)>>]
    BY <1>4, <1>6, <2>1
  <2>3. g[{}] = Unnamed
    BY <2>1
  <2>4. QED
    BY <2>2, <2>3 DEF FoldsInside
<1>10. PICK h : Passes(n, B, Unnamed, F, g, h)
  BY <1>5, <1>9, FoldRuns
<1>11. QED
  BY <1>8, <1>10 DEF Passes, B

\* So is the one token of cells that hold only the name.
LEMMA TokenNames ==
  ASSUME NEW cells, NEW cur, \A i \in DOMAIN cells : CodesIn(cells[i]) \subseteq {cur}
  PROVE  extractSingleCurrencyToken(cells) \in {Unnamed, cur}
<1> DEFINE tokens == UNION {{i} \X CodesIn(cells[i]) : i \in DOMAIN cells}
           token == CHOOSE t \in tokens : TRUE
<1>1. extractSingleCurrencyToken(cells) = IF Cardinality(tokens) = 1 THEN token[2] ELSE Unnamed
  BY DEF extractSingleCurrencyToken, TheToken, Unnamed
<1>2. \A t \in tokens : t[2] = cur
  OBVIOUS
<1>3. Cardinality({}) = 0
  BY FS_EmptySet
<1>4. CASE Cardinality(tokens) = 1
  <2>1. tokens # {}
    BY <1>3, <1>4
  <2>2. token \in tokens
    BY <2>1
  <2>3. QED
    BY <1>1, <1>2, <1>4, <2>2
<1>5. CASE Cardinality(tokens) # 1
  BY <1>1, <1>5
<1>6. QED
  BY <1>4, <1>5

\* The cell writes R$, which a $ sign is part of.
Reals(c) == Holds(c, "R$")
NoReals(s) == \A i \in DOMAIN s.lines : \A c \in ToSet(s.lines[i].cells) : ~Reals(c)

LEMMA SignsName ==
  ASSUME NEW cells, NEW s, \A c \in ToSet(cells) : NamesOnly(c, s) /\ ~Reals(c)
  PROVE  detectCurrencyFromSymbols(cells) \in {Unnamed, s.currency}
<1>1. DOMAIN currencySymbols = 1..10
  BY DEF currencySymbols
<1>2. \A i \in 1..10 : Symbol(cells, i) => currencySymbols[i][2] = s.currency
  BY <1>1 DEF Symbol, NamesOnly, Reals
<1>3. QED
  BY <1>2, SymbolsName

LEMMA EitherNames ==
  ASSUME NEW code, NEW other, NEW cur, code \in {Unnamed, cur}, other \in {Unnamed, cur}
  PROVE  Else(code, other) \in {Unnamed, cur}
  BY DEF Else

\* A line above the header names the currency or nothing.
LEMMA LineNames ==
  ASSUME NEW line, NEW s, \A c \in ToSet(line.cells) : NamesOnly(c, s) /\ ~Reals(c),
         SpeaksOfCurrency(line.cells) => \A c \in ToSet(line.cells) : Coded(c, s),
         s = statement, ~Stray(line)
  PROVE  detectCurrencyFromLine(line) \in {Unnamed, s.currency}
<1> DEFINE code == detectCurrencyFromSymbols(line.cells)
           token == extractSingleCurrencyToken(line.cells)
<1>1. code \in {Unnamed, s.currency}
  BY SignsName
<1>2. ASSUME Hinted(line) PROVE token \in {Unnamed, s.currency}
  <2>1. \A c \in ToSet(line.cells) : CodesIn(c) \subseteq {s.currency}
    <3>1. CASE SpeaksOfCurrency(line.cells)
      BY <3>1 DEF Coded
    <3>2. CASE ~SpeaksOfCurrency(line.cells)
      <4>1. \E c \in ToSet(line.cells) : Holds(c, "-")
        BY <1>2, <3>2 DEF Hinted, SpeaksOfCurrency
      <4>2. QED
        BY <4>1 DEF Stray, CodesIn
    <3>3. QED
      BY <3>1, <3>2
  <2>2. \A i \in DOMAIN line.cells : CodesIn(line.cells[i]) \subseteq {s.currency}
    BY <2>1 DEF ToSet
  <2>3. QED
    BY <2>2, TokenNames
<1>3. detectCurrencyFromLine(line) = Else(code, IF Hinted(line) THEN token ELSE Unnamed)
  BY DEF detectCurrencyFromLine, Unnamed
<1> HIDE DEF code, token
<1>4. (IF Hinted(line) THEN token ELSE Unnamed) \in {Unnamed, s.currency}
  BY <1>2
<1>5. QED
  BY <1>1, <1>3, <1>4, EitherNames

\* So does a cell of the currency column.
LEMMA CellNames ==
  ASSUME NEW c, NEW s, NamesOnly(c, s), ~Reals(c), Coded(c, s)
  PROVE  CurrencyOfCell(c) \in {Unnamed, s.currency}
<1> DEFINE cells == <<c>>
           code == detectCurrencyFromSymbols(cells)
           token == extractSingleCurrencyToken(cells)
<1>1. ToSet(cells) = {c} /\ DOMAIN cells = {1} /\ cells[1] = c
  BY DEF ToSet
<1>2. CurrencyOfCell(c) = Else(token, code)
  BY DEF CurrencyOfCell
<1> HIDE DEF cells
<1>3. code \in {Unnamed, s.currency}
  BY <1>1, SignsName
<1>4. token \in {Unnamed, s.currency}
  BY <1>1, TokenNames DEF Coded
<1> HIDE DEF code, token
<1>5. QED
  BY <1>2, <1>3, <1>4, EitherNames

\* The column searched is one whose header speaks of the currency.
LEMMA CurrencyColumn ==
  ASSUME NEW headers, DOMAIN headers \subseteq Nat, NEW col, col = FirstOf(headers, currencyKeywords, {}), col >= 0
  PROVE  col \in Int /\ col + 1 \in DOMAIN headers /\ SpeaksOfCurrency(<<headers[col + 1]>>)
<1> DEFINE at == {i \in DOMAIN headers : \E word \in currencyKeywords : Holds(headers[i], word)}
<1>1. col = IF at = {} THEN None ELSE Min(at) - 1
  BY DEF FirstOf
<1>2. at # {}
  BY <1>1 DEF None
<1>3. Min(at) \in at
  BY <1>2, MinIsElement
<1>4. Min(at) \in Nat /\ col = Min(at) - 1
  BY <1>1, <1>2, <1>3
<1>5. col \in Int /\ col + 1 = Min(at)
  BY <1>4
<1>6. \E word \in currencyKeywords : Holds(headers[col + 1], word)
  BY <1>3, <1>5
<1>7. ToSet(<<headers[col + 1]>>) = {headers[col + 1]}
  BY DEF ToSet
<1> HIDE DEF at
<1>8. SpeaksOfCurrency(<<headers[col + 1]>>)
  BY <1>6, <1>7 DEF SpeaksOfCurrency
<1>9. QED
  BY <1>3, <1>5, <1>8 DEF at

LEMMA ListOf ==
  ASSUME NEW S, NEW n \in Nat, NEW f, f = [i \in 1..n |-> f[i]], \A i \in 1..n : f[i] \in S
  PROVE  f \in Seq(S) /\ Len(f) = n
<1>1. f \in [1..n -> S]
  OBVIOUS
<1>2. QED
  BY <1>1

\* What the import sees of the header and the samples, and where they come
\* from.
NamesTrue(config, s) ==
  /\ config.skipLines = s.header /\ config.headers = s.lines[s.header + 1].cells
  /\ \E k \in Nat : DOMAIN config.sampleRows = 1..k
  /\ \A i \in DOMAIN config.sampleRows : \E j \in (s.header + 2)..Len(s.lines) :
       config.sampleRows[i] = s.lines[j].cells

LEMMA FileNames ==
  ASSUME NEW s, s = statement, IsStatement(s), OneCurrency(s), NoReals(s), \A i \in 1..s.header : ~Stray(s.lines[i]),
         NEW config, NamesTrue(config, s)
  PROVE  detectCurrencyFromFile(s.lines, config) \in {Unnamed, s.currency}
<1> DEFINE names == {Unnamed, s.currency}
           lines == s.lines
           top == s.header
           samples == config.sampleRows
           col == FirstOf(config.headers, currencyKeywords, {})
           above == [i \in 1..top |-> detectCurrencyFromLine(lines[i])]
           found(row) == IF col >= 0 /\ col < Len(row) THEN CurrencyOfCell(row[col + 1]) ELSE Unnamed
           below == [i \in DOMAIN samples |-> found(samples[i])]
<1>1. /\ lines \in Seq(Lines) /\ Len(lines) \in Nat /\ DOMAIN lines = 1..Len(lines)
      /\ top \in Nat /\ top + 1 \in 1..Len(lines)
  BY DEF IsStatement
<1>2. detectCurrencyFromFile(lines, config) = FirstFound(above \o below)
  BY DEF detectCurrencyFromFile, Unnamed, NamesTrue
<1>3. ASSUME NEW i \in 1..top PROVE above[i] \in names
  <2>1. i \in DOMAIN lines
    BY <1>1
  <2>2. \A c \in ToSet(lines[i].cells) : NamesOnly(c, s) /\ ~Reals(c)
    BY <2>1 DEF OneCurrency, NoReals
  <2>3. SpeaksOfCurrency(lines[i].cells) => \A c \in ToSet(lines[i].cells) : Coded(c, s)
    BY DEF OneCurrency
  <2>4. ~Stray(lines[i])
    OBVIOUS
  <2> DEFINE line == lines[i]
  <2>5. above[i] = detectCurrencyFromLine(line)
    OBVIOUS
  <2> HIDE DEF line, above
  <2>6. detectCurrencyFromLine(line) \in {Unnamed, s.currency}
    BY <2>2, <2>3, <2>4, LineNames DEF line
  <2>7. QED
    BY <2>5, <2>6
<1>4. ASSUME NEW i \in DOMAIN samples PROVE below[i] \in names
  <2>1. PICK j \in (top + 2)..Len(lines) : samples[i] = lines[j].cells
    BY DEF NamesTrue
  <2>2. below[i] = found(samples[i])
    OBVIOUS
  <2>3. CASE ~(col >= 0 /\ col < Len(samples[i]))
    BY <2>2, <2>3
  <2>4. CASE col >= 0 /\ col < Len(samples[i])
    <3>1. DOMAIN config.headers \subseteq Nat
      <4>1. lines[top + 1] \in Lines
        BY <1>1
      <4>2. config.headers = lines[top + 1].cells
        BY DEF NamesTrue
      <4>3. QED
        BY <4>1, <4>2, LineFacts
    <3> HIDE DEF col
    <3>2. col \in Int /\ col + 1 \in DOMAIN config.headers /\ SpeaksOfCurrency(<<config.headers[col + 1]>>)
      BY <2>4, <3>1, CurrencyColumn DEF col
    <3>3. samples[i] \in Seq(Cells)
      <4>1. j \in 1..Len(lines)
        BY <1>1
      <4>2. lines[j] \in Lines
        BY <1>1, <4>1
      <4>3. QED
        BY <2>1, <4>2 DEF Lines
    <3>4. col + 1 \in DOMAIN lines[j].cells
      BY <2>1, <2>4, <3>2, <3>3
    <3> DEFINE c == lines[j].cells[col + 1]
    <3>5. NamesOnly(c, s) /\ Coded(c, s)
      BY <3>2, <3>4 DEF OneCurrency, NamesTrue
    <3>6. c \in ToSet(lines[j].cells) /\ j \in DOMAIN lines
      BY <1>1, <3>4 DEF ToSet
    <3>7. ~Reals(c)
      BY <3>6 DEF NoReals
    <3>8. below[i] = CurrencyOfCell(c)
      BY <2>1, <2>2, <2>4
    <3> HIDE DEF c
    <3>9. QED
      BY <3>5, <3>7, <3>8, CellNames
  <2>5. QED
    BY <2>3, <2>4
<1>5. PICK k \in Nat : DOMAIN samples = 1..k
  BY DEF NamesTrue
<1>6. above \in Seq(names) /\ below \in Seq(names) /\ Len(above) = top /\ Len(below) = k
  <2>1. DOMAIN above = 1..top /\ DOMAIN below = 1..k
    BY <1>5
  <2>2. above = [i \in 1..top |-> above[i]] /\ below = [i \in 1..k |-> below[i]]
    BY <1>5
  <2> HIDE DEF above, below, top, samples, names
  <2>3. \A i \in 1..top : above[i] \in names
    BY <1>3
  <2>4. \A i \in 1..k : below[i] \in names
    BY <1>4, <1>5
  <2>5. QED
    BY <1>1, <2>2, <2>3, <2>4, ListOf
<1> HIDE DEF above, below, names
<1>7. above \o below \in Seq(names) /\ Len(above \o below) = top + k
  BY <1>6
<1> DEFINE codes == above \o below
           n == top + k
<1>8. n \in Nat /\ DOMAIN codes = 1..n /\ \A i \in 1..n : codes[i] \in names
  <2>1. n \in Nat
    BY <1>1
  <2> HIDE DEF codes, n
  <2>2. codes \in Seq(names) /\ Len(codes) = n
    BY <1>7 DEF codes, n
  <2>3. QED
    BY <2>1, <2>2
<1> HIDE DEF codes, n
<1>9. FirstFound(codes) \in {Unnamed, s.currency}
  BY <1>8, FirstNamed DEF names
<1>10. QED
  BY <1>2, <1>9 DEF codes

\* Without an account the rows get the one currency the statement names:
\* detectCurrencyFromFile takes a sign or the only word of three letters from
\* the lines above the header, then from the currency column of the samples.
\* R$, which the $ of another currency is part of, and a line whose hyphen
\* lets any such word in may mislead it.
THEOREM CurrencyIsTrue == Spec => []CurrencyTrue
<1>1. ASSUME AnalysisInv PROVE CurrencyTrue
  <2> DEFINE s == statement
             config == result.config
             currency == result.currency
  <2> SUFFICES ASSUME Written(s), OneCurrency(s), result.ok, result.account = "none", HeaderSeen(config), NoReals(s),
                      \A i \in 1..s.header : ~Stray(s.lines[i])
               PROVE  currency = s.currency
    BY DEF CurrencyTrue, NoReals, Reals
  <2>1. IsStatement(s)
    BY <1>1, StatementsAssumption DEF AnalysisInv
  <2>2. /\ config.ok /\ config = Heading(result.asked, result.headerRows, s.lines)
        /\ currency = resolveCurrencyCode(result.account, s.lines, config) /\ currency # Unnamed
    BY <1>1, NotOk DEF AnalysisInv, ResultFrom, WorkedOut
  <2>3. SaysRow(config, s.lines)
    BY <2>2, SaysItsRow DEF Heading
  <2>4. config.skipLines = s.header /\ config.delim = s.delim
    BY DEF HeaderSeen
  <2>5. config.headers = s.lines[s.header + 1].cells
    BY <2>3, <2>4 DEF SaysRow, Written, Split
  <2>6. ReadsRows(config, s)
    BY <2>3, <2>4 DEF SaysRow, ReadsRows
  <2>7. currency = detectCurrencyFromFile(s.lines, config)
    BY <2>2 DEF resolveCurrencyCode
  <2>8. s = statement
    OBVIOUS
  <2> DEFINE h == HiddenIn(s.lines, s.header + 1)
             D == DataRecords(s.lines, config)
  <2> HIDE DEF s, config, currency
  <2>9. AllTrue(config.sampleRows, s, h) /\ \E k \in Nat : DOMAIN config.sampleRows = 1..k
    BY <2>1, <2>6, RowsRead
  <2>10. NamesTrue(config, s)
    BY <2>4, <2>5, <2>9 DEF NamesTrue, AllTrue, TrueRow
  <2>11. currency \in {Unnamed, s.currency}
    BY <2>1, <2>7, <2>8, <2>10, FileNames
  <2>12. QED
    BY <2>2, <2>11
<1>2. QED
  BY <1>1, AnalysisHolds, PTL

===============================================================================
