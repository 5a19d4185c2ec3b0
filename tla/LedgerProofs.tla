------------------------------ MODULE LedgerProofs ------------------------------
(***************************************************************************)
(* Proofs about Ledger: the walk only looks, so that what is proved of     *)
(* Categorization holds with clients reading beside it; what a walk over a *)
(* changing table may miss or repeat; and what becomes of a walk whose     *)
(* page size the repository replaces.                                      *)
(***************************************************************************)
EXTENDS Ledger, CategorizationProofs, FiniteSetTheorems, SequenceTheorems

\* What keeps a walk with a size of zero or below where it began.
Stuck ==
  /\ size \in Int /\ offset \in Nat /\ total \in Nat
  /\ size <= 0 => offset = 0 /\ (phase = "ended" => total = 0)

-------------------------------------------------------------------------------

LEMMA StepIsBook == [Next]_vars => [BookNext]_bookVars
  BY DEF Next, BookStep, Walk, StartWalk, CountRows, GetPage, vars

LEMMA ViewInRows == BookTypeOK => view \in SUBSET Rows /\ IsFiniteSet(view) /\ Cardinality(view) \in Nat
<1> SUFFICES ASSUME BookTypeOK
             PROVE view \in SUBSET Rows /\ IsFiniteSet(view) /\ Cardinality(view) \in Nat
  OBVIOUS
<1>1. view \in SUBSET Rows
  BY DEF BookTypeOK, view, View
<1>2. QED
  BY <1>1, RowsAssumption, FS_Subset, FS_CardinalityType

LEMMA InitStuck == Init => Stuck
  BY PageSizesAssumption DEF Init, Stuck

\* The next token is the offset plus the size that was asked for: with none
\* it is zero again, and the walk ends only where the count was zero.
LEMMA StepStuck == BookTypeOK /\ Stuck /\ [Next]_vars => Stuck'
<1> SUFFICES ASSUME BookTypeOK, Stuck, [Next]_vars PROVE Stuck'
  OBVIOUS
<1> USE DEF Stuck
<1>1. CASE BookStep
  BY <1>1 DEF BookStep
<1>2. CASE StartWalk
  BY <1>2 DEF StartWalk
<1>3. CASE CountRows
  BY <1>3, ViewInRows DEF CountRows
<1>4. CASE GetPage
  <2>1. UNCHANGED <<size, total>> /\ phase = "counted"
    BY <1>4 DEF GetPage
  <2>2. CASE HasNext
    <3>1. phase' = "asking" /\ offset' = OffsetOf(offset + size)
      BY <1>4, <2>2 DEF GetPage, NextOffset
    <3>2. offset' \in Nat /\ (size <= 0 => offset' = 0)
      BY <3>1 DEF OffsetOf
    <3>3. QED
      BY <2>1, <3>1, <3>2
  <2>3. CASE ~ HasNext
    <3>1. offset' = offset
      BY <1>4, <2>3 DEF GetPage
    <3>2. ~ (offset + size < total)
      BY <2>3 DEF HasNext, NextOffset
    <3>3. size <= 0 => total = 0
      BY <3>2
    <3>4. QED
      BY <2>1, <3>1, <3>3
  <2>4. QED
    BY <2>2, <2>3
<1>5. CASE UNCHANGED vars
  BY <1>5 DEF vars, walkVars
<1>6. QED
  BY <1>1, <1>2, <1>3, <1>4, <1>5 DEF Next, Walk

-------------------------------------------------------------------------------
(* Counting along a sequence.                                              *)

\* What stands among the first m entries has at most m members.
LEMMA CountAtMost ==
  ASSUME NEW s, NEW m \in Nat, NEW G, \A g \in G : \E j \in 1..m : s[j] = g
  PROVE  IsFiniteSet(G) /\ Cardinality(G) \in Nat /\ Cardinality(G) <= m
<1> DEFINE K == {j \in 1..m : s[j] \in G}
           f == [j \in K |-> s[j]]
<1>1. IsFiniteSet(1..m) /\ Cardinality(1..m) = m
  BY FS_Interval
<1>2. IsFiniteSet(K) /\ Cardinality(K) <= m
  BY <1>1, FS_Subset
<1>3. f \in Surjection(K, G)
  BY DEF Surjection
<1>4. IsFiniteSet(G) /\ Cardinality(G) <= Cardinality(K)
  BY <1>2, <1>3, FS_Surjection
<1>5. Cardinality(G) \in Nat /\ Cardinality(K) \in Nat
  BY <1>2, <1>4, FS_CardinalityType
<1>6. QED
  BY <1>2, <1>4, <1>5

\* A set that holds the first m entries, all different, has at least m.
LEMMA CountAtLeast ==
  ASSUME NEW s, NEW m \in Nat, NEW G, IsFiniteSet(G),
         \A j \in 1..m : s[j] \in G,
         \A j, k \in 1..m : s[j] = s[k] => j = k
  PROVE  Cardinality(G) \in Nat /\ m <= Cardinality(G)
<1> DEFINE f == [j \in 1..m |-> s[j]]
<1>1. f \in Injection(1..m, G)
  BY DEF Injection, IsInjective
<1>2. Cardinality(1..m) <= Cardinality(G)
  BY <1>1, FS_Injection
<1>3. Cardinality(1..m) = m
  BY FS_Interval
<1>4. QED
  BY <1>2, <1>3, FS_CardinalityType

\* A sequence knows at most as many rows as it is long.
LEMMA KnownAtMost ==
  ASSUME NEW S, NEW s \in Seq(S)
  PROVE  IsFiniteSet(Known(s)) /\ Cardinality(Known(s)) <= Len(s)
<1>1. \A g \in Known(s) : \E j \in 1..Len(s) : s[j] = g
  BY DEF Known
<1>2. QED
  BY <1>1, CountAtMost, Len(s) \in Nat

\* A longer list knows what both parts know.
LEMMA KnownOfBoth ==
  ASSUME NEW S, NEW s \in Seq(S), NEW t \in Seq(S)
  PROVE  Known(s \o t) = Known(s) \cup Known(t)
<1>1. /\ s \o t \in Seq(S) /\ Len(s \o t) = Len(s) + Len(t)
      /\ \A j \in 1..Len(s) : (s \o t)[j] = s[j]
      /\ \A j \in 1..Len(t) : (s \o t)[Len(s) + j] = t[j]
  OBVIOUS
<1>2. \A j \in 1..Len(s \o t) : j \in 1..Len(s) \/ j - Len(s) \in 1..Len(t)
  BY <1>1
<1>3. Known(s \o t) \subseteq Known(s) \cup Known(t)
  <2> SUFFICES ASSUME NEW j \in 1..Len(s \o t) PROVE (s \o t)[j] \in Known(s) \cup Known(t)
    BY <1>1 DEF Known
  <2>1. CASE j \in 1..Len(s)
    BY <1>1, <2>1 DEF Known
  <2>2. CASE j - Len(s) \in 1..Len(t)
    <3>1. (s \o t)[Len(s) + (j - Len(s))] = t[j - Len(s)]
      BY <1>1, <2>2
    <3>2. Len(s) + (j - Len(s)) = j
      BY Len(s) \in Nat
    <3>3. QED
      BY <3>1, <3>2, <2>2 DEF Known
  <2>3. QED
    BY <1>2, <2>1, <2>2
<1>4. Known(s) \subseteq Known(s \o t)
  <2> SUFFICES ASSUME NEW j \in 1..Len(s) PROVE s[j] \in Known(s \o t)
    BY DEF Known
  <2>1. j \in 1..Len(s \o t) /\ (s \o t)[j] = s[j]
    BY <1>1
  <2>2. QED
    BY <1>1, <2>1 DEF Known
<1>5. Known(t) \subseteq Known(s \o t)
  <2> SUFFICES ASSUME NEW j \in 1..Len(t) PROVE t[j] \in Known(s \o t)
    BY DEF Known
  <2>1. Len(s) + j \in DOMAIN (s \o t) /\ (s \o t)[Len(s) + j] = t[j]
    BY <1>1
  <2>2. QED
    BY <2>1 DEF Known
<1>6. QED
  BY <1>3, <1>4, <1>5

-------------------------------------------------------------------------------
(* Listings and their pages.                                               *)

\* The rows listed before those of r's day, in every listing.
Earlier(rows, r) == {s \in rows : DayOf[s] > DayOf[r]}
Rank(rows, r) == Cardinality(Earlier(rows, r))

Apart(rows) == \A r, s \in rows : DayOf[r] = DayOf[s] => r = s

\* A listing holds every row of the view once, later days first.
LEMMA ListingFacts ==
  ASSUME NEW V \in SUBSET Rows, NEW listing \in Listings(V)
  PROVE  /\ IsFiniteSet(V) /\ Cardinality(V) \in Nat
         /\ listing \in Seq(V) /\ Len(listing) = Cardinality(V)
         /\ \A j, k \in 1..Cardinality(V) : listing[j] = listing[k] => j = k
         /\ \A v \in V : \E j \in 1..Cardinality(V) : listing[j] = v
         /\ \A j, k \in 1..Cardinality(V) : j < k => DayOf[listing[j]] >= DayOf[listing[k]]
<1> DEFINE n == Cardinality(V)
<1>1. IsFiniteSet(V) /\ n \in Nat
  BY RowsAssumption, FS_Subset, FS_CardinalityType
<1>2. listing \in [1..n -> V] /\ \A j, k \in 1..n : j # k => listing[j] # listing[k]
  BY DEF Listings, SetToSeqs
<1>3. listing \in Injection(1..n, V)
  BY <1>2 DEF Injection, IsInjective
<1>4. Cardinality(1..n) = n
  BY <1>1, FS_Interval
<1>5. listing \in Surjection(1..n, V)
  BY <1>1, <1>3, <1>4, FS_Injection
<1>6. listing \in Seq(V) /\ Len(listing) = n /\ DOMAIN listing = 1..n
  BY <1>1, <1>2
<1>7. \A v \in V : \E j \in 1..n : listing[j] = v
  BY <1>5 DEF Surjection
<1>8. \A j, k \in 1..n : j < k => DayOf[listing[j]] >= DayOf[listing[k]]
  BY <1>6 DEF Listings
<1>9. QED
  BY <1>1, <1>2, <1>6, <1>7, <1>8

LEMMA RankIsNat ==
  ASSUME NEW V \in SUBSET Rows, NEW r
  PROVE  IsFiniteSet(Earlier(V, r)) /\ Rank(V, r) \in Nat
<1>1. Earlier(V, r) \in SUBSET Rows
  BY DEF Earlier
<1>2. QED
  BY <1>1, RowsAssumption, FS_Subset, FS_CardinalityType DEF Rank

\* A row stands behind no fewer rows in a larger view.
LEMMA RankGrows ==
  ASSUME NEW V \in SUBSET Rows, NEW W \in SUBSET V, NEW r
  PROVE  Rank(W, r) <= Rank(V, r)
<1>1. Earlier(W, r) \in SUBSET Earlier(V, r)
  BY DEF Earlier
<1>2. QED
  BY <1>1, RankIsNat, FS_Subset DEF Rank

\* Whatever stands at a position has fewer rows before its day than the
\* position says,
LEMMA RankBelowPlace ==
  ASSUME NEW V \in SUBSET Rows, NEW listing \in Listings(V), NEW p \in 1..Cardinality(V)
  PROVE  Rank(V, listing[p]) < p
<1> DEFINE n == Cardinality(V)
<1>1. n \in Nat /\ listing \in Seq(V) /\ Len(listing) = n
  BY ListingFacts
<1>2. SUFFICES \A g \in Earlier(V, listing[p]) : \E j \in 1..(p - 1) : listing[j] = g
  <2>1. p - 1 \in Nat
    BY <1>1
  <2>2. Cardinality(Earlier(V, listing[p])) <= p - 1
    BY <1>2, <2>1, CountAtMost
  <2>3. QED
    BY <1>1, <2>2, RankIsNat DEF Rank
<1>3. SUFFICES ASSUME NEW g \in V, DayOf[g] > DayOf[listing[p]]
               PROVE \E j \in 1..(p - 1) : listing[j] = g
  BY DEF Earlier
<1>4. PICK j \in 1..n : listing[j] = g
  BY ListingFacts
<1>5. listing[p] \in V /\ DayOf[g] \in Int /\ DayOf[listing[p]] \in Int
  BY <1>1, DaysAssumption
<1>6. ~ (j >= p)
  <2>1. j # p
    BY <1>3, <1>4, <1>5
  <2>2. ~ (p < j)
    BY <1>3, <1>4, <1>5, ListingFacts
  <2>3. QED
    BY <1>1, <2>1, <2>2
<1>7. QED
  BY <1>1, <1>4, <1>6

\* and where days differ just one fewer.
LEMMA RankIsPlace ==
  ASSUME NEW V \in SUBSET Rows, Apart(V), NEW listing \in Listings(V), NEW p \in 1..Cardinality(V)
  PROVE  p - 1 <= Rank(V, listing[p])
<1> DEFINE n == Cardinality(V)
<1>1. n \in Nat /\ listing \in Seq(V) /\ Len(listing) = n
  BY ListingFacts
<1>2. \A j \in 1..(p - 1) : listing[j] \in Earlier(V, listing[p])
  <2> SUFFICES ASSUME NEW j \in 1..(p - 1) PROVE listing[j] \in Earlier(V, listing[p])
    OBVIOUS
  <2>1. j \in 1..n /\ j < p
    BY <1>1
  <2>2. listing[j] \in V /\ listing[p] \in V /\ listing[j] # listing[p]
    BY <1>1, <2>1, ListingFacts
  <2>3. DayOf[listing[j]] >= DayOf[listing[p]]
    BY <2>1, ListingFacts
  <2>4. DayOf[listing[j]] # DayOf[listing[p]]
    BY <2>2 DEF Apart
  <2>5. DayOf[listing[j]] \in Int /\ DayOf[listing[p]] \in Int
    BY <2>2, DaysAssumption
  <2>6. QED
    BY <2>2, <2>3, <2>4, <2>5 DEF Earlier
<1>3. \A j, k \in 1..(p - 1) : listing[j] = listing[k] => j = k
  BY <1>1, ListingFacts
<1>4. p - 1 \in Nat
  BY <1>1
<1>5. QED
  BY <1>2, <1>3, <1>4, RankIsNat, CountAtLeast DEF Rank

\* Behind the rows of later days stands a row of r's own day.
LEMMA TieAtRank ==
  ASSUME NEW V \in SUBSET Rows, NEW listing \in Listings(V), NEW r \in V
  PROVE  /\ Rank(V, r) + 1 \in 1..Cardinality(V)
         /\ DayOf[listing[Rank(V, r) + 1]] = DayOf[r]
<1> DEFINE n == Cardinality(V)
           q == Rank(V, r) + 1
<1>1. n \in Nat /\ listing \in Seq(V) /\ Len(listing) = n /\ Rank(V, r) \in Nat
  BY ListingFacts, RankIsNat
<1>2. PICK p \in 1..n : listing[p] = r
  BY ListingFacts
<1>3. Rank(V, r) < p
  BY <1>2, RankBelowPlace
<1>4. q \in 1..n /\ q <= p
  BY <1>1, <1>3
<1>5. listing[q] \in V /\ DayOf[listing[q]] \in Int /\ DayOf[r] \in Int
  BY <1>1, <1>4, DaysAssumption
<1>6. DayOf[listing[q]] >= DayOf[r]
  <2>1. CASE q = p
    BY <1>2, <1>5, <2>1
  <2>2. CASE q < p
    BY <1>2, <1>4, <2>2, ListingFacts
  <2>3. QED
    BY <1>1, <1>4, <2>1, <2>2
<1>7. ~ (DayOf[listing[q]] > DayOf[r])
  <2> SUFFICES ASSUME DayOf[listing[q]] > DayOf[r] PROVE FALSE
    OBVIOUS
  <2>1. \A j \in 1..q : listing[j] \in Earlier(V, r)
    <3> SUFFICES ASSUME NEW j \in 1..q PROVE listing[j] \in Earlier(V, r)
      OBVIOUS
    <3>1. j \in 1..n /\ listing[j] \in V /\ DayOf[listing[j]] \in Int
      BY <1>1, <1>4, DaysAssumption
    <3>2. j = q \/ DayOf[listing[j]] >= DayOf[listing[q]]
      <4>1. \A a, b \in 1..n : a < b => DayOf[listing[a]] >= DayOf[listing[b]]
        BY ListingFacts
      <4>2. j = q \/ j < q
        BY <1>1, <1>4, <3>1
      <4>3. QED
        BY <1>4, <3>1, <4>1, <4>2
    <3>3. QED
      BY <1>5, <3>1, <3>2 DEF Earlier
  <2>2. \A j, k \in 1..q : listing[j] = listing[k] => j = k
    BY <1>1, <1>4, ListingFacts
  <2>3. q <= Rank(V, r)
    BY <1>1, <2>1, <2>2, RankIsNat, CountAtLeast DEF Rank
  <2>4. QED
    BY <1>1, <2>3
<1>8. QED
  BY <1>4, <1>5, <1>6, <1>7

\* The page from an offset is the listing from there on, at most lim rows.
LEMMA SliceFacts ==
  ASSUME NEW V \in SUBSET Rows, NEW listing \in Listings(V), NEW from \in Nat, NEW lim \in Nat \ {0}
  PROVE  /\ Slice(listing, from, lim) \in Seq(Rows)
         /\ Len(Slice(listing, from, lim)) <= lim
         /\ Len(Slice(listing, from, lim)) = 0 \/ from + Len(Slice(listing, from, lim)) <= Cardinality(V)
         /\ \A k \in 1..Len(Slice(listing, from, lim)) :
              from + k \in 1..Cardinality(V) /\ Slice(listing, from, lim)[k] = listing[from + k]
         /\ \A p \in 1..Cardinality(V) : from < p /\ p <= from + lim =>
              listing[p] \in Known(Slice(listing, from, lim))
<1> DEFINE n == Cardinality(V)
           last == IF from + lim < n THEN from + lim ELSE n
           page == SubSeq(listing, from + 1, last)
<1>1. n \in Nat /\ listing \in Seq(V) /\ Len(listing) = n
  BY ListingFacts
<1>2. Slice(listing, from, lim) = page
  BY <1>1 DEF Slice
<1>3. last \in Nat /\ last <= n /\ last <= from + lim
  BY <1>1
<1>4. \A i \in (from + 1)..last : listing[i] \in Rows
  BY <1>1, <1>3
<1>5. /\ page \in Seq(Rows)
      /\ Len(page) = IF from + 1 <= last THEN last - (from + 1) + 1 ELSE 0
      /\ \A i \in 1..(last - (from + 1) + 1) : page[i] = listing[(from + 1) + i - 1]
  BY <1>3, <1>4, SubSeqProperties
<1>6. Len(page) <= lim /\ (Len(page) = 0 \/ from + Len(page) <= n)
  BY <1>1, <1>3, <1>5
<1>7. \A k \in 1..Len(page) : from + k \in 1..n /\ page[k] = listing[from + k]
  <2> SUFFICES ASSUME NEW k \in 1..Len(page) PROVE from + k \in 1..n /\ page[k] = listing[from + k]
    OBVIOUS
  <2>1. k \in 1..(last - (from + 1) + 1) /\ (from + 1) + k - 1 = from + k /\ from + k <= last
    BY <1>3, <1>5
  <2>2. from + k \in 1..n
    BY <1>1, <1>3, <2>1
  <2>3. page[k] = listing[(from + 1) + k - 1]
    BY <1>5, <2>1
  <2>4. QED
    BY <2>1, <2>2, <2>3
<1>8. \A p \in 1..n : from < p /\ p <= from + lim => listing[p] \in Known(page)
  <2> SUFFICES ASSUME NEW p \in 1..n, from < p, p <= from + lim PROVE listing[p] \in Known(page)
    OBVIOUS
  <2>1. p - from \in 1..Len(page) /\ from + (p - from) = p
    BY <1>1, <1>5
  <2>2. page[p - from] = listing[p]
    BY <1>7, <2>1
  <2>3. p - from \in DOMAIN page
    BY <1>5, <2>1
  <2>4. QED
    BY <2>2, <2>3 DEF Known
<1>9. QED
  BY <1>2, <1>5, <1>6, <1>7, <1>8

-------------------------------------------------------------------------------
(* What every step of the walk keeps.                                      *)

Walking == phase \in {"asking", "counted"}

\* The state of a walk; the count is the view's unless the view changed
\* between the two queries of the page under way.
WalkInv ==
  /\ phase \in {"off", "asking", "counted", "ended"}
  /\ size \in Int /\ offset \in Nat /\ total \in Nat
  /\ seen \in Seq(Rows) /\ before \in SUBSET Rows
  /\ phase = "off" => seen = <<>> /\ offset = 0 /\ before = {} /\ changed = {}
  /\ phase = "counted" /\ "inside" \notin changed => total = Cardinality(view)

\* The walk's own steps leave the table as it is.
LEMMA ViewRests == UNCHANGED <<stored, category, jobOf, filter>> => view' = view
  BY DEF view, View

\* A step of the table is written down in changed as long as the walk goes
\* on.
LEMMA Disturbed ==
  ASSUME WalkInv, BookStep
  PROVE  /\ UNCHANGED <<phase, size, filter, offset, total, seen, before>>
         /\ changed \subseteq changed'
         /\ ~ Walking => changed' = changed
         /\ Walking => /\ "shrank" \notin changed' => view \subseteq view'
                       /\ "grew" \notin changed' => view' \subseteq view
                       /\ phase = "counted" /\ "inside" \notin changed' => view' = view
                       /\ changed' = {} => view' = view
<1> DEFINE now == View(stored', category', jobOf')
<1>1. Disturb /\ UNCHANGED <<phase, size, filter, offset, total, seen, before>>
  BY DEF BookStep
<1>2. view' = now
  BY <1>1 DEF view, View
<1> HIDE DEF now
<1> DEFINE what == (IF view \subseteq now THEN {} ELSE {"shrank"}) \cup (IF now \subseteq view THEN {} ELSE {"grew"})
           more == what \cup (IF phase = "counted" THEN {"inside"} ELSE {})
<1>3. changed' = IF phase \in {"off", "ended"} \/ what = {} THEN changed ELSE changed \cup more
  BY <1>1 DEF Disturb, now
<1>4. CASE ~ Walking
  <2>1. phase \in {"off", "ended"}
    BY <1>4 DEF Walking, WalkInv
  <2>2. QED
    BY <1>1, <1>3, <1>4, <2>1
<1>5. CASE Walking
  <2>1. phase \notin {"off", "ended"}
    BY <1>5 DEF Walking
  <2>2. what = {} => view \subseteq now /\ now \subseteq view
    OBVIOUS
  <2>3. "shrank" \notin what => view \subseteq now
    OBVIOUS
  <2>4. "grew" \notin what => now \subseteq view
    OBVIOUS
  <2> HIDE DEF what
  <2>5. CASE what = {}
    BY <1>1, <1>2, <1>3, <1>5, <2>2, <2>5
  <2>6. CASE what # {}
    <3>1. changed' = changed \cup more
      BY <1>3, <2>1, <2>6
    <3>2. what \subseteq changed' /\ changed \subseteq changed'
      BY <3>1
    <3>3. phase = "counted" => "inside" \in changed'
      BY <3>1
    <3>4. changed' # {}
      BY <2>6, <3>2
    <3>5. QED
      BY <1>1, <1>2, <1>5, <2>3, <2>4, <3>2, <3>3, <3>4
  <2>7. QED
    BY <2>5, <2>6
<1>6. QED
  BY <1>4, <1>5

LEMMA InitWalk == Init => WalkInv
  BY PageSizesAssumption DEF Init, WalkInv

\* The page that is got: a slice of some listing of the view, behind what
\* was seen before.
LEMMA PageGot ==
  ASSUME BookTypeOK, WalkInv, GetPage
  PROVE  /\ phase = "counted" /\ UNCHANGED <<bookVars, size, filter, total, before, changed>>
         /\ view' = view
         /\ Limit \in Nat \ {0} /\ Limit <= MaxLimit
         /\ \E listing \in Listings(view) : seen' = seen \o Slice(listing, offset, Limit)
         /\ \/ HasNext /\ phase' = "asking" /\ offset' = OffsetOf(NextOffset)
            \/ ~ HasNext /\ phase' = "ended" /\ offset' = offset
<1>1. phase = "counted" /\ UNCHANGED <<bookVars, size, filter, total, before, changed>>
  BY DEF GetPage
<1>2. view' = view
  BY <1>1, ViewRests DEF bookVars, tableVars
<1>3. Limit \in Nat \ {0} /\ Limit <= MaxLimit
  BY LimitsAssumption DEF WalkInv, Limit
<1>4. ~ (offset < 0)
  BY DEF WalkInv
<1>5. \E listing \in Listings(view) : seen' = seen \o Slice(listing, offset, Limit)
  BY <1>4 DEF GetPage, Page
<1>6. \/ HasNext /\ phase' = "asking" /\ offset' = OffsetOf(NextOffset)
      \/ ~ HasNext /\ phase' = "ended" /\ offset' = offset
  BY DEF GetPage
<1>7. QED
  BY <1>1, <1>2, <1>3, <1>5, <1>6

LEMMA StepWalk == BookTypeOK /\ WalkInv /\ [Next]_vars => WalkInv'
<1> SUFFICES ASSUME BookTypeOK, WalkInv, [Next]_vars PROVE WalkInv'
  OBVIOUS
<1>1. CASE BookStep
  <2>1. UNCHANGED <<phase, size, filter, offset, total, seen, before>>
    BY <1>1, Disturbed
  <2>2. phase = "off" => changed' = changed
    BY <1>1, Disturbed DEF Walking
  <2>3. phase = "counted" /\ "inside" \notin changed' => view' = view /\ "inside" \notin changed
    BY <1>1, Disturbed DEF Walking
  <2>4. phase' = "counted" /\ "inside" \notin changed' => total' = Cardinality(view')
    BY <2>1, <2>3 DEF WalkInv
  <2>5. QED
    BY <2>1, <2>2, <2>4 DEF WalkInv
<1>2. CASE StartWalk
  BY <1>2, ViewInRows DEF StartWalk, WalkInv
<1>3. CASE CountRows
  <2>1. view' = view
    BY <1>3, ViewRests DEF CountRows, bookVars, tableVars
  <2>2. QED
    BY <1>3, <2>1, ViewInRows DEF CountRows, WalkInv
<1>4. CASE GetPage
  <2>1. /\ phase = "counted" /\ UNCHANGED <<size, total, before, changed>>
        /\ phase' \in {"asking", "ended"}
        /\ offset' = offset \/ offset' = OffsetOf(NextOffset)
        /\ Limit \in Nat \ {0}
    BY <1>4, PageGot
  <2>2. offset' \in Nat
    BY <2>1 DEF WalkInv, OffsetOf, NextOffset
  <2>3. seen' \in Seq(Rows)
    <3>1. PICK listing \in Listings(view) : seen' = seen \o Slice(listing, offset, Limit)
      BY <1>4, PageGot
    <3>2. Slice(listing, offset, Limit) \in Seq(Rows)
      BY <2>1, <3>1, ViewInRows, SliceFacts DEF WalkInv
    <3>3. QED
      BY <3>1, <3>2 DEF WalkInv
  <2>4. QED
    BY <2>1, <2>2, <2>3 DEF WalkInv
<1>5. CASE UNCHANGED vars
  <2>1. view' = view
    BY <1>5, ViewRests DEF vars, walkVars, bookVars, tableVars
  <2>2. QED
    BY <1>5, <2>1 DEF vars, walkVars, WalkInv
<1>6. QED
  BY <1>1, <1>2, <1>3, <1>4, <1>5 DEF Next, Walk

-------------------------------------------------------------------------------
(* A walk misses nothing: a row it has still to get is behind the offset.  *)

\* No other row of r's day has been seen.
Alone(r) == \A s \in Known(seen) : DayOf[s] = DayOf[r] => s = r

\* As long as nothing left the view, a row of the first view that was not
\* seen yet has at least as many rows before its day as the offset skips, so
\* that it is not skipped; and the walk does not end before it.
Ahead ==
  Allowed /\ changed \cap {"shrank", "inside"} = {} =>
    /\ Walking => before \subseteq view
    /\ \A r \in before : Alone(r) /\ r \notin Known(seen) => Walking /\ offset <= Rank(view, r)

LEMMA InitAhead == Init => Ahead
  BY DEF Init, Ahead, Walking

\* What is alone after a page was alone before it.
LEMMA SeenGrows ==
  ASSUME BookTypeOK, WalkInv, GetPage
  PROVE  /\ Known(seen) \subseteq Known(seen')
         /\ \E listing \in Listings(view) :
              /\ Known(seen') = Known(seen) \cup Known(Slice(listing, offset, Limit))
              /\ seen' = seen \o Slice(listing, offset, Limit)
              /\ Slice(listing, offset, Limit) \in Seq(Rows)
<1>1. PICK listing \in Listings(view) : seen' = seen \o Slice(listing, offset, Limit)
  BY PageGot
<1>2. Slice(listing, offset, Limit) \in Seq(Rows)
  BY <1>1, PageGot, ViewInRows, SliceFacts DEF WalkInv
<1>3. Known(seen \o Slice(listing, offset, Limit)) = Known(seen) \cup Known(Slice(listing, offset, Limit))
  BY <1>2, KnownOfBoth DEF WalkInv
<1>4. QED
  BY <1>1, <1>2, <1>3

\* The page that does not hold a row ends before it: were the row's rank in
\* the window, the window would hold a row of its day, and that row is alone.
LEMMA PageAhead == BookTypeOK /\ WalkInv /\ Ahead /\ GetPage => Ahead'
<1> SUFFICES ASSUME BookTypeOK, WalkInv, Ahead, GetPage,
                    Allowed', changed' \cap {"shrank", "inside"} = {}
             PROVE  /\ Walking' => before' \subseteq view'
                    /\ \A r \in before' : Alone(r)' /\ r \notin Known(seen') => Walking' /\ offset' <= Rank(view', r)
  BY DEF Ahead
<1>1. /\ phase = "counted" /\ UNCHANGED <<size, total, before, changed>> /\ view' = view
      /\ \/ HasNext /\ phase' = "asking" /\ offset' = OffsetOf(NextOffset)
         \/ ~ HasNext /\ phase' = "ended" /\ offset' = offset
  BY PageGot
<1>2. size \in 1..MaxLimit /\ Limit = size /\ size \in Nat \ {0} /\ offset \in Nat
  BY <1>1, LimitsAssumption DEF Allowed, Limit, WalkInv
<1>3. changed \cap {"shrank", "inside"} = {} /\ Allowed
  BY <1>1 DEF Allowed
<1>4. before \subseteq view
  BY <1>1, <1>3 DEF Ahead, Walking
<1>5. \A r \in before : Alone(r)' /\ r \notin Known(seen') => Walking' /\ offset' <= Rank(view, r)
  <2> SUFFICES ASSUME NEW r \in before, Alone(r)', r \notin Known(seen')
               PROVE  Walking' /\ offset' <= Rank(view, r)
    OBVIOUS
  <2> DEFINE k == Rank(view, r)
  <2>1. PICK listing \in Listings(view) :
          Known(seen') = Known(seen) \cup Known(Slice(listing, offset, Limit))
    BY SeenGrows
  <2>2. Alone(r) /\ r \notin Known(seen)
    BY <2>1 DEF Alone
  <2>3. offset <= k
    BY <1>3, <2>2 DEF Ahead
  <2>4. r \in view /\ view \in SUBSET Rows /\ Cardinality(view) \in Nat /\ k \in Nat
    BY <1>4, ViewInRows, RankIsNat
  <2>5. k + 1 \in 1..Cardinality(view) /\ DayOf[listing[k + 1]] = DayOf[r]
    BY <2>4, TieAtRank
  <2>6. offset + size <= k
    <3> SUFFICES ASSUME ~ (offset + size <= k) PROVE FALSE
      OBVIOUS
    <3>1. offset < k + 1 /\ k + 1 <= offset + Limit
      BY <1>2, <2>3, <2>4
    <3>2. listing[k + 1] \in Known(Slice(listing, offset, Limit))
      BY <1>2, <2>4, <2>5, <3>1, SliceFacts
    <3>3. listing[k + 1] \in Known(seen')
      BY <2>1, <3>2
    <3>4. listing[k + 1] = r
      BY <2>5, <3>3 DEF Alone
    <3>5. QED
      BY <3>3, <3>4
  <2>7. HasNext
    <3>1. total = Cardinality(view)
      BY <1>1, <1>3 DEF WalkInv
    <3>2. QED
      BY <1>2, <2>4, <2>5, <2>6, <3>1 DEF HasNext, NextOffset
  <2>8. phase' = "asking" /\ offset' = offset + size
    BY <1>1, <1>2, <2>7 DEF OffsetOf, NextOffset
  <2>9. QED
    BY <2>6, <2>8 DEF Walking
<1>6. QED
  BY <1>1, <1>4, <1>5

LEMMA StepAhead == BookTypeOK /\ BookTypeOK' /\ WalkInv /\ Ahead /\ [Next]_vars => Ahead'
<1> SUFFICES ASSUME BookTypeOK, BookTypeOK', WalkInv, Ahead, [Next]_vars PROVE Ahead'
  OBVIOUS
<1>1. CASE BookStep
  <2> SUFFICES ASSUME Allowed', changed' \cap {"shrank", "inside"} = {}
               PROVE  /\ Walking' => before' \subseteq view'
                      /\ \A r \in before' : Alone(r)' /\ r \notin Known(seen') => Walking' /\ offset' <= Rank(view', r)
    BY DEF Ahead
  <2>1. UNCHANGED <<phase, size, offset, seen, before>> /\ changed \subseteq changed'
        /\ (Walking => view \subseteq view')
    BY <1>1, Disturbed
  <2>2. Allowed /\ changed \cap {"shrank", "inside"} = {}
    BY <2>1 DEF Allowed
  <2>3. Walking => before \subseteq view
    BY <2>2 DEF Ahead
  <2>4. \A r \in before : Alone(r) /\ r \notin Known(seen) => Walking /\ offset <= Rank(view, r)
    BY <2>2 DEF Ahead
  <2>5. \A r \in before : Walking => Rank(view, r) <= Rank(view', r)
    <3>1. view \in SUBSET Rows /\ view' \in SUBSET Rows
      BY ViewInRows DEF BookTypeOK, view, View
    <3>2. QED
      BY <2>1, <3>1, RankGrows
  <2>6. \A r : Rank(view, r) \in Nat /\ Rank(view', r) \in Nat
    BY ViewInRows, RankIsNat DEF BookTypeOK, view, View
  <2>7. Walking' <=> Walking
    BY <2>1 DEF Walking
  <2>8. \A r : Alone(r)' => Alone(r)
    BY <2>1 DEF Alone
  <2>9. QED
    BY <2>1, <2>3, <2>4, <2>5, <2>6, <2>7, <2>8 DEF WalkInv
<1>2. CASE StartWalk
  <2>1. view' = view
    BY <1>2, ViewRests DEF StartWalk, bookVars, tableVars
  <2>2. before' = view' /\ offset' = 0 /\ phase' = "asking"
    BY <1>2, <2>1 DEF StartWalk, WalkInv
  <2>3. \A r : Rank(view', r) \in Nat
    BY <2>1, ViewInRows, RankIsNat
  <2>4. QED
    BY <2>2, <2>3 DEF Ahead, Walking
<1>3. CASE CountRows
  <2>1. view' = view
    BY <1>3, ViewRests DEF CountRows, bookVars, tableVars
  <2>2. UNCHANGED <<size, offset, seen, before, changed>> /\ phase = "asking" /\ phase' = "counted"
    BY <1>3 DEF CountRows
  <2>3. QED
    BY <2>1, <2>2 DEF Ahead, Allowed, Walking, Alone
<1>4. CASE GetPage
  BY <1>4, PageAhead
<1>5. CASE UNCHANGED vars
  <2>1. view' = view
    BY <1>5, ViewRests DEF vars, walkVars, bookVars, tableVars
  <2>2. UNCHANGED walkVars
    BY <1>5 DEF vars
  <2>3. QED
    BY <2>1, <2>2 DEF walkVars, Ahead, Allowed, Walking, Alone
<1>6. QED
  BY <1>1, <1>2, <1>3, <1>4, <1>5 DEF Next, Walk

LEMMA AheadMissesNothing == Ahead => NothingMissed
<1> SUFFICES ASSUME Ahead, phase = "ended", Allowed, Ordered, changed \cap {"shrank", "inside"} = {},
                    NEW r \in before, r \notin Known(seen)
             PROVE  FALSE
  BY DEF NothingMissed
<1>1. Alone(r)
  BY DEF Ordered, Alone
<1>2. Walking
  BY <1>1 DEF Ahead
<1>3. QED
  BY <1>2 DEF Walking

-------------------------------------------------------------------------------
(* A walk repeats nothing: a row it has got is before the offset.          *)

\* As long as nothing came into the view, and its days differ, a row that
\* was seen and is still there has fewer rows before its day than the offset
\* skips, so that no later page holds it again.
Behind ==
  Allowed /\ Apart(before) /\ changed \cap {"grew", "inside"} = {} =>
    /\ Walking => view \subseteq before /\ \A r \in Known(seen) \cap view : Rank(view, r) < offset
    /\ \A j, k \in DOMAIN seen : seen[j] = seen[k] => j = k

LEMMA InitBehind == Init => Behind
  BY DEF Init, Behind, Walking

\* Two sequences without repetitions and without a common row make one.
LEMMA JoinedOnce ==
  ASSUME NEW s \in Seq(Rows), NEW t \in Seq(Rows), Known(s) \cap Known(t) = {},
         \A j, k \in DOMAIN s : s[j] = s[k] => j = k,
         \A j, k \in DOMAIN t : t[j] = t[k] => j = k,
         NEW j \in DOMAIN (s \o t), NEW k \in DOMAIN (s \o t), (s \o t)[j] = (s \o t)[k]
  PROVE  j = k
<1> DEFINE m == Len(s)
<1>1. m \in Nat /\ Len(t) \in Nat /\ DOMAIN s = 1..m /\ DOMAIN t = 1..Len(t)
      /\ DOMAIN (s \o t) = 1..(m + Len(t))
  OBVIOUS
<1>2. \A i \in DOMAIN (s \o t) :
        \/ i \in DOMAIN s /\ (s \o t)[i] = s[i]
        \/ i - m \in DOMAIN t /\ (s \o t)[i] = t[i - m]
  OBVIOUS
<1>3. \A a \in DOMAIN s, b \in DOMAIN t : s[a] # t[b]
  BY DEF Known
<1>4. j \in Int /\ k \in Int
  BY <1>1
<1>5. CASE j \in DOMAIN s /\ (s \o t)[j] = s[j]
  BY <1>2, <1>3, <1>5
<1>6. CASE j - m \in DOMAIN t /\ (s \o t)[j] = t[j - m]
  <2>1. k - m \in DOMAIN t /\ (s \o t)[k] = t[k - m]
    BY <1>2, <1>3, <1>6
  <2>2. j - m = k - m
    BY <1>6, <2>1
  <2>3. QED
    BY <1>1, <1>4, <2>2
<1>7. QED
  BY <1>2, <1>5, <1>6

LEMMA PageBehind == BookTypeOK /\ WalkInv /\ Behind /\ GetPage => Behind'
<1> SUFFICES ASSUME BookTypeOK, WalkInv, Behind, GetPage,
                    Allowed', Apart(before'), changed' \cap {"grew", "inside"} = {}
             PROVE  /\ Walking' => view' \subseteq before'
                                   /\ \A r \in Known(seen') \cap view' : Rank(view', r) < offset'
                    /\ \A j, k \in DOMAIN seen' : seen'[j] = seen'[k] => j = k
  BY DEF Behind
<1>1. /\ phase = "counted" /\ UNCHANGED <<size, total, before, changed>> /\ view' = view
      /\ \/ HasNext /\ phase' = "asking" /\ offset' = OffsetOf(NextOffset)
         \/ ~ HasNext /\ phase' = "ended" /\ offset' = offset
  BY PageGot
<1>2. Limit = size /\ size \in Nat \ {0} /\ offset \in Nat
  BY <1>1, LimitsAssumption DEF Allowed, Limit, WalkInv
<1>3. Allowed /\ Apart(before) /\ changed \cap {"grew", "inside"} = {} /\ Walking
  BY <1>1 DEF Allowed, Walking
<1>4. /\ view \subseteq before /\ \A r \in Known(seen) \cap view : Rank(view, r) < offset
      /\ \A j, k \in DOMAIN seen : seen[j] = seen[k] => j = k
  BY <1>3 DEF Behind
<1>5. view \in SUBSET Rows /\ Apart(view) /\ Cardinality(view) \in Nat
  BY <1>3, <1>4, ViewInRows DEF Apart
<1>6. PICK listing \in Listings(view) :
        /\ Known(seen') = Known(seen) \cup Known(Slice(listing, offset, Limit))
        /\ seen' = seen \o Slice(listing, offset, Limit)
        /\ Slice(listing, offset, Limit) \in Seq(Rows)
  BY SeenGrows
<1> DEFINE page == Slice(listing, offset, Limit)
<1>7. /\ Len(page) \in Nat /\ Len(page) <= size
      /\ \A k \in 1..Len(page) : offset + k \in 1..Cardinality(view) /\ page[k] = listing[offset + k]
  BY <1>2, <1>5, <1>6, SliceFacts
<1>8. \A k \in 1..Len(page) :
        offset <= Rank(view, page[k]) /\ Rank(view, page[k]) < offset + size /\ page[k] \in view
  <2> SUFFICES ASSUME NEW k \in 1..Len(page)
               PROVE  offset <= Rank(view, page[k]) /\ Rank(view, page[k]) < offset + size /\ page[k] \in view
    OBVIOUS
  <2>1. offset + k \in 1..Cardinality(view) /\ page[k] = listing[offset + k] /\ k \in Nat /\ 1 <= k /\ k <= size
    BY <1>2, <1>7
  <2>2. Rank(view, page[k]) < offset + k /\ offset + k - 1 <= Rank(view, page[k])
    <3>1. \A p \in 1..Cardinality(view) : Rank(view, listing[p]) < p /\ p - 1 <= Rank(view, listing[p])
      BY <1>5, RankBelowPlace, RankIsPlace
    <3>2. Rank(view, listing[offset + k]) < offset + k /\ offset + k - 1 <= Rank(view, listing[offset + k])
      BY <1>2, <1>5, <2>1, <3>1
    <3>3. QED
      BY <2>1, <3>2
  <2>3. page[k] \in view
    BY <1>5, <2>1, ListingFacts
  <2> HIDE DEF page
  <2>4. Rank(view, page[k]) \in Nat
    BY <1>5, <2>3, RankIsNat
  <2>5. offset <= Rank(view, page[k]) /\ Rank(view, page[k]) < offset + size
    BY <1>2, <2>1, <2>2, <2>4
  <2>6. QED
    BY <2>3, <2>5
<1>9. \A r \in Known(page) : offset <= Rank(view, r) /\ Rank(view, r) < offset + size /\ r \in view
  BY <1>8, <1>6 DEF Known
<1>10. Known(seen) \cap Known(page) = {}
  <2> SUFFICES ASSUME NEW r \in Known(seen), r \in Known(page) PROVE FALSE
    OBVIOUS
  <2>1. offset <= Rank(view, r) /\ Rank(view, r) < offset /\ Rank(view, r) \in Nat
    BY <1>4, <1>5, <1>9, RankIsNat
  <2>2. QED
    BY <1>2, <2>1
<1>11. \A j, k \in DOMAIN page : page[j] = page[k] => j = k
  <2> SUFFICES ASSUME NEW j \in 1..Len(page), NEW k \in 1..Len(page), page[j] = page[k] PROVE j = k
    BY <1>6
  <2>1. offset + j \in 1..Cardinality(view) /\ offset + k \in 1..Cardinality(view)
        /\ listing[offset + j] = listing[offset + k]
    BY <1>7
  <2>2. offset + j = offset + k
    BY <1>5, <1>6, <2>1, ListingFacts
  <2>3. QED
    BY <1>2, <1>7, <2>2
<1>12. \A j, k \in DOMAIN seen' : seen'[j] = seen'[k] => j = k
  BY <1>4, <1>6, <1>10, <1>11, JoinedOnce DEF WalkInv
<1>13. Walking' => \A r \in Known(seen') \cap view' : Rank(view', r) < offset'
  <2> SUFFICES ASSUME Walking', NEW r \in Known(seen'), r \in view PROVE Rank(view, r) < offset'
    BY <1>1
  <2>1. offset' = offset + size
    BY <1>1, <1>2 DEF Walking, OffsetOf, NextOffset
  <2>2. CASE r \in Known(seen)
    <3>1. Rank(view, r) < offset /\ Rank(view, r) \in Nat
      BY <1>4, <1>5, <2>2, RankIsNat
    <3>2. QED
      BY <1>2, <2>1, <3>1
  <2>3. CASE r \in Known(page)
    BY <1>9, <2>1, <2>3
  <2>4. QED
    BY <1>6, <2>2, <2>3
<1>14. QED
  BY <1>1, <1>4, <1>12, <1>13

LEMMA StepBehind == BookTypeOK /\ BookTypeOK' /\ WalkInv /\ Behind /\ [Next]_vars => Behind'
<1> SUFFICES ASSUME BookTypeOK, BookTypeOK', WalkInv, Behind, [Next]_vars PROVE Behind'
  OBVIOUS
<1>1. CASE BookStep
  <2> SUFFICES ASSUME Allowed', Apart(before'), changed' \cap {"grew", "inside"} = {}
               PROVE  /\ Walking' => view' \subseteq before'
                                     /\ \A r \in Known(seen') \cap view' : Rank(view', r) < offset'
                      /\ \A j, k \in DOMAIN seen' : seen'[j] = seen'[k] => j = k
    BY DEF Behind
  <2>1. UNCHANGED <<phase, size, offset, seen, before>> /\ changed \subseteq changed'
        /\ (Walking => view' \subseteq view)
    BY <1>1, Disturbed
  <2>2. Allowed /\ Apart(before) /\ changed \cap {"grew", "inside"} = {} /\ (Walking' <=> Walking)
    BY <2>1 DEF Allowed, Walking
  <2>3. /\ Walking => view \subseteq before /\ \A r \in Known(seen) \cap view : Rank(view, r) < offset
        /\ \A j, k \in DOMAIN seen : seen[j] = seen[k] => j = k
    BY <2>2 DEF Behind
  <2>4. Walking => \A r \in Known(seen) \cap view' : Rank(view', r) < offset
    <3> SUFFICES ASSUME Walking, NEW r \in Known(seen), r \in view' PROVE Rank(view', r) < offset
      OBVIOUS
    <3>1. view \in SUBSET Rows /\ view' \in SUBSET view /\ view' \in SUBSET Rows
      BY <2>1, ViewInRows
    <3>2. Rank(view', r) <= Rank(view, r) /\ Rank(view', r) \in Nat /\ Rank(view, r) \in Nat
      BY <3>1, RankGrows, RankIsNat
    <3>3. Rank(view, r) < offset
      BY <2>1, <2>3
    <3>4. QED
      BY <3>2, <3>3 DEF WalkInv
  <2>5. QED
    BY <2>1, <2>2, <2>3, <2>4
<1>2. CASE StartWalk
  <2>1. view' = view
    BY <1>2, ViewRests DEF StartWalk, bookVars, tableVars
  <2>2. before' = view' /\ seen' = <<>>
    BY <1>2, <2>1 DEF StartWalk, WalkInv
  <2>3. QED
    BY <2>2 DEF Behind, Known
<1>3. CASE CountRows
  <2>1. view' = view
    BY <1>3, ViewRests DEF CountRows, bookVars, tableVars
  <2>2. UNCHANGED <<size, offset, seen, before, changed>> /\ phase = "asking" /\ phase' = "counted"
    BY <1>3 DEF CountRows
  <2>3. QED
    BY <2>1, <2>2 DEF Behind, Allowed, Walking
<1>4. CASE GetPage
  BY <1>4, PageBehind
<1>5. CASE UNCHANGED vars
  <2>1. view' = view
    BY <1>5, ViewRests DEF vars, walkVars, bookVars, tableVars
  <2>2. UNCHANGED walkVars
    BY <1>5 DEF vars
  <2>3. QED
    BY <2>1, <2>2 DEF walkVars, Behind, Allowed, Walking
<1>6. QED
  BY <1>1, <1>2, <1>3, <1>4, <1>5 DEF Next, Walk

LEMMA BehindRepeatsNothing == Behind => NothingTwice
<1> SUFFICES ASSUME Behind, Allowed, Ordered, changed \cap {"grew", "inside"} = {}
             PROVE  \A j, k \in DOMAIN seen : seen[j] = seen[k] => j = k
  BY DEF NothingTwice
<1>1. Apart(before)
  BY DEF Ordered, Apart
<1>2. QED
  BY <1>1 DEF Behind

-------------------------------------------------------------------------------
(* Sizes above the maximum.                                                *)

\* The token skips more than the page holds, so that what was seen is short
\* of the offset, and at the end of the view.
Short ==
  size > MaxLimit /\ changed = {} =>
    /\ Walking => /\ view = before /\ Len(seen) <= offset
                  /\ offset > 0 => Len(seen) < offset /\ offset < Cardinality(before)
    /\ phase = "ended" /\ Cardinality(before) > DefaultLimit => Len(seen) < Cardinality(before)

LEMMA InitShort == Init => Short
  BY DEF Init, Short, Walking

LEMMA PageShort == BookTypeOK /\ WalkInv /\ Short /\ GetPage => Short'
<1> SUFFICES ASSUME BookTypeOK, WalkInv, Short, GetPage, size' > MaxLimit, changed' = {}
             PROVE  /\ Walking' => /\ view' = before' /\ Len(seen') <= offset'
                                   /\ offset' > 0 => Len(seen') < offset' /\ offset' < Cardinality(before')
                    /\ phase' = "ended" /\ Cardinality(before') > DefaultLimit => Len(seen') < Cardinality(before')
  BY DEF Short
<1> DEFINE n == Cardinality(view)
<1>1. /\ phase = "counted" /\ UNCHANGED <<size, total, before, changed>> /\ view' = view
      /\ \/ HasNext /\ phase' = "asking" /\ offset' = OffsetOf(NextOffset)
         \/ ~ HasNext /\ phase' = "ended" /\ offset' = offset
  BY PageGot
<1>2. /\ size > MaxLimit /\ size \in Nat /\ DefaultLimit \in Nat \ {0} /\ DefaultLimit < size
      /\ Limit = DefaultLimit /\ offset \in Nat /\ n \in Nat /\ total = n
  BY <1>1, LimitsAssumption, ViewInRows DEF Limit, WalkInv
<1>3. view = before /\ Len(seen) <= offset /\ (offset > 0 => Len(seen) < offset /\ offset < n)
  BY <1>1, <1>2 DEF Short, Walking
<1>4. PICK listing \in Listings(view) :
        /\ seen' = seen \o Slice(listing, offset, Limit)
        /\ Slice(listing, offset, Limit) \in Seq(Rows)
  BY SeenGrows
<1> DEFINE page == Slice(listing, offset, Limit)
<1>5. /\ Len(page) \in Nat /\ Len(page) <= DefaultLimit
      /\ Len(page) = 0 \/ offset + Len(page) <= n
  BY <1>2, <1>4, ViewInRows, SliceFacts
<1>6. Len(seen') = Len(seen) + Len(page) /\ Len(seen) \in Nat
  BY <1>4 DEF WalkInv
<1>7. CASE HasNext
  <2>1. phase' = "asking" /\ offset' = offset + size /\ offset + size < n
    BY <1>1, <1>2, <1>7 DEF HasNext, OffsetOf, NextOffset
  <2>2. Len(seen') < offset'
    BY <1>2, <1>3, <1>5, <1>6, <2>1
  <2>3. QED
    BY <1>1, <1>2, <1>3, <1>6, <2>1, <2>2
<1>8. CASE ~ HasNext
  <2>1. phase' = "ended"
    BY <1>1, <1>8
  <2>2. n > DefaultLimit => Len(seen') < n
    BY <1>2, <1>3, <1>5, <1>6
  <2>3. QED
    BY <1>1, <1>3, <2>1, <2>2 DEF Walking
<1>9. QED
  BY <1>7, <1>8

LEMMA StepShort == BookTypeOK /\ WalkInv /\ Short /\ [Next]_vars => Short'
<1> SUFFICES ASSUME BookTypeOK, WalkInv, Short, [Next]_vars PROVE Short'
  OBVIOUS
<1>1. CASE BookStep
  <2>1. UNCHANGED <<phase, size, offset, seen, before>> /\ changed \subseteq changed'
        /\ (Walking /\ changed' = {} => view' = view)
    BY <1>1, Disturbed
  <2>2. changed' = {} => changed = {}
    BY <2>1
  <2>3. QED
    BY <2>1, <2>2 DEF Short, Walking
<1>2. CASE StartWalk
  <2>1. view' = view
    BY <1>2, ViewRests DEF StartWalk, bookVars, tableVars
  <2>2. before' = view' /\ seen' = <<>> /\ offset' = 0 /\ phase' = "asking"
    BY <1>2, <2>1 DEF StartWalk, WalkInv
  <2>3. QED
    BY <2>2 DEF Short
<1>3. CASE CountRows
  <2>1. view' = view
    BY <1>3, ViewRests DEF CountRows, bookVars, tableVars
  <2>2. UNCHANGED <<size, offset, seen, before, changed>> /\ phase = "asking" /\ phase' = "counted"
    BY <1>3 DEF CountRows
  <2>3. QED
    BY <2>1, <2>2 DEF Short, Walking
<1>4. CASE GetPage
  BY <1>4, PageShort
<1>5. CASE UNCHANGED vars
  <2>1. view' = view
    BY <1>5, ViewRests DEF vars, walkVars, bookVars, tableVars
  <2>2. UNCHANGED walkVars
    BY <1>5 DEF vars
  <2>3. QED
    BY <2>1, <2>2 DEF walkVars, Short, Walking
<1>6. QED
  BY <1>1, <1>2, <1>3, <1>4, <1>5 DEF Next, Walk

LEMMA ShortLeavesOut == WalkInv /\ Stuck /\ Short => OddSizes
<1> SUFFICES ASSUME WalkInv, Stuck, Short PROVE OddSizes
  OBVIOUS
<1>1. ASSUME size > MaxLimit, phase = "ended", changed = {}, Cardinality(before) > DefaultLimit,
             before \subseteq Known(seen)
      PROVE  FALSE
  <2>1. Len(seen) < Cardinality(before) /\ Len(seen) \in Nat
    BY <1>1 DEF Short, WalkInv
  <2>2. IsFiniteSet(Known(seen)) /\ Cardinality(Known(seen)) <= Len(seen)
    BY KnownAtMost DEF WalkInv
  <2>3. Cardinality(before) <= Cardinality(Known(seen)) /\ IsFiniteSet(before)
    BY <1>1, <2>2, FS_Subset
  <2>4. Cardinality(before) \in Nat /\ Cardinality(Known(seen)) \in Nat
    BY <2>2, <2>3, FS_CardinalityType
  <2>5. QED
    BY <2>1, <2>2, <2>3, <2>4
<1>2. QED
  BY <1>1 DEF OddSizes, Stuck

-------------------------------------------------------------------------------
(* The theorems.                                                           *)

\* With a client reading beside it, the book of rules behaves as it does
\* alone.
THEOREM ImplementsBook == Spec => BookSpec
<1>1. Init => BookInit
  BY DEF Init
<1>2. QED
  BY <1>1, StepIsBook, PTL DEF Spec, BookSpec

\* A walk with a page size of zero or below gets the first page for ever,
\* or ends because there was nothing.
THEOREM NoSizeNoWalk == Spec => []Stuck
<1>1. Spec => []BookTypeOK
  BY ImplementsBook, TypeCorrect, PTL
<1>2. Init => Stuck
  BY InitStuck
<1>3. BookTypeOK /\ Stuck /\ [Next]_vars => Stuck'
  BY StepStuck
<1>4. QED
  BY <1>1, <1>2, <1>3, PTL DEF Spec

\* A rule reaches its rows also while they are read.
THEOREM RulesReachBesideWalks == Spec => []RuleReaches
  BY ImplementsBook, RulesReach, PTL

\* Whatever the table does beside it, a walk knows where it is.
LEMMA AlwaysWalk == Spec => []WalkInv
<1>1. Spec => []BookTypeOK
  BY ImplementsBook, TypeCorrect, PTL
<1>2. QED
  BY <1>1, InitWalk, StepWalk, PTL DEF Spec

\* A walk with an allowed page size over a view whose days differ misses no
\* row that was there from its beginning, if none left the view meanwhile
\* and nothing changed between the two queries of a page.
THEOREM WalkMissesNothing == Spec => []NothingMissed
<1>1. Spec => []BookTypeOK
  BY ImplementsBook, TypeCorrect, PTL
<1>2. Spec => []Ahead
  BY <1>1, AlwaysWalk, InitAhead, StepAhead, PTL DEF Spec
<1>3. QED
  BY <1>2, AheadMissesNothing, PTL

\* Such a walk repeats no row, if none came into the view meanwhile.
THEOREM WalkRepeatsNothing == Spec => []NothingTwice
<1>1. Spec => []BookTypeOK
  BY ImplementsBook, TypeCorrect, PTL
<1>2. Spec => []Behind
  BY <1>1, AlwaysWalk, InitBehind, StepBehind, PTL DEF Spec
<1>3. QED
  BY <1>2, BehindRepeatsNothing, PTL

\* A page size that the repository replaces breaks the walk over a table
\* that rests: above the maximum rows are left out, at zero or below the
\* first page is all there ever is.
THEOREM OddSizesBreakWalks == Spec => []OddSizes
<1>1. Spec => []BookTypeOK
  BY ImplementsBook, TypeCorrect, PTL
<1>2. Spec => []Short
  BY <1>1, AlwaysWalk, InitShort, StepShort, PTL DEF Spec
<1>3. QED
  BY <1>2, AlwaysWalk, NoSizeNoWalk, ShortLeavesOut, PTL

===============================================================================
