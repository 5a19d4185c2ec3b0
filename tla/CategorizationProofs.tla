------------------------- MODULE CategorizationProofs -------------------------
(***************************************************************************)
(* Proofs about Categorization, for any number of batches, rules and rows, *)
(* any relation between patterns and descriptions, and any failures.       *)
(***************************************************************************)
EXTENDS Categorization, WellFoundedInduction, TLAPS

(* The inductive invariant.                                                *)

\* The steps of a creator after it dropped the cache.
Past == {"dropped", "done", "unapplied"}

\* A rule is in the table from its INSERT on.
InTable == \A c \in Creators : creatorPc[c] \in Past \cup {"inserted"} => c \in Known(rules)

\* A cache that was not overtaken knows every rule that dropped it.
CacheKnows == \A c \in Creators : cached /\ ~overtaken /\ creatorPc[c] \in Past => c \in Known(cache)

\* A batch with its list in hand has such a rule, or a reason not to.
Excused(i, c) == i \in exposed[c] \cup misled \cup unread
BatchKnows ==
  \A i \in Imports, c \in Creators :
    importPc[i] \in {"read", "enriched"} /\ creatorPc[c] \in Past =>
      c \in Known(used[i]) \/ Excused(i, c)

BookInv ==
  BookTypeOK /\ OneRulePerPattern /\ CacheTrails /\ InTable /\ CacheKnows /\ BatchKnows /\ RuleReaches

-------------------------------------------------------------------------------
(* Lists of rules.                                                         *)

\* A finite nonempty set of positions has a last one: the choice of the
\* newest matching rule is one of them.
LEMMA NewestIsThere ==
  ASSUME NEW n \in Nat, NEW ks, ks \subseteq 1..n, ks # {}
  PROVE  Newest(ks) \in ks
<1> DEFINE T == {j \in Nat : \E k \in ks : j = n - k}
<1>1. T \subseteq Nat /\ T # {}
  <2>1. PICK k \in ks : TRUE
    OBVIOUS
  <2>2. k \in 1..n /\ n - k \in Nat
    BY <2>1
  <2>3. n - k \in T
    BY <2>2
  <2>4. QED
    BY <2>3
<1>2. PICK x \in T : \A y \in T : ~ (<<y, x>> \in OpToRel(<, Nat))
  BY <1>1, NatLessThanWellFounded, WFMin, Zenon
<1>3. \A y \in T : ~ (y < x)
  BY <1>2 DEF OpToRel
<1>4. PICK k \in ks : x = n - k
  OBVIOUS
<1>5. \A j \in ks : j <= k
  <2>1. TAKE j \in ks
  <2>2. n - j \in T
    <3>1. j \in 1..n
      OBVIOUS
    <3>2. n - j \in Nat
      BY <3>1
    <3>3. QED
      BY <3>2
  <2>3. ~ (n - j < n - k)
    BY <1>3, <1>4, <2>2
  <2>4. j \in 1..n /\ k \in 1..n
    OBVIOUS
  <2>5. QED
    BY <2>3, <2>4
<1>6. QED
  BY <1>5 DEF Newest

\* A row that contains the pattern of a rule of the list is given a rule
\* whose pattern it contains.
LEMMA ListDecides ==
  ASSUME NEW list \in Seq(Creators), NEW r, NEW c \in Known(list), r \in Contained[c]
  PROVE  CategoryOf(list, r) \in {d \in Creators : r \in Contained[d]}
<1>1. PICK n \in Nat : DOMAIN list = 1..n
  OBVIOUS
<1>2. Matching(list, r) \subseteq 1..n /\ Matching(list, r) # {}
  BY <1>1 DEF Matching, Known
<1>3. Newest(Matching(list, r)) \in Matching(list, r)
  BY <1>2, NewestIsThere
<1>4. QED
  BY <1>1, <1>2, <1>3 DEF CategoryOf, Matching

LEMMA ListGrows ==
  ASSUME NEW list \in Seq(Creators), NEW c \in Creators
  PROVE  Append(list, c) \in Seq(Creators) /\ Known(Append(list, c)) = Known(list) \cup {c}
<1> DEFINE longer == Append(list, c)
<1>1. PICK n \in Nat : n = Len(list) /\ DOMAIN list = 1..n
  OBVIOUS
<1>2. longer \in Seq(Creators) /\ DOMAIN longer = 1..(n + 1)
  BY <1>1
<1>3. longer[n + 1] = c /\ \A k \in 1..n : longer[k] = list[k]
  BY <1>1
<1>4. \A x \in Known(longer) : x \in Known(list) \cup {c}
  <2>1. TAKE x \in Known(longer)
  <2>2. PICK k \in 1..(n + 1) : x = longer[k]
    BY <1>2 DEF Known
  <2>3. QED
    BY <1>1, <1>3, <2>2 DEF Known
<1>5. Known(list) \cup {c} \subseteq Known(longer)
  <2>1. c \in Known(longer)
    BY <1>2, <1>3 DEF Known
  <2>2. \A k \in 1..n : list[k] \in Known(longer)
    BY <1>2, <1>3 DEF Known
  <2>3. QED
    BY <1>1, <2>1, <2>2 DEF Known
<1>6. QED
  BY <1>2, <1>4, <1>5

-------------------------------------------------------------------------------
(* Each conjunct, step by step.                                            *)

LEMMA InitBook == BookInit => BookInv
<1> SUFFICES ASSUME BookInit PROVE BookInv
  OBVIOUS
<1>1. \A c \in Creators : creatorPc[c] = "start"
  BY DEF BookInit
<1>2. BookTypeOK
  <2>1. <<>> \in Seq(Creators)
    OBVIOUS
  <2>2. (CHOOSE i \in Imports : TRUE) \in Imports
    BY ImportsAssumption
  <2>3. rules \in Seq(Creators) /\ cache \in Seq(Creators) /\ used \in [Imports -> Seq(Creators)]
    BY <2>1 DEF BookInit
  <2>4. jobOf \in [Rows -> Imports]
    BY <2>2 DEF BookInit
  <2>5. QED
    BY <2>3, <2>4 DEF BookInit, BookTypeOK
<1>3. OneRulePerPattern
  BY DEF BookInit, OneRulePerPattern
<1>4. CacheTrails /\ CacheKnows
  BY DEF BookInit, CacheTrails, CacheKnows
<1>5. InTable /\ BatchKnows
  BY <1>1 DEF InTable, BatchKnows, Past
<1>6. RuleReaches
  BY DEF BookInit, RuleReaches
<1>7. QED
  BY <1>2, <1>3, <1>4, <1>5, <1>6 DEF BookInv

LEMMA TypesKept == BookInv /\ [BookNext]_bookVars => BookTypeOK'
<1> SUFFICES ASSUME BookInv, [BookNext]_bookVars PROVE BookTypeOK'
  OBVIOUS
<1>0. BookTypeOK
  BY DEF BookInv
<1> USE DEF BookTypeOK
<1>1. ASSUME NEW i \in Imports, CacheHit(i) PROVE BookTypeOK'
  BY <1>0, <1>1 DEF CacheHit, creatorVars, tableVars, cacheVars
<1>2. ASSUME NEW i \in Imports, CacheMiss(i) PROVE BookTypeOK'
  BY <1>0, <1>2 DEF CacheMiss, creatorVars, tableVars, cacheVars
<1>3. ASSUME NEW i \in Imports, ReadRules(i) PROVE BookTypeOK'
  BY <1>0, <1>3 DEF ReadRules, creatorVars, tableVars, cacheVars
<1>4. ASSUME NEW i \in Imports, ReadRulesFails(i) PROVE BookTypeOK'
  BY <1>0, <1>4 DEF ReadRulesFails, creatorVars, tableVars, cacheVars
<1>5. ASSUME NEW i \in Imports, FillCache(i) PROVE BookTypeOK'
  BY <1>0, <1>5 DEF FillCache, creatorVars, tableVars
<1>6. ASSUME NEW i \in Imports, InsertBatch(i) PROVE BookTypeOK'
  BY <1>0, <1>6, RowsOfAssumption DEF InsertBatch, creatorVars, cacheVars
<1>7. ASSUME NEW i \in Imports, DeleteImportBatch(i) PROVE BookTypeOK'
  BY <1>0, <1>7 DEF DeleteImportBatch, importVars, creatorVars, cacheVars
<1>8. ASSUME NEW c \in Creators, FindRule(c) PROVE BookTypeOK'
  BY <1>0, <1>8 DEF FindRule, importVars, tableVars, cacheVars
<1>9. ASSUME NEW c \in Creators, InsertRule(c) PROVE BookTypeOK'
  BY <1>0, <1>9, ListGrows DEF InsertRule, importVars, tableVars, cacheVars
<1>10. ASSUME NEW c \in Creators, CreateRuleFails(c) PROVE BookTypeOK'
  <2>1. rules' \in Seq(Creators)
    BY <1>0, <1>10, ListGrows DEF CreateRuleFails
  <2>2. failures' \in Nat /\ creatorPc' \in [Creators -> {"start", "existing", "absent", "failed", "inserted",
                                                           "unheard", "dropped", "done", "unapplied"}]
    BY <1>0, <1>10 DEF CreateRuleFails
  <2>3. QED
    BY <1>0, <1>10, <2>1, <2>2 DEF CreateRuleFails, importVars, tableVars, cacheVars
<1>11. ASSUME NEW c \in Creators, InvalidateCache(c) PROVE BookTypeOK'
  BY <1>0, <1>11 DEF InvalidateCache, importVars, tableVars
<1>12. ASSUME NEW c \in Creators, Backfill(c) PROVE BookTypeOK'
  BY <1>0, <1>12 DEF Backfill, importVars, cacheVars
<1>13. ASSUME NEW c \in Creators, BackfillFails(c) PROVE BookTypeOK'
  BY <1>0, <1>13 DEF BackfillFails, importVars, tableVars, cacheVars
<1>14. CASE UNCHANGED bookVars
  BY <1>0, <1>14 DEF bookVars, importVars, creatorVars, tableVars, cacheVars
<1>15. QED
  BY <1>1, <1>2, <1>3, <1>4, <1>5, <1>6, <1>7, <1>8, <1>9, <1>10, <1>11, <1>12, <1>13, <1>14
     DEF BookNext, ImportStep, CreatorStep

\* FindRuleByPattern and the INSERT are separate statements; the constraint
\* alone keeps one rule for a pattern.
LEMMA OneRuleKept == BookInv /\ [BookNext]_bookVars => OneRulePerPattern'
<1> SUFFICES ASSUME BookInv, [BookNext]_bookVars PROVE OneRulePerPattern'
  OBVIOUS
<1>0. rules \in Seq(Creators) /\ OneRulePerPattern
  BY DEF BookInv, BookTypeOK
<1>1. CASE rules' = rules
  BY <1>0, <1>1 DEF OneRulePerPattern
<1>2. ASSUME NEW c \in Creators, Insertable(c), rules' = Append(rules, c)
      PROVE  OneRulePerPattern'
  <2>1. PICK n \in Nat : n = Len(rules) /\ DOMAIN rules = 1..n
    BY <1>0
  <2>2. DOMAIN rules' = 1..(n + 1) /\ rules'[n + 1] = c
    BY <1>0, <1>2, <2>1
  <2>3. \A k \in 1..n : rules'[k] = rules[k] /\ PatternOf[rules[k]] # PatternOf[c]
    BY <1>0, <1>2, <2>1 DEF Insertable, Exists
  <2>4. \A j, k \in 1..n : PatternOf[rules[j]] = PatternOf[rules[k]] => j = k
    BY <1>0, <2>1 DEF OneRulePerPattern
  <2>5. \A k \in 1..(n + 1) : k \in 1..n \/ k = n + 1
    BY <2>1
  <2>6. ASSUME NEW j \in 1..(n + 1), NEW k \in 1..(n + 1),
               PatternOf[rules'[j]] = PatternOf[rules'[k]]
        PROVE  j = k
    BY <2>2, <2>3, <2>4, <2>5, <2>6, Zenon
  <2>7. QED
    BY <2>2, <2>6 DEF OneRulePerPattern
<1>3. rules' = rules \/ \E c \in Creators : Insertable(c) /\ rules' = Append(rules, c)
  BY DEF BookNext, ImportStep, CreatorStep, CacheHit, CacheMiss, ReadRules, ReadRulesFails, FillCache,
         InsertBatch, DeleteImportBatch, FindRule, InsertRule, CreateRuleFails, InvalidateCache, Backfill, BackfillFails,
         bookVars
<1>4. QED
  BY <1>1, <1>2, <1>3

\* The cache falls behind the table at an INSERT, whose creator is then about
\* to drop it or has lost its answer; a list put there is the table, or
\* overtaken.
LEMMA StaleKept == BookInv /\ [BookNext]_bookVars => CacheTrails'
<1> SUFFICES ASSUME BookInv, [BookNext]_bookVars PROVE CacheTrails'
  OBVIOUS
<1>0. CacheTrails /\ BookTypeOK
  BY DEF BookInv
<1> USE DEF CacheTrails, BookTypeOK
<1>1. ASSUME NEW i \in Imports, CacheHit(i) PROVE CacheTrails'
  BY <1>0, <1>1 DEF CacheHit, creatorVars, tableVars, cacheVars
<1>2. ASSUME NEW i \in Imports, CacheMiss(i) PROVE CacheTrails'
  BY <1>0, <1>2 DEF CacheMiss, creatorVars, tableVars, cacheVars
<1>3. ASSUME NEW i \in Imports, ReadRules(i) PROVE CacheTrails'
  BY <1>0, <1>3 DEF ReadRules, creatorVars, tableVars, cacheVars
<1>4. ASSUME NEW i \in Imports, ReadRulesFails(i) PROVE CacheTrails'
  BY <1>0, <1>4 DEF ReadRulesFails, creatorVars, tableVars, cacheVars
<1>5. ASSUME NEW i \in Imports, FillCache(i) PROVE CacheTrails'
  <2>1. cache' = used[i] /\ UNCHANGED <<rules, creatorPc>> /\ (~overtaken' => used[i] = rules)
    BY <1>5 DEF FillCache, creatorVars
  <2>2. CASE overtaken'
    BY <2>2
  <2>3. CASE ~overtaken'
    BY <1>0, <2>1, <2>3
  <2>4. QED
    BY <2>2, <2>3
<1>6. ASSUME NEW i \in Imports, InsertBatch(i) PROVE CacheTrails'
  BY <1>0, <1>6 DEF InsertBatch, creatorVars, cacheVars
<1>7. ASSUME NEW i \in Imports, DeleteImportBatch(i) PROVE CacheTrails'
  BY <1>0, <1>7 DEF DeleteImportBatch, importVars, creatorVars, cacheVars
<1>8. ASSUME NEW d \in Creators, FindRule(d) PROVE CacheTrails'
  BY <1>0, <1>8 DEF FindRule, importVars, tableVars, cacheVars
<1>9. ASSUME NEW d \in Creators, InsertRule(d) PROVE CacheTrails'
  BY <1>0, <1>9 DEF InsertRule, importVars, tableVars, cacheVars
<1>10. ASSUME NEW d \in Creators, CreateRuleFails(d) PROVE CacheTrails'
  <2>1. UNCHANGED <<cached, cache, overtaken>>
    BY <1>10 DEF CreateRuleFails, cacheVars
  <2>2. CASE /\ creatorPc[d] \in {"start", "absent"} /\ rules' = rules
             /\ creatorPc' = [creatorPc EXCEPT ![d] = "failed"]
    <3>1. \A c \in Creators : creatorPc[c] \in {"inserted", "unheard"} => creatorPc'[c] = creatorPc[c]
      BY <1>0, <2>2
    <3>2. \A k \in DOMAIN rules : rules[k] \in Creators
      BY <1>0
    <3>3. QED
      BY <1>0, <2>1, <2>2, <3>1, <3>2
  <2>3. CASE creatorPc[d] = "absent" /\ rules' = Append(rules, d) /\ creatorPc' = [creatorPc EXCEPT ![d] = "unheard"]
    BY <1>0, <2>1, <2>3
  <2>4. QED
    BY <1>10, <2>2, <2>3 DEF CreateRuleFails
<1>11. ASSUME NEW d \in Creators, InvalidateCache(d) PROVE CacheTrails'
  BY <1>0, <1>11 DEF InvalidateCache, importVars, tableVars
<1>12. ASSUME NEW d \in Creators, Backfill(d) PROVE CacheTrails'
  BY <1>0, <1>12 DEF Backfill, importVars, cacheVars
<1>13. ASSUME NEW d \in Creators, BackfillFails(d) PROVE CacheTrails'
  BY <1>0, <1>13 DEF BackfillFails, importVars, tableVars, cacheVars
<1>14. CASE UNCHANGED bookVars
  BY <1>0, <1>14 DEF bookVars, importVars, creatorVars, tableVars, cacheVars
<1>15. QED
  BY <1>1, <1>2, <1>3, <1>4, <1>5, <1>6, <1>7, <1>8, <1>9, <1>10, <1>11, <1>12, <1>13, <1>14
     DEF BookNext, ImportStep, CreatorStep

LEMMA InTableKept == BookInv /\ [BookNext]_bookVars => InTable'
<1> SUFFICES ASSUME BookInv, [BookNext]_bookVars PROVE InTable'
  OBVIOUS
<1>0. InTable /\ BookTypeOK
  BY DEF BookInv
<1> USE DEF InTable, BookTypeOK, Past
<1>1. ASSUME NEW i \in Imports, CacheHit(i) PROVE InTable'
  BY <1>0, <1>1 DEF CacheHit, creatorVars, tableVars, cacheVars
<1>2. ASSUME NEW i \in Imports, CacheMiss(i) PROVE InTable'
  BY <1>0, <1>2 DEF CacheMiss, creatorVars, tableVars, cacheVars
<1>3. ASSUME NEW i \in Imports, ReadRules(i) PROVE InTable'
  BY <1>0, <1>3 DEF ReadRules, creatorVars, tableVars, cacheVars
<1>4. ASSUME NEW i \in Imports, ReadRulesFails(i) PROVE InTable'
  BY <1>0, <1>4 DEF ReadRulesFails, creatorVars, tableVars, cacheVars
<1>5. ASSUME NEW i \in Imports, FillCache(i) PROVE InTable'
  BY <1>0, <1>5 DEF FillCache, creatorVars, tableVars
<1>6. ASSUME NEW i \in Imports, InsertBatch(i) PROVE InTable'
  BY <1>0, <1>6 DEF InsertBatch, creatorVars, cacheVars
<1>7. ASSUME NEW i \in Imports, DeleteImportBatch(i) PROVE InTable'
  BY <1>0, <1>7 DEF DeleteImportBatch, importVars, creatorVars, cacheVars
<1>8. ASSUME NEW d \in Creators, FindRule(d) PROVE InTable'
  BY <1>0, <1>8 DEF FindRule, importVars, tableVars, cacheVars
<1>9. ASSUME NEW d \in Creators, InsertRule(d) PROVE InTable'
  BY <1>0, <1>9, ListGrows DEF InsertRule, importVars, tableVars, cacheVars
<1>10. ASSUME NEW d \in Creators, CreateRuleFails(d) PROVE InTable'
  BY <1>0, <1>10, ListGrows DEF CreateRuleFails, importVars, tableVars, cacheVars
<1>11. ASSUME NEW d \in Creators, InvalidateCache(d) PROVE InTable'
  BY <1>0, <1>11 DEF InvalidateCache, importVars, tableVars
<1>12. ASSUME NEW d \in Creators, Backfill(d) PROVE InTable'
  BY <1>0, <1>12 DEF Backfill, importVars, cacheVars
<1>13. ASSUME NEW d \in Creators, BackfillFails(d) PROVE InTable'
  BY <1>0, <1>13 DEF BackfillFails, importVars, tableVars, cacheVars
<1>14. CASE UNCHANGED bookVars
  BY <1>0, <1>14 DEF bookVars, importVars, creatorVars, tableVars, cacheVars
<1>15. QED
  BY <1>1, <1>2, <1>3, <1>4, <1>5, <1>6, <1>7, <1>8, <1>9, <1>10, <1>11, <1>12, <1>13, <1>14
     DEF BookNext, ImportStep, CreatorStep

\* A fill puts a list there that knows every rule, or marks it as overtaken;
\* a rule that drops the cache leaves none.
LEMMA CacheKnowsKept == BookInv /\ [BookNext]_bookVars => CacheKnows'
<1> SUFFICES ASSUME BookInv, [BookNext]_bookVars PROVE CacheKnows'
  OBVIOUS
<1>0. CacheKnows /\ InTable /\ BookTypeOK
  BY DEF BookInv
<1> USE DEF CacheKnows, InTable, BookTypeOK, Past
<1>1. ASSUME NEW i \in Imports, CacheHit(i) PROVE CacheKnows'
  BY <1>0, <1>1 DEF CacheHit, creatorVars, tableVars, cacheVars
<1>2. ASSUME NEW i \in Imports, CacheMiss(i) PROVE CacheKnows'
  BY <1>0, <1>2 DEF CacheMiss, creatorVars, tableVars, cacheVars
<1>3. ASSUME NEW i \in Imports, ReadRules(i) PROVE CacheKnows'
  BY <1>0, <1>3 DEF ReadRules, creatorVars, tableVars, cacheVars
<1>4. ASSUME NEW i \in Imports, ReadRulesFails(i) PROVE CacheKnows'
  BY <1>0, <1>4 DEF ReadRulesFails, creatorVars, tableVars, cacheVars
<1>5. ASSUME NEW i \in Imports, FillCache(i) PROVE CacheKnows'
  BY <1>0, <1>5 DEF FillCache, creatorVars, tableVars
<1>6. ASSUME NEW i \in Imports, InsertBatch(i) PROVE CacheKnows'
  BY <1>0, <1>6 DEF InsertBatch, creatorVars, cacheVars
<1>7. ASSUME NEW i \in Imports, DeleteImportBatch(i) PROVE CacheKnows'
  BY <1>0, <1>7 DEF DeleteImportBatch, importVars, creatorVars, cacheVars
<1>8. ASSUME NEW d \in Creators, FindRule(d) PROVE CacheKnows'
  BY <1>0, <1>8 DEF FindRule, importVars, tableVars, cacheVars
<1>9. ASSUME NEW d \in Creators, InsertRule(d) PROVE CacheKnows'
  BY <1>0, <1>9 DEF InsertRule, importVars, tableVars, cacheVars
<1>10. ASSUME NEW d \in Creators, CreateRuleFails(d) PROVE CacheKnows'
  BY <1>0, <1>10 DEF CreateRuleFails, importVars, tableVars, cacheVars
<1>11. ASSUME NEW d \in Creators, InvalidateCache(d) PROVE CacheKnows'
  BY <1>0, <1>11 DEF InvalidateCache, importVars, tableVars
<1>12. ASSUME NEW d \in Creators, Backfill(d) PROVE CacheKnows'
  BY <1>0, <1>12 DEF Backfill, importVars, cacheVars
<1>13. ASSUME NEW d \in Creators, BackfillFails(d) PROVE CacheKnows'
  BY <1>0, <1>13 DEF BackfillFails, importVars, tableVars, cacheVars
<1>14. CASE UNCHANGED bookVars
  BY <1>0, <1>14 DEF bookVars, importVars, creatorVars, tableVars, cacheVars
<1>15. QED
  BY <1>1, <1>2, <1>3, <1>4, <1>5, <1>6, <1>7, <1>8, <1>9, <1>10, <1>11, <1>12, <1>13, <1>14
     DEF BookNext, ImportStep, CreatorStep

\* A list read from the table knows every rule that dropped the cache; one
\* taken from the cache does, or the cache was overtaken; and a rule that
\* drops the cache with the batch under way exposes it.
LEMMA BatchKnowsKept == BookInv /\ [BookNext]_bookVars => BatchKnows'
<1> SUFFICES ASSUME BookInv, [BookNext]_bookVars PROVE BatchKnows'
  OBVIOUS
<1>0. BatchKnows /\ InTable /\ CacheKnows /\ BookTypeOK
  BY DEF BookInv
<1> USE DEF BatchKnows, InTable, CacheKnows, BookTypeOK, Past, Excused
<1>1. ASSUME NEW i \in Imports, CacheHit(i) PROVE BatchKnows'
  BY <1>0, <1>1 DEF CacheHit, creatorVars, tableVars, cacheVars
<1>2. ASSUME NEW i \in Imports, CacheMiss(i) PROVE BatchKnows'
  BY <1>0, <1>2 DEF CacheMiss, creatorVars, tableVars, cacheVars
<1>3. ASSUME NEW i \in Imports, ReadRules(i) PROVE BatchKnows'
  BY <1>0, <1>3 DEF ReadRules, creatorVars, tableVars, cacheVars
<1>4. ASSUME NEW i \in Imports, ReadRulesFails(i) PROVE BatchKnows'
  BY <1>0, <1>4 DEF ReadRulesFails, creatorVars, tableVars, cacheVars
<1>5. ASSUME NEW i \in Imports, FillCache(i) PROVE BatchKnows'
  BY <1>0, <1>5 DEF FillCache, creatorVars, tableVars
<1>6. ASSUME NEW i \in Imports, InsertBatch(i) PROVE BatchKnows'
  BY <1>0, <1>6 DEF InsertBatch, creatorVars, cacheVars
<1>7. ASSUME NEW i \in Imports, DeleteImportBatch(i) PROVE BatchKnows'
  BY <1>0, <1>7 DEF DeleteImportBatch, importVars, creatorVars, cacheVars
<1>8. ASSUME NEW d \in Creators, FindRule(d) PROVE BatchKnows'
  BY <1>0, <1>8 DEF FindRule, importVars, tableVars, cacheVars
<1>9. ASSUME NEW d \in Creators, InsertRule(d) PROVE BatchKnows'
  BY <1>0, <1>9 DEF InsertRule, importVars, tableVars, cacheVars
<1>10. ASSUME NEW d \in Creators, CreateRuleFails(d) PROVE BatchKnows'
  BY <1>0, <1>10 DEF CreateRuleFails, importVars, tableVars, cacheVars
<1>11. ASSUME NEW d \in Creators, InvalidateCache(d) PROVE BatchKnows'
  BY <1>0, <1>11 DEF InvalidateCache, importVars, tableVars, UnderWay
<1>12. ASSUME NEW d \in Creators, Backfill(d) PROVE BatchKnows'
  BY <1>0, <1>12 DEF Backfill, importVars, cacheVars
<1>13. ASSUME NEW d \in Creators, BackfillFails(d) PROVE BatchKnows'
  BY <1>0, <1>13 DEF BackfillFails, importVars, tableVars, cacheVars
<1>14. CASE UNCHANGED bookVars
  BY <1>0, <1>14 DEF bookVars, importVars, creatorVars, tableVars, cacheVars
<1>15. QED
  BY <1>1, <1>2, <1>3, <1>4, <1>5, <1>6, <1>7, <1>8, <1>9, <1>10, <1>11, <1>12, <1>13, <1>14
     DEF BookNext, ImportStep, CreatorStep

\* A row inserted by a batch is decided by the list of its batch, and one that
\* is there already by the UPDATE; neither takes a rule's category away from
\* a row except for another rule's.
LEMMA RuleReachesKept == BookInv /\ [BookNext]_bookVars => RuleReaches'
<1> SUFFICES ASSUME BookInv, [BookNext]_bookVars PROVE RuleReaches'
  OBVIOUS
<1>0. RuleReaches /\ BatchKnows /\ InTable /\ BookTypeOK
  BY DEF BookInv
<1> USE DEF RuleReaches, Ruled
<1>1. ASSUME NEW i \in Imports, CacheHit(i) PROVE RuleReaches'
  BY <1>0, <1>1 DEF CacheHit, creatorVars, tableVars, cacheVars
<1>2. ASSUME NEW i \in Imports, CacheMiss(i) PROVE RuleReaches'
  BY <1>0, <1>2 DEF CacheMiss, creatorVars, tableVars, cacheVars
<1>3. ASSUME NEW i \in Imports, ReadRules(i) PROVE RuleReaches'
  BY <1>0, <1>3 DEF ReadRules, creatorVars, tableVars, cacheVars
<1>4. ASSUME NEW i \in Imports, ReadRulesFails(i) PROVE RuleReaches'
  <2>1. UNCHANGED <<rules, creatorPc, exposed, misled, stored, jobOf, category>> /\ unread \subseteq unread'
    BY <1>4 DEF ReadRulesFails, creatorVars, tableVars
  <2>2. QED
    BY <1>0, <2>1
<1>5. ASSUME NEW i \in Imports, FillCache(i) PROVE RuleReaches'
  BY <1>0, <1>5 DEF FillCache, creatorVars, tableVars
<1>6. ASSUME NEW i \in Imports, InsertBatch(i) PROVE RuleReaches'
  <2> SUFFICES ASSUME NEW c \in Applies, NEW r \in stored', creatorPc'[c] = "done", c \in Known(rules'),
                      r \in Contained[c] \cap ILike[c]
               PROVE  Ruled(r)' \/ jobOf'[r] \in (exposed[c] \cup misled \cup unread)'
    OBVIOUS
  <2>1. UNCHANGED <<rules, creatorPc, exposed, misled, unread, used>>
    BY <1>6 DEF InsertBatch, creatorVars
  <2>2. CASE r \in stored
    <3>1. r \in Rows /\ r \notin Fresh(i)
      BY <1>0, <2>2 DEF BookTypeOK, Fresh
    <3>2. category'[r] = category[r] /\ jobOf'[r] = jobOf[r]
      BY <1>6, <3>1 DEF InsertBatch
    <3>3. QED
      BY <1>0, <2>1, <2>2, <3>2
  <2>3. CASE r \notin stored
    <3>1. r \in RowsOf[i]
      BY <1>6, <2>3 DEF InsertBatch
    <3>2. r \in Rows /\ r \in Fresh(i)
      BY <2>3, <3>1, RowsOfAssumption DEF Fresh
    <3>3. category'[r] = CategoryOf(used[i], r) /\ jobOf'[r] = i
      BY <1>6, <3>2 DEF InsertBatch
    <3>4. c \in Creators /\ importPc[i] = "enriched" /\ creatorPc[c] \in Past
      BY <1>6, <2>1, AppliesAssumption DEF InsertBatch, Past
    <3>5. c \in Known(used[i]) \/ Excused(i, c)
      BY <1>0, <3>4 DEF BatchKnows
    <3>6. CASE c \in Known(used[i])
      <4>1. used[i] \in Seq(Creators)
        BY <1>0 DEF BookTypeOK
      <4>2. CategoryOf(used[i], r) \in {d \in Creators : r \in Contained[d]}
        BY <3>6, <4>1, ListDecides
      <4>3. QED
        BY <3>3, <4>2
    <3>7. CASE Excused(i, c)
      BY <2>1, <3>3, <3>7 DEF Excused
    <3>8. QED
      BY <3>5, <3>6, <3>7
  <2>4. QED
    BY <2>2, <2>3
<1>7. ASSUME NEW i \in Imports, DeleteImportBatch(i) PROVE RuleReaches'
  <2>1. UNCHANGED <<rules, creatorPc, exposed, misled, unread, jobOf, category>> /\ stored' \subseteq stored
    BY <1>7 DEF DeleteImportBatch, importVars, creatorVars
  <2>2. QED
    BY <1>0, <2>1
<1>8. ASSUME NEW d \in Creators, FindRule(d) PROVE RuleReaches'
  <2>1. UNCHANGED <<rules, exposed, misled, unread, stored, jobOf, category>>
    BY <1>8 DEF FindRule, importVars, tableVars
  <2>2. \A c \in Applies : creatorPc'[c] = "done" => creatorPc[c] = "done"
    BY <1>0, <1>8, AppliesAssumption DEF FindRule, BookTypeOK
  <2>3. QED
    BY <1>0, <2>1, <2>2
<1>9. ASSUME NEW d \in Creators, InsertRule(d) PROVE RuleReaches'
  <2>1. UNCHANGED <<exposed, misled, unread, stored, jobOf, category>>
    BY <1>9 DEF InsertRule, importVars, tableVars
  <2>2. \A c \in Creators : creatorPc'[c] = "done" => creatorPc[c] = "done" /\ c \in Known(rules)
    BY <1>0, <1>9 DEF InsertRule, BookTypeOK, InTable, Past
  <2>3. QED
    BY <1>0, <2>1, <2>2, AppliesAssumption
<1>10. ASSUME NEW d \in Creators, CreateRuleFails(d) PROVE RuleReaches'
  <2>1. UNCHANGED <<exposed, misled, unread, stored, jobOf, category>>
    BY <1>10 DEF CreateRuleFails, importVars, tableVars
  <2>2. \A c \in Creators : creatorPc'[c] = "done" => creatorPc[c] = "done" /\ c \in Known(rules)
    BY <1>0, <1>10 DEF CreateRuleFails, BookTypeOK, InTable, Past
  <2>3. QED
    BY <1>0, <2>1, <2>2, AppliesAssumption
<1>11. ASSUME NEW d \in Creators, InvalidateCache(d) PROVE RuleReaches'
  <2>1. UNCHANGED <<rules, misled, unread, stored, jobOf, category>>
    BY <1>11 DEF InvalidateCache, importVars, tableVars
  <2>2. \A c \in Applies : creatorPc'[c] = "done" => creatorPc[c] = "done" /\ exposed'[c] = exposed[c]
    BY <1>0, <1>11, AppliesAssumption DEF InvalidateCache, BookTypeOK
  <2>3. QED
    BY <1>0, <2>1, <2>2
<1>12. ASSUME NEW d \in Creators, Backfill(d) PROVE RuleReaches'
  <2>1. UNCHANGED <<rules, exposed, misled, unread, stored, jobOf>>
    BY <1>12 DEF Backfill, importVars
  <2>2. \A r \in stored : r \in ILike[d] => category'[r] = d
    BY <1>0, <1>12 DEF Backfill, Reached, BookTypeOK
  <2>3. \A r \in stored : r \notin ILike[d] => category'[r] = category[r]
    BY <1>0, <1>12 DEF Backfill, Reached, BookTypeOK
  <2>4. \A c \in Applies : creatorPc'[c] = "done" => creatorPc[c] = "done" \/ c = d
    BY <1>0, <1>12, AppliesAssumption DEF Backfill, BookTypeOK
  <2>5. \A r \in stored : r \in ILike[d] => Ruled(r)'
    BY <2>2
  <2>6. \A r \in stored : r \notin ILike[d] /\ Ruled(r) => Ruled(r)'
    BY <2>3
  <2>7. QED
    BY <1>0, <2>1, <2>4, <2>5, <2>6
<1>13. ASSUME NEW d \in Creators, BackfillFails(d) PROVE RuleReaches'
  <2>1. UNCHANGED <<rules, exposed, misled, unread, stored, jobOf, category>>
    BY <1>13 DEF BackfillFails, importVars, tableVars
  <2>2. \A c \in Applies : creatorPc'[c] = "done" => creatorPc[c] = "done"
    BY <1>0, <1>13, AppliesAssumption DEF BackfillFails, BookTypeOK
  <2>3. QED
    BY <1>0, <2>1, <2>2
<1>14. CASE UNCHANGED bookVars
  BY <1>0, <1>14 DEF bookVars, importVars, creatorVars, tableVars, cacheVars
<1>15. QED
  BY <1>1, <1>2, <1>3, <1>4, <1>5, <1>6, <1>7, <1>8, <1>9, <1>10, <1>11, <1>12, <1>13, <1>14
     DEF BookNext, ImportStep, CreatorStep

LEMMA StepBook == BookInv /\ [BookNext]_bookVars => BookInv'
  BY TypesKept, OneRuleKept, StaleKept, InTableKept, CacheKnowsKept, BatchKnowsKept, RuleReachesKept
     DEF BookInv

-------------------------------------------------------------------------------
(* The theorems.                                                           *)

\* The inductive invariant holds in every reachable state.
THEOREM Inductive == BookSpec => []BookInv
<1>1. BookInit => BookInv
  BY InitBook
<1>2. BookInv /\ [BookNext]_bookVars => BookInv'
  BY StepBook
<1>3. QED
  BY <1>1, <1>2, PTL DEF BookSpec

\* Type correctness of the rules, the cache, the batches and the table.
THEOREM TypeCorrect == BookSpec => []BookTypeOK
<1>1. BookInv => BookTypeOK
  BY DEF BookInv
<1>2. QED
  BY <1>1, Inductive, PTL

\* Any number of CreateRule requests that race leave one rule per pattern.
THEOREM PatternsDiffer == BookSpec => []OneRulePerPattern
<1>1. BookInv => OneRulePerPattern
  BY DEF BookInv
<1>2. QED
  BY <1>1, Inductive, PTL

\* A rule cache that was not overtaken is the table less its newest rules, and
\* each of those was made by a CreateRule that is about to drop the cache or
\* whose INSERT lost its answer.
THEOREM CacheStale == BookSpec => []CacheTrails
<1>1. BookInv => CacheTrails
  BY DEF BookInv
<1>2. QED
  BY <1>1, Inductive, PTL

\* A rule with applyToExisting reaches every row it matches both ways, except
\* those of the batches a race or a failed query excuses.
THEOREM RulesReach == BookSpec => []RuleReaches
<1>1. BookInv => RuleReaches
  BY DEF BookInv
<1>2. QED
  BY <1>1, Inductive, PTL

===============================================================================
