---------------------------- MODULE Categorization ----------------------------
(***************************************************************************)
(* The rules of one user, the cache the categorization service keeps of    *)
(* them, and the transactions they are applied to: by an import, to every  *)
(* row of a batch before it is stored, and by CreateRule, to the rows that *)
(* are there already.                                                      *)
(*                                                                         *)
(* A rule is named after the CreateRule request that inserts it.  A        *)
(* request is a sequence of steps on shared state: the lock cacheMu is     *)
(* held for one look at the cache or one change of it, never across a      *)
(* query.                                                                  *)
(***************************************************************************)
EXTENDS Naturals, Sequences, FiniteSets

CONSTANTS
  Imports,       \* batches on their way into the table
  Creators,      \* CreateRule requests
  Rows,          \* transactions, as their external_id tells them apart
  RowsOf,        \* the rows of each batch
  PatternOf,     \* the match_pattern a creator asks for
  Applies,       \* the creators that ask for applyToExisting
  Contained,     \* creator -> rows whose description contains the pattern
  ILike,         \* creator -> rows whose description is ILIKE the pattern
  Merchant,      \* row -> what the merchants table says of it
  MaxFailures,   \* queries that may fail
  MaxDeletes     \* DeleteImportBatch requests

ASSUME ImportsAssumption == Imports # {}
ASSUME RowsOfAssumption == RowsOf \in [Imports -> SUBSET Rows]
ASSUME AppliesAssumption == Applies \subseteq Creators
ASSUME ContainedAssumption == Contained \in [Creators -> SUBSET Rows]
ASSUME ILikeAssumption == ILike \in [Creators -> SUBSET Rows]
ASSUME BoundsAssumption == MaxFailures \in Nat /\ MaxDeletes \in Nat

VARIABLES
  rules,      \* category_rules, oldest first
  cached,     \* whether ruleCache has an entry for the user
  cache,      \* that entry
  importPc,   \* where each batch is
  used,       \* the rules each batch has been given
  creatorPc,  \* where each CreateRule is
  stored,     \* the transactions of the user
  jobOf,      \* import_job_id of each
  category,   \* category_id of each: a rule, or what the merchants say
  failures, deletes,
  \* Ghosts: how a batch can come to miss a rule.
  overtaken,  \* the cache was filled with a list read before an invalidation
  misled,     \* batches that were given such a list
  unread,     \* batches that got no list at all
  exposed     \* per rule, the batches under way when it dropped the cache

importVars == <<importPc, used, misled, unread>>
creatorVars == <<creatorPc, exposed>>
tableVars == <<stored, jobOf, category>>
cacheVars == <<cached, cache, overtaken>>
bookVars == <<importVars, creatorVars, tableVars, cacheVars, rules, failures, deletes>>

Known(list) == {list[k] : k \in DOMAIN list}

-------------------------------------------------------------------------------
(* Matching.                                                               *)

\* matchPattern looks for the pattern, less its percent signs, anywhere in
\* the description; the newest rule comes first (priority is always 0).
Matching(list, r) == {k \in DOMAIN list : r \in Contained[list[k]]}
Newest(ks) == CHOOSE k \in ks : \A j \in ks : j <= k
CategoryOf(list, r) ==
  IF Matching(list, r) = {} THEN Merchant[r] ELSE list[Newest(Matching(list, r))]

-------------------------------------------------------------------------------
(* A batch: GetUserRules, CategorizeBatch, BulkInsertTransactions.         *)

CacheHit(i) ==
  /\ importPc[i] = "waiting" /\ cached
  /\ importPc' = [importPc EXCEPT ![i] = "enriched"]
  /\ used' = [used EXCEPT ![i] = cache]
  /\ misled' = IF overtaken THEN misled \cup {i} ELSE misled
  /\ UNCHANGED <<creatorVars, tableVars, cacheVars, rules, failures, deletes, unread>>

CacheMiss(i) ==
  /\ importPc[i] = "waiting" /\ ~cached
  /\ importPc' = [importPc EXCEPT ![i] = "missed"]
  /\ UNCHANGED <<creatorVars, tableVars, cacheVars, rules, failures, deletes, used, misled, unread>>

ReadRules(i) ==
  /\ importPc[i] = "missed"
  /\ importPc' = [importPc EXCEPT ![i] = "read"]
  /\ used' = [used EXCEPT ![i] = rules]
  /\ UNCHANGED <<creatorVars, tableVars, cacheVars, rules, failures, deletes, misled, unread>>

\* CategorizeBatch drops the error and goes on without rules.
ReadRulesFails(i) ==
  /\ importPc[i] = "missed" /\ failures < MaxFailures
  /\ importPc' = [importPc EXCEPT ![i] = "enriched"]
  /\ unread' = unread \cup {i}
  /\ failures' = failures + 1
  /\ UNCHANGED <<creatorVars, tableVars, cacheVars, rules, deletes, used, misled>>

\* The list read is stored whatever happened since.
FillCache(i) ==
  /\ importPc[i] = "read"
  /\ importPc' = [importPc EXCEPT ![i] = "enriched"]
  /\ cached' = TRUE
  /\ cache' = used[i]
  /\ overtaken' = (used[i] # rules)
  /\ UNCHANGED <<creatorVars, tableVars, rules, failures, deletes, used, misled, unread>>

\* ON CONFLICT DO NOTHING: a row that is there keeps its category.
Fresh(i) == RowsOf[i] \ stored
InsertBatch(i) ==
  /\ importPc[i] = "enriched"
  /\ importPc' = [importPc EXCEPT ![i] = "done"]
  /\ stored' = stored \cup RowsOf[i]
  /\ jobOf' = [r \in Rows |-> IF r \in Fresh(i) THEN i ELSE jobOf[r]]
  /\ category' = [r \in Rows |-> IF r \in Fresh(i) THEN CategoryOf(used[i], r) ELSE category[r]]
  /\ UNCHANGED <<creatorVars, cacheVars, rules, failures, deletes, used, misled, unread>>

DeleteImportBatch(i) ==
  /\ deletes < MaxDeletes
  /\ deletes' = deletes + 1
  /\ stored' = {r \in stored : jobOf[r] # i}
  /\ UNCHANGED <<importVars, creatorVars, cacheVars, rules, failures, jobOf, category>>

-------------------------------------------------------------------------------
(* CreateRule.                                                             *)

Exists(pattern) == \E k \in DOMAIN rules : PatternOf[rules[k]] = pattern

\* FindRuleByPattern: a rule that is there is returned as it is.
FindRule(c) ==
  /\ creatorPc[c] = "start"
  /\ creatorPc' = [creatorPc EXCEPT ![c] = IF Exists(PatternOf[c]) THEN "existing" ELSE "absent"]
  /\ UNCHANGED <<importVars, tableVars, cacheVars, rules, failures, deletes, exposed>>

\* Mutant: no such constraint.
AlwaysInsertable(c) == TRUE

\* UNIQUE (user_id, match_pattern): the slower of two gets an error.
Insertable(c) == ~Exists(PatternOf[c])
InsertRule(c) ==
  /\ creatorPc[c] = "absent"
  /\ creatorPc' = [creatorPc EXCEPT ![c] = IF Insertable(c) THEN "inserted" ELSE "failed"]
  /\ rules' = IF Insertable(c) THEN Append(rules, c) ELSE rules
  /\ UNCHANGED <<importVars, tableVars, cacheVars, failures, deletes, exposed>>

\* Looking the rule up or inserting it fails; the INSERT may have been applied
\* although its answer is lost, and then the cache is kept all the same.
CreateRuleFails(c) ==
  /\ failures < MaxFailures
  /\ failures' = failures + 1
  /\ \/ /\ creatorPc[c] \in {"start", "absent"}
        /\ creatorPc' = [creatorPc EXCEPT ![c] = "failed"]
        /\ rules' = rules
     \/ /\ creatorPc[c] = "absent" /\ Insertable(c)
        /\ creatorPc' = [creatorPc EXCEPT ![c] = "unheard"]
        /\ rules' = Append(rules, c)
  /\ UNCHANGED <<importVars, tableVars, cacheVars, deletes, exposed>>

UnderWay(i) == importPc[i] \in {"missed", "read", "enriched"}

\* Mutant: the cache entry is left in place.
KeepCache(c) ==
  /\ creatorPc[c] = "inserted"
  /\ creatorPc' = [creatorPc EXCEPT ![c] = IF c \in Applies THEN "dropped" ELSE "done"]
  /\ exposed' = [exposed EXCEPT ![c] = {i \in Imports : UnderWay(i)}]
  /\ UNCHANGED <<importVars, tableVars, cacheVars, rules, failures, deletes>>

InvalidateCache(c) ==
  /\ creatorPc[c] = "inserted"
  /\ creatorPc' = [creatorPc EXCEPT ![c] = IF c \in Applies THEN "dropped" ELSE "done"]
  /\ cached' = FALSE
  /\ overtaken' = FALSE
  /\ exposed' = [exposed EXCEPT ![c] = {i \in Imports : UnderWay(i)}]
  /\ UNCHANGED <<importVars, tableVars, rules, failures, deletes, cache>>

\* Mutant: only the rows the merchants table knows nothing of.
UnnamedRows(c) == {r \in stored \cap ILike[c] : Merchant[r] = "none"}

\* UpdateTransactionsMerchant; its own error is dropped.
Reached(c) == stored \cap ILike[c]
Backfill(c) ==
  /\ creatorPc[c] = "dropped"
  /\ creatorPc' = [creatorPc EXCEPT ![c] = "done"]
  /\ category' = [r \in Rows |-> IF r \in Reached(c) THEN c ELSE category[r]]
  /\ UNCHANGED <<importVars, cacheVars, rules, failures, deletes, stored, jobOf, exposed>>

BackfillFails(c) ==
  /\ creatorPc[c] = "dropped" /\ failures < MaxFailures
  /\ creatorPc' = [creatorPc EXCEPT ![c] = "unapplied"]
  /\ failures' = failures + 1
  /\ UNCHANGED <<importVars, tableVars, cacheVars, rules, deletes, exposed>>

-------------------------------------------------------------------------------

BookInit ==
  /\ rules = <<>> /\ cached = FALSE /\ cache = <<>> /\ overtaken = FALSE
  /\ importPc = [i \in Imports |-> "waiting"] /\ used = [i \in Imports |-> <<>>]
  /\ creatorPc = [c \in Creators |-> "start"]
  /\ stored = {} /\ jobOf = [r \in Rows |-> CHOOSE i \in Imports : TRUE] /\ category = Merchant
  /\ failures = 0 /\ deletes = 0
  /\ misled = {} /\ unread = {} /\ exposed = [c \in Creators |-> {}]

ImportStep(i) ==
  CacheHit(i) \/ CacheMiss(i) \/ ReadRules(i) \/ ReadRulesFails(i) \/ FillCache(i) \/ InsertBatch(i)
CreatorStep(c) ==
  \/ FindRule(c) \/ InsertRule(c) \/ CreateRuleFails(c)
  \/ InvalidateCache(c) \/ Backfill(c) \/ BackfillFails(c)

BookNext ==
  \/ \E i \in Imports : ImportStep(i) \/ DeleteImportBatch(i)
  \/ \E c \in Creators : CreatorStep(c)

BookSpec == BookInit /\ [][BookNext]_bookVars

-------------------------------------------------------------------------------
(* Properties.                                                             *)

BookTypeOK ==
  /\ rules \in Seq(Creators) /\ cache \in Seq(Creators)
  /\ cached \in BOOLEAN /\ overtaken \in BOOLEAN
  /\ importPc \in [Imports -> {"waiting", "missed", "read", "enriched", "done"}]
  /\ used \in [Imports -> Seq(Creators)]
  /\ creatorPc \in [Creators -> {"start", "existing", "absent", "failed", "inserted", "unheard",
                              "dropped", "done", "unapplied"}]
  /\ stored \subseteq Rows /\ jobOf \in [Rows -> Imports]
  /\ failures \in Nat /\ deletes \in Nat
  /\ misled \subseteq Imports /\ unread \subseteq Imports
  /\ exposed \in [Creators -> SUBSET Imports]

\* Requests that race to create a rule for one pattern leave one rule.
OneRulePerPattern ==
  \A j, k \in DOMAIN rules : PatternOf[rules[j]] = PatternOf[rules[k]] => j = k

\* Unless a GetUserRules that had read the table before an invalidation put
\* its list there after, the cache is the table as it was, and lacks only rules
\* whose CreateRule has not dropped it: one that is about to, or one whose
\* INSERT was applied and its answer lost.  The latter lasts until another rule
\* is made: asked again, CreateRule finds the rule and returns.
CacheTrails ==
  cached /\ ~overtaken =>
    /\ Len(cache) <= Len(rules)
    /\ \A k \in DOMAIN cache : cache[k] = rules[k]
    /\ \A k \in DOMAIN rules \ DOMAIN cache : creatorPc[rules[k]] \in {"inserted", "unheard"}

\* A rule made with applyToExisting reaches every row it matches both ways,
\* stored before or after: such a row ends up with a rule's category, unless
\* its batch was under way when the rule dropped the cache, was given a list
\* from an overtaken cache, or none because the query failed.
Ruled(r) == category[r] \in {c \in Creators : r \in Contained[c] \cup ILike[c]}
RuleReaches ==
  \A c \in Applies, r \in stored :
    creatorPc[c] = "done" /\ c \in Known(rules) /\ r \in Contained[c] \cap ILike[c] =>
      Ruled(r) \/ jobOf[r] \in exposed[c] \cup misled \cup unread

===============================================================================
