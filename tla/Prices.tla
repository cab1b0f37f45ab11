-------------------------------- MODULE Prices --------------------------------
(***************************************************************************)
(* The prices a process bills by, and the published prices an              *)
(* administrator may compare them with.                                    *)
(***************************************************************************)
EXTENDS Integers, FiniteSets

-----------------------------------------------------------------------------
(***************************************************************************)
(* The prices a process bills by and the rows they come from.              *)
(* model_pricing is changed by hand (the runbook, external); a worker      *)
(* reads it into memory again and again, the reload endpoint does so at    *)
(* once, and every night the two are compared.                             *)
(***************************************************************************)

CONSTANTS
    Models,    \* the models that have prices
    MaxChanges \* bound: changes made by hand

ASSUME PriceTableAssumption == MaxChanges \in Nat

VARIABLES
    stored,   \* model_pricing: the active price of a model, Unpriced for none
    changes,  \* changes made so far; the price a change sets is its number
    table,    \* the table in memory
    source,   \* where it was loaded from
    loading,  \* what a reader has read and not used yet
    loop,     \* the refresh loop still runs
    reloaded, \* what the last reload was answered
    drift     \* the models the last nightly check reported

prices == <<stored, changes, table, source, loading, loop, reloaded, drift>>

Readers == {"refresh", "reload", "nightly"}
Unpriced == -1
Empty == [m \in Models |-> Unpriced]
Seed == [m \in Models |-> 0]
NoRows == <<>>

PricesInit ==
    /\ stored \in {Seed, Empty}
    /\ changes = 0
    /\ table = Seed
    /\ source = IF stored = Empty THEN "seed_fallback" ELSE "database"
    /\ loading = [k \in Readers |-> NoRows]
    /\ loop = TRUE
    /\ reloaded = "not asked" /\ drift = {}

(* One statement of the runbook; the rows may also be lost.                 *)
ChangePrice ==
    /\ changes < MaxChanges
    /\ changes' = changes + 1
    /\ \/ \E m \in Models, price \in {changes + 1, Unpriced} :
             stored' = [stored EXCEPT ![m] = price]
       \/ stored' = Empty
    /\ UNCHANGED <<table, source, loading, loop, reloaded, drift>>

(* load_pricing reads the active rows ...                                   *)
Load(k) ==
    /\ loading[k] = NoRows
    /\ k = "refresh" => loop
    /\ loading' = [loading EXCEPT ![k] = stored]
    /\ UNCHANGED <<stored, changes, table, source, loop, reloaded, drift>>

(* ... or fails: the table stays, and the loop goes on.                     *)
LoadFails(k) ==
    /\ loading[k] = NoRows /\ (k = "refresh" => loop)
    /\ reloaded' = IF k = "reload" THEN "error" ELSE reloaded
    /\ UNCHANGED <<stored, changes, table, source, loading, loop, drift>>

Done(k) == loading' = [loading EXCEPT ![k] = NoRows]

(* refresh_once: rows replace the table, no rows leave it as it is.         *)
Install(k) ==
    /\ k \in {"refresh", "reload"} /\ loading[k] # NoRows
    /\ IF loading[k] = Empty
         THEN UNCHANGED <<table, source>>
         ELSE table' = loading[k] /\ source' = "database"
    /\ reloaded' = IF k = "refresh" THEN reloaded
                   ELSE IF loading[k] = Empty THEN "kept" ELSE "reloaded"
    /\ Done(k)
    /\ UNCHANGED <<stored, changes, loop, drift>>

(* diff_pricing: other prices, and models only one of the two knows.        *)
DiffPricing(mine, theirs) == {m \in Models : mine[m] # theirs[m]}

(* check_pricing_drift reports; it never changes a price.                   *)
CheckPricingDrift ==
    /\ loading["nightly"] # NoRows
    /\ drift' = DiffPricing(table, loading["nightly"])
    /\ Done("nightly")
    /\ UNCHANGED <<stored, changes, table, source, loop, reloaded>>

PricesNext ==
    \/ ChangePrice \/ CheckPricingDrift
    \/ \E k \in Readers : Load(k) \/ LoadFails(k) \/ Install(k)

-----------------------------------------------------------------------------
(***************************************************************************)
(* openrouter_pricing_reference: the list a reseller publishes, fetched on *)
(* request and stored as a whole: one transaction deletes the rows and     *)
(* inserts the fetched ones.  Two administrators may ask at once.  The     *)
(* database (external) runs at READ COMMITTED: a statement sees what was   *)
(* committed when it began and waits for the rows another transaction is   *)
(* deleting, and a key that exists or is being inserted is a conflict.     *)
(***************************************************************************)

CONSTANTS
    Admins,   \* requests that replace the snapshot
    Listable,   \* what the reseller may list, in this order
    Lasting,  \* the model every list has
    MaxLists, \* bound: lists published
    Prices    \* what an entry may say of its price; below 0 if of no use

ASSUME PriceReferenceAssumption ==
    Listable \subseteq Nat /\ Lasting \in Listable /\ MaxLists \in Nat /\ Prices \subseteq Int

VARIABLES
    list,      \* the published list: its number, models and what it says of prices
    reference, \* the committed rows
    tx         \* the transaction of each request

refs == <<list, reference, tx>>

Unknown == -1
ReferenceRow == [model : Listable, fetch : 1..MaxLists, price : Nat \union {Unknown}]
Closed == [at |-> "idle", fetched |-> {}, visible |-> {}, deleted |-> {}, inserted |-> {}]

(* A price that is left out, not a number or negative is unknown, which is  *)
(* not the same as free.                                                    *)
PerMtok(raw) == IF raw >= 0 THEN raw ELSE Unknown

(* parse_response and into_row; entries of another shape are skipped and    *)
(* not among the models of the list.                                        *)
ParseResponse(l) ==
    {[model |-> m, fetch |-> l.number, price |-> PerMtok(l.price)] : m \in l.models}

Lists == {s \in SUBSET Listable : Lasting \in s}

ReferenceInit ==
    /\ list \in [number : {1}, models : Lists, price : Prices]
    /\ reference = {}
    /\ tx = [a \in Admins |-> Closed]

Publish ==
    /\ list.number < MaxLists
    /\ list' \in [number : {list.number + 1}, models : Lists, price : Prices]
    /\ UNCHANGED <<reference, tx>>

Stands(a, record) == tx' = [tx EXCEPT ![a] = record]
Keys(rows) == {row.model : row \in rows}

(* A list that cannot be fetched or is not a list leaves all as it is.      *)
Fetch(a) ==
    /\ tx[a].at = "idle"
    /\ Stands(a, [Closed EXCEPT !.at = "fetched", !.fetched = ParseResponse(list)])
    /\ UNCHANGED <<list, reference>>

(* DELETE: the rows it sees ...                                             *)
DeleteAll(a) ==
    /\ tx[a].at = "fetched"
    /\ Stands(a, [tx[a] EXCEPT !.at = "deleting", !.visible = reference])
    /\ UNCHANGED <<list, reference>>

(* ... are taken once no other transaction is deleting them; those it has   *)
(* deleted by then are gone, those it inserted are not seen.                *)
Deleted(a) ==
    /\ tx[a].at = "deleting"
    /\ \A b \in Admins \ {a} : tx[b].deleted \intersect tx[a].visible = {}
    /\ Stands(a, [tx[a] EXCEPT !.at = "inserting", !.deleted = tx[a].visible, !.visible = {}])
    /\ UNCHANGED <<list, reference>>

Rollback(a) == Stands(a, Closed)

(* INSERT of the next row: it waits for a transaction that holds the key,   *)
(* and fails where the key is there.                                        *)
NextRow(a) == CHOOSE row \in tx[a].fetched \ tx[a].inserted :
              \A other \in tx[a].fetched \ tx[a].inserted : row.model <= other.model
Held(a, key) ==
    \E b \in Admins \ {a} : key \in Keys(tx[b].inserted) \union Keys(tx[b].deleted)
\* Mutant of Insert: an upsert instead of an insert.
InsertUpserts(a) ==
    /\ tx[a].at = "inserting" /\ tx[a].inserted # tx[a].fetched
    /\ ~Held(a, NextRow(a).model)
    /\ Stands(a, [tx[a] EXCEPT !.inserted = @ \union {NextRow(a)},
                             !.deleted = @ \union {row \in reference : row.model = NextRow(a).model}])
    /\ UNCHANGED <<list, reference>>
Insert(a) ==
    /\ tx[a].at = "inserting" /\ tx[a].inserted # tx[a].fetched
    /\ ~Held(a, NextRow(a).model)
    /\ IF NextRow(a).model \in Keys(reference \ tx[a].deleted)
         THEN Rollback(a)
         ELSE Stands(a, [tx[a] EXCEPT !.inserted = @ \union {NextRow(a)}])
    /\ UNCHANGED <<list, reference>>

Commit(a) ==
    /\ tx[a].at = "inserting" /\ tx[a].inserted = tx[a].fetched
    /\ reference' = (reference \ tx[a].deleted) \union tx[a].inserted
    /\ tx' = [b \in Admins |-> IF b = a THEN Closed
                               ELSE [tx[b] EXCEPT !.visible = @ \ tx[a].deleted]]
    /\ UNCHANGED list

(* The connection breaks before the commit.                                 *)
Abort(a) == tx[a].at # "idle" /\ Rollback(a) /\ UNCHANGED <<list, reference>>

ReferenceNext ==
    \/ Publish
    \/ \E a \in Admins :
          Fetch(a) \/ DeleteAll(a) \/ Deleted(a) \/ Insert(a) \/ Commit(a) \/ Abort(a)

-----------------------------------------------------------------------------
(* What a reader sees is the whole of one list, never rows of two, however  *)
(* two replacements run into each other: at worst one of them fails.        *)
ReferenceWhole ==
    \A row, other \in reference : row.fetch = other.fetch

===============================================================================
