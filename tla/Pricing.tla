------------------------------- MODULE Pricing -------------------------------
(***************************************************************************)
(* The price table (metering/pricing.rs), the money it is reckoned in      *)
(* (money.rs), the attribution of what a request saved                     *)
(* (metering/savings.rs) and the invoice of a period (billing/invoice.rs). *)
(*                                                                         *)
(* Amounts are micro-cents, rates micro-cents per million tokens, shares   *)
(* basis points.  Arithmetic saturates in the code, far above any amount   *)
(* here.                                                                   *)
(***************************************************************************)
EXTENDS Integers, Sequences, FiniteSets, SequencesExt, Totals

CONSTANTS
  Model,     \* models, as they are named in the table
  IdRank,    \* IdRank[m], the place of m in the order of the ids
  BareName,  \* BareName[m], the name of m without its provider
  None

ASSUME PricingAssumption ==
  /\ IsFiniteSet(Model)
  /\ IdRank \in [Model -> Nat] /\ \A m, o \in Model : IdRank[m] = IdRank[o] => m = o
  /\ BareName \in [Model -> STRING]

Million == 1000000
WholeBp == 10000

-----------------------------------------------------------------------------
(* Money                                                                   *)

\* Half away from zero.
Rounded(product, unit) ==
  IF product >= 0 THEN (product + unit \div 2) \div unit
                  ELSE -((unit \div 2 - product) \div unit)

CostForTokens(rate, tokens) == Rounded(rate * tokens, Million)

MulBasisPoints(amount, bp) == Rounded(amount * bp, WholeBp)

PlanName == {"free", "pro", "team", "enterprise", "api"}

SavingsShare(plan) ==
  CASE plan = "pro" -> 2000
    [] plan = "team" -> 1500
    [] plan = "enterprise" -> 1000
    [] OTHER -> 0

FloorAtZero(amount) == IF amount < 0 THEN 0 ELSE amount

AtMost(amount, cap) == IF amount < cap THEN amount ELSE cap

-----------------------------------------------------------------------------
(* Prices: [input, output, readBp, writeBp, long], long None or            *)
(* [threshold, input, output]                                              *)

TotalInput(u) == u.input + u.cached + u.written

RatesFor(p, tokens) ==
  IF p.long # None /\ tokens >= p.long.threshold
    THEN [input |-> p.long.input, output |-> p.long.output]
    ELSE [input |-> p.input, output |-> p.output]

\* Truncated, where the costs are rounded.
Scale(rate, bp) == (rate * bp) \div WholeBp

InputCostOf(p, u) ==
  LET rate == RatesFor(p, TotalInput(u)).input
  IN  CostForTokens(rate, u.input) + CostForTokens(Scale(rate, p.readBp), u.cached)
        + CostForTokens(Scale(rate, p.writeBp), u.written)

OutputCostOf(p, u) == CostForTokens(RatesFor(p, TotalInput(u)).output, u.output)

CostOf(p, u) == InputCostOf(p, u) + OutputCostOf(p, u)

CacheDiscountOf(p, u) ==
  LET rate == RatesFor(p, TotalInput(u)).input
  IN  FloorAtZero(CostForTokens(rate, u.cached) - CostForTokens(Scale(rate, p.readBp), u.cached))

-----------------------------------------------------------------------------
(* The table: table[m] is the price of m, None where it has none           *)

\* A name is spelled in full, bare, with a date after it or with the aggregator's prefix:
\* [name, full, dated, prefixed].  A name with both prefix and date is not found.
Known(table, n) ==
  IF n.full THEN {m \in Model : m = n.name /\ table[m] # None}
            ELSE {m \in Model : BareName[m] = n.name /\ table[m] # None}

\* Rows are loaded in the order of their ids, and the first to claim a bare name keeps it.
Resolve(table, n) ==
  IF (n.dated /\ n.prefixed) \/ Known(table, n) = {} THEN None
    ELSE CHOOSE m \in Known(table, n) : \A o \in Known(table, n) : IdRank[m] <= IdRank[o]

CostOfModel(table, n, u, unknown) ==
  LET m == Resolve(table, n) IN IF m = None THEN unknown ELSE CostOf(table[m], u)

-----------------------------------------------------------------------------
(* Attribution                                                             *)

Savings(baseline, actual, bp) ==
  LET gross == FloorAtZero(baseline - actual)
      fee == MulBasisPoints(gross, bp)
  IN  [baseline |-> baseline, actual |-> actual, gross |-> gross, fee |-> fee,
       net |-> gross - fee]

\* Mutant of Components: the provider's discount is capped by the whole saving.
ComponentsOverlap(gross, compressionRaw, cacheRaw) ==
  LET compression == AtMost(FloorAtZero(compressionRaw), gross)
      cache == AtMost(FloorAtZero(cacheRaw), gross)
  IN  [routing |-> FloorAtZero(gross - compression - cache),
       compression |-> compression, cache |-> cache]

Components(gross, compressionRaw, cacheRaw) ==
  LET compression == AtMost(FloorAtZero(compressionRaw), gross)
      cache == AtMost(FloorAtZero(cacheRaw), gross - compression)
  IN  [routing |-> FloorAtZero(gross - compression - cache),
       compression |-> compression, cache |-> cache]

\* Of a hit, and of a stream, whose event is made with none.
HitComponents(gross) == [routing |-> 0, compression |-> 0, cache |-> gross]
NoComponents == [routing |-> 0, compression |-> 0, cache |-> 0]

-----------------------------------------------------------------------------
(* The invoice                                                             *)

SubscriptionPrice(plan) ==
  CASE plan = "pro" -> 29 * 1000000
    [] plan = "team" -> 299 * 1000000
    [] plan = "enterprise" -> 2000 * 1000000
    [] OTHER -> 0

ApiTierPerRequest == 100

Line(amount) == IF amount = 0 THEN <<>> ELSE <<amount>>

\* usage is a period's totals: [requests, gross, fees].
Build(plan, bp, usage) ==
  LET subscription == SubscriptionPrice(plan)
      api == ApiTierPerRequest * usage.requests
      fee == MulBasisPoints(FloorAtZero(usage.gross), bp)
  IN  [lines |-> Line(subscription) \o (IF plan = "api" THEN <<api>> ELSE <<>>) \o Line(fee),
       fee |-> fee,
       total |-> subscription + (IF plan = "api" THEN api ELSE 0) + fee,
       requests |-> usage.requests]

FeeIsConsistent(invoice, fees) ==
  LET apart == invoice.fee - fees
      tolerance == IF invoice.requests > 1 THEN invoice.requests ELSE 1
  IN  apart <= tolerance /\ -apart <= tolerance

LinesSumToTotal(invoice) == Total(invoice.lines, Len(invoice.lines)) = invoice.total

-----------------------------------------------------------------------------
(***************************************************************************)
(* How requests are priced while prices change: the rows of model_pricing, *)
(* the table a replica reads them into (workers/pricing_refresh.rs, the    *)
(* admin's reload), and a request that reads that table again for each of  *)
(* its figures (routes/openai_compat.rs execute, stream_chat).             *)
(***************************************************************************)

CONSTANTS
  Repriced,     \* the models whose rows are followed; the others have none
  Tariff,       \* prices a row may hold
  Spelling,     \* names requests may ask for
  Tokens,       \* token counts of an answer: [input, output, cached, written]
  TokensSaved,  \* tokens compression may have removed
  Plan,         \* the plans the organisation may move between
  MaxPriced,    \* bound: requests priced
  MaxPriceChanges

LongRate == [threshold : Nat, input : Nat, output : Nat]

ASSUME AttributionAssumption ==
  /\ Repriced \subseteq Model /\ Plan \subseteq PlanName
  /\ Tariff \subseteq
       [input : Nat, output : Nat, readBp : Nat, writeBp : Nat, long : LongRate \cup {None}]
  /\ Tokens \subseteq [input : Nat, output : Nat, cached : Nat, written : Nat]
  /\ TokensSaved \subseteq Nat
  /\ MaxPriced \in Nat /\ MaxPriceChanges \in Nat

VARIABLES
  rows,     \* model_pricing: the current and active row of each model
  table,    \* the replica's table, with where it came from
  plan,     \* the organisation's
  bill,     \* the request being priced
  event,    \* the last usage event
  month,    \* totals of the month's events, and the shares they were priced at
  changes   \* changes of prices and of the plan

attributionVars == <<rows, table, plan, bill, event, month, changes>>

NoBill == [pc |-> "idle"]

AttributionInit ==
  /\ rows \in {r \in [Model -> Tariff \cup {None}] :
                 /\ \A m \in Model \ Repriced : r[m] = None
                 /\ \E m \in Model : r[m] # None}
  /\ table = rows
  /\ plan = "pro"
  /\ bill = NoBill
  /\ event = None
  /\ month = [requests |-> 0, gross |-> 0, fees |-> 0, shares |-> {}]
  /\ changes = 0

-----------------------------------------------------------------------------
(* Prices                                                                  *)

Changes ==
  /\ changes < MaxPriceChanges
  /\ changes' = changes + 1
  /\ UNCHANGED <<table, bill, event, month>>

\* The current row is closed and the new one inserted in one transaction.
UpsertPricing(m, p) == Changes /\ rows' = [rows EXCEPT ![m] = p] /\ UNCHANGED plan

Retire(m) == Changes /\ rows' = [rows EXCEPT ![m] = None] /\ UNCHANGED plan

ChangePlan(p) == Changes /\ plan' = p /\ UNCHANGED rows

\* No rows is taken for a mistake, and the old table kept.
Refreshed(old) == IF \A m \in Model : rows[m] = None THEN old ELSE rows

RefreshOnce ==
  /\ table # Refreshed(table)
  /\ table' = Refreshed(table)
  /\ UNCHANGED <<rows, plan, bill, event, month, changes>>

-----------------------------------------------------------------------------
(* A request                                                               *)

\* What it knows when its answer is complete; the share is of the plan it was let in under.
Answered(path, requested, served, u, saved) ==
  /\ bill.pc = "idle"
  /\ month.requests < MaxPriced
  /\ bill' = [pc |-> IF path = "hit" THEN "hit" ELSE "actual", path |-> path,
              requested |-> requested, served |-> served, tokens |-> u, saved |-> saved,
              bp |-> SavingsShare(plan), actual |-> None, baseline |-> None,
              input |-> None, output |-> None]
  /\ UNCHANGED <<rows, table, plan, event, month, changes>>

Reads(pc, next) ==
  /\ bill.pc = pc
  /\ UNCHANGED <<rows, table, plan, event, month, changes>>
  /\ bill' = next

ReadActual ==
  Reads("actual", [bill EXCEPT !.pc = "baseline",
                               !.actual = CostOfModel(table, bill.served, bill.tokens, 0)])

\* The baseline of a chat counts the tokens that compression removed, that of a stream does
\* not.
Uncompressed ==
  IF bill.path = "chat" THEN [bill.tokens EXCEPT !.input = @ + bill.saved] ELSE bill.tokens

ReadBaseline ==
  Reads("baseline",
        [bill EXCEPT !.pc = "input",
                     !.baseline = CostOfModel(table, bill.requested, Uncompressed, bill.actual)])

Priced == LET m == Resolve(table, bill.served) IN IF m = None THEN None ELSE table[m]

ReadInput ==
  Reads("input", [bill EXCEPT !.pc = IF bill.path = "chat" THEN "output" ELSE "emit",
                              !.input = IF Priced = None THEN 0 ELSE InputCostOf(Priced, bill.tokens),
                              !.output = IF bill.path = "chat" THEN None
                                         ELSE IF Priced = None THEN 0
                                         ELSE OutputCostOf(Priced, bill.tokens)])

ReadOutput ==
  Reads("output", [bill EXCEPT !.pc = "emit",
                               !.output = IF Priced = None THEN 0
                                          ELSE OutputCostOf(Priced, bill.tokens)])

CompressionRaw ==
  IF Priced = None THEN 0
    ELSE CostForTokens(RatesFor(Priced, TotalInput(bill.tokens)).input, bill.saved)

CacheRaw == IF Priced = None THEN 0 ELSE CacheDiscountOf(Priced, bill.tokens)

Emits(savings, parts, input, output) ==
  /\ event' = [path |-> bill.path, savings |-> savings, parts |-> parts,
               input |-> input, output |-> output]
  /\ month' = [requests |-> month.requests + 1, gross |-> month.gross + savings.gross,
               fees |-> month.fees + savings.fee, shares |-> month.shares \cup {bill.bp}]
  /\ bill' = NoBill
  /\ UNCHANGED <<rows, table, plan, changes>>

\* A hit reads the table once.
EmitHit ==
  /\ bill.pc = "hit"
  /\ LET savings == Savings(CostOfModel(table, bill.requested, bill.tokens, 0), 0, bill.bp)
     IN  Emits(savings, HitComponents(savings.gross), 0, 0)

Emit ==
  /\ bill.pc = "emit"
  /\ LET savings == Savings(bill.baseline, bill.actual, bill.bp)
     IN  Emits(savings,
               IF bill.path = "chat" THEN Components(savings.gross, CompressionRaw, CacheRaw)
                                     ELSE NoComponents,
               bill.input, bill.output)

Account == ReadActual \/ ReadBaseline \/ ReadInput \/ ReadOutput \/ EmitHit \/ Emit

Asks ==
  \E requested, served \in Spelling, u \in Tokens :
    \/ \E saved \in TokensSaved : Answered("chat", requested, served, u, saved)
    \/ Answered("stream", requested, served, u, 0)
    \/ Answered("hit", requested, requested, u, 0)

Attribute ==
  \/ Asks
  \/ Account
  \/ RefreshOnce
  \/ \E m \in Repriced : Retire(m) \/ \E p \in Tariff : UpsertPricing(m, p)
  \/ \E p \in Plan : ChangePlan(p)

-----------------------------------------------------------------------------
(* Properties                                                              *)

\* Whatever tables a chat or a hit was priced from, the three levers make up the saving, none
\* of them negative, and the fee and what the customer keeps make it up too
\* (savings.rs SavingsComponents::compute, SavingsBreakdown::compute).
PartsMakeWhole ==
  (event # None /\ event.path # "stream") =>
    LET s == event.savings
        p == event.parts
    IN  /\ p.routing >= 0 /\ p.compression >= 0 /\ p.cache >= 0
        /\ p.routing + p.compression + p.cache = s.gross
        /\ s.fee >= 0 /\ s.net >= 0 /\ s.fee + s.net = s.gross

\* The fee of a month, reckoned from its total, is as near the sum of its requests' fees as
\* the invoice demands, if the share did not change, and the lines add up
\* (invoice.rs fee_is_consistent, lines_sum_to_total).
InvoiceGoesOut ==
  \A p \in Plan :
    month.shares \subseteq {SavingsShare(p)} =>
      LET invoice == Build(p, SavingsShare(p), month)
      IN  FeeIsConsistent(invoice, month.fees) /\ LinesSumToTotal(invoice)

\* A replica that has prices never loses them all, whatever the rows are when it reads them
\* (pricing_refresh.rs refresh_once).
PricesServed == \E m \in Model : table[m] # None

\* The figures of a request, of its month and of the table they come from agree.
MoneyAddsUp == PartsMakeWhole /\ InvoiceGoesOut /\ PricesServed

===============================================================================
