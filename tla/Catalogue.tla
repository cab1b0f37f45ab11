------------------------------- MODULE Catalogue -------------------------------
(***************************************************************************)
(* The models the gateway sells: the seed rows of metering/pricing.rs, the *)
(* names they answer to, the list a client is shown (list_models in        *)
(* routes/openai_compat.rs) and a request that asks for one of them, while *)
(* the table in memory is replaced (workers/pricing_refresh.rs).           *)
(*                                                                         *)
(* Prices are thousandths of a dollar per million tokens, tokens are       *)
(* counted in thousands.  What an answer costs is Pricing.                 *)
(***************************************************************************)
EXTENDS Naturals, Sequences, FiniteSets, TLC

CONSTANTS
  Keys,         \* keys a client may hold: [ceiling, allowed, configured]
  Wants,        \* what a client may ask of a model: [tools, vision, prompt, answer]
  Tables,       \* tables an operator may load from the database
  Spellings,    \* names clients send that are no full id
  MaxRefreshes  \* bound: tables loaded

-----------------------------------------------------------------------------
(* The seed rows                                                           *)

Cheap == 0
Mid == 1
Premium == 2
Frontier == 3

\* m: [name, tier, input, output, window], of a model that sees and calls tools.
Row(name, tier, input, output, window) ==
  [id |-> <<"any", name>>, tier |-> tier, input |-> input, output |-> output, window |-> window,
   tools |-> TRUE, vision |-> TRUE, chat |-> TRUE, active |-> TRUE]

Blind(S) == {[r EXCEPT !.vision = FALSE] : r \in S}

Embedding(name, input) ==
  [Row(name, Cheap, input, 0, 8) EXCEPT !.tools = FALSE, !.vision = FALSE, !.chat = FALSE]

OpenAi == {
  Row("gpt-5", Frontier, 1250, 10000, 400), Row("gpt-5-mini", Mid, 250, 2000, 400),
  Row("gpt-5-nano", Cheap, 50, 400, 400), Row("gpt-4o", Premium, 2500, 10000, 128),
  Row("gpt-4o-mini", Cheap, 150, 600, 128), Row("gpt-4.1", Premium, 2000, 8000, 1047),
  Row("gpt-4.1-mini", Mid, 400, 1600, 1047), Row("gpt-4.1-nano", Cheap, 100, 400, 1047),
  Row("o3", Frontier, 2000, 8000, 200), Row("o4-mini", Premium, 1100, 4400, 200),
  Embedding("text-embedding-3-small", 20), Embedding("text-embedding-3-large", 130)}

Anthropic == {
  Row("claude-fable-5", Frontier, 10000, 50000, 1000),
  Row("claude-opus-5", Frontier, 5000, 25000, 1000),
  Row("claude-opus-4-8", Frontier, 5000, 25000, 1000),
  Row("claude-opus-4-7", Frontier, 5000, 25000, 1000),
  Row("claude-opus-4-6", Frontier, 5000, 25000, 1000),
  Row("claude-opus-4-5", Frontier, 5000, 25000, 200),
  Row("claude-sonnet-5", Premium, 2000, 10000, 1000),
  Row("claude-sonnet-4-6", Premium, 3000, 15000, 1000),
  Row("claude-sonnet-4-5", Premium, 3000, 15000, 200),
  Row("claude-haiku-4-5", Mid, 1000, 5000, 200)}

Gemini == {
  Row("gemini-3.6-flash", Mid, 300, 2500, 1048),
  Row("gemini-3.1-pro-preview", Premium, 1250, 10000, 1048),
  Row("gemini-2.5-pro", Premium, 1250, 10000, 1048), Row("gemini-2.5-flash", Mid, 300, 2500, 1048),
  Row("gemini-2.5-flash-lite", Cheap, 100, 400, 1048)}

DeepSeek == Blind({
  Row("deepseek-v4-flash", Cheap, 440, 1320, 1000), Row("deepseek-v4-pro", Mid, 1320, 3960, 1000)})

Mistral == Blind({
  Row("mistral-large-latest", Premium, 500, 1500, 131),
  Row("mistral-small-latest", Cheap, 150, 600, 131), Embedding("mistral-embed", 100)})

Groq == Blind({
  Row("llama-3.3-70b-versatile", Mid, 590, 790, 131), Row("llama-3.1-8b-instant", Cheap, 50, 80, 131)})

Moonshot == Blind({Row("kimi-k2", Mid, 600, 2500, 128)})

Of(provider, S) == {[r EXCEPT !.id = <<provider, r.id[2]>>] : r \in S}

Retired ==
  {[r EXCEPT !.active = FALSE] : r \in
     Of("anthropic", {Row("claude-opus-4-1", Frontier, 15000, 75000, 200),
                      Row("claude-3-5-haiku", Cheap, 800, 4000, 200)}) \cup
     Of("google", {Row("gemini-2.0-flash", Cheap, 100, 400, 1048),
                   Row("gemini-1.5-flash", Cheap, 75, 300, 1048),
                   Row("gemini-1.5-pro", Mid, 1250, 5000, 2097)})}

SeedData ==
  Of("openai", OpenAi) \cup Of("anthropic", Anthropic) \cup Of("google", Gemini)
    \cup Of("vertex", Gemini) \cup Of("deepseek", DeepSeek) \cup Of("mistral", Mistral)
    \cup Of("groq", Groq) \cup Of("moonshot", Moonshot) \cup Retired

-----------------------------------------------------------------------------
(* Their names: <<provider, name>>, or <<"any", name>> without provider.   *)
(* Case, a date after the name and OpenRouter's prefix are left out.       *)

ProviderOf(r) == r.id[1]

DefaultAliases ==
  [n \in {"auto", "balanced", "quality", "gpt-4o-latest", "chatgpt-4o-latest"} |->
     <<"openai", "gpt-4o">>] @@
  [n \in {"economy", "gemini-flash"} |-> <<"google", "gemini-2.5-flash">>] @@
  [n \in {"claude-3-5-sonnet", "claude-sonnet-4-5-20250929"} |->
     <<"anthropic", "claude-sonnet-4-5">>] @@
  [n \in {"mistral-7b-instruct-v0.1", "mistral-7b-instruct-v0.2", "mistral-7b-instruct-v0.3",
          "mistral-7b", "mistral-small"} |-> <<"mistral", "mistral-small-latest">>] @@
  ("speed" :> <<"groq", "llama-3.3-70b-versatile">>) @@
  ("claude-opus-4-5-20251101" :> <<"anthropic", "claude-opus-4-5">>) @@
  ("deepseek-chat" :> <<"deepseek", "deepseek-v4-flash">>) @@
  ("deepseek-reasoner" :> <<"deepseek", "deepseek-v4-pro">>)

\* The order in which providers' models are registered: as the seed data lists them, or by the
\* id of the model.
Registered ==
  [seed |-> <<"openai", "anthropic", "google", "vertex", "deepseek", "mistral", "groq",
              "moonshot">>,
   database |-> <<"anthropic", "deepseek", "google", "groq", "mistral", "moonshot", "openai",
                  "vertex">>]

Before(r, s, source) ==
  \E i, j \in DOMAIN Registered[source] :
    i < j /\ Registered[source][i] = ProviderOf(r) /\ Registered[source][j] = ProviderOf(s)

\* Mutant of Claims: the model registered last has the name.
ClaimsLast(r, t, source) == \A s \in t : s.id[2] = r.id[2] => ~Before(r, s, source)

\* insert: of two models of one bare name the first registered keeps it.
Claims(r, t, source) == \A s \in t : s.id[2] = r.id[2] => ~Before(s, r, source)

\* add_alias, for a model that the table has.
Aliased(n, t) ==
  n[1] = "any" /\ n[2] \in DOMAIN DefaultAliases /\ \E r \in t : r.id = DefaultAliases[n[2]]

\* resolve and get
Named(n, t, source) ==
  {r \in t : \/ r.id = n
             \/ Aliased(n, t) /\ r.id = DefaultAliases[n[2]]
             \/ n[1] = "any" /\ ~Aliased(n, t) /\ r.id[2] = n[2] /\ Claims(r, t, source)}

-----------------------------------------------------------------------------
(* What is offered and chosen                                              *)

All(t) == {r \in t : r.active}

IsAllowed(r, key) == key.allowed = {} \/ {r.id, <<"any", r.id[2]>>} \cap key.allowed # {}

IsConfigured(r, key) == key.configured = {} \/ ProviderOf(r) \in key.configured

\* The models that list_models shows, and the names of modes that it adds for everybody.
Offered(t, key) ==
  {r \in All(t) : r.tier <= key.ceiling /\ IsAllowed(r, key) /\ IsConfigured(r, key)}

Virtual == {<<"any", mode>> : mode \in {"auto", "economy", "speed", "quality", "balanced"}}

Satisfies(r, w) ==
  r.chat /\ (w.tools => r.tools) /\ (w.vision => r.vision) /\ r.window >= w.prompt + w.answer

Blended(r) == (3 * r.input + r.output) \div 4

\* cheaper_alternatives, of which the request's tier and key leave some.
Alternatives(r, w, t) == {s \in All(t) : Blended(s) < Blended(r) /\ Satisfies(s, w)}

Substitutes(r, w, key, t) ==
  {s \in Alternatives(r, w, t) :
     s.tier <= r.tier /\ s.tier <= key.ceiling /\ IsAllowed(s, key) /\ IsConfigured(s, key)}

\* passthrough_capped, every provider being up: the model itself, or the best permitted.
Permitted(r, key) == r.tier <= key.ceiling /\ IsAllowed(r, key) /\ IsConfigured(r, key)

Better(s, r) == r.tier < s.tier \/ (r.tier = s.tier /\ Blended(r) < Blended(s))

Capped(r, w, key, t) ==
  LET open == {s \in All(t) : Permitted(s, key) /\ Satisfies(s, w)}
  IN  IF Permitted(r, key) \/ open = {} THEN {r}
      ELSE {s \in open : \A o \in open : ~Better(o, s)}

-----------------------------------------------------------------------------
(* A client                                                                *)

NoRow == Row("none", Cheap, 0, 0, 0)

\* Every provider whose models are loaded has a place in the order of ids.
ASSUME CatalogueAssumption ==
  \A t \in Tables : \A r \in t :
    /\ r.id = <<ProviderOf(r), r.id[2]>>
    /\ \E i \in DOMAIN Registered.database : ProviderOf(r) = Registered.database[i]

VARIABLES
  rows, source,  \* AppState::pricing, and where it was loaded from
  refreshes,
  client,        \* how far the client has come
  held,          \* its key
  shown,         \* the names it was shown, and the table they were taken from
  asked,         \* the name its request gives
  want,          \* what it asks of the model
  wanted,        \* the row that the name stands for
  sold           \* the row that is selected to answer, NoRow where the name is in no table

catalogueVars == <<rows, source, refreshes, client, held, shown, asked, want, wanted, sold>>

NothingShown == [names |-> {}, rows |-> {}, source |-> "seed"]

\* With no database, or an empty one, the seed data is served.
CatalogueInit ==
  /\ \/ rows = SeedData /\ source = "seed"
     \/ \E t \in Tables : All(t) # {} /\ rows = All(t) /\ source = "database"
  /\ refreshes = 0
  /\ client = "new" /\ held \in Keys /\ shown = NothingShown
  /\ asked = NoRow.id /\ want \in Wants /\ wanted = NoRow /\ sold = NoRow

\* refresh_once, which never swaps to an empty table.
Refresh ==
  /\ refreshes < MaxRefreshes /\ refreshes' = refreshes + 1
  /\ \E t \in Tables : All(t) # {} /\ rows' = All(t)
  /\ source' = "database"
  /\ UNCHANGED <<client, held, shown, asked, want, wanted, sold>>

ListModels ==
  /\ client = "new" /\ client' = "shown"
  /\ shown' = [names |-> {r.id : r \in Offered(rows, held)} \cup Virtual,
               rows |-> rows, source |-> source]
  /\ UNCHANGED <<rows, source, refreshes, held, asked, want, wanted, sold>>

\* The client asks for a model of the list, or for one by a name it knows.
AskFor ==
  /\ client = "shown" /\ client' = "asked"
  /\ asked' \in shown.names \cup Spellings
  /\ UNCHANGED <<rows, source, refreshes, held, shown, want, wanted, sold>>

\* route, with no hint, policy or pin: passed through, or answered by something cheaper, and a
\* name that is in no table is passed through as it is.
Serve ==
  /\ client = "asked" /\ client' = "served"
  /\ \/ \E r \in Named(asked, rows, source) :
          /\ wanted' = r
          /\ sold' \in Capped(r, want, held, rows) \cup Substitutes(r, want, held, rows)
     \/ Named(asked, rows, source) = {} /\ UNCHANGED <<wanted, sold>>
  /\ UNCHANGED <<rows, source, refreshes, held, shown, asked, want>>

Again ==
  /\ client = "served" /\ client' = "new"
  /\ held' \in Keys /\ want' \in Wants
  /\ shown' = NothingShown /\ asked' = NoRow.id /\ wanted' = NoRow /\ sold' = NoRow
  /\ UNCHANGED <<rows, source, refreshes>>

CatalogueNext == Refresh \/ ListModels \/ AskFor \/ Serve \/ Again

-----------------------------------------------------------------------------
(* Properties                                                              *)

Serves == client = "asked" /\ client' = "served"

Newcomer(r) == \A s \in shown.rows : s.id # r.id

\* pricing.rs:305-308: however often the table is loaded between the list and the request, a
\* name keeps the model it stood for when the client was shown it.  It is lost with that model,
\* or to one that was not there: the one an alias is meant for, or a model of the same bare
\* name whose provider comes before in the order of ids.
NameKept ==
  \A m \in Named(asked, shown.rows, shown.source) :
    \/ \A r \in rows : r.id # m.id
    \/ wanted'.id = m.id
    \/ Newcomer(wanted') /\ (Aliased(asked, rows) \/ Before(wanted', m, "database"))

\* Whatever the table in force now, what is selected for a name that it has is on the list this
\* key would now be shown, and fits the request if it stands in for another.  Only the model
\* asked for may be off the list: one no longer sold, or where nothing on it can take the
\* request.
StaysOnTheList ==
  \/ /\ sold' \in Offered(rows, held)
     /\ sold' = wanted' \/ Satisfies(sold', want)
  \/ /\ sold' = wanted'
     /\ ~wanted'.active \/ \A r \in Offered(rows, held) : ~Satisfies(r, want)

\* A name on the list of models can be used as the list has it, although the list, the name and
\* the choice of a model are each taken from the table of their moment.
CatalogueSafety ==
  [][Serves =>
       NameKept /\ (Named(asked, rows, source) # {} => StaysOnTheList)]_catalogueVars

================================================================================
