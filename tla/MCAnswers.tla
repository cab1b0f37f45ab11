------------------------------ MODULE MCAnswers ------------------------------
(***************************************************************************)
(* What a request is made into on its way to a model and back: the model   *)
(* its name stands for (Catalogue), the provider's form of it and of the   *)
(* reply (Translation), the token it travels with (VertexTokens), and the  *)
(* answers kept for others like it (SemanticCache).  The four share no     *)
(* state, so a behaviour follows one of them.                              *)
(***************************************************************************)
EXTENDS Translation, VertexTokens, SemanticCache, Catalogue

VARIABLE part  \* the part this behaviour follows

vars == <<transVars, tokenVars, similarVars, catalogueVars, part>>

\* The parts that are not followed start in one state.
Init ==
  /\ part \in {"translate", "token", "similar", "catalogue"}
  /\ TransInit /\ TokensInit /\ SimilarInit
  /\ CatalogueInit
  /\ part # "catalogue" => source = "seed"
  /\ part # "catalogue" => held = CHOOSE k \in Keys : TRUE
  /\ part # "catalogue" => want = CHOOSE w \in Wants : TRUE

InTranslation(A) == part = "translate" /\ A /\ UNCHANGED <<tokenVars, similarVars, catalogueVars, part>>
InTokens(A)      == part = "token" /\ A /\ UNCHANGED <<transVars, similarVars, catalogueVars, part>>
InSimilar(A)     == part = "similar" /\ A /\ UNCHANGED <<transVars, tokenVars, catalogueVars, part>>
InCatalogue(A)   == part = "catalogue" /\ A /\ UNCHANGED <<transVars, tokenVars, similarVars, part>>

Next ==
  \/ InTranslation(TransNext) \/ InTokens(TokensNext)
  \/ InSimilar(SimilarNext) \/ InCatalogue(CatalogueNext)

Spec == Init /\ [][Next]_vars

-----------------------------------------------------------------------------
(***************************************************************************)
(* Two requests share a Vertex account's token.  One client after another  *)
(* of an organisation that may turn retention off asks in one of three     *)
(* wordings that are close step by step, the last of which compression     *)
(* turns into the second.  Keys of three plans see the seed rows or one of *)
(* three tables that an operator has changed.                              *)
(***************************************************************************)

CONSTANT acme

MCWording == {"enable", "turn-on", "toggle"}

\* In percent; "turn-on" lies between "enable" and "toggle", which lie apart.
MCSimilarity ==
  [v, w \in MCWording |->
     IF v = w THEN 100
     ELSE IF {v, w} \in {{"enable", "turn-on"}, {"turn-on", "toggle"}} THEN 90
     ELSE 80]

MCDomain == [w \in MCWording |-> "general"]
MCShrunk == [w \in MCWording |-> IF w = "toggle" THEN "turn-on" ELSE w]

MCRequest(org, wording, style, picture, varied) ==
  [org |-> org, wording |-> wording, style |-> style, picture |-> picture, varied |-> varied]

MCRequests == {
  MCRequest(acme, "enable", "plain", 0, FALSE), MCRequest(acme, "turn-on", "plain", 0, FALSE),
  MCRequest(acme, "toggle", "plain", 0, FALSE), MCRequest(acme, "enable", "plain", 0, TRUE)}

\* The same words with and without a picture.
MCPictured == {MCRequest(acme, "enable", "plain", picture, FALSE) : picture \in {0, 1}}

MCKeys == {
  [ceiling |-> Frontier, allowed |-> {}, configured |-> {}],
  [ceiling |-> Mid, allowed |-> {}, configured |-> {"openai", "anthropic"}],
  [ceiling |-> Premium,
   allowed |-> {<<"any", "gpt-4.1-mini">>, <<"google", "gemini-2.5-pro">>,
                <<"any", "claude-3-5-haiku">>},
   configured |-> {"openai", "google", "vertex"}]}

MCWant(tools, vision, in, out) ==
  [tools |-> tools, vision |-> vision, prompt |-> in, answer |-> out]

MCWants == {
  MCWant(FALSE, FALSE, 90, 2), MCWant(TRUE, FALSE, 210, 2), MCWant(FALSE, TRUE, 2, 20)}

\* Without OpenAI's models; with two that other providers sell under names that are taken; with
\* another tier for a model of the second and third key.
MCTables == {
  {r \in SeedData : ProviderOf(r) # "openai"},
  SeedData \cup Of("vertex", {Row("claude-sonnet-4-5", Premium, 3000, 15000, 200)})
    \cup Of("groq", {Row("kimi-k2", Mid, 1000, 3000, 131)}),
  {IF r.id[2] = "gpt-4.1-mini" THEN [r EXCEPT !.tier = Frontier] ELSE r : r \in SeedData},
  {}}

MCSpellings ==
  {<<"any", n>> : n \in {"quality", "gemini-2.5-pro", "claude-3-5-haiku", "claude-sonnet-4-5",
                      "kimi-k2", "gpt-5-mini"}}

===============================================================================
