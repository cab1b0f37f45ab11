------------------------------ MODULE MCPipeline ------------------------------
(***************************************************************************)
(* What execute_with_headroom decides about a request: what is left of its *)
(* prompt (Prompt), which models may answer it (Routing), and what it cost *)
(* and saved (Pricing).  The three read different parts of a request    *)
(* and share no state, so a behaviour follows one of them.                 *)
(***************************************************************************)
EXTENDS Routing, Prompt, TLC

VARIABLE stage  \* the stage this behaviour follows

pipelineVars == <<routingVars, promptVars, attributionVars, stage>>

\* The stages that are not followed start in one state.
PipelineInit ==
  /\ stage \in {"compress", "route", "price"}
  /\ RoutingInit
  /\ PromptInit /\ (stage # "compress" => ~private)
  /\ AttributionInit
  /\ stage # "price" =>
       rows = [m \in Model |-> IF m \in Repriced THEN CHOOSE p \in Tariff : TRUE ELSE None]

InCompression(A) == stage = "compress" /\ A /\ UNCHANGED <<routingVars, attributionVars, stage>>
InRouting(A)     == stage = "route" /\ A /\ UNCHANGED <<promptVars, attributionVars, stage>>
InPricing(A)     == stage = "price" /\ A /\ UNCHANGED <<routingVars, promptVars, stage>>

PipelineNext == InCompression(Converse) \/ InRouting(Routes) \/ InPricing(Attribute)

PipelineSpec == PipelineInit /\ [][PipelineNext]_pipelineVars

\* Time passes and an administrator's call finishes.
FairPipelineSpec ==
  PipelineSpec /\ WF_pipelineVars(InRouting(ExpirePolicy)) /\ WF_pipelineVars(InRouting(DropCachedPolicy))

-----------------------------------------------------------------------------
(***************************************************************************)
(* Routing: two turns of a conversation over five models of three          *)
(* providers, and a sixth that no pricing table has.  Prompt: a            *)
(* conversation past both limits, with two instructions, a file and a page *)
(* that are read again.  Attribution: two of the models, one with a dearer *)
(* rate for long prompts.                                                  *)
(***************************************************************************)

CONSTANTS nano, small, large, rival, embed, novel, none

MCModel == {nano, small, large, rival, embed}
MCProviderOf ==
  nano :> "openai" @@ large :> "openai" @@ embed :> "openai" @@ small :> "google" @@ rival :> "anthropic"
  @@ novel :> "openai"
MCTier == nano :> Cheap @@ small :> Mid @@ large :> Premium @@ rival :> Premium @@ embed :> Cheap
MCPrice == nano :> 5 @@ small :> 4 @@ large :> 7 @@ rival :> 9 @@ embed :> 1
MCFeature ==
  nano :> {"chat"} @@ small :> {"chat", "tools"} @@ large :> {"chat", "tools"}
  @@ rival :> {"chat", "tools"} @@ embed :> {} @@ novel :> {"chat"}
MCWindow == nano :> 3 @@ small :> 2 @@ large :> 4 @@ rival :> 4 @@ embed :> 2

\* A request on the model m that is otherwise plain.
Plain(m, b) ==
  [model |-> m, alias |-> FALSE, band |-> b, hint |-> "auto", needs |-> {"chat"}, prompt |-> 1,
   answer |-> 1, room |-> none, ceiling |-> none, allowed |-> none, configured |-> none]

MCAsk ==
  { Plain(large, "complex"),
    [Plain(small, "complex") EXCEPT !.hint = "economy"],
    [Plain(large, "simple") EXCEPT !.needs = {"chat", "tools"}, !.prompt = 2],
    [Plain(small, "medium") EXCEPT !.room = 3],
    [Plain(rival, "medium") EXCEPT !.hint = "quality", !.alias = TRUE],
    [Plain(large, "simple") EXCEPT !.ceiling = Cheap, !.configured = {"openai"}],
    [Plain(rival, "medium") EXCEPT !.allowed = {small, nano}, !.room = 2],
    [Plain(rival, "simple") EXCEPT !.hint = "passthrough"],
    Plain(novel, "simple") }

Nothing ==
  [deny |-> FALSE, passthrough |-> FALSE, pin |-> none, tier |-> none, maxTier |-> none, mode |-> none]

Rule(b, act) ==
  [bands |-> b, models |-> MCModel, modes |-> {"auto", "quality", "economy"}, then |-> act]

MCPolicy ==
  { <<Rule({"complex"}, [Nothing EXCEPT !.deny = TRUE]), Rule({"medium"}, [Nothing EXCEPT !.pin = nano])>>,
    <<Rule({"medium"}, [Nothing EXCEPT !.maxTier = Cheap]),
      Rule({"simple"}, [Nothing EXCEPT !.pin = novel]),
      Rule({"complex"}, [Nothing EXCEPT !.mode = "quality"])>> }

-----------------------------------------------------------------------------

MCInstruction ==
  {Message("system", Text("rules", 90, "plain"), FALSE),
   Message("system", Text("tone", 30, "loose"), FALSE)}

MCQuestion ==
  {Message("user", Text("what", 30, "plain"), FALSE),
   Message("user", Text("see", 30, "loose"), TRUE)}

MCOutput ==
  {Message("tool", Text("file", 1100, "pretty"), FALSE),
   Message("tool", Text("page", 500, "plain"), FALSE)}

-----------------------------------------------------------------------------

MCIdRank == nano :> 1 @@ small :> 2 @@ large :> 3 @@ rival :> 4 @@ embed :> 5
MCBareName ==
  nano :> "nano" @@ small :> "small" @@ large :> "large" @@ rival :> "rival" @@ embed :> "embed"

MCTariff ==
  {[input |-> 100001, output |-> 400001, readBp |-> 1000, writeBp |-> 12500,
    long |-> [threshold |-> 400, input |-> 160001, output |-> 600000]],
   [input |-> 15000, output |-> 60000, readBp |-> 10000, writeBp |-> 10000, long |-> none]}

MCSpelling ==
  {[name |-> "large", full |-> FALSE, dated |-> TRUE, prefixed |-> FALSE],
   [name |-> small, full |-> TRUE, dated |-> FALSE, prefixed |-> FALSE]}

MCTokens ==
  {[input |-> 70, output |-> 33, cached |-> 0, written |-> 0],
   [input |-> 11, output |-> 1, cached |-> 370, written |-> 33]}

===============================================================================
