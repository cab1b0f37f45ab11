------------------------------ MODULE Translation ------------------------------
(***************************************************************************)
(* A conversation held through the gateway without streaming: the caller   *)
(* speaks OpenAI's or Anthropic's wire format (routes/openai_compat.rs,    *)
(* routes/anthropic_compat.rs), each turn is normalised (types.rs), served *)
(* by whichever provider the router picks and translated for it and back   *)
(* (providers/*.rs).                                                       *)
(*                                                                         *)
(* A text, an image, a call or a result is a part with a number of its     *)
(* own; its wording is left out.                                           *)
(***************************************************************************)
EXTENDS Naturals, FiniteSets, SequencesExt, Totals

CONSTANTS
  MaxParts,  \* bound: parts in a conversation
  Counts     \* bound: the token counts of an answer

ASSUME TranslationAssumption == MaxParts \in Nat /\ Counts \subseteq Nat

VARIABLES
  endpoint,  \* the format the caller speaks
  history,   \* the caller's messages, in that format
  options,   \* the parameters the caller sets
  served,    \* the provider's format
  body,      \* what the provider is sent
  answer,    \* what it answers
  reply,     \* what the caller is answered
  billed,    \* the usage the answer is metered with
  parts,     \* parts numbered so far
  turn       \* whose turn it is

transVars == <<endpoint, history, options, served, body, answer, reply, billed, parts, turn>>

\* The formats of the adapters; Vertex speaks Google's, the compatible and custom ones OpenAI's.
Wire == {"openai", "deepseek", "anthropic", "google"}

Part == [kind : {"text", "image", "call", "result"}, id : 1 .. MaxParts]

\* A message; OpenAI's calls and results stand beside the content, Anthropic's are parts of it.
Role == {"system", "developer", "user", "assistant", "tool"}

Message == [role : Role, content : Seq(Part), calls : Seq(Part), answers : Seq(Part)]

Option ==
  {"temperature", "top_p", "max_tokens", "stop", "tools", "tool_choice", "response_format", "user",
   "extra", "stream"}

TransTypeOK ==
  /\ endpoint \in {"openai", "anthropic"} /\ served \in Wire
  /\ \A i \in DOMAIN history : history[i] \in Message
  /\ options \subseteq Option
  /\ parts \in 0 .. MaxParts
  /\ turn \in {"caller", "gateway", "provider", "answered"}

Nothing == [system |-> <<>>, turns |-> <<>>, options |-> {}]

NoUsage == [fresh |-> 0, cached |-> 0, written |-> 0, output |-> 0]

NoAnswer == [blocks |-> <<>>, usage |-> NoUsage]

NoReply == [shape |-> "none", blocks |-> <<>>]

TransInit ==
  /\ endpoint \in {"openai", "anthropic"} /\ served = "openai"
  /\ options \in {{}, {"max_tokens", "stop", "tools"}, {"response_format", "extra", "tool_choice"}}
  /\ history = <<>> /\ body = Nothing /\ answer = NoAnswer /\ reply = NoReply
  /\ billed = NoUsage /\ parts = 0 /\ turn = "caller"

-----------------------------------------------------------------------------
(* Requests                                                                *)

OfKind(s, kinds) == Where(s, {i \in DOMAIN s : s[i].kind \in kinds})

\* text_content: the parts that have a `text`.
TextContent(m) == OfKind(m.content, {"text"})

Joined(ms) == FlattenSeq([i \in DOMAIN ms |-> TextContent(ms[i])])

Instructs(m) == m.role \in {"system", "developer"}

\* system_text
SystemText(ms) == Joined(Where(ms, {i \in DOMAIN ms : Instructs(ms[i])}))

\* normalize: Anthropic's system prompt becomes a first message, its other messages keep their
\* parts; OpenAI's request is the normalised one.
Normalize(ms) ==
  IF endpoint = "openai" THEN ms
  ELSE LET system == Joined(Where(ms, {i \in DOMAIN ms : ms[i].role = "system"})) IN
         (IF system = <<>> THEN <<>>
          ELSE <<[role |-> "system", content |-> system, calls |-> <<>>, answers |-> <<>>]>>)
         \o Where(ms, {i \in DOMAIN ms : ms[i].role # "system"})

\* openai::build_body sends the messages as they are, and the parameters it does not know.
OpenAiBody(ms) == [system |-> <<>>, turns |-> ms, options |-> options]

\* Mutant of TextTurns: what instructs stays among the turns.
TextTurnsAll(ms) ==
  [i \in DOMAIN ms |->
     [role    |-> IF ms[i].role = "assistant" THEN "assistant" ELSE "user",
      content |-> TextContent(ms[i]), calls |-> <<>>, answers |-> <<>>]]

\* What anthropic::build_body and google::build_body leave out: calls, results and images.
TextTurns(ms) ==
  LET said == Where(ms, {i \in DOMAIN ms : ~Instructs(ms[i])}) IN
    [i \in DOMAIN said |->
       [role    |-> IF said[i].role = "assistant" THEN "assistant" ELSE "user",
        content |-> TextContent(said[i]), calls |-> <<>>, answers |-> <<>>]]

Sampling == {"temperature", "top_p", "max_tokens", "stop", "tools"}

AnthropicBody(ms) ==
  [system |-> SystemText(ms), turns |-> TextTurns(ms),
   options |-> (options \cap (Sampling \cup {"stream"})) \cup {"max_tokens"}]

GoogleBody(ms) ==
  [system |-> SystemText(ms), turns |-> TextTurns(ms), options |-> options \cap Sampling]

BuildBody(wire, ms) ==
  CASE wire \in {"openai", "deepseek"} -> OpenAiBody(ms)
    [] wire = "anthropic" -> AnthropicBody(ms)
    [] wire = "google" -> GoogleBody(ms)

-----------------------------------------------------------------------------
(* Answers                                                                 *)

\* The usage a provider reports (external): OpenAI's and Google's prompt includes what was cached,
\* Anthropic's and DeepSeek's does not.
Reported(wire, u) ==
  [u EXCEPT !.fresh = IF wire \in {"openai", "google"} THEN @ + u.cached ELSE @,
            !.written = IF wire = "anthropic" THEN @ ELSE 0]

\* OpenAI's and Google's parse_usage
WithinPrompt(r) ==
  LET cached == IF r.cached <= r.fresh THEN r.cached ELSE r.fresh IN
    [r EXCEPT !.fresh = @ - cached, !.cached = cached]

ParseUsage(wire, r) == IF wire \in {"openai", "google"} THEN WithinPrompt(r) ELSE r

\* parse_response: the texts joined, the calls in the provider's shape, and the provider's body.
ParseResponse(wire, a) ==
  [content |-> OfKind(a.blocks, {"text"}), calls |-> OfKind(a.blocks, {"call"}),
   usage |-> ParseUsage(wire, Reported(wire, a.usage)),
   raw |-> IF wire = "deepseek" THEN "openai" ELSE wire, whole |-> a.blocks]

\* to_openai_response: the provider's body, in the provider's shape.
ToOpenAi(r) == [shape |-> r.raw, blocks |-> r.whole]

\* to_anthropic_response: Anthropic's body as it is, another's rebuilt, in which only the calls
\* that OpenAI has made are translated: Google's stand as they came.
ToAnthropic(r) ==
  [shape  |-> IF r.raw = "google" /\ r.calls # <<>> THEN "mixed" ELSE "anthropic",
   blocks |-> IF r.raw = "anthropic" THEN r.whole ELSE r.content \o r.calls]

-----------------------------------------------------------------------------
(* A conversation                                                          *)

New(kind, n) == [kind |-> kind, id |-> parts + n]

Says(role, content, calls, answers) ==
  history' = Append(history,
    [role |-> role, content |-> content, calls |-> calls, answers |-> answers])

\* The caller instructs or asks, in words or with an image.
Speak(role, kinds) ==
  /\ turn = "caller" /\ parts + Len(kinds) <= MaxParts
  /\ role \in (IF endpoint = "openai" THEN {"system", "developer", "user"} ELSE {"system", "user"})
  /\ Says(role, [i \in DOMAIN kinds |-> New(kinds[i], i)], <<>>, <<>>)
  /\ parts' = parts + Len(kinds)
  /\ UNCHANGED <<endpoint, options, served, body, answer, reply, billed, turn>>

\* chat_completions and messages; the router may have picked another provider than before.
Send(wire) ==
  /\ turn = "caller" /\ \E i \in DOMAIN history : history[i].role = "user"
  /\ turn' = "provider" /\ served' = wire
  /\ body' = BuildBody(wire, Normalize(history))
  /\ UNCHANGED <<endpoint, history, options, answer, reply, billed, parts>>

\* The model answers in words, with a call, or both (external).
Answer(kinds, u) ==
  /\ turn = "provider" /\ parts + Len(kinds) <= MaxParts
  /\ turn' = "gateway" /\ parts' = parts + Len(kinds)
  /\ answer' = [blocks |-> [i \in DOMAIN kinds |-> New(kinds[i], i)], usage |-> u]
  /\ UNCHANGED <<endpoint, history, options, served, body, reply, billed>>

Render ==
  /\ turn = "gateway" /\ turn' = "answered"
  /\ LET r == ParseResponse(served, answer) IN
       /\ reply' = IF endpoint = "openai" THEN ToOpenAi(r) ELSE ToAnthropic(r)
       /\ billed' = r.usage
  /\ UNCHANGED <<endpoint, history, options, served, body, answer, parts>>

\* The caller keeps the answer in its history and answers its calls (external).
Continue ==
  /\ turn = "answered" /\ parts < MaxParts /\ turn' = "caller"
  /\ LET texts == OfKind(reply.blocks, {"text"})
         calls == OfKind(reply.blocks, {"call"})
         said  == [role |-> "assistant", calls |-> <<>>, answers |-> <<>>,
                   content |-> IF endpoint = "openai" THEN texts ELSE reply.blocks]
         result == [role |-> IF endpoint = "openai" THEN "tool" ELSE "user", calls |-> <<>>,
                    content |-> <<New("result", 1)>>, answers |-> calls]
     IN
       /\ history' = Append(history, IF endpoint = "openai" THEN [said EXCEPT !.calls = calls] ELSE said)
                     \o (IF calls = <<>> THEN <<>> ELSE <<result>>)
       /\ parts' = IF calls = <<>> THEN parts ELSE parts + 1
  /\ UNCHANGED <<endpoint, options, served, body, answer, reply, billed>>

TransNext ==
  \/ \E role \in {"system", "developer", "user"}, kinds \in {<<"text">>, <<"image", "text">>} :
       Speak(role, kinds)
  \/ \E wire \in Wire : Send(wire)
  \/ \E kinds \in {<<"text">>, <<"call">>, <<"text", "call">>, <<"call", "text">>},
        u \in [fresh : Counts, cached : Counts, written : {1}, output : {1}] : Answer(kinds, u)
  \/ Render \/ Continue

-----------------------------------------------------------------------------
(* Properties                                                              *)

\* What a list of messages instructs, and what each party says, in order.
Instructed(ms) ==
  Joined(Where(ms, {i \in DOMAIN ms : ms[i].role \in {"system", "developer"}}))

By(m) == IF m.role = "assistant" THEN "assistant" ELSE "user"

Lines(m) == [i \in DOMAIN TextContent(m) |-> <<By(m), TextContent(m)[i]>>]

Said(ms) ==
  LET talk == Where(ms, {i \in DOMAIN ms : ms[i].role \notin {"system", "developer"}})
  IN  FlattenSeq([i \in DOMAIN talk |-> Lines(talk[i])])

\* Whichever endpoint the caller uses and whichever provider serves a turn, also when it is
\* another than served the last, every text of the conversation reaches it once: an instruction
\* as an instruction, the rest in its order and as the words of who said them.
PromptKept ==
  turn # "caller" =>
    /\ body.system \o Instructed(body.turns) = Instructed(history)
    /\ Said(body.turns) = Said(history)

\* The replies that are in the caller's format: those of a provider that speaks OpenAI's, and
\* on the Messages endpoint those of Anthropic and Google's without calls.  A chat completion
\* served by Anthropic or Google is answered in the provider's format.
Rendered ==
  \/ served \in {"openai", "deepseek"}
  \/ endpoint = "anthropic" /\ (served = "anthropic" \/ OfKind(answer.blocks, {"call"}) = <<>>)

\* The caller is handed every text and call of the answer once and nothing else, in its own
\* format where the gateway renders it, and is billed for the tokens the model read and
\* wrote, each in its class, however the provider counts them.
AnswerKept ==
  turn = "answered" =>
    /\ ToSet(reply.blocks) = ToSet(answer.blocks) /\ Len(reply.blocks) = Len(answer.blocks)
    /\ Rendered => reply.shape = endpoint
    /\ billed.fresh = answer.usage.fresh /\ billed.cached = answer.usage.cached
    /\ billed.output = answer.usage.output

\* On the way to the provider no text of the conversation, and on the way back no text or call
\* of the answer, is lost, doubled or told to the wrong party.
WordsKept == PromptKept /\ AnswerKept

===============================================================================
