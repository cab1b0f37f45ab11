-------------------------------- MODULE Prompt --------------------------------
(***************************************************************************)
(* engine/compressor.rs: what the gateway makes of a conversation before   *)
(* it is routed and sent, turn after turn, and the key under which the     *)
(* conversation keeps its model (routes/openai_compat.rs                   *)
(* conversation_affinity_key).                                             *)
(*                                                                         *)
(* A message is [role, text, image], its text [body, size, form, cut,      *)
(* refers]: its characters, whether pretty-printed JSON ("pretty"), with   *)
(* runs of white space outside code ("loose") or neither ("plain"), cut in *)
(* the middle, or a pointer to another message.  Tool calls are left out:  *)
(* compression does not read them.                                         *)
(***************************************************************************)
EXTENDS Integers, Sequences, FiniteSets, SequencesExt, Totals

CONSTANTS
  TurnLimit,    \* TRUNCATE_THRESHOLD
  KeepRecent,   \* KEEP_RECENT
  TokenBudget,  \* token_budget
  StaleAge,     \* STALE_TOOL_RESULT_AGE
  LargeBlock,   \* LARGE_BLOCK_CHARS
  KeepEdge,     \* TOOL_RESULT_KEEP_EDGE
  Instruction,  \* system messages of the client's framework
  Question,     \* messages a user may send
  Output,       \* results a tool may return
  MaxMessages   \* bound: messages of the conversation

Body == {m.text.body : m \in Instruction \cup Question \cup Output} \cup {"reply"}

\* What a client may send: texts that nobody has cut or replaced.
Given ==
  [role  : {"system", "user", "assistant", "tool"},
   text  : [body : Body, size : Nat, form : {"plain", "loose", "pretty"}, cut : {FALSE}, refers : {0}],
   image : BOOLEAN]

ASSUME PromptAssumption ==
  /\ {TurnLimit, KeepRecent, TokenBudget, StaleAge, LargeBlock, KeepEdge, MaxMessages} \subseteq Nat
  /\ StaleAge <= KeepRecent
  /\ Instruction \cup Question \cup Output \subseteq Given

VARIABLES
  private,  \* the organisation retains nothing
  history,  \* the conversation as its client has it
  sent,     \* what the provider was sent last
  pins,     \* the affinity keys of its turns
  waiting   \* for whom: "user", "model", "tool"

promptVars == <<private, history, sent, pins, waiting>>

Text(body, size, form) ==
  [body |-> body, size |-> size, form |-> form, cut |-> FALSE, refers |-> 0]

Message(role, text, image) == [role |-> role, text |-> text, image |-> image]

\* Developer messages count as system messages.
IsSystem(m) == m.role = "system"

\* What is put in place of a text is a text: parts that are not are lost.
Rewritten(m, text) == IF text = m.text THEN m ELSE [m EXCEPT !.text = text, !.image = FALSE]

-----------------------------------------------------------------------------
(* The steps of compress, in order                                         *)

EstimatedTokens(ms) ==
  FoldLeft(LAMBDA sum, m : sum + m.text.size, 0, ms) \div 4 + 4 * Len(ms)

\* A system text is kept where it first comes.
DedupeSystemMessages(ms) ==
  Where(ms, {i \in DOMAIN ms :
               ~\E j \in 1 .. i - 1 : IsSystem(ms[i]) /\ IsSystem(ms[j]) /\ ms[j].text = ms[i].text})

MinifyJson(m) ==
  Rewritten(m, IF m.text.form = "pretty" /\ m.text.size >= 64
                 THEN [m.text EXCEPT !.form = "plain"] ELSE m.text)

Pointer(i) == [Text("identical", 110, "plain") EXCEPT !.refers = i]

\* The pointer names the place of the first copy before anything is truncated.
ReferenceDuplicateBlocks(ms) ==
  LET copies(i) == {j \in 1 .. i - 1 : ~IsSystem(ms[j]) /\ ms[j].text = ms[i].text}
  IN  [i \in DOMAIN ms |->
         IF IsSystem(ms[i]) \/ ms[i].text.size < LargeBlock \/ copies(i) = {} THEN ms[i]
           ELSE Rewritten(ms[i], Pointer(CHOOSE j \in copies(i) : \A k \in copies(i) : j <= k))]

Stale(ms, i) ==
  /\ i <= Len(ms) - StaleAge
  /\ ms[i].role = "tool"
  /\ ms[i].text.size >= 2 * KeepEdge + LargeBlock

TrimStaleToolResults(ms) ==
  [i \in DOMAIN ms |->
     IF Stale(ms, i)
       THEN Rewritten(ms[i], [ms[i].text EXCEPT !.cut = TRUE, !.size = 2 * KeepEdge + 75])
       ELSE ms[i]]

CollapseWhitespace(m) ==
  Rewritten(m, [m.text EXCEPT !.form = "plain"])

Marker == Message("system", Text("omitted", 69, "plain"), FALSE)

\* Mutant of TruncateHistory: what is kept is the end of the whole list.
TruncateEverything(ms, tokens) ==
  IF (Len(ms) <= TurnLimit /\ tokens <= TokenBudget) \/ Len(ms) <= KeepRecent THEN ms
    ELSE <<Marker>> \o SubSeq(ms, Len(ms) - KeepRecent + 1, Len(ms))

\* The tokens are those of the prompt as it came.
TruncateHistory(ms, tokens) ==
  LET system == {i \in DOMAIN ms : IsSystem(ms[i])}
      turns  == Where(ms, DOMAIN ms \ system)
      recent == SubSeq(turns, Len(turns) - KeepRecent + 1, Len(turns))
  IN  IF (Len(ms) <= TurnLimit /\ tokens <= TokenBudget) \/ Len(turns) <= KeepRecent THEN ms
        ELSE Where(ms, system) \o <<Marker>> \o recent

Each(ms, Op(_)) == [i \in DOMAIN ms |-> Op(ms[i])]

Compress(ms) ==
  TruncateHistory(
    Each(TrimStaleToolResults(ReferenceDuplicateBlocks(Each(DedupeSystemMessages(ms), MinifyJson))),
         CollapseWhitespace),
    EstimatedTokens(ms))

\* The system texts together, and the first user message.
AffinityKey(ms) ==
  LET asked == SelectSeq(ms, LAMBDA m : m.role = "user")
      system == SelectSeq(ms, IsSystem)
  IN  <<[i \in DOMAIN system |-> system[i].text.body],
        IF asked = <<>> THEN "" ELSE asked[1].text.body>>

-----------------------------------------------------------------------------
(* A conversation                                                          *)

PromptInit ==
  /\ private \in BOOLEAN
  /\ history = <<>> /\ sent = <<>>
  /\ pins = {}
  /\ waiting = "user"

\* The client sends its whole history with what is new.  A conversation opens with its
\* instructions, and a framework may send them again.
Sends(ms) ==
  /\ Len(history) + Len(ms) < MaxMessages
  /\ history' = history \o ms
  /\ sent' = IF private THEN history' ELSE Compress(history')
  /\ pins' = pins \cup {AffinityKey(sent')}
  /\ waiting' = "model"
  /\ UNCHANGED private

AsksMore ==
  /\ waiting = "user"
  /\ \E q \in Question :
       (history # <<>> /\ Sends(<<q>>)) \/ \E s \in Instruction : Sends(<<s, q>>)

ToolReturns == waiting = "tool" /\ \E o \in Output : Sends(<<o>>)

\* The answer, a text or a tool call.
Replies ==
  /\ waiting = "model"
  /\ history' = Append(history, Message("assistant", Text("reply", 20, "plain"), FALSE))
  /\ waiting' \in {"user", "tool"}
  /\ UNCHANGED <<private, sent, pins>>

Converse == AsksMore \/ ToolReturns \/ Replies

-----------------------------------------------------------------------------
(* Properties                                                              *)

\* What a list of messages instructs, each once and in the order it first came; the marker does
\* not count.
Instructs(m) == IsSystem(m) /\ m.text.body # "omitted"

Instructed(ms) ==
  Where([i \in DOMAIN ms |-> ms[i].text.body],
        {i \in DOMAIN ms :
           Instructs(ms[i])
           /\ ~\E j \in 1 .. i - 1 : Instructs(ms[j]) /\ ms[j].text.body = ms[i].text.body})

\* Every instruction arrives, in order and whole, however long the conversation is; only the
\* marker is added to them (compressor.rs dedupe_system_messages, truncate_history).
InstructionsArrive ==
  /\ Instructed(sent) = Instructed(history)
  /\ \A m \in ToSet(sent) : IsSystem(m) => ~m.text.cut /\ m.text.refers = 0

\* The last StaleAge messages of the history that was sent.
Fresh == IF waiting = "model" THEN {i \in DOMAIN history : i > Len(history) - StaleAge} ELSE {}

\* A tool result among the last messages arrives whole unless it is a repeat
\* (compressor.rs trim_stale_tool_results, truncate_history).
FreshOutputWhole ==
  \A i \in Fresh :
    /\ history[i].role = "tool"
    /\ \A j \in 1 .. i - 1 : history[j].text.body # history[i].text.body
    => \E m \in ToSet(sent) : m.role = "tool" /\ m.text.body = history[i].text.body /\ ~m.text.cut

\* Compression leaves what the model must go by: its instructions and the latest results.
PromptSafety == InstructionsArrive /\ FreshOutputWhole

================================================================================
