-------------------------------- MODULE Streams --------------------------------
(***************************************************************************)
(* One streamed answer, from the provider's socket to the client's:        *)
(* reads that cut the bytes anywhere (providers/sse.rs, openai.rs          *)
(* open_stream), the adapters, the generator of stream_chat or             *)
(* stream_messages, which yields one event per poll, and the metering at   *)
(* its end.  How a stream is opened is in ProviderCalls.                   *)
(*                                                                         *)
(* Text and arguments are pieces, numbered as the provider makes them.     *)
(* `said` and `made` keep what it made, `client` what the client got.      *)
(***************************************************************************)
EXTENDS Naturals, Sequences, FiniteSets, SequencesExt, Functions

CONSTANT None

-----------------------------------------------------------------------------
(***************************************************************************)
(* What the adapters make of the events a provider streams                 *)
(* (providers/openai.rs, anthropic.rs and google.rs, parse_stream_chunk),  *)
(* and how a chunk of another provider is written for a chat client        *)
(* (routes/openai_compat.rs to_openai_stream_chunk).  A payload is one     *)
(* `data:` line: its format and event name, its text, fragments of calls,  *)
(* a finish reason, token counts.                                          *)
(***************************************************************************)

Shape == {"openai", "anthropic", "google"}

\* A fragment of call i; the fragment that opens it has its id or its name.
Fragment(i, opens, pieces) == [index |-> i, opens |-> opens, pieces |-> pieces]

Payload(format, event, words, calls, reason, usage) ==
  [format |-> format, event |-> event, words |-> words, calls |-> calls, reason |-> reason,
   usage |-> usage]

\* At most one call fragment: the first of the array.
FirstCall(p) == IF p.calls = <<>> THEN None ELSE p.calls[1]

\* A Gemini call is known by its position among the parts of its payload, the text's first.
CallByPosition(p) ==
  IF p.calls = <<>> THEN None ELSE [p.calls[1] EXCEPT !.index = Len(p.words)]

StreamChunk(p, call) ==
  [delta |-> p.words, call |-> call, reason |-> p.reason, usage |-> p.usage, raw |-> p]

Empty(chunk) == chunk.delta = <<>> /\ chunk.call = None /\ ~chunk.reason /\ chunk.usage = None

\* Anthropic names its events; all but these say nothing a chunk can carry.
Carried == {"content_block_delta", "content_block_start", "message_delta", "message_start"}

\* The chunk of a payload, or None: what is empty, malformed or unknown is dropped, an error
\* event of the provider included.
ParseStreamChunk(p) ==
  LET chunk == StreamChunk(p, IF p.format = "google" THEN CallByPosition(p) ELSE FirstCall(p))
  IN  IF Empty(chunk) \/ (p.format = "anthropic" /\ p.event \notin Carried) THEN None ELSE chunk

\* The chunk as an OpenAI payload.
ToOpenAiStreamChunk(chunk) ==
  Payload("openai", "chunk", chunk.delta, IF chunk.call = None THEN <<>> ELSE <<chunk.call>>,
          chunk.reason, None)

\* The provider's own payload where it is in the client's format.
ChatPayload(chunk) == IF chunk.raw.format = "openai" THEN chunk.raw ELSE ToOpenAiStreamChunk(chunk)

-----------------------------------------------------------------------------
(***************************************************************************)
(* The content blocks of a streamed message (routes/anthropic_compat.rs    *)
(* BlockTracker): one chunk becomes the events that close the open block,  *)
(* open another and carry the delta.                                       *)
(***************************************************************************)

Event(name, index, kind, pieces) ==
  [name |-> name, index |-> index, kind |-> kind, pieces |-> pieces]

\* The map f with x mapped to y.
Put(f, x, y) == [z \in DOMAIN f \cup {x} |-> IF z = x THEN y ELSE f[z]]

\* open: the kind of block; source: the upstream index of an open call; current: its block;
\* next: the next block; blocks: the blocks of upstream calls.
NoBlocks == [open |-> "none", source |-> 0, current |-> 0, next |-> 0, blocks |-> <<>>]

CloseEvents(t) ==
  IF t.open = "none" THEN <<>> ELSE <<Event("content_block_stop", t.current, "none", <<>>)>>

Close(t) ==
  [t EXCEPT !.open = "none",
            !.blocks = IF t.open = "tool" THEN Restrict(@, DOMAIN @ \ {t.source}) ELSE @]

Assigned(t, source) == IF source \in DOMAIN t.blocks THEN t.blocks[source] ELSE t.next

DeltaEvents(index, pieces) ==
  IF pieces = <<>> THEN <<>> ELSE <<Event("content_block_delta", index, "none", pieces)>>

Continuing(t, chunk) ==
  IF chunk.call # None THEN t.open = "tool" /\ t.source = chunk.call.index
  ELSE t.open = "text"

OpenBlock(t, chunk) ==
  LET closed == Close(t)
      source == IF chunk.call # None THEN chunk.call.index ELSE 0
      index  == IF chunk.call # None THEN Assigned(closed, source) ELSE closed.next
  IN  [open |-> IF chunk.call # None THEN "tool" ELSE "text",
       source |-> source,
       current |-> index,
       next |-> IF index = closed.next THEN closed.next + 1 ELSE closed.next,
       blocks |-> IF chunk.call # None THEN Put(closed.blocks, source, index) ELSE closed.blocks]

\* Nothing to show: only a reason or token counts.
Silent(chunk) == chunk.call = None /\ chunk.delta = <<>>

Reopens(t, chunk) == ~Silent(chunk) /\ ~Continuing(t, chunk)

Tracked(t, chunk) == IF Reopens(t, chunk) THEN OpenBlock(t, chunk) ELSE t

\* Mutant of EventsFor: the block that was open is not closed first.
EventsForUnclosed(t, chunk) ==
  LET now == Tracked(t, chunk)
  IN  (IF Reopens(t, chunk)
         THEN <<Event("content_block_start", now.current, now.open, <<>>)>> ELSE <<>>)
      \o DeltaEvents(now.current, IF chunk.call # None THEN chunk.call.pieces ELSE chunk.delta)

\* The text of a chunk that also carries a call is passed over.
EventsFor(t, chunk) ==
  LET now == Tracked(t, chunk)
  IN  (IF Reopens(t, chunk)
         THEN CloseEvents(t) \o <<Event("content_block_start", now.current, now.open, <<>>)>>
         ELSE <<>>)
      \o DeltaEvents(now.current, IF chunk.call # None THEN chunk.call.pieces ELSE chunk.delta)

-----------------------------------------------------------------------------
(* The stream *)

CONSTANTS
  MaxPieces,   \* bound: pieces the provider makes
  MaxCalls,    \* bound: tool calls it makes
  MaxOnWire    \* bound: halves of lines in flight when the provider writes

ASSUME StreamAssumption ==
  MaxPieces \in Nat /\ MaxCalls \in Nat /\ MaxOnWire \in Nat /\ None \notin Nat

VARIABLES
  surface,  \* the endpoint: "chat" or "messages"
  shape,    \* the format of the provider that was chosen
  said,     \* the provider's text
  made,     \* its tool calls: the arguments of each
  written,  \* how many pieces that is
  turn,     \* what the provider is doing
  blocks,   \* content blocks it has opened, in the format that counts them
  wire,     \* the halves of `data:` lines in flight; the second half has the newline
  link,     \* the connection: "up", "ended", "broken"
  buffer,   \* SseDecoder.buffer: the half that waits for its other half
  queue,    \* chunks decoded by the last read
  tracker,  \* BlockTracker
  out,      \* events the generator has yet to yield
  at,       \* where the generator is
  heard,    \* what it knows: token counts, pieces passed on, whether a reason came
  failed,   \* stream_error
  usage,    \* the usage event, or None
  told,     \* what the breaker was told at the end, or None
  client    \* what the client has put together

provider   == <<said, made, written, turn, blocks>>
decoder    == <<wire, buffer, queue>>
streamVars == <<surface, shape, provider, link, decoder, tracker, out, at, heard, failed,
              usage, told, client>>

NoCounts == [input |-> 0, output |-> 0]

StreamInit ==
  /\ surface \in {"chat", "messages"}
  /\ shape \in Shape
  /\ said = <<>> /\ made = <<>> /\ written = 0 /\ turn = "start" /\ blocks = 0
  /\ wire = <<>> /\ link = "up" /\ buffer = <<>> /\ queue = <<>>
  /\ tracker = NoBlocks
  /\ out = IF surface = "messages" THEN <<Event("message_start", 0, "none", <<>>)>> ELSE <<>>
  /\ at = "streaming"
  /\ heard = [counts |-> None, pieces |-> 0, reason |-> FALSE]
  /\ failed = FALSE
  /\ usage = None /\ told = None
  /\ client = [phase |-> "before", open |-> None, blocks |-> <<>>, failed |-> FALSE]

-----------------------------------------------------------------------------
(* The provider                                                            *)

\* A line for each payload, in two halves.
Halves(payloads) ==
  [i \in 1 .. 2 * Len(payloads) |-> [payload |-> payloads[(i + 1) \div 2], ends |-> i % 2 = 0]]

Writes(payloads) ==
  /\ link = "up"
  /\ Len(wire) <= MaxOnWire
  /\ wire' = wire \o Halves(payloads)
  /\ UNCHANGED <<surface, shape, buffer, queue, tracker, out, at, heard, failed, usage, told, client>>

Chunk(words, calls) == Payload(shape, "chunk", words, calls, FALSE, None)
Named(event, words, calls) == Payload(shape, event, words, calls, FALSE, None)

\* The first event: a role, or the input tokens.
Start ==
  /\ turn = "start"
  /\ turn' = "idle"
  /\ Writes(CASE shape = "openai" -> <<Chunk(<<>>, <<>>)>>
              [] shape = "anthropic" ->
                   <<Payload(shape, "message_start", <<>>, <<>>, FALSE, [input |-> 1, output |-> 0])>>
              [] OTHER -> <<>>)
  /\ UNCHANGED <<said, made, written, blocks, link>>

Say ==
  /\ turn \in {"idle", "text", "call"}
  /\ written < MaxPieces
  /\ said' = Append(said, written + 1)
  /\ written' = written + 1
  /\ turn' = "text"
  /\ LET words == <<written + 1>>
     IN  IF shape = "anthropic"
           THEN IF turn = "text"
                  THEN /\ Writes(<<Named("content_block_delta", words, <<>>)>>)
                       /\ UNCHANGED blocks
                  ELSE /\ Writes(<<Named("content_block_start", <<>>, <<>>),
                                   Named("content_block_delta", words, <<>>)>>)
                       /\ blocks' = blocks + 1
           ELSE Writes(<<Chunk(words, <<>>)>>) /\ UNCHANGED blocks
  /\ UNCHANGED <<made, link>>

\* OpenAI numbers the calls, Anthropic the blocks of text and of calls together.
Call ==
  /\ shape # "google"
  /\ turn \in {"idle", "text", "call"}
  /\ Len(made) < MaxCalls
  /\ made' = Append(made, <<>>)
  /\ turn' = "call"
  /\ IF shape = "anthropic"
       THEN /\ Writes(<<Named("content_block_start", <<>>, <<Fragment(blocks, TRUE, <<>>)>>)>>)
            /\ blocks' = blocks + 1
       ELSE /\ Writes(<<Chunk(<<>>, <<Fragment(Len(made), TRUE, <<>>)>>)>>)
            /\ UNCHANGED blocks
  /\ UNCHANGED <<said, written, link>>

Argue ==
  /\ turn = "call"
  /\ shape # "google"
  /\ written < MaxPieces
  /\ made' = [made EXCEPT ![Len(made)] = Append(@, written + 1)]
  /\ written' = written + 1
  /\ LET piece == <<written + 1>>
     IN  Writes(IF shape = "anthropic"
                  THEN <<Named("content_block_delta", <<>>, <<Fragment(blocks - 1, FALSE, piece)>>)>>
                  ELSE <<Chunk(<<>>, <<Fragment(Len(made) - 1, FALSE, piece)>>)>>)
  /\ UNCHANGED <<said, turn, blocks, link>>

\* Gemini makes its calls whole, several in one payload and beside text if it likes.
CallWhole ==
  /\ shape = "google"
  /\ turn \in {"idle", "text", "call"}
  /\ \E text \in {0, 1}, calls \in 1 .. MaxCalls - Len(made) :
       LET args == [c \in 1 .. calls |-> <<written + text + c>>]
           words == IF text = 1 THEN <<written + 1>> ELSE <<>>
       IN  /\ written + text + calls <= MaxPieces
           /\ said' = said \o words
           /\ made' = made \o args
           /\ written' = written + text + calls
           /\ Writes(<<Chunk(words, [c \in 1 .. calls |-> Fragment(0, TRUE, args[c])])>>)
  /\ turn' = "call"
  /\ UNCHANGED <<blocks, link>>

\* The reason, the token counts and the terminator, and the connection closes.  The last
\* line may lack its newline.
Finish ==
  /\ turn \in {"idle", "text", "call"}
  /\ turn' = "finished"
  /\ link' = "ended"
  /\ LET counts == [input |-> IF shape = "anthropic" THEN 0 ELSE 1, output |-> written]
         last == CASE shape = "openai" -> <<Payload(shape, "chunk", <<>>, <<>>, TRUE, None),
                                            Payload(shape, "chunk", <<>>, <<>>, FALSE, counts),
                                            Chunk(<<>>, <<>>)>>
                   [] shape = "anthropic" ->
                        <<Payload(shape, "message_delta", <<>>, <<>>, TRUE, counts),
                          Named("message_stop", <<>>, <<>>)>>
                   [] OTHER -> <<Payload(shape, "chunk", <<>>, <<>>, TRUE, counts)>>
     IN  /\ Len(wire) <= MaxOnWire
         /\ \E newline \in BOOLEAN :
              wire' = wire \o (IF newline THEN Halves(last) ELSE Front(Halves(last)))
  /\ UNCHANGED <<surface, shape, said, made, written, blocks, buffer, queue, tracker, out, at, heard,
                 failed, usage, told, client>>

\* The provider reports an error as an event of the stream, and closes.
ReportError ==
  /\ turn \in {"idle", "text", "call"}
  /\ turn' = "errored"
  /\ link' = "ended"
  /\ wire' = wire \o Halves(<<Named("error", <<>>, <<>>)>>)
  /\ UNCHANGED <<surface, shape, said, made, written, blocks, buffer, queue, tracker, out, at, heard,
                 failed, usage, told, client>>

\* The connection breaks, or the timeout of the call runs out: what is in flight may be lost.
Break ==
  /\ link = "up"
  /\ link' = "broken"
  /\ \E n \in 0 .. Len(wire) : wire' = SubSeq(wire, 1, n)
  /\ turn' = "broken"
  /\ UNCHANGED <<surface, shape, said, made, written, blocks, buffer, queue, tracker, out, at, heard,
                 failed, usage, told, client>>

-----------------------------------------------------------------------------
(* The decoder                                                             *)

\* The line that half i completes: a newline with no `data:` before it makes none.
Completes(halves, i) == i > 1 /\ halves[i].ends /\ ~halves[i - 1].ends

\* What there is of a sequence of things that may be None.
Kept(s) ==
  LET upTo[i \in 0 .. Len(s)] ==
        IF i = 0 THEN <<>> ELSE IF s[i] = None THEN upTo[i - 1] ELSE Append(upTo[i - 1], s[i])
  IN  upTo[Len(s)]

\* The chunks of the lines completed by what was read.
Decoded(halves) ==
  Kept([i \in 1 .. Len(halves) |->
          IF Completes(halves, i) THEN ParseStreamChunk(halves[i].payload) ELSE None])

\* Mutant of Rest: the buffer is emptied with every read.
RestDropped(halves) == <<>>

\* What follows the last newline.
Rest(halves) == IF Last(halves).ends THEN <<>> ELSE <<Last(halves)>>

\* The generator asks for a chunk and the socket has bytes: as many as happen to be there.
Read ==
  /\ at = "streaming"
  /\ out = <<>> /\ queue = <<>>
  /\ \E n \in 1 .. Len(wire) :
       LET halves == buffer \o SubSeq(wire, 1, n)
       IN  /\ wire' = SubSeq(wire, n + 1, Len(wire))
           /\ buffer' = Rest(halves)
           /\ queue' = Decoded(halves)
  /\ UNCHANGED <<surface, shape, provider, link, tracker, out, at, heard, failed, usage, told,
                 client>>

-----------------------------------------------------------------------------
(* The generator                                                           *)

\* Counts that are zero leave what was heard before.
Merge(heardCounts, counts) ==
  LET known == IF heardCounts = None THEN NoCounts ELSE heardCounts
  IN  IF counts = None THEN heardCounts
      ELSE [u \in {"input", "output"} |-> IF counts[u] > 0 THEN counts[u] ELSE known[u]]

\* One chunk: its events, in the format of the endpoint.
Pass ==
  /\ at = "streaming"
  /\ out = <<>> /\ queue # <<>>
  /\ LET chunk == Head(queue)
     IN  /\ IF surface = "messages"
              THEN out' = EventsFor(tracker, chunk) /\ tracker' = Tracked(tracker, chunk)
              ELSE out' = <<ChatPayload(chunk)>> /\ UNCHANGED tracker
         /\ heard' = [counts |-> Merge(heard.counts, chunk.usage),
                      pieces |-> heard.pieces + Len(chunk.delta),
                      reason |-> heard.reason \/ chunk.reason]
  /\ queue' = Tail(queue)
  /\ UNCHANGED <<surface, shape, provider, link, wire, buffer, at, failed, usage, told, client>>

\* The events that end an answer, after an error as well.
Terminator ==
  IF surface = "messages"
    THEN CloseEvents(tracker) \o <<Event("message_delta", 0, "none", <<>>),
                                   Event("message_stop", 0, "none", <<>>)>>
    ELSE <<Event("[DONE]", 0, "none", <<>>)>>

\* The byte stream is over, cleanly or with an error.  What the decoder still holds is lost:
\* nothing calls its `finish`.
EndOfStream ==
  /\ at = "streaming"
  /\ out = <<>> /\ queue = <<>> /\ wire = <<>>
  /\ link # "up"
  /\ failed' = (link = "broken")
  /\ out' = (IF link = "broken" THEN <<Event("error", 0, "none", <<>>)>> ELSE <<>>) \o Terminator
  /\ tracker' = Close(tracker)
  /\ at' = "closing"
  /\ UNCHANGED <<surface, shape, provider, link, decoder, heard, usage, told, client>>

\* The counts of the event.  Where none were reported the tokens are estimated from the
\* text; /v1/messages does so for each count, chat only when it has heard of none.
Billed ==
  LET reported == IF heard.counts = None THEN NoCounts ELSE heard.counts
      lacks(u) == IF surface = "messages" THEN reported[u] = 0 ELSE heard.counts = None
  IN  [output |-> IF lacks("output") THEN (IF heard.pieces > 0 THEN heard.pieces ELSE 1)
                  ELSE reported.output,
       estimated |-> lacks("input") \/ lacks("output")]

\* Mutant of Meter: the event of a stream that failed is left out.
MeterUnlessFailed ==
  /\ at = "closing"
  /\ out = <<>>
  /\ usage' = IF failed THEN None ELSE Billed
  /\ told' = IF failed THEN "failure" ELSE "success"
  /\ at' = "done"
  /\ UNCHANGED <<surface, shape, provider, link, decoder, tracker, out, heard, failed, client>>

\* The code after the last yield, which a poll after the terminator runs.
Meter ==
  /\ at = "closing"
  /\ out = <<>>
  /\ usage' = Billed
  /\ told' = IF failed THEN "failure" ELSE "success"
  /\ at' = "done"
  /\ UNCHANGED <<surface, shape, provider, link, decoder, tracker, out, heard, failed, client>>

-----------------------------------------------------------------------------
(* The client                                                              *)

\* A client of the Messages API, which takes each event at its word.
OnEvent(c, e) ==
  CASE e.name = "message_start" -> [c EXCEPT !.phase = "message"]
    [] e.name = "content_block_start" ->
         [c EXCEPT !.open = e.index,
                   !.blocks = Put(@, e.index, [kind |-> e.kind, pieces |-> <<>>])]
    [] e.name = "content_block_delta" -> [c EXCEPT !.blocks[e.index].pieces = @ \o e.pieces]
    [] e.name = "content_block_stop" -> [c EXCEPT !.open = None]
    [] e.name = "message_delta" -> [c EXCEPT !.phase = "delta"]
    [] e.name = "message_stop" -> [c EXCEPT !.phase = "stopped"]
    [] OTHER -> [c EXCEPT !.failed = TRUE]

\* A chat client gathers the text, and the fragments of each call under its index.
Gather(c, key, kind, pieces) ==
  LET old == IF key \in DOMAIN c.blocks THEN c.blocks[key].pieces ELSE <<>>
  IN  [c EXCEPT !.blocks = Put(@, key, [kind |-> kind, pieces |-> old \o pieces])]

GatherCall(c, call) == Gather(c, call.index + 1, "tool", call.pieces)

\* It finds no choices in bytes of another format.
OnData(c, p) ==
  IF p.format # "openai" THEN c
  ELSE FoldLeft(GatherCall, IF p.words = <<>> THEN c ELSE Gather(c, 0, "text", p.words), p.calls)

OnChat(c, e) ==
  CASE "name" \notin DOMAIN e -> OnData(c, e)
    [] e.name = "error" -> [c EXCEPT !.failed = TRUE]
    [] OTHER -> [c EXCEPT !.phase = "stopped"]

\* The client polls, and the generator yields.
Take ==
  /\ at \in {"streaming", "closing"}
  /\ out # <<>>
  /\ client' = IF surface = "messages" THEN OnEvent(client, Head(out)) ELSE OnChat(client, Head(out))
  /\ out' = Tail(out)
  /\ UNCHANGED <<surface, shape, provider, link, decoder, tracker, at, heard, failed, usage, told>>

\* The client hangs up: the generator is dropped where it is suspended.
HangUp ==
  /\ at \in {"streaming", "closing"}
  /\ at' = "dropped"
  /\ UNCHANGED <<surface, shape, provider, link, decoder, tracker, out, heard, failed, usage,
                 told, client>>

-----------------------------------------------------------------------------

Gateway == Read \/ Pass \/ EndOfStream \/ Meter \/ Take

Upstream == Start \/ Say \/ Call \/ Argue \/ CallWhole \/ Finish \/ ReportError \/ Break

StreamNext == Gateway \/ Upstream \/ HangUp

-----------------------------------------------------------------------------
(* Properties                                                              *)

StreamTypeOK ==
  /\ surface \in {"chat", "messages"} /\ shape \in Shape
  /\ turn \in {"start", "idle", "text", "call", "finished", "errored", "broken"}
  /\ written \in 0 .. MaxPieces /\ Len(made) <= MaxCalls
  /\ link \in {"up", "ended", "broken"}
  /\ \A i \in DOMAIN buffer : i = 1 /\ ~buffer[i].ends
  /\ tracker.open \in {"none", "text", "tool"}
  /\ tracker.open = "tool" <=> tracker.blocks # <<>>
  /\ at \in {"streaming", "closing", "done", "dropped"}
  /\ told \in {None, "success", "failure"}
  /\ client.phase \in {"before", "message", "delta", "stopped"}

\* The blocks of a kind, in the order of their keys.
GotBlocks(kind) ==
  LET keys == {k \in DOMAIN client.blocks : client.blocks[k].kind = kind}
  IN  [i \in 1 .. Cardinality(keys) |->
         client.blocks[CHOOSE k \in keys : Cardinality({l \in keys : l < k}) = i - 1].pieces]

GotText  == FlattenSeq(GotBlocks("text"))
GotCalls == GotBlocks("tool")

\* The client has been sent all it will be.
Answered == at \in {"closing", "done"} /\ out = <<>>

\* However the socket cuts the bytes and whichever of the two endpoints renders which of
\* the formats, the client puts together what the provider said, in order, and has all of
\* it in the end, the arguments of each call with that call.  Gemini's calls are excepted,
\* and the text it sends beside them to the Messages API (sse.rs, parse_stream_chunk,
\* to_openai_stream_chunk, BlockTracker).
AnswerWhole ==
  /\ shape # "google" \/ surface = "chat" =>
       /\ IsPrefix(GotText, said)
       /\ Answered /\ turn = "finished" => GotText = said
  /\ shape # "google" =>
       /\ \A c \in DOMAIN GotCalls : IsPrefix(GotCalls[c], made[c])
       /\ Answered /\ turn = "finished" => GotCalls = made

\* An answer the provider finished is billed by the provider's count, or is marked as an
\* estimate (stream_chat, stream_messages, the merge of usage chunks).
BilledAsReported ==
  usage # None /\ turn = "finished" => usage.output = written \/ usage.estimated

\* What the client has of a streamed answer and what is billed for it.
StreamSafety == AnswerWhole /\ BilledAsReported

\* Every stream whose client stays is brought to its terminator and metered, whatever the
\* provider does; a connection that broke is seen as an error by the client and by the
\* breaker (stream_chat, stream_messages).  One whose client leaves is dropped before it is metered.
StreamCloses ==
  at = "streaming" ~>
    \/ at = "dropped"
    \/ /\ usage # None /\ client.phase = "stopped"
       /\ link = "broken" => client.failed /\ told = "failure"

\* What the client of the Messages API has been sent.
MessagePhase == IF surface = "messages" THEN client.phase ELSE "before"
MessageOpen  == IF surface = "messages" THEN client.open ELSE None
MessageSizes ==
  IF surface = "messages"
    THEN [i \in DOMAIN client.blocks |-> Len(client.blocks[i].pieces)] ELSE <<>>

Protocol ==
  INSTANCE MessageProtocol WITH
    Closed <- None, phase <- MessagePhase, open <- MessageOpen, sizes <- MessageSizes

\* It is sent one legal sequence of events, whatever the provider's format, and each delta goes
\* to the block that is open.
MessageOrder == Protocol!Spec

===============================================================================
