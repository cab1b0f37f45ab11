----------------------------- MODULE SemanticCache -----------------------------
(***************************************************************************)
(* The answers given again to a request worded differently: the semantic   *)
(* cache (cache/semantic.rs, cache/qdrant_grpc.rs) behind the exact one    *)
(* (cache/fingerprint.rs, cache/exact.rs), and the embedding it goes by    *)
(* (cache/embed.rs, cache/onnx_embed.rs), as execute_with_headroom asks    *)
(* and fills them for the requests of several organisations.               *)
(*                                                                         *)
(* A request is [org, wording, style, picture, varied]: `wording` is its   *)
(* text, `style` its model and sampling parameters, `varied` says that it  *)
(* has tools or a temperature above the ceiling.  An answer is the number  *)
(* of the provider call that gave it.  The durable tier is keyed like the  *)
(* exact one and left to ResponseCaches.                                   *)
(***************************************************************************)
EXTENDS Naturals, Sequences, FiniteSets, SequencesExt

CONSTANTS
  Asker,       \* requests in flight
  Org,
  Requests,    \* the requests that may come
  Similarity,  \* Similarity[v, w], the cosine of two wordings' embeddings in percent
  Domain,      \* Domain[w], the task domain the classifier sees
  Shrunk,      \* Shrunk[w], the wording after compression
  Base,        \* semantic_similarity_threshold, in percent
  MaxCalls,    \* bound: calls of a provider
  None

Cosine(v, w) == Similarity[v, w]

ASSUME SimilarAssumption ==
  /\ Base \in 0 .. 100 /\ MaxCalls \in Nat
  /\ \A q \in Requests :
       /\ q.org \in Org
       /\ Cosine(q.wording, q.wording) = 100
       /\ Domain[q.wording] \in {"code", "reasoning", "language", "general"}

VARIABLES
  private,   \* the organisations that retain nothing
  exact,     \* the exact cache: [key, answer]
  vectors,   \* each organisation's collection: [wording, answer]
  at,        \* where each asker's request is
  ask,       \* the request, and whether its context retains nothing
  embedded,  \* the embedding it paid for
  found,     \* the answer it is given
  made       \* what each answer was made for

similarVars == <<private, exact, vectors, at, ask, embedded, found, made>>

Kept == UNION {vectors[o] : o \in Org}

SimilarTypeOK ==
  /\ private \subseteq Org
  /\ \A e \in exact : e.answer \in DOMAIN made
  /\ \A v \in Kept : v.answer \in DOMAIN made
  /\ at \in [Asker -> {"idle", "exact", "embed", "search", "call", "store", "upsert", "answered"}]
  /\ \A a \in Asker : found[a] \in 0 .. Len(made) /\ (at[a] = "answered" => found[a] # 0)

SimilarInit ==
  /\ private = {} /\ exact = {} /\ vectors = [o \in Org |-> {}] /\ made = <<>>
  /\ at = [a \in Asker |-> "idle"]
  /\ ask = [a \in Asker |-> None]
  /\ embedded = [a \in Asker |-> FALSE]
  /\ found = [a \in Asker |-> 0]

-----------------------------------------------------------------------------
(* What is asked for                                                       *)

\* cacheability
IsCacheable(q) == ~q.private /\ ~q.varied

\* compute: pictures and tools are no part of the text.
Fingerprint(q) == [org |-> q.org, wording |-> q.wording, style |-> q.style]

CacheKey(q) == Fingerprint(q)

AdaptiveThreshold(domain) ==
  CASE domain = "code" -> IF Base > 96 THEN Base ELSE 96
    [] domain = "reasoning" -> IF Base > 92 THEN Base ELSE 92
    [] OTHER -> IF Base < 82 THEN 82 ELSE IF Base > 88 THEN 88 ELSE Base

\* search: the nearest of those within the threshold, of the organisation's own collection.
Near(q) == {v \in vectors[q.org] : Cosine(v.wording, q.wording) >= AdaptiveThreshold(Domain[q.wording])}

Nearest(q) ==
  {v \in Near(q) :
     \A w \in Near(q) : Cosine(w.wording, q.wording) <= Cosine(v.wording, q.wording)}

-----------------------------------------------------------------------------
(* A request                                                               *)

Goes(a, from, to) == at[a] = from /\ at' = [at EXCEPT ![a] = to]

\* A context is let in with the settings of its moment.
Asks(a, q) ==
  /\ Goes(a, "idle", "exact")
  /\ ask' = [ask EXCEPT ![a] =
       [org |-> q.org, wording |-> q.wording, style |-> q.style, picture |-> q.picture,
        varied |-> q.varied, private |-> q.org \in private]]
  /\ UNCHANGED <<private, exact, vectors, embedded, found, made>>

Hits(a) == {e \in exact : IsCacheable(ask[a]) /\ e.key = CacheKey(ask[a])}

\* [5a]; a store that fails is a miss.
ExactHit(a) ==
  /\ Goes(a, "exact", "answered")
  /\ \E e \in Hits(a) : found' = [found EXCEPT ![a] = e.answer]
  /\ UNCHANGED <<private, exact, vectors, ask, embedded, made>>

ExactMiss(a) ==
  /\ Goes(a, "exact", IF IsCacheable(ask[a]) THEN "embed" ELSE "call")
  /\ UNCHANGED <<private, exact, vectors, ask, embedded, found, made>>

\* embed: one of the embedding models answers.
Embeds(a) ==
  /\ Goes(a, "embed", "search")
  /\ embedded' = [embedded EXCEPT ![a] = TRUE]
  /\ UNCHANGED <<private, exact, vectors, ask, found, made>>

\* No model does, or the look-up is not worth its time (semantic_lookup_worth_it).
NoEmbedding(a) ==
  /\ Goes(a, "embed", "call")
  /\ UNCHANGED <<private, exact, vectors, ask, embedded, found, made>>

Stored(q, n) == {e \in exact : e.key # CacheKey(q)} \cup {[key |-> CacheKey(q), answer |-> n]}

\* Mutant of SemanticHit: the new wording joins the collection as well.
SemanticHitJoins(a) ==
  /\ Goes(a, "search", "answered")
  /\ \E v \in Nearest(ask[a]) :
       /\ found' = [found EXCEPT ![a] = v.answer]
       /\ exact' = Stored(ask[a], v.answer)
       /\ vectors' = [vectors EXCEPT ![ask[a].org] =
            @ \cup {[wording |-> ask[a].wording, answer |-> v.answer]}]
  /\ UNCHANGED <<private, ask, embedded, made>>

\* [5b]: the answer is also kept under this wording's own fingerprint.
SemanticHit(a) ==
  /\ Goes(a, "search", "answered")
  /\ \E v \in Nearest(ask[a]) :
       /\ found' = [found EXCEPT ![a] = v.answer]
       /\ exact' = Stored(ask[a], v.answer)
  /\ UNCHANGED <<private, vectors, ask, embedded, made>>

\* Nothing is near, or the vector store fails.
SemanticMiss(a) ==
  /\ Goes(a, "search", "call")
  /\ UNCHANGED <<private, exact, vectors, ask, embedded, found, made>>

Provide(a) ==
  /\ Goes(a, "call", "store") /\ Len(made) < MaxCalls
  /\ made' = Append(made, ask[a])
  /\ found' = [found EXCEPT ![a] = Len(made) + 1]
  /\ UNCHANGED <<private, exact, vectors, ask, embedded>>

Finished(a) ==
  /\ ask' = [ask EXCEPT ![a] = None]
  /\ embedded' = [embedded EXCEPT ![a] = FALSE]
  /\ found' = [found EXCEPT ![a] = 0]

ProviderFails(a) ==
  /\ Goes(a, "call", "idle") /\ Finished(a) /\ UNCHANGED <<private, exact, vectors, made>>

\* By now the request is the compressed one; its style and cacheability are as they were.
Compressed(q) == [q EXCEPT !.wording = Shrunk[q.wording]]

\* [5a], a store that fails keeps nothing.
PutExact(a) ==
  /\ Goes(a, "store", "upsert")
  /\ exact' \in {exact} \cup
       (IF IsCacheable(ask[a]) THEN {Stored(Compressed(ask[a]), found[a])} ELSE {})
  /\ UNCHANGED <<private, vectors, ask, embedded, found, made>>

\* [5b], for the embedding already paid for, if the vector store takes it.
PutSemantic(a) ==
  /\ Goes(a, "upsert", "answered")
  /\ vectors' \in {vectors} \cup
       (IF embedded[a]
          THEN {[vectors EXCEPT ![ask[a].org] =
                   @ \cup {[wording |-> ask[a].wording, answer |-> found[a]]}]}
          ELSE {})
  /\ UNCHANGED <<private, exact, ask, embedded, found, made>>

Leaves(a) ==
  /\ Goes(a, "answered", "idle") /\ Finished(a) /\ UNCHANGED <<private, exact, vectors, made>>

-----------------------------------------------------------------------------
(* What happens around them                                                *)

\* update_org: the setting, then the exact entries; the collection is not dropped.
Retain(o, nothing) ==
  /\ private' = IF nothing THEN private \cup {o} ELSE private \ {o}
  /\ exact' = {e \in exact : ~nothing \/ e.key.org # o}
  /\ UNCHANGED <<vectors, at, ask, embedded, found, made>>

\* An entry's time to live passes; a restart empties the in-memory collections.
Expire ==
  /\ \E e \in exact : exact' = exact \ {e}
  /\ UNCHANGED <<private, vectors, at, ask, embedded, found, made>>

Restart ==
  /\ vectors' = [o \in Org |-> {}] /\ \E o \in Org : vectors[o] # {}
  /\ UNCHANGED <<private, exact, at, ask, embedded, found, made>>

Asked(a) ==
  \/ ExactHit(a) \/ ExactMiss(a) \/ Embeds(a) \/ NoEmbedding(a) \/ SemanticHit(a)
  \/ SemanticMiss(a) \/ Provide(a) \/ ProviderFails(a) \/ PutExact(a) \/ PutSemantic(a) \/ Leaves(a)

SimilarNext ==
  \/ \E a \in Asker : Asked(a) \/ \E q \in Requests : Asks(a, q)
  \/ \E o \in Org, nothing \in BOOLEAN : Retain(o, nothing)
  \/ Expire \/ Restart

-----------------------------------------------------------------------------
(* Properties                                                              *)

\* The question an answer was made for is the one asked: of the same organisation, and worded the
\* same, or as compression leaves it, or within the threshold of the asked question's domain.
\* Neither keeping an answer under further wordings nor compression moves answers step by step to
\* questions they were never near.
AnswersTheQuestion ==
  \A a \in Asker :
    at[a] = "answered" =>
      LET q == ask[a]
          m == made[found[a]]
      IN  /\ m.org = q.org
          /\ \/ q.wording \in {m.wording, Shrunk[m.wording]}
             \/ Cosine(m.wording, q.wording) >= AdaptiveThreshold(Domain[q.wording])

\* Nothing is kept of a request let in under zero retention, nor of one that asked for variety or
\* may call tools, however the settings change while it is served; and neither is answered with a
\* kept answer.
NothingKept ==
  /\ \A e \in exact : IsCacheable(made[e.answer])
  /\ \A v \in Kept : IsCacheable(made[v.answer])
  /\ \A a \in Asker :
       at[a] = "answered" /\ ~IsCacheable(ask[a]) => made[found[a]] = ask[a]

\* A kept answer is one the caller may have, and one that may be kept (chat_completions, store.rs
\* semantic_put and semantic_lookup).
AnswersSafety == AnswersTheQuestion /\ NothingKept

\* fingerprint.rs:58: everything that can change the response is hashed.
PictureTold == \A a \in Asker : at[a] = "answered" => made[found[a]].picture = ask[a].picture

===============================================================================
