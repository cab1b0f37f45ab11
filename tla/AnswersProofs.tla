----------------------------- MODULE AnswersProofs -----------------------------
(***************************************************************************)
(* What MCAnswers checks of a conversation and its translations, of a      *)
(* shared token and of kept answers, for any number of messages, calls and *)
(* requests, any delays, wordings and similarities;                        *)
(* and what ResponseCaches checks of the settings a request is let in      *)
(* under, for any number of replicas, requests, changes and failures, any  *)
(* life of an entry and any time an authentication takes.                  *)
(***************************************************************************)
EXTENDS MCAnswers, ResponseCaches, SequenceTheorems, TLAPS

-----------------------------------------------------------------------------
(* The token                                                               *)

\* The margin covers an exchange and a call on its way, one after the other.
MarginSuffices == 2 * Delay <= Margin /\ 2 * Delay < Life

Token == [usable : Nat, expires : Nat]

TokensTyped ==
  /\ clock \in Nat /\ cached \in Token
  /\ call \in [Calls -> {"idle", "minting", "ready", "sent", "done", "failed"}]
  /\ holds \in [Calls -> Token] /\ since \in [Calls -> Nat]

\* A token is usable until a margin before its end, less what its exchange took, and who has one
\* on its way has what the call takes at most.
Lasts(c) ==
  /\ since[c] <= clock
  /\ call[c] \in {"minting", "sent"} => clock <= since[c] + Delay
  /\ call[c] = "ready" => clock = since[c]
  /\ call[c] \in {"ready", "sent"} => since[c] + Delay < holds[c].expires

TokensInv ==
  /\ TokensTyped
  /\ cached.usable # 0 => cached.usable + Delay <= cached.expires
  /\ \A c \in Calls : Lasts(c)

LEMMA TokensBegin == TokensInit => TokensInv
<1> SUFFICES ASSUME TokensInit PROVE TokensInv
  OBVIOUS
<1>1. NoToken \in Token /\ NoToken.usable = 0
  BY DEF NoToken, Token
<1>2. TokensTyped
  BY <1>1 DEF TokensInit, TokensTyped
<1> QED
  BY <1>1, <1>2, TokensAssumption DEF TokensInit, TokensInv, Lasts

\* Which calls a step leaves alone.
LEMMA OthersLast ==
  ASSUME TokensInv, NEW c \in Calls, clock' = clock, \A d \in Calls \ {c} :
           call'[d] = call[d] /\ since'[d] = since[d] /\ holds'[d] = holds[d]
  PROVE  \A d \in Calls \ {c} : Lasts(d)'
  BY DEF TokensInv, Lasts

LEMMA TokensStep ==
  ASSUME MarginSuffices, TokensInv, [TokensNext]_tokenVars
  PROVE  TokensInv'
<1> USE TokensAssumption
<1>0. TokensTyped /\ (\A c \in Calls : Lasts(c)) /\ Delay \in Nat /\ Life \in Nat /\ Margin \in Nat
  BY DEF TokensInv
<1>1. ASSUME NEW c \in Calls, TakeCached(c) PROVE TokensInv'
  <2>1. TokensTyped'
    BY <1>0, <1>1 DEF TokensTyped, TakeCached, Moves
  <2>2. Lasts(c)'
    <3>1. cached.usable > clock /\ cached.usable + Delay <= cached.expires
      BY <1>0, <1>1 DEF TakeCached, TokensInv, TokensTyped, Token
    <3> QED BY <1>0, <1>1, <3>1 DEF TakeCached, Moves, TokensTyped, Token, Lasts
  <2>3. \A d \in Calls \ {c} : Lasts(d)'
    BY <1>0, <1>1, OthersLast DEF TakeCached, Moves, TokensTyped
  <2> QED BY <1>1, <2>1, <2>2, <2>3 DEF TakeCached, TokensInv
<1>2. ASSUME NEW c \in Calls, Mint(c) \/ ExchangeFails(c) \/ SendCall(c) \/ Arrives(c)
      PROVE  TokensInv'
  <2>1. PICK to \in {"minting", "failed", "sent", "done"} :
          /\ Moves(c, to) /\ UNCHANGED <<clock, cached, holds>>
          /\ to = "sent" => call[c] = "ready"
    BY <1>2 DEF Mint, ExchangeFails, SendCall, Arrives
  <2>2. TokensTyped'
    BY <1>0, <2>1 DEF TokensTyped, Moves
  <2>3. Lasts(c)'
    BY <1>0, <2>1 DEF TokensTyped, Moves, Lasts
  <2>4. \A d \in Calls \ {c} : Lasts(d)'
    BY <1>0, <2>1, OthersLast DEF Moves, TokensTyped
  <2> QED BY <2>1, <2>2, <2>3, <2>4 DEF TokensInv
<1>3. ASSUME NEW c \in Calls, NextCall(c) PROVE TokensInv'
  <2>1. TokensTyped'
    BY <1>0, <1>3 DEF TokensTyped, NextCall, NoToken, Token
  <2>2. Lasts(c)'
    BY <1>0, <1>3 DEF TokensTyped, NextCall, Lasts
  <2>3. \A d \in Calls \ {c} : Lasts(d)'
    BY <1>0, <1>3, OthersLast DEF NextCall, TokensTyped
  <2> QED BY <1>3, <2>1, <2>2, <2>3 DEF NextCall, TokensInv
<1>4. ASSUME NEW c \in Calls, NEW issued \in 0 .. LastTick, Exchanged(c, issued) PROVE TokensInv'
  <2> DEFINE fresh == [usable |-> Usable(Life), expires |-> issued + Life]
  <2>1. /\ call[c] = "minting" /\ issued \in Nat /\ since[c] <= issued /\ issued <= clock
        /\ cached' = fresh /\ holds' = [holds EXCEPT ![c] = fresh] /\ Moves(c, "ready")
        /\ clock' = clock
    BY <1>0, <1>4 DEF Exchanged, TokensTyped
  <2>2. fresh \in Token /\ fresh.expires = issued + Life /\ fresh.usable = Usable(Life)
    BY <1>0, <2>1 DEF Token, Usable, TokensTyped
  <2>3. clock <= issued + Delay
    BY <1>0, <2>1 DEF Lasts, TokensTyped
  <2> HIDE DEF fresh
  <2>4. fresh.usable # 0 => fresh.usable + Delay <= fresh.expires
    BY <1>0, <2>1, <2>2, <2>3 DEF Usable, TokensTyped, MarginSuffices
  <2>5. TokensTyped'
    BY <1>0, <2>1, <2>2 DEF TokensTyped, Moves
  <2>6. Lasts(c)'
    <3>1. since'[c] = clock /\ call'[c] = "ready" /\ holds'[c] = fresh
      BY <1>0, <2>1 DEF Moves, TokensTyped
    <3> QED BY <1>0, <2>1, <2>2, <2>3, <3>1 DEF Lasts, TokensTyped, MarginSuffices
  <2>7. \A d \in Calls \ {c} : Lasts(d)'
    BY <1>0, <2>1, OthersLast DEF Moves, TokensTyped
  <2> QED BY <2>1, <2>4, <2>5, <2>6, <2>7 DEF TokensInv
<1>5. CASE Pass
  BY <1>0, <1>5 DEF Pass, TokensInv, TokensTyped, Lasts
<1>6. CASE UNCHANGED tokenVars
  BY <1>6 DEF tokenVars, TokensInv, TokensTyped, Lasts
<1> QED BY <1>1, <1>2, <1>3, <1>4, <1>5, <1>6 DEF TokensNext

-----------------------------------------------------------------------------
(* What the composition does to each part                                  *)

LEMMA OfTokens == [Next]_vars => [TokensNext]_tokenVars
  BY DEF Next, vars, tokenVars, InTranslation, InTokens, InSimilar, InCatalogue

LEMMA OfSimilar == [Next]_vars => [SimilarNext]_similarVars
  BY DEF Next, vars, similarVars, InTranslation, InTokens, InSimilar, InCatalogue

\* No call is on its way with a token that expires meanwhile, whichever request minted it
\* (vertex.rs get_access_token), as long as an exchange and a call each take half the margin
\* at most.
THEOREM TokensLast ==
  ASSUME MarginSuffices
  PROVE  Spec => []TokenOutlivesCall
<1>1. Init => TokensInv
  BY TokensBegin DEF Init
<1>2. TokensInv /\ [Next]_vars => TokensInv'
  BY TokensStep, OfTokens
<1>3. TokensInv => TokenOutlivesCall
  <2> SUFFICES ASSUME TokensInv, NEW c \in Calls, call[c] \in {"ready", "sent"}
               PROVE  clock < holds[c].expires
    BY DEF TokenOutlivesCall
  <2> QED BY TokensAssumption DEF TokensInv, TokensTyped, Token, Lasts
<1> QED BY <1>1, <1>2, <1>3, PTL DEF Spec

-----------------------------------------------------------------------------
(* The kept answers                                                        *)

\* A request as it is let in.
Question ==
  {[org |-> q.org, wording |-> q.wording, style |-> q.style, picture |-> q.picture,
    varied |-> q.varied, private |-> p] : q \in Requests, p \in BOOLEAN}

SimilarTyped ==
  /\ made \in Seq(Question)
  /\ at \in [Asker -> {"idle", "exact", "embed", "search", "call", "store", "upsert", "answered"}]
  /\ DOMAIN ask = Asker /\ (\A a \in Asker : at[a] # "idle" => ask[a] \in Question)
  /\ embedded \in [Asker -> BOOLEAN] /\ found \in [Asker -> Nat]
  /\ DOMAIN vectors = Org

\* An answer made for m may be given to such a wording of the organisation.
Fits(m, org, wording) ==
  /\ m.org = org
  /\ \/ wording \in {m.wording, Shrunk[m.wording]}
     \/ Cosine(m.wording, wording) >= AdaptiveThreshold(Domain[wording])

\* The provider has given the n-th answer, and it may be kept.
Keepable(n) == n \in 1 .. Len(made) /\ IsCacheable(made[n])

\* The exact tier keeps what fits its key; a vector is that of the question its answer was made
\* for, so nearness is always to that one.
ExactFits(e) == Keepable(e.answer) /\ Fits(made[e.answer], e.key.org, e.key.wording)
VectorFits(v, o) ==
  Keepable(v.answer) /\ made[v.answer].org = o /\ made[v.answer].wording = v.wording

\* Where a request stands tells what it has found and may do.
Stands(a) ==
  /\ at[a] \in {"embed", "search"} \/ embedded[a] => IsCacheable(ask[a])
  /\ embedded[a] => at[a] # "idle"
  /\ at[a] \in {"store", "upsert"} => found[a] \in 1 .. Len(made) /\ made[found[a]] = ask[a]
  /\ at[a] = "answered" =>
       /\ found[a] \in 1 .. Len(made)
       /\ Fits(made[found[a]], ask[a].org, ask[a].wording)
       /\ ~IsCacheable(ask[a]) => made[found[a]] = ask[a]

SimilarInv ==
  /\ SimilarTyped
  /\ \A e \in exact : ExactFits(e)
  /\ \A o \in Org : \A v \in vectors[o] : VectorFits(v, o)
  /\ \A a \in Asker : Stands(a)

LEMMA SimilarBegin == SimilarInit => SimilarInv
  BY DEF SimilarInit, SimilarInv, SimilarTyped, Stands

\* A question is one of those that may come.
LEMMA QuestionFacts ==
  ASSUME NEW q \in Question
  PROVE  /\ q.org \in Org /\ q.wording \in {r.wording : r \in Requests}
         /\ Compressed(q).org = q.org /\ Compressed(q).wording = Shrunk[q.wording]
         /\ IsCacheable(Compressed(q)) = IsCacheable(q)
<1>1. PICK r \in Requests, p \in BOOLEAN :
        q = [org |-> r.org, wording |-> r.wording, style |-> r.style, picture |-> r.picture,
             varied |-> r.varied, private |-> p]
  BY DEF Question
<1>2. Compressed(q) = [org |-> r.org, wording |-> Shrunk[r.wording], style |-> r.style,
                       picture |-> r.picture, varied |-> r.varied, private |-> p]
  BY <1>1 DEF Compressed
<1> QED BY <1>1, <1>2, SimilarAssumption DEF IsCacheable

\* A further answer changes nothing about those there are.
LEMMA AnswersStay ==
  ASSUME SimilarInv, made' = made \/ (\E q \in Question : made' = Append(made, q))
  PROVE  /\ made' \in Seq(Question) /\ Len(made) \in Nat /\ Len(made') \in Nat
         /\ \A n \in 1 .. Len(made) : n \in 1 .. Len(made') /\ made'[n] = made[n]
         /\ \A n : Keepable(n) => Keepable(n)'
         /\ \A e : ExactFits(e) => ExactFits(e)'
         /\ \A v, o : VectorFits(v, o) => VectorFits(v, o)'
<1>1. made \in Seq(Question)
  BY DEF SimilarInv, SimilarTyped
<1>2. /\ made' \in Seq(Question) /\ Len(made) \in Nat /\ Len(made') \in Nat
      /\ \A n \in 1 .. Len(made) : n \in 1 .. Len(made') /\ made'[n] = made[n]
  BY <1>1
<1>3. \A n : Keepable(n) => Keepable(n)' /\ made'[n] = made[n]
  BY <1>2 DEF Keepable
<1> QED BY <1>2, <1>3 DEF ExactFits, VectorFits, Fits

\* Whom a step leaves alone stands where it stood.
LEMMA OthersStand ==
  ASSUME SimilarInv, NEW a \in Asker,
         made' = made \/ (\E q \in Question : made' = Append(made, q)),
         \A b \in Asker \ {a} :
           at'[b] = at[b] /\ ask'[b] = ask[b] /\ embedded'[b] = embedded[b] /\ found'[b] = found[b]
  PROVE  \A b \in Asker \ {a} : Stands(b)'
<1> SUFFICES ASSUME NEW b \in Asker \ {a} PROVE Stands(b)'
  OBVIOUS
<1>1. Stands(b) /\ SimilarTyped
  BY DEF SimilarInv
<1>2. \A n \in 1 .. Len(made) : n \in 1 .. Len(made') /\ made'[n] = made[n]
  BY AnswersStay
<1> QED BY <1>1, <1>2 DEF Stands, Fits

\* An answer put under a key it fits leaves every entry fitting.
LEMMA StoredFits ==
  ASSUME NEW q, NEW n, \A e \in exact : ExactFits(e),
         Keepable(n), Fits(made[n], q.org, q.wording), CacheKey(q).org = q.org,
         CacheKey(q).wording = q.wording
  PROVE  \A e \in Stored(q, n) : ExactFits(e)
  BY DEF Stored, ExactFits

LEMMA KeyFacts == \A q : CacheKey(q).org = q.org /\ CacheKey(q).wording = q.wording
  BY DEF CacheKey, Fingerprint

\* The steps that change nothing that is kept and make no answer.
Quiet(a) ==
  \/ ExactHit(a) \/ ExactMiss(a) \/ Embeds(a) \/ NoEmbedding(a) \/ SemanticMiss(a)
  \/ ProviderFails(a) \/ Leaves(a)

LEMMA QuietStep ==
  ASSUME SimilarInv, NEW a \in Asker, Quiet(a)
  PROVE  SimilarInv'
<1>0. SimilarTyped /\ Stands(a)
  BY DEF SimilarInv
<1>1. UNCHANGED <<private, exact, vectors, made>>
  BY DEF Quiet, ExactHit, ExactMiss, Embeds, NoEmbedding, SemanticMiss, ProviderFails, Leaves
<1>2. \A b \in Asker \ {a} :
        at'[b] = at[b] /\ ask'[b] = ask[b] /\ embedded'[b] = embedded[b] /\ found'[b] = found[b]
  BY <1>0 DEF Quiet, ExactHit, ExactMiss, Embeds, NoEmbedding, SemanticMiss, ProviderFails, Leaves,
     Goes, Finished, SimilarTyped
<1>3. \A e \in Hits(a) : e.answer \in 1 .. Len(made) /\ ExactFits(e)
  BY DEF Hits, SimilarInv, ExactFits, Keepable
<1>4. Len(made) \in Nat
  BY <1>0 DEF SimilarTyped
<1>5. SimilarTyped'
  <2>1. CASE ExactHit(a)
    BY <1>0, <1>1, <1>3, <1>4, <2>1 DEF ExactHit, Goes, SimilarTyped
  <2>2. CASE ExactMiss(a) \/ Embeds(a) \/ NoEmbedding(a) \/ SemanticMiss(a)
    BY <1>0, <1>1, <2>2 DEF ExactMiss, Embeds, NoEmbedding, SemanticMiss, Goes, SimilarTyped
  <2>3. CASE ProviderFails(a) \/ Leaves(a)
    <3>1. /\ at' = [at EXCEPT ![a] = "idle"] /\ ask' = [ask EXCEPT ![a] = None]
          /\ embedded' = [embedded EXCEPT ![a] = FALSE] /\ found' = [found EXCEPT ![a] = 0]
      BY <2>3 DEF ProviderFails, Leaves, Goes, Finished
    <3>2. /\ DOMAIN ask' = Asker
          /\ \A b \in Asker : at'[b] # "idle" => ask'[b] \in Question
      BY <1>0, <3>1 DEF SimilarTyped
    <3>3. embedded' \in [Asker -> BOOLEAN]
      BY <1>0, <3>1 DEF SimilarTyped
    <3> QED BY <1>0, <1>1, <3>1, <3>2, <3>3 DEF SimilarTyped
  <2> QED BY <2>1, <2>2, <2>3 DEF Quiet
<1>6. Stands(a)'
  <2>1. CASE ExactHit(a)
    <3>1. PICK e \in Hits(a) : found'[a] = e.answer
      BY <1>0, <2>1 DEF ExactHit, SimilarTyped
    <3>2. /\ IsCacheable(ask[a]) /\ e.key = CacheKey(ask[a])
          /\ Fits(made[e.answer], ask[a].org, ask[a].wording)
      BY <1>3, KeyFacts DEF Hits, ExactFits
    <3>3. at'[a] = "answered" /\ ask' = ask /\ embedded' = embedded /\ made' = made
      BY <1>0, <2>1 DEF ExactHit, Goes, SimilarTyped
    <3> QED BY <1>0, <1>3, <3>1, <3>2, <3>3 DEF Stands
  <2>2. CASE ExactMiss(a) \/ Embeds(a) \/ NoEmbedding(a) \/ SemanticMiss(a)
    BY <1>0, <1>1, <2>2 DEF ExactMiss, Embeds, NoEmbedding, SemanticMiss, Goes, SimilarTyped, Stands
  <2>3. CASE ProviderFails(a) \/ Leaves(a)
    BY <1>0, <1>1, <2>3 DEF ProviderFails, Leaves, Goes, Finished, SimilarTyped, Stands
  <2> QED BY <2>1, <2>2, <2>3 DEF Quiet
<1>7. \A b \in Asker : Stands(b)'
  BY <1>1, <1>2, <1>6, OthersStand
<1>8. \A e : ExactFits(e) => ExactFits(e)'
  BY <1>1, AnswersStay
<1>9. \A v, o : VectorFits(v, o) => VectorFits(v, o)'
  BY <1>1, AnswersStay
<1> QED BY <1>1, <1>5, <1>7, <1>8, <1>9 DEF SimilarInv

LEMMA HitStep ==
  ASSUME SimilarInv, NEW a \in Asker, SemanticHit(a)
  PROVE  SimilarInv'
<1>0. SimilarTyped /\ Stands(a) /\ ask[a] \in Question /\ IsCacheable(ask[a]) /\ ask[a].org \in Org
  BY QuestionFacts DEF SimilarInv, SimilarTyped, Stands, SemanticHit, Goes
<1>1. PICK v \in Nearest(ask[a]) :
        found' = [found EXCEPT ![a] = v.answer] /\ exact' = Stored(ask[a], v.answer)
  BY DEF SemanticHit
<1>2. /\ v \in vectors[ask[a].org]
      /\ Cosine(v.wording, ask[a].wording) >= AdaptiveThreshold(Domain[ask[a].wording])
  BY <1>1 DEF Nearest, Near
<1>3. Keepable(v.answer) /\ Fits(made[v.answer], ask[a].org, ask[a].wording)
  BY <1>0, <1>2 DEF SimilarInv, VectorFits, Fits
<1>4. /\ UNCHANGED <<private, vectors, ask, embedded, made>>
      /\ at' = [at EXCEPT ![a] = "answered"]
  BY DEF SemanticHit, Goes
<1>5. \A e \in exact' : ExactFits(e)
  BY <1>1, <1>3, KeyFacts, StoredFits DEF SimilarInv
<1>6. SimilarTyped'
  BY <1>0, <1>1, <1>3, <1>4 DEF SimilarTyped, Keepable
<1>7. Stands(a)'
  <2>1. found'[a] = v.answer /\ at'[a] = "answered"
    BY <1>0, <1>1, <1>4 DEF SimilarTyped
  <2> QED BY <1>0, <1>3, <1>4, <2>1 DEF Stands, Keepable
<1>8. \A b \in Asker \ {a} : Stands(b)'
  BY <1>0, <1>1, <1>4, OthersStand DEF SimilarTyped
<1>9. \A e : ExactFits(e) => ExactFits(e)'
  BY <1>4, AnswersStay
<1>10. \A w, o : VectorFits(w, o) => VectorFits(w, o)'
  BY <1>4, AnswersStay
<1> QED BY <1>4, <1>5, <1>6, <1>7, <1>8, <1>9, <1>10 DEF SimilarInv

LEMMA ProvideStep ==
  ASSUME SimilarInv, NEW a \in Asker, Provide(a)
  PROVE  SimilarInv'
<1>0. SimilarTyped /\ Stands(a) /\ ask[a] \in Question /\ made \in Seq(Question)
  BY DEF SimilarInv, SimilarTyped, Provide, Goes
<1>1. /\ made' = Append(made, ask[a]) /\ found' = [found EXCEPT ![a] = Len(made) + 1]
      /\ UNCHANGED <<private, exact, vectors, ask, embedded>>
      /\ at' = [at EXCEPT ![a] = "store"]
  BY DEF Provide, Goes
<1>2. \E q \in Question : made' = Append(made, q)
  BY <1>0, <1>1
<1>3. Len(made) + 1 \in 1 .. Len(made') /\ made'[Len(made) + 1] = ask[a] /\ Len(made) + 1 \in Nat
  BY <1>0, <1>1
<1>4. SimilarTyped'
  BY <1>0, <1>1, <1>2, <1>3, AnswersStay DEF SimilarTyped
<1>5. Stands(a)'
  <2>1. found'[a] = Len(made) + 1 /\ at'[a] = "store"
    BY <1>0, <1>1 DEF SimilarTyped
  <2> QED BY <1>0, <1>1, <1>3, <2>1 DEF Stands
<1>6. \A b \in Asker \ {a} : Stands(b)'
  BY <1>0, <1>1, <1>2, OthersStand DEF SimilarTyped
<1>7. \A e : ExactFits(e) => ExactFits(e)'
  BY <1>2, AnswersStay
<1>8. \A v, o : VectorFits(v, o) => VectorFits(v, o)'
  BY <1>2, AnswersStay
<1> QED BY <1>1, <1>4, <1>5, <1>6, <1>7, <1>8 DEF SimilarInv

LEMMA PutStep ==
  ASSUME SimilarInv, NEW a \in Asker, PutExact(a) \/ PutSemantic(a)
  PROVE  SimilarInv'
<1>0. /\ SimilarTyped /\ Stands(a) /\ ask[a] \in Question /\ ask[a].org \in Org
      /\ found[a] \in 1 .. Len(made) /\ made[found[a]] = ask[a]
  BY QuestionFacts DEF SimilarInv, SimilarTyped, Stands, PutExact, PutSemantic, Goes
<1>1. /\ UNCHANGED <<private, ask, embedded, found, made>>
      /\ at' = [at EXCEPT ![a] = IF at[a] = "store" THEN "upsert" ELSE "answered"]
      /\ at[a] \in {"store", "upsert"}
  BY DEF PutExact, PutSemantic, Goes
<1>2. \A e \in exact' : ExactFits(e)
  <2>1. CASE exact' = exact
    BY <2>1 DEF SimilarInv
  <2>2. CASE IsCacheable(ask[a]) /\ exact' = Stored(Compressed(ask[a]), found[a])
    <3>1. Keepable(found[a])
      BY <1>0, <2>2 DEF Keepable
    <3>2. Fits(made[found[a]], Compressed(ask[a]).org, Compressed(ask[a]).wording)
      BY <1>0, QuestionFacts DEF Fits
    <3> QED BY <2>2, <3>1, <3>2, KeyFacts, StoredFits DEF SimilarInv
  <2> QED BY <2>1, <2>2 DEF PutExact, PutSemantic
<1>3. \A o \in Org : \A v \in vectors'[o] : VectorFits(v, o)
  <2>1. CASE vectors' = vectors
    BY <2>1 DEF SimilarInv
  <2>2. CASE /\ embedded[a]
             /\ vectors' = [vectors EXCEPT ![ask[a].org] =
                              @ \cup {[wording |-> ask[a].wording, answer |-> found[a]]}]
    <3> DEFINE new == [wording |-> ask[a].wording, answer |-> found[a]]
    <3>1. VectorFits(new, ask[a].org)
      BY <1>0, <2>2 DEF VectorFits, Keepable, Stands
    <3>2. \A o \in Org : \A v \in vectors'[o] : v \in vectors[o] \/ (v = new /\ o = ask[a].org)
      BY <1>0, <2>2 DEF SimilarTyped
    <3> HIDE DEF new
    <3> QED BY <3>1, <3>2 DEF SimilarInv
  <2> QED BY <2>1, <2>2 DEF PutExact, PutSemantic
<1>4. DOMAIN vectors' = Org
  BY <1>0 DEF PutExact, PutSemantic, SimilarTyped
<1>5. SimilarTyped'
  BY <1>0, <1>1, <1>4 DEF SimilarTyped
<1>6. Stands(a)'
  BY <1>0, <1>1 DEF Stands, Fits, SimilarTyped
<1>7. \A b \in Asker \ {a} : Stands(b)'
  BY <1>0, <1>1, OthersStand DEF SimilarTyped
<1>8. \A e : ExactFits(e) => ExactFits(e)'
  BY <1>1, AnswersStay
<1>9. \A v, o : VectorFits(v, o) => VectorFits(v, o)'
  BY <1>1, AnswersStay
<1> QED BY <1>2, <1>3, <1>5, <1>6, <1>7, <1>8, <1>9 DEF SimilarInv

LEMMA AsksStep ==
  ASSUME SimilarInv, NEW a \in Asker, NEW q \in Requests, Asks(a, q)
  PROVE  SimilarInv'
<1>0. SimilarTyped /\ Stands(a) /\ at[a] = "idle"
  BY DEF SimilarInv, Asks, Goes
<1>1. PICK r \in Question :
        ask' = [ask EXCEPT ![a] = r] /\ at' = [at EXCEPT ![a] = "exact"]
  <2>1. PICK p \in BOOLEAN : p = (q.org \in private)
    <3>1. (q.org \in private) \in BOOLEAN
      OBVIOUS
    <3> QED BY <3>1, Zenon
  <2> DEFINE r == [org |-> q.org, wording |-> q.wording, style |-> q.style,
                   picture |-> q.picture, varied |-> q.varied, private |-> p]
  <2>2. r \in Question
    BY DEF Question
  <2>3. ask' = [ask EXCEPT ![a] = r] /\ at' = [at EXCEPT ![a] = "exact"]
    BY <2>1, Zenon DEF Asks, Goes
  <2> QED BY <2>2, <2>3
<1>2. UNCHANGED <<private, exact, vectors, embedded, found, made>>
  BY DEF Asks
<1>3. SimilarTyped'
  BY <1>0, <1>1, <1>2 DEF SimilarTyped
<1>4. Stands(a)'
  BY <1>0, <1>1, <1>2 DEF Stands, SimilarTyped
<1>5. \A b \in Asker \ {a} : Stands(b)'
  BY <1>0, <1>1, <1>2, OthersStand DEF SimilarTyped
<1>6. \A e : ExactFits(e) => ExactFits(e)'
  BY <1>2, AnswersStay
<1>7. \A v, o : VectorFits(v, o) => VectorFits(v, o)'
  BY <1>2, AnswersStay
<1> QED BY <1>2, <1>3, <1>4, <1>5, <1>6, <1>7 DEF SimilarInv

\* What happens to the tiers meanwhile only takes away.
LEMMA TiersStep ==
  ASSUME SimilarInv,
         \/ \E o \in Org, nothing \in BOOLEAN : Retain(o, nothing)
         \/ Expire \/ Restart \/ UNCHANGED similarVars
  PROVE  SimilarInv'
<1>1. /\ UNCHANGED <<at, ask, embedded, found, made>>
      /\ exact' \subseteq exact
      /\ DOMAIN vectors' = Org /\ \A o \in Org : vectors'[o] \subseteq vectors[o]
  BY DEF Retain, Expire, Restart, similarVars, SimilarInv, SimilarTyped
<1>2. SimilarTyped' /\ \A a \in Asker : Stands(a)'
  BY <1>1 DEF SimilarInv, SimilarTyped, Stands, Fits
<1>3. \A e : ExactFits(e) => ExactFits(e)'
  BY <1>1, AnswersStay
<1>4. \A v, o : VectorFits(v, o) => VectorFits(v, o)'
  BY <1>1, AnswersStay
<1> QED BY <1>1, <1>2, <1>3, <1>4 DEF SimilarInv

LEMMA SimilarStep == SimilarInv /\ [SimilarNext]_similarVars => SimilarInv'
  BY QuietStep, HitStep, ProvideStep, PutStep, AsksStep, TiersStep
  DEF SimilarNext, Asked, Quiet

\* However answers are kept under further wordings and conversations are compressed, whatever
\* the organisations' settings become meanwhile: a caller gets an answer to a question of its own
\* organisation that is its own, or near it, and nothing that may not be kept is kept
\* (openai_compat.rs execute_with_headroom, cache/semantic.rs).
THEOREM AnswersHold == Spec => []AnswersSafety
<1>1. Init => SimilarInv
  BY SimilarBegin DEF Init
<1>2. SimilarInv /\ [Next]_vars => SimilarInv'
  BY SimilarStep, OfSimilar
<1>3. SimilarInv => AnswersSafety
  <2> SUFFICES ASSUME SimilarInv PROVE AnswersSafety
    OBVIOUS
  <2>1. AnswersTheQuestion
    BY DEF SimilarInv, Stands, Fits, AnswersTheQuestion
  <2>2. NothingKept
    BY DEF SimilarInv, Stands, ExactFits, VectorFits, Keepable, NothingKept, Kept
  <2> QED BY <2>1, <2>2 DEF AnswersSafety
<1> QED BY <1>1, <1>2, <1>3, PTL DEF Spec

-----------------------------------------------------------------------------
(* The models on offer                                                     *)

LEMMA OfCatalogue == [Next]_vars => [CatalogueNext]_catalogueVars
  BY DEF Next, vars, catalogueVars, InTranslation, InTokens, InSimilar, InCatalogue

Providers == {Registered.database[i] : i \in DOMAIN Registered.database}

\* Of two providers one comes before the other in the order of ids.
LEMMA InOrder ==
  ASSUME NEW r, NEW s, ProviderOf(r) \in Providers, ProviderOf(s) \in Providers,
         ProviderOf(r) # ProviderOf(s)
  PROVE  Before(r, s, "database") \/ Before(s, r, "database")
<1>1. PICK i \in DOMAIN Registered.database : Registered.database[i] = ProviderOf(r)
  BY DEF Providers, ProviderOf
<1>2. PICK j \in DOMAIN Registered.database : Registered.database[j] = ProviderOf(s)
  BY DEF Providers, ProviderOf
<1>3. i \in Int /\ j \in Int
  BY DEF Registered
<1>4. i < j \/ j < i
  BY <1>1, <1>2, <1>3
<1> QED BY <1>1, <1>2, <1>4 DEF Before

\* The names of the models in the seed data, by provider.
OpenAiNames == {
  "gpt-5", "gpt-5-mini", "gpt-5-nano", "gpt-4o", "gpt-4o-mini", "gpt-4.1", "gpt-4.1-mini",
  "gpt-4.1-nano", "o3", "o4-mini", "text-embedding-3-small", "text-embedding-3-large"}

AnthropicNames == {
  "claude-fable-5", "claude-opus-5", "claude-opus-4-8", "claude-opus-4-7", "claude-opus-4-6",
  "claude-opus-4-5", "claude-sonnet-5", "claude-sonnet-4-6", "claude-sonnet-4-5",
  "claude-haiku-4-5", "claude-opus-4-1", "claude-3-5-haiku"}

GeminiNames == {
  "gemini-3.6-flash", "gemini-3.1-pro-preview", "gemini-2.5-pro", "gemini-2.5-flash",
  "gemini-2.5-flash-lite", "gemini-2.0-flash", "gemini-1.5-flash", "gemini-1.5-pro"}

OtherNames == [
  deepseek |-> {"deepseek-v4-flash", "deepseek-v4-pro"},
  mistral |-> {"mistral-large-latest", "mistral-small-latest", "mistral-embed"},
  groq |-> {"llama-3.3-70b-versatile", "llama-3.1-8b-instant"},
  moonshot |-> {"kimi-k2"}]

SeedIds ==
  {"openai"} \X OpenAiNames \cup {"anthropic"} \X AnthropicNames
    \cup {"google", "vertex"} \X GeminiNames
    \cup UNION {{p} \X OtherNames[p] : p \in DOMAIN OtherNames}

LEMMA RowNamed ==
  ASSUME NEW name, NEW tier, NEW input, NEW output, NEW window
  PROVE  LET r == Row(name, tier, input, output, window)
         IN  "id" \in DOMAIN r /\ r.id = <<"any", name>>
  BY DEF Row

LEMMA EmbeddingNamed ==
  ASSUME NEW name, NEW input
  PROVE  LET r == Embedding(name, input) IN "id" \in DOMAIN r /\ r.id = <<"any", name>>
  BY DEF Row, Embedding

LEMMA SeedNamed == \A r \in SeedData : r.id \in SeedIds
<1>1. \A r \in OpenAi : "id" \in DOMAIN r /\ r.id[2] \in OpenAiNames
  BY RowNamed, EmbeddingNamed DEF OpenAi, OpenAiNames
<1>2. \A r \in Anthropic : "id" \in DOMAIN r /\ r.id[2] \in AnthropicNames
  BY RowNamed DEF Anthropic, AnthropicNames
<1>3. \A r \in Gemini : "id" \in DOMAIN r /\ r.id[2] \in GeminiNames
  BY RowNamed DEF Gemini, GeminiNames
<1>4. \A r \in DeepSeek : "id" \in DOMAIN r /\ r.id[2] \in OtherNames.deepseek
  BY RowNamed DEF DeepSeek, Blind, OtherNames
<1>5. \A r \in Mistral : "id" \in DOMAIN r /\ r.id[2] \in OtherNames.mistral
  BY RowNamed, EmbeddingNamed DEF Mistral, Blind, OtherNames
<1>6. \A r \in Groq : "id" \in DOMAIN r /\ r.id[2] \in OtherNames.groq
  BY RowNamed DEF Groq, Blind, OtherNames
<1>7. \A r \in Moonshot : "id" \in DOMAIN r /\ r.id[2] \in OtherNames.moonshot
  BY RowNamed DEF Moonshot, Blind, OtherNames
<1>8. \A r \in Retired : r.id \in {"anthropic"} \X AnthropicNames \cup {"google"} \X GeminiNames
  BY RowNamed DEF Retired, Of, AnthropicNames, GeminiNames
<1> SUFFICES ASSUME NEW r \in SeedData PROVE r.id \in SeedIds
  OBVIOUS
<1>9. \/ r \in Of("openai", OpenAi) \/ r \in Of("anthropic", Anthropic)
      \/ r \in Of("google", Gemini) \/ r \in Of("vertex", Gemini)
      \/ r \in Of("deepseek", DeepSeek) \/ r \in Of("mistral", Mistral)
      \/ r \in Of("groq", Groq) \/ r \in Of("moonshot", Moonshot) \/ r \in Retired
  BY DEF SeedData
<1> HIDE DEF OpenAi, Anthropic, Gemini, DeepSeek, Mistral, Groq, Moonshot
<1>10. CASE r \in Of("openai", OpenAi)
  BY <1>1, <1>10 DEF Of, SeedIds
<1>11. CASE r \in Of("anthropic", Anthropic)
  BY <1>2, <1>11 DEF Of, SeedIds
<1>12. CASE r \in Of("google", Gemini) \/ r \in Of("vertex", Gemini)
  BY <1>3, <1>12 DEF Of, SeedIds
<1>13. CASE r \in Of("deepseek", DeepSeek)
  BY <1>4, <1>13 DEF Of, SeedIds, OtherNames
<1>14. CASE r \in Of("mistral", Mistral)
  BY <1>5, <1>14 DEF Of, SeedIds, OtherNames
<1>15. CASE r \in Of("groq", Groq)
  BY <1>6, <1>15 DEF Of, SeedIds, OtherNames
<1>16. CASE r \in Of("moonshot", Moonshot)
  BY <1>7, <1>16 DEF Of, SeedIds, OtherNames
<1>17. CASE r \in Retired
  BY <1>8, <1>17 DEF SeedIds
<1> QED BY <1>9, <1>10, <1>11, <1>12, <1>13, <1>14, <1>15, <1>16, <1>17

\* Google and Vertex are the only providers of one bare name.
LEMMA SeedClash ==
  ASSUME NEW r \in SeedData, NEW s \in SeedData, r.id[2] = s.id[2], r.id # s.id
  PROVE  {ProviderOf(r), ProviderOf(s)} = {"google", "vertex"}
<1>1. r.id \in SeedIds /\ s.id \in SeedIds
  BY SeedNamed
<1> QED BY <1>1 DEF SeedIds, OpenAiNames, AnthropicNames, GeminiNames, OtherNames, ProviderOf
HasPlace(r) == r.id = <<ProviderOf(r), r.id[2]>> /\ ProviderOf(r) \in Providers

\* The seed data, or rows whose providers have a place in the order of ids.
Loaded(t, from) ==
  \/ from = "seed" /\ t = SeedData
  \/ from = "database" /\ \A r \in t : HasPlace(r)

LEMMA LoadedIds ==
  ASSUME NEW t, NEW from, Loaded(t, from), NEW r \in t PROVE HasPlace(r)
<1>1. {"openai", "anthropic", "google", "vertex", "deepseek", "mistral", "groq", "moonshot"}
        \subseteq Providers
  BY DEF Providers, Registered
<1>2. DOMAIN OtherNames \subseteq Providers
  BY <1>1 DEF OtherNames
<1>3. \A id \in SeedIds : id = <<id[1], id[2]>> /\ id[1] \in Providers
  <2> HIDE DEF Providers, OpenAiNames, AnthropicNames, GeminiNames, OtherNames
  <2> QED BY <1>1, <1>2 DEF SeedIds
<1> QED BY <1>3, SeedNamed DEF Loaded, HasPlace, ProviderOf

\* Google's models are registered before Vertex's, from the seed data and from the database.
LEMMA GoogleFirst ==
  ASSUME NEW r, NEW s, NEW from \in {"seed", "database"},
         ProviderOf(r) = "google", ProviderOf(s) = "vertex"
  PROVE  Before(r, s, from)
<1>1. CASE from = "seed"
  <2>1. 3 \in DOMAIN Registered.seed /\ 4 \in DOMAIN Registered.seed
    BY DEF Registered
  <2>2. Registered.seed[3] = "google" /\ Registered.seed[4] = "vertex"
    BY DEF Registered
  <2> QED BY <1>1, <2>1, <2>2 DEF Before
<1>2. CASE from = "database"
  <2>1. 3 \in DOMAIN Registered.database /\ 8 \in DOMAIN Registered.database
    BY DEF Registered
  <2>2. Registered.database[3] = "google" /\ Registered.database[8] = "vertex"
    BY DEF Registered
  <2> QED BY <1>2, <2>1, <2>2 DEF Before
<1> QED BY <1>1, <1>2

LEMMA BeforeBetween ==
  ASSUME NEW r, NEW s, NEW x, NEW y, NEW from, x.id = r.id, y.id = s.id, Before(r, s, from)
  PROVE  Before(x, y, from)
  BY DEF Before, ProviderOf

\* A name that has a model in one table has one in a table with that model: of the models that
\* bear it, one is registered first.
LEMMA SomeName ==
  ASSUME NEW t, NEW u, NEW from, NEW by, Loaded(u, by), NEW n, NEW m \in Named(n, t, from),
         NEW r \in u, r.id = m.id
  PROVE  Named(n, u, by) # {}
<1>1. HasPlace(r) /\ "any" \notin Providers
  BY LoadedIds DEF Providers, Registered
<1>2. by \in {"seed", "database"}
  BY DEF Loaded
<1>3. CASE n[1] # "any" \/ Aliased(n, u)
  BY <1>3 DEF Named, Aliased
<1>4. CASE n[1] = "any" /\ ~Aliased(n, u)
  <2>1. n # r.id
    BY <1>1, <1>4 DEF HasPlace, ProviderOf
  <2>2. r.id[2] = n[2]
    BY <1>4, <2>1 DEF Named, Aliased
  <2> DEFINE Place == Registered[by]
             AtPlace(s) == {i \in DOMAIN Place : Place[i] = ProviderOf(s)}
             places == UNION {AtPlace(s) : s \in {s \in u : s.id[2] = n[2]}}
  <2>3. AtPlace(r) # {}
    <3>1. CASE by = "database"
      BY <1>1, <3>1 DEF HasPlace, Providers
    <3>2. CASE by = "seed"
      <4>1. r.id \in SeedIds
        BY <3>2, SeedNamed DEF Loaded
      <4>2. ProviderOf(r) \in
              {"openai", "anthropic", "google", "vertex", "deepseek", "mistral", "groq", "moonshot"}
        BY <4>1 DEF SeedIds, ProviderOf, OtherNames
      <4> QED BY <3>2, <4>2 DEF Registered
    <3> QED BY <1>2, <3>1, <3>2
  <2>4. places # {} /\ places \subseteq Nat
    <3>1. DOMAIN Place \subseteq Nat
      BY <1>2 DEF Registered
    <3> QED BY <2>2, <2>3, <3>1
  <2>5. PICK i \in places : \A j \in places : i <= j
    <3> HIDE DEF places
    <3> QED BY <2>4, Minimum
  <2>6. PICK s \in u : s.id[2] = n[2] /\ i \in AtPlace(s)
    BY <2>5
  <2>7. \A j, k \in DOMAIN Place : Place[j] = Place[k] => j = k
    BY <1>2 DEF Registered
  <2>8. Claims(s, u, by)
    <3> SUFFICES ASSUME NEW o \in u, o.id[2] = s.id[2], Before(o, s, by) PROVE FALSE
      BY DEF Claims
    <3>1. PICK j, k \in DOMAIN Place : j < k /\ Place[j] = ProviderOf(o) /\ Place[k] = ProviderOf(s)
      BY DEF Before
    <3>2. k = i /\ j \in places
      BY <2>6, <2>7, <3>1
    <3>3. i \in Nat /\ j \in Nat
      BY <2>4, <2>5, <3>2
    <3> QED BY <2>5, <3>1, <3>2, <3>3
  <2> QED BY <1>4, <2>6, <2>8 DEF Named
<1> QED BY <1>3, <1>4

\* A name keeps its model from one table to another, of which only the earlier may be the seed.
LEMMA Keeps ==
  ASSUME NEW t, NEW u, NEW from, NEW by, Loaded(t, from), Loaded(u, by),
         by = "seed" => from = "seed",
         NEW n, NEW m \in Named(n, t, from), NEW w \in Named(n, u, by),
         NEW r \in u, r.id = m.id
  PROVE  \/ w.id = m.id
         \/ /\ \A s \in t : s.id # w.id
            /\ Aliased(n, u) \/ Before(w, m, "database")
<1>1. m \in t /\ w \in u
  BY DEF Named
<1>2. HasPlace(m) /\ HasPlace(w)
  BY <1>1, LoadedIds
<1>3. "any" \notin Providers
  BY DEF Providers, Registered
<1>4. from \in {"seed", "database"} /\ by \in {"seed", "database"}
  BY DEF Loaded
<1> HIDE DEF Providers
<1> SUFFICES ASSUME w.id # m.id
             PROVE  /\ \A s \in t : s.id # w.id
                    /\ Aliased(n, u) \/ Before(w, m, "database")
  OBVIOUS
<1>5. n[1] = "any"
  BY DEF Named, Aliased
<1>6. n # m.id /\ n # w.id
  BY <1>2, <1>3, <1>5 DEF HasPlace, ProviderOf
<1>7. CASE Aliased(n, u)
  <2>1. w.id = DefaultAliases[n[2]]
    BY <1>6, <1>7 DEF Named
  <2>2. ~Aliased(n, t)
    BY <1>6, <2>1 DEF Named
  <2> QED BY <1>5, <1>7, <2>1, <2>2 DEF Aliased
<1>8. CASE ~Aliased(n, u)
  <2>1. ~Aliased(n, t)
    <3> SUFFICES ASSUME Aliased(n, t) PROVE FALSE
      OBVIOUS
    <3>1. m.id = DefaultAliases[n[2]]
      BY <1>6 DEF Named
    <3> QED BY <1>8, <3>1 DEF Aliased
  <2>2. m.id[2] = n[2] /\ Claims(m, t, from) /\ w.id[2] = n[2] /\ Claims(w, u, by)
    BY <1>6, <1>8, <2>1 DEF Named
  <2>3. ProviderOf(m) # ProviderOf(w)
    BY <1>2, <2>2 DEF HasPlace
  <2>4. ~Before(m, w, by)
    BY <2>2, BeforeBetween DEF Claims
  <2>5. \A s \in t : s.id = w.id => ~Before(w, m, from)
    BY <2>2, BeforeBetween DEF Claims
  <2>6. by = "database" => Before(w, m, "database")
    BY <1>2, <2>3, <2>4, InOrder DEF HasPlace
  <2>7. CASE from = "database"
    BY <1>4, <2>5, <2>6, <2>7
  <2>8. CASE from = "seed"
    <3>1. ASSUME NEW s \in t, s.id = w.id PROVE FALSE
      <4>1. {ProviderOf(m), ProviderOf(w)} = {"google", "vertex"}
        BY <1>1, <2>2, <2>8, <3>1, SeedClash DEF Loaded, ProviderOf
      <4>2. CASE ProviderOf(m) = "google" /\ ProviderOf(w) = "vertex"
        BY <1>4, <2>4, <4>2, GoogleFirst
      <4>3. CASE ProviderOf(w) = "google" /\ ProviderOf(m) = "vertex"
        BY <1>4, <2>5, <3>1, <4>3, GoogleFirst
      <4> QED BY <2>3, <4>1, <4>2, <4>3
    <3>2. by = "database"
      <4> SUFFICES ASSUME by = "seed" PROVE FALSE
        BY <1>4
      <4> QED BY <1>1, <2>8, <3>1 DEF Loaded
    <3> QED BY <2>6, <3>1, <3>2
  <2> QED BY <1>4, <2>7, <2>8
<1> QED BY <1>7, <1>8

\* What is selected is on the list, or it is the model asked for.
LEMMA OnTheList ==
  ASSUME NEW r, NEW w, NEW key, NEW t, r \in t,
         NEW s \in Capped(r, w, key, t) \cup Substitutes(r, w, key, t)
  PROVE  \/ s \in Offered(t, key) /\ (s = r \/ Satisfies(s, w))
         \/ s = r /\ (~r.active \/ \A o \in Offered(t, key) : ~Satisfies(o, w))
<1>1. CASE s \in Substitutes(r, w, key, t)
  BY <1>1 DEF Substitutes, Alternatives, All, Offered
<1>2. CASE s \in Capped(r, w, key, t)
  <2> DEFINE open == {o \in All(t) : Permitted(o, key) /\ Satisfies(o, w)}
  <2>1. (s = r /\ (Permitted(r, key) \/ open = {})) \/ s \in open
    BY <1>2 DEF Capped
  <2>2. open = {o \in Offered(t, key) : Satisfies(o, w)}
    BY DEF Offered, Permitted
  <2>3. Permitted(r, key) /\ r.active => r \in Offered(t, key)
    BY DEF Offered, Permitted, All
  <2> QED BY <2>1, <2>2, <2>3
<1> QED BY <1>1, <1>2

\* Tables are loaded as they are ordered, and a seed is never gone back to.
CatalogueInv ==
  /\ Loaded(rows, source)
  /\ client \in {"shown", "asked"} =>
       Loaded(shown.rows, shown.source) /\ (source = "seed" => shown.source = "seed")

LEMMA LoadedTable == \A t \in Tables : Loaded(All(t), "database")
  BY CatalogueAssumption DEF Loaded, HasPlace, Providers, All

LEMMA CatalogueStep == CatalogueInv /\ [CatalogueNext]_catalogueVars => CatalogueInv'
<1> SUFFICES ASSUME CatalogueInv, [CatalogueNext]_catalogueVars PROVE CatalogueInv'
  OBVIOUS
<1> USE DEF CatalogueInv
<1>1. CASE Refresh
  BY <1>1, LoadedTable DEF Refresh
<1>2. CASE ListModels
  BY <1>2 DEF ListModels
<1>3. CASE AskFor
  BY <1>3 DEF AskFor
<1>4. CASE Serve
  BY <1>4 DEF Serve
<1>5. CASE Again
  BY <1>5 DEF Again
<1>6. CASE UNCHANGED catalogueVars
  BY <1>6 DEF catalogueVars
<1> QED BY <1>1, <1>2, <1>3, <1>4, <1>5, <1>6 DEF CatalogueNext

LEMMA CatalogueServes ==
  CatalogueInv /\ CatalogueNext /\ Serves =>
    NameKept /\ (Named(asked, rows, source) # {} => StaysOnTheList)
<1> SUFFICES ASSUME CatalogueInv, CatalogueNext, Serves
             PROVE  NameKept /\ (Named(asked, rows, source) # {} => StaysOnTheList)
  OBVIOUS
<1>1. Serve
  BY DEF CatalogueNext, Serves, Refresh, ListModels, AskFor, Again
<1>2. CASE Named(asked, rows, source) = {}
  <2>1. \A m \in Named(asked, shown.rows, shown.source), r \in rows : r.id # m.id
    BY <1>2, <1>1, SomeName DEF Serve, CatalogueInv
  <2> QED BY <1>2, <2>1 DEF NameKept
<1>3. CASE Named(asked, rows, source) # {}
  <2>1. wanted' \in Named(asked, rows, source)
    BY <1>1, <1>3 DEF Serve
  <2>2. sold' \in Capped(wanted', want, held, rows) \cup Substitutes(wanted', want, held, rows)
    BY <1>1, <1>3 DEF Serve
  <2>3. StaysOnTheList
    BY <2>1, <2>2, OnTheList DEF StaysOnTheList, Named
  <2>4. NameKept
    BY <1>1, <2>1, Keeps DEF Serve, CatalogueInv, NameKept, Newcomer
  <2> QED BY <2>3, <2>4
<1> QED BY <1>2, <1>3

\* A name that the list of models gives keeps its model through every load of the table, until
\* that model leaves or a new one takes the name, and what answers for a name is on the list or
\* is the model named (openai_compat.rs list_models, pricing.rs insert, router.rs route):
\* whatever the tables, the keys, the names and the requests.
THEOREM CatalogueHolds == Spec => CatalogueSafety
<1>1. Init => CatalogueInv
  <2>1. Loaded(SeedData, "seed")
    BY DEF Loaded
  <2> QED BY <2>1, LoadedTable DEF Init, CatalogueInit, CatalogueInv
<1>2. CatalogueInv /\ [Next]_vars => CatalogueInv'
  BY CatalogueStep, OfCatalogue
<1>3. CatalogueInv /\ [Next]_vars =>
        [Serves =>
           NameKept /\ (Named(asked, rows, source) # {} => StaysOnTheList)]_catalogueVars
  BY CatalogueServes, OfCatalogue
<1> QED BY <1>1, <1>2, <1>3, PTL DEF Spec, CatalogueSafety

-----------------------------------------------------------------------------
(* A conversation                                                          *)

\* The elements of s that are in S.
Picked(s, S) == Where(s, {i \in DOMAIN s : s[i] \in S})

\* Nothing but elements of S is picked.
LEMMA PickedIn ==
  ASSUME NEW T, NEW S
  PROVE  \A s \in Seq(T) : Picked(s, S) \in Seq(S)
<1> SUFFICES ASSUME NEW s \in Seq(T) PROVE Picked(s, S) \in Seq(S)
  OBVIOUS
<1> DEFINE I == {i \in DOMAIN s : s[i] \in S}
<1>1. \A i \in I : s[i] \in S
  OBVIOUS
<1> HIDE DEF I
<1>2. s \in Seq(T \cup {0})
  OBVIOUS
<1>3. PICK w \in Seq(T \cup {0}) : w = Where(s, I)
  BY <1>2, WhereAppend
<1>4. \A k \in 1 .. Len(w) : w[k] \in S
  BY <1>1, <1>3, WherePlaces DEF Whereabouts
<1> QED BY <1>3, <1>4 DEF Picked, I

\* One element more is picked or is not.
LEMMA PickedAppend ==
  ASSUME NEW T, NEW S
  PROVE  \A s \in Seq(T), e \in T :
           Picked(Append(s, e), S) = IF e \in S THEN Append(Picked(s, S), e) ELSE Picked(s, S)
<1> SUFFICES ASSUME NEW s \in Seq(T), NEW e \in T
             PROVE  Picked(Append(s, e), S) =
                      IF e \in S THEN Append(Picked(s, S), e) ELSE Picked(s, S)
  OBVIOUS
<1> DEFINE r == Append(s, e)
           I == {i \in DOMAIN s : s[i] \in S}
           J == {i \in DOMAIN r : r[i] \in S}
<1>1. r \in Seq(T) /\ Len(r) = Len(s) + 1 /\ r[Len(s) + 1] = e /\ \A i \in 1 .. Len(s) : r[i] = s[i]
  OBVIOUS
<1>2. DOMAIN r = 1 .. Len(s) + 1 /\ DOMAIN s = 1 .. Len(s) /\ Len(s) \in Nat
  BY <1>1
<1>3. Len(s) + 1 \in J <=> e \in S
  BY <1>1, <1>2
<1>4. \A i \in 1 .. Len(s) : i \in I <=> i \in J
  BY <1>1, <1>2
<1> HIDE DEF I, J
<1>5. Where(r, J) = IF Len(s) + 1 \in J THEN Append(Where(s, J), e) ELSE Where(s, J)
  BY WhereAppend
<1>6. Where(s, I) = Where(s, J)
  BY <1>4, WhereSame
<1> QED BY <1>3, <1>5, <1>6 DEF Picked, I, J

\* There is nothing to pick.
LEMMA PickedNone ==
  ASSUME NEW S
  PROVE  Picked(<<>>, S) = <<>>
BY WhereEmpty DEF Picked

\* Who is in S throughout is picked throughout.
LEMMA PickedAll ==
  ASSUME NEW S
  PROVE  \A s \in Seq(S) : Picked(s, S) = s
<1> SUFFICES ASSUME NEW s \in Seq(S) PROVE Where(s, {i \in DOMAIN s : s[i] \in S}) = s
  BY DEF Picked
<1>1. 1 .. Len(s) \subseteq {i \in DOMAIN s : s[i] \in S}
  OBVIOUS
<1> QED BY <1>1, WhereAll

\* Joining no sequences.
LEMMA FlattenNone == FlattenSeq(<<>>) = <<>>
<1>1. <<>> \in Seq(Seq({})) /\ Len(<<>>) = 0
  OBVIOUS
<1>2. PICK h : Joins(h, <<>>, Len(<<>>), {})
  BY <1>1, JoinsExists
<1> QED BY <1>1, <1>2, FlattenIs

\* F makes a sequence over T of every element of M.
Tells(F, M, T) == F \in [M -> Seq(T)]

\* What F makes of the elements of S, joined.
Tell(F, S, s) == FlattenSeq([i \in DOMAIN Picked(s, S) |-> F[Picked(s, S)[i]]])

\* There is nothing to tell.
LEMMA TellNothing ==
  ASSUME NEW F, NEW S
  PROVE  Tell(F, S, <<>>) = <<>>
<1>1. [i \in DOMAIN <<>> |-> F[<<>>[i]]] = <<>>
  OBVIOUS
<1> QED BY <1>1, PickedNone, FlattenNone DEF Tell

\* One element more is told behind the others.
Telling(F, S, M, T) ==
  \A s \in Seq(M), e \in M :
    /\ Tell(F, S, s) \in Seq(T)
    /\ Tell(F, S, Append(s, e)) = IF e \in S THEN Tell(F, S, s) \o F[e] ELSE Tell(F, S, s)

LEMMA TellAppend ==
  ASSUME NEW M, NEW T, NEW S, S \subseteq M, NEW F, Tells(F, M, T)
  PROVE  Telling(F, S, M, T)
<1> USE DEF Tells
<1> SUFFICES ASSUME NEW s \in Seq(M), NEW e \in M
             PROVE  /\ Tell(F, S, s) \in Seq(T)
                    /\ Tell(F, S, Append(s, e)) =
                         IF e \in S THEN Tell(F, S, s) \o F[e] ELSE Tell(F, S, s)
  BY DEF Telling
<1>1. PICK p \in Seq(S) : p = Picked(s, S)
  BY PickedIn
<1> DEFINE f == [i \in DOMAIN p |-> F[p[i]]]
           q == Append(p, e)
           g == [i \in DOMAIN q |-> F[q[i]]]
<1>2. f \in Seq(Seq(T)) /\ Len(f) = Len(p)
  <2>1. f = [i \in 1 .. Len(p) |-> F[p[i]]]
    OBVIOUS
  <2>2. \A i \in 1 .. Len(p) : F[p[i]] \in Seq(T)
    <3>1. \A i \in 1 .. Len(p) : p[i] \in M
      OBVIOUS
    <3> QED BY <3>1
  <2> QED BY <2>1, <2>2
<1>3. F[e] \in Seq(T)
  OBVIOUS
<1>4. CASE e \in S
  <2>1. q \in Seq(S) /\ Len(q) = Len(p) + 1 /\ q[Len(p) + 1] = e /\ \A i \in 1 .. Len(p) : q[i] = p[i]
    BY <1>4
  <2>2. DOMAIN q = 1 .. Len(p) + 1 /\ DOMAIN p = 1 .. Len(p) /\ Len(p) \in Nat
    BY <2>1
  <2>3. g = [i \in 1 .. Len(p) + 1 |-> F[q[i]]] /\ \A i \in 1 .. Len(p) : f[i] = F[q[i]]
    BY <2>1, <2>2
  <2>4. \A i \in 1 .. Len(p) + 1 : F[q[i]] \in Seq(T)
    <3>1. \A i \in 1 .. Len(p) + 1 : q[i] \in M
      BY <2>1
    <3> QED BY <3>1
  <2>5. g \in Seq(Seq(T)) /\ Len(g) = Len(p) + 1 /\ g[Len(p) + 1] = F[e]
    BY <2>1, <2>2, <2>3, <2>4
  <2>6. \A i \in 1 .. Len(p) : g[i] = f[i]
    BY <2>2, <2>3
  <2> HIDE DEF f, g, q
  <2>7. Append(f, F[e]) \in Seq(Seq(T)) /\ Len(Append(f, F[e])) = Len(p) + 1
    BY <1>2, <1>3
  <2>8. \A i \in 1 .. Len(p) + 1 : g[i] = Append(f, F[e])[i]
    BY <1>2, <1>3, <2>5, <2>6
  <2>9. g = Append(f, F[e])
    BY <2>5, <2>7, <2>8, SeqEqual
  <2>10. Picked(Append(s, e), S) = q
    BY <1>1, <1>4, PickedAppend DEF q
  <2>11. FlattenSeq(f) \in Seq(T) /\ FlattenSeq(g) = FlattenSeq(f) \o F[e]
    BY <1>2, <1>3, <2>9, FlattenAppend
  <2> QED BY <1>1, <1>4, <2>10, <2>11 DEF Tell, f, g, q
<1>5. CASE e \notin S
  <2>1. Picked(Append(s, e), S) = p
    BY <1>1, <1>5, PickedAppend
  <2>2. FlattenSeq(f) \in Seq(T)
    <3> HIDE DEF f
    <3> QED BY <1>2, <1>3, FlattenAppend
  <2> QED BY <1>1, <1>5, <2>1, <2>2 DEF Tell
<1> QED BY <1>4, <1>5

\* What is told is a sequence.
LEMMA TellTyped ==
  ASSUME NEW M, NEW T, NEW S, S \subseteq M, NEW F, Tells(F, M, T)
  PROVE  \A s \in Seq(M) : Tell(F, S, s) \in Seq(T)
<1>0. \A s \in Seq(M), e \in M :
        /\ Tell(F, S, s) \in Seq(T)
        /\ Tell(F, S, Append(s, e)) = IF e \in S THEN Tell(F, S, s) \o F[e] ELSE Tell(F, S, s)
  <2> Telling(F, S, M, T)
    BY TellAppend
  <2> QED BY DEF Telling
<1> DEFINE X == {s \in Seq(M) : Tell(F, S, s) \in Seq(T)}
<1>1. <<>> \in X
  <2>1. <<>> \in Seq(M) /\ <<>> \in Seq(T)
    OBVIOUS
  <2>2. Tell(F, S, <<>>) \in Seq(T)
    BY <2>1, TellNothing
  <2> QED BY <2>1, <2>2
<1>2. ASSUME NEW s \in Seq(M), NEW e \in M PROVE Append(s, e) \in X
  <2>1. Append(s, e) \in Seq(M)
    OBVIOUS
  <2> QED BY <1>0, <2>1
<1> HIDE DEF X
<1>3. Seq(M) \subseteq X
  BY <1>1, <1>2, ByAppending
<1> QED BY <1>3 DEF X

\* The first part is told before the second.
Continued(F, S, M, a) ==
  \A b \in Seq(M) : Tell(F, S, a \o b) = Tell(F, S, a) \o Tell(F, S, b)

LEMMA TellConcat ==
  ASSUME NEW M, NEW T, NEW S, S \subseteq M, NEW F, Tells(F, M, T), NEW a \in Seq(M)
  PROVE  Continued(F, S, M, a)
<1>0. \A s \in Seq(M), e \in M :
        /\ Tell(F, S, s) \in Seq(T)
        /\ Tell(F, S, Append(s, e)) = IF e \in S THEN Tell(F, S, s) \o F[e] ELSE Tell(F, S, s)
  <2> Telling(F, S, M, T)
    BY TellAppend
  <2> QED BY DEF Telling
<1> DEFINE X == {b \in Seq(M) : Tell(F, S, a \o b) = Tell(F, S, a) \o Tell(F, S, b)}
<1>1. <<>> \in X
  <2>1. a \o <<>> = a /\ Tell(F, S, a) \in Seq(T)
    BY TellTyped
  <2> QED BY <2>1, TellNothing
<1>2. ASSUME NEW b \in Seq(M), NEW e \in M, b \in X PROVE Append(b, e) \in X
  <2>1. a \o Append(b, e) = Append(a \o b, e) /\ a \o b \in Seq(M) /\ Append(b, e) \in Seq(M)
    OBVIOUS
  <2>2. Tell(F, S, a) \in Seq(T) /\ Tell(F, S, b) \in Seq(T) /\ F[e] \in Seq(T)
    BY TellTyped DEF Tells
  <2>3. Tell(F, S, a) \o (Tell(F, S, b) \o F[e]) = (Tell(F, S, a) \o Tell(F, S, b)) \o F[e]
    <3>1. PICK u \in Seq(T), v \in Seq(T), w \in Seq(T) : u = Tell(F, S, a) /\ v = Tell(F, S, b) /\ w = F[e]
      BY <2>2
    <3>2. u \o (v \o w) = (u \o v) \o w
      BY ConcatAssociative
    <3> QED BY <3>1, <3>2
  <2>4. Tell(F, S, Append(a \o b, e)) =
          IF e \in S THEN Tell(F, S, a \o b) \o F[e] ELSE Tell(F, S, a \o b)
    BY <2>1, <1>0
  <2>5. Tell(F, S, Append(b, e)) = IF e \in S THEN Tell(F, S, b) \o F[e] ELSE Tell(F, S, b)
    BY <1>0
  <2>6. Tell(F, S, a \o b) = Tell(F, S, a) \o Tell(F, S, b)
    BY <1>2
  <2> QED BY <2>1, <2>3, <2>4, <2>5, <2>6
<1> HIDE DEF X
<1>3. Seq(M) \subseteq X
  BY <1>1, <1>2, ByAppending
<1> QED BY <1>3 DEF X, Continued

\* Elements that are not in S tell nothing.
LEMMA TellOthers ==
  ASSUME NEW M, NEW T, NEW S, S \subseteq M, NEW F, Tells(F, M, T)
  PROVE  \A s \in Seq(M \ S) : Tell(F, S, s) = <<>>
<1>0. \A s \in Seq(M), e \in M :
        /\ Tell(F, S, s) \in Seq(T)
        /\ Tell(F, S, Append(s, e)) = IF e \in S THEN Tell(F, S, s) \o F[e] ELSE Tell(F, S, s)
  <2> Telling(F, S, M, T)
    BY TellAppend
  <2> QED BY DEF Telling
<1> DEFINE X == {s \in Seq(M \ S) : Tell(F, S, s) = <<>>}
<1>1. <<>> \in X
  BY TellNothing
<1>2. ASSUME NEW s \in Seq(M \ S), NEW e \in M \ S, s \in X PROVE Append(s, e) \in X
  <2>1. s \in Seq(M)
    OBVIOUS
  <2>2. Tell(F, S, Append(s, e)) = Tell(F, S, s)
    BY <2>1, <1>0
  <2> QED BY <1>2, <2>2
<1> HIDE DEF X
<1>3. Seq(M \ S) \subseteq X
  BY <1>1, <1>2, ByAppending
<1> QED BY <1>3 DEF X

\* What is picked tells what all told, if nobody of S was left out.
LEMMA TellPicked ==
  ASSUME NEW M, NEW T, NEW S, NEW R, S \subseteq R, R \subseteq M, NEW F, Tells(F, M, T)
  PROVE  \A s \in Seq(M) : Tell(F, S, Picked(s, R)) = Tell(F, S, s)
<1>0. \A s \in Seq(M), e \in M :
        /\ Tell(F, S, s) \in Seq(T)
        /\ Tell(F, S, Append(s, e)) = IF e \in S THEN Tell(F, S, s) \o F[e] ELSE Tell(F, S, s)
  <2> Telling(F, S, M, T)
    BY TellAppend
  <2> QED BY DEF Telling
<1> DEFINE X == {s \in Seq(M) : Tell(F, S, Picked(s, R)) = Tell(F, S, s)}
<1>1. <<>> \in X
  BY PickedNone
<1>2. ASSUME NEW s \in Seq(M), NEW e \in M, s \in X PROVE Append(s, e) \in X
  <2>1. PICK p \in Seq(M) : p = Picked(s, R)
    <3>1. Picked(s, R) \in Seq(R)
      BY PickedIn
    <3> QED BY <3>1
  <2>2. Picked(Append(s, e), R) = IF e \in R THEN Append(p, e) ELSE p
    BY <2>1, PickedAppend
  <2>3. Tell(F, S, Append(s, e)) = IF e \in S THEN Tell(F, S, s) \o F[e] ELSE Tell(F, S, s)
    BY <1>0
  <2>4. Tell(F, S, Append(p, e)) = IF e \in S THEN Tell(F, S, p) \o F[e] ELSE Tell(F, S, p)
    BY <1>0
  <2>5. Tell(F, S, p) = Tell(F, S, s)
    BY <1>2, <2>1
  <2>6. e \in S => e \in R
    OBVIOUS
  <2> DEFINE v == Picked(Append(s, e), R)
  <2>7. v = IF e \in R THEN Append(p, e) ELSE p
    BY <2>2
  <2> HIDE DEF v
  <2>8. Tell(F, S, v) = IF e \in S THEN Tell(F, S, p) \o F[e] ELSE Tell(F, S, p)
    BY <2>4, <2>6, <2>7
  <2>9. Tell(F, S, v) = Tell(F, S, Append(s, e)) /\ Append(s, e) \in Seq(M)
    BY <2>3, <2>5, <2>8
  <2> QED BY <2>9 DEF v
<1> HIDE DEF X
<1>3. Seq(M) \subseteq X
  BY <1>1, <1>2, ByAppending
<1> QED BY <1>3 DEF X

\* The parts that are texts.
Texts == {p \in Part : p.kind = "text"}

\* Those who instruct, and the others.
Instructors == {m \in Message : Instructs(m)}
Speakers == {m \in Message : ~Instructs(m)}

\* OfKind picks the texts.
LEMMA TextsOf ==
  \A s \in Seq(Part) : OfKind(s, {"text"}) = Picked(s, Texts) /\ Picked(s, Texts) \in Seq(Texts)
<1> SUFFICES ASSUME NEW s \in Seq(Part)
             PROVE  OfKind(s, {"text"}) = Picked(s, Texts) /\ Picked(s, Texts) \in Seq(Texts)
  OBVIOUS
<1>1. {i \in DOMAIN s : s[i].kind \in {"text"}} = {i \in DOMAIN s : s[i] \in Texts}
  BY DEF Texts
<1>2. Picked(s, Texts) \in Seq(Texts)
  BY PickedIn
<1> QED BY <1>1, <1>2 DEF OfKind, Picked

\* text_content of a message.
LEMMA TextContentOf ==
  \A m \in Message : TextContent(m) = Picked(m.content, Texts) /\ TextContent(m) \in Seq(Texts)
BY TextsOf DEF TextContent, Message

\* The texts of a message, and its lines with who said them.
TextsIn == [m \in Message |-> TextContent(m)]
LinesIn == [m \in Message |-> Lines(m)]
Spoken  == {"assistant", "user"} \X Texts

\* What TextsIn and LinesIn make of a message.
LEMMA TextsTold == Tells(TextsIn, Message, Texts)
BY TextContentOf DEF Tells, TextsIn

LEMMA LinesTold == Tells(LinesIn, Message, Spoken)
<1>1. ASSUME NEW m \in Message PROVE Lines(m) \in Seq(Spoken)
  <2>1. PICK s \in Seq(Texts) : s = TextContent(m)
    BY TextContentOf
  <2>2. Lines(m) = [i \in 1 .. Len(s) |-> <<By(m), s[i]>>]
    BY <2>1 DEF Lines
  <2>3. \A i \in 1 .. Len(s) : <<By(m), s[i]>> \in Spoken
    BY DEF By, Spoken
  <2> QED BY <2>2, <2>3
<1> QED BY <1>1 DEF Tells, LinesIn

\* The roles that instruct.
LEMMA WhoInstructs ==
  \A ms \in Seq(Message) :
    /\ {i \in DOMAIN ms : ms[i].role \in {"system", "developer"}} = {i \in DOMAIN ms : ms[i] \in Instructors}
    /\ {i \in DOMAIN ms : Instructs(ms[i])} = {i \in DOMAIN ms : ms[i] \in Instructors}
    /\ {i \in DOMAIN ms : ms[i].role \notin {"system", "developer"}} = {i \in DOMAIN ms : ms[i] \in Speakers}
    /\ {i \in DOMAIN ms : ~Instructs(ms[i])} = {i \in DOMAIN ms : ms[i] \in Speakers}
<1> SUFFICES ASSUME NEW ms \in Seq(Message)
             PROVE  \A i \in DOMAIN ms :
                      /\ ms[i].role \in {"system", "developer"} <=> ms[i] \in Instructors
                      /\ ms[i].role \in {"system", "developer"} <=> Instructs(ms[i])
                      /\ ms[i] \in Speakers <=> ~Instructs(ms[i])
  OBVIOUS
<1>1. \A i \in DOMAIN ms : ms[i] \in Message
  OBVIOUS
<1> QED BY <1>1 DEF Instructors, Speakers, Instructs

\* system_text is what a conversation instructs.
LEMMA InstructedIs ==
  \A ms \in Seq(Message) :
    /\ Instructed(ms) = Tell(TextsIn, Instructors, ms)
    /\ SystemText(ms) = Instructed(ms)
<1> SUFFICES ASSUME NEW ms \in Seq(Message)
             PROVE  Instructed(ms) = Tell(TextsIn, Instructors, ms) /\ SystemText(ms) = Instructed(ms)
  OBVIOUS
<1>1. PICK p \in Seq(Instructors) : p = Picked(ms, Instructors)
  BY PickedIn
<1>2. Instructed(ms) = Joined(p) /\ SystemText(ms) = Joined(p)
  BY <1>1, WhoInstructs DEF Instructed, SystemText, Picked
<1>3. [i \in DOMAIN p |-> TextContent(p[i])] = [i \in DOMAIN p |-> TextsIn[p[i]]]
  <2>1. \A i \in DOMAIN p : p[i] \in Message
    BY DEF Instructors
  <2> QED BY <2>1 DEF TextsIn
<1> QED BY <1>1, <1>2, <1>3 DEF Joined, Tell

\* Said tells the lines of those who speak.
LEMMA SaidIs ==
  \A ms \in Seq(Message) : Said(ms) = Tell(LinesIn, Speakers, ms)
<1> SUFFICES ASSUME NEW ms \in Seq(Message) PROVE Said(ms) = Tell(LinesIn, Speakers, ms)
  OBVIOUS
<1>1. PICK p \in Seq(Speakers) : p = Picked(ms, Speakers)
  BY PickedIn
<1>2. Said(ms) = FlattenSeq([i \in DOMAIN p |-> Lines(p[i])])
  BY <1>1, WhoInstructs DEF Said, Picked
<1>3. [i \in DOMAIN p |-> Lines(p[i])] = [i \in DOMAIN p |-> LinesIn[p[i]]]
  <2>1. \A i \in DOMAIN p : p[i] \in Message
    BY DEF Speakers
  <2> QED BY <2>1 DEF LinesIn
<1> QED BY <1>1, <1>2, <1>3 DEF Tell

\* What is told of instructions and of speech, one behind the other.
LEMMA BothConcat ==
  ASSUME NEW a \in Seq(Message), NEW b \in Seq(Message)
  PROVE  /\ Instructed(a \o b) = Instructed(a) \o Instructed(b)
         /\ Said(a \o b) = Said(a) \o Said(b)
         /\ Instructed(a) \in Seq(Texts) /\ Said(a) \in Seq(Spoken)
<1>1. Instructors \subseteq Message /\ Speakers \subseteq Message
  BY DEF Instructors, Speakers
<1>2. Tell(TextsIn, Instructors, a \o b) = Tell(TextsIn, Instructors, a) \o Tell(TextsIn, Instructors, b)
  <2>1. Continued(TextsIn, Instructors, Message, a)
    BY <1>1, TextsTold, TellConcat
  <2> QED BY <2>1 DEF Continued
<1>3. Tell(LinesIn, Speakers, a \o b) = Tell(LinesIn, Speakers, a) \o Tell(LinesIn, Speakers, b)
  <2>1. Continued(LinesIn, Speakers, Message, a)
    BY <1>1, LinesTold, TellConcat
  <2> QED BY <2>1 DEF Continued
<1>4. Tell(TextsIn, Instructors, a) \in Seq(Texts) /\ Tell(LinesIn, Speakers, a) \in Seq(Spoken)
  BY <1>1, TextsTold, LinesTold, TellTyped
<1>5. a \o b \in Seq(Message)
  OBVIOUS
<1> QED BY <1>2, <1>3, <1>4, <1>5, InstructedIs, SaidIs

\* Who does not instruct instructs nothing; who instructs says nothing.
LEMMA EachItsOwn ==
  /\ \A ms \in Seq(Speakers) : Instructed(ms) = <<>>
  /\ \A ms \in Seq(Instructors) : Said(ms) = <<>>
<1>1. /\ Instructors \subseteq Message /\ Speakers \subseteq Message
      /\ Message \ Instructors = Speakers /\ Message \ Speakers = Instructors
  BY DEF Instructors, Speakers
<1>2. \A ms \in Seq(Message \ Instructors) : Tell(TextsIn, Instructors, ms) = <<>>
  BY <1>1, TextsTold, TellOthers
<1>3. \A ms \in Seq(Message \ Speakers) : Tell(LinesIn, Speakers, ms) = <<>>
  BY <1>1, LinesTold, TellOthers
<1>4. Seq(Speakers) \subseteq Seq(Message) /\ Seq(Instructors) \subseteq Seq(Message)
  BY <1>1
<1> QED BY <1>1, <1>2, <1>3, <1>4, InstructedIs, SaidIs

\* One instruction by itself.
LEMMA OneInstructs ==
  ASSUME NEW x \in Instructors
  PROVE  Instructed(<<x>>) = TextContent(x) /\ Said(<<x>>) = <<>>
<1>1. Instructors \subseteq Message /\ x \in Message
  BY DEF Instructors
<1>2. Telling(TextsIn, Instructors, Message, Texts)
  BY <1>1, TextsTold, TellAppend
<1>3. Append(<<>>, x) = <<x>> /\ <<>> \in Seq(Message)
  BY <1>1
<1>4. Tell(TextsIn, Instructors, Append(<<>>, x)) = Tell(TextsIn, Instructors, <<>>) \o TextsIn[x]
  BY <1>1, <1>2, <1>3 DEF Telling
<1>5. TextContent(x) \in Seq(Texts) /\ TextsIn[x] = TextContent(x)
  BY <1>1, TextContentOf DEF TextsIn
<1>6. <<>> \o TextContent(x) = TextContent(x)
  BY <1>5
<1>7. Instructed(<<x>>) = TextContent(x)
  <2>1. Tell(TextsIn, Instructors, <<x>>) = TextContent(x)
    BY <1>3, <1>4, <1>5, <1>6, TellNothing
  <2>2. <<x>> \in Seq(Message)
    BY <1>1
  <2> QED BY <2>1, <2>2, InstructedIs
<1>8. <<x>> \in Seq(Instructors)
  OBVIOUS
<1> QED BY <1>7, <1>8, EachItsOwn

\* Those who speak say the same without the others.
LEMMA SpeakersSay ==
  \A ms \in Seq(Message) : LET p == Picked(ms, Speakers) IN
    p \in Seq(Speakers) /\ p \in Seq(Message) /\ Said(p) = Said(ms) /\ Instructed(p) = <<>>
<1> SUFFICES ASSUME NEW ms \in Seq(Message)
             PROVE  LET p == Picked(ms, Speakers) IN
                      p \in Seq(Speakers) /\ p \in Seq(Message) /\ Said(p) = Said(ms) /\ Instructed(p) = <<>>
  OBVIOUS
<1>1. Speakers \subseteq Speakers /\ Speakers \subseteq Message
  BY DEF Speakers
<1>2. PICK p \in Seq(Speakers) : p = Picked(ms, Speakers)
  BY PickedIn
<1>3. p \in Seq(Message)
  BY <1>1, <1>2
<1>4. \A s \in Seq(Message) : Tell(LinesIn, Speakers, Picked(s, Speakers)) = Tell(LinesIn, Speakers, s)
  BY <1>1, LinesTold, TellPicked
<1> QED BY <1>2, <1>3, <1>4, SaidIs, EachItsOwn

\* normalize leaves what is instructed and what is said.
LEMMA NormalizeKeeps ==
  ASSUME NEW h \in Seq(Message), NEW n, n = Normalize(h),
         endpoint # "openai" => \A i \in 1 .. Len(h) : h[i].role # "developer"
  PROVE  n \in Seq(Message) /\ Instructed(n) = Instructed(h) /\ Said(n) = Said(h)
<1>1. CASE endpoint = "openai"
  BY <1>1 DEF Normalize
<1>2. CASE endpoint # "openai"
  <2>1. /\ {i \in DOMAIN h : h[i].role = "system"} = {i \in DOMAIN h : h[i] \in Instructors}
        /\ {i \in DOMAIN h : h[i].role # "system"} = {i \in DOMAIN h : h[i] \in Speakers}
    <3>1. \A i \in DOMAIN h : h[i] \in Message /\ h[i].role # "developer"
      BY <1>2
    <3> QED BY <3>1 DEF Instructors, Speakers, Instructs
  <2>2. PICK c \in Seq(Texts) : c = Instructed(h)
    BY BothConcat
  <2>3. Joined(Where(h, {i \in DOMAIN h : h[i].role = "system"})) = c
    BY <2>1, <2>2, InstructedIs, WhoInstructs DEF SystemText
  <2>4. PICK p \in Seq(Speakers) : p \in Seq(Message) /\ Said(p) = Said(h) /\ Instructed(p) = <<>>
                                   /\ p = Where(h, {i \in DOMAIN h : h[i].role # "system"})
    BY <2>1, SpeakersSay DEF Picked
  <2> DEFINE x == [role |-> "system", content |-> c, calls |-> <<>>, answers |-> <<>>]
  <2>5. n = (IF c = <<>> THEN <<>> ELSE <<x>>) \o p
    BY <1>2, <2>3, <2>4 DEF Normalize
  <2>6. x \in Instructors /\ TextContent(x) = c
    <3>1. c \in Seq(Part)
      BY DEF Texts
    <3>2. x \in Message /\ x.content = c
      BY <3>1 DEF Message, Role
    <3>3. TextContent(x) = Picked(c, Texts)
      BY <3>2, TextContentOf
    <3> QED BY <3>2, <3>3, PickedAll DEF Instructors, Instructs
  <2> HIDE DEF x
  <2>7. CASE c = <<>>
    BY <2>2, <2>4, <2>5, <2>7
  <2>8. CASE c # <<>>
    <3>1. <<x>> \in Seq(Message) /\ n = <<x>> \o p
      BY <2>5, <2>6, <2>8 DEF Instructors
    <3>2. Instructed(n) = c \o <<>> /\ Said(n) = <<>> \o Said(p)
      BY <2>4, <2>6, <3>1, OneInstructs, BothConcat
    <3>3. Said(p) \in Seq(Spoken)
      BY <2>4, BothConcat
    <3>4. c \o <<>> = c /\ <<>> \o Said(p) = Said(p)
      BY <3>3
    <3> QED BY <2>2, <2>4, <3>1, <3>2, <3>4
  <2> QED BY <2>7, <2>8
<1> QED BY <1>1, <1>2

\* TextTurns leaves what is said and instructs nothing.
LEMMA TextTurnsSay ==
  ASSUME NEW ms \in Seq(Message), NEW t, t = TextTurns(ms)
  PROVE  t \in Seq(Message) /\ Instructed(t) = <<>> /\ Said(t) = Said(ms)
<1>1. PICK p \in Seq(Speakers) : p = Picked(ms, Speakers)
  BY PickedIn
<1>2. Where(ms, {i \in DOMAIN ms : ~Instructs(ms[i])}) = p
  BY <1>1, WhoInstructs DEF Picked
<1> DEFINE u(m) == [role |-> IF m.role = "assistant" THEN "assistant" ELSE "user",
                    content |-> TextContent(m), calls |-> <<>>, answers |-> <<>>]
<1>3. t = [i \in 1 .. Len(p) |-> u(p[i])]
  <2>1. t = [i \in DOMAIN p |-> u(p[i])]
    BY <1>2 DEF TextTurns
  <2>2. DOMAIN p = 1 .. Len(p)
    OBVIOUS
  <2> QED BY <2>1, <2>2
<1>4. \A m \in Speakers : u(m) \in Speakers /\ Lines(u(m)) = Lines(m)
  <2> SUFFICES ASSUME NEW m \in Speakers PROVE u(m) \in Speakers /\ Lines(u(m)) = Lines(m)
    OBVIOUS
  <2>1. PICK s \in Seq(Texts) : s = TextContent(m)
    BY TextContentOf DEF Speakers
  <2>2. s \in Seq(Part)
    BY DEF Texts
  <2>3. u(m) \in Message /\ u(m).content = s /\ u(m).role \in {"assistant", "user"}
        /\ By(u(m)) = By(m)
    BY <2>1, <2>2 DEF Message, Role, By
  <2>4. TextContent(u(m)) = Picked(s, Texts)
    BY <2>3, TextContentOf
  <2>5. TextContent(u(m)) = s
    BY <2>4, PickedAll
  <2> HIDE DEF u
  <2> QED BY <2>1, <2>3, <2>5 DEF Speakers, Instructs, Lines
<1> HIDE DEF u
<1>5. t \in Seq(Speakers) /\ Len(t) = Len(p) /\ \A i \in 1 .. Len(p) : t[i] = u(p[i])
  BY <1>3, <1>4
<1>6. t \in Seq(Message)
  BY <1>5 DEF Speakers
<1>7. Picked(t, Speakers) = t
  BY <1>5, PickedAll
<1>8. Said(t) = FlattenSeq([i \in DOMAIN t |-> Lines(t[i])])
  BY <1>6, <1>7, WhoInstructs DEF Said, Picked
<1>9. Said(ms) = FlattenSeq([i \in DOMAIN p |-> Lines(p[i])])
  BY <1>1, WhoInstructs DEF Said, Picked
<1>10. [i \in DOMAIN t |-> Lines(t[i])] = [i \in DOMAIN p |-> Lines(p[i])]
  <2>1. DOMAIN t = 1 .. Len(p) /\ DOMAIN p = 1 .. Len(p)
    BY <1>5
  <2>2. \A i \in 1 .. Len(p) : Lines(t[i]) = Lines(p[i])
    BY <1>4, <1>5
  <2> QED BY <2>1, <2>2
<1> QED BY <1>5, <1>6, <1>8, <1>9, <1>10, EachItsOwn

\* build_body keeps what is instructed and what is said.
LEMMA BodyKeeps ==
  ASSUME NEW n \in Seq(Message), NEW wire \in Wire, NEW b, b = BuildBody(wire, n)
  PROVE  b.system \o Instructed(b.turns) = Instructed(n) /\ Said(b.turns) = Said(n)
<1>1. Instructed(n) \in Seq(Texts)
  BY BothConcat
<1>2. CASE wire \in {"openai", "deepseek"}
  <2>1. b.system = <<>> /\ b.turns = n
    BY <1>2 DEF BuildBody, OpenAiBody
  <2>2. <<>> \o Instructed(n) = Instructed(n)
    BY <1>1
  <2> QED BY <2>1, <2>2
<1>3. CASE wire \in {"anthropic", "google"}
  <2>1. b.system = Instructed(n) /\ b.turns = TextTurns(n)
    BY <1>3, InstructedIs DEF BuildBody, AnthropicBody, GoogleBody
  <2>2. Instructed(n) \o <<>> = Instructed(n)
    BY <1>1
  <2> QED BY <2>1, <2>2, TextTurnsSay
<1> QED BY <1>2, <1>3 DEF Wire

\* What an answer is made of.
Block == {p \in Part : p.kind \in {"text", "call"}}
Calling == {p \in Part : p.kind = "call"}

\* One element more is in the set.
LEMMA AppendedSet ==
  ASSUME NEW T, NEW s \in Seq(T), NEW e \in T
  PROVE  ToSet(Append(s, e)) = ToSet(s) \cup {e} /\ Len(Append(s, e)) = Len(s) + 1
<1> DEFINE r == Append(s, e)
<1>1. r \in Seq(T) /\ Len(r) = Len(s) + 1 /\ r[Len(s) + 1] = e /\ \A i \in 1 .. Len(s) : r[i] = s[i]
  OBVIOUS
<1>2. DOMAIN r = 1 .. Len(s) + 1 /\ DOMAIN s = 1 .. Len(s) /\ Len(s) \in Nat
  BY <1>1
<1> HIDE DEF r
<1>3. \A i \in 1 .. Len(s) + 1 : i = Len(s) + 1 \/ i \in 1 .. Len(s)
  BY <1>2
<1>4. {r[i] : i \in 1 .. Len(s) + 1} = {s[i] : i \in 1 .. Len(s)} \cup {e}
  <2>1. \A i \in 1 .. Len(s) : r[i] = s[i] /\ i \in 1 .. Len(s) + 1
    BY <1>1, <1>2
  <2>2. Len(s) + 1 \in 1 .. Len(s) + 1
    BY <1>2
  <2> QED BY <1>1, <1>3, <2>1, <2>2
<1> QED BY <1>1, <1>2, <1>4 DEF ToSet, r

\* Texts and calls apart are all of an answer.
LEMMA BlocksApart ==
  \A s \in Seq(Block) :
    /\ Picked(s, Texts) \in Seq(Block) /\ Picked(s, Calling) \in Seq(Block)
    /\ Len(Picked(s, Texts)) + Len(Picked(s, Calling)) = Len(s)
    /\ ToSet(Picked(s, Texts)) \cup ToSet(Picked(s, Calling)) = ToSet(s)
<1> DEFINE X == {s \in Seq(Block) :
                   /\ Picked(s, Texts) \in Seq(Block) /\ Picked(s, Calling) \in Seq(Block)
                   /\ Len(Picked(s, Texts)) + Len(Picked(s, Calling)) = Len(s)
                   /\ ToSet(Picked(s, Texts)) \cup ToSet(Picked(s, Calling)) = ToSet(s)}
<1>1. <<>> \in X
  <2>1. <<>> \in Seq(Block) /\ Len(<<>>) + Len(<<>>) = Len(<<>>)
    OBVIOUS
  <2>2. ToSet(<<>>) \cup ToSet(<<>>) = ToSet(<<>>)
    OBVIOUS
  <2>3. Picked(<<>>, Texts) = <<>> /\ Picked(<<>>, Calling) = <<>>
    BY PickedNone
  <2> QED BY <2>1, <2>2, <2>3
<1>2. ASSUME NEW s \in Seq(Block), NEW e \in Block, s \in X PROVE Append(s, e) \in X
  <2>1. PICK a \in Seq(Block), b \in Seq(Block) : a = Picked(s, Texts) /\ b = Picked(s, Calling)
    BY <1>2
  <2>2. Len(a) + Len(b) = Len(s) /\ ToSet(a) \cup ToSet(b) = ToSet(s)
    BY <1>2, <2>1
  <2>3. /\ Picked(Append(s, e), Texts) = IF e \in Texts THEN Append(a, e) ELSE a
        /\ Picked(Append(s, e), Calling) = IF e \in Calling THEN Append(b, e) ELSE b
    BY <2>1, PickedAppend
  <2>4. (e \in Texts /\ e \notin Calling) \/ (e \in Calling /\ e \notin Texts)
    BY DEF Block, Texts, Calling
  <2> DEFINE c == Picked(Append(s, e), Texts)
             d == Picked(Append(s, e), Calling)
  <2>5. Append(s, e) \in Seq(Block)
    OBVIOUS
  <2>6. /\ ToSet(Append(s, e)) = ToSet(s) \cup {e} /\ Len(Append(s, e)) = Len(s) + 1
        /\ ToSet(Append(a, e)) = ToSet(a) \cup {e} /\ Len(Append(a, e)) = Len(a) + 1
        /\ ToSet(Append(b, e)) = ToSet(b) \cup {e} /\ Len(Append(b, e)) = Len(b) + 1
    BY AppendedSet
  <2>7. (c = Append(a, e) /\ d = b) \/ (c = a /\ d = Append(b, e))
    BY <2>3, <2>4
  <2>8. c \in Seq(Block) /\ d \in Seq(Block)
    <3>1. Append(a, e) \in Seq(Block) /\ Append(b, e) \in Seq(Block)
      OBVIOUS
    <3> HIDE DEF c, d
    <3> QED BY <2>7, <3>1
  <2> HIDE DEF c, d
  <2>9. Len(c) + Len(d) = Len(Append(s, e))
    BY <2>2, <2>6, <2>7
  <2>10. ToSet(c) \cup ToSet(d) = ToSet(Append(s, e))
    BY <2>2, <2>6, <2>7
  <2> QED BY <2>5, <2>8, <2>9, <2>10 DEF c, d
<1> HIDE DEF X
<1>3. Seq(Block) \subseteq X
  BY <1>1, <1>2, ByAppending
<1> QED BY <1>3 DEF X

\* to_anthropic_response: texts and then calls.
LEMMA Reordered ==
  ASSUME NEW s \in Seq(Block), NEW w, w = OfKind(s, {"text"}) \o OfKind(s, {"call"})
  PROVE  w \in Seq(Block) /\ ToSet(w) = ToSet(s) /\ Len(w) = Len(s)
<1>1. /\ {i \in DOMAIN s : s[i].kind \in {"text"}} = {i \in DOMAIN s : s[i] \in Texts}
      /\ {i \in DOMAIN s : s[i].kind \in {"call"}} = {i \in DOMAIN s : s[i] \in Calling}
  <2>1. \A i \in DOMAIN s : s[i] \in Part
    BY DEF Block
  <2> QED BY <2>1 DEF Texts, Calling
<1>2. PICK a \in Seq(Block), b \in Seq(Block) : a = Picked(s, Texts) /\ b = Picked(s, Calling)
  BY BlocksApart
<1>3. w = a \o b
  BY <1>1, <1>2 DEF OfKind, Picked
<1>4. Len(a) + Len(b) = Len(s) /\ ToSet(a) \cup ToSet(b) = ToSet(s)
  BY <1>2, BlocksApart
<1>5. /\ w \in Seq(Block) /\ Len(w) = Len(a) + Len(b)
      /\ \A i \in 1 .. Len(a) : w[i] = a[i]
      /\ \A i \in 1 .. Len(b) : w[Len(a) + i] = b[i]
  <2>1. /\ a \o b \in Seq(Block) /\ Len(a \o b) = Len(a) + Len(b)
        /\ \A i \in 1 .. Len(a) : (a \o b)[i] = a[i]
        /\ \A i \in 1 .. Len(b) : (a \o b)[Len(a) + i] = b[i]
    OBVIOUS
  <2> QED BY <1>3, <2>1
<1>6. ToSet(w) = ToSet(a) \cup ToSet(b)
  <2>0. /\ ToSet(w) = {w[i] : i \in 1 .. Len(w)} /\ ToSet(a) = {a[i] : i \in 1 .. Len(a)}
        /\ ToSet(b) = {b[i] : i \in 1 .. Len(b)}
    <3>1. DOMAIN w = 1 .. Len(w) /\ DOMAIN a = 1 .. Len(a) /\ DOMAIN b = 1 .. Len(b)
      BY <1>5
    <3> QED BY <3>1 DEF ToSet
  <2>1. ASSUME NEW i \in 1 .. Len(w) PROVE w[i] \in ToSet(a) \cup ToSet(b)
    <3>1. CASE i \in 1 .. Len(a)
      BY <1>5, <2>0, <3>1
    <3>2. CASE i \notin 1 .. Len(a)
      <4>1. i - Len(a) \in 1 .. Len(b) /\ i = Len(a) + (i - Len(a))
        BY <1>5, <3>2
      <4>2. w[i] = b[i - Len(a)]
        BY <1>5, <4>1
      <4> QED BY <2>0, <4>1, <4>2
    <3> QED BY <3>1, <3>2
  <2>2. ASSUME NEW i \in 1 .. Len(a) PROVE a[i] \in ToSet(w)
    <3>1. i \in 1 .. Len(w)
      BY <1>5
    <3> QED BY <1>5, <2>0, <3>1
  <2>3. ASSUME NEW i \in 1 .. Len(b) PROVE b[i] \in ToSet(w)
    <3>1. Len(a) + i \in 1 .. Len(w)
      BY <1>5
    <3> QED BY <1>5, <2>0, <3>1
  <2>4. ToSet(w) \subseteq ToSet(a) \cup ToSet(b)
    BY <2>0, <2>1
  <2>5. ToSet(a) \subseteq ToSet(w) /\ ToSet(b) \subseteq ToSet(w)
    BY <2>0, <2>2, <2>3
  <2> QED BY <2>4, <2>5
<1> QED BY <1>4, <1>5, <1>6

\* What a provider reports.
Usage == [fresh : Nat, cached : Nat, written : Nat, output : Nat]

\* The turn of a conversation, and what is on its way.
TransTyped ==
  /\ endpoint \in {"openai", "anthropic"} /\ served \in Wire /\ parts \in 0 .. MaxParts
  /\ turn \in {"caller", "provider", "gateway", "answered"}
  /\ history \in Seq(Message)

\* Anthropic's callers have no role "developer".
OwnRoles == endpoint # "openai" => \A i \in 1 .. Len(history) : history[i].role # "developer"

\* What an answer and its reply are made of.
MadeOfBlocks ==
  /\ turn \in {"gateway", "answered"} => answer.blocks \in Seq(Block) /\ answer.usage \in Usage
  /\ turn = "answered" => reply.blocks \in Seq(Block)

\* The inductive invariant.
TransInv == TransTyped /\ OwnRoles /\ MadeOfBlocks /\ PromptKept /\ AnswerKept

\* The initial states satisfy the invariant.
LEMMA TransBegin == TransInit => TransInv
BY TranslationAssumption
   DEF TransInit, TransInv, TransTyped, OwnRoles, MadeOfBlocks, PromptKept, AnswerKept, Wire

\* New parts.
LEMMA Numbered ==
  ASSUME TransTyped, NEW n \in Nat, parts + n <= MaxParts, NEW i \in 1 .. n,
         NEW kind \in {"text", "image", "call", "result"}
  PROVE  New(kind, i) \in Part
BY TranslationAssumption DEF TransTyped, New, Part

\* Speaking numbers its parts.
LEMMA SpeakStep ==
  ASSUME TransInv, NEW role \in {"system", "developer", "user"},
         NEW kinds \in {<<"text">>, <<"image", "text">>}, Speak(role, kinds)
  PROVE  TransInv'
<1> USE TranslationAssumption
<1>1. kinds \in Seq({"text", "image", "call", "result"}) /\ Len(kinds) \in {1, 2}
  <2>1. CASE kinds = <<"text">>
    BY <2>1
  <2>2. CASE kinds = <<"image", "text">>
    BY <2>2
  <2> QED BY <2>1, <2>2
<1> DEFINE c == [i \in DOMAIN kinds |-> New(kinds[i], i)]
           m == [role |-> role, content |-> c, calls |-> <<>>, answers |-> <<>>]
<1>2. c \in Seq(Part)
  <2>1. \A i \in 1 .. Len(kinds) : New(kinds[i], i) \in Part
    BY <1>1, Numbered DEF Speak, TransInv
  <2>2. DOMAIN kinds = 1 .. Len(kinds)
    BY <1>1
  <2> QED BY <1>1, <2>1, <2>2
<1>3. history' = Append(history, m) /\ turn = "caller" /\ turn' = "caller"
  BY DEF Speak, Says
<1> HIDE DEF c
<1>4. m \in Message /\ m.role = role
  BY <1>2 DEF Message, Role
<1>5. endpoint # "openai" => role # "developer"
  BY DEF Speak
<1> HIDE DEF m
<1>6. history' \in Seq(Message) /\ OwnRoles'
  <2>1. history \in Seq(Message) /\ endpoint' = endpoint
    BY DEF TransInv, TransTyped, Speak
  <2>2. \A i \in 1 .. Len(Append(history, m)) :
          Append(history, m)[i] = m \/ (i \in 1 .. Len(history) /\ Append(history, m)[i] = history[i])
    BY <1>4, <2>1
  <2> QED BY <1>3, <1>4, <1>5, <2>1, <2>2 DEF TransInv, OwnRoles
<1>7. parts' \in 0 .. MaxParts
  BY <1>1 DEF Speak, TransInv, TransTyped
<1> QED BY <1>3, <1>6, <1>7 DEF Speak, TransInv, TransTyped, MadeOfBlocks, PromptKept, AnswerKept

\* A request has what the conversation has.
LEMMA SendStep ==
  ASSUME TransInv, NEW wire \in Wire, Send(wire)
  PROVE  TransInv'
<1>1. history \in Seq(Message) /\ history' = history /\ endpoint' = endpoint
  BY DEF TransInv, TransTyped, Send
<1>2. PICK n : n = Normalize(history)
  OBVIOUS
<1>3. n \in Seq(Message) /\ Instructed(n) = Instructed(history) /\ Said(n) = Said(history)
  BY <1>1, <1>2, NormalizeKeeps DEF TransInv, OwnRoles
<1>4. body' = BuildBody(wire, n)
  BY <1>2 DEF Send
<1>5. body'.system \o Instructed(body'.turns) = Instructed(n) /\ Said(body'.turns) = Said(n)
  BY <1>3, <1>4, BodyKeeps
<1>6. PromptKept'
  BY <1>1, <1>3, <1>5 DEF PromptKept
<1> QED BY <1>1, <1>6 DEF Send, TransInv, TransTyped, OwnRoles, MadeOfBlocks, AnswerKept

\* An answer is made of texts and calls.
LEMMA AnswerStep ==
  ASSUME TransInv, NEW kinds \in {<<"text">>, <<"call">>, <<"text", "call">>, <<"call", "text">>},
         NEW u \in [fresh : Counts, cached : Counts, written : {1}, output : {1}], Answer(kinds, u)
  PROVE  TransInv'
<1> USE TranslationAssumption
<1>1. kinds \in Seq({"text", "call"}) /\ Len(kinds) \in {1, 2}
  <2>1. CASE kinds = <<"text">>
    BY <2>1
  <2>4. CASE kinds = <<"call">>
    BY <2>4
  <2>2. CASE kinds = <<"text", "call">>
    BY <2>2
  <2>3. CASE kinds = <<"call", "text">>
    BY <2>3
  <2> QED BY <2>1, <2>2, <2>3, <2>4
<1> DEFINE c == [i \in DOMAIN kinds |-> New(kinds[i], i)]
<1>2. c \in Seq(Block)
  <2>1. ASSUME NEW i \in 1 .. Len(kinds) PROVE New(kinds[i], i) \in Block
    <3>1. kinds[i] \in {"text", "call"}
      BY <1>1
    <3>2. New(kinds[i], i) \in Part
      BY <1>1, <3>1, Numbered DEF Answer, TransInv
    <3> QED BY <3>1, <3>2 DEF New, Block
  <2>2. DOMAIN kinds = 1 .. Len(kinds)
    BY <1>1
  <2> QED BY <1>1, <2>1, <2>2
<1>3. answer' = [blocks |-> c, usage |-> u]
  BY DEF Answer
<1> HIDE DEF c
<1>4. answer'.blocks \in Seq(Block) /\ answer'.usage \in Usage
  <2>1. u \in Usage
    <3>1. PICK f \in Counts, k \in Counts : u = [fresh |-> f, cached |-> k, written |-> 1, output |-> 1]
      OBVIOUS
    <3>2. f \in Nat /\ k \in Nat
      OBVIOUS
    <3> QED BY <3>1, <3>2 DEF Usage
  <2> QED BY <1>2, <1>3, <2>1
<1>5. parts' \in 0 .. MaxParts
  BY <1>1 DEF Answer, TransInv, TransTyped
<1> QED BY <1>4, <1>5 DEF Answer, TransInv, TransTyped, OwnRoles, MadeOfBlocks, PromptKept, AnswerKept

\* parse_usage of what a provider reports of u.
LEMMA UsageKept ==
  ASSUME NEW u \in Usage, NEW wire \in Wire, NEW r, r = ParseUsage(wire, Reported(wire, u))
  PROVE  r.fresh = u.fresh /\ r.cached = u.cached /\ r.output = u.output
<1>1. CASE wire \in {"openai", "google"}
  <2>1. u.fresh \in Nat /\ u.cached \in Nat
    BY DEF Usage
  <2> DEFINE q == Reported(wire, u)
  <2>2. q.fresh = u.fresh + u.cached /\ q.cached = u.cached /\ q.output = u.output
        /\ DOMAIN q = {"fresh", "cached", "written", "output"}
    BY <1>1 DEF Reported, Usage
  <2>3. q.cached <= q.fresh /\ q.fresh - q.cached = u.fresh
    BY <2>1, <2>2
  <2> HIDE DEF q
  <2>4. r = [q EXCEPT !.fresh = q.fresh - q.cached, !.cached = q.cached]
    BY <1>1, <2>3 DEF ParseUsage, WithinPrompt, q
  <2> QED BY <2>2, <2>3, <2>4
<1>2. CASE wire \notin {"openai", "google"}
  BY <1>2 DEF ParseUsage, Reported, Usage
<1> QED BY <1>1, <1>2

\* A reply has what the answer has.
LEMMA RenderStep ==
  ASSUME TransInv, Render
  PROVE  TransInv'
<1>1. /\ turn = "gateway" /\ turn' = "answered" /\ answer' = answer /\ served' = served
      /\ answer.blocks \in Seq(Block) /\ answer.usage \in Usage /\ served \in Wire
  BY DEF Render, TransInv, TransTyped, MadeOfBlocks
<1> DEFINE r == ParseResponse(served, answer)
<1>2. /\ r.whole = answer.blocks /\ r.usage = ParseUsage(served, Reported(served, answer.usage))
      /\ r.content = OfKind(answer.blocks, {"text"}) /\ r.calls = OfKind(answer.blocks, {"call"})
  BY DEF ParseResponse
<1>3. billed' = r.usage /\ reply' = IF endpoint = "openai" THEN ToOpenAi(r) ELSE ToAnthropic(r)
  BY DEF Render
<1> HIDE DEF r
<1>4. reply'.blocks = answer.blocks \/ reply'.blocks = r.content \o r.calls
  BY <1>2, <1>3 DEF ToOpenAi, ToAnthropic
<1>5. /\ reply'.blocks \in Seq(Block)
      /\ ToSet(reply'.blocks) = ToSet(answer.blocks) /\ Len(reply'.blocks) = Len(answer.blocks)
  BY <1>1, <1>2, <1>4, Reordered
<1>6. billed'.fresh = answer.usage.fresh /\ billed'.cached = answer.usage.cached
      /\ billed'.output = answer.usage.output
  BY <1>1, <1>2, <1>3, UsageKept
<1>7. Rendered' => reply'.shape = endpoint'
  <2>1. /\ r.raw = IF served = "deepseek" THEN "openai" ELSE served
        /\ endpoint' = endpoint /\ endpoint \in {"openai", "anthropic"}
    BY DEF r, ParseResponse, Render, TransInv, TransTyped
  <2>2. Rendered' =>
          \/ served \in {"openai", "deepseek"}
          \/ endpoint = "anthropic" /\ (served = "anthropic" \/ r.calls = <<>>)
    BY <1>1, <1>2, <2>1 DEF Rendered
  <2> QED BY <1>3, <2>1, <2>2 DEF ToOpenAi, ToAnthropic
<1>8. AnswerKept' /\ MadeOfBlocks'
  BY <1>1, <1>5, <1>6, <1>7 DEF AnswerKept, MadeOfBlocks
<1> QED BY <1>1, <1>8 DEF Render, TransInv, TransTyped, OwnRoles, PromptKept

\* The caller goes on with the same roles.
LEMMA ContinueStep ==
  ASSUME TransInv, Continue
  PROVE  TransInv'
<1> USE TranslationAssumption
<1>1. turn = "answered" /\ turn' = "caller" /\ endpoint' = endpoint /\ parts < MaxParts
  BY DEF Continue
<1>2. reply.blocks \in Seq(Block) /\ history \in Seq(Message)
  BY <1>1 DEF TransInv, MadeOfBlocks, TransTyped
<1>3. PICK texts \in Seq(Part), calls \in Seq(Part) :
        texts = OfKind(reply.blocks, {"text"}) /\ calls = OfKind(reply.blocks, {"call"})
  <2>1. reply.blocks \in Seq(Part)
    BY <1>2 DEF Block
  <2>2. \A k \in {"text", "call"} : OfKind(reply.blocks, {k}) \in Seq(Part)
    <3> SUFFICES ASSUME NEW k \in {"text", "call"} PROVE OfKind(reply.blocks, {k}) \in Seq(Part)
      OBVIOUS
    <3> DEFINE S == {p \in Part : p.kind = k}
    <3>1. {i \in DOMAIN reply.blocks : reply.blocks[i].kind \in {k}}
          = {i \in DOMAIN reply.blocks : reply.blocks[i] \in S}
      BY <2>1
    <3>2. OfKind(reply.blocks, {k}) = Picked(reply.blocks, S)
      BY <3>1 DEF OfKind, Picked
    <3>3. S \subseteq Part
      OBVIOUS
    <3> HIDE DEF S
    <3>4. Picked(reply.blocks, S) \in Seq(S)
      BY <2>1, PickedIn
    <3> QED BY <3>2, <3>3, <3>4
  <2> QED BY <2>2
<1> DEFINE said == [role |-> "assistant", calls |-> <<>>, answers |-> <<>>,
                    content |-> IF endpoint = "openai" THEN texts ELSE reply.blocks]
           first == IF endpoint = "openai" THEN [said EXCEPT !.calls = calls] ELSE said
           result == [role |-> IF endpoint = "openai" THEN "tool" ELSE "user", calls |-> <<>>,
                      content |-> <<New("result", 1)>>, answers |-> calls]
<1>4. /\ history' = Append(history, first) \o (IF calls = <<>> THEN <<>> ELSE <<result>>)
      /\ parts' = IF calls = <<>> THEN parts ELSE parts + 1
  BY <1>3 DEF Continue
<1>5. first \in Message /\ first.role = "assistant"
  <2>1. said \in Message /\ said.role = "assistant"
    BY <1>2 DEF Message, Role, Block
  <2> QED BY <2>1 DEF Message
<1>6. result \in Message /\ result.role \in {"tool", "user"}
  <2>1. New("result", 1) \in Part
    BY <1>1, Numbered DEF TransInv, TransTyped
  <2>2. <<New("result", 1)>> \in Seq(Part)
    BY <2>1
  <2> QED BY <2>2 DEF Message, Role
<1> HIDE DEF first, result
<1>7. history' \in Seq(Message) /\ OwnRoles'
  <2>1. /\ Append(history, first) \in Seq(Message)
        /\ \A i \in 1 .. Len(Append(history, first)) :
             Append(history, first)[i] = first
             \/ (i \in 1 .. Len(history) /\ Append(history, first)[i] = history[i])
    BY <1>2, <1>5
  <2>2. PICK g \in Seq(Message) : g = Append(history, first)
    BY <2>1
  <2>3. endpoint # "openai" => \A i \in 1 .. Len(g) : g[i].role # "developer"
    BY <1>5, <2>1, <2>2 DEF TransInv, OwnRoles
  <2>4. CASE calls = <<>>
    <3>1. history' = g
      BY <1>4, <2>2, <2>4
    <3> QED BY <1>1, <2>2, <2>3, <3>1 DEF OwnRoles
  <2>5. CASE calls # <<>>
    <3>1. history' = g \o <<result>>
      BY <1>4, <2>2, <2>5
    <3>2. /\ g \o <<result>> \in Seq(Message)
          /\ \A i \in 1 .. Len(g \o <<result>>) :
               (g \o <<result>>)[i] = result \/ (i \in 1 .. Len(g) /\ (g \o <<result>>)[i] = g[i])
      BY <1>6, <2>2
    <3> QED BY <1>1, <1>6, <2>3, <3>1, <3>2 DEF OwnRoles
  <2> QED BY <2>4, <2>5
<1>8. parts' \in 0 .. MaxParts
  BY <1>1, <1>4 DEF TransInv, TransTyped
<1> QED BY <1>1, <1>7, <1>8 DEF Continue, TransInv, TransTyped, MadeOfBlocks, PromptKept, AnswerKept

\* Every step of the conversation preserves the invariant.
LEMMA TransStep == TransInv /\ [TransNext]_transVars => TransInv'
<1> SUFFICES ASSUME TransInv, [TransNext]_transVars PROVE TransInv'
  OBVIOUS
<1>1. CASE UNCHANGED transVars
  BY <1>1 DEF transVars, TransInv, TransTyped, OwnRoles, MadeOfBlocks, PromptKept, AnswerKept, Rendered
<1>2. CASE TransNext
  BY <1>2, SpeakStep, SendStep, AnswerStep, RenderStep, ContinueStep DEF TransNext
<1> QED BY <1>1, <1>2

LEMMA OfTranslation == [Next]_vars => [TransNext]_transVars
  BY DEF Next, vars, transVars, InTranslation, InTokens, InSimilar, InCatalogue

\* Whichever endpoint a caller uses and whichever provider serves a turn, the provider has every
\* instruction and every line of the conversation once and in order, and the caller every text and
\* call of the answer, rendered for it where the gateway renders, and the usage it is billed for: for
\* any number of messages and parts and any counts (normalize, build_body, parse_response, to_openai_response, to_anthropic_response).
THEOREM ConversationHolds == Spec => []WordsKept
<1>1. Init => TransInv
  BY TransBegin DEF Init
<1>2. TransInv /\ [Next]_vars => TransInv'
  BY TransStep, OfTranslation
<1>3. TransInv => WordsKept
  BY DEF TransInv, WordsKept
<1> QED BY <1>1, <1>2, <1>3, PTL DEF Spec

-----------------------------------------------------------------------------
(* The context of a key                                                    *)

(* How old a context may be is the sum of the places it has been in.       *)
(* Nothing checks that a version is current when it is written to a tier,  *)
(* so each tier bounds its versions by what the tier below bounds, the age *)
(* of the entry and the time of the fill.                                  *)

\* A version read from the row, by a request that has waited since.
RowBound(r) == pc[r] = "fill" => context[r] # 0 /\ lag[context[r]] <= waited[r]

\* An entry in Redis: a fill, then its age.
RedisBound == redis.version # 0 => redis.version <= Current /\ lag[redis.version] <= FillTime + redis.age

\* A version read from either, by a request that has waited since.
HandBound(r) == pc[r] = "put" => context[r] # 0 /\ lag[context[r]] <= FillTime + TTL + waited[r]

\* An entry of an LRU: all of that, and its age.
LruBound(n) ==
  lru[n].version # 0 =>
    lru[n].version <= Current /\ lag[lru[n].version] <= FillTime + TTL + FillTime + lru[n].age

\* The version in force was replaced by none.
CurrentBound == lag[Current] = 0

ContextInv ==
  /\ AuthTypeOK
  /\ CurrentBound
  /\ RedisBound
  /\ \A r \in Request : RowBound(r) /\ HandBound(r)
  /\ \A n \in Replica : LruBound(n)

-----------------------------------------------------------------------------

LEMMA InitIInv == CachesInit => ContextInv
<1> SUFFICES ASSUME CachesInit
             PROVE  ContextInv
  OBVIOUS
<1>1. settings \in Seq(Setting) /\ Len(settings) = 1
  BY DEF CachesInit, AuthInit, Setting
<1> QED
  BY <1>1, KeyAuthAssumption DEF CachesInit, AuthInit, ContextInv, AuthTypeOK, CurrentBound, RedisBound,
     RowBound, HandBound, LruBound, NoContext, Entry, Version, Current, Fetching, StaleBound

\* The numbers in the bounds.
LEMMA Numbers ==
  ASSUME ContextInv
  PROVE  /\ TTL \in Nat /\ FillTime \in Nat /\ StaleBound \in Nat
         /\ StaleBound = 2 * (TTL + FillTime)
         /\ Current \in Nat /\ 1 <= Current
         /\ lag \in [1 .. Current -> Nat]
<1>1. TTL \in Nat /\ FillTime \in Nat /\ StaleBound \in Nat /\ StaleBound = 2 * (TTL + FillTime)
  BY KeyAuthAssumption DEF StaleBound
<1>2. Current \in Nat /\ 1 <= Current
  BY KeyAuthAssumption DEF ContextInv, AuthTypeOK, Version
<1>3. lag \in [1 .. Current -> Nat]
  BY <1>1 DEF ContextInv, AuthTypeOK
<1> QED BY <1>1, <1>2, <1>3

LEMMA EntryTypes ==
  ASSUME NEW e \in Entry, TTL \in Nat, MaxChanges \in Nat
  PROVE  e.version \in Nat /\ e.age \in 0 .. TTL /\ (e # NoContext => e.version # 0)
BY DEF Entry, NoContext, Version

\* What is in Redis, what is in an LRU, and what a request has in hand.
LEMMA InRedis ==
  ASSUME ContextInv, redis.version # 0
  PROVE  /\ redis.version \in 1 .. Current /\ redis.age \in 0 .. TTL
         /\ lag[redis.version] \in Nat /\ lag[redis.version] <= FillTime + redis.age
<1>1. redis.version \in Nat /\ redis.age \in 0 .. TTL
  BY KeyAuthAssumption, EntryTypes DEF ContextInv, AuthTypeOK
<1>2. redis.version <= Current /\ lag[redis.version] <= FillTime + redis.age
  BY DEF ContextInv, RedisBound
<1> QED BY <1>1, <1>2, Numbers

LEMMA InLru ==
  ASSUME ContextInv, NEW n \in Replica, lru[n].version # 0
  PROVE  /\ lru[n].version \in 1 .. Current /\ lru[n].age \in 0 .. TTL
         /\ lag[lru[n].version] \in Nat
         /\ lag[lru[n].version] <= FillTime + TTL + FillTime + lru[n].age
<1>1. lru[n].version \in Nat /\ lru[n].age \in 0 .. TTL
  BY KeyAuthAssumption, EntryTypes DEF ContextInv, AuthTypeOK
<1>2. /\ lru[n].version <= Current
      /\ lag[lru[n].version] <= FillTime + TTL + FillTime + lru[n].age
  BY DEF ContextInv, LruBound
<1> QED BY <1>1, <1>2, Numbers

LEMMA Typing ==
  ASSUME ContextInv
  PROVE  /\ redis \in Entry /\ lru \in [Replica -> Entry]
         /\ pc \in [Request -> Fetching \cup {"idle", "serving"}]
         /\ context \in [Request -> 0 .. Current]
         /\ waited \in [Request -> 0 .. FillTime]
BY DEF ContextInv, AuthTypeOK

\* A version as a fresh entry.
LEMMA FreshEntry ==
  ASSUME ContextInv, NEW v \in 1 .. Current
  PROVE  Fresh(v) \in Entry /\ Fresh(v).version = v /\ Fresh(v).age = 0
<1>1. Current \in 1 .. MaxChanges + 1 /\ MaxChanges \in Nat /\ TTL \in Nat
  BY KeyAuthAssumption DEF ContextInv, AuthTypeOK, Version
<1>2. v \in Version /\ 0 \in 0 .. TTL
  BY <1>1 DEF Version
<1> QED BY <1>2 DEF Fresh, Entry

LEMMA InHand ==
  ASSUME ContextInv, NEW r \in Request
  PROVE  /\ context[r] \in 0 .. Current /\ waited[r] \in 0 .. FillTime
         /\ context[r] # 0 => context[r] \in 1 .. Current /\ lag[context[r]] \in Nat
<1>1. context[r] \in 0 .. Current /\ waited[r] \in 0 .. FillTime
  BY DEF ContextInv, AuthTypeOK
<1> QED BY <1>1, Numbers

-----------------------------------------------------------------------------
(* Each action keeps the invariant.                                        *)

LEMMA LookupLruIInv ==
  ASSUME ContextInv, NEW r \in Request, LookupLru(r)
  PROVE  ContextInv' /\ (LetIn(r) => lag[context'[r]] <= StaleBound)
<1> DEFINE n == Home[r]
<1>1. n \in Replica
  BY KeyAuthAssumption
<1>2. /\ UNCHANGED <<settings, lag, redis, lru, console, faults>> /\ Current' = Current
      /\ waited' = [waited EXCEPT ![r] = 0]
      /\ IF lru[n].version # 0
           THEN pc' = [pc EXCEPT ![r] = "serving"] /\ context' = [context EXCEPT ![r] = lru[n].version]
           ELSE pc' = [pc EXCEPT ![r] = "redis"] /\ context' = context
  BY DEF LookupLru, Continues, Current
<1> HIDE DEF n
<1>3. AuthTypeOK'
  <2>1. context' \in [Request -> 0 .. Current]
    <3>1. lru[n].version # 0 => lru[n].version \in 0 .. Current
      BY <1>1, InLru, Numbers
    <3> QED BY <1>2, <3>1, Typing
  <2>2. pc' \in [Request -> Fetching \cup {"idle", "serving"}]
    BY <1>2, Typing DEF Fetching
  <2>3. waited' \in [Request -> 0 .. FillTime]
    <3>1. 0 \in 0 .. FillTime
      BY Numbers
    <3> QED BY <1>2, <3>1, Typing
  <2> QED BY <1>2, <2>1, <2>2, <2>3 DEF ContextInv, AuthTypeOK
<1>4. (CurrentBound /\ RedisBound)' /\ \A m \in Replica : LruBound(m)'
  BY <1>2 DEF ContextInv, CurrentBound, RedisBound, LruBound
<1>5. \A q \in Request : (RowBound(q) /\ HandBound(q))'
  BY <1>2 DEF ContextInv, AuthTypeOK, RowBound, HandBound
<1>6. LetIn(r) => lag[context'[r]] <= StaleBound
  <2>1. CASE lru[n].version # 0
    <3>1. context'[r] = lru[n].version
      BY <1>2, <2>1 DEF ContextInv, AuthTypeOK
    <3>2. /\ lag[lru[n].version] \in Nat /\ lru[n].age \in 0 .. TTL
          /\ lag[lru[n].version] <= FillTime + TTL + FillTime + lru[n].age
      BY <1>1, <2>1, InLru
    <3> QED BY <3>1, <3>2, Numbers
  <2>2. CASE lru[n].version = 0
    BY <1>2, <2>2 DEF ContextInv, AuthTypeOK, LetIn
  <2> QED BY <2>1, <2>2
<1> QED BY <1>3, <1>4, <1>5, <1>6 DEF ContextInv

LEMMA ReadRedisIInv ==
  ASSUME ContextInv, NEW r \in Request, ReadRedis(r) \/ ReadRedisFails(r)
  PROVE  ContextInv'
<1>1. /\ UNCHANGED <<settings, lag, redis, lru, console, waited>> /\ Current' = Current
      /\ \/ /\ redis # NoContext
            /\ pc' = [pc EXCEPT ![r] = "put"] /\ context' = [context EXCEPT ![r] = redis.version]
         \/ pc' = [pc EXCEPT ![r] = "db"] /\ context' = context
      /\ faults' \in 0 .. MaxFaults
  BY KeyAuthAssumption DEF ReadRedis, ReadRedisFails, Continues, Current, ContextInv, AuthTypeOK
<1>2. redis # NoContext => redis.version # 0
  BY KeyAuthAssumption, EntryTypes DEF ContextInv, AuthTypeOK
<1>3. AuthTypeOK'
  <2>1. context' \in [Request -> 0 .. Current]
    <3>1. redis # NoContext => redis.version \in 0 .. Current
      BY <1>2, InRedis, Numbers
    <3> QED BY <1>1, <3>1, Typing
  <2>2. pc' \in [Request -> Fetching \cup {"idle", "serving"}]
    BY <1>1 DEF ContextInv, AuthTypeOK, Fetching
  <2> QED BY <1>1, <2>1, <2>2 DEF ContextInv, AuthTypeOK
<1>4. (CurrentBound /\ RedisBound)' /\ \A n \in Replica : LruBound(n)'
  BY <1>1 DEF ContextInv, CurrentBound, RedisBound, LruBound
<1>5. ASSUME NEW q \in Request
      PROVE  (RowBound(q) /\ HandBound(q))'
  <2>1. CASE q = r /\ redis # NoContext /\ context' = [context EXCEPT ![r] = redis.version]
    <3>1. context'[r] = redis.version /\ redis.version # 0 /\ pc'[r] # "fill"
      BY <1>1, <1>2, <2>1 DEF ContextInv, AuthTypeOK
    <3>2. lag[redis.version] <= FillTime + TTL + waited[r]
      <4>1. /\ lag[redis.version] \in Nat /\ lag[redis.version] <= FillTime + redis.age
            /\ redis.age \in 0 .. TTL
        BY <3>1, InRedis
      <4>2. waited[r] \in 0 .. FillTime
        BY InHand
      <4>3. TTL \in Nat /\ FillTime \in Nat
        BY Numbers
      <4> QED BY <4>1, <4>2, <4>3
    <3> QED BY <1>1, <2>1, <3>1, <3>2 DEF RowBound, HandBound
  <2>2. CASE q = r /\ pc' = [pc EXCEPT ![r] = "db"]
    BY <1>1, <2>2 DEF ContextInv, AuthTypeOK, RowBound, HandBound
  <2>3. CASE q # r
    BY <1>1, <2>3 DEF ContextInv, AuthTypeOK, RowBound, HandBound
  <2> QED BY <1>1, <2>1, <2>2, <2>3
<1> QED BY <1>3, <1>4, <1>5 DEF ContextInv

LEMMA ResolveKeyIInv ==
  ASSUME ContextInv, NEW r \in Request, ResolveKey(r) \/ ResolveKeyFails(r)
  PROVE  ContextInv'
<1>1. /\ UNCHANGED <<settings, lag, redis, lru, console, waited>> /\ Current' = Current
      /\ \/ pc' = [pc EXCEPT ![r] = "fill"] /\ context' = [context EXCEPT ![r] = Current]
         \/ pc' = [pc EXCEPT ![r] = "idle"] /\ context' = context
      /\ faults' \in 0 .. MaxFaults
  BY KeyAuthAssumption DEF ResolveKey, ResolveKeyFails, Continues, Current, ContextInv, AuthTypeOK
<1>2. AuthTypeOK'
  <2>1. context' \in [Request -> 0 .. Current]
    <3>1. Current \in 0 .. Current
      BY Numbers
    <3> QED BY <1>1, <3>1, Typing
  <2>2. pc' \in [Request -> Fetching \cup {"idle", "serving"}]
    BY <1>1 DEF ContextInv, AuthTypeOK, Fetching
  <2> QED BY <1>1, <2>1, <2>2 DEF ContextInv, AuthTypeOK
<1>3. (CurrentBound /\ RedisBound)' /\ \A n \in Replica : LruBound(n)'
  BY <1>1 DEF ContextInv, CurrentBound, RedisBound, LruBound
<1>4. ASSUME NEW q \in Request
      PROVE  (RowBound(q) /\ HandBound(q))'
  <2>1. CASE q = r /\ pc' = [pc EXCEPT ![r] = "fill"] /\ context' = [context EXCEPT ![r] = Current]
    <3>1. pc'[q] = "fill" /\ context'[q] = Current /\ waited'[q] = waited[q] /\ lag' = lag
      BY <1>1, <2>1, Typing
    <3>2. Current # 0 /\ lag[Current] <= waited[q]
      BY InHand, Numbers DEF ContextInv, CurrentBound
    <3> QED BY <3>1, <3>2 DEF RowBound, HandBound
  <2>2. CASE q = r /\ pc' = [pc EXCEPT ![r] = "idle"]
    BY <2>2, Typing DEF RowBound, HandBound
  <2>3. CASE q # r
    <3>1. pc'[q] = pc[q] /\ context'[q] = context[q] /\ waited'[q] = waited[q] /\ lag' = lag
      BY <1>1, <2>3, Typing
    <3> QED BY <3>1 DEF ContextInv, RowBound, HandBound
  <2> QED BY <1>1, <2>1, <2>2, <2>3
<1> QED BY <1>2, <1>3, <1>4 DEF ContextInv

LEMMA FillRedisIInv ==
  ASSUME ContextInv, NEW r \in Request, FillRedis(r) \/ FillRedisFails(r)
  PROVE  ContextInv'
<1>1. /\ UNCHANGED <<settings, lag, lru, context, console, waited>> /\ Current' = Current
      /\ pc[r] = "fill" /\ pc' = [pc EXCEPT ![r] = "put"]
      /\ redis' \in {redis, Fresh(context[r])}
      /\ faults' \in 0 .. MaxFaults
  BY KeyAuthAssumption DEF FillRedis, FillRedisFails, Continues, Current, ContextInv, AuthTypeOK
<1>2. /\ context[r] \in 1 .. Current /\ lag[context[r]] \in Nat
      /\ lag[context[r]] <= waited[r] /\ waited[r] \in 0 .. FillTime
  BY <1>1, InHand DEF ContextInv, RowBound
<1>3. Fresh(context[r]) \in Entry /\ Fresh(context[r]).version = context[r] /\ Fresh(context[r]).age = 0
  BY <1>2, FreshEntry
<1>4. AuthTypeOK'
  <2>1. redis' \in Entry
    BY <1>1, <1>3 DEF ContextInv, AuthTypeOK
  <2>2. pc' \in [Request -> Fetching \cup {"idle", "serving"}]
    BY <1>1 DEF ContextInv, AuthTypeOK, Fetching
  <2> QED BY <1>1, <2>1, <2>2 DEF ContextInv, AuthTypeOK
<1>5. RedisBound'
  <2>1. CASE redis' = redis
    BY <1>1, <2>1 DEF ContextInv, RedisBound
  <2>2. CASE redis' = Fresh(context[r])
    <3>1. context[r] <= Current' /\ lag[context[r]] <= FillTime + 0
      <4>1. FillTime \in Nat
        BY Numbers
      <4> QED BY <1>1, <1>2, <4>1
    <3>2. lag' = lag /\ redis'.version = context[r] /\ redis'.age = 0
      BY <1>1, <1>3, <2>2
    <3> QED BY <3>1, <3>2 DEF RedisBound
  <2> QED BY <1>1, <2>1, <2>2
<1>6. CurrentBound' /\ \A n \in Replica : LruBound(n)'
  BY <1>1 DEF ContextInv, CurrentBound, LruBound
<1>7. ASSUME NEW q \in Request
      PROVE  (RowBound(q) /\ HandBound(q))'
  <2>1. CASE q = r
    <3>1. context[r] # 0 /\ lag[context[r]] <= FillTime + TTL + waited[r]
      <4>1. TTL \in Nat /\ FillTime \in Nat
        BY Numbers
      <4> QED BY <1>2, <4>1
    <3>2. pc'[q] = "put" /\ context'[q] = context[r] /\ waited'[q] = waited[r] /\ lag' = lag
      BY <1>1, <2>1, Typing
    <3> QED BY <3>1, <3>2 DEF RowBound, HandBound
  <2>2. CASE q # r
    BY <1>1, <2>2 DEF ContextInv, AuthTypeOK, RowBound, HandBound
  <2> QED BY <2>1, <2>2
<1> QED BY <1>4, <1>5, <1>6, <1>7 DEF ContextInv

LEMMA FillLruIInv ==
  ASSUME ContextInv, NEW r \in Request, FillLru(r)
  PROVE  ContextInv' /\ lag[context'[r]] <= StaleBound
<1> DEFINE n == Home[r]
<1>1. /\ UNCHANGED <<settings, lag, redis, context, console, waited, faults>> /\ Current' = Current
      /\ pc[r] = "put" /\ pc' = [pc EXCEPT ![r] = "serving"]
      /\ lru' = [lru EXCEPT ![n] = Fresh(context[r])]
      /\ n \in Replica
  BY KeyAuthAssumption DEF FillLru, Continues, Current
<1> HIDE DEF n
<1>2. /\ context[r] \in 1 .. Current /\ lag[context[r]] \in Nat
      /\ lag[context[r]] <= FillTime + TTL + waited[r] /\ waited[r] \in 0 .. FillTime
  BY <1>1, InHand DEF ContextInv, HandBound
<1>3. Fresh(context[r]) \in Entry /\ Fresh(context[r]).version = context[r] /\ Fresh(context[r]).age = 0
  BY <1>2, FreshEntry
<1>4. AuthTypeOK'
  <2>1. lru' \in [Replica -> Entry]
    BY <1>1, <1>3 DEF ContextInv, AuthTypeOK
  <2>2. pc' \in [Request -> Fetching \cup {"idle", "serving"}]
    BY <1>1 DEF ContextInv, AuthTypeOK, Fetching
  <2> QED BY <1>1, <2>1, <2>2 DEF ContextInv, AuthTypeOK
<1>5. ASSUME NEW m \in Replica
      PROVE  LruBound(m)'
  <2>1. CASE m = n
    <3>1. lru'[m] = Fresh(context[r])
      BY <1>1, <2>1 DEF ContextInv, AuthTypeOK
    <3>2. context[r] <= Current'
      BY <1>1, <1>2
    <3>3. lag[context[r]] <= FillTime + TTL + FillTime + 0
      <4>1. TTL \in Nat /\ FillTime \in Nat
        BY Numbers
      <4> QED BY <1>2, <4>1
    <3>4. lag' = lag /\ lru'[m].version = context[r] /\ lru'[m].age = 0
      BY <1>1, <1>3, <3>1
    <3> QED BY <3>2, <3>3, <3>4 DEF LruBound
  <2>2. CASE m # n
    BY <1>1, <2>2 DEF ContextInv, AuthTypeOK, LruBound
  <2> QED BY <2>1, <2>2
<1>6. (CurrentBound /\ RedisBound)'
  BY <1>1 DEF ContextInv, CurrentBound, RedisBound
<1>7. \A q \in Request : (RowBound(q) /\ HandBound(q))'
  BY <1>1 DEF ContextInv, AuthTypeOK, RowBound, HandBound
<1> QED BY <1>1, <1>2, <1>4, <1>5, <1>6, <1>7, Numbers DEF ContextInv

LEMMA ReplaceIInv ==
  ASSUME ContextInv, NEW s \in Setting, Replace(s),
         UNCHANGED <<redis, lru, pc, context, waited, faults>>,
         console' \in {"idle", "lru", "redis", "forget"}
  PROVE  ContextInv'
<1>1. settings \in Seq(Setting) /\ Len(settings) = Current
  BY DEF ContextInv, AuthTypeOK, Current
<1>2. /\ settings' \in Seq(Setting)
      /\ Current' = Current + 1
      /\ Current' \in Version
  BY <1>1, Numbers, KeyAuthAssumption DEF Replace, Current, Version
<1>3. lag \in [1 .. Current -> 0 .. StaleBound + 1]
  BY DEF ContextInv, AuthTypeOK
<1>4. lag \in Seq(0 .. StaleBound + 1) /\ Len(lag) = Current
  BY <1>3, Numbers
<1>5. /\ lag' \in [1 .. Current' -> 0 .. StaleBound + 1]
      /\ \A v \in 1 .. Current : lag'[v] = lag[v]
      /\ lag'[Current'] = 0
  <2>1. lag' = Append(lag, 0) /\ 0 \in 0 .. StaleBound + 1
    BY Numbers DEF Replace
  <2>2. /\ lag' \in Seq(0 .. StaleBound + 1) /\ Len(lag') = Current + 1
        /\ lag'[Current + 1] = 0
        /\ \A v \in 1 .. Current : lag'[v] = lag[v]
    BY <1>4, <2>1
  <2>3. lag' \in [1 .. Current + 1 -> 0 .. StaleBound + 1]
    BY <2>2, Numbers
  <2> QED BY <1>2, <2>2, <2>3
<1>6. AuthTypeOK'
  <2>1. context' \in [Request -> 0 .. Current']
    BY <1>2, Numbers DEF ContextInv, AuthTypeOK
  <2> QED BY <1>2, <1>5, <2>1 DEF ContextInv, AuthTypeOK
<1>7. CurrentBound'
  BY <1>5 DEF CurrentBound
<1>8. RedisBound'
  <2> SUFFICES ASSUME redis.version # 0
               PROVE  /\ redis.version <= Current'
                      /\ lag'[redis.version] <= FillTime + redis.age
    BY DEF RedisBound
  <2>1. redis.version \in 1 .. Current /\ lag[redis.version] <= FillTime + redis.age
    BY InRedis
  <2>2. Current \in Nat
    BY Numbers
  <2> QED BY <1>2, <1>5, <2>1, <2>2
<1>9. ASSUME NEW n \in Replica
      PROVE  LruBound(n)'
  <2>1. lru' = lru /\ redis' = redis
    OBVIOUS
  <2> SUFFICES ASSUME lru[n].version # 0
               PROVE  /\ lru[n].version <= Current'
                      /\ lag'[lru[n].version] <= FillTime + TTL + FillTime + lru[n].age
    BY <2>1 DEF LruBound
  <2>2. /\ lru[n].version \in 1 .. Current
        /\ lag[lru[n].version] <= FillTime + TTL + FillTime + lru[n].age
    BY InLru
  <2>3. Current \in Nat
    BY Numbers
  <2> QED BY <1>2, <1>5, <2>2, <2>3
<1>10. ASSUME NEW q \in Request
       PROVE  (RowBound(q) /\ HandBound(q))'
  <2>1. context[q] # 0 => lag'[context[q]] = lag[context[q]]
    BY <1>5, InHand
  <2>2. pc' = pc /\ context' = context /\ waited' = waited
    OBVIOUS
  <2> QED BY <2>1, <2>2 DEF ContextInv, RowBound, HandBound
<1> QED BY <1>6, <1>7, <1>8, <1>9, <1>10 DEF ContextInv

LEMMA InvalidateIInv ==
  ASSUME ContextInv, InvalidateLru \/ InvalidateRedis \/ ConsoleGone
  PROVE  ContextInv'
<1>1. /\ UNCHANGED <<settings, lag, pc, context, waited>> /\ Current' = Current
      /\ redis' \in {redis, NoContext}
      /\ lru' \in {lru, [lru EXCEPT ![Console] = NoContext]}
      /\ console' \in {"idle", "redis"} /\ faults' \in 0 .. MaxFaults
  BY KeyAuthAssumption DEF InvalidateLru, InvalidateRedis, ConsoleGone, Current, ContextInv, AuthTypeOK
<1>2. NoContext \in Entry /\ NoContext.version = 0
  BY DEF NoContext, Entry
<1>3. AuthTypeOK'
  <2>1. redis' \in Entry /\ lru' \in [Replica -> Entry]
    BY <1>1, <1>2 DEF ContextInv, AuthTypeOK
  <2> QED BY <1>1, <2>1 DEF ContextInv, AuthTypeOK
<1>4. (CurrentBound /\ RedisBound)'
  BY <1>1, <1>2 DEF ContextInv, CurrentBound, RedisBound
<1>5. ASSUME NEW n \in Replica
      PROVE  LruBound(n)'
  <2>1. lru'[n] = lru[n] \/ lru'[n] = NoContext
    BY <1>1 DEF ContextInv, AuthTypeOK
  <2> QED BY <1>1, <1>2, <2>1 DEF ContextInv, LruBound
<1>6. \A q \in Request : (RowBound(q) /\ HandBound(q))'
  BY <1>1 DEF ContextInv, RowBound, HandBound
<1> QED BY <1>3, <1>4, <1>5, <1>6 DEF ContextInv

\* An entry that ages by a tick, and the version in it.
LEMMA AgedEntry ==
  ASSUME NEW e \in Entry, TTL \in Nat
  PROVE  /\ Aged(e) \in Entry
         /\ Aged(e).version # 0 => Aged(e).version = e.version /\ Aged(e).age = e.age + 1
<1>1. CASE e = NoContext \/ e.age = TTL
  <2>1. Aged(e) = NoContext
    BY <1>1 DEF Aged
  <2> QED BY <2>1 DEF NoContext, Entry
<1>2. CASE e # NoContext /\ e.age # TTL
  <2>1. e \in [version : Version, age : 0 .. TTL]
    BY <1>2 DEF Entry
  <2>2. Aged(e) = [version |-> e.version, age |-> e.age + 1]
    BY <1>2, <2>1 DEF Aged
  <2>3. e.version \in Version /\ e.age + 1 \in 0 .. TTL
    BY <1>2, <2>1
  <2> QED BY <2>2, <2>3 DEF Entry
<1> QED BY <1>1, <1>2

LEMMA TickIInv ==
  ASSUME ContextInv, Tick
  PROVE  ContextInv'
<1>0. TTL \in Nat /\ FillTime \in Nat
  BY Numbers
<1>1. /\ UNCHANGED <<settings, pc, context, console, faults>> /\ Current' = Current
      /\ redis' = Aged(redis)
      /\ lru' = [n \in Replica |-> Aged(lru[n])]
  BY DEF Tick, Current
<1>2. /\ lag' \in [1 .. Current -> 0 .. StaleBound + 1]
      /\ \A v \in 1 .. Current : lag'[v] <= lag[v] + 1
      /\ lag'[Current] = lag[Current]
  <2>1. lag \in [1 .. Current -> 0 .. StaleBound + 1]
    BY DEF ContextInv, AuthTypeOK
  <2>2. lag' = [v \in 1 .. Current |-> IF v < Current /\ lag[v] <= StaleBound THEN lag[v] + 1 ELSE lag[v]]
    BY DEF Tick
  <2>3. Current \in Nat /\ StaleBound \in Nat /\ Current \in 1 .. Current
    BY Numbers
  <2>4. ASSUME NEW v \in 1 .. Current
        PROVE  lag'[v] \in 0 .. StaleBound + 1 /\ lag'[v] <= lag[v] + 1
    <3>1. lag[v] \in 0 .. StaleBound + 1
      BY <2>1
    <3>2. lag'[v] = IF v < Current /\ lag[v] <= StaleBound THEN lag[v] + 1 ELSE lag[v]
      BY <2>2
    <3> QED BY <2>3, <3>1, <3>2
  <2>5. lag' \in [1 .. Current -> 0 .. StaleBound + 1]
    BY <2>2, <2>4
  <2>6. lag'[Current] = lag[Current]
    BY <2>2, <2>3
  <2> QED BY <2>4, <2>5, <2>6
<1>3. /\ waited' \in [Request -> 0 .. FillTime]
      /\ \A q \in Request : pc[q] \in Fetching => waited'[q] = waited[q] + 1
  <2>1. waited \in [Request -> 0 .. FillTime]
    BY DEF ContextInv, AuthTypeOK
  <2> QED BY <2>1, Numbers DEF Tick
<1>4. /\ redis' \in Entry
      /\ redis'.version # 0 => redis'.version = redis.version /\ redis'.age = redis.age + 1
  BY <1>1, AgedEntry, Numbers DEF ContextInv, AuthTypeOK
<1>5. ASSUME NEW n \in Replica
      PROVE  /\ lru'[n] \in Entry
             /\ lru'[n].version # 0 => lru'[n].version = lru[n].version /\ lru'[n].age = lru[n].age + 1
  <2>1. lru'[n] = Aged(lru[n]) /\ lru[n] \in Entry
    BY <1>1 DEF ContextInv, AuthTypeOK
  <2> QED BY <2>1, AgedEntry, Numbers
<1>6. AuthTypeOK'
  <2>1. lru' \in [Replica -> Entry]
    BY <1>1, <1>5
  <2> QED BY <1>1, <1>2, <1>3, <1>4, <2>1 DEF ContextInv, AuthTypeOK
<1>7. CurrentBound'
  BY <1>1, <1>2 DEF ContextInv, CurrentBound
<1>8. ASSUME NEW q \in Request
      PROVE  (RowBound(q) /\ HandBound(q))'
  <2>1. context[q] # 0 => lag'[context[q]] <= lag[context[q]] + 1 /\ lag'[context[q]] \in Nat /\ lag[context[q]] \in Nat
    BY <1>2, InHand, Numbers
  <2>2. pc[q] \in {"fill", "put"} => waited'[q] = waited[q] + 1 /\ waited[q] \in Nat
    BY <1>3, InHand DEF Fetching
  <2>3. pc'[q] = pc[q] /\ context'[q] = context[q] /\ RowBound(q) /\ HandBound(q)
    BY <1>1 DEF ContextInv
  <2>4. RowBound(q)'
    <3> SUFFICES ASSUME pc[q] = "fill"
                 PROVE  context[q] # 0 /\ lag'[context[q]] <= waited'[q]
      BY <2>3 DEF RowBound
    <3>1. context[q] # 0 /\ lag[context[q]] <= waited[q]
      BY <2>3 DEF RowBound
    <3> QED BY <2>1, <2>2, <3>1
  <2>5. HandBound(q)'
    <3> SUFFICES ASSUME pc[q] = "put"
                 PROVE  context[q] # 0 /\ lag'[context[q]] <= FillTime + TTL + waited'[q]
      BY <2>3 DEF HandBound
    <3>1. context[q] # 0 /\ lag[context[q]] <= FillTime + TTL + waited[q]
      BY <2>3 DEF HandBound
    <3>2. waited'[q] = waited[q] + 1 /\ waited[q] \in Nat
      BY <2>2
    <3> QED BY <1>0, <2>1, <3>1, <3>2
  <2> QED BY <2>4, <2>5
<1>9. RedisBound'
  <2> SUFFICES ASSUME redis'.version # 0
               PROVE  /\ redis'.version <= Current'
                      /\ lag'[redis'.version] <= FillTime + redis'.age
    BY DEF RedisBound
  <2>1. redis'.version = redis.version /\ redis'.age = redis.age + 1 /\ redis.version # 0
    BY <1>4
  <2>2. /\ redis.version \in 1 .. Current /\ redis.age \in Nat
        /\ lag[redis.version] \in Nat /\ lag[redis.version] <= FillTime + redis.age
    BY <2>1, InRedis, Numbers
  <2>3. lag'[redis.version] <= lag[redis.version] + 1 /\ lag'[redis.version] \in Nat
    BY <1>2, <2>2, Numbers
  <2>4. lag'[redis.version] <= FillTime + (redis.age + 1)
    BY <1>0, <2>2, <2>3
  <2>5. redis'.version <= Current'
    BY <1>1, <2>1, <2>2
  <2> QED BY <2>1, <2>4, <2>5
<1>10. ASSUME NEW n \in Replica
       PROVE  LruBound(n)'
  <2> SUFFICES ASSUME lru'[n].version # 0
               PROVE  /\ lru'[n].version <= Current'
                      /\ lag'[lru'[n].version] <= FillTime + TTL + FillTime + lru'[n].age
    BY DEF LruBound
  <2> DEFINE v == lru[n].version
             a == lru[n].age
  <2>1. lru'[n].version = v /\ lru'[n].age = a + 1 /\ v # 0
    BY <1>5
  <2>2. v \in 1 .. Current /\ a \in Nat /\ lag[v] \in Nat /\ lag[v] <= FillTime + TTL + FillTime + a
    BY <2>1, InLru, Numbers
  <2> HIDE DEF v, a
  <2>3. lag'[v] <= lag[v] + 1
    BY <1>2, <2>2
  <2>4. lag'[v] \in 0 .. StaleBound + 1
    BY <1>2, <2>2
  <2>5. lag'[v] \in Nat
    BY <2>4, Numbers
  <2>6. lag'[v] <= FillTime + TTL + FillTime + (a + 1)
    BY <1>0, <2>2, <2>3, <2>5
  <2>7. lru'[n].version <= Current'
    BY <1>1, <2>1, <2>2
  <2> QED BY <2>1, <2>6, <2>7
<1> QED BY <1>6, <1>7, <1>8, <1>9, <1>10 DEF ContextInv

LEMMA DoneIInv ==
  ASSUME ContextInv, NEW r \in Request, Done(r)
  PROVE  ContextInv'
<1>1. /\ UNCHANGED <<settings, lag, redis, lru, console, waited, faults>> /\ Current' = Current
      /\ pc' = [pc EXCEPT ![r] = "idle"] /\ context' = [context EXCEPT ![r] = 0]
  BY DEF Done, Continues, Current
<1>2. AuthTypeOK'
  <2>1. context' \in [Request -> 0 .. Current]
    <3>1. 0 \in 0 .. Current
      BY Numbers
    <3> QED BY <1>1, <3>1, Typing
  <2>2. pc' \in [Request -> Fetching \cup {"idle", "serving"}]
    BY <1>1, Typing
  <2> QED BY <1>1, <2>1, <2>2 DEF ContextInv, AuthTypeOK
<1>3. (CurrentBound /\ RedisBound)' /\ \A n \in Replica : LruBound(n)'
  BY <1>1 DEF ContextInv, CurrentBound, RedisBound, LruBound
<1>4. ASSUME NEW q \in Request
      PROVE  (RowBound(q) /\ HandBound(q))'
  <2>1. CASE q = r
    BY <1>1, <2>1, Typing DEF RowBound, HandBound
  <2>2. CASE q # r
    <3>1. pc'[q] = pc[q] /\ context'[q] = context[q] /\ waited'[q] = waited[q] /\ lag' = lag
      BY <1>1, <2>2, Typing
    <3> QED BY <3>1 DEF ContextInv, RowBound, HandBound
  <2> QED BY <2>1, <2>2
<1> QED BY <1>2, <1>3, <1>4 DEF ContextInv

\* A step of the pipeline touches no variable of KeyAuth but through Done; nor do the ends
\* of the answers but for the management call that Forget completes.
LEMMA CachesIInv ==
  ASSUME ContextInv, (\E r \in Request : Pipeline(r)) \/ Ends
  PROVE  ContextInv' /\ \A q \in Request : ~LetIn(q)
<1>1. CASE \E r \in Request : Done(r)
  <2>1. PICK r \in Request : Done(r)
    BY <1>1
  <2>2. \A q \in Request : ~LetIn(q)
    BY <2>1, Typing DEF Done, Continues, LetIn
  <2> QED BY <2>1, <2>2, DoneIInv
<1>2. CASE /\ UNCHANGED <<settings, lag, redis, lru, pc, context, waited, faults>>
           /\ console' \in {console, "idle"}
  <2>1. AuthTypeOK'
    BY <1>2 DEF ContextInv, AuthTypeOK, Current
  <2>2. \A q \in Request : ~LetIn(q)
    BY <1>2 DEF LetIn
  <2>3. (CurrentBound /\ RedisBound)' /\ \A n \in Replica : LruBound(n)'
    BY <1>2 DEF ContextInv, CurrentBound, RedisBound, LruBound, Current
  <2>4. \A q \in Request : (RowBound(q) /\ HandBound(q))'
    BY <1>2 DEF ContextInv, RowBound, HandBound
  <2> QED BY <2>1, <2>2, <2>3, <2>4 DEF ContextInv
<1>3. ASSUME NEW r \in Request, Pipeline(r)
      PROVE  Done(r) \/ UNCHANGED authVars
  BY <1>3 DEF Pipeline, HotGet, Promote, DurableGet, Repopulate, CallProvider, CallFails, Store,
     WriteFails, To, Answered
<1>4. ASSUME Ends
      PROVE  /\ UNCHANGED <<settings, lag, redis, lru, pc, context, waited, faults>>
             /\ console' \in {console, "idle"}
  BY <1>4 DEF Ends, Forget, HotExpires, DurableExpires, Purge, authVars
<1> QED BY <1>1, <1>2, <1>3, <1>4 DEF authVars

LEMMA ManageIInv ==
  ASSUME ContextInv, Manage
  PROVE  ContextInv' /\ \A q \in Request : ~LetIn(q)
<1>1. ASSUME ChangeKey
      PROVE  ContextInv'
  <2>1. PICK usable \in BOOLEAN : Replace([settings[Current] EXCEPT !.live = usable])
    BY <1>1 DEF ChangeKey
  <2>2. settings[Current] \in Setting
    BY Numbers DEF ContextInv, AuthTypeOK, Current
  <2>3. [settings[Current] EXCEPT !.live = usable] \in Setting
    BY <2>2 DEF Setting
  <2> QED BY <1>1, <2>1, <2>3, ReplaceIInv DEF ChangeKey
<1>2. ASSUME ChangeOrg
      PROVE  ContextInv'
  <2>1. PICK secret \in BOOLEAN :
          /\ Replace([settings[Current] EXCEPT !.private = secret])
          /\ console' = IF secret THEN "forget" ELSE "idle"
    BY <1>2 DEF ChangeOrg
  <2>2. settings[Current] \in Setting
    BY Numbers DEF ContextInv, AuthTypeOK, Current
  <2>3. [settings[Current] EXCEPT !.private = secret] \in Setting
    BY <2>2 DEF Setting
  <2> QED BY <1>2, <2>1, <2>3, ReplaceIInv DEF ChangeOrg
<1>3. pc' = pc
  BY DEF Manage, ChangeKey, ChangeOrg, InvalidateLru, InvalidateRedis, ConsoleGone
<1> QED BY <1>1, <1>2, <1>3, InvalidateIInv DEF Manage, LetIn

LEMMA AuthenticateIInv ==
  ASSUME ContextInv, NEW r \in Request, Authenticate(r)
  PROVE  ContextInv' /\ \A q \in Request : LetIn(q) => lag[context'[q]] <= StaleBound
<1>1. \E to \in Fetching \cup {"idle", "serving"} : pc' = [pc EXCEPT ![r] = to]
  BY DEF Authenticate, LookupLru, ReadRedis, ReadRedisFails, ResolveKey, ResolveKeyFails, FillRedis,
     FillRedisFails, FillLru, Continues, Fetching
<1>2. \A q \in Request : LetIn(q) => q = r
  BY <1>1, Typing DEF LetIn
<1>3. ASSUME LetIn(r)
      PROVE  LookupLru(r) \/ FillLru(r)
  BY <1>3, Typing DEF Authenticate, ReadRedis, ReadRedisFails, ResolveKey, ResolveKeyFails, FillRedis,
     FillRedisFails, Continues, LetIn
<1>4. LetIn(r) => lag[context'[r]] <= StaleBound
  BY <1>3, LookupLruIInv, FillLruIInv
<1>5. ContextInv'
  BY LookupLruIInv, ReadRedisIInv, ResolveKeyIInv, FillRedisIInv, FillLruIInv DEF Authenticate
<1> QED BY <1>2, <1>4, <1>5

\* Each step keeps the invariant, and lets no request in under settings replaced too long ago.
LEMMA NextIInv ==
  ASSUME ContextInv, [CachesNext]_authCacheVars
  PROVE  ContextInv' /\ [\A r \in Request : LetIn(r) => lag[context'[r]] <= StaleBound]_authVars
<1>1. CASE UNCHANGED authVars
  <2>1. AuthTypeOK'
    BY <1>1 DEF ContextInv, AuthTypeOK, Current, authVars
  <2>2. (CurrentBound /\ RedisBound)' /\ \A n \in Replica : LruBound(n)'
    BY <1>1 DEF ContextInv, CurrentBound, RedisBound, LruBound, Current, authVars
  <2>3. \A q \in Request : (RowBound(q) /\ HandBound(q))'
    BY <1>1 DEF ContextInv, RowBound, HandBound, authVars
  <2> QED BY <1>1, <2>1, <2>2, <2>3 DEF ContextInv
<1>2. CASE \E r \in Request : Authenticate(r)
  BY <1>2, AuthenticateIInv
<1>3. CASE Manage
  BY <1>3, ManageIInv
<1>4. CASE Tick
  <2>1. pc' = pc
    BY <1>4 DEF Tick
  <2> QED BY <1>4, <2>1, TickIInv DEF LetIn
<1>5. CASE (\E r \in Request : Pipeline(r)) \/ Ends
  BY <1>5, CachesIInv
<1> QED BY <1>1, <1>2, <1>3, <1>4, <1>5 DEF CachesNext, authCacheVars

-----------------------------------------------------------------------------

\* What the tiers, the hands of the requests and the clock are in every state (middleware/auth.rs).
THEOREM ContextsInvariance == CachesSpec => []ContextInv
<1>1. CachesInit => ContextInv
  BY InitIInv
<1>2. ContextInv /\ [CachesNext]_authCacheVars => ContextInv'
  BY NextIInv
<1> QED BY <1>1, <1>2, PTL DEF CachesSpec

\* No request is let in under settings of its key or its organisation that were replaced
\* longer ago than two lives of a cached context and two fills (authenticate_api_key).
THEOREM StaleOnlySoLongAlways == CachesSpec => StaleOnlySoLong
<1>1. ContextInv /\ [CachesNext]_authCacheVars => [\A r \in Request : LetIn(r) => lag[context'[r]] <= StaleBound]_authVars
  BY NextIInv
<1> QED BY <1>1, ContextsInvariance, PTL DEF CachesSpec, StaleOnlySoLong


===============================================================================
