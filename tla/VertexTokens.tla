----------------------------- MODULE VertexTokens -----------------------------
(***************************************************************************)
(* The access tokens of the Vertex adapter (providers/vertex.rs): requests *)
(* of one service account share the last token minted, each request that   *)
(* finds none usable mints its own, and the token travels with the call.   *)
(* Time is counted in units of half the safety margin.                     *)
(***************************************************************************)
EXTENDS Naturals

CONSTANTS
  Calls,     \* requests in flight
  Life,      \* expires_in
  Margin,    \* the 60 seconds subtracted
  Delay,     \* what an exchange, or a call on its way, takes at most (external)
  LastTick   \* bound: time

ASSUME TokensAssumption == {Life, Margin, Delay, LastTick} \subseteq Nat

VARIABLES
  clock,   \* Utc::now
  cached,  \* tokens: the account's entry
  call,    \* where each request stands
  holds,   \* the token it holds
  since    \* when its current exchange or call began

tokenVars == <<clock, cached, call, holds, since>>

\* CachedToken; `expires` is what Google goes by.
NoToken == [usable |-> 0, expires |-> 0]

TokensTypeOK ==
  /\ clock \in 0 .. LastTick
  /\ call \in [Calls -> {"idle", "minting", "ready", "sent", "done", "failed"}]
  /\ \A c \in Calls : since[c] <= clock

TokensInit ==
  /\ clock = 0 /\ cached = NoToken
  /\ call = [c \in Calls |-> "idle"]
  /\ holds = [c \in Calls |-> NoToken]
  /\ since = [c \in Calls |-> 0]

Moves(c, to) == call' = [call EXCEPT ![c] = to] /\ since' = [since EXCEPT ![c] = clock]

\* get_access_token: the cached token, while it is usable.
TakeCached(c) ==
  /\ call[c] = "idle" /\ cached.usable > clock
  /\ holds' = [holds EXCEPT ![c] = cached] /\ Moves(c, "ready")
  /\ UNCHANGED <<clock, cached>>

\* build_assertion, and the exchange begins.
Mint(c) ==
  /\ call[c] = "idle" /\ ~(cached.usable > clock)
  /\ Moves(c, "minting") /\ UNCHANGED <<clock, cached, holds>>

\* Mutant of Usable: the token is kept to its last moment.
UsableWhole(expiresIn) == clock + expiresIn

Usable(expiresIn) == IF clock + expiresIn > Margin THEN clock + expiresIn - Margin ELSE 0

\* exchange_token: Google may have issued the token at any moment since the exchange began.
Exchanged(c, issued) ==
  /\ call[c] = "minting" /\ issued \in since[c] .. clock
  /\ LET fresh == [usable |-> Usable(Life), expires |-> issued + Life] IN
       /\ cached' = fresh /\ holds' = [holds EXCEPT ![c] = fresh]
  /\ Moves(c, "ready") /\ UNCHANGED clock

\* The exchange is refused or times out.
ExchangeFails(c) ==
  /\ call[c] = "minting" /\ Moves(c, "failed") /\ UNCHANGED <<clock, cached, holds>>

\* chat and chat_stream, as soon as they have the token.
SendCall(c) ==
  /\ call[c] = "ready" /\ Moves(c, "sent") /\ UNCHANGED <<clock, cached, holds>>

\* The call reaches Google (external).
Arrives(c) ==
  /\ call[c] = "sent" /\ Moves(c, "done") /\ UNCHANGED <<clock, cached, holds>>

\* The request is answered and the next one of its client begins.
NextCall(c) ==
  /\ call[c] \in {"done", "failed"}
  /\ call' = [call EXCEPT ![c] = "idle"] /\ since' = [since EXCEPT ![c] = clock]
  /\ holds' = [holds EXCEPT ![c] = NoToken] /\ UNCHANGED <<clock, cached>>

\* The request's timeout: nothing is on its way for longer than Delay.
Pass ==
  /\ clock < LastTick /\ clock' = clock + 1
  /\ \A c \in Calls :
       /\ call[c] \in {"minting", "sent"} => clock < since[c] + Delay
       /\ call[c] # "ready"
  /\ UNCHANGED <<cached, call, holds, since>>

TokensNext ==
  \/ \E c \in Calls :
       \/ TakeCached(c) \/ Mint(c) \/ ExchangeFails(c) \/ SendCall(c) \/ Arrives(c) \/ NextCall(c)
       \/ \E issued \in 0 .. LastTick : Exchanged(c, issued)
  \/ Pass

\* vertex.rs: a token is never handed out with so little life left that it expires while the call
\* is on its way, although another request may have minted it and Google counts from before the
\* answer came.
TokenOutlivesCall == \A c \in Calls : call[c] \in {"ready", "sent"} => clock < holds[c].expires

===============================================================================
