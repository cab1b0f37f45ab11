------------------------------ MODULE MCServing ------------------------------
(***************************************************************************)
(* Serving a request from the providers: which of them is called           *)
(* (ProviderCalls), and how a streamed answer reaches the client           *)
(* (Streams).  The calls share the breakers, a stream shares nothing, so a *)
(* behaviour follows either the calls of a replica or one stream.          *)
(***************************************************************************)
EXTENDS ProviderCalls, Streams

VARIABLE task  \* what this behaviour follows

vars == <<callVars, streamVars, task>>

TypeOK == CallsTypeOK /\ StreamTypeOK /\ task \in {"calls", "stream"}

\* A stream that is not followed is one of them.
Init ==
  /\ task \in {"calls", "stream"}
  /\ CallsInit
  /\ StreamInit /\ (task = "calls" => surface = "chat" /\ shape = "openai")

OfCalls(A)  == task = "calls" /\ A /\ UNCHANGED <<streamVars, task>>
OfStream(A) == task = "stream" /\ A /\ UNCHANGED <<callVars, task>>

Next == OfCalls(CallsNext) \/ OfStream(StreamNext)

Spec == Init /\ [][Next]_vars

\* Every provider call returns or times out, time passes, and traffic keeps coming; no
\* provider need ever recover.  The generator of a stream is polled while its client reads,
\* and the timeout of the call ends a provider that says no more.
FairSpec ==
  /\ Spec
  /\ \A r \in Request : WF_vars(OfCalls(Arrive(r))) /\ WF_vars(OfCalls(Handle(r)))
  /\ \A p \in Provider : WF_vars(OfCalls(TimerExpires(p)))
  /\ WF_vars(OfStream(Gateway)) /\ WF_vars(OfStream(Break))

-----------------------------------------------------------------------------
(* Properties                                                              *)

\* StreamCloses, of the behaviours that follow a stream.
StreamsClose == task = "stream" => StreamCloses

-----------------------------------------------------------------------------
(***************************************************************************)
(* Serving with two providers and two request slots, a chat and a stream   *)
(* whose chains start at the same provider; and answers of three pieces    *)
(* and two calls: text and a call in either order, two calls, a call with  *)
(* two fragments, text around a call.                                      *)
(***************************************************************************)

CONSTANTS anthropic, openai, chat, stream

MCChain == chat :> <<anthropic, openai>> @@ stream :> <<anthropic, openai>>

===============================================================================
