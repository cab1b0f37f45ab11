--------------------------- MODULE MessageProtocol ---------------------------
(***************************************************************************)
(* What a client of the Messages API may be sent: the named events of a    *)
(* streamed message, one step per event, in the order its SDK expects      *)
(* (routes/anthropic_compat.rs, the sequence documented at sse_event).     *)
(***************************************************************************)
EXTENDS Naturals, FiniteSets

CONSTANT Closed

VARIABLES
  phase,  \* "before", "message", "delta" (message_delta was sent), "stopped"
  open,   \* the block that is open, or Closed
  sizes   \* how much each block that was ever opened has received

vars == <<phase, open, sizes>>

Init == phase = "before" /\ open = Closed /\ sizes = <<>>

MessageStart ==
  /\ phase = "before"
  /\ phase' = "message"
  /\ UNCHANGED <<open, sizes>>

\* A block is opened when none is, under the next index.
BlockStart ==
  LET next == Cardinality(DOMAIN sizes)
  IN  /\ phase = "message"
      /\ open = Closed
      /\ open' = next
      /\ sizes' = [i \in 0 .. next |-> IF i = next THEN 0 ELSE sizes[i]]
      /\ UNCHANGED phase

\* Only the open block grows.
BlockDelta ==
  /\ phase = "message"
  /\ open # Closed
  /\ DOMAIN sizes' = DOMAIN sizes
  /\ sizes'[open] > sizes[open]
  /\ \A i \in DOMAIN sizes \ {open} : sizes'[i] = sizes[i]
  /\ UNCHANGED <<phase, open>>

BlockStop ==
  /\ phase = "message"
  /\ open # Closed
  /\ open' = Closed
  /\ UNCHANGED <<phase, sizes>>

MessageDelta ==
  /\ phase = "message"
  /\ open = Closed
  /\ phase' = "delta"
  /\ UNCHANGED <<open, sizes>>

MessageStop ==
  /\ phase = "delta"
  /\ phase' = "stopped"
  /\ UNCHANGED <<open, sizes>>

Next == MessageStart \/ BlockStart \/ BlockDelta \/ BlockStop \/ MessageDelta \/ MessageStop

Spec == Init /\ [][Next]_vars

===============================================================================
