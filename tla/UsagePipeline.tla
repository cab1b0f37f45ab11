---------------------------- MODULE UsagePipeline ----------------------------
(***************************************************************************)
(* From the usage stream to the billing tables: emit appends an event to a *)
(* bounded Redis stream (usage.rs, store.rs) and the usage writer of every *)
(* replica persists batches of it (workers/usage_writer.rs).               *)
(*                                                                         *)
(* All replicas read and write one cursor.  Every await is a step of its   *)
(* own: the cursor read, the stream read, each insert, each rollup, the    *)
(* cursor write.  Stream ids grow with every append, so entry e is the     *)
(* e-th event appended and 0 is the start of the stream.                   *)
(***************************************************************************)
EXTENDS Deployment, FiniteSets

CONSTANTS
  E,           \* number of events appended
  Malformed,   \* entries that do not decode
  BatchSize,   \* BATCH_SIZE
  MaxLen       \* USAGE_STREAM_MAX_LEN

ASSUME UsageAssumption ==
  /\ E \in Nat
  /\ Malformed \subseteq 1 .. E
  /\ BatchSize \in Nat \ {0}
  /\ MaxLen \in Nat

Events == 1 .. E

VARIABLES
  appended,  \* entries 1 .. appended have been added to the stream
  trimmed,   \* entries 1 .. trimmed have been dropped from it by MAXLEN
  cursor,    \* CURSOR_KEY: the last entry known to be processed
  records,   \* the events with a row in usage_records
  rollup,    \* how often each event was folded into daily_aggregates
  phase,     \* what each writer does next
  batch,     \* the entries of its batch that it has yet to process
  last       \* last_id: where its cursor write will point

usageVars == <<appended, trimmed, cursor, records, rollup, phase, batch, last, failures>>

Step == {"idle", "reading", "inserting", "folding", "saving"}

UsageTypeOK ==
  /\ appended \in 0 .. E
  /\ trimmed \in 0 .. appended
  /\ cursor \in 0 .. appended
  /\ records \in SUBSET (1 .. appended)
  /\ rollup \in [Events -> Nat]
  /\ phase \in [Replica -> Step]
  /\ batch \in [Replica -> SUBSET (1 .. appended)]
  /\ last \in [Replica -> 0 .. appended]
  /\ FailuresTypeOK

UsageInit ==
  /\ appended = 0
  /\ trimmed = 0
  /\ cursor = 0
  /\ records = {}
  /\ rollup = [e \in Events |-> 0]
  /\ phase = [w \in Replica |-> "idle"]
  /\ batch = [w \in Replica |-> {}]
  /\ last = [w \in Replica |-> 0]
  /\ faults = 0
  /\ crashes = 0

\* The oldest entry of a set of entries, as a condition on e.
First(e, S) == e \in S /\ \A d \in S : e <= d

-----------------------------------------------------------------------------
(* XADD .. MAXLEN ~: trimming is approximate, so it may lag the limit.     *)

StreamAppend ==
  /\ appended < E
  /\ appended' = appended + 1
  /\ \E t \in trimmed .. appended' :
       /\ t = trimmed \/ t + MaxLen <= appended'
       /\ trimmed' = t
  /\ UNCHANGED <<cursor, records, rollup, phase, batch, last, failures>>

-----------------------------------------------------------------------------
(* process_batch                                                           *)

ReadCursor(w) ==
  /\ phase[w] = "idle"
  /\ phase' = [phase EXCEPT ![w] = "reading"]
  /\ last' = [last EXCEPT ![w] = cursor]
  /\ UNCHANGED <<appended, trimmed, cursor, records, rollup, batch, failures>>

\* A cursor that cannot be read, or has expired, is the beginning of the stream.
ReadCursorFails(w) ==
  /\ phase[w] = "idle"
  /\ Fault
  /\ phase' = [phase EXCEPT ![w] = "reading"]
  /\ last' = [last EXCEPT ![w] = 0]
  /\ UNCHANGED <<appended, trimmed, cursor, records, rollup, batch>>

\* The retained entries after the cursor, at most BatchSize of them, oldest first.
Unread(w) == {e \in (trimmed + 1) .. appended : last[w] < e}

ReadStream(w) ==
  /\ phase[w] = "reading"
  /\ batch' = [batch EXCEPT ![w] =
       {e \in Unread(w) : Cardinality({d \in Unread(w) : d <= e}) <= BatchSize}]
  /\ phase' = [phase EXCEPT ![w] = IF Unread(w) = {} THEN "idle" ELSE "inserting"]
  /\ UNCHANGED <<appended, trimmed, cursor, records, rollup, last, failures>>

ReadStreamFails(w) ==
  /\ phase[w] = "reading"
  /\ Fault
  /\ phase' = [phase EXCEPT ![w] = "idle"]
  /\ UNCHANGED <<appended, trimmed, cursor, records, rollup, batch, last>>

\* Mutant of Skip: an entry that does not decode halts the batch like a failed insert.
SkipByHalting(w) ==
  /\ phase[w] = "inserting"
  /\ \E e \in batch[w] \cap Malformed : First(e, batch[w])
  /\ phase' = [phase EXCEPT ![w] = "saving"]
  /\ batch' = [batch EXCEPT ![w] = {}]
  /\ UNCHANGED <<appended, trimmed, cursor, records, rollup, last, failures>>

\* An entry that does not decode is counted and passed over.
Skip(w) ==
  /\ phase[w] = "inserting"
  /\ \E e \in batch[w] \cap Malformed :
       /\ First(e, batch[w])
       /\ batch' = [batch EXCEPT ![w] = @ \ {e}]
       /\ last' = [last EXCEPT ![w] = e]
  /\ UNCHANGED <<appended, trimmed, cursor, records, rollup, phase, failures>>

\* insert_usage_record: ON CONFLICT DO NOTHING, and says whether there is a new row.
IsNew(e) == e \notin records

\* Mutant of Insert: the rollup follows the entry whether or not the row was new.
InsertAlwaysFolding(w) ==
  /\ phase[w] = "inserting"
  /\ \E e \in batch[w] \ Malformed : First(e, batch[w])
  /\ records' = records \cup {e \in batch[w] : First(e, batch[w])}
  /\ phase' = [phase EXCEPT ![w] = "folding"]
  /\ UNCHANGED <<appended, trimmed, cursor, rollup, batch, last, failures>>

\* A new row is folded into the rollup next, a row that exists already (redelivery) is
\* passed over.
Insert(w) ==
  /\ phase[w] = "inserting"
  /\ \E e \in batch[w] \ Malformed :
       /\ First(e, batch[w])
       /\ IF IsNew(e)
            THEN /\ records' = records \cup {e}
                 /\ phase' = [phase EXCEPT ![w] = "folding"]
                 /\ UNCHANGED <<batch, last>>
            ELSE /\ batch' = [batch EXCEPT ![w] = @ \ {e}]
                 /\ last' = [last EXCEPT ![w] = e]
                 /\ UNCHANGED <<records, phase>>
  /\ UNCHANGED <<appended, trimmed, cursor, rollup, failures>>

\* Mutant of InsertFails: the failed entry is passed over like a malformed one.
InsertFailsMovingOn(w) ==
  /\ phase[w] = "inserting"
  /\ Fault
  /\ \E e \in batch[w] \ Malformed :
       /\ First(e, batch[w])
       /\ batch' = [batch EXCEPT ![w] = @ \ {e}]
       /\ last' = [last EXCEPT ![w] = e]
  /\ UNCHANGED <<appended, trimmed, cursor, records, rollup, phase>>

\* A failed insert ends the batch; the cursor will point before the entry.  The error may
\* hide a row that was committed.
InsertFails(w) ==
  /\ phase[w] = "inserting"
  /\ Fault
  /\ \E e \in batch[w] \ Malformed :
       /\ First(e, batch[w])
       /\ records' \in {records, records \cup {e}}
  /\ phase' = [phase EXCEPT ![w] = "saving"]
  /\ batch' = [batch EXCEPT ![w] = {}]
  /\ UNCHANGED <<appended, trimmed, cursor, rollup, last>>

Fold(w) ==
  /\ phase[w] = "folding"
  /\ \E e \in batch[w] :
       /\ First(e, batch[w])
       /\ rollup' = [rollup EXCEPT ![e] = @ + 1]
       /\ batch' = [batch EXCEPT ![w] = @ \ {e}]
       /\ last' = [last EXCEPT ![w] = e]
  /\ phase' = [phase EXCEPT ![w] = "inserting"]
  /\ UNCHANGED <<appended, trimmed, cursor, records, failures>>

\* A failed rollup is only logged: the batch goes on.
FoldFails(w) ==
  /\ phase[w] = "folding"
  /\ Fault
  /\ \E e \in batch[w] :
       /\ First(e, batch[w])
       /\ rollup' \in {rollup, [rollup EXCEPT ![e] = @ + 1]}
       /\ batch' = [batch EXCEPT ![w] = @ \ {e}]
       /\ last' = [last EXCEPT ![w] = e]
  /\ phase' = [phase EXCEPT ![w] = "inserting"]
  /\ UNCHANGED <<appended, trimmed, cursor, records>>

Finished(w) == phase[w] = "saving" \/ (phase[w] = "inserting" /\ batch[w] = {})

\* The write is unconditional: a slower replica may move the cursor back.
SaveCursor(w) ==
  /\ Finished(w)
  /\ cursor' = last[w]
  /\ phase' = [phase EXCEPT ![w] = "idle"]
  /\ UNCHANGED <<appended, trimmed, records, rollup, batch, last, failures>>

\* The error may hide a cursor that was written.
SaveCursorFails(w) ==
  /\ Finished(w)
  /\ Fault
  /\ cursor' \in {cursor, last[w]}
  /\ phase' = [phase EXCEPT ![w] = "idle"]
  /\ UNCHANGED <<appended, trimmed, records, rollup, batch, last>>

-----------------------------------------------------------------------------

\* A replica restarts: its batch is gone, the store and the database are not.
Restart(w) ==
  /\ phase[w] # "idle"
  /\ Crash
  /\ phase' = [phase EXCEPT ![w] = "idle"]
  /\ batch' = [batch EXCEPT ![w] = {}]
  /\ UNCHANGED <<appended, trimmed, cursor, records, rollup, last>>

Work(w) ==
  \/ ReadCursor(w) \/ ReadStream(w) \/ Skip(w) \/ Insert(w) \/ Fold(w) \/ SaveCursor(w)

WriterTrouble(w) ==
  \/ ReadCursorFails(w) \/ ReadStreamFails(w) \/ InsertFails(w) \/ FoldFails(w)
  \/ SaveCursorFails(w) \/ Restart(w)

UsageNext == StreamAppend \/ \E w \in Replica : Work(w) \/ WriterTrouble(w)

UsageSpec == UsageInit /\ [][UsageNext]_usageVars

\* The writers loop for ever, with a pause of at most 5 s between polls.
UsageFairSpec == UsageSpec /\ \A w \in Replica : WF_usageVars(Work(w))

-----------------------------------------------------------------------------
(* Properties                                                              *)

\* The entries a writer or the stored cursor has left behind.
Passed == UNION {1 .. p : p \in {cursor} \cup {last[w] : w \in Replica}}

\* usage_writer.rs, "why the cursor is stored in Redis": whatever fails or restarts, and
\* however the replicas' cursor writes interleave, the cursor never passes an entry that
\* is not persisted, unless it does not decode or the stream dropped it unread.
NothingSkipped == Passed \subseteq records \cup Malformed \cup 1 .. trimmed

\* With no failure, a row without its rollup is one some writer is about to fold: two
\* replicas on the same entries neither fold one twice nor both leave it to the other.
RollupFollows ==
  faults = 0 /\ crashes = 0 =>
    \A e \in records :
      rollup[e] = 1 \/ \E w \in Replica : phase[w] = "folding" /\ First(e, batch[w])

\* Every event that decodes and that the stream still holds is persisted in the end.
EveryEventPersisted ==
  \A e \in Events : (appended >= e) ~> (e \in records \cup Malformed \cup 1 .. trimmed)

-----------------------------------------------------------------------------

Log == INSTANCE BillingLog WITH emitted <- appended, persisted <- records

\* At-least-once delivery of the stream, exactly-once effect on the billing tables.
LogSpec == Log!Spec

=============================================================================
