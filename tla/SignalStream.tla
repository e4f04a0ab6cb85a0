----------------------------- MODULE SignalStream -----------------------------
(***************************************************************************)
(* RedisSignalSource (signal/sources/redis_stream.py): a consumer group on *)
(* a stream, read in batches; every entry is dispatched and acknowledged.  *)
(* The session may stop the source, or the process may crash at any step,  *)
(* and be started again; the server and its pending entries survive.       *)
(* A stopped thread is taken to end within the 3 seconds stop waits.  An   *)
(* entry that cannot be parsed goes the same way, without a dispatch.      *)
(***************************************************************************)
EXTENDS Naturals, Sequences

CONSTANTS
    MaxEntries,   \* bound: entries added to the stream, numbered 1..
    BatchSize,    \* count of XREADGROUP: 16
    MaxEnds       \* bound: crashes and stops

ASSUME StreamBounds ==
    MaxEntries \in Nat /\ BatchSize \in Nat \ {0} /\ MaxEnds \in Nat

VARIABLES
    added,        \* entries in the stream
    delivered,    \* last entry the group has delivered
    pendingAcks,  \* entries delivered and not acknowledged
    loop,         \* where the consumer thread is; "down": there is none
    stopping,     \* _stopped
    batch,        \* entries the thread has read and not yet gone through
    toAck,        \* the entry it has dispatched and not yet acknowledged; 0: none
    handled,      \* how often each entry was handed to dispatch
    dropped,      \* entries in hand when the process crashed
    ends          \* crashes and stops so far

streamVars == <<added, delivered, pendingAcks, loop, stopping, batch, toAck,
                handled, dropped, ends>>

Entries == 1..MaxEntries
BatchEntries == {batch[i] : i \in DOMAIN batch}

StreamInit ==
    /\ added = 0 /\ delivered = 0 /\ pendingAcks = {}
    /\ loop = "down" /\ stopping = FALSE /\ batch = <<>> /\ toAck = 0
    /\ handled = [e \in Entries |-> 0]
    /\ dropped = {} /\ ends = 0

-----------------------------------------------------------------------------
AddEntry ==
    /\ added < MaxEntries /\ added' = added + 1
    /\ UNCHANGED <<delivered, pendingAcks, loop, stopping, batch, toAck, handled,
                   dropped, ends>>

\* start: create the group (it may exist already) and the consumer thread.
StartStream ==
    /\ loop = "down"
    /\ loop' = "test" /\ stopping' = FALSE
    /\ UNCHANGED <<added, delivered, pendingAcks, batch, toAck, handled, dropped,
                   ends>>

\* stop: the thread goes through its batch and ends at its next test.
StopStream ==
    /\ loop # "down" /\ ~stopping /\ ends < MaxEnds
    /\ stopping' = TRUE /\ ends' = ends + 1
    /\ UNCHANGED <<added, delivered, pendingAcks, loop, batch, toAck, handled,
                   dropped>>

TestFlag ==
    /\ loop = "test"
    /\ loop' = IF stopping THEN "down" ELSE "read"
    /\ UNCHANGED <<added, delivered, pendingAcks, stopping, batch, toAck, handled,
                   dropped, ends>>

\* A variant for checking: entries read are not kept pending.
ReadBatchNoAck ==
    /\ loop = "read" /\ delivered < added
    /\ batch' = <<delivered + 1>> /\ delivered' = delivered + 1
    /\ loop' = "entries"
    /\ UNCHANGED <<added, pendingAcks, stopping, toAck, handled, dropped, ends>>

\* XREADGROUP with ">": entries no consumer of the group was given before.
ReadBatch ==
    /\ loop = "read" /\ delivered < added
    /\ \E n \in 1..BatchSize :
          /\ n <= added - delivered
          /\ n = BatchSize \/ n = added - delivered
          /\ batch' = [i \in 1..n |-> delivered + i]
          /\ delivered' = delivered + n
          /\ pendingAcks' = pendingAcks \cup ((delivered + 1)..(delivered + n))
    /\ loop' = "entries"
    /\ UNCHANGED <<added, stopping, toAck, handled, dropped, ends>>

\* Nothing within block_ms, or the read failed: the loop goes round.
ReadNothing ==
    /\ loop = "read" /\ loop' = "test"
    /\ UNCHANGED <<added, delivered, pendingAcks, stopping, batch, toAck, handled,
                   dropped, ends>>

\* Dispatch the batch's next entry.
HandleEntry ==
    /\ loop = "entries" /\ batch # <<>> /\ toAck = 0
    /\ toAck' = Head(batch) /\ batch' = Tail(batch)
    /\ handled' = [handled EXCEPT ![Head(batch)] = @ + 1]
    /\ UNCHANGED <<added, delivered, pendingAcks, loop, stopping, dropped, ends>>

\* A variant for checking: a failed XACK ends the thread, and its batch.
AckFailureEnds ==
    /\ loop = "entries" /\ toAck # 0 /\ toAck' = 0
    /\ \/ /\ pendingAcks' = pendingAcks \ {toAck}
          /\ loop' = IF batch = <<>> THEN "test" ELSE "entries"
          /\ UNCHANGED batch
       \/ loop' = "down" /\ batch' = <<>> /\ UNCHANGED pendingAcks
    /\ UNCHANGED <<added, delivered, stopping, handled, dropped, ends>>

\* XACK, whatever dispatch did; a failed XACK is only logged.
AckEntry ==
    /\ loop = "entries" /\ toAck # 0
    /\ pendingAcks' \in {pendingAcks, pendingAcks \ {toAck}}
    /\ toAck' = 0
    /\ loop' = IF batch = <<>> THEN "test" ELSE "entries"
    /\ UNCHANGED <<added, delivered, stopping, batch, handled, dropped, ends>>

\* The process dies with what it had read.
CrashStream ==
    /\ loop # "down" /\ ends < MaxEnds
    /\ loop' = "down" /\ batch' = <<>> /\ toAck' = 0
    /\ dropped' = dropped \cup BatchEntries
    /\ ends' = ends + 1
    /\ UNCHANGED <<added, delivered, pendingAcks, stopping, handled>>

StreamStep == TestFlag \/ ReadBatch \/ ReadNothing \/ HandleEntry \/ AckEntry

StreamNext == AddEntry \/ StartStream \/ StopStream \/ StreamStep \/ CrashStream

\* The thread runs and reads succeed again and again; somebody restarts the
\* process.  Entries need not come, crashes and stops need not happen.
StreamFairness ==
    /\ WF_streamVars(StreamStep) /\ SF_streamVars(ReadBatch)
    /\ WF_streamVars(StartStream)

StreamSpec == StreamInit /\ [][StreamNext]_streamVars /\ StreamFairness

-----------------------------------------------------------------------------
(* Properties *)

\* An entry delivered is dispatched once, or in the batch in hand, or was in
\* the batch of a crash and is still pending at the server: neither a stop nor
\* a failed acknowledgement loses or repeats one (redis_stream.py, _consume).
HandledOnceOrPending ==
    \A e \in 1..delivered :
        \/ handled[e] = 1
        \/ handled[e] = 0 /\ e \in BatchEntries
        \/ handled[e] = 0 /\ e \in dropped /\ e \in pendingAcks

\* Every entry is dispatched in the end, unless a crash took its batch
\* (redis_stream.py, _consume).
EntriesDispatched ==
    \A e \in Entries : added >= e ~> (handled[e] = 1 \/ e \in dropped)
=============================================================================
