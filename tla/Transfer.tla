------------------------------ MODULE Transfer ------------------------------
(***************************************************************************)
(* upload_file_inner and download_file of the client: a transfer enqueues  *)
(* its chunks one after the other with the session's request scheduler,    *)
(* whose callbacks run on other tasks and share a counter, the first error *)
(* and a oneshot channel with it.                                          *)
(*                                                                         *)
(* A request is one chunk of one transfer.  A session has one scheduler    *)
(* for uploads and one for downloads; this is either.  The update lease    *)
(* around an upload is in Central; what the volume does with a chunk is in *)
(* Volume.                                                                 *)
(***************************************************************************)
EXTENDS RequestScheduler, Sequences

CONSTANTS Transfers,
          Directions, \* a part of BOOLEAN: uploads (TRUE), downloads, or both
          Chunks,     \* [Transfers -> Seq(Requests)], in file order
          Target,     \* [Transfers -> Volumes]
          Volumes,
          MaxCancels  \* transfers whose caller drops them

RequestsOf(t) == {Chunks[t][i] : i \in 1 .. Len(Chunks[t])}
TransferOf(q) == CHOOSE t \in Transfers : q \in RequestsOf(t)

ASSUME TransferAssumption ==
  /\ Directions \subseteq BOOLEAN
  /\ Chunks \in [Transfers -> Seq(Requests)]
  /\ Target \in [Transfers -> Volumes]
  /\ MaxCancels \in Nat
  /\ \A t, u \in Transfers : t # u => RequestsOf(t) \cap RequestsOf(u) = {}
  /\ \A q \in Requests : \E t \in Transfers : q \in RequestsOf(t)

VARIABLES uploading,   \* the scheduler's transfers are uploads, or all downloads
          pc,          \* where each transfer is; "ok" and "err" once it returned,
                       \* "cancelled" once its caller dropped it
          scheduled,   \* chunks handed to the scheduler
          remain,      \* remain_chunks
          done_sched,  \* scheduling_done
          first_error, \* first_error is set
          channel,     \* what was sent through done_tx
          stored,      \* chunks in the volumes of the storage server
          written      \* chunks sent to the writer of a download's local file

transferVars == <<uploading, pc, scheduled, remain, done_sched, first_error, channel, stored, written>>
vars == <<schedulerVars, transferVars>>

TransferInit ==
  /\ SchedulerInit
  /\ uploading \in Directions
  /\ pc = [t \in Transfers |-> "scheduling"]
  /\ scheduled = [t \in Transfers |-> 0]
  /\ remain = [t \in Transfers |-> 0]
  /\ done_sched = [t \in Transfers |-> FALSE]
  /\ first_error = [t \in Transfers |-> FALSE]
  /\ channel = [t \in Transfers |-> None]
  /\ stored = {}
  /\ written = {}

-----------------------------------------------------------------------------
(* The last enqueue_blocking of the transfer has returned.                 *)
Ready(t) == /\ pc[t] = "scheduling"
            /\ scheduled[t] > 0 => call[Chunks[t][scheduled[t]]] = "returned"

(* Count the chunk, then enqueue it.                                       *)
Schedule(t) ==
  /\ Ready(t) /\ scheduled[t] < Len(Chunks[t])
  /\ remain' = [remain EXCEPT ![t] = @ + 1]
  /\ scheduled' = [scheduled EXCEPT ![t] = @ + 1]
  /\ Join(Chunks[t][scheduled[t] + 1])
  /\ UNCHANGED <<uploading, pc, done_sched, first_error, channel, stored, written>>

(* Reading the local file, or listing a bundle's chunks, fails.            *)
ScheduleFails(t) ==
  /\ Ready(t) /\ scheduled[t] < Len(Chunks[t])
  /\ pc' = [pc EXCEPT ![t] = "err"]
  /\ UNCHANGED <<schedulerVars, uploading, scheduled, remain, done_sched, first_error, channel,
                 stored, written>>

Sent_always(t, failed) == IF channel[t] # None THEN channel[t] ELSE "ok"
Sent(t, failed) == IF channel[t] # None THEN channel[t] ELSE IF failed THEN "err" ELSE "ok"

(* All chunks are enqueued.  When all were answered before, the transfer   *)
(* sends the result but does not receive it.                               *)
FinishScheduling(t) ==
  /\ Ready(t) /\ scheduled[t] = Len(Chunks[t])
  /\ done_sched' = [done_sched EXCEPT ![t] = TRUE]
  /\ channel' = [channel EXCEPT ![t] = IF remain[t] = 0 THEN Sent(t, first_error[t]) ELSE @]
  /\ pc' = [pc EXCEPT ![t] = IF remain[t] = 0 THEN "transferred" ELSE "waiting"]
  /\ UNCHANGED <<schedulerVars, uploading, scheduled, remain, first_error, stored, written>>

(* done_rx.await. *)
Await(t) ==
  /\ pc[t] = "waiting" /\ channel[t] # None
  /\ pc' = [pc EXCEPT ![t] = IF channel[t] = "ok" THEN "transferred" ELSE "err"]
  /\ UNCHANGED <<schedulerVars, uploading, scheduled, remain, done_sched, first_error, channel,
                 stored, written>>

(* A download returns.  An upload has its bundles committed: the volume    *)
(* refuses a bundle with a chunk it does not have.                         *)
BundlesCommit_unchecked(t) == TRUE
BundlesCommit(t) == \A q \in RequestsOf(t) : <<HashOf[q], Target[t]>> \in stored

Return(t) ==
  /\ pc[t] = "transferred"
  /\ pc' = [pc EXCEPT ![t] = IF uploading => BundlesCommit(t) THEN "ok" ELSE "err"]
  /\ UNCHANGED <<schedulerVars, uploading, scheduled, remain, done_sched, first_error, channel,
                 stored, written>>

Cancelled == {t \in Transfers : pc[t] = "cancelled"}

(* The caller drops the transfer while it is in enqueue_blocking, and that *)
(* call with it; its callbacks in the scheduler stay and are still called. *)
(* Dropped between two calls, it leaves what ScheduleFails leaves; dropped *)
(* later, it only misses its answer.                                       *)
Cancel(t) ==
  /\ pc[t] = "scheduling" /\ scheduled[t] > 0
  /\ Cardinality(Cancelled) < MaxCancels
  /\ Drop(Chunks[t][scheduled[t]])
  /\ pc' = [pc EXCEPT ![t] = "cancelled"]
  /\ UNCHANGED <<uploading, scheduled, remain, done_sched, first_error, channel, stored, written>>

-----------------------------------------------------------------------------
(* The completion callback of one chunk. *)
Signals_early(t) == done_sched[t] /\ remain[t] = 0
Signals(t) == done_sched[t] /\ remain[t] - 1 = 0

Remaining_ifOk(t, r) == IF r = "ok" THEN remain[t] - 1 ELSE remain[t]
Remaining(t, r) == remain[t] - 1

Callback(q, r) ==
  LET t == TransferOf(q)
  IN  /\ written' = IF r = "ok" /\ ~uploading THEN written \cup {q} ELSE written
      /\ first_error' = [first_error EXCEPT ![t] = @ \/ r = "err"]
      /\ remain' = [remain EXCEPT ![t] = Remaining(t, r)]
      /\ channel' = [channel EXCEPT ![t] = IF Signals(t) THEN Sent(t, first_error'[t]) ELSE @]
      /\ UNCHANGED <<uploading, pc, scheduled, done_sched, stored>>

(* upload_chunk_job and download_chunk_job, run for the request that made  *)
(* the slot.  An upload that fails may have stored the chunk.              *)
Execute(q, r) ==
  LET t == TransferOf(q)
      kept == <<HashOf[q], Target[t]>>
  IN  /\ Complete(q, r)
      /\ stored' \in IF ~uploading THEN {stored}
                     ELSE IF r = "ok" THEN {stored \cup {kept}}
                     ELSE {stored, stored \cup {kept}}
      /\ UNCHANGED <<uploading, pc, scheduled, remain, done_sched, first_error, channel, written>>

SchedulerWork(q) ==
  \/ (AddCallback(q) \/ Acquire(q) \/ Remove(q)) /\ UNCHANGED transferVars
  \/ CallbackAtOnce(q) /\ Callback(q, result[slot_of[q]])
  \/ \E w \in Requests : CallBack(q, w) /\ Callback(w, result[q])
  \/ \E r \in Outcomes : Execute(q, r)

TransferStep(t) == Schedule(t) \/ FinishScheduling(t) \/ Await(t) \/ Return(t)

TransferNext ==
  \/ \E q \in Requests : SchedulerWork(q)
  \/ \E t \in Transfers : TransferStep(t) \/ ScheduleFails(t) \/ Cancel(t)

(* Tokio runs every ready task and hands permits to its waiters in order;  *)
(* an execution ends, since its requests time out.                         *)
TransferSpec ==
  /\ TransferInit /\ [][TransferNext]_vars
  /\ \A q \in Requests : WF_vars(SchedulerWork(q))
                         /\ SF_vars(Acquire(q) /\ UNCHANGED transferVars)
  /\ \A t \in Transfers : WF_vars(TransferStep(t))

-----------------------------------------------------------------------------
(* remain_chunks counts the chunks still to be answered, so it is zero     *)
(* neither too early nor never, whoever executed them.                     *)
RemainCounts ==
  \A t \in Transfers :
    remain[t] = Cardinality({i \in 1 .. scheduled[t] : Answered(Chunks[t][i]) = 0})

(* The channel tells the truth: Ok is sent only when every chunk of the    *)
(* transfer was answered Ok, and those of a download sent to the writer.   *)
ChannelTruthful ==
  \A t \in Transfers : channel[t] = "ok" =>
    \A q \in RequestsOf(t) : answers[q]["ok"] = 1 /\ (uploading \/ q \in written)

(* An upload that returns Ok has stored every chunk in the volume its      *)
(* lease names, though another transfer, for another volume, may have      *)
(* answered for some of them.                                              *)
UploadWhole ==
  \A t \in Transfers : (uploading /\ pc[t] = "ok") =>
    \A q \in RequestsOf(t) : <<HashOf[q], Target[t]>> \in stored

(* Every transfer returns: no signal is lost between the last callback and *)
(* the end of scheduling.  The exceptions are the transfer a caller drops, *)
(* and one that shares with it a chunk that had no permit yet.             *)
TransfersEnd ==
  <>(\A t \in Transfers : pc[t] \in {"ok", "err", "cancelled"}
                          \/ \E q \in RequestsOf(t) : Abandoned(q))

(* A download that returns Ok has written every chunk of the file.         *)
DownloadWhole ==
  \A t \in Transfers : (~uploading /\ pc[t] = "ok") => RequestsOf(t) \subseteq written
=============================================================================
