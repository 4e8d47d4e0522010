-------------------------- MODULE RequestScheduler --------------------------
(***************************************************************************)
(* HashRequestScheduler of a client's storage session: enqueue_blocking    *)
(* calls for the same hash share one slot and one execution of the         *)
(* handler; a semaphore bounds the executions.                             *)
(*                                                                         *)
(* enqueue_blocking takes the in_flight lock, then the slot's lock, then   *)
(* awaits a permit; the spawned task runs the handler, completes the slot, *)
(* calls the callbacks, and takes the in_flight lock again to remove the   *)
(* slot.  Each locked section is one action.  A slot is named by the       *)
(* request that created it.                                                *)
(***************************************************************************)
EXTENDS Integers, FiniteSets

CONSTANTS Requests,  \* enqueue_blocking calls
          Hashes,
          HashOf,    \* [Requests -> Hashes]
          Permits,   \* concurrency.max(1)
          None

ASSUME SchedulerAssumption ==
  /\ HashOf \in [Requests -> Hashes]
  /\ Permits \in Nat \ {0}
  /\ None \notin Requests \cup {"ok", "err"}

VARIABLES in_flight,  \* [Hashes -> slot or None]
          call,       \* where each enqueue_blocking call is
          slot_of,    \* the slot a call found or made
          result,     \* result of each slot
          callbacks,  \* callbacks waiting in each slot
          job,        \* the task of each slot
          calling,    \* callbacks its task has taken and not called yet
          answers     \* results each request's callback was called with

schedulerVars == <<in_flight, call, slot_of, result, callbacks, job, calling, answers>>

Outcomes == {"ok", "err"}

SchedulerTypeOK ==
  /\ in_flight \in [Hashes -> Requests \cup {None}]
  /\ call \in [Requests -> {"new", "joined", "acquiring", "returned", "dropped"}]
  /\ slot_of \in [Requests -> Requests \cup {None}]
  /\ result \in [Requests -> Outcomes \cup {None}]
  /\ callbacks \in [Requests -> SUBSET Requests]
  /\ job \in [Requests -> {"none", "running", "calling", "removed"}]
  /\ calling \in [Requests -> SUBSET Requests]
  /\ answers \in [Requests -> [Outcomes -> Nat]]

SchedulerInit ==
  /\ in_flight = [h \in Hashes |-> None]
  /\ call = [q \in Requests |-> "new"]
  /\ slot_of = [q \in Requests |-> None]
  /\ result = [q \in Requests |-> None]
  /\ callbacks = [q \in Requests |-> {}]
  /\ job = [q \in Requests |-> "none"]
  /\ calling = [q \in Requests |-> {}]
  /\ answers = [q \in Requests |-> [r \in Outcomes |-> 0]]

Answer(q, r) == answers' = [answers EXCEPT ![q][r] = @ + 1]

(* First section of enqueue_blocking: find the slot of the hash or make it.*)
Joined_fresh(q) == q
Joined(q) == IF in_flight[HashOf[q]] # None THEN in_flight[HashOf[q]] ELSE q

Join(q) ==
  /\ call[q] = "new"
  /\ call' = [call EXCEPT ![q] = "joined"]
  /\ slot_of' = [slot_of EXCEPT ![q] = Joined(q)]
  /\ in_flight' = [in_flight EXCEPT ![HashOf[q]] = Joined(q)]
  /\ UNCHANGED <<result, callbacks, job, calling, answers>>

AfterCallback(q) == IF slot_of[q] = q THEN "acquiring" ELSE "returned"

(* The slot is not complete yet.                                           *)
Open_unchecked(q) == TRUE
Open(q) == result[slot_of[q]] = None

(* add_callback: leave the callback in the slot, or call it at once when   *)
(* the slot is complete.                                                   *)
AddCallback(q) ==
  /\ call[q] = "joined"
  /\ Open(q)
  /\ callbacks' = [callbacks EXCEPT ![slot_of[q]] = @ \cup {q}]
  /\ call' = [call EXCEPT ![q] = AfterCallback(q)]
  /\ UNCHANGED <<in_flight, slot_of, result, job, calling, answers>>

CallbackAtOnce(q) ==
  /\ call[q] = "joined"
  /\ ~Open(q)
  /\ Answer(q, result[slot_of[q]])
  /\ call' = [call EXCEPT ![q] = AfterCallback(q)]
  /\ UNCHANGED <<in_flight, slot_of, result, callbacks, job, calling>>

Running == {q \in Requests : job[q] \in {"running", "calling"}}

(* The owner gets a permit and spawns the task.                            *)
Acquire(q) ==
  /\ call[q] = "acquiring"
  /\ Cardinality(Running) < Permits
  /\ job' = [job EXCEPT ![q] = "running"]
  /\ call' = [call EXCEPT ![q] = "returned"]
  /\ UNCHANGED <<in_flight, slot_of, result, callbacks, calling, answers>>

(* The handler returns; RequestSlot::complete sets the result and takes    *)
(* the callbacks.                                                          *)
Complete(q, r) ==
  /\ job[q] = "running"
  /\ result' = [result EXCEPT ![q] = r]
  /\ calling' = [calling EXCEPT ![q] = callbacks[q]]
  /\ callbacks' = [callbacks EXCEPT ![q] = {}]
  /\ job' = [job EXCEPT ![q] = "calling"]
  /\ UNCHANGED <<in_flight, call, slot_of, answers>>

LeftToCall(q, w) == calling[q] \ {w}

CallBack(q, w) ==
  /\ w \in calling[q]
  /\ calling' = [calling EXCEPT ![q] = LeftToCall(q, w)]
  /\ Answer(w, result[q])
  /\ UNCHANGED <<in_flight, call, slot_of, result, callbacks, job>>

(* The task removes the slot and gives its permit back.                    *)
Emptied_ifOk(q) == IF result[q] = "ok" THEN None ELSE q
Emptied(q) == None

Remove(q) ==
  /\ job[q] = "calling" /\ calling[q] = {}
  /\ in_flight' = [in_flight EXCEPT ![HashOf[q]] = Emptied(q)]
  /\ job' = [job EXCEPT ![q] = "removed"]
  /\ UNCHANGED <<call, slot_of, result, callbacks, calling, answers>>

(* The future of the call is dropped at one of its awaits.  A slot that it *)
(* made stays in in_flight, and its task is never spawned.                 *)
Drop(q) ==
  /\ call[q] \in {"joined", "acquiring"}
  /\ call' = [call EXCEPT ![q] = "dropped"]
  /\ UNCHANGED <<in_flight, slot_of, result, callbacks, job, calling, answers>>

SchedulerStep(q) ==
  \/ AddCallback(q)
  \/ CallbackAtOnce(q)
  \/ Acquire(q)
  \/ \E r \in Outcomes : Complete(q, r)
  \/ \E w \in Requests : CallBack(q, w)
  \/ Remove(q)

SchedulerNext == \E q \in Requests : Join(q) \/ SchedulerStep(q) \/ Drop(q)

SchedulerSpec == SchedulerInit /\ [][SchedulerNext]_schedulerVars

-----------------------------------------------------------------------------
Answered(q) == answers[q]["ok"] + answers[q]["err"]

(* The slot q was given to lost its owner before it had a task.            *)
Abandoned(q) == slot_of[q] # None /\ call[slot_of[q]] = "dropped"

(* A slot in in_flight is one whose task is still to finish (or never to   *)
(* start): a failed request can be retried, because what comes later never *)
(* meets a result that stays for ever.                                     *)
NoStaleSlot ==
  \A h \in Hashes : in_flight[h] # None =>
    /\ HashOf[in_flight[h]] = h
    /\ job[in_flight[h]] # "removed"

(* No hash is ever executed twice at a time, and no more executions run    *)
(* than there are permits.                                                 *)
OneExecution ==
  /\ \A p, q \in Running : HashOf[p] = HashOf[q] => p = q
  /\ Cardinality(Running) <= Permits

(* Every enqueued request is answered exactly once in the end, though only *)
(* the first of a hash executes and others may join when it is complete.   *)
(* A caller that gives up costs an answer to those who joined its slot     *)
(* before it had a permit, and to nobody else: no permit goes with it.     *)
EveryRequestAnswered ==
  <>[](\A q \in Requests :
         call[q] \in {"new", "dropped"} \/ Abandoned(q) \/ Answered(q) = 1)
=============================================================================
