--------------------------- MODULE TransferProofs ---------------------------
(***************************************************************************)
(* First, the safety of HashRequestScheduler for every set of requests and *)
(* hashes and every number of permits, with calls dropped at any of their  *)
(* awaits.                                                                 *)
(*                                                                         *)
(* Then, uploads and downloads for every number of transfers, chunks,      *)
(* permits and volumes: the counter, the first error and the channel that  *)
(* a transfer shares with its callbacks agree with the answers of the      *)
(* scheduler.  The counter is right because a chunk is counted before it   *)
(* is enqueued and the scheduler answers no request twice, the channel     *)
(* because the error is recorded before the counter goes down.             *)
(***************************************************************************)
EXTENDS Transfer, FiniteSetTheorems, TLAPS

(* A slot is in the map from the time it is made until its task is over,   *)
(* and a task has been spawned only for the slot its owner made.           *)
SlotOf(q) ==
  /\ call[q] = "new" => slot_of[q] = None /\ job[q] = "none"
  /\ slot_of[q] # None =>
       HashOf[slot_of[q]] = HashOf[q] /\ slot_of[slot_of[q]] = slot_of[q]
  /\ call[q] \in {"joined", "acquiring"} => slot_of[q] # None /\ job[q] = "none"
  /\ call[q] = "acquiring" => slot_of[q] = q
  /\ slot_of[q] = q /\ job[q] # "removed" => in_flight[HashOf[q]] = q
  /\ job[q] # "none" => slot_of[q] = q /\ call[q] = "returned"
  /\ result[q] # None <=> job[q] \in {"calling", "removed"}

InFlight(h) ==
  in_flight[h] # None =>
    /\ HashOf[in_flight[h]] = h
    /\ slot_of[in_flight[h]] = in_flight[h]
    /\ job[in_flight[h]] # "removed"

(* A callback is in at most one place, and is there before it is called.   *)
CalledOnce(q) ==
  /\ Answered(q) <= 1
  /\ call[q] \in {"new", "joined"} => Answered(q) = 0
  /\ \A s \in Requests :
       q \in callbacks[s] \cup calling[s] =>
         s = slot_of[q] /\ call[q] \notin {"new", "joined"} /\ Answered(q) = 0
  /\ \A s \in Requests : q \in callbacks[s] => result[s] = None
  /\ \A s \in Requests : q \in calling[s] => result[s] # None

PermitsHeld == IsFiniteSet(Running) /\ Cardinality(Running) <= Permits

SchedulerInv ==
  /\ SchedulerTypeOK
  /\ \A q \in Requests : SlotOf(q)
  /\ \A h \in Hashes : InFlight(h)
  /\ \A q \in Requests : CalledOnce(q)
  /\ PermitsHeld

(* No request is answered twice.                                           *)
AnsweredOnce == \A q \in Requests : Answered(q) <= 1

-----------------------------------------------------------------------------
LEMMA SchedulerInitInv == SchedulerInit => SchedulerInv
<1> SUFFICES ASSUME SchedulerInit PROVE SchedulerInv
  OBVIOUS
<1> USE SchedulerAssumption DEF SchedulerInit
<1>1. SchedulerTypeOK
  BY DEF SchedulerTypeOK, Outcomes
<1>2. \A q \in Requests : SlotOf(q)
  BY DEF SlotOf
<1>3. \A h \in Hashes : InFlight(h)
  BY DEF InFlight
<1>4. \A q \in Requests : CalledOnce(q)
  BY DEF CalledOnce, Answered, Outcomes
<1>5. PermitsHeld
  <2>1. Running = {}
    BY DEF Running
  <2> QED BY <2>1, FS_EmptySet DEF PermitsHeld
<1> QED BY <1>1, <1>2, <1>3, <1>4, <1>5 DEF SchedulerInv

(* The permits held depend on the tasks only.                              *)
LEMMA SamePermits == ASSUME PermitsHeld, Running' = Running PROVE PermitsHeld'
BY DEF PermitsHeld

(* Joining gives the request the slot in the map, or puts its own there.   *)
LEMMA JoinInv == ASSUME SchedulerInv, NEW p \in Requests, Join(p) PROVE SchedulerInv'
<1> USE SchedulerAssumption
<1>0. /\ SchedulerTypeOK /\ call[p] = "new" /\ SlotOf(p) /\ CalledOnce(p)
      /\ Joined(p) \in Requests /\ HashOf[p] \in Hashes
      /\ InFlight(HashOf[p])
  BY DEF SchedulerInv, Join, Joined, SchedulerTypeOK
<1>1. SchedulerTypeOK'
  BY <1>0 DEF Join, SchedulerTypeOK
<1>2. ASSUME NEW q \in Requests PROVE SlotOf(q)'
  BY <1>0 DEF Join, Joined, SchedulerInv, SchedulerTypeOK, SlotOf, InFlight
<1>3. ASSUME NEW h \in Hashes PROVE InFlight(h)'
  BY <1>0 DEF Join, Joined, SchedulerInv, SchedulerTypeOK, SlotOf, InFlight
<1>4. ASSUME NEW q \in Requests PROVE CalledOnce(q)'
  BY <1>0 DEF Join, SchedulerInv, SchedulerTypeOK, CalledOnce, Answered, SlotOf
<1>5. PermitsHeld'
  BY SamePermits DEF Join, SchedulerInv, Running
<1> QED BY <1>1, <1>2, <1>3, <1>4, <1>5 DEF SchedulerInv

LEMMA AddCallbackInv == ASSUME SchedulerInv, NEW p \in Requests, AddCallback(p) PROVE SchedulerInv'
<1> USE SchedulerAssumption
<1>0. /\ SchedulerTypeOK /\ call[p] = "joined" /\ SlotOf(p) /\ CalledOnce(p)
      /\ slot_of[p] \in Requests /\ result[slot_of[p]] = None
      /\ AfterCallback(p) \in {"acquiring", "returned"}
  BY DEF SchedulerInv, AddCallback, SchedulerTypeOK, SlotOf, Open, AfterCallback
<1>1. SchedulerTypeOK'
  BY <1>0 DEF AddCallback, SchedulerTypeOK
<1>2. ASSUME NEW q \in Requests PROVE SlotOf(q)'
  BY <1>0 DEF AddCallback, AfterCallback, SchedulerInv, SchedulerTypeOK, SlotOf
<1>3. ASSUME NEW h \in Hashes PROVE InFlight(h)'
  BY <1>0 DEF AddCallback, SchedulerInv, InFlight
<1>4. ASSUME NEW q \in Requests PROVE CalledOnce(q)'
  BY <1>0 DEF AddCallback, SchedulerInv, SchedulerTypeOK, CalledOnce, Answered
<1>5. PermitsHeld'
  BY SamePermits DEF AddCallback, SchedulerInv, Running
<1> QED BY <1>1, <1>2, <1>3, <1>4, <1>5 DEF SchedulerInv

(* One more answer, for a request that had none.                           *)
LEMMA AnswerFacts ==
  ASSUME SchedulerTypeOK, NEW p \in Requests, NEW r \in Outcomes, Answer(p, r)
  PROVE  /\ answers' \in [Requests -> [Outcomes -> Nat]]
         /\ Answered(p)' = Answered(p) + 1
         /\ \A q \in Requests : q # p => Answered(q)' = Answered(q)
         /\ \A q \in Requests : Answered(q) \in Nat
<1>1. answers' \in [Requests -> [Outcomes -> Nat]]
  BY DEF SchedulerTypeOK, Answer
<1>2. Answered(p)' = Answered(p) + 1
  BY DEF SchedulerTypeOK, Answer, Answered, Outcomes
<1>3. \A q \in Requests : (q # p => Answered(q)' = Answered(q)) /\ Answered(q) \in Nat
  BY DEF SchedulerTypeOK, Answer, Answered, Outcomes
<1> QED BY <1>1, <1>2, <1>3

LEMMA CallbackAtOnceInv ==
  ASSUME SchedulerInv, NEW p \in Requests, CallbackAtOnce(p)
  PROVE  SchedulerInv'
<1> USE SchedulerAssumption
<1>0. /\ SchedulerTypeOK /\ call[p] = "joined" /\ SlotOf(p) /\ CalledOnce(p)
      /\ slot_of[p] \in Requests /\ result[slot_of[p]] \in Outcomes
      /\ Answer(p, result[slot_of[p]])
      /\ AfterCallback(p) \in {"acquiring", "returned"}
  BY DEF SchedulerInv, CallbackAtOnce, SchedulerTypeOK, SlotOf, Open, AfterCallback
<1>1. SchedulerTypeOK'
  BY <1>0, AnswerFacts DEF CallbackAtOnce, SchedulerTypeOK
<1>2. ASSUME NEW q \in Requests PROVE SlotOf(q)'
  BY <1>0 DEF CallbackAtOnce, AfterCallback, SchedulerInv, SchedulerTypeOK, SlotOf
<1>3. ASSUME NEW h \in Hashes PROVE InFlight(h)'
  BY <1>0 DEF CallbackAtOnce, SchedulerInv, InFlight
<1>4. ASSUME NEW q \in Requests PROVE CalledOnce(q)'
  BY <1>0, AnswerFacts DEF CallbackAtOnce, SchedulerInv, SchedulerTypeOK, CalledOnce
<1>5. PermitsHeld'
  BY SamePermits DEF CallbackAtOnce, SchedulerInv, Running
<1> QED BY <1>1, <1>2, <1>3, <1>4, <1>5 DEF SchedulerInv

LEMMA AcquireInv == ASSUME SchedulerInv, NEW p \in Requests, Acquire(p) PROVE SchedulerInv'
<1> USE SchedulerAssumption
<1>0. /\ SchedulerTypeOK /\ call[p] = "acquiring" /\ SlotOf(p)
  BY DEF SchedulerInv, Acquire
<1>1. SchedulerTypeOK'
  BY <1>0 DEF Acquire, SchedulerTypeOK
<1>2. ASSUME NEW q \in Requests PROVE SlotOf(q)'
  BY <1>0 DEF Acquire, SchedulerInv, SchedulerTypeOK, SlotOf
<1>3. ASSUME NEW h \in Hashes PROVE InFlight(h)'
  BY <1>0 DEF Acquire, SchedulerInv, SchedulerTypeOK, InFlight
<1>4. ASSUME NEW q \in Requests PROVE CalledOnce(q)'
  BY <1>0 DEF Acquire, SchedulerInv, SchedulerTypeOK, CalledOnce, Answered
<1>5. PermitsHeld'
  <2>1. Running' = Running \cup {p} /\ p \notin Running
    BY <1>0 DEF Acquire, Running, SchedulerTypeOK, SlotOf
  <2>2. IsFiniteSet(Running) /\ Cardinality(Running) \in Nat /\ Cardinality(Running) < Permits
    BY FS_CardinalityType DEF SchedulerInv, PermitsHeld, Acquire
  <2>3. IsFiniteSet(Running') /\ Cardinality(Running') = Cardinality(Running) + 1
    BY <2>1, <2>2, FS_AddElement
  <2> QED BY <2>2, <2>3 DEF PermitsHeld
<1> QED BY <1>1, <1>2, <1>3, <1>4, <1>5 DEF SchedulerInv

LEMMA CompleteInv ==
  ASSUME SchedulerInv, NEW p \in Requests, NEW r \in Outcomes, Complete(p, r)
  PROVE  SchedulerInv'
<1> USE SchedulerAssumption
<1>0. /\ SchedulerTypeOK /\ job[p] = "running" /\ SlotOf(p) /\ r # None /\ result[p] = None
  BY DEF SchedulerInv, Complete, Outcomes, SlotOf
<1>1. SchedulerTypeOK'
  BY <1>0 DEF Complete, SchedulerTypeOK
<1>2. ASSUME NEW q \in Requests PROVE SlotOf(q)'
  BY <1>0 DEF Complete, SchedulerInv, SchedulerTypeOK, SlotOf
<1>3. ASSUME NEW h \in Hashes PROVE InFlight(h)'
  BY <1>0 DEF Complete, SchedulerInv, SchedulerTypeOK, InFlight
<1>4. ASSUME NEW q \in Requests PROVE CalledOnce(q)'
  BY <1>0 DEF Complete, SchedulerInv, SchedulerTypeOK, CalledOnce, Answered
<1>5. PermitsHeld'
  <2>1. Running' = Running
    BY <1>0 DEF Complete, Running, SchedulerTypeOK
  <2> QED BY <2>1, SamePermits DEF SchedulerInv
<1> QED BY <1>1, <1>2, <1>3, <1>4, <1>5 DEF SchedulerInv

LEMMA CallBackInv ==
  ASSUME SchedulerInv, NEW p \in Requests, NEW w \in Requests, CallBack(p, w)
  PROVE  SchedulerInv'
<1> USE SchedulerAssumption
<1>0. /\ SchedulerTypeOK /\ w \in calling[p] /\ CalledOnce(w)
      /\ result[p] \in Outcomes /\ Answer(w, result[p])
      /\ calling' = [calling EXCEPT ![p] = calling[p] \ {w}]
  BY DEF SchedulerInv, CallBack, SchedulerTypeOK, CalledOnce, LeftToCall
<1>1. SchedulerTypeOK'
  BY <1>0, AnswerFacts DEF CallBack, SchedulerTypeOK
<1>2. ASSUME NEW q \in Requests PROVE SlotOf(q)'
  BY DEF CallBack, SchedulerInv, SlotOf
<1>3. ASSUME NEW h \in Hashes PROVE InFlight(h)'
  BY DEF CallBack, SchedulerInv, InFlight
<1>4. ASSUME NEW q \in Requests PROVE CalledOnce(q)'
  <2>0. /\ UNCHANGED <<call, slot_of, result, callbacks>> /\ CalledOnce(q)
        /\ \A s \in Requests : calling'[s] = IF s = p THEN calling[p] \ {w} ELSE calling[s]
    BY <1>0 DEF CallBack, SchedulerInv, SchedulerTypeOK
  <2>1. CASE q = w
    <3>1. Answered(w)' = 1 /\ call[w] \notin {"new", "joined"} /\ slot_of[w] = p
      BY <1>0, AnswerFacts DEF CalledOnce
    <3>2. \A s \in Requests : w \notin callbacks[s] \cup calling'[s]
      BY <1>0, <2>0, <3>1 DEF CalledOnce
    <3> QED BY <2>0, <2>1, <3>1, <3>2 DEF CalledOnce
  <2>2. CASE q # w
    <3>1. Answered(q)' = Answered(q)
      BY <1>0, <2>2, AnswerFacts
    <3> QED BY <1>0, <2>0, <3>1 DEF CalledOnce
  <2> QED BY <2>1, <2>2
<1>5. PermitsHeld'
  BY SamePermits DEF CallBack, SchedulerInv, Running
<1> QED BY <1>1, <1>2, <1>3, <1>4, <1>5 DEF SchedulerInv

(* Removing the slot of a finished task takes nothing else from the map.   *)
LEMMA RemoveInv == ASSUME SchedulerInv, NEW p \in Requests, Remove(p) PROVE SchedulerInv'
<1> USE SchedulerAssumption
<1>0. /\ SchedulerTypeOK /\ job[p] = "calling" /\ SlotOf(p) /\ in_flight[HashOf[p]] = p
      /\ in_flight' = [in_flight EXCEPT ![HashOf[p]] = None] /\ HashOf[p] \in Hashes
  <2>1. SchedulerTypeOK /\ SlotOf(p)
    BY DEF SchedulerInv
  <2>2. job[p] = "calling" /\ in_flight' = [in_flight EXCEPT ![HashOf[p]] = None]
    BY DEF Remove, Emptied
  <2>3. in_flight[HashOf[p]] = p
    BY <2>1, <2>2 DEF SlotOf
  <2> QED
    BY <2>1, <2>2, <2>3
<1>1. SchedulerTypeOK'
  BY <1>0 DEF Remove, SchedulerTypeOK
<1>2. ASSUME NEW q \in Requests PROVE SlotOf(q)'
  <2>1. /\ UNCHANGED <<call, slot_of, result>> /\ SlotOf(q)
        /\ job'[q] = IF q = p THEN "removed" ELSE job[q]
    BY <1>0 DEF Remove, SchedulerInv, SchedulerTypeOK
  <2>2. in_flight[HashOf[q]] = q /\ q # p => in_flight'[HashOf[q]] = q
    BY <1>0 DEF SchedulerTypeOK
  <2> QED
    BY <1>0, <2>1, <2>2 DEF SlotOf
<1>3. ASSUME NEW h \in Hashes PROVE InFlight(h)'
  BY <1>0 DEF Remove, SchedulerInv, SchedulerTypeOK, InFlight
<1>4. ASSUME NEW q \in Requests PROVE CalledOnce(q)'
  BY <1>0 DEF Remove, SchedulerInv, SchedulerTypeOK, CalledOnce, Answered
<1>5. PermitsHeld'
  <2>1. Running' = Running \ {p} /\ p \in Running
    BY <1>0 DEF Remove, Running, SchedulerTypeOK
  <2>2. IsFiniteSet(Running) /\ Cardinality(Running) \in Nat /\ Cardinality(Running) <= Permits
    BY FS_CardinalityType DEF SchedulerInv, PermitsHeld
  <2>3. IsFiniteSet(Running') /\ Cardinality(Running') = Cardinality(Running) - 1
    BY <2>1, <2>2, FS_RemoveElement
  <2> QED BY <2>2, <2>3 DEF PermitsHeld
<1> QED BY <1>1, <1>2, <1>3, <1>4, <1>5 DEF SchedulerInv

(* A dropped call leaves slot, callback and permits as they are.           *)
LEMMA DropInv == ASSUME SchedulerInv, NEW p \in Requests, Drop(p) PROVE SchedulerInv'
<1> USE SchedulerAssumption
<1>0. SchedulerTypeOK /\ call[p] \in {"joined", "acquiring"} /\ SlotOf(p)
  BY DEF SchedulerInv, Drop
<1>1. SchedulerTypeOK'
  BY <1>0 DEF Drop, SchedulerTypeOK
<1>2. ASSUME NEW q \in Requests PROVE SlotOf(q)'
  BY <1>0 DEF Drop, SchedulerInv, SchedulerTypeOK, SlotOf
<1>3. ASSUME NEW h \in Hashes PROVE InFlight(h)'
  BY DEF Drop, SchedulerInv, InFlight
<1>4. ASSUME NEW q \in Requests PROVE CalledOnce(q)'
  BY <1>0 DEF Drop, SchedulerInv, SchedulerTypeOK, CalledOnce, Answered
<1>5. PermitsHeld'
  BY SamePermits DEF Drop, SchedulerInv, Running
<1> QED BY <1>1, <1>2, <1>3, <1>4, <1>5 DEF SchedulerInv

LEMMA SchedulerStutterInv == ASSUME SchedulerInv, UNCHANGED schedulerVars PROVE SchedulerInv'
<1>1. SchedulerTypeOK' /\ PermitsHeld'
  BY SamePermits DEF schedulerVars, SchedulerInv, SchedulerTypeOK, Running
<1>2. /\ \A q \in Requests : SlotOf(q)' /\ CalledOnce(q)'
      /\ \A h \in Hashes : InFlight(h)'
  BY DEF schedulerVars, SchedulerInv, SlotOf, CalledOnce, Answered, InFlight
<1> QED BY <1>1, <1>2 DEF SchedulerInv

LEMMA SchedulerNextInv == SchedulerInv /\ [SchedulerNext]_schedulerVars => SchedulerInv'
BY JoinInv, AddCallbackInv, CallbackAtOnceInv, AcquireInv, CompleteInv, CallBackInv, RemoveInv,
   DropInv, SchedulerStutterInv DEF SchedulerNext, SchedulerStep

LEMMA InvSafe == SchedulerInv => NoStaleSlot /\ OneExecution /\ AnsweredOnce
<1> SUFFICES ASSUME SchedulerInv PROVE NoStaleSlot /\ OneExecution /\ AnsweredOnce
  OBVIOUS
<1>1. NoStaleSlot
  BY DEF SchedulerInv, InFlight, NoStaleSlot
<1>2. OneExecution
  BY DEF SchedulerInv, SlotOf, PermitsHeld, Running, OneExecution
<1>3. AnsweredOnce
  BY DEF SchedulerInv, CalledOnce, AnsweredOnce
<1> QED BY <1>1, <1>2, <1>3

LEMMA SchedulerInvariant == SchedulerSpec => []SchedulerInv
<1>1. SchedulerInit => SchedulerInv
  BY SchedulerInitInv
<1>2. SchedulerInv /\ [SchedulerNext]_schedulerVars => SchedulerInv'
  BY SchedulerNextInv
<1> QED BY <1>1, <1>2, PTL DEF SchedulerSpec

(* enqueue_blocking, for any number of requests, hashes and permits and    *)
(* with calls dropped at any await: a hash is executed once at a time, no  *)
(* more executions run than there are permits, and no callback is called   *)
(* twice.                                                                  *)
THEOREM SchedulerSafe == SchedulerSpec => [](OneExecution /\ AnsweredOnce)
BY InvSafe, SchedulerInvariant, PTL

(* The map of enqueue_blocking holds no slot whose task is over: a request *)
(* never joins an execution that will not call it back any more.           *)
THEOREM SlotsFresh == SchedulerSpec => []NoStaleSlot
BY InvSafe, SchedulerInvariant, PTL

-----------------------------------------------------------------------------
TransferTypeOK ==
  /\ uploading \in BOOLEAN
  /\ pc \in [Transfers -> {"scheduling", "waiting", "transferred", "ok", "err", "cancelled"}]
  /\ scheduled \in [Transfers -> Nat]
  /\ remain \in [Transfers -> Nat]
  /\ done_sched \in [Transfers -> BOOLEAN]
  /\ first_error \in [Transfers -> BOOLEAN]
  /\ channel \in [Transfers -> Outcomes \cup {None}]
  /\ written \subseteq Requests

(* What was handed to the scheduler: the first chunks, each once.          *)
Enqueued(t) ==
  /\ scheduled[t] <= Len(Chunks[t])
  /\ \A i \in 1 .. scheduled[t] : call[Chunks[t][i]] # "new"
  /\ \A i, j \in 1 .. scheduled[t] : Chunks[t][i] = Chunks[t][j] => i = j
  /\ done_sched[t] => scheduled[t] = Len(Chunks[t])

(* A request the scheduler knows is a chunk that was counted.              *)
Counted(q) ==
  call[q] # "new" =>
    \E i \in 1 .. scheduled[TransferOf(q)] : q = Chunks[TransferOf(q)][i]

(* What callbacks leave behind: a failure its transfer's first error, a    *)
(* downloaded chunk its bytes at the writer.                               *)
CalledBack(q) ==
  /\ answers[q]["err"] # 0 => first_error[TransferOf(q)]
  /\ answers[q]["ok"] # 0 => uploading \/ q \in written

TransferInv ==
  /\ SchedulerInv
  /\ TransferTypeOK
  /\ \A t \in Transfers : Enqueued(t)
  /\ \A q \in Requests : Counted(q)
  /\ \A q \in Requests : CalledBack(q)
  /\ RemainCounts
  /\ ChannelTruthful
  /\ UploadWhole

-----------------------------------------------------------------------------
(* The chunks of transfers.                                                *)
LEMMA ChunkFacts ==
  ASSUME NEW t \in Transfers
  PROVE  /\ Len(Chunks[t]) \in Nat
         /\ \A i \in 1 .. Len(Chunks[t]) : Chunks[t][i] \in Requests
         /\ RequestsOf(t) \subseteq Requests
         /\ \A q \in RequestsOf(t) : TransferOf(q) = t
<1>1. Chunks[t] \in Seq(Requests)
  BY TransferAssumption
<1>2. \A i \in 1 .. Len(Chunks[t]) : Chunks[t][i] \in Requests
  BY <1>1
<1>3. ASSUME NEW q \in RequestsOf(t) PROVE TransferOf(q) = t
  <2>1. \A u \in Transfers : q \in RequestsOf(u) => u = t
    BY <1>3, TransferAssumption
  <2> QED
    BY <1>3, <2>1 DEF TransferOf
<1> QED
  BY <1>1, <1>2, <1>3 DEF RequestsOf

LEMMA OfTransfer ==
  ASSUME NEW q \in Requests
  PROVE  TransferOf(q) \in Transfers /\ q \in RequestsOf(TransferOf(q))
<1>1. \E t \in Transfers : q \in RequestsOf(t)
  BY TransferAssumption
<1> QED
  BY <1>1 DEF TransferOf

LEMMA TransferTypes ==
  ASSUME TransferInv, NEW t \in Transfers
  PROVE  /\ scheduled[t] \in Nat /\ remain[t] \in Nat /\ scheduled[t] <= Len(Chunks[t])
         /\ \A i \in 1 .. scheduled[t] : Chunks[t][i] \in Requests /\ Chunks[t][i] \in RequestsOf(t)
         /\ \A q \in Requests : Answered(q) \in Nat
         /\ SchedulerTypeOK
<1>1. scheduled[t] \in Nat /\ remain[t] \in Nat /\ Enqueued(t) /\ SchedulerTypeOK
  BY DEF TransferInv, TransferTypeOK, SchedulerInv
<1>2. \A i \in 1 .. scheduled[t] : i \in 1 .. Len(Chunks[t])
  BY <1>1, ChunkFacts DEF Enqueued
<1>3. \A q \in Requests : Answered(q) \in Nat
  BY <1>1 DEF SchedulerTypeOK, Answered, Outcomes
<1> QED
  BY <1>1, <1>2, <1>3, ChunkFacts DEF RequestsOf, Enqueued

(* The chunks of a transfer that wait for their answer.                    *)
Unanswered(t) == {i \in 1 .. scheduled[t] : Answered(Chunks[t][i]) = 0}

LEMMA UnansweredFinite ==
  ASSUME TransferInv, NEW t \in Transfers
  PROVE  IsFiniteSet(Unanswered(t)) /\ remain[t] = Cardinality(Unanswered(t))
<1>1. scheduled[t] \in Nat
  BY TransferTypes
<1>2. IsFiniteSet(1 .. scheduled[t]) /\ Unanswered(t) \subseteq 1 .. scheduled[t]
  BY <1>1, FS_Interval DEF Unanswered
<1> QED
  BY <1>2, FS_Subset DEF TransferInv, RemainCounts, Unanswered

(* A step that answers nobody and enqueues nothing.                        *)
LEMMA NothingAnswered ==
  ASSUME TransferInv, TransferTypeOK', SchedulerInv', UNCHANGED <<answers, scheduled, remain>>,
         UNCHANGED <<uploading, first_error, written>>, stored \subseteq stored',
         \A q \in Requests : call'[q] = "new" <=> call[q] = "new",
         \A t \in Transfers : done_sched'[t] => done_sched[t] \/ scheduled[t] = Len(Chunks[t])
  PROVE  /\ \A t \in Transfers : Enqueued(t)'
         /\ \A q \in Requests : Counted(q)' /\ CalledBack(q)'
         /\ RemainCounts'
<1>1. \A t \in Transfers : Enqueued(t)'
  BY TransferTypes DEF TransferInv, Enqueued
<1>2. \A q \in Requests : Counted(q)'
  BY DEF TransferInv, Counted
<1>3. \A q \in Requests : CalledBack(q)'
  BY DEF TransferInv, CalledBack
<1>4. RemainCounts'
  BY DEF TransferInv, RemainCounts, Answered
<1> QED
  BY <1>1, <1>2, <1>3, <1>4

LEMMA TruthKept ==
  ASSUME TransferInv, UNCHANGED <<answers, uploading, written>>,
         \A t \in Transfers : channel'[t] = "ok" => channel[t] = "ok"
  PROVE  ChannelTruthful'
  BY DEF TransferInv, ChannelTruthful

LEMMA UploadKept ==
  ASSUME TransferInv, UNCHANGED uploading, stored \subseteq stored',
         \A t \in Transfers : pc'[t] = "ok" => pc[t] = "ok"
  PROVE  UploadWhole'
  BY DEF TransferInv, UploadWhole

(* The steps of the scheduler that call no callback.                       *)
LEMMA SchedulerOnlyInv ==
  ASSUME TransferInv, NEW q \in Requests, SchedulerInv',
         \/ (AddCallback(q) \/ Acquire(q) \/ Remove(q)) /\ UNCHANGED transferVars
         \/ \E r \in Outcomes : Execute(q, r)
  PROVE  TransferInv'
<1>1. /\ UNCHANGED <<uploading, pc, scheduled, remain, done_sched, first_error, channel, written>>
      /\ UNCHANGED answers /\ stored \subseteq stored'
  BY DEF AddCallback, Acquire, Remove, Execute, Complete, transferVars
<1>2. \A p \in Requests : call'[p] = "new" <=> call[p] = "new"
  <2>1. SchedulerTypeOK
    BY DEF TransferInv, SchedulerInv
  <2>2. CASE AddCallback(q)
    BY <2>1, <2>2 DEF AddCallback, AfterCallback, SchedulerTypeOK
  <2>3. CASE Acquire(q)
    BY <2>1, <2>3 DEF Acquire, SchedulerTypeOK
  <2>4. CASE Remove(q) \/ \E r \in Outcomes : Execute(q, r)
    BY <2>4 DEF Remove, Execute, Complete
  <2> QED
    BY <2>2, <2>3, <2>4
<1>3. TransferTypeOK'
  BY <1>1 DEF TransferInv, TransferTypeOK
<1>4. /\ \A t \in Transfers : Enqueued(t)'
      /\ \A p \in Requests : Counted(p)' /\ CalledBack(p)'
      /\ RemainCounts'
  BY <1>1, <1>2, <1>3, NothingAnswered
<1>5. ChannelTruthful' /\ UploadWhole'
  BY <1>1, TruthKept, UploadKept
<1> QED
  BY <1>3, <1>4, <1>5 DEF TransferInv

(* The callback of one chunk: its only answer is counted, its error kept.  *)
LEMMA AnswerCounts ==
  ASSUME SchedulerTypeOK, NEW p \in Requests, NEW r \in Outcomes, Answer(p, r), Answered(p) = 0
  PROVE  /\ \A q \in Requests : q # p => answers'[q] = answers[q]
         /\ \A o \in Outcomes : answers'[p][o] = IF o = r THEN 1 ELSE 0
<1>1. answers[p] \in [Outcomes -> Nat] /\ answers \in [Requests -> [Outcomes -> Nat]]
  BY DEF SchedulerTypeOK
<1>2. \A o \in Outcomes : answers[p][o] = 0
  BY <1>1 DEF Answered, Outcomes
<1>3. \A q \in Requests : q # p => answers'[q] = answers[q]
  BY <1>1 DEF Answer
<1>4. \A o \in Outcomes : answers'[p][o] = IF o = r THEN answers[p][o] + 1 ELSE answers[p][o]
  BY <1>1 DEF Answer
<1> QED
  BY <1>2, <1>3, <1>4

LEMMA CallbackCounts ==
  ASSUME TransferInv, NEW p \in Requests, NEW r \in Outcomes,
         Answer(p, r), Answered(p) = 0, call[p] # "new", Callback(p, r)
  PROVE  /\ RemainCounts'
         /\ remain[TransferOf(p)] >= 1
<1> DEFINE t == TransferOf(p)
<1>0. t \in Transfers /\ SchedulerTypeOK /\ UNCHANGED scheduled
      /\ remain' = [remain EXCEPT ![t] = remain[t] - 1]
      /\ remain \in [Transfers -> Nat]
  BY OfTransfer DEF TransferInv, SchedulerInv, TransferTypeOK, Callback, Remaining
<1> HIDE DEF t
<1>1. PICK k \in 1 .. scheduled[t] : p = Chunks[t][k]
  BY DEF TransferInv, Counted, t
<1>2. /\ Answered(p)' = 1
      /\ \A q \in Requests : q # p => Answered(q)' = Answered(q)
  BY <1>0, AnswerFacts
<1>3. \A i \in 1 .. scheduled[t] : i # k => Chunks[t][i] # p /\ Chunks[t][i] \in Requests
  BY <1>0, <1>1, TransferTypes DEF TransferInv, Enqueued
<1>4. k \in Unanswered(t) /\ Unanswered(t)' = Unanswered(t) \ {k}
  BY <1>0, <1>1, <1>2, <1>3 DEF Unanswered
<1>5. /\ IsFiniteSet(Unanswered(t)) /\ remain[t] = Cardinality(Unanswered(t))
      /\ Cardinality(Unanswered(t)) \in Nat
  BY <1>0, UnansweredFinite, FS_CardinalityType
<1>6. Cardinality(Unanswered(t)') = remain[t] - 1
  BY <1>4, <1>5, FS_RemoveElement
<1>7. remain[t] # 0
  BY <1>4, <1>5, FS_EmptySet
<1>8. ASSUME NEW u \in Transfers PROVE remain'[u] = Cardinality(Unanswered(u)')
  <2>1. CASE u = t
    BY <1>0, <1>6, <2>1
  <2>2. CASE u # t
    <3>1. \A i \in 1 .. scheduled[u] : Chunks[u][i] # p /\ Chunks[u][i] \in Requests
      BY <2>2, TransferTypes, ChunkFacts DEF t
    <3>2. Unanswered(u)' = Unanswered(u)
      BY <1>0, <1>2, <3>1 DEF Unanswered
    <3> QED
      BY <1>0, <2>2, <3>2, UnansweredFinite
  <2> QED
    BY <2>1, <2>2
<1>9. RemainCounts'
  BY <1>8 DEF RemainCounts, Unanswered
<1> QED
  BY <1>5, <1>7, <1>9 DEF t

(* With nothing unanswered and no error recorded, every chunk went well.   *)
CallbacksSound ==
  /\ SchedulerInv /\ TransferTypeOK /\ RemainCounts
  /\ \A q \in Requests : CalledBack(q)

AllWell(t) ==
  (scheduled[t] = Len(Chunks[t]) /\ remain[t] = 0 /\ first_error[t] = FALSE) =>
    \A q \in RequestsOf(t) : answers[q]["ok"] = 1 /\ (uploading \/ q \in written)

LEMMA NoneLeft ==
  ASSUME TransferTypeOK, RemainCounts, NEW t \in Transfers, remain[t] = 0
  PROVE  Unanswered(t) = {}
<1>1. scheduled[t] \in Nat
  BY DEF TransferTypeOK
<1>2. IsFiniteSet(1 .. scheduled[t]) /\ Unanswered(t) \subseteq 1 .. scheduled[t]
  BY <1>1, FS_Interval DEF Unanswered
<1>3. IsFiniteSet(Unanswered(t)) /\ Cardinality(Unanswered(t)) = 0
  BY <1>2, FS_Subset DEF RemainCounts, Unanswered
<1> QED
  BY <1>3, FS_EmptySet

LEMMA CountersTell == CallbacksSound => \A t \in Transfers : AllWell(t)
<1> SUFFICES ASSUME CallbacksSound, NEW t \in Transfers,
                    scheduled[t] = Len(Chunks[t]), remain[t] = 0, first_error[t] = FALSE,
                    NEW q \in RequestsOf(t)
             PROVE  answers[q]["ok"] = 1 /\ (uploading \/ q \in written)
  BY DEF AllWell
<1>1. q \in Requests /\ TransferOf(q) = t
  BY ChunkFacts
<1>2. PICK i \in 1 .. scheduled[t] : q = Chunks[t][i]
  BY DEF RequestsOf
<1>3. Answered(q) # 0
  BY <1>2, NoneLeft DEF CallbacksSound, Unanswered
<1>4. answers[q]["ok"] \in Nat /\ answers[q]["err"] = 0 /\ Answered(q) <= 1
  <2>1. answers[q]["err"] = 0
    BY <1>1 DEF CallbacksSound, CalledBack
  <2>2. answers[q]["ok"] \in Nat /\ Answered(q) <= 1
    BY <1>1 DEF CallbacksSound, SchedulerInv, SchedulerTypeOK, CalledOnce, Outcomes
  <2> QED
    BY <2>1, <2>2
<1>5. answers[q]["ok"] = 1
  BY <1>3, <1>4 DEF Answered
<1> QED
  BY <1>1, <1>5 DEF CallbacksSound, CalledBack

LEMMA CountersTellNext == CallbacksSound' => (\A t \in Transfers : AllWell(t))'
  BY CountersTell, PTL

LEMMA CallbackInv ==
  ASSUME TransferInv, SchedulerInv', NEW p \in Requests, NEW r \in Outcomes,
         Answer(p, r), Answered(p) = 0, call[p] # "new", Callback(p, r),
         \A q \in Requests : call'[q] = "new" <=> call[q] = "new"
  PROVE  TransferInv'
<1> DEFINE t == TransferOf(p)
<1>1. /\ t \in Transfers /\ SchedulerTypeOK /\ TransferTypeOK
      /\ remain[t] \in Nat /\ remain[t] >= 1 /\ RemainCounts'
  BY OfTransfer, CallbackCounts, TransferTypes DEF TransferInv
<1>2. /\ written' = IF r = "ok" /\ ~uploading THEN written \cup {p} ELSE written
      /\ first_error' = [first_error EXCEPT ![t] = @ \/ r = "err"]
      /\ remain' = [remain EXCEPT ![t] = remain[t] - 1]
      /\ channel' = [channel EXCEPT ![t] = IF Signals(t) THEN Sent(t, first_error'[t]) ELSE @]
      /\ UNCHANGED <<uploading, pc, scheduled, done_sched, stored>>
  BY DEF Callback, Remaining
<1> HIDE DEF t
<1>3. TransferTypeOK'
  <2>1. remain' \in [Transfers -> Nat]
    BY <1>1, <1>2 DEF TransferTypeOK
  <2>2. first_error' \in [Transfers -> BOOLEAN]
    BY <1>1, <1>2, Zenon DEF TransferTypeOK
  <2>3. channel' \in [Transfers -> Outcomes \cup {None}]
    BY <1>1, <1>2 DEF TransferTypeOK, Sent, Outcomes
  <2>4. written' \subseteq Requests
    BY <1>1, <1>2 DEF TransferTypeOK
  <2> QED
    BY <1>1, <1>2, <2>1, <2>2, <2>3, <2>4 DEF TransferTypeOK
<1>4. \A u \in Transfers : Enqueued(u)'
  BY <1>2, TransferTypes DEF TransferInv, Enqueued
<1>5. \A q \in Requests : Counted(q)'
  BY <1>2 DEF TransferInv, Counted
<1>6. /\ \A q \in Requests : q # p => answers'[q] = answers[q]
      /\ \A o \in Outcomes : answers'[p][o] = IF o = r THEN 1 ELSE 0
  BY <1>1, AnswerCounts
<1>7. \A u \in Transfers : first_error'[u] = (first_error[u] \/ (u = t /\ r = "err"))
  BY <1>1, <1>2 DEF TransferTypeOK
<1>8. ASSUME NEW q \in Requests PROVE CalledBack(q)'
  <2>1. CASE q = p
    <3>1. answers'[p]["err"] # 0 => r = "err"
      BY <1>6 DEF Outcomes
    <3>2. answers'[p]["ok"] # 0 => r = "ok"
      BY <1>6 DEF Outcomes
    <3>3. r = "err" => first_error'[TransferOf(p)]
      BY <1>1, <1>7 DEF t
    <3>4. r = "ok" => uploading' \/ p \in written'
      BY <1>2
    <3> QED
      BY <2>1, <3>1, <3>2, <3>3, <3>4 DEF CalledBack
  <2>2. CASE q # p
    <3>1. CalledBack(q) /\ answers'[q] = answers[q]
      BY <1>6, <2>2 DEF TransferInv
    <3>2. first_error[TransferOf(q)] => first_error'[TransferOf(q)]
      BY <1>7, OfTransfer
    <3>3. uploading' = uploading /\ (q \in written => q \in written')
      BY <1>2
    <3> QED
      BY <3>1, <3>2, <3>3 DEF CalledBack
  <2> QED
    BY <2>1, <2>2
<1>9. ASSUME NEW u \in Transfers, channel'[u] = "ok", NEW q \in RequestsOf(u)
      PROVE  answers'[q]["ok"] = 1 /\ (uploading' \/ q \in written')
  <2>1. CASE channel[u] = "ok"
    <3>1. answers[q]["ok"] = 1 /\ (uploading \/ q \in written) /\ q \in Requests
      BY <1>9, <2>1, ChunkFacts DEF TransferInv, ChannelTruthful
    <3>2. q # p
      BY <1>1, <3>1 DEF Answered, SchedulerTypeOK, Outcomes
    <3> QED
      BY <1>2, <1>6, <3>1, <3>2
  <2>2. CASE channel[u] # "ok"
    <3>1. u = t /\ Signals(t) /\ Sent(t, first_error'[t]) = "ok"
      BY <1>1, <1>2, <1>9, <2>2 DEF TransferTypeOK
    <3>2. first_error'[t] = FALSE /\ remain'[t] = 0 /\ scheduled'[t] = Len(Chunks[t])
      <4>1. ~first_error'[t] /\ first_error'[t] \in BOOLEAN
        BY <1>1, <1>3, <2>2, <3>1, SchedulerAssumption DEF Sent, TransferTypeOK
      <4>2. done_sched[t] /\ remain[t] - 1 = 0
        BY <3>1 DEF Signals
      <4> QED
        BY <1>1, <1>2, <4>1, <4>2 DEF TransferInv, Enqueued, TransferTypeOK
    <3>3. CallbacksSound'
      BY <1>1, <1>3, <1>8 DEF CallbacksSound
    <3>4. (\A v \in Transfers : AllWell(v))'
      BY <3>3, CountersTellNext
    <3> QED
      BY <1>1, <1>9, <3>1, <3>2, <3>4 DEF AllWell
  <2> QED
    BY <2>1, <2>2
<1>10. ChannelTruthful'
  BY <1>9 DEF ChannelTruthful
<1>11. UploadWhole'
  BY <1>2, UploadKept
<1> QED
  BY <1>1, <1>3, <1>4, <1>5, <1>8, <1>10, <1>11 DEF TransferInv

(* Counting before enqueueing: the new chunk has no answer yet.            *)
LEMMA ScheduleInv ==
  ASSUME TransferInv, SchedulerInv', NEW t \in Transfers, Schedule(t)
  PROVE  TransferInv'
<1>1. PICK k : k = scheduled[t] + 1
  OBVIOUS
<1>2. PICK q : q = Chunks[t][k]
  OBVIOUS
<1>3. /\ scheduled[t] < Len(Chunks[t])
      /\ remain' = [remain EXCEPT ![t] = remain[t] + 1]
      /\ scheduled' = [scheduled EXCEPT ![t] = k]
      /\ Join(q)
      /\ UNCHANGED <<uploading, pc, done_sched, first_error, channel, stored, written, answers>>
  BY <1>1, <1>2 DEF Schedule, Join
<1>4. /\ scheduled[t] \in Nat /\ remain[t] \in Nat /\ Len(Chunks[t]) \in Nat
      /\ k \in 1 .. Len(Chunks[t]) /\ q \in Requests /\ q \in RequestsOf(t) /\ TransferOf(q) = t
      /\ SchedulerTypeOK
  <2>1. scheduled[t] \in Nat /\ remain[t] \in Nat /\ Len(Chunks[t]) \in Nat /\ SchedulerTypeOK
    BY TransferTypes, ChunkFacts
  <2>2. k \in 1 .. Len(Chunks[t])
    BY <1>1, <1>3, <2>1
  <2>3. q \in RequestsOf(t) /\ q \in Requests
    BY <1>2, <2>2, ChunkFacts DEF RequestsOf
  <2> QED
    BY <2>1, <2>2, <2>3, ChunkFacts
<1>5. /\ call[q] = "new" /\ Answered(q) = 0
      /\ \A p \in Requests : p # q => call'[p] = call[p]
      /\ call'[q] = "joined"
  BY <1>3, <1>4 DEF Join, TransferInv, SchedulerInv, CalledOnce, SchedulerTypeOK
<1>6. /\ scheduled'[t] = k /\ \A u \in Transfers : u # t => scheduled'[u] = scheduled[u]
      /\ remain'[t] = remain[t] + 1 /\ \A u \in Transfers : u # t => remain'[u] = remain[u]
      /\ scheduled' \in [Transfers -> Nat] /\ remain' \in [Transfers -> Nat]
  BY <1>1, <1>3, <1>4 DEF TransferInv, TransferTypeOK
<1>7. TransferTypeOK'
  BY <1>3, <1>6 DEF TransferInv, TransferTypeOK
<1>8. \A i \in 1 .. k : i = k \/ i \in 1 .. scheduled[t]
  BY <1>1, <1>4
<1>9. \A i \in 1 .. scheduled[t] : Chunks[t][i] # q
  BY <1>5 DEF TransferInv, Enqueued
<1>10. ASSUME NEW u \in Transfers PROVE Enqueued(u)'
  <2>0. Enqueued(u)
    BY DEF TransferInv
  <2>1. CASE u = t
    <3>1. scheduled'[t] <= Len(Chunks[t])
      BY <1>4, <1>6
    <3>2. \A i \in 1 .. k : call'[Chunks[t][i]] # "new"
      BY <1>2, <1>5, <1>8, <1>9, <2>0, <2>1, TransferTypes DEF Enqueued
    <3>3. \A i, j \in 1 .. k : Chunks[t][i] = Chunks[t][j] => i = j
      BY <1>2, <1>8, <1>9, <2>0, <2>1 DEF Enqueued
    <3>4. ~done_sched'[t]
      BY <1>3, <1>4, <2>0, <2>1 DEF Enqueued
    <3> QED
      BY <1>6, <2>1, <3>1, <3>2, <3>3, <3>4 DEF Enqueued
  <2>2. CASE u # t
    <3>1. \A i \in 1 .. scheduled[u] : Chunks[u][i] # q /\ Chunks[u][i] \in Requests
      BY <1>4, <2>2, TransferTypes, ChunkFacts
    <3> QED
      BY <1>3, <1>5, <1>6, <2>0, <2>2, <3>1 DEF Enqueued
  <2> QED
    BY <2>1, <2>2
<1>11. ASSUME NEW p \in Requests PROVE Counted(p)'
  <2>1. CASE p = q
    BY <1>1, <1>2, <1>4, <1>6, <2>1 DEF Counted
  <2>2. CASE p # q
    <3>1. Counted(p) /\ call'[p] = call[p] /\ TransferOf(p) \in Transfers
      BY <1>5, <2>2, OfTransfer DEF TransferInv
    <3>2. \A i \in 1 .. scheduled[TransferOf(p)] : i \in 1 .. scheduled'[TransferOf(p)]
      BY <1>1, <1>4, <1>6, <3>1
    <3> QED
      BY <3>1, <3>2 DEF Counted
  <2> QED
    BY <2>1, <2>2
<1>12. \A p \in Requests : CalledBack(p)'
  BY <1>3 DEF TransferInv, CalledBack
<1>13. ASSUME NEW u \in Transfers PROVE remain'[u] = Cardinality(Unanswered(u)')
  <2>0. /\ IsFiniteSet(Unanswered(u)) /\ remain[u] = Cardinality(Unanswered(u))
        /\ \A p : Answered(p)' = Answered(p)
    BY <1>3, UnansweredFinite DEF Answered
  <2>1. CASE u = t
    <3>1. Unanswered(t)' = Unanswered(t) \cup {k}
      BY <1>1, <1>2, <1>4, <1>5, <1>6, <1>8, <2>0 DEF Unanswered
    <3>2. k \notin Unanswered(t)
      BY <1>1, <1>4 DEF Unanswered
    <3>3. Cardinality(Unanswered(t)') = Cardinality(Unanswered(t)) + 1
      BY <2>0, <2>1, <3>1, <3>2, FS_AddElement
    <3> QED
      BY <1>6, <2>0, <2>1, <3>3
  <2>2. CASE u # t
    BY <1>6, <2>0, <2>2 DEF Unanswered
  <2> QED
    BY <2>1, <2>2
<1>14. RemainCounts'
  BY <1>13 DEF RemainCounts, Unanswered
<1>15. ChannelTruthful' /\ UploadWhole'
  BY <1>3, TruthKept, UploadKept
<1> QED
  BY <1>7, <1>10, <1>11, <1>12, <1>14, <1>15 DEF TransferInv

(* All answered before the end of scheduling: the result is sent here.     *)
LEMMA FinishSchedulingInv ==
  ASSUME TransferInv, SchedulerInv', NEW t \in Transfers, FinishScheduling(t)
  PROVE  TransferInv'
<1>1. /\ scheduled[t] = Len(Chunks[t])
      /\ done_sched' = [done_sched EXCEPT ![t] = TRUE]
      /\ channel' = [channel EXCEPT ![t] = IF remain[t] = 0 THEN Sent(t, first_error[t])
                                                           ELSE channel[t]]
      /\ pc' = [pc EXCEPT ![t] = IF remain[t] = 0 THEN "transferred" ELSE "waiting"]
      /\ UNCHANGED <<call, answers, uploading, scheduled, remain, first_error, stored, written>>
  BY DEF FinishScheduling, schedulerVars
<1>2. Sent(t, first_error[t]) \in Outcomes \cup {None}
  BY DEF Sent, Outcomes, TransferInv, TransferTypeOK
<1>3. TransferTypeOK'
  BY <1>1, <1>2 DEF TransferInv, TransferTypeOK
<1>4. /\ \A u \in Transfers : Enqueued(u)'
      /\ \A p \in Requests : Counted(p)' /\ CalledBack(p)'
      /\ RemainCounts'
  <2>1. \A u \in Transfers : done_sched'[u] => done_sched[u] \/ scheduled[u] = Len(Chunks[u])
    BY <1>1 DEF TransferInv, TransferTypeOK
  <2> QED
    BY <1>1, <1>3, <2>1, NothingAnswered
<1>5. ASSUME NEW u \in Transfers, channel'[u] = "ok", NEW q \in RequestsOf(u)
      PROVE  answers'[q]["ok"] = 1 /\ (uploading' \/ q \in written')
  <2>1. CASE channel[u] = "ok"
    BY <1>1, <1>5, <2>1 DEF TransferInv, ChannelTruthful
  <2>2. CASE channel[u] # "ok"
    <3>1. u = t /\ remain[t] = 0 /\ Sent(t, first_error[t]) = "ok"
      BY <1>1, <1>5, <2>2 DEF TransferInv, TransferTypeOK
    <3>2. first_error[t] = FALSE
      BY <2>2, <3>1, SchedulerAssumption DEF Sent, TransferInv, TransferTypeOK
    <3>3. AllWell(t)
      BY CountersTell DEF CallbacksSound, TransferInv
    <3> QED
      BY <1>1, <1>5, <3>1, <3>2, <3>3 DEF AllWell
  <2> QED
    BY <2>1, <2>2
<1>6. ChannelTruthful'
  BY <1>5 DEF ChannelTruthful
<1>7. UploadWhole'
  BY <1>1, UploadKept DEF TransferInv, TransferTypeOK
<1> QED
  BY <1>3, <1>4, <1>6, <1>7 DEF TransferInv

(* The steps of a transfer that only move it on.                           *)
LEMMA MoveOnInv ==
  ASSUME TransferInv, SchedulerInv', NEW t \in Transfers,
         ScheduleFails(t) \/ Await(t) \/ Return(t) \/ Cancel(t)
  PROVE  TransferInv'
<1>1. PICK s \in {"transferred", "ok", "err", "cancelled"} :
        /\ pc' = [pc EXCEPT ![t] = s]
        /\ s = "ok" /\ uploading => BundlesCommit(t)
  <2>1. CASE ScheduleFails(t) \/ Await(t) \/ Cancel(t)
    BY <2>1 DEF ScheduleFails, Await, Cancel
  <2>2. CASE Return(t)
    BY <2>2 DEF Return
  <2> QED
    BY <2>1, <2>2
<1>2. UNCHANGED <<answers, uploading, scheduled, remain, done_sched, first_error, channel,
                  stored, written>>
  BY DEF ScheduleFails, Await, Return, Cancel, Drop, schedulerVars
<1>3. \A q \in Requests : call'[q] = "new" <=> call[q] = "new"
  <2>1. CASE Cancel(t)
    <3>1. call \in [Requests -> {"new", "joined", "acquiring", "returned", "dropped"}]
      BY DEF TransferInv, SchedulerInv, SchedulerTypeOK
    <3> QED
      BY <2>1, <3>1 DEF Cancel, Drop
  <2>2. CASE ScheduleFails(t) \/ Await(t) \/ Return(t)
    BY <2>2 DEF ScheduleFails, Await, Return, schedulerVars
  <2> QED
    BY <2>1, <2>2
<1>4. TransferTypeOK'
  BY <1>1, <1>2 DEF TransferInv, TransferTypeOK
<1>5. /\ \A u \in Transfers : Enqueued(u)'
      /\ \A p \in Requests : Counted(p)' /\ CalledBack(p)'
      /\ RemainCounts'
  BY <1>2, <1>3, <1>4, NothingAnswered
<1>6. ChannelTruthful'
  BY <1>2, TruthKept
<1>7. UploadWhole'
  <2>1. \A u \in Transfers : pc'[u] = "ok" => pc[u] = "ok" \/ (u = t /\ (uploading => BundlesCommit(t)))
    BY <1>1 DEF TransferInv, TransferTypeOK
  <2> QED
    BY <1>2, <2>1 DEF TransferInv, UploadWhole, BundlesCommit
<1> QED
  BY <1>4, <1>5, <1>6, <1>7 DEF TransferInv

-----------------------------------------------------------------------------
LEMMA TransferInitInv == TransferInit => TransferInv
<1> SUFFICES ASSUME TransferInit PROVE TransferInv
  OBVIOUS
<1>1. SchedulerInv /\ answers = [q \in Requests |-> [r \in Outcomes |-> 0]]
      /\ call = [q \in Requests |-> "new"]
  BY SchedulerInitInv DEF TransferInit, SchedulerInit
<1>2. TransferTypeOK
  BY TransferAssumption DEF TransferInit, TransferTypeOK
<1>3. \A t \in Transfers : Enqueued(t)
  BY ChunkFacts DEF TransferInit, Enqueued
<1>4. \A q \in Requests : Counted(q) /\ CalledBack(q)
  BY <1>1 DEF Counted, CalledBack, Outcomes
<1>5. RemainCounts
  <2>1. \A t \in Transfers : {i \in 1 .. scheduled[t] : Answered(Chunks[t][i]) = 0} = {}
    BY DEF TransferInit
  <2> QED
    BY <2>1, FS_EmptySet DEF TransferInit, RemainCounts
<1>6. ChannelTruthful /\ UploadWhole
  BY SchedulerAssumption DEF TransferInit, ChannelTruthful, UploadWhole
<1> QED
  BY <1>1, <1>2, <1>3, <1>4, <1>5, <1>6 DEF TransferInv

(* A transfer uses the scheduler only through enqueue_blocking.            *)
LEMMA StepsScheduler ==
  ASSUME TransferInv, TransferNext
  PROVE  [SchedulerNext]_schedulerVars
<1>1. ASSUME NEW q \in Requests, SchedulerWork(q) PROVE SchedulerNext
  BY <1>1 DEF SchedulerWork, Execute, SchedulerNext, SchedulerStep
<1>2. ASSUME NEW t \in Transfers, Schedule(t) \/ Cancel(t) PROVE SchedulerNext
  <2>1. \E q \in Requests : Join(q) \/ Drop(q)
    <3>1. CASE Schedule(t)
      <4>1. scheduled[t] + 1 \in 1 .. Len(Chunks[t]) /\ Join(Chunks[t][scheduled[t] + 1])
        BY <3>1, TransferTypes, ChunkFacts DEF Schedule
      <4> QED
        BY <4>1, ChunkFacts
    <3>2. CASE Cancel(t)
      <4>1. scheduled[t] \in 1 .. scheduled[t] /\ Drop(Chunks[t][scheduled[t]])
        BY <3>2, TransferTypes DEF Cancel
      <4> QED
        BY <4>1, TransferTypes
    <3> QED
      BY <1>2, <3>1, <3>2
  <2> QED
    BY <2>1 DEF SchedulerNext
<1>3. ASSUME NEW t \in Transfers, FinishScheduling(t) \/ Await(t) \/ Return(t) \/ ScheduleFails(t)
      PROVE  UNCHANGED schedulerVars
  BY <1>3 DEF FinishScheduling, Await, Return, ScheduleFails
<1> QED
  BY <1>1, <1>2, <1>3 DEF TransferNext, TransferStep

LEMMA SchedulerWorkInv ==
  ASSUME TransferInv, SchedulerInv', NEW q \in Requests, SchedulerWork(q)
  PROVE  TransferInv'
<1>0. SchedulerInv /\ SchedulerTypeOK
  BY DEF TransferInv, SchedulerInv
<1>1. CASE CallbackAtOnce(q) /\ Callback(q, result[slot_of[q]])
  <2>1. /\ call[q] = "joined" /\ slot_of[q] \in Requests /\ result[slot_of[q]] \in Outcomes
        /\ Answer(q, result[slot_of[q]]) /\ Answered(q) = 0
    BY <1>0, <1>1, SchedulerAssumption
    DEF CallbackAtOnce, Open, SchedulerInv, SchedulerTypeOK, SlotOf, CalledOnce
  <2>2. \A p \in Requests : call'[p] = "new" <=> call[p] = "new"
    BY <1>0, <1>1, <2>1 DEF CallbackAtOnce, AfterCallback, SchedulerTypeOK
  <2> QED
    BY <1>1, <2>1, <2>2, CallbackInv
<1>2. ASSUME NEW w \in Requests, CallBack(q, w), Callback(w, result[q]) PROVE TransferInv'
  <2>1. /\ w \in calling[q] /\ result[q] \in Outcomes /\ Answer(w, result[q])
        /\ Answered(w) = 0 /\ call[w] # "new" /\ UNCHANGED call
    BY <1>0, <1>2 DEF CallBack, SchedulerInv, SchedulerTypeOK, CalledOnce
  <2> QED
    BY <1>2, <2>1, CallbackInv
<1>3. CASE \/ (AddCallback(q) \/ Acquire(q) \/ Remove(q)) /\ UNCHANGED transferVars
           \/ \E r \in Outcomes : Execute(q, r)
  BY <1>3, SchedulerOnlyInv
<1> QED
  BY <1>1, <1>2, <1>3 DEF SchedulerWork

LEMMA TransferNextInv == TransferInv /\ [TransferNext]_vars => TransferInv'
<1> SUFFICES ASSUME TransferInv, [TransferNext]_vars PROVE TransferInv'
  OBVIOUS
<1>1. CASE UNCHANGED vars
  <2>1. UNCHANGED <<answers, call, uploading, pc, scheduled, remain, done_sched, first_error,
                    channel, stored, written>>
        /\ UNCHANGED schedulerVars
    BY <1>1 DEF vars, transferVars, schedulerVars
  <2>2. SchedulerInv' /\ TransferTypeOK'
    BY <2>1, SchedulerStutterInv DEF TransferInv, TransferTypeOK
  <2>3. /\ \A t \in Transfers : Enqueued(t)'
        /\ \A p \in Requests : Counted(p)' /\ CalledBack(p)'
        /\ RemainCounts'
    BY <2>1, <2>2, NothingAnswered
  <2> QED
    BY <2>1, <2>2, <2>3, TruthKept, UploadKept DEF TransferInv
<1>2. CASE TransferNext
  <2>1. SchedulerInv'
    BY <1>2, StepsScheduler, SchedulerNextInv DEF TransferInv
  <2> QED
    BY <1>2, <2>1, SchedulerWorkInv, ScheduleInv, FinishSchedulingInv, MoveOnInv
    DEF TransferNext, TransferStep
<1> QED
  BY <1>1, <1>2

LEMMA TransferInvariant == TransferSpec => []TransferInv
<1>1. TransferSpec => TransferInit /\ [][TransferNext]_vars
  BY PTL DEF TransferSpec
<1> QED
  BY <1>1, TransferInitInv, TransferNextInv, PTL

(* Transfers keep to the scheduler's specification, drops included, so all *)
(* that is proved of enqueue_blocking holds while they share it.           *)
THEOREM TransfersSchedule == TransferSpec => SchedulerSpec
<1>1. TransferSpec => TransferInit /\ [][TransferNext]_vars
  BY PTL DEF TransferSpec
<1>2. TransferInit => SchedulerInit
  BY DEF TransferInit
<1>3. TransferInv /\ [TransferNext]_vars => [SchedulerNext]_schedulerVars
  BY StepsScheduler DEF vars
<1> QED
  BY <1>1, <1>2, <1>3, TransferInvariant, PTL DEF SchedulerSpec

(* remain_chunks of upload_file_inner and download_file is the number of   *)
(* enqueued chunks without an answer, for any number of transfers that     *)
(* share chunks, fail or are dropped.                                      *)
THEOREM RemainRight == TransferSpec => []RemainCounts
<1>1. TransferInv => RemainCounts
  BY DEF TransferInv
<1> QED
  BY <1>1, TransferInvariant, PTL

(* Ok goes through done_tx only when every chunk was answered Ok, and the  *)
(* chunks of a download are with the writer, whether the last callback or  *)
(* the transfer itself sends it.                                           *)
THEOREM ChannelRight == TransferSpec => []ChannelTruthful
<1>1. TransferInv => ChannelTruthful
  BY DEF TransferInv
<1> QED
  BY <1>1, TransferInvariant, PTL

(* An upload that returned Ok has all its chunks in its own volume, though *)
(* another transfer's execution may have answered for them.                *)
THEOREM UploadsWhole == TransferSpec => []UploadWhole
<1>1. TransferInv => UploadWhole
  BY DEF TransferInv
<1> QED
  BY <1>1, TransferInvariant, PTL
=============================================================================
