---------------------------- MODULE CentralLocks ----------------------------
(***************************************************************************)
(* The locks of the central server: the database mutex and the RwLocks of  *)
(* online_volumes, storages and clients, all of parking_lot.  Handlers of  *)
(* different connections run in parallel and block their thread where they *)
(* wait.  A handler is the sequence of its lock operations; what it does   *)
(* between them is in Central and Registration.                            *)
(*                                                                         *)
(* parking_lot's RwLock prefers writers: a writer marks the lock first,    *)
(* which stops new readers, then waits for the readers inside to leave.    *)
(* The cache of directories has a lock of its own that is only taken       *)
(* inside the database mutex and around nothing: it is left out.           *)
(***************************************************************************)
EXTENDS Sequences, Naturals

CONSTANTS Tasks,    \* control connections, one request at a time each
          Mixes,    \* requests that may be in progress together:
                    \* a set of functions from Tasks to sets of requests
          None

Locks == {"db", "online", "storages", "clients"}

Lock(l) == <<[op |-> "lock", on |-> l]>>
Read(l) == <<[op |-> "read", on |-> l]>>
Write(l) == <<[op |-> "write", on |-> l]>>
Drop(l) == <<[op |-> "drop", on |-> l]>>

Transaction == Lock("db") \o Drop("db")
Peek(l) == Read(l) \o Drop(l)
Change(l) == Write(l) \o Drop(l)

-----------------------------------------------------------------------------
(* The handlers.  A definition named X_... is X with a slip a change to    *)
(* the code could make.                                                    *)

(* Connections of the clients, then of the storage servers, are collected. *)
broadcast_event == Peek("clients") \o Peek("storages")

(* The read guard of clients lives to the end of the answer's expression.  *)
central_status == Read("clients") \o Peek("storages") \o Drop("clients")

get_file_read_plan_by_id == Lock("db") \o Peek("online") \o Drop("db")

get_file_read_plan == Transaction \o get_file_read_plan_by_id

(* list_directory, has_bundle, get_file_change_logs, create_volume and the *)
(* requests that name a file by its id.                                    *)
one_transaction == Transaction

(* delete_file, copy_file, rename_file: the id, then the change.           *)
two_transactions == Transaction \o Transaction

begin_update == Peek("storages") \o Transaction \o Peek("storages")
begin_update_failed == begin_update \o Transaction

(* The volume's server is looked up while the first transaction's guard is *)
(* alive; the revocation looks the connection up.                          *)
commit_update ==
  Lock("db") \o Peek("online") \o Drop("db") \o Transaction \o Peek("storages")

abort_update == Lock("db") \o Peek("online") \o Drop("db") \o Peek("storages")

validate_client_auth == Peek("clients")

(* The guard of online_volumes is kept while the events are stored.        *)
report_bundle_replica == Read("online") \o Transaction \o Drop("online")

report_refused == Peek("online")

update_storage_endpoint == Change("storages") \o Peek("storages") \o broadcast_event

update_storage_volume_offset == Transaction \o Change("storages")

register_client == Change("clients") \o Peek("storages")

unregister_client == Change("clients")

register_storage_guard_kept ==
  Write("online") \o Transaction \o Drop("online") \o Change("storages")
    \o Peek("storages") \o Peek("storages") \o broadcast_event
register_storage ==
  Transaction \o Change("online") \o Change("storages")
    \o Peek("storages") \o Peek("storages") \o broadcast_event

unregister_storage == Change("storages") \o Change("online") \o broadcast_event

Program ==
  [central_status |-> central_status,
   get_file_read_plan_by_id |-> get_file_read_plan_by_id,
   get_file_read_plan |-> get_file_read_plan,
   one_transaction |-> one_transaction,
   two_transactions |-> two_transactions,
   begin_update |-> begin_update,
   begin_update_failed |-> begin_update_failed,
   commit_update |-> commit_update,
   abort_update |-> abort_update,
   validate_client_auth |-> validate_client_auth,
   report_bundle_replica |-> report_bundle_replica,
   report_refused |-> report_refused,
   update_storage_endpoint |-> update_storage_endpoint,
   update_storage_volume_offset |-> update_storage_volume_offset,
   register_client |-> register_client,
   unregister_client |-> unregister_client,
   register_storage |-> register_storage,
   unregister_storage |-> unregister_storage]

Kinds == DOMAIN Program

ASSUME LocksAssumption ==
  /\ Mixes \subseteq [Tasks -> SUBSET Kinds]
  /\ None \notin Tasks \cup Kinds

-----------------------------------------------------------------------------
VARIABLES kind,    \* the request each connection is busy with, or None
          step,    \* the lock operation its handler is at
          owner,   \* holder of the mutex; holder or marked writer of an RwLock
          readers  \* readers inside each RwLock

lockVars == <<kind, step, owner, readers>>

LocksInit ==
  /\ kind = [t \in Tasks |-> None]
  /\ step = [t \in Tasks |-> 1]
  /\ owner = [l \in Locks |-> None]
  /\ readers = [l \in Locks |-> {}]

At(t, op, l) ==
  /\ kind[t] # None /\ step[t] <= Len(Program[kind[t]])
  /\ Program[kind[t]][step[t]] = [op |-> op, on |-> l]

Advance(t) == step' = [step EXCEPT ![t] = @ + 1]

(* The connection can take its next request. *)
Free(t) == kind' = [kind EXCEPT ![t] = None] /\ step' = [step EXCEPT ![t] = 1]

Start(t, k) ==
  /\ kind[t] = None
  /\ \E mix \in Mixes :
       k \in mix[t] /\ \A u \in Tasks : kind[u] # None => kind[u] \in mix[u]
  /\ kind' = [kind EXCEPT ![t] = k]
  /\ UNCHANGED <<step, owner, readers>>

(* Mutex::lock. *)
TakeMutex(t, l) ==
  /\ At(t, "lock", l)
  /\ owner[l] = None
  /\ owner' = [owner EXCEPT ![l] = t]
  /\ Advance(t)
  /\ UNCHANGED <<kind, readers>>

(* RwLock::read: not past a writer, be it inside or waiting.               *)
TakeRead(t, l) ==
  /\ At(t, "read", l)
  /\ owner[l] = None
  /\ readers' = [readers EXCEPT ![l] = @ \cup {t}]
  /\ Advance(t)
  /\ UNCHANGED <<kind, owner>>

(* RwLock::write: mark the lock, then wait for the readers.                *)
MarkWrite(t, l) ==
  /\ At(t, "write", l)
  /\ owner[l] = None
  /\ owner' = [owner EXCEPT ![l] = t]
  /\ UNCHANGED <<kind, step, readers>>

EnterWrite(t, l) ==
  /\ At(t, "write", l)
  /\ owner[l] = t /\ readers[l] = {}
  /\ Advance(t)
  /\ UNCHANGED <<kind, owner, readers>>

(* A guard is dropped.                                                     *)
DropGuard(t, l) ==
  /\ At(t, "drop", l)
  /\ owner' = [owner EXCEPT ![l] = IF @ = t THEN None ELSE @]
  /\ readers' = [readers EXCEPT ![l] = @ \ {t}]
  /\ Advance(t)
  /\ UNCHANGED kind

(* The transaction, the mounting of the volumes or the change of a peer    *)
(* fails: the handler drops all its guards and answers with the error.     *)
EarlyReturn(t, l) ==
  /\ At(t, "drop", l)
  /\ owner[l] = t /\ l # "clients" /\ kind[t] # "unregister_storage"
  /\ owner' = [m \in Locks |-> IF owner[m] = t THEN None ELSE owner[m]]
  /\ readers' = [m \in Locks |-> readers[m] \ {t}]
  /\ Free(t)

Answered(t) ==
  /\ kind[t] # None /\ step[t] > Len(Program[kind[t]])
  /\ Free(t)
  /\ UNCHANGED <<owner, readers>>

HandlerStep(t) ==
  \/ \E l \in Locks :
       \/ TakeMutex(t, l)
       \/ TakeRead(t, l)
       \/ MarkWrite(t, l)
       \/ EnterWrite(t, l)
       \/ DropGuard(t, l)
       \/ EarlyReturn(t, l)
  \/ Answered(t)

LocksNext == \E t \in Tasks : (\E k \in Kinds : Start(t, k)) \/ HandlerStep(t)

(* Threads run, and a lock that is free again and again is got in the end: *)
(* parking_lot hands it over after half a millisecond (eventual fairness). *)
LocksSpec ==
  LocksInit /\ [][LocksNext]_lockVars /\ \A t \in Tasks : SF_lockVars(HandlerStep(t))

-----------------------------------------------------------------------------
(* Every request that central starts is answered: no handlers wait for     *)
(* one another for ever, whatever locks they hold meanwhile.               *)
RequestsAnswered ==
  \A t \in Tasks : (kind[t] # None) ~> (kind[t] = None)
=============================================================================
