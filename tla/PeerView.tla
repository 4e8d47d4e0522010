------------------------------ MODULE PeerView ------------------------------
(***************************************************************************)
(* What a client knows of the storage servers, and how it reaches them:    *)
(* CentralSession's list of peers, kept from the snapshots central returns *)
(* and the StorageChanged and StorageRemoved events it broadcasts, and the *)
(* storage sessions cached by storage id.                                  *)
(*                                                                         *)
(* Every event travels on a stream of its own, so events are applied in    *)
(* any order; a snapshot is applied when its answer arrives.  Central's    *)
(* ids restart from 1 when central does.  The registration of a storage    *)
(* server is one step here; Registration has its detail, EndpointReport    *)
(* how a server notices that its address changed.                          *)
(*                                                                         *)
(* An entry of central's map, of a snapshot, an event and of the client's  *)
(* list carries ver, a count of the changes of that storage id: it is not  *)
(* in the program, and says which of two entries is older.                 *)
(***************************************************************************)
EXTENDS Integers, FiniteSets

CONSTANTS Servers,     \* storage servers, each with volumes of its own
          Addrs,
          MaxId,       \* bound: ids central gives out between restarts
          MaxFaults,   \* bound: connections that break, changes of address, restarts of
                       \* central and CentralStatus requests, together
          SessionIds,  \* bound: the ids sessions are made for
          None

Ids == 1 .. MaxId
Peers == [server : Servers, addr : Addrs]
Entries == [peer : Peers \cup {None}, ver : Nat]
NoPeer == [peer |-> None, ver |-> 0]
Snapshots == [Ids -> Entries]
Events == [id : Ids, entry : Entries]
Answers == [id : Ids, era : Nat, snapshot : Snapshots \cup {None}]
Sessions == [client : Nat, server : Servers \cup {None}, conn : {"closed", "dialled", "open"},
             since : Nat]

ASSUME PeerViewAssumption ==
  /\ MaxId \in Nat /\ MaxFaults \in Nat /\ SessionIds \subseteq Ids
  /\ Addrs # {}
  /\ None \notin Peers \cup Servers \cup Snapshots \cup Events \cup Answers \cup Sessions

VARIABLES next_id,
          clients,    \* ids of registered clients
          storages,   \* [Ids -> entry]
          announced,  \* [Ids -> event its handler has still to broadcast, or None]
          reg,        \* [Servers -> id it is registered under, 0 for none]
          addr,       \* [Servers -> address it has now]
          link,       \* the client's control connection
          client_id,
          era,        \* restarts of central before the client's registration
          answer,     \* the answer to RegisterClient: id, era and snapshot
          status,     \* the answer to CentralStatus, a snapshot or None
          view,       \* CentralSession::storages, [Ids -> entry]
          events,     \* events on their way to the client
          sessions,   \* storage_sessions, [Ids -> session or None]
          seen,       \* newest entry of each id the client was ever told of
          restarts,   \* restarts of central
          faults

centralVars == <<next_id, clients, storages, announced>>
serverVars == <<reg, addr>>
clientVars == <<link, client_id, era, answer, status, view, events, seen>>
bounds == <<restarts, faults>>
vars == <<centralVars, serverVars, clientVars, sessions, bounds>>

PeerViewTypeOK ==
  /\ next_id \in Nat \ {0}
  /\ clients \subseteq Ids
  /\ storages \in Snapshots
  /\ announced \in [Ids -> Events \cup {None}]
  /\ reg \in [Servers -> Ids \cup {0}]
  /\ addr \in [Servers -> Addrs]
  /\ link \in {"down", "dialling", "inserted", "answered", "up"}
  /\ client_id \in Nat /\ era \in Nat
  /\ answer \in Answers \cup {None}
  /\ status \in Snapshots \cup {None}
  /\ view \in Snapshots
  /\ events \subseteq Events
  /\ sessions \in [Ids -> Sessions \cup {None}]
  /\ seen \in [Ids -> Nat]
  /\ restarts \in Nat /\ faults \in Nat

PeerViewInit ==
  /\ next_id = 1
  /\ clients = {}
  /\ storages = [s \in Ids |-> NoPeer]
  /\ announced = [s \in Ids |-> None]
  /\ reg = [m \in Servers |-> 0]
  /\ addr = [m \in Servers |-> CHOOSE a \in Addrs : TRUE]
  /\ link = "down"
  /\ client_id = 0 /\ era = 0
  /\ answer = None
  /\ status = None
  /\ view = [s \in Ids |-> NoPeer]
  /\ events = {}
  /\ sessions = [s \in Ids |-> None]
  /\ seen = [s \in Ids |-> 0]
  /\ restarts = 0 /\ faults = 0

Fault == faults < MaxFaults /\ faults' = faults + 1

-----------------------------------------------------------------------------
(* Central. *)

(* The map changes at id s; the handler then reads the entry and           *)
(* broadcasts it, holding the identity lock of the connection.             *)
Change(s, p) ==
  LET entry == [peer |-> p, ver |-> storages[s].ver + 1]
  IN  /\ storages' = [storages EXCEPT ![s] = entry]
      /\ announced' = [announced EXCEPT ![s] = [id |-> s, entry |-> entry]]

FreshId_kept == next_id
FreshId == next_id + 1

(* A server registers once central has dropped its earlier registration;   *)
(* before, its volumes are still mounted.                                  *)
RegisterStorage(m) ==
  /\ reg[m] = 0 /\ next_id \in Ids
  /\ \A s \in Ids : storages[s].peer # None => storages[s].peer.server # m
  /\ Change(next_id, [server |-> m, addr |-> addr[m]])
  /\ reg' = [reg EXCEPT ![m] = next_id]
  /\ next_id' = FreshId
  /\ UNCHANGED <<clients, addr, clientVars, sessions, bounds>>

(* The handler takes the identity lock, so the last broadcast for the id   *)
(* is over.                                                                *)
UpdateEndpoint(m) ==
  LET s == reg[m]
  IN  /\ s # 0 /\ announced[s] = None
      /\ storages[s].peer # None /\ storages[s].peer.addr # addr[m]
      /\ Change(s, [server |-> m, addr |-> addr[m]])
      /\ UNCHANGED <<next_id, clients, serverVars, clientVars, sessions, bounds>>

(* Central sees that the connection of a registration is closed.  A        *)
(* handler that was still broadcasting was aborted.                        *)
UnregisterStorage(s) ==
  /\ storages[s].peer # None
  /\ reg[storages[s].peer.server] # s
  /\ Change(s, None)
  /\ UNCHANGED <<next_id, clients, serverVars, clientVars, sessions, bounds>>

(* broadcast_event: the client gets it when it is registered by now and    *)
(* its connection is open.                                                 *)
Listening_late == link = "up"
Listening == link \in {"inserted", "answered", "up"}

Broadcast(s) ==
  /\ announced[s] # None
  /\ events' = IF Listening THEN events \cup {announced[s]} ELSE events
  /\ announced' = [announced EXCEPT ![s] = None]
  /\ UNCHANGED <<next_id, clients, storages, serverVars, link, client_id, era, answer, status, view,
                 seen, sessions, bounds>>

(* register_client: the client is inserted first, then the snapshot taken. *)
InsertClient ==
  /\ link = "dialling" /\ next_id \in Ids
  /\ clients' = clients \cup {next_id}
  /\ answer' = [id |-> next_id, era |-> restarts, snapshot |-> None]
  /\ next_id' = FreshId
  /\ link' = "inserted"
  /\ UNCHANGED <<storages, announced, serverVars, client_id, era, status, view, events, seen,
                 sessions, bounds>>

AnswerClient ==
  /\ link = "inserted"
  /\ answer' = [answer EXCEPT !.snapshot = storages]
  /\ link' = "answered"
  /\ UNCHANGED <<centralVars, serverVars, client_id, era, status, view, events, seen, sessions,
                 bounds>>

(* Central sees the control connection of a client closed.                 *)
UnregisterClient(c) ==
  /\ c \in clients
  /\ ~(link \in {"inserted", "answered"} /\ answer.id = c)
  /\ ~(link = "up" /\ client_id = c)
  /\ clients' = clients \ {c}
  /\ UNCHANGED <<next_id, storages, announced, serverVars, clientVars, sessions, bounds>>

-----------------------------------------------------------------------------
(* The client. *)

Newest(entries) == [s \in Ids |-> IF entries[s].ver > seen[s] THEN entries[s].ver ELSE seen[s]]

(* ensure_connected: a closed connection is dialled again.                 *)
Dial ==
  /\ link = "down"
  /\ link' = "dialling"
  /\ UNCHANGED <<centralVars, serverVars, client_id, era, answer, status, view, events, seen, sessions,
                 bounds>>

(* The list is replaced, then the event listener starts.                   *)
Registered ==
  /\ link = "answered"
  /\ client_id' = answer.id
  /\ era' = answer.era
  /\ view' = answer.snapshot
  /\ seen' = Newest(answer.snapshot)
  /\ answer' = None
  /\ link' = "up"
  /\ UNCHANGED <<centralVars, serverVars, status, events, sessions, bounds>>

(* central_status: central takes the snapshot, the client replaces its     *)
(* list by it, which may be late or never.                                 *)
AskStatus ==
  /\ link = "up" /\ status = None /\ Fault
  /\ status' = storages
  /\ UNCHANGED <<centralVars, serverVars, link, client_id, era, answer, view, events, seen, sessions,
                 restarts>>

SetPeers ==
  /\ status # None
  /\ view' = status
  /\ seen' = Newest(status)
  /\ status' = None
  /\ UNCHANGED <<centralVars, serverVars, link, client_id, era, answer, events, sessions, bounds>>

StatusLost ==
  /\ status # None
  /\ status' = None
  /\ UNCHANGED <<centralVars, serverVars, link, client_id, era, answer, view, events, seen, sessions,
                 bounds>>

(* The event listener: an entry is inserted, replaced or dropped.          *)
Applied_changedOnly(e) == IF e.entry.peer = None THEN view[e.id] ELSE e.entry
Applied(e) == e.entry

ApplyEvent(e) ==
  /\ link = "up"
  /\ events' = events \ {e}
  /\ view' = [view EXCEPT ![e.id] = Applied(e)]
  /\ seen' = [seen EXCEPT ![e.id] = IF Applied(e).ver > @ THEN Applied(e).ver ELSE @]
  /\ UNCHANGED <<centralVars, serverVars, link, client_id, era, answer, status, sessions, bounds>>

-----------------------------------------------------------------------------
(* Storage sessions.  A caller has found peer s in its list.               *)

(* storage_session: the cached session, or a new one under the client id   *)
(* of the moment.                                                          *)
MakeSession(s) ==
  /\ s \in SessionIds /\ view[s].peer # None /\ sessions[s] = None
  /\ sessions' = [sessions EXCEPT ![s] = [client |-> client_id, server |-> None,
                                          conn |-> "closed", since |-> era]]
  /\ UNCHANGED <<centralVars, serverVars, clientVars, bounds>>

(* StorageSessionInner::ensure_connected: the peer is looked up by its id  *)
(* and dialled at the address the list has.                                *)
Reusable_closed(s) == sessions[s].server # None
Reusable(s) == sessions[s].conn = "open"

DialStorage(s) ==
  /\ sessions[s] # None /\ sessions[s].conn # "dialled" /\ ~Reusable(s)
  /\ view[s].peer # None
  /\ addr[view[s].peer.server] = view[s].peer.addr
  /\ sessions' = [sessions EXCEPT ![s].server = view[s].peer.server, ![s].conn = "dialled"]
  /\ UNCHANGED <<centralVars, serverVars, clientVars, bounds>>

(* authenticate: the storage server asks central, over its own             *)
(* registration, whether the session's client id is registered.            *)
Valid(s) == reg[sessions[s].server] # 0 /\ sessions[s].client \in clients

Authenticate(s) ==
  /\ sessions[s] # None /\ sessions[s].conn = "dialled"
  /\ sessions' = [sessions EXCEPT ![s].conn = IF Valid(s) THEN "open" ELSE "closed"]
  /\ UNCHANGED <<centralVars, serverVars, clientVars, bounds>>

-----------------------------------------------------------------------------
(* Faults. *)

(* What is on its way to the client is lost: a frame is read and applied   *)
(* without an await in between.                                            *)
CutOff ==
  /\ link' = "down"
  /\ answer' = None
  /\ status' = None
  /\ events' = {}

BreakClient ==
  /\ link # "down" /\ Fault
  /\ CutOff
  /\ UNCHANGED <<centralVars, serverVars, client_id, era, view, seen, sessions, restarts>>

BreakStorage(m) ==
  /\ reg[m] # 0 /\ Fault
  /\ reg' = [reg EXCEPT ![m] = 0]
  /\ UNCHANGED <<centralVars, addr, clientVars, sessions, restarts>>

BreakData(s) ==
  /\ sessions[s] # None /\ sessions[s].conn = "open" /\ Fault
  /\ sessions' = [sessions EXCEPT ![s].conn = "closed"]
  /\ UNCHANGED <<centralVars, serverVars, clientVars, restarts>>

Move(m, a) ==
  /\ a # addr[m] /\ Fault
  /\ addr' = [addr EXCEPT ![m] = a]
  /\ UNCHANGED <<centralVars, reg, clientVars, sessions, restarts>>

(* Central's maps and ids are in memory only.                              *)
RestartCentral ==
  /\ Fault
  /\ restarts' = restarts + 1
  /\ next_id' = 1
  /\ clients' = {}
  /\ storages' = [s \in Ids |-> IF storages[s].peer = None THEN storages[s]
                                ELSE [peer |-> None, ver |-> storages[s].ver + 1]]
  /\ announced' = [s \in Ids |-> None]
  /\ reg' = [m \in Servers |-> 0]
  /\ CutOff
  /\ UNCHANGED <<addr, client_id, era, view, seen, sessions>>

-----------------------------------------------------------------------------
ServerStep(m) == RegisterStorage(m) \/ UpdateEndpoint(m)
CentralStep(s) == UnregisterStorage(s) \/ Broadcast(s) \/ UnregisterClient(s)
ClientStep == Dial \/ InsertClient \/ AnswerClient \/ Registered
StatusStep == SetPeers \/ StatusLost
EventStep == \E e \in events : ApplyEvent(e)
SessionStep(s) == DialStorage(s) \/ Authenticate(s)

Faults ==
  \/ BreakClient \/ RestartCentral
  \/ \E m \in Servers : BreakStorage(m) \/ (\E a \in Addrs : Move(m, a))
  \/ \E s \in Ids : BreakData(s)

PeerViewNext ==
  \/ \E m \in Servers : ServerStep(m)
  \/ \E s \in Ids : CentralStep(s) \/ MakeSession(s) \/ SessionStep(s)
  \/ ClientStep \/ AskStatus \/ StatusStep \/ EventStep
  \/ Faults

PeerViewSpec == PeerViewInit /\ [][PeerViewNext]_vars

(* The storage servers' loops, central's handlers and the client's         *)
(* listener run; the client keeps using its sessions.                      *)
PeerViewFair ==
  /\ PeerViewSpec
  /\ \A m \in Servers : WF_vars(ServerStep(m))
  /\ \A s \in Ids : WF_vars(CentralStep(s)) /\ WF_vars(SessionStep(s))
  /\ WF_vars(ClientStep) /\ WF_vars(StatusStep) /\ WF_vars(EventStep)

-----------------------------------------------------------------------------
(* The client is still to be told of the newest change of id s.            *)
Pending(s) == announced[s] # None \/ \E e \in events : e.id = s /\ e.entry = storages[s]

(* No change is missed between the snapshot of a registration and the      *)
(* events that follow: of each id a connected client has been told the     *)
(* newest entry, or it is on its way.                                      *)
PeersTold ==
  link = "up" => \A s \in Ids : Pending(s) \/ seen[s] = storages[s].ver

(* The list is right about an id when nothing is on its way, unless an     *)
(* older event or snapshot was applied after a newer one.                  *)
Overtaken(s) == view[s].ver < seen[s]

ViewRight ==
  link = "up" => \A s \in Ids : Pending(s) \/ Overtaken(s) \/ view[s] = storages[s]

(* An open session of a peer in the list leads to the server that has the  *)
(* id, unless central, which numbers from 1 again, was restarted between   *)
(* the registrations the session and the list come from.                   *)
SessionsRouted ==
  \A s \in Ids :
    (/\ sessions[s] # None /\ sessions[s].conn = "open"
     /\ view[s].peer # None /\ sessions[s].since = era)
    => sessions[s].server = view[s].peer.server

(* In the end a client that keeps using its sessions has a connection to   *)
(* every server it knows truly, but for the sessions it made under an      *)
(* earlier client id, which the storage server refuses.                    *)
ReachableAgain ==
  \A s \in Ids :
    <>[]((/\ link = "up" /\ sessions[s] # None /\ sessions[s].client = client_id
          /\ storages[s].peer # None /\ view[s] = storages[s])
         => sessions[s].conn = "open")
=============================================================================
