---------------------------- MODULE Registration ----------------------------
(***************************************************************************)
(* Storage servers registering their volumes with the central server over  *)
(* control connections that break, and central's two maps: storages, the   *)
(* peers it advertises and grants leases to, and online_volumes.           *)
(*                                                                         *)
(* register_storage and unregister_storage take the locks of the two maps  *)
(* one after the other, and handlers of different connections interleave.  *)
(* A registration gets a fresh storage id; it is named by its connection.  *)
(* A storage server whose first registration succeeded redials after one   *)
(* second, often before central has seen its old connection close; one     *)
(* whose first registration fails does not start.                          *)
(*                                                                         *)
(* Requests run in tasks of their own.  When a connection closes, its      *)
(* tasks are told to stop, which they do only where they await, and the    *)
(* connection is cleaned up under its identity lock.  A request that has   *)
(* been read and does not hold that lock yet may so go on after the        *)
(* clean-up of its connection: outrun.                                     *)
(***************************************************************************)
EXTENDS Integers, FiniteSets

CONSTANTS Servers,     \* storage servers
          Volumes,
          Mounts,      \* [Servers -> SUBSET Volumes]
          Conns,       \* control connections; a finished one stands for new ones
          MaxBreaks,   \* bound: connections that break
          None

ASSUME RegistrationAssumption ==
  /\ Mounts \in [Servers -> SUBSET Volumes]
  /\ MaxBreaks \in Nat
  /\ None \notin Servers \cup Conns \cup Volumes

VARIABLES server,   \* [Conns -> Servers or None]: who dialled
          current,  \* [Servers -> Conns or None]: the connection it uses
          running,  \* servers whose first registration succeeded
          broken,   \* connections that closed
          pc,       \* central's handler of each connection
          online,   \* online_volumes: [Volumes -> Conns or None]
          storages, \* storages: the registered connections
          outrun,   \* closed connections whose clean-up is over, but not their request
          breaks

registrationVars == <<server, current, running, broken, pc, online, storages, outrun, breaks>>

RegistrationTypeOK ==
  /\ server \in [Conns -> Servers \cup {None}]
  /\ current \in [Servers -> Conns \cup {None}]
  /\ running \subseteq Servers
  /\ broken \subseteq Conns
  /\ pc \in [Conns -> {"free", "registering", "mounted", "refused", "registered",
                       "removed"}]
  /\ online \in [Volumes -> Conns \cup {None}]
  /\ storages \subseteq Conns
  /\ outrun \subseteq Conns
  /\ breaks \in 0 .. MaxBreaks

RegistrationInit ==
  /\ server = [c \in Conns |-> None]
  /\ current = [s \in Servers |-> None]
  /\ running = {}
  /\ broken = {}
  /\ pc = [c \in Conns |-> "free"]
  /\ online = [v \in Volumes |-> None]
  /\ storages = {}
  /\ outrun = {}
  /\ breaks = 0

-----------------------------------------------------------------------------
VolumesOf(c) == IF server[c] = None THEN {} ELSE Mounts[server[c]]

(* connect_and_register: dial and send RegisterStorage, in run or in the   *)
(* loop that spawn starts.                                                 *)
Dial(s, c) ==
  /\ current[s] = None
  /\ pc[c] = "free"
  /\ server' = [server EXCEPT ![c] = s]
  /\ current' = [current EXCEPT ![s] = c]
  /\ pc' = [pc EXCEPT ![c] = "registering"]
  /\ UNCHANGED <<running, broken, online, storages, outrun, breaks>>

(* The online_volumes section: all volumes are free and taken, or none.    *)
MountFree_some(c) == \E v \in VolumesOf(c) : online[v] = None
MountFree(c) == \A v \in VolumesOf(c) : online[v] = None

Mount(c) ==
  /\ pc[c] = "registering"
  /\ MountFree(c)
  /\ online' = [v \in Volumes |-> IF v \in VolumesOf(c) THEN c ELSE online[v]]
  /\ pc' = [pc EXCEPT ![c] = "mounted"]
  /\ UNCHANGED <<server, current, running, broken, storages, outrun, breaks>>

(* VolumeAlreadyMounted. *)
Refuse(c) ==
  /\ pc[c] = "registering"
  /\ ~MountFree(c)
  /\ pc' = [pc EXCEPT ![c] = "refused"]
  /\ UNCHANGED <<server, current, running, broken, online, storages, outrun, breaks>>

(* The storages section; the identity is set and the request answered.     *)
Insert(c) ==
  /\ pc[c] = "mounted"
  /\ storages' = storages \cup {c}
  /\ pc' = [pc EXCEPT ![c] = "registered"]
  /\ UNCHANGED <<server, current, running, broken, online, outrun, breaks>>

(* run: the first registration is answered and the tasks are spawned.      *)
Start(s) ==
  /\ s \notin running
  /\ current[s] # None /\ pc[current[s]] = "registered"
  /\ running' = running \cup {s}
  /\ UNCHANGED <<server, current, broken, pc, online, storages, outrun, breaks>>

(* The connection is lost; the server's accept loop, or its register       *)
(* request, ends.  Central may not know yet.                               *)
Break(c) ==
  /\ server[c] # None /\ c \notin broken
  /\ breaks < MaxBreaks
  /\ breaks' = breaks + 1
  /\ broken' = broken \cup {c}
  /\ current' = [s \in Servers |-> IF current[s] = c THEN None ELSE current[s]]
  /\ UNCHANGED <<server, running, pc, online, storages, outrun>>

(* A refused server closes the connection.                                 *)
CloseRefused(c) ==
  /\ pc[c] = "refused" /\ c \notin broken
  /\ broken' = broken \cup {c}
  /\ current' = [s \in Servers |-> IF current[s] = c THEN None ELSE current[s]]
  /\ UNCHANGED <<server, running, pc, online, storages, outrun, breaks>>

-----------------------------------------------------------------------------
(* Central's side of a closed connection, after the handler that holds the *)
(* identity lock: unregister_storage removes the peer, then its volumes.   *)
Forget(c) ==
  /\ server' = [server EXCEPT ![c] = None]
  /\ pc' = [pc EXCEPT ![c] = "free"]
  /\ broken' = broken \ {c}
  /\ outrun' = outrun \ {c}

RemovePeer(c) ==
  /\ c \in broken \ outrun /\ pc[c] = "registered"
  /\ storages' = storages \ {c}
  /\ pc' = [pc EXCEPT ![c] = "removed"]
  /\ UNCHANGED <<server, current, running, broken, online, outrun, breaks>>

Kept_all(c) == online
Kept(c) == [v \in Volumes |-> IF online[v] = c THEN None ELSE online[v]]

Unmount(c) ==
  /\ pc[c] = "removed"
  /\ online' = Kept(c)
  /\ Forget(c)
  /\ UNCHANGED <<current, running, storages, breaks>>

(* A connection that never registered has nothing to unregister: its       *)
(* request was refused, or is stopped before it takes the identity lock.   *)
DropAnonymous(c) ==
  /\ c \in broken /\ pc[c] \in {"registering", "refused"}
  /\ Forget(c)
  /\ UNCHANGED <<current, running, online, storages, breaks>>

(* The clean-up takes the identity lock before the request does and finds  *)
(* the connection Anonymous.  Should the request register its server now,  *)
(* nothing will ever unregister it.                                        *)
Outrun(c) ==
  /\ c \in broken \ outrun /\ pc[c] = "registering"
  /\ outrun' = outrun \cup {c}
  /\ UNCHANGED <<server, current, running, broken, pc, online, storages, breaks>>

CentralStep(c) ==
  \/ Mount(c)
  \/ Refuse(c)
  \/ Insert(c)
  \/ RemovePeer(c)
  \/ Unmount(c)
  \/ DropAnonymous(c)
  \/ Outrun(c)

RegistrationNext ==
  \/ \E s \in Servers : Start(s) \/ \E c \in Conns : Dial(s, c)
  \/ \E c \in Conns :
       \/ CentralStep(c)
       \/ Break(c)
       \/ CloseRefused(c)

RegistrationSpec == RegistrationInit /\ [][RegistrationNext]_registrationVars

-----------------------------------------------------------------------------
(* A volume central advertises is mounted by the connection that           *)
(* advertises it, so no two peers ever offer one volume and a report from  *)
(* a registered server is accepted, however registrations, refusals and    *)
(* clean-ups of old connections overlap.                                   *)
PeersMounted ==
  \A c \in storages : \A v \in VolumesOf(c) : online[v] = c

Mounting == {"mounted", "registered", "removed"}

(* A mounted volume has an owner: a connection that its server uses, or a  *)
(* closed one that central has not cleaned up or whose request outran its  *)
(* clean-up.  No volume is left to a connection central has forgotten, nor *)
(* does a server's new connection share one with its old one.              *)
MountsOwned ==
  \A v \in Volumes : LET c == online[v]
                    IN  c # None =>
                          /\ pc[c] \in Mounting
                          /\ v \in VolumesOf(c)
                          /\ c \in broken \/ current[server[c]] = c
                          /\ c \in outrun => c \in broken

(* The volumes of a connection that closed are unmounted in the end,       *)
(* however far its registration had come, but for a request that outran    *)
(* its connection's clean-up: what is then mounted, a server's connection  *)
(* in use mounts.                                                          *)
ClosedUnmounted ==
  <>[](\A v \in Volumes :
         online[v] # None =>
           online[v] \in outrun \/ \E s \in Servers : current[s] = online[v])

Registered(s) == current[s] # None /\ current[s] \in storages

(* A request that outran its clean-up holds a volume of s, for good.       *)
Orphaned(s) ==
  \E c \in outrun : pc[c] \in Mounting /\ VolumesOf(c) \cap Mounts[s] # {}

(* A storage server that started is registered again in the end, though    *)
(* its attempts may be refused because of its own old connection; only     *)
(* another server that has one of its volumes can keep it out, or a        *)
(* request, of its own or another server, that outran its clean-up.        *)
RegisteredAgain ==
  \A s \in Servers :
    <>[](s \in running =>
           \/ Orphaned(s)
           \/ \E u \in Servers : Registered(u) /\ (u = s \/ Mounts[u] \cap Mounts[s] # {}))
=============================================================================
