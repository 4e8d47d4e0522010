------------------------- MODULE RegistrationProofs -------------------------
(***************************************************************************)
(* Safety of central's registration of storage servers for every set of    *)
(* servers, volumes and connections, with any number of breaks, and with   *)
(* the endpoint watchers of EndpointReport running beside it.              *)
(***************************************************************************)
EXTENDS EndpointReport, TLAPS

(* What central's handler of a connection has done so far: its peer is in  *)
(* storages exactly while it is registered, and from Mount to Unmount all  *)
(* volumes of its server are mounted by it.  A connection that did not     *)
(* close is the one its server uses; one whose request outran its clean-up *)
(* is closed.                                                              *)
HandlerAt(c) ==
  /\ server[c] = None <=> pc[c] = "free"
  /\ c \in storages <=> pc[c] = "registered"
  /\ pc[c] \in Mounting => \A v \in VolumesOf(c) : online[v] = c
  /\ c \in broken => server[c] # None
  /\ server[c] # None => c \in broken \/ current[server[c]] = c
  /\ c \in outrun => c \in broken

(* A volume is mounted by a connection of a server that has it, between    *)
(* Mount and Unmount.                                                      *)
MountedBy(v) ==
  online[v] # None => pc[online[v]] \in Mounting /\ v \in VolumesOf(online[v])

RegistrationInv ==
  /\ RegistrationTypeOK
  /\ \A c \in Conns : HandlerAt(c)
  /\ \A v \in Volumes : MountedBy(v)

-----------------------------------------------------------------------------
LEMMA RegistrationInitInv == RegistrationInit => RegistrationInv
<1> SUFFICES ASSUME RegistrationInit PROVE RegistrationInv
  OBVIOUS
<1> USE RegistrationAssumption DEF RegistrationInit
<1>1. RegistrationTypeOK
  BY DEF RegistrationTypeOK
<1>2. \A c \in Conns : HandlerAt(c)
  BY DEF HandlerAt, Mounting
<1>3. \A v \in Volumes : MountedBy(v)
  BY DEF MountedBy
<1> QED BY <1>1, <1>2, <1>3 DEF RegistrationInv

(* The volumes of a connection change with its server only.                *)
LEMMA VolumesOfFacts ==
  ASSUME RegistrationInv, NEW c \in Conns
  PROVE  /\ VolumesOf(c) \subseteq Volumes
         /\ server'[c] = server[c] => VolumesOf(c)' = VolumesOf(c)
BY RegistrationAssumption DEF RegistrationInv, RegistrationTypeOK, VolumesOf

LEMMA DialInv ==
  ASSUME RegistrationInv, NEW s \in Servers, NEW d \in Conns, Dial(s, d)
  PROVE  RegistrationInv'
<1> USE RegistrationAssumption DEF Dial
<1>0. RegistrationTypeOK /\ (\A v \in Volumes : MountedBy(v)) /\ pc[d] = "free"
  BY DEF RegistrationInv
<1>1. RegistrationTypeOK'
  BY <1>0 DEF RegistrationTypeOK
<1>2. ASSUME NEW c \in Conns PROVE HandlerAt(c)'
  BY <1>0, VolumesOfFacts DEF RegistrationInv, RegistrationTypeOK, HandlerAt, Mounting
<1>3. \A v \in Volumes : MountedBy(v)'
  BY <1>0, VolumesOfFacts DEF RegistrationTypeOK, MountedBy, Mounting
<1> QED BY <1>1, <1>2, <1>3 DEF RegistrationInv

(* All volumes were free, so no other connection loses one.                *)
LEMMA MountInv ==
  ASSUME RegistrationInv, NEW d \in Conns, Mount(d)
  PROVE  RegistrationInv'
<1> USE RegistrationAssumption DEF Mount
<1>0. RegistrationTypeOK /\ (\A v \in Volumes : MountedBy(v)) /\ pc[d] = "registering" /\ MountFree(d)
  BY DEF RegistrationInv
<1>1. RegistrationTypeOK'
  BY <1>0 DEF RegistrationTypeOK
<1>2. ASSUME NEW c \in Conns PROVE HandlerAt(c)'
  <2>1. CASE c = d
    BY <1>0, <2>1, VolumesOfFacts DEF RegistrationInv, RegistrationTypeOK, HandlerAt, Mounting
  <2>2. CASE c # d
    BY <1>0, <2>2, VolumesOfFacts
    DEF RegistrationInv, RegistrationTypeOK, HandlerAt, Mounting, MountFree
  <2> QED BY <2>1, <2>2
<1>3. \A v \in Volumes : MountedBy(v)'
  BY <1>0, VolumesOfFacts DEF RegistrationTypeOK, MountedBy, Mounting
<1> QED BY <1>1, <1>2, <1>3 DEF RegistrationInv

(* Steps that leave server and online alone.                               *)
LEMMA HandlerStepInv ==
  ASSUME RegistrationInv, NEW d \in Conns,
         Refuse(d) \/ RemovePeer(d) \/ Insert(d) \/ Outrun(d)
  PROVE  RegistrationInv'
<1> USE RegistrationAssumption DEF Refuse, RemovePeer, Insert, Outrun
<1>0. /\ RegistrationTypeOK /\ (\A v \in Volumes : MountedBy(v))
      /\ UNCHANGED <<server, online>>
  BY DEF RegistrationInv
<1>1. RegistrationTypeOK'
  BY <1>0 DEF RegistrationTypeOK
<1>2. ASSUME NEW c \in Conns PROVE HandlerAt(c)'
  BY <1>0, VolumesOfFacts DEF RegistrationInv, RegistrationTypeOK, HandlerAt, Mounting
<1>3. \A v \in Volumes : MountedBy(v)'
  BY <1>0, VolumesOfFacts DEF RegistrationTypeOK, MountedBy, Mounting
<1> QED BY <1>1, <1>2, <1>3 DEF RegistrationInv

(* Steps of the server or the network, which central's maps do not show.   *)
LEMMA OutsideStepInv ==
  ASSUME RegistrationInv,
         \/ \E d \in Conns : Break(d) \/ CloseRefused(d)
         \/ \E s \in Servers : Start(s)
         \/ UNCHANGED registrationVars
  PROVE  RegistrationInv'
<1> USE RegistrationAssumption DEF Break, CloseRefused, Start, registrationVars
<1>0. RegistrationTypeOK /\ (\A v \in Volumes : MountedBy(v)) /\ UNCHANGED <<server, pc, online, storages>>
  BY DEF RegistrationInv
<1>1. RegistrationTypeOK'
  <2>1. current' \in [Servers -> Conns \cup {None}] /\ running' \subseteq Servers
    BY <1>0 DEF RegistrationTypeOK
  <2>2. broken' \subseteq Conns /\ breaks' \in 0 .. MaxBreaks
    BY <1>0 DEF RegistrationTypeOK
  <2> QED BY <1>0, <2>1, <2>2 DEF RegistrationTypeOK
<1>2. ASSUME NEW c \in Conns PROVE HandlerAt(c)'
  <2>1. HandlerAt(c) /\ VolumesOf(c)' = VolumesOf(c)
    BY <1>0, VolumesOfFacts DEF RegistrationInv
  <2>2. c \in broken' => c \in broken \/ server[c] # None
    BY <1>0, <2>1 DEF RegistrationTypeOK, HandlerAt
  <2>3. broken \subseteq broken' /\ UNCHANGED outrun
    OBVIOUS
  <2>4. ASSUME server[c] # None PROVE c \in broken' \/ current'[server[c]] = c
    BY <1>0, <2>1, <2>4 DEF RegistrationTypeOK, HandlerAt
  <2> QED BY <1>0, <2>1, <2>2, <2>3, <2>4 DEF HandlerAt
<1>3. \A v \in Volumes : MountedBy(v)'
  BY <1>0, VolumesOfFacts DEF RegistrationTypeOK, MountedBy, Mounting
<1> QED BY <1>1, <1>2, <1>3 DEF RegistrationInv

(* A connection is forgotten once nothing is mounted by it.                *)
LEMMA ForgetInv ==
  ASSUME RegistrationInv, NEW d \in Conns, Unmount(d) \/ DropAnonymous(d)
  PROVE  RegistrationInv'
<1> USE RegistrationAssumption DEF Unmount, DropAnonymous, Forget, Kept
<1>0. /\ RegistrationTypeOK /\ (\A v \in Volumes : MountedBy(v))
      /\ \A v \in Volumes : online'[v] # d /\ (online[v] # d => online'[v] = online[v])
      /\ \A v \in Volumes : online'[v] # None => online'[v] = online[v]
      /\ online' \in [Volumes -> Conns \cup {None}]
      /\ \A c \in Conns : c # d => server'[c] = server[c] /\ pc'[c] = pc[c]
      /\ server'[d] = None /\ pc'[d] = "free" /\ pc[d] # "registered" /\ UNCHANGED storages
  BY DEF RegistrationInv, RegistrationTypeOK, MountedBy, Mounting
<1>1. RegistrationTypeOK'
  BY <1>0 DEF RegistrationTypeOK
<1>2. ASSUME NEW c \in Conns PROVE HandlerAt(c)'
  BY <1>0, VolumesOfFacts DEF RegistrationInv, RegistrationTypeOK, HandlerAt, Mounting
<1>3. \A v \in Volumes : MountedBy(v)'
  BY <1>0, VolumesOfFacts DEF RegistrationTypeOK, MountedBy, Mounting
<1> QED BY <1>1, <1>2, <1>3 DEF RegistrationInv

LEMMA RegistrationStepInv ==
  RegistrationInv /\ [RegistrationNext]_registrationVars => RegistrationInv'
BY DialInv, MountInv, HandlerStepInv, OutsideStepInv, ForgetInv
DEF RegistrationNext, CentralStep

LEMMA RegistrationInvariant == RegistrationSpec => []RegistrationInv
<1>1. RegistrationInit => RegistrationInv
  BY RegistrationInitInv
<1>2. RegistrationInv /\ [RegistrationNext]_registrationVars => RegistrationInv'
  BY RegistrationStepInv
<1> QED BY <1>1, <1>2, PTL DEF RegistrationSpec

-----------------------------------------------------------------------------
LEMMA InvPeersMounted == RegistrationInv => PeersMounted
BY DEF RegistrationInv, HandlerAt, PeersMounted, Mounting, RegistrationTypeOK

LEMMA InvMountsOwned == RegistrationInv => MountsOwned
<1> SUFFICES ASSUME RegistrationInv, NEW v \in Volumes, NEW c, c = online[v], c # None
             PROVE  /\ pc[c] \in Mounting /\ v \in VolumesOf(c)
                    /\ c \in broken \/ current[server[c]] = c
                    /\ c \in outrun => c \in broken
  BY DEF MountsOwned
<1>1. c \in Conns /\ HandlerAt(c)
  BY DEF RegistrationInv, RegistrationTypeOK
<1>2. pc[c] \in Mounting /\ v \in VolumesOf(c)
  BY DEF RegistrationInv, MountedBy
<1>3. server[c] # None
  BY <1>2 DEF VolumesOf
<1> QED BY <1>1, <1>2, <1>3 DEF HandlerAt

(* Registration with the endpoint watchers is still registration: every    *)
(* step of a server's watcher, of an address change, and of a report that  *)
(* is late or lost, leaves central's maps to the steps of Registration.    *)
THEOREM EndpointRefines == EndpointSpec => RegistrationSpec
<1>1. EndpointInit => RegistrationInit
  BY DEF EndpointInit
<1>2. [EndpointNext]_vars => [RegistrationNext]_registrationVars
  <2> SUFFICES ASSUME [EndpointNext]_vars PROVE [RegistrationNext]_registrationVars
    OBVIOUS
  <2>1. CASE UNCHANGED vars
    BY <2>1 DEF vars, registrationVars
  <2>2. ASSUME NEW s \in Servers, WatcherStep(s) PROVE [RegistrationNext]_registrationVars
    BY <2>2 DEF WatcherStep, StartWatcher, Notice, Skip, Unavailable, Report, HandleReport,
                Reported, ReportFails, RegistrationNext
  <2>3. ASSUME NEW c \in Conns, ControlStep(c) PROVE [RegistrationNext]_registrationVars
    BY <2>3 DEF ControlStep, InsertPeer, Cleanup, RegistrationNext, CentralStep
  <2>4. ASSUME NEW s \in Servers, NEW c \in Conns, DialSampled(s, c) PROVE RegistrationNext
    BY <2>4 DEF DialSampled, RegistrationNext
  <2>5. ASSUME \/ \E s \in Servers : ReportTimesOut(s) \/ \E a \in Addrs : Move(s, a)
               \/ \E r \in late : HandleLate(r)
        PROVE  UNCHANGED registrationVars
    BY <2>5 DEF ReportTimesOut, Move, HandleLate
  <2>6. ASSUME NEW c \in Conns, Break(c) \/ Outrun(c) PROVE RegistrationNext
    BY <2>6 DEF RegistrationNext, CentralStep
  <2> QED BY <2>1, <2>2, <2>3, <2>4, <2>5, <2>6 DEF EndpointNext
<1>3. EndpointSpec => EndpointInit /\ [][EndpointNext]_vars
  BY PTL DEF EndpointSpec
<1> QED BY <1>1, <1>2, <1>3, PTL DEF RegistrationSpec

(* A volume central advertises is mounted by the connection that           *)
(* advertises it, in every interleaving of registrations, refusals,        *)
(* breaks and clean-ups.                                                   *)
THEOREM AdvertisedMounted == EndpointSpec => []PeersMounted
BY EndpointRefines, RegistrationInvariant, InvPeersMounted, PTL

(* A mounted volume is mounted by the connection its server uses, or by a  *)
(* closed one whose clean-up is to come or was outrun by its request.      *)
THEOREM MountsHaveOwners == EndpointSpec => []MountsOwned
BY EndpointRefines, RegistrationInvariant, InvMountsOwned, PTL
=============================================================================
