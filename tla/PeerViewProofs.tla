--------------------------- MODULE PeerViewProofs ---------------------------
(***************************************************************************)
(* What a client is told of the storage servers, and where its sessions    *)
(* lead, for every set of servers, addresses and ids and any number of     *)
(* breaks, restarts and status requests.                                   *)
(***************************************************************************)
EXTENDS PeerView, TLAPS

(* x is what central has of id s, or an older entry.                       *)
Older(x, s) ==
  /\ x.ver <= storages[s].ver
  /\ x.ver = storages[s].ver => x = storages[s]

(* Everything the client has, or will get, of id s is or was central's     *)
(* entry.                                                                  *)
EntriesOlder(s) ==
  /\ announced[s] # None => announced[s] = [id |-> s, entry |-> storages[s]]
  /\ Older(view[s], s)
  /\ \A e \in events : e.id = s => Older(e.entry, s)
  /\ status # None => Older(status[s], s)
  /\ (answer # None /\ answer.snapshot # None) => Older(answer.snapshot[s], s)
  /\ view[s].ver <= seen[s] /\ seen[s] <= storages[s].ver

(* From the snapshot on, the newest entry is in it or on its way.          *)
NewestTold(s) ==
  /\ link = "answered" => Pending(s) \/ answer.snapshot[s] = storages[s]
  /\ link = "up" => Pending(s) \/ seen[s] = storages[s].ver

(* What there is on the client's connection belongs to this central.       *)
LinkState ==
  /\ link \in {"inserted", "answered"} <=> answer # None
  /\ link = "answered" <=> answer # None /\ answer.snapshot # None
  /\ status # None => link = "up"
  /\ events # {} => Listening
  /\ answer # None => answer.era = restarts
  /\ link = "up" => era = restarts
  /\ era <= restarts

(* Someone has heard, since central started, that id s is server m.        *)
Says(x, m) == x.peer # None /\ x.peer.server = m

Mentions(s, m) ==
  \/ Says(storages[s], m)
  \/ \E e \in events : e.id = s /\ Says(e.entry, m)
  \/ status # None /\ Says(status[s], m)
  \/ answer # None /\ answer.snapshot # None /\ Says(answer.snapshot[s], m)
  \/ era = restarts /\ Says(view[s], m)
  \/ sessions[s] # None /\ sessions[s].since = restarts /\ sessions[s].server = m

(* All agree on the server, and nobody has heard of an id not given yet.   *)
OneOwner(s) ==
  /\ \A m, n \in Servers : Mentions(s, m) /\ Mentions(s, n) => m = n
  /\ s >= next_id => \A m \in Servers : ~Mentions(s, m)

SessionLeads(s) ==
  sessions[s] # None =>
    /\ sessions[s].since <= era
    /\ (sessions[s].since = era /\ sessions[s].server # None /\ view[s].peer # None)
         => sessions[s].server = view[s].peer.server
    /\ sessions[s].conn # "closed" => sessions[s].server # None

RegisteredAs(m) ==
  reg[m] # 0 => storages[reg[m]].peer # None /\ storages[reg[m]].peer.server = m

PeerViewInv ==
  /\ PeerViewTypeOK
  /\ LinkState
  /\ \A s \in Ids : EntriesOlder(s) /\ NewestTold(s) /\ OneOwner(s) /\ SessionLeads(s)
  /\ \A m \in Servers : RegisteredAs(m)

-----------------------------------------------------------------------------
LEMMA PeerViewInitInv == PeerViewInit => PeerViewInv
<1> SUFFICES ASSUME PeerViewInit PROVE PeerViewInv
  OBVIOUS
<1> USE PeerViewAssumption DEF PeerViewInit
<1>0. NoPeer \in Entries /\ NoPeer.peer = None /\ NoPeer.ver = 0
  BY DEF NoPeer, Entries
<1>1. PeerViewTypeOK
  BY <1>0 DEF PeerViewTypeOK, Snapshots
<1>2. LinkState
  BY DEF LinkState
<1>3. ASSUME NEW s \in Ids PROVE EntriesOlder(s) /\ NewestTold(s)
  BY <1>0 DEF EntriesOlder, Older, NewestTold
<1>4. ASSUME NEW s \in Ids PROVE OneOwner(s) /\ SessionLeads(s)
  BY <1>0 DEF OneOwner, Mentions, Says, SessionLeads
<1>5. ASSUME NEW m \in Servers PROVE RegisteredAs(m)
  BY DEF RegisteredAs
<1> QED BY <1>1, <1>2, <1>3, <1>4, <1>5 DEF PeerViewInv

(* A step that tells nobody a new server of s keeps the owner of s.        *)
LEMMA NothingNew ==
  ASSUME PeerViewInv, NEW s \in Ids, next_id' \in Nat, next_id' >= next_id,
         \A m \in Servers : Mentions(s, m)' => Mentions(s, m)
  PROVE  OneOwner(s)'
BY DEF PeerViewInv, OneOwner, PeerViewTypeOK, Ids

(* Central's entry of an id has changed.                                   *)
Changed(k, p) ==
  /\ storages' \in Snapshots
  /\ announced' \in [Ids -> Events \cup {None}]
  /\ storages'[k].peer = p /\ storages'[k].ver = storages[k].ver + 1
  /\ announced'[k] = [id |-> k, entry |-> storages'[k]] /\ announced'[k] # None
  /\ \A s \in Ids : s # k => storages'[s] = storages[s] /\ announced'[s] = announced[s]

LEMMA ChangeFacts ==
  ASSUME PeerViewInv, NEW k \in Ids, NEW p \in Peers \cup {None}, Change(k, p)
  PROVE  Changed(k, p)
<1> USE PeerViewAssumption
<1>0. storages \in Snapshots /\ announced \in [Ids -> Events \cup {None}]
  BY DEF PeerViewInv, PeerViewTypeOK
<1>1. [peer |-> p, ver |-> storages[k].ver + 1] \in Entries
  BY <1>0 DEF Snapshots, Entries
<1>2. \A x \in Entries : [id |-> k, entry |-> x] \in Events
  BY DEF Events
<1> QED BY <1>0, <1>1, <1>2 DEF Change, Changed, Snapshots

(* Every entry there was is then older, and the new one is announced.      *)
LEMMA ChangeTold ==
  ASSUME PeerViewInv, NEW k \in Ids, NEW p \in Peers \cup {None}, Change(k, p),
         UNCHANGED clientVars, NEW s \in Ids
  PROVE  EntriesOlder(s)' /\ NewestTold(s)'
<1>0. PeerViewTypeOK /\ LinkState /\ EntriesOlder(s) /\ NewestTold(s) /\ Changed(k, p)
  BY ChangeFacts DEF PeerViewInv
<1>1. CASE s = k
  <2>1. EntriesOlder(s)'
    <3>1. storages[s].ver \in Nat /\ storages'[s].ver = storages[s].ver + 1
      BY <1>0, <1>1 DEF Changed, PeerViewTypeOK, Snapshots, Entries
    <3>2. \A x \in Entries : Older(x, s) => Older(x, s)'
      BY <3>1 DEF Older, Entries
    <3>3. /\ view[s] \in Entries /\ seen[s] \in Nat
          /\ \A e \in events : e.entry \in Entries
          /\ status # None => status[s] \in Entries
          /\ (answer # None /\ answer.snapshot # None) => answer.snapshot[s] \in Entries
      BY <1>0 DEF PeerViewTypeOK, Snapshots, Events, Answers
    <3> QED BY <1>0, <1>1, <3>1, <3>2, <3>3 DEF Changed, clientVars, EntriesOlder
  <2>2. Pending(s)'
    BY <1>0, <1>1 DEF Changed, Pending
  <2> QED BY <2>1, <2>2 DEF NewestTold
<1>2. CASE s # k
  <2>1. storages'[s] = storages[s] /\ announced'[s] = announced[s]
    BY <1>0, <1>2 DEF Changed
  <2> QED BY <1>0, <2>1 DEF clientVars, EntriesOlder, Older, NewestTold, Pending
<1> QED BY <1>1, <1>2

(* The id is new: nobody has heard of it.                                  *)
LEMMA RegisterStorageInv ==
  ASSUME PeerViewInv, NEW k \in Servers, RegisterStorage(k) PROVE PeerViewInv'
<1> USE PeerViewAssumption DEF RegisterStorage, FreshId
<1> DEFINE p == [server |-> k, addr |-> addr[k]]
<1>0. PeerViewTypeOK /\ LinkState /\ next_id \in Ids /\ p \in Peers /\ OneOwner(next_id)
  BY DEF PeerViewInv, PeerViewTypeOK, Peers
<1>a. Change(next_id, p) /\ UNCHANGED clientVars
  OBVIOUS
<1>b. Changed(next_id, p)
  BY <1>0, <1>a, ChangeFacts
<1> HIDE DEF p
<1>1. PeerViewTypeOK'
  BY <1>0, <1>b DEF Changed, PeerViewTypeOK, clientVars, bounds
<1>2. LinkState'
  BY <1>0 DEF LinkState, Listening, clientVars, bounds
<1>3. ASSUME NEW s \in Ids PROVE EntriesOlder(s)' /\ NewestTold(s)'
  BY <1>0, <1>a, ChangeTold
<1>4. ASSUME NEW s \in Ids PROVE OneOwner(s)'
  <2>1. CASE s = next_id
    <3>1. \A m \in Servers : ~Mentions(s, m)
      BY <1>0, <2>1 DEF OneOwner, PeerViewTypeOK
    <3>2. \A m \in Servers : Mentions(s, m)' => m = k
      BY <1>0, <1>b, <2>1, <3>1 DEF Changed, Mentions, Says, clientVars, bounds, p
    <3> QED BY <1>0, <2>1, <3>2 DEF OneOwner, PeerViewTypeOK
  <2>2. CASE s # next_id
    <3>1. \A m \in Servers : Mentions(s, m)' => Mentions(s, m)
      BY <1>0, <1>b, <2>2 DEF Changed, Mentions, Says, clientVars, bounds
    <3> QED BY <1>0, <3>1, NothingNew DEF PeerViewTypeOK
  <2> QED BY <2>1, <2>2
<1>5. ASSUME NEW s \in Ids PROVE SessionLeads(s)'
  BY DEF PeerViewInv, SessionLeads, clientVars
<1>6. ASSUME NEW m \in Servers PROVE RegisteredAs(m)'
  <2>1. CASE m = k
    BY <1>0, <1>b, <2>1 DEF Changed, RegisteredAs, PeerViewTypeOK, Ids, p
  <2>2. CASE m # k
    <3>1. RegisteredAs(m) /\ reg'[m] = reg[m] /\ reg[m] \in Ids \cup {0}
      BY <2>2 DEF PeerViewInv, PeerViewTypeOK
    <3>2. reg[m] # next_id
      BY <1>0, <3>1 DEF RegisteredAs, OneOwner, Mentions, Says, PeerViewTypeOK
    <3> QED BY <1>0, <1>b, <3>1, <3>2 DEF Changed, RegisteredAs
  <2> QED BY <2>1, <2>2
<1> QED BY <1>1, <1>2, <1>3, <1>4, <1>5, <1>6 DEF PeerViewInv

(* The entry of an id keeps its server.                                    *)
LEMMA UpdateEndpointInv ==
  ASSUME PeerViewInv, NEW k \in Servers, UpdateEndpoint(k) PROVE PeerViewInv'
<1> USE PeerViewAssumption DEF UpdateEndpoint
<1> DEFINE p == [server |-> k, addr |-> addr[k]]
<1>0. /\ PeerViewTypeOK /\ LinkState /\ reg[k] \in Ids /\ p \in Peers /\ RegisteredAs(k)
      /\ Says(storages[reg[k]], k)
  BY DEF PeerViewInv, PeerViewTypeOK, Peers, RegisteredAs, Says
<1>a. Change(reg[k], p) /\ UNCHANGED clientVars
  OBVIOUS
<1>b. Changed(reg[k], p)
  BY <1>0, <1>a, ChangeFacts
<1> HIDE DEF p
<1>1. PeerViewTypeOK'
  BY <1>0, <1>b DEF Changed, PeerViewTypeOK, clientVars, serverVars, bounds
<1>2. LinkState'
  BY <1>0 DEF LinkState, Listening, clientVars, bounds
<1>3. ASSUME NEW s \in Ids PROVE EntriesOlder(s)' /\ NewestTold(s)'
  BY <1>0, <1>a, ChangeTold
<1>4. ASSUME NEW s \in Ids PROVE OneOwner(s)'
  <2>1. \A m \in Servers : Mentions(s, m)' => Mentions(s, m)
    BY <1>0, <1>b DEF Changed, Mentions, Says, clientVars, bounds, p
  <2> QED BY <1>0, <2>1, NothingNew DEF PeerViewTypeOK
<1>5. ASSUME NEW s \in Ids PROVE SessionLeads(s)'
  BY DEF PeerViewInv, SessionLeads, clientVars
<1>6. ASSUME NEW m \in Servers PROVE RegisteredAs(m)'
  <2>1. RegisteredAs(m) /\ reg' = reg /\ reg[m] \in Ids \cup {0}
    BY DEF PeerViewInv, PeerViewTypeOK, serverVars
  <2>2. CASE reg[m] = reg[k]
    BY <1>0, <1>b, <2>1, <2>2 DEF Changed, RegisteredAs, p
  <2>3. CASE reg[m] # reg[k]
    BY <1>0, <1>b, <2>1, <2>3 DEF Changed, RegisteredAs
  <2> QED BY <2>2, <2>3
<1> QED BY <1>1, <1>2, <1>3, <1>4, <1>5, <1>6 DEF PeerViewInv

(* Nobody is registered under the id that is removed.                      *)
LEMMA UnregisterStorageInv ==
  ASSUME PeerViewInv, NEW k \in Ids, UnregisterStorage(k) PROVE PeerViewInv'
<1> USE PeerViewAssumption DEF UnregisterStorage
<1>0. PeerViewTypeOK /\ LinkState /\ Change(k, None) /\ UNCHANGED clientVars
  BY DEF PeerViewInv
<1>b. Changed(k, None)
  BY <1>0, ChangeFacts
<1>1. PeerViewTypeOK'
  BY <1>0, <1>b DEF Changed, PeerViewTypeOK, clientVars, serverVars, bounds
<1>2. LinkState'
  BY <1>0 DEF LinkState, Listening, clientVars, bounds
<1>3. ASSUME NEW s \in Ids PROVE EntriesOlder(s)' /\ NewestTold(s)'
  BY <1>0, ChangeTold
<1>4. ASSUME NEW s \in Ids PROVE OneOwner(s)'
  <2>1. \A m \in Servers : Mentions(s, m)' => Mentions(s, m)
    BY <1>0, <1>b DEF Changed, Mentions, Says, clientVars, bounds
  <2> QED BY <1>0, <2>1, NothingNew DEF PeerViewTypeOK
<1>5. ASSUME NEW s \in Ids PROVE SessionLeads(s)'
  BY DEF PeerViewInv, SessionLeads, clientVars
<1>6. ASSUME NEW m \in Servers PROVE RegisteredAs(m)'
  <2>1. RegisteredAs(m) /\ reg' = reg /\ reg[m] \in Ids \cup {0}
    BY DEF PeerViewInv, PeerViewTypeOK, serverVars
  <2>2. reg[m] # k
    BY <2>1, <1>0 DEF RegisteredAs, PeerViewTypeOK, Ids
  <2> QED BY <1>b, <2>1, <2>2 DEF Changed, RegisteredAs
<1> QED BY <1>1, <1>2, <1>3, <1>4, <1>5, <1>6 DEF PeerViewInv

(* What was announced is on its way to a client that is listening.         *)
LEMMA BroadcastInv ==
  ASSUME PeerViewInv, NEW k \in Ids, Broadcast(k) PROVE PeerViewInv'
<1> USE PeerViewAssumption DEF Broadcast, serverVars, bounds
<1>0. PeerViewTypeOK /\ LinkState /\ EntriesOlder(k)
  BY DEF PeerViewInv
<1>a. announced[k] \in Events /\ announced[k].id = k /\ announced[k].entry = storages[k]
  BY <1>0 DEF PeerViewTypeOK, EntriesOlder
<1>1. PeerViewTypeOK'
  BY <1>0, <1>a DEF PeerViewTypeOK
<1>2. LinkState'
  BY <1>0 DEF LinkState, Listening
<1>3. ASSUME NEW s \in Ids PROVE EntriesOlder(s)'
  BY <1>0, <1>a DEF PeerViewInv, PeerViewTypeOK, EntriesOlder, Older, Snapshots, Entries
<1>4. ASSUME NEW s \in Ids PROVE NewestTold(s)'
  BY <1>0, <1>a DEF PeerViewInv, PeerViewTypeOK, NewestTold, Pending, Listening
<1>5. ASSUME NEW s \in Ids PROVE OneOwner(s)'
  <2>1. \A m \in Servers : Mentions(s, m)' => Mentions(s, m)
    BY <1>0, <1>a DEF Mentions, Says
  <2> QED BY <1>0, <2>1, NothingNew DEF PeerViewTypeOK
<1>6. ASSUME NEW s \in Ids PROVE SessionLeads(s)'
  BY DEF PeerViewInv, SessionLeads
<1>7. ASSUME NEW m \in Servers PROVE RegisteredAs(m)'
  BY DEF PeerViewInv, RegisteredAs
<1> QED BY <1>1, <1>2, <1>3, <1>4, <1>5, <1>6, <1>7 DEF PeerViewInv

-----------------------------------------------------------------------------
(* Steps that take something from the client's connection, or change what  *)
(* no entry says.                                                          *)
LEMMA QuietInv ==
  ASSUME PeerViewInv,
         \/ Dial \/ StatusLost \/ BreakClient
         \/ \E k \in Ids : UnregisterClient(k)
         \/ \E k \in Servers : BreakStorage(k) \/ \E a \in Addrs : Move(k, a)
         \/ UNCHANGED vars
  PROVE  PeerViewInv'
<1> USE PeerViewAssumption DEF Dial, StatusLost, BreakClient, CutOff, UnregisterClient,
        BreakStorage, Move, Fault, vars, centralVars, serverVars, clientVars, bounds
<1>0. PeerViewTypeOK /\ LinkState
  BY DEF PeerViewInv
<1>a. /\ UNCHANGED <<next_id, storages, announced, era, view, seen, sessions, restarts>>
      /\ events' \subseteq events /\ status' \in {status, None} /\ answer' \in {answer, None}
      /\ link' \in {"answered", "up"} =>
           UNCHANGED <<link, events, answer>>
  BY <1>0 DEF LinkState
<1>1. PeerViewTypeOK'
  <2>1. reg' \in [Servers -> Ids \cup {0}] /\ addr' \in [Servers -> Addrs] /\ clients' \subseteq Ids
    BY <1>0 DEF PeerViewTypeOK
  <2>2. link' \in {"down", "dialling", "inserted", "answered", "up"} /\ client_id' \in Nat
        /\ faults' \in Nat
    BY <1>0 DEF PeerViewTypeOK
  <2> QED BY <1>0, <1>a, <2>1, <2>2 DEF PeerViewTypeOK
<1>2. LinkState'
  BY <1>0 DEF LinkState, Listening
<1>3. ASSUME NEW s \in Ids PROVE EntriesOlder(s)' /\ NewestTold(s)'
  BY <1>a DEF PeerViewInv, EntriesOlder, Older, NewestTold, Pending
<1>4. ASSUME NEW s \in Ids PROVE OneOwner(s)'
  <2>1. \A m \in Servers : Mentions(s, m)' => Mentions(s, m)
    BY <1>a DEF Mentions, Says
  <2> QED BY <1>0, <1>a, <2>1, NothingNew DEF PeerViewTypeOK
<1>5. ASSUME NEW s \in Ids PROVE SessionLeads(s)'
  BY <1>a DEF PeerViewInv, SessionLeads
<1>6. ASSUME NEW m \in Servers PROVE RegisteredAs(m)'
  <2>1. reg'[m] \in {reg[m], 0}
    BY <1>0 DEF PeerViewTypeOK
  <2> QED BY <1>a, <2>1 DEF PeerViewInv, RegisteredAs
<1> QED BY <1>1, <1>2, <1>3, <1>4, <1>5, <1>6 DEF PeerViewInv

(* An id is given to the client, and a snapshot is taken: what it says is  *)
(* what central has.                                                       *)
LEMMA SnapshotInv ==
  ASSUME PeerViewInv, InsertClient \/ AnswerClient \/ AskStatus
  PROVE  PeerViewInv'
<1> USE PeerViewAssumption
    DEF InsertClient, AnswerClient, AskStatus, FreshId, Fault, centralVars, serverVars, bounds
<1>0. PeerViewTypeOK /\ LinkState
  BY DEF PeerViewInv
<1>a. /\ UNCHANGED <<storages, announced, reg, addr, client_id, era, view, events, seen, sessions,
                     restarts>>
      /\ next_id' \in Nat \ {0} /\ next_id' >= next_id
      /\ status' = status \/ (link = "up" /\ status' = storages)
      /\ \/ answer' = answer /\ link' = link
         \/ answer'.snapshot = None /\ link' = "inserted" /\ status = None
         \/ answer'.snapshot = storages /\ link' = "answered" /\ status = None
  BY <1>0 DEF PeerViewTypeOK, LinkState, Answers
<1>1. PeerViewTypeOK'
  <2>1. answer' \in Answers \cup {None} /\ status' \in Snapshots \cup {None}
    BY <1>0 DEF PeerViewTypeOK, LinkState, Answers
  <2>2. clients' \subseteq Ids /\ faults' \in Nat
    BY <1>0 DEF PeerViewTypeOK
  <2> QED BY <1>0, <1>a, <2>1, <2>2 DEF PeerViewTypeOK
<1>2. LinkState'
  BY <1>0 DEF PeerViewTypeOK, LinkState, Listening, Answers
<1>3. ASSUME NEW s \in Ids PROVE EntriesOlder(s)'
  <2>1. Older(storages[s], s)
    BY <1>0 DEF Older, PeerViewTypeOK, Snapshots, Entries
  <2> QED BY <1>0, <1>a, <2>1 DEF PeerViewInv, LinkState, EntriesOlder, Older
<1>4. ASSUME NEW s \in Ids PROVE NewestTold(s)'
  BY <1>0, <1>a DEF PeerViewInv, NewestTold, Pending
<1>5. ASSUME NEW s \in Ids PROVE OneOwner(s)'
  <2>1. \A m \in Servers : Mentions(s, m)' => Mentions(s, m)
    BY <1>0, <1>a DEF Mentions, Says
  <2> QED BY <1>0, <1>a, <2>1, NothingNew DEF PeerViewTypeOK
<1>6. ASSUME NEW s \in Ids PROVE SessionLeads(s)'
  BY <1>a DEF PeerViewInv, SessionLeads
<1>7. ASSUME NEW m \in Servers PROVE RegisteredAs(m)'
  BY <1>a DEF PeerViewInv, RegisteredAs
<1> QED BY <1>1, <1>2, <1>3, <1>4, <1>5, <1>6, <1>7 DEF PeerViewInv

(* The client replaces its list by the snapshot of its registration, or by *)
(* the one of a status request.                                            *)
LEMMA ReplaceInv ==
  ASSUME PeerViewInv, Registered \/ SetPeers
  PROVE  PeerViewInv'
<1> USE PeerViewAssumption DEF Registered, SetPeers, centralVars, serverVars, bounds
<1>0. PeerViewTypeOK /\ LinkState
  BY DEF PeerViewInv
<1>a. PICK snap \in Snapshots :
        /\ view' = snap /\ seen' = Newest(snap)
        /\ \/ Registered /\ answer # None /\ answer.snapshot # None /\ snap = answer.snapshot
           \/ SetPeers /\ status # None /\ snap = status
  BY <1>0 DEF PeerViewTypeOK, LinkState, Answers
<1>b. /\ UNCHANGED <<next_id, storages, announced, reg, events, sessions, restarts>>
      /\ link' = "up" /\ era' = restarts
      /\ status' \in {status, None} /\ answer' = None
  BY <1>0, <1>a DEF LinkState
<1>1. PeerViewTypeOK'
  <2>1. \A s \in Ids : snap[s].ver \in Nat
    BY <1>a DEF Snapshots, Entries
  <2>2. seen' \in [Ids -> Nat]
    BY <1>0, <1>a, <2>1 DEF Newest, PeerViewTypeOK
  <2>3. client_id' \in Nat
    <3>1. answer # None => answer.id \in Nat
      BY <1>0 DEF PeerViewTypeOK, Answers, Ids
    <3> QED BY <1>0, <1>a, <3>1 DEF PeerViewTypeOK
  <2> QED BY <1>0, <1>a, <1>b, <2>2, <2>3 DEF PeerViewTypeOK
<1>2. LinkState'
  BY <1>0, <1>b DEF PeerViewTypeOK, LinkState, Listening
<1>3. ASSUME NEW s \in Ids PROVE EntriesOlder(s)' /\ NewestTold(s)'
  <2>0. EntriesOlder(s) /\ NewestTold(s)
    BY DEF PeerViewInv
  <2>1. /\ Older(snap[s], s) /\ snap[s] \in Entries /\ storages[s] \in Entries /\ seen[s] \in Nat
        /\ seen'[s] = IF snap[s].ver > seen[s] THEN snap[s].ver ELSE seen[s]
    BY <1>0, <1>a, <2>0 DEF EntriesOlder, Newest, PeerViewTypeOK, Snapshots
  <2>2. EntriesOlder(s)'
    BY <1>a, <1>b, <2>0, <2>1 DEF EntriesOlder, Older, Entries
  <2>3. Pending(s)' <=> Pending(s)
    BY <1>b DEF Pending
  <2>4. Pending(s) \/ seen'[s] = storages[s].ver
    BY <1>0, <1>a, <2>0, <2>1 DEF NewestTold, EntriesOlder, Older, LinkState, Entries
  <2> QED BY <1>b, <2>2, <2>3, <2>4 DEF NewestTold
<1>4. ASSUME NEW s \in Ids, NEW m \in Servers, Mentions(s, m)' PROVE Mentions(s, m)
  BY <1>a, <1>b, <1>4 DEF Mentions, Says
<1>5. ASSUME NEW s \in Ids PROVE OneOwner(s)'
  BY <1>0, <1>b, <1>4, NothingNew DEF PeerViewTypeOK
<1>6. ASSUME NEW s \in Ids PROVE SessionLeads(s)'
  <2>0. SessionLeads(s) /\ OneOwner(s) /\ view'[s] \in Entries /\ sessions[s] \in Sessions \cup {None}
    BY <1>0, <1>a DEF PeerViewInv, PeerViewTypeOK, Snapshots
  <2>1. ASSUME sessions[s] # None, sessions[s].since = restarts, sessions[s].server # None,
               view'[s].peer # None
        PROVE  sessions[s].server = view'[s].peer.server
    <3>1. sessions[s].server \in Servers /\ view'[s].peer.server \in Servers
      BY <2>0, <2>1 DEF Sessions, Entries, Peers
    <3>2. Mentions(s, sessions[s].server) /\ Mentions(s, view'[s].peer.server)
      BY <1>a, <2>1 DEF Mentions, Says
    <3> QED BY <2>0, <3>1, <3>2 DEF OneOwner
  <2>2. sessions[s] # None => sessions[s].since <= restarts
    BY <1>0, <2>0 DEF SessionLeads, LinkState, PeerViewTypeOK, Sessions
  <2> QED BY <1>b, <2>0, <2>1, <2>2 DEF SessionLeads
<1>7. ASSUME NEW m \in Servers PROVE RegisteredAs(m)'
  BY <1>b DEF PeerViewInv, RegisteredAs
<1> QED BY <1>1, <1>2, <1>3, <1>5, <1>6, <1>7 DEF PeerViewInv

(* An event replaces one entry of the list.                                *)
LEMMA ApplyEventInv ==
  ASSUME PeerViewInv, NEW e \in events, ApplyEvent(e)
  PROVE  PeerViewInv'
<1> USE PeerViewAssumption DEF ApplyEvent, Applied, centralVars, serverVars, bounds
<1>0. PeerViewTypeOK /\ LinkState /\ link = "up" /\ era = restarts
      /\ e \in Events /\ e.id \in Ids /\ e.entry \in Entries /\ e.entry.ver \in Nat
  BY DEF PeerViewInv, PeerViewTypeOK, LinkState, Events, Entries
<1>a. /\ \A s \in Ids : view'[s] = IF s = e.id THEN e.entry ELSE view[s]
      /\ \A s \in Ids : seen'[s] = IF s = e.id /\ e.entry.ver > seen[s] THEN e.entry.ver ELSE seen[s]
  BY <1>0 DEF PeerViewTypeOK, Snapshots
<1>1. PeerViewTypeOK'
  BY <1>0 DEF PeerViewTypeOK, Snapshots
<1>2. LinkState'
  BY <1>0 DEF LinkState, Listening
<1>3. ASSUME NEW s \in Ids PROVE EntriesOlder(s)' /\ NewestTold(s)'
  <2>0. /\ EntriesOlder(s) /\ NewestTold(s) /\ seen[s] \in Nat
        /\ storages[s] \in Entries /\ view[s] \in Entries
    BY <1>0 DEF PeerViewInv, PeerViewTypeOK, Snapshots
  <2>1. EntriesOlder(s)'
    BY <1>0, <1>a, <2>0 DEF EntriesOlder, Older, Entries
  <2>2. Pending(s) => Pending(s)' \/ (s = e.id /\ e.entry = storages[s])
    BY DEF Pending
  <2> QED BY <1>0, <1>a, <2>0, <2>1, <2>2 DEF NewestTold, EntriesOlder, Older, Entries
<1>4. ASSUME NEW s \in Ids, NEW m \in Servers, Mentions(s, m)' PROVE Mentions(s, m)
  BY <1>0, <1>a, <1>4 DEF Mentions, Says
<1>5. ASSUME NEW s \in Ids PROVE OneOwner(s)'
  BY <1>0, <1>4, NothingNew DEF PeerViewTypeOK
<1>6. ASSUME NEW s \in Ids PROVE SessionLeads(s)'
  <2>0. SessionLeads(s) /\ OneOwner(s) /\ sessions[s] \in Sessions \cup {None}
    BY <1>0 DEF PeerViewInv, PeerViewTypeOK
  <2>1. ASSUME sessions[s] # None, sessions[s].since = restarts, sessions[s].server # None,
               s = e.id, e.entry.peer # None
        PROVE  sessions[s].server = e.entry.peer.server
    <3>1. sessions[s].server \in Servers /\ e.entry.peer.server \in Servers
      BY <1>0, <2>0, <2>1 DEF Sessions, Entries, Peers
    <3>2. Mentions(s, sessions[s].server) /\ Mentions(s, e.entry.peer.server)
      BY <2>1 DEF Mentions, Says
    <3> QED BY <2>0, <3>1, <3>2 DEF OneOwner
  <2> QED BY <1>0, <1>a, <2>0, <2>1 DEF SessionLeads
<1>7. ASSUME NEW m \in Servers PROVE RegisteredAs(m)'
  BY DEF PeerViewInv, RegisteredAs
<1> QED BY <1>1, <1>2, <1>3, <1>5, <1>6, <1>7 DEF PeerViewInv

(* Steps of a session: it is dialled at the server the list names.         *)
LEMMA SessionInv ==
  ASSUME PeerViewInv, NEW k \in Ids,
         MakeSession(k) \/ DialStorage(k) \/ Authenticate(k) \/ BreakData(k)
  PROVE  PeerViewInv'
<1> USE PeerViewAssumption DEF Fault, centralVars, serverVars, clientVars, bounds
<1>0. PeerViewTypeOK /\ LinkState /\ sessions[k] \in Sessions \cup {None} /\ view[k] \in Entries
  BY DEF PeerViewInv, PeerViewTypeOK, Snapshots
<1>a. /\ UNCHANGED <<centralVars, serverVars, clientVars, restarts>> /\ faults' \in Nat
      /\ \A s \in Ids : s # k => sessions'[s] = sessions[s]
      /\ sessions' \in [Ids -> Sessions \cup {None}] /\ sessions'[k] # None
      /\ \/ sessions'[k].since = era /\ sessions'[k].server = None /\ sessions'[k].conn = "closed"
         \/ /\ sessions[k] # None /\ sessions'[k].since = sessions[k].since
            /\ sessions'[k].server = view[k].peer.server /\ view[k].peer \in Peers
         \/ /\ sessions[k] # None /\ sessions'[k].since = sessions[k].since
            /\ sessions'[k].server = sessions[k].server
            /\ sessions'[k].conn # "closed" => sessions[k].conn # "closed"
  <2>1. CASE MakeSession(k)
    BY <1>0, <2>1 DEF MakeSession, PeerViewTypeOK, Sessions
  <2>2. CASE DialStorage(k)
    <3>1. view[k].peer \in Peers /\ view[k].peer.server \in Servers
      BY <1>0, <2>2 DEF DialStorage, Entries, Peers
    <3> QED BY <1>0, <2>2, <3>1 DEF DialStorage, PeerViewTypeOK, Sessions
  <2>3. CASE Authenticate(k)
    BY <1>0, <2>3 DEF Authenticate, PeerViewTypeOK, Sessions
  <2>4. CASE BreakData(k)
    BY <1>0, <2>4 DEF BreakData, PeerViewTypeOK, Sessions
  <2> QED BY <2>1, <2>2, <2>3, <2>4
<1>1. PeerViewTypeOK'
  BY <1>0, <1>a DEF PeerViewTypeOK
<1>2. LinkState'
  BY <1>0, <1>a DEF LinkState, Listening
<1>3. ASSUME NEW s \in Ids PROVE EntriesOlder(s)' /\ NewestTold(s)'
  BY <1>a DEF PeerViewInv, EntriesOlder, Older, NewestTold, Pending
<1>4. ASSUME NEW s \in Ids, NEW m \in Servers, Mentions(s, m)' PROVE Mentions(s, m)
  <2>0. SessionLeads(k) /\ era <= restarts /\ era \in Nat /\ restarts \in Nat
    BY <1>0 DEF PeerViewInv, LinkState, PeerViewTypeOK
  <2>1. CASE s # k
    BY <1>a, <1>4, <2>1 DEF Mentions, Says
  <2>2. CASE s = k /\ sessions'[k].since = restarts /\ sessions'[k].server = m
    <3>1. sessions[k] # None /\ sessions[k].since = restarts
      BY <1>a, <2>2 DEF Sessions
    <3>2. era = restarts
      BY <1>0, <2>0, <3>1 DEF SessionLeads, Sessions
    <3> QED BY <1>a, <2>2, <3>1, <3>2 DEF Mentions, Says, Peers
  <2>3. CASE s = k /\ ~(sessions'[k].since = restarts /\ sessions'[k].server = m)
    BY <1>a, <1>4, <2>3 DEF Mentions, Says
  <2> QED BY <2>1, <2>2, <2>3
<1>5. ASSUME NEW s \in Ids PROVE OneOwner(s)'
  BY <1>0, <1>a, <1>4, NothingNew DEF PeerViewTypeOK
<1>6. ASSUME NEW s \in Ids PROVE SessionLeads(s)'
  BY <1>0, <1>a DEF PeerViewInv, PeerViewTypeOK, SessionLeads, Sessions, Peers
<1>7. ASSUME NEW m \in Servers PROVE RegisteredAs(m)'
  BY <1>a DEF PeerViewInv, RegisteredAs
<1> QED BY <1>1, <1>2, <1>3, <1>5, <1>6, <1>7 DEF PeerViewInv

(* Central starts again: whatever is left is of an earlier one.            *)
LEMMA RestartCentralInv == ASSUME PeerViewInv, RestartCentral PROVE PeerViewInv'
<1> USE PeerViewAssumption DEF RestartCentral, CutOff, Fault
<1>0. PeerViewTypeOK /\ LinkState /\ restarts' = restarts + 1
  BY DEF PeerViewInv
<1>a. ASSUME NEW s \in Ids
      PROVE  /\ storages'[s] \in Entries /\ storages'[s].peer = None
             /\ \/ storages'[s] = storages[s]
                \/ storages'[s].ver = storages[s].ver + 1
  BY <1>0 DEF PeerViewTypeOK, Snapshots, Entries
<1>1. PeerViewTypeOK'
  <2>1. storages' \in Snapshots
    BY <1>a DEF Snapshots
  <2>2. next_id' \in Nat \ {0} /\ restarts' \in Nat /\ faults' \in Nat
    BY <1>0 DEF PeerViewTypeOK
  <2> QED BY <1>0, <2>1, <2>2 DEF PeerViewTypeOK
<1>2. LinkState'
  BY <1>0 DEF LinkState, PeerViewTypeOK
<1>3. ASSUME NEW s \in Ids PROVE EntriesOlder(s)' /\ NewestTold(s)'
  <2>1. EntriesOlder(s) /\ view[s] \in Entries /\ storages[s] \in Entries /\ seen[s] \in Nat
    BY <1>0 DEF PeerViewInv, PeerViewTypeOK, Snapshots
  <2> QED BY <1>a, <2>1 DEF EntriesOlder, Older, NewestTold, Entries
<1>4. ASSUME NEW s \in Ids PROVE OneOwner(s)' /\ SessionLeads(s)'
  <2>0. SessionLeads(s) /\ era \in Nat /\ restarts \in Nat /\ era <= restarts
        /\ sessions[s] \in Sessions \cup {None}
    BY <1>0 DEF PeerViewInv, LinkState, PeerViewTypeOK
  <2>1. era # restarts' /\ (sessions[s] # None => sessions[s].since # restarts')
    BY <1>0, <2>0 DEF SessionLeads, Sessions
  <2>2. \A m \in Servers : ~Mentions(s, m)'
    BY <1>a, <2>1 DEF Mentions, Says
  <2> QED BY <2>0, <2>2 DEF OneOwner, SessionLeads
<1>5. ASSUME NEW m \in Servers PROVE RegisteredAs(m)'
  BY DEF RegisteredAs
<1> QED BY <1>1, <1>2, <1>3, <1>4, <1>5 DEF PeerViewInv

LEMMA PeerViewStepInv == PeerViewInv /\ [PeerViewNext]_vars => PeerViewInv'
<1> SUFFICES ASSUME PeerViewInv, [PeerViewNext]_vars PROVE PeerViewInv'
  OBVIOUS
<1>1. ASSUME NEW m \in Servers, ServerStep(m) PROVE PeerViewInv'
  BY <1>1, RegisterStorageInv, UpdateEndpointInv DEF ServerStep
<1>2. ASSUME NEW s \in Ids, CentralStep(s) PROVE PeerViewInv'
  BY <1>2, UnregisterStorageInv, BroadcastInv, QuietInv DEF CentralStep
<1>3. ASSUME NEW s \in Ids, MakeSession(s) \/ SessionStep(s) PROVE PeerViewInv'
  BY <1>3, SessionInv DEF SessionStep
<1>4. ASSUME ClientStep \/ AskStatus PROVE PeerViewInv'
  BY <1>4, QuietInv, SnapshotInv, ReplaceInv DEF ClientStep
<1>5. ASSUME StatusStep \/ EventStep PROVE PeerViewInv'
  BY <1>5, QuietInv, ReplaceInv, ApplyEventInv DEF StatusStep, EventStep
<1>6. ASSUME Faults PROVE PeerViewInv'
  BY <1>6, QuietInv, SessionInv, RestartCentralInv DEF Faults
<1>7. ASSUME UNCHANGED vars PROVE PeerViewInv'
  BY <1>7, QuietInv
<1> QED BY <1>1, <1>2, <1>3, <1>4, <1>5, <1>6, <1>7 DEF PeerViewNext

LEMMA PeerViewInvariant == PeerViewSpec => []PeerViewInv
<1>1. PeerViewInit => PeerViewInv
  BY PeerViewInitInv
<1>2. PeerViewInv /\ [PeerViewNext]_vars => PeerViewInv'
  BY PeerViewStepInv
<1> QED BY <1>1, <1>2, PTL DEF PeerViewSpec

-----------------------------------------------------------------------------
(* No change of a storage server is missed between the snapshot of a       *)
(* registration and the events that follow it, for any number of servers,  *)
(* ids and faults: register_client inserts the client before it takes the  *)
(* snapshot, and the listener keeps what came before it started.           *)
THEOREM NoChangeMissed == PeerViewSpec => []PeersTold
<1>1. PeerViewInv => PeersTold
  BY DEF PeerViewInv, NewestTold, PeersTold
<1> QED BY <1>1, PeerViewInvariant, PTL

(* The client's list is right about an id when nothing is on its way,      *)
(* unless an older event or snapshot was applied after a newer one.        *)
THEOREM ListRight == PeerViewSpec => []ViewRight
<1>1. PeerViewInv => ViewRight
  <2> SUFFICES ASSUME PeerViewInv, link = "up", NEW s \in Ids, ~Pending(s), ~Overtaken(s)
               PROVE  view[s] = storages[s]
    BY DEF ViewRight
  <2>1. seen[s] = storages[s].ver /\ EntriesOlder(s)
    BY DEF PeerViewInv, NewestTold
  <2>2. view[s].ver \in Nat /\ seen[s] \in Nat
    BY DEF PeerViewInv, PeerViewTypeOK, Snapshots, Entries
  <2> QED BY <2>1, <2>2 DEF Overtaken, EntriesOlder, Older
<1> QED BY <1>1, PeerViewInvariant, PTL

(* An open session leads to the server that the client's list has under    *)
(* its id, unless central was restarted in between: an id is never given   *)
(* to a second server while central runs.                                  *)
THEOREM SessionsLead == PeerViewSpec => []SessionsRouted
<1>1. PeerViewInv => SessionsRouted
  BY DEF PeerViewInv, SessionLeads, SessionsRouted
<1> QED BY <1>1, PeerViewInvariant, PTL
=============================================================================
