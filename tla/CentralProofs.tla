---------------------------- MODULE CentralProofs ----------------------------
(***************************************************************************)
(* The central server's tables, for every set of paths, volumes, bundles   *)
(* and connections, every bound and every drift of the clocks: leases      *)
(* protect their files, paths stay right and read plans cover their files, *)
(* the change log replays, a lease a client was given is held by the       *)
(* storage server, and the whole implements FileStore.                     *)
(*                                                                         *)
(* None of these is inductive alone.  They need that ids are not used      *)
(* twice, that what is on its way to a storage server belongs to a lease   *)
(* id given before, and that a file that has bytes has a Created event.    *)
(***************************************************************************)
EXTENDS Central, WellFoundedInduction, TLAPS

(* Ids from next_file on have no file, lease or event.                     *)
FilesFresh ==
  /\ \A f \in FileIds : f >= next_file => files[f] = None
  /\ \A i \in DOMAIN log : log[i].file < next_file

LeasesFresh == \A l \in LeaseIds : l >= next_lease => leases[l] = None

(* The length all reports of a bundle agree on, if they do.                *)
AgreedLen(b) == CHOOSE n \in Reports[b] \ {0} : TRUE
AgreedSize(list) == SumFunction([i \in 1 .. Len(list) |-> AgreedLen(list[i])])

(* What a file holds was submitted by a client, and its size is what the   *)
(* undisputed bundles add up to.                                           *)
RowSound(list, size) ==
  /\ list \in BundleLists \cup {<<>>}
  /\ Undisputed(list) => size = AgreedSize(list)
RowsSound ==
  \A f \in FileIds : files[f] # None => RowSound(files[f].bundles, files[f].size)

(* A row of bundle_replicas has a length that was reported.                *)
ReplicasSound ==
  \A b \in BundleIds, v \in Volumes : replicas[<<b, v>>] \in Reports[b] \cup {0}

(* A file that has bytes was Created in the log.                           *)
CreatedLogged ==
  \A f \in FileIds : (files[f] # None /\ files[f].size > 0) =>
    \E i \in DOMAIN log : log[i].file = f /\ log[i].kind = "Created"

(* The storage server holds the lease, or central need not care.           *)
Held(l) == Usable(l) => granted[l] # None \/ leases[l].lost

(* A grant carries the expiry and the volume of its lease, if that exists. *)
Fits(grant, row) ==
  row # None => grant.expires = row.expires /\ grant.volume = row.volume

(* Grants, on their way or taken, fit their leases; a lease that is being  *)
(* revoked is gone; known and confirmed ones are held.                     *)
GrantsSound ==
  /\ \A l \in LeaseIds : granted[l] # None =>
       l < next_lease /\ Fits(granted[l], leases[l])
  /\ \A msg \in sent : msg[1] < next_lease /\ Fits(msg[2], leases[msg[1]])
  /\ \A l \in revoking : l < next_lease /\ leases[l] = None
  /\ \A l \in known : l < next_lease /\ Held(l)
  /\ \A c \in Connections : Confirmed(c) =>
       handler[c].lease < next_lease /\ Held(handler[c].lease)

CentralInv ==
  /\ CentralTypeOK
  /\ FilesFresh
  /\ LeasesFresh
  /\ NoLostUpdate
  /\ RowsSound
  /\ ReplicasSound
  /\ PathsFormTree
  /\ LogReplays
  /\ CreatedLogged
  /\ GrantsSound

-----------------------------------------------------------------------------
(* Numbers have a least one.                                               *)
LEMMA LeastNumber ==
  ASSUME NEW T \in SUBSET Nat, T # {}
  PROVE  \E x \in T : \A y \in T : x <= y
<1>1. PICK x \in T : \A y \in T : ~ (<<y, x>> \in OpToRel(<, Nat))
  BY NatLessThanWellFounded, WFMin
<1>2. \A y \in T : y \in Nat
  OBVIOUS
<1>3. \A y \in T : ~(y < x)
  BY <1>1, <1>2 DEF OpToRel
<1> QED
  BY <1>2, <1>3

LEMMA SumOfNone ==
  ASSUME NEW g, DOMAIN g = {}
  PROVE  SumFunction(g) = 0
<1> DEFINE P(f) == f = [s \in SUBSET {} |->
                          IF s = {} THEN 0
                          ELSE g[CHOOSE x \in s : TRUE] + f[s \ {CHOOSE x \in s : TRUE}]]
<1>1. PICK h : h = [s \in SUBSET {} |-> 0]
  OBVIOUS
<1>2. P(h)
  BY <1>1
<1>3. SumFunction(g) = (CHOOSE f : P(f))[{}]
  BY DEF SumFunction, SumFunctionOnSet, FoldFunctionOnSet, MapThenFoldSet
<1> HIDE DEF P
<1>4. P(CHOOSE f : P(f))
  BY <1>2, Zenon
<1>5. PICK k : k = (CHOOSE f : P(f)) /\ P(k)
  BY <1>4
<1>6. k[{}] = 0
  BY <1>5 DEF P
<1> QED
  BY <1>3, <1>5, <1>6

(* The first replica's length was reported.                                *)
LEMMA FirstLen ==
  ASSUME CentralTypeOK, ReplicasSound, NEW b \in BundleIds, NEW W \in SUBSET Volumes,
         \E v \in W : replicas[<<b, v>>] > 0
  PROVE  LenAmong(b, W) \in Reports[b] \ {0}
<1>1. PICK on : on = {v \in W : replicas[<<b, v>>] > 0}
  OBVIOUS
<1>2. on \in SUBSET Nat /\ on # {} /\ on \subseteq Volumes
  BY <1>1, CentralAssumption
<1>3. PICK x : x = CHOOSE v \in on : \A w \in on : v <= w
  OBVIOUS
<1>4. x \in on
  BY <1>2, <1>3, LeastNumber
<1>5. LenAmong(b, W) = replicas[<<b, x>>]
  BY <1>1, <1>2, <1>3 DEF LenAmong
<1>6. replicas[<<b, x>>] > 0 /\ replicas[<<b, x>>] \in Reports[b] \cup {0} /\ replicas[<<b, x>>] \in Nat
  BY <1>1, <1>2, <1>4 DEF ReplicasSound, CentralTypeOK
<1> QED
  BY <1>5, <1>6

(* By first replicas on any volumes, undisputed bundles add up to the same *)
(* size.                                                                   *)
LEMMA FirstReplicaSizes ==
  ASSUME CentralTypeOK, ReplicasSound, NEW list \in Seq(BundleIds), NEW W \in SUBSET Volumes,
         Undisputed(list), \A i \in 1 .. Len(list) : \E v \in W : replicas[<<list[i], v>>] > 0
  PROVE  SizeAmong(list, W) = AgreedSize(list)
<1>1. ASSUME NEW i \in 1 .. Len(list) PROVE LenAmong(list[i], W) = AgreedLen(list[i])
  <2>1. PICK b \in BundleIds : b = list[i]
    OBVIOUS
  <2>2. PICK m : m = LenAmong(b, W) /\ m \in Reports[b] \ {0}
    BY <2>1, FirstLen
  <2>3. AgreedLen(b) \in Reports[b] \ {0}
    BY <2>2 DEF AgreedLen
  <2> QED
    BY <2>1, <2>2, <2>3 DEF Undisputed
<1>2. [i \in 1 .. Len(list) |-> LenAmong(list[i], W)]
      = [i \in 1 .. Len(list) |-> AgreedLen(list[i])]
  BY <1>1
<1> QED
  BY <1>2 DEF SizeAmong, AgreedSize

(* The ids of a request's bundles, and its sizes.                          *)
LEMMA RequestFacts ==
  ASSUME NEW req \in Commits
  PROVE  /\ req.base_size \in Nat /\ req.new_size \in Nat
         /\ Len(req.bundles) \in Nat /\ DOMAIN req.bundles = 1 .. Len(req.bundles)
         /\ IdsOf(req.bundles) \in Seq(BundleIds)
         /\ IdsOf(req.bundles) \in BundleLists
         /\ Len(IdsOf(req.bundles)) = Len(req.bundles)
         /\ \A i \in 1 .. Len(req.bundles) :
              IdsOf(req.bundles)[i] = req.bundles[i].id /\ req.bundles[i].id \in BundleIds
<1>1. req \in CommitRequests
  BY CentralAssumption
<1>2. PICK s \in Seq(CommittedBundles) : s = req.bundles
  BY <1>1 DEF CommitRequests
<1>b. Len(s) \in Nat /\ DOMAIN s = 1 .. Len(s) /\ \A i \in 1 .. Len(s) : s[i] \in CommittedBundles
  OBVIOUS
<1>c. \A x \in CommittedBundles : x.id \in BundleIds
  BY DEF CommittedBundles
<1>3. Len(s) \in Nat /\ DOMAIN s = 1 .. Len(s) /\ \A i \in 1 .. Len(s) : s[i].id \in BundleIds
  BY <1>b, <1>c
<1>4. PICK ids : ids = IdsOf(s)
  OBVIOUS
<1>5. ids = [i \in 1 .. Len(s) |-> s[i].id]
  BY <1>4 DEF IdsOf
<1>6. ids \in Seq(BundleIds) /\ Len(ids) = Len(s) /\ \A i \in 1 .. Len(s) : ids[i] = s[i].id
  BY <1>3, <1>5
<1>7. IdsOf(req.bundles) \in BundleLists
  BY DEF BundleLists
<1> QED
  BY <1>1, <1>2, <1>3, <1>4, <1>6, <1>7 DEF CommitRequests

LEMMA ListsAreSequences == BundleLists \subseteq Seq(BundleIds)
BY RequestFacts DEF BundleLists

(* What commit_update checks makes the row it writes sound.                *)
LEMMA CommitSound ==
  ASSUME CentralTypeOK, ReplicasSound, NEW req \in Commits, BundlesAgree(req)
  PROVE  RowSound(IdsOf(req.bundles), req.new_size)
<1>1. PICK list \in Seq(BundleIds) : list = IdsOf(req.bundles) /\ list \in BundleLists
  BY RequestFacts
<1>a. \A i \in 1 .. Len(req.bundles) : HasReplica(req.bundles[i].id)
  BY RequestFacts DEF BundlesAgree
<1>b. /\ Len(list) = Len(req.bundles)
      /\ \A i \in 1 .. Len(req.bundles) : list[i] = req.bundles[i].id
  BY <1>1, RequestFacts
<1>2. \A i \in 1 .. Len(list) : \E v \in Volumes : replicas[<<list[i], v>>] > 0
  BY <1>a, <1>b DEF HasReplica
<1>3. Undisputed(list) => SizeAmong(list, Volumes) = AgreedSize(list)
  BY <1>2, FirstReplicaSizes
<1>4. req.new_size = SizeAmong(list, Volumes)
  BY <1>1 DEF BundlesAgree
<1> QED
  BY <1>1, <1>3, <1>4 DEF RowSound

(* The sets of rows and messages.                                          *)
LEMMA HandlerFields ==
  ASSUME NEW h \in Handlers
  PROVE  /\ h.op \in {"grant", "granted", "commit"} => h.lease \in LeaseIds
         /\ h.op \in {"delete", "copy", "rename"} => h.file \in FileIds
         /\ h.op \in {"copy", "rename"} => h.target \in Paths
BY DEF Handlers

LEMMA EventTypes ==
  ASSUME NEW f \in FileIds
  PROVE  /\ [kind |-> "Deleted", file |-> f] \in Events
         /\ \A k \in {"Created", "Updated", "Moved"}, p \in Paths :
              [kind |-> k, file |-> f, path |-> p] \in Events
BY DEF Events

LEMMA AppendFacts ==
  ASSUME NEW S, NEW s \in Seq(S), NEW e \in S, NEW t, t = Append(s, e)
  PROVE  /\ t \in Seq(S)
         /\ Len(s) \in Nat /\ DOMAIN s = 1 .. Len(s)
         /\ DOMAIN t = 1 .. Len(s) + 1
         /\ \A i \in 1 .. Len(s) : t[i] = s[i]
         /\ t[Len(s) + 1] = e
OBVIOUS

LEMMA NextIds ==
  ASSUME CentralTypeOK
  PROVE  /\ next_file \in Nat /\ next_lease \in Nat
         /\ next_file <= MaxFiles => next_file \in FileIds /\ next_file + 1 \in 1 .. MaxFiles + 1
         /\ next_lease <= MaxLeases => next_lease \in LeaseIds /\ next_lease + 1 \in 1 .. MaxLeases + 1
         /\ FileIds \subseteq Nat /\ LeaseIds \subseteq Nat
BY CentralAssumption DEF CentralTypeOK, FileIds, LeaseIds

(* A lease row and its grant, as begin_update makes them.                  *)
LEMMA StartLeaseType ==
  ASSUME CentralTypeOK, NEW c \in Connections, NEW f \in FileIds, NEW v \in Volumes,
         NEW row \in FileRows, NEW offset \in Nat, StartLease(c, f, v, row, offset)
  PROVE  /\ leases' \in [LeaseIds -> LeaseRows \cup {None}]
         /\ next_lease' \in 1 .. MaxLeases + 1
         /\ sent' \subseteq LeaseIds \X Grants
         /\ handler' \in [Connections -> Handlers \cup {None}]
<1>1. next_lease \in LeaseIds /\ next_lease + 1 \in 1 .. MaxLeases + 1
  BY NextIds DEF StartLease
<1>2. now + TTL \in Nat
  BY CentralAssumption DEF CentralTypeOK
<1>3. [file |-> f, volume |-> v, base_size |-> row.size, offset |-> offset, expires |-> now + TTL,
       over |-> row.bundles, lost |-> FALSE] \in LeaseRows
  BY <1>2 DEF LeaseRows, FileRows
<1>4. [file |-> f, volume |-> v, expires |-> now + TTL] \in Grants
  BY <1>2 DEF Grants
<1>5. [op |-> "grant", lease |-> next_lease] \in Handlers
  BY <1>1 DEF Handlers
<1>6. Unexpired \in [LeaseIds -> LeaseRows \cup {None}]
  BY DEF Unexpired, CentralTypeOK
<1>7. leases' \in [LeaseIds -> LeaseRows \cup {None}]
  BY <1>3, <1>6 DEF StartLease
<1>8. sent' \subseteq LeaseIds \X Grants
  BY <1>1, <1>4 DEF StartLease, CentralTypeOK
<1>9. handler' \in [Connections -> Handlers \cup {None}]
  BY <1>5 DEF StartLease, CentralTypeOK
<1> QED
  BY <1>1, <1>7, <1>8, <1>9 DEF StartLease

LEMMA BeginType ==
  ASSUME CentralTypeOK, NEW c \in Connections, NEW v \in Volumes, NEW offset \in Offsets,
         \/ \E f \in FileIds : BeginExisting(c, f, v, offset)
         \/ \E p \in Paths : BeginNew(c, p, v, offset)
  PROVE  CentralTypeOK'
<1>0. offset \in Nat
  BY CentralAssumption
<1>1. ASSUME NEW f \in FileIds, BeginExisting(c, f, v, offset) PROVE CentralTypeOK'
  <2>1. files[f] \in FileRows /\ StartLease(c, f, v, files[f], offset)
    BY <1>1 DEF BeginExisting, Live, CentralTypeOK
  <2> QED
    BY <1>0, <1>1, <2>1, StartLeaseType DEF BeginExisting, StartLease, CentralTypeOK
<1>2. ASSUME NEW p \in Paths, BeginNew(c, p, v, offset) PROVE CentralTypeOK'
  <2>1. next_file \in FileIds /\ next_file' \in 1 .. MaxFiles + 1
    BY <1>2, NextIds DEF BeginNew
  <2>2. [path |-> p, size |-> 0, bundles |-> <<>>] \in FileRows
    BY DEF FileRows
  <2>3. files' \in [FileIds -> FileRows \cup {None}] /\ files'[next_file] \in FileRows
    BY <1>2, <2>1, <2>2 DEF BeginNew, CentralTypeOK
  <2>4. dirs' \subseteq Paths
    BY <1>2, CentralAssumption DEF BeginNew, CentralTypeOK
  <2>5. StartLease(c, next_file, v, files'[next_file], 0)
    BY <1>2 DEF BeginNew
  <2>6. /\ leases' \in [LeaseIds -> LeaseRows \cup {None}]
        /\ next_lease' \in 1 .. MaxLeases + 1
        /\ sent' \subseteq LeaseIds \X Grants
        /\ handler' \in [Connections -> Handlers \cup {None}]
    BY <2>1, <2>3, <2>5, StartLeaseType
  <2> QED
    BY <2>1, <2>3, <2>4, <2>5, <2>6 DEF StartLease, CentralTypeOK
<1> QED
  BY <1>1, <1>2

LEMMA LeaseStepType ==
  ASSUME CentralTypeOK, NEW c \in Connections,
         \/ GrantAnswered(c) \/ GrantFailed(c) \/ BeginDropped(c) \/ Refused(c)
         \/ \E l \in LeaseIds : CommitCheck(c, l) \/ AbortUpdate(c, l)
  PROVE  CentralTypeOK'
<1>1. CASE GrantAnswered(c)
  <2>1. handler[c] \in Handlers /\ handler[c].lease \in LeaseIds
    BY <1>1, HandlerFields DEF GrantAnswered, Confirmed, Awaiting, CentralTypeOK
  <2> QED
    BY <1>1, <2>1 DEF GrantAnswered, Finish, CentralTypeOK, fileTables, leaseTables, storageSide
<1>2. CASE GrantFailed(c)
  BY <1>2 DEF GrantFailed, Finish, CentralTypeOK, fileTables, leaseTables, storageSide
<1>3. CASE BeginDropped(c)
  BY <1>3 DEF BeginDropped, Finish, CentralTypeOK, fileTables, leaseTables, storageSide
<1>4. CASE Refused(c)
  BY <1>4 DEF Refused, Finish, CentralTypeOK, fileTables, leaseTables, storageSide
<1>5. ASSUME NEW l \in LeaseIds, CommitCheck(c, l) PROVE CentralTypeOK'
  <2>1. [op |-> "commit", lease |-> l] \in Handlers
    BY DEF Handlers
  <2> QED
    BY <1>5, <2>1 DEF CommitCheck, CentralTypeOK, fileTables, leaseTables, storageSide
<1>6. ASSUME NEW l \in LeaseIds, AbortUpdate(c, l) PROVE CentralTypeOK'
  BY <1>6 DEF AbortUpdate, CentralTypeOK, fileTables
<1> QED
  BY <1>1, <1>2, <1>3, <1>4, <1>5, <1>6

LEMMA CommitType ==
  ASSUME CentralTypeOK, NEW c \in Connections, NEW req \in Commits, CommitApply(c, req)
  PROVE  CentralTypeOK'
<1>1. handler[c] \in Handlers /\ handler[c].lease \in LeaseIds
  BY HandlerFields DEF CommitApply, CentralTypeOK
<1>2. PICK l \in LeaseIds : l = handler[c].lease
  BY <1>1
<1>3. PICK f : f = leases[l].file
  OBVIOUS
<1>4. /\ leases[l] \in LeaseRows /\ f \in FileIds /\ f \in Live
      /\ files' = [files EXCEPT ![f] = NewRow(files[f], req)]
      /\ leases' = [leases EXCEPT ![l] = Spent(l)]
      /\ revoking' = revoking \cup {l}
      /\ Logged(IF files[f].size = 0 THEN "Created" ELSE "Updated", f, files[f].path)
  BY <1>2, <1>3 DEF CommitApply, Committable, Active, CentralTypeOK, LeaseRows
<1>5. files[f] \in FileRows /\ files[f].path \in Paths
  BY <1>4 DEF Live, CentralTypeOK, FileRows
<1>6. NewRow(files[f], req) \in FileRows
  BY <1>5, RequestFacts DEF NewRow, FileRows
<1>7. log' \in Seq(Events)
  <2>1. PICK k \in {"Created", "Updated"} : Logged(k, f, files[f].path)
    BY <1>4
  <2>2. PICK e \in Events : log' = Append(log, e)
    BY <1>4, <1>5, <2>1, EventTypes DEF Logged
  <2> QED
    BY <2>2, AppendFacts DEF CentralTypeOK
<1>8. files' \in [FileIds -> FileRows \cup {None}]
  BY <1>4, <1>6 DEF CentralTypeOK
<1>9. leases' \in [LeaseIds -> LeaseRows \cup {None}]
  BY <1>4 DEF CentralTypeOK, Spent
<1> QED
  BY <1>4, <1>7, <1>8, <1>9 DEF CommitApply, Finish, CentralTypeOK

LEMMA FileRequestType ==
  ASSUME CentralTypeOK, NEW c \in Connections, NEW f \in FileIds,
         \/ FileRequest(c, f, [op |-> "delete", file |-> f])
         \/ \E op \in {"copy", "rename"}, p \in Targets :
              FileRequest(c, f, [op |-> op, file |-> f, target |-> p])
  PROVE  CentralTypeOK'
<1>1. /\ [op |-> "delete", file |-> f] \in Handlers
      /\ \A op \in {"copy", "rename"}, p \in Targets :
           [op |-> op, file |-> f, target |-> p] \in Handlers
  BY CentralAssumption DEF Handlers
<1>2. PICK req \in Handlers : FileRequest(c, f, req)
  BY <1>1
<1> QED
  BY <1>2 DEF FileRequest, CentralTypeOK, fileTables, leaseTables, storageSide

LEMMA DeleteType ==
  ASSUME CentralTypeOK, NEW c \in Connections, DeleteFile(c)
  PROVE  CentralTypeOK'
<1>1. handler[c] \in Handlers /\ handler[c].file \in FileIds
  BY HandlerFields DEF DeleteFile, CentralTypeOK
<1>2. log' \in Seq(Events)
  BY <1>1, EventTypes, AppendFacts DEF DeleteFile, DeletedEvent, CentralTypeOK
<1>3. leases' \in [LeaseIds -> LeaseRows \cup {None}]
  BY DEF DeleteFile, WithoutFile, CentralTypeOK
<1>4. files' \in [FileIds -> FileRows \cup {None}]
  BY DEF DeleteFile, CentralTypeOK
<1> QED
  BY <1>2, <1>3, <1>4 DEF DeleteFile, Finish, CentralTypeOK, storageSide

LEMMA CopyType ==
  ASSUME CentralTypeOK, NEW c \in Connections, CopyFile(c)
  PROVE  CentralTypeOK'
<1>1. handler[c] \in Handlers /\ handler[c].file \in FileIds /\ handler[c].target \in Paths
  BY HandlerFields DEF CopyFile, CentralTypeOK
<1>2. next_file \in FileIds /\ next_file' \in 1 .. MaxFiles + 1
  BY NextIds DEF CopyFile
<1>3. log' \in Seq(Events)
  BY <1>1, <1>2, EventTypes, AppendFacts DEF CopyFile, Logged, CentralTypeOK
<1>4. [files[handler[c].file] EXCEPT !.path = handler[c].target] \in FileRows
  BY <1>1 DEF CopyFile, Live, CentralTypeOK, FileRows
<1>5. files' \in [FileIds -> FileRows \cup {None}]
  BY <1>2, <1>4 DEF CopyFile, CentralTypeOK
<1>6. dirs' \subseteq Paths
  BY <1>1, CentralAssumption DEF CopyFile, CentralTypeOK
<1> QED
  BY <1>2, <1>3, <1>5, <1>6 DEF CopyFile, Finish, CentralTypeOK, leaseTables, storageSide

LEMMA RenameType ==
  ASSUME CentralTypeOK, NEW c \in Connections, RenameFile(c)
  PROVE  CentralTypeOK'
<1>1. handler[c] \in Handlers /\ handler[c].file \in FileIds /\ handler[c].target \in Paths
  BY HandlerFields DEF RenameFile, CentralTypeOK
<1>2. log' \in Seq(Events)
  BY <1>1, EventTypes, AppendFacts DEF RenameFile, Logged, CentralTypeOK
<1>3. [files[handler[c].file] EXCEPT !.path = handler[c].target] \in FileRows
  BY <1>1 DEF RenameFile, Live, CentralTypeOK, FileRows
<1>4. files' \in [FileIds -> FileRows \cup {None}]
  BY <1>1, <1>3 DEF RenameFile, CentralTypeOK
<1>5. dirs' \subseteq Paths
  BY <1>1, CentralAssumption DEF RenameFile, CentralTypeOK
<1> QED
  BY <1>2, <1>4, <1>5 DEF RenameFile, Finish, CentralTypeOK, leaseTables, storageSide

LEMMA DeliveryType ==
  ASSUME CentralTypeOK, GrantDelivered \/ RevokeDelivered \/ RequestLost
  PROVE  CentralTypeOK'
<1>1. CASE GrantDelivered
  <2>1. PICK msg \in sent :
          /\ sent' = sent \ {msg}
          /\ granted' = [granted EXCEPT ![msg[1]] = msg[2]]
          /\ handler' = [c \in Connections |->
                           IF handler[c] = [op |-> "grant", lease |-> msg[1]]
                             THEN [op |-> "granted", lease |-> msg[1]] ELSE handler[c]]
          /\ UNCHANGED <<fileTables, leaseTables, replicas, now, clock, online, revoking, known>>
    BY <1>1 DEF GrantDelivered
  <2>2. msg[1] \in LeaseIds /\ msg[2] \in Grants
    BY DEF CentralTypeOK
  <2>3. [op |-> "granted", lease |-> msg[1]] \in Handlers
    BY <2>2 DEF Handlers
  <2>4. handler' \in [Connections -> Handlers \cup {None}]
    BY <2>1, <2>3 DEF CentralTypeOK
  <2> QED
    BY <2>1, <2>2, <2>4 DEF CentralTypeOK, fileTables, leaseTables
<1>2. CASE RevokeDelivered
  BY <1>2 DEF RevokeDelivered, CentralTypeOK, fileTables, leaseTables
<1>3. CASE RequestLost
  BY <1>3 DEF RequestLost, CentralTypeOK, fileTables, leaseTables
<1> QED
  BY <1>1, <1>2, <1>3

LEMMA StorageType ==
  ASSUME CentralTypeOK, StorageNext \/ Tick \/ CentralRestart \/ UNCHANGED centralVars
  PROVE  CentralTypeOK'
<1>1. ASSUME NEW v \in Volumes, NEW reported, ReportBundleReplica(v, reported),
             \A b \in DOMAIN reported : b \in BundleIds /\ reported[b] \in Reports[b]
      PROVE  CentralTypeOK'
  <2>1. \A b \in DOMAIN reported : reported[b] \in Nat
    BY <1>1, CentralAssumption
  <2>2. replicas' \in [BundleIds \X Volumes -> Nat]
    BY <1>1, <2>1 DEF ReportBundleReplica, CentralTypeOK
  <2> QED
    BY <1>1, <2>2 DEF ReportBundleReplica, CentralTypeOK, fileTables, leaseTables, storageSide
<1>2. ASSUME NEW v \in Volumes, RegisterStorage(v) \/ UnregisterStorage(v) PROVE CentralTypeOK'
  BY <1>2 DEF RegisterStorage, UnregisterStorage, CentralTypeOK, fileTables, leaseTables, storageSide
<1>3. ASSUME NEW v \in Volumes, RetainUnexpired(v) PROVE CentralTypeOK'
  BY <1>3 DEF RetainUnexpired, CentralTypeOK, fileTables, leaseTables
<1>4. ASSUME NEW v \in Volumes, StorageRestart(v) PROVE CentralTypeOK'
  <2>1. \A r \in LeaseRows : [r EXCEPT !.lost = TRUE] \in LeaseRows
    BY DEF LeaseRows
  <2>2. leases' \in [LeaseIds -> LeaseRows \cup {None}]
    BY <1>4, <2>1 DEF StorageRestart, CentralTypeOK
  <2> QED
    BY <1>4, <2>2 DEF StorageRestart, CentralTypeOK, fileTables
<1>5. CASE Tick
  BY <1>5 DEF Tick, CentralTypeOK, fileTables, leaseTables, storageSide
<1>a. ASSUME NEW v \in Volumes, StorageTick(v) PROVE CentralTypeOK'
  BY <1>a DEF StorageTick, CentralTypeOK, fileTables, leaseTables, storageSide
<1>6. CASE CentralRestart
  BY <1>6 DEF CentralRestart, CentralTypeOK, fileTables, leaseTables, storageSide
<1>7. CASE UNCHANGED centralVars
  BY <1>7 DEF centralVars, CentralTypeOK
<1> QED
  BY <1>1, <1>2, <1>3, <1>4, <1>5, <1>a, <1>6, <1>7 DEF StorageNext

LEMMA TypeStep == CentralTypeOK /\ [CentralNext]_centralVars => CentralTypeOK'
<1> SUFFICES ASSUME CentralTypeOK, [CentralNext]_centralVars PROVE CentralTypeOK'
  OBVIOUS
<1>1. CASE UpdateNext
  BY <1>1, BeginType, LeaseStepType, CommitType, DeliveryType DEF UpdateNext
<1>2. CASE FileNext
  BY <1>2, FileRequestType, DeleteType, CopyType, RenameType, LeaseStepType DEF FileNext
<1> QED
  BY <1>1, <1>2, StorageType DEF CentralNext

-----------------------------------------------------------------------------
(* What a step may do to the file tables: make, rename, rewrite or remove  *)
(* one file, with its event, or nothing.                                   *)
Made(p, row) ==
  /\ p \in Paths /\ row \in FileRows /\ row.path = p
  /\ RowSound(row.bundles, row.size)
  /\ next_file \in FileIds /\ next_file' = next_file + 1
  /\ files' = [files EXCEPT ![next_file] = row]
  /\ dirs' = dirs \cup Above[p] /\ DirsCreatable(p) /\ NameAvailable(p, None)
  /\ \/ log' = Append(log, [kind |-> "Created", file |-> next_file, path |-> p])
     \/ log' = log /\ row.size = 0

Renamed(f, p) ==
  /\ f \in FileIds /\ files[f] # None /\ p \in Paths
  /\ files' = [files EXCEPT ![f] = [files[f] EXCEPT !.path = p]]
  /\ dirs' = dirs \cup Above[p] /\ DirsCreatable(p) /\ NameAvailable(p, f)
  /\ log' = Append(log, [kind |-> "Moved", file |-> f, path |-> p])
  /\ next_file' = next_file

Rewritten(f, req) ==
  /\ f \in FileIds /\ files[f] # None /\ req \in Commits
  /\ RowSound(IdsOf(req.bundles), req.new_size)
  /\ files' = [files EXCEPT ![f] = NewRow(files[f], req)]
  /\ log' = Append(log, [kind |-> IF files[f].size = 0 THEN "Created" ELSE "Updated",
                         file |-> f, path |-> files[f].path])
  /\ UNCHANGED <<next_file, dirs>>

Removed(f) ==
  /\ f \in FileIds /\ files[f] # None
  /\ files' = [files EXCEPT ![f] = None]
  /\ log' = Append(log, [kind |-> "Deleted", file |-> f])
  /\ UNCHANGED <<next_file, dirs>>

FileStep ==
  \/ UNCHANGED <<files, next_file, dirs, log>>
  \/ \E p, row : Made(p, row)
  \/ \E f, p : Renamed(f, p)
  \/ \E f, req : Rewritten(f, req)
  \/ \E f : Removed(f)

LEMMA BeginNewMade ==
  ASSUME CentralInv, NEW c \in Connections, NEW p \in Paths, NEW v, NEW offset,
         BeginNew(c, p, v, offset)
  PROVE  Made(p, [path |-> p, size |-> 0, bundles |-> <<>>])
<1>1. next_file \in FileIds
  BY NextIds DEF BeginNew, CentralInv
<1>2. AgreedSize(<<>>) = 0
  <2>1. DOMAIN [i \in 1 .. Len(<<>>) |-> AgreedLen(<<>>[i])] = {}
    OBVIOUS
  <2> QED
    BY <2>1, SumOfNone DEF AgreedSize
<1>3. RowSound(<<>>, 0)
  BY <1>2 DEF RowSound
<1> QED
  BY <1>1, <1>3, CentralAssumption DEF BeginNew, StartLease, Made, FileRows

LEMMA CommitRewritten ==
  ASSUME CentralInv, NEW c \in Connections, NEW req \in Commits, CommitApply(c, req)
  PROVE  /\ handler[c].lease \in LeaseIds /\ leases[handler[c].lease] # None
         /\ Rewritten(leases[handler[c].lease].file, req)
<1>1. handler[c] \in Handlers /\ handler[c].lease \in LeaseIds
  BY HandlerFields DEF CommitApply, CentralTypeOK, CentralInv
<1>2. RowSound(IdsOf(req.bundles), req.new_size)
  BY CommitSound DEF CommitApply, Committable, CentralInv
<1> QED
  BY <1>1, <1>2 DEF CommitApply, Committable, Active, Live, Logged, Rewritten

LEMMA DeleteRemoved ==
  ASSUME CentralInv, NEW c \in Connections, DeleteFile(c)
  PROVE  Removed(handler[c].file)
<1>1. handler[c] \in Handlers /\ handler[c].file \in FileIds
  BY HandlerFields DEF DeleteFile, CentralTypeOK, CentralInv
<1> QED
  BY <1>1 DEF DeleteFile, DeletedEvent, Live, Removed

LEMMA CopyMade ==
  ASSUME CentralInv, NEW c \in Connections, CopyFile(c)
  PROVE  Made(handler[c].target, [files[handler[c].file] EXCEPT !.path = handler[c].target])
<1>1. handler[c].file \in FileIds /\ handler[c].target \in Paths
  BY HandlerFields DEF CopyFile, CentralTypeOK, CentralInv
<1>2. PICK row : row = files[handler[c].file]
  OBVIOUS
<1>3. PICK p \in Paths : p = handler[c].target
  BY <1>1
<1>4. row \in FileRows /\ RowSound(row.bundles, row.size)
  BY <1>1, <1>2 DEF CopyFile, Live, CentralInv, CentralTypeOK, RowsSound
<1>5. PICK new : new = [row EXCEPT !.path = p]
  OBVIOUS
<1>6. new \in FileRows /\ new.path = p /\ new.size = row.size /\ new.bundles = row.bundles
  BY <1>4, <1>5 DEF FileRows
<1>7. next_file \in FileIds
  BY NextIds DEF CopyFile, CentralInv
<1>8. /\ files' = [files EXCEPT ![next_file] = new] /\ next_file' = next_file + 1
      /\ dirs' = dirs \cup Above[p] /\ DirsCreatable(p) /\ NameAvailable(p, None)
      /\ log' = Append(log, [kind |-> "Created", file |-> next_file, path |-> p])
  BY <1>2, <1>3, <1>5 DEF CopyFile, Logged
<1>9. Made(p, new)
  BY <1>4, <1>6, <1>7, <1>8 DEF Made
<1> QED
  BY <1>2, <1>3, <1>5, <1>9

LEMMA RenameRenamed ==
  ASSUME CentralInv, NEW c \in Connections, RenameFile(c)
  PROVE  Renamed(handler[c].file, handler[c].target)
<1>1. handler[c].file \in FileIds /\ handler[c].target \in Paths
  BY HandlerFields DEF RenameFile, CentralTypeOK, CentralInv
<1> QED
  BY <1>1 DEF RenameFile, Logged, Live, Renamed

LEMMA FileSteps == CentralInv /\ [CentralNext]_centralVars => FileStep
<1> SUFFICES ASSUME CentralInv, [CentralNext]_centralVars PROVE FileStep
  OBVIOUS
<1>1. CASE UpdateNext
  <2>1. ASSUME NEW c \in Connections, NEW v \in Volumes, NEW offset \in Offsets,
               NEW f \in FileIds, BeginExisting(c, f, v, offset)
        PROVE  FileStep
    BY <2>1 DEF BeginExisting, StartLease, FileStep
  <2>2. ASSUME NEW c \in Connections, NEW v \in Volumes, NEW offset \in Offsets,
               NEW p \in Paths, BeginNew(c, p, v, offset)
        PROVE  FileStep
    BY <2>2, BeginNewMade DEF FileStep
  <2>3. ASSUME NEW c \in Connections, NEW req \in Commits, CommitApply(c, req)
        PROVE  FileStep
    BY <2>3, CommitRewritten DEF FileStep
  <2>4. ASSUME UNCHANGED fileTables PROVE FileStep
    BY <2>4 DEF fileTables, FileStep
  <2> HIDE DEF FileStep
  <2> QED
    BY <1>1, <2>1, <2>2, <2>3, <2>4
    DEF UpdateNext, GrantAnswered, GrantFailed, BeginDropped, CommitCheck, AbortUpdate,
        GrantDelivered, RevokeDelivered, RequestLost
<1>2. CASE FileNext
  BY <1>2, DeleteRemoved, CopyMade, RenameRenamed
  DEF FileNext, FileRequest, Refused, fileTables, FileStep
<1>3. CASE StorageNext \/ Tick \/ CentralRestart \/ UNCHANGED centralVars
  BY <1>3
  DEF StorageNext, ReportBundleReplica, RegisterStorage, UnregisterStorage, RetainUnexpired,
      StorageRestart, StorageTick, Tick, CentralRestart, centralVars, fileTables, FileStep
<1> QED
  BY <1>1, <1>2, <1>3 DEF CentralNext

(* File ids are not used twice.                                            *)
LEMMA FreshStep == ASSUME CentralInv, FileStep PROVE FilesFresh'
<1>0. /\ files \in [FileIds -> FileRows \cup {None}] /\ log \in Seq(Events)
      /\ next_file \in Nat /\ FileIds \subseteq Nat
      /\ \A f \in FileIds : f >= next_file => files[f] = None
      /\ \A i \in DOMAIN log : log[i].file < next_file
  BY NextIds DEF CentralInv, CentralTypeOK, FilesFresh
<1>a. \A i \in DOMAIN log : log[i].file \in Nat
  <2>1. \A e \in Events : e.file \in FileIds
    BY DEF Events
  <2>2. \A i \in DOMAIN log : log[i] \in Events
    BY DEF CentralInv, CentralTypeOK
  <2> QED
    BY <1>0, <2>1, <2>2
<1>1. ASSUME NEW p, NEW row, Made(p, row) PROVE FilesFresh'
  <2>1. \A f \in FileIds : f >= next_file' => files'[f] = None
    BY <1>0, <1>1 DEF Made
  <2>2. \A i \in DOMAIN log' : log'[i].file < next_file'
    <3>1. CASE log' = log
      BY <1>0, <1>a, <1>1, <3>1 DEF Made
    <3>2. CASE log' = Append(log, [kind |-> "Created", file |-> next_file, path |-> p])
      <4>1. PICK e \in Events : e.file = next_file /\ log' = Append(log, e)
        BY <1>1, <3>2, EventTypes DEF Made
      <4>2. /\ Len(log) \in Nat /\ DOMAIN log = 1 .. Len(log)
            /\ DOMAIN log' = 1 .. Len(log) + 1
            /\ \A i \in 1 .. Len(log) : log'[i] = log[i]
            /\ log'[Len(log) + 1] = e
        BY <1>0, <4>1, AppendFacts
      <4>3. next_file' = next_file + 1
        BY <1>1 DEF Made
      <4>4. \A i \in 1 .. Len(log) : log'[i].file < next_file'
        BY <1>0, <1>a, <4>2, <4>3
      <4>5. log'[Len(log) + 1].file < next_file'
        BY <1>0, <4>1, <4>2, <4>3
      <4> QED
        BY <4>2, <4>4, <4>5
    <3> QED
      BY <1>1, <3>1, <3>2 DEF Made
  <2> QED
    BY <2>1, <2>2 DEF FilesFresh
<1>2. ASSUME NEW f \in FileIds, files[f] # None, NEW e \in Events, e.file = f,
             log' = Append(log, e), \A g \in FileIds \ {f} : files'[g] = files[g],
             next_file' = next_file
      PROVE  FilesFresh'
  <2>1. f < next_file
    BY <1>0, <1>2
  <2>2. \A g \in FileIds : g >= next_file' => files'[g] = None
    BY <1>0, <1>2, <2>1
  <2>3. \A i \in DOMAIN log' : log'[i].file < next_file'
    BY <1>0, <1>2, <2>1, AppendFacts
  <2> QED
    BY <2>2, <2>3 DEF FilesFresh
<1>3. ASSUME NEW f, NEW p, Renamed(f, p) PROVE FilesFresh'
  BY <1>0, <1>2, <1>3, EventTypes DEF Renamed
<1>4. ASSUME NEW f, NEW req, Rewritten(f, req) PROVE FilesFresh'
  <2>1. files[f].path \in Paths
    BY <1>0, <1>4 DEF Rewritten, FileRows
  <2> QED
    BY <1>0, <1>2, <1>4, <2>1, EventTypes DEF Rewritten
<1>5. ASSUME NEW f, Removed(f) PROVE FilesFresh'
  BY <1>0, <1>2, <1>5, EventTypes DEF Removed
<1>6. CASE UNCHANGED <<files, next_file, dirs, log>>
  BY <1>6 DEF CentralInv, FilesFresh
<1> QED
  BY <1>1, <1>3, <1>4, <1>5, <1>6 DEF FileStep

(* Sizes and contents.                                                     *)
LEMMA RowsStep == ASSUME CentralInv, FileStep PROVE RowsSound'
<1>0. files \in [FileIds -> FileRows \cup {None}] /\ RowsSound
  BY DEF CentralInv, CentralTypeOK
<1>1. ASSUME NEW p, NEW row, Made(p, row) PROVE RowsSound'
  BY <1>0, <1>1 DEF Made, RowsSound
<1>2. ASSUME NEW f, NEW p, Renamed(f, p) PROVE RowsSound'
  BY <1>0, <1>2 DEF Renamed, RowsSound, FileRows
<1>3. ASSUME NEW f, NEW req, Rewritten(f, req) PROVE RowsSound'
  <2>1. files[f] \in FileRows /\ files'[f] = NewRow(files[f], req)
    BY <1>0, <1>3 DEF Rewritten
  <2>2. files'[f].bundles = IdsOf(req.bundles) /\ files'[f].size = req.new_size
    BY <2>1 DEF NewRow, FileRows
  <2> QED
    BY <1>0, <1>3, <2>2 DEF Rewritten, RowsSound
<1>4. ASSUME NEW f, Removed(f) PROVE RowsSound'
  BY <1>0, <1>4 DEF Removed, RowsSound
<1>5. CASE UNCHANGED <<files, next_file, dirs, log>>
  BY <1>0, <1>5 DEF RowsSound
<1> QED
  BY <1>1, <1>2, <1>3, <1>4, <1>5 DEF FileStep

(* Paths.  A directory a step creates is not the path of a file.           *)
TreeAt(f) ==
  /\ Above[files[f].path] \subseteq dirs
  /\ files[f].path \notin dirs
  /\ \A g \in FileIds : (files[g] # None /\ files[g].path = files[f].path) => g = f

LEMMA TreeMeans ==
  PathsFormTree <=> \A f \in FileIds : files[f] # None => TreeAt(f)
BY DEF PathsFormTree, TreeAt, Live, FilesAt

LEMMA Placeable ==
  ASSUME CentralInv, NEW p \in Paths, NEW f, f \in FileIds \/ f = None,
         DirsCreatable(p), NameAvailable(p, f)
  PROVE  /\ p \notin dirs \cup Above[p]
         /\ \A g \in FileIds : files[g] # None =>
              files[g].path \notin Above[p] /\ (g # f => files[g].path # p)
<1>1. \A g \in FileIds : files[g] # None => TreeAt(g)
  BY TreeMeans DEF CentralInv
<1>2. p \notin Above[p] /\ Above[p] \subseteq Paths
  BY CentralAssumption
<1> QED
  BY <1>1, <1>2 DEF DirsCreatable, NameAvailable, FilesAt, Live, TreeAt

LEMMA TreeStep == ASSUME CentralInv, FileStep PROVE PathsFormTree'
<1>0. /\ files \in [FileIds -> FileRows \cup {None}]
      /\ \A f \in FileIds : files[f] # None => TreeAt(f)
  BY TreeMeans DEF CentralInv, CentralTypeOK
<1>1. ASSUME NEW f \in FileIds, NEW p \in Paths, NEW row, row.path = p, row # None,
             files'[f] = row, \A g \in FileIds \ {f} : files'[g] = files[g],
             dirs' = dirs \cup Above[p], p \notin dirs \cup Above[p],
             \A g \in FileIds : files[g] # None =>
               files[g].path \notin Above[p] /\ (g # f => files[g].path # p)
      PROVE  PathsFormTree'
  <2>2. ASSUME NEW g \in FileIds, files'[g] # None PROVE TreeAt(g)'
    <3>1. CASE g = f
      BY <1>1, <3>1 DEF TreeAt
    <3>2. CASE g # f
      <4>1. files[g] # None /\ files'[g] = files[g] /\ TreeAt(g)
        BY <1>0, <1>1, <2>2, <3>2
      <4>2. files[g].path # p /\ files[g].path \notin Above[p]
        BY <1>1, <3>2, <4>1
      <4> QED
        BY <1>1, <4>1, <4>2 DEF TreeAt
    <3> QED
      BY <3>1, <3>2
  <2> QED
    BY <2>2 DEF PathsFormTree, TreeAt, Live, FilesAt
<1>2. ASSUME NEW p, NEW row, Made(p, row) PROVE PathsFormTree'
  <2>1. None \notin FileIds /\ None \notin FileRows
    BY CentralAssumption
  <2>2. files[next_file] = None
    BY <1>2, NextIds DEF Made, CentralInv, FilesFresh
  <2>3. p \notin dirs \cup Above[p]
    BY <1>2, Placeable DEF Made
  <2>4. \A g \in FileIds : files[g] # None =>
          files[g].path \notin Above[p] /\ (g # next_file => files[g].path # p)
    BY <1>2, <2>1, Placeable DEF Made
  <2> QED
    <3>1. /\ next_file \in FileIds /\ p \in Paths /\ row.path = p /\ row # None
          /\ dirs' = dirs \cup Above[p]
          /\ files'[next_file] = row /\ \A g \in FileIds \ {next_file} : files'[g] = files[g]
      BY <1>0, <1>2, <2>1 DEF Made
    <3> QED
      BY <1>1, <2>3, <2>4, <3>1
<1>3. ASSUME NEW f, NEW p, Renamed(f, p) PROVE PathsFormTree'
  <2>1. PICK row : row = [files[f] EXCEPT !.path = p]
    OBVIOUS
  <2>2. row.path = p /\ row # None
    <3>1. files[f] \in FileRows /\ p \in Paths
      BY <1>0, <1>3 DEF Renamed
    <3>2. row.path = p /\ row \in FileRows
      BY <2>1, <3>1 DEF FileRows
    <3> QED
      BY <3>2, CentralAssumption
  <2>3. /\ p \notin dirs \cup Above[p]
        /\ \A g \in FileIds : files[g] # None =>
             files[g].path \notin Above[p] /\ (g # f => files[g].path # p)
    BY <1>3, Placeable DEF Renamed
  <2>4. /\ f \in FileIds /\ p \in Paths /\ dirs' = dirs \cup Above[p]
        /\ files'[f] = row /\ \A g \in FileIds \ {f} : files'[g] = files[g]
    BY <1>0, <1>3, <2>1 DEF Renamed
  <2> QED
    BY <1>1, <2>2, <2>3, <2>4
<1>4. ASSUME NEW f \in FileIds, NEW row, files' = [files EXCEPT ![f] = row], dirs' = dirs,
             row # None => files[f] # None /\ row.path = files[f].path
      PROVE  PathsFormTree'
  <2>1. \A g \in FileIds : files'[g] # None => files[g] # None /\ files'[g].path = files[g].path
    BY <1>0, <1>4
  <2>2. \A g \in FileIds : files'[g] # None => TreeAt(g)'
    BY <1>0, <1>4, <2>1 DEF TreeAt
  <2> QED
    BY <2>2 DEF PathsFormTree, TreeAt, Live, FilesAt
<1>5. ASSUME NEW f, NEW req, Rewritten(f, req) PROVE PathsFormTree'
  <2>1. NewRow(files[f], req).path = files[f].path
    BY <1>0, <1>5 DEF Rewritten, NewRow, FileRows
  <2> QED
    BY <1>4, <1>5, <2>1 DEF Rewritten
<1>6. ASSUME NEW f, Removed(f) PROVE PathsFormTree'
  BY <1>4, <1>6 DEF Removed
<1>7. CASE UNCHANGED <<files, next_file, dirs, log>>
  BY <1>7 DEF CentralInv, PathsFormTree, Live, FilesAt
<1> QED
  BY <1>2, <1>3, <1>5, <1>6, <1>7 DEF FileStep

(* The change log.  Its last event of a file tells where the file is.      *)
Tells(e, table) ==
  IF e.kind = "Deleted" THEN table[e.file] = None
                        ELSE table[e.file] # None /\ table[e.file].path = e.path

LastOfFile(i, events) == \A j \in DOMAIN events : j > i => events[j].file # events[i].file

LogRight ==
  /\ \A i \in DOMAIN log : LastOfFile(i, log) => Tells(log[i], files)
  /\ \A f \in FileIds :
       (f < next_file /\ (files[f] = None \/ files[f].size > 0)) =>
         \E i \in DOMAIN log : log[i].file = f
  /\ \A i \in DOMAIN log : log[i].kind = "Updated" =>
       \E j \in DOMAIN log : j < i /\ log[j].file = log[i].file /\ log[j].kind = "Created"

LEMMA LogMeans == CentralTypeOK => (LogReplays <=> LogRight)
<1> SUFFICES ASSUME CentralTypeOK PROVE LogReplays <=> LogRight
  OBVIOUS
<1>1. \A i \in DOMAIN log : log[i] \in Events
  BY DEF CentralTypeOK
<1>2. \A e \in Events : e.file \in FileIds
  BY DEF Events
<1> QED
  BY <1>1, <1>2 DEF LogReplays, LogRight, LastOfFile, Tells, Live

(* One event e of file f is appended; the other files stay.                *)
LEMMA LogAppended ==
  ASSUME CentralInv, NEW f \in FileIds, NEW e \in Events, e.file = f, log' = Append(log, e),
         Tells(e, files'), \A g \in FileIds \ {f} : files'[g] = files[g],
         next_file' = next_file \/ (f = next_file /\ next_file' = next_file + 1),
         e.kind = "Updated" => files[f] # None /\ files[f].size > 0,
         (files'[f] # None /\ files'[f].size > 0) =>
           e.kind = "Created" \/ (files[f] # None /\ files[f].size > 0)
  PROVE  LogRight' /\ CreatedLogged'
<1>0. /\ LogRight /\ CreatedLogged /\ log \in Seq(Events) /\ next_file \in Nat
      /\ FileIds \subseteq Nat
  BY LogMeans, NextIds DEF CentralInv, CentralTypeOK
<1>1. PICK n : n = Len(log)
  OBVIOUS
<1>2. /\ n \in Nat /\ DOMAIN log = 1 .. n /\ DOMAIN log' = 1 .. n + 1
      /\ \A i \in 1 .. n : log'[i] = log[i]
      /\ log'[n + 1] = e
  BY <1>0, <1>1, AppendFacts
<1>3. \A i \in 1 .. n : log[i] \in Events /\ log[i].file \in FileIds
  BY <1>0, <1>2 DEF Events
<1>4. \A i \in DOMAIN log' : LastOfFile(i, log') => Tells(log'[i], files')
  <2>1. ASSUME NEW i \in 1 .. n, LastOfFile(i, log') PROVE Tells(log'[i], files')
    <3>1. log'[i] = log[i] /\ log[i].file # f
      BY <1>2, <2>1 DEF LastOfFile
    <3>2. LastOfFile(i, log)
      BY <1>2, <2>1 DEF LastOfFile
    <3>3. Tells(log[i], files)
      BY <1>0, <1>2, <3>2 DEF LogRight
    <3>4. files'[log[i].file] = files[log[i].file]
      BY <1>3, <3>1
    <3> QED
      BY <3>1, <3>3, <3>4 DEF Tells
  <2> QED
    BY <1>2, <2>1
<1>5. \A g \in FileIds : (g < next_file' /\ (files'[g] = None \/ files'[g].size > 0)) =>
        \E i \in DOMAIN log' : log'[i].file = g
  <2> SUFFICES ASSUME NEW g \in FileIds, g < next_file', files'[g] = None \/ files'[g].size > 0
               PROVE  \E i \in DOMAIN log' : log'[i].file = g
    OBVIOUS
  <2>1. CASE g = f
    <3>1. n + 1 \in DOMAIN log' /\ log'[n + 1].file = g
      BY <1>2, <2>1
    <3> QED
      BY <3>1
  <2>2. CASE g # f
    <3>1. g < next_file /\ files'[g] = files[g]
      BY <1>0, <2>2
    <3>2. PICK i \in DOMAIN log : log[i].file = g
      BY <1>0, <3>1 DEF LogRight
    <3>3. i \in DOMAIN log' /\ log'[i].file = g
      BY <1>2, <3>2
    <3> QED
      BY <3>3
  <2> QED
    BY <2>1, <2>2
<1>6. \A i \in DOMAIN log' : log'[i].kind = "Updated" =>
        \E j \in DOMAIN log' : j < i /\ log'[j].file = log'[i].file /\ log'[j].kind = "Created"
  BY <1>0, <1>2 DEF LogRight, CreatedLogged
<1>7. CreatedLogged'
  <2>1. ASSUME NEW g \in FileIds, files'[g] # None, files'[g].size > 0
        PROVE  \E i \in DOMAIN log' : log'[i].file = g /\ log'[i].kind = "Created"
    <3>1. CASE g = f /\ e.kind = "Created"
      BY <1>2, <3>1
    <3>2. CASE files[g] # None /\ files[g].size > 0
      BY <1>0, <1>2, <3>2 DEF CreatedLogged
    <3> QED
      BY <2>1, <3>1, <3>2
  <2> QED
    BY <2>1 DEF CreatedLogged
<1> QED
  BY <1>4, <1>5, <1>6, <1>7 DEF LogRight

LEMMA LogStep == ASSUME CentralInv, FileStep PROVE LogRight' /\ CreatedLogged'
<1>0. /\ files \in [FileIds -> FileRows \cup {None}] /\ log \in Seq(Events)
      /\ next_file \in Nat /\ FileIds \subseteq Nat /\ LogRight /\ CreatedLogged
      /\ None \notin FileRows
  BY NextIds, LogMeans, CentralAssumption DEF CentralInv, CentralTypeOK
<1>1. ASSUME NEW p, NEW row, Made(p, row) PROVE LogRight' /\ CreatedLogged'
  <2>1. files'[next_file] = row /\ \A g \in FileIds \ {next_file} : files'[g] = files[g]
    BY <1>0, <1>1 DEF Made
  <2>2. CASE log' = Append(log, [kind |-> "Created", file |-> next_file, path |-> p])
    <3>1. PICK e \in Events : /\ e.file = next_file /\ e.kind = "Created" /\ e.path = p
                              /\ log' = Append(log, e)
      BY <1>1, <2>2, EventTypes DEF Made
    <3>2. Tells(e, files')
      BY <1>0, <1>1, <2>1, <3>1 DEF Tells, Made
    <3> QED
      BY <1>1, <2>1, <3>1, <3>2, LogAppended DEF Made
  <2>3. CASE log' = log /\ row.size = 0
    <3>1. \A i \in DOMAIN log : log[i].file \in FileIds \ {next_file}
      <4>1. \A e \in Events : e.file \in FileIds
        BY DEF Events
      <4>2. \A i \in DOMAIN log : log[i] \in Events /\ log[i].file < next_file
        BY DEF CentralInv, CentralTypeOK, FilesFresh
      <4> QED
        BY <1>0, <4>1, <4>2
    <3>2. \A i \in DOMAIN log : Tells(log[i], files) => Tells(log[i], files')
      BY <2>1, <3>1 DEF Tells
    <3>3. \A g \in FileIds : (g < next_file' /\ (files'[g] = None \/ files'[g].size > 0)) =>
            \E i \in DOMAIN log : log[i].file = g
      BY <1>0, <1>1, <2>1, <2>3 DEF LogRight, Made
    <3>4. \A i \in DOMAIN log' : LastOfFile(i, log') => Tells(log'[i], files')
      BY <1>0, <2>3, <3>2 DEF LogRight
    <3>5. LogRight'
      BY <1>0, <2>3, <3>3, <3>4 DEF LogRight
    <3>6. CreatedLogged'
      <4>1. \A g \in FileIds : (files'[g] # None /\ files'[g].size > 0) => g # next_file
        BY <2>1, <2>3
      <4> QED
        BY <1>0, <2>1, <2>3, <4>1 DEF CreatedLogged
    <3> QED
      BY <3>5, <3>6
  <2> QED
    BY <1>1, <2>2, <2>3 DEF Made
<1>2. ASSUME NEW f, NEW p, Renamed(f, p) PROVE LogRight' /\ CreatedLogged'
  <2>1. /\ f \in FileIds /\ files[f] # None /\ p \in Paths
        /\ files'[f].path = p /\ files'[f].size = files[f].size
        /\ files'[f] # None
        /\ \A g \in FileIds \ {f} : files'[g] = files[g]
    BY <1>0, <1>2 DEF Renamed, FileRows
  <2>2. PICK e \in Events : /\ e.file = f /\ e.kind = "Moved" /\ e.path = p
                            /\ log' = Append(log, e)
    BY <1>2, EventTypes DEF Renamed
  <2>3. Tells(e, files')
    BY <2>1, <2>2 DEF Tells
  <2> QED
    BY <1>2, <2>1, <2>2, <2>3, LogAppended DEF Renamed
<1>3. ASSUME NEW f, NEW req, Rewritten(f, req) PROVE LogRight' /\ CreatedLogged'
  <2>a. f \in FileIds /\ files[f] # None /\ files[f] \in FileRows /\ req \in Commits
    BY <1>0, <1>3 DEF Rewritten
  <2>b. /\ files'[f] = NewRow(files[f], req)
        /\ \A g \in FileIds \ {f} : files'[g] = files[g]
    BY <1>0, <1>3 DEF Rewritten
  <2>c. NewRow(files[f], req) \in FileRows /\ NewRow(files[f], req).path = files[f].path
    <3>1. IdsOf(req.bundles) \in Seq(BundleIds) /\ req.new_size \in Nat
      BY <2>a, RequestFacts
    <3> QED
      BY <2>a, <3>1 DEF NewRow, FileRows
  <2>1. /\ files[f].path \in Paths /\ files[f].size \in Nat
        /\ files'[f].path = files[f].path /\ files'[f] # None
    BY <1>0, <2>a, <2>b, <2>c DEF FileRows
  <2>2. PICK e \in Events : /\ e.file = f /\ e.path = files[f].path
                            /\ e.kind = IF files[f].size = 0 THEN "Created" ELSE "Updated"
                            /\ log' = Append(log, e)
    BY <1>3, <2>a, <2>1, EventTypes DEF Rewritten
  <2>3. Tells(e, files')
    BY <2>1, <2>2 DEF Tells
  <2>4. next_file' = next_file
    BY <1>3 DEF Rewritten
  <2>5. files[f].size = 0 \/ (files[f].size > 0 /\ files[f].size # 0)
    BY <2>1
  <2>6. e.kind = "Created" \/ files[f].size > 0
    BY <2>2, <2>5
  <2>7. e.kind = "Updated" => files[f].size > 0
    BY <2>2, <2>5
  <2> QED
    BY <2>a, <2>b, <2>2, <2>3, <2>4, <2>6, <2>7, LogAppended
<1>4. ASSUME NEW f, Removed(f) PROVE LogRight' /\ CreatedLogged'
  <2>1. /\ f \in FileIds /\ files'[f] = None
        /\ \A g \in FileIds \ {f} : files'[g] = files[g]
    BY <1>0, <1>4 DEF Removed
  <2>2. PICK e \in Events : e.file = f /\ e.kind = "Deleted" /\ log' = Append(log, e)
    BY <1>4, <2>1, EventTypes DEF Removed
  <2>3. Tells(e, files')
    BY <2>1, <2>2 DEF Tells
  <2> QED
    BY <1>4, <2>1, <2>2, <2>3, LogAppended DEF Removed
<1>5. CASE UNCHANGED <<files, next_file, dirs, log>>
  BY <1>0, <1>5 DEF LogRight, CreatedLogged, LastOfFile, Tells
<1> QED
  BY <1>1, <1>2, <1>3, <1>4, <1>5 DEF FileStep

-----------------------------------------------------------------------------
(* Leases.  A row a step leaves is the row it was; begin_update adds one.  *)
LeaseSame(l) ==
  /\ leases[l] # None
  /\ leases'[l].file = leases[l].file /\ leases'[l].over = leases[l].over
  /\ leases'[l].base_size = leases[l].base_size /\ leases'[l].expires = leases[l].expires
  /\ leases'[l].volume = leases[l].volume
  /\ leases[l].lost => leases'[l].lost

LeasesKept ==
  /\ next_lease' = next_lease
  /\ \A l \in LeaseIds : leases'[l] # None => LeaseSame(l)

LeaseBegun(f, v) ==
  /\ next_lease \in LeaseIds /\ next_lease' = next_lease + 1
  /\ \A l \in LeaseIds \ {next_lease} : leases'[l] # None => LeaseSame(l) /\ leases[l].file # f
  /\ leases'[next_lease].file = f
  /\ leases'[next_lease].expires = now + TTL /\ leases'[next_lease].volume = v
  /\ leases'[next_lease] # None

(* The content a lease was given for.                                      *)
FileSame(f) ==
  /\ files'[f] # None
  /\ files'[f].bundles = files[f].bundles /\ files'[f].size = files[f].size

LEMMA LeaseMeans ==
  NoLostUpdate <=>
    \A l \in LeaseIds : leases[l] # None =>
      /\ leases[l].file \in FileIds /\ files[leases[l].file] # None
      /\ files[leases[l].file].bundles = leases[l].over
      /\ files[leases[l].file].size = leases[l].base_size
      /\ \A m \in LeaseIds : (m # l /\ leases[m] # None) => leases[m].file # leases[l].file
BY DEF NoLostUpdate, Live

LEMMA LeasesKeptSafe ==
  ASSUME CentralInv, LeasesKept,
         \A l \in LeaseIds : leases'[l] # None => FileSame(leases[l].file)
  PROVE  NoLostUpdate' /\ LeasesFresh'
<1>1. LeasesFresh'
  BY DEF CentralInv, LeasesKept, LeaseSame, LeasesFresh
<1>2. NoLostUpdate'
  BY LeaseMeans DEF CentralInv, LeasesKept, LeaseSame, FileSame, NoLostUpdate, Live
<1> QED
  BY <1>1, <1>2

LEMMA LeaseBegunSafe ==
  ASSUME CentralInv, NEW f \in FileIds, NEW v, LeaseBegun(f, v), files'[f] # None,
         files'[f].bundles = leases'[next_lease].over,
         files'[f].size = leases'[next_lease].base_size,
         \A l \in LeaseIds : leases[l] # None => leases[l].file = f \/ FileSame(leases[l].file)
  PROVE  NoLostUpdate' /\ LeasesFresh'
<1>1. LeasesFresh'
  BY NextIds DEF CentralInv, LeaseBegun, LeaseSame, LeasesFresh
<1>2. NoLostUpdate'
  BY LeaseMeans DEF CentralInv, LeaseBegun, LeaseSame, FileSame, NoLostUpdate, Live
<1> QED
  BY <1>1, <1>2

LEMMA StartLeaseBegun ==
  ASSUME CentralInv, NEW c \in Connections, NEW f \in FileIds, NEW v \in Volumes,
         NEW row \in FileRows, NEW offset \in Nat,
         StartLease(c, f, v, row, offset), FileFree(f) \/ files[f] = None
  PROVE  /\ LeaseBegun(f, v)
         /\ leases'[next_lease].over = row.bundles /\ leases'[next_lease].base_size = row.size
<1>1. next_lease \in LeaseIds
  BY NextIds DEF StartLease, CentralInv
<1>2. PICK new : new = [file |-> f, volume |-> v, base_size |-> row.size, offset |-> offset,
                        expires |-> now + TTL, over |-> row.bundles, lost |-> FALSE]
  OBVIOUS
<1>3. leases' = [Unexpired EXCEPT ![next_lease] = new] /\ next_lease' = next_lease + 1
  BY <1>2 DEF StartLease
<1>4. leases \in [LeaseIds -> LeaseRows \cup {None}] /\ DOMAIN Unexpired = LeaseIds
  BY DEF CentralInv, CentralTypeOK, Unexpired
<1>5. leases'[next_lease] = new /\ \A l \in LeaseIds \ {next_lease} : leases'[l] = Unexpired[l]
  BY <1>1, <1>3, <1>4
<1>6. \A l \in LeaseIds : Unexpired[l] # None => leases[l] # None /\ Unexpired[l] = leases[l]
  BY DEF Unexpired
<1>7. \A l \in LeaseIds : Unexpired[l] # None => leases[l].file # f
  BY <1>6, LeaseMeans DEF FileFree, CentralInv
<1>8. new # None
  <2>1. now + TTL \in Nat
    BY CentralAssumption DEF CentralInv, CentralTypeOK
  <2>2. new \in LeaseRows
    BY <1>2, <2>1 DEF LeaseRows, FileRows
  <2> QED
    BY <2>2, CentralAssumption
<1>9. \A l \in LeaseIds \ {next_lease} : leases'[l] # None => LeaseSame(l) /\ leases[l].file # f
  BY <1>5, <1>6, <1>7 DEF LeaseSame
<1> QED
  BY <1>1, <1>2, <1>3, <1>5, <1>8, <1>9 DEF LeaseBegun

LEMMA BeginLeases ==
  ASSUME CentralInv, NEW c \in Connections, NEW v \in Volumes, NEW offset \in Offsets,
         \/ \E f \in FileIds : BeginExisting(c, f, v, offset)
         \/ \E p \in Paths : BeginNew(c, p, v, offset)
  PROVE  NoLostUpdate' /\ LeasesFresh'
<1>0. offset \in Nat /\ files \in [FileIds -> FileRows \cup {None}]
  BY CentralAssumption DEF CentralInv, CentralTypeOK
<1>1. ASSUME NEW f \in FileIds, BeginExisting(c, f, v, offset)
      PROVE  NoLostUpdate' /\ LeasesFresh'
  <2>1. /\ files[f] \in FileRows /\ files[f] # None /\ FileFree(f) /\ files' = files
        /\ StartLease(c, f, v, files[f], offset)
    BY <1>0, <1>1 DEF BeginExisting, Live
  <2>2. /\ LeaseBegun(f, v) /\ leases'[next_lease].over = files[f].bundles
        /\ leases'[next_lease].base_size = files[f].size
    BY <1>0, <2>1, StartLeaseBegun
  <2>3. \A l \in LeaseIds : leases[l] # None => FileSame(leases[l].file)
    BY <2>1, LeaseMeans DEF CentralInv, FileSame
  <2> QED
    BY <2>1, <2>2, <2>3, LeaseBegunSafe
<1>2. ASSUME NEW p \in Paths, BeginNew(c, p, v, offset)
      PROVE  NoLostUpdate' /\ LeasesFresh'
  <2>1. Made(p, [path |-> p, size |-> 0, bundles |-> <<>>])
    BY <1>2, BeginNewMade
  <2>2. /\ next_file \in FileIds /\ files'[next_file] \in FileRows
        /\ \A g \in FileIds \ {next_file} : files'[g] = files[g]
    BY <1>0, <2>1 DEF Made
  <2>3. files[next_file] = None /\ files'[next_file] # None
    BY <2>2, NextIds, CentralAssumption DEF CentralInv, FilesFresh
  <2>4. StartLease(c, next_file, v, files'[next_file], 0)
    BY <1>2 DEF BeginNew
  <2>5. /\ LeaseBegun(next_file, v) /\ leases'[next_lease].over = files'[next_file].bundles
        /\ leases'[next_lease].base_size = files'[next_file].size
    BY <2>2, <2>3, <2>4, StartLeaseBegun
  <2>6. \A l \in LeaseIds : leases[l] # None => FileSame(leases[l].file)
    BY <2>2, <2>3, LeaseMeans DEF CentralInv, FileSame
  <2> QED
    BY <2>2, <2>3, <2>5, <2>6, LeaseBegunSafe
<1> QED
  BY <1>1, <1>2

(* Leases are removed one by one, and restarts mark them.                  *)
LEMMA LeaseDropped ==
  ASSUME CentralTypeOK, NEW l \in LeaseIds, leases' = [leases EXCEPT ![l] = None],
         next_lease' = next_lease
  PROVE  LeasesKept /\ leases'[l] = None /\ \A m \in LeaseIds \ {l} : leases'[m] = leases[m]
BY DEF CentralTypeOK, LeasesKept, LeaseSame

LEMMA LeasesUnchanged ==
  ASSUME leases' = leases, next_lease' = next_lease
  PROVE  LeasesKept
BY DEF LeasesKept, LeaseSame

LEMMA RestartKept ==
  ASSUME CentralTypeOK, NEW v \in Volumes, StorageRestart(v)
  PROVE  LeasesKept
<1>1. \A r \in LeaseRows :
        LET s == [r EXCEPT !.lost = TRUE]
        IN  s.file = r.file /\ s.over = r.over /\ s.base_size = r.base_size
            /\ s.expires = r.expires /\ s.volume = r.volume /\ s.lost = TRUE
  BY DEF LeaseRows
<1>2. leases \in [LeaseIds -> LeaseRows \cup {None}]
  BY DEF CentralTypeOK
<1>3. ASSUME NEW l \in LeaseIds, leases'[l] # None PROVE LeaseSame(l)
  <2>1. /\ leases[l] # None /\ leases[l] \in LeaseRows
        /\ leases'[l] = leases[l] \/ leases'[l] = [leases[l] EXCEPT !.lost = TRUE]
    BY <1>2, <1>3 DEF StorageRestart
  <2>2. CASE leases'[l] = leases[l]
    BY <2>1, <2>2 DEF LeaseSame
  <2>3. CASE leases'[l] = [leases[l] EXCEPT !.lost = TRUE]
    BY <1>1, <2>1, <2>3 DEF LeaseSame
  <2> QED
    BY <2>1, <2>2, <2>3
<1> QED
  BY <1>3 DEF StorageRestart, LeasesKept

LEMMA DeleteKept ==
  ASSUME CentralTypeOK, NEW c \in Connections, DeleteFile(c)
  PROVE  LeasesKept /\ \A l \in LeaseIds : leases'[l] # None => leases[l].file # handler[c].file
BY DEF CentralTypeOK, DeleteFile, WithoutFile, LeasesKept, LeaseSame

LEMMA AwaitedLease ==
  ASSUME CentralTypeOK, NEW c \in Connections, Awaiting(c)
  PROVE  handler[c].lease \in LeaseIds
BY HandlerFields DEF CentralTypeOK, Awaiting

(* Every step but begin_update keeps the leases it leaves.                 *)
BeginStep ==
  \E c \in Connections, v \in Volumes, offset \in Offsets :
    \/ \E f \in FileIds : BeginExisting(c, f, v, offset)
    \/ \E p \in Paths : BeginNew(c, p, v, offset)

LEMMA OthersKeep == CentralInv /\ [CentralNext]_centralVars => BeginStep \/ LeasesKept
<1> SUFFICES ASSUME CentralInv, [CentralNext]_centralVars, ~BeginStep PROVE LeasesKept
  OBVIOUS
<1>0. CentralTypeOK
  BY DEF CentralInv
<1>1. CASE UNCHANGED leaseTables
  BY <1>1, LeasesUnchanged DEF leaseTables
<1>2. ASSUME NEW c \in Connections, GrantFailed(c) PROVE LeasesKept
  BY <1>0, <1>2, AwaitedLease, LeaseDropped DEF GrantFailed
<1>3. ASSUME NEW c \in Connections, NEW req \in Commits, CommitApply(c, req) PROVE LeasesKept
  BY <1>0, <1>3, CommitRewritten, LeaseDropped DEF CommitApply, Spent
<1>4. ASSUME NEW c \in Connections, NEW l \in LeaseIds, AbortUpdate(c, l) PROVE LeasesKept
  BY <1>0, <1>4, LeaseDropped DEF AbortUpdate
<1>5. ASSUME NEW c \in Connections, DeleteFile(c) PROVE LeasesKept
  BY <1>0, <1>5, DeleteKept
<1>6. ASSUME NEW v \in Volumes, StorageRestart(v) PROVE LeasesKept
  BY <1>0, <1>6, RestartKept
<1>7. CASE UpdateNext
  BY <1>1, <1>2, <1>3, <1>4, <1>7
  DEF UpdateNext, BeginStep, GrantAnswered, BeginDropped, CommitCheck, GrantDelivered,
      RevokeDelivered, RequestLost
<1>8. CASE FileNext
  BY <1>1, <1>5, <1>8 DEF FileNext, FileRequest, CopyFile, RenameFile, Refused
<1>9. CASE StorageNext \/ Tick \/ CentralRestart
  BY <1>1, <1>6, <1>9
  DEF StorageNext, ReportBundleReplica, RegisterStorage, UnregisterStorage, RetainUnexpired,
      StorageTick, Tick, CentralRestart
<1>10. CASE UNCHANGED centralVars
  BY <1>1, <1>10 DEF centralVars, leaseTables
<1> QED
  BY <1>7, <1>8, <1>9, <1>10 DEF CentralNext

(* Only a commit and a deletion change the content of a file, and they end *)
(* the lease on it.                                                        *)
LEMMA FileKept ==
  ASSUME CentralInv, [CentralNext]_centralVars, ~BeginStep, NEW l \in LeaseIds, leases'[l] # None
  PROVE  FileSame(leases[l].file)
<1>0. /\ LeaseSame(l) /\ leases[l] # None
      /\ files \in [FileIds -> FileRows \cup {None}]
  BY OthersKeep DEF LeasesKept, LeaseSame, CentralInv, CentralTypeOK
<1>1. PICK f \in FileIds : f = leases[l].file /\ files[f] # None
  BY <1>0, LeaseMeans DEF CentralInv
<1>2. CASE files' = files
  BY <1>1, <1>2 DEF FileSame
<1>3. ASSUME NEW c \in Connections, NEW req \in Commits, CommitApply(c, req)
      PROVE  FileSame(f)
  <2>1. PICK m \in LeaseIds : m = handler[c].lease /\ leases[m] # None /\ Rewritten(leases[m].file, req)
    BY <1>3, CommitRewritten
  <2>2. leases'[m] = None
    BY <1>3, <2>1 DEF CommitApply, Spent, CentralInv, CentralTypeOK
  <2>3. leases[m].file # f /\ m # l
    BY <1>0, <1>1, <2>1, <2>2, LeaseMeans DEF CentralInv
  <2> QED
    BY <1>0, <1>1, <2>1, <2>3 DEF Rewritten, FileSame
<1>4. ASSUME NEW c \in Connections, DeleteFile(c) PROVE FileSame(f)
  <2>1. Removed(handler[c].file) /\ handler[c].file # f
    BY <1>1, <1>4, DeleteRemoved, DeleteKept DEF CentralInv
  <2> QED
    BY <1>0, <1>1, <2>1 DEF Removed, FileSame
<1>5. ASSUME NEW c \in Connections, CopyFile(c) PROVE FileSame(f)
  <2>1. PICK row : Made(handler[c].target, row)
    BY <1>5, CopyMade
  <2>2. next_file # f
    BY <1>1, <2>1, NextIds DEF Made, CentralInv, FilesFresh
  <2> QED
    BY <1>0, <1>1, <2>1, <2>2 DEF Made, FileSame
<1>6. ASSUME NEW c \in Connections, RenameFile(c) PROVE FileSame(f)
  <2>1. PICK g, p : Renamed(g, p)
    BY <1>6, RenameRenamed
  <2>2. files[g] \in FileRows /\ None \notin FileRows
    BY <1>0, <2>1, CentralAssumption DEF Renamed
  <2>3. LET row == [files[g] EXCEPT !.path = p]
        IN  row # None /\ row.bundles = files[g].bundles /\ row.size = files[g].size
    BY <2>1, <2>2 DEF FileRows, Renamed
  <2> QED
    BY <1>0, <1>1, <2>1, <2>3 DEF Renamed, FileSame
<1>7. CASE UpdateNext
  BY <1>1, <1>2, <1>3, <1>7
  DEF UpdateNext, BeginStep, GrantAnswered, GrantFailed, BeginDropped, CommitCheck, AbortUpdate,
      GrantDelivered, RevokeDelivered, RequestLost, fileTables
<1>8. CASE FileNext
  BY <1>1, <1>2, <1>4, <1>5, <1>6, <1>8 DEF FileNext, FileRequest, Refused, fileTables
<1>9. CASE StorageNext \/ Tick \/ CentralRestart \/ UNCHANGED centralVars
  BY <1>1, <1>2, <1>9
  DEF StorageNext, ReportBundleReplica, RegisterStorage, UnregisterStorage, RetainUnexpired,
      StorageRestart, StorageTick, Tick, CentralRestart, fileTables, centralVars
<1> QED
  BY <1>1, <1>7, <1>8, <1>9 DEF CentralNext

LEMMA LeaseStep == CentralInv /\ [CentralNext]_centralVars => NoLostUpdate' /\ LeasesFresh'
<1> SUFFICES ASSUME CentralInv, [CentralNext]_centralVars PROVE NoLostUpdate' /\ LeasesFresh'
  OBVIOUS
<1>1. CASE BeginStep
  BY <1>1, BeginLeases DEF BeginStep
<1>2. CASE ~BeginStep
  BY <1>2, OthersKeep, FileKept, LeasesKeptSafe
<1> QED
  BY <1>1, <1>2

-----------------------------------------------------------------------------
(* Upload leases at the storage servers.                                   *)
ClocksForward ==
  /\ now' \in Nat /\ now' >= now
  /\ clock' \in [Volumes -> Nat] /\ \A v \in Volumes : clock'[v] >= clock[v]

LEMMA ClocksKept == ASSUME CentralInv, UNCHANGED <<now, clock>> PROVE ClocksForward
BY DEF CentralInv, CentralTypeOK, ClocksForward

LEMMA HeldKept ==
  ASSUME CentralInv, NEW l \in LeaseIds, Held(l), leases'[l] # None => LeaseSame(l),
         ClocksForward, granted[l] # None => granted'[l] # None
  PROVE  Held(l)'
<1>1. /\ now \in Nat /\ clock \in [Volumes -> Nat]
      /\ leases[l] # None => leases[l].expires \in Nat /\ leases[l].volume \in Volumes
  BY DEF CentralInv, CentralTypeOK, LeaseRows
<1>2. ASSUME Usable(l)' PROVE LeaseSame(l) /\ Usable(l)
  <2>1. LeaseSame(l) /\ leases[l] # None
    BY <1>2 DEF Usable, Active, LeaseSame
  <2>2. PICK w \in Volumes, e \in Nat : w = leases[l].volume /\ e = leases[l].expires
    BY <1>1, <2>1
  <2>3. e > now' /\ e > clock'[w]
    BY <1>2, <2>1, <2>2 DEF Usable, Active, LeaseSame
  <2>4. now' \in Nat /\ now' >= now /\ clock'[w] \in Nat /\ clock'[w] >= clock[w] /\ clock[w] \in Nat
    BY <1>1, <2>2 DEF ClocksForward
  <2>5. e > now /\ e > clock[w]
    BY <1>1, <2>2, <2>3, <2>4
  <2> QED
    BY <2>1, <2>2, <2>5 DEF Usable, Active
<1> QED
  BY <1>2 DEF Held, LeaseSame

(* Steps that take nothing from a storage server.                          *)
LEMMA GrantsKept ==
  ASSUME CentralInv, LeasesKept, ClocksForward, granted' = granted,
         sent' \subseteq sent, \A l \in revoking' : l \in revoking \/
                                 (l \in LeaseIds /\ l < next_lease /\ leases'[l] = None),
         \A l \in known' : l \in known \/ \E c \in Connections : Confirmed(c) /\ l = handler[c].lease,
         \A c \in Connections : Confirmed(c)' => handler'[c] = handler[c]
  PROVE  GrantsSound'
<1>0. /\ GrantsSound /\ known \subseteq LeaseIds /\ revoking \subseteq LeaseIds
      /\ \A msg \in sent : msg[1] \in LeaseIds
      /\ next_lease' = next_lease
      /\ \A l \in LeaseIds : leases'[l] # None => LeaseSame(l)
      /\ \A c \in Connections : Confirmed(c) => handler[c].lease \in LeaseIds
  BY AwaitedLease DEF CentralInv, CentralTypeOK, LeasesKept, Confirmed
<1>1. \A l \in LeaseIds : Held(l) => Held(l)'
  BY <1>0, HeldKept
<1>2. \A l \in LeaseIds : granted'[l] # None =>
        l < next_lease' /\ Fits(granted'[l], leases'[l])
  BY <1>0 DEF GrantsSound, LeaseSame, Fits
<1>3. \A msg \in sent' : msg[1] < next_lease' /\ Fits(msg[2], leases'[msg[1]])
  BY <1>0 DEF GrantsSound, LeaseSame, Fits
<1>4. \A l \in revoking' : l < next_lease' /\ leases'[l] = None
  BY <1>0 DEF GrantsSound, LeaseSame
<1>5. \A l \in known' : l < next_lease' /\ Held(l)'
  BY <1>0, <1>1 DEF GrantsSound
<1>6. ASSUME NEW c \in Connections, Confirmed(c)'
      PROVE  handler'[c].lease < next_lease' /\ Held(handler[c].lease)' /\ handler'[c] = handler[c]
  <2>1. Confirmed(c) /\ handler'[c] = handler[c]
    BY <1>6 DEF Confirmed, Awaiting
  <2> QED
    BY <1>0, <1>1, <2>1 DEF GrantsSound
<1> QED
  BY <1>2, <1>3, <1>4, <1>5, <1>6 DEF GrantsSound, Held, Usable, Active

LEMMA BeginGrants ==
  ASSUME CentralInv, NEW c \in Connections, NEW f \in FileIds, NEW v \in Volumes,
         NEW row, NEW offset, StartLease(c, f, v, row, offset), LeaseBegun(f, v)
  PROVE  GrantsSound'
<1>0. /\ GrantsSound /\ known \subseteq LeaseIds /\ revoking \subseteq LeaseIds
      /\ \A msg \in sent : msg[1] \in LeaseIds
      /\ next_lease \in Nat /\ LeaseIds \subseteq Nat /\ now \in Nat
      /\ handler \in [Connections -> Handlers \cup {None}]
      /\ \A d \in Connections : Confirmed(d) => handler[d].lease \in LeaseIds
  BY AwaitedLease, NextIds DEF CentralInv, CentralTypeOK, Confirmed
<1>1. /\ next_lease' = next_lease + 1 /\ UNCHANGED <<now, clock>>
      /\ granted' = granted /\ revoking' = revoking /\ known' = known
      /\ sent' = sent \cup {<<next_lease, [file |-> f, volume |-> v, expires |-> now + TTL]>>}
      /\ handler' = [handler EXCEPT ![c] = [op |-> "grant", lease |-> next_lease]]
  BY DEF StartLease
<1>2. /\ \A l \in LeaseIds \ {next_lease} : leases'[l] # None => LeaseSame(l)
      /\ leases'[next_lease].expires = now + TTL /\ leases'[next_lease].volume = v
  BY DEF LeaseBegun
<1>a. \A l \in LeaseIds : l < next_lease => l < next_lease' /\ (leases'[l] # None => LeaseSame(l))
  <2>1. next_lease \in Nat /\ next_lease' = next_lease + 1 /\ LeaseIds \subseteq Nat
    BY <1>0, <1>1
  <2>2. \A l \in LeaseIds : l < next_lease => l < next_lease' /\ l \in LeaseIds \ {next_lease}
    BY <2>1
  <2> QED
    BY <1>2, <2>2
<1>3. ASSUME NEW l \in LeaseIds, l < next_lease, Held(l) PROVE Held(l)'
  <2>1. ClocksForward /\ (granted[l] # None => granted'[l] # None)
    BY <1>1, ClocksKept
  <2> QED
    BY <1>a, <1>3, <2>1, HeldKept
<1>4. ASSUME NEW l \in LeaseIds, granted'[l] # None
      PROVE  l < next_lease' /\ Fits(granted'[l], leases'[l])
  <2>1. granted[l] # None /\ granted'[l] = granted[l]
    BY <1>1, <1>4
  <2>2. l < next_lease /\ Fits(granted[l], leases[l])
    BY <1>0, <2>1 DEF GrantsSound
  <2> QED
    BY <1>a, <2>1, <2>2 DEF LeaseSame, Fits
<1>5. ASSUME NEW msg \in sent'
      PROVE  msg[1] < next_lease' /\ Fits(msg[2], leases'[msg[1]])
  <2>1. CASE msg \in sent
    <3>1. msg[1] \in LeaseIds /\ msg[1] < next_lease /\ Fits(msg[2], leases[msg[1]])
      BY <1>0, <2>1 DEF GrantsSound
    <3> QED
      BY <1>a, <3>1 DEF LeaseSame, Fits
  <2>2. CASE msg = <<next_lease, [file |-> f, volume |-> v, expires |-> now + TTL]>>
    BY <1>0, <1>1, <1>2, <2>2 DEF Fits
  <2> QED
    BY <1>1, <2>1, <2>2
<1>6. \A l \in revoking' : l < next_lease' /\ leases'[l] = None
  BY <1>0, <1>1, <1>2 DEF GrantsSound, LeaseSame
<1>7. \A l \in known' : l < next_lease' /\ Held(l)'
  BY <1>0, <1>1, <1>3 DEF GrantsSound
<1>8. ASSUME NEW d \in Connections, Confirmed(d)'
      PROVE  handler'[d].lease < next_lease' /\ Held(handler[d].lease)' /\ handler'[d] = handler[d]
  <2>1. d # c /\ handler'[d] = handler[d]
    BY <1>0, <1>1, <1>8 DEF Confirmed, Awaiting
  <2>2. Confirmed(d)
    BY <1>8, <2>1 DEF Confirmed, Awaiting
  <2>3. handler[d].lease \in LeaseIds /\ handler[d].lease < next_lease /\ Held(handler[d].lease)
    BY <1>0, <2>2 DEF GrantsSound
  <2>4. PICK l \in LeaseIds : l = handler[d].lease /\ l < next_lease /\ Held(l)
    BY <2>3
  <2>5. Held(l)' /\ l < next_lease'
    BY <1>a, <1>3, <2>4
  <2> QED
    BY <2>1, <2>4, <2>5 DEF Held, Usable, Active
<1> QED
  BY <1>4, <1>5, <1>6, <1>7, <1>8 DEF GrantsSound, Held, Usable, Active

LEMMA DeliveredGrants ==
  ASSUME CentralInv, GrantDelivered
  PROVE  GrantsSound'
<1>1. PICK msg \in sent :
        /\ sent' = sent \ {msg}
        /\ granted' = [granted EXCEPT ![msg[1]] = msg[2]]
        /\ handler' = [c \in Connections |->
                         IF handler[c] = [op |-> "grant", lease |-> msg[1]]
                           THEN [op |-> "granted", lease |-> msg[1]] ELSE handler[c]]
        /\ UNCHANGED <<fileTables, leaseTables, replicas, now, clock, online, revoking, known>>
  BY DEF GrantDelivered
<1>2. UNCHANGED <<leases, next_lease, now, clock, revoking, known>>
  BY <1>1 DEF leaseTables
<1>3. PICK k \in LeaseIds : k = msg[1]
  BY DEF CentralInv, CentralTypeOK
<1>4. msg[2] \in Grants /\ msg[2] # None
  BY CentralAssumption DEF CentralInv, CentralTypeOK
<1>5. granted'[k] = msg[2] /\ \A l \in LeaseIds \ {k} : granted'[l] = granted[l]
  BY <1>1, <1>3 DEF CentralInv, CentralTypeOK
<1>6. GrantsSound /\ known \subseteq LeaseIds /\ now \in Nat
  BY DEF CentralInv, CentralTypeOK
<1>7. \A l \in LeaseIds : l = k \/ Held(l) => Held(l)'
  BY <1>2, <1>4, <1>5 DEF Held, Usable, Active
<1>8. ASSUME NEW c \in Connections, Confirmed(c)'
      PROVE  /\ handler'[c].lease < next_lease
             /\ handler'[c].lease = k \/ (handler'[c].lease \in LeaseIds /\ Held(handler'[c].lease))
  <2>1. CASE handler[c] = [op |-> "grant", lease |-> msg[1]]
    BY <1>1, <1>3, <1>6, <2>1 DEF GrantsSound
  <2>2. CASE handler'[c] = handler[c]
    <3>1. Confirmed(c)
      BY <1>8, <2>2 DEF Confirmed, Awaiting
    <3>2. handler[c].lease \in LeaseIds
      BY <3>1, AwaitedLease DEF Confirmed, CentralInv
    <3> QED
      BY <1>6, <2>2, <3>1, <3>2 DEF GrantsSound
  <2> QED
    BY <1>1, <2>1, <2>2
<1>9. ASSUME NEW c \in Connections, Confirmed(c)'
      PROVE  handler'[c].lease < next_lease' /\ Held(handler[c].lease)'
  <2>1. PICK l : l = handler'[c].lease
    OBVIOUS
  <2>2. l < next_lease /\ l \in LeaseIds /\ (l = k \/ Held(l))
    BY <1>8, <1>9, <2>1
  <2>3. Held(l)'
    BY <1>7, <2>2
  <2> QED
    BY <1>2, <2>1, <2>2, <2>3 DEF Held, Usable, Active
<1>10. \A l \in LeaseIds : granted'[l] # None =>
        l < next_lease' /\ Fits(granted'[l], leases'[l])
  BY <1>2, <1>3, <1>5, <1>6 DEF GrantsSound
<1>11. \A m \in sent' : m[1] < next_lease' /\ Fits(m[2], leases'[m[1]])
  BY <1>1, <1>2, <1>6 DEF GrantsSound
<1>12. \A l \in revoking' : l < next_lease' /\ leases'[l] = None
  BY <1>2, <1>6 DEF GrantsSound
<1>13. \A l \in known' : l < next_lease' /\ Held(l)'
  BY <1>2, <1>6, <1>7 DEF GrantsSound
<1> QED
  BY <1>9, <1>10, <1>11, <1>12, <1>13 DEF GrantsSound

(* Steps that only take grants from a storage server, each for a lease     *)
(* that is gone, over, or marked lost.                                     *)
LEMMA GrantsDropped ==
  ASSUME CentralInv, LeasesKept, UNCHANGED <<now, clock, sent, known, handler>>,
         revoking' \subseteq revoking,
         \A l \in LeaseIds :
           \/ granted'[l] = granted[l]
           \/ granted'[l] = None /\ (Usable(l)' => leases'[l].lost)
  PROVE  GrantsSound'
<1>0. /\ GrantsSound /\ known \subseteq LeaseIds /\ revoking \subseteq LeaseIds /\ now \in Nat
      /\ \A msg \in sent : msg[1] \in LeaseIds
      /\ next_lease' = next_lease
      /\ \A l \in LeaseIds : leases'[l] # None => LeaseSame(l)
      /\ \A c \in Connections : Confirmed(c) => handler[c].lease \in LeaseIds
  BY AwaitedLease DEF CentralInv, CentralTypeOK, LeasesKept, Confirmed
<1>1. ASSUME NEW l \in LeaseIds, Held(l) PROVE Held(l)'
  <2>1. CASE granted'[l] = granted[l]
    BY <1>0, <1>1, <2>1, HeldKept, ClocksKept
  <2>2. CASE Usable(l)' => leases'[l].lost
    BY <2>2 DEF Held
  <2> QED
    BY <2>1, <2>2
<1>2. \A l \in LeaseIds : granted'[l] # None =>
        l < next_lease' /\ Fits(granted'[l], leases'[l])
  BY <1>0 DEF GrantsSound, LeaseSame, Fits
<1>3. \A msg \in sent' : msg[1] < next_lease' /\ Fits(msg[2], leases'[msg[1]])
  BY <1>0 DEF GrantsSound, LeaseSame, Fits
<1>4. \A l \in revoking' : l < next_lease' /\ leases'[l] = None
  BY <1>0 DEF GrantsSound, LeaseSame
<1>5. \A l \in known' : l < next_lease' /\ Held(l)'
  BY <1>0, <1>1 DEF GrantsSound
<1>6. ASSUME NEW c \in Connections, Confirmed(c)'
      PROVE  handler'[c].lease < next_lease' /\ Held(handler[c].lease)'
  <2>1. Confirmed(c)
    BY <1>6 DEF Confirmed, Awaiting
  <2> QED
    BY <1>0, <1>1, <2>1 DEF GrantsSound
<1> QED
  BY <1>2, <1>3, <1>4, <1>5, <1>6 DEF GrantsSound, Held, Usable, Active

LEMMA StorageGrants ==
  ASSUME CentralInv, NEW v \in Volumes, RetainUnexpired(v) \/ StorageRestart(v)
  PROVE  GrantsSound'
<1>0. /\ GrantsSound /\ CentralTypeOK
      /\ granted \in [LeaseIds -> Grants \cup {None}]
      /\ leases \in [LeaseIds -> LeaseRows \cup {None}] /\ clock \in [Volumes -> Nat]
  BY DEF CentralInv, CentralTypeOK
<1>1. CASE RetainUnexpired(v)
  <2>1. /\ UNCHANGED <<leases, next_lease, now, clock, sent, known, handler, revoking>>
        /\ LeasesKept
    BY <1>1, LeasesUnchanged DEF RetainUnexpired, leaseTables
  <2>2. ASSUME NEW l \in LeaseIds, granted[l] # None, granted[l].volume = v,
               granted[l].expires <= clock[v]
        PROVE  ~Usable(l)'
    <3>1. leases[l] # None => /\ leases[l].expires = granted[l].expires /\ leases[l].volume = v
                              /\ leases[l].expires \in Nat
      BY <1>0, <2>2 DEF GrantsSound, Fits, LeaseRows
    <3> QED
      BY <1>0, <2>1, <2>2, <3>1 DEF Usable, Active
  <2>3. \A l \in LeaseIds : \/ granted'[l] = granted[l]
                            \/ granted'[l] = None /\ ~Usable(l)'
    BY <1>1, <2>2 DEF RetainUnexpired
  <2> QED
    BY <2>1, <2>3, GrantsDropped
<1>2. CASE StorageRestart(v)
  <2>1. LeasesKept /\ UNCHANGED <<now, clock, sent, known, handler, revoking>>
    BY <1>0, <1>2, RestartKept DEF StorageRestart
  <2>2. \A r \in LeaseRows : [r EXCEPT !.lost = TRUE].lost
    BY DEF LeaseRows
  <2>3. \A l \in LeaseIds : \/ granted'[l] = granted[l]
                            \/ granted'[l] = None /\ (leases'[l] # None => leases'[l].lost)
    BY <1>0, <1>2, <2>2 DEF StorageRestart
  <2> QED
    BY <2>1, <2>3, GrantsDropped DEF Usable, Active
<1> QED
  BY <1>1, <1>2

LEMMA RevokedGrants ==
  ASSUME CentralInv, RevokeDelivered
  PROVE  GrantsSound'
<1>1. PICK k \in revoking : /\ revoking' = revoking \ {k}
                            /\ granted' = [granted EXCEPT ![k] = None]
  BY DEF RevokeDelivered
<1>2. LeasesKept /\ UNCHANGED <<leases, now, clock, sent, known, handler>>
  BY LeasesUnchanged DEF RevokeDelivered, leaseTables
<1>3. k \in LeaseIds /\ leases[k] = None
  BY <1>1 DEF CentralInv, CentralTypeOK, GrantsSound
<1>4. \A l \in LeaseIds : granted'[l] = granted[l] \/ (l = k /\ granted'[l] = None)
  BY <1>1, <1>3 DEF CentralInv, CentralTypeOK
<1>5. ~Usable(k)'
  BY <1>2, <1>3 DEF Usable, Active
<1> QED
  BY <1>1, <1>2, <1>4, <1>5, GrantsDropped

LEMMA GrantsStep == CentralInv /\ [CentralNext]_centralVars => GrantsSound'
<1> SUFFICES ASSUME CentralInv, [CentralNext]_centralVars PROVE GrantsSound'
  OBVIOUS
<1>0. /\ CentralTypeOK /\ (UNCHANGED <<now, clock>> => ClocksForward)
      /\ handler \in [Connections -> Handlers \cup {None}]
  BY ClocksKept DEF CentralInv, CentralTypeOK
<1>1. CASE BeginStep
  <2>0. Offsets \subseteq Nat /\ files \in [FileIds -> FileRows \cup {None}]
    BY CentralAssumption DEF CentralInv, CentralTypeOK
  <2>1. ASSUME NEW c \in Connections, NEW v \in Volumes, NEW offset \in Offsets,
               NEW f \in FileIds, BeginExisting(c, f, v, offset)
        PROVE  GrantsSound'
    <3>1. StartLease(c, f, v, files[f], offset) /\ FileFree(f) /\ files[f] \in FileRows
      BY <2>0, <2>1 DEF BeginExisting, Live
    <3> QED
      BY <2>0, <3>1, StartLeaseBegun, BeginGrants
  <2>2. ASSUME NEW c \in Connections, NEW v \in Volumes, NEW offset \in Offsets,
               NEW p \in Paths, BeginNew(c, p, v, offset)
        PROVE  GrantsSound'
    <3>1. Made(p, [path |-> p, size |-> 0, bundles |-> <<>>])
      BY <2>2, BeginNewMade
    <3>2. next_file \in FileIds /\ files'[next_file] \in FileRows
      BY <2>0, <3>1 DEF Made
    <3>3. StartLease(c, next_file, v, files'[next_file], 0) /\ files[next_file] = None
      BY <2>2, <3>2, NextIds DEF BeginNew, CentralInv, FilesFresh
    <3> QED
      BY <3>2, <3>3, StartLeaseBegun, BeginGrants
  <2> QED
    BY <1>1, <2>1, <2>2 DEF BeginStep
<1>2. CASE GrantDelivered \/ RevokeDelivered
  BY <1>2, DeliveredGrants, RevokedGrants
<1>3. CASE \E v \in Volumes : RetainUnexpired(v) \/ StorageRestart(v)
  BY <1>3, StorageGrants
<1>4. ASSUME LeasesKept, NEW c \in Connections, handler' = [handler EXCEPT ![c] = handler'[c]],
             ~Confirmed(c)', UNCHANGED <<now, clock, granted, sent, known>>,
             \A l \in revoking' : l \in revoking \/
                                    (l \in LeaseIds /\ l < next_lease /\ leases'[l] = None)
      PROVE  GrantsSound'
  <2>1. \A d \in Connections : Confirmed(d)' => handler'[d] = handler[d]
    BY <1>0, <1>4
  <2> QED
    BY <1>0, <1>4, <2>1, GrantsKept
<1>5. ASSUME LeasesKept, UNCHANGED <<granted, sent, known, revoking>>, ClocksForward,
             handler' = handler \/ handler' = [c \in Connections |-> None]
      PROVE  GrantsSound'
  <2>1. \A d \in Connections : Confirmed(d)' => handler'[d] = handler[d]
    BY <1>5 DEF Confirmed, Awaiting
  <2> QED
    BY <1>5, <2>1, GrantsKept
<1>a. \A c \in Connections : Finish(c) =>
        handler' = [handler EXCEPT ![c] = handler'[c]] /\ ~Confirmed(c)'
  BY <1>0 DEF Finish, Confirmed, Awaiting
<1>b. BeginStep \/ LeasesKept
  BY OthersKeep
<1>6. CASE UpdateNext
  <2>1. ASSUME NEW c \in Connections, GrantAnswered(c) PROVE GrantsSound'
    <3>1. LeasesKept /\ UNCHANGED <<now, clock, granted, sent, revoking>>
      BY <2>1, LeasesUnchanged DEF GrantAnswered, leaseTables, storageSide
    <3>2. \A d \in Connections : Confirmed(d)' => handler'[d] = handler[d]
      BY <1>0, <1>a, <2>1 DEF GrantAnswered
    <3>3. \A l \in known' : l \in known \/ \E d \in Connections : Confirmed(d) /\ l = handler[d].lease
      BY <2>1 DEF GrantAnswered
    <3> QED
      BY <1>0, <3>1, <3>2, <3>3, GrantsKept
  <2>2. ASSUME NEW c \in Connections, GrantFailed(c) \/ BeginDropped(c), LeasesKept
        PROVE  GrantsSound'
    BY <1>4, <1>a, <2>2 DEF GrantFailed, BeginDropped, storageSide
  <2>3. ASSUME NEW c \in Connections, NEW l \in LeaseIds, CommitCheck(c, l), LeasesKept
        PROVE  GrantsSound'
    <3>1. handler' = [handler EXCEPT ![c] = handler'[c]] /\ ~Confirmed(c)'
      BY <1>0, <2>3 DEF CommitCheck, Confirmed, Awaiting
    <3>2. UNCHANGED <<now, clock, granted, sent, known, revoking>>
      BY <2>3 DEF CommitCheck, storageSide
    <3>3. \A k \in revoking' : k \in revoking
      BY <3>2
    <3> QED
      BY <1>4, <2>3, <3>1, <3>2, <3>3, Zenon
  <2>4. ASSUME NEW c \in Connections, NEW req \in Commits, CommitApply(c, req), LeasesKept
        PROVE  GrantsSound'
    <3>1. PICK l \in LeaseIds : l = handler[c].lease /\ leases[l] # None
      BY <2>4, CommitRewritten
    <3>2. leases'[l] = None /\ l < next_lease
      BY <1>0, <2>4, <3>1, NextIds
      DEF CommitApply, Spent, CentralInv, CentralTypeOK, LeasesFresh
    <3>3. UNCHANGED <<now, clock, granted, sent, known>> /\ revoking' = revoking \cup {l} /\ Finish(c)
      BY <2>4, <3>1 DEF CommitApply
    <3>4. \A k \in revoking' : k \in revoking \/
                               (k \in LeaseIds /\ k < next_lease /\ leases'[k] = None)
      BY <3>2, <3>3
    <3>5. handler' = [handler EXCEPT ![c] = handler'[c]] /\ ~Confirmed(c)'
      BY <1>a, <3>3
    <3> QED
      BY <1>4, <2>4, <3>3, <3>4, <3>5
  <2>5. ASSUME NEW c \in Connections, NEW l \in LeaseIds, AbortUpdate(c, l), LeasesKept
        PROVE  GrantsSound'
    <3>1. leases'[l] = None /\ l < next_lease
      BY <1>0, <2>5, NextIds DEF AbortUpdate, Active, CentralInv, CentralTypeOK, LeasesFresh
    <3>2. \A d \in Connections : Confirmed(d)' => handler'[d] = handler[d]
      BY <2>5 DEF AbortUpdate
    <3>3. UNCHANGED <<now, clock, granted, sent, known>> /\ revoking' = revoking \cup {l}
      BY <2>5 DEF AbortUpdate
    <3> QED
      BY <1>0, <2>5, <3>1, <3>2, <3>3, GrantsKept
  <2>6. ASSUME RequestLost, LeasesKept PROVE GrantsSound'
    <3>1. /\ sent' \subseteq sent /\ revoking' \subseteq revoking
          /\ UNCHANGED <<now, clock, granted, known, handler>>
      BY <2>6 DEF RequestLost
    <3> QED
      BY <1>0, <2>6, <3>1, GrantsKept
  <2>7. \/ BeginStep \/ GrantDelivered \/ RevokeDelivered \/ RequestLost
        \/ \E c \in Connections : \/ GrantAnswered(c) \/ GrantFailed(c) \/ BeginDropped(c)
                                  \/ \E l \in LeaseIds : CommitCheck(c, l) \/ AbortUpdate(c, l)
                                  \/ \E req \in Commits : CommitApply(c, req)
    BY <1>6 DEF UpdateNext, BeginStep
  <2> QED
    BY <1>1, <1>2, <1>b, <2>1, <2>2, <2>3, <2>4, <2>5, <2>6, <2>7
<1>7. CASE FileNext
  <2>1. ASSUME NEW c \in Connections, LeasesKept,
               DeleteFile(c) \/ CopyFile(c) \/ RenameFile(c) \/ Refused(c)
        PROVE  GrantsSound'
    <3>1. Finish(c) /\ UNCHANGED <<now, clock, granted, sent, known, revoking>>
      BY <2>1 DEF DeleteFile, CopyFile, RenameFile, Refused, storageSide
    <3> QED
      BY <1>4, <1>a, <2>1, <3>1
  <2>2. ASSUME NEW c \in Connections, NEW f, NEW req, FileRequest(c, f, req), LeasesKept,
               req.op \in {"delete", "copy", "rename"}
        PROVE  GrantsSound'
    <3>1. /\ UNCHANGED <<now, clock, granted, sent, known, revoking>>
          /\ handler' = [handler EXCEPT ![c] = req] /\ handler'[c] = req
      BY <1>0, <2>2 DEF FileRequest, storageSide
    <3>2. ~Confirmed(c)'
      BY <2>2, <3>1 DEF Confirmed, Awaiting
    <3> QED
      BY <1>4, <2>2, <3>1, <3>2
  <2>3. ASSUME NEW f PROVE \A op \in {"copy", "rename"}, p \in Paths :
          [op |-> op, file |-> f, target |-> p].op \in {"delete", "copy", "rename"}
    OBVIOUS
  <2>4. ASSUME BeginStep PROVE GrantsSound'
    BY <1>1, <2>4
  <2> QED
    BY <1>7, <1>b, <2>1, <2>2, <2>4 DEF FileNext
<1>8. CASE StorageNext \/ Tick \/ CentralRestart
  <2>1. ASSUME Tick \/ \E v \in Volumes : StorageTick(v) PROVE ClocksForward
    <3>1. now \in Nat /\ clock \in [Volumes -> Nat]
      BY <1>0 DEF CentralTypeOK
    <3>2. CASE Tick
      BY <3>1, <3>2 DEF Tick, ClocksForward
    <3>3. ASSUME NEW v \in Volumes, StorageTick(v) PROVE ClocksForward
      <4>1. clock[v] + 1 \in Nat /\ clock[v] + 1 >= clock[v]
        BY <3>1
      <4>2. clock' \in [Volumes -> Nat] /\ now' = now
        BY <3>1, <3>3, <4>1 DEF StorageTick
      <4>3. \A w \in Volumes : clock'[w] >= clock[w]
        BY <3>1, <3>3, <4>1 DEF StorageTick
      <4> QED
        BY <3>1, <4>2, <4>3 DEF ClocksForward
    <3> QED
      BY <2>1, <3>2, <3>3
  <2> QED
    BY <1>0, <1>1, <1>3, <1>5, <1>8, <1>b, <2>1
    DEF StorageNext, ReportBundleReplica, RegisterStorage, UnregisterStorage, StorageTick, Tick,
        CentralRestart, storageSide
<1>9. CASE UNCHANGED centralVars
  BY <1>0, <1>1, <1>5, <1>9, <1>b DEF centralVars
<1> QED
  BY <1>6, <1>7, <1>8, <1>9 DEF CentralNext

-----------------------------------------------------------------------------
(* Only a report changes bundle_replicas, and it writes what it reports.   *)
LEMMA ReplicaStep ==
  ASSUME CentralTypeOK, [CentralNext]_centralVars
  PROVE  \A b \in BundleIds, v \in Volumes :
           replicas'[<<b, v>>] = replicas[<<b, v>>] \/ replicas'[<<b, v>>] \in Reports[b]
<1>1. CASE replicas' = replicas
  BY <1>1
<1>2. ASSUME NEW w \in Volumes, NEW reported, ReportBundleReplica(w, reported),
             \A b \in DOMAIN reported : reported[b] \in Reports[b],
             NEW b \in BundleIds, NEW v \in Volumes
      PROVE  replicas'[<<b, v>>] = replicas[<<b, v>>] \/ replicas'[<<b, v>>] \in Reports[b]
  <2>1. PICK bv \in BundleIds \X Volumes : bv = <<b, v>>
    OBVIOUS
  <2>a. bv[1] = b /\ bv[2] = v
    BY <2>1
  <2>b. replicas'[bv] = IF bv[2] = w /\ bv[1] \in DOMAIN reported
                          THEN reported[bv[1]] ELSE replicas[bv]
    BY <1>2 DEF ReportBundleReplica
  <2>2. replicas'[bv] = replicas[bv] \/ (b \in DOMAIN reported /\ replicas'[bv] = reported[b])
    BY <2>a, <2>b
  <2>3. replicas'[bv] = replicas[bv] \/ replicas'[bv] \in Reports[b]
    BY <1>2, <2>2, Zenon
  <2> QED
    BY <2>1, <2>3, Zenon
<1>3. CASE UpdateNext
  <2>1. CASE BeginStep
    <3>1. replicas' = replicas
      BY <2>1 DEF BeginStep, BeginExisting, BeginNew, StartLease
    <3> QED
      BY <1>1, <3>1
  <2>2. CASE ~BeginStep
    BY <1>1, <1>3, <2>2 DEF UpdateNext, BeginStep, GrantAnswered, GrantFailed, BeginDropped,
      CommitCheck, CommitApply, AbortUpdate, GrantDelivered, RevokeDelivered, RequestLost
  <2> QED
    BY <2>1, <2>2
<1>4. CASE FileNext
  BY <1>1, <1>4 DEF FileNext, FileRequest, DeleteFile, CopyFile, RenameFile, Refused
<1>5. CASE StorageNext \/ Tick \/ CentralRestart \/ UNCHANGED centralVars
  <2>1. ASSUME NEW w \in Volumes, NEW B \in SUBSET BundleIds,
               NEW reported \in [B -> UNION {Reports[b] : b \in B}],
               \A b \in B : reported[b] \in Reports[b], ReportBundleReplica(w, reported)
        PROVE  \A b \in BundleIds, v \in Volumes :
                 replicas'[<<b, v>>] = replicas[<<b, v>>] \/ replicas'[<<b, v>>] \in Reports[b]
    BY <1>2, <2>1
  <2>2. \/ replicas' = replicas
        \/ \E w \in Volumes : \E B \in SUBSET BundleIds :
             \E reported \in [B -> UNION {Reports[b] : b \in B}] :
               /\ \A b \in B : reported[b] \in Reports[b]
               /\ ReportBundleReplica(w, reported)
    BY <1>5 DEF StorageNext, RegisterStorage, UnregisterStorage,
      RetainUnexpired, StorageRestart, StorageTick, Tick, CentralRestart, centralVars
  <2> QED
    BY <1>1, <2>1, <2>2
<1> QED
  BY <1>3, <1>4, <1>5 DEF CentralNext

LEMMA CentralInitInv == CentralInit => CentralInv
<1> SUFFICES ASSUME CentralInit PROVE CentralInv
  OBVIOUS
<1> USE CentralAssumption DEF CentralInit
<1>1. CentralTypeOK
  BY DEF CentralTypeOK
<1>2. FilesFresh /\ LeasesFresh /\ NoLostUpdate /\ RowsSound
  BY DEF FilesFresh, LeasesFresh, NoLostUpdate, RowsSound
<1>3. PathsFormTree /\ CreatedLogged /\ ReplicasSound
  BY DEF PathsFormTree, CreatedLogged, ReplicasSound, Live
<1>4. LogReplays
  BY DEF LogReplays, FileIds
<1>5. GrantsSound
  BY DEF GrantsSound, Confirmed, Awaiting
<1> QED
  BY <1>1, <1>2, <1>3, <1>4, <1>5 DEF CentralInv

LEMMA CentralStepInv == CentralInv /\ [CentralNext]_centralVars => CentralInv'
<1> SUFFICES ASSUME CentralInv, [CentralNext]_centralVars PROVE CentralInv'
  OBVIOUS
<1>1. CentralTypeOK'
  BY TypeStep DEF CentralInv
<1>2. FilesFresh' /\ RowsSound' /\ PathsFormTree' /\ LogRight' /\ CreatedLogged'
  BY FileSteps, FreshStep, RowsStep, TreeStep, LogStep
<1>3. LogReplays'
  BY <1>1, <1>2, LogMeans, PTL
<1>4. LeasesFresh' /\ NoLostUpdate' /\ GrantsSound'
  BY LeaseStep, GrantsStep
<1>5. ReplicasSound'
  <2>1. ASSUME NEW b \in BundleIds, NEW v \in Volumes
        PROVE  replicas'[<<b, v>>] \in Reports[b] \cup {0}
    <3>1. replicas[<<b, v>>] \in Reports[b] \cup {0}
      BY DEF CentralInv, ReplicasSound
    <3> QED
      BY <3>1, ReplicaStep DEF CentralInv
  <2> QED
    BY <2>1 DEF ReplicasSound
<1> QED
  BY <1>1, <1>2, <1>3, <1>4, <1>5 DEF CentralInv

LEMMA CentralInvariant == CentralSpec => []CentralInv
BY CentralInitInv, CentralStepInv, PTL DEF CentralSpec

-----------------------------------------------------------------------------
(* An update lease protects its file: whatever expires, is deleted, copied *)
(* or restarted, while the row exists the file has the content and size    *)
(* begin_update saw, so commit_update's comparison of sizes is enough.     *)
THEOREM LeasesProtect == CentralSpec => []NoLostUpdate
<1>1. CentralInv => NoLostUpdate
  BY DEF CentralInv
<1> QED
  BY <1>1, CentralInvariant, PTL

(* A read plan covers its file: by the first replicas online now, the      *)
(* lengths of the bundles add up to the size commit_update checked by the  *)
(* first replicas there were then, whichever volumes come, go, report and  *)
(* delete, if no two reports of one of its bundles disagree.               *)
THEOREM PlansRight == CentralSpec => []PlansAddUp
<1>1. CentralInv => PlansAddUp
  <2> SUFFICES ASSUME CentralInv, NEW f \in Live, Undisputed(files[f].bundles),
                      Planned(files[f].bundles)
               PROVE  SizeAmong(files[f].bundles, online) = files[f].size
    BY DEF PlansAddUp
  <2>1. files[f] \in FileRows /\ RowSound(files[f].bundles, files[f].size)
    BY DEF CentralInv, CentralTypeOK, RowsSound, Live
  <2>2. PICK list \in Seq(BundleIds) : list = files[f].bundles
    BY <2>1 DEF FileRows
  <2>3. SizeAmong(list, online) = AgreedSize(list)
    BY <2>2, FirstReplicaSizes DEF CentralInv, CentralTypeOK, Planned
  <2> QED
    BY <2>1, <2>2, <2>3 DEF RowSound
<1> QED
  BY <1>1, CentralInvariant, PTL

(* Files and directories form a tree, whatever concurrent begin_update,    *)
(* copy_file and rename_file requests were decided on before.              *)
THEOREM TreeKept == CentralSpec => []PathsFormTree
<1>1. CentralInv => PathsFormTree
  BY DEF CentralInv
<1> QED
  BY <1>1, CentralInvariant, PTL

(* Replaying file_events yields the files.                                 *)
THEOREM LogReplayed == CentralSpec => []LogReplays
<1>1. CentralInv => LogReplays
  BY DEF CentralInv
<1> QED
  BY <1>1, CentralInvariant, PTL

(* A lease begin_update answered with is held by the storage server while  *)
(* it has expired neither by central's clock nor by the storage host's,    *)
(* however far apart the two run and whatever grants and revocations are   *)
(* lost or late, unless the storage server restarted.                      *)
THEOREM GrantsHeld == CentralSpec => []GrantHeld
<1>1. CentralInv => GrantHeld
  BY DEF CentralInv, GrantsSound, Held, GrantHeld
<1> QED
  BY <1>1, CentralInvariant, PTL

(* What a file holds after a step, some file held before, or commit_update *)
(* found replicas for.                                                     *)
LEMMA ContentFrom ==
  ASSUME CentralInv, [CentralNext]_centralVars, NEW f \in FileIds, files'[f] # None
  PROVE  \/ \E g \in FileIds : files[g] # None /\ files'[f].bundles = files[g].bundles
         \/ \A i \in DOMAIN files'[f].bundles : HasReplica(files'[f].bundles[i])
<1>0. files \in [FileIds -> FileRows \cup {None}]
  BY DEF CentralInv, CentralTypeOK
<1>1. CASE \E c \in Connections, req \in Commits : CommitApply(c, req)
  <2>1. PICK c \in Connections, req \in Commits : CommitApply(c, req)
    BY <1>1
  <2>2. PICK k : Rewritten(k, req)
    BY <2>1, CommitRewritten
  <2>3. CASE f # k
    BY <1>0, <2>2, <2>3 DEF Rewritten
  <2>4. CASE f = k
    <3>1. files'[f] = NewRow(files[f], req) /\ files[f] \in FileRows
      BY <1>0, <2>2, <2>4 DEF Rewritten
    <3>2. PICK list \in Seq(BundleIds) : list = IdsOf(req.bundles) /\ files'[f].bundles = list
      BY <3>1, RequestFacts DEF NewRow, FileRows
    <3>a. BundlesAgree(req)
      BY <2>1 DEF CommitApply, Committable
    <3>b. \A i \in 1 .. Len(req.bundles) : HasReplica(req.bundles[i].id)
      BY <3>a, RequestFacts DEF BundlesAgree
    <3>c. /\ DOMAIN list = 1 .. Len(list) /\ Len(list) = Len(req.bundles)
          /\ \A i \in 1 .. Len(req.bundles) : list[i] = req.bundles[i].id
      BY <3>2, RequestFacts
    <3>3. \A i \in DOMAIN list : HasReplica(list[i])
      BY <3>b, <3>c
    <3> QED
      BY <3>2, <3>3
  <2> QED
    BY <2>3, <2>4
<1>2. CASE BeginStep
  <2>1. CASE files' = files
    BY <2>1
  <2>2. ASSUME NEW p, Made(p, [path |-> p, size |-> 0, bundles |-> <<>>])
        PROVE  files'[f].bundles = <<>> \/ files'[f] = files[f]
    BY <1>0, <2>2 DEF Made
  <2>3. files' = files \/ \E p : Made(p, [path |-> p, size |-> 0, bundles |-> <<>>])
    BY <1>2, BeginNewMade DEF BeginStep, BeginExisting
  <2>4. CASE files'[f].bundles = <<>>
    BY <2>4
  <2>5. CASE files'[f] = files[f]
    BY <2>5
  <2> QED
    BY <2>1, <2>2, <2>3, <2>4, <2>5
<1>3. CASE \E c \in Connections : CopyFile(c)
  <2>1. PICK c \in Connections : CopyFile(c)
    BY <1>3
  <2>2. PICK g \in FileIds : g = handler[c].file /\ files[g] # None
    BY <2>1 DEF CopyFile, Live
  <2>3. PICK row : row = [files[g] EXCEPT !.path = handler[c].target]
    OBVIOUS
  <2>4. row.bundles = files[g].bundles
    BY <1>0, <2>2, <2>3 DEF FileRows
  <2>5. Made(handler[c].target, row)
    BY <2>1, <2>2, <2>3, CopyMade
  <2>6. files'[f] = row \/ files'[f] = files[f]
    BY <1>0, <2>5 DEF Made
  <2> QED
    BY <2>2, <2>4, <2>6
<1>4. ASSUME NEW g, NEW p, Renamed(g, p)
      PROVE  files[f] # None /\ files'[f].bundles = files[f].bundles
  BY <1>0, <1>4 DEF Renamed, FileRows
<1>5. ASSUME NEW g, Removed(g) PROVE files'[f] = files[f]
  BY <1>0, <1>5 DEF Removed
<1>6. \/ files' = files
      \/ \E c \in Connections, req \in Commits : CommitApply(c, req)
      \/ BeginStep
      \/ \E c \in Connections : CopyFile(c) \/ RenameFile(c) \/ DeleteFile(c)
  <2>1. CASE UpdateNext
    BY <2>1 DEF UpdateNext, BeginStep, GrantAnswered, GrantFailed, BeginDropped, CommitCheck,
      AbortUpdate, GrantDelivered, RevokeDelivered, RequestLost, fileTables
  <2>2. CASE FileNext
    BY <2>2 DEF FileNext, FileRequest, Refused, fileTables
  <2>3. CASE StorageNext \/ Tick \/ CentralRestart \/ UNCHANGED centralVars
    BY <2>3 DEF StorageNext, ReportBundleReplica, RegisterStorage, UnregisterStorage,
      RetainUnexpired, StorageRestart, StorageTick, Tick, CentralRestart, centralVars, fileTables
  <2> QED
    BY <2>1, <2>2, <2>3 DEF CentralNext
<1>7. CASE files' = files
  BY <1>7
<1>8. CASE \E c \in Connections : RenameFile(c)
  BY <1>4, <1>8, RenameRenamed
<1>9. CASE \E c \in Connections : DeleteFile(c)
  BY <1>5, <1>9, DeleteRemoved
<1> QED
  BY <1>1, <1>2, <1>3, <1>6, <1>7, <1>8, <1>9

(* As long as no storage server reports a bundle as deleted (and none      *)
(* does: nothing calls delete_bundle), every bundle of every file has a    *)
(* replica.                                                                *)
THEOREM BundlesFound ==
  ASSUME \A b \in BundleIds : 0 \notin Reports[b]
  PROVE  CentralSpec => []FilesReadable
<1>1. CentralInit => FilesReadable
  BY DEF CentralInit, FilesReadable, Live
<1>2. CentralInv /\ FilesReadable /\ [CentralNext]_centralVars => FilesReadable'
  <2> SUFFICES ASSUME CentralInv, FilesReadable, [CentralNext]_centralVars
               PROVE  FilesReadable'
    OBVIOUS
  <2>0. files \in [FileIds -> FileRows \cup {None}]
    BY DEF CentralInv, CentralTypeOK
  <2>1. ASSUME NEW b \in BundleIds, NEW v \in Volumes, replicas[<<b, v>>] > 0
        PROVE  replicas'[<<b, v>>] > 0
    <3>1. replicas'[<<b, v>>] = replicas[<<b, v>>] \/ replicas'[<<b, v>>] \in Reports[b]
      BY ReplicaStep DEF CentralInv
    <3>2. \A n \in Reports[b] : n \in Nat /\ n # 0
      BY CentralAssumption
    <3> QED
      BY <2>1, <3>1, <3>2
  <2>2. \A b \in BundleIds : HasReplica(b) => HasReplica(b)'
    BY <2>1 DEF HasReplica
  <2>3. ASSUME NEW f \in FileIds, files'[f] # None
        PROVE  \/ \E g \in FileIds : files[g] # None /\ files'[f].bundles = files[g].bundles
               \/ \A i \in DOMAIN files'[f].bundles : HasReplica(files'[f].bundles[i])
    BY <2>3, ContentFrom
  <2>4. ASSUME NEW f \in FileIds, files'[f] # None, NEW i \in DOMAIN files'[f].bundles
        PROVE  HasReplica(files'[f].bundles[i]) \/ HasReplica(files[f].bundles[i])'
    BY <2>3, <2>4 DEF FilesReadable, Live
  <2>5. ASSUME NEW f \in FileIds, files'[f] # None, NEW i \in DOMAIN files'[f].bundles
        PROVE  HasReplica(files[f].bundles[i])'
    <3>1. PICK b \in BundleIds : b = files'[f].bundles[i]
      BY <2>5, TypeStep DEF CentralInv, CentralTypeOK, FileRows
    <3>2. HasReplica(b)'
      BY <2>2, <2>4, <2>5, <3>1 DEF HasReplica
    <3> QED
      BY <3>1, <3>2 DEF HasReplica
  <2> QED
    BY <2>5 DEF FilesReadable, Live
<1> QED
  BY <1>1, <1>2, CentralInvariant, PTL DEF CentralSpec

-----------------------------------------------------------------------------
(* The file store that central implements.                                 *)
Contents == [f \in FileIds |-> IF files[f] = None THEN None ELSE files[f].bundles]
UpdateOf(row) == IF row = None THEN None ELSE [file |-> row.file, over |-> row.over]
Updates == [l \in LeaseIds |-> UpdateOf(leases[l])]
UsedFiles == {f \in FileIds : f < next_file}
UsedLeases == {l \in LeaseIds : l < next_lease}
Dropping(U) == [l \in LeaseIds |-> IF l \in U THEN None ELSE Updates[l]]

LEMMA StoreStutter ==
  ASSUME Contents' = Contents, UsedFiles' = UsedFiles, Updates' = Updates,
         UsedLeases' = UsedLeases
  PROVE  UNCHANGED Store!storeVars
BY DEF Store!storeVars, Contents, Updates, UpdateOf, UsedFiles, UsedLeases

LEMMA StoreOpen ==
  ASSUME NEW u \in LeaseIds, NEW f \in FileIds, NEW U \in SUBSET {l \in LeaseIds : leases[l] # None},
         \A l \in LeaseIds : Updates[l] = None <=> leases[l] = None,
         u \notin UsedLeases,
         \A l \in LeaseIds : Dropping(U)[l] # None => Dropping(U)[l].file # f,
         \/ f \in UsedFiles /\ Contents[f] # None /\ Contents' = Contents /\ UsedFiles' = UsedFiles
         \/ f \notin UsedFiles /\ Contents' = [Contents EXCEPT ![f] = <<>>]
            /\ UsedFiles' = UsedFiles \cup {f},
         Updates' = [Dropping(U) EXCEPT ![u] = [file |-> f, over |-> Contents'[f]]],
         UsedLeases' = UsedLeases \cup {u}
  PROVE  Store!Next
<1>1. U \in SUBSET {l \in LeaseIds : Updates[l] # None}
  OBVIOUS
<1>2. Store!Open(u, f, U)
  BY DEF Store!Open, Store!Without, Dropping, Contents, Updates, UpdateOf, UsedFiles, UsedLeases
<1> QED
  BY <1>1, <1>2 DEF Store!Next, Updates, UpdateOf

LEMMA StoreInstall ==
  ASSUME NEW u \in LeaseIds, NEW new \in BundleLists, Updates[u] # None,
         Contents[Updates[u].file] = Updates[u].over,
         Contents' = [Contents EXCEPT ![Updates[u].file] = new],
         Updates' = Dropping({u}), UsedFiles' = UsedFiles, UsedLeases' = UsedLeases
  PROVE  Store!Next
<1>1. Store!Install(u, new)
  BY DEF Store!Install, Store!Without, Dropping, Contents, Updates, UpdateOf, UsedFiles, UsedLeases
<1> QED
  BY <1>1 DEF Store!Next

LEMMA StoreDrop ==
  ASSUME NEW u \in LeaseIds, Updates' = Dropping({u}), Contents' = Contents,
         UsedFiles' = UsedFiles, UsedLeases' = UsedLeases
  PROVE  Store!Next
<1>1. Store!Drop(u)
  BY DEF Store!Drop, Store!Without, Dropping, Contents, Updates, UpdateOf, UsedFiles, UsedLeases
<1> QED
  BY <1>1 DEF Store!Next

LEMMA StoreCopy ==
  ASSUME NEW f \in FileIds, NEW g \in FileIds, Contents[f] # None, g \notin UsedFiles,
         Contents' = [Contents EXCEPT ![g] = Contents[f]], UsedFiles' = UsedFiles \cup {g},
         Updates' = Updates, UsedLeases' = UsedLeases
  PROVE  Store!Next
<1>1. Store!Copy(f, g)
  BY DEF Store!Copy, Contents, Updates, UpdateOf, UsedFiles, UsedLeases
<1> QED
  BY <1>1 DEF Store!Next

LEMMA StoreRemove ==
  ASSUME NEW f \in FileIds, Contents[f] # None, Contents' = [Contents EXCEPT ![f] = None],
         Updates' = Dropping({u \in LeaseIds : Updates[u] # None /\ Updates[u].file = f}),
         UsedFiles' = UsedFiles, UsedLeases' = UsedLeases
  PROVE  Store!Next
<1>1. Store!Remove(f)
  BY DEF Store!Remove, Store!Without, Dropping, Contents, Updates, UpdateOf, UsedFiles, UsedLeases
<1> QED
  BY <1>1 DEF Store!Next

LEMMA Mapped ==
  ASSUME CentralTypeOK
  PROVE  /\ \A l \in LeaseIds : Updates[l] = None <=> leases[l] = None
         /\ \A l \in LeaseIds : leases[l] # None =>
              Updates[l].file = leases[l].file /\ Updates[l].over = leases[l].over
         /\ \A f \in FileIds : Contents[f] = None <=> files[f] = None
         /\ \A f \in FileIds : files[f] # None => Contents[f] = files[f].bundles
<1>1. \A r \in LeaseRows : [file |-> r.file, over |-> r.over] \in [file : FileIds, over : Seq(BundleIds)]
  BY DEF LeaseRows
<1>2. \A r \in FileRows : r.bundles \in Seq(BundleIds)
  BY DEF FileRows
<1>3. \A l \in LeaseIds : leases[l] # None => leases[l] \in LeaseRows
  BY DEF CentralTypeOK
<1>4. \A f \in FileIds : files[f] # None => files[f] \in FileRows
  BY DEF CentralTypeOK
<1>5. \A l \in LeaseIds : leases[l] # None =>
        Updates[l] # None /\ Updates[l] = [file |-> leases[l].file, over |-> leases[l].over]
  BY <1>1, <1>3, CentralAssumption DEF Updates, UpdateOf
<1>6. \A l \in LeaseIds : leases[l] = None => Updates[l] = None
  BY DEF Updates, UpdateOf
<1>7. \A f \in FileIds : files[f] # None => Contents[f] # None /\ Contents[f] = files[f].bundles
  BY <1>2, <1>4, CentralAssumption DEF Contents
<1>8. \A f \in FileIds : files[f] = None => Contents[f] = None
  BY DEF Contents
<1>9. ASSUME NEW l \in LeaseIds, leases[l] # None
      PROVE  Updates[l].file = leases[l].file /\ Updates[l].over = leases[l].over
  <2>1. Updates[l] = [file |-> leases[l].file, over |-> leases[l].over]
    BY <1>5, <1>9
  <2> QED
    BY <2>1
<1>10. \A l \in LeaseIds : Updates[l] = None <=> leases[l] = None
  BY <1>5, <1>6
<1>11. \A f \in FileIds : Contents[f] = None <=> files[f] = None
  BY <1>7, <1>8
<1> QED
  BY <1>7, <1>9, <1>10, <1>11

(* Steps that leave the content of files alone.                            *)
LEMMA ContentsSame ==
  ASSUME files' = files, next_file' = next_file
  PROVE  Contents' = Contents /\ UsedFiles' = UsedFiles
BY DEF Contents, UsedFiles

LEMMA UpdatesSame ==
  ASSUME leases' = leases, next_lease' = next_lease
  PROVE  Updates' = Updates /\ UsedLeases' = UsedLeases
BY DEF Updates, UsedLeases

LEMMA DroppedUpdate ==
  ASSUME CentralTypeOK, NEW l \in LeaseIds, leases' = [leases EXCEPT ![l] = None],
         next_lease' = next_lease
  PROVE  Updates' = Dropping({l}) /\ UsedLeases' = UsedLeases
<1>1. leases'[l] = None /\ \A m \in LeaseIds \ {l} : leases'[m] = leases[m]
  BY DEF CentralTypeOK
<1>2. \A m \in LeaseIds : UpdateOf(leases'[m]) = IF m \in {l} THEN None ELSE Updates[m]
  BY <1>1 DEF UpdateOf, Updates
<1> QED
  BY <1>2 DEF Updates, Dropping, UsedLeases

LEMMA NewUsed ==
  ASSUME CentralTypeOK, next_file \in FileIds, next_file' = next_file + 1
  PROVE  next_file \notin UsedFiles /\ UsedFiles' = UsedFiles \cup {next_file}
<1>1. next_file \in Nat /\ FileIds \subseteq Nat
  BY NextIds
<1>2. \A f \in FileIds : f < next_file + 1 <=> (f < next_file \/ f = next_file)
  BY <1>1
<1>3. UsedFiles' = {f \in FileIds : f < next_file + 1}
  BY DEF UsedFiles
<1>4. next_file \notin UsedFiles
  BY <1>1 DEF UsedFiles
<1> QED
  BY <1>2, <1>3, <1>4 DEF UsedFiles

LEMMA StartLeaseMapped ==
  ASSUME CentralInv, NEW c \in Connections, NEW f \in FileIds, NEW v \in Volumes,
         NEW row \in FileRows, NEW offset \in Nat, StartLease(c, f, v, row, offset),
         FileFree(f) \/ files[f] = None, files'[f] = row, Contents'[f] = row.bundles,
         \/ f \in UsedFiles /\ Contents[f] # None /\ Contents' = Contents /\ UsedFiles' = UsedFiles
         \/ f \notin UsedFiles /\ Contents' = [Contents EXCEPT ![f] = <<>>]
            /\ UsedFiles' = UsedFiles \cup {f}
  PROVE  Store!Next
<1> DEFINE U == {l \in LeaseIds : leases[l] # None /\ leases[l].expires <= now}
<1>1. LeaseBegun(f, v) /\ leases'[next_lease].over = row.bundles
  BY StartLeaseBegun
<1>2. next_lease \in LeaseIds /\ next_lease \in Nat /\ LeaseIds \subseteq Nat /\ CentralTypeOK
  BY <1>1, NextIds DEF LeaseBegun, CentralInv
<1>3. \A l \in LeaseIds \ {next_lease} : leases'[l] = Unexpired[l]
  BY DEF StartLease, Unexpired
<1>4. \A l \in LeaseIds : UpdateOf(Unexpired[l]) = Dropping(U)[l]
  BY DEF Unexpired, UpdateOf, Dropping, Updates
<1>5. \A l \in LeaseIds : Dropping(U)[l] # None => Dropping(U)[l].file # f
  <2>1. ASSUME NEW l \in LeaseIds, Dropping(U)[l] # None PROVE leases[l].file # f /\ l \notin U
    <3>1. l \notin U /\ leases[l] # None
      BY <2>1 DEF Dropping, Updates, UpdateOf
    <3>2. Unexpired[l] = leases[l]
      BY <3>1 DEF Unexpired
    <3> QED
      BY <3>1, <3>2, LeaseMeans DEF FileFree, CentralInv
  <2> QED
    BY <1>2, <2>1, Mapped DEF Dropping
<1>6. UpdateOf(leases'[next_lease]) = [file |-> f, over |-> Contents'[f]]
  BY <1>1 DEF LeaseBegun, UpdateOf
<1>7. Updates' = [Dropping(U) EXCEPT ![next_lease] = [file |-> f, over |-> Contents'[f]]]
  <2>1. \A l \in LeaseIds : UpdateOf(leases'[l]) =
          IF l = next_lease THEN [file |-> f, over |-> Contents'[f]] ELSE Dropping(U)[l]
    BY <1>3, <1>4, <1>6
  <2>2. Updates' = [l \in LeaseIds |-> UpdateOf(leases'[l])]
    BY DEF Updates, UpdateOf
  <2> QED
    BY <2>1, <2>2 DEF Dropping
<1>8. next_lease \notin UsedLeases /\ UsedLeases' = UsedLeases \cup {next_lease}
  <2>1. next_lease' = next_lease + 1
    BY <1>1 DEF LeaseBegun
  <2>2. \A l \in LeaseIds : l < next_lease + 1 <=> (l < next_lease \/ l = next_lease)
    BY <1>2
  <2> QED
    BY <1>2, <2>1, <2>2 DEF UsedLeases
<1>9. U \in SUBSET {l \in LeaseIds : leases[l] # None}
  OBVIOUS
<1>10. \A l \in LeaseIds : Updates[l] = None <=> leases[l] = None
  BY <1>2, Mapped
<1> HIDE DEF U
<1> QED
  BY <1>2, <1>5, <1>7, <1>8, <1>9, <1>10, StoreOpen

LEMMA BeginMapped ==
  ASSUME CentralInv, BeginStep
  PROVE  Store!Next
<1>0. /\ Offsets \subseteq Nat /\ files \in [FileIds -> FileRows \cup {None}] /\ CentralTypeOK
      /\ next_file \in Nat /\ FileIds \subseteq Nat
  BY CentralAssumption, NextIds DEF CentralInv, CentralTypeOK
<1>1. ASSUME NEW c \in Connections, NEW v \in Volumes, NEW offset \in Offsets,
             NEW f \in FileIds, BeginExisting(c, f, v, offset)
      PROVE  Store!Next
  <2>1. /\ StartLease(c, f, v, files[f], offset) /\ FileFree(f)
        /\ files[f] \in FileRows /\ files[f] # None /\ files' = files /\ next_file' = next_file
    BY <1>0, <1>1 DEF BeginExisting, Live
  <2>2. f \in UsedFiles
    BY <1>0, <2>1 DEF UsedFiles, CentralInv, FilesFresh
  <2>3. Contents' = Contents /\ UsedFiles' = UsedFiles
    BY <2>1, ContentsSame
  <2>4. Contents[f] # None /\ Contents'[f] = files[f].bundles
    BY <1>0, <2>1, <2>3, Mapped
  <2>5. offset \in Nat /\ files'[f] = files[f]
    BY <1>0, <2>1
  <2> QED
    BY <2>1, <2>2, <2>3, <2>4, <2>5, StartLeaseMapped
<1>2. ASSUME NEW c \in Connections, NEW v \in Volumes, NEW offset \in Offsets,
             NEW p \in Paths, BeginNew(c, p, v, offset)
      PROVE  Store!Next
  <2>1. PICK row : row = [path |-> p, size |-> 0, bundles |-> <<>>]
    OBVIOUS
  <2>2. Made(p, row) /\ row.bundles = <<>>
    BY <1>2, <2>1, BeginNewMade
  <2>3. /\ next_file \in FileIds /\ row \in FileRows /\ files'[next_file] = row
        /\ \A g \in FileIds \ {next_file} : files'[g] = files[g]
        /\ next_file' = next_file + 1
    BY <1>0, <2>2 DEF Made
  <2>4. row # None
    BY <2>3, CentralAssumption
  <2>5. Contents' = [Contents EXCEPT ![next_file] = <<>>]
    BY <2>2, <2>3, <2>4 DEF Contents
  <2>6. next_file \notin UsedFiles /\ UsedFiles' = UsedFiles \cup {next_file}
    BY <1>0, <2>3, NewUsed
  <2>7. StartLease(c, next_file, v, row, 0) /\ files[next_file] = None
    BY <1>0, <1>2, <2>3 DEF BeginNew, CentralInv, FilesFresh
  <2>8. Contents'[next_file] = row.bundles
    BY <2>2, <2>3, <2>4 DEF Contents
  <2> QED
    BY <2>3, <2>5, <2>6, <2>7, <2>8, StartLeaseMapped
<1> QED
  BY <1>1, <1>2 DEF BeginStep

LEMMA CommitMapped ==
  ASSUME CentralInv, NEW c \in Connections, NEW req \in Commits, CommitApply(c, req)
  PROVE  Store!Next
<1>0. CentralTypeOK /\ files \in [FileIds -> FileRows \cup {None}]
  BY DEF CentralInv, CentralTypeOK
<1>1. PICK l \in LeaseIds : /\ l = handler[c].lease /\ leases[l] # None
                            /\ Rewritten(leases[l].file, req)
  BY CommitRewritten
<1>2. PICK f \in FileIds : f = leases[l].file /\ files[f] # None
  BY <1>1 DEF Rewritten
<1>3. Updates' = Dropping({l}) /\ UsedLeases' = UsedLeases
  BY <1>0, <1>1, DroppedUpdate DEF CommitApply, Spent
<1>4. Updates[l] # None /\ Updates[l].file = f /\ Updates[l].over = Contents[f]
  BY <1>0, <1>1, <1>2, Mapped, LeaseMeans DEF CentralInv
<1>a. PICK list \in Seq(BundleIds) : list = IdsOf(req.bundles) /\ list \in BundleLists
  BY RequestFacts
<1>5. NewRow(files[f], req) \in FileRows /\ NewRow(files[f], req).bundles = list
  <2>1. files[f] \in FileRows /\ req.new_size \in Nat
    BY <1>0, <1>2, RequestFacts
  <2> QED
    BY <1>a, <2>1 DEF NewRow, FileRows
<1>6. files'[f] = NewRow(files[f], req) /\ \A g \in FileIds \ {f} : files'[g] = files[g]
  BY <1>0, <1>1, <1>2 DEF Rewritten
<1>7. files'[f] # None /\ files'[f].bundles = list
  BY <1>5, <1>6, CentralAssumption
<1>8. Contents' = [Contents EXCEPT ![f] = list]
  BY <1>6, <1>7 DEF Contents
<1>9. UsedFiles' = UsedFiles
  BY <1>1 DEF Rewritten, UsedFiles
<1> QED
  BY <1>a, <1>3, <1>4, <1>8, <1>9, StoreInstall

LEMMA DeleteMapped ==
  ASSUME CentralInv, NEW c \in Connections, DeleteFile(c)
  PROVE  Store!Next
<1>0. CentralTypeOK /\ files \in [FileIds -> FileRows \cup {None}]
  BY DEF CentralInv, CentralTypeOK
<1>1. PICK f \in FileIds : f = handler[c].file /\ Removed(f)
  BY DeleteRemoved DEF Removed
<1>2. Contents[f] # None /\ Contents' = [Contents EXCEPT ![f] = None] /\ UsedFiles' = UsedFiles
  <2>1. Contents[f] # None
    BY <1>0, <1>1, Mapped DEF Removed
  <2>2. files'[f] = None /\ \A g \in FileIds \ {f} : files'[g] = files[g]
    BY <1>0, <1>1 DEF Removed
  <2> QED
    BY <1>1, <2>1, <2>2 DEF Contents, UsedFiles, Removed
<1>3. leases' = WithoutFile(f) /\ next_lease' = next_lease
  BY <1>1 DEF DeleteFile
<1>4. \A l \in LeaseIds : UpdateOf(leases'[l]) =
        IF l \in {u \in LeaseIds : Updates[u] # None /\ Updates[u].file = f} THEN None ELSE Updates[l]
  <2>1. \A l \in LeaseIds : leases'[l] = IF leases[l] # None /\ leases[l].file = f
                                           THEN None ELSE leases[l]
    BY <1>3 DEF WithoutFile
  <2>2. \A l \in LeaseIds : Updates[l] = UpdateOf(leases[l])
    BY DEF Updates
  <2>3. UpdateOf(None) = None
    BY DEF UpdateOf
  <2> QED
    BY <1>0, <2>1, <2>2, <2>3, Mapped
<1>5. Updates' = Dropping({u \in LeaseIds : Updates[u] # None /\ Updates[u].file = f})
  <2>1. Updates' = [l \in LeaseIds |-> UpdateOf(leases'[l])]
    BY DEF Updates, UpdateOf
  <2> QED
    BY <1>4, <2>1 DEF Dropping
<1>6. UsedLeases' = UsedLeases
  BY <1>3 DEF UsedLeases
<1> QED
  BY <1>2, <1>5, <1>6, StoreRemove

LEMMA CopyMapped ==
  ASSUME CentralInv, NEW c \in Connections, CopyFile(c)
  PROVE  Store!Next
<1>0. CentralTypeOK /\ files \in [FileIds -> FileRows \cup {None}]
  BY DEF CentralInv, CentralTypeOK
<1>1. PICK f \in FileIds : f = handler[c].file /\ files[f] # None
  BY DEF CopyFile, Live
<1>2. PICK row : row = [files[f] EXCEPT !.path = handler[c].target]
  OBVIOUS
<1>3. Made(handler[c].target, row)
  BY <1>1, <1>2, CopyMade
<1>4. row.bundles = files[f].bundles
  BY <1>0, <1>1, <1>2 DEF FileRows
<1>5. /\ next_file \in FileIds /\ files'[next_file] = row /\ row # None
      /\ \A g \in FileIds \ {next_file} : files'[g] = files[g]
      /\ next_file' = next_file + 1
  BY <1>0, <1>3, CentralAssumption DEF Made
<1>6. Contents[f] # None /\ Contents[f] = files[f].bundles
  BY <1>0, <1>1, Mapped
<1>7. Contents' = [Contents EXCEPT ![next_file] = Contents[f]]
  BY <1>4, <1>5, <1>6 DEF Contents
<1>8. next_file \notin UsedFiles /\ UsedFiles' = UsedFiles \cup {next_file}
  BY <1>0, <1>5, NewUsed
<1>9. Updates' = Updates /\ UsedLeases' = UsedLeases
  BY UpdatesSame DEF CopyFile, leaseTables
<1> QED
  BY <1>5, <1>6, <1>7, <1>8, <1>9, StoreCopy

LEMMA RenameMapped ==
  ASSUME CentralInv, NEW c \in Connections, RenameFile(c)
  PROVE  UNCHANGED Store!storeVars
<1>0. files \in [FileIds -> FileRows \cup {None}]
  BY DEF CentralInv, CentralTypeOK
<1>1. PICK f \in FileIds, p \in Paths : Renamed(f, p)
  BY RenameRenamed DEF Renamed
<1>2. PICK row : row = [files[f] EXCEPT !.path = p]
  OBVIOUS
<1>3. files[f] # None /\ row # None /\ row.bundles = files[f].bundles
  <2>1. files[f] # None /\ files[f] \in FileRows /\ p \in Paths
    BY <1>0, <1>1 DEF Renamed
  <2>2. row \in FileRows /\ row.bundles = files[f].bundles
    BY <1>2, <2>1 DEF FileRows
  <2> QED
    BY <2>1, <2>2, CentralAssumption
<1>4. /\ files'[f] = row /\ \A g \in FileIds \ {f} : files'[g] = files[g]
      /\ next_file' = next_file
  BY <1>0, <1>1, <1>2 DEF Renamed
<1>5. Contents' = Contents /\ UsedFiles' = UsedFiles
  BY <1>3, <1>4 DEF Contents, UsedFiles
<1> QED
  BY <1>5, UpdatesSame, StoreStutter DEF RenameFile, leaseTables

LEMMA RestartMapped ==
  ASSUME CentralInv, NEW v \in Volumes, StorageRestart(v)
  PROVE  UNCHANGED Store!storeVars
<1>1. \A r \in LeaseRows \cup {None} : r # None =>
        /\ [r EXCEPT !.lost = TRUE] # None
        /\ UpdateOf([r EXCEPT !.lost = TRUE]) = UpdateOf(r)
  <2>1. None \notin LeaseRows
    BY CentralAssumption
  <2>2. \A r \in LeaseRows : LET s == [r EXCEPT !.lost = TRUE]
                            IN  s \in LeaseRows /\ s.file = r.file /\ s.over = r.over
    BY DEF LeaseRows
  <2> QED
    BY <2>1, <2>2 DEF UpdateOf
<1>2. \A l \in LeaseIds : \/ leases'[l] = leases[l]
                          \/ leases[l] # None /\ leases'[l] = [leases[l] EXCEPT !.lost = TRUE]
  BY DEF StorageRestart
<1>3. \A l \in LeaseIds : UpdateOf(leases'[l]) = UpdateOf(leases[l])
  BY <1>1, <1>2 DEF CentralInv, CentralTypeOK
<1>4. Updates' = Updates
  <2>1. Updates' = [l \in LeaseIds |-> UpdateOf(leases'[l])]
    BY DEF Updates, UpdateOf
  <2> QED
    BY <1>3, <2>1 DEF Updates
<1>5. UsedLeases' = UsedLeases
  BY DEF StorageRestart, UsedLeases
<1> QED
  BY <1>4, <1>5, ContentsSame, StoreStutter DEF StorageRestart, fileTables

LEMMA StoreStep ==
  CentralInv /\ [CentralNext]_centralVars => [Store!Next]_(Store!storeVars)
<1> SUFFICES ASSUME CentralInv, [CentralNext]_centralVars
             PROVE  Store!Next \/ UNCHANGED Store!storeVars
  OBVIOUS
<1>0. CentralTypeOK
  BY DEF CentralInv
<1>1. ASSUME UNCHANGED <<files, next_file, leases, next_lease>>
      PROVE  UNCHANGED Store!storeVars
  BY <1>1, ContentsSame, UpdatesSame, StoreStutter
<1>2. ASSUME NEW l \in LeaseIds, leases' = [leases EXCEPT ![l] = None], next_lease' = next_lease,
             UNCHANGED fileTables
      PROVE  Store!Next
  BY <1>0, <1>2, DroppedUpdate, ContentsSame, StoreDrop DEF fileTables
<1>3. CASE UpdateNext
  <2>1. ASSUME NEW c \in Connections, GrantFailed(c) PROVE Store!Next
    BY <1>0, <1>2, <2>1, AwaitedLease DEF GrantFailed
  <2>2. ASSUME NEW c \in Connections, NEW l \in LeaseIds, AbortUpdate(c, l) PROVE Store!Next
    BY <1>2, <2>2 DEF AbortUpdate
  <2>3. CASE UNCHANGED <<fileTables, leaseTables>>
    BY <1>1, <2>3 DEF fileTables, leaseTables
  <2>4. \/ BeginStep \/ UNCHANGED <<fileTables, leaseTables>>
        \/ \E c \in Connections : \/ GrantFailed(c)
                                  \/ \E l \in LeaseIds : AbortUpdate(c, l)
                                  \/ \E req \in Commits : CommitApply(c, req)
    BY <1>3 DEF UpdateNext, BeginStep, GrantAnswered, BeginDropped, CommitCheck, GrantDelivered,
      RevokeDelivered, RequestLost
  <2> QED
    BY <2>1, <2>2, <2>3, <2>4, BeginMapped, CommitMapped
<1>4. CASE FileNext
  <2>1. CASE UNCHANGED <<fileTables, leaseTables>>
    BY <1>1, <2>1 DEF fileTables, leaseTables
  <2>2. \/ UNCHANGED <<fileTables, leaseTables>>
        \/ \E c \in Connections : DeleteFile(c) \/ CopyFile(c) \/ RenameFile(c)
    BY <1>4 DEF FileNext, FileRequest, Refused
  <2> QED
    BY <2>1, <2>2, DeleteMapped, CopyMapped, RenameMapped
<1>5. CASE StorageNext \/ Tick \/ CentralRestart \/ UNCHANGED centralVars
  <2>1. CASE UNCHANGED <<fileTables, leaseTables>>
    BY <1>1, <2>1 DEF fileTables, leaseTables
  <2>2. UNCHANGED <<fileTables, leaseTables>> \/ \E v \in Volumes : StorageRestart(v)
    BY <1>5 DEF StorageNext, ReportBundleReplica, RegisterStorage, UnregisterStorage,
      RetainUnexpired, StorageTick, Tick, CentralRestart, centralVars, fileTables, leaseTables
  <2> QED
    BY <2>1, <2>2, RestartMapped
<1> QED
  BY <1>3, <1>4, <1>5 DEF CentralNext

(* The central server implements the file store: every commit_update is    *)
(* installed over the content its begin_update saw, at most once, and only *)
(* commits, deletions and copies change what files hold.                   *)
THEOREM CentralImplementsStore == CentralSpec => UpdatesAtomic
<1>1. CentralInit => Store!Init
  <2> SUFFICES ASSUME CentralInit PROVE Store!Init
    OBVIOUS
  <2>1. {f \in FileIds : f < next_file} = {} /\ {l \in LeaseIds : l < next_lease} = {}
    BY DEF CentralInit, FileIds, LeaseIds
  <2> QED
    BY <2>1 DEF CentralInit, Store!Init
<1>2. CentralInv /\ [CentralNext]_centralVars => [Store!Next]_(Store!storeVars)
  BY StoreStep
<1> QED
  BY <1>1, <1>2, CentralInvariant, PTL DEF CentralSpec, UpdatesAtomic, Store!Spec
=============================================================================
