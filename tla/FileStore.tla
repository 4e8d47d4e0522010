----------------------------- MODULE FileStore -----------------------------
(***************************************************************************)
(* What the central server promises to the clients that update files.      *)
(* An update is opened on a file, alone; it is installed at most once,     *)
(* over the very content it was opened on, or it is dropped.  A file comes *)
(* into being empty, with an update, or as a copy of another one.  Ids are *)
(* never used twice.                                                       *)
(***************************************************************************)
CONSTANTS FileId,    \* ids of files
          UpdateId,  \* ids of updates
          Content,   \* what a file may hold
          Empty,     \* the content of a new file
          Absent     \* no file, no update

VARIABLES content,   \* [FileId -> Content or Absent]
          usedFiles, \* ids given to files so far
          update,    \* [UpdateId -> open update or Absent]
          usedUpdates

storeVars == <<content, usedFiles, update, usedUpdates>>

Init ==
  /\ content = [f \in FileId |-> Absent]
  /\ usedFiles = {}
  /\ update = [u \in UpdateId |-> Absent]
  /\ usedUpdates = {}

Without(U) == [u \in UpdateId |-> IF u \in U THEN Absent ELSE update[u]]

(* Open update u on f, after dropping the updates U.                       *)
Open(u, f, U) ==
  /\ u \notin usedUpdates
  /\ \A w \in UpdateId : Without(U)[w] # Absent => Without(U)[w].file # f
  /\ \/ /\ f \in usedFiles /\ content[f] # Absent
        /\ UNCHANGED <<content, usedFiles>>
     \/ /\ f \notin usedFiles
        /\ content' = [content EXCEPT ![f] = Empty]
        /\ usedFiles' = usedFiles \cup {f}
  /\ update' = [Without(U) EXCEPT ![u] = [file |-> f, over |-> content'[f]]]
  /\ usedUpdates' = usedUpdates \cup {u}

Install(u, new) ==
  /\ update[u] # Absent
  /\ content[update[u].file] = update[u].over
  /\ content' = [content EXCEPT ![update[u].file] = new]
  /\ update' = Without({u})
  /\ UNCHANGED <<usedFiles, usedUpdates>>

Drop(u) ==
  /\ update' = Without({u})
  /\ UNCHANGED <<content, usedFiles, usedUpdates>>

Copy(f, g) ==
  /\ content[f] # Absent
  /\ g \notin usedFiles
  /\ content' = [content EXCEPT ![g] = content[f]]
  /\ usedFiles' = usedFiles \cup {g}
  /\ UNCHANGED <<update, usedUpdates>>

Remove(f) ==
  /\ content[f] # Absent
  /\ content' = [content EXCEPT ![f] = Absent]
  /\ update' = Without({u \in UpdateId : update[u] # Absent /\ update[u].file = f})
  /\ UNCHANGED <<usedFiles, usedUpdates>>

Next ==
  \/ \E u \in UpdateId : (\E new \in Content : Install(u, new)) \/ Drop(u)
  \/ \E f \in FileId : (\E g \in FileId : Copy(f, g)) \/ Remove(f)
  \/ \E U \in SUBSET {u \in UpdateId : update[u] # Absent} :
       \E u \in UpdateId, f \in FileId : Open(u, f, U)

Spec == Init /\ [][Next]_storeVars
=============================================================================
