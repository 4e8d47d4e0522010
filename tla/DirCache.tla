------------------------------ MODULE DirCache ------------------------------
(***************************************************************************)
(* The dirs and files tables of the central database by directory id, and  *)
(* the DirCache in front of dirs: path_to_entry (path to id, trimmed by    *)
(* last access) and id_to_path.                                            *)
(*                                                                         *)
(* The database mutex is held for a whole transaction, so a transaction is *)
(* one action, whatever it ends in: committed, refused by one of its       *)
(* checks, or failed in the commit itself.  The tables are rolled back     *)
(* with it; the cache is not.                                              *)
(*                                                                         *)
(* A path is the sequence of its names, "/" the empty one.  What else      *)
(* files hold, and leases, bundles and the change log, is in Central.      *)
(***************************************************************************)
EXTENDS Integers, Sequences, FiniteSets

CONSTANTS FilePaths,    \* paths that requests name for files
          DirPaths,     \* paths that list_directory is asked for
          MaxEntries,   \* DIR_CACHE_MAX_ENTRIES
          TrimTo,       \* DIR_CACHE_TRIM_TO_ENTRIES
          CommitFails,  \* BOOLEAN: the disk may fail in a commit
          MaxFiles,     \* bound: files created
          None

FileIds == 1 .. MaxFiles
Names == UNION {{p[i] : i \in DOMAIN p} : p \in FilePaths \cup DirPaths}

ASSUME DirCacheAssumption ==
  /\ FilePaths \cup DirPaths \subseteq Seq(Names)
  /\ \A p \in FilePaths : Len(p) > 0
  /\ TrimTo \in Nat /\ MaxEntries \in Nat /\ TrimTo <= MaxEntries
  /\ CommitFails \in BOOLEAN /\ MaxFiles \in Nat
  /\ None \notin FileIds \cup [dir : Nat, name : Names]

VARIABLES dirs,        \* table dirs: row i is directory id i; the root is 0
          files,       \* table files: [dir, name], by file id
          next_file,   \* AUTOINCREMENT of files
          entries,     \* path_to_entry, least recently accessed first
          id_to_path,  \* set of <<id, path>>
          put          \* history: the path a committed request gave each file

dirCacheVars == <<dirs, files, next_file, entries, id_to_path, put>>

Init ==
  /\ dirs = <<>>
  /\ files = [f \in FileIds |-> None]
  /\ next_file = 1
  /\ entries = <<>>
  /\ id_to_path = {}
  /\ put = [f \in FileIds |-> None]

-----------------------------------------------------------------------------
(* The cache.  c is a record [entries, id_to_path].                        *)
(* A definition named X_... is X with a slip a change to the code could    *)
(* make.                                                                   *)

Front(p) == SubSeq(p, 1, Len(p) - 1)
Last(p) == p[Len(p)]

Cache == [entries |-> entries, id_to_path |-> id_to_path]

Entry(c, path) == {e \in {c.entries[i] : i \in DOMAIN c.entries} : e.path = path}
CachedPath(c, id) == {pair \in c.id_to_path : pair[1] = id}

(* The entries but the one of the path, if any: a path is a key of the map. *)
Others(c, path) ==
  LET at == {i \in DOMAIN c.entries : c.entries[i].path = path}
      k == CHOOSE i \in at : TRUE
  IN  IF at = {} THEN c.entries
      ELSE [j \in 1 .. Len(c.entries) - 1 |-> c.entries[IF j < k THEN j ELSE j + 1]]

(* An access makes the entry of the path, if any, the latest one.          *)
Touched(c, path) ==
  IF Entry(c, path) = {} THEN c
  ELSE [c EXCEPT !.entries = Append(Others(c, path), CHOOSE e \in Entry(c, path) : TRUE)]

(* remember: insert both ways, then trim the least recently used.          *)
Trimmed_oneWay(c) ==
  IF Len(c.entries) <= MaxEntries THEN c
  ELSE [c EXCEPT !.entries = SubSeq(@, Len(@) - TrimTo + 1, Len(@))]
Trimmed(c) ==
  LET cut == Len(c.entries) - TrimTo
  IN  IF Len(c.entries) <= MaxEntries THEN c
      ELSE [entries |-> SubSeq(c.entries, cut + 1, Len(c.entries)),
            id_to_path |-> {pair \in c.id_to_path :
                              \A i \in 1 .. cut : pair[1] # c.entries[i].id}]

Remembered(c, id, path) ==
  Trimmed([entries |-> Append(Others(c, path), [path |-> path, id |-> id]),
           id_to_path |-> (c.id_to_path \ CachedPath(c, id)) \cup {<<id, path>>}])

-----------------------------------------------------------------------------
(* Transactions.  s is what one has come to: its view of dirs, the cache,  *)
(* the directory it is at, and whether it may go on.                       *)

Begin == [dirs |-> dirs, cache |-> Cache, at |-> 0, ok |-> TRUE]
Refuse(s) == [s EXCEPT !.ok = FALSE]

Children(s, id, name) ==
  {i \in DOMAIN s.dirs : s.dirs[i].parent = id /\ s.dirs[i].name = name}

(* A row may refer to a directory only if there is one (foreign keys).     *)
Exists(s, id) == id = 0 \/ id \in DOMAIN s.dirs

(* ensure_child_name_available. *)
NameAvailable(s, id, name, file) ==
  /\ Children(s, id, name) = {}
  /\ \A f \in FileIds : files[f] = [dir |-> id, name |-> name] => f = file

(* The cache after a directory was created: a new one is not remembered,   *)
(* since the transaction may yet be rolled back.                           *)
AfterCreate_remembered(c, id, path) == Remembered(c, id, path)
AfterCreate(c, id, path) == c

(* One component of create_dir or get_dir_id_by_path: from the cache, from *)
(* the table, or a new row.                                                *)
Component(s, path, create) ==
  LET found == Children(s, s.at, Last(path))
  IN  CASE ~s.ok -> s
        [] s.ok /\ Entry(s.cache, path) # {} ->
             [s EXCEPT !.at = (CHOOSE e \in Entry(s.cache, path) : TRUE).id,
                       !.cache = Touched(@, path)]
        [] s.ok /\ Entry(s.cache, path) = {} /\ found # {} ->
             LET id == CHOOSE i \in found : TRUE
             IN  [s EXCEPT !.at = id, !.cache = Remembered(@, id, path)]
        [] OTHER ->
             IF create /\ NameAvailable(s, s.at, Last(path), None) /\ Exists(s, s.at)
               THEN LET id == Len(s.dirs) + 1
                    IN  [s EXCEPT !.dirs = Append(@, [parent |-> s.at, name |-> Last(path)]),
                                  !.at = id,
                                  !.cache = AfterCreate(@, id, path)]
               ELSE Refuse(s)

(* The transaction after each component of the path.                       *)
Walk(s, path, create) ==
  LET walk[n \in 0 .. Len(path)] ==
        IF n = 0 THEN [s EXCEPT !.at = 0] ELSE Component(walk[n - 1], SubSeq(path, 1, n), create)
  IN  walk

(* create_dir (create) and get_dir_id_by_path (~create).                   *)
Resolve(s, path, create) ==
  IF ~s.ok THEN s
  ELSE IF Entry(s.cache, path) # {} THEN Component(s, path, create)
  ELSE Walk(s, path, create)[Len(path)]

(* The paths of the directories by the parent links of a table.            *)
PathsOf(table) ==
  LET up[i \in 0 .. Len(table)] ==
        IF i = 0 THEN <<>> ELSE Append(up[table[i].parent], table[i].name)
  IN  up
PathIn(table, id) == PathsOf(table)[id]

(* get_dir_path_by_id: from the cache, or from the table and remembered.   *)
DirPath(s, id) ==
  IF id = 0 THEN s
  ELSE IF CachedPath(s.cache, id) # {}
    THEN [s EXCEPT !.cache = Touched(@, (CHOOSE pair \in CachedPath(@, id) : TRUE)[2])]
  ELSE IF Exists(s, id) THEN [s EXCEPT !.cache = Remembered(@, id, PathIn(s.dirs, id))]
  ELSE Refuse(s)

FileIn(id, name) == {f \in FileIds : files[f] = [dir |-> id, name |-> name]}

(* The transaction ends: committed with the rows given, or rolled back.    *)
(* Either way the cache stays as the transaction left it.                  *)
Ends(s, newFiles, newPut, next) ==
  /\ entries' = s.cache.entries
  /\ id_to_path' = s.cache.id_to_path
  /\ \/ /\ s.ok
        /\ dirs' = s.dirs /\ files' = newFiles /\ put' = newPut /\ next_file' = next
     \/ /\ ~s.ok \/ CommitFails
        /\ UNCHANGED <<dirs, files, put, next_file>>

ReadOnly(s) == Ends(s, files, put, next_file)

-----------------------------------------------------------------------------
(* list_directory. *)
ListDirectory(path) == ReadOnly(Resolve(Begin, path, FALSE))

(* file_id_by_path: the first transaction of delete_file, copy_file,       *)
(* rename_file and get_file_read_plan.                                     *)
FindFile(path) == ReadOnly(Resolve(Begin, Front(path), FALSE))

(* get_file_read_plan_by_id, and commit_update: file_record.               *)
FileRecord(f) ==
  /\ files[f] # None
  /\ ReadOnly(DirPath(Begin, files[f].dir))

(* begin_update of a path: the file is looked up, and created when there   *)
(* is none.                                                                *)
CreateFile(path) ==
  LET found == Resolve(Begin, Front(path), FALSE)
      made == Resolve([found EXCEPT !.ok = TRUE], Front(path), TRUE)
      able == NameAvailable(made, made.at, Last(path), None) /\ Exists(made, made.at)
  IN  /\ next_file <= MaxFiles
      /\ ~found.ok \/ FileIn(found.at, Last(path)) = {}
      /\ Ends(IF made.ok /\ able THEN made ELSE Refuse(made),
              [files EXCEPT ![next_file] = [dir |-> made.at, name |-> Last(path)]],
              [put EXCEPT ![next_file] = path], next_file + 1)

(* copy_file_by_id and rename_file_by_id: directory, row, then the record  *)
(* for the answer, all before the commit.                                  *)
Place(f, path, self) ==
  LET made == Resolve(Begin, Front(path), TRUE)
      able == /\ NameAvailable(made, made.at, Last(path), self)
              /\ Exists(made, made.at)
              /\ self = None \/ files[f] # None
  IN  Ends(IF made.ok /\ able THEN DirPath(made, made.at) ELSE Refuse(made),
           [files EXCEPT ![f] = [dir |-> made.at, name |-> Last(path)]],
           [put EXCEPT ![f] = path], IF f = next_file THEN f + 1 ELSE next_file)

CopyFile(f, path) ==
  /\ files[f] # None
  /\ next_file <= MaxFiles
  /\ Place(next_file, path, None)

(* That the file is gone shows only when no row is changed.                *)
RenameFile(f, path) == f < next_file /\ Place(f, path, f)

DeleteFile(f) ==
  /\ files[f] # None
  /\ Ends(Begin, [files EXCEPT ![f] = None], [put EXCEPT ![f] = None], next_file)

(* The central server is started again: the cache is empty.                *)
Restart ==
  /\ entries' = <<>> /\ id_to_path' = {}
  /\ UNCHANGED <<dirs, files, next_file, put>>

Next ==
  \/ \E path \in DirPaths : ListDirectory(path)
  \/ \E path \in FilePaths : FindFile(path)
  \/ \E path \in FilePaths : CreateFile(path)
  \/ \E f \in FileIds : FileRecord(f)
  \/ \E f \in FileIds, path \in FilePaths : CopyFile(f, path)
  \/ \E f \in FileIds, path \in FilePaths : RenameFile(f, path)
  \/ \E f \in FileIds : DeleteFile(f)
  \/ Restart

Spec == Init /\ [][Next]_dirCacheVars

-----------------------------------------------------------------------------
(* A directory is cached only once it is committed, and under its own path *)
(* and id: what a rolled back transaction created is never in the cache.   *)
CachedDirsCommitted ==
  /\ \A i \in DOMAIN entries :
       entries[i].id \in DOMAIN dirs /\ PathIn(dirs, entries[i].id) = entries[i].path
  /\ \A pair \in id_to_path :
       pair[1] \in DOMAIN dirs /\ PathIn(dirs, pair[1]) = pair[2]

(* The two maps of the cache hold the same directories, at most MaxEntries *)
(* of them, through every order of accesses, insertions and trims.         *)
MapsAgree ==
  /\ id_to_path = {<<entries[i].id, entries[i].path>> : i \in DOMAIN entries}
  /\ Len(entries) <= MaxEntries

(* A file is in the directory its last request named, whatever the cache   *)
(* answered on the way.                                                    *)
FilesWherePut ==
  \A f \in FileIds : files[f] # None =>
    Append(PathIn(dirs, files[f].dir), files[f].name) = put[f]
=============================================================================
