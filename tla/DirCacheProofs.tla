--------------------------- MODULE DirCacheProofs ---------------------------
(***************************************************************************)
(* The directory cache for every set of paths, every size of the cache and *)
(* every number of files, when no commit fails: what is cached is          *)
(* committed, the two maps agree, and files are where they were put.       *)
(*                                                                         *)
(* The paths of a table and the states of a walk are recursive functions.  *)
(* That they exist, and what holds along them, is shown by induction on    *)
(* sets of numbers (NumberInduction).                                      *)
(***************************************************************************)
EXTENDS DirCache, SequenceTheorems, WellFoundedInduction, TLAPS

Paths == Seq(Names)
DirRows == [parent : Nat, name : Names]
Entries == [path : Paths, id : Nat]
Caches == [entries : Seq(Entries), id_to_path : SUBSET (Nat \X Paths)]
Txs == [dirs : Seq(DirRows), cache : Caches, at : Nat, ok : BOOLEAN]
FileRows == [dir : Nat, name : Names]

(* Rows refer to earlier rows, and no two have the same parent and name.   *)
Table(t) ==
  /\ t \in Seq(DirRows)
  /\ \A i \in 1 .. Len(t) : t[i].parent < i
  /\ \A i, j \in 1 .. Len(t) : t[i].parent = t[j].parent /\ t[i].name = t[j].name => i = j

Extends(u, t) == Len(t) <= Len(u) /\ \A i \in 1 .. Len(t) : u[i] = t[i]

(* Each path once, each entry a directory of the table.                    *)
Sound(c, t) ==
  /\ c \in Caches
  /\ \A i, j \in 1 .. Len(c.entries) : c.entries[i].path = c.entries[j].path => i = j
  /\ \A i \in 1 .. Len(c.entries) :
       c.entries[i].id \in 1 .. Len(t) /\ PathIn(t, c.entries[i].id) = c.entries[i].path
  /\ c.id_to_path = {<<c.entries[i].id, c.entries[i].path>> : i \in 1 .. Len(c.entries)}

DirTypeOK ==
  /\ dirs \in Seq(DirRows)
  /\ files \in [FileIds -> FileRows \cup {None}]
  /\ put \in [FileIds -> Paths \cup {None}]
  /\ next_file \in Nat \ {0}
  /\ Cache \in Caches

(* A file is in a directory there is, at the path it was put.              *)
FileAt(f) ==
  files[f] # None =>
    /\ files[f].dir \in 0 .. Len(dirs)
    /\ Append(PathIn(dirs, files[f].dir), files[f].name) = put[f]

DirCacheInv ==
  /\ DirTypeOK
  /\ Table(dirs)
  /\ Sound(Cache, dirs) /\ Len(entries) <= MaxEntries
  /\ \A f \in FileIds : FileAt(f)

-----------------------------------------------------------------------------
(* Numbers.                                                                *)
LEMMA LeastNumber ==
  ASSUME NEW T \in SUBSET Nat, T # {}
  PROVE  \E x \in T : \A y \in T : x <= y
<1>1. PICK x \in T : \A y \in T : ~ (<<y, x>> \in OpToRel(<, Nat))
  BY NatLessThanWellFounded, WFMin
<1>2. \A y \in T : ~(y < x)
  BY <1>1 DEF OpToRel
<1> QED
  BY <1>2

(* A set that holds 0, and n when it holds all before n, holds all.        *)
LEMMA NumberInduction ==
  ASSUME NEW n \in Nat, NEW S,
         \A k \in 0 .. n : 0 .. k - 1 \subseteq S => k \in S
  PROVE  0 .. n \subseteq S
<1>1. SUFFICES ASSUME NEW m \in 0 .. n, m \notin S PROVE FALSE
  OBVIOUS
<1>2. PICK T : T = {k \in 0 .. n : k \notin S}
  OBVIOUS
<1>3. PICK x \in T : \A y \in T : x <= y
  <2>1. T \in SUBSET Nat /\ T # {}
    BY <1>1, <1>2
  <2> QED
    BY <2>1, LeastNumber
<1>4. 0 .. x - 1 \subseteq S
  BY <1>2, <1>3
<1> QED
  BY <1>2, <1>3, <1>4

-----------------------------------------------------------------------------
(* The paths of a table.                                                   *)
UpTo(t, f, k) ==
  f = [i \in 0 .. k |-> IF i = 0 THEN <<>> ELSE Append(f[t[i].parent], t[i].name)]

LEMMA UpToFacts ==
  ASSUME NEW t, NEW f, NEW k \in Nat, UpTo(t, f, k)
  PROVE  f[0] = <<>> /\ \A i \in 1 .. k : f[i] = Append(f[t[i].parent], t[i].name)
<1> DEFINE h == [i \in 0 .. k |-> IF i = 0 THEN <<>> ELSE Append(f[t[i].parent], t[i].name)]
<1>1. h[0] = <<>> /\ \A i \in 1 .. k : h[i] = Append(f[t[i].parent], t[i].name)
  OBVIOUS
<1>2. f = h
  BY DEF UpTo
<1> HIDE DEF h
<1> QED
  BY <1>1, <1>2

LEMMA RowFacts ==
  ASSUME NEW t, Table(t)
  PROVE  /\ Len(t) \in Nat
         /\ \A i \in 1 .. Len(t) : t[i] \in DirRows /\ t[i].parent \in 0 .. i - 1 /\ t[i].name \in Names
<1>1. t \in Seq(DirRows) /\ \A i \in 1 .. Len(t) : t[i].parent < i
  BY DEF Table
<1>2. Len(t) \in Nat /\ \A i \in 1 .. Len(t) : t[i] \in DirRows
  BY <1>1
<1>3. \A i \in 1 .. Len(t) : t[i].parent \in Nat /\ t[i].name \in Names
  BY <1>2 DEF DirRows
<1> QED
  BY <1>1, <1>2, <1>3

LEMMA PathsExist ==
  ASSUME NEW t, Table(t)
  PROVE  \E f : UpTo(t, f, Len(t))
<1> DEFINE S == {k \in 0 .. Len(t) : \E f : UpTo(t, f, k)}
<1>0. Len(t) \in Nat
  BY RowFacts
<1>1. ASSUME NEW k \in 0 .. Len(t), 0 .. k - 1 \subseteq S PROVE k \in S
  <2>1. CASE k = 0
    <3>1. PICK f : f = [i \in 0 .. 0 |-> <<>>]
      OBVIOUS
    <3>2. UpTo(t, f, 0)
      BY <3>1 DEF UpTo
    <3> QED
      BY <2>1, <3>2
  <2>2. CASE k # 0
    <3>1. k - 1 \in 0 .. k - 1
      BY <2>2
    <3>2. PICK f : UpTo(t, f, k - 1)
      BY <1>1, <3>1
    <3>3. PICK g : g = [i \in 0 .. k |-> IF i < k THEN f[i] ELSE Append(f[t[k].parent], t[k].name)]
      OBVIOUS
    <3>4. ASSUME NEW i \in 0 .. k
          PROVE  g[i] = IF i = 0 THEN <<>> ELSE Append(g[t[i].parent], t[i].name)
      <4>1. CASE i = 0
        <5>1. k - 1 \in Nat /\ 0 \in 0 .. k /\ 0 < k
          BY <2>2
        <5>2. f[0] = <<>>
          BY <3>2, <5>1, UpToFacts
        <5>3. g[0] = f[0]
          BY <3>3, <5>1
        <5> QED
          BY <4>1, <5>2, <5>3
      <4>2. CASE i # 0
        <5>1. t[i].parent \in 0 .. i - 1
          BY <4>2, RowFacts
        <5>2. g[t[i].parent] = f[t[i].parent]
          BY <3>3, <5>1
        <5>3. i < k => f[i] = Append(f[t[i].parent], t[i].name)
          <6>1. k - 1 \in Nat /\ (i < k => i \in 1 .. k - 1)
            BY <2>2, <4>2
          <6> QED
            BY <3>2, <6>1, UpToFacts
        <5>4. CASE i < k
          BY <3>3, <4>2, <5>2, <5>3, <5>4
        <5>5. CASE i = k
          <6>1. g[i] = Append(f[t[i].parent], t[i].name)
            BY <3>3, <5>5
          <6> QED
            BY <4>2, <5>2, <6>1
        <5> QED
          BY <5>4, <5>5
      <4> QED
        BY <4>1, <4>2
    <3>5. UpTo(t, g, k)
      BY <3>3, <3>4 DEF UpTo
    <3> QED
      BY <3>5
  <2> QED
    BY <2>1, <2>2
<1> HIDE DEF S
<1>2. 0 .. Len(t) \subseteq S
  BY <1>0, <1>1, NumberInduction
<1>3. Len(t) \in S
  BY <1>0, <1>2
<1> QED
  BY <1>3 DEF S

LEMMA PathsUnfold ==
  ASSUME NEW t, Table(t)
  PROVE  UpTo(t, PathsOf(t), Len(t))
<1>1. PICK f : UpTo(t, f, Len(t))
  BY PathsExist
<1> DEFINE P(g) == UpTo(t, g, Len(t))
<1>2. PathsOf(t) = CHOOSE g : P(g)
  BY DEF PathsOf, UpTo
<1> HIDE DEF P
<1>3. P(f) BY <1>1 DEF P
<1>4. P(CHOOSE g : P(g))
  BY <1>3, Zenon
<1> QED
  BY <1>2, <1>4 DEF P

(* What PathIn gives for the root and for a row.                           *)
LEMMA PathInFacts ==
  ASSUME NEW t, Table(t)
  PROVE  /\ PathIn(t, 0) = <<>>
         /\ \A i \in 1 .. Len(t) : PathIn(t, i) = Append(PathIn(t, t[i].parent), t[i].name)
         /\ \A i \in 0 .. Len(t) : PathIn(t, i) \in Paths
<1>0. Len(t) \in Nat
  BY RowFacts
<1>1. PathIn(t, 0) = <<>>
  BY <1>0, PathsUnfold DEF UpTo, PathIn
<1>2. \A i \in 1 .. Len(t) : PathIn(t, i) = Append(PathIn(t, t[i].parent), t[i].name)
  BY <1>0, PathsUnfold DEF UpTo, PathIn
<1> DEFINE S == {i \in 0 .. Len(t) : PathIn(t, i) \in Paths}
<1>3. ASSUME NEW k \in 0 .. Len(t), 0 .. k - 1 \subseteq S PROVE k \in S
  <2>1. CASE k = 0
    <3>1. <<>> \in Paths
      BY DEF Paths
    <3>2. PathIn(t, k) \in Paths
      BY <1>1, <2>1, <3>1
    <3> QED
      BY <3>2
  <2>2. CASE k # 0
    <3>1. t[k].parent \in 0 .. k - 1 /\ t[k].name \in Names
      BY <2>2, RowFacts
    <3>2. PathIn(t, t[k].parent) \in Paths /\ k \in 1 .. Len(t)
      BY <1>3, <2>2, <3>1
    <3>3. \A p \in Paths, x \in Names : Append(p, x) \in Paths
      BY DEF Paths
    <3>4. PathIn(t, k) \in Paths
      BY <1>2, <3>1, <3>2, <3>3
    <3> QED
      BY <3>4
  <2> QED
    BY <2>1, <2>2
<1> HIDE DEF S
<1>4. 0 .. Len(t) \subseteq S
  BY <1>0, <1>3, NumberInduction
<1> QED
  BY <1>1, <1>2, <1>4 DEF S

LEMMA PathFacts ==
  /\ <<>> \in Paths
  /\ \A p \in Paths, x \in Names :
       /\ Append(p, x) \in Paths /\ Append(p, x) # <<>> /\ Len(Append(p, x)) = Len(p) + 1
       /\ \A q \in Paths, y \in Names : Append(p, x) = Append(q, y) => p = q /\ x = y
<1>1. <<>> \in Paths
  BY DEF Paths
<1>2. ASSUME NEW p \in Paths, NEW x \in Names
      PROVE  Append(p, x) \in Paths /\ Append(p, x) # <<>> /\ Len(Append(p, x)) = Len(p) + 1
  <2>1. p \in Seq(Names)
    BY DEF Paths
  <2> QED
    BY <2>1, AppendProperties DEF Paths
<1>3. ASSUME NEW p \in Paths, NEW x \in Names, NEW q \in Paths, NEW y \in Names,
             Append(p, x) = Append(q, y)
      PROVE  p = q /\ x = y
  <2>1. p \in Seq(Names) /\ q \in Seq(Names)
    BY DEF Paths
  <2> QED
    BY <1>3, <2>1, AppendInjective
<1> QED
  BY <1>1, <1>2, <1>3

(* Two directories never have the same path.                               *)
LEMMA PathsDiffer ==
  ASSUME NEW t, Table(t), NEW i \in 0 .. Len(t), NEW j \in 0 .. Len(t), PathIn(t, i) = PathIn(t, j)
  PROVE  i = j
<1> DEFINE S == {k \in 0 .. Len(t) : \A l \in 0 .. Len(t) : PathIn(t, k) = PathIn(t, l) => k = l}
<1>0. Len(t) \in Nat
  BY RowFacts
<1>1. ASSUME NEW k \in 1 .. Len(t) PROVE PathIn(t, k) # <<>>
  <2>1. t[k].parent \in 0 .. Len(t) /\ t[k].name \in Names
    BY <1>0, RowFacts
  <2>2. PathIn(t, t[k].parent) \in Paths /\ PathIn(t, k) = Append(PathIn(t, t[k].parent), t[k].name)
    BY <2>1, PathInFacts
  <2> QED
    BY <2>1, <2>2, PathFacts
<1>2. ASSUME NEW k \in 0 .. Len(t), 0 .. k - 1 \subseteq S PROVE k \in S
  <2>1. SUFFICES ASSUME NEW l \in 0 .. Len(t), PathIn(t, k) = PathIn(t, l) PROVE k = l
    OBVIOUS
  <2>2. CASE k = 0 \/ l = 0
    BY <1>1, <2>1, <2>2, PathInFacts
  <2>3. CASE k # 0 /\ l # 0
    <3>1. /\ k \in 1 .. Len(t) /\ t[k].parent \in 0 .. k - 1 /\ t[k].name \in Names
          /\ l \in 1 .. Len(t) /\ t[l].parent \in 0 .. Len(t) /\ t[l].name \in Names
      BY <1>0, <2>3, RowFacts
    <3>2. t[k].parent \in 0 .. Len(t)
      BY <3>1
    <3>3. /\ PathIn(t, k) = Append(PathIn(t, t[k].parent), t[k].name)
          /\ PathIn(t, l) = Append(PathIn(t, t[l].parent), t[l].name)
          /\ PathIn(t, t[k].parent) \in Paths /\ PathIn(t, t[l].parent) \in Paths
      BY <3>1, <3>2, PathInFacts
    <3>4. PathIn(t, t[k].parent) = PathIn(t, t[l].parent) /\ t[k].name = t[l].name
      <4>1. Append(PathIn(t, t[k].parent), t[k].name) = Append(PathIn(t, t[l].parent), t[l].name)
        BY <2>1, <3>3
      <4>2. \A p, q \in Paths, x, y \in Names : Append(p, x) = Append(q, y) => p = q /\ x = y
        BY PathFacts
      <4>3. /\ PathIn(t, t[k].parent) \in Paths /\ PathIn(t, t[l].parent) \in Paths
            /\ t[k].name \in Names /\ t[l].name \in Names
        BY <3>1, <3>3
      <4> QED
        BY ONLY <4>1, <4>2, <4>3
    <3>5. t[k].parent = t[l].parent
      BY <1>2, <3>1, <3>4
    <3> QED
      BY <3>1, <3>4, <3>5 DEF Table
  <2> QED
    BY <2>2, <2>3
<1> HIDE DEF S
<1>3. 0 .. Len(t) \subseteq S
  BY <1>0, <1>2, NumberInduction
<1> QED
  BY <1>3 DEF S

(* New rows leave the paths of the others.                                 *)
LEMMA PathsKept ==
  ASSUME NEW t, Table(t), NEW u, Table(u), Extends(u, t)
  PROVE  \A i \in 0 .. Len(t) : PathIn(u, i) = PathIn(t, i)
<1> DEFINE S == {k \in 0 .. Len(t) : PathIn(u, k) = PathIn(t, k)}
<1>0. Len(t) \in Nat /\ Len(u) \in Nat /\ Len(t) <= Len(u)
  BY RowFacts DEF Extends
<1>1. ASSUME NEW k \in 0 .. Len(t), 0 .. k - 1 \subseteq S PROVE k \in S
  <2>1. CASE k = 0
    BY <2>1, PathInFacts
  <2>2. CASE k # 0
    <3>1. k \in 1 .. Len(t) /\ k \in 1 .. Len(u) /\ u[k] = t[k]
      BY <1>0, <2>2 DEF Extends
    <3>2. t[k].parent \in 0 .. k - 1
      BY <3>1, RowFacts
    <3>3. /\ PathIn(t, k) = Append(PathIn(t, t[k].parent), t[k].name)
          /\ PathIn(u, k) = Append(PathIn(u, u[k].parent), u[k].name)
      BY <3>1, PathInFacts
    <3> QED
      BY <1>1, <3>1, <3>2, <3>3
  <2> QED
    BY <2>1, <2>2
<1> HIDE DEF S
<1>2. 0 .. Len(t) \subseteq S
  BY <1>0, <1>1, NumberInduction
<1> QED
  BY <1>2 DEF S

(* A row under an existing directory, with a name that is free there.      *)
Grown(u, t, d, x) ==
  /\ Table(u) /\ Extends(u, t) /\ Len(u) = Len(t) + 1
  /\ PathIn(u, Len(u)) = Append(PathIn(t, d), x)

LEMMA RowAdded ==
  ASSUME NEW t, Table(t), NEW d \in 0 .. Len(t), NEW x \in Names,
         \A i \in 1 .. Len(t) : ~(t[i].parent = d /\ t[i].name = x),
         NEW u, u = Append(t, [parent |-> d, name |-> x])
  PROVE  Grown(u, t, d, x)
<1>0. Len(t) \in Nat /\ d \in Nat /\ t \in Seq(DirRows)
  BY RowFacts DEF Table
<1>1. /\ u \in Seq(DirRows) /\ Len(u) = Len(t) + 1
      /\ \A i \in 1 .. Len(t) : u[i] = t[i]
      /\ u[Len(t) + 1] = [parent |-> d, name |-> x]
  <2>1. [parent |-> d, name |-> x] \in DirRows
    BY <1>0 DEF DirRows
  <2> QED
    BY <1>0, <2>1
<1>2. Extends(u, t)
  BY <1>0, <1>1 DEF Extends
<1>3. Table(u)
  <2>1. \A i \in 1 .. Len(u) : u[i].parent < i
    BY <1>0, <1>1 DEF Table
  <2>2. ASSUME NEW i \in 1 .. Len(u), NEW j \in 1 .. Len(u),
               u[i].parent = u[j].parent /\ u[i].name = u[j].name
        PROVE  i = j
    BY <1>0, <1>1, <2>2 DEF Table
  <2> QED
    BY <1>1, <2>1, <2>2 DEF Table
<1>4. PathIn(u, Len(u)) = Append(PathIn(u, d), x)
  <2>1. Len(u) \in 1 .. Len(u) /\ u[Len(u)].parent = d /\ u[Len(u)].name = x
    BY <1>0, <1>1
  <2> QED
    BY <1>3, <2>1, PathInFacts
<1>5. PathIn(u, d) = PathIn(t, d)
  BY <1>2, <1>3, PathsKept
<1> QED
  BY <1>1, <1>2, <1>3, <1>4, <1>5 DEF Grown

-----------------------------------------------------------------------------
(* The cache.                                                              *)
Distinct(es) == \A i, j \in 1 .. Len(es) : es[i].path = es[j].path => i = j
Pairs(es) == {<<es[i].id, es[i].path>> : i \in 1 .. Len(es)}

(* Entries whose directories are in the table under their paths.           *)
Listed(es, t) ==
  /\ es \in Seq(Entries) /\ Distinct(es)
  /\ \A i \in 1 .. Len(es) : es[i].id \in 1 .. Len(t) /\ PathIn(t, es[i].id) = es[i].path

LEMMA EntryTypes ==
  ASSUME NEW es \in Seq(Entries)
  PROVE  /\ Len(es) \in Nat /\ DOMAIN es = 1 .. Len(es)
         /\ \A i \in 1 .. Len(es) : es[i] \in Entries /\ es[i].path \in Paths /\ es[i].id \in Nat
                                    /\ es[i] = [path |-> es[i].path, id |-> es[i].id]
<1>1. Len(es) \in Nat /\ DOMAIN es = 1 .. Len(es) /\ \A i \in 1 .. Len(es) : es[i] \in Entries
  OBVIOUS
<1>2. \A e \in Entries : e.path \in Paths /\ e.id \in Nat /\ e = [path |-> e.path, id |-> e.id]
  BY DEF Entries
<1> QED
  BY <1>1, <1>2

LEMMA SoundMeans ==
  ASSUME NEW c \in Caches, NEW t
  PROVE  Sound(c, t) <=> Listed(c.entries, t) /\ c.id_to_path = Pairs(c.entries)
<1>1. c.entries \in Seq(Entries)
  BY DEF Caches
<1> QED
  BY <1>1 DEF Sound, Listed, Pairs, Distinct

LEMMA PairTypes ==
  ASSUME NEW es \in Seq(Entries)
  PROVE  Pairs(es) \in SUBSET (Nat \X Paths)
<1>1. \A i \in 1 .. Len(es) : <<es[i].id, es[i].path>> \in Nat \X Paths
  BY EntryTypes
<1> QED
  BY <1>1 DEF Pairs

(* Without the entry of a path the others are left, each once.             *)
Without(o, es, path) ==
  /\ o \in Seq(Entries) /\ Distinct(o)
  /\ \A i \in 1 .. Len(o) : o[i].path # path /\ \E k \in 1 .. Len(es) : o[i] = es[k]
  /\ \A k \in 1 .. Len(es) : es[k].path # path => \E i \in 1 .. Len(o) : o[i] = es[k]
  /\ Len(o) <= Len(es)
  /\ \A k \in 1 .. Len(es) : es[k].path = path => Len(o) < Len(es)

LEMMA OthersFacts ==
  ASSUME NEW c \in Caches, Distinct(c.entries), NEW path, NEW o, o = Others(c, path)
  PROVE  Without(o, c.entries, path)
<1>0. c.entries \in Seq(Entries)
  BY DEF Caches
<1>1. PICK es, n : es = c.entries /\ n = Len(es)
  OBVIOUS
<1>2. /\ n \in Nat /\ DOMAIN es = 1 .. n /\ es \in Seq(Entries) /\ Distinct(es)
      /\ \A i \in 1 .. n : es[i] \in Entries
  BY <1>0, <1>1, EntryTypes
<1>3. CASE \A i \in 1 .. n : es[i].path # path
  <2>1. o = es
    BY <1>1, <1>2, <1>3 DEF Others
  <2> QED
    BY <1>1, <1>2, <1>3, <2>1 DEF Without
<1>4. ASSUME NEW m \in 1 .. n, es[m].path = path
      PROVE  /\ Len(o) = n - 1 /\ o \in Seq(Entries)
             /\ \A j \in 1 .. n - 1 : o[j] = es[IF j < m THEN j ELSE j + 1]
  <2>1. {i \in DOMAIN c.entries : c.entries[i].path = path} = {m}
    BY <1>1, <1>2, <1>4 DEF Distinct
  <2>2. (CHOOSE i \in {m} : TRUE) = m
    OBVIOUS
  <2>3. o = [j \in 1 .. n - 1 |-> es[IF j < m THEN j ELSE j + 1]]
    BY <1>1, <2>1, <2>2 DEF Others
  <2>4. \A j \in 1 .. n - 1 : es[IF j < m THEN j ELSE j + 1] \in Entries
    BY <1>2
  <2>5. n - 1 \in Nat
    BY <1>2
  <2> QED
    BY <2>3, <2>4, <2>5
<1>5. ASSUME NEW m \in 1 .. n, es[m].path = path
      PROVE  /\ Distinct(o)
             /\ \A i \in 1 .. Len(o) : o[i].path # path /\ \E k \in 1 .. n : o[i] = es[k]
             /\ \A k \in 1 .. n : es[k].path # path => \E i \in 1 .. Len(o) : o[i] = es[k]
  <2>1. Len(o) = n - 1 /\ \A j \in 1 .. n - 1 : o[j] = es[IF j < m THEN j ELSE j + 1]
    BY <1>4, <1>5
  <2>2. \A j \in 1 .. n - 1 : j \in 1 .. n /\ j + 1 \in 1 .. n
    BY <1>2
  <2>3. \A i \in 1 .. n : es[i].path = path => i = m
    BY <1>1, <1>2, <1>5 DEF Distinct
  <2>4. \A i \in 1 .. Len(o) : o[i].path # path /\ \E k \in 1 .. n : o[i] = es[k]
    BY <1>2, <2>1, <2>2, <2>3
  <2>5. Distinct(o)
    <3>1. SUFFICES ASSUME NEW i \in 1 .. n - 1, NEW j \in 1 .. n - 1, o[i].path = o[j].path
                   PROVE  i = j
      BY <2>1 DEF Distinct
    <3>2. (IF i < m THEN i ELSE i + 1) = (IF j < m THEN j ELSE j + 1)
      <4>1. PICK a \in 1 .. n : a = (IF i < m THEN i ELSE i + 1) /\ o[i] = es[a]
        BY <2>1, <2>2
      <4>2. PICK b \in 1 .. n : b = (IF j < m THEN j ELSE j + 1) /\ o[j] = es[b]
        BY <2>1, <2>2
      <4>3. a = b
        BY <1>1, <1>2, <3>1, <4>1, <4>2 DEF Distinct
      <4> QED
        BY <4>1, <4>2, <4>3
    <3> QED
      BY <1>2, <3>2
  <2>6. ASSUME NEW k \in 1 .. n, es[k].path # path PROVE \E i \in 1 .. Len(o) : o[i] = es[k]
    <3>1. k # m
      BY <1>5, <2>6
    <3>2. CASE k < m
      BY <1>2, <2>1, <3>2
    <3>3. CASE k > m
      <4>1. k - 1 \in 1 .. n - 1 /\ ~(k - 1 < m) /\ (k - 1) + 1 = k
        BY <1>2, <3>3
      <4> QED
        BY <2>1, <4>1
    <3> QED
      BY <1>2, <3>1, <3>2, <3>3
  <2> QED
    BY <2>4, <2>5, <2>6
<1>6. CASE \E m \in 1 .. n : es[m].path = path
  <2>1. PICK m \in 1 .. n : es[m].path = path
    BY <1>6
  <2>2. /\ Distinct(o) /\ o \in Seq(Entries) /\ Len(o) = n - 1
        /\ \A i \in 1 .. Len(o) : o[i].path # path /\ \E k \in 1 .. n : o[i] = es[k]
        /\ \A k \in 1 .. n : es[k].path # path => \E i \in 1 .. Len(o) : o[i] = es[k]
    BY <1>4, <1>5, <2>1
  <2> QED
    BY <1>1, <1>2, <2>2 DEF Without
<1> QED
  BY <1>3, <1>6

LEMMA AppendFacts ==
  ASSUME NEW S, NEW s \in Seq(S), NEW e \in S, NEW u, u = Append(s, e)
  PROVE  /\ u \in Seq(S) /\ Len(u) = Len(s) + 1 /\ u[Len(s) + 1] = e
         /\ \A i \in 1 .. Len(s) : u[i] = s[i]
BY AppendProperties

(* The entry of a path made the latest one, or a new one added.            *)
Added(es, c, t, id, path) ==
  /\ Listed(es, t) /\ Pairs(es) = c.id_to_path \cup {<<id, path>>}
  /\ Len(es) \in Nat /\ Len(es) <= Len(c.entries) + 1
  /\ \A k \in 1 .. Len(c.entries) : c.entries[k].path = path => Len(es) <= Len(c.entries)

LEMMA EntryAdded ==
  ASSUME NEW t, Table(t), NEW c \in Caches, Sound(c, t),
         NEW id \in 1 .. Len(t), NEW path, path = PathIn(t, id),
         NEW es, es = Append(Others(c, path), [path |-> path, id |-> id])
  PROVE  Added(es, c, t, id, path)
<1>0. /\ Len(t) \in Nat /\ id \in Nat /\ path \in Paths
      /\ Listed(c.entries, t) /\ c.id_to_path = Pairs(c.entries) /\ c.entries \in Seq(Entries)
  <2>1. Len(t) \in Nat /\ id \in 0 .. Len(t)
    BY RowFacts
  <2>2. path \in Paths
    BY <2>1, PathInFacts
  <2>3. Listed(c.entries, t) /\ c.id_to_path = Pairs(c.entries)
    BY SoundMeans
  <2> QED
    BY <2>1, <2>2, <2>3 DEF Caches
<1>1. PICK o : o = Others(c, path)
  OBVIOUS
<1>2. Distinct(c.entries)
  BY <1>0 DEF Listed
<1>w. Without(o, c.entries, path)
  BY <1>1, <1>2, OthersFacts
<1>3. /\ o \in Seq(Entries) /\ Distinct(o)
      /\ \A i \in 1 .. Len(o) : /\ o[i].path # path
                                /\ \E k \in 1 .. Len(c.entries) : o[i] = c.entries[k]
      /\ \A k \in 1 .. Len(c.entries) :
           c.entries[k].path # path => \E i \in 1 .. Len(o) : o[i] = c.entries[k]
  BY <1>w DEF Without
<1>4. /\ Len(o) <= Len(c.entries)
      /\ \A k \in 1 .. Len(c.entries) : c.entries[k].path = path => Len(o) < Len(c.entries)
  BY <1>w DEF Without
<1>5. PICK e \in Entries : e = [path |-> path, id |-> id]
  BY <1>0 DEF Entries
<1>6. /\ es \in Seq(Entries) /\ Len(es) = Len(o) + 1 /\ es[Len(o) + 1] = e
      /\ \A i \in 1 .. Len(o) : es[i] = o[i]
  <2>1. es = Append(o, e)
    BY <1>1, <1>5
  <2>2. o \in Seq(Entries) /\ e \in Entries
    BY <1>3, <1>5
  <2> QED
    BY ONLY <2>1, <2>2, AppendFacts
<1>7. Len(o) \in Nat /\ Len(c.entries) \in Nat
  BY <1>0, <1>3, EntryTypes
<1>8. \A i \in 1 .. Len(es) : i \in 1 .. Len(o) \/ i = Len(o) + 1
  BY <1>6, <1>7
<1>9. Listed(es, t)
  <2>1. Distinct(es)
    BY <1>3, <1>5, <1>6, <1>8 DEF Distinct
  <2>2. \A i \in 1 .. Len(es) : es[i].id \in 1 .. Len(t) /\ PathIn(t, es[i].id) = es[i].path
    BY <1>0, <1>3, <1>5, <1>6, <1>8 DEF Listed
  <2> QED
    BY <1>6, <2>1, <2>2 DEF Listed
<1>10. Pairs(es) = c.id_to_path \cup {<<id, path>>}
  <2>1. ASSUME NEW i \in 1 .. Len(es)
        PROVE  <<es[i].id, es[i].path>> \in Pairs(c.entries) \cup {<<id, path>>}
    <3>1. CASE i \in 1 .. Len(o)
      <4>1. PICK k \in 1 .. Len(c.entries) : es[i] = c.entries[k]
        BY <1>3, <1>6, <3>1
      <4> QED
        BY <4>1 DEF Pairs
    <3>2. CASE i = Len(o) + 1
      BY <1>5, <1>6, <3>2
    <3> QED
      BY <1>8, <3>1, <3>2
  <2>2. ASSUME NEW k \in 1 .. Len(c.entries)
        PROVE  <<c.entries[k].id, c.entries[k].path>> \in Pairs(es)
    <3>1. CASE c.entries[k].path = path
      <4>1. c.entries[k].id \in 1 .. Len(t) /\ PathIn(t, c.entries[k].id) = PathIn(t, id)
        BY <1>0, <3>1 DEF Listed
      <4>2. \A x \in 1 .. Len(t) : x \in 0 .. Len(t)
        BY <1>0
      <4>3. c.entries[k].id = id
        BY <4>1, <4>2, PathsDiffer
      <4>4. Len(o) + 1 \in 1 .. Len(es) /\ es[Len(o) + 1].id = id /\ es[Len(o) + 1].path = path
        BY <1>5, <1>6, <1>7
      <4> QED
        BY <3>1, <4>3, <4>4 DEF Pairs
    <3>2. CASE c.entries[k].path # path
      <4>1. PICK i \in 1 .. Len(o) : o[i] = c.entries[k]
        BY <1>3, <3>2
      <4>2. i \in 1 .. Len(es) /\ es[i] = c.entries[k]
        BY <1>6, <1>7, <4>1
      <4> QED
        BY <4>2 DEF Pairs
    <3> QED
      BY <3>1, <3>2
  <2>3. <<id, path>> \in Pairs(es)
    <3>1. Len(o) + 1 \in 1 .. Len(es) /\ es[Len(o) + 1].id = id /\ es[Len(o) + 1].path = path
      BY <1>5, <1>6, <1>7
    <3> QED
      BY <3>1 DEF Pairs
  <2>4. Pairs(es) \subseteq Pairs(c.entries) \cup {<<id, path>>}
    <3>1. SUFFICES ASSUME NEW x \in Pairs(es) PROVE x \in Pairs(c.entries) \cup {<<id, path>>}
      OBVIOUS
    <3>2. PICK i \in 1 .. Len(es) : x = <<es[i].id, es[i].path>>
      BY <3>1 DEF Pairs
    <3> QED
      BY <2>1, <3>2
  <2>5. Pairs(c.entries) \subseteq Pairs(es)
    <3>1. SUFFICES ASSUME NEW x \in Pairs(c.entries) PROVE x \in Pairs(es)
      OBVIOUS
    <3>2. PICK k \in 1 .. Len(c.entries) : x = <<c.entries[k].id, c.entries[k].path>>
      BY <3>1 DEF Pairs
    <3> QED
      BY <2>2, <3>2
  <2> QED
    BY <1>0, <2>3, <2>4, <2>5
<1> QED
  BY <1>4, <1>6, <1>7, <1>9, <1>10 DEF Added

LEMMA TouchedSound ==
  ASSUME NEW t, Table(t), NEW c \in Caches, Sound(c, t), NEW path
  PROVE  /\ Touched(c, path) \in Caches /\ Sound(Touched(c, path), t)
         /\ Len(Touched(c, path).entries) <= Len(c.entries)
<1>0. Listed(c.entries, t) /\ c.id_to_path = Pairs(c.entries) /\ c.entries \in Seq(Entries)
  BY SoundMeans DEF Caches
<1>1. CASE Entry(c, path) = {}
  <2>1. Touched(c, path) = c /\ Len(c.entries) \in Nat
    BY <1>0, <1>1, EntryTypes DEF Touched
  <2> QED
    BY <2>1
<1>2. CASE Entry(c, path) # {}
  <2>1. PICK e : e = CHOOSE x \in Entry(c, path) : TRUE
    OBVIOUS
  <2>2. e \in Entry(c, path)
    BY <1>2, <2>1
  <2>3. PICK k \in 1 .. Len(c.entries) : e = c.entries[k] /\ e.path = path
    BY <1>0, <2>2, EntryTypes DEF Entry
  <2>4. /\ e = [path |-> path, id |-> e.id] /\ e.id \in 1 .. Len(t) /\ path = PathIn(t, e.id)
        /\ <<e.id, path>> \in c.id_to_path
    BY <1>0, <2>3, EntryTypes DEF Listed, Pairs
  <2>a. PICK id \in 1 .. Len(t) : id = e.id
    BY <2>4
  <2>5. PICK es : es = Append(Others(c, path), [path |-> path, id |-> id])
    OBVIOUS
  <2>b. path = PathIn(t, id) /\ c.entries[k].path = path
    BY <2>3, <2>4, <2>a
  <2>6. /\ Listed(es, t) /\ Pairs(es) = c.id_to_path \cup {<<id, path>>}
        /\ Len(es) <= Len(c.entries)
    <3>1. Added(es, c, t, id, path)
      BY <2>5, <2>b, EntryAdded
    <3> QED
      BY <2>b, <3>1 DEF Added
  <2>7. Touched(c, path) = [c EXCEPT !.entries = es]
    BY <1>2, <2>1, <2>4, <2>5, <2>a DEF Touched
  <2>8. /\ Touched(c, path) \in Caches /\ Touched(c, path).entries = es
        /\ Touched(c, path).id_to_path = c.id_to_path
    BY <2>6, <2>7 DEF Caches, Listed
  <2>9. Touched(c, path).id_to_path = Pairs(es)
    BY <2>4, <2>6, <2>8, <2>a
  <2> QED
    BY <2>6, <2>8, <2>9, SoundMeans
<1> QED
  BY <1>1, <1>2

(* A trim takes the same directories from both maps.                       *)
LEMMA TrimmedSound ==
  ASSUME NEW t, Table(t), NEW c \in Caches, Sound(c, t), Len(c.entries) <= MaxEntries + 1
  PROVE  /\ Trimmed(c) \in Caches /\ Sound(Trimmed(c), t)
         /\ Len(Trimmed(c).entries) <= MaxEntries
<1>0. PICK es, n : es = c.entries /\ n = Len(es)
  OBVIOUS
<1>1. /\ Listed(es, t) /\ c.id_to_path = Pairs(es) /\ es \in Seq(Entries)
  BY <1>0, SoundMeans DEF Caches
<1>2. n \in Nat /\ MaxEntries \in Nat /\ TrimTo \in Nat /\ TrimTo <= MaxEntries
  BY <1>0, <1>1, EntryTypes, DirCacheAssumption
<1>3. CASE n <= MaxEntries
  BY <1>0, <1>3 DEF Trimmed
<1>4. CASE ~(n <= MaxEntries)
  <2>1. PICK cut : cut = n - TrimTo
    OBVIOUS
  <2>2. cut \in 0 .. n /\ n - cut = TrimTo
    BY <1>2, <1>4, <2>1
  <2>3. PICK rest, left :
          /\ rest = SubSeq(es, cut + 1, n)
          /\ left = {pair \in c.id_to_path : \A i \in 1 .. cut : pair[1] # es[i].id}
    OBVIOUS
  <2>4. Trimmed(c) = [entries |-> rest, id_to_path |-> left]
    BY <1>0, <1>4, <2>1, <2>3 DEF Trimmed
  <2>5. /\ rest \in Seq(Entries) /\ Len(rest) = TrimTo
        /\ \A i \in 1 .. TrimTo : rest[i] = es[cut + i] /\ cut + i \in 1 .. n
    BY <1>0, <1>1, <1>2, <2>2, <2>3
  <2>6. Listed(rest, t)
    <3>1. ASSUME NEW i \in 1 .. TrimTo, NEW j \in 1 .. TrimTo, rest[i].path = rest[j].path
          PROVE  i = j
      <4>1. cut + i = cut + j
        <5>1. cut + i \in 1 .. Len(es) /\ cut + j \in 1 .. Len(es)
          BY <1>0, <2>5
        <5>2. es[cut + i].path = es[cut + j].path
          BY <2>5, <3>1
        <5>3. Distinct(es)
          BY <1>1 DEF Listed
        <5> QED
          BY ONLY <5>1, <5>2, <5>3 DEF Distinct
      <4> QED
        BY <1>2, <2>2, <4>1
    <3>2. \A i \in 1 .. TrimTo : rest[i].id \in 1 .. Len(t) /\ PathIn(t, rest[i].id) = rest[i].path
      BY <1>0, <1>1, <2>5 DEF Listed
    <3> QED
      BY <2>5, <3>1, <3>2 DEF Listed, Distinct
  <2>7. \A i, j \in 1 .. n : es[i].id = es[j].id => i = j
    BY <1>0, <1>1 DEF Listed, Distinct
  <2>8. left = Pairs(rest)
    <3>1. ASSUME NEW x \in left PROVE x \in Pairs(rest)
      <4>1. PICK k \in 1 .. n : x = <<es[k].id, es[k].path>>
        BY <1>0, <1>1, <2>3, <3>1 DEF Pairs
      <4>2. k \notin 1 .. cut
        BY <2>3, <3>1, <4>1
      <4>3. k - cut \in 1 .. TrimTo /\ cut + (k - cut) = k
        BY <1>2, <2>2, <4>2
      <4>4. rest[k - cut] = es[k]
        BY <2>5, <4>3
      <4> QED
        BY <2>5, <4>1, <4>3, <4>4 DEF Pairs
    <3>2. ASSUME NEW x \in Pairs(rest) PROVE x \in left
      <4>1. PICK i \in 1 .. TrimTo : x = <<rest[i].id, rest[i].path>>
        BY <2>5, <3>2 DEF Pairs
      <4>2. PICK k \in 1 .. n : k = cut + i /\ x = <<es[k].id, es[k].path>>
        BY <2>5, <4>1
      <4>3. x \in c.id_to_path /\ x[1] = es[k].id
        BY <1>0, <1>1, <4>2 DEF Pairs
      <4>4. \A j \in 1 .. cut : j \in 1 .. n /\ j # k
        BY <1>2, <2>2, <4>1, <4>2
      <4>5. \A j \in 1 .. cut : x[1] # es[j].id
        BY <2>7, <4>3, <4>4
      <4> QED
        BY <2>3, <4>3, <4>5
    <3> QED
      BY <3>1, <3>2
  <2>9. Trimmed(c) \in Caches
    BY <2>4, <2>5, <2>8, PairTypes DEF Caches
  <2> QED
    BY <1>2, <2>4, <2>5, <2>6, <2>8, <2>9, SoundMeans
<1> QED
  BY <1>3, <1>4

LEMMA RememberedSound ==
  ASSUME NEW t, Table(t), NEW c \in Caches, Sound(c, t), Len(c.entries) <= MaxEntries,
         NEW id \in 1 .. Len(t), NEW path, path = PathIn(t, id)
  PROVE  /\ Remembered(c, id, path) \in Caches /\ Sound(Remembered(c, id, path), t)
         /\ Len(Remembered(c, id, path).entries) <= MaxEntries
<1>1. PICK es : es = Append(Others(c, path), [path |-> path, id |-> id])
  OBVIOUS
<1>2. Added(es, c, t, id, path)
  BY <1>1, EntryAdded
<1>3. /\ Listed(es, t) /\ Pairs(es) = c.id_to_path \cup {<<id, path>>} /\ es \in Seq(Entries)
      /\ Len(es) \in Nat /\ Len(es) <= Len(c.entries) + 1
  BY <1>2 DEF Added, Listed
<1>4. (c.id_to_path \ CachedPath(c, id)) \cup {<<id, path>>} = Pairs(es)
  <2>1. c.id_to_path = Pairs(c.entries) /\ Listed(c.entries, t)
    BY SoundMeans
  <2>2. ASSUME NEW x \in CachedPath(c, id) PROVE x = <<id, path>>
    <3>1. x \in c.id_to_path /\ x[1] = id
      BY <2>2 DEF CachedPath
    <3>2. PICK k \in 1 .. Len(c.entries) : x = <<c.entries[k].id, c.entries[k].path>>
      BY <2>1, <3>1 DEF Pairs
    <3> QED
      BY <2>1, <3>1, <3>2 DEF Listed
  <2> QED
    BY <1>3, <2>2
<1>5. PICK d : d = [entries |-> es, id_to_path |-> Pairs(es)]
  OBVIOUS
<1>6. d \in Caches /\ d.entries = es /\ d.id_to_path = Pairs(es)
  BY <1>3, <1>5, PairTypes DEF Caches
<1>7. Sound(d, t)
  BY <1>3, <1>6, SoundMeans
<1>8. Remembered(c, id, path) = Trimmed(d)
  BY <1>1, <1>4, <1>5 DEF Remembered
<1>9. Len(d.entries) <= MaxEntries + 1
  <2>1. Len(c.entries) \in Nat /\ MaxEntries \in Nat
    BY EntryTypes, DirCacheAssumption DEF Caches
  <2> QED
    BY <1>3, <1>6, <2>1
<1> QED
  BY <1>6, <1>7, <1>8, <1>9, TrimmedSound

(* A cache that is sound for a table stays so when rows are added.         *)
LEMMA SoundKept ==
  ASSUME NEW t, Table(t), NEW u, Table(u), Extends(u, t), NEW c, Sound(c, t)
  PROVE  Sound(c, u)
<1>1. Len(t) \in Nat /\ Len(u) \in Nat /\ Len(t) <= Len(u)
  BY RowFacts DEF Extends
<1>2. \A i \in 1 .. Len(t) : i \in 1 .. Len(u) /\ PathIn(u, i) = PathIn(t, i)
  BY <1>1, PathsKept
<1> QED
  BY <1>2 DEF Sound

-----------------------------------------------------------------------------
(* Transactions.  Whatever one has come to, its table is the committed one *)
(* with rows added, and its cache is sound for the committed one.          *)
Going(s) ==
  /\ s \in Txs
  /\ Table(s.dirs) /\ Extends(s.dirs, dirs)
  /\ Sound(s.cache, dirs) /\ Len(s.cache.entries) <= MaxEntries

(* It is at the directory of the path, which is the last row it added.     *)
Arrived(s, path) ==
  /\ s.at \in 0 .. Len(s.dirs) /\ PathIn(s.dirs, s.at) = path
  /\ Len(s.dirs) > Len(dirs) => s.at = Len(s.dirs)

(* What a component makes of a transaction that was at the directory above.*)
Advanced(r, s, path, create) ==
  Going(r) /\ (r.ok => Arrived(r, path)) /\ (~create => r.dirs = s.dirs)

(* What a hit in the cache makes of it.                                    *)
Jumped(r, s, path) ==
  /\ Going(r) /\ r.ok /\ r.dirs = s.dirs
  /\ r.at \in 1 .. Len(dirs) /\ PathIn(dirs, r.at) = path

LEMMA TxFields ==
  ASSUME NEW s \in Txs
  PROVE  /\ s.dirs \in Seq(DirRows) /\ s.cache \in Caches /\ s.at \in Nat /\ s.ok \in BOOLEAN
         /\ s.cache.entries \in Seq(Entries)
  BY DEF Txs, Caches

(* A path that is in the cache: its directory is a committed one.          *)
LEMMA ComponentCached ==
  ASSUME Table(dirs), NEW s, Going(s), s.ok, NEW path, Entry(s.cache, path) # {}, NEW create,
         NEW r, r = Component(s, path, create)
  PROVE  Jumped(r, s, path)
<1>0. /\ s \in Txs /\ s.cache \in Caches /\ s.cache.entries \in Seq(Entries) /\ Sound(s.cache, dirs)
      /\ Len(s.cache.entries) <= MaxEntries /\ Len(s.cache.entries) \in Nat
  BY TxFields, EntryTypes DEF Going
<1>1. PICK e : e = CHOOSE x \in Entry(s.cache, path) : TRUE
  OBVIOUS
<1>2. e \in Entry(s.cache, path)
  BY <1>1
<1>3. PICK k \in 1 .. Len(s.cache.entries) : e = s.cache.entries[k] /\ e.path = path
  BY <1>0, <1>2, EntryTypes DEF Entry
<1>4. e.id \in 1 .. Len(dirs) /\ PathIn(dirs, e.id) = path
  BY <1>0, <1>3 DEF Sound
<1>5. PICK d : d = Touched(s.cache, path)
  OBVIOUS
<1>6. d \in Caches /\ Sound(d, dirs) /\ Len(d.entries) <= Len(s.cache.entries)
  BY <1>0, <1>5, TouchedSound
<1>7. r = [s EXCEPT !.at = e.id, !.cache = d]
  BY <1>1, <1>5 DEF Component
<1>8. e.id \in Nat
  BY <1>4
<1>9. /\ r \in Txs /\ r.dirs = s.dirs /\ r.cache = d /\ r.at = e.id /\ r.ok
  BY <1>0, <1>6, <1>7, <1>8 DEF Txs
<1>10. Len(d.entries) <= MaxEntries
  <2>1. Len(d.entries) \in Nat /\ MaxEntries \in Nat
    BY <1>6, EntryTypes, DirCacheAssumption DEF Caches
  <2> QED
    BY <1>0, <1>6, <2>1
<1>11. Going(r)
  BY <1>6, <1>9, <1>10 DEF Going
<1> QED
  BY <1>4, <1>9, <1>11 DEF Jumped

(* A directory that the cache knows under path/x is a child of the one     *)
(* the transaction is at, so the transaction has added no row.             *)
LEMMA NoRowBefore ==
  ASSUME Table(dirs), NEW s, Going(s), NEW p \in Paths, NEW x \in Names, Arrived(s, p),
         NEW id \in 1 .. Len(dirs), PathIn(dirs, id) = Append(p, x)
  PROVE  ~(Len(s.dirs) > Len(dirs))
<1>0. /\ Len(dirs) \in Nat /\ Len(s.dirs) \in Nat /\ Table(s.dirs) /\ Extends(s.dirs, dirs)
      /\ Len(dirs) <= Len(s.dirs)
  BY RowFacts DEF Going, Extends
<1>1. PICK d : d = dirs[id].parent
  OBVIOUS
<1>2. d \in 0 .. Len(dirs) /\ dirs[id].name \in Names /\ d \in 0 .. Len(s.dirs)
  BY <1>0, <1>1, RowFacts
<1>3. Append(PathIn(dirs, d), dirs[id].name) = Append(p, x) /\ PathIn(dirs, d) \in Paths
  BY <1>1, <1>2, PathInFacts
<1>4. PathIn(dirs, d) = p
  <2>1. PICK q \in Paths, y \in Names : q = PathIn(dirs, d) /\ Append(q, y) = Append(p, x)
    BY <1>2, <1>3
  <2>2. q = p
    BY ONLY <2>1, PathFacts
  <2> QED
    BY <2>1, <2>2
<1>5. PathIn(s.dirs, d) = p
  BY <1>0, <1>2, <1>4, PathsKept
<1>6. s.at \in 0 .. Len(s.dirs) /\ PathIn(s.dirs, s.at) = p
  BY DEF Arrived
<1>7. s.at = d
  BY <1>0, <1>2, <1>5, <1>6, PathsDiffer
<1> QED
  BY <1>0, <1>2, <1>7 DEF Arrived

LEMMA ExtendsSame ==
  ASSUME Table(dirs), NEW s, Going(s), ~(Len(s.dirs) > Len(dirs))
  PROVE  /\ Len(s.dirs) = Len(dirs)
         /\ \A i \in 0 .. Len(dirs) : PathIn(s.dirs, i) = PathIn(dirs, i)
<1>1. /\ Len(dirs) \in Nat /\ Len(s.dirs) \in Nat /\ Table(s.dirs) /\ Extends(s.dirs, dirs)
      /\ Len(dirs) <= Len(s.dirs)
  BY RowFacts DEF Going, Extends
<1> QED
  BY <1>1, PathsKept

(* A path that is in the table: the row is a committed one.                *)
LEMMA ComponentFound ==
  ASSUME Table(dirs), NEW s, Going(s), s.ok, NEW p \in Paths, NEW x \in Names, Arrived(s, p),
         NEW path, path = Append(p, x), Last(path) = x, Entry(s.cache, path) = {},
         Children(s, s.at, x) # {}, NEW create, NEW r, r = Component(s, path, create)
  PROVE  Advanced(r, s, path, create)
<1>0. /\ s \in Txs /\ Table(s.dirs) /\ Len(s.dirs) \in Nat /\ Len(dirs) \in Nat /\ s.cache \in Caches
      /\ s.at \in Nat /\ Sound(s.cache, dirs) /\ Len(s.cache.entries) <= MaxEntries
      /\ DOMAIN s.dirs = 1 .. Len(s.dirs)
  BY TxFields, RowFacts DEF Going
<1>1. PICK id : id = CHOOSE i \in Children(s, s.at, x) : TRUE
  OBVIOUS
<1>2. id \in Children(s, s.at, x)
  BY <1>1
<1>3. id \in 1 .. Len(s.dirs) /\ s.dirs[id].parent = s.at /\ s.dirs[id].name = x
  BY <1>0, <1>2 DEF Children
<1>4. s.at < id /\ PathIn(s.dirs, id) = path
  <2>1. PICK t : t = s.dirs
    OBVIOUS
  <2>2. Table(t) /\ id \in 1 .. Len(t) /\ t[id].parent = s.at /\ t[id].name = x /\ PathIn(t, s.at) = p
    BY <1>0, <1>3, <2>1 DEF Arrived
  <2>3. t[id].parent < id
    BY <2>2 DEF Table
  <2>4. PathIn(t, id) = Append(PathIn(t, t[id].parent), t[id].name)
    BY <2>2, PathInFacts
  <2> QED
    BY <2>1, <2>2, <2>3, <2>4
<1>5. ~(Len(s.dirs) > Len(dirs))
  BY <1>0, <1>3, <1>4 DEF Arrived
<1>6. id \in 1 .. Len(dirs) /\ PathIn(dirs, id) = path /\ Len(s.dirs) = Len(dirs)
  BY <1>0, <1>3, <1>4, <1>5, ExtendsSame
<1>7. PICK d : d = Remembered(s.cache, id, path)
  OBVIOUS
<1>8. d \in Caches /\ Sound(d, dirs) /\ Len(d.entries) <= MaxEntries
  BY <1>0, <1>6, <1>7, RememberedSound
<1>9. r = [s EXCEPT !.at = id, !.cache = d]
  BY <1>1, <1>7 DEF Component
<1>10. r \in Txs /\ r.dirs = s.dirs /\ r.cache = d /\ r.at = id
  <2>1. id \in Nat
    BY <1>3
  <2> QED
    BY <1>0, <1>8, <1>9, <2>1 DEF Txs
<1>11. Going(r)
  BY <1>8, <1>10 DEF Going
<1>12. Arrived(r, path)
  BY <1>0, <1>3, <1>4, <1>5, <1>10 DEF Arrived
<1> QED
  BY <1>10, <1>11, <1>12 DEF Advanced

(* A path that is nowhere: a new row, or the end of the transaction.       *)
LEMMA ComponentNew ==
  ASSUME Table(dirs), NEW s, Going(s), s.ok, NEW p \in Paths, NEW x \in Names, Arrived(s, p),
         NEW path, path = Append(p, x), Last(path) = x, Entry(s.cache, path) = {},
         Children(s, s.at, x) = {}, NEW create \in BOOLEAN, NEW r, r = Component(s, path, create)
  PROVE  Advanced(r, s, path, create)
<1>0. /\ s \in Txs /\ Table(s.dirs) /\ Len(s.dirs) \in Nat /\ Len(dirs) \in Nat
      /\ s.dirs \in Seq(DirRows) /\ DOMAIN s.dirs = 1 .. Len(s.dirs) /\ s.at \in 0 .. Len(s.dirs)
      /\ Extends(s.dirs, dirs) /\ PathIn(s.dirs, s.at) = p
      /\ Sound(s.cache, dirs) /\ Len(s.cache.entries) <= MaxEntries
  BY TxFields, RowFacts DEF Going, Arrived
<1>1. CASE create /\ NameAvailable(s, s.at, x, None) /\ Exists(s, s.at)
  <2>1. PICK u : u = Append(s.dirs, [parent |-> s.at, name |-> x])
    OBVIOUS
  <2>2. \A i \in 1 .. Len(s.dirs) : ~(s.dirs[i].parent = s.at /\ s.dirs[i].name = x)
    BY <1>0 DEF Children
  <2>3. /\ Table(u) /\ Extends(u, s.dirs) /\ Len(u) = Len(s.dirs) + 1
        /\ PathIn(u, Len(u)) = path
    <3>1. PICK t, d : t = s.dirs /\ d = s.at
      OBVIOUS
    <3>2. /\ Table(t) /\ d \in 0 .. Len(t) /\ u = Append(t, [parent |-> d, name |-> x])
          /\ \A i \in 1 .. Len(t) : ~(t[i].parent = d /\ t[i].name = x)
      BY <1>0, <2>1, <2>2, <3>1
    <3>3. Grown(u, t, d, x)
      BY <3>2, RowAdded
    <3> QED
      BY <1>0, <3>1, <3>3 DEF Grown
  <2>4. r = [s EXCEPT !.dirs = u, !.at = Len(u), !.cache = @]
    BY <1>1, <2>1, <2>3 DEF Component, AfterCreate
  <2>5. r \in Txs /\ r.dirs = u /\ r.cache = s.cache /\ r.at = Len(u)
    <3>1. u \in Seq(DirRows) /\ Len(u) \in Nat
      BY <1>0, <2>3 DEF Table
    <3> QED
      BY <1>0, <2>4, <3>1 DEF Txs
  <2>6. Extends(u, dirs)
    <3>1. Len(dirs) <= Len(s.dirs) /\ \A i \in 1 .. Len(dirs) : s.dirs[i] = dirs[i]
      BY <1>0 DEF Extends
    <3>2. Len(s.dirs) <= Len(u) /\ \A i \in 1 .. Len(s.dirs) : u[i] = s.dirs[i]
      BY <2>3 DEF Extends
    <3>3. \A i \in 1 .. Len(dirs) : i \in 1 .. Len(s.dirs)
      BY <1>0, <3>1
    <3>4. Len(dirs) <= Len(u)
      BY <1>0, <2>3, <3>1
    <3> QED
      BY ONLY <3>1, <3>2, <3>3, <3>4 DEF Extends
  <2>7. Going(r)
    BY <1>0, <2>3, <2>5, <2>6 DEF Going
  <2>8. Arrived(r, path)
    BY <1>0, <2>3, <2>5 DEF Arrived
  <2> QED
    BY <1>1, <2>7, <2>8 DEF Advanced
<1>2. CASE ~(create /\ NameAvailable(s, s.at, x, None) /\ Exists(s, s.at))
  <2>1. r = [s EXCEPT !.ok = FALSE]
    BY <1>2 DEF Component, Refuse
  <2>2. r \in Txs /\ r.dirs = s.dirs /\ r.cache = s.cache /\ ~r.ok
    BY <1>0, <2>1 DEF Txs
  <2>3. Going(r)
    BY <1>0, <2>2 DEF Going
  <2> QED
    BY <2>2, <2>3 DEF Advanced
<1> QED
  BY <1>1, <1>2

LEMMA ComponentStep ==
  ASSUME Table(dirs), NEW s, Going(s), NEW p \in Paths, NEW x \in Names, s.ok => Arrived(s, p),
         NEW path, path = Append(p, x), NEW create \in BOOLEAN, NEW r, r = Component(s, path, create)
  PROVE  Advanced(r, s, path, create)
<1>0. Last(path) = x
  <2>1. p \in Seq(Names)
    BY DEF Paths
  <2> QED
    BY <2>1, AppendProperties DEF Last
<1>1. CASE ~s.ok
  <2>1. r = s
    BY <1>1 DEF Component
  <2> QED
    BY <1>1, <2>1 DEF Advanced
<1>2. CASE s.ok /\ Entry(s.cache, path) # {}
  <2>0. Jumped(r, s, path)
    BY <1>2, ComponentCached
  <2>1. /\ Going(r) /\ r.dirs = s.dirs /\ r.at \in 1 .. Len(dirs) /\ PathIn(dirs, r.at) = path
    BY <2>0 DEF Jumped
  <2>2. PICK id \in 1 .. Len(dirs) : id = r.at
    BY <2>1
  <2>3. ~(Len(s.dirs) > Len(dirs))
    BY <1>2, <2>1, <2>2, NoRowBefore
  <2>4. Len(s.dirs) = Len(dirs) /\ \A i \in 0 .. Len(dirs) : PathIn(s.dirs, i) = PathIn(dirs, i)
    BY <2>3, ExtendsSame
  <2>5. Len(dirs) \in Nat
    BY RowFacts
  <2>6. Arrived(r, path)
    BY <2>1, <2>3, <2>4, <2>5 DEF Arrived
  <2> QED
    BY <2>1, <2>6 DEF Advanced
<1>3. CASE s.ok /\ Entry(s.cache, path) = {} /\ Children(s, s.at, x) # {}
  BY <1>0, <1>3, ComponentFound
<1>4. CASE s.ok /\ Entry(s.cache, path) = {} /\ Children(s, s.at, x) = {}
  BY <1>0, <1>4, ComponentNew
<1>5. s.ok \in BOOLEAN
  BY TxFields DEF Going
<1> QED
  BY <1>1, <1>2, <1>3, <1>4, <1>5

(* The states of a walk.                                                   *)
WalkTo(s, path, create, f, k) ==
  f = [n \in 0 .. k |-> IF n = 0 THEN [s EXCEPT !.at = 0]
                        ELSE Component(f[n - 1], SubSeq(path, 1, n), create)]

LEMMA WalkToFacts ==
  ASSUME NEW s, NEW path, NEW create, NEW f, NEW k \in Nat, WalkTo(s, path, create, f, k)
  PROVE  /\ f[0] = [s EXCEPT !.at = 0]
         /\ \A n \in 1 .. k : f[n] = Component(f[n - 1], SubSeq(path, 1, n), create)
<1> DEFINE h == [n \in 0 .. k |-> IF n = 0 THEN [s EXCEPT !.at = 0]
                                  ELSE Component(f[n - 1], SubSeq(path, 1, n), create)]
<1>1. h[0] = [s EXCEPT !.at = 0] /\ \A n \in 1 .. k : h[n] = Component(f[n - 1], SubSeq(path, 1, n), create)
  OBVIOUS
<1>2. f = h
  BY DEF WalkTo
<1> HIDE DEF h
<1> QED
  BY <1>1, <1>2

LEMMA WalkExists ==
  ASSUME NEW s, NEW path \in Paths, NEW create
  PROVE  \E f : WalkTo(s, path, create, f, Len(path))
<1> DEFINE S == {k \in 0 .. Len(path) : \E f : WalkTo(s, path, create, f, k)}
<1>0. Len(path) \in Nat
  BY DEF Paths
<1>1. ASSUME NEW k \in 0 .. Len(path), 0 .. k - 1 \subseteq S PROVE k \in S
  <2>1. CASE k = 0
    <3>1. PICK f : f = [n \in 0 .. 0 |-> [s EXCEPT !.at = 0]]
      OBVIOUS
    <3>2. WalkTo(s, path, create, f, 0)
      BY <3>1 DEF WalkTo
    <3> QED
      BY <2>1, <3>2
  <2>2. CASE k # 0
    <3>1. k - 1 \in 0 .. k - 1 /\ k - 1 \in Nat
      BY <2>2
    <3>2. PICK f : WalkTo(s, path, create, f, k - 1)
      BY <1>1, <3>1
    <3>3. PICK last : last = Component(f[k - 1], SubSeq(path, 1, k), create)
      OBVIOUS
    <3>4. PICK g : g = [n \in 0 .. k |-> IF n < k THEN f[n] ELSE last]
      OBVIOUS
    <3>5. ASSUME NEW n \in 0 .. k
          PROVE  g[n] = IF n = 0 THEN [s EXCEPT !.at = 0]
                        ELSE Component(g[n - 1], SubSeq(path, 1, n), create)
      <4>1. /\ f[0] = [s EXCEPT !.at = 0]
            /\ \A m \in 1 .. k - 1 : f[m] = Component(f[m - 1], SubSeq(path, 1, m), create)
        BY <3>1, <3>2, WalkToFacts
      <4>2. CASE n = 0
        BY <2>2, <3>4, <4>1, <4>2
      <4>3. CASE n # 0
        <5>1. g[n - 1] = f[n - 1] /\ (n < k => n \in 1 .. k - 1)
          BY <3>4, <4>3
        <5>2. CASE n < k
          BY <3>4, <4>1, <4>3, <5>1, <5>2
        <5>3. CASE n = k
          <6>1. g[n] = last
            BY <3>4, <5>3
          <6> QED
            BY <3>3, <4>3, <5>1, <5>3, <6>1
        <5> QED
          BY <5>2, <5>3
      <4> QED
        BY <4>2, <4>3
    <3>6. WalkTo(s, path, create, g, k)
      BY <3>4, <3>5 DEF WalkTo
    <3> QED
      BY <3>6
  <2> QED
    BY <2>1, <2>2
<1> HIDE DEF S
<1>2. 0 .. Len(path) \subseteq S
  BY <1>0, <1>1, NumberInduction
<1>3. Len(path) \in S
  BY <1>0, <1>2
<1> QED
  BY <1>3 DEF S

LEMMA WalkUnfold ==
  ASSUME NEW s, NEW path \in Paths, NEW create
  PROVE  WalkTo(s, path, create, Walk(s, path, create), Len(path))
<1>1. PICK f : WalkTo(s, path, create, f, Len(path))
  BY WalkExists
<1> DEFINE P(g) == WalkTo(s, path, create, g, Len(path))
<1>2. Walk(s, path, create) = CHOOSE g : P(g)
  BY DEF Walk, WalkTo
<1> HIDE DEF P
<1>3. P(f)
  BY <1>1 DEF P
<1>4. P(CHOOSE g : P(g))
  BY <1>3, Zenon
<1> QED
  BY <1>2, <1>4 DEF P

LEMMA PrefixFacts ==
  ASSUME NEW path \in Paths, NEW n \in 1 .. Len(path)
  PROVE  /\ SubSeq(path, 1, n - 1) \in Paths /\ path[n] \in Names
         /\ SubSeq(path, 1, n) = Append(SubSeq(path, 1, n - 1), path[n])
<1>1. path \in Seq(Names) /\ Len(path) \in Nat
  BY DEF Paths
<1>2. PICK p, q : p = SubSeq(path, 1, n - 1) /\ q = SubSeq(path, 1, n)
  OBVIOUS
<1>3. /\ p \in Seq(Names) /\ Len(p) = n - 1 /\ \A i \in 1 .. n - 1 : p[i] = path[i]
  BY <1>1, <1>2
<1>4. /\ q \in Seq(Names) /\ Len(q) = n /\ \A i \in 1 .. n : q[i] = path[i]
  BY <1>1, <1>2
<1>5. path[n] \in Names
  BY <1>1
<1>6. PICK u : u = Append(p, path[n])
  OBVIOUS
<1>7. /\ u \in Seq(Names) /\ Len(u) = Len(p) + 1 /\ u[Len(p) + 1] = path[n]
      /\ \A i \in 1 .. Len(p) : u[i] = p[i]
  BY <1>3, <1>5, <1>6, AppendFacts
<1>8. Len(u) = Len(q) /\ \A i \in 1 .. Len(q) : u[i] = q[i]
  BY <1>3, <1>4, <1>7
<1>9. u = q
  BY <1>4, <1>7, <1>8, SeqEqual
<1> QED
  BY <1>2, <1>3, <1>5, <1>6, <1>9 DEF Paths

LEMMA WalkSound ==
  ASSUME Table(dirs), NEW s, Going(s), s.dirs = dirs, NEW path \in Paths, NEW create \in BOOLEAN,
         NEW w, w = Walk(s, path, create)
  PROVE  \A n \in 0 .. Len(path) : Advanced(w[n], s, SubSeq(path, 1, n), create)
<1> DEFINE S == {n \in 0 .. Len(path) : Advanced(w[n], s, SubSeq(path, 1, n), create)}
<1>0. Len(path) \in Nat /\ Len(dirs) \in Nat /\ path \in Seq(Names)
  BY RowFacts DEF Paths
<1>1. /\ w[0] = [s EXCEPT !.at = 0]
      /\ \A n \in 1 .. Len(path) : w[n] = Component(w[n - 1], SubSeq(path, 1, n), create)
  BY <1>0, WalkUnfold, WalkToFacts
<1>2. Advanced(w[0], s, SubSeq(path, 1, 0), create)
  <2>1. SubSeq(path, 1, 0) = <<>>
    BY <1>0, SubSeqEmpty
  <2>2. w[0] \in Txs /\ w[0].at = 0 /\ w[0].dirs = s.dirs /\ w[0].cache = s.cache
    BY <1>1 DEF Going, Txs
  <2>3. Going(w[0])
    BY <2>2 DEF Going
  <2>4. Arrived(w[0], <<>>)
    BY <1>0, <2>2, PathInFacts DEF Arrived
  <2> QED
    BY <2>1, <2>2, <2>3, <2>4 DEF Advanced
<1>3. ASSUME NEW n \in 1 .. Len(path), Advanced(w[n - 1], s, SubSeq(path, 1, n - 1), create)
      PROVE  Advanced(w[n], s, SubSeq(path, 1, n), create)
  <2>1. PICK p \in Paths, x \in Names :
          p = SubSeq(path, 1, n - 1) /\ SubSeq(path, 1, n) = Append(p, x)
    BY PrefixFacts
  <2>2. PICK q, v, r : q = SubSeq(path, 1, n) /\ v = w[n - 1] /\ r = w[n]
    OBVIOUS
  <2>3. Going(v) /\ (v.ok => Arrived(v, p)) /\ (~create => v.dirs = s.dirs)
    BY <1>3, <2>1, <2>2 DEF Advanced
  <2>4. r = Component(v, q, create) /\ q = Append(p, x)
    BY <1>1, <2>1, <2>2
  <2>5. Advanced(r, v, q, create)
    BY <2>3, <2>4, ComponentStep
  <2> QED
    BY <2>2, <2>3, <2>5 DEF Advanced
<1>4. ASSUME NEW k \in 0 .. Len(path), 0 .. k - 1 \subseteq S PROVE k \in S
  <2>1. CASE k = 0
    BY <1>2, <2>1
  <2>2. CASE k # 0
    <3>1. k \in 1 .. Len(path) /\ k - 1 \in 0 .. k - 1
      BY <1>0, <2>2
    <3>2. Advanced(w[k - 1], s, SubSeq(path, 1, k - 1), create)
      BY <1>4, <3>1
    <3> QED
      BY <1>3, <3>1, <3>2
  <2> QED
    BY <2>1, <2>2
<1> HIDE DEF S
<1>5. 0 .. Len(path) \subseteq S
  BY <1>0, <1>4, NumberInduction
<1> QED
  BY <1>5 DEF S

(* create_dir and get_dir_id_by_path end at the directory of the path,     *)
(* whatever of it was cached, or refuse.                                   *)
LEMMA ResolveSound ==
  ASSUME Table(dirs), NEW s, Going(s), s.ok, s.dirs = dirs, NEW path \in Paths,
         NEW create \in BOOLEAN, NEW r, r = Resolve(s, path, create)
  PROVE  Advanced(r, s, path, create)
<1>0. Len(path) \in Nat /\ Len(dirs) \in Nat /\ path \in Seq(Names)
  BY RowFacts DEF Paths
<1>1. CASE Entry(s.cache, path) # {}
  <2>1. r = Component(s, path, create)
    BY <1>1 DEF Resolve
  <2>2. Jumped(r, s, path)
    BY <1>1, <2>1, ComponentCached
  <2>3. Arrived(r, path)
    BY <1>0, <2>2 DEF Jumped, Arrived
  <2> QED
    BY <2>2, <2>3 DEF Jumped, Advanced
<1>2. CASE Entry(s.cache, path) = {}
  <2>1. PICK w : w = Walk(s, path, create)
    OBVIOUS
  <2>2. r = w[Len(path)]
    BY <1>2, <2>1 DEF Resolve
  <2>3. \A n \in 0 .. Len(path) : Advanced(w[n], s, SubSeq(path, 1, n), create)
    BY <2>1, WalkSound
  <2>4. Advanced(w[Len(path)], s, SubSeq(path, 1, Len(path)), create)
    BY <1>0, <2>3
  <2>5. SubSeq(path, 1, Len(path)) = path
    BY <1>0, SubSeqFull
  <2> QED
    BY <2>2, <2>4, <2>5
<1> QED
  BY <1>1, <1>2

(* get_dir_path_by_id remembers a directory of the transaction's own table,*)
(* committed or not.                                                       *)
Read(r, s) ==
  /\ r \in Txs /\ r.ok = s.ok /\ r.dirs = s.dirs
  /\ Sound(r.cache, s.dirs) /\ Len(r.cache.entries) <= MaxEntries

LEMMA DirPathSound ==
  ASSUME NEW s \in Txs, NEW t, t = s.dirs, Table(t), Sound(s.cache, t),
         Len(s.cache.entries) <= MaxEntries, NEW id \in 0 .. Len(t), NEW r, r = DirPath(s, id)
  PROVE  Read(r, s)
<1>0. /\ s.cache \in Caches /\ s.cache.entries \in Seq(Entries) /\ Len(s.cache.entries) \in Nat
      /\ DOMAIN t = 1 .. Len(t) /\ Len(t) \in Nat
  BY TxFields, EntryTypes, RowFacts
<1>1. CASE id = 0
  BY <1>1 DEF DirPath, Read
<1>2. ASSUME NEW d, d \in Caches, Sound(d, t), Len(d.entries) <= MaxEntries, r = [s EXCEPT !.cache = d]
      PROVE  Read(r, s)
  <2>1. r \in Txs /\ r.ok = s.ok /\ r.dirs = s.dirs /\ r.cache = d
    BY <1>2 DEF Txs
  <2> QED
    BY <1>2, <2>1 DEF Read
<1>3. CASE id # 0 /\ CachedPath(s.cache, id) # {}
  <2>1. PICK path, d : /\ path = (CHOOSE pair \in CachedPath(s.cache, id) : TRUE)[2]
                       /\ d = Touched(s.cache, path)
    OBVIOUS
  <2>2. r = [s EXCEPT !.cache = d]
    BY <1>3, <2>1 DEF DirPath
  <2>3. d \in Caches /\ Sound(d, t) /\ Len(d.entries) <= Len(s.cache.entries)
    BY <1>0, <2>1, TouchedSound
  <2>4. Len(d.entries) <= MaxEntries
    <3>1. Len(d.entries) \in Nat /\ MaxEntries \in Nat
      BY <2>3, EntryTypes, DirCacheAssumption DEF Caches
    <3> QED
      BY <1>0, <2>3, <3>1
  <2> QED
    BY <1>2, <2>2, <2>3, <2>4
<1>4. CASE id # 0 /\ CachedPath(s.cache, id) = {}
  <2>1. PICK path, d : path = PathIn(t, id) /\ d = Remembered(s.cache, id, path)
    OBVIOUS
  <2>2. id \in 1 .. Len(t)
    BY <1>0, <1>4
  <2>3. r = [s EXCEPT !.cache = d]
    BY <1>0, <1>4, <2>1, <2>2 DEF DirPath, Exists
  <2>4. d \in Caches /\ Sound(d, t) /\ Len(d.entries) <= MaxEntries
    BY <1>0, <2>1, <2>2, RememberedSound
  <2> QED
    BY <1>2, <2>3, <2>4
<1> QED
  BY <1>1, <1>3, <1>4

-----------------------------------------------------------------------------
(* The end of a transaction.                                               *)
LEMMA CacheTypes ==
  ASSUME NEW c \in Caches
  PROVE  c = [entries |-> c.entries, id_to_path |-> c.id_to_path]
  BY DEF Caches

LEMMA BeginSound ==
  ASSUME DirCacheInv
  PROVE  Going(Begin) /\ Begin.ok /\ Begin.dirs = dirs /\ Begin.cache = Cache
<1>1. Begin.ok /\ Begin.dirs = dirs /\ Begin.cache = Cache /\ Begin.at = 0
  BY DEF Begin
<1>2. Begin \in Txs
  BY DEF DirCacheInv, DirTypeOK, Begin, Txs
<1>3. Extends(dirs, dirs) /\ Table(dirs)
  BY RowFacts DEF Extends, DirCacheInv
<1>4. Sound(Cache, dirs) /\ Len(Cache.entries) <= MaxEntries
  BY DEF DirCacheInv, Cache
<1> QED
  BY <1>1, <1>2, <1>3, <1>4 DEF Going

(* A transaction that is rolled back leaves its cache.                     *)
LEMMA RolledBackInv ==
  ASSUME DirCacheInv, NEW s, Going(s),
         entries' = s.cache.entries, id_to_path' = s.cache.id_to_path,
         UNCHANGED <<dirs, files, put, next_file>>
  PROVE  DirCacheInv'
<1>1. Cache' = s.cache /\ s.cache \in Caches
  BY CacheTypes, TxFields DEF Going, Cache
<1>2. DirTypeOK'
  BY <1>1 DEF DirCacheInv, DirTypeOK
<1>3. Table(dirs)' /\ Sound(Cache, dirs)' /\ (Len(entries) <= MaxEntries)'
  BY <1>1 DEF DirCacheInv, Going
<1>4. \A f \in FileIds : FileAt(f)'
  BY DEF DirCacheInv, FileAt
<1> QED
  BY <1>2, <1>3, <1>4 DEF DirCacheInv

(* One that is committed: a file is as before, gone, or at its path in the *)
(* table that is committed.                                                *)
Kept(f) == files'[f] = files[f] /\ put'[f] = put[f]
PutAt(f, t) ==
  /\ files'[f] # None => files'[f].dir \in 0 .. Len(t)
  /\ files'[f] # None => Append(PathIn(t, files'[f].dir), files'[f].name) = put'[f]

LEMMA CommittedInv ==
  ASSUME DirCacheInv, NEW s \in Txs, NEW t, t = s.dirs, Table(t), Extends(t, dirs),
         Sound(s.cache, t), Len(s.cache.entries) <= MaxEntries,
         entries' = s.cache.entries, id_to_path' = s.cache.id_to_path, dirs' = t,
         next_file' \in Nat \ {0}, files' \in [FileIds -> FileRows \cup {None}],
         put' \in [FileIds -> Paths \cup {None}],
         \A f \in FileIds : Kept(f) \/ PutAt(f, t)
  PROVE  DirCacheInv'
<1>1. Cache' = s.cache /\ s.cache \in Caches
  BY CacheTypes, TxFields DEF Cache
<1>2. DirTypeOK'
  BY <1>1 DEF DirTypeOK, Table
<1>3. Table(dirs)' /\ Sound(Cache, dirs)' /\ (Len(entries) <= MaxEntries)'
  BY <1>1
<1>4. ASSUME NEW f \in FileIds PROVE FileAt(f)'
  <2>1. CASE PutAt(f, t)
    BY <2>1 DEF PutAt, FileAt
  <2>2. CASE Kept(f)
    <3>0. Table(dirs) /\ FileAt(f) /\ Len(dirs) \in Nat /\ Len(t) \in Nat /\ Len(dirs) <= Len(t)
      BY RowFacts DEF DirCacheInv, Extends
    <3>1. \A i \in 0 .. Len(dirs) : i \in 0 .. Len(t) /\ PathIn(t, i) = PathIn(dirs, i)
      BY <3>0, PathsKept
    <3> QED
      BY <2>2, <3>0, <3>1 DEF Kept, FileAt
  <2> QED
    BY <2>1, <2>2
<1> QED
  BY <1>2, <1>3, <1>4 DEF DirCacheInv

(* A transaction that only reads, and read with what there was.            *)
LEMMA ReadOnlyInv ==
  ASSUME DirCacheInv, NEW s, Going(s), s.dirs = dirs, ReadOnly(s)
  PROVE  DirCacheInv'
<1>1. UNCHANGED <<dirs, files, put, next_file>>
  BY DEF ReadOnly, Ends
<1>2. entries' = s.cache.entries /\ id_to_path' = s.cache.id_to_path
  BY DEF ReadOnly, Ends
<1> QED
  BY <1>1, <1>2, RolledBackInv

LEMMA FrontFacts ==
  ASSUME NEW path \in FilePaths
  PROVE  /\ path \in Paths /\ Front(path) \in Paths /\ Last(path) \in Names
         /\ path = Append(Front(path), Last(path))
<1>1. path \in Seq(Names) /\ Len(path) > 0 /\ Len(path) \in Nat
  BY DirCacheAssumption
<1>2. path \in Paths /\ Len(path) \in 1 .. Len(path)
  BY <1>1 DEF Paths
<1>3. /\ Front(path) \in Paths /\ Last(path) \in Names
      /\ SubSeq(path, 1, Len(path)) = Append(Front(path), Last(path))
  BY <1>2, PrefixFacts DEF Front, Last
<1> QED
  BY <1>1, <1>2, <1>3, SubSeqFull

LEMMA RefuseSound ==
  ASSUME NEW s, Going(s)
  PROVE  Going(Refuse(s)) /\ ~Refuse(s).ok
<1>1. /\ Refuse(s) \in Txs /\ ~Refuse(s).ok
      /\ Refuse(s).dirs = s.dirs /\ Refuse(s).cache = s.cache
  BY DEF Going, Refuse, Txs
<1> QED
  BY <1>1 DEF Going

(* A file is given the directory a transaction arrived at.                 *)
LEMMA PutInv ==
  ASSUME DirCacheInv, NEW made, Going(made), NEW path \in FilePaths, Arrived(made, Front(path)),
         NEW s \in Txs, s.dirs = made.dirs, Sound(s.cache, s.dirs), Len(s.cache.entries) <= MaxEntries,
         entries' = s.cache.entries, id_to_path' = s.cache.id_to_path, dirs' = s.dirs,
         NEW g \in FileIds, next_file' \in Nat \ {0},
         files' = [files EXCEPT ![g] = [dir |-> made.at, name |-> Last(path)]],
         put' = [put EXCEPT ![g] = path]
  PROVE  DirCacheInv'
<1>1. PICK t : t = s.dirs
  OBVIOUS
<1>2. /\ Table(t) /\ Extends(t, dirs) /\ Sound(s.cache, t) /\ dirs' = t
      /\ made.at \in 0 .. Len(t) /\ PathIn(t, made.at) = Front(path)
  BY <1>1 DEF Going, Arrived
<1>3. path \in Paths /\ Last(path) \in Names /\ path = Append(Front(path), Last(path))
  BY FrontFacts
<1>4. PICK row : row = [dir |-> made.at, name |-> Last(path)]
  OBVIOUS
<1>5. row \in FileRows /\ row.dir = made.at /\ row.name = Last(path)
  BY <1>2, <1>3, <1>4 DEF FileRows
<1>6. files \in [FileIds -> FileRows \cup {None}] /\ put \in [FileIds -> Paths \cup {None}]
  BY DEF DirCacheInv, DirTypeOK
<1>7. /\ files' \in [FileIds -> FileRows \cup {None}] /\ put' \in [FileIds -> Paths \cup {None}]
      /\ files'[g] = row /\ put'[g] = path
      /\ \A f \in FileIds \ {g} : files'[f] = files[f] /\ put'[f] = put[f]
  BY <1>3, <1>4, <1>5, <1>6
<1>8. PutAt(g, t)
  BY <1>2, <1>3, <1>5, <1>7 DEF PutAt
<1>9. \A f \in FileIds : Kept(f) \/ PutAt(f, t)
  BY <1>7, <1>8 DEF Kept
<1> QED
  BY <1>1, <1>2, <1>7, <1>9, CommittedInv

-----------------------------------------------------------------------------
(* The actions.                                                            *)
LEMMA LookupInv ==
  ASSUME DirCacheInv, NEW path \in Paths, ReadOnly(Resolve(Begin, path, FALSE))
  PROVE  DirCacheInv'
<1>1. PICK b, r : b = Begin /\ r = Resolve(b, path, FALSE)
  OBVIOUS
<1>2. Table(dirs) /\ Going(b) /\ b.ok /\ b.dirs = dirs
  BY <1>1, BeginSound DEF DirCacheInv
<1>3. Advanced(r, b, path, FALSE)
  BY <1>1, <1>2, ResolveSound
<1>4. Going(r) /\ r.dirs = dirs
  BY <1>2, <1>3 DEF Advanced
<1> QED
  BY <1>1, <1>4, ReadOnlyInv

LEMMA FileRecordInv ==
  ASSUME DirCacheInv, NEW f \in FileIds, FileRecord(f)
  PROVE  DirCacheInv'
<1>1. PICK b, id, r : b = Begin /\ id = files[f].dir /\ r = DirPath(b, id)
  OBVIOUS
<1>2. Table(dirs) /\ Going(b) /\ b.dirs = dirs
  BY <1>1, BeginSound DEF DirCacheInv
<1>3. id \in 0 .. Len(dirs)
  BY <1>1 DEF FileRecord, DirCacheInv, FileAt
<1>4. b \in Txs /\ Sound(b.cache, dirs) /\ Len(b.cache.entries) <= MaxEntries
  BY <1>2 DEF Going
<1>5. Read(r, b)
  BY <1>1, <1>2, <1>3, <1>4, DirPathSound
<1>6. Going(r) /\ r.dirs = dirs
  BY <1>2, <1>5 DEF Read, Going
<1> QED
  BY <1>1, <1>6, ReadOnlyInv DEF FileRecord

LEMMA DeleteInv ==
  ASSUME DirCacheInv, NEW f \in FileIds, DeleteFile(f)
  PROVE  DirCacheInv'
<1>1. PICK b : b = Begin
  OBVIOUS
<1>2. Table(dirs) /\ Going(b) /\ b.dirs = dirs
  BY <1>1, BeginSound DEF DirCacheInv
<1>3. entries' = b.cache.entries /\ id_to_path' = b.cache.id_to_path
  BY <1>1 DEF DeleteFile, Ends
<1>4. CASE UNCHANGED <<dirs, files, put, next_file>>
  BY <1>2, <1>3, <1>4, RolledBackInv
<1>5. CASE /\ dirs' = dirs /\ next_file' = next_file
           /\ files' = [files EXCEPT ![f] = None] /\ put' = [put EXCEPT ![f] = None]
  <2>1. /\ files \in [FileIds -> FileRows \cup {None}] /\ put \in [FileIds -> Paths \cup {None}]
        /\ next_file \in Nat \ {0}
    BY DEF DirCacheInv, DirTypeOK
  <2>2. /\ files' \in [FileIds -> FileRows \cup {None}] /\ put' \in [FileIds -> Paths \cup {None}]
        /\ next_file' \in Nat \ {0} /\ files'[f] = None
        /\ \A g \in FileIds \ {f} : files'[g] = files[g] /\ put'[g] = put[g]
    BY <1>5, <2>1
  <2>3. \A g \in FileIds : Kept(g) \/ PutAt(g, dirs)
    BY <2>2 DEF Kept, PutAt
  <2>4. b \in Txs /\ Extends(dirs, dirs) /\ Sound(b.cache, dirs) /\ Len(b.cache.entries) <= MaxEntries
    BY <1>2 DEF Going
  <2> QED
    BY <1>2, <1>3, <1>5, <2>2, <2>3, <2>4, CommittedInv
<1> QED
  BY <1>1, <1>2, <1>4, <1>5 DEF DeleteFile, Ends

LEMMA CreateInv ==
  ASSUME DirCacheInv, ~CommitFails, NEW path \in FilePaths, CreateFile(path)
  PROVE  DirCacheInv'
<1>0. Table(dirs) /\ next_file \in FileIds /\ next_file + 1 \in Nat \ {0} /\ Front(path) \in Paths
  BY FrontFacts DEF DirCacheInv, DirTypeOK, CreateFile, FileIds
<1>1. PICK b, found, again, made :
        /\ b = Begin /\ found = Resolve(b, Front(path), FALSE)
        /\ again = [found EXCEPT !.ok = TRUE] /\ made = Resolve(again, Front(path), TRUE)
  OBVIOUS
<1>2. Going(b) /\ b.ok /\ b.dirs = dirs
  BY <1>1, BeginSound
<1>3. Advanced(found, b, Front(path), FALSE)
  BY <1>0, <1>1, <1>2, ResolveSound
<1>4. Going(found) /\ found.dirs = dirs
  BY <1>2, <1>3 DEF Advanced
<1>5. again \in Txs /\ again.ok /\ again.dirs = found.dirs /\ again.cache = found.cache
  BY <1>1, <1>4 DEF Going, Txs
<1>6. Going(again)
  BY <1>4, <1>5 DEF Going
<1>7. Advanced(made, again, Front(path), TRUE)
  BY <1>0, <1>1, <1>4, <1>5, <1>6, ResolveSound
<1>8. Going(made) /\ (made.ok => Arrived(made, Front(path)))
  BY <1>7 DEF Advanced
<1>9. Going(Refuse(made)) /\ ~Refuse(made).ok
  BY <1>8, RefuseSound
<1>10. PICK s :
         /\ (s = made /\ made.ok) \/ s = Refuse(made)
         /\ Ends(s, [files EXCEPT ![next_file] = [dir |-> made.at, name |-> Last(path)]],
                 [put EXCEPT ![next_file] = path], next_file + 1)
  BY <1>1 DEF CreateFile
<1>11. Going(s) /\ entries' = s.cache.entries /\ id_to_path' = s.cache.id_to_path
  BY <1>8, <1>9, <1>10 DEF Ends
<1>12. CASE UNCHANGED <<dirs, files, put, next_file>>
  BY <1>11, <1>12, RolledBackInv
<1>13. CASE /\ s.ok /\ dirs' = s.dirs /\ next_file' = next_file + 1
            /\ files' = [files EXCEPT ![next_file] = [dir |-> made.at, name |-> Last(path)]]
            /\ put' = [put EXCEPT ![next_file] = path]
  <2>1. s = made /\ Arrived(made, Front(path))
    BY <1>8, <1>9, <1>10, <1>13
  <2>2. s \in Txs /\ s.dirs = made.dirs /\ Len(s.cache.entries) <= MaxEntries
    BY <1>11, <2>1 DEF Going
  <2>3. Sound(s.cache, s.dirs)
    BY <1>0, <1>11, SoundKept DEF Going
  <2>4. PICK g \in FileIds : g = next_file
    BY <1>0
  <2> QED
    BY <1>0, <1>8, <1>11, <1>13, <2>1, <2>2, <2>3, <2>4, PutInv
<1> QED
  BY <1>10, <1>12, <1>13 DEF Ends

LEMMA PlaceInv ==
  ASSUME DirCacheInv, ~CommitFails, NEW f \in FileIds, NEW path \in FilePaths, NEW self,
         Place(f, path, self)
  PROVE  DirCacheInv'
<1>0. Table(dirs) /\ Front(path) \in Paths /\ next_file \in Nat \ {0}
  BY FrontFacts DEF DirCacheInv, DirTypeOK
<1>1. PICK b, made, next :
        /\ b = Begin /\ made = Resolve(b, Front(path), TRUE)
        /\ next = IF f = next_file THEN f + 1 ELSE next_file
  OBVIOUS
<1>2. Going(b) /\ b.ok /\ b.dirs = dirs /\ next \in Nat \ {0}
  BY <1>0, <1>1, BeginSound
<1>3. Advanced(made, b, Front(path), TRUE)
  BY <1>0, <1>1, <1>2, ResolveSound
<1>4. Going(made) /\ (made.ok => Arrived(made, Front(path)))
  BY <1>3 DEF Advanced
<1>5. Going(Refuse(made)) /\ ~Refuse(made).ok
  BY <1>4, RefuseSound
<1>6. PICK s :
         /\ (s = DirPath(made, made.at) /\ made.ok) \/ s = Refuse(made)
         /\ Ends(s, [files EXCEPT ![f] = [dir |-> made.at, name |-> Last(path)]],
                 [put EXCEPT ![f] = path], next)
  BY <1>1 DEF Place
<1>7. entries' = s.cache.entries /\ id_to_path' = s.cache.id_to_path
  BY <1>6 DEF Ends
<1>8. CASE s = Refuse(made)
  <2>1. UNCHANGED <<dirs, files, put, next_file>>
    BY <1>5, <1>6, <1>8 DEF Ends
  <2> QED
    BY <1>5, <1>7, <1>8, <2>1, RolledBackInv
<1>9. CASE s = DirPath(made, made.at) /\ made.ok
  <2>1. PICK t, id : t = made.dirs /\ id = made.at
    OBVIOUS
  <2>2. /\ made \in Txs /\ Table(t) /\ Extends(t, dirs) /\ id \in 0 .. Len(t)
        /\ Sound(made.cache, dirs) /\ Len(made.cache.entries) <= MaxEntries
    BY <1>4, <1>9, <2>1 DEF Going, Arrived
  <2>3. Sound(made.cache, t)
    BY <1>0, <2>2, SoundKept
  <2>4. s = DirPath(made, id)
    BY <1>9, <2>1
  <2>5. Read(s, made)
    BY <2>1, <2>2, <2>3, <2>4, DirPathSound
  <2>6. s \in Txs /\ s.ok /\ s.dirs = made.dirs /\ Sound(s.cache, s.dirs) /\ Len(s.cache.entries) <= MaxEntries
    BY <1>9, <2>5 DEF Read
  <2>7. /\ dirs' = s.dirs /\ next_file' = next
        /\ files' = [files EXCEPT ![f] = [dir |-> made.at, name |-> Last(path)]]
        /\ put' = [put EXCEPT ![f] = path]
    BY <1>6, <2>6 DEF Ends
  <2> QED
    BY <1>2, <1>4, <1>7, <1>9, <2>6, <2>7, PutInv
<1> QED
  BY <1>6, <1>8, <1>9

LEMMA RestartInv == ASSUME DirCacheInv, Restart PROVE DirCacheInv'
<1>1. PICK c : c = [entries |-> <<>>, id_to_path |-> {}]
  OBVIOUS
<1>2. /\ c \in Caches /\ c.entries = <<>> /\ c.id_to_path = {} /\ Len(c.entries) = 0
  BY <1>1 DEF Caches
<1>3. Sound(c, dirs)
  BY <1>2 DEF Sound
<1>4. Cache' = c
  BY <1>1 DEF Restart, Cache
<1>5. DirTypeOK'
  BY <1>2, <1>4 DEF DirCacheInv, DirTypeOK, Restart
<1>6. Table(dirs)' /\ Sound(Cache, dirs)' /\ (Len(entries) <= MaxEntries)'
  BY <1>2, <1>3, <1>4, DirCacheAssumption DEF DirCacheInv, Restart
<1>7. \A f \in FileIds : FileAt(f)'
  BY DEF DirCacheInv, FileAt, Restart
<1> QED
  BY <1>5, <1>6, <1>7 DEF DirCacheInv

LEMMA DirCacheInitInv == ASSUME Init PROVE DirCacheInv
<1>1. Cache \in Caches /\ Cache.entries = <<>> /\ Cache.id_to_path = {}
  BY DEF Init, Cache, Caches
<1>2. DirTypeOK
  BY <1>1 DEF Init, DirTypeOK
<1>3. Table(dirs)
  BY DEF Init, Table
<1>4. Sound(Cache, dirs)
  BY <1>1 DEF Sound
<1>5. Len(entries) <= MaxEntries
  BY DirCacheAssumption DEF Init
<1>6. \A f \in FileIds : FileAt(f)
  BY DEF Init, FileAt
<1> QED
  BY <1>2, <1>3, <1>4, <1>5, <1>6 DEF DirCacheInv

LEMMA DirCacheNextInv ==
  ASSUME ~CommitFails, DirCacheInv, [Next]_dirCacheVars PROVE DirCacheInv'
<1>1. CASE \E path \in DirPaths : ListDirectory(path)
  <2>1. PICK path \in DirPaths : ListDirectory(path)
    BY <1>1
  <2>2. path \in Paths
    BY DirCacheAssumption DEF Paths
  <2> QED
    BY <2>1, <2>2, LookupInv DEF ListDirectory
<1>2. CASE \E path \in FilePaths : FindFile(path)
  <2>1. PICK path \in FilePaths : FindFile(path)
    BY <1>2
  <2>2. Front(path) \in Paths
    BY FrontFacts
  <2> QED
    BY <2>1, <2>2, LookupInv DEF FindFile
<1>3. CASE \E path \in FilePaths : CreateFile(path)
  BY <1>3, CreateInv
<1>4. CASE \E f \in FileIds : FileRecord(f)
  BY <1>4, FileRecordInv
<1>5. CASE \E f \in FileIds, path \in FilePaths : CopyFile(f, path)
  <2>1. PICK path \in FilePaths : next_file <= MaxFiles /\ Place(next_file, path, None)
    BY <1>5 DEF CopyFile
  <2>2. next_file \in FileIds
    BY <2>1, DirCacheAssumption DEF DirCacheInv, DirTypeOK, FileIds
  <2> QED
    BY <2>1, <2>2, PlaceInv
<1>6. CASE \E f \in FileIds, path \in FilePaths : RenameFile(f, path)
  BY <1>6, PlaceInv DEF RenameFile
<1>7. CASE \E f \in FileIds : DeleteFile(f)
  BY <1>7, DeleteInv
<1>8. CASE Restart
  BY <1>8, RestartInv
<1>9. CASE UNCHANGED dirCacheVars
  BY <1>9 DEF dirCacheVars, DirCacheInv, DirTypeOK, FileAt, Cache
<1> QED
  BY <1>1, <1>2, <1>3, <1>4, <1>5, <1>6, <1>7, <1>8, <1>9 DEF Next

LEMMA DirCacheInvMeans ==
  ASSUME DirCacheInv PROVE CachedDirsCommitted /\ MapsAgree /\ FilesWherePut
<1>1. /\ Cache \in Caches /\ Cache.entries = entries /\ Cache.id_to_path = id_to_path
      /\ Sound(Cache, dirs) /\ Len(entries) <= MaxEntries
  BY DEF DirCacheInv, DirTypeOK, Cache
<1>2. /\ DOMAIN entries = 1 .. Len(entries) /\ DOMAIN dirs = 1 .. Len(dirs)
      /\ id_to_path = {<<entries[i].id, entries[i].path>> : i \in 1 .. Len(entries)}
      /\ \A i \in 1 .. Len(entries) :
           entries[i].id \in 1 .. Len(dirs) /\ PathIn(dirs, entries[i].id) = entries[i].path
  <2>1. entries \in Seq(Entries)
    BY <1>1 DEF Caches
  <2>2. DOMAIN entries = 1 .. Len(entries)
    BY <2>1, EntryTypes
  <2>3. DOMAIN dirs = 1 .. Len(dirs)
    BY DEF DirCacheInv, DirTypeOK
  <2> QED
    BY <1>1, <2>2, <2>3 DEF Sound
<1>3. CachedDirsCommitted
  BY <1>2 DEF CachedDirsCommitted
<1>4. MapsAgree
  BY <1>1, <1>2 DEF MapsAgree
<1>5. FilesWherePut
  BY DEF DirCacheInv, FileAt, FilesWherePut
<1> QED
  BY <1>3, <1>4, <1>5

(* As long as no commit fails: a directory is cached only once its row is  *)
(* committed, under the path its row has, whatever transactions were       *)
(* rolled back by an error on the way.                                     *)
THEOREM CacheCommitted ==
  ASSUME ~CommitFails
  PROVE  Spec => []CachedDirsCommitted
<1>1. Init => DirCacheInv
  BY DirCacheInitInv
<1>2. DirCacheInv /\ [Next]_dirCacheVars => DirCacheInv'
  BY DirCacheNextInv
<1>3. DirCacheInv => CachedDirsCommitted
  BY DirCacheInvMeans
<1> QED
  BY <1>1, <1>2, <1>3, PTL DEF Spec

(* As long as no commit fails: path_to_id and id_to_path of DirCache hold  *)
(* the same directories, at most MaxEntries of them.                       *)
THEOREM CacheMapsAgree ==
  ASSUME ~CommitFails
  PROVE  Spec => []MapsAgree
<1>1. Init => DirCacheInv
  BY DirCacheInitInv
<1>2. DirCacheInv /\ [Next]_dirCacheVars => DirCacheInv'
  BY DirCacheNextInv
<1>3. DirCacheInv => MapsAgree
  BY DirCacheInvMeans
<1> QED
  BY <1>1, <1>2, <1>3, PTL DEF Spec

(* As long as no commit fails: every file is at the path its last create,  *)
(* copy or rename named, whatever the cache answered on the way.           *)
THEOREM FilesPlaced ==
  ASSUME ~CommitFails
  PROVE  Spec => []FilesWherePut
<1>1. Init => DirCacheInv
  BY DirCacheInitInv
<1>2. DirCacheInv /\ [Next]_dirCacheVars => DirCacheInv'
  BY DirCacheNextInv
<1>3. DirCacheInv => FilesWherePut
  BY DirCacheInvMeans
<1> QED
  BY <1>1, <1>2, <1>3, PTL DEF Spec
=============================================================================
