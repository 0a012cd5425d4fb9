----------------------------- MODULE CorpusProofs -----------------------------
(***************************************************************************)
(* What the loader reads from any disk, in whatever order that lists what it     *)
(* holds: the walk of a tree keeps a frontier of paths, none of them below        *)
(* another, that everything not seen yet is below (Frontier); a refused walk met   *)
(* a tree that is not acceptable; and what is read goes up through the sorted      *)
(* files, each once (Reading).                                                  *)
(***************************************************************************)
EXTENDS Corpus, Foundations

---------------------------------------------------------------------------
(* The disk. *)

HeldBy(d) == d.dirs \cup DOMAIN d.files \cup d.others

ChildrenIn(d, path) == {p \in HeldBy(d) : Len(p) = Len(path) + 1 /\ IsPrefix(path, p)}

FilesIn(d, root) == {p \in DOMAIN d.files : IsPrefix(root, p)}

(* What the assumption about disks says of one of them. *)
LEMMA DiskIs ==
  ASSUME NEW d \in Disks
  PROVE  /\ HeldBy(d) \in SUBSET Seq(Nat) /\ IsFiniteSet(HeldBy(d))
         /\ d.dirs \cap DOMAIN d.files = {} /\ d.others \cap d.dirs = {}
         /\ d.others \cap DOMAIN d.files = {}
         /\ \A dir \in d.dirs, p \in HeldBy(d) : IsPrefix(dir, p) =>
              \A n \in Len(dir)..(Len(p) - 1) : SubSeq(p, 1, n) \in d.dirs
         /\ d.profile.vectors \in Seq(Seq(Nat)) /\ d.profile.shared \in Seq(Seq(Nat))
  BY FilesystemAssumption DEF HeldBy

(* What has something below it, itself below a directory, is a directory. *)
LEMMA OnTheWay ==
  ASSUME NEW d \in Disks, NEW root \in d.dirs, NEW x \in HeldBy(d), NEW p \in HeldBy(d),
         IsPrefix(root, x), IsPrefix(x, p), x # p
  PROVE  x \in d.dirs
<1>1. root \in Seq(Nat) /\ x \in Seq(Nat) /\ p \in Seq(Nat)
  BY DiskIs DEF HeldBy
<1>2. IsPrefix(root, p) /\ Len(root) <= Len(x) /\ Len(x) <= Len(p) /\ Len(x) # Len(p)
  BY <1>1, PrefixOrder
<1>3. Len(root) \in Nat /\ Len(x) \in Nat /\ Len(p) \in Nat
  BY <1>1, LenProperties
<1>4. Len(x) \in Len(root)..(Len(p) - 1)
  BY <1>2, <1>3
<1>5. SubSeq(p, 1, Len(x)) \in d.dirs
  BY <1>2, <1>4, DiskIs
<1>6. SubSeq(p, 1, Len(x)) = x
  BY <1>1, SubSeqFull DEF IsPrefix
<1> QED
  BY <1>5, <1>6

(* Between a directory and what is below it there is one of its children. *)
LEMMA ThroughAChild ==
  ASSUME NEW d \in Disks, NEW dir \in d.dirs, NEW p \in HeldBy(d), IsPrefix(dir, p), p # dir
  PROVE  \E c \in ChildrenIn(d, dir) : IsPrefix(c, p)
<1> DEFINE c == SubSeq(p, 1, Len(dir) + 1)
<1>1. dir \in Seq(Nat) /\ p \in Seq(Nat)
  BY DiskIs DEF HeldBy
<1>2. Len(dir) \in Nat /\ Len(p) \in Nat /\ Len(dir) < Len(p)
  <2>1. Len(dir) <= Len(p) /\ Len(dir) # Len(p)
    BY <1>1, PrefixOrder
  <2> QED BY <1>1, <2>1, LenProperties
<1>3. c \in Seq(Nat) /\ Len(c) = Len(dir) + 1 /\ IsPrefix(dir, c) /\ IsPrefix(c, p)
  BY <1>1, <1>2, PrefixGrows
<1>4. c \in HeldBy(d)
  <2>1. CASE Len(dir) + 1 <= Len(p) - 1
    <3>1. Len(dir) + 1 \in Len(dir)..(Len(p) - 1)
      BY <1>2, <2>1
    <3>2. c \in d.dirs
      BY <3>1, DiskIs
    <3> QED BY <3>2 DEF HeldBy
  <2>2. CASE ~(Len(dir) + 1 <= Len(p) - 1)
    <3>1. Len(c) = Len(p)
      BY <1>2, <1>3, <2>2
    <3>2. c = p
      <4> HIDE DEF c
      <4> QED BY <1>1, <1>3, <3>1, PrefixOrder
    <3> QED BY <3>2
  <2> QED BY <2>1, <2>2
<1> HIDE DEF c
<1> QED
  BY <1>3, <1>4 DEF ChildrenIn

---------------------------------------------------------------------------
(* The walk. *)

\* None below another, and everything below the root that was not seen yet below one of them.
Frontier(d, root, dirs, seen, files) ==
  LET ahead == ToSet(dirs) \cup seen
      all   == ahead \cup ToSet(files)
  IN /\ root \in d.dirs
     /\ dirs \in Seq(d.dirs) /\ seen \in SUBSET HeldBy(d) /\ files \in Seq(DOMAIN d.files)
     /\ Distinct(dirs) /\ Distinct(files)
     /\ seen \cap ToSet(dirs) = {} /\ seen \cap ToSet(files) = {}
     /\ \A x \in all : IsPrefix(root, x)
     /\ \A x, y \in all : IsPrefix(x, y) => x = y
     /\ \A f \in FilesIn(d, root) : \E x \in all : IsPrefix(x, f)
     /\ \A dir \in d.dirs : IsPrefix(root, dir) =>
          Len(dir) - Len(root) <= MaxWalkDepth \/ \E x \in ahead : IsPrefix(x, dir)

(* It starts at the root. *)
LEMMA FrontierStarts ==
  ASSUME NEW d \in Disks, NEW root \in d.dirs
  PROVE  Frontier(d, root, <<root>>, {}, <<>>)
<1>1. root \in Seq(Nat)
  BY DiskIs DEF HeldBy
<1>2. /\ <<root>> \in Seq(d.dirs) /\ ToSet(<<root>>) = {root} /\ Distinct(<<root>>)
      /\ ToSet(<<>>) = {} /\ Distinct(<<>>)
  BY HeldByOne
<1>3. <<>> \in Seq(DOMAIN d.files)
  BY EmptySeq
<1>5. IsPrefix(root, root)
  BY <1>1, PrefixOrder
<1> QED
  BY <1>2, <1>3, <1>5 DEF Frontier, FilesIn

(* Listing the last directory puts its children where it was. *)
LEMMA FrontierOpens ==
  ASSUME NEW d \in Disks, NEW root, NEW dirs, NEW files, Frontier(d, root, dirs, {}, files),
         dirs # <<>>, Len(Last(dirs)) - Len(root) <= MaxWalkDepth
  PROVE  Frontier(d, root, Front(dirs), ChildrenIn(d, Last(dirs)), files)
<1> DEFINE p    == Last(dirs)
           rest == Front(dirs)
           kids == ChildrenIn(d, p)
           kept == ToSet(rest) \cup ToSet(files)
<1>1. /\ root \in d.dirs /\ dirs \in Seq(d.dirs) /\ files \in Seq(DOMAIN d.files)
      /\ Distinct(dirs) /\ Distinct(files)
      /\ \A x \in ToSet(dirs) \cup ToSet(files) : IsPrefix(root, x)
      /\ \A x, y \in ToSet(dirs) \cup ToSet(files) : IsPrefix(x, y) => x = y
      /\ \A f \in FilesIn(d, root) : \E x \in ToSet(dirs) \cup ToSet(files) : IsPrefix(x, f)
      /\ \A dir \in d.dirs : IsPrefix(root, dir) =>
           Len(dir) - Len(root) <= MaxWalkDepth \/ \E x \in ToSet(dirs) : IsPrefix(x, dir)
  BY DEF Frontier
<1>2. /\ rest \in Seq(d.dirs) /\ p \in d.dirs /\ ToSet(dirs) = ToSet(rest) \cup {p}
      /\ Distinct(rest) /\ p \notin ToSet(rest)
  BY <1>1, HeldByFront
<1>3. ToSet(dirs) \in SUBSET d.dirs /\ ToSet(files) \in SUBSET DOMAIN d.files
  BY <1>1, HeldBySeq
<1>4. /\ d.dirs \in SUBSET Seq(Nat) /\ DOMAIN d.files \in SUBSET Seq(Nat) /\ HeldBy(d) \in SUBSET Seq(Nat)
      /\ d.dirs \cap DOMAIN d.files = {}
      /\ d.dirs \in SUBSET HeldBy(d) /\ DOMAIN d.files \in SUBSET HeldBy(d)
  BY DiskIs DEF HeldBy
<1>5. /\ kids \in SUBSET HeldBy(d)
      /\ \A c \in kids : c \in Seq(Nat) /\ IsPrefix(p, c) /\ Len(c) = Len(p) + 1
  BY <1>4 DEF ChildrenIn
<1>6. kept \in SUBSET Seq(Nat) /\ p \in Seq(Nat) /\ p \notin kept /\ root \in Seq(Nat)
  BY <1>1, <1>2, <1>3, <1>4
<1>7. \A x \in kept : ~IsPrefix(p, x) /\ ~IsPrefix(x, p)
  BY <1>1, <1>2, <1>6
<1> HIDE DEF p, rest, kids
<1>8. \A x \in kept, c \in kids : ~IsPrefix(c, x) /\ ~IsPrefix(x, c) /\ x # c
  <2> SUFFICES ASSUME NEW x \in kept, NEW c \in kids
               PROVE  ~IsPrefix(c, x) /\ ~IsPrefix(x, c) /\ x # c
    OBVIOUS
  <2>0. x \in Seq(Nat) /\ c \in Seq(Nat) /\ IsPrefix(p, c) /\ Len(c) = Len(p) + 1
    BY <1>5, <1>6
  <2>1. ~IsPrefix(c, x)
    BY <1>6, <1>7, <2>0, PrefixOrder
  <2>2. x # c
    BY <1>7, <2>0
  <2>3. CASE IsPrefix(x, c)
    <3>1. Len(x) \in Nat /\ Len(p) \in Nat /\ Len(x) <= Len(c) /\ Len(x) # Len(c)
      BY <1>6, <2>0, <2>2, <2>3, PrefixOrder, LenProperties
    <3>2. Len(x) <= Len(p)
      BY <2>0, <3>1
    <3>3. IsPrefix(x, p)
      BY <1>6, <2>0, <2>3, <3>2, PrefixesAgree
    <3> QED BY <1>7, <3>3
  <2> QED BY <2>1, <2>2, <2>3
<1>9. \A b, c \in kids : IsPrefix(b, c) => b = c
  BY <1>5, PrefixOrder
<1>10. \A x \in kids \cup kept : IsPrefix(root, x)
  <2>1. IsPrefix(root, p)
    BY <1>1, <1>2
  <2>2. \A c \in kids : IsPrefix(root, c)
    BY <1>5, <1>6, <2>1, PrefixOrder
  <2> QED BY <1>1, <1>2, <2>2
<1>11. \A x, y \in kids \cup kept : IsPrefix(x, y) => x = y
  <2>1. \A x, y \in kept : IsPrefix(x, y) => x = y
    BY <1>1, <1>2
  <2> HIDE DEF kept
  <2> QED BY <1>8, <1>9, <2>1
<1>12. \A f \in FilesIn(d, root) : \E x \in kids \cup kept : IsPrefix(x, f)
  <2> SUFFICES ASSUME NEW f \in FilesIn(d, root)
               PROVE  \E x \in kids \cup kept : IsPrefix(x, f)
    OBVIOUS
  <2>1. PICK x \in ToSet(dirs) \cup ToSet(files) : IsPrefix(x, f)
    BY <1>1
  <2>2. CASE x # p
    BY <1>2, <2>1, <2>2
  <2>3. CASE x = p
    <3>1. f \in DOMAIN d.files /\ f \in HeldBy(d) /\ f # p
      BY <1>2, <1>4 DEF FilesIn
    <3>2. \E c \in kids : IsPrefix(c, f)
      BY <1>2, <2>1, <2>3, <3>1, ThroughAChild DEF kids
    <3> QED BY <3>2
  <2> QED BY <2>2, <2>3
<1>13. ASSUME NEW dir \in d.dirs, IsPrefix(root, dir), ~(Len(dir) - Len(root) <= MaxWalkDepth)
       PROVE  \E x \in kids \cup ToSet(rest) : IsPrefix(x, dir)
  <2>1. PICK x \in ToSet(dirs) : IsPrefix(x, dir)
    BY <1>1, <1>13
  <2>2. CASE x # p
    BY <1>2, <2>1, <2>2
  <2>3. CASE x = p
    <3>1. dir # p
      BY <1>13 DEF p
    <3>2. \E c \in kids : IsPrefix(c, dir)
      BY <1>2, <1>4, <2>1, <2>3, <3>1, ThroughAChild DEF kids
    <3> QED BY <3>2
  <2> QED BY <2>2, <2>3
<1>14. kids \cap ToSet(rest) = {} /\ kids \cap ToSet(files) = {}
  BY <1>8
<1>15. Frontier(d, root, rest, kids, files)
  BY <1>1, <1>2, <1>5, <1>10, <1>11, <1>12, <1>13, <1>14 DEF Frontier
<1> QED
  BY <1>15 DEF rest, kids, p

(* An entry that is a directory is put on the stack. *)
LEMMA FrontierTurns ==
  ASSUME NEW d \in Disks, NEW root, NEW dirs, NEW seen, NEW files, Frontier(d, root, dirs, seen, files),
         NEW path \in seen, path \in d.dirs
  PROVE  Frontier(d, root, Append(dirs, path), seen \ {path}, files)
<1>1. /\ dirs \in Seq(d.dirs) /\ Distinct(dirs) /\ path \notin ToSet(dirs)
      /\ seen \cap ToSet(dirs) = {}
  BY DEF Frontier
<1>2. /\ Append(dirs, path) \in Seq(d.dirs) /\ Distinct(Append(dirs, path))
      /\ ToSet(Append(dirs, path)) = ToSet(dirs) \cup {path}
  BY <1>1, HeldByAppend
<1>3. ToSet(Append(dirs, path)) \cup (seen \ {path}) = ToSet(dirs) \cup seen
  BY <1>2
<1> QED
  BY <1>1, <1>2, <1>3 DEF Frontier

(* An entry that is a vector file is one more found. *)
LEMMA FrontierFinds ==
  ASSUME NEW d \in Disks, NEW root, NEW dirs, NEW seen, NEW files, Frontier(d, root, dirs, seen, files),
         NEW path \in seen, path \in DOMAIN d.files
  PROVE  /\ Frontier(d, root, dirs, seen \ {path}, Append(files, path))
         /\ path \in FilesIn(d, root) /\ path \notin ToSet(files)
         /\ Len(Append(files, path)) = Len(files) + 1
<1>1. /\ files \in Seq(DOMAIN d.files) /\ Distinct(files) /\ path \notin ToSet(files)
      /\ seen \cap ToSet(files) = {} /\ seen \cap ToSet(dirs) = {} /\ dirs \in Seq(d.dirs)
  BY DEF Frontier
<1>2. /\ Append(files, path) \in Seq(DOMAIN d.files) /\ Distinct(Append(files, path))
      /\ ToSet(Append(files, path)) = ToSet(files) \cup {path}
      /\ Len(Append(files, path)) = Len(files) + 1
  BY <1>1, HeldByAppend
<1>3. ToSet(dirs) \cup (seen \ {path}) \cup ToSet(Append(files, path)) = ToSet(dirs) \cup seen \cup ToSet(files)
  BY <1>2
<1>4. IsPrefix(root, path) /\ root \in d.dirs
  BY DEF Frontier
<1>5. ASSUME NEW dir \in d.dirs, NEW x \in ToSet(dirs) \cup seen, IsPrefix(root, dir), IsPrefix(x, dir)
      PROVE  x # path
  <2> SUFFICES ASSUME x = path PROVE FALSE
    OBVIOUS
  <2>1. path \in HeldBy(d) /\ dir \in HeldBy(d) /\ path # dir /\ path \notin d.dirs
    BY DiskIs DEF HeldBy
  <2> QED BY <1>4, <1>5, <2>1, OnTheWay
<1>6. \A dir \in d.dirs : IsPrefix(root, dir) =>
        \/ Len(dir) - Len(root) <= MaxWalkDepth
        \/ \E x \in ToSet(dirs) \cup (seen \ {path}) : IsPrefix(x, dir)
  <2> SUFFICES ASSUME NEW dir \in d.dirs, IsPrefix(root, dir), ~(Len(dir) - Len(root) <= MaxWalkDepth)
               PROVE  \E x \in ToSet(dirs) \cup (seen \ {path}) : IsPrefix(x, dir)
    OBVIOUS
  <2>1. PICK x \in ToSet(dirs) \cup seen : IsPrefix(x, dir)
    BY DEF Frontier
  <2> QED BY <1>5, <2>1
<1>7. path \in FilesIn(d, root)
  BY <1>4 DEF FilesIn
<1> QED
  BY <1>1, <1>2, <1>3, <1>6, <1>7 DEF Frontier

(* Any other entry is passed over. *)
LEMMA FrontierPasses ==
  ASSUME NEW d \in Disks, NEW root, NEW dirs, NEW seen, NEW files, Frontier(d, root, dirs, seen, files),
         NEW path \in seen, path \in d.others
  PROVE  Frontier(d, root, dirs, seen \ {path}, files)
<1>1. IsPrefix(root, path) /\ root \in d.dirs /\ path \in HeldBy(d) /\ path \notin d.dirs
      /\ path \notin DOMAIN d.files
  BY DiskIs DEF Frontier, HeldBy
<1>2. ASSUME NEW p \in d.dirs \cup DOMAIN d.files
      PROVE  ~IsPrefix(path, p)
  <2> SUFFICES ASSUME IsPrefix(path, p) PROVE FALSE
    OBVIOUS
  <2>1. p \in HeldBy(d) /\ path # p
    BY <1>1 DEF HeldBy
  <2> QED BY <1>1, <2>1, OnTheWay
<1>3. \A f \in FilesIn(d, root) : \E x \in ToSet(dirs) \cup (seen \ {path}) \cup ToSet(files) : IsPrefix(x, f)
  <2> SUFFICES ASSUME NEW f \in FilesIn(d, root)
               PROVE  \E x \in ToSet(dirs) \cup (seen \ {path}) \cup ToSet(files) : IsPrefix(x, f)
    OBVIOUS
  <2>1. PICK x \in ToSet(dirs) \cup seen \cup ToSet(files) : IsPrefix(x, f)
    BY DEF Frontier
  <2> QED BY <1>2, <2>1 DEF FilesIn
<1>4. \A dir \in d.dirs : IsPrefix(root, dir) =>
        \/ Len(dir) - Len(root) <= MaxWalkDepth
        \/ \E x \in ToSet(dirs) \cup (seen \ {path}) : IsPrefix(x, dir)
  <2> SUFFICES ASSUME NEW dir \in d.dirs, IsPrefix(root, dir), ~(Len(dir) - Len(root) <= MaxWalkDepth)
               PROVE  \E x \in ToSet(dirs) \cup (seen \ {path}) : IsPrefix(x, dir)
    OBVIOUS
  <2>1. PICK x \in ToSet(dirs) \cup seen : IsPrefix(x, dir)
    BY DEF Frontier
  <2> QED BY <1>2, <2>1
<1> QED
  BY <1>3, <1>4 DEF Frontier

(* A tree the loader takes. *)
Takes(d, root) ==
  /\ root \in d.dirs
  /\ \A dir \in d.dirs : IsPrefix(root, dir) => Len(dir) - Len(root) <= MaxWalkDepth
  /\ Cardinality(FilesIn(d, root)) \in 1..MaxVectors

(* With nothing ahead, every file below the root was found, once. *)
LEMMA FrontierEnds ==
  ASSUME NEW d \in Disks, NEW root, NEW files, Frontier(d, root, <<>>, {}, files)
  PROVE  /\ ToSet(files) = FilesIn(d, root) /\ Cardinality(FilesIn(d, root)) = Len(files)
         /\ Takes(d, root) <=> Len(files) \in 1..MaxVectors
<1>1. ToSet(<<>>) = {}
  BY HeldByOne
<1>2. /\ root \in d.dirs /\ files \in Seq(DOMAIN d.files) /\ Distinct(files)
      /\ \A x \in ToSet(files) : IsPrefix(root, x)
      /\ \A f \in FilesIn(d, root) : \E x \in ToSet(files) : IsPrefix(x, f)
      /\ \A dir \in d.dirs : IsPrefix(root, dir) => Len(dir) - Len(root) <= MaxWalkDepth
  BY <1>1 DEF Frontier
<1>3. ToSet(files) \in SUBSET FilesIn(d, root)
  BY <1>2, HeldBySeq DEF FilesIn
<1>4. ASSUME NEW f \in FilesIn(d, root)
      PROVE  f \in ToSet(files)
  <2>1. PICK x \in ToSet(files) : IsPrefix(x, f)
    BY <1>2
  <2>2. x \in DOMAIN d.files /\ IsPrefix(root, x) /\ f \in DOMAIN d.files
    BY <1>3 DEF FilesIn
  <2>3. x \notin d.dirs /\ x \in HeldBy(d) /\ f \in HeldBy(d)
    BY <2>2, DiskIs DEF HeldBy
  <2>4. x = f
    BY <1>2, <2>1, <2>2, <2>3, OnTheWay
  <2> QED BY <2>4
<1>5. ToSet(files) = FilesIn(d, root)
  BY <1>3, <1>4
<1>6. Cardinality(FilesIn(d, root)) = Len(files)
  BY <1>2, <1>5, DistinctCounts
<1> QED
  BY <1>2, <1>5, <1>6 DEF Takes

(* One file more than there may be: the tree is not taken. *)
LEMMA TooMany ==
  ASSUME NEW d \in Disks, NEW root, NEW dirs, NEW seen, NEW files, Frontier(d, root, dirs, seen, files),
         NEW path \in seen, path \in DOMAIN d.files, Len(files) >= MaxVectors
  PROVE  ~Takes(d, root)
<1> DEFINE more == Append(files, path)
<1>1. Frontier(d, root, dirs, seen \ {path}, more) /\ Len(more) = Len(files) + 1
  BY FrontierFinds
<1>2. more \in Seq(DOMAIN d.files) /\ Distinct(more) /\ \A x \in ToSet(more) : IsPrefix(root, x)
  BY <1>1 DEF Frontier
<1>3. files \in Seq(DOMAIN d.files)
  BY DEF Frontier
<1> HIDE DEF more
<1>4. ToSet(more) \in SUBSET FilesIn(d, root)
  BY <1>2, HeldBySeq DEF FilesIn
<1>5. Cardinality(ToSet(more)) = Len(files) + 1
  BY <1>1, <1>2, DistinctCounts
<1>6. IsFiniteSet(FilesIn(d, root))
  <2>1. FilesIn(d, root) \in SUBSET HeldBy(d)
    BY DEF FilesIn, HeldBy
  <2> QED BY <2>1, DiskIs, FS_Subset
<1>7. Len(files) + 1 <= Cardinality(FilesIn(d, root)) /\ Cardinality(FilesIn(d, root)) \in Nat
  BY <1>4, <1>5, <1>6, FS_Subset, FS_CardinalityType
<1>8. Len(files) \in Nat /\ MaxVectors \in Nat
  BY <1>3, LenProperties, WalkAssumption
<1>9. ~(Cardinality(FilesIn(d, root)) <= MaxVectors)
  BY <1>7, <1>8
<1> QED
  BY <1>7, <1>8, <1>9 DEF Takes

---------------------------------------------------------------------------
(* The order of paths. *)

\* The same for the first elements.
Agree(p, q, n) == \A j \in 1..n : p[j] = q[j]

(* Two sequences agree for a while when what they begin with is one. *)
LEMMA AgreeMeans ==
  ASSUME NEW p \in Seq(Nat), NEW q \in Seq(Nat), NEW n \in Nat, n <= Len(p), n <= Len(q)
  PROVE  SubSeq(p, 1, n) = SubSeq(q, 1, n) <=> Agree(p, q, n)
<1>1. Len(p) \in Nat /\ Len(q) \in Nat
  BY LenProperties
<1>2. ASSUME NEW s \in Seq(Nat), n <= Len(s)
      PROVE  /\ SubSeq(s, 1, n) \in Seq(Nat) /\ Len(SubSeq(s, 1, n)) = n
             /\ \A j \in 1..n : SubSeq(s, 1, n)[j] = s[j]
  <2>1. \A j \in 1..n : s[j] \in Nat
    BY <1>2, ElementOfSeq, LenProperties
  <2>2. /\ SubSeq(s, 1, n) \in Seq(Nat)
        /\ Len(SubSeq(s, 1, n)) = IF 1 <= n THEN n - 1 + 1 ELSE 0
        /\ \A j \in 1..(n - 1 + 1) : SubSeq(s, 1, n)[j] = s[1 + j - 1]
    BY <2>1, SubSeqProperties
  <2>3. \A j \in 1..n : j \in 1..(n - 1 + 1) /\ 1 + j - 1 = j
    OBVIOUS
  <2> QED BY <2>2, <2>3
<1>3. /\ SubSeq(p, 1, n) \in Seq(Nat) /\ Len(SubSeq(p, 1, n)) = n
      /\ \A j \in 1..n : SubSeq(p, 1, n)[j] = p[j]
  BY <1>2
<1>4. /\ SubSeq(q, 1, n) \in Seq(Nat) /\ Len(SubSeq(q, 1, n)) = n
      /\ \A j \in 1..n : SubSeq(q, 1, n)[j] = q[j]
  BY <1>2
<1> DEFINE a == SubSeq(p, 1, n)
           b == SubSeq(q, 1, n)
<1> HIDE DEF a, b
<1>5. /\ a \in Seq(Nat) /\ b \in Seq(Nat) /\ Len(a) = n /\ Len(b) = n
      /\ \A j \in 1..n : a[j] = p[j] /\ b[j] = q[j]
  BY <1>3, <1>4 DEF a, b
<1>6. a = b <=> \A j \in 1..n : a[j] = b[j]
  BY <1>5, SeqEqual
<1>7. a = b <=> Agree(p, q, n)
  BY <1>5, <1>6 DEF Agree
<1> QED
  BY <1>7 DEF a, b

\* p ends where q goes on, or is below it at the first place they differ.
EndsAt(p, q)      == Len(p) < Len(q) /\ Agree(p, q, Len(p))
DropsAt(p, q, i)  == i \in 1..Len(p) /\ i \in 1..Len(q) /\ p[i] < q[i] /\ Agree(p, q, i - 1)

(* What comes before another path. *)
LEMMA PathBeforeMeans ==
  ASSUME NEW p \in Seq(Nat), NEW q \in Seq(Nat)
  PROVE  PathBefore(p, q) <=> EndsAt(p, q) \/ \E i \in Nat : DropsAt(p, q, i)
<1>1. Len(p) \in Nat /\ Len(q) \in Nat /\ DOMAIN p = 1..Len(p) /\ DOMAIN q = 1..Len(q)
  BY LenProperties
<1>2. IsStrictPrefix(p, q) <=> EndsAt(p, q)
  <2>1. IsPrefix(p, q) <=> Len(p) <= Len(q) /\ Agree(p, q, Len(p))
    BY PrefixMeans DEF Agree
  <2>2. IsPrefix(p, q) /\ Len(p) = Len(q) => p = q
    BY PrefixOrder
  <2>3. Len(p) < Len(q) <=> Len(p) <= Len(q) /\ Len(p) # Len(q)
    <3>1. \A m, n \in Nat : m < n <=> m <= n /\ m # n
      OBVIOUS
    <3> QED BY <1>1, <3>1, Zenon
  <2>4. EndsAt(p, q) <=> IsPrefix(p, q) /\ Len(p) # Len(q)
    BY <2>1, <2>3, Zenon DEF EndsAt
  <2>5. Len(p) # Len(q) => p # q
    OBVIOUS
  <2> QED BY <2>2, <2>4, <2>5 DEF IsStrictPrefix
<1>3. ASSUME NEW i \in DOMAIN p \cap DOMAIN q
      PROVE  SubSeq(p, 1, i - 1) = SubSeq(q, 1, i - 1) <=> Agree(p, q, i - 1)
  <2>1. i - 1 \in Nat /\ i - 1 <= Len(p) /\ i - 1 <= Len(q)
    BY <1>1
  <2> QED BY <2>1, AgreeMeans
<1>4. (\E i \in DOMAIN p \cap DOMAIN q : p[i] < q[i] /\ SubSeq(p, 1, i - 1) = SubSeq(q, 1, i - 1))
        <=> \E i \in Nat : DropsAt(p, q, i)
  <2>1. \A i \in DOMAIN p \cap DOMAIN q : i \in Nat
    BY <1>1
  <2>2. \A i \in DOMAIN p \cap DOMAIN q :
          p[i] < q[i] /\ SubSeq(p, 1, i - 1) = SubSeq(q, 1, i - 1) <=> DropsAt(p, q, i)
    BY <1>1, <1>3 DEF DropsAt
  <2>3. \A i \in Nat : DropsAt(p, q, i) => i \in DOMAIN p \cap DOMAIN q
    BY <1>1 DEF DropsAt
  <2> QED BY <2>1, <2>2, <2>3
<1> QED
  BY <1>2, <1>4 DEF PathBefore

(* No path is before itself, and what is before what is before another is before that. *)
LEMMA PathBeforeIsStrict ==
  /\ \A p \in Seq(Nat) : ~PathBefore(p, p)
  /\ \A p, q, r \in Seq(Nat) : PathBefore(p, q) /\ PathBefore(q, r) => PathBefore(p, r)
<1>0. \A s \in Seq(Nat) : Len(s) \in Nat /\ \A i \in 1..Len(s) : s[i] \in Nat
  BY LenProperties, ElementOfSeq
<1>1. ASSUME NEW p \in Seq(Nat)
      PROVE  ~PathBefore(p, p)
  <2>1. ~EndsAt(p, p)
    BY <1>0 DEF EndsAt
  <2>2. \A i \in Nat : ~DropsAt(p, p, i)
    BY <1>0 DEF DropsAt
  <2> QED BY <2>1, <2>2, PathBeforeMeans
<1>2. ASSUME NEW p \in Seq(Nat), NEW q \in Seq(Nat), NEW r \in Seq(Nat),
             PathBefore(p, q), PathBefore(q, r)
      PROVE  PathBefore(p, r)
  <2>0. EndsAt(p, q) \/ \E i \in Nat : DropsAt(p, q, i)
    BY <1>2, PathBeforeMeans
  <2>00. EndsAt(q, r) \/ \E i \in Nat : DropsAt(q, r, i)
    BY <1>2, PathBeforeMeans
  <2>1. CASE EndsAt(p, q) /\ EndsAt(q, r)
    <3>1. EndsAt(p, r)
      BY <1>0, <2>1 DEF EndsAt, Agree
    <3> QED BY <3>1, PathBeforeMeans
  <2>2. ASSUME EndsAt(p, q), NEW i \in Nat, DropsAt(q, r, i)
        PROVE  PathBefore(p, r)
    <3>1. CASE i <= Len(p)
      <4>1. DropsAt(p, r, i)
        BY <1>0, <2>2, <3>1 DEF EndsAt, DropsAt, Agree
      <4> QED BY <4>1, PathBeforeMeans
    <3>2. CASE ~(i <= Len(p))
      <4>1. EndsAt(p, r)
        BY <1>0, <2>2, <3>2 DEF EndsAt, DropsAt, Agree
      <4> QED BY <4>1, PathBeforeMeans
    <3> QED BY <3>1, <3>2
  <2>3. ASSUME NEW i \in Nat, DropsAt(p, q, i), EndsAt(q, r)
        PROVE  PathBefore(p, r)
    <3>0. i \in 1..Len(q) /\ \A j \in 1..i : j \in 1..Len(q)
      BY <1>0, <2>3 DEF DropsAt
    <3>00. i \in 1..Len(r) /\ \A j \in 1..i : q[j] = r[j]
      BY <1>0, <2>3, <3>0 DEF EndsAt, Agree
    <3>01. i \in 1..i /\ \A j \in 1..(i - 1) : j \in 1..i
      BY <2>3 DEF DropsAt
    <3>1. DropsAt(p, r, i)
      BY <2>3, <3>00, <3>01 DEF DropsAt, Agree
    <3> QED BY <3>1, PathBeforeMeans
  <2>4. ASSUME NEW i \in Nat, DropsAt(p, q, i), NEW j \in Nat, DropsAt(q, r, j)
        PROVE  PathBefore(p, r)
    <3>1. CASE i < j
      <4>0. i \in 1..(j - 1) /\ \A k \in 1..(i - 1) : k \in 1..(j - 1)
        BY <1>0, <2>4, <3>1 DEF DropsAt
      <4>00. q[i] = r[i] /\ \A k \in 1..(i - 1) : q[k] = r[k]
        BY <2>4, <4>0 DEF DropsAt, Agree
      <4>01. i \in 1..Len(r)
        BY <1>0, <2>4, <3>1 DEF DropsAt
      <4>1. DropsAt(p, r, i)
        BY <2>4, <4>00, <4>01 DEF DropsAt, Agree
      <4> QED BY <4>1, PathBeforeMeans
    <3>2. CASE j < i
      <4>0. j \in 1..(i - 1) /\ \A k \in 1..(j - 1) : k \in 1..(i - 1)
        BY <1>0, <2>4, <3>2 DEF DropsAt
      <4>00. p[j] = q[j] /\ \A k \in 1..(j - 1) : p[k] = q[k]
        BY <2>4, <4>0 DEF DropsAt, Agree
      <4>01. j \in 1..Len(p)
        BY <1>0, <2>4, <3>2 DEF DropsAt
      <4>1. DropsAt(p, r, j)
        BY <2>4, <4>00, <4>01 DEF DropsAt, Agree
      <4> QED BY <4>1, PathBeforeMeans
    <3>3. CASE i = j
      <4>0. p[i] \in Nat /\ q[i] \in Nat /\ r[i] \in Nat /\ p[i] < q[i] /\ q[i] < r[i]
        BY <1>0, <2>4, <3>3 DEF DropsAt
      <4>1. DropsAt(p, r, i)
        BY <2>4, <3>3, <4>0 DEF DropsAt, Agree
      <4> QED BY <4>1, PathBeforeMeans
    <3> QED BY <3>1, <3>2, <3>3
  <2> QED BY <2>0, <2>00, <2>1, <2>2, <2>3, <2>4
<1> QED
  BY <1>1, <1>2

(* Of two paths one is before the other. *)
LEMMA PathBeforeIsTotal ==
  ASSUME NEW p \in Seq(Nat), NEW q \in Seq(Nat), p # q
  PROVE  PathBefore(p, q) \/ PathBefore(q, p)
<1> DEFINE differ == {i \in Nat : i \in 1..Len(p) /\ i \in 1..Len(q) /\ p[i] # q[i]}
<1>0. /\ Len(p) \in Nat /\ Len(q) \in Nat
      /\ \A i \in 1..Len(p) : p[i] \in Nat
      /\ \A i \in 1..Len(q) : q[i] \in Nat
  BY LenProperties, ElementOfSeq
<1>1. CASE differ = {}
  <2>1. Len(p) # Len(q)
    <3> SUFFICES ASSUME Len(p) = Len(q) PROVE FALSE
      OBVIOUS
    <3>1. \A i \in 1..Len(p) : i \in Nat
      BY <1>0
    <3>2. \A i \in 1..Len(p) : p[i] = q[i]
      BY <1>1, <3>1
    <3> QED BY <3>2, SeqEqual
  <2>2. CASE Len(p) < Len(q)
    <3>1. \A i \in 1..Len(p) : i \in Nat /\ i \in 1..Len(q)
      BY <1>0, <2>2
    <3>2. \A i \in 1..Len(p) : p[i] = q[i]
      BY <1>1, <3>1
    <3>3. EndsAt(p, q)
      BY <2>2, <3>2 DEF EndsAt, Agree
    <3> QED BY <3>3, PathBeforeMeans
  <2>3. CASE Len(q) < Len(p)
    <3>1. \A i \in 1..Len(q) : i \in Nat /\ i \in 1..Len(p)
      BY <1>0, <2>3
    <3>2. \A i \in 1..Len(q) : q[i] = p[i]
      BY <1>1, <3>1
    <3>3. EndsAt(q, p)
      BY <2>3, <3>2 DEF EndsAt, Agree
    <3> QED BY <3>3, PathBeforeMeans
  <2> QED BY <1>0, <2>1, <2>2, <2>3
<1>2. CASE differ # {}
  <2> DEFINE i == Min(differ)
  <2>1. i \in differ /\ \A j \in differ : i <= j
    <3> differ \in SUBSET Nat
      OBVIOUS
    <3> HIDE DEF differ
    <3> QED BY <1>2, LeastExists
  <2>2. i \in Nat /\ i \in 1..Len(p) /\ i \in 1..Len(q) /\ p[i] # q[i]
    BY <2>1
  <2>3. \A j \in 1..(i - 1) : j \in Nat /\ j \in 1..Len(p) /\ j \in 1..Len(q) /\ ~(i <= j)
    <3> HIDE DEF i
    <3> QED BY <1>0, <2>2
  <2>4. Agree(p, q, i - 1) /\ Agree(q, p, i - 1)
    <3>1. \A j \in 1..(i - 1) : p[j] = q[j]
      BY <2>1, <2>3
    <3> QED BY <3>1 DEF Agree
  <2> HIDE DEF i
  <2>5. DropsAt(p, q, i) \/ DropsAt(q, p, i)
    BY <1>0, <2>2, <2>4 DEF DropsAt
  <2> QED BY <2>2, <2>5, PathBeforeMeans
<1> QED
  BY <1>1, <1>2

OrderOf(d) == {pq \in (DOMAIN d.files) \X (DOMAIN d.files) : PathBefore(pq[1], pq[2])}

(* The files of a disk are in a strict and total order. *)
LEMMA PathsAreOrdered ==
  ASSUME NEW d \in Disks
  PROVE  IsOrder(OrderOf(d), DOMAIN d.files)
<1>1. DOMAIN d.files \in SUBSET Seq(Nat)
  BY DiskIs DEF HeldBy
<1>2. \A p, q \in DOMAIN d.files : <<p, q>> \in OrderOf(d) <=> PathBefore(p, q)
  BY DEF OrderOf
<1>3. \A p, q \in DOMAIN d.files : p # q => PathBefore(p, q) \/ PathBefore(q, p)
  BY <1>1, PathBeforeIsTotal
<1>4. /\ \A p \in DOMAIN d.files : ~PathBefore(p, p)
      /\ \A p, q, r \in DOMAIN d.files : PathBefore(p, q) /\ PathBefore(q, r) => PathBefore(p, r)
  BY <1>1, PathBeforeIsStrict
<1> QED
  BY <1>2, <1>3, <1>4 DEF IsOrder

---------------------------------------------------------------------------
(* The reading. *)

TreesOf(d)    == ToSet(d.profile.vectors \o d.profile.shared)
GatheredOf(d) == UNION {FilesIn(d, root) : root \in TreesOf(d)}
Skips(d, p)   == d.files[p].profile = "*" /\ ~Defined(d.profile.methods, d.files[p].method)
ApplyingOf(d) == {p \in GatheredOf(d) : ~Skips(d, p)}

EntryOf(d, p) == [path |-> p, document |-> d.files[p]]
EntriesOf(d)  == {EntryOf(d, p) : p \in DOMAIN d.files}
PathsOf(read) == [i \in DOMAIN read |-> read[i].path]

\* What is left is in order, what was read is in order, and comes before it.
Reading(d, left, read) ==
  \E rest \in SUBSET GatheredOf(d) :
    /\ left = Ordered(rest, OrderOf(d))
    /\ PathsOf(read) = Ordered(ApplyingOf(d) \ rest, OrderOf(d))
    /\ \A p \in GatheredOf(d) \ rest, q \in rest : <<p, q>> \in OrderOf(d)

(* Whatever part of the files of a disk is sorted, it is a finite one. *)
LEMMA PartsOfADisk ==
  ASSUME NEW d \in Disks, NEW S \in SUBSET GatheredOf(d)
  PROVE  IsFiniteSet(S) /\ IsOrder(OrderOf(d), S) /\ S \in SUBSET DOMAIN d.files
<1>1. S \in SUBSET DOMAIN d.files
  BY DEF GatheredOf, FilesIn
<1>2. S \in SUBSET HeldBy(d)
  BY <1>1 DEF HeldBy
<1>3. IsFiniteSet(S)
  BY <1>2, DiskIs, FS_Subset
<1>4. IsOrder(OrderOf(d), S)
  BY <1>1, PathsAreOrdered, OrderRestricts
<1> QED
  BY <1>1, <1>3, <1>4

(* Nothing, in order, is the empty sequence; and no other set is. *)
LEMMA OrderedNothing ==
  ASSUME NEW S, NEW R, IsFiniteSet(S), IsOrder(R, S)
  PROVE  Ordered(S, R) = <<>> <=> S = {}
<1>1. Ordered(S, R) \in Seq(S) /\ Len(Ordered(S, R)) = Cardinality(S)
  BY OrderedIs
<1>2. Ordered(S, R) = <<>> <=> Len(Ordered(S, R)) = 0
  <2> DEFINE o == Ordered(S, R)
  <2>1. o \in Seq(S)
    BY <1>1
  <2> HIDE DEF o
  <2>2. o # <<>> => Len(o) # 0
    BY <2>1, EmptySeq
  <2>3. o = <<>> => Len(o) = 0
    BY EmptySeq
  <2> QED BY <2>2, <2>3 DEF o
<1> QED
  BY <1>1, <1>2, FS_EmptySet

(* The paths of one entry more. *)
LEMMA PathsGrow ==
  ASSUME NEW d, NEW read \in Seq(EntriesOf(d)), NEW p \in DOMAIN d.files
  PROVE  /\ Append(read, EntryOf(d, p)) \in Seq(EntriesOf(d))
         /\ PathsOf(Append(read, EntryOf(d, p))) = Append(PathsOf(read), p)
<1> DEFINE more == Append(read, EntryOf(d, p))
           n    == Len(read)
           P    == DOMAIN d.files
<1>0. EntryOf(d, p) \in EntriesOf(d) /\ EntryOf(d, p).path = p /\ \A e \in EntriesOf(d) : e.path \in P
  BY DEF EntriesOf, EntryOf
<1>1. /\ n \in Nat /\ more \in Seq(EntriesOf(d)) /\ Len(more) = n + 1 /\ more[n + 1] = EntryOf(d, p)
      /\ \A i \in 1..n : more[i] = read[i]
  BY <1>0, AppendProperties, LenProperties
<1>2. DOMAIN read = 1..n /\ \A i \in 1..n : read[i] \in EntriesOf(d)
  BY LenProperties, ElementOfSeq
<1>3. DOMAIN more = 1..(n + 1) /\ \A i \in 1..(n + 1) : more[i] \in EntriesOf(d)
  <2> HIDE DEF more, n
  <2> QED BY <1>1, LenProperties, ElementOfSeq
<1> HIDE DEF more, n, P
<1>4. PathsOf(read) \in Seq(P) /\ Len(PathsOf(read)) = n
  <2>1. PathsOf(read) \in [1..n -> P]
    BY <1>0, <1>2 DEF PathsOf
  <2> QED BY <1>1, <2>1, FunctionIsSeq
<1>5. PathsOf(more) \in Seq(P) /\ Len(PathsOf(more)) = n + 1
  <2>1. PathsOf(more) \in [1..(n + 1) -> P]
    BY <1>0, <1>3 DEF PathsOf
  <2> QED BY <1>1, <2>1, FunctionIsSeq
<1>6. /\ Append(PathsOf(read), p) \in Seq(P) /\ Len(Append(PathsOf(read), p)) = n + 1
      /\ Append(PathsOf(read), p)[n + 1] = p
      /\ \A i \in 1..n : Append(PathsOf(read), p)[i] = PathsOf(read)[i]
  BY <1>4, AppendProperties DEF P
<1>7. ASSUME NEW i \in 1..(n + 1)
      PROVE  PathsOf(more)[i] = Append(PathsOf(read), p)[i]
  <2>1. CASE i = n + 1
    BY <1>0, <1>1, <1>3, <1>6, <2>1 DEF PathsOf
  <2>2. CASE i # n + 1
    <3>1. i \in 1..n
      BY <1>1, <2>2
    <3> QED BY <1>1, <1>2, <1>3, <1>6, <3>1 DEF PathsOf
  <2> QED BY <2>1, <2>2
<1>8. PathsOf(more) = Append(PathsOf(read), p)
  BY <1>5, <1>6, <1>7, SeqEqual
<1> QED
  BY <1>1, <1>8 DEF more

(* Reading starts with the sorted files. *)
LEMMA ReadingStarts ==
  ASSUME NEW d \in Disks
  PROVE  Reading(d, Ordered(GatheredOf(d), OrderOf(d)), <<>>)
<1>1. PathsOf(<<>>) = <<>>
  BY DEF PathsOf
<1>2. ApplyingOf(d) \ GatheredOf(d) = {}
  BY DEF ApplyingOf
<1>3. Ordered({}, OrderOf(d)) = <<>>
  BY PartsOfADisk, OrderedNothing
<1> QED
  BY <1>1, <1>2, <1>3 DEF Reading

(* One file is read: it is the next in order, and what is read stays in order. *)
LEMMA ReadingGoesOn ==
  ASSUME NEW d \in Disks, NEW left, NEW read \in Seq(EntriesOf(d)), Reading(d, left, read), left # <<>>
  PROVE  /\ Head(left) \in DOMAIN d.files
         /\ Skips(d, Head(left)) => Reading(d, Tail(left), read)
         /\ ~Skips(d, Head(left)) => Reading(d, Tail(left), Append(read, EntryOf(d, Head(left))))
<1> DEFINE G == GatheredOf(d)
           R == OrderOf(d)
           p == Head(left)
<1>1. PICK rest \in SUBSET G :
        /\ left = Ordered(rest, R)
        /\ PathsOf(read) = Ordered(ApplyingOf(d) \ rest, R)
        /\ \A a \in G \ rest, b \in rest : <<a, b>> \in R
  BY DEF Reading
<1> HIDE DEF G, R
<1>2. IsFiniteSet(rest) /\ IsOrder(R, rest) /\ rest \in SUBSET DOMAIN d.files
  BY PartsOfADisk DEF G, R
<1>3. rest # {}
  BY <1>1, <1>2, OrderedNothing
<1>4. p \in rest /\ (\A y \in rest \ {p} : <<p, y>> \in R) /\ Tail(left) = Ordered(rest \ {p}, R)
  BY <1>1, <1>2, <1>3, OrderedSplits
<1> DEFINE after == rest \ {p}
<1>5. after \in SUBSET G /\ \A a \in G \ after, b \in after : <<a, b>> \in R
  BY <1>1, <1>4
<1>6. ASSUME Skips(d, p)
      PROVE  Reading(d, Tail(left), read)
  <2>1. ApplyingOf(d) \ after = ApplyingOf(d) \ rest
    BY <1>6 DEF ApplyingOf
  <2> QED BY <1>1, <1>4, <1>5, <2>1 DEF Reading, G, R
<1>7. ASSUME ~Skips(d, p)
      PROVE  Reading(d, Tail(left), Append(read, EntryOf(d, p)))
  <2> DEFINE was == ApplyingOf(d) \ rest
  <2>1. p \in G /\ ApplyingOf(d) \in SUBSET G
    BY <1>4 DEF ApplyingOf, G
  <2>2. ApplyingOf(d) \ after = was \cup {p}
    BY <1>4, <1>7, <2>1 DEF ApplyingOf, G
  <2>3. was \in SUBSET G /\ p \notin was /\ \A x \in was : <<x, p>> \in R
    BY <1>1, <1>4, <2>1
  <2>4. IsFiniteSet(was) /\ IsOrder(R, G)
    BY <2>3, PartsOfADisk DEF G, R
  <2>5. Append(Ordered(was, R), p) = Ordered(was \cup {p}, R)
    <3> HIDE DEF was
    <3> QED BY <2>1, <2>3, <2>4, OrderedGrows
  <2>6. p \in DOMAIN d.files
    BY <1>2, <1>4
  <2>7. PathsOf(Append(read, EntryOf(d, p))) = Append(PathsOf(read), p)
    BY <2>6, PathsGrow
  <2>8. PathsOf(Append(read, EntryOf(d, p))) = Ordered(ApplyingOf(d) \ after, R)
    BY <1>1, <2>2, <2>5, <2>7
  <2> QED BY <1>4, <1>5, <2>8 DEF Reading, G, R
<1> QED
  BY <1>2, <1>4, <1>6, <1>7

(* When nothing is left, all that applies was read. *)
LEMMA ReadingEnds ==
  ASSUME NEW d \in Disks, NEW read, Reading(d, <<>>, read)
  PROVE  PathsOf(read) = Ordered(ApplyingOf(d), OrderOf(d))
<1>1. PICK rest \in SUBSET GatheredOf(d) :
        <<>> = Ordered(rest, OrderOf(d)) /\ PathsOf(read) = Ordered(ApplyingOf(d) \ rest, OrderOf(d))
  BY DEF Reading
<1>2. rest = {}
  BY <1>1, PartsOfADisk, OrderedNothing
<1>3. ApplyingOf(d) \ rest = ApplyingOf(d)
  BY <1>2
<1> QED
  BY <1>1, <1>3

---------------------------------------------------------------------------
(* The loader. *)

\* A declared tree is still to be walked, or is one the loader takes and its files are gathered.
Gathering(d, left, gathered) ==
  /\ left \in Seq(TreesOf(d)) /\ gathered \in Seq(DOMAIN d.files)
  /\ ToSet(gathered) \in SUBSET GatheredOf(d)
  /\ \A root \in TreesOf(d) :
       root \in ToSet(left) \/ (Takes(d, root) /\ FilesIn(d, root) \in SUBSET ToSet(gathered))

AllTaken(d) == \A root \in TreesOf(d) : Takes(d, root)

LoaderInv ==
  /\ disk \in Disks /\ vectors \in Seq(EntriesOf(disk))
  /\ pc \in {"load", "corpus"} => stack = <<>> /\ entries = {}
  /\ pc \in {"load", "corpus", "walk"} => vectors = <<>>
  /\ pc = "load" => sources = <<>>
  /\ pc \in {"corpus", "walk"} => Gathering(disk, declared, sources)
  /\ pc = "walk" => /\ declared # <<>> /\ Len(found) <= MaxVectors
                    /\ Frontier(disk, Head(declared), stack, entries, found)
  /\ pc = "read" => AllTaken(disk) /\ Reading(disk, sources, vectors)
  /\ pc = "admitted" => AllTaken(disk) /\ PathsOf(vectors) = Ordered(ApplyingOf(disk), OrderOf(disk))
  /\ pc = "failed" /\ failure.at = "tree" => ~AllTaken(disk)

(* A new walk keeps what was gathered, and a walk that ends adds to it. *)
LEMMA GatheringGoesOn ==
  ASSUME NEW d \in Disks, NEW left, NEW gathered, Gathering(d, left, gathered), left # <<>>,
         NEW files \in Seq(DOMAIN d.files), Takes(d, Head(left)), ToSet(files) = FilesIn(d, Head(left))
  PROVE  Gathering(d, Tail(left), gathered \o files)
<1>1. /\ left \in Seq(TreesOf(d)) /\ gathered \in Seq(DOMAIN d.files)
      /\ ToSet(gathered) \in SUBSET GatheredOf(d)
      /\ \A root \in TreesOf(d) :
           root \in ToSet(left) \/ (Takes(d, root) /\ FilesIn(d, root) \in SUBSET ToSet(gathered))
  BY DEF Gathering
<1>2. /\ Tail(left) \in Seq(TreesOf(d)) /\ Head(left) \in TreesOf(d)
      /\ ToSet(left) = ToSet(Tail(left)) \cup {Head(left)}
  BY <1>1, HeldByTail
<1>3. /\ gathered \o files \in Seq(DOMAIN d.files)
      /\ ToSet(gathered \o files) = ToSet(gathered) \cup ToSet(files)
  BY <1>1, HeldByBoth
<1>4. FilesIn(d, Head(left)) \in SUBSET GatheredOf(d)
  BY <1>2 DEF GatheredOf
<1> QED
  BY <1>1, <1>2, <1>3, <1>4 DEF Gathering

(* With no tree left, what is gathered is all that is below the trees. *)
LEMMA GatheringEnds ==
  ASSUME NEW d \in Disks, NEW gathered, Gathering(d, <<>>, gathered)
  PROVE  AllTaken(d) /\ ToSet(gathered) = GatheredOf(d)
<1>1. ToSet(<<>>) = {}
  BY HeldByOne
<1>2. /\ ToSet(gathered) \in SUBSET GatheredOf(d)
      /\ \A root \in TreesOf(d) : Takes(d, root) /\ FilesIn(d, root) \in SUBSET ToSet(gathered)
  BY <1>1 DEF Gathering
<1>3. GatheredOf(d) \in SUBSET ToSet(gathered)
  BY <1>2 DEF GatheredOf
<1> QED
  BY <1>2, <1>3 DEF AllTaken

(* The invariant holds at first. *)
LEMMA LoaderStarts ==
  LoadInit => LoaderInv
<1> SUFFICES ASSUME LoadInit PROVE LoaderInv
  OBVIOUS
<1>1. <<>> \in Seq(EntriesOf(disk))
  BY EmptySeq
<1> QED
  BY <1>1 DEF LoadInit, LoaderInv

(* The definitions of the module, of one disk. *)
LEMMA LoaderTerms ==
  /\ \A path : Children(path) = ChildrenIn(disk, path)
  /\ \A root : FilesBelow(root) = FilesIn(disk, root)
  /\ \A path, root : Depth(path, root) = Len(path) - Len(root)
  /\ \A root : Acceptable(root) <=> Takes(disk, root)
  /\ Trees = TreesOf(disk) /\ PathOrder = OrderOf(disk)
  /\ \A p : DoesNotApply(disk.files[p]) <=> Skips(disk, p)
<1>1. \A path : Children(path) = ChildrenIn(disk, path)
  BY DEF Children, ChildrenIn, HeldBy
<1>2. \A root : FilesBelow(root) = FilesIn(disk, root)
  BY DEF FilesBelow, FilesIn, Below
<1>3. \A path, root : Depth(path, root) = Len(path) - Len(root)
  BY DEF Depth
<1>4. \A root : Acceptable(root) <=> Takes(disk, root)
  BY <1>2, <1>3 DEF Acceptable, Takes, Below
<1>5. Trees = TreesOf(disk) /\ PathOrder = OrderOf(disk)
  BY DEF Trees, TreesOf, profile, PathOrder, OrderOf
<1>6. \A p : DoesNotApply(disk.files[p]) <=> Skips(disk, p)
  BY DEF DoesNotApply, IsWildcard, Skips, profile
<1> QED
  BY <1>1, <1>2, <1>3, <1>4, <1>5, <1>6

(* Each step of the load keeps it. *)
LEMMA LoaderKeeps ==
  ASSUME LoaderInv, Load
  PROVE  LoaderInv'
<1> USE DEF walk, corpus, Fail
<1>0. disk \in Disks /\ vectors \in Seq(EntriesOf(disk))
  BY DEF LoaderInv
<1>1. ASSUME LoadBundle
      PROVE  LoaderInv'
  <2>1. disk.profile.vectors \in Seq(Seq(Nat)) /\ disk.profile.shared \in Seq(Seq(Nat))
    BY <1>0, DiskIs
  <2>2. disk.profile.vectors \o disk.profile.shared \in Seq(TreesOf(disk))
    BY <2>1, HeldByBoth, SeqOfItself DEF TreesOf
  <2>3. <<>> \in Seq(DOMAIN disk.files) /\ ToSet(<<>>) = {}
    BY EmptySeq, HeldByOne
  <2>4. Gathering(disk, disk.profile.vectors \o disk.profile.shared, <<>>)
    BY <2>2, <2>3 DEF Gathering, TreesOf
  <2>5. /\ disk' = disk /\ vectors' = vectors /\ vectors = <<>> /\ stack' = <<>> /\ entries' = {}
        /\ sources' = <<>> /\ declared' = disk.profile.vectors \o disk.profile.shared
        /\ pc' = "corpus" \/ (pc' = "failed" /\ failure'.at = "load")
    BY <1>1 DEF LoadBundle, LoaderInv, profile
  <2> QED BY <1>0, <2>4, <2>5 DEF LoaderInv
<1>2. ASSUME EnterTree
      PROVE  LoaderInv'
  <2>1. /\ pc = "corpus" /\ declared # <<>> /\ Gathering(disk, declared, sources)
        /\ vectors = <<>> /\ entries = {}
    BY <1>2 DEF EnterTree, LoaderInv
  <2>2. Head(declared) \in TreesOf(disk)
    BY <2>1, HeldByTail DEF Gathering
  <2>3. CASE Head(declared) \in disk.dirs
    <3>1. Frontier(disk, Head(declared), <<Head(declared)>>, {}, <<>>)
      BY <1>0, <2>3, FrontierStarts
    <3>2. Len(<<>>) <= MaxVectors
      BY WalkAssumption
    <3> QED BY <1>0, <1>2, <2>1, <2>3, <3>1, <3>2 DEF LoaderInv, EnterTree
  <2>4. CASE Head(declared) \notin disk.dirs
    <3>1. ~AllTaken(disk)
      BY <2>2, <2>4 DEF AllTaken, Takes
    <3> QED BY <1>0, <1>2, <2>1, <2>4, <3>1 DEF LoaderInv, EnterTree
  <2> QED BY <2>3, <2>4
<1>3. ASSUME OpenDirectory
      PROVE  LoaderInv'
  <2>1. /\ pc = "walk" /\ declared # <<>> /\ Gathering(disk, declared, sources) /\ vectors = <<>>
        /\ Len(found) <= MaxVectors /\ entries = {} /\ stack # <<>>
        /\ Frontier(disk, Head(declared), stack, {}, found)
    BY <1>3 DEF OpenDirectory, LoaderInv
  <2>2. CASE Depth(Last(stack), Head(declared)) > MaxWalkDepth
    <3>1. Head(declared) \in TreesOf(disk)
      BY <2>1, HeldByTail DEF Gathering
    <3>2. Last(stack) \in disk.dirs /\ IsPrefix(Head(declared), Last(stack))
      <4>1. stack \in Seq(disk.dirs) /\ \A x \in ToSet(stack) : IsPrefix(Head(declared), x)
        BY <2>1 DEF Frontier
      <4> QED BY <2>1, <4>1, HeldByFront
    <3>3. ~(Len(Last(stack)) - Len(Head(declared)) <= MaxWalkDepth)
      <4>1. Last(stack) \in Seq(Nat) /\ Head(declared) \in Seq(Nat)
        BY <1>0, <2>1, <3>2, DiskIs DEF HeldBy, Frontier
      <4>2. Len(Last(stack)) \in Nat /\ Len(Head(declared)) \in Nat /\ MaxWalkDepth \in Nat
        BY <4>1, LenProperties, WalkAssumption
      <4> QED BY <2>2, <4>2 DEF Depth
    <3>4. ~AllTaken(disk)
      BY <3>1, <3>2, <3>3 DEF AllTaken, Takes
    <3> QED BY <1>0, <1>3, <2>2, <3>4 DEF LoaderInv, OpenDirectory
  <2>3. CASE ~(Depth(Last(stack), Head(declared)) > MaxWalkDepth)
    <3>1. Len(Last(stack)) - Len(Head(declared)) <= MaxWalkDepth
      <4>1. stack \in Seq(disk.dirs) /\ Head(declared) \in disk.dirs
        BY <2>1 DEF Frontier
      <4>2. Last(stack) \in Seq(Nat) /\ Head(declared) \in Seq(Nat)
        BY <1>0, <2>1, <4>1, HeldByFront, DiskIs DEF HeldBy
      <4>3. Len(Last(stack)) \in Nat /\ Len(Head(declared)) \in Nat /\ MaxWalkDepth \in Nat
        BY <4>2, LenProperties, WalkAssumption
      <4> QED BY <2>3, <4>3 DEF Depth
    <3>2. Frontier(disk, Head(declared), Front(stack), ChildrenIn(disk, Last(stack)), found)
      BY <1>0, <2>1, <3>1, FrontierOpens
    <3>3. /\ disk' = disk /\ pc' = pc /\ declared' = declared /\ sources' = sources /\ vectors' = vectors
          /\ found' = found /\ stack' = Front(stack) /\ entries' = ChildrenIn(disk, Last(stack))
          /\ failure' = failure
      BY <1>3, <2>3, LoaderTerms DEF OpenDirectory
    <3> QED BY <1>0, <2>1, <3>2, <3>3 DEF LoaderInv
  <2> QED BY <2>2, <2>3
<1>4. ASSUME NEW path \in entries, SeeEntry(path)
      PROVE  LoaderInv'
  <2>1. /\ pc = "walk" /\ declared # <<>> /\ Gathering(disk, declared, sources) /\ vectors = <<>>
        /\ Len(found) <= MaxVectors /\ Frontier(disk, Head(declared), stack, entries, found)
    BY <1>4 DEF SeeEntry, LoaderInv
  <2>2. /\ disk' = disk /\ declared' = declared /\ sources' = sources /\ vectors' = vectors
        /\ entries' = entries \ {path}
    BY <1>4 DEF SeeEntry
  <2>3. CASE SeeDirectory(path)
    <3>1. Frontier(disk, Head(declared), Append(stack, path), entries \ {path}, found)
      BY <1>0, <1>4, <2>1, <2>3, FrontierTurns DEF SeeDirectory
    <3> QED BY <1>0, <2>1, <2>2, <2>3, <3>1 DEF LoaderInv, SeeDirectory
  <2>4. CASE SeeVector(path) /\ Len(found) >= MaxVectors
    <3>1. Head(declared) \in TreesOf(disk)
      BY <2>1, HeldByTail DEF Gathering
    <3>2. ~Takes(disk, Head(declared))
      BY <1>0, <1>4, <2>1, <2>4, TooMany DEF SeeVector
    <3>3. ~AllTaken(disk)
      BY <3>1, <3>2 DEF AllTaken
    <3> QED BY <1>0, <2>1, <2>2, <2>4, <3>3 DEF LoaderInv, SeeVector
  <2>5. CASE SeeVector(path) /\ ~(Len(found) >= MaxVectors)
    <3>1. /\ Frontier(disk, Head(declared), stack, entries \ {path}, Append(found, path))
          /\ Len(Append(found, path)) = Len(found) + 1
      BY <1>0, <1>4, <2>1, <2>5, FrontierFinds DEF SeeVector
    <3>2. Len(Append(found, path)) <= MaxVectors
      <4>1. found \in Seq(DOMAIN disk.files)
        BY <2>1 DEF Frontier
      <4>2. Len(found) \in Nat /\ MaxVectors \in Nat
        BY <4>1, LenProperties, WalkAssumption
      <4> QED BY <2>5, <3>1, <4>2
    <3> QED BY <1>0, <2>1, <2>2, <2>5, <3>1, <3>2 DEF LoaderInv, SeeVector
  <2>6. CASE SeeOther(path)
    <3>1. Frontier(disk, Head(declared), stack, entries \ {path}, found)
      BY <1>0, <1>4, <2>1, <2>6, FrontierPasses DEF SeeOther
    <3> QED BY <1>0, <2>1, <2>2, <2>6, <3>1 DEF LoaderInv, SeeOther
  <2> QED BY <1>4, <2>3, <2>4, <2>5, <2>6 DEF SeeEntry
<1>5. ASSUME LeaveTree
      PROVE  LoaderInv'
  <2>1. /\ pc = "walk" /\ declared # <<>> /\ Gathering(disk, declared, sources) /\ vectors = <<>>
        /\ Len(found) <= MaxVectors /\ entries = {} /\ stack = <<>>
        /\ Frontier(disk, Head(declared), <<>>, {}, found)
    BY <1>5 DEF LeaveTree, LoaderInv
  <2>2. /\ ToSet(found) = FilesIn(disk, Head(declared))
        /\ Takes(disk, Head(declared)) <=> Len(found) \in 1..MaxVectors
    BY <1>0, <2>1, FrontierEnds
  <2>3. found \in Seq(DOMAIN disk.files) /\ Len(found) \in Nat /\ (found = <<>> <=> Len(found) = 0)
    <3>1. found \in Seq(DOMAIN disk.files)
      BY <2>1 DEF Frontier
    <3> QED BY <3>1, EmptySeq, LenProperties
  <2>4. CASE found = <<>>
    <3>1. Head(declared) \in TreesOf(disk)
      BY <2>1, HeldByTail DEF Gathering
    <3>2. ~AllTaken(disk)
      BY <2>2, <2>3, <2>4, <3>1 DEF AllTaken
    <3> QED BY <1>0, <1>5, <2>1, <2>4, <3>2 DEF LoaderInv, LeaveTree
  <2>5. CASE found # <<>>
    <3>1. Len(found) \in 1..MaxVectors
      BY <2>1, <2>3, <2>5, WalkAssumption
    <3>2. Gathering(disk, Tail(declared), sources \o found)
      BY <1>0, <2>1, <2>2, <2>3, <3>1, GatheringGoesOn
    <3> QED BY <1>0, <1>5, <2>1, <2>5, <3>2 DEF LoaderInv, LeaveTree
  <2> QED BY <2>4, <2>5
<1>6. ASSUME SortSources
      PROVE  LoaderInv'
  <2>1. /\ pc = "corpus" /\ declared = <<>> /\ Gathering(disk, <<>>, sources) /\ vectors = <<>>
        /\ disk' = disk /\ vectors' = vectors /\ pc' = "read"
    BY <1>6 DEF SortSources, LoaderInv
  <2>2. AllTaken(disk) /\ ToSet(sources) = GatheredOf(disk)
    BY <1>0, <2>1, GatheringEnds
  <2>3. sources' = Ordered(GatheredOf(disk), OrderOf(disk))
    BY <1>6, <2>2, LoaderTerms DEF SortSources, SortedSources
  <2>4. Reading(disk, sources', <<>>)
    BY <1>0, <2>3, ReadingStarts
  <2> QED BY <1>0, <2>1, <2>2, <2>4 DEF LoaderInv
<1>7. ASSUME ReadVector
      PROVE  LoaderInv'
  <2> DEFINE p == Head(sources)
  <2>1. /\ pc = "read" /\ sources # <<>> /\ AllTaken(disk) /\ Reading(disk, sources, vectors)
        /\ disk' = disk /\ sources' = Tail(sources)
    BY <1>7 DEF ReadVector, LoaderInv
  <2>2. /\ p \in DOMAIN disk.files
        /\ Skips(disk, p) => Reading(disk, Tail(sources), vectors)
        /\ ~Skips(disk, p) => Reading(disk, Tail(sources), Append(vectors, EntryOf(disk, p)))
    BY <1>0, <2>1, ReadingGoesOn
  <2>3. Append(vectors, EntryOf(disk, p)) \in Seq(EntriesOf(disk))
    BY <1>0, <2>2, PathsGrow
  <2>4. DoesNotApply(disk.files[p]) <=> Skips(disk, p)
    BY LoaderTerms
  <2>5. \/ vectors' = vectors /\ pc' = "failed" /\ failure'.at = "read"
        \/ vectors' = vectors /\ pc' = "read" /\ Skips(disk, p)
        \/ vectors' = Append(vectors, EntryOf(disk, p)) /\ pc' = "read" /\ ~Skips(disk, p)
    <3>1. CASE ~disk.files[p].parses
      BY <1>7, <2>1, <3>1 DEF ReadVector
    <3>2. CASE disk.files[p].parses /\ DoesNotApply(disk.files[p])
      BY <1>7, <2>1, <2>4, <3>2 DEF ReadVector
    <3>3. CASE disk.files[p].parses /\ ~DoesNotApply(disk.files[p])
      BY <1>7, <2>1, <2>4, <3>3 DEF ReadVector, EntryOf
    <3> QED BY <3>1, <3>2, <3>3
  <2> HIDE DEF p
  <2> QED BY <1>0, <2>1, <2>2, <2>3, <2>5 DEF LoaderInv
<1>8. ASSUME AdmitCorpus
      PROVE  LoaderInv'
  <2>1. /\ pc = "read" /\ sources = <<>> /\ AllTaken(disk) /\ Reading(disk, <<>>, vectors)
        /\ disk' = disk /\ vectors' = vectors
        /\ pc' = "admitted" \/ (pc' = "failed" /\ failure'.at = "validate")
    BY <1>8 DEF AdmitCorpus, LoaderInv
  <2>2. PathsOf(vectors) = Ordered(ApplyingOf(disk), OrderOf(disk))
    BY <1>0, <2>1, ReadingEnds
  <2> QED BY <1>0, <2>1, <2>2 DEF LoaderInv
<1> QED
  BY <1>1, <1>2, <1>3, <1>4, <1>5, <1>6, <1>7, <1>8 DEF Load

(* After the load, nothing that can still happen brings it back, or fails at a tree. *)
LEMMA LoaderRests ==
  ASSUME LoaderInv, UNCHANGED <<disk, walk, corpus>>,
         pc' \notin {"load", "corpus", "walk", "read", "admitted"},
         pc' = "failed" => failure'.at # "tree"
  PROVE  LoaderInv'
  BY DEF LoaderInv, walk, corpus

(* What is loaded is what the declared trees hold, and a refused walk met one that is not *)
(* acceptable.                                                                            *)
LEMMA LoadedAreTheTrees ==
  ASSUME LoaderInv
  PROVE  CorpusIsTheTrees
<1>1. \A root \in Trees : Acceptable(root) <=> Takes(disk, root)
  BY LoaderTerms
<1>2. (\A root \in Trees : Acceptable(root)) <=> AllTaken(disk)
  BY <1>1, LoaderTerms DEF AllTaken
<1>3. Applying = ApplyingOf(disk)
  BY LoaderTerms DEF Applying, ApplyingOf, GatheredOf
<1>4. pc = "admitted" =>
        [i \in DOMAIN vectors |-> vectors[i].path] = Ordered(Applying, PathOrder)
  BY <1>3, LoaderTerms DEF LoaderInv, PathsOf
<1>5. pc = "failed" /\ failure.at = "tree" => ~AllTaken(disk)
  BY DEF LoaderInv
<1>6. pc = "admitted" => AllTaken(disk)
  BY DEF LoaderInv
<1> QED
  BY <1>2, <1>4, <1>5, <1>6 DEF CorpusIsTheTrees
=============================================================================
