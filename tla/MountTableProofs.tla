--------------------------- MODULE MountTableProofs ---------------------------
(***************************************************************************)
(* Facts about paths and about the mounts that are moved and detached, for *)
(* every table of mounts.                                                  *)
(***************************************************************************)
EXTENDS MountTable, SequenceTheorems, WellFoundedInduction, TLAPS

(* The names of paths.  That a literal is one is listed, as the provers do *)
(* not know the elements of STRING.                                        *)
Names == STRING \union {"oldroot", "newroot", "dev", "pts", "proc", "sys",
                        "var", "volatile", "media"}
Paths == Seq(Names)

(* A table as in /proc/mounts: directories that are not below /oldroot.    *)
IsTable(table) ==
  /\ DOMAIN table \subseteq Nat
  /\ \A i \in DOMAIN table : table[i].dir \in Paths /\ ~Inside(table[i].dir, OldRoot)

(* After pivot_root() each mount is below the old root or where it was,    *)
(* and /newroot is the root.                                               *)
Carried(table, placed) ==
  /\ DOMAIN placed = DOMAIN table
  /\ \A i \in DOMAIN table :
       IF table[i].dir = Newroot THEN placed[i] = Root
       ELSE placed[i] \in {table[i].dir, OldRoot \o table[i].dir}

------------------------------------------------------------------------------
(* A path is inside a directory if it starts with the directory's names.   *)
LEMMA InsideNames ==
  ASSUME NEW p \in Paths, NEW d \in Paths
  PROVE  Inside(p, d) <=> Len(d) <= Len(p) /\ \A k \in 1 .. Len(d) : p[k] = d[k]
<1>1. Len(d) \in Nat /\ Len(p) \in Nat
  BY LenProperties DEF Paths
<1>2. SUFFICES ASSUME Len(d) <= Len(p)
               PROVE  SubSeq(p, 1, Len(d)) = d <=> \A k \in 1 .. Len(d) : p[k] = d[k]
  BY DEF Inside
<1>3. \A k \in 1 .. Len(d) : p[k] \in Names
  BY <1>1, <1>2, ElementOfSeq DEF Paths
<1> DEFINE s == SubSeq(p, 1, Len(d))
<1>4. s \in Paths /\ Len(s) = Len(d) /\ \A k \in 1 .. Len(d) : s[k] = p[k]
  <2>1. /\ s \in Seq(Names)
        /\ Len(s) = IF 1 <= Len(d) THEN Len(d) - 1 + 1 ELSE 0
        /\ \A k \in 1 .. Len(d) - 1 + 1 : s[k] = p[1 + k - 1]
    <3>1. 1 \in Int /\ Len(d) \in Int
      BY <1>1
    <3> QED
      BY <1>3, <3>1, SubSeqProperties
  <2> QED
    BY <1>1, <2>1 DEF Paths
<1> HIDE DEF s
<1>5. CASE \A k \in 1 .. Len(d) : p[k] = d[k]
  <2>1. s = d
    BY <1>1, <1>4, <1>5, SeqEqual DEF Paths
  <2> QED
    BY <1>5, <2>1 DEF s
<1>6. CASE s = d
  BY <1>4, <1>6 DEF s
<1> QED
  BY <1>5, <1>6 DEF s

(* A name is a path.                                                       *)
LEMMA NamePath ==
  ASSUME NEW S, NEW x \in S
  PROVE  <<x>> \in Seq(S) /\ Len(<<x>>) = 1 /\ <<x>>[1] = x
OBVIOUS

(* A path below the old root has one name more.                            *)
LEMMA OldRootNames ==
  ASSUME NEW d \in Paths
  PROVE  /\ OldRoot \in Paths /\ Len(OldRoot) = 1 /\ OldRoot[1] = "oldroot"
         /\ OldRoot \o d \in Paths /\ Len(OldRoot \o d) = Len(d) + 1
         /\ Len(d) \in Nat
         /\ (OldRoot \o d)[1] = "oldroot"
         /\ \A k \in 1 .. Len(d) : (OldRoot \o d)[k + 1] = d[k]
<1>1. OldRoot \in Paths /\ Len(OldRoot) = 1 /\ OldRoot[1] = "oldroot"
  <2>1. "oldroot" \in Names
    BY DEF Names
  <2> QED
    BY <2>1, NamePath DEF OldRoot, Paths
<1>2. Len(d) \in Nat
  BY LenProperties DEF Paths
<1>3. /\ OldRoot \o d \in Paths
      /\ Len(OldRoot \o d) = 1 + Len(d)
      /\ \A k \in 1 .. 1 + Len(d) : (OldRoot \o d)[k] = IF k <= 1 THEN OldRoot[k] ELSE d[k - 1]
  <2>1. OldRoot \in Seq(Names) /\ d \in Seq(Names)
    BY <1>1 DEF Paths
  <2>2. /\ OldRoot \o d \in Seq(Names)
        /\ Len(OldRoot \o d) = Len(OldRoot) + Len(d)
        /\ \A k \in 1 .. Len(OldRoot) + Len(d) : (OldRoot \o d)[k] =
                    IF k <= Len(OldRoot) THEN OldRoot[k] ELSE d[k - Len(OldRoot)]
    BY <2>1, ConcatProperties
  <2> QED
    BY <1>1, <2>2 DEF Paths
<1> QED
  BY <1>1, <1>2, <1>3

(* What starts with its name is inside the old root.                       *)
LEMMA StartsOldRoot ==
  ASSUME NEW p \in Paths, 1 <= Len(p), p[1] = "oldroot"
  PROVE  Inside(p, OldRoot)
<1>1. OldRoot \in Paths /\ Len(OldRoot) = 1 /\ OldRoot[1] = "oldroot"
  BY OldRootNames
<1>2. \A k \in 1 .. Len(OldRoot) : k = 1
  BY <1>1
<1>3. \A k \in 1 .. Len(OldRoot) : p[k] = OldRoot[k]
  BY <1>1, <1>2
<1> QED
  BY <1>1, <1>3, InsideNames

(* Below the old root the paths are inside each other as they were.        *)
LEMMA InsideOldRoot ==
  ASSUME NEW p \in Paths, NEW d \in Paths
  PROVE  /\ Inside(OldRoot \o p, OldRoot \o d) <=> Inside(p, d)
         /\ Inside(p, OldRoot \o d) => Inside(p, OldRoot)
         /\ Inside(OldRoot \o p, OldRoot) /\ OldRoot \o p # Root
         /\ ~Inside(Root, OldRoot \o d)
<1> DEFINE op == OldRoot \o p
           od == OldRoot \o d
<1>1. /\ OldRoot \in Paths /\ Len(OldRoot) = 1 /\ OldRoot[1] = "oldroot"
      /\ op \in Paths /\ Len(op) = Len(p) + 1 /\ op[1] = "oldroot" /\ Len(p) \in Nat
      /\ \A k \in 1 .. Len(p) : op[k + 1] = p[k]
      /\ od \in Paths /\ Len(od) = Len(d) + 1 /\ od[1] = "oldroot" /\ Len(d) \in Nat
      /\ \A k \in 1 .. Len(d) : od[k + 1] = d[k]
  BY OldRootNames
<1>2. Root \in Paths /\ Len(Root) = 0
  BY DEF Root, Paths
<1> HIDE DEF op, od
<1>3. Inside(op, od) <=> Len(od) <= Len(op) /\ \A k \in 1 .. Len(od) : op[k] = od[k]
  BY <1>1, InsideNames
<1>4. Inside(p, d) <=> Len(d) <= Len(p) /\ \A k \in 1 .. Len(d) : p[k] = d[k]
  BY InsideNames
<1>5. (\A k \in 1 .. Len(od) : op[k] = od[k]) <=> \A k \in 1 .. Len(d) : op[k + 1] = od[k + 1]
  <2>1. ASSUME \A k \in 1 .. Len(d) : op[k + 1] = od[k + 1], NEW k \in 1 .. Len(od)
        PROVE  op[k] = od[k]
    <3>1. CASE k = 1
      BY <1>1, <3>1
    <3>2. CASE k # 1
      <4>1. k - 1 \in 1 .. Len(d) /\ (k - 1) + 1 = k
        BY <1>1, <3>2
      <4> QED
        BY <2>1, <4>1
    <3> QED
      BY <3>1, <3>2
  <2>2. ASSUME \A k \in 1 .. Len(od) : op[k] = od[k], NEW k \in 1 .. Len(d)
        PROVE  op[k + 1] = od[k + 1]
    BY <1>1, <2>2
  <2> QED
    BY <2>1, <2>2
<1>6. Inside(op, od) <=> Inside(p, d)
  <2>1. CASE Len(d) <= Len(p)
    <3>1. \A k \in 1 .. Len(d) : op[k + 1] = p[k] /\ od[k + 1] = d[k]
      BY <1>1, <2>1
    <3> QED
      BY <1>1, <1>3, <1>4, <1>5, <2>1, <3>1
  <2>2. CASE ~(Len(d) <= Len(p))
    BY <1>1, <1>3, <1>4, <2>2
  <2> QED
    BY <2>1, <2>2
<1>7. Inside(p, od) => Inside(p, OldRoot)
  <2>1. Inside(p, od) => Len(od) <= Len(p) /\ p[1] = od[1]
    BY <1>1, InsideNames
  <2>2. Len(OldRoot) <= Len(p) /\ p[1] = OldRoot[1] => Inside(p, OldRoot)
    BY <1>1, StartsOldRoot
  <2> QED
    BY <1>1, <2>1, <2>2
<1>8. Inside(op, OldRoot)
  <2>1. Len(OldRoot) <= Len(op) /\ op[1] = OldRoot[1]
    BY <1>1
  <2> QED
    BY <1>1, <2>1, StartsOldRoot
<1>9. op # Root /\ ~Inside(Root, od)
  BY <1>1, <1>2, InsideNames
<1> QED
  BY <1>6, <1>7, <1>8, <1>9 DEF op, od

(* Without the old root it is the path that it was.                        *)
LEMMA RestOfOldRoot ==
  ASSUME NEW d \in Paths
  PROVE  Rest(OldRoot \o d, OldRoot) = d
<1> DEFINE o == OldRoot \o d
           r == SubSeq(o, 2, Len(o))
<1>1. /\ o \in Paths /\ Len(o) = Len(d) + 1 /\ Len(OldRoot) = 1 /\ Len(d) \in Nat
      /\ \A k \in 1 .. Len(d) : o[k + 1] = d[k]
  BY OldRootNames
<1>2. Rest(o, OldRoot) = r
  BY <1>1 DEF Rest
<1> HIDE DEF o
<1>3. \A k \in 2 .. Len(o) : o[k] \in Names
  BY <1>1, ElementOfSeq DEF Paths
<1>4. r \in Paths /\ Len(r) = Len(d) /\ \A k \in 1 .. Len(d) : r[k] = o[k + 1]
  <2>1. 2 \in Int /\ Len(o) \in Int
    BY <1>1
  <2>2. /\ r \in Seq(Names)
        /\ Len(r) = IF 2 <= Len(o) THEN Len(o) - 2 + 1 ELSE 0
        /\ \A k \in 1 .. Len(o) - 2 + 1 : r[k] = o[2 + k - 1]
    BY <1>3, <2>1, SubSeqProperties
  <2> QED
    BY <1>1, <2>2 DEF Paths
<1> HIDE DEF r
<1>5. r = d
  BY <1>1, <1>4, SeqEqual DEF Paths
<1> QED
  BY <1>2, <1>5 DEF o

------------------------------------------------------------------------------
(* A set of numbers has a least one.                                       *)
LEMMA LeastNumber ==
  ASSUME NEW T, T \subseteq Nat, T # {}
  PROVE  \E x \in T : \A y \in T : x <= y
<1>1. PICK x \in T : \A y \in T : ~(<<y, x>> \in OpToRel(<, Nat))
  BY NatLessThanWellFounded, WFMin
<1>2. \A y \in T : ~(y < x)
  BY <1>1 DEF OpToRel
<1>3. \A y \in T : y \in Nat /\ x \in Nat
  OBVIOUS
<1> QED
  BY <1>2, <1>3

(* Of a set of numbers up to N one is the greatest.                        *)
LEMMA GreatestNumber ==
  ASSUME NEW N \in Nat, NEW T, T \subseteq 1 .. N, T # {}
  PROVE  \E i \in T : \A j \in T : i >= j
<1> DEFINE late == {N - i : i \in T}
<1>1. late \subseteq Nat /\ late # {}
  <2>1. PICK i \in T : i \in 1 .. N
    OBVIOUS
  <2>2. \A j \in T : N - j \in Nat
    OBVIOUS
  <2> QED
    BY <2>1, <2>2
<1>2. PICK x \in late : \A y \in late : x <= y
  BY <1>1, LeastNumber
<1>3. PICK i \in T : x = N - i
  BY <1>2
<1>4. \A j \in T : N - i <= N - j /\ i \in Nat /\ j \in Nat
  BY <1>2, <1>3
<1> QED
  BY <1>4

(* A path lies on a mount if any is above it, as the root always is, and   *)
(* no mount above it is later.                                             *)
LEMMA OnMount ==
  ASSUME NEW table, NEW N \in Nat, DOMAIN table = 1 .. N,
         NEW path, NEW r \in DOMAIN table, Inside(path, table[r].dir)
  PROVE  /\ MountOf(table, path) \in DOMAIN table
         /\ Inside(path, table[MountOf(table, path)].dir)
         /\ MountOf(table, path) >= r
<1> DEFINE on == {i \in DOMAIN table : Inside(path, table[i].dir)}
           Last(i) == \A j \in on : i >= j
<1>1. \E i \in on : Last(i)
  <2>1. on \subseteq 1 .. N /\ on # {}
    OBVIOUS
  <2> HIDE DEF on
  <2> QED
    BY <2>1, GreatestNumber
<1>2. MountOf(table, path) = CHOOSE i \in on : Last(i)
  BY DEF MountOf
<1>3. r \in on
  OBVIOUS
<1> HIDE DEF Last
<1>4. MountOf(table, path) \in on /\ Last(MountOf(table, path))
  BY <1>1, <1>2
<1>5. MountOf(table, path) >= r
  BY <1>3, <1>4 DEF Last
<1> QED
  BY <1>4, <1>5

(* The image is not mounted at /newroot.                                   *)
LEMMA NewrootPath == Newroot \in Paths /\ Root \in Paths /\ Newroot # Root
<1>1. "newroot" \in Names
  BY DEF Names
<1> QED
  BY <1>1, NamePath DEF Newroot, Root, Paths

------------------------------------------------------------------------------
(* pivot_root() carries all mounts below the old root ...                  *)
LEMMA PivotCarries ==
  ASSUME NEW table
  PROVE  Carried(table, Pivoted(table))
BY DEF Carried, Pivoted

(* ... where the path of a mount still leads to it, if nothing covers it.  *)
LEMMA TopmostPlaced ==
  ASSUME NEW table, IsTable(table), NothingHidden(table),
         NEW placed, Carried(table, placed),
         NEW i \in DOMAIN table, placed[i] = OldRoot \o table[i].dir
  PROVE  i \in Topmost(placed, table[i].dir)
<1>1. DOMAIN placed = DOMAIN table
  BY DEF Carried
<1>2. ASSUME NEW j \in DOMAIN table, Hides(placed, j, i) PROVE FALSE
  <2>1. j > i /\ Below(placed[j], OldRoot) /\ Inside(OldRoot \o table[i].dir, placed[j])
    BY <1>2 DEF Hides
  <2>2. table[i].dir \in Paths /\ table[j].dir \in Paths /\ ~Inside(table[j].dir, OldRoot)
    BY DEF IsTable
  <2>3. placed[j] # Root
    <3>1. ~Inside(Root, OldRoot)
      BY DEF Root, OldRoot, Inside
    <3> QED
      BY <2>1, <3>1 DEF Below
  <2>4. placed[j] = OldRoot \o table[j].dir
    BY <2>1, <2>2, <2>3 DEF Carried, Below
  <2>5. Inside(table[i].dir, table[j].dir)
    BY <2>1, <2>2, <2>4, InsideOldRoot
  <2>6. table[j].dir # Root
    <3>1. OldRoot \o Root = OldRoot
      BY DEF Root, OldRoot
    <3> QED
      BY <2>1, <2>4, <3>1 DEF Below
  <2>7. i < j
    BY <2>1 DEF IsTable
  <2> QED
    BY <2>5, <2>6, <2>7 DEF NothingHidden
<1> QED
  BY <1>1, <1>2 DEF Topmost

(* What the path of a directory leads to was mounted there.                *)
LEMMA TopmostWas ==
  ASSUME NEW table, IsTable(table), NEW placed, Carried(table, placed),
         NEW d \in Paths, NEW i \in Topmost(placed, d)
  PROVE  i \in DOMAIN table /\ table[i].dir = d
<1>1. i \in DOMAIN table /\ placed[i] = OldRoot \o d
  BY DEF Topmost, Carried
<1>2. table[i].dir \in Paths /\ ~Inside(table[i].dir, OldRoot)
  BY <1>1 DEF IsTable
<1>3. placed[i] # Root /\ Inside(placed[i], OldRoot)
  BY <1>1, InsideOldRoot
<1>4. placed[i] = OldRoot \o table[i].dir
  BY <1>1, <1>2, <1>3 DEF Carried
<1>5. Rest(OldRoot \o d, OldRoot) = d /\ Rest(OldRoot \o table[i].dir, OldRoot) = table[i].dir
  BY <1>2, RestOfOldRoot
<1> QED
  BY <1>1, <1>4, <1>5

(* Moving takes some mounts back to their places, and no mount that is in  *)
(* its place away.  If none covers another, all in a directory that can be *)
(* moved are taken back.                                                   *)
LEMMA MoveCarries ==
  ASSUME NEW table, IsTable(table), NEW placed, Carried(table, placed),
         NEW dirs, dirs \subseteq Paths
  PROVE  /\ Carried(table, MovedToNew(table, placed, dirs))
         /\ \A i \in DOMAIN table :
              /\ table[i].dir # Newroot
              /\ \/ placed[i] = table[i].dir
                 \/ /\ NothingHidden(table)
                    /\ \E d \in dirs : /\ d # Root /\ CanMove(table, placed, d)
                                       /\ Inside(table[i].dir, d)
              => MovedToNew(table, placed, dirs)[i] = table[i].dir
<1> DEFINE movable == {d \in dirs : CanMove(table, placed, d)}
           moving == UNION {MovesWith(placed, d) : d \in movable}
           moved == MovedToNew(table, placed, dirs)
<1>1. /\ DOMAIN placed = DOMAIN table
      /\ DOMAIN moved = DOMAIN table
      /\ \A i \in DOMAIN table : moved[i] =
             IF i \in moving THEN Rest(placed[i], OldRoot) ELSE placed[i]
  BY DEF MovedToNew, Carried
<1>2. \A i \in DOMAIN table : table[i].dir \in Paths /\ ~Inside(table[i].dir, OldRoot)
  BY DEF IsTable
<1>3. \A i \in moving : \E d \in Paths : Inside(placed[i], OldRoot \o d)
  BY DEF MovesWith
<1> HIDE DEF moved, moving
<1>4. ASSUME NEW i \in DOMAIN table, table[i].dir = Newroot
      PROVE  moved[i] = Root
  <2>1. placed[i] = Root
    BY <1>4 DEF Carried
  <2>2. \A d \in Paths : ~Inside(Root, OldRoot \o d)
    BY InsideOldRoot
  <2> QED
    BY <1>1, <1>3, <2>1, <2>2
<1>5. ASSUME NEW i \in DOMAIN table, table[i].dir # Newroot, placed[i] = table[i].dir
      PROVE  moved[i] = table[i].dir
  <2>1. \A d \in Paths : ~Inside(placed[i], OldRoot \o d)
    BY <1>2, <1>5, InsideOldRoot
  <2> QED
    BY <1>1, <1>3, <1>5, <2>1
<1>6. ASSUME NEW i \in DOMAIN table, table[i].dir # Newroot, placed[i] = OldRoot \o table[i].dir
      PROVE  moved[i] = IF i \in moving THEN table[i].dir ELSE OldRoot \o table[i].dir
  <2>1. Rest(placed[i], OldRoot) = table[i].dir
    BY <1>2, <1>6, RestOfOldRoot
  <2> QED
    BY <1>1, <1>6, <2>1
<1>7. Carried(table, moved)
  BY <1>1, <1>4, <1>5, <1>6 DEF Carried
<1>8. ASSUME NEW i \in DOMAIN table, placed[i] = OldRoot \o table[i].dir,
             NothingHidden(table), NEW d \in dirs, d # Root,
             CanMove(table, placed, d), Inside(table[i].dir, d)
      PROVE  i \in moving
  <2>1. PICK k \in Topmost(placed, d) : TRUE
    BY <1>8 DEF CanMove
  <2>2. k \in DOMAIN table /\ table[k].dir = d
    BY <2>1, TopmostWas
  <2>3. ~(i < k)
    BY <1>8, <2>2 DEF NothingHidden
  <2>4. i >= k
    BY <2>2, <2>3 DEF IsTable
  <2>5. Inside(placed[i], OldRoot \o d)
    BY <1>2, <1>8, InsideOldRoot
  <2>6. i \in MovesWith(placed, d)
    BY <1>1, <2>1, <2>4, <2>5 DEF MovesWith
  <2> QED
    BY <1>8, <2>6 DEF moving
<1>9. ASSUME NEW i \in DOMAIN table, table[i].dir # Newroot,
             \/ placed[i] = table[i].dir
             \/ /\ NothingHidden(table)
                /\ \E d \in dirs : /\ d # Root /\ CanMove(table, placed, d)
                                   /\ Inside(table[i].dir, d)
      PROVE  moved[i] = table[i].dir
  <2>1. placed[i] \in {table[i].dir, OldRoot \o table[i].dir}
    BY <1>9 DEF Carried
  <2> QED
    BY <1>5, <1>6, <1>8, <1>9, <2>1
<1> QED
  BY <1>7, <1>9 DEF moved

(* Once it is back in its place a mount is not detached, as only those     *)
(* below the old root are; every one of these is that was listed.          *)
LEMMA DetachesListed ==
  ASSUME NEW table, IsTable(table), NEW placed, Carried(table, placed),
         NEW dirs, dirs \subseteq Paths
  PROVE  /\ DOMAIN Detached(placed, dirs) \subseteq DOMAIN table
         /\ \A i \in DOMAIN Detached(placed, dirs) :
              /\ Detached(placed, dirs)[i] = placed[i]
              /\ table[i].dir # Newroot /\ table[i].dir \in dirs => placed[i] = table[i].dir
         /\ \A i \in DOMAIN table :
              placed[i] = table[i].dir => i \in DOMAIN Detached(placed, dirs)
<1> DEFINE gone == {i \in DOMAIN placed : \E d \in dirs :
                      /\ Inside(placed[i], OldRoot \o d)
                      /\ \E j \in DOMAIN placed : placed[j] = OldRoot \o d}
<1>1. Detached(placed, dirs) = [i \in DOMAIN placed \ gone |-> placed[i]]
  BY DEF Detached
<1>2. DOMAIN placed = DOMAIN table
  BY DEF Carried
<1>3. \A i \in DOMAIN table : table[i].dir \in Paths /\ ~Inside(table[i].dir, OldRoot)
  BY DEF IsTable
<1>4. ASSUME NEW i \in DOMAIN table, placed[i] = table[i].dir PROVE i \notin gone
  BY <1>3, <1>4, InsideOldRoot
<1>5. ASSUME NEW i \in DOMAIN table, table[i].dir # Newroot, table[i].dir \in dirs,
             placed[i] # table[i].dir
      PROVE  i \in gone
  <2>1. placed[i] = OldRoot \o table[i].dir
    BY <1>5 DEF Carried
  <2>2. Inside(table[i].dir, table[i].dir)
    BY <1>3, InsideNames, LenProperties DEF Paths
  <2>3. Inside(placed[i], OldRoot \o table[i].dir)
    BY <1>3, <2>1, <2>2, InsideOldRoot
  <2> QED
    BY <1>2, <1>5, <2>1, <2>3
<1> HIDE DEF gone
<1> QED
  BY <1>1, <1>2, <1>4, <1>5
==============================================================================
