------------------------------ MODULE EfsImage ------------------------------
(***************************************************************************)
(* Writing and rewriting an EFS volume without IRIX: EFSBuilder of         *)
(* analysis_tools/tar2efs.py lays a tree of files out on a volume, and     *)
(* fs_inject() of sgi_mcp/sgi_fs.py adds a file to one by reading all of   *)
(* it, building it again and writing it back.  The reader is sgi_fs.py's.  *)
(*                                                                         *)
(* A path is a number, in the order in which the code sorts paths; its     *)
(* last component is the path itself.  Sizes are in units, BlockSize of    *)
(* them to a block; a block of a file is its source and number, so that    *)
(* two blocks are equal when their bytes are.  Owners, modes and times are *)
(* left out.                                                               *)
(***************************************************************************)
EXTENDS Integers, Sequences, FiniteSets, FiniteSetsExt, SequencesExt

CONSTANTS
  Paths, Parent,    \* Root and the paths below it; the folder of each
  Sizes,            \* sizes of regular files
  BlockSize, EntriesPerBlock, BitsPerBlock,
  InodesPerBlock,   \* EFS_INODES_PER_BLOCK
  InodesPerCg,      \* 32
  InodeSlack,       \* 100
  MinCgData,        \* 100
  CgSlack,          \* 50
  MaxExtents,       \* EFS_MAX_EXTENTS: the extents an inode has room for
  MaxExtentLength,  \* EFS_MAX_EXTENT_LENGTH
  Megabyte,         \* in blocks
  PartSizes,        \* sizes of the partition
  MaxInjects        \* bound

Root == 0
RootInode == 2      \* EFS_ROOT_INODE
InodeBlocks == InodesPerCg \div InodesPerBlock

ASSUME EfsConstants ==
  /\ Paths = 0..(Cardinality(Paths) - 1) /\ IsFiniteSet(Paths) /\ Root \in Paths
  /\ Parent \in [Paths \ {Root} -> Paths]
  /\ \A p \in Paths \ {Root} : Parent[p] < p
  /\ Sizes \subseteq Nat /\ PartSizes \subseteq Nat
  /\ {BlockSize, EntriesPerBlock, BitsPerBlock, InodesPerBlock, InodeBlocks,
      MinCgData, CgSlack, MaxExtents, MaxExtentLength, Megabyte} \subseteq Nat \ {0}
  /\ InodesPerCg = InodeBlocks * InodesPerBlock
  /\ InodeSlack \in Nat /\ InodeSlack >= RootInode /\ MaxInjects \in Nat

VARIABLES
  efsPhase,   \* "none", "idle", "build" or "alloc"
  partSize, limit,   \* the partition, and what the builder may use of it
  geo,        \* self.geometry
  tree,       \* tree[p]: what the builder was given at p
  injecting,  \* the build is fs_inject()'s
  goal, losing, \* history: what the build should make of want and lost
  todo,       \* objects that have yet to be written
  cur, remain,\* the object being written, and its blocks still to come
  nextBlock,  \* next_data_block
  extents,    \* extents[p]
  image,      \* the blocks of the file being written
  used,       \* block_bitmap
  volume,     \* what the partition holds
  want,       \* history: what it should hold
  lost,       \* history: paths known not to be held
  injects     \* how many times fs_inject() was called

buildVars == <<limit, geo, tree, injecting, goal, losing, todo, cur, remain, nextBlock, extents, image, used>>
efsVars == <<efsPhase, partSize, volume, want, lost, injects, buildVars>>

-----------------------------------------------------------------------------
(* The tree *)

CeilDiv(a, b) == (a + b - 1) \div b
Blocks(size) == CeilDiv(size, BlockSize)

NoObject == [kind |-> "none", size |-> 0, data |-> <<>>]
Folder   == [kind |-> "dir", size |-> 0, data |-> <<>>]
Device   == [kind |-> "dev", size |-> 0, data |-> <<>>]
File(kind, size, source) ==
  [kind |-> kind, size |-> size, data |-> [k \in 1..Blocks(size) |-> [source |-> source, number |-> k]]]

(* Where a link leads is not part of it: see Inject.                       *)
Objects(p) ==
  {NoObject, Folder, Device, File("link", 1, <<p, 0>>)}
    \cup {File("reg", s, <<p, 0>>) : s \in Sizes}

(* _ensure_parent_dirs() gives every path its folders.                     *)
IsTree(t) ==
  /\ t[Root] = Folder
  /\ \A p \in Paths \ {Root} : t[p] # NoObject => t[Parent[p]] = Folder
Trees == {t \in [Paths -> UNION {Objects(p) : p \in Paths}] :
            IsTree(t) /\ \A p \in Paths : t[p] \in Objects(p)}

Present(t)     == {p \in Paths : t[p] # NoObject}
FoldersOf(t)     == {p \in Paths : t[p] = Folder}
Children(t, d) == {p \in Present(t) \ {Root} : Parent[p] = d}

(* allocate_inodes(): folders in order, then files in order.               *)
InodeOf(t, p) ==
  LET before == {q \in FoldersOf(t) : q < p}
  IN  IF p \in FoldersOf(t) THEN RootInode + Cardinality(before)
      ELSE RootInode + Cardinality(FoldersOf(t))
                     + Cardinality({q \in Present(t) \ FoldersOf(t) : q < p})

-----------------------------------------------------------------------------
(* The layout: boot block, superblock, bitmap, then the cylinder groups,   *)
(* each with its inodes first.  The bitmap is sized for the layout before  *)
(* it is cut down to the limit.                                            *)
FileData(t) == LET Bytes(p) == IF t[p].kind = "reg" THEN t[p].size ELSE 0
               IN  MapThenSumSet(Bytes, Paths)

Fitting(first, ncg, size, max) ==
  IF first + ncg * size > max THEN (max - first) \div ncg ELSE size

Geometry(t, max) ==
  LET ncg   == Max({1, CeilDiv(Cardinality(Present(t)) + InodeSlack, InodesPerCg)})
      size  == InodeBlocks
                 + Max({MinCgData, CeilDiv(Blocks(FileData(t)), ncg) + CgSlack})
      Start(total) == 2 + CeilDiv(total, BitsPerBlock)
      first == Start(Start(5 + ncg * size + 1) + ncg * size)
      fit   == Fitting(first, ncg, size, max)
  IN  [ncg |-> ncg, first |-> first, size |-> fit, total |-> first + ncg * fit]

GroupStart(g, c) == g.first + c * g.size
GroupOf(g, pos)  == (pos - g.first) \div g.size
InodeArea(g) == UNION {GroupStart(g, c)..(GroupStart(g, c) + InodeBlocks - 1) : c \in 0..(g.ncg - 1)}
Reserved(g)  == 0..(g.first - 1) \cup InodeArea(g)
(* What a folder's blocks hold, "." and ".." included in the count.        *)
FolderBlocks(t, d) == CeilDiv(2 + Cardinality(Children(t, d)), EntriesPerBlock)
FolderBlock(t, d, k) ==
  LET Place(p) == 2 + Cardinality({q \in Children(t, d) : q <= p})
      mine == {p \in Children(t, d) : CeilDiv(Place(p), EntriesPerBlock) = k}
  IN  [entries |-> {<<p, InodeOf(t, p)>> : p \in mine}]

Needed(t, p) ==
  IF p \in FoldersOf(t) THEN FolderBlocks(t, p) ELSE Len(t[p].data)
Block(t, p, k) == IF p \in FoldersOf(t) THEN FolderBlock(t, p, k) ELSE t[p].data[k]

Span(e) == e.bn..(e.bn + e.length - 1)   \* the blocks of an extent

Zero == [zero |-> TRUE]
Superblock == [superblock |-> TRUE]

-----------------------------------------------------------------------------
(* The inode table.  The builder writes inode n into the n-th slot; the    *)
(* reader looks for it in the group, block and slot it computes from n.    *)
SlotFromRoot(c, b, s) == RootInode + c * InodesPerCg + b * InodesPerBlock + s  \* a mistake
SlotNumber(c, b, s) == c * InodesPerCg + b * InodesPerBlock + s
SlotOf(n) == <<n \div (InodeBlocks * InodesPerBlock),
               (n \div InodesPerBlock) % InodeBlocks, n % InodesPerBlock>>

NoInode == [kind |-> "none"]

(* pack() writes the first MaxExtents extents, whatever their number.      *)
Inode(t, p, ext) ==
  [kind |-> t[p].kind,
   size |-> IF p \in FoldersOf(t) THEN FolderBlocks(t, p) * BlockSize ELSE t[p].size,
   count |-> Len(ext), ext |-> SubSeq(ext, 1, Min({Len(ext), MaxExtents}))]

InodeTable(t, g, ext) ==
  [s \in (0..(g.ncg - 1)) \X (0..(InodeBlocks - 1)) \X (0..(InodesPerBlock - 1)) |->
     LET mine == {p \in Present(t) : InodeOf(t, p) = SlotNumber(s[1], s[2], s[3])}
     IN  IF mine = {} THEN NoInode ELSE LET p == Min(mine) IN Inode(t, p, ext[p])]

-----------------------------------------------------------------------------
(* The reader *)

ReadInode(v, n) ==
  IF SlotOf(n) \in DOMAIN v.inodes THEN v.inodes[SlotOf(n)] ELSE NoInode

(* _efs_get_all_extents(): an inode with more extents than fit is taken to *)
(* have them in indirect blocks, as many as its first extent's offset      *)
(* says, which is 0 for an extent of the builder.                          *)
ExtentsOf(i) == IF i.count <= MaxExtents THEN i.ext ELSE <<>>

BlocksOf(v, i) ==
  LET Contents(e) == [k \in 1..e.length |-> v.image[e.bn + k - 1]]
      ext == ExtentsOf(i)
  IN  FlattenSeq([j \in 1..Len(ext) |-> Contents(ext[j])])

DirEntries(v, i) ==
  LET blocks == ToSet(BlocksOf(v, i))
  IN  UNION {b.entries : b \in {x \in blocks : DOMAIN x = {"entries"}}}

Content(v, i) ==
  LET blocks == BlocksOf(v, i)
      size   == Min({i.size, Len(blocks) * BlockSize})
  IN  [kind |-> i.kind, size |-> size, data |-> SubSeq(blocks, 1, Blocks(size))]

(* The inode number at each path, or 0.                                    *)
Resolved(v) ==
  LET number[p \in Paths] ==
        IF p = Root THEN RootInode
        ELSE LET up   == ReadInode(v, number[Parent[p]])
                 here == IF up.kind = "dir" THEN {e[2] : e \in {x \in DirEntries(v, up) : x[1] = p}}
                         ELSE {}
             IN  IF number[Parent[p]] = 0 \/ here = {} THEN 0 ELSE Min(here)
  IN  number

Reads(v) ==
  LET number == Resolved(v)
      At(p) == IF number[p] = 0 THEN NoInode ELSE ReadInode(v, number[p])
  IN  [p \in Paths |-> LET i == At(p)
                       IN  CASE i.kind = "none"         -> NoObject
                             [] i.kind \in {"dir", "dev"} -> [Folder EXCEPT !.kind = i.kind]
                             [] OTHER                   -> Content(v, i)]

-----------------------------------------------------------------------------
NoGeometry == [ncg |-> 0, first |-> 0, size |-> 0, total |-> 0]
NoVolume == [geo |-> NoGeometry]
Blank(g) == [b \in 0..(g.total - 1) |-> Zero]

EfsInit ==
  /\ efsPhase = "none" /\ partSize = 0 /\ limit = 0 /\ geo = NoGeometry /\ injecting = FALSE
  /\ tree = [p \in Paths |-> NoObject] /\ want = tree
  /\ todo = {} /\ cur = Root /\ remain = 0 /\ nextBlock = 0
  /\ extents = [p \in Paths |-> <<>>] /\ image = <<>> /\ used = {}
  /\ goal = want /\ losing = {} /\ volume = NoVolume /\ lost = {} /\ injects = 0

(* build(): geometry, inode numbers and the reserved part of the bitmap.   *)
BuildStart(t, max, forInject) ==
  LET g == Geometry(t, max)
  IN  /\ efsPhase' = "build" /\ tree' = t /\ limit' = max /\ geo' = g
      /\ injecting' = forInject
      /\ todo' = Present(t) /\ cur' = Root /\ remain' = 0
      /\ nextBlock' = g.first + InodeBlocks
      /\ extents' = [p \in Paths |-> <<>>]
      /\ image' = Blank(g)
      /\ used' = Reserved(g)

(* tar2efs(): a new volume from an archive.                                *)
Convert ==
  /\ efsPhase = "none"
  /\ \E t \in Trees, size \in PartSizes :
       /\ partSize' = size /\ goal' = t /\ losing' = {}
       /\ BuildStart(t, size, FALSE)
  /\ UNCHANGED <<volume, want, lost, injects>>

(* What the host's directory holds after _efs_extract_recursive(), which   *)
(* leaves devices out.                                                     *)
Extracted(v) ==
  LET found == Reads(v)
  IN  [p \in Paths |-> CASE p = Root -> Folder
                         [] p # Root /\ found[p].kind = "dev" -> NoObject
                         [] OTHER -> found[p]]

(* os.walk() lists a link to a directory as a directory, and stays out.    *)
Walked(t, dirs) == [p \in Paths |-> IF p \in dirs THEN Folder ELSE t[p]]

Above[p \in Paths] == IF p = Root THEN {} ELSE {Parent[p]} \cup Above[Parent[p]]
Added(t, p, o) ==
  [q \in Paths |-> IF q = p THEN o ELSE IF q \in Above[p] THEN Folder ELSE t[q]]

(* Where the host can create or overwrite a file without meeting a link.   *)
Writable(t, p) ==
  t[p].kind \in {"none", "reg"} /\ \A q \in Above[p] : t[q] \in {Folder, NoObject}

(* fs_inject().  dirs are the links that lead to a directory of the host.  *)
(* makedirs() and open() follow links: the file is then written at another *)
(* path of the tree, or out of it, or the host raises, as it does for a    *)
(* path below a file or that of a folder.                                  *)
Inject ==
  /\ efsPhase = "idle" /\ injects < MaxInjects
  /\ injects' = injects + 1
  /\ LET t     == Extracted(volume)
         links == {q \in Paths : t[q].kind = "link"}
         max   == Max({Megabyte, (partSize \div Megabyte) * Megabyte})
     IN  \E p \in Paths, size \in Sizes, dirs \in SUBSET links :
           LET o       == File("reg", size, <<p, injects'>>)
               walked  == Walked(t, dirs)
               changed == {q \in Paths : want[q].kind = "dev"} \cup dirs
               follows == /\ p \notin dirs /\ ({p} \cup Above[p]) \cap links # {}
                          /\ Above[p] \cap links \subseteq dirs
           IN  \/ /\ ~Writable(t, p)
                  /\ UNCHANGED <<efsPhase, buildVars>>
               \/ /\ Writable(t, p)
                  /\ BuildStart(Added(walked, p, o), max, TRUE)
                  /\ goal' = Added(want, p, o)
                  /\ losing' = (lost \cup changed) \ ({p} \cup Above[p])
               \/ /\ follows
                  /\ BuildStart(walked, max, TRUE)
                  /\ goal' = want /\ losing' = lost \cup changed \cup {p}
               \/ /\ follows
                  /\ \E q \in Paths :
                       /\ Writable(t, q)
                       /\ BuildStart(Added(walked, q, o), max, TRUE)
                       /\ goal' = Added(want, q, o)
                       /\ losing' = lost \cup changed \cup {p, q}
  /\ UNCHANGED <<partSize, volume, want, lost>>

(* _write_image(): the next object; folders come first.                    *)
NextObject ==
  LET folders == todo \cap FoldersOf(tree)
      p == Min(IF folders # {} THEN folders ELSE todo)
  IN  /\ efsPhase = "build" /\ todo # {}
      /\ todo' = todo \ {p} /\ cur' = p /\ remain' = Needed(tree, p)
      /\ efsPhase' = IF remain' = 0 THEN "build" ELSE "alloc"
      /\ UNCHANGED <<partSize, volume, want, lost, injects, limit, geo, tree, injecting,
                     goal, losing, nextBlock, extents, image, used>>

(* _allocate_blocks(), one round of its loop.                              *)
SkipInodes(pos) ==
  IF (pos - geo.first) % geo.size < InodeBlocks
  THEN GroupStart(geo, GroupOf(geo, pos)) + InodeBlocks ELSE pos

AcrossGroups(pos) == Min({remain, MaxExtentLength, geo.total - pos})   \* a mistake
ExtentLength(pos) ==
  Min({GroupStart(geo, GroupOf(geo, pos) + 1) - pos, remain,
       MaxExtentLength, geo.total - pos})

Extend ==
  LET pos    == SkipInodes(nextBlock)
      length == ExtentLength(pos)
      done   == Needed(tree, cur) - remain
  IN  /\ efsPhase = "alloc" /\ pos < geo.total
      /\ extents' = [extents EXCEPT ![cur] = Append(@, [bn |-> pos, length |-> length])]
      /\ image' = [b \in DOMAIN image |-> IF b \in pos..(pos + length - 1)
                                          THEN Block(tree, cur, done + b - pos + 1)
                                          ELSE image[b]]
      /\ used' = used \cup pos..(pos + length - 1)
      /\ nextBlock' = pos + length
      /\ remain' = remain - length
      /\ efsPhase' = IF remain' = 0 THEN "build" ELSE "alloc"
      /\ UNCHANGED <<partSize, volume, want, lost, injects, limit, geo, tree, injecting,
                     goal, losing, todo, cur>>

(* The file system is full: the rest of the object is dropped.             *)
Full ==
  /\ efsPhase = "alloc" /\ SkipInodes(nextBlock) >= geo.total
  /\ efsPhase' = "build" /\ remain' = 0 /\ nextBlock' = SkipInodes(nextBlock)
  /\ losing' = losing \cup {cur}
  /\ UNCHANGED <<partSize, volume, want, lost, injects, limit, geo, tree, injecting, goal,
                 todo, cur, extents, image, used>>

(* The inode table, the bitmap and both superblocks; the second one goes   *)
(* into the last block whatever it holds.                                  *)
Replica == geo.total - 1
Owners(b) == {p \in Paths : \E i \in 1..Len(extents[p]) : b \in Span(extents[p][i])}
Unindexed == {p \in Paths : Len(extents[p]) > MaxExtents}

Built == [geo |-> geo, inodes |-> InodeTable(tree, geo, extents), used |-> used,
          image |-> [image EXCEPT ![1] = Superblock, ![Replica] = Superblock]]

Finish ==
  LET gone == losing \cup Unindexed \cup Owners(Replica)
  IN  /\ efsPhase = "build" /\ todo = {}
      /\ efsPhase' = "idle"
      /\ IF injecting /\ geo.total > partSize   \* "exceeds partition size"
         THEN UNCHANGED <<volume, want, lost>>
         ELSE /\ volume' = Built /\ want' = goal
              /\ lost' = {p \in Paths : ({p} \cup Above[p]) \cap gone # {}}
      /\ limit' = 0 /\ geo' = NoGeometry /\ tree' = [p \in Paths |-> NoObject] /\ injecting' = FALSE
      /\ goal' = tree' /\ losing' = {}
      /\ cur' = Root /\ nextBlock' = 0 /\ extents' = [p \in Paths |-> <<>>]
      /\ image' = <<>> /\ used' = {}
      /\ UNCHANGED <<partSize, injects, todo, remain>>

EfsNext ==
  \/ Convert \/ Inject
  \/ NextObject \/ Extend \/ Full \/ Finish

EfsSpec == EfsInit /\ [][EfsNext]_efsVars
EfsFairness == WF_efsVars(NextObject \/ Extend \/ Full \/ Finish)

-----------------------------------------------------------------------------
(* Safety.                                                                 *)

IsObject(o) ==
  /\ o.kind \in {"none", "dir", "dev", "reg", "link"}
  /\ o.size \in Nat /\ Len(o.data) <= Blocks(o.size)

EfsTypeOK ==
  /\ efsPhase \in {"none", "idle", "build", "alloc"}
  /\ injecting \in BOOLEAN /\ injects \in 0..MaxInjects
  /\ \A t \in {tree, want, goal} : DOMAIN t = Paths /\ \A p \in Paths : IsObject(t[p])
  /\ todo \subseteq Paths /\ cur \in Paths /\ lost \subseteq Paths /\ losing \subseteq Paths
  /\ remain \in Nat /\ (remain > 0) = (efsPhase = "alloc")
  /\ efsPhase \in {"build", "alloc"} =>
       /\ geo.total <= limit /\ geo.size > InodeBlocks
       /\ DOMAIN image = 0..(geo.total - 1) /\ used \subseteq DOMAIN image

(* A volume's blocks have one owner: what one extent of an inode names     *)
(* belongs to no other extent, no other inode and no inode table, lies     *)
(* inside the volume, and is marked in the bitmap (_allocate_blocks()      *)
(* never sees the bitmap).                                                 *)
Named(i) == UNION {Span(i.ext[j]) : j \in 1..Len(i.ext)}
Slots(v) == {s \in DOMAIN v.inodes : v.inodes[s] # NoInode}

BlocksExclusive ==
  volume # NoVolume =>
    \A s \in Slots(volume) :
      LET ext  == volume.inodes[s].ext
          mine == Named(volume.inodes[s])
      IN  /\ mine \subseteq volume.used \ Reserved(volume.geo)
          /\ mine \subseteq 0..(volume.geo.total - 1)
          /\ \A j, k \in 1..Len(ext) : j # k => Span(ext[j]) \cap Span(ext[k]) = {}
          /\ \A other \in Slots(volume) \ {s} : mine \cap Named(volume.inodes[other]) = {}

(* A volume holds what it was given, byte for byte, through any number of  *)
(* injections, except for what the code is known to lose: what the full    *)
(* volume had no room for, what the second superblock overwrote, files of  *)
(* more than MaxExtents extents, devices and links to directories once a   *)
(* file was injected, a file whose path goes through a link, and the one   *)
(* that it overwrites where the link leads.                                *)
HoldsTheRest ==
  volume # NoVolume => \A p \in Paths \ lost : Reads(volume)[p] = want[p]

(* The same without exceptions: what tar2efs.py:470 says of file content.  *)
HoldsAll == volume # NoVolume => Reads(volume) = want

(* verify_efs() has nothing to report on a volume of the builder unless a  *)
(* folder's last block (or that of a link to one, once a file was          *)
(* injected) became the second superblock.  It divides the inode blocks by *)
(* the inodes of a block, and so looks at a part of them only.             *)
Verified(v) ==
  LET part == InodeBlocks \div InodesPerBlock
      Areas == UNION {GroupStart(v.geo, c)..(GroupStart(v.geo, c) + part - 1) :
                        c \in 0..(v.geo.ncg - 1)}
  IN  /\ v.geo.total = v.geo.first + v.geo.ncg * v.geo.size
      /\ \A s \in {x \in Slots(v) : x[2] < part} :
           LET i == v.inodes[s]
           IN  /\ i.kind = "dir" => i.size % BlockSize = 0
               /\ \A j \in 1..Len(i.ext) : i.ext[j].length > 0
               /\ Named(i) \subseteq DOMAIN v.image \ Areas
               /\ i.kind = "dir" => \A b \in Named(i) : DOMAIN v.image[b] = {"entries"}
VerifyClean ==
  volume # NoVolume =>
    Verified(volume) \/ \E p \in lost : want[p].kind \in {"dir", "link"}

(* _allocate_blocks() and with it every build ends, however little room    *)
(* there is.                                                               *)
Building  == efsPhase \in {"build", "alloc"}
BuildEnds == Building ~> efsPhase = "idle"

(* The blocks of a volume are shared out once, whoever then looks at them, *)
(* and it holds what it was given.                                         *)
VolumeSound == BlocksExclusive /\ VerifyClean /\ HoldsTheRest
=============================================================================
