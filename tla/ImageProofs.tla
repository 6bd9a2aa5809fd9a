---------------------------- MODULE ImageProofs -----------------------------
(***************************************************************************)
(* What the disk images and their catalog keep.                            *)
(*                                                                         *)
(* LibraryScan: the index of a root is true after a scan that nothing      *)
(* disturbed, a scan that others disturb keeps what was there all the      *)
(* time, and a staged copy is whole: for any files, folders, roots, sizes  *)
(* and tolerance, and any number of scans, stagings, changes and deaths.   *)
(*                                                                         *)
(* VmInstances: as long as one call follows another, manifests and disks   *)
(* fit together: for any instances and snapshots, any number of calls, and *)
(* whichever of them fail half way.                                        *)
(*                                                                         *)
(* EfsImage: a volume that was built or rewritten has one owner to a       *)
(* block, passes verify_efs() and holds what it was given: for any paths,  *)
(* trees, sizes, extent and group limits, and any number of injections, as *)
(* long as the partition has room for more than its inodes.                *)
(***************************************************************************)
EXTENDS LibraryScan, VmInstances, EfsImage, SequenceTheorems, FiniteSetTheorems,
        WellFoundedInduction, TLAPS

-----------------------------------------------------------------------------
(* LibraryScan: the inductive invariant.                                   *)

LibTypes ==
  /\ onMount \in [LibPaths -> {NoFile} \union LibFile]
  /\ index \in [LibPaths -> {NoFile} \union LibFile]
  /\ libEntries \in [LibPaths -> {NoFile} \union LibFile]
  /\ unreadable \subseteq Folders /\ root \subseteq Folders /\ toList \subseteq root
  /\ libPc \in {"idle", "walk", "remove"}
  /\ seenPaths \subseteq LibPaths /\ listed \subseteq LibPaths /\ steady \subseteq LibPaths
  /\ staged \in [LibNames -> {NoFile} \union LibCopy]
  /\ given \in {NoFile} \union [copy : LibCopy, wanted : LibCopy]
  /\ changes \in Nat /\ settled \in BOOLEAN

(* A version is one content, written once: what the index or a scan has of *)
(* a version that is on the mount is what is there.                        *)
KnownVersion(p, e) ==
  e # NoFile => /\ e.version <= changes
                /\ There(p) /\ onMount[p].version = e.version => e = onMount[p]

Versions ==
  \A p \in LibPaths :
    /\ There(p) => onMount[p].version <= changes
    /\ KnownVersion(p, index[p]) /\ KnownVersion(p, libEntries[p])

(* A steady file is on the way to being seen, from the scan's beginning on *)
Covered(p) == FolderOf[p] \in toList \/ p \in listed \/ p \in seenPaths

SteadySeen ==
  /\ \A p \in steady : Readable(p) /\ FolderOf[p] \in root
  /\ libPc # "idle" => \A p \in steady : Covered(p)
  /\ libPc = "remove" => toList = {} /\ listed = {}

(* As long as nothing has changed, the steady files are all there are, and *)
(* the scan has seen, or is about to look at, nothing else.                *)
SettledScan ==
  libPc # "idle" /\ settled =>
    /\ \A p \in LibPaths : Readable(p) /\ FolderOf[p] \in root => p \in steady
    /\ listed \subseteq steady /\ seenPaths \subseteq steady

(* The entry of a file is the file or, within the tolerance, another.      *)
Current(p) ==
  /\ index[p] # NoFile
  /\ \/ index[p] = onMount[p]
     \/ /\ index[p].version # onMount[p].version
        /\ onMount[p].mtime - index[p].mtime \in (-Tolerance)..Tolerance

Wanted(p) == onMount[p].size # Tiny

SettledEntries ==
  /\ libPc = "walk" /\ settled => \A p \in LibPaths :
       libEntries[p] = IF p \in seenPaths /\ Wanted(p) /\ NeedsRescan(p)
                       THEN onMount[p] ELSE NoFile
  /\ libPc = "remove" /\ settled => \A p \in seenPaths : Wanted(p) => Current(p)

LibInv ==
  /\ LibTypes /\ Versions /\ SteadySeen /\ SettledScan /\ SettledEntries
  /\ IndexTrue /\ StagedWhole

(* The types: files come from the mount, copies from files.                *)
LEMMA LibTypesKept ==
  ASSUME LibraryConstants, LibInv, LibNext
  PROVE  LibTypes'
<1> USE LibraryConstants, LibInv DEF LibInv, LibTypes, mountVars, scanVars, walkVars,
      LibraryConstants
<1>1. ASSUME NEW r \in LibRoots, ScanRoot(r)
      PROVE  LibTypes'
  BY <1>1 DEF ScanRoot, Nothing
<1>2. ASSUME NEW d \in Folders, ListFolder(d)
      PROVE  LibTypes'
  BY <1>2 DEF ListFolder
<1>3. ASSUME NEW p \in LibPaths, LookAt(p)
      PROVE  LibTypes'
  BY <1>3 DEF LookAt, Counts
<1>4. CASE Upsert
  BY <1>4 DEF Upsert
<1>5. CASE RemoveMissing
  BY <1>5 DEF RemoveMissing, ForgetsWalk, Nothing, Kept
<1>6. CASE ScanDies
  BY <1>6 DEF ScanDies, ForgetsWalk, Nothing
<1>7. ASSUME NEW p \in LibPaths, StageFile(p)
      PROVE  LibTypes'
  <2>1. onMount[p] \in LibFile /\ NameOf[p] \in LibNames
    BY <1>7 DEF StageFile, Readable, There, LibNames
  <2>2. \A size \in MediaSizes \union {Tiny} : Copy(p, size) \in LibCopy
    BY <2>1 DEF Copy, LibCopy, LibFile
  <2>3. onMount[p].size \in MediaSizes \union {Tiny}
    BY <2>1 DEF LibFile
  <2>4. staged' \in [LibNames -> {NoFile} \union LibCopy]
    BY <1>7, <2>1, <2>2, <2>3 DEF StageFile
  <2>5. given' \in {NoFile} \union [copy : LibCopy, wanted : LibCopy]
    <3>1. CASE AlreadyStaged(p) /\ Gives(p, staged[NameOf[p]])
      <4>1. staged[NameOf[p]] \in LibCopy
        BY <2>1, <3>1 DEF AlreadyStaged
      <4> QED
        BY <2>2, <2>3, <3>1, <4>1 DEF Gives
    <3>2. CASE /\ staged' = [staged EXCEPT ![NameOf[p]] = Copy(p, onMount[p].size)]
               /\ Gives(p, staged'[NameOf[p]])
      <4>1. staged'[NameOf[p]] \in LibCopy
        BY <2>1, <2>2, <2>3, <3>2
      <4> QED
        BY <2>2, <2>3, <3>2, <4>1 DEF Gives
    <3>3. CASE UNCHANGED given
      BY <3>3
    <3> QED
      BY <1>7, <3>1, <3>2, <3>3 DEF StageFile
  <2>6. UNCHANGED <<mountVars, scanVars, index, steady, settled>>
    BY <1>7 DEF StageFile
  <2> QED
    BY <2>4, <2>5, <2>6
<1>8. ASSUME NEW p \in LibPaths, Change(p)
      PROVE  LibTypes'
  <2>1. changes' = changes + 1 /\ changes' \in Nat /\ settled' = FALSE
    BY <1>8 DEF Change
  <2>2. onMount' \in [LibPaths -> {NoFile} \union LibFile]
    <3>1. \/ onMount' = [onMount EXCEPT ![p] = NoFile]
          \/ \E size \in MediaSizes \union {Tiny}, mtime \in Nat :
               onMount' = [onMount EXCEPT ![p] =
                             [version |-> changes + 1, size |-> size, mtime |-> mtime]]
      BY <1>8 DEF Change
    <3> QED
      BY <2>1, <3>1 DEF LibFile
  <2>3. steady' \subseteq LibPaths
    BY <1>8 DEF Change
  <2>4. UNCHANGED <<unreadable, scanVars, index, staged, given>>
    BY <1>8 DEF Change
  <2> QED
    BY <2>1, <2>2, <2>3, <2>4
<1>9. ASSUME NEW d \in Folders, FolderFails(d)
      PROVE  LibTypes'
  <2>1. changes' \in Nat /\ settled' = FALSE
    BY <1>9 DEF FolderFails
  <2>2. unreadable' \subseteq Folders
    BY <1>9 DEF FolderFails
  <2>3. steady' \subseteq LibPaths
    BY <1>9 DEF FolderFails
  <2> QED
    BY <1>9, <2>1, <2>2, <2>3 DEF FolderFails
<1> QED
  BY <1>1, <1>2, <1>3, <1>4, <1>5, <1>6, <1>7, <1>8, <1>9 DEF LibNext

(* A change makes a version that nobody has.                               *)
LEMMA VersionsKept ==
  ASSUME LibraryConstants, LibInv, LibNext
  PROVE  Versions'
<1> USE LibraryConstants, LibInv DEF LibInv, LibTypes, mountVars, scanVars, walkVars,
      Versions, KnownVersion, There, Readable, LibFile
<1>1. ASSUME NEW r \in LibRoots, ScanRoot(r)
      PROVE  Versions'
  BY <1>1 DEF ScanRoot, Nothing
<1>2. ASSUME NEW d \in Folders, ListFolder(d)
      PROVE  Versions'
  BY <1>2 DEF ListFolder
<1>3. ASSUME NEW p \in LibPaths, LookAt(p)
      PROVE  Versions'
  BY <1>3 DEF LookAt, Counts
<1>4. CASE Upsert
  BY <1>4 DEF Upsert
<1>5. CASE RemoveMissing
  BY <1>5 DEF RemoveMissing, ForgetsWalk, Nothing, Kept
<1>6. CASE ScanDies
  BY <1>6 DEF ScanDies, ForgetsWalk, Nothing
<1>7. ASSUME NEW p \in LibPaths, StageFile(p)
      PROVE  Versions'
  BY <1>7 DEF StageFile, AlreadyStaged, Gives, Copy
<1>8. ASSUME NEW p \in LibPaths, Change(p)
      PROVE  Versions'
  BY <1>8 DEF Change
<1>9. ASSUME NEW d \in Folders, FolderFails(d)
      PROVE  Versions'
  BY <1>9 DEF FolderFails
<1> QED
  BY <1>1, <1>2, <1>3, <1>4, <1>5, <1>6, <1>7, <1>8, <1>9 DEF LibNext

(* A steady file is listed with its folder, looked at and seen.            *)
LEMMA SteadyKept ==
  ASSUME LibraryConstants, LibInv, LibNext
  PROVE  SteadySeen'
<1> USE LibraryConstants, LibInv DEF LibInv, LibTypes, mountVars, scanVars, walkVars,
      SteadySeen, Covered, There, Readable
<1>1. ASSUME NEW r \in LibRoots, ScanRoot(r)
      PROVE  SteadySeen'
  BY <1>1 DEF ScanRoot, Nothing
<1>2. ASSUME NEW d \in Folders, ListFolder(d)
      PROVE  SteadySeen'
  BY <1>2 DEF ListFolder
<1>3. ASSUME NEW p \in LibPaths, LookAt(p)
      PROVE  SteadySeen'
  BY <1>3 DEF LookAt, Counts
<1>4. CASE Upsert
  BY <1>4 DEF Upsert
<1>5. CASE RemoveMissing
  BY <1>5 DEF RemoveMissing, ForgetsWalk, Nothing, Kept
<1>6. CASE ScanDies
  BY <1>6 DEF ScanDies, ForgetsWalk, Nothing
<1>7. ASSUME NEW p \in LibPaths, StageFile(p)
      PROVE  SteadySeen'
  BY <1>7 DEF StageFile, AlreadyStaged, Gives, Copy
<1>8. ASSUME NEW p \in LibPaths, Change(p)
      PROVE  SteadySeen'
  BY <1>8 DEF Change
<1>9. ASSUME NEW d \in Folders, FolderFails(d)
      PROVE  SteadySeen'
  BY <1>9 DEF FolderFails
<1> QED
  BY <1>1, <1>2, <1>3, <1>4, <1>5, <1>6, <1>7, <1>8, <1>9 DEF LibNext

(* Before the first change the steady files are all that can be listed.    *)
LEMMA SettledKept ==
  ASSUME LibraryConstants, LibInv, LibNext
  PROVE  SettledScan'
<1> USE LibraryConstants, LibInv DEF LibInv, LibTypes, mountVars, scanVars, walkVars,
      SettledScan, SteadySeen, Covered, There, Readable
<1>1. ASSUME NEW r \in LibRoots, ScanRoot(r)
      PROVE  SettledScan'
  BY <1>1 DEF ScanRoot, Nothing
<1>2. ASSUME NEW d \in Folders, ListFolder(d)
      PROVE  SettledScan'
  BY <1>2 DEF ListFolder
<1>3. ASSUME NEW p \in LibPaths, LookAt(p)
      PROVE  SettledScan'
  BY <1>3 DEF LookAt, Counts
<1>4. CASE Upsert
  BY <1>4 DEF Upsert
<1>5. CASE RemoveMissing
  BY <1>5 DEF RemoveMissing, ForgetsWalk, Nothing, Kept
<1>6. CASE ScanDies
  BY <1>6 DEF ScanDies, ForgetsWalk, Nothing
<1>7. ASSUME NEW p \in LibPaths, StageFile(p)
      PROVE  SettledScan'
  BY <1>7 DEF StageFile, AlreadyStaged, Gives, Copy
<1>8. ASSUME NEW p \in LibPaths, Change(p)
      PROVE  SettledScan'
  BY <1>8 DEF Change
<1>9. ASSUME NEW d \in Folders, FolderFails(d)
      PROVE  SettledScan'
  BY <1>9 DEF FolderFails
<1> QED
  BY <1>1, <1>2, <1>3, <1>4, <1>5, <1>6, <1>7, <1>8, <1>9 DEF LibNext

(* A file seen has its entry, and the transaction makes it the index's.    *)
LEMMA EntriesKept ==
  ASSUME LibraryConstants, LibInv, LibNext
  PROVE  SettledEntries'
<1> USE LibraryConstants, LibInv DEF LibInv, LibTypes, mountVars, scanVars, walkVars,
      SettledEntries, SettledScan, SteadySeen, NeedsRescan, There, Readable, Wanted,
      Current
<1>1. ASSUME NEW r \in LibRoots, ScanRoot(r)
      PROVE  SettledEntries'
  BY <1>1 DEF ScanRoot, Nothing
<1>2. ASSUME NEW d \in Folders, ListFolder(d)
      PROVE  SettledEntries'
  BY <1>2 DEF ListFolder
<1>3. ASSUME NEW p \in LibPaths, LookAt(p)
      PROVE  SettledEntries'
  BY <1>3 DEF LookAt, Counts
<1>4. CASE Upsert
  <2>1. libPc = "walk" /\ libPc' = "remove" /\ UNCHANGED <<onMount, seenPaths, settled>>
    BY <1>4 DEF Upsert
  <2>2. ASSUME settled, NEW p \in seenPaths, Wanted(p)
        PROVE  Current(p)'
    <3>1. There(p) /\ onMount[p] \in LibFile
      BY <2>1, <2>2
    <3>2. CASE NeedsRescan(p)
      <4>1. index'[p] = onMount[p] /\ onMount[p] # NoFile
        BY <1>4, <2>1, <2>2, <3>1, <3>2 DEF Upsert
      <4> QED
        BY <2>1, <4>1
    <3>3. CASE ~NeedsRescan(p)
      <4>1. index'[p] = index[p] /\ index[p] # NoFile /\ index[p] \in LibFile
        BY <1>4, <2>1, <2>2, <3>3 DEF Upsert
      <4>2. index[p] = onMount[p] \/ index[p].version # onMount[p].version
        BY <2>2, <3>1, <4>1 DEF Versions, KnownVersion
      <4>3. onMount[p].mtime - index[p].mtime \in (-Tolerance)..Tolerance
        BY <3>1, <3>3, <4>1 DEF LibFile, LibraryConstants
      <4> QED
        BY <2>1, <4>1, <4>2, <4>3
    <3> QED
      BY <3>2, <3>3
  <2> QED
    BY <2>1, <2>2
<1>5. CASE RemoveMissing
  BY <1>5 DEF RemoveMissing, ForgetsWalk, Nothing, Kept
<1>6. CASE ScanDies
  BY <1>6 DEF ScanDies, ForgetsWalk, Nothing
<1>7. ASSUME NEW p \in LibPaths, StageFile(p)
      PROVE  SettledEntries'
  BY <1>7 DEF StageFile, AlreadyStaged, Gives, Copy
<1>8. ASSUME NEW p \in LibPaths, Change(p)
      PROVE  SettledEntries'
  BY <1>8 DEF Change
<1>9. ASSUME NEW d \in Folders, FolderFails(d)
      PROVE  SettledEntries'
  BY <1>9 DEF FolderFails
<1> QED
  BY <1>1, <1>2, <1>3, <1>4, <1>5, <1>6, <1>7, <1>8, <1>9 DEF LibNext

(* The index that is left is of the files seen.                            *)
LEMMA TrueKept ==
  ASSUME LibraryConstants, LibInv, LibNext
  PROVE  IndexTrue'
<1> USE LibraryConstants, LibInv DEF LibInv, LibTypes, mountVars, scanVars, walkVars,
      SettledEntries, SettledScan, SteadySeen, Covered, There, Readable, Wanted,
      Current, IndexTrue
<1>1. ASSUME NEW r \in LibRoots, ScanRoot(r)
      PROVE  IndexTrue'
  BY <1>1 DEF ScanRoot, Nothing
<1>2. ASSUME NEW d \in Folders, ListFolder(d)
      PROVE  IndexTrue'
  BY <1>2 DEF ListFolder
<1>3. ASSUME NEW p \in LibPaths, LookAt(p)
      PROVE  IndexTrue'
  BY <1>3 DEF LookAt, Counts
<1>4. CASE Upsert
  BY <1>4 DEF Upsert
<1>5. CASE RemoveMissing
  BY <1>5 DEF RemoveMissing, ForgetsWalk, Nothing, Kept
<1>6. CASE ScanDies
  BY <1>6 DEF ScanDies, ForgetsWalk, Nothing
<1>7. ASSUME NEW p \in LibPaths, StageFile(p)
      PROVE  IndexTrue'
  BY <1>7 DEF StageFile, AlreadyStaged, Gives, Copy
<1>8. ASSUME NEW p \in LibPaths, Change(p)
      PROVE  IndexTrue'
  BY <1>8 DEF Change
<1>9. ASSUME NEW d \in Folders, FolderFails(d)
      PROVE  IndexTrue'
  BY <1>9 DEF FolderFails
<1> QED
  BY <1>1, <1>2, <1>3, <1>4, <1>5, <1>6, <1>7, <1>8, <1>9 DEF LibNext

(* A copy of the file's size and version is the file.                      *)
LEMMA WholeKept ==
  ASSUME LibraryConstants, LibInv, LibNext
  PROVE  StagedWhole'
<1> USE LibraryConstants, LibInv DEF LibInv, LibTypes, mountVars, scanVars, walkVars,
      StagedWhole
<1>1. ASSUME NEW r \in LibRoots, ScanRoot(r)
      PROVE  StagedWhole'
  BY <1>1 DEF ScanRoot, Nothing
<1>2. ASSUME NEW d \in Folders, ListFolder(d)
      PROVE  StagedWhole'
  BY <1>2 DEF ListFolder
<1>3. ASSUME NEW p \in LibPaths, LookAt(p)
      PROVE  StagedWhole'
  BY <1>3 DEF LookAt, Counts
<1>4. CASE Upsert
  BY <1>4 DEF Upsert
<1>5. CASE RemoveMissing
  BY <1>5 DEF RemoveMissing, ForgetsWalk, Nothing, Kept
<1>6. CASE ScanDies
  BY <1>6 DEF ScanDies, ForgetsWalk, Nothing
<1>7. ASSUME NEW p \in LibPaths, StageFile(p)
      PROVE  StagedWhole'
  <2>1. CASE AlreadyStaged(p) /\ Gives(p, staged[NameOf[p]])
    <3>1. given'.copy = staged[NameOf[p]] /\ given'.wanted = Copy(p, onMount[p].size)
      BY <2>1 DEF Gives
    <3>2. staged[NameOf[p]].size = onMount[p].size /\ staged[NameOf[p]] \in LibCopy
      BY <1>7, <2>1 DEF AlreadyStaged, LibNames
    <3> QED
      BY <3>1, <3>2 DEF StagedWhole, Copy, LibCopy
  <2>2. CASE /\ staged' = [staged EXCEPT ![NameOf[p]] = Copy(p, onMount[p].size)]
             /\ Gives(p, staged'[NameOf[p]])
    <3>1. staged'[NameOf[p]] = Copy(p, onMount[p].size)
      BY <1>7, <2>2 DEF LibNames
    <3>2. given'.copy = given'.wanted
      BY <2>2, <3>1 DEF Gives
    <3> QED
      BY <3>2 DEF StagedWhole
  <2>3. CASE UNCHANGED given
    BY <2>3 DEF StagedWhole
  <2> QED
    BY <1>7, <2>1, <2>2, <2>3 DEF StageFile
<1>8. ASSUME NEW p \in LibPaths, Change(p)
      PROVE  StagedWhole'
  BY <1>8 DEF Change
<1>9. ASSUME NEW d \in Folders, FolderFails(d)
      PROVE  StagedWhole'
  BY <1>9 DEF FolderFails
<1> QED
  BY <1>1, <1>2, <1>3, <1>4, <1>5, <1>6, <1>7, <1>8, <1>9 DEF LibNext

-----------------------------------------------------------------------------
(* The empty index.                                                        *)
LEMMA LibInitially == LibraryConstants /\ LibInit => LibInv
<1> SUFFICES ASSUME LibraryConstants, LibInit
             PROVE  LibInv
  OBVIOUS
<1>1. LibTypes
  <2>1. [version : {0}, size : MediaSizes, mtime : {0}] \subseteq LibFile
    BY DEF LibFile
  <2>2. onMount \in [LibPaths -> {NoFile} \union LibFile]
    BY <2>1 DEF LibInit
  <2>3. /\ index \in [LibPaths -> {NoFile} \union LibFile]
        /\ libEntries \in [LibPaths -> {NoFile} \union LibFile]
        /\ staged \in [LibNames -> {NoFile} \union LibCopy]
    BY DEF LibInit, Nothing
  <2> QED
    BY <2>2, <2>3 DEF LibInit, LibTypes
<1>2. Versions
  BY DEF LibInit, Versions, KnownVersion, Nothing, There
<1>3. SteadySeen /\ SettledScan /\ SettledEntries
  BY DEF LibInit, SteadySeen, SettledScan, SettledEntries
<1>4. IndexTrue /\ StagedWhole
  BY DEF LibInit, IndexTrue, StagedWhole
<1> QED
  BY <1>1, <1>2, <1>3, <1>4 DEF LibInv

(* Every step keeps the invariant.                                         *)
LEMMA LibInvKept ==
  ASSUME LibraryConstants, LibInv, [LibNext]_libVars
  PROVE  LibInv'
<1>1. CASE LibNext
  BY <1>1, LibraryConstants, LibTypesKept, VersionsKept, SteadyKept, SettledKept, EntriesKept,
     TrueKept, WholeKept DEF LibInv
<1>2. CASE UNCHANGED libVars
  BY <1>2 DEF libVars, mountVars, scanVars, walkVars, LibInv, LibTypes, Versions, KnownVersion,
     There, Readable, SteadySeen, Covered, SettledScan, SettledEntries, Wanted, NeedsRescan,
     Current, IndexTrue, StagedWhole
<1> QED
  BY <1>1, <1>2

(* So it holds in every state.                                             *)
LEMMA AlwaysLibInv == LibSpec => []LibInv
<1>1. LibInit => LibInv
  BY LibraryConstants, LibInitially
<1>2. LibInv /\ [LibNext]_libVars => LibInv'
  BY LibraryConstants, LibInvKept
<1> QED
  BY <1>1, <1>2, PTL DEF LibSpec

-----------------------------------------------------------------------------
(* Every variable has its type.                                            *)
THEOREM LibraryTypes == LibSpec => []LibTypeOK
<1>1. LibInv => LibTypeOK
  BY DEF LibInv, LibTypes, LibTypeOK
<1> QED
  BY <1>1, AlwaysLibInv, PTL

(* After a scan that nothing disturbed the index is that of the root       *)
(* (scan() of library.py), and what stage_file() gives is never a copy     *)
(* that was cut short of the version asked for.                            *)
THEOREM LibraryIsSound == LibSpec => []LibrarySound
<1>1. LibInv => LibrarySound
  BY DEF LibInv, LibrarySound
<1> QED
  BY <1>1, AlwaysLibInv, PTL

(* remove_missing() keeps the entries of all files that were there and     *)
(* readable from the scan's beginning, whatever else has changed.          *)
THEOREM SteadyEntriesStay == LibSpec => KeepsSteady
<1>1. LibInv /\ [LibNext]_libVars =>
        [RemoveMissing => \A p \in steady : index[p] # NoFile => index'[p] # NoFile]_libVars
  BY DEF LibInv, LibTypes, SteadySeen, Covered, RemoveMissing, Kept
<1> QED
  BY <1>1, AlwaysLibInv, PTL DEF LibSpec, KeepsSteady

-----------------------------------------------------------------------------
(* VmInstances: the inductive invariant, while the tools are called one    *)
(* after another.                                                          *)
OneHandler == \A g, h \in Handlers : g = h

Manifests == [state : {"missing", "garbage", "whole"}, snaps : SUBSET Snapshots,
              bare : SUBSET Snapshots, default : Snapshots \cup {NoSnapshot},
              backing : Instances \cup {NoInstance}]
Images == [snaps : SUBSET Snapshots, base : Instances \cup {NoInstance}]

(* What VmTypeOK leaves open of the manifests and the calls.               *)
VmTypes ==
  /\ VmTypeOK
  /\ vmManifest \in [Instances -> Manifests] /\ loaded \in [Handlers -> Manifests]
  /\ op \in [Handlers -> Ops] /\ patch \in [Handlers -> Snapshots \cup {NoSnapshot}]
  /\ target \in [Handlers -> Instances \cup {NoInstance}]
  /\ source \in [Handlers -> Instances \cup {NoInstance}]

(* Where the steps of each tool are.                                       *)
ToolSteps ==
  \A h \in Handlers :
    /\ step[h] # "idle" => target[h] \in Instances
    /\ step[h] # "idle" /\ op[h] = "fork" => source[h] \in Instances
    /\ step[h] # "idle" /\ op[h] = "snapshot" => patch[h] \in Snapshots
    /\ step[h] = "begin" => op[h] \in {"create", "migrate"}
    /\ step[h] = "load" => op[h] \notin {"create", "migrate"}
    /\ step[h] = "thin" => op[h] \in {"fork", "reset"}
    /\ step[h] \in {"thin", "truncate", "write"} => loaded[h].state = "whole"

(* File numbers are given once, and a name without a directory has nothing. *)
FilesFit ==
  \A i \in Instances :
    /\ vmDisk[i] <= lastDisk /\ running[i] <= lastDisk
    /\ i \notin directory => vmManifest[i] = Missing

(* A manifest m, of i, says what i's disk holds and what is under it.      *)
Lists(i, m) ==
  m.state = "whole" /\ vmDisk[i] # 0 /\ i \notin doubtful => m.snaps \subseteq images[vmDisk[i]].snaps
Names(i, m) ==
  m.backing # NoInstance /\ vmDisk[i] # 0 /\ i \notin doubtful => images[vmDisk[i]].base = m.backing

(* So does every manifest that is not just being written ...               *)
Saving(i) == \E h \in Handlers : step[h] \in {"truncate", "write"} /\ target[h] = i
AllTrue == \A i \in Instances : ~Saving(i) => Lists(i, vmManifest[i]) /\ Names(i, vmManifest[i])

(* ... and what is going to be written; a handler that patches has not     *)
(* forgotten a snapshot, and a fork's name is still free.                  *)
InHand ==
  \A h \in Handlers :
    /\ step[h] = "load" /\ op[h] = "snapshot" =>
         Lists(target[h], NewManifest({patch[h]}, NoInstance))
    /\ step[h] = "thin" /\ op[h] = "fork" =>
         vmDisk[target[h]] = 0 /\ target[h] \in directory /\ vmManifest[target[h]] = Missing
    /\ step[h] = "thin" /\ op[h] = "reset" => Names(target[h], loaded[h])
    /\ step[h] \in {"truncate", "write"} =>
         Lists(target[h], Patched(h)) /\ Names(target[h], Patched(h))
    /\ step[h] \in {"truncate", "write"} /\ op[h] \in {"update", "snapshot"} =>
         recorded[target[h]] \subseteq loaded[h].snaps
    /\ step[h] = "write" => vmManifest[target[h]] = Garbage

VmInv ==
  VmTypes /\ ToolSteps /\ FilesFit /\ AllTrue /\ InHand /\ RecordedStays /\ ChainsEnd

-----------------------------------------------------------------------------
(* The types in the form the proofs use.                                   *)
LEMMA Typed ==
  ASSUME VmTypes
  PROVE  /\ directory \subseteq Instances /\ doubtful \subseteq Instances /\ adopted \subseteq Instances
         /\ vmDisk \in [Instances -> 0..MaxDisks] /\ running \in [Instances -> 0..MaxDisks]
         /\ images \in [1..MaxDisks -> Images] /\ nvram \in [Instances -> Instances \cup {NoInstance}]
         /\ recorded \in [Instances -> SUBSET Snapshots]
         /\ step \in [Handlers -> {"idle", "begin", "load", "thin", "truncate", "write"}]
         /\ calls \in 0..MaxCalls /\ lastDisk \in 0..MaxDisks
         /\ \A i \in Instances : vmDisk[i] # 0 => i \in directory
BY DEF VmTypes, VmTypeOK, Images

LEMMA TypedBack ==
  ASSUME directory' \subseteq Instances, doubtful' \subseteq Instances, adopted' \subseteq Instances,
         vmDisk' \in [Instances -> 0..MaxDisks], running' \in [Instances -> 0..MaxDisks],
         images' \in [1..MaxDisks -> Images], nvram' \in [Instances -> Instances \cup {NoInstance}],
         recorded' \in [Instances -> SUBSET Snapshots],
         step' \in [Handlers -> {"idle", "begin", "load", "thin", "truncate", "write"}],
         calls' \in 0..MaxCalls, lastDisk' \in 0..MaxDisks,
         \A i \in Instances : vmDisk'[i] # 0 => i \in directory',
         vmManifest' \in [Instances -> Manifests], loaded' \in [Handlers -> Manifests],
         op' \in [Handlers -> Ops], patch' \in [Handlers -> Snapshots \cup {NoSnapshot}],
         target' \in [Handlers -> Instances \cup {NoInstance}],
         source' \in [Handlers -> Instances \cup {NoInstance}]
  PROVE  VmTypes'
<1>1. \A m \in {vmManifest'[i] : i \in Instances} \cup {loaded'[h] : h \in Handlers} : m \in Manifests
  OBVIOUS
<1> QED
  BY <1>1 DEF VmTypes, VmTypeOK, Manifests, Images

(* A file that is not there, and one that does not parse.                  *)
LEMMA MissingIs ==
  ASSUME VmConstants
  PROVE  /\ Missing \in Manifests /\ Missing.state = "missing" /\ Missing.backing = NoInstance
         /\ Garbage \in Manifests /\ Garbage.state = "garbage"
BY DEF Missing, Garbage, NewManifest, Manifests

(* A manifest that is made anew.                                           *)
LEMMA NewManifestIs ==
  ASSUME NEW snaps \in SUBSET Snapshots, NEW b \in Instances \cup {NoInstance}
  PROVE  /\ NewManifest(snaps, b) \in Manifests /\ NewManifest(snaps, b).state = "whole"
         /\ NewManifest(snaps, b).snaps = snaps /\ NewManifest(snaps, b).backing = b
BY DEF NewManifest, Manifests

-----------------------------------------------------------------------------
(* With one handler, what concerns every handler concerns that one.        *)
LEMMA Alone == ASSUME OneHandler, NEW h \in Handlers PROVE Handlers = {h}
BY DEF OneHandler

LEMMA ChainsKept ==
  ASSUME ChainsEnd, VmConstants,
         \A i \in Instances : vmDisk'[i] # 0 =>
            \/ images'[vmDisk'[i]].base = NoInstance \/ i \in adopted'
            \/ /\ vmDisk[i] # 0 /\ i \notin adopted
               /\ images'[vmDisk'[i]].base = images[vmDisk[i]].base
  PROVE  ChainsEnd'
<1> DEFINE bases  == {<<i, images[vmDisk[i]].base>> : i \in {j \in Instances : vmDisk[j] # 0}}
           bases2 == {<<i, images'[vmDisk'[i]].base>> : i \in {j \in Instances : vmDisk'[j] # 0}}
<1>1. \A i, j \in Instances : <<i, j>> \in bases2 => i \in adopted' \/ (i \notin adopted /\ <<i, j>> \in bases)
  <2> SUFFICES ASSUME NEW i \in Instances, NEW j \in Instances, <<i, j>> \in bases2, i \notin adopted'
               PROVE  i \notin adopted /\ <<i, j>> \in bases
    OBVIOUS
  <2>1. vmDisk'[i] # 0 /\ images'[vmDisk'[i]].base = j
    OBVIOUS
  <2> QED
    BY <2>1 DEF VmConstants
<1>2. \A S \in (SUBSET (Instances \ adopted)) \ {{}} : \E i \in S : \A j \in S : <<i, j>> \notin bases
  BY DEF ChainsEnd
<1> HIDE DEF bases, bases2
<1>3. ASSUME NEW S \in (SUBSET (Instances \ adopted')) \ {{}}
      PROVE  \E i \in S : \A j \in S : <<i, j>> \notin bases2
  <2> SUFFICES ASSUME \A i \in S : \E j \in S : <<i, j>> \in bases2
               PROVE  FALSE
    OBVIOUS
  <2>1. \A i \in S : i \in Instances \ adopted'
    OBVIOUS
  <2>2. \A i \in S : i \notin adopted /\ \E j \in S : <<i, j>> \in bases
    BY <1>1, <2>1
  <2>3. S \in (SUBSET (Instances \ adopted)) \ {{}}
    BY <2>1, <2>2
  <2> QED
    BY <1>2, <2>2, <2>3
<1> USE DEF bases, bases2
<1> QED
  BY <1>3 DEF ChainsEnd

(* A chain that a new overlay is put at the end of still ends: qemu-img    *)
(* opens the base, so what it opens leaves out any set that is closed.     *)
LEMMA ChainGrows ==
  ASSUME ChainsEnd, VmConstants, NEW i \in Instances, NEW b \in Instances, vmDisk[i] = 0, Openable(b),
         adopted' = adopted,
         images'[vmDisk'[i]].base = b,
         \A j \in Instances \ {i} : vmDisk'[j] = vmDisk[j] /\
            (vmDisk[j] # 0 => images'[vmDisk[j]].base = images[vmDisk[j]].base)
  PROVE  ChainsEnd'
<1> DEFINE bases2 == {<<k, images'[vmDisk'[k]].base>> : k \in {j \in Instances : vmDisk'[j] # 0}}
<1>1. ASSUME NEW S \in (SUBSET (Instances \ adopted)) \ {{}}
      PROVE  \E k \in S : \A j \in S : <<k, j>> \notin bases2
  <2>1. \A k, j \in Instances : <<k, j>> \in bases2 => vmDisk'[k] # 0 /\ images'[vmDisk'[k]].base = j
    OBVIOUS
  <2> SUFFICES ASSUME \A k \in S : \E j \in S : vmDisk'[k] # 0 /\ images'[vmDisk'[k]].base = j
               PROVE  FALSE
    BY <2>1
  <2> DEFINE T == Instances \ S
  <2>2. Opens(T) \subseteq T
    BY DEF Opens, VmConstants
  <2>3. b \in T
    BY <2>2 DEF Openable
  <2>4. i \notin S
    BY <2>3
  <2>5. \A k \in S : \E j \in S : vmDisk[k] # 0 /\ images[vmDisk[k]].base = j
    BY <2>4
  <2>6. \A k \in S : \E j \in S :
          <<k, j>> \in {<<q, images[vmDisk[q]].base>> : q \in {p \in Instances : vmDisk[p] # 0}}
    BY <2>5
  <2> QED
    BY <2>6 DEF ChainsEnd
<1> QED
  BY <1>1 DEF ChainsEnd

LEMMA TruncateKeeps ==
  ASSUME OneHandler, VmConstants, VmInv, NEW h \in Handlers, Truncate(h)
  PROVE  VmInv'
<1> DEFINE i == target[h]
<1>1. VmTypes /\ ToolSteps /\ FilesFit /\ AllTrue /\ InHand /\ RecordedStays /\ ChainsEnd
  BY DEF VmInv
<1>2. Handlers = {h}
  BY Alone
<1>3. /\ step[h] = "truncate" /\ directory' = directory \cup {i}
      /\ vmManifest' = [vmManifest EXCEPT ![i] = Garbage]
      /\ step' = [step EXCEPT ![h] = "write"]
      /\ UNCHANGED <<vmDisk, images, nvram, running, doubtful, adopted, recorded, vmCall, loaded, calls, lastDisk>>
  BY DEF Truncate, At, Goto
<1>4. i \in Instances
  BY <1>1, <1>3 DEF ToolSteps
<1>5. Garbage \in Manifests /\ Garbage.state # "whole"
  BY MissingIs
<1>6. VmTypes'
  <2>1. vmManifest' \in [Instances -> Manifests] /\ step' \in [Handlers -> {"idle", "begin", "load", "thin", "truncate", "write"}]
    BY <1>1, <1>3, <1>5, Typed DEF VmTypes
  <2> QED
    BY <1>1, <1>3, <1>4, <2>1, Typed, TypedBack DEF VmTypes, vmCall
<1>7. step'[h] = "write" /\ vmManifest'[i] = Garbage
      /\ \A j \in Instances \ {i} : vmManifest'[j] = vmManifest[j]
  BY <1>1, <1>3, <1>4, Typed DEF VmTypes
<1>8. ToolSteps'
  BY <1>1, <1>2, <1>3, <1>7 DEF ToolSteps, vmCall
<1>9. FilesFit'
  BY <1>1, <1>3, <1>7 DEF FilesFit
<1>10. AllTrue'
  BY <1>1, <1>2, <1>3, <1>7 DEF AllTrue, Saving, Lists, Names, vmCall
<1>11. InHand'
  BY <1>1, <1>2, <1>3, <1>7 DEF InHand, Lists, Names, Patched, vmCall
<1>12. RecordedStays'
  BY <1>1, <1>3, <1>5, <1>7 DEF RecordedStays
<1>13. ChainsEnd'
  BY <1>1, <1>3, ChainsKept
<1> QED
  BY <1>6, <1>8, <1>9, <1>10, <1>11, <1>12, <1>13 DEF VmInv

LEMMA PatchedTyped ==
  ASSUME VmTypes, ToolSteps, NEW h \in Handlers, step[h] = "write"
  PROVE  Patched(h) \in Manifests
<1>1. /\ loaded[h] \in Manifests /\ patch[h] \in Snapshots \cup {NoSnapshot}
      /\ op[h] = "snapshot" => patch[h] \in Snapshots
  BY DEF VmTypes, ToolSteps
<1>2. [loaded[h] EXCEPT !.default = patch[h]] \in Manifests
  BY <1>1 DEF Manifests
<1>3. op[h] = "snapshot" => [loaded[h] EXCEPT !.snaps = @ \cup {patch[h]}, !.bare = @ \ {patch[h]}] \in Manifests
  BY <1>1 DEF Manifests
<1> QED
  BY <1>1, <1>2, <1>3 DEF Patched

LEMMA WriteKeeps ==
  ASSUME OneHandler, VmConstants, VmInv, NEW h \in Handlers, Write(h)
  PROVE  VmInv'
<1> DEFINE i == target[h]
<1>1. VmTypes /\ ToolSteps /\ FilesFit /\ AllTrue /\ InHand /\ RecordedStays /\ ChainsEnd
  BY DEF VmInv
<1>2. Handlers = {h}
  BY Alone
<1>3. /\ step[h] = "write" /\ i \in Instances /\ vmManifest[i] = Garbage
  BY <1>1 DEF Write, At, ToolSteps, InHand
<1>4. vmManifest' = [vmManifest EXCEPT ![i] = Patched(h)]
  <2>1. vmManifest[i].state = "garbage"
    BY <1>3, MissingIs
  <2> QED
    BY <2>1 DEF Write
<1>5. /\ recorded' = [recorded EXCEPT ![i] =
                        CASE op[h] = "snapshot" -> @ \cup {patch[h]}
                          [] op[h] = "update"   -> @
                          [] OTHER              -> {}]
      /\ UNCHANGED <<vmFiles, running, doubtful, adopted, target, source, patch, calls, lastDisk>>
      /\ loaded' = loaded \/ loaded' = [loaded EXCEPT ![h] = Missing]
      /\ \/ op' = [op EXCEPT ![h] = "update"] /\ step' = [step EXCEPT ![h] = "load"]
         \/ op' = op /\ step' = [step EXCEPT ![h] = "idle"]
  BY DEF Write, Return, Goto
<1>6. VmTypes'
  <2>1. Patched(h) \in Manifests
    BY <1>1, <1>3, PatchedTyped
  <2>2. vmManifest' \in [Instances -> Manifests] /\ op' \in [Handlers -> Ops]
        /\ step' \in [Handlers -> {"idle", "begin", "load", "thin", "truncate", "write"}]
    BY <1>1, <1>4, <1>5, <2>1, Typed DEF VmTypes, Ops
  <2>4. loaded' \in [Handlers -> Manifests]
    BY <1>1, <1>5, MissingIs DEF VmTypes
  <2>3. recorded' \in [Instances -> SUBSET Snapshots]
    <3>1. op[h] = "snapshot" => patch[h] \in Snapshots
      BY <1>1, <1>3 DEF ToolSteps
    <3> QED
      BY <1>1, <1>5, <3>1, Typed
  <2> QED
    BY <1>1, <1>5, <2>2, <2>3, <2>4, Typed, TypedBack DEF VmTypes, vmFiles
<1>7. /\ step'[h] \in {"idle", "load"}
      /\ step'[h] = "load" => op'[h] = "update"
      /\ vmManifest'[i] = Patched(h) /\ \A j \in Instances \ {i} : vmManifest'[j] = vmManifest[j]
  BY <1>1, <1>3, <1>4, <1>5, Typed DEF VmTypes
<1>8. ToolSteps'
  BY <1>1, <1>2, <1>3, <1>5, <1>7 DEF ToolSteps
<1>9. FilesFit'
  <2>1. i \in directory
    BY <1>1, <1>3, MissingIs DEF FilesFit
  <2> QED
    BY <1>1, <1>5, <1>7, <2>1 DEF FilesFit, vmFiles
<1>10. AllTrue'
  <2>1. Lists(i, Patched(h)) /\ Names(i, Patched(h))
    BY <1>1, <1>3 DEF InHand
  <2>2. \A j \in Instances \ {i} : Lists(j, vmManifest[j]) /\ Names(j, vmManifest[j])
    BY <1>1, <1>2 DEF AllTrue, Saving
  <2> QED
    BY <1>5, <1>7, <2>1, <2>2 DEF AllTrue, Lists, Names, vmFiles
<1>11. InHand'
  BY <1>2, <1>7 DEF InHand
<1>12. RecordedStays'
  <2>1. op[h] \in {"update", "snapshot"} => recorded[i] \subseteq loaded[h].snaps
    BY <1>1, <1>3 DEF InHand
  <2>2. recorded'[i] \subseteq Patched(h).snaps
    <3>1. loaded[h] \in Manifests
      BY <1>1 DEF VmTypes
    <3>2. CASE op[h] = "snapshot"
      BY <1>1, <1>3, <1>5, <2>1, <3>1, <3>2, Typed DEF Patched, Manifests
    <3>3. CASE op[h] = "update"
      BY <1>1, <1>3, <1>5, <2>1, <3>1, <3>3, Typed DEF Patched, Manifests
    <3> QED
      BY <1>1, <1>3, <1>5, <3>2, <3>3, Typed
  <2>3. \A j \in Instances \ {i} : recorded'[j] = recorded[j]
    BY <1>1, <1>5, Typed
  <2> QED
    BY <1>1, <1>7, <2>2, <2>3 DEF RecordedStays
<1>13. ChainsEnd'
  BY <1>1, <1>5, ChainsKept DEF vmFiles
<1> QED
  BY <1>6, <1>8, <1>9, <1>10, <1>11, <1>12, <1>13 DEF VmInv

LEMMA LoadKeeps ==
  ASSUME OneHandler, VmConstants, VmInv, NEW h \in Handlers, Load(h)
  PROVE  VmInv'
<1> DEFINE i == target[h]
<1>1. VmTypes /\ ToolSteps /\ FilesFit /\ AllTrue /\ InHand /\ RecordedStays /\ ChainsEnd
  BY DEF VmInv
<1>2. Handlers = {h}
  BY Alone
<1>3. /\ step[h] = "load" /\ i \in Instances /\ op[h] \notin {"create", "migrate"}
      /\ op[h] = "fork" => source[h] \in Instances
      /\ UNCHANGED <<vmDisk, images, nvram, vmManifest, running, doubtful, adopted, recorded, vmCall, calls, lastDisk>>
  BY <1>1 DEF Load, At, ToolSteps
<1>4. ReadBy(h) \in Manifests
  BY <1>1, <1>3 DEF ReadBy, VmTypes
<1>5. \/ step' = [step EXCEPT ![h] = "idle"] /\ loaded' = [loaded EXCEPT ![h] = Missing]
      \/ /\ ~Refused(h) /\ loaded' = [loaded EXCEPT ![h] = ReadBy(h)]
         /\ step' = [step EXCEPT ![h] = IF op[h] \in {"fork", "reset"} THEN "thin" ELSE "truncate"]
  BY DEF Load, Return, Goto
<1>6. directory' = directory \cup Made(h) /\ Made(h) \subseteq {i}
  BY DEF Load, Made
<1>7. /\ step'[h] # "idle" => /\ ~Refused(h) /\ loaded'[h] = ReadBy(h)
                              /\ step'[h] = IF op[h] \in {"fork", "reset"} THEN "thin" ELSE "truncate"
      /\ ReadBy(h) = IF op[h] = "fork" THEN vmManifest[source[h]] ELSE vmManifest[i]
      /\ ~Refused(h) => ReadBy(h).state = "whole"
  BY <1>1, <1>5, Typed DEF VmTypes, ReadBy, Refused
<1>8. VmTypes'
  <2>1. step' \in [Handlers -> {"idle", "begin", "load", "thin", "truncate", "write"}]
        /\ loaded' \in [Handlers -> Manifests]
    <3>1. loaded \in [Handlers -> Manifests]
      BY <1>1 DEF VmTypes
    <3>2. loaded' \in [Handlers -> Manifests]
      BY <1>4, <1>5, <3>1, MissingIs
    <3>3. step' \in [Handlers -> {"idle", "begin", "load", "thin", "truncate", "write"}]
      BY <1>1, <1>5, Typed
    <3> QED
      BY <3>2, <3>3
  <2>2. directory' \subseteq Instances
    BY <1>1, <1>3, <1>6, Typed
  <2> QED
    BY <1>1, <1>3, <1>6, <2>1, <2>2, Typed, TypedBack DEF VmTypes, vmCall
<1>9. ToolSteps'
  BY <1>1, <1>2, <1>3, <1>7 DEF ToolSteps, vmCall
<1>10. FilesFit'
  BY <1>1, <1>3, <1>6 DEF FilesFit
<1>11. \A j \in Instances : Lists(j, vmManifest[j]) /\ Names(j, vmManifest[j])
  BY <1>1, <1>2, <1>3 DEF AllTrue, Saving
<1>12. AllTrue'
  BY <1>3, <1>11 DEF AllTrue, Lists, Names
<1>13. InHand'
  <2>1. ASSUME step'[h] = "thin", op[h] = "fork"
        PROVE  vmDisk[i] = 0 /\ i \in directory' /\ vmManifest[i] = Missing
    <3>1. i \notin directory /\ ~Refused(h)
      BY <1>7, <2>1 DEF Refused
    <3>2. i \in directory'
      BY <1>6, <2>1, <3>1 DEF Made
    <3> QED
      BY <1>1, <1>3, <3>1, <3>2, Typed DEF FilesFit
  <2>2. ASSUME step'[h] = "thin", op[h] = "reset"
        PROVE  Names(i, loaded'[h])
    BY <1>3, <1>7, <1>11, <2>2 DEF Names
  <2>3. ASSUME step'[h] = "truncate"
        PROVE  /\ op[h] \in {"update", "snapshot"} => recorded[i] \subseteq loaded'[h].snaps
               /\ op[h] \in {"update", "snapshot"} /\ loaded'[h] = vmManifest[i] /\ loaded'[h].state = "whole"
    <3>1. op[h] \in {"update", "snapshot"} /\ loaded'[h] = vmManifest[i] /\ loaded'[h].state = "whole"
      BY <1>1, <1>3, <1>7, <2>3 DEF VmTypes, Ops
    <3> QED
      BY <1>1, <1>3, <3>1 DEF RecordedStays
  <2>4. ASSUME step'[h] = "truncate"
        PROVE  (Lists(i, Patched(h)) /\ Names(i, Patched(h)))'
    <3>1. loaded'[h] \in Manifests /\ Lists(i, loaded'[h]) /\ Names(i, loaded'[h])
      BY <1>1, <1>3, <1>11, <2>3, <2>4 DEF VmTypes
    <3>2. CASE op[h] = "update"
      <4>1. /\ Patched(h)' = [loaded'[h] EXCEPT !.default = patch[h]]
            /\ Patched(h)'.state = loaded'[h].state
            /\ Patched(h)'.snaps = loaded'[h].snaps /\ Patched(h)'.backing = loaded'[h].backing
        BY <1>3, <3>1, <3>2 DEF Patched, Manifests, vmCall
      <4> QED
        BY <1>3, <3>1, <4>1 DEF Lists, Names, vmCall
    <3>3. CASE op[h] = "snapshot"
      <4>1. /\ Patched(h)' = [loaded'[h] EXCEPT !.snaps = @ \cup {patch[h]}, !.bare = @ \ {patch[h]}]
            /\ Patched(h)'.state = loaded'[h].state
            /\ Patched(h)'.snaps = loaded'[h].snaps \cup {patch[h]}
            /\ Patched(h)'.backing = loaded'[h].backing
        BY <1>3, <3>1, <3>3 DEF Patched, Manifests, vmCall
      <4>2. Lists(i, NewManifest({patch[h]}, NoInstance))
        BY <1>1, <1>3, <3>3 DEF InHand
      <4>3. vmDisk[i] # 0 /\ i \notin doubtful => patch[h] \in images[vmDisk[i]].snaps
        BY <4>2 DEF Lists, NewManifest
      <4> QED
        BY <1>3, <2>3, <2>4, <3>1, <4>1, <4>3 DEF Lists, Names, vmCall
    <3> QED
      BY <2>3, <2>4, <3>2, <3>3
  <2>5. step'[h] \in {"idle", "thin", "truncate"}
    BY <1>7
  <2> QED
    BY <1>2, <1>3, <2>1, <2>2, <2>3, <2>4, <2>5 DEF InHand, Names, vmCall
<1>14. RecordedStays'
  BY <1>1, <1>3 DEF RecordedStays
<1>15. ChainsEnd'
  BY <1>1, <1>3, ChainsKept
<1> QED
  BY <1>8, <1>9, <1>10, <1>12, <1>13, <1>14, <1>15 DEF VmInv

LEMMA ThinKeeps ==
  ASSUME OneHandler, VmConstants, VmInv, NEW h \in Handlers, Thin(h)
  PROVE  VmInv'
<1> DEFINE i == target[h]
           f == lastDisk + 1
           new == [loaded[h] EXCEPT !.snaps = {}, !.bare = {}, !.default = NoSnapshot]
<1>1. VmTypes /\ ToolSteps /\ FilesFit /\ AllTrue /\ InHand /\ RecordedStays /\ ChainsEnd
  BY DEF VmInv
<1>2. Handlers = {h}
  BY Alone
<1>3. /\ step[h] = "thin" /\ i \in Instances /\ op[h] \in {"fork", "reset"}
      /\ op[h] = "fork" => source[h] \in Instances
      /\ op[h] = "fork" => vmDisk[i] = 0 /\ i \in directory /\ vmManifest[i] = Missing
      /\ op[h] = "reset" => Names(i, loaded[h]) /\ vmDisk[i] # 0
      /\ loaded[h] \in Manifests /\ loaded[h].state = "whole"
      /\ UNCHANGED <<directory, vmManifest, running, doubtful, adopted, recorded, vmCall, calls>>
  BY <1>1 DEF Thin, At, ToolSteps, InHand, VmTypes
<1>4. /\ lastDisk < MaxDisks /\ lastDisk' = f
      /\ vmDisk' = [vmDisk EXCEPT ![i] = f]
      /\ images' = [images EXCEPT ![f] = Overlay(BaseOf(h))]
      /\ Openable(BaseOf(h))
      /\ loaded' = [loaded EXCEPT ![h] = IF op[h] = "fork" THEN ForkManifest(h) ELSE new]
      /\ step' = [step EXCEPT ![h] = "truncate"]
  BY DEF Thin, NewImage, Goto
<1>5. lastDisk \in Nat /\ MaxDisks \in Nat /\ f \in 1..MaxDisks
  BY <1>1, <1>4, Typed DEF VmConstants
<1>6. /\ BaseOf(h) \in Instances \cup {NoInstance}
      /\ op[h] = "fork" => BaseOf(h) = source[h]
      /\ op[h] = "reset" => BaseOf(h) = images[vmDisk[i]].base
  BY <1>1, <1>3, Typed DEF BaseOf, Images
<1>7. Overlay(BaseOf(h)) \in Images /\ Overlay(BaseOf(h)).base = BaseOf(h)
  BY <1>6 DEF Overlay, NoImage, Images
<1>8. /\ ForkManifest(h) = NewManifest({}, source[h])
      /\ new \in Manifests /\ new.state = "whole" /\ new.snaps = {} /\ new.backing = loaded[h].backing
  BY <1>3 DEF ForkManifest, Manifests
<1>9. op[h] = "fork" => /\ ForkManifest(h) \in Manifests /\ ForkManifest(h).state = "whole"
                        /\ ForkManifest(h).snaps = {} /\ ForkManifest(h).backing = source[h]
  BY <1>3, <1>8, NewManifestIs
<1>10. /\ vmDisk'[i] = f /\ images'[f].base = BaseOf(h)
       /\ \A j \in Instances \ {i} : /\ vmDisk'[j] = vmDisk[j]
                                     /\ vmDisk[j] # 0 => images'[vmDisk[j]] = images[vmDisk[j]]
  <2>1. \A j \in Instances : vmDisk[j] <= lastDisk /\ vmDisk[j] \in 0..MaxDisks
    BY <1>1, Typed DEF FilesFit
  <2>2. \A j \in Instances : vmDisk[j] # f
    BY <1>5, <2>1
  <2>3. vmDisk \in [Instances -> 0..MaxDisks] /\ images \in [1..MaxDisks -> Images]
    BY <1>1, Typed
  <2>4. \A j \in Instances : vmDisk[j] # 0 => vmDisk[j] \in 1..MaxDisks
    BY <2>3
  <2> QED
    BY <1>3, <1>4, <1>5, <1>7, <2>2, <2>3, <2>4
<1>11. /\ loaded'[h].state = "whole" /\ loaded'[h].snaps = {} /\ loaded'[h] \in Manifests
       /\ loaded'[h].backing = IF op[h] = "fork" THEN source[h] ELSE loaded[h].backing
       /\ step'[h] = "truncate" /\ loaded' \in [Handlers -> Manifests]
       /\ step' \in [Handlers -> {"idle", "begin", "load", "thin", "truncate", "write"}]
  <2>1. loaded \in [Handlers -> Manifests]
        /\ step \in [Handlers -> {"idle", "begin", "load", "thin", "truncate", "write"}]
    BY <1>1, Typed DEF VmTypes
  <2>2. CASE op[h] = "fork"
    BY <1>4, <1>9, <2>1, <2>2
  <2>3. CASE op[h] = "reset"
    BY <1>4, <1>8, <2>1, <2>3
  <2> QED
    BY <1>3, <2>2, <2>3
<1>12. VmTypes'
  <2>1. nvram' \in [Instances -> Instances \cup {NoInstance}]
    <3>1. nvram \in [Instances -> Instances \cup {NoInstance}]
      BY <1>1, Typed
    <3>2. op[h] = "reset" => loaded[h].backing \in Instances \cup {NoInstance}
      BY <1>3 DEF Manifests
    <3> QED
      BY <1>3, <3>1, <3>2 DEF Thin, CopyNvram
  <2>2. vmDisk' \in [Instances -> 0..MaxDisks] /\ lastDisk' \in 0..MaxDisks
    <3>1. f \in 0..MaxDisks
      BY <1>5
    <3>2. vmDisk \in [Instances -> 0..MaxDisks]
      BY <1>1, Typed
    <3>3. vmDisk' \in [Instances -> 0..MaxDisks]
      BY <1>4, <3>1, <3>2
    <3> QED
      BY <1>4, <3>1, <3>3
  <2>3. images' \in [1..MaxDisks -> Images]
    BY <1>1, <1>4, <1>7, Typed
  <2>5. \A j \in Instances : vmDisk'[j] # 0 => j \in directory'
    BY <1>1, <1>3, <1>10, Typed
  <2> QED
    BY <1>1, <1>3, <1>11, <2>1, <2>2, <2>3, <2>5, Typed, TypedBack DEF
       VmTypes, vmCall
<1>13. ToolSteps'
  BY <1>1, <1>2, <1>3, <1>11 DEF ToolSteps, vmCall
<1>14. FilesFit'
  <2>1. \A j \in Instances : vmDisk'[j] <= f /\ running'[j] <= f
    <3>1. \A j \in Instances : vmDisk[j] <= lastDisk /\ running[j] <= lastDisk
                               /\ vmDisk[j] \in Nat /\ running[j] \in Nat
      BY <1>1, Typed DEF FilesFit, VmConstants
    <3> QED
      BY <1>3, <1>5, <1>10, <3>1
  <2> QED
    BY <1>1, <1>3, <1>4, <2>1 DEF FilesFit
<1>15. AllTrue'
  <2>1. \A j \in Instances \ {i} : Lists(j, vmManifest[j]) /\ Names(j, vmManifest[j])
    BY <1>1, <1>3 , <1>2 DEF AllTrue, Saving
  <2>2. Saving(i)'
    BY <1>3, <1>11 DEF Saving, vmCall
  <2>4. ASSUME NEW j \in Instances \ {i}
        PROVE  Lists(j, vmManifest[j])' /\ Names(j, vmManifest[j])'
    <3>1. vmManifest'[j] = vmManifest[j] /\ vmDisk'[j] = vmDisk[j]
          /\ (vmDisk[j] # 0 => images'[vmDisk'[j]] = images[vmDisk[j]])
      BY <1>3, <1>10
    <3> QED
      BY <1>3, <2>1, <3>1 DEF Lists, Names
  <2> QED
    BY <1>3, <2>2, <2>4 DEF AllTrue, vmCall
<1>16. InHand'
  <2>1. Patched(h)' = loaded'[h]
    BY <1>3 DEF Patched, vmCall
  <2>2. (Lists(i, Patched(h)))'
    BY <1>3, <1>11, <2>1 DEF Lists, vmCall
  <2>3. (Names(i, Patched(h)))'
    <3>1. CASE op[h] = "fork"
      BY <1>3, <1>6, <1>10, <1>11, <2>1, <3>1 DEF Names, vmCall
    <3>2. CASE op[h] = "reset"
      BY <1>3, <1>6, <1>10, <1>11, <2>1, <3>2 DEF Names, vmCall
    <3> QED
      BY <1>3, <3>1, <3>2
  <2> QED
    BY <1>2, <1>3, <1>11, <2>2, <2>3 DEF InHand, vmCall
<1>17. RecordedStays'
  BY <1>1, <1>3 DEF RecordedStays
<1>18. ChainsEnd'
  <2>1. CASE op[h] = "fork"
    BY <1>1, <1>3, <1>4, <1>6, <1>10, <2>1, ChainGrows
  <2>2. CASE op[h] = "reset"
    <3>1. \A j \in Instances : vmDisk'[j] # 0 => vmDisk[j] # 0 /\ images'[vmDisk'[j]].base = images[vmDisk[j]].base
      BY <1>3, <1>6, <1>10, <2>2
    <3> QED
      BY <1>1, <1>3, <3>1, ChainsKept
  <2> QED
    BY <1>3, <2>1, <2>2
<1> QED
  BY <1>12, <1>13, <1>14, <1>15, <1>16, <1>17, <1>18 DEF VmInv

LEMMA ThinFailsKeeps ==
  ASSUME OneHandler, VmConstants, VmInv, NEW h \in Handlers, ThinFails(h)
  PROVE  VmInv'
<1> DEFINE i == target[h]
           f == lastDisk + 1
<1>1. VmTypes /\ ToolSteps /\ FilesFit /\ AllTrue /\ InHand /\ RecordedStays /\ ChainsEnd
  BY DEF VmInv
<1>2. Handlers = {h}
  BY Alone
<1>3. /\ step[h] = "thin" /\ i \in Instances /\ op[h] \in {"fork", "reset"}
      /\ op[h] = "fork" => /\ vmDisk[i] = 0 /\ vmManifest[i] = Missing
                           /\ i \in directory /\ source[h] \in Instances
      /\ step' = [step EXCEPT ![h] = "idle"] /\ loaded' = [loaded EXCEPT ![h] = Missing]
      /\ UNCHANGED <<vmManifest, running, doubtful, adopted, recorded, vmCall, calls>>
  BY <1>1 DEF ThinFails, At, ToolSteps, InHand, Return, Goto
<1>4. \/ /\ directory' = directory \/ (op[h] = "fork" /\ directory' = directory \ {i})
         /\ vmDisk' = vmDisk \/ (op[h] = "reset" /\ vmDisk' = [vmDisk EXCEPT ![i] = 0])
         /\ UNCHANGED <<images, lastDisk>>
      \/ /\ op[h] = "fork" /\ directory' = directory /\ Openable(source[h])
         /\ lastDisk < MaxDisks /\ lastDisk' = f /\ vmDisk' = [vmDisk EXCEPT ![i] = f]
         /\ images' = [images EXCEPT ![f] = Overlay(source[h])]
  BY DEF ThinFails, NewImage, BaseOf, vmFiles
<1>5. nvram' \in [Instances -> Instances \cup {NoInstance}]
  <2>1. nvram' = nvram \/ (op[h] = "reset" /\ CopyNvram(h))
    BY DEF ThinFails, vmFiles
  <2>2. nvram \in [Instances -> Instances \cup {NoInstance}] /\ loaded[h] \in Manifests
    BY <1>1, Typed DEF VmTypes
  <2>3. loaded[h].backing \in Instances \cup {NoInstance}
    BY <2>2 DEF Manifests
  <2> QED
    BY <1>3, <2>1, <2>2, <2>3 DEF CopyNvram
<1>6. /\ vmDisk' \in [Instances -> 0..MaxDisks] /\ lastDisk' \in 0..MaxDisks
      /\ images' \in [1..MaxDisks -> Images] /\ lastDisk <= lastDisk'
      /\ \A j \in Instances : vmDisk'[j] <= lastDisk' /\ running[j] <= lastDisk'
      /\ \A j \in Instances \ {i} : /\ vmDisk'[j] = vmDisk[j]
                                    /\ vmDisk[j] # 0 => images'[vmDisk[j]] = images[vmDisk[j]]
      /\ ChainsEnd'
  <2>1. /\ vmDisk \in [Instances -> 0..MaxDisks] /\ images \in [1..MaxDisks -> Images]
        /\ lastDisk \in Nat /\ MaxDisks \in Nat /\ lastDisk \in 0..MaxDisks
        /\ \A j \in Instances : /\ vmDisk[j] \in Nat /\ vmDisk[j] <= lastDisk
                                /\ running[j] \in Nat /\ running[j] <= lastDisk
    BY <1>1, Typed DEF VmConstants, FilesFit
  <2>2. CASE UNCHANGED <<images, lastDisk>> /\ vmDisk' = vmDisk
    BY <1>1, <1>3, <2>1, <2>2, ChainsKept
  <2>3. CASE UNCHANGED <<images, lastDisk>> /\ vmDisk' = [vmDisk EXCEPT ![i] = 0]
    <3>1. vmDisk'[i] = 0 /\ \A j \in Instances \ {i} : vmDisk'[j] = vmDisk[j]
      BY <1>3, <2>1, <2>3
    <3>4. 0 \in 0..MaxDisks /\ 0 <= lastDisk
      BY <2>1
    <3>5. vmDisk' \in [Instances -> 0..MaxDisks]
      BY <2>1, <2>3, <3>4
    <3>6. \A j \in Instances : vmDisk'[j] <= lastDisk
      BY <2>1, <3>1, <3>4
    <3>2. vmDisk' \in [Instances -> 0..MaxDisks] /\ \A j \in Instances : vmDisk'[j] <= lastDisk
      BY <3>5, <3>6
    <3>3. ChainsEnd'
      BY <1>1, <1>3, <2>3, <3>1, ChainsKept
    <3> QED
      BY <2>1, <2>3, <3>1, <3>2, <3>3
  <2>4. CASE /\ op[h] = "fork" /\ Openable(source[h])
             /\ lastDisk < MaxDisks /\ lastDisk' = f /\ vmDisk' = [vmDisk EXCEPT ![i] = f]
             /\ images' = [images EXCEPT ![f] = Overlay(source[h])]
    <3>1. Overlay(source[h]) \in Images /\ Overlay(source[h]).base = source[h]
      BY <1>3, <2>4 DEF Overlay, NoImage, Images
    <3>2. f \in 1..MaxDisks /\ f \in 0..MaxDisks /\ lastDisk <= f
      BY <2>1, <2>4
    <3>3. /\ vmDisk' \in [Instances -> 0..MaxDisks] /\ images' \in [1..MaxDisks -> Images]
          /\ vmDisk'[i] = f /\ images'[f].base = source[h]
      BY <1>3, <2>1, <2>4, <3>1, <3>2
    <3>4. \A j \in Instances : vmDisk[j] # f /\ (vmDisk[j] # 0 => vmDisk[j] \in 1..MaxDisks)
      BY <2>1
    <3>5. \A j \in Instances \ {i} : /\ vmDisk'[j] = vmDisk[j]
                                     /\ vmDisk[j] # 0 => images'[vmDisk[j]] = images[vmDisk[j]]
      BY <2>1, <2>4, <3>2, <3>4
    <3>6. \A j \in Instances : vmDisk'[j] <= lastDisk' /\ running[j] <= lastDisk'
      BY <2>1, <2>4, <3>3, <3>5
    <3>7. ChainsEnd'
      BY <1>1, <1>3, <2>4, <3>3, <3>5, ChainGrows
    <3> QED
      BY <2>4, <3>2, <3>3, <3>5, <3>6, <3>7
  <2> QED
    BY <1>4, <2>2, <2>3, <2>4
<1>7. VmTypes'
  <2>1. step' \in [Handlers -> {"idle", "begin", "load", "thin", "truncate", "write"}]
    BY <1>1, <1>3, Typed
  <2>2. loaded' \in [Handlers -> Manifests]
    BY <1>1, <1>3, MissingIs DEF VmTypes
  <2>3. directory' \subseteq Instances
    BY <1>1, <1>4, Typed
  <2>4. \A j \in Instances : vmDisk'[j] # 0 => j \in directory'
    <3>1. \A j \in Instances : vmDisk[j] # 0 => j \in directory
      BY <1>1, Typed
    <3>2. ASSUME NEW j \in Instances \ {i}, vmDisk'[j] # 0
          PROVE  j \in directory'
      BY <1>4, <1>6, <3>1, <3>2
    <3>3. vmDisk'[i] # 0 => i \in directory'
      BY <1>1, <1>3, <1>4, <3>1, Typed
    <3> QED
      BY <3>2, <3>3
  <2> QED
    BY <1>1, <1>3, <1>5, <1>6, <2>1, <2>2, <2>3, <2>4, Typed, TypedBack DEF VmTypes, vmCall
<1>8. step'[h] = "idle"
  BY <1>1, <1>3, Typed
<1>9. ToolSteps' /\ InHand'
  BY <1>2, <1>8 DEF ToolSteps, InHand
<1>10. FilesFit'
  BY <1>1, <1>3, <1>4, <1>6 DEF FilesFit
<1>11. AllTrue'
  <2>1. \A j \in Instances : Lists(j, vmManifest[j]) /\ Names(j, vmManifest[j])
    BY <1>1, <1>2, <1>3 DEF AllTrue, Saving
  <2>2. ASSUME NEW j \in Instances \ {i}
        PROVE  Lists(j, vmManifest[j])' /\ Names(j, vmManifest[j])'
    BY <1>3, <1>6, <2>1 DEF Lists, Names
  <2>3. Lists(i, vmManifest[i])' /\ Names(i, vmManifest[i])'
    <3>1. CASE op[h] = "fork"
      BY <1>3, <3>1, MissingIs DEF Lists, Names, vmCall
    <3>2. CASE op[h] = "reset"
      <4>1. images' = images /\ (vmDisk'[i] = vmDisk[i] \/ vmDisk'[i] = 0)
        BY <1>1, <1>3, <1>4, <3>2, Typed
      <4> QED
        BY <1>3, <2>1, <4>1 DEF Lists, Names, vmCall
    <3> QED
      BY <1>3, <3>1, <3>2
  <2> QED
    BY <1>3, <2>2, <2>3 DEF AllTrue, vmCall
<1>12. RecordedStays'
  BY <1>1, <1>3 DEF RecordedStays
<1> QED
  BY <1>6, <1>7, <1>9, <1>10, <1>11, <1>12 DEF VmInv

(* The disk of an instance that is made, new or another's; the others keep *)
(* theirs, but for the one it was taken from.                              *)
DiskFits(i) ==
  /\ vmDisk' \in [Instances -> 0..MaxDisks] /\ lastDisk' \in 0..MaxDisks
  /\ images' \in [1..MaxDisks -> Images] /\ vmDisk'[i] \in 1..MaxDisks
  /\ adopted' \subseteq Instances
  /\ \A j \in Instances : vmDisk'[j] <= lastDisk' /\ running[j] <= lastDisk'
  /\ \A j \in Instances : (j # i \/ vmDisk[i] # 0) /\ vmDisk'[j] # 0 =>
       vmDisk'[j] = vmDisk[j] /\ images'[vmDisk[j]] = images[vmDisk[j]]
  /\ ChainsEnd'

LEMMA DiskMadeFits ==
  ASSUME VmConstants, VmInv, NEW h \in Handlers, target[h] \in Instances,
         op[h] \in {"create", "migrate"}, DiskMade(h)
  PROVE  DiskFits(target[h])
<1> DEFINE i == target[h]
           f == lastDisk + 1
<1>1. VmTypes /\ FilesFit /\ ChainsEnd
  BY DEF VmInv
<1>2. /\ vmDisk \in [Instances -> 0..MaxDisks] /\ images \in [1..MaxDisks -> Images]
      /\ lastDisk \in Nat /\ MaxDisks \in Nat /\ lastDisk \in 0..MaxDisks
      /\ adopted \subseteq Instances
      /\ \A j \in Instances : /\ vmDisk[j] \in Nat /\ vmDisk[j] <= lastDisk
                              /\ running[j] \in Nat /\ running[j] <= lastDisk
  BY <1>1, Typed DEF VmConstants, FilesFit
<1>3. CASE vmDisk[i] # 0
  <2>1. UNCHANGED <<vmDisk, images, lastDisk, adopted>>
    BY <1>3 DEF DiskMade
  <2>2. ChainsEnd'
    BY <1>1, <2>1, ChainsKept
  <2> QED
    BY <1>2, <1>3, <2>1, <2>2 DEF DiskFits
<1>4. ASSUME NEW snaps \in SUBSET Snapshots, NewImage(i, Plain(snaps)),
             adopted' \in {adopted, IF images'[vmDisk'[i]].base = NoInstance THEN adopted ELSE adopted \cup {i}},
             vmDisk[i] = 0
      PROVE  DiskFits(i)
  <2>1. Plain(snaps) \in Images /\ Plain(snaps).base = NoInstance
    BY DEF Plain, NoImage, Images
  <2>2. /\ f \in 1..MaxDisks /\ f \in 0..MaxDisks /\ lastDisk <= f /\ lastDisk' = f
        /\ vmDisk' = [vmDisk EXCEPT ![i] = f] /\ images' = [images EXCEPT ![f] = Plain(snaps)]
    BY <1>2, <1>4 DEF NewImage
  <2>3. /\ vmDisk' \in [Instances -> 0..MaxDisks] /\ images' \in [1..MaxDisks -> Images]
        /\ vmDisk'[i] = f /\ images'[f].base = NoInstance
    BY <1>2, <2>1, <2>2
  <2>4. adopted' = adopted
    BY <1>4, <2>3
  <2>5. \A j \in Instances : vmDisk[j] # f /\ (vmDisk[j] # 0 => vmDisk[j] \in 1..MaxDisks)
    BY <1>2
  <2>6. \A j \in Instances \ {i} : /\ vmDisk'[j] = vmDisk[j]
                                   /\ vmDisk[j] # 0 => images'[vmDisk[j]] = images[vmDisk[j]]
    BY <1>2, <2>2, <2>5
  <2>7. \A j \in Instances : vmDisk'[j] <= lastDisk' /\ running[j] <= lastDisk'
    BY <1>2, <2>2, <2>3, <2>6
  <2>8. ChainsEnd'
    <3>1. \A j \in Instances : vmDisk'[j] # 0 =>
             \/ images'[vmDisk'[j]].base = NoInstance \/ j \in adopted'
             \/ /\ vmDisk[j] # 0 /\ j \notin adopted /\ images'[vmDisk'[j]].base = images[vmDisk[j]].base
      <4>1. ASSUME NEW j \in Instances \ {i}, vmDisk'[j] # 0
            PROVE  images'[vmDisk'[j]].base = NoInstance \/ j \in adopted' \/
                   (vmDisk[j] # 0 /\ j \notin adopted /\ images'[vmDisk'[j]].base = images[vmDisk[j]].base)
        <5>0. vmDisk'[j] = vmDisk[j]
          BY <2>6
        <5>1. vmDisk'[j] = vmDisk[j] /\ images'[vmDisk[j]] = images[vmDisk[j]]
          BY <2>6, <4>1, <5>0
        <5>2. images'[vmDisk'[j]].base = images[vmDisk[j]].base /\ vmDisk[j] # 0
          BY <4>1, <5>1
        <5> QED
          BY <2>4, <5>2
      <4> QED
        BY <2>3, <4>1
    <3> QED
      BY <1>1, <3>1, ChainsKept
  <2> QED
    BY <1>2, <1>4, <2>2, <2>3, <2>4, <2>6, <2>7, <2>8 DEF DiskFits
<1>5. ASSUME NEW j \in Instances, Move(j, i), vmDisk[i] = 0,
             adopted' = IF images'[vmDisk'[i]].base = NoInstance THEN adopted ELSE adopted \cup {i}
      PROVE  DiskFits(i)
  <2>1. /\ j # i /\ vmDisk[j] # 0 /\ vmDisk' = [vmDisk EXCEPT ![i] = vmDisk[j], ![j] = 0]
        /\ images' = images /\ lastDisk' = lastDisk
    BY <1>5 DEF Move
  <2>2. /\ vmDisk' \in [Instances -> 0..MaxDisks] /\ vmDisk'[i] = vmDisk[j] /\ vmDisk'[j] = 0
        /\ \A k \in Instances \ {i, j} : vmDisk'[k] = vmDisk[k]
    <3>1. vmDisk[j] \in 0..MaxDisks /\ 0 \in 0..MaxDisks /\ i \in Instances
      BY <1>2
    <3> HIDE DEF i
    <3> QED
      BY <1>2, <2>1, <3>1
  <2>3. adopted' \subseteq Instances /\ adopted \subseteq adopted'
        /\ (images[vmDisk[j]].base = NoInstance \/ i \in adopted')
    BY <1>2, <1>5, <2>1, <2>2
  <2>4. ChainsEnd'
    <3>1. ASSUME NEW k \in Instances, vmDisk'[k] # 0
          PROVE  \/ images'[vmDisk'[k]].base = NoInstance \/ k \in adopted'
                 \/ /\ vmDisk[k] # 0 /\ k \notin adopted /\ images'[vmDisk'[k]].base = images[vmDisk[k]].base
      BY <2>1, <2>2, <2>3, <3>1
    <3> QED
      BY <1>1, <3>1, ChainsKept
  <2>5. vmDisk'[i] \in 1..MaxDisks
    BY <1>2, <2>1, <2>2
  <2>6. \A k \in Instances : vmDisk'[k] <= lastDisk'
    BY <1>2, <2>1, <2>2
  <2> QED
    BY <1>2, <1>5, <2>1, <2>2, <2>3, <2>4, <2>5, <2>6 DEF DiskFits
<1>6. CASE vmDisk[i] = 0
  <2>1. \/ NewImage(i, Plain({})) /\ adopted' = adopted
        \/ /\ (\E snaps \in SUBSET Snapshots : NewImage(i, Plain(snaps))) \/ (\E j \in Instances : Move(j, i))
           /\ adopted' = IF images'[vmDisk'[i]].base = NoInstance THEN adopted ELSE adopted \cup {i}
    BY <1>6 DEF DiskMade
  <2> QED
    BY <1>4, <1>5, <1>6, <2>1
<1> QED
  BY <1>2, <1>3, <1>6

LEMMA MakeDiskKeeps ==
  ASSUME OneHandler, VmConstants, VmInv, NEW h \in Handlers, MakeDisk(h)
  PROVE  VmInv'
<1> DEFINE i == target[h]
<1>1. VmTypes /\ ToolSteps /\ FilesFit /\ AllTrue /\ InHand /\ RecordedStays /\ ChainsEnd
  BY DEF VmInv
<1>2. Handlers = {h}
  BY Alone
<1>3. /\ step[h] = "begin" /\ i \in Instances /\ op[h] \in {"create", "migrate"} /\ DiskMade(h)
      /\ directory' = directory \cup {i}
      /\ nvram' = [nvram EXCEPT ![i] = IF @ = NoInstance \/ op[h] = "migrate" THEN i ELSE @]
      /\ step' = [step EXCEPT ![h] = "truncate"]
      /\ UNCHANGED <<vmManifest, running, doubtful, recorded, vmCall, calls>>
  BY <1>1 DEF MakeDisk, At, ToolSteps, Goto
<1>4. PICK snaps \in {{}, images'[vmDisk'[i]].snaps} :
        loaded' = [loaded EXCEPT ![h] = NewManifest(snaps, NoInstance)]
  BY DEF MakeDisk
<1>5. DiskFits(i)
  BY <1>3, DiskMadeFits
<1>6. /\ vmDisk' \in [Instances -> 0..MaxDisks] /\ lastDisk' \in 0..MaxDisks
      /\ images' \in [1..MaxDisks -> Images] /\ vmDisk'[i] \in 1..MaxDisks
      /\ adopted' \subseteq Instances
      /\ \A j \in Instances : vmDisk'[j] <= lastDisk' /\ running[j] <= lastDisk'
      /\ \A j \in Instances \ {i} : vmDisk'[j] # 0 =>
           vmDisk'[j] = vmDisk[j] /\ images'[vmDisk[j]] = images[vmDisk[j]]
      /\ ChainsEnd'
  BY <1>5 DEF DiskFits
<1>7. snaps \subseteq Snapshots /\ snaps \subseteq images'[vmDisk'[i]].snaps
  BY <1>6 DEF Images
<1>8. /\ NewManifest(snaps, NoInstance) \in Manifests
      /\ NewManifest(snaps, NoInstance).snaps = snaps
      /\ NewManifest(snaps, NoInstance).state = "whole"
      /\ NewManifest(snaps, NoInstance).backing = NoInstance
  BY <1>7, NewManifestIs
<1>9. /\ loaded'[h] = NewManifest(snaps, NoInstance) /\ step'[h] = "truncate"
      /\ loaded' \in [Handlers -> Manifests]
      /\ step' \in [Handlers -> {"idle", "begin", "load", "thin", "truncate", "write"}]
  <2>1. loaded \in [Handlers -> Manifests]
    BY <1>1 DEF VmTypes
  <2>2. loaded'[h] = NewManifest(snaps, NoInstance) /\ loaded' \in [Handlers -> Manifests]
    BY <1>4, <1>8, <2>1
  <2>3. step'[h] = "truncate"
        /\ step' \in [Handlers -> {"idle", "begin", "load", "thin", "truncate", "write"}]
    BY <1>1, <1>3, Typed
  <2> QED
    BY <2>2, <2>3
<1>10. VmTypes'
  <2>1. nvram' \in [Instances -> Instances \cup {NoInstance}]
    BY <1>1, <1>3, Typed
  <2>2. directory' \subseteq Instances
    BY <1>1, <1>3, Typed
  <2>3. \A j \in Instances : vmDisk'[j] # 0 => j \in directory'
    BY <1>1, <1>3, <1>6, Typed
  <2> QED
    BY <1>1, <1>3, <1>6, <1>9, <2>1, <2>2, <2>3, Typed, TypedBack DEF VmTypes, vmCall
<1>11. ToolSteps'
  BY <1>1, <1>2, <1>3, <1>8, <1>9 DEF ToolSteps, vmCall
<1>12. FilesFit'
  BY <1>1, <1>3, <1>6 DEF FilesFit
<1>13. AllTrue'
  <2>1. \A j \in Instances : Lists(j, vmManifest[j]) /\ Names(j, vmManifest[j])
    BY <1>1, <1>2, <1>3 DEF AllTrue, Saving
  <2>2. Saving(i)'
    BY <1>3, <1>9 DEF Saving, vmCall
  <2>3. ASSUME NEW j \in Instances \ {i}
        PROVE  Lists(j, vmManifest[j])' /\ Names(j, vmManifest[j])'
    BY <1>3, <1>6, <2>1 DEF Lists, Names
  <2> QED
    BY <1>3, <2>2, <2>3 DEF AllTrue, vmCall
<1>14. InHand'
  <2>1. Patched(h)' = NewManifest(snaps, NoInstance)
    BY <1>3, <1>9 DEF Patched, vmCall
  <2>2. Lists(i, Patched(h))' /\ Names(i, Patched(h))'
    BY <1>3, <1>7, <1>8, <2>1 DEF Lists, Names, vmCall
  <2> QED
    BY <1>2, <1>3, <1>9, <2>2 DEF InHand, vmCall
<1>15. RecordedStays'
  BY <1>1, <1>3 DEF RecordedStays
<1> QED
  BY <1>6, <1>10, <1>11, <1>12, <1>13, <1>14, <1>15 DEF VmInv

LEMMA MakeDiskFailsKeeps ==
  ASSUME OneHandler, VmConstants, VmInv, NEW h \in Handlers, MakeDiskFails(h)
  PROVE  VmInv'
<1> DEFINE i == target[h]
<1>1. VmTypes /\ ToolSteps /\ FilesFit /\ AllTrue /\ InHand /\ RecordedStays /\ ChainsEnd
  BY DEF VmInv
<1>2. Handlers = {h}
  BY Alone
<1>3. /\ step[h] = "begin" /\ i \in Instances /\ op[h] \in {"create", "migrate"}
      /\ directory' = directory \cup {i}
      /\ step' = [step EXCEPT ![h] = "idle"] /\ loaded' = [loaded EXCEPT ![h] = Missing]
      /\ UNCHANGED <<nvram, vmManifest, running, recorded, vmCall, calls>>
  BY <1>1 DEF MakeDiskFails, At, ToolSteps, Return, Goto
<1>4. \/ UNCHANGED <<vmDisk, images, lastDisk, adopted, doubtful>>
      \/ DiskMade(h) /\ doubtful' = IF vmDisk[i] = 0 THEN doubtful \cup {i} ELSE doubtful
  BY DEF MakeDiskFails
<1>5. /\ vmDisk' \in [Instances -> 0..MaxDisks] /\ lastDisk' \in 0..MaxDisks
      /\ images' \in [1..MaxDisks -> Images] /\ adopted' \subseteq Instances
      /\ doubtful \subseteq doubtful' /\ doubtful' \subseteq Instances
      /\ \A j \in Instances : vmDisk'[j] <= lastDisk' /\ running[j] <= lastDisk'
      /\ \A j \in Instances : j \notin doubtful' /\ vmDisk'[j] # 0 =>
           vmDisk'[j] = vmDisk[j] /\ images'[vmDisk[j]] = images[vmDisk[j]]
      /\ \A j \in Instances \ {i} : vmDisk'[j] # 0 => vmDisk[j] # 0
      /\ ChainsEnd'
  <2>1. CASE UNCHANGED <<vmDisk, images, lastDisk, adopted, doubtful>>
    <3>1. ChainsEnd'
      BY <1>1, <2>1, ChainsKept
    <3> QED
      BY <1>1, <2>1, <3>1, Typed DEF FilesFit
  <2>2. CASE DiskMade(h) /\ doubtful' = IF vmDisk[i] = 0 THEN doubtful \cup {i} ELSE doubtful
    <3>1. DiskFits(i)
      BY <1>3, <2>2, DiskMadeFits
    <3>2. /\ doubtful \subseteq doubtful' /\ doubtful' \subseteq Instances
          /\ vmDisk[i] = 0 => i \in doubtful'
      BY <1>1, <1>3, <2>2, Typed
    <3> QED
      BY <3>1, <3>2 DEF DiskFits
  <2> QED
    BY <1>4, <2>1, <2>2
<1>6. VmTypes'
  <2>1. step' \in [Handlers -> {"idle", "begin", "load", "thin", "truncate", "write"}]
    BY <1>1, <1>3, Typed
  <2>2. loaded' \in [Handlers -> Manifests]
    BY <1>1, <1>3, MissingIs DEF VmTypes
  <2>3. directory' \subseteq Instances
    BY <1>1, <1>3, Typed
  <2>4. \A j \in Instances : vmDisk'[j] # 0 => j \in directory'
    BY <1>1, <1>3, <1>5, Typed
  <2> QED
    BY <1>1, <1>3, <1>5, <2>1, <2>2, <2>3, <2>4, Typed, TypedBack DEF VmTypes, vmCall
<1>7. step'[h] = "idle"
  BY <1>1, <1>3, Typed
<1>8. ToolSteps' /\ InHand'
  BY <1>2, <1>7 DEF ToolSteps, InHand
<1>9. FilesFit'
  BY <1>1, <1>3, <1>5 DEF FilesFit
<1>10. AllTrue'
  <2>1. \A j \in Instances : Lists(j, vmManifest[j]) /\ Names(j, vmManifest[j])
    BY <1>1, <1>2, <1>3 DEF AllTrue, Saving
  <2>2. ASSUME NEW j \in Instances
        PROVE  Lists(j, vmManifest[j])' /\ Names(j, vmManifest[j])'
    BY <1>3, <1>5, <2>1 DEF Lists, Names
  <2> QED
    BY <2>2 DEF AllTrue
<1>11. RecordedStays'
  BY <1>1, <1>3 DEF RecordedStays
<1> QED
  BY <1>5, <1>6, <1>8, <1>9, <1>10, <1>11 DEF VmInv

LEMMA CallKeeps ==
  ASSUME OneHandler, VmConstants, VmInv, NEW h \in Handlers, VmBegin(h)
  PROVE  VmInv'
<1>1. VmTypes /\ ToolSteps /\ FilesFit /\ AllTrue /\ InHand /\ RecordedStays /\ ChainsEnd
  BY DEF VmInv
<1>2. Handlers = {h}
  BY Alone
<1>3. PICK i \in Instances \cup {NoInstance}, s \in Instances \cup {NoInstance}, o \in Ops,
           snap \in Snapshots \cup {NoSnapshot} :
        /\ i = NoInstance => o = "snapshot"
        /\ (s # NoInstance) = (o = "fork")
        /\ o = "snapshot" => snap # NoSnapshot
        /\ VmCall(h, o, i, s, snap)
  BY DEF VmBegin
<1>4. /\ step[h] = "idle" /\ calls < MaxCalls /\ calls' = calls + 1
      /\ op' = [op EXCEPT ![h] = o] /\ target' = [target EXCEPT ![h] = i]
      /\ source' = [source EXCEPT ![h] = s] /\ patch' = [patch EXCEPT ![h] = snap]
      /\ step' = [step EXCEPT ![h] = FirstStep(o, i)]
      /\ UNCHANGED <<directory, vmDisk, nvram, vmManifest, running, adopted, recorded, loaded, lastDisk>>
  BY <1>3 DEF VmCall
<1>5. PICK f \in 1..MaxDisks \cup {0} :
        \/ o # "snapshot" /\ images' = images /\ doubtful' = doubtful
        \/ /\ o = "snapshot" /\ f # 0 /\ images' = [images EXCEPT ![f].snaps = @ \cup {snap}]
           /\ doubtful' = IF i \in Instances /\ f # vmDisk[i] THEN doubtful \cup {i} ELSE doubtful
        \/ o = "snapshot" /\ doubtful' = doubtful \cup ({i} \cap Instances) /\ images' = images
  <2>1. CASE o # "snapshot"
    BY <1>3, <2>1 DEF VmCall
  <2>2. CASE o = "snapshot"
    <3>1. PICK j \in Instances : SaveVm(i, j, snap)
      BY <1>3, <2>2 DEF VmCall
    <3>2. running[j] \in 1..MaxDisks
      BY <1>1, <3>1, Typed DEF SaveVm, VmConstants
    <3> QED
      BY <2>2, <3>1, <3>2 DEF SaveVm
  <2> QED
    BY <2>1, <2>2
<1>6. o = "snapshot" => snap \in Snapshots
  BY <1>3
<1>7. /\ op'[h] = o /\ target'[h] = i /\ source'[h] = s /\ patch'[h] = snap
      /\ step'[h] = IF o \in {"create", "migrate"} THEN "begin" ELSE IF i = NoInstance THEN "idle" ELSE "load"
      /\ op' \in [Handlers -> Ops] /\ patch' \in [Handlers -> Snapshots \cup {NoSnapshot}]
      /\ target' \in [Handlers -> Instances \cup {NoInstance}]
      /\ source' \in [Handlers -> Instances \cup {NoInstance}]
      /\ step' \in [Handlers -> {"idle", "begin", "load", "thin", "truncate", "write"}]
  <2>1. FirstStep(o, i) = IF o \in {"create", "migrate"} THEN "begin" ELSE IF i = NoInstance THEN "idle" ELSE "load"
    BY <1>3 DEF FirstStep
  <2>2. op \in [Handlers -> Ops] /\ patch \in [Handlers -> Snapshots \cup {NoSnapshot}]
        /\ target \in [Handlers -> Instances \cup {NoInstance}]
        /\ source \in [Handlers -> Instances \cup {NoInstance}]
    BY <1>1 DEF VmTypes
  <2>3. step' \in [Handlers -> {"idle", "begin", "load", "thin", "truncate", "write"}] /\ step'[h] = FirstStep(o, i)
    BY <1>1, <1>4, <2>1, Typed
  <2> QED
    BY <1>4, <2>1, <2>2, <2>3
<1>8. /\ images' \in [1..MaxDisks -> Images]
      /\ \A g \in 1..MaxDisks : /\ images'[g].base = images[g].base
                                /\ images[g].snaps \subseteq images'[g].snaps
  <2>1. images \in [1..MaxDisks -> Images]
    BY <1>1, Typed
  <2>2. CASE images' = images
    BY <2>1, <2>2
  <2>3. CASE o = "snapshot" /\ f # 0 /\ images' = [images EXCEPT ![f].snaps = @ \cup {snap}]
    <3>1. f \in 1..MaxDisks
      BY <2>3
    <3>2. images[f] \in Images
      BY <2>1, <3>1
    <3>3. images' = [images EXCEPT ![f].snaps = @ \cup {snap}]
      BY <2>3
    <3>4. images'[f] = [images[f] EXCEPT !.snaps = @ \cup {snap}]
      BY <2>1, <3>1, <3>3
    <3>5. /\ images'[f] \in Images
          /\ images'[f].base = images[f].base
          /\ images[f].snaps \subseteq images'[f].snaps
      BY <1>6, <2>3, <3>2, <3>4 DEF Images
    <3>6. \A g \in 1..MaxDisks : g # f => images'[g] = images[g]
      BY <2>1, <3>3
    <3>7. images' = [g \in 1..MaxDisks |-> images'[g]]
      BY <2>1, <3>3
    <3>8. \A g \in 1..MaxDisks : images'[g] \in Images
      BY <2>1, <3>5, <3>6
    <3> QED
      BY <3>5, <3>6, <3>7, <3>8
  <2> QED
    BY <1>5, <2>2, <2>3
<1>9. \A j \in Instances : vmDisk[j] # 0 =>
        /\ images'[vmDisk[j]].base = images[vmDisk[j]].base
        /\ images[vmDisk[j]].snaps \subseteq images'[vmDisk[j]].snaps
  <2>1. \A j \in Instances : vmDisk[j] # 0 => vmDisk[j] \in 1..MaxDisks
    BY <1>1, Typed DEF VmConstants
  <2> QED
    BY <1>8, <2>1
<1>10. VmTypes'
  <2>1. calls' \in 0..MaxCalls
    BY <1>1, <1>4, Typed DEF VmConstants
  <2>2. doubtful' \subseteq Instances
    BY <1>1, <1>5, Typed
  <2> QED
    BY <1>1, <1>4, <1>7, <1>8, <2>1, <2>2, Typed, TypedBack DEF VmTypes
<1>11. ToolSteps'
  BY <1>1, <1>2, <1>3, <1>6, <1>7 DEF ToolSteps
<1>12. FilesFit'
  BY <1>1, <1>4, <1>5 DEF FilesFit
<1>13. AllTrue'
  <2>1. \A j \in Instances : Lists(j, vmManifest[j]) /\ Names(j, vmManifest[j])
    BY <1>1, <1>2, <1>4 DEF AllTrue, Saving
  <2>2. \A j \in Instances : j \notin doubtful' => j \notin doubtful
    BY <1>5
  <2>3. ASSUME NEW j \in Instances
        PROVE  Lists(j, vmManifest[j])' /\ Names(j, vmManifest[j])'
    BY <1>4, <1>9, <2>1, <2>2 DEF Lists, Names
  <2> QED
    BY <2>3 DEF AllTrue
<1>14. InHand'
  <2>1. ASSUME o = "snapshot", i \in Instances
        PROVE  Lists(i, NewManifest({snap}, NoInstance))'
    <3>1. ASSUME vmDisk[i] # 0, i \notin doubtful'
          PROVE  snap \in images'[vmDisk[i]].snaps
      <4>1. /\ f # 0 /\ f = vmDisk[i]
            /\ images' = [images EXCEPT ![f].snaps = @ \cup {snap}]
        BY <1>5, <2>1, <3>1
      <4>2. vmDisk[i] = f /\ vmDisk[i] \in 1..MaxDisks
        BY <4>1
      <4>3. images \in [1..MaxDisks -> Images] /\ images[vmDisk[i]] \in Images
        BY <1>1, <4>2, Typed
      <4> QED
        BY <4>1, <4>2, <4>3 DEF Images
    <3> QED
      BY <1>4, <3>1 DEF Lists, NewManifest
  <2> QED
    BY <1>1, <1>2, <1>3, <1>7, <2>1 DEF InHand
<1>15. RecordedStays'
  BY <1>1, <1>4 DEF RecordedStays
<1>16. ChainsEnd'
  BY <1>1, <1>4, <1>9, ChainsKept
<1> QED
  BY <1>10, <1>11, <1>12, <1>13, <1>14, <1>15, <1>16 DEF VmInv

LEMMA DeleteKeeps ==
  ASSUME OneHandler, VmConstants, VmInv, NEW h \in Handlers, NEW i \in Instances,
     Delete(h, i)
  PROVE  VmInv'
<1>1. VmTypes /\ ToolSteps /\ FilesFit /\ AllTrue /\ InHand /\ RecordedStays /\ ChainsEnd
  BY DEF VmInv
<1>2. Handlers = {h}
  BY Alone
<1>3. /\ step[h] = "idle" /\ calls < MaxCalls /\ calls' = calls + 1
      /\ directory' = directory \ {i}
      /\ vmDisk' = [vmDisk EXCEPT ![i] = 0] /\ nvram' = [nvram EXCEPT ![i] = NoInstance]
      /\ vmManifest' = [vmManifest EXCEPT ![i] = Missing]
      /\ doubtful' = doubtful \ {i} /\ adopted' = adopted \ {i}
      /\ recorded' = [recorded EXCEPT ![i] = {}]
      /\ UNCHANGED <<images, running, step, vmCall, loaded, lastDisk>>
  BY DEF Delete
<1>4. Missing \in Manifests /\ Missing.state # "whole" /\ Missing.backing = NoInstance
  BY MissingIs
<1>5. /\ vmDisk'[i] = 0 /\ vmManifest'[i] = Missing
      /\ \A j \in Instances \ {i} : vmDisk'[j] = vmDisk[j] /\ vmManifest'[j] = vmManifest[j]
                                    /\ recorded'[j] = recorded[j]
  BY <1>1, <1>3, Typed DEF VmTypes
<1>6. VmTypes'
  <2>1. vmDisk' \in [Instances -> 0..MaxDisks] /\ calls' \in 0..MaxCalls
    BY <1>1, <1>3, Typed DEF VmConstants
  <2>2. /\ nvram' \in [Instances -> Instances \cup {NoInstance}]
        /\ recorded' \in [Instances -> SUBSET Snapshots]
    BY <1>1, <1>3, Typed
  <2>3. directory' \subseteq Instances /\ doubtful' \subseteq Instances /\ adopted' \subseteq Instances
    BY <1>1, <1>3, Typed
  <2>4. \A j \in Instances : vmDisk'[j] # 0 => j \in directory'
    BY <1>1, <1>3, <1>5, Typed
  <2>5. vmManifest' \in [Instances -> Manifests]
    BY <1>1, <1>3, <1>4 DEF VmTypes
  <2> QED
    BY <1>1, <1>3, <2>1, <2>2, <2>3, <2>4, <2>5, Typed, TypedBack DEF VmTypes, vmCall
<1>7. ToolSteps' /\ InHand'
  BY <1>2, <1>3 DEF ToolSteps, InHand
<1>8. FilesFit'
  <2>1. \A j \in Instances : vmDisk'[j] <= lastDisk'
    BY <1>1, <1>3, <1>5, Typed DEF FilesFit
  <2> QED
    BY <1>1, <1>3, <1>5, <2>1 DEF FilesFit
<1>9. AllTrue'
  <2>1. \A j \in Instances : Lists(j, vmManifest[j]) /\ Names(j, vmManifest[j])
    BY <1>1, <1>2, <1>3 DEF AllTrue, Saving
  <2>2. \A j \in Instances \ {i} : j \notin doubtful' => j \notin doubtful
    BY <1>3
  <2>3. ASSUME NEW j \in Instances
        PROVE  Lists(j, vmManifest[j])' /\ Names(j, vmManifest[j])'
    BY <1>3, <1>5, <2>1, <2>2 DEF Lists, Names
  <2> QED
    BY <2>3 DEF AllTrue
<1>10. RecordedStays'
  BY <1>1, <1>4, <1>5 DEF RecordedStays
<1>11. ChainsEnd'
  BY <1>1, <1>3, <1>5, ChainsKept
<1> QED
  BY <1>6, <1>7, <1>8, <1>9, <1>10, <1>11 DEF VmInv

(* Starting and stopping a machine, and steps of nothing here.             *)
LEMMA MachinesKeep ==
  ASSUME VmConstants, VmInv,
         \/ \E h \in Handlers, i \in Instances, snap \in Snapshots \cup {NoSnapshot} : SessionStart(h, i, snap)
         \/ \E i \in Instances : Stop(i)
         \/ UNCHANGED vmVars
  PROVE  VmInv'
<1>1. VmTypes /\ ToolSteps /\ FilesFit /\ AllTrue /\ InHand /\ RecordedStays /\ ChainsEnd
  BY DEF VmInv
<1>2. /\ UNCHANGED <<vmFiles, vmManifest, doubtful, adopted, recorded, step, vmCall, loaded, calls, lastDisk>>
      /\ \/ UNCHANGED running
         \/ \E i \in Instances : running' = [running EXCEPT ![i] = vmDisk[i]]
         \/ \E i \in Instances : running' = [running EXCEPT ![i] = 0]
  BY DEF SessionStart, Stop, vmVars
<1>3. /\ running' \in [Instances -> 0..MaxDisks]
      /\ \A j \in Instances : running'[j] \in {running[j], vmDisk[j], 0}
  <2>1. running \in [Instances -> 0..MaxDisks] /\ vmDisk \in [Instances -> 0..MaxDisks] /\ 0 \in 0..MaxDisks
    BY <1>1, Typed DEF VmConstants
  <2> QED
    BY <1>2, <2>1
<1>4. VmTypes'
  BY <1>1, <1>2, <1>3, Typed, TypedBack DEF VmTypes, vmCall, vmFiles
<1>5. FilesFit'
  <2>1. \A j \in Instances : running[j] <= lastDisk /\ vmDisk[j] <= lastDisk
    BY <1>1 DEF FilesFit
  <2>2. 0 <= lastDisk
    BY <1>1, Typed DEF VmConstants
  <2>3. \A j \in Instances : running'[j] <= lastDisk
    BY <1>3, <2>1, <2>2
  <2> QED
    BY <1>1, <1>2, <1>3, <2>3 DEF FilesFit, vmFiles
<1>6. ToolSteps'
  BY <1>1, <1>2 DEF ToolSteps, vmCall
<1>7. AllTrue'
  BY <1>1, <1>2 DEF AllTrue, Saving, Lists, Names, vmCall, vmFiles
<1>8. InHand'
  <2>1. UNCHANGED <<directory, vmDisk, images, vmManifest, doubtful, recorded, step, op, target, patch, loaded>>
    BY <1>2 DEF vmCall, vmFiles
  <2>2. \A h \in Handlers : Patched(h)' = Patched(h)
    BY <2>1 DEF Patched
  <2> QED
    BY <1>1, <2>1, <2>2 DEF InHand, Lists, Names
<1>9. RecordedStays'
  BY <1>1, <1>2 DEF RecordedStays
<1>10. ChainsEnd'
  BY <1>1, <1>2, ChainsKept DEF vmFiles
<1> QED
  BY <1>4, <1>5, <1>6, <1>7, <1>8, <1>9, <1>10 DEF VmInv

LEMMA InitSound ==
  ASSUME VmConstants, VmInit
  PROVE  VmInv
<1>1. Missing \in Manifests /\ Missing.state # "whole" /\ NoImage \in Images
  BY MissingIs DEF NoImage, Images
<1>2. VmTypes
  <2>1. /\ vmDisk \in [Instances -> 0..MaxDisks] /\ running \in [Instances -> 0..MaxDisks]
        /\ calls \in 0..MaxCalls /\ lastDisk \in 0..MaxDisks
    BY DEF VmInit, VmConstants
  <2>2. images \in [1..MaxDisks -> Images] /\ vmManifest \in [Instances -> Manifests]
        /\ loaded \in [Handlers -> Manifests]
    BY <1>1 DEF VmInit
  <2>3. /\ op \in [Handlers -> Ops] /\ patch \in [Handlers -> Snapshots \cup {NoSnapshot}]
        /\ target \in [Handlers -> Instances \cup {NoInstance}]
        /\ source \in [Handlers -> Instances \cup {NoInstance}]
        /\ step \in [Handlers -> {"idle", "begin", "load", "thin", "truncate", "write"}]
        /\ nvram \in [Instances -> Instances \cup {NoInstance}]
        /\ recorded \in [Instances -> SUBSET Snapshots]
        /\ directory \subseteq Instances /\ doubtful \subseteq Instances /\ adopted \subseteq Instances
        /\ \A i \in Instances : vmDisk[i] # 0 => i \in directory
    BY DEF VmInit, Ops
  <2>4. \A m \in {vmManifest[i] : i \in Instances} \cup {loaded[h] : h \in Handlers} : m \in Manifests
    BY <2>2
  <2> QED
    BY <2>1, <2>2, <2>3, <2>4 DEF VmTypes, VmTypeOK, Manifests, Images
<1>3. ToolSteps /\ InHand
  BY DEF VmInit, ToolSteps, InHand
<1>4. FilesFit
  BY DEF VmInit, FilesFit
<1>5. AllTrue /\ RecordedStays
  BY <1>1 DEF VmInit, AllTrue, RecordedStays, Lists, Names
<1>6. ChainsEnd
  <2>1. {j \in Instances : vmDisk[j] # 0} = {}
    BY DEF VmInit
  <2>2. \A i, j : <<i, j>> \notin {<<k, images[vmDisk[k]].base>> : k \in {q \in Instances : vmDisk[q] # 0}}
    BY <2>1
  <2>3. ASSUME NEW S \in (SUBSET (Instances \ adopted)) \ {{}}
        PROVE  \E i \in S : \A j \in S :
                 <<i, j>> \notin {<<k, images[vmDisk[k]].base>> : k \in {q \in Instances : vmDisk[q] # 0}}
    <3>1. PICK i : i \in S
      OBVIOUS
    <3> QED
      BY <2>2, <3>1
  <2> QED
    BY <2>3 DEF ChainsEnd
<1> QED
  BY <1>2, <1>3, <1>4, <1>5, <1>6 DEF VmInv

(* One call after another, what the manifests say of the disks is so, no   *)
(* recorded snapshot is forgotten, and no chain of bases closes, whatever  *)
(* is made, forked, reset, renamed by deleting, or fails half way.  Two    *)
(* calls at once can lose a snapshot: nothing locks a manifest.            *)
THEOREM InstancesStaySound ==
  ASSUME OneHandler
  PROVE  VmSpec => []InstancesSound
<1>1. VmInit => VmInv
  BY VmConstants, InitSound
<1>2. VmInv /\ [VmNext]_vmVars => VmInv'
  <2> SUFFICES ASSUME VmInv, [VmNext]_vmVars
               PROVE  VmInv'
    OBVIOUS
  <2>1. ASSUME NEW h \in Handlers,
               \/ VmBegin(h) \/ MakeDisk(h) \/ MakeDiskFails(h) \/ Load(h) \/ Thin(h) \/ ThinFails(h)
               \/ Truncate(h) \/ Write(h) \/ \E i \in Instances : Delete(h, i)
        PROVE  VmInv'
    BY <2>1, VmConstants, CallKeeps, MakeDiskKeeps, MakeDiskFailsKeeps, LoadKeeps,
       ThinKeeps, ThinFailsKeeps, TruncateKeeps, WriteKeeps, DeleteKeeps
  <2>2. ASSUME \/ \E h \in Handlers, i \in Instances, snap \in Snapshots \cup {NoSnapshot} :
                    SessionStart(h, i, snap)
               \/ \E i \in Instances : Stop(i)
               \/ UNCHANGED vmVars
        PROVE  VmInv'
    BY <2>2, VmConstants, MachinesKeep
  <2> QED
    BY <2>1, <2>2 DEF VmNext
<1>3. VmInv => InstancesSound
  <2> SUFFICES ASSUME VmInv PROVE InstancesSound
    OBVIOUS
  <2>1. AllTrue /\ RecordedStays /\ ChainsEnd
    BY DEF VmInv
  <2>2. Between => \A i \in Instances : Lists(i, vmManifest[i]) /\ Names(i, vmManifest[i])
    BY <2>1 DEF AllTrue, Saving, Between
  <2>3. ListedIsThere /\ BackingKnown
    BY <2>2 DEF ListedIsThere, BackingKnown, Lists, Names
  <2> QED
    BY <2>1, <2>3 DEF InstancesSound, ManifestsTrue
<1> QED
  BY <1>1, <1>2, <1>3, PTL DEF VmSpec

-----------------------------------------------------------------------------
(* EfsImage: numbers and paths.                                            *)

(* A set of numbers that holds 0 and with each number the next holds all. *)
LEMMA AllNumbers ==
  ASSUME NEW T, 0 \in T, \A n \in Nat : n \in T => n + 1 \in T
  PROVE  Nat \subseteq T
<1> DEFINE R == OpToRel(<, Nat)
           Without == Nat \ T
<1>1. SUFFICES ASSUME Without # {} PROVE FALSE
  BY Zenon DEF Without
<1>2. IsWellFoundedOn(R, Nat)
  BY NatLessThanWellFounded
<1>3. \A x, y \in Nat : <<x, y>> \in R <=> x < y
  BY DEF OpToRel
<1>4. Without \subseteq Nat
  BY Zenon DEF Without
<1> HIDE DEF R
<1>5. PICK x \in Without : \A y \in Without : ~(<<y, x>> \in R)
  <2> HIDE DEF Without
  <2> QED
    BY <1>1, <1>2, <1>4, WFMin
<1>6. x \in Nat /\ x \notin T
  BY <1>5 DEF Without
<1>7. x # 0 /\ x - 1 \in Nat /\ x - 1 < x /\ (x - 1) + 1 = x
  BY <1>6
<1>8. x - 1 \in T
  BY <1>3, <1>5, <1>6, <1>7 DEF Without
<1> QED
  BY <1>6, <1>7, <1>8

LEMMA PathNumbers ==
  /\ Root \in Paths /\ Paths \subseteq Nat /\ IsFiniteSet(Paths)
  /\ \A p \in Paths : p \in Nat
  /\ \A p \in Paths : p # Root => /\ Parent[p] \in Paths /\ Parent[p] \in Nat
                                  /\ Parent[p] < p /\ p > 0
  /\ \A p \in Paths, q \in Nat : q <= p => q \in Paths
<1>1. /\ Paths = 0..(Cardinality(Paths) - 1) /\ IsFiniteSet(Paths) /\ Root \in Paths
      /\ Parent \in [Paths \ {Root} -> Paths] /\ \A p \in Paths \ {Root} : Parent[p] < p
  BY EfsConstants
<1>2. Cardinality(Paths) \in Nat
  BY <1>1, FS_CardinalityType
<1> QED
  BY <1>1, <1>2 DEF Root

(* Above is what its definition says.                                      *)
LEMMA AboveIs ==
  /\ Above = [p \in Paths |-> IF p = Root THEN {} ELSE {Parent[p]} \cup Above[Parent[p]]]
<1> DEFINE Grows(g, n) == \A p \in Paths : p <= n => g[p] = IF p = Root THEN {} ELSE {Parent[p]} \cup g[Parent[p]]
           T == {n \in Nat : \E g : g = [p \in Paths |-> g[p]] /\ Grows(g, n)}
<1>1. 0 \in T
  <2>1. Grows([p \in Paths |-> {}], 0)
    BY PathNumbers DEF Root
  <2>2. 0 \in Nat
    OBVIOUS
  <2> DEFINE h == [p \in Paths |-> {}]
  <2>3. h = [p \in Paths |-> h[p]]
    OBVIOUS
  <2> HIDE DEF h, Grows
  <2> QED
    BY <2>1, <2>2, <2>3 DEF h
<1>2. ASSUME NEW n \in Nat, n \in T
      PROVE  n + 1 \in T
  <2>1. PICK g : g = [p \in Paths |-> g[p]] /\ Grows(g, n)
    BY <1>2
  <2> DEFINE h == [p \in Paths |-> IF p = n + 1 THEN {Parent[p]} \cup g[Parent[p]] ELSE g[p]]
  <2>2. \A p \in Paths : p <= n => h[p] = g[p]
    BY PathNumbers
  <2>3. ASSUME NEW p \in Paths, p <= n + 1
        PROVE  h[p] = IF p = Root THEN {} ELSE {Parent[p]} \cup h[Parent[p]]
    <3>1. CASE p <= n
      <4>1. p # Root => Parent[p] \in Paths /\ Parent[p] <= n
        BY <3>1, PathNumbers
      <4> QED
        BY <2>1, <2>2, <3>1, <4>1
    <3>2. CASE p = n + 1
      <4>1. p # Root /\ Parent[p] \in Paths /\ Parent[p] <= n
        BY <3>2, PathNumbers DEF Root
      <4>2. h[p] = {Parent[p]} \cup g[Parent[p]]
        BY <3>2
      <4> QED
        BY <2>2, <4>1, <4>2
    <3> QED
      BY <2>3, <3>1, <3>2, PathNumbers
  <2>4. h = [p \in Paths |-> h[p]]
    OBVIOUS
  <2>5. Grows(h, n + 1)
    BY <2>3
  <2> HIDE DEF h, Grows
  <2> QED
    BY <2>4, <2>5
<1>3. Nat \subseteq T
  <2> HIDE DEF T
  <2> QED
    BY <1>1, <1>2, AllNumbers
<1>4. PICK g : g = [p \in Paths |-> g[p]] /\ Grows(g, Cardinality(Paths))
  <2>1. Cardinality(Paths) \in T
    BY <1>3, PathNumbers, FS_CardinalityType
  <2> QED
    BY <2>1
<1>5. \A p \in Paths : p <= Cardinality(Paths)
  <2>1. Paths = 0..(Cardinality(Paths) - 1) /\ Cardinality(Paths) \in Nat
    BY EfsConstants, FS_CardinalityType
  <2> QED
    BY <2>1
<1>6. g = [p \in Paths |-> IF p = Root THEN {} ELSE {Parent[p]} \cup g[Parent[p]]]
  BY <1>4, <1>5
<1> QED
  BY <1>6 DEF Above

(* A set of paths that holds the root, and with a folder what is in it,    *)
(* holds all.                                                              *)
LEMMA FromTheRoot ==
  ASSUME NEW U, Root \in U, \A p \in Paths : p # Root /\ Parent[p] \in U => p \in U
  PROVE  Paths \subseteq U
<1> DEFINE T == {n \in Nat : \A p \in Paths : p <= n => p \in U}
<1>1. 0 \in T
  <2>1. \A p \in Paths : p <= 0 => p = Root
    BY PathNumbers DEF Root
  <2> QED
    BY <2>1
<1>2. ASSUME NEW n \in Nat, n \in T
      PROVE  n + 1 \in T
  <2>1. ASSUME NEW p \in Paths, p <= n + 1
        PROVE  p \in U
    <3>1. p # Root => Parent[p] \in Paths /\ Parent[p] <= n
      BY <2>1, PathNumbers
    <3> QED
      BY <1>2, <3>1
  <2> QED
    BY <2>1
<1>3. Nat \subseteq T
  <2> HIDE DEF T
  <2> QED
    BY <1>1, <1>2, AllNumbers
<1>4. ASSUME NEW p \in Paths
      PROVE  p \in U
  <2>1. p \in Nat /\ p <= p
    BY PathNumbers
  <2> QED
    BY <1>3, <2>1
<1> QED
  BY <1>4

LEMMA AboveAre ==
  ASSUME NEW p \in Paths
  PROVE  /\ Above[p] \subseteq Paths /\ \A q \in Above[p] : q < p
         /\ \A q \in Above[p] : q # Root => Parent[q] \in Above[p]
         /\ p # Root => Above[p] = {Parent[p]} \cup Above[Parent[p]]
         /\ Above[Root] = {}
<1> DEFINE Good(u) == /\ Above[u] \subseteq Paths /\ \A q \in Above[u] : q < u
                      /\ \A q \in Above[u] : q # Root => Parent[q] \in Above[u]
           U == {u \in Paths : Good(u)}
<1>1. \A u \in Paths : Above[u] = IF u = Root THEN {} ELSE {Parent[u]} \cup Above[Parent[u]]
  BY AboveIs
<1>2. Root \in U
  BY <1>1, PathNumbers
<1>3. ASSUME NEW u \in Paths, u # Root, Parent[u] \in U
      PROVE  u \in U
  <2> DEFINE d == Parent[u]
  <2>1. d \in Paths /\ Good(d) /\ d < u /\ u \in Nat /\ d \in Nat
    BY <1>3, PathNumbers
  <2>2. Above[u] = {d} \cup Above[d]
    BY <1>1, <1>3
  <2>3. d # Root => Above[d] = {Parent[d]} \cup Above[Parent[d]]
    BY <1>1, <2>1
  <2> HIDE DEF d
  <2>4. \A q \in Above[u] : q < u
    <3>1. \A q \in Above[d] : q \in Nat /\ q < d
      BY <2>1, PathNumbers
    <3> QED
      BY <2>1, <2>2, <3>1
  <2>5. \A q \in Above[u] : q # Root => Parent[q] \in Above[u]
    BY <2>1, <2>2, <2>3
  <2> QED
    BY <2>1, <2>2, <2>4, <2>5
<1>4. Paths \subseteq U
  <2> HIDE DEF U
  <2> QED
    BY <1>2, <1>3, FromTheRoot
<1> QED
  BY <1>1, <1>4, PathNumbers

-----------------------------------------------------------------------------
(* EfsImage: divisions.                                                    *)

LEMMA EfsNumbers ==
  /\ BlockSize \in Nat /\ BlockSize > 0 /\ EntriesPerBlock \in Nat /\ EntriesPerBlock > 0
  /\ BitsPerBlock \in Nat /\ BitsPerBlock > 0 /\ InodesPerBlock \in Nat /\ InodesPerBlock > 0
  /\ InodeBlocks \in Nat /\ InodeBlocks > 0 /\ MinCgData \in Nat /\ CgSlack \in Nat
  /\ MaxExtents \in Nat /\ MaxExtents > 0 /\ MaxExtentLength \in Nat /\ MaxExtentLength > 0
  /\ Megabyte \in Nat /\ Megabyte > 0 /\ InodeSlack \in Nat /\ InodeSlack >= 2
  /\ InodesPerCg \in Nat /\ InodesPerCg > 0 /\ InodesPerCg = InodeBlocks * InodesPerBlock
  /\ MaxInjects \in Nat /\ Sizes \subseteq Nat /\ PartSizes \subseteq Nat
<1>1. /\ {BlockSize, EntriesPerBlock, BitsPerBlock, InodesPerBlock, InodeBlocks,
          MinCgData, CgSlack, MaxExtents, MaxExtentLength, Megabyte} \subseteq Nat \ {0}
      /\ InodesPerCg = InodeBlocks * InodesPerBlock
      /\ InodeSlack \in Nat /\ InodeSlack >= RootInode /\ MaxInjects \in Nat
      /\ Sizes \subseteq Nat /\ PartSizes \subseteq Nat
  BY EfsConstants
<1>2. \A n \in Nat \ {0} : n \in Nat /\ n > 0
  OBVIOUS
<1>3. \A m, n \in Nat : m > 0 /\ n > 0 => m * n \in Nat /\ m * n > 0
  BY Z3
<1>4. InodeBlocks \in Nat /\ InodeBlocks > 0 /\ InodesPerBlock \in Nat /\ InodesPerBlock > 0
  BY <1>1, <1>2
<1>5. InodesPerCg \in Nat /\ InodesPerCg > 0
  BY <1>1, <1>3, <1>4
<1> QED
  BY <1>1, <1>2, <1>4, <1>5 DEF RootInode

(* Quotient and remainder, and that there is one of each.                  *)
LEMMA QuotientIs ==
  ASSUME NEW n \in Nat, NEW d \in Nat, d > 0
  PROVE  /\ n \div d \in Nat /\ n % d \in 0..(d - 1)
         /\ n = (n \div d) * d + (n % d)
<1>1. n \div d \in Nat
  BY Z3
<1>2. n % d \in 0..(d - 1)
  BY Z3
<1>3. n = d * (n \div d) + (n % d)
  BY Z3
<1>4. \A q \in Nat : d * q = q * d
  BY Z3
<1> QED
  BY <1>1, <1>2, <1>3, <1>4

LEMMA OneQuotient ==
  ASSUME NEW d \in Nat, NEW q \in Nat, NEW r \in 0..(d - 1), NEW u \in Nat, NEW v \in 0..(d - 1),
         q * d + r = u * d + v
  PROVE  q = u /\ r = v
<1>1. ASSUME NEW a \in Nat, NEW b \in Nat, a < b
      PROVE  a * d + d <= b * d
  <2>1. PICK e \in Nat : b = a + 1 + e
    <3>1. b - a - 1 \in Nat /\ b = a + 1 + (b - a - 1)
      BY <1>1
    <3> QED
      BY <3>1
  <2>2. b * d = a * d + d + e * d /\ e * d >= 0
    BY <2>1, Z3
  <2> QED
    BY <2>2, Z3
<1>2. ~(q < u)
  <2>1. SUFFICES ASSUME q < u PROVE FALSE
    OBVIOUS
  <2>2. q * d + d <= u * d
    BY <1>1, <2>1
  <2> QED
    BY <2>2, Z3
<1>3. ~(u < q)
  <2>1. SUFFICES ASSUME u < q PROVE FALSE
    OBVIOUS
  <2>2. u * d + d <= q * d
    BY <1>1, <2>1
  <2> QED
    BY <2>2, Z3
<1>4. q = u
  BY <1>2, <1>3
<1>5. q * d = u * d
  BY <1>4
<1>6. q * d \in Nat
  BY Z3
<1> QED
  BY <1>4, <1>5, <1>6

LEMMA QuotientOf ==
  ASSUME NEW d \in Nat, NEW q \in Nat, NEW r \in 0..(d - 1)
  PROVE  (q * d + r) \div d = q /\ (q * d + r) % d = r
<1>1. q * d + r \in Nat /\ d > 0
  BY Z3
<1>2. DEFINE n == q * d + r
<1>3. n \div d \in Nat /\ n % d \in 0..(d - 1) /\ n = (n \div d) * d + (n % d)
  BY <1>1, QuotientIs
<1> QED
  BY <1>3, OneQuotient

LEMMA TimesGrows ==
  ASSUME NEW a \in Nat, NEW b \in Nat, NEW d \in Nat, a <= b
  PROVE  a * d \in Nat /\ b * d \in Nat /\ a * d <= b * d
<1>1. PICK e \in Nat : b = a + e
  <2>1. b - a \in Nat /\ b = a + (b - a)
    OBVIOUS
  <2> QED
    BY <2>1
<1>2. b * d = a * d + e * d /\ e * d >= 0
  BY <1>1, Z3
<1> QED
  BY <1>2, Z3

(* CeilDiv(a, b) is the least number of b's that make up a.                *)
LEMMA CeilDivIs ==
  ASSUME NEW a \in Nat, NEW b \in Nat, b > 0
  PROVE  /\ CeilDiv(a, b) \in Nat /\ a <= CeilDiv(a, b) * b
         /\ \A n \in Nat : a <= n * b => CeilDiv(a, b) <= n
         /\ a > 0 => CeilDiv(a, b) > 0
<1> DEFINE c == CeilDiv(a, b)
<1>1. a + b - 1 \in Nat
  OBVIOUS
<1>2. /\ c \in Nat /\ (a + b - 1) % b \in 0..(b - 1)
      /\ a + b - 1 = c * b + ((a + b - 1) % b)
  BY <1>1, QuotientIs DEF CeilDiv
<1> HIDE DEF c
<1>3. c * b \in Nat
  BY <1>2, Z3
<1>4. a <= c * b /\ c * b <= a + b - 1
  <2>1. SUFFICES ASSUME NEW x \in Nat, NEW y \in 0..(b - 1), a + b - 1 = x + y
                 PROVE  a <= x /\ x <= a + b - 1
    BY <1>2, <1>3
  <2> QED
    BY <2>1
<1>5. ASSUME NEW n \in Nat, a <= n * b
      PROVE  c <= n
  <2>1. SUFFICES ASSUME n + 1 <= c PROVE FALSE
    BY <1>2
  <2>2. (n + 1) * b <= c * b
    BY <1>2, <2>1, TimesGrows
  <2>3. (n + 1) * b = n * b + b /\ n * b \in Nat
    BY Z3
  <2> QED
    BY <1>3, <1>4, <1>5, <2>2, <2>3
<1>6. ASSUME a > 0
      PROVE  c > 0
  <2>1. SUFFICES ASSUME c = 0 PROVE FALSE
    BY <1>2
  <2>2. c * b = 0
    BY <2>1
  <2> QED
    BY <1>4, <1>6, <2>2
<1> QED
  BY <1>2, <1>4, <1>5, <1>6 DEF c

(* Max and Min of two numbers, and of a finite set of them.                *)
LEMMA MaxOfTwo ==
  ASSUME NEW a \in Int, NEW b \in Int
  PROVE  Max({a, b}) \in {a, b} /\ Max({a, b}) >= a /\ Max({a, b}) >= b
<1>1. \E x \in {a, b} : \A y \in {a, b} : x >= y
  OBVIOUS
<1> QED
  BY <1>1 DEF Max

LEMMA MinOfTwo ==
  ASSUME NEW a \in Int, NEW b \in Int
  PROVE  Min({a, b}) \in {a, b} /\ Min({a, b}) <= a /\ Min({a, b}) <= b
<1>1. \E x \in {a, b} : \A y \in {a, b} : x <= y
  OBVIOUS
<1> QED
  BY <1>1 DEF Min

LEMMA MinOfSet ==
  ASSUME NEW S, S \subseteq Nat, S # {}
  PROVE  Min(S) \in S /\ \A y \in S : Min(S) <= y
<1> DEFINE R == OpToRel(<, Nat)
<1>1. IsWellFoundedOn(R, Nat)
  BY NatLessThanWellFounded
<1>2. \A x, y \in Nat : <<y, x>> \in R <=> y < x
  BY DEF OpToRel
<1> HIDE DEF R
<1>3. PICK x \in S : \A y \in S : ~(<<y, x>> \in R)
  BY <1>1, WFMin
<1>4. ASSUME NEW y \in S
      PROVE  x <= y
  <2>1. x \in Nat /\ y \in Nat
    BY <1>3
  <2>2. ~(y < x)
    BY <1>2, <1>3, <2>1, Zenon
  <2> QED
    BY <2>1, <2>2
<1> QED
  BY <1>4 DEF Min

-----------------------------------------------------------------------------
(* EfsImage: the layout.                                                   *)

(* The sizes of the files of a tree have a sum.                            *)
LEMMA FileDataIs ==
  ASSUME NEW t, \A p \in Paths : t[p].kind = "reg" => t[p].size \in Nat
  PROVE  FileData(t) \in Nat
<1> DEFINE Bytes(p) == IF t[p].kind = "reg" THEN t[p].size ELSE 0
           One(s) == CHOOSE x \in s : TRUE
           Sum(g, s) == IF s = {} THEN 0 ELSE Bytes(One(s)) + g[s \ {One(s)}]
           Sums(g, n) == \A s \in SUBSET Paths : Cardinality(s) <= n => g[s] = Sum(g, s)
           T == {n \in Nat : \E g : g = [s \in SUBSET Paths |-> g[s]] /\ Sums(g, n)}
<1>1. \A p \in Paths : Bytes(p) \in Nat
  OBVIOUS
<1>2. \A s \in SUBSET Paths : s # {} => One(s) \in s
  OBVIOUS
<1>3. \A s \in SUBSET Paths : /\ IsFiniteSet(s) /\ Cardinality(s) \in Nat
                              /\ Cardinality(s) <= Cardinality(Paths)
                              /\ Cardinality(s) = 0 <=> s = {}
  BY PathNumbers, FS_Subset, FS_CardinalityType, FS_EmptySet
<1>4. \A s \in SUBSET Paths : s # {} => /\ s \ {One(s)} \in SUBSET Paths
                                       /\ Cardinality(s \ {One(s)}) = Cardinality(s) - 1
  <2>1. ASSUME NEW s \in SUBSET Paths, s # {}
        PROVE  Cardinality(s \ {One(s)}) = Cardinality(s) - 1
    BY <1>2, <1>3, <2>1, FS_RemoveElement
  <2> QED
    BY <2>1
<1> HIDE DEF One, Bytes
<1>5. 0 \in T
  <2> DEFINE h == [s \in SUBSET Paths |-> 0]
  <2>1. h = [s \in SUBSET Paths |-> h[s]]
    OBVIOUS
  <2>2. Sums(h, 0)
    <3>1. ASSUME NEW s \in SUBSET Paths, Cardinality(s) <= 0
          PROVE  s = {} /\ h[s] = 0
      BY <1>3, <3>1
    <3> QED
      BY <3>1
  <2>3. 0 \in Nat
    OBVIOUS
  <2> HIDE DEF h, Sums
  <2> QED
    BY <2>1, <2>2, <2>3
<1>6. ASSUME NEW n \in Nat, n \in T
      PROVE  n + 1 \in T
  <2>1. PICK g : g = [s \in SUBSET Paths |-> g[s]] /\ Sums(g, n)
    BY <1>6
  <2> DEFINE h == [s \in SUBSET Paths |-> IF Cardinality(s) <= n THEN g[s] ELSE Sum(g, s)]
  <2>2. h = [s \in SUBSET Paths |-> h[s]]
    OBVIOUS
  <2>3. ASSUME NEW s \in SUBSET Paths, Cardinality(s) <= n + 1
        PROVE  h[s] = Sum(h, s)
    <3>1. h[s] = Sum(g, s)
      BY <2>1
    <3>2. CASE s = {}
      BY <3>1, <3>2
    <3>3. CASE s # {}
      <4>1. s \ {One(s)} \in SUBSET Paths /\ Cardinality(s \ {One(s)}) <= n
        BY <1>3, <1>4, <2>3, <3>3
      <4>2. h[s \ {One(s)}] = g[s \ {One(s)}]
        BY <4>1
      <4> QED
        BY <3>1, <3>3, <4>2
    <3> QED
      BY <3>2, <3>3
  <2>4. Sums(h, n + 1)
    BY <2>3
  <2> HIDE DEF h, Sums
  <2> QED
    BY <2>2, <2>4
<1>7. Cardinality(Paths) \in T
  <2> HIDE DEF T
  <2>1. Nat \subseteq T
    BY <1>5, <1>6, AllNumbers
  <2>2. Cardinality(Paths) \in Nat
    BY PathNumbers, FS_CardinalityType
  <2> QED
    BY <2>1, <2>2
<1>8. PICK g : g = [s \in SUBSET Paths |-> g[s]] /\ Sums(g, Cardinality(Paths))
  BY <1>7
<1> DEFINE Solves(g0) == g0 = [s \in SUBSET Paths |-> Sum(g0, s)]
<1>9. Solves(g)
  BY <1>3, <1>8
<1> DEFINE iter == CHOOSE g0 : Solves(g0)
<1>10. Solves(iter)
  <2> HIDE DEF Solves
  <2> QED
    BY <1>9, Zenon
<1>11. FileData(t) = iter[Paths]
  BY Zenon DEF FileData, MapThenSumSet, MapThenFoldSet, One, Bytes, Sum
<1> HIDE DEF iter
<1> DEFINE U == {n \in Nat : \A s \in SUBSET Paths : Cardinality(s) <= n => iter[s] \in Nat}
<1>12. 0 \in U
  <2>1. ASSUME NEW s \in SUBSET Paths, Cardinality(s) <= 0
        PROVE  iter[s] \in Nat
    <3>1. s = {}
      BY <1>3, <2>1
    <3> QED
      BY <1>10, <3>1
  <2> QED
    BY <2>1
<1>13. ASSUME NEW n \in Nat, n \in U
       PROVE  n + 1 \in U
  <2>1. ASSUME NEW s \in SUBSET Paths, Cardinality(s) <= n + 1
        PROVE  iter[s] \in Nat
    <3>1. CASE s = {}
      BY <1>10, <3>1
    <3>2. CASE s # {}
      <4>1. s \ {One(s)} \in SUBSET Paths /\ Cardinality(s \ {One(s)}) <= n
        BY <1>3, <1>4, <2>1, <3>2
      <4>2. iter[s \ {One(s)}] \in Nat /\ Bytes(One(s)) \in Nat
        BY <1>1, <1>2, <1>13, <3>2, <4>1
      <4>3. iter[s] = Bytes(One(s)) + iter[s \ {One(s)}]
        BY <1>10, <3>2
      <4> QED
        BY <4>2, <4>3
    <3> QED
      BY <3>1, <3>2
  <2> QED
    BY <2>1
<1>14. Cardinality(Paths) \in U
  <2> HIDE DEF U
  <2>1. Nat \subseteq U
    BY <1>12, <1>13, AllNumbers
  <2>2. Cardinality(Paths) \in Nat
    BY PathNumbers, FS_CardinalityType
  <2> QED
    BY <2>1, <2>2
<1>15. iter[Paths] \in Nat
  BY <1>3, <1>14
<1> QED
  BY <1>11, <1>15

LEMMA EfsFinite ==
  ASSUME NEW S, S \subseteq Paths
  PROVE  IsFiniteSet(S) /\ Cardinality(S) \in Nat
BY PathNumbers, FS_Subset, FS_CardinalityType

(* What a build needs of its geometry, whatever the tree and the limit: it *)
(* keeps to the limit and has an inode for each object.                    *)
Layout(g, t, max) ==
  /\ g.ncg \in Nat /\ g.ncg > 0 /\ g.first \in Nat /\ g.first >= 2 /\ g.size \in Int
  /\ g.total \in Int /\ g.total = g.first + g.ncg * g.size /\ g.total <= max
  /\ Cardinality(Present(t)) + InodeSlack <= g.ncg * InodesPerCg

LEMMA QuotientBelow ==
  ASSUME NEW n \in Int, NEW d \in Nat, d > 0
  PROVE  n \div d \in Int /\ d * (n \div d) <= n
<1>1. n \div d \in Int
  BY Z3
<1>2. d * (n \div d) <= n
  BY Z3
<1> QED
  BY <1>1, <1>2

LEMMA GeometryIs ==
  ASSUME NEW t, \A p \in Paths : t[p].kind = "reg" => t[p].size \in Nat,
         NEW max \in Nat
  PROVE  Layout(Geometry(t, max), t, max)
<1> DEFINE n == Cardinality(Present(t)) + InodeSlack
           ncg == Max({1, CeilDiv(n, InodesPerCg)})
           data == CeilDiv(Blocks(FileData(t)), ncg)
           size == InodeBlocks + Max({MinCgData, data + CgSlack})
           Start(total) == 2 + CeilDiv(total, BitsPerBlock)
           first == Start(Start(5 + ncg * size + 1) + ncg * size)
           fit == Fitting(first, ncg, size, max)
<1>1. Geometry(t, max) = [ncg |-> ncg, first |-> first, size |-> fit, total |-> first + ncg * fit]
  BY Zenon DEF Geometry
<1>2. n \in Nat
  BY EfsFinite, EfsNumbers DEF Present
<1> HIDE DEF n
<1>3. CeilDiv(n, InodesPerCg) \in Nat /\ n <= CeilDiv(n, InodesPerCg) * InodesPerCg
  BY <1>2, EfsNumbers, CeilDivIs
<1>4. /\ ncg \in Nat /\ ncg > 0 /\ CeilDiv(n, InodesPerCg) <= ncg
  <2> DEFINE c == CeilDiv(n, InodesPerCg)
  <2> HIDE DEF c
  <2>1. c \in Nat
    BY <1>3 DEF c
  <2>2. Max({1, c}) \in {1, c} /\ Max({1, c}) >= 1 /\ Max({1, c}) >= c
    BY <2>1, MaxOfTwo
  <2>3. Max({1, c}) \in Nat /\ Max({1, c}) > 0 /\ c <= Max({1, c})
    BY <2>1, <2>2
  <2> QED
    BY <2>3 DEF c
<1>5. n <= ncg * InodesPerCg
  <2> HIDE DEF ncg
  <2>1. CeilDiv(n, InodesPerCg) * InodesPerCg \in Nat /\ ncg * InodesPerCg \in Nat
        /\ CeilDiv(n, InodesPerCg) * InodesPerCg <= ncg * InodesPerCg
    BY <1>3, <1>4, EfsNumbers, TimesGrows
  <2> QED
    BY <1>2, <1>3, <2>1
<1> HIDE DEF ncg
<1>6. data \in Nat
  <2>1. FileData(t) \in Nat
    BY FileDataIs
  <2>2. Blocks(FileData(t)) \in Nat
    BY <2>1, EfsNumbers, CeilDivIs DEF Blocks
  <2> QED
    BY <1>4, <2>2, CeilDivIs
<1> HIDE DEF data
<1>7. size \in Nat
  <2>1. data + CgSlack \in Nat /\ data + CgSlack \in Int /\ MinCgData \in Int
    BY <1>6, EfsNumbers
  <2>2. Max({MinCgData, data + CgSlack}) \in {MinCgData, data + CgSlack}
    BY <2>1, MaxOfTwo, Zenon
  <2> QED
    BY <2>1, <2>2, EfsNumbers
<1> HIDE DEF size
<1>8. ncg * size \in Nat
  BY <1>4, <1>7, Z3
<1>9. \A x \in Nat : Start(x) \in Nat /\ Start(x) >= 2
  <2>1. ASSUME NEW x \in Nat
        PROVE  CeilDiv(x, BitsPerBlock) \in Nat
    BY EfsNumbers, CeilDivIs
  <2> QED
    BY <2>1
<1> HIDE DEF Start
<1>10. first \in Nat /\ first >= 2
  <2>1. 5 + ncg * size + 1 \in Nat
    BY <1>8
  <2>2. Start(5 + ncg * size + 1) + ncg * size \in Nat
    BY <1>8, <1>9, <2>1
  <2> QED
    BY <1>9, <2>2
<1> HIDE DEF first
<1>11. fit \in Int /\ first + ncg * fit \in Int /\ first + ncg * fit <= max
  <2>1. CASE first + ncg * size > max
    <3>1. max - first \in Int /\ fit = (max - first) \div ncg
      BY <1>10, <2>1 DEF Fitting
    <3> DEFINE m == max - first
    <3>2. m \div ncg \in Int /\ ncg * (m \div ncg) <= m
      BY <1>4, <3>1, QuotientBelow
    <3>3. ncg * fit <= m /\ fit \in Int
      BY <3>1, <3>2
    <3>4. ncg * fit \in Int
      BY <1>4, <3>3, Z3
    <3>5. SUFFICES ASSUME NEW z \in Int, z <= max - first
                   PROVE  first + z \in Int /\ first + z <= max
      BY <3>3, <3>4
    <3> QED
      BY <1>10, <3>5
  <2>2. CASE ~(first + ncg * size > max)
    BY <1>7, <1>8, <1>10, <2>2 DEF Fitting
  <2> QED
    BY <2>1, <2>2
<1> HIDE DEF fit
<1>12. n = Cardinality(Present(t)) + InodeSlack
  BY DEF n
<1> QED
  BY <1>1, <1>4, <1>5, <1>10, <1>11, <1>12 DEF Layout

(* The blocks that belong to no inode table, nor to what precedes them.    *)
DataBlocks(g) == (0..(g.total - 1)) \ Reserved(g)

(* A cylinder group has room for more than its inodes.                     *)
Roomy(g) == g.size > InodeBlocks

LEMMA GroupData ==
  ASSUME NEW g, NEW t, NEW max, Layout(g, t, max), Roomy(g),
         NEW c \in Nat, NEW r \in InodeBlocks..(g.size - 1)
  PROVE  g.first + (c * g.size + r) \notin Reserved(g)
<1>1. /\ g.first \in Nat /\ g.size \in Nat /\ InodeBlocks \in Nat /\ InodeBlocks > 0 /\ g.ncg \in Nat
      /\ InodeBlocks < g.size
  BY EfsNumbers DEF Layout, Roomy
<1>2. c * g.size \in Nat /\ r \in Nat
  BY <1>1, Z3
<1>3. SUFFICES ASSUME g.first + (c * g.size + r) \in InodeArea(g)
               PROVE  FALSE
  <2>1. g.first + (c * g.size + r) \notin 0..(g.first - 1)
    BY <1>1, <1>2
  <2> QED
    BY <2>1 DEF Reserved
<1>4. PICK u \in 0..(g.ncg - 1) : g.first + (c * g.size + r) \in GroupStart(g, u)..(GroupStart(g, u) + InodeBlocks - 1)
  BY <1>3 DEF InodeArea
<1>5. u \in Nat /\ u * g.size \in Nat
  BY <1>1, <1>4, Z3
<1> DEFINE v == g.first + (c * g.size + r) - GroupStart(g, u)
<1>6. v \in 0..(InodeBlocks - 1) /\ c * g.size + r = u * g.size + v
  <2>1. SUFFICES ASSUME NEW x \in Nat, NEW y \in Nat, NEW f \in Nat, f + (x + r) \in (f + y)..(f + y + InodeBlocks - 1)
                 PROVE  /\ f + (x + r) - (f + y) \in 0..(InodeBlocks - 1)
                        /\ x + r = y + (f + (x + r) - (f + y))
    BY <1>1, <1>2, <1>4, <1>5 DEF GroupStart
  <2> QED
    BY <1>1, <1>2, <2>1
<1> HIDE DEF v
<1>7. v \in 0..(g.size - 1) /\ r \in 0..(g.size - 1)
  BY <1>1, <1>6
<1>8. r = v
  <2>1. g.size \in Nat /\ u \in Nat /\ c * g.size + r = u * g.size + v
    BY <1>1, <1>5, <1>6
  <2>2. ASSUME NEW d \in Nat, d = g.size
        PROVE  r = v
    <3>1. /\ r \in 0..(d - 1) /\ v \in 0..(d - 1) /\ c * d + r = u * d + v
      BY <1>7, <2>1, <2>2
    <3> QED
      BY <2>1, <3>1, OneQuotient
  <2> QED
    BY <2>1, <2>2
<1> QED
  BY <1>1, <1>6, <1>8

(* One round of the loop takes blocks behind the last ones, of one group   *)
(* and none of its inodes, and at least one.                               *)
LEMMA RoundIs ==
  ASSUME NEW t, NEW max, Layout(geo, t, max), Roomy(geo),
         nextBlock \in Nat, nextBlock >= geo.first, remain \in Nat, remain > 0
  PROVE  LET pos    == SkipInodes(nextBlock)
             length == ExtentLength(pos)
         IN  /\ pos \in Nat /\ pos >= nextBlock
             /\ pos < geo.total => /\ length \in Nat /\ length > 0 /\ length <= remain
                                   /\ pos..(pos + length - 1) \subseteq DataBlocks(geo)
<1> DEFINE pos == SkipInodes(nextBlock)
           length == ExtentLength(pos)
           s == geo.size
           m == nextBlock - geo.first
           c == m \div s
<1>1. /\ geo.first \in Nat /\ s \in Nat /\ s > 0 /\ InodeBlocks \in Nat /\ InodeBlocks > 0
      /\ InodeBlocks < s /\ geo.total \in Int
  BY EfsNumbers DEF Layout, Roomy
<1>2. m \in Nat /\ nextBlock = geo.first + m
  BY <1>1
<1>3. c \in Nat /\ m % s \in 0..(s - 1) /\ m = c * s + (m % s)
  BY <1>1, <1>2, QuotientIs
<1>4. c * s \in Nat
  BY <1>1, <1>3, Z3
<1>5. GroupStart(geo, GroupOf(geo, nextBlock)) = geo.first + c * s
  BY DEF GroupStart, GroupOf
<1> DEFINE r == IF m % s < InodeBlocks THEN InodeBlocks ELSE m % s
<1>6. /\ r \in InodeBlocks..(s - 1) /\ r >= m % s
      /\ pos = geo.first + (c * s + r)
  <2>1. pos = IF m % s < InodeBlocks THEN geo.first + c * s + InodeBlocks ELSE nextBlock
    BY <1>5 DEF SkipInodes
  <2>2. SUFFICES ASSUME NEW x \in Nat, NEW y \in 0..(s - 1), NEW f \in Nat
                 PROVE  /\ (IF y < InodeBlocks THEN InodeBlocks ELSE y) \in InodeBlocks..(s - 1)
                        /\ (IF y < InodeBlocks THEN InodeBlocks ELSE y) >= y
                        /\ (IF y < InodeBlocks THEN f + x + InodeBlocks ELSE f + (x + y))
                             = f + (x + (IF y < InodeBlocks THEN InodeBlocks ELSE y))
    BY <1>1, <1>2, <1>3, <1>4, <2>1
  <2> QED
    BY <1>1, <2>2
<1>7. pos \in Nat /\ pos >= nextBlock
  <2>1. /\ geo.first \in Nat /\ c * s \in Nat /\ m % s \in Nat /\ r \in Nat /\ r >= m % s
        /\ nextBlock = geo.first + (c * s + (m % s)) /\ pos = geo.first + (c * s + r)
    BY <1>1, <1>2, <1>3, <1>4, <1>6
  <2>2. SUFFICES ASSUME NEW x \in Nat, NEW y \in Nat, NEW z \in Nat, NEW f \in Nat, z >= y
                 PROVE  f + (x + z) \in Nat /\ f + (x + z) >= f + (x + y)
    <3> HIDE DEF pos, r, c, m, s
    <3> QED
      BY <2>1
  <2> QED
    BY <2>2
<1>8. ASSUME pos < geo.total
      PROVE  /\ length \in Nat /\ length > 0 /\ length <= remain
             /\ pos..(pos + length - 1) \subseteq DataBlocks(geo)
  <2> DEFINE room == GroupStart(geo, GroupOf(geo, pos) + 1) - pos
             left == geo.total - pos
  <2>1. pos - geo.first = c * s + r /\ r \in 0..(s - 1)
    <3>1. SUFFICES ASSUME NEW x \in Nat, NEW f \in Nat
                   PROVE  f + x - f = x
      <4>1. c * s + r \in Nat
        BY <1>1, <1>4, <1>6
      <4> QED
        BY <1>1, <1>6, <4>1
    <3> QED
      OBVIOUS
  <2>2. GroupOf(geo, pos) = c
    BY <1>1, <1>3, <2>1, QuotientOf DEF GroupOf
  <2>3. (c + 1) * s = c * s + s
    BY <1>1, <1>3, Z3
  <2>4. room \in Nat /\ room = s - r /\ room > 0
    <3>a. /\ room = geo.first + (c * s + s) - (geo.first + (c * s + r))
          /\ geo.first \in Nat /\ c * s \in Nat
      BY <1>1, <1>4, <1>6, <2>2, <2>3 DEF GroupStart
    <3>1. SUFFICES ASSUME NEW x \in Nat, NEW f \in Nat
                   PROVE  /\ f + (x + s) - (f + (x + r)) \in Nat
                          /\ f + (x + s) - (f + (x + r)) = s - r /\ f + (x + s) - (f + (x + r)) > 0
      <4> HIDE DEF room, r, c, s
      <4> QED
        BY <3>a
    <3> QED
      BY <1>1, <2>1
  <2>5. left \in Nat /\ left > 0
    BY <1>1, <1>7, <1>8
  <2>6. length = Min({room, remain, MaxExtentLength, left})
    BY DEF ExtentLength
  <2> HIDE DEF room, left, length
  <2>7. /\ length \in {room, remain, MaxExtentLength, left}
        /\ length <= room /\ length <= remain /\ length <= left
    <3>1. {room, remain, MaxExtentLength, left} \subseteq Nat
      BY <2>4, <2>5, EfsNumbers
    <3>2. \A y \in {room, remain, MaxExtentLength, left} : length <= y
      BY <2>6, <3>1, MinOfSet
    <3>3. length \in {room, remain, MaxExtentLength, left}
      BY <2>6, <3>1, MinOfSet
    <3> QED
      BY <3>2, <3>3
  <2>8. length \in Nat /\ length > 0
    BY <2>4, <2>5, <2>7, EfsNumbers
  <2>9. ASSUME NEW b \in pos..(pos + length - 1)
        PROVE  b \in DataBlocks(geo)
    <3> DEFINE k == b - pos
    <3>1. k \in Nat /\ k < length /\ b = pos + k
      BY <1>7, <2>8, <2>9
    <3>2. r + k \in InodeBlocks..(s - 1)
      BY <1>1, <1>6, <2>4, <2>7, <2>8, <3>1
    <3>3. b = geo.first + (c * s + (r + k))
      <4>1. SUFFICES ASSUME NEW x \in Nat, NEW f \in Nat, NEW y \in Nat, NEW z \in Nat
                     PROVE  f + (x + y) + z = f + (x + (y + z))
        <5>1. r \in Nat
          BY <1>1, <1>6
        <5> HIDE DEF k, r, pos
        <5> QED
          BY <1>1, <1>4, <1>6, <3>1, <5>1
      <4> QED
        OBVIOUS
    <3>4. b \notin Reserved(geo)
      BY <1>3, <3>2, <3>3, GroupData
    <3>5. b \in 0..(geo.total - 1)
      <4>1. b \in Nat /\ k < left /\ left = geo.total - pos
        BY <1>7, <2>5, <2>7, <2>8, <3>1 DEF left
      <4> QED
        BY <1>1, <1>7, <3>1, <4>1
    <3> QED
      BY <3>4, <3>5 DEF DataBlocks
  <2> QED
    BY <2>7, <2>8, <2>9
<1> QED
  BY <1>7, <1>8

-----------------------------------------------------------------------------
(* EfsImage: sequences put together.                                       *)

(* The parts of FlattenSeq(ss), one by one.                                *)
Parts(f, ss) ==
  /\ f = [i \in 1..Len(ss) |-> f[i]]
  /\ \A i \in 1..Len(ss) : f[i] = IF i = 1 THEN ss[i] ELSE f[i - 1] \o ss[i]

LEMMA FlattenIs ==
  ASSUME NEW S, NEW ss \in Seq(Seq(S)), Len(ss) > 0
  PROVE  \E f : /\ Parts(f, ss) /\ FlattenSeq(ss) = f[Len(ss)]
                /\ \A i \in 1..Len(ss) : f[i] \in Seq(S)
<1> DEFINE l == Len(ss)
           Upto(g, n) == \A i \in 1..l : i <= n => g[i] = IF i = 1 THEN ss[i] ELSE g[i - 1] \o ss[i]
           T == {n \in Nat : \E g : g = [i \in 1..l |-> g[i]] /\ Upto(g, n)}
<1>1. l \in Nat /\ \A i \in 1..l : ss[i] \in Seq(S)
  BY LenProperties
<1> HIDE DEF l
<1>2. 0 \in T
  <2> DEFINE h == [i \in 1..l |-> ss[i]]
  <2>1. h = [i \in 1..l |-> h[i]] /\ Upto(h, 0)
    BY <1>1
  <2>2. 0 \in Nat
    OBVIOUS
  <2> HIDE DEF h, Upto
  <2> QED
    BY <2>1, <2>2
<1>3. ASSUME NEW n \in Nat, n \in T
      PROVE  n + 1 \in T
  <2>1. PICK g : g = [i \in 1..l |-> g[i]] /\ Upto(g, n)
    BY <1>3
  <2> DEFINE h == [i \in 1..l |-> IF i = n + 1 THEN IF i = 1 THEN ss[i] ELSE g[i - 1] \o ss[i] ELSE g[i]]
  <2>2. h = [i \in 1..l |-> h[i]]
    OBVIOUS
  <2>3. ASSUME NEW i \in 1..l, i <= n + 1
        PROVE  h[i] = IF i = 1 THEN ss[i] ELSE h[i - 1] \o ss[i]
    <3>1. i # 1 => i - 1 \in 1..l /\ i - 1 # n + 1 /\ h[i - 1] = g[i - 1]
      BY <1>1, <2>3
    <3>2. CASE i = n + 1
      BY <3>1, <3>2
    <3>3. CASE i # n + 1
      <4>1. i <= n /\ h[i] = g[i]
        BY <2>3, <3>3
      <4> QED
        BY <2>1, <3>1, <4>1
    <3> QED
      BY <3>2, <3>3
  <2>4. Upto(h, n + 1)
    BY <2>3
  <2>5. n + 1 \in Nat
    OBVIOUS
  <2> HIDE DEF h, Upto
  <2>6. \E g0 : g0 = [i \in 1..l |-> g0[i]] /\ Upto(g0, n + 1)
    BY <2>2, <2>4, Zenon
  <2> QED
    BY <2>5, <2>6
<1>4. l \in T
  <2> HIDE DEF T
  <2>1. Nat \subseteq T
    BY <1>2, <1>3, AllNumbers
  <2> QED
    BY <1>1, <2>1
<1>5. PICK g : g = [i \in 1..l |-> g[i]] /\ Upto(g, l)
  BY <1>4
<1> DEFINE Solves(g0) == g0 = [i \in 1..Len(ss) |-> IF i = 1 THEN ss[i] ELSE g0[i - 1] \o ss[i]]
<1>6. Solves(g)
  <2>0. \A i \in 1..l : i <= l
    BY <1>1
  <2>1. \A i \in 1..l : g[i] = IF i = 1 THEN ss[i] ELSE g[i - 1] \o ss[i]
    BY <1>5, <2>0, Zenon
  <2>2. g = [i \in 1..l |-> IF i = 1 THEN ss[i] ELSE g[i - 1] \o ss[i]]
    BY <1>5, <2>1
  <2> QED
    BY <2>2 DEF l
<1> DEFINE f == CHOOSE g0 : Solves(g0)
<1>7. Solves(f)
  <2> HIDE DEF Solves
  <2> QED
    BY <1>6, Zenon
<1>8. FlattenSeq(ss) = f[Len(ss)]
  <2>1. Len(ss) # 0
    BY <1>1 DEF l
  <2> QED
    BY <2>1, Zenon DEF FlattenSeq
<1> HIDE DEF f
<1>9. Parts(f, ss)
  <2>1. \A i \in 1..Len(ss) : f[i] = IF i = 1 THEN ss[i] ELSE f[i - 1] \o ss[i]
    BY <1>7
  <2>2. f = [i \in 1..Len(ss) |-> f[i]]
    BY <1>7
  <2> QED
    BY <2>1, <2>2 DEF Parts
<1> DEFINE U == {n \in Nat : \A i \in 1..l : i <= n => f[i] \in Seq(S)}
<1>10. 0 \in U
  BY <1>1
<1>11. ASSUME NEW n \in Nat, n \in U
       PROVE  n + 1 \in U
  <2>1. ASSUME NEW i \in 1..l, i <= n + 1
        PROVE  f[i] \in Seq(S)
    <3>1. f[i] = IF i = 1 THEN ss[i] ELSE f[i - 1] \o ss[i]
      BY <1>9 DEF Parts, l
    <3>2. CASE i = 1
      BY <1>1, <3>1, <3>2
    <3>3. CASE i # 1
      <4>1. i - 1 \in 1..l /\ i - 1 <= n
        BY <1>1, <2>1, <3>3
      <4>2. f[i - 1] \in Seq(S) /\ ss[i] \in Seq(S)
        BY <1>1, <1>11, <4>1
      <4> QED
        BY <3>1, <3>3, <4>2
    <3> QED
      BY <3>2, <3>3
  <2> QED
    BY <2>1
<1>12. \A i \in 1..l : f[i] \in Seq(S)
  <2>1. Nat \subseteq U
    <3> HIDE DEF U
    <3> QED
      BY <1>10, <1>11, AllNumbers
  <2>2. l \in U
    BY <1>1, <2>1
  <2>3. \A i \in 1..l : i <= l
    BY <1>1
  <2> QED
    BY <2>2, <2>3, Zenon
<1> QED
  BY <1>8, <1>9, <1>12 DEF l

LEMMA FlattenNone == \A S : FlattenSeq(<<>>) = <<>> /\ FlattenSeq(<<>>) \in Seq(S)
<1>1. Len(<<>>) = 0
  OBVIOUS
<1> QED
  BY <1>1 DEF FlattenSeq

LEMMA FlattenType ==
  ASSUME NEW S, NEW ss \in Seq(Seq(S))
  PROVE  FlattenSeq(ss) \in Seq(S)
<1>1. CASE Len(ss) > 0
  <2>1. PICK f : FlattenSeq(ss) = f[Len(ss)] /\ \A i \in 1..Len(ss) : f[i] \in Seq(S)
    BY <1>1, FlattenIs
  <2>2. Len(ss) \in 1..Len(ss)
    BY <1>1, LenProperties
  <2> QED
    BY <2>1, <2>2
<1>2. CASE ~(Len(ss) > 0)
  <2>1. Len(ss) = 0 /\ ss = <<>>
    BY <1>2, LenProperties, EmptySeq
  <2> QED
    BY <2>1, FlattenNone
<1> QED
  BY <1>1, <1>2

LEMMA FlattenAppend ==
  ASSUME NEW S, NEW ss \in Seq(Seq(S)), NEW s \in Seq(S)
  PROVE  FlattenSeq(Append(ss, s)) = FlattenSeq(ss) \o s
<1> DEFINE tt == Append(ss, s)
           l == Len(ss)
<1>1. /\ l \in Nat /\ tt \in Seq(Seq(S)) /\ Len(tt) = l + 1
      /\ tt[l + 1] = s /\ \A i \in 1..l : tt[i] = ss[i]
  BY LenProperties, AppendProperties
<1> HIDE DEF tt, l
<1>2. PICK g : Parts(g, tt) /\ FlattenSeq(tt) = g[Len(tt)]
  BY <1>1, FlattenIs
<1>3. \A i \in 1..(l + 1) : g[i] = IF i = 1 THEN tt[i] ELSE g[i - 1] \o tt[i]
  BY <1>1, <1>2 DEF Parts
<1>4. FlattenSeq(tt) = g[l + 1]
  BY <1>1, <1>2
<1>5. CASE l = 0
  <2>1. ss = <<>>
    BY <1>5, EmptySeq DEF l
  <2>2. FlattenSeq(tt) = s
    BY <1>1, <1>3, <1>4, <1>5
  <2>3. FlattenSeq(ss) \o s = s
    BY <2>1, FlattenNone
  <2> QED
    BY <2>2, <2>3 DEF tt
<1>6. CASE l > 0
  <2>1. PICK f : Parts(f, ss) /\ FlattenSeq(ss) = f[Len(ss)]
    BY <1>6, FlattenIs DEF l
  <2>2. \A i \in 1..l : f[i] = IF i = 1 THEN ss[i] ELSE f[i - 1] \o ss[i]
    BY <2>1 DEF Parts, l
  <2> DEFINE T == {n \in Nat : \A i \in 1..l : i <= n => f[i] = g[i]}
  <2>3. 0 \in T
    BY <1>1
  <2>4. ASSUME NEW n \in Nat, n \in T
        PROVE  n + 1 \in T
    <3>1. ASSUME NEW i \in 1..l, i <= n + 1
          PROVE  f[i] = g[i]
      <4>1. i \in 1..(l + 1) /\ tt[i] = ss[i]
        BY <1>1
      <4>2. i # 1 => i - 1 \in 1..l /\ i - 1 <= n
        BY <1>1, <3>1
      <4>3. i # 1 => f[i - 1] = g[i - 1]
        BY <2>4, <4>2
      <4> QED
        BY <1>3, <2>2, <4>1, <4>3
    <3> QED
      BY <3>1
  <2>5. f[l] = g[l]
    <3>1. Nat \subseteq T
      <4> HIDE DEF T
      <4> QED
        BY <2>3, <2>4, AllNumbers
    <3>2. l \in T
      BY <1>1, <3>1, Zenon
    <3>3. l \in 1..l /\ l <= l
      BY <1>1, <1>6
    <3> QED
      BY <3>2, <3>3, Zenon
  <2>6. g[l + 1] = g[l] \o tt[l + 1]
    <3>1. l + 1 \in 1..(l + 1) /\ l + 1 # 1 /\ (l + 1) - 1 = l
      BY <1>1, <1>6
    <3> QED
      BY <1>3, <3>1
  <2> QED
    BY <1>1, <1>4, <2>1, <2>5, <2>6 DEF l, tt
<1> QED
  BY <1>1, <1>5, <1>6

-----------------------------------------------------------------------------
(* EfsImage: the reader.                                                   *)

(* The number at p, when that of its folder is m.                          *)
Found(v, m, p) ==
  LET up   == ReadInode(v, m)
      here == IF up.kind = "dir" THEN {e[2] : e \in {x \in DirEntries(v, up) : x[1] = p}} ELSE {}
  IN  IF m = 0 \/ here = {} THEN 0 ELSE Min(here)

LEMMA ResolvedIs ==
  ASSUME NEW v
  PROVE  Resolved(v) = [p \in Paths |-> IF p = Root THEN RootInode
                                        ELSE Found(v, Resolved(v)[Parent[p]], p)]
<1> DEFINE Upto(g, n) == \A p \in Paths : p <= n => g[p] = IF p = Root THEN RootInode ELSE Found(v, g[Parent[p]], p)
           T == {n \in Nat : \E g : g = [p \in Paths |-> g[p]] /\ Upto(g, n)}
<1>1. 0 \in T
  <2> DEFINE h == [p \in Paths |-> RootInode]
  <2>1. h = [p \in Paths |-> h[p]]
    OBVIOUS
  <2>2. ASSUME NEW p \in Paths, p <= 0
        PROVE  p = Root
    BY <2>2, PathNumbers DEF Root
  <2>3. Upto(h, 0)
    BY <2>2
  <2>4. 0 \in Nat
    OBVIOUS
  <2> HIDE DEF h, Upto
  <2> QED
    BY <2>1, <2>3, <2>4
<1>2. ASSUME NEW n \in Nat, n \in T
      PROVE  n + 1 \in T
  <2>1. PICK g : g = [p \in Paths |-> g[p]] /\ Upto(g, n)
    BY <1>2
  <2> DEFINE h == [p \in Paths |-> IF p = n + 1 THEN Found(v, g[Parent[p]], p) ELSE g[p]]
  <2>2. \A p \in Paths : p <= n => h[p] = g[p]
    BY PathNumbers
  <2>3. ASSUME NEW p \in Paths, p <= n + 1
        PROVE  h[p] = IF p = Root THEN RootInode ELSE Found(v, h[Parent[p]], p)
    <3>1. CASE p <= n
      <4>1. p # Root => Parent[p] \in Paths /\ Parent[p] <= n
        BY <3>1, PathNumbers
      <4> QED
        BY <2>1, <2>2, <3>1, <4>1
    <3>2. CASE p = n + 1
      <4>1. p # Root /\ Parent[p] \in Paths /\ Parent[p] <= n
        BY <3>2, PathNumbers DEF Root
      <4>2. h[p] = Found(v, g[Parent[p]], p)
        BY <3>2
      <4> QED
        BY <2>2, <4>1, <4>2
    <3> QED
      BY <2>3, <3>1, <3>2, PathNumbers
  <2>4. h = [p \in Paths |-> h[p]]
    OBVIOUS
  <2>5. Upto(h, n + 1)
    BY <2>3
  <2>6. n + 1 \in Nat
    OBVIOUS
  <2> HIDE DEF h, Upto
  <2>7. \E g0 : g0 = [p \in Paths |-> g0[p]] /\ Upto(g0, n + 1)
    BY <2>4, <2>5, Zenon
  <2> QED
    BY <2>6, <2>7
<1>3. Nat \subseteq T
  <2> HIDE DEF T
  <2> QED
    BY <1>1, <1>2, AllNumbers
<1>4. PICK g : g = [p \in Paths |-> g[p]] /\ Upto(g, Cardinality(Paths))
  <2>1. Cardinality(Paths) \in T
    BY <1>3, PathNumbers, FS_CardinalityType
  <2> QED
    BY <2>1
<1>5. \A p \in Paths : p <= Cardinality(Paths)
  <2>1. Paths = 0..(Cardinality(Paths) - 1) /\ Cardinality(Paths) \in Nat
    BY EfsConstants, FS_CardinalityType
  <2> QED
    BY <2>1
<1> DEFINE Solves(g0) == g0 = [p \in Paths |-> IF p = Root THEN RootInode ELSE Found(v, g0[Parent[p]], p)]
<1>6. Solves(g)
  <2>1. \A p \in Paths : g[p] = IF p = Root THEN RootInode ELSE Found(v, g[Parent[p]], p)
    BY <1>4, <1>5
  <2> QED
    BY <1>4, <2>1
<1> DEFINE number == CHOOSE g0 : Solves(g0)
<1>7. Solves(number)
  <2> HIDE DEF Solves
  <2> QED
    BY <1>6, Zenon
<1>8. Resolved(v) = number
  BY Zenon DEF Resolved, Found
<1> QED
  BY <1>7, <1>8

-----------------------------------------------------------------------------
(* EfsImage: the inode numbers.                                            *)

(* The place of p in a set of paths.                                       *)
LEMMA CountsBefore ==
  ASSUME NEW S, S \subseteq Paths, NEW p \in Paths
  PROVE  /\ Cardinality({q \in S : q < p}) \in Nat
         /\ Cardinality({q \in S : q < p}) <= Cardinality(S)
         /\ p \in S => Cardinality({q \in S : q < p}) < Cardinality(S)
         /\ \A u \in Paths : p \in S /\ p < u =>
              Cardinality({q \in S : q < p}) < Cardinality({q \in S : q < u})
<1> DEFINE B(u) == {q \in S : q < u}
<1>1. \A u \in Paths : IsFiniteSet(B(u)) /\ Cardinality(B(u)) \in Nat /\ B(u) \in SUBSET S
  BY EfsFinite
<1>2. IsFiniteSet(S) /\ Cardinality(S) \in Nat
  BY EfsFinite
<1>3. ASSUME NEW V, V \subseteq S, B(p) \subseteq V, p \in V
      PROVE  Cardinality(B(p)) < Cardinality(V)
  <2>1. IsFiniteSet(V) /\ Cardinality(V) \in Nat
    BY <1>2, <1>3, EfsFinite
  <2>2. p \notin B(p)
    BY PathNumbers
  <2> HIDE DEF B
  <2>3. Cardinality(B(p)) <= Cardinality(V) /\ (Cardinality(B(p)) = Cardinality(V) => V = B(p))
    BY <1>3, <2>1, FS_Subset
  <2> QED
    BY <1>1, <1>3, <2>1, <2>2, <2>3
<1>4. Cardinality(B(p)) <= Cardinality(S)
  BY <1>1, <1>2, FS_Subset
<1>5. p \in S => Cardinality(B(p)) < Cardinality(S)
  <2>1. B(p) \subseteq S
    OBVIOUS
  <2> HIDE DEF B
  <2> QED
    BY <1>3, <2>1
<1>6. ASSUME NEW u \in Paths, p \in S, p < u
      PROVE  Cardinality(B(p)) < Cardinality(B(u))
  <2>1. B(u) \subseteq S /\ p \in B(u)
    BY <1>6
  <2>2. B(p) \subseteq B(u)
    <3>1. \A q \in S : q < p => q < u
      <4>1. \A q \in S : q \in Nat /\ p \in Nat /\ u \in Nat
        BY PathNumbers
      <4> QED
        BY <1>6, <4>1
    <3> QED
      BY <3>1
  <2> HIDE DEF B
  <2> QED
    BY <1>3, <2>1, <2>2
<1> QED
  BY <1>1, <1>4, <1>5, <1>6

(* The order decides between two.                                          *)
LEMMA CountsApart ==
  ASSUME NEW S, S \subseteq Paths, NEW p \in S, NEW u \in S,
         Cardinality({q \in S : q < p}) = Cardinality({q \in S : q < u})
  PROVE  p = u
<1> DEFINE C(x) == Cardinality({q \in S : q < x})
<1>1. /\ C(p) \in Nat /\ C(u) \in Nat /\ (p < u => C(p) < C(u)) /\ (u < p => C(u) < C(p))
  BY CountsBefore
<1>2. p \in Nat /\ u \in Nat /\ C(p) = C(u)
  BY PathNumbers
<1> HIDE DEF C
<1> QED
  BY <1>1, <1>2

LEMMA InodeNumbers ==
  ASSUME NEW t
  PROVE  /\ FoldersOf(t) \subseteq Present(t) /\ Present(t) \subseteq Paths
         /\ \A p \in Present(t) : /\ InodeOf(t, p) \in Nat /\ InodeOf(t, p) >= 2
                                  /\ InodeOf(t, p) <= 1 + Cardinality(Present(t))
         /\ \A p, q \in Present(t) : InodeOf(t, p) = InodeOf(t, q) => p = q
         /\ Root \in FoldersOf(t) => InodeOf(t, Root) = RootInode
<1> DEFINE F == FoldersOf(t)
           R == Present(t) \ FoldersOf(t)
           A(p) == Cardinality({q \in F : q < p})
           B(p) == Cardinality({q \in R : q < p})
<1>1. F \subseteq Present(t) /\ Present(t) \subseteq Paths
  BY DEF FoldersOf, Present, Folder, NoObject
<1>2. R \subseteq Paths /\ F \subseteq Paths /\ R \cap F = {} /\ R \cup F = Present(t)
  BY <1>1
<1>3. /\ Cardinality(F) \in Nat /\ Cardinality(R) \in Nat
      /\ Cardinality(Present(t)) = Cardinality(F) + Cardinality(R)
  <2>1. IsFiniteSet(R) /\ IsFiniteSet(F) /\ Cardinality(R) \in Nat /\ Cardinality(F) \in Nat
    BY <1>2, EfsFinite
  <2>2. R \cup F = F \cup R /\ F \cap R = {}
    BY <1>2
  <2> HIDE DEF R, F
  <2>3. Cardinality(F \cup R) = Cardinality(F) + Cardinality(R) - Cardinality(F \cap R)
    BY <2>1, FS_Union
  <2>4. Cardinality(F \cap R) = 0
    BY <2>2, FS_EmptySet
  <2>5. Present(t) = F \cup R
    BY <1>2
  <2> QED
    BY <2>1, <2>3, <2>4, <2>5
<1>4. \A p \in Present(t) : InodeOf(t, p) = IF p \in F THEN 2 + A(p) ELSE 2 + Cardinality(F) + B(p)
  BY DEF InodeOf, RootInode
<1> HIDE DEF F, R
<1>5. \A p \in F : A(p) \in Nat /\ A(p) < Cardinality(F)
  BY <1>2, CountsBefore
<1>6. \A p \in R : B(p) \in Nat /\ B(p) < Cardinality(R)
  BY <1>2, CountsBefore
<1>7. \A p, q \in F : A(p) = A(q) => p = q
  BY <1>2, CountsApart
<1>8. \A p, q \in R : B(p) = B(q) => p = q
  BY <1>2, CountsApart
<1> HIDE DEF A, B
<1>9. ASSUME NEW p \in Present(t)
      PROVE  /\ InodeOf(t, p) \in Nat /\ InodeOf(t, p) >= 2
             /\ InodeOf(t, p) <= 1 + Cardinality(Present(t))
  <2>1. CASE p \in F
    BY <1>3, <1>4, <1>5, <2>1
  <2>2. CASE p \notin F
    <3>1. p \in R
      BY <1>2, <2>2
    <3> QED
      BY <1>3, <1>4, <1>6, <2>2, <3>1
  <2> QED
    BY <2>1, <2>2
<1>10. ASSUME NEW p \in Present(t), NEW q \in Present(t), InodeOf(t, p) = InodeOf(t, q)
       PROVE  p = q
  <2>1. CASE p \in F /\ q \in F
    BY <1>4, <1>5, <1>7, <1>10, <2>1
  <2>2. CASE p \notin F /\ q \notin F
    <3>1. p \in R /\ q \in R
      BY <1>2, <2>2
    <3>2. B(p) = B(q)
      BY <1>3, <1>4, <1>6, <1>10, <2>2, <3>1
    <3> QED
      BY <1>8, <3>1, <3>2
  <2>3. CASE p \in F /\ q \notin F
    <3>1. q \in R
      BY <1>2, <2>3
    <3> QED
      BY <1>3, <1>4, <1>5, <1>6, <1>10, <2>3, <3>1
  <2>4. CASE p \notin F /\ q \in F
    <3>1. p \in R
      BY <1>2, <2>4
    <3> QED
      BY <1>3, <1>4, <1>5, <1>6, <1>10, <2>4, <3>1
  <2> QED
    BY <2>1, <2>2, <2>3, <2>4
<1>11. ASSUME Root \in F
       PROVE  InodeOf(t, Root) = RootInode
  <2>1. {q \in F : q < Root} = {}
    <3>1. \A q \in F : q \in Nat
      BY <1>2, PathNumbers
    <3> QED
      BY <3>1 DEF Root
  <2>2. A(Root) = 0
    BY <2>1, FS_EmptySet DEF A
  <2> QED
    BY <1>1, <1>4, <1>11, <2>2 DEF RootInode
<1> QED
  BY <1>1, <1>9, <1>10, <1>11 DEF F

(* Every slot has one number, and the reader finds it.                     *)
TableSlots(g) == (0..(g.ncg - 1)) \X (0..(InodeBlocks - 1)) \X (0..(InodesPerBlock - 1))

LEMMA SlotsApart ==
  ASSUME NEW g, g.ncg \in Nat, NEW s \in TableSlots(g), NEW u \in TableSlots(g),
         SlotNumber(s[1], s[2], s[3]) = SlotNumber(u[1], u[2], u[3])
  PROVE  s = u
<1>1. /\ InodeBlocks \in Nat /\ InodesPerBlock \in Nat /\ InodesPerCg = InodeBlocks * InodesPerBlock
  BY EfsNumbers
<1>2. ASSUME NEW x \in TableSlots(g)
      PROVE  /\ x[1] \in Nat /\ x[2] \in 0..(InodeBlocks - 1) /\ x[3] \in 0..(InodesPerBlock - 1)
             /\ x = <<x[1], x[2], x[3]>> /\ x[1] * InodeBlocks + x[2] \in Nat
             /\ SlotNumber(x[1], x[2], x[3]) = (x[1] * InodeBlocks + x[2]) * InodesPerBlock + x[3]
  <2>1. /\ x[1] \in Nat /\ x[2] \in 0..(InodeBlocks - 1) /\ x[3] \in 0..(InodesPerBlock - 1)
        /\ x = <<x[1], x[2], x[3]>> /\ x[2] \in Nat /\ x[3] \in Nat
    BY <1>1 DEF TableSlots
  <2>2. \A a, b, c, d \in Nat : a * (b * d) + c * d = (a * b + c) * d
    BY Z3
  <2>3. x[1] * InodeBlocks + x[2] \in Nat
    BY <1>1, <2>1, Z3
  <2> QED
    BY <1>1, <2>1, <2>2, <2>3 DEF SlotNumber
<1>3. s[1] * InodeBlocks + s[2] = u[1] * InodeBlocks + u[2] /\ s[3] = u[3]
  <2> DEFINE a == s[1] * InodeBlocks + s[2]
             b == u[1] * InodeBlocks + u[2]
  <2>1. a \in Nat /\ b \in Nat /\ a * InodesPerBlock + s[3] = b * InodesPerBlock + u[3]
        /\ s[3] \in 0..(InodesPerBlock - 1) /\ u[3] \in 0..(InodesPerBlock - 1)
    BY <1>2
  <2> HIDE DEF a, b
  <2>2. a = b /\ s[3] = u[3]
    BY <1>1, <2>1, OneQuotient
  <2> QED
    BY <2>2 DEF a, b
<1>4. s[1] = u[1] /\ s[2] = u[2]
  BY <1>1, <1>2, <1>3, OneQuotient
<1> QED
  BY <1>2, <1>3, <1>4

LEMMA SlotFound ==
  ASSUME NEW g, g.ncg \in Nat, NEW n \in Nat, n < g.ncg * InodesPerCg
  PROVE  /\ SlotOf(n) \in TableSlots(g)
         /\ SlotNumber(SlotOf(n)[1], SlotOf(n)[2], SlotOf(n)[3]) = n
<1> DEFINE I == InodesPerBlock
           B == InodeBlocks
           m == n \div I
           x == n % I
           c == m \div B
           b == m % B
<1>1. I \in Nat /\ I > 0 /\ B \in Nat /\ B > 0 /\ InodesPerCg = B * I /\ InodesPerCg \in Nat /\ InodesPerCg > 0
  BY EfsNumbers
<1>2. m \in Nat /\ x \in 0..(I - 1) /\ n = m * I + x
  BY <1>1, QuotientIs
<1>3. c \in Nat /\ b \in 0..(B - 1) /\ m = c * B + b
  BY <1>1, <1>2, QuotientIs
<1> HIDE DEF m, x, c, b, I, B
<1>4. b \in Nat /\ x \in Nat
  BY <1>1, <1>2, <1>3
<1>5. n = c * (B * I) + (b * I + x)
  <2>1. (c * B + b) * I + x = c * (B * I) + (b * I + x)
    <3>1. SUFFICES ASSUME NEW e \in Nat, NEW f \in Nat, NEW h \in Nat, NEW i \in Nat, NEW j \in Nat
                   PROVE  (e * f + h) * i + j = e * (f * i) + (h * i + j)
      BY <1>1, <1>3, <1>4
    <3> QED
      BY Z3
  <2> QED
    BY <1>2, <1>3, <2>1
<1>6. b * I + x \in 0..(B * I - 1)
  <2>1. (b + 1) * I <= B * I /\ B * I \in Nat /\ b * I \in Nat
    <3>1. b + 1 \in Nat /\ b + 1 <= B
      BY <1>1, <1>3
    <3>2. (b + 1) * I <= B * I /\ B * I \in Nat
      BY <1>1, <3>1, TimesGrows
    <3>3. b * I \in Nat
      BY <1>1, <1>4, Z3
    <3> QED
      BY <3>2, <3>3
  <2>2. (b + 1) * I = b * I + I
    BY <1>1, <1>4, Z3
  <2>3. SUFFICES ASSUME NEW e \in Nat, NEW f \in Nat, e + I <= f
                 PROVE  e + x \in 0..(f - 1)
    BY <2>1, <2>2
  <2> QED
    BY <1>1, <1>2, <2>3
<1>7. n \div (B * I) = c
  BY <1>1, <1>3, <1>5, <1>6, QuotientOf
<1>8. c < g.ncg
  <2>1. SUFFICES ASSUME g.ncg <= c
                 PROVE  FALSE
    BY <1>3
  <2>2. g.ncg * InodesPerCg <= c * InodesPerCg /\ c * InodesPerCg \in Nat /\ g.ncg * InodesPerCg \in Nat
    BY <1>1, <1>3, <2>1, TimesGrows
  <2>3. c * InodesPerCg <= n
    <3>1. b * I + x \in Nat /\ c * (B * I) \in Nat
      BY <1>1, <1>6, <2>2
    <3> QED
      BY <1>1, <1>5, <3>1
  <2> QED
    BY <2>2, <2>3
<1>9. SlotOf(n) = <<c, b, x>>
  BY <1>7 DEF SlotOf, m, x, c, b, I, B
<1>10. SlotNumber(c, b, x) = n
  <2>1. \A e, f, h \in Nat : e + (f + h) = e + f + h
    OBVIOUS
  <2>2. c * (B * I) \in Nat /\ b * I \in Nat
    BY <1>1, <1>3, <1>4, Z3
  <2> QED
    BY <1>1, <1>4, <1>5, <2>1, <2>2 DEF SlotNumber, I
<1> QED
  BY <1>1, <1>2, <1>3, <1>8, <1>9, <1>10 DEF TableSlots, I, B

-----------------------------------------------------------------------------
(* EfsImage: objects and trees.                                            *)

EfsKinds == {"none", "dir", "dev", "reg", "link"}

(* An object has as many blocks as its size asks for.                      *)
IsObj(o) ==
  /\ o = [kind |-> o.kind, size |-> o.size, data |-> o.data]
  /\ o.kind \in EfsKinds /\ o.size \in Nat
  /\ o.data = [k \in 1..Blocks(o.size) |-> o.data[k]]
  /\ o.kind \in {"none", "dir", "dev"} => o.size = 0

Objected(t) == t = [p \in Paths |-> t[p]] /\ \A p \in Paths : IsObj(t[p])
GoodTree(t) == Objected(t) /\ IsTree(t)

LEMMA SequenceIs ==
  ASSUME NEW n \in Nat, NEW d, d = [k \in 1..n |-> d[k]]
  PROVE  Len(d) = n /\ d \in Seq({d[k] : k \in 1..n})
<1> DEFINE S == {d[k] : k \in 1..n}
<1>1. d \in [1..n -> S]
  OBVIOUS
<1> HIDE DEF S
<1>2. d \in Seq(S)
  BY <1>1
<1>3. Len(d) \in Nat /\ DOMAIN d = 1..Len(d) /\ DOMAIN d = 1..n
  BY <1>1, <1>2, LenProperties
<1>4. Len(d) = n
  BY <1>3
<1> QED
  BY <1>2, <1>4 DEF S

LEMMA BlocksIs ==
  ASSUME NEW s \in Nat
  PROVE  /\ Blocks(s) \in Nat /\ s <= Blocks(s) * BlockSize
         /\ \A n \in Nat : s <= n * BlockSize => Blocks(s) <= n
         /\ (s = 0 => Blocks(s) = 0) /\ (s > 0 => Blocks(s) > 0)
<1>1. /\ Blocks(s) \in Nat /\ s <= Blocks(s) * BlockSize
      /\ \A n \in Nat : s <= n * BlockSize => Blocks(s) <= n
      /\ (s > 0 => Blocks(s) > 0)
  BY EfsNumbers, CeilDivIs DEF Blocks
<1>2. s = 0 => Blocks(s) <= 0
  <2>1. 0 * BlockSize = 0
    BY EfsNumbers
  <2> QED
    BY <1>1, <2>1
<1> QED
  BY <1>1, <1>2

LEMMA SmallObjects == IsObj(NoObject) /\ IsObj(Folder) /\ IsObj(Device)
<1>1. Blocks(0) = 0 /\ 0 \in Nat
  BY BlocksIs
<1>2. <<>> = [k \in 1..0 |-> <<>>[k]]
  OBVIOUS
<1>3. ASSUME NEW kind \in {"none", "dir", "dev"}
      PROVE  IsObj([kind |-> kind, size |-> 0, data |-> <<>>])
  BY <1>1, <1>2 DEF IsObj, EfsKinds
<1> QED
  BY <1>3 DEF NoObject, Folder, Device

LEMMA FilesAre ==
  ASSUME NEW kind \in {"reg", "link"}, NEW size \in Nat, NEW from
  PROVE  IsObj(File(kind, size, from)) /\ File(kind, size, from).kind = kind
<1> DEFINE o == File(kind, size, from)
<1>1. /\ o.kind = kind /\ o.size = size
      /\ o.data = [k \in 1..Blocks(size) |-> [source |-> from, number |-> k]]
      /\ o = [kind |-> o.kind, size |-> o.size, data |-> o.data]
  BY DEF File
<1>2. o.data = [k \in 1..Blocks(size) |-> o.data[k]]
  BY <1>1
<1> HIDE DEF o
<1>3. IsObj(o)
  BY <1>1, <1>2 DEF IsObj, EfsKinds
<1> QED
  BY <1>1, <1>3 DEF o

LEMMA KindsAre ==
  ASSUME NEW o, IsObj(o)
  PROVE  /\ o.kind = "dir" <=> o = Folder
         /\ o.kind = "none" <=> o = NoObject
         /\ o.kind = "dev" <=> o = Device
         /\ Len(o.data) = Blocks(o.size)
<1>1. ASSUME o.kind \in {"none", "dir", "dev"}
      PROVE  o = [kind |-> o.kind, size |-> 0, data |-> <<>>]
  <2>1. o.size = 0 /\ Blocks(0) = 0
    BY <1>1, BlocksIs DEF IsObj
  <2>2. o.data = [k \in 1..0 |-> o.data[k]]
    BY <2>1 DEF IsObj
  <2>3. o.data = <<>>
    BY <2>2
  <2> QED
    BY <2>1, <2>3 DEF IsObj
<1>2. Len(o.data) = Blocks(o.size)
  <2>1. Blocks(o.size) \in Nat /\ o.data = [k \in 1..Blocks(o.size) |-> o.data[k]]
    BY BlocksIs DEF IsObj
  <2> QED
    BY <2>1, SequenceIs
<1> QED
  BY <1>1, <1>2 DEF Folder, NoObject, Device

LEMMA TreesAreGood ==
  ASSUME NEW t \in Trees
  PROVE  GoodTree(t)
<1>1. /\ t \in [Paths -> UNION {Objects(p) : p \in Paths}] /\ IsTree(t)
      /\ \A p \in Paths : t[p] \in Objects(p)
  BY DEF Trees
<1>2. ASSUME NEW p \in Paths
      PROVE  IsObj(t[p])
  <2>1. CASE t[p] \in {NoObject, Folder, Device}
    BY <2>1, SmallObjects
  <2>2. CASE t[p] \in {File("reg", s, <<p, 0>>) : s \in Sizes}
    <3>1. PICK s \in Sizes : t[p] = File("reg", s, <<p, 0>>)
      BY <2>2
    <3>2. s \in Nat
      BY EfsNumbers
    <3> QED
      BY <3>1, <3>2, FilesAre
  <2>3. CASE t[p] = File("link", 1, <<p, 0>>)
    BY <2>3, FilesAre
  <2> QED
    BY <1>1, <2>1, <2>2, <2>3 DEF Objects
<1>3. t = [p \in Paths |-> t[p]]
  BY <1>1
<1> QED
  BY <1>1, <1>2, <1>3 DEF GoodTree, Objected

LEMMA GoodTreeIs ==
  ASSUME NEW t, GoodTree(t)
  PROVE  /\ t[Root] = Folder /\ \A p \in Paths : IsObj(t[p])
         /\ FoldersOf(t) = {p \in Paths : t[p].kind = "dir"}
         /\ Present(t) = {p \in Paths : t[p].kind # "none"}
         /\ \A p \in Present(t) : p # Root => Parent[p] \in FoldersOf(t)
         /\ Root \in FoldersOf(t) /\ FoldersOf(t) \subseteq Present(t) /\ Present(t) \subseteq Paths
         /\ \A p \in Paths : t[p].kind = "reg" => t[p].size \in Nat
<1>1. /\ t[Root] = Folder /\ \A p \in Paths : IsObj(t[p])
      /\ \A p \in Paths : p # Root /\ t[p] # NoObject => t[Parent[p]] = Folder
  BY DEF GoodTree, Objected, IsTree
<1>2. /\ FoldersOf(t) = {p \in Paths : t[p].kind = "dir"}
      /\ Present(t) = {p \in Paths : t[p].kind # "none"}
  BY <1>1, KindsAre DEF FoldersOf, Present
<1>3. \A p \in Present(t) : p # Root => Parent[p] \in FoldersOf(t)
  BY <1>1, PathNumbers DEF FoldersOf, Present
<1>4. Root \in FoldersOf(t)
  BY <1>1, PathNumbers DEF FoldersOf
<1>5. \A p \in Paths : t[p].size \in Nat
  BY <1>1 DEF IsObj
<1> QED
  BY <1>1, <1>2, <1>3, <1>4, <1>5, InodeNumbers

LEMMA NeededIs ==
  ASSUME NEW t, GoodTree(t), NEW p \in Paths
  PROVE  /\ Needed(t, p) \in Nat
         /\ p \in FoldersOf(t) => Needed(t, p) = FolderBlocks(t, p)
         /\ p \notin FoldersOf(t) => Needed(t, p) = Blocks(t[p].size)
         /\ p \notin Present(t) => Needed(t, p) = 0
<1>1. CASE p \in FoldersOf(t)
  <2>1. Children(t, p) \subseteq Paths
    BY DEF Children, Present
  <2>2. 2 + Cardinality(Children(t, p)) \in Nat
    BY <2>1, EfsFinite
  <2>3. FolderBlocks(t, p) \in Nat
    BY <2>2, EfsNumbers, CeilDivIs DEF FolderBlocks
  <2> QED
    BY <1>1, <2>3, GoodTreeIs DEF Needed
<1>2. CASE p \notin FoldersOf(t)
  <2>1. IsObj(t[p]) /\ t[p].size \in Nat
    BY GoodTreeIs DEF IsObj
  <2>2. Needed(t, p) = Blocks(t[p].size)
    BY <1>2, <2>1, KindsAre DEF Needed
  <2>3. Blocks(t[p].size) \in Nat /\ (t[p].size = 0 => Blocks(t[p].size) = 0)
    BY <2>1, BlocksIs
  <2>4. p \notin Present(t) => t[p].size = 0
    BY GoodTreeIs, <2>1 DEF IsObj
  <2> QED
    BY <1>2, <2>2, <2>3, <2>4
<1> QED
  BY <1>1, <1>2

-----------------------------------------------------------------------------
(* EfsImage: what is read of a volume that was built.                      *)

Extent == [bn : Nat, length : Nat]

(* What the blocks of some extents hold, and the first blocks of an object.*)
Written(img, ext) ==
  FlattenSeq([j \in 1..Len(ext) |-> [k \in 1..ext[j].length |-> img[ext[j].bn + k - 1]]])
Prefix(t, p, m) == [k \in 1..m |-> Block(t, p, k)]

(* A volume with the inodes of a tree: the blocks of a folder hold nothing *)
(* but its entries, and those of objects outside gone are all there.       *)
BuiltAs(v, t, ext, gone) ==
  /\ GoodTree(t) /\ v.geo.ncg \in Nat
  /\ Cardinality(Present(t)) + InodeSlack <= v.geo.ncg * InodesPerCg
  /\ v.inodes = InodeTable(t, v.geo, ext) /\ ext \in [Paths -> Seq(Extent)]
  /\ \A p \in FoldersOf(t) : \A i \in 1..Len(ext[p]) : \A b \in Span(ext[p][i]) :
       v.image[b] = Superblock \/ \E k \in 1..Needed(t, p) : v.image[b] = FolderBlock(t, p, k)
  /\ \A p \in Present(t) \ gone :
       Len(ext[p]) <= MaxExtents /\ Written(v.image, ext[p]) = Prefix(t, p, Needed(t, p))

LEMMA WrittenType ==
  ASSUME NEW img, NEW ext \in Seq(Extent), NEW S,
         \A j \in 1..Len(ext) : \A b \in Span(ext[j]) : img[b] \in S
  PROVE  /\ [j \in 1..Len(ext) |-> [k \in 1..ext[j].length |-> img[ext[j].bn + k - 1]]] \in Seq(Seq(S))
         /\ Written(img, ext) \in Seq(S)
<1> DEFINE ss == [j \in 1..Len(ext) |-> [k \in 1..ext[j].length |-> img[ext[j].bn + k - 1]]]
<1>1. Len(ext) \in Nat /\ \A j \in 1..Len(ext) : ext[j] \in Extent
  BY LenProperties
<1>2. ASSUME NEW j \in 1..Len(ext)
      PROVE  [k \in 1..ext[j].length |-> img[ext[j].bn + k - 1]] \in Seq(S)
  <2>1. ext[j].length \in Nat /\ ext[j].bn \in Nat
    BY <1>1 DEF Extent
  <2>2. \A k \in 1..ext[j].length : ext[j].bn + k - 1 \in Span(ext[j])
    BY <2>1 DEF Span
  <2>3. \A k \in 1..ext[j].length : img[ext[j].bn + k - 1] \in S
    BY <2>2
  <2> DEFINE c == [k \in 1..ext[j].length |-> img[ext[j].bn + k - 1]]
             l == ext[j].length
  <2>4. c \in [1..l -> S] /\ l \in Nat
    BY <2>1, <2>3
  <2> HIDE DEF c, l
  <2>5. c \in Seq(S)
    BY <2>4
  <2> QED
    BY <2>5 DEF c
<1>3. ss \in [1..Len(ext) -> Seq(S)]
  BY <1>2
<1>4. ss \in Seq(Seq(S))
  <2> HIDE DEF ss
  <2> QED
    BY <1>1, <1>3
<1>5. Written(img, ext) = FlattenSeq(ss)
  BY DEF Written
<1> HIDE DEF ss
<1> QED
  BY <1>4, <1>5, FlattenType DEF ss

LEMMA ShortExtents ==
  ASSUME NEW x \in Seq(Extent)
  PROVE  LET e == SubSeq(x, 1, Min({Len(x), MaxExtents}))
         IN  /\ Len(e) \in Nat /\ Len(e) <= Len(x) /\ \A j \in 1..Len(e) : e[j] = x[j]
             /\ Len(x) <= MaxExtents => e = x
             /\ e \in Seq(Extent)
<1> DEFINE m == Min({Len(x), MaxExtents})
           e == SubSeq(x, 1, m)
<1>1. Len(x) \in Nat /\ MaxExtents \in Nat
  BY LenProperties, EfsNumbers
<1>2. m \in {Len(x), MaxExtents} /\ m <= Len(x) /\ m <= MaxExtents
  BY <1>1, MinOfTwo
<1>3. m \in Nat /\ (Len(x) <= MaxExtents => m = Len(x))
  BY <1>1, <1>2
<1> HIDE DEF m
<1>4. /\ Len(e) = m /\ e \in Seq(Extent)
      /\ \A j \in 1..m : e[j] = x[j]
  <2>1. 1 \in Int /\ m \in Int /\ \A j \in 1..m : x[j] \in Extent
    BY <1>1, <1>2, <1>3
  <2>2. e \in Seq(Extent) /\ Len(e) = (IF 1 <= m THEN (m - 1) + 1 ELSE 0)
    BY <2>1, SubSeqProperties
  <2>3. \A j \in 1..((m - 1) + 1) : e[j] = x[(1 + j) - 1]
    BY <2>1, SubSeqProperties
  <2> HIDE DEF e
  <2>4. Len(e) = m /\ (m - 1) + 1 = m /\ \A j \in 1..m : (1 + j) - 1 = j
    BY <1>3, <2>2
  <2> QED
    BY <2>2, <2>3, <2>4
<1>5. ASSUME Len(x) <= MaxExtents
      PROVE  e = x
  BY <1>3, <1>4, <1>5, SeqEqual
<1> QED
  BY <1>1, <1>2, <1>3, <1>4, <1>5 DEF m

(* The inodes of the table.                                                *)
LEMMA TableIs ==
  ASSUME NEW t, GoodTree(t), NEW g, g.ncg \in Nat, NEW ext,
         Cardinality(Present(t)) + InodeSlack <= g.ncg * InodesPerCg
  PROVE  /\ DOMAIN InodeTable(t, g, ext) = TableSlots(g)
         /\ \A s \in TableSlots(g) :
              \/ InodeTable(t, g, ext)[s] = NoInode
              \/ \E p \in Present(t) : /\ InodeOf(t, p) = SlotNumber(s[1], s[2], s[3])
                                       /\ InodeTable(t, g, ext)[s] = Inode(t, p, ext[p])
         /\ \A p \in Present(t) :
              /\ SlotOf(InodeOf(t, p)) \in TableSlots(g)
              /\ InodeTable(t, g, ext)[SlotOf(InodeOf(t, p))] = Inode(t, p, ext[p])
<1> DEFINE T == InodeTable(t, g, ext)
           mine(s) == {p \in Present(t) : InodeOf(t, p) = SlotNumber(s[1], s[2], s[3])}
<1>1. T = [s \in TableSlots(g) |-> IF mine(s) = {} THEN NoInode ELSE Inode(t, Min(mine(s)), ext[Min(mine(s))])]
  BY Zenon DEF InodeTable, TableSlots
<1>2. \A s \in TableSlots(g) : mine(s) \subseteq Nat
  BY InodeNumbers, PathNumbers
<1>3. ASSUME NEW s \in TableSlots(g), mine(s) # {}
      PROVE  Min(mine(s)) \in mine(s) /\ T[s] = Inode(t, Min(mine(s)), ext[Min(mine(s))])
  <2>1. T[s] = Inode(t, Min(mine(s)), ext[Min(mine(s))])
    BY <1>1, <1>3
  <2>2. mine(s) \subseteq Nat /\ mine(s) # {}
    BY <1>2, <1>3
  <2> HIDE DEF mine
  <2>3. Min(mine(s)) \in mine(s)
    BY <2>2, MinOfSet
  <2> QED
    BY <2>1, <2>3
<1>4. ASSUME NEW s \in TableSlots(g)
      PROVE  \/ T[s] = NoInode
             \/ \E p \in Present(t) : /\ InodeOf(t, p) = SlotNumber(s[1], s[2], s[3])
                                      /\ T[s] = Inode(t, p, ext[p])
  <2>1. CASE mine(s) = {}
    BY <1>1, <2>1
  <2>2. CASE mine(s) # {}
    <3> DEFINE p == Min(mine(s))
    <3>1. p \in mine(s) /\ T[s] = Inode(t, p, ext[p])
      BY <1>3, <2>2
    <3>2. p \in Present(t) /\ InodeOf(t, p) = SlotNumber(s[1], s[2], s[3])
      <4> HIDE DEF p
      <4> QED
        BY <3>1
    <3> HIDE DEF p, T
    <3> QED
      BY <3>1, <3>2
  <2> QED
    BY <2>1, <2>2
<1>5. ASSUME NEW p \in Present(t)
      PROVE  /\ SlotOf(InodeOf(t, p)) \in TableSlots(g)
             /\ T[SlotOf(InodeOf(t, p))] = Inode(t, p, ext[p])
  <2> DEFINE n == InodeOf(t, p)
             s == SlotOf(n)
  <2>1. n \in Nat /\ n <= 1 + Cardinality(Present(t))
    BY InodeNumbers
  <2>2. n < g.ncg * InodesPerCg
    <3>1. /\ Cardinality(Present(t)) \in Nat /\ InodeSlack \in Nat /\ InodeSlack >= 2
          /\ g.ncg * InodesPerCg \in Nat
      <4>1. InodesPerCg \in Nat /\ InodeSlack \in Nat /\ InodeSlack >= 2
        BY EfsNumbers
      <4>2. g.ncg * InodesPerCg \in Nat
        BY <4>1, Z3
      <4> QED
        BY <4>1, <4>2, InodeNumbers, EfsFinite
    <3> HIDE DEF n
    <3> QED
      BY <2>1, <3>1
  <2>3. s \in TableSlots(g) /\ SlotNumber(s[1], s[2], s[3]) = n
    BY <2>1, <2>2, SlotFound
  <2> HIDE DEF s
  <2>4. mine(s) = {p}
    <3>1. p \in mine(s)
      BY <2>3
    <3>2. \A q \in mine(s) : q = p
      BY <2>3, InodeNumbers
    <3> QED
      BY <3>1, <3>2
  <2>5. Min(mine(s)) = p /\ T[s] = Inode(t, Min(mine(s)), ext[Min(mine(s))])
    <3>1. mine(s) # {}
      BY <2>4
    <3>2. Min(mine(s)) \in mine(s) /\ T[s] = Inode(t, Min(mine(s)), ext[Min(mine(s))])
      BY <1>3, <2>3, <3>1
    <3> HIDE DEF mine
    <3> QED
      BY <2>4, <3>2
  <2> HIDE DEF mine, T
  <2> QED
    BY <2>3, <2>5 DEF s
<1>6. DOMAIN T = TableSlots(g)
  BY <1>1
<1> QED
  BY <1>4, <1>5, <1>6

EntriesOf(t, d) == {<<p, InodeOf(t, p)>> : p \in Children(t, d)}

LEMMA FolderEntries ==
  ASSUME NEW t, GoodTree(t), NEW d \in FoldersOf(t)
  PROVE  /\ \A k : /\ DOMAIN FolderBlock(t, d, k) = {"entries"}
                   /\ FolderBlock(t, d, k).entries \subseteq EntriesOf(t, d)
         /\ \A p \in Children(t, d) : \E k \in 1..Needed(t, d) :
              <<p, InodeOf(t, p)>> \in FolderBlock(t, d, k).entries
<1> DEFINE Kids == Children(t, d)
           Place(p) == 2 + Cardinality({q \in Kids : q <= p})
           mine(k) == {p \in Kids : CeilDiv(Place(p), EntriesPerBlock) = k}
<1>1. \A k : FolderBlock(t, d, k) = [entries |-> {<<p, InodeOf(t, p)>> : p \in mine(k)}]
  BY DEF FolderBlock
<1>2. ASSUME NEW k
      PROVE  /\ DOMAIN FolderBlock(t, d, k) = {"entries"}
             /\ FolderBlock(t, d, k).entries \subseteq EntriesOf(t, d)
  <2>1. FolderBlock(t, d, k) = [entries |-> {<<p, InodeOf(t, p)>> : p \in mine(k)}]
    BY <1>1
  <2>2. {<<p, InodeOf(t, p)>> : p \in mine(k)} \subseteq EntriesOf(t, d)
    BY DEF EntriesOf
  <2> HIDE DEF mine
  <2> QED
    BY <2>1, <2>2
<1>3. ASSUME NEW p \in Kids
      PROVE  \E k \in 1..Needed(t, d) : <<p, InodeOf(t, p)>> \in FolderBlock(t, d, k).entries
  <2> DEFINE Upto == {q \in Kids : q <= p}
             k == CeilDiv(Place(p), EntriesPerBlock)
             last == CeilDiv(2 + Cardinality(Kids), EntriesPerBlock)
  <2>1. Kids \subseteq Paths
    BY DEF Children, Present
  <2>2. Upto \in SUBSET Kids
    OBVIOUS
  <2>3. IsFiniteSet(Kids) /\ Cardinality(Kids) \in Nat
    BY <2>1, EfsFinite
  <2> HIDE DEF Kids, Upto
  <2>4. Cardinality(Upto) \in Nat /\ Cardinality(Upto) <= Cardinality(Kids)
    BY <2>2, <2>3, FS_Subset, FS_CardinalityType
  <2>5. /\ 2 + Cardinality(Upto) \in Nat /\ 2 + Cardinality(Upto) > 0 /\ 2 + Cardinality(Kids) \in Nat
        /\ 2 + Cardinality(Upto) <= 2 + Cardinality(Kids)
    BY <2>3, <2>4
  <2>6. /\ k \in Nat /\ k > 0 /\ \A n \in Nat : 2 + Cardinality(Upto) <= n * EntriesPerBlock => k <= n
    BY <2>5, EfsNumbers, CeilDivIs DEF Upto
  <2>7. last \in Nat /\ 2 + Cardinality(Kids) <= last * EntriesPerBlock
    BY <2>5, EfsNumbers, CeilDivIs
  <2>8. k <= last
    <3>1. last * EntriesPerBlock \in Nat
      BY <2>7, EfsNumbers, Z3
    <3>2. 2 + Cardinality(Upto) <= last * EntriesPerBlock
      <4> HIDE DEF last
      <4> QED
        BY <2>3, <2>4, <2>7, <3>1
    <3> HIDE DEF last, k
    <3> QED
      BY <2>6, <2>7, <3>2
  <2>9. Needed(t, d) = last
    <3>1. d \in Paths
      BY GoodTreeIs
    <3> QED
      BY <3>1, NeededIs DEF FolderBlocks, Kids
  <2>10. p \in mine(k)
    BY <1>3
  <2>11. <<p, InodeOf(t, p)>> \in {<<q, InodeOf(t, q)>> : q \in mine(k)}
    <3> HIDE DEF mine, k
    <3> QED
      BY <2>10
  <2>12. FolderBlock(t, d, k) = [entries |-> {<<q, InodeOf(t, q)>> : q \in mine(k)}]
    BY <1>1
  <2> HIDE DEF k, last, mine
  <2>13. <<p, InodeOf(t, p)>> \in FolderBlock(t, d, k).entries
    BY <2>11, <2>12
  <2>14. k \in 1..Needed(t, d)
    BY <2>6, <2>7, <2>8, <2>9
  <2> QED
    BY <2>13, <2>14
<1> QED
  BY <1>2, <1>3

(* What the reader makes of the inode of p.                                *)
LEMMA BlocksRead ==
  ASSUME NEW v, NEW t, NEW ext, NEW gone, BuiltAs(v, t, ext, gone), NEW p \in Present(t)
  PROVE  LET i == Inode(t, p, ext[p])
         IN  /\ i.kind = t[p].kind
             /\ i.size = IF p \in FoldersOf(t) THEN FolderBlocks(t, p) * BlockSize ELSE t[p].size
             /\ ExtentsOf(i) \in Seq(Extent)
             /\ Len(ext[p]) <= MaxExtents => ExtentsOf(i) = ext[p]
             /\ ~(Len(ext[p]) <= MaxExtents) => ExtentsOf(i) = <<>>
             /\ BlocksOf(v, i) = Written(v.image, ExtentsOf(i))
             /\ p \notin gone => BlocksOf(v, i) = Prefix(t, p, Needed(t, p))
<1> DEFINE i == Inode(t, p, ext[p])
           e == SubSeq(ext[p], 1, Min({Len(ext[p]), MaxExtents}))
<1>1. p \in Paths /\ ext[p] \in Seq(Extent)
  BY InodeNumbers DEF BuiltAs
<1>2. /\ i.kind = t[p].kind /\ i.count = Len(ext[p]) /\ i.ext = e
      /\ i.size = IF p \in FoldersOf(t) THEN FolderBlocks(t, p) * BlockSize ELSE t[p].size
  BY DEF Inode
<1>3. Len(ext[p]) <= MaxExtents => e = ext[p]
  BY <1>1, ShortExtents
<1> HIDE DEF i, e
<1>4. ExtentsOf(i) = IF Len(ext[p]) <= MaxExtents THEN ext[p] ELSE <<>>
  BY <1>2, <1>3 DEF ExtentsOf
<1>5. ExtentsOf(i) \in Seq(Extent)
  BY <1>1, <1>4
<1>6. BlocksOf(v, i) = Written(v.image, ExtentsOf(i))
  BY DEF BlocksOf, Written
<1>7. p \notin gone => BlocksOf(v, i) = Prefix(t, p, Needed(t, p))
  BY <1>4, <1>6 DEF BuiltAs
<1> QED
  BY <1>2, <1>4, <1>5, <1>6, <1>7 DEF i

LEMMA EntriesRead ==
  ASSUME NEW v, NEW t, NEW ext, NEW gone, BuiltAs(v, t, ext, gone), NEW d \in FoldersOf(t)
  PROVE  /\ DirEntries(v, Inode(t, d, ext[d])) \subseteq EntriesOf(t, d)
         /\ d \notin gone => DirEntries(v, Inode(t, d, ext[d])) = EntriesOf(t, d)
<1> DEFINE i == Inode(t, d, ext[d])
           B == BlocksOf(v, i)
           S == {Superblock} \cup {FolderBlock(t, d, k) : k \in 1..Needed(t, d)}
<1>1. GoodTree(t) /\ d \in Present(t) /\ d \in Paths /\ ext[d] \in Seq(Extent)
  BY InodeNumbers DEF BuiltAs
<1>2. /\ ExtentsOf(i) \in Seq(Extent) /\ B = Written(v.image, ExtentsOf(i))
      /\ (ExtentsOf(i) = ext[d] \/ ExtentsOf(i) = <<>>)
      /\ d \notin gone => B = Prefix(t, d, Needed(t, d))
  BY <1>1, BlocksRead
<1> HIDE DEF i
<1>3. \A j \in 1..Len(ExtentsOf(i)) : \A b \in Span(ExtentsOf(i)[j]) : v.image[b] \in S
  <2>1. \A j \in 1..Len(ext[d]) : \A b \in Span(ext[d][j]) : v.image[b] \in S
    BY DEF BuiltAs
  <2>2. 1..Len(<<>>) = {}
    OBVIOUS
  <2> HIDE DEF S
  <2> QED
    BY <1>2, <2>1, <2>2
<1>4. B \in Seq(S)
  <2> HIDE DEF S, B
  <2> QED
    BY <1>2, <1>3, WrittenType
<1>5. \A x \in ToSet(B) : x \in S
  <2> HIDE DEF S, B
  <2> QED
    BY <1>4 DEF ToSet
<1>6. DirEntries(v, i) = UNION {b.entries : b \in {x \in ToSet(B) : DOMAIN x = {"entries"}}}
  BY DEF DirEntries
<1>7. DOMAIN Superblock = {"superblock"}
  BY DEF Superblock
<1> HIDE DEF B
<1>8. ASSUME NEW x \in ToSet(B), DOMAIN x = {"entries"}
      PROVE  x.entries \subseteq EntriesOf(t, d)
  <2>1. x # Superblock
    BY <1>7, <1>8
  <2>2. PICK k \in 1..Needed(t, d) : x = FolderBlock(t, d, k)
    BY <1>5, <2>1
  <2> QED
    BY <1>1, <2>2, FolderEntries
<1>9. DirEntries(v, i) \subseteq EntriesOf(t, d)
  BY <1>6, <1>8
<1>10. ASSUME d \notin gone
       PROVE  EntriesOf(t, d) \subseteq DirEntries(v, i)
  <2>1. B = Prefix(t, d, Needed(t, d))
    BY <1>2, <1>10
  <2>2. ASSUME NEW p \in Children(t, d)
        PROVE  <<p, InodeOf(t, p)>> \in DirEntries(v, i)
    <3>1. PICK k \in 1..Needed(t, d) : <<p, InodeOf(t, p)>> \in FolderBlock(t, d, k).entries
      BY <1>1, FolderEntries
    <3>2. B[k] = FolderBlock(t, d, k) /\ k \in DOMAIN B
      BY <2>1 DEF Prefix, Block
    <3>3. FolderBlock(t, d, k) \in ToSet(B) /\ DOMAIN FolderBlock(t, d, k) = {"entries"}
      BY <1>1, <3>2, FolderEntries DEF ToSet
    <3> QED
      BY <1>6, <3>1, <3>3
  <2> QED
    BY <2>2 DEF EntriesOf
<1> QED
  BY <1>9, <1>10 DEF i

LEMMA InodeRead ==
  ASSUME NEW v, NEW t, NEW ext, NEW gone, BuiltAs(v, t, ext, gone), NEW p \in Present(t)
  PROVE  ReadInode(v, InodeOf(t, p)) = Inode(t, p, ext[p])
<1>1. /\ DOMAIN v.inodes = TableSlots(v.geo) /\ SlotOf(InodeOf(t, p)) \in TableSlots(v.geo)
      /\ v.inodes[SlotOf(InodeOf(t, p))] = Inode(t, p, ext[p])
  BY TableIs DEF BuiltAs
<1> QED
  BY <1>1 DEF ReadInode

LEMMA FoundIs ==
  ASSUME NEW v, NEW t, NEW ext, NEW gone, BuiltAs(v, t, ext, gone),
         NEW p \in Paths, p # Root, Parent[p] \in Present(t)
  PROVE  LET n == Found(v, InodeOf(t, Parent[p]), p)
         IN  /\ n = 0 \/ (p \in Present(t) /\ n = InodeOf(t, p))
             /\ Parent[p] \notin gone => n = IF p \in Present(t) THEN InodeOf(t, p) ELSE 0
<1> DEFINE d == Parent[p]
           m == InodeOf(t, d)
           up == ReadInode(v, m)
           E == DirEntries(v, up)
           here == IF up.kind = "dir" THEN {e[2] : e \in {x \in E : x[1] = p}} ELSE {}
           n == Found(v, m, p)
<1>1. GoodTree(t) /\ m # 0
  BY InodeNumbers DEF BuiltAs
<1>2. n = IF m = 0 \/ here = {} THEN 0 ELSE Min(here)
  BY DEF Found
<1>3. up = Inode(t, d, ext[d]) /\ up.kind = t[d].kind
  BY InodeRead, BlocksRead
<1>4. p \in Present(t) => InodeOf(t, p) \in Nat /\ d \in FoldersOf(t) /\ p \in Children(t, d)
  <2>1. ASSUME p \in Present(t)
        PROVE  InodeOf(t, p) \in Nat /\ d \in FoldersOf(t)
    BY <1>1, <2>1, GoodTreeIs, InodeNumbers
  <2> QED
    BY <2>1 DEF Children
<1> DEFINE Goal == /\ n = 0 \/ (p \in Present(t) /\ n = InodeOf(t, p))
                   /\ d \notin gone => n = IF p \in Present(t) THEN InodeOf(t, p) ELSE 0
<1> SUFFICES Goal
  BY Zenon
<1> HIDE DEF n, m, up, d
<1>5. CASE d \in FoldersOf(t)
  <2>1. up.kind = "dir" /\ E \subseteq EntriesOf(t, d) /\ (d \notin gone => E = EntriesOf(t, d))
    BY <1>1, <1>3, <1>5, GoodTreeIs, EntriesRead
  <2> HIDE DEF E
  <2>2. here = {e[2] : e \in {x \in E : x[1] = p}}
    BY <2>1
  <2>3. \A e \in EntriesOf(t, d) : e[1] = p => e[2] = InodeOf(t, p) /\ p \in Children(t, d)
    BY DEF EntriesOf
  <2>4. here \subseteq {InodeOf(t, p)} /\ (here # {} => p \in Children(t, d))
    BY <2>1, <2>2, <2>3
  <2>5. d \notin gone /\ p \in Children(t, d) => InodeOf(t, p) \in here
    <3>1. ASSUME d \notin gone, p \in Children(t, d)
          PROVE  InodeOf(t, p) \in here
      <4>1. <<p, InodeOf(t, p)>> \in E
        BY <2>1, <3>1 DEF EntriesOf
      <4> QED
        BY <2>2, <4>1
    <3> QED
      BY <3>1
  <2>6. p \in Children(t, d) => p \in Present(t)
    BY DEF Children
  <2> HIDE DEF here
  <2>7. CASE here = {}
    <3>1. n = 0
      BY <1>2, <2>7
    <3>2. d \notin gone => p \notin Present(t)
      BY <1>4, <2>5, <2>7
    <3> QED
      BY <3>1, <3>2
  <2>8. CASE here # {}
    <3>1. here = {InodeOf(t, p)} /\ p \in Present(t)
      BY <2>4, <2>6, <2>8
    <3>2. here \subseteq Nat
      BY <1>4, <3>1
    <3>3. Min(here) = InodeOf(t, p)
      BY <2>8, <3>1, <3>2, MinOfSet
    <3>4. n = InodeOf(t, p)
      BY <1>1, <1>2, <2>8, <3>3
    <3> QED
      BY <3>1, <3>4
  <2> QED
    BY <2>7, <2>8
<1>6. CASE d \notin FoldersOf(t)
  <2>1. up.kind # "dir"
    <3>1. d \in Paths
      BY InodeNumbers DEF d
    <3> QED
      BY <1>1, <1>3, <1>6, <3>1, GoodTreeIs
  <2>2. n = 0
    BY <1>2, <2>1
  <2>3. p \notin Present(t)
    BY <1>4, <1>6
  <2> QED
    BY <2>2, <2>3
<1> QED
  BY <1>5, <1>6

LEMMA ResolvedRight ==
  ASSUME NEW v, NEW t, NEW ext, NEW gone, BuiltAs(v, t, ext, gone)
  PROVE  \A p \in Paths :
           /\ Resolved(v)[p] = 0 \/ (p \in Present(t) /\ Resolved(v)[p] = InodeOf(t, p))
           /\ Above[p] \cap gone = {} =>
                Resolved(v)[p] = IF p \in Present(t) THEN InodeOf(t, p) ELSE 0
<1> DEFINE R == Resolved(v)
           Right(p) == /\ R[p] = 0 \/ (p \in Present(t) /\ R[p] = InodeOf(t, p))
                       /\ Above[p] \cap gone = {} => R[p] = IF p \in Present(t) THEN InodeOf(t, p) ELSE 0
           U == {p \in Paths : Right(p)}
<1>1. GoodTree(t)
  BY DEF BuiltAs
<1>2. R = [p \in Paths |-> IF p = Root THEN RootInode ELSE Found(v, R[Parent[p]], p)]
  BY ResolvedIs
<1> HIDE DEF R
<1>3. Right(Root)
  <2>1. R[Root] = RootInode
    BY <1>2, PathNumbers
  <2> QED
    BY <1>1, <2>1, GoodTreeIs, InodeNumbers
<1>4. ASSUME NEW p \in Paths, p # Root, Right(Parent[p])
      PROVE  Right(p)
  <2> DEFINE d == Parent[p]
  <2>1. d \in Paths /\ R[p] = Found(v, R[d], p)
    BY <1>2, <1>4, PathNumbers
  <2>2. Above[p] = {d} \cup Above[d]
    BY <1>4, AboveIs
  <2>3. p \in Present(t) => d \in Present(t)
    BY <1>1, <1>4, GoodTreeIs
  <2>4. CASE R[d] = 0
    <3>1. R[p] = 0
      BY <2>1, <2>4 DEF Found
    <3>2. ASSUME Above[p] \cap gone = {}
          PROVE  p \notin Present(t)
      <4>1. R[d] = IF d \in Present(t) THEN InodeOf(t, d) ELSE 0
        BY <1>4, <2>2, <3>2
      <4>2. d \notin Present(t)
        BY <2>4, <4>1, InodeNumbers
      <4> QED
        BY <2>3, <4>2
    <3>3. Above[p] \cap gone = {} => R[p] = IF p \in Present(t) THEN InodeOf(t, p) ELSE 0
      BY <3>1, <3>2, Zenon
    <3> QED
      BY <3>1, <3>3, Zenon
  <2>5. CASE R[d] # 0
    <3>1. d \in Present(t) /\ R[d] = InodeOf(t, d)
      BY <1>4, <2>5
    <3>2. /\ R[p] = 0 \/ (p \in Present(t) /\ R[p] = InodeOf(t, p))
          /\ d \notin gone => R[p] = IF p \in Present(t) THEN InodeOf(t, p) ELSE 0
      BY <1>4, <2>1, <3>1, FoundIs
    <3> QED
      BY <2>2, <3>2
  <2> QED
    BY <2>4, <2>5
<1> HIDE DEF Right
<1>5. Paths \subseteq U
  <2>1. Root \in U
    BY <1>3, PathNumbers
  <2>2. \A p \in Paths : p # Root /\ Parent[p] \in U => p \in U
    BY <1>4
  <2> HIDE DEF U
  <2> QED
    BY <2>1, <2>2, FromTheRoot
<1> QED
  BY <1>5 DEF Right, R

(* A file is read as an object, and as itself unless it is gone.           *)
LEMMA ContentIs ==
  ASSUME NEW v, NEW t, NEW ext, NEW gone, BuiltAs(v, t, ext, gone),
         NEW p \in Present(t), t[p].kind \notin {"none", "dir", "dev"}
  PROVE  LET o == Content(v, Inode(t, p, ext[p]))
         IN  IsObj(o) /\ o.kind = t[p].kind /\ (p \notin gone => o = t[p])
<1> DEFINE i == Inode(t, p, ext[p])
           blocks == BlocksOf(v, i)
           l == Len(blocks)
           size == Min({i.size, l * BlockSize})
           data == SubSeq(blocks, 1, Blocks(size))
           S == {v.image[b] : b \in Nat}
           o == Content(v, i)
<1>1. /\ GoodTree(t) /\ p \in Paths /\ p \notin FoldersOf(t) /\ IsObj(t[p])
  <2>1. GoodTree(t)
    BY DEF BuiltAs
  <2> QED
    BY <2>1, GoodTreeIs
<1>2. /\ i.kind = t[p].kind /\ i.size = t[p].size /\ t[p].size \in Nat
      /\ ExtentsOf(i) \in Seq(Extent) /\ blocks = Written(v.image, ExtentsOf(i))
      /\ p \notin gone => blocks = Prefix(t, p, Needed(t, p))
  BY <1>1, BlocksRead DEF IsObj
<1>3. o = [kind |-> i.kind, size |-> size, data |-> data]
  BY DEF Content
<1> HIDE DEF i, o
<1>4. blocks \in Seq(S)
  <2>1. ASSUME NEW j \in 1..Len(ExtentsOf(i)), NEW b \in Span(ExtentsOf(i)[j])
        PROVE  b \in Nat
    <3>1. ExtentsOf(i)[j] \in Extent
      BY <1>2, LenProperties
    <3>2. ExtentsOf(i)[j].bn \in Nat /\ ExtentsOf(i)[j].length \in Nat
      BY <3>1 DEF Extent
    <3> QED
      BY <3>2 DEF Span
  <2>2. \A j \in 1..Len(ExtentsOf(i)) : \A b \in Span(ExtentsOf(i)[j]) : v.image[b] \in S
    BY <2>1
  <2> HIDE DEF S, blocks
  <2> QED
    BY <1>2, <2>2, WrittenType
<1>5. l \in Nat /\ \A k \in 1..l : blocks[k] \in S
  <2> HIDE DEF S, blocks
  <2> QED
    BY <1>4, LenProperties
<1>6. l * BlockSize \in Nat
  <2> HIDE DEF l
  <2> QED
    BY <1>5, EfsNumbers, Z3
<1> HIDE DEF l
<1>7. size \in {i.size, l * BlockSize} /\ size <= i.size /\ size <= l * BlockSize
  <2>1. i.size \in Int /\ l * BlockSize \in Int
    BY <1>2, <1>6
  <2> QED
    BY <2>1, MinOfTwo
<1>8. size \in Nat
  BY <1>2, <1>6, <1>7
<1> HIDE DEF size
<1>9. Blocks(size) \in Nat /\ Blocks(size) <= l
  BY <1>5, <1>7, <1>8, BlocksIs
<1>10. Len(data) = Blocks(size) /\ data \in Seq(S) /\ \A k \in 1..Blocks(size) : data[k] = blocks[k]
  <2> DEFINE m == Blocks(size)
  <2> HIDE DEF m, S, blocks
  <2>1. m \in Nat /\ 1 \in Int /\ m \in Int /\ \A k \in 1..m : blocks[k] \in S
    BY <1>5, <1>9 DEF m
  <2>2. /\ SubSeq(blocks, 1, m) \in Seq(S) /\ Len(SubSeq(blocks, 1, m)) = (IF 1 <= m THEN (m - 1) + 1 ELSE 0)
        /\ \A k \in 1..((m - 1) + 1) : SubSeq(blocks, 1, m)[k] = blocks[(1 + k) - 1]
    BY <2>1, SubSeqProperties
  <2>3. /\ Len(SubSeq(blocks, 1, m)) = m /\ (m - 1) + 1 = m /\ \A k \in 1..m : (1 + k) - 1 = k
    BY <2>1, <2>2
  <2> QED
    BY <2>2, <2>3 DEF m
<1>11. data = [k \in 1..Blocks(size) |-> data[k]]
  <2> HIDE DEF data, S
  <2> QED
    BY <1>10, LenProperties
<1>12. IsObj(o) /\ o.kind = t[p].kind
  <2> HIDE DEF data
  <2>1. o.kind = t[p].kind /\ o.size = size /\ o.data = data
    BY <1>2, <1>3
  <2>2. o.kind \in EfsKinds /\ o.kind \notin {"none", "dir", "dev"}
    BY <1>1, <2>1 DEF IsObj
  <2> QED
    BY <1>3, <1>8, <1>11, <2>1, <2>2 DEF IsObj
<1>13. ASSUME p \notin gone
       PROVE  o = t[p]
  <2> DEFINE m == Blocks(t[p].size)
  <2>1. Needed(t, p) = m /\ m \in Nat /\ t[p].size <= m * BlockSize
    BY <1>1, <1>2, NeededIs, BlocksIs
  <2>2. blocks = [k \in 1..m |-> t[p].data[k]]
    BY <1>1, <1>2, <1>13, <2>1 DEF Prefix, Block
  <2>3. t[p].data = [k \in 1..m |-> t[p].data[k]]
    BY <1>1 DEF IsObj
  <2>4. blocks = t[p].data
    BY <2>2, <2>3
  <2>5. l = m
    BY <1>1, <2>4, KindsAre DEF l
  <2>6. size = t[p].size
    BY <1>2, <1>7, <1>8, <2>1, <2>5
  <2>7. data = t[p].data
    <3>1. \A k \in 1..m : data[k] = t[p].data[k]
      BY <1>10, <2>4, <2>6
    <3>2. data = [k \in 1..m |-> data[k]]
      BY <1>11, <2>6
    <3> HIDE DEF data, m
    <3> QED
      BY <2>3, <3>1, <3>2
  <2>8. o = [kind |-> t[p].kind, size |-> t[p].size, data |-> t[p].data]
    BY <1>2, <1>3, <2>6, <2>7
  <2>9. t[p] = [kind |-> t[p].kind, size |-> t[p].size, data |-> t[p].data]
    BY <1>1 DEF IsObj
  <2> QED
    BY <2>8, <2>9
<1> QED
  BY <1>12, <1>13 DEF o, i

(* What is read at each path: the object itself, if nothing on the way to  *)
(* it is gone; else that or nothing, or a file of its kind.                *)
LEMMA ReadsBack ==
  ASSUME NEW v, NEW t, NEW ext, NEW gone, BuiltAs(v, t, ext, gone)
  PROVE  /\ Objected(Reads(v)) /\ Reads(v)[Root] = Folder
         /\ \A p \in Paths :
              /\ Reads(v)[p].kind \in {"none", t[p].kind}
              /\ ({p} \cup Above[p]) \cap gone = {} => Reads(v)[p] = t[p]
              /\ p # Root /\ Reads(v)[p].kind # "none" => Reads(v)[Parent[p]] = Folder
<1> DEFINE R == Resolved(v)
           InodeAt(p) == IF R[p] = 0 THEN NoInode ELSE ReadInode(v, R[p])
           Read(p) == LET i == InodeAt(p)
                      IN  CASE i.kind = "none"           -> NoObject
                            [] i.kind \in {"dir", "dev"} -> [Folder EXCEPT !.kind = i.kind]
                            [] OTHER                     -> Content(v, i)
<1>1. Reads(v) = [p \in Paths |-> Read(p)]
  BY Zenon DEF Reads
<1>2. GoodTree(t)
  BY DEF BuiltAs
<1>3. \A p \in Paths : R[p] = 0 \/ (p \in Present(t) /\ R[p] = InodeOf(t, p))
  BY ResolvedRight
<1>4. \A p \in Paths : Above[p] \cap gone = {} => R[p] = IF p \in Present(t) THEN InodeOf(t, p) ELSE 0
  BY ResolvedRight
<1>5. \A p \in Present(t) : InodeOf(t, p) # 0
  BY InodeNumbers
<1>6. [Folder EXCEPT !.kind = "dir"] = Folder /\ [Folder EXCEPT !.kind = "dev"] = Device
  BY DEF Folder, Device
<1> HIDE DEF R
<1>7. ASSUME NEW p \in Paths, R[p] = 0
      PROVE  Read(p) = NoObject
  BY <1>7 DEF NoInode
<1>8. ASSUME NEW p \in Paths, R[p] # 0
      PROVE  /\ p \in Present(t) /\ t[p].kind # "none" /\ InodeAt(p) = Inode(t, p, ext[p])
             /\ t[p].kind \in {"dir", "dev"} => Read(p) = t[p]
             /\ t[p].kind \notin {"dir", "dev"} => Read(p) = Content(v, Inode(t, p, ext[p]))
  <2>1. p \in Present(t) /\ R[p] = InodeOf(t, p)
    BY <1>3, <1>8
  <2>2. IsObj(t[p]) /\ t[p].kind # "none"
    BY <1>2, <2>1, GoodTreeIs
  <2>3. InodeAt(p) = Inode(t, p, ext[p]) /\ InodeAt(p).kind = t[p].kind
    BY <1>8, <2>1, InodeRead, BlocksRead
  <2>4. /\ t[p].kind = "dir" => t[p] = Folder
        /\ t[p].kind = "dev" => t[p] = Device
    BY <2>2, KindsAre
  <2> HIDE DEF InodeAt
  <2>5. ASSUME t[p].kind = "dir"
        PROVE  Read(p) = t[p]
    BY <1>6, <2>3, <2>4, <2>5
  <2>6. ASSUME t[p].kind = "dev"
        PROVE  Read(p) = t[p]
    BY <1>6, <2>3, <2>4, <2>6
  <2>7. ASSUME t[p].kind \notin {"dir", "dev"}
        PROVE  Read(p) = Content(v, InodeAt(p))
    BY <2>2, <2>3, <2>7
  <2> HIDE DEF Read
  <2> QED
    BY <2>1, <2>2, <2>3, <2>5, <2>6, <2>7
<1> HIDE DEF InodeAt, Read
<1>9. ASSUME NEW p \in Paths
      PROVE  /\ IsObj(Read(p)) /\ Read(p).kind \in {"none", t[p].kind}
             /\ R[p] # 0 => p \in Present(t) /\ Read(p).kind = t[p].kind
             /\ R[p] # 0 /\ t[p].kind = "dir" => Read(p) = Folder
             /\ R[p] # 0 /\ p \notin gone => Read(p) = t[p]
             /\ R[p] = 0 => Read(p) = NoObject
  <2>1. CASE R[p] = 0
    BY <1>7, <2>1, SmallObjects, KindsAre
  <2>2. CASE R[p] # 0
    <3>1. p \in Present(t) /\ IsObj(t[p]) /\ t[p].kind # "none" /\ (t[p].kind = "dir" => t[p] = Folder)
      BY <1>2, <1>8, <2>2, GoodTreeIs, KindsAre
    <3>2. CASE t[p].kind \in {"dir", "dev"}
      <4>1. Read(p) = t[p]
        BY <1>8, <2>2, <3>2
      <4> QED
        BY <2>2, <3>1, <4>1
    <3>3. CASE t[p].kind \notin {"dir", "dev"}
      <4>1. Read(p) = Content(v, Inode(t, p, ext[p]))
        BY <1>8, <2>2, <3>3
      <4>2. IsObj(Read(p)) /\ Read(p).kind = t[p].kind /\ (p \notin gone => Read(p) = t[p])
        BY <3>1, <3>3, <4>1, ContentIs
      <4> QED
        BY <2>2, <3>1, <3>3, <4>2
    <3> QED
      BY <3>2, <3>3
  <2> QED
    BY <2>1, <2>2
<1>10. ASSUME NEW p \in Paths, ({p} \cup Above[p]) \cap gone = {}
       PROVE  Read(p) = t[p]
  <2>1. R[p] = IF p \in Present(t) THEN InodeOf(t, p) ELSE 0
    BY <1>4, <1>10
  <2>2. p \notin Present(t) => t[p] = NoObject
    BY DEF Present
  <2> QED
    BY <1>5, <1>9, <1>10, <2>1, <2>2
<1>11. Read(Root) = Folder
  <2>1. R[Root] = RootInode /\ RootInode # 0
    <3>1. R[Root] = RootInode
      BY ResolvedIs, PathNumbers DEF R
    <3> QED
      BY <3>1 DEF RootInode
  <2>2. t[Root].kind = "dir" /\ Root \in Paths
    BY <1>2, GoodTreeIs, PathNumbers DEF Folder
  <2> QED
    BY <1>9, <2>1, <2>2
<1>12. ASSUME NEW p \in Paths, p # Root, Read(p).kind # "none"
       PROVE  Read(Parent[p]) = Folder
  <2>1. R[p] # 0
    BY <1>9, <1>12 DEF NoObject
  <2>2. p \in Present(t) /\ Parent[p] \in Paths
    BY <1>9, <1>12, <2>1, PathNumbers
  <2>3. t[Parent[p]].kind = "dir"
    BY <1>2, <1>12, <2>2, GoodTreeIs
  <2>4. R[Parent[p]] # 0
    <3>1. R[p] = Found(v, R[Parent[p]], p)
      BY <1>12, ResolvedIs DEF R
    <3> QED
      BY <2>1, <3>1 DEF Found
  <2> QED
    BY <1>9, <2>2, <2>3, <2>4
<1>13. Objected(Reads(v))
  <2>1. Reads(v) = [p \in Paths |-> Reads(v)[p]]
    BY <1>1
  <2>2. \A p \in Paths : IsObj(Reads(v)[p])
    BY <1>1, <1>9
  <2> QED
    BY <2>1, <2>2 DEF Objected
<1> QED
  BY <1>1, <1>9, <1>10, <1>11, <1>12, <1>13, PathNumbers

-----------------------------------------------------------------------------
(* EfsImage: what a build has laid out, and what is written there.         *)

Laid(ext, g, bits, n) ==
  /\ ext \in [Paths -> Seq(Extent)] /\ n \in Nat
  /\ \A p \in Paths : \A i \in 1..Len(ext[p]) :
       /\ ext[p][i].length > 0 /\ Span(ext[p][i]) \subseteq DataBlocks(g) \cap bits
       /\ \A b \in Span(ext[p][i]) : b < n
  /\ \A p, q \in Paths : \A i \in 1..Len(ext[p]), j \in 1..Len(ext[q]) :
       p # q \/ i # j => Span(ext[p][i]) \cap Span(ext[q][j]) = {}

(* Each block an object was given holds a block of it ...                  *)
HoldsBlocks(t, img, ext) ==
  \A p \in Paths : \A i \in 1..Len(ext[p]) : \A b \in Span(ext[p][i]) :
    \E k \in 1..Needed(t, p) : img[b] = Block(t, p, k)

(* ... and the blocks of the first n are in their place.                   *)
Begun(t, img, ext, p, n) ==
  n \in Nat /\ n <= Needed(t, p) /\ Written(img, ext[p]) = Prefix(t, p, n)

LEMMA WrittenKeeps ==
  ASSUME NEW img, NEW other, NEW x \in Seq(Extent),
         \A j \in 1..Len(x) : \A b \in Span(x[j]) : img[b] = other[b]
  PROVE  Written(img, x) = Written(other, x)
<1>1. ASSUME NEW j \in 1..Len(x)
      PROVE  [k \in 1..x[j].length |-> img[x[j].bn + k - 1]]
               = [k \in 1..x[j].length |-> other[x[j].bn + k - 1]]
  <2>1. x[j] \in Extent
    BY LenProperties
  <2>2. x[j].length \in Nat /\ x[j].bn \in Nat
    BY <2>1 DEF Extent
  <2>3. \A k \in 1..x[j].length : x[j].bn + k - 1 \in Span(x[j])
    BY <2>2 DEF Span
  <2>4. \A k \in 1..x[j].length : img[x[j].bn + k - 1] = other[x[j].bn + k - 1]
    BY <2>3
  <2> QED
    BY <2>4
<1>2. [j \in 1..Len(x) |-> [k \in 1..x[j].length |-> img[x[j].bn + k - 1]]]
        = [j \in 1..Len(x) |-> [k \in 1..x[j].length |-> other[x[j].bn + k - 1]]]
  BY <1>1
<1> QED
  BY <1>2 DEF Written

LEMMA WrittenGrows ==
  ASSUME NEW img, NEW x \in Seq(Extent), NEW e \in Extent
  PROVE  Written(img, Append(x, e)) = Written(img, x) \o [k \in 1..e.length |-> img[e.bn + k - 1]]
<1> DEFINE Of(d) == [k \in 1..d.length |-> img[d.bn + k - 1]]
           S == {img[b] : b \in Nat}
           xx == Append(x, e)
           ss == [j \in 1..Len(x) |-> Of(x[j])]
           tt == [j \in 1..Len(xx) |-> Of(xx[j])]
<1>1. /\ Len(x) \in Nat /\ Len(xx) = Len(x) + 1 /\ xx[Len(x) + 1] = e
      /\ \A j \in 1..Len(x) : xx[j] = x[j] /\ x[j] \in Extent
  BY LenProperties, AppendProperties
<1> HIDE DEF xx
<1>2. ASSUME NEW d \in Extent
      PROVE  Of(d) \in Seq(S)
  <2>1. d.length \in Nat /\ d.bn \in Nat
    BY DEF Extent
  <2>2. \A k \in 1..d.length : d.bn + k - 1 \in Nat
    BY <2>1
  <2>3. Of(d) \in [1..d.length -> S]
    BY <2>2
  <2> HIDE DEF Of, S
  <2> QED
    BY <2>1, <2>3
<1> HIDE DEF S, Of
<1>3. ss \in Seq(Seq(S))
  <2>1. ss \in [1..Len(x) -> Seq(S)]
    BY <1>1, <1>2
  <2> HIDE DEF ss
  <2> QED
    BY <1>1, <2>1
<1>4. Of(e) \in Seq(S)
  BY <1>2
<1>5. tt = Append(ss, Of(e))
  <2> DEFINE l == Len(x)
             u == Append(ss, Of(e))
  <2>1. Len(ss) = l /\ l \in Nat /\ \A j \in 1..l : ss[j] = Of(x[j])
    <3>1. DOMAIN ss = 1..l /\ l \in Nat /\ \A j \in 1..l : ss[j] = Of(x[j])
      BY <1>1
    <3> HIDE DEF ss, l
    <3> QED
      BY <1>3, <3>1, LenProperties
  <2>2. DOMAIN tt = 1..(l + 1) /\ \A j \in 1..(l + 1) : tt[j] = Of(xx[j])
    BY <1>1
  <2>3. tt = [j \in 1..(l + 1) |-> tt[j]]
    BY <1>1
  <2>4. \A j \in 1..l : tt[j] = ss[j]
    BY <1>1, <2>1, <2>2
  <2>5. tt[l + 1] = Of(e)
    BY <1>1, <2>2
  <2> HIDE DEF ss, tt, l
  <2>6. u = [j \in 1..(l + 1) |-> u[j]] /\ u[l + 1] = Of(e) /\ \A j \in 1..l : u[j] = ss[j]
    <3>1. u \in Seq(Seq(S)) /\ Len(u) = l + 1 /\ u[l + 1] = Of(e) /\ \A j \in 1..l : u[j] = ss[j]
      <4> DEFINE w == Of(e)
                 Q == Seq(S)
      <4> HIDE DEF w, Q
      <4>1. ss \in Seq(Q) /\ w \in Q
        BY <1>3, <1>4 DEF w, Q
      <4>2. /\ Append(ss, w) \in Seq(Q) /\ Len(Append(ss, w)) = Len(ss) + 1
            /\ \A j \in 1..Len(ss) : Append(ss, w)[j] = ss[j]
            /\ Append(ss, w)[Len(ss) + 1] = w
        BY <4>1, AppendProperties
      <4> QED
        BY <2>1, <4>2 DEF w, Q
    <3> HIDE DEF u
    <3> QED
      BY <3>1, LenProperties
  <2> HIDE DEF u
  <2>7. \A j \in 1..(l + 1) : tt[j] = u[j]
    <3>1. \A j \in 1..(l + 1) : j \in 1..l \/ j = l + 1
      BY <2>1
    <3> QED
      BY <2>4, <2>5, <2>6, <3>1
  <2>8. tt = u
    BY <2>3, <2>6, <2>7
  <2> QED
    BY <2>8 DEF u
<1>6. FlattenSeq(tt) = FlattenSeq(ss) \o Of(e)
  <2> HIDE DEF ss, tt
  <2> QED
    BY <1>3, <1>4, <1>5, FlattenAppend
<1>7. Written(img, xx) = FlattenSeq(tt) /\ Written(img, x) = FlattenSeq(ss)
  BY Zenon DEF Written, Of, tt, ss
<1> QED
  BY <1>6, <1>7 DEF Of, xx

Following(t, p, m, n) == [k \in 1..n |-> Block(t, p, m + k)]

LEMMA PrefixGrows ==
  ASSUME NEW t, NEW p, NEW m \in Nat, NEW n \in Nat
  PROVE  Prefix(t, p, m + n) = Prefix(t, p, m) \o Following(t, p, m, n)
<1> DEFINE B(k) == Block(t, p, k)
           S == {B(k) : k \in Nat}
           x == [k \in 1..m |-> B(k)]
           y == [k \in 1..n |-> B(m + k)]
           z == [k \in 1..(m + n) |-> B(k)]
<1>1. x \in [1..m -> S] /\ y \in [1..n -> S] /\ z \in [1..(m + n) -> S]
  <2>1. \A k \in 1..m : k \in Nat
    OBVIOUS
  <2>2. \A k \in 1..n : m + k \in Nat
    OBVIOUS
  <2>3. \A k \in 1..(m + n) : k \in Nat
    OBVIOUS
  <2> HIDE DEF B
  <2> QED
    BY <2>1, <2>2, <2>3
<1>2. /\ \A k \in 1..m : x[k] = B(k)
      /\ \A k \in 1..n : y[k] = B(m + k)
      /\ \A k \in 1..(m + n) : z[k] = B(k)
  OBVIOUS
<1> HIDE DEF S, x, y, z, B
<1>3. x \in Seq(S) /\ y \in Seq(S) /\ z \in Seq(S)
  BY <1>1
<1>4. Len(x) = m /\ Len(y) = n /\ Len(z) = m + n
  BY <1>1, <1>3, LenProperties
<1>5. /\ x \o y \in Seq(S) /\ Len(x \o y) = m + n
      /\ \A k \in 1..(m + n) : (x \o y)[k] = IF k <= m THEN x[k] ELSE y[k - m]
  BY <1>3, <1>4, ConcatProperties
<1>6. \A k \in 1..(m + n) : (x \o y)[k] = z[k]
  <2>1. ASSUME NEW k \in 1..(m + n), k <= m
        PROVE  (x \o y)[k] = z[k]
    <3>1. k \in 1..m
      BY <2>1
    <3> QED
      BY <1>2, <1>5, <2>1, <3>1
  <2>2. ASSUME NEW k \in 1..(m + n), ~(k <= m)
        PROVE  (x \o y)[k] = z[k]
    <3>1. k - m \in 1..n /\ m + (k - m) = k
      BY <2>2
    <3> QED
      BY <1>2, <1>5, <2>2, <3>1
  <2> QED
    BY <2>1, <2>2
<1>7. x \o y = z
  BY <1>3, <1>4, <1>5, <1>6, SeqEqual
<1> QED
  BY <1>7 DEF Prefix, Following, x, y, z, B

LEMMA ReservedInside ==
  ASSUME NEW g, NEW t, NEW max, Layout(g, t, max), Roomy(g)
  PROVE  /\ Reserved(g) \subseteq 0..(g.total - 1)
         /\ g.total \in Nat /\ g.total >= 4 /\ 1 \in Reserved(g)
<1>1. /\ g.ncg \in Nat /\ g.ncg > 0 /\ g.first \in Nat /\ g.first >= 2 /\ g.size \in Nat
      /\ InodeBlocks \in Nat /\ InodeBlocks > 0 /\ g.size > InodeBlocks
      /\ g.total = g.first + g.ncg * g.size
  BY EfsNumbers DEF Layout, Roomy
<1>2. 1 * g.size <= g.ncg * g.size /\ g.ncg * g.size \in Nat
  BY <1>1, TimesGrows
<1>3. g.total \in Nat /\ g.total >= 4 /\ g.first < g.total
  <2>1. SUFFICES ASSUME NEW x \in Nat, g.size <= x
                 PROVE  /\ g.first + x \in Nat /\ g.first + x >= 4 /\ g.first < g.first + x
    BY <1>1, <1>2
  <2> QED
    BY <1>1, <2>1
<1>4. ASSUME NEW c \in 0..(g.ncg - 1), NEW b \in GroupStart(g, c)..(GroupStart(g, c) + InodeBlocks - 1)
      PROVE  b \in 0..(g.total - 1)
  <2>1. c \in Nat /\ c + 1 <= g.ncg
    BY <1>1
  <2>2. (c + 1) * g.size <= g.ncg * g.size /\ c * g.size \in Nat /\ (c + 1) * g.size = c * g.size + g.size
    <3>1. (c + 1) * g.size <= g.ncg * g.size
      BY <1>1, <2>1, TimesGrows
    <3>2. c * g.size \in Nat /\ (c + 1) * g.size = c * g.size + g.size
      BY <1>1, <2>1, Z3
    <3> QED
      BY <3>1, <3>2
  <2>3. SUFFICES ASSUME NEW x \in Nat, NEW y \in Nat, x + g.size <= y,
                        b \in (g.first + x)..(g.first + x + InodeBlocks - 1)
                 PROVE  b \in 0..(g.first + y - 1)
    BY <1>1, <1>2, <1>4, <2>2 DEF GroupStart
  <2> QED
    BY <1>1, <2>3
<1>5. InodeArea(g) \subseteq 0..(g.total - 1)
  BY <1>4 DEF InodeArea
<1>6. 0..(g.first - 1) \subseteq 0..(g.total - 1) /\ 1 \in 0..(g.first - 1)
  BY <1>1, <1>3
<1> QED
  BY <1>3, <1>5, <1>6 DEF Reserved

-----------------------------------------------------------------------------
(* EfsImage: the trees of an injection.                                    *)

(* What is a folder or a link to one is meant to be one or the other.      *)
MeansFolders(t, w) == \A p \in Paths : t[p].kind \in {"dir", "link"} => w[p].kind \in {"dir", "link"}

(* A tree is what was meant, wherever nothing on the way is known to be    *)
(* lost.                                                                   *)
Agree(t, w, ls) == \A p \in Paths : ({p} \cup Above[p]) \cap ls = {} => t[p] = w[p]

Meant(w) == Objected(w) /\ w[Root] = Folder

LEMMA ExtractedIs ==
  ASSUME NEW v, Objected(Reads(v)), Reads(v)[Root] = Folder,
         \A p \in Paths : p # Root /\ Reads(v)[p].kind # "none" => Reads(v)[Parent[p]] = Folder,
         NEW w, Meant(w), MeansFolders(Reads(v), w),
         NEW gone, \A p \in Paths \ gone : Reads(v)[p] = w[p]
  PROVE  /\ GoodTree(Extracted(v)) /\ MeansFolders(Extracted(v), w)
         /\ \A p \in Paths : p \notin gone /\ w[p].kind # "dev" => Extracted(v)[p] = w[p]
<1> DEFINE found == Reads(v)
           t == Extracted(v)
           Of(p) == CASE p = Root -> Folder
                      [] p # Root /\ found[p].kind = "dev" -> NoObject
                      [] OTHER -> found[p]
<1>1. t = [p \in Paths |-> Of(p)]
  BY Zenon DEF Extracted
<1>2. \A p \in Paths : IsObj(found[p])
  BY DEF Objected
<1>3. Folder.kind = "dir" /\ NoObject.kind = "none"
  BY DEF Folder, NoObject
<1> HIDE DEF found
<1>4. ASSUME NEW p \in Paths
      PROVE  /\ p = Root => Of(p) = Folder
             /\ p # Root /\ found[p].kind = "dev" => Of(p) = NoObject
             /\ p # Root /\ found[p].kind # "dev" => Of(p) = found[p]
  OBVIOUS
<1> HIDE DEF Of
<1>5. \A p \in Paths : t[p] = Of(p)
  BY <1>1
<1>6. t = [p \in Paths |-> t[p]]
  BY <1>1
<1> HIDE DEF t
<1>7. \A p \in Paths : IsObj(t[p])
  BY <1>2, <1>4, <1>5, SmallObjects
<1>8. t[Root] = Folder
  BY <1>4, <1>5, PathNumbers
<1>9. ASSUME NEW p \in Paths, p # Root, t[p] # NoObject
      PROVE  t[Parent[p]] = Folder
  <2>1. found[p].kind # "none"
    BY <1>2, <1>4, <1>5, <1>9, KindsAre
  <2>2. found[Parent[p]] = Folder /\ Parent[p] \in Paths
    BY <1>9, <2>1, PathNumbers DEF found
  <2> QED
    BY <1>3, <1>4, <1>5, <2>2
<1>10. GoodTree(t)
  BY <1>6, <1>7, <1>8, <1>9 DEF GoodTree, Objected, IsTree
<1>11. ASSUME NEW p \in Paths, t[p].kind \in {"dir", "link"}
       PROVE  w[p].kind \in {"dir", "link"}
  <2>1. CASE p = Root
    BY <1>3, <2>1 DEF Meant
  <2>2. CASE p # Root
    <3>1. found[p].kind \in {"dir", "link"}
      BY <1>3, <1>4, <1>5, <1>11, <2>2
    <3> QED
      BY <3>1 DEF MeansFolders, found
  <2> QED
    BY <2>1, <2>2
<1>12. ASSUME NEW p \in Paths, p \notin gone, w[p].kind # "dev"
       PROVE  t[p] = w[p]
  <2>1. found[p] = w[p]
    BY <1>12 DEF found
  <2>2. CASE p = Root
    BY <1>8, <2>2 DEF Meant
  <2>3. CASE p # Root
    BY <1>4, <1>5, <1>12, <2>1, <2>3
  <2> QED
    BY <2>2, <2>3
<1> QED
  BY <1>10, <1>11, <1>12 DEF t, MeansFolders

(* A link that os.walk() takes for a directory has nothing below it.       *)
LEMMA WalkedIs ==
  ASSUME NEW t, GoodTree(t), NEW w, Meant(w), MeansFolders(t, w),
         NEW dirs, \A p \in dirs : p \in Paths /\ t[p].kind = "link"
  PROVE  /\ GoodTree(Walked(t, dirs)) /\ MeansFolders(Walked(t, dirs), w)
         /\ \A p \in Paths \ dirs : Walked(t, dirs)[p] = t[p]
<1> DEFINE u == Walked(t, dirs)
<1>1. /\ u = [p \in Paths |-> u[p]]
      /\ \A p \in Paths : u[p] = IF p \in dirs THEN Folder ELSE t[p]
  BY DEF Walked
<1> HIDE DEF u
<1>2. /\ t[Root] = Folder /\ \A p \in Paths : IsObj(t[p])
      /\ \A p \in Paths : p # Root /\ t[p] # NoObject => t[Parent[p]] = Folder
  BY DEF GoodTree, Objected, IsTree
<1>3. Folder.kind = "dir" /\ NoObject.kind = "none" /\ Root \in Paths
  BY PathNumbers DEF Folder, NoObject
<1>4. \A p \in Paths : IsObj(u[p])
  BY <1>1, <1>2, SmallObjects
<1>5. u[Root] = Folder
  BY <1>1, <1>2, <1>3
<1>6. ASSUME NEW p \in Paths, p # Root, u[p] # NoObject
      PROVE  u[Parent[p]] = Folder
  <2>1. t[p] # NoObject
    BY <1>1, <1>3, <1>6
  <2>2. t[Parent[p]] = Folder /\ Parent[p] \in Paths
    BY <1>2, <1>6, <2>1, PathNumbers
  <2> QED
    BY <1>1, <2>2
<1>7. MeansFolders(u, w)
  BY <1>1 DEF MeansFolders
<1> QED
  BY <1>1, <1>4, <1>5, <1>6, <1>7 DEF u, GoodTree, Objected, IsTree

AddedGood(t, w, p, o) ==
  /\ GoodTree(Added(t, p, o)) /\ Meant(Added(w, p, o))
  /\ MeansFolders(Added(t, p, o), Added(w, p, o))
  /\ \A q \in Paths : q = p \/ q \in Above[p] \/ t[q] = w[q] => Added(t, p, o)[q] = Added(w, p, o)[q]

LEMMA AddedIs ==
  ASSUME NEW t, NEW w, NEW p \in Paths, NEW o, IsObj(o), o.kind = "reg",
         GoodTree(t), Meant(w), MeansFolders(t, w),
         t[p] # Folder, \A q \in Above[p] : t[q] \in {Folder, NoObject}
  PROVE  AddedGood(t, w, p, o)
<1> DEFINE tt == Added(t, p, o)
           ww == Added(w, p, o)
<1>1. \A q \in Paths : /\ tt[q] = IF q = p THEN o ELSE IF q \in Above[p] THEN Folder ELSE t[q]
                       /\ ww[q] = IF q = p THEN o ELSE IF q \in Above[p] THEN Folder ELSE w[q]
  BY DEF Added
<1>2. tt = [q \in Paths |-> tt[q]] /\ ww = [q \in Paths |-> ww[q]]
  BY DEF Added
<1> HIDE DEF tt, ww
<1>3. /\ t[Root] = Folder /\ w[Root] = Folder /\ \A q \in Paths : IsObj(t[q]) /\ IsObj(w[q])
      /\ \A q \in Paths : q # Root /\ t[q] # NoObject => t[Parent[q]] = Folder
  BY PathNumbers DEF GoodTree, Meant, Objected, IsTree
<1>4. p # Root /\ IsObj(Folder) /\ Folder.kind = "dir"
  BY <1>3, SmallObjects DEF Folder
<1>5. /\ p \notin Above[p] /\ Parent[p] \in Above[p] /\ Above[p] \subseteq Paths
      /\ \A q \in Above[p] : q # Root => Parent[q] \in Above[p]
  <2>1. /\ Above[p] \subseteq Paths /\ (\A q \in Above[p] : q < p)
        /\ (\A q \in Above[p] : q # Root => Parent[q] \in Above[p])
        /\ Above[p] = {Parent[p]} \cup Above[Parent[p]]
    BY <1>4, AboveAre
  <2>2. ~(p < p)
    BY PathNumbers
  <2> QED
    BY <2>1, <2>2
<1>6. Objected(tt) /\ Objected(ww)
  BY <1>1, <1>2, <1>3, <1>4 DEF Objected
<1>7. tt[Root] = Folder /\ ww[Root] = Folder
  BY <1>1, <1>3, <1>4, PathNumbers
<1>8. ASSUME NEW q \in Paths, q # Root, tt[q] # NoObject
      PROVE  tt[Parent[q]] = Folder
  <2>1. Parent[q] \in Paths
    BY <1>8, PathNumbers
  <2>2. CASE q = p
    BY <1>1, <1>5, <2>1, <2>2
  <2>3. CASE q \in Above[p]
    BY <1>1, <1>5, <1>8, <2>1, <2>3
  <2>4. CASE q # p /\ q \notin Above[p]
    <3>1. t[Parent[q]] = Folder
      BY <1>1, <1>3, <1>8, <2>4
    <3>2. Parent[q] # p
      BY <3>1
    <3> QED
      BY <1>1, <2>1, <3>1, <3>2
  <2> QED
    BY <2>2, <2>3, <2>4
<1>9. GoodTree(tt) /\ Meant(ww)
  BY <1>6, <1>7, <1>8 DEF GoodTree, IsTree, Meant
<1>10. MeansFolders(tt, ww)
  BY <1>1, <1>4 DEF MeansFolders
<1>11. ASSUME NEW q \in Paths, q = p \/ q \in Above[p] \/ t[q] = w[q]
       PROVE  tt[q] = ww[q]
  BY <1>1, <1>11
<1> QED
  BY <1>9, <1>10, <1>11 DEF tt, ww, AddedGood

-----------------------------------------------------------------------------
(* EfsImage: a volume that was built is sound.                             *)

Complete(g, t, max, ext, img, bits, n) ==
  /\ Layout(g, t, max) /\ Roomy(g) /\ GoodTree(t) /\ Laid(ext, g, bits, n)
  /\ HoldsBlocks(t, img, ext) /\ DOMAIN img = 0..(g.total - 1)

Sealed(g, t, ext, img, bits) ==
  [geo |-> g, inodes |-> InodeTable(t, g, ext), used |-> bits,
   image |-> [img EXCEPT ![1] = Superblock, ![g.total - 1] = Superblock]]

(* Those whose extents hold b.                                             *)
Holders(ext, b) == {p \in Paths : \E i \in 1..Len(ext[p]) : b \in Span(ext[p][i])}
Losses(g, ext, ls) ==
  ls \cup {p \in Paths : Len(ext[p]) > MaxExtents} \cup Holders(ext, g.total - 1)
Below(S) == {p \in Paths : ({p} \cup Above[p]) \cap S # {}}

(* BlocksExclusive of a volume.                                            *)
Exclusive(v) ==
  \A s \in Slots(v) :
    LET ext  == v.inodes[s].ext
        mine == Named(v.inodes[s])
    IN  /\ mine \subseteq v.used \ Reserved(v.geo)
        /\ mine \subseteq 0..(v.geo.total - 1)
        /\ \A j, k \in 1..Len(ext) : j # k => Span(ext[j]) \cap Span(ext[k]) = {}
        /\ \A other \in Slots(v) \ {s} : mine \cap Named(v.inodes[other]) = {}

LEMMA SealedImage ==
  ASSUME NEW g, NEW t, NEW max, NEW ext, NEW img, NEW bits, NEW n, Complete(g, t, max, ext, img, bits, n)
  PROVE  LET v == Sealed(g, t, ext, img, bits)
         IN  /\ v.geo = g /\ v.inodes = InodeTable(t, g, ext) /\ v.used = bits
             /\ DOMAIN v.image = 0..(g.total - 1)
             /\ \A b \in DataBlocks(g) : v.image[b] = IF b = g.total - 1 THEN Superblock ELSE img[b]
             /\ v # NoVolume
<1> DEFINE v == Sealed(g, t, ext, img, bits)
<1>1. /\ v.geo = g /\ v.inodes = InodeTable(t, g, ext) /\ v.used = bits
      /\ v.image = [img EXCEPT ![1] = Superblock, ![g.total - 1] = Superblock]
      /\ v # NoVolume
  <2>1. DOMAIN v = {"geo", "inodes", "used", "image"} /\ DOMAIN NoVolume = {"geo"}
    BY DEF Sealed, NoVolume
  <2>2. "image" \in DOMAIN v /\ "image" \notin DOMAIN NoVolume
    BY <2>1
  <2> QED
    BY <2>2 DEF Sealed
<1> HIDE DEF v
<1>2. /\ DOMAIN img = 0..(g.total - 1) /\ g.total \in Nat /\ g.total >= 4 /\ 1 \in Reserved(g)
  BY ReservedInside DEF Complete
<1>3. DOMAIN v.image = 0..(g.total - 1)
  BY <1>1, <1>2
<1>4. ASSUME NEW b \in DataBlocks(g)
      PROVE  v.image[b] = IF b = g.total - 1 THEN Superblock ELSE img[b]
  <2>1. b \in DOMAIN img /\ b # 1
    BY <1>2 DEF DataBlocks
  <2> QED
    BY <1>1, <2>1
<1> QED
  BY <1>1, <1>3, <1>4 DEF v

NamedGood(g, t, ext, bits, p, i) ==
  /\ p \in Paths /\ Len(i.ext) \in Nat /\ Len(i.ext) <= Len(ext[p])
  /\ \A j \in 1..Len(i.ext) : j \in 1..Len(ext[p]) /\ i.ext[j] = ext[p][j]
  /\ \A b \in Named(i) : \E j \in 1..Len(ext[p]) : b \in Span(ext[p][j])
  /\ Named(i) \subseteq DataBlocks(g) \cap bits

LEMMA NamedIs ==
  ASSUME NEW g, NEW t, NEW max, NEW ext, NEW img, NEW bits, NEW n, Complete(g, t, max, ext, img, bits, n),
         NEW p \in Present(t)
  PROVE  NamedGood(g, t, ext, bits, p, Inode(t, p, ext[p]))
<1> DEFINE i == Inode(t, p, ext[p])
           e == SubSeq(ext[p], 1, Min({Len(ext[p]), MaxExtents}))
<1>1. p \in Paths /\ ext[p] \in Seq(Extent)
  BY InodeNumbers DEF Complete, Laid
<1>2. i.ext = e
  BY DEF Inode
<1>3. Len(e) \in Nat /\ Len(e) <= Len(ext[p]) /\ \A j \in 1..Len(e) : e[j] = ext[p][j]
  BY <1>1, ShortExtents
<1> HIDE DEF i, e
<1>4. \A j \in 1..Len(i.ext) : j \in 1..Len(ext[p]) /\ i.ext[j] = ext[p][j]
  <2>1. Len(ext[p]) \in Nat
    BY <1>1, LenProperties
  <2>2. \A j \in 1..Len(e) : j \in 1..Len(ext[p])
    BY <1>3, <2>1
  <2> QED
    BY <1>2, <1>3, <2>2
<1>5. \A b \in Named(i) : \E j \in 1..Len(ext[p]) : b \in Span(ext[p][j])
  BY <1>4 DEF Named
<1>6. Named(i) \subseteq DataBlocks(g) \cap bits
  <2>1. \A j \in 1..Len(ext[p]) : Span(ext[p][j]) \subseteq DataBlocks(g) \cap bits
    BY <1>1 DEF Complete, Laid
  <2> QED
    BY <1>5, <2>1
<1> QED
  <2>1. NamedGood(g, t, ext, bits, p, i)
    BY <1>1, <1>2, <1>3, <1>4, <1>5, <1>6 DEF NamedGood
  <2> QED
    BY <2>1 DEF i

LEMMA SlotsAre ==
  ASSUME NEW g, NEW t, NEW max, NEW ext, NEW img, NEW bits, NEW n, Complete(g, t, max, ext, img, bits, n),
         NEW s \in Slots(Sealed(g, t, ext, img, bits))
  PROVE  /\ s \in TableSlots(g)
         /\ \E p \in Present(t) : /\ InodeOf(t, p) = SlotNumber(s[1], s[2], s[3])
                                  /\ Sealed(g, t, ext, img, bits).inodes[s] = Inode(t, p, ext[p])
<1> DEFINE T == InodeTable(t, g, ext)
<1>1. Sealed(g, t, ext, img, bits).inodes = T
  BY SealedImage
<1>2. DOMAIN T = TableSlots(g) /\ \A u \in TableSlots(g) :
        \/ T[u] = NoInode
        \/ \E p \in Present(t) : InodeOf(t, p) = SlotNumber(u[1], u[2], u[3]) /\ T[u] = Inode(t, p, ext[p])
  BY TableIs DEF Complete, Layout
<1> HIDE DEF T
<1>3. s \in TableSlots(g) /\ T[s] # NoInode
  BY <1>1, <1>2 DEF Slots
<1> QED
  BY <1>1, <1>2, <1>3

LEMMA SealedExclusive ==
  ASSUME NEW g, NEW t, NEW max, NEW ext, NEW img, NEW bits, NEW n, Complete(g, t, max, ext, img, bits, n)
  PROVE  Exclusive(Sealed(g, t, ext, img, bits))
<1> DEFINE v == Sealed(g, t, ext, img, bits)
<1>1. v.geo = g /\ v.used = bits
  BY SealedImage
<1>2. \A s \in Slots(v) : /\ s \in TableSlots(g)
                          /\ \E p \in Present(t) : /\ InodeOf(t, p) = SlotNumber(s[1], s[2], s[3])
                                                   /\ v.inodes[s] = Inode(t, p, ext[p])
  BY SlotsAre
<1> HIDE DEF v
<1>3. \A p, q \in Paths : \A i \in 1..Len(ext[p]), j \in 1..Len(ext[q]) :
        p # q \/ i # j => Span(ext[p][i]) \cap Span(ext[q][j]) = {}
  BY DEF Complete, Laid
<1>4. ASSUME NEW s \in Slots(v)
      PROVE  LET e    == v.inodes[s].ext
                 mine == Named(v.inodes[s])
             IN  /\ mine \subseteq v.used \ Reserved(v.geo)
                 /\ mine \subseteq 0..(v.geo.total - 1)
                 /\ \A j, k \in 1..Len(e) : j # k => Span(e[j]) \cap Span(e[k]) = {}
                 /\ \A other \in Slots(v) \ {s} : mine \cap Named(v.inodes[other]) = {}
  <2> DEFINE e == v.inodes[s].ext
             mine == Named(v.inodes[s])
  <2>1. PICK p \in Present(t) : InodeOf(t, p) = SlotNumber(s[1], s[2], s[3]) /\ v.inodes[s] = Inode(t, p, ext[p])
    BY <1>2
  <2>2. /\ p \in Paths /\ \A j \in 1..Len(e) : j \in 1..Len(ext[p]) /\ e[j] = ext[p][j]
        /\ \A b \in mine : \E j \in 1..Len(ext[p]) : b \in Span(ext[p][j])
        /\ mine \subseteq DataBlocks(g) \cap bits
    <3> DEFINE i == Inode(t, p, ext[p])
    <3>1. /\ p \in Paths /\ \A j \in 1..Len(i.ext) : j \in 1..Len(ext[p]) /\ i.ext[j] = ext[p][j]
          /\ \A b \in Named(i) : \E j \in 1..Len(ext[p]) : b \in Span(ext[p][j])
          /\ Named(i) \subseteq DataBlocks(g) \cap bits
      <4>1. NamedGood(g, t, ext, bits, p, i)
        BY NamedIs
      <4> HIDE DEF i
      <4> QED
        BY <4>1 DEF NamedGood
    <3> HIDE DEF i
    <3>2. v.inodes[s] = i
      BY <2>1 DEF i
    <3> QED
      BY <3>1, <3>2
  <2>3. mine \subseteq v.used \ Reserved(v.geo) /\ mine \subseteq 0..(v.geo.total - 1)
    BY <1>1, <2>2 DEF DataBlocks
  <2>4. \A j, k \in 1..Len(e) : j # k => Span(e[j]) \cap Span(e[k]) = {}
    <3> HIDE DEF e, mine
    <3> QED
      BY <1>3, <2>2
  <2>5. ASSUME NEW other \in Slots(v), other # s
        PROVE  mine \cap Named(v.inodes[other]) = {}
    <3>1. PICK q \in Present(t) : /\ InodeOf(t, q) = SlotNumber(other[1], other[2], other[3])
                                  /\ v.inodes[other] = Inode(t, q, ext[q])
      BY <1>2
    <3>2. q \in Paths /\ \A b \in Named(v.inodes[other]) : \E j \in 1..Len(ext[q]) : b \in Span(ext[q][j])
      <4> DEFINE i == Inode(t, q, ext[q])
      <4>1. NamedGood(g, t, ext, bits, q, i)
        BY NamedIs
      <4> HIDE DEF i
      <4>2. v.inodes[other] = i
        BY <3>1 DEF i
      <4> QED
        BY <4>1, <4>2 DEF NamedGood
    <3>3. p # q
      <4>1. SUFFICES ASSUME p = q PROVE FALSE
        OBVIOUS
      <4>2. SlotNumber(s[1], s[2], s[3]) = SlotNumber(other[1], other[2], other[3])
        BY <2>1, <3>1, <4>1
      <4>3. s \in TableSlots(g) /\ other \in TableSlots(g) /\ g.ncg \in Nat
        BY <1>2 DEF Complete, Layout
      <4>4. s = other
        BY <4>2, <4>3, SlotsApart
      <4> QED
        BY <2>5, <4>4
    <3>4. ASSUME NEW b \in mine, b \in Named(v.inodes[other])
          PROVE  FALSE
      <4>1. PICK j \in 1..Len(ext[p]) : b \in Span(ext[p][j])
        BY <2>2
      <4>2. PICK k \in 1..Len(ext[q]) : b \in Span(ext[q][k])
        BY <3>2, <3>4
      <4>3. Span(ext[p][j]) \cap Span(ext[q][k]) = {}
        BY <1>3, <2>2, <3>2, <3>3
      <4> QED
        BY <4>1, <4>2, <4>3
    <3> QED
      BY <3>4
  <2> HIDE DEF e, mine
  <2>6. \A other \in Slots(v) \ {s} : mine \cap Named(v.inodes[other]) = {}
    BY <2>5
  <2> QED
    BY <2>3, <2>4, <2>6 DEF e, mine
<1> QED
  BY <1>4 DEF Exclusive, v

LEMMA SealedVerified ==
  ASSUME NEW g, NEW t, NEW max, NEW ext, NEW img, NEW bits, NEW n, Complete(g, t, max, ext, img, bits, n),
         \A p \in Holders(ext, g.total - 1) : t[p] # Folder
  PROVE  Verified(Sealed(g, t, ext, img, bits))
<1> DEFINE v == Sealed(g, t, ext, img, bits)
           part == InodeBlocks \div InodesPerBlock
           Areas == UNION {GroupStart(v.geo, c)..(GroupStart(v.geo, c) + part - 1) : c \in 0..(v.geo.ncg - 1)}
<1>1. /\ v.geo = g /\ DOMAIN v.image = 0..(g.total - 1)
      /\ \A b \in DataBlocks(g) : v.image[b] = IF b = g.total - 1 THEN Superblock ELSE img[b]
  BY SealedImage
<1>2. \A s \in Slots(v) : \E p \in Present(t) : v.inodes[s] = Inode(t, p, ext[p])
  BY SlotsAre
<1> HIDE DEF v
<1>3. part \in Nat /\ part <= InodeBlocks /\ InodeBlocks \in Nat
  <2>1. InodeBlocks \in Nat /\ InodesPerBlock \in Nat /\ InodesPerBlock > 0
    BY EfsNumbers
  <2>2. part \in Nat /\ InodeBlocks % InodesPerBlock \in 0..(InodesPerBlock - 1)
        /\ InodeBlocks = part * InodesPerBlock + (InodeBlocks % InodesPerBlock)
    BY <2>1, QuotientIs
  <2> HIDE DEF part
  <2>3. 1 * part <= InodesPerBlock * part /\ InodesPerBlock * part \in Nat
    BY <2>1, <2>2, TimesGrows
  <2>4. part * InodesPerBlock = InodesPerBlock * part /\ 1 * part = part
    BY <2>1, <2>2, Z3
  <2>5. SUFFICES ASSUME NEW x \in Nat, NEW r \in Nat, part <= x, InodeBlocks = x + r
                 PROVE  part <= InodeBlocks
    BY <2>1, <2>2, <2>3, <2>4
  <2> QED
    BY <2>2, <2>5
<1> HIDE DEF part
<1>4. Areas \subseteq Reserved(g)
  <2>1. ASSUME NEW c \in 0..(g.ncg - 1), NEW b \in GroupStart(g, c)..(GroupStart(g, c) + part - 1)
        PROVE  b \in InodeArea(g)
    <3>1. GroupStart(g, c) \in Int
      <4>1. g.ncg \in Nat /\ g.size \in Int /\ g.first \in Nat
        BY DEF Complete, Layout
      <4>2. c * g.size \in Int
        BY <4>1, Z3
      <4> QED
        BY <4>1, <4>2 DEF GroupStart
    <3>2. b \in GroupStart(g, c)..(GroupStart(g, c) + InodeBlocks - 1)
      BY <1>3, <2>1, <3>1
    <3> QED
      BY <3>2 DEF InodeArea
  <2> QED
    BY <1>1, <2>1 DEF Reserved
<1>5. v.geo.total = v.geo.first + v.geo.ncg * v.geo.size
  BY <1>1 DEF Complete, Layout
<1> HIDE DEF Areas
<1>6. ASSUME NEW s \in Slots(v)
      PROVE  LET i == v.inodes[s]
             IN  /\ i.kind = "dir" => i.size % BlockSize = 0
                 /\ \A j \in 1..Len(i.ext) : i.ext[j].length > 0
                 /\ Named(i) \subseteq DOMAIN v.image \ Areas
                 /\ i.kind = "dir" => \A b \in Named(i) : DOMAIN v.image[b] = {"entries"}
  <2> DEFINE i == v.inodes[s]
  <2>1. PICK p \in Present(t) : i = Inode(t, p, ext[p])
    BY <1>2
  <2>2. /\ p \in Paths
        /\ \A j \in 1..Len(i.ext) : j \in 1..Len(ext[p]) /\ i.ext[j] = ext[p][j]
        /\ \A b \in Named(i) : \E j \in 1..Len(ext[p]) : b \in Span(ext[p][j])
        /\ Named(i) \subseteq DataBlocks(g) \cap bits /\ i.kind = t[p].kind
        /\ i.size = IF p \in FoldersOf(t) THEN FolderBlocks(t, p) * BlockSize ELSE t[p].size
    <3> DEFINE u == Inode(t, p, ext[p])
    <3>1. /\ p \in Paths
          /\ \A j \in 1..Len(u.ext) : j \in 1..Len(ext[p]) /\ u.ext[j] = ext[p][j]
          /\ \A b \in Named(u) : \E j \in 1..Len(ext[p]) : b \in Span(ext[p][j])
          /\ Named(u) \subseteq DataBlocks(g) \cap bits /\ u.kind = t[p].kind
          /\ u.size = IF p \in FoldersOf(t) THEN FolderBlocks(t, p) * BlockSize ELSE t[p].size
      <4>1. NamedGood(g, t, ext, bits, p, u)
        BY NamedIs
      <4>2. u.kind = t[p].kind
        BY DEF Inode
      <4>3. u.size = IF p \in FoldersOf(t) THEN FolderBlocks(t, p) * BlockSize ELSE t[p].size
        BY DEF Inode
      <4> HIDE DEF u
      <4> QED
        BY <4>1, <4>2, <4>3 DEF NamedGood
    <3>2. i = u
      BY <2>1
    <3> HIDE DEF u, i
    <3> QED
      BY <3>1, <3>2
  <2> HIDE DEF i
  <2>3. GoodTree(t)
    BY DEF Complete
  <2>4. ASSUME i.kind = "dir"
        PROVE  p \in FoldersOf(t) /\ t[p] = Folder
    <3>1. IsObj(t[p])
      BY <2>2, <2>3, GoodTreeIs
    <3>2. t[p] = Folder
      BY <2>2, <2>4, <3>1, KindsAre
    <3> QED
      BY <2>2, <3>2 DEF FoldersOf
  <2>5. ASSUME i.kind = "dir"
        PROVE  i.size % BlockSize = 0
    <3>1. FolderBlocks(t, p) \in Nat /\ BlockSize \in Nat /\ BlockSize > 0
      <4>1. Needed(t, p) \in Nat /\ Needed(t, p) = FolderBlocks(t, p)
        BY <2>2, <2>3, <2>4, <2>5, NeededIs
      <4> QED
        BY <4>1, EfsNumbers
    <3> DEFINE q == FolderBlocks(t, p)
               z == 0
    <3>2. i.size = q * BlockSize + z
      <4>1. q * BlockSize \in Nat /\ i.size = q * BlockSize
        BY <2>2, <2>4, <2>5, <3>1, Z3
      <4> QED
        BY <4>1
    <3>3. z \in 0..(BlockSize - 1)
      BY <3>1
    <3> HIDE DEF q
    <3>4. q \in Nat
      BY <3>1 DEF q
    <3>5. (q * BlockSize + z) % BlockSize = z
      BY <3>1, <3>3, <3>4, QuotientOf
    <3> QED
      BY <3>2, <3>5
  <2>6. \A j \in 1..Len(i.ext) : i.ext[j].length > 0
    BY <2>2 DEF Complete, Laid
  <2>7. Named(i) \subseteq DOMAIN v.image \ Areas
    BY <1>1, <1>4, <2>2 DEF DataBlocks
  <2>8. ASSUME i.kind = "dir", NEW b \in Named(i)
        PROVE  DOMAIN v.image[b] = {"entries"}
    <3>1. PICK j \in 1..Len(ext[p]) : b \in Span(ext[p][j])
      BY <2>2, <2>8
    <3>2. b # g.total - 1
      BY <2>2, <2>4, <2>8, <3>1 DEF Holders
    <3>3. v.image[b] = img[b]
      BY <1>1, <2>2, <2>8, <3>2
    <3>4. PICK k \in 1..Needed(t, p) : img[b] = Block(t, p, k)
      BY <2>2, <3>1 DEF Complete, HoldsBlocks
    <3>5. Block(t, p, k) = FolderBlock(t, p, k)
      BY <2>4, <2>8 DEF Block
    <3> QED
      BY <2>3, <2>4, <2>8, <3>3, <3>4, <3>5, FolderEntries
  <2> QED
    BY <2>5, <2>6, <2>7, <2>8 DEF i
<1> QED
  BY <1>5, <1>6 DEF Verified, v, part, Areas

(* A volume, what it should hold and what is known to be lost of that.     *)
VolumeGood(v, w, ls) ==
  /\ Exclusive(v) /\ (Verified(v) \/ \E p \in ls : w[p].kind \in {"dir", "link"})
  /\ \A p \in Paths \ ls : Reads(v)[p] = w[p]
  /\ Meant(w) /\ MeansFolders(Reads(v), w) /\ Objected(Reads(v)) /\ Reads(v)[Root] = Folder
  /\ \A p \in Paths : p # Root /\ Reads(v)[p].kind # "none" => Reads(v)[Parent[p]] = Folder

LEMMA SealedBuiltAs ==
  ASSUME NEW g, NEW t, NEW max, NEW ext, NEW img, NEW bits, NEW n, Complete(g, t, max, ext, img, bits, n),
         NEW ls, \A p \in Present(t) \ ls : Begun(t, img, ext, p, Needed(t, p))
  PROVE  BuiltAs(Sealed(g, t, ext, img, bits), t, ext, Losses(g, ext, ls))
<1> DEFINE v == Sealed(g, t, ext, img, bits)
           gone == Losses(g, ext, ls)
<1>1. /\ v.geo = g /\ v.inodes = InodeTable(t, g, ext)
      /\ \A b \in DataBlocks(g) : v.image[b] = IF b = g.total - 1 THEN Superblock ELSE img[b]
  BY SealedImage
<1> HIDE DEF v, gone
<1>2. /\ GoodTree(t) /\ ext \in [Paths -> Seq(Extent)] /\ g.ncg \in Nat
      /\ Cardinality(Present(t)) + InodeSlack <= g.ncg * InodesPerCg
      /\ \A p \in Paths : \A i \in 1..Len(ext[p]) : Span(ext[p][i]) \subseteq DataBlocks(g)
      /\ \A p \in Paths : \A i \in 1..Len(ext[p]) : \A b \in Span(ext[p][i]) :
           \E k \in 1..Needed(t, p) : img[b] = Block(t, p, k)
      /\ FoldersOf(t) \subseteq Present(t) /\ Present(t) \subseteq Paths
  BY InodeNumbers DEF Complete, Laid, Layout, HoldsBlocks
<1>3. ASSUME NEW p \in FoldersOf(t), NEW i \in 1..Len(ext[p]), NEW b \in Span(ext[p][i])
      PROVE  v.image[b] = Superblock \/ \E k \in 1..Needed(t, p) : v.image[b] = FolderBlock(t, p, k)
  <2>1. PICK k \in 1..Needed(t, p) : img[b] = Block(t, p, k)
    BY <1>2
  <2>2. img[b] = FolderBlock(t, p, k)
    BY <2>1 DEF Block
  <2>3. b \in DataBlocks(g)
    BY <1>2
  <2> QED
    BY <1>1, <2>2, <2>3
<1>4. ASSUME NEW p \in Present(t) \ gone
      PROVE  Len(ext[p]) <= MaxExtents /\ Written(v.image, ext[p]) = Prefix(t, p, Needed(t, p))
  <2>1. p \in Paths /\ p \notin ls /\ ~(Len(ext[p]) > MaxExtents) /\ p \notin Holders(ext, g.total - 1)
    BY <1>2 DEF gone, Losses
  <2>2. Len(ext[p]) \in Nat /\ MaxExtents \in Nat
    BY <1>2, <2>1, EfsNumbers, LenProperties
  <2>3. ASSUME NEW i \in 1..Len(ext[p]), NEW b \in Span(ext[p][i])
        PROVE  v.image[b] = img[b]
    <3>1. b # g.total - 1
      BY <2>1 DEF Holders
    <3>2. b \in DataBlocks(g)
      BY <1>2, <2>1
    <3> QED
      BY <1>1, <3>1, <3>2
  <2>4. Written(v.image, ext[p]) = Written(img, ext[p])
    BY <1>2, <2>1, <2>3, WrittenKeeps
  <2>5. Written(img, ext[p]) = Prefix(t, p, Needed(t, p))
    BY <2>1 DEF Begun
  <2> QED
    BY <2>1, <2>2, <2>4, <2>5
<1> QED
  BY <1>1, <1>2, <1>3, <1>4 DEF BuiltAs, v, gone

LEMMA SealedGood ==
  ASSUME NEW g, NEW t, NEW max, NEW ext, NEW img, NEW bits, NEW n, Complete(g, t, max, ext, img, bits, n),
         NEW ls, \A p \in Present(t) \ ls : Begun(t, img, ext, p, Needed(t, p)),
         NEW w, Meant(w), MeansFolders(t, w), Agree(t, w, ls)
  PROVE  VolumeGood(Sealed(g, t, ext, img, bits), w, Below(Losses(g, ext, ls)))
<1> DEFINE v == Sealed(g, t, ext, img, bits)
           gone == Losses(g, ext, ls)
<1>1. Exclusive(v)
  BY SealedExclusive
<1>2. BuiltAs(v, t, ext, gone)
  BY SealedBuiltAs
<1>3. Verified(v) \/ \E p \in Holders(ext, g.total - 1) : t[p] = Folder
  BY SealedVerified
<1> HIDE DEF v
<1>4. Verified(v) \/ \E p \in Below(gone) : w[p].kind \in {"dir", "link"}
  <2>1. ASSUME NEW p \in Holders(ext, g.total - 1), t[p] = Folder
        PROVE  p \in Below(gone) /\ w[p].kind \in {"dir", "link"}
    <3>1. p \in Paths /\ p \in gone
      BY DEF Holders, Losses
    <3>2. t[p].kind = "dir"
      BY <2>1 DEF Folder
    <3> QED
      BY <3>1, <3>2 DEF MeansFolders, Below
  <2> QED
    BY <1>3, <2>1
<1>5. ls \subseteq gone
  BY DEF Losses
<1> HIDE DEF gone
<1>6. /\ Objected(Reads(v)) /\ Reads(v)[Root] = Folder
      /\ \A p \in Paths :
           /\ Reads(v)[p].kind \in {"none", t[p].kind}
           /\ ({p} \cup Above[p]) \cap gone = {} => Reads(v)[p] = t[p]
           /\ p # Root /\ Reads(v)[p].kind # "none" => Reads(v)[Parent[p]] = Folder
  BY <1>2, ReadsBack
<1>7. ASSUME NEW p \in Paths, p \notin Below(gone)
      PROVE  Reads(v)[p] = w[p]
  <2>1. ({p} \cup Above[p]) \cap gone = {}
    BY <1>7 DEF Below
  <2>2. ({p} \cup Above[p]) \cap ls = {}
    BY <1>5, <2>1
  <2> QED
    BY <1>6, <2>1, <2>2 DEF Agree
<1>8. MeansFolders(Reads(v), w)
  BY <1>6 DEF MeansFolders
<1> QED
  BY <1>1, <1>4, <1>6, <1>7, <1>8 DEF VolumeGood, v, gone

-----------------------------------------------------------------------------
(* EfsImage: a round of the loop that writes an object.                    *)

NewBlocks(pos, len) == pos..(pos + len - 1)
Longer(ext, c, pos, len) == [ext EXCEPT ![c] = Append(@, [bn |-> pos, length |-> len])]
Written2(t, img, c, done, pos, len) ==
  [b \in DOMAIN img |-> IF b \in NewBlocks(pos, len) THEN Block(t, c, done + b - pos + 1) ELSE img[b]]

LongerGood(ext, c, new, e, x, l) ==
  /\ e \in Extent /\ Span(e) = new /\ x \in [Paths -> Seq(Extent)]
  /\ \A p \in Paths \ {c} : x[p] = ext[p]
  /\ x[c] = Append(ext[c], e) /\ l \in Nat /\ Len(x[c]) = l + 1 /\ x[c][l + 1] = e
  /\ \A i \in 1..l : x[c][i] = ext[c][i]

LEMMA LongerIs ==
  ASSUME NEW ext, NEW g, NEW bits, NEW n, Laid(ext, g, bits, n),
         NEW c \in Paths, NEW pos \in Nat, NEW len \in Nat
  PROVE  LongerGood(ext, c, NewBlocks(pos, len), [bn |-> pos, length |-> len],
                    Longer(ext, c, pos, len), Len(ext[c]))
<1> DEFINE e == [bn |-> pos, length |-> len]
           x == Longer(ext, c, pos, len)
<1>1. e \in Extent /\ Span(e) = NewBlocks(pos, len)
  BY DEF Extent, Span, NewBlocks
<1>2. ext \in [Paths -> Seq(Extent)] /\ ext[c] \in Seq(Extent)
  BY DEF Laid
<1>3. x = [ext EXCEPT ![c] = Append(ext[c], e)]
  BY <1>2 DEF Longer
<1> HIDE DEF e, x
<1>4. /\ Append(ext[c], e) \in Seq(Extent) /\ Len(ext[c]) \in Nat
      /\ Len(Append(ext[c], e)) = Len(ext[c]) + 1 /\ Append(ext[c], e)[Len(ext[c]) + 1] = e
      /\ \A i \in 1..Len(ext[c]) : Append(ext[c], e)[i] = ext[c][i]
  BY <1>1, <1>2, AppendProperties, LenProperties
<1>5. /\ x \in [Paths -> Seq(Extent)] /\ \A p \in Paths \ {c} : x[p] = ext[p]
      /\ x[c] = Append(ext[c], e)
  BY <1>2, <1>3, <1>4
<1>6. LongerGood(ext, c, NewBlocks(pos, len), e, x, Len(ext[c]))
  BY <1>1, <1>4, <1>5 DEF LongerGood
<1> QED
  BY <1>6 DEF e, x

LEMMA RoundLaid ==
  ASSUME NEW ext, NEW g, NEW bits, NEW n, Laid(ext, g, bits, n),
         NEW c \in Paths, NEW pos \in Nat, NEW len \in Nat, pos >= n, len > 0,
         NewBlocks(pos, len) \subseteq DataBlocks(g)
  PROVE  Laid(Longer(ext, c, pos, len), g, bits \cup NewBlocks(pos, len), pos + len)
<1> DEFINE e == [bn |-> pos, length |-> len]
           x == Longer(ext, c, pos, len)
           l == Len(ext[c])
           new == NewBlocks(pos, len)
<1>1. /\ e \in Extent /\ Span(e) = new /\ x \in [Paths -> Seq(Extent)]
      /\ \A p \in Paths \ {c} : x[p] = ext[p]
      /\ x[c] = Append(ext[c], e) /\ l \in Nat /\ Len(x[c]) = l + 1 /\ x[c][l + 1] = e
      /\ \A i \in 1..l : x[c][i] = ext[c][i]
  <2>1. LongerGood(ext, c, new, e, x, l)
    BY LongerIs
  <2> HIDE DEF e, x, l, new
  <2> QED
    BY <2>1 DEF LongerGood
<1>2. e.length = len
  OBVIOUS
<1>3. /\ n \in Nat
      /\ \A p \in Paths : \A i \in 1..Len(ext[p]) :
           /\ ext[p][i].length > 0 /\ Span(ext[p][i]) \subseteq DataBlocks(g) \cap bits
           /\ \A b \in Span(ext[p][i]) : b < n
      /\ \A p, q \in Paths : \A i \in 1..Len(ext[p]), j \in 1..Len(ext[q]) :
           p # q \/ i # j => Span(ext[p][i]) \cap Span(ext[q][j]) = {}
  BY DEF Laid
<1>4. /\ \A b \in new : b \in Nat /\ b >= n /\ b < pos + len
      /\ \A b \in Int : b < n => b < pos + len
  BY <1>3 DEF NewBlocks
<1>5. \A b \in DataBlocks(g) : b \in Int
  BY DEF DataBlocks
<1> HIDE DEF x, e, new
<1>6. ASSUME NEW p \in Paths, NEW i \in 1..Len(x[p])
      PROVE  \/ i \in 1..Len(ext[p]) /\ x[p][i] = ext[p][i]
             \/ p = c /\ i = l + 1 /\ x[p][i] = e
  <2>1. CASE p # c
    BY <1>1, <2>1
  <2>2. CASE p = c
    <3>1. i \in 1..l \/ i = l + 1
      BY <1>1, <2>2
    <3> HIDE DEF l
    <3> QED
      BY <1>1, <2>2, <3>1 DEF l
  <2> QED
    BY <2>1, <2>2
<1>7. ASSUME NEW p \in Paths, NEW i \in 1..Len(x[p])
      PROVE  /\ x[p][i].length > 0 /\ Span(x[p][i]) \subseteq DataBlocks(g) \cap (bits \cup new)
             /\ \A b \in Span(x[p][i]) : b < pos + len
  <2>1. CASE i \in 1..Len(ext[p]) /\ x[p][i] = ext[p][i]
    BY <1>3, <1>4, <1>5, <2>1
  <2>2. CASE x[p][i] = e
    BY <1>1, <1>2, <1>4, <2>2 DEF new
  <2> QED
    BY <1>6, <2>1, <2>2
<1>8. ASSUME NEW p \in Paths, NEW q \in Paths, NEW i \in 1..Len(x[p]), NEW j \in 1..Len(x[q]),
             p # q \/ i # j
      PROVE  Span(x[p][i]) \cap Span(x[q][j]) = {}
  <2>1. ASSUME NEW r \in Paths, NEW k \in 1..Len(ext[r])
        PROVE  Span(ext[r][k]) \cap new = {}
    <3>1. ASSUME NEW b \in Span(ext[r][k]), b \in new
          PROVE  FALSE
      <4>1. b < n /\ b >= n /\ b \in Nat
        BY <1>3, <1>4, <3>1
      <4> QED
        BY <1>3, <4>1
    <3> QED
      BY <3>1
  <2>2. CASE i \in 1..Len(ext[p]) /\ x[p][i] = ext[p][i] /\ j \in 1..Len(ext[q]) /\ x[q][j] = ext[q][j]
    BY <1>3, <1>8, <2>2
  <2>3. CASE i \in 1..Len(ext[p]) /\ x[p][i] = ext[p][i] /\ x[q][j] = e
    BY <1>1, <2>1, <2>3
  <2>4. CASE x[p][i] = e /\ j \in 1..Len(ext[q]) /\ x[q][j] = ext[q][j]
    BY <1>1, <2>1, <2>4
  <2>5. ~(p = c /\ i = l + 1 /\ q = c /\ j = l + 1)
    BY <1>8
  <2> QED
    BY <1>6, <2>2, <2>3, <2>4, <2>5
<1>9. pos + len \in Nat
  OBVIOUS
<1> QED
  BY <1>1, <1>7, <1>8, <1>9 DEF Laid, x, new

LEMMA RoundHolds ==
  ASSUME NEW g, NEW t, NEW ext, NEW bits, NEW n, NEW img, Laid(ext, g, bits, n),
         HoldsBlocks(t, img, ext), DOMAIN img = 0..(g.total - 1),
         NEW c \in Paths, NEW pos \in Nat, NEW len \in Nat, pos >= n, len > 0,
         NewBlocks(pos, len) \subseteq DataBlocks(g),
         NEW done \in Nat, Needed(t, c) \in Nat, done + len <= Needed(t, c), Begun(t, img, ext, c, done)
  PROVE  LET x == Longer(ext, c, pos, len)
             w == Written2(t, img, c, done, pos, len)
         IN  /\ HoldsBlocks(t, w, x) /\ DOMAIN w = 0..(g.total - 1)
             /\ \A p \in Paths \ {c} : \A m : Begun(t, img, ext, p, m) => Begun(t, w, x, p, m)
             /\ Begun(t, w, x, c, done + len)
<1> DEFINE e == [bn |-> pos, length |-> len]
           x == Longer(ext, c, pos, len)
           w == Written2(t, img, c, done, pos, len)
           l == Len(ext[c])
           new == NewBlocks(pos, len)
<1>1. /\ e \in Extent /\ Span(e) = new /\ x \in [Paths -> Seq(Extent)]
      /\ \A p \in Paths \ {c} : x[p] = ext[p]
      /\ x[c] = Append(ext[c], e) /\ l \in Nat /\ Len(x[c]) = l + 1 /\ x[c][l + 1] = e
      /\ \A i \in 1..l : x[c][i] = ext[c][i]
  <2>1. LongerGood(ext, c, new, e, x, l)
    BY LongerIs
  <2> HIDE DEF e, x, l, new
  <2> QED
    BY <2>1 DEF LongerGood
<1>2. /\ e.length = len /\ e.bn = pos
  OBVIOUS
<1>3. /\ DOMAIN w = 0..(g.total - 1)
      /\ \A b \in 0..(g.total - 1) : w[b] = IF b \in new THEN Block(t, c, done + b - pos + 1) ELSE img[b]
  BY DEF Written2
<1>4. /\ n \in Nat /\ ext \in [Paths -> Seq(Extent)]
      /\ \A p \in Paths : \A i \in 1..Len(ext[p]) :
           Span(ext[p][i]) \subseteq 0..(g.total - 1) /\ \A b \in Span(ext[p][i]) : b < n
  BY DEF Laid, DataBlocks
<1>5. \A b \in new : b \in Nat /\ b >= n /\ b \in 0..(g.total - 1)
  BY <1>4 DEF NewBlocks, DataBlocks
<1> HIDE DEF x, e, w, new
<1>6. ASSUME NEW p \in Paths, NEW i \in 1..Len(ext[p]), NEW b \in Span(ext[p][i])
      PROVE  w[b] = img[b]
  <2>1. b \in 0..(g.total - 1) /\ b < n
    BY <1>4
  <2>2. b \notin new
    <3>1. b \in Int
      BY <2>1
    <3> QED
      BY <1>4, <1>5, <2>1, <3>1
  <2> QED
    BY <1>3, <2>1, <2>2
<1>7. ASSUME NEW p \in Paths
      PROVE  Written(w, ext[p]) = Written(img, ext[p])
  <2>1. ext[p] \in Seq(Extent)
    BY <1>4
  <2> QED
    BY <1>6, <2>1, WrittenKeeps
<1>8. ASSUME NEW p \in Paths, p # c, NEW m, Begun(t, img, ext, p, m)
      PROVE  Begun(t, w, x, p, m)
  <2>1. x[p] = ext[p]
    BY <1>1, <1>8
  <2> QED
    BY <1>7, <1>8, <2>1 DEF Begun
<1>9. Begun(t, w, x, c, done + len)
  <2>1. Written(w, x[c]) = Written(w, ext[c]) \o [k \in 1..e.length |-> w[e.bn + k - 1]]
    <3>1. ext[c] \in Seq(Extent)
      BY <1>4
    <3>2. Written(w, Append(ext[c], e)) = Written(w, ext[c]) \o [k \in 1..e.length |-> w[e.bn + k - 1]]
      BY <1>1, <3>1, WrittenGrows, Zenon
    <3> QED
      BY <1>1, <3>2
  <2>2. Written(w, ext[c]) = Prefix(t, c, done)
    BY <1>7 DEF Begun
  <2>3. [k \in 1..len |-> w[pos + k - 1]] = Following(t, c, done, len)
    <3>1. ASSUME NEW k \in 1..len
          PROVE  w[pos + k - 1] = Block(t, c, done + k)
      <4>1. pos + k - 1 \in new /\ done + (pos + k - 1) - pos + 1 = done + k
        BY DEF new, NewBlocks
      <4> QED
        BY <1>3, <1>5, <4>1
    <3> QED
      BY <3>1 DEF Following
  <2>4. Prefix(t, c, done + len) = Prefix(t, c, done) \o Following(t, c, done, len)
    BY PrefixGrows
  <2>5. Written(w, x[c]) = Prefix(t, c, done + len)
    BY <1>2, <2>1, <2>2, <2>3, <2>4
  <2> QED
    BY <2>5 DEF Begun
<1>10. ASSUME NEW p \in Paths, NEW i \in 1..Len(x[p]), NEW b \in Span(x[p][i])
       PROVE  \E k \in 1..Needed(t, p) : w[b] = Block(t, p, k)
  <2>1. CASE i \in 1..Len(ext[p]) /\ x[p][i] = ext[p][i]
    <3>1. w[b] = img[b]
      BY <1>6, <1>10, <2>1
    <3>2. \E k \in 1..Needed(t, p) : img[b] = Block(t, p, k)
      BY <1>10, <2>1 DEF HoldsBlocks
    <3> QED
      BY <3>1, <3>2
  <2>2. CASE p = c /\ x[p][i] = e
    <3>1. b \in new
      BY <1>1, <1>10, <2>2
    <3>2. w[b] = Block(t, c, done + b - pos + 1)
      BY <1>3, <1>5, <3>1
    <3>3. done + b - pos + 1 \in 1..Needed(t, c)
      <4>1. b \in pos..(pos + len - 1)
        BY <3>1 DEF new, NewBlocks
      <4>2. SUFFICES ASSUME NEW k \in Nat, done + len <= k
                     PROVE  done + b - pos + 1 \in 1..k
        OBVIOUS
      <4> QED
        BY <4>1, <4>2
    <3> QED
      BY <2>2, <3>2, <3>3
  <2>3. \/ i \in 1..Len(ext[p]) /\ x[p][i] = ext[p][i]
        \/ p = c /\ x[p][i] = e
    <3>1. CASE p # c
      BY <1>1, <3>1
    <3>2. CASE p = c
      <4>1. i \in 1..l \/ i = l + 1
        BY <1>1, <3>2
      <4> HIDE DEF l
      <4> QED
        BY <1>1, <3>2, <4>1 DEF l
    <3> QED
      BY <3>1, <3>2
  <2> QED
    BY <2>1, <2>2, <2>3
<1>11. HoldsBlocks(t, w, x)
  BY <1>10 DEF HoldsBlocks
<1> QED
  BY <1>3, <1>8, <1>9, <1>11 DEF x, w

-----------------------------------------------------------------------------
(* EfsImage: what each step keeps.                                         *)

(* Cutting the groups down to the limit leaves them more than their        *)
(* inodes.  Geometry() does not see to it: a partition of a few blocks     *)
(* would get groups without data blocks, or of negative size, and what the *)
(* build makes of those is not considered here.  EfsTypeOK says it too, so *)
(* that the runs check it.                                                 *)
RoomForData == efsPhase \in {"build", "alloc"} => geo.size > InodeBlocks

EfsTypes ==
  /\ efsPhase \in {"none", "idle", "build", "alloc"} /\ injecting \in BOOLEAN
  /\ injects \in 0..MaxInjects /\ partSize \in Nat
  /\ Objected(tree) /\ Objected(want) /\ Objected(goal)
  /\ todo \subseteq Paths /\ cur \in Paths /\ lost \subseteq Paths /\ losing \subseteq Paths
  /\ remain \in Nat /\ (remain > 0 <=> efsPhase = "alloc")

Underway ==
  /\ limit \in Nat /\ Layout(geo, tree, limit) /\ GoodTree(tree)
  /\ Meant(goal) /\ MeansFolders(tree, goal) /\ Agree(tree, goal, losing)
  /\ DOMAIN image = 0..(geo.total - 1) /\ used \subseteq 0..(geo.total - 1)
  /\ Laid(extents, geo, used, nextBlock) /\ nextBlock >= geo.first /\ HoldsBlocks(tree, image, extents)
  /\ todo \subseteq Present(tree) /\ \A p \in todo : extents[p] = <<>>
  /\ \A p \in Present(tree) \ (todo \cup losing) :
       (efsPhase = "alloc" /\ p = cur) \/ Begun(tree, image, extents, p, Needed(tree, p))
  /\ efsPhase = "alloc" => /\ cur \notin todo /\ remain <= Needed(tree, cur)
                           /\ Begun(tree, image, extents, cur, Needed(tree, cur) - remain)

EfsKept ==
  /\ EfsTypes
  /\ (efsPhase = "idle" \/ injecting) => volume # NoVolume
  /\ volume # NoVolume => VolumeGood(volume, want, lost)
  /\ efsPhase \in {"build", "alloc"} => Underway

LEMMA EmptyTree == Objected([p \in Paths |-> NoObject])
BY SmallObjects DEF Objected

LEMMA EfsStart == EfsInit => EfsKept
<1> SUFFICES ASSUME EfsInit PROVE EfsKept
  OBVIOUS
<1>1. Objected([p \in Paths |-> NoObject])
  BY EmptyTree
<1>2. EfsTypes
  <2>1. tree = [p \in Paths |-> NoObject] /\ want = tree /\ goal = want
    BY DEF EfsInit
  <2>2. Objected(tree) /\ Objected(want) /\ Objected(goal)
    BY <1>1, <2>1
  <2>3. 0 \in 0..MaxInjects /\ Root \in Paths
    BY EfsNumbers, PathNumbers
  <2>4. /\ efsPhase = "none" /\ injecting = FALSE /\ injects = 0 /\ partSize = 0 /\ todo = {}
        /\ cur = Root /\ lost = {} /\ losing = {} /\ remain = 0
    BY DEF EfsInit
  <2>5. remain \in Nat /\ partSize \in Nat /\ (remain > 0 <=> efsPhase = "alloc")
    BY <2>4
  <2> QED
    BY <2>2, <2>3, <2>4, <2>5 DEF EfsTypes
<1> QED
  BY <1>2 DEF EfsInit, EfsKept

LEMMA NothingBegun ==
  ASSUME NEW t, NEW p, Needed(t, p) \in Nat, NEW img, NEW ext, ext[p] = <<>>
  PROVE  Begun(t, img, ext, p, 0)
<1>1. Written(img, ext[p]) = FlattenSeq(<<>>)
  <2>1. Len(<<>>) = 0
    OBVIOUS
  <2>2. [j \in 1..Len(ext[p]) |-> [k \in 1..ext[p][j].length |-> img[ext[p][j].bn + k - 1]]] = <<>>
    BY <2>1
  <2> QED
    BY <2>2 DEF Written
<1>2. FlattenSeq(<<>>) = <<>>
  BY FlattenNone
<1>3. Prefix(t, p, 0) = <<>>
  BY DEF Prefix
<1> QED
  BY <1>1, <1>2, <1>3 DEF Begun

LEMMA NothingLaid ==
  ASSUME NEW g, NEW bits, NEW n \in Nat, NEW ext, ext = [p \in Paths |-> <<>>]
  PROVE  Laid(ext, g, bits, n) /\ \A t, img : HoldsBlocks(t, img, ext)
<1>1. \A p \in Paths : ext[p] = <<>> /\ Len(ext[p]) = 0
  OBVIOUS
<1>2. \A p \in Paths : 1..Len(ext[p]) = {}
  BY <1>1
<1>3. ext \in [Paths -> Seq(Extent)]
  <2>1. <<>> \in Seq(Extent)
    OBVIOUS
  <2> QED
    BY <2>1
<1> QED
  BY <1>2, <1>3 DEF Laid, HoldsBlocks

LEMMA BuildStarts ==
  ASSUME NEW t, NEW max \in Nat, NEW inj \in BOOLEAN, BuildStart(t, max, inj), GoodTree(t),
         Meant(goal'), MeansFolders(t, goal'), Agree(t, goal', losing'), RoomForData'
  PROVE  /\ Underway' /\ efsPhase' = "build" /\ injecting' = inj
         /\ Objected(tree') /\ Objected(goal') /\ todo' \subseteq Paths /\ cur' \in Paths /\ remain' = 0
<1> DEFINE g == Geometry(t, max)
<1>1. /\ efsPhase' = "build" /\ tree' = t /\ limit' = max /\ geo' = g
      /\ injecting' = inj /\ todo' = Present(t) /\ cur' = Root /\ remain' = 0
      /\ nextBlock' = g.first + InodeBlocks /\ extents' = [p \in Paths |-> <<>>]
      /\ image' = Blank(g) /\ used' = Reserved(g)
  BY Zenon DEF BuildStart
<1>2. Layout(g, t, max)
  <2>1. \A p \in Paths : t[p].kind = "reg" => t[p].size \in Nat
    BY GoodTreeIs
  <2> QED
    BY <2>1, GeometryIs
<1>3. Roomy(g)
  BY <1>1 DEF RoomForData, Roomy
<1> HIDE DEF g
<1>4. Reserved(g) \subseteq 0..(g.total - 1)
  BY <1>2, <1>3, ReservedInside
<1>5. g.first + InodeBlocks \in Nat /\ g.first + InodeBlocks >= g.first
  BY <1>2, EfsNumbers DEF Layout
<1>6. Laid(extents', g, used', nextBlock') /\ HoldsBlocks(t, image', extents')
  BY <1>1, <1>5, NothingLaid
<1>7. DOMAIN image' = 0..(g.total - 1)
  BY <1>1 DEF Blank
<1>8. Present(t) \subseteq Paths /\ \A p \in Present(t) : extents'[p] = <<>>
  BY <1>1, InodeNumbers
<1>9. Underway'
  BY <1>1, <1>2, <1>4, <1>5, <1>6, <1>7, <1>8 DEF Underway
<1> QED
  BY <1>1, <1>8, <1>9, PathNumbers DEF GoodTree, Meant

LEMMA ConvertKeeps ==
  ASSUME EfsKept, Convert, RoomForData'
  PROVE  EfsKept'
<1>1. PICK t \in Trees, size \in PartSizes :
        partSize' = size /\ goal' = t /\ losing' = {} /\ BuildStart(t, size, FALSE)
  BY DEF Convert
<1>2. efsPhase = "none" /\ UNCHANGED <<volume, want, lost, injects>>
  BY DEF Convert
<1>3. GoodTree(t) /\ Meant(t) /\ size \in Nat
  BY TreesAreGood, EfsNumbers DEF GoodTree, IsTree, Meant
<1>4. MeansFolders(t, goal') /\ Agree(t, goal', losing')
  BY <1>1 DEF MeansFolders, Agree
<1>5. /\ Underway' /\ efsPhase' = "build" /\ injecting' = FALSE
      /\ Objected(tree') /\ Objected(goal') /\ todo' \subseteq Paths /\ cur' \in Paths /\ remain' = 0
  BY <1>1, <1>3, <1>4, BuildStarts
<1>6. EfsTypes'
  <2>1. EfsTypes
    BY DEF EfsKept
  <2>2. remain' \in Nat /\ (remain' > 0 <=> efsPhase' = "alloc")
    BY <1>5
  <2>3. /\ injects' \in 0..MaxInjects /\ Objected(want') /\ lost' \subseteq Paths
        /\ losing' \subseteq Paths /\ partSize' \in Nat /\ injecting' \in BOOLEAN
    BY <1>1, <1>2, <1>3, <1>5, <2>1 DEF EfsTypes
  <2> QED
    BY <1>5, <2>2, <2>3 DEF EfsTypes
<1> QED
  BY <1>2, <1>5, <1>6 DEF EfsKept

LEMMA InjectKeeps ==
  ASSUME EfsKept, RoomForData, Inject, RoomForData'
  PROVE  EfsKept'
<1> DEFINE t == Extracted(volume)
           max == Max({Megabyte, (partSize \div Megabyte) * Megabyte})
           links == {q \in Paths : t[q].kind = "link"}
           Changed(dirs) == {q \in Paths : want[q].kind = "dev"} \cup dirs
           Obj(p, size) == File("reg", size, <<p, injects'>>)
           Follows(p, dirs) == /\ p \notin dirs /\ ({p} \cup Above[p]) \cap links # {}
                               /\ Above[p] \cap links \subseteq dirs
<1>1. /\ efsPhase = "idle" /\ injects < MaxInjects /\ injects' = injects + 1
      /\ UNCHANGED <<partSize, volume, want, lost>>
  BY DEF Inject
<1>2. PICK p \in Paths, size \in Sizes, dirs \in SUBSET links :
        \/ ~Writable(t, p) /\ UNCHANGED <<efsPhase, buildVars>>
        \/ /\ Writable(t, p)
           /\ BuildStart(Added(Walked(t, dirs), p, Obj(p, size)), max, TRUE)
           /\ goal' = Added(want, p, Obj(p, size))
           /\ losing' = (lost \cup Changed(dirs)) \ ({p} \cup Above[p])
        \/ /\ Follows(p, dirs)
           /\ BuildStart(Walked(t, dirs), max, TRUE)
           /\ goal' = want /\ losing' = lost \cup Changed(dirs) \cup {p}
        \/ /\ Follows(p, dirs)
           /\ \E q \in Paths :
                /\ Writable(t, q)
                /\ BuildStart(Added(Walked(t, dirs), q, Obj(p, size)), max, TRUE)
                /\ goal' = Added(want, q, Obj(p, size))
                /\ losing' = lost \cup Changed(dirs) \cup {p, q}
  BY Zenon DEF Inject
<1> DEFINE walked == Walked(t, dirs)
           changed == Changed(dirs)
<1>3. EfsTypes /\ volume # NoVolume /\ VolumeGood(volume, want, lost)
  BY <1>1 DEF EfsKept
<1>4. /\ GoodTree(t) /\ Meant(want) /\ MeansFolders(t, want)
      /\ \A q \in Paths : q \notin lost /\ want[q].kind # "dev" => t[q] = want[q]
  BY <1>3, ExtractedIs DEF VolumeGood
<1>20. /\ GoodTree(walked) /\ MeansFolders(walked, want)
      /\ \A q \in Paths \ dirs : walked[q] = t[q]
  BY <1>4, WalkedIs
<1>21. \A q \in Paths : q \notin lost /\ q \notin changed => walked[q] = want[q]
  BY <1>4, <1>20
<1>5. max \in Nat
  <2>1. partSize \in Nat /\ Megabyte \in Nat /\ Megabyte > 0
    BY <1>3, EfsNumbers DEF EfsTypes
  <2>2. partSize \div Megabyte \in Nat
    BY <2>1, QuotientIs
  <2> DEFINE q == partSize \div Megabyte
  <2> HIDE DEF q
  <2>3. q * Megabyte \in Nat
    BY <2>1, <2>2, Z3 DEF q
  <2>4. Max({Megabyte, q * Megabyte}) \in {Megabyte, q * Megabyte}
    <3>1. q * Megabyte \in Int /\ Megabyte \in Int
      BY <2>1, <2>3
    <3> QED
      BY <3>1, MaxOfTwo, Zenon
  <2> QED
    BY <2>1, <2>3, <2>4 DEF q
<1> HIDE DEF t, max, walked
<1>6. injects' \in 0..MaxInjects
  BY <1>1, <1>3, EfsNumbers DEF EfsTypes
<1>7. lost \subseteq Paths /\ changed \subseteq Paths
  BY <1>3 DEF EfsTypes
<1>8. CASE ~Writable(t, p) /\ UNCHANGED <<efsPhase, buildVars>>
  <2>1. EfsTypes'
    BY <1>1, <1>3, <1>6, <1>8 DEF EfsTypes, buildVars
  <2>2. volume' # NoVolume /\ VolumeGood(volume', want', lost') /\ efsPhase' = "idle"
    BY <1>1, <1>3, <1>8
  <2> QED
    BY <2>1, <2>2 DEF EfsKept
<1>9. ASSUME NEW u, BuildStart(u, max, TRUE), GoodTree(u), Meant(goal'), MeansFolders(u, goal'),
             Agree(u, goal', losing'), losing' \subseteq Paths
      PROVE  EfsKept'
  <2>1. /\ Underway' /\ efsPhase' = "build" /\ injecting' = TRUE
        /\ Objected(tree') /\ Objected(goal') /\ todo' \subseteq Paths /\ cur' \in Paths /\ remain' = 0
    BY <1>5, <1>9, BuildStarts
  <2>2. EfsTypes'
    BY <1>1, <1>3, <1>6, <1>9, <2>1 DEF EfsTypes
  <2>3. volume' # NoVolume /\ VolumeGood(volume', want', lost')
    BY <1>1, <1>3
  <2> QED
    BY <2>1, <2>2, <2>3 DEF EfsKept
<1>10. CASE /\ Follows(p, dirs) /\ BuildStart(walked, max, TRUE)
            /\ goal' = want /\ losing' = lost \cup changed \cup {p}
  <2>1. Agree(walked, goal', losing')
    BY <1>21, <1>10 DEF Agree
  <2> QED
    BY <1>4, <1>20, <1>7, <1>9, <1>10, <2>1
<1>11. ASSUME NEW q \in Paths, Writable(t, q),
              BuildStart(Added(walked, q, Obj(p, size)), max, TRUE),
              goal' = Added(want, q, Obj(p, size)), losing' \subseteq Paths,
              \A r \in Paths : r = q \/ r \in Above[q] \/ r \in losing' \/ (r \notin lost /\ r \notin changed)
       PROVE  EfsKept'
  <2> DEFINE o == Obj(p, size)
  <2>1. IsObj(o) /\ o.kind = "reg"
    <3>1. size \in Nat
      BY EfsNumbers
    <3> QED
      BY <3>1, FilesAre
  <2> HIDE DEF o
  <2>2. walked[q] # Folder /\ \A r \in Above[q] : walked[r] \in {Folder, NoObject}
    <3>1. /\ t[q].kind \in {"none", "reg"}
          /\ \A r \in Above[q] : t[r] \in {Folder, NoObject}
      BY <1>11 DEF Writable
    <3>2. Folder.kind = "dir" /\ NoObject.kind = "none"
      BY DEF Folder, NoObject
    <3>3. q \notin dirs /\ \A r \in Above[q] : r \notin dirs
      BY <3>1, <3>2
    <3>4. Above[q] \subseteq Paths
      <4>1. q # Root
        BY <1>4, <3>1, <3>2 DEF GoodTree, IsTree
      <4> QED
        BY <4>1, AboveAre
    <3> QED
      BY <1>20, <3>1, <3>2, <3>3, <3>4
  <2>3. /\ GoodTree(Added(walked, q, o)) /\ Meant(Added(want, q, o))
        /\ MeansFolders(Added(walked, q, o), Added(want, q, o))
        /\ \A r \in Paths : r = q \/ r \in Above[q] \/ walked[r] = want[r]
                             => Added(walked, q, o)[r] = Added(want, q, o)[r]
    <3>1. AddedGood(walked, want, q, o)
      BY <1>4, <1>20, <2>1, <2>2, AddedIs
    <3> QED
      BY <3>1 DEF AddedGood
  <2>4. goal' = Added(want, q, o) /\ BuildStart(Added(walked, q, o), max, TRUE)
    BY <1>11 DEF o
  <2>5. Agree(Added(walked, q, o), goal', losing')
    <3>1. ASSUME NEW r \in Paths, ({r} \cup Above[r]) \cap losing' = {}
          PROVE  Added(walked, q, o)[r] = goal'[r]
      <4>1. r = q \/ r \in Above[q] \/ (r \notin lost /\ r \notin changed)
        BY <1>11, <3>1
      <4>2. r = q \/ r \in Above[q] \/ walked[r] = want[r]
        BY <1>21, <4>1
      <4> QED
        BY <2>3, <2>4, <4>2
    <3> QED
      BY <3>1 DEF Agree
  <2> QED
    BY <1>9, <1>11, <2>3, <2>4, <2>5
<1>12. CASE /\ Writable(t, p) /\ BuildStart(Added(walked, p, Obj(p, size)), max, TRUE)
            /\ goal' = Added(want, p, Obj(p, size))
            /\ losing' = (lost \cup changed) \ ({p} \cup Above[p])
  <2> HIDE DEF Obj
  <2> QED
    BY <1>7, <1>11, <1>12
<1>13. ASSUME NEW q \in Paths, Writable(t, q), BuildStart(Added(walked, q, Obj(p, size)), max, TRUE),
              goal' = Added(want, q, Obj(p, size)), losing' = lost \cup changed \cup {p, q}
       PROVE  EfsKept'
  <2> HIDE DEF Obj
  <2> QED
    BY <1>7, <1>11, <1>13
<1> QED
  BY <1>2, <1>8, <1>10, <1>12, <1>13 DEF walked

LEMMA NextObjectKeeps ==
  ASSUME EfsKept, NextObject
  PROVE  EfsKept'
<1> DEFINE folders == todo \cap FoldersOf(tree)
           p == Min(IF folders # {} THEN folders ELSE todo)
<1>1. /\ efsPhase = "build" /\ todo # {}
      /\ todo' = todo \ {p} /\ cur' = p /\ remain' = Needed(tree, p)
      /\ efsPhase' = IF remain' = 0 THEN "build" ELSE "alloc"
      /\ UNCHANGED <<partSize, volume, want, lost, injects, limit, geo, tree, injecting,
                     goal, losing, nextBlock, extents, image, used>>
  BY Zenon DEF NextObject
<1>2. EfsTypes /\ Underway
  BY <1>1 DEF EfsKept
<1>3. p \in todo
  <2> DEFINE S == IF folders # {} THEN folders ELSE todo
  <2>1. S # {} /\ S \subseteq todo
    BY <1>1
  <2>2. S \subseteq Nat
    BY <1>2, <2>1, PathNumbers DEF EfsTypes
  <2> HIDE DEF S
  <2>3. Min(S) \in S
    BY <2>1, <2>2, MinOfSet
  <2> QED
    BY <2>1, <2>3 DEF S
<1> HIDE DEF p
<1>4. GoodTree(tree) /\ p \in Paths
  BY <1>2, <1>3 DEF EfsTypes, Underway
<1>5. Needed(tree, p) \in Nat
  BY <1>4, NeededIs
<1>6. Begun(tree, image, extents, p, 0)
  BY <1>2, <1>3, <1>5, NothingBegun DEF Underway
<1>7. remain' \in Nat /\ (remain' > 0 <=> efsPhase' = "alloc") /\ efsPhase' \in {"build", "alloc"}
  BY <1>1, <1>5
<1>8. EfsTypes'
  BY <1>1, <1>2, <1>4, <1>7 DEF EfsTypes
<1>9. \A q \in Present(tree) \ (todo' \cup losing) :
        (efsPhase' = "alloc" /\ q = p) \/ Begun(tree, image, extents, q, Needed(tree, q))
  <2>1. ASSUME NEW q \in Present(tree) \ (todo' \cup losing), q # p
        PROVE  Begun(tree, image, extents, q, Needed(tree, q))
    BY <1>1, <1>2, <2>1 DEF Underway
  <2>2. CASE remain' = 0
    BY <1>1, <1>6, <2>1, <2>2
  <2>3. CASE remain' # 0
    BY <1>1, <2>1, <2>3
  <2> QED
    BY <2>2, <2>3
<1>10. /\ p \notin todo' /\ remain' <= Needed(tree, p)
       /\ Begun(tree, image, extents, p, Needed(tree, p) - remain')
  <2>1. Needed(tree, p) - remain' = 0 /\ remain' <= Needed(tree, p)
    BY <1>1, <1>5
  <2> QED
    BY <1>1, <1>6, <2>1
<1>11. todo' \subseteq Present(tree) /\ \A q \in todo' : extents[q] = <<>>
  BY <1>1, <1>2 DEF Underway
<1>12. Underway'
  BY <1>1, <1>2, <1>9, <1>10, <1>11 DEF Underway
<1>13. /\ (efsPhase' = "idle" \/ injecting') => volume' # NoVolume
       /\ volume' # NoVolume => VolumeGood(volume', want', lost')
  BY <1>1, <1>7 DEF EfsKept
<1> QED
  BY <1>8, <1>12, <1>13 DEF EfsKept

LEMMA ExtendKeeps ==
  ASSUME EfsKept, RoomForData, Extend
  PROVE  EfsKept'
<1> DEFINE pos == SkipInodes(nextBlock)
           len == ExtentLength(pos)
           done == Needed(tree, cur) - remain
<1>1. /\ efsPhase = "alloc" /\ pos < geo.total
      /\ extents' = Longer(extents, cur, pos, len)
      /\ image' = Written2(tree, image, cur, done, pos, len)
      /\ used' = used \cup NewBlocks(pos, len)
      /\ nextBlock' = pos + len /\ remain' = remain - len
      /\ efsPhase' = IF remain' = 0 THEN "build" ELSE "alloc"
      /\ UNCHANGED <<partSize, volume, want, lost, injects, limit, geo, tree, injecting,
                     goal, losing, todo, cur>>
  BY Zenon DEF Extend, Longer, Written2, NewBlocks
<1>2. EfsTypes /\ Underway /\ Roomy(geo)
  BY <1>1 DEF EfsKept, RoomForData, Roomy
<1>3. /\ GoodTree(tree) /\ Layout(geo, tree, limit) /\ Laid(extents, geo, used, nextBlock)
      /\ nextBlock >= geo.first /\ HoldsBlocks(tree, image, extents) /\ DOMAIN image = 0..(geo.total - 1)
      /\ remain \in Nat /\ remain > 0 /\ cur \in Paths /\ cur \notin todo
      /\ remain <= Needed(tree, cur) /\ Begun(tree, image, extents, cur, done)
      /\ nextBlock \in Nat
  BY <1>1, <1>2 DEF EfsTypes, Underway, Laid
<1>4. /\ pos \in Nat /\ pos >= nextBlock /\ len \in Nat /\ len > 0 /\ len <= remain
      /\ NewBlocks(pos, len) \subseteq DataBlocks(geo)
  BY <1>1, <1>2, <1>3, RoundIs DEF NewBlocks
<1>5. Needed(tree, cur) \in Nat
  BY <1>3, NeededIs
<1> HIDE DEF pos, len
<1>6. done \in Nat /\ done + len <= Needed(tree, cur)
      /\ done + len = Needed(tree, cur) - remain' /\ remain' <= Needed(tree, cur)
  BY <1>1, <1>3, <1>4, <1>5
<1> HIDE DEF done
<1>7. Laid(extents', geo, used', nextBlock')
  BY <1>1, <1>3, <1>4, RoundLaid
<1>8. /\ HoldsBlocks(tree, image', extents') /\ DOMAIN image' = 0..(geo.total - 1)
      /\ \A p \in Paths \ {cur} : \A m : Begun(tree, image, extents, p, m) => Begun(tree, image', extents', p, m)
      /\ Begun(tree, image', extents', cur, done + len)
  <2>1. LET x == Longer(extents, cur, pos, len)
            w == Written2(tree, image, cur, done, pos, len)
        IN  /\ HoldsBlocks(tree, w, x) /\ DOMAIN w = 0..(geo.total - 1)
            /\ \A p \in Paths \ {cur} : \A m : Begun(tree, image, extents, p, m) => Begun(tree, w, x, p, m)
            /\ Begun(tree, w, x, cur, done + len)
    BY <1>3, <1>4, <1>5, <1>6, RoundHolds
  <2> QED
    BY <1>1, <2>1, Zenon
<1>9. remain' \in Nat /\ (remain' > 0 <=> efsPhase' = "alloc") /\ efsPhase' \in {"build", "alloc"}
  BY <1>1, <1>3, <1>4
<1>10. EfsTypes'
  BY <1>1, <1>2, <1>9 DEF EfsTypes
<1>11. \A p \in todo : extents'[p] = <<>>
  <2>1. \A p \in Paths \ {cur} : extents'[p] = extents[p]
    <3>1. \A p \in Paths \ {cur} : Longer(extents, cur, pos, len)[p] = extents[p]
      BY <1>3, <1>4 DEF Longer, Laid
    <3> QED
      BY <1>1, <3>1
  <2> QED
    BY <1>2, <1>3, <2>1 DEF Underway, EfsTypes
<1>12. \A p \in Present(tree) \ (todo \cup losing) :
         (efsPhase' = "alloc" /\ p = cur) \/ Begun(tree, image', extents', p, Needed(tree, p))
  <2>1. ASSUME NEW p \in Present(tree) \ (todo \cup losing), p # cur
        PROVE  Begun(tree, image', extents', p, Needed(tree, p))
    <3>1. Begun(tree, image, extents, p, Needed(tree, p))
      BY <1>2, <2>1 DEF Underway
    <3>2. p \in Paths
      BY InodeNumbers
    <3> QED
      BY <1>8, <2>1, <3>1, <3>2
  <2>2. CASE remain' = 0
    <3>1. Begun(tree, image', extents', cur, Needed(tree, cur))
      <4>1. done + len = Needed(tree, cur)
        BY <1>5, <1>6, <2>2
      <4> QED
        BY <1>8, <4>1
    <3> QED
      BY <2>1, <3>1
  <2>3. CASE remain' # 0
    BY <1>1, <2>1, <2>3
  <2> QED
    BY <2>2, <2>3
<1>13. Begun(tree, image', extents', cur, Needed(tree, cur) - remain')
  BY <1>6, <1>8
<1>14. used' \subseteq 0..(geo.total - 1) /\ nextBlock' >= geo.first
  <2>1. NewBlocks(pos, len) \subseteq 0..(geo.total - 1)
    BY <1>4 DEF DataBlocks
  <2>2. used' \subseteq 0..(geo.total - 1)
    BY <1>1, <1>2, <2>1 DEF Underway
  <2>3. geo.first \in Nat
    BY <1>3 DEF Layout
  <2> QED
    BY <1>1, <1>3, <1>4, <2>2, <2>3
<1>15. Underway'
  BY <1>1, <1>2, <1>3, <1>6, <1>7, <1>8, <1>11, <1>12, <1>13, <1>14 DEF Underway
<1>16. /\ (efsPhase' = "idle" \/ injecting') => volume' # NoVolume
       /\ volume' # NoVolume => VolumeGood(volume', want', lost')
  BY <1>1, <1>9 DEF EfsKept
<1> QED
  BY <1>10, <1>15, <1>16 DEF EfsKept

LEMMA FullKeeps ==
  ASSUME EfsKept, RoomForData, Full
  PROVE  EfsKept'
<1> DEFINE pos == SkipInodes(nextBlock)
<1>1. /\ efsPhase = "alloc" /\ efsPhase' = "build" /\ remain' = 0 /\ nextBlock' = pos
      /\ losing' = losing \cup {cur}
      /\ UNCHANGED <<partSize, volume, want, lost, injects, limit, geo, tree, injecting, goal,
                     todo, cur, extents, image, used>>
  BY DEF Full
<1>2. EfsTypes /\ Underway /\ Roomy(geo)
  BY <1>1 DEF EfsKept, RoomForData, Roomy
<1>3. pos \in Nat /\ pos >= nextBlock /\ nextBlock \in Nat
  BY <1>1, <1>2, RoundIs DEF EfsTypes, Underway, Laid
<1> HIDE DEF pos
<1>4. Laid(extents, geo, used, nextBlock')
  <2>1. ASSUME NEW p \in Paths, NEW i \in 1..Len(extents[p]), NEW b \in Span(extents[p][i])
        PROVE  b < nextBlock'
    <3>1. b \in DataBlocks(geo) /\ b < nextBlock
      BY <1>2 DEF Underway, Laid
    <3>2. b \in Int
      BY <3>1 DEF DataBlocks
    <3> QED
      BY <1>1, <1>3, <3>1, <3>2
  <2>2. Laid(extents, geo, used, nextBlock) /\ nextBlock' \in Nat
    BY <1>1, <1>2, <1>3 DEF Underway
  <2> QED
    BY <2>1, <2>2 DEF Laid
<1>5. nextBlock' >= geo.first
  <2>1. geo.first \in Nat /\ nextBlock >= geo.first
    BY <1>2 DEF Underway, Layout
  <2> QED
    BY <1>1, <1>3, <2>1
<1>6. Agree(tree, goal, losing')
  BY <1>1, <1>2 DEF Underway, Agree
<1>7. \A p \in Present(tree) \ (todo \cup losing') : Begun(tree, image, extents, p, Needed(tree, p))
  BY <1>1, <1>2 DEF Underway
<1>8. Underway'
  BY <1>1, <1>2, <1>4, <1>5, <1>6, <1>7 DEF Underway
<1>9. EfsTypes'
  <2>1. remain' \in Nat /\ (remain' > 0 <=> efsPhase' = "alloc") /\ losing' \subseteq Paths
    BY <1>1, <1>2 DEF EfsTypes
  <2> QED
    BY <1>1, <1>2, <2>1 DEF EfsTypes
<1>10. /\ (efsPhase' = "idle" \/ injecting') => volume' # NoVolume
       /\ volume' # NoVolume => VolumeGood(volume', want', lost')
  BY <1>1 DEF EfsKept
<1> QED
  BY <1>8, <1>9, <1>10 DEF EfsKept

LEMMA FinishKeeps ==
  ASSUME EfsKept, RoomForData, Finish
  PROVE  EfsKept'
<1> DEFINE gone == losing \cup Unindexed \cup Owners(Replica)
           Empty == [p \in Paths |-> NoObject]
<1>1. /\ efsPhase = "build" /\ todo = {} /\ efsPhase' = "idle"
      /\ IF injecting /\ geo.total > partSize
         THEN UNCHANGED <<volume, want, lost>>
         ELSE /\ volume' = Built /\ want' = goal
              /\ lost' = {p \in Paths : ({p} \cup Above[p]) \cap gone # {}}
      /\ tree' = Empty /\ injecting' = FALSE /\ goal' = Empty /\ losing' = {} /\ cur' = Root
      /\ UNCHANGED <<partSize, injects, todo, remain>>
  BY Zenon DEF Finish
<1>2. EfsTypes /\ Underway /\ Roomy(geo)
  BY <1>1 DEF EfsKept, RoomForData, Roomy
<1>3. Complete(geo, tree, limit, extents, image, used, nextBlock)
  BY <1>2 DEF Underway, Complete
<1>4. Built = Sealed(geo, tree, extents, image, used)
  BY DEF Built, Sealed, Replica
<1>5. gone = Losses(geo, extents, losing)
  BY DEF Losses, Unindexed, Owners, Holders, Replica
<1> HIDE DEF gone
<1>6. Built # NoVolume
  BY <1>3, <1>4, SealedImage
<1>7. \A p \in Present(tree) \ losing : Begun(tree, image, extents, p, Needed(tree, p))
  BY <1>1, <1>2 DEF Underway
<1>8. VolumeGood(Built, goal, Below(gone))
  <2>1. Meant(goal) /\ MeansFolders(tree, goal) /\ Agree(tree, goal, losing)
    BY <1>2 DEF Underway
  <2> QED
    BY <1>3, <1>4, <1>5, <1>7, <2>1, SealedGood
<1>9. volume' # NoVolume /\ VolumeGood(volume', want', lost') /\ Objected(want') /\ lost' \subseteq Paths
  <2>1. CASE injecting /\ geo.total > partSize
    BY <1>1, <1>2, <2>1 DEF EfsKept, EfsTypes
  <2>2. CASE ~(injecting /\ geo.total > partSize)
    <3>1. volume' = Built /\ want' = goal /\ lost' = Below(gone)
      BY <1>1, <2>2 DEF Below
    <3>2. Below(gone) \subseteq Paths
      BY DEF Below
    <3> QED
      BY <1>2, <1>6, <1>8, <3>1, <3>2 DEF EfsTypes
  <2> QED
    BY <2>1, <2>2
<1>10. Objected(tree') /\ Objected(goal')
  BY <1>1, EmptyTree
<1>11. EfsTypes'
  <2>1. remain' \in Nat /\ (remain' > 0 <=> efsPhase' = "alloc")
    BY <1>1, <1>2 DEF EfsTypes
  <2> QED
    BY <1>1, <1>2, <1>9, <1>10, <2>1, PathNumbers DEF EfsTypes
<1> QED
  BY <1>1, <1>9, <1>11 DEF EfsKept

LEMMA EfsKeeps ==
  ASSUME EfsKept, RoomForData, RoomForData', [EfsNext]_efsVars
  PROVE  EfsKept'
<1>1. CASE UNCHANGED efsVars
  <2>1. /\ UNCHANGED <<efsPhase, partSize, volume, want, lost, injects>>
        /\ UNCHANGED <<limit, geo, tree, injecting, goal, losing, todo, cur, remain>>
        /\ UNCHANGED <<nextBlock, extents, image, used>>
    BY <1>1 DEF efsVars, buildVars
  <2>2. EfsTypes'
    BY <2>1 DEF EfsKept, EfsTypes
  <2>3. Underway => Underway'
    BY <2>1 DEF Underway
  <2> QED
    BY <2>1, <2>2, <2>3 DEF EfsKept
<1>2. CASE Convert
  BY <1>2, ConvertKeeps
<1>3. CASE Inject
  BY <1>3, InjectKeeps
<1>4. CASE NextObject
  BY <1>4, NextObjectKeeps
<1>5. CASE Extend
  BY <1>5, ExtendKeeps
<1>6. CASE Full
  BY <1>6, FullKeeps
<1>7. CASE Finish
  BY <1>7, FinishKeeps
<1> QED
  BY <1>1, <1>2, <1>3, <1>4, <1>5, <1>6, <1>7 DEF EfsNext

(* What every step of the builder and of an injection keeps, while there   *)
(* is room: each object has the blocks written so far, in extents that     *)
(* nothing else has, and what is being built agrees with what it is to     *)
(* hold (BuildStart, _allocate_blocks(), _write_image()).                  *)
THEOREM BuildKept == EfsSpec /\ []RoomForData => []EfsKept
<1>1. EfsInit => EfsKept
  BY EfsStart
<1>2. EfsKept /\ RoomForData /\ RoomForData' /\ [EfsNext]_efsVars => EfsKept'
  BY EfsKeeps
<1> QED
  BY <1>1, <1>2, PTL DEF EfsSpec

(* efsPhase and the rest have the types of their definitions, objects have *)
(* no more blocks than their size asks for, the layout keeps to what the   *)
(* builder may use, and the bitmap to the layout (EFSBuilder).  That the   *)
(* groups have data blocks is the hypothesis, not a result.                *)
THEOREM EfsTypesKept == EfsSpec /\ []RoomForData => []EfsTypeOK
<1>1. EfsKept /\ RoomForData => EfsTypeOK
  <2> SUFFICES ASSUME EfsKept, RoomForData PROVE EfsTypeOK
    OBVIOUS
  <2>1. EfsTypes
    BY DEF EfsKept
  <2>2. ASSUME NEW t \in {tree, want, goal}
        PROVE  DOMAIN t = Paths /\ \A p \in Paths : IsObject(t[p])
    <3>1. Objected(t)
      BY <2>1 DEF EfsTypes
    <3>2. ASSUME NEW p \in Paths
          PROVE  IsObject(t[p])
      <4>1. IsObj(t[p])
        BY <3>1 DEF Objected
      <4>2. Len(t[p].data) = Blocks(t[p].size) /\ t[p].size \in Nat /\ t[p].kind \in EfsKinds
        BY <4>1, KindsAre DEF IsObj
      <4>3. Blocks(t[p].size) \in Nat
        BY <4>2, BlocksIs
      <4> QED
        BY <4>2, <4>3 DEF IsObject, EfsKinds
    <3> QED
      BY <3>1, <3>2 DEF Objected
  <2>3. (remain > 0) = (efsPhase = "alloc")
    BY <2>1 DEF EfsTypes
  <2>4. ASSUME efsPhase \in {"build", "alloc"}
        PROVE  /\ geo.total <= limit /\ geo.size > InodeBlocks
               /\ DOMAIN image = 0..(geo.total - 1) /\ used \subseteq DOMAIN image
    BY <2>4 DEF EfsKept, Underway, Layout, RoomForData
  <2> QED
    BY <2>1, <2>2, <2>3, <2>4 DEF EfsTypes, EfsTypeOK
<1> QED
  BY <1>1, BuildKept, PTL

(* The blocks of a volume have one owner each, are marked in the bitmap    *)
(* and lie outside the inode tables; verify_efs() has nothing to report;   *)
(* and the volume holds what it was given, through any number of           *)
(* injections, except what the code is known to lose (_allocate_blocks(),  *)
(* _write_image(), fs_inject()).                                           *)
THEOREM VolumeIsSound == EfsSpec /\ []RoomForData => []VolumeSound
<1>1. EfsKept => VolumeSound
  <2> SUFFICES ASSUME EfsKept, volume # NoVolume
               PROVE  /\ BlocksExclusive /\ VerifyClean /\ HoldsTheRest
    BY DEF VolumeSound, BlocksExclusive, VerifyClean, HoldsTheRest
  <2>1. VolumeGood(volume, want, lost)
    BY DEF EfsKept
  <2>2. BlocksExclusive
    BY <2>1 DEF VolumeGood, Exclusive, BlocksExclusive
  <2>3. VerifyClean /\ HoldsTheRest
    BY <2>1 DEF VolumeGood, VerifyClean, HoldsTheRest
  <2> QED
    BY <2>2, <2>3
<1> QED
  BY <1>1, BuildKept, PTL
=============================================================================
