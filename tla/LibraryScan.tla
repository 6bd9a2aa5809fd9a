---------------------------- MODULE LibraryScan ----------------------------
(***************************************************************************)
(* The index of a library of software on a network mount and the copies    *)
(* staged from it (pyirix_qemu/catalog/library.py, and its callers in      *)
(* sgi_mcp/server.py): a scan walks a root, writes what is new or changed  *)
(* in one transaction, and then removes all it has not seen.  Others       *)
(* change the files meanwhile, and a folder may be unreadable.             *)
(*                                                                         *)
(* A file is its version, size and time; formats, categories and names are *)
(* functions of the path or of the version and are left out, and so are    *)
(* files that _should_index() refuses by name.                             *)
(***************************************************************************)
EXTENDS Integers, FiniteSets

CONSTANTS LibPaths, FolderOf, NameOf,  \* FolderOf[p], NameOf[p]: p's folder and last component
          LibRoots,        \* what may be scanned: sets of folders
          MediaSizes, Tiny,\* sizes of media, and one below 1024 bytes
          Tolerance,       \* 1.0 s
          MaxChanges,      \* bound: changes of files and folders
          MaxLibCalls,     \* bound: scans and stagings
          NoFile
Folders == {FolderOf[p] : p \in LibPaths}
LibNames == {NameOf[p] : p \in LibPaths}
ASSUME LibraryConstants ==
  /\ \A r \in LibRoots : r \subseteq Folders
  /\ MediaSizes \subseteq Nat /\ Tiny \in Nat \ MediaSizes
  /\ Tolerance \in Nat /\ MaxChanges \in Nat /\ MaxLibCalls \in Nat

VARIABLES
  onMount,    \* onMount[p]: the file, or NoFile
  unreadable, \* folders that cannot be listed
  libPc,      \* "idle" or "walk"
  root,       \* folders of the scan
  toList,     \* folders os.walk() has yet to come to
  listed,     \* files of a folder that have yet to be looked at
  seenPaths,
  libEntries, \* entries: libEntries[p], or NoFile
  index,      \* the database: index[p], or NoFile
  staged,     \* staged[n]: the copy of that name
  given,      \* what stage_file() has returned last
  changes, libCalls,
  steady,     \* history: files that were there and readable since the scan began
  settled     \* history: the last scan went to its end, and nothing has changed since it began

walkVars == <<toList, listed, seenPaths, libEntries>>
scanVars == <<libPc, root, walkVars>>
mountVars == <<onMount, unreadable, changes>>
libVars == <<mountVars, scanVars, index, staged, given, libCalls, steady, settled>>

There(p) == onMount[p] # NoFile
Readable(p) == There(p) /\ FolderOf[p] \notin unreadable

(* needs_rescan()                                                          *)
NeedsRescan(p) ==
  \/ index[p] = NoFile
  \/ onMount[p].mtime - index[p].mtime > Tolerance
  \/ index[p].mtime - onMount[p].mtime > Tolerance

-----------------------------------------------------------------------------
Nothing == [p \in LibPaths |-> NoFile]

(* scan() returns, and its variables go.                                   *)
ForgetsWalk == toList' = {} /\ listed' = {} /\ seenPaths' = {} /\ libEntries' = Nothing

ScanRoot(r) ==
  /\ libPc = "idle" /\ libCalls < MaxLibCalls /\ given' = NoFile
  /\ libPc' = "walk" /\ root' = r /\ libCalls' = libCalls + 1
  /\ toList' = r /\ listed' = {} /\ seenPaths' = {} /\ libEntries' = Nothing
  /\ steady' = {p \in LibPaths : FolderOf[p] \in r /\ Readable(p)} /\ settled' = TRUE
  /\ UNCHANGED <<mountVars, index, staged>>

(* A folder that cannot be listed is passed over in silence.               *)
ListFolder(d) ==
  /\ libPc = "walk" /\ listed = {} /\ d \in toList
  /\ toList' = toList \ {d}
  /\ listed' = {p \in LibPaths : FolderOf[p] = d /\ Readable(p)}
  /\ UNCHANGED <<mountVars, libPc, root, seenPaths, libEntries, index, staged, given, libCalls,
                 steady, settled>>

(* a mistake: a file counts as seen when its entry is made anew            *)
CountsNew(p) == Readable(p) /\ onMount[p].size # Tiny /\ NeedsRescan(p)

(* A listed file counts as seen whatever comes of it: gone before the      *)
(* stat, too small to be media, or unchanged.                              *)
Counts(p) == TRUE

LookAt(p) ==
  /\ libPc = "walk" /\ p \in listed /\ listed' = listed \ {p}
  /\ seenPaths' = IF Counts(p) THEN seenPaths \union {p} ELSE seenPaths
  /\ libEntries' = IF Readable(p) /\ onMount[p].size # Tiny /\ NeedsRescan(p)
                   THEN [libEntries EXCEPT ![p] = onMount[p]] ELSE libEntries
  /\ UNCHANGED <<mountVars, libPc, root, toList, index, staged, given, libCalls, steady, settled>>

(* bulk_upsert(): one transaction.                                         *)
Upsert ==
  /\ libPc = "walk" /\ toList = {} /\ listed = {}
  /\ index' = [p \in LibPaths |-> IF libEntries[p] = NoFile THEN index[p] ELSE libEntries[p]]
  /\ libPc' = "remove"
  /\ UNCHANGED <<mountVars, root, walkVars, staged, given, libCalls, steady, settled>>

(* remove_missing(): of the whole index, whatever the root was.            *)
Kept(p) == p \in seenPaths

RemoveMissing ==
  /\ libPc = "remove" /\ libPc' = "idle"
  /\ index' = [p \in LibPaths |-> IF Kept(p) THEN index[p] ELSE NoFile]
  /\ ForgetsWalk
  /\ UNCHANGED <<mountVars, root, staged, given, libCalls, steady, settled>>

(* The server is stopped, or the database refuses.                         *)
ScanDies ==
  /\ libPc # "idle" /\ libPc' = "idle"
  /\ steady' = {} /\ settled' = FALSE /\ root' = {} /\ ForgetsWalk
  /\ UNCHANGED <<mountVars, index, staged, given, libCalls>>

-----------------------------------------------------------------------------
(* stage_file(), for the size the caller has just read                     *)

(* a mistake: what is there is taken for staged                            *)
StagedAtAll(p) == staged[NameOf[p]] # NoFile

AlreadyStaged(p) == staged[NameOf[p]] # NoFile /\ staged[NameOf[p]].size = onMount[p].size

Copy(p, size) == [of |-> p, version |-> onMount[p].version, size |-> size]
Gives(p, copy) ==
  given' = [copy |-> copy, wanted |-> Copy(p, onMount[p].size)]

StageFile(p) ==
  /\ Readable(p) /\ libCalls < MaxLibCalls /\ libCalls' = libCalls + 1
  /\ \/ AlreadyStaged(p) /\ Gives(p, staged[NameOf[p]]) /\ UNCHANGED staged
     \/ /\ ~AlreadyStaged(p)
        /\ staged' = [staged EXCEPT ![NameOf[p]] = Copy(p, onMount[p].size)]
        /\ Gives(p, staged'[NameOf[p]])
     \/ /\ ~AlreadyStaged(p)    \* the copy fails, and what was written of it stays
        /\ \E size \in {n \in MediaSizes \union {Tiny} : n < onMount[p].size} :
              staged' = [staged EXCEPT ![NameOf[p]] = Copy(p, size)]
        /\ UNCHANGED given
  /\ UNCHANGED <<mountVars, scanVars, index, steady, settled>>

-----------------------------------------------------------------------------
(* Others                                                                  *)

Change(p) ==
  /\ changes < MaxChanges /\ changes' = changes + 1
  /\ \/ onMount' = [onMount EXCEPT ![p] = NoFile]
     \/ \E size \in MediaSizes \union {Tiny}, mtime \in {changes, 2 * changes + 2} :
           onMount' = [onMount EXCEPT ![p] =
                         [version |-> changes + 1, size |-> size, mtime |-> mtime]]
  /\ steady' = IF There(p)' THEN steady ELSE steady \ {p}
  /\ settled' = FALSE
  /\ UNCHANGED <<unreadable, scanVars, index, staged, given, libCalls>>

FolderFails(d) ==
  /\ changes < MaxChanges /\ changes' = changes + 1
  /\ unreadable' = IF d \in unreadable THEN unreadable \ {d} ELSE unreadable \union {d}
  /\ steady' = {p \in steady : FolderOf[p] # d} /\ settled' = FALSE
  /\ UNCHANGED <<onMount, scanVars, index, staged, given, libCalls>>

-----------------------------------------------------------------------------
LibInit ==
  /\ onMount \in [LibPaths -> {NoFile} \union [version : {0}, size : MediaSizes, mtime : {0}]]
  /\ unreadable = {} /\ libPc = "idle" /\ root = {} /\ toList = {} /\ listed = {} /\ seenPaths = {}
  /\ libEntries = Nothing /\ index = Nothing
  /\ staged = [n \in LibNames |-> NoFile] /\ given = NoFile
  /\ changes = 0 /\ libCalls = 0 /\ steady = {} /\ settled = FALSE

LibNext ==
  \/ \E r \in LibRoots : ScanRoot(r)
  \/ \E d \in Folders : ListFolder(d) \/ FolderFails(d)
  \/ \E p \in LibPaths : LookAt(p) \/ StageFile(p) \/ Change(p)
  \/ Upsert \/ RemoveMissing \/ ScanDies

LibSpec == LibInit /\ [][LibNext]_libVars

-----------------------------------------------------------------------------
LibFile == [version : Nat, size : MediaSizes \union {Tiny}, mtime : Nat]
LibCopy == [of : LibPaths, version : Nat, size : MediaSizes \union {Tiny}]

LibTypeOK ==
  /\ \A f \in {onMount, index, libEntries} : f \in [LibPaths -> {NoFile} \union LibFile]
  /\ unreadable \subseteq Folders /\ root \subseteq Folders /\ toList \subseteq root
  /\ libPc \in {"idle", "walk", "remove"}
  /\ seenPaths \subseteq LibPaths /\ listed \subseteq LibPaths /\ steady \subseteq LibPaths
  /\ \A n \in LibNames : staged[n] \in {NoFile} \union LibCopy
  /\ given \in {NoFile} \union [copy : LibCopy, wanted : LibCopy]
  /\ settled \in BOOLEAN

(* A scan that ended with nothing changed since it began leaves an index   *)
(* of its root and of nothing else: every file of media size is in it, as  *)
(* it is or as it was within the tolerance, and no file that is gone.      *)
IndexTrue ==
  libPc = "idle" /\ settled => \A p \in LibPaths :
    /\ index[p] # NoFile => Readable(p) /\ FolderOf[p] \in root
    /\ Readable(p) /\ FolderOf[p] \in root /\ onMount[p].size # Tiny =>
         /\ index[p] # NoFile
         /\ \/ index[p] = onMount[p]
            \/ /\ index[p].version # onMount[p].version
               /\ onMount[p].mtime - index[p].mtime \in (-Tolerance)..Tolerance

(* What else changed meanwhile, a scan keeps the entry of a file that was  *)
(* there and readable from its beginning to its end, small, unchanged or   *)
(* rewritten in the meantime.                                              *)
KeepsSteady ==
  [][RemoveMissing => \A p \in steady : index[p] # NoFile => index'[p] # NoFile]_libVars

(* What stage_file() gives is whole: a copy that was cut short is never    *)
(* given for the version it was made of.                                   *)
StagedWhole ==
  given # NoFile /\ given.copy.of = given.wanted.of /\ given.copy.version = given.wanted.version
  => given.copy = given.wanted

LibrarySound == IndexTrue /\ StagedWhole

=============================================================================
