---------------------------- MODULE VmInstances -----------------------------
(***************************************************************************)
(* The named virtual machines of the MCP server: a directory per instance  *)
(* with a disk, an NVRAM file and manifest.json (sgi_mcp/vm_instances.py), *)
(* and the tools that create, migrate, fork, reset, update, snapshot and   *)
(* delete them (sgi_mcp/server.py).  Each tool call runs in a thread of    *)
(* its own, and nothing locks a manifest between load and save.            *)
(*                                                                         *)
(* Disk images are files with numbers, so that a QEMU keeps the file it    *)
(* opened when the name goes away; a fork's disk names its base by path.   *)
(* Descriptions, times and the machine are left out; of the hardware       *)
(* metadata it matters only whether a snapshot has any: all are of this    *)
(* platform.  At most one machine runs on an instance.                     *)
(***************************************************************************)
EXTENDS Integers

CONSTANTS
  Instances, Snapshots, Handlers,
  NoInstance, NoSnapshot,
  MaxDisks, MaxCalls   \* bounds

ASSUME VmConstants ==
  /\ NoInstance \notin Instances /\ NoSnapshot \notin Snapshots
  /\ MaxDisks \in Nat /\ MaxCalls \in Nat

VARIABLES
  directory,  \* the instances whose directory exists
  vmDisk,     \* vmDisk[i]: the number of the file at disk.qcow2, 0 for none
  images,     \* images[f]: the snapshots in the image, and its base
  nvram,      \* nvram[i]: whose settings the file has, NoInstance for none
  vmManifest, \* vmManifest[i]: what manifest.json holds
  running,    \* running[i]: the image that a QEMU started on i has open, or 0
  doubtful,   \* history: instances whose manifest got a snapshot that went
              \* elsewhere or was not seen to end, or a new disk and then no more
  adopted,    \* history: instances that were given somebody's overlay
  recorded,   \* history: recorded[i]: snapshots in the manifest since it was made
  step, op, target, source, patch, loaded,   \* the handlers
  calls, lastDisk

vmFiles == <<directory, vmDisk, images, nvram>>
vmCall  == <<op, target, source, patch>>
vmVars  == <<vmFiles, vmManifest, running, doubtful, adopted, recorded, step, vmCall, loaded, calls, lastDisk>>

(* A snapshot that is not one of add_snapshot()'s has no metadata.         *)
NewManifest(snaps, backing) ==
  [state |-> "whole", snaps |-> snaps, bare |-> snaps, default |-> NoSnapshot, backing |-> backing]
Missing == [NewManifest({}, NoInstance) EXCEPT !.state = "missing"]
Garbage == [Missing EXCEPT !.state = "garbage"]      \* not JSON

NoImage == [snaps |-> {}, base |-> NoInstance]
Plain(snaps) == [NoImage EXCEPT !.snaps = snaps]
Overlay(i)   == [NoImage EXCEPT !.base = i]

Ops == {"create", "migrate", "fork", "reset", "update", "snapshot"}

VmTypeOK ==
  /\ directory \subseteq Instances
  /\ vmDisk \in [Instances -> 0..MaxDisks] /\ running \in [Instances -> 0..MaxDisks]
  /\ images \in [1..MaxDisks -> [snaps : SUBSET Snapshots,
                                 base : Instances \cup {NoInstance}]]
  /\ nvram \in [Instances -> Instances \cup {NoInstance}]
  /\ \A m \in {vmManifest[i] : i \in Instances} \cup {loaded[h] : h \in Handlers} :
       m \in [state : {"missing", "garbage", "whole"}, snaps : SUBSET Snapshots,
              bare : SUBSET Snapshots, default : Snapshots \cup {NoSnapshot}, backing : Instances \cup {NoInstance}]
  /\ doubtful \subseteq Instances /\ adopted \subseteq Instances /\ recorded \in [Instances -> SUBSET Snapshots]
  /\ step \in [Handlers -> {"idle", "begin", "load", "thin", "truncate", "write"}]
  /\ calls \in 0..MaxCalls /\ lastDisk \in 0..MaxDisks
  /\ \A i \in Instances : vmDisk[i] # 0 => i \in directory

VmInit ==
  /\ directory = {} /\ vmDisk = [i \in Instances |-> 0]
  /\ images = [f \in 1..MaxDisks |-> NoImage]
  /\ nvram = [i \in Instances |-> NoInstance]
  /\ vmManifest = [i \in Instances |-> Missing]
  /\ running = vmDisk /\ doubtful = {} /\ adopted = {} /\ recorded = [i \in Instances |-> {}]
  /\ step = [h \in Handlers |-> "idle"]
  /\ op = [h \in Handlers |-> "create"]
  /\ target = [h \in Handlers |-> NoInstance] /\ source = target
  /\ patch = [h \in Handlers |-> NoSnapshot]
  /\ loaded = [h \in Handlers |-> Missing]
  /\ calls = 0 /\ lastDisk = 0

-----------------------------------------------------------------------------
(* Steps of a handler *)

At(h, s, o) == step[h] = s /\ op[h] \in o
Goto(h, s)  == step' = [step EXCEPT ![h] = s]
Return(h)   == Goto(h, "idle") /\ loaded' = [loaded EXCEPT ![h] = Missing]

(* A call of a tool.  A snapshot is taken, or written over, in the image   *)
(* that the session's QEMU has open; the instance whose manifest is to     *)
(* list it is an argument of its own, or none.                             *)
SaveVm(i, j, snap) ==
  /\ running[j] # 0
  /\ \/ /\ images' = [images EXCEPT ![running[j]].snaps = @ \cup {snap}]
        /\ doubtful' = IF i \in Instances /\ running[j] # vmDisk[i] THEN doubtful \cup {i} ELSE doubtful
     \/ /\ doubtful' = doubtful \cup ({i} \cap Instances)   \* no prompt for 5 s
        /\ UNCHANGED images

FirstStep(o, i) ==
  CASE o \in {"create", "migrate"} -> "begin" [] i = NoInstance -> "idle" [] OTHER -> "load"

VmCall(h, o, i, s, snap) ==
  /\ step[h] = "idle" /\ calls < MaxCalls
  /\ calls' = calls + 1
  /\ op' = [op EXCEPT ![h] = o] /\ target' = [target EXCEPT ![h] = i]
  /\ source' = [source EXCEPT ![h] = s] /\ patch' = [patch EXCEPT ![h] = snap]
  /\ step' = [step EXCEPT ![h] = FirstStep(o, i)]
  /\ IF o = "snapshot" THEN \E j \in Instances : SaveVm(i, j, snap)
                       ELSE UNCHANGED <<images, doubtful>>
  /\ UNCHANGED <<directory, vmDisk, nvram, vmManifest, running, adopted, recorded, loaded, lastDisk>>

VmBegin(h) ==
  \E i, s \in Instances \cup {NoInstance}, o \in Ops, snap \in Snapshots \cup {NoSnapshot} :
    /\ i = NoInstance => o = "snapshot"
    /\ (s # NoInstance) = (o = "fork")
    /\ o = "snapshot" => snap # NoSnapshot
    /\ o \in {"fork", "reset"} => snap = NoSnapshot
    /\ VmCall(h, o, i, s, snap)

(* A new image at i's path, under a new file number.                       *)
NewImage(i, image) ==
  /\ lastDisk < MaxDisks
  /\ lastDisk' = lastDisk + 1
  /\ vmDisk' = [vmDisk EXCEPT ![i] = lastDisk']
  /\ images' = [images EXCEPT ![lastDisk'] = image]

(* The disk of another instance is a disk to migrate like any other.       *)
Move(j, i) ==
  /\ j # i /\ vmDisk[j] # 0
  /\ vmDisk' = [vmDisk EXCEPT ![i] = vmDisk[j], ![j] = 0]
  /\ UNCHANGED <<images, lastDisk>>

(* create_instance() and migrate_existing() keep a disk that is there; the *)
(* one that is migrated may hold snapshots, and be an overlay if a fork    *)
(* made it.                                                                *)
DiskMade(h) ==
  LET i == target[h] IN
  IF vmDisk[i] # 0 THEN UNCHANGED <<vmDisk, images, lastDisk, adopted>>
  ELSE \/ op[h] = "create" /\ NewImage(i, Plain({})) /\ UNCHANGED adopted
       \/ /\ op[h] = "migrate"
          /\ \/ \E snaps \in SUBSET Snapshots : NewImage(i, Plain(snaps))
             \/ \E j \in Instances : Move(j, i)
          /\ adopted' = IF images'[vmDisk'[i]].base = NoInstance THEN adopted ELSE adopted \cup {i}

(* The manifest of a migrated disk lists the snapshots that qemu-img finds *)
(* on it, if it can look.                                                  *)
MakeDisk(h) ==
  LET i == target[h] IN
  /\ At(h, "begin", {"create", "migrate"})
  /\ directory' = directory \cup {i}
  /\ DiskMade(h)
  /\ nvram' = [nvram EXCEPT ![i] = IF @ = NoInstance \/ op[h] = "migrate" THEN i ELSE @]
  /\ \E found \in {{}, images'[vmDisk'[i]].snaps} :
       /\ op[h] = "create" => found = {}
       /\ loaded' = [loaded EXCEPT ![h] = NewManifest(found, NoInstance)]
  /\ Goto(h, "truncate")
  /\ UNCHANGED <<vmManifest, running, doubtful, recorded, vmCall, calls>>

(* An exception, before the disk is there or after it.                     *)
MakeDiskFails(h) ==
  LET i == target[h] IN
  /\ At(h, "begin", {"create", "migrate"})
  /\ directory' = directory \cup {i}
  /\ \/ UNCHANGED <<vmDisk, images, lastDisk, adopted, doubtful>>
     \/ DiskMade(h) /\ doubtful' = IF vmDisk[i] = 0 THEN doubtful \cup {i} ELSE doubtful
  /\ Return(h)
  /\ UNCHANGED <<nvram, vmManifest, running, recorded, vmCall, calls>>

(* load_manifest(): a file that is not JSON is an exception, and so an     *)
(* error to the caller; what each handler refuses follows.                 *)
ReadBy(h) == vmManifest[IF op[h] = "fork" THEN source[h] ELSE target[h]]
NoBase(h) == images[vmDisk[target[h]]].base = NoInstance

RefusedOverThere(h) ==                                        \* a mistake
  \/ ReadBy(h).state # "whole"
  \/ op[h] = "fork" /\ vmDisk[source[h]] = 0
  \/ op[h] = "reset" /\ (vmDisk[target[h]] = 0 \/ NoBase(h))
Refused(h) ==
  \/ ReadBy(h).state # "whole"
  \/ op[h] = "fork" /\ (vmDisk[source[h]] = 0 \/ target[h] \in directory)
  \/ op[h] = "reset" /\ (vmDisk[target[h]] = 0 \/ NoBase(h))

Made(h) == {i \in {target[h]} : op[h] = "fork" /\ ~Refused(h)}

Load(h) ==
  /\ At(h, "load", Ops)
  /\ IF Refused(h) THEN Return(h)
     ELSE /\ loaded' = [loaded EXCEPT ![h] = ReadBy(h)]
          /\ Goto(h, IF op[h] \in {"fork", "reset"} THEN "thin" ELSE "truncate")
  /\ directory' = directory \cup Made(h)
  /\ UNCHANGED <<vmDisk, images, nvram, vmManifest, running, doubtful, adopted, recorded, vmCall, calls, lastDisk>>

(* qemu-img opens the base, and with it the base's bases: what it opens is *)
(* the least set that has every disk with no base or with a base in it.    *)
Opens(S) ==
  {j \in Instances : vmDisk[j] # 0 /\ images[vmDisk[j]].base \in S \cup {NoInstance}}
Openable(i) == \A S \in SUBSET Instances : Opens(S) \subseteq S => i \in S

ForkManifest(h)  == NewManifest({}, source[h])
BaseOf(h) == IF op[h] = "fork" THEN source[h] ELSE images[vmDisk[target[h]]].base
CopyNvram(h) ==
  LET from == IF op[h] = "fork" THEN source[h] ELSE loaded[h].backing
  IN  nvram' = [nvram EXCEPT ![target[h]] =
                  IF from # NoInstance /\ nvram[from] # NoInstance THEN nvram[from] ELSE @]

Thin(h) ==
  LET i == target[h]
  IN  /\ At(h, "thin", {"fork", "reset"})
      /\ op[h] = "reset" => vmDisk[i] # 0
      /\ Openable(BaseOf(h))
      /\ CopyNvram(h)
      /\ loaded' = [loaded EXCEPT ![h] =
                      IF op[h] = "fork" THEN ForkManifest(h)
                      ELSE [@ EXCEPT !.snaps = {}, !.bare = {}, !.default = NoSnapshot]]
      /\ NewImage(i, Overlay(BaseOf(h)))
      /\ Goto(h, "truncate")
      /\ UNCHANGED <<directory, vmManifest, running, doubtful, adopted, recorded, vmCall, calls>>

(* qemu-img fails, or anything raises.  A fork whose image cannot be made  *)
(* is removed, but an exception leaves its directory, with the image if    *)
(* the NVRAM could not be copied; a reset may have deleted its disk.       *)
ThinFails(h) ==
  LET i == target[h] IN
  /\ At(h, "thin", {"fork", "reset"})
  /\ \/ /\ op[h] = "fork" /\ directory' = directory \ {i}
        /\ UNCHANGED <<vmDisk, images, nvram, lastDisk>>
     \/ /\ op[h] = "fork" /\ Openable(BaseOf(h)) /\ NewImage(i, Overlay(BaseOf(h)))
        /\ UNCHANGED <<directory, nvram>>
     \/ /\ op[h] = "reset" /\ CopyNvram(h) /\ vmDisk' = [vmDisk EXCEPT ![i] = 0]
        /\ UNCHANGED <<directory, images, lastDisk>>
     \/ UNCHANGED <<vmFiles, lastDisk>>
  /\ Return(h)
  /\ UNCHANGED <<vmManifest, running, doubtful, adopted, recorded, vmCall, calls>>

(* save_manifest(): open(..., "w") empties the file, then it is written.   *)
Truncate(h) ==
  /\ At(h, "truncate", Ops)
  /\ directory' = directory \cup {target[h]}
  /\ vmManifest' = [vmManifest EXCEPT ![target[h]] = Garbage]
  /\ Goto(h, "write")
  /\ UNCHANGED <<vmDisk, images, nvram, running, doubtful, adopted, recorded, vmCall, loaded, calls, lastDisk>>

(* What each handler makes of the manifest it loaded.                      *)
PatchedAnew(h) ==                                             \* a mistake
  IF op[h] = "snapshot" THEN [loaded[h] EXCEPT !.snaps = @ \cup {patch[h]}]
  ELSE [NewManifest({}, loaded[h].backing) EXCEPT !.default = patch[h]]
Patched(h) ==
  CASE op[h] = "update"   -> [loaded[h] EXCEPT !.default = patch[h]]
    [] op[h] = "snapshot" -> [loaded[h] EXCEPT !.snaps = @ \cup {patch[h]}, !.bare = @ \ {patch[h]}]
    [] OTHER              -> loaded[h]

(* Two handlers that had the file open together may leave the end of the   *)
(* longer text after the shorter one; a directory that was deleted has     *)
(* taken the open file with it.  Launch defaults given to a create or a    *)
(* migrate are patched in afterwards.                                      *)
Write(h) ==
  LET i == target[h]
      more == op[h] \in {"create", "migrate"} /\ patch[h] # NoSnapshot
  IN  /\ At(h, "write", Ops)
      /\ \/ vmManifest' = [vmManifest EXCEPT ![i] =
                            IF vmManifest[i].state = "missing" THEN @ ELSE Patched(h)]
         \/ vmManifest[i].state = "whole" /\ vmManifest' = [vmManifest EXCEPT ![i] = Garbage]
      /\ recorded' = [recorded EXCEPT ![i] =
                        CASE op[h] = "snapshot" -> @ \cup {patch[h]}
                          [] op[h] = "update"   -> @
                          [] OTHER              -> {}]
      /\ IF more THEN Goto(h, "load") /\ op' = [op EXCEPT ![h] = "update"] /\ UNCHANGED loaded
                 ELSE Return(h) /\ UNCHANGED op
      /\ UNCHANGED <<vmFiles, running, doubtful, adopted, target, source, patch, calls, lastDisk>>

(* delete_instance(): rmtree, whether or not a machine is running on it.   *)
Delete(h, i) ==
  /\ step[h] = "idle" /\ calls < MaxCalls /\ i \in directory
  /\ calls' = calls + 1
  /\ directory' = directory \ {i}
  /\ vmDisk' = [vmDisk EXCEPT ![i] = 0] /\ nvram' = [nvram EXCEPT ![i] = NoInstance]
  /\ vmManifest' = [vmManifest EXCEPT ![i] = Missing]
  /\ doubtful' = doubtful \ {i} /\ adopted' = adopted \ {i}
  /\ recorded' = [recorded EXCEPT ![i] = {}]
  /\ UNCHANGED <<images, running, step, vmCall, loaded, lastDisk>>

-----------------------------------------------------------------------------
(* Machines.  qemu_session_start: the snapshot asked for, or the default   *)
(* one, must be in the manifest, with metadata; QEMU itself wants the      *)
(* snapshot and the base to be there.                                      *)
SessionStart(h, i, snap) ==
  LET m == vmManifest[i]
      wanted == IF snap # NoSnapshot \/ m.state # "whole" THEN snap ELSE m.default
      image == images[vmDisk[i]]
  IN  /\ step[h] = "idle" /\ running[i] = 0 /\ vmDisk[i] # 0 /\ m.state # "garbage"
      /\ wanted # NoSnapshot /\ m.state = "whole" => wanted \in m.snaps \ m.bare
      /\ wanted # NoSnapshot => wanted \in image.snaps
      /\ Openable(i)
      /\ running' = [running EXCEPT ![i] = vmDisk[i]]
      /\ UNCHANGED <<vmFiles, vmManifest, doubtful, adopted, recorded, step, vmCall, loaded, calls, lastDisk>>

Stop(i) ==
  /\ running[i] # 0
  /\ running' = [running EXCEPT ![i] = 0]
  /\ UNCHANGED <<vmFiles, vmManifest, doubtful, adopted, recorded, step, vmCall, loaded, calls, lastDisk>>

VmNext ==
  \/ \E h \in Handlers :
       \/ VmBegin(h) \/ MakeDisk(h) \/ MakeDiskFails(h) \/ Load(h) \/ Thin(h) \/ ThinFails(h)
       \/ Truncate(h) \/ Write(h)
       \/ \E i \in Instances : \/ Delete(h, i)
                               \/ \E snap \in Snapshots \cup {NoSnapshot} : SessionStart(h, i, snap)
  \/ \E i \in Instances : Stop(i)

VmSpec == VmInit /\ [][VmNext]_vmVars

-----------------------------------------------------------------------------
(* Safety.                                                                 *)

(* Between calls, a snapshot that the manifest lists can be loaded: the    *)
(* disk has it, unless the manifest was told of a snapshot that a session  *)
(* took on another disk (its own, deleted or moved since, among them), a   *)
(* savevm was not seen to end, or a call failed after it had made a disk.  *)
Between == \A h \in Handlers : step[h] = "idle"
ListedIsThere ==
  Between => \A i \in Instances \ doubtful :
    vmManifest[i].state = "whole" /\ vmDisk[i] # 0 => vmManifest[i].snaps \subseteq images[vmDisk[i]].snaps

(* No disk is its own base: what keeps the chain of a fork of a fork from  *)
(* closing, when names are deleted and used again, is that a fork refuses  *)
(* a name that is taken and that qemu-img opens the whole chain.  Only an  *)
(* overlay that was migrated can close one: nobody looks at its base.      *)
ChainsEnd ==
  LET bases == {<<i, images[vmDisk[i]].base>> : i \in {j \in Instances : vmDisk[j] # 0}}
  IN  \A S \in (SUBSET (Instances \ adopted)) \ {{}} : \E i \in S : \A j \in S : <<i, j>> \notin bases

(* Between calls, a fork's manifest names the instance whose disk is under *)
(* it: what vm_instance_reset takes the NVRAM from is what it takes the    *)
(* disk from, unless a call failed after it had made a disk.               *)
BackingKnown ==
  \A i \in Instances \ doubtful :
    Between /\ vmManifest[i].backing # NoInstance /\ vmDisk[i] # 0 =>
      images[vmDisk[i]].base = vmManifest[i].backing

(* A snapshot that was recorded stays so until its manifest is made anew:  *)
(* update_defaults() is to "patch just the launch-defaults fields".        *)
RecordedStays ==
  \A i \in Instances : vmManifest[i].state = "whole" => recorded[i] \subseteq vmManifest[i].snaps

(* What a manifest says of its disk is so: the snapshots it lists, the     *)
(* instance under it, and nothing forgotten.                               *)
ManifestsTrue == ListedIsThere /\ BackingKnown /\ RecordedStays

(* Manifests and disks fit together.                                       *)
InstancesSound == ManifestsTrue /\ ChainsEnd
=============================================================================
