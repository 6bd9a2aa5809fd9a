---------------------------- MODULE Orchestrator ----------------------------
(***************************************************************************)
(* The install orchestrator, pyirix_qemu/install_v2: install() walks the   *)
(* phases prepare, install, verify and addon, saves the context to         *)
(* state.json after each of them, resumes from that file, and promotes a   *)
(* disk that passed the completeness check to the gold image.  The process *)
(* can be killed at any of its steps, and is run again, afresh or resumed. *)
(*                                                                         *)
(* A disk is the set of its defects: manifest entries it lacks, "broken"   *)
(* when it holds no readable file system (blank, half installed, a torn    *)
(* copy), "absent" when there is no such file.  Both profiles of the       *)
(* repository name a manifest and an output disk.                          *)
(***************************************************************************)
EXTENDS Integers, Sequences

CONSTANTS
  Entries,   \* what a manifest may require
  Mode,      \* "instance": --instance is given; "disk": --disk only; "bare": neither
  SkipSets,  \* the values of --skip-phase
  MaxKills,  \* bound: kills
  MaxRuns,   \* bound: runs of install()
  MaxFresh   \* bound: those of them that do not resume

PHASE_ORDER == <<"prepare", "install", "verify", "addon">>
Phases == {"prepare", "install", "verify", "addon"}

ASSUME OrchestratorConstants ==
  /\ {"broken", "absent"} \cap Entries = {}
  /\ SkipSets \subseteq SUBSET Phases
  /\ Mode \in {"instance", "disk", "bare"}
  /\ {MaxKills, MaxRuns, MaxFresh} \subseteq Nat

Disks  == {"work", "default", "gold"}   \* instance or --disk; VERSIONS; output_disk
NoPath == "none"

VARIABLES
  disk,      \* disk[d]: defects of each disk and of the backup of the gold image
  manifest,  \* the entries the manifest requires; fixed
  \* ---- state.json ----
  sfile,     \* "none", "torn" by a kill while it was written, or "ok"
  saved,     \* its content: completed phases, verdict, gaps, disk path
  \* ---- the running process ----
  pc, k, skip,
  done,      \* ctx.completed_phases
  verdict,   \* ctx.findings["verify"]: "none", "passed" or "failed"
  gaps,      \* its required_failures
  path,      \* ctx.disk_path
  raised,    \* an exception is on its way through finally
  exit,      \* how the last run ended
  \* ---- ghost and bounds ----
  wrote,     \* the disk the install phase wrote
  hadGold,   \* there was a complete gold image at some time
  torn,      \* promotions cut short since the last that came to its end
  runs, fresh, kills

fileVars == <<sfile, saved>>
ctxVars  == <<done, verdict, gaps, path>>
runVars  == <<k, skip, raised, exit>>
boundVars == <<runs, fresh, kills>>
ghostVars == <<hadGold, torn>>
vars == <<disk, manifest, fileVars, pc, ctxVars, runVars, wrote, ghostVars, boundVars>>

Absent == {"absent"}
Broken == {"broken"}
Readable(d) == disk[d] \subseteq Entries
Complete(d) == disk[d] \subseteq Entries /\ disk[d] \cap manifest = {}

PCs == {"idle", "loop", "creating", "installing", "adding", "reverify", "save",
        "finally", "promote", "copying"}

TypeOK ==
  /\ disk \in [Disks \cup {"prev"} -> (SUBSET Entries) \cup {Absent, Broken}]
  /\ manifest \subseteq Entries
  /\ sfile \in {"none", "torn", "ok"}
  /\ saved \in [done : SUBSET Phases, verdict : {"none", "passed", "failed"},
                gaps : SUBSET Entries, path : Disks \cup {NoPath}]
  /\ pc \in PCs /\ k \in 1 .. Len(PHASE_ORDER) + 1 /\ skip \subseteq Phases
  /\ done \subseteq Phases /\ verdict \in {"none", "passed", "failed"}
  /\ gaps \subseteq Entries /\ path \in Disks \cup {NoPath}
  /\ raised \in BOOLEAN /\ exit \in {"none", "complete", "incomplete", "raised", "killed"}
  /\ wrote \in Disks \cup {NoPath} /\ hadGold \in BOOLEAN /\ torn \in Nat
  /\ runs \in Nat /\ fresh \in Nat /\ kills \in Nat

Init ==
  /\ disk \in [Disks \cup {"prev"} -> {Absent, {}, Broken}]
  /\ disk["prev"] = Absent /\ disk["gold"] # Broken
  /\ manifest \in SUBSET Entries
  /\ sfile = "none"
  /\ saved = [done |-> {}, verdict |-> "none", gaps |-> {}, path |-> NoPath]
  /\ pc = "idle" /\ k = 1 /\ skip = {}
  /\ done = {} /\ verdict = "none" /\ gaps = {} /\ path = NoPath
  /\ raised = FALSE /\ exit = "none"
  /\ wrote = NoPath /\ hadGold = (disk["gold"] = {}) /\ torn = 0
  /\ runs = 0 /\ fresh = 0 /\ kills = 0

-----------------------------------------------------------------------------
(* Plausible mistakes, each a wrong form of an operator below; the         *)
(* properties reject every one of them.                                    *)
PromotesChecked     == "verify" \in done
VerifiesDefault     == "default"
NoBackup            == disk["prev"]

-----------------------------------------------------------------------------
(* Starting a run.                                                         *)

Start(s) ==
  /\ pc = "idle" /\ runs < MaxRuns
  /\ runs' = runs + 1 /\ pc' = "loop" /\ k' = 1 /\ skip' = s
  /\ raised' = FALSE /\ exit' = "none"
  /\ UNCHANGED <<disk, manifest, fileVars, ghostVars, kills>>

(* A new context; an old state.json stays where it is.                     *)
Fresh(s) ==
  /\ fresh < MaxFresh
  /\ fresh' = fresh + 1
  /\ Start(s)
  /\ done' = {} /\ verdict' = "none" /\ gaps' = {}
  /\ path' = IF Mode = "disk" THEN "work" ELSE NoPath
  /\ wrote' = NoPath

(* The saved context, with the profile read anew.                          *)
Resume(s) ==
  /\ sfile = "ok"
  /\ Start(s)
  /\ done' = saved.done /\ verdict' = saved.verdict /\ gaps' = saved.gaps
  /\ path' = saved.path
  /\ UNCHANGED <<wrote, fresh>>

-----------------------------------------------------------------------------
(* The loop over the phases.                                               *)

Due(phase) ==
  /\ pc = "loop" /\ k <= Len(PHASE_ORDER)
  /\ PHASE_ORDER[k] = phase
  /\ phase \notin done /\ phase \notin skip

SkipPhase ==
  /\ pc = "loop" /\ k <= Len(PHASE_ORDER)
  /\ PHASE_ORDER[k] \in done \cup skip
  /\ k' = k + 1
  /\ UNCHANGED <<disk, manifest, fileVars, pc, ctxVars, skip, raised, exit, wrote, ghostVars, boundVars>>

EndOfPhases ==
  /\ pc = "loop" /\ k > Len(PHASE_ORDER)
  /\ pc' = "finally"
  /\ UNCHANGED <<disk, manifest, fileVars, ctxVars, runVars, wrote, ghostVars, boundVars>>

(* The phase raises: straight to finally.                                  *)
Raise ==
  /\ pc' = "finally" /\ raised' = TRUE
  /\ UNCHANGED <<k, skip, exit>>

PhaseDone(phase) ==
  /\ pc' = "save" /\ done' = done \cup {phase}
  /\ UNCHANGED runVars

(* prepare: with an instance the disk is the instance's own.               *)
PreparePath ==
  IF Mode = "instance" THEN "work" ELSE IF path # NoPath THEN path ELSE "gold"

(* The existing image is removed, then a blank one is created.             *)
PrepareRemove ==
  /\ Due("prepare")
  /\ pc' = "creating"
  /\ path' = PreparePath
  /\ disk' = [disk EXCEPT ![PreparePath] = Absent]
  /\ UNCHANGED <<manifest, fileVars, done, verdict, gaps, runVars, wrote, ghostVars, boundVars>>

PrepareCreate ==
  /\ pc = "creating"
  /\ \/ PhaseDone("prepare") /\ disk' = [disk EXCEPT ![path] = Broken]
     \/ Raise /\ UNCHANGED <<disk, done>>      \* qemu-img fails
  /\ UNCHANGED <<manifest, fileVars, verdict, gaps, path, wrote, ghostVars, boundVars>>

(* install: install_irix() starts over on a new image of its own.          *)
InstallPath == IF path = NoPath THEN "default" ELSE path

InstallBegin ==
  /\ Due("install")
  /\ pc' = "installing"
  /\ wrote' = InstallPath
  /\ disk' = [disk EXCEPT ![InstallPath] = Broken]
  /\ UNCHANGED <<manifest, fileVars, ctxVars, runVars, ghostVars, boundVars>>

(* Where install.run() says the disk is.                                   *)
ResultPath == IF Mode = "instance" THEN "work" ELSE "default"

(* The standard preset leaves some of the entries uninstalled; the boot    *)
(* that ends install_irix() may fail on a disk that is complete.           *)
InstallEnd ==
  /\ pc = "installing"
  /\ \/ /\ PhaseDone("install") /\ path' = ResultPath
        /\ \E m \in SUBSET Entries : disk' = [disk EXCEPT ![wrote] = m]
     \/ /\ Raise /\ UNCHANGED <<done, path>>
        /\ \E m \in (SUBSET Entries) \cup {Broken} : disk' = [disk EXCEPT ![wrote] = m]
  /\ UNCHANGED <<manifest, fileVars, verdict, gaps, wrote, ghostVars, boundVars>>

CanCheck(d)  == d # NoPath /\ Readable(d)
VerifiedDisk == path

(* The completeness check of the disk at d; it raises if there is no file  *)
(* system to look at, or its copy to a raw image fails.                    *)
Check(d) ==
  \/ /\ CanCheck(d)
     /\ PhaseDone("verify")
     /\ gaps' = disk[d] \cap manifest
     /\ verdict' = IF disk[d] \cap manifest = {} THEN "passed" ELSE "failed"
  \/ Raise /\ UNCHANGED <<done, verdict, gaps>>

Verify ==
  /\ Due("verify")
  /\ Check(VerifiedDisk)
  /\ UNCHANGED <<disk, manifest, fileVars, path, wrote, ghostVars, boundVars>>

(* addon: nothing to do, or no package known for any gap, or no image.     *)
AddonNothing ==
  /\ Due("addon")
  /\ PhaseDone("addon")
  /\ UNCHANGED <<disk, manifest, fileVars, verdict, gaps, path, wrote, ghostVars, boundVars>>

(* install_addon() boots the installed disk and changes it in place.       *)
AddonBegin ==
  /\ Due("addon") /\ verdict # "passed" /\ gaps # {}
  /\ pc' = "adding"
  /\ UNCHANGED <<disk, manifest, fileVars, ctxVars, runVars, wrote, ghostVars, boundVars>>

(* What is left of the disk when install_addon() does not come to its end. *)
HalfAdded == {disk, [disk EXCEPT ![path] = Broken]}

(* Once packages were added the old verdict no longer counts.              *)
NoLongerVerified(d) == d \ {"verify"}

AddonEnd ==
  /\ pc = "adding"
  /\ \/ /\ Readable(path)
        /\ pc' = "reverify"
        /\ \E closed \in SUBSET gaps : disk' = [disk EXCEPT ![path] = @ \ closed]
        /\ done' = NoLongerVerified(done \cup {"addon"})
        /\ verdict' = "none" /\ gaps' = {}
        /\ UNCHANGED runVars
     \/ Raise /\ disk' \in HalfAdded /\ UNCHANGED <<done, verdict, gaps>>
  /\ UNCHANGED <<manifest, fileVars, path, wrote, ghostVars, boundVars>>

ReVerify ==
  /\ pc = "reverify"
  /\ Check(VerifiedDisk)
  /\ UNCHANGED <<disk, manifest, fileVars, path, wrote, ghostVars, boundVars>>

-----------------------------------------------------------------------------
(* state.json and the end of a run.                                        *)

WriteState ==
  /\ sfile' = "ok"
  /\ saved' = [done |-> done, verdict |-> verdict, gaps |-> gaps, path |-> path]

Save ==
  /\ pc = "save"
  /\ WriteState
  /\ pc' = "loop" /\ k' = k + 1
  /\ UNCHANGED <<disk, manifest, ctxVars, skip, raised, exit, wrote, ghostVars, boundVars>>

Finally ==
  /\ pc = "finally"
  /\ WriteState
  /\ IF raised THEN pc' = "idle" /\ exit' = "raised" ELSE pc' = "promote" /\ UNCHANGED exit
  /\ UNCHANGED <<disk, manifest, ctxVars, k, skip, raised, wrote, ghostVars, boundVars>>

Passed == verdict = "passed"
Outcome == IF verdict = "passed" THEN "complete" ELSE "incomplete"

(* No promotion: the check did not pass, or the source is gone.            *)
NoPromotion ==
  /\ pc = "promote"
  /\ Passed => path = NoPath \/ disk[path] = Absent
  /\ pc' = "idle" /\ exit' = Outcome
  /\ UNCHANGED <<disk, manifest, fileVars, ctxVars, k, skip, raised, wrote, ghostVars, boundVars>>

Backup == IF disk["gold"] = Absent THEN disk["prev"] ELSE disk["gold"]

(* An existing gold image is renamed to .prev, then the copy begins.       *)
PromoteBegin ==
  /\ pc = "promote" /\ Passed /\ path # NoPath /\ disk[path] # Absent
  /\ pc' = "copying"
  /\ disk' = [disk EXCEPT !["prev"] = Backup, !["gold"] = Broken]
  /\ UNCHANGED <<manifest, fileVars, ctxVars, runVars, wrote, ghostVars, boundVars>>

PromoteEnd ==
  /\ pc = "copying"
  /\ disk' = [disk EXCEPT !["gold"] = disk[path]]
  /\ hadGold' = (hadGold \/ Complete(path)) /\ torn' = 0
  /\ pc' = "idle" /\ exit' = Outcome
  /\ UNCHANGED <<manifest, fileVars, ctxVars, k, skip, raised, wrote, boundVars>>

(* What a copy leaves that is cut short: no image, the beginning of one,   *)
(* or the whole of it, without its times or a word of it in the log.       *)
CutShort ==
  \E left \in {Absent, Broken, disk[path]} :
    /\ disk' = [disk EXCEPT !["gold"] = left]
    /\ hadGold' = (hadGold \/ (left = disk[path] /\ Complete(path)))
    /\ torn' = torn + 1

-----------------------------------------------------------------------------
(* What goes wrong on the host.                                            *)

(* mkdir() or move() raises, or copy2() does, the disk being full for one: *)
(* nothing catches it, and nothing is put back.                            *)
PromoteFails ==
  /\ \/ /\ pc = "promote" /\ Passed /\ path # NoPath /\ disk[path] # Absent
        /\ UNCHANGED <<disk, ghostVars>>
     \/ pc = "copying" /\ CutShort
  /\ pc' = "idle" /\ exit' = "raised"
  /\ UNCHANGED <<manifest, fileVars, ctxVars, k, skip, raised, wrote, boundVars>>

(* state.json cannot be opened, or cannot be written once it is empty.     *)
SaveFails ==
  /\ sfile' \in {sfile, "torn"}
  /\ \/ pc = "save" /\ Raise
     \/ pc = "finally" /\ pc' = "idle" /\ exit' = "raised" /\ UNCHANGED <<k, skip, raised>>
  /\ UNCHANGED <<disk, manifest, saved, ctxVars, wrote, ghostVars, boundVars>>

(* The process is killed; while it writes state.json the file is torn.     *)
Kill ==
  /\ pc # "idle" /\ kills < MaxKills
  /\ kills' = kills + 1
  /\ pc' = "idle" /\ exit' = "killed"
  /\ sfile' \in IF pc \in {"save", "finally"} THEN {sfile, "torn"} ELSE {sfile}
  /\ \/ pc = "copying" /\ CutShort
     \/ pc = "adding" /\ disk' \in HalfAdded /\ UNCHANGED ghostVars
     \/ pc \notin {"copying", "adding"} /\ UNCHANGED <<disk, ghostVars>>
  /\ UNCHANGED <<manifest, saved, ctxVars, k, skip, raised, wrote, runs, fresh>>

Next ==
  \/ \E s \in SkipSets : Fresh(s) \/ Resume(s)
  \/ SkipPhase \/ EndOfPhases
  \/ PrepareRemove \/ PrepareCreate
  \/ InstallBegin \/ InstallEnd
  \/ Verify
  \/ AddonNothing \/ AddonBegin \/ AddonEnd \/ ReVerify
  \/ Save \/ Finally
  \/ NoPromotion \/ PromoteBegin \/ PromoteEnd
  \/ PromoteFails \/ SaveFails
  \/ Kill

Spec == Init /\ [][Next]_vars

-----------------------------------------------------------------------------
(* Properties.                                                             *)

(* Only a disk without a gap becomes the gold image ("gates success on the *)
(* completeness verifier", orchestrator.py lines 3-4), however many runs,  *)
(* failures and resumes led to the promotion.                              *)
PromotesComplete ==
  [][pc = "copying" /\ pc' = "idle" /\ exit' \notin {"killed", "raised"} =>
       disk'["gold"] \subseteq Entries /\ disk'["gold"] \cap manifest = {}]_vars

(* A saved verdict speaks of the disk as it is: state.json never says      *)
(* passed while the disk it names has a gap, so that a resume may trust it *)
(* and leave out the verify phase (orchestrator.py lines 84-86).           *)
SavedVerdictHolds ==
  pc = "idle" /\ sfile = "ok" /\ saved.verdict = "passed" =>
    saved.path # NoPath /\ Complete(saved.path)

(* INSTALL COMPLETE is reported only when there is a complete gold image   *)
(* (orchestrator.py lines 108-110 and 198-200).                            *)
ReportedIsThere == pc = "idle" /\ exit = "complete" => Complete("gold")

(* Once there has been a complete gold image, there is one, or its backup, *)
(* or a promotion under way whose source is complete (_promote_to_gold):   *)
(* unless two promotions in a row were cut short, by a kill or by a copy   *)
(* that raises, when the torn image of the first has replaced the backup.  *)
BackupKept ==
  hadGold /\ torn < 2 =>
    \/ Complete("gold")
    \/ Complete("prev")
    \/ pc = "copying" /\ Complete(path)

(* The verdict is about the disk the install phase wrote: install.run()    *)
(* records where the installer put the system (install.py lines 86-94).    *)
InstalledIsVerified ==
  verdict # "none" /\ wrote # NoPath => path = wrote

(* A run that ends by itself has a verdict, unless verify was skipped on   *)
(* request: neither a failed check nor a resume loses it between addon's   *)
(* reset (addon.py lines 174-175) and the new check.                       *)
VerdictAtTheEnd ==
  pc = "promote" => verdict # "none" \/ "verify" \in skip

(* A verdict holds: of the disk it was given on, of the disk that the      *)
(* install phase wrote, and until the run that has it ends.                *)
VerdictHolds == SavedVerdictHolds /\ VerdictAtTheEnd /\ InstalledIsVerified

(* The result stays: where a complete gold image is reported, or was, one  *)
(* can be had.                                                             *)
ResultKept == ReportedIsThere /\ BackupKept

(* What an installation says holds, and what it made stays.                *)
InstallSound == VerdictHolds /\ ResultKept
=============================================================================
