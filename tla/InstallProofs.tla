----------------------------- MODULE InstallProofs -----------------------------
(***************************************************************************)
(* Proofs about the two installers.  Orchestrator: one installation of an  *)
(* instance's disk, with any manifest, any number of resumes, and kills at *)
(* any steps.  InstPasses: an installation through inst, with any packages *)
(* that need and exclude one another, on any distributions.                *)
(***************************************************************************)
EXTENDS Orchestrator, InstPasses, FiniteSetTheorems, WellFoundedInduction, TLAPS

(* What the theorems are about: --instance is given, one run is fresh, and *)
(* neither prepare nor install is skipped by request.  The runs orch_stale *)
(* and orch_disk violate PromotesComplete and VerdictHolds without it.     *)
OneInstallation ==
  /\ Mode = "instance"
  /\ MaxFresh <= 1
  /\ \A s \in SkipSets : {"prepare", "install"} \cap s = {}

-----------------------------------------------------------------------------
(* The inductive invariant.                                                *)

Made == {"prepare", "install"} \subseteq done

(* The one disk the installation knows, from prepare on.                   *)
OnePath ==
  /\ path \in {NoPath, "work"} /\ saved.path \in {NoPath, "work"}
  /\ wrote \in {NoPath, "work"}
  /\ "prepare" \in done => path = "work"
  /\ "prepare" \in saved.done => saved.path = "work"
  /\ pc = "creating" => path = "work"

(* Where the loop is, the phases before it are done, or skipped.           *)
LoopOrder ==
  /\ skip \cap {"prepare", "install"} = {}
  /\ pc = "loop" =>
       /\ k > 1 => "prepare" \in done
       /\ k > 2 => "install" \in done
       /\ k > 3 => "verify" \in done \cup skip
  /\ pc = "creating" => k = 1 /\ "prepare" \notin done
  /\ pc = "installing" => k = 2 /\ "prepare" \in done /\ "install" \notin done
  /\ pc \in {"adding", "reverify"} => k = 4 /\ Made
  /\ pc = "reverify" => "addon" \in done
  /\ pc = "save" =>
       /\ PHASE_ORDER[k] \in done
       /\ k > 1 => "prepare" \in done
       /\ k > 2 => "install" \in done
       /\ k > 3 => "verify" \in done \cup skip
  /\ pc = "finally" /\ ~raised => "verify" \in done \cup skip
  /\ pc = "promote" => "verify" \in done \cup skip

(* There is a verdict exactly while verify counts as done, and then on a   *)
(* disk that was made.                                                     *)
VerdictOf(phases, v) ==
  /\ "verify" \in phases <=> v # "none"
  /\ "verify" \in phases => {"prepare", "install"} \subseteq phases

VerdictMade == VerdictOf(done, verdict) /\ VerdictOf(saved.done, saved.verdict)

(* A verdict "passed" is true; while a run lasts it has the saved one.     *)
PassedIsTrue ==
  /\ pc # "idle" /\ verdict = "passed" => Complete("work")
  /\ saved.verdict = "passed" => Complete("work")
  /\ pc # "idle" /\ saved.verdict = "passed" => verdict = "passed"
  /\ pc = "adding" => verdict # "passed"
  /\ pc = "reverify" => verdict = "none"
  /\ pc = "copying" => verdict = "passed"

(* Before the fresh run there is nothing to resume.                        *)
FreshOnce ==
  fresh = 0 => sfile = "none" /\ saved.done = {} /\ saved.verdict = "none" /\ pc = "idle"

(* The gold image, or its backup while a copy is under way; after a        *)
(* promotion that was cut short either may be the one that is left, and    *)
(* while the next one is under way, neither.                               *)
GoldOrBackup ==
  hadGold =>
    /\ torn = 0 /\ pc # "copying" => Complete("gold")
    /\ torn = 0 /\ pc = "copying" => Complete("prev")
    /\ torn = 1 /\ pc # "copying" => Complete("gold") \/ Complete("prev")

OrchInv ==
  /\ TypeOK /\ OnePath /\ LoopOrder /\ VerdictMade /\ PassedIsTrue /\ FreshOnce
  /\ ReportedIsThere

(* TypeOK's conjuncts about the disks, the context and state.json.         *)
DiskStates == (SUBSET Entries) \cup {Absent, Broken}
Paths      == Disks \cup {NoPath}
Verdicts   == {"none", "passed", "failed"}

DiskType    == disk \in [Disks \cup {"prev"} -> DiskStates]
ContextType ==
  /\ done \subseteq Phases /\ verdict \in Verdicts
  /\ gaps \subseteq Entries /\ path \in Paths
SavedType ==
  saved \in [done : SUBSET Phases, verdict : Verdicts, gaps : SUBSET Entries, path : Paths]
OtherTypes ==
  /\ manifest \subseteq Entries /\ sfile \in {"none", "torn", "ok"}
  /\ pc \in PCs /\ k \in 1 .. Len(PHASE_ORDER) + 1 /\ skip \subseteq Phases
  /\ raised \in BOOLEAN /\ exit \in {"none", "complete", "incomplete", "raised", "killed"}
  /\ wrote \in Paths /\ hadGold \in BOOLEAN /\ torn \in Nat
  /\ runs \in Nat /\ fresh \in Nat /\ kills \in Nat

(* What the types rest on: a copy has a source, and only the loop itself   *)
(* can have come to its end.                                               *)
InPhase ==
  /\ pc = "copying" => path # NoPath
  /\ pc \in {"creating", "installing", "adding", "reverify", "save"} => k <= 4

-----------------------------------------------------------------------------
(* Each part of the invariant is kept by every step.                       *)

(* The phases and the disks by name. *)
LEMMA Names ==
  /\ {"prepare", "install", "verify", "addon"} \subseteq Phases
  /\ {"work", "default", "gold"} \subseteq Disks
  /\ Disks \subseteq Disks \cup {"prev"}
BY DEF Phases, Disks

(* The loop has four phases to go through. *)
LEMMA FourPhases ==
  /\ Len(PHASE_ORDER) = 4
  /\ \A i \in 1 .. 4 : PHASE_ORDER[i] \in Phases
BY DEF PHASE_ORDER, Phases

(* Every step leaves disks. *)
LEMMA StepDiskType ==
  ASSUME OrchestratorConstants, TypeOK, InPhase, [Next]_vars
  PROVE  DiskType'
<1> USE OrchestratorConstants, Names
        DEF TypeOK, InPhase, DiskType, DiskStates, fileVars, ctxVars, runVars,
            boundVars, ghostVars
<1>1. ASSUME NEW s \in SkipSets, Fresh(s) PROVE DiskType'
  BY <1>1 DEF Fresh, Start
<1>2. ASSUME NEW s \in SkipSets, Resume(s) PROVE DiskType'
  BY <1>2 DEF Resume, Start
<1>3. CASE SkipPhase
  BY <1>3 DEF SkipPhase
<1>4. CASE EndOfPhases
  BY <1>4 DEF EndOfPhases
<1>5. CASE PrepareRemove
  BY <1>5 DEF PrepareRemove, Due, PreparePath
<1>6. CASE PrepareCreate
  BY <1>6 DEF PrepareCreate, PhaseDone, Raise
<1>7. CASE InstallBegin
  BY <1>7 DEF InstallBegin, Due, InstallPath
<1>8. CASE InstallEnd
  BY <1>8 DEF InstallEnd, PhaseDone, Raise, ResultPath
<1>9. CASE Verify
  BY <1>9 DEF Verify, Due, Check, CanCheck, Readable, VerifiedDisk, PhaseDone, Raise
<1>10. CASE AddonNothing
  BY <1>10 DEF AddonNothing, Due, PhaseDone
<1>11. CASE AddonBegin
  BY <1>11 DEF AddonBegin, Due
<1>12. CASE AddonEnd
  <2>1. ASSUME Readable(path),
               NEW m \in SUBSET gaps, disk' = [disk EXCEPT ![path] = disk[path] \ m]
        PROVE  DiskType'
    <3>1. disk[path] \ m \in DiskStates
      BY <2>1 DEF Readable
    <3>2. QED
      BY <2>1, <3>1
  <2>2. CASE disk' \in HalfAdded
    BY <2>2 DEF HalfAdded
  <2>3. QED
    BY <1>12, <2>1, <2>2 DEF AddonEnd
<1>13. CASE ReVerify
  BY <1>13 DEF ReVerify, Check, CanCheck, Readable, VerifiedDisk, PhaseDone, Raise
<1>14. CASE Save
  BY <1>14 DEF Save, WriteState
<1>15. CASE Finally
  BY <1>15 DEF Finally, WriteState
<1>16. CASE NoPromotion
  BY <1>16 DEF NoPromotion, Passed, Outcome
<1>17. CASE PromoteBegin
  BY <1>17 DEF PromoteBegin, Passed, Backup
<1>18. CASE PromoteEnd
  <2>1. disk[path] \in DiskStates
    BY <1>18 DEF PromoteEnd
  <2>2. QED
    BY <1>18, <2>1 DEF PromoteEnd
<1>19. CASE PromoteFails
  BY <1>19 DEF PromoteFails, CutShort
<1>20. CASE SaveFails
  BY <1>20 DEF SaveFails, Raise
<1>21. CASE Kill
  BY <1>21 DEF Kill, HalfAdded, CutShort
<1>22. CASE UNCHANGED vars
  BY <1>22 DEF vars
<1>23. QED
  BY <1>1, <1>2, <1>3, <1>4, <1>5, <1>6, <1>7, <1>8, <1>9, <1>10, <1>11, <1>12,
     <1>13, <1>14, <1>15, <1>16, <1>17, <1>18, <1>19, <1>20, <1>21, <1>22
  DEF Next

(* Every step leaves a context. *)
LEMMA StepContextType ==
  ASSUME OrchestratorConstants, TypeOK, InPhase, [Next]_vars
  PROVE  ContextType'
<1> USE OrchestratorConstants, Names
        DEF TypeOK, ContextType, Paths, Verdicts, fileVars, ctxVars, runVars,
            boundVars, ghostVars
<1>1. ASSUME NEW s \in SkipSets, Fresh(s) PROVE ContextType'
  BY <1>1 DEF Fresh, Start
<1>2. ASSUME NEW s \in SkipSets, Resume(s) PROVE ContextType'
  <2>1. saved.done \subseteq Phases /\ saved.verdict \in Verdicts
    BY DEF Verdicts
  <2>2. saved.gaps \subseteq Entries /\ saved.path \in Paths
    BY DEF Paths
  <2>3. QED
    BY <1>2, <2>1, <2>2 DEF Resume, Start
<1>3. CASE SkipPhase
  BY <1>3 DEF SkipPhase
<1>4. CASE EndOfPhases
  BY <1>4 DEF EndOfPhases
<1>5. CASE PrepareRemove
  BY <1>5 DEF PrepareRemove, Due, PreparePath
<1>6. CASE PrepareCreate
  BY <1>6 DEF PrepareCreate, PhaseDone, Raise
<1>7. CASE InstallBegin
  BY <1>7 DEF InstallBegin, Due, InstallPath
<1>8. CASE InstallEnd
  BY <1>8 DEF InstallEnd, PhaseDone, Raise, ResultPath
<1>9. CASE Verify
  BY <1>9 DEF Verify, Due, Check, CanCheck, Readable, VerifiedDisk, PhaseDone, Raise
<1>10. CASE AddonNothing
  BY <1>10 DEF AddonNothing, Due, PhaseDone
<1>11. CASE AddonBegin
  BY <1>11 DEF AddonBegin, Due
<1>12. CASE AddonEnd
  BY <1>12 DEF AddonEnd, Raise, HalfAdded, NoLongerVerified
<1>13. CASE ReVerify
  BY <1>13 DEF ReVerify, Check, CanCheck, Readable, VerifiedDisk, PhaseDone, Raise
<1>14. CASE Save
  BY <1>14 DEF Save, WriteState
<1>15. CASE Finally
  BY <1>15 DEF Finally, WriteState
<1>16. CASE NoPromotion
  BY <1>16 DEF NoPromotion, Passed, Outcome
<1>17. CASE PromoteBegin
  BY <1>17 DEF PromoteBegin, Passed, Backup
<1>18. CASE PromoteEnd
  BY <1>18 DEF PromoteEnd, Outcome
<1>19. CASE PromoteFails
  BY <1>19 DEF PromoteFails, CutShort
<1>20. CASE SaveFails
  BY <1>20 DEF SaveFails, Raise
<1>21. CASE Kill
  BY <1>21 DEF Kill, HalfAdded, CutShort
<1>22. CASE UNCHANGED vars
  BY <1>22 DEF vars
<1>23. QED
  BY <1>1, <1>2, <1>3, <1>4, <1>5, <1>6, <1>7, <1>8, <1>9, <1>10, <1>11, <1>12,
     <1>13, <1>14, <1>15, <1>16, <1>17, <1>18, <1>19, <1>20, <1>21, <1>22
  DEF Next

(* Every step leaves a state.json of its type. *)
LEMMA StepSavedType ==
  ASSUME OrchestratorConstants, TypeOK, InPhase, [Next]_vars
  PROVE  SavedType'
<1> USE OrchestratorConstants
        DEF TypeOK, SavedType, Paths, Verdicts, fileVars, ctxVars, runVars,
            boundVars, ghostVars
<1>1. ASSUME NEW s \in SkipSets, Fresh(s) PROVE SavedType'
  BY <1>1 DEF Fresh, Start
<1>2. ASSUME NEW s \in SkipSets, Resume(s) PROVE SavedType'
  BY <1>2 DEF Resume, Start
<1>3. CASE SkipPhase
  BY <1>3 DEF SkipPhase
<1>4. CASE EndOfPhases
  BY <1>4 DEF EndOfPhases
<1>5. CASE PrepareRemove
  BY <1>5 DEF PrepareRemove, Due, PreparePath
<1>6. CASE PrepareCreate
  BY <1>6 DEF PrepareCreate, PhaseDone, Raise
<1>7. CASE InstallBegin
  BY <1>7 DEF InstallBegin, Due, InstallPath
<1>8. CASE InstallEnd
  BY <1>8 DEF InstallEnd, PhaseDone, Raise, ResultPath
<1>9. CASE Verify
  BY <1>9 DEF Verify, Due, Check, CanCheck, Readable, VerifiedDisk, PhaseDone, Raise
<1>10. CASE AddonNothing
  BY <1>10 DEF AddonNothing, Due, PhaseDone
<1>11. CASE AddonBegin
  BY <1>11 DEF AddonBegin, Due
<1>12. CASE AddonEnd
  BY <1>12 DEF AddonEnd, Raise, HalfAdded, NoLongerVerified
<1>13. CASE ReVerify
  BY <1>13 DEF ReVerify, Check, CanCheck, Readable, VerifiedDisk, PhaseDone, Raise
<1>14. CASE Save
  BY <1>14 DEF Save, WriteState
<1>15. CASE Finally
  BY <1>15 DEF Finally, WriteState
<1>16. CASE NoPromotion
  BY <1>16 DEF NoPromotion, Passed, Outcome
<1>17. CASE PromoteBegin
  BY <1>17 DEF PromoteBegin, Passed, Backup
<1>18. CASE PromoteEnd
  BY <1>18 DEF PromoteEnd, Outcome
<1>19. CASE PromoteFails
  BY <1>19 DEF PromoteFails, CutShort
<1>20. CASE SaveFails
  BY <1>20 DEF SaveFails, Raise
<1>21. CASE Kill
  BY <1>21 DEF Kill, HalfAdded, CutShort
<1>22. CASE UNCHANGED vars
  BY <1>22 DEF vars
<1>23. QED
  BY <1>1, <1>2, <1>3, <1>4, <1>5, <1>6, <1>7, <1>8, <1>9, <1>10, <1>11, <1>12,
     <1>13, <1>14, <1>15, <1>16, <1>17, <1>18, <1>19, <1>20, <1>21, <1>22
  DEF Next

(* A promotion that is cut short is counted. *)
LEMMA CutTypes ==
  ASSUME TypeOK, CutShort
  PROVE  torn' \in Nat /\ hadGold' \in BOOLEAN
<1>1. torn \in Nat /\ hadGold \in BOOLEAN
  BY DEF TypeOK
<1>2. \E b \in BOOLEAN : hadGold' = (hadGold \/ b)
  BY DEF CutShort
<1>3. torn' = torn + 1
  BY DEF CutShort
<1>4. QED
  BY <1>1, <1>2, <1>3

(* Every step keeps the other variables within their types. *)
LEMMA StepOtherTypes ==
  ASSUME OrchestratorConstants, TypeOK, InPhase, [Next]_vars
  PROVE  OtherTypes'
<1> USE OrchestratorConstants, FourPhases, Names
        DEF TypeOK, InPhase, OtherTypes, Paths, PCs, fileVars, ctxVars, runVars,
            boundVars, ghostVars
<1>1. ASSUME NEW s \in SkipSets, Fresh(s) PROVE OtherTypes'
  <2>1. skip' \subseteq Phases
    BY <1>1 DEF Fresh, Start, OrchestratorConstants
  <2>2. k' \in 1 .. Len(PHASE_ORDER) + 1
    BY <1>1 DEF Fresh, Start
  <2>3. runs' \in Nat /\ fresh' \in Nat /\ kills' \in Nat
    BY <1>1 DEF Fresh, Start
  <2>4. wrote' \in Paths /\ hadGold' \in BOOLEAN
    BY <1>1 DEF Fresh, Start
  <2>5. QED
    BY <1>1, <2>1, <2>2, <2>3, <2>4 DEF Fresh, Start
<1>2. ASSUME NEW s \in SkipSets, Resume(s) PROVE OtherTypes'
  <2>1. skip' \subseteq Phases
    BY <1>2 DEF Resume, Start, OrchestratorConstants
  <2>2. k' \in 1 .. Len(PHASE_ORDER) + 1
    BY <1>2 DEF Resume, Start
  <2>3. runs' \in Nat /\ fresh' \in Nat /\ kills' \in Nat
    BY <1>2 DEF Resume, Start
  <2>4. wrote' \in Paths /\ hadGold' \in BOOLEAN
    BY <1>2 DEF Resume, Start
  <2>5. QED
    BY <1>2, <2>1, <2>2, <2>3, <2>4 DEF Resume, Start
<1>3. CASE SkipPhase
  BY <1>3 DEF SkipPhase
<1>4. CASE EndOfPhases
  BY <1>4 DEF EndOfPhases
<1>5. CASE PrepareRemove
  BY <1>5 DEF PrepareRemove, Due, PreparePath
<1>6. CASE PrepareCreate
  BY <1>6 DEF PrepareCreate, PhaseDone, Raise
<1>7. CASE InstallBegin
  BY <1>7 DEF InstallBegin, Due, InstallPath
<1>8. CASE InstallEnd
  BY <1>8 DEF InstallEnd, PhaseDone, Raise, ResultPath
<1>9. CASE Verify
  BY <1>9 DEF Verify, Due, Check, CanCheck, Readable, VerifiedDisk, PhaseDone, Raise
<1>10. CASE AddonNothing
  BY <1>10 DEF AddonNothing, Due, PhaseDone
<1>11. CASE AddonBegin
  BY <1>11 DEF AddonBegin, Due
<1>12. CASE AddonEnd
  BY <1>12 DEF AddonEnd, Raise, HalfAdded, NoLongerVerified
<1>13. CASE ReVerify
  BY <1>13 DEF ReVerify, Check, CanCheck, Readable, VerifiedDisk, PhaseDone, Raise
<1>14. CASE Save
  BY <1>14 DEF Save, WriteState
<1>15. CASE Finally
  BY <1>15 DEF Finally, WriteState
<1>16. CASE NoPromotion
  BY <1>16 DEF NoPromotion, Passed, Outcome
<1>17. CASE PromoteBegin
  BY <1>17 DEF PromoteBegin, Passed, Backup
<1>18. CASE PromoteEnd
  BY <1>18 DEF PromoteEnd, Outcome
<1>19. CASE PromoteFails
  <2>1. torn' \in Nat /\ hadGold' \in BOOLEAN
    BY <1>19, CutTypes DEF PromoteFails
  <2>2. pc' = "idle" /\ exit' = "raised"
    BY <1>19 DEF PromoteFails
  <2>3. QED
    BY <1>19, <2>1, <2>2 DEF PromoteFails
<1>20. CASE SaveFails
  BY <1>20 DEF SaveFails, Raise
<1>21. CASE Kill
  <2>1. torn' \in Nat /\ hadGold' \in BOOLEAN
    BY <1>21, CutTypes DEF Kill
  <2>2. pc' = "idle" /\ exit' = "killed" /\ kills' \in Nat
    BY <1>21 DEF Kill
  <2>3. sfile' \in {"none", "torn", "ok"}
    BY <1>21 DEF Kill
  <2>4. QED
    BY <1>21, <2>1, <2>2, <2>3 DEF Kill
<1>22. CASE UNCHANGED vars
  BY <1>22 DEF vars
<1>23. QED
  BY <1>1, <1>2, <1>3, <1>4, <1>5, <1>6, <1>7, <1>8, <1>9, <1>10, <1>11, <1>12,
     <1>13, <1>14, <1>15, <1>16, <1>17, <1>18, <1>19, <1>20, <1>21, <1>22
  DEF Next

(* Every step keeps what the types rest on. *)
LEMMA StepInPhase ==
  ASSUME OrchestratorConstants, TypeOK, InPhase, [Next]_vars
  PROVE  InPhase'
<1> USE OrchestratorConstants, FourPhases
        DEF TypeOK, InPhase, fileVars, ctxVars, runVars, boundVars, ghostVars
<1>1. ASSUME NEW s \in SkipSets, Fresh(s) PROVE InPhase'
  BY <1>1 DEF Fresh, Start
<1>2. ASSUME NEW s \in SkipSets, Resume(s) PROVE InPhase'
  BY <1>2 DEF Resume, Start
<1>3. CASE SkipPhase
  BY <1>3 DEF SkipPhase
<1>4. CASE EndOfPhases
  BY <1>4 DEF EndOfPhases
<1>5. CASE PrepareRemove
  BY <1>5 DEF PrepareRemove, Due, PreparePath
<1>6. CASE PrepareCreate
  BY <1>6 DEF PrepareCreate, PhaseDone, Raise
<1>7. CASE InstallBegin
  BY <1>7 DEF InstallBegin, Due, InstallPath
<1>8. CASE InstallEnd
  BY <1>8 DEF InstallEnd, PhaseDone, Raise, ResultPath
<1>9. CASE Verify
  BY <1>9 DEF Verify, Due, Check, CanCheck, Readable, VerifiedDisk, PhaseDone, Raise
<1>10. CASE AddonNothing
  BY <1>10 DEF AddonNothing, Due, PhaseDone
<1>11. CASE AddonBegin
  BY <1>11 DEF AddonBegin, Due
<1>12. CASE AddonEnd
  BY <1>12 DEF AddonEnd, Raise, HalfAdded, NoLongerVerified
<1>13. CASE ReVerify
  BY <1>13 DEF ReVerify, Check, CanCheck, Readable, VerifiedDisk, PhaseDone, Raise
<1>14. CASE Save
  BY <1>14 DEF Save, WriteState
<1>15. CASE Finally
  BY <1>15 DEF Finally, WriteState
<1>16. CASE NoPromotion
  BY <1>16 DEF NoPromotion, Passed, Outcome
<1>17. CASE PromoteBegin
  BY <1>17 DEF PromoteBegin, Passed, Backup
<1>18. CASE PromoteEnd
  BY <1>18 DEF PromoteEnd, Outcome
<1>19. CASE PromoteFails
  BY <1>19 DEF PromoteFails, CutShort
<1>20. CASE SaveFails
  BY <1>20 DEF SaveFails, Raise
<1>21. CASE Kill
  BY <1>21 DEF Kill, HalfAdded, CutShort
<1>22. CASE UNCHANGED vars
  BY <1>22 DEF vars
<1>23. QED
  BY <1>1, <1>2, <1>3, <1>4, <1>5, <1>6, <1>7, <1>8, <1>9, <1>10, <1>11, <1>12,
     <1>13, <1>14, <1>15, <1>16, <1>17, <1>18, <1>19, <1>20, <1>21, <1>22
  DEF Next

(* Every step keeps the types. *)
LEMMA StepTypeOK ==
  ASSUME OrchestratorConstants, TypeOK, InPhase, [Next]_vars
  PROVE  TypeOK'
BY StepDiskType, StepContextType, StepSavedType, StepOtherTypes
   DEF TypeOK, DiskType, ContextType, SavedType, OtherTypes, DiskStates, Paths,
       Verdicts

(* No step leaves the one disk. *)
LEMMA StepOnePath ==
  ASSUME OrchestratorConstants, OneInstallation, OrchInv, [Next]_vars
  PROVE  OnePath'
<1> USE OrchestratorConstants
        DEF OneInstallation, OrchInv, TypeOK, OnePath, LoopOrder, Made, Phases,
            PHASE_ORDER, Disks, NoPath, PCs, fileVars, ctxVars, runVars,
            boundVars, ghostVars
<1>1. ASSUME NEW s \in SkipSets, Fresh(s) PROVE OnePath'
  BY <1>1 DEF Fresh, Start
<1>2. ASSUME NEW s \in SkipSets, Resume(s) PROVE OnePath'
  BY <1>2 DEF Resume, Start
<1>3. CASE SkipPhase
  BY <1>3 DEF SkipPhase
<1>4. CASE EndOfPhases
  BY <1>4 DEF EndOfPhases
<1>5. CASE PrepareRemove
  BY <1>5 DEF PrepareRemove, Due, PreparePath
<1>6. CASE PrepareCreate
  BY <1>6 DEF PrepareCreate, PhaseDone, Raise
<1>7. CASE InstallBegin
  BY <1>7 DEF InstallBegin, Due, InstallPath
<1>8. CASE InstallEnd
  BY <1>8 DEF InstallEnd, PhaseDone, Raise, ResultPath
<1>9. CASE Verify
  BY <1>9 DEF Verify, Due, Check, CanCheck, Readable, VerifiedDisk, PhaseDone, Raise
<1>10. CASE AddonNothing
  BY <1>10 DEF AddonNothing, Due, PhaseDone
<1>11. CASE AddonBegin
  BY <1>11 DEF AddonBegin, Due
<1>12. CASE AddonEnd
  BY <1>12 DEF AddonEnd, Raise, HalfAdded, NoLongerVerified
<1>13. CASE ReVerify
  BY <1>13 DEF ReVerify, Check, CanCheck, Readable, VerifiedDisk, PhaseDone, Raise
<1>14. CASE Save
  BY <1>14 DEF Save, WriteState
<1>15. CASE Finally
  BY <1>15 DEF Finally, WriteState
<1>16. CASE NoPromotion
  BY <1>16 DEF NoPromotion, Passed, Outcome
<1>17. CASE PromoteBegin
  BY <1>17 DEF PromoteBegin, Passed, Backup
<1>18. CASE PromoteEnd
  BY <1>18 DEF PromoteEnd, Outcome
<1>19. CASE PromoteFails
  BY <1>19 DEF PromoteFails, CutShort
<1>20. CASE SaveFails
  BY <1>20 DEF SaveFails, Raise
<1>21. CASE Kill
  BY <1>21 DEF Kill, HalfAdded, CutShort
<1>22. CASE UNCHANGED vars
  BY <1>22 DEF vars
<1>23. QED
  BY <1>1, <1>2, <1>3, <1>4, <1>5, <1>6, <1>7, <1>8, <1>9, <1>10, <1>11, <1>12,
     <1>13, <1>14, <1>15, <1>16, <1>17, <1>18, <1>19, <1>20, <1>21, <1>22
  DEF Next

(* Every step keeps the order of the phases. *)
LEMMA StepLoopOrder ==
  ASSUME OrchestratorConstants, OneInstallation, OrchInv, [Next]_vars
  PROVE  LoopOrder'
<1> USE OrchestratorConstants
        DEF OneInstallation, OrchInv, TypeOK, LoopOrder, VerdictMade, VerdictOf,
            PassedIsTrue, FreshOnce, Made, Phases, PHASE_ORDER, PCs, fileVars,
            ctxVars, runVars, boundVars, ghostVars
<1>1. ASSUME NEW s \in SkipSets, Fresh(s) PROVE LoopOrder'
  BY <1>1 DEF Fresh, Start
<1>2. ASSUME NEW s \in SkipSets, Resume(s) PROVE LoopOrder'
  BY <1>2 DEF Resume, Start
<1>3. CASE SkipPhase
  BY <1>3 DEF SkipPhase
<1>4. CASE EndOfPhases
  BY <1>4 DEF EndOfPhases
<1>5. CASE PrepareRemove
  BY <1>5 DEF PrepareRemove, Due, PreparePath
<1>6. CASE PrepareCreate
  BY <1>6 DEF PrepareCreate, PhaseDone, Raise
<1>7. CASE InstallBegin
  BY <1>7 DEF InstallBegin, Due, InstallPath
<1>8. CASE InstallEnd
  BY <1>8 DEF InstallEnd, PhaseDone, Raise, ResultPath
<1>9. CASE Verify
  BY <1>9 DEF Verify, Due, Check, CanCheck, Readable, VerifiedDisk, PhaseDone, Raise
<1>10. CASE AddonNothing
  BY <1>10 DEF AddonNothing, Due, PhaseDone
<1>11. CASE AddonBegin
  BY <1>11 DEF AddonBegin, Due
<1>12. CASE AddonEnd
  BY <1>12 DEF AddonEnd, Raise, HalfAdded, NoLongerVerified
<1>13. CASE ReVerify
  BY <1>13 DEF ReVerify, Check, CanCheck, Readable, VerifiedDisk, PhaseDone, Raise
<1>14. CASE Save
  BY <1>14 DEF Save, WriteState
<1>15. CASE Finally
  BY <1>15 DEF Finally, WriteState
<1>16. CASE NoPromotion
  BY <1>16 DEF NoPromotion, Passed, Outcome
<1>17. CASE PromoteBegin
  BY <1>17 DEF PromoteBegin, Passed, Backup
<1>18. CASE PromoteEnd
  BY <1>18 DEF PromoteEnd, Outcome
<1>19. CASE PromoteFails
  BY <1>19 DEF PromoteFails, CutShort
<1>20. CASE SaveFails
  BY <1>20 DEF SaveFails, Raise
<1>21. CASE Kill
  BY <1>21 DEF Kill, HalfAdded, CutShort
<1>22. CASE UNCHANGED vars
  BY <1>22 DEF vars
<1>23. QED
  BY <1>1, <1>2, <1>3, <1>4, <1>5, <1>6, <1>7, <1>8, <1>9, <1>10, <1>11, <1>12,
     <1>13, <1>14, <1>15, <1>16, <1>17, <1>18, <1>19, <1>20, <1>21, <1>22
  DEF Next

(* Every step keeps verdicts and completed checks together. *)
LEMMA StepVerdictMade ==
  ASSUME OrchestratorConstants, OneInstallation, OrchInv, [Next]_vars
  PROVE  VerdictMade'
<1> USE OrchestratorConstants
        DEF OrchInv, TypeOK, LoopOrder, VerdictMade, VerdictOf, PassedIsTrue,
            Made, Phases, PHASE_ORDER, PCs, fileVars, ctxVars, runVars,
            boundVars, ghostVars
<1>1. ASSUME NEW s \in SkipSets, Fresh(s) PROVE VerdictMade'
  BY <1>1 DEF Fresh, Start
<1>2. ASSUME NEW s \in SkipSets, Resume(s) PROVE VerdictMade'
  BY <1>2 DEF Resume, Start
<1>3. CASE SkipPhase
  BY <1>3 DEF SkipPhase
<1>4. CASE EndOfPhases
  BY <1>4 DEF EndOfPhases
<1>5. CASE PrepareRemove
  BY <1>5 DEF PrepareRemove, Due, PreparePath
<1>6. CASE PrepareCreate
  BY <1>6 DEF PrepareCreate, PhaseDone, Raise
<1>7. CASE InstallBegin
  BY <1>7 DEF InstallBegin, Due, InstallPath
<1>8. CASE InstallEnd
  BY <1>8 DEF InstallEnd, PhaseDone, Raise, ResultPath
<1>9. CASE Verify
  BY <1>9 DEF Verify, Due, Check, CanCheck, Readable, VerifiedDisk, PhaseDone, Raise
<1>10. CASE AddonNothing
  BY <1>10 DEF AddonNothing, Due, PhaseDone
<1>11. CASE AddonBegin
  BY <1>11 DEF AddonBegin, Due
<1>12. CASE AddonEnd
  BY <1>12 DEF AddonEnd, Raise, HalfAdded, NoLongerVerified
<1>13. CASE ReVerify
  BY <1>13 DEF ReVerify, Check, CanCheck, Readable, VerifiedDisk, PhaseDone, Raise
<1>14. CASE Save
  BY <1>14 DEF Save, WriteState
<1>15. CASE Finally
  BY <1>15 DEF Finally, WriteState
<1>16. CASE NoPromotion
  BY <1>16 DEF NoPromotion, Passed, Outcome
<1>17. CASE PromoteBegin
  BY <1>17 DEF PromoteBegin, Passed, Backup
<1>18. CASE PromoteEnd
  BY <1>18 DEF PromoteEnd, Outcome
<1>19. CASE PromoteFails
  BY <1>19 DEF PromoteFails, CutShort
<1>20. CASE SaveFails
  BY <1>20 DEF SaveFails, Raise
<1>21. CASE Kill
  BY <1>21 DEF Kill, HalfAdded, CutShort
<1>22. CASE UNCHANGED vars
  BY <1>22 DEF vars
<1>23. QED
  BY <1>1, <1>2, <1>3, <1>4, <1>5, <1>6, <1>7, <1>8, <1>9, <1>10, <1>11, <1>12,
     <1>13, <1>14, <1>15, <1>16, <1>17, <1>18, <1>19, <1>20, <1>21, <1>22
  DEF Next

(* Every step keeps a passed verdict true. *)
LEMMA StepPassedIsTrue ==
  ASSUME OrchestratorConstants, OneInstallation, OrchInv, [Next]_vars
  PROVE  PassedIsTrue'
<1> USE OrchestratorConstants
        DEF OneInstallation, OrchInv, TypeOK, OnePath, LoopOrder, VerdictMade,
            VerdictOf, PassedIsTrue, FreshOnce, Complete, Made, Phases,
            PHASE_ORDER, PCs, Disks, NoPath, Absent, Broken, fileVars, ctxVars,
            runVars, boundVars, ghostVars
<1>1. ASSUME NEW s \in SkipSets, Fresh(s) PROVE PassedIsTrue'
  BY <1>1 DEF Fresh, Start
<1>2. ASSUME NEW s \in SkipSets, Resume(s) PROVE PassedIsTrue'
  BY <1>2 DEF Resume, Start
<1>3. CASE SkipPhase
  BY <1>3 DEF SkipPhase
<1>4. CASE EndOfPhases
  BY <1>4 DEF EndOfPhases
<1>5. CASE PrepareRemove
  BY <1>5 DEF PrepareRemove, Due, PreparePath
<1>6. CASE PrepareCreate
  BY <1>6 DEF PrepareCreate, PhaseDone, Raise
<1>7. CASE InstallBegin
  BY <1>7 DEF InstallBegin, Due, InstallPath
<1>8. CASE InstallEnd
  BY <1>8 DEF InstallEnd, PhaseDone, Raise, ResultPath
<1>9. CASE Verify
  BY <1>9 DEF Verify, Due, Check, CanCheck, Readable, VerifiedDisk, PhaseDone, Raise
<1>10. CASE AddonNothing
  BY <1>10 DEF AddonNothing, Due, PhaseDone
<1>11. CASE AddonBegin
  BY <1>11 DEF AddonBegin, Due
<1>12. CASE AddonEnd
  BY <1>12 DEF AddonEnd, Raise, HalfAdded, NoLongerVerified
<1>13. CASE ReVerify
  BY <1>13 DEF ReVerify, Check, CanCheck, Readable, VerifiedDisk, PhaseDone, Raise
<1>14. CASE Save
  BY <1>14 DEF Save, WriteState
<1>15. CASE Finally
  BY <1>15 DEF Finally, WriteState
<1>16. CASE NoPromotion
  BY <1>16 DEF NoPromotion, Passed, Outcome
<1>17. CASE PromoteBegin
  BY <1>17 DEF PromoteBegin, Passed, Backup
<1>18. CASE PromoteEnd
  BY <1>18 DEF PromoteEnd, Outcome
<1>19. CASE PromoteFails
  BY <1>19 DEF PromoteFails, CutShort
<1>20. CASE SaveFails
  BY <1>20 DEF SaveFails, Raise
<1>21. CASE Kill
  BY <1>21 DEF Kill, HalfAdded, CutShort
<1>22. CASE UNCHANGED vars
  BY <1>22 DEF vars
<1>23. QED
  BY <1>1, <1>2, <1>3, <1>4, <1>5, <1>6, <1>7, <1>8, <1>9, <1>10, <1>11, <1>12,
     <1>13, <1>14, <1>15, <1>16, <1>17, <1>18, <1>19, <1>20, <1>21, <1>22
  DEF Next

(* No step goes back before the fresh run. *)
LEMMA StepFreshOnce ==
  ASSUME OrchestratorConstants, OneInstallation, OrchInv, [Next]_vars
  PROVE  FreshOnce'
<1> USE OrchestratorConstants
        DEF OneInstallation, OrchInv, TypeOK, FreshOnce, PCs, fileVars, ctxVars,
            runVars, boundVars, ghostVars
<1>1. ASSUME NEW s \in SkipSets, Fresh(s) PROVE FreshOnce'
  BY <1>1 DEF Fresh, Start
<1>2. ASSUME NEW s \in SkipSets, Resume(s) PROVE FreshOnce'
  BY <1>2 DEF Resume, Start
<1>3. CASE SkipPhase
  BY <1>3 DEF SkipPhase
<1>4. CASE EndOfPhases
  BY <1>4 DEF EndOfPhases
<1>5. CASE PrepareRemove
  BY <1>5 DEF PrepareRemove, Due, PreparePath
<1>6. CASE PrepareCreate
  BY <1>6 DEF PrepareCreate, PhaseDone, Raise
<1>7. CASE InstallBegin
  BY <1>7 DEF InstallBegin, Due, InstallPath
<1>8. CASE InstallEnd
  BY <1>8 DEF InstallEnd, PhaseDone, Raise, ResultPath
<1>9. CASE Verify
  BY <1>9 DEF Verify, Due, Check, CanCheck, Readable, VerifiedDisk, PhaseDone, Raise
<1>10. CASE AddonNothing
  BY <1>10 DEF AddonNothing, Due, PhaseDone
<1>11. CASE AddonBegin
  BY <1>11 DEF AddonBegin, Due
<1>12. CASE AddonEnd
  BY <1>12 DEF AddonEnd, Raise, HalfAdded, NoLongerVerified
<1>13. CASE ReVerify
  BY <1>13 DEF ReVerify, Check, CanCheck, Readable, VerifiedDisk, PhaseDone, Raise
<1>14. CASE Save
  BY <1>14 DEF Save, WriteState
<1>15. CASE Finally
  BY <1>15 DEF Finally, WriteState
<1>16. CASE NoPromotion
  BY <1>16 DEF NoPromotion, Passed, Outcome
<1>17. CASE PromoteBegin
  BY <1>17 DEF PromoteBegin, Passed, Backup
<1>18. CASE PromoteEnd
  BY <1>18 DEF PromoteEnd, Outcome
<1>19. CASE PromoteFails
  BY <1>19 DEF PromoteFails, CutShort
<1>20. CASE SaveFails
  BY <1>20 DEF SaveFails, Raise
<1>21. CASE Kill
  BY <1>21 DEF Kill, HalfAdded, CutShort
<1>22. CASE UNCHANGED vars
  BY <1>22 DEF vars
<1>23. QED
  BY <1>1, <1>2, <1>3, <1>4, <1>5, <1>6, <1>7, <1>8, <1>9, <1>10, <1>11, <1>12,
     <1>13, <1>14, <1>15, <1>16, <1>17, <1>18, <1>19, <1>20, <1>21, <1>22
  DEF Next

(* Every step keeps the truth of the report. *)
LEMMA StepReported ==
  ASSUME OrchestratorConstants, OneInstallation, OrchInv, [Next]_vars
  PROVE  ReportedIsThere'
<1> USE OrchestratorConstants
        DEF OrchestratorConstants, OneInstallation, OrchInv, TypeOK, OnePath,
            LoopOrder, VerdictMade, VerdictOf, PassedIsTrue, ReportedIsThere,
            Complete, Absent, Broken, PCs, Disks, NoPath, fileVars, ctxVars,
            runVars, boundVars, ghostVars
<1>1. ASSUME NEW s \in SkipSets, Fresh(s) PROVE ReportedIsThere'
  BY <1>1 DEF Fresh, Start
<1>2. ASSUME NEW s \in SkipSets, Resume(s) PROVE ReportedIsThere'
  BY <1>2 DEF Resume, Start
<1>3. CASE SkipPhase
  BY <1>3 DEF SkipPhase
<1>4. CASE EndOfPhases
  BY <1>4 DEF EndOfPhases
<1>5. CASE PrepareRemove
  BY <1>5 DEF PrepareRemove, Due, PreparePath
<1>6. CASE PrepareCreate
  BY <1>6 DEF PrepareCreate, PhaseDone, Raise
<1>7. CASE InstallBegin
  BY <1>7 DEF InstallBegin, Due, InstallPath
<1>8. CASE InstallEnd
  BY <1>8 DEF InstallEnd, PhaseDone, Raise, ResultPath
<1>9. CASE Verify
  BY <1>9 DEF Verify, Due, Check, CanCheck, Readable, VerifiedDisk, PhaseDone, Raise
<1>10. CASE AddonNothing
  BY <1>10 DEF AddonNothing, Due, PhaseDone
<1>11. CASE AddonBegin
  BY <1>11 DEF AddonBegin, Due
<1>12. CASE AddonEnd
  BY <1>12 DEF AddonEnd, Raise, HalfAdded, NoLongerVerified
<1>13. CASE ReVerify
  BY <1>13 DEF ReVerify, Check, CanCheck, Readable, VerifiedDisk, PhaseDone, Raise
<1>14. CASE Save
  BY <1>14 DEF Save, WriteState
<1>15. CASE Finally
  BY <1>15 DEF Finally, WriteState
<1>16. CASE NoPromotion
  BY <1>16 DEF NoPromotion, Passed, Outcome
<1>17. CASE PromoteBegin
  BY <1>17 DEF PromoteBegin, Passed, Backup
<1>18. CASE PromoteEnd
  BY <1>18 DEF PromoteEnd, Outcome
<1>19. CASE PromoteFails
  BY <1>19 DEF PromoteFails, CutShort
<1>20. CASE SaveFails
  BY <1>20 DEF SaveFails, Raise
<1>21. CASE Kill
  BY <1>21 DEF Kill, HalfAdded, CutShort
<1>22. CASE UNCHANGED vars
  BY <1>22 DEF vars
<1>23. QED
  BY <1>1, <1>2, <1>3, <1>4, <1>5, <1>6, <1>7, <1>8, <1>9, <1>10, <1>11, <1>12,
     <1>13, <1>14, <1>15, <1>16, <1>17, <1>18, <1>19, <1>20, <1>21, <1>22
  DEF Next

(* What a promotion leaves that is cut short: as long as it is the first,  *)
(* the backup.                                                             *)
LEMMA LeftByCut ==
  ASSUME OrchestratorConstants, TypeOK, GoldOrBackup,
         pc = "copying", CutShort, pc' = "idle", manifest' = manifest
  PROVE  GoldOrBackup'
<1>1. PICK left \in {Absent, Broken, disk[path]} :
        /\ disk' = [disk EXCEPT !["gold"] = left]
        /\ hadGold' = (hadGold \/ (left = disk[path] /\ Complete(path)))
        /\ torn' = torn + 1
  BY DEF CutShort
<1>2. torn \in Nat /\ disk'["prev"] = disk["prev"] /\ disk'["gold"] = left
  BY <1>1 DEF TypeOK, Disks
<1>3. CASE left = disk[path] /\ Complete(path)
  <2>1. Complete("gold")'
    BY <1>2, <1>3 DEF Complete
  <2>2. QED
    BY <1>1, <1>2, <2>1 DEF GoldOrBackup
<1>4. CASE hadGold' = hadGold
  <2>1. Complete("prev")' <=> Complete("prev")
    BY <1>2 DEF Complete
  <2>2. QED
    BY <1>1, <1>2, <1>4, <2>1 DEF GoldOrBackup
<1>5. QED
  <2>1. hadGold \in BOOLEAN
    BY DEF TypeOK
  <2>2. ~(left = disk[path] /\ Complete(path)) => hadGold' = hadGold
    BY <1>1, <2>1
  <2>3. QED
    BY <1>3, <1>4, <2>2

(* Every step keeps the gold image or its backup. *)
LEMMA StepGoldOrBackup ==
  ASSUME OrchestratorConstants, OneInstallation, OrchInv, [Next]_vars, GoldOrBackup
  PROVE  GoldOrBackup'
<1> USE OrchestratorConstants
        DEF OrchestratorConstants, OneInstallation, OrchInv, TypeOK, OnePath,
            LoopOrder, VerdictMade, VerdictOf, PassedIsTrue, GoldOrBackup,
            Complete, Absent, Broken, PCs, Disks, NoPath, fileVars, ctxVars,
            runVars, boundVars, ghostVars
<1>1. ASSUME NEW s \in SkipSets, Fresh(s) PROVE GoldOrBackup'
  BY <1>1 DEF Fresh, Start
<1>2. ASSUME NEW s \in SkipSets, Resume(s) PROVE GoldOrBackup'
  BY <1>2 DEF Resume, Start
<1>3. CASE SkipPhase
  BY <1>3 DEF SkipPhase
<1>4. CASE EndOfPhases
  BY <1>4 DEF EndOfPhases
<1>5. CASE PrepareRemove
  BY <1>5 DEF PrepareRemove, Due, PreparePath
<1>6. CASE PrepareCreate
  BY <1>6 DEF PrepareCreate, PhaseDone, Raise
<1>7. CASE InstallBegin
  BY <1>7 DEF InstallBegin, Due, InstallPath
<1>8. CASE InstallEnd
  BY <1>8 DEF InstallEnd, PhaseDone, Raise, ResultPath
<1>9. CASE Verify
  BY <1>9 DEF Verify, Due, Check, CanCheck, Readable, VerifiedDisk, PhaseDone, Raise
<1>10. CASE AddonNothing
  BY <1>10 DEF AddonNothing, Due, PhaseDone
<1>11. CASE AddonBegin
  BY <1>11 DEF AddonBegin, Due
<1>12. CASE AddonEnd
  BY <1>12 DEF AddonEnd, Raise, HalfAdded, NoLongerVerified
<1>13. CASE ReVerify
  BY <1>13 DEF ReVerify, Check, CanCheck, Readable, VerifiedDisk, PhaseDone, Raise
<1>14. CASE Save
  BY <1>14 DEF Save, WriteState
<1>15. CASE Finally
  BY <1>15 DEF Finally, WriteState
<1>16. CASE NoPromotion
  BY <1>16 DEF NoPromotion, Passed, Outcome
<1>17. CASE PromoteBegin
  <2>1. pc = "promote" /\ pc' = "copying" /\ torn' = torn /\ hadGold' = hadGold
    BY <1>17 DEF PromoteBegin
  <2>2. Complete("gold") => disk'["prev"] = disk["gold"] /\ manifest' = manifest
    BY <1>17 DEF PromoteBegin, Backup
  <2>3. QED
    BY <2>1, <2>2
<1>18. CASE PromoteEnd
  BY <1>18 DEF PromoteEnd, Outcome
<1>19. CASE PromoteFails
  <2>1. CASE pc = "promote" /\ UNCHANGED <<disk, ghostVars>>
    <3>1. pc' = "idle" /\ manifest' = manifest /\ hadGold' = hadGold /\ torn' = torn
      BY <1>19, <2>1 DEF PromoteFails
    <3>2. QED
      BY <2>1, <3>1
  <2>2. CASE pc = "copying" /\ CutShort
    <3>1. pc' = "idle" /\ manifest' = manifest
      BY <1>19 DEF PromoteFails
    <3>2. QED
      BY <2>2, <3>1, LeftByCut DEF OrchInv
  <2>3. QED
    BY <1>19, <2>1, <2>2 DEF PromoteFails
<1>20. CASE SaveFails
  BY <1>20 DEF SaveFails, Raise
<1>21. CASE Kill
  <2>1. pc' = "idle" /\ manifest' = manifest
    BY <1>21 DEF Kill
  <2>2. CASE pc = "copying" /\ CutShort
    BY <2>1, <2>2, LeftByCut DEF OrchInv
  <2>3. CASE pc = "adding" /\ disk' \in HalfAdded /\ UNCHANGED ghostVars
    BY <2>1, <2>3 DEF HalfAdded
  <2>4. CASE pc \notin {"copying", "adding"} /\ UNCHANGED <<disk, ghostVars>>
    BY <2>1, <2>4
  <2>5. QED
    BY <1>21, <2>2, <2>3, <2>4 DEF Kill
<1>22. CASE UNCHANGED vars
  BY <1>22 DEF vars
<1>23. QED
  BY <1>1, <1>2, <1>3, <1>4, <1>5, <1>6, <1>7, <1>8, <1>9, <1>10, <1>11, <1>12,
     <1>13, <1>14, <1>15, <1>16, <1>17, <1>18, <1>19, <1>20, <1>21, <1>22
  DEF Next

-----------------------------------------------------------------------------
(* The theorems.                                                           *)

(* Every run begins within the types, with nothing saved.                  *)
LEMMA InitOrchInv ==
  ASSUME OrchestratorConstants, Init
  PROVE  OrchInv /\ InPhase /\ GoldOrBackup
<1>1. TypeOK
  <2>1. DiskType
    BY DEF Init, DiskType, DiskStates
  <2>2. ContextType /\ SavedType
    BY DEF Init, ContextType, SavedType, Paths, Verdicts
  <2>3. OtherTypes
    <3>1. hadGold \in BOOLEAN /\ torn \in Nat
      BY DEF Init
    <3>2. k \in 1 .. Len(PHASE_ORDER) + 1
      BY FourPhases DEF Init
    <3>3. QED
      BY <3>1, <3>2 DEF Init, OtherTypes, PCs, Paths
  <2>4. QED
    BY <2>1, <2>2, <2>3
    DEF TypeOK, DiskType, ContextType, SavedType, OtherTypes, DiskStates, Paths,
        Verdicts
<1>2. OnePath /\ LoopOrder /\ VerdictMade /\ PassedIsTrue /\ FreshOnce
  BY
     DEF Init, OnePath, LoopOrder, VerdictMade, VerdictOf, PassedIsTrue,
         FreshOnce, NoPath
<1>3. ReportedIsThere /\ InPhase
  BY DEF Init, ReportedIsThere, InPhase
<1>4. GoldOrBackup
  BY DEF Init, GoldOrBackup, Complete
<1>5. QED
  BY <1>1, <1>2, <1>3, <1>4 DEF OrchInv

(* Every variable keeps its type, in every mode and whatever is skipped.   *)
THEOREM OrchestratorTypes ==
  Spec => []TypeOK
<1>1. Init => TypeOK /\ InPhase
  BY OrchestratorConstants, InitOrchInv DEF OrchInv
<1>2. TypeOK /\ InPhase /\ [Next]_vars => (TypeOK /\ InPhase)'
  BY OrchestratorConstants, StepTypeOK, StepInPhase
<1>3. QED
  BY <1>1, <1>2, PTL DEF Spec

(* The invariant is inductive for one installation.                        *)
LEMMA OrchInvHolds ==
  ASSUME OneInstallation
  PROVE  Spec => [](OrchInv /\ InPhase)
<1>1. Init => OrchInv /\ InPhase
  BY OrchestratorConstants, InitOrchInv
<1>2. OrchInv /\ InPhase /\ [Next]_vars => (OrchInv /\ InPhase)'
  <2>1. SUFFICES ASSUME OrchInv, InPhase, [Next]_vars
                 PROVE  (OrchInv /\ InPhase)'
    OBVIOUS
  <2>2. TypeOK
    BY <2>1 DEF OrchInv
  <2>3. TypeOK' /\ InPhase'
    BY <2>1, <2>2, OrchestratorConstants, StepTypeOK, StepInPhase
  <2>4. OnePath' /\ LoopOrder' /\ VerdictMade'
    BY <2>1, OrchestratorConstants, OneInstallation,
       StepOnePath, StepLoopOrder, StepVerdictMade
  <2>5. PassedIsTrue' /\ FreshOnce' /\ ReportedIsThere'
    BY <2>1, OrchestratorConstants, OneInstallation,
       StepPassedIsTrue, StepFreshOnce, StepReported
  <2>6. QED
    BY <2>3, <2>4, <2>5 DEF OrchInv
<1>3. QED
  BY <1>1, <1>2, PTL DEF Spec

(* The parts of the invariant that speak of verdicts give VerdictHolds.    *)
LEMMA VerdictFollows ==
  ASSUME OrchInv
  PROVE  VerdictHolds
<1>1. SavedVerdictHolds
  BY
     DEF OrchInv, OnePath, VerdictMade, VerdictOf, PassedIsTrue,
         SavedVerdictHolds, NoPath
<1>2. VerdictAtTheEnd
  BY DEF OrchInv, LoopOrder, VerdictMade, VerdictOf, VerdictAtTheEnd
<1>3. InstalledIsVerified
  BY DEF OrchInv, OnePath, VerdictMade, VerdictOf, InstalledIsVerified
<1>4. QED
  BY <1>1, <1>2, <1>3 DEF VerdictHolds

(* Every promotion that ends makes a complete gold image: resumed runs     *)
(* that trust the verdict of state.json included, however often the        *)
(* process was killed (_promote_to_gold).                                  *)
THEOREM PromotionsAreComplete ==
  ASSUME OneInstallation
  PROVE  Spec => PromotesComplete
<1>1. OrchInv /\ [Next]_vars =>
        [pc = "copying" /\ pc' = "idle" /\ exit' \notin {"killed", "raised"} =>
           disk'["gold"] \subseteq Entries /\ disk'["gold"] \cap manifest = {}]_vars
  <2>1. SUFFICES ASSUME OrchInv, Next, pc = "copying", pc' = "idle", exit' \notin {"killed", "raised"}
                 PROVE  disk'["gold"] \subseteq Entries /\ disk'["gold"] \cap manifest = {}
    OBVIOUS
  <2>2. PromoteEnd
    BY <2>1
    DEF Next, Fresh, Resume, Start, SkipPhase, EndOfPhases, Due, PrepareRemove,
        PrepareCreate,
        InstallBegin, InstallEnd, Verify, AddonNothing, AddonBegin, AddonEnd, ReVerify, Save,
        Finally, NoPromotion, PromoteBegin, PromoteFails, SaveFails, Kill, vars
  <2>3. path = "work" /\ Complete("work")
    BY <2>1 DEF OrchInv, OnePath, VerdictMade, VerdictOf, PassedIsTrue
  <2>4. QED
    BY <2>1, <2>2, <2>3 DEF PromoteEnd, OrchInv, TypeOK, Disks, Complete
<1>2. QED
  BY <1>1, OrchInvHolds, PTL DEF Spec, PromotesComplete

(* A verdict, saved or not, is true and is about the disk that was         *)
(* installed, and what is reported complete is there.                      *)
THEOREM VerdictsHold ==
  ASSUME OneInstallation
  PROVE  Spec => [](VerdictHolds /\ ReportedIsThere)
<1>1. OrchInv => VerdictHolds /\ ReportedIsThere
  BY VerdictFollows DEF OrchInv
<1>2. QED
  BY <1>1, OrchInvHolds, PTL

(* However often the process is killed and whatever raises, a complete     *)
(* gold image is not lost either, unless two promotions in a row are cut   *)
(* short (_promote_to_gold).                                               *)
THEOREM InstallationIsSound ==
  ASSUME OneInstallation
  PROVE  Spec => []InstallSound
<1>1. Init => GoldOrBackup
  BY OrchestratorConstants, InitOrchInv
<1>2. OrchInv /\ GoldOrBackup /\ [Next]_vars => GoldOrBackup'
  BY OrchestratorConstants, OneInstallation, StepGoldOrBackup
<1>3. OrchInv /\ GoldOrBackup => InstallSound
  <2>1. SUFFICES ASSUME OrchInv, GoldOrBackup
                 PROVE  InstallSound
    OBVIOUS
  <2>2. torn \in Nat /\ (torn < 2 => torn = 0 \/ torn = 1)
    BY <2>1 DEF OrchInv, TypeOK
  <2>3. pc = "copying" => Complete(path)
    BY <2>1 DEF OrchInv, OnePath, VerdictMade, VerdictOf, PassedIsTrue
  <2>4. BackupKept
    BY <2>1, <2>2, <2>3 DEF GoldOrBackup, BackupKept
  <2>5. QED
    BY <2>1, <2>4, VerdictFollows DEF OrchInv, InstallSound, ResultKept
<1>4. QED
  BY <1>1, <1>2, <1>3, OrchInvHolds, PTL DEF Spec

-----------------------------------------------------------------------------
(* InstPasses.                                                             *)

(* What the theorem about the rounds is about: what inst insists on needs  *)
(* nothing and excludes nothing.                                           *)
RequiredApart == Required \cap Troubled = {}

(* What the theorem about decisions is about: one file of them is about no *)
(* more incompatible pairs and required packages than one command takes.   *)
About(some) == {pair \in Clash \cup {{p} : p \in Required} : pair \cap some # {}}
FewDecided  == \A some \in Decisions \cup {{}} : Cardinality(About(some)) <= ApplyBatch

-----------------------------------------------------------------------------
(* What inst has: a selection, removals, and what is on the disk.          *)
PackagesKept ==
  /\ sel \subseteq Packages /\ installed \subseteq Packages
  /\ leaving \subseteq installed /\ sel \cap installed = {}

(* Until an installation begins nothing is selected.                       *)
IdleClean ==
  stage = "idle" => sel = {} /\ leaving = {} /\ opened = {} /\ count = 0

PassCounts ==
  /\ visit \in Nat /\ count \in Nat /\ round \in 0..RoundsMax /\ idle \in Nat
  /\ decided \in Decisions \cup {{}} /\ mode \in {"auto", "collect", "apply"}
  /\ stage \in {"match", "apply"} => mode = "apply"
  /\ stage = "resolve" => after \in {"check", "recheck", "go", "quit"}

MarredTyped == marred \in BOOLEAN

InstKept == PackagesKept /\ IdleClean /\ PassCounts /\ MarredTyped

Moves == \E mars \in BOOLEAN : NextVisit(mars)

-----------------------------------------------------------------------------
(* Numbers and orders.                                                     *)

(* In a finite set of numbers every rank is somebody's.                    *)
LEMMA InOrderIsIn ==
  ASSUME NEW T \in SUBSET Int, IsFiniteSet(T), NEW n \in 1..Cardinality(T)
  PROVE  InOrder(T)[n] \in T
<1> DEFINE low(x) == {j \in T : j <= x}
           f == [x \in T |-> Cardinality(low(x))]
<1>1. ASSUME NEW x \in T
      PROVE  IsFiniteSet(low(x)) /\ Cardinality(low(x)) \in 1..Cardinality(T)
  <2>1. IsFiniteSet(low(x)) /\ Cardinality(low(x)) <= Cardinality(T)
    BY FS_Subset
  <2>2. x \in low(x)
    OBVIOUS
  <2>3. Cardinality(low(x)) # 0
    BY <2>1, <2>2, FS_EmptySet
  <2>4. Cardinality(low(x)) \in Nat /\ Cardinality(T) \in Nat
    BY <2>1, FS_CardinalityType
  <2> QED
    BY <2>1, <2>3, <2>4
<1>2. ASSUME NEW x \in T, NEW y \in T, x < y
      PROVE  Cardinality(low(x)) # Cardinality(low(y))
  <2>1. \A j \in T : j <= x => j <= y
    BY <1>2
  <2>2. low(x) \in SUBSET low(y)
    BY <2>1
  <2>3. y \in low(y) /\ y \notin low(x)
    BY <1>2
  <2>4. Cardinality(low(y)) = Cardinality(low(x)) => low(y) = low(x)
    BY <1>1, <2>2, FS_Subset
  <2> QED
    BY <2>3, <2>4
<1>3. f \in [T -> 1..Cardinality(T)]
  BY <1>1
<1>4. \A x, y \in T : f[x] = f[y] => x = y
  <2> SUFFICES ASSUME NEW x \in T, NEW y \in T, x # y PROVE f[x] # f[y]
    OBVIOUS
  <2>1. x < y \/ y < x
    OBVIOUS
  <2> QED
    BY <1>2, <2>1
<1>5. Cardinality(T) \in Nat
  BY FS_CardinalityType
<1>6. IsFiniteSet(1..Cardinality(T)) /\ Cardinality(1..Cardinality(T)) = Cardinality(T)
  BY <1>5, FS_Interval
<1> HIDE DEF f
<1>7. f \in Injection(T, 1..Cardinality(T))
  BY <1>3, <1>4 DEF Injection, IsInjective
<1>8. f \in Surjection(T, 1..Cardinality(T))
  BY <1>6, <1>7, FS_Injection
<1>9. \E x \in T : f[x] = n
  BY <1>8 DEF Surjection
<1>10. \E x \in T : Cardinality(low(x)) = n
  BY <1>9 DEF f
<1> QED
  BY <1>10 DEF InOrder

(* The foundation distributions of a pass are foundation distributions.    *)
LEMMA EarlyIsEarly ==
  ASSUME InstConstants
  PROVE  Early \in Seq(EarlyDiscs)
<1> DEFINE at == {j \in DOMAIN Discs : IsEarly(Discs[j])}
<1>1. Discs \in Seq(ToSet(Discs))
  BY DEF InstConstants
<1>2. DOMAIN Discs = 1..Len(Discs) /\ Len(Discs) \in Nat
  BY <1>1
<1>3. at \in SUBSET (1..Len(Discs)) /\ at \in SUBSET Int
  BY <1>2
<1> HIDE DEF at
<1>4. IsFiniteSet(at)
  <2>1. IsFiniteSet(1..Len(Discs))
    BY <1>2, FS_Interval
  <2> QED
    BY <1>3, <2>1, FS_Subset
<1>5. ASSUME NEW n \in 1..Cardinality(at)
      PROVE  Discs[InOrder(at)[n]] \in EarlyDiscs
  <2>1. InOrder(at)[n] \in at
    BY <1>3, <1>4, <1>5, InOrderIsIn
  <2> QED
    BY <2>1 DEF at, IsEarly
<1>6. Early = [n \in 1..Cardinality(at) |-> Discs[InOrder(at)[n]]]
  BY DEF Early, Those, at
<1>7. Cardinality(at) \in Nat
  BY <1>4, FS_CardinalityType
<1> QED
  BY <1>5, <1>6, <1>7

-----------------------------------------------------------------------------
(* Conflicts and what is done about them.                                  *)

(* Whoever a conflict is about is there, and is one of the troubled.       *)
LEMMA ConflictParties ==
  ASSUME InstConstants, PackagesKept, NEW c \in Conflicts
  PROVE  /\ c.type # "required" => c.subject \in There \cap Troubled
         /\ c.type = "required" => c.subject \in Required \ There /\ c.other = c.subject
         /\ c.subject \in Packages /\ c.other \in Packages
         /\ c.type = "missing_prereq" => c.subject \in sel /\ c.other \notin There
         /\ c.type = "cannot_remove" => c.subject \in installed \ leaving
         /\ c.type = "incompatible" =>
              /\ c.subject \in sel /\ c.other \in There \cap Troubled
              /\ {c.subject, c.other} \in Clash
              /\ c.other \in sel => c.subject < c.other
         /\ c.type \in {"missing_prereq", "cannot_remove", "incompatible", "required"}
<1> USE DEF InstConstants, PackagesKept
<1>1. There \subseteq Packages
  BY DEF There
<1>2. CASE \E l \in Lacking :
             c = Conflict(IF l[1] \in sel THEN "missing_prereq" ELSE "cannot_remove", l[1], l[2])
  <2>1. PICK l \in Lacking :
          c = Conflict(IF l[1] \in sel THEN "missing_prereq" ELSE "cannot_remove", l[1], l[2])
    BY <1>2
  <2>2. l[1] \in There /\ l[2] \in Packages /\ l[2] \in Needs[l[1]] \ There
    BY <2>1 DEF Lacking
  <2>3. l[1] \in Troubled
    BY <1>1, <2>2 DEF Troubled
  <2>4. l[1] \notin sel => l[1] \in installed \ leaving
    BY <2>2 DEF There
  <2> QED
    BY <2>1, <2>2, <2>3, <2>4 DEF Conflict
<1>3. CASE \E l \in Clashing : c = Conflict("incompatible", l[1], l[2])
  <2>1. PICK l \in Clashing : c = Conflict("incompatible", l[1], l[2])
    BY <1>3
  <2>2. /\ l[1] \in sel /\ l[2] \in There /\ {l[1], l[2]} \in Clash
        /\ l[2] \in sel => l[1] < l[2]
    BY <2>1 DEF Clashing
  <2>3. l[1] \in There /\ l[1] \in Troubled /\ l[2] \in Troubled
    BY <1>1, <2>2 DEF Troubled, There
  <2> QED
    BY <1>1, <2>1, <2>2, <2>3 DEF Conflict
<1>4. CASE \E p \in Required \ There : c = Conflict("required", p, p)
  BY <1>4 DEF Conflict
<1> QED
  BY <1>2, <1>3, <1>4 DEF Conflicts

(* What is chosen adds a package of the disks, in the rounds that may; or  *)
(* it takes away one that is in trouble; or it adds one that inst insists  *)
(* on, or comes to nothing.                                                *)
TakesAway(o) ==
  \/ o.action = "keep" /\ o.package \in sel \cap Troubled
  \/ o.action = "remove" /\ o.package \in (installed \ leaving) \cap Troubled

Insists(o) == o.action = "install" /\ o.package \in Required \ There
Settles(o) == TakesAway(o) \/ Insists(o) \/ o.action = "open"

LEMMA OptionTakes ==
  ASSUME InstConstants, PackagesKept, NEW c \in Conflicts, NEW also \in BOOLEAN
  PROVE  \/ /\ also /\ Option(c, also).action = "install"
            /\ Option(c, also).package \in Packages \ There
         \/ Settles(Option(c, also))
<1> USE DEF Settles
<1>1. CASE c.type = "missing_prereq" /\ also /\ c.other \in Available
  BY <1>1, ConflictParties DEF Option, Choice
<1>2. CASE c.type = "missing_prereq" /\ ~(also /\ c.other \in Available)
  BY <1>2, ConflictParties DEF Option, Choice, TakesAway
<1>3. CASE c.type = "cannot_remove"
  BY <1>3, ConflictParties DEF Option, Choice, TakesAway
<1>4. CASE c.type = "incompatible"
  BY <1>4, ConflictParties DEF Option, Choice, TakesAway
<1>5. CASE c.type = "required"
  BY <1>5, ConflictParties DEF Option, Choice, Insists
<1> QED
  BY <1>1, <1>2, <1>3, <1>4, <1>5, ConflictParties

-----------------------------------------------------------------------------
(* A command keeps the packages apart: what is selected is not on the      *)
(* disk, and only what is on it is to leave.                               *)
LEMMA AppliedKeeps ==
  ASSUME InstConstants, PackagesKept, UNCHANGED installed, NEW choices, Applied(choices),
         \A o \in choices : /\ o.action = "install" => o.package \in Packages
                            /\ o.action = "remove" => o.package \in installed
  PROVE  PackagesKept'
<1>1. Chosen(choices, "install") \subseteq Packages
  BY DEF Chosen
<1>2. Chosen(choices, "remove") \subseteq installed
  BY DEF Chosen
<1> HIDE DEF Chosen
<1> QED
  BY <1>1, <1>2 DEF Applied, NotYet, PackagesKept

(* What is left to settle: packages in trouble, and what inst misses.      *)
Unsettled == (There \cap Troubled) \cup (Required \ There)

(* A command that settles and adds nothing else leaves no more, and less   *)
(* if it changes anything.                                                 *)
LEMMA TakenAway ==
  ASSUME InstConstants, RequiredApart, PackagesKept, UNCHANGED installed, NEW choices,
         Applied(choices), \A o \in choices : Settles(o)
  PROVE  /\ Cardinality(Unsettled') <= Cardinality(Unsettled)
         /\ \/ UNCHANGED <<sel, leaving>>
            \/ Cardinality(Unsettled') < Cardinality(Unsettled)
<1> DEFINE in   == Chosen(choices, "install")
           out  == Chosen(choices, "keep")
           gone == Chosen(choices, "remove")
<1>1. in \subseteq Required \ There
  BY DEF Chosen, Settles, TakesAway, Insists
<1>2. out \subseteq sel \cap Troubled
  BY DEF Chosen, Settles, TakesAway, Insists
<1>3. gone \subseteq (installed \ leaving) \cap Troubled
  BY DEF Chosen, Settles, TakesAway, Insists
<1>4. /\ sel' = (sel \ out) \cup NotYet(in)
      /\ leaving' = (leaving \ in) \cup gone
  BY DEF Applied
<1> HIDE DEF in, out, gone
<1>5. in \cap Troubled = {}
  BY <1>1 DEF RequiredApart
<1>6. There' = ((There \ out) \ gone) \cup in
  BY <1>1, <1>2, <1>3, <1>4, <1>5 DEF There, PackagesKept, NotYet
<1>7. Unsettled' = (There' \cap Troubled) \cup (Required \ There')
  BY DEF Unsettled, Troubled
<1>8. Unsettled' = ((Unsettled \ out) \ gone) \ in
  BY <1>1, <1>2, <1>3, <1>5, <1>6, <1>7 DEF Unsettled, RequiredApart
<1>9. out \cup gone \cup in \subseteq Unsettled
  BY <1>1, <1>2, <1>3 DEF Unsettled, There
<1>10. IsFiniteSet(Unsettled)
  <2>1. Unsettled \in SUBSET Packages
    BY DEF Unsettled, Troubled, InstConstants
  <2> QED
    BY <2>1, FS_Subset DEF InstConstants
<1>11. /\ IsFiniteSet(Unsettled') /\ Cardinality(Unsettled') <= Cardinality(Unsettled)
       /\ Cardinality(Unsettled) = Cardinality(Unsettled') => Unsettled = Unsettled'
  <2>1. Unsettled' \in SUBSET Unsettled
    BY <1>8
  <2> QED
    BY <1>10, <2>1, FS_Subset
<1>12. Unsettled = Unsettled' => UNCHANGED <<sel, leaving>>
  <2> SUFFICES ASSUME Unsettled = Unsettled' PROVE UNCHANGED <<sel, leaving>>
    OBVIOUS
  <2>1. out = {} /\ gone = {} /\ in = {}
    BY <1>8, <1>9
  <2> QED
    BY <1>4, <2>1 DEF NotYet
<1>13. Cardinality(Unsettled') \in Nat /\ Cardinality(Unsettled) \in Nat
  BY <1>10, <1>11, FS_CardinalityType
<1> QED
  BY <1>11, <1>12, <1>13

(* A round's choices.                                                      *)
RoundChoices == {Option(c, AlsoNow) : c \in Numbered(1..Batch)}

LEMMA RoundTakes ==
  ASSUME InstConstants, PackagesKept
  PROVE  \A o \in RoundChoices :
              \/ AlsoNow /\ o.action = "install" /\ o.package \in Packages \ There
              \/ Settles(o)
<1>3. AlsoNow \in BOOLEAN
  BY DEF AlsoNow
<1>4. Numbered(1..Batch) \subseteq Conflicts
  BY DEF Numbered
<1> HIDE DEF Conflicts, AlsoNow
<1>5. ASSUME NEW o \in RoundChoices
      PROVE  \/ AlsoNow /\ o.action = "install" /\ o.package \in Packages \ There
             \/ Settles(o)
  <2>1. PICK c \in Conflicts : o = Option(c, AlsoNow)
    BY <1>4 DEF RoundChoices
  <2> QED
    BY <1>3, <2>1, OptionTakes
<1> QED
  BY <1>5

(* What a command that leaves subjects out takes away.                     *)
LEMMA LeftOut ==
  ASSUME InstConstants, PackagesKept, NEW numbers,
         NEW o \in {LeaveOut(c) : c \in Numbered(numbers)}
  PROVE  /\ o.action \in {"keep", "install", "open"}
         /\ o.action = "install" => o.package \in Packages
<1>1. PICK c \in Conflicts : o = LeaveOut(c)
  BY DEF Numbered
<1> HIDE DEF Conflicts
<1> QED
  BY <1>1, ConflictParties DEF LeaveOut, Option, Choice

-----------------------------------------------------------------------------
(* Every step keeps the packages apart.                                    *)
LEMMA StepPackages ==
  ASSUME InstConstants, InstKept, [InstNext]_instVars
  PROVE  PackagesKept'
<1> USE DEF InstKept, flowVars, openVars, pkgVars, roundVars, sendVars, visitVars, noteVars
<1>1. CASE StartInstall
  BY <1>1 DEF StartInstall, PackagesKept, IdleClean, InstConstants
<1>2. CASE UNCHANGED pkgVars
  BY <1>2 DEF PackagesKept
<1>3. CASE Select
  <2>1. PICK asked \in SUBSET (Packages \ installed) :
          sel' = asked \cup NotYet(UNION {Needs[p] : p \in asked} \cap Available)
    <3> DEFINE essential == IF flow = "percd" /\ mode = "auto" /\ visit = 1 THEN Essential ELSE {}
               asked == NotYet((Wanted \cup essential) \cap Available)
    <3>1. asked \in SUBSET (Packages \ installed)
      BY DEF InstConstants, NotYet
    <3>2. sel' = asked \cup NotYet(UNION {Needs[p] : p \in asked} \cap Available)
      BY <1>3 DEF Select
    <3> QED
      BY <3>1, <3>2
  <2>2. UNION {Needs[p] : p \in asked} \subseteq Packages
    <3>1. \A p \in asked : Needs[p] \subseteq Packages
      BY DEF InstConstants
    <3> QED
      BY <3>1
  <2>3. sel' \subseteq Packages /\ sel' \cap installed = {}
    BY <2>1, <2>2 DEF NotYet
  <2> QED
    BY <1>3, <2>3 DEF Select, PackagesKept
<1>4. CASE ResolveRound
  <2>1. Applied(RoundChoices) /\ UNCHANGED installed
    BY <1>4 DEF ResolveRound, RoundChoices
  <2>2. \A o \in RoundChoices : /\ o.action = "install" => o.package \in Packages
                                /\ o.action = "remove" => o.package \in installed
    BY RoundTakes DEF Settles, TakesAway, Insists, InstConstants
  <2> QED
    BY <2>1, <2>2, AppliedKeeps
<1>5. CASE ResolveInline
  BY <1>5 DEF ResolveInline, PackagesKept
<1>6. CASE ApplyLabels
  BY <1>6, LeftOut, AppliedKeeps DEF ApplyLabels
<1>7. CASE CheckTargets
  BY <1>7 DEF CheckTargets, PackagesKept, NotYet, InstConstants
<1>8. CASE GoRefused
  BY <1>8, <1>2, LeftOut, AppliedKeeps DEF GoRefused
<1>9. CASE GoDone
  BY <1>9 DEF GoDone, PackagesKept
<1>10. CASE GoElsewhere
  BY <1>10 DEF GoElsewhere, PackagesKept
<1>11. CASE Mounted \/ MountFails \/ OpenDisc \/ OpenEnds \/ ResolveEnds \/ Match \/ ApplyEnds
            \/ GoStalls \/ Quit \/ VerifyBoot \/ UNCHANGED instVars
  BY <1>2, <1>11 DEF Mounted, MountFails, OpenDisc, OpenEnds, ResolveEnds, Match, ApplyEnds,
     GoStalls, Quit, VerifyBoot, instVars
<1>12. CASE QuitResolves
  BY <1>12 DEF QuitResolves, PackagesKept
<1> QED
  BY <1>1, <1>3, <1>4, <1>5, <1>6, <1>7, <1>8, <1>9, <1>10, <1>11, <1>12 DEF InstNext, InstStep

(* No step comes back to where nothing has begun.                          *)
LEMMA StepIdle ==
  ASSUME IdleClean, PassCounts, [InstNext]_instVars
  PROVE  IdleClean'
<1> USE DEF IdleClean, PassCounts, GoTo, BeginVisit, NextVisit, CdByCd, Resolve, NoResolve,
            NextRound, flowVars,
            openVars, pkgVars, roundVars, sendVars, visitVars, noteVars
<1>1. CASE Mounted \/ MountFails \/ OpenDisc \/ OpenEnds \/ Select
  BY <1>1 DEF Mounted, MountFails, OpenDisc, OpenEnds, Select
<1>2. CASE ResolveRound \/ ResolveInline \/ ResolveEnds \/ Match \/ ApplyLabels \/ ApplyEnds
  BY <1>2 DEF ResolveRound, ResolveInline, ResolveEnds, Match, ApplyLabels, ApplyEnds
<1>3. CASE CheckTargets \/ GoRefused \/ GoDone \/ GoElsewhere \/ GoStalls \/ QuitResolves
  \/ Quit \/ VerifyBoot
  BY <1>3 DEF CheckTargets, GoRefused, GoDone, GoElsewhere, GoStalls, QuitResolves, Quit, VerifyBoot
<1>4. CASE StartInstall \/ UNCHANGED instVars
  BY <1>4 DEF StartInstall, instVars
<1> QED
  BY <1>1, <1>2, <1>3, <1>4 DEF InstNext, InstStep

LEMMA StepPassCounts ==
  ASSUME InstConstants, PassCounts, [InstNext]_instVars
  PROVE  PassCounts'
<1> USE DEF PassCounts, GoTo, BeginVisit, NextVisit, CdByCd, Resolve, NoResolve, flowVars,
            openVars, pkgVars, roundVars, sendVars, visitVars, noteVars
<1>0. RoundsMax \in Nat
  BY DEF InstConstants
<1>1. CASE Mounted
  BY <1>1 DEF Mounted
<1>17. CASE MountFails
  <2>1. UNCHANGED <<flow, decided, visit, queue, count, tries, visitVars>> \/ CdByCd
        \/ NextVisit(FALSE)
    BY <1>17 DEF MountFails
  <2>2. UNCHANGED <<mode, roundVars>> /\ stage = "mount"
    BY <1>17 DEF MountFails
  <2>3. stage' \notin {"match", "apply", "resolve"}
    BY <1>17 DEF MountFails
  <2>4. visit' \in Nat /\ count' \in Nat
    BY <2>1
  <2>5. decided' \in Decisions \cup {{}}
    BY <2>1
  <2>6. round' \in 0..RoundsMax /\ idle' \in Nat /\ mode' \in {"auto", "collect", "apply"}
    BY <2>2
  <2> QED
    BY <2>3, <2>4, <2>5, <2>6
<1>13. CASE OpenDisc
  BY <1>13 DEF OpenDisc
<1>14. CASE OpenEnds
  <2>1. UNCHANGED <<flow, decided, visit, queue, count, tries, visitVars>> \/ CdByCd
        \/ NextVisit(FALSE)
    BY <1>14 DEF OpenEnds
  <2>2. UNCHANGED <<mode, roundVars>> /\ stage = "open"
    BY <1>14 DEF OpenEnds
  <2>3. stage' \notin {"match", "apply", "resolve"}
    BY <1>14 DEF OpenEnds
  <2>4. visit' \in Nat /\ count' \in Nat
    BY <2>1
  <2>5. decided' \in Decisions \cup {{}}
    BY <2>1
  <2>6. round' \in 0..RoundsMax /\ idle' \in Nat /\ mode' \in {"auto", "collect", "apply"}
    BY <2>2
  <2> QED
    BY <2>3, <2>4, <2>5, <2>6
<1>2. CASE Select
  BY <1>0, <1>2 DEF Select
<1>15. CASE Match \/ ApplyLabels \/ ApplyEnds
  BY <1>0, <1>15 DEF Match, ApplyLabels, ApplyEnds
<1>3. CASE ResolveRound \/ ResolveInline
  <2>1. /\ round < RoundsMax /\ round' = round + 1
        /\ idle' = IF UNCHANGED <<sel, leaving>> THEN idle + 1 ELSE idle
        /\ UNCHANGED <<stage, flowVars, openVars, after>>
    BY <1>3 DEF ResolveRound, ResolveInline, NextRound
  <2>2. idle' \in Nat
    BY <2>1
  <2> QED
    BY <1>0, <2>1, <2>2
<1>4. CASE ResolveEnds
  BY <1>4 DEF ResolveEnds
<1>5. CASE CheckTargets
  BY <1>0, <1>5 DEF CheckTargets
<1>6. CASE GoRefused
  <2>1. \/ UNCHANGED <<stage, flow, decided, visit, queue, count>> /\ NoResolve
        \/ UNCHANGED <<flow, decided, visit, queue, count>> /\ Resolve("go")
        \/ NextVisit(FALSE) /\ NoResolve
    BY <1>6 DEF GoRefused
  <2>2. UNCHANGED mode /\ stage = "go"
    BY <1>6 DEF GoRefused
  <2>3. visit' \in Nat /\ count' \in Nat
    BY <2>1
  <2>4. decided' \in Decisions \cup {{}}
    BY <2>1
  <2>5. round' \in 0..RoundsMax /\ idle' \in Nat
    BY <1>0, <2>1
  <2>6. stage' \notin {"match", "apply"} /\ (stage' = "resolve" => after' = "go")
    BY <2>1, <2>2
  <2> QED
    BY <2>2, <2>3, <2>4, <2>5, <2>6
<1>7. CASE GoDone \/ GoElsewhere
  <2>1. Moves /\ UNCHANGED <<mode, round, after, idle>>
    BY <1>7 DEF GoDone, GoElsewhere, Moves
  <2> QED
    BY <2>1 DEF Moves
<1>8. CASE GoStalls
  BY <1>8 DEF GoStalls
<1>9. CASE Quit
  BY <1>0, <1>9 DEF Quit
<1>16. CASE QuitResolves
  BY <1>0, <1>16 DEF QuitResolves
<1>10. CASE VerifyBoot
  BY <1>10 DEF VerifyBoot
<1>11. CASE StartInstall
  BY <1>11 DEF StartInstall
<1>12. CASE UNCHANGED instVars
  BY <1>12 DEF instVars
<1> QED
  BY <1>1, <1>2, <1>3, <1>4, <1>5, <1>6, <1>7, <1>8, <1>9, <1>10, <1>11, <1>12, <1>13, <1>14,
     <1>15, <1>16, <1>17 DEF InstNext, InstStep

LEMMA StepMarred ==
  ASSUME MarredTyped, [InstNext]_instVars
  PROVE  MarredTyped'
<1> USE DEF MarredTyped, visitVars
<1>1. ASSUME NEW mars, NextVisit(mars)
      PROVE  MarredTyped'
  BY <1>1 DEF NextVisit
<1>2. ASSUME CdByCd
      PROVE  MarredTyped'
  BY <1>2 DEF CdByCd
<1>3. CASE Mounted \/ MountFails \/ OpenDisc \/ OpenEnds \/ Select
  BY <1>1, <1>2, <1>3 DEF Mounted, MountFails, OpenDisc, OpenEnds, Select
<1>4. CASE ResolveRound \/ ResolveInline \/ ResolveEnds \/ Match \/ ApplyLabels \/ ApplyEnds
  BY <1>4 DEF ResolveRound, ResolveInline, ResolveEnds, Match, ApplyLabels, ApplyEnds
<1>5. CASE CheckTargets \/ GoRefused \/ GoDone \/ GoElsewhere \/ GoStalls
  BY <1>1, <1>5 DEF CheckTargets, GoRefused, GoDone, GoElsewhere, GoStalls
<1>6. CASE QuitResolves \/ Quit \/ VerifyBoot \/ StartInstall \/ UNCHANGED instVars
  BY <1>6 DEF QuitResolves, Quit, VerifyBoot, StartInstall, instVars
<1> QED
  BY <1>3, <1>4, <1>5, <1>6 DEF InstNext, InstStep

(* It holds at first, too. *)
LEMMA InitKept ==
  ASSUME InstConstants, InstInit
  PROVE  InstKept
<1>1. PackagesKept /\ IdleClean
  BY DEF InstInit, PackagesKept, IdleClean
<1>2. PassCounts
  BY DEF InstConstants, InstInit, PassCounts
<1>3. MarredTyped
  BY DEF InstInit, MarredTyped
<1> QED
  BY <1>1, <1>2, <1>3 DEF InstKept

(* What is selected or to leave makes sense at every step.                 *)
THEOREM SelectionMakesSense == InstSpec => []InstKept
<1>1. InstInit => InstKept
  BY InstConstants, InitKept
<1>2. InstKept /\ [InstNext]_instVars => InstKept'
  BY InstConstants, StepPackages, StepIdle, StepPassCounts, StepMarred DEF InstKept
<1> QED
  BY <1>1, <1>2, PTL DEF InstSpec

-----------------------------------------------------------------------------
(* The rounds.                                                             *)

Burden == Cardinality(Unsettled)

(* Past the rounds that may add packages every round has settled something *)
(* or was idle.                                                            *)
RoundsLeft ==
  stage = "resolve" /\ round > AlsoRounds =>
    Burden + round <= AlsoRounds + Cardinality(Troubled \cup Required) + idle

AutoResolved ==
  (mode = "auto" /\ stage # "resolve") \/ stage = "idle" => resolved \/ idle >= Spare

(* What is to be settled can be counted.                                   *)
LEMMA UnsettledCounted ==
  ASSUME InstConstants
  PROVE  /\ Burden \in Nat /\ Cardinality(Troubled \cup Required) \in Nat
         /\ Burden <= Cardinality(Troubled \cup Required)
         /\ Burden' \in Nat /\ Burden' <= Cardinality(Troubled \cup Required)
<1>1. Troubled \cup Required \in SUBSET Packages
  BY DEF Troubled, InstConstants
<1>2. IsFiniteSet(Troubled \cup Required)
  BY <1>1, FS_Subset DEF InstConstants
<1>3. /\ Unsettled \in SUBSET (Troubled \cup Required)
      /\ Unsettled' \in SUBSET (Troubled \cup Required)
  BY DEF Unsettled, Troubled
<1>4. /\ IsFiniteSet(Unsettled) /\ Cardinality(Unsettled) <= Cardinality(Troubled \cup Required)
      /\ IsFiniteSet(Unsettled') /\ Cardinality(Unsettled') <= Cardinality(Troubled \cup Required)
  BY <1>2, <1>3, FS_Subset
<1>5. /\ Cardinality(Unsettled) \in Nat /\ Cardinality(Unsettled') \in Nat
      /\ Cardinality(Troubled \cup Required) \in Nat
  BY <1>2, <1>4, FS_CardinalityType
<1> QED
  BY <1>4, <1>5 DEF Burden

(* A round past those has settled something, by its choices or with what   *)
(* inst asked about by itself, or it is counted as idle.                   *)
LEMMA RoundLess ==
  ASSUME InstConstants, RequiredApart, InstKept, round >= AlsoRounds,
         ResolveRound \/ ResolveInline
  PROVE  Burden' + idle < Burden + idle'
<1>1. PackagesKept /\ idle \in Nat
  BY DEF InstKept, PassCounts
<1>2. idle' = IF UNCHANGED <<sel, leaving>> THEN idle + 1 ELSE idle
  BY DEF ResolveRound, ResolveInline, NextRound
<1>3. ASSUME NEW choices, Applied(choices), \A o \in choices : Settles(o), UNCHANGED installed
      PROVE  Burden' + idle < Burden + idle'
  <2>1. /\ Burden' <= Burden
        /\ UNCHANGED <<sel, leaving>> \/ Burden' < Burden
    BY <1>1, <1>3, TakenAway DEF Burden
  <2>2. Burden \in Nat /\ Burden' \in Nat
    BY UnsettledCounted
  <2> QED
    BY <1>1, <1>2, <2>1, <2>2
<1>4. CASE ResolveRound
  <2>1. Applied(RoundChoices) /\ UNCHANGED installed
    BY <1>4 DEF ResolveRound, RoundChoices
  <2>2. ~AlsoNow
    BY DEF AlsoNow, InstKept, PassCounts, InstConstants
  <2>3. \A o \in RoundChoices : Settles(o)
    BY <1>1, <2>1, <2>2, RoundTakes
  <2> QED
    BY <1>3, <2>1, <2>3
<1>5. CASE ResolveInline
  <2>1. PICK blockers \in SUBSET ({l[2] : l \in Clashing} \cap installed) :
          leaving' = leaving \cup blockers
    BY <1>5 DEF ResolveInline
  <2>2. UNCHANGED installed /\ UNCHANGED sel
    BY <1>5 DEF ResolveInline
  <2>3. blockers \subseteq (installed \ leaving) \cap Troubled
    <3>1. ASSUME NEW l \in Clashing, l[2] \in installed
          PROVE  l[2] \in (installed \ leaving) \cap Troubled
      <4>1. l[2] \in There /\ {l[1], l[2]} \in Clash
        BY DEF Clashing
      <4> QED
        BY <1>1, <3>1, <4>1 DEF There, PackagesKept, Troubled, InstConstants
    <3> QED
      BY <2>1, <3>1
  <2> DEFINE choices == {Choice("remove", x) : x \in blockers}
  <2>4. ASSUME NEW o \in choices
        PROVE  o.action = "remove" /\ o.package \in blockers
    BY <2>4 DEF Choice
  <2>5. \A o \in choices : Settles(o)
    BY <2>3, <2>4 DEF Settles, TakesAway
  <2>6. ASSUME NEW x \in blockers
        PROVE  \E o \in choices : o.action = "remove" /\ o.package = x
    <3>1. /\ Choice("remove", x) \in choices
          /\ Choice("remove", x).action = "remove" /\ Choice("remove", x).package = x
      BY DEF Choice
    <3> HIDE DEF choices
    <3> QED
      BY <3>1
  <2> HIDE DEF choices
  <2>7. /\ Chosen(choices, "remove") = blockers
        /\ Chosen(choices, "keep") = {} /\ Chosen(choices, "install") = {}
    BY <2>4, <2>6 DEF Chosen
  <2>8. Applied(choices)
    BY <2>1, <2>2, <2>7 DEF Applied, NotYet
  <2> QED
    BY <1>3, <2>2, <2>5, <2>8
<1> QED
  BY <1>4, <1>5

(* Every other way into a resolution begins it with the first round.       *)
LEMMA ResolveBegins ==
  ASSUME PassCounts, [InstNext]_instVars, ~ResolveRound, ~ResolveInline, stage' = "resolve"
  PROVE  \/ round' = 0
         \/ UNCHANGED <<stage, round, idle, pkgVars>>
<1> USE DEF PassCounts, GoTo, BeginVisit, NextVisit, CdByCd, Resolve, NoResolve, NextRound,
            flowVars, openVars, pkgVars, roundVars, sendVars, visitVars, noteVars
<1>1. CASE Mounted \/ MountFails \/ OpenDisc \/ OpenEnds \/ Select
  BY <1>1 DEF Mounted, MountFails, OpenDisc, OpenEnds, Select
<1>2. CASE ResolveEnds \/ Match \/ ApplyLabels \/ ApplyEnds
  BY <1>2 DEF ResolveEnds, Match, ApplyLabels, ApplyEnds
<1>3. CASE CheckTargets
  BY <1>3 DEF CheckTargets
<1>4. CASE GoRefused
  BY <1>4 DEF GoRefused
<1>5. CASE GoDone \/ GoElsewhere
  BY <1>5 DEF GoDone, GoElsewhere
<1>6. CASE GoStalls \/ QuitResolves \/ Quit \/ VerifyBoot \/ StartInstall
  BY <1>6 DEF GoStalls, QuitResolves, Quit, VerifyBoot, StartInstall
<1>7. CASE UNCHANGED instVars
  BY <1>7 DEF instVars
<1> QED
  BY <1>1, <1>2, <1>3, <1>4, <1>5, <1>6, <1>7 DEF InstNext, InstStep

LEMMA OneMore ==
  ASSUME NEW a \in Nat, NEW b \in Nat, NEW c \in Nat, NEW i \in Nat, NEW j \in Nat, NEW r \in Nat,
         b + i < a + j, a + r <= c + i
  PROVE  b + (r + 1) <= c + j
OBVIOUS

LEMMA StepRoundsLeft ==
  ASSUME InstConstants, RequiredApart, InstKept, RoundsLeft, [InstNext]_instVars
  PROVE  RoundsLeft'
<1>1. AlsoRounds \in Nat /\ round \in Nat /\ idle \in Nat /\ PassCounts
  BY DEF InstKept, PassCounts, InstConstants
<1>2. CASE ResolveRound \/ ResolveInline
  <2>1. stage = "resolve" /\ round' = round + 1
    BY <1>2 DEF ResolveRound, ResolveInline, NextRound
  <2>2. CASE round < AlsoRounds
    BY <1>1, <2>1, <2>2 DEF RoundsLeft
  <2>3. CASE round >= AlsoRounds
    <3>1. Burden' + idle < Burden + idle'
      BY <1>2, <2>3, RoundLess
    <3>2. /\ Burden \in Nat /\ Burden' \in Nat /\ Cardinality(Troubled \cup Required) \in Nat
          /\ Burden <= Cardinality(Troubled \cup Required)
      BY UnsettledCounted
    <3>3. Burden + round <= AlsoRounds + Cardinality(Troubled \cup Required) + idle
      BY <1>1, <2>1, <2>3, <3>2 DEF RoundsLeft
    <3>4. idle' \in Nat
      <4>1. idle' = IF UNCHANGED <<sel, leaving>> THEN idle + 1 ELSE idle
        BY <1>2 DEF ResolveRound, ResolveInline, NextRound
      <4> QED
        BY <1>1, <4>1
    <3>5. Burden' + round' <= AlsoRounds + Cardinality(Troubled \cup Required) + idle'
      <4> DEFINE c == AlsoRounds + Cardinality(Troubled \cup Required)
      <4>1. c \in Nat /\ Burden + round <= c + idle
        BY <1>1, <3>2, <3>3
      <4> HIDE DEF c
      <4>2. Burden' + (round + 1) <= c + idle'
        BY <1>1, <3>1, <3>2, <3>4, <4>1, OneMore
      <4>3. Burden' + round' <= c + idle'
        BY <2>1, <4>2
      <4> QED
        BY <4>3 DEF c
    <3> QED
      BY <3>5 DEF RoundsLeft, Troubled
  <2> QED
    BY <1>1, <2>2, <2>3
<1>3. CASE ~ResolveRound /\ ~ResolveInline /\ stage' = "resolve"
  <2>1. CASE round' = 0
    BY <1>1, <2>1 DEF RoundsLeft
  <2>2. CASE UNCHANGED <<stage, round, idle, pkgVars>>
    <3>1. Burden' = Burden
      BY <2>2 DEF pkgVars, Burden, Unsettled, There, Troubled
    <3> QED
      BY <2>2, <3>1 DEF RoundsLeft, Troubled
  <2> QED
    BY <1>1, <1>3, <2>1, <2>2, ResolveBegins
<1>4. CASE stage' # "resolve"
  BY <1>4 DEF RoundsLeft
<1> QED
  BY <1>2, <1>3, <1>4

LEMMA StepAutoResolved ==
  ASSUME InstConstants, InstKept, RoundsLeft, AutoResolved, [InstNext]_instVars
  PROVE  AutoResolved'
<1> USE DEF InstKept, AutoResolved, PassCounts, GoTo, BeginVisit, NextVisit, CdByCd, Resolve,
            NoResolve, NextRound,
            flowVars, openVars, pkgVars, roundVars, sendVars, visitVars, noteVars
<1>1. CASE Mounted \/ MountFails \/ OpenDisc \/ OpenEnds \/ Select
  BY <1>1 DEF Mounted, MountFails, OpenDisc, OpenEnds, Select
<1>2. CASE ResolveEnds
  <2>1. round < RoundsMax \/ idle >= Spare
    <3>1. /\ {round, idle, RoundsMax, AlsoRounds} \subseteq Nat
          /\ round <= RoundsMax /\ stage = "resolve"
      BY <1>2 DEF InstConstants, ResolveEnds
    <3>2. /\ Burden \in Nat /\ Cardinality(Troubled \cup Required) \in Nat
      BY UnsettledCounted
    <3> QED
      BY <3>1, <3>2 DEF RoundsLeft, Spare
  <2>2. UNCHANGED idle /\ resolved' = (round < RoundsMax) /\ Spare' = Spare
    BY <1>2 DEF ResolveEnds, Spare, Troubled
  <2> QED
    BY <2>1, <2>2
<1>3. CASE ResolveRound \/ ResolveInline \/ Match \/ ApplyLabels \/ ApplyEnds
  BY <1>3 DEF ResolveRound, ResolveInline, Match, ApplyLabels, ApplyEnds
<1>4. CASE CheckTargets
  BY <1>4 DEF CheckTargets
<1>5. CASE GoRefused
  BY <1>5 DEF GoRefused
<1>6. CASE GoDone \/ GoElsewhere
  BY <1>6 DEF GoDone, GoElsewhere
<1>7. CASE GoStalls \/ QuitResolves \/ Quit \/ VerifyBoot \/ StartInstall
  BY <1>7 DEF GoStalls, QuitResolves, Quit, VerifyBoot, StartInstall
<1>8. CASE UNCHANGED instVars
  BY <1>8 DEF instVars
<1> QED
  BY <1>1, <1>2, <1>3, <1>4, <1>5, <1>6, <1>7, <1>8 DEF InstNext, InstStep

(* The rounds that there are settle every conflict, unless as many of them *)
(* as there are to spare are idle.                                         *)
THEOREM RoundsAreEnough ==
  ASSUME RequiredApart
  PROVE  InstSpec => []RoundsSuffice
<1>1. InstInit => RoundsLeft /\ AutoResolved
  BY DEF InstInit, RoundsLeft, AutoResolved
<1>2. InstKept /\ RoundsLeft /\ AutoResolved /\ [InstNext]_instVars
      => RoundsLeft' /\ AutoResolved'
  BY InstConstants, RequiredApart, StepRoundsLeft, StepAutoResolved
<1>3. AutoResolved => RoundsSuffice
  BY DEF AutoResolved, RoundsSuffice
<1> QED
  BY <1>1, <1>2, <1>3, SelectionMakesSense, PTL DEF InstSpec

-----------------------------------------------------------------------------
(* The check before "go".                                                  *)

(* The passes that have a check of the critical packages, and the one that *)
(* makes it.                                                               *)
Checked  == mode = "auto" /\ flow \in {"percd", "single"}
LastPass == IF flow = "percd" THEN 2 ELSE 1

InPass ==
  \/ stage \in {"mount", "open", "select", "match", "apply", "check", "recheck", "go"}
  \/ stage = "resolve" /\ after \in {"check", "recheck", "go"}

(* Nothing is in conflict when a resolution ends, or the visit is marred.  *)
ResolvedIsTrue ==
  stage \in {"check", "recheck"} /\ mode = "auto" => marred \/ Conflicts = {}

(* The pass that checks sends "go" with all that it looked at there and    *)
(* nothing in conflict, so that inst cannot refuse it.                     *)
GoIsClear ==
  Checked =>
    /\ InPass => visit \in 1..LastPass
    /\ stage = "resolve" /\ after = "go" => visit # LastPass \/ marred
    /\ stage = "go" /\ visit = LastPass => marred \/ (Conflicts = {} /\ LookedAt \subseteq There)

(* Until the second pass opens one, only foundation distributions are open. *)
OnlyFoundation ==
  Checked /\ flow = "percd" =>
    /\ visit = 1 \/ (visit = 2 /\ count = 0) => opened \subseteq EarlyDiscs
    /\ visit = 1 => queue \in Seq(EarlyDiscs)

Committed ==
  Checked /\ visit > LastPass =>
    opened \subseteq EarlyDiscs \/ marred \/ LookedAt \subseteq installed

PassesInv == ResolvedIsTrue /\ GoIsClear /\ OnlyFoundation /\ Committed

(* The passes of the flows that check. *)
LEMMA PassVisits ==
  ASSUME Checked
  PROVE  /\ Len(Visits(flow, mode)) = LastPass
         /\ flow = "percd" => /\ Visits(flow, mode)[1].check = "none"
                              /\ Visits(flow, mode)[1].discs = Early
                              /\ Visits(flow, mode)[2].check = "fail"
         /\ flow = "single" => Visits(flow, mode)[1].check = "reselect"
<1>1. CASE flow = "percd"
  <2>1. Visits(flow, mode) = PerCdVisits
    BY <1>1 DEF Visits, Checked
  <2> QED
    BY <1>1, <2>1 DEF PerCdVisits, Visit, LastPass
<1>2. CASE flow = "single"
  <2>1. Visits(flow, mode) = << Visit(<<Combined>>, "from", TRUE, "reselect") >>
    BY <1>2 DEF Visits, Checked
  <2> QED
    BY <1>2, <2>1 DEF Visit, LastPass
<1> QED
  BY <1>1, <1>2 DEF Checked

(* What the next visit is after one of theirs.                             *)
LEMMA PassFollows ==
  ASSUME Checked, visit \in Nat, NEW mars \in BOOLEAN, NextVisit(mars)
  PROVE  /\ flow' = flow /\ visit' = visit + 1 /\ count' = 0
         /\ IF visit + 1 > LastPass
              THEN stage' = "quit" /\ UNCHANGED LookedAt /\ marred' = (marred \/ mars)
              ELSE stage' \in {"mount", "open"}
<1>1. Len(Visits(flow, mode)) = LastPass /\ LastPass \in Nat
  BY PassVisits DEF LastPass
<1>2. visit + 1 > LastPass => visit >= Len(Visits(flow, mode))
  BY <1>1
<1> QED
  BY <1>1, <1>2 DEF NextVisit, BeginVisit, GoTo, Checked, OnSystem, LookedAt

(* A step that leaves the visit, what is open and what is on the disk      *)
(* alone, and does not come to a check or to "go".                         *)
LEMMA PassFrame ==
  ASSUME PassesInv, UNCHANGED <<flowVars, openVars, visitVars, installed>>,
         stage' \notin {"check", "recheck", "go"}, InPass' => InPass,
         stage' = "resolve" /\ after' = "go" =>
           visit # LastPass \/ (stage = "resolve" /\ after = "go")
  PROVE  PassesInv'
BY DEF PassesInv, ResolvedIsTrue, GoIsClear, OnlyFoundation, Committed, Checked, LastPass, LookedAt,
       flowVars, openVars, visitVars

(* The steps of a pass up to the opening of the distributions.             *)
LEMMA StepOpens ==
  ASSUME InstConstants, InstKept, PassesInv,
         StartInstall \/ Mounted \/ MountFails \/ OpenDisc \/ OpenEnds
  PROVE  PassesInv'
<1> USE DEF flowVars, openVars, pkgVars, roundVars, sendVars, visitVars, noteVars, GoTo
<1>1. CASE StartInstall
  <2>1. /\ visit' = 1 /\ stage' = "mount" /\ queue' = Visits(flow', mode')[1].discs
        /\ UNCHANGED opened /\ opened = {}
    BY <1>1 DEF StartInstall, InstKept, IdleClean
  <2>2. flow' = "percd" /\ mode' = "auto" => queue' = Early
    BY <2>1 DEF Visits, PerCdVisits, Visit
  <2> QED
    BY <2>1, <2>2, EarlyIsEarly
    DEF PassesInv, ResolvedIsTrue, GoIsClear, OnlyFoundation, Committed, Checked, LastPass, InPass
<1>2. CASE Mounted
  <2>1. InPass
    BY <1>2 DEF Mounted, InPass
  <2> QED
    BY <1>2, <2>1, PassFrame DEF Mounted
<1>3. CASE MountFails
  <2>1. stage' \notin {"check", "recheck", "go", "resolve"}
    BY <1>3 DEF MountFails, CdByCd, NextVisit, BeginVisit
  <2>2. ~Checked'
    BY <1>3 DEF MountFails, CdByCd, NextVisit, BeginVisit, Checked, Reconciling
  <2> QED
    BY <2>1, <2>2 DEF PassesInv, ResolvedIsTrue, GoIsClear, OnlyFoundation, Committed
<1>4. CASE OpenDisc
  <2>1. /\ stage = "open" /\ stage' = "open"
        /\ UNCHANGED <<flow, mode, visit, installed, visitVars>>
        /\ queue # <<>> /\ queue' = Tail(queue)
        /\ opened' \subseteq opened \cup {Head(queue)}
        /\ count' = 0 => UNCHANGED <<opened, count>>
    <3>1. \/ opened' \in {{Head(queue)}, opened \cup {Head(queue)}} /\ count' = count + 1
          \/ UNCHANGED <<opened, count>>
          \/ UNCHANGED opened /\ count' = count + 1
      BY <1>4 DEF OpenDisc
    <3>2. count \in Nat
      BY DEF InstKept, PassCounts
    <3> QED
      BY <1>4, <3>1, <3>2 DEF OpenDisc
  <2>2. ASSUME Checked', flow = "percd"
        PROVE  /\ visit = 1 \/ (visit = 2 /\ count' = 0) => opened' \subseteq EarlyDiscs
               /\ visit = 1 => queue' \in Seq(EarlyDiscs)
    <3>1. Checked
      BY <2>1, <2>2 DEF Checked
    <3>2. CASE visit = 1
      <4>1. queue \in Seq(EarlyDiscs) /\ opened \subseteq EarlyDiscs
        BY <2>2, <3>1, <3>2 DEF PassesInv, OnlyFoundation
      <4>2. Head(queue) \in EarlyDiscs /\ Tail(queue) \in Seq(EarlyDiscs)
        BY <2>1, <4>1
      <4> QED
        BY <2>1, <3>2, <4>1, <4>2
    <3>3. CASE visit = 2 /\ count' = 0
      BY <2>1, <2>2, <3>1, <3>3 DEF PassesInv, OnlyFoundation
    <3> QED
      BY <3>2, <3>3
  <2>3. InPass /\ (visit \in 1..LastPass => ~(visit > LastPass))
    BY <2>1 DEF InPass, LastPass
  <2> QED
    BY <2>1, <2>2, <2>3
    DEF PassesInv, ResolvedIsTrue, GoIsClear, OnlyFoundation, Committed, Checked, LastPass, InPass
<1>5. CASE OpenEnds
  <2>1. CASE count > 0 \/ flow \in OnSystem
    <3>1. stage' = "select" /\ InPass
      BY <1>5, <2>1 DEF OpenEnds, InPass
    <3> QED
      BY <1>5, <2>1, <3>1, PassFrame DEF OpenEnds
  <2>2. CASE ~(count > 0 \/ flow \in OnSystem) /\ Now.check = "reselect"
    <3>1. stage' \notin {"check", "recheck", "go", "resolve"}
      BY <1>5, <2>2 DEF OpenEnds, CdByCd, BeginVisit
    <3>2. ~Checked'
      BY <1>5, <2>2 DEF OpenEnds, CdByCd, BeginVisit, Checked
    <3> QED
      BY <3>1, <3>2 DEF PassesInv, ResolvedIsTrue, GoIsClear, OnlyFoundation, Committed
  <2>3. CASE ~(count > 0 \/ flow \in OnSystem) /\ Now.check # "reselect"
    <3>1. NextVisit(FALSE) /\ UNCHANGED <<mode, opened, installed>> /\ InPass
      BY <1>5, <2>3 DEF OpenEnds, InPass
    <3>2. count = 0 /\ visit \in Nat
      BY <2>3 DEF InstKept, PassCounts
    <3>3. stage' \notin {"check", "recheck", "go", "resolve"} /\ flow' = flow
      BY <3>1 DEF NextVisit, BeginVisit
    <3>4. ASSUME Checked
          PROVE  flow = "percd" /\ visit \in 1..2 /\ opened \subseteq EarlyDiscs
      <4>1. visit \in 1..LastPass
        BY <3>1, <3>4 DEF PassesInv, GoIsClear
      <4>2. flow = "percd"
        BY <2>3, <3>4, <4>1, PassVisits DEF Now, LastPass, Checked
      <4> QED
        BY <3>2, <3>4, <4>1, <4>2 DEF LastPass, PassesInv, OnlyFoundation
    <3>5. CASE Checked
      <4>1. flow' = flow /\ visit' = visit + 1
            /\ IF visit + 1 > LastPass THEN stage' = "quit" ELSE stage' \in {"mount", "open"}
        BY <3>1, <3>2, <3>5, PassFollows
      <4> QED
        BY <3>1, <3>3, <3>4, <3>5, <4>1
        DEF PassesInv, ResolvedIsTrue, GoIsClear, OnlyFoundation, Committed, Checked, LastPass,
            InPass
    <3>6. CASE ~Checked
      <4>1. ~Checked'
        BY <3>1, <3>3, <3>6 DEF Checked
      <4> QED
        BY <3>3, <4>1 DEF PassesInv, ResolvedIsTrue, GoIsClear, OnlyFoundation, Committed
    <3> QED
      BY <3>5, <3>6
  <2> QED
    BY <2>1, <2>2, <2>3
<1> QED
  BY <1>1, <1>2, <1>3, <1>4, <1>5

(* The steps that select, and that settle what is in conflict.             *)
LEMMA StepSettles ==
  ASSUME InstConstants, InstKept, PassesInv,
         \/ Select \/ ResolveRound \/ ResolveInline \/ ResolveEnds
         \/ Match \/ ApplyLabels \/ ApplyEnds
  PROVE  PassesInv'
<1> USE DEF flowVars, openVars, pkgVars, roundVars, sendVars, visitVars, noteVars, GoTo
<1>1. CASE Select
  <2>1. CASE flow = "live"
    <3>1. /\ stage' \notin {"check", "recheck", "resolve"} /\ ~Checked'
      BY <1>1, <2>1 DEF Select, Checked
    <3> QED
      BY <3>1 DEF PassesInv, ResolvedIsTrue, GoIsClear, OnlyFoundation, Committed
  <2>2. CASE flow # "live"
    <3>1. /\ stage' \notin {"check", "recheck", "go"} /\ InPass
          /\ UNCHANGED <<flowVars, openVars, visitVars, installed>>
          /\ stage' = "resolve" => after' = "check"
      BY <1>1, <2>2 DEF Select, Resolve, InPass
    <3> QED
      BY <3>1, PassFrame
  <2> QED
    BY <2>1, <2>2
<1>2. CASE ResolveRound \/ ResolveInline
  <2>1. /\ stage = "resolve"
        /\ UNCHANGED <<stage, after, flowVars, openVars, visitVars, installed>>
    BY <1>2 DEF ResolveRound, ResolveInline
  <2>2. InPass' => InPass
    BY <2>1 DEF InPass
  <2> QED
    BY <2>1, <2>2, PassFrame
<1>3. CASE ResolveEnds
  <2>1. /\ stage = "resolve" /\ stage' = after
        /\ UNCHANGED <<flowVars, openVars, pkgVars, after, anew>>
        /\ marred' = (marred \/ (after # "quit" /\ (~resolved' \/ Conflicts # {})))
        /\ after \in {"check", "recheck", "go", "quit"} /\ marred \in BOOLEAN
    BY <1>3 DEF ResolveEnds, InstKept, PassCounts, MarredTyped
  <2>2. after # "quit" => marred' \/ Conflicts' = {}
    <3>1. Conflicts' = Conflicts
      BY <2>1 DEF Conflicts, Lacking, Clashing, There
    <3> QED
      BY <2>1, <3>1
  <2>3. (InPass' => InPass) /\ stage' # "resolve" /\ LookedAt' = LookedAt /\ (marred => marred')
    BY <2>1 DEF InPass, LookedAt
  <2>4. Checked /\ stage' = "go" /\ visit = LastPass => marred'
    BY <2>1 DEF PassesInv, GoIsClear
  <2> QED
    BY <2>1, <2>2, <2>3, <2>4
    DEF PassesInv, ResolvedIsTrue, GoIsClear, OnlyFoundation, Committed, Checked, LastPass
<1>4. CASE Match \/ ApplyLabels \/ ApplyEnds
  <2>1. mode # "auto" /\ mode' = mode
    BY <1>4 DEF Match, ApplyLabels, ApplyEnds, InstKept, PassCounts
  <2> QED
    BY <2>1 DEF PassesInv, ResolvedIsTrue, GoIsClear, OnlyFoundation, Committed, Checked
<1> QED
  BY <1>1, <1>2, <1>3, <1>4

(* The steps from the check to the next visit, and those after the last.   *)
LEMMA StepCommits ==
  ASSUME InstConstants, InstKept, PassesInv,
         \/ CheckTargets \/ GoRefused \/ GoDone \/ GoElsewhere \/ GoStalls
         \/ QuitResolves \/ Quit \/ VerifyBoot \/ UNCHANGED instVars
  PROVE  PassesInv'
<1> USE DEF flowVars, openVars, pkgVars, roundVars, sendVars, visitVars, noteVars, GoTo
<1>1. CASE CheckTargets
  <2>1. /\ stage \in {"check", "recheck"} /\ InPass
        /\ UNCHANGED <<flowVars, openVars, installed, marred>>
    BY <1>1 DEF CheckTargets, InPass
  <2>2. \/ /\ stage' = "go" /\ (Now.check = "none" \/ LookedAt \subseteq Marked)
           /\ UNCHANGED <<pkgVars, anew>>
        \/ stage' = "failed" /\ UNCHANGED anew
        \/ stage' = "resolve" /\ after' = "recheck"
    BY <1>1 DEF CheckTargets, Resolve
  <2>3. CASE stage' # "go"
    <3>1. stage' \notin {"check", "recheck", "go"} /\ ~(stage' = "resolve" /\ after' = "go")
      BY <2>2, <2>3
    <3>2. Checked => visit \in 1..LastPass /\ ~(visit > LastPass)
      BY <2>1 DEF PassesInv, GoIsClear, LastPass
    <3> QED
      BY <2>1, <3>1, <3>2
      DEF PassesInv, ResolvedIsTrue, GoIsClear, OnlyFoundation, Committed, Checked, LastPass
  <2>4. CASE stage' = "go"
    <3>1. ASSUME Checked, visit = LastPass
          PROVE  marred \/ (Conflicts' = {} /\ LookedAt' \subseteq There')
      <4>1. Now.check # "none"
        BY <3>1, PassVisits DEF Now, LastPass, Checked
      <4>2. LookedAt \subseteq Marked /\ UNCHANGED <<pkgVars, anew>>
        BY <2>2, <2>4, <4>1
      <4>3. marred \/ Conflicts = {}
        BY <2>1, <3>1 DEF PassesInv, ResolvedIsTrue, Checked
      <4>4. Conflicts' = Conflicts /\ There' = There /\ LookedAt' = LookedAt
        BY <4>2 DEF Conflicts, Lacking, Clashing, There, LookedAt
      <4> QED
        BY <4>2, <4>3, <4>4 DEF Marked
    <3>2. Checked => visit \in 1..LastPass /\ ~(visit > LastPass)
      BY <2>1 DEF PassesInv, GoIsClear, LastPass
    <3> QED
      BY <2>1, <2>4, <3>1, <3>2
      DEF PassesInv, ResolvedIsTrue, GoIsClear, OnlyFoundation, Committed, Checked, LastPass, InPass
  <2> QED
    BY <2>3, <2>4
<1>2. ASSUME NEW mars \in BOOLEAN, NextVisit(mars), stage = "go", UNCHANGED <<mode, opened>>,
             Conflicts # {} \/ mars \/ installed' = (installed \ leaving) \cup sel
      PROVE  PassesInv'
  <2>1. visit \in Nat /\ InPass /\ marred \in BOOLEAN
    BY <1>2 DEF InstKept, PassCounts, MarredTyped, InPass
  <2>2. stage' \notin {"check", "recheck", "go", "resolve"} /\ flow' = flow
    BY <1>2 DEF NextVisit, BeginVisit
  <2>3. CASE ~Checked
    <3>1. ~Checked'
      BY <1>2, <2>2, <2>3 DEF Checked
    <3> QED
      BY <2>2, <3>1 DEF PassesInv, ResolvedIsTrue, GoIsClear, OnlyFoundation, Committed
  <2>4. CASE Checked
    <3>1. /\ flow' = flow /\ visit' = visit + 1
          /\ IF visit + 1 > LastPass
               THEN stage' = "quit" /\ UNCHANGED LookedAt /\ marred' = (marred \/ mars)
               ELSE stage' \in {"mount", "open"}
      BY <1>2, <2>1, <2>4, PassFollows
    <3>2. visit \in 1..LastPass
      BY <2>1, <2>4 DEF PassesInv, GoIsClear
    <3>3. visit = LastPass => marred' \/ LookedAt' \subseteq installed'
      <4> SUFFICES ASSUME visit = LastPass PROVE marred' \/ LookedAt' \subseteq installed'
        OBVIOUS
      <4>1. marred \/ (Conflicts = {} /\ LookedAt \subseteq There)
        BY <1>2, <2>4 DEF PassesInv, GoIsClear
      <4>2. UNCHANGED LookedAt /\ marred' = (marred \/ mars)
        BY <3>1, <3>2 DEF LastPass
      <4> QED
        BY <1>2, <4>1, <4>2 DEF There
    <3>4. flow = "percd" /\ visit = 1 => opened' \subseteq EarlyDiscs
      BY <1>2, <2>4 DEF PassesInv, OnlyFoundation
    <3> QED
      BY <1>2, <2>2, <2>4, <3>1, <3>2, <3>3, <3>4
      DEF PassesInv, ResolvedIsTrue, GoIsClear, OnlyFoundation, Committed, Checked, LastPass, InPass
  <2> QED
    BY <2>3, <2>4
<1>3. CASE GoRefused
  <2>1. stage = "go" /\ Conflicts # {} /\ UNCHANGED <<mode, opened, installed>> /\ InPass
    BY <1>3 DEF GoRefused, InPass
  <2>2. \/ NextVisit(FALSE)
        \/ flow = "live" /\ UNCHANGED <<flow, stage>>
        \/ /\ stage' = "resolve" /\ after' = "go"
           /\ UNCHANGED <<flowVars, openVars, visitVars>>
    BY <1>3 DEF GoRefused, Resolve
  <2>3. CASE NextVisit(FALSE)
    BY <1>2, <2>1, <2>3
  <2>4. CASE flow = "live" /\ UNCHANGED <<flow, stage>>
    BY <2>1, <2>4 DEF PassesInv, ResolvedIsTrue, GoIsClear, OnlyFoundation, Committed, Checked
  <2>5. CASE stage' = "resolve" /\ after' = "go" /\ UNCHANGED <<flowVars, openVars, visitVars>>
    <3>1. Checked /\ visit = LastPass => marred
      BY <2>1 DEF PassesInv, GoIsClear
    <3> QED
      BY <2>1, <2>5, <3>1
      DEF PassesInv, ResolvedIsTrue, GoIsClear, OnlyFoundation, Committed, Checked, LastPass,
          InPass, LookedAt
  <2> QED
    BY <2>2, <2>3, <2>4, <2>5
<1>4. CASE GoDone
  <2>1. /\ NextVisit(FALSE) /\ stage = "go" /\ UNCHANGED <<mode, opened>>
        /\ installed' = (installed \ leaving) \cup sel
    BY <1>4 DEF GoDone
  <2> QED
    BY <1>2, <2>1
<1>5. CASE GoElsewhere
  <2>1. NextVisit(TRUE) /\ stage = "go" /\ UNCHANGED <<mode, opened>>
    BY <1>5 DEF GoElsewhere
  <2> QED
    BY <1>2, <2>1
<1>6. CASE GoStalls
  <2>1. stage' \in {"done", "failed"} /\ UNCHANGED <<flowVars, openVars, visitVars, installed>>
    BY <1>6 DEF GoStalls
  <2> QED
    BY <2>1, PassFrame DEF InPass
<1>7. CASE QuitResolves \/ Quit
  <2>1. CASE QuitResolves
    <3>1. /\ \/ stage' = "resolve" /\ after' = "quit"
             \/ stage' = "quit"
          /\ UNCHANGED <<flowVars, openVars, visitVars, installed>>
      BY <2>1 DEF QuitResolves, Resolve
    <3> QED
      BY <3>1, PassFrame DEF InPass
  <2>2. CASE Quit
    <3>1. /\ stage' \in {"verify", "failed"}
          /\ UNCHANGED <<flowVars, openVars, visitVars, installed>>
      BY <2>2 DEF Quit
    <3> QED
      BY <3>1, PassFrame DEF InPass
  <2> QED
    BY <1>7, <2>1, <2>2
<1>8. CASE VerifyBoot
  <2>1. stage' \in {"done", "failed"} /\ UNCHANGED <<flowVars, openVars, visitVars, installed>>
    BY <1>8 DEF VerifyBoot
  <2> QED
    BY <2>1, PassFrame DEF InPass
<1>9. CASE UNCHANGED instVars
  <2>1. Conflicts' = Conflicts /\ There' = There /\ LookedAt' = LookedAt
    BY <1>9 DEF instVars, Conflicts, Lacking, Clashing, There, LookedAt
  <2> QED
    BY <1>9, <2>1
    DEF instVars, PassesInv, ResolvedIsTrue, GoIsClear, OnlyFoundation, Committed, Checked,
        LastPass, InPass
<1> QED
  BY <1>1, <1>3, <1>4, <1>5, <1>6, <1>7, <1>8, <1>9

(* What the installer calls critical and looked at last is on the disk     *)
(* when its passes over the combined image are over, unless the last was   *)
(* marred or never began.                                                  *)
THEOREM CriticalIsCommitted == InstSpec => []CriticalCommitted
<1>1. InstInit => PassesInv
  BY DEF InstInit, PassesInv, ResolvedIsTrue, GoIsClear, OnlyFoundation, Committed, Checked
<1>2. InstKept /\ PassesInv /\ [InstNext]_instVars => PassesInv'
  BY InstConstants, StepOpens, StepSettles, StepCommits DEF InstNext, InstStep
<1>3. PassesInv => CriticalCommitted
  <2> SUFFICES ASSUME PassesInv, Checked, visit > Len(Visits(flow, mode))
               PROVE  opened \ EarlyDiscs = {} \/ marred \/ LookedAt \subseteq installed
    BY DEF CriticalCommitted, Checked
  <2> QED
    BY PassVisits DEF PassesInv, Committed
<1> QED
  BY <1>1, <1>2, <1>3, SelectionMakesSense, PTL DEF InstSpec

(* The installer installs what it means to.                                *)
THEOREM InstallerIsSound ==
  ASSUME RequiredApart
  PROVE  InstSpec => []SelectionSound
<1>1. RoundsSuffice /\ CriticalCommitted => SelectionSound
  BY DEF SelectionSound
<1> QED
  BY <1>1, RequiredApart, RoundsAreEnough, CriticalIsCommitted, PTL

-----------------------------------------------------------------------------
(* Decisions and numbers.                                                  *)

(* A conflict is its subject and the other package.                        *)
LEMMA ConflictIsPair ==
  ASSUME InstConstants, PackagesKept, NEW c \in Conflicts, NEW d \in Conflicts,
         c.subject = d.subject, c.other = d.other
  PROVE  c = d
<1>1. \A e \in Conflicts : e = Conflict(e.type, e.subject, e.other)
  BY DEF Conflicts, Conflict
<1>2. c.type = d.type
  BY ConflictParties DEF PackagesKept
<1>3. c = Conflict(c.type, c.subject, c.other) /\ d = Conflict(d.type, d.subject, d.other)
  BY <1>1
<1> QED
  BY <1>2, <1>3

(* There are finitely many. *)
LEMMA ConflictsFinite ==
  ASSUME InstConstants, PackagesKept
  PROVE  IsFiniteSet(Conflicts)
<1> DEFINE f == [c \in Conflicts |-> <<c.subject, c.other>>]
<1>1. f \in [Conflicts -> Packages \X Packages]
  BY ConflictParties
<1>2. \A c, d \in Conflicts : f[c] = f[d] => c = d
  BY ConflictIsPair
<1> HIDE DEF f
<1>3. f \in Injection(Conflicts, Packages \X Packages)
  BY <1>1, <1>2 DEF Injection, IsInjective
<1>4. IsFiniteSet(Packages \X Packages)
  BY FS_Product DEF InstConstants
<1> QED
  BY <1>3, <1>4, FS_Injection

(* No two have one number.                                                 *)
LEMMA NumbersDiffer ==
  ASSUME InstConstants, PackagesKept, NEW c \in Conflicts, NEW d \in Conflicts,
         Number(c) = Number(d)
  PROVE  c = d
<1> DEFINE lower(e) == {x \in Conflicts : Before(x, e)}
<1>1. \A e \in Conflicts : e.subject \in Nat /\ e.other \in Nat
  BY ConflictParties DEF InstConstants
<1>2. ASSUME NEW x \in Conflicts, NEW y \in Conflicts, Before(x, y)
      PROVE  Number(x) # Number(y)
  <2>1. \A e \in Conflicts : Before(e, x) => Before(e, y)
    <3>1. ASSUME NEW e \in Conflicts, Before(e, x)
          PROVE  Before(e, y)
      <4>1. /\ e.subject \in Nat /\ e.other \in Nat /\ x.subject \in Nat /\ x.other \in Nat
            /\ y.subject \in Nat /\ y.other \in Nat
        BY <1>1
      <4>2. /\ e.subject < x.subject \/ (e.subject = x.subject /\ e.other < x.other)
            /\ x.subject < y.subject \/ (x.subject = y.subject /\ x.other < y.other)
        BY <1>2, <3>1 DEF Before
      <4>3. e.subject < y.subject \/ (e.subject = y.subject /\ e.other < y.other)
        <5>1. CASE e.subject < x.subject
          BY <4>1, <4>2, <5>1
        <5>2. CASE e.subject = x.subject /\ e.other < x.other
          BY <4>1, <4>2, <5>2
        <5> QED
          BY <4>2, <5>1, <5>2
      <4> QED
        BY <4>3 DEF Before
    <3> QED
      BY <3>1
  <2>2. ~Before(x, x)
    BY <1>1 DEF Before
  <2>3. lower(x) \in SUBSET lower(y) /\ x \in lower(y) /\ x \notin lower(x)
    BY <1>2, <2>1, <2>2
  <2>4. lower(y) \in SUBSET Conflicts
    OBVIOUS
  <2>5. Number(x) = 1 + Cardinality(lower(x)) /\ Number(y) = 1 + Cardinality(lower(y))
    BY DEF Number
  <2> HIDE DEF lower
  <2>6. IsFiniteSet(lower(y)) /\ IsFiniteSet(lower(x))
    BY <2>3, <2>4, ConflictsFinite, FS_Subset
  <2>7. Cardinality(lower(x)) # Cardinality(lower(y))
    BY <2>3, <2>6, FS_Subset
  <2>8. Cardinality(lower(x)) \in Nat /\ Cardinality(lower(y)) \in Nat
    BY <2>6, FS_CardinalityType
  <2> QED
    BY <2>5, <2>7, <2>8
<1>3. Before(c, d) \/ Before(d, c) \/ (c.subject = d.subject /\ c.other = d.other)
  BY <1>1 DEF Before
<1> QED
  BY <1>2, <1>3, ConflictIsPair

(* The labels for the decisions fit one command.                           *)
Labels == {Number(c) : c \in ForDecided}

LEMMA LabelsFit ==
  ASSUME InstConstants, FewDecided, PackagesKept, decided \in Decisions \cup {{}}
  PROVE  IsFiniteSet(Labels) /\ Cardinality(Labels) <= ApplyBatch /\ Labels \subseteq Nat
<1>1. \A c \in ForDecided : c \in Conflicts /\ c.type \in HasSubject /\ c.subject \in decided
  BY DEF ForDecided
<1>2. IsFiniteSet(About(decided)) /\ Cardinality(About(decided)) <= ApplyBatch
  <2>1. About(decided) \in SUBSET (SUBSET Packages)
    BY DEF About, InstConstants
  <2>2. IsFiniteSet(SUBSET Packages)
    BY FS_SUBSET DEF InstConstants
  <2> QED
    BY <2>1, <2>2, FS_Subset DEF FewDecided
<1> DEFINE f == [c \in ForDecided |-> {c.subject, c.other}]
<1>3. f \in Injection(ForDecided, About(decided))
  <2>1. ASSUME NEW c \in ForDecided
        PROVE  {c.subject, c.other} \in About(decided)
    <3>1. CASE c.type = "incompatible"
      BY <1>1, <3>1, ConflictParties DEF About
    <3>2. CASE c.type = "required"
      BY <1>1, <3>2, ConflictParties DEF About
    <3> QED
      BY <1>1, <3>1, <3>2 DEF HasSubject
  <2>2. ASSUME NEW c \in ForDecided, NEW d \in ForDecided,
               {c.subject, c.other} = {d.subject, d.other}
        PROVE  c = d
    <3>1. /\ c.subject \in Nat /\ d.subject \in Nat /\ c.other \in Nat /\ d.other \in Nat
          /\ c.type = "required" => c.subject = c.other
          /\ d.type = "required" => d.subject = d.other
          /\ c.type = "incompatible" =>
               c.subject \in sel /\ (c.other \in sel => c.subject < c.other)
          /\ d.type = "incompatible" =>
               d.subject \in sel /\ (d.other \in sel => d.subject < d.other)
      BY <1>1, ConflictParties DEF InstConstants
    <3>2. c.type \in {"required", "incompatible"} /\ d.type \in {"required", "incompatible"}
      BY <1>1 DEF HasSubject
    <3>3. c.subject = d.subject /\ c.other = d.other
      <4>1. \/ c.subject = d.subject /\ c.other = d.other
            \/ c.subject = d.other /\ c.other = d.subject
        BY <2>2
      <4> QED
        BY <3>1, <3>2, <4>1
    <3> QED
      BY <1>1, <3>3, ConflictIsPair
  <2> QED
    BY <2>1, <2>2 DEF Injection, IsInjective
<1> HIDE DEF f
<1>4. IsFiniteSet(ForDecided) /\ Cardinality(ForDecided) <= Cardinality(About(decided))
  BY <1>2, <1>3, FS_Injection
<1> DEFINE g == [c \in ForDecided |-> Number(c)]
<1>5. g \in Surjection(ForDecided, Labels)
  BY DEF Labels, Surjection
<1> HIDE DEF g
<1>6. IsFiniteSet(Labels) /\ Cardinality(Labels) <= Cardinality(ForDecided)
  BY <1>4, <1>5, FS_Surjection
<1>7. Cardinality(Labels) <= ApplyBatch
  <2>1. /\ Cardinality(Labels) \in Nat /\ Cardinality(ForDecided) \in Nat
        /\ Cardinality(About(decided)) \in Nat /\ ApplyBatch \in Nat
    BY <1>2, <1>4, <1>6, FS_CardinalityType DEF InstConstants
  <2> QED
    BY <1>2, <1>4, <1>6, <2>1
<1>8. ASSUME NEW c \in ForDecided
      PROVE  Number(c) \in Nat
  <2> DEFINE lower == {x \in Conflicts : Before(x, c)}
  <2>1. lower \in SUBSET Conflicts /\ Number(c) = 1 + Cardinality(lower)
    BY DEF Number
  <2> HIDE DEF lower
  <2> QED
    BY <2>1, ConflictsFinite, FS_Subset, FS_CardinalityType
<1> QED
  BY <1>6, <1>7, <1>8 DEF Labels

(* The labels are those of the conflicts as they are, until they are sent. *)
LabelsCurrent == stage = "apply" => labels \in {{}, Labels}

(* All of them are sent at once. *)
LEMMA SentAtOnce ==
  ASSUME InstConstants, FewDecided, InstKept, LabelsCurrent, ApplyLabels
  PROVE  /\ FirstLabels = labels /\ labels = Labels
         /\ \A c \in Numbered(labels) : c.subject \in decided
<1>1. stage = "apply" /\ labels # {} /\ PackagesKept /\ decided \in Decisions \cup {{}}
  BY DEF ApplyLabels, InstKept, PassCounts
<1>2. labels = Labels
  BY <1>1 DEF LabelsCurrent
<1>3. IsFiniteSet(labels) /\ Cardinality(labels) <= ApplyBatch /\ labels \subseteq Nat
  BY <1>1, <1>2, LabelsFit
<1>4. ASSUME NEW n \in labels
      PROVE  n \in FirstLabels
  <2> DEFINE lower == {m \in labels : m < n}
  <2>1. lower \in SUBSET labels /\ n \notin lower
    BY <1>3
  <2> HIDE DEF lower
  <2>2. IsFiniteSet(lower) /\ Cardinality(lower) <= Cardinality(labels)
        /\ Cardinality(lower) # Cardinality(labels)
    BY <1>3, <2>1, FS_Subset
  <2>3. Cardinality(lower) \in Nat /\ Cardinality(labels) \in Nat /\ ApplyBatch \in Nat
    BY <1>3, <2>2, FS_CardinalityType DEF InstConstants
  <2>4. Cardinality(lower) < ApplyBatch
    BY <1>3, <2>2, <2>3
  <2> QED
    BY <2>4 DEF FirstLabels, lower
<1>5. FirstLabels = labels
  BY <1>4 DEF FirstLabels
<1>6. ASSUME NEW c \in Numbered(labels)
      PROVE  c.subject \in decided
  <2>1. c \in Conflicts /\ Number(c) \in Labels
    BY <1>2 DEF Numbered
  <2>2. PICK d \in ForDecided : Number(c) = Number(d)
    BY <2>1 DEF Labels
  <2>3. d \in Conflicts /\ d.subject \in decided
    BY DEF ForDecided
  <2>4. c = d
    BY <1>1, <2>1, <2>2, <2>3, NumbersDiffer
  <2> QED
    BY <2>3, <2>4
<1> QED
  BY <1>2, <1>5, <1>6

LEMMA StepLabels ==
  ASSUME InstConstants, FewDecided, InstKept, LabelsCurrent, [InstNext]_instVars
  PROVE  LabelsCurrent'
<1> USE DEF GoTo, flowVars, openVars, pkgVars, roundVars, sendVars, visitVars, noteVars
<1>1. CASE Match
  <2>1. labels' = Labels /\ UNCHANGED <<decided, pkgVars>>
    BY <1>1 DEF Match, Labels
  <2>2. Conflicts' = Conflicts
    BY <2>1 DEF Conflicts, Lacking, Clashing, There
  <2>3. Labels' = Labels
    BY <2>1, <2>2 DEF Labels, ForDecided, Number
  <2> QED
    BY <2>1, <2>3 DEF LabelsCurrent
<1>2. CASE ApplyLabels
  <2>1. labels' = {}
    BY <1>2, SentAtOnce DEF ApplyLabels
  <2> QED
    BY <2>1 DEF LabelsCurrent
<1>3. CASE UNCHANGED instVars
  <2>1. Conflicts' = Conflicts
    BY <1>3 DEF instVars, Conflicts, Lacking, Clashing, There
  <2>2. Labels' = Labels
    BY <1>3, <2>1 DEF instVars, Labels, ForDecided, Number
  <2> QED
    BY <1>3, <2>2 DEF instVars, LabelsCurrent
<1>4. CASE InstNext /\ ~Match /\ ~ApplyLabels
  <2>1. stage' # "apply"
    <3> USE DEF BeginVisit, NextVisit, CdByCd, Resolve, NoResolve, NextRound, InstKept, PassCounts
    <3>1. CASE Mounted \/ MountFails \/ OpenDisc \/ OpenEnds \/ Select
      BY <3>1 DEF Mounted, MountFails, OpenDisc, OpenEnds, Select
    <3>2. CASE ResolveRound \/ ResolveInline \/ ResolveEnds \/ ApplyEnds
      BY <3>2 DEF ResolveRound, ResolveInline, ResolveEnds, ApplyEnds
    <3>3. CASE CheckTargets
      BY <3>3 DEF CheckTargets
    <3>4. CASE GoRefused
      BY <3>4 DEF GoRefused
    <3>5. CASE GoDone \/ GoElsewhere
      BY <3>5 DEF GoDone, GoElsewhere
    <3>6. CASE GoStalls \/ QuitResolves \/ Quit \/ VerifyBoot \/ StartInstall
      BY <3>6 DEF GoStalls, QuitResolves, Quit, VerifyBoot, StartInstall
    <3> QED
      BY <1>4, <3>1, <3>2, <3>3, <3>4, <3>5, <3>6 DEF InstNext, InstStep
  <2> QED
    BY <2>1 DEF LabelsCurrent
<1> QED
  BY <1>1, <1>2, <1>3, <1>4

(* The second pass closes nothing. *)
LEMMA SecondPassOpens ==
  ASSUME InstNext, flow = "percd", mode = "auto", visit = 2
  PROVE  opened \subseteq opened'
<1>1. CASE OpenDisc
  <2>1. Visits(flow, mode)[2].first = "open"
    BY DEF Visits, PerCdVisits, Visit, SecondByOpen
  <2> QED
    BY <1>1, <2>1 DEF OpenDisc, Now
<1>2. CASE ~OpenDisc
  <2>1. UNCHANGED opened
    BY <1>2
    DEF InstNext, InstStep, StartInstall, Mounted, MountFails, OpenEnds, Select, ResolveRound,
        ResolveInline, ResolveEnds, Match, ApplyLabels, ApplyEnds, CheckTargets, GoRefused, GoDone,
        GoElsewhere, GoStalls, QuitResolves, Quit, VerifyBoot, openVars
  <2> QED
    BY <2>1
<1> QED
  BY <1>1, <1>2

(* Decisions leave out what they say. *)
LEMMA OnlyDecided ==
  ASSUME InstConstants, FewDecided, InstKept, LabelsCurrent, InstNext, stage = "apply"
  PROVE  sel \ sel' \subseteq decided
<1>1. CASE ApplyLabels
  <2>1. FirstLabels = labels /\ \A c \in Numbered(labels) : c.subject \in decided
    BY <1>1, SentAtOnce
  <2> DEFINE choices == {LeaveOut(c) : c \in Numbered(labels)}
  <2>2. Applied(choices)
    BY <1>1, <2>1 DEF ApplyLabels
  <2>3. Chosen(choices, "keep") \subseteq decided
    <3>1. ASSUME NEW o \in choices, o.action = "keep"
          PROVE  o.package \in decided
      <4>1. PICK c \in Numbered(labels) : o = LeaveOut(c)
        OBVIOUS
      <4>2. o = Choice("keep", c.subject)
        BY <3>1, <4>1 DEF LeaveOut, Option, Choice
      <4> QED
        BY <2>1, <4>2 DEF Choice
    <3> HIDE DEF choices
    <3> QED
      BY <3>1 DEF Chosen
  <2> HIDE DEF choices
  <2> QED
    BY <2>2, <2>3 DEF Applied
<1>2. CASE ~ApplyLabels
  <2>1. UNCHANGED sel
    BY <1>2
    DEF InstNext, InstStep, StartInstall, Mounted, MountFails, OpenDisc, OpenEnds, Select,
        ResolveRound, ResolveInline, ResolveEnds, Match, ApplyEnds, CheckTargets, GoRefused,
        GoDone, GoElsewhere, GoStalls, QuitResolves, Quit, VerifyBoot, pkgVars
  <2> QED
    BY <2>1
<1> QED
  BY <1>1, <1>2

(* What a pass has selected and opened, the next steps do not take from    *)
(* under it.                                                               *)
THEOREM SelectionIsKept ==
  ASSUME FewDecided
  PROVE  InstSpec => SelectionKept
<1>1. InstInit => LabelsCurrent
  BY DEF InstInit, LabelsCurrent
<1>2. InstKept /\ LabelsCurrent /\ [InstNext]_instVars => LabelsCurrent'
  BY InstConstants, FewDecided, StepLabels
<1>3. [InstNext]_instVars =>
        [flow = "percd" /\ mode = "auto" /\ visit = 2 => opened \subseteq opened']_instVars
  BY SecondPassOpens
<1>4. InstKept /\ LabelsCurrent /\ [InstNext]_instVars =>
        [stage = "apply" => sel \ sel' \subseteq decided]_instVars
  BY InstConstants, FewDecided, OnlyDecided
<1> QED
  BY <1>1, <1>2, <1>3, <1>4, SelectionMakesSense, PTL
  DEF InstSpec, SelectionKept, FoundationStaysOpen, AppliedAsDecided
=============================================================================
