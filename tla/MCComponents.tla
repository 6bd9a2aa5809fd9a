---------------------------- MODULE MCComponents ----------------------------
(***************************************************************************)
(* Eight components that share no state, checked in one run: a behaviour   *)
(* is one of any one of them, and the others stay in their initial states. *)
(***************************************************************************)
EXTENDS EfsImage, VmInstances, InstPasses, ContainerBoot, ShellChannel, DglStream,
        RtSleep, MCOrchestrator

(* A folder in the root, a file in it, and a third object in the root.     *)
MCParent == [p \in Paths \ {Root} |-> IF p = 2 THEN 1 ELSE 0]

(* 6 is of the foundation and 3, which is critical, needs it; 5, critical  *)
(* too, clashes with what 3 comes along with; inst insists on 7.           *)
MCNeeds == [p \in Packages |-> CASE p = 1 -> {3} [] p = 2 -> {4} [] p = 3 -> {6} [] OTHER -> {}]
MCClash == {{1, 5}, {3, 4}, {4, 6}}
MCDiscs == <<"f", "o", "d">>
MCOnDisc == [d \in {"f", "o", "d", "all"} |->
   CASE d = "f" -> {6, 7} [] d = "o" -> {1, 3} [] d = "d" -> {2, 4, 5} [] OTHER -> Packages]

VARIABLE part    \* the component the behaviour is one of

PartInit ==
  /\ part \in {"efs", "vm", "inst", "boot", "shell", "dgl", "sleep", "orch"}
  /\ EfsInit /\ VmInit /\ InstInit /\ ContainerInit /\ ShellInit /\ DglInit
  /\ SleepInit /\ Init
  /\ part # "dgl" => framed
  /\ part # "orch" => manifest = {} /\ \A d \in DOMAIN disk : disk[d] = Absent
  /\ part = "orch" => disk["default"] = {}   \* somebody else's

PartNext ==
  /\ UNCHANGED part
  /\ \/ /\ part = "efs" /\ EfsNext
        /\ UNCHANGED <<vmVars, instVars, containerVars, shellVars, dglVars, sleepVars, vars>>
     \/ /\ part = "vm" /\ VmNext
        /\ UNCHANGED <<efsVars, instVars, containerVars, shellVars, dglVars, sleepVars, vars>>
     \/ /\ part = "inst" /\ InstNext
        /\ UNCHANGED <<efsVars, vmVars, containerVars, shellVars, dglVars, sleepVars, vars>>
     \/ /\ part = "boot" /\ ContainerNext
        /\ UNCHANGED <<efsVars, vmVars, instVars, shellVars, dglVars, sleepVars, vars>>
     \/ /\ part = "shell" /\ ShellNext
        /\ UNCHANGED <<efsVars, vmVars, instVars, containerVars, dglVars, sleepVars, vars>>
     \/ /\ part = "dgl" /\ DglNext
        /\ UNCHANGED <<efsVars, vmVars, instVars, containerVars, shellVars, sleepVars, vars>>
     \/ /\ part = "sleep" /\ SleepNext
        /\ UNCHANGED <<efsVars, vmVars, instVars, containerVars, shellVars, dglVars, vars>>
     \/ /\ part = "orch" /\ Next
        /\ UNCHANGED <<efsVars, vmVars, instVars, containerVars, shellVars, dglVars, sleepVars>>

(* The fairness of each component, for the behaviours that are its own.    *)
PartFairness ==
  /\ WF_efsVars(part = "efs" /\ (NextObject \/ Extend \/ Full \/ Finish))
  /\ WF_instVars(part = "inst" /\ InstStep)
  /\ WF_containerVars(part = "boot" /\ Entrypoint)
  /\ SF_containerVars(part = "boot" /\ Deadline)
  /\ WF_dglVars(part = "dgl" /\ ClientReads)
  /\ WF_dglVars(part = "dgl" /\ DglServer)

partVars == <<part, efsVars, vmVars, instVars, containerVars, shellVars, dglVars, sleepVars, vars>>
PartSpec == PartInit /\ [][PartNext]_partVars /\ PartFairness

-----------------------------------------------------------------------------
(* Every component's state is what it should be.                           *)
PartTypeOK ==
  /\ EfsTypeOK /\ VmTypeOK /\ InstTypeOK /\ ContainerTypeOK /\ ShellTypeOK
  /\ DglTypeOK /\ SleepTypeOK /\ TypeOK

(* What must end does: BuildEnds, InstallEnds, BootSettles and Answered,   *)
(* each of the behaviours that are its component's, in one formula.        *)
MustEnd ==
  \/ part = "efs"  /\ Building
  \/ part = "inst" /\ stage # "idle"
  \/ part = "boot" /\ where = "launch"
  \/ part = "dgl"  /\ Asks(asking)
HasEnded ==
  \/ part = "efs"  /\ efsPhase = "idle"
  \/ part = "inst" /\ stage \in {"done", "failed"}
  \/ part = "boot" /\ Settled
  \/ part = "dgl"  /\ (~Asks(asking) \/ Unanswerable)
PartsEnd == MustEnd ~> HasEnded
=============================================================================
