--------------------------- MODULE ContainerBoot ---------------------------
(***************************************************************************)
(* The IRIX appliance container: sgi-docker/docker/entrypoint.sh starts    *)
(* QEMU as process 1 and follows the boot through the console log, and     *)
(* dispatcher.sh, run by "docker exec", goes by the state it writes.       *)
(*                                                                         *)
(* The log is the set of milestones it shows.  Deadlines pass at any time. *)
(* The console goes to QEMU through a FIFO, which blocks whoever opens it  *)
(* for writing while nobody reads it, and with it the shell, which acts on *)
(* a signal between its commands only.                                     *)
(***************************************************************************)
EXTENDS Naturals

CONSTANTS ConfigLines,   \* lines sent to the console to set up the network
          Callers        \* "docker exec" commands under way
ASSUME ContainerConstants == ConfigLines \in Nat \ {0}

VARIABLES
  where,      \* where entrypoint.sh is
  bootState,  \* /var/run/irix/boot_state
  detail,     \* error_detail has been written
  snapshot,   \* IRIX_SNAPSHOT is set
  qemu,       \* "none", "up", "dead"
  known,      \* QEMU_PID is set
  console,    \* milestones in the boot log
  lastState,  \* LAST_STATE
  assisted,   \* BOOT_ASSIST_DONE
  lines,      \* configuration lines sent
  term,       \* a signal has been sent to process 1
  told        \* told[c]: what a caller does, or has been told

containerVars == <<where, bootState, detail, snapshot, qemu, known, console, lastState,
                   assisted, lines, term, told>>

Milestones == {"menu", "IRIX Release", "login:", "PANIC"}

ContainerTypeOK ==
  /\ where \in {"start", "started", "launch", "snapshot", "serial", "enter", "one", "config",
                "probe", "wait", "die", "asleep", "exit"}
  /\ bootState \in {"none", "starting", "prom", "booting", "configuring", "ready", "error"}
  /\ detail \in BOOLEAN /\ snapshot \in BOOLEAN /\ assisted \in BOOLEAN /\ term \in BOOLEAN
  /\ known \in BOOLEAN
  /\ qemu \in {"none", "up", "dead"} /\ console \subseteq Milestones
  /\ lastState \in {"prom", "booting", "configuring"} /\ lines \in 0..ConfigLines
  /\ told \in [Callers -> {"none", "wait", "exec", "ready", "sent", "error", "booting", "late"}]
  /\ bootState = "configuring" => lastState = "configuring"

ContainerInit ==
  /\ where = "start" /\ bootState = "none" /\ detail = FALSE /\ snapshot = FALSE
  /\ qemu = "none" /\ known = FALSE /\ console = {} /\ lastState = "prom" /\ assisted = FALSE
  /\ lines = 0 /\ term = FALSE /\ told = [c \in Callers |-> "none"]

-----------------------------------------------------------------------------
(* entrypoint.sh                                                           *)

Enter(place, state) == where' = place /\ bootState' = state

Begin ==
  /\ where = "start"
  /\ \/ Enter("started", "starting") /\ qemu' = "up" /\ snapshot' \in BOOLEAN
     \/ Enter("die", "error") /\ UNCHANGED <<qemu, snapshot>>          \* no disk
  /\ UNCHANGED <<detail, known, console, lastState, assisted, lines, term, told>>

(* QEMU runs by the time its number is noted.                              *)
NotesPid ==
  /\ where = "started" /\ where' = "launch" /\ known' = TRUE
  /\ UNCHANGED <<bootState, detail, snapshot, qemu, console, lastState, assisted, lines, term,
                 told>>

Launched ==
  /\ where = "launch"
  /\ IF qemu = "dead" THEN Enter("die", "error")
     ELSE IF snapshot THEN Enter("snapshot", "booting")
     ELSE Enter("serial", "prom")
  /\ UNCHANGED <<detail, snapshot, qemu, known, console, lastState, assisted, lines, term,
                 told>>

(* A connection to the forwarded port is QEMU's to accept.                 *)
ProbePort ==
  /\ where = "snapshot"
  /\ \/ qemu = "up" /\ Enter("wait", "ready")
     \/ Enter("serial", "prom")                                        \* the deadline
  /\ UNCHANGED <<detail, snapshot, qemu, known, console, lastState, assisted, lines, term,
                 told>>

(* One look at the console log, what is most specific first.               *)
LoginShown     == "login:" \in console

Look ==
  /\ where = "serial"
  /\ IF qemu = "dead" \/ "PANIC" \in console
       THEN Enter("die", "error") /\ UNCHANGED lastState
     ELSE IF LoginShown
       THEN Enter("config", "configuring") /\ lastState' = "configuring"
     ELSE /\ IF "IRIX Release" \in console /\ lastState = "prom"
               THEN bootState' = "booting" /\ lastState' = "booting"
               ELSE UNCHANGED <<bootState, lastState>>
          /\ where' = IF ~assisted /\ "menu" \in console THEN "enter" ELSE "serial"
  /\ UNCHANGED <<detail, snapshot, qemu, known, console, assisted, lines, term, told>>

NoDeadline == FALSE /\ UNCHANGED containerVars                     \* a mistake
Deadline ==
  /\ where = "serial" /\ Enter("die", "error")
  /\ UNCHANGED <<detail, snapshot, qemu, known, console, lastState, assisted, lines, term,
                 told>>

Writing == where \in {"enter", "one", "config"}
Blocked == Writing /\ qemu = "dead"

Sent     == IF where = "config" THEN lines + 1 ELSE lines
AllSent  == Sent = ConfigLines

(* Enter and "1" for the PROM's menu; then the network, line by line.      *)
SerialSend ==
  /\ Writing /\ ~Blocked
  /\ where' = CASE where = "enter" -> "one"
                [] where = "one"   -> "serial"
                [] OTHER           -> IF AllSent THEN "probe" ELSE "config"
  /\ assisted' = (assisted \/ where = "one")
  /\ lines' = Sent
  /\ UNCHANGED <<bootState, detail, snapshot, qemu, known, console, lastState, term, told>>

(* The exec port answers, or a minute goes by: ready in any case.          *)
ProbeExec ==
  /\ where = "probe" /\ Enter("wait", "ready")
  /\ UNCHANGED <<detail, snapshot, qemu, known, console, lastState, assisted, lines, term,
                 told>>

QemuEnded ==
  /\ where = "wait" /\ qemu = "dead" /\ where' = "exit"
  /\ UNCHANGED <<bootState, detail, snapshot, qemu, known, console, lastState, assisted, lines,
                 term,
                 told>>

(* die(): the state is there before the detail; then process 1 sleeps.     *)
Die ==
  /\ where = "die" /\ detail' = TRUE /\ where' = "asleep"
  /\ UNCHANGED <<bootState, snapshot, qemu, known, console, lastState, assisted, lines, term,
                 told>>

(* cleanup() ends the QEMU that it knows.                                  *)
Cleanup  == where' = "exit" /\ qemu' = IF known /\ qemu = "up" THEN "dead" ELSE qemu
Trap ==
  /\ term /\ where \notin {"asleep", "exit"} /\ ~Blocked
  /\ Cleanup
  /\ UNCHANGED <<bootState, detail, snapshot, known, console, lastState, assisted, lines, term,
                 told>>

Entrypoint ==
  \/ Begin \/ NotesPid \/ Launched \/ ProbePort \/ Look \/ Deadline \/ SerialSend
  \/ ProbeExec \/ QemuEnded \/ Die \/ Trap

-----------------------------------------------------------------------------
(* The machine, and "docker stop": a signal and, ten seconds later, the    *)
(* end of a process 1 that does not act on it, with all that runs.  None   *)
(* of the commands between which the shell does takes as long.             *)

Boots ==
  /\ qemu = "up" /\ where # "exit" /\ \E m \in Milestones \ console : console' = console \cup {m}
  /\ UNCHANGED <<where, bootState, detail, snapshot, qemu, known, lastState, assisted, lines,
                 term, told>>
QemuDies ==
  /\ qemu = "up" /\ where # "exit" /\ qemu' = "dead"
  /\ UNCHANGED <<where, bootState, detail, snapshot, known, console, lastState, assisted, lines,
                 term, told>>
DockerStop ==
  /\ ~term /\ where # "exit" /\ term' = TRUE
  /\ UNCHANGED <<where, bootState, detail, snapshot, qemu, known, console, lastState, assisted,
                 lines, told>>
DockerKill ==
  /\ term /\ (where = "asleep" \/ Blocked) /\ where' = "exit"
  /\ UNCHANGED <<bootState, detail, snapshot, qemu, known, console, lastState, assisted, lines,
                 term, told>>

-----------------------------------------------------------------------------
(* dispatcher.sh: "wait" polls the state, a command checks it and is sent. *)

Call(c) == /\ where # "exit" /\ told[c] = "none"
           /\ \E kind \in {"wait", "exec"} : told' = [told EXCEPT ![c] = kind]
PassedBy   == bootState \notin {"error", "starting", "prom", "booting"}  \* a mistake
IsReady  == bootState = "ready"
CmdWait(c) ==
  /\ told[c] = "wait" /\ where # "exit"
  /\ told' = [told EXCEPT ![c] = IF IsReady THEN "ready"
                                 ELSE IF bootState = "error" THEN "error" ELSE "late"]
CheckReady(c) ==
  /\ told[c] = "exec" /\ where # "exit"
  /\ told' = [told EXCEPT ![c] = IF IsReady THEN "sent"
                                 ELSE IF bootState = "error" THEN "error" ELSE "booting"]
Dispatcher(c) ==
  /\ Call(c) \/ CmdWait(c) \/ CheckReady(c)
  /\ UNCHANGED <<where, bootState, detail, snapshot, qemu, known, console, lastState, assisted,
                 lines, term>>

ContainerNext ==
  Entrypoint \/ Boots \/ QemuDies \/ DockerStop \/ DockerKill
  \/ \E c \in Callers : Dispatcher(c)
ContainerFairness ==
  /\ WF_containerVars(Entrypoint)
  /\ SF_containerVars(Deadline)
ContainerSpec == ContainerInit /\ [][ContainerNext]_containerVars /\ ContainerFairness

-----------------------------------------------------------------------------
(* Correctness.                                                            *)

(* Whoever was told that IRIX is ready, or had a command sent to it, was   *)
(* told so of a boot that is over and stays over, until the container ends.*)
ToldReady == \A c \in Callers : told[c] \in {"ready", "sent"} => bootState = "ready"

(* A boot is configured after a login prompt only, and so is it called     *)
(* ready, unless a snapshot was restored: there a port decides.            *)
LoginFirst ==
  bootState = "configuring" \/ (bootState = "ready" /\ ~snapshot) => "login:" \in console

(* The container ends under a running QEMU only if it was stopped before   *)
(* it knew of one, or after a boot that it had reported as failed; and     *)
(* never while a boot is under way or over.                                *)
QemuGoesFirst ==
  where = "exit" /\ qemu = "up" =>
    (bootState = "starting" /\ ~known) \/ (bootState = "error" /\ detail)

(* A boot comes to an end: ready, an error, or the end of the container;   *)
(* unless QEMU dies while the console is written to, where the script      *)
(* stays blocked.                                                          *)
Settled     == bootState \in {"ready", "error"} \/ where = "exit" \/ Blocked
BootSettles == where = "launch" ~> Settled

(* The three together: what the dispatcher tells, what the boot waits for, *)
(* and the order of the end.                                               *)
BootSafe == ToldReady /\ LoginFirst /\ QemuGoesFirst
=============================================================================
