---------------------------- MODULE McpSessions ----------------------------
(***************************************************************************)
(* The persistent QEMU sessions of sgi_mcp/server.py: the registry         *)
(* _qemu_sessions and the tool handlers start, stop, send, snapshot,       *)
(* monitor and cleanup.  call_tool() runs every handler in a thread of its *)
(* own and nothing locks the registry, so their steps interleave.  A step  *)
(* ends where a handler gives up the interpreter: at a sleep, a wait, or a *)
(* socket, file or process call.                                           *)
(*                                                                         *)
(* A session is also the QEMU it launches.  The serial output and what the *)
(* monitor answers are left out; so are calls that name no session, which  *)
(* change nothing.                                                         *)
(***************************************************************************)
EXTENDS Integers, FiniteSets

CONSTANTS
  Threads,     \* handler threads
  Sessions,    \* the ids uuid4() will give
  MaxSessions  \* sessions allowed at a time: 2

NoSession == "none"

ASSUME McpConstants ==
  /\ IsFiniteSet(Threads) /\ IsFiniteSet(Sessions)
  /\ NoSession \notin Sessions
  /\ MaxSessions \in Nat \ {0}

VARIABLES
  registry,  \* _qemu_sessions
  qemu,      \* the process: "unborn", "planned", "running", "closing", "exited"
  handle,    \* QemuSession.proc is not None
  alive,     \* QemuSession.alive
  sock,      \* the serial socket is open
  reader,    \* the reader thread runs
  dir,       \* the temporary directory, with the monitor's socket in it, exists
  adrift,    \* history: given up by a handler that could not kill it
  \* ---- each handler thread ----
  pc, op,    \* the handler; "boot" once start has a session of its own
  sid,       \* its session, or NoSession
  todo,      \* sessions it has yet to deal with
  result     \* how the last call ended

sessionVars == <<qemu, handle, alive, sock, reader, dir, adrift>>
threadVars  == <<pc, op, sid, todo, result>>
vars == <<registry, sessionVars, threadVars>>

Stopping == {"alive", "quit", "wait", "close", "kill"}
PCs == Stopping \cup
       {"idle", "scan", "sweep", "cap", "mkdir", "popen", "connect", "register",
        "boot", "check", "use", "rmdir", "del",
        "mark", "killone", "pgrep", "reap", "dirs"}

TypeOK ==
  /\ registry \subseteq Sessions
  /\ qemu \in [Sessions -> {"unborn", "planned", "running", "closing", "exited"}]
  /\ handle \in [Sessions -> BOOLEAN] /\ alive \in [Sessions -> BOOLEAN]
  /\ sock \in [Sessions -> BOOLEAN] /\ reader \in [Sessions -> BOOLEAN]
  /\ dir \in [Sessions -> BOOLEAN] /\ adrift \subseteq Sessions
  /\ pc \in [Threads -> PCs]
  /\ op \in [Threads -> {"none", "start", "boot", "stop", "send", "monitor", "cleanup"}]
  /\ sid \in [Threads -> Sessions \cup {NoSession}]
  /\ todo \in [Threads -> SUBSET Sessions]
  /\ result \in [Threads -> {"none", "ok", "error"}]

Init ==
  /\ registry = {}
  /\ qemu = [s \in Sessions |-> "unborn"]
  /\ handle = [s \in Sessions |-> FALSE] /\ alive = [s \in Sessions |-> FALSE]
  /\ sock = [s \in Sessions |-> FALSE] /\ reader = [s \in Sessions |-> FALSE]
  /\ dir = [s \in Sessions |-> FALSE] /\ adrift = {}
  /\ pc = [t \in Threads |-> "idle"] /\ op = [t \in Threads |-> "none"]
  /\ sid = [t \in Threads |-> NoSession] /\ todo = [t \in Threads |-> {}]
  /\ result = [t \in Threads |-> "none"]

-----------------------------------------------------------------------------
(* Plausible mistakes, each a wrong form of an operator below; the         *)
(* properties reject every one of them.                                    *)
FullOffByOne       == Cardinality(registry) > MaxSessions
LeavesIt(s)        == qemu
ForgetsProc(s)     == FALSE
NoId(t)            == registry \cup {NoSession}
OnlyClosing        == {s \in Sessions : qemu[s] = "closing"}

-----------------------------------------------------------------------------
(* Steps.                                                                  *)

Goto(t, from, to) == pc[t] = from /\ pc' = [pc EXCEPT ![t] = to]

Reply(t, from, r) ==
  /\ Goto(t, from, "idle")
  /\ result' = [result EXCEPT ![t] = r]
  /\ op' = [op EXCEPT ![t] = "none"]
  /\ sid' = [sid EXCEPT ![t] = NoSession]
  /\ todo' = [todo EXCEPT ![t] = {}]

(* An exception on its way to call_tool().                                 *)
Abort(t, from) == Reply(t, from, "error") /\ UNCHANGED <<registry, sessionVars>>

Step(t, from, to) == Goto(t, from, to) /\ UNCHANGED <<op, sid, todo, result>>

(* is_running(); on a session whose proc is None it raises.                *)
Running(s) == alive[s] /\ qemu[s] \in {"running", "closing"}
Raises(s)  == ~handle[s]

(* An exception between the launch and the entry in the registry removes   *)
(* the directory and nothing else: nobody knows of the process any more.   *)
LaunchRaises(t, from) ==
  /\ Reply(t, from, "error")
  /\ dir' = [dir EXCEPT ![sid[t]] = FALSE]
  /\ adrift' = adrift \cup {sid[t]}
  /\ UNCHANGED <<registry, qemu, handle, alive, sock, reader>>

Killed(s) == IF handle[s] THEN [qemu EXCEPT ![s] = "exited"] ELSE qemu

-----------------------------------------------------------------------------
(* qemu_session_start.                                                     *)

Start(t) ==
  /\ Goto(t, "idle", "scan")
  /\ op' = [op EXCEPT ![t] = "start"]
  /\ result' = [result EXCEPT ![t] = "none"]
  /\ UNCHANGED <<registry, sessionVars, sid, todo>>

(* Which tracked sessions are dead?  The loop fails on a session without a *)
(* proc, and on a registry that another handler changes meanwhile: twice,  *)
(* since call_tool() runs a handler that raised RuntimeError once more.    *)
Scan(t) ==
  \/ /\ \A s \in registry : ~Raises(s)
     /\ Goto(t, "scan", "sweep")
     /\ todo' = [todo EXCEPT ![t] = {s \in registry : ~Running(s)}]
     /\ UNCHANGED <<registry, sessionVars, op, sid, result>>
  \/ /\ \/ \E s \in registry : Raises(s)
        \/ \E u \in Threads \ {t} : pc[u] # "idle"
     /\ Abort(t, "scan")

(* Stop the next dead one, unless another handler has removed it.          *)
Sweep(t) ==
  \/ \E s \in todo[t] \cap registry :
       /\ Goto(t, "sweep", "alive")
       /\ sid' = [sid EXCEPT ![t] = s]
       /\ todo' = [todo EXCEPT ![t] = @ \ {s}]
       /\ UNCHANGED <<registry, sessionVars, op, result>>
  \/ todo[t] \ registry # {} /\ Abort(t, "sweep")
  \/ todo[t] = {} /\ Step(t, "sweep", "cap") /\ UNCHANGED <<registry, sessionVars>>

Full == Cardinality(registry) >= MaxSessions

(* "Enforce max 2 concurrent sessions"; a bad command line also ends here. *)
CheckCap(t) ==
  \/ Abort(t, "cap")
  \/ ~Full /\ Step(t, "cap", "mkdir") /\ UNCHANGED <<registry, sessionVars>>

MakeDir(t) ==
  /\ Goto(t, "mkdir", "popen")
  /\ op' = [op EXCEPT ![t] = "boot"]
  /\ \E s \in Sessions :
       /\ qemu[s] = "unborn"
       /\ sid' = [sid EXCEPT ![t] = s]
       /\ qemu' = [qemu EXCEPT ![s] = "planned"]
       /\ dir' = [dir EXCEPT ![s] = TRUE]
  /\ UNCHANGED <<registry, handle, alive, sock, reader, adrift, todo, result>>

(* The log file is opened in the directory before the process is made.     *)
Popen(t) ==
  LET s == sid[t] IN
  \/ /\ Step(t, "popen", "connect") /\ dir[s]
     /\ qemu' = [qemu EXCEPT ![s] = "running"] /\ handle' = [handle EXCEPT ![s] = TRUE]
     /\ UNCHANGED <<registry, alive, sock, reader, dir, adrift>>
  \/ /\ Reply(t, "popen", "error")
     /\ qemu' = [qemu EXCEPT ![s] = "exited"] /\ dir' = [dir EXCEPT ![s] = FALSE]
     /\ UNCHANGED <<registry, handle, alive, sock, reader, adrift>>

(* QEMU must open its serial socket in time; if not it is killed.  Only    *)
(* two of the ways in which a connect() can fail are waited for.           *)
Connect(t) ==
  LET s == sid[t] IN
  \/ /\ Step(t, "connect", "register")
     /\ dir[s] /\ qemu[s] = "running"
     /\ sock' = [sock EXCEPT ![s] = TRUE]
     /\ UNCHANGED <<registry, qemu, handle, alive, reader, dir, adrift>>
  \/ /\ Reply(t, "connect", "error")
     /\ qemu' = Killed(s)
     /\ UNCHANGED <<registry, handle, alive, sock, reader, dir, adrift>>
  \/ LaunchRaises(t, "connect")

Tracked(t) == registry \cup {sid[t]}

(* QemuSession() starts the reader, or raises.                             *)
Register(t) ==
  LET s == sid[t] IN
  \/ /\ Step(t, "register", "boot")
     /\ alive' = [alive EXCEPT ![s] = TRUE] /\ reader' = [reader EXCEPT ![s] = TRUE]
     /\ registry' = Tracked(t) /\ adrift' = adrift \ {s}
     /\ UNCHANGED <<qemu, handle, sock, dir>>
  \/ LaunchRaises(t, "register")

(* After boot_wait: report the session, or stop and remove it.             *)
Boot(t) ==
  LET s == sid[t] IN
  \/ /\ Reply(t, "boot", "error") /\ Raises(s)
     /\ dir' = [dir EXCEPT ![s] = FALSE]
     /\ UNCHANGED <<registry, qemu, handle, alive, sock, reader, adrift>>
  \/ /\ Reply(t, "boot", "ok") /\ ~Raises(s) /\ Running(s)
     /\ UNCHANGED <<registry, sessionVars>>
  \/ /\ Step(t, "boot", "alive") /\ ~Raises(s) /\ ~Running(s)
     /\ UNCHANGED <<registry, sessionVars>>

-----------------------------------------------------------------------------
(* The handlers that are given a session.                                  *)

Lookup(t, o, first) ==
  /\ Goto(t, "idle", first)
  /\ \E s \in registry : sid' = [sid EXCEPT ![t] = s]
  /\ op' = [op EXCEPT ![t] = o]
  /\ result' = [result EXCEPT ![t] = "none"]
  /\ UNCHANGED <<registry, sessionVars, todo>>

StopCall(t)    == Lookup(t, "stop", "alive")
SendCall(t)    == Lookup(t, "send", "check")
MonitorCall(t) == Lookup(t, "monitor", "check")   \* snapshot too

(* A dead session: send stops it and removes it, monitor and snapshot only *)
(* remove it.                                                              *)
IfDead(t) == IF op[t] = "send" THEN "alive" ELSE "del"

Check(t) ==
  LET s == sid[t] IN
  \/ Abort(t, "check") /\ Raises(s)
  \/ Step(t, "check", "use") /\ ~Raises(s) /\ Running(s) /\ UNCHANGED <<registry, sessionVars>>
  \/ Step(t, "check", IfDead(t)) /\ ~Raises(s) /\ ~Running(s) /\ UNCHANGED <<registry, sessionVars>>

(* send: write to the serial socket if there is a text, wait, look whether *)
(* QEMU is still there.  The others need the monitor's socket.             *)
Use(t) ==
  LET s == sid[t]
      CanUse == IF op[t] = "send" THEN sock[s] ELSE dir[s] IN
  \/ /\ Step(t, "use", "alive")
     /\ op[t] = "send" /\ ~Raises(s) /\ ~Running(s)
     /\ UNCHANGED <<registry, sessionVars>>
  \/ /\ Reply(t, "use", "ok")
     /\ IF op[t] = "send" THEN ~Raises(s) /\ Running(s)
                          ELSE CanUse /\ qemu[s] = "running"
     /\ UNCHANGED <<registry, sessionVars>>
  \/ /\ Abort(t, "use")
     /\ ~CanUse \/ qemu[s] # "running" \/ (op[t] = "send" /\ Raises(s))

-----------------------------------------------------------------------------
(* QemuSession.stop(), and the removal its callers let follow.             *)

MarkDead(t) ==
  /\ Step(t, "alive", "quit")
  /\ alive' = [alive EXCEPT ![sid[t]] = FALSE]
  /\ UNCHANGED <<registry, qemu, handle, sock, reader, dir, adrift>>

(* "quit" to the monitor, if it can be reached; QEMU may hang.             *)
Quit(t) ==
  LET s == sid[t] IN
  /\ Step(t, "quit", "wait")
  /\ \/ dir[s] /\ qemu[s] = "running" /\ qemu' = [qemu EXCEPT ![s] = "closing"]
     \/ UNCHANGED qemu
  /\ UNCHANGED <<registry, handle, alive, sock, reader, dir, adrift>>

(* Ten seconds for QEMU to exit; proc is set to None only if it did.       *)
HandleAfterWait(s) == handle[s] /\ qemu[s] # "exited"

WaitExit(t) ==
  /\ Step(t, "wait", "close")
  /\ handle' = [handle EXCEPT ![sid[t]] = HandleAfterWait(sid[t])]
  /\ UNCHANGED <<registry, qemu, alive, sock, reader, dir, adrift>>

CloseSock(t) ==
  /\ Step(t, "close", "kill")
  /\ sock' = [sock EXCEPT ![sid[t]] = FALSE]
  /\ UNCHANGED <<registry, qemu, handle, alive, reader, dir, adrift>>

Kill(t) ==
  /\ Step(t, "kill", "rmdir")
  /\ qemu' = Killed(sid[t])
  /\ UNCHANGED <<registry, handle, alive, sock, reader, dir, adrift>>

RemoveDir(t) ==
  /\ Step(t, "rmdir", "del")
  /\ dir' = [dir EXCEPT ![sid[t]] = FALSE]
  /\ UNCHANGED <<registry, qemu, handle, alive, sock, reader, adrift>>

(* del _qemu_sessions[session_id]: a KeyError if it is gone already.       *)
Del(t) ==
  \/ Abort(t, "del") /\ sid[t] \notin registry
  \/ /\ pc[t] = "del" /\ sid[t] \in registry
     /\ registry' = registry \ {sid[t]}
     /\ IF op[t] = "start"
          THEN /\ Goto(t, "del", "sweep")
               /\ sid' = [sid EXCEPT ![t] = NoSession] /\ UNCHANGED <<op, todo, result>>
          ELSE Reply(t, "del", IF op[t] \in {"stop", "send"} THEN "ok" ELSE "error")
     /\ UNCHANGED sessionVars

-----------------------------------------------------------------------------
(* qemu_session_cleanup and _kill_orphaned_qemu().                         *)

CleanupCall(t) ==
  /\ Goto(t, "idle", "mark")
  /\ op' = [op EXCEPT ![t] = "cleanup"]
  /\ todo' = [todo EXCEPT ![t] = registry]
  /\ result' = [result EXCEPT ![t] = "none"]
  /\ UNCHANGED <<registry, sessionVars, sid>>

(* The next listed session; a KeyError if another handler removed it.      *)
CleanupMark(t) ==
  \/ \E s \in todo[t] \cap registry :
       /\ Goto(t, "mark", "killone")
       /\ sid' = [sid EXCEPT ![t] = s] /\ todo' = [todo EXCEPT ![t] = @ \ {s}]
       /\ alive' = [alive EXCEPT ![s] = FALSE] /\ sock' = [sock EXCEPT ![s] = FALSE]
       /\ UNCHANGED <<registry, qemu, handle, reader, dir, adrift, op, result>>
  \/ todo[t] \ registry # {} /\ Abort(t, "mark")

CleanupKill(t) ==
  /\ Goto(t, "killone", "mark")
  /\ qemu' = Killed(sid[t])
  /\ sid' = [sid EXCEPT ![t] = NoSession]
  /\ UNCHANGED <<registry, handle, alive, sock, reader, dir, adrift, op, todo, result>>

(* The registry is emptied, so that no process is tracked any more when    *)
(* _kill_orphaned_qemu() looks.                                            *)
Clear(t) ==
  /\ todo[t] = {}
  /\ Step(t, "mark", "pgrep")
  /\ registry' = {}
  /\ UNCHANGED sessionVars

Orphans == {s \in Sessions : qemu[s] \in {"running", "closing"}}

(* Processes that are neither killed nor in the registry.                  *)
SetsAdrift(S) == adrift' = adrift \cup (S \ registry)

(* pgrep finds them all, or it fails, which is passed over.                *)
Pgrep(t) ==
  /\ Goto(t, "pgrep", "reap")
  /\ \/ todo' = [todo EXCEPT ![t] = Orphans] /\ UNCHANGED adrift
     \/ todo' = [todo EXCEPT ![t] = {}] /\ SetsAdrift({s \in Sessions : qemu[s] = "running"})
  /\ UNCHANGED <<registry, qemu, handle, alive, sock, reader, dir, op, sid, result>>

(* SIGKILL by process id; what cannot be looked at or killed is passed     *)
(* over, and an exception of another kind ends the loop.                   *)
Reap(t) ==
  \/ \E s \in todo[t] :
       /\ Goto(t, "reap", "reap")
       /\ todo' = [todo EXCEPT ![t] = @ \ {s}]
       /\ \/ qemu' = [qemu EXCEPT ![s] = "exited"] /\ UNCHANGED adrift
          \/ SetsAdrift({s}) /\ UNCHANGED qemu
       /\ UNCHANGED <<registry, handle, alive, sock, reader, dir, op, sid, result>>
  \/ todo[t] = {} /\ Step(t, "reap", "dirs") /\ UNCHANGED <<registry, sessionVars>>

(* The directories of all sessions, whoever they belong to.                *)
RemoveDirs(t) ==
  /\ Reply(t, "dirs", "ok")
  /\ dir' = [s \in Sessions |-> FALSE]
  /\ UNCHANGED <<registry, qemu, handle, alive, sock, reader, adrift>>

-----------------------------------------------------------------------------
(* The reader threads and the QEMU processes.                              *)

ReaderEnds(s) ==
  /\ reader[s]
  /\ ~alive[s] \/ ~sock[s] \/ qemu[s] \in {"closing", "exited"}
  /\ reader' = [reader EXCEPT ![s] = FALSE] /\ alive' = [alive EXCEPT ![s] = FALSE]
  /\ UNCHANGED <<registry, qemu, handle, sock, dir, adrift, threadVars>>

(* QEMU closes its sockets, and then exits.                                *)
QemuCloses(s) ==
  /\ qemu[s] = "running"
  /\ qemu' = [qemu EXCEPT ![s] = "closing"]
  /\ UNCHANGED <<registry, handle, alive, sock, reader, dir, adrift, threadVars>>

QemuExits(s) ==
  /\ qemu[s] = "closing"
  /\ qemu' = [qemu EXCEPT ![s] = "exited"]
  /\ UNCHANGED <<registry, handle, alive, sock, reader, dir, adrift, threadVars>>

Handler(t) ==
  \/ Start(t) \/ Scan(t) \/ Sweep(t) \/ CheckCap(t) \/ MakeDir(t) \/ Popen(t)
  \/ Connect(t) \/ Register(t) \/ Boot(t)
  \/ StopCall(t) \/ SendCall(t) \/ MonitorCall(t) \/ Check(t) \/ Use(t)
  \/ MarkDead(t) \/ Quit(t) \/ WaitExit(t) \/ CloseSock(t) \/ Kill(t)
  \/ RemoveDir(t) \/ Del(t)
  \/ CleanupCall(t) \/ CleanupMark(t) \/ CleanupKill(t) \/ Clear(t)
  \/ Pgrep(t) \/ Reap(t) \/ RemoveDirs(t)

Next ==
  \/ \E t \in Threads : Handler(t)
  \/ \E s \in Sessions : ReaderEnds(s) \/ QemuCloses(s) \/ QemuExits(s)

Spec == Init /\ [][Next]_vars

-----------------------------------------------------------------------------
(* Properties.                                                             *)

(* Somebody will still kill s: the handler that is starting it, one that   *)
(* is stopping it, or a cleanup that has yet to look for processes.        *)
InCharge(s) ==
  \E t \in Threads :
    \/ sid[t] = s /\ pc[t] \in Stopping \cup {"connect", "register", "killone"}
    \/ pc[t] = "pgrep"
    \/ pc[t] = "reap" /\ s \in todo[t]

(* No QEMU is lost without a failure of the system: one that runs is in    *)
(* the registry, or a handler has it in hand, unless an exception between  *)
(* its launch and its registration (lines 6815-6840), or a pgrep or kill   *)
(* that failed (lines 280-317), has set it adrift.  The handlers remove    *)
(* sessions on the strength of is_running() (server.py lines 6787-6793,    *)
(* 6951-6956, 7359-7360, 7438-7439), which other threads change under      *)
(* them.                                                                   *)
NoOrphan ==
  \A s \in Sessions : qemu[s] = "running" => s \in registry \/ InCharge(s) \/ s \in adrift

(* A session without a proc has exited: whoever skips the kill because     *)
(* proc is None (server.py lines 207-225) skips it rightly.                *)
NoHandleNoProcess ==
  \A s \in Sessions : qemu[s] \in {"running", "closing"} => handle[s]

(* When a handler comes to remove its session, the process has exited or   *)
(* is exiting, or someone has it in hand, however many handlers stop, kill *)
(* and remove it at the same time.                                         *)
RemovesTheDead ==
  \A t \in Threads : pc[t] \in {"rmdir", "del"} =>
    qemu[sid[t]] # "running" \/ InCharge(sid[t])

Starters == {t \in Threads : pc[t] \in {"mkdir", "popen", "connect", "register"}}

(* The limit is checked before the session is inserted (server.py lines    *)
(* 6796 and 6840), so each further thread can take the registry one        *)
(* session over it, and no further: the sessions that are there and those  *)
(* on their way never exceed it by as many as there are threads.           *)
SessionBound ==
  Cardinality(registry) + Cardinality(Starters) < MaxSessions + Cardinality(Threads)
=============================================================================
