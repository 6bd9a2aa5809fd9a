------------------------- MODULE McpSessionsProofs -------------------------
(* Proofs about McpSessions, for any number of threads and sessions.       *)
EXTENDS McpSessions, FiniteSetTheorems, TLAPS

(* Where a handler has a session in hand.                                  *)
Holding == PCs \ {"idle", "scan", "sweep", "cap", "mkdir", "mark", "pgrep", "reap", "dirs"}
SidInv == TypeOK /\ \A t \in Threads : pc[t] \in Holding => sid[t] \in Sessions

(* A session without a process is in no registry and in no hands; the one  *)
(* that a handler is launching is in its hands only.                       *)
LaunchInv ==
  /\ \A s \in Sessions : qemu[s] = "unborn" =>
       s \notin registry /\ \A t \in Threads : sid[t] # s
  /\ \A t \in Threads : pc[t] \in {"popen", "connect", "register"} =>
       sid[t] \notin registry /\ \A u \in Threads \ {t} : sid[u] # sid[t]
  /\ \A t \in Threads : pc[t] = "register" => sock[sid[t]]

(* A handler is starting s or will kill it.                                *)
InHand(s) ==
  \E t \in Threads : sid[t] = s /\ pc[t] \in Stopping \cup {"connect", "register", "killone"}
Forsaken(s) == s \notin registry /\ \A t \in Threads : sid[t] # s

(* is_running() is wrong about a running process only while someone has it *)
(* in hand, or nobody can ask.                                             *)
OpenInv ==
  \A s \in Sessions : qemu[s] = "running" /\ (~alive[s] \/ ~sock[s]) =>
    InHand(s) \/ Forsaken(s)

(* RemovesTheDead without the help of a cleanup, which may fail.           *)
DeadInv ==
  \A t \in Threads : pc[t] \in {"rmdir", "del"} =>
    qemu[sid[t]] # "running" \/ InHand(sid[t])

LEMMA SidInvInit == Init => SidInv
  BY DEF Init, SidInv, TypeOK, PCs, Holding

LEMMA SidInvStep ==
  ASSUME SidInv, [Next]_vars PROVE SidInv'
<1> USE DEF SidInv, TypeOK
<1>1. ASSUME NEW t \in Threads, Start(t) PROVE SidInv'
  BY <1>1 DEF Start, Goto, sessionVars, PCs, Holding
<1>2. ASSUME NEW t \in Threads, Scan(t) PROVE SidInv'
  BY <1>2 DEF Scan, Abort, Reply, Goto, sessionVars, PCs, Holding
<1>3. ASSUME NEW t \in Threads, Sweep(t) PROVE SidInv'
  BY <1>3 DEF Sweep, Goto, Step, Abort, Reply, sessionVars, PCs, Stopping,
     Holding
<1>4. ASSUME NEW t \in Threads, CheckCap(t) PROVE SidInv'
  BY <1>4 DEF CheckCap, Abort, Reply, Step, Goto, sessionVars, PCs, Holding
<1>5. ASSUME NEW t \in Threads, MakeDir(t) PROVE SidInv'
  BY <1>5 DEF MakeDir, Goto, PCs
<1>6. ASSUME NEW t \in Threads, Popen(t) PROVE SidInv'
  <2>1. registry' = registry /\ reader' = reader /\ alive' = alive /\ sock' = sock /\ adrift' = adrift
    BY <1>6 DEF Popen, Reply
  <2>2. qemu' \in [Sessions -> {"unborn", "planned", "running", "closing", "exited"}]
    BY <1>6 DEF Popen
  <2>3. handle' \in [Sessions -> BOOLEAN] /\ dir' \in [Sessions -> BOOLEAN]
    BY <1>6 DEF Popen
  <2>4. /\ pc' \in [Threads -> PCs] /\ sid' \in [Threads -> Sessions \cup {NoSession}]
        /\ todo' \in [Threads -> SUBSET Sessions] /\ result' \in [Threads -> {"none", "ok", "error"}]
        /\ op' \in [Threads -> {"none", "start", "boot", "stop", "send", "monitor", "cleanup"}]
        /\ \A u \in Threads : pc'[u] \in Holding => sid'[u] \in Sessions
    BY SMTT(90), <1>6 DEF Popen, Step, Reply, Goto, PCs, Stopping, Holding
  <2> QED
    BY <2>1, <2>2, <2>3, <2>4
<1>7. ASSUME NEW t \in Threads, Connect(t) PROVE SidInv'
  <2>1. CASE Step(t, "connect", "register")
    <3>1. /\ pc[t] = "connect" /\ pc' = [pc EXCEPT ![t] = "register"]
          /\ UNCHANGED <<op, sid, todo, result>>
      BY <2>1 DEF Step, Goto
    <3>2. sid[t] \in Sessions
      BY <3>1 DEF Holding, PCs
    <3>3. pc'[t] # "idle"
      BY <3>1
    <3>4. ~Reply(t, "connect", "error")
      BY <3>1, <3>3 DEF Reply, Goto
    <3>5. /\ sock' = [sock EXCEPT ![sid[t]] = TRUE]
          /\ UNCHANGED <<registry, qemu, handle, alive, reader, dir, adrift>>
      BY <1>7, <3>4 DEF Connect, LaunchRaises
    <3>6. /\ pc' \in [Threads -> PCs]
          /\ \A u \in Threads : pc'[u] \in Holding => sid[u] \in Sessions
      BY <3>1, <3>2 DEF PCs, Holding
    <3>7. sock' \in [Sessions -> BOOLEAN]
      BY <3>5
    <3> QED
      BY <3>1, <3>5, <3>6, <3>7
  <2>2. CASE Reply(t, "connect", "error") /\ qemu' = Killed(sid[t])
    BY <1>7, <2>2 DEF Connect, LaunchRaises, Step, Goto, Reply, Killed, PCs, Holding
  <2>3. CASE LaunchRaises(t, "connect")
    <3>1. sid[t] \in Sessions
      BY <2>3 DEF LaunchRaises, Reply, Goto, PCs, Holding, Stopping
    <3> QED
      BY <3>1, <2>3 DEF LaunchRaises, Reply, Goto, PCs, Holding
  <2> QED
    BY <1>7, <2>1, <2>2, <2>3 DEF Connect
<1>8. ASSUME NEW t \in Threads, Register(t) PROVE SidInv'
  <2>1. sid[t] \in Sessions
    BY <1>8 DEF Register, LaunchRaises, Reply, Step, Goto, PCs, Stopping, Holding
  <2>2. CASE LaunchRaises(t, "register")
    BY <2>1, <2>2 DEF LaunchRaises, Reply, Goto, PCs, Holding
  <2>3. CASE /\ Step(t, "register", "boot")
             /\ alive' = [alive EXCEPT ![sid[t]] = TRUE] /\ reader' = [reader EXCEPT ![sid[t]] = TRUE]
             /\ registry' = Tracked(t) /\ adrift' = adrift \ {sid[t]}
             /\ UNCHANGED <<qemu, handle, sock, dir>>
    BY <2>1, <2>3 DEF Step, Goto, Tracked, PCs, Stopping, Holding
  <2> QED
    BY <1>8, <2>2, <2>3 DEF Register
<1>9. ASSUME NEW t \in Threads, Boot(t) PROVE SidInv'
  <2>1. CASE Reply(t, "boot", "error")
    BY <1>9, <2>1 DEF Boot, Step, Goto, Reply, sessionVars, PCs, Stopping, Holding
  <2>2. CASE Reply(t, "boot", "ok")
    BY <1>9, <2>2 DEF Boot, Step, Goto, Reply, sessionVars, PCs, Stopping, Holding
  <2>3. CASE Step(t, "boot", "alive")
    BY <1>9, <2>3 DEF Boot, Step, Goto, Reply, sessionVars, PCs, Stopping, Holding
  <2> QED
    BY <1>9, <2>1, <2>2, <2>3 DEF Boot
<1>10. ASSUME NEW t \in Threads, StopCall(t) PROVE SidInv'
  BY <1>10 DEF StopCall, Lookup, Goto, sessionVars, PCs, Stopping
<1>11. ASSUME NEW t \in Threads, SendCall(t) PROVE SidInv'
  BY <1>11 DEF SendCall, Lookup, Goto, sessionVars, PCs
<1>12. ASSUME NEW t \in Threads, MonitorCall(t) PROVE SidInv'
  BY <1>12 DEF MonitorCall, Lookup, Goto, sessionVars, PCs
<1>13. ASSUME NEW t \in Threads, Check(t) PROVE SidInv'
  BY SMTT(90), <1>13 DEF Check, Abort, Reply, Goto, Step, IfDead, sessionVars, PCs,
     Stopping, Holding
<1>14. ASSUME NEW t \in Threads, Use(t) PROVE SidInv'
  BY SMTT(90), <1>14 DEF Use, Step, Goto, Reply, Abort, sessionVars, PCs, Stopping,
     Holding
<1>15. ASSUME NEW t \in Threads, MarkDead(t) PROVE SidInv'
  BY <1>15 DEF MarkDead, Step, Goto, PCs, Stopping, Holding
<1>16. ASSUME NEW t \in Threads, Quit(t) PROVE SidInv'
  BY <1>16 DEF Quit, Step, Goto, PCs, Stopping, Holding
<1>17. ASSUME NEW t \in Threads, WaitExit(t) PROVE SidInv'
  BY <1>17 DEF WaitExit, Step, Goto, HandleAfterWait, PCs, Stopping, Holding
<1>18. ASSUME NEW t \in Threads, CloseSock(t) PROVE SidInv'
  BY <1>18 DEF CloseSock, Step, Goto, PCs, Stopping, Holding
<1>19. ASSUME NEW t \in Threads, Kill(t) PROVE SidInv'
  BY <1>19 DEF Kill, Step, Goto, Killed, PCs, Holding
<1>20. ASSUME NEW t \in Threads, RemoveDir(t) PROVE SidInv'
  BY <1>20 DEF RemoveDir, Step, Goto, PCs, Holding
<1>21. ASSUME NEW t \in Threads, Del(t) PROVE SidInv'
  BY <1>21 DEF Del, Abort, Reply, Goto, sessionVars, PCs, Holding
<1>22. ASSUME NEW t \in Threads, CleanupCall(t) PROVE SidInv'
  BY <1>22 DEF CleanupCall, Goto, sessionVars, PCs, Holding
<1>23. ASSUME NEW t \in Threads, CleanupMark(t) PROVE SidInv'
  <2>1. ASSUME Abort(t, "mark") PROVE SidInv'
    BY <2>1 DEF Abort, Reply, Goto, sessionVars, PCs, Stopping, Holding
  <2>2. ASSUME NEW s \in todo[t] \cap registry,
               Goto(t, "mark", "killone"), sid' = [sid EXCEPT ![t] = s],
               todo' = [todo EXCEPT ![t] = @ \ {s}],
               alive' = [alive EXCEPT ![s] = FALSE], sock' = [sock EXCEPT ![s] = FALSE],
               UNCHANGED <<registry, qemu, handle, reader, dir, adrift, op, result>>
        PROVE  SidInv'
    BY <2>2 DEF Goto, PCs, Stopping, Holding
  <2> QED
    BY <1>23, <2>1, <2>2 DEF CleanupMark
<1>24. ASSUME NEW t \in Threads, CleanupKill(t) PROVE SidInv'
  BY <1>24 DEF CleanupKill, Goto, Killed, PCs, Holding
<1>25. ASSUME NEW t \in Threads, Clear(t) PROVE SidInv'
  BY <1>25 DEF Clear, Step, Goto, sessionVars, PCs, Holding
<1>26. ASSUME NEW t \in Threads, Pgrep(t) PROVE SidInv'
  BY <1>26 DEF Pgrep, SetsAdrift, Goto, Orphans, sessionVars, PCs, Holding
<1>27. ASSUME NEW t \in Threads, Reap(t) PROVE SidInv'
  BY <1>27 DEF Reap, SetsAdrift, Goto, Step, sessionVars, PCs, Holding
<1>28. ASSUME NEW t \in Threads, RemoveDirs(t) PROVE SidInv'
  BY <1>28 DEF RemoveDirs, Reply, Goto, PCs, Holding
<1>29. ASSUME NEW s \in Sessions, ReaderEnds(s) PROVE SidInv'
  BY <1>29 DEF ReaderEnds, threadVars
<1>30. ASSUME NEW s \in Sessions, QemuCloses(s) PROVE SidInv'
  BY <1>30 DEF QemuCloses, threadVars
<1>31. ASSUME NEW s \in Sessions, QemuExits(s) PROVE SidInv'
  BY <1>31 DEF QemuExits, threadVars
<1>32. ASSUME UNCHANGED vars PROVE SidInv'
  BY <1>32 DEF vars, sessionVars, threadVars
<1> QED
  BY <1>1, <1>2, <1>3, <1>4, <1>5, <1>6, <1>7, <1>8, <1>9, <1>10, <1>11,
     <1>12, <1>13, <1>14, <1>15, <1>16, <1>17, <1>18, <1>19, <1>20, <1>21,
     <1>22, <1>23, <1>24, <1>25, <1>26, <1>27, <1>28, <1>29, <1>30, <1>31,
     <1>32
  DEF Next, Handler

LEMMA LaunchInvStep ==
  ASSUME SidInv, LaunchInv, [Next]_vars PROVE LaunchInv'
<1> USE McpConstants DEF SidInv, TypeOK, LaunchInv
<1>1. ASSUME NEW t \in Threads, Start(t) PROVE LaunchInv'
  BY <1>1 DEF Start, Goto, sessionVars
<1>2. ASSUME NEW t \in Threads, Scan(t) PROVE LaunchInv'
  BY <1>2 DEF Scan, Abort, Reply, Goto, Raises, sessionVars, Holding
<1>3. ASSUME NEW t \in Threads, Sweep(t) PROVE LaunchInv'
  BY SMTT(90), <1>3 DEF Sweep, Goto, Step, Abort, Reply, sessionVars, Holding
<1>4. ASSUME NEW t \in Threads, CheckCap(t) PROVE LaunchInv'
  BY <1>4 DEF CheckCap, Abort, Reply, Step, Goto, sessionVars, Holding
<1>5. ASSUME NEW t \in Threads, MakeDir(t) PROVE LaunchInv'
  BY <1>5 DEF MakeDir, Goto
<1>6. ASSUME NEW t \in Threads, Popen(t) PROVE LaunchInv'
  <2>1. sid[t] \in Sessions /\ qemu[sid[t]] # "unborn" /\ pc[t] = "popen"
    BY <1>6 DEF Popen, Step, Goto, Reply, PCs, Stopping, Holding
  <2>2. CASE Step(t, "popen", "connect")
    BY <1>6, <2>1, <2>2 DEF Popen, Step, Goto, Reply
  <2>3. CASE Reply(t, "popen", "error")
    <3>1. /\ sid' = [sid EXCEPT ![t] = NoSession] /\ pc' = [pc EXCEPT ![t] = "idle"]
          /\ qemu' = [qemu EXCEPT ![sid[t]] = "exited"] /\ registry' = registry /\ sock' = sock
      BY <1>6, <2>3 DEF Popen, Step, Goto, Reply
    <3>2. ASSUME NEW s \in Sessions, qemu'[s] = "unborn"
          PROVE  s \notin registry' /\ \A u \in Threads : sid'[u] # s
      BY <2>1, <3>1, <3>2
    <3>3. ASSUME NEW u \in Threads, pc'[u] \in {"popen", "connect", "register"}
          PROVE  /\ sid'[u] \notin registry' /\ \A v \in Threads \ {u} : sid'[v] # sid'[u]
                 /\ pc'[u] = "register" => sock'[sid'[u]]
      <4>1. u # t /\ pc[u] = pc'[u] /\ sid'[u] = sid[u] /\ sid[u] \in Sessions
        BY <3>1, <3>3 DEF PCs, Stopping, Holding
      <4> QED
        BY <3>1, <3>3, <4>1
    <3> QED
      BY <3>2, <3>3
  <2> QED
    BY <1>6, <2>2, <2>3 DEF Popen
<1>7. ASSUME NEW t \in Threads, Connect(t) PROVE LaunchInv'
  BY SMTT(90), <1>7 DEF Connect, LaunchRaises, Step, Goto, Reply, Killed, Holding
<1>8. ASSUME NEW t \in Threads, Register(t) PROVE LaunchInv'
  <2>1. CASE LaunchRaises(t, "register")
    BY <2>1 DEF LaunchRaises, Reply, Goto, Holding
  <2>2. CASE Step(t, "register", "boot") /\ registry' = Tracked(t) /\ UNCHANGED <<qemu, sock>>
    BY <2>2 DEF Step, Goto, Tracked
  <2> QED
    BY <1>8, <2>1, <2>2 DEF Register
<1>9. ASSUME NEW t \in Threads, Boot(t) PROVE LaunchInv'
  BY <1>9 DEF Boot, Reply, Goto, Step, Raises, sessionVars, Holding
<1>10. ASSUME NEW t \in Threads, StopCall(t) PROVE LaunchInv'
  BY <1>10 DEF StopCall, Lookup, Goto, sessionVars
<1>11. ASSUME NEW t \in Threads, SendCall(t) PROVE LaunchInv'
  BY <1>11 DEF SendCall, Lookup, Goto, sessionVars
<1>12. ASSUME NEW t \in Threads, MonitorCall(t) PROVE LaunchInv'
  BY <1>12 DEF MonitorCall, Lookup, Goto, sessionVars
<1>13. ASSUME NEW t \in Threads, Check(t) PROVE LaunchInv'
  BY SMTT(90), <1>13 DEF Check, Abort, Reply, Goto, Step, IfDead, sessionVars, Holding
<1>14. ASSUME NEW t \in Threads, Use(t) PROVE LaunchInv'
  BY SMTT(90), <1>14 DEF Use, Step, Goto, Reply, Abort, sessionVars, Holding
<1>15. ASSUME NEW t \in Threads, MarkDead(t) PROVE LaunchInv'
  BY <1>15 DEF MarkDead, Step, Goto
<1>16. ASSUME NEW t \in Threads, Quit(t) PROVE LaunchInv'
  BY <1>16 DEF Quit, Step, Goto
<1>17. ASSUME NEW t \in Threads, WaitExit(t) PROVE LaunchInv'
  BY <1>17 DEF WaitExit, Step, Goto, HandleAfterWait
<1>18. ASSUME NEW t \in Threads, CloseSock(t) PROVE LaunchInv'
  BY <1>18 DEF CloseSock, Step, Goto
<1>19. ASSUME NEW t \in Threads, Kill(t) PROVE LaunchInv'
  BY <1>19 DEF Kill, Step, Goto, Killed
<1>20. ASSUME NEW t \in Threads, RemoveDir(t) PROVE LaunchInv'
  BY <1>20 DEF RemoveDir, Step, Goto
<1>21. ASSUME NEW t \in Threads, Del(t) PROVE LaunchInv'
  BY SMTT(90), <1>21 DEF Del, Abort, Reply, Goto, sessionVars, Holding
<1>22. ASSUME NEW t \in Threads, CleanupCall(t) PROVE LaunchInv'
  BY <1>22 DEF CleanupCall, Goto, sessionVars
<1>23. ASSUME NEW t \in Threads, CleanupMark(t) PROVE LaunchInv'
  BY SMTT(90), <1>23 DEF CleanupMark, Goto, Abort, Reply, sessionVars, PCs, Holding
<1>24. ASSUME NEW t \in Threads, CleanupKill(t) PROVE LaunchInv'
  BY <1>24 DEF CleanupKill, Goto, Killed, Holding
<1>25. ASSUME NEW t \in Threads, Clear(t) PROVE LaunchInv'
  BY <1>25 DEF Clear, Step, Goto, sessionVars
<1>26. ASSUME NEW t \in Threads, Pgrep(t) PROVE LaunchInv'
  BY <1>26 DEF Pgrep, SetsAdrift, Goto, Orphans, sessionVars
<1>27. ASSUME NEW t \in Threads, Reap(t) PROVE LaunchInv'
  BY <1>27 DEF Reap, SetsAdrift, Goto, Step, sessionVars
<1>28. ASSUME NEW t \in Threads, RemoveDirs(t) PROVE LaunchInv'
  BY <1>28 DEF RemoveDirs, Reply, Goto, Holding
<1>29. ASSUME NEW s \in Sessions, ReaderEnds(s) PROVE LaunchInv'
  BY <1>29 DEF ReaderEnds, threadVars
<1>30. ASSUME NEW s \in Sessions, QemuCloses(s) PROVE LaunchInv'
  BY <1>30 DEF QemuCloses, threadVars
<1>31. ASSUME NEW s \in Sessions, QemuExits(s) PROVE LaunchInv'
  BY <1>31 DEF QemuExits, threadVars
<1>32. ASSUME UNCHANGED vars PROVE LaunchInv'
  BY <1>32 DEF vars, sessionVars, threadVars
<1> QED
  BY <1>1, <1>2, <1>3, <1>4, <1>5, <1>6, <1>7, <1>8, <1>9, <1>10, <1>11,
     <1>12, <1>13, <1>14, <1>15, <1>16, <1>17, <1>18, <1>19, <1>20, <1>21,
     <1>22, <1>23, <1>24, <1>25, <1>26, <1>27, <1>28, <1>29, <1>30, <1>31,
     <1>32
  DEF Next, Handler

LEMMA NoHandleNoProcessStep ==
  ASSUME SidInv, NoHandleNoProcess, [Next]_vars PROVE NoHandleNoProcess'
<1> USE DEF SidInv, TypeOK, NoHandleNoProcess
<1>1. ASSUME NEW t \in Threads, Start(t) PROVE NoHandleNoProcess'
  BY <1>1 DEF Start, sessionVars
<1>2. ASSUME NEW t \in Threads, Scan(t) PROVE NoHandleNoProcess'
  BY <1>2 DEF Scan, Abort, sessionVars
<1>3. ASSUME NEW t \in Threads, Sweep(t) PROVE NoHandleNoProcess'
  BY <1>3 DEF Sweep, Abort, sessionVars
<1>4. ASSUME NEW t \in Threads, CheckCap(t) PROVE NoHandleNoProcess'
  BY <1>4 DEF CheckCap, Abort, sessionVars
<1>5. ASSUME NEW t \in Threads, MakeDir(t) PROVE NoHandleNoProcess'
  BY <1>5 DEF MakeDir
<1>6. ASSUME NEW t \in Threads, Popen(t) PROVE NoHandleNoProcess'
  BY <1>6 DEF Popen
<1>7. ASSUME NEW t \in Threads, Connect(t) PROVE NoHandleNoProcess'
  BY <1>7 DEF Connect, LaunchRaises, Killed
<1>8. ASSUME NEW t \in Threads, Register(t) PROVE NoHandleNoProcess'
  BY <1>8 DEF Register, LaunchRaises
<1>9. ASSUME NEW t \in Threads, Boot(t) PROVE NoHandleNoProcess'
  BY <1>9 DEF Boot, sessionVars
<1>10. ASSUME NEW t \in Threads, StopCall(t) PROVE NoHandleNoProcess'
  BY <1>10 DEF StopCall, Lookup, sessionVars
<1>11. ASSUME NEW t \in Threads, SendCall(t) PROVE NoHandleNoProcess'
  BY <1>11 DEF SendCall, Lookup, sessionVars
<1>12. ASSUME NEW t \in Threads, MonitorCall(t) PROVE NoHandleNoProcess'
  BY <1>12 DEF MonitorCall, Lookup, sessionVars
<1>13. ASSUME NEW t \in Threads, Check(t) PROVE NoHandleNoProcess'
  BY <1>13 DEF Check, Abort, sessionVars
<1>14. ASSUME NEW t \in Threads, Use(t) PROVE NoHandleNoProcess'
  BY <1>14 DEF Use, Abort, sessionVars
<1>15. ASSUME NEW t \in Threads, MarkDead(t) PROVE NoHandleNoProcess'
  BY <1>15 DEF MarkDead
<1>16. ASSUME NEW t \in Threads, Quit(t) PROVE NoHandleNoProcess'
  BY <1>16 DEF Quit
<1>17. ASSUME NEW t \in Threads, WaitExit(t) PROVE NoHandleNoProcess'
  BY <1>17 DEF WaitExit, HandleAfterWait
<1>18. ASSUME NEW t \in Threads, CloseSock(t) PROVE NoHandleNoProcess'
  BY <1>18 DEF CloseSock
<1>19. ASSUME NEW t \in Threads, Kill(t) PROVE NoHandleNoProcess'
  BY <1>19 DEF Kill, Killed
<1>20. ASSUME NEW t \in Threads, RemoveDir(t) PROVE NoHandleNoProcess'
  BY <1>20 DEF RemoveDir
<1>21. ASSUME NEW t \in Threads, Del(t) PROVE NoHandleNoProcess'
  BY <1>21 DEF Del, Abort, sessionVars
<1>22. ASSUME NEW t \in Threads, CleanupCall(t) PROVE NoHandleNoProcess'
  BY <1>22 DEF CleanupCall, sessionVars
<1>23. ASSUME NEW t \in Threads, CleanupMark(t) PROVE NoHandleNoProcess'
  BY <1>23 DEF CleanupMark, Abort, sessionVars
<1>24. ASSUME NEW t \in Threads, CleanupKill(t) PROVE NoHandleNoProcess'
  BY <1>24 DEF CleanupKill, Killed
<1>25. ASSUME NEW t \in Threads, Clear(t) PROVE NoHandleNoProcess'
  BY <1>25 DEF Clear, sessionVars
<1>26. ASSUME NEW t \in Threads, Pgrep(t) PROVE NoHandleNoProcess'
  BY <1>26 DEF Pgrep, SetsAdrift, Orphans, sessionVars
<1>27. ASSUME NEW t \in Threads, Reap(t) PROVE NoHandleNoProcess'
  BY <1>27 DEF Reap, SetsAdrift, sessionVars
<1>28. ASSUME NEW t \in Threads, RemoveDirs(t) PROVE NoHandleNoProcess'
  BY <1>28 DEF RemoveDirs
<1>29. ASSUME NEW s \in Sessions, ReaderEnds(s) PROVE NoHandleNoProcess'
  BY <1>29 DEF ReaderEnds
<1>30. ASSUME NEW s \in Sessions, QemuCloses(s) PROVE NoHandleNoProcess'
  BY <1>30 DEF QemuCloses
<1>31. ASSUME NEW s \in Sessions, QemuExits(s) PROVE NoHandleNoProcess'
  BY <1>31 DEF QemuExits
<1>32. ASSUME UNCHANGED vars PROVE NoHandleNoProcess'
  BY <1>32 DEF vars, sessionVars
<1> QED
  BY <1>1, <1>2, <1>3, <1>4, <1>5, <1>6, <1>7, <1>8, <1>9, <1>10, <1>11,
     <1>12, <1>13, <1>14, <1>15, <1>16, <1>17, <1>18, <1>19, <1>20, <1>21,
     <1>22, <1>23, <1>24, <1>25, <1>26, <1>27, <1>28, <1>29, <1>30, <1>31,
     <1>32
  DEF Next, Handler

(* Nobody comes upon a session again that nobody has.                      *)
LEMMA ForsakenStays ==
  ASSUME SidInv, LaunchInv, [Next]_vars, NEW s \in Sessions, qemu[s] = "running", Forsaken(s)
  PROVE  Forsaken(s)'
<1>1. ASSUME NEW t \in Threads, Handler(t)
      PROVE  /\ registry' \subseteq registry \cup {sid[t]}
             /\ \A u \in Threads : \/ sid'[u] \in registry \cup {sid[u], NoSession}
                                   \/ qemu[sid'[u]] = "unborn"
  <2>1. registry' \subseteq registry \cup {sid[t]}
    BY <1>1 DEF Handler, Start, Scan, Sweep, CheckCap, MakeDir,
           Popen, Connect, Register, LaunchRaises, Boot, StopCall, SendCall,
           MonitorCall, Check, Use, MarkDead, Quit, WaitExit,
           CloseSock, Kill, RemoveDir, Del, CleanupCall, CleanupMark,
           CleanupKill, Clear, Pgrep, Reap, RemoveDirs, Step,
           Goto, Reply, Abort, Lookup, Tracked, sessionVars, threadVars
  <2>2. \/ sid' = sid
        \/ \E x \in registry \cup {NoSession} : sid' = [sid EXCEPT ![t] = x]
        \/ \E x \in Sessions : qemu[x] = "unborn" /\ sid' = [sid EXCEPT ![t] = x]
    <3>1. CASE Start(t) \/ CheckCap(t) \/ Popen(t) \/ Boot(t) \/ Connect(t) \/ Register(t)
      BY <3>1 DEF Start, CheckCap, Popen, Boot, Connect, Register, LaunchRaises, Step, Goto, Reply, Abort
    <3>2. CASE Scan(t) \/ Check(t) \/ Use(t) \/ MarkDead(t) \/ Quit(t) \/ WaitExit(t) \/ CloseSock(t)
      BY <3>2 DEF Scan, Check, Use, MarkDead, Quit, WaitExit, CloseSock, Step, Goto, Reply, Abort
    <3>3. CASE Kill(t) \/ RemoveDir(t) \/ Del(t) \/ CleanupCall(t) \/ CleanupKill(t) \/ Clear(t)
      BY <3>3 DEF Kill, RemoveDir, Del, CleanupCall, CleanupKill, Clear, Step, Goto, Reply, Abort
    <3>4. CASE Pgrep(t) \/ Reap(t) \/ RemoveDirs(t)
      BY <3>4 DEF Pgrep, Reap, RemoveDirs, Step, Goto, Reply, Abort
    <3>5. CASE Sweep(t) \/ CleanupMark(t)
      BY <3>5 DEF Sweep, CleanupMark, Step, Goto, Reply, Abort
    <3>6. CASE MakeDir(t)
      BY <3>6 DEF MakeDir
    <3>7. CASE StopCall(t) \/ SendCall(t) \/ MonitorCall(t)
      BY <3>7 DEF StopCall, SendCall, MonitorCall, Lookup
    <3> QED
      BY <1>1, <3>1, <3>2, <3>3, <3>4, <3>5, <3>6, <3>7 DEF Handler
  <2>3. sid \in [Threads -> Sessions \cup {NoSession}]
    BY DEF SidInv, TypeOK
  <2> QED
    BY <2>1, <2>2, <2>3
<1>2. ASSUME NEW x \in Sessions, ReaderEnds(x) \/ QemuCloses(x) \/ QemuExits(x)
      PROVE  registry' = registry /\ sid' = sid
  BY <1>2 DEF ReaderEnds, QemuCloses, QemuExits, threadVars
<1>3. ASSUME UNCHANGED vars
      PROVE  registry' = registry /\ sid' = sid
  BY <1>3 DEF vars, threadVars
<1>4. NoSession # s
  BY McpConstants
<1> QED
  BY <1>1, <1>2, <1>3, <1>4 DEF Next, Forsaken

(* What OpenInv says of the next state, for the sessions that anybody has. *)
OpenNext ==
  \A s \in Sessions : qemu'[s] = "running" /\ (~alive'[s] \/ ~sock'[s]) =>
    InHand(s)' \/ Forsaken(s)' \/ (qemu[s] = "running" /\ Forsaken(s))

LEMMA OpenInvStep ==
  ASSUME SidInv, LaunchInv, NoHandleNoProcess, OpenInv, [Next]_vars PROVE OpenInv'
<1> USE DEF SidInv, TypeOK, NoHandleNoProcess, OpenInv, LaunchInv, InHand, OpenNext
<1>1. ASSUME NEW t \in Threads, Start(t) PROVE OpenNext
  BY <1>1 DEF Start, Goto, sessionVars, Stopping
<1>2. ASSUME NEW t \in Threads, Scan(t) PROVE OpenNext
  BY <1>2 DEF Scan, Abort, Reply, Goto, sessionVars, Stopping
<1>3. ASSUME NEW t \in Threads, Sweep(t) PROVE OpenNext
  BY <1>3 DEF Sweep, Goto, Step, Abort, Reply, sessionVars, Stopping
<1>4. ASSUME NEW t \in Threads, CheckCap(t) PROVE OpenNext
  BY <1>4 DEF CheckCap, Abort, Reply, Step, Goto, sessionVars, Stopping
<1>5. ASSUME NEW t \in Threads, MakeDir(t) PROVE OpenNext
  BY <1>5 DEF MakeDir, Goto, Stopping
<1>6. ASSUME NEW t \in Threads, Popen(t) PROVE OpenNext
  BY <1>6 DEF Popen, Step, Goto, Reply
<1>7. ASSUME NEW t \in Threads, Connect(t) PROVE OpenNext
  <2>1. CASE LaunchRaises(t, "connect")
    <3>1. PICK x \in Sessions : x = sid[t] /\ x \notin registry /\ \A u \in Threads \ {t} : sid[u] # x
      BY <2>1 DEF LaunchRaises, Reply, Goto, Holding, PCs, Stopping
    <3>2. sid' = [sid EXCEPT ![t] = NoSession] /\ registry' = registry /\ NoSession # x
      BY <2>1, McpConstants DEF LaunchRaises, Reply
    <3>3. Forsaken(x)'
      BY <3>1, <3>2 DEF Forsaken
    <3> QED
      BY <2>1, <3>1, <3>3 DEF LaunchRaises, Reply, Goto
  <2>2. CASE ~LaunchRaises(t, "connect")
    BY <1>7, <2>2 DEF Connect, Step, Goto, Reply, Killed
  <2> QED
    BY <2>1, <2>2
<1>8. ASSUME NEW t \in Threads, Register(t) PROVE OpenNext
  <2>1. CASE LaunchRaises(t, "register")
    <3>1. PICK x \in Sessions : x = sid[t] /\ x \notin registry /\ \A u \in Threads \ {t} : sid[u] # x
      BY <2>1 DEF LaunchRaises, Reply, Goto, Holding, PCs, Stopping
    <3>2. sid' = [sid EXCEPT ![t] = NoSession] /\ registry' = registry /\ NoSession # x
      BY <2>1, McpConstants DEF LaunchRaises, Reply
    <3>3. Forsaken(x)'
      BY <3>1, <3>2 DEF Forsaken
    <3> QED
      BY <2>1, <3>1, <3>3 DEF LaunchRaises, Reply, Goto
  <2>2. CASE ~LaunchRaises(t, "register")
    BY <1>8, <2>2 DEF Register, Step, Goto, Tracked
  <2> QED
    BY <2>1, <2>2
<1>9. ASSUME NEW t \in Threads, Boot(t) PROVE OpenNext
  BY <1>9 DEF Boot, Reply, Goto, Step, sessionVars, Stopping
<1>10. ASSUME NEW t \in Threads, StopCall(t) PROVE OpenNext
  BY <1>10 DEF StopCall, Lookup, Goto, sessionVars, Stopping
<1>11. ASSUME NEW t \in Threads, SendCall(t) PROVE OpenNext
  BY <1>11 DEF SendCall, Lookup, Goto, sessionVars, Stopping
<1>12. ASSUME NEW t \in Threads, MonitorCall(t) PROVE OpenNext
  BY <1>12 DEF MonitorCall, Lookup, Goto, sessionVars, Stopping
<1>13. ASSUME NEW t \in Threads, Check(t) PROVE OpenNext
  BY <1>13 DEF Check, Abort, Reply, Goto, Step, sessionVars, Stopping
<1>14. ASSUME NEW t \in Threads, Use(t) PROVE OpenNext
  BY <1>14 DEF Use, Step, Goto, Reply, Abort, sessionVars, Stopping
<1>15. ASSUME NEW t \in Threads, MarkDead(t) PROVE OpenNext
  BY <1>15 DEF MarkDead, Step, Goto, Stopping
<1>16. ASSUME NEW t \in Threads, Quit(t) PROVE OpenNext
  BY <1>16 DEF Quit, Step, Goto, Stopping
<1>17. ASSUME NEW t \in Threads, WaitExit(t) PROVE OpenNext
  BY <1>17 DEF WaitExit, Step, Goto, HandleAfterWait, Stopping
<1>18. ASSUME NEW t \in Threads, CloseSock(t) PROVE OpenNext
  BY <1>18 DEF CloseSock, Step, Goto, Stopping
<1>19. ASSUME NEW t \in Threads, Kill(t) PROVE OpenNext
  BY <1>19 DEF Kill, Step, Goto, Killed
<1>20. ASSUME NEW t \in Threads, RemoveDir(t) PROVE OpenNext
  BY <1>20 DEF RemoveDir, Step, Goto, Stopping
<1>21. ASSUME NEW t \in Threads, Del(t) PROVE OpenNext
  BY <1>21 DEF Del, Abort, Reply, Goto, sessionVars, Stopping
<1>22. ASSUME NEW t \in Threads, CleanupCall(t) PROVE OpenNext
  BY <1>22 DEF CleanupCall, Goto, sessionVars, Stopping
<1>23. ASSUME NEW t \in Threads, CleanupMark(t) PROVE OpenNext
  BY <1>23 DEF CleanupMark, Goto, Abort, Reply, sessionVars, Stopping
<1>24. ASSUME NEW t \in Threads, CleanupKill(t) PROVE OpenNext
  BY <1>24 DEF CleanupKill, Goto, Killed, Stopping
<1>25. ASSUME NEW t \in Threads, Clear(t) PROVE OpenNext
  BY <1>25 DEF Clear, Step, Goto, sessionVars, Stopping
<1>26. ASSUME NEW t \in Threads, Pgrep(t) PROVE OpenNext
  BY <1>26 DEF Pgrep, SetsAdrift, Goto, Orphans, sessionVars, Stopping
<1>27. ASSUME NEW t \in Threads, Reap(t) PROVE OpenNext
  BY <1>27 DEF Reap, SetsAdrift, Goto, Step, sessionVars, Stopping
<1>28. ASSUME NEW t \in Threads, RemoveDirs(t) PROVE OpenNext
  BY <1>28 DEF RemoveDirs, Reply, Goto, Stopping
<1>29. ASSUME NEW s \in Sessions, ReaderEnds(s) PROVE OpenNext
  BY <1>29 DEF ReaderEnds, threadVars
<1>30. ASSUME NEW s \in Sessions, QemuCloses(s) PROVE OpenNext
  BY <1>30 DEF QemuCloses, threadVars
<1>31. ASSUME NEW s \in Sessions, QemuExits(s) PROVE OpenNext
  BY <1>31 DEF QemuExits, threadVars
<1>32. ASSUME UNCHANGED vars PROVE OpenNext
  BY <1>32 DEF vars, sessionVars, threadVars
<1>33. OpenNext
  BY <1>1, <1>2, <1>3, <1>4, <1>5, <1>6, <1>7, <1>8, <1>9, <1>10, <1>11,
     <1>12, <1>13, <1>14, <1>15, <1>16, <1>17, <1>18, <1>19, <1>20, <1>21,
     <1>22, <1>23, <1>24, <1>25, <1>26, <1>27, <1>28, <1>29, <1>30, <1>31,
     <1>32
  DEF Next, Handler
<1> HIDE DEF OpenInv, OpenNext, InHand
<1>34. ASSUME NEW s \in Sessions, qemu[s] = "running", Forsaken(s)
      PROVE  Forsaken(s)'
  BY <1>34, ForsakenStays
<1> QED
  BY <1>33, <1>34 DEF OpenInv, OpenNext

LEMMA NoOrphanStep ==
  ASSUME SidInv, LaunchInv, NoHandleNoProcess, DeadInv, NoOrphan, [Next]_vars
  PROVE  NoOrphan'
<1> USE DEF SidInv, TypeOK, NoHandleNoProcess, DeadInv, LaunchInv, InHand, InCharge, NoOrphan
<1>1. ASSUME NEW t \in Threads, Start(t) PROVE NoOrphan'
  BY <1>1 DEF Start, Goto, sessionVars, Stopping
<1>2. ASSUME NEW t \in Threads, Scan(t) PROVE NoOrphan'
  BY <1>2 DEF Scan, Abort, Reply, Goto, sessionVars, Stopping
<1>3. ASSUME NEW t \in Threads, Sweep(t) PROVE NoOrphan'
  BY <1>3 DEF Sweep, Goto, Step, Abort, Reply, sessionVars, Stopping
<1>4. ASSUME NEW t \in Threads, CheckCap(t) PROVE NoOrphan'
  BY <1>4 DEF CheckCap, Abort, Reply, Step, Goto, sessionVars, Stopping
<1>5. ASSUME NEW t \in Threads, MakeDir(t) PROVE NoOrphan'
  BY <1>5 DEF MakeDir, Goto, Stopping
<1>6. ASSUME NEW t \in Threads, Popen(t) PROVE NoOrphan'
  BY <1>6 DEF Popen, Step, Goto, Reply
<1>7. ASSUME NEW t \in Threads, Connect(t) PROVE NoOrphan'
  BY <1>7 DEF Connect, LaunchRaises, Step, Goto, Reply, Killed
<1>8. ASSUME NEW t \in Threads, Register(t) PROVE NoOrphan'
  BY <1>8 DEF Register, LaunchRaises, Reply, Step, Goto, Tracked
<1>9. ASSUME NEW t \in Threads, Boot(t) PROVE NoOrphan'
  BY <1>9 DEF Boot, Reply, Goto, Step, sessionVars, Stopping
<1>10. ASSUME NEW t \in Threads, StopCall(t) PROVE NoOrphan'
  BY <1>10 DEF StopCall, Lookup, Goto, sessionVars, Stopping
<1>11. ASSUME NEW t \in Threads, SendCall(t) PROVE NoOrphan'
  BY <1>11 DEF SendCall, Lookup, Goto, sessionVars, Stopping
<1>12. ASSUME NEW t \in Threads, MonitorCall(t) PROVE NoOrphan'
  BY <1>12 DEF MonitorCall, Lookup, Goto, sessionVars, Stopping
<1>13. ASSUME NEW t \in Threads, Check(t) PROVE NoOrphan'
  BY <1>13 DEF Check, Abort, Reply, Goto, Step, sessionVars, Stopping
<1>14. ASSUME NEW t \in Threads, Use(t) PROVE NoOrphan'
  BY <1>14 DEF Use, Step, Goto, Reply, Abort, sessionVars, Stopping
<1>15. ASSUME NEW t \in Threads, MarkDead(t) PROVE NoOrphan'
  BY <1>15 DEF MarkDead, Step, Goto, Stopping
<1>16. ASSUME NEW t \in Threads, Quit(t) PROVE NoOrphan'
  BY <1>16 DEF Quit, Step, Goto, Stopping
<1>17. ASSUME NEW t \in Threads, WaitExit(t) PROVE NoOrphan'
  BY <1>17 DEF WaitExit, Step, Goto, HandleAfterWait, Stopping
<1>18. ASSUME NEW t \in Threads, CloseSock(t) PROVE NoOrphan'
  BY <1>18 DEF CloseSock, Step, Goto, Stopping
<1>19. ASSUME NEW t \in Threads, Kill(t) PROVE NoOrphan'
  BY <1>19 DEF Kill, Step, Goto, Killed
<1>20. ASSUME NEW t \in Threads, RemoveDir(t) PROVE NoOrphan'
  BY <1>20 DEF RemoveDir, Step, Goto, Stopping
<1>21. ASSUME NEW t \in Threads, Del(t) PROVE NoOrphan'
  BY <1>21 DEF Del, Abort, Reply, Goto, sessionVars, Stopping
<1>22. ASSUME NEW t \in Threads, CleanupCall(t) PROVE NoOrphan'
  BY <1>22 DEF CleanupCall, Goto, sessionVars, Stopping
<1>23. ASSUME NEW t \in Threads, CleanupMark(t) PROVE NoOrphan'
  BY <1>23 DEF CleanupMark, Goto, Abort, Reply, sessionVars, Stopping
<1>24. ASSUME NEW t \in Threads, CleanupKill(t) PROVE NoOrphan'
  BY <1>24 DEF CleanupKill, Goto, Killed
<1>25. ASSUME NEW t \in Threads, Clear(t) PROVE NoOrphan'
  BY <1>25 DEF Clear, Step, Goto
<1>26. ASSUME NEW t \in Threads, Pgrep(t) PROVE NoOrphan'
  BY <1>26 DEF Pgrep, SetsAdrift, Goto, Orphans, sessionVars
<1>27. ASSUME NEW t \in Threads, Reap(t) PROVE NoOrphan'
  BY <1>27 DEF Reap, SetsAdrift, Goto, Step, sessionVars, Stopping
<1>28. ASSUME NEW t \in Threads, RemoveDirs(t) PROVE NoOrphan'
  BY <1>28 DEF RemoveDirs, Reply, Goto, Stopping
<1>29. ASSUME NEW s \in Sessions, ReaderEnds(s) PROVE NoOrphan'
  BY <1>29 DEF ReaderEnds, threadVars
<1>30. ASSUME NEW s \in Sessions, QemuCloses(s) PROVE NoOrphan'
  BY <1>30 DEF QemuCloses, threadVars
<1>31. ASSUME NEW s \in Sessions, QemuExits(s) PROVE NoOrphan'
  BY <1>31 DEF QemuExits, threadVars
<1>32. ASSUME UNCHANGED vars PROVE NoOrphan'
  BY <1>32 DEF vars, sessionVars, threadVars
<1> QED
  BY <1>1, <1>2, <1>3, <1>4, <1>5, <1>6, <1>7, <1>8, <1>9, <1>10, <1>11,
     <1>12, <1>13, <1>14, <1>15, <1>16, <1>17, <1>18, <1>19, <1>20, <1>21,
     <1>22, <1>23, <1>24, <1>25, <1>26, <1>27, <1>28, <1>29, <1>30, <1>31,
     <1>32
  DEF Next, Handler

LEMMA DeadInvStep ==
  ASSUME SidInv, LaunchInv, NoHandleNoProcess, OpenInv, DeadInv, [Next]_vars
  PROVE  DeadInv'
<1> USE DEF SidInv, TypeOK, NoHandleNoProcess, DeadInv, OpenInv, LaunchInv, InHand, Forsaken
<1>1. ASSUME NEW t \in Threads, Start(t) PROVE DeadInv'
  BY <1>1 DEF Start, Goto, sessionVars, Stopping
<1>2. ASSUME NEW t \in Threads, Scan(t) PROVE DeadInv'
  BY <1>2 DEF Scan, Abort, Reply, Goto, sessionVars, Stopping
<1>3. ASSUME NEW t \in Threads, Sweep(t) PROVE DeadInv'
  BY <1>3 DEF Sweep, Goto, Step, Abort, Reply, sessionVars, Stopping
<1>4. ASSUME NEW t \in Threads, CheckCap(t) PROVE DeadInv'
  BY <1>4 DEF CheckCap, Abort, Reply, Step, Goto, sessionVars, Stopping
<1>5. ASSUME NEW t \in Threads, MakeDir(t) PROVE DeadInv'
  BY <1>5 DEF MakeDir, Goto, Stopping
<1>6. ASSUME NEW t \in Threads, Popen(t) PROVE DeadInv'
  BY <1>6 DEF Popen, Step, Goto, Reply, Holding
<1>7. ASSUME NEW t \in Threads, Connect(t) PROVE DeadInv'
  BY SMTT(90), <1>7 DEF Connect, LaunchRaises, Step, Goto, Reply, Killed, Holding
<1>8. ASSUME NEW t \in Threads, Register(t) PROVE DeadInv'
  BY <1>8 DEF Register, LaunchRaises, Reply, Step, Goto, Tracked
<1>9. ASSUME NEW t \in Threads, Boot(t) PROVE DeadInv'
  BY <1>9 DEF Boot, Reply, Goto, Step, sessionVars, Stopping
<1>10. ASSUME NEW t \in Threads, StopCall(t) PROVE DeadInv'
  BY <1>10 DEF StopCall, Lookup, Goto, sessionVars, Stopping
<1>11. ASSUME NEW t \in Threads, SendCall(t) PROVE DeadInv'
  BY <1>11 DEF SendCall, Lookup, Goto, sessionVars, Stopping
<1>12. ASSUME NEW t \in Threads, MonitorCall(t) PROVE DeadInv'
  BY <1>12 DEF MonitorCall, Lookup, Goto, sessionVars, Stopping
<1>13. ASSUME NEW t \in Threads, Check(t) PROVE DeadInv'
  BY <1>13 DEF Check, Abort, Reply, Goto, Step, Running, sessionVars, Stopping,
     Holding
<1>14. ASSUME NEW t \in Threads, Use(t) PROVE DeadInv'
  BY <1>14 DEF Use, Step, Goto, Reply, Abort, sessionVars, Stopping
<1>15. ASSUME NEW t \in Threads, MarkDead(t) PROVE DeadInv'
  BY <1>15 DEF MarkDead, Step, Goto, Stopping
<1>16. ASSUME NEW t \in Threads, Quit(t) PROVE DeadInv'
  BY <1>16 DEF Quit, Step, Goto, Stopping, Holding
<1>17. ASSUME NEW t \in Threads, WaitExit(t) PROVE DeadInv'
  BY <1>17 DEF WaitExit, Step, Goto, HandleAfterWait, Stopping
<1>18. ASSUME NEW t \in Threads, CloseSock(t) PROVE DeadInv'
  BY <1>18 DEF CloseSock, Step, Goto, Stopping
<1>19. ASSUME NEW t \in Threads, Kill(t) PROVE DeadInv'
  BY <1>19 DEF Kill, Step, Goto, Killed, Holding
<1>20. ASSUME NEW t \in Threads, RemoveDir(t) PROVE DeadInv'
  BY <1>20 DEF RemoveDir, Step, Goto, Stopping
<1>21. ASSUME NEW t \in Threads, Del(t) PROVE DeadInv'
  BY <1>21 DEF Del, Abort, Reply, Goto, sessionVars, Stopping
<1>22. ASSUME NEW t \in Threads, CleanupCall(t) PROVE DeadInv'
  BY <1>22 DEF CleanupCall, Goto, sessionVars, Stopping
<1>23. ASSUME NEW t \in Threads, CleanupMark(t) PROVE DeadInv'
  BY <1>23 DEF CleanupMark, Goto, Abort, Reply, sessionVars, Stopping
<1>24. ASSUME NEW t \in Threads, CleanupKill(t) PROVE DeadInv'
  BY <1>24 DEF CleanupKill, Goto, Killed, Holding
<1>25. ASSUME NEW t \in Threads, Clear(t) PROVE DeadInv'
  BY <1>25 DEF Clear, Step, Goto, sessionVars, Stopping
<1>26. ASSUME NEW t \in Threads, Pgrep(t) PROVE DeadInv'
  BY <1>26 DEF Pgrep, SetsAdrift, Goto, Orphans, sessionVars, Stopping, Holding
<1>27. ASSUME NEW t \in Threads, Reap(t) PROVE DeadInv'
  BY <1>27 DEF Reap, SetsAdrift, Goto, Step, sessionVars, Stopping, Holding
<1>28. ASSUME NEW t \in Threads, RemoveDirs(t) PROVE DeadInv'
  BY SMTT(90), <1>28 DEF RemoveDirs, Reply, Goto, Stopping
<1>29. ASSUME NEW s \in Sessions, ReaderEnds(s) PROVE DeadInv'
  BY <1>29 DEF ReaderEnds, threadVars
<1>30. ASSUME NEW s \in Sessions, QemuCloses(s) PROVE DeadInv'
  BY <1>30 DEF QemuCloses, threadVars
<1>31. ASSUME NEW s \in Sessions, QemuExits(s) PROVE DeadInv'
  BY <1>31 DEF QemuExits, threadVars
<1>32. ASSUME UNCHANGED vars PROVE DeadInv'
  BY <1>32 DEF vars, sessionVars, threadVars
<1> QED
  BY <1>1, <1>2, <1>3, <1>4, <1>5, <1>6, <1>7, <1>8, <1>9, <1>10, <1>11,
     <1>12, <1>13, <1>14, <1>15, <1>16, <1>17, <1>18, <1>19, <1>20, <1>21,
     <1>22, <1>23, <1>24, <1>25, <1>26, <1>27, <1>28, <1>29, <1>30, <1>31,
     <1>32
  DEF Next, Handler

(* The invariant that the others rest on. *)
IInv ==
  SidInv /\ LaunchInv /\ NoHandleNoProcess /\ OpenInv /\ NoOrphan /\ DeadInv

LEMMA IInvInit == Init => IInv
<1>1. Init => SidInv
  BY SidInvInit
<1>2. Init => LaunchInv /\ NoHandleNoProcess /\ OpenInv /\ NoOrphan /\ DeadInv
  BY McpConstants
  DEF Init, LaunchInv, NoHandleNoProcess, OpenInv, NoOrphan, DeadInv
<1> QED
  BY <1>1, <1>2 DEF IInv

LEMMA IInvStep == IInv /\ [Next]_vars => IInv'
  BY SidInvStep, LaunchInvStep, NoHandleNoProcessStep, OpenInvStep, NoOrphanStep,
     DeadInvStep
  DEF IInv

(* The invariant holds throughout, whatever the number of handler threads  *)
(* and sessions.                                                           *)
THEOREM Invariance == Spec => []IInv
<1> QED
  BY IInvInit, IInvStep, PTL DEF Spec

(* Every variable keeps its type. *)
THEOREM TypeCorrect == Spec => []TypeOK
<1>1. IInv => TypeOK
  BY DEF IInv, SidInv
<1> QED
  BY <1>1, Invariance, PTL

(* No QEMU is lost without a failure: one that runs is tracked, or in the  *)
(* hands of a handler that will kill it, or an exception after its launch, *)
(* or a pgrep or kill that failed, has set it adrift (server.py, lines     *)
(* 6815-6840 and 280-317).                                                 *)
THEOREM NothingLost == Spec => []NoOrphan
<1>1. IInv => NoOrphan
  BY DEF IInv
<1> QED
  BY <1>1, Invariance, PTL

(* The kill is skipped only for a process that has exited. *)
THEOREM SkipsOnlyTheDead == Spec => []NoHandleNoProcess
<1>1. IInv => NoHandleNoProcess
  BY DEF IInv
<1> QED
  BY <1>1, Invariance, PTL

(* A handler that comes to remove its session leaves no process behind.    *)
THEOREM RemovalIsSafe == Spec => []RemovesTheDead
<1>1. IInv => RemovesTheDead
  BY DEF IInv, DeadInv, InHand, RemovesTheDead, InCharge
<1> QED
  BY <1>1, Invariance, PTL

-----------------------------------------------------------------------------
(* The number of sessions. *)

CountInv == SidInv /\ SessionBound

LEMMA Finite == ASSUME SidInv
  PROVE /\ IsFiniteSet(registry) /\ IsFiniteSet(Starters) /\ IsFiniteSet(Threads)
        /\ Cardinality(registry) \in Nat /\ Cardinality(Starters) \in Nat
        /\ Cardinality(Threads) \in Nat
<1>1. IsFiniteSet(registry) /\ IsFiniteSet(Starters) /\ IsFiniteSet(Threads)
  BY McpConstants, FS_Subset DEF SidInv, TypeOK, Starters
<1> QED
  BY <1>1, FS_CardinalityType

(* Smaller sets have no more elements. *)
LEMMA FewerSessions ==
  ASSUME SidInv, SessionBound, registry' \subseteq registry, Starters' \subseteq Starters
  PROVE  SessionBound'
<1>1. /\ Cardinality(registry') <= Cardinality(registry)
      /\ Cardinality(Starters') <= Cardinality(Starters)
      /\ Cardinality(registry') \in Nat /\ Cardinality(Starters') \in Nat
  BY Finite, FS_Subset, FS_CardinalityType
<1> QED
  BY <1>1, Finite, McpConstants DEF SessionBound

(* The bound is kept: the check that lets a thread pass leaves room for    *)
(* every thread, and a session that is inserted was on its way.            *)
LEMMA CountInvStep == ASSUME CountInv, [Next]_vars PROVE SessionBound'
<1> USE DEF CountInv
<1>1. SidInv'
  BY SidInvStep
<1>2. ASSUME NEW t \in Threads, CheckCap(t) PROVE SessionBound'
  <2>1. CASE Abort(t, "cap")
    <3>1. registry' \subseteq registry /\ Starters' \subseteq Starters
      BY <2>1 DEF Abort, Reply, Goto, Starters, SidInv, TypeOK
    <3> QED
      BY <3>1, FewerSessions
  <2>2. CASE ~Full /\ UNCHANGED registry
    <3>1. Cardinality(registry) <= MaxSessions - 1
      BY <2>2, Finite, McpConstants DEF Full
    <3>2. Starters' \subseteq Threads
      BY DEF Starters
    <3>3. Cardinality(Starters') <= Cardinality(Threads) /\ Cardinality(Starters') \in Nat
      BY <3>2, Finite, FS_Subset, FS_CardinalityType
    <3> QED
      BY <2>2, <3>1, <3>3, Finite, McpConstants DEF SessionBound
  <2> QED
    BY <1>2, <2>1, <2>2 DEF CheckCap
<1>3. ASSUME NEW t \in Threads, Register(t), ~LaunchRaises(t, "register") PROVE SessionBound'
  <2>1. registry' = registry \cup {sid[t]} /\ Starters' = Starters \ {t} /\ t \in Starters
    BY <1>3 DEF Register, Step, Goto, Tracked, Starters, SidInv, TypeOK
  <2>2. Cardinality(registry') <= Cardinality(registry) + 1
    <3>1. Cardinality(registry \cup {sid[t]}) \in {Cardinality(registry), Cardinality(registry) + 1}
      BY Finite, FS_AddElement
    <3> QED
      BY <2>1, <3>1, Finite
  <2>3. Cardinality(Starters') = Cardinality(Starters) - 1
    BY <2>1, Finite, FS_RemoveElement
  <2>4. Cardinality(registry') \in Nat
    BY <1>1, Finite, <2>1, FS_AddElement, FS_CardinalityType
  <2> QED
    BY <2>2, <2>3, <2>4, Finite, McpConstants DEF SessionBound
<1>7. ASSUME NEW t \in Threads, LaunchRaises(t, "register") PROVE SessionBound'
  <2>1. registry' \subseteq registry /\ Starters' \subseteq Starters
    BY <1>7 DEF LaunchRaises, Reply, Goto, Starters, SidInv, TypeOK
  <2> QED
    BY <2>1, FewerSessions
<1>8. ASSUME NEW t \in Threads, Connect(t) PROVE SessionBound'
  <2>1. registry' \subseteq registry /\ Starters' \subseteq Starters
    BY <1>8 DEF Connect, LaunchRaises, Step, Reply, Goto, Starters, SidInv, TypeOK
  <2> QED
    BY <2>1, FewerSessions
<1>4. ASSUME NEW t \in Threads, Handler(t), ~CheckCap(t), ~Register(t), ~Connect(t) PROVE SessionBound'
  <2>1. registry' \subseteq registry
    BY <1>4 DEF Handler, Start, Scan, Sweep, CheckCap, MakeDir,
           Popen, Connect, Register, LaunchRaises, Boot, StopCall, SendCall,
           MonitorCall, Check, Use, MarkDead, Quit, WaitExit,
           CloseSock, Kill, RemoveDir, Del, CleanupCall, CleanupMark,
           CleanupKill, Clear, Pgrep, Reap, RemoveDirs, Step,
           Goto, Reply, Abort, Lookup, sessionVars, threadVars
  <2>2. Starters' \subseteq Starters
    <3> USE DEF Starters, SidInv, TypeOK, Step, Goto, Reply, Abort
    <3>1. CASE Start(t) \/ Scan(t) \/ Sweep(t)
      BY <3>1 DEF Start, Scan, Sweep
    <3>2. CASE MakeDir(t) \/ Popen(t) \/ Boot(t)
      BY <3>2 DEF MakeDir, Popen, Boot
    <3>3. CASE StopCall(t) \/ SendCall(t) \/ MonitorCall(t)
      BY <3>3 DEF StopCall, SendCall, MonitorCall, Lookup
    <3>4. CASE Check(t) \/ Use(t)
      BY <3>4 DEF Check, Use, IfDead
    <3>5. CASE MarkDead(t) \/ Quit(t) \/ WaitExit(t) \/ CloseSock(t)
      BY <3>5 DEF MarkDead, Quit, WaitExit, CloseSock
    <3>6. CASE Kill(t) \/ RemoveDir(t) \/ Del(t)
      BY <3>6 DEF Kill, RemoveDir, Del
    <3>7. CASE CleanupCall(t) \/ CleanupMark(t) \/ CleanupKill(t) \/ Clear(t)
      BY <3>7 DEF CleanupCall, CleanupMark, CleanupKill, Clear
    <3>8. CASE Pgrep(t) \/ Reap(t) \/ RemoveDirs(t)
      BY <3>8 DEF Pgrep, Reap, RemoveDirs
    <3> QED
      BY <1>4, <3>1, <3>2, <3>3, <3>4, <3>5, <3>6, <3>7, <3>8 DEF Handler
  <2> QED
    BY <2>1, <2>2, FewerSessions
<1>5. ASSUME NEW s \in Sessions, ReaderEnds(s) \/ QemuCloses(s) \/ QemuExits(s)
      PROVE  SessionBound'
  <2>1. registry' = registry /\ Starters' = Starters
    BY <1>5 DEF ReaderEnds, QemuCloses, QemuExits, threadVars, Starters
  <2> QED
    BY <2>1 DEF SessionBound
<1>6. ASSUME UNCHANGED vars PROVE SessionBound'
  BY <1>6 DEF vars, threadVars, SessionBound, Starters
<1> QED
  BY <1>2, <1>3, <1>4, <1>5, <1>6, <1>7, <1>8 DEF Next

(* The limit on sessions is passed by less than the number of threads.     *)
THEOREM Bounded == Spec => []SessionBound
<1>1. Init => CountInv
  <2>1. Init => registry = {} /\ Starters = {}
    BY DEF Init, Starters
  <2>2. Cardinality({}) = 0
    BY FS_EmptySet
  <2>3. Cardinality(Threads) \in Nat
    BY McpConstants, FS_CardinalityType
  <2> QED
    BY <2>1, <2>2, <2>3, SidInvInit, McpConstants DEF CountInv, SessionBound
<1>2. CountInv /\ [Next]_vars => CountInv'
  BY CountInvStep, SidInvStep DEF CountInv
<1>3. CountInv => SessionBound
  BY DEF CountInv
<1> QED
  BY <1>1, <1>2, <1>3, PTL DEF Spec
=============================================================================
