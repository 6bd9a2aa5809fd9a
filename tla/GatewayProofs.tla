--------------------------- MODULE GatewayProofs ---------------------------
(***************************************************************************)
(* The gateway of a guest in single-user mode: nothing but the agent's own *)
(* child takes the processor from it, nothing else is mapped at its        *)
(* address, and read() does not fail.  Then, as long as the host gives     *)
(* nothing up and the agent lives, the gateway implements RemoteFiles and  *)
(* every success is exact, for any paths, contents, commands and outputs,  *)
(* any number of calls and of failing opens and writes.                    *)
(*                                                                         *)
(* The last part drops all that but the single user: with timeouts,        *)
(* restarts, failing reads and other processes' memory a push that begins  *)
(* on an idle page is still exact.                                         *)
(***************************************************************************)
EXTENDS Gateway, SequenceTheorems, TLAPS

SingleUser == ~Preempted /\ ~Mapped /\ "READ" \notin Failing

SteadySpec == GwInit /\ [][GwSteady]_gwVars

Bytes == Blobs \cup {Empty}

-----------------------------------------------------------------------------
(* The inductive invariant.                                                *)

(* What the host's and the agent's own steps keep to, whatever the other   *)
(* side does: the agent writes to a file that is there, and the host takes *)
(* its next blob from the content it was given.                            *)
OwnSteps ==
  /\ fd \in Paths => files[fd] \in Seq(Bytes)
  /\ (hpc = "idle") = (reply # "none")
  /\ hpc # "idle" =>
       \/ request = "push" /\ want \in {"OPEN_W", "WRITE", "CLOSE"}
       \/ request = "pull" /\ want \in {"OPEN_R", "READ", "CLOSE"}
       \/ request = "other" /\ want \in {"RUN", "PING"}
  /\ request = "push" /\ reply = "ok" => ~failed
  /\ hpc = "path" => want \in {"OPEN_W", "OPEN_R"}
  /\ hpc \in {"data", "arg"} => want \in {"WRITE", "RUN"} /\ sent < Len(content)
  /\ want = "OPEN_W" => sent = 0
  /\ hpc \in {"rdarg", "rddata"} => want \in {"READ", "RUN", "PING"}
  /\ apc = "child" => acmd = "RUN"

(* The command word passes the page from one side to the other.            *)
HandOver ==
  /\ apc # "child" => current
  /\ (hpc = "idle") = (reply # "none")
  /\ hpc \notin Polling => cmd = Idle
  /\ hpc = "status" => cmd = Idle
  /\ cmd = Idle => apc = "spin"
  /\ cmd # Idle => cmd = want
  /\ apc # "spin" => acmd = cmd
  /\ apc = "child" => acmd = "RUN"
  /\ hpc # "idle" => want # Idle
  /\ hpc \in Polling /\ (cmd = Idle \/ apc = "clear") => status # 0

(* A call issues its own commands only, each by its own steps.             *)
InStep ==
  /\ hpc # "idle" =>
       \/ request = "push" /\ want \in {"OPEN_W", "WRITE", "CLOSE"}
       \/ request = "pull" /\ want \in {"OPEN_R", "READ", "CLOSE"}
       \/ request = "other" /\ want \in {"RUN", "PING"}
  /\ hpc = "path" => want \in {"OPEN_W", "OPEN_R"}
  /\ hpc \in {"data", "arg"} => want \in {"WRITE", "RUN"}
  /\ hpc = "rdarg" => want \in {"READ", "RUN", "PING"}
  /\ hpc = "rddata" => want \in {"READ", "RUN"} /\ arg = 1

(* The agent has yet to do what the host wants, or has done it.            *)
Before == hpc = "issue" \/ (hpc \in Polling /\ cmd # Idle /\ apc # "clear")
After  == hpc = "after" \/ (hpc \in Polling /\ (cmd = Idle \/ apc = "clear"))
Verdict == IF hpc = "after" THEN st ELSE status

(* s is the first n elements of t.                                         *)
Start(s, t, n) == Len(s) = n /\ n <= Len(t) /\ \A i \in 1..n : s[i] = t[i]

Writing(n) ==
  fd = target /\ mode = "w" /\ files[target] \in Seq(Bytes) /\ Start(files[target], content, n)

PushOnTheWay ==
  request = "push" /\ hpc # "idle" =>
    /\ want = "OPEN_W" =>
         sent = 0 /\ ~failed /\ (Before => path = target) /\ (After /\ Verdict = 1 => Writing(0))
    /\ want = "WRITE" =>
         /\ ~failed
         /\ hpc \in {"data", "arg"} => Writing(sent) /\ sent < Len(content)
         /\ hpc = "arg" => data = content[sent + 1]
         /\ Before \/ After => sent \in 1..Len(content)
         /\ Before => Writing(sent - 1) /\ data = content[sent] /\ arg = 1
         /\ After /\ Verdict = 1 => Writing(sent)
    /\ want = "CLOSE" => failed \/ files[target] = content

Reading == fd = target /\ mode = "r" /\ files[target] \in Seq(Bytes)

PullOnTheWay ==
  request = "pull" /\ hpc # "idle" =>
    /\ want = "OPEN_R" =>
         got = <<>> /\ (Before => path = target) /\ (After /\ Verdict = 1 => Reading /\ pos = 0)
    /\ want = "READ" =>
         /\ Reading /\ pos \in 0..Len(files[target])
         /\ Before => Start(got, files[target], pos)
         /\ After => Verdict = 1
         /\ ~Before /\ arg = 1 => pos > 0 /\ Start(got, files[target], pos - 1)
                                  /\ data = files[target][pos]
         /\ ~Before /\ arg # 1 => Start(got, files[target], pos) /\ pos = Len(files[target])
    /\ want = "CLOSE" => files[target] = got

RunOnTheWay ==
  want = "RUN" /\ hpc # "idle" =>
    /\ content \in Seq(Blobs) /\ Len(content) = 1 /\ got = <<>>
    /\ hpc = "data" => sent = 0
    /\ hpc = "arg" => data = content[1]
    /\ Before => data = content[1] /\ arg = 1
    /\ (hpc \in {"rdarg", "rddata"} /\ st = 1) \/ (After /\ Verdict = 1) =>
         data = Output[content[1]] /\ arg = IF data = Empty THEN 0 ELSE 1

SteadyInv ==
  /\ GwTypeOK /\ OwnSteps
  /\ HandOver /\ InStep /\ PushOnTheWay /\ PullOnTheWay /\ RunOnTheWay
  /\ Exact

-----------------------------------------------------------------------------
(* Sequences.                                                              *)

(* What starts with nothing of t can be empty only.                        *)
LEMMA EmptyStart ==
  ASSUME NEW t \in Seq(Bytes)
  PROVE  <<>> \in Seq(Bytes) /\ Start(<<>>, t, 0)
BY DEF Start

(* The next element of t makes the start longer by one.                    *)
LEMMA StartGrows ==
  ASSUME NEW s \in Seq(Bytes), NEW t \in Seq(Bytes), NEW n \in 1..Len(t),
         Start(s, t, n - 1)
  PROVE  /\ t[n] \in Bytes
         /\ s \o <<t[n]>> = Append(s, t[n])
         /\ Append(s, t[n]) \in Seq(Bytes)
         /\ Start(Append(s, t[n]), t, n)
<1>1. t[n] \in Bytes
  BY ElementOfSeq
<1>2. s \o <<t[n]>> = Append(s, t[n])
  BY <1>1, AppendIsConcat
<1>3. /\ Append(s, t[n]) \in Seq(Bytes) /\ Len(Append(s, t[n])) = Len(s) + 1
      /\ \A i \in 1..(Len(s) + 1) :
           Append(s, t[n])[i] = IF i <= Len(s) THEN s[i] ELSE t[n]
  BY <1>1, AppendProperties
<1>4. Len(s) = n - 1 /\ n <= Len(t) /\ \A i \in 1..(n - 1) : s[i] = t[i]
  BY DEF Start
<1>5. ASSUME NEW i \in 1..n
      PROVE  Append(s, t[n])[i] = t[i]
  <2>1. CASE i = n
    BY <1>3, <1>4, <2>1
  <2>2. CASE i # n
    BY <1>3, <1>4, <2>2
  <2> QED
    BY <2>1, <2>2
<1> QED
  BY <1>1, <1>2, <1>3, <1>4, <1>5 DEF Start

(* The start that is as long as t is t.                                    *)
LEMMA StartIsAll ==
  ASSUME NEW s \in Seq(Bytes), NEW t \in Seq(Bytes), Start(s, t, Len(t))
  PROVE  s = t
BY SeqEqual DEF Start

-----------------------------------------------------------------------------
(* The types, and each side's own steps, whatever happens.                 *)

(* Contents, and what is written and read, are bytes.                      *)
LEMMA ContentTyped ==
  ASSUME GwTypeOK PROVE content \in Seq(Bytes)
<1>1. content \in Seq(Blobs) /\ Blobs \subseteq Bytes
  BY DEF GwTypeOK, Bytes
<1> QED
  BY <1>1, SeqMonotonic

(* What the agent writes are bytes, to a file that is there.               *)
LEMMA WriteTyped ==
  ASSUME GwTypeOK, OwnSteps, AgentWrite
  PROVE  /\ files' \in [Paths -> Seq(Bytes) \cup {Absent}]
         /\ fd \in Paths => files'[fd] \in Seq(Bytes)
<1> DEFINE wrote == IF arg = 1 THEN <<data>> ELSE <<>>
<1>1. wrote \in Seq(Bytes)
  <2>1. data \in Bytes
    BY DEF GwTypeOK, Bytes
  <2>2. <<data>> \in Seq(Bytes)
    BY <2>1
  <2> QED
    BY <2>2, EmptySeq
<1>2. UNCHANGED files \/ (fd \in Paths /\ files' = [files EXCEPT ![fd] = @ \o wrote])
  BY DEF AgentWrite
<1> HIDE DEF wrote
<1>3. fd \in Paths => files[fd] \in Seq(Bytes) /\ files[fd] \o wrote \in Seq(Bytes)
  BY <1>1, ConcatProperties DEF OwnSteps
<1>4. files \in [Paths -> Seq(Bytes) \cup {Absent}]
  BY DEF GwTypeOK, Bytes
<1> QED
  BY <1>2, <1>3, <1>4

(* What a command of the agent that touches a file leaves alone.           *)
LEMMA OpenWFrame ==
  ASSUME AgentOpenW
  PROVE  /\ apc = "work" /\ acmd = "OPEN_W" /\ apc' = "clear" /\ current /\ status' \in {1, -1}
         /\ fd' \in Paths \cup {NoFd} /\ mode' \in {mode, "w"} /\ pos' \in {pos, 0}
         /\ UNCHANGED <<arg, data, acmd, cmd, path, current, callVars, hostVars,
                        timeouts, switches, restarts>>
BY DEF AgentOpenW, Done

LEMMA OpenRFrame ==
  ASSUME GatewayConstants, AgentOpenR
  PROVE  /\ apc = "work" /\ acmd = "OPEN_R" /\ apc' = "clear" /\ current /\ status' \in {1, -1}
         /\ fd' \in Paths \cup {NoFd} /\ mode' \in {mode, "r"} /\ pos' \in {pos, 0}
         /\ fd' \in Paths => files[fd'] # Absent
         /\ UNCHANGED <<arg, data, files, acmd, cmd, path, current, callVars, hostVars,
                        timeouts, switches, restarts>>
<1>1. NoFd \notin Paths
  BY DEF NoFd, GatewayConstants
<1> QED
  BY <1>1 DEF AgentOpenR, Done, OpenPos

LEMMA ReadFrame ==
  ASSUME AgentRead
  PROVE  /\ apc = "work" /\ acmd = "READ" /\ apc' = "clear" /\ current /\ status' \in {1, -1}
         /\ arg' \in 0..1 /\ pos' \in {pos, pos + 1}
         /\ UNCHANGED <<fd, mode, files, acmd, cmd, path, current, callVars, hostVars,
                        timeouts, switches, restarts>>
BY DEF AgentRead, Done, Length

LEMMA NextIsByte ==
  ASSUME GwTypeOK, OwnSteps, hpc \in {"data", "arg"}
  PROVE  content[sent + 1] \in Bytes
<1>1. sent + 1 \in 1..Len(content)
  BY ContentTyped, LenProperties DEF GwTypeOK, OwnSteps
<1> QED
  BY <1>1, ContentTyped, ElementOfSeq

LEMMA CallTyped ==
  ASSUME GatewayConstants, Calls
  PROVE  /\ content' \in Seq(Blobs) /\ got' \in Seq(Bytes)
         /\ hpc' = "data" => sent' < Len(content')
<1>1. content' \in Contents \/ content' = <<>> \/ \E b \in Blobs : content' = <<b>>
  BY DEF Calls, PushFile, PullFile, Run, Ping, NewCall
<1>2. \A b \in Blobs : <<b>> \in Seq(Blobs)
  OBVIOUS
<1>3. got' = <<>>
  BY DEF Calls, PushFile, PullFile, Run, Ping, NewCall
<1>4. ASSUME hpc' = "data" PROVE sent' < Len(content')
  <2>1. PICK b \in Blobs : content' = <<b>> /\ sent' = 0
    BY <1>4 DEF Calls, PushFile, PullFile, Run, Ping, NewCall
  <2>2. Len(<<b>>) = 1
    OBVIOUS
  <2> QED
    BY <2>1, <2>2
<1> QED
  BY <1>1, <1>2, <1>3, <1>4, EmptySeq DEF GatewayConstants

LEMMA CallFrame ==
  ASSUME Calls
  PROVE  /\ calls' = calls + 1 /\ sent' = 0 /\ st' = None /\ failed' = FALSE /\ reply' = "none"
         /\ idleStart' \in BOOLEAN
BY DEF Calls, PushFile, PullFile, Run, Ping, NewCall

LEMMA CallTypesKept ==
  ASSUME GatewayConstants, GwTypeOK, Calls
  PROVE  GwTypeOK'
<1>1. content' \in Seq(Blobs) /\ got' \in Seq(Blobs \cup {Empty})
  BY CallTyped DEF Bytes
<1>2. calls' \in Nat
  <2>1. calls \in Nat
    BY DEF GwTypeOK
  <2>2. calls' = calls + 1
    BY CallFrame
  <2> QED
    BY <2>1, <2>2
<1>7. sent' \in Nat /\ st' \in Statuses \cup {None}
  BY CallFrame
<1>3. failed' \in BOOLEAN /\ reply' \in {"none", "ok", "failed"} /\ idleStart' \in BOOLEAN
  BY CallFrame
<1>4. /\ hpc' \in {"path", "data", "issue"} /\ want' \in Commands
      /\ request' \in {"push", "pull", "other"}
  BY DEF Calls, PushFile, PullFile, Run, Ping, NewCall, Commands
<1>5. target' \in Paths
  BY DEF Calls, PushFile, PullFile, Run, Ping, NewCall, GwTypeOK
<1>6. UNCHANGED <<pageVars, agentVars, current, faultVars>>
  BY DEF Calls, PushFile, PullFile, Run, Ping, NewCall
<1> QED
  BY <1>1, <1>2, <1>3, <1>4, <1>5, <1>6, <1>7
  DEF GwTypeOK, pageVars, agentVars, fileVars, faultVars

(* A command that the agent has done has left the types.                   *)
LEMMA WorkTypes ==
  ASSUME GwTypeOK, apc' = "clear", arg' \in 0..1, status' \in {1, -1}, data' \in Bytes,
         fd' \in Paths \cup {NoFd}, mode' \in {"r", "w"}, pos' \in Nat,
         files' \in [Paths -> Seq(Bytes) \cup {Absent}], faults' \in Nat,
         UNCHANGED <<acmd, cmd, path, current, callVars, hostVars, timeouts, switches, restarts>>
  PROVE  GwTypeOK'
<1>1. /\ cmd' \in Commands \cup {Idle} /\ path' \in Paths \cup {NoPath}
      /\ acmd' \in Commands \cup {Idle} /\ current' \in BOOLEAN
  BY DEF GwTypeOK
<1>2. /\ hpc' = hpc /\ request' = request /\ target' = target /\ content' = content
      /\ want' = want /\ st' = st /\ sent' = sent /\ got' = got /\ failed' = failed
      /\ reply' = reply /\ idleStart' = idleStart /\ calls' = calls
  BY DEF callVars, hostVars
<1>3. status' \in Statuses
  BY DEF Statuses
<1> QED
  BY <1>1, <1>2, <1>3 DEF GwTypeOK, Bytes

LEMMA DoneTypes ==
  ASSUME GatewayConstants, GwTypeOK, OwnSteps, AgentOpenW \/ AgentWrite \/ AgentOpenR \/ AgentRead
  PROVE  GwTypeOK'
<1>1. /\ arg \in 0..1 /\ data \in Bytes /\ fd \in Paths \cup {NoFd} /\ mode \in {"r", "w"}
      /\ pos \in Nat /\ faults \in Nat
      /\ files \in [Paths -> Seq(Bytes) \cup {Absent}]
  BY DEF GwTypeOK, Bytes
<1>2. CASE AgentOpenW
  <2>1. faults' \in Nat
    BY <1>1, <1>2 DEF AgentOpenW, NoFault, Fault
  <2>2. files' \in [Paths -> Seq(Bytes) \cup {Absent}]
    <3>1. <<>> \in Seq(Bytes)
      BY EmptySeq
    <3>2. UNCHANGED files \/ files' = [files EXCEPT ![path] = <<>>]
      BY <1>2 DEF AgentOpenW
    <3> QED
      BY <1>1, <3>1, <3>2
  <2>3. /\ arg' \in 0..1 /\ status' \in {1, -1} /\ data' \in Bytes /\ fd' \in Paths \cup {NoFd}
        /\ mode' \in {"r", "w"} /\ pos' \in Nat
    BY <1>1, <1>2, OpenWFrame
  <2> QED
    BY <1>2, <2>1, <2>2, <2>3, OpenWFrame, WorkTypes
<1>3. CASE AgentWrite
  <2>1. faults' \in Nat
    <3>1. NoFault \/ Fault("WRITE")
      BY <1>3 DEF AgentWrite
    <3> QED
      BY <1>1, <3>1 DEF NoFault, Fault
  <2>2. files' \in [Paths -> Seq(Bytes) \cup {Absent}]
    BY <1>3, WriteTyped
  <2>3. /\ status' \in {1, -1} /\ apc' = "clear"
        /\ UNCHANGED <<arg, data, fd, mode, pos, acmd, cmd, path, current, callVars, hostVars,
                       timeouts, switches, restarts>>
    BY <1>3 DEF AgentWrite, Done
  <2> QED
    BY <1>1, <2>1, <2>2, <2>3, WorkTypes
<1>4. CASE AgentOpenR
  <2>1. faults' \in Nat
    BY <1>1, <1>4 DEF AgentOpenR, NoFault, Fault
  <2>2. /\ arg' \in 0..1 /\ status' \in {1, -1} /\ data' \in Bytes /\ fd' \in Paths \cup {NoFd}
        /\ mode' \in {"r", "w"} /\ pos' \in Nat
    BY <1>1, <1>4, OpenRFrame
  <2>3. files' \in [Paths -> Seq(Bytes) \cup {Absent}]
    BY <1>1, <1>4, OpenRFrame
  <2> QED
    BY <1>4, <2>1, <2>2, <2>3, OpenRFrame, WorkTypes
<1>5. CASE AgentRead
  <2>1. faults' \in Nat
    BY <1>1, <1>5 DEF AgentRead, NoFault, Fault
  <2>2. data' \in Bytes
    <3>1. data' = data \/ (fd \in Paths /\ pos < Len(files[fd]) /\ data' = files[fd][pos + 1])
      BY <1>5 DEF AgentRead
    <3>2. ASSUME fd \in Paths, pos < Len(files[fd]) PROVE files[fd][pos + 1] \in Bytes
      <4>1. files[fd] \in Seq(Bytes)
        BY <3>2 DEF OwnSteps
      <4>2. pos + 1 \in 1..Len(files[fd])
        BY <1>1, <3>2, <4>1, LenProperties
      <4> QED
        BY <4>1, <4>2, ElementOfSeq
    <3> QED
      BY <1>1, <3>1, <3>2
  <2>3. /\ arg' \in 0..1 /\ status' \in {1, -1} /\ fd' \in Paths \cup {NoFd}
        /\ mode' \in {"r", "w"} /\ pos' \in Nat
    BY <1>1, <1>5, ReadFrame
  <2>4. files' \in [Paths -> Seq(Bytes) \cup {Absent}]
    BY <1>1, <1>5, ReadFrame
  <2> QED
    BY <1>5, <2>1, <2>2, <2>3, <2>4, ReadFrame, WorkTypes
<1> QED
  BY <1>2, <1>3, <1>4, <1>5

(* Whatever happens, every variable keeps its type.                        *)
LEMMA OwnTypesKept ==
  ASSUME GatewayConstants, GwTypeOK, OwnSteps, GwNext
  PROVE  GwTypeOK'
<1> USE GatewayConstants DEF GatewayConstants, GwTypeOK, Idle, None, Statuses,
   Commands, Bytes,
      pageVars, fileVars, agentVars, callVars, hostVars, faultVars
<1>1. CASE AgentTake
  BY <1>1 DEF AgentTake, CmdInHand
<1>2. CASE AgentPing
  BY <1>2 DEF AgentPing, Done, NoFault
<1>3. CASE AgentOpenW
  BY <1>3, DoneTypes
<1>4. CASE AgentWrite
  BY <1>4, DoneTypes
<1>5. CASE AgentOpenR
  BY <1>5, DoneTypes
<1>6. CASE AgentRead
  BY <1>6, DoneTypes
<1>7. CASE AgentClose
  BY <1>7 DEF AgentClose, Done, NoFault
<1>8. CASE AgentSpawn
  BY <1>8 DEF AgentSpawn
<1>9. CASE AgentOutput
  BY <1>9 DEF AgentOutput, NoFault, Fault
<1>10. CASE AgentClear
  BY <1>10 DEF AgentClear, ClearedCmd
<1>11. CASE SetPath
  BY <1>11 DEF SetPath, HostStep, Poke
<1>12. CASE PutData
  <2>1. content[sent + 1] \in Bytes
    BY <1>12, NextIsByte DEF PutData, HostStep
  <2>2. data' \in Bytes
    BY <1>12, <2>1 DEF PutData, Poke
  <2>3. /\ hpc' = "arg"
        /\ UNCHANGED <<agentVars, current, callVars, reply, cmd, arg, status, path, want, st,
                       sent, got, failed, faultVars>>
    BY <1>12 DEF PutData, HostStep
  <2> QED
    BY <2>2, <2>3
<1>13. CASE PutArg
  BY <1>13 DEF PutArg, HostStep, Poke
<1>14. CASE Issue
  BY <1>14 DEF Issue, HostStep, Poke
<1>15. CASE PollMagic
  BY <1>15 DEF PollMagic, HostStep
<1>16. CASE PollCmd
  BY <1>16 DEF PollCmd, HostStep, Peek, Cleared
<1>17. CASE GetStatus
  BY <1>17 DEF GetStatus, HostStep, Peek
<1>18. CASE AfterOpen
  <2>1. /\ hpc' \in {"idle", "issue", "data"} /\ want' \in Commands \cup {Idle}
        /\ failed' \in BOOLEAN /\ reply' \in {"none", "ok", "failed"}
    BY <1>18 DEF AfterOpen, Then, HostStep, Return
  <2>2. UNCHANGED <<pageVars, agentVars, current, callVars, st, sent, got, faultVars>>
    BY <1>18 DEF AfterOpen, Then, HostStep, Return
  <2> QED
    BY <2>1, <2>2
<1>19. CASE AfterWrite
  <2>1. hpc' \in {"issue", "data"} /\ want' \in Commands /\ failed' \in BOOLEAN
    BY <1>19 DEF AfterWrite, Then, HostStep, Succeeded, WriteFailed
  <2>2. UNCHANGED <<pageVars, agentVars, current, callVars, reply, st, sent, got, faultVars>>
    BY <1>19 DEF AfterWrite, Then, HostStep, Succeeded, WriteFailed
  <2> QED
    BY <2>1, <2>2
<1>20. CASE AfterRead
  <2>1. hpc' \in {"rdarg", "issue"} /\ want' \in Commands /\ failed' \in BOOLEAN
    BY <1>20 DEF AfterRead, Then, HostStep, Succeeded
  <2>2. UNCHANGED <<pageVars, agentVars, current, callVars, reply, st, sent, got, faultVars>>
    BY <1>20 DEF AfterRead, Then, HostStep, Succeeded
  <2> QED
    BY <2>1, <2>2
<1>21. CASE AfterClose
  BY <1>21 DEF AfterClose, Return, Succeeded
<1>22. CASE AfterRun
  BY <1>22 DEF AfterRun, Then, HostStep
<1>23. CASE GetArg
  BY <1>23 DEF GetArg, Peek, Succeeded
<1>24. CASE GetData
  BY <1>24 DEF GetData, Peek, Succeeded
<1>25. CASE Calls
  BY <1>25, CallTypesKept
<1>26. CASE SwitchAway
  <2>1. current' \in BOOLEAN
    BY <1>26 DEF SwitchAway
  <2>2. UNCHANGED <<pageVars, agentVars, callVars, hostVars, timeouts, faults, restarts>>
    BY <1>26 DEF SwitchAway
  <2>3. switches' \in Nat
    BY <1>26 DEF SwitchAway
  <2> QED
    BY <2>1, <2>2, <2>3
<1>27. CASE SwitchBack
  BY <1>27 DEF SwitchBack
<1>28. CASE Timeout
  BY <1>28 DEF Timeout, HostStep
<1>29. CASE AgentRestart
  BY <1>29 DEF AgentRestart
<1> QED
  BY <1>1, <1>2, <1>3, <1>4, <1>5, <1>6, <1>7, <1>8, <1>9, <1>10, <1>11, <1>12,
     <1>13, <1>14, <1>15, <1>16, <1>17, <1>18, <1>19, <1>20, <1>21, <1>22, <1>23,
     <1>24, <1>25, <1>26, <1>27, <1>28, <1>29
  DEF GwNext, GwSteady, Agent, HostProceeds

(* And so do the two sides' own steps.                                     *)
LEMMA OwnStepsKept ==
  ASSUME GatewayConstants, GwTypeOK, OwnSteps, GwNext
  PROVE  OwnSteps'
<1> USE GatewayConstants DEF GatewayConstants, GwTypeOK, OwnSteps, Idle, None,
   Statuses, Commands,
      NoFd, Bytes, pageVars, fileVars, agentVars, callVars, hostVars, faultVars
<1>1. CASE AgentTake
  BY <1>1 DEF AgentTake, CmdInHand
<1>2. CASE AgentPing
  BY <1>2 DEF AgentPing, Done, NoFault
<1>3. CASE AgentOpenW
  <2>1. fd' \in Paths => files'[fd'] \in Seq(Bytes)
    <3>1. fd' = NoFd \/ (fd' = path /\ path \in Paths /\ files' = [files EXCEPT ![path] = <<>>])
      BY <1>3 DEF AgentOpenW
    <3>2. <<>> \in Seq(Bytes)
      BY EmptySeq
    <3> QED
      BY <3>1, <3>2
  <2> QED
    BY <1>3, <2>1, OpenWFrame
<1>4. CASE AgentWrite
  <2>1. UNCHANGED <<acmd, path, fd, current, callVars, hostVars>> /\ apc' = "clear"
    BY <1>4 DEF AgentWrite, Done
  <2>2. fd' \in Paths => files'[fd'] \in Seq(Bytes)
    BY <1>4, <2>1, WriteTyped
  <2> QED
    BY <2>1, <2>2
<1>5. CASE AgentOpenR
  <2>1. apc' = "clear" /\ UNCHANGED <<acmd, cmd, current, callVars, hostVars>>
    BY <1>5, OpenRFrame
  <2>2. fd' \in Paths => files'[fd'] \in Seq(Bytes)
    <3>1. files' = files /\ (fd' \in Paths => files[fd'] # Absent)
      BY <1>5, OpenRFrame
    <3> QED
      BY <3>1
  <2> QED
    BY <2>1, <2>2
<1>6. CASE AgentRead
  BY <1>6, ReadFrame
<1>7. CASE AgentClose
  BY <1>7 DEF AgentClose, Done, NoFault
<1>8. CASE AgentSpawn
  BY <1>8 DEF AgentSpawn
<1>9. CASE AgentOutput
  BY <1>9 DEF AgentOutput, NoFault, Fault
<1>10. CASE AgentClear
  BY <1>10 DEF AgentClear, ClearedCmd
<1>11. CASE SetPath
  BY <1>11 DEF SetPath, HostStep, Poke
<1>12. CASE PutData
  BY <1>12 DEF PutData, HostStep, Poke
<1>13. CASE PutArg
  BY <1>13 DEF PutArg, HostStep, Poke
<1>14. CASE Issue
  BY <1>14 DEF Issue, HostStep, Poke
<1>15. CASE PollMagic
  BY <1>15 DEF PollMagic, HostStep
<1>16. CASE PollCmd
  BY <1>16 DEF PollCmd, HostStep, Peek, Cleared
<1>17. CASE GetStatus
  BY <1>17 DEF GetStatus, HostStep, Peek
<1>18. CASE AfterOpen
  <2>1. UNCHANGED <<agentVars, callVars, sent>> /\ want \in {"OPEN_W", "OPEN_R"} /\ hpc = "after"
    BY <1>18 DEF AfterOpen, Then, HostStep, Return
  <2>2. \/ hpc' = "idle" /\ reply' = "failed" /\ want' = want
        \/ hpc' = "issue" /\ want = "OPEN_R" /\ want' = "READ" /\ reply' = reply
        \/ hpc' = "issue" /\ want = "OPEN_W" /\ want' = "CLOSE" /\ reply' = reply
        \/ hpc' = "data" /\ want = "OPEN_W" /\ want' = "WRITE" /\ reply' = reply /\ content # <<>>
    BY <1>18 DEF AfterOpen, Then, HostStep, Return
  <2>3. content # <<>> => 0 < Len(content)
    BY EmptySeq, LenProperties
  <2> QED
    BY <2>1, <2>2, <2>3
<1>19. CASE AfterWrite
  BY <1>19 DEF AfterWrite, Then, HostStep, Succeeded, WriteFailed
<1>20. CASE AfterRead
  BY <1>20 DEF AfterRead, Then, HostStep, Succeeded
<1>21. CASE AfterClose
  BY <1>21 DEF AfterClose, Return, Succeeded
<1>22. CASE AfterRun
  BY <1>22 DEF AfterRun, Then, HostStep
<1>23. CASE GetArg
  BY <1>23 DEF GetArg, Peek, Succeeded
<1>24. CASE GetData
  BY <1>24 DEF GetData, Peek, Succeeded
<1>25. CASE Calls
  <2>1. UNCHANGED agentVars /\ reply' = "none" /\ sent' = 0
    BY <1>25 DEF Calls, PushFile, PullFile, Run, Ping, NewCall
  <2>2. \/ request' = "push" /\ want' = "OPEN_W" /\ hpc' = "path"
        \/ request' = "pull" /\ want' = "OPEN_R" /\ hpc' = "path"
        \/ request' = "other" /\ want' = "RUN" /\ hpc' = "data"
        \/ request' = "other" /\ want' = "PING" /\ hpc' = "issue"
    BY <1>25 DEF Calls, PushFile, PullFile, Run, Ping, NewCall
  <2>3. hpc' = "data" => sent' < Len(content')
    BY <1>25, CallTyped
  <2>4. fd' \in Paths => files'[fd'] \in Seq(Bytes)
    BY <2>1
  <2> QED
    BY <2>1, <2>2, <2>3, <2>4
<1>26. CASE SwitchAway
  BY <1>26 DEF SwitchAway
<1>27. CASE SwitchBack
  BY <1>27 DEF SwitchBack
<1>28. CASE Timeout
  BY <1>28 DEF Timeout, HostStep
<1>29. CASE AgentRestart
  BY <1>29 DEF AgentRestart
<1> QED
  BY <1>1, <1>2, <1>3, <1>4, <1>5, <1>6, <1>7, <1>8, <1>9, <1>10, <1>11, <1>12,
     <1>13, <1>14, <1>15, <1>16, <1>17, <1>18, <1>19, <1>20, <1>21, <1>22, <1>23,
     <1>24, <1>25, <1>26, <1>27, <1>28, <1>29
  DEF GwNext, GwSteady, Agent, HostProceeds

-----------------------------------------------------------------------------
(* What the agent and the host find when they do their part.               *)

(* The contents pushed are sequences of bytes.                             *)
LEMMA ContentBytes ==
  ASSUME SteadyInv
  PROVE  content \in Seq(Bytes)
BY ContentTyped DEF SteadyInv

(* A command that is in hand is the one the host wants.                    *)
LEMMA InHand ==
  ASSUME SteadyInv, apc # "spin"
  PROVE  /\ want = acmd /\ cmd = acmd /\ hpc \in Polling /\ acmd # Idle
         /\ apc # "clear" => Before
BY DEF SteadyInv, HandOver, Before

(* A write finds the file as far as it was written, and the next blob.     *)
LEMMA WriteInHand ==
  ASSUME SteadyInv, AgentWrite
  PROVE  /\ request = "push" /\ want = "WRITE" /\ ~failed /\ hpc \in Polling
         /\ sent \in 1..Len(content) /\ Writing(sent - 1)
         /\ content[sent] \in Bytes
         /\ Start(Append(files[target], content[sent]), content, sent)
         /\ Append(files[target], content[sent]) \in Seq(Bytes)
         /\ \/ /\ status' = 1
               /\ files' = [files EXCEPT ![target] = Append(files[target], content[sent])]
            \/ /\ status' = -1
               /\ files' \in {files,
                             [files EXCEPT ![target] = Append(files[target], content[sent])]}
<1>1. apc = "work" /\ acmd = "WRITE"
  BY DEF AgentWrite, Done
<1>2. want = "WRITE" /\ hpc \in Polling /\ Before
  BY <1>1, InHand
<1>3. request = "push"
  BY <1>2 DEF SteadyInv, InStep, Polling
<1>4. /\ ~failed /\ sent \in 1..Len(content) /\ Writing(sent - 1)
      /\ data = content[sent] /\ arg = 1
  BY <1>2, <1>3 DEF SteadyInv, PushOnTheWay, Polling
<1>5. files[target] \in Seq(Bytes) /\ Start(files[target], content, sent - 1) /\ fd = target
  BY <1>4 DEF Writing
<1>6. /\ content[sent] \in Bytes
      /\ files[target] \o <<content[sent]>> = Append(files[target], content[sent])
      /\ Start(Append(files[target], content[sent]), content, sent)
      /\ Append(files[target], content[sent]) \in Seq(Bytes)
  BY <1>4, <1>5, ContentBytes, StartGrows
<1>7. mode = "w" /\ fd \in Paths
  BY <1>4 DEF Writing, SteadyInv, GwTypeOK
<1>8. \/ /\ status' = 1
         /\ files' = [files EXCEPT ![target] = @ \o <<data>>]
      \/ /\ status' = -1
         /\ files' \in {files, [files EXCEPT ![target] = @ \o <<data>>]}
  BY <1>4, <1>5, <1>7 DEF AgentWrite, Done, NoFd
<1> QED
  BY <1>2, <1>3, <1>4, <1>6, <1>8

(* A read finds the file at the place up to which the host has it.         *)
LEMMA ReadInHand ==
  ASSUME SingleUser, SteadyInv, AgentRead
  PROVE  /\ request = "pull" /\ want = "READ" /\ hpc \in Polling
         /\ Reading /\ Start(got, files[target], pos) /\ status' = 1
         /\ \/ /\ pos \in 0..(Len(files[target]) - 1)
               /\ data' = files[target][pos + 1] /\ data' \in Bytes
               /\ arg' = 1 /\ pos' = pos + 1
            \/ /\ pos = Len(files[target])
               /\ arg' = 0 /\ UNCHANGED <<data, pos>>
<1>1. apc = "work" /\ acmd = "READ"
  BY DEF AgentRead, Done
<1>2. want = "READ" /\ hpc \in Polling /\ Before
  BY <1>1, InHand
<1>3. request = "pull"
  BY <1>2 DEF SteadyInv, InStep, Polling
<1>4. Reading /\ pos \in 0..Len(files[target]) /\ Start(got, files[target], pos)
  BY <1>2, <1>3 DEF SteadyInv, PullOnTheWay, Polling
<1>5. fd = target /\ fd \in Paths /\ mode = "r" /\ files[target] \in Seq(Bytes)
  BY <1>4 DEF Reading, SteadyInv, GwTypeOK
<1>6. ~Fault("READ")
  BY DEF Fault, SingleUser
<1>7. /\ status' = 1
      /\ IF pos < Len(files[target])
           THEN data' = files[target][pos + 1] /\ arg' = 1 /\ pos' = pos + 1
           ELSE arg' = 0 /\ UNCHANGED <<data, pos>>
  BY <1>5, <1>6 DEF AgentRead, Done
<1>8. Len(files[target]) \in Nat
  BY <1>5, LenProperties
<1>9. pos < Len(files[target]) => files[target][pos + 1] \in Bytes
  BY <1>4, <1>5, <1>8, ElementOfSeq
<1> QED
  BY <1>2, <1>3, <1>4, <1>7, <1>8, <1>9

(* An open finds the path that the host has written.                       *)
LEMMA OpenWInHand ==
  ASSUME SteadyInv, AgentOpenW
  PROVE  /\ request = "push" /\ want = "OPEN_W" /\ hpc \in Polling /\ sent = 0 /\ ~failed
         /\ \/ /\ status' = 1 /\ files' = [files EXCEPT ![target] = <<>>]
               /\ fd' = target /\ mode' = "w" /\ pos' = 0
            \/ /\ status' = -1 /\ fd' = NoFd /\ UNCHANGED <<files, mode, pos>>
<1>1. apc = "work" /\ acmd = "OPEN_W"
  BY DEF AgentOpenW, Done
<1>2. want = "OPEN_W" /\ hpc \in Polling /\ Before
  BY <1>1, InHand
<1>3. request = "push"
  BY <1>2 DEF SteadyInv, InStep, Polling
<1>4. path = target /\ sent = 0 /\ ~failed
  BY <1>2, <1>3 DEF SteadyInv, PushOnTheWay, Polling
<1> QED
  BY <1>2, <1>3, <1>4 DEF AgentOpenW, Done

(* So does an open for reading.                                           *)
LEMMA OpenRInHand ==
  ASSUME SteadyInv, AgentOpenR
  PROVE  /\ request = "pull" /\ want = "OPEN_R" /\ hpc \in Polling /\ got = <<>>
         /\ \/ /\ status' = 1 /\ files[target] # Absent
               /\ fd' = target /\ mode' = "r" /\ pos' = 0
            \/ /\ status' = -1 /\ fd' = NoFd /\ UNCHANGED <<mode, pos>>
<1>1. apc = "work" /\ acmd = "OPEN_R"
  BY DEF AgentOpenR, Done
<1>2. want = "OPEN_R" /\ hpc \in Polling /\ Before
  BY <1>1, InHand
<1>3. request = "pull"
  BY <1>2 DEF SteadyInv, InStep, Polling
<1>4. path = target /\ got = <<>>
  BY <1>2, <1>3 DEF SteadyInv, PullOnTheWay, Polling
<1> QED
  BY <1>2, <1>3, <1>4 DEF AgentOpenR, Done, OpenPos

(* A shell command is in the buffer until its output takes its place.      *)
LEMMA RunInHand ==
  ASSUME SteadyInv, AgentSpawn \/ AgentOutput
  PROVE  /\ request = "other" /\ want = "RUN" /\ hpc \in Polling
         /\ content \in Seq(Blobs) /\ Len(content) = 1 /\ content[1] \in Bytes
         /\ data = content[1] /\ arg = 1 /\ got = <<>>
<1>1. acmd = "RUN" /\ apc \in {"work", "child"}
  BY DEF AgentSpawn, AgentOutput, SteadyInv, HandOver
<1>2. want = "RUN" /\ hpc \in Polling /\ Before
  BY <1>1, InHand
<1>3. request = "other"
  BY <1>2 DEF SteadyInv, InStep, Polling
<1>4. /\ content \in Seq(Blobs) /\ Len(content) = 1
      /\ data = content[1] /\ arg = 1 /\ got = <<>>
  BY <1>2 DEF SteadyInv, RunOnTheWay, Polling
<1>5. content[1] \in Bytes
  BY <1>4, ElementOfSeq DEF Bytes
<1> QED
  BY <1>2, <1>3, <1>4, <1>5

(* The command word goes to the agent and comes back with the answer.      *)
LEMMA HandOverKept ==
  ASSUME GatewayConstants, SingleUser, SteadyInv, GwSteady
  PROVE  HandOver'
<1> USE GatewayConstants, SingleUser, SteadyInv DEF SingleUser, SteadyInv,
      GwTypeOK, HandOver, InStep, Idle, None, Statuses, Commands, Polling,
      pageVars, fileVars, agentVars, callVars, hostVars, faultVars
<1>1. CASE AgentTake
  BY <1>1 DEF AgentTake, CmdInHand
<1>2. CASE AgentPing
  BY <1>2 DEF AgentPing, Done, NoFault
<1>3. CASE AgentOpenW
  BY <1>3, OpenWFrame
<1>4. CASE AgentWrite
  <2>1. status' # 0
    BY WriteInHand, <1>4
  <2>2. apc' = "clear" /\ apc = "work" /\ UNCHANGED <<acmd, cmd, want, hpc, reply, current>>
    BY <1>4 DEF AgentWrite, Done
  <2> QED
    BY <2>1, <2>2
<1>5. CASE AgentOpenR
  <2>1. /\ apc = "work" /\ apc' = "clear" /\ current /\ status' # 0
        /\ UNCHANGED <<acmd, cmd, current, callVars, hostVars>>
    BY <1>5, OpenRFrame
  <2> QED
    BY <2>1
<1>6. CASE AgentRead
  BY <1>6, ReadFrame
<1>7. CASE AgentClose
  BY <1>7 DEF AgentClose, Done, NoFault
<1>8. CASE AgentSpawn
  BY <1>8 DEF AgentSpawn
<1>9. CASE AgentOutput
  BY <1>9 DEF AgentOutput, NoFault, Fault
<1>10. CASE AgentClear
  BY <1>10 DEF AgentClear, ClearedCmd
<1>11. CASE SetPath
  BY <1>11 DEF SetPath, HostStep, Poke
<1>12. CASE PutData
  BY <1>12 DEF PutData, HostStep, Poke
<1>13. CASE PutArg
  BY <1>13 DEF PutArg, HostStep, Poke
<1>14. CASE Issue
  BY <1>14 DEF Issue, HostStep, Poke
<1>15. CASE PollMagic
  BY <1>15 DEF PollMagic, HostStep
<1>16. CASE PollCmd
  BY <1>16 DEF PollCmd, HostStep, Peek, Cleared
<1>17. CASE GetStatus
  BY <1>17 DEF GetStatus, HostStep, Peek
<1>18. CASE AfterOpen
  BY <1>18 DEF AfterOpen, Then, HostStep, Return, Succeeded
<1>19. CASE AfterWrite
  BY <1>19 DEF AfterWrite, Then, HostStep, Succeeded, WriteFailed
<1>20. CASE AfterRead
  BY <1>20 DEF AfterRead, Then, HostStep, Succeeded
<1>21. CASE AfterClose
  BY <1>21 DEF AfterClose, Return, Succeeded
<1>22. CASE AfterRun
  BY <1>22 DEF AfterRun, Then, HostStep
<1>23. CASE GetArg
  BY <1>23 DEF GetArg, Peek, Succeeded
<1>24. CASE GetData
  BY <1>24 DEF GetData, Peek, Succeeded
<1>25. CASE Calls
  BY <1>25 DEF Calls, PushFile, PullFile, Run, Ping, NewCall
<1>26. CASE SwitchAway
  BY <1>26 DEF SwitchAway
<1>27. CASE SwitchBack
  BY <1>27 DEF SwitchBack
<1> QED
  BY <1>1, <1>2, <1>3, <1>4, <1>5, <1>6, <1>7, <1>8, <1>9, <1>10, <1>11,
     <1>12, <1>13, <1>14, <1>15, <1>16, <1>17, <1>18, <1>19, <1>20, <1>21,
     <1>22, <1>23, <1>24, <1>25, <1>26, <1>27 DEF GwSteady, Agent,
     HostProceeds

(* A call goes on with its own commands only.                              *)
LEMMA InStepKept ==
  ASSUME GatewayConstants, SingleUser, SteadyInv, GwSteady
  PROVE  InStep'
<1> USE GatewayConstants, SingleUser, SteadyInv DEF SingleUser, SteadyInv,
      GwTypeOK, HandOver, InStep, Idle, None, Statuses, Commands, Polling,
      pageVars, fileVars, agentVars, callVars, hostVars, faultVars
<1>1. CASE AgentTake
  BY <1>1 DEF AgentTake, CmdInHand
<1>2. CASE AgentPing
  BY <1>2 DEF AgentPing, Done, NoFault
<1>3. CASE AgentOpenW
  BY <1>3 DEF AgentOpenW, Done, NoFault, Fault
<1>4. CASE AgentWrite
  BY <1>4 DEF AgentWrite, Done, NoFault, Fault
<1>5. CASE AgentOpenR
  BY <1>5 DEF AgentOpenR, Done, NoFault, Fault, OpenPos
<1>6. CASE AgentRead
  BY <1>6 DEF AgentRead, Done, NoFault, Fault, Length
<1>7. CASE AgentClose
  BY <1>7 DEF AgentClose, Done, NoFault
<1>8. CASE AgentSpawn
  BY <1>8 DEF AgentSpawn
<1>9. CASE AgentOutput
  BY <1>9 DEF AgentOutput, NoFault, Fault
<1>10. CASE AgentClear
  BY <1>10 DEF AgentClear, ClearedCmd
<1>11. CASE SetPath
  BY <1>11 DEF SetPath, HostStep, Poke
<1>12. CASE PutData
  BY <1>12 DEF PutData, HostStep, Poke
<1>13. CASE PutArg
  BY <1>13 DEF PutArg, HostStep, Poke
<1>14. CASE Issue
  BY <1>14 DEF Issue, HostStep, Poke
<1>15. CASE PollMagic
  BY <1>15 DEF PollMagic, HostStep
<1>16. CASE PollCmd
  BY <1>16 DEF PollCmd, HostStep, Peek, Cleared
<1>17. CASE GetStatus
  BY <1>17 DEF GetStatus, HostStep, Peek
<1>18. CASE AfterOpen
  BY <1>18 DEF AfterOpen, Then, HostStep, Return, Succeeded
<1>19. CASE AfterWrite
  BY <1>19 DEF AfterWrite, Then, HostStep, Succeeded, WriteFailed
<1>20. CASE AfterRead
  BY <1>20 DEF AfterRead, Then, HostStep, Succeeded
<1>21. CASE AfterClose
  BY <1>21 DEF AfterClose, Return, Succeeded
<1>22. CASE AfterRun
  BY <1>22 DEF AfterRun, Then, HostStep
<1>23. CASE GetArg
  BY <1>23 DEF GetArg, Peek, Succeeded
<1>24. CASE GetData
  BY <1>24 DEF GetData, Peek, Succeeded
<1>25. CASE Calls
  BY <1>25 DEF Calls, PushFile, PullFile, Run, Ping, NewCall
<1>26. CASE SwitchAway
  BY <1>26 DEF SwitchAway
<1>27. CASE SwitchBack
  BY <1>27 DEF SwitchBack
<1> QED
  BY <1>1, <1>2, <1>3, <1>4, <1>5, <1>6, <1>7, <1>8, <1>9, <1>10, <1>11,
     <1>12, <1>13, <1>14, <1>15, <1>16, <1>17, <1>18, <1>19, <1>20, <1>21,
     <1>22, <1>23, <1>24, <1>25, <1>26, <1>27 DEF GwSteady, Agent,
     HostProceeds

(* A push adds the next blob to the blobs before it, or knows it failed.   *)
LEMMA PushKept ==
  ASSUME GatewayConstants, SingleUser, SteadyInv, GwSteady
  PROVE  PushOnTheWay'
<1> USE GatewayConstants, SingleUser, SteadyInv DEF SingleUser, SteadyInv,
      GwTypeOK, HandOver, InStep, Idle, None, Statuses, Commands, Polling,
      PushOnTheWay, Before, After, Verdict, Writing, pageVars, fileVars,
      agentVars, callVars, hostVars, faultVars
<1>1. CASE AgentTake
  BY <1>1 DEF AgentTake, CmdInHand
<1>2. CASE AgentPing
  BY <1>2 DEF AgentPing, Done, NoFault
<1>3. CASE AgentOpenW
  <2>1. /\ request = "push" /\ want = "OPEN_W" /\ hpc \in Polling /\ sent = 0 /\ ~failed
        /\ \/ /\ status' = 1 /\ files' = [files EXCEPT ![target] = <<>>]
              /\ fd' = target /\ mode' = "w"
           \/ status' = -1
    BY <1>3, OpenWInHand
  <2>2. apc' = "clear" /\ UNCHANGED <<request, want, hpc, cmd, sent, failed, target, content>>
    BY <1>3 DEF AgentOpenW, Done
  <2>3. status' = 1 => Writing(0)'
    BY <2>1, <2>2, EmptyStart, ContentBytes
  <2> QED
    BY <2>1, <2>2, <2>3 DEF PushOnTheWay, Before, After, Verdict, Polling
<1>4. CASE AgentWrite
  <2>1. /\ request = "push" /\ want = "WRITE" /\ ~failed /\ hpc \in Polling
        /\ sent \in 1..Len(content) /\ status' \in {1, -1}
        /\ Start(Append(files[target], content[sent]), content, sent)
        /\ Append(files[target], content[sent]) \in Seq(Bytes)
        /\ status' = 1 => files' = [files EXCEPT ![target] = Append(files[target], content[sent])]
    BY <1>4, WriteInHand
  <2>2. /\ apc' = "clear"
        /\ UNCHANGED <<request, want, hpc, cmd, sent, failed, target, content, fd, mode>>
    BY <1>4 DEF AgentWrite, Done
  <2>3. fd = target /\ mode = "w"
    BY <1>4, WriteInHand
  <2>4. status' = 1 => Writing(sent)'
    BY <2>1, <2>2, <2>3
  <2> QED
    BY <2>1, <2>2, <2>4 DEF PushOnTheWay, Before, After, Verdict, Polling
<1>5. CASE AgentOpenR
  BY <1>5 DEF AgentOpenR, Done, NoFault, Fault, OpenPos
<1>6. CASE AgentRead
  BY <1>6 DEF AgentRead, Done, NoFault, Fault, Length
<1>7. CASE AgentClose
  BY <1>7 DEF AgentClose, Done, NoFault
<1>8. CASE AgentSpawn
  BY <1>8 DEF AgentSpawn
<1>9. CASE AgentOutput
  BY <1>9 DEF AgentOutput, NoFault, Fault
<1>10. CASE AgentClear
  BY <1>10 DEF AgentClear, ClearedCmd
<1>11. CASE SetPath
  BY <1>11 DEF SetPath, HostStep, Poke
<1>12. CASE PutData
  BY <1>12 DEF PutData, HostStep, Poke
<1>13. CASE PutArg
  BY <1>13 DEF PutArg, HostStep, Poke
<1>14. CASE Issue
  BY <1>14 DEF Issue, HostStep, Poke
<1>15. CASE PollMagic
  BY <1>15 DEF PollMagic, HostStep
<1>16. CASE PollCmd
  BY <1>16 DEF PollCmd, HostStep, Peek, Cleared
<1>17. CASE GetStatus
  BY <1>17 DEF GetStatus, HostStep, Peek
<1>18. CASE AfterOpen
  <2>1. CASE request = "push" /\ Succeeded(st)
    <3>1. want = "OPEN_W" /\ hpc = "after" /\ st = 1 /\ sent = 0 /\ ~failed /\ Writing(0)
      BY <1>18, <2>1 DEF AfterOpen, Then, HostStep, Succeeded
    <3>2. Len(content) \in Nat /\ (content # <<>> => Len(content) > 0)
      BY ContentBytes, EmptySeq, LenProperties
    <3>3. content = <<>> => files[target] = content
      BY <3>1, ContentBytes, EmptyStart, StartIsAll
    <3>4. UNCHANGED <<request, sent, failed, target, content, files, fd, mode, cmd, apc>>
      BY <1>18, <2>1 DEF AfterOpen, Then, HostStep
    <3>5. \/ content = <<>> /\ want' = "CLOSE" /\ hpc' = "issue"
          \/ content # <<>> /\ want' = "WRITE" /\ hpc' = "data"
      BY <1>18, <2>1, <3>1 DEF AfterOpen, Then, HostStep
    <3> QED
      BY <3>1, <3>2, <3>3, <3>4, <3>5 DEF PushOnTheWay, Before, After, Writing, Polling
  <2>2. CASE request # "push" \/ ~Succeeded(st)
    BY <1>18, <2>2 DEF AfterOpen, Then, HostStep, Return, Succeeded
  <2> QED
    BY <2>1, <2>2
<1>19. CASE AfterWrite
  <2>1. CASE Succeeded(st)
    <3>1. want = "WRITE" /\ hpc = "after" /\ st = 1 /\ request = "push"
      BY <1>19, <2>1 DEF AfterWrite, Then, HostStep, Succeeded
    <3>2. sent \in 1..Len(content) /\ ~failed /\ Writing(sent) /\ Len(content) \in Nat
      BY <3>1, ContentBytes, LenProperties
    <3>3. sent = Len(content) => files[target] = content
      BY <3>2, ContentBytes, StartIsAll
    <3>4. UNCHANGED <<request, sent, failed, target, content, files, fd, mode, cmd, apc>>
      BY <1>19, <2>1 DEF AfterWrite, Then, HostStep
    <3>5. \/ sent = Len(content) /\ want' = "CLOSE" /\ hpc' = "issue"
          \/ sent < Len(content) /\ want' = "WRITE" /\ hpc' = "data"
      BY <1>19, <2>1, <3>2 DEF AfterWrite, Then, HostStep
    <3> QED
      BY <3>1, <3>2, <3>3, <3>4, <3>5 DEF PushOnTheWay, Before, After, Writing, Polling
  <2>2. CASE ~Succeeded(st)
    BY <1>19, <2>2 DEF AfterWrite, Then, HostStep, WriteFailed
  <2> QED
    BY <2>1, <2>2
<1>20. CASE AfterRead
  BY <1>20 DEF AfterRead, Then, HostStep, Succeeded
<1>21. CASE AfterClose
  BY <1>21 DEF AfterClose, Return, Succeeded
<1>22. CASE AfterRun
  BY <1>22 DEF AfterRun, Then, HostStep
<1>23. CASE GetArg
  BY <1>23 DEF GetArg, Peek, Succeeded
<1>24. CASE GetData
  BY <1>24 DEF GetData, Peek, Succeeded
<1>25. CASE Calls
  BY <1>25 DEF Calls, PushFile, PullFile, Run, Ping, NewCall
<1>26. CASE SwitchAway
  BY <1>26 DEF SwitchAway
<1>27. CASE SwitchBack
  BY <1>27 DEF SwitchBack
<1> QED
  BY <1>1, <1>2, <1>3, <1>4, <1>5, <1>6, <1>7, <1>8, <1>9, <1>10, <1>11,
     <1>12, <1>13, <1>14, <1>15, <1>16, <1>17, <1>18, <1>19, <1>20, <1>21,
     <1>22, <1>23, <1>24, <1>25, <1>26, <1>27 DEF GwSteady, Agent,
     HostProceeds

(* A pull has read as far as the agent's place in the file.                *)
LEMMA PullKept ==
  ASSUME GatewayConstants, SingleUser, SteadyInv, GwSteady
  PROVE  PullOnTheWay'
<1> USE GatewayConstants, SingleUser, SteadyInv DEF SingleUser, SteadyInv,
      GwTypeOK, HandOver, InStep, Idle, None, Statuses, Commands, Polling,
      PullOnTheWay, Before, After, Verdict, Reading, pageVars, fileVars,
      agentVars, callVars, hostVars, faultVars
<1>1. CASE AgentTake
  BY <1>1 DEF AgentTake, CmdInHand
<1>2. CASE AgentPing
  BY <1>2 DEF AgentPing, Done, NoFault
<1>3. CASE AgentOpenW
  BY <1>3 DEF AgentOpenW, Done, NoFault, Fault
<1>4. CASE AgentWrite
  BY <1>4 DEF AgentWrite, Done, NoFault, Fault
<1>5. CASE AgentOpenR
  <2>1. /\ request = "pull" /\ want = "OPEN_R" /\ hpc \in Polling /\ got = <<>>
        /\ \/ status' = 1 /\ files[target] # Absent /\ fd' = target /\ mode' = "r" /\ pos' = 0
           \/ status' = -1
    BY <1>5, OpenRInHand
  <2>2. apc' = "clear" /\ UNCHANGED <<request, want, hpc, cmd, got, target, files>>
    BY <1>5 DEF AgentOpenR, Done
  <2>3. files[target] # Absent => files[target] \in Seq(Bytes)
    BY DEF Bytes
  <2>4. status' = 1 => Reading' /\ pos' = 0
    BY <2>1, <2>2, <2>3
  <2> QED
    BY <2>1, <2>2, <2>4 DEF PullOnTheWay, Before, After, Verdict, Polling
<1>6. CASE AgentRead
  <2>1. /\ request = "pull" /\ want = "READ" /\ hpc \in Polling
        /\ Reading /\ Start(got, files[target], pos) /\ status' = 1
        /\ \/ /\ pos \in 0..(Len(files[target]) - 1)
              /\ data' = files[target][pos + 1] /\ arg' = 1 /\ pos' = pos + 1
           \/ /\ pos = Len(files[target]) /\ arg' = 0 /\ UNCHANGED <<data, pos>>
    BY <1>6, ReadInHand
  <2>2. /\ apc' = "clear"
        /\ UNCHANGED <<request, want, hpc, cmd, got, target, files, fd, mode>>
    BY <1>6 DEF AgentRead, Done
  <2>3. Len(files[target]) \in Nat
    BY <2>1, LenProperties
  <2>4. ~Before' /\ After' /\ Verdict' = 1 /\ Reading' /\ pos' \in 0..Len(files'[target'])
    BY <2>1, <2>2, <2>3
  <2>5. CASE arg' = 1
    <3>1. /\ pos' > 0 /\ Start(got', files'[target'], pos' - 1)
          /\ data' = files'[target'][pos']
      BY <2>1, <2>2, <2>3, <2>5
    <3> QED
      BY <2>1, <2>2, <2>4, <2>5, <3>1 DEF PullOnTheWay
  <2>6. CASE arg' # 1
    <3>1. Start(got', files'[target'], pos') /\ pos' = Len(files'[target'])
      BY <2>1, <2>2, <2>6
    <3> QED
      BY <2>1, <2>2, <2>4, <2>6, <3>1 DEF PullOnTheWay
  <2> QED
    BY <2>5, <2>6
<1>7. CASE AgentClose
  BY <1>7 DEF AgentClose, Done, NoFault
<1>8. CASE AgentSpawn
  BY <1>8 DEF AgentSpawn
<1>9. CASE AgentOutput
  BY <1>9 DEF AgentOutput, NoFault, Fault
<1>10. CASE AgentClear
  BY <1>10 DEF AgentClear, ClearedCmd
<1>11. CASE SetPath
  BY <1>11 DEF SetPath, HostStep, Poke
<1>12. CASE PutData
  BY <1>12 DEF PutData, HostStep, Poke
<1>13. CASE PutArg
  BY <1>13 DEF PutArg, HostStep, Poke
<1>14. CASE Issue
  BY <1>14 DEF Issue, HostStep, Poke
<1>15. CASE PollMagic
  BY <1>15 DEF PollMagic, HostStep
<1>16. CASE PollCmd
  BY <1>16 DEF PollCmd, HostStep, Peek, Cleared
<1>17. CASE GetStatus
  BY <1>17 DEF GetStatus, HostStep, Peek
<1>18. CASE AfterOpen
  <2>1. CASE request = "pull" /\ Succeeded(st)
    <3>1. /\ want = "OPEN_R" /\ hpc = "after" /\ st = 1 /\ got = <<>>
          /\ Reading /\ pos = 0
      BY <1>18, <2>1 DEF AfterOpen, Then, HostStep, Succeeded
    <3>2. /\ want' = "READ" /\ hpc' = "issue"
          /\ UNCHANGED <<request, got, target, files, fd, mode, pos, cmd, apc>>
      BY <1>18, <2>1, <3>1 DEF AfterOpen, Then, HostStep
    <3>3. Start(got', files'[target'], pos') /\ pos' \in 0..Len(files'[target'])
      BY <3>1, <3>2, EmptyStart, LenProperties
    <3> QED
      BY <3>1, <3>2, <3>3 DEF PullOnTheWay, Before, After, Reading, Polling
  <2>2. CASE request # "pull" \/ ~Succeeded(st)
    BY <1>18, <2>2 DEF AfterOpen, Then, HostStep, Return, Succeeded
  <2> QED
    BY <2>1, <2>2
<1>19. CASE AfterWrite
  BY <1>19 DEF AfterWrite, Then, HostStep, Succeeded, WriteFailed
<1>20. CASE AfterRead
  BY <1>20 DEF AfterRead, Then, HostStep, Succeeded
<1>21. CASE AfterClose
  BY <1>21 DEF AfterClose, Return, Succeeded
<1>22. CASE AfterRun
  BY <1>22 DEF AfterRun, Then, HostStep
<1>23. CASE GetArg
  <2>1. CASE request = "pull"
    <3>1. /\ want = "READ" /\ hpc = "rdarg" /\ ~Before /\ Reading
          /\ UNCHANGED <<request, got, target, files, fd, mode, pos, cmd, apc, arg, data>>
      BY <1>23, <2>1 DEF GetArg
    <3>2. \/ arg = 1 /\ hpc' = "rddata" /\ want' = "READ"
          \/ arg = 0 /\ hpc' = "issue" /\ want' = "CLOSE"
      BY <1>23, <3>1 DEF GetArg, Peek
    <3>3. arg = 0 => files[target] = got
      <4>1. got \in Seq(Bytes) /\ files[target] \in Seq(Bytes)
        BY <3>1 DEF Bytes
      <4>2. arg = 0 => Start(got, files[target], Len(files[target]))
        BY <2>1, <3>1
      <4> QED
        BY <4>1, <4>2, StartIsAll
    <3> QED
      BY <2>1, <3>1, <3>2, <3>3
  <2>2. CASE request # "pull"
    BY <1>23, <2>2 DEF GetArg
  <2> QED
    BY <2>1, <2>2
<1>24. CASE GetData
  <2>1. CASE request = "pull"
    <3>1. /\ want = "READ" /\ hpc = "rddata" /\ ~Before /\ Reading /\ arg = 1
          /\ UNCHANGED <<request, want, target, files, fd, mode, pos, cmd, apc>>
      BY <1>24, <2>1 DEF GetData
    <3>2. hpc' = "issue" /\ got' = Append(got, data)
      BY <1>24, <3>1 DEF GetData, Peek
    <3>3. /\ pos \in 1..Len(files[target]) /\ Start(got, files[target], pos - 1)
          /\ data = files[target][pos]
      BY <2>1, <3>1
    <3>4. got \in Seq(Bytes) /\ files[target] \in Seq(Bytes)
      BY <3>1 DEF Bytes
    <3>5. Start(got', files[target], pos)
      BY <3>2, <3>3, <3>4, StartGrows
    <3> QED
      BY <2>1, <3>1, <3>2, <3>3, <3>5 DEF PullOnTheWay, Before, After, Reading, Polling
  <2>2. CASE request # "pull"
    BY <1>24, <2>2 DEF GetData
  <2> QED
    BY <2>1, <2>2
<1>25. CASE Calls
  BY <1>25 DEF Calls, PushFile, PullFile, Run, Ping, NewCall
<1>26. CASE SwitchAway
  BY <1>26 DEF SwitchAway
<1>27. CASE SwitchBack
  BY <1>27 DEF SwitchBack
<1> QED
  BY <1>1, <1>2, <1>3, <1>4, <1>5, <1>6, <1>7, <1>8, <1>9, <1>10, <1>11,
     <1>12, <1>13, <1>14, <1>15, <1>16, <1>17, <1>18, <1>19, <1>20, <1>21,
     <1>22, <1>23, <1>24, <1>25, <1>26, <1>27 DEF GwSteady, Agent,
     HostProceeds

(* A shell command stays in the buffer until its output is there.          *)
LEMMA RunKept ==
  ASSUME GatewayConstants, SingleUser, SteadyInv, GwSteady
  PROVE  RunOnTheWay'
<1> USE GatewayConstants, SingleUser, SteadyInv DEF SingleUser, SteadyInv,
      GwTypeOK, HandOver, InStep, Idle, None, Statuses, Commands, Polling,
      RunOnTheWay, Before, After, Verdict, pageVars, fileVars, agentVars,
      callVars, hostVars, faultVars
<1>1. CASE AgentTake
  BY <1>1 DEF AgentTake, CmdInHand
<1>2. CASE AgentPing
  BY <1>2 DEF AgentPing, Done, NoFault
<1>3. CASE AgentOpenW
  BY <1>3 DEF AgentOpenW, Done, NoFault, Fault
<1>4. CASE AgentWrite
  BY <1>4 DEF AgentWrite, Done, NoFault, Fault
<1>5. CASE AgentOpenR
  BY <1>5 DEF AgentOpenR, Done, NoFault, Fault, OpenPos
<1>6. CASE AgentRead
  BY <1>6 DEF AgentRead, Done, NoFault, Fault, Length
<1>7. CASE AgentClose
  BY <1>7 DEF AgentClose, Done, NoFault
<1>8. CASE AgentSpawn
  BY <1>8 DEF AgentSpawn
<1>9. CASE AgentOutput
  BY <1>9 DEF AgentOutput, NoFault, Fault
<1>10. CASE AgentClear
  BY <1>10 DEF AgentClear, ClearedCmd
<1>11. CASE SetPath
  BY <1>11 DEF SetPath, HostStep, Poke
<1>12. CASE PutData
  BY <1>12 DEF PutData, HostStep, Poke
<1>13. CASE PutArg
  BY <1>13 DEF PutArg, HostStep, Poke
<1>14. CASE Issue
  BY <1>14 DEF Issue, HostStep, Poke
<1>15. CASE PollMagic
  BY <1>15 DEF PollMagic, HostStep
<1>16. CASE PollCmd
  BY <1>16 DEF PollCmd, HostStep, Peek, Cleared
<1>17. CASE GetStatus
  BY <1>17 DEF GetStatus, HostStep, Peek
<1>18. CASE AfterOpen
  BY <1>18 DEF AfterOpen, Then, HostStep, Return, Succeeded
<1>19. CASE AfterWrite
  BY <1>19 DEF AfterWrite, Then, HostStep, Succeeded, WriteFailed
<1>20. CASE AfterRead
  BY <1>20 DEF AfterRead, Then, HostStep, Succeeded
<1>21. CASE AfterClose
  BY <1>21 DEF AfterClose, Return, Succeeded
<1>22. CASE AfterRun
  BY <1>22 DEF AfterRun, Then, HostStep
<1>23. CASE GetArg
  BY <1>23 DEF GetArg, Peek, Succeeded
<1>24. CASE GetData
  BY <1>24 DEF GetData, Peek, Succeeded
<1>25. CASE Calls
  <2>1. ASSUME NEW b \in Blobs, Run(b)
        PROVE  RunOnTheWay'
    <3>1. <<b>> \in Seq(Blobs) /\ Len(<<b>>) = 1
      OBVIOUS
    <3> QED
      BY <2>1, <3>1 DEF Run, NewCall
  <2>2. CASE \/ \E p \in Paths, c \in Contents : PushFile(p, c)
            \/ \E p \in Paths : PullFile(p)
            \/ Ping
    BY <2>2 DEF PushFile, PullFile, Ping, NewCall
  <2> QED
    BY <1>25, <2>1, <2>2 DEF Calls
<1>26. CASE SwitchAway
  BY <1>26 DEF SwitchAway
<1>27. CASE SwitchBack
  BY <1>27 DEF SwitchBack
<1> QED
  BY <1>1, <1>2, <1>3, <1>4, <1>5, <1>6, <1>7, <1>8, <1>9, <1>10, <1>11,
     <1>12, <1>13, <1>14, <1>15, <1>16, <1>17, <1>18, <1>19, <1>20, <1>21,
     <1>22, <1>23, <1>24, <1>25, <1>26, <1>27 DEF GwSteady, Agent,
     HostProceeds

(* An answer is given for what was done, and nothing undoes it.            *)
LEMMA ExactKept ==
  ASSUME GatewayConstants, SingleUser, SteadyInv, GwSteady
  PROVE  Exact'
<1> USE GatewayConstants, SingleUser, SteadyInv DEF SingleUser, SteadyInv,
      GwTypeOK, HandOver, InStep, Idle, None, Statuses, Commands, Polling,
      Exact, PushExact, PullExact, RunExact, pageVars, fileVars, agentVars,
      callVars, hostVars, faultVars
<1>1. CASE AgentTake
  BY <1>1 DEF AgentTake, CmdInHand
<1>2. CASE AgentPing
  BY <1>2 DEF AgentPing, Done, NoFault
<1>3. CASE AgentOpenW
  BY <1>3 DEF AgentOpenW, Done, NoFault, Fault
<1>4. CASE AgentWrite
  BY <1>4 DEF AgentWrite, Done, NoFault, Fault
<1>5. CASE AgentOpenR
  BY <1>5 DEF AgentOpenR, Done, NoFault, Fault, OpenPos
<1>6. CASE AgentRead
  BY <1>6 DEF AgentRead, Done, NoFault, Fault, Length
<1>7. CASE AgentClose
  BY <1>7 DEF AgentClose, Done, NoFault
<1>8. CASE AgentSpawn
  BY <1>8 DEF AgentSpawn
<1>9. CASE AgentOutput
  BY <1>9 DEF AgentOutput, NoFault, Fault
<1>10. CASE AgentClear
  BY <1>10 DEF AgentClear, ClearedCmd
<1>11. CASE SetPath
  BY <1>11 DEF SetPath, HostStep, Poke
<1>12. CASE PutData
  BY <1>12 DEF PutData, HostStep, Poke
<1>13. CASE PutArg
  BY <1>13 DEF PutArg, HostStep, Poke
<1>14. CASE Issue
  BY <1>14 DEF Issue, HostStep, Poke
<1>15. CASE PollMagic
  BY <1>15 DEF PollMagic, HostStep
<1>16. CASE PollCmd
  BY <1>16 DEF PollCmd, HostStep, Peek, Cleared
<1>17. CASE GetStatus
  BY <1>17 DEF GetStatus, HostStep, Peek
<1>18. CASE AfterOpen
  BY <1>18 DEF AfterOpen, Then, HostStep, Return, Succeeded
<1>19. CASE AfterWrite
  BY <1>19 DEF AfterWrite, Then, HostStep, Succeeded, WriteFailed
<1>20. CASE AfterRead
  BY <1>20 DEF AfterRead, Then, HostStep, Succeeded
<1>21. CASE AfterClose
  <2>1. /\ want = "CLOSE" /\ hpc = "after" /\ request \in {"push", "pull"}
        /\ UNCHANGED <<request, want, target, content, files, got>>
    BY <1>21 DEF AfterClose, Return
  <2>2. CASE request = "push"
    BY <1>21, <2>1, <2>2 DEF AfterClose, Return, PushOnTheWay
  <2>3. CASE request = "pull"
    BY <1>21, <2>1, <2>3 DEF AfterClose, Return, PullOnTheWay
  <2> QED
    BY <2>1, <2>2, <2>3
<1>22. CASE AfterRun
  BY <1>22 DEF AfterRun, Then, HostStep
<1>23. CASE GetArg
  <2>1. CASE want = "RUN"
    <3>1. /\ got = <<>> /\ request = "other" /\ hpc = "rdarg"
          /\ st = 1 => data = Output[content[1]] /\ (arg = 0 => data = Empty)
          /\ reply' = "ok" => st = 1
      BY <1>23, <2>1 DEF GetArg, RunOnTheWay, Succeeded
    <3>2. UNCHANGED <<request, got, content>> /\ (reply' = "ok" => arg = 0)
      BY <1>23, <2>1, <3>1 DEF GetArg, Peek
    <3> QED
      BY <2>1, <3>1, <3>2
  <2>2. CASE want # "RUN"
    BY <1>23, <2>2 DEF GetArg
  <2> QED
    BY <2>1, <2>2
<1>24. CASE GetData
  <2>1. CASE want = "RUN"
    <3>1. /\ got = <<>> /\ request = "other" /\ hpc = "rddata"
          /\ st = 1 => data = Output[content[1]] /\ data # Empty
          /\ reply' = "ok" => st = 1
      BY <1>24, <2>1 DEF GetData, RunOnTheWay, Succeeded
    <3>2. (st = 1 => got' = Append(got, data)) /\ UNCHANGED <<request, content>>
      BY <1>24, <2>1, <3>1 DEF GetData, Peek
    <3>3. st = 1 => got' = <<data>>
      BY <3>1, <3>2
    <3> QED
      BY <2>1, <3>1, <3>2, <3>3
  <2>2. CASE want # "RUN"
    BY <1>24, <2>2 DEF GetData
  <2> QED
    BY <2>1, <2>2
<1>25. CASE Calls
  BY <1>25 DEF Calls, PushFile, PullFile, Run, Ping, NewCall
<1>26. CASE SwitchAway
  BY <1>26 DEF SwitchAway
<1>27. CASE SwitchBack
  BY <1>27 DEF SwitchBack
<1> QED
  BY <1>1, <1>2, <1>3, <1>4, <1>5, <1>6, <1>7, <1>8, <1>9, <1>10, <1>11,
     <1>12, <1>13, <1>14, <1>15, <1>16, <1>17, <1>18, <1>19, <1>20, <1>21,
     <1>22, <1>23, <1>24, <1>25, <1>26, <1>27 DEF GwSteady, Agent,
     HostProceeds

-----------------------------------------------------------------------------
(* The invariant holds.                                                    *)

(* The page is the host's when the agent starts.                           *)
LEMMA SteadyInitially == GatewayConstants /\ GwInit => SteadyInv
<1> SUFFICES ASSUME GatewayConstants, GwInit
             PROVE  SteadyInv
  OBVIOUS
<1>1. <<>> \in Seq(Blobs) /\ <<>> \in Seq(Bytes)
  BY EmptySeq
<1>2. GwTypeOK
  <2>1. files \in [Paths -> Seq(Bytes) \cup {Absent}]
    BY DEF GwInit
  <2>2. content \in Seq(Blobs) /\ got \in Seq(Bytes)
    BY <1>1 DEF GwInit
  <2>3. /\ cmd \in Commands \cup {Idle} /\ arg \in 0 .. 1 /\ status \in Statuses
        /\ acmd \in Commands \cup {Idle} /\ want \in Commands \cup {Idle}
        /\ st \in Statuses \cup {None}
    BY DEF GwInit, Idle, None, Statuses
  <2> QED
    BY <2>1, <2>2, <2>3 DEF GwInit, GwTypeOK, Bytes
<1>3. HandOver /\ InStep /\ PushOnTheWay /\ PullOnTheWay /\ RunOnTheWay
  BY DEF GwInit, HandOver, InStep, PushOnTheWay, PullOnTheWay, RunOnTheWay, Polling
<1>4. Exact
  BY DEF GwInit, Exact, PushExact, PullExact, RunExact, Idle
<1>5. OwnSteps
  BY DEF OwnSteps, GwInit, GatewayConstants, NoFd, Idle
<1> QED
  BY <1>2, <1>3, <1>4, <1>5 DEF SteadyInv

(* Every step keeps the invariant.                                         *)
LEMMA SteadyInvKept ==
  ASSUME GatewayConstants, SingleUser, SteadyInv, [GwSteady]_gwVars
  PROVE  SteadyInv'
<1>1. CASE GwSteady
  BY <1>1, GatewayConstants, SingleUser, OwnTypesKept, OwnStepsKept, HandOverKept,
     InStepKept, PushKept, PullKept, RunKept, ExactKept DEF SteadyInv, GwNext
<1>2. CASE UNCHANGED gwVars
  BY <1>2 DEF gwVars, pageVars, fileVars, agentVars, callVars, hostVars, faultVars,
     SteadyInv, GwTypeOK, OwnSteps, HandOver, InStep, PushOnTheWay, PullOnTheWay, RunOnTheWay, Exact,
     PushExact, PullExact, RunExact, Before, After, Verdict, Writing, Reading
<1> QED
  BY <1>1, <1>2

(* So it holds in every state.                                             *)
LEMMA AlwaysSteadyInv ==
  ASSUME SingleUser
  PROVE  SteadySpec => []SteadyInv
<1>1. GwInit => SteadyInv
  BY GatewayConstants, SteadyInitially
<1>2. SteadyInv /\ [GwSteady]_gwVars => SteadyInv'
  BY GatewayConstants, SingleUser, SteadyInvKept
<1> QED
  BY <1>1, <1>2, PTL DEF SteadySpec

(* Whatever the guest's scheduler, other processes' memory, timeouts,      *)
(* failing system calls and restarts do, every variable keeps its type and *)
(* the agent and the host keep to their own protocol: the agent writes     *)
(* only to a file that is there.                                           *)
THEOREM GatewayTypes == GwSpec => [](GwTypeOK /\ OwnSteps)
<1> USE GatewayConstants
<1>1. GwInit => GwTypeOK /\ OwnSteps
  BY SteadyInitially DEF SteadyInv
<1>2. GwTypeOK /\ OwnSteps /\ [GwNext]_gwVars => (GwTypeOK /\ OwnSteps)'
  <2>1. CASE GwNext
    BY <2>1, OwnTypesKept, OwnStepsKept
  <2>2. CASE UNCHANGED gwVars
    BY <2>2 DEF gwVars, pageVars, fileVars, agentVars, callVars, hostVars, faultVars,
      GwTypeOK, OwnSteps
  <2> QED
    BY <2>1, <2>2
<1> QED
  BY <1>1, <1>2, PTL DEF GwSpec

(* Host and agent never touch the page at the same time, and the host      *)
(* never reads a status that the agent has yet to store (_exec() of        *)
(* host_channel.py and the loop of gwagent.c).                             *)
THEOREM GatewayTakesTurns ==
  ASSUME SingleUser
  PROVE  SteadySpec => []Handshake
<1>1. SteadyInv => Handshake
  BY DEF SteadyInv, HandOver, Handshake, OneOwner, AnswerReady, Polling
<1> QED
  BY <1>1, AlwaysSteadyInv, PTL

(* push_file(), pull_file() and run() succeed only with the file or the    *)
(* output that was asked for.                                              *)
THEOREM GatewayIsExact ==
  ASSUME SingleUser
  PROVE  SteadySpec => []Exact
<1>1. SteadyInv => Exact
  BY DEF SteadyInv
<1> QED
  BY <1>1, AlwaysSteadyInv, PTL

-----------------------------------------------------------------------------
(* The refinement of RemoteFiles.                                          *)

(* What RemoteFiles sees of the gateway.                                   *)
seen == <<files, request, target, content, got, reply>>

(* A file with content is not an absent one.                               *)
LEMMA NoAbsentFile ==
  ASSUME NEW s \in Seq(Bytes)
  PROVE  s # Promise!Absent
<1>1. \A i \in 1..Len(s) : s[i] \in Bytes
  BY ElementOfSeq
<1>2. "absent" \notin Bytes
  BY GatewayConstants DEF GatewayConstants, Bytes
<1> QED
  BY <1>1, <1>2 DEF Promise!Absent

(* The agent empties the file or extends it by the next blob.              *)
LEMMA AgentRefines ==
  ASSUME SingleUser, SteadyInv, Agent
  PROVE  Promise!Write \/ UNCHANGED seen
<1> USE DEF seen, pageVars, fileVars, agentVars, callVars, hostVars, faultVars
<1>1. CASE AgentOpenW
  <2>1. request = "push" /\ reply = "none" /\ UNCHANGED <<request, target, content, got, reply>>
    BY <1>1, OpenWInHand DEF AgentOpenW, Done, SteadyInv, HandOver, Polling
  <2> QED
    BY <1>1, <2>1, OpenWInHand DEF Promise!Write
<1>2. CASE AgentWrite
  <2>1. request = "push" /\ reply = "none" /\ UNCHANGED <<request, target, content, got, reply>>
    BY <1>2, WriteInHand DEF AgentWrite, Done, SteadyInv, HandOver, Polling
  <2>2. sent \in 1..Len(content) /\ Start(files[target], content, sent - 1)
        /\ files[target] \in Seq(Bytes)
    BY <1>2, WriteInHand DEF Writing
  <2>3. Len(content) \in Nat
    BY ContentBytes, LenProperties
  <2>4. Len(files[target]) < Len(content) /\ content[Len(files[target]) + 1] = content[sent]
    BY <2>2, <2>3 DEF Start
  <2>5. files[target] # Promise!Absent
    BY <2>2, NoAbsentFile
  <2>6. files' = files \/ files' = [files EXCEPT ![target] = Append(files[target], content[sent])]
    BY <1>2, WriteInHand
  <2> QED
    BY <2>1, <2>4, <2>5, <2>6 DEF Promise!Write
<1>3. CASE AgentTake
  BY <1>3 DEF AgentTake
<1>4. CASE AgentPing
  BY <1>4 DEF AgentPing, Done
<1>5. CASE AgentOpenR
  BY <1>5 DEF AgentOpenR, Done
<1>6. CASE AgentRead
  BY <1>6 DEF AgentRead, Done
<1>7. CASE AgentClose
  BY <1>7 DEF AgentClose, Done
<1>8. CASE AgentSpawn
  BY <1>8 DEF AgentSpawn
<1>9. CASE AgentOutput
  BY <1>9 DEF AgentOutput, NoFault, Fault
<1>10. CASE AgentClear
  BY <1>10 DEF AgentClear
<1> QED
  BY <1>1, <1>2, <1>3, <1>4, <1>5, <1>6, <1>7, <1>8, <1>9, <1>10 DEF Agent

(* The host reads the next blob or returns.                                *)
LEMMA HostRefines ==
  ASSUME SingleUser, SteadyInv, Exact', HostProceeds
  PROVE  Promise!Read \/ Promise!Return \/ UNCHANGED seen
<1> USE DEF seen, pageVars, fileVars, agentVars, callVars, hostVars, faultVars
<1>1. CASE SetPath \/ PutData \/ PutArg \/ Issue \/ PollMagic \/ PollCmd \/ GetStatus
  BY <1>1 DEF SetPath, PutData, PutArg, Issue, PollMagic, PollCmd, GetStatus, HostStep
<1>2. CASE AfterOpen
  <2>1. hpc = "after" /\ reply = "none"
    BY <1>2 DEF AfterOpen, Then, Return, HostStep, SteadyInv, GwTypeOK, HandOver
  <2> QED
    BY <1>2, <2>1 DEF AfterOpen, Then, Return, HostStep, Promise!Return
<1>3. CASE AfterWrite \/ AfterRead \/ AfterRun
  BY <1>3 DEF AfterWrite, AfterRead, AfterRun, Then, HostStep
<1>4. CASE AfterClose
  <2>1. /\ reply = "none" /\ reply' \in {"ok", "failed"} /\ request \in {"push", "pull"}
        /\ UNCHANGED <<files, request, target, content, got>>
    BY <1>4 DEF AfterClose, Return, SteadyInv, HandOver, InStep
  <2> QED
    BY <2>1 DEF Exact, PushExact, PullExact, Promise!Return
<1>5. CASE GetArg
  <2>1. /\ reply = "none" /\ reply' \in {"none", "ok", "failed"}
        /\ UNCHANGED <<files, request, target, content, got>>
    BY <1>5 DEF GetArg, SteadyInv, HandOver
  <2>2. reply' = "ok" => request = "other"
    BY <1>5, <2>1 DEF GetArg, SteadyInv, InStep
  <2> QED
    BY <2>1, <2>2 DEF Promise!Return
<1>6. CASE GetData
  <2>1. reply = "none" /\ hpc = "rddata" /\ arg = 1 /\ current
    BY <1>6 DEF GetData, SteadyInv, HandOver, InStep, Polling
  <2>2. CASE want = "READ"
    <3>1. request = "pull"
      BY <2>1, <2>2 DEF SteadyInv, InStep
    <3>2. /\ Reading /\ pos \in 1..Len(files[target]) /\ Start(got, files[target], pos - 1)
          /\ data = files[target][pos]
      BY <2>1, <2>2, <3>1 DEF SteadyInv, PullOnTheWay, Before, Polling
    <3>3. got' = Append(got, data) /\ UNCHANGED <<files, request, target, content, reply>>
      BY <1>6, <2>1, <2>2 DEF GetData, Peek
    <3>4. files[target] \in Seq(Bytes) /\ Len(got) + 1 = pos /\ Len(got) < Len(files[target])
      BY <3>2, LenProperties DEF Reading, Start
    <3>5. files[target] # Promise!Absent
      BY <3>4, NoAbsentFile
    <3> QED
      BY <2>1, <3>1, <3>2, <3>3, <3>4, <3>5 DEF Promise!Read
  <2>3. CASE want = "RUN"
    <3>1. request = "other"
      BY <2>1, <2>3 DEF SteadyInv, InStep
    <3> QED
      BY <1>6, <2>1, <2>3, <3>1 DEF GetData, Promise!Return
  <2> QED
    BY <2>1, <2>2, <2>3 DEF SteadyInv, InStep
<1> QED
  BY <1>1, <1>2, <1>3, <1>4, <1>5, <1>6 DEF HostProceeds

(* A call begins when the one before has returned.                         *)
LEMMA CallsRefine ==
  ASSUME SteadyInv, Calls
  PROVE  Promise!Begin
<1>1. hpc = "idle" /\ reply # "none"
  BY DEF Calls, PushFile, PullFile, Run, Ping, NewCall, SteadyInv, HandOver
<1>2. /\ reply' = "none" /\ request' \in {"push", "pull", "other"} /\ target' \in Paths
      /\ got' = <<>> /\ UNCHANGED files
  BY DEF Calls, PushFile, PullFile, Run, Ping, NewCall, SteadyInv, GwTypeOK,
         pageVars, fileVars, agentVars, callVars, hostVars, faultVars
<1>3. content' \in Contents \cup {<<>>} \cup {<<b>> : b \in Blobs}
  BY DEF Calls, PushFile, PullFile, Run, Ping, NewCall
<1> QED
  BY <1>1, <1>2, <1>3 DEF Promise!Begin

(* The gateway keeps the promise of RemoteFiles: one call at a time, files *)
(* that only grow by what is pushed, answers that are exact.               *)
THEOREM GatewayKeepsPromise ==
  ASSUME SingleUser
  PROVE  SteadySpec => KeepsPromise
<1>1. GwInit => Promise!RFInit
  BY DEF GwInit, Promise!RFInit, Absent, Promise!Absent
<1>2. SteadyInv /\ SteadyInv' /\ [GwSteady]_gwVars => [Promise!RFNext]_(Promise!rfVars)
  <2> SUFFICES ASSUME SteadyInv, SteadyInv', [GwSteady]_gwVars
               PROVE  Promise!RFNext \/ UNCHANGED seen
    BY DEF seen, Promise!rfVars
  <2>1. CASE Agent
    BY <2>1, SingleUser, AgentRefines DEF Promise!RFNext
  <2>2. CASE HostProceeds
    BY <2>2, SingleUser, HostRefines DEF Promise!RFNext, SteadyInv
  <2>3. CASE Calls
    BY <2>3, CallsRefine DEF Promise!RFNext
  <2>4. CASE SwitchAway \/ SwitchBack \/ UNCHANGED gwVars
    BY <2>4 DEF SwitchAway, SwitchBack, gwVars, seen,
           pageVars, fileVars, agentVars, callVars, hostVars, faultVars
  <2> QED
    BY <2>1, <2>2, <2>3, <2>4 DEF GwSteady
<1> QED
  BY <1>1, <1>2, AlwaysSteadyInv, PTL DEF SteadySpec, KeepsPromise, Promise!RFSpec

-----------------------------------------------------------------------------
(***************************************************************************)
(* Timeouts, restarts and foreign memory.                                  *)
(***************************************************************************)

(* The agent was started anew while its address space was not the current  *)
(* one: the page is blank until it is.                                     *)
BlankWhileAway ==
  ~current /\ apc # "child" =>
    apc = "spin" /\ cmd = Idle /\ status = 0 /\ path = NoPath /\ fd = NoFd

(* A push that found the page idle and has not failed yet, nor is about to.*)
Live ==
  /\ idleStart /\ request = "push" /\ ~failed /\ reply # "failed"
  /\ ~(hpc = "after" /\ st = None)

(* While it lives the page has one owner ...                               *)
LiveOwner ==
  /\ hpc \notin {"magic", "cmd"} => cmd = Idle
  /\ cmd = Idle => apc = "spin"
  /\ cmd # Idle => cmd = want
  /\ apc # "spin" => acmd = cmd
  /\ current \/ (hpc \in {"path", "issue", "magic"} /\ want = "OPEN_W")

Written(n) == files[target] \in Seq(Bytes) /\ Start(files[target], content, n)
OpenOrLost == fd = NoFd \/ (fd = target /\ mode = "w")

(* ... and the file has what was sent, unless a restart has closed it: the *)
(* commands that are left then fail.                                       *)
LiveFile ==
  /\ want = "OPEN_W" =>
       /\ Before => path \in {target, NoPath}
       /\ After /\ Verdict = 1 => Written(0) /\ OpenOrLost
  /\ want = "WRITE" =>
       /\ OpenOrLost
       /\ hpc \in {"data", "arg"} => Written(sent)
       /\ hpc = "arg" => data = content[sent + 1] \/ fd = NoFd
       /\ Before \/ After => sent \in 1..Len(content)
       /\ Before => Written(sent - 1) /\ (fd = NoFd \/ (data = content[sent] /\ arg = 1))
       /\ After /\ Verdict = 1 => Written(sent)
  /\ want = "CLOSE" => files[target] = content

LiveInv ==
  Live =>
    /\ LiveOwner
    /\ hpc # "idle" => LiveFile
    /\ hpc = "idle" => files[target] = content

PushInv == GwTypeOK /\ OwnSteps /\ BlankWhileAway /\ LiveInv

(* Nobody but the agent itself writes to a page that is away.              *)
LEMMA BlankKept ==
  ASSUME ~Preempted, GwTypeOK, OwnSteps, BlankWhileAway, GwNext
  PROVE  BlankWhileAway'
<1> USE DEF GwTypeOK, OwnSteps, BlankWhileAway, Idle,
      pageVars, fileVars, agentVars, callVars, hostVars, faultVars
<1>1. CASE AgentTake
  BY <1>1 DEF AgentTake, CmdInHand
<1>2. CASE AgentPing
  BY <1>2 DEF AgentPing, Done, NoFault
<1>3. CASE AgentOpenW
  BY <1>3 DEF AgentOpenW, Done, NoFault, Fault
<1>4. CASE AgentWrite
  BY <1>4 DEF AgentWrite, Done, NoFault, Fault
<1>5. CASE AgentOpenR
  BY <1>5 DEF AgentOpenR, Done, NoFault, Fault, OpenPos
<1>6. CASE AgentRead
  BY <1>6 DEF AgentRead, Done, NoFault, Fault, Length
<1>7. CASE AgentClose
  BY <1>7 DEF AgentClose, Done, NoFault
<1>8. CASE AgentSpawn
  BY <1>8 DEF AgentSpawn
<1>9. CASE AgentOutput
  BY <1>9 DEF AgentOutput, NoFault, Fault
<1>10. CASE AgentClear
  BY <1>10 DEF AgentClear, ClearedCmd
<1>11. CASE SetPath
  BY <1>11 DEF SetPath, HostStep, Poke
<1>12. CASE PutData
  BY <1>12 DEF PutData, HostStep, Poke
<1>13. CASE PutArg
  BY <1>13 DEF PutArg, HostStep, Poke
<1>14. CASE Issue
  BY <1>14 DEF Issue, HostStep, Poke
<1>15. CASE PollMagic
  BY <1>15 DEF PollMagic, HostStep
<1>16. CASE PollCmd
  BY <1>16 DEF PollCmd, HostStep, Peek, Cleared
<1>17. CASE GetStatus
  BY <1>17 DEF GetStatus, HostStep, Peek
<1>18. CASE AfterOpen
  BY <1>18 DEF AfterOpen, Then, HostStep, Return, Succeeded
<1>19. CASE AfterWrite
  BY <1>19 DEF AfterWrite, Then, HostStep, Succeeded, WriteFailed
<1>20. CASE AfterRead
  BY <1>20 DEF AfterRead, Then, HostStep, Succeeded
<1>21. CASE AfterClose
  BY <1>21 DEF AfterClose, Return, Succeeded
<1>22. CASE AfterRun
  BY <1>22 DEF AfterRun, Then, HostStep
<1>23. CASE GetArg
  BY <1>23 DEF GetArg, Peek, Succeeded
<1>24. CASE GetData
  BY <1>24 DEF GetData, Peek, Succeeded
<1>25. CASE Calls
  BY <1>25 DEF Calls, PushFile, PullFile, Run, Ping, NewCall
<1>26. CASE SwitchAway
  BY <1>26 DEF SwitchAway
<1>27. CASE SwitchBack
  BY <1>27 DEF SwitchBack
<1>28. CASE Timeout
  BY <1>28 DEF Timeout, HostStep
<1>29. CASE AgentRestart
  BY <1>29 DEF AgentRestart
<1> QED
  BY <1>1, <1>2, <1>3, <1>4, <1>5, <1>6, <1>7, <1>8, <1>9, <1>10, <1>11, <1>12,
     <1>13, <1>14, <1>15, <1>16, <1>17, <1>18, <1>19, <1>20, <1>21, <1>22, <1>23,
     <1>24, <1>25, <1>26, <1>27, <1>28, <1>29
  DEF GwNext, GwSteady, Agent, HostProceeds

(* Within a call a push does not come back to life.                        *)
LEMMA LiveStays ==
  ASSUME GwTypeOK, OwnSteps, GwNext, ~Calls, Live'
  PROVE  Live
<1> USE DEF GwTypeOK, OwnSteps, Live, Idle, None, Statuses,
      pageVars, fileVars, agentVars, callVars, hostVars, faultVars
<1>1. CASE AgentTake
  BY <1>1 DEF AgentTake, CmdInHand
<1>2. CASE AgentPing
  BY <1>2 DEF AgentPing, Done, NoFault
<1>3. CASE AgentOpenW
  BY <1>3 DEF AgentOpenW, Done, NoFault, Fault
<1>4. CASE AgentWrite
  BY <1>4 DEF AgentWrite, Done, NoFault, Fault
<1>5. CASE AgentOpenR
  BY <1>5 DEF AgentOpenR, Done, NoFault, Fault, OpenPos
<1>6. CASE AgentRead
  BY <1>6 DEF AgentRead, Done, NoFault, Fault, Length
<1>7. CASE AgentClose
  BY <1>7 DEF AgentClose, Done, NoFault
<1>8. CASE AgentSpawn
  BY <1>8 DEF AgentSpawn
<1>9. CASE AgentOutput
  BY <1>9 DEF AgentOutput, NoFault, Fault
<1>10. CASE AgentClear
  BY <1>10 DEF AgentClear, ClearedCmd
<1>11. CASE SetPath
  BY <1>11 DEF SetPath, HostStep, Poke
<1>12. CASE PutData
  BY <1>12 DEF PutData, HostStep, Poke
<1>13. CASE PutArg
  BY <1>13 DEF PutArg, HostStep, Poke
<1>14. CASE Issue
  BY <1>14 DEF Issue, HostStep, Poke
<1>15. CASE PollMagic
  BY <1>15 DEF PollMagic, HostStep
<1>16. CASE PollCmd
  BY <1>16 DEF PollCmd, HostStep, Peek, Cleared
<1>17. CASE GetStatus
  BY <1>17 DEF GetStatus, HostStep, Peek
<1>18. CASE AfterOpen
  <2>1. CASE ~Succeeded(st) /\ Return("failed")
    BY <2>1 DEF Return
  <2>2. CASE Succeeded(st) /\ UNCHANGED failed
    <3>1. hpc = "after" /\ UNCHANGED <<callVars, failed, reply>>
      BY <1>18, <2>2 DEF AfterOpen, Then, HostStep
    <3> QED
      BY <2>2, <3>1 DEF Succeeded
  <2> QED
    BY <1>18, <2>1, <2>2 DEF AfterOpen
<1>19. CASE AfterWrite
  <2>1. failed' # TRUE /\ hpc = "after" /\ UNCHANGED <<callVars, reply>>
    BY <1>19 DEF AfterWrite, Then, HostStep
  <2>2. Succeeded(st) /\ UNCHANGED failed
    BY <1>19, <2>1 DEF AfterWrite, WriteFailed
  <2> QED
    BY <2>1, <2>2 DEF Succeeded
<1>20. CASE AfterRead
  BY <1>20 DEF AfterRead, Then, HostStep, Succeeded
<1>21. CASE AfterClose
  BY <1>21 DEF AfterClose, Return, Succeeded
<1>22. CASE AfterRun
  BY <1>22 DEF AfterRun, Then, HostStep
<1>23. CASE GetArg
  BY <1>23 DEF GetArg, Peek, Succeeded
<1>24. CASE GetData
  BY <1>24 DEF GetData, Peek, Succeeded
<1>25. CASE Calls
  BY <1>25
<1>26. CASE SwitchAway
  BY <1>26 DEF SwitchAway
<1>27. CASE SwitchBack
  BY <1>27 DEF SwitchBack
<1>28. CASE Timeout
  BY <1>28 DEF Timeout, HostStep
<1>29. CASE AgentRestart
  BY <1>29 DEF AgentRestart
<1> QED
  BY <1>1, <1>2, <1>3, <1>4, <1>5, <1>6, <1>7, <1>8, <1>9, <1>10, <1>11, <1>12,
     <1>13, <1>14, <1>15, <1>16, <1>17, <1>18, <1>19, <1>20, <1>21, <1>22, <1>23,
     <1>24, <1>25, <1>26, <1>27, <1>28, <1>29
  DEF GwNext, GwSteady, Agent, HostProceeds

(* The page keeps its one owner.                                           *)
LEMMA LiveOwnerKept ==
  ASSUME ~Preempted, GwTypeOK, OwnSteps, BlankWhileAway, LiveOwner, Live, GwNext,
         ~Calls, Live'
  PROVE  LiveOwner'
<1> USE DEF GwTypeOK, OwnSteps, BlankWhileAway, LiveOwner, Live, Idle, None,
      pageVars, fileVars, agentVars, callVars, hostVars, faultVars
<1>1. CASE AgentTake
  BY <1>1 DEF AgentTake, CmdInHand
<1>2. CASE AgentPing
  BY <1>2 DEF AgentPing, Done, NoFault
<1>3. CASE AgentOpenW
  BY <1>3 DEF AgentOpenW, Done, NoFault, Fault
<1>4. CASE AgentWrite
  BY <1>4 DEF AgentWrite, Done, NoFault, Fault
<1>5. CASE AgentOpenR
  BY <1>5 DEF AgentOpenR, Done, NoFault, Fault, OpenPos
<1>6. CASE AgentRead
  BY <1>6 DEF AgentRead, Done, NoFault, Fault, Length
<1>7. CASE AgentClose
  BY <1>7 DEF AgentClose, Done, NoFault
<1>8. CASE AgentSpawn
  BY <1>8 DEF AgentSpawn
<1>9. CASE AgentOutput
  BY <1>9 DEF AgentOutput, NoFault, Fault
<1>10. CASE AgentClear
  BY <1>10 DEF AgentClear, ClearedCmd
<1>11. CASE SetPath
  BY <1>11 DEF SetPath, HostStep, Poke
<1>12. CASE PutData
  BY <1>12 DEF PutData, HostStep, Poke
<1>13. CASE PutArg
  BY <1>13 DEF PutArg, HostStep, Poke
<1>14. CASE Issue
  BY <1>14 DEF Issue, HostStep, Poke
<1>15. CASE PollMagic
  BY <1>15 DEF PollMagic, HostStep
<1>16. CASE PollCmd
  BY <1>16 DEF PollCmd, HostStep, Peek, Cleared
<1>17. CASE GetStatus
  BY <1>17 DEF GetStatus, HostStep, Peek
<1>18. CASE AfterOpen
  BY <1>18 DEF AfterOpen, Then, HostStep, Return, Succeeded
<1>19. CASE AfterWrite
  BY <1>19 DEF AfterWrite, Then, HostStep, Succeeded, WriteFailed
<1>20. CASE AfterRead
  BY <1>20 DEF AfterRead, Then, HostStep, Succeeded
<1>21. CASE AfterClose
  BY <1>21 DEF AfterClose, Return, Succeeded
<1>22. CASE AfterRun
  BY <1>22 DEF AfterRun, Then, HostStep
<1>23. CASE GetArg
  BY <1>23 DEF GetArg, Peek, Succeeded
<1>24. CASE GetData
  BY <1>24 DEF GetData, Peek, Succeeded
<1>25. CASE Calls
  BY <1>25
<1>26. CASE SwitchAway
  BY <1>26 DEF SwitchAway
<1>27. CASE SwitchBack
  BY <1>27 DEF SwitchBack
<1>28. CASE Timeout
  BY <1>28 DEF Timeout, HostStep
<1>29. CASE AgentRestart
  BY <1>29 DEF AgentRestart
<1> QED
  BY <1>1, <1>2, <1>3, <1>4, <1>5, <1>6, <1>7, <1>8, <1>9, <1>10, <1>11, <1>12,
     <1>13, <1>14, <1>15, <1>16, <1>17, <1>18, <1>19, <1>20, <1>21, <1>22, <1>23,
     <1>24, <1>25, <1>26, <1>27, <1>28, <1>29
  DEF GwNext, GwSteady, Agent, HostProceeds

(* What the agent writes is the next blob, to the end of the file.         *)
LEMMA LiveWrite ==
  ASSUME GatewayConstants, GwTypeOK, AgentWrite, sent \in 1..Len(content),
     Written(sent - 1),
         OpenOrLost, fd = NoFd \/ (data = content[sent] /\ arg = 1), status' = 1
  PROVE  Written(sent)'
<1> DEFINE wrote == IF arg = 1 THEN <<data>> ELSE <<>>
<1>1. fd \in Paths /\ files' = [files EXCEPT ![fd] = @ \o wrote]
  <2> HIDE DEF wrote
  <2>1. Done("WRITE", -1) => status' # 1
    BY DEF Done
  <2> QED
    BY <2>1 DEF AgentWrite, wrote
<1>2. fd = target /\ data = content[sent] /\ arg = 1
  BY <1>1 DEF OpenOrLost, NoFd, GatewayConstants
<1>3. files[target] \in Seq(Bytes) /\ Start(files[target], content, sent - 1)
  BY DEF Written
<1>4. /\ files[target] \o <<content[sent]>> = Append(files[target], content[sent])
      /\ Start(Append(files[target], content[sent]), content, sent)
      /\ Append(files[target], content[sent]) \in Seq(Bytes)
  BY <1>3, ContentTyped, StartGrows
<1>5. /\ files[target] \o <<content[sent]>> \in Seq(Bytes)
      /\ Start(files[target] \o <<content[sent]>>, content, sent)
  BY <1>4
<1>6. files'[target] = files[target] \o <<content[sent]>>
  BY <1>1, <1>2 DEF GwTypeOK
<1>7. UNCHANGED <<sent, content, target>>
  BY DEF AgentWrite, Done, callVars, hostVars
<1> QED
  BY <1>5, <1>6, <1>7 DEF Written

(* The file keeps up with what was sent, or the call is going to fail.     *)
LEMMA LiveFileKept ==
  ASSUME GatewayConstants, ~Preempted, GwTypeOK, OwnSteps, BlankWhileAway, LiveOwner,
         LiveFile, Live, GwNext, ~Calls, Live', hpc # "idle"
  PROVE  hpc' # "idle" => LiveFile'
<1> USE DEF GwTypeOK, OwnSteps, BlankWhileAway, LiveOwner, LiveFile, Live, Before,
   After, Verdict,
      Written, OpenOrLost, Polling, Idle, None, NoFd, NoPath, pageVars, fileVars, agentVars, callVars, hostVars, faultVars
<1>1. CASE AgentTake
  BY <1>1 DEF AgentTake, CmdInHand
<1>2. CASE AgentPing
  BY <1>2 DEF AgentPing, Done, NoFault
<1>3. CASE AgentOpenW
  <2>1. want = "OPEN_W" /\ hpc \in {"magic", "cmd"} /\ path \in {target, NoPath}
    BY <1>3 DEF AgentOpenW, Done, Before
  <2>2. apc' = "clear" /\ UNCHANGED <<request, want, hpc, cmd, path, sent, target, content>>
    BY <1>3 DEF AgentOpenW, Done
  <2>3. \/ status' = -1
        \/ files' = [files EXCEPT ![target] = <<>>] /\ fd' = target /\ mode' = "w"
    BY <1>3, <2>1 DEF AgentOpenW, Done
  <2>4. status' = 1 => Written(0)' /\ OpenOrLost'
    BY <2>2, <2>3, EmptyStart, ContentTyped DEF Written, OpenOrLost
  <2> QED
    BY <2>1, <2>2, <2>4 DEF LiveFile, Before, After, Verdict, Polling
<1>4. CASE AgentWrite
  <2>1. /\ want = "WRITE" /\ hpc \in {"magic", "cmd"} /\ sent \in 1..Len(content) /\ OpenOrLost
        /\ Written(sent - 1) /\ (fd = NoFd \/ (data = content[sent] /\ arg = 1))
    BY <1>4 DEF AgentWrite, Done, Before
  <2>2. /\ apc' = "clear"
        /\ UNCHANGED <<request, want, hpc, cmd, sent, target, content, fd, mode>>
    BY <1>4 DEF AgentWrite, Done
  <2>3. status' = 1 => Written(sent)'
    BY <1>4, <2>1, LiveWrite
  <2>4. OpenOrLost'
    BY <2>1, <2>2 DEF OpenOrLost
  <2> QED
    BY <2>1, <2>2, <2>3, <2>4 DEF LiveFile, Before, After, Verdict, Polling
<1>5. CASE AgentOpenR
  BY <1>5 DEF AgentOpenR, Done, NoFault, Fault, OpenPos
<1>6. CASE AgentRead
  BY <1>6 DEF AgentRead, Done, NoFault, Fault, Length
<1>7. CASE AgentClose
  BY <1>7 DEF AgentClose, Done, NoFault
<1>8. CASE AgentSpawn
  BY <1>8 DEF AgentSpawn
<1>9. CASE AgentOutput
  BY <1>9 DEF AgentOutput, NoFault, Fault
<1>10. CASE AgentClear
  BY <1>10 DEF AgentClear, ClearedCmd
<1>11. CASE SetPath
  BY <1>11 DEF SetPath, HostStep, Poke
<1>12. CASE PutData
  BY <1>12 DEF PutData, HostStep, Poke
<1>13. CASE PutArg
  BY <1>13 DEF PutArg, HostStep, Poke
<1>14. CASE Issue
  BY <1>14 DEF Issue, HostStep, Poke
<1>15. CASE PollMagic
  BY <1>15 DEF PollMagic, HostStep
<1>16. CASE PollCmd
  BY <1>16 DEF PollCmd, HostStep, Peek, Cleared
<1>17. CASE GetStatus
  BY <1>17 DEF GetStatus, HostStep, Peek
<1>18. CASE AfterOpen
  <2>1. want = "OPEN_W" /\ hpc = "after" /\ st = 1 /\ sent = 0 /\ Written(0) /\ OpenOrLost
    BY <1>18 DEF AfterOpen, Then, HostStep, Return, Succeeded, After, Verdict
  <2>2. Len(content) \in Nat /\ (content # <<>> => Len(content) > 0)
    BY ContentTyped, EmptySeq, LenProperties
  <2>3. content = <<>> => files[target] = content
    BY <2>1, ContentTyped, EmptyStart, StartIsAll DEF Written
  <2>4. UNCHANGED <<request, sent, target, content, files, fd, mode, cmd, apc>>
    BY <1>18, <2>1 DEF AfterOpen, Then, HostStep, Return
  <2>5. \/ content = <<>> /\ want' = "CLOSE" /\ hpc' = "issue"
        \/ content # <<>> /\ want' = "WRITE" /\ hpc' = "data"
    BY <1>18, <2>1 DEF AfterOpen, Then, HostStep, Return, Succeeded
  <2> QED
    BY <2>1, <2>2, <2>3, <2>4, <2>5 DEF LiveFile, Before, After, Written,
       OpenOrLost, Polling
<1>19. CASE AfterWrite
  <2>1. want = "WRITE" /\ hpc = "after" /\ st = 1
    BY <1>19 DEF AfterWrite, Then, HostStep, Succeeded, WriteFailed
  <2>2. sent \in 1..Len(content) /\ Written(sent) /\ OpenOrLost /\ Len(content) \in Nat
    BY <2>1, ContentTyped, LenProperties DEF After, Verdict
  <2>3. sent = Len(content) => files[target] = content
    BY <2>2, ContentTyped, StartIsAll DEF Written
  <2>4. UNCHANGED <<request, sent, target, content, files, fd, mode, cmd, apc>>
    BY <1>19 DEF AfterWrite, Then, HostStep
  <2>5. \/ sent = Len(content) /\ want' = "CLOSE" /\ hpc' = "issue"
        \/ sent < Len(content) /\ want' = "WRITE" /\ hpc' = "data"
    <3>1. IF sent < Len(content) THEN Then("WRITE", "data") ELSE Then("CLOSE", "issue")
      BY <1>19, <2>1 DEF AfterWrite, Succeeded
    <3>2. sent \in Nat /\ sent <= Len(content)
      BY <2>2
    <3> QED
      BY <3>1, <3>2, <2>2 DEF Then, HostStep
  <2> QED
    BY <2>1, <2>2, <2>3, <2>4, <2>5 DEF LiveFile, Before, After, Written,
       OpenOrLost, Polling
<1>20. CASE AfterRead
  BY <1>20 DEF AfterRead, Then, HostStep, Succeeded
<1>21. CASE AfterClose
  BY <1>21 DEF AfterClose, Return, Succeeded
<1>22. CASE AfterRun
  BY <1>22 DEF AfterRun, Then, HostStep
<1>23. CASE GetArg
  BY <1>23 DEF GetArg, Peek, Succeeded
<1>24. CASE GetData
  BY <1>24 DEF GetData, Peek, Succeeded
<1>25. CASE Calls
  BY <1>25
<1>26. CASE SwitchAway
  BY <1>26 DEF SwitchAway
<1>27. CASE SwitchBack
  BY <1>27 DEF SwitchBack
<1>28. CASE Timeout
  BY <1>28 DEF Timeout, HostStep
<1>29. CASE AgentRestart
  BY <1>29 DEF AgentRestart
<1> QED
  BY <1>1, <1>2, <1>3, <1>4, <1>5, <1>6, <1>7, <1>8, <1>9, <1>10, <1>11, <1>12,
     <1>13, <1>14, <1>15, <1>16, <1>17, <1>18, <1>19, <1>20, <1>21, <1>22, <1>23,
     <1>24, <1>25, <1>26, <1>27, <1>28, <1>29
  DEF GwNext, GwSteady, Agent, HostProceeds

(* Between calls the page rests, and so does the file.                     *)
LEMMA RestsIdle ==
  ASSUME GwTypeOK, OwnSteps, LiveOwner, GwNext, ~Calls, hpc = "idle"
  PROVE  UNCHANGED <<hpc, files, target, content>>
<1>1. cmd = Idle /\ apc = "spin"
  BY DEF LiveOwner
<1>2. ~Agent
  BY <1>1 DEF Agent, AgentTake, AgentPing, AgentOpenW, AgentWrite, AgentOpenR,
     AgentRead,
    AgentClose, AgentSpawn, AgentOutput, AgentClear, Done, Idle
<1>3. ~HostProceeds /\ ~Timeout
  BY DEF HostProceeds, SetPath, PutData, PutArg, Issue, PollMagic, PollCmd, GetStatus,
    AfterOpen, AfterWrite, AfterRead, AfterClose, AfterRun, GetArg, GetData, Then, Return,
    HostStep, Timeout
<1>4. SwitchAway \/ SwitchBack \/ AgentRestart
  BY <1>2, <1>3 DEF GwNext, GwSteady
<1> QED
  BY <1>4 DEF SwitchAway, SwitchBack, AgentRestart, agentVars, fileVars, callVars,
     hostVars

(* A push that ends well ends with the close.                              *)
LEMMA EndsWithClose ==
  ASSUME GwTypeOK, OwnSteps, Live, Live', GwNext, ~Calls, hpc # "idle", hpc' = "idle"
  PROVE  want = "CLOSE" /\ UNCHANGED <<files, target, content>>
<1>1. request = "push" /\ reply' # "failed" /\ hpc # "idle"
  BY DEF Live
<1>2. want \in {"OPEN_W", "WRITE", "CLOSE"}
  BY <1>1 DEF OwnSteps
<1>3. ~Agent /\ ~SwitchAway /\ ~SwitchBack /\ ~AgentRestart /\ ~Timeout
  BY DEF Agent, AgentTake, AgentPing, AgentOpenW, AgentWrite, AgentOpenR, AgentRead,
    AgentClose, AgentSpawn, AgentOutput, AgentClear, Done, SwitchAway, SwitchBack,
    AgentRestart, Timeout, HostStep, hostVars
<1>4. HostProceeds
  BY <1>3 DEF GwNext, GwSteady
<1>5. ~(SetPath \/ PutData \/ PutArg \/ Issue \/ PollMagic \/ PollCmd \/ GetStatus)
  BY DEF SetPath, PutData, PutArg, Issue, PollMagic, PollCmd, GetStatus, HostStep
<1>6. ~(AfterOpen \/ AfterWrite \/ AfterRead \/ AfterRun)
  BY <1>1, <1>2 DEF AfterOpen, AfterWrite, AfterRead, AfterRun, Then, Return, HostStep
<1>7. ~GetArg /\ ~GetData
  BY <1>2 DEF GetArg, GetData, OwnSteps
<1>8. AfterClose
  BY <1>4, <1>5, <1>6, <1>7 DEF HostProceeds
<1> QED
  BY <1>8 DEF AfterClose, Return, agentVars, fileVars, callVars

LEMMA LiveInvKept ==
  ASSUME GatewayConstants, ~Preempted, PushInv, GwNext
  PROVE  LiveInv'
<1> SUFFICES ASSUME Live'
             PROVE  /\ LiveOwner' /\ (hpc' # "idle" => LiveFile')
                    /\ hpc' = "idle" => files'[target'] = content'
  BY DEF LiveInv
<1> USE DEF PushInv
<1>1. CASE Calls
  <2>1. /\ request' = "push" /\ hpc' = "path" /\ want' = "OPEN_W" /\ cmd = Idle /\ apc = "spin"
        /\ UNCHANGED <<pageVars, agentVars>>
    BY <1>1 DEF Calls, PushFile, PullFile, Run, Ping, NewCall, Live
  <2> QED
    BY <2>1 DEF LiveOwner, LiveFile, Before, After, Polling, pageVars, agentVars
<1>2. CASE ~Calls
  <2>1. Live /\ LiveOwner
    BY <1>2, LiveStays DEF LiveInv
  <2>2. LiveOwner'
    BY <1>2, <2>1, LiveOwnerKept
  <2>3. CASE hpc = "idle"
    BY <1>2, <2>1, <2>2, <2>3, RestsIdle DEF LiveInv
  <2>4. CASE hpc # "idle"
    <3>1. LiveFile
      BY <2>1, <2>4 DEF LiveInv
    <3>2. hpc' # "idle" => LiveFile'
      BY <1>2, <2>1, <2>4, <3>1, LiveFileKept
    <3>3. hpc' = "idle" => files'[target'] = content'
      BY <1>2, <2>1, <2>4, <3>1, EndsWithClose DEF LiveFile
    <3> QED
      BY <2>2, <3>2, <3>3
  <2> QED
    BY <2>3, <2>4
<1> QED
  BY <1>1, <1>2

LEMMA PushInvInitially == GatewayConstants /\ GwInit => PushInv
<1> SUFFICES ASSUME GatewayConstants, GwInit PROVE PushInv
  OBVIOUS
<1>1. GwTypeOK /\ OwnSteps
  BY SteadyInitially DEF SteadyInv
<1>2. BlankWhileAway /\ LiveInv
  BY DEF BlankWhileAway, LiveInv, Live, GwInit
<1> QED
  BY <1>1, <1>2 DEF PushInv

LEMMA PushInvKept ==
  ASSUME GatewayConstants, ~Preempted, PushInv, [GwNext]_gwVars
  PROVE  PushInv'
<1>1. CASE GwNext
  BY <1>1, OwnTypesKept, OwnStepsKept, BlankKept, LiveInvKept DEF PushInv
<1>2. CASE UNCHANGED gwVars
  BY <1>2 DEF gwVars, pageVars, fileVars, agentVars, callVars, hostVars, faultVars,
     PushInv,
    GwTypeOK, OwnSteps, BlankWhileAway, LiveInv, Live, LiveOwner, LiveFile, Written, OpenOrLost,
    Before, After, Verdict
<1> QED
  BY <1>1, <1>2

(* A push that has come back with success has its file.                    *)
LEMMA LiveIsExact == PushInv => PushFromIdle
BY DEF PushInv, LiveInv, Live, OwnSteps, PushFromIdle, PushExact, None

(* push_file() that found the page idle and returns True has put exactly   *)
(* its content into the file, in a guest where nothing else runs while the *)
(* agent spins: whatever times out, fails or restarts before and during    *)
(* the call, and whatever is in other processes' memory.                   *)
THEOREM PushesFromIdle ==
  ASSUME ~Preempted
  PROVE  GwSpec => []PushFromIdle
<1> USE GatewayConstants
<1>1. GwInit => PushInv
  BY PushInvInitially
<1>2. PushInv /\ [GwNext]_gwVars => PushInv'
  BY PushInvKept
<1> QED
  BY <1>1, <1>2, LiveIsExact, PTL DEF GwSpec

=============================================================================
