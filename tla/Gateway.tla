------------------------------ MODULE Gateway ------------------------------
(***************************************************************************)
(* The host-channel gateway: class Gateway of pyirix_qemu/host_channel.py  *)
(* on the host and pyirix_qemu/gwagent.c in the guest.                     *)
(*                                                                         *)
(* They share one page of the agent's memory.  The host reaches it by      *)
(* one-shot gdb attaches, each a step of its own that stops the guest, and *)
(* only while the agent's address space is the current one: at other times *)
(* a write is lost and a read returns nothing or another process's word.   *)
(* The agent polls the command word, does the work, stores the status, and *)
(* then clears the command.                                                *)
(*                                                                         *)
(* A blob is what fits the data buffer; a file is a sequence of blobs.     *)
(* Commands longer than the buffer, which run() cuts, and the max_bytes    *)
(* limit of pull_file() are left out.                                      *)
(***************************************************************************)
EXTENDS Integers, Sequences

CONSTANTS
  Paths, Blobs, Contents,  \* as in RemoteFiles
  Output,      \* Output[b]: what the shell prints when b is run
  Empty,       \* no bytes: a zeroed data buffer, or an empty output
  Preempted,   \* TRUE: other processes run while the agent spins (multi-user)
  Mapped,      \* TRUE: other processes have memory at the agent's address
  Failing,     \* commands whose system call may fail
  MaxCalls,    \* bound: calls of the host
  MaxTimeouts, \* bound: how often _exec() gives up
  MaxSwitches, \* bound: context switches away from the agent
  MaxFaults,   \* bound: system calls of the agent that fail
  MaxRestarts  \* bound: restarts of the agent

ASSUME GatewayConstants ==
  /\ Contents \subseteq Seq(Blobs)
  /\ Output \in [Blobs \cup {Empty} -> Blobs \cup {Empty}]
  /\ Empty \notin Blobs /\ "absent" \notin Blobs \cup {Empty}
  /\ {"none", "nopath"} \cap Paths = {}
  /\ Preempted \in BOOLEAN /\ Mapped \in BOOLEAN
  /\ Failing \subseteq {"OPEN_W", "WRITE", "OPEN_R", "READ", "RUN"}
  /\ {MaxCalls, MaxTimeouts, MaxSwitches, MaxFaults, MaxRestarts} \subseteq Nat

VARIABLES
  \* ---- the shared page ----
  cmd, arg, status, path, data,
  \* ---- the agent ----
  apc, acmd,
  current,   \* its address space is the current one
  fd,        \* the open file: a path, or NoFd
  mode,      \* how it is open: "r" or "w"
  pos,       \* blobs read so far
  files,     \* files[p]: the content of p in the guest, or Absent
  \* ---- the host ----
  hpc,
  request, target, content,  \* the call and its arguments
  want,      \* the command _exec() is issuing
  st,        \* what _exec() returned; or None
  sent,      \* blobs written so far
  got,       \* what pull_file() or run() has read
  failed,    \* push_file() is closing after a failed write
  reply,     \* "none" while the call is in progress, then its outcome
  idleStart, \* history: no command was left over when the call began
  \* ---- bounds ----
  calls, timeouts, switches, faults, restarts

pageVars  == <<cmd, arg, status, path, data>>
fileVars  == <<fd, mode, pos, files>>
agentVars == <<apc, acmd, fileVars>>
callVars  == <<request, target, content, calls, idleStart>>
hostVars  == <<hpc, want, st, sent, got, failed, reply>>
faultVars == <<timeouts, switches, faults, restarts>>
gwVars == <<pageVars, agentVars, current, callVars, hostVars, faultVars>>

Absent == <<"absent">>
NoFd   == "none"
NoPath == "nopath"
Commands == {"PING", "RUN", "OPEN_W", "WRITE", "CLOSE", "OPEN_R", "READ"}
Idle   == "0"    \* cmd = 0

(* A status word: 0 while the agent is busy, 1 for success, -1 for failure *)
Statuses == {0, 1, -1}
None     == -2

GwTypeOK ==
  /\ cmd \in Commands \cup {Idle} /\ arg \in 0 .. 1 /\ status \in Statuses
  /\ path \in Paths \cup {NoPath} /\ data \in Blobs \cup {Empty}
  /\ apc \in {"spin", "work", "child", "clear"} /\ acmd \in Commands \cup {Idle}
  /\ current \in BOOLEAN
  /\ fd \in Paths \cup {NoFd} /\ mode \in {"r", "w"} /\ pos \in Nat
  /\ files \in [Paths -> Seq(Blobs \cup {Empty}) \cup {Absent}]
  /\ hpc \in {"idle", "path", "data", "arg", "issue", "magic", "cmd", "status",
              "after", "rdarg", "rddata"}
  /\ request \in {"none", "push", "pull", "other"} /\ target \in Paths
  /\ content \in Seq(Blobs)
  /\ want \in Commands \cup {Idle} /\ st \in Statuses \cup {None}
  /\ sent \in Nat /\ got \in Seq(Blobs \cup {Empty}) /\ failed \in BOOLEAN
  /\ reply \in {"none", "ok", "failed"} /\ idleStart \in BOOLEAN
  /\ calls \in Nat /\ timeouts \in Nat /\ switches \in Nat /\ faults \in Nat /\ restarts \in Nat

GwInit ==
  /\ cmd = Idle /\ arg = 0 /\ status = 0 /\ path = NoPath /\ data = Empty
  /\ apc = "spin" /\ acmd = Idle /\ current = TRUE
  /\ fd = NoFd /\ mode = "r" /\ pos = 0
  /\ files = [p \in Paths |-> Absent]
  /\ hpc = "idle" /\ request = "none" /\ target \in Paths /\ content = <<>>
  /\ want = Idle /\ st = None /\ sent = 0 /\ got = <<>> /\ failed = FALSE
  /\ reply = "ok" /\ idleStart = TRUE
  /\ calls = 0 /\ timeouts = 0 /\ switches = 0 /\ faults = 0 /\ restarts = 0

-----------------------------------------------------------------------------
(* The memory channel.                                                     *)

(* A write of one field: restore, or nothing if the agent is not current.  *)
Poke(field, v) == IF current THEN v ELSE field

(* What read_word() may return for a word of the page: another process has *)
(* nothing at that address (None), or some word of its own.                *)
Peek(word, none, any) == IF current THEN {word} ELSE IF Mapped THEN any ELSE {none}

(* Plausible mistakes, each a wrong form of an operator below; the         *)
(* properties reject every one of them.                                    *)
RawLength(n)      == n
KeepsPosition     == pos
AnyStatus(s)      == TRUE
TakesAndClears    == Idle
NeverClears       == cmd
ForgetsFailure    == FALSE

-----------------------------------------------------------------------------
(* The agent: main() of gwagent.c.                                         *)

(* The command word keeps the command while the agent works.               *)
CmdInHand == cmd

(* Take a command: it is in hand, and the status says busy.                *)
AgentTake ==
  /\ current /\ apc = "spin" /\ cmd # Idle
  /\ apc' = "work" /\ acmd' = cmd /\ cmd' = CmdInHand /\ status' = 0
  /\ UNCHANGED <<arg, path, data, fileVars, current, callVars, hostVars, faultVars>>

(* The work is done: the status is stored; the command is cleared next.    *)
Done(c, s) ==
  /\ current /\ apc = "work" /\ acmd = c
  /\ apc' = "clear" /\ status' = s
  /\ UNCHANGED <<acmd, cmd, path, current, callVars, hostVars, timeouts, switches, restarts>>

(* A system call of the agent fails.                                       *)
Fault(c) == c \in Failing /\ faults < MaxFaults /\ faults' = faults + 1
NoFault == UNCHANGED faults

AgentPing ==
  /\ Done("PING", 1) /\ NoFault
  /\ arg' \in 0 .. 1     \* the heartbeat
  /\ UNCHANGED <<data, fileVars>>

(* open() with O_TRUNC, after closing what is still open.                  *)
AgentOpenW ==
  /\ \/ /\ Done("OPEN_W", 1) /\ NoFault /\ path \in Paths
        /\ files' = [files EXCEPT ![path] = <<>>]
        /\ fd' = path /\ mode' = "w" /\ pos' = 0
     \/ /\ Done("OPEN_W", -1) /\ (IF path \in Paths THEN Fault("OPEN_W") ELSE NoFault)
        /\ fd' = NoFd
        /\ UNCHANGED <<mode, pos, files>>
  /\ UNCHANGED <<arg, data>>

(* write() of arg bytes of the buffer; a short write is a failure that may *)
(* have extended the file.                                                 *)
AgentWrite ==
  /\ LET wrote == IF arg = 1 THEN <<data>> ELSE <<>> IN
     \/ /\ Done("WRITE", 1) /\ NoFault /\ fd \in Paths /\ mode = "w"
        /\ files' = [files EXCEPT ![fd] = @ \o wrote]
     \/ /\ Done("WRITE", -1) /\ fd \in Paths /\ mode = "w" /\ Fault("WRITE")
        /\ files' \in {files, [files EXCEPT ![fd] = @ \o wrote]}
     \/ /\ Done("WRITE", -1) /\ NoFault
        /\ fd = NoFd \/ mode = "r"
        /\ UNCHANGED files
  /\ UNCHANGED <<arg, data, fd, mode, pos>>

OpenPos == 0

AgentOpenR ==
  /\ \/ /\ Done("OPEN_R", 1) /\ NoFault
        /\ path \in Paths /\ files[path] # Absent
        /\ fd' = path /\ mode' = "r" /\ pos' = OpenPos
     \/ /\ Done("OPEN_R", -1)
        /\ IF path \in Paths /\ files[path] # Absent THEN Fault("OPEN_R") ELSE NoFault
        /\ fd' = NoFd
        /\ UNCHANGED <<mode, pos>>
  /\ UNCHANGED <<arg, data, files>>

(* A failed read(), -1, has length 0.                                      *)
Length(n) == IF n > 0 THEN n ELSE 0

(* read(): the next blob, the end of the file, or a failure.               *)
AgentRead ==
  /\ \/ /\ Done("READ", 1) /\ NoFault /\ fd \in Paths /\ mode = "r"
        /\ IF pos < Len(files[fd])
             THEN data' = files[fd][pos + 1] /\ arg' = 1 /\ pos' = pos + 1
             ELSE arg' = 0 /\ UNCHANGED <<data, pos>>
     \/ /\ Done("READ", -1) /\ arg' = Length(-1)
        /\ IF fd \in Paths /\ mode = "r" THEN Fault("READ") ELSE NoFault
        /\ UNCHANGED <<data, pos>>
  /\ UNCHANGED <<fd, mode, files>>

AgentClose ==
  /\ Done("CLOSE", 1) /\ NoFault
  /\ fd' = NoFd
  /\ UNCHANGED <<arg, data, mode, pos, files>>

(* RUN: popen() starts a child with the command in the buffer; fread()     *)
(* waits for it and puts its output into the same buffer.  If there is no  *)
(* child, the buffer is left alone.                                        *)
AgentSpawn ==
  /\ current /\ apc = "work" /\ acmd = "RUN"
  /\ apc' = "child"
  /\ data' = IF arg = 0 THEN Empty ELSE data
  /\ UNCHANGED <<acmd, cmd, arg, status, path, fileVars, current, callVars, hostVars, faultVars>>

AgentOutput ==
  /\ current /\ apc = "child"
  /\ apc' = "clear"
  /\ \/ /\ status' = 1 /\ data' = Output[data] /\ NoFault
        /\ arg' = IF Output[data] = Empty THEN 0 ELSE 1
     \/ status' = -1 /\ Fault("RUN") /\ UNCHANGED <<data, arg>>
  /\ UNCHANGED <<acmd, cmd, path, fileVars, current, callVars, hostVars,
                 timeouts, switches, restarts>>

ClearedCmd == Idle

(* g->cmd = 0, whatever the host may have put there meanwhile.             *)
AgentClear ==
  /\ current /\ apc = "clear"
  /\ apc' = "spin" /\ cmd' = ClearedCmd
  /\ UNCHANGED <<arg, status, path, data, acmd, fileVars, current, callVars, hostVars, faultVars>>

(* The agent is started anew: a new page, nothing open.                    *)
AgentRestart ==
  /\ restarts < MaxRestarts /\ restarts' = restarts + 1
  /\ cmd' = Idle /\ arg' = 0 /\ status' = 0 /\ path' = NoPath /\ data' = Empty
  /\ apc' = "spin" /\ acmd' = Idle /\ fd' = NoFd /\ mode' = "r" /\ pos' = 0
  /\ UNCHANGED <<files, current, callVars, hostVars, timeouts, switches, faults>>

(* The guest's scheduler: the child of RUN needs the processor; with other *)
(* processes about, the agent loses it at any time.                        *)
SwitchAway ==
  /\ current /\ switches < MaxSwitches
  /\ Preempted \/ apc = "child"
  /\ current' = FALSE /\ switches' = switches + 1
  /\ UNCHANGED <<pageVars, agentVars, callVars, hostVars, timeouts, faults, restarts>>

SwitchBack ==
  /\ ~current /\ current' = TRUE
  /\ UNCHANGED <<pageVars, agentVars, callVars, hostVars, faultVars>>

-----------------------------------------------------------------------------
(* The host: push_file(), pull_file(), run(), ping() and _exec().          *)

NewCall(o, p, c, w, first) ==
  /\ hpc = "idle" /\ calls < MaxCalls
  /\ calls' = calls + 1
  /\ request' = o /\ target' = p /\ content' = c /\ want' = w /\ hpc' = first
  /\ st' = None /\ sent' = 0 /\ got' = <<>> /\ failed' = FALSE /\ reply' = "none"
  /\ idleStart' = (cmd = Idle /\ apc = "spin")
  /\ UNCHANGED <<pageVars, agentVars, current, faultVars>>

PushFile(p, c) == NewCall("push", p, c, "OPEN_W", "path")
PullFile(p)    == NewCall("pull", p, <<>>, "OPEN_R", "path")
Run(b)         == NewCall("other", target, <<b>>, "RUN", "data")
Ping           == NewCall("other", target, <<>>, "PING", "issue")

HostStep(from, to) ==
  /\ hpc = from /\ hpc' = to
  /\ UNCHANGED <<agentVars, current, callVars, reply>>

SetPath ==
  /\ HostStep("path", "issue")
  /\ path' = Poke(path, target)
  /\ UNCHANGED <<cmd, arg, status, data, want, st, sent, got, failed, faultVars>>

(* The next chunk, and its length.                                         *)
PutData ==
  /\ HostStep("data", "arg")
  /\ data' = Poke(data, content[sent + 1])
  /\ UNCHANGED <<cmd, arg, status, path, want, st, sent, got, failed, faultVars>>

PutArg ==
  /\ HostStep("arg", "issue")
  /\ arg' = Poke(arg, 1)
  /\ sent' = sent + 1
  /\ UNCHANGED <<cmd, status, path, data, want, st, got, failed, faultVars>>

(* _exec(): issue the command, then poll.                                  *)
Issue ==
  /\ HostStep("issue", "magic")
  /\ cmd' = Poke(cmd, want)
  /\ UNCHANGED <<arg, status, path, data, want, st, sent, got, failed, faultVars>>

(* One turn of the loop: magic, then the command word, then the status,    *)
(* each an attach of its own.  A wrong magic word is another turn.         *)
PollMagic ==
  /\ HostStep("magic", "cmd") /\ current
  /\ UNCHANGED <<pageVars, want, st, sent, got, failed, faultVars>>

(* The command word may read as zero: the agent is done.                   *)
Cleared == Idle \in Peek(cmd, "none", {Idle, "none"})

PollCmd ==
  /\ \/ HostStep("cmd", "status") /\ Cleared
     \/ HostStep("cmd", "magic") /\ Peek(cmd, "none", {Idle, "none"}) # {Idle}
  /\ UNCHANGED <<pageVars, want, st, sent, got, failed, faultVars>>

GetStatus ==
  /\ HostStep("status", "after")
  /\ st' \in Peek(status, None, Statuses \cup {None})
  /\ UNCHANGED <<pageVars, want, sent, got, failed, faultVars>>

(* The loop has run out of turns.                                          *)
Timeout ==
  /\ HostStep("magic", "after") /\ timeouts < MaxTimeouts
  /\ timeouts' = timeouts + 1 /\ st' = None
  /\ UNCHANGED <<pageVars, want, sent, got, failed, switches, faults, restarts>>

(* After _exec(): the next command, or the result.                         *)
Then(w, next) ==
  /\ HostStep("after", next) /\ want' = w
  /\ UNCHANGED <<pageVars, st, sent, got, faultVars>>

Return(r) ==
  /\ hpc = "after" /\ hpc' = "idle" /\ reply' = r
  /\ UNCHANGED <<pageVars, agentVars, current, callVars, want, st, sent, got, failed, faultVars>>

Succeeded(s) == s = 1

AfterOpen ==
  /\ want \in {"OPEN_W", "OPEN_R"}
  /\ \/ ~Succeeded(st) /\ Return("failed")
     \/ /\ Succeeded(st) /\ UNCHANGED failed
        /\ IF want = "OPEN_R" THEN Then("READ", "issue")
           ELSE IF content = <<>> THEN Then("CLOSE", "issue") ELSE Then("WRITE", "data")

WriteFailed == TRUE

(* A failed write closes the file and fails the call.                      *)
AfterWrite ==
  /\ want = "WRITE"
  /\ \/ ~Succeeded(st) /\ Then("CLOSE", "issue") /\ failed' = WriteFailed
     \/ /\ Succeeded(st) /\ UNCHANGED failed
        /\ IF sent < Len(content) THEN Then("WRITE", "data") ELSE Then("CLOSE", "issue")

(* A failed READ ends the loop of pull_file() like the end of the file.    *)
AfterRead ==
  /\ want = "READ" /\ UNCHANGED failed
  /\ IF Succeeded(st) THEN Then("READ", "rdarg") ELSE Then("CLOSE", "issue")

AfterClose ==
  /\ want = "CLOSE"
  /\ Return(IF request = "pull" \/ (Succeeded(st) /\ ~failed) THEN "ok" ELSE "failed")

(* run() and ping() return the status and go on to the output.             *)
AfterRun ==
  /\ want \in {"RUN", "PING"} /\ Then(want, "rdarg") /\ UNCHANGED failed

(* "_rdw(O_ARG) or 0": nothing read is no data.                            *)
GetArg ==
  /\ hpc = "rdarg"
  /\ \E n \in Peek(arg, 0, 0 .. 1) :
       IF want = "PING" \/ (want = "RUN" /\ n = 0)
         THEN /\ hpc' = "idle" /\ reply' = IF Succeeded(st) THEN "ok" ELSE "failed"
              /\ UNCHANGED want
         ELSE /\ hpc' = IF n = 1 THEN "rddata" ELSE "issue"
              /\ want' = IF n = 1 THEN want ELSE "CLOSE"
              /\ UNCHANGED reply
  /\ UNCHANGED <<pageVars, agentVars, current, callVars, st, sent, got, failed, faultVars>>

GetData ==
  /\ hpc = "rddata"
  /\ \E b \in Peek(data, Empty, Blobs \cup {Empty}) :
       got' = IF want = "RUN" /\ b = Empty THEN got ELSE Append(got, b)
  /\ IF want = "RUN"
       THEN hpc' = "idle" /\ reply' = IF Succeeded(st) THEN "ok" ELSE "failed"
       ELSE hpc' = "issue" /\ UNCHANGED reply
  /\ UNCHANGED <<pageVars, agentVars, current, callVars, want, st, sent, failed, faultVars>>

-----------------------------------------------------------------------------
Agent ==
  \/ AgentTake \/ AgentPing \/ AgentOpenW \/ AgentWrite \/ AgentOpenR \/ AgentRead
  \/ AgentClose \/ AgentSpawn \/ AgentOutput \/ AgentClear

HostProceeds ==
  \/ SetPath \/ PutData \/ PutArg \/ Issue
  \/ PollMagic \/ PollCmd \/ GetStatus
  \/ AfterOpen \/ AfterWrite \/ AfterRead \/ AfterClose \/ AfterRun
  \/ GetArg \/ GetData

Calls ==
  \/ \E p \in Paths, c \in Contents : PushFile(p, c)
  \/ \E p \in Paths : PullFile(p)
  \/ \E b \in Blobs : Run(b)
  \/ Ping

(* While the agent lives on and the host gives nothing up.                 *)
GwSteady == Agent \/ HostProceeds \/ Calls \/ SwitchAway \/ SwitchBack

GwNext == GwSteady \/ Timeout \/ AgentRestart

GwSpec == GwInit /\ [][GwNext]_gwVars

(* The guest runs, its scheduler is fair, and the host goes on polling.    *)
GwFairness ==
  /\ SF_gwVars(Agent) /\ WF_gwVars(HostProceeds) /\ SF_gwVars(PollMagic) /\ WF_gwVars(SwitchBack)

GwFairSpec == GwInit /\ [][GwSteady]_gwVars /\ GwFairness

-----------------------------------------------------------------------------
(* Properties.                                                             *)

(* push_file() returns True only if the file is the content, blob for blob *)
PushExact == request = "push" /\ reply = "ok" => files[target] = content

(* After a timeout push_file() can be trusted again as soon as it finds    *)
(* the page idle, whatever times out and restarts in the meantime.         *)
PushFromIdle == idleStart => PushExact

(* pull_file() returns bytes only if they are the file.                    *)
PullExact == request = "pull" /\ reply = "ok" => files[target] = got

(* run() reports status 1 only with the output of its own command.         *)
RunExact ==
  want = "RUN" /\ reply = "ok" =>
    got = IF Output[content[1]] = Empty THEN <<>> ELSE <<Output[content[1]]>>

(* The page has one owner at a time: while the agent has a command, taken  *)
(* or not, the host only polls.                                            *)
Polling == {"magic", "cmd", "status"}
OneOwner == (cmd # Idle \/ apc # "spin") => hpc \in Polling

(* The agent's last word on a command is in the page when the host looks.  *)
AnswerReady == hpc = "status" => status # 0

(* The promise, refined.                                                   *)
Promise == INSTANCE RemoteFiles WITH
             Paths <- Paths, Blobs <- Blobs, Contents <- Contents, files <- files, op <- request,
             target <- target, content <- content, got <- got, reply <- reply
KeepsPromise == Promise!RFSpec

(* Every call returns.                                                     *)
CallReturns == (reply = "none") ~> (reply # "none")

(* A call that says it succeeded gives what was asked for.                 *)
Exact == PushExact /\ PullExact /\ RunExact

(* Host and agent take turns on the page.                                  *)
Handshake == OneOwner /\ AnswerReady
=============================================================================
