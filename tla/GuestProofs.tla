---------------------------- MODULE GuestProofs ----------------------------
(***************************************************************************)
(* What runs for the guest, and in it.                                     *)
(*                                                                         *)
(* ContainerBoot: the boot state of the container, for any number of       *)
(* callers and lines of configuration.                                     *)
(*                                                                         *)
(* RtSleep: a gated sleep is never short, for every width of the counter,  *)
(* every duration below the cap and any number of sleepers.                *)
(*                                                                         *)
(* ShellChannel: an answer belongs to the call that returns it, for any    *)
(* number of calls and failures.                                           *)
(*                                                                         *)
(* DglStream: the servers of the DGL protocol draw what the guest's        *)
(* programs have sent, for any number of commands and size of a frame.     *)
(***************************************************************************)
EXTENDS ContainerBoot, RtSleep, ShellChannel, DglStream, SequenceTheorems,
        WellFoundedInduction, TLAPS

-----------------------------------------------------------------------------
(* ContainerBoot.                                                          *)

(* What entrypoint.sh knows where it is.                                   *)
Early == {"start", "started", "launch", "snapshot", "serial", "enter", "one"}
PlaceInv ==
  /\ bootState = "ready" => where \in {"wait", "exit"}
  /\ where \in {"config", "probe"} => "login:" \in console
  /\ where = "snapshot" => snapshot
  /\ where = "start" => bootState = "none"
  /\ where = "started" => bootState = "starting"
  /\ known \/ (qemu # "up") \/ where = "started" \/ (where = "exit" /\ bootState = "starting")
  /\ where \in {"die", "asleep"} => bootState = "error"
  /\ where = "asleep" => detail
  /\ where \in Early => lines = 0
  /\ where = "config" => lines < ConfigLines

ContainerInv ==
  /\ ContainerTypeOK /\ PlaceInv
  /\ ToldReady /\ LoginFirst /\ QemuGoesFirst

LEMMA ContainerInitially == ContainerConstants /\ ContainerInit => ContainerInv
<1> SUFFICES ASSUME ContainerConstants, ContainerInit
             PROVE  ContainerInv
  OBVIOUS
<1> USE DEF ContainerInit
<1>1. lines \in 0..ConfigLines /\ 0 < ConfigLines
  BY DEF ContainerConstants
<1>2. told \in [Callers -> {"none", "wait", "exec", "ready", "sent", "error", "booting", "late"}]
  OBVIOUS
<1>3. ContainerTypeOK
  BY <1>1, <1>2 DEF ContainerTypeOK, Milestones
<1>4. PlaceInv
  BY <1>1 DEF PlaceInv, Early
<1>5. ToldReady /\ LoginFirst /\ QemuGoesFirst
  BY DEF ToldReady, LoginFirst, QemuGoesFirst
<1> QED
  BY <1>3, <1>4, <1>5 DEF ContainerInv

(* entrypoint.sh leaves the callers alone, and a boot that is called ready *)
(* stays so.                                                               *)
LEMMA EntrypointKeeps ==
  ASSUME ContainerConstants, ContainerInv, Entrypoint
  PROVE  ContainerInv'
<1> USE DEF ContainerConstants, ContainerInv, ContainerTypeOK, PlaceInv, Early,
            ToldReady, LoginFirst, QemuGoesFirst, Milestones
<1>a. ConfigLines \in Nat /\ 0 < ConfigLines
  BY ONLY ContainerConstants DEF ContainerConstants
<1>b. lines \in 0..ConfigLines
  BY ONLY ContainerInv DEF ContainerInv, ContainerTypeOK
<1>c. /\ where = "config" => lines < ConfigLines
      /\ where = "serial" => lines = 0 /\ bootState # "ready"
  BY ONLY ContainerInv DEF ContainerInv, PlaceInv, Early
<1>1. CASE Begin
  BY <1>1 DEF Begin, Enter
<1>11. CASE NotesPid
  BY <1>11 DEF NotesPid
<1>2. CASE Launched
  BY <1>2 DEF Launched, Enter
<1>3. CASE ProbePort
  BY <1>3 DEF ProbePort, Enter
<1>4. CASE Look
  <2>1. CASE qemu = "dead" \/ "PANIC" \in console
    BY <1>4, <2>1 DEF Look, Enter
  <2>2. CASE ~(qemu = "dead" \/ "PANIC" \in console) /\ LoginShown
    <3>1. /\ where = "serial" /\ where' = "config" /\ "login:" \in console
          /\ bootState' = "configuring" /\ lastState' = "configuring"
          /\ UNCHANGED <<detail, snapshot, qemu, known, console, assisted, lines, term, told>>
      BY <1>4, <2>2 DEF Look, Enter, LoginShown
    <3>2. bootState # "ready" /\ lines = 0 /\ 0 < ConfigLines
      BY ONLY <3>1, <1>a, <1>c
    <3>3. ContainerTypeOK'
      BY <3>1
    <3>4. PlaceInv'
      BY <3>1, <3>2
    <3>5. ToldReady' /\ LoginFirst' /\ QemuGoesFirst'
      BY <3>1, <3>2
    <3> QED
      BY <3>3, <3>4, <3>5
  <2>3. CASE ~(qemu = "dead" \/ "PANIC" \in console) /\ ~LoginShown
    <3>1. /\ where = "serial" /\ where' \in {"enter", "serial"}
          /\ UNCHANGED <<detail, snapshot, qemu, known, console, assisted, lines, term, told>>
      BY <1>4, <2>3 DEF Look
    <3>2. \/ bootState' = "booting" /\ lastState' = "booting"
          \/ UNCHANGED <<bootState, lastState>>
      BY <1>4, <2>3 DEF Look
    <3>3. bootState # "ready"
      BY <3>1
    <3>4. ContainerTypeOK'
      <4>1. bootState' \in {"none", "starting", "prom", "booting", "configuring", "ready", "error"}
        BY <3>1, <3>2
      <4>2. lastState' \in {"prom", "booting", "configuring"}
        BY <3>1, <3>2
      <4>3. bootState' = "configuring" => lastState' = "configuring"
        BY <3>1, <3>2
      <4> QED
        BY <3>1, <4>1, <4>2, <4>3
    <3>5. PlaceInv'
      <4>1. /\ where \in Early /\ where' \in Early /\ where' \notin {"start", "started", "snapshot"}
            /\ where' \notin {"die", "asleep", "config", "probe"} /\ bootState' # "ready"
        BY <3>1, <3>2, <3>3
      <4>2. known \/ qemu # "up"
        BY <3>1
      <4> QED
        BY <3>1, <4>1, <4>2
    <3>6. ToldReady' /\ LoginFirst' /\ QemuGoesFirst'
      BY <3>1, <3>2, <3>3
    <3> QED
      BY <3>4, <3>5, <3>6
  <2> QED
    BY <2>1, <2>2, <2>3
<1>5. CASE Deadline
  BY <1>5 DEF Deadline, Enter
<1>6. CASE SerialSend
  <2>1. CASE where = "config"
    <3>1. /\ where' = (IF lines + 1 = ConfigLines THEN "probe" ELSE "config")
          /\ lines' = lines + 1
          /\ assisted' = (assisted \/ where = "one")
          /\ UNCHANGED <<bootState, detail, snapshot, qemu, known, console, lastState, term, told>>
      BY <1>6, <2>1 DEF SerialSend, Sent, AllSent
    <3>a. lines \in Nat /\ ConfigLines \in Nat /\ lines < ConfigLines
      BY ONLY <2>1, <1>a, <1>b, <1>c
    <3>2. /\ lines + 1 \in 0..ConfigLines
          /\ lines + 1 # ConfigLines => lines + 1 < ConfigLines
      BY ONLY <3>a
    <3>3. ContainerTypeOK'
      BY <3>1, <3>2, <2>1
    <3>4. PlaceInv'
      BY <3>1, <3>2, <2>1
    <3>5. ToldReady' /\ LoginFirst' /\ QemuGoesFirst'
      BY <3>1, <2>1
    <3> QED
      BY <3>3, <3>4, <3>5
  <2>2. CASE where # "config"
    <3>1. /\ where \in {"enter", "one"} /\ where' \in {"one", "serial"}
          /\ assisted' = (assisted \/ where = "one") /\ lines' = lines
          /\ UNCHANGED <<bootState, detail, snapshot, qemu, known, console, lastState, term, told>>
      BY <1>6, <2>2 DEF SerialSend, Writing, Sent
    <3>2. ContainerTypeOK'
      <4>1. where' \in {"one", "serial"} /\ lines' \in 0..ConfigLines /\ assisted' \in BOOLEAN
        BY <3>1
      <4> QED
        BY <3>1, <4>1
    <3>3. PlaceInv'
      <4>1. lines = 0 /\ bootState # "ready" /\ (known \/ qemu # "up")
        BY <3>1
      <4> QED
        BY <3>1, <4>1
    <3>4. ToldReady' /\ LoginFirst'
      BY <3>1
    <3>5. QemuGoesFirst'
      BY <3>1
    <3> QED
      BY <3>2, <3>3, <3>4, <3>5
  <2> QED
    BY <2>1, <2>2
<1>7. CASE ProbeExec
  BY <1>7 DEF ProbeExec, Enter
<1>8. CASE QemuEnded
  BY <1>8 DEF QemuEnded
<1>9. CASE Die
  BY <1>9 DEF Die
<1>10. CASE Trap
  <2>1. ContainerTypeOK'
    BY <1>10 DEF Trap, Cleanup
  <2>2. PlaceInv'
    BY <1>10 DEF Trap, Cleanup
  <2>3. ToldReady' /\ LoginFirst'
    BY <1>10 DEF Trap, Cleanup
  <2>4. QemuGoesFirst'
    BY <1>10 DEF Trap, Cleanup
  <2> QED
    BY <2>1, <2>2, <2>3, <2>4
<1> QED
  BY <1>1, <1>2, <1>3, <1>4, <1>5, <1>6, <1>7, <1>8, <1>9, <1>10, <1>11 DEF Entrypoint

LEMMA ContainerStep ==
  ASSUME ContainerConstants, ContainerInv, [ContainerNext]_containerVars
  PROVE  ContainerInv'
<1> USE DEF ContainerInv, ContainerTypeOK, PlaceInv, Early, ToldReady, LoginFirst,
   QemuGoesFirst
<1>1. CASE UNCHANGED containerVars
  BY <1>1 DEF containerVars
<1>2. CASE Entrypoint
  BY <1>2, EntrypointKeeps
<1>3. CASE Boots
  <2>1. PICK m \in Milestones : console' = console \cup {m}
    BY <1>3 DEF Boots
  <2>2. UNCHANGED <<where, bootState, detail, snapshot, qemu, known, lastState, assisted, lines, term,
                    told>>
    BY <1>3 DEF Boots
  <2>3. console' \subseteq Milestones /\ console \subseteq console'
    BY <2>1
  <2>4. ContainerTypeOK'
    BY <2>2, <2>3
  <2>5. PlaceInv' /\ LoginFirst'
    BY <2>2, <2>3
  <2>6. ToldReady' /\ QemuGoesFirst'
    BY <2>2
  <2> QED
    BY <2>4, <2>5, <2>6
<1>4. CASE QemuDies
  BY <1>4 DEF QemuDies
<1>5. CASE DockerStop
  BY <1>5 DEF DockerStop
<1>7. CASE DockerKill
  BY <1>7 DEF DockerKill, Blocked
<1>6. ASSUME NEW c \in Callers, Dispatcher(c)
      PROVE  ContainerInv'
  <2>1. CASE Call(c)
    BY <1>6, <2>1 DEF Dispatcher, Call
  <2>2. CASE CmdWait(c)
    BY <1>6, <2>2 DEF Dispatcher, CmdWait, IsReady
  <2>3. CASE CheckReady(c)
    BY <1>6, <2>3 DEF Dispatcher, CheckReady, IsReady
  <2> QED
    BY <1>6, <2>1, <2>2, <2>3 DEF Dispatcher
<1> QED
  BY <1>1, <1>2, <1>3, <1>4, <1>5, <1>6, <1>7 DEF ContainerNext

LEMMA ContainerInvariant == ContainerSpec => []ContainerInv
BY ContainerConstants, ContainerInitially, ContainerStep, PTL DEF ContainerSpec

(* The state file, and what the script and its callers know, are as they   *)
(* should be.                                                              *)
THEOREM ContainerTypes == ContainerSpec => []ContainerTypeOK
<1>1. ContainerInv => ContainerTypeOK
  BY DEF ContainerInv
<1> QED
  BY <1>1, ContainerInvariant, PTL

(* However many callers ask, and whenever, one that was told "ready" was   *)
(* told so of a boot that stays ready until the container ends.            *)
THEOREM ReadyIsFinal == ContainerSpec => []ToldReady
<1>1. ContainerInv => ToldReady
  BY DEF ContainerInv
<1> QED
  BY <1>1, ContainerInvariant, PTL

(* A boot is configured after a login prompt only, and a cold one is so    *)
(* called ready.                                                           *)
THEOREM LoginBeforeReady == ContainerSpec => []LoginFirst
<1>1. ContainerInv => LoginFirst
  BY DEF ContainerInv
<1> QED
  BY <1>1, ContainerInvariant, PTL

(* The container ends under a running QEMU only where it was stopped       *)
(* before it knew of one, or after a boot that it had reported as failed.  *)
THEOREM QemuFirst == ContainerSpec => []QemuGoesFirst
<1>1. ContainerInv => QemuGoesFirst
  BY DEF ContainerInv
<1> QED
  BY <1>1, ContainerInvariant, PTL

(* All three: what is told, what is waited for, and what ends first.       *)
THEOREM BootIsSafe == ContainerSpec => []BootSafe
<1>1. ContainerInv => BootSafe
  BY DEF ContainerInv, BootSafe
<1> QED
  BY <1>1, ContainerInvariant, PTL

-----------------------------------------------------------------------------
(* RtSleep.                                                                *)

(* What the counter read when the sleep began, and the sleeps that ended.  *)
SleepInv ==
  /\ SleepTypeOK
  /\ \A t \in Sleepers : began[t] <= real /\ rtStart[t] = began[t] % RtWord
  /\ \A t \in Sleepers : sleep[t] = "native" => asked[t] > Cap
  /\ NeverShort

(* The difference of two readings, in the counter's width, is at most the  *)
(* time between them: the gate errs on the late side only.                 *)
LEMMA WrappedDifference ==
  ASSUME NEW a \in Nat, NEW b \in Nat, a <= b, NEW w \in Nat \ {0}
  PROVE  ((b % w) - (a % w)) % w <= b - a
OBVIOUS

(* What is asked for is a time.                                            *)
LEMMA AskedNat ==
  ASSUME SleepConstants, SleepTypeOK, NEW t \in Sleepers
  PROVE  asked[t] \in Nat
<1>1. asked[t] \in Durations \cup {0}
  BY DEF SleepTypeOK
<1>2. Durations \subseteq Nat
  BY DEF SleepConstants
<1>3. CASE asked[t] \in Durations
  BY <1>2, <1>3
<1>4. CASE asked[t] = 0
  BY <1>4
<1> QED
  BY <1>1, <1>3, <1>4

(* Below the cap the target keeps the whole of the time asked for.         *)
LEMMA TargetCovers ==
  ASSUME SleepConstants, SleepTypeOK, NEW t \in Sleepers, asked[t] <= Cap
  PROVE  asked[t] <= Target(t) /\ asked[t] \in Int /\ Target(t) \in Int
<1>1. asked[t] \in Nat
  BY AskedNat
<1>2. asked[t] < RtWord /\ RtWord \in Nat \ {0}
  BY <1>1 DEF SleepConstants
<1>3. asked[t] % RtWord = asked[t]
  BY <1>1, <1>2
<1> QED
  BY <1>1, <1>3 DEF Target

LEMMA SleepInitially == SleepConstants /\ SleepInit => SleepInv
BY DEF SleepConstants, SleepInit, SleepInv, SleepTypeOK, NeverShort

(* A sleep that ends says how long it was.                                 *)
LEMMA WakingKeeps ==
  ASSUME SleepConstants, SleepInv, NEW t \in Sleepers, NEW how \in {"done", "EINTR"},
         NEW rest \in Nat, Wakes(t, how, rest),
         how = "done" /\ asked[t] <= Cap => real - began[t] >= asked[t]
  PROVE  SleepInv'
<1>1. real - began[t] \in Nat
  BY DEF SleepInv, SleepTypeOK
<1>2. SleepTypeOK'
  BY <1>1 DEF SleepInv, SleepTypeOK, Wakes
<1>3. (\A u \in Sleepers : began[u] <= real /\ rtStart[u] = began[u] % RtWord)'
  BY DEF SleepInv, Wakes
<1>4. (\A u \in Sleepers : sleep[u] = "native" => asked[u] > Cap)'
  BY DEF SleepInv, SleepTypeOK, Wakes
<1>5. NeverShort'
  <2> SUFFICES ASSUME NEW u \in Sleepers, woke'[u] = "done", asked[u] <= Cap
               PROVE  since'[u] >= asked[u]
    BY DEF NeverShort, Wakes
  <2>1. CASE u = t
    BY <2>1 DEF Wakes, SleepInv, SleepTypeOK
  <2>2. CASE u # t
    BY <2>2 DEF Wakes, SleepInv, SleepTypeOK, NeverShort
  <2> QED
    BY <2>1, <2>2
<1> QED
  BY <1>2, <1>3, <1>4, <1>5 DEF SleepInv

LEMMA SleepStep ==
  ASSUME SleepConstants, SleepInv, [SleepNext]_sleepVars
  PROVE  SleepInv'
<1>1. CASE UNCHANGED sleepVars
  BY <1>1 DEF SleepInv, SleepTypeOK, NeverShort, sleepVars
<1>2. CASE TimePasses
  BY <1>2 DEF SleepInv, SleepTypeOK, NeverShort, TimePasses
<1>3. ASSUME NEW t \in Sleepers, Sleeps(t)
      PROVE  SleepInv'
  <2>1. Counter \in 0..(RtWord - 1)
    BY DEF Counter, SleepConstants, SleepInv, SleepTypeOK
  <2>2. SleepTypeOK'
    BY <1>3, <2>1 DEF Sleeps, SleepInv, SleepTypeOK
  <2>3. (\A u \in Sleepers : began[u] <= real /\ rtStart[u] = began[u] % RtWord)'
    BY <1>3 DEF Sleeps, SleepInv, SleepTypeOK, Counter
  <2>4. NeverShort'
    BY <1>3 DEF Sleeps, SleepInv, SleepTypeOK, NeverShort
  <2>5. (\A u \in Sleepers : sleep[u] = "native" => asked[u] > Cap)'
    <3>1. \A d \in Durations : ~(d > Cap) \/ d > Cap
      OBVIOUS
    <3> QED
      BY <1>3 DEF Sleeps, SleepInv, SleepTypeOK
  <2> QED
    BY <2>2, <2>3, <2>4, <2>5 DEF SleepInv
<1>4. ASSUME NEW t \in Sleepers, Tick(t)
      PROVE  SleepInv'
  <2>1. Wakes(t, "done", 0) /\ Elapsed(t) >= Target(t)
    BY <1>4 DEF Tick, GateOpen
  <2>2. ASSUME asked[t] <= Cap
        PROVE  real - began[t] >= asked[t]
    <3>1. real \in Nat /\ began[t] \in Nat /\ began[t] <= real
      BY DEF SleepInv, SleepTypeOK
    <3>2. rtStart[t] = began[t] % RtWord
      BY DEF SleepInv
    <3>3. RtWord \in Nat \ {0}
      BY DEF SleepConstants
    <3>4. Elapsed(t) = ((real % RtWord) - (began[t] % RtWord)) % RtWord
      BY <3>2 DEF Elapsed, Counter
    <3>5. Elapsed(t) <= real - began[t]
      BY <3>1, <3>3, <3>4, WrappedDifference
    <3>6. Elapsed(t) \in Int
      BY <3>1, <3>3, <3>4
    <3>7. asked[t] <= Target(t) /\ asked[t] \in Int /\ Target(t) \in Int
      BY <2>2, TargetCovers DEF SleepInv
    <3> QED
      BY <2>1, <3>1, <3>5, <3>6, <3>7
  <2> QED
    BY <2>1, <2>2, WakingKeeps
<1>5. ASSUME NEW t \in Sleepers, Native(t)
      PROVE  SleepInv'
  <2>1. Wakes(t, "done", 0) /\ asked[t] > Cap
    BY <1>5 DEF Native, SleepInv
  <2>2. asked[t] \in Nat /\ Cap \in Nat
    BY AskedNat DEF SleepInv, SleepConstants
  <2> QED
    BY <2>1, <2>2, WakingKeeps
<1>6. ASSUME NEW t \in Sleepers, Signal(t)
      PROVE  SleepInv'
  <2>1. PICK rest \in Nat : Wakes(t, "EINTR", rest)
    BY <1>6 DEF Signal, SleepConstants, SleepInv, SleepTypeOK
  <2> QED
    BY <2>1, WakingKeeps
<1> QED
  BY <1>1, <1>2, <1>3, <1>4, <1>5, <1>6 DEF SleepNext

(* The counter's readings and the sleeps are what they should be.          *)
THEOREM SleepTypes == SleepSpec => []SleepTypeOK
<1>1. SleepInv => SleepTypeOK
  BY DEF SleepInv
<1> QED
  BY <1>1, SleepConstants, SleepInitially, SleepStep, PTL DEF SleepSpec

(* No gated sleep that ends by itself is shorter than was asked for,       *)
(* however often the 32-bit counter wraps before the thread looks at it.   *)
THEOREM GateHolds == SleepSpec => []NeverShort
<1>1. SleepInv => NeverShort
  BY DEF SleepInv
<1> QED
  BY <1>1, SleepConstants, SleepInitially, SleepStep, PTL DEF SleepSpec

-----------------------------------------------------------------------------
(* ShellChannel.                                                           *)

(* What the guest has written or has still to write, and the host has not  *)
(* taken.                                                                  *)
Stream == (shellBuf \o arrived) \o printing

Requests == [what : {"login", "run", "file"}, of : 0..MaxShellCalls, wide : BOOLEAN,
             names : BOOLEAN]
ChannelTypes ==
  /\ shellPc \in {"closed", "idle", "drain", "recv"} /\ sock \in {"none", "open", "eof"}
  /\ request \in Requests /\ request.of = shellCalls
  /\ shellBuf \in Seq(Pieces) /\ arrived \in Seq(Pieces) /\ printing \in Seq(Pieces)
  /\ typed \in Seq(Requests)
  /\ echo \in BOOLEAN /\ behind \in BOOLEAN /\ overdue \in Nat /\ shellCalls \in 0..MaxShellCalls
  /\ shellPc = "drain" => shellBuf = <<>> /\ request.what = "run"
  /\ shellPc \in {"drain", "recv"} => answer = NoAnswer
  /\ sock = "eof" => overdue > 0

(* What is left of the last call: the further digits of its exit status.   *)
Leftover(s) == Len(s) <= 1 /\ \A i \in 1..Len(s) : s[i].kind = "digits"

(* A first part of what answers a command, behind d pieces of the last     *)
(* call and e of the terminal's echo.                                      *)
RunStream(s, r, d, e) ==
  \A i \in 1..Len(s) :
    /\ i <= d => s[i].kind = "digits"
    /\ d < i /\ i <= d + e => s[i] = Piece("echo", r.of)
    /\ i = d + e + 1 => s[i] = Output(r)
    /\ i = d + e + 2 => s[i] = Mark(r)
    /\ i > d + e + 2 => i = d + e + 3 /\ s[i].kind = "digits"

(* All that answers a call, behind what is left of the last one.           *)
Replied(s, r) ==
  \E d \in 0..1 :
    /\ r.what = "login" => Len(s) = d + 1 /\ s[d + 1].kind = "ready"
    /\ r.what = "run" => RunStream(s, r, d, 0) /\ Len(s) >= d + 2
    /\ r.what = "file" =>
         /\ Len(s) = d + 4 /\ s[d + 1] = Piece("begin", r.of)
         /\ s[d + 2] = Piece("part", r.of) /\ s[d + 3] = Piece("last", r.of)
         /\ s[d + 4] = Piece("end", r.of)
    /\ \A i \in 1..d : s[i].kind = "digits"

(* Nobody was before the command.                                          *)
OwnStream ==
  shellPc = "recv" /\ request.what = "run" /\ ~behind =>
    \/ typed = <<request>> /\ Stream = <<>>
    \/ typed = <<>> /\ RunStream(Stream, request, 0, IF echo THEN 1 ELSE 0)

(* Nothing has failed, on a terminal that does not echo.                   *)
QuietStream ==
  overdue = 0 /\ ~echo /\ shellPc # "closed" =>
    /\ sock = "open"
    /\ shellPc \in {"idle", "drain"} => typed = <<>> /\ Leftover(Stream)
    /\ shellPc = "recv" => \/ typed = <<request>> /\ Leftover(Stream)
                           \/ typed = <<>> /\ Replied(Stream, request)

ShellInv == ChannelTypes /\ OwnStream /\ QuietStream /\ ShellAnswers

-----------------------------------------------------------------------------
(* Sequences.                                                              *)
LEMMA InRow ==
  ASSUME NEW S, NEW s \in Seq(S), NEW t \in Seq(S), NEW u \in Seq(S)
  PROVE  (s \o t) \o u = s \o (t \o u)
<1> DEFINE l == (s \o t) \o u
           r == s \o (t \o u)
<1>1. l \in Seq(S) /\ r \in Seq(S) /\ Len(l) = Len(r)
  BY ConcatProperties
<1>2. ASSUME NEW i \in 1..Len(l)
      PROVE  l[i] = r[i]
  BY ConcatProperties
<1> QED
  BY <1>1, <1>2, SeqEqual

LEMMA FirstAndRest ==
  ASSUME NEW S, NEW p \in Seq(S), p # <<>>
  PROVE  /\ Head(p) \in S /\ Tail(p) \in Seq(S) /\ <<Head(p)>> \in Seq(S)
         /\ <<Head(p)>> \o Tail(p) = p
<1>1. Head(p) \in S /\ Tail(p) \in Seq(S)
  BY HeadTailProperties
<1>2. Len(p) \in Nat /\ 1 \in 1..Len(p) /\ Len(p) \in 1..Len(p)
  BY EmptySeq
<1>3. SubSeq(p, 1, Len(p)) = <<p[1]>> \o SubSeq(p, 1 + 1, Len(p))
  BY <1>2, SubSeqRecursiveFirst
<1>4. Tail(p) = SubSeq(p, 2, Len(p)) /\ SubSeq(p, 1, Len(p)) = p /\ Head(p) = p[1] /\ 1 + 1 = 2
  BY TailIsSubSeq, SubSeqFull
<1> QED
  BY <1>1, <1>3, <1>4

LEMMA MovesOn ==
  ASSUME NEW S, NEW c \in Seq(S), NEW p \in Seq(S), p # <<>>
  PROVE  /\ Head(p) \in S /\ Tail(p) \in Seq(S) /\ Append(c, Head(p)) \in Seq(S)
         /\ Append(c, Head(p)) \o Tail(p) = c \o p
<1>1. /\ Head(p) \in S /\ Tail(p) \in Seq(S) /\ <<Head(p)>> \in Seq(S)
      /\ <<Head(p)>> \o Tail(p) = p
  BY FirstAndRest
<1>2. Append(c, Head(p)) = c \o <<Head(p)>> /\ Append(c, Head(p)) \in Seq(S)
  BY <1>1, AppendIsConcat, AppendProperties
<1>3. (c \o <<Head(p)>>) \o Tail(p) = c \o (<<Head(p)>> \o Tail(p))
  BY <1>1, InRow
<1> QED
  BY <1>1, <1>2, <1>3

LEMMA AppendBehind ==
  ASSUME NEW S, NEW b \in Seq(S), NEW a \in Seq(S), NEW e \in S
  PROVE  b \o Append(a, e) = Append(b \o a, e)
<1>1. Append(a, e) = a \o <<e>> /\ <<e>> \in Seq(S) /\ b \o a \in Seq(S)
  BY AppendIsConcat, ConcatProperties
<1>2. Append(b \o a, e) = (b \o a) \o <<e>>
  BY <1>1, AppendIsConcat
<1> QED
  BY <1>1, <1>2, InRow

(* The parts of a concatenation.                                           *)
LEMMA TwoParts ==
  ASSUME NEW S, NEW c \in Seq(S), NEW p \in Seq(S)
  PROVE  /\ c \o p \in Seq(S) /\ Len(c \o p) = Len(c) + Len(p) /\ Len(c) \in Nat /\ Len(p) \in Nat
         /\ \A i \in 1..Len(c) : (c \o p)[i] = c[i]
         /\ \A i \in 1..Len(p) : (c \o p)[Len(c) + i] = p[i]
<1>1. Len(c) \in Nat /\ Len(p) \in Nat
  OBVIOUS
<1>2. /\ c \o p \in Seq(S) /\ Len(c \o p) = Len(c) + Len(p)
      /\ \A i \in 1..Len(c) + Len(p) : (c \o p)[i] = IF i <= Len(c) THEN c[i] ELSE p[i - Len(c)]
  BY ConcatProperties
<1>3. ASSUME NEW i \in 1..Len(c)
      PROVE  (c \o p)[i] = c[i]
  BY <1>1, <1>2
<1>4. ASSUME NEW i \in 1..Len(p)
      PROVE  (c \o p)[Len(c) + i] = p[i]
  <2>1. Len(c) + i \in 1..Len(c) + Len(p) /\ ~(Len(c) + i <= Len(c)) /\ (Len(c) + i) - Len(c) = i
    BY <1>1
  <2> QED
    BY <1>2, <2>1
<1> QED
  BY <1>1, <1>2, <1>3, <1>4

LEMMA StreamFacts ==
  ASSUME NEW b \in Seq(Pieces), NEW a \in Seq(Pieces), NEW p \in Seq(Pieces)
  PROVE  /\ b \o a \in Seq(Pieces) /\ (b \o a) \o p \in Seq(Pieces)
         /\ Len(b) \in Nat /\ Len(a) \in Nat /\ Len(p) \in Nat
         /\ Len(b \o a) = Len(b) + Len(a) /\ Len((b \o a) \o p) = Len(b) + Len(a) + Len(p)
         /\ \A i \in 1..Len(b) : ((b \o a) \o p)[i] = b[i]
         /\ \A i \in 1..(Len(b) + Len(a)) : ((b \o a) \o p)[i] = (b \o a)[i]
         /\ \A i \in 1..Len(p) : ((b \o a) \o p)[Len(b) + Len(a) + i] = p[i]
<1> DEFINE c == b \o a
<1>1. /\ c \in Seq(Pieces) /\ Len(c) = Len(b) + Len(a) /\ Len(b) \in Nat /\ Len(a) \in Nat
      /\ \A i \in 1..Len(b) : c[i] = b[i]
  BY TwoParts
<1> HIDE DEF c
<1>6. c \in Seq(Pieces)
  BY <1>1
<1>2. /\ c \o p \in Seq(Pieces) /\ Len(c \o p) = Len(c) + Len(p) /\ Len(p) \in Nat
      /\ \A i \in 1..Len(c) : (c \o p)[i] = c[i]
      /\ \A i \in 1..Len(p) : (c \o p)[Len(c) + i] = p[i]
  BY <1>6, TwoParts
<1>3. \A i \in 1..Len(b) : i \in 1..Len(c)
  BY <1>1
<1>4. \A i \in 1..Len(b) : (c \o p)[i] = b[i]
  BY <1>1, <1>2, <1>3
<1>5. Len(c \o p) = Len(b) + Len(a) + Len(p)
  BY <1>1, <1>2
<1> QED
  BY <1>1, <1>2, <1>4, <1>5 DEF c

(* A set of numbers has a least one.                                       *)
LEMMA LeastOf ==
  ASSUME NEW T, T \subseteq Nat, T # {}
  PROVE  \E x \in T : \A y \in T : x <= y
<1> DEFINE R == OpToRel(<, Nat)
<1>1. IsWellFoundedOn(R, Nat)
  BY NatLessThanWellFounded
<1>2. \A x, y \in Nat : <<y, x>> \in R <=> y < x
  BY DEF OpToRel
<1> HIDE DEF R
<1>3. PICK x \in T : \A y \in T : ~(<<y, x>> \in R)
  BY <1>1, WFMin
<1>4. ASSUME NEW y \in T
      PROVE  x <= y
  <2>1. x \in Nat /\ y \in Nat
    BY <1>3
  <2>2. ~(<<y, x>> \in R)
    BY <1>3
  <2>3. ~(y < x)
    BY <1>2, <2>1, <2>2, Zenon
  <2> QED
    BY <2>1, <2>3
<1> QED
  BY <1>4

(* The first match, and where it ends.                                     *)
LEMMA FirstMatch ==
  ASSUME ChannelTypes, Matched
  PROVE  /\ First \in 1..Len(shellBuf) /\ shellBuf[First].kind \in Endings(request)
         /\ \A j \in 1..Len(shellBuf) : shellBuf[j].kind \in Endings(request) => First <= j
         /\ MatchEnd \in 1..Len(shellBuf) /\ First <= MatchEnd
<1> DEFINE T == KindsAt(shellBuf, Endings(request))
<1>1. DOMAIN shellBuf = 1..Len(shellBuf) /\ Len(shellBuf) \in Nat
  BY LenProperties DEF ChannelTypes
<1>2. T = {i \in 1..Len(shellBuf) : shellBuf[i].kind \in Endings(request)}
  BY <1>1 DEF KindsAt
<1>3. T # {}
  BY DEF Matched
<1>4. T \subseteq Nat
  BY <1>1, <1>2
<1> HIDE DEF T
<1>5. \E x \in T : \A y \in T : x <= y
  BY <1>3, <1>4, LeastOf
<1>6. First = CHOOSE i \in T : \A j \in T : i <= j
  BY DEF First, T
<1>7. First \in T /\ \A j \in T : First <= j
  BY <1>5, <1>6
<1>8. First \in 1..Len(shellBuf) /\ shellBuf[First].kind \in Endings(request)
  BY <1>2, <1>7
<1>9. MatchEnd \in 1..Len(shellBuf) /\ First <= MatchEnd
  BY <1>1, <1>8 DEF MatchEnd
<1> QED
  BY <1>2, <1>7, <1>8, <1>9

(* What a command prints.                                                  *)
LEMMA Printed ==
  ASSUME NEW r \in Requests
  PROVE  /\ Prints(r) \in Seq(Pieces) /\ \A k \in Kinds : Piece(k, r.of) \in Pieces
         /\ r.what = "login" => Len(Prints(r)) = 1 /\ Prints(r)[1] = Piece("ready", r.of)
         /\ r.what = "run" =>
              /\ Len(Prints(r)) \in 2..3 /\ Prints(r)[1] = Output(r) /\ Prints(r)[2] = Mark(r)
              /\ Len(Prints(r)) = 3 => Prints(r)[3] = Piece("digits", r.of)
         /\ r.what = "file" =>
              /\ Len(Prints(r)) = 4 /\ Prints(r)[1] = Piece("begin", r.of)
              /\ Prints(r)[2] = Piece("part", r.of) /\ Prints(r)[3] = Piece("last", r.of)
              /\ Prints(r)[4] = Piece("end", r.of)
<1> DEFINE P(k) == Piece(k, r.of)
<1>1. r.what \in {"login", "run", "file"} /\ r.of \in 0..MaxShellCalls
  BY DEF Requests
<1>2. \A k \in Kinds : P(k) \in Pieces
  BY <1>1 DEF Piece, Pieces
<1>3. /\ P("ready") \in Pieces /\ P("digits") \in Pieces /\ P("begin") \in Pieces
      /\ P("part") \in Pieces /\ P("last") \in Pieces /\ P("end") \in Pieces
      /\ Output(r) \in Pieces /\ Mark(r) \in Pieces
  <2>1. /\ P("out") \in Pieces /\ P("named") \in Pieces /\ P("mark") \in Pieces
        /\ P("first") \in Pieces
    BY <1>2 DEF Kinds
  <2>2. Output(r) \in {P("out"), P("named")} /\ Mark(r) \in {P("mark"), P("first")}
    BY DEF Output, Mark
  <2>3. Output(r) \in Pieces /\ Mark(r) \in Pieces
    BY <2>1, <2>2
  <2> QED
    BY <1>2, <2>3 DEF Kinds
<1> HIDE DEF P
<1>4. CASE r.what = "login"
  <2>1. Prints(r) = <<P("ready")>>
    BY <1>4 DEF Prints, P
  <2> QED
    BY <1>2, <1>3, <1>4, <2>1 DEF P
<1>5. CASE r.what = "run"
  <2> DEFINE q == <<Output(r), Mark(r)>>
             u == IF r.wide THEN <<P("digits")>> ELSE <<>>
  <2>1. Prints(r) = q \o u
    BY <1>5 DEF Prints, P
  <2>2. q \in Seq(Pieces) /\ Len(q) = 2 /\ q[1] = Output(r) /\ q[2] = Mark(r)
    BY <1>3
  <2>3. u \in Seq(Pieces) /\ (Len(u) = 0 \/ (Len(u) = 1 /\ u[1] = P("digits")))
    BY <1>3
  <2> HIDE DEF q, u
  <2>4. /\ q \o u \in Seq(Pieces) /\ Len(q \o u) = Len(q) + Len(u)
        /\ \A i \in 1..Len(q) : (q \o u)[i] = q[i]
        /\ \A i \in 1..Len(u) : (q \o u)[Len(q) + i] = u[i]
    <3>1. q \in Seq(Pieces) /\ u \in Seq(Pieces)
      BY <2>2, <2>3
    <3> QED
      BY <3>1, TwoParts
  <2>5. (q \o u)[1] = Output(r) /\ (q \o u)[2] = Mark(r)
    BY <2>2, <2>4
  <2>6. Len(q \o u) \in 2..3
    BY <2>2, <2>3, <2>4
  <2>7. Len(q \o u) = 3 => (q \o u)[3] = P("digits")
    <3> SUFFICES ASSUME Len(q \o u) = 3 PROVE (q \o u)[3] = P("digits")
      OBVIOUS
    <3>1. Len(u) = 1 /\ u[1] = P("digits") /\ 1 \in 1..Len(u) /\ Len(q) + 1 = 3
      BY <2>2, <2>3, <2>4
    <3> QED
      BY <2>4, <3>1
  <2>8. q \o u \in Seq(Pieces)
    BY <2>4
  <2> QED
    BY <1>2, <1>5, <2>1, <2>5, <2>6, <2>7, <2>8 DEF P
<1>6. CASE r.what = "file"
  <2>1. Prints(r) = <<P("begin"), P("part"), P("last"), P("end")>>
    BY <1>6 DEF Prints, P
  <2> QED
    BY <1>2, <1>3, <1>6, <2>1 DEF P
<1> QED
  BY <1>1, <1>4, <1>5, <1>6

(* What every step keeps of the types.                                     *)
LEMMA ChannelTypesStep ==
  ASSUME ChannelTypes, [ShellNext]_shellVars
  PROVE  ChannelTypes'
<1>1. /\ request \in Requests /\ request.of = shellCalls /\ shellCalls \in 0..MaxShellCalls
      /\ shellBuf \in Seq(Pieces) /\ arrived \in Seq(Pieces) /\ printing \in Seq(Pieces)
      /\ typed \in Seq(Requests) /\ overdue \in Nat
  BY DEF ChannelTypes
<1>2. <<>> \in Seq(Pieces) /\ <<>> \in Seq(Requests)
  BY EmptySeq
<1>3. CASE ReadsLine
  <2> DEFINE r == Head(typed)
  <2>1. r \in Requests /\ Tail(typed) \in Seq(Requests)
    BY <1>1, <1>3, HeadTailProperties DEF ReadsLine
  <2> HIDE DEF r
  <2>2. Prints(r) \in Seq(Pieces) /\ Piece("echo", r.of) \in Pieces /\ Piece("fileecho", r.of) \in Pieces
    BY <2>1, Printed DEF Kinds
  <2>3. printing' = printing \o Prints(r) /\ typed' = Tail(typed)
        /\ (arrived' = arrived \/ arrived' = Append(arrived, Piece("echo", r.of))
            \/ arrived' = Append(arrived, Piece("fileecho", r.of)))
    BY <1>3 DEF ReadsLine, r
  <2>4. printing' \in Seq(Pieces)
    BY <1>1, <2>2, <2>3, ConcatProperties
  <2>5. arrived' \in Seq(Pieces)
    <3>1. Append(arrived, Piece("echo", r.of)) \in Seq(Pieces)
      BY <1>1, <2>2, AppendProperties
    <3>2. Append(arrived, Piece("fileecho", r.of)) \in Seq(Pieces)
      BY <1>1, <2>2, AppendProperties
    <3> QED
      BY <1>1, <2>3, <3>1, <3>2
  <2> QED
    BY <1>3, <2>1, <2>3, <2>4, <2>5 DEF ReadsLine, ChannelTypes
<1>4. CASE Writes
  <2>1. Tail(printing) \in Seq(Pieces) /\ Append(arrived, Head(printing)) \in Seq(Pieces)
    BY <1>1, <1>4, MovesOn DEF Writes
  <2> QED
    BY <1>4, <2>1 DEF Writes, ChannelTypes
<1>5. CASE HangsUp
  BY <1>1, <1>2, <1>5 DEF HangsUp, ChannelTypes
<1>6. CASE Login
  <2>1. request' = [what |-> "login", of |-> shellCalls, wide |-> FALSE,
                   names |-> FALSE]
    BY <1>6 DEF Login, Request
  <2>2. request' \in Requests /\ request'.of = shellCalls
    BY <1>1, <2>1 DEF Requests
  <2>3. typed' = <<request'>>
    BY <1>6 DEF Login
  <2>4. typed' \in Seq(Requests)
    BY <2>2, <2>3
  <2> QED
    BY <1>1, <1>2, <1>6, <2>2, <2>4 DEF Login, ChannelTypes
<1>7. CASE Run
  <2>1. PICK wide \in BOOLEAN, names \in BOOLEAN :
          request' = [what |-> "run", of |-> shellCalls + 1, wide |-> wide, names |-> names]
    BY <1>7 DEF Run, Request
  <2>2. shellCalls + 1 \in 0..MaxShellCalls
    BY <1>1, <1>7, ShellConstants DEF Run
  <2>3. request' \in Requests /\ request'.of = shellCalls + 1 /\ request'.what = "run"
    BY <2>1, <2>2 DEF Requests
  <2> QED
    BY <1>1, <1>2, <1>7, <2>2, <2>3 DEF Run, Drained, ChannelTypes
<1>8. CASE GetFile
  <2>1. request' = [what |-> "file", of |-> shellCalls + 1, wide |-> FALSE,
                   names |-> FALSE]
    BY <1>8 DEF GetFile, Sends, Request
  <2>2. shellCalls + 1 \in 0..MaxShellCalls
    BY <1>1, <1>8, ShellConstants DEF GetFile
  <2>3. request' \in Requests /\ request'.of = shellCalls + 1
    BY <2>1, <2>2 DEF Requests
  <2>4. typed' \in {typed, Append(typed, request')} /\ shellPc' \in {"recv", "idle"}
    BY <1>8 DEF GetFile, Sends
  <2>5. Append(typed, request') \in Seq(Requests)
    BY <1>1, <2>3, AppendProperties
  <2>6. behind' \in BOOLEAN
    BY <1>8 DEF GetFile, Busy
  <2> QED
    BY <1>1, <1>8, <2>2, <2>3, <2>4, <2>5, <2>6 DEF GetFile, ChannelTypes
<1>9. CASE Close
  BY <1>1, <1>2, <1>9 DEF Close, ChannelTypes
<1>10. CASE DrainReads
  BY <1>1, <1>2, <1>10 DEF DrainReads, guestVars, ChannelTypes
<1>11. CASE DrainEnds
  <2>1. request' = request /\ typed' \in {typed, Append(typed, request)} /\ shellPc' \in {"recv", "idle"}
    BY <1>11 DEF DrainEnds, Sends
  <2>2. Append(typed, request) \in Seq(Requests)
    BY <1>1, AppendProperties
  <2>3. behind' \in BOOLEAN
    BY <1>11 DEF DrainEnds, Busy
  <2> QED
    BY <1>1, <1>11, <2>1, <2>2, <2>3 DEF DrainEnds, ChannelTypes
<1>12. CASE Receives
  <2>1. shellBuf \o arrived \in Seq(Pieces)
    BY <1>1, ConcatProperties
  <2> QED
    BY <1>1, <1>2, <1>12, <2>1 DEF Receives, guestVars, ChannelTypes
<1>13. CASE Found
  <2>1. MatchEnd \in 1..Len(shellBuf) /\ Len(shellBuf) \in Nat
    BY <1>1, <1>13, FirstMatch DEF Found
  <2>2. \A i \in (MatchEnd + 1)..Len(shellBuf) : shellBuf[i] \in Pieces
    BY <1>1, <2>1, ElementOfSeq
  <2>3. SubSeq(shellBuf, MatchEnd + 1, Len(shellBuf)) \in Seq(Pieces)
    BY <2>1, <2>2, SubSeqProperties
  <2> QED
    BY <1>1, <1>13, <2>3 DEF Found, guestVars, ChannelTypes
<1>14. CASE GivesUp
  BY <1>1, <1>2, <1>14 DEF GivesUp, ChannelTypes
<1>15. CASE UNCHANGED shellVars
  BY <1>15 DEF shellVars, guestVars, ChannelTypes
<1> QED
  BY <1>3, <1>4, <1>5, <1>6, <1>7, <1>8, <1>9, <1>10, <1>11, <1>12, <1>13, <1>14, <1>15
     DEF ShellNext, ShellHost

-----------------------------------------------------------------------------
(* What a step does to the stream.                                         *)
LEMMA LeftoverParts ==
  ASSUME NEW c \in Seq(Pieces), NEW p \in Seq(Pieces)
  PROVE  Leftover(c \o p) <=> Leftover(c) /\ Leftover(p) /\ Len(c) + Len(p) <= 1
<1>1. /\ c \o p \in Seq(Pieces) /\ Len(c \o p) = Len(c) + Len(p) /\ Len(c) \in Nat /\ Len(p) \in Nat
      /\ \A i \in 1..Len(c) : (c \o p)[i] = c[i]
      /\ \A i \in 1..Len(p) : (c \o p)[Len(c) + i] = p[i]
  BY TwoParts
<1>2. ASSUME Leftover(c \o p)
      PROVE  Leftover(c) /\ Leftover(p) /\ Len(c) + Len(p) <= 1
  <2>1. Len(c) + Len(p) <= 1 /\ Len(c) <= 1 /\ Len(p) <= 1
    BY <1>1, <1>2 DEF Leftover
  <2>2. ASSUME NEW i \in 1..Len(c)
        PROVE  c[i].kind = "digits"
    BY <1>1, <1>2 DEF Leftover
  <2>3. ASSUME NEW i \in 1..Len(p)
        PROVE  p[i].kind = "digits"
    <3>1. Len(c) + i \in 1..Len(c \o p)
      BY <1>1
    <3> QED
      BY <1>1, <1>2, <3>1 DEF Leftover
  <2> QED
    BY <2>1, <2>2, <2>3 DEF Leftover
<1>3. ASSUME Leftover(c), Leftover(p), Len(c) + Len(p) <= 1
      PROVE  Leftover(c \o p)
  <2>1. ASSUME NEW i \in 1..Len(c \o p)
        PROVE  (c \o p)[i].kind = "digits"
    <3>1. CASE i \in 1..Len(c)
      BY <1>1, <1>3, <3>1 DEF Leftover
    <3>2. CASE i \notin 1..Len(c)
      <4>1. i - Len(c) \in 1..Len(p) /\ Len(c) + (i - Len(c)) = i
        BY <1>1, <3>2
      <4>2. (c \o p)[i] = p[i - Len(c)]
        BY <1>1, <4>1
      <4> QED
        BY <1>3, <4>1, <4>2 DEF Leftover
    <3> QED
      BY <3>1, <3>2
  <2> QED
    BY <1>1, <1>3, <2>1 DEF Leftover
<1> QED
  BY <1>2, <1>3

LEMMA NothingLeft == Leftover(<<>>) /\ \A e \in 0..1 : RunStream(<<>>, request, 0, e)
<1>1. Len(<<>>) = 0
  OBVIOUS
<1> QED
  BY <1>1 DEF Leftover, RunStream

(* Writing and reading move pieces along the stream.                       *)
LEMMA StreamMoves ==
  ASSUME ChannelTypes, Writes \/ Receives \/ UNCHANGED shellVars
  PROVE  Stream' = Stream
<1>1. shellBuf \in Seq(Pieces) /\ arrived \in Seq(Pieces) /\ printing \in Seq(Pieces)
  BY DEF ChannelTypes
<1>2. CASE Writes
  <2>1. /\ Head(printing) \in Pieces /\ Tail(printing) \in Seq(Pieces)
        /\ shellBuf \o arrived \in Seq(Pieces)
    BY <1>1, <1>2, HeadTailProperties, ConcatProperties DEF Writes
  <2>2. shellBuf \o Append(arrived, Head(printing)) = Append(shellBuf \o arrived, Head(printing))
    BY <1>1, <2>1, AppendBehind
  <2>3. Append(shellBuf \o arrived, Head(printing)) \o Tail(printing) = (shellBuf \o arrived) \o printing
    <3> DEFINE c == shellBuf \o arrived
    <3>1. c \in Seq(Pieces) /\ printing \in Seq(Pieces) /\ printing # <<>>
      BY <1>1, <1>2, <2>1 DEF Writes
    <3> HIDE DEF c
    <3>2. Append(c, Head(printing)) \o Tail(printing) = c \o printing
      BY <3>1, MovesOn
    <3> QED
      BY <3>2 DEF c
  <2> QED
    BY <1>2, <2>2, <2>3 DEF Writes, Stream
<1>3. CASE Receives
  <2>1. shellBuf \o arrived \in Seq(Pieces)
    BY <1>1, ConcatProperties
  <2>2. (shellBuf \o arrived) \o <<>> = shellBuf \o arrived
    BY <2>1, ConcatEmptySeq
  <2> QED
    BY <1>3, <2>2 DEF Receives, guestVars, Stream
<1> QED
  BY <1>2, <1>3 DEF shellVars, guestVars, Stream

LEMMA MovesKeep ==
  ASSUME ShellInv, Writes \/ Receives \/ UNCHANGED shellVars
  PROVE  (OwnStream /\ QuietStream /\ ShellAnswers)'
<1>1. Stream' = Stream
  BY StreamMoves DEF ShellInv
<1>2. UNCHANGED <<shellPc, request, typed, behind, overdue, echo, sock, answer>>
  BY DEF Writes, Receives, shellVars, guestVars
<1>3. OwnStream'
  BY <1>1, <1>2 DEF ShellInv, OwnStream, RunStream
<1>4. QuietStream'
  BY <1>1, <1>2 DEF ShellInv, QuietStream, Leftover, Replied, RunStream
<1>5. ShellAnswers'
  BY <1>2 DEF ShellInv, ShellAnswers, OwnAnswer, FileExact
<1> QED
  BY <1>3, <1>4, <1>5

LEMMA HangUpKeeps ==
  ASSUME ShellInv, HangsUp
  PROVE  (OwnStream /\ QuietStream /\ ShellAnswers)'
<1>1. shellBuf \in Seq(Pieces) /\ arrived \in Seq(Pieces) /\ printing \in Seq(Pieces) /\ overdue \in Nat
  BY DEF ShellInv, ChannelTypes
<1>2. /\ UNCHANGED <<shellPc, request, shellBuf, arrived, echo, behind, answer>>
      /\ overdue' = overdue + 1 /\ typed' = <<>> /\ printing' = <<>>
  BY DEF HangsUp
<1>3. OwnStream'
  <2> SUFFICES ASSUME shellPc = "recv", request.what = "run", ~behind
               PROVE  RunStream(Stream', request, 0, IF echo THEN 1 ELSE 0)
    BY <1>2 DEF OwnStream
  <2> DEFINE c == shellBuf \o arrived
  <2>1. /\ c \in Seq(Pieces) /\ Len(c) \in Nat /\ Len(Stream) = Len(c) + Len(printing) /\ Len(printing) \in Nat
        /\ \A i \in 1..Len(c) : Stream[i] = c[i]
    <3>1. c \in Seq(Pieces)
      BY <1>1, ConcatProperties
    <3> HIDE DEF c
    <3>2. /\ Len(c \o printing) = Len(c) + Len(printing) /\ Len(c) \in Nat /\ Len(printing) \in Nat
          /\ \A i \in 1..Len(c) : (c \o printing)[i] = c[i]
      BY <1>1, <3>1, TwoParts
    <3>3. Stream = c \o printing
      BY DEF Stream, c
    <3> QED
      BY <3>1, <3>2, <3>3
  <2>2. Stream' = c
    BY <1>2, <2>1, ConcatEmptySeq DEF Stream
  <2> DEFINE e == IF echo THEN 1 ELSE 0
  <2>3. RunStream(Stream, request, 0, e)
    BY NothingLeft DEF ShellInv, OwnStream
  <2> HIDE DEF c, e
  <2>4. RunStream(c, request, 0, e)
    <3>1. \A i \in 1..Len(c) : i \in 1..Len(Stream)
      BY <2>1
    <3> QED
      BY <2>1, <2>3, <3>1 DEF RunStream
  <2> QED
    BY <2>2, <2>4 DEF e
<1>4. QuietStream'
  BY <1>1, <1>2 DEF QuietStream
<1>5. ShellAnswers'
  BY <1>1, <1>2 DEF ShellInv, ShellAnswers, OwnAnswer, FileExact
<1> QED
  BY <1>3, <1>4, <1>5

(* The steps of the host that send, drain, give up or close.               *)
LEMMA HostKeeps ==
  ASSUME ShellInv, Login \/ Run \/ GetFile \/ Close \/ DrainReads \/ DrainEnds \/
     GivesUp
  PROVE  (OwnStream /\ QuietStream /\ ShellAnswers)'
<1>1. /\ shellBuf \in Seq(Pieces) /\ arrived \in Seq(Pieces) /\ printing \in Seq(Pieces) /\ overdue \in Nat
      /\ typed \in Seq(Requests) /\ echo \in BOOLEAN
  BY DEF ShellInv, ChannelTypes
<1>2. <<>> \in Seq(Pieces) /\ <<>> \o <<>> = <<>> /\ Len(<<>>) = 0
  BY EmptySeq, ConcatEmptySeq
<1> DEFINE c == shellBuf \o arrived
<1>3. c \in Seq(Pieces) /\ Len(c) = Len(shellBuf) + Len(arrived) /\ Stream = c \o printing
  BY <1>1, ConcatProperties DEF Stream
<1>4. Leftover(Stream) => /\ Leftover(shellBuf) /\ Leftover(arrived) /\ Leftover(printing)
                          /\ Len(shellBuf) + Len(arrived) + Len(printing) <= 1
  <2> SUFFICES ASSUME Leftover(Stream)
               PROVE  /\ Leftover(shellBuf) /\ Leftover(arrived) /\ Leftover(printing)
                      /\ Len(shellBuf) + Len(arrived) + Len(printing) <= 1
    OBVIOUS
  <2>1. c \in Seq(Pieces) /\ Leftover(c \o printing)
    BY <1>3
  <2> HIDE DEF c
  <2>2. Leftover(c) /\ Leftover(printing) /\ Len(c) + Len(printing) <= 1
    BY <1>1, <2>1, LeftoverParts
  <2>3. Leftover(shellBuf) /\ Leftover(arrived)
    BY <1>1, <2>2, LeftoverParts DEF c
  <2> QED
    BY <1>3, <2>2, <2>3
<1> HIDE DEF c
<1>5. CASE Login
  <2>1. /\ shellPc' = "recv" /\ sock' = "open" /\ request'.what = "login" /\ answer' = NoAnswer
        /\ typed' = <<request'>> /\ shellBuf' = <<>> /\ arrived' = <<>> /\ printing' = <<>>
    BY <1>5 DEF Login, Request
  <2>2. Stream' = <<>> /\ Leftover(Stream')
    BY <1>2, <2>1, NothingLeft DEF Stream
  <2>3. OwnStream'
    BY <2>1 DEF OwnStream
  <2>4. QuietStream'
    BY <2>1, <2>2 DEF QuietStream
  <2>5. ShellAnswers'
    BY <2>1 DEF ShellAnswers, OwnAnswer, FileExact, NoAnswer
  <2> QED
    BY <2>3, <2>4, <2>5
<1>6. CASE Run
  <2>1. /\ shellPc = "idle" /\ shellPc' = "drain" /\ answer' = NoAnswer /\ shellBuf' = <<>>
        /\ UNCHANGED <<sock, arrived, typed, printing, echo, overdue>>
    BY <1>6 DEF Run, Drained
  <2>2. Leftover(Stream) => Leftover(Stream')
    <3>1. Stream' = arrived \o printing
      BY <1>1, <2>1, ConcatEmptySeq DEF Stream
    <3> QED
      BY <1>1, <1>4, <3>1, LeftoverParts
  <2>3. OwnStream'
    BY <2>1 DEF OwnStream
  <2>4. QuietStream'
    BY <2>1, <2>2 DEF ShellInv, QuietStream
  <2>5. ShellAnswers'
    BY <2>1 DEF ShellAnswers, OwnAnswer, FileExact, NoAnswer
  <2> QED
    BY <2>3, <2>4, <2>5
<1>7. CASE GetFile
  <2>1. /\ shellPc = "idle" /\ shellPc' \in {"recv", "idle"} /\ answer' = NoAnswer
        /\ request'.what = "file" /\ UNCHANGED <<sock, shellBuf, arrived, printing, echo, overdue>>
        /\ sock = "open" => typed' = Append(typed, request') /\ shellPc' = "recv"
    BY <1>7 DEF GetFile, Sends, Request
  <2>2. Stream' = Stream
    BY <2>1 DEF Stream
  <2>3. OwnStream'
    BY <2>1 DEF OwnStream
  <2>4. QuietStream'
    <3> SUFFICES ASSUME overdue = 0, ~echo
                 PROVE  sock' = "open" /\ shellPc' = "recv" /\ typed' = <<request'>> /\ Leftover(Stream')
      BY <2>1 DEF QuietStream
    <3>1. sock = "open" /\ typed = <<>> /\ Leftover(Stream)
      BY <2>1 DEF ShellInv, QuietStream
    <3> QED
      BY <2>1, <2>2, <3>1
  <2>5. ShellAnswers'
    BY <2>1 DEF ShellAnswers, OwnAnswer, FileExact, NoAnswer
  <2> QED
    BY <2>3, <2>4, <2>5
<1>8. CASE Close
  <2>1. shellPc' = "closed" /\ UNCHANGED <<request, echo, overdue, behind, answer>>
    BY <1>8 DEF Close
  <2> QED
    BY <2>1 DEF ShellInv, OwnStream, QuietStream, ShellAnswers, OwnAnswer, FileExact
<1>9. CASE DrainReads
  <2>1. /\ shellPc = "drain" /\ arrived' = <<>>
        /\ UNCHANGED <<shellPc, sock, request, shellBuf, typed, printing, echo, overdue, behind,
                       answer>>
    BY <1>9 DEF DrainReads, guestVars
  <2>2. Leftover(Stream) => Leftover(Stream')
    <3>1. Stream' = shellBuf \o printing
      BY <1>1, <2>1, ConcatEmptySeq DEF Stream
    <3>2. Len(arrived) \in Nat /\ Len(shellBuf) \in Nat /\ Len(printing) \in Nat
      BY <1>1
    <3> QED
      BY <1>1, <1>4, <3>1, <3>2, LeftoverParts
  <2>3. OwnStream'
    BY <2>1 DEF OwnStream
  <2>4. QuietStream'
    BY <2>1, <2>2 DEF ShellInv, QuietStream
  <2>5. ShellAnswers'
    BY <2>1 DEF ShellInv, ShellAnswers, OwnAnswer, FileExact
  <2> QED
    BY <2>3, <2>4, <2>5
<1>10. CASE DrainEnds
  <2>1. /\ shellPc = "drain" /\ arrived = <<>> /\ behind' = Busy /\ request' = request
        /\ shellPc' \in {"recv", "idle"}
        /\ UNCHANGED <<sock, shellBuf, arrived, printing, echo, overdue, answer>>
        /\ IF sock = "open" THEN typed' = Append(typed, request) /\ shellPc' = "recv"
                            ELSE typed' = typed
    BY <1>10 DEF DrainEnds, Sends
  <2>2. shellBuf = <<>> /\ answer = NoAnswer /\ Stream' = Stream
    BY <2>1 DEF ShellInv, ChannelTypes, Stream
  <2>3. OwnStream'
    <3> SUFFICES ASSUME ~Busy
                 PROVE  \/ typed' = <<request>> /\ Stream' = <<>>
                        \/ typed' = <<>> /\ RunStream(Stream', request, 0, IF echo THEN 1 ELSE 0)
      BY <2>1 DEF OwnStream
    <3>1. typed = <<>> /\ printing = <<>>
      BY DEF Busy
    <3>2. Stream' = <<>>
      BY <1>2, <2>1, <2>2, <3>1 DEF Stream
    <3>3. typed' = <<request>> \/ typed' = <<>>
      BY <2>1, <3>1
    <3> QED
      BY <3>2, <3>3, NothingLeft
  <2>4. QuietStream'
    <3> SUFFICES ASSUME overdue = 0, ~echo
                 PROVE  sock' = "open" /\ shellPc' = "recv" /\ typed' = <<request'>> /\ Leftover(Stream')
      BY <2>1 DEF QuietStream
    <3>1. sock = "open" /\ typed = <<>> /\ Leftover(Stream)
      BY <2>1 DEF ShellInv, QuietStream
    <3> QED
      BY <2>1, <2>2, <3>1
  <2>5. ShellAnswers'
    BY <2>1, <2>2 DEF ShellAnswers, OwnAnswer, FileExact, NoAnswer
  <2> QED
    BY <2>3, <2>4, <2>5
<1>11. CASE GivesUp
  <2>1. /\ shellPc' = "idle" /\ overdue' \in Nat /\ overdue' > 0 /\ answer'.what # "run"
    BY <1>1, <1>11 DEF GivesUp, FileAnswer, Failed, NoAnswer, ShellInv, ChannelTypes
  <2> QED
    BY <2>1 DEF OwnStream, QuietStream, ShellAnswers, OwnAnswer, FileExact
<1> QED
  BY <1>5, <1>6, <1>7, <1>8, <1>9, <1>10, <1>11

(* The guest's terminal and shell take a command line.                     *)
LEMMA ReadsLineKeeps ==
  ASSUME ShellInv, ReadsLine
  PROVE  (OwnStream /\ QuietStream /\ ShellAnswers)'
<1>1. /\ shellBuf \in Seq(Pieces) /\ arrived \in Seq(Pieces) /\ printing \in Seq(Pieces)
      /\ typed \in Seq(Requests) /\ request \in Requests
  BY DEF ShellInv, ChannelTypes
<1>2. /\ typed # <<>> /\ typed' = Tail(typed) /\ printing' = printing \o Prints(Head(typed))
      /\ UNCHANGED <<shellPc, sock, request, shellBuf, echo, overdue, behind, answer>>
      /\ ~echo => arrived' = arrived
      /\ Head(typed).what = "run" /\ echo =>
           arrived' = Append(arrived, Piece("echo", Head(typed).of))
  BY DEF ReadsLine
<1>3. typed = <<request>> => Head(typed) = request /\ typed' = <<>>
  BY <1>2
<1>4. ShellAnswers'
  BY <1>2 DEF ShellInv, ShellAnswers, OwnAnswer, FileExact
<1> DEFINE p == Prints(request)
<1>5. p \in Seq(Pieces) /\ Len(p) \in Nat
  BY <1>1, Printed
<1>6. OwnStream'
  <2> SUFFICES ASSUME shellPc = "recv", request.what = "run", ~behind
               PROVE  typed' = <<>> /\ RunStream(Stream', request, 0, IF echo THEN 1 ELSE 0)
    BY <1>2 DEF OwnStream
  <2>1. typed = <<request>> /\ Stream = <<>>
    BY <1>2 DEF ShellInv, OwnStream
  <2>2. shellBuf = <<>> /\ arrived = <<>> /\ printing = <<>>
    <3>1. shellBuf \o arrived \in Seq(Pieces)
      BY <1>1, ConcatProperties
    <3>2. shellBuf \o arrived = <<>> /\ printing = <<>>
      BY <1>1, <2>1, <3>1, ConcatEqualIffEmpty DEF Stream
    <3> QED
      BY <1>1, <3>2, ConcatEqualIffEmpty
  <2>3. /\ Len(p) \in 2..3 /\ p[1] = Output(request) /\ p[2] = Mark(request)
        /\ Len(p) = 3 => p[3] = Piece("digits", request.of)
        /\ Piece("echo", request.of) \in Pieces
    BY <1>1, Printed DEF Kinds
  <2>4. Head(typed) = request /\ typed' = <<>> /\ printing' = p
    <3>1. printing' = <<>> \o p
      BY <1>2, <1>3, <2>1, <2>2
    <3> QED
      BY <1>3, <1>5, <2>1, <3>1, ConcatEmptySeq
  <2>5. CASE ~echo
    <3>1. Stream' = p
      <4>1. Stream' = (<<>> \o <<>>) \o p
        BY <1>2, <2>2, <2>4, <2>5 DEF Stream
      <4> QED
        BY <1>5, <4>1, EmptySeq, ConcatEmptySeq
    <3>2. RunStream(p, request, 0, 0)
      <4> HIDE DEF p
      <4>1. ASSUME NEW i \in 1..Len(p)
            PROVE  i = 1 \/ i = 2 \/ (i = 3 /\ Len(p) = 3)
        <5>1. Len(p) \in 2..3 /\ i \in 1..Len(p)
          BY <2>3
        <5> DEFINE n == Len(p)
        <5> HIDE DEF n
        <5>2. n \in 2..3 /\ i \in 1..n
          BY <5>1 DEF n
        <5>3. i = 1 \/ i = 2 \/ (i = 3 /\ n = 3)
          BY <5>2
        <5> QED
          BY <5>3 DEF n
      <4>2. Piece("digits", request.of).kind = "digits"
        BY DEF Piece
      <4>3. ASSUME NEW i \in 1..Len(p)
            PROVE  /\ i = 0 + 0 + 1 => p[i] = Output(request)
                   /\ i = 0 + 0 + 2 => p[i] = Mark(request)
                   /\ i > 0 + 0 + 2 => i = 0 + 0 + 3 /\ p[i].kind = "digits"
        BY <2>3, <4>1, <4>2
      <4> QED
        BY <4>3 DEF RunStream
    <3> QED
      BY <2>4, <2>5, <3>1, <3>2
  <2>6. CASE echo
    <3> DEFINE q == <<Piece("echo", request.of)>>
    <3>1. Stream' = q \o p
      <4>1. arrived' = q
        BY <1>2, <2>2, <2>4, <2>6
      <4>2. Stream' = (<<>> \o q) \o p
        BY <1>2, <2>2, <2>4, <4>1 DEF Stream
      <4>3. q \in Seq(Pieces)
        BY <2>3
      <4> QED
        BY <1>5, <4>2, <4>3, ConcatEmptySeq
    <3>2. q \in Seq(Pieces) /\ Len(q) = 1 /\ q[1] = Piece("echo", request.of)
      BY <2>3
    <3> HIDE DEF p, q
    <3>3. /\ Len(q \o p) = Len(q) + Len(p)
          /\ \A i \in 1..Len(q) : (q \o p)[i] = q[i]
          /\ \A i \in 1..Len(p) : (q \o p)[Len(q) + i] = p[i]
      <4>1. q \in Seq(Pieces) /\ p \in Seq(Pieces)
        BY <1>5, <3>2
      <4> QED
        BY <4>1, TwoParts
    <3>4. /\ (q \o p)[1] = Piece("echo", request.of) /\ (q \o p)[2] = Output(request)
          /\ (q \o p)[3] = Mark(request) /\ Len(q \o p) \in 3..4
          /\ Len(q \o p) = 4 => (q \o p)[4] = Piece("digits", request.of)
      <4>1. Len(q) + 1 = 2 /\ Len(q) + 2 = 3 /\ Len(q) + 3 = 4 /\ 1 \in 1..Len(q)
            /\ 1 \in 1..Len(p) /\ 2 \in 1..Len(p) /\ (Len(p) = 3 => 3 \in 1..Len(p))
        BY <2>3, <3>2
      <4>2. (q \o p)[1] = q[1] /\ (q \o p)[2] = p[1] /\ (q \o p)[3] = p[2]
            /\ (Len(p) = 3 => (q \o p)[4] = p[3])
        BY <3>3, <4>1
      <4>3. Len(q \o p) \in 3..4 /\ (Len(q \o p) = 4 => Len(p) = 3)
        <5>1. Len(p) \in 2..3 /\ Len(q \o p) = 1 + Len(p)
          BY <2>3, <3>2, <3>3
        <5> DEFINE n == Len(p)
                   l == Len(q \o p)
        <5> HIDE DEF n, l
        <5>2. n \in 2..3 /\ l = 1 + n
          BY <5>1 DEF n, l
        <5>3. l \in 3..4 /\ (l = 4 => n = 3)
          BY <5>2
        <5> QED
          BY <5>3 DEF n, l
      <4> QED
        BY <2>3, <3>2, <4>2, <4>3
    <3>5. RunStream(q \o p, request, 0, 1)
      BY <3>4 DEF RunStream, Piece
    <3> QED
      BY <2>4, <2>6, <3>1, <3>5
  <2> QED
    BY <2>5, <2>6
<1>7. QuietStream'
  <2> SUFFICES ASSUME overdue = 0, ~echo, shellPc # "closed"
               PROVE  /\ sock = "open" /\ shellPc = "recv" /\ typed' = <<>>
                      /\ Replied(Stream', request)
    BY <1>2 DEF QuietStream
  <2>1. sock = "open" /\ shellPc = "recv" /\ typed = <<request>> /\ Leftover(Stream)
    BY <1>2 DEF ShellInv, QuietStream, ChannelTypes
  <2> DEFINE s == Stream
  <2>2. Stream' = s \o p /\ s \in Seq(Pieces)
    <3> DEFINE c == shellBuf \o arrived
    <3>1. c \in Seq(Pieces)
      BY <1>1, ConcatProperties
    <3>2. Stream = c \o printing /\ Stream' = c \o (printing \o p)
      BY <1>2, <1>3, <2>1 DEF Stream
    <3> HIDE DEF c, p
    <3>3. c \in Seq(Pieces) /\ printing \in Seq(Pieces) /\ p \in Seq(Pieces)
      BY <1>1, <1>5, <3>1
    <3>4. (c \o printing) \o p = c \o (printing \o p)
      BY <3>3, InRow
    <3>5. c \o printing \in Seq(Pieces)
      BY <3>3, ConcatProperties
    <3> QED
      BY <3>2, <3>4, <3>5
  <2> DEFINE t == s \o p
             d == Len(s)
  <2>3. d \in 0..1 /\ \A i \in 1..d : s[i].kind = "digits"
    BY <2>1, <2>2 DEF Leftover
  <2> HIDE DEF p, s
  <2>4. /\ Len(t) = d + Len(p) /\ \A i \in 1..d : t[i] = s[i]
        /\ \A i \in 1..Len(p) : t[d + i] = p[i]
    BY <1>5, <2>2, TwoParts
  <2>5. \A i \in 1..d : t[i].kind = "digits"
    BY <2>3, <2>4
  <2> HIDE DEF t, d
  <2>6. request.what = "login" => Len(t) = d + 1 /\ t[d + 1].kind = "ready"
    <3> SUFFICES ASSUME request.what = "login" PROVE Len(t) = d + 1 /\ t[d + 1].kind = "ready"
      OBVIOUS
    <3>1. Len(p) = 1 /\ p[1] = Piece("ready", request.of)
      BY <1>1, Printed DEF p
    <3> QED
      BY <2>4, <3>1 DEF Piece
  <2>7. request.what = "file" =>
         /\ Len(t) = d + 4 /\ t[d + 1] = Piece("begin", request.of)
         /\ t[d + 2] = Piece("part", request.of) /\ t[d + 3] = Piece("last", request.of)
         /\ t[d + 4] = Piece("end", request.of)
    <3> SUFFICES ASSUME request.what = "file"
                 PROVE  /\ Len(t) = d + 4 /\ t[d + 1] = Piece("begin", request.of)
                        /\ t[d + 2] = Piece("part", request.of) /\ t[d + 3] = Piece("last", request.of)
                        /\ t[d + 4] = Piece("end", request.of)
      OBVIOUS
    <3>1. /\ Len(p) = 4 /\ p[1] = Piece("begin", request.of)
          /\ p[2] = Piece("part", request.of) /\ p[3] = Piece("last", request.of)
          /\ p[4] = Piece("end", request.of)
      BY <1>1, Printed DEF p
    <3>2. 1 \in 1..Len(p) /\ 2 \in 1..Len(p) /\ 3 \in 1..Len(p) /\ 4 \in 1..Len(p)
      BY <3>1
    <3> QED
      BY <2>4, <3>1, <3>2
  <2>8. request.what = "run" => RunStream(t, request, d, 0) /\ Len(t) >= d + 2
    <3> SUFFICES ASSUME request.what = "run" PROVE RunStream(t, request, d, 0) /\ Len(t) >= d + 2
      OBVIOUS
    <3>1. /\ Len(p) \in 2..3 /\ p[1] = Output(request) /\ p[2] = Mark(request)
          /\ Len(p) = 3 => p[3] = Piece("digits", request.of)
      BY <1>1, Printed DEF p
    <3>2. /\ t[d + 1] = Output(request) /\ t[d + 2] = Mark(request)
          /\ Len(t) \in (d + 2)..(d + 3)
          /\ Len(t) = d + 3 => t[d + 3] = Piece("digits", request.of)
      <4>1. 1 \in 1..Len(p) /\ 2 \in 1..Len(p) /\ (Len(p) = 3 => 3 \in 1..Len(p))
        BY <3>1
      <4>2. t[d + 1] = p[1] /\ t[d + 2] = p[2] /\ (Len(p) = 3 => t[d + 3] = p[3])
        BY <2>4, <4>1
      <4>3. Len(t) \in (d + 2)..(d + 3) /\ (Len(t) = d + 3 => Len(p) = 3)
        BY <2>3, <2>4, <3>1
      <4> QED
        BY <3>1, <4>2, <4>3
    <3> QED
      BY <2>3, <2>5, <3>2 DEF RunStream, Piece
  <2>9. Replied(t, request)
    BY <2>3, <2>5, <2>6, <2>7, <2>8 DEF Replied
  <2> QED
    BY <1>3, <2>1, <2>2, <2>9 DEF t
<1> QED
  BY <1>4, <1>6, <1>7

LEMMA PiecesInRow ==
  \A x \in Seq(Pieces) : \A y \in Seq(Pieces) : \A z \in Seq(Pieces) :
    (x \o y) \o z = x \o (y \o z)
  BY InRow

(* What is behind the first k pieces.                                      *)
LEMMA RestOfStream ==
  ASSUME NEW b \in Seq(Pieces), NEW a \in Seq(Pieces), NEW p \in Seq(Pieces),
         NEW k \in 1..Len(b)
  PROVE  LET t == (SubSeq(b, k + 1, Len(b)) \o a) \o p
         IN  /\ t \in Seq(Pieces) /\ Len(t) = Len((b \o a) \o p) - k
             /\ \A i \in 1..Len(t) : t[i] = ((b \o a) \o p)[k + i]
<1> DEFINE f == SubSeq(b, 1, k)
           r == SubSeq(b, k + 1, Len(b))
           u == (r \o a) \o p
<1>1. Len(b) \in Nat /\ k \in Nat
  BY LenProperties
<1>2. f \in Seq(Pieces) /\ Len(f) = k
  <2>1. 1 \in Int /\ k \in Int /\ \A i \in 1..k : b[i] \in Pieces
    BY <1>1, ElementOfSeq
  <2>2. SubSeq(b, 1, k) \in Seq(Pieces) /\ Len(SubSeq(b, 1, k)) = IF 1 <= k THEN k - 1 + 1 ELSE 0
    BY <2>1, SubSeqProperties
  <2> QED
    BY <1>1, <2>2
<1>3. r \in Seq(Pieces)
  <2>1. k + 1 \in Int /\ Len(b) \in Int /\ \A i \in (k + 1)..Len(b) : b[i] \in Pieces
    BY <1>1, ElementOfSeq
  <2> QED
    BY <2>1, SubSeqProperties
<1>4. f \o r = b
  <2>1. 1 \in 1..Len(b) + 1 /\ k \in (1 - 1)..Len(b) /\ Len(b) \in k..Len(b)
    BY <1>1
  <2>2. SubSeq(b, 1, k) \o SubSeq(b, k + 1, Len(b)) = SubSeq(b, 1, Len(b))
    BY <2>1, ConcatAdjacentSubSeq
  <2> QED
    BY <2>2, SubSeqFull
<1> HIDE DEF f, r
<1>5. f \in Seq(Pieces) /\ r \in Seq(Pieces)
  BY <1>2, <1>3
<1>6. r \o a \in Seq(Pieces)
  BY <1>5, ConcatProperties
<1>7. u \in Seq(Pieces)
  <2> DEFINE v == r \o a
  <2>1. v \in Seq(Pieces)
    BY <1>6
  <2> HIDE DEF v
  <2>2. v \o p \in Seq(Pieces)
    BY <2>1, ConcatProperties
  <2> QED
    BY <2>2 DEF v
<1>8. (b \o a) \o p = f \o u
  <2>1. (f \o r) \o a = f \o (r \o a)
    <3>1. \A y \in Seq(Pieces) : \A z \in Seq(Pieces) : (f \o y) \o z = f \o (y \o z)
      BY <1>5, PiecesInRow, Zenon
    <3>2. \A z \in Seq(Pieces) : (f \o r) \o z = f \o (r \o z)
      BY <1>5, <3>1, Zenon
    <3>3. a \in Seq(Pieces)
      OBVIOUS
    <3> QED
      BY <3>2, <3>3, Zenon
  <2> DEFINE v == r \o a
  <2>2. v \in Seq(Pieces)
    BY <1>6
  <2> HIDE DEF v
  <2>3. (f \o v) \o p = f \o (v \o p)
    <3>1. \A y \in Seq(Pieces) : \A z \in Seq(Pieces) : (f \o y) \o z = f \o (y \o z)
      BY <1>5, PiecesInRow, Zenon
    <3>2. \A z \in Seq(Pieces) : (f \o v) \o z = f \o (v \o z)
      BY <2>2, <3>1, Zenon
    <3>3. p \in Seq(Pieces)
      OBVIOUS
    <3> QED
      BY <3>2, <3>3, Zenon
  <2> QED
    BY <1>4, <2>1, <2>3 DEF v
<1> HIDE DEF u
<1>9. /\ Len(f \o u) = Len(f) + Len(u) /\ Len(u) \in Nat
      /\ \A i \in 1..Len(u) : (f \o u)[Len(f) + i] = u[i]
  BY <1>5, <1>7, TwoParts
<1>10. Len(u) = Len(f \o u) - k /\ \A i \in 1..Len(u) : u[i] = (f \o u)[k + i]
  BY <1>1, <1>2, <1>9
<1> QED
  BY <1>7, <1>8, <1>10 DEF u, r

(* What get_file() decodes when the whole frame has come.                  *)
LEMMA WholeFile ==
  ASSUME NEW text \in Seq(Pieces), NEW d \in 0..1, NEW n, Len(text) = d + 4,
         \A i \in 1..d : text[i].kind = "digits",
         text[d + 1] = Piece("begin", n), text[d + 2] = Piece("part", n),
         text[d + 3] = Piece("last", n), text[d + 4] = Piece("end", n)
  PROVE  /\ KindsAt(text, {"begin", "fileecho"}) # {}
         /\ FileLines(text) = <<Piece("part", n), Piece("last", n)>>
<1> DEFINE begins == KindsAt(text, {"begin", "fileecho"})
           x == Piece("part", n)
           y == Piece("last", n)
           l == Len(text)
<1>1. /\ text[d + 1].kind = "begin" /\ text[d + 2].kind = "part" /\ text[d + 3].kind = "last"
      /\ text[d + 4].kind = "end" /\ x.kind = "part" /\ y.kind = "last"
      /\ text[d + 2] = x /\ text[d + 3] = y
  BY DEF Piece
<1>2. DOMAIN text = 1..l /\ l = d + 4
  BY LenProperties
<1> HIDE DEF x, y, l
<1>3. begins = {d + 1}
  <2>1. ASSUME NEW i \in 1..l
        PROVE  i \in 1..d \/ i = d + 1 \/ i = d + 2 \/ i = d + 3 \/ i = d + 4
    BY <1>2
  <2>2. ASSUME NEW i \in 1..l
        PROVE  text[i].kind \in {"begin", "fileecho"} <=> i = d + 1
    <3>1. CASE i \in 1..d
      <4>1. text[i].kind = "digits" /\ i # d + 1
        BY <3>1
      <4> QED
        BY <4>1
    <3> QED
      BY <1>1, <2>1, <3>1
  <2>3. d + 1 \in 1..l
    BY <1>2
  <2> QED
    BY <1>2, <2>2, <2>3 DEF KindsAt
<1> HIDE DEF begins
<1> DEFINE b == CHOOSE i \in begins : \A j \in begins : i <= j
<1>4. b = d + 1
  <2>1. d + 1 \in begins /\ \A j \in begins : d + 1 <= j
    BY <1>3
  <2>2. b \in begins
    BY <2>1
  <2> QED
    BY <1>3, <2>2
<1> HIDE DEF b
<1> DEFINE Ended(s) == s # <<>> /\ s[Len(s)].kind = "last"
           F(f) == [i \in 0..l |->
             IF i <= b THEN <<>>
             ELSE IF text[i].kind \in {"part", "last"} /\ ~Ended(f[i - 1])
               THEN Append(f[i - 1], text[i]) ELSE f[i - 1]]
           w == [i \in 0..l |-> IF i <= d + 1 THEN <<>> ELSE IF i = d + 2 THEN <<x>> ELSE <<x, y>>]
           g == CHOOSE f : f = F(f)
<1>5. /\ ~Ended(<<>>) /\ ~Ended(<<x>>) /\ Ended(<<x, y>>)
      /\ Append(<<>>, x) = <<x>> /\ Append(<<x>>, y) = <<x, y>>
  <2>1. x.kind # "last" /\ y.kind = "last"
    BY <1>1
  <2>2. Len(<<x>>) = 1 /\ <<x>>[1] = x /\ Len(<<x, y>>) = 2 /\ <<x, y>>[2] = y /\ <<x, y>> # <<>>
    OBVIOUS
  <2>3. Append(<<>>, x) = <<x>>
    OBVIOUS
  <2>4. Append(<<x>>, y) = <<x, y>>
    <3>1. <<x>> \in Seq({x, y}) /\ <<x, y>> \in Seq({x, y}) /\ x \in {x, y} /\ y \in {x, y}
      OBVIOUS
    <3>2. /\ Append(<<x>>, y) \in Seq({x, y}) /\ Len(Append(<<x>>, y)) = Len(<<x>>) + 1
          /\ \A i \in 1..Len(<<x>>) : Append(<<x>>, y)[i] = <<x>>[i]
          /\ Append(<<x>>, y)[Len(<<x>>) + 1] = y
      BY <3>1, AppendProperties
    <3>3. \A i \in 1..2 : Append(<<x>>, y)[i] = <<x, y>>[i]
      BY <3>2, <2>2
    <3> QED
      <4>1. Append(<<x>>, y) \in Seq({x, y}) /\ <<x, y>> \in Seq({x, y})
        BY <3>1, <3>2
      <4>2. Len(Append(<<x>>, y)) = 2 /\ Len(<<x, y>>) = 2
        BY <2>2, <3>2
      <4>3. Len(Append(<<x>>, y)) = Len(<<x, y>>)
            /\ \A i \in 1..Len(Append(<<x>>, y)) : Append(<<x>>, y)[i] = <<x, y>>[i]
        BY <3>3, <4>2
      <4> HIDE DEF x, y
      <4> QED
        BY <4>1, <4>3, SeqEqual, Zenon
  <2>5. ~Ended(<<>>) /\ ~Ended(<<x>>) /\ Ended(<<x, y>>)
    BY <2>1, <2>2
  <2> QED
    BY <2>3, <2>4, <2>5
<1> HIDE DEF Ended
<1>6. ASSUME NEW f, \A i \in 0..(d + 1) : f[i] = <<>>, f[d + 2] = <<x>>, f[d + 3] = <<x, y>>,
             f[d + 4] = <<x, y>>
      PROVE  \A i \in 0..l : F(f)[i] = w[i]
  <2> SUFFICES ASSUME NEW i \in 0..l PROVE F(f)[i] = w[i]
    OBVIOUS
  <2>1. i \in 0..(d + 1) \/ i = d + 2 \/ i = d + 3 \/ i = d + 4
    BY <1>2
  <2>2. CASE i \in 0..(d + 1)
    BY <1>4, <2>2
  <2>3. CASE i = d + 2
    <3>1. i - 1 \in 0..(d + 1) /\ ~(i <= b) /\ ~(i <= d + 1)
      BY <1>4, <2>3
    <3> QED
      BY <1>1, <1>5, <1>6, <2>3, <3>1
  <2>4. CASE i = d + 3
    <3>1. i - 1 = d + 2 /\ ~(i <= b) /\ ~(i <= d + 1) /\ i # d + 2
      BY <1>4, <2>4
    <3> QED
      BY <1>1, <1>5, <1>6, <2>4, <3>1
  <2>5. CASE i = d + 4
    <3>1. i - 1 = d + 3 /\ ~(i <= b) /\ ~(i <= d + 1) /\ i # d + 2
      BY <1>4, <2>5
    <3> QED
      BY <1>1, <1>5, <1>6, <2>5, <3>1
  <2> QED
    BY <2>1, <2>2, <2>3, <2>4, <2>5
<1>7. w = F(w)
  <2>1. /\ \A i \in 0..(d + 1) : w[i] = <<>>
        /\ w[d + 2] = <<x>> /\ w[d + 3] = <<x, y>> /\ w[d + 4] = <<x, y>>
    BY <1>2
  <2>2. \A i \in 0..l : F(w)[i] = w[i]
    BY <1>6, <2>1
  <2> QED
    BY <2>2
<1>8. g = F(g)
  <2> HIDE DEF F, w
  <2> QED
    BY <1>7
<1>9. FileLines(text) = IF text[b].kind = "fileecho" THEN <<>> ELSE g[Len(text)]
  BY DEF FileLines, F, g, Ended, b, begins, l
<1> HIDE DEF g
<1>10. \A i \in 0..l :
         g[i] = IF i <= b THEN <<>>
                ELSE IF text[i].kind \in {"part", "last"} /\ ~Ended(g[i - 1])
                  THEN Append(g[i - 1], text[i]) ELSE g[i - 1]
  <2>1. \A i \in 0..l : g[i] = F(g)[i]
    <3> HIDE DEF F
    <3> QED
      BY <1>8
  <2> QED
    BY <2>1
<1> HIDE DEF F
<1>11. g[d + 1] = <<>>
  <2>1. d + 1 \in 0..l /\ d + 1 <= b
    BY <1>2, <1>4
  <2> QED
    BY <1>10, <2>1
<1>12. g[d + 2] = <<x>>
  <2>1. d + 2 \in 0..l /\ ~(d + 2 <= b) /\ (d + 2) - 1 = d + 1
    BY <1>2, <1>4
  <2>2. text[d + 2] = x /\ x.kind \in {"part", "last"} /\ ~Ended(g[d + 1])
    BY <1>1, <1>5, <1>11
  <2>3. g[d + 2] = Append(g[d + 1], text[d + 2])
    BY <1>10, <2>1, <2>2
  <2> QED
    BY <1>5, <1>11, <2>2, <2>3
<1>13. g[d + 3] = <<x, y>>
  <2>1. d + 3 \in 0..l /\ ~(d + 3 <= b) /\ (d + 3) - 1 = d + 2
    BY <1>2, <1>4
  <2>2. text[d + 3] = y /\ y.kind \in {"part", "last"} /\ ~Ended(g[d + 2])
    BY <1>1, <1>5, <1>12
  <2>3. g[d + 3] = Append(g[d + 2], text[d + 3])
    BY <1>10, <2>1, <2>2
  <2> QED
    BY <1>5, <1>12, <2>2, <2>3
<1>14. g[d + 4] = <<x, y>>
  <2>1. d + 4 \in 0..l /\ ~(d + 4 <= b) /\ (d + 4) - 1 = d + 3
    BY <1>2, <1>4
  <2>2. text[d + 4].kind \notin {"part", "last"}
    BY <1>1
  <2>3. g[d + 4] = g[d + 3]
    BY <1>10, <2>1, <2>2
  <2> QED
    BY <1>13, <2>3
<1> QED
  BY <1>1, <1>2, <1>3, <1>4, <1>9, <1>14 DEF x, y, begins, l

LEMMA OneOnly ==
  ASSUME NEW S, NEW q \in Seq(S), Len(q) = 1
  PROVE  q = <<q[1]>>
<1>1. q[1] \in S
  BY ElementOfSeq
<1>2. <<q[1]>> \in Seq(S) /\ Len(<<q[1]>>) = 1 /\ <<q[1]>>[1] = q[1]
  BY <1>1
<1> QED
  BY <1>2, SeqEqual

(* The only mark of such a stream, and all that is behind it.              *)
LEMMA MarkPlace ==
  ASSUME NEW s, Len(s) \in Nat, NEW r \in Requests, NEW d \in 0..1, NEW e \in 0..1,
         RunStream(s, r, d, e), NEW m \in 1..Len(s),
         s[m].kind \in {"mark", "first"}
  PROVE  /\ m = d + e + 2 /\ s[m] = Mark(r) /\ Len(s) <= m + 1
         /\ \A i \in (m + 1)..Len(s) : s[i].kind = "digits"
<1>2. Piece("echo", r.of).kind = "echo" /\ Output(r).kind \in {"out", "named"}
  BY DEF Output, Piece
<1>3. ~(m <= d) /\ ~(d < m /\ m <= d + e) /\ m # d + e + 1 /\ ~(m > d + e + 2)
  BY <1>2 DEF RunStream
<1>4. m = d + e + 2
  BY <1>3
<1>5. s[m] = Mark(r)
  BY <1>4 DEF RunStream
<1>6. ASSUME NEW i \in (m + 1)..Len(s)
      PROVE  i = d + e + 3 /\ s[i].kind = "digits"
  <2>1. i \in 1..Len(s) /\ i > d + e + 2
    BY <1>4
  <2> QED
    BY <2>1 DEF RunStream
<1>7. Len(s) <= m + 1
  <2>1. CASE Len(s) >= m + 1
    <3>1. Len(s) \in (m + 1)..Len(s)
      BY <2>1
    <3> QED
      BY <1>4, <1>6, <3>1
  <2> QED
    BY <2>1
<1> QED
  BY <1>4, <1>5, <1>6, <1>7

(* The answer is there.                                                    *)
LEMMA FoundKeeps ==
  ASSUME ShellInv, Found
  PROVE  (OwnStream /\ QuietStream /\ ShellAnswers)'
<1> DEFINE b == shellBuf
           s == Stream
           m == First
           k == MatchEnd
<1>1. /\ b \in Seq(Pieces) /\ arrived \in Seq(Pieces) /\ printing \in Seq(Pieces)
      /\ request \in Requests /\ Matched /\ ChannelTypes
      /\ shellPc = "recv" /\ shellPc' = "idle" /\ b' = SubSeq(b, k + 1, Len(b))
      /\ UNCHANGED <<sock, request, arrived, typed, printing, echo, overdue, behind>>
  BY DEF ShellInv, ChannelTypes, Found, guestVars
<1>2. /\ m \in 1..Len(b) /\ b[m].kind \in Endings(request) /\ k \in 1..Len(b) /\ m <= k
      /\ \A j \in 1..Len(b) : b[j].kind \in Endings(request) => m <= j
  BY <1>1, FirstMatch
<1>3. /\ Len(b) \in Nat /\ Len(s) \in Nat /\ Len(b) <= Len(s)
      /\ \A i \in 1..Len(b) : s[i] = b[i]
  <2>1. shellBuf \in Seq(Pieces) /\ arrived \in Seq(Pieces) /\ printing \in Seq(Pieces)
    BY <1>1
  <2>2. /\ Len(shellBuf) \in Nat /\ Len(arrived) \in Nat /\ Len(printing) \in Nat
        /\ Len(Stream) = Len(shellBuf) + Len(arrived) + Len(printing)
        /\ \A i \in 1..Len(shellBuf) : Stream[i] = shellBuf[i]
    BY <2>1, StreamFacts DEF Stream
  <2> QED
    BY <2>2
<1>4. /\ Len(Stream') = Len(s) - k
      /\ \A i \in 1..Len(Stream') : Stream'[i] = s[k + i]
  <2> DEFINE t == (SubSeq(b, k + 1, Len(b)) \o arrived) \o printing
  <2>1. Len(t) = Len(s) - k /\ \A i \in 1..Len(t) : t[i] = s[k + i]
    <3>1. /\ b \in Seq(Pieces) /\ arrived \in Seq(Pieces) /\ printing \in Seq(Pieces)
          /\ k \in 1..Len(b)
      BY <1>1, <1>2
    <3>2. s = (b \o arrived) \o printing
      BY DEF Stream
    <3> HIDE DEF b, k, s
    <3>3. /\ Len(t) = Len((b \o arrived) \o printing) - k
          /\ \A i \in 1..Len(t) : t[i] = ((b \o arrived) \o printing)[k + i]
      BY <3>1, RestOfStream
    <3> QED
      BY <3>2, <3>3
  <2>2. Stream' = t
    BY <1>1 DEF Stream
  <2> QED
    BY <2>1, <2>2
<1> HIDE DEF b, s, m, k
<1>5. m \in 1..Len(s) /\ s[m].kind \in Endings(request) /\ s[m] = b[m] /\ k \in m..Len(s)
  BY <1>2, <1>3
<1>6. overdue = 0 /\ ~echo => sock = "open" /\ typed = <<>> /\ Replied(s, request)
  <2> SUFFICES ASSUME overdue = 0, ~echo
               PROVE  sock = "open" /\ typed = <<>> /\ Replied(s, request)
    OBVIOUS
  <2>1. ~Leftover(s)
    BY <1>5 DEF Leftover, Endings
  <2> QED
    BY <1>1, <2>1 DEF ShellInv, QuietStream, s
<1>7. ASSUME NEW d \in 0..1, NEW e \in 0..1, RunStream(s, request, d, e), request.what = "run"
      PROVE  /\ m = d + e + 2 /\ s[m] = Mark(request) /\ Len(s) <= m + 1
             /\ \A i \in (m + 1)..Len(s) : s[i].kind = "digits"
  <2>1. s[m].kind \in {"mark", "first"}
    BY <1>5, <1>7 DEF Endings
  <2> QED
    BY <1>1, <1>3, <1>5, <1>7, <2>1, MarkPlace
<1>8. ASSUME NEW d \in 0..1, request.what = "file", Len(s) = d + 4, s[d + 1] = Piece("begin", request.of),
             s[d + 2] = Piece("part", request.of), s[d + 3] = Piece("last", request.of),
             s[d + 4] = Piece("end", request.of), \A i \in 1..d : s[i].kind = "digits"
      PROVE  m = d + 4
  <2>1. s[m].kind \in {"end", "fileecho"}
    BY <1>5, <1>8 DEF Endings
  <2>2. ~(m <= d) /\ m # d + 1 /\ m # d + 2 /\ m # d + 3
    <3>1. ~(m <= d)
      BY <1>5, <1>8, <2>1
    <3>2. m # d + 1 /\ m # d + 2 /\ m # d + 3
      BY <1>8, <2>1 DEF Piece
    <3> QED
      BY <3>1, <3>2
  <2> QED
    BY <1>5, <1>8, <2>2
<1>9. OwnStream'
  BY <1>1 DEF OwnStream
<1>10. QuietStream'
  <2> SUFFICES ASSUME overdue = 0, ~echo
               PROVE  sock = "open" /\ typed = <<>> /\ Leftover(Stream')
    BY <1>1 DEF QuietStream
  <2>1. PICK d \in 0..1 :
          /\ request.what = "login" => Len(s) = d + 1 /\ s[d + 1].kind = "ready"
          /\ request.what = "run" => RunStream(s, request, d, 0) /\ Len(s) >= d + 2
          /\ request.what = "file" =>
               /\ Len(s) = d + 4 /\ s[d + 1] = Piece("begin", request.of)
               /\ s[d + 2] = Piece("part", request.of) /\ s[d + 3] = Piece("last", request.of)
               /\ s[d + 4] = Piece("end", request.of)
          /\ \A i \in 1..d : s[i].kind = "digits"
    BY <1>6 DEF Replied
  <2>2. Len(s) <= m + 1 /\ \A i \in (m + 1)..Len(s) : s[i].kind = "digits"
    <3>1. CASE request.what = "login"
      <4>1. s[m].kind = "ready"
        BY <1>5, <3>1 DEF Endings
      <4>2. ~(m <= d)
        BY <1>5, <2>1, <4>1
      <4>3. m = Len(s)
        BY <1>5, <2>1, <3>1, <4>2
      <4> QED
        BY <1>3, <4>3
    <3>2. CASE request.what = "run"
      BY <1>7, <2>1, <3>2
    <3>3. CASE request.what = "file"
      <4>1. m = d + 4 /\ Len(s) = d + 4
        BY <1>8, <2>1, <3>3
      <4> QED
        BY <4>1
    <3> QED
      BY <1>1, <3>1, <3>2, <3>3 DEF Requests
  <2>3. Len(Stream') <= 1
    BY <1>3, <1>4, <1>5, <2>2
  <2>4. ASSUME NEW i \in 1..Len(Stream')
        PROVE  Stream'[i].kind = "digits"
    <3>1. k + i \in (m + 1)..Len(s)
      BY <1>3, <1>4, <1>5
    <3> QED
      BY <1>4, <2>2, <3>1
  <2> QED
    BY <1>6, <2>3, <2>4 DEF Leftover
<1>11. OwnAnswer'
  <2> SUFFICES ASSUME answer'.what = "run", ~behind
               PROVE  /\ answer'.of = request.of
                      /\ answer'.rc = request.of \/ (request.wide /\ answer'.rc = CutStatus)
                      /\ answer'.got = IF request.names /\ ~echo THEN <<>> ELSE <<Output(request)>>
    BY <1>1 DEF OwnAnswer
  <2>1. PICK body \in Bodies(SubSeq(b, 1, m - 1)) :
          /\ request.what = "run"
          /\ answer' = [what |-> "run", of |-> request.of, rc |-> ExitCode, got |-> body]
    BY <1>1 DEF Found, NoAnswer, FileAnswer, Failed, Requests, b, m
  <2> DEFINE e == IF echo THEN 1 ELSE 0
  <2>2. e \in 0..1 /\ RunStream(s, request, 0, e)
    <3>1. s # <<>>
      BY <1>3, <1>5
    <3> QED
      BY <1>1, <2>1, <3>1 DEF ShellInv, OwnStream, s
  <2>3. (e = 1 <=> echo) /\ (e = 0 <=> ~echo)
    OBVIOUS
  <2> HIDE DEF e
  <2>4. m = e + 2 /\ s[m] = Mark(request)
    BY <1>7, <2>1, <2>2
  <2>5. ExitCode = request.of \/ (request.wide /\ ExitCode = CutStatus)
    <3>1. shellBuf[First] = Mark(request)
      BY <1>5, <2>4 DEF b, m
    <3> QED
      BY <3>1 DEF ExitCode, Mark, Piece
  <2> DEFINE q == SubSeq(b, 1, m - 1)
             x == Output(request)
             y == Piece("echo", request.of)
  <2>6. q \in Seq(Pieces) /\ Len(q) = e + 1 /\ \A i \in 1..(e + 1) : q[i] = s[i]
    <3>1. 1 \in Int /\ m - 1 \in Int /\ 1 <= m - 1 /\ m - 1 = e + 1 /\ \A i \in 1..(m - 1) : i \in 1..Len(b)
      BY <1>2, <1>3, <2>2, <2>4
    <3>2. \A i \in 1..(m - 1) : b[i] \in Pieces
      BY <1>1, <3>1, ElementOfSeq
    <3>3. /\ SubSeq(b, 1, m - 1) \in Seq(Pieces)
          /\ Len(SubSeq(b, 1, m - 1)) = IF 1 <= m - 1 THEN (m - 1) - 1 + 1 ELSE 0
          /\ \A i \in 1..((m - 1) - 1 + 1) : SubSeq(b, 1, m - 1)[i] = b[1 + i - 1]
      BY <3>1, <3>2, SubSeqProperties
    <3>4. ASSUME NEW i \in 1..(e + 1)
          PROVE  q[i] = s[i]
      <4>1. i \in 1..((m - 1) - 1 + 1) /\ 1 + i - 1 = i /\ i \in 1..Len(b)
        BY <3>1
      <4> QED
        BY <1>3, <3>3, <4>1
    <3>5. (m - 1) - 1 + 1 = e + 1
      BY <2>2, <2>4
    <3> QED
      BY <3>1, <3>3, <3>4, <3>5
  <2>7. s[e + 1] = x /\ (e = 1 => s[1] = y)
    <3>1. 1 \in 1..Len(s) /\ e + 1 \in 1..Len(s)
      BY <1>3, <1>5, <2>2, <2>4
    <3> QED
      BY <2>2, <3>1 DEF RunStream
  <2>8. /\ x # y /\ (request.names => x = Piece("named", request.of) /\ x # Piece("out", request.of))
        /\ (~request.names => x = Piece("out", request.of)) /\ y # Piece("out", request.of)
    BY DEF Output, Piece
  <2> HIDE DEF q
  <2>9. Bodies(q) = {IF request.names /\ ~echo THEN <<>> ELSE <<x>>}
    <3> HIDE DEF x
    <3>1. q # <<>> /\ Head(q) = q[1]
      BY <2>2, <2>6
    <3>2. CASE e = 0
      <4>1. Len(q) = 1 /\ q[1] = x
        BY <2>6, <2>7, <3>2
      <4>2. q = <<x>>
        BY <2>6, <4>1, OneOnly
      <4>3. CASE request.names
        <5>1. Bodies(q) = {Tail(q)} /\ Tail(q) = <<>>
          BY <2>8, <3>1, <4>1, <4>2, <4>3 DEF Bodies
        <5> QED
          BY <2>3, <3>2, <4>3, <5>1
      <4>4. CASE ~request.names
        <5>1. Bodies(q) = {q}
          BY <2>8, <3>1, <4>1, <4>4 DEF Bodies
        <5> QED
          BY <4>2, <4>4, <5>1
      <4> QED
        BY <4>3, <4>4
    <3>3. CASE e = 1
      <4>1. Len(q) = 2 /\ q[1] = y /\ q[2] = x
        BY <2>6, <2>7, <3>3
      <4>2. /\ Tail(q) \in Seq(Pieces) /\ Len(Tail(q)) = Len(q) - 1
            /\ \A i \in 1..Len(Tail(q)) : Tail(q)[i] = q[i + 1]
        BY <2>6, <3>1, HeadTailProperties
      <4>3. Len(Tail(q)) = 1 /\ Tail(q)[1] = x
        <5>1. Len(Tail(q)) = 1
          BY <4>1, <4>2
        <5>2. 1 \in 1..Len(Tail(q)) /\ 1 + 1 = 2
          BY <5>1
        <5>3. Tail(q)[1] = q[1 + 1]
          BY <4>2, <5>2
        <5> QED
          BY <4>1, <5>1, <5>2, <5>3
      <4>4. Tail(q) = <<x>>
        BY <4>2, <4>3, OneOnly
      <4>5. Bodies(q) = {Tail(q)}
        BY <2>8, <3>1, <4>1 DEF Bodies
      <4> QED
        BY <2>3, <3>3, <4>4, <4>5
    <3> QED
      BY <2>2, <3>2, <3>3
  <2> QED
    BY <2>1, <2>5, <2>9 DEF q
<1>12. FileExact'
  <2> SUFFICES ASSUME answer'.what = "file", ~echo, overdue = 0
               PROVE  answer'.got = <<Piece("part", answer'.of), Piece("last", answer'.of)>>
    BY <1>1 DEF FileExact
  <2>1. request.what = "file" /\ answer' = FileAnswer(SubSeq(b, 1, m))
    BY <1>1 DEF Found, NoAnswer, Requests, b, m
  <2>2. PICK d \in 0..1 :
          /\ Len(s) = d + 4 /\ s[d + 1] = Piece("begin", request.of)
          /\ s[d + 2] = Piece("part", request.of) /\ s[d + 3] = Piece("last", request.of)
          /\ s[d + 4] = Piece("end", request.of)
          /\ \A i \in 1..d : s[i].kind = "digits"
    BY <1>6, <2>1 DEF Replied
  <2>3. m = d + 4
    BY <1>8, <2>1, <2>2
  <2> DEFINE q == SubSeq(b, 1, m)
  <2>4. q \in Seq(Pieces) /\ Len(q) = d + 4 /\ \A i \in 1..(d + 4) : q[i] = s[i]
    <3>1. 1 \in Int /\ m \in Int /\ 1 <= m /\ \A i \in 1..m : i \in 1..Len(b)
      BY <1>2, <1>3
    <3>2. \A i \in 1..m : b[i] \in Pieces
      BY <1>1, <3>1, ElementOfSeq
    <3>3. /\ SubSeq(b, 1, m) \in Seq(Pieces)
          /\ Len(SubSeq(b, 1, m)) = IF 1 <= m THEN m - 1 + 1 ELSE 0
          /\ \A i \in 1..(m - 1 + 1) : SubSeq(b, 1, m)[i] = b[1 + i - 1]
      BY <3>1, <3>2, SubSeqProperties
    <3>4. ASSUME NEW i \in 1..(d + 4)
          PROVE  q[i] = s[i]
      <4>1. i \in 1..(m - 1 + 1) /\ 1 + i - 1 = i /\ i \in 1..Len(b)
        BY <2>3, <3>1
      <4> QED
        BY <1>3, <3>3, <4>1
    <3> QED
      BY <2>3, <3>1, <3>3, <3>4
  <2> HIDE DEF q
  <2>5. \A i \in 1..d : q[i].kind = "digits"
    BY <2>2, <2>4
  <2>6. /\ q[d + 1] = Piece("begin", request.of) /\ q[d + 2] = Piece("part", request.of)
        /\ q[d + 3] = Piece("last", request.of) /\ q[d + 4] = Piece("end", request.of)
    BY <2>2, <2>4
  <2>7. /\ KindsAt(q, {"begin", "fileecho"}) # {}
        /\ FileLines(q) = <<Piece("part", request.of), Piece("last", request.of)>>
    BY <2>4, <2>5, <2>6, WholeFile
  <2> QED
    BY <2>1, <2>7 DEF FileAnswer, q
<1> QED
  BY <1>9, <1>10, <1>11, <1>12 DEF ShellAnswers

(* An answer belongs to the call that returns it (ShellAnswers): run()     *)
(* returns the exit status and the output of its own command unless the    *)
(* guest was busy when it was sent (a status of several digits may be cut, *)
(* and a first line with the command's first word is lost where nothing    *)
(* echoes), and get_file() the file, on a terminal that does not echo      *)
(* where nothing has failed.                                               *)
THEOREM AnswersAreOwn == ShellSpec => []ShellAnswers
<1>1. ShellInit => ShellInv
  <2> SUFFICES ASSUME ShellInit PROVE ShellInv
    OBVIOUS
  <2>1. request = [what |-> "login", of |-> 0, wide |-> FALSE, names |-> FALSE] /\ answer.what = "none"
    BY DEF ShellInit, Request, NoAnswer
  <2>2. request \in Requests /\ 0 \in 0..MaxShellCalls
    BY <2>1, ShellConstants DEF Requests
  <2>3. <<>> \in Seq(Pieces) /\ <<>> \in Seq(Requests)
    BY EmptySeq
  <2>4. ChannelTypes
    <3>1. request.of = 0 /\ 0 \in Nat
      BY <2>1
    <3>2. answer = NoAnswer
      BY DEF ShellInit
    <3> QED
      BY <2>2, <2>3, <3>1, <3>2 DEF ShellInit, ChannelTypes
  <2>5. OwnStream /\ QuietStream
    BY DEF ShellInit, OwnStream, QuietStream
  <2>6. ShellAnswers
    BY <2>1 DEF ShellAnswers, OwnAnswer, FileExact
  <2> QED
    BY <2>4, <2>5, <2>6 DEF ShellInv
<1>2. ShellInv /\ [ShellNext]_shellVars => ShellInv'
  <2> SUFFICES ASSUME ShellInv, [ShellNext]_shellVars PROVE ShellInv'
    OBVIOUS
  <2>1. ChannelTypes'
    BY ChannelTypesStep DEF ShellInv
  <2>2. CASE ReadsLine
    BY <2>1, <2>2, ReadsLineKeeps DEF ShellInv
  <2>3. CASE Writes \/ Receives \/ UNCHANGED shellVars
    BY <2>1, <2>3, MovesKeep DEF ShellInv
  <2>4. CASE HangsUp
    BY <2>1, <2>4, HangUpKeeps DEF ShellInv
  <2>5. CASE Login \/ Run \/ GetFile \/ Close \/ DrainReads \/ DrainEnds \/ GivesUp
    BY <2>1, <2>5, HostKeeps DEF ShellInv
  <2>6. CASE Found
    BY <2>1, <2>6, FoundKeeps DEF ShellInv
  <2> QED
    BY <2>2, <2>3, <2>4, <2>5, <2>6 DEF ShellNext, ShellHost
<1>3. ShellInv => ShellAnswers
  BY DEF ShellInv
<1> QED
  BY <1>1, <1>2, <1>3, PTL DEF ShellSpec

-----------------------------------------------------------------------------
(* DglStream.                                                              *)

(* Commands and parts, without a bound on the number of commands.          *)
AnyCommand == [kind : DglKinds, n : Nat]
Halves     == [half : 1..2, cmds : Seq(AnyCommand)]

StreamTypes ==
  /\ framed \in BOOLEAN
  /\ dglSent \in Seq(AnyCommand) /\ decoded \in Seq(AnyCommand) /\ drawn \in Seq(AnyCommand)
  /\ dglBuf \in Seq(Halves) /\ dglWire \in Seq(Halves)
  /\ dglReplies \in Seq([for : DglKinds, wid : Nat])
  /\ nextWid \in Nat /\ asking \in AnyCommand
  /\ framed => decoded = <<>>

(* What the server has not taken.                                          *)
OnTheWay == dglBuf \o dglWire

(* The parts s are those of m messages.  What the first i of them hold are *)
(* the commands of all that follow the f[0]-th, up to the f[i]-th.         *)
Laid(s, m, f, all) ==
  /\ Len(s) = 2 * m /\ f[m] = Len(all) /\ \A i \in 0..m : f[i] <= Len(all)
  /\ \A i \in 1..m :
       /\ s[2 * i - 1].cmds = s[2 * i].cmds /\ Len(s[2 * i].cmds) >= 1
       /\ f[i] = f[i - 1] + Len(s[2 * i].cmds)
       /\ \A j \in 1..Len(s[2 * i].cmds) : s[2 * i].cmds[j] = all[f[i - 1] + j]

(* They go on where the commands got end, if those are all of known length.*)
GoesOn(got, all, k) == ~Varies(all) => k = Len(got) /\ \A i \in 1..Len(got) : got[i] = all[i]
InOrder(s, got, all) ==
  \E m \in Nat : \E f \in [0..m -> Nat] : Laid(s, m, f, all) /\ GoesOn(got, all, f[0])

(* Only the last command on its way, in the last message, may be one that  *)
(* the client waits for; and it is in one place.                           *)
OneAsks ==
  /\ asking = NoCommand \/ Asks(asking)
  /\ \A i \in 1..Len(OnTheWay) : \A j \in 1..Len(OnTheWay[i].cmds) :
       Asks(OnTheWay[i].cmds[j]) =>
         /\ i >= Len(OnTheWay) - 1 /\ j = Len(OnTheWay[i].cmds) /\ OnTheWay[i].cmds[j] = asking
         /\ dglReplies = <<>> /\ \A k \in 1..Len(decoded) : ~Asks(decoded[k])
  /\ \A k \in 1..Len(decoded) :
       Asks(decoded[k]) =>
         k = Len(decoded) /\ decoded[k] = asking /\ dglReplies = <<>> /\ OnTheWay = <<>>

StreamInv ==
  StreamTypes /\ InOrder(OnTheWay, drawn \o decoded, dglSent) /\ OneAsks /\ RightReply

-----------------------------------------------------------------------------
(* A message more, and a message less.                                     *)
LEMMA TheParts ==
  ASSUME NEW c \in Seq(AnyCommand)
  PROVE  /\ Parts(c) \in Seq(Halves) /\ Len(Parts(c)) = 2
         /\ Parts(c)[1].cmds = c /\ Parts(c)[2].cmds = c
<1> DEFINE x == [half |-> 1, cmds |-> c]
           y == [half |-> 2, cmds |-> c]
<1>1. x \in Halves /\ y \in Halves /\ x.cmds = c /\ y.cmds = c
  BY DEF Halves
<1>2. Parts(c) = <<x, y>>
  BY DEF Parts
<1> HIDE DEF x, y
<1> QED
  BY <1>1, <1>2

LEMMA AddsMessage ==
  ASSUME NEW s \in Seq(Halves), NEW got \in Seq(AnyCommand), NEW all \in
     Seq(AnyCommand),
         NEW c \in Seq(AnyCommand), Len(c) >= 1, InOrder(s, got, all)
  PROVE  InOrder(s \o Parts(c), got, all \o c)
<1> DEFINE u == s \o Parts(c)
           a == all \o c
<1>1. /\ Len(u) = Len(s) + 2 /\ Len(s) \in Nat
      /\ \A i \in 1..Len(s) : u[i] = s[i]
      /\ u[Len(s) + 1].cmds = c /\ u[Len(s) + 2].cmds = c
  <2> DEFINE p == Parts(c)
  <2>1. p \in Seq(Halves) /\ Len(p) = 2 /\ p[1].cmds = c /\ p[2].cmds = c
    BY TheParts
  <2> HIDE DEF p
  <2>2. s \in Seq(Halves) /\ p \in Seq(Halves)
    BY <2>1
  <2>3. /\ Len(s \o p) = Len(s) + Len(p) /\ Len(s) \in Nat
        /\ \A i \in 1..Len(s) : (s \o p)[i] = s[i]
        /\ \A i \in 1..Len(p) : (s \o p)[Len(s) + i] = p[i]
    BY <2>2, TwoParts
  <2>4. 1 \in 1..Len(p) /\ 2 \in 1..Len(p)
    BY <2>1
  <2> QED
    BY <2>1, <2>3, <2>4 DEF p
<1>2. /\ Len(a) = Len(all) + Len(c) /\ Len(all) \in Nat /\ Len(c) \in Nat
      /\ \A i \in 1..Len(all) : a[i] = all[i]
      /\ \A i \in 1..Len(c) : a[Len(all) + i] = c[i]
  BY TwoParts
<1> HIDE DEF u, a
<1>0. PICK m \in Nat : \E f \in [0..m -> Nat] : Laid(s, m, f, all) /\ GoesOn(got, all, f[0])
  BY DEF InOrder
<1>3. PICK f \in [0..m -> Nat] : Laid(s, m, f, all) /\ GoesOn(got, all, f[0])
  BY <1>0
<1> DEFINE g == [i \in 0..(m + 1) |-> IF i <= m THEN f[i] ELSE Len(a)]
<1>4. m + 1 \in Nat /\ g \in [0..(m + 1) -> Nat] /\ g[m + 1] = Len(a) /\ \A i \in 0..m : g[i] = f[i]
  BY <1>2
<1> HIDE DEF g
<1>5. \A i \in 0..(m + 1) : g[i] <= Len(a)
  <2> TAKE i \in 0..(m + 1)
  <2>1. CASE i = m + 1
    BY <1>2, <1>4, <2>1
  <2>2. CASE i # m + 1
    <3>1. i \in 0..m /\ f[i] \in Nat
      BY <2>2
    <3> QED
      BY <1>2, <1>3, <1>4, <3>1 DEF Laid
  <2> QED
    BY <2>1, <2>2
<1>6. ASSUME NEW i \in 1..(m + 1)
      PROVE  /\ u[2 * i - 1].cmds = u[2 * i].cmds /\ Len(u[2 * i].cmds) >= 1
             /\ g[i] = g[i - 1] + Len(u[2 * i].cmds)
             /\ \A j \in 1..Len(u[2 * i].cmds) : u[2 * i].cmds[j] = a[g[i - 1] + j]
  <2>1. Len(s) = 2 * m /\ f[m] = Len(all)
    BY <1>3 DEF Laid
  <2>2. CASE i = m + 1
    <3>1. 2 * i - 1 = Len(s) + 1 /\ 2 * i = Len(s) + 2 /\ i - 1 = m /\ m \in 0..m
      BY <2>1, <2>2
    <3>2. u[2 * i - 1].cmds = c /\ u[2 * i].cmds = c /\ g[i - 1] = Len(all) /\ g[i] = Len(a)
      BY <1>1, <1>4, <2>1, <2>2, <3>1
    <3> QED
      BY <1>2, <3>2
  <2>3. CASE i # m + 1
    <3>1. i \in 1..m /\ i \in 0..m /\ i - 1 \in 0..m /\ 2 * i - 1 \in 1..Len(s) /\ 2 * i \in 1..Len(s)
      BY <2>1, <2>3
    <3>2. u[2 * i - 1] = s[2 * i - 1] /\ u[2 * i] = s[2 * i] /\ g[i] = f[i] /\ g[i - 1] = f[i - 1]
      BY <1>1, <1>4, <3>1
    <3>3. /\ s[2 * i - 1].cmds = s[2 * i].cmds /\ Len(s[2 * i].cmds) >= 1
          /\ f[i] = f[i - 1] + Len(s[2 * i].cmds) /\ f[i] <= Len(all)
          /\ \A j \in 1..Len(s[2 * i].cmds) : s[2 * i].cmds[j] = all[f[i - 1] + j]
      BY <1>3, <3>1 DEF Laid
    <3>4. \A j \in 1..Len(s[2 * i].cmds) : a[f[i - 1] + j] = all[f[i - 1] + j]
      <4> TAKE j \in 1..Len(s[2 * i].cmds)
      <4>1. s[2 * i].cmds \in Seq(AnyCommand)
        <5>1. s[2 * i] \in Halves
          BY <3>1, ElementOfSeq
        <5> QED
          BY <5>1 DEF Halves
      <4>2. f[i - 1] \in Nat /\ Len(s[2 * i].cmds) \in Nat
        BY <3>1, <4>1
      <4>3. f[i - 1] + j \in 1..Len(all)
        <5>1. f[i - 1] + Len(s[2 * i].cmds) <= Len(all)
          BY <3>3
        <5> DEFINE n == Len(s[2 * i].cmds)
                   h == f[i - 1]
        <5>2. n \in Nat /\ h \in Nat /\ j \in 1..n /\ h + n <= Len(all)
          BY <4>2, <5>1
        <5> HIDE DEF n, h
        <5>3. h + j \in 1..Len(all)
          BY <1>2, <5>2
        <5> QED
          BY <5>3 DEF h
      <4> QED
        BY <1>2, <4>3
    <3> QED
      BY <3>2, <3>3, <3>4
  <2> QED
    BY <2>2, <2>3
<1>7. Laid(u, m + 1, g, a)
  <2>1. Len(u) = 2 * (m + 1)
    BY <1>1, <1>3 DEF Laid
  <2> QED
    BY <1>4, <1>5, <1>6, <2>1 DEF Laid
<1>8. GoesOn(got, a, g[0])
  <2> SUFFICES ASSUME ~Varies(a)
               PROVE  g[0] = Len(got) /\ \A i \in 1..Len(got) : got[i] = a[i]
    BY DEF GoesOn
  <2>1. ~Varies(all)
    <3>1. DOMAIN all = 1..Len(all) /\ DOMAIN a = 1..Len(a)
      <4>1. a \in Seq(AnyCommand)
        BY ConcatProperties DEF a
      <4> QED
        BY <4>1, LenProperties
    <3>2. \A i \in 1..Len(all) : i \in 1..Len(a) /\ a[i] = all[i]
      BY <1>2
    <3> QED
      BY <3>1, <3>2 DEF Varies
  <2>2. f[0] = Len(got) /\ (\A i \in 1..Len(got) : got[i] = all[i]) /\ 0 \in 0..m
    BY <1>3, <2>1 DEF GoesOn
  <2>3. f[0] <= Len(all) /\ g[0] = f[0]
    BY <1>3, <1>4, <2>2 DEF Laid
  <2>4. \A i \in 1..Len(got) : i \in 1..Len(all)
    BY <1>2, <2>2, <2>3
  <2> QED
    BY <1>2, <2>2, <2>3, <2>4
<1>9. m + 1 \in Nat /\ g \in [0..(m + 1) -> Nat]
  BY <1>4
<1>10. InOrder(u, got, a)
  BY <1>7, <1>8, <1>9 DEF InOrder
<1> QED
  BY <1>10 DEF u, a

LEMMA FirstMessage ==
  ASSUME NEW s \in Seq(Halves), NEW got \in Seq(AnyCommand), NEW all \in
     Seq(AnyCommand),
         InOrder(s, got, all), s # <<>>
  PROVE  /\ Len(s) >= 2 /\ (Len(s) \in 2..3 => Len(s) = 2)
         /\ s[2].cmds \in Seq(AnyCommand) /\ Len(s[2].cmds) >= 1 /\ s[1].cmds = s[2].cmds
         /\ Varies(s[2].cmds) => Varies(all)
         /\ s[2].cmds[1].kind = "vary" => Varies(all)
<1>1. PICK m \in Nat : \E f \in [0..m -> Nat] : Laid(s, m, f, all) /\ GoesOn(got, all, f[0])
  BY DEF InOrder
<1>2. PICK f \in [0..m -> Nat] : Laid(s, m, f, all) /\ GoesOn(got, all, f[0])
  BY <1>1
<1> DEFINE c == s[2].cmds
<1>3. Len(s) = 2 * m /\ m >= 1 /\ 1 \in 1..m /\ 0 \in 0..m /\ 1 \in 0..m /\ 2 \in 1..Len(s)
  <2>1. Len(s) \in Nat /\ Len(s) # 0
    BY LenProperties, EmptySeq
  <2> QED
    BY <1>2, <2>1 DEF Laid
<1>4. /\ s[1].cmds = c /\ Len(c) >= 1 /\ f[1] = f[0] + Len(c) /\ f[1] <= Len(all)
      /\ \A j \in 1..Len(c) : c[j] = all[f[0] + j]
  <2>1. 2 * 1 - 1 = 1 /\ 2 * 1 = 2 /\ 1 - 1 = 0
    OBVIOUS
  <2> QED
    BY <1>2, <1>3, <2>1 DEF Laid
<1>5. c \in Seq(AnyCommand)
  <2>1. s[2] \in Halves
    BY <1>3, ElementOfSeq
  <2> QED
    BY <2>1 DEF Halves
<1>6. f[0] \in Nat /\ Len(c) \in Nat /\ Len(all) \in Nat /\ f[1] \in Nat
  BY <1>3, <1>5
<1>7. ASSUME NEW j \in 1..Len(c)
      PROVE  f[0] + j \in 1..Len(all) /\ c[j] = all[f[0] + j]
  <2> DEFINE h == f[0]
             l == Len(c)
  <2>1. h \in Nat /\ l \in Nat /\ j \in 1..l /\ h + l <= Len(all)
    BY <1>4, <1>6
  <2> HIDE DEF h, l
  <2>2. h + j \in 1..Len(all)
    BY <1>6, <2>1
  <2> QED
    BY <1>4, <2>2 DEF h
<1>8. DOMAIN c = 1..Len(c) /\ DOMAIN all = 1..Len(all)
  BY <1>5, LenProperties
<1>9. Varies(c) => Varies(all)
  BY <1>7, <1>8 DEF Varies
<1>10. c[1].kind = "vary" => Varies(all)
  <2>1. 1 \in 1..Len(c)
    BY <1>4, <1>6
  <2> QED
    BY <1>7, <1>8, <2>1 DEF Varies
<1> QED
  BY <1>3, <1>4, <1>5, <1>9, <1>10

LEMMA TakesMessage ==
  ASSUME NEW s \in Seq(Halves), NEW got \in Seq(AnyCommand), NEW all \in
     Seq(AnyCommand),
         NEW t \in Seq(Halves), Len(s) >= 2, Len(t) = Len(s) - 2,
         \A i \in 1..Len(t) : t[i] = s[2 + i],
         NEW d \in Seq(AnyCommand), ~Varies(all) => d = s[2].cmds,
         InOrder(s, got, all)
  PROVE  InOrder(t, got \o d, all)
<1>1. PICK m \in Nat : \E f \in [0..m -> Nat] : Laid(s, m, f, all) /\ GoesOn(got, all, f[0])
  BY DEF InOrder
<1>2. PICK f \in [0..m -> Nat] : Laid(s, m, f, all) /\ GoesOn(got, all, f[0])
  BY <1>1
<1> DEFINE c == s[2].cmds
<1>3. Len(s) = 2 * m /\ m >= 1 /\ m - 1 \in Nat /\ 1 \in 1..m /\ 0 \in 0..m /\ 1 \in 0..m /\ m \in 0..m
  BY <1>2 DEF Laid
<1>4. /\ s[1].cmds = c /\ Len(c) >= 1 /\ f[1] = f[0] + Len(c) /\ f[1] <= Len(all)
      /\ \A j \in 1..Len(c) : c[j] = all[f[0] + j]
  <2>1. 2 * 1 - 1 = 1 /\ 2 * 1 = 2 /\ 1 - 1 = 0
    OBVIOUS
  <2> QED
    BY <1>2, <1>3, <2>1 DEF Laid
<1>5. c \in Seq(AnyCommand)
  <2>1. s[2] \in Halves
    BY ElementOfSeq
  <2> QED
    BY <2>1 DEF Halves
<1>6. f[0] \in Nat /\ Len(c) \in Nat /\ Len(all) \in Nat /\ f[1] \in Nat
  BY <1>3, <1>5
<1>7. ASSUME NEW j \in 1..Len(c)
      PROVE  f[0] + j \in 1..Len(all) /\ c[j] = all[f[0] + j]
  <2> DEFINE h == f[0]
             l == Len(c)
  <2>1. h \in Nat /\ l \in Nat /\ j \in 1..l /\ h + l <= Len(all)
    BY <1>4, <1>6
  <2> HIDE DEF h, l
  <2>2. h + j \in 1..Len(all)
    BY <1>6, <2>1
  <2> QED
    BY <1>4, <2>2 DEF h
<1> DEFINE n == m - 1
           g == [i \in 0..n |-> f[i + 1]]
<1>8. n \in Nat /\ n + 1 = m /\ g \in [0..n -> Nat] /\ \A i \in 0..n : g[i] = f[i + 1]
  BY <1>3
<1> HIDE DEF g, n
<1>9. Laid(t, n, g, all)
  <2>1. Len(t) = 2 * n
    BY <1>3, <1>8
  <2>2. g[n] = Len(all)
    <3>1. n \in 0..n /\ f[m] = Len(all)
      BY <1>2, <1>8 DEF Laid
    <3> QED
      BY <1>8, <3>1
  <2>3. \A i \in 0..n : g[i] <= Len(all)
    <3> TAKE i \in 0..n
    <3>1. i + 1 \in 0..m
      BY <1>8
    <3> QED
      BY <1>2, <1>8, <3>1 DEF Laid
  <2>4. ASSUME NEW i \in 1..n
        PROVE  /\ t[2 * i - 1].cmds = t[2 * i].cmds /\ Len(t[2 * i].cmds) >= 1
               /\ g[i] = g[i - 1] + Len(t[2 * i].cmds)
               /\ \A j \in 1..Len(t[2 * i].cmds) : t[2 * i].cmds[j] = all[g[i - 1] + j]
    <3> DEFINE k == i + 1
    <3>1. /\ k \in 1..m /\ 2 * i - 1 \in 1..Len(t) /\ 2 * i \in 1..Len(t)
          /\ 2 + (2 * i - 1) = 2 * k - 1 /\ 2 + 2 * i = 2 * k
          /\ i \in 0..n /\ i - 1 \in 0..n /\ (i - 1) + 1 = k - 1
      <4>1. k \in 1..m /\ i \in 0..n /\ i - 1 \in 0..n /\ (i - 1) + 1 = k - 1
        BY <1>8
      <4>2. 2 * i - 1 \in 1..Len(t) /\ 2 * i \in 1..Len(t)
        BY <1>8, <2>1
      <4>3. 2 + (2 * i - 1) = 2 * k - 1 /\ 2 + 2 * i = 2 * k
        BY <1>8
      <4> QED
        BY <4>1, <4>2, <4>3
    <3>2. t[2 * i - 1] = s[2 * k - 1] /\ t[2 * i] = s[2 * k]
      <4>1. t[2 * i - 1] = s[2 + (2 * i - 1)] /\ t[2 * i] = s[2 + 2 * i]
        BY <3>1
      <4> QED
        BY <3>1, <4>1
    <3>3. g[i] = f[k] /\ g[i - 1] = f[k - 1]
      <4>1. g[i - 1] = f[(i - 1) + 1]
        BY <1>8, <3>1
      <4> QED
        BY <1>8, <3>1, <4>1
    <3> HIDE DEF k
    <3>4. /\ s[2 * k - 1].cmds = s[2 * k].cmds /\ Len(s[2 * k].cmds) >= 1
          /\ f[k] = f[k - 1] + Len(s[2 * k].cmds)
          /\ \A j \in 1..Len(s[2 * k].cmds) : s[2 * k].cmds[j] = all[f[k - 1] + j]
      BY <1>2, <3>1 DEF Laid
    <3> QED
      BY <3>2, <3>3, <3>4
  <2> QED
    BY <2>1, <2>2, <2>3, <2>4 DEF Laid
<1>10. GoesOn(got \o d, all, g[0])
  <2> SUFFICES ASSUME ~Varies(all)
               PROVE  g[0] = Len(got \o d) /\ \A i \in 1..Len(got \o d) : (got \o d)[i] = all[i]
    BY DEF GoesOn
  <2>1. f[0] = Len(got) /\ \A i \in 1..Len(got) : got[i] = all[i]
    BY <1>2 DEF GoesOn
  <2>2. d = c
    OBVIOUS
  <2>3. g[0] = f[1]
    <3>1. 0 \in 0..n /\ 0 + 1 = 1
      BY <1>8
    <3> QED
      BY <1>8, <3>1
  <2>4. /\ Len(got \o c) = Len(got) + Len(c) /\ Len(got) \in Nat
        /\ \A i \in 1..Len(got) : (got \o c)[i] = got[i]
        /\ \A i \in 1..Len(c) : (got \o c)[Len(got) + i] = c[i]
    <3>1. got \in Seq(AnyCommand) /\ c \in Seq(AnyCommand)
      BY <1>5
    <3> QED
      BY <3>1, TwoParts
  <2>5. ASSUME NEW i \in 1..Len(got \o c)
        PROVE  (got \o c)[i] = all[i]
    <3>1. CASE i \in 1..Len(got)
      BY <2>1, <2>4, <3>1
    <3>2. CASE i \notin 1..Len(got)
      <4> DEFINE j == i - Len(got)
      <4>1. j \in 1..Len(c) /\ Len(got) + j = i
        BY <1>6, <2>4, <3>2
      <4>2. (got \o c)[Len(got) + j] = c[j] /\ c[j] = all[f[0] + j]
        BY <1>7, <2>4, <4>1
      <4> QED
        BY <2>1, <4>1, <4>2
    <3> QED
      BY <3>1, <3>2
  <2> QED
    BY <1>4, <2>1, <2>2, <2>3, <2>4, <2>5
<1>11. n \in Nat /\ g \in [0..n -> Nat]
  BY <1>8
<1>12. InOrder(t, got \o d, all)
  BY <1>9, <1>10, <1>11 DEF InOrder
<1> QED
  BY <1>12

(* What the order says of what has been taken.                             *)
LEMMA TakenInOrder ==
  ASSUME NEW s \in Seq(Halves), NEW got \in Seq(AnyCommand), NEW all \in
     Seq(AnyCommand),
         InOrder(s, got, all), ~Varies(all)
  PROVE  IsPrefix(got, all) /\ (s = <<>> => got = all)
<1>1. PICK m \in Nat : \E f \in [0..m -> Nat] : Laid(s, m, f, all) /\ GoesOn(got, all, f[0])
  BY DEF InOrder
<1>2. PICK f \in [0..m -> Nat] : Laid(s, m, f, all) /\ GoesOn(got, all, f[0])
  BY <1>1
<1>3. Len(s) = 2 * m /\ f[m] = Len(all) /\ f[0] <= Len(all) /\ 0 \in 0..m
  BY <1>2 DEF Laid
<1>4. f[0] = Len(got) /\ \A i \in 1..Len(got) : got[i] = all[i]
  BY <1>2 DEF GoesOn
<1>5. Len(got) \in Nat /\ Len(all) \in Nat /\ Len(got) <= Len(all)
  BY <1>3, <1>4
<1> DEFINE x == SubSeq(got, 1, Len(got))
           y == SubSeq(all, 1, Len(got))
<1>6. x = y
  <2>1. 1 \in Int /\ Len(got) \in Int
    BY <1>5
  <2>2. x = got
    BY SubSeqFull
  <2>3. \A i \in 1..Len(got) : all[i] \in AnyCommand
    BY <1>5, ElementOfSeq
  <2>4. /\ y \in Seq(AnyCommand)
        /\ Len(y) = (IF 1 <= Len(got) THEN Len(got) - 1 + 1 ELSE 0)
        /\ \A i \in 1..(Len(got) - 1 + 1) : y[i] = all[1 + i - 1]
    BY <2>1, <2>3, SubSeqProperties
  <2> HIDE DEF y
  <2>5. Len(y) = Len(got) /\ \A i \in 1..Len(got) : y[i] = got[i]
    <3>1. Len(got) - 1 + 1 = Len(got) /\ \A i \in 1..Len(got) : 1 + i - 1 = i
      BY <1>5
    <3>2. Len(y) = Len(got)
      BY <1>5, <2>4
    <3> QED
      BY <1>4, <2>4, <3>1, <3>2
  <2>6. y = got
    BY <2>4, <2>5, SeqEqual
  <2> QED
    BY <2>2, <2>6
<1>7. IsPrefix(got, all)
  BY <1>5, <1>6 DEF IsPrefix
<1>8. ASSUME s = <<>>
      PROVE  got = all
  <2>1. Len(s) = 0
    BY <1>8
  <2>2. m = 0
    BY <1>3, <2>1
  <2>3. Len(got) = Len(all)
    BY <1>3, <1>4, <2>2
  <2> QED
    BY <1>4, <2>3, SeqEqual
<1> QED
  BY <1>7, <1>8

LEMMA HalvesInRow ==
  \A x \in Seq(Halves) : \A y \in Seq(Halves) : \A z \in Seq(Halves) :
    (x \o y) \o z = x \o (y \o z)
  BY InRow

LEMMA CommandsInRow ==
  \A x \in Seq(AnyCommand) : \A y \in Seq(AnyCommand) : \A z \in Seq(AnyCommand) :
    (x \o y) \o z = x \o (y \o z)
  BY InRow

(* What is behind the first message.                                       *)
LEMMA BehindIt ==
  ASSUME NEW b \in Seq(Halves), NEW w \in Seq(Halves), Len(b) >= 2
  PROVE  LET r == SubSeq(b, 3, Len(b))
         IN  /\ r \in Seq(Halves) /\ r \o w \in Seq(Halves) /\ b \o w \in Seq(Halves)
             /\ Len(b \o w) >= 2 /\ Len(r \o w) = Len(b \o w) - 2
             /\ \A i \in 1..Len(r \o w) : (r \o w)[i] = (b \o w)[2 + i]
             /\ (b \o w)[1] = b[1] /\ (b \o w)[2] = b[2]
<1> DEFINE r == SubSeq(b, 3, Len(b))
           f == SubSeq(b, 1, 2)
           t == r \o w
<1>1. Len(b) \in Nat
  BY LenProperties
<1>2. f \in Seq(Halves) /\ Len(f) = 2
  <2>1. 1 \in Int /\ 2 \in Int /\ \A i \in 1..2 : b[i] \in Halves
    BY <1>1, ElementOfSeq
  <2>2. SubSeq(b, 1, 2) \in Seq(Halves) /\ Len(SubSeq(b, 1, 2)) = IF 1 <= 2 THEN 2 - 1 + 1 ELSE 0
    BY <2>1, SubSeqProperties
  <2> QED
    BY <2>2
<1>3. r \in Seq(Halves)
  <2>1. 3 \in Int /\ Len(b) \in Int /\ \A i \in 3..Len(b) : b[i] \in Halves
    BY <1>1, ElementOfSeq
  <2> QED
    BY <2>1, SubSeqProperties
<1>4. f \o r = b
  <2>1. 1 \in 1..Len(b) + 1 /\ 2 \in (1 - 1)..Len(b) /\ Len(b) \in 2..Len(b) /\ 2 + 1 = 3
    BY <1>1
  <2>2. SubSeq(b, 1, 2) \o SubSeq(b, 2 + 1, Len(b)) = SubSeq(b, 1, Len(b))
    BY <2>1, ConcatAdjacentSubSeq
  <2> QED
    BY <2>1, <2>2, SubSeqFull
<1> HIDE DEF f, r
<1>5. t \in Seq(Halves)
  BY <1>3, ConcatProperties
<1>6. b \o w = f \o t
  <2>1. \A y \in Seq(Halves) : \A z \in Seq(Halves) : (f \o y) \o z = f \o (y \o z)
    BY <1>2, HalvesInRow, Zenon
  <2>2. \A z \in Seq(Halves) : (f \o r) \o z = f \o (r \o z)
    BY <1>3, <2>1, Zenon
  <2>3. w \in Seq(Halves)
    OBVIOUS
  <2> QED
    BY <1>4, <2>2, <2>3, Zenon
<1> HIDE DEF t
<1>7. /\ f \o t \in Seq(Halves) /\ Len(f \o t) = Len(f) + Len(t) /\ Len(t) \in Nat
      /\ \A i \in 1..Len(t) : (f \o t)[Len(f) + i] = t[i]
  <2>1. f \in Seq(Halves) /\ t \in Seq(Halves)
    BY <1>2, <1>5
  <2> QED
    BY <2>1, TwoParts
<1>8. (b \o w)[1] = b[1] /\ (b \o w)[2] = b[2]
  <2>1. \A i \in 1..Len(b) : (b \o w)[i] = b[i]
    BY TwoParts
  <2> QED
    BY <1>1, <2>1
<1>9. b \o w \in Seq(Halves) /\ Len(b \o w) >= 2 /\ Len(t) = Len(b \o w) - 2
  BY <1>2, <1>6, <1>7
<1>10. \A i \in 1..Len(t) : t[i] = (b \o w)[2 + i]
  BY <1>2, <1>6, <1>7
<1> QED
  BY <1>3, <1>5, <1>8, <1>9, <1>10 DEF r, t

(* What a frame is parsed into.                                            *)
LEMMA ParsedFrame ==
  ASSUME NEW c \in Seq(AnyCommand), Len(c) >= 1
  PROVE  /\ Parsed(c) \in Seq(AnyCommand) /\ Last(Parsed(c)) \in AnyCommand /\ Last(c) \in AnyCommand
         /\ ~Varies(c) => Parsed(c) = c
<1> DEFINE gaps == {i \in DOMAIN c : c[i].kind = "vary"}
<1>1. DOMAIN c = 1..Len(c) /\ Len(c) \in Nat /\ c[Len(c)] \in AnyCommand
  BY LenProperties, ElementOfSeq
<1>2. CASE gaps = {}
  <2>1. Parsed(c) = c
    BY <1>2 DEF Parsed
  <2> QED
    BY <1>1, <2>1 DEF Last
<1>3. CASE gaps # {}
  <2> DEFINE p == CHOOSE i \in gaps : \A j \in gaps : i <= j
             q == SubSeq(c, 1, p)
  <2>1. Parsed(c) = q /\ Varies(c)
    BY <1>3 DEF Parsed, Varies
  <2>2. p \in 1..Len(c)
    <3>1. gaps \subseteq Nat /\ gaps \subseteq 1..Len(c)
      BY <1>1
    <3> HIDE DEF gaps
    <3>2. \E x \in gaps : \A y \in gaps : x <= y
      BY <1>3, <3>1, LeastOf
    <3>3. p \in gaps
      BY <3>2
    <3> QED
      BY <3>1, <3>3
  <2> HIDE DEF p
  <2>3. q \in Seq(AnyCommand) /\ Len(q) = p
    <3>1. 1 \in Int /\ p \in Int /\ \A i \in 1..p : c[i] \in AnyCommand
      BY <1>1, <2>2, ElementOfSeq
    <3>2. q \in Seq(AnyCommand) /\ Len(q) = IF 1 <= p THEN p - 1 + 1 ELSE 0
      BY <3>1, SubSeqProperties
    <3> QED
      BY <2>2, <3>2
  <2> HIDE DEF q
  <2>4. q[Len(q)] \in AnyCommand
    BY <2>2, <2>3, ElementOfSeq
  <2> QED
    BY <1>1, <2>1, <2>3, <2>4 DEF Last
<1> QED
  BY <1>2, <1>3

(* With no client waiting, or an answer on its way, nothing asks.          *)
LEMMA NobodyAsks ==
  ASSUME OneAsks, RightReply, dglReplies # <<>> \/ asking = NoCommand
  PROVE  /\ \A i \in 1..Len(OnTheWay) : \A j \in 1..Len(OnTheWay[i].cmds) : ~Asks(OnTheWay[i].cmds[j])
         /\ \A k \in 1..Len(decoded) : ~Asks(decoded[k])
         /\ asking = NoCommand => dglReplies = <<>>
<1>1. ~Asks(NoCommand)
  BY DEF Asks, NoCommand, Command
<1> QED
  BY <1>1 DEF OneAsks, RightReply

LEMMA SendsKeeps ==
  ASSUME StreamInv, ClientSends
  PROVE  StreamInv'
<1>1. /\ dglSent \in Seq(AnyCommand) /\ decoded \in Seq(AnyCommand) /\ drawn \in Seq(AnyCommand)
      /\ dglBuf \in Seq(Halves) /\ dglWire \in Seq(Halves) /\ StreamTypes
  BY DEF StreamInv, StreamTypes
<1>2. PICK len \in 1..(IF framed THEN FrameMax ELSE 1) :
        \E kinds \in [1..len -> KindsOf(framed)] :
          LET cmds == [i \in 1..len |-> Command(kinds[i], Len(dglSent) + i)]
          IN  /\ Len(dglSent) + len <= MaxDglCommands
              /\ \A i \in 1..(len - 1) : ~Asks(cmds[i])
              /\ dglSent' = dglSent \o cmds /\ dglWire' = dglWire \o Parts(cmds)
              /\ asking' = IF Asks(cmds[len]) THEN cmds[len] ELSE NoCommand
  BY DEF ClientSends
<1>3. PICK kinds \in [1..len -> KindsOf(framed)] :
        LET cmds == [i \in 1..len |-> Command(kinds[i], Len(dglSent) + i)]
        IN  /\ \A i \in 1..(len - 1) : ~Asks(cmds[i])
            /\ dglSent' = dglSent \o cmds /\ dglWire' = dglWire \o Parts(cmds)
            /\ asking' = IF Asks(cmds[len]) THEN cmds[len] ELSE NoCommand
  BY <1>2
<1> DEFINE c == [i \in 1..len |-> Command(kinds[i], Len(dglSent) + i)]
<1>4. len \in Nat /\ len >= 1 /\ len \in 1..len
  BY DglConstants
<1>5. c \in Seq(AnyCommand) /\ Len(c) = len
  <2>1. ASSUME NEW i \in 1..len
        PROVE  c[i] \in AnyCommand
    <3>1. kinds[i] \in DglKinds /\ Len(dglSent) + i \in Nat
      BY <1>1, <1>4, LenProperties DEF KindsOf
    <3>2. c[i] = [kind |-> kinds[i], n |-> Len(dglSent) + i]
      BY DEF Command
    <3> QED
      BY <3>1, <3>2 DEF AnyCommand
  <2>2. c \in [1..len -> AnyCommand]
    BY <2>1
  <2> QED
    BY <1>4, <2>2, IsASeq, LenProperties
<1>6. /\ \A i \in 1..(len - 1) : ~Asks(c[i])
      /\ dglSent' = dglSent \o c /\ dglWire' = dglWire \o Parts(c)
      /\ asking' = IF Asks(c[len]) THEN c[len] ELSE NoCommand
  BY <1>3
<1> HIDE DEF c
<1>7. /\ asking = NoCommand
      /\ UNCHANGED <<framed, feeding, dglBuf, decoded, drawn, dglReplies, nextWid, unsynced>>
  BY DEF ClientSends
<1>8. /\ \A i \in 1..Len(OnTheWay) : \A j \in 1..Len(OnTheWay[i].cmds) : ~Asks(OnTheWay[i].cmds[j])
      /\ \A k \in 1..Len(decoded) : ~Asks(decoded[k])
      /\ dglReplies = <<>>
  BY <1>7, NobodyAsks DEF StreamInv
<1>9. Parts(c) \in Seq(Halves) /\ Len(Parts(c)) = 2 /\ Parts(c)[1].cmds = c /\ Parts(c)[2].cmds = c
  BY <1>5, TheParts
<1> DEFINE p == Parts(c)
           s == OnTheWay
<1>10. s \in Seq(Halves) /\ p \in Seq(Halves) /\ OnTheWay' = s \o p
  <2>1. s \in Seq(Halves)
    BY <1>1, ConcatProperties DEF OnTheWay
  <2>2. OnTheWay' = dglBuf \o (dglWire \o p)
    BY <1>6, <1>7 DEF OnTheWay
  <2>3. \A z \in Seq(Halves) : (dglBuf \o dglWire) \o z = dglBuf \o (dglWire \o z)
    BY <1>1, HalvesInRow, Zenon
  <2> QED
    BY <1>9, <2>1, <2>2, <2>3 DEF OnTheWay
<1> HIDE DEF p, s
<1>11. StreamTypes'
  <2>1. dglWire \o p \in Seq(Halves)
    BY <1>1, <1>10, ConcatProperties
  <2>2. dglSent \o c \in Seq(AnyCommand)
    BY <1>1, <1>5, ConcatProperties
  <2>3. asking' \in AnyCommand
    <3>1. c[len] \in AnyCommand
      BY <1>4, <1>5, ElementOfSeq
    <3>2. NoCommand \in AnyCommand
      BY DEF NoCommand, Command, AnyCommand, DglKinds
    <3> QED
      BY <1>6, <3>1, <3>2
  <2> QED
    BY <1>1, <1>6, <1>7, <2>1, <2>2, <2>3 DEF StreamTypes, p
<1>12. InOrder(OnTheWay', (drawn \o decoded)', dglSent')
  <2>1. InOrder(s, drawn \o decoded, dglSent) /\ drawn \o decoded \in Seq(AnyCommand)
    BY <1>1, ConcatProperties DEF StreamInv, s
  <2> DEFINE got == drawn \o decoded
  <2> HIDE DEF got
  <2>2. InOrder(s, got, dglSent) /\ got \in Seq(AnyCommand) /\ Len(c) >= 1
    BY <1>4, <1>5, <2>1 DEF got
  <2>3. InOrder(s \o Parts(c), got, dglSent \o c)
    BY <1>1, <1>5, <1>10, <2>2, AddsMessage
  <2> QED
    BY <1>6, <1>7, <1>10, <2>3 DEF got, p
<1>13. OneAsks'
  <2>1. asking' = NoCommand \/ Asks(asking')
    BY <1>6
  <2>2. /\ Len(s \o p) = Len(s) + Len(p) /\ Len(s) \in Nat
        /\ \A i \in 1..Len(s) : (s \o p)[i] = s[i]
        /\ \A i \in 1..Len(p) : (s \o p)[Len(s) + i] = p[i]
    BY <1>10, TwoParts
  <2>3. ASSUME NEW i \in 1..Len(s \o p), NEW j \in 1..Len((s \o p)[i].cmds), Asks((s \o p)[i].cmds[j])
        PROVE  /\ i >= Len(s \o p) - 1 /\ j = Len((s \o p)[i].cmds) /\ (s \o p)[i].cmds[j] = asking'
    <3>1. i \notin 1..Len(s)
      BY <1>8, <2>2, <2>3 DEF s
    <3>2. Len(p) = 2 /\ (i = Len(s) + 1 \/ i = Len(s) + 2)
      BY <1>9, <2>2, <3>1 DEF p
    <3>3. (s \o p)[i].cmds = c
      <4>1. 1 \in 1..Len(p) /\ 2 \in 1..Len(p)
        BY <3>2
      <4> QED
        BY <1>9, <2>2, <3>2, <4>1 DEF p
    <3>4. j = len
      BY <1>4, <1>5, <1>6, <2>3, <3>3
    <3> QED
      BY <1>5, <1>6, <2>2, <2>3, <3>2, <3>3, <3>4
  <2> QED
    BY <1>7, <1>8, <1>10, <2>1, <2>3 DEF OneAsks
<1>14. RightReply'
  BY <1>7, <1>8 DEF RightReply
<1> QED
  BY <1>11, <1>12, <1>13, <1>14 DEF StreamInv

(* Reading moves parts from the wire to the buffer.                        *)
LEMMA RecvKeeps ==
  ASSUME StreamInv, Recv
  PROVE  StreamInv'
<1>1. dglBuf \in Seq(Halves) /\ dglWire \in Seq(Halves) /\ StreamTypes
  BY DEF StreamInv, StreamTypes
<1>2. PICK n \in 1..Len(dglWire) :
        /\ dglBuf' = dglBuf \o SubSeq(dglWire, 1, n)
        /\ dglWire' = SubSeq(dglWire, n + 1, Len(dglWire))
  BY DEF Recv
<1>3. UNCHANGED <<framed, dglSent, asking, decoded, drawn, dglReplies, nextWid, unsynced>>
  BY DEF Recv
<1> DEFINE f == SubSeq(dglWire, 1, n)
           r == SubSeq(dglWire, n + 1, Len(dglWire))
<1>4. Len(dglWire) \in Nat /\ n \in Nat
  BY <1>1, LenProperties
<1>5. f \in Seq(Halves)
  <2>1. 1 \in Int /\ n \in Int /\ \A i \in 1..n : dglWire[i] \in Halves
    BY <1>1, <1>4, ElementOfSeq
  <2> QED
    BY <2>1, SubSeqProperties
<1>6. r \in Seq(Halves)
  <2>1. n + 1 \in Int /\ Len(dglWire) \in Int /\ \A i \in (n + 1)..Len(dglWire) : dglWire[i] \in Halves
    BY <1>1, <1>4, ElementOfSeq
  <2> QED
    BY <2>1, SubSeqProperties
<1>7. f \o r = dglWire
  <2>1. 1 \in 1..Len(dglWire) + 1 /\ n \in (1 - 1)..Len(dglWire) /\ Len(dglWire) \in n..Len(dglWire)
    BY <1>4
  <2>2. f \o r = SubSeq(dglWire, 1, Len(dglWire))
    BY <1>1, <2>1, ConcatAdjacentSubSeq
  <2> QED
    BY <1>1, <2>2, SubSeqFull
<1> HIDE DEF f, r
<1>8. OnTheWay' = OnTheWay
  <2>1. OnTheWay' = (dglBuf \o f) \o r
    BY <1>2 DEF OnTheWay, f, r
  <2>2. \A z \in Seq(Halves) : (dglBuf \o f) \o z = dglBuf \o (f \o z)
    BY <1>1, <1>5, HalvesInRow, Zenon
  <2> QED
    BY <1>6, <1>7, <2>1, <2>2 DEF OnTheWay
<1>9. StreamTypes'
  <2>1. dglBuf \o f \in Seq(Halves)
    BY <1>1, <1>5, ConcatProperties
  <2> QED
    BY <1>1, <1>2, <1>3, <1>6, <2>1 DEF StreamTypes, f, r
<1>10. InOrder(OnTheWay', (drawn \o decoded)', dglSent')
  BY <1>3, <1>8 DEF StreamInv
<1>11. OneAsks'
  BY <1>3, <1>8 DEF StreamInv, OneAsks
<1>12. RightReply'
  BY <1>3 DEF StreamInv, RightReply
<1> QED
  BY <1>9, <1>10, <1>11, <1>12 DEF StreamInv

(* Nothing that the properties are about.                                  *)
LEMMA SameStream ==
  ASSUME StreamInv,
         UNCHANGED <<framed, dglSent, asking, dglWire, dglBuf, decoded, drawn, dglReplies, nextWid>>
  PROVE  StreamInv'
<1>1. OnTheWay' = OnTheWay
  BY DEF OnTheWay
<1>2. StreamTypes'
  BY DEF StreamInv, StreamTypes
<1>3. InOrder(OnTheWay', (drawn \o decoded)', dglSent')
  BY <1>1 DEF StreamInv
<1>4. OneAsks'
  BY <1>1 DEF StreamInv, OneAsks
<1>5. RightReply'
  BY DEF StreamInv, RightReply
<1> QED
  BY <1>2, <1>3, <1>4, <1>5 DEF StreamInv

LEMMA ReadsKeeps ==
  ASSUME StreamInv, ClientReads
  PROVE  StreamInv'
<1>1. /\ dglReplies # <<>> /\ dglReplies' = Tail(dglReplies) /\ asking' = NoCommand
      /\ UNCHANGED <<framed, feeding, dglSent, dglWire, dglBuf, decoded, drawn, nextWid, unsynced>>
      /\ StreamTypes /\ Len(dglReplies) <= 1
  BY DEF ClientReads, StreamInv, RightReply
<1>2. dglReplies' = <<>>
  <2>1. /\ Tail(dglReplies) \in Seq([for : DglKinds, wid : Nat])
        /\ Len(Tail(dglReplies)) = Len(dglReplies) - 1 /\ Len(dglReplies) \in Nat
    BY <1>1, HeadTailProperties DEF StreamTypes
  <2>2. Len(Tail(dglReplies)) = 0
    BY <1>1, <2>1
  <2> QED
    BY <1>1, <2>1, <2>2, EmptySeq
<1>3. /\ \A i \in 1..Len(OnTheWay) : \A j \in 1..Len(OnTheWay[i].cmds) : ~Asks(OnTheWay[i].cmds[j])
      /\ \A k \in 1..Len(decoded) : ~Asks(decoded[k])
  BY <1>1, NobodyAsks DEF StreamInv
<1>4. OnTheWay' = OnTheWay
  BY <1>1 DEF OnTheWay
<1>5. StreamTypes'
  <2>1. asking' \in AnyCommand
    BY <1>1 DEF NoCommand, Command, AnyCommand, DglKinds
  <2>2. <<>> \in Seq([for : DglKinds, wid : Nat])
    BY EmptySeq
  <2> QED
    BY <1>1, <1>2, <2>1, <2>2 DEF StreamTypes
<1>6. InOrder(OnTheWay', (drawn \o decoded)', dglSent')
  BY <1>1, <1>4 DEF StreamInv
<1>7. OneAsks'
  BY <1>1, <1>3, <1>4 DEF OneAsks
<1>8. RightReply'
  <2>1. Len(<<>>) = 0
    OBVIOUS
  <2> QED
    BY <1>2, <2>1 DEF RightReply
<1> QED
  BY <1>5, <1>6, <1>7, <1>8 DEF StreamInv

(* What is taken out of the buffer.                                        *)
LEMMA TakesOne ==
  ASSUME StreamInv, Whole, NEW d \in Seq(AnyCommand),
         ~Varies(dglBuf[2].cmds) => d = dglBuf[2].cmds
  PROVE  LET c == dglBuf[2].cmds
             s == OnTheWay
             t == Taken \o dglWire
         IN  /\ c \in Seq(AnyCommand) /\ Len(c) >= 1 /\ Len(c) \in 1..Len(c) /\ Len(s) >= 2
             /\ Taken \in Seq(Halves) /\ Len(t) = Len(s) - 2
             /\ \A i \in 1..Len(t) : t[i] = s[2 + i]
             /\ s[2].cmds = c /\ dglBuf[1].cmds = c
             /\ InOrder(t, (drawn \o decoded) \o d, dglSent)
             /\ Varies(c) => Varies(dglSent)
             /\ Len(s) \in 2..3 => t = <<>>
             /\ Len(s) \in Nat /\ Len(t) \in Nat
<1> DEFINE b == dglBuf
           c == dglBuf[2].cmds
           s == OnTheWay
           r == Taken
           t == Taken \o dglWire
           got == drawn \o decoded
<1>1. b \in Seq(Halves) /\ dglWire \in Seq(Halves) /\ Len(b) >= 2 /\ dglSent \in Seq(AnyCommand)
  BY DEF StreamInv, StreamTypes, Whole
<1>2. /\ r \in Seq(Halves) /\ t \in Seq(Halves) /\ s \in Seq(Halves)
      /\ Len(s) >= 2 /\ Len(t) = Len(s) - 2 /\ \A i \in 1..Len(t) : t[i] = s[2 + i]
      /\ s[1] = b[1] /\ s[2] = b[2]
  BY <1>1, BehindIt DEF Taken, OnTheWay
<1>3. got \in Seq(AnyCommand) /\ InOrder(s, got, dglSent)
  BY ConcatProperties DEF StreamInv, StreamTypes
<1>4. c = s[2].cmds /\ s[2] \in Halves
  <2>1. 2 \in 1..Len(s)
    BY <1>2, LenProperties
  <2> QED
    BY <1>2, <2>1, ElementOfSeq
<1>5. c \in Seq(AnyCommand)
  BY <1>4 DEF Halves
<1>6. ~Varies(c) => d = c
  OBVIOUS
<1> HIDE DEF b, c, s, r, t, got
<1>7. /\ Len(c) >= 1 /\ s[1].cmds = c /\ (Varies(c) => Varies(dglSent))
      /\ (Len(s) \in 2..3 => Len(s) = 2)
  <2>1. s # <<>>
    BY <1>2
  <2>2. /\ Len(s[2].cmds) >= 1 /\ s[1].cmds = s[2].cmds /\ (Len(s) \in 2..3 => Len(s) = 2)
        /\ Varies(s[2].cmds) => Varies(dglSent)
    BY <1>1, <1>2, <1>3, <2>1, FirstMessage
  <2> QED
    BY <1>4, <2>2
<1>8. ~Varies(dglSent) => d = s[2].cmds
  BY <1>4, <1>6, <1>7
<1>9. InOrder(t, got \o d, dglSent)
  BY <1>1, <1>2, <1>3, <1>8, TakesMessage
<1>10. Len(s) \in 2..3 => t = <<>>
  <2> SUFFICES ASSUME Len(s) \in 2..3 PROVE t = <<>>
    OBVIOUS
  <2>1. Len(t) = 0
    BY <1>2, <1>7
  <2> QED
    BY <1>2, <2>1, EmptySeq
<1>11. Len(c) \in 1..Len(c) /\ Len(s) \in Nat /\ Len(t) \in Nat
  BY <1>2, <1>5, <1>7, LenProperties
<1> QED
  BY <1>2, <1>4, <1>5, <1>7, <1>9, <1>10, <1>11 DEF b, c, s, r, t, got

LEMMA PayloadKeeps ==
  ASSUME StreamInv, HandlePayload
  PROVE  StreamInv'
<1> DEFINE c == dglBuf[2].cmds
           s == OnTheWay
           t == Taken \o dglWire
           d == Parsed(c)
           l == Last(Parsed(c))
<1>1. /\ framed /\ Whole /\ drawn' = drawn \o d /\ dglBuf' = Taken
      /\ IF Asks(Last(c)) THEN /\ dglReplies' = Append(dglReplies, Reply(l))
                               /\ nextWid' = nextWid + IF l.kind = "winopen" THEN 1 ELSE 0
                          ELSE UNCHANGED <<dglReplies, nextWid>>
      /\ UNCHANGED <<framed, feeding, dglSent, asking, dglWire, decoded, unsynced>>
      /\ StreamTypes /\ OneAsks /\ RightReply
  BY DEF HandlePayload, Synced, ForLast, StreamInv
<1>2. /\ decoded = <<>> /\ drawn \in Seq(AnyCommand) /\ dglSent \in Seq(AnyCommand) /\ nextWid \in Nat
      /\ dglReplies \in Seq([for : DglKinds, wid : Nat])
  BY <1>1 DEF StreamTypes
<1>3. c \in Seq(AnyCommand) /\ Len(c) >= 1
  <2>1. dglBuf \in Seq(Halves) /\ 2 \in 1..Len(dglBuf)
    BY <1>1, LenProperties DEF StreamTypes, Whole
  <2>2. dglBuf[2] \in Halves
    BY <2>1, ElementOfSeq
  <2>3. c \in Seq(AnyCommand)
    BY <2>2 DEF Halves
  <2> QED
    BY <1>1, <2>3, TakesOne
<1>4. /\ d \in Seq(AnyCommand) /\ l \in AnyCommand /\ Last(c) \in AnyCommand
      /\ ~Varies(c) => d = c
  BY <1>3, ParsedFrame
<1>5. /\ Len(c) \in 1..Len(c) /\ Len(s) >= 2
      /\ Taken \in Seq(Halves) /\ Len(t) = Len(s) - 2
      /\ \A i \in 1..Len(t) : t[i] = s[2 + i]
      /\ s[2].cmds = c
      /\ InOrder(t, (drawn \o decoded) \o d, dglSent)
      /\ Varies(c) => Varies(dglSent)
      /\ Len(s) \in 2..3 => t = <<>>
      /\ Len(s) \in Nat /\ Len(t) \in Nat
  BY <1>1, <1>4, TakesOne
<1>6. OnTheWay' = t
  BY <1>1 DEF OnTheWay
<1> HIDE DEF c, s, t, d, l
<1>7. InOrder(OnTheWay', (drawn \o decoded)', dglSent')
  <2>1. (drawn \o decoded) \o d = drawn \o d
    BY <1>2, ConcatEmptySeq
  <2>2. drawn \o d \in Seq(AnyCommand)
    BY <1>2, <1>4, ConcatProperties
  <2>3. (drawn \o decoded)' = drawn \o d
    <3>1. (drawn \o decoded)' = (drawn \o d) \o <<>>
      BY <1>1, <1>2
    <3> QED
      BY <2>2, <3>1, ConcatEmptySeq
  <2> QED
    BY <1>1, <1>5, <1>6, <2>1, <2>3
<1>8. StreamTypes'
  <2>1. drawn \o d \in Seq(AnyCommand)
    BY <1>2, <1>4, ConcatProperties
  <2>2. Reply(l) \in [for : DglKinds, wid : Nat]
    BY <1>2, <1>4 DEF Reply, AnyCommand
  <2>3. Append(dglReplies, Reply(l)) \in Seq([for : DglKinds, wid : Nat])
    BY <1>2, <2>2, AppendProperties
  <2>4. nextWid' \in Nat
    BY <1>1, <1>2
  <2>5. dglReplies' = dglReplies \/ dglReplies' = Append(dglReplies, Reply(l))
    BY <1>1
  <2>6. dglReplies' \in Seq([for : DglKinds, wid : Nat])
    BY <1>2, <2>3, <2>5, Zenon
  <2> QED
    BY <1>1, <1>5, <2>1, <2>4, <2>6 DEF StreamTypes
<1>9. \A k \in 1..Len(decoded) : ~Asks(decoded[k])
  <2>1. Len(decoded) = 0
    BY <1>2
  <2> QED
    BY <2>1
<1>10. ASSUME NEW i \in 1..Len(t)
       PROVE  2 + i \in 1..Len(s) /\ t[i] = s[2 + i]
  BY <1>5
<1>11. CASE Asks(Last(c))
  <2>1. 2 \in 1..Len(s) /\ Len(c) \in 1..Len(s[2].cmds) /\ s[2].cmds[Len(c)] = Last(c)
    BY <1>5 DEF Last
  <2>2. 2 >= Len(s) - 1 /\ Last(c) = asking /\ dglReplies = <<>>
    BY <1>1, <1>11, <2>1 DEF OneAsks, s
  <2>3. t = <<>> /\ Len(t) = 0
    BY <1>5, <2>2
  <2>4. dglReplies' = <<Reply(l)>>
    BY <1>1, <1>11, <2>2
  <2>5. RightReply'
    <3>1. Reply(l).for = l.kind
      BY DEF Reply
    <3>2. l.kind = asking.kind \/ Varies(dglSent)
      <4>1. CASE Varies(c)
        BY <1>5, <4>1
      <4>2. CASE ~Varies(c)
        BY <1>4, <2>2, <4>2 DEF l, d
      <4> QED
        BY <4>1, <4>2
    <3>3. Len(dglReplies') = 1 /\ Head(dglReplies') = Reply(l)
      BY <2>4
    <3> QED
      BY <1>1, <1>11, <2>2, <3>1, <3>2, <3>3 DEF RightReply
  <2>6. OneAsks'
    BY <1>1, <1>6, <1>9, <2>3 DEF OneAsks
  <2> QED
    BY <1>7, <1>8, <2>5, <2>6 DEF StreamInv
<1>12. CASE ~Asks(Last(c))
  <2>1. dglReplies' = dglReplies
    BY <1>1, <1>12
  <2>2. RightReply'
    BY <1>1, <2>1 DEF RightReply
  <2>3. ASSUME NEW i \in 1..Len(t), NEW j \in 1..Len(t[i].cmds), Asks(t[i].cmds[j])
        PROVE  /\ i >= Len(t) - 1 /\ j = Len(t[i].cmds) /\ t[i].cmds[j] = asking
               /\ dglReplies = <<>>
    <3>1. 2 + i \in 1..Len(s) /\ t[i] = s[2 + i]
      BY <1>10
    <3>2. /\ 2 + i >= Len(s) - 1 /\ j = Len(s[2 + i].cmds) /\ s[2 + i].cmds[j] = asking
          /\ dglReplies = <<>>
      BY <1>1, <2>3, <3>1 DEF OneAsks, s
    <3> QED
      BY <1>5, <3>1, <3>2
  <2>4. OneAsks'
    BY <1>1, <1>6, <1>9, <2>1, <2>3 DEF OneAsks
  <2> QED
    BY <1>7, <1>8, <2>2, <2>4 DEF StreamInv
<1> QED
  BY <1>11, <1>12

LEMMA TryKeeps ==
  ASSUME StreamInv, TryOne
  PROVE  StreamInv'
<1> DEFINE c == dglBuf[2].cmds
           s == OnTheWay
           t == Taken \o dglWire
<1>1. /\ ~framed /\ Whole /\ decoded' = decoded \o c /\ dglBuf' = Taken
      /\ UNCHANGED <<framed, feeding, dglSent, asking, dglWire, drawn, dglReplies, nextWid, unsynced>>
      /\ StreamTypes /\ OneAsks /\ RightReply
  BY DEF TryOne, StreamInv
<1>2. decoded \in Seq(AnyCommand) /\ drawn \in Seq(AnyCommand) /\ dglSent \in Seq(AnyCommand)
  BY <1>1 DEF StreamTypes
<1>3. c \in Seq(AnyCommand)
  <2>1. dglBuf \in Seq(Halves) /\ 2 \in 1..Len(dglBuf)
    BY <1>1, LenProperties DEF StreamTypes, Whole
  <2>2. dglBuf[2] \in Halves
    BY <2>1, ElementOfSeq
  <2> QED
    BY <2>2 DEF Halves
<1>4. /\ Len(c) >= 1 /\ Len(s) >= 2
      /\ Taken \in Seq(Halves) /\ Len(t) = Len(s) - 2
      /\ \A i \in 1..Len(t) : t[i] = s[2 + i]
      /\ s[2].cmds = c
      /\ InOrder(t, (drawn \o decoded) \o c, dglSent)
      /\ Len(s) \in 2..3 => t = <<>>
      /\ Len(s) \in Nat /\ Len(t) \in Nat
  BY <1>1, <1>3, TakesOne
<1>5. OnTheWay' = t
  BY <1>1 DEF OnTheWay
<1> HIDE DEF c, s, t
<1>6. InOrder(OnTheWay', (drawn \o decoded)', dglSent')
  <2>1. \A z \in Seq(AnyCommand) : (drawn \o decoded) \o z = drawn \o (decoded \o z)
    BY <1>2, CommandsInRow, Zenon
  <2>2. (drawn \o decoded) \o c = drawn \o (decoded \o c)
    BY <1>3, <2>1
  <2> QED
    BY <1>1, <1>4, <1>5, <2>2
<1>7. StreamTypes'
  <2>1. decoded \o c \in Seq(AnyCommand)
    BY <1>2, <1>3, ConcatProperties
  <2> QED
    BY <1>1, <1>4, <2>1 DEF StreamTypes
<1>8. s # <<>> /\ 2 \in 1..Len(s)
  BY <1>4
<1>9. \A k \in 1..Len(decoded) : ~Asks(decoded[k])
  BY <1>1, <1>8 DEF OneAsks, s
<1>10. /\ Len(decoded \o c) = Len(decoded) + Len(c) /\ Len(decoded) \in Nat /\ Len(c) \in Nat
       /\ \A k \in 1..Len(decoded) : (decoded \o c)[k] = decoded[k]
       /\ \A k \in 1..Len(c) : (decoded \o c)[Len(decoded) + k] = c[k]
  BY <1>2, <1>3, TwoParts
<1>11. ASSUME NEW j \in 1..Len(c), Asks(c[j])
       PROVE  j = Len(c) /\ c[j] = asking /\ dglReplies = <<>> /\ t = <<>> /\ Len(t) = 0
  <2>1. j \in 1..Len(s[2].cmds) /\ Asks(s[2].cmds[j])
    BY <1>4, <1>11
  <2>2. 2 >= Len(s) - 1 /\ j = Len(s[2].cmds) /\ s[2].cmds[j] = asking /\ dglReplies = <<>>
    BY <1>1, <1>8, <2>1 DEF OneAsks, s
  <2> QED
    BY <1>4, <2>2
<1>12. ASSUME NEW k \in 1..Len(decoded \o c), Asks((decoded \o c)[k])
       PROVE  /\ k = Len(decoded \o c) /\ (decoded \o c)[k] = asking /\ dglReplies = <<>>
              /\ t = <<>> /\ Len(t) = 0
  <2>1. k \notin 1..Len(decoded)
    BY <1>9, <1>10, <1>12
  <2> DEFINE j == k - Len(decoded)
  <2>2. j \in 1..Len(c) /\ Len(decoded) + j = k
    BY <1>10, <2>1
  <2>3. (decoded \o c)[k] = c[j] /\ Asks(c[j])
    BY <1>10, <1>12, <2>2
  <2> HIDE DEF j
  <2> QED
    BY <1>10, <1>11, <2>2, <2>3
<1>13. ASSUME NEW i \in 1..Len(t), NEW j \in 1..Len(t[i].cmds), Asks(t[i].cmds[j])
       PROVE  /\ i >= Len(t) - 1 /\ j = Len(t[i].cmds) /\ t[i].cmds[j] = asking
              /\ dglReplies = <<>> /\ \A k \in 1..Len(decoded \o c) : ~Asks((decoded \o c)[k])
  <2>1. 2 + i \in 1..Len(s) /\ t[i] = s[2 + i]
    BY <1>4
  <2>2. /\ 2 + i >= Len(s) - 1 /\ j = Len(s[2 + i].cmds) /\ s[2 + i].cmds[j] = asking
        /\ dglReplies = <<>>
    BY <1>1, <1>13, <2>1 DEF OneAsks, s
  <2>3. \A k \in 1..Len(decoded \o c) : ~Asks((decoded \o c)[k])
    BY <1>12, <1>13
  <2>4. i >= Len(t) - 1
    BY <1>4, <2>2
  <2>5. t[i].cmds = s[2 + i].cmds
    BY <2>1
  <2> QED
    BY <2>2, <2>3, <2>4, <2>5
<1>14. OneAsks'
  BY <1>1, <1>5, <1>12, <1>13 DEF OneAsks
<1>15. RightReply'
  BY <1>1 DEF RightReply
<1> QED
  BY <1>6, <1>7, <1>14, <1>15 DEF StreamInv

(* A gap in a stream without one would be a command of unknown length.     *)
LEMMA GapKeeps ==
  ASSUME StreamInv, LosesSync
  PROVE  StreamInv'
<1>1. /\ ~framed /\ Gap /\ decoded' = <<>>
      /\ UNCHANGED <<framed, dglSent, asking, dglWire, dglBuf, drawn, dglReplies, nextWid>>
      /\ StreamTypes /\ OneAsks /\ RightReply
  BY DEF LosesSync, StreamInv
<1> DEFINE s == OnTheWay
<1>2. PICK m \in Nat : \E f \in [0..m -> Nat] :
        Laid(s, m, f, dglSent) /\ GoesOn(drawn \o decoded, dglSent, f[0])
  BY DEF StreamInv, InOrder
<1>3. PICK f \in [0..m -> Nat] : Laid(s, m, f, dglSent) /\ GoesOn(drawn \o decoded, dglSent, f[0])
  BY <1>2
<1>4. s \in Seq(Halves) /\ Len(s) \in Nat /\ Len(s) >= 1 /\ s[1] = dglBuf[1]
  <2>1. dglBuf \in Seq(Halves) /\ dglWire \in Seq(Halves) /\ dglBuf # <<>>
    BY <1>1 DEF StreamTypes, Gap, HeadIs
  <2>2. /\ s \in Seq(Halves) /\ Len(s) = Len(dglBuf) + Len(dglWire)
        /\ Len(dglBuf) \in Nat /\ Len(dglWire) \in Nat
        /\ \A i \in 1..Len(dglBuf) : s[i] = dglBuf[i]
    BY <2>1, TwoParts DEF OnTheWay
  <2>3. 1 \in 1..Len(dglBuf)
    BY <2>1, <2>2, EmptySeq
  <2> QED
    BY <2>2, <2>3
<1>5. Varies(dglSent)
  <2> DEFINE got == drawn \o decoded
  <2>1. got \in Seq(AnyCommand) /\ dglSent \in Seq(AnyCommand) /\ InOrder(s, got, dglSent)
    BY <1>1, ConcatProperties DEF StreamTypes, StreamInv
  <2>2. s # <<>>
    BY <1>4
  <2> HIDE DEF s, got
  <2>3. s[1].cmds = s[2].cmds /\ (s[2].cmds[1].kind = "vary" => Varies(dglSent))
    BY <1>4, <2>1, <2>2, FirstMessage
  <2> QED
    BY <1>1, <1>4, <2>3 DEF Gap, HeadIs
<1>6. OnTheWay' = OnTheWay
  BY <1>1 DEF OnTheWay
<1>7. InOrder(OnTheWay', (drawn \o decoded)', dglSent')
  <2>1. GoesOn((drawn \o decoded)', dglSent', f[0])
    BY <1>1, <1>5 DEF GoesOn
  <2>2. Laid(OnTheWay', m, f, dglSent')
    BY <1>1, <1>3, <1>6
  <2> QED
    BY <2>1, <2>2 DEF InOrder
<1>8. StreamTypes'
  BY <1>1, EmptySeq DEF StreamTypes
<1>9. OneAsks'
  <2>1. Len(<<>>) = 0
    OBVIOUS
  <2> QED
    BY <1>1, <1>6, <2>1 DEF OneAsks
<1>10. RightReply'
  BY <1>1 DEF RightReply
<1> QED
  BY <1>7, <1>8, <1>9, <1>10 DEF StreamInv

LEMMA DispatchKeeps ==
  ASSUME StreamInv, Dispatch
  PROVE  StreamInv'
<1>1. /\ UNCHANGED <<framed, dglSent, asking, dglWire, dglBuf, unsynced>>
      /\ StreamTypes /\ OneAsks /\ RightReply
  BY DEF Dispatch, StreamInv
<1>2. CASE decoded = <<>>
  <2>1. UNCHANGED <<framed, dglSent, asking, dglWire, dglBuf, decoded, drawn, dglReplies, nextWid>>
    BY <1>2 DEF Dispatch
  <2> QED
    BY <2>1, SameStream
<1>3. CASE decoded # <<>>
  <2> DEFINE c == Head(decoded)
  <2>1. /\ decoded' = Tail(decoded) /\ drawn' = Append(drawn, c)
        /\ dglReplies' = IF Returns(c) THEN Append(dglReplies, Reply(c)) ELSE dglReplies
        /\ nextWid' = nextWid + IF c.kind = "winopen" THEN 1 ELSE 0
    BY <1>3 DEF Dispatch
  <2>2. /\ decoded \in Seq(AnyCommand) /\ drawn \in Seq(AnyCommand) /\ nextWid \in Nat /\ ~framed
        /\ dglReplies \in Seq([for : DglKinds, wid : Nat])
    BY <1>1, <1>3 DEF StreamTypes
  <2>3. /\ c \in AnyCommand /\ Tail(decoded) \in Seq(AnyCommand)
        /\ Append(drawn, c) \in Seq(AnyCommand) /\ Append(drawn, c) \o Tail(decoded) = drawn \o decoded
    BY <1>3, <2>2, MovesOn
  <2>4. /\ Len(Tail(decoded)) = Len(decoded) - 1 /\ Len(decoded) \in Nat /\ c = decoded[1]
        /\ \A k \in 1..Len(Tail(decoded)) : Tail(decoded)[k] = decoded[k + 1]
        /\ 1 \in 1..Len(decoded)
    BY <1>3, <2>2, HeadTailProperties, EmptySeq, LenProperties
  <2> HIDE DEF c
  <2>5. OnTheWay' = OnTheWay
    BY <1>1 DEF OnTheWay
  <2>6. InOrder(OnTheWay', (drawn \o decoded)', dglSent')
    BY <1>1, <2>1, <2>3, <2>5 DEF StreamInv
  <2>7. StreamTypes'
    <3>1. Reply(c) \in [for : DglKinds, wid : Nat]
      BY <2>2, <2>3 DEF Reply, AnyCommand
    <3>2. Append(dglReplies, Reply(c)) \in Seq([for : DglKinds, wid : Nat])
      BY <2>2, <3>1, AppendProperties
    <3>3. nextWid' \in Nat
      BY <2>1, <2>2
    <3>4. dglReplies' = dglReplies \/ dglReplies' = Append(dglReplies, Reply(c))
      BY <2>1
    <3>5. dglReplies' \in Seq([for : DglKinds, wid : Nat])
      BY <2>2, <3>2, <3>4, Zenon
    <3> QED
      BY <1>1, <2>1, <2>2, <2>3, <3>3, <3>5 DEF StreamTypes
  <2>8. CASE Asks(c)
    <3>1. 1 = Len(decoded) /\ c = asking /\ dglReplies = <<>> /\ OnTheWay = <<>>
      BY <1>1, <2>4, <2>8 DEF OneAsks
    <3>2. Len(decoded') = 0 /\ Len(OnTheWay') = 0
      BY <2>1, <2>4, <2>5, <3>1
    <3>3. OneAsks'
      BY <1>1, <3>2 DEF OneAsks
    <3>4. dglReplies' \in {<<>>, <<Reply(c)>>}
      BY <2>1, <3>1
    <3>5. RightReply'
      <4>1. CASE dglReplies' = <<>>
        BY <4>1 DEF RightReply
      <4>2. CASE dglReplies' = <<Reply(c)>>
        <5>1. asking' = c /\ framed' = framed /\ dglSent' = dglSent
          BY <1>1, <3>1
        <5>2. Len(dglReplies') = 1 /\ Head(dglReplies').for = c.kind
          BY <4>2 DEF Reply
        <5> QED
          BY <2>8, <5>1, <5>2 DEF RightReply
      <4> QED
        BY <3>4, <4>1, <4>2
    <3> QED
      BY <2>6, <2>7, <3>3, <3>5 DEF StreamInv
  <2>9. CASE ~Asks(c)
    <3>1. dglReplies' = dglReplies
      BY <2>1, <2>9 DEF Returns, Asks
    <3>2. ASSUME NEW k \in 1..Len(decoded'), Asks(decoded'[k])
          PROVE  /\ k = Len(decoded') /\ decoded'[k] = asking /\ dglReplies = <<>>
                 /\ OnTheWay = <<>>
      <4>1. k + 1 \in 1..Len(decoded) /\ decoded'[k] = decoded[k + 1]
        BY <2>1, <2>4
      <4>2. k + 1 = Len(decoded) /\ decoded[k + 1] = asking /\ dglReplies = <<>> /\ OnTheWay = <<>>
        BY <1>1, <3>2, <4>1 DEF OneAsks
      <4> QED
        BY <2>1, <2>4, <4>1, <4>2
    <3>3. ASSUME NEW i \in 1..Len(OnTheWay), NEW j \in 1..Len(OnTheWay[i].cmds),
                 Asks(OnTheWay[i].cmds[j]), NEW k \in 1..Len(decoded')
          PROVE  ~Asks(decoded'[k])
      <4>1. Len(OnTheWay) # 0
        <5>1. dglBuf \o dglWire \in Seq(Halves)
          BY <1>1, ConcatProperties DEF StreamTypes
        <5> QED
          BY <5>1, LenProperties DEF OnTheWay
      <4> QED
        BY <3>2, <4>1
    <3>4. OneAsks'
      BY <1>1, <2>5, <3>1, <3>2, <3>3 DEF OneAsks
    <3>5. RightReply'
      BY <1>1, <3>1 DEF RightReply
    <3> QED
      BY <2>6, <2>7, <3>4, <3>5 DEF StreamInv
  <2> QED
    BY <2>8, <2>9
<1> QED
  BY <1>2, <1>3

(* The stream means to the renderer what it meant to the client            *)
(* (StreamSound): however it is cut into reads, the commands of known      *)
(* length are drawn once and in order, and the one reply is for the        *)
(* command that asked.                                                     *)
THEOREM StreamStaysSound == DglSpec => []StreamSound
<1>1. DglInit => StreamInv
  <2> SUFFICES ASSUME DglInit PROVE StreamInv
    OBVIOUS
  <2>1. StreamTypes
    BY EmptySeq DEF DglInit, StreamTypes, NoCommand, Command, AnyCommand, DglKinds
  <2>2. OnTheWay = <<>> /\ drawn \o decoded = <<>> /\ dglSent = <<>> /\ Len(<<>>) = 0
    <3>1. <<>> \in Seq(Halves) /\ <<>> \o <<>> = <<>>
      BY EmptySeq, ConcatEmptySeq
    <3> QED
      BY <3>1 DEF DglInit, OnTheWay
  <2>3. InOrder(<<>>, <<>>, <<>>)
    <3> DEFINE f == [i \in 0..0 |-> 0]
    <3>1. f \in [0..0 -> Nat] /\ f[0] = 0 /\ 0 \in Nat
      OBVIOUS
    <3> HIDE DEF f
    <3>2. Laid(<<>>, 0, f, <<>>) /\ GoesOn(<<>>, <<>>, f[0])
      BY <2>2, <3>1 DEF Laid, GoesOn
    <3> QED
      BY <3>1, <3>2 DEF InOrder
  <2>4. OneAsks /\ RightReply
    BY <2>2 DEF DglInit, OneAsks, RightReply
  <2> QED
    BY <2>1, <2>2, <2>3, <2>4 DEF StreamInv
<1>2. StreamInv /\ [DglNext]_dglVars => StreamInv'
  <2> SUFFICES ASSUME StreamInv, [DglNext]_dglVars PROVE StreamInv'
    OBVIOUS
  <2>1. CASE ClientSends
    BY <2>1, SendsKeeps
  <2>2. CASE ClientReads
    BY <2>2, ReadsKeeps
  <2>3. CASE Recv
    BY <2>3, RecvKeeps
  <2>4. CASE HandlePayload
    BY <2>4, PayloadKeeps
  <2>5. CASE TryOne
    BY <2>5, TryKeeps
  <2>6. CASE LosesSync
    BY <2>6, GapKeeps
  <2>7. CASE Dispatch
    BY <2>7, DispatchKeeps
  <2>8. CASE FeedEnds \/ DecodeEnds \/ Spins \/ UNCHANGED dglVars
    <3>1. UNCHANGED <<framed, dglSent, asking, dglWire, dglBuf, decoded, drawn, dglReplies, nextWid>>
      BY <2>8 DEF FeedEnds, DecodeEnds, Spins, dglVars
    <3> QED
      BY <3>1, SameStream
  <2> QED
    BY <2>1, <2>2, <2>3, <2>4, <2>5, <2>6, <2>7, <2>8 DEF DglNext, DglServer
<1>3. StreamInv => StreamSound
  <2> SUFFICES ASSUME StreamInv PROVE StreamSound
    OBVIOUS
  <2>1. /\ dglBuf \in Seq(Halves) /\ dglWire \in Seq(Halves) /\ dglSent \in Seq(AnyCommand)
        /\ drawn \in Seq(AnyCommand) /\ decoded \in Seq(AnyCommand)
        /\ InOrder(OnTheWay, drawn \o decoded, dglSent) /\ RightReply
    BY DEF StreamInv, StreamTypes
  <2> DEFINE got == drawn \o decoded
             s == OnTheWay
  <2>2. got \in Seq(AnyCommand)
    BY <2>1, ConcatProperties
  <2>3. s \in Seq(Halves)
    BY <2>1, ConcatProperties DEF OnTheWay
  <2>4. InOrder(s, got, dglSent)
    BY <2>1
  <2>5. dglBuf = <<>> /\ dglWire = <<>> => s = <<>>
    BY EmptySeq, ConcatEmptySeq DEF OnTheWay
  <2> HIDE DEF got, s
  <2>6. ~Varies(dglSent) => IsPrefix(got, dglSent) /\ (s = <<>> => got = dglSent)
    BY <2>1, <2>2, <2>3, <2>4, TakenInOrder
  <2>7. NothingLost
    BY <2>5, <2>6 DEF NothingLost, got
  <2> QED
    BY <2>1, <2>7 DEF StreamSound
<1> QED
  BY <1>1, <1>2, <1>3, PTL DEF DglSpec
=============================================================================
