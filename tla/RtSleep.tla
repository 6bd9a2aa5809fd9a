------------------------------ MODULE RtSleep ------------------------------
(***************************************************************************)
(* Sleeping with the real-time gate: nano_delay()                          *)
(* (patches/phase2/clock_patch.c), nanosleep(), nanosleep_common() and     *)
(* sginap() (patches/phase2/ptimers_patch.c).                              *)
(*                                                                         *)
(* The guest's own clock runs ahead of real time by any amount while the   *)
(* machine is idle, so a kernel sleep may end at any moment; each thread   *)
(* sleeps a tick at a time and looks at the real-time counter, a word of   *)
(* microseconds that wraps.                                                *)
(***************************************************************************)
EXTENDS Integers

CONSTANTS
  Sleepers,
  Durations,   \* what is asked for, in microseconds
  Cap,         \* above it, the kernel's own sleep: 2000 s
  RtWord,      \* 2^32: the range of the counter and of the target
  TickTime,    \* one tick
  MaxReal      \* bound: real time
ASSUME SleepConstants ==
  /\ RtWord \in Nat \ {0} /\ TickTime \in Nat /\ MaxReal \in Nat /\ Cap \in 0..(RtWord - 1)
  /\ Durations \subseteq Nat

VARIABLES
  real,      \* real time
  sleep,     \* sleep[t]: "awake", "native" or "tick"
  call,      \* call[t]: "nano_delay" or "nanosleep"
  asked,     \* asked[t]: the time asked for
  rtStart,   \* rt_start
  began,     \* the real time when it was read
  woke,      \* woke[t]: "none", "done" or "EINTR"
  since,     \* the real time that had passed by then
  left       \* what an interrupted call reports as left

sleepVars == <<real, sleep, call, asked, rtStart, began, woke, since, left>>

WideCounter == real                                                    \* a mistake
Counter == real % RtWord

(* The target is computed in the counter's width; a delay of less than a   *)
(* microsecond is one of a microsecond.                                    *)
Target(t) == IF call[t] = "nano_delay" /\ asked[t] = 0 THEN 1 ELSE asked[t] % RtWord
Elapsed(t) == (Counter - rtStart[t]) % RtWord
AtTarget(t) == Counter >= (rtStart[t] + Target(t)) % RtWord            \* a mistake
GateOpen(t) == Elapsed(t) >= Target(t)

SleepInit ==
  /\ real = 0
  /\ sleep = [t \in Sleepers |-> "awake"] /\ call = [t \in Sleepers |-> "nanosleep"]
  /\ asked = [t \in Sleepers |-> 0] /\ rtStart = asked /\ began = asked /\ since = asked
  /\ woke = [t \in Sleepers |-> "none"] /\ left = asked

Sleeps(t) ==
  /\ sleep[t] = "awake"
  /\ \E f \in {"nano_delay", "nanosleep"}, d \in Durations :
       /\ call' = [call EXCEPT ![t] = f] /\ asked' = [asked EXCEPT ![t] = d]
       /\ sleep' = [sleep EXCEPT ![t] = IF d > Cap THEN "native" ELSE "tick"]
  /\ rtStart' = [rtStart EXCEPT ![t] = Counter] /\ began' = [began EXCEPT ![t] = real]
  /\ woke' = [woke EXCEPT ![t] = "none"] /\ since' = [since EXCEPT ![t] = 0]
  /\ left' = [left EXCEPT ![t] = 0]
  /\ UNCHANGED real

Wakes(t, how, rest) ==
  /\ sleep' = [sleep EXCEPT ![t] = "awake"] /\ woke' = [woke EXCEPT ![t] = how]
  /\ since' = [since EXCEPT ![t] = real - began[t]] /\ left' = [left EXCEPT ![t] = rest]
  /\ UNCHANGED <<real, call, asked, rtStart, began>>

(* A tick has gone by in the guest: enough, or sleep again.                *)
Tick(t) == sleep[t] = "tick" /\ GateOpen(t) /\ Wakes(t, "done", 0)

(* The kernel's own sleep has no gate.                                     *)
Native(t) == sleep[t] = "native" /\ Wakes(t, "done", 0)

(* A signal: what is left is what is left of the sleep under way.          *)
Signal(t) ==
  /\ sleep[t] # "awake" /\ call[t] = "nanosleep"
  /\ \E rest \in 0..IF sleep[t] = "tick" THEN TickTime ELSE asked[t] : Wakes(t, "EINTR", rest)

TimePasses == real < MaxReal /\ real' = real + 1
              /\ UNCHANGED <<sleep, call, asked, rtStart, began, woke, since, left>>

SleepNext == TimePasses \/ \E t \in Sleepers : Sleeps(t) \/ Tick(t) \/ Native(t) \/ Signal(t)
SleepSpec == SleepInit /\ [][SleepNext]_sleepVars

-----------------------------------------------------------------------------
(* Correctness.                                                            *)

SleepTypeOK ==
  /\ real \in Nat /\ sleep \in [Sleepers -> {"awake", "native", "tick"}]
  /\ call \in [Sleepers -> {"nano_delay", "nanosleep"}]
  /\ asked \in [Sleepers -> Durations \cup {0}] /\ rtStart \in [Sleepers -> 0..(RtWord - 1)]
  /\ began \in [Sleepers -> Nat] /\ since \in [Sleepers -> Nat] /\ left \in [Sleepers -> Nat]
  /\ woke \in [Sleepers -> {"none", "done", "EINTR"}]

(* A sleep that the gate serves and no signal ends is not shorter than     *)
(* asked for, however often the counter wraps in the meantime.             *)
NeverShort ==
  \A t \in Sleepers : woke[t] = "done" /\ asked[t] <= Cap => since[t] >= asked[t]
=============================================================================
