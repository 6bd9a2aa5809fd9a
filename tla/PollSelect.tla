----------------------------- MODULE PollSelect -----------------------------
(***************************************************************************)
(* The poll(2)/select(2) core of the patched IRIX kernel,                  *)
(* src/patches/phase2/select_patch.c: polling threads that scan their      *)
(* descriptors, hang polldats on the pollheads of the objects, sleep, and  *)
(* are woken by pollwakeup(), by the one-tick timeout or by a signal; and  *)
(* the real-time gate the patch puts on the timeout.                       *)
(*                                                                         *)
(* A pollhead's ph_lock is held across the whole walk of pollwakeup(), so  *)
(* it is a variable.  The critical sections of ut_pollrotorlock contain no *)
(* wait of their own and each is one step.  A call VOP_POLL/VSOP_SELECT is *)
(* two steps: the driver snapshots the generation, then looks at the       *)
(* device (the interface the comment at lines 429-440 describes).          *)
(* A positive timeout becomes a callout of one virtual tick (lines         *)
(* 323-331), and untimeout() returns 0 exactly if the callout went off.    *)
(***************************************************************************)
EXTENDS Integers, FiniteSets

CONSTANTS
  Threads,    \* polling threads (uthread_t)
  NFds,       \* length of each thread's pollfd array
  Objects,    \* vnodes and vsockets that can be polled
  Headless,   \* objects whose poll routine supplies no pollhead
  Obj,        \* Obj[t][i]: the object that entry i of t's array refers to
  Events,     \* event bits
  Want,       \* Want[t][i]: the events entry i asks for
  Always,     \* POLLHUP and POLLERR: delivered whether asked for or not
  OneEvents,  \* events posted with POLLWAKEUPONE
  Wakers,     \* contexts that run pollwakeup()
  MaxGen,     \* bound: pollwakeup() calls per pollhead
  RotorMask,  \* ROTORFDMASK
  Requests,   \* timeouts a caller may ask for, in microseconds
  NoTimeout,  \* a null timeval
  RtWrap,     \* 2^32: where the real-time counter and the target wrap
  MaxAge      \* bound: microseconds that elapse in one call

Idx == 0 .. NFds - 1

NoOne == "nobody"

ASSUME PollConstants ==
  /\ NFds \in Nat
  /\ Headless \subseteq Objects
  /\ Obj  \in [Threads -> [Idx -> Objects]]
  /\ Want \in [Threads -> [Idx -> SUBSET Events]]
  /\ NoOne \notin Wakers \cup Objects \cup Events
  /\ Always \subseteq Events /\ OneEvents \subseteq Events
  /\ MaxGen \in Nat /\ MaxAge \in Nat
  /\ RtWrap \in Nat \ {0}
  /\ Requests \subseteq Nat /\ NoTimeout \notin Nat

(* An index plus one fits the fd field of ut_pollrotor (14 bits in the     *)
(* code, which does not check it).                                         *)
ASSUME RotorFits == RotorMask \in Nat /\ NFds <= RotorMask

VARIABLES
  \* ---- pollheads and devices ----
  ready,    \* events currently true of each object
  phlist,   \* ph_list: the polldats <<thread, index>> on the pollhead
  phgen,    \* ph_gen
  phlock,   \* holder of ph_lock
  wpc,      \* each waker's program counter,
  wobj,     \* the object it is waking,
  wev,      \* the event it is about,
  todo,     \* and the polldats its walk has yet to visit
  \* ---- polling threads ----
  pc,
  req,      \* the timeout argument atv
  rotor,    \* the fd field of ut_pollrotor: 0, or an index plus 1
  rotorMode,\* its mode bits
  cur,      \* dopoll's local rotor: the entry under the cursor
  visited,  \* the entries the scan has passed (the loop counter i)
  rwonce,   \* dopoll's local rwonce; "nohead" is -1
  mayblock,
  vcnt,
  revents,
  gen,      \* the generation the driver snapshotted
  dat,      \* entries whose polldat is in use: darray up to curdat
  rv,       \* what sv_wait_sig returned
  timer,    \* the callout of polltime()
  age,      \* real microseconds since dp_rt_start
  result    \* how the last call ended

wakeVars == <<wpc, wobj, wev, todo>>
headVars == <<ready, phlist, phgen, phlock, wakeVars>>
scanVars == <<cur, visited, rwonce, mayblock, vcnt, revents, gen>>
waitVars == <<req, rotor, rotorMode, dat, rv, timer, age, result>>
vars == <<headVars, pc, scanVars, waitVars>>

NoHead(o) == o \in Headless

(* The events an entry can return: the ones asked for, and POLLHUP/POLLERR *)
Interest(t, i) == Want[t][i] \cup Always
Fired(t, i) == ready[Obj[t][i]] \cap Interest(t, i)

PCs == {"idle", "retry", "scan", "probe", "add", "block", "asleep", "woken",
        "del", "out"}
Results == {"none", "ready", "timeout", "eintr", "error"}

HeadTypes ==
  /\ ready  \in [Objects -> SUBSET Events]
  /\ phlist \in [Objects -> SUBSET (Threads \X Idx)]
  /\ phgen  \in [Objects -> Nat]
  /\ phlock \in [Objects -> Wakers \cup {NoOne}]
  /\ wpc    \in [Wakers -> {"idle", "post", "walk"}]
  /\ wobj   \in [Wakers -> Objects \cup {NoOne}]
  /\ wev    \in [Wakers -> Events \cup {NoOne}]
  /\ todo   \in [Wakers -> SUBSET (Threads \X Idx)]
  /\ \A w \in Wakers : wpc[w] # "idle" => wobj[w] \in Objects /\ wev[w] \in Events

ScanTypes ==
  /\ cur      \in [Threads -> Idx \cup {0}]
  /\ \A t \in Threads : pc[t] \in {"probe", "add"} => cur[t] \in Idx
  /\ visited  \in [Threads -> SUBSET Idx]
  /\ rwonce   \in [Threads -> {"none", "once", "multi", "nohead"}]
  /\ mayblock \in [Threads -> BOOLEAN]
  /\ vcnt     \in [Threads -> Nat]
  /\ revents  \in [Threads -> [Idx -> SUBSET Events]]
  /\ gen      \in [Threads -> Nat]

WaitTypes ==
  /\ req    \in [Threads -> Requests \cup {NoTimeout}]
  /\ rotor  \in [Threads -> 0 .. NFds]
  /\ rotorMode \in [Threads -> {"none", "once", "multi"}]
  /\ dat    \in [Threads -> SUBSET Idx]
  /\ rv     \in [Threads -> {0, -1}]
  /\ timer  \in [Threads -> {"off", "armed", "fired"}]
  /\ age    \in [Threads -> Nat]
  /\ result \in [Threads -> Results]

TypeOK == HeadTypes /\ pc \in [Threads -> PCs] /\ ScanTypes /\ WaitTypes

Init ==
  /\ ready   = [o \in Objects |-> {}]
  /\ phlist  = [o \in Objects |-> {}]
  /\ phgen   = [o \in Objects |-> 0]
  /\ phlock  = [o \in Objects |-> NoOne]
  /\ wpc     = [w \in Wakers |-> "idle"]
  /\ wobj    = [w \in Wakers |-> NoOne]
  /\ wev     = [w \in Wakers |-> NoOne]
  /\ todo    = [w \in Wakers |-> {}]
  /\ pc      = [t \in Threads |-> "idle"]
  /\ req     = [t \in Threads |-> NoTimeout]
  /\ rotor   = [t \in Threads |-> 0]
  /\ rotorMode = [t \in Threads |-> "none"]
  /\ cur     = [t \in Threads |-> 0]
  /\ visited = [t \in Threads |-> {}]
  /\ rwonce  = [t \in Threads |-> "none"]
  /\ mayblock = [t \in Threads |-> FALSE]
  /\ vcnt    = [t \in Threads |-> 0]
  /\ revents = [t \in Threads |-> [i \in Idx |-> {}]]
  /\ gen     = [t \in Threads |-> 0]
  /\ dat     = [t \in Threads |-> {}]
  /\ rv      = [t \in Threads |-> 0]
  /\ timer   = [t \in Threads |-> "off"]
  /\ age     = [t \in Threads |-> 0]
  /\ result  = [t \in Threads |-> "none"]

-----------------------------------------------------------------------------
(* The target and the elapsed time as the 32-bit words the code computes.  *)
RtTarget(t)  == req[t] % RtWrap
RtElapsed(t) == age[t] % RtWrap

(* Plausible mistakes, each a wrong form of an operator defined below; the *)
(* properties reject every one of them.                                    *)
NextEntryOffByOne(i) == IF i + 1 > NFds THEN 0 ELSE i + 1
StillMayBlock(t)     == mayblock[t]
NeverStale(t)        == FALSE
NeverHinted(t)       == FALSE
NoCallout(t)         == "off"
GateOffByOne(t)      == RtTarget(t) = 0 \/ RtElapsed(t) + 1 >= RtTarget(t)
LeavesPolldats(t)    == TRUE

-----------------------------------------------------------------------------
(* The caller's side: dopoll().                                            *)

(* Enter dopoll with a timeout and an array of entries without revents.    *)
Call(t, r) ==
  /\ pc[t] = "idle"
  /\ pc'      = [pc EXCEPT ![t] = "retry"]
  /\ req'     = [req EXCEPT ![t] = r]
  /\ rotor'   = [rotor EXCEPT ![t] = 0]
  /\ rotorMode' = [rotorMode EXCEPT ![t] = "none"]
  /\ vcnt'    = [vcnt EXCEPT ![t] = 0]
  /\ revents' = [revents EXCEPT ![t] = [i \in Idx |-> {}]]
  /\ age'     = [age EXCEPT ![t] = 0]
  /\ result'  = [result EXCEPT ![t] = "none"]
  /\ UNCHANGED <<headVars, cur, visited, rwonce, mayblock, gen, dat, rv, timer>>

(* The start of a scan: take over the rotor hint and reset it, without the *)
(* rotor lock.                                                             *)
Retry(t) ==
  /\ pc[t] = "retry"
  /\ pc'       = [pc EXCEPT ![t] = "scan"]
  /\ cur'      = [cur EXCEPT ![t] = IF rotor[t] > 0 THEN rotor[t] - 1 ELSE 0]
  /\ rwonce'   = [rwonce EXCEPT ![t] = rotorMode[t]]
  /\ rotor'    = [rotor EXCEPT ![t] = 0]
  /\ rotorMode' = [rotorMode EXCEPT ![t] = "none"]
  /\ mayblock' = [mayblock EXCEPT ![t] = req[t] # 0]
  /\ visited'  = [visited EXCEPT ![t] = {}]
  /\ UNCHANGED <<headVars, vcnt, revents, gen, req, dat, rv, timer, age, result>>

(* Head of the loop; inside VOP_POLL the driver snapshots the generation.  *)
ScanEntry(t) ==
  /\ pc[t] = "scan" /\ visited[t] # Idx
  /\ gen' = [gen EXCEPT ![t] = phgen[Obj[t][cur[t]]]]
  /\ pc'  = [pc EXCEPT ![t] = "probe"]
  /\ UNCHANGED <<headVars, cur, visited, rwonce, mayblock, vcnt, revents, waitVars>>

(* The circular cursor steps to the next entry.                            *)
NextEntry(i) == IF i + 1 >= NFds THEN 0 ELSE i + 1

Advance(t) ==
  /\ visited' = [visited EXCEPT ![t] = @ \cup {cur[t]}]
  /\ cur'     = [cur EXCEPT ![t] = NextEntry(@)]

(* Once something is found the call no longer blocks: the scan goes on     *)
(* only to collect what else is ready.                                     *)
MayBlockAfterHit(t) == FALSE

(* The driver looks at the device and finds events.  If the scan was told  *)
(* that one wakeup happened, the first such entry ends it.                 *)
ProbeReady(t) ==
  /\ pc[t] = "probe" /\ Fired(t, cur[t]) # {}
  /\ revents'  = [revents EXCEPT ![t][cur[t]] = Fired(t, cur[t])]
  /\ vcnt'     = [vcnt EXCEPT ![t] = @ + 1]
  /\ mayblock' = [mayblock EXCEPT ![t] = MayBlockAfterHit(t)]
  /\ IF rwonce[t] = "once"
       THEN /\ pc' = [pc EXCEPT ![t] = "out"]
            /\ result' = [result EXCEPT ![t] = "ready"]
            /\ UNCHANGED <<cur, visited>>
       ELSE /\ pc' = [pc EXCEPT ![t] = "scan"]
            /\ Advance(t)
            /\ UNCHANGED result
  /\ UNCHANGED <<headVars, rwonce, gen, req, rotor, rotorMode, dat, rv, timer, age>>

(* The driver finds nothing.  The entry needs a polldat if the call may    *)
(* still block; without a pollhead the single-wakeup shortcut is disabled. *)
ProbeNothing(t) ==
  /\ pc[t] = "probe" /\ Fired(t, cur[t]) = {}
  /\ revents' = [revents EXCEPT ![t][cur[t]] = {}]
  /\ IF ~NoHead(Obj[t][cur[t]]) /\ mayblock[t]
       THEN /\ pc' = [pc EXCEPT ![t] = "add"]
            /\ UNCHANGED <<cur, visited, rwonce>>
       ELSE /\ pc' = [pc EXCEPT ![t] = "scan"]
            /\ rwonce' = [rwonce EXCEPT ![t] =
                            IF NoHead(Obj[t][cur[t]]) THEN "nohead" ELSE @]
            /\ Advance(t)
  /\ UNCHANGED <<headVars, mayblock, vcnt, gen, waitVars>>

(* The poll routine of the object fails.                                   *)
ProbeError(t) ==
  /\ pc[t] = "probe"
  /\ pc'     = [pc EXCEPT ![t] = "out"]
  /\ result' = [result EXCEPT ![t] = "error"]
  /\ UNCHANGED <<headVars, scanVars, req, rotor, rotorMode, dat, rv, timer, age>>

(* A pollwakeup() has completed since the driver's snapshot.               *)
Stale(t) == phgen[Obj[t][cur[t]]] # gen[t]

(* _polladd(), under ph_lock: refuse if a pollwakeup() has completed since *)
(* the snapshot (the scan then probes the same entry again: quicktry),     *)
(* otherwise hang the polldat on the pollhead.                             *)
PollAdd(t) ==
  LET o == Obj[t][cur[t]] IN
  /\ pc[t] = "add" /\ phlock[o] = NoOne
  /\ pc' = [pc EXCEPT ![t] = "scan"]
  /\ IF Stale(t)
       THEN UNCHANGED <<phlist, dat, cur, visited>>
       ELSE /\ phlist' = [phlist EXCEPT ![o] = @ \cup {<<t, cur[t]>>}]
            /\ dat' = [dat EXCEPT ![t] = @ \cup {cur[t]}]
            /\ Advance(t)
  /\ UNCHANGED <<ready, phgen, phlock, wakeVars, rwonce, mayblock, vcnt, revents, gen,
                 req, rotor, rotorMode, rv, timer, age, result>>

(* The scan is over: leave if something was found or the call cannot       *)
(* block, otherwise go for the rotor lock.                                 *)
ScanDone(t) ==
  /\ pc[t] = "scan" /\ visited[t] = Idx
  /\ IF mayblock[t]
       THEN /\ pc' = [pc EXCEPT ![t] = "block"]
            /\ UNCHANGED result
       ELSE /\ pc' = [pc EXCEPT ![t] = "out"]
            /\ result' = [result EXCEPT ![t] = IF vcnt[t] > 0 THEN "ready" ELSE "timeout"]
  /\ UNCHANGED <<headVars, scanVars, req, rotor, rotorMode, dat, rv, timer, age>>

(* A pollwakeup() has left its hint.                                       *)
Hinted(t) == rotor[t] # 0

(* A call with a timeout sleeps for one tick at a time.                    *)
Callout(t) == IF req[t] # NoTimeout THEN "armed" ELSE "off"

(* Under ut_pollrotorlock: a wakeup that came after the polldat was hung   *)
(* up sends the thread back; otherwise it starts the callout and sleeps.   *)
Block(t) ==
  /\ pc[t] = "block"
  /\ rotorMode' = [rotorMode EXCEPT ![t] = IF rwonce[t] = "nohead" THEN "multi" ELSE @]
  /\ IF Hinted(t)
       THEN /\ pc' = [pc EXCEPT ![t] = "del"]
            /\ UNCHANGED timer
       ELSE /\ pc' = [pc EXCEPT ![t] = "asleep"]
            /\ timer' = [timer EXCEPT ![t] = Callout(t)]
  /\ UNCHANGED <<headVars, scanVars, req, rotor, dat, rv, age, result>>

(* A signal interrupts sv_wait_sig().                                      *)
Signal(t) ==
  /\ pc[t] = "asleep"
  /\ pc' = [pc EXCEPT ![t] = "woken"]
  /\ rv' = [rv EXCEPT ![t] = -1]
  /\ UNCHANGED <<headVars, scanVars, req, rotor, rotorMode, dat, timer, age, result>>

(* The callout goes off: polltime() signals the thread, which may have     *)
(* been woken by something else already.                                   *)
PollTime(t) ==
  /\ timer[t] = "armed"
  /\ timer' = [timer EXCEPT ![t] = "fired"]
  /\ IF pc[t] = "asleep"
       THEN /\ pc' = [pc EXCEPT ![t] = "woken"]
            /\ rv' = [rv EXCEPT ![t] = 0]
       ELSE UNCHANGED <<pc, rv>>
  /\ UNCHANGED <<headVars, scanVars, req, rotor, rotorMode, dat, age, result>>

(* The real-time gate: a tick that went off ends the call only if the      *)
(* target has passed in real time too.                                     *)
TimeIsUp(t) == RtTarget(t) = 0 \/ RtElapsed(t) >= RtTarget(t)

(* After the wait: untimeout(), the real-time gate, EINTR or a new scan.   *)
Woken(t) ==
  /\ pc[t] = "woken"
  /\ timer' = [timer EXCEPT ![t] = "off"]
  /\ IF timer[t] = "fired"
       THEN IF TimeIsUp(t)
              THEN /\ pc' = [pc EXCEPT ![t] = "out"]
                   /\ result' = [result EXCEPT ![t] = "timeout"]
              ELSE /\ pc' = [pc EXCEPT ![t] = "del"]
                   /\ UNCHANGED result
       ELSE IF rv[t] # -1
              THEN /\ pc' = [pc EXCEPT ![t] = "del"]
                   /\ UNCHANGED result
              ELSE /\ pc' = [pc EXCEPT ![t] = "out"]
                   /\ result' = [result EXCEPT ![t] = "eintr"]
  /\ UNCHANGED <<headVars, scanVars, req, rotor, rotorMode, dat, rv, age>>

(* One turn of polldelvec(): _polldel() of one polldat, under ph_lock.     *)
PollDel(t) ==
  /\ pc[t] \in {"del", "out"}
  /\ \E i \in dat[t] :
       /\ phlock[Obj[t][i]] = NoOne
       /\ phlist' = [phlist EXCEPT ![Obj[t][i]] = @ \ {<<t, i>>}]
       /\ dat' = [dat EXCEPT ![t] = @ \ {i}]
  /\ UNCHANGED <<ready, phgen, phlock, wakeVars, pc, scanVars, req, rotor, rotorMode, rv, timer,
                 age, result>>

(* polldelvec() has worked its way down to darray.                         *)
AllDeleted(t) == dat[t] = {}

(* All polldats are gone: scan again, or return to the caller.             *)
PollDelDone(t) ==
  /\ pc[t] \in {"del", "out"} /\ AllDeleted(t)
  /\ pc' = [pc EXCEPT ![t] = IF @ = "del" THEN "retry" ELSE "idle"]
  /\ UNCHANGED <<headVars, scanVars, waitVars>>

(* Real time passes for everyone who is in a call.                         *)
Elapse ==
  /\ \E t \in Threads : pc[t] # "idle" /\ age[t] < MaxAge
  /\ age' = [t \in Threads |->
               IF pc[t] # "idle" /\ age[t] < MaxAge THEN age[t] + 1 ELSE age[t]]
  /\ UNCHANGED <<headVars, pc, scanVars, req, rotor, rotorMode, dat, rv, timer, result>>

-----------------------------------------------------------------------------
(* The other side: devices and pollwakeup().                               *)

(* A driver makes an event true, then calls pollwakeup().                  *)
Post(w, o, e) ==
  /\ wpc[w] = "idle" /\ phgen[o] < MaxGen
  /\ ready' = [ready EXCEPT ![o] = @ \cup {e}]
  /\ wpc'   = [wpc EXCEPT ![w] = "post"]
  /\ wobj'  = [wobj EXCEPT ![w] = o]
  /\ wev'   = [wev EXCEPT ![w] = e]
  /\ UNCHANGED <<phlist, phgen, phlock, todo, pc, scanVars, waitVars>>

(* Somebody consumes the data behind an event.                             *)
Consume(o, e) ==
  /\ e \in ready[o]
  /\ ready' = [ready EXCEPT ![o] = @ \ {e}]
  /\ UNCHANGED <<phlist, phgen, phlock, wakeVars, pc, scanVars, waitVars>>

(* pollwakeup() takes ph_lock: the list is frozen until it lets go.        *)
WakeLock(w) ==
  LET o == wobj[w] IN
  /\ wpc[w] = "post" /\ phlock[o] = NoOne
  /\ phlock' = [phlock EXCEPT ![o] = w]
  /\ wpc'    = [wpc EXCEPT ![w] = "walk"]
  /\ todo'   = [todo EXCEPT ![w] = phlist[o]]
  /\ UNCHANGED <<ready, phlist, phgen, wobj, wev, pc, scanVars, waitVars>>

(* pollwakeup_thread(), under the rotor lock: the first wakeup leaves the  *)
(* index as a hint, a later one only says there were several; then signal. *)
WakeThread(t, hint) ==
  /\ IF rotor[t] # 0
       THEN /\ rotorMode' = [rotorMode EXCEPT ![t] = "multi"]
            /\ UNCHANGED rotor
       ELSE /\ rotorMode' = [rotorMode EXCEPT ![t] = "once"]
            /\ rotor' = [rotor EXCEPT ![t] = (hint + 1) % (RotorMask + 1)]
  /\ IF pc[t] = "asleep"
       THEN /\ pc' = [pc EXCEPT ![t] = "woken"]
            /\ rv' = [rv EXCEPT ![t] = 0]
       ELSE UNCHANGED <<pc, rv>>

(* One polldat of the walk that wants the event: its thread is woken, and  *)
(* with POLLWAKEUPONE the walk is over.                                    *)
WakeMatch(w, t, i) ==
  /\ wpc[w] = "walk" /\ <<t, i>> \in todo[w]
  /\ wev[w] \in Interest(t, i)
  /\ WakeThread(t, i)
  /\ todo' = [todo EXCEPT ![w] = IF wev[w] \in OneEvents THEN {} ELSE @ \ {<<t, i>>}]
  /\ UNCHANGED <<ready, phlist, phgen, phlock, wpc, wobj, wev, scanVars, req, dat, timer, age, result>>

(* One polldat of the walk that does not want the event.                   *)
WakeSkip(w, t, i) ==
  /\ wpc[w] = "walk" /\ <<t, i>> \in todo[w]
  /\ wev[w] \notin Interest(t, i)
  /\ todo' = [todo EXCEPT ![w] = @ \ {<<t, i>>}]
  /\ UNCHANGED <<ready, phlist, phgen, phlock, wpc, wobj, wev, pc, scanVars, waitVars>>

(* The end of the walk: new generation, then the lock is released.         *)
WakeDone(w) ==
  LET o == wobj[w] IN
  /\ wpc[w] = "walk" /\ todo[w] = {}
  /\ phgen' = [phgen EXCEPT ![o] = @ + 1]
  /\ phlock' = [phlock EXCEPT ![o] = NoOne]
  /\ wpc'    = [wpc EXCEPT ![w] = "idle"]
  /\ wobj'   = [wobj EXCEPT ![w] = NoOne]
  /\ wev'    = [wev EXCEPT ![w] = NoOne]
  /\ UNCHANGED <<ready, phlist, todo, pc, scanVars, waitVars>>

-----------------------------------------------------------------------------
ThreadStep(t) ==
  \/ Retry(t) \/ ScanEntry(t)
  \/ ProbeReady(t) \/ ProbeNothing(t) \/ ProbeError(t)
  \/ PollAdd(t) \/ ScanDone(t) \/ Block(t)
  \/ Woken(t) \/ PollDel(t) \/ PollDelDone(t)

WakerStep(w) ==
  \/ WakeLock(w) \/ WakeDone(w)
  \/ \E t \in Threads, i \in Idx : WakeMatch(w, t, i) \/ WakeSkip(w, t, i)

Environment ==
  \/ \E t \in Threads, r \in Requests \cup {NoTimeout} : Call(t, r)
  \/ \E t \in Threads : Signal(t) \/ PollTime(t)
  \/ \E w \in Wakers, o \in Objects, e \in Events : Post(w, o, e)
  \/ \E o \in Objects, e \in Events : Consume(o, e)
  \/ Elapse

Next ==
  \/ \E t \in Threads : ThreadStep(t)
  \/ \E w \in Wakers : WakerStep(w)
  \/ Environment

Spec == Init /\ [][Next]_vars

(* Threads that can run and interrupt handlers do run, callouts go off and *)
(* time passes; nobody has to call, to post, to consume or to signal.  The *)
(* locks are spinlocks held for a bounded walk, so a thread that keeps     *)
(* finding one free at times gets it: strong fairness for the two waiters. *)
Fairness ==
  /\ \A t \in Threads :
       /\ WF_vars(ThreadStep(t)) /\ SF_vars(PollAdd(t)) /\ SF_vars(PollDel(t))
       /\ WF_vars(PollTime(t))
  /\ \A w \in Wakers : WF_vars(WakerStep(w)) /\ SF_vars(WakeLock(w))
  /\ WF_vars(Elapse)

FairSpec == Spec /\ Fairness

-----------------------------------------------------------------------------
(* Properties.                                                             *)

(* A pollwakeup() for event e that has yet to come past entry i of t.      *)
WakeComing(t, i, e) ==
  \E w \in Wakers :
    /\ wpc[w] # "idle"
    /\ wobj[w] = Obj[t][i] /\ wev[w] = e
    /\ wpc[w] = "walk" => <<t, i>> \in todo[w]

(* No wakeup is lost between the probe of an object, the hanging of the    *)
(* polldat and the sleep: a thread sleeps beside an event it asked for     *)
(* only as long as the pollwakeup() for that event is still on its way.    *)
(* (Events posted with POLLWAKEUPONE are promised to one thread only.)     *)
NoLostWakeup ==
  \A t \in Threads, i \in Idx, e \in Events :
    /\ pc[t] = "asleep" /\ ~NoHead(Obj[t][i])
    /\ e \in Fired(t, i) \ OneEvents
    => WakeComing(t, i, e)

(* The scan reads and resets ut_pollrotor without its lock (lines 397-400) *)
(* because nothing can be aimed at the thread then: none of its polldats   *)
(* is on a pollhead or in a walk, and its callout is gone.  The same holds *)
(* once the call has returned: the polldat array may be freed.             *)
Detached ==
  \A t \in Threads : pc[t] \in {"idle", "retry"} =>
    /\ \A o \in Objects, i \in Idx : <<t, i>> \notin phlist[o]
    /\ \A w \in Wakers, i \in Idx : <<t, i>> \notin todo[w]
    /\ timer[t] # "armed"

(* What a call reports is consistent, however many scans, quick retries    *)
(* and one-entry scans led to it: the count is the number of entries with  *)
(* revents, it is positive exactly when the call ended because something   *)
(* was ready, and only requested events (or POLLHUP, POLLERR) are shown.   *)
ReportExact ==
  \A t \in Threads : pc[t] = "out" /\ result[t] # "error" =>
    /\ vcnt[t] = Cardinality({i \in Idx : revents[t][i] # {}})
    /\ result[t] = "ready" <=> vcnt[t] > 0
    /\ \A i \in Idx : revents[t][i] \subseteq Interest(t, i)

(* A timeout is never reported early ("need to add 1 to keep from          *)
(* returning early", lines 305-317, and "letting the real-time check       *)
(* control the duration", line 325).                                       *)
NoEarlyTimeout ==
  \A t \in Threads : result[t] = "timeout" => age[t] >= req[t]

(* A wakeup that reaches a thread makes it look again before it sleeps:    *)
(* whoever goes to sleep has no wakeup recorded against it.                *)
SleepsUnhinted ==
  [][\A t \in Threads : pc[t] # "asleep" /\ pc'[t] = "asleep" =>
       rotor'[t] = 0 /\ \A i \in Idx : ~NoHead(Obj[t][i]) => i \in dat'[t]]_vars

HasEvent(t) ==
  \E i \in Idx : ~NoHead(Obj[t][i]) /\ Fired(t, i) \ OneEvents # {}

(* A call with something to report does not hang: it returns, unless the   *)
(* event is consumed by somebody else first.                               *)
ReadyReturns ==
  \A t \in Threads : (pc[t] # "idle" /\ HasEvent(t)) ~> (pc[t] = "idle" \/ ~HasEvent(t))

(* A call with a timeout returns, whatever the devices do.                 *)
TimedReturns ==
  \A t \in Threads : (pc[t] # "idle" /\ req[t] # NoTimeout) ~> (pc[t] = "idle")
=============================================================================
