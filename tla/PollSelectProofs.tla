-------------------------- MODULE PollSelectProofs --------------------------
(* Proofs about PollSelect, for any number of threads, entries, objects,   *)
(* events and wakers.                                                      *)
EXTENDS PollSelect, FiniteSetTheorems, TLAPS

(* A hint fits the fd field of ut_pollrotor, so storing it changes nothing. *)
LEMMA HintFits == \A i \in Idx : (i + 1) % (RotorMask + 1) = i + 1
<1>1. ASSUME NEW n \in Nat, NEW m \in Nat, n < m
      PROVE  n % m = n
  BY <1>1
<1>2. ASSUME NEW i \in Idx
      PROVE  i + 1 \in Nat /\ RotorMask + 1 \in Nat /\ i + 1 < RotorMask + 1
  BY PollConstants, RotorFits DEF Idx
<1> QED
  BY <1>1, <1>2

(* The cursor of a probe is an entry, and so is the one after it. *)
LEMMA CursorInRange ==
  ASSUME TypeOK, NEW t \in Threads, pc[t] \in {"probe", "add"}
  PROVE  cur[t] \in Idx /\ NextEntry(cur[t]) \in Idx /\ Obj[t][cur[t]] \in Objects
  BY PollConstants DEF TypeOK, ScanTypes, NextEntry, Idx

(* Every variable keeps its type; for the rotor that is the assertion      *)
(* rotor <= nfds of dopoll().                                              *)
LEMMA TypeInit == Init => TypeOK
<1> SUFFICES ASSUME Init PROVE TypeOK
  OBVIOUS
<1> USE PollConstants DEF Init
<1>1. HeadTypes
  BY DEF HeadTypes
<1>2. pc \in [Threads -> PCs]
  BY DEF PCs
<1>3. ScanTypes
  BY DEF ScanTypes
<1>4. WaitTypes
  BY DEF WaitTypes, Results
<1> QED
  BY <1>1, <1>2, <1>3, <1>4 DEF TypeOK

LEMMA TypeStep == TypeOK /\ [Next]_vars => TypeOK'
<1> SUFFICES ASSUME TypeOK, [Next]_vars PROVE TypeOK'
  OBVIOUS
<1> USE DEF TypeOK
<1>1. ASSUME NEW t \in Threads, NEW r \in Requests \cup {NoTimeout}, Call(t, r)
      PROVE  TypeOK'
  <2>1. HeadTypes'
    BY <1>1, PollConstants DEF Call, HeadTypes, headVars, wakeVars
  <2>2. pc' \in [Threads -> PCs]
    BY <1>1, PollConstants DEF Call, PCs
  <2>3. ScanTypes'
    BY <1>1, PollConstants DEF Call, ScanTypes, scanVars, PCs
  <2>4. WaitTypes'
    BY <1>1, PollConstants DEF Call, WaitTypes, waitVars, Results, Idx
  <2> QED
    BY <2>1, <2>2, <2>3, <2>4
<1>2. ASSUME NEW t \in Threads, Retry(t)
      PROVE  TypeOK'
  <2>1. HeadTypes'
    BY <1>2, PollConstants DEF Retry, HeadTypes, headVars, wakeVars
  <2>2. pc' \in [Threads -> PCs]
    BY <1>2, PollConstants DEF Retry, PCs
  <2>3. ScanTypes'
    BY <1>2, PollConstants DEF Retry, ScanTypes, scanVars, WaitTypes, Idx, PCs
  <2>4. WaitTypes'
    BY <1>2, PollConstants DEF Retry, WaitTypes, waitVars, Idx
  <2> QED
    BY <2>1, <2>2, <2>3, <2>4
<1>3. ASSUME NEW t \in Threads, ScanEntry(t)
      PROVE  TypeOK'
  <2>1. HeadTypes'
    BY <1>3, PollConstants DEF ScanEntry, HeadTypes, headVars, wakeVars
  <2>2. pc' \in [Threads -> PCs]
    BY <1>3, PollConstants DEF ScanEntry, PCs
  <2>3. ScanTypes'
    <3>1. cur[t] \in Idx /\ Obj[t][cur[t]] \in Objects
      <4>1. Idx # {}
        BY <1>3 DEF ScanEntry, ScanTypes
      <4>2. cur[t] \in Idx
        BY <4>1, PollConstants DEF ScanTypes, Idx
      <4> QED
        BY <4>2, PollConstants
    <3>2. \A u \in Threads : pc'[u] \in {"probe", "add"} => cur'[u] \in Idx
      BY <1>3, <3>1 DEF ScanEntry, ScanTypes
    <3> QED
      BY <1>3, <3>1, <3>2 DEF ScanEntry, ScanTypes, HeadTypes
  <2>4. WaitTypes'
    BY <1>3, PollConstants DEF ScanEntry, WaitTypes, waitVars
  <2> QED
    BY <2>1, <2>2, <2>3, <2>4
<1>4. ASSUME NEW t \in Threads, ProbeReady(t)
      PROVE  TypeOK'
  <2>1. HeadTypes'
    BY <1>4, PollConstants DEF ProbeReady, HeadTypes, headVars, wakeVars
  <2>2. pc' \in [Threads -> PCs]
    BY <1>4, PollConstants DEF ProbeReady, PCs
  <2>3. ScanTypes'
    <3>1. cur[t] \in Idx /\ NextEntry(cur[t]) \in Idx /\ pc[t] \in {"probe", "add"}
      BY <1>4, CursorInRange DEF ProbeReady
    <3>2. (Advance(t) \/ UNCHANGED <<cur, visited>>) /\ ScanTypes
      BY <1>4 DEF ProbeReady
    <3>7. cur' \in [Threads -> Idx \cup {0}]
      BY <3>1, <3>2 DEF ScanTypes, Advance
    <3>8. visited' \in [Threads -> SUBSET Idx]
      BY <3>1, <3>2 DEF ScanTypes, Advance
    <3>3. \A u \in Threads : pc'[u] \in {"probe", "add"} => cur'[u] \in Idx
      BY <1>4, <3>1 DEF ProbeReady, ScanTypes, Advance
    <3>4. rwonce' \in [Threads -> {"none", "once", "multi", "nohead"}]
      BY <1>4 DEF ProbeReady, ScanTypes
    <3>5. mayblock' \in [Threads -> BOOLEAN] /\ vcnt' \in [Threads -> Nat] /\ gen' \in [Threads -> Nat]
      BY <1>4 DEF ProbeReady, ScanTypes, MayBlockAfterHit
    <3>6. revents' \in [Threads -> [Idx -> SUBSET Events]]
      BY <1>4, <3>1, CursorInRange, PollConstants
      DEF ProbeReady, ScanTypes, Fired, Interest, HeadTypes
    <3> QED
      BY <3>7, <3>8, <3>3, <3>4, <3>5, <3>6 DEF ScanTypes
  <2>4. WaitTypes'
    BY <1>4, PollConstants DEF ProbeReady, WaitTypes, waitVars, Results
  <2> QED
    BY <2>1, <2>2, <2>3, <2>4
<1>5. ASSUME NEW t \in Threads, ProbeNothing(t)
      PROVE  TypeOK'
  <2>1. HeadTypes'
    BY <1>5, PollConstants DEF ProbeNothing, HeadTypes, headVars, wakeVars
  <2>2. pc' \in [Threads -> PCs]
    BY <1>5, PollConstants DEF ProbeNothing, PCs
  <2>3. ScanTypes'
    <3>1. cur[t] \in Idx /\ NextEntry(cur[t]) \in Idx /\ pc[t] \in {"probe", "add"}
      BY <1>5, CursorInRange DEF ProbeNothing
    <3>2. (Advance(t) \/ UNCHANGED <<cur, visited>>) /\ ScanTypes
      BY <1>5 DEF ProbeNothing
    <3>7. cur' \in [Threads -> Idx \cup {0}]
      BY <3>1, <3>2 DEF ScanTypes, Advance
    <3>8. visited' \in [Threads -> SUBSET Idx]
      BY <3>1, <3>2 DEF ScanTypes, Advance
    <3>3. \A u \in Threads : pc'[u] \in {"probe", "add"} => cur'[u] \in Idx
      BY <1>5, <3>1 DEF ProbeNothing, ScanTypes, Advance
    <3>4. rwonce' \in [Threads -> {"none", "once", "multi", "nohead"}]
      BY <1>5 DEF ProbeNothing, ScanTypes
    <3>5. mayblock' \in [Threads -> BOOLEAN] /\ vcnt' \in [Threads -> Nat] /\ gen' \in [Threads -> Nat]
      BY <1>5 DEF ProbeNothing, ScanTypes
    <3>6. revents' \in [Threads -> [Idx -> SUBSET Events]]
      BY <1>5, <3>1, CursorInRange, PollConstants
      DEF ProbeNothing, ScanTypes, Fired, Interest, HeadTypes
    <3> QED
      BY <3>7, <3>8, <3>3, <3>4, <3>5, <3>6 DEF ScanTypes
  <2>4. WaitTypes'
    BY <1>5, PollConstants DEF ProbeNothing, WaitTypes, waitVars
  <2> QED
    BY <2>1, <2>2, <2>3, <2>4
<1>6. ASSUME NEW t \in Threads, ProbeError(t)
      PROVE  TypeOK'
  <2>1. HeadTypes'
    BY <1>6, PollConstants DEF ProbeError, HeadTypes, headVars, wakeVars
  <2>2. pc' \in [Threads -> PCs]
    BY <1>6, PollConstants DEF ProbeError, PCs
  <2>3. ScanTypes'
    BY <1>6, PollConstants DEF ProbeError, ScanTypes, scanVars, PCs
  <2>4. WaitTypes'
    BY <1>6, PollConstants DEF ProbeError, WaitTypes, waitVars, Results
  <2> QED
    BY <2>1, <2>2, <2>3, <2>4
<1>7. ASSUME NEW t \in Threads, PollAdd(t)
      PROVE  TypeOK'
  <2>1. HeadTypes'
    <3>1. cur[t] \in Idx /\ Obj[t][cur[t]] \in Objects
      BY <1>7, CursorInRange DEF PollAdd
    <3>2. \/ phlist' = [phlist EXCEPT ![Obj[t][cur[t]]] = @ \cup {<<t, cur[t]>>}]
          \/ UNCHANGED phlist
      BY <1>7 DEF PollAdd
    <3>3. phlist' \in [Objects -> SUBSET (Threads \X Idx)]
      BY <3>1, <3>2 DEF HeadTypes
    <3> QED
      BY <1>7, <3>3 DEF PollAdd, HeadTypes, wakeVars
  <2>2. pc' \in [Threads -> PCs]
    BY <1>7, PollConstants DEF PollAdd, PCs
  <2>3. ScanTypes'
    <3>1. cur[t] \in Idx /\ NextEntry(cur[t]) \in Idx /\ pc[t] \in {"probe", "add"}
      BY <1>7, CursorInRange DEF PollAdd
    <3>2. (Advance(t) \/ UNCHANGED <<cur, visited>>) /\ ScanTypes
      BY <1>7 DEF PollAdd
    <3>7. cur' \in [Threads -> Idx \cup {0}]
      BY <3>1, <3>2 DEF ScanTypes, Advance
    <3>8. visited' \in [Threads -> SUBSET Idx]
      BY <3>1, <3>2 DEF ScanTypes, Advance
    <3>3. \A u \in Threads : pc'[u] \in {"probe", "add"} => cur'[u] \in Idx
      BY <1>7, <3>1 DEF PollAdd, ScanTypes, Advance
    <3>4. rwonce' \in [Threads -> {"none", "once", "multi", "nohead"}]
      BY <1>7 DEF PollAdd, ScanTypes
    <3>5. mayblock' \in [Threads -> BOOLEAN] /\ vcnt' \in [Threads -> Nat] /\ gen' \in [Threads -> Nat]
      BY <1>7 DEF PollAdd, ScanTypes
    <3>6. revents' \in [Threads -> [Idx -> SUBSET Events]]
      BY <1>7, <3>1, CursorInRange, PollConstants
      DEF PollAdd, ScanTypes, Fired, Interest, HeadTypes
    <3> QED
      BY <3>7, <3>8, <3>3, <3>4, <3>5, <3>6 DEF ScanTypes
  <2>4. WaitTypes'
    <3>1. cur[t] \in Idx
      BY <1>7, CursorInRange DEF PollAdd
    <3>2. (dat' = [dat EXCEPT ![t] = @ \cup {cur[t]}]) \/ UNCHANGED dat
      BY <1>7 DEF PollAdd
    <3>3. dat' \in [Threads -> SUBSET Idx]
      BY <3>1, <3>2 DEF WaitTypes
    <3> QED
      BY <1>7, <3>3 DEF PollAdd, WaitTypes
  <2> QED
    BY <2>1, <2>2, <2>3, <2>4
<1>8. ASSUME NEW t \in Threads, ScanDone(t)
      PROVE  TypeOK'
  <2>1. HeadTypes'
    BY <1>8, PollConstants DEF ScanDone, HeadTypes, headVars, wakeVars
  <2>2. pc' \in [Threads -> PCs]
    BY <1>8, PollConstants DEF ScanDone, PCs
  <2>3. ScanTypes'
    BY <1>8, PollConstants DEF ScanDone, ScanTypes, scanVars, PCs
  <2>4. WaitTypes'
    BY <1>8, PollConstants DEF ScanDone, WaitTypes, waitVars, Results
  <2> QED
    BY <2>1, <2>2, <2>3, <2>4
<1>9. ASSUME NEW t \in Threads, Block(t)
      PROVE  TypeOK'
  <2>1. HeadTypes'
    BY <1>9, PollConstants DEF Block, HeadTypes, headVars, wakeVars
  <2>2. pc' \in [Threads -> PCs]
    BY <1>9, PollConstants DEF Block, PCs
  <2>3. ScanTypes'
    BY <1>9, PollConstants DEF Block, ScanTypes, scanVars, PCs
  <2>4. WaitTypes'
    BY <1>9, PollConstants DEF Block, WaitTypes, waitVars, Idx, Callout
  <2> QED
    BY <2>1, <2>2, <2>3, <2>4
<1>10. ASSUME NEW t \in Threads, Signal(t)
      PROVE  TypeOK'
  <2>1. HeadTypes'
    BY <1>10, PollConstants DEF Signal, HeadTypes, headVars, wakeVars
  <2>2. pc' \in [Threads -> PCs]
    BY <1>10, PollConstants DEF Signal, PCs
  <2>3. ScanTypes'
    BY <1>10, PollConstants DEF Signal, ScanTypes, scanVars, PCs
  <2>4. WaitTypes'
    BY <1>10, PollConstants DEF Signal, WaitTypes, waitVars
  <2> QED
    BY <2>1, <2>2, <2>3, <2>4
<1>11. ASSUME NEW t \in Threads, PollTime(t)
      PROVE  TypeOK'
  <2>1. HeadTypes'
    BY <1>11, PollConstants DEF PollTime, HeadTypes, headVars, wakeVars
  <2>2. pc' \in [Threads -> PCs]
    BY <1>11, PollConstants DEF PollTime, PCs
  <2>3. ScanTypes'
    BY <1>11, PollConstants DEF PollTime, ScanTypes, scanVars, PCs
  <2>4. WaitTypes'
    BY <1>11, PollConstants DEF PollTime, WaitTypes, waitVars
  <2> QED
    BY <2>1, <2>2, <2>3, <2>4
<1>12. ASSUME NEW t \in Threads, Woken(t)
      PROVE  TypeOK'
  <2>1. HeadTypes'
    BY <1>12, PollConstants DEF Woken, HeadTypes, headVars, wakeVars
  <2>2. pc' \in [Threads -> PCs]
    BY <1>12, PollConstants DEF Woken, PCs
  <2>3. ScanTypes'
    BY <1>12, PollConstants DEF Woken, ScanTypes, scanVars, PCs
  <2>4. WaitTypes'
    BY <1>12, PollConstants DEF Woken, WaitTypes, waitVars, Results
  <2> QED
    BY <2>1, <2>2, <2>3, <2>4
<1>13. ASSUME NEW t \in Threads, PollDel(t)
      PROVE  TypeOK'
  <2>1. HeadTypes'
    <3>1. PICK i \in Idx : phlist' = [phlist EXCEPT ![Obj[t][i]] = @ \ {<<t, i>>}]
      BY <1>13 DEF PollDel, WaitTypes
    <3>2. phlist' \in [Objects -> SUBSET (Threads \X Idx)]
      BY <3>1 DEF HeadTypes
    <3> QED
      BY <1>13, <3>2 DEF PollDel, HeadTypes, wakeVars
  <2>2. pc' \in [Threads -> PCs]
    BY <1>13, PollConstants DEF PollDel, PCs
  <2>3. ScanTypes'
    BY <1>13, PollConstants DEF PollDel, ScanTypes, scanVars, PCs
  <2>4. WaitTypes'
    BY <1>13, PollConstants DEF PollDel, WaitTypes, waitVars
  <2> QED
    BY <2>1, <2>2, <2>3, <2>4
<1>14. ASSUME NEW t \in Threads, PollDelDone(t)
      PROVE  TypeOK'
  <2>1. HeadTypes'
    BY <1>14, PollConstants DEF PollDelDone, HeadTypes, headVars, wakeVars
  <2>2. pc' \in [Threads -> PCs]
    BY <1>14, PollConstants DEF PollDelDone, PCs
  <2>3. ScanTypes'
    BY <1>14, PollConstants DEF PollDelDone, ScanTypes, scanVars, PCs
  <2>4. WaitTypes'
    BY <1>14, PollConstants DEF PollDelDone, WaitTypes, waitVars
  <2> QED
    BY <2>1, <2>2, <2>3, <2>4
<1>15. ASSUME Elapse
      PROVE  TypeOK'
  <2>1. HeadTypes'
    BY <1>15, PollConstants DEF Elapse, HeadTypes, headVars, wakeVars
  <2>2. pc' \in [Threads -> PCs]
    BY <1>15, PollConstants DEF Elapse, PCs
  <2>3. ScanTypes'
    BY <1>15, PollConstants DEF Elapse, ScanTypes, scanVars, PCs
  <2>4. WaitTypes'
    BY <1>15, PollConstants DEF Elapse, WaitTypes, waitVars
  <2> QED
    BY <2>1, <2>2, <2>3, <2>4
<1>16. ASSUME NEW w \in Wakers, NEW o \in Objects, NEW e \in Events, Post(w, o, e)
      PROVE  TypeOK'
  <2>1. HeadTypes'
    BY <1>16, PollConstants DEF Post, HeadTypes, headVars, wakeVars
  <2>2. pc' \in [Threads -> PCs]
    BY <1>16, PollConstants DEF Post, PCs
  <2>3. ScanTypes'
    BY <1>16, PollConstants DEF Post, ScanTypes, scanVars, PCs
  <2>4. WaitTypes'
    BY <1>16, PollConstants DEF Post, WaitTypes, waitVars
  <2> QED
    BY <2>1, <2>2, <2>3, <2>4
<1>17. ASSUME NEW o \in Objects, NEW e \in Events, Consume(o, e)
      PROVE  TypeOK'
  <2>1. HeadTypes'
    BY <1>17, PollConstants DEF Consume, HeadTypes, headVars, wakeVars
  <2>2. pc' \in [Threads -> PCs]
    BY <1>17, PollConstants DEF Consume, PCs
  <2>3. ScanTypes'
    BY <1>17, PollConstants DEF Consume, ScanTypes, scanVars, PCs
  <2>4. WaitTypes'
    BY <1>17, PollConstants DEF Consume, WaitTypes, waitVars
  <2> QED
    BY <2>1, <2>2, <2>3, <2>4
<1>18. ASSUME NEW w \in Wakers, WakeLock(w)
      PROVE  TypeOK'
  <2>1. HeadTypes'
    BY <1>18, PollConstants DEF WakeLock, HeadTypes, headVars, wakeVars
  <2>2. pc' \in [Threads -> PCs]
    BY <1>18, PollConstants DEF WakeLock, PCs
  <2>3. ScanTypes'
    BY <1>18, PollConstants DEF WakeLock, ScanTypes, scanVars, PCs
  <2>4. WaitTypes'
    BY <1>18, PollConstants DEF WakeLock, WaitTypes, waitVars
  <2> QED
    BY <2>1, <2>2, <2>3, <2>4
<1>19. ASSUME NEW w \in Wakers, NEW t \in Threads, NEW i \in Idx, WakeMatch(w, t, i)
      PROVE  TypeOK'
  <2>1. HeadTypes'
    BY <1>19, PollConstants DEF WakeMatch, HeadTypes, headVars, wakeVars
  <2>2. pc' \in [Threads -> PCs]
    BY <1>19, PollConstants DEF WakeMatch, PCs, WakeThread
  <2>3. ScanTypes'
    BY <1>19, PollConstants DEF WakeMatch, ScanTypes, scanVars, PCs, WakeThread
  <2>4. WaitTypes'
    <3>1. NFds \in Nat /\ (i + 1) % (RotorMask + 1) \in 0 .. NFds
      BY PollConstants, HintFits DEF Idx
    <3>2. rotor' \in [Threads -> 0 .. NFds]
      BY <1>19, <3>1 DEF WakeMatch, WakeThread, WaitTypes, Idx
    <3> QED
      BY <1>19, <3>2 DEF WakeMatch, WakeThread, WaitTypes
  <2> QED
    BY <2>1, <2>2, <2>3, <2>4
<1>20. ASSUME NEW w \in Wakers, NEW t \in Threads, NEW i \in Idx, WakeSkip(w, t, i)
      PROVE  TypeOK'
  <2>1. HeadTypes'
    BY <1>20, PollConstants DEF WakeSkip, HeadTypes, headVars, wakeVars
  <2>2. pc' \in [Threads -> PCs]
    BY <1>20, PollConstants DEF WakeSkip, PCs
  <2>3. ScanTypes'
    BY <1>20, PollConstants DEF WakeSkip, ScanTypes, scanVars, PCs
  <2>4. WaitTypes'
    BY <1>20, PollConstants DEF WakeSkip, WaitTypes, waitVars
  <2> QED
    BY <2>1, <2>2, <2>3, <2>4
<1>21. ASSUME NEW w \in Wakers, WakeDone(w)
      PROVE  TypeOK'
  <2>1. HeadTypes'
    BY <1>21, PollConstants DEF WakeDone, HeadTypes, headVars, wakeVars
  <2>2. pc' \in [Threads -> PCs]
    BY <1>21, PollConstants DEF WakeDone, PCs
  <2>3. ScanTypes'
    BY <1>21, PollConstants DEF WakeDone, ScanTypes, scanVars, PCs
  <2>4. WaitTypes'
    BY <1>21, PollConstants DEF WakeDone, WaitTypes, waitVars
  <2> QED
    BY <2>1, <2>2, <2>3, <2>4
<1>22. CASE UNCHANGED vars
  BY <1>22
  DEF vars, headVars, wakeVars, scanVars, waitVars, HeadTypes, ScanTypes, WaitTypes
<1> QED
  BY <1>1, <1>2, <1>3, <1>4, <1>5, <1>6, <1>7, <1>8, <1>9, <1>10, <1>11, <1>12,
     <1>13, <1>14, <1>15, <1>16, <1>17, <1>18, <1>19, <1>20, <1>21, <1>22
  DEF Next, ThreadStep, WakerStep, Environment

(* Every variable keeps its type, for all values of the constants.         *)
THEOREM TypeCorrect == Spec => []TypeOK
<1> QED
  BY TypeInit, TypeStep, PTL DEF Spec

-----------------------------------------------------------------------------
(***************************************************************************)
(* The inductive invariant.                                                *)
(***************************************************************************)

(* A walk holds the lock of its pollhead and visits polldats that are on   *)
(* it; nothing can be hung up or deleted meanwhile.                        *)
LockInv ==
  \A w \in Wakers :
    /\ wpc[w] = "walk" => phlock[wobj[w]] = w /\ todo[w] \subseteq phlist[wobj[w]]
    /\ wpc[w] # "walk" => todo[w] = {}

(* The polldats a thread has in use are the ones on the pollheads.         *)
DatInv ==
  \A t \in Threads, i \in Idx, o \in Objects :
    <<t, i>> \in phlist[o] <=> i \in dat[t] /\ o = Obj[t][i]

(* Where a thread has neither polldats nor a callout.                      *)
PcInv ==
  \A t \in Threads :
    /\ pc[t] \in {"idle", "retry"} => dat[t] = {}
    /\ timer[t] = "armed" => pc[t] \in {"asleep", "woken"}
    /\ pc[t] = "block" => mayblock[t] /\ visited[t] = Idx
    /\ pc[t] = "asleep" => mayblock[t] /\ visited[t] = Idx /\ rotor[t] = 0
    /\ pc[t] = "add" => mayblock[t] /\ ~NoHead(Obj[t][cur[t]])

(* A pollwakeup() for event e of object o that is not over.                *)
Pending(o, e) ==
  \E w \in Wakers : wpc[w] # "idle" /\ wobj[w] = o /\ wev[w] = e

Scanning == {"scan", "probe", "add", "block", "asleep"}

(* Entry i of t hangs on its pollhead, and an event of it has left a hint  *)
(* or has its wakeup on the way.                                           *)
Covered(t, i) ==
  /\ i \in dat[t]
  /\ \A e \in Fired(t, i) \ OneEvents : rotor[t] # 0 \/ WakeComing(t, i, e)

(* The heart of it: while the scan may still end in a sleep, every entry   *)
(* it has passed is covered.                                               *)
CoverInv ==
  \A t \in Threads : pc[t] \in Scanning /\ mayblock[t] =>
    \A i \in visited[t] : ~NoHead(Obj[t][i]) => Covered(t, i)

(* Between the snapshot and polladd() an unchanged generation means that   *)
(* the wakeup for what has happened since the probe is not over yet.       *)
GenInv ==
  \A t \in Threads :
    /\ pc[t] \in {"probe", "add"} => gen[t] <= phgen[Obj[t][cur[t]]]
    /\ pc[t] = "add" /\ gen[t] = phgen[Obj[t][cur[t]]] =>
         \A e \in Fired(t, cur[t]) : Pending(Obj[t][cur[t]], e)

IInv == TypeOK /\ LockInv /\ DatInv /\ PcInv /\ CoverInv /\ GenInv

-----------------------------------------------------------------------------
(* Only a walk takes the lock, and whoever changes a list checks it.       *)
LEMMA LockInvStep == IInv /\ [Next]_vars => LockInv'
<1> SUFFICES ASSUME IInv, [Next]_vars PROVE LockInv'
  OBVIOUS
<1> USE DEF IInv, TypeOK
<1>1. ASSUME UNCHANGED <<phlist, phlock, wakeVars>> PROVE LockInv'
  BY <1>1 DEF LockInv, wakeVars
<1>2. ASSUME NEW t \in Threads, PollAdd(t) PROVE LockInv'
  <2>1. PICK S : phlist' = [phlist EXCEPT ![Obj[t][cur[t]]] = S]
    BY <1>2 DEF PollAdd, HeadTypes
  <2>2. phlock[Obj[t][cur[t]]] = NoOne /\ UNCHANGED <<phlock, wakeVars>>
    BY <1>2 DEF PollAdd
  <2> QED
    BY <2>1, <2>2, PollConstants DEF LockInv, HeadTypes, wakeVars
<1>3. ASSUME NEW t \in Threads, PollDel(t) PROVE LockInv'
  BY <1>3, PollConstants DEF PollDel, LockInv, HeadTypes, wakeVars
<1>4. ASSUME NEW w \in Wakers, NEW o \in Objects, NEW e \in Events, Post(w, o, e)
      PROVE  LockInv'
  BY <1>4 DEF Post, LockInv, HeadTypes
<1>5. ASSUME NEW w \in Wakers, WakeLock(w) PROVE LockInv'
  BY <1>5, PollConstants DEF WakeLock, LockInv, HeadTypes
<1>6. ASSUME NEW w \in Wakers, NEW t \in Threads, NEW i \in Idx, WakeMatch(w, t, i)
      PROVE  LockInv'
  BY <1>6 DEF WakeMatch, LockInv, HeadTypes
<1>7. ASSUME NEW w \in Wakers, NEW t \in Threads, NEW i \in Idx, WakeSkip(w, t, i)
      PROVE  LockInv'
  BY <1>7 DEF WakeSkip, LockInv, HeadTypes
<1>8. ASSUME NEW w \in Wakers, WakeDone(w) PROVE LockInv'
  BY <1>8, PollConstants DEF WakeDone, LockInv, HeadTypes
<1> QED
  BY <1>1, <1>2, <1>3, <1>4, <1>5, <1>6, <1>7, <1>8
  DEF Next, ThreadStep, WakerStep, Environment, vars, headVars, wakeVars,
      Call, Retry, ScanEntry, ProbeReady, ProbeNothing, ProbeError, ScanDone,
      Block, Signal, PollTime, Woken, PollDelDone, Elapse, Consume

(* A list and the record of what hangs on it change in the same step.      *)
LEMMA DatInvStep == IInv /\ [Next]_vars => DatInv'
<1> SUFFICES ASSUME IInv, [Next]_vars PROVE DatInv'
  OBVIOUS
<1> USE DEF IInv, TypeOK
<1>1. ASSUME UNCHANGED <<phlist, dat>> PROVE DatInv'
  BY <1>1 DEF DatInv
<1>2. ASSUME NEW t \in Threads, PollAdd(t) PROVE DatInv'
  <2>1. cur[t] \in Idx /\ Obj[t][cur[t]] \in Objects
    BY <1>2, CursorInRange DEF PollAdd
  <2>2. CASE Stale(t)
    BY <1>1, <1>2, <2>2 DEF PollAdd
  <2>3. CASE ~Stale(t)
    <3>1. /\ phlist' = [phlist EXCEPT ![Obj[t][cur[t]]] = @ \cup {<<t, cur[t]>>}]
          /\ dat' = [dat EXCEPT ![t] = @ \cup {cur[t]}]
      BY <1>2, <2>3 DEF PollAdd
    <3>2. SUFFICES ASSUME NEW u \in Threads, NEW j \in Idx, NEW o \in Objects
                   PROVE  (<<u, j>> \in phlist[o] <=> j \in dat[u] /\ o = Obj[u][j])'
      BY DEF DatInv
    <3>3. phlist'[o] = IF o = Obj[t][cur[t]] THEN phlist[o] \cup {<<t, cur[t]>>} ELSE phlist[o]
      BY <3>1, <2>1 DEF HeadTypes
    <3>4. dat'[u] = IF u = t THEN dat[u] \cup {cur[t]} ELSE dat[u]
      BY <3>1 DEF WaitTypes
    <3>5. <<u, j>> \in phlist[o] <=> j \in dat[u] /\ o = Obj[u][j]
      BY DEF DatInv
    <3> QED
      BY <3>3, <3>4, <3>5
  <2> QED
    BY <2>2, <2>3
<1>3. ASSUME NEW t \in Threads, PollDel(t) PROVE DatInv'
  <2>1. PICK i \in Idx :
          /\ phlist' = [phlist EXCEPT ![Obj[t][i]] = @ \ {<<t, i>>}]
          /\ dat' = [dat EXCEPT ![t] = @ \ {i}]
    BY <1>3 DEF PollDel, WaitTypes
  <2>2. SUFFICES ASSUME NEW u \in Threads, NEW j \in Idx, NEW o \in Objects
                 PROVE  (<<u, j>> \in phlist[o] <=> j \in dat[u] /\ o = Obj[u][j])'
    BY DEF DatInv
  <2>3. phlist'[o] = IF o = Obj[t][i] THEN phlist[o] \ {<<t, i>>} ELSE phlist[o]
    BY <2>1, PollConstants DEF HeadTypes
  <2>4. dat'[u] = IF u = t THEN dat[u] \ {i} ELSE dat[u]
    BY <2>1 DEF WaitTypes
  <2>5. <<u, j>> \in phlist[o] <=> j \in dat[u] /\ o = Obj[u][j]
    BY DEF DatInv
  <2> QED
    BY <2>3, <2>4, <2>5
<1> QED
  BY ZenonT(90), <1>1, <1>2, <1>3
  DEF Next, ThreadStep, WakerStep, Environment, vars, headVars, waitVars,
      Call, Retry, ScanEntry, ProbeReady, ProbeNothing, ProbeError, ScanDone,
      Block, Signal, PollTime, Woken, PollDelDone, Elapse, Consume,
      Post, WakeLock, WakeMatch, WakeSkip, WakeDone

(* Each program point is entered with what PcInv says of it.               *)
LEMMA PcInvStep == IInv /\ [Next]_vars => PcInv'
<1> SUFFICES ASSUME IInv, [Next]_vars PROVE PcInv'
  OBVIOUS
<1> USE DEF IInv, TypeOK
<1>1. ASSUME UNCHANGED <<pc, scanVars, waitVars>> PROVE PcInv'
  BY <1>1 DEF PcInv, scanVars, waitVars
<1>2. ASSUME NEW t \in Threads, NEW r \in Requests \cup {NoTimeout}, Call(t, r)
      PROVE  PcInv'
  BY <1>2 DEF Call, PcInv, WaitTypes
<1>3. ASSUME NEW t \in Threads, Retry(t) PROVE PcInv'
  BY <1>3 DEF Retry, PcInv, ScanTypes, WaitTypes
<1>4. ASSUME NEW t \in Threads, ScanEntry(t) PROVE PcInv'
  BY <1>4 DEF ScanEntry, PcInv, ScanTypes, waitVars
<1>5. ASSUME NEW t \in Threads, ProbeReady(t) PROVE PcInv'
  BY <1>5 DEF ProbeReady, PcInv, ScanTypes, WaitTypes, Advance
<1>6. ASSUME NEW t \in Threads, ProbeNothing(t) PROVE PcInv'
  BY <1>6 DEF ProbeNothing, PcInv, ScanTypes, waitVars, Advance
<1>7. ASSUME NEW t \in Threads, ProbeError(t) PROVE PcInv'
  BY <1>7 DEF ProbeError, PcInv, scanVars
<1>8. ASSUME NEW t \in Threads, PollAdd(t) PROVE PcInv'
  BY <1>8 DEF PollAdd, PcInv, ScanTypes, WaitTypes, Advance
<1>9. ASSUME NEW t \in Threads, ScanDone(t) PROVE PcInv'
  BY <1>9 DEF ScanDone, PcInv, scanVars
<1>10. ASSUME NEW t \in Threads, Block(t) PROVE PcInv'
  BY <1>10 DEF Block, Hinted, Callout, PcInv, scanVars, WaitTypes
<1>11. ASSUME NEW t \in Threads, Signal(t) PROVE PcInv'
  BY <1>11 DEF Signal, PcInv, scanVars
<1>12. ASSUME NEW t \in Threads, PollTime(t) PROVE PcInv'
  BY <1>12 DEF PollTime, PcInv, scanVars, WaitTypes
<1>13. ASSUME NEW t \in Threads, Woken(t) PROVE PcInv'
  BY <1>13 DEF Woken, PcInv, scanVars, WaitTypes
<1>14. ASSUME NEW t \in Threads, PollDel(t) PROVE PcInv'
  BY <1>14 DEF PollDel, PcInv, scanVars, WaitTypes
<1>15. ASSUME NEW t \in Threads, PollDelDone(t) PROVE PcInv'
  BY <1>15 DEF PollDelDone, AllDeleted, PcInv, scanVars, waitVars
<1>16. ASSUME Elapse PROVE PcInv'
  BY <1>16 DEF Elapse, PcInv, scanVars
<1>17. ASSUME NEW w \in Wakers, NEW t \in Threads, NEW i \in Idx, WakeMatch(w, t, i)
      PROVE  PcInv'
  BY <1>17 DEF WakeMatch, WakeThread, PcInv, scanVars, WaitTypes
<1> QED
  BY <1>1, <1>2, <1>3, <1>4, <1>5, <1>6, <1>7, <1>8, <1>9, <1>10, <1>11, <1>12,
     <1>13, <1>14, <1>15, <1>16, <1>17
  DEF Next, ThreadStep, WakerStep, Environment, vars,
      Consume, Post, WakeLock, WakeSkip, WakeDone

(* Steps of threads other than u do not disturb what u is covered by.      *)
LEMMA CoverKept ==
  ASSUME UNCHANGED headVars, NEW u \in Threads, NEW i \in Idx, Covered(u, i),
         rotor'[u] = rotor[u], i \in dat'[u]
  PROVE  Covered(u, i)'
  BY DEF Covered, Fired, WakeComing, headVars, wakeVars

(* A step of t that leaves the pollheads alone cannot uncover another      *)
(* thread's entries: it is enough to look at t itself.                     *)
LEMMA CoverLocal ==
  ASSUME IInv, UNCHANGED headVars, NEW t \in Threads,
         \A u \in Threads \ {t} :
           /\ pc'[u] = pc[u] /\ mayblock'[u] = mayblock[u] /\ visited'[u] = visited[u]
           /\ rotor'[u] = rotor[u] /\ dat'[u] = dat[u],
         pc'[t] \in Scanning /\ mayblock'[t] =>
           \A i \in visited'[t] : ~NoHead(Obj[t][i]) => Covered(t, i)'
  PROVE  CoverInv'
<1> SUFFICES ASSUME NEW u \in Threads \ {t}, pc[u] \in Scanning, mayblock[u],
                    NEW i \in visited[u], ~NoHead(Obj[u][i])
             PROVE  Covered(u, i)'
  BY DEF CoverInv
<1>1. i \in Idx /\ Covered(u, i)
  BY DEF IInv, CoverInv, TypeOK, ScanTypes
<1> QED
  BY <1>1, CoverKept DEF Covered

(* Events, hints and wakeups move, and no passed entry is ever uncovered.  *)
LEMMA CoverInvStep == IInv /\ [Next]_vars => CoverInv'
<1> SUFFICES ASSUME IInv, [Next]_vars PROVE CoverInv'
  OBVIOUS
<1> USE DEF IInv, TypeOK
<1>1. ASSUME UNCHANGED <<headVars, pc, cur, visited, mayblock, rotor, dat>> PROVE CoverInv'
  BY <1>1 DEF CoverInv, Covered, Fired, WakeComing, headVars, wakeVars
(* Steps after which the thread is not scanning, or will not block.        *)
<1>2. ASSUME NEW t \in Threads, UNCHANGED headVars,
             \A u \in Threads \ {t} :
               /\ pc'[u] = pc[u] /\ mayblock'[u] = mayblock[u] /\ visited'[u] = visited[u]
               /\ rotor'[u] = rotor[u] /\ dat'[u] = dat[u],
             pc'[t] \notin Scanning \/ ~mayblock'[t] \/ visited'[t] = {}
      PROVE  CoverInv'
  BY <1>2, CoverLocal
(* Steps that go on with the same scan and the same entries.               *)
<1>3. ASSUME NEW t \in Threads, UNCHANGED <<headVars, mayblock, visited, rotor, dat>>,
             \A u \in Threads \ {t} : pc'[u] = pc[u],
             pc'[t] \in Scanning => pc[t] \in Scanning
      PROVE  CoverInv'
  <2>1. \A i \in Idx : Covered(t, i) => Covered(t, i)'
    BY <1>3, CoverKept DEF Covered
  <2> QED
    BY <1>3, <2>1, CoverLocal DEF CoverInv, ScanTypes
<1>4. ASSUME NEW t \in Threads, NEW r \in Requests \cup {NoTimeout}, Call(t, r)
      PROVE  CoverInv'
  <2>1. pc'[t] = "retry"
    BY <1>4
    DEF Call
  <2> QED
    BY <1>4, <1>2, <2>1 DEF Call, WaitTypes, Scanning
<1>5. ASSUME NEW t \in Threads, Retry(t) PROVE CoverInv'
  BY <1>5, <1>2 DEF Retry, ScanTypes, WaitTypes
<1>6. ASSUME NEW t \in Threads, ScanEntry(t) PROVE CoverInv'
  BY <1>6, <1>3 DEF ScanEntry, Scanning, waitVars
<1>7. ASSUME NEW t \in Threads, ProbeReady(t) PROVE CoverInv'
  <2>1. ~mayblock'[t]
    BY <1>7 DEF ProbeReady, MayBlockAfterHit, ScanTypes
  <2>2. \A u \in Threads \ {t} :
           pc'[u] = pc[u] /\ mayblock'[u] = mayblock[u] /\ visited'[u] = visited[u]
    BY <1>7 DEF ProbeReady, Advance, ScanTypes
  <2> QED
    BY <1>7, <1>2, <2>1, <2>2 DEF ProbeReady
<1>8. ASSUME NEW t \in Threads, ProbeNothing(t) PROVE CoverInv'
  <2>1. CASE ~NoHead(Obj[t][cur[t]]) /\ mayblock[t]
    BY <1>8, <1>3, <2>1 DEF ProbeNothing, Scanning, waitVars
  <2>2. CASE ~mayblock[t]
    BY <1>8, <1>2, <2>2 DEF ProbeNothing, Advance, ScanTypes, waitVars
  <2>3. CASE NoHead(Obj[t][cur[t]]) /\ mayblock[t]
    <3>1. /\ UNCHANGED <<headVars, mayblock, rotor, dat>>
          /\ pc' = [pc EXCEPT ![t] = "scan"]
          /\ visited' = [visited EXCEPT ![t] = @ \cup {cur[t]}]
          /\ pc[t] = "probe"
      BY <1>8, <2>3 DEF ProbeNothing, Advance, waitVars
    <3>2. \A i \in visited'[t] : ~NoHead(Obj[t][i]) => i \in Idx /\ Covered(t, i)
      BY <3>1, <2>3 DEF CoverInv, ScanTypes, Scanning
    <3>3. \A i \in visited'[t] : ~NoHead(Obj[t][i]) => Covered(t, i)'
      BY <3>1, <3>2, CoverKept DEF Covered
    <3> QED
      BY <3>1, <3>3, CoverLocal DEF ScanTypes
  <2> QED
    BY <2>1, <2>2, <2>3 DEF ScanTypes
<1>9. ASSUME NEW t \in Threads, pc'[t] = "out",
             UNCHANGED <<headVars, mayblock, visited, rotor, dat>>,
             \A u \in Threads \ {t} : pc'[u] = pc[u]
      PROVE  CoverInv'
  BY <1>9, <1>2 DEF Scanning
<1>10. ASSUME NEW t \in Threads, ProbeError(t) PROVE CoverInv'
  BY <1>10, <1>9 DEF ProbeError, scanVars
<1>11. ASSUME NEW t \in Threads, PollAdd(t) PROVE CoverInv'
  <2>1. CASE Stale(t)
    BY <1>11, <1>3, <2>1 DEF PollAdd, Scanning, headVars
  <2>2. CASE ~Stale(t)
    <3> DEFINE o == Obj[t][cur[t]]
    <3>1. /\ UNCHANGED <<ready, phgen, phlock, wakeVars, mayblock, rotor>>
          /\ pc' = [pc EXCEPT ![t] = "scan"] /\ pc[t] = "add"
          /\ dat' = [dat EXCEPT ![t] = @ \cup {cur[t]}]
          /\ visited' = [visited EXCEPT ![t] = @ \cup {cur[t]}]
          /\ phlock[o] = NoOne
      BY <1>11, <2>2 DEF PollAdd, Advance
    <3>2. cur[t] \in Idx
      BY <3>1, CursorInRange
    <3>3. \A u \in Threads, i \in Idx : Covered(u, i) => Covered(u, i)'
      BY <3>1 DEF Covered, Fired, WakeComing, wakeVars, WaitTypes
    <3>4. \A e \in Fired(t, cur[t]) : WakeComing(t, cur[t], e)
      <4>1. SUFFICES ASSUME NEW e \in Fired(t, cur[t]) PROVE WakeComing(t, cur[t], e)
        OBVIOUS
      <4>2. Pending(o, e)
        BY <3>1, <2>2 DEF GenInv, Stale
      <4>3. PICK w \in Wakers : wpc[w] # "idle" /\ wobj[w] = o /\ wev[w] = e
        BY <4>2 DEF Pending
      <4>4. wpc[w] # "walk"
        BY <4>3, <3>1, PollConstants DEF LockInv
      <4> QED
        BY <4>3, <4>4 DEF WakeComing
    <3>5. cur[t] \in dat'[t]
      BY <3>1 DEF WaitTypes
    <3>6. ASSUME NEW i \in Idx, i = cur[t] PROVE Covered(t, i)'
      BY <3>1, <3>4, <3>5, <3>6 DEF Covered, Fired, WakeComing, wakeVars
    <3>7. SUFFICES ASSUME NEW u \in Threads, pc'[u] \in Scanning, mayblock[u],
                          NEW i \in visited'[u], ~NoHead(Obj[u][i])
                   PROVE  Covered(u, i)'
      BY <3>1 DEF CoverInv
    <3>8. pc[u] \in Scanning
      BY <3>1, <3>7 DEF Scanning
    <3>9. i \in visited[u] \/ (u = t /\ i = cur[t])
      BY <3>1 DEF ScanTypes
    <3>10. CASE i \in visited[u]
      BY <3>3, <3>7, <3>8, <3>10 DEF CoverInv, ScanTypes
    <3> QED
      BY <3>2, <3>6, <3>9, <3>10
  <2> QED
    BY <2>1, <2>2
<1>12. ASSUME NEW t \in Threads, ScanDone(t) PROVE CoverInv'
  BY <1>12, <1>3 DEF ScanDone, Scanning, scanVars
<1>13. ASSUME NEW t \in Threads, Block(t) PROVE CoverInv'
  BY <1>13, <1>3 DEF Block, Scanning, scanVars
<1>14. ASSUME NEW t \in Threads, Signal(t) PROVE CoverInv'
  BY <1>14, <1>3 DEF Signal, Scanning, scanVars
<1>15. ASSUME NEW t \in Threads, PollTime(t) PROVE CoverInv'
  BY <1>15, <1>3 DEF PollTime, Scanning, scanVars
<1>16. ASSUME NEW t \in Threads, Woken(t) PROVE CoverInv'
  BY <1>16, <1>3 DEF Woken, Scanning, scanVars
<1>17. ASSUME NEW t \in Threads, PollDel(t) PROVE CoverInv'
  <2>1. /\ UNCHANGED <<ready, phgen, wakeVars, pc, mayblock, visited, rotor>>
        /\ pc[t] \notin Scanning
        /\ \A u \in Threads \ {t} : dat'[u] = dat[u]
    BY <1>17 DEF PollDel, scanVars, Scanning, WaitTypes
  <2>2. \A u \in Threads \ {t}, i \in Idx : Covered(u, i) => Covered(u, i)'
    BY <2>1 DEF Covered, Fired, WakeComing, wakeVars
  <2> QED
    BY <2>1, <2>2 DEF CoverInv, ScanTypes
<1>18. ASSUME NEW t \in Threads, PollDelDone(t) PROVE CoverInv'
  BY <1>18, <1>3 DEF PollDelDone, Scanning, scanVars, waitVars
<1>19. ASSUME Elapse PROVE CoverInv'
  BY <1>19, <1>1 DEF Elapse, scanVars
(* The wakers: the scan is where it was, so the covers are what matters.   *)
<1>20. ASSUME UNCHANGED <<visited, mayblock, dat>>,
              \A t \in Threads : pc'[t] \in Scanning => pc[t] \in Scanning,
              \A t \in Threads, i \in Idx :
                 ~NoHead(Obj[t][i]) /\ Covered(t, i) => Covered(t, i)'
       PROVE  CoverInv'
  BY <1>20 DEF CoverInv, ScanTypes
<1>21. ASSUME NEW w \in Wakers, NEW o \in Objects, NEW e \in Events, Post(w, o, e)
       PROVE  CoverInv'
  <2>1. /\ UNCHANGED <<pc, visited, mayblock, dat, rotor, todo>>
        /\ ready' = [ready EXCEPT ![o] = @ \cup {e}]
        /\ wpc[w] = "idle"
        /\ wpc' = [wpc EXCEPT ![w] = "post"]
        /\ wobj' = [wobj EXCEPT ![w] = o]
        /\ wev' = [wev EXCEPT ![w] = e]
    BY <1>21 DEF Post, scanVars, waitVars
  <2>2. ASSUME NEW t \in Threads, NEW i \in Idx, Covered(t, i) PROVE Covered(t, i)'
    <3>1. SUFFICES ASSUME NEW f \in Fired(t, i)' \ OneEvents, rotor[t] = 0
                   PROVE  WakeComing(t, i, f)'
      BY <2>1, <2>2 DEF Covered
    <3>2. CASE f \in Fired(t, i)
      <4>1. WakeComing(t, i, f)
        BY <2>2, <3>1, <3>2 DEF Covered
      <4> QED
        BY <2>1, <4>1 DEF WakeComing, HeadTypes
    <3>3. CASE f \notin Fired(t, i)
      <4>1. f = e /\ Obj[t][i] = o
        BY <2>1, <3>1, <3>3, PollConstants DEF Fired, Interest, HeadTypes
      <4> QED
        BY <2>1, <4>1 DEF WakeComing, HeadTypes
    <3> QED
      BY <3>2, <3>3
  <2> QED
    BY <1>20, <2>1, <2>2
<1>22. ASSUME NEW o \in Objects, NEW e \in Events, Consume(o, e) PROVE CoverInv'
  <2>1. /\ UNCHANGED <<pc, visited, mayblock, dat, rotor, wakeVars>>
        /\ ready' = [ready EXCEPT ![o] = @ \ {e}]
    BY <1>22 DEF Consume, scanVars, waitVars
  <2>2. \A t \in Threads, i \in Idx : Fired(t, i)' \subseteq Fired(t, i)
    BY <2>1, PollConstants DEF Fired, Interest, HeadTypes
  <2>3. \A t \in Threads, i \in Idx : Covered(t, i) => Covered(t, i)'
    BY <2>1, <2>2 DEF Covered, WakeComing, wakeVars
  <2> QED
    BY <1>20, <2>1, <2>3
<1>23. ASSUME NEW w \in Wakers, WakeLock(w) PROVE CoverInv'
  <2>1. /\ UNCHANGED <<pc, visited, mayblock, dat, rotor, ready, wobj, wev>>
        /\ wpc' = [wpc EXCEPT ![w] = "walk"]
        /\ todo' = [todo EXCEPT ![w] = phlist[wobj[w]]]
    BY <1>23 DEF WakeLock, scanVars, waitVars
  <2>2. ASSUME NEW t \in Threads, NEW i \in Idx, Covered(t, i) PROVE Covered(t, i)'
    <3>1. <<t, i>> \in phlist[Obj[t][i]]
      BY <2>2, PollConstants DEF DatInv, Covered
    <3>2. \A e \in Events : WakeComing(t, i, e) => WakeComing(t, i, e)'
      BY <2>1, <3>1 DEF WakeComing, HeadTypes
    <3>3. Fired(t, i) \subseteq Events
      BY PollConstants DEF Fired, HeadTypes
    <3> QED
      BY <2>1, <2>2, <3>2, <3>3 DEF Covered, Fired
  <2> QED
    BY <1>20, <2>1, <2>2
<1>24. ASSUME NEW w \in Wakers, NEW t \in Threads, NEW i \in Idx, WakeMatch(w, t, i)
       PROVE  CoverInv'
  <2>1. /\ UNCHANGED <<visited, mayblock, dat, ready, wpc, wobj, wev>>
        /\ todo' = [todo EXCEPT ![w] = IF wev[w] \in OneEvents THEN {} ELSE @ \ {<<t, i>>}]
    BY <1>24 DEF WakeMatch, scanVars
  <2>2. /\ \A u \in Threads : pc'[u] \in Scanning => pc[u] \in Scanning
        /\ \A u \in Threads : rotor[u] # 0 => rotor'[u] # 0
    BY <1>24, HintFits DEF WakeMatch, WakeThread, Scanning, WaitTypes, Idx
  <2>3. rotor'[t] # 0
    BY <1>24, HintFits DEF WakeMatch, WakeThread, WaitTypes, Idx
  <2>4. ASSUME NEW u \in Threads, NEW j \in Idx, Covered(u, j) PROVE Covered(u, j)'
    <3>1. SUFFICES ASSUME u # t, NEW e \in Fired(u, j) \ OneEvents, WakeComing(u, j, e)
                   PROVE  WakeComing(u, j, e)'
      BY <2>1, <2>2, <2>3, <2>4 DEF Covered, Fired
    <3>2. <<u, j>> # <<t, i>>
      BY <3>1
    <3> QED
      BY <2>1, <3>1, <3>2 DEF WakeComing, HeadTypes
  <2> QED
    BY <1>20, <2>1, <2>2, <2>4
<1>25. ASSUME NEW w \in Wakers, NEW t \in Threads, NEW i \in Idx, WakeSkip(w, t, i)
       PROVE  CoverInv'
  <2>1. /\ UNCHANGED <<pc, visited, mayblock, dat, rotor, ready, wpc, wobj, wev>>
        /\ todo' = [todo EXCEPT ![w] = @ \ {<<t, i>>}]
        /\ wev[w] \notin Interest(t, i)
    BY <1>25 DEF WakeSkip, scanVars, waitVars
  <2>2. ASSUME NEW u \in Threads, NEW j \in Idx, Covered(u, j) PROVE Covered(u, j)'
    <3>1. SUFFICES ASSUME NEW e \in Fired(u, j) \ OneEvents, WakeComing(u, j, e)
                   PROVE  WakeComing(u, j, e)'
      BY <2>1, <2>2 DEF Covered, Fired
    <3>2. wev[w] = e => <<u, j>> # <<t, i>>
      BY <2>1, <3>1 DEF Fired
    <3> QED
      BY <2>1, <3>1, <3>2 DEF WakeComing, HeadTypes
  <2> QED
    BY <1>20, <2>1, <2>2
<1>26. ASSUME NEW w \in Wakers, WakeDone(w) PROVE CoverInv'
  <2>1. /\ UNCHANGED <<pc, visited, mayblock, dat, rotor, ready, todo>>
        /\ wpc[w] = "walk" /\ todo[w] = {}
        /\ \A v \in Wakers \ {w} : wpc'[v] = wpc[v] /\ wobj'[v] = wobj[v] /\ wev'[v] = wev[v]
    BY <1>26 DEF WakeDone, scanVars, waitVars, HeadTypes
  <2>2. \A u \in Threads, j \in Idx, e \in Events :
           WakeComing(u, j, e) => WakeComing(u, j, e)'
    BY <2>1 DEF WakeComing
  <2>3. \A u \in Threads, j \in Idx : Fired(u, j) \subseteq Events
    BY PollConstants DEF Fired, HeadTypes
  <2>4. \A u \in Threads, j \in Idx : Covered(u, j) => Covered(u, j)'
    BY <2>1, <2>2, <2>3 DEF Covered, Fired
  <2> QED
    BY <1>20, <2>1, <2>4
<1> QED
  BY <1>1, <1>4, <1>5, <1>6, <1>7, <1>8, <1>10, <1>11, <1>12, <1>13, <1>14, <1>15,
     <1>16, <1>17, <1>18, <1>19, <1>21, <1>22, <1>23, <1>24, <1>25, <1>26
  DEF Next, ThreadStep, WakerStep, Environment, vars, scanVars, waitVars

(* The wakeup for an event younger than the probe is pending until the     *)
(* generation moves.                                                       *)
LEMMA GenInvStep == IInv /\ [Next]_vars => GenInv'
<1> SUFFICES ASSUME IInv, [Next]_vars PROVE GenInv'
  OBVIOUS
<1> USE DEF IInv, TypeOK
(* Steps that add no event, finish no wakeup and probe nothing.            *)
<1>1. ASSUME UNCHANGED <<ready, phgen, wobj, wev, cur, gen>>,
             \A w \in Wakers : wpc[w] # "idle" => wpc'[w] # "idle",
             \A t \in Threads : pc'[t] \in {"probe", "add"} => pc'[t] = pc[t]
      PROVE  GenInv'
  BY <1>1 DEF GenInv, Pending, Fired
(* Steps of t that may move its cursor but do not leave it in an entry.    *)
<1>2. ASSUME NEW t \in Threads, UNCHANGED <<ready, phgen, wakeVars>>,
             \A u \in Threads \ {t} : pc'[u] = pc[u] /\ cur'[u] = cur[u] /\ gen'[u] = gen[u],
             pc'[t] \notin {"probe", "add"}
      PROVE  GenInv'
  BY <1>2 DEF GenInv, Pending, Fired, wakeVars
<1>3. ASSUME NEW t \in Threads, NEW r \in Requests \cup {NoTimeout}, Call(t, r)
      PROVE  GenInv'
  BY <1>3, <1>2 DEF Call, headVars
<1>4. ASSUME NEW t \in Threads, Retry(t) PROVE GenInv'
  BY <1>4, <1>2 DEF Retry, headVars, ScanTypes
<1>5. ASSUME NEW t \in Threads, ScanEntry(t) PROVE GenInv'
  <2>1. /\ UNCHANGED <<ready, phgen, wakeVars, cur>>
        /\ gen' = [gen EXCEPT ![t] = phgen[Obj[t][cur[t]]]]
        /\ pc' = [pc EXCEPT ![t] = "probe"]
        /\ pc[t] = "scan"
    BY <1>5 DEF ScanEntry, headVars
  <2>2. cur[t] \in Idx \/ Idx = {}
    BY PollConstants DEF ScanTypes, Idx
  <2>3. cur[t] \in Idx
    BY <1>5, <2>2 DEF ScanEntry, ScanTypes
  <2>4. phgen[Obj[t][cur[t]]] \in Nat
    BY <2>3, PollConstants DEF HeadTypes
  <2> QED
    BY <2>1, <2>4 DEF GenInv, Pending, Fired, wakeVars, ScanTypes
<1>6. ASSUME NEW t \in Threads, ProbeReady(t) PROVE GenInv'
  BY <1>6, <1>2 DEF ProbeReady, Advance, headVars, ScanTypes
<1>7. ASSUME NEW t \in Threads, ProbeNothing(t) PROVE GenInv'
  <2>1. CASE ~NoHead(Obj[t][cur[t]]) /\ mayblock[t]
    <3>1. /\ UNCHANGED <<ready, phgen, wakeVars, cur, gen>>
          /\ pc' = [pc EXCEPT ![t] = "add"]
          /\ pc[t] = "probe" /\ Fired(t, cur[t]) = {}
      BY <1>7, <2>1 DEF ProbeNothing, headVars
    <3> QED
      BY <3>1 DEF GenInv, Pending, Fired, wakeVars
  <2>2. CASE ~(~NoHead(Obj[t][cur[t]]) /\ mayblock[t])
    BY <1>7, <1>2, <2>2 DEF ProbeNothing, Advance, headVars, ScanTypes
  <2> QED
    BY <2>1, <2>2
<1>8. ASSUME NEW t \in Threads, ProbeError(t) PROVE GenInv'
  BY <1>8, <1>2 DEF ProbeError, headVars, scanVars
<1>9. ASSUME NEW t \in Threads, PollAdd(t) PROVE GenInv'
  <2>1. /\ UNCHANGED <<ready, phgen, wakeVars, gen>>
        /\ pc' = [pc EXCEPT ![t] = "scan"]
        /\ UNCHANGED cur \/ cur' = [cur EXCEPT ![t] = NextEntry(@)]
    BY <1>9 DEF PollAdd, Advance
  <2> QED
    BY <2>1, <1>2 DEF ScanTypes
<1>10. ASSUME NEW t \in Threads, ScanDone(t) PROVE GenInv'
  BY <1>10, <1>2 DEF ScanDone, headVars, scanVars
<1>11. ASSUME NEW t \in Threads, Block(t) PROVE GenInv'
  BY <1>11, <1>2 DEF Block, headVars, scanVars
<1>12. ASSUME NEW t \in Threads, Signal(t) PROVE GenInv'
  BY <1>12, <1>2 DEF Signal, headVars, scanVars
<1>13. ASSUME NEW t \in Threads, PollTime(t) PROVE GenInv'
  BY <1>13, <1>1 DEF PollTime, headVars, wakeVars, scanVars
<1>14. ASSUME NEW t \in Threads, Woken(t) PROVE GenInv'
  BY <1>14, <1>2 DEF Woken, headVars, scanVars
<1>15. ASSUME NEW t \in Threads, PollDel(t) PROVE GenInv'
  BY <1>15, <1>1 DEF PollDel, wakeVars, scanVars
<1>16. ASSUME NEW t \in Threads, PollDelDone(t) PROVE GenInv'
  BY <1>16, <1>2 DEF PollDelDone, headVars, scanVars
<1>17. ASSUME Elapse PROVE GenInv'
  BY <1>17, <1>1 DEF Elapse, headVars, wakeVars, scanVars
<1>18. ASSUME NEW w \in Wakers, NEW o \in Objects, NEW e \in Events, Post(w, o, e)
       PROVE  GenInv'
  <2>1. /\ UNCHANGED <<pc, cur, gen, phgen>>
        /\ ready' = [ready EXCEPT ![o] = @ \cup {e}]
        /\ wpc[w] = "idle"
        /\ wpc' = [wpc EXCEPT ![w] = "post"]
        /\ wobj' = [wobj EXCEPT ![w] = o]
        /\ wev' = [wev EXCEPT ![w] = e]
    BY <1>18 DEF Post, scanVars
  <2>2. \A p \in Objects, f \in Events : Pending(p, f) => Pending(p, f)'
    BY <2>1 DEF Pending, HeadTypes
  <2>3. Pending(o, e)'
    BY <2>1 DEF Pending, HeadTypes
  <2>4. SUFFICES ASSUME NEW t \in Threads, pc[t] = "add", gen[t] = phgen[Obj[t][cur[t]]],
                        NEW f \in Fired(t, cur[t])'
                 PROVE  Pending(Obj[t][cur[t]], f)'
    BY <2>1 DEF GenInv
  <2>5. Obj[t][cur[t]] \in Objects
    BY <2>4, CursorInRange
  <2>6. f \in Events
    BY <2>1, <2>5 DEF Fired, HeadTypes
  <2>7. f \in Fired(t, cur[t]) \/ (f = e /\ Obj[t][cur[t]] = o)
    BY <2>1, <2>5 DEF Fired, HeadTypes, Interest
  <2>8. CASE f \in Fired(t, cur[t])
    <3>1. Pending(Obj[t][cur[t]], f)
      BY <2>4, <2>8 DEF GenInv
    <3> QED
      BY <2>1, <2>2, <2>5, <2>6, <3>1
  <2> QED
    BY <2>1, <2>3, <2>7, <2>8
<1>19. ASSUME NEW o \in Objects, NEW e \in Events, Consume(o, e) PROVE GenInv'
  <2>1. /\ UNCHANGED <<pc, cur, gen, phgen, wakeVars>>
        /\ ready' = [ready EXCEPT ![o] = @ \ {e}]
    BY <1>19 DEF Consume, scanVars
  <2>2. \A t \in Threads : pc[t] = "add" => Fired(t, cur[t])' \subseteq Fired(t, cur[t])
    BY <2>1, CursorInRange DEF Fired, Interest, HeadTypes
  <2> QED
    BY <2>1, <2>2 DEF GenInv, Pending, wakeVars
<1>20. ASSUME NEW w \in Wakers, WakeLock(w) PROVE GenInv'
  BY <1>20, <1>1 DEF WakeLock, scanVars, HeadTypes
<1>21. ASSUME NEW w \in Wakers, NEW t \in Threads, NEW i \in Idx, WakeMatch(w, t, i)
       PROVE  GenInv'
  BY <1>21, <1>1 DEF WakeMatch, WakeThread, scanVars
<1>22. ASSUME NEW w \in Wakers, NEW t \in Threads, NEW i \in Idx, WakeSkip(w, t, i)
       PROVE  GenInv'
  BY <1>22, <1>1 DEF WakeSkip, scanVars
<1>23. ASSUME NEW w \in Wakers, WakeDone(w) PROVE GenInv'
  <2>1. /\ UNCHANGED <<pc, cur, gen, ready>>
        /\ wpc[w] = "walk"
        /\ phgen' = [phgen EXCEPT ![wobj[w]] = @ + 1]
        /\ \A v \in Wakers \ {w} : wpc'[v] = wpc[v] /\ wobj'[v] = wobj[v] /\ wev'[v] = wev[v]
    BY <1>23 DEF WakeDone, scanVars, HeadTypes
  <2>2. wobj[w] \in Objects
    BY <2>1 DEF HeadTypes
  <2>3. SUFFICES ASSUME NEW t \in Threads, pc[t] \in {"probe", "add"}
                 PROVE  /\ gen[t] <= phgen'[Obj[t][cur[t]]]
                        /\ pc[t] = "add" /\ gen[t] = phgen'[Obj[t][cur[t]]] =>
                             \A e \in Fired(t, cur[t]) : Pending(Obj[t][cur[t]], e)'
    BY <2>1 DEF GenInv, Fired
  <2>4. Obj[t][cur[t]] \in Objects /\ gen[t] \in Nat /\ phgen[Obj[t][cur[t]]] \in Nat
    BY <2>3, CursorInRange DEF HeadTypes, ScanTypes
  <2>5. gen[t] <= phgen[Obj[t][cur[t]]]
    BY <2>3 DEF GenInv
  <2>6. CASE wobj[w] = Obj[t][cur[t]]
    <3>1. phgen'[Obj[t][cur[t]]] = phgen[Obj[t][cur[t]]] + 1
      BY <2>1, <2>4, <2>6 DEF HeadTypes
    <3> QED
      BY <2>4, <2>5, <3>1
  <2>7. CASE wobj[w] # Obj[t][cur[t]]
    <3>1. phgen'[Obj[t][cur[t]]] = phgen[Obj[t][cur[t]]]
      BY <2>1, <2>4, <2>7 DEF HeadTypes
    <3>2. \A e \in Events : Pending(Obj[t][cur[t]], e) => Pending(Obj[t][cur[t]], e)'
      BY <2>1, <2>7 DEF Pending
    <3>3. Fired(t, cur[t]) \subseteq Events
      BY <2>4 DEF Fired, HeadTypes
    <3> QED
      BY <2>3, <2>5, <3>1, <3>2, <3>3 DEF GenInv
  <2> QED
    BY <2>6, <2>7
<1> QED
  BY <1>1, <1>3, <1>4, <1>5, <1>6, <1>7, <1>8, <1>9, <1>10, <1>11, <1>12, <1>13, <1>14,
     <1>15, <1>16, <1>17, <1>18, <1>19, <1>20, <1>21, <1>22, <1>23
  DEF Next, ThreadStep, WakerStep, Environment, vars, headVars, wakeVars, scanVars

LEMMA InvInit == Init => IInv
<1>1. Init => TypeOK
  BY TypeInit
<1>2. Init => LockInv /\ DatInv /\ PcInv /\ CoverInv /\ GenInv
  BY PollConstants DEF Init, LockInv, DatInv, PcInv, CoverInv, GenInv, Scanning
<1> QED
  BY <1>1, <1>2 DEF IInv

LEMMA InvStep == IInv /\ [Next]_vars => IInv'
<1>1. IInv /\ [Next]_vars => TypeOK'
  BY TypeStep DEF IInv
<1> QED
  BY <1>1, LockInvStep, DatInvStep, PcInvStep, CoverInvStep, GenInvStep DEF IInv

(* The invariant holds throughout, whatever the number of threads, entries *)
(* and wakers, and however their steps interleave.                         *)
THEOREM Invariance == Spec => []IInv
<1> QED
  BY InvInit, InvStep, PTL DEF Spec

(* No wakeup is lost: a thread sleeps beside an event it asked for only    *)
(* while the pollwakeup() for that event is on its way to it.              *)
THEOREM WakeupsArrive == Spec => []NoLostWakeup
<1>1. IInv => NoLostWakeup
  <2> SUFFICES ASSUME IInv, NEW t \in Threads, NEW i \in Idx, NEW e \in Events,
                      pc[t] = "asleep", ~NoHead(Obj[t][i]), e \in Fired(t, i) \ OneEvents
               PROVE  WakeComing(t, i, e)
    BY DEF NoLostWakeup
  <2>1. mayblock[t] /\ visited[t] = Idx /\ rotor[t] = 0
    BY DEF IInv, PcInv
  <2>2. Covered(t, i)
    BY <2>1 DEF IInv, CoverInv, Scanning
  <2> QED
    BY <2>1, <2>2 DEF Covered
<1> QED
  BY <1>1, Invariance, PTL

(* Where ut_pollrotor is read and reset without its lock, and where the    *)
(* polldat array is given back, nothing refers to the thread.              *)
THEOREM UnlockedReset == Spec => []Detached
<1>1. IInv => Detached
  <2> SUFFICES ASSUME IInv, NEW t \in Threads, pc[t] \in {"idle", "retry"}
               PROVE  /\ \A o \in Objects, i \in Idx : <<t, i>> \notin phlist[o]
                      /\ \A w \in Wakers, i \in Idx : <<t, i>> \notin todo[w]
                      /\ timer[t] # "armed"
    BY DEF Detached
  <2>1. \A o \in Objects, i \in Idx : <<t, i>> \notin phlist[o]
    BY DEF IInv, PcInv, DatInv
  <2>2. ASSUME NEW w \in Wakers, NEW i \in Idx PROVE <<t, i>> \notin todo[w]
    <3>1. wpc[w] = "walk" => wobj[w] \in Objects
      BY DEF IInv, TypeOK, HeadTypes
    <3> QED
      BY <2>1, <3>1 DEF IInv, LockInv
  <2>3. timer[t] # "armed"
    BY DEF IInv, PcInv
  <2> QED
    BY <2>1, <2>2, <2>3
<1> QED
  BY <1>1, Invariance, PTL

(* A thread goes to sleep only with no wakeup recorded against it and with *)
(* a polldat on every object that has a pollhead.                          *)
THEOREM SleepsOnlyUnhinted == Spec => SleepsUnhinted
<1>1. IInv /\ [Next]_vars =>
        [\A t \in Threads : pc[t] # "asleep" /\ pc'[t] = "asleep" =>
           rotor'[t] = 0 /\ \A i \in Idx : ~NoHead(Obj[t][i]) => i \in dat'[t]]_vars
  <2> SUFFICES ASSUME IInv, Next, NEW t \in Threads, pc[t] # "asleep", pc'[t] = "asleep"
               PROVE  rotor'[t] = 0 /\ \A i \in Idx : ~NoHead(Obj[t][i]) => i \in dat'[t]
    BY DEF vars
  <2>1. Block(t)
    <3> USE DEF IInv, TypeOK
    <3>1. ASSUME NEW u \in Threads, ThreadStep(u) PROVE Block(t)
      <4>1. pc' = pc \/ (\E s \in PCs \ {"asleep"} : pc' = [pc EXCEPT ![u] = s]) \/ Block(u)
        BY <3>1 DEF ThreadStep, Retry, ScanEntry, ProbeReady, ProbeNothing, ProbeError,
                    PollAdd, ScanDone, Woken, PollDel, PollDelDone, PCs
      <4>2. Block(u) => u = t
        BY DEF Block
      <4> QED
        BY <4>1, <4>2
    <3>2. ASSUME NEW w \in Wakers, WakerStep(w) PROVE FALSE
      BY <3>2 DEF WakerStep, WakeLock, WakeMatch, WakeThread, WakeSkip, WakeDone
    <3>3. ASSUME Environment PROVE FALSE
      BY <3>3 DEF Environment, Call, Signal, PollTime, Post, Consume, Elapse
    <3> QED
      BY <3>1, <3>2, <3>3 DEF Next
  <2>2. pc[t] = "block" /\ rotor[t] = 0 /\ UNCHANGED <<rotor, dat>>
    BY <2>1 DEF Block, Hinted, IInv, TypeOK
  <2>3. \A i \in Idx : ~NoHead(Obj[t][i]) => i \in dat[t]
    BY <2>2 DEF IInv, PcInv, CoverInv, Covered, Scanning
  <2> QED
    BY <2>2, <2>3
<1> QED
  BY <1>1, Invariance, PTL DEF Spec, SleepsUnhinted
-----------------------------------------------------------------------------
(***************************************************************************)
(* What a call reports.                                                    *)
(***************************************************************************)

(* The entries with revents. *)
Hits(t) == {i \in Idx : revents[t][i] # {}}

(* The entries from s up to the cursor c, round the end of the array.      *)
Passed(s, c) == {j \in Idx : IF s <= c THEN s <= j /\ j < c ELSE j >= s \/ j < c}

(* The cursor goes round once: it never stands on an entry of this scan    *)
(* that it has passed.                                                     *)
RoundInv ==
  \A t \in Threads : pc[t] \in {"scan", "probe", "add"} =>
    visited[t] = Idx \/ \E s \in Idx : visited[t] = Passed(s, cur[t])

(* Only entries of the current scan have revents, and none while the call  *)
(* may still block.                                                        *)
HitInv ==
  \A t \in Threads :
    /\ vcnt[t] = Cardinality(Hits(t))
    /\ \A i \in Idx : revents[t][i] \subseteq Interest(t, i)
    /\ pc[t] \in {"scan", "probe", "add"} =>
         Hits(t) \subseteq visited[t] /\ (mayblock[t] => Hits(t) = {})
    /\ pc[t] \in {"probe", "add"} => visited[t] # Idx
    /\ pc[t] \in {"retry", "block", "asleep", "woken", "del"} => Hits(t) = {}

ResultInv ==
  \A t \in Threads : pc[t] = "out" /\ result[t] # "error" =>
    (result[t] = "ready" <=> vcnt[t] > 0)

ReportInv == RoundInv /\ HitInv /\ ResultInv

(* The cursor is not an entry it has passed, and passes itself next. *)
LEMMA NextPassed ==
  ASSUME NEW s \in Idx, NEW c \in Idx
  PROVE  /\ c \in Passed(s, c) => Passed(s, c) = Idx
         /\ Passed(s, c) \cup {c} = Idx \/ Passed(s, c) \cup {c} = Passed(s, NextEntry(c))
<1> USE PollConstants DEF Idx, Passed, NextEntry
<1>1. c \notin Passed(s, c)
  OBVIOUS
<1>2. CASE c + 1 < NFds
  <2>1. NextEntry(c) = c + 1
    BY <1>2
  <2>2. CASE c + 1 = s
    <3>1. Passed(s, c) \cup {c} = Idx
      BY <2>2
    <3> QED
      BY <1>1, <3>1
  <2>3. CASE c + 1 # s
    <3>1. Passed(s, c) \cup {c} = Passed(s, c + 1)
      BY <2>3, <1>2
    <3> QED
      BY <1>1, <2>1, <3>1
  <2> QED
    BY <2>2, <2>3
<1>3. CASE ~(c + 1 < NFds)
  <2>1. NextEntry(c) = 0 /\ c = NFds - 1
    BY <1>3
  <2>2. CASE s = 0
    <3>1. Passed(s, c) \cup {c} = Idx
      BY <2>1, <2>2
    <3> QED
      BY <1>1, <3>1
  <2>3. CASE s # 0
    <3>1. Passed(s, c) \cup {c} = Passed(s, 0)
      BY <2>1, <2>3
    <3> QED
      BY <1>1, <2>1, <3>1
  <2> QED
    BY <2>2, <2>3
<1> QED
  BY <1>2, <1>3

(* The cursor goes round once, whichever entry it starts from. *)
LEMMA RoundInvStep == TypeOK /\ RoundInv /\ HitInv /\ [Next]_vars => RoundInv'
<1> SUFFICES ASSUME TypeOK, RoundInv, HitInv, [Next]_vars PROVE RoundInv'
  OBVIOUS
<1> USE DEF TypeOK
<1>1. ASSUME UNCHANGED <<cur, visited>>,
             \A t \in Threads : pc'[t] \in {"scan", "probe", "add"} =>
                                  pc[t] \in {"scan", "probe", "add"}
      PROVE  RoundInv'
  BY <1>1 DEF RoundInv
(* A probe or polladd() passes the entry. *)
<1>2. ASSUME NEW t \in Threads, pc[t] \in {"probe", "add"}, Advance(t),
             pc' = [pc EXCEPT ![t] = "scan"]
      PROVE  RoundInv'
  <2>1. cur[t] \in Idx /\ NextEntry(cur[t]) \in Idx
    BY <1>2, CursorInRange
  <2>2. /\ visited'[t] = visited[t] \cup {cur[t]}
        /\ cur'[t] = NextEntry(cur[t])
        /\ \A u \in Threads \ {t} : visited'[u] = visited[u] /\ cur'[u] = cur[u] /\ pc'[u] = pc[u]
    BY <1>2 DEF Advance, ScanTypes
  <2>3. PICK s \in Idx : visited[t] = Passed(s, cur[t])
    BY <1>2 DEF RoundInv, HitInv
  <2>4. visited'[t] = Idx \/ visited'[t] = Passed(s, cur'[t])
    BY <2>1, <2>2, <2>3, NextPassed
  <2> QED
    BY <2>2, <2>4 DEF RoundInv
<1>3. ASSUME NEW t \in Threads, Retry(t) PROVE RoundInv'
  <2>1. /\ visited'[t] = {} /\ cur'[t] = (IF rotor[t] > 0 THEN rotor[t] - 1 ELSE 0)
        /\ \A u \in Threads \ {t} : visited'[u] = visited[u] /\ cur'[u] = cur[u] /\ pc'[u] = pc[u]
    BY <1>3 DEF Retry, ScanTypes
  <2>2. cur'[t] \in Idx \/ Idx = {}
    BY <2>1, PollConstants DEF WaitTypes, Idx
  <2>3. ASSUME cur'[t] \in Idx PROVE visited'[t] = Passed(cur'[t], cur'[t])
    BY <2>1, <2>3 DEF Passed, Idx
  <2> QED
    BY <2>1, <2>2, <2>3 DEF RoundInv
<1>4. ASSUME NEW t \in Threads, ProbeReady(t) PROVE RoundInv'
  BY <1>4, <1>1, <1>2 DEF ProbeReady
<1>5. ASSUME NEW t \in Threads, ProbeNothing(t) PROVE RoundInv'
  BY <1>5, <1>1, <1>2 DEF ProbeNothing
<1>6. ASSUME NEW t \in Threads, PollAdd(t) PROVE RoundInv'
  BY <1>6, <1>1, <1>2 DEF PollAdd
<1>7. ASSUME NEW t \in Threads, NEW r \in Requests \cup {NoTimeout}, Call(t, r)
      PROVE  RoundInv'
  BY <1>7, <1>1 DEF Call
<1>8. ASSUME NEW t \in Threads,
             ScanEntry(t) \/ ProbeError(t) \/ ScanDone(t) \/ Block(t) \/ Signal(t) \/ PollTime(t)
      PROVE  RoundInv'
  BY <1>8, <1>1 DEF ScanEntry, ProbeError, ScanDone, Block, Signal, PollTime, scanVars
<1>9. ASSUME NEW t \in Threads, Woken(t) \/ PollDel(t) \/ PollDelDone(t)
      PROVE  RoundInv'
  BY <1>9, <1>1 DEF Woken, PollDel, PollDelDone, scanVars
<1>10. ASSUME NEW w \in Wakers, NEW t \in Threads, NEW i \in Idx,
              WakeMatch(w, t, i) \/ WakeSkip(w, t, i)
       PROVE  RoundInv'
  BY <1>10, <1>1 DEF WakeMatch, WakeThread, WakeSkip, scanVars
<1> QED
  BY <1>1, <1>3, <1>4, <1>5, <1>6, <1>7, <1>8, <1>9, <1>10
  DEF Next, ThreadStep, WakerStep, Environment, vars, scanVars,
      Elapse, Post, Consume, WakeLock, WakeDone

(* The count goes up with the revents, once per entry. *)
LEMMA HitInvStep == IInv /\ RoundInv /\ HitInv /\ [Next]_vars => HitInv'
<1> SUFFICES ASSUME IInv, RoundInv, HitInv, [Next]_vars PROVE HitInv'
  OBVIOUS
<1> USE DEF IInv, TypeOK
<1>1. ASSUME UNCHANGED <<visited, mayblock, vcnt, revents>>,
             \A t \in Threads :
               \/ pc'[t] = pc[t]
               \/ pc'[t] \in {"out", "idle"}
               \/ pc[t] = "scan" /\ pc'[t] = "probe" /\ visited[t] # Idx
               \/ pc[t] = "probe" /\ pc'[t] = "add"
               \/ pc[t] \in {"probe", "add"} /\ pc'[t] = "scan"
               \/ pc[t] = "scan" /\ pc'[t] = "block" /\ mayblock[t]
               \/ pc[t] \in {"block", "asleep", "woken", "del"} /\
                    pc'[t] \in {"asleep", "woken", "del", "retry"}
      PROVE  HitInv'
  <2>1. \A t \in Threads : Hits(t)' = Hits(t)
    BY <1>1 DEF Hits
  <2> QED
    BY <1>1, <2>1 DEF HitInv
<1>2. ASSUME NEW t \in Threads, NEW r \in Requests \cup {NoTimeout}, Call(t, r)
      PROVE  HitInv'
  <2>1. /\ vcnt'[t] = 0 /\ pc'[t] = "retry" /\ revents'[t] = [i \in Idx |-> {}]
        /\ \A u \in Threads \ {t} : vcnt'[u] = vcnt[u] /\ pc'[u] = pc[u] /\ revents'[u] = revents[u]
        /\ UNCHANGED <<visited, mayblock>>
    BY <1>2 DEF Call, ScanTypes
  <2>2. Hits(t)' = {} /\ Cardinality({}) = 0
    BY <2>1, FS_EmptySet DEF Hits
  <2>3. \A u \in Threads \ {t} : Hits(u)' = Hits(u)
    BY <2>1 DEF Hits
  <2> QED
    BY <2>1, <2>2, <2>3 DEF HitInv
<1>3. ASSUME NEW t \in Threads, Retry(t) PROVE HitInv'
  <2>1. /\ UNCHANGED <<vcnt, revents>> /\ pc[t] = "retry" /\ pc'[t] = "scan"
        /\ \A u \in Threads \ {t} : visited'[u] = visited[u] /\ mayblock'[u] = mayblock[u]
                                    /\ pc'[u] = pc[u]
    BY <1>3 DEF Retry, ScanTypes
  <2>2. \A u \in Threads : Hits(u)' = Hits(u)
    BY <2>1 DEF Hits
  <2> QED
    BY <2>1, <2>2 DEF HitInv
<1>4. ASSUME NEW t \in Threads, ProbeReady(t) PROVE HitInv'
  <2>1. cur[t] \in Idx /\ pc[t] = "probe" /\ Fired(t, cur[t]) # {}
        /\ Fired(t, cur[t]) \subseteq Interest(t, cur[t])
    BY <1>4, CursorInRange DEF ProbeReady, Fired
  <2>2. /\ \A i \in Idx : revents'[t][i] = IF i = cur[t] THEN Fired(t, cur[t]) ELSE revents[t][i]
        /\ \A u \in Threads \ {t} : revents'[u] = revents[u]
    BY <1>4, <2>1 DEF ProbeReady, ScanTypes
  <2>3. /\ vcnt'[t] = vcnt[t] + 1
        /\ mayblock'[t] = FALSE
        /\ \A u \in Threads \ {t} : vcnt'[u] = vcnt[u] /\ mayblock'[u] = mayblock[u]
    BY <1>4 DEF ProbeReady, ScanTypes, MayBlockAfterHit
  <2>4. /\ \/ pc'[t] = "out"
           \/ pc'[t] = "scan" /\ visited'[t] = visited[t] \cup {cur[t]}
        /\ \A u \in Threads \ {t} : visited'[u] = visited[u] /\ pc'[u] = pc[u]
    BY <1>4 DEF ProbeReady, Advance, ScanTypes
  <2>5. cur[t] \notin visited[t]
    BY <2>1, NextPassed DEF RoundInv, HitInv
  <2>6. Hits(t)' = Hits(t) \cup {cur[t]} /\ cur[t] \notin Hits(t)
    <3>1. cur[t] \notin Hits(t)
      BY <2>1, <2>5 DEF HitInv
    <3>2. Hits(t)' = Hits(t) \cup {cur[t]}
      BY <2>1, <2>2 DEF Hits
    <3> QED
      BY <3>1, <3>2
  <2>7. IsFiniteSet(Hits(t))
    <3>1. IsFiniteSet(0 .. NFds - 1)
      BY PollConstants, FS_Interval
    <3> QED
      BY <3>1, FS_Subset DEF Hits, Idx
  <2>8. vcnt'[t] = Cardinality(Hits(t)')
    <3>1. vcnt[t] = Cardinality(Hits(t))
      BY DEF HitInv
    <3>2. Cardinality(Hits(t) \cup {cur[t]}) = Cardinality(Hits(t)) + 1
      BY <2>6, <2>7, FS_AddElement
    <3> QED
      BY <2>3, <2>6, <3>1, <3>2
  <2>9. \A u \in Threads \ {t} : Hits(u)' = Hits(u)
    BY <2>2 DEF Hits
  <2>10. \A i \in Idx : revents'[t][i] \subseteq Interest(t, i)
    BY <2>1, <2>2 DEF HitInv
  <2>11. Hits(t) \subseteq visited[t]
    BY <2>1 DEF HitInv
  <2>12. ASSUME NEW u \in Threads \ {t}
         PROVE  /\ vcnt'[u] = Cardinality(Hits(u)')
                /\ \A i \in Idx : revents'[u][i] \subseteq Interest(u, i)
                /\ pc'[u] \in {"scan", "probe", "add"} =>
                     Hits(u)' \subseteq visited'[u] /\ (mayblock'[u] => Hits(u)' = {})
                /\ pc'[u] \in {"probe", "add"} => visited'[u] # Idx
                /\ pc'[u] \in {"retry", "block", "asleep", "woken", "del"} => Hits(u)' = {}
    <3>1. /\ vcnt'[u] = vcnt[u] /\ mayblock'[u] = mayblock[u] /\ Hits(u)' = Hits(u)
          /\ visited'[u] = visited[u] /\ pc'[u] = pc[u] /\ revents'[u] = revents[u]
      BY <2>2, <2>3, <2>4, <2>9
    <3> QED
      BY <3>1 DEF HitInv
  <2>13. pc'[t] \in {"out", "scan"} /\ (pc'[t] = "scan" => Hits(t)' \subseteq visited'[t])
    BY <2>4, <2>6, <2>11
  <2> QED
    BY <2>3, <2>8, <2>10, <2>12, <2>13 DEF HitInv
<1>5. ASSUME NEW t \in Threads, ProbeNothing(t) PROVE HitInv'
  <2>1. cur[t] \in Idx /\ pc[t] = "probe"
    BY <1>5, CursorInRange DEF ProbeNothing
  <2>2. cur[t] \notin visited[t]
    BY <2>1, NextPassed DEF RoundInv, HitInv
  <2>3. revents[t][cur[t]] = {}
    BY <2>1, <2>2 DEF HitInv, Hits
  <2>4. revents' = [revents EXCEPT ![t][cur[t]] = {}]
    BY <1>5 DEF ProbeNothing
  <2>5. \A u \in Threads, i \in Idx : revents'[u][i] = revents[u][i]
    BY <2>1, <2>3, <2>4 DEF ScanTypes
  <2>6. \A u \in Threads : Hits(u)' = Hits(u)
    BY <2>5 DEF Hits
  <2>7. /\ UNCHANGED <<vcnt, mayblock>>
        /\ \/ pc'[t] = "add" /\ visited'[t] = visited[t]
           \/ pc'[t] = "scan" /\ visited'[t] = visited[t] \cup {cur[t]}
        /\ \A u \in Threads \ {t} : visited'[u] = visited[u] /\ pc'[u] = pc[u]
    BY <1>5 DEF ProbeNothing, Advance, ScanTypes
  <2> QED
    BY <2>1, <2>5, <2>6, <2>7 DEF HitInv
<1>6. ASSUME NEW t \in Threads, PollAdd(t) PROVE HitInv'
  <2>1. /\ UNCHANGED <<vcnt, mayblock, revents>> /\ pc[t] = "add" /\ pc'[t] = "scan"
        /\ visited[t] \subseteq visited'[t]
        /\ \A u \in Threads \ {t} : visited'[u] = visited[u] /\ pc'[u] = pc[u]
    BY <1>6 DEF PollAdd, Advance, ScanTypes
  <2>2. \A u \in Threads : Hits(u)' = Hits(u)
    BY <2>1 DEF Hits
  <2> QED
    BY <2>1, <2>2 DEF HitInv
<1>7. ASSUME NEW t \in Threads, ScanEntry(t) \/ ProbeError(t) PROVE HitInv'
  BY <1>7, <1>1 DEF ScanEntry, ProbeError, scanVars
<1>8. ASSUME NEW t \in Threads, ScanDone(t) \/ Block(t) PROVE HitInv'
  BY <1>8, <1>1 DEF ScanDone, Block, scanVars
<1>9. ASSUME NEW t \in Threads, Signal(t) \/ PollTime(t) PROVE HitInv'
  BY <1>9, <1>1 DEF Signal, PollTime, scanVars
<1>10. ASSUME NEW t \in Threads, Woken(t) PROVE HitInv'
  BY <1>10, <1>1 DEF Woken, scanVars
<1>11. ASSUME NEW t \in Threads, PollDel(t) \/ PollDelDone(t) PROVE HitInv'
  BY <1>11, <1>1 DEF PollDel, PollDelDone, scanVars
<1>12. ASSUME NEW w \in Wakers, NEW t \in Threads, NEW i \in Idx,
              WakeMatch(w, t, i) \/ WakeSkip(w, t, i)
       PROVE  HitInv'
  BY <1>12, <1>1 DEF WakeMatch, WakeThread, WakeSkip, scanVars
<1> QED
  BY <1>1, <1>2, <1>3, <1>4, <1>5, <1>6, <1>7, <1>8, <1>9, <1>10, <1>11, <1>12
  DEF Next, ThreadStep, WakerStep, Environment, vars, scanVars,
      Elapse, Post, Consume, WakeLock, WakeDone

(* The result is chosen where the call ends, from what it has counted. *)
LEMMA ResultInvStep == TypeOK /\ HitInv /\ ResultInv /\ [Next]_vars => ResultInv'
<1> SUFFICES ASSUME TypeOK, HitInv, ResultInv, [Next]_vars PROVE ResultInv'
  OBVIOUS
<1> USE DEF TypeOK
<1>1. ASSUME UNCHANGED <<vcnt, result>>,
             \A t \in Threads : pc'[t] = "out" => pc[t] = "out"
      PROVE  ResultInv'
  BY <1>1 DEF ResultInv
<1>2. ASSUME NEW t \in Threads, NEW r \in Requests \cup {NoTimeout}, Call(t, r)
      PROVE  ResultInv'
  BY <1>2 DEF Call, ResultInv, ScanTypes, WaitTypes
<1>3. ASSUME NEW t \in Threads, Retry(t) \/ ScanEntry(t) \/ ProbeNothing(t) \/ PollAdd(t)
      PROVE  ResultInv'
  BY <1>3, <1>1 DEF Retry, ScanEntry, ProbeNothing, PollAdd, waitVars, scanVars
<1>4. ASSUME NEW t \in Threads, ProbeReady(t) PROVE ResultInv'
  BY <1>4 DEF ProbeReady, ResultInv, ScanTypes, WaitTypes
<1>5. ASSUME NEW t \in Threads, ProbeError(t) PROVE ResultInv'
  BY <1>5 DEF ProbeError, ResultInv, scanVars, WaitTypes
<1>6. ASSUME NEW t \in Threads, ScanDone(t) PROVE ResultInv'
  BY <1>6 DEF ScanDone, ResultInv, scanVars, WaitTypes
<1>7. ASSUME NEW t \in Threads, Block(t) \/ Signal(t) \/ PollTime(t) \/ PollDel(t) \/ PollDelDone(t)
      PROVE  ResultInv'
  BY <1>7, <1>1 DEF Block, Signal, PollTime, PollDel, PollDelDone, scanVars, waitVars
<1>8. ASSUME NEW t \in Threads, Woken(t) PROVE ResultInv'
  <2>1. pc[t] = "woken" /\ UNCHANGED vcnt
    BY <1>8 DEF Woken, scanVars
  <2>2. vcnt[t] = 0
    BY <2>1, FS_EmptySet DEF HitInv
  <2> QED
    BY <1>8, <2>1, <2>2 DEF Woken, ResultInv, WaitTypes
<1>9. ASSUME NEW w \in Wakers, NEW t \in Threads, NEW i \in Idx,
             WakeMatch(w, t, i) \/ WakeSkip(w, t, i)
      PROVE  ResultInv'
  BY <1>9, <1>1 DEF WakeMatch, WakeThread, WakeSkip, scanVars, waitVars
<1> QED
  BY <1>1, <1>2, <1>3, <1>4, <1>5, <1>6, <1>7, <1>8, <1>9
  DEF Next, ThreadStep, WakerStep, Environment, vars, scanVars, waitVars,
      Elapse, Post, Consume, WakeLock, WakeDone

LEMMA ReportInvariance == Spec => []ReportInv
<1>1. Init => ReportInv
  <2> SUFFICES ASSUME Init PROVE ReportInv
    OBVIOUS
  <2>1. \A t \in Threads : Hits(t) = {} /\ Cardinality({}) = 0
    BY FS_EmptySet DEF Init, Hits
  <2> QED
    BY <2>1 DEF Init, ReportInv, RoundInv, HitInv, ResultInv
<1>2. IInv /\ ReportInv /\ [Next]_vars => ReportInv'
  BY RoundInvStep, HitInvStep, ResultInvStep DEF ReportInv, IInv
<1> QED
  BY <1>1, <1>2, Invariance, PTL DEF Spec

(* Whatever scans and retries led to it, a call that ends without an error *)
(* reports exactly the entries it has counted, and "ready" exactly if      *)
(* there is one.                                                           *)
THEOREM ReportsAreExact == Spec => []ReportExact
<1>1. ReportInv => ReportExact
  BY DEF ReportInv, HitInv, ResultInv, ReportExact, Hits
<1> QED
  BY <1>1, ReportInvariance, PTL

-----------------------------------------------------------------------------
(***************************************************************************)
(* Timeouts.                                                               *)
(***************************************************************************)

(* A callout exists only for a call that has a timeout, a scan that cannot *)
(* block has found something or polls without waiting, and a timeout that  *)
(* was reported was due.                                                   *)
TimeInv ==
  \A t \in Threads :
    /\ timer[t] # "off" => pc[t] \in {"asleep", "woken"} /\ req[t] # NoTimeout
    /\ pc[t] \in {"scan", "probe", "add"} => mayblock[t] \/ req[t] = 0 \/ vcnt[t] > 0
    /\ result[t] = "timeout" =>
         pc[t] \in {"out", "idle"} /\ req[t] # NoTimeout /\ age[t] >= req[t]

(* Below the width of the counter the gate never opens early.              *)
LEMMA GateIsSound ==
  ASSUME TypeOK, \A r \in Requests : r < RtWrap,
         NEW t \in Threads, req[t] # NoTimeout, TimeIsUp(t)
  PROVE  age[t] >= req[t]
<1>1. ASSUME NEW n \in Nat, NEW m \in Nat \ {0}
      PROVE  n % m <= n /\ n % m \in Nat /\ (n < m => n % m = n)
  OBVIOUS
<1>2. req[t] \in Nat /\ req[t] < RtWrap /\ age[t] \in Nat /\ RtWrap \in Nat \ {0}
  BY PollConstants DEF TypeOK, WaitTypes
<1>3. RtTarget(t) = req[t] /\ RtElapsed(t) <= age[t] /\ RtElapsed(t) \in Nat
  BY <1>1, <1>2 DEF RtTarget, RtElapsed
<1> QED
  BY <1>2, <1>3 DEF TimeIsUp

LEMMA TimeInvStep ==
  ASSUME \A r \in Requests : r < RtWrap
  PROVE  IInv /\ HitInv /\ TimeInv /\ [Next]_vars => TimeInv'
<1> SUFFICES ASSUME IInv, HitInv, TimeInv, [Next]_vars PROVE TimeInv'
  OBVIOUS
<1> USE DEF IInv, TypeOK
<1>1. ASSUME UNCHANGED <<timer, req, mayblock, vcnt, result, age>>,
             \A t \in Threads :
               \/ pc'[t] = pc[t]
               \/ pc[t] \in {"scan", "probe", "add"} /\ pc'[t] \in {"scan", "probe", "add"}
               \/ pc[t] = "asleep" /\ pc'[t] = "woken"
               \/ pc[t] = "out" /\ pc'[t] = "idle"
               \/ pc[t] = "del" /\ pc'[t] = "retry"
      PROVE  TimeInv'
  BY <1>1 DEF TimeInv
<1>2. ASSUME NEW t \in Threads, NEW r \in Requests \cup {NoTimeout}, Call(t, r)
      PROVE  TimeInv'
  BY <1>2 DEF Call, TimeInv, ScanTypes, WaitTypes
<1>3. ASSUME NEW t \in Threads, Retry(t) PROVE TimeInv'
  <2>1. /\ UNCHANGED <<timer, req, vcnt, result, age>>
        /\ pc[t] = "retry" /\ pc' = [pc EXCEPT ![t] = "scan"]
        /\ mayblock' = [mayblock EXCEPT ![t] = req[t] # 0]
    BY <1>3 DEF Retry
  <2> QED
    BY <2>1 DEF TimeInv, ScanTypes
<1>4. ASSUME NEW t \in Threads, ScanEntry(t) \/ ProbeNothing(t) \/ PollAdd(t)
      PROVE  TimeInv'
  BY <1>4, <1>1 DEF ScanEntry, ProbeNothing, PollAdd, waitVars
<1>5. ASSUME NEW t \in Threads, ProbeReady(t) PROVE TimeInv'
  <2>1. /\ UNCHANGED <<timer, req, age>>
        /\ pc[t] = "probe"
        /\ vcnt' = [vcnt EXCEPT ![t] = @ + 1]
        /\ \A u \in Threads \ {t} : mayblock'[u] = mayblock[u] /\ pc'[u] = pc[u]
                                      /\ result'[u] = result[u]
        /\ \/ pc'[t] = "out" /\ result'[t] = "ready"
           \/ pc'[t] = "scan" /\ result'[t] = result[t]
    BY <1>5 DEF ProbeReady, ScanTypes, WaitTypes
  <2>2. vcnt'[t] > 0 /\ \A u \in Threads \ {t} : vcnt'[u] = vcnt[u]
    BY <2>1 DEF ScanTypes
  <2> QED
    BY <2>1, <2>2 DEF TimeInv
<1>6. ASSUME NEW t \in Threads, ProbeError(t) PROVE TimeInv'
  BY <1>6 DEF ProbeError, scanVars, TimeInv, WaitTypes
<1>7. ASSUME NEW t \in Threads, ScanDone(t) PROVE TimeInv'
  <2>1. /\ UNCHANGED <<timer, req, mayblock, vcnt, age>>
        /\ pc[t] = "scan"
        /\ \A u \in Threads \ {t} : pc'[u] = pc[u] /\ result'[u] = result[u]
        /\ \/ pc'[t] = "block" /\ result'[t] = result[t]
           \/ /\ pc'[t] = "out" /\ ~mayblock[t]
              /\ result'[t] = IF vcnt[t] > 0 THEN "ready" ELSE "timeout"
    BY <1>7 DEF ScanDone, scanVars, ScanTypes, WaitTypes
  <2>2. ~mayblock[t] /\ ~(vcnt[t] > 0) => req[t] = 0 /\ req[t] # NoTimeout /\ age[t] >= req[t]
    <3>1. SUFFICES ASSUME ~mayblock[t], ~(vcnt[t] > 0)
                   PROVE  req[t] = 0 /\ req[t] # NoTimeout /\ age[t] >= req[t]
      OBVIOUS
    <3>2. req[t] = 0
      BY <2>1, <3>1 DEF TimeInv
    <3> QED
      BY <3>2, PollConstants DEF WaitTypes
  <2> QED
    BY <2>1, <2>2 DEF TimeInv
<1>8. ASSUME NEW t \in Threads, Block(t) PROVE TimeInv'
  <2>1. /\ UNCHANGED <<req, mayblock, vcnt, result, age>>
        /\ pc[t] = "block" /\ pc' = [pc EXCEPT ![t] = pc'[t]] /\ pc'[t] \in {"del", "asleep"}
        /\ \A u \in Threads \ {t} : timer'[u] = timer[u]
        /\ \/ timer'[t] = timer[t]
           \/ pc'[t] = "asleep" /\ timer'[t] = "off"
           \/ pc'[t] = "asleep" /\ req[t] # NoTimeout
    BY <1>8 DEF Block, Callout, scanVars, WaitTypes
  <2>2. \A u \in Threads \ {t} : pc'[u] = pc[u]
    BY <2>1
  <2> QED
    BY <2>1, <2>2 DEF TimeInv
<1>9. ASSUME NEW t \in Threads, Signal(t) \/ PollDel(t) \/ PollDelDone(t)
      PROVE  TimeInv'
  BY <1>9, <1>1 DEF Signal, PollDel, PollDelDone, scanVars, waitVars
<1>10. ASSUME NEW t \in Threads, PollTime(t) PROVE TimeInv'
  BY <1>10 DEF PollTime, scanVars, TimeInv, WaitTypes
<1>11. ASSUME NEW t \in Threads, Woken(t) PROVE TimeInv'
  <2>1. timer[t] = "fired" /\ TimeIsUp(t) => req[t] # NoTimeout /\ age[t] >= req[t]
    BY GateIsSound DEF TimeInv
  <2> QED
    BY <1>11, <2>1 DEF Woken, scanVars, TimeInv, WaitTypes
<1>12. ASSUME Elapse PROVE TimeInv'
  <2>1. \A t \in Threads : req[t] # NoTimeout /\ age[t] >= req[t] => age'[t] >= req[t]
    <3>1. \A t \in Threads : age'[t] \in {age[t], age[t] + 1} /\ age[t] \in Nat
      BY <1>12 DEF Elapse, WaitTypes
    <3>2. \A t \in Threads : req[t] # NoTimeout => req[t] \in Nat
      BY PollConstants DEF WaitTypes
    <3> QED
      BY <3>1, <3>2
  <2> QED
    BY <1>12, <2>1 DEF Elapse, scanVars, TimeInv
<1>13. ASSUME NEW w \in Wakers, NEW t \in Threads, NEW i \in Idx,
              WakeMatch(w, t, i) \/ WakeSkip(w, t, i)
       PROVE  TimeInv'
  BY <1>13, <1>1 DEF WakeMatch, WakeThread, WakeSkip, scanVars, waitVars
<1> QED
  BY <1>1, <1>2, <1>3, <1>4, <1>5, <1>6, <1>7, <1>8, <1>9, <1>10, <1>11, <1>12, <1>13
  DEF Next, ThreadStep, WakerStep, Environment, vars, scanVars, waitVars,
      Post, Consume, WakeLock, WakeDone

(* As long as no request reaches the width of the counter (2^32            *)
(* microseconds, some 71 minutes) no timeout is early; the poll_wrap run   *)
(* shows that the hypothesis is needed.                                    *)
THEOREM TimeoutsAreDue ==
  ASSUME \A r \in Requests : r < RtWrap
  PROVE  Spec => []NoEarlyTimeout
<1>1. Init => TimeInv
  BY DEF Init, TimeInv
<1>2. IInv /\ ReportInv /\ TimeInv /\ [Next]_vars => TimeInv'
  BY TimeInvStep DEF ReportInv
<1>3. TimeInv => NoEarlyTimeout
  BY DEF TimeInv, NoEarlyTimeout
<1> QED
  BY <1>1, <1>2, <1>3, Invariance, ReportInvariance, PTL DEF Spec
=============================================================================
