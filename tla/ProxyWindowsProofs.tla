------------------------ MODULE ProxyWindowsProofs -------------------------
(***************************************************************************)
(* Proved of ProxyWindows for any windows at any places, and any cap:      *)
(* what is left of the window is exact, and no record gives way to the     *)
(* startup position.                                                       *)
(***************************************************************************)
EXTENDS ProxyWindows, FiniteSetTheorems, TLAPS

Cover(P) == {pt \in Int \X Int : Covered(pt[1], pt[2], P)}

(* The bands of r are rectangles in r that do not overlap, and cover       *)
(* exactly what o does not cover of r.                                     *)
LEMMA BandsExact ==
  ASSUME NEW r \in Rects, NEW o \in Rects, r.w > 0, r.h > 0
  PROVE  /\ Bands(r, o) \subseteq Rects
         /\ \A b \in Bands(r, o) : /\ b.w > 0 /\ r.x <= b.x /\ b.x + b.w <= r.x + r.w
                                   /\ b.h > 0 /\ r.y <= b.y /\ b.y + b.h <= r.y + r.h
         /\ \A px, py \in Int :
              /\ Covered(px, py, Bands(r, o)) <=> In(px, py, r) /\ ~In(px, py, o)
              /\ \A b, c \in Bands(r, o) : In(px, py, b) /\ In(px, py, c) => b = c
<1> DEFINE x0 == Larger(r.x, o.x)
           y0 == Larger(r.y, o.y)
           x1 == Smaller(r.x + r.w, o.x + o.w)
           y1 == Smaller(r.y + r.h, o.y + o.h)
           T  == Rect(r.x, r.y, r.w, y0 - r.y)
           B  == Rect(r.x, y1, r.w, (r.y + r.h) - y1)
           L  == Rect(r.x, y0, x0 - r.x, y1 - y0)
           E  == Rect(x1, y0, (r.x + r.w) - x1, y1 - y0)
<1>1. /\ r.x \in Int /\ r.y \in Int /\ r.w \in Int /\ r.h \in Int
      /\ o.x \in Int /\ o.y \in Int /\ o.w \in Int /\ o.h \in Int
  BY DEF Rects
<1>2. /\ x0 \in Int /\ x0 >= r.x /\ x0 >= o.x /\ (x0 = r.x \/ x0 = o.x)
      /\ y0 \in Int /\ y0 >= r.y /\ y0 >= o.y /\ (y0 = r.y \/ y0 = o.y)
      /\ x1 \in Int /\ x1 <= r.x + r.w /\ x1 <= o.x + o.w /\ (x1 = r.x + r.w \/ x1 = o.x + o.w)
      /\ y1 \in Int /\ y1 <= r.y + r.h /\ y1 <= o.y + o.h /\ (y1 = r.y + r.h \/ y1 = o.y + o.h)
  BY <1>1 DEF Larger, Smaller
<1>3. CASE x0 >= x1 \/ y0 >= y1
  <2>1. Bands(r, o) = {r}
    BY <1>3 DEF Bands
  <2>2. ASSUME NEW px \in Int, NEW py \in Int, In(px, py, r) PROVE ~In(px, py, o)
    <3> HIDE DEF x0, y0, x1, y1
    <3> QED BY <1>1, <1>2, <1>3, <2>2 DEF In
  <2> QED BY <1>1, <2>1, <2>2 DEF Covered
<1>4. CASE x0 < x1 /\ y0 < y1
  <2>1. Bands(r, o) = NonEmpty({T, B, L, E})
    BY <1>1, <1>2, <1>4 DEF Bands
  <2>2. /\ T.x = r.x /\ T.y = r.y /\ T.w = r.w /\ T.h = y0 - r.y
        /\ B.x = r.x /\ B.y = y1 /\ B.w = r.w /\ B.h = (r.y + r.h) - y1
        /\ L.x = r.x /\ L.y = y0 /\ L.w = x0 - r.x /\ L.h = y1 - y0
        /\ E.x = x1 /\ E.y = y0 /\ E.w = (r.x + r.w) - x1 /\ E.h = y1 - y0
    BY DEF Rect
  <2>3. {T, B, L, E} \subseteq Rects
    <3> HIDE DEF x0, y0, x1, y1
    <3> QED BY <1>1, <1>2 DEF Rects, Rect
  <2>4. \A b : b \in Bands(r, o) <=> b \in {T, B, L, E} /\ b.w > 0 /\ b.h > 0
    BY <2>1 DEF NonEmpty
  <2> HIDE DEF x0, y0, x1, y1, T, B, L, E
  <2>5. \A b \in Bands(r, o) : /\ b.w > 0 /\ r.x <= b.x /\ b.x + b.w <= r.x + r.w
                               /\ b.h > 0 /\ r.y <= b.y /\ b.y + b.h <= r.y + r.h
    BY <1>1, <1>2, <1>4, <2>2, <2>4
  <2>6. ASSUME NEW px \in Int, NEW py \in Int
        PROVE  /\ Covered(px, py, Bands(r, o)) <=> In(px, py, r) /\ ~In(px, py, o)
               /\ \A b, c \in Bands(r, o) : In(px, py, b) /\ In(px, py, c) => b = c
    <3>1. /\ In(px, py, T) <=> r.x <= px /\ px < r.x + r.w /\ r.y <= py /\ py < y0
          /\ In(px, py, B) <=> r.x <= px /\ px < r.x + r.w /\ y1 <= py /\ py < r.y + r.h
          /\ In(px, py, L) <=> r.x <= px /\ px < x0 /\ y0 <= py /\ py < y1
          /\ In(px, py, E) <=> x1 <= px /\ px < r.x + r.w /\ y0 <= py /\ py < y1
      <4>1. In(px, py, T) <=> r.x <= px /\ px < r.x + r.w /\ r.y <= py /\ py < y0
        BY <1>1, <1>2, <2>2 DEF In
      <4>2. In(px, py, B) <=> r.x <= px /\ px < r.x + r.w /\ y1 <= py /\ py < r.y + r.h
        BY <1>1, <1>2, <2>2 DEF In
      <4>3. In(px, py, L) <=> r.x <= px /\ px < x0 /\ y0 <= py /\ py < y1
        BY <1>1, <1>2, <2>2 DEF In
      <4>4. In(px, py, E) <=> x1 <= px /\ px < r.x + r.w /\ y0 <= py /\ py < y1
        BY <1>1, <1>2, <2>2 DEF In
      <4> QED BY <4>1, <4>2, <4>3, <4>4
    <3>2. \A b \in {T, B, L, E} : In(px, py, b) => b.w > 0 /\ b.h > 0
      BY <1>1, <1>2, <1>4, <2>2, <3>1
    <3>3. Covered(px, py, Bands(r, o)) <=> \E b \in {T, B, L, E} : In(px, py, b)
      BY <2>4, <3>2 DEF Covered
    <3>4. (In(px, py, T) \/ In(px, py, B) \/ In(px, py, L) \/ In(px, py, E))
             <=> In(px, py, r) /\ ~In(px, py, o)
      BY <1>1, <1>2, <1>4, <3>1 DEF In
    <3>5. \A b, c \in {T, B, L, E} : In(px, py, b) /\ In(px, py, c) => b = c
      BY <1>1, <1>2, <1>4, <3>1
    <3> QED BY <2>4, <3>3, <3>4, <3>5
  <2> QED BY <2>3, <2>4, <2>5, <2>6
<1> QED BY <1>2, <1>3, <1>4

-----------------------------------------------------------------------------
EntrySet == [polled : BOOLEAN, rect : Rects, obscured : BOOLEAN,
             pieces : SUBSET Rects, capped : BOOLEAN]

PolledEntries == {e \in EntrySet : e.polled = TRUE}

TypeInv ==
  /\ geom \in [Wins -> Places] /\ R \in Places
  /\ pieces \subseteq Rects /\ seen \subseteq Rects /\ capped \in BOOLEAN
  /\ records \in Seq(PolledEntries)

(* PiecesExact, at every point of the plane.                               *)
ExactInv ==
  pc = "visit" =>
    /\ \A p \in pieces : /\ p.w > 0 /\ R.x <= p.x /\ p.x + p.w <= R.x + R.w
                         /\ p.h > 0 /\ R.y <= p.y /\ p.y + p.h <= R.y + R.h
    /\ \A px, py \in Int :
         /\ Covered(px, py, pieces) => \A o \in seen : ~In(px, py, o)
         /\ In(px, py, R) /\ (\A o \in seen : ~In(px, py, o)) /\ ~capped
              => Covered(px, py, pieces)
         /\ \A p, q \in pieces : In(px, py, p) /\ In(px, py, q) => p = q

IInv == TypeInv /\ ExactInv

(* Dropping pieces takes nothing else in.                                  *)
LEMMA CapDrops ==
  ASSUME NEW S, NEW T \in Capped(S, MAXP) PROVE T \subseteq S
  BY DEF Capped

LEMMA OccluderIsRect ==
  ASSUME TypeInv, NEW w \in Wins PROVE Occluder(w) \in Rects
<1>1. geom[w] \in Rects
  BY ProxyConstants DEF TypeInv
<1>2. Border \in Int
  BY ProxyConstants
<1> QED BY <1>1, <1>2 DEF Occluder, Rects, Rect

LEMMA PlaceIsRect ==
  ASSUME TypeInv, NEW w \in Wins
  PROVE  geom[w] \in Places /\ R \in Rects /\ R.w > 0 /\ R.h > 0
  BY ProxyConstants DEF TypeInv

LEMMA EntryTyped ==
  ASSUME TypeInv, NEW p \in BOOLEAN, NEW o \in BOOLEAN
  PROVE  Entry(p, o) \in EntrySet /\ (p => Entry(p, o) \in PolledEntries)
<1>1. R \in Rects
  BY ProxyConstants DEF TypeInv
<1>2. pieces \in SUBSET Rects /\ capped \in BOOLEAN
  BY DEF TypeInv
<1>3. Entry(p, o) \in EntrySet
  BY <1>1, <1>2 DEF Entry, EntrySet
<1>4. p => Entry(p, o).polled = TRUE
  BY DEF Entry
<1> QED BY <1>3, <1>4 DEF PolledEntries

LEMMA InitIInv == Init => IInv
<1> SUFFICES ASSUME Init PROVE IInv
  OBVIOUS
<1>1. TypeInv
  <2>1. geom \in [Wins -> Places] /\ R \in Places
    BY DEF Init
  <2>2. records = <<>> /\ pieces = {} /\ seen = {} /\ capped = FALSE
    BY DEF Init
  <2>3. records \in Seq(PolledEntries)
    BY <2>2
  <2>4. pieces \subseteq Rects /\ seen \subseteq Rects /\ capped \in BOOLEAN
    BY <2>2
  <2> QED BY <2>1, <2>3, <2>4 DEF TypeInv
<1>2. ExactInv
  BY DEF Init, ExactInv
<1> QED BY <1>1, <1>2 DEF IInv

(* One window above taken out.                                             *)
LEMMA VisitExact ==
  ASSUME IInv, NEW w \in Wins, Visit(w) PROVE IInv'
<1> DEFINE o == Occluder(w)
           S == Subtract(pieces, o)
<1>1. o \in Rects
  BY OccluderIsRect DEF IInv
<1>2. /\ pieces' \subseteq S /\ seen' = seen \cup {o}
      /\ capped' = (capped \/ pieces' # S)
      /\ pc = "visit" /\ UNCHANGED <<geom, R, records>>
  BY CapDrops DEF Visit, xVars, wire
<1>3. \A r \in pieces : /\ r \in Rects
                        /\ r.w > 0 /\ R.x <= r.x /\ r.x + r.w <= R.x + R.w
                        /\ r.h > 0 /\ R.y <= r.y /\ r.y + r.h <= R.y + R.h
  BY <1>2 DEF IInv, TypeInv, ExactInv
<1> HIDE DEF o
<1>4. S \subseteq Rects
  BY <1>1, <1>3, BandsExact DEF Subtract
<1>5. TypeInv'
  BY <1>1, <1>2, <1>4 DEF IInv, TypeInv
<1>6. ASSUME NEW p \in S
      PROVE  /\ p.w > 0 /\ R.x <= p.x /\ p.x + p.w <= R.x + R.w
             /\ p.h > 0 /\ R.y <= p.y /\ p.y + p.h <= R.y + R.h
  <2>1. PICK r \in pieces : p \in Bands(r, o)
    BY DEF Subtract
  <2>2. R \in Rects /\ r \in Rects /\ p \in Rects
    BY <1>3, <1>4, PlaceIsRect DEF IInv
  <2>3. /\ p.w > 0 /\ r.x <= p.x /\ p.x + p.w <= r.x + r.w
        /\ p.h > 0 /\ r.y <= p.y /\ p.y + p.h <= r.y + r.h
    BY <1>1, <1>3, <2>1, BandsExact
  <2> QED BY <1>3, <2>2, <2>3 DEF Rects
<1>7. ASSUME NEW px \in Int, NEW py \in Int
      PROVE  /\ Covered(px, py, S) <=> Covered(px, py, pieces) /\ ~In(px, py, o)
             /\ \A p, q \in S : In(px, py, p) /\ In(px, py, q) => p = q
  <2>1. \A r \in pieces :
          /\ Covered(px, py, Bands(r, o)) <=> In(px, py, r) /\ ~In(px, py, o)
          /\ \A b, c \in Bands(r, o) : In(px, py, b) /\ In(px, py, c) => b = c
    BY <1>1, <1>3, BandsExact
  <2>2. \A q, r \in pieces : In(px, py, q) /\ In(px, py, r) => q = r
    BY <1>2 DEF IInv, ExactInv
  <2>3. \A p : p \in S <=> \E r \in pieces : p \in Bands(r, o)
    BY DEF Subtract
  <2>4. Covered(px, py, S) <=> Covered(px, py, pieces) /\ ~In(px, py, o)
    BY <2>1, <2>3 DEF Covered
  <2>5. ASSUME NEW p \in S, NEW q \in S, In(px, py, p), In(px, py, q) PROVE p = q
    <3>1. PICK r1 \in pieces : p \in Bands(r1, o)
      BY <2>3
    <3>2. PICK r2 \in pieces : q \in Bands(r2, o)
      BY <2>3
    <3>3. In(px, py, r1) /\ In(px, py, r2)
      BY <2>1, <2>5, <3>1, <3>2 DEF Covered
    <3> QED BY <2>1, <2>2, <2>5, <3>1, <3>2, <3>3
  <2> QED BY <2>4, <2>5
<1>8. ExactInv'
  <2> SUFFICES ASSUME pc' = "visit" PROVE
        /\ \A p \in pieces' : /\ p.w > 0 /\ R.x <= p.x /\ p.x + p.w <= R.x + R.w
                              /\ p.h > 0 /\ R.y <= p.y /\ p.y + p.h <= R.y + R.h
        /\ \A px, py \in Int :
             /\ Covered(px, py, pieces') => \A u \in seen' : ~In(px, py, u)
             /\ In(px, py, R) /\ (\A u \in seen' : ~In(px, py, u)) /\ ~capped'
                  => Covered(px, py, pieces')
             /\ \A p, q \in pieces' : In(px, py, p) /\ In(px, py, q) => p = q
    BY <1>2 DEF ExactInv, Covered, In
  <2>1. ASSUME NEW px \in Int, NEW py \in Int
        PROVE  /\ Covered(px, py, pieces') => \A u \in seen' : ~In(px, py, u)
               /\ In(px, py, R) /\ (\A u \in seen' : ~In(px, py, u)) /\ ~capped'
                    => Covered(px, py, pieces')
               /\ \A p, q \in pieces' : In(px, py, p) /\ In(px, py, q) => p = q
    <3>1. Covered(px, py, pieces') => Covered(px, py, S)
      BY <1>2 DEF Covered
    <3>2. /\ Covered(px, py, pieces) => \A u \in seen : ~In(px, py, u)
          /\ In(px, py, R) /\ (\A u \in seen : ~In(px, py, u)) /\ ~capped
               => Covered(px, py, pieces)
      BY <1>2 DEF IInv, ExactInv
    <3>3. ~capped' => ~capped /\ pieces' = S
      BY <1>2 DEF IInv, TypeInv
    <3> HIDE DEF S
    <3> QED BY <1>2, <1>7, <3>1, <3>2, <3>3
  <2> QED BY <1>2, <1>6, <2>1
<1> QED BY <1>5, <1>8 DEF IInv

(* The start of a pass: the whole window, and nothing taken out.           *)
LEMMA TreeExact == ASSUME IInv, Tree PROVE IInv'
<1>1. /\ pieces' = {R} /\ seen' = {} /\ capped' = FALSE
      /\ UNCHANGED <<geom, R, records>>
  BY DEF Tree, xVars, wire
<1>2. R \in Rects /\ R.w > 0 /\ R.h > 0
  BY PlaceIsRect, ProxyConstants DEF IInv, TypeInv
<1>3. TypeInv'
  BY <1>1, <1>2 DEF IInv, TypeInv
<1>4. R.x <= R.x /\ R.x + R.w <= R.x + R.w /\ R.y <= R.y /\ R.y + R.h <= R.y + R.h
  BY <1>2 DEF Rects
<1>5. ExactInv'
  BY <1>1, <1>2, <1>4 DEF ExactInv, Covered, In
<1> QED BY <1>3, <1>5 DEF IInv

(* A record carries what the pass has left, and is marked as polled.       *)
LEMMA SendTyped == ASSUME IInv, SendRecord PROVE IInv'
<1>1. /\ UNCHANGED <<geom, R>> /\ pieces' = {} /\ seen' = {} /\ capped' = FALSE
      /\ pc' = "loop"
  BY DEF SendRecord, xVars
<1>2. Entry(TRUE, Obscured) \in PolledEntries
  <2>1. TypeInv /\ Obscured \in BOOLEAN /\ TRUE \in BOOLEAN
    BY DEF Obscured, IInv
  <2> QED BY <2>1, EntryTyped
<1>3. records' \in Seq(PolledEntries)
  <2>1. records' = records \/ records' = Append(records, Entry(TRUE, Obscured))
    BY DEF SendRecord
  <2>2. records \in Seq(PolledEntries)
    BY DEF IInv, TypeInv
  <2>3. \A q \in Seq(PolledEntries), e \in PolledEntries : Append(q, e) \in Seq(PolledEntries)
    OBVIOUS
  <2> QED BY <1>2, <2>1, <2>2, <2>3, Zenon
<1> QED BY <1>1, <1>3 DEF IInv, TypeInv, ExactInv

(* Exit empties the pass and leaves the rest.                              *)
LEMMA ExitKeeps == ASSUME IInv, Exit PROVE IInv'
  BY DEF Exit, IInv, TypeInv, ExactInv, wire

LEMMA StepIInv == ASSUME IInv, [Next]_vars PROVE IInv'
<1>1. ASSUME UNCHANGED vars PROVE IInv'
  BY <1>1 DEF IInv, TypeInv, ExactInv, vars, xVars, proxyVars, wire, Covered, In
<1>2. ASSUME NEW w \in Wins, NEW r \in Places, Move(w, r) PROVE IInv'
  BY <1>2 DEF Move, IInv, TypeInv, ExactInv, proxyVars, wire, Covered, In
<1>3. ASSUME NEW w \in Wins, Raise(w) \/ MapOrUnmap(w) \/ Destroy(w) PROVE IInv'
  BY <1>3 DEF Raise, MapOrUnmap, Destroy, IInv, TypeInv, ExactInv, proxyVars, wire, Covered, In
<1>4. ASSUME Reparent PROVE IInv'
  BY <1>4 DEF Reparent, IInv, TypeInv, ExactInv, proxyVars, wire, Covered, In
<1>5. ASSUME Start PROVE IInv'
  BY <1>5 DEF Start, IInv, TypeInv, ExactInv
<1>6. ASSUME Hello PROVE IInv'
  <2>1. CASE Exit
    BY <2>1, <1>6, ExitKeeps
  <2>2. CASE ~Exit
    BY <2>2, <1>6 DEF Hello, IInv, TypeInv, ExactInv, xVars
  <2> QED BY <2>1, <2>2
<1>7. ASSUME Connect \/ Walk \/ Poll PROVE IInv'
  <2>1. QueryGeom \in Places
    BY PlaceIsRect DEF IInv, QueryGeom, Wins
  <2> QED BY <1>7, <2>1 DEF Connect, Walk, Poll, IInv, TypeInv, ExactInv, xVars, wire
<1>8. ASSUME Tree PROVE IInv'
  BY <1>8, TreeExact
<1>9. ASSUME NEW w \in Wins, SkipHidden(w) PROVE IInv'
  BY <1>9 DEF SkipHidden, IInv, TypeInv, ExactInv, xVars, wire, Covered, In
<1>10. ASSUME NEW w \in Wins, Visit(w) PROVE IInv'
  BY <1>10, VisitExact
<1>11. ASSUME NEW w \in Wins, BadWindow(w) PROVE IInv'
  BY <1>11, ExitKeeps DEF BadWindow
<1>12. ASSUME SendRecord PROVE IInv'
  BY <1>12, SendTyped
<1>13. ASSUME Eof PROVE IInv'
  BY <1>13, ExitKeeps DEF Eof
<1>14. ASSUME ReadHello PROVE IInv'
  BY <1>14 DEF ReadHello, IInv, TypeInv, ExactInv, xVars, proxyVars, Covered, In
<1>15. ASSUME ReadRecord PROVE IInv'
  <2>1. UNCHANGED <<geom, R, pc, pieces, seen, capped>> /\ records # <<>> /\ records' = Tail(records)
    BY <1>15 DEF ReadRecord, xVars, proxyVars
  <2>2. records' \in Seq(PolledEntries)
    BY <2>1 DEF IInv, TypeInv
  <2> QED BY <2>1, <2>2 DEF IInv, TypeInv, ExactInv, Covered, In
<1> QED
  BY <1>1, <1>2, <1>3, <1>4, <1>5, <1>6, <1>7, <1>8, <1>9, <1>10, <1>11, <1>12,
     <1>13, <1>14, <1>15 DEF Next, XServer, Polling

(* The proxy's record of windows keeps the inductive invariant at every    *)
(* step of the server, of either connection and of the window manager.     *)
THEOREM Invariance == Spec => []IInv
<1>1. Init => IInv
  BY InitIInv
<1>2. IInv /\ [Next]_vars => IInv'
  BY StepIInv
<1> QED BY <1>1, <1>2, PTL DEF Spec

(* What compute_pieces has left is always exact, for windows of any size   *)
(* at any place, however many there are and however they change meanwhile. *)
THEOREM ExactPieces == Spec => []PiecesExact
<1>1. IInv => PiecesExact
  <2> SUFFICES ASSUME IInv, pc = "visit" PROVE PiecesExact
    BY DEF PiecesExact
  <2>1. R \in Rects
    BY PlaceIsRect, ProxyConstants DEF IInv, TypeInv
  <2>2. ASSUME NEW pt \in Pixels(R)
        PROVE  pt[1] \in Int /\ pt[2] \in Int /\ In(pt[1], pt[2], R)
    BY <2>1 DEF Pixels, In, Rects
  <2> QED BY <2>2 DEF PiecesExact, IInv, ExactInv
<1> QED BY <1>1, Invariance, PTL

(* The startup position never replaces what a record has said.             *)
THEOREM RecordsWin == Spec => RecordOutlastsSeed
<1>1. IInv /\ [Next]_vars => [windows.polled => windows'.polled]_vars
  <2> SUFFICES ASSUME IInv, Next, windows.polled PROVE windows'.polled
    BY DEF vars
  <2>1. CASE ReadHello
    <3>1. windows # NoEntry
      BY DEF NoEntry
    <3> QED BY <2>1, <3>1 DEF ReadHello, Seeded
  <2>2. CASE ReadRecord
    <3>1. records \in Seq(PolledEntries) /\ records # <<>>
      BY <2>2 DEF IInv, TypeInv, ReadRecord
    <3>2. Head(records) \in PolledEntries
      BY <3>1
    <3> QED BY <2>2, <3>2 DEF ReadRecord, PolledEntries
  <2>3. CASE windows' = windows
    BY <2>3
  <2>4. ReadHello \/ ReadRecord \/ windows' = windows
    BY DEF Next, XServer, Polling, Move, Raise, MapOrUnmap, Destroy, Reparent, Start, Hello,
           Exit, Connect, Walk, Tree, SkipHidden, Visit, BadWindow, SendRecord, Poll, Eof
  <2> QED BY <2>1, <2>2, <2>3, <2>4
<1> QED BY <1>1, Invariance, PTL DEF Spec, RecordOutlastsSeed

-----------------------------------------------------------------------------
(* What TypeOK says beyond TypeInv: the stacking relates windows, the      *)
(* pieces fit the array, and the registry and the wire hold entries.       *)
RestTypes ==
  /\ present \subseteq Wins /\ viewable \subseteq Wins
  /\ over \subseteq Wins \X Wins
  /\ changes \in 0..MaxChanges /\ starts \in 0..MaxStarts
  /\ pc \in {"off", "hello", "connect", "walk", "tree", "visit", "loop", "exited"}
  /\ top \in {Own, Frame} /\ above \subseteq Wins
  /\ Cardinality(pieces) <= MAXP
  /\ control \in BOOLEAN
  /\ {hello, windows} \subseteq EntrySet \cup {NoEntry}

LEMMA RestInit == Init => RestTypes
<1> SUFFICES ASSUME Init PROVE RestTypes
  OBVIOUS
<1>1. over \subseteq Wins \X Wins
  BY DEF Init, Wins
<1>2. present \subseteq Wins /\ viewable \subseteq Wins /\ above \subseteq Wins
  BY DEF Init, Wins
<1>3. changes \in 0..MaxChanges /\ starts \in 0..MaxStarts
  BY ProxyConstants DEF Init
<1>4. Cardinality(pieces) <= MAXP
  BY ProxyConstants, FS_EmptySet DEF Init
<1> QED BY <1>1, <1>2, <1>3, <1>4 DEF Init, RestTypes

(* Cutting may leave more pieces than the array takes; the cap drops them. *)
LEMMA CapFits ==
  ASSUME NEW S, NEW T \in Capped(S, MAXP) PROVE Cardinality(T) <= MAXP
  BY ProxyConstants DEF Capped

LEMMA RestStep == ASSUME IInv, RestTypes, [Next]_vars PROVE RestTypes'
<1> USE ProxyConstants DEF RestTypes, Wins
<1>1. ASSUME UNCHANGED vars PROVE RestTypes'
  BY <1>1 DEF vars, xVars, proxyVars, wire
<1>2. ASSUME NEW w \in Wins, NEW r \in Places, Move(w, r) PROVE RestTypes'
  BY <1>2 DEF Move, Change, proxyVars, wire
<1>3. ASSUME NEW w \in Wins, Raise(w) PROVE RestTypes'
  <2>1. over' \subseteq Wins \X Wins
    BY <1>3 DEF Raise, Raised
  <2> QED BY <1>3, <2>1 DEF Raise, Change, proxyVars, wire
<1>4. ASSUME NEW w \in Wins, MapOrUnmap(w) PROVE RestTypes'
  BY <1>4 DEF MapOrUnmap, Change, proxyVars, wire
<1>5. ASSUME NEW w \in Wins, Destroy(w) PROVE RestTypes'
  BY <1>5 DEF Destroy, Change, Without, proxyVars, wire
<1>6. ASSUME Reparent PROVE RestTypes'
  <2>1. over' \subseteq Wins \X Wins
    BY <1>6 DEF Reparent, Without
  <2>2. present' \subseteq Wins /\ viewable' \subseteq Wins
    BY <1>6 DEF Reparent
  <2>3. changes' \in 0..MaxChanges
    BY <1>6 DEF Reparent, Change
  <2> QED BY <1>6, <2>1, <2>2, <2>3 DEF Reparent, proxyVars, wire
<1>7. ASSUME Start PROVE RestTypes'
  <2>1. over' \subseteq Wins \X Wins
    BY <1>7 DEF Start
  <2>2. present' \subseteq Wins /\ viewable' \subseteq Wins
    BY <1>7 DEF Start
  <2>3. starts' \in 0..MaxStarts
    BY <1>7 DEF Start
  <2> QED BY <1>7, <2>1, <2>2, <2>3 DEF Start
<1>8. ASSUME Exit PROVE RestTypes'
  BY <1>8, FS_EmptySet DEF Exit, Without, wire
<1>9. ASSUME Hello PROVE RestTypes'
  <2>1. Seed \in EntrySet
    BY EntryTyped DEF Seed, IInv
  <2> QED BY <1>8, <1>9, <2>1 DEF Hello, xVars
<1>10. ASSUME Connect \/ Walk \/ Poll PROVE RestTypes'
  BY <1>10 DEF Connect, Walk, Ancestor, Poll, xVars, wire
<1>11. ASSUME Tree PROVE RestTypes'
  <2>1. Cardinality({R}) = 1
    BY FS_Singleton
  <2> QED BY <1>11, <2>1 DEF Tree, Above, xVars, wire
<1>12. ASSUME NEW w \in Wins, SkipHidden(w) PROVE RestTypes'
  BY <1>12 DEF SkipHidden, xVars, wire
<1>13. ASSUME NEW w \in Wins, Visit(w) PROVE RestTypes'
  <2>1. Cardinality(pieces') <= MAXP
    BY <1>13, CapFits DEF Visit
  <2> QED BY <1>13, <2>1 DEF Visit, xVars, wire
<1>14. ASSUME SendRecord PROVE RestTypes'
  BY <1>14, FS_EmptySet DEF SendRecord, xVars
<1>15. ASSUME ReadHello PROVE RestTypes'
  BY <1>15 DEF ReadHello, Seeded, xVars, proxyVars
<1>16. ASSUME ReadRecord PROVE RestTypes'
  <2>1. records \in Seq(PolledEntries) /\ records # <<>>
    BY <1>16 DEF IInv, TypeInv, ReadRecord
  <2>2. Head(records) \in EntrySet
    BY <2>1 DEF PolledEntries
  <2> QED BY <1>16, <2>2 DEF ReadRecord, xVars, proxyVars
<1> QED
  BY <1>1, <1>2, <1>3, <1>4, <1>5, <1>6, <1>7, <1>8, <1>9, <1>10, <1>11, <1>12,
     <1>13, <1>14, <1>15, <1>16 DEF Next, XServer, Polling, BadWindow, Eof

(* Every variable keeps its type: among other things no more than MAXP     *)
(* pieces ever go into a record, and every entry the renderer reads or     *)
(* keeps is a complete one.                                                *)
THEOREM TypeCorrect == Spec => []TypeOK
<1>1. IInv /\ RestTypes => TypeOK
  <2> SUFFICES ASSUME IInv, RestTypes PROVE TypeOK
    OBVIOUS
  <2>1. \A e \in EntrySet \cup {NoEntry} : IsEntry(e)
    BY DEF EntrySet, IsEntry
  <2>2. \A i \in 1..Len(records) : IsEntry(records[i])
    BY <2>1 DEF IInv, TypeInv, PolledEntries
  <2> QED BY <2>1, <2>2 DEF IInv, TypeInv, RestTypes, TypeOK
<1> QED BY <1>1, RestInit, RestStep, Invariance, PTL DEF Spec
=============================================================================
