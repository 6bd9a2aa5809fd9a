---------------------------- MODULE ClipPieces -----------------------------
(***************************************************************************)
(* Rectangles of screen pixels, and how dgld_proxy.c cuts the part that a  *)
(* window above covers out of its own window (rect_subtract).  The visible *)
(* pieces are a set: their order is kept by nothing but the cap, which     *)
(* here drops any of them.                                                 *)
(***************************************************************************)
EXTENDS Integers, FiniteSets

Rects == [x : Int, y : Int, w : Int, h : Int]
Rect(x, y, w, h) == [x |-> x, y |-> y, w |-> w, h |-> h]

In(px, py, r) ==
  /\ r.x <= px /\ px < r.x + r.w
  /\ r.y <= py /\ py < r.y + r.h

Pixels(r) == (r.x .. r.x + r.w - 1) \X (r.y .. r.y + r.h - 1)

Larger(a, b)  == IF a > b THEN a ELSE b
Smaller(a, b) == IF a < b THEN a ELSE b

NonEmpty(R) == {r \in R : r.w > 0 /\ r.h > 0}

(* Plausible mistakes, each a wrong form of an operator below: bands at the *)
(* sides of full height, and no cap.                                       *)
FullSides(r, o) ==
  LET x0 == Larger(r.x, o.x)                y0 == Larger(r.y, o.y)
      x1 == Smaller(r.x + r.w, o.x + o.w)   y1 == Smaller(r.y + r.h, o.y + o.h) IN
  IF x0 >= x1 \/ y0 >= y1 THEN {r}
  ELSE NonEmpty({Rect(r.x, r.y, r.w, y0 - r.y),
                 Rect(r.x, y1, r.w, (r.y + r.h) - y1),
                 Rect(r.x, r.y, x0 - r.x, r.h),
                 Rect(x1, r.y, (r.x + r.w) - x1, r.h)})

TooMany(pieces, max) == {pieces}

(* rect_subtract: r without what o covers of it, as the bands above,       *)
(* below, left and right of the overlap.                                   *)
Bands(r, o) ==
  LET x0 == Larger(r.x, o.x)                y0 == Larger(r.y, o.y)
      x1 == Smaller(r.x + r.w, o.x + o.w)   y1 == Smaller(r.y + r.h, o.y + o.h) IN
  IF x0 >= x1 \/ y0 >= y1 THEN {r}
  ELSE NonEmpty({Rect(r.x, r.y, r.w, y0 - r.y),
                 Rect(r.x, y1, r.w, (r.y + r.h) - y1),
                 Rect(r.x, y0, x0 - r.x, y1 - y0),
                 Rect(x1, y0, (r.x + r.w) - x1, y1 - y0)})

Subtract(pieces, o) == UNION {Bands(r, o) : r \in pieces}

(* Once the array is full nothing is appended to it.                       *)
Capped(pieces, max) ==
  IF Cardinality(pieces) <= max THEN {pieces}
  ELSE {p \in SUBSET pieces : Cardinality(p) = max}
=============================================================================
