--------------------------- MODULE ProxyWindows ----------------------------
(***************************************************************************)
(* How the host overlay follows a GL window of the guest desktop: the      *)
(* proxy in the guest (ip54_tftp_staging/dgld_proxy.c) owns an X window,   *)
(* polls its position and the windows above it one X request at a time,    *)
(* and sends what is visible to the renderer (sgi_glremote/                *)
(* proxy_renderer.py), which draws each frame where its registry says.     *)
(* Meanwhile the X server's other clients move, raise, map and destroy     *)
(* windows, and the window manager reparents ours into a frame.            *)
(*                                                                         *)
(* One proxy at a time; a later one may get the process id, and so the     *)
(* window id, of an earlier one.  The GL stream is left out, and so are    *)
(* the frames, which are placed and clipped by the entry of the moment.    *)
(***************************************************************************)
EXTENDS ClipPieces, Sequences

CONSTANTS
  Others,      \* top-level windows of other clients
  Own, Frame,  \* the proxy's window, and the frame it may be put into
  Places,      \* rectangles where windows may be
  Border,      \* border width of the other windows
  MAXP,        \* the cap on visible pieces: 16
  \* ---- bounds ----
  MaxChanges, MaxInFlight, MaxStarts

Wins == Others \cup {Own, Frame}

ASSUME ProxyConstants ==
  /\ Places \subseteq Rects
  /\ \A r \in Places : r.w > 0 /\ r.h > 0
  /\ Border \in Nat
  /\ MAXP \in Nat \ {0}
  /\ MaxChanges \in Nat /\ MaxStarts \in Nat
  /\ Own # Frame /\ Own \notin Others /\ Frame \notin Others

VARIABLES
  \* ---- the X server ----
  geom,      \* inner rectangle of each window, in screen coordinates
  present,   \* the children of the root
  over,      \* <<v, w>>: v is stacked above w
  viewable,  \* the windows that are mapped
  changes,   \* how much the other clients have changed
  \* ---- the proxy ----
  pc, starts,
  R,         \* its window's rectangle, as last queried
  top,       \* the child of the root that holds it
  above,     \* children it has yet to look at
  pieces,    \* what is left of R
  seen,      \* history: the rectangles taken out of R
  capped,    \* history: pieces were dropped
  \* ---- its connections to the renderer ----
  hello,     \* the PVSH header that is on its way, or NoEntry
  control,   \* the PVWN connection was made
  records,   \* records in it
  \* ---- the renderer ----
  windows    \* the registry's entry for the window, or NoEntry

xVars     == <<geom, present, over, viewable, changes>>
proxyVars == <<pc, starts, R, top, above, pieces, seen, capped>>
wire      == <<hello, control, records>>
vars      == <<xVars, proxyVars, wire, windows>>

NoEntry == [polled |-> FALSE]

(* What the registry keeps: the window's rectangle, whether it is obscured,*)
(* and its visible pieces, where none means all of it.                     *)
Entry(polled, obscured) ==
  [polled |-> polled, rect |-> R, obscured |-> obscured,
   pieces |-> pieces, capped |-> capped]

IsEntry(e) ==
  e = NoEntry \/ /\ e.polled \in BOOLEAN /\ e.obscured \in BOOLEAN /\ e.capped \in BOOLEAN
                 /\ \A r \in e.pieces \cup {e.rect} : r \in Rects

TypeOK ==
  /\ geom \in [Wins -> Places]
  /\ present \subseteq Wins /\ viewable \subseteq Wins
  /\ over \subseteq Wins \X Wins
  /\ changes \in 0..MaxChanges /\ starts \in 0..MaxStarts
  /\ pc \in {"off", "hello", "connect", "walk", "tree", "visit", "loop", "exited"}
  /\ R \in Places /\ top \in {Own, Frame} /\ above \subseteq Wins
  /\ \A r \in pieces \cup seen : r \in Rects
  /\ Cardinality(pieces) <= MAXP
  /\ capped \in BOOLEAN
  /\ control \in BOOLEAN
  /\ \A i \in 1..Len(records) : IsEntry(records[i])
  /\ \A e \in {hello, windows} : IsEntry(e)

Raised(w) == {p \in over : w # p[1] /\ w # p[2]} \cup ({w} \X (present \ {w}))
Without(S) == {p \in over : p[1] \notin S /\ p[2] \notin S}

Init ==
  /\ \E r \in Places : geom = [w \in Wins |-> r] /\ R = r
  /\ present = Others /\ viewable = Others
  /\ \E o \in SUBSET (Others \X Others) :
       /\ \A v, w \in Others : v # w => (<<v, w>> \in o <=> <<w, v>> \notin o)
       /\ \A v \in Others : <<v, v>> \notin o
       /\ \A u, v, w \in Others : <<u, v>> \in o /\ <<v, w>> \in o => <<u, w>> \in o
       /\ over = o
  /\ changes = 0 /\ pc = "off" /\ starts = 0
  /\ top = Own /\ above = {} /\ pieces = {} /\ seen = {} /\ capped = FALSE
  /\ hello = NoEntry /\ control = FALSE /\ records = <<>>
  /\ windows = NoEntry

-----------------------------------------------------------------------------
(* Plausible mistakes, each a wrong form of an operator below; the         *)
(* properties reject both, and two more in ClipPieces.                     *)
SeedAlways == hello
Unmoved    == R

-----------------------------------------------------------------------------
(* The X server: other clients, the window manager and the user.           *)

Change == changes < MaxChanges /\ changes' = changes + 1

(* Windows that a user can move, unmap or map again.                       *)
Handled == IF Frame \in present THEN (present \ {Frame}) \cup {Own} ELSE present

Move(w, r) ==
  /\ Change /\ w \in Handled /\ geom[w] # r
  /\ geom' = [geom EXCEPT ![w] = r]
  /\ UNCHANGED <<present, over, viewable, proxyVars, wire, windows>>

Raise(w) ==
  /\ Change /\ w \in present
  /\ over' = Raised(w) /\ over' # over
  /\ UNCHANGED <<geom, present, viewable, proxyVars, wire, windows>>

MapOrUnmap(w) ==
  /\ Change /\ w \in Handled
  /\ viewable' = IF w \in viewable THEN viewable \ {w} ELSE viewable \cup {w}
  /\ UNCHANGED <<geom, present, over, proxyVars, wire, windows>>

Destroy(w) ==
  /\ Change /\ w \in present \cap Others
  /\ present' = present \ {w} /\ viewable' = viewable \ {w}
  /\ over' = Without({w})
  /\ UNCHANGED <<geom, proxyVars, wire, windows>>

(* The window manager puts a frame around the proxy's window, on top.      *)
Reparent ==
  /\ Change /\ Own \in present
  /\ present' = (present \ {Own}) \cup {Frame}
  /\ viewable' = viewable \cup {Frame}
  /\ over' = Without({Own}) \cup ({Frame} \X (present \ {Own}))
  /\ UNCHANGED <<geom, proxyVars, wire, windows>>

-----------------------------------------------------------------------------
(* The proxy.                                                              *)

(* It creates and maps its window, and reads where it is.                  *)
Start ==
  /\ pc \in {"off", "exited"} /\ records = <<>> /\ hello = NoEntry
  /\ starts < MaxStarts /\ starts' = starts + 1
  /\ pc' = "hello"
  /\ \E r \in Places : geom' = [geom EXCEPT ![Own] = r] /\ R' = r
  /\ present' = present \cup {Own} /\ viewable' = viewable \cup {Own}
  /\ over' = over \cup ({Own} \X present)
  /\ control' = FALSE
  /\ UNCHANGED <<changes, top, above, pieces, seen, capped, hello, records, windows>>

(* The process ends, and with it its window and its connections.           *)
Exit ==
  /\ pc' = "exited"
  /\ present' = present \ {Own, Frame} /\ viewable' = viewable \ {Own, Frame}
  /\ over' = Without({Own, Frame})
  /\ above' = {} /\ pieces' = {} /\ seen' = {} /\ capped' = FALSE
  /\ UNCHANGED <<geom, changes, starts, R, top, wire, windows>>

Seed == Entry(FALSE, FALSE)

Hello ==
  /\ pc = "hello"
  /\ \/ /\ pc' = "connect" /\ hello' = Seed
        /\ UNCHANGED <<xVars, starts, R, top, above, pieces, seen, capped,
                       control, records, windows>>
     \/ Exit                                  \* no renderer

(* The second connection; without it the records go nowhere.               *)
Connect ==
  /\ pc = "connect"
  /\ \/ pc' = "walk" /\ control' = TRUE
     \/ pc' = "loop" /\ UNCHANGED control
  /\ UNCHANGED <<xVars, starts, R, top, above, pieces, seen, capped,
                 hello, records, windows>>

(* compute_pieces: up the tree to the child of the root ...                *)
Ancestor == IF Frame \in present THEN Frame ELSE Own

Walk ==
  /\ pc = "walk" /\ pc' = "tree"
  /\ top' = Ancestor
  /\ UNCHANGED <<xVars, starts, R, above, pieces, seen, capped, wire, windows>>

(* ... then the children of the root, of which those above it count; none  *)
(* do if it is not there any more.                                         *)
Above == IF top \in present THEN {w \in present : <<w, top>> \in over} ELSE {}

Tree ==
  /\ pc = "tree" /\ pc' = "visit"
  /\ above' = Above
  /\ pieces' = {R} /\ seen' = {} /\ capped' = FALSE
  /\ UNCHANGED <<xVars, starts, R, top, wire, windows>>

(* What a window above is taken to cover; its size and its position, of    *)
(* which two requests tell, are of one moment here.                        *)
Occluder(w) ==
  Rect(geom[w].x, geom[w].y, geom[w].w + 2 * Border, geom[w].h + 2 * Border)

SkipHidden(w) ==
  /\ pc = "visit" /\ w \in above /\ pieces # {}
  /\ w \in present \ viewable
  /\ above' = above \ {w}
  /\ UNCHANGED <<xVars, pc, starts, R, top, pieces, seen, capped, wire, windows>>

Visit(w) ==
  /\ pc = "visit" /\ w \in above /\ pieces # {}
  /\ w \in present \cap viewable
  /\ above' = above \ {w}
  /\ pieces' \in Capped(Subtract(pieces, Occluder(w)), MAXP)
  /\ seen' = seen \cup {Occluder(w)}
  /\ capped' = (capped \/ pieces' # Subtract(pieces, Occluder(w)))
  /\ UNCHANGED <<xVars, pc, starts, R, top, wire, windows>>

(* XGetWindowAttributes on a window that is gone is an X error, and Xlib's *)
(* error handler, which nothing replaces, ends the process.                *)
BadWindow(w) ==
  /\ pc = "visit" /\ w \in above \ present /\ pieces # {}
  /\ Exit

Obscured == pieces = {}

SendRecord ==
  /\ pc = "visit" /\ (above = {} \/ pieces = {})
  /\ pc' = "loop"
  /\ IF control THEN /\ Len(records) < MaxInFlight
                     /\ records' = Append(records, Entry(TRUE, Obscured))
                ELSE UNCHANGED records
  /\ above' = {} /\ pieces' = {} /\ seen' = {} /\ capped' = FALSE
  /\ UNCHANGED <<xVars, starts, R, top, hello, control, windows>>

(* Two requests, of the size and of the position, that are taken as one    *)
(* here: a move between them is seen by the next poll.                     *)
QueryGeom == geom[Own]

(* Every 200 ms, whether X events have come or not.                        *)
Poll ==
  /\ pc = "loop" /\ pc' = "walk"
  /\ R' = QueryGeom
  /\ UNCHANGED <<xVars, starts, top, above, pieces, seen, capped, wire, windows>>

(* libgl or the renderer has closed its connection.                        *)
Eof == pc = "loop" /\ Exit

-----------------------------------------------------------------------------
(* The renderer.                                                           *)

(* The header seeds the registry, unless a record was faster.              *)
Seeded == IF windows = NoEntry THEN hello ELSE windows

ReadHello ==
  /\ hello # NoEntry /\ hello' = NoEntry
  /\ windows' = Seeded
  /\ UNCHANGED <<xVars, proxyVars, control, records>>

ReadRecord ==
  /\ records # <<>> /\ records' = Tail(records)
  /\ windows' = Head(records)
  /\ UNCHANGED <<xVars, proxyVars, hello, control>>

-----------------------------------------------------------------------------
XServer ==
  \/ \E w \in Wins : (\E r \in Places : Move(w, r)) \/ Raise(w) \/ MapOrUnmap(w) \/ Destroy(w)
  \/ Reparent

Polling ==
  \/ Hello \/ Connect \/ Walk \/ Tree \/ SendRecord \/ Poll
  \/ \E w \in Wins : SkipHidden(w) \/ Visit(w) \/ BadWindow(w)

Next ==
  \/ XServer \/ Start \/ Polling \/ Eof
  \/ ReadHello \/ ReadRecord

Spec == Init /\ [][Next]_vars

(* The proxy polls on its own clock, and the renderer's threads read what  *)
(* is sent to them.  Nothing is assumed of the applications.               *)
FairSpec ==
  Spec /\ WF_vars(Polling) /\ WF_vars(ReadHello) /\ WF_vars(ReadRecord)

-----------------------------------------------------------------------------
(* Properties.                                                             *)

Covered(px, py, P) == \E p \in P : In(px, py, p)

(* What compute_pieces (dgld_proxy.c lines 124-189) has left of the window *)
(* is exactly what none of the windows it has looked at covers: the pieces *)
(* do not overlap, lie in the window and in no occluder, and together make *)
(* up all the rest, unless the cap has dropped some.                       *)
PiecesExact ==
  pc = "visit" =>
    /\ \A pt \in Pixels(R) :
         LET Out == \A o \in seen : ~In(pt[1], pt[2], o) IN
         /\ Covered(pt[1], pt[2], pieces) => Out
         /\ Out /\ ~capped => Covered(pt[1], pt[2], pieces)
         /\ \A p, q \in pieces : In(pt[1], pt[2], p) /\ In(pt[1], pt[2], q) => p = q
    /\ \A p \in pieces : /\ p.w > 0 /\ R.x <= p.x /\ p.x + p.w <= R.x + R.w
                         /\ p.h > 0 /\ R.y <= p.y /\ p.y + p.h <= R.y + R.h

(* The header and the first record come by different connections, in       *)
(* either order: what a record has said is never replaced by the startup   *)
(* position (proxy_renderer.py lines 173-176 and 234).                     *)
RecordOutlastsSeed == [][windows.polled => windows'.polled]_vars

(* A proxy ends when a connection of its is closed, or cannot be made at   *)
(* startup: "select() loop over {libgl fd0, renderer rfd, X connection}:   *)
(* pipe libgl<->renderer raw [...] until EOF" (dgld_proxy.c lines 18-19).  *)
UntilEof == [][pc' = "exited" => pc \in {"exited", "hello"} \/ Eof]_vars

OuterRect(w) ==
  Rect(geom[w].x - Border, geom[w].y - Border, geom[w].w + 2 * Border, geom[w].h + 2 * Border)

InTheWay == {w \in present \cap viewable : <<w, Ancestor>> \in over}

Visible ==
  {pt \in Pixels(geom[Own]) : \A w \in InTheWay : ~In(pt[1], pt[2], OuterRect(w))}

Shows(e) ==
  IF e.obscured THEN {}
  ELSE {pt \in Pixels(e.rect) : e.pieces = {} \/ Covered(pt[1], pt[2], e.pieces)}

UpToDate ==
  /\ windows # NoEntry /\ windows.rect = geom[Own]
  /\ IF windows.capped THEN Shows(windows) \subseteq Visible ELSE Shows(windows) = Visible

(* Once the desktop is quiet the registry says exactly what can be seen of *)
(* the window, whatever was half read when the last change was made, as    *)
(* long as the proxy lives, has its control connection and the window is   *)
(* mapped: compute_pieces looks only whether the other windows are.        *)
Tracks ==
  <>[](control /\ pc \notin {"off", "exited"} /\ Own \in viewable => UpToDate)
=============================================================================
