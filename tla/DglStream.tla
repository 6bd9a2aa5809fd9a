----------------------------- MODULE DglStream -----------------------------
(***************************************************************************)
(* The two servers of the DGL protocol: dgl_framed.py, whose client sends  *)
(* frames of commands, and dgl.py with server.py, whose client sends bare  *)
(* commands.  The client is libgl: it asks for a value with the last       *)
(* command of a frame, and waits for the reply before it goes on.          *)
(*                                                                         *)
(* A message, a frame or a bare command, travels in two parts: a header    *)
(* or opcode, and the rest.  A read may end after any part; one that ends  *)
(* inside a part is as good as one that ends before it.                    *)
(***************************************************************************)
EXTENDS Naturals, Sequences, FiniteSets, SequencesExt

CONSTANTS MaxDglCommands,    \* bound: commands the client sends
          FrameMax           \* bound: commands of one frame
ASSUME DglConstants == MaxDglCommands \in Nat \ {0} /\ FrameMax \in Nat \ {0}

VARIABLES
  framed,     \* the client speaks to dgl_framed.py
  feeding,    \* what the server does: "read", "parse", "dispatch", or "spin" for ever
  dglSent,    \* the client's commands, in order
  asking,     \* the command whose reply the client waits for
  dglWire,    \* parts the server has not read
  dglBuf,     \* self.buf
  decoded,    \* DglDecoder.feed()'s list
  drawn,      \* commands given to the renderer
  dglReplies, \* replies on their way to the client
  nextWid,    \* next_wid
  unsynced        \* DglSync has been raised

dglVars == <<framed, feeding, dglSent, asking, dglWire, dglBuf, decoded, drawn, dglReplies,
             nextWid, unsynced>>

(* "draw" has a length the server knows, "vary" one it does not.  "query",  *)
(* "silent" and "winopen" ask for a value; dgl.py's table gives "zero" the *)
(* length 0, and VALUE_RETURNING does not have "silent".  To dgl_framed.py *)
(* a "silent" is a query, and a "zero" of a length it does not know.       *)
DglKinds   == {"draw", "query", "silent", "winopen", "vary", "zero"}
KindsOf(f) == IF f THEN DglKinds \ {"silent", "zero"} ELSE DglKinds
Command(kind, n) == [kind |-> kind, n |-> n]
NoCommand == Command("draw", 0)
Asks(c)   == c.kind \in {"query", "silent", "winopen"}
Reply(c)  == [for |-> c.kind, wid |-> IF c.kind = "winopen" THEN nextWid ELSE 0]
Parts(cmds) == <<[half |-> 1, cmds |-> cmds], [half |-> 2, cmds |-> cmds]>>

-----------------------------------------------------------------------------
(* The client.                                                             *)

ClientSends ==
  /\ asking = NoCommand
  /\ \E len \in 1..IF framed THEN FrameMax ELSE 1 :
     \E kinds \in [1..len -> KindsOf(framed)] :
       LET cmds == [i \in 1..len |-> Command(kinds[i], Len(dglSent) + i)]
       IN  /\ Len(dglSent) + len <= MaxDglCommands
           /\ \A i \in 1..(len - 1) : ~Asks(cmds[i])
           /\ dglSent' = dglSent \o cmds /\ dglWire' = dglWire \o Parts(cmds)
           /\ asking' = IF Asks(cmds[len]) THEN cmds[len] ELSE NoCommand
  /\ UNCHANGED <<framed, feeding, dglBuf, decoded, drawn, dglReplies, nextWid, unsynced>>

ClientReads ==
  /\ dglReplies # <<>> /\ dglReplies' = Tail(dglReplies) /\ asking' = NoCommand
  /\ UNCHANGED <<framed, feeding, dglSent, dglWire, dglBuf, decoded, drawn, nextWid, unsynced>>

-----------------------------------------------------------------------------
(* Both servers read what there is, and parse as far as it goes.           *)

Recv ==
  /\ feeding = "read" /\ feeding' = "parse"
  /\ \E n \in 1..Len(dglWire) :
       /\ dglBuf' = dglBuf \o SubSeq(dglWire, 1, n)
       /\ dglWire' = SubSeq(dglWire, n + 1, Len(dglWire))
  /\ UNCHANGED <<framed, dglSent, asking, decoded, drawn, dglReplies, nextWid, unsynced>>

Whole == Len(dglBuf) >= 2
TakenAll == <<>>                                                       \* a mistake
Taken    == SubSeq(dglBuf, 3, Len(dglBuf))

(* _handle_payload(): a command of unknown length takes the rest of its    *)
(* frame, and is then the one that the reply is for.                       *)
Parsed(cmds) ==
  LET gaps == {i \in DOMAIN cmds : cmds[i].kind = "vary"}
  IN  IF gaps = {} THEN cmds
      ELSE SubSeq(cmds, 1, CHOOSE i \in gaps : \A j \in gaps : i <= j)
Synced(cmds)   == Asks(Last(cmds))                    \* OP_REPLYSYNC ends the frame
ForFirst(cmds) == Head(Parsed(cmds))                                   \* a mistake
ForLast(cmds)  == Last(Parsed(cmds))

HandlePayload ==
  /\ framed /\ feeding = "parse" /\ Whole
  /\ LET cmds == dglBuf[2].cmds
     IN  /\ drawn' = drawn \o Parsed(cmds)
         /\ IF Synced(cmds)
              THEN /\ dglReplies' = Append(dglReplies, Reply(ForLast(cmds)))
                   /\ nextWid' = nextWid + IF ForLast(cmds).kind = "winopen" THEN 1 ELSE 0
              ELSE UNCHANGED <<dglReplies, nextWid>>
  /\ dglBuf' = Taken
  /\ UNCHANGED <<framed, feeding, dglSent, asking, dglWire, decoded, unsynced>>

FeedEnds ==
  /\ framed /\ feeding = "parse" /\ ~Whole /\ feeding' = "read"
  /\ UNCHANGED <<framed, dglSent, asking, dglWire, dglBuf, decoded, drawn, dglReplies, nextWid,
                 unsynced>>

(* DglDecoder._try_one(), as long as it finds commands.                    *)
HeadIs(kind) == dglBuf # <<>> /\ dglBuf[1].cmds[1].kind = kind
Gap      == HeadIs("vary")
NoLength == HeadIs("zero")
TryOne ==
  /\ ~framed /\ feeding = "parse" /\ Whole /\ ~Gap /\ ~NoLength
  /\ decoded' = decoded \o dglBuf[2].cmds /\ dglBuf' = Taken
  /\ UNCHANGED <<framed, feeding, dglSent, asking, dglWire, drawn, dglReplies, nextWid, unsynced>>
DecodeEnds ==
  /\ ~framed /\ feeding = "parse" /\ ~Whole /\ ~Gap /\ ~NoLength /\ feeding' = "dispatch"
  /\ UNCHANGED <<framed, dglSent, asking, dglWire, dglBuf, decoded, drawn, dglReplies, nextWid,
                 unsynced>>

(* DglSync: what was decoded before it is the generator's, and goes too.   *)
LosesSync ==
  /\ ~framed /\ feeding = "parse" /\ Gap
  /\ decoded' = <<>> /\ unsynced' = TRUE /\ feeding' = "read"
  /\ UNCHANGED <<framed, dglSent, asking, dglWire, dglBuf, drawn, dglReplies, nextWid>>

(* A command of length 0 takes nothing from the buffer: feed() finds it    *)
(* again and again, and never returns the list that grows by it.           *)
Spins ==
  /\ ~framed /\ feeding = "parse" /\ NoLength
  /\ feeding' = "spin"
  /\ UNCHANGED <<framed, dglSent, asking, dglWire, dglBuf, decoded, drawn, dglReplies, nextWid,
                 unsynced>>

(* DglConnection._dispatch(), command by command.                          *)
Returns(c) == c.kind \in {"query", "winopen"}
Dispatch ==
  /\ feeding = "dispatch"
  /\ IF decoded = <<>>
       THEN feeding' = "read" /\ UNCHANGED <<decoded, drawn, dglReplies, nextWid>>
       ELSE LET c == Head(decoded)
            IN  /\ decoded' = Tail(decoded) /\ drawn' = Append(drawn, c)
                /\ dglReplies' = IF Returns(c) THEN Append(dglReplies, Reply(c)) ELSE dglReplies
                /\ nextWid' = nextWid + IF c.kind = "winopen" THEN 1 ELSE 0
                /\ UNCHANGED feeding
  /\ UNCHANGED <<framed, dglSent, asking, dglWire, dglBuf, unsynced>>

DglServer == Recv \/ HandlePayload \/ FeedEnds \/ TryOne \/ DecodeEnds \/ LosesSync \/ Spins \/ Dispatch

DglInit ==
  /\ framed \in BOOLEAN /\ feeding = "read" /\ dglSent = <<>> /\ asking = NoCommand
  /\ dglWire = <<>> /\ dglBuf = <<>> /\ decoded = <<>> /\ drawn = <<>> /\ dglReplies = <<>>
  /\ nextWid = 1 /\ unsynced = FALSE
DglNext == ClientSends \/ ClientReads \/ DglServer
DglSpec == DglInit /\ [][DglNext]_dglVars /\ WF_dglVars(ClientReads) /\ WF_dglVars(DglServer)

-----------------------------------------------------------------------------
(* Correctness.                                                            *)

Commands == [kind : DglKinds, n : 0..MaxDglCommands]
DglTypeOK ==
  /\ framed \in BOOLEAN /\ unsynced \in BOOLEAN /\ feeding \in {"read", "parse", "dispatch", "spin"}
  /\ \A s \in {dglSent, decoded, drawn} : s \in Seq(Commands)
  /\ asking \in Commands
  /\ \A s \in {dglWire, dglBuf} : \A i \in DOMAIN s : s[i].half \in 1..2
  /\ \A i \in DOMAIN dglReplies : dglReplies[i].wid < nextWid
  /\ nextWid \in 1..(MaxDglCommands + 1)

Varies(s) == \E i \in DOMAIN s : s[i].kind = "vary"

(* However the stream is cut into reads, the renderer gets the commands of *)
(* known length once and in order, and when all has been read, all of them.*)
NothingLost ==
  ~Varies(dglSent) =>
    /\ IsPrefix(drawn \o decoded, dglSent)
    /\ dglBuf = <<>> /\ dglWire = <<>> => drawn \o decoded = dglSent

(* There is one reply, for a client that waits, and it is the value it     *)
(* asked for, unless the frame it asked in has a command of unknown length.*)
RightReply ==
  /\ Len(dglReplies) <= 1
  /\ dglReplies # <<>> =>
       /\ Asks(asking)
       /\ Head(dglReplies).for = asking.kind \/ (framed /\ Varies(dglSent))

(* The stream means to the renderer what it meant to the client.           *)
StreamSound == NothingLost /\ RightReply

(* A client that waits is answered, except by the server of bare commands: *)
(* after it has lost sync, while it spins, or if it has no reply to this.  *)
Unanswerable == ~framed /\ (unsynced \/ feeding = "spin" \/ asking.kind = "silent")
Answered     == Asks(asking) ~> ~Asks(asking) \/ Unanswerable

(* "an unknown variable opcode raises DglSync so the capture stops cleanly *)
(* at the first gap" (dgl.py:16): the commands before it have been decoded.*)
StopsCleanly ==
  unsynced => \A i \in DOMAIN dglSent :
            (\A j \in 1..i : dglSent[j].kind # "vary") =>
              \E k \in DOMAIN drawn : drawn[k] = dglSent[i]
=============================================================================
