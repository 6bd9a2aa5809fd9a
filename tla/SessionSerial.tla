--------------------------- MODULE SessionSerial ---------------------------
(***************************************************************************)
(* The serial console of a persistent QEMU session (sgi_mcp/server.py):    *)
(* the thread that reads it into a buffer, the tools that type command     *)
(* lines at the guest's shell and wait for a pattern in the buffer, and    *)
(* the guest, whose terminal echoes a line when it arrives and whose shell *)
(* runs it when it has come to it.                                         *)
(*                                                                         *)
(* A tool types several lines, waits, and takes all that has arrived; each *)
(* of its turns is a step of its script.  What the guest prints is a       *)
(* sequence of pieces: the echo of a line, what it prints when it has run, *)
(* or an error.  Tools that wait look for a text that is also in the line  *)
(* they have typed, so its echo will do, and the texts are the same in     *)
(* every call.  The calls on a session follow one another.                 *)
(***************************************************************************)
EXTENDS Integers, Sequences, FiniteSets, SequencesExt

CONSTANTS SerialSizes,       \* lines of files
          BatchSize,         \* batch_size, 25 or 20
          Radix,             \* 10: of the numbers that wc prints
          MaxSerialCalls,    \* bound: calls
          MaxSerialFaults    \* bound: commands that fail in the guest
ASSUME SerialConstants ==
  /\ SerialSizes \subseteq Nat \ {0} /\ BatchSize \in Nat \ {0} /\ Radix \in Nat \ {0, 1}
  /\ MaxSerialCalls \in Nat /\ MaxSerialFaults \in Nat

VARIABLES
  serialPc,      \* where the tool is: "idle", "type", "wait", "take"
  serialCalls,   \* the calls made: the tool, the lines of its file, and whether
                 \* qemu_copy_file is given another name for it
  turn,          \* the step of the script it is at
  batchErrors,   \* errors # []
  glimpse,       \* the copy of the buffer that had the pattern
  outputBuffer,  \* output_buffer
  handedOut,     \* history: pieces tools have taken from it
  captured,      \* what qemu_copy_file has got of the source
  serialReply,   \* what the last call has returned
  wire,          \* pieces the guest has printed, not yet read
  printedPieces, \* history: how many it has printed
  toGuest,       \* lines the tool has sent
  echoedLines,   \* lines echoed and not yet run
  typedFile,     \* typedFile[t]: the file the printf lines of tool t write
  madeFile,      \* madeFile[t]: what uudecode has made of it, at the path given
  running,       \* alive and proc.poll() is None
  serialFaults,  \* failures so far
  faultSince,    \* history: one since the last call began
  fromQuiet      \* history: the last call found the guest with nothing to do

bufferVars == <<outputBuffer, handedOut, wire>>
toolVars == <<serialPc, serialCalls, turn, batchErrors, glimpse, captured, serialReply, fromQuiet>>
guestLines == <<toGuest, echoedLines, printedPieces>>
guestFiles == <<typedFile, madeFile, running, serialFaults, faultSince>>
serialVars == <<bufferVars, toolVars, guestLines, guestFiles>>

Tools == {"write", "upload", "capture", "place", "send"}

Line(n, j) == [of |-> n, at |-> j]
Cmd(do, n, j) == [do |-> do, of |-> n, at |-> j]
Piece(what, c, val) == [what |-> what, cmd |-> c, val |-> val]

ToolOf(n) == serialCalls[n].tool
LinesOf(n) == [j \in 1..serialCalls[n].lines |-> Line(n, j)]
Source == <<Line(0, 1), Line(0, 2)>>      \* the file qemu_copy_file copies
NoNumber == -1

-----------------------------------------------------------------------------
(* The scripts.  A turn types some lines, waits for the text of the last,  *)
(* and its role says what becomes of the result.                           *)

Turn(role, cmds) == [role |-> role, cmds |-> cmds]

(* A batch: its lines of the file and the sentinel.                        *)
Batch(n, b) ==
  LET last == IF b * BatchSize < serialCalls[n].lines THEN b * BatchSize ELSE serialCalls[n].lines
  IN  [i \in 1..(last - (b - 1) * BatchSize) |-> Cmd("line", n, (b - 1) * BatchSize + i)]
      \o <<Cmd("mark", n, b)>>

Batches(n, role) ==
  [b \in 1..((serialCalls[n].lines + BatchSize - 1) \div BatchSize) |-> Turn(role, Batch(n, b))]

(* "exec sh" changes nothing the tools see, and nobody asks whether its     *)
(* prompt was found: only the wait is left of that turn.                   *)
(* qemu_copy_file is two scripts: one on the source's session, and, with   *)
(* what that has captured, one on the other session.                       *)
TurnsOf(n) ==
  LET One(role, do) == <<Turn(role, <<Cmd(do, n, 0)>>)>>
      Prompt == <<Turn("any", <<>>)>>
  IN  CASE ToolOf(n) = "write"   -> Prompt \o Batches(n, "batch") \o One("check", "count")
        [] ToolOf(n) = "upload"  -> Prompt \o Batches(n, "batch")
                                    \o One("run", "decode") \o One("check", "size")
        [] ToolOf(n) = "capture" -> Prompt \o One("run", "encode") \o One("capture", "cat")
        [] ToolOf(n) = "place"   -> Prompt \o Batches(n, "must") \o One("run", "decode")
        [] OTHER                 -> One("any", "user")

Now == TurnsOf(Len(serialCalls))[turn]
Awaited == Last(Now.cmds)

(* The texts in two commands are the same, whichever calls they are of.    *)
SameText(c, d) == c.do = d.do /\ c.at = d.at /\ ToolOf(c.of) = ToolOf(d.of)

(* The pieces a pattern matches: the echo of the line that has the text,   *)
(* and what it prints; the upload also waits for uudecode's message.       *)
Shows(piece, c) ==
  \/ SameText(piece.cmd, c) /\ piece.what \in {"echo", "out", "end"}
  \/ /\ c.do = "decode" /\ ToolOf(c.of) = "upload"
     /\ piece.cmd.do = "decode" /\ piece.what = "err"

Matches(s, c) == \E i \in DOMAIN s : Shows(s[i], c)

-----------------------------------------------------------------------------
(* The tools.                                                              *)

(* The guest has nothing to do and all it has printed was read.            *)
Quiet == toGuest = <<>> /\ echoedLines = <<>> /\ wire = <<>>

BeginSerial(tool, k, renamed) ==
  /\ serialPc = "idle" /\ running /\ Len(serialCalls) < MaxSerialCalls
  /\ serialCalls' = Append(serialCalls, [tool |-> tool, lines |-> k, renamed |-> renamed])
  /\ turn' = 1 /\ batchErrors' = FALSE /\ captured' = <<>> /\ serialReply' = "none"
  /\ fromQuiet' = Quiet /\ faultSince' = FALSE
  /\ serialPc' = "type"
  /\ UNCHANGED <<bufferVars, glimpse, guestLines, typedFile, madeFile, running, serialFaults>>

ReturnsSerial(reply) ==
  serialPc' = "idle" /\ serialReply' = reply /\ UNCHANGED <<turn, batchErrors>>

(* session.send(): an error when QEMU has closed the socket.               *)
Types ==
  /\ serialPc = "type"
  /\ \/ /\ toGuest' = toGuest \o Now.cmds
        /\ serialPc' = "wait" /\ UNCHANGED <<turn, batchErrors, serialReply>>
     \/ ~running /\ ReturnsSerial("error") /\ UNCHANGED toGuest
  /\ UNCHANGED <<bufferVars, serialCalls, glimpse, captured, fromQuiet,
                 echoedLines, printedPieces, guestFiles>>

(* One look at a copy of the buffer; only the wait of qemu_copy_file for   *)
(* the captured text goes on looking when QEMU has ended.                  *)
Finds ==
  /\ serialPc = "wait" /\ Now.cmds # <<>>
  /\ running \/ Now.role = "capture"
  /\ Matches(outputBuffer, Awaited)
  /\ glimpse' = outputBuffer /\ serialPc' = "take"
  /\ UNCHANGED <<bufferVars, serialCalls, turn, batchErrors, captured, serialReply, fromQuiet,
                 guestLines, guestFiles>>

(* a mistake: the buffer is cleared of the copy, and of what came since    *)
OnlyGlimpsed == IF serialPc = "take" THEN glimpse ELSE outputBuffer

(* drain_buffer()                                                          *)
Drained == outputBuffer

Least(S) == CHOOSE i \in S : \A j \in S : i <= j

(* The first number after the sentinel, if there is one, as far as it has  *)
(* come: \d+ is content with its first digits.                             *)
Numbers(s, c) ==
  {i \in DOMAIN s : s[i].what = "out" /\ SameText(s[i].cmd, c) /\ s[i].val # NoNumber}
Reported(s, c) ==
  LET i == Least(Numbers(s, c))
  IN  IF i + 1 \in DOMAIN s /\ s[i + 1].what = "digits" THEN s[i + 1].val ELSE s[i].val

Verdict(s, c) ==
  IF Numbers(s, c) = {} THEN "unverified"
  ELSE IF Reported(s, c) = Last(serialCalls).lines THEN "confirmed" ELSE "differs"

(* What is between the first sentinel and the next other.                  *)
Starts(s) == {i \in DOMAIN s : s[i].what = "start"}
StopsAfter(s, i) == {j \in DOMAIN s : j > i /\ Shows(s[j], Awaited)}

Between(s) ==
  IF \E i \in Starts(s) : i = Least(Starts(s)) /\ StopsAfter(s, i) # {}
  THEN LET i == Least(Starts(s)) IN SubSeq(s, i + 1, Least(StopsAfter(s, i)) - 1)
  ELSE <<>>

Proceeds == turn' = turn + 1 /\ serialPc' = "type" /\ UNCHANGED serialReply

LastBatch == turn = Len(TurnsOf(Len(serialCalls))) \/ TurnsOf(Len(serialCalls))[turn + 1].role # "batch"

Failed(s) == \E i \in DOMAIN s : s[i].what = "err" /\ s[i].cmd.do = Awaited.do

(* What becomes of a turn whose pattern was found or not, and the output.  *)
Becomes(found, s) ==
  LET role == Now.role
      atEnd == turn = Len(TurnsOf(Len(serialCalls)))
  IN  \/ /\ role = "any"
         /\ IF atEnd THEN ReturnsSerial("answered") ELSE Proceeds /\ UNCHANGED batchErrors
      \/ /\ role = "batch"
         /\ IF (~found /\ ~running) \/ (LastBatch /\ (batchErrors \/ ~found))
              THEN ReturnsSerial("incomplete")
              ELSE Proceeds /\ batchErrors' = (batchErrors \/ ~found)
      \/ /\ role \in {"run", "must"}
         /\ IF ~found \/ (role = "run" /\ Failed(s)) THEN ReturnsSerial("failed")
            ELSE IF atEnd THEN ReturnsSerial("copied")
            ELSE Proceeds /\ UNCHANGED batchErrors
      \/ role = "check" /\ ReturnsSerial(IF found THEN Verdict(s, Awaited) ELSE "unverified")
      \/ role = "capture" /\ ReturnsSerial(IF captured' = <<>> THEN "failed" ELSE "captured")

(* The pattern was found: all that has arrived meanwhile is taken too.     *)
(* qemu_copy_file goes by the copy.                                        *)
Takes ==
  /\ serialPc = "take"
  /\ handedOut' = handedOut + Len(Drained) /\ outputBuffer' = <<>>
  /\ captured' = IF Now.role = "capture" THEN Between(glimpse) ELSE captured
  /\ Becomes(TRUE, Drained)
  /\ glimpse' = <<>>
  /\ UNCHANGED <<wire, serialCalls, fromQuiet, guestLines, guestFiles>>

(* The time is up, or QEMU has ended.                                      *)
GivesUp ==
  /\ serialPc = "wait"
  /\ handedOut' = handedOut + Len(Drained) /\ outputBuffer' = <<>>
  /\ UNCHANGED captured
  /\ Becomes(FALSE, Drained)
  /\ UNCHANGED <<wire, serialCalls, glimpse, fromQuiet, guestLines, guestFiles>>

(* _session_reader()                                                       *)
Reads ==
  /\ wire # <<>>
  /\ outputBuffer' = Append(outputBuffer, Head(wire)) /\ wire' = Tail(wire)
  /\ UNCHANGED <<handedOut, toolVars, guestLines, guestFiles>>

-----------------------------------------------------------------------------
(* The guest.                                                              *)

WritesOut(s) == wire' = wire \o s /\ printedPieces' = printedPieces + Len(s)

Echoes ==
  /\ running /\ toGuest # <<>>
  /\ echoedLines' = Append(echoedLines, Head(toGuest)) /\ toGuest' = Tail(toGuest)
  /\ WritesOut(IF Head(toGuest).do = "line" THEN <<>>
            ELSE <<Piece("echo", Head(toGuest), NoNumber)>>)
  /\ UNCHANGED <<outputBuffer, handedOut, toolVars, guestFiles>>

(* A mistake: every batch begins the file anew.                            *)
BatchBegins(j) == j % BatchSize = 1 \/ BatchSize = 1

(* Whether the redirection of the j-th line is > or >>.                    *)
Truncates(j) == j = 1

(* printf ... > file or >> file; a failure may have emptied the file.      *)
RunsLine(c) ==
  LET t == ToolOf(c.of)
      kept == IF Truncates(c.at) THEN <<>> ELSE typedFile[t]
  IN  /\ c.do = "line"
      /\ \/ /\ typedFile' = [typedFile EXCEPT ![t] = Append(kept, Line(c.of, c.at))]
            /\ UNCHANGED <<serialFaults, faultSince>>
         \/ /\ serialFaults < MaxSerialFaults
            /\ serialFaults' = serialFaults + 1 /\ faultSince' = TRUE
            /\ typedFile' \in {typedFile, [typedFile EXCEPT ![t] = kept]}
      /\ WritesOut(<<>>) /\ UNCHANGED madeFile

(* uudecode: from a first line on to a last one, into the file that the    *)
(* first names.  qemu_copy_file has named it as the source is, and then    *)
(* moves what has the name of the copy to the copy's path: the file to     *)
(* itself, or nothing, of which mv complains and the mark is not printed.  *)
Ends(f) == {i \in DOMAIN f : f[i].at = serialCalls[f[i].of].lines}
Decodes(f) == IF Ends(f) = {} THEN f ELSE SubSeq(f, 1, Least(Ends(f)))

RunsDecode(c) ==
  LET t == ToolOf(c.of)
      f == typedFile[t]
  IN  /\ c.do = "decode"
      /\ \/ /\ f # <<>> /\ f[1].at = 1
            /\ madeFile' = IF serialCalls[c.of].renamed THEN madeFile
                            ELSE [madeFile EXCEPT ![t] = Decodes(f)]
            /\ WritesOut(<<Piece(IF Ends(f) = {} THEN "err" ELSE IF t = "place" THEN "mv" ELSE "out",
                                 c, NoNumber)>>)
            /\ UNCHANGED <<serialFaults, faultSince>>
         \/ /\ IF f # <<>> /\ f[1].at = 1
                 THEN /\ serialFaults < MaxSerialFaults
                      /\ serialFaults' = serialFaults + 1 /\ faultSince' = TRUE
                 ELSE UNCHANGED <<serialFaults, faultSince>>
            /\ WritesOut(<<Piece("err", c, NoNumber)>>) /\ UNCHANGED madeFile
      /\ UNCHANGED typedFile

(* The numbers that the first digits of a number are, of those that have   *)
(* more than one.                                                          *)
Heads(v) == {h \in 1..(v - 1) : \E k \in 1..v : v \div (Radix ^ k) = h}

(* wc of the file; of none there is an error and no number.  The count is  *)
(* looked for without the end of its line, so a read may cut it; the size  *)
(* is not.                                                                 *)
RunsWc(c) ==
  LET f == IF c.do = "count" THEN typedFile[ToolOf(c.of)] ELSE madeFile[ToolOf(c.of)]
  IN  /\ c.do \in {"count", "size"}
      /\ \/ \E val \in IF f = <<>> THEN {0, NoNumber} ELSE {Len(f)} :
              WritesOut(<<Piece(IF val = NoNumber /\ c.do = "size" THEN "err" ELSE "out", c, val)>>)
         \/ /\ c.do = "count"
            /\ \E h \in Heads(Len(f)) :
                 WritesOut(<<Piece("out", c, h), Piece("digits", c, Len(f))>>)
      /\ UNCHANGED <<typedFile, madeFile, serialFaults, faultSince>>

(* uuencode of the source, of which a failure may leave a first part.      *)
RunsEncode(c) ==
  /\ c.do = "encode"
  /\ \/ /\ typedFile' = [typedFile EXCEPT !["capture"] = Source]
        /\ WritesOut(<<Piece("out", c, NoNumber)>>) /\ UNCHANGED <<serialFaults, faultSince>>
     \/ /\ serialFaults < MaxSerialFaults
        /\ serialFaults' = serialFaults + 1 /\ faultSince' = TRUE
        /\ \E n \in 0..(Len(Source) - 1) :
              typedFile' = [typedFile EXCEPT !["capture"] = SubSeq(Source, 1, n)]
        /\ WritesOut(<<Piece("err", c, NoNumber)>>)
  /\ UNCHANGED madeFile

RunsOther(c) ==
  /\ c.do \in {"mark", "user", "cat"}
  /\ WritesOut(CASE c.do = "cat" -> <<Piece("start", c, NoNumber)>>
                                 \o [i \in DOMAIN typedFile["capture"] |->
                                       Piece("text", c, typedFile["capture"][i].at)]
                                 \o <<Piece("end", c, NoNumber)>>
              [] OTHER        -> <<Piece("out", c, NoNumber)>>)
  /\ UNCHANGED <<typedFile, madeFile, serialFaults, faultSince>>

RunsNext ==
  /\ running /\ echoedLines # <<>> /\ echoedLines' = Tail(echoedLines)
  /\ LET c == Head(echoedLines)
     IN  RunsLine(c) \/ RunsDecode(c) \/ RunsWc(c) \/ RunsEncode(c) \/ RunsOther(c)
  /\ UNCHANGED <<outputBuffer, handedOut, toolVars, toGuest, running>>

SessionExits ==
  /\ running /\ running' = FALSE
  /\ UNCHANGED <<bufferVars, toolVars, guestLines, typedFile, madeFile, serialFaults, faultSince>>

-----------------------------------------------------------------------------
SerialInit ==
  /\ serialPc = "idle" /\ serialCalls = <<>> /\ turn = 1 /\ batchErrors = FALSE
  /\ glimpse = <<>> /\ outputBuffer = <<>> /\ handedOut = 0 /\ captured = <<>>
  /\ serialReply = "none" /\ wire = <<>> /\ printedPieces = 0
  /\ toGuest = <<>> /\ echoedLines = <<>>
  /\ typedFile = [t \in Tools |-> <<>>] /\ madeFile = [t \in Tools |-> <<>>]
  /\ running = TRUE /\ serialFaults = 0 /\ faultSince = FALSE /\ fromQuiet = TRUE

SerialNext ==
  \/ \E tool \in {"write", "upload", "place"}, k \in SerialSizes : BeginSerial(tool, k, FALSE)
  \/ \E k \in SerialSizes : BeginSerial("place", k, TRUE)
  \/ \E tool \in {"capture", "send"} : BeginSerial(tool, 0, FALSE)
  \/ Types \/ Finds \/ Takes \/ GivesUp \/ Reads
  \/ Echoes \/ RunsNext \/ SessionExits

SerialSpec == SerialInit /\ [][SerialNext]_serialVars

-----------------------------------------------------------------------------
SerialCommands == [do : {"line", "mark", "count", "decode", "size", "encode", "cat", "user"},
                   of : 1..MaxSerialCalls, at : Nat]
SerialPieces == [what : {"echo", "out", "digits", "err", "mv", "start", "text", "end"},
                 cmd : SerialCommands, val : Nat \cup {NoNumber}]
SerialLines == [of : 0..MaxSerialCalls, at : Nat]

SerialTypeOK ==
  /\ serialPc \in {"idle", "type", "wait", "take"}
  /\ serialCalls \in Seq([tool : Tools, lines : SerialSizes \cup {0}, renamed : BOOLEAN])
  /\ serialPc # "idle" => turn \in 1..Len(TurnsOf(Len(serialCalls)))
  /\ {batchErrors, running, faultSince, fromQuiet} \subseteq BOOLEAN
  /\ \A s \in {glimpse, outputBuffer, wire, captured} : s \in Seq(SerialPieces)
  /\ \A s \in {toGuest, echoedLines} : s \in Seq(SerialCommands)
  /\ \A t \in Tools : typedFile[t] \in Seq(SerialLines) /\ madeFile[t] \in Seq(SerialLines)

(* Every piece the guest has printed is handed to one caller, or is still  *)
(* in the buffer or on its way: none is lost between the look that finds   *)
(* the pattern and the taking, and none is handed out twice.               *)
HandedOutOnce == handedOut + Len(outputBuffer) + Len(wire) = printedPieces

(* The files are those of the last call on them.                           *)
Made(n) == IF ToolOf(n) = "write" THEN typedFile["write"] ELSE madeFile[ToolOf(n)]

(* A number that was confirmed, by a call that found the guest with        *)
(* nothing to do, is the number of lines in the file, or the first digits  *)
(* of it that had come, whatever has failed; without a failure the file is *)
(* the content.  What was captured is the whole source.                    *)
ConfirmedTrue ==
  LET n == Len(serialCalls)
  IN  serialPc = "idle" /\ fromQuiet =>
        /\ serialReply = "confirmed" =>
             /\ \/ serialCalls[n].lines = Len(Made(n))
                \/ ToolOf(n) = "write" /\ serialCalls[n].lines \in Heads(Len(Made(n)))
             /\ ~faultSince => Made(n) = LinesOf(n)
        /\ serialReply = "captured" /\ ~faultSince =>
             [i \in DOMAIN captured |-> captured[i].val] = [i \in DOMAIN Source |-> Source[i].at]

(* A reply that is no failure may come before the guest has run any of the *)
(* lines, and with other calls' lines before them; but once it has run     *)
(* them all, without a failure, the file is the content, except at the     *)
(* path of a copy that is to have another name than the source.            *)
SettlesWhole ==
  LET n == Len(serialCalls)
  IN  /\ serialPc = "idle" /\ toGuest = <<>> /\ echoedLines = <<>> /\ ~faultSince
      /\ serialReply \in {"confirmed", "differs", "unverified", "copied"} /\ ~serialCalls[n].renamed
      => Made(n) = LinesOf(n)

(* What is reported of a file over the serial line is true of it, and no   *)
(* output is lost.                                                         *)
SerialSound == HandedOutOnce /\ ConfirmedTrue /\ SettlesWhole

=============================================================================
