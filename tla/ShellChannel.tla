---------------------------- MODULE ShellChannel ----------------------------
(***************************************************************************)
(* The telnet command channel to a running guest                           *)
(* (pyirix_qemu/irix_telnet.py): one host thread, and the guest's terminal *)
(* and shell, which go on when the host has stopped waiting.               *)
(*                                                                         *)
(* What the guest writes is a sequence of pieces, each with the call it    *)
(* belongs to: the echo of a command line, the first line of the output    *)
(* (the rest goes as it does), which may hold the command's first word, an *)
(* end marker with the exit status or with the first digit of a longer     *)
(* one, its further digits, the frame and the two parts of a file.  A read *)
(* returns all that has arrived; where it is cut is up to the order of the *)
(* guest's and the host's steps.                                           *)
(***************************************************************************)
EXTENDS Naturals, Sequences

CONSTANTS MaxShellCalls,     \* bound: calls of run() and get_file()
          MaxShellFailures   \* bound: deadlines that pass, and lost connections
ASSUME ShellConstants == MaxShellCalls \in Nat \ {0} /\ MaxShellFailures \in Nat

VARIABLES
  shellPc,    \* where the host is: "closed", "idle", "drain", "recv"
  sock,       \* "none", "open" or "eof"
  request,    \* the call being made
  shellBuf,   \* self.buf, or the text read so far
  arrived,    \* pieces at the host's socket
  typed,      \* command lines the guest has not read
  printing,   \* pieces the guest has still to write
  echo,       \* the terminal echoes, whatever the host has refused
  shellCalls, \* calls made
  overdue,    \* failures so far
  behind,     \* when the call was sent, the guest was busy with earlier ones
  answer      \* what the last call has returned

guestVars == <<typed, printing, echo>>
shellVars == <<shellPc, sock, request, shellBuf, arrived, guestVars, shellCalls, overdue, behind,
               answer>>

Piece(kind, n) == [kind |-> kind, of |-> n]
Kinds == {"echo", "fileecho", "out", "named", "mark", "first", "digits", "ready", "begin", "part",
          "last", "end"}
Pieces == [kind : Kinds, of : 0..MaxShellCalls]

Request(what, n, wide, names) == [what |-> what, of |-> n, wide |-> wide, names |-> names]
NoAnswer == [what |-> "none", of |-> 0, rc |-> 0, got |-> <<>>]

(* Where the pieces of these kinds are.                                    *)
KindsAt(s, kinds) == {i \in DOMAIN s : s[i].kind \in kinds}

-----------------------------------------------------------------------------
(* The guest.                                                              *)

Output(r) == Piece(IF r.names THEN "named" ELSE "out", r.of)
Mark(r)   == Piece(IF r.wide THEN "first" ELSE "mark", r.of)
Prints(r) ==
  LET P(kind) == Piece(kind, r.of)
  IN  CASE r.what = "login" -> <<P("ready")>>
        [] r.what = "run"   -> <<Output(r), Mark(r)>> \o IF r.wide THEN <<P("digits")>> ELSE <<>>
        [] OTHER            -> <<P("begin"), P("part"), P("last"), P("end")>>

ReadsLine ==
  /\ typed # <<>>
  /\ typed' = Tail(typed) /\ printing' = printing \o Prints(Head(typed))
  /\ arrived' = IF echo /\ Head(typed).what # "login"
                THEN Append(arrived, Piece(IF Head(typed).what = "run" THEN "echo" ELSE "fileecho",
                                           Head(typed).of))
                ELSE arrived
  /\ UNCHANGED <<shellPc, sock, request, shellBuf, echo, shellCalls, overdue, behind, answer>>

Writes ==
  /\ printing # <<>>
  /\ arrived' = Append(arrived, Head(printing)) /\ printing' = Tail(printing)
  /\ UNCHANGED <<shellPc, sock, request, shellBuf, typed, echo, shellCalls, overdue, behind, answer>>

(* The connection ends: the guest goes down, or telnetd does.              *)
HangsUp ==
  /\ sock = "open" /\ overdue < MaxShellFailures
  /\ sock' = "eof" /\ overdue' = overdue + 1 /\ typed' = <<>> /\ printing' = <<>>
  /\ UNCHANGED <<shellPc, request, shellBuf, arrived, echo, shellCalls, behind, answer>>

Busy == typed # <<>> \/ printing # <<>>

-----------------------------------------------------------------------------
(* The host.                                                               *)

(* On a connection that has ended the send may fail, or go nowhere.        *)
Sends(r) ==
  /\ request' = r
  /\ IF sock = "open" THEN typed' = Append(typed, r) /\ shellPc' = "recv"
                      ELSE shellPc' \in {"recv", "idle"} /\ UNCHANGED typed

(* wait_for_login() and login(), up to the line that asks for READY.       *)
Login ==
  /\ shellPc = "closed"
  /\ sock' = "open" /\ echo' \in BOOLEAN
  /\ request' = Request("login", shellCalls, FALSE, FALSE)
  /\ typed' = <<request'>> /\ printing' = <<>> /\ arrived' = <<>> /\ shellBuf' = <<>>
  /\ shellPc' = "recv" /\ behind' = FALSE /\ answer' = NoAnswer
  /\ UNCHANGED <<shellCalls, overdue>>

(* run(): _drain() first, until nothing has come for 0.2 seconds.          *)
KeptBuf == shellBuf                                                    \* a mistake
Drained == <<>>
Run ==
  /\ shellPc = "idle" /\ shellCalls < MaxShellCalls
  /\ shellCalls' = shellCalls + 1
  /\ \E wide \in BOOLEAN, names \in BOOLEAN :
       request' = Request("run", shellCalls + 1, wide, names)
  /\ shellBuf' = Drained /\ shellPc' = "drain" /\ behind' = FALSE /\ answer' = NoAnswer
  /\ UNCHANGED <<sock, arrived, typed, printing, echo, overdue>>

DrainReads ==
  /\ shellPc = "drain" /\ arrived # <<>> /\ arrived' = <<>>
  /\ UNCHANGED <<shellPc, sock, request, shellBuf, guestVars, shellCalls, overdue, behind, answer>>

(* Silence, or the end of the connection.                                  *)
DrainEnds ==
  /\ shellPc = "drain" /\ arrived = <<>>
  /\ Sends(request) /\ behind' = Busy
  /\ UNCHANGED <<sock, shellBuf, arrived, printing, echo, shellCalls, overdue, answer>>

(* get_file() goes by what is in the buffer as well.                       *)
GetFile ==
  /\ shellPc = "idle" /\ shellCalls < MaxShellCalls
  /\ shellCalls' = shellCalls + 1 /\ Sends(Request("file", shellCalls + 1, FALSE, FALSE))
  /\ behind' = (Busy \/ arrived # <<>> \/ KindsAt(shellBuf, Kinds \ {"digits"}) # {})
  /\ answer' = NoAnswer
  /\ UNCHANGED <<sock, shellBuf, arrived, printing, echo, overdue>>

(* _recv_until(): the first match, what follows it kept for later.         *)
Endings(r) == CASE r.what = "login" -> {"ready"}
                [] r.what = "run"   -> {"mark", "first"}
                [] OTHER            -> {"end", "fileecho"}
Matched == KindsAt(shellBuf, Endings(request)) # {}
First   == CHOOSE i \in KindsAt(shellBuf, Endings(request)) :
             \A j \in KindsAt(shellBuf, Endings(request)) : i <= j
MatchEnd == IF request.what = "run" /\ First < Len(shellBuf) /\ shellBuf[First + 1].kind = "digits"
            THEN First + 1 ELSE First

Receives ==
  /\ shellPc = "recv" /\ ~Matched /\ arrived # <<>>
  /\ shellBuf' = shellBuf \o arrived /\ arrived' = <<>>
  /\ UNCHANGED <<shellPc, sock, request, guestVars, shellCalls, overdue, behind, answer>>

(* run() drops the first line it has read if the command's first word is   *)
(* in it, as an echo or as output; of an earlier call's line, it may be.   *)
(* get_file() looks for its frame and decodes what lines are in it, as far *)
(* as the one that says it is the last.                                    *)
Bodies(text) ==
  IF text = <<>> \/ Head(text) = Piece("out", request.of) THEN {text}
  ELSE IF Head(text) \in {Piece("echo", request.of), Piece("named", request.of)} THEN {Tail(text)}
  ELSE {text, Tail(text)}

FileLines(text) ==
  LET begins == KindsAt(text, {"begin", "fileecho"})
      b      == CHOOSE i \in begins : \A j \in begins : i <= j
      Ended(s) == s # <<>> /\ s[Len(s)].kind = "last"
      lines[i \in 0..Len(text)] ==
        IF i <= b THEN <<>>
        ELSE IF text[i].kind \in {"part", "last"} /\ ~Ended(lines[i - 1])
          THEN Append(lines[i - 1], text[i]) ELSE lines[i - 1]
  IN  IF text[b].kind = "fileecho" THEN <<>> ELSE lines[Len(text)]
Failed == [NoAnswer EXCEPT !.what = "failed", !.of = request.of]
FileAnswer(text) ==
  IF KindsAt(text, {"begin", "fileecho"}) = {} THEN Failed
  ELSE [what |-> "file", of |-> request.of, rc |-> 0, got |-> FileLines(text)]

(* The digits that have been read; without all of them, another number.    *)
CutStatus == MaxShellCalls + 1
ExitCode  == IF shellBuf[First].kind = "mark" \/ MatchEnd # First THEN shellBuf[First].of
             ELSE CutStatus
Found ==
  /\ shellPc = "recv" /\ Matched
  /\ shellPc' = "idle" /\ shellBuf' = SubSeq(shellBuf, MatchEnd + 1, Len(shellBuf))
  /\ \E body \in Bodies(SubSeq(shellBuf, 1, First - 1)) :
       answer' = CASE request.what = "login" -> NoAnswer
                   [] request.what = "run"   ->
                        [what |-> "run", of |-> request.of, rc |-> ExitCode, got |-> body]
                   [] OTHER                  -> FileAnswer(SubSeq(shellBuf, 1, First))
  /\ UNCHANGED <<sock, request, arrived, guestVars, shellCalls, overdue, behind>>

(* The deadline, or the end of the connection: what there is is returned.  *)
GivesUp ==
  /\ shellPc = "recv" /\ ~Matched
  /\ \/ sock = "open" /\ overdue < MaxShellFailures /\ overdue' = overdue + 1
     \/ sock = "eof" /\ arrived = <<>> /\ UNCHANGED overdue
  /\ shellPc' = "idle" /\ shellBuf' = <<>>
  /\ answer' = IF request.what = "file" THEN FileAnswer(shellBuf) ELSE Failed
  /\ UNCHANGED <<sock, request, arrived, typed, printing, echo, shellCalls, behind>>

Close ==
  /\ shellPc = "idle" /\ shellPc' = "closed" /\ sock' = "none"
  /\ typed' = <<>> /\ printing' = <<>> /\ arrived' = <<>>
  /\ UNCHANGED <<request, shellBuf, echo, shellCalls, overdue, behind, answer>>

ShellInit ==
  /\ shellPc = "closed" /\ sock = "none" /\ request = Request("login", 0, FALSE, FALSE)
  /\ shellBuf = <<>> /\ arrived = <<>> /\ typed = <<>> /\ printing = <<>>
  /\ echo = FALSE /\ shellCalls = 0 /\ overdue = 0 /\ behind = FALSE /\ answer = NoAnswer

ShellHost == DrainReads \/ DrainEnds \/ Receives \/ Found \/ GivesUp
ShellNext ==
  \/ ReadsLine \/ Writes \/ HangsUp
  \/ Login \/ Run \/ GetFile \/ Close \/ ShellHost
ShellSpec == ShellInit /\ [][ShellNext]_shellVars

-----------------------------------------------------------------------------
(* Correctness.                                                            *)

ShellTypeOK ==
  /\ shellPc \in {"closed", "idle", "drain", "recv"} /\ sock \in {"none", "open", "eof"}
  /\ request \in [what : {"login", "run", "file"}, of : 0..MaxShellCalls, wide : BOOLEAN,
                  names : BOOLEAN]
  /\ \A s \in {shellBuf, arrived, printing, answer.got} : s \in Seq(Pieces)
  /\ \A i \in DOMAIN typed : typed[i].of <= shellCalls
  /\ echo \in BOOLEAN /\ behind \in BOOLEAN
  /\ shellCalls \in 0..MaxShellCalls /\ overdue \in 0..MaxShellFailures
  /\ answer.of \in 0..shellCalls /\ answer.rc \in 0..shellCalls \cup {CutStatus}

(* run() returns the exit status and the output of its own command, unless *)
(* the guest was still busy with an earlier one when the silence of        *)
(* _drain() let it be sent.  Only a status of several digits may be cut,   *)
(* and only a terminal that does not echo lets it lose a first line of     *)
(* output, one that holds the command's first word.                        *)
OwnAnswer ==
  answer.what = "run" /\ ~behind =>
    /\ answer.of = request.of
    /\ answer.rc = request.of \/ (request.wide /\ answer.rc = CutStatus)
    /\ answer.got = IF request.names /\ ~echo THEN <<>> ELSE <<Output(request)>>

(* get_file() of a guest that does not echo returns the file, if nothing   *)
(* has failed before (irix_telnet.py:187, "return its bytes").             *)
FileExact ==
  answer.what = "file" /\ ~echo /\ overdue = 0 =>
    answer.got = <<Piece("part", answer.of), Piece("last", answer.of)>>

(* "Discard any pending/stale bytes so a prior timed-out command can't     *)
(* corrupt the next one's captured output (resync the channel)"            *)
(* (irix_telnet.py:151).                                                   *)
DrainResyncs == answer.what = "run" => answer.rc = answer.of

(* An answer belongs to the call that returns it.                          *)
ShellAnswers == OwnAnswer /\ FileExact
=============================================================================
