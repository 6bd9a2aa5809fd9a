---------------------------- MODULE BootHarness ----------------------------
(***************************************************************************)
(* QEMUSession (pyirix_qemu/boot_harness.py), the serial line and monitor  *)
(* of a QEMU that a script drives, and the script at the end of            *)
(* phase_verify_boot() (install/irix.py): it asks a root shell whether     *)
(* packages are installed, changes its configuration, syncs, and saves a   *)
(* snapshot.                                                               *)
(*                                                                         *)
(* Output is a sequence of pieces of text, each with the command it        *)
(* belongs to; a read returns all that has arrived.  The script is at one  *)
(* command at a time, but the guest's terminal takes what is typed and     *)
(* echoes it while its shell is still at an earlier one.                   *)
(***************************************************************************)
EXTENDS Naturals, Sequences, FiniteSets

CONSTANTS Script,      \* the commands: "check", "apply" or "sync"
          Repeats,     \* repeat_threshold; 0: not looked for
          MaxNoise,    \* bound: pieces the kernel prints
          MaxGiveUps,  \* bound: waits that time out
          ListTries    \* 3: listings of the snapshots after savevm
Steps == DOMAIN Script
ASSUME HarnessConstants ==
  /\ Script \in Seq({"check", "apply", "sync"})
  /\ Repeats \in Nat /\ {MaxNoise, MaxGiveUps} \subseteq Nat /\ ListTries \in Nat \ {0}

VARIABLES
  bhPc,        \* "out", "connect", "ask", "wait", "save", "list", "close", "closed"
  bhQemu,        \* "none", "run" or "dead"
  step,        \* the command the script is at; 0: the shell's first prompt
  serialIn,    \* pieces at the serial socket
  accumulated, recentLines,  \* of the wait
  claim,       \* claim[k]: what the script believes of command k
  bail,        \* bail_reason of the last wait, "matched" or "none"
  typedAhead, commandLines,  \* lines not yet echoed, and not yet read by the shell
  toPrint,     \* pieces the shell has still to write
  done,        \* commands that did what they are for
  onDisk,      \* those whose effect is out of the page cache
  noise, panicked,
  frayed,      \* history, of the wait: numbers of lines that two reads share
  merged,      \* history, of the wait: a line was added to the one before it
  gaveUp,      \* waits that have timed out
  inStep,      \* history: every wait so far ended at the prompt of its own command
  savevm,      \* what savevm has come to: "none", "slow", "saved", "failed"
  errorCut,    \* history: its error was cut out of the response
  older,       \* a snapshot of this name is there from an earlier run
  shot,        \* what is in the snapshot: commands whose effect it holds
  tries, saved \* listings so far; save_snapshot() has returned

textVars == <<accumulated, recentLines, frayed, merged>>
waitVars == <<textVars, claim, bail, gaveUp, inStep>>
guestVars == <<typedAhead, commandLines, toPrint, done, onDisk, noise, panicked>>
shotVars == <<savevm, errorCut, older, shot, tries, saved>>
harnessVars == <<bhPc, bhQemu, step, serialIn, waitVars, guestVars, shotVars>>

Bit(kind, k) == [kind |-> kind, of |-> k]

-----------------------------------------------------------------------------
(* Text.  "frag" is "line" without its end, and so is "pan" of the fatal   *)
(* message; the prompt ends no line, and "blank" is white space.  A line's *)
(* end is "\r\n", of which "cr" is what split("\n") leaves.                *)

EndsLine(p) == p.kind \in {"line", "echo", "row", "mark", "ic"}
Words(p) == IF p.kind = "frag" THEN Bit("line", p.of) ELSE p

(* The line that piece i of a text is in, the last piece of line n, and    *)
(* what text.split("\n") is: its last is empty if the text ends a line,    *)
(* and left out here.                                                      *)
LineAt(s, i) == 1 + Cardinality({j \in 1..(i - 1) : EndsLine(s[j])})
LastOf(s, n) == Cardinality({i \in DOMAIN s : LineAt(s, i) <= n})
LineOf(s, n) == [m \in 1..(LastOf(s, n) - LastOf(s, n - 1)) |-> Words(s[LastOf(s, n - 1) + m])]
Lines(s) == [n \in 1..(IF s = <<>> THEN 0 ELSE LineAt(s, Len(s))) |-> LineOf(s, n)]

(* strip(), and the lines it leaves something of: the last may be blank,   *)
(* and no other is, since what ends a line here has words.                 *)
IsBlank(line) == \A i \in DOMAIN line : line[i].kind = "blank"
Strip(line) ==
  LET lead  == Cardinality({i \in DOMAIN line : IsBlank(SubSeq(line, 1, i))})
      trail == Cardinality({i \in DOMAIN line : IsBlank(SubSeq(line, i, Len(line)))})
  IN  SubSeq(line, lead + 1, Len(line) - trail)
EndsBlank(lines) == lines # <<>> /\ IsBlank(lines[Len(lines)])
Stripped(lines) ==
  [n \in 1..(IF EndsBlank(lines) THEN Len(lines) - 1 ELSE Len(lines)) |-> Strip(lines[n])]

Holds(s, kinds, k) == \E i \in DOMAIN s : s[i].kind \in kinds /\ s[i].of \in {0, k}

(* DEFAULT_BAIL_PATTERNS, one that is split over two pieces                *)
Fatal(s) == \E i \in (DOMAIN s) \ {1} : s[i - 1].kind = "pan" /\ s[i].kind = "ic"

(* The pattern of the script's wait: the prompt, or for a command that is  *)
(* followed by "&& echo MARK_OK" also the mark; the echo of that line has  *)
(* the mark in it.                                                         *)
Marked(k) == k # 0 /\ Script[k] # "check"
SaysMark(s, k) == Holds(s, {"mark", "echo"}, k)
IsPrompt(p) == p.kind = "prompt"
Pattern(s, k) == (\E i \in DOMAIN s : IsPrompt(s[i])) \/ (Marked(k) /\ SaysMark(s, k))

(* The last Repeats lines are one.                                         *)
SameLines(lines) ==
  /\ Repeats > 0 /\ Len(lines) >= Repeats
  /\ \A i \in (Len(lines) - Repeats + 1)..Len(lines) : lines[i] = lines[Len(lines)]

-----------------------------------------------------------------------------
(* Launch                                                                  *)

(* A drive that is not there, or no QEMU to run: the exception leaves      *)
(* __enter__() and nothing was started.                                    *)
Launch ==
  /\ bhPc = "out"
  /\ \/ bhQemu' = "run" /\ bhPc' = "connect"
     \/ bhPc' = "closed" /\ UNCHANGED bhQemu
  /\ UNCHANGED <<step, serialIn, waitVars, guestVars, shotVars>>

(* Twenty tries for the serial socket, then twenty for the monitor's.      *)
ConnectLines ==
  /\ bhPc = "connect"
  /\ \/ bhQemu = "run" /\ bhPc' = "wait"
     \/ bhPc' = "close"
  /\ UNCHANGED <<bhQemu, step, serialIn, waitVars, guestVars, shotVars>>

-----------------------------------------------------------------------------
(* wait_for() and send()                                                   *)

(* a mistake: only the last read is searched                               *)
OnlyLast(before, text) == text

(* What the text searched is: everything since the wait began.             *)
Searched(before, text) == before \o text

(* a mistake: a line is never continued by the next read                   *)
NeverContinues(before) == FALSE

(* The first line of a text that does not follow the end of one is added   *)
(* to the last line there is, with its blanks and its "\r".                *)
Continues(before) == recentLines # <<>> /\ ~EndsLine(before[Len(before)])
Unstripped(text) ==
  Head(Lines(text)) \o
    (IF \E i \in DOMAIN text : EndsLine(text[i]) THEN <<Bit("cr", 0)>> ELSE <<>>)
Recent(before, text) ==
  IF Continues(before)
  THEN [recentLines EXCEPT ![Len(recentLines)] = @ \o Unstripped(text)] \o Stripped(Tail(Lines(text)))
  ELSE recentLines \o Stripped(Lines(text))

(* What the script takes from the wait: the package's row, or the mark     *)
(* anywhere in the text.  A marked command of which nothing is seen yields *)
(* a warning.                                                              *)
Believes(k, text) == IF Script[k] = "check" THEN Holds(text, {"row"}, k) ELSE SaysMark(text, k)

EndWait(reason, text) ==
  /\ bail' = reason
  /\ claim' = IF step = 0 THEN claim ELSE [claim EXCEPT ![step] = Believes(step, text)]
  /\ inStep' = (inStep /\ reason = "matched" /\ ~Marked(step))
  /\ bhPc' = IF step = Len(Script) THEN "save" ELSE "ask"

Recv ==
  /\ bhPc = "wait" /\ serialIn # <<>>
  /\ accumulated' = Searched(accumulated, serialIn)
  /\ recentLines' = Recent(accumulated, serialIn)
  /\ LET half == accumulated # <<>> /\ ~EndsLine(accumulated[Len(accumulated)])
     IN  /\ frayed' = IF half THEN frayed \union {Len(Lines(accumulated))} ELSE frayed
         /\ merged' = (merged \/ (Continues(accumulated) /\ EndsBlank(Lines(accumulated))))
  /\ serialIn' = <<>>
  /\ CASE Pattern(accumulated', step) -> EndWait("matched", accumulated')
       [] Fatal(accumulated') /\ ~Pattern(accumulated', step) -> EndWait("bail", accumulated')
       [] OTHER -> IF SameLines(recentLines') THEN EndWait("repeat", accumulated')
                   ELSE UNCHANGED <<bhPc, claim, bail, inStep>>
  /\ UNCHANGED <<bhQemu, step, gaveUp, guestVars, shotVars>>

(* Nothing for the idle timeout, max_wait is over, or the line is closed.  *)
GivesUpWaiting ==
  /\ bhPc = "wait"
  /\ \/ /\ gaveUp < MaxGiveUps /\ gaveUp' = gaveUp + 1
        /\ EndWait("timed out", accumulated)
     \/ /\ bhQemu = "dead" /\ serialIn = <<>> /\ UNCHANGED gaveUp
        /\ EndWait("connection closed", accumulated)
  /\ UNCHANGED <<bhQemu, step, serialIn, textVars, guestVars, shotVars>>

NoText == accumulated' = <<>> /\ recentLines' = <<>> /\ frayed' = {} /\ merged' = FALSE

(* send() raises on a line that is closed, and the exception closes the    *)
(* session.                                                                *)
Ask ==
  /\ bhPc = "ask"
  /\ \/ /\ bhQemu = "run"
        /\ step' = step + 1
        /\ typedAhead' = Append(typedAhead, step + 1)
        /\ NoText
        /\ bhPc' = "wait"
     \/ /\ bhQemu = "dead" /\ bhPc' = "close"
        /\ UNCHANGED <<step, typedAhead, textVars>>
  /\ UNCHANGED <<bhQemu, serialIn, claim, bail, gaveUp, inStep, commandLines, toPrint,
                 done, onDisk, noise, panicked, shotVars>>

(* collect(), between two commands                                         *)
Collect ==
  /\ bhPc = "ask" /\ serialIn # <<>>
  /\ serialIn' = <<>>
  /\ UNCHANGED <<bhPc, bhQemu, step, waitVars, guestVars, shotVars>>

-----------------------------------------------------------------------------
(* save_snapshot(), which asks for savevm and then looks for the name in   *)
(* the list of snapshots.  A response ends at the first "(qemu)", which    *)
(* may be one of the banner's or of the echo's, and is then cut short; and *)
(* the monitor's socket may never have been found.                         *)

Savevm ==
  /\ bhPc = "save"
  /\ NoText /\ serialIn' = <<>>
  /\ older' \in BOOLEAN
  /\ \/ /\ bhQemu = "run"
        /\ \/ savevm' = "saved" /\ shot' = onDisk /\ bhPc' = "list" /\ UNCHANGED errorCut
           \/ savevm' = "slow" /\ bhPc' = "list" /\ UNCHANGED <<errorCut, shot>>
           \/ /\ savevm' = "failed" /\ UNCHANGED shot
              /\ \/ bhPc' = "close" /\ UNCHANGED errorCut
                 \/ bhPc' = "list" /\ errorCut' = TRUE
     \/ bhPc' = "close" /\ UNCHANGED <<savevm, errorCut, shot>>
  /\ UNCHANGED <<bhQemu, step, claim, bail, gaveUp, inStep, guestVars, tries, saved>>

(* The monitor answers nothing else until it has done.                     *)
SlowSavevm ==
  /\ savevm = "slow" /\ bhQemu = "run"
  /\ \/ savevm' = "saved" /\ shot' = onDisk
     \/ savevm' = "failed" /\ UNCHANGED shot
  /\ errorCut' = (errorCut \/ savevm' = "failed")
  /\ UNCHANGED <<bhPc, bhQemu, step, serialIn, waitVars, guestVars, older, tries, saved>>

Listed == savevm # "slow" /\ (savevm = "saved" \/ older)

(* A table that is cut short does not show the name.                       *)
ListSnapshots ==
  /\ bhPc = "list" /\ bhQemu = "run"
  /\ \/ Listed /\ saved' = TRUE /\ bhPc' = "close" /\ UNCHANGED tries
     \/ /\ tries' = tries + 1 /\ UNCHANGED saved
        /\ bhPc' = IF tries' = ListTries THEN "close" ELSE "list"
  /\ UNCHANGED <<bhQemu, step, serialIn, waitVars, guestVars, savevm, errorCut, older, shot>>

ListFails ==
  /\ bhPc = "list" /\ bhQemu = "dead" /\ bhPc' = "close"
  /\ UNCHANGED <<bhQemu, step, serialIn, waitVars, guestVars, shotVars>>

(* close(): quit through the monitor and ten seconds to exit, then kill(). *)
CloseSession ==
  /\ bhPc = "close"
  /\ bhQemu' = IF bhQemu = "none" THEN "none" ELSE "dead"
  /\ bhPc' = "closed"
  /\ savevm' = IF savevm = "slow" THEN "failed" ELSE savevm
  /\ UNCHANGED <<step, serialIn, waitVars, guestVars, errorCut, older, shot, tries, saved>>

-----------------------------------------------------------------------------
(* The guest. *)

Alive == bhQemu = "run" /\ panicked = "no" /\ bhPc # "connect" /\ savevm # "slow"

(* After the last wait nobody reads the line.                              *)
Prints(p) == serialIn' = IF bhPc \in {"wait", "ask"} THEN Append(serialIn, p) ELSE <<>>

TtyEchoes ==
  /\ Alive /\ typedAhead # <<>>
  /\ Prints(Bit("echo", Head(typedAhead)))
  /\ commandLines' = Append(commandLines, Head(typedAhead)) /\ typedAhead' = Tail(typedAhead)
  /\ UNCHANGED <<bhPc, bhQemu, step, waitVars, toPrint, done, onDisk, noise, panicked,
                 shotVars>>

(* A command is done, or not: a package that is not there, a command of a  *)
(* && that fails.                                                          *)
ShellRuns ==
  /\ Alive /\ commandLines # <<>> /\ toPrint = <<>>
  /\ LET k == Head(commandLines)
     IN  \/ /\ done' = done \union {k}
            /\ onDisk' = IF Script[k] = "sync" THEN done' ELSE onDisk
            /\ toPrint' = <<Bit(IF Script[k] = "check" THEN "row" ELSE "mark", k), Bit("prompt", 0)>>
         \/ /\ Script[k] # "sync"
            /\ toPrint' = <<Bit("prompt", 0)>> /\ UNCHANGED <<done, onDisk>>
  /\ commandLines' = Tail(commandLines)
  /\ UNCHANGED <<bhPc, bhQemu, step, serialIn, waitVars, typedAhead, noise, panicked,
                 shotVars>>

ShellPrints ==
  /\ Alive /\ toPrint # <<>>
  /\ Prints(Head(toPrint)) /\ toPrint' = Tail(toPrint)
  /\ UNCHANGED <<bhPc, bhQemu, step, waitVars, typedAhead, commandLines, done, onDisk,
                 noise, panicked, shotVars>>

(* The kernel's messages, one of them its last.                            *)
KernelPrints ==
  /\ \/ /\ Alive /\ noise < MaxNoise /\ noise' = noise + 1
        /\ \/ \E kind \in {"frag", "line", "blank"} : Prints(Bit(kind, 0)) /\ UNCHANGED panicked
           \/ Prints(Bit("pan", 0)) /\ panicked' = "half"
     \/ /\ bhQemu = "run" /\ panicked = "half" /\ panicked' = "whole"
        /\ Prints(Bit("ic", 0)) /\ UNCHANGED noise
  /\ UNCHANGED <<bhPc, bhQemu, step, waitVars, typedAhead, commandLines, toPrint, done, onDisk,
                 shotVars>>

QemuDies ==
  /\ bhQemu = "run" /\ bhQemu' = "dead"
  /\ typedAhead' = <<>> /\ commandLines' = <<>> /\ toPrint' = <<>>
  /\ savevm' = IF savevm = "slow" THEN "failed" ELSE savevm
  /\ UNCHANGED <<bhPc, step, serialIn, waitVars, done, onDisk, noise, panicked, errorCut, older,
                 shot, tries, saved>>

-----------------------------------------------------------------------------
HarnessInit ==
  /\ bhPc = "out" /\ bhQemu = "none" /\ step = 0
  /\ serialIn = <<>> /\ accumulated = <<>> /\ recentLines = <<>>
  /\ frayed = {} /\ merged = FALSE
  /\ claim = [k \in Steps |-> FALSE] /\ bail = "none" /\ gaveUp = 0 /\ inStep = TRUE
  /\ typedAhead = <<>> /\ commandLines = <<>> /\ toPrint = <<Bit("prompt", 0)>>
  /\ done = {} /\ onDisk = {} /\ noise = 0 /\ panicked = "no"
  /\ savevm = "none" /\ errorCut = FALSE /\ older = FALSE /\ shot = {} /\ tries = 0 /\ saved = FALSE

HarnessHost ==
  \/ Launch \/ ConnectLines \/ Recv \/ GivesUpWaiting \/ Ask \/ Collect
  \/ Savevm \/ ListSnapshots \/ ListFails \/ CloseSession
HarnessGuest == TtyEchoes \/ ShellRuns \/ ShellPrints \/ KernelPrints \/ SlowSavevm \/ QemuDies
HarnessNext == HarnessHost \/ HarnessGuest

HarnessSpec == HarnessInit /\ [][HarnessNext]_harnessVars

-----------------------------------------------------------------------------
Bits == [kind : {"frag", "line", "pan", "ic", "echo", "row", "mark", "prompt", "blank", "cr"},
         of : {0} \union Steps]
Reasons == {"none", "matched", "bail", "repeat", "timed out", "connection closed"}

HarnessTypeOK ==
  /\ bhPc \in {"out", "connect", "ask", "wait", "save", "list", "close", "closed"}
  /\ bhQemu \in {"none", "run", "dead"} /\ step \in {0} \union Steps
  /\ \A s \in {serialIn, accumulated, toPrint} : s \in Seq(Bits)
  /\ \A s \in {typedAhead, commandLines} : s \in Seq(Steps)
  /\ recentLines \in Seq(Seq(Bits))
  /\ claim \in [Steps -> BOOLEAN] /\ bail \in Reasons /\ gaveUp \in 0..MaxGiveUps
  /\ onDisk \subseteq done /\ done \subseteq Steps /\ shot \subseteq done
  /\ panicked \in {"no", "half", "whole"} /\ noise \in 0..MaxNoise /\ tries \in 0..ListTries
  /\ savevm \in {"none", "slow", "saved", "failed"}
  /\ frayed \subseteq Nat /\ \A x \in {merged, inStep, errorCut, older, saved} : x \in BOOLEAN

(* The lines in which repeats are looked for are those of the whole text   *)
(* of the wait, wherever reads have cut it, except those that two reads    *)
(* share; and no line is missing or is there twice, until a read has ended *)
(* in the blanks a line begins with, of which the rest is then added to    *)
(* the line before.                                                        *)
TextWhole ==
  bhPc = "wait" /\ ~merged =>
    LET shown == Stripped(Lines(accumulated))
    IN  /\ Len(recentLines) = Len(shown)
        /\ \A n \in (DOMAIN shown) \ frayed : recentLines[n] = shown[n]

(* The last lines, in which a repeat is looked for, are as they were sent. *)
Repeating == SameLines(Stripped(Lines(accumulated)))
LastWhole ==
  /\ ~merged
  /\ \A n \in frayed : n <= Len(Stripped(Lines(accumulated))) - Repeats

(* A wait goes on only while neither its pattern nor a fatal message was   *)
(* read, a pattern that two reads have cut in two included, nor a repeat   *)
(* of lines that none has; and it has not returned for nothing.            *)
VerdictRight ==
  /\ bhPc = "wait" =>
       /\ ~Pattern(accumulated, step) /\ ~Fatal(accumulated)
       /\ LastWhole => ~Repeating
  /\ bhPc \in {"ask", "save"} =>
       CASE bail = "matched" -> Pattern(accumulated, step)
         [] bail = "bail"    -> Fatal(accumulated)
         [] bail = "repeat"  -> LastWhole => Repeating
         [] OTHER -> ~Pattern(accumulated, step) /\ ~Fatal(accumulated)

(* A package is never believed installed that is not; and as long as every *)
(* wait has ended at a prompt and none at a mark, none is believed missing *)
(* that is there: one answer that is late makes all that follow look empty. *)
ChecksTrue ==
  /\ \A k \in Steps : Script[k] = "check" /\ claim[k] => k \in done
  /\ inStep => \A k \in Steps :
       Script[k] = "check" /\ (k < step \/ (k = step /\ bhPc \in {"ask", "save"})) =>
         claim[k] = (k \in done)

(* When save_snapshot() returns there is a snapshot of that name, and      *)
(* unless an error was cut from the monitor's answer while an older one    *)
(* was there, it is this call's.                                           *)
SavedIsThere ==
  saved => /\ savevm = "saved" \/ older
           /\ savevm = "saved" \/ errorCut

(* No QEMU outlives its session, however the session has ended.            *)
NoQemuLeft == bhPc = "closed" => bhQemu # "run"

HarnessSound == TextWhole /\ VerdictRight /\ ChecksTrue /\ SavedIsThere /\ NoQemuLeft

(* irix.py:3058: "Flush guestVars filesystem to disk before taking snapshots." *)
(* When the script has seen the sync's mark, the snapshot holds what the   *)
(* commands before it did.                                                 *)
SyncedBeforeSnapshot ==
  saved /\ savevm = "saved" /\ claim[Len(Script)] => \A k \in Steps :
     claim[k] => k \in shot

=============================================================================
