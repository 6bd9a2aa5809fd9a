---------------------------- MODULE HookConsole ----------------------------
(***************************************************************************)
(* Console output and input without a serial line                          *)
(* (pyirix_qemu/host_channel.py): hook_puts() gives the clock hook in the  *)
(* kernel a text byte by byte through one mailbox byte; push_text_file()   *)
(* and push_file() type a file at the guest's shell through the receive    *)
(* FIFO of the console's UART, and never look whether it was read.         *)
(*                                                                         *)
(* A gdb session stops the guest, so each is one step; the guest goes on   *)
(* between them.  A byte of a text is its number among all sent.  What is  *)
(* typed is a sequence of keys: a command line is its words and the end of *)
(* the line, a line of a file is one key and counts as one byte of it.     *)
(***************************************************************************)
EXTENDS Naturals, Sequences, FiniteSets, SequencesExt

CONSTANTS TextLength,      \* bytes in a text for hook_puts(), none of them 0
          Looks,           \* 20: looks at the mailbox before the next byte
          FileLengths,     \* lengths of files
          ChunkSize,       \* CH, 4000
          FifoSize,        \* 8192
          MaxHookCalls,    \* bound: calls
          MaxHookFailures  \* bound: gdb sessions that fail
ASSUME HookConstants ==
  /\ {TextLength, Looks, ChunkSize, FifoSize} \subseteq Nat \ {0}
  /\ FileLengths \subseteq Nat \ {0} /\ {MaxHookCalls, MaxHookFailures} \subseteq Nat

VARIABLES
  hookPc,     \* where the host is: "idle", "putc", "look", "inject"
  text,       \* bytes of the text that have yet to be written
  looked,     \* looks at the mailbox since the last byte
  toInject,   \* what the file's call has yet to inject, one sequence a session
  mailbox,    \* the byte at HOOK_MBOX
  clearing,   \* the kernel's hook has emitted it and has yet to clear it
  console,    \* bytes the hook has emitted
  fifo,       \* keys in the UART
  shellLine,  \* keys of the line the guest's shell is reading
  ddLeft,     \* bytes dd has still to read; 0: the shell reads
  ddFile,     \* the file dd writes or has written last
  ttyFiles,   \* what is in it
  written,    \* bytes of texts the host has tried to write
  pushed,     \* pushed[n]: the n-th file pushed
  decoded,    \* history: what uudecode was run on, and for which file
  hookCalls, hookFailures,
  byteLost, keyLost  \* history: a byte was given up; a key was lost

mailVars == <<text, looked, mailbox, clearing, console, written, byteLost>>
guestTty == <<shellLine, ddLeft, ddFile, ttyFiles, decoded>>
typeVars == <<toInject, fifo, guestTty, pushed, keyLost>>
hookVars == <<hookPc, mailVars, typeVars, hookCalls, hookFailures>>

-----------------------------------------------------------------------------
(* hook_puts(): the next byte is written when the hook has cleared the     *)
(* last, when it was looked at Looks times, or when a look has failed.     *)

HookPuts ==
  /\ hookPc = "idle" /\ hookCalls < MaxHookCalls
  /\ hookCalls' = hookCalls + 1
  /\ text' = [i \in 1..TextLength |-> written + i]
  /\ hookPc' = "putc"
  /\ UNCHANGED <<looked, mailbox, clearing, console, written, byteLost, typeVars, hookFailures>>

(* A session that fails writes nothing, and hook_putc() does not ask.      *)
Putc ==
  /\ hookPc = "putc"
  /\ \/ mailbox' = Head(text) /\ UNCHANGED <<byteLost, hookFailures>>
     \/ /\ hookFailures < MaxHookFailures
        /\ hookFailures' = hookFailures + 1 /\ byteLost' = TRUE /\ UNCHANGED mailbox
  /\ written' = Head(text) /\ looked' = 0 /\ hookPc' = "look"
  /\ UNCHANGED <<text, clearing, console, typeVars, hookCalls>>

NextByte ==
  /\ text' = Tail(text)
  /\ hookPc' = IF Tail(text) = <<>> THEN "idle" ELSE "putc"

(* a mistake: the next byte is written without a look at the last          *)
NeverThere == FALSE

StillThere == mailbox # 0

Look ==
  /\ hookPc = "look"
  /\ \/ /\ looked' = looked + 1
        /\ IF StillThere /\ looked' < Looks THEN UNCHANGED <<text, hookPc>> ELSE NextByte
        /\ byteLost' = (byteLost \/ (mailbox # 0 /\ looked' = Looks))
        /\ UNCHANGED hookFailures
     \/ /\ hookFailures < MaxHookFailures   \* b"" counts as 0
        /\ hookFailures' = hookFailures + 1
        /\ NextByte /\ byteLost' = TRUE /\ UNCHANGED looked
  /\ UNCHANGED <<mailbox, clearing, console, written, typeVars, hookCalls>>

(* The keys in the FIFO after some more: one that finds it full is lost.   *)
Accepted(keys) ==
  LET all == fifo \o keys
  IN  SubSeq(all, 1, IF Len(all) < FifoSize THEN Len(all) ELSE FifoSize)

(* The session lasts longer than its timeout: subprocess.TimeoutExpired    *)
(* leaves the call, and of what it had to write a first part was written.  *)
GdbTimeout ==
  /\ hookPc # "idle" /\ hookFailures < MaxHookFailures
  /\ hookFailures' = hookFailures + 1 /\ hookPc' = "idle"
  /\ \/ /\ hookPc = "putc" /\ mailbox' \in {mailbox, Head(text)} /\ written' = Head(text)
        /\ byteLost' = TRUE /\ UNCHANGED <<fifo, keyLost>>
     \/ hookPc = "look" /\ byteLost' = TRUE /\ UNCHANGED <<mailbox, written, fifo, keyLost>>
     \/ /\ hookPc = "inject"
        /\ \E n \in 0..Len(Head(toInject)) :
              fifo' = Accepted(SubSeq(Head(toInject), 1, n))
        /\ keyLost' = TRUE /\ UNCHANGED <<mailbox, written, byteLost>>
  /\ text' = <<>> /\ toInject' = <<>>
  /\ UNCHANGED <<looked, clearing, console, guestTty, pushed, hookCalls>>

-----------------------------------------------------------------------------
(* The files *)

Key(what, n, i) == [what |-> what, of |-> n, at |-> i]
Enter == Key("enter", 0, 0)

Content(n) == [i \in 1..pushed[n].length |-> Key("data", n, i)]

(* a mistake: dd is asked for the bytes of a command line as well          *)
OneMore(length) == length + 1

(* dd of=... count=n                                                       *)
DdCount(length) == length

Chunks(s) ==
  [c \in 1..((Len(s) + ChunkSize - 1) \div ChunkSize) |->
     SubSeq(s, (c - 1) * ChunkSize + 1, IF c * ChunkSize < Len(s) THEN c * ChunkSize ELSE Len(s))]

(* push_text_file() sends the line and the content; push_file() sends the  *)
(* uuencoded content to a file that is the same in every call, and the     *)
(* line that decodes it.                                                   *)
Push(kind, length) ==
  /\ hookPc = "idle" /\ hookCalls < MaxHookCalls
  /\ hookCalls' = hookCalls + 1
  /\ pushed' = Append(pushed, [kind |-> kind, length |-> length])
  /\ LET n == Len(pushed)'
     IN  toInject' = <<<<Key("dd", n, DdCount(length)), Enter>>>>
                     \o Chunks([i \in 1..length |-> Key("data", n, i)])
                     \o IF kind = "file" THEN <<<<Key("uudecode", n, 0), Enter>>>> ELSE <<>>
  /\ hookPc' = "inject"
  /\ UNCHANGED <<mailVars, fifo, guestTty, keyLost, hookFailures>>

(* inject_input() and the sleep after it; a session that fails injects     *)
(* nothing.                                                                *)
Inject ==
  /\ hookPc = "inject"
  /\ \/ /\ fifo' = Accepted(Head(toInject))
        /\ keyLost' = (keyLost \/ Len(fifo) + Len(Head(toInject)) > FifoSize)
        /\ UNCHANGED hookFailures
     \/ /\ hookFailures < MaxHookFailures
        /\ hookFailures' = hookFailures + 1 /\ keyLost' = TRUE /\ UNCHANGED fifo
  /\ toInject' = Tail(toInject)
  /\ hookPc' = IF Tail(toInject) = <<>> THEN "idle" ELSE "inject"
  /\ UNCHANGED <<mailVars, guestTty, pushed, hookCalls>>

-----------------------------------------------------------------------------
(* The guest: the hook in the clock interrupt, and a shell on the console. *)

HookEmits ==
  /\ mailbox # 0 /\ ~clearing
  /\ console' = Append(console, mailbox) /\ clearing' = TRUE
  /\ UNCHANGED <<hookPc, text, looked, mailbox, written, byteLost, typeVars, hookCalls, hookFailures>>

HookClears ==
  /\ clearing
  /\ mailbox' = 0 /\ clearing' = FALSE
  /\ UNCHANGED <<hookPc, text, looked, console, written, byteLost, typeVars, hookCalls, hookFailures>>

PathOf(n) == IF pushed[n].kind = "file" THEN "tmp" ELSE "text"

(* A line that is one command runs it; a line of a file is no command.     *)
Runs(line) ==
  CASE line # <<>> /\ Len(line) = 1 /\ line[1].what = "dd" ->
         /\ ddLeft' = line[1].at /\ ddFile' = PathOf(line[1].of)
         /\ ttyFiles' = [ttyFiles EXCEPT ![PathOf(line[1].of)] = <<>>]
         /\ UNCHANGED decoded
    [] line # <<>> /\ Len(line) = 1 /\ line[1].what = "uudecode" ->
         /\ decoded' = decoded \union {[of |-> line[1].of, file |-> ttyFiles["tmp"]]}
         /\ UNCHANGED <<ddLeft, ddFile, ttyFiles>>
    [] OTHER -> UNCHANGED <<ddLeft, ddFile, ttyFiles, decoded>>

GuestReads ==
  /\ fifo # <<>> /\ fifo' = Tail(fifo)
  /\ LET key == Head(fifo)
     IN  \/ /\ ddLeft > 0
            /\ ddLeft' = ddLeft - 1
            /\ ttyFiles' = [ttyFiles EXCEPT ![ddFile] = Append(@, key)]
            /\ UNCHANGED <<shellLine, ddFile, decoded>>
         \/ /\ ddLeft = 0 /\ key = Enter
            /\ Runs(shellLine) /\ shellLine' = <<>>
         \/ /\ ddLeft = 0 /\ key # Enter
            /\ shellLine' = IF key.what = "data" THEN <<>> ELSE Append(shellLine, key)
            /\ UNCHANGED <<ddLeft, ddFile, ttyFiles, decoded>>
  /\ UNCHANGED <<hookPc, mailVars, toInject, pushed, keyLost, hookCalls, hookFailures>>

-----------------------------------------------------------------------------
HookInit ==
  /\ hookPc = "idle" /\ text = <<>> /\ looked = 0 /\ toInject = <<>>
  /\ mailbox = 0 /\ clearing = FALSE /\ console = <<>>
  /\ fifo = <<>> /\ shellLine = <<>> /\ ddLeft = 0 /\ ddFile = "text"
  /\ ttyFiles = [p \in {"text", "tmp"} |-> <<>>]
  /\ written = 0 /\ pushed = <<>> /\ decoded = {}
  /\ hookCalls = 0 /\ hookFailures = 0 /\ byteLost = FALSE /\ keyLost = FALSE

HookNext ==
  \/ HookPuts \/ Putc \/ Look \/ GdbTimeout
  \/ \E kind \in {"text", "file"}, length \in FileLengths : Push(kind, length)
  \/ Inject \/ HookEmits \/ HookClears \/ GuestReads

HookSpec == HookInit /\ [][HookNext]_hookVars

-----------------------------------------------------------------------------
Keys == [what : {"dd", "data", "uudecode", "enter"}, of : 0..MaxHookCalls, at : Nat]

HookTypeOK ==
  /\ hookPc \in {"idle", "putc", "look", "inject"}
  /\ text \in Seq(Nat \ {0}) /\ looked \in 0..Looks
  /\ \A i \in DOMAIN toInject : toInject[i] \in Seq(Keys)
  /\ mailbox \in 0..written /\ clearing \in BOOLEAN /\ console \in Seq(1..written)
  /\ fifo \in Seq(Keys) /\ Len(fifo) <= FifoSize
  /\ shellLine \in Seq(Keys) /\ ddLeft \in Nat /\ ddFile \in {"text", "tmp"}
  /\ \A p \in {"text", "tmp"} : ttyFiles[p] \in Seq(Keys)
  /\ pushed \in Seq([kind : {"text", "file"}, length : FileLengths])
  /\ byteLost \in BOOLEAN /\ keyLost \in BOOLEAN

(* The console shows the bytes in their order and none twice, whatever     *)
(* was given up on the way.                                                *)
ConsoleInOrder == \A i, j \in DOMAIN console : i < j => console[i] < console[j]

(* As long as no byte was given up and no session has failed, all that was *)
(* written has been shown, or is the byte in the mailbox: no byte is       *)
(* overtaken by the next, between the hook's two steps or before them.     *)
ConsoleWhole ==
  ~byteLost => console \o (IF mailbox # 0 /\ ~clearing THEN <<mailbox>> ELSE <<>>)
               = [i \in 1..written |-> i]

(* As long as no key was lost, uudecode is run on the whole of its own     *)
(* file, and when all is read both files are what was last pushed there.   *)
PushedWhole ==
  ~keyLost =>
    /\ \A d \in decoded : d.file = Content(d.of)
    /\ hookPc = "idle" /\ fifo = <<>> =>
         /\ ddLeft = 0 /\ shellLine = <<>>
         /\ \A n \in DOMAIN pushed :
              (\A m \in DOMAIN pushed : m > n => PathOf(m) # PathOf(n))
              => ttyFiles[PathOf(n)] = Content(n)

(* Whatever was lost, uudecode never finds a file that dd is still         *)
(* writing: bytes that are missing are made up from the keys that follow.  *)
NotWhileWriting ==
  \A d \in decoded : d.file = <<>> \/ Len(d.file) \in FileLengths

(* What the console shows and what the files hold is what was sent, as far *)
(* as nothing was lost.                                                    *)
HookSound == ConsoleInOrder /\ ConsoleWhole /\ PushedWhole /\ NotWhileWriting

=============================================================================
