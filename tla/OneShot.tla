------------------------------ MODULE OneShot ------------------------------
(***************************************************************************)
(* The tools that start a QEMU of their own, talk to its serial console by *)
(* pairs of a pattern to expect and a text to send, may save a snapshot,   *)
(* and end it again: qemu_serial_interact, qemu_snapshot_restore and       *)
(* qemu_snapshot_save (sgi_mcp/server.py).                                 *)
(*                                                                         *)
(* What the guest prints is a sequence of words; a read returns some that  *)
(* have arrived, at least one, and a pattern is a word.                    *)
(***************************************************************************)
EXTENDS Naturals, Sequences, FiniteSets

CONSTANTS Vocabulary,          \* what the guest prints
          Interactions,   \* the pairs: [expect, send]
          NoExpect,       \* "": a pair that only sends
          MaxWords        \* bound: words printed
ASSUME OneShotConstants ==
  /\ NoExpect \notin Vocabulary /\ MaxWords \in Nat
  /\ Interactions \in Seq([expect : Vocabulary \cup {NoExpect}, send : BOOLEAN])

VARIABLES
  osPc,        \* where the tool is
  osTool,      \* "interact" or "save"
  osQemu,      \* "none", "run" or "gone"
  osDir,       \* the directory of the sockets is there
  osReply,     \* "none", "done", "failed", "error", "saved" or "unsaved"
  pair,        \* the pair that is next
  received,    \* history: all words read
  pendingData, \* pending_data: read, and not yet looked at
  collected,   \* what this wait or collection has, with the pending words
  skipLen,     \* how many of them were pending
  shown,       \* words in the transcript
  hits,        \* history: where in "received" each matched wait began and ended
  osSavevm,    \* "none", "slow", "saved", "failed" or "cut"
  osOlder,     \* a snapshot with this name in its name was there before
  recordedShot \* the manifest has it

readVars == <<received, pendingData, collected, skipLen, shown, hits>>
saveVars == <<osSavevm, osOlder, recordedShot>>
oneShotVars == <<osPc, osTool, osQemu, osDir, osReply, pair, readVars, saveVars>>

Goes(from, to) == osPc = from /\ osPc' = to

-----------------------------------------------------------------------------
(* _build_qemu_launch() has made the directory; then Popen and connect.    *)
OneShotStarts(tool) ==
  /\ Goes("idle", "connect")
  /\ osTool' = tool /\ osDir' = TRUE /\ osQemu' \in {"none", "run"}
  /\ UNCHANGED <<osReply, pair, readVars, saveVars>>

(* Popen has raised, or the socket was never there: the reply is an error, *)
(* and the cleanup comes before it.                                        *)
NoConsole ==
  /\ Goes("connect", "clean") /\ osReply' = "error"
  /\ UNCHANGED <<osTool, osQemu, osDir, pair, readVars, saveVars>>

Connected ==
  /\ Goes("connect", "boot") /\ osQemu = "run"
  /\ UNCHANGED <<osTool, osQemu, osDir, osReply, pair, readVars, saveVars>>

HasWord(s, w) == \E i \in DOMAIN s : s[i] = w
Expected == Interactions[pair].expect
From(s, n) == SubSeq(s, n + 1, Len(s))

(* A mistake: the words are left for the next pair.                        *)
StillPending == collected

(* pending_data = b"" after a match: what has come with it is not looked   *)
(* at again.                                                               *)
PendingAfter == <<>>

(* The wait is over: what is new goes to the transcript.                   *)
Shows1 == shown' = shown \o From(collected', skipLen')

(* The wait of this pair is over with a match; sendall() may raise.        *)
Matched ==
  /\ hits' = Append(hits, [from |-> Len(received') - Len(collected') + 1, to |-> Len(received')])
  /\ Shows1 /\ pendingData' = PendingAfter
  /\ osPc' = IF Interactions[pair].send THEN "send" ELSE "pair"
  /\ pair' = IF Interactions[pair].send THEN pair ELSE pair + 1

(* recv() in a collection or in a wait.                                    *)
Receives ==
  /\ osPc \in {"boot", "expect", "settle"} /\ osQemu = "run"
  /\ \E chunk \in UNION {[1..n -> Vocabulary] : n \in 1..(MaxWords - Len(received))} :
        received' = received \o chunk /\ collected' = collected \o chunk
  /\ UNCHANGED skipLen
  /\ IF osPc = "expect" /\ HasWord(collected', Expected) THEN Matched
     ELSE UNCHANGED <<pendingData, shown, hits, osPc, pair>>
  /\ UNCHANGED <<osTool, osQemu, osDir, osReply, saveVars>>

(* boot_wait has passed.                                                   *)
Booted ==
  /\ Goes("boot", "pair")
  /\ shown' = shown \o collected /\ pendingData' = collected
  /\ UNCHANGED <<osTool, osQemu, osDir, osReply, pair, received, collected, skipLen, hits, saveVars>>

(* The next pair, which looks first at what is pending.                    *)
NextPair ==
  /\ osPc = "pair" /\ pair <= Len(Interactions)
  /\ UNCHANGED received
  /\ IF Expected = NoExpect
       THEN /\ pendingData' = <<>> /\ UNCHANGED <<collected, skipLen, shown, hits>>
            /\ osPc' = IF Interactions[pair].send THEN "send" ELSE "pair"
            /\ pair' = IF Interactions[pair].send THEN pair ELSE pair + 1
       ELSE /\ collected' = pendingData /\ skipLen' = Len(pendingData)
            /\ IF HasWord(pendingData, Expected) THEN Matched
               ELSE /\ pendingData' = <<>> /\ osPc' = "expect"
                    /\ UNCHANGED <<shown, hits, pair>>
  /\ UNCHANGED <<osTool, osQemu, osDir, osReply, saveVars>>

(* An error, of a text that cannot be encoded or of a QEMU that is gone,   *)
(* takes the transcript of the pairs with it.                              *)
Sends ==
  /\ osPc = "send"
  /\ \/ osPc' = "pair" /\ pair' = pair + 1 /\ UNCHANGED osReply
     \/ /\ osPc' = "clean" /\ UNCHANGED pair
        /\ osReply' = IF osTool = "save" THEN "unsaved" ELSE "error"
  /\ UNCHANGED <<osTool, osQemu, osDir, readVars, saveVars>>

(* The pattern did not come, or the session's time is up between pairs:    *)
(* all_ok is False, and only qemu_snapshot_save asks for it.               *)
Unmatched ==
  /\ osPc = "expect" \/ (osPc = "pair" /\ pair <= Len(Interactions))
  /\ IF osPc = "expect" THEN shown' = shown \o From(collected, skipLen) ELSE UNCHANGED shown
  /\ collected' = <<>> /\ pendingData' = <<>>
  /\ IF osTool = "save" THEN osPc' = "clean" /\ osReply' = "failed"
     ELSE osPc' = "settle" /\ UNCHANGED osReply
  /\ UNCHANGED <<osTool, osQemu, osDir, pair, received, skipLen, hits, saveVars>>

AllPairs ==
  /\ Goes("pair", "settle") /\ pair > Len(Interactions)
  /\ collected' = <<>>
  /\ UNCHANGED <<osTool, osQemu, osDir, osReply, pair, received, pendingData, skipLen, shown, hits,
                 saveVars>>

(* collect_after, or wait_after_interactions, has passed.                  *)
Settled ==
  /\ osPc = "settle"
  /\ shown' = shown \o collected
  /\ IF osTool = "save" THEN osPc' = "savevm" /\ UNCHANGED osReply
     ELSE osPc' = "clean" /\ osReply' = "done"
  /\ UNCHANGED <<osTool, osQemu, osDir, pair, received, pendingData, collected, skipLen, hits, saveVars>>

-----------------------------------------------------------------------------
(* The snapshot: savevm, a wait, and the list of snapshots.  The monitor   *)
(* answers nothing while savevm is at work, and a reading gives up after   *)
(* ten seconds.                                                            *)

AsksSavevm ==
  /\ osPc = "savevm" /\ osOlder' \in BOOLEAN
  /\ \/ osQemu = "run" /\ osSavevm' \in {"slow", "saved", "failed"} /\ osPc' = "list"
        /\ UNCHANGED osReply
     \/ osPc' = "clean" /\ osReply' = "unsaved" /\ UNCHANGED osSavevm
  /\ UNCHANGED <<osTool, osQemu, osDir, pair, readVars, recordedShot>>

SavevmEnds ==
  /\ osSavevm = "slow" /\ osQemu = "run"
  /\ osSavevm' \in {"saved", "failed"}
  /\ UNCHANGED <<osPc, osTool, osQemu, osDir, osReply, pair, readVars, osOlder, recordedShot>>

(* A mistake: the name in the echo of savevm will do.                      *)
NameEchoed == osSavevm # "none"

(* The name is in the list; one that is in what the monitor prints with    *)
(* any list is left out.                                                   *)
NameListed == osSavevm # "slow" /\ (osSavevm = "saved" \/ osOlder)

ReadsList ==
  /\ Goes("list", "clean")
  /\ \/ /\ osQemu = "run" /\ NameListed
        /\ osReply' = "saved" /\ recordedShot' = TRUE
     \/ osReply' = "unsaved" /\ UNCHANGED recordedShot
  /\ UNCHANGED <<osTool, osQemu, osDir, pair, readVars, osSavevm, osOlder>>

(* _cleanup_qemu(), which every way out of the call goes through: quit,    *)
(* which waits for savevm, ten seconds, and kill().                        *)
Cleans ==
  /\ Goes("clean", "returned")
  /\ osQemu' = IF osQemu = "none" THEN "none" ELSE "gone"
  /\ osDir' = FALSE
  /\ IF osSavevm = "slow" THEN osSavevm' \in {"saved", "failed", "cut"} ELSE UNCHANGED osSavevm
  /\ UNCHANGED <<osTool, osReply, pair, readVars, osOlder, recordedShot>>

OwnQemuDies ==
  /\ osQemu = "run" /\ osQemu' = "gone"
  /\ osSavevm' = IF osSavevm = "slow" THEN "cut" ELSE osSavevm
  /\ UNCHANGED <<osPc, osTool, osDir, osReply, pair, readVars, osOlder, recordedShot>>

-----------------------------------------------------------------------------
OneShotInit ==
  /\ osPc = "idle" /\ osTool = "interact" /\ osQemu = "none" /\ osDir = FALSE
  /\ osReply = "none" /\ pair = 1 /\ received = <<>> /\ pendingData = <<>>
  /\ collected = <<>> /\ skipLen = 0 /\ shown = <<>> /\ hits = <<>>
  /\ osSavevm = "none" /\ osOlder = FALSE /\ recordedShot = FALSE

OneShotNext ==
  \/ \E tool \in {"interact", "save"} : OneShotStarts(tool)
  \/ NoConsole \/ Connected \/ Receives \/ Booted \/ NextPair \/ Sends \/ Unmatched
  \/ AllPairs \/ Settled \/ AsksSavevm \/ SavevmEnds \/ ReadsList \/ Cleans \/ OwnQemuDies

OneShotSpec == OneShotInit /\ [][OneShotNext]_oneShotVars

-----------------------------------------------------------------------------
OneShotTypeOK ==
  /\ osPc \in {"idle", "connect", "boot", "pair", "expect", "send", "settle", "savevm", "list",
               "clean", "returned"}
  /\ osQemu \in {"none", "run", "gone"} /\ osDir \in BOOLEAN
  /\ pair \in 1..(Len(Interactions) + 1) /\ skipLen \in 0..MaxWords
  /\ \A s \in {received, pendingData, collected, shown} : s \in Seq(Vocabulary)
  /\ osSavevm \in {"none", "slow", "saved", "failed", "cut"}

(* The transcript of a call that has come to its end has every word that   *)
(* was read, once and in order, though the words of a wait overlap those   *)
(* that were pending before it.                                            *)
ShownWhole == osReply \in {"done", "failed", "saved"} => shown = received

(* The patterns of a dialogue are found one after the other: no text is    *)
(* taken for the answer to two pairs.                                      *)
AnsweredInOrder ==
  /\ \A i, j \in DOMAIN hits : i < j => hits[i].to < hits[j].from
  /\ osReply = "saved" =>
       Len(hits) = Cardinality({i \in DOMAIN Interactions : Interactions[i].expect # NoExpect})

(* A snapshot is reported and recorded only if it is there, after the      *)
(* whole dialogue; and nothing of a call outlives it.                      *)
RecordedShotThere ==
  /\ recordedShot => osSavevm = "saved" \/ osOlder
  /\ recordedShot => pair > Len(Interactions)

NothingOutlives == osPc = "returned" => osQemu # "run" /\ ~osDir /\ osSavevm # "slow"

OneShotSound == ShownWhole /\ AnsweredInOrder /\ RecordedShotThere /\ NothingOutlives

=============================================================================
