------------------------------- MODULE MCHost -------------------------------
(***************************************************************************)
(* Seven components of the host that share no state, checked in one run: a *)
(* behaviour is one of any one of them, and the others stay in their       *)
(* initial states.                                                         *)
(***************************************************************************)
EXTENDS McpSessions, HookConsole, BootHarness, LibraryScan, SessionSerial, OneShot,
        MCGateway, TLC

CONSTANTS t1, t2, s1, s2

Symmetry == Permutations({t1, t2}) \cup Permutations({s1, s2})

(* Two files of one name in two folders, and a third beside one of them    *)
(* when there are three; a root with all folders and one within.           *)
MCFolderOf == [n \in LibPaths |-> IF n = 3 THEN "d2" ELSE "d1"]
MCNameOf == [n \in LibPaths |-> IF n = 1 THEN "m" ELSE "n"]
MCLibRoots == {{"d1", "d2"}, {"d1"}}

MCScript == <<"check", "sync">>

(* Two waits for the same word, a pair that only sends, and another wait.  *)
MCInteractions ==
  <<[expect |-> a, send |-> FALSE], [expect |-> a, send |-> TRUE],
    [expect |-> Empty, send |-> TRUE], [expect |-> b, send |-> TRUE]>>

(* Two calls on a session are of one tool, of one line and of two lines,   *)
(* writing also the other way round, for a count that is cut; or the first *)
(* is a send.  Placing is uploading without its last turn.                 *)
MCSerialPair ==
  Len(serialCalls) = 2 =>
    \/ serialCalls[1].tool = "send"
    \/ /\ serialCalls[1].tool = serialCalls[2].tool /\ serialCalls[1].tool # "place"
       /\ <<serialCalls[1].lines, serialCalls[2].lines>> \in
            {<<0, 0>>, <<1, 2>>} \cup (IF serialCalls[1].tool = "write" THEN {<<2, 1>>} ELSE {})

VARIABLE part    \* the component the behaviour is one of

HostInit ==
  /\ part \in {"sessions", "gateway", "hook", "harness", "library", "serial", "oneshot"}
  /\ Init /\ GwInit /\ HookInit /\ HarnessInit /\ LibInit
  /\ SerialInit /\ OneShotInit
  /\ part # "library" => \A n \in LibPaths : ~There(n)
  /\ part # "gateway" => target = p

HostNext ==
  /\ UNCHANGED part
  /\ \/ /\ part = "sessions" /\ Next
        /\ UNCHANGED <<gwVars, hookVars, harnessVars, libVars, serialVars, oneShotVars>>
     \/ /\ part = "gateway" /\ GwNext
        /\ UNCHANGED <<vars, hookVars, harnessVars, libVars, serialVars, oneShotVars>>
     \/ /\ part = "hook" /\ HookNext
        /\ UNCHANGED <<vars, gwVars, harnessVars, libVars, serialVars, oneShotVars>>
     \/ /\ part = "harness" /\ HarnessNext
        /\ UNCHANGED <<vars, gwVars, hookVars, libVars, serialVars, oneShotVars>>
     \/ /\ part = "library" /\ LibNext
        /\ UNCHANGED <<vars, gwVars, hookVars, harnessVars, serialVars, oneShotVars>>
     \/ /\ part = "serial" /\ SerialNext /\ MCSerialPair'
        /\ UNCHANGED <<vars, gwVars, hookVars, harnessVars, libVars, oneShotVars>>
     \/ /\ part = "oneshot" /\ OneShotNext
        /\ UNCHANGED <<vars, gwVars, hookVars, harnessVars, libVars, serialVars>>

hostVarsAll == <<part, vars, gwVars, hookVars, harnessVars, libVars, serialVars,
                 oneShotVars>>
HostSpec == HostInit /\ [][HostNext]_hostVarsAll

-----------------------------------------------------------------------------
(* The state of the component the behaviour is one of is what it should be; *)
(* the others are in their initial states.                                 *)
HostTypeOK ==
  /\ part = "sessions" => TypeOK
  /\ part = "gateway"  => GwTypeOK
  /\ part = "hook"     => HookTypeOK
  /\ part = "harness"  => HarnessTypeOK
  /\ part = "library"  => LibTypeOK
  /\ part = "serial"   => SerialTypeOK
  /\ part = "oneshot"  => OneShotTypeOK
=============================================================================
