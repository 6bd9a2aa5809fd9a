--------------------------- MODULE ConsoleProofs ---------------------------
(***************************************************************************)
(* The consoles that the host reads and types at.                          *)
(*                                                                         *)
(* OneShot: a call that starts a QEMU of its own shows what it has read,   *)
(* once and in order, answers its pairs one after the other, and reports a *)
(* snapshot only if it is there: for any vocabulary, any dialogue, and     *)
(* however what the guest prints is cut into reads.                        *)
(*                                                                         *)
(* SessionSerial: every piece that the guest prints is handed to one       *)
(* caller, a count that is confirmed is that of the file, what is captured *)
(* is the whole text, and once the guest has run what was typed the files  *)
(* are the contents: whatever the sizes, the batches and the failures.     *)
(*                                                                         *)
(* HookConsole: the console shows the texts in order, and the files are    *)
(* what was pushed, as far as nothing was lost: for any lengths of texts,  *)
(* files, sequences and of the FIFO.                                       *)
(*                                                                         *)
(* BootHarness: the verdicts of the waits, and what a script takes from    *)
(* them, however reads cut the text, for any script and threshold.         *)
(***************************************************************************)
EXTENDS OneShot, SessionSerial, HookConsole, BootHarness, SequenceTheorems, FiniteSetTheorems,
        WellFoundedInduction, TLAPS

-----------------------------------------------------------------------------
(* OneShot: the inductive invariant.                                       *)
OsTypes ==
  /\ OneShotTypeOK /\ osTool \in {"interact", "save"}
  /\ osReply \in {"none", "done", "failed", "error", "saved", "unsaved"}
  /\ hits \in Seq([from : Nat, to : Nat]) /\ skipLen \in Nat
  /\ Len(received) <= MaxWords /\ Len(collected) <= Len(received)
  /\ Len(pendingData) <= Len(received)

(* What the transcript lacks of what was read is what the wait or the      *)
(* collection under way has, without what was pending before it.           *)
Transcript ==
  /\ osPc \in {"idle", "connect", "boot"} => shown = <<>>
  /\ osPc \in {"idle", "connect"} => received = <<>> /\ collected = <<>>
  /\ osPc \in {"boot", "settle"} => received = shown \o collected
  /\ osPc \in {"pair", "send", "savevm", "list"} => received = shown
  /\ osPc = "expect" => skipLen <= Len(collected)
     /\ received = shown \o From(collected, skipLen)
  /\ osPc \notin {"clean", "returned"} => osReply = "none"
  /\ ShownWhole

(* A match ends before what is pending, or what the wait began with.       *)
HitsBehind ==
  /\ \A i \in DOMAIN hits :
       /\ osPc \in {"pair", "send"} => hits[i].to + Len(pendingData) <= Len(received)
       /\ osPc = "expect" => hits[i].to + Len(collected) <= Len(received)
  /\ \A i, j \in DOMAIN hits : i < j => hits[i].to < hits[j].from

(* The pairs up to the n-th that wait for something: the dialogue is over  *)
(* with as many matches.                                                   *)
Expecting(n) == {i \in 1..n : Interactions[i].expect # NoExpect}
AllMatched == pair = Len(Interactions) + 1
/\ Len(hits) = Cardinality(Expecting(Len(Interactions)))
HitsCounted ==
  /\ osPc \in {"idle", "connect", "boot"} => pair = 1 /\ hits = <<>>
  /\ osPc \in {"pair", "expect"} => Len(hits) = Cardinality(Expecting(pair - 1))
  /\ osPc = "send" => Len(hits) = Cardinality(Expecting(pair))
  /\ osPc \in {"expect", "send"} => pair <= Len(Interactions)
  /\ osPc = "expect" => Expected # NoExpect
  /\ osPc \in {"savevm", "list"} => osTool = "save"
  /\ osPc \in {"settle", "savevm", "list"} /\ osTool = "save" => AllMatched
  /\ osReply = "saved" => AllMatched

ShotThere ==
  /\ recordedShot => osReply = "saved" /\ (osSavevm = "saved" \/ osOlder)
  /\ NothingOutlives

OneShotInv == OsTypes /\ Transcript /\ HitsBehind /\ HitsCounted /\ ShotThere

-----------------------------------------------------------------------------
LEMMA FromProps ==
  ASSUME NEW s \in Seq(Vocabulary), NEW n \in 0..Len(s)
  PROVE  /\ From(s, n) \in Seq(Vocabulary) /\ Len(From(s, n)) = Len(s) - n
         /\ \A i \in 1..(Len(s) - n) : From(s, n)[i] = s[n + i]
<1>1. Len(s) \in Nat /\ \A i \in (n + 1)..Len(s) : s[i] \in Vocabulary
  BY ElementOfSeq
<1> QED
  BY <1>1, SubSeqProperties DEF From

LEMMA FromNone ==
  ASSUME NEW s \in Seq(Vocabulary)
  PROVE  From(s, Len(s)) = <<>>
<1>1. Len(s) \in Nat
  OBVIOUS
<1> QED
  BY <1>1, SubSeqEmpty DEF From

LEMMA FromGrows ==
  ASSUME NEW s \in Seq(Vocabulary), NEW c \in Seq(Vocabulary), NEW n \in 0..Len(s)
  PROVE  From(s \o c, n) = From(s, n) \o c
<1> DEFINE t == s \o c
           f == From(s, n)
           g == From(t, n)
           u == f \o c
<1>1. /\ t \in Seq(Vocabulary) /\ Len(t) = Len(s) + Len(c)
      /\ \A i \in 1..Len(s) + Len(c) : t[i] = IF i <= Len(s) THEN s[i] ELSE c[i - Len(s)]
  BY ConcatProperties
<1>2. /\ f \in Seq(Vocabulary) /\ Len(f) = Len(s) - n
      /\ \A i \in 1..(Len(s) - n) : f[i] = s[n + i]
  BY FromProps
<1>3. n \in 0..Len(t)
  BY <1>1
<1> HIDE DEF t
<1>4. /\ g \in Seq(Vocabulary) /\ Len(g) = Len(t) - n
      /\ \A i \in 1..(Len(t) - n) : g[i] = t[n + i]
  BY <1>1, <1>3, FromProps
<1> HIDE DEF f, g
<1>5. /\ u \in Seq(Vocabulary) /\ Len(u) = Len(f) + Len(c)
      /\ \A i \in 1..Len(f) + Len(c) : u[i] = IF i <= Len(f) THEN f[i] ELSE c[i - Len(f)]
  BY <1>2, ConcatProperties
<1> HIDE DEF u
<1>6. Len(s) \in Nat /\ Len(c) \in Nat /\ Len(g) = Len(s) + Len(c) - n /\ Len(u) = Len(g)
  BY <1>1, <1>2, <1>4, <1>5
<1>7. ASSUME NEW i \in 1..Len(g)
      PROVE  g[i] = u[i]
  <2>1. n + i \in 1..Len(s) + Len(c) /\ i \in 1..(Len(t) - n) /\ i \in 1..Len(f) + Len(c)
    BY <1>1, <1>2, <1>6
  <2>2. g[i] = t[n + i]
    BY <1>4, <2>1
  <2>3. t[n + i] = IF n + i <= Len(s) THEN s[n + i] ELSE c[n + i - Len(s)]
    BY <1>1, <2>1
  <2>4. u[i] = IF i <= Len(f) THEN f[i] ELSE c[i - Len(f)]
    BY <1>5, <2>1
  <2>5. i - Len(f) = n + i - Len(s) /\ (i <= Len(f) <=> n + i <= Len(s))
    BY <1>2, <1>6
  <2>6. i <= Len(f) => f[i] = s[n + i]
    BY <1>2, <1>6
  <2> QED
    BY <2>2, <2>3, <2>4, <2>5, <2>6
<1>8. g = u
  BY <1>4, <1>5, <1>6, <1>7, SeqEqual
<1> QED
  BY <1>8 DEF t, f, g, u

(* One more pair.                                                          *)
LEMMA ExpectingMore ==
  ASSUME NEW n \in Nat
  PROVE  /\ Expecting(0) = {} /\ Cardinality(Expecting(0)) = 0
            /\ Cardinality(Expecting(n)) \in Nat
         /\ Cardinality(Expecting(n + 1)) =
              Cardinality(Expecting(n)) + IF Interactions[n + 1].expect # NoExpect THEN 1 ELSE 0
<1>1. IsFiniteSet(Expecting(n)) /\ n + 1 \notin Expecting(n)
  <2>1. IsFiniteSet(1..n) /\ Expecting(n) \subseteq 1..n
    BY FS_Interval DEF Expecting
  <2> QED
    BY <2>1, FS_Subset
<1>2. Expecting(0) = {} /\ Cardinality(Expecting(0)) = 0
  BY FS_EmptySet DEF Expecting
<1>3. Expecting(n + 1) =
        IF Interactions[n + 1].expect # NoExpect THEN Expecting(n) \cup {n + 1} ELSE Expecting(n)
  BY DEF Expecting
<1>4. Cardinality(Expecting(n)) \in Nat
  BY <1>1, FS_CardinalityType
<1>5. Cardinality(Expecting(n) \cup {n + 1}) = Cardinality(Expecting(n)) + 1
  BY <1>1, FS_AddElement
<1> QED
  BY <1>2, <1>3, <1>4, <1>5

-----------------------------------------------------------------------------
(* The steps that read nothing and match nothing.                          *)
LEMMA ControlKeeps ==
  ASSUME OneShotInv,
         \/ \E tool \in {"interact", "save"} : OneShotStarts(tool)
         \/ NoConsole \/ Connected \/ AsksSavevm \/ SavevmEnds \/ ReadsList \/ Cleans \/ OwnQemuDies
         \/ UNCHANGED oneShotVars
  PROVE  OneShotInv'
<1>1. UNCHANGED <<pair, received, pendingData, collected, skipLen, shown, hits>>
  BY DEF OneShotStarts, NoConsole, Connected, AsksSavevm, SavevmEnds, ReadsList,
     Cleans, OwnQemuDies,
         oneShotVars, readVars
<1>2. OsTypes /\ Transcript /\ HitsBehind /\ HitsCounted /\ ShotThere
  BY DEF OneShotInv
(* Where they lead, and with which reply.                                  *)
<1>3. \/ osPc' = osPc /\ osReply' = osReply /\ osTool' = osTool
      \/ /\ osPc = "idle" /\ osPc' = "connect" /\ osReply' = osReply
         /\ osTool' \in {"interact", "save"}
      \/ osPc = "connect" /\ osPc' = "clean" /\ osReply' = "error" /\ osTool' = osTool
      \/ osPc = "connect" /\ osPc' = "boot" /\ osReply' = osReply /\ osTool' = osTool
      \/ osPc = "savevm" /\ osPc' = "list" /\ osReply' = osReply /\ osTool' = osTool
      \/ osPc = "savevm" /\ osPc' = "clean" /\ osReply' = "unsaved" /\ osTool' = osTool
      \/ osPc = "list" /\ osPc' = "clean" /\ osReply' \in {"saved", "unsaved"}
         /\ osTool' = osTool
      \/ osPc = "clean" /\ osPc' = "returned" /\ osReply' = osReply /\ osTool' = osTool
  BY DEF OneShotStarts, NoConsole, Connected, AsksSavevm, SavevmEnds, ReadsList,
     Cleans, OwnQemuDies,
         oneShotVars, Goes
<1>4. osQemu' \in {"none", "run", "gone"} /\ osDir' \in BOOLEAN
      /\ osSavevm' \in {"none", "slow", "saved", "failed", "cut"}
  BY <1>2 DEF OneShotStarts, NoConsole, Connected, AsksSavevm, SavevmEnds,
     ReadsList, Cleans,
         OwnQemuDies, oneShotVars, saveVars, OsTypes, OneShotTypeOK
<1>5. OsTypes'
  BY <1>1, <1>2, <1>3, <1>4 DEF OsTypes, OneShotTypeOK
<1>6. Transcript'
  <2>1. received' = received /\ shown' = shown /\ collected' = collected /\ skipLen' = skipLen
    BY <1>1
  <2>2. /\ From(collected', skipLen') = From(collected, skipLen)
        /\ shown' \o collected' = shown \o collected
        /\ shown' \o From(collected', skipLen') = shown \o From(collected, skipLen)
    BY <2>1
  <2>3. osPc' \in {"boot", "settle"} => received' = shown' \o collected'
    <3>1. <<>> \o <<>> = <<>>
      BY ConcatEmptySeq, EmptySeq
    <3> QED
      BY <1>2, <1>3, <2>1, <2>2, <3>1 DEF Transcript
  <2>4. osPc' = "expect" =>
          skipLen' <= Len(collected') /\ received' = shown' \o From(collected', skipLen')
    BY <1>2, <1>3, <2>1, <2>2 DEF Transcript
  <2>5. osPc' \in {"pair", "send", "savevm", "list"} => received' = shown'
    BY <1>2, <1>3, <2>1 DEF Transcript
  <2>6. ShownWhole' /\ (osPc' \notin {"clean", "returned"} => osReply' = "none")
    BY <1>2, <1>3, <2>1 DEF Transcript, ShownWhole
  <2> QED
    BY <1>2, <1>3, <2>1, <2>3, <2>4, <2>5, <2>6 DEF Transcript
<1>7. HitsBehind'
  BY <1>1, <1>2, <1>3 DEF HitsBehind
<1>8. HitsCounted'
  BY <1>1, <1>2, <1>3 DEF HitsCounted, AllMatched, Expecting, Expected
<1>9. ShotThere'
  <2>1. CASE Cleans
    BY <1>2, <2>1 DEF ShotThere, NothingOutlives, Cleans, Goes, saveVars
  <2>2. CASE ReadsList
    BY <1>2, <2>2 DEF ShotThere, NothingOutlives, ReadsList, NameListed, Goes,
       Transcript
  <2>3. CASE AsksSavevm
    BY <1>2, <1>3, <2>3 DEF ShotThere, NothingOutlives, AsksSavevm, Transcript
  <2>4. CASE SavevmEnds
    BY <1>2, <2>4 DEF ShotThere, NothingOutlives, SavevmEnds
  <2>5. CASE OwnQemuDies
    BY <1>2, <2>5 DEF ShotThere, NothingOutlives, OwnQemuDies
  <2>6. CASE UNCHANGED oneShotVars
    BY <1>2, <2>6 DEF ShotThere, NothingOutlives, oneShotVars, saveVars
  <2>7. CASE (\E tool \in {"interact", "save"} : OneShotStarts(tool)) \/ NoConsole \/ Connected
    BY <1>2, <2>7 DEF ShotThere, NothingOutlives, OneShotStarts, NoConsole,
       Connected, Goes, saveVars, Transcript
  <2> QED
    BY <2>1, <2>2, <2>3, <2>4, <2>5, <2>6, <2>7
<1> QED
  BY <1>5, <1>6, <1>7, <1>8, <1>9 DEF OneShotInv

(* Reading on, and what a match is.                                        *)
LEMMA ReadOn ==
  ASSUME NEW s \in Seq(Vocabulary), NEW t \in Seq(Vocabulary), NEW u \in Seq(Vocabulary)
  PROVE  (s \o t) \o u = s \o (t \o u)
<1> DEFINE l == (s \o t) \o u
           r == s \o (t \o u)
<1>1. l \in Seq(Vocabulary) /\ r \in Seq(Vocabulary) /\ Len(l) = Len(r)
  BY ConcatProperties
<1>2. ASSUME NEW i \in 1..Len(l)
      PROVE  l[i] = r[i]
  BY ConcatProperties, SMTT(30)
<1> QED
  BY <1>1, <1>2, SeqEqual

LEMMA HitTypes ==
  ASSUME NEW h \in Seq([from : Nat, to : Nat]), NEW i \in DOMAIN h
  PROVE  h[i].from \in Nat /\ h[i].to \in Nat
<1>1. DOMAIN h = 1..Len(h)
  BY LenProperties
<1>2. h[i] \in [from : Nat, to : Nat]
  BY <1>1, ElementOfSeq
<1> QED
  BY <1>2

LEMMA AddsHit ==
  ASSUME NEW h \in Seq([from : Nat, to : Nat]), NEW hit \in [from : Nat, to : Nat]
  PROVE  /\ Append(h, hit) \in Seq([from : Nat, to : Nat]) /\ Len(Append(h, hit)) = Len(h) + 1
         /\ Append(h, hit)[Len(h) + 1] = hit /\ \A i \in DOMAIN h : Append(h, hit)[i] = h[i]
         /\ DOMAIN h = 1..Len(h) /\ DOMAIN Append(h, hit) = 1..(Len(h) + 1)
<1>1. DOMAIN h = 1..Len(h)
  BY LenProperties
<1> QED
  BY <1>1, AppendProperties

(* The wait of a pair is over with a match.                                *)
LEMMA MatchedKeeps ==
  ASSUME OneShotInv, osPc \in {"pair", "expect"}, pair <= Len(Interactions),
         Expected # NoExpect,
         received' \in Seq(Vocabulary), Len(received') <= MaxWords,
         collected' \in Seq(Vocabulary), Len(collected') <= Len(received'),
         skipLen' \in 0..Len(collected'), skipLen' \in 0..MaxWords,
         received' = shown \o From(collected', skipLen'),
         \A i \in DOMAIN hits : hits[i].to + Len(collected') <= Len(received'),
         Matched, UNCHANGED <<osTool, osQemu, osDir, osReply, saveVars>>
  PROVE  OneShotInv'
<1> DEFINE hit == [from |-> Len(received') - Len(collected') + 1, to |-> Len(received')]
<1>1. OsTypes /\ Transcript /\ HitsBehind /\ HitsCounted /\ ShotThere
  BY DEF OneShotInv
<1>2. /\ hits' = Append(hits, hit) /\ shown' = received' /\ pendingData' = <<>>
      /\ \/ Interactions[pair].send /\ osPc' = "send" /\ pair' = pair
         \/ ~Interactions[pair].send /\ osPc' = "pair" /\ pair' = pair + 1
  BY DEF Matched, Shows1, PendingAfter
<1>3. Len(received') \in Nat /\ Len(collected') \in Nat
  OBVIOUS
<1>4. /\ hit \in [from : Nat, to : Nat]
      /\ hit.from = Len(received') - Len(collected') + 1 /\ hit.to = Len(received')
  BY <1>3
<1>5. hits \in Seq([from : Nat, to : Nat]) /\ Len(hits) \in Nat
  BY <1>1 DEF OsTypes
<1> HIDE DEF hit
<1>6. /\ hits' \in Seq([from : Nat, to : Nat]) /\ Len(hits') = Len(hits) + 1
      /\ hits'[Len(hits) + 1] = hit /\ \A i \in DOMAIN hits : hits'[i] = hits[i]
      /\ DOMAIN hits = 1..Len(hits) /\ DOMAIN hits' = 1..(Len(hits) + 1)
  <2> DEFINE h == Append(hits, hit)
  <2>1. hit \in [from : Nat, to : Nat] /\ hits \in Seq([from : Nat, to : Nat])
    BY <1>4, <1>5
  <2>2. /\ h \in Seq([from : Nat, to : Nat]) /\ Len(h) = Len(hits) + 1
        /\ h[Len(hits) + 1] = hit /\ \A i \in DOMAIN hits : h[i] = hits[i]
        /\ DOMAIN hits = 1..Len(hits) /\ DOMAIN h = 1..(Len(hits) + 1)
    BY <2>1, AddsHit
  <2>3. hits' = h
    BY <1>2
  <2> HIDE DEF h
  <2> QED
    BY <2>2, <2>3
<1>7. pair \in Nat /\ 1 <= pair /\ Len(Interactions) \in Nat
  BY <1>1 DEF OsTypes, OneShotTypeOK
<1>8. OsTypes'
  <2>1. <<>> \in Seq(Vocabulary) /\ Len(<<>>) = 0
    BY EmptySeq
  <2>2. pair' \in 1..(Len(Interactions) + 1)
    BY <1>2, <1>7
  <2>3. OneShotTypeOK'
    <3>1. \A s \in {received', pendingData', collected', shown'} : s \in Seq(Vocabulary)
      BY <1>2, <2>1
    <3> QED
      BY <1>1, <1>2, <2>2, <3>1 DEF OsTypes, OneShotTypeOK, saveVars
  <2>4. Len(pendingData') <= Len(received')
    BY <1>2, <1>3, <2>1
  <2> QED
    BY <1>1, <1>6, <2>3, <2>4 DEF OsTypes
<1>9. Transcript'
  <2>1. osReply' = "none"
    BY <1>1 DEF Transcript
  <2> QED
    BY <1>2, <2>1 DEF Transcript, ShownWhole
<1>10. HitsBehind'
  <2>1. Len(pendingData') = 0
    BY <1>2, EmptySeq
  <2>2. ASSUME NEW i \in DOMAIN hits'
        PROVE  hits'[i].to + Len(pendingData') <= Len(received')
    <3>1. CASE i = Len(hits) + 1
      BY <1>3, <1>4, <1>6, <2>1, <3>1
    <3>2. CASE i \in DOMAIN hits
      <4>1. hits[i].to \in Nat /\ hits[i].to + Len(collected') <= Len(received')
        BY <1>5, <3>2, HitTypes
      <4>2. hits'[i].to = hits[i].to
        BY <1>6, <3>2
      <4> QED
        BY <1>3, <2>1, <4>1, <4>2
    <3> QED
      BY <1>5, <1>6, <3>1, <3>2
  <2>3. ASSUME NEW i \in DOMAIN hits', NEW j \in DOMAIN hits', i < j
        PROVE  hits'[i].to < hits'[j].from
    <3>1. i \in DOMAIN hits
      BY <1>5, <1>6, <2>3
    <3>2. CASE j = Len(hits) + 1
      <4>1. hits[i].to \in Nat /\ hits[i].to + Len(collected') <= Len(received')
        BY <1>5, <3>1, HitTypes
      <4>2. hits'[i].to = hits[i].to /\ hits'[j].from = Len(received') - Len(collected') + 1
        BY <1>4, <1>6, <3>1, <3>2
      <4> QED
        BY <1>3, <4>1, <4>2
    <3>3. CASE j \in DOMAIN hits
      BY <1>1, <1>6, <2>3, <3>1, <3>3 DEF HitsBehind
    <3> QED
      BY <1>5, <1>6, <3>2, <3>3
  <2> QED
    BY <1>2, <2>2, <2>3 DEF HitsBehind
<1>11. HitsCounted'
  <2>1. Len(hits) = Cardinality(Expecting(pair - 1)) /\ Interactions[pair].expect # NoExpect
    BY <1>1 DEF HitsCounted, Expected
  <2>2. Cardinality(Expecting(pair)) = Cardinality(Expecting(pair - 1)) + 1
    <3>1. pair - 1 \in Nat /\ (pair - 1) + 1 = pair
      BY <1>7
    <3> QED
      BY <2>1, <3>1, ExpectingMore
  <2>3. Len(hits') = Cardinality(Expecting(pair))
    BY <1>6, <2>1, <2>2
  <2>4. osReply' = "none"
    BY <1>1 DEF Transcript
  <2>5. CASE osPc' = "send" /\ pair' = pair
    BY <2>3, <2>4, <2>5 DEF HitsCounted, Expecting
  <2>6. CASE osPc' = "pair" /\ pair' = pair + 1
    <3>1. pair' - 1 = pair
      BY <1>7, <2>6
    <3>2. Len(hits') = Cardinality(Expecting(pair' - 1))
      BY <2>3, <3>1
    <3> QED
      BY <2>4, <2>6, <3>2 DEF HitsCounted, Expecting
  <2> QED
    BY <1>2, <2>5, <2>6
<1>12. ShotThere'
  BY <1>1, <1>2 DEF ShotThere, NothingOutlives, saveVars
<1> QED
  BY <1>8, <1>9, <1>10, <1>11, <1>12 DEF OneShotInv

LEMMA ReceivesKeeps ==
  ASSUME OneShotInv, MaxWords \in Nat, Interactions \in Seq([expect : Vocabulary
     \cup {NoExpect}, send : BOOLEAN]),
         Receives
  PROVE  OneShotInv'
<1>1. OsTypes /\ Transcript /\ HitsBehind /\ HitsCounted /\ ShotThere
  BY DEF OneShotInv
<1>2. PICK n \in 1..(MaxWords - Len(received)) : \E chunk \in [1..n -> Vocabulary] :
        received' = received \o chunk /\ collected' = collected \o chunk
  BY DEF Receives
<1>20. PICK chunk \in [1..n -> Vocabulary] :
        received' = received \o chunk /\ collected' = collected \o chunk
  BY <1>2
<1>3. /\ osPc \in {"boot", "expect", "settle"} /\ skipLen' = skipLen
      /\ UNCHANGED <<osTool, osQemu, osDir, osReply, saveVars>>
  BY DEF Receives
<1>4. /\ received \in Seq(Vocabulary) /\ collected \in Seq(Vocabulary)
         /\ shown \in Seq(Vocabulary)
      /\ Len(received) \in Nat /\ Len(collected) \in Nat /\ skipLen \in 0..MaxWords
      /\ Len(collected) <= Len(received) /\ Len(received) <= MaxWords
  BY <1>1 DEF OsTypes, OneShotTypeOK
<1>5. n \in Nat /\ chunk \in Seq(Vocabulary) /\ Len(chunk) = n
  <2>1. n \in Nat
    BY <1>4
  <2> QED
    BY <2>1
<1>6. /\ received' \in Seq(Vocabulary) /\ collected' \in Seq(Vocabulary)
      /\ Len(received') = Len(received) + n /\ Len(collected') = Len(collected) + n
  BY <1>20, <1>4, <1>5, ConcatProperties
<1>7. Len(received') <= MaxWords /\ Len(collected') <= Len(received')
  BY <1>4, <1>5, <1>6
<1>8. osPc \in {"boot", "settle"} => received' = shown \o collected'
  <2>1. (shown \o collected) \o chunk = shown \o (collected \o chunk)
    BY <1>4, <1>5, ReadOn
  <2> QED
    BY <1>1, <1>20, <2>1 DEF Transcript
<1>9. osPc = "expect" =>
        skipLen \in 0..Len(collected) /\ received' = shown \o From(collected', skipLen)
  <2> SUFFICES ASSUME osPc = "expect"
               PROVE  skipLen \in 0..Len(collected)
                      /\ received' = shown \o From(collected', skipLen)
    OBVIOUS
  <2>1. skipLen \in 0..Len(collected) /\ received = shown \o From(collected, skipLen)
    BY <1>1, <1>4 DEF Transcript
  <2>2. From(collected', skipLen) = From(collected, skipLen) \o chunk
    BY <1>20, <1>4, <1>5, <2>1, FromGrows
  <2>3. From(collected, skipLen) \in Seq(Vocabulary)
    BY <1>4, <2>1, FromProps
  <2>4. received' = (shown \o From(collected, skipLen)) \o chunk
    BY <1>20, <2>1
  <2>5. (shown \o From(collected, skipLen)) \o chunk = shown \o (From(collected, skipLen) \o chunk)
    BY <1>4, <1>5, <2>3, ReadOn
  <2> QED
    BY <2>1, <2>2, <2>4, <2>5
<1>10. osPc = "expect" => \A i \in DOMAIN hits : hits[i].to + Len(collected') <= Len(received')
  <2> SUFFICES ASSUME osPc = "expect", NEW i \in DOMAIN hits
               PROVE  hits[i].to + Len(collected') <= Len(received')
    OBVIOUS
  <2>1. hits[i].to \in Nat
    BY <1>1, HitTypes DEF OsTypes
  <2>2. hits[i].to + Len(collected) <= Len(received)
    BY <1>1 DEF HitsBehind
  <2> QED
    BY <1>4, <1>5, <1>6, <2>1, <2>2, SMTT(30)
<1>11. CASE osPc = "expect" /\ HasWord(collected', Expected)
  <2>1. Matched /\ pair <= Len(Interactions) /\ Expected # NoExpect
    BY <1>1, <1>11 DEF Receives, HitsCounted
  <2>2. skipLen' \in 0..Len(collected') /\ skipLen' \in 0..MaxWords
    BY <1>3, <1>4, <1>5, <1>6, <1>9, <1>11
  <2> QED
    BY <1>3, <1>6, <1>7, <1>9, <1>10, <1>11, <2>1, <2>2, MatchedKeeps
<1>12. CASE ~(osPc = "expect" /\ HasWord(collected', Expected))
  <2>1. UNCHANGED <<pendingData, shown, hits, osPc, pair>>
    BY <1>12 DEF Receives
  <2>2. OsTypes'
    <3>1. \A s \in {received', pendingData', collected', shown'} : s \in Seq(Vocabulary)
      BY <1>1, <1>6, <2>1 DEF OsTypes, OneShotTypeOK
    <3>2. OneShotTypeOK'
      BY <1>1, <1>3, <2>1, <3>1 DEF OsTypes, OneShotTypeOK, saveVars
    <3>3. Len(pendingData') <= Len(received')
      <4>1. Len(pendingData) \in Nat /\ Len(pendingData) <= Len(received)
        BY <1>1 DEF OsTypes, OneShotTypeOK
      <4> QED
        BY <1>4, <1>5, <1>6, <2>1, <4>1
    <3> QED
      BY <1>1, <1>3, <1>7, <2>1, <3>2, <3>3 DEF OsTypes
  <2>3. Transcript'
    <3>1. osReply' = "none"
      BY <1>1, <1>3 DEF Transcript
    <3>2. osPc' \in {"boot", "settle"} => received' = shown' \o collected'
      BY <1>8, <2>1
    <3>3. osPc' = "expect" => skipLen' <= Len(collected')
          /\ received' = shown' \o From(collected', skipLen')
      <4>1. osPc = "expect" => skipLen <= Len(collected')
        BY <1>4, <1>5, <1>6, <1>9
      <4> QED
        BY <1>3, <1>9, <2>1, <4>1
    <3>4. osPc' \in {"boot", "expect", "settle"} /\ (osPc' = "boot" => shown' = <<>>)
      BY <1>1, <1>3, <2>1 DEF Transcript
    <3> QED
      BY <3>1, <3>2, <3>3, <3>4 DEF Transcript, ShownWhole
  <2>4. HitsBehind'
    BY <1>1, <1>3, <1>10, <2>1 DEF HitsBehind
  <2>5. HitsCounted'
    BY <1>1, <1>3, <2>1 DEF HitsCounted, AllMatched, Expecting, Expected
  <2>6. ShotThere'
    BY <1>1, <1>3, <2>1 DEF ShotThere, NothingOutlives, saveVars
  <2> QED
    BY <2>2, <2>3, <2>4, <2>5, <2>6 DEF OneShotInv
<1> QED
  BY <1>11, <1>12

(* The next pair, when something is expected, and when nothing is.         *)
LEMMA NextPairKeeps ==
  ASSUME OneShotInv, Interactions \in Seq([expect : Vocabulary \cup {NoExpect}, send
     : BOOLEAN]),
         NextPair
  PROVE  OneShotInv'
<1>1. OsTypes /\ Transcript /\ HitsBehind /\ HitsCounted /\ ShotThere
  BY DEF OneShotInv
<1>2. /\ osPc = "pair" /\ pair <= Len(Interactions) /\ received' = received
      /\ UNCHANGED <<osTool, osQemu, osDir, osReply, saveVars>>
  BY DEF NextPair
<1>3. /\ received \in Seq(Vocabulary) /\ pendingData \in Seq(Vocabulary) /\ received = shown
      /\ collected \in Seq(Vocabulary) /\ Len(collected) <= Len(received)
      /\ Len(received) \in Nat /\ Len(pendingData) \in Nat /\ MaxWords \in Nat
      /\ Len(pendingData) <= Len(received) /\ Len(received) <= MaxWords /\ osReply = "none"
  BY <1>1, <1>2, OneShotConstants DEF OsTypes, OneShotTypeOK, Transcript
<1>4. <<>> \in Seq(Vocabulary) /\ Len(<<>>) = 0
  BY EmptySeq
<1>5. received = received \o <<>>
  BY <1>3, ConcatEmptySeq
<1>6. pair \in Nat /\ 1 <= pair /\ Len(Interactions) \in Nat
  BY <1>1 DEF OsTypes, OneShotTypeOK
<1>7. CASE Expected = NoExpect
  <2>1. /\ pendingData' = <<>> /\ UNCHANGED <<collected, skipLen, shown, hits>>
        /\ \/ osPc' = "send" /\ pair' = pair
           \/ osPc' = "pair" /\ pair' = pair + 1
    BY <1>7 DEF NextPair
  <2>2. OsTypes'
    <3>1. pair' \in 1..(Len(Interactions) + 1)
      BY <1>2, <1>6, <2>1
    <3>2. \A s \in {received', pendingData', collected', shown'} : s \in Seq(Vocabulary)
      BY <1>2, <1>3, <1>4, <2>1
    <3>3. OneShotTypeOK'
      BY <1>1, <1>2, <2>1, <3>1, <3>2 DEF OsTypes, OneShotTypeOK, saveVars
    <3>4. Len(pendingData') <= Len(received')
      BY <1>2, <1>3, <1>4, <2>1
    <3> QED
      BY <1>1, <1>2, <2>1, <3>3, <3>4 DEF OsTypes
  <2>3. Transcript'
    BY <1>2, <1>3, <2>1 DEF Transcript, ShownWhole
  <2>4. HitsBehind'
    <3>1. ASSUME NEW i \in DOMAIN hits
          PROVE  hits[i].to + Len(pendingData') <= Len(received')
      <4>1. hits[i].to \in Nat /\ hits[i].to + Len(pendingData) <= Len(received)
        BY <1>1, <1>2, HitTypes DEF OsTypes, HitsBehind
      <4>2. Len(pendingData') = 0 /\ Len(received') = Len(received)
        BY <1>2, <1>4, <2>1
      <4> QED
        BY <1>3, <4>1, <4>2
    <3> QED
      BY <1>1, <2>1, <3>1 DEF HitsBehind
  <2>5. HitsCounted'
    <3>1. Len(hits) = Cardinality(Expecting(pair - 1))
      BY <1>1, <1>2 DEF HitsCounted
    <3>2. Cardinality(Expecting(pair)) = Cardinality(Expecting(pair - 1))
      <4>1. pair - 1 \in Nat /\ (pair - 1) + 1 = pair
        BY <1>6
      <4>2. Interactions[pair].expect = NoExpect
        BY <1>7 DEF Expected
      <4>3. Cardinality(Expecting(pair - 1)) \in Nat
        BY <4>1, ExpectingMore
      <4>4. Cardinality(Expecting((pair - 1) + 1)) =
              Cardinality(Expecting(pair - 1)) + IF Interactions[(pair - 1) + 1].expect # NoExpect THEN 1 ELSE 0
        BY <4>1, ExpectingMore
      <4> QED
        BY <4>1, <4>2, <4>3, <4>4
    <3>3. (pair + 1) - 1 = pair
      BY <1>6
    <3>4. CASE osPc' = "send" /\ pair' = pair
      BY <1>2, <1>3, <2>1, <3>1, <3>2, <3>4 DEF HitsCounted, Expecting
    <3>5. CASE osPc' = "pair" /\ pair' = pair + 1
      <4>1. Len(hits') = Cardinality(Expecting(pair' - 1))
        BY <2>1, <3>1, <3>2, <3>3, <3>5
      <4> QED
        BY <1>2, <1>3, <3>5, <4>1 DEF HitsCounted, Expecting
    <3> QED
      BY <2>1, <3>4, <3>5
  <2>6. ShotThere'
    BY <1>1, <1>2, <2>1 DEF ShotThere, NothingOutlives, saveVars
  <2> QED
    BY <2>2, <2>3, <2>4, <2>5, <2>6 DEF OneShotInv
<1>8. CASE Expected # NoExpect
  <2>1. collected' = pendingData /\ skipLen' = Len(pendingData)
    BY <1>8 DEF NextPair
  <2>2. From(collected', skipLen') = <<>>
    BY <1>3, <2>1, FromNone
  <2>3. received' = shown \o From(collected', skipLen')
    BY <1>2, <1>3, <1>5, <2>2
  <2>4. /\ received' \in Seq(Vocabulary) /\ collected' \in Seq(Vocabulary)
        /\ skipLen' \in 0..Len(collected') /\ skipLen' \in 0..MaxWords
        /\ Len(received') <= MaxWords /\ Len(collected') <= Len(received')
    BY <1>2, <1>3, <2>1
  <2>5. \A i \in DOMAIN hits : hits[i].to + Len(collected') <= Len(received')
    BY <1>1, <1>2, <2>1 DEF HitsBehind
  <2>6. CASE HasWord(pendingData, Expected)
    <3>1. Matched
      BY <1>8, <2>6 DEF NextPair
    <3> QED
      BY <1>2, <1>8, <2>3, <2>4, <2>5, <3>1, MatchedKeeps
  <2>7. CASE ~HasWord(pendingData, Expected)
    <3>1. pendingData' = <<>> /\ osPc' = "expect" /\ UNCHANGED <<shown, hits, pair>>
      BY <1>8, <2>7 DEF NextPair
    <3>2. OsTypes'
      <4>1. \A s \in {received', pendingData', collected', shown'} : s \in Seq(Vocabulary)
        BY <1>2, <1>3, <1>4, <2>4, <3>1
      <4>2. OneShotTypeOK'
        BY <1>1, <1>2, <2>4, <3>1, <4>1 DEF OsTypes, OneShotTypeOK, saveVars
      <4>3. Len(pendingData') <= Len(received')
        BY <1>2, <1>3, <1>4, <3>1
      <4> QED
        BY <1>1, <1>2, <2>4, <3>1, <4>2, <4>3 DEF OsTypes
    <3>3. Transcript'
      BY <1>2, <1>3, <2>3, <2>4, <3>1 DEF Transcript, ShownWhole
    <3>4. HitsBehind'
      BY <1>1, <2>5, <3>1 DEF HitsBehind
    <3>5. HitsCounted'
      BY <1>1, <1>2, <1>3, <1>8, <3>1 DEF HitsCounted, Expecting, Expected
    <3>6. ShotThere'
      BY <1>1, <1>2, <3>1 DEF ShotThere, NothingOutlives, saveVars
    <3> QED
      BY <3>2, <3>3, <3>4, <3>5, <3>6 DEF OneShotInv
  <2> QED
    BY <2>6, <2>7
<1> QED
  BY <1>7, <1>8

(* The other steps of the dialogue.                                        *)
LEMMA DialogueKeeps ==
  ASSUME OneShotInv, Booted \/ Sends \/ Unmatched \/ AllPairs \/ Settled
  PROVE  OneShotInv'
<1>1. OsTypes /\ Transcript /\ HitsBehind /\ HitsCounted /\ ShotThere
  BY DEF OneShotInv
<1>2. /\ received' = received /\ skipLen' = skipLen /\ hits' = hits
      /\ UNCHANGED <<osTool, osQemu, osDir, saveVars>>
  BY DEF Booted, Sends, Unmatched, AllPairs, Settled, readVars
<1>3. /\ received \in Seq(Vocabulary) /\ pendingData \in Seq(Vocabulary)
         /\ shown \in Seq(Vocabulary)
      /\ collected \in Seq(Vocabulary) /\ Len(collected) <= Len(received)
      /\ Len(received) \in Nat /\ Len(pendingData) \in Nat /\ skipLen \in Nat
      /\ Len(pendingData) <= Len(received) /\ pair \in Nat /\ Len(Interactions) \in Nat
      /\ pair \in 1..(Len(Interactions) + 1) /\ osQemu \in {"none", "run", "gone"}
  BY <1>1 DEF OsTypes, OneShotTypeOK
<1>4. <<>> \in Seq(Vocabulary) /\ Len(<<>>) = 0
  BY EmptySeq
<1>5. osPc \in {"boot", "pair", "expect", "send", "settle"} /\ osReply = "none"
  BY <1>1 DEF Booted, Sends, Unmatched, AllPairs, Settled, Goes, Transcript
(* What is shown, pending and collected after the step.                    *)
<1>6. /\ pendingData' \in {<<>>, pendingData, collected} /\ collected' \in {<<>>, collected}
      /\ pair' \in {pair, pair + 1} /\ (pair' = pair \/ osPc = "send")
  BY DEF Booted, Sends, Unmatched, AllPairs, Settled, readVars
<1>7. osPc' \in {"pair", "clean", "settle", "savevm"}
      /\ osReply' \in {"none", "done", "failed", "error", "unsaved"}
  BY <1>5 DEF Booted, Sends, Unmatched, AllPairs, Settled, Goes
<1>8. shown' \in Seq(Vocabulary)
  <2>1. CASE Booted \/ Settled
    <3>1. shown' = shown \o collected
      BY <2>1 DEF Booted, Settled
    <3> QED
      BY <1>3, <3>1, ConcatProperties
  <2>2. CASE Unmatched
    <3>1. CASE osPc = "expect"
      <4>1. shown' = shown \o From(collected, skipLen) /\ skipLen \in 0..Len(collected)
        BY <1>1, <1>3, <2>2, <3>1 DEF Unmatched, Transcript
      <4>2. From(collected, skipLen) \in Seq(Vocabulary)
        BY <1>3, <4>1, FromProps
      <4> QED
        BY <1>3, <4>1, <4>2, ConcatProperties
    <3> QED
      BY <1>3, <2>2, <3>1 DEF Unmatched
  <2> QED
    BY <1>3, <2>1, <2>2 DEF Sends, AllPairs, readVars
<1>9. OsTypes'
  <2>1. pair' \in 1..(Len(Interactions) + 1)
    <3>1. osPc = "send" => pair <= Len(Interactions)
      BY <1>1 DEF HitsCounted
    <3> QED
      BY <1>3, <1>6, <3>1
  <2>2. \A s \in {received', pendingData', collected', shown'} : s \in Seq(Vocabulary)
    BY <1>2, <1>3, <1>4, <1>6, <1>8
  <2>3. OneShotTypeOK'
    BY <1>1, <1>2, <1>7, <2>1, <2>2 DEF OsTypes, OneShotTypeOK, saveVars
  <2>4. Len(pendingData') <= Len(received') /\ Len(collected') <= Len(received')
    BY <1>2, <1>3, <1>4, <1>6
  <2> QED
    BY <1>1, <1>2, <1>7, <2>3, <2>4 DEF OsTypes
<1>10. Transcript'
  <2>1. CASE Booted
    BY <1>1, <1>2, <1>5, <2>1 DEF Booted, Goes, Transcript, ShownWhole
  <2>2. CASE Sends
    BY <1>1, <1>2, <1>5, <2>2 DEF Sends, readVars, Transcript, ShownWhole
  <2>3. CASE Unmatched
    <3>1. shown' = received
      BY <1>1, <2>3 DEF Unmatched, Transcript
    <3>2. received = received \o <<>>
      BY <1>3, ConcatEmptySeq
    <3> QED
      BY <1>2, <1>5, <2>3, <3>1, <3>2 DEF Unmatched, Transcript, ShownWhole
  <2>4. CASE AllPairs
    <3>1. shown' = received
      BY <1>1, <2>4 DEF AllPairs, Goes, Transcript
    <3>2. received = received \o <<>>
      BY <1>3, ConcatEmptySeq
    <3> QED
      BY <1>2, <1>5, <2>4, <3>1, <3>2 DEF AllPairs, Goes, Transcript, ShownWhole
  <2>5. CASE Settled
    BY <1>1, <1>2, <1>5, <2>5 DEF Settled, Transcript, ShownWhole
  <2> QED
    BY <2>1, <2>2, <2>3, <2>4, <2>5
<1>11. HitsBehind'
  <2>1. CASE Booted
    <3>1. hits = <<>>
      BY <1>1, <2>1 DEF Booted, Goes, HitsCounted
    <3>2. DOMAIN hits = {}
      BY <3>1
    <3> QED
      BY <1>2, <3>2 DEF HitsBehind
  <2>2. CASE Sends
    BY <1>1, <1>2, <2>2 DEF Sends, readVars, HitsBehind
  <2>3. CASE Unmatched \/ AllPairs \/ Settled
    <3>1. osPc' \notin {"pair", "send", "expect"}
      BY <2>3 DEF Unmatched, AllPairs, Settled, Goes
    <3> QED
      BY <1>1, <1>2, <3>1 DEF HitsBehind
  <2> QED
    BY <2>1, <2>2, <2>3
<1>12. HitsCounted'
  <2>1. CASE Booted
    <3>1. pair' = 1 /\ hits' = <<>> /\ osPc' = "pair" /\ osReply' = "none"
      BY <1>1, <1>2, <1>5, <2>1 DEF Booted, Goes, HitsCounted
    <3>2. Len(hits') = Cardinality(Expecting(pair' - 1))
      <4>1. Cardinality(Expecting(0)) = 0
        BY ExpectingMore
      <4>2. pair' - 1 = 0 /\ Len(hits') = 0
        BY <1>4, <3>1
      <4> QED
        BY <4>1, <4>2
    <3> QED
      BY <3>1, <3>2 DEF HitsCounted, Expecting
  <2>2. CASE Sends
    <3>1. CASE osPc' = "pair"
      <4>1. pair' = pair + 1 /\ Len(hits) = Cardinality(Expecting(pair)) /\ osReply' = "none"
        BY <1>1, <1>5, <2>2, <3>1 DEF Sends, HitsCounted
      <4>2. pair' - 1 = pair
        BY <1>3, <4>1
      <4>3. Len(hits') = Cardinality(Expecting(pair' - 1))
        BY <1>2, <4>1, <4>2
      <4> QED
        BY <3>1, <4>1, <4>3 DEF HitsCounted, Expecting
    <3> QED
      BY <2>2, <3>1 DEF Sends, HitsCounted
  <2>3. CASE Unmatched
    BY <1>2, <1>5, <2>3 DEF Unmatched, HitsCounted
  <2>4. CASE AllPairs
    <3>1. pair' = Len(Interactions) + 1 /\ pair' - 1 = Len(Interactions) /\ pair' = pair
      BY <1>3, <2>4 DEF AllPairs, Goes
    <3>2. AllMatched'
      <4>1. Len(hits) = Cardinality(Expecting(pair - 1))
        BY <1>1, <2>4 DEF AllPairs, Goes, HitsCounted
      <4>2. Len(hits') = Cardinality(Expecting(Len(Interactions)))
        BY <1>2, <3>1, <4>1
      <4> QED
        BY <3>1, <4>2 DEF AllMatched, Expecting
    <3> QED
      BY <1>5, <2>4, <3>2 DEF AllPairs, Goes, HitsCounted
  <2>5. CASE Settled
    <3>1. osTool = "save" => AllMatched'
      BY <1>1, <1>2, <2>5 DEF Settled, HitsCounted, AllMatched, Expecting
    <3> QED
      BY <1>2, <1>5, <2>5, <3>1 DEF Settled, HitsCounted
  <2> QED
    BY <2>1, <2>2, <2>3, <2>4, <2>5
<1>13. ShotThere'
  BY <1>1, <1>2, <1>5, <1>7 DEF ShotThere, NothingOutlives, saveVars
<1> QED
  BY <1>9, <1>10, <1>11, <1>12, <1>13 DEF OneShotInv

LEMMA OneShotStarted == OneShotInit => OneShotInv
<1> SUFFICES ASSUME OneShotInit PROVE OneShotInv
  OBVIOUS
<1>1. /\ <<>> \in Seq(Vocabulary) /\ <<>> \in Seq([from : Nat, to : Nat]) /\ Len(<<>>) = 0
      /\ MaxWords \in Nat /\ Len(Interactions) \in Nat /\ DOMAIN <<>> = {}
  BY EmptySeq, OneShotConstants, LenProperties
<1>2. OsTypes
  <2>1. received = <<>> /\ pendingData = <<>> /\ collected = <<>> /\ shown = <<>> /\ hits = <<>>
    BY DEF OneShotInit
  <2>2. \A s \in {received, pendingData, collected, shown} : s \in Seq(Vocabulary)
    BY <1>1, <2>1
  <2>3. OneShotTypeOK
    <3>1. osPc = "idle" /\ osQemu = "none" /\ osDir = FALSE /\ osSavevm = "none"
      BY DEF OneShotInit
    <3>2. pair \in 1..(Len(Interactions) + 1) /\ skipLen \in 0..MaxWords
      BY <1>1 DEF OneShotInit
    <3> QED
      BY <2>2, <3>1, <3>2 DEF OneShotTypeOK
  <2>4. hits \in Seq([from : Nat, to : Nat]) /\ Len(received) = 0 /\ Len(collected) = 0
        /\ Len(pendingData) = 0
    BY <1>1, <2>1
  <2> QED
    BY <1>1, <2>3, <2>4 DEF OneShotInit, OsTypes
<1>3. Transcript
  BY DEF OneShotInit, Transcript, ShownWhole
<1>4. HitsBehind
  BY <1>1 DEF OneShotInit, HitsBehind
<1>5. HitsCounted
  BY DEF OneShotInit, HitsCounted
<1>6. ShotThere
  BY DEF OneShotInit, ShotThere, NothingOutlives
<1> QED
  BY <1>2, <1>3, <1>4, <1>5, <1>6 DEF OneShotInv

(* A call on a console shows all that it has read, takes no text for the   *)
(* answer to two pairs, reports and records no snapshot that is not there, *)
(* and leaves nothing behind.                                              *)
THEOREM OneShotStaysSound == OneShotSpec => []OneShotSound
<1>1. OneShotInit => OneShotInv
  BY OneShotStarted
<1>2. OneShotInv /\ [OneShotNext]_oneShotVars => OneShotInv'
  <2> SUFFICES ASSUME OneShotInv, [OneShotNext]_oneShotVars PROVE OneShotInv'
    OBVIOUS
  <2>1. CASE Receives
    BY <2>1, ReceivesKeeps, OneShotConstants
  <2>2. CASE NextPair
    BY <2>2, NextPairKeeps, OneShotConstants
  <2>3. CASE Booted \/ Sends \/ Unmatched \/ AllPairs \/ Settled
    BY <2>3, DialogueKeeps
  <2> QED
    BY <2>1, <2>2, <2>3, ControlKeeps DEF OneShotNext
<1>3. OneShotInv => OneShotSound
  <2> SUFFICES ASSUME OneShotInv PROVE OneShotSound
    OBVIOUS
  <2>1. OsTypes /\ Transcript /\ HitsBehind /\ HitsCounted /\ ShotThere
    BY DEF OneShotInv
  <2>2. AnsweredInOrder
    <3>1. Len(Interactions) \in Nat /\ DOMAIN Interactions = 1..Len(Interactions)
      BY OneShotConstants, LenProperties
    <3>2. Expecting(Len(Interactions)) = {i \in DOMAIN Interactions : Interactions[i].expect # NoExpect}
      BY <3>1 DEF Expecting
    <3> QED
      BY <2>1, <3>2 DEF AnsweredInOrder, HitsBehind, HitsCounted, AllMatched
  <2>3. RecordedShotThere
    <3>1. Len(Interactions) \in Nat
      BY OneShotConstants, LenProperties
    <3>2. recordedShot => pair = Len(Interactions) + 1
      BY <2>1 DEF ShotThere, HitsCounted, AllMatched
    <3> QED
      BY <2>1, <3>1, <3>2 DEF RecordedShotThere, ShotThere
  <2> QED
    BY <2>1, <2>2, <2>3 DEF OneShotSound, Transcript, ShotThere
<1> QED
  BY <1>1, <1>2, <1>3, PTL DEF OneShotSpec

-----------------------------------------------------------------------------
(* SessionSerial: pieces of output are counted.                            *)

IsSeq(s) == \E S : s \in Seq(S)

(* What the count of the pieces rests on: the buffers, and the file that   *)
(* is printed, are sequences.                                              *)
CountInv ==
  /\ IsSeq(outputBuffer) /\ IsSeq(wire) /\ handedOut \in Nat /\ printedPieces \in Nat
  /\ DOMAIN typedFile = Tools /\ \A t \in Tools : IsSeq(typedFile[t])
  /\ HandedOutOnce

LEMMA SeqsGrow ==
  ASSUME NEW s, NEW t, IsSeq(s), IsSeq(t)
  PROVE  /\ IsSeq(s \o t) /\ Len(s \o t) = Len(s) + Len(t) /\ Len(s) \in Nat /\ Len(t) \in Nat
         /\ \A e : IsSeq(Append(s, e)) /\ Len(Append(s, e)) = Len(s) + 1
<1>1. PICK S : s \in Seq(S)
  BY DEF IsSeq
<1>2. PICK T : t \in Seq(T)
  BY DEF IsSeq
<1>3. s \in Seq(S \cup T) /\ t \in Seq(S \cup T)
  BY <1>1, <1>2
<1>4. s \o t \in Seq(S \cup T) /\ Len(s \o t) = Len(s) + Len(t)
  BY <1>3, ConcatProperties
<1>5. ASSUME NEW e
      PROVE  IsSeq(Append(s, e)) /\ Len(Append(s, e)) = Len(s) + 1
  <2>1. s \in Seq(S \cup {e}) /\ e \in S \cup {e}
    BY <1>1
  <2>2. Append(s, e) \in Seq(S \cup {e}) /\ Len(Append(s, e)) = Len(s) + 1
    BY <2>1, AppendProperties
  <2> QED
    BY <2>2 DEF IsSeq
<1> QED
  BY <1>3, <1>4, <1>5 DEF IsSeq

LEMMA ShortSeqs ==
  /\ IsSeq(<<>>) /\ Len(<<>>) = 0
  /\ \A e : IsSeq(<<e>>) /\ Len(<<e>>) = 1
<1>1. <<>> \in Seq({}) /\ Len(<<>>) = 0
  OBVIOUS
<1>2. ASSUME NEW e
      PROVE  <<e>> \in Seq({e}) /\ Len(<<e>>) = 1
  OBVIOUS
<1> QED
  BY <1>1, <1>2 DEF IsSeq

(* What is written goes on the wire and is counted.                        *)
LEMMA WritesCount ==
  ASSUME CountInv, NEW s, IsSeq(s), WritesOut(s), UNCHANGED <<outputBuffer, handedOut>>,
         DOMAIN typedFile' = Tools, \A t \in Tools : IsSeq(typedFile'[t])
  PROVE  CountInv'
<1>1. IsSeq(wire) /\ IsSeq(outputBuffer) /\ wire' = wire \o s
      /\ printedPieces' = printedPieces + Len(s)
      /\ handedOut \in Nat /\ printedPieces \in Nat
  BY DEF CountInv, WritesOut
<1>2. IsSeq(wire \o s) /\ Len(wire \o s) = Len(wire) + Len(s) /\ Len(wire) \in Nat
      /\ Len(s) \in Nat
  BY <1>1, SeqsGrow
<1>3. Len(outputBuffer) \in Nat
  BY <1>1, SeqsGrow
<1>4. HandedOutOnce'
  <2>1. handedOut + Len(outputBuffer) + Len(wire) = printedPieces
    BY DEF CountInv, HandedOutOnce
  <2>2. /\ handedOut' = handedOut /\ Len(outputBuffer') = Len(outputBuffer)
        /\ Len(wire') = Len(wire) + Len(s) /\ printedPieces' = printedPieces + Len(s)
    BY <1>1, <1>2
  <2> DEFINE a == Len(outputBuffer)
             b == Len(wire)
             d == Len(s)
  <2>3. /\ a \in Nat /\ b \in Nat /\ d \in Nat /\ handedOut \in Nat
        /\ handedOut + a + b = printedPieces
    BY <1>1, <1>2, <1>3, <2>1
  <2> HIDE DEF a, b, d
  <2>4. handedOut + a + (b + d) = printedPieces + d
    BY <2>3
  <2> QED
    BY <2>2, <2>4 DEF HandedOutOnce, a, b, d
<1>5. printedPieces' \in Nat
  BY <1>1, <1>2
<1> QED
  BY <1>1, <1>2, <1>4, <1>5 DEF CountInv

(* What a line prints, and what it makes of the files.                     *)
LEMMA RunCounts ==
  ASSUME CountInv, NEW c, UNCHANGED <<outputBuffer, handedOut>>,
         RunsLine(c) \/ RunsDecode(c) \/ RunsWc(c) \/ RunsEncode(c) \/ RunsOther(c)
  PROVE  CountInv'
<1>1. DOMAIN typedFile = Tools /\ \A t \in Tools : IsSeq(typedFile[t])
  BY DEF CountInv
<1>2. "capture" \in Tools
  BY DEF Tools
<1>3. CASE RunsLine(c)
  <2> DEFINE t == ToolOf(c.of)
             kept == IF Truncates(c.at) THEN <<>> ELSE typedFile[t]
             more == Append(kept, Line(c.of, c.at))
  <2>1. /\ typedFile' \in {typedFile, [typedFile EXCEPT ![t] = more], [typedFile EXCEPT ![t] = kept]}
        /\ WritesOut(<<>>)
    BY <1>3 DEF RunsLine
  <2>2. t \in Tools => IsSeq(kept) /\ IsSeq(more)
    <3> SUFFICES ASSUME t \in Tools PROVE IsSeq(kept) /\ IsSeq(more)
      OBVIOUS
    <3>1. IsSeq(kept)
      BY <1>1, ShortSeqs
    <3> HIDE DEF kept
    <3> QED
      BY <3>1, SeqsGrow
  <2> HIDE DEF t, kept, more
  <2>3. DOMAIN typedFile' = Tools /\ \A u \in Tools : IsSeq(typedFile'[u])
    <3>1. CASE typedFile' = typedFile
      BY <1>1, <3>1
    <3>2. CASE typedFile' = [typedFile EXCEPT ![t] = more]
      BY <1>1, <2>2, <3>2
    <3>3. CASE typedFile' = [typedFile EXCEPT ![t] = kept]
      BY <1>1, <2>2, <3>3
    <3> QED
      BY <2>1, <3>1, <3>2, <3>3
  <2> QED
    BY <2>1, <2>3, ShortSeqs, WritesCount
<1>4. CASE RunsDecode(c)
  <2>1. PICK p : WritesOut(<<p>>)
    BY <1>4 DEF RunsDecode
  <2>2. typedFile' = typedFile
    BY <1>4 DEF RunsDecode
  <2> QED
    BY <1>1, <2>1, <2>2, ShortSeqs, WritesCount
<1>5. CASE RunsWc(c)
  <2>1. PICK s : WritesOut(s) /\ IsSeq(s)
    <3>1. CASE \E p : WritesOut(<<p>>)
      BY <3>1, ShortSeqs
    <3>2. CASE \E p, q : WritesOut(<<p, q>>)
      <4>1. PICK p, q : WritesOut(<<p, q>>)
        BY <3>2
      <4>2. <<p, q>> \in Seq({p, q})
        OBVIOUS
      <4> QED
        BY <4>1, <4>2 DEF IsSeq
    <3> QED
      BY <1>5, <3>1, <3>2 DEF RunsWc
  <2>2. typedFile' = typedFile
    BY <1>5 DEF RunsWc
  <2> QED
    BY <1>1, <2>1, <2>2, WritesCount
<1>6. CASE RunsEncode(c)
  <2>1. PICK p : WritesOut(<<p>>)
    BY <1>6 DEF RunsEncode
  <2>2. PICK s : typedFile' = [typedFile EXCEPT !["capture"] = s] /\ IsSeq(s)
    <3>1. Source \in Seq(Range(Source)) /\ Len(Source) = 2
      BY DEF Source, Range
    <3>2. ASSUME NEW n \in 0..(Len(Source) - 1)
          PROVE  IsSeq(SubSeq(Source, 1, n))
      <4>1. 1 \in Int /\ n \in Int /\ \A i \in 1..n : Source[i] \in Range(Source)
        BY <3>1 DEF Range
      <4>2. SubSeq(Source, 1, n) \in Seq(Range(Source))
        BY <4>1, SubSeqProperties
      <4> QED
        BY <4>2 DEF IsSeq
    <3>3. IsSeq(Source)
      BY <3>1 DEF IsSeq
    <3> QED
      BY <1>6, <3>2, <3>3 DEF RunsEncode
  <2>3. DOMAIN typedFile' = Tools /\ \A u \in Tools : IsSeq(typedFile'[u])
    BY <1>1, <1>2, <2>2
  <2> QED
    BY <2>1, <2>3, ShortSeqs, WritesCount
<1>7. CASE RunsOther(c)
  <2> DEFINE f == typedFile["capture"]
             body == [i \in DOMAIN f |-> Piece("text", c, f[i].at)]
             a == <<Piece("start", c, NoNumber)>>
             z == <<Piece("end", c, NoNumber)>>
  <2>1. IsSeq(body)
    <3>1. PICK S : f \in Seq(S)
      BY <1>1, <1>2 DEF IsSeq
    <3>2. DOMAIN f = 1..Len(f) /\ Len(f) \in Nat
      BY <3>1, LenProperties
    <3> DEFINE R == {Piece("text", c, f[i].at) : i \in DOMAIN f}
    <3>3. body \in [1..Len(f) -> R]
      BY <3>2
    <3> HIDE DEF body, R, f
    <3>4. body \in Seq(R)
      BY <3>2, <3>3, IsASeq
    <3> QED
      BY <3>4 DEF IsSeq
  <2> HIDE DEF body
  <2>2. IsSeq(a) /\ IsSeq(z)
    BY ShortSeqs
  <2>3. IsSeq(a \o body \o z)
    <3>1. IsSeq(a \o body)
      BY <2>1, <2>2, SeqsGrow
    <3> QED
      BY <2>2, <3>1, SeqsGrow
  <2>4. WritesOut(IF c.do = "cat" THEN a \o body \o z ELSE <<Piece("out", c, NoNumber)>>)
        /\ typedFile' = typedFile
    BY <1>7 DEF RunsOther, body
  <2> HIDE DEF a, z
  <2>5. CASE c.do = "cat"
    BY <1>1, <2>3, <2>4, <2>5, WritesCount
  <2>6. CASE c.do # "cat"
    BY <1>1, <2>4, <2>6, ShortSeqs, WritesCount
  <2> QED
    BY <2>5, <2>6
<1> QED
  BY <1>3, <1>4, <1>5, <1>6, <1>7

(* Every piece that the guest has printed is handed to one caller, or is   *)
(* in the buffer or on its way (HandedOutOnce), whatever the scripts, the  *)
(* batches and the failures.                                               *)
THEOREM NoPieceIsLost == SerialSpec => []HandedOutOnce
<1>1. SerialInit => CountInv
  BY ShortSeqs DEF SerialInit, CountInv, HandedOutOnce
<1>2. CountInv /\ [SerialNext]_serialVars => CountInv'
  <2> SUFFICES ASSUME CountInv, [SerialNext]_serialVars PROVE CountInv'
    OBVIOUS
  <2>1. /\ IsSeq(outputBuffer) /\ IsSeq(wire) /\ handedOut \in Nat /\ printedPieces \in Nat
        /\ DOMAIN typedFile = Tools /\ \A t \in Tools : IsSeq(typedFile[t])
        /\ Len(outputBuffer) \in Nat /\ Len(wire) \in Nat
    BY SeqsGrow DEF CountInv
  <2>2. CASE Takes \/ GivesUp
    <3>1. handedOut' = handedOut + Len(outputBuffer) /\ outputBuffer' = <<>>
          /\ UNCHANGED <<wire, printedPieces, typedFile>>
      BY <2>2 DEF Takes, GivesUp, Drained, guestLines, guestFiles
    <3> QED
      BY <2>1, <3>1, ShortSeqs DEF CountInv, HandedOutOnce
  <2>3. CASE Reads
    <3>1. outputBuffer' = Append(outputBuffer, Head(wire)) /\ wire' = Tail(wire) /\ wire # <<>>
          /\ UNCHANGED <<handedOut, printedPieces, typedFile>>
      BY <2>3 DEF Reads, guestLines, guestFiles
    <3>2. IsSeq(outputBuffer') /\ Len(outputBuffer') = Len(outputBuffer) + 1
      BY <2>1, <3>1, SeqsGrow
    <3>3. PICK S : wire \in Seq(S)
      BY <2>1 DEF IsSeq
    <3>4. Tail(wire) \in Seq(S) /\ Len(Tail(wire)) = Len(wire) - 1
      BY <3>1, <3>3, HeadTailProperties
    <3>5. IsSeq(wire') /\ Len(wire') = Len(wire) - 1
      BY <3>1, <3>4 DEF IsSeq
    <3>6. HandedOutOnce'
      BY <2>1, <3>1, <3>2, <3>5 DEF CountInv, HandedOutOnce
    <3> QED
      BY <2>1, <3>1, <3>2, <3>5, <3>6 DEF CountInv
  <2>4. CASE Echoes
    <3>1. PICK s : WritesOut(s) /\ IsSeq(s)
      BY <2>4, ShortSeqs DEF Echoes
    <3>2. UNCHANGED <<outputBuffer, handedOut, typedFile>>
      BY <2>4 DEF Echoes, guestFiles
    <3> QED
      BY <2>1, <3>1, <3>2, WritesCount
  <2>5. CASE RunsNext
    BY <2>5, RunCounts DEF RunsNext
  <2>6. CASE \/ \E tool \in {"write", "upload", "place"}, k \in SerialSizes : BeginSerial(tool, k, FALSE)
             \/ \E k \in SerialSizes : BeginSerial("place", k, TRUE)
             \/ \E tool \in {"capture", "send"} : BeginSerial(tool, 0, FALSE)
             \/ Types \/ Finds \/ SessionExits \/ UNCHANGED serialVars
    <3>1. UNCHANGED <<outputBuffer, handedOut, wire, printedPieces, typedFile>>
      BY <2>6 DEF BeginSerial, Types, Finds, SessionExits, serialVars, bufferVars,
         guestLines, guestFiles
    <3> QED
      BY <3>1 DEF CountInv, HandedOutOnce
  <2> QED
    BY <2>2, <2>3, <2>4, <2>5, <2>6 DEF SerialNext
<1>3. CountInv => HandedOutOnce
  BY DEF CountInv
<1> QED
  BY <1>1, <1>2, <1>3, PTL DEF SerialSpec

-----------------------------------------------------------------------------
(* Sequences: what is in them, and how they are cut.                        *)

PiecesIn(s) == {s[i] : i \in DOMAIN s}

LEMMA PiecesNone == PiecesIn(<<>>) = {}
BY DEF PiecesIn

LEMMA PiecesAppend ==
  ASSUME NEW S, NEW s \in Seq(S), NEW x \in S
  PROVE  /\ Append(s, x) \in Seq(S) /\ Len(Append(s, x)) = Len(s) + 1
         /\ PiecesIn(Append(s, x)) = PiecesIn(s) \cup {x}
<1>1. /\ Append(s, x) \in Seq(S) /\ Len(Append(s, x)) = Len(s) + 1 /\ Len(s) \in Nat
      /\ \A i \in 1..Len(s) : Append(s, x)[i] = s[i]
      /\ Append(s, x)[Len(s) + 1] = x
  BY AppendProperties, LenProperties
<1>2. DOMAIN s = 1..Len(s) /\ DOMAIN Append(s, x) = (1..Len(s)) \cup {Len(s) + 1}
  BY <1>1, LenProperties
<1> QED
  BY <1>1, <1>2 DEF PiecesIn

LEMMA PiecesJoined ==
  ASSUME NEW S, NEW s \in Seq(S), NEW t \in Seq(S)
  PROVE  s \o t \in Seq(S) /\ PiecesIn(s \o t) = PiecesIn(s) \cup PiecesIn(t)
<1> DEFINE u == s \o t
<1>1. /\ u \in Seq(S) /\ Len(u) = Len(s) + Len(t) /\ Len(s) \in Nat /\ Len(t) \in Nat
      /\ \A i \in 1..(Len(s) + Len(t)) : u[i] = IF i <= Len(s) THEN s[i] ELSE t[i - Len(s)]
  BY ConcatProperties, LenProperties
<1>2. DOMAIN s = 1..Len(s) /\ DOMAIN t = 1..Len(t)
  BY LenProperties
<1> HIDE DEF u
<1>3. DOMAIN u = 1..(Len(s) + Len(t))
  BY <1>1, LenProperties
<1>4. \A i \in DOMAIN u : u[i] \in PiecesIn(s) \cup PiecesIn(t)
  <2>1. ASSUME NEW i \in DOMAIN u, ~(i <= Len(s))
        PROVE  i - Len(s) \in DOMAIN t
    BY <1>1, <1>2, <1>3, <2>1
  <2>2. ASSUME NEW i \in DOMAIN u, i <= Len(s)
        PROVE  i \in DOMAIN s
    BY <1>1, <1>2, <1>3, <2>2
  <2> QED
    BY <1>1, <1>3, <2>1, <2>2 DEF PiecesIn
<1>5. \A i \in DOMAIN s : i \in DOMAIN u /\ u[i] = s[i]
  BY <1>1, <1>2, <1>3
<1>6. \A i \in DOMAIN t : Len(s) + i \in DOMAIN u /\ u[Len(s) + i] = t[i]
  <2>1. ASSUME NEW i \in DOMAIN t
        PROVE  /\ Len(s) + i \in 1..(Len(s) + Len(t)) /\ ~(Len(s) + i <= Len(s))
               /\ (Len(s) + i) - Len(s) = i
    BY <1>1, <1>2
  <2> QED
    BY <1>1, <1>3, <2>1
<1>7. PiecesIn(u) = PiecesIn(s) \cup PiecesIn(t)
  BY <1>4, <1>5, <1>6 DEF PiecesIn
<1> QED
  BY <1>1, <1>7 DEF u

LEMMA PiecesHead ==
  ASSUME NEW S, NEW s \in Seq(S), s # <<>>
  PROVE  /\ Head(s) \in S /\ Tail(s) \in Seq(S)
         /\ Len(s) \in Nat \ {0} /\ Len(Tail(s)) = Len(s) - 1
         /\ PiecesIn(s) = {Head(s)} \cup PiecesIn(Tail(s))
<1>1. /\ Head(s) \in S /\ Tail(s) \in Seq(S) /\ Len(Tail(s)) = Len(s) - 1
      /\ \A i \in 1..Len(Tail(s)) : Tail(s)[i] = s[i + 1]
  BY HeadTailProperties
<1>2. Len(s) \in Nat \ {0} /\ DOMAIN s = 1..Len(s) /\ DOMAIN Tail(s) = 1..Len(Tail(s))
      /\ Head(s) = s[1]
  BY <1>1, LenProperties, EmptySeq
<1>3. \A i \in DOMAIN s : i # 1 => i - 1 \in DOMAIN Tail(s) /\ Tail(s)[i - 1] = s[i]
  <2>1. ASSUME NEW i \in DOMAIN s, i # 1
        PROVE  i - 1 \in 1..Len(Tail(s)) /\ (i - 1) + 1 = i
    BY <1>1, <1>2, <2>1
  <2> QED
    BY <1>1, <1>2, <2>1
<1>4. \A i \in DOMAIN Tail(s) : i + 1 \in DOMAIN s /\ s[i + 1] = Tail(s)[i]
  BY <1>1, <1>2
<1>5. 1 \in DOMAIN s
  BY <1>2
<1>6. \A i \in DOMAIN s : s[i] \in {Head(s)} \cup PiecesIn(Tail(s))
  BY <1>2, <1>3 DEF PiecesIn
<1>7. \A x \in {Head(s)} \cup PiecesIn(Tail(s)) : \E i \in DOMAIN s : s[i] = x
  BY <1>2, <1>4, <1>5 DEF PiecesIn
<1> QED
  BY <1>1, <1>2, <1>6, <1>7 DEF PiecesIn

(* Into how many parts a file is cut, and how far they reach.              *)
LEMMA ChunkCount ==
  ASSUME NEW l \in Nat, NEW h \in Nat, h > 0
  PROVE  LET q == (l + h - 1) \div h
         IN  q \in Nat /\ l <= q * h /\ (\A j \in 1..q : (j - 1) * h < l)
<1> DEFINE q == (l + h - 1) \div h
           r == (l + h - 1) % h
<1>1. q \in Nat /\ r \in 0..(h - 1) /\ l + h - 1 = q * h + r
  OBVIOUS
<1> HIDE DEF q, r
<1>2. q * h \in Nat
  BY <1>1
<1>3. l <= q * h
  BY <1>1, <1>2
<1>4. ASSUME NEW j \in 1..q
      PROVE  (j - 1) * h < l
  <2>1. PICK d \in Nat : q = j + d
    BY <1>1
  <2>2. q * h = j * h + d * h /\ d * h \in Nat /\ j * h \in Nat /\ (j - 1) * h = j * h - h
    BY <1>1, <2>1
  <2> QED
    BY <1>1, <2>2
<1> QED
  BY <1>1, <1>3, <1>4 DEF q

-----------------------------------------------------------------------------
(* SessionSerial: what a call has typed, in the order of its script.        *)

(* How many batches a file is typed in, and how far they reach.            *)
BatchesOf(l) == (l + BatchSize - 1) \div BatchSize
EndOf(l, b) == IF b * BatchSize < l THEN b * BatchSize ELSE l

(* The places of the commands of a call: its lines, and the one or two that *)
(* come after them.  Sentinels, and what a caller sends, change nothing and *)
(* have none.                                                              *)
PlaceOf(calls, c) ==
  CASE c.do = "line" -> c.at
    [] c.do \in {"count", "decode", "encode"} -> calls[c.of].lines + 1
    [] c.do \in {"size", "cat"} -> calls[c.of].lines + 2
    [] OTHER -> 0

(* How many of them are typed in the first turns, and in all.              *)
TypedBy(l, upTo) ==
  IF upTo = 0 THEN 0 ELSE IF upTo <= BatchesOf(l) + 1 THEN EndOf(l, upTo - 1)
  ELSE l + upTo - BatchesOf(l) - 1

OfLatest(calls, c) == c.of = Len(calls) /\ PlaceOf(calls, c) > 0

(* In a queue are, after the commands of earlier calls, those of the latest *)
(* from the k-th on to the m-th.                                           *)
OldFirst(s) == \A i, j \in DOMAIN s : i < j => s[i].of <= s[j].of
Ordered(calls, s, k, m) ==
  /\ k > 0 => \A i \in DOMAIN s : s[i].of = Len(calls)
  /\ \A i \in DOMAIN s : OfLatest(calls, s[i]) => PlaceOf(calls, s[i]) \in (k + 1)..m
  /\ \A i, j \in DOMAIN s :
       i < j /\ OfLatest(calls, s[i]) /\ OfLatest(calls, s[j]) =>
         PlaceOf(calls, s[i]) < PlaceOf(calls, s[j])
  /\ \A r \in (k + 1)..m :
       \E i \in DOMAIN s : OfLatest(calls, s[i]) /\ PlaceOf(calls, s[i]) = r

(* The shell takes the first command of the queue.                         *)
LEMMA OrderedTail ==
  ASSUME NEW calls, NEW s \in Seq(SerialCommands), s # <<>>, NEW k \in Nat, NEW m \in Nat,
         k <= m, Ordered(calls, s, k, m), OldFirst(s), Len(calls) \in Nat,
         \A i \in DOMAIN s : s[i].of <= Len(calls)
  PROVE  /\ OldFirst(Tail(s))
         /\ OfLatest(calls, Head(s)) =>
              PlaceOf(calls, Head(s)) = k + 1 /\ k < m /\ Ordered(calls, Tail(s), k + 1, m)
         /\ ~OfLatest(calls, Head(s)) => Ordered(calls, Tail(s), k, m)
<1> DEFINE t == Tail(s)
           Late(i) == OfLatest(calls, s[i])
           At(i) == PlaceOf(calls, s[i])
<1>1. /\ Len(s) \in Nat \ {0} /\ DOMAIN s = 1..Len(s) /\ Len(t) = Len(s) - 1
      /\ DOMAIN t = 1..Len(t) /\ Head(s) = s[1] /\ \A i \in 1..Len(t) : t[i] = s[i + 1]
  BY HeadTailProperties, LenProperties, EmptySeq
<1>2. \A i \in DOMAIN s : s[i].of \in Nat
  <2>1. \A i \in DOMAIN s : s[i] \in SerialCommands
    BY <1>1, ElementOfSeq
  <2>2. \A c \in SerialCommands : c.of \in 1..MaxSerialCalls
    BY DEF SerialCommands
  <2> QED
    BY <2>1, <2>2, SerialConstants
<1>3. /\ \A i \in DOMAIN t : i + 1 \in DOMAIN s /\ t[i] = s[i + 1] /\ i \in Nat
      /\ \A i \in DOMAIN s : i = 1 \/ (i - 1 \in DOMAIN t /\ t[i - 1] = s[i])
      /\ 1 \in DOMAIN s
  <2>1. ASSUME NEW i \in DOMAIN s, i # 1
        PROVE  i - 1 \in 1..Len(t) /\ (i - 1) + 1 = i
    BY <1>1, <2>1
  <2> QED
    BY <1>1, <2>1
<1>4. /\ k > 0 => \A i \in DOMAIN s : s[i].of = Len(calls)
      /\ \A i \in DOMAIN s : Late(i) => At(i) \in (k + 1)..m
      /\ \A i, j \in DOMAIN s : i < j /\ Late(i) /\ Late(j) => At(i) < At(j)
      /\ \A r \in (k + 1)..m : \E i \in DOMAIN s : Late(i) /\ At(i) = r
  BY DEF Ordered
<1>5. OldFirst(t)
  BY <1>1, <1>3 DEF OldFirst
<1>6. ASSUME Late(1)
      PROVE  At(1) = k + 1 /\ k < m /\ Ordered(calls, t, k + 1, m)
  <2>1. At(1) \in (k + 1)..m
    BY <1>3, <1>4, <1>6
  <2>2. PICK i \in DOMAIN s : Late(i) /\ At(i) = k + 1
    <3>1. k + 1 \in (k + 1)..m
      BY <2>1
    <3> QED
      BY <1>4, <3>1
  <2>3. At(1) = k + 1
    <3>1. CASE i = 1
      BY <2>2, <3>1
    <3>2. CASE i # 1
      BY <1>1, <1>3, <1>4, <1>6, <2>1, <2>2, <3>2
    <3> QED
      BY <3>1, <3>2
  <2>4. \A j \in DOMAIN t : t[j].of = Len(calls)
    <3>1. s[1].of = Len(calls)
      BY <1>6 DEF OfLatest
    <3>2. ASSUME NEW j \in DOMAIN t
          PROVE  t[j].of = Len(calls)
      <4>1. j + 1 \in DOMAIN s /\ 1 < j + 1 /\ t[j] = s[j + 1] /\ 1 \in DOMAIN s
        BY <1>1, <1>3
      <4>2. s[1].of <= s[j + 1].of /\ s[j + 1].of <= Len(calls) /\ s[j + 1].of \in Nat
        BY <1>2, <4>1 DEF OldFirst
      <4> QED
        BY <3>1, <4>1, <4>2
    <3> QED
      BY <3>2
  <2>5. ASSUME NEW j \in DOMAIN t, OfLatest(calls, t[j])
        PROVE  PlaceOf(calls, t[j]) \in ((k + 1) + 1)..m
    <3>1. j + 1 \in DOMAIN s /\ 1 < j + 1 /\ t[j] = s[j + 1] /\ 1 \in DOMAIN s
      BY <1>1, <1>3
    <3>2. At(1) < At(j + 1) /\ At(j + 1) \in (k + 1)..m
      BY <1>4, <1>6, <2>5, <3>1
    <3> QED
      BY <2>3, <3>1, <3>2
  <2>6. ASSUME NEW i2 \in DOMAIN t, NEW j \in DOMAIN t, i2 < j,
               OfLatest(calls, t[i2]), OfLatest(calls, t[j])
        PROVE  PlaceOf(calls, t[i2]) < PlaceOf(calls, t[j])
    <3>1. i2 + 1 < j + 1
      BY <1>3, <2>6
    <3> QED
      BY <1>3, <1>4, <2>6, <3>1
  <2>7. ASSUME NEW r \in ((k + 1) + 1)..m
        PROVE  \E j \in DOMAIN t : OfLatest(calls, t[j]) /\ PlaceOf(calls, t[j]) = r
    <3>1. PICK j \in DOMAIN s : Late(j) /\ At(j) = r
      BY <1>4, <2>7
    <3>2. j # 1
      BY <2>3, <2>7, <3>1
    <3> QED
      BY <1>3, <3>1, <3>2
  <2>8. k < m
    BY <2>1
  <2>9. Ordered(calls, t, k + 1, m)
    BY <2>4, <2>5, <2>6, <2>7 DEF Ordered
  <2> QED
    BY <2>3, <2>8, <2>9
<1>7. ASSUME ~Late(1)
      PROVE  Ordered(calls, t, k, m)
  <2>1. k > 0 => \A j \in DOMAIN t : t[j].of = Len(calls)
    BY <1>3, <1>4
  <2>2. \A j \in DOMAIN t : OfLatest(calls, t[j]) => PlaceOf(calls, t[j]) \in (k + 1)..m
    BY <1>3, <1>4
  <2>3. ASSUME NEW i \in DOMAIN t, NEW j \in DOMAIN t, i < j,
               OfLatest(calls, t[i]), OfLatest(calls, t[j])
        PROVE  PlaceOf(calls, t[i]) < PlaceOf(calls, t[j])
    <3>1. i + 1 < j + 1
      BY <1>3, <2>3
    <3> QED
      BY <1>3, <1>4, <2>3, <3>1
  <2>4. ASSUME NEW r \in (k + 1)..m
        PROVE  \E j \in DOMAIN t : OfLatest(calls, t[j]) /\ PlaceOf(calls, t[j]) = r
    <3>1. PICK j \in DOMAIN s : Late(j) /\ At(j) = r
      BY <1>4, <2>4
    <3>2. j # 1
      BY <1>7, <3>1
    <3> QED
      BY <1>3, <3>1, <3>2
  <2> QED
    BY <2>1, <2>2, <2>3, <2>4 DEF Ordered
<1> QED
  BY <1>1, <1>5, <1>6, <1>7

(* A turn's commands, the m-th to the e-th, are put behind.                *)
LEMMA OrderedMore ==
  ASSUME NEW calls, NEW s \in Seq(SerialCommands), NEW t \in Seq(SerialCommands),
         NEW k \in Nat, NEW m \in Nat, NEW e \in Nat, k <= m, m <= e,
         Ordered(calls, s, k, m), Ordered(calls, t, m, e), OldFirst(s), Len(calls) \in Nat,
         \A i \in DOMAIN s : s[i].of <= Len(calls), \A i \in DOMAIN t : t[i].of = Len(calls)
  PROVE  OldFirst(s \o t) /\ Ordered(calls, s \o t, k, e)
<1> DEFINE u == s \o t
           n == Len(s)
<1>1. /\ u \in Seq(SerialCommands) /\ n \in Nat /\ Len(t) \in Nat
      /\ DOMAIN s = 1..n /\ DOMAIN t = 1..Len(t) /\ DOMAIN u = 1..(n + Len(t))
      /\ \A i \in DOMAIN u : u[i] = IF i <= n THEN s[i] ELSE t[i - n]
  <2>1. u \in Seq(SerialCommands) /\ Len(u) = Len(s) + Len(t)
        /\ \A i \in 1..(Len(s) + Len(t)) : u[i] = IF i <= Len(s) THEN s[i] ELSE t[i - Len(s)]
    BY ConcatProperties
  <2> QED
    BY <2>1, LenProperties
<1> HIDE DEF u, n
<1>2. ASSUME NEW i \in DOMAIN u
      PROVE  \/ i <= n /\ i \in DOMAIN s /\ u[i] = s[i]
             \/ i > n /\ i - n \in DOMAIN t /\ u[i] = t[i - n]
  BY <1>1
<1>3. /\ \A i \in DOMAIN s : i \in DOMAIN u /\ u[i] = s[i]
      /\ \A i \in DOMAIN t : i + n \in DOMAIN u /\ u[i + n] = t[i]
  <2>1. ASSUME NEW i \in DOMAIN t
        PROVE  i + n \in DOMAIN u /\ ~(i + n <= n) /\ (i + n) - n = i
    BY <1>1
  <2> QED
    BY <1>1, <2>1
<1>4. OldFirst(u)
  <2>1. ASSUME NEW i \in DOMAIN u, NEW j \in DOMAIN u, i < j
        PROVE  u[i].of <= u[j].of
    <3>1. i \in Int /\ j \in Int
      BY <1>1
    <3>2. CASE j <= n
      BY <1>2, <2>1, <3>1, <3>2, <1>1 DEF OldFirst
    <3>3. CASE j > n
      <4>1. u[j].of = Len(calls)
        BY <1>1, <1>2, <3>1, <3>3
      <4>2. u[i].of <= Len(calls)
        BY <1>2
      <4> QED
        BY <4>1, <4>2
    <3> QED
      BY <1>1, <3>1, <3>2, <3>3
  <2> QED
    BY <2>1 DEF OldFirst
<1> DEFINE Late(i) == OfLatest(calls, u[i])
           At(i) == PlaceOf(calls, u[i])
<1>5. k > 0 => \A i \in DOMAIN u : u[i].of = Len(calls)
  BY <1>2 DEF Ordered
<1>6. ASSUME NEW i \in DOMAIN u, Late(i)
      PROVE  At(i) \in (k + 1)..e /\ (i <= n => At(i) <= m) /\ (i > n => At(i) > m)
  BY <1>1, <1>2, <1>6 DEF Ordered
<1>7. ASSUME NEW i \in DOMAIN u, NEW j \in DOMAIN u, i < j, Late(i), Late(j)
      PROVE  At(i) < At(j)
  <2>1. i \in Int /\ j \in Int /\ n \in Int
    BY <1>1
  <2>2. CASE j <= n
    <3>1. i <= n /\ i \in DOMAIN s /\ j \in DOMAIN s /\ u[i] = s[i] /\ u[j] = s[j]
      BY <1>2, <1>7, <2>1, <2>2
    <3> QED
      BY <1>7, <3>1 DEF Ordered
  <2>3. CASE i > n
    <3>1. /\ i - n \in DOMAIN t /\ j - n \in DOMAIN t /\ u[i] = t[i - n] /\ u[j] = t[j - n]
          /\ i - n < j - n
      BY <1>2, <1>7, <2>1, <2>3
    <3> QED
      BY <1>7, <3>1 DEF Ordered
  <2>4. CASE i <= n /\ j > n
    <3>1. At(i) \in (k + 1)..e /\ At(j) \in (k + 1)..e /\ At(i) <= m /\ At(j) > m
      BY <1>6, <1>7, <2>4
    <3> QED
      BY <3>1
  <2> QED
    BY <2>1, <2>2, <2>3, <2>4
<1>8. ASSUME NEW r \in (k + 1)..e
      PROVE  \E i \in DOMAIN u : Late(i) /\ At(i) = r
  <2>1. CASE r <= m
    <3>1. PICK i \in DOMAIN s : OfLatest(calls, s[i]) /\ PlaceOf(calls, s[i]) = r
      BY <2>1 DEF Ordered
    <3> QED
      BY <1>3, <3>1
  <2>2. CASE r > m
    <3>1. PICK i \in DOMAIN t : OfLatest(calls, t[i]) /\ PlaceOf(calls, t[i]) = r
      BY <2>2 DEF Ordered
    <3> QED
      BY <1>3, <3>1
  <2> QED
    BY <2>1, <2>2
<1>9. Ordered(calls, u, k, e)
  BY <1>5, <1>6, <1>7, <1>8 DEF Ordered
<1> QED
  BY <1>4, <1>9 DEF u

(* A call begins: all that is in the queue is of earlier ones.             *)
LEMMA OrderedNew ==
  ASSUME NEW calls, NEW s, \A i \in DOMAIN s : s[i].of # Len(calls)
  PROVE  Ordered(calls, s, 0, 0)
  BY DEF Ordered, OfLatest

(* Once the queue is empty, all that was typed has run.                    *)
LEMMA OrderedDone ==
  ASSUME NEW calls, NEW k \in Nat, NEW m \in Nat, k <= m, Ordered(calls, <<>>, k, m)
  PROVE  k = m
<1>1. ASSUME k < m
      PROVE  FALSE
  <2>1. k + 1 \in (k + 1)..m
    BY <1>1
  <2>2. DOMAIN <<>> = {}
    OBVIOUS
  <2> QED
    BY <2>1, <2>2 DEF Ordered
<1> QED
  BY <1>1
-----------------------------------------------------------------------------
(* SessionSerial: the scripts.                                             *)

LEMMA SeqsJoined ==
  ASSUME NEW s, NEW t, IsSeq(s), IsSeq(t)
  PROVE  /\ IsSeq(s \o t) /\ Len(s) \in Nat /\ Len(t) \in Nat
         /\ Len(s \o t) = Len(s) + Len(t)
         /\ DOMAIN s = 1..Len(s) /\ DOMAIN t = 1..Len(t) /\ DOMAIN (s \o t) = 1..(Len(s) + Len(t))
         /\ \A i \in 1..(Len(s) + Len(t)) : (s \o t)[i] = IF i <= Len(s) THEN s[i] ELSE t[i - Len(s)]
<1>1. PICK S : s \in Seq(S)
  BY DEF IsSeq
<1>2. PICK T : t \in Seq(T)
  BY DEF IsSeq
<1>3. s \in Seq(S \cup T) /\ t \in Seq(S \cup T)
  BY <1>1, <1>2
<1>4. /\ s \o t \in Seq(S \cup T) /\ Len(s \o t) = Len(s) + Len(t)
      /\ \A i \in 1..(Len(s) + Len(t)) : (s \o t)[i] = IF i <= Len(s) THEN s[i] ELSE t[i - Len(s)]
  BY <1>3, ConcatProperties
<1>5. DOMAIN s = 1..Len(s) /\ DOMAIN t = 1..Len(t) /\ DOMAIN (s \o t) = 1..Len(s \o t)
      /\ Len(s) \in Nat /\ Len(t) \in Nat
  BY <1>3, <1>4, LenProperties
<1> QED
  BY <1>4, <1>5 DEF IsSeq

LEMMA JoinedOne ==
  ASSUME NEW s, IsSeq(s), NEW m \in Nat, Len(s) = m, NEW e
  PROVE  /\ IsSeq(s \o <<e>>) /\ Len(s \o <<e>>) = m + 1 /\ (s \o <<e>>)[m + 1] = e
         /\ \A i \in 1..m : (s \o <<e>>)[i] = s[i]
<1> DEFINE x == <<e>>
<1>1. IsSeq(x) /\ Len(x) = 1 /\ x[1] = e
  BY ShortSeqs
<1> HIDE DEF x
<1>2. /\ IsSeq(s \o x) /\ Len(s \o x) = m + 1
      /\ \A i \in 1..(m + 1) : (s \o x)[i] = IF i <= m THEN s[i] ELSE x[i - m]
  BY <1>1, SeqsJoined
<1>3. /\ m + 1 \in 1..(m + 1) /\ ~(m + 1 <= m) /\ (m + 1) - m = 1
      /\ \A i \in 1..m : i \in 1..(m + 1) /\ i <= m
  OBVIOUS
<1> QED
  BY <1>1, <1>2, <1>3 DEF x

LEMMA BatchFacts ==
  ASSUME NEW l \in Nat
  PROVE  /\ BatchesOf(l) \in Nat /\ (l = 0 => BatchesOf(l) = 0)
         /\ EndOf(l, 0) = 0 /\ EndOf(l, BatchesOf(l)) = l
         /\ \A b \in 1..BatchesOf(l) :
              /\ (b - 1) * BatchSize \in Nat /\ EndOf(l, b - 1) = (b - 1) * BatchSize
              /\ EndOf(l, b) \in ((b - 1) * BatchSize + 1)..l
<1> DEFINE q == BatchesOf(l)
<1>1. BatchSize \in Nat /\ BatchSize > 0
  BY SerialConstants
<1>2. q \in Nat /\ l <= q * BatchSize /\ (\A j \in 1..q : (j - 1) * BatchSize < l)
  BY <1>1, ChunkCount DEF BatchesOf
<1> HIDE DEF q
<1>3. l = 0 => q = 0
  <2>1. ASSUME l = 0, q # 0
        PROVE  FALSE
    <3>1. 1 \in 1..q /\ (1 - 1) * BatchSize = 0
      BY <1>1, <1>2, <2>1
    <3> QED
      BY <1>2, <2>1, <3>1
  <2> QED
    BY <2>1
<1>4. EndOf(l, 0) = 0
  <2>1. 0 * BatchSize = 0
    BY <1>1
  <2> QED
    BY <2>1 DEF EndOf
<1>5. EndOf(l, q) = l
  <2>1. q * BatchSize \in Nat
    BY <1>1, <1>2
  <2> QED
    BY <1>2, <2>1 DEF EndOf
<1>6. ASSUME NEW b \in 1..q
      PROVE  /\ (b - 1) * BatchSize \in Nat /\ EndOf(l, b - 1) = (b - 1) * BatchSize
             /\ EndOf(l, b) \in ((b - 1) * BatchSize + 1)..l
  <2>1. (b - 1) * BatchSize < l
    BY <1>2
  <2>2. b - 1 \in Nat /\ b \in Nat
    BY <1>2
  <2>3. (b - 1) * BatchSize \in Nat /\ b * BatchSize \in Nat
        /\ b * BatchSize = (b - 1) * BatchSize + BatchSize
    BY <1>1, <2>2
  <2> QED
    BY <1>1, <2>1, <2>3 DEF EndOf
<1> QED
  BY <1>2, <1>3, <1>4, <1>5, <1>6 DEF q

(* The turns of each tool.                                                 *)
FileTools == {"write", "upload", "place"}
TurnCount(n) ==
  CASE ToolOf(n) = "send" -> 1
    [] ToolOf(n) \in {"write", "place"} -> BatchesOf(serialCalls[n].lines) + 2
    [] OTHER -> BatchesOf(serialCalls[n].lines) + 3

TurnAt(n, at) ==
  LET q == BatchesOf(serialCalls[n].lines)
      t == ToolOf(n)
  IN  IF t = "send" THEN Turn("any", <<Cmd("user", n, 0)>>)
      ELSE IF at = 1 THEN Turn("any", <<>>)
      ELSE IF at <= q + 1 THEN Turn(IF t = "place" THEN "must" ELSE "batch", Batch(n, at - 1))
      ELSE IF at = q + 2 THEN
             CASE t = "write"   -> Turn("check", <<Cmd("count", n, 0)>>)
               [] t = "capture" -> Turn("run", <<Cmd("encode", n, 0)>>)
               [] OTHER         -> Turn("run", <<Cmd("decode", n, 0)>>)
      ELSE IF t = "upload" THEN Turn("check", <<Cmd("size", n, 0)>>)
      ELSE Turn("capture", <<Cmd("cat", n, 0)>>)

(* A call is of a tool, and of a file's lines if the tool types a file;    *)
(* only qemu_copy_file may give the file another name.                     *)
SerialCallSet == [tool : Tools, lines : SerialSizes \cup {0}, renamed : BOOLEAN]
CallFits(x) ==
  /\ x \in SerialCallSet
  /\ x.lines > 0 <=> x.tool \in FileTools
  /\ x.renamed => x.tool = "place"

LEMMA CallSizes ==
  ASSUME NEW x, CallFits(x)
  PROVE  x.lines \in Nat /\ x.tool \in Tools
<1>1. x.lines \in SerialSizes \cup {0} /\ x.tool \in Tools
  BY DEF CallFits, SerialCallSet
<1>2. \A l \in SerialSizes : l \in Nat
  BY SerialConstants
<1> QED
  BY <1>1, <1>2

LEMMA TurnsLaid ==
  ASSUME NEW n, CallFits(serialCalls[n])
  PROVE  /\ IsSeq(TurnsOf(n)) /\ Len(TurnsOf(n)) = TurnCount(n) /\ TurnCount(n) \in Nat \ {0}
         /\ \A at \in 1..TurnCount(n) : TurnsOf(n)[at] = TurnAt(n, at)
<1> DEFINE l == serialCalls[n].lines
           q == BatchesOf(l)
           Some(role) == Batches(n, role)
           One(role, do) == <<Turn(role, <<Cmd(do, n, 0)>>)>>
           Prompt == <<Turn("any", <<>>)>>
<1>1. l \in Nat /\ q \in Nat /\ (l = 0 => q = 0) /\ ToolOf(n) \in Tools
      /\ (l > 0 <=> ToolOf(n) \in FileTools)
  BY CallSizes, BatchFacts DEF CallFits, ToolOf
<1>2. ASSUME NEW role
      PROVE  /\ IsSeq(Some(role)) /\ Len(Some(role)) = q
             /\ \A b \in 1..q : Some(role)[b] = Turn(role, Batch(n, b))
  <2> DEFINE F(b) == Turn(role, Batch(n, b))
             S == {F(b) : b \in 1..q}
  <2>1. Some(role) = [b \in 1..q |-> F(b)]
    BY DEF Batches, BatchesOf
  <2> HIDE DEF F, q
  <2>2. [b \in 1..q |-> F(b)] \in Seq(S)
    <3>1. \A b \in 1..q : F(b) \in S
      OBVIOUS
    <3> HIDE DEF S
    <3> QED
      BY <1>1, <3>1, IsASeq
  <2>3. Len([b \in 1..q |-> F(b)]) = q
    BY <1>1
  <2> QED
    BY <2>1, <2>2, <2>3 DEF IsSeq, F
<1>3. IsSeq(Prompt) /\ Len(Prompt) = 1 /\ Prompt[1] = Turn("any", <<>>)
  BY ShortSeqs
<1>4. \A role, do : /\ IsSeq(One(role, do)) /\ Len(One(role, do)) = 1
                    /\ One(role, do)[1] = Turn(role, <<Cmd(do, n, 0)>>)
  BY ShortSeqs
<1>5. /\ ToolOf(n) = "write" => TurnsOf(n) = (Prompt \o Some("batch")) \o One("check", "count")
      /\ ToolOf(n) = "upload" =>
           TurnsOf(n) = ((Prompt \o Some("batch")) \o One("run", "decode")) \o One("check", "size")
      /\ ToolOf(n) = "capture" =>
           TurnsOf(n) = (Prompt \o One("run", "encode")) \o One("capture", "cat")
      /\ ToolOf(n) = "place" => TurnsOf(n) = (Prompt \o Some("must")) \o One("run", "decode")
      /\ ToolOf(n) = "send" => TurnsOf(n) = One("any", "user")
  BY DEF TurnsOf
<1> HIDE DEF q, Some, One, Prompt
<1>6. ASSUME NEW role
      PROVE  /\ IsSeq(Prompt \o Some(role)) /\ Len(Prompt \o Some(role)) = q + 1
             /\ (Prompt \o Some(role))[1] = Turn("any", <<>>)
             /\ \A at \in 2..(q + 1) : (Prompt \o Some(role))[at] = Turn(role, Batch(n, at - 1))
  <2> DEFINE u == Prompt \o Some(role)
  <2>1. /\ IsSeq(u) /\ Len(u) = 1 + q
        /\ \A i \in 1..(1 + q) : u[i] = IF i <= 1 THEN Prompt[i] ELSE Some(role)[i - 1]
    <3>1. IsSeq(Prompt) /\ IsSeq(Some(role)) /\ Len(Prompt) = 1 /\ Len(Some(role)) = q
      BY <1>2, <1>3
    <3>2. /\ IsSeq(u) /\ Len(u) = Len(Prompt) + Len(Some(role))
          /\ \A i \in 1..(Len(Prompt) + Len(Some(role))) :
               u[i] = IF i <= Len(Prompt) THEN Prompt[i] ELSE Some(role)[i - Len(Prompt)]
      BY <3>1, SeqsJoined
    <3> QED
      BY <3>1, <3>2
  <2> HIDE DEF u
  <2>2. u[1] = Turn("any", <<>>)
    BY <1>1, <1>3, <2>1
  <2>3. ASSUME NEW at \in 2..(q + 1)
        PROVE  u[at] = Turn(role, Batch(n, at - 1))
    <3>1. at \in 1..(1 + q) /\ ~(at <= 1) /\ at - 1 \in 1..q
      BY <1>1
    <3> QED
      BY <1>2, <2>1, <3>1
  <2> QED
    BY <1>1, <2>1, <2>2, <2>3 DEF u
<1>8. CASE ToolOf(n) = "write" \/ ToolOf(n) = "place"
  <2> DEFINE role == IF ToolOf(n) = "place" THEN "must" ELSE "batch"
             last == IF ToolOf(n) = "place" THEN Turn("run", <<Cmd("decode", n, 0)>>)
                     ELSE Turn("check", <<Cmd("count", n, 0)>>)
             s == Prompt \o Some(role)
  <2>1. /\ IsSeq(s) /\ Len(s) = q + 1 /\ s[1] = Turn("any", <<>>)
        /\ \A at \in 2..(q + 1) : s[at] = Turn(role, Batch(n, at - 1))
    <3> HIDE DEF role
    <3> QED
      BY <1>6
  <2>2. /\ IsSeq(TurnsOf(n)) /\ Len(TurnsOf(n)) = q + 2 /\ TurnsOf(n)[q + 2] = last
        /\ \A i \in 1..(q + 1) : TurnsOf(n)[i] = s[i]
    <3>1. Len(s) \in Nat /\ (q + 1) + 1 = q + 2
      BY <1>1, <2>1
    <3>2. CASE ToolOf(n) = "write"
      <4>1. TurnsOf(n) = s \o <<last>>
        BY <1>5, <3>2 DEF One
      <4> HIDE DEF s, last
      <4>2. /\ IsSeq(s \o <<last>>) /\ Len(s \o <<last>>) = (q + 1) + 1
            /\ (s \o <<last>>)[(q + 1) + 1] = last
            /\ \A i \in 1..(q + 1) : (s \o <<last>>)[i] = s[i]
        BY <2>1, <3>1, JoinedOne
      <4> QED
        BY <3>1, <4>1, <4>2
    <3>3. CASE ToolOf(n) = "place"
      <4>1. TurnsOf(n) = s \o <<last>>
        BY <1>5, <3>3 DEF One
      <4> HIDE DEF s, last
      <4>2. /\ IsSeq(s \o <<last>>) /\ Len(s \o <<last>>) = (q + 1) + 1
            /\ (s \o <<last>>)[(q + 1) + 1] = last
            /\ \A i \in 1..(q + 1) : (s \o <<last>>)[i] = s[i]
        BY <2>1, <3>1, JoinedOne
      <4> QED
        BY <3>1, <4>1, <4>2
    <3> QED
      BY <1>8, <3>2, <3>3
  <2>3. TurnCount(n) = q + 2
    BY <1>8 DEF TurnCount, q
  <2> HIDE DEF s
  <2>4. ASSUME NEW at \in 1..(q + 2)
        PROVE  TurnsOf(n)[at] = TurnAt(n, at)
    <3>1. CASE at = 1
      <4>1. 1 \in 1..(q + 1)
        BY <1>1
      <4> QED
        BY <1>8, <2>1, <2>2, <3>1, <4>1 DEF TurnAt
    <3>2. CASE at \in 2..(q + 1)
      <4>1. at \in 1..(q + 1) /\ at # 1 /\ at <= q + 1
        BY <1>1, <3>2
      <4>2. TurnAt(n, at) = Turn(role, Batch(n, at - 1))
        BY <1>8, <4>1 DEF TurnAt, q
      <4> QED
        BY <2>1, <2>2, <3>2, <4>1, <4>2
    <3>3. CASE at = q + 2
      <4>1. at # 1 /\ ~(at <= q + 1)
        BY <1>1, <3>3
      <4>2. TurnAt(n, at) = last
        BY <1>8, <3>3, <4>1 DEF TurnAt, q
      <4> QED
        BY <2>2, <3>3, <4>2
    <3> QED
      BY <1>1, <3>1, <3>2, <3>3
  <2> QED
    BY <1>1, <2>2, <2>3, <2>4
<1>9. CASE ToolOf(n) = "upload"
  <2> DEFINE s == Prompt \o Some("batch")
             d == Turn("run", <<Cmd("decode", n, 0)>>)
             z == Turn("check", <<Cmd("size", n, 0)>>)
             v == s \o <<d>>
  <2>1. /\ IsSeq(s) /\ Len(s) = q + 1 /\ s[1] = Turn("any", <<>>)
        /\ \A at \in 2..(q + 1) : s[at] = Turn("batch", Batch(n, at - 1))
    BY <1>6
  <2>2. /\ TurnsOf(n) = v \o <<z>>
        /\ (q + 1) + 1 = q + 2 /\ (q + 2) + 1 = q + 3 /\ q + 1 \in Nat /\ q + 2 \in Nat
    BY <1>1, <1>5, <1>9 DEF One
  <2> HIDE DEF s, d, z
  <2>3. /\ IsSeq(v) /\ Len(v) = (q + 1) + 1 /\ v[(q + 1) + 1] = d
        /\ \A i \in 1..(q + 1) : v[i] = s[i]
    BY <2>1, <2>2, JoinedOne
  <2>4. /\ IsSeq(TurnsOf(n)) /\ Len(TurnsOf(n)) = q + 3 /\ TurnsOf(n)[q + 3] = z
        /\ \A i \in 1..(q + 2) : TurnsOf(n)[i] = v[i]
    <3>1. IsSeq(v) /\ Len(v) = q + 2
      BY <2>2, <2>3
    <3> HIDE DEF v
    <3>2. /\ IsSeq(v \o <<z>>) /\ Len(v \o <<z>>) = (q + 2) + 1 /\ (v \o <<z>>)[(q + 2) + 1] = z
          /\ \A i \in 1..(q + 2) : (v \o <<z>>)[i] = v[i]
      BY <2>2, <3>1, JoinedOne
    <3> QED
      BY <2>2, <3>2
  <2> HIDE DEF v
  <2>5. TurnCount(n) = q + 3
    BY <1>9 DEF TurnCount, q
  <2>6. ASSUME NEW at \in 1..(q + 3)
        PROVE  TurnsOf(n)[at] = TurnAt(n, at)
    <3>1. CASE at = 1
      <4>1. 1 \in 1..(q + 1) /\ 1 \in 1..(q + 2)
        BY <1>1
      <4> QED
        BY <1>9, <2>1, <2>3, <2>4, <3>1, <4>1 DEF TurnAt
    <3>2. CASE at \in 2..(q + 1)
      <4>1. at \in 1..(q + 1) /\ at \in 1..(q + 2) /\ at # 1 /\ at <= q + 1
        BY <1>1, <3>2
      <4>2. TurnAt(n, at) = Turn("batch", Batch(n, at - 1))
        BY <1>9, <4>1 DEF TurnAt, q
      <4> QED
        BY <2>1, <2>3, <2>4, <3>2, <4>1, <4>2
    <3>3. CASE at = q + 2
      <4>1. at # 1 /\ ~(at <= q + 1) /\ at \in 1..(q + 2)
        BY <1>1, <3>3
      <4>2. TurnAt(n, at) = d
        BY <1>9, <3>3, <4>1 DEF TurnAt, q, d
      <4> QED
        BY <2>2, <2>3, <2>4, <3>3, <4>1, <4>2
    <3>4. CASE at = q + 3
      <4>1. at # 1 /\ ~(at <= q + 1) /\ at # q + 2
        BY <1>1, <3>4
      <4>2. TurnAt(n, at) = z
        BY <1>9, <3>4, <4>1 DEF TurnAt, q, z
      <4> QED
        BY <2>4, <3>4, <4>2
    <3> QED
      BY <1>1, <3>1, <3>2, <3>3, <3>4
  <2> QED
    BY <1>1, <2>4, <2>5, <2>6
<1>10. CASE ToolOf(n) = "capture"
  <2> DEFINE e == Turn("run", <<Cmd("encode", n, 0)>>)
             z == Turn("capture", <<Cmd("cat", n, 0)>>)
             v == Prompt \o <<e>>
  <2>1. q = 0 /\ TurnsOf(n) = v \o <<z>> /\ TurnCount(n) = 3
    <3>1. q = 0
      BY <1>1, <1>10 DEF FileTools
    <3>2. TurnsOf(n) = v \o <<z>>
      BY <1>5, <1>10 DEF One
    <3> QED
      BY <1>10, <3>1, <3>2 DEF TurnCount, q
  <2> HIDE DEF e, z
  <2>2. IsSeq(v) /\ Len(v) = 2 /\ v[2] = e /\ v[1] = Turn("any", <<>>)
    <3> DEFINE m == 1
    <3>1. m \in Nat /\ m + 1 = 2 /\ 1 \in 1..m /\ Len(Prompt) = m
      BY <1>3
    <3> HIDE DEF m
    <3>2. /\ IsSeq(v) /\ Len(v) = m + 1 /\ v[m + 1] = e
          /\ \A i \in 1..m : v[i] = Prompt[i]
      BY <1>3, <3>1, JoinedOne
    <3> QED
      BY <1>3, <3>1, <3>2
  <2> HIDE DEF v
  <2>3. /\ IsSeq(TurnsOf(n)) /\ Len(TurnsOf(n)) = 3 /\ TurnsOf(n)[3] = z
        /\ TurnsOf(n)[1] = v[1] /\ TurnsOf(n)[2] = v[2]
    <3> DEFINE m == 2
    <3>1. m \in Nat /\ m + 1 = 3 /\ 1 \in 1..m /\ 2 \in 1..m /\ Len(v) = m
      BY <2>2
    <3> HIDE DEF m
    <3>2. /\ IsSeq(v \o <<z>>) /\ Len(v \o <<z>>) = m + 1 /\ (v \o <<z>>)[m + 1] = z
          /\ \A i \in 1..m : (v \o <<z>>)[i] = v[i]
      BY <2>2, <3>1, JoinedOne
    <3> QED
      BY <2>1, <3>1, <3>2
  <2>4. /\ TurnAt(n, 1) = Turn("any", <<>>)
        /\ TurnAt(n, 2) = e /\ TurnAt(n, 3) = z
    BY <1>10, <2>1 DEF TurnAt, q, e, z
  <2>5. ASSUME NEW at \in 1..3
        PROVE  TurnsOf(n)[at] = TurnAt(n, at)
    BY <2>2, <2>3, <2>4
  <2> QED
    BY <2>1, <2>3, <2>5
<1>11. CASE ToolOf(n) = "send"
  <2>1. TurnsOf(n) = One("any", "user") /\ TurnCount(n) = 1
    BY <1>5, <1>11 DEF TurnCount
  <2>2. \A at \in 1..1 : TurnsOf(n)[at] = TurnAt(n, at)
    BY <1>4, <1>11, <2>1 DEF TurnAt
  <2> QED
    BY <1>4, <2>1, <2>2
<1> QED
  BY <1>1, <1>8, <1>9, <1>10, <1>11 DEF Tools
-----------------------------------------------------------------------------
(* SessionSerial: what a turn types.                                       *)

(* The commands of a tool.                                                 *)
DoesOf(t) ==
  CASE t = "write"   -> {"line", "mark", "count"}
    [] t = "upload"  -> {"line", "mark", "decode", "size"}
    [] t = "place"   -> {"line", "mark", "decode"}
    [] t = "capture" -> {"encode", "cat"}
    [] OTHER         -> {"user"}
Proper(calls, c) ==
  /\ c.of \in 1..Len(calls) /\ c.do \in DoesOf(calls[c.of].tool)
  /\ c.do = "line" => c.at \in 1..calls[c.of].lines
  /\ c.do = "cat" => c.at = 0

(* How many commands of a script have places.                              *)
CommandCount(n) ==
  CASE ToolOf(n) = "send" -> 0
    [] ToolOf(n) \in {"write", "place"} -> serialCalls[n].lines + 1
    [] OTHER -> serialCalls[n].lines + 2

LEMMA TypedIn ==
  ASSUME NEW n, CallFits(serialCalls[n])
  PROVE  LET l == serialCalls[n].lines
             q == BatchesOf(l)
         IN  /\ l \in Nat /\ q \in Nat
             /\ TypedBy(l, 0) = 0 /\ TypedBy(l, 1) = 0 /\ TypedBy(l, q + 1) = l
             /\ \A b \in 1..q : /\ TypedBy(l, b) = (b - 1) * BatchSize
                                /\ (b - 1) * BatchSize \in Nat
                                /\ TypedBy(l, b + 1) = EndOf(l, b)
                                /\ EndOf(l, b) \in ((b - 1) * BatchSize + 1)..l
             /\ TypedBy(l, q + 2) = l + 1 /\ TypedBy(l, q + 3) = l + 2
             /\ ToolOf(n) = "send" => l = 0 /\ q = 0
             /\ TypedBy(l, TurnCount(n)) = CommandCount(n) /\ CommandCount(n) \in Nat
<1> DEFINE l == serialCalls[n].lines
           q == BatchesOf(l)
<1>1. l \in Nat /\ ToolOf(n) \in Tools /\ (l > 0 <=> ToolOf(n) \in FileTools)
  BY CallSizes DEF CallFits, ToolOf
<1>2. /\ q \in Nat /\ (l = 0 => q = 0)
      /\ EndOf(l, 0) = 0 /\ EndOf(l, q) = l
      /\ \A b \in 1..q :
           /\ (b - 1) * BatchSize \in Nat /\ EndOf(l, b - 1) = (b - 1) * BatchSize
           /\ EndOf(l, b) \in ((b - 1) * BatchSize + 1)..l
  BY <1>1, BatchFacts
<1> HIDE DEF q
<1>3. \A t \in Nat : TypedBy(l, t) = IF t = 0 THEN 0 ELSE IF t <= q + 1 THEN EndOf(l, t - 1)
                                     ELSE l + t - q - 1
  BY DEF TypedBy, q
<1> HIDE DEF l
<1>4. TypedBy(l, 0) = 0 /\ TypedBy(l, 1) = 0 /\ TypedBy(l, q + 1) = l
  <2>1. q + 1 \in Nat /\ q + 1 # 0 /\ (q + 1) - 1 = q /\ 1 - 1 = 0 /\ 1 <= q + 1
    BY <1>2
  <2> QED
    BY <1>2, <1>3, <2>1
<1>5. TypedBy(l, q + 2) = l + 1 /\ TypedBy(l, q + 3) = l + 2
  BY <1>1, <1>2, <1>3
<1>6. ASSUME NEW b \in 1..q
      PROVE  TypedBy(l, b) = (b - 1) * BatchSize /\ TypedBy(l, b + 1) = EndOf(l, b)
  <2>1. b \in Nat /\ b # 0 /\ b <= q + 1 /\ b + 1 \in Nat /\ b + 1 # 0 /\ b + 1 <= q + 1
        /\ (b + 1) - 1 = b
    BY <1>2
  <2> QED
    BY <1>2, <1>3, <2>1
<1>7. ToolOf(n) = "send" => l = 0 /\ q = 0
  BY <1>1, <1>2 DEF FileTools
<1>8. TypedBy(l, TurnCount(n)) = CommandCount(n) /\ CommandCount(n) \in Nat
  <2>1. CASE ToolOf(n) = "send"
    BY <1>4, <2>1 DEF TurnCount, CommandCount
  <2>2. CASE ToolOf(n) # "send"
    <3>1. TurnCount(n) = IF ToolOf(n) \in {"write", "place"} THEN q + 2 ELSE q + 3
      BY <2>2 DEF TurnCount, q, l
    <3>2. CommandCount(n) = IF ToolOf(n) \in {"write", "place"} THEN l + 1 ELSE l + 2
      BY <2>2 DEF CommandCount, l
    <3> QED
      BY <1>1, <1>5, <3>1, <3>2
  <2> QED
    BY <2>1, <2>2
<1> QED
  BY <1>1, <1>2, <1>4, <1>5, <1>6, <1>7, <1>8 DEF q, l

(* A turn types the commands whose turn it is, in order.                   *)
LEMMA TurnTypes ==
  ASSUME NEW n \in 1..MaxSerialCalls, n = Len(serialCalls), CallFits(serialCalls[n]),
         NEW at \in 1..TurnCount(n)
  PROVE  LET cmds == TurnAt(n, at).cmds
             l == serialCalls[n].lines
         IN  /\ cmds \in Seq(SerialCommands)
             /\ \A i \in DOMAIN cmds : cmds[i].of = n /\ Proper(serialCalls, cmds[i])
             /\ TypedBy(l, at - 1) \in Nat /\ TypedBy(l, at) \in Nat
             /\ TypedBy(l, at - 1) <= TypedBy(l, at) /\ TypedBy(l, at) <= CommandCount(n)
             /\ Ordered(serialCalls, cmds, TypedBy(l, at - 1), TypedBy(l, at))
<1> DEFINE l == serialCalls[n].lines
           q == BatchesOf(l)
           cmds == TurnAt(n, at).cmds
           t == ToolOf(n)
<1>1. /\ l \in Nat /\ q \in Nat /\ TypedBy(l, 0) = 0 /\ TypedBy(l, 1) = 0
      /\ TypedBy(l, q + 1) = l
      /\ \A b \in 1..q : /\ TypedBy(l, b) = (b - 1) * BatchSize
                         /\ (b - 1) * BatchSize \in Nat
                         /\ TypedBy(l, b + 1) = EndOf(l, b)
                         /\ EndOf(l, b) \in ((b - 1) * BatchSize + 1)..l
      /\ TypedBy(l, q + 2) = l + 1 /\ TypedBy(l, q + 3) = l + 2
      /\ t = "send" => l = 0 /\ q = 0
      /\ CommandCount(n) \in Nat
  BY TypedIn
<1>2. /\ t \in Tools /\ TurnCount(n) = IF t = "send" THEN 1
                                       ELSE IF t \in {"write", "place"} THEN q + 2 ELSE q + 3
      /\ CommandCount(n) = IF t = "send" THEN 0
                           ELSE IF t \in {"write", "place"} THEN l + 1 ELSE l + 2
      /\ (l > 0 <=> t \in FileTools)
  BY CallSizes DEF TurnCount, CommandCount, ToolOf, CallFits
<1>3. n = Len(serialCalls) /\ n \in Nat /\ n >= 1 /\ n \in 1..Len(serialCalls)
  BY SerialConstants
<1>4. ASSUME NEW m \in Nat
      PROVE  Ordered(serialCalls, <<>>, m, m)
  <2>1. DOMAIN <<>> = {} /\ (m + 1)..m = {}
    OBVIOUS
  <2> QED
    BY <2>1 DEF Ordered
<1>5. ASSUME NEW c, c.of = n, NEW m \in Nat
      PROVE  /\ PlaceOf(serialCalls, c) = m + 1 => Ordered(serialCalls, <<c>>, m, m + 1)
             /\ PlaceOf(serialCalls, c) = 0 => Ordered(serialCalls, <<c>>, m, m)
  <2> DEFINE s == <<c>>
  <2>1. DOMAIN s = {1} /\ s[1] = c /\ (m + 1)..m = {} /\ (m + 1)..(m + 1) = {m + 1}
        /\ m + 1 > 0
    OBVIOUS
  <2> HIDE DEF s
  <2>2. \A i \in DOMAIN s : s[i] = c /\ i = 1
    BY <2>1
  <2>3. \A i, j \in DOMAIN s : ~(i < j)
    BY <2>2
  <2>4. \A i \in DOMAIN s : s[i].of = Len(serialCalls)
    BY <1>3, <1>5, <2>2
  <2>5. ASSUME PlaceOf(serialCalls, c) = m + 1
        PROVE  Ordered(serialCalls, s, m, m + 1)
    <3>1. \A i \in DOMAIN s : OfLatest(serialCalls, s[i]) /\ PlaceOf(serialCalls, s[i]) = m + 1
      BY <2>1, <2>2, <2>4, <2>5 DEF OfLatest
    <3>2. 1 \in DOMAIN s
      BY <2>1
    <3> QED
      BY <2>1, <2>3, <2>4, <3>1, <3>2 DEF Ordered
  <2>6. ASSUME PlaceOf(serialCalls, c) = 0
        PROVE  Ordered(serialCalls, s, m, m)
    <3>1. \A i \in DOMAIN s : ~OfLatest(serialCalls, s[i])
      BY <2>2, <2>6 DEF OfLatest
    <3> QED
      BY <2>1, <2>3, <2>4, <3>1 DEF Ordered
  <2> QED
    BY <2>5, <2>6 DEF s
<1>6. ASSUME NEW c, c \in SerialCommands, c.of = n, Proper(serialCalls, c)
      PROVE  /\ <<c>> \in Seq(SerialCommands)
             /\ \A i \in DOMAIN <<c>> : <<c>>[i].of = n /\ Proper(serialCalls, <<c>>[i])
  <2>1. DOMAIN <<c>> = {1} /\ <<c>>[1] = c
    OBVIOUS
  <2>2. <<c>> \in Seq(SerialCommands)
    BY <1>6
  <2> QED
    BY <1>6, <2>1, <2>2
(* One command, with the next place or with none.                          *)
<1>7. ASSUME NEW do, do \in {"count", "decode", "size", "encode", "cat", "user"},
             do \in DoesOf(t)
      PROVE  LET c == Cmd(do, n, 0)
             IN  /\ c.of = n /\ c.do = do /\ c \in SerialCommands /\ Proper(serialCalls, c)
                 /\ do \in {"count", "decode", "encode"} => PlaceOf(serialCalls, c) = l + 1
                 /\ do \in {"size", "cat"} => PlaceOf(serialCalls, c) = l + 2
                 /\ do = "user" => PlaceOf(serialCalls, c) = 0
  <2> DEFINE c == Cmd(do, n, 0)
  <2>1. c.of = n /\ c.do = do /\ c.at = 0
    BY DEF Cmd
  <2>2. c \in SerialCommands
    BY <1>7 DEF Cmd, SerialCommands
  <2> HIDE DEF c
  <2>3. Proper(serialCalls, c)
    BY <1>3, <1>7, <2>1 DEF Proper, ToolOf
  <2>4. /\ do \in {"count", "decode", "encode"} => PlaceOf(serialCalls, c) = l + 1
        /\ do \in {"size", "cat"} => PlaceOf(serialCalls, c) = l + 2
        /\ do = "user" => PlaceOf(serialCalls, c) = 0
    BY <1>7, <2>1 DEF PlaceOf
  <2> QED
    BY <2>1, <2>2, <2>3, <2>4 DEF c
<1> HIDE DEF q, l
<1>8. CASE t # "send" /\ at = 1
  <2>1. cmds = <<>>
    BY <1>8 DEF TurnAt, Turn
  <2>2. /\ TypedBy(l, at - 1) = 0 /\ TypedBy(l, at) = 0
        /\ 0 \in Nat /\ 0 <= 0 /\ 0 <= CommandCount(n)
    BY <1>1, <1>8
  <2>3. cmds \in Seq(SerialCommands) /\ DOMAIN cmds = {}
    BY <2>1
  <2>4. Ordered(serialCalls, <<>>, 0, 0)
    BY <1>4, <2>2
  <2> HIDE DEF cmds
  <2> QED
    BY <2>1, <2>2, <2>3, <2>4 DEF l, cmds
<1>9. CASE t = "send"
  <2> DEFINE c == Cmd("user", n, 0)
  <2>1. cmds = <<c>> /\ at = 1
    BY <1>2, <1>9 DEF TurnAt, Turn
  <2>2. "user" \in DoesOf(t)
    BY <1>9 DEF DoesOf
  <2>3. /\ c.of = n /\ c \in SerialCommands /\ Proper(serialCalls, c)
        /\ PlaceOf(serialCalls, c) = 0
    BY <1>7, <2>2
  <2> HIDE DEF c
  <2>4. /\ TypedBy(l, at - 1) = 0 /\ TypedBy(l, at) = 0
        /\ 0 \in Nat /\ 0 <= 0 /\ 0 <= CommandCount(n)
    BY <1>1, <2>1
  <2>5. Ordered(serialCalls, <<c>>, 0, 0)
    BY <1>5, <2>3, <2>4
  <2>6. /\ <<c>> \in Seq(SerialCommands)
        /\ \A i \in DOMAIN <<c>> : <<c>>[i].of = n /\ Proper(serialCalls, <<c>>[i])
    BY <1>6, <2>3
  <2> HIDE DEF cmds
  <2> QED
    BY <2>1, <2>4, <2>5, <2>6 DEF l, cmds
<1>10. CASE t # "send" /\ at \in 2..(q + 1)
  <2> DEFINE b == at - 1
             low == (b - 1) * BatchSize
             last == EndOf(l, b)
             F(i) == Cmd("line", n, low + i)
             body == [i \in 1..(last - low) |-> F(i)]
             mark == Cmd("mark", n, b)
  <2>1. b \in 1..q /\ at # 1 /\ at <= q + 1 /\ at = b + 1
    BY <1>1, <1>10
  <2>2. cmds = body \o <<mark>>
    <3>1. cmds = Batch(n, b)
      BY <1>10, <2>1 DEF TurnAt, Turn, q, l
    <3> QED
      BY <3>1 DEF Batch, EndOf, l
  <2>3. /\ TypedBy(l, at - 1) = low /\ TypedBy(l, at) = last
        /\ low \in Nat /\ last \in (low + 1)..l
    BY <1>1, <2>1
  <2>4. b \in Nat
    BY <1>1, <2>1
  <2> HIDE DEF low, last, b, cmds
  <2>5. "line" \in DoesOf(t) /\ "mark" \in DoesOf(t)
    <3>1. l > 0
      BY <1>1, <2>3
    <3>2. t \in FileTools
      BY <1>2, <3>1 DEF l
    <3> QED
      BY <3>2 DEF DoesOf, FileTools
  <2>6. ASSUME NEW i \in 1..(last - low)
        PROVE  /\ F(i) \in SerialCommands /\ F(i).of = n /\ Proper(serialCalls, F(i))
               /\ PlaceOf(serialCalls, F(i)) = low + i
    <3>1. F(i).of = n /\ F(i).do = "line" /\ F(i).at = low + i
      BY DEF Cmd
    <3>2. low + i \in Nat /\ low + i \in 1..l
      BY <1>1, <2>3
    <3>3. F(i) \in SerialCommands
      BY <3>2 DEF Cmd, SerialCommands
    <3> HIDE DEF F
    <3>4. Proper(serialCalls, F(i))
      BY <1>3, <2>5, <3>1, <3>2 DEF Proper, ToolOf, l
    <3>5. PlaceOf(serialCalls, F(i)) = low + i
      BY <3>1 DEF PlaceOf
    <3> QED
      BY <3>1, <3>3, <3>4, <3>5
  <2>7. /\ mark \in SerialCommands /\ mark.of = n /\ Proper(serialCalls, mark)
        /\ PlaceOf(serialCalls, mark) = 0
    <3>1. mark.of = n /\ mark.do = "mark"
      BY DEF Cmd
    <3>2. mark \in SerialCommands
      BY <2>4 DEF Cmd, SerialCommands
    <3> HIDE DEF mark
    <3>3. Proper(serialCalls, mark)
      BY <1>3, <2>5, <3>1 DEF Proper, ToolOf
    <3> QED
      BY <3>1, <3>2, <3>3 DEF PlaceOf
  <2> HIDE DEF mark
  <2>8. last - low \in Nat
    BY <2>3
  <2>9. body \in Seq(SerialCommands) /\ Len(body) = last - low
    <3>1. \A i \in 1..(last - low) : F(i) \in SerialCommands
      BY <2>6
    <3> HIDE DEF F
    <3> QED
      BY <2>8, <3>1, IsASeq
  <2>10. \A i \in 1..(last - low) : body[i] = F(i)
    OBVIOUS
  <2> HIDE DEF body, F
  <2> DEFINE e == last - low
  <2>11. /\ cmds \in Seq(SerialCommands) /\ DOMAIN cmds = 1..(e + 1)
         /\ \A i \in 1..e : cmds[i] = F(i)
         /\ cmds[e + 1] = mark
    <3>1. IsSeq(body)
      BY <2>9 DEF IsSeq
    <3>2. /\ IsSeq(cmds) /\ Len(cmds) = e + 1 /\ cmds[e + 1] = mark
          /\ \A i \in 1..e : cmds[i] = body[i]
      BY <2>2, <2>8, <2>9, <3>1, JoinedOne
    <3>3. cmds \in Seq(SerialCommands)
      <4>1. <<mark>> \in Seq(SerialCommands)
        BY <2>7
      <4> QED
        BY <2>2, <2>9, <4>1, ConcatProperties
    <3> QED
      BY <2>10, <3>2, <3>3, LenProperties
  <2> HIDE DEF e
  <2>12. e \in Nat /\ last = low + e /\ e = last - low
    BY <2>3, <2>8 DEF e
  <2>13. ASSUME NEW i \in DOMAIN cmds
         PROVE  \/ i \in 1..e /\ cmds[i] = F(i)
                \/ i = e + 1 /\ cmds[i] = mark
    BY <2>11, <2>12
  <2>14. \A i \in DOMAIN cmds : cmds[i].of = n /\ Proper(serialCalls, cmds[i])
    BY <2>6, <2>7, <2>12, <2>13
  <2>15. Ordered(serialCalls, cmds, low, last)
    <3>1. \A i \in DOMAIN cmds :
            OfLatest(serialCalls, cmds[i]) <=> i \in 1..e
      <4>1. ASSUME NEW i \in 1..e
            PROVE  i \in DOMAIN cmds /\ PlaceOf(serialCalls, cmds[i]) = low + i /\ low + i > 0
        BY <2>3, <2>6, <2>11, <2>12
      <4>2. e + 1 \notin 1..e /\ ~(PlaceOf(serialCalls, mark) > 0)
        BY <2>7, <2>12
      <4> QED
        BY <1>3, <2>13, <2>14, <4>1, <4>2 DEF OfLatest
    <3>2. \A i \in 1..e : i \in DOMAIN cmds /\ PlaceOf(serialCalls, cmds[i]) = low + i
      BY <2>6, <2>11, <2>12
    <3>3. \A i \in 1..e : low + i \in (low + 1)..last
      BY <2>3, <2>12
    <3>4. \A i, j \in 1..e : i < j => low + i < low + j
      BY <2>3, <2>12
    <3>5. ASSUME NEW r \in (low + 1)..last
          PROVE  r - low \in 1..e /\ low + (r - low) = r
      BY <2>3, <2>12
    <3>6. \A i \in DOMAIN cmds : cmds[i].of = Len(serialCalls)
      BY <1>3, <2>14
    <3>7. \A i \in DOMAIN cmds : OfLatest(serialCalls, cmds[i]) =>
            PlaceOf(serialCalls, cmds[i]) \in (low + 1)..last
      BY <3>1, <3>2, <3>3
    <3>8. \A i, j \in DOMAIN cmds :
            i < j /\ OfLatest(serialCalls, cmds[i]) /\ OfLatest(serialCalls, cmds[j]) =>
              PlaceOf(serialCalls, cmds[i]) < PlaceOf(serialCalls, cmds[j])
      BY <3>1, <3>2, <3>4
    <3>9. \A r \in (low + 1)..last :
            \E i \in DOMAIN cmds : OfLatest(serialCalls, cmds[i]) /\ PlaceOf(serialCalls, cmds[i]) = r
      <4>1. ASSUME NEW r \in (low + 1)..last
            PROVE  \E i \in DOMAIN cmds :
                      OfLatest(serialCalls, cmds[i]) /\ PlaceOf(serialCalls, cmds[i]) = r
        BY <3>1, <3>2, <3>5
      <4> QED
        BY <4>1
    <3> QED
      BY <3>6, <3>7, <3>8, <3>9 DEF Ordered
  <2>16. low <= last /\ last \in Nat /\ last <= CommandCount(n)
    BY <1>1, <1>2, <1>10, <2>3 DEF l
  <2> QED
    BY <2>3, <2>11, <2>14, <2>15, <2>16 DEF l, cmds
<1>11. CASE t # "send" /\ at = q + 2
  <2> DEFINE do == IF t = "write" THEN "count" ELSE IF t = "capture" THEN "encode" ELSE "decode"
             c == Cmd(do, n, 0)
  <2>1. cmds = <<c>>
    <3>1. at # 1 /\ ~(at <= q + 1)
      BY <1>1, <1>11
    <3> QED
      BY <1>2, <1>11, <3>1 DEF TurnAt, Turn, q, l
  <2>2. do \in DoesOf(t) /\ do \in {"count", "decode", "encode"}
    BY <1>2, <1>11 DEF DoesOf, Tools
  <2> HIDE DEF do
  <2>3. /\ c.of = n /\ c \in SerialCommands /\ Proper(serialCalls, c)
        /\ PlaceOf(serialCalls, c) = l + 1
    BY <1>7, <2>2 DEF l
  <2> HIDE DEF c
  <2>4. TypedBy(l, at - 1) = l /\ TypedBy(l, at) = l + 1 /\ l + 1 <= CommandCount(n)
    <3>1. at - 1 = q + 1
      BY <1>1, <1>11
    <3> QED
      BY <1>1, <1>2, <1>11, <3>1 DEF l
  <2>5. Ordered(serialCalls, <<c>>, l, l + 1)
    BY <1>1, <1>5, <2>3
  <2>6. /\ <<c>> \in Seq(SerialCommands)
        /\ \A i \in DOMAIN <<c>> : <<c>>[i].of = n /\ Proper(serialCalls, <<c>>[i])
    BY <1>6, <2>3
  <2>7. l \in Nat /\ l + 1 \in Nat /\ l <= l + 1
    BY <1>1
  <2> HIDE DEF cmds
  <2> QED
    BY <2>1, <2>4, <2>5, <2>6, <2>7 DEF l, cmds
<1>12. CASE t # "send" /\ at = q + 3
  <2> DEFINE do == IF t = "upload" THEN "size" ELSE "cat"
             c == Cmd(do, n, 0)
  <2>1. cmds = <<c>>
    <3>1. at # 1 /\ ~(at <= q + 1) /\ at # q + 2
      BY <1>1, <1>12
    <3> QED
      BY <1>12, <3>1 DEF TurnAt, Turn, q, l
  <2>2. t \in {"upload", "capture"}
    <3>1. TurnCount(n) = q + 3
      BY <1>1, <1>2, <1>12
    <3>2. t \notin {"write", "place"}
      BY <1>1, <1>2, <3>1
    <3> QED
      BY <1>2, <1>12, <3>2 DEF Tools
  <2>3. do \in DoesOf(t) /\ do \in {"size", "cat"}
    BY <2>2 DEF DoesOf
  <2> HIDE DEF do
  <2>4. /\ c.of = n /\ c \in SerialCommands /\ Proper(serialCalls, c)
        /\ PlaceOf(serialCalls, c) = (l + 1) + 1
    <3>1. /\ c.of = n /\ c \in SerialCommands /\ Proper(serialCalls, c)
          /\ PlaceOf(serialCalls, c) = l + 2
      BY <1>7, <2>3 DEF l
    <3> QED
      BY <1>1, <3>1
  <2> HIDE DEF c
  <2>5. TypedBy(l, at - 1) = l + 1 /\ TypedBy(l, at) = (l + 1) + 1
        /\ (l + 1) + 1 <= CommandCount(n)
    <3>1. at - 1 = q + 2
      BY <1>1, <1>12
    <3> QED
      BY <1>1, <1>2, <1>12, <2>2, <3>1 DEF l
  <2>6. l + 1 \in Nat /\ (l + 1) + 1 \in Nat /\ l + 1 <= (l + 1) + 1
    BY <1>1
  <2>7. Ordered(serialCalls, <<c>>, l + 1, (l + 1) + 1)
    BY <1>5, <2>4, <2>6
  <2>8. /\ <<c>> \in Seq(SerialCommands)
        /\ \A i \in DOMAIN <<c>> : <<c>>[i].of = n /\ Proper(serialCalls, <<c>>[i])
    BY <1>6, <2>4
  <2> HIDE DEF cmds
  <2> QED
    BY <2>1, <2>5, <2>6, <2>7, <2>8 DEF l, cmds
<1> QED
  <2>1. t = "send" \/ at = 1 \/ at \in 2..(q + 1) \/ at = q + 2 \/ at = q + 3
    BY <1>1, <1>2
  <2> QED
    BY <1>8, <1>9, <1>10, <1>11, <1>12, <2>1
-----------------------------------------------------------------------------
(* SessionSerial: queues.                                                  *)

LEMMA ShiftOne ==
  ASSUME NEW S, NEW s \in Seq(S), NEW t \in Seq(S), t # <<>>
  PROVE  Append(s, Head(t)) \o Tail(t) = s \o t
<1> DEFINE x == Append(s, Head(t))
           v == Tail(t)
           n == Len(s)
           m == Len(t)
<1>1. /\ Head(t) \in S /\ v \in Seq(S) /\ Len(v) = m - 1
      /\ (\A i \in 1..Len(v) : v[i] = t[i + 1]) /\ Head(t) = t[1]
  BY HeadTailProperties
<1>2. n \in Nat /\ m \in Nat \ {0}
  BY LenProperties, EmptySeq
<1>3. /\ x \in Seq(S) /\ Len(x) = n + 1 /\ x[n + 1] = t[1]
      /\ \A i \in 1..n : x[i] = s[i]
  <2>1. /\ x \in Seq(S) /\ Len(x) = n + 1 /\ x[n + 1] = Head(t)
        /\ \A i \in 1..n : x[i] = s[i]
    BY <1>1, AppendProperties
  <2> QED
    BY <1>1, <2>1
<1> HIDE DEF x, v
<1>4. /\ x \o v \in Seq(S) /\ Len(x \o v) = Len(x) + Len(v)
      /\ \A i \in 1..(Len(x) + Len(v)) : (x \o v)[i] = IF i <= Len(x) THEN x[i] ELSE v[i - Len(x)]
  BY <1>1, <1>3, ConcatProperties
<1>5. /\ s \o t \in Seq(S) /\ Len(s \o t) = n + m
      /\ \A i \in 1..(n + m) : (s \o t)[i] = IF i <= n THEN s[i] ELSE t[i - n]
  BY ConcatProperties
<1> HIDE DEF n, m
<1>6. Len(x) + Len(v) = n + m
  BY <1>1, <1>2, <1>3
<1>7. ASSUME NEW i \in 1..(n + m)
      PROVE  (x \o v)[i] = (s \o t)[i]
  <2>1. CASE i <= n
    <3>1. i <= Len(x) /\ i \in 1..n
      BY <1>2, <1>3, <2>1
    <3> QED
      BY <1>3, <1>4, <1>5, <1>6, <2>1, <3>1
  <2>2. CASE i = n + 1
    <3>1. i <= Len(x) /\ ~(i <= n) /\ i - n = 1
      BY <1>2, <1>3, <2>2
    <3> QED
      BY <1>3, <1>4, <1>5, <1>6, <2>2, <3>1
  <2>3. CASE i > n + 1
    <3>1. /\ ~(i <= Len(x)) /\ ~(i <= n) /\ i - Len(x) = (i - n) - 1
          /\ (i - n) - 1 \in 1..Len(v) /\ ((i - n) - 1) + 1 = i - n
      BY <1>1, <1>2, <1>3, <2>3
    <3> QED
      BY <1>1, <1>4, <1>5, <1>6, <3>1
  <2>4. i <= n \/ i = n + 1 \/ i > n + 1
    BY <1>2
  <2> QED
    BY <2>1, <2>2, <2>3, <2>4
<1>8. x \o v = s \o t
  BY <1>4, <1>5, <1>6, <1>7, SeqEqual
<1> QED
  BY <1>8 DEF x, v

LEMMA HeadOfJoined ==
  ASSUME NEW S, NEW s \in Seq(S), NEW t \in Seq(S), s # <<>>
  PROVE  s \o t # <<>> /\ Head(s \o t) = Head(s) /\ Tail(s \o t) = Tail(s) \o t
<1> DEFINE n == Len(s)
           m == Len(t)
           u == s \o t
           v == Tail(s)
<1>1. /\ v \in Seq(S) /\ Len(v) = n - 1
      /\ (\A i \in 1..Len(v) : v[i] = s[i + 1]) /\ Head(s) = s[1]
  BY HeadTailProperties
<1>2. n \in Nat \ {0} /\ m \in Nat
  BY LenProperties, EmptySeq
<1>3. /\ u \in Seq(S) /\ Len(u) = n + m
      /\ \A i \in 1..(n + m) : u[i] = IF i <= n THEN s[i] ELSE t[i - n]
  BY ConcatProperties
<1> HIDE DEF u, v
<1>4. u # <<>>
  BY <1>2, <1>3
<1>5. /\ Tail(u) \in Seq(S) /\ Len(Tail(u)) = (n + m) - 1 /\ Head(u) = u[1]
      /\ \A i \in 1..Len(Tail(u)) : Tail(u)[i] = u[i + 1]
  BY <1>3, <1>4, HeadTailProperties
<1>6. /\ v \o t \in Seq(S) /\ Len(v \o t) = Len(v) + m
      /\ \A i \in 1..(Len(v) + m) : (v \o t)[i] = IF i <= Len(v) THEN v[i] ELSE t[i - Len(v)]
  BY <1>1, ConcatProperties
<1> HIDE DEF n, m
<1>7. Head(u) = Head(s)
  BY <1>1, <1>2, <1>3, <1>5
<1>8. ASSUME NEW i \in 1..Len(Tail(u))
      PROVE  Tail(u)[i] = (v \o t)[i]
  <2>1. i \in 1..((n + m) - 1) /\ i + 1 \in 1..(n + m) /\ i \in 1..(Len(v) + m)
    BY <1>1, <1>2, <1>5
  <2>2. CASE i <= n - 1
    <3>1. i + 1 <= n /\ i <= Len(v) /\ i \in 1..Len(v)
      BY <1>1, <1>2, <2>1, <2>2
    <3> QED
      BY <1>1, <1>3, <1>5, <1>6, <2>1, <3>1
  <2>3. CASE ~(i <= n - 1)
    <3>1. ~(i + 1 <= n) /\ ~(i <= Len(v)) /\ i - Len(v) = (i + 1) - n
      BY <1>1, <1>2, <2>1, <2>3
    <3> QED
      BY <1>3, <1>5, <1>6, <2>1, <3>1
  <2> QED
    BY <2>2, <2>3
<1>9. Len(Tail(u)) = Len(v \o t)
  BY <1>1, <1>2, <1>5, <1>6
<1>10. Tail(u) = v \o t
  BY <1>5, <1>6, <1>8, <1>9, SeqEqual
<1> QED
  BY <1>4, <1>7, <1>10 DEF u, v

(* A set of numbers has a least one.                                       *)
LEMMA LeastIn ==
  ASSUME NEW T, T \subseteq Nat, T # {}
  PROVE  Least(T) \in T /\ \A y \in T : Least(T) <= y
<1> DEFINE R == OpToRel(<, Nat)
<1>1. IsWellFoundedOn(R, Nat)
  BY NatLessThanWellFounded
<1>2. \A x, y \in Nat : <<y, x>> \in R <=> y < x
  BY DEF OpToRel
<1> HIDE DEF R
<1>3. PICK x \in T : \A y \in T : ~(<<y, x>> \in R)
  BY <1>1, WFMin
<1>4. ASSUME NEW y \in T
      PROVE  x <= y
  <2>1. x \in Nat /\ y \in Nat
    BY <1>3
  <2>2. ~(y < x)
    BY <1>2, <1>3, <2>1, Zenon
  <2> QED
    BY <2>1, <2>2
<1> QED
  BY <1>4 DEF Least

LEMMA LeastIs ==
  ASSUME NEW T, T \subseteq Nat, NEW x \in T, \A y \in T : x <= y
  PROVE  Least(T) = x
<1>1. Least(T) \in T /\ \A y \in T : Least(T) <= y
  BY LeastIn
<1>2. Least(T) <= x /\ x <= Least(T) /\ x \in Nat /\ Least(T) \in Nat
  BY <1>1
<1> QED
  BY <1>2

LEMMA JoinedTwice ==
  ASSUME NEW S, NEW s \in Seq(S), NEW t \in Seq(S), NEW v \in Seq(S)
  PROVE  s \o (t \o v) = (s \o t) \o v
<1> DEFINE a == Len(s)
           b == Len(t)
           e == Len(v)
           tv == t \o v
           st == s \o t
<1>1. /\ a \in Nat /\ b \in Nat /\ e \in Nat
      /\ tv \in Seq(S) /\ Len(tv) = b + e
      /\ \A i \in 1..(b + e) : tv[i] = IF i <= b THEN t[i] ELSE v[i - b]
      /\ st \in Seq(S) /\ Len(st) = a + b
      /\ \A i \in 1..(a + b) : st[i] = IF i <= a THEN s[i] ELSE t[i - a]
  BY ConcatProperties, LenProperties
<1>6. tv \in Seq(S) /\ st \in Seq(S)
  BY <1>1
<1> HIDE DEF tv, st
<1>2. /\ s \o tv \in Seq(S) /\ Len(s \o tv) = Len(s) + Len(tv)
      /\ \A i \in 1..(Len(s) + Len(tv)) : (s \o tv)[i] = IF i <= Len(s) THEN s[i] ELSE tv[i - Len(s)]
  BY <1>6, ConcatProperties
<1>3. /\ st \o v \in Seq(S) /\ Len(st \o v) = Len(st) + Len(v)
      /\ \A i \in 1..(Len(st) + Len(v)) : (st \o v)[i] = IF i <= Len(st) THEN st[i] ELSE v[i - Len(st)]
  BY <1>6, ConcatProperties
<1> HIDE DEF a, b, e
<1>4. /\ Len(s \o tv) = a + b + e /\ Len(st \o v) = a + b + e
      /\ \A i \in 1..(a + b + e) : (s \o tv)[i] = IF i <= a THEN s[i] ELSE tv[i - a]
      /\ \A i \in 1..(a + b + e) : (st \o v)[i] = IF i <= a + b THEN st[i] ELSE v[i - (a + b)]
  <2>1. a + (b + e) = a + b + e
    BY <1>1
  <2> QED
    BY <1>1, <1>2, <1>3, <2>1 DEF a, e
<1>5. ASSUME NEW i \in 1..(a + b + e)
      PROVE  (s \o tv)[i] = (st \o v)[i]
  <2>1. CASE i <= a
    <3>1. i <= a + b /\ i \in 1..(a + b)
      BY <1>1, <2>1
    <3> QED
      BY <1>1, <1>4, <2>1, <3>1
  <2>2. CASE ~(i <= a) /\ i <= a + b
    <3>1. i \in 1..(a + b) /\ i - a \in 1..(b + e) /\ i - a <= b
      BY <1>1, <2>2
    <3> QED
      BY <1>1, <1>4, <2>2, <3>1
  <2>3. CASE ~(i <= a + b)
    <3>1. ~(i <= a) /\ i - a \in 1..(b + e) /\ ~(i - a <= b) /\ (i - a) - b = i - (a + b)
      BY <1>1, <2>3
    <3> QED
      BY <1>1, <1>4, <2>3, <3>1
  <2> QED
    BY <2>1, <2>2, <2>3
<1>7. s \o tv = st \o v
  BY <1>2, <1>3, <1>4, <1>5, SeqEqual
<1> QED
  BY <1>7 DEF tv, st
-----------------------------------------------------------------------------
(* SessionSerial: the inductive invariant.                                 *)

Latest == Len(serialCalls)
ToRun  == echoedLines \o toGuest
Unread == outputBuffer \o wire

(* How many commands with places the latest call has typed.                *)
Typed ==
  TypedBy(serialCalls[Latest].lines,
          IF serialPc = "type" \/ serialReply = "error" THEN turn - 1 ELSE turn)

SerialTyped ==
  /\ serialPc \in {"idle", "type", "wait", "take"}
  /\ serialCalls \in Seq(SerialCallSet)
  /\ Latest <= MaxSerialCalls /\ \A n \in 1..Latest : CallFits(serialCalls[n])
  /\ Latest > 0 => turn \in 1..TurnCount(Latest)
  /\ serialPc # "idle" => Latest > 0 /\ serialReply = "none" /\ captured = <<>>
  /\ Latest = 0 => serialReply = "none"
  /\ serialPc # "take" => glimpse = <<>>
  /\ glimpse \in Seq(SerialPieces) /\ outputBuffer \in Seq(SerialPieces)
  /\ wire \in Seq(SerialPieces) /\ captured \in Seq(SerialPieces)
  /\ toGuest \in Seq(SerialCommands) /\ echoedLines \in Seq(SerialCommands)
  /\ typedFile \in [Tools -> Seq(SerialLines)] /\ madeFile \in [Tools -> Seq(SerialLines)]
  /\ batchErrors \in BOOLEAN /\ running \in BOOLEAN
  /\ faultSince \in BOOLEAN /\ fromQuiet \in BOOLEAN

(* The commands in the guest's queue, and the pieces it has printed, are of *)
(* calls that were made, the commands in the order of the calls.           *)
PieceFits(p, n) == p.cmd.of <= n /\ (p.what = "digits" => p.cmd.do = "count" /\ p.val # NoNumber)
QueueProper ==
  /\ \A c \in PiecesIn(echoedLines) \cup PiecesIn(toGuest) : Proper(serialCalls, c)
  /\ \A p \in PiecesIn(outputBuffer) \cup PiecesIn(wire) : PieceFits(p, Latest)
  /\ OldFirst(ToRun)

(* A call that has found the guest with nothing to do has its own commands *)
(* and pieces only, once its first turn has emptied the buffer.            *)
OwnOnly ==
  fromQuiet =>
    /\ \A c \in PiecesIn(echoedLines) \cup PiecesIn(toGuest) : c.of = Latest
    /\ \A p \in PiecesIn(wire) : p.cmd.of = Latest
    /\ turn > 1 => \A p \in PiecesIn(outputBuffer) : p.cmd.of = Latest

(* What was looked at is the first part of the buffer.                     *)
GlimpseFirst ==
  serialPc = "take" =>
    Len(glimpse) <= Len(outputBuffer) /\ \A i \in 1..Len(glimpse) : glimpse[i] = outputBuffer[i]

(* While nothing has failed, what the first k commands of the call make of *)
(* the files.                                                              *)
LinesAre(f, n, m) == Len(f) = m /\ \A i \in 1..m : f[i] = Line(n, i)
FilesMade(k) ==
  ~faultSince =>
    LET l == serialCalls[Latest].lines
        t == ToolOf(Latest)
    IN  /\ k \in 1..l => LinesAre(typedFile[t], Latest, k)
        /\ k > l /\ l > 0 => LinesAre(typedFile[t], Latest, l)
        /\ k > l /\ t \in {"upload", "place"} /\ ~serialCalls[Latest].renamed =>
             LinesAre(madeFile[t], Latest, l)
        /\ k > 0 /\ t = "capture" => typedFile["capture"] = Source

(* A number is printed by the last command of a script, in one piece or    *)
(* its first digits before the whole.                                      *)
IsNumber(p) == p.what \in {"out", "digits"} /\ p.cmd.do \in {"count", "size"} /\ p.val # NoNumber
NumberOf(v, tool, f) == v = Len(f) \/ (tool = "write" /\ v \in Heads(Len(f)))
NumbersTrue(k) ==
  \A p \in PiecesIn(outputBuffer) \cup PiecesIn(wire) :
    IsNumber(p) /\ p.cmd.of = Latest =>
      k > 0 /\ k = CommandCount(Latest) /\ NumberOf(p.val, ToolOf(Latest), Made(Latest))
Confirmed(k) ==
  serialReply = "confirmed" /\ fromQuiet =>
    /\ k > 0 /\ k = CommandCount(Latest)
    /\ NumberOf(serialCalls[Latest].lines, ToolOf(Latest), Made(Latest))

(* A reply that is no failure comes after the whole script was typed.      *)
AllTyped ==
  /\ serialReply \in {"confirmed", "differs", "unverified"} =>
       ToolOf(Latest) \in {"write", "upload"} /\ Typed = CommandCount(Latest)
  /\ serialReply = "copied" => ToolOf(Latest) = "place" /\ Typed = CommandCount(Latest)

(* The guest has run the first k commands of the latest call and has the   *)
(* others that were typed still to run.                                    *)
RunSoFar(k) ==
  Ordered(serialCalls, ToRun, k, Typed) /\ FilesMade(k) /\ NumbersTrue(k) /\ Confirmed(k)
Progress ==
  Latest > 0 => Typed \in Nat /\ AllTyped /\ \E k \in 0..Typed : RunSoFar(k)

(* While nothing has failed, what "cat" prints is the whole of the source. *)
WholeFrom(s, i) ==
  /\ s[i].cmd.do = "cat" /\ s[i].cmd.at = 0 /\ i + 3 <= Len(s)
  /\ s[i + 1] = Piece("text", s[i].cmd, 1) /\ s[i + 2] = Piece("text", s[i].cmd, 2)
  /\ s[i + 3] = Piece("end", s[i].cmd, NoNumber)
CatsWhole(s, n) == \A i \in DOMAIN s : s[i].what = "start" /\ s[i].cmd.of = n => WholeFrom(s, i)
CaptureWhole ==
  /\ ~faultSince => CatsWhole(Unread, Latest)
  /\ serialReply = "captured" /\ fromQuiet /\ ~faultSince =>
       Len(captured) = 2 /\ captured[1].val = 1 /\ captured[2].val = 2

SerialInv == SerialTyped /\ QueueProper /\ OwnOnly /\ GlimpseFirst /\ Progress /\ CaptureWhole

-----------------------------------------------------------------------------
(* SessionSerial: types.                                                   *)

LEMMA CommandTypes ==
  /\ \A c \in SerialCommands : c.of \in 1..MaxSerialCalls /\ c.of \in Nat /\ c.at \in Nat
  /\ \A c \in SerialCommands, w \in {"echo", "out", "digits", "err", "mv", "start", "text", "end"},
        v \in Nat \cup {NoNumber} :
       Piece(w, c, v) \in SerialPieces /\ Piece(w, c, v).cmd = c
       /\ Piece(w, c, v).what = w /\ Piece(w, c, v).val = v
  /\ \A n \in 0..MaxSerialCalls, j \in Nat : Line(n, j) \in SerialLines
<1>1. \A c \in SerialCommands : c.of \in 1..MaxSerialCalls /\ c.of \in Nat /\ c.at \in Nat
  BY SerialConstants DEF SerialCommands
<1>2. ASSUME NEW c \in SerialCommands,
             NEW w \in {"echo", "out", "digits", "err", "mv", "start", "text", "end"},
             NEW v \in Nat \cup {NoNumber}
      PROVE  /\ Piece(w, c, v) \in SerialPieces /\ Piece(w, c, v).cmd = c
             /\ Piece(w, c, v).what = w /\ Piece(w, c, v).val = v
  BY DEF Piece, SerialPieces
<1>3. \A n \in 0..MaxSerialCalls, j \in Nat : Line(n, j) \in SerialLines
  BY DEF Line, SerialLines
<1> QED
  BY <1>1, <1>2, <1>3

LEMMA SourceTypes ==
  /\ Source \in Seq(SerialLines) /\ Len(Source) = 2
  /\ Source[1] = Line(0, 1) /\ Source[2] = Line(0, 2)
<1>1. 0 \in 0..MaxSerialCalls /\ 1 \in Nat /\ 2 \in Nat
  BY SerialConstants
<1>2. Line(0, 1) \in SerialLines /\ Line(0, 2) \in SerialLines
  BY <1>1, CommandTypes
<1> QED
  BY <1>2 DEF Source

(* The pieces of one command.                                              *)
LEMMA OnePiece ==
  ASSUME NEW S, NEW p \in S
  PROVE  <<p>> \in Seq(S) /\ PiecesIn(<<p>>) = {p}
<1>1. DOMAIN <<p>> = {1} /\ <<p>>[1] = p
  OBVIOUS
<1> QED
  BY <1>1 DEF PiecesIn

LEMMA TwoPieces ==
  ASSUME NEW S, NEW p \in S, NEW q \in S
  PROVE  <<p, q>> \in Seq(S) /\ PiecesIn(<<p, q>>) = {p, q}
<1>1. DOMAIN <<p, q>> = {1, 2} /\ <<p, q>>[1] = p /\ <<p, q>>[2] = q
  OBVIOUS
<1> QED
  BY <1>1 DEF PiecesIn

LEMMA NoPieces == \A S : <<>> \in Seq(S) /\ PiecesIn(<<>>) = {}
  BY PiecesNone

(* What "cat" prints.                                                      *)
CatText(c) ==
  <<Piece("start", c, NoNumber)>>
  \o [i \in DOMAIN typedFile["capture"] |-> Piece("text", c, typedFile["capture"][i].at)]
  \o <<Piece("end", c, NoNumber)>>

LEMMA CatPrints ==
  ASSUME NEW c \in SerialCommands, typedFile \in [Tools -> Seq(SerialLines)]
  PROVE  /\ CatText(c) \in Seq(SerialPieces) /\ \A p \in PiecesIn(CatText(c)) : p.cmd = c /\ p.what # "digits"
         /\ Len(CatText(c)) = Len(typedFile["capture"]) + 2
         /\ CatText(c)[1] = Piece("start", c, NoNumber)
         /\ \A i \in 1..Len(typedFile["capture"]) :
              CatText(c)[i + 1] = Piece("text", c, typedFile["capture"][i].at)
         /\ CatText(c)[Len(typedFile["capture"]) + 2] = Piece("end", c, NoNumber)
<1> DEFINE f == typedFile["capture"]
           m == Len(f)
           F(i) == Piece("text", c, f[i].at)
           a == Piece("start", c, NoNumber)
           z == Piece("end", c, NoNumber)
<1>1. f \in Seq(SerialLines)
  BY DEF Tools
<1> HIDE DEF f
<1>2. m \in Nat /\ DOMAIN f = 1..m /\ \A i \in 1..m : f[i].at \in Nat
  <2>1. m \in Nat /\ DOMAIN f = 1..m
    BY <1>1, LenProperties
  <2>2. \A i \in 1..m : f[i] \in SerialLines
    BY <1>1, ElementOfSeq
  <2> QED
    BY <2>1, <2>2 DEF SerialLines
<1> HIDE DEF m
<1>3. \A i \in 1..m : F(i) \in SerialPieces /\ F(i).cmd = c /\ F(i).what = "text"
  BY <1>2, CommandTypes
<1>4. /\ a \in SerialPieces /\ a.cmd = c /\ z \in SerialPieces /\ z.cmd = c
      /\ a.what # "digits" /\ z.what # "digits"
  BY DEF Piece, SerialPieces
<1> HIDE DEF a, z, F
<1> DEFINE body == [i \in 1..m |-> F(i)]
<1>5. body \in Seq(SerialPieces) /\ Len(body) = m /\ \A i \in 1..m : body[i] = F(i)
  <2>1. body \in Seq(SerialPieces)
    BY <1>2, <1>3, IsASeq
  <2> QED
    BY <1>2, <2>1
<1> HIDE DEF body
<1> DEFINE one == <<a>> \o body
<1>6. /\ one \in Seq(SerialPieces) /\ Len(one) = m + 1 /\ one[1] = a
      /\ \A i \in 1..m : one[i + 1] = F(i)
  <2> DEFINE x == <<a>>
  <2>1. x \in Seq(SerialPieces) /\ Len(x) = 1 /\ x[1] = a
    BY <1>4
  <2> HIDE DEF x
  <2>2. /\ x \o body \in Seq(SerialPieces) /\ Len(x \o body) = 1 + m
        /\ \A i \in 1..(1 + m) : (x \o body)[i] = IF i <= 1 THEN x[i] ELSE body[i - 1]
    <3>1. /\ x \o body \in Seq(SerialPieces) /\ Len(x \o body) = Len(x) + Len(body)
          /\ \A i \in 1..(Len(x) + Len(body)) :
               (x \o body)[i] = IF i <= Len(x) THEN x[i] ELSE body[i - Len(x)]
      BY <1>5, <2>1, ConcatProperties
    <3> QED
      BY <1>5, <2>1, <3>1
  <2>3. /\ 1 \in 1..(1 + m) /\ 1 + m = m + 1
        /\ \A i \in 1..m : i + 1 \in 1..(1 + m) /\ ~(i + 1 <= 1) /\ (i + 1) - 1 = i
    BY <1>2
  <2> QED
    BY <1>5, <2>1, <2>2, <2>3 DEF x
<1> HIDE DEF one
<1>7. CatText(c) = one \o <<z>>
  BY <1>2 DEF CatText, one, body, F, a, z, f
<1>8. /\ IsSeq(one) /\ m + 1 \in Nat /\ (m + 1) + 1 = m + 2
      /\ 1 \in 1..(m + 1) /\ \A i \in 1..m : i + 1 \in 1..(m + 1)
  BY <1>2, <1>6 DEF IsSeq
<1>9. /\ Len(one \o <<z>>) = (m + 1) + 1 /\ (one \o <<z>>)[(m + 1) + 1] = z
      /\ \A i \in 1..(m + 1) : (one \o <<z>>)[i] = one[i]
  BY <1>6, <1>8, JoinedOne
<1>10. CatText(c) \in Seq(SerialPieces)
  <2>1. <<z>> \in Seq(SerialPieces)
    BY <1>4
  <2> QED
    BY <1>6, <1>7, <2>1, ConcatProperties
<1>11. \A p \in PiecesIn(CatText(c)) : p.cmd = c /\ p.what # "digits"
  <2> DEFINE u == CatText(c)
  <2>1. /\ DOMAIN u = 1..(m + 2) /\ u[1] = a /\ u[m + 2] = z
        /\ \A i \in 1..m : u[i + 1] = F(i)
    BY <1>6, <1>7, <1>8, <1>9, <1>10, LenProperties
  <2> HIDE DEF u
  <2>2. ASSUME NEW i \in DOMAIN u
        PROVE  u[i].cmd = c /\ u[i].what # "digits"
    <3>1. CASE i = 1
      BY <1>4, <2>1, <3>1
    <3>2. CASE i = m + 2
      BY <1>4, <2>1, <3>2
    <3>3. CASE i # 1 /\ i # m + 2
      <4>1. i - 1 \in 1..m /\ (i - 1) + 1 = i
        BY <1>2, <2>1, <3>3
      <4> QED
        BY <1>3, <2>1, <4>1
    <3> QED
      BY <3>1, <3>2, <3>3
  <2> QED
    BY <2>2 DEF PiecesIn, u
<1> QED
  BY <1>6, <1>7, <1>8, <1>9, <1>10, <1>11 DEF f, m, F, a, z
RunsOne(c) == RunsLine(c) \/ RunsDecode(c) \/ RunsWc(c) \/ RunsEncode(c) \/ RunsOther(c)

LEMMA FileTypes ==
  ASSUME SerialTyped, NEW c \in SerialCommands, Proper(serialCalls, c), RunsOne(c)
  PROVE  /\ typedFile' \in [Tools -> Seq(SerialLines)] /\ madeFile' \in [Tools -> Seq(SerialLines)]
         /\ faultSince' \in BOOLEAN
<1> DEFINE t == ToolOf(c.of)
<1>1. /\ typedFile \in [Tools -> Seq(SerialLines)] /\ madeFile \in [Tools -> Seq(SerialLines)]
      /\ faultSince \in BOOLEAN
  BY DEF SerialTyped
<1>2. t \in Tools
  <2>1. c.of \in 1..Latest
    BY DEF Proper, Latest
  <2> QED
    BY <2>1, CallSizes DEF SerialTyped, ToolOf
<1>3. c.of \in 0..MaxSerialCalls /\ c.at \in Nat
  BY CommandTypes, SerialConstants
<1>4. Line(c.of, c.at) \in SerialLines
  BY <1>3, CommandTypes
<1> HIDE DEF t
<1>5. CASE RunsLine(c)
  <2> DEFINE kept == IF Truncates(c.at) THEN <<>> ELSE typedFile[t]
             more == Append(kept, Line(c.of, c.at))
  <2>1. /\ typedFile' \in {typedFile, [typedFile EXCEPT ![t] = more], [typedFile EXCEPT ![t] = kept]}
        /\ madeFile' = madeFile /\ (faultSince' = faultSince \/ faultSince' = TRUE)
    BY <1>5 DEF RunsLine, t
  <2>2. kept \in Seq(SerialLines)
    <3>1. typedFile[t] \in Seq(SerialLines)
      BY <1>1, <1>2
    <3> QED
      BY <3>1, EmptySeq
  <2> HIDE DEF kept
  <2>3. more \in Seq(SerialLines)
    BY <1>4, <2>2, AppendProperties
  <2> HIDE DEF more
  <2> QED
    BY <1>1, <1>2, <2>1, <2>2, <2>3
<1>6. CASE RunsDecode(c)
  <2> DEFINE f == typedFile[t]
  <2>1. /\ typedFile' = typedFile /\ (faultSince' = faultSince \/ faultSince' = TRUE)
        /\ madeFile' \in {madeFile, [madeFile EXCEPT ![t] = Decodes(f)]}
    <3>1. \/ UNCHANGED <<serialFaults, faultSince>>
          \/ serialFaults' = serialFaults + 1 /\ faultSince' = TRUE
      BY <1>6 DEF RunsDecode
    <3>2. /\ typedFile' = typedFile
          /\ \/ madeFile' = IF serialCalls[c.of].renamed THEN madeFile
                             ELSE [madeFile EXCEPT ![t] = Decodes(f)]
             \/ madeFile' = madeFile
      BY <1>6 DEF RunsDecode, t
    <3> QED
      BY <3>1, <3>2
  <2>2. f \in Seq(SerialLines)
    BY <1>1, <1>2
  <2> HIDE DEF f
  <2>3. Decodes(f) \in Seq(SerialLines)
    <3>1. Len(f) \in Nat /\ DOMAIN f = 1..Len(f) /\ \A i \in 1..Len(f) : f[i] \in SerialLines
      BY <2>2, LenProperties, ElementOfSeq
    <3>2. Ends(f) \subseteq 1..Len(f)
      BY <3>1 DEF Ends
    <3>3. ASSUME Ends(f) # {}
          PROVE  SubSeq(f, 1, Least(Ends(f))) \in Seq(SerialLines)
      <4>1. Ends(f) \subseteq Nat
        BY <3>1, <3>2
      <4>2. Least(Ends(f)) \in Ends(f)
        BY <3>3, <4>1, LeastIn
      <4>3. 1 \in Int /\ Least(Ends(f)) \in Int /\ \A i \in 1..Least(Ends(f)) : f[i] \in SerialLines
        BY <3>1, <3>2, <4>2
      <4> QED
        BY <4>3, SubSeqProperties
    <3> QED
      BY <2>2, <3>3 DEF Decodes
  <2> QED
    BY <1>1, <1>2, <2>1, <2>3
<1>7. CASE RunsWc(c)
  BY <1>1, <1>7 DEF RunsWc
<1>8. CASE RunsEncode(c)
  <2>1. PICK s : typedFile' = [typedFile EXCEPT !["capture"] = s] /\ s \in Seq(SerialLines)
    <3>1. Source \in Seq(SerialLines) /\ Len(Source) = 2
      BY SourceTypes
    <3>2. \A i \in 1..2 : Source[i] \in SerialLines
      BY <3>1, ElementOfSeq
    <3>3. ASSUME NEW n \in 0..(Len(Source) - 1)
          PROVE  SubSeq(Source, 1, n) \in Seq(SerialLines)
      <4>1. 1 \in Int /\ n \in Int /\ \A i \in 1..n : Source[i] \in SerialLines
        BY <3>1, <3>2
      <4> QED
        BY <4>1, SubSeqProperties
    <3> QED
      BY <1>8, <3>1, <3>3 DEF RunsEncode
  <2>2. madeFile' = madeFile /\ (faultSince' = faultSince \/ faultSince' = TRUE)
    BY <1>8 DEF RunsEncode
  <2> QED
    BY <1>1, <2>1, <2>2 DEF Tools
<1>9. CASE RunsOther(c)
  BY <1>1, <1>9 DEF RunsOther
<1> QED
  BY <1>5, <1>6, <1>7, <1>8, <1>9 DEF RunsOne

(* What a command prints is of it; a number is that of the lines of a file. *)
Counted(c) == IF c.do = "count" THEN typedFile[ToolOf(c.of)] ELSE madeFile[ToolOf(c.of)]
NumberIn(p, c) == p.val = Len(Counted(c)) \/ (c.do = "count" /\ p.val \in Heads(Len(Counted(c))))

LEMMA RunPrints ==
  ASSUME SerialTyped, NEW c \in SerialCommands, Proper(serialCalls, c), RunsOne(c)
  PROVE  \E out \in Seq(SerialPieces) :
            /\ wire' = wire \o out /\ \A p \in PiecesIn(out) : p.cmd = c
            /\ c.do = "cat" => out = CatText(c)
            /\ c.do # "cat" => \A p \in PiecesIn(out) : p.what # "start"
            /\ \A p \in PiecesIn(out) : IsNumber(p) => NumberIn(p, c)
            /\ \A p \in PiecesIn(out) : p.what = "digits" => c.do = "count" /\ p.val # NoNumber
<1> DEFINE Fine(out) == /\ wire' = wire \o out /\ \A p \in PiecesIn(out) : p.cmd = c
                        /\ c.do = "cat" => out = CatText(c)
                        /\ c.do # "cat" => \A p \in PiecesIn(out) : p.what # "start"
                        /\ \A p \in PiecesIn(out) : IsNumber(p) => NumberIn(p, c)
                        /\ \A p \in PiecesIn(out) :
                             p.what = "digits" => c.do = "count" /\ p.val # NoNumber
<1> SUFFICES \E out \in Seq(SerialPieces) : Fine(out)
  OBVIOUS
<1>1. ASSUME NEW p \in SerialPieces, p.cmd = c, p.what # "start", c.do # "cat",
             p.what # "digits", IsNumber(p) => NumberIn(p, c), wire' = wire \o <<p>>
      PROVE  \E out \in Seq(SerialPieces) : Fine(out)
  <2>1. <<p>> \in Seq(SerialPieces) /\ PiecesIn(<<p>>) = {p}
    BY OnePiece
  <2> QED
    BY <1>1, <2>1
<1>2. ASSUME wire' = wire \o <<>>, c.do # "cat"
      PROVE  \E out \in Seq(SerialPieces) : Fine(out)
  BY <1>2, NoPieces
<1>3. \A v \in {0, NoNumber} : v \in Nat \cup {NoNumber}
  OBVIOUS
<1>4. ASSUME NEW w \in {"out", "err", "mv"}, NEW v \in Nat \cup {NoNumber}
      PROVE  /\ Piece(w, c, v) \in SerialPieces /\ Piece(w, c, v).cmd = c
             /\ Piece(w, c, v).what # "start" /\ Piece(w, c, v).what # "digits"
             /\ Piece(w, c, v).val = v
  BY DEF Piece, SerialPieces
<1>5. ASSUME NEW p, p.cmd = c, c.do \notin {"count", "size"}
      PROVE  ~IsNumber(p)
  BY <1>5 DEF IsNumber
<1> HIDE DEF Fine
<1>6. CASE RunsLine(c)
  <2>1. wire' = wire \o <<>> /\ c.do = "line"
    BY <1>6 DEF RunsLine, WritesOut
  <2> QED
    BY <1>2, <2>1
<1>7. CASE RunsDecode(c)
  <2>1. PICK w \in {"out", "err", "mv"} : wire' = wire \o <<Piece(w, c, NoNumber)>>
    BY <1>7 DEF RunsDecode, WritesOut
  <2>2. c.do # "cat" /\ c.do \notin {"count", "size"}
    BY <1>7 DEF RunsDecode
  <2> QED
    BY <1>1, <1>3, <1>4, <1>5, <2>1, <2>2
<1>8. CASE RunsWc(c)
  <2> DEFINE f == Counted(c)
  <2>1. \A t \in Tools : Len(typedFile[t]) \in Nat /\ Len(madeFile[t]) \in Nat
    BY LenProperties DEF SerialTyped
  <2>2. ToolOf(c.of) \in Tools
    <3>1. c.of \in 1..Latest
      BY DEF Proper, Latest
    <3> QED
      BY <3>1, CallSizes DEF SerialTyped, ToolOf
  <2>3. Len(f) \in Nat /\ (f = <<>> => Len(f) = 0)
    BY <2>1, <2>2 DEF Counted
  <2>4. c.do = "count" \/ c.do = "size"
    BY <1>8 DEF RunsWc
  <2> HIDE DEF f
  <2>5. CASE \E w \in {"out", "err"}, v \in IF f = <<>> THEN {0, NoNumber} ELSE {Len(f)} :
                wire' = wire \o <<Piece(w, c, v)>>
    <3>1. PICK w \in {"out", "err"}, v \in IF f = <<>> THEN {0, NoNumber} ELSE {Len(f)} :
             wire' = wire \o <<Piece(w, c, v)>>
      BY <2>5
    <3>2. v \in Nat \cup {NoNumber} /\ (v = Len(f) \/ v = NoNumber)
      BY <1>3, <2>3, <3>1
    <3> DEFINE p == Piece(w, c, v)
    <3>3. p \in SerialPieces /\ p.cmd = c /\ p.what # "start" /\ p.what # "digits" /\ p.val = v
      BY <1>4, <3>2
    <3>4. wire' = wire \o <<p>>
      BY <3>1
    <3> HIDE DEF p
    <3>5. IsNumber(p) => NumberIn(p, c)
      BY <3>2, <3>3 DEF IsNumber, NumberIn, f
    <3> QED
      BY <1>1, <2>4, <3>3, <3>4, <3>5
  <2>6. CASE /\ c.do = "count"
             /\ \E h \in Heads(Len(f)) :
                  wire' = wire \o <<Piece("out", c, h), Piece("digits", c, Len(f))>>
    <3>1. PICK h \in Heads(Len(f)) :
             wire' = wire \o <<Piece("out", c, h), Piece("digits", c, Len(f))>>
      BY <2>6
    <3>2. h \in Nat
      BY <2>3, <3>1 DEF Heads
    <3> DEFINE p == Piece("out", c, h)
               q == Piece("digits", c, Len(f))
    <3>3. /\ p \in SerialPieces /\ p.cmd = c /\ p.what = "out" /\ p.val = h
          /\ q \in SerialPieces /\ q.cmd = c /\ q.what = "digits" /\ q.val = Len(f)
      BY <2>3, <3>2, CommandTypes
    <3>4. wire' = wire \o <<p, q>>
      BY <3>1
    <3> HIDE DEF p, q
    <3>5. <<p, q>> \in Seq(SerialPieces) /\ PiecesIn(<<p, q>>) = {p, q}
      BY <3>3, TwoPieces
    <3>6. NumberIn(p, c) /\ NumberIn(q, c) /\ q.val # NoNumber
      BY <2>3, <2>6, <3>1, <3>3 DEF NumberIn, f, NoNumber
    <3> QED
      BY <2>6, <3>3, <3>4, <3>5, <3>6 DEF Fine
  <2> QED
    <3>1. f = IF c.do = "count" THEN typedFile[ToolOf(c.of)] ELSE madeFile[ToolOf(c.of)]
      BY DEF f, Counted
    <3> QED
      BY <1>8, <2>5, <2>6, <3>1 DEF RunsWc, WritesOut
<1>9. CASE RunsEncode(c)
  <2>1. PICK w \in {"out", "err"} : wire' = wire \o <<Piece(w, c, NoNumber)>>
    BY <1>9 DEF RunsEncode, WritesOut
  <2>2. c.do # "cat" /\ c.do \notin {"count", "size"}
    BY <1>9 DEF RunsEncode
  <2> QED
    BY <1>1, <1>3, <1>4, <1>5, <2>1, <2>2
<1>10. CASE RunsOther(c)
  <2>1. c.do \notin {"count", "size"}
    BY <1>10 DEF RunsOther
  <2>2. CASE c.do = "cat"
    <3>1. wire' = wire \o CatText(c)
      BY <1>10, <2>2 DEF RunsOther, WritesOut, CatText
    <3>2. CatText(c) \in Seq(SerialPieces) /\ \A p \in PiecesIn(CatText(c)) : p.cmd = c /\ p.what # "digits"
      BY CatPrints DEF SerialTyped
    <3> QED
      BY <1>5, <2>1, <2>2, <3>1, <3>2 DEF Fine
  <2>3. CASE c.do # "cat"
    <3>1. wire' = wire \o <<Piece("out", c, NoNumber)>>
      BY <1>10, <2>3 DEF RunsOther, WritesOut
    <3> QED
      BY <1>1, <1>3, <1>4, <1>5, <2>1, <2>3, <3>1
  <2> QED
    BY <2>2, <2>3
<1> QED
  BY <1>6, <1>7, <1>8, <1>9, <1>10 DEF RunsOne
-----------------------------------------------------------------------------
(* SessionSerial: what "cat" prints, in a buffer.                          *)

LEMMA CatsNone ==
  ASSUME NEW s, NEW n, \A p \in PiecesIn(s) : p.what # "start" \/ p.cmd.of # n
  PROVE  CatsWhole(s, n)
  BY DEF CatsWhole, PiecesIn

LEMMA CatsJoined ==
  ASSUME NEW s \in Seq(SerialPieces), NEW t \in Seq(SerialPieces), NEW n
  PROVE  /\ CatsWhole(s \o t, n) => CatsWhole(t, n)
         /\ CatsWhole(s, n) /\ CatsWhole(t, n) => CatsWhole(s \o t, n)
<1> DEFINE u == s \o t
           a == Len(s)
           b == Len(t)
<1>1. /\ a \in Nat /\ b \in Nat /\ Len(u) = a + b /\ DOMAIN s = 1..a /\ DOMAIN t = 1..b
      /\ DOMAIN u = 1..(a + b) /\ \A i \in 1..(a + b) : u[i] = IF i <= a THEN s[i] ELSE t[i - a]
  <2>1. /\ u \in Seq(SerialPieces) /\ Len(u) = Len(s) + Len(t)
        /\ \A i \in 1..(Len(s) + Len(t)) : u[i] = IF i <= Len(s) THEN s[i] ELSE t[i - Len(s)]
    BY ConcatProperties
  <2> HIDE DEF u
  <2> QED
    BY <2>1, LenProperties
<1> HIDE DEF u, a, b
<1>2. /\ \A i \in 1..a : i \in 1..(a + b) /\ u[i] = s[i]
      /\ \A i \in 1..b : i + a \in 1..(a + b) /\ u[i + a] = t[i]
  <2>1. ASSUME NEW i \in 1..b
        PROVE  i + a \in 1..(a + b) /\ ~(i + a <= a) /\ (i + a) - a = i
    BY <1>1
  <2> QED
    BY <1>1, <2>1
<1>3. ASSUME CatsWhole(u, n), NEW i \in DOMAIN t, t[i].what = "start", t[i].cmd.of = n
      PROVE  WholeFrom(t, i)
  <2>1. i \in 1..b /\ i + a \in DOMAIN u /\ u[i + a] = t[i]
    BY <1>1, <1>2
  <2>2. WholeFrom(u, i + a)
    BY <1>3, <2>1 DEF CatsWhole
  <2>3. (i + a) + 3 <= a + b
    BY <1>1, <2>2 DEF WholeFrom
  <2>4. /\ i + 1 \in 1..b /\ i + 2 \in 1..b /\ i + 3 \in 1..b /\ i + 3 <= b
        /\ (i + 1) + a = (i + a) + 1 /\ (i + 2) + a = (i + a) + 2 /\ (i + 3) + a = (i + a) + 3
    <3>1. a \in Nat /\ b \in Nat /\ i \in 1..b
      BY <1>1, <2>1
    <3>2. SUFFICES ASSUME NEW x \in Nat, NEW y \in Nat, NEW k \in 1..y, (k + x) + 3 <= x + y
                   PROVE  /\ k + 1 \in 1..y /\ k + 2 \in 1..y /\ k + 3 \in 1..y /\ k + 3 <= y
                          /\ (k + 1) + x = (k + x) + 1 /\ (k + 2) + x = (k + x) + 2
                          /\ (k + 3) + x = (k + x) + 3
      BY <2>3, <3>1
    <3>3. k \in Int /\ 1 <= k /\ k + 3 <= y
      BY <3>2
    <3> QED
      BY <3>3
  <2>5. /\ u[(i + a) + 1] = t[i + 1] /\ u[(i + a) + 2] = t[i + 2] /\ u[(i + a) + 3] = t[i + 3]
    BY <1>2, <2>4
  <2> QED
    BY <2>1, <2>2, <2>4, <2>5 DEF WholeFrom, b
<1>4. ASSUME CatsWhole(s, n), CatsWhole(t, n), NEW j \in DOMAIN u,
             u[j].what = "start", u[j].cmd.of = n
      PROVE  WholeFrom(u, j)
  <2>1. CASE j <= a
    <3>1. j \in DOMAIN s /\ u[j] = s[j]
      BY <1>1, <1>2, <2>1
    <3>2. WholeFrom(s, j)
      BY <1>4, <3>1 DEF CatsWhole
    <3>3. j + 3 <= a
      BY <3>2 DEF WholeFrom, a
    <3>4. j + 1 \in 1..a /\ j + 2 \in 1..a /\ j + 3 \in 1..a /\ j + 3 <= a + b
      BY <1>1, <3>1, <3>3
    <3>5. u[j + 1] = s[j + 1] /\ u[j + 2] = s[j + 2] /\ u[j + 3] = s[j + 3]
      BY <1>2, <3>4
    <3> QED
      BY <1>1, <3>1, <3>2, <3>4, <3>5 DEF WholeFrom
  <2>2. CASE ~(j <= a)
    <3> DEFINE i == j - a
    <3>1. i \in 1..b /\ i + a = j
      BY <1>1, <2>2
    <3> HIDE DEF i
    <3>2. u[j] = t[i] /\ i \in DOMAIN t
      BY <1>1, <1>2, <3>1
    <3>3. WholeFrom(t, i)
      BY <1>4, <3>2 DEF CatsWhole
    <3>4. i + 3 <= b
      BY <3>3 DEF WholeFrom, b
    <3>5. /\ i + 1 \in 1..b /\ i + 2 \in 1..b /\ i + 3 \in 1..b /\ j + 3 <= a + b
          /\ (i + 1) + a = j + 1 /\ (i + 2) + a = j + 2 /\ (i + 3) + a = j + 3
      BY <1>1, <3>1, <3>4
    <3>6. u[j + 1] = t[i + 1] /\ u[j + 2] = t[i + 2] /\ u[j + 3] = t[i + 3]
      BY <1>2, <3>5
    <3> QED
      BY <1>1, <3>2, <3>3, <3>5, <3>6 DEF WholeFrom
  <2> QED
    BY <2>1, <2>2
<1> QED
  BY <1>3, <1>4 DEF CatsWhole, u

LEMMA CatTextWhole ==
  ASSUME NEW c \in SerialCommands, typedFile \in [Tools -> Seq(SerialLines)],
         typedFile["capture"] = Source, c.do = "cat", c.at = 0, NEW n
  PROVE  CatsWhole(CatText(c), n)
<1> DEFINE u == CatText(c)
<1>1. /\ u \in Seq(SerialPieces) /\ Len(u) = 4 /\ u[1] = Piece("start", c, NoNumber)
      /\ u[2] = Piece("text", c, 1) /\ u[3] = Piece("text", c, 2)
      /\ u[4] = Piece("end", c, NoNumber)
  <2>1. /\ u \in Seq(SerialPieces) /\ Len(u) = Len(Source) + 2
        /\ u[1] = Piece("start", c, NoNumber)
        /\ \A i \in 1..Len(Source) : u[i + 1] = Piece("text", c, Source[i].at)
        /\ u[Len(Source) + 2] = Piece("end", c, NoNumber)
    BY CatPrints
  <2>2. Len(Source) = 2 /\ Source[1].at = 1 /\ Source[2].at = 2
    BY SourceTypes DEF Line
  <2>3. 1 \in 1..2 /\ 2 \in 1..2 /\ 1 + 1 = 2 /\ 2 + 1 = 3 /\ 2 + 2 = 4
    OBVIOUS
  <2> HIDE DEF u
  <2>4. u[1 + 1] = Piece("text", c, 1) /\ u[2 + 1] = Piece("text", c, 2)
    BY <2>1, <2>2, <2>3
  <2> QED
    BY <2>1, <2>2, <2>3, <2>4
<1> HIDE DEF u
<1>2. \A w, v : Piece(w, c, v).what = w /\ Piece(w, c, v).cmd = c
  BY DEF Piece
<1>3. ASSUME NEW i \in DOMAIN u, u[i].what = "start"
      PROVE  WholeFrom(u, i)
  <2>1. i \in 1..4
    BY <1>1, LenProperties
  <2>2. i = 1
    <3>1. u[2].what = "text" /\ u[3].what = "text" /\ u[4].what = "end"
      BY <1>1, <1>2
    <3> QED
      BY <1>3, <2>1, <3>1
  <2>3. u[i].cmd = c /\ 1 + 1 = 2 /\ 1 + 2 = 3 /\ 1 + 3 = 4 /\ 4 <= 4
    BY <1>1, <1>2, <2>2
  <2> QED
    BY <1>1, <2>2, <2>3 DEF WholeFrom
<1> QED
  BY <1>3 DEF CatsWhole, u

(* qemu_copy_file takes what is between the sentinels: the whole text, if   *)
(* the whole text was printed.                                             *)
LEMMA BetweenTypes ==
  ASSUME NEW s \in Seq(SerialPieces)
  PROVE  /\ Between(s) \in Seq(SerialPieces)
         /\ Between(s) # <<>> =>
              \E i \in DOMAIN s, j \in DOMAIN s :
                /\ s[i].what = "start" /\ j \in StopsAfter(s, i)
                /\ \A x \in StopsAfter(s, i) : j <= x
                /\ Between(s) = SubSeq(s, i + 1, j - 1)
<1>1. Len(s) \in Nat /\ DOMAIN s = 1..Len(s) /\ \A i \in 1..Len(s) : s[i] \in SerialPieces
  BY LenProperties, ElementOfSeq
<1> DEFINE i == Least(Starts(s))
           j == Least(StopsAfter(s, i))
<1>2. \/ Between(s) = <<>>
      \/ i \in Starts(s) /\ StopsAfter(s, i) # {} /\ Between(s) = SubSeq(s, i + 1, j - 1)
  BY DEF Between
<1> HIDE DEF i
<1>3. StopsAfter(s, i) \subseteq Nat /\ StopsAfter(s, i) \subseteq DOMAIN s
  BY <1>1 DEF StopsAfter
<1>4. StopsAfter(s, i) # {} => j \in StopsAfter(s, i) /\ \A x \in StopsAfter(s, i) : j <= x
  BY <1>3, LeastIn
<1> HIDE DEF j
<1>5. ASSUME i \in Starts(s), StopsAfter(s, i) # {}
      PROVE  SubSeq(s, i + 1, j - 1) \in Seq(SerialPieces)
  <2>1. i \in 1..Len(s) /\ j \in 1..Len(s)
    BY <1>1, <1>3, <1>4, <1>5 DEF Starts
  <2>2. /\ i + 1 \in Int /\ j - 1 \in Int /\ \A x \in (i + 1)..(j - 1) : s[x] \in SerialPieces
    BY <1>1, <2>1
  <2> QED
    BY <2>2, SubSeqProperties
<1>6. <<>> \in Seq(SerialPieces)
  OBVIOUS
<1>7. i \in Starts(s) => i \in DOMAIN s /\ s[i].what = "start"
  BY DEF Starts
<1>8. Between(s) \in Seq(SerialPieces)
  BY <1>2, <1>5, <1>6
<1>9. ASSUME Between(s) # <<>>
      PROVE  /\ i \in DOMAIN s /\ j \in DOMAIN s /\ s[i].what = "start" /\ j \in StopsAfter(s, i)
             /\ \A x \in StopsAfter(s, i) : j <= x
             /\ Between(s) = SubSeq(s, i + 1, j - 1)
  BY <1>2, <1>3, <1>4, <1>7, <1>9
<1> QED
  BY <1>8, <1>9

LEMMA CaptureGets ==
  ASSUME NEW s \in Seq(SerialPieces), NEW u \in Seq(SerialPieces), Len(s) <= Len(u),
         \A i \in 1..Len(s) : s[i] = u[i], NEW n, CatsWhole(u, n),
         \A i \in DOMAIN s : s[i].cmd.of = n, Awaited = Cmd("cat", n, 0), Between(s) # <<>>
  PROVE  Len(Between(s)) = 2 /\ Between(s)[1].val = 1 /\ Between(s)[2].val = 2
<1>1. /\ Len(s) \in Nat /\ DOMAIN s = 1..Len(s) /\ DOMAIN u = 1..Len(u) /\ Len(u) \in Nat
      /\ \A i \in 1..Len(s) : s[i] \in SerialPieces
  BY LenProperties, ElementOfSeq
<1>2. PICK i \in DOMAIN s, j \in DOMAIN s :
         /\ s[i].what = "start" /\ j \in StopsAfter(s, i)
         /\ \A x \in StopsAfter(s, i) : j <= x
         /\ Between(s) = SubSeq(s, i + 1, j - 1)
  BY BetweenTypes
<1>3. /\ s[i].cmd.do = "cat" /\ s[i].cmd.at = 0 /\ i + 3 <= Len(u)
      /\ u[i + 1] = Piece("text", s[i].cmd, 1) /\ u[i + 2] = Piece("text", s[i].cmd, 2)
      /\ u[i + 3] = Piece("end", s[i].cmd, NoNumber)
  <2>1. i \in DOMAIN u /\ u[i] = s[i]
    BY <1>1
  <2>2. WholeFrom(u, i)
    BY <1>2, <2>1 DEF CatsWhole
  <2> QED
    BY <2>1, <2>2 DEF WholeFrom
<1>4. /\ Awaited.do = "cat" /\ Awaited.of = n /\ Awaited.at = 0 /\ s[i].cmd.of = n
      /\ \A w, v : /\ Piece(w, s[i].cmd, v).what = w /\ Piece(w, s[i].cmd, v).cmd = s[i].cmd
                   /\ Piece(w, s[i].cmd, v).val = v
  BY DEF Cmd, Piece
<1>5. /\ j > i /\ j \in 1..Len(s) /\ i \in 1..Len(s) /\ Shows(s[j], Awaited)
  BY <1>1, <1>2 DEF StopsAfter
<1>6. ~Shows(u[i + 1], Awaited) /\ ~Shows(u[i + 2], Awaited)
  BY <1>3, <1>4 DEF Shows
<1>7. j # i + 1 /\ j # i + 2
  BY <1>5, <1>6
<1>8. i + 1 \in 1..Len(s) /\ i + 2 \in 1..Len(s) /\ i + 3 \in 1..Len(s) /\ i + 3 > i
  BY <1>1, <1>5, <1>7
<1>9. i + 3 \in StopsAfter(s, i)
  <2>1. s[i + 3] = Piece("end", s[i].cmd, NoNumber)
    BY <1>3, <1>8
  <2>2. SameText(s[i].cmd, Awaited)
    BY <1>3, <1>4 DEF SameText
  <2>3. Shows(s[i + 3], Awaited)
    BY <1>4, <2>1, <2>2 DEF Shows
  <2> QED
    BY <1>1, <1>8, <2>3 DEF StopsAfter
<1>10. j = i + 3
  <2>1. j <= i + 3
    BY <1>2, <1>9
  <2> QED
    BY <1>1, <1>5, <1>7, <2>1
<1>11. Between(s) = SubSeq(s, i + 1, i + 2)
  <2>1. (i + 3) - 1 = i + 2
    BY <1>5
  <2> QED
    BY <1>2, <1>10, <2>1
<1>12. /\ Len(Between(s)) = 2 /\ Between(s)[1] = s[i + 1] /\ Between(s)[2] = s[i + 2]
  <2> DEFINE low == i + 1
             top == i + 2
  <2>1. low \in Int /\ top \in Int /\ \A x \in low..top : s[x] \in SerialPieces
    BY <1>1, <1>8
  <2>2. /\ low <= top /\ top - low + 1 = 2 /\ low + 1 - 1 = i + 1 /\ low + 2 - 1 = i + 2
    BY <1>5
  <2> HIDE DEF low, top
  <2>3. /\ Len(SubSeq(s, low, top)) = IF low <= top THEN top - low + 1 ELSE 0
        /\ \A x \in 1..(top - low + 1) : SubSeq(s, low, top)[x] = s[low + x - 1]
    BY <2>1, SubSeqProperties
  <2>4. 1 \in 1..(top - low + 1) /\ 2 \in 1..(top - low + 1)
    BY <2>2
  <2>5. /\ SubSeq(s, low, top)[1] = s[low + 1 - 1] /\ SubSeq(s, low, top)[2] = s[low + 2 - 1]
    BY <2>3, <2>4
  <2>6. SubSeq(s, low, top) = Between(s)
    BY <1>11 DEF low, top
  <2> QED
    BY <2>2, <2>3, <2>5, <2>6
<1> QED
  BY <1>3, <1>4, <1>8, <1>12

-----------------------------------------------------------------------------
(* SessionSerial: what becomes of a turn.                                  *)

LEMMA NowIs ==
  ASSUME SerialTyped, Latest > 0
  PROVE  /\ Now = TurnAt(Latest, turn) /\ Len(TurnsOf(Latest)) = TurnCount(Latest)
         /\ TurnCount(Latest) \in Nat \ {0} /\ Latest \in Nat /\ CallFits(serialCalls[Latest])
         /\ turn \in 1..TurnCount(Latest) /\ Latest \in 1..MaxSerialCalls
         /\ ToolOf(Latest) \in Tools /\ serialCalls[Latest].lines \in Nat
<1>1. Latest \in Nat
  BY LenProperties DEF SerialTyped, Latest
<1>2. Latest \in 1..Latest /\ Latest \in 1..MaxSerialCalls
  BY <1>1, SerialConstants DEF SerialTyped
<1>3. CallFits(serialCalls[Latest]) /\ turn \in 1..TurnCount(Latest)
  BY <1>2 DEF SerialTyped
<1>4. /\ Len(TurnsOf(Latest)) = TurnCount(Latest) /\ TurnCount(Latest) \in Nat \ {0}
      /\ \A at \in 1..TurnCount(Latest) : TurnsOf(Latest)[at] = TurnAt(Latest, at)
  BY <1>3, TurnsLaid
<1>5. Now = TurnAt(Latest, turn)
  BY <1>3, <1>4 DEF Now, Latest
<1> QED
  BY <1>1, <1>2, <1>3, <1>4, <1>5, CallSizes DEF ToolOf

(* The role of a turn says where in the script it is.                      *)
LEMMA TurnRoles ==
  ASSUME NEW n, CallFits(serialCalls[n]), NEW at \in 1..TurnCount(n)
  PROVE  LET now == TurnAt(n, at)
             t == ToolOf(n)
         IN  /\ now.role \in {"batch", "must"} => at < TurnCount(n)
             /\ now.role = "run" /\ at = TurnCount(n) => t = "place"
             /\ now.role = "check" =>
                  /\ at = TurnCount(n) /\ at > 1 /\ t \in {"write", "upload"}
                  /\ now.cmds = <<Cmd(IF t = "write" THEN "count" ELSE "size", n, 0)>>
             /\ now.role = "capture" =>
                  /\ at = TurnCount(n) /\ at > 1 /\ t = "capture"
                  /\ now.cmds = <<Cmd("cat", n, 0)>>
             /\ now.role \in {"any", "batch", "must", "run", "check", "capture"}
<1> DEFINE q == BatchesOf(serialCalls[n].lines)
           t == ToolOf(n)
           now == TurnAt(n, at)
<1>1. q \in Nat /\ t \in Tools
  BY CallSizes, BatchFacts DEF ToolOf
<1>2. TurnCount(n) = IF t = "send" THEN 1 ELSE IF t \in {"write", "place"} THEN q + 2 ELSE q + 3
  BY DEF TurnCount
<1>3. /\ t = "send" => now = Turn("any", <<Cmd("user", n, 0)>>)
      /\ t # "send" /\ at = 1 => now = Turn("any", <<>>)
      /\ t # "send" /\ at # 1 /\ at <= q + 1 =>
           now = Turn(IF t = "place" THEN "must" ELSE "batch", Batch(n, at - 1))
      /\ at # 1 /\ at = q + 2 /\ t = "write" => now = Turn("check", <<Cmd("count", n, 0)>>)
      /\ at # 1 /\ at = q + 2 /\ t = "capture" => now = Turn("run", <<Cmd("encode", n, 0)>>)
      /\ at # 1 /\ at = q + 2 /\ t \in {"place", "upload"} =>
           now = Turn("run", <<Cmd("decode", n, 0)>>)
      /\ at # 1 /\ ~(at <= q + 1) /\ at # q + 2 /\ t = "upload" =>
           now = Turn("check", <<Cmd("size", n, 0)>>)
      /\ at # 1 /\ ~(at <= q + 1) /\ at # q + 2 /\ t = "capture" =>
           now = Turn("capture", <<Cmd("cat", n, 0)>>)
  <2>1. at = q + 2 => ~(at <= q + 1)
    BY <1>1
  <2>2. t \in {"place", "upload"} => t # "send" /\ t # "write" /\ t # "capture"
    OBVIOUS
  <2> QED
    BY <2>1, <2>2 DEF TurnAt
<1>4. \A r, x : Turn(r, x).role = r /\ Turn(r, x).cmds = x
  BY DEF Turn
<1>5. \/ t = "send" /\ at = 1
      \/ t # "send" /\ at = 1
      \/ t # "send" /\ at # 1 /\ at <= q + 1 /\ at < TurnCount(n)
      \/ /\ at # 1 /\ at = q + 2 /\ t \in Tools \ {"send"}
         /\ (t \in {"write", "place"} <=> at = TurnCount(n))
      \/ /\ at # 1 /\ ~(at <= q + 1) /\ at # q + 2 /\ t \in {"upload", "capture"}
         /\ at = TurnCount(n)
  BY <1>1, <1>2 DEF Tools
<1>6. at # 1 => at > 1
  BY <1>1, <1>2
<1> HIDE DEF q, t, now
<1>7. CASE t = "send" /\ at = 1
  <2>1. now.role = "any"
    BY <1>3, <1>4, <1>7
  <2> QED
    BY <2>1 DEF now
<1>8. CASE t # "send" /\ at = 1
  <2>1. now.role = "any"
    BY <1>3, <1>4, <1>8
  <2> QED
    BY <2>1 DEF now
<1>9. CASE t # "send" /\ at # 1 /\ at <= q + 1 /\ at < TurnCount(n)
  <2>1. now.role \in {"must", "batch"}
    BY <1>3, <1>4, <1>9
  <2> QED
    BY <1>9, <2>1 DEF now
<1>10. CASE /\ at # 1 /\ at = q + 2 /\ t \in Tools \ {"send"}
            /\ (t \in {"write", "place"} <=> at = TurnCount(n))
  <2>1. CASE t = "write"
    <3>1. now.role = "check" /\ now.cmds = <<Cmd("count", n, 0)>>
      BY <1>3, <1>4, <1>10, <2>1
    <3> QED
      BY <1>6, <1>10, <2>1, <3>1 DEF now, t
  <2>2. CASE t # "write"
    <3>1. now.role = "run" /\ t \in {"capture", "place", "upload"}
      BY <1>3, <1>4, <1>10, <2>2 DEF Tools
    <3> QED
      BY <1>10, <3>1 DEF now, t
  <2> QED
    BY <2>1, <2>2
<1>11. CASE /\ at # 1 /\ ~(at <= q + 1) /\ at # q + 2 /\ t \in {"upload", "capture"}
            /\ at = TurnCount(n)
  <2>1. CASE t = "upload"
    <3>1. now.role = "check" /\ now.cmds = <<Cmd("size", n, 0)>>
      BY <1>3, <1>4, <1>11, <2>1
    <3> QED
      BY <1>6, <1>11, <2>1, <3>1 DEF now, t
  <2>2. CASE t = "capture"
    <3>1. now.role = "capture" /\ now.cmds = <<Cmd("cat", n, 0)>>
      BY <1>3, <1>4, <1>11, <2>2
    <3> QED
      BY <1>6, <1>11, <2>2, <3>1 DEF now, t
  <2> QED
    BY <1>11, <2>1, <2>2
<1> QED
  BY <1>5, <1>7, <1>8, <1>9, <1>10, <1>11 DEF t

(* The tool goes on to its next turn, or returns; the reply says how.      *)
LEMMA TurnEnds ==
  ASSUME SerialTyped, serialPc \in {"wait", "take"}, NEW found \in BOOLEAN, NEW s,
         Becomes(found, s)
  PROVE  /\ batchErrors' \in BOOLEAN
         /\ \/ /\ Proceeds /\ turn < TurnCount(Latest) /\ Now.role # "capture"
            \/ /\ turn' = turn /\ serialPc' = "idle" /\ serialReply' \notin {"none", "error"}
         /\ serialReply' \in {"confirmed", "differs", "unverified"} =>
              /\ ToolOf(Latest) \in {"write", "upload"} /\ turn' = TurnCount(Latest)
              /\ serialPc' = "idle" /\ turn' = turn
         /\ serialReply' = "confirmed" =>
              Now.role = "check" /\ found /\ Verdict(s, Awaited) = "confirmed"
         /\ serialReply' = "copied" =>
              /\ ToolOf(Latest) = "place" /\ turn' = TurnCount(Latest)
              /\ serialPc' = "idle" /\ turn' = turn
         /\ serialReply' = "captured" => Now.role = "capture" /\ captured' # <<>>
<1>1. Latest > 0 /\ serialReply = "none" /\ batchErrors \in BOOLEAN
  BY DEF SerialTyped
<1> DEFINE n == Latest
           role == Now.role
           atEnd == turn = TurnCount(n)
<1>2. /\ Now = TurnAt(n, turn) /\ Len(TurnsOf(n)) = TurnCount(n) /\ TurnCount(n) \in Nat \ {0}
      /\ CallFits(serialCalls[n]) /\ turn \in 1..TurnCount(n)
  BY <1>1, NowIs
<1>3. /\ role \in {"batch", "must"} => turn < TurnCount(n)
      /\ role = "run" /\ atEnd => ToolOf(n) = "place"
      /\ role = "check" => atEnd /\ ToolOf(n) \in {"write", "upload"}
      /\ role = "capture" => atEnd
  BY <1>2, TurnRoles
<1>4. ~atEnd => turn < TurnCount(n)
  BY <1>2
<1>5. \/ /\ role = "any"
         /\ IF atEnd THEN ReturnsSerial("answered") ELSE Proceeds /\ UNCHANGED batchErrors
      \/ /\ role = "batch"
         /\ \/ ReturnsSerial("incomplete")
            \/ Proceeds /\ batchErrors' = (batchErrors \/ ~found)
      \/ /\ role \in {"run", "must"}
         /\ \/ ReturnsSerial("failed")
            \/ atEnd /\ ReturnsSerial("copied")
            \/ ~atEnd /\ Proceeds /\ UNCHANGED batchErrors
      \/ role = "check" /\ ReturnsSerial(IF found THEN Verdict(s, Awaited) ELSE "unverified")
      \/ role = "capture" /\ ReturnsSerial(IF captured' = <<>> THEN "failed" ELSE "captured")
  <2>1. Len(TurnsOf(Len(serialCalls))) = TurnCount(n)
    BY <1>2 DEF Latest
  <2> QED
    BY <2>1 DEF Becomes
<1>6. Verdict(s, Awaited) \in {"confirmed", "differs", "unverified"}
  BY DEF Verdict
<1> HIDE DEF n, role, atEnd
<1>7. CASE role = "any"
  BY <1>1, <1>4, <1>5, <1>7 DEF ReturnsSerial, Proceeds, n, role
<1>8. CASE role = "batch"
  <2>1. turn < TurnCount(n)
    BY <1>3, <1>8
  <2>2. \/ ReturnsSerial("incomplete")
        \/ Proceeds /\ batchErrors' = (batchErrors \/ ~found)
    BY <1>5, <1>8
  <2>3. (batchErrors \/ ~found) \in BOOLEAN
    OBVIOUS
  <2> QED
    BY <1>1, <1>8, <2>1, <2>2, <2>3 DEF ReturnsSerial, Proceeds, n, role
<1>9. CASE role \in {"run", "must"}
  <2>1. CASE ReturnsSerial("failed")
    BY <1>1, <2>1 DEF ReturnsSerial
  <2>2. CASE atEnd /\ ReturnsSerial("copied")
    <3>1. ToolOf(n) = "place"
      BY <1>2, <1>3, <1>9, <2>2 DEF atEnd
    <3> QED
      BY <1>1, <2>2, <3>1 DEF ReturnsSerial, atEnd, n
  <2>3. CASE ~atEnd /\ Proceeds /\ UNCHANGED batchErrors
    BY <1>1, <1>4, <1>9, <2>3 DEF Proceeds, n, role
  <2> QED
    BY <1>5, <1>9, <2>1, <2>2, <2>3
<1>10. CASE role = "check"
  <2>1. atEnd /\ ToolOf(n) \in {"write", "upload"}
    BY <1>3, <1>10
  <2>2. ReturnsSerial(IF found THEN Verdict(s, Awaited) ELSE "unverified")
    BY <1>5, <1>10
  <2>3. /\ turn' = turn /\ serialPc' = "idle" /\ batchErrors' = batchErrors
        /\ serialReply' = IF found THEN Verdict(s, Awaited) ELSE "unverified"
    BY <2>2 DEF ReturnsSerial
  <2>4. serialReply' \in {"confirmed", "differs", "unverified"}
    BY <1>6, <2>3
  <2> QED
    BY <1>1, <1>10, <2>1, <2>3, <2>4 DEF atEnd, n, role
<1>11. CASE role = "capture"
  <2>1. ReturnsSerial(IF captured' = <<>> THEN "failed" ELSE "captured")
    BY <1>5, <1>11
  <2> QED
    BY <1>1, <1>11, <2>1 DEF ReturnsSerial, role
<1> QED
  BY <1>5, <1>7, <1>8, <1>9, <1>10, <1>11

-----------------------------------------------------------------------------
(* SessionSerial: what a step that leaves the calls alone has to show.      *)

LEMMA TypedStays ==
  ASSUME SerialTyped, UNCHANGED serialCalls,
         serialPc' \in {"idle", "type", "wait", "take"},
         Latest > 0 => turn' \in 1..TurnCount(Latest),
         serialPc' # "idle" => Latest > 0 /\ serialReply' = "none" /\ captured' = <<>>,
         Latest = 0 => serialReply' = serialReply,
         serialPc' # "take" => glimpse' = <<>>,
         glimpse' \in Seq(SerialPieces), outputBuffer' \in Seq(SerialPieces),
         wire' \in Seq(SerialPieces), captured' \in Seq(SerialPieces),
         toGuest' \in Seq(SerialCommands), echoedLines' \in Seq(SerialCommands),
         typedFile' \in [Tools -> Seq(SerialLines)], madeFile' \in [Tools -> Seq(SerialLines)],
         batchErrors' \in BOOLEAN, running' \in BOOLEAN,
         faultSince' \in BOOLEAN, fromQuiet' \in BOOLEAN
  PROVE  SerialTyped'
<1>1. Latest' = Latest /\ TurnCount(Latest)' = TurnCount(Latest)
  BY DEF Latest, TurnCount, ToolOf
<1>2. /\ serialCalls' \in Seq(SerialCallSet)
      /\ Latest <= MaxSerialCalls /\ \A n \in 1..Latest : CallFits(serialCalls[n])'
  BY DEF SerialTyped
<1> QED
  BY <1>1, <1>2 DEF SerialTyped

LEMMA QueueStays ==
  ASSUME QueueProper, UNCHANGED serialCalls,
         \A c \in PiecesIn(echoedLines') \cup PiecesIn(toGuest') :
           c \in PiecesIn(echoedLines) \cup PiecesIn(toGuest),
         \A p \in PiecesIn(outputBuffer') \cup PiecesIn(wire') : PieceFits(p, Latest),
         OldFirst(ToRun')
  PROVE  QueueProper'
<1>1. Latest' = Latest
  BY DEF Latest
<1> QED
  BY <1>1 DEF QueueProper

LEMMA ProgressStays ==
  ASSUME Progress, UNCHANGED <<serialCalls, typedFile, madeFile, faultSince, fromQuiet>>,
         ToRun' = ToRun, Latest > 0 => Typed' = Typed /\ AllTyped',
         \A p \in PiecesIn(outputBuffer') \cup PiecesIn(wire') :
           IsNumber(p) => p \in PiecesIn(outputBuffer) \cup PiecesIn(wire),
         Latest > 0 => \A k \in 0..Typed : RunSoFar(k) => Confirmed(k)'
  PROVE  Progress'
<1>1. Latest' = Latest
  BY DEF Latest
<1>2. ASSUME Latest > 0
      PROVE  Typed' \in Nat /\ AllTyped' /\ \E k \in 0..Typed' : RunSoFar(k)'
  <2>1. Typed \in Nat /\ Typed' = Typed /\ AllTyped'
    BY <1>2 DEF Progress
  <2>2. PICK k \in 0..Typed : RunSoFar(k)
    BY <1>2 DEF Progress
  <2>3. Ordered(serialCalls, ToRun, k, Typed)'
    BY <2>1, <2>2 DEF RunSoFar
  <2>4. FilesMade(k)'
    <3>1. FilesMade(k)
      BY <2>2 DEF RunSoFar
    <3> QED
      BY <1>1, <3>1 DEF FilesMade, ToolOf
  <2>5. NumbersTrue(k)'
    <3>1. NumbersTrue(k)
      BY <2>2 DEF RunSoFar
    <3>2. /\ CommandCount(Latest)' = CommandCount(Latest) /\ Made(Latest)' = Made(Latest)
          /\ ToolOf(Latest)' = ToolOf(Latest)
      BY <1>1 DEF CommandCount, Made, ToolOf
    <3> QED
      BY <1>1, <3>1, <3>2 DEF NumbersTrue
  <2>6. Confirmed(k)'
    BY <1>2, <2>2
  <2>7. RunSoFar(k)'
    BY <2>3, <2>4, <2>5, <2>6 DEF RunSoFar
  <2> QED
    BY <2>1, <2>2, <2>7
<1> QED
  BY <1>1, <1>2 DEF Progress

LEMMA ConfirmedStays ==
  ASSUME UNCHANGED <<serialCalls, typedFile, madeFile, fromQuiet>>,
         serialReply' = serialReply \/ serialReply' # "confirmed", NEW k, Confirmed(k)
  PROVE  Confirmed(k)'
<1>1. Latest' = Latest
  BY DEF Latest
<1>2. /\ CommandCount(Latest)' = CommandCount(Latest) /\ Made(Latest)' = Made(Latest)
      /\ ToolOf(Latest)' = ToolOf(Latest)
  BY <1>1 DEF CommandCount, Made, ToolOf
<1> QED
  BY <1>1, <1>2 DEF Confirmed

LEMMA AllTypedStays ==
  ASSUME AllTyped, UNCHANGED serialCalls, Typed' = Typed, serialReply' = serialReply
  PROVE  AllTyped'
<1>1. Latest' = Latest
  BY DEF Latest
<1>2. CommandCount(Latest)' = CommandCount(Latest) /\ ToolOf(Latest)' = ToolOf(Latest)
  BY <1>1 DEF CommandCount, ToolOf
<1> QED
  BY <1>1, <1>2 DEF AllTyped

-----------------------------------------------------------------------------
(* SessionSerial: the steps that only look, or read.                       *)

LEMMA ExitKeeps ==
  ASSUME SerialInv, running' \in BOOLEAN,
         UNCHANGED <<bufferVars, toolVars, guestLines, typedFile, madeFile, serialFaults, faultSince>>
  PROVE  SerialInv'
<1> USE DEF bufferVars, toolVars, guestLines
<1>1. SerialTyped'
  BY TypedStays DEF SerialInv, SerialTyped
<1>2. Latest' = Latest /\ ToRun' = ToRun /\ Unread' = Unread /\ Typed' = Typed
  BY DEF Latest, ToRun, Unread, Typed
<1>3. QueueProper'
  BY <1>2, QueueStays DEF SerialInv, QueueProper
<1>4. OwnOnly' /\ GlimpseFirst'
  BY <1>2 DEF SerialInv, OwnOnly, GlimpseFirst
<1>5. Progress'
  <2>1. ASSUME Latest > 0
        PROVE  AllTyped'
    BY <1>2, <2>1, AllTypedStays DEF SerialInv, Progress
  <2>2. ASSUME NEW k, RunSoFar(k)
        PROVE  Confirmed(k)'
    BY <2>2, ConfirmedStays DEF RunSoFar
  <2> QED
    BY <1>2, <2>1, <2>2, ProgressStays DEF SerialInv
<1>6. CaptureWhole'
  BY <1>2 DEF SerialInv, CaptureWhole
<1> QED
  BY <1>1, <1>3, <1>4, <1>5, <1>6 DEF SerialInv

LEMMA FindsKeeps ==
  ASSUME SerialInv, Finds
  PROVE  SerialInv'
<1>1. /\ serialPc = "wait" /\ serialPc' = "take" /\ glimpse' = outputBuffer
      /\ UNCHANGED <<outputBuffer, handedOut, wire, serialCalls, turn, batchErrors, captured,
                     serialReply, fromQuiet, toGuest, echoedLines, printedPieces,
                     typedFile, madeFile, running, serialFaults, faultSince>>
  BY DEF Finds, bufferVars, guestLines, guestFiles
<1>2. SerialTyped'
  BY <1>1, TypedStays DEF SerialInv, SerialTyped
<1>3. Latest' = Latest /\ ToRun' = ToRun /\ Unread' = Unread
  BY <1>1 DEF Latest, ToRun, Unread
<1>4. Typed' = Typed
  BY <1>1, <1>3 DEF Typed
<1>5. QueueProper'
  BY <1>1, <1>3, QueueStays DEF SerialInv, QueueProper
<1>6. OwnOnly' /\ GlimpseFirst'
  <2>1. Len(outputBuffer) \in Nat
    BY LenProperties DEF SerialInv, SerialTyped
  <2> QED
    BY <1>1, <1>3, <2>1 DEF SerialInv, OwnOnly, GlimpseFirst
<1>7. Progress'
  <2>1. ASSUME Latest > 0
        PROVE  AllTyped'
    BY <1>1, <1>4, <2>1, AllTypedStays DEF SerialInv, Progress
  <2>2. ASSUME NEW k, RunSoFar(k)
        PROVE  Confirmed(k)'
    BY <1>1, <2>2, ConfirmedStays DEF RunSoFar
  <2> QED
    BY <1>1, <1>3, <1>4, <2>1, <2>2, ProgressStays DEF SerialInv
<1>8. CaptureWhole'
  BY <1>1, <1>3 DEF SerialInv, CaptureWhole
<1> QED
  BY <1>2, <1>5, <1>6, <1>7, <1>8 DEF SerialInv

LEMMA ReadsKeeps ==
  ASSUME SerialInv, Reads
  PROVE  SerialInv'
<1> DEFINE p0 == Head(wire)
<1>1. /\ wire # <<>> /\ outputBuffer' = Append(outputBuffer, p0) /\ wire' = Tail(wire)
      /\ UNCHANGED <<handedOut, serialPc, serialCalls, turn, batchErrors, glimpse, captured,
                     serialReply, fromQuiet, toGuest, echoedLines, printedPieces,
                     typedFile, madeFile, running, serialFaults, faultSince>>
  BY DEF Reads, toolVars, guestLines, guestFiles
<1>2. wire \in Seq(SerialPieces) /\ outputBuffer \in Seq(SerialPieces)
  BY DEF SerialInv, SerialTyped
<1>3. /\ p0 \in SerialPieces /\ wire' \in Seq(SerialPieces)
      /\ PiecesIn(wire) = {p0} \cup PiecesIn(wire')
  BY <1>1, <1>2, PiecesHead
<1>4. Unread' = Unread
  BY <1>1, <1>2, ShiftOne DEF Unread
<1> HIDE DEF p0
<1>5. /\ outputBuffer' \in Seq(SerialPieces) /\ Len(outputBuffer') = Len(outputBuffer) + 1
      /\ PiecesIn(outputBuffer') = PiecesIn(outputBuffer) \cup {p0}
  BY <1>1, <1>2, <1>3, PiecesAppend
<1>6. SerialTyped'
  BY <1>1, <1>3, <1>5, TypedStays DEF SerialInv, SerialTyped
<1>7. Latest' = Latest /\ ToRun' = ToRun
  BY <1>1 DEF Latest, ToRun
<1>8. Typed' = Typed
  BY <1>1, <1>7 DEF Typed
<1>9. PiecesIn(outputBuffer') \cup PiecesIn(wire') = PiecesIn(outputBuffer) \cup PiecesIn(wire)
  BY <1>3, <1>5
<1>10. QueueProper'
  BY <1>1, <1>7, <1>9, QueueStays DEF SerialInv, QueueProper
<1>11. OwnOnly'
  <2>1. OwnOnly
    BY DEF SerialInv
  <2> QED
    BY <1>1, <1>3, <1>5, <1>7, <2>1 DEF OwnOnly
<1>12. GlimpseFirst'
  <2>1. ASSUME serialPc = "take"
        PROVE  /\ Len(glimpse) <= Len(outputBuffer')
               /\ \A i \in 1..Len(glimpse) : glimpse[i] = outputBuffer'[i]
    <3>1. Len(glimpse) <= Len(outputBuffer) /\ \A i \in 1..Len(glimpse) : glimpse[i] = outputBuffer[i]
      BY <2>1 DEF SerialInv, GlimpseFirst
    <3>2. Len(glimpse) \in Nat /\ Len(outputBuffer) \in Nat
      BY LenProperties DEF SerialInv, SerialTyped
    <3>3. \A i \in 1..Len(outputBuffer) : outputBuffer'[i] = outputBuffer[i]
      BY <1>1, <1>2, <1>3, AppendProperties
    <3> QED
      BY <1>5, <3>1, <3>2, <3>3
  <2> QED
    BY <1>1, <2>1 DEF GlimpseFirst
<1>13. Progress'
  <2>1. ASSUME Latest > 0
        PROVE  AllTyped'
    BY <1>1, <1>8, <2>1, AllTypedStays DEF SerialInv, Progress
  <2>2. ASSUME NEW k, RunSoFar(k)
        PROVE  Confirmed(k)'
    BY <1>1, <2>2, ConfirmedStays DEF RunSoFar
  <2> QED
    BY <1>1, <1>7, <1>8, <1>9, <2>1, <2>2, ProgressStays DEF SerialInv
<1>14. CaptureWhole'
  BY <1>1, <1>4, <1>7 DEF SerialInv, CaptureWhole
<1> QED
  BY <1>6, <1>10, <1>11, <1>12, <1>13, <1>14 DEF SerialInv

(* The terminal echoes a line: the queue is the same.                      *)
LEMMA EchoesKeeps ==
  ASSUME SerialInv, Echoes
  PROVE  SerialInv'
<1> DEFINE c == Head(toGuest)
           out == IF c.do = "line" THEN <<>> ELSE <<Piece("echo", c, NoNumber)>>
<1>1. /\ toGuest # <<>> /\ echoedLines' = Append(echoedLines, c) /\ toGuest' = Tail(toGuest)
      /\ wire' = wire \o out
      /\ UNCHANGED <<outputBuffer, handedOut, serialPc, serialCalls, turn, batchErrors, glimpse,
                     captured, serialReply, fromQuiet,
                     typedFile, madeFile, running, serialFaults, faultSince>>
  BY DEF Echoes, WritesOut, toolVars, guestFiles
<1>2. /\ wire \in Seq(SerialPieces) /\ outputBuffer \in Seq(SerialPieces)
      /\ toGuest \in Seq(SerialCommands) /\ echoedLines \in Seq(SerialCommands)
  BY DEF SerialInv, SerialTyped
<1>3. /\ c \in SerialCommands /\ toGuest' \in Seq(SerialCommands)
      /\ PiecesIn(toGuest) = {c} \cup PiecesIn(toGuest')
  BY <1>1, <1>2, PiecesHead
<1>4. ToRun' = ToRun
  BY <1>1, <1>2, ShiftOne DEF ToRun
<1> HIDE DEF c
<1>5. /\ echoedLines' \in Seq(SerialCommands)
      /\ PiecesIn(echoedLines') = PiecesIn(echoedLines) \cup {c}
  BY <1>1, <1>2, <1>3, PiecesAppend
<1>6. out \in Seq(SerialPieces) /\ \A p \in PiecesIn(out) : p.cmd = c /\ p.what = "echo"
  <2> DEFINE e == Piece("echo", c, NoNumber)
  <2>1. e \in SerialPieces /\ e.cmd = c /\ e.what = "echo"
    BY <1>3 DEF Piece, SerialPieces
  <2> HIDE DEF e
  <2>2. <<e>> \in Seq(SerialPieces) /\ PiecesIn(<<e>>) = {e}
    BY <2>1, OnePiece
  <2> QED
    BY <2>1, <2>2, NoPieces DEF e
<1> HIDE DEF out
<1>7. wire' \in Seq(SerialPieces) /\ PiecesIn(wire') = PiecesIn(wire) \cup PiecesIn(out)
  BY <1>1, <1>2, <1>6, PiecesJoined
<1>8. SerialTyped'
  BY <1>1, <1>3, <1>5, <1>7, TypedStays DEF SerialInv, SerialTyped
<1>9. Latest' = Latest
  BY <1>1 DEF Latest
<1>10. Typed' = Typed
  BY <1>1, <1>9 DEF Typed
<1>11. QueueProper'
  <2>1. QueueProper
    BY DEF SerialInv
  <2>2. Proper(serialCalls, c)
    BY <1>3, <2>1 DEF QueueProper
  <2>3. c.of <= Latest
    BY <2>2 DEF Proper, Latest
  <2>4. \A p \in PiecesIn(outputBuffer') \cup PiecesIn(wire') : PieceFits(p, Latest)
    BY <1>1, <1>6, <1>7, <2>1, <2>3 DEF QueueProper, PieceFits
  <2>5. OldFirst(ToRun')
    BY <1>4, <2>1 DEF QueueProper
  <2> QED
    BY <1>1, <1>3, <1>5, <2>1, <2>4, <2>5, QueueStays
<1>12. OwnOnly'
  <2>1. OwnOnly
    BY DEF SerialInv
  <2> QED
    BY <1>1, <1>3, <1>5, <1>6, <1>7, <1>9, <2>1 DEF OwnOnly
<1>13. GlimpseFirst'
  BY <1>1 DEF SerialInv, GlimpseFirst
<1>14. Progress'
  <2>1. ASSUME Latest > 0
        PROVE  AllTyped'
    BY <1>1, <1>10, <2>1, AllTypedStays DEF SerialInv, Progress
  <2>2. ASSUME NEW k, RunSoFar(k)
        PROVE  Confirmed(k)'
    BY <1>1, <2>2, ConfirmedStays DEF RunSoFar
  <2>3. \A p \in PiecesIn(outputBuffer') \cup PiecesIn(wire') :
           IsNumber(p) => p \in PiecesIn(outputBuffer) \cup PiecesIn(wire)
    BY <1>1, <1>6, <1>7 DEF IsNumber
  <2> QED
    BY <1>1, <1>4, <1>10, <2>1, <2>2, <2>3, ProgressStays DEF SerialInv
<1>15. CaptureWhole'
  <2>1. CatsWhole(out, Latest)
    BY <1>6, CatsNone
  <2>2. Unread' = Unread \o out /\ Unread \in Seq(SerialPieces)
    <3>1. outputBuffer \o (wire \o out) = (outputBuffer \o wire) \o out
      BY <1>2, <1>6, JoinedTwice
    <3>2. outputBuffer \o wire \in Seq(SerialPieces)
      BY <1>2, ConcatProperties
    <3> QED
      BY <1>1, <3>1, <3>2 DEF Unread
  <2>3. CatsWhole(Unread, Latest) => CatsWhole(Unread', Latest)
    BY <1>6, <2>1, <2>2, CatsJoined
  <2> QED
    BY <1>1, <1>9, <2>3 DEF SerialInv, CaptureWhole
<1> QED
  BY <1>8, <1>11, <1>12, <1>13, <1>14, <1>15 DEF SerialInv

-----------------------------------------------------------------------------
(* SessionSerial: a call begins, types, and comes to the end of a turn.     *)

LEMMA BeginKeeps ==
  ASSUME SerialInv, NEW tool \in Tools, NEW l \in SerialSizes \cup {0},
         NEW renamed \in BOOLEAN, l > 0 <=> tool \in FileTools, renamed => tool = "place",
         BeginSerial(tool, l, renamed)
  PROVE  SerialInv'
<1> DEFINE x == [tool |-> tool, lines |-> l, renamed |-> renamed]
           n == Latest + 1
<1>1. /\ serialPc = "idle" /\ Latest < MaxSerialCalls /\ serialCalls' = Append(serialCalls, x)
      /\ turn' = 1 /\ batchErrors' = FALSE /\ captured' = <<>> /\ serialReply' = "none"
      /\ fromQuiet' = Quiet /\ faultSince' = FALSE /\ serialPc' = "type"
      /\ UNCHANGED <<outputBuffer, handedOut, wire, glimpse, toGuest, echoedLines, printedPieces,
                     typedFile, madeFile, running, serialFaults>>
  BY DEF BeginSerial, bufferVars, guestLines, Latest
<1>2. SerialTyped /\ QueueProper
  BY DEF SerialInv
<1>3. x \in SerialCallSet /\ CallFits(x) /\ x.lines = l /\ x.tool = tool
  BY DEF CallFits, SerialCallSet
<1> HIDE DEF x
<1>4. /\ Latest \in Nat /\ n \in Nat /\ n > 0 /\ n <= MaxSerialCalls
      /\ serialCalls' \in Seq(SerialCallSet) /\ Latest' = n
      /\ serialCalls'[n] = x /\ \A i \in 1..Latest : serialCalls'[i] = serialCalls[i]
  <2>1. serialCalls \in Seq(SerialCallSet)
    BY <1>2 DEF SerialTyped
  <2>2. /\ Len(serialCalls) \in Nat
        /\ serialCalls' \in Seq(SerialCallSet)
        /\ Len(serialCalls') = Len(serialCalls) + 1
        /\ serialCalls'[Len(serialCalls) + 1] = x
        /\ \A i \in 1..Len(serialCalls) : serialCalls'[i] = serialCalls[i]
    BY <1>1, <1>3, <2>1, AppendProperties, LenProperties
  <2> QED
    BY <1>1, <2>2, SerialConstants DEF Latest
<1> HIDE DEF n
<1>5. \A i \in 1..n : CallFits(serialCalls'[i])
  <2>1. \A i \in 1..n : i = n \/ i \in 1..Latest
    BY <1>4 DEF n
  <2> QED
    BY <1>2, <1>3, <1>4, <2>1 DEF SerialTyped
<1>6. 1 \in 1..TurnCount(Latest)'
  <2>1. TurnCount(Latest)' \in Nat \ {0}
    <3> DEFINE q == BatchesOf(x.lines)
    <3>1. x.lines \in Nat /\ q \in Nat
      BY <1>3, CallSizes, BatchFacts
    <3> HIDE DEF q
    <3>2. TurnCount(Latest)' = IF x.tool = "send" THEN 1
                               ELSE IF x.tool \in {"write", "place"} THEN q + 2 ELSE q + 3
      BY <1>4 DEF TurnCount, ToolOf, q
    <3> QED
      BY <3>1, <3>2
  <2> QED
    BY <2>1
<1>7. SerialTyped'
  <2>1. 1 \in 1..TurnCount(Latest)' /\ fromQuiet' \in BOOLEAN
    BY <1>1, <1>6 DEF Quiet
  <2>2. \A i \in 1..Latest' : CallFits(serialCalls[i])'
    BY <1>4, <1>5 DEF CallFits
  <2>3. Latest' <= MaxSerialCalls /\ Latest' > 0 /\ <<>> \in Seq(SerialPieces)
    BY <1>4
  <2> QED
    BY <1>1, <1>2, <1>4, <2>1, <2>2, <2>3 DEF SerialTyped
<1>8. /\ \A c \in PiecesIn(echoedLines) \cup PiecesIn(toGuest) :
           Proper(serialCalls, c) /\ Proper(serialCalls', c) /\ c.of < n
      /\ \A p \in PiecesIn(outputBuffer) \cup PiecesIn(wire) : p.cmd.of < n \/ ~(p.cmd.of <= Latest)
  <2>1. ASSUME NEW c, Proper(serialCalls, c)
        PROVE  Proper(serialCalls', c) /\ c.of < n
    <3>1. c.of \in 1..Latest
      BY <2>1 DEF Proper, Latest
    <3>2. c.of \in 1..n /\ c.of < n /\ serialCalls'[c.of] = serialCalls[c.of]
      BY <1>4, <3>1 DEF n
    <3>3. Len(serialCalls') = n
      BY <1>4 DEF Latest
    <3> QED
      BY <2>1, <3>2, <3>3 DEF Proper
  <2>2. \A c \in PiecesIn(echoedLines) \cup PiecesIn(toGuest) : Proper(serialCalls, c)
    BY <1>2 DEF QueueProper
  <2>3. ASSUME NEW p \in PiecesIn(outputBuffer) \cup PiecesIn(wire)
        PROVE  p.cmd.of < n
    <3>1. p \in SerialPieces
      BY <1>2 DEF SerialTyped, PiecesIn
    <3>2. p.cmd.of \in Nat
      BY <3>1, CommandTypes DEF SerialPieces
    <3>3. p.cmd.of <= Latest
      BY <1>2 DEF QueueProper, PieceFits
    <3> QED
      BY <1>4, <3>2, <3>3 DEF n
  <2> QED
    BY <2>1, <2>2, <2>3
<1>9. \A p \in PiecesIn(outputBuffer) \cup PiecesIn(wire) :
         p \in SerialPieces /\ p.cmd.of \in Nat /\ p.cmd.of <= n /\ p.cmd.of # n
  <2>1. ASSUME NEW p \in PiecesIn(outputBuffer) \cup PiecesIn(wire)
        PROVE  p \in SerialPieces /\ p.cmd.of \in Nat /\ p.cmd.of <= n /\ p.cmd.of # n
    <3>1. p \in SerialPieces
      BY <1>2 DEF SerialTyped, PiecesIn
    <3>2. p.cmd.of \in Nat
      BY <3>1, CommandTypes DEF SerialPieces
    <3>3. p.cmd.of <= Latest
      BY <1>2 DEF QueueProper, PieceFits
    <3> QED
      BY <1>4, <3>1, <3>2, <3>3 DEF n
  <2> QED
    BY <2>1
<1>10. ToRun' = ToRun /\ Unread' = Unread
  BY <1>1 DEF ToRun, Unread
<1>11. QueueProper'
  <2>1. OldFirst(ToRun')
    BY <1>2, <1>10 DEF QueueProper
  <2>2. ASSUME NEW p \in PiecesIn(outputBuffer) \cup PiecesIn(wire)
        PROVE  PieceFits(p, n)
    <3>1. PieceFits(p, Latest) /\ p.cmd.of <= n
      BY <1>2, <1>9 DEF QueueProper
    <3> QED
      BY <3>1 DEF PieceFits
  <2> QED
    BY <1>1, <1>4, <1>8, <2>1, <2>2 DEF QueueProper
<1>12. OwnOnly'
  <2>1. ASSUME fromQuiet'
        PROVE  PiecesIn(echoedLines') = {} /\ PiecesIn(toGuest') = {} /\ PiecesIn(wire') = {}
    <3>1. echoedLines' = <<>> /\ toGuest' = <<>> /\ wire' = <<>>
      BY <1>1, <2>1 DEF Quiet
    <3> QED
      BY <3>1, NoPieces
  <2>2. ~(turn' > 1)
    BY <1>1
  <2> QED
    BY <2>1, <2>2 DEF OwnOnly
<1>13. GlimpseFirst'
  BY <1>1 DEF GlimpseFirst
<1>14. Progress'
  <2>1. Typed' = 0
    <3>1. Typed' = TypedBy(x.lines, 0)
      BY <1>1, <1>4 DEF Typed, TypedBy, EndOf, BatchesOf
    <3> QED
      BY <3>1 DEF TypedBy
  <2>2. AllTyped'
    BY <1>1 DEF AllTyped
  <2>3. Ordered(serialCalls', ToRun', 0, 0)
    <3>1. ToRun \in Seq(SerialCommands)
          /\ PiecesIn(ToRun) = PiecesIn(echoedLines) \cup PiecesIn(toGuest)
      BY <1>2, PiecesJoined DEF SerialTyped, ToRun
    <3>2. \A i \in DOMAIN ToRun : ToRun[i] \in PiecesIn(echoedLines) \cup PiecesIn(toGuest)
      BY <3>1 DEF PiecesIn
    <3>3. \A i \in DOMAIN ToRun : ToRun[i].of # Len(serialCalls')
      <4>1. \A i \in DOMAIN ToRun : ToRun[i] \in SerialCommands
        BY <3>1, ElementOfSeq, LenProperties
      <4>2. \A i \in DOMAIN ToRun : ToRun[i].of \in Nat /\ ToRun[i].of < n
        BY <1>8, <3>2, <4>1, CommandTypes
      <4>3. Len(serialCalls') = n
        BY <1>4 DEF Latest
      <4> QED
        BY <1>4, <4>2, <4>3
    <3> QED
      BY <1>10, <3>3, OrderedNew
  <2>4. FilesMade(0)'
    <3> DEFINE l0 == serialCalls'[Latest'].lines
    <3>1. l0 \in Nat
      BY <1>3, <1>4, CallSizes
    <3>2. ~(0 \in 1..l0) /\ ~(0 > l0) /\ ~(0 > 0)
      BY <3>1
    <3> QED
      BY <3>2 DEF FilesMade
  <2>5. NumbersTrue(0)'
    BY <1>1, <1>4, <1>9 DEF NumbersTrue
  <2>6. Confirmed(0)'
    BY <1>1 DEF Confirmed
  <2>7. RunSoFar(0)'
    BY <2>1, <2>3, <2>4, <2>5, <2>6 DEF RunSoFar
  <2> QED
    BY <2>1, <2>2, <2>7 DEF Progress
<1>15. CaptureWhole'
  <2>1. PiecesIn(Unread) = PiecesIn(outputBuffer) \cup PiecesIn(wire)
    BY <1>2, PiecesJoined DEF SerialTyped, Unread
  <2>2. CatsWhole(Unread, n)
    BY <1>9, <2>1, CatsNone
  <2> QED
    BY <1>1, <1>4, <1>10, <2>2 DEF CaptureWhole
<1> QED
  BY <1>7, <1>11, <1>12, <1>13, <1>14, <1>15 DEF SerialInv

LEMMA QueueTypes ==
  ASSUME SerialTyped, QueueProper
  PROVE  /\ ToRun \in Seq(SerialCommands)
         /\ PiecesIn(ToRun) = PiecesIn(echoedLines) \cup PiecesIn(toGuest)
         /\ \A i \in DOMAIN ToRun :
              ToRun[i] \in SerialCommands /\ Proper(serialCalls, ToRun[i]) /\ ToRun[i].of <= Latest
<1>1. ToRun \in Seq(SerialCommands)
      /\ PiecesIn(ToRun) = PiecesIn(echoedLines) \cup PiecesIn(toGuest)
  BY PiecesJoined DEF SerialTyped, ToRun
<1>2. \A i \in DOMAIN ToRun : ToRun[i] \in PiecesIn(ToRun)
  BY DEF PiecesIn
<1>3. \A i \in DOMAIN ToRun : ToRun[i] \in SerialCommands
  BY <1>1, ElementOfSeq, LenProperties
<1>4. \A i \in DOMAIN ToRun : Proper(serialCalls, ToRun[i])
  BY <1>1, <1>2 DEF QueueProper
<1>5. \A i \in DOMAIN ToRun : ToRun[i].of <= Latest
  BY <1>4 DEF Proper, Latest
<1> QED
  BY <1>1, <1>3, <1>4, <1>5

LEMMA TypesKeeps ==
  ASSUME SerialInv, Types
  PROVE  SerialInv'
<1>1. /\ serialPc = "type"
      /\ \/ /\ toGuest' = toGuest \o Now.cmds
            /\ serialPc' = "wait" /\ UNCHANGED <<turn, batchErrors, serialReply>>
         \/ /\ serialPc' = "idle" /\ serialReply' = "error"
            /\ UNCHANGED <<turn, batchErrors, toGuest>>
      /\ UNCHANGED <<outputBuffer, handedOut, wire, serialCalls, glimpse, captured, fromQuiet,
                     echoedLines, printedPieces, typedFile, madeFile, running, serialFaults,
                     faultSince>>
  BY DEF Types, ReturnsSerial, bufferVars, guestFiles
<1>2. SerialTyped /\ QueueProper /\ Latest > 0 /\ serialReply = "none"
  BY <1>1 DEF SerialInv, SerialTyped
<1>3. /\ Now = TurnAt(Latest, turn) /\ Latest \in Nat /\ CallFits(serialCalls[Latest])
      /\ turn \in 1..TurnCount(Latest) /\ Latest \in 1..MaxSerialCalls
  BY <1>2, NowIs
<1> DEFINE cmds == Now.cmds
           l == serialCalls[Latest].lines
           m == TypedBy(l, turn - 1)
           e == TypedBy(l, turn)
<1>4. /\ cmds \in Seq(SerialCommands)
      /\ \A i \in DOMAIN cmds : cmds[i].of = Latest /\ Proper(serialCalls, cmds[i])
      /\ m \in Nat /\ e \in Nat /\ m <= e /\ Ordered(serialCalls, cmds, m, e)
  <2>1. Latest = Len(serialCalls)
    BY DEF Latest
  <2> QED
    BY <1>3, <2>1, TurnTypes
<1>5. Typed = m
  BY <1>1 DEF Typed
<1> HIDE DEF cmds, l, m, e
<1>6. Latest' = Latest /\ Unread' = Unread
  BY <1>1 DEF Latest, Unread
<1>7. OwnOnly /\ GlimpseFirst /\ Progress /\ CaptureWhole
  BY DEF SerialInv
<1>8. toGuest \in Seq(SerialCommands) /\ echoedLines \in Seq(SerialCommands)
  BY <1>2 DEF SerialTyped
<1>9. GlimpseFirst' /\ CaptureWhole'
  BY <1>1, <1>6, <1>7 DEF GlimpseFirst, CaptureWhole
<1>10. CASE serialPc' = "idle" /\ serialReply' = "error" /\ UNCHANGED <<turn, batchErrors, toGuest>>
  <2>1. SerialTyped'
    BY <1>1, <1>2, <1>10, TypedStays DEF SerialTyped
  <2>2. ToRun' = ToRun /\ Typed' = Typed
    BY <1>1, <1>5, <1>6, <1>10 DEF ToRun, Typed, l, m
  <2>3. QueueProper' /\ OwnOnly'
    <3>1. QueueProper'
      BY <1>1, <1>2, <1>10, <2>2, QueueStays DEF QueueProper
    <3> QED
      BY <1>1, <1>6, <1>7, <1>10, <3>1 DEF OwnOnly
  <2>4. AllTyped'
    BY <1>10 DEF AllTyped
  <2>5. ASSUME NEW k, RunSoFar(k)
        PROVE  Confirmed(k)'
    BY <1>10 DEF Confirmed
  <2>6. Progress'
    BY <1>1, <1>7, <2>2, <2>4, <2>5, ProgressStays
  <2> QED
    BY <1>9, <2>1, <2>3, <2>6 DEF SerialInv
<1>11. CASE /\ toGuest' = toGuest \o cmds
            /\ serialPc' = "wait" /\ UNCHANGED <<turn, batchErrors, serialReply>>
  <2>1. /\ toGuest' \in Seq(SerialCommands)
        /\ PiecesIn(toGuest') = PiecesIn(toGuest) \cup PiecesIn(cmds)
    BY <1>4, <1>8, <1>11, PiecesJoined
  <2>2. SerialTyped'
    BY <1>1, <1>2, <1>11, <2>1, TypedStays DEF SerialTyped
  <2>3. ToRun' = ToRun \o cmds
    <3>1. echoedLines \o (toGuest \o cmds) = (echoedLines \o toGuest) \o cmds
      <4>1. cmds \in Seq(SerialCommands)
        BY <1>4
      <4> QED
        BY <1>8, <4>1, JoinedTwice
    <3> QED
      BY <1>1, <1>11, <3>1 DEF ToRun
  <2>4. /\ ToRun \in Seq(SerialCommands)
        /\ \A i \in DOMAIN ToRun : ToRun[i].of <= Len(serialCalls)
        /\ OldFirst(ToRun) /\ Len(serialCalls) \in Nat /\ Len(serialCalls) = Latest
    BY <1>2, <1>3, QueueTypes DEF QueueProper, Latest
  <2>5. Typed' = e
    BY <1>2, <1>6, <1>11, <1>1 DEF Typed, e, l
  <2>6. PICK k \in 0..m : RunSoFar(k)
    BY <1>2, <1>5, <1>7 DEF Progress
  <2>7. k \in Nat /\ k <= m /\ k \in 0..e
    BY <1>4, <2>6
  <2>8. OldFirst(ToRun \o cmds) /\ Ordered(serialCalls, ToRun \o cmds, k, e)
    <3>1. Ordered(serialCalls, ToRun, k, m)
      BY <1>5, <2>6 DEF RunSoFar
    <3>2. \A i \in DOMAIN cmds : cmds[i].of = Len(serialCalls)
      BY <1>4, <2>4
    <3> QED
      BY <1>4, <2>4, <2>7, <3>1, <3>2, OrderedMore
  <2>9. \A c \in PiecesIn(cmds) : c.of = Latest /\ Proper(serialCalls, c)
    BY <1>4 DEF PiecesIn
  <2>10. QueueProper' /\ OwnOnly'
    <3>1. QueueProper'
      BY <1>1, <1>2, <1>6, <2>1, <2>3, <2>8, <2>9 DEF QueueProper
    <3> QED
      BY <1>1, <1>6, <1>7, <1>11, <2>1, <2>9, <3>1 DEF OwnOnly
  <2>11. RunSoFar(k)'
    <3>1. FilesMade(k) /\ NumbersTrue(k) /\ Confirmed(k)
      BY <2>6 DEF RunSoFar
    <3>2. FilesMade(k)'
      BY <1>1, <1>6, <3>1 DEF FilesMade, ToolOf
    <3>3. NumbersTrue(k)'
      <4>1. /\ CommandCount(Latest)' = CommandCount(Latest) /\ Made(Latest)' = Made(Latest)
            /\ ToolOf(Latest)' = ToolOf(Latest)
        BY <1>1, <1>6 DEF CommandCount, Made, ToolOf
      <4> QED
        BY <1>1, <1>6, <3>1, <4>1 DEF NumbersTrue
    <3>4. Confirmed(k)'
      BY <1>2, <1>11 DEF Confirmed
    <3>5. Ordered(serialCalls, ToRun, k, Typed)'
      BY <1>1, <2>3, <2>5, <2>8
    <3> QED
      BY <3>2, <3>3, <3>4, <3>5 DEF RunSoFar
  <2>12. AllTyped'
    BY <1>2, <1>11 DEF AllTyped
  <2>13. Progress'
    BY <1>4, <2>5, <2>7, <2>11, <2>12 DEF Progress
  <2> QED
    BY <1>9, <2>2, <2>10, <2>13 DEF SerialInv
<1> QED
  BY <1>1, <1>10, <1>11 DEF cmds

LEMMA EndKeeps ==
  ASSUME SerialInv, serialPc \in {"wait", "take"}, NEW found \in BOOLEAN,
         found => serialPc = "take", Becomes(found, outputBuffer),
         captured' = IF found /\ Now.role = "capture" THEN Between(glimpse) ELSE captured,
         outputBuffer' = <<>>, glimpse' = <<>>,
         UNCHANGED <<wire, serialCalls, fromQuiet, guestLines, guestFiles>>
  PROVE  SerialInv'
<1>1. SerialTyped /\ QueueProper /\ OwnOnly /\ GlimpseFirst /\ Progress /\ CaptureWhole
  BY DEF SerialInv
<1>2. Latest > 0 /\ serialReply = "none" /\ captured = <<>>
  BY <1>1 DEF SerialTyped
<1>3. /\ Now = TurnAt(Latest, turn) /\ TurnCount(Latest) \in Nat \ {0} /\ Latest \in Nat
      /\ CallFits(serialCalls[Latest]) /\ turn \in 1..TurnCount(Latest)
  BY <1>1, <1>2, NowIs
<1>4. /\ Now.role = "check" =>
           /\ turn > 1
           /\ Now.cmds = <<Cmd(IF ToolOf(Latest) = "write" THEN "count" ELSE "size", Latest, 0)>>
      /\ Now.role = "capture" => turn > 1 /\ Now.cmds = <<Cmd("cat", Latest, 0)>>
  BY <1>3, TurnRoles
<1>5. /\ batchErrors' \in BOOLEAN
      /\ \/ /\ Proceeds /\ turn < TurnCount(Latest) /\ Now.role # "capture"
         \/ /\ turn' = turn /\ serialPc' = "idle" /\ serialReply' \notin {"none", "error"}
      /\ serialReply' \in {"confirmed", "differs", "unverified"} =>
           /\ ToolOf(Latest) \in {"write", "upload"} /\ turn' = TurnCount(Latest)
           /\ serialPc' = "idle" /\ turn' = turn
      /\ serialReply' = "confirmed" =>
           Now.role = "check" /\ found /\ Verdict(outputBuffer, Awaited) = "confirmed"
      /\ serialReply' = "copied" =>
           /\ ToolOf(Latest) = "place" /\ turn' = TurnCount(Latest)
           /\ serialPc' = "idle" /\ turn' = turn
      /\ serialReply' = "captured" => Now.role = "capture" /\ captured' # <<>>
  BY <1>1, TurnEnds
<1>6. /\ UNCHANGED <<toGuest, echoedLines, printedPieces, typedFile, madeFile, running,
                     serialFaults, faultSince>>
      /\ Latest' = Latest /\ ToRun' = ToRun
  BY DEF guestLines, guestFiles, Latest, ToRun
<1>7. /\ glimpse \in Seq(SerialPieces) /\ wire \in Seq(SerialPieces)
      /\ outputBuffer \in Seq(SerialPieces)
  BY <1>1 DEF SerialTyped
<1>8. captured' \in Seq(SerialPieces)
  BY <1>2, <1>7, BetweenTypes
<1>9. SerialTyped'
  <2>1. turn' \in 1..TurnCount(Latest)
    BY <1>3, <1>5 DEF Proceeds
  <2>2. serialPc' \in {"idle", "type"}
    BY <1>5 DEF Proceeds
  <2>3. serialPc' # "idle" => Latest > 0 /\ serialReply' = "none" /\ captured' = <<>>
    BY <1>2, <1>5 DEF Proceeds
  <2>4. outputBuffer' \in Seq(SerialPieces) /\ glimpse' \in Seq(SerialPieces)
    OBVIOUS
  <2> QED
    BY <1>1, <1>2, <1>5, <1>6, <1>8, <2>1, <2>2, <2>3, <2>4, TypedStays DEF SerialTyped
<1>10. PiecesIn(outputBuffer') = {}
  BY NoPieces
<1>11. QueueProper'
  <2>1. OldFirst(ToRun')
    BY <1>1, <1>6 DEF QueueProper
  <2> QED
    BY <1>1, <1>6, <1>10, <2>1, QueueStays DEF QueueProper
<1>12. OwnOnly'
  BY <1>1, <1>6, <1>10 DEF OwnOnly
<1>13. GlimpseFirst'
  BY <1>5 DEF GlimpseFirst, Proceeds
<1>14. Typed' = Typed
  <2>1. Typed = TypedBy(serialCalls[Latest].lines, turn)
    BY <1>2 DEF Typed
  <2>2. CASE Proceeds
    <3>1. serialPc' = "type" /\ turn' - 1 = turn
      BY <1>3, <2>2 DEF Proceeds
    <3>2. Typed' = TypedBy(serialCalls[Latest].lines, turn' - 1)
      BY <1>6, <3>1 DEF Typed
    <3> QED
      BY <2>1, <3>1, <3>2
  <2>3. CASE turn' = turn /\ serialPc' = "idle" /\ serialReply' \notin {"none", "error"}
    BY <1>6, <2>1, <2>3 DEF Typed
  <2> QED
    BY <1>5, <2>2, <2>3
<1>15. AllTyped'
  <2>1. ASSUME serialReply' \in {"confirmed", "differs", "unverified", "copied"}
        PROVE  Typed' = CommandCount(Latest)
    <3>1. turn = TurnCount(Latest)
      BY <1>5, <2>1
    <3>2. TypedBy(serialCalls[Latest].lines, TurnCount(Latest)) = CommandCount(Latest)
      BY <1>3, TypedIn
    <3>3. Typed = TypedBy(serialCalls[Latest].lines, turn)
      BY <1>2 DEF Typed
    <3> QED
      BY <1>14, <3>1, <3>2, <3>3
  <2>2. CommandCount(Latest)' = CommandCount(Latest) /\ ToolOf(Latest)' = ToolOf(Latest)
    BY <1>6 DEF CommandCount, ToolOf
  <2> QED
    BY <1>5, <2>1, <2>2 DEF AllTyped
<1>16. ASSUME NEW k \in 0..Typed, RunSoFar(k)
       PROVE  Confirmed(k)'
  <2>1. ASSUME serialReply' = "confirmed", fromQuiet
        PROVE  /\ k > 0 /\ k = CommandCount(Latest)
               /\ NumberOf(serialCalls[Latest].lines, ToolOf(Latest), Made(Latest))
    <3> DEFINE c == Awaited
               S == Numbers(outputBuffer, c)
               i == Least(S)
    <3>1. Now.role = "check" /\ turn > 1 /\ Verdict(outputBuffer, c) = "confirmed"
      BY <1>4, <1>5, <2>1
    <3>2. S # {} /\ Reported(outputBuffer, c) = Last(serialCalls).lines
      BY <3>1 DEF Verdict
    <3>3. S \subseteq Nat /\ S \subseteq DOMAIN outputBuffer
      BY <1>7, LenProperties DEF Numbers
    <3>4. i \in S
      BY <3>2, <3>3, LeastIn
    <3>5. c.do \in {"count", "size"}
      <4>1. PICK do \in {"count", "size"} : Now.cmds = <<Cmd(do, Latest, 0)>>
        BY <1>4, <3>1
      <4>2. c = Cmd(do, Latest, 0)
        BY <4>1 DEF Awaited, Last
      <4> QED
        BY <4>2 DEF Cmd
    <3>6. PICK j \in {i, i + 1} :
             /\ Reported(outputBuffer, c) = outputBuffer[j].val
             /\ j \in DOMAIN outputBuffer /\ (j = i \/ outputBuffer[j].what = "digits")
      <4>1. CASE i + 1 \in DOMAIN outputBuffer /\ outputBuffer[i + 1].what = "digits"
        BY <4>1 DEF Reported
      <4>2. CASE ~(i + 1 \in DOMAIN outputBuffer /\ outputBuffer[i + 1].what = "digits")
        BY <3>3, <3>4, <4>2 DEF Reported
      <4> QED
        BY <4>1, <4>2
    <3> HIDE DEF i
    <3>7. outputBuffer[j] \in PiecesIn(outputBuffer)
      BY <3>6 DEF PiecesIn
    <3>8. IsNumber(outputBuffer[j])
      <4>1. CASE j = i
        BY <3>4, <3>5, <4>1 DEF Numbers, SameText, IsNumber
      <4>2. CASE outputBuffer[j].what = "digits"
        BY <1>1, <3>7, <4>2 DEF IsNumber, QueueProper, PieceFits
      <4> QED
        BY <3>6, <4>1, <4>2
    <3>9. outputBuffer[j].cmd.of = Latest
      BY <1>1, <2>1, <3>1, <3>7 DEF OwnOnly
    <3>10. /\ k > 0 /\ k = CommandCount(Latest)
           /\ NumberOf(outputBuffer[j].val, ToolOf(Latest), Made(Latest))
      BY <1>16, <3>7, <3>8, <3>9 DEF RunSoFar, NumbersTrue
    <3>11. Last(serialCalls) = serialCalls[Latest]
      BY DEF Last, Latest
    <3> QED
      BY <3>2, <3>6, <3>10, <3>11
  <2>2. /\ CommandCount(Latest)' = CommandCount(Latest) /\ Made(Latest)' = Made(Latest)
        /\ ToolOf(Latest)' = ToolOf(Latest)
    BY <1>6 DEF CommandCount, Made, ToolOf
  <2> QED
    BY <1>6, <2>1, <2>2 DEF Confirmed
<1>17. Progress'
  BY <1>1, <1>6, <1>10, <1>14, <1>15, <1>16, ProgressStays
<1>18. CaptureWhole'
  <2>1. ASSUME ~faultSince
        PROVE  CatsWhole(Unread', Latest)
    <3>1. CatsWhole(outputBuffer \o wire, Latest)
      BY <1>1, <2>1 DEF CaptureWhole, Unread
    <3>2. CatsWhole(wire, Latest)
      BY <1>7, <3>1, CatsJoined
    <3>3. Unread' = wire
      <4>1. <<>> \o wire = wire
        BY <1>7
      <4> QED
        BY <4>1 DEF Unread
    <3> QED
      BY <3>2, <3>3
  <2>2. ASSUME serialReply' = "captured", fromQuiet, ~faultSince
        PROVE  Len(captured') = 2 /\ captured'[1].val = 1 /\ captured'[2].val = 2
    <3>1. Now.role = "capture" /\ captured' # <<>> /\ turn > 1 /\ Now.cmds = <<Cmd("cat", Latest, 0)>>
      BY <1>4, <1>5, <2>2
    <3>2. found /\ captured' = Between(glimpse) /\ serialPc = "take"
      BY <1>2, <3>1
    <3>3. Awaited = Cmd("cat", Latest, 0)
      BY <3>1 DEF Awaited, Last
    <3>4. /\ Len(glimpse) <= Len(outputBuffer)
          /\ \A i \in 1..Len(glimpse) : glimpse[i] = outputBuffer[i]
      BY <1>1, <3>2 DEF GlimpseFirst
    <3>5. \A i \in DOMAIN outputBuffer : outputBuffer[i].cmd.of = Latest
      BY <1>1, <2>2, <3>1 DEF OwnOnly, PiecesIn
    <3>6. /\ Unread \in Seq(SerialPieces) /\ Len(Unread) = Len(outputBuffer) + Len(wire)
          /\ \A i \in 1..Len(outputBuffer) : Unread[i] = outputBuffer[i]
      <4>1. /\ Unread \in Seq(SerialPieces) /\ Len(Unread) = Len(outputBuffer) + Len(wire)
            /\ \A i \in 1..(Len(outputBuffer) + Len(wire)) :
                 Unread[i] = IF i <= Len(outputBuffer) THEN outputBuffer[i]
                             ELSE wire[i - Len(outputBuffer)]
        BY <1>7, ConcatProperties DEF Unread
      <4>2. Len(outputBuffer) \in Nat /\ Len(wire) \in Nat
        BY <1>7, LenProperties
      <4>3. \A i \in 1..Len(outputBuffer) :
              i \in 1..(Len(outputBuffer) + Len(wire)) /\ i <= Len(outputBuffer)
        BY <4>2
      <4> QED
        BY <4>1, <4>3
    <3>7. /\ Len(glimpse) <= Len(Unread) /\ \A i \in 1..Len(glimpse) : glimpse[i] = Unread[i]
          /\ \A i \in DOMAIN glimpse : glimpse[i].cmd.of = Latest
      <4>1. /\ Len(glimpse) \in Nat /\ Len(outputBuffer) \in Nat /\ Len(wire) \in Nat
            /\ DOMAIN glimpse = 1..Len(glimpse) /\ DOMAIN outputBuffer = 1..Len(outputBuffer)
        BY <1>7, LenProperties
      <4>2. \A i \in 1..Len(glimpse) : i \in 1..Len(outputBuffer)
        BY <3>4, <4>1
      <4> QED
        BY <3>4, <3>5, <3>6, <4>1, <4>2
    <3>8. CatsWhole(Unread, Latest)
      BY <1>1, <2>2 DEF CaptureWhole
    <3>9. /\ Len(Between(glimpse)) = 2
          /\ Between(glimpse)[1].val = 1 /\ Between(glimpse)[2].val = 2
      BY <1>7, <3>1, <3>2, <3>3, <3>6, <3>7, <3>8, CaptureGets
    <3> QED
      BY <3>2, <3>9
  <2> QED
    BY <1>6, <2>1, <2>2 DEF CaptureWhole
<1> QED
  BY <1>9, <1>11, <1>12, <1>13, <1>17, <1>18 DEF SerialInv

LEMMA TakesKeeps ==
  ASSUME SerialInv, Takes
  PROVE  SerialInv'
<1>1. /\ serialPc = "take" /\ outputBuffer' = <<>> /\ glimpse' = <<>>
      /\ captured' = IF Now.role = "capture" THEN Between(glimpse) ELSE captured
      /\ Becomes(TRUE, outputBuffer)
      /\ UNCHANGED <<wire, serialCalls, fromQuiet, guestLines, guestFiles>>
  BY DEF Takes, Drained
<1> QED
  BY <1>1, EndKeeps

LEMMA GivesUpKeeps ==
  ASSUME SerialInv, GivesUp
  PROVE  SerialInv'
<1>1. /\ serialPc = "wait" /\ outputBuffer' = <<>> /\ glimpse' = glimpse /\ captured' = captured
      /\ Becomes(FALSE, outputBuffer)
      /\ UNCHANGED <<wire, serialCalls, fromQuiet, guestLines, guestFiles>>
  BY DEF GivesUp, Drained
<1>2. glimpse' = <<>>
  BY <1>1 DEF SerialInv, SerialTyped
<1> QED
  BY <1>1, <1>2, EndKeeps

-----------------------------------------------------------------------------
(* SessionSerial: what a command makes of the files.                       *)

(* Which of the commands changes which file.                               *)
LEMMA FilesTouched ==
  ASSUME NEW c, RunsOne(c), ~faultSince'
  PROVE  /\ ~faultSince
         /\ c.do = "line" =>
              /\ madeFile' = madeFile
              /\ typedFile' = [typedFile EXCEPT ![ToolOf(c.of)] =
                                 Append(IF c.at = 1 THEN <<>> ELSE typedFile[ToolOf(c.of)],
                                        Line(c.of, c.at))]
         /\ c.do = "decode" =>
              /\ typedFile' = typedFile
              /\ typedFile[ToolOf(c.of)] # <<>> /\ typedFile[ToolOf(c.of)][1].at = 1 =>
                   madeFile' = IF serialCalls[c.of].renamed THEN madeFile
                               ELSE [madeFile EXCEPT ![ToolOf(c.of)] =
                                       Decodes(typedFile[ToolOf(c.of)])]
         /\ c.do = "encode" =>
              madeFile' = madeFile /\ typedFile' = [typedFile EXCEPT !["capture"] = Source]
         /\ c.do \in {"count", "size", "mark", "user", "cat"} =>
              typedFile' = typedFile /\ madeFile' = madeFile
<1>1. CASE RunsLine(c)
  BY <1>1 DEF RunsLine, Truncates
<1>2. CASE RunsDecode(c)
  BY <1>2 DEF RunsDecode
<1>3. CASE RunsWc(c)
  BY <1>3 DEF RunsWc
<1>4. CASE RunsEncode(c)
  BY <1>4 DEF RunsEncode
<1>5. CASE RunsOther(c)
  BY <1>5 DEF RunsOther
<1> QED
  BY <1>1, <1>2, <1>3, <1>4, <1>5 DEF RunsOne

LEMMA CountsTouchNothing ==
  ASSUME NEW c, RunsOne(c), c.do \in {"count", "size", "mark", "user", "cat"}
  PROVE  typedFile' = typedFile /\ madeFile' = madeFile
  BY DEF RunsOne, RunsLine, RunsDecode, RunsWc, RunsEncode, RunsOther

(* uudecode of the lines of a file makes the file of them.                 *)
LEMMA DecodesWhole ==
  ASSUME NEW n, NEW f, IsSeq(f), serialCalls[n].lines \in Nat \ {0},
         LinesAre(f, n, serialCalls[n].lines)
  PROVE  LinesAre(Decodes(f), n, serialCalls[n].lines)
<1> DEFINE l == serialCalls[n].lines
<1>1. /\ Len(f) = l /\ l \in Nat \ {0} /\ DOMAIN f = 1..l
      /\ \A i \in 1..l : f[i] = Line(n, i)
  <2>1. PICK S : f \in Seq(S)
    BY DEF IsSeq
  <2> QED
    BY <2>1, LenProperties DEF LinesAre
<1>2. \A i \in 1..l : f[i].of = n /\ f[i].at = i
  <2>1. \A i : Line(n, i).of = n /\ Line(n, i).at = i
    BY DEF Line
  <2> QED
    BY <1>1, <2>1
<1>3. Ends(f) = {l}
  <2>1. \A i \in 1..l : f[i].at = serialCalls[f[i].of].lines <=> i = l
    BY <1>2
  <2>2. l \in 1..l
    BY <1>1
  <2> QED
    BY <1>1, <2>1, <2>2 DEF Ends
<1>4. Decodes(f) = SubSeq(f, 1, l)
  <2>1. Least({l}) = l
    <3> DEFINE T == {l}
    <3>1. T \subseteq Nat /\ l \in T /\ \A y \in T : l <= y
      BY <1>1
    <3> HIDE DEF T
    <3>2. Least(T) = l
      BY <3>1, LeastIs
    <3> QED
      BY <3>2 DEF T
  <2> QED
    BY <1>3, <2>1 DEF Decodes
<1> DEFINE S == {f[i] : i \in 1..l}
<1>5. 1 \in Int /\ l \in Int /\ \A i \in 1..l : f[i] \in S
  BY <1>1
<1>6. Len(SubSeq(f, 1, l)) = l /\ \A i \in 1..l : SubSeq(f, 1, l)[i] = f[i]
  <2> DEFINE low == 1
  <2>1. low \in Int /\ \A i \in low..l : f[i] \in S
    BY <1>5
  <2>2. low <= l /\ l - low + 1 = l /\ \A i \in 1..l : low + i - 1 = i
    BY <1>1
  <2> HIDE DEF low, S
  <2>3. /\ Len(SubSeq(f, low, l)) = IF low <= l THEN l - low + 1 ELSE 0
        /\ \A x \in 1..(l - low + 1) : SubSeq(f, low, l)[x] = f[low + x - 1]
    BY <1>5, <2>1, SubSeqProperties
  <2>4. Len(SubSeq(f, low, l)) = l /\ \A x \in 1..l : SubSeq(f, low, l)[x] = f[x]
    BY <2>2, <2>3
  <2> QED
    BY <2>4 DEF low
<1> HIDE DEF S
<1> QED
  BY <1>1, <1>4, <1>6 DEF LinesAre

LEMMA OneLineMore ==
  ASSUME NEW n, NEW f, IsSeq(f), NEW k \in Nat, k > 0 => LinesAre(f, n, k)
  PROVE  LinesAre(Append(IF k + 1 = 1 THEN <<>> ELSE f, Line(n, k + 1)), n, k + 1)
<1> DEFINE e == Line(n, k + 1)
           g == IF k + 1 = 1 THEN <<>> ELSE f
<1>1. IsSeq(g) /\ Len(g) = k /\ \A i \in 1..k : g[i] = Line(n, i)
  <2>1. CASE k = 0
    BY <2>1, ShortSeqs
  <2>2. CASE k # 0
    <3>1. k > 0 /\ k + 1 # 1
      BY <2>2
    <3> QED
      BY <3>1 DEF LinesAre
  <2> QED
    BY <2>1, <2>2
<1> HIDE DEF g
<1>2. PICK S : g \in Seq(S)
  BY <1>1 DEF IsSeq
<1> HIDE DEF e
<1>3. g \in Seq(S \cup {e}) /\ e \in S \cup {e}
  BY <1>2
<1>4. /\ Len(Append(g, e)) = Len(g) + 1
      /\ \A i \in 1..Len(g) : Append(g, e)[i] = g[i]
      /\ Append(g, e)[Len(g) + 1] = e
  BY <1>3, AppendProperties
<1>5. \A i \in 1..(k + 1) : i \in 1..k \/ i = k + 1
  OBVIOUS
<1>6. LinesAre(Append(g, e), n, k + 1)
  BY <1>1, <1>4, <1>5 DEF LinesAre, e
<1> QED
  BY <1>6 DEF g, e

(* The next command of the latest call adds to what those before it made.  *)
LEMMA FilesGrow ==
  ASSUME SerialTyped, Latest > 0, NEW c \in SerialCommands, Proper(serialCalls, c), RunsOne(c),
         c.of = Latest, NEW k \in Nat, PlaceOf(serialCalls, c) = k + 1, FilesMade(k),
         UNCHANGED serialCalls
  PROVE  FilesMade(k + 1)'
<1> SUFFICES ASSUME ~faultSince'
             PROVE  FilesMade(k + 1)'
  BY DEF FilesMade
<1> DEFINE n == Latest
           l == serialCalls[n].lines
           t == ToolOf(n)
           renamed == serialCalls[n].renamed
           Body(j, tf, mf) ==
             /\ j \in 1..l => LinesAre(tf[t], n, j)
             /\ j > l /\ l > 0 => LinesAre(tf[t], n, l)
             /\ j > l /\ t \in {"upload", "place"} /\ ~renamed => LinesAre(mf[t], n, l)
             /\ j > 0 /\ t = "capture" => tf["capture"] = Source
<1>1. /\ l \in Nat /\ t \in Tools /\ (l > 0 <=> t \in FileTools)
  <2>1. CallFits(serialCalls[n]) /\ l \in Nat /\ t \in Tools
    BY NowIs
  <2> QED
    BY <2>1 DEF CallFits, ToolOf
<1>2. ~faultSince /\ Body(k, typedFile, madeFile)
  <2>1. ~faultSince
    BY FilesTouched
  <2> QED
    BY <2>1 DEF FilesMade
<1>3. SUFFICES Body(k + 1, typedFile', madeFile')
  <2>1. /\ Latest' = n /\ ToolOf(Latest)' = t /\ serialCalls'[n].lines = l
        /\ serialCalls'[n].renamed = renamed
    BY DEF Latest, ToolOf
  <2> QED
    BY <2>1 DEF FilesMade
<1>4. /\ typedFile \in [Tools -> Seq(SerialLines)] /\ madeFile \in [Tools -> Seq(SerialLines)]
  BY DEF SerialTyped
<1>5. /\ ToolOf(c.of) = t /\ serialCalls[c.of].renamed = renamed
      /\ c.do \in DoesOf(t) /\ (c.do = "line" => c.at \in 1..l)
  BY DEF Proper, ToolOf
<1>6. /\ c.do = "line" => k + 1 = c.at
      /\ c.do \in {"count", "decode", "encode"} => k = l
      /\ c.do \in {"size", "cat"} => k = l + 1
      /\ c.do \notin {"mark", "user"}
      /\ k + 1 > 0
  <2>1. /\ c.do = "line" => PlaceOf(serialCalls, c) = c.at
        /\ c.do \in {"count", "decode", "encode"} => PlaceOf(serialCalls, c) = l + 1
        /\ c.do \in {"size", "cat"} => PlaceOf(serialCalls, c) = l + 2
        /\ c.do \in {"mark", "user"} => PlaceOf(serialCalls, c) = 0
    BY DEF PlaceOf
  <2> QED
    BY <1>1, <2>1
<1>7. IsSeq(typedFile[t])
  BY <1>1, <1>4 DEF IsSeq
<1> HIDE DEF n, l, t, renamed
<1>8. CASE c.do = "line"
  <2> DEFINE g == Append(IF k + 1 = 1 THEN <<>> ELSE typedFile[t], Line(n, k + 1))
  <2>1. k + 1 \in 1..l /\ l > 0 /\ t \in FileTools /\ c.at = k + 1 /\ c.of = n
    BY <1>1, <1>5, <1>6, <1>8 DEF n
  <2>2. typedFile' = [typedFile EXCEPT ![t] = g]
    BY <1>5, <1>8, <2>1, FilesTouched
  <2>3. k > 0 => k \in 1..l
    BY <1>1, <2>1
  <2>4. LinesAre(g, n, k + 1)
    BY <1>2, <1>7, <2>3, OneLineMore
  <2> HIDE DEF g
  <2>5. typedFile'[t] = g
    BY <1>1, <1>4, <2>2
  <2>6. ~(k + 1 > l) /\ t # "capture"
    BY <1>1, <2>1 DEF FileTools
  <2> QED
    BY <2>4, <2>5, <2>6
<1>9. CASE c.do = "decode"
  <2>1. k = l /\ t \in {"upload", "place"} /\ l > 0
    BY <1>1, <1>5, <1>6, <1>9 DEF DoesOf, FileTools, Tools
  <2>2. k \in 1..l /\ k + 1 > l /\ ~(k + 1 \in 1..l) /\ t # "capture" /\ l \in Nat \ {0}
    BY <1>1, <2>1
  <2>3. LinesAre(typedFile[t], n, l)
    BY <1>2, <2>1, <2>2
  <2>4. typedFile[t] # <<>> /\ typedFile[t][1].at = 1
    <3>1. Len(typedFile[t]) = l /\ typedFile[t][1] = Line(n, 1)
      BY <2>2, <2>3 DEF LinesAre
    <3>2. Line(n, 1).at = 1 /\ Len(<<>>) = 0
      BY DEF Line
    <3> QED
      BY <2>2, <3>1, <3>2
  <2>5. /\ typedFile' = typedFile
        /\ ~renamed => madeFile' = [madeFile EXCEPT ![t] = Decodes(typedFile[t])]
    BY <1>5, <1>9, <2>4, FilesTouched
  <2>6. LinesAre(Decodes(typedFile[t]), n, l)
    BY <1>7, <2>2, <2>3, DecodesWhole DEF l
  <2>7. ~renamed => madeFile'[t] = Decodes(typedFile[t])
    BY <1>1, <1>4, <2>5
  <2> QED
    BY <2>1, <2>2, <2>3, <2>5, <2>6, <2>7
<1>10. CASE c.do = "encode"
  <2>1. k = l /\ t = "capture" /\ l = 0
    BY <1>1, <1>5, <1>6, <1>10 DEF DoesOf, FileTools, Tools
  <2>2. typedFile' = [typedFile EXCEPT !["capture"] = Source]
    BY <1>10, FilesTouched
  <2>3. typedFile'["capture"] = Source
    BY <1>4, <2>2 DEF Tools
  <2> QED
    BY <2>1, <2>3
<1>11. CASE c.do = "count"
  <2>1. k = l /\ t = "write" /\ l > 0
    BY <1>1, <1>5, <1>6, <1>11 DEF DoesOf, FileTools, Tools
  <2>2. k \in 1..l /\ ~(k + 1 \in 1..l)
    BY <1>1, <2>1
  <2>3. typedFile' = typedFile /\ madeFile' = madeFile
    BY <1>11, FilesTouched
  <2> QED
    BY <1>2, <2>1, <2>2, <2>3
<1>12. CASE c.do = "size"
  <2>1. k = l + 1 /\ t = "upload" /\ l > 0
    BY <1>1, <1>5, <1>6, <1>12 DEF DoesOf, FileTools, Tools
  <2>2. k > l /\ ~(k + 1 \in 1..l)
    BY <1>1, <2>1
  <2>3. typedFile' = typedFile /\ madeFile' = madeFile
    BY <1>12, FilesTouched
  <2> QED
    BY <1>2, <2>1, <2>2, <2>3
<1>13. CASE c.do = "cat"
  <2>1. k = l + 1 /\ t = "capture" /\ l = 0
    BY <1>1, <1>5, <1>6, <1>13 DEF DoesOf, FileTools, Tools
  <2>2. k > 0 /\ ~(k + 1 \in 1..l)
    BY <1>1, <2>1
  <2>3. typedFile' = typedFile /\ madeFile' = madeFile
    BY <1>13, FilesTouched
  <2> QED
    BY <1>2, <2>1, <2>2, <2>3
<1>14. c.do \in {"line", "decode", "encode", "count", "size", "cat"}
  BY <1>6 DEF SerialCommands
<1> QED
  BY <1>8, <1>9, <1>10, <1>11, <1>12, <1>13, <1>14

LEMMA TypedBound ==
  ASSUME SerialTyped, Latest > 0
  PROVE  /\ Typed \in Nat /\ Typed <= CommandCount(Latest) /\ CommandCount(Latest) \in Nat
         /\ Typed = TypedBy(serialCalls[Latest].lines, turn)
              \/ Typed = TypedBy(serialCalls[Latest].lines, turn - 1)
<1> DEFINE l == serialCalls[Latest].lines
<1>1. /\ Latest \in 1..MaxSerialCalls /\ CallFits(serialCalls[Latest])
      /\ turn \in 1..TurnCount(Latest)
  BY NowIs
<1>2. /\ TypedBy(l, turn - 1) \in Nat /\ TypedBy(l, turn) \in Nat
      /\ TypedBy(l, turn - 1) <= TypedBy(l, turn) /\ TypedBy(l, turn) <= CommandCount(Latest)
  <2>1. Latest = Len(serialCalls)
    BY DEF Latest
  <2> QED
    BY <1>1, <2>1, TurnTypes
<1>3. CommandCount(Latest) \in Nat
  BY <1>1, TypedIn
<1>4. Typed = TypedBy(l, turn) \/ Typed = TypedBy(l, turn - 1)
  BY DEF Typed
<1> HIDE DEF l
<1> QED
  BY <1>2, <1>3, <1>4 DEF l

(* What a command of the latest call, or of an earlier one, leaves true.    *)
LEMMA RunsOn ==
  ASSUME SerialTyped, QueueProper, Latest > 0, NEW k \in 0..Typed, RunSoFar(k),
         NEW c \in SerialCommands, Proper(serialCalls, c), RunsOne(c),
         OfLatest(serialCalls, c) => PlaceOf(serialCalls, c) = k + 1 /\ k < Typed,
         k > 0 => c.of = Latest,
         UNCHANGED <<outputBuffer, toolVars>>
  PROVE  \E j \in {k, k + 1} :
            /\ j = IF OfLatest(serialCalls, c) THEN k + 1 ELSE k
            /\ FilesMade(j)' /\ NumbersTrue(j)' /\ Confirmed(j)'
<1> DEFINE l == serialCalls[Latest].lines
           old == PiecesIn(outputBuffer) \cup PiecesIn(wire)
<1>1. /\ UNCHANGED <<serialCalls, serialReply, fromQuiet>>
      /\ Latest' = Latest /\ outputBuffer' = outputBuffer
  BY DEF toolVars, Latest
<1>2. FilesMade(k) /\ NumbersTrue(k) /\ Confirmed(k)
  BY DEF RunSoFar
<1>3. /\ l \in Nat /\ CallFits(serialCalls[Latest]) /\ Typed \in Nat
      /\ Typed <= CommandCount(Latest) /\ CommandCount(Latest) \in Nat /\ k \in Nat /\ k <= Typed
  <2>1. Typed \in Nat
    BY TypedBound
  <2> QED
    BY <2>1, NowIs, TypedBound
<1>4. PICK out \in Seq(SerialPieces) :
         /\ wire' = wire \o out /\ \A p \in PiecesIn(out) : p.cmd = c
         /\ \A p \in PiecesIn(out) : IsNumber(p) => NumberIn(p, c)
  BY RunPrints
<1>5. PiecesIn(outputBuffer') \cup PiecesIn(wire') = old \cup PiecesIn(out)
  <2>1. PiecesIn(wire') = PiecesIn(wire) \cup PiecesIn(out)
    BY <1>4, PiecesJoined DEF SerialTyped
  <2> QED
    BY <1>1, <2>1
<1>6. CommandCount(Latest)' = CommandCount(Latest)
  BY <1>1 DEF CommandCount, ToolOf
<1> HIDE DEF l, old
<1>7. CASE OfLatest(serialCalls, c)
  <2>1. c.of = Latest /\ PlaceOf(serialCalls, c) = k + 1 /\ k < Typed /\ k # CommandCount(Latest)
    BY <1>3, <1>7 DEF OfLatest, Latest
  <2>2. FilesMade(k + 1)'
    BY <1>1, <1>2, <1>3, <2>1, FilesGrow
  <2>3. NumbersTrue(k + 1)'
    <3>1. \A p \in old : ~(IsNumber(p) /\ p.cmd.of = Latest)
      BY <1>2, <2>1 DEF NumbersTrue, old
    <3>2. ASSUME NEW p \in PiecesIn(out), IsNumber(p)
          PROVE  /\ k + 1 > 0 /\ k + 1 = CommandCount(Latest)
                 /\ NumberOf(p.val, ToolOf(Latest), Made(Latest)')
      <4>1. p.cmd = c /\ NumberIn(p, c) /\ c.do \in {"count", "size"}
        BY <1>4, <3>2 DEF IsNumber
      <4>2. typedFile' = typedFile /\ madeFile' = madeFile
        BY <4>1, CountsTouchNothing
      <4>3. /\ c.do \in DoesOf(ToolOf(Latest))
            /\ PlaceOf(serialCalls, c) = IF c.do = "count" THEN l + 1 ELSE l + 2
        BY <2>1, <4>1 DEF Proper, ToolOf, PlaceOf, l
      <4>4. \/ c.do = "count" /\ ToolOf(Latest) = "write"
            \/ c.do = "size" /\ ToolOf(Latest) = "upload"
        BY <4>1, <4>3 DEF DoesOf
      <4>5. CommandCount(Latest) = IF c.do = "count" THEN l + 1 ELSE l + 2
        BY <4>4 DEF CommandCount, l
      <4>6. k + 1 = CommandCount(Latest)
        BY <2>1, <4>3, <4>5
      <4>7. Counted(c) = Made(Latest)
        BY <2>1, <4>4 DEF Counted, Made
      <4>8. Made(Latest)' = Made(Latest)
        BY <1>1, <4>2 DEF Made, ToolOf
      <4>9. NumberOf(p.val, ToolOf(Latest), Made(Latest))
        BY <4>1, <4>4, <4>7 DEF NumberIn, NumberOf
      <4> QED
        BY <1>3, <4>6, <4>8, <4>9
    <3>3. ToolOf(Latest)' = ToolOf(Latest)
      BY <1>1 DEF ToolOf
    <3> QED
      BY <1>1, <1>5, <1>6, <3>1, <3>2, <3>3 DEF NumbersTrue, NumberOf
  <2>4. Confirmed(k + 1)'
    BY <1>1, <1>2, <2>1 DEF Confirmed
  <2> QED
    BY <1>7, <2>2, <2>3, <2>4
<1>8. CASE c.of # Latest
  <2>1. k = 0 /\ ~OfLatest(serialCalls, c)
    BY <1>3, <1>8 DEF OfLatest, Latest
  <2>2. FilesMade(0)'
    <3>1. serialCalls'[Latest'].lines \in Nat
      BY <1>1, <1>3 DEF l
    <3> DEFINE l2 == serialCalls'[Latest'].lines
    <3>2. ~(0 \in 1..l2) /\ ~(0 > l2) /\ ~(0 > 0)
      BY <3>1
    <3> QED
      BY <3>2 DEF FilesMade
  <2>3. NumbersTrue(0)'
    <3>1. \A p \in old : ~(IsNumber(p) /\ p.cmd.of = Latest)
      BY <1>2, <2>1 DEF NumbersTrue, old
    <3>2. \A p \in PiecesIn(out) : p.cmd.of # Latest
      BY <1>4, <1>8
    <3> QED
      BY <1>1, <1>5, <3>1, <3>2 DEF NumbersTrue
  <2>4. Confirmed(0)'
    BY <1>1, <1>2, <2>1 DEF Confirmed
  <2> QED
    BY <2>1, <2>2, <2>3, <2>4
<1>9. CASE c.of = Latest /\ ~OfLatest(serialCalls, c)
  <2>1. c.do \in {"mark", "user"}
    <3>1. ~(PlaceOf(serialCalls, c) > 0)
      BY <1>9 DEF OfLatest, Latest
    <3>2. c.do = "line" => c.at > 0
      BY <1>3, <1>9 DEF Proper, l
    <3>3. /\ c.do = "line" => PlaceOf(serialCalls, c) = c.at
          /\ c.do \in {"count", "decode", "encode"} => PlaceOf(serialCalls, c) = l + 1
          /\ c.do \in {"size", "cat"} => PlaceOf(serialCalls, c) = l + 2
      BY <1>9 DEF PlaceOf, l
    <3>4. l + 1 > 0 /\ l + 2 > 0
      BY <1>3
    <3> QED
      BY <3>1, <3>2, <3>3, <3>4 DEF SerialCommands
  <2>2. typedFile' = typedFile /\ madeFile' = madeFile
    BY <2>1, CountsTouchNothing
  <2>3. FilesMade(k)'
    <3>1. ~faultSince' => ~faultSince
      BY FilesTouched
    <3> QED
      BY <1>1, <1>2, <2>2, <3>1 DEF FilesMade, ToolOf
  <2>4. NumbersTrue(k)'
    <3>1. \A p \in PiecesIn(out) : ~IsNumber(p)
      BY <1>4, <2>1 DEF IsNumber
    <3>2. Made(Latest)' = Made(Latest) /\ ToolOf(Latest)' = ToolOf(Latest)
      BY <1>1, <2>2 DEF Made, ToolOf
    <3> QED
      BY <1>1, <1>2, <1>5, <1>6, <3>1, <3>2 DEF NumbersTrue, old
  <2>5. Confirmed(k)'
    BY <1>1, <1>2, <2>2, ConfirmedStays
  <2> QED
    BY <1>9, <2>3, <2>4, <2>5
<1> QED
  BY <1>7, <1>8, <1>9

LEMMA RunsKeeps ==
  ASSUME SerialInv, RunsNext
  PROVE  SerialInv'
<1> DEFINE c == Head(echoedLines)
<1>1. /\ echoedLines # <<>> /\ echoedLines' = Tail(echoedLines) /\ RunsOne(c)
      /\ UNCHANGED <<outputBuffer, handedOut, toolVars, toGuest, running>>
  BY DEF RunsNext, RunsOne
<1>2. UNCHANGED <<serialPc, serialCalls, turn, batchErrors, glimpse, captured, serialReply, fromQuiet>>
  BY <1>1 DEF toolVars
<1>3. SerialTyped /\ QueueProper /\ OwnOnly /\ GlimpseFirst /\ Progress /\ CaptureWhole
  BY DEF SerialInv
<1>4. /\ echoedLines \in Seq(SerialCommands) /\ toGuest \in Seq(SerialCommands)
      /\ wire \in Seq(SerialPieces) /\ outputBuffer \in Seq(SerialPieces)
  BY <1>3 DEF SerialTyped
<1>5. /\ c \in SerialCommands /\ echoedLines' \in Seq(SerialCommands)
      /\ PiecesIn(echoedLines) = {c} \cup PiecesIn(echoedLines')
  BY <1>1, <1>4, PiecesHead
<1>6. ToRun # <<>> /\ Head(ToRun) = c /\ ToRun' = Tail(ToRun)
  BY <1>1, <1>4, HeadOfJoined DEF ToRun
<1> HIDE DEF c
<1>7. Proper(serialCalls, c)
  BY <1>3, <1>5 DEF QueueProper
<1>8. Latest' = Latest /\ c.of \in 1..Latest
  BY <1>2, <1>7 DEF Latest, Proper
<1>9. Typed' = Typed
  BY <1>2, <1>8 DEF Typed
<1>10. Latest \in Nat /\ Latest > 0 /\ c.of <= Latest
  <2>1. Latest \in Nat
    BY <1>3, LenProperties DEF SerialTyped, Latest
  <2> QED
    BY <1>8, <2>1
<1>11. PICK out \in Seq(SerialPieces) :
          /\ wire' = wire \o out /\ \A p \in PiecesIn(out) : p.cmd = c
          /\ c.do = "cat" => out = CatText(c)
          /\ c.do # "cat" => \A p \in PiecesIn(out) : p.what # "start"
          /\ \A p \in PiecesIn(out) : p.what = "digits" => c.do = "count" /\ p.val # NoNumber
  BY <1>1, <1>3, <1>5, <1>7, RunPrints
<1>12. wire' \in Seq(SerialPieces) /\ PiecesIn(wire') = PiecesIn(wire) \cup PiecesIn(out)
  BY <1>4, <1>11, PiecesJoined
<1>13. SerialTyped'
  <2>1. /\ typedFile' \in [Tools -> Seq(SerialLines)] /\ madeFile' \in [Tools -> Seq(SerialLines)]
        /\ faultSince' \in BOOLEAN
    BY <1>1, <1>3, <1>5, <1>7, FileTypes
  <2> QED
    BY <1>1, <1>2, <1>3, <1>5, <1>12, <2>1, TypedStays DEF SerialTyped
<1>14. PICK k \in 0..Typed : RunSoFar(k)
  BY <1>3, <1>10 DEF Progress
<1>15. Typed \in Nat /\ k \in Nat /\ k <= Typed
  BY <1>3, <1>10, <1>14, TypedBound
<1>16. /\ ToRun \in Seq(SerialCommands) /\ OldFirst(ToRun)
       /\ \A i \in DOMAIN ToRun : ToRun[i].of <= Latest
  BY <1>3, QueueTypes DEF QueueProper
<1>17. /\ OldFirst(Tail(ToRun))
       /\ OfLatest(serialCalls, c) =>
            /\ PlaceOf(serialCalls, c) = k + 1 /\ k < Typed
            /\ Ordered(serialCalls, Tail(ToRun), k + 1, Typed)
       /\ ~OfLatest(serialCalls, c) => Ordered(serialCalls, Tail(ToRun), k, Typed)
  <2>1. Ordered(serialCalls, ToRun, k, Typed)
    BY <1>14 DEF RunSoFar
  <2>2. Len(serialCalls) \in Nat /\ \A i \in DOMAIN ToRun : ToRun[i].of <= Len(serialCalls)
    BY <1>10, <1>16 DEF Latest
  <2> QED
    BY <1>6, <1>15, <1>16, <2>1, <2>2, OrderedTail
<1>18. k > 0 => c.of = Latest
  <2>1. k > 0 => \A i \in DOMAIN ToRun : ToRun[i].of = Latest
    BY <1>14 DEF RunSoFar, Ordered, Latest
  <2>2. 1 \in DOMAIN ToRun /\ ToRun[1] = c
    BY <1>6, <1>16, LenProperties, EmptySeq, HeadTailProperties
  <2> QED
    BY <2>1, <2>2
<1>19. QueueProper'
  <2>1. \A p \in PiecesIn(outputBuffer') \cup PiecesIn(wire') : PieceFits(p, Latest)
    BY <1>1, <1>3, <1>10, <1>11, <1>12 DEF QueueProper, PieceFits
  <2>2. OldFirst(ToRun')
    BY <1>6, <1>17
  <2> QED
    BY <1>1, <1>2, <1>3, <1>5, <2>1, <2>2, QueueStays
<1>20. OwnOnly'
  <2>1. fromQuiet => c.of = Latest
    BY <1>3, <1>5 DEF OwnOnly
  <2> QED
    BY <1>1, <1>2, <1>3, <1>5, <1>8, <1>11, <1>12, <2>1 DEF OwnOnly
<1>21. GlimpseFirst'
  BY <1>1, <1>2, <1>3 DEF GlimpseFirst
<1>22. Progress'
  <2>1. PICK j \in {k, k + 1} :
           /\ j = IF OfLatest(serialCalls, c) THEN k + 1 ELSE k
           /\ FilesMade(j)' /\ NumbersTrue(j)' /\ Confirmed(j)'
    BY <1>1, <1>3, <1>5, <1>7, <1>10, <1>14, <1>17, <1>18, RunsOn
  <2>2. j \in 0..Typed
    BY <1>15, <1>17, <2>1
  <2>3. Ordered(serialCalls, Tail(ToRun), j, Typed)
    BY <1>17, <2>1
  <2>4. Ordered(serialCalls, ToRun, j, Typed)'
    BY <1>2, <1>6, <1>9, <2>3
  <2>5. RunSoFar(j)'
    BY <2>1, <2>4 DEF RunSoFar
  <2>6. AllTyped'
    BY <1>2, <1>3, <1>9, <1>10, AllTypedStays DEF Progress
  <2>7. j \in 0..Typed' /\ Typed' \in Nat
    BY <1>9, <1>15, <2>2
  <2> QED
    BY <2>5, <2>6, <2>7 DEF Progress
<1>23. CaptureWhole'
  <2>1. ~faultSince' => ~faultSince
    BY <1>1, FilesTouched
  <2>2. ASSUME ~faultSince'
        PROVE  CatsWhole(Unread', Latest)
    <3>1. CatsWhole(out, Latest)
      <4>1. CASE c.do = "cat" /\ c.of = Latest
        <5> DEFINE l == serialCalls[Latest].lines
        <5>1. l \in Nat
          BY <1>3, <1>10, NowIs
        <5>2. PlaceOf(serialCalls, c) = l + 2
          BY <4>1 DEF PlaceOf
        <5> HIDE DEF l
        <5>3. OfLatest(serialCalls, c)
          BY <4>1, <5>1, <5>2 DEF OfLatest, Latest
        <5>4. k > 0
          BY <1>15, <1>17, <5>1, <5>2, <5>3
        <5>5. ToolOf(Latest) = "capture" /\ c.at = 0
          BY <1>7, <4>1 DEF Proper, DoesOf, ToolOf
        <5>6. typedFile["capture"] = Source
          BY <1>14, <2>1, <2>2, <5>4, <5>5 DEF RunSoFar, FilesMade
        <5>7. typedFile \in [Tools -> Seq(SerialLines)]
          BY <1>3 DEF SerialTyped
        <5> QED
          BY <1>5, <1>11, <4>1, <5>5, <5>6, <5>7, CatTextWhole
      <4>2. CASE c.do # "cat"
        BY <1>11, <4>2, CatsNone
      <4>3. CASE c.of # Latest
        BY <1>11, <4>3, CatsNone
      <4> QED
        BY <4>1, <4>2, <4>3
    <3>2. Unread \in Seq(SerialPieces) /\ Unread' = Unread \o out
      <4>1. out \in Seq(SerialPieces)
        BY <1>11
      <4>2. outputBuffer \o (wire \o out) = (outputBuffer \o wire) \o out
        BY <1>4, <4>1, JoinedTwice
      <4>3. outputBuffer \o wire \in Seq(SerialPieces)
        BY <1>4, ConcatProperties
      <4> QED
        BY <1>1, <1>11, <4>2, <4>3 DEF Unread
    <3>3. CatsWhole(Unread, Latest)
      BY <1>3, <2>1, <2>2 DEF CaptureWhole
    <3> QED
      BY <3>1, <3>2, <3>3, CatsJoined
  <2> QED
    BY <1>2, <1>3, <1>8, <2>1, <2>2 DEF CaptureWhole
<1> QED
  BY <1>13, <1>19, <1>20, <1>21, <1>22, <1>23 DEF SerialInv

-----------------------------------------------------------------------------
(* SessionSerial: what the invariant says.                                 *)

LEMMA LinesWhole ==
  ASSUME NEW n, serialCalls[n].lines \in Nat, NEW f \in Seq(SerialLines),
         LinesAre(f, n, serialCalls[n].lines)
  PROVE  f = LinesOf(n)
<1> DEFINE l == serialCalls[n].lines
<1>1. Len(f) = l /\ \A i \in 1..l : f[i] = Line(n, i)
  BY DEF LinesAre
<1>2. f = [i \in 1..Len(f) |-> f[i]]
  BY SeqDef
<1> HIDE DEF l
<1>3. f = [i \in 1..l |-> Line(n, i)]
  BY <1>1, <1>2
<1> QED
  BY <1>3 DEF LinesOf, l

LEMMA FilesDone ==
  ASSUME SerialTyped, Latest > 0, ~faultSince, FilesMade(CommandCount(Latest)),
         ToolOf(Latest) \in FileTools, ~serialCalls[Latest].renamed
  PROVE  Made(Latest) = LinesOf(Latest)
<1> DEFINE l == serialCalls[Latest].lines
           t == ToolOf(Latest)
<1>1. l \in Nat /\ l > 0 /\ t \in Tools
  <2>1. CallFits(serialCalls[Latest]) /\ l \in Nat /\ t \in Tools
    BY NowIs
  <2> QED
    BY <2>1 DEF CallFits, ToolOf
<1>2. CommandCount(Latest) > l
  <2>1. CommandCount(Latest) \in {l + 1, l + 2}
    BY DEF CommandCount, FileTools
  <2> HIDE DEF l
  <2> QED
    BY <1>1, <2>1
<1>3. /\ LinesAre(typedFile[t], Latest, l)
      /\ t \in {"upload", "place"} => LinesAre(madeFile[t], Latest, l)
  BY <1>1, <1>2 DEF FilesMade
<1>4. LinesAre(Made(Latest), Latest, l)
  BY <1>3 DEF Made, FileTools
<1>5. Made(Latest) \in Seq(SerialLines)
  BY <1>1 DEF Made, SerialTyped, Tools
<1> QED
  BY <1>1, <1>4, <1>5, LinesWhole

LEMMA ConfirmedIsTrue ==
  ASSUME SerialInv
  PROVE  ConfirmedTrue
<1>1. SerialTyped /\ Progress /\ CaptureWhole
  BY DEF SerialInv
<1>2. Latest \in Nat
  BY <1>1, LenProperties DEF SerialTyped, Latest
<1>3. ASSUME fromQuiet, serialReply = "confirmed"
      PROVE  /\ NumberOf(serialCalls[Latest].lines, ToolOf(Latest), Made(Latest))
             /\ ~faultSince => Made(Latest) = LinesOf(Latest)
  <2>1. Latest > 0
    BY <1>1, <1>2, <1>3 DEF SerialTyped
  <2>2. PICK k \in 0..Typed : RunSoFar(k)
    BY <1>1, <2>1 DEF Progress
  <2>3. /\ k = CommandCount(Latest) /\ FilesMade(k)
        /\ NumberOf(serialCalls[Latest].lines, ToolOf(Latest), Made(Latest))
    BY <1>3, <2>2 DEF RunSoFar, Confirmed
  <2>4. ToolOf(Latest) \in FileTools /\ ~serialCalls[Latest].renamed
    <3>1. ToolOf(Latest) \in {"write", "upload"}
      BY <1>1, <1>3, <2>1 DEF Progress, AllTyped
    <3>2. CallFits(serialCalls[Latest])
      BY <1>1, <2>1, NowIs
    <3> QED
      BY <3>1, <3>2 DEF CallFits, FileTools, ToolOf
  <2> QED
    BY <1>1, <2>1, <2>3, <2>4, FilesDone
<1>4. ASSUME fromQuiet, serialReply = "captured", ~faultSince
      PROVE  [i \in DOMAIN captured |-> captured[i].val] = [i \in DOMAIN Source |-> Source[i].at]
  <2>1. Len(captured) = 2 /\ captured[1].val = 1 /\ captured[2].val = 2
    BY <1>1, <1>4 DEF CaptureWhole
  <2>2. DOMAIN captured = 1..2
    BY <1>1, <2>1, LenProperties DEF SerialTyped
  <2>3. DOMAIN Source = 1..2 /\ Source[1].at = 1 /\ Source[2].at = 2
    <3>1. DOMAIN Source = 1..2
      BY SourceTypes, LenProperties
    <3>2. \A i, j : Line(i, j).at = j
      BY DEF Line
    <3> QED
      BY <3>1, <3>2, SourceTypes
  <2>4. \A i \in 1..2 : captured[i].val = Source[i].at
    <3>1. \A i \in 1..2 : i = 1 \/ i = 2
      OBVIOUS
    <3> QED
      BY <2>1, <2>3, <3>1
  <2> QED
    BY <2>2, <2>3, <2>4
<1> QED
  BY <1>3, <1>4 DEF ConfirmedTrue, Latest, NumberOf

LEMMA SettledIsWhole ==
  ASSUME SerialInv
  PROVE  SettlesWhole
<1>1. SerialTyped /\ Progress
  BY DEF SerialInv
<1>2. Latest \in Nat
  BY <1>1, LenProperties DEF SerialTyped, Latest
<1>3. ASSUME toGuest = <<>>, echoedLines = <<>>, ~faultSince,
             serialReply \in {"confirmed", "differs", "unverified", "copied"},
             ~serialCalls[Latest].renamed
      PROVE  Made(Latest) = LinesOf(Latest)
  <2>1. Latest > 0
    BY <1>1, <1>2, <1>3 DEF SerialTyped
  <2>2. PICK k \in 0..Typed : RunSoFar(k)
    BY <1>1, <2>1 DEF Progress
  <2>3. Typed = CommandCount(Latest) /\ ToolOf(Latest) \in FileTools /\ Typed \in Nat
    BY <1>1, <1>3, <2>1 DEF Progress, AllTyped, FileTools
  <2>4. k = Typed
    <3>1. ToRun = <<>>
      BY <1>3 DEF ToRun
    <3>2. Ordered(serialCalls, <<>>, k, Typed)
      BY <2>2, <3>1 DEF RunSoFar
    <3>3. k \in Nat /\ k <= Typed
      BY <2>3
    <3> QED
      BY <2>3, <3>2, <3>3, OrderedDone
  <2>5. FilesMade(CommandCount(Latest))
    BY <2>2, <2>3, <2>4 DEF RunSoFar
  <2> QED
    BY <1>1, <1>3, <2>1, <2>3, <2>5, FilesDone
<1> QED
  BY <1>3 DEF SettlesWhole, Latest

LEMMA SerialTypesHold ==
  ASSUME SerialInv
  PROVE  SerialTypeOK
<1>1. SerialTyped
  BY DEF SerialInv
<1>2. Latest > 0 => turn \in 1..Len(TurnsOf(Latest))
  BY <1>1, NowIs
<1>3. serialPc # "idle" => turn \in 1..Len(TurnsOf(Len(serialCalls)))
  BY <1>1, <1>2 DEF SerialTyped, Latest
<1> QED
  BY <1>1, <1>3 DEF SerialTyped, SerialTypeOK, SerialCallSet

LEMMA SerialBegins ==
  ASSUME SerialInit
  PROVE  SerialInv
<1> USE DEF SerialInit
<1>1. Latest = 0 /\ PiecesIn(<<>>) = {} /\ ToRun = <<>>
  BY NoPieces DEF Latest, ToRun
<1>2. SerialTyped
  <2>1. /\ <<>> \in Seq(SerialCallSet)
        /\ <<>> \in Seq(SerialPieces) /\ <<>> \in Seq(SerialCommands) /\ <<>> \in Seq(SerialLines)
    OBVIOUS
  <2>2. Latest <= MaxSerialCalls /\ ~(Latest > 0) /\ \A n \in 1..Latest : CallFits(serialCalls[n])
    BY <1>1, SerialConstants
  <2>3. /\ typedFile \in [Tools -> Seq(SerialLines)] /\ madeFile \in [Tools -> Seq(SerialLines)]
    BY <2>1
  <2> QED
    BY <1>1, <2>1, <2>2, <2>3 DEF SerialTyped
<1>3. QueueProper /\ OwnOnly /\ GlimpseFirst
  BY <1>1 DEF QueueProper, OwnOnly, GlimpseFirst, OldFirst
<1>4. Progress
  BY <1>1 DEF Progress
<1>5. CaptureWhole
  <2>1. Unread = <<>>
    BY DEF Unread
  <2>2. CatsWhole(<<>>, Latest)
    BY <1>1, CatsNone
  <2> QED
    BY <2>1, <2>2 DEF CaptureWhole
<1> QED
  BY <1>2, <1>3, <1>4, <1>5 DEF SerialInv

LEMMA SerialSteps ==
  ASSUME SerialInv, [SerialNext]_serialVars
  PROVE  SerialInv'
<1>1. ASSUME NEW tool \in {"write", "upload", "place"}, NEW l \in SerialSizes,
             NEW renamed \in BOOLEAN, renamed => tool = "place", BeginSerial(tool, l, renamed)
      PROVE  SerialInv'
  <2>1. l \in Nat /\ l # 0
    BY SerialConstants
  <2>2. tool \in Tools /\ tool \in FileTools /\ l \in SerialSizes \cup {0} /\ l > 0
    BY <2>1 DEF Tools, FileTools
  <2> QED
    BY <1>1, <2>2, BeginKeeps
<1>2. ASSUME NEW tool \in {"capture", "send"}, BeginSerial(tool, 0, FALSE)
      PROVE  SerialInv'
  <2>1. tool \in Tools /\ tool \notin FileTools /\ 0 \in SerialSizes \cup {0} /\ ~(0 > 0)
    BY DEF Tools, FileTools
  <2> QED
    BY <1>2, <2>1, BeginKeeps
<1>3. CASE Types
  BY <1>3, TypesKeeps
<1>4. CASE Finds
  BY <1>4, FindsKeeps
<1>5. CASE Takes
  BY <1>5, TakesKeeps
<1>6. CASE GivesUp
  BY <1>6, GivesUpKeeps
<1>7. CASE Reads
  BY <1>7, ReadsKeeps
<1>8. CASE Echoes
  BY <1>8, EchoesKeeps
<1>9. CASE RunsNext
  BY <1>9, RunsKeeps
<1>10. CASE SessionExits
  <2>1. running' \in BOOLEAN
    BY <1>10 DEF SessionExits
  <2> QED
    BY <1>10, <2>1, ExitKeeps DEF SessionExits
<1>11. CASE UNCHANGED serialVars
  <2>1. running' \in BOOLEAN
    BY <1>11 DEF SerialInv, SerialTyped, serialVars, guestFiles
  <2>2. UNCHANGED <<bufferVars, toolVars, guestLines, typedFile, madeFile, serialFaults, faultSince>>
    BY <1>11 DEF serialVars, guestFiles
  <2> QED
    BY <2>1, <2>2, ExitKeeps
<1>12. ASSUME NEW l \in SerialSizes, BeginSerial("place", l, TRUE)
       PROVE  SerialInv'
  BY <1>1, <1>12
<1>13. ASSUME NEW tool \in {"write", "upload", "place"}, NEW l \in SerialSizes,
              BeginSerial(tool, l, FALSE)
       PROVE  SerialInv'
  BY <1>1, <1>13
<1> QED
  BY <1>2, <1>3, <1>4, <1>5, <1>6, <1>7, <1>8, <1>9, <1>10, <1>11, <1>12, <1>13 DEF SerialNext

(* The invariant of the serial console holds.                              *)
THEOREM SerialKept == SerialSpec => []SerialInv
<1>1. SerialInit => SerialInv
  BY SerialBegins
<1>2. SerialInv /\ [SerialNext]_serialVars => SerialInv'
  BY SerialSteps
<1> QED
  BY <1>1, <1>2, PTL DEF SerialSpec

(* The tool is where its script has it, and the guest's queue, what it has  *)
(* printed and the files are of the types they have (SerialTypeOK), for     *)
(* any sizes of files and of batches, any number of calls and failures.    *)
THEOREM SerialTypes == SerialSpec => []SerialTypeOK
<1>1. SerialInv => SerialTypeOK
  BY SerialTypesHold
<1> QED
  BY <1>1, SerialKept, PTL

(* What a tool reports of a file is true of it, and no output is lost      *)
(* (SerialSound): a number that _verify_line_count() or                    *)
(* irix_session_upload_file() has confirmed is that of the lines the guest *)
(* has, or the first digits of it if a read has cut the count, if the      *)
(* guest was quiet when the call began; what was captured is the whole     *)
(* source; and when the guest has run all that was typed, without a        *)
(* failure, the file is the content, except at the path of a copy that has *)
(* another name than its source.                                           *)
THEOREM SerialIsSound == SerialSpec => []SerialSound
<1>1. SerialInv => ConfirmedTrue
  BY ConfirmedIsTrue
<1>2. SerialInv => SettlesWhole
  BY SettledIsWhole
<1> QED
  BY <1>1, <1>2, SerialKept, NoPieceIsLost, PTL DEF SerialSound

-----------------------------------------------------------------------------
(* HookConsole: the mailbox.                                               *)

(* A text is numbered on from what was written; the byte that is waited    *)
(* for is its first.                                                       *)
MailTypes ==
  /\ hookPc \in {"idle", "putc", "look", "inject"}
  /\ text \in Seq(Nat) /\ console \in Seq(Nat) /\ {mailbox, written, looked} \subseteq Nat
  /\ clearing \in BOOLEAN /\ byteLost \in BOOLEAN
  /\ hookPc \in {"putc", "look"} => text # <<>>
  /\ \A i \in 1..Len(text) : text[i] = written + i - IF hookPc = "look" THEN 1 ELSE 0
  /\ hookPc = "look" => looked < Looks

(* What is in the mailbox is newer than all that was shown, or is what was *)
(* shown last.                                                             *)
MailNewest ==
  /\ clearing => mailbox # 0
  /\ mailbox <= written
  /\ \A i \in 1..Len(console) : console[i] <= written
  /\ ~clearing /\ mailbox # 0 => \A i \in 1..Len(console) : console[i] < mailbox

Waiting == mailbox # 0 /\ ~clearing

(* Without a loss all that was written was shown, or is in the mailbox,    *)
(* which is empty when the next is written.                                *)
MailKept ==
  ~byteLost =>
    /\ hookPc # "look" => mailbox = 0
    /\ Len(console) + (IF Waiting THEN 1 ELSE 0) = written
    /\ \A i \in 1..Len(console) : console[i] = i
    /\ Waiting => mailbox = written

MailInv == MailTypes /\ MailNewest /\ MailKept /\ ConsoleInOrder

(* Steps of the host, of the kernel's hook and of the shell.               *)
LEMMA MailKeeps ==
  ASSUME MailInv, [HookNext]_hookVars
  PROVE  MailInv'
<1> USE HookConstants
<1>1. CASE HookPuts
  <2>1. /\ hookPc = "idle" /\ hookPc' = "putc" /\ text' = [i \in 1..TextLength |-> written + i]
        /\ UNCHANGED <<looked, mailbox, clearing, console, written, byteLost>>
    BY <1>1 DEF HookPuts
  <2>2. TextLength \in Nat \ {0} /\ written \in Nat
    BY DEF MailInv, MailTypes
  <2>3. text' \in Seq(Nat) /\ Len(text') = TextLength
        /\ \A i \in 1..TextLength : text'[i] = written + i
    BY <2>1, <2>2
  <2>4. text' # <<>>
    BY <2>2, <2>3
  <2>5. MailTypes'
    BY <2>1, <2>3, <2>4 DEF MailInv, MailTypes
  <2> QED
    BY <2>1, <2>5 DEF MailInv, MailNewest, MailKept, Waiting, ConsoleInOrder
<1>2. ASSUME hookPc \in {"putc", "look"}
      PROVE  /\ Head(text) = text[1] /\ Tail(text) \in Seq(Nat)
                /\ Len(Tail(text)) = Len(text) - 1
             /\ Len(text) \in Nat \ {0}
                /\ \A i \in 1..Len(Tail(text)) : Tail(text)[i] = text[i + 1]
  <2>1. text \in Seq(Nat) /\ text # <<>>
    BY <1>2 DEF MailInv, MailTypes
  <2> QED
    BY <2>1, HeadTailProperties
<1>3. ASSUME hookPc = "putc", mailbox' \in {mailbox, Head(text)}, written' = Head(text),
             mailbox' = mailbox => byteLost', byteLost' = byteLost \/ byteLost' = TRUE,
             UNCHANGED <<clearing, console>>
      PROVE  written' = written + 1 /\ MailNewest' /\ ConsoleInOrder'
             /\ (hookPc' = "look" => MailKept')
             /\ (byteLost' => MailKept')
  <2>1. Head(text) = written + 1 /\ written \in Nat /\ mailbox \in Nat
        /\ clearing \in BOOLEAN /\ byteLost \in BOOLEAN
    BY <1>2, <1>3 DEF MailInv, MailTypes
  <2>2. Len(console) \in Nat /\ \A i \in 1..Len(console) : console[i] \in Nat
    <3>1. console \in Seq(Nat)
      BY DEF MailInv, MailTypes
    <3> QED
      BY <3>1
  <2>3. MailNewest'
    BY <1>3, <2>1, <2>2, SMTT(30) DEF MailInv, MailNewest
  <2>4. ASSUME ~byteLost', hookPc' = "look"
        PROVE  MailKept'
    <3>1. ~byteLost /\ mailbox = 0 /\ ~clearing /\ mailbox' = written + 1
      BY <1>3, <2>1, <2>4 DEF MailInv, MailKept, MailNewest
    <3>2. Len(console) = written /\ \A i \in 1..Len(console) : console[i] = i
      BY <2>1, <2>2, <3>1 DEF MailInv, MailKept, Waiting
    <3> QED
      BY <1>3, <2>1, <2>2, <2>4, <3>1, <3>2 DEF MailKept, Waiting
  <2>5. ConsoleInOrder'
    BY <1>3 DEF MailInv, ConsoleInOrder
  <2> QED
    BY <1>3, <2>1, <2>3, <2>4, <2>5 DEF MailKept
<1>4. CASE Putc
  <2>1. /\ hookPc = "putc" /\ hookPc' = "look" /\ written' = Head(text) /\ looked' = 0
        /\ UNCHANGED <<text, clearing, console>>
        /\ \/ mailbox' = Head(text) /\ byteLost' = byteLost
           \/ mailbox' = mailbox /\ byteLost' = TRUE
    BY <1>4 DEF Putc
  <2>2. Head(text) = text[1] /\ text[1] = written + 1 /\ written \in Nat /\ mailbox \in Nat
        /\ byteLost \in BOOLEAN
        /\ (mailbox <= written)
    BY <1>2, <2>1 DEF MailInv, MailTypes, MailNewest
  <2>3. mailbox' \in {mailbox, Head(text)} /\ (mailbox' = mailbox => byteLost')
    <3>1. Head(text) # mailbox
      BY <2>2
    <3> QED
      BY <2>1, <3>1
  <2>4. byteLost' = byteLost \/ byteLost' = TRUE
    BY <2>1
  <2>5. written' = written + 1 /\ MailNewest' /\ ConsoleInOrder' /\ MailKept'
    BY <1>3, <2>1, <2>3, <2>4
  <2>6. /\ mailbox' \in Nat /\ byteLost' \in BOOLEAN /\ looked' < Looks /\ looked' \in Nat
        /\ written' \in Nat
    <3>1. Looks \in Nat /\ 0 < Looks
      OBVIOUS
    <3>2. looked' < Looks /\ looked' \in Nat /\ written' \in Nat /\ mailbox' \in Nat
      BY <2>1, <2>2, <2>5, <3>1
    <3>3. byteLost' \in BOOLEAN
      BY <2>1, <2>2
    <3> QED
      BY <3>2, <3>3
  <2>7. \A i \in 1..Len(text) : text[i] = written' + i - 1
    <3>1. text \in Seq(Nat) /\ \A i \in 1..Len(text) : text[i] = written + i
      BY <2>1 DEF MailInv, MailTypes
    <3> QED
      BY <2>2, <2>5, <3>1
  <2>8. MailTypes'
    BY <2>1, <2>6, <2>7 DEF MailInv, MailTypes
  <2> QED
    BY <2>5, <2>8 DEF MailInv
<1>5. ASSUME hookPc = "look", NextByte, UNCHANGED <<written, console, mailbox, clearing>>,
             byteLost' \in BOOLEAN, looked' \in Nat
      PROVE  MailTypes'
  <2>1. text' = Tail(text) /\ hookPc' = IF Tail(text) = <<>> THEN "idle" ELSE "putc"
    BY <1>5 DEF NextByte
  <2>2. \A i \in 1..Len(text) : text[i] = written + i - 1
    BY <1>5 DEF MailInv, MailTypes
  <2>3. written \in Nat
    BY DEF MailInv, MailTypes
  <2> DEFINE rest == Tail(text)
  <2>4. /\ rest \in Seq(Nat) /\ Len(rest) = Len(text) - 1 /\ Len(text) \in Nat \ {0}
        /\ \A i \in 1..Len(rest) : rest[i] = text[i + 1]
    BY <1>2, <1>5
  <2> HIDE DEF rest
  <2>5. \A i \in 1..Len(rest) : rest[i] = written + i
    BY <2>2, <2>3, <2>4
  <2>6. text' = rest /\ hookPc' = IF rest = <<>> THEN "idle" ELSE "putc"
    BY <2>1 DEF rest
  <2> QED
    BY <1>5, <2>3, <2>4, <2>5, <2>6 DEF MailInv, MailTypes
<1>6. CASE Look
  <2>0. hookPc = "look" /\ UNCHANGED <<mailbox, clearing, console, written>>
    BY <1>6 DEF Look
  <2>1. looked \in Nat /\ looked < Looks /\ Looks \in Nat /\ byteLost \in BOOLEAN
    BY <2>0 DEF MailInv, MailTypes
  <2>2. \/ /\ looked' = looked + 1 /\ UNCHANGED <<text, hookPc>> /\ mailbox # 0
              /\ looked' < Looks /\ byteLost' = byteLost
        \/ /\ looked' = looked + 1 /\ NextByte /\ byteLost' \in BOOLEAN
              /\ (~byteLost' => mailbox = 0 /\ ~byteLost)
        \/ NextByte /\ byteLost' = TRUE /\ looked' = looked
    <3>1. CASE mailbox # 0 /\ looked + 1 < Looks /\ looked' = looked + 1
                /\ byteLost' = (byteLost \/ (mailbox # 0 /\ looked' = Looks))
                /\ UNCHANGED <<text, hookPc>>
      <4>1. looked' # Looks
        BY <2>1, <3>1
      <4> QED
        BY <2>1, <3>1, <4>1
    <3>2. CASE ~(mailbox # 0 /\ looked + 1 < Looks) /\ looked' = looked + 1
                /\ byteLost' = (byteLost \/ (mailbox # 0 /\ looked' = Looks)) /\ NextByte
      <4>1. mailbox # 0 => looked' = Looks
        BY <2>1, <3>2
      <4> QED
        BY <2>1, <3>2, <4>1
    <3>3. \/ /\ looked' = looked + 1
             /\ IF mailbox # 0
                /\ looked + 1 < Looks THEN UNCHANGED <<text, hookPc>> ELSE NextByte
             /\ byteLost' = (byteLost \/ (mailbox # 0 /\ looked' = Looks))
          \/ NextByte /\ byteLost' = TRUE /\ looked' = looked
      BY <1>6 DEF Look, StillThere
    <3> QED
      BY <3>1, <3>2, <3>3
  <2>3. CASE looked' = looked + 1 /\ UNCHANGED <<text, hookPc>> /\ mailbox # 0
             /\ looked' < Looks /\ byteLost' = byteLost
    <3>1. MailTypes'
      BY <2>0, <2>1, <2>3 DEF MailInv, MailTypes
    <3> QED
      BY <2>0, <2>3, <3>1 DEF MailInv, MailNewest, MailKept, Waiting, ConsoleInOrder
  <2>4. CASE NextByte /\ byteLost' \in BOOLEAN /\ looked' \in Nat
             /\ (~byteLost' => mailbox = 0 /\ ~byteLost)
    <3>1. MailTypes'
      BY <1>5, <2>0, <2>4
    <3> QED
      BY <2>0, <2>4, <3>1 DEF MailInv, MailNewest, MailKept, Waiting, ConsoleInOrder
  <2> QED
    <3>1. looked + 1 \in Nat
      BY <2>1
    <3> QED
      BY <2>1, <2>2, <2>3, <2>4, <3>1
<1>7. CASE GdbTimeout
  <2>1. hookPc # "idle" /\ hookPc' = "idle" /\ text' = <<>>
        /\ UNCHANGED <<looked, clearing, console>>
    BY <1>7 DEF GdbTimeout
  <2>0. /\ text' \in Seq(Nat) /\ 1..Len(text') = {} /\ console' \in Seq(Nat)
        /\ clearing' \in BOOLEAN /\ looked' \in Nat
        /\ mailbox \in Nat /\ written \in Nat /\ byteLost \in BOOLEAN
    <3>1. <<>> \in Seq(Nat) /\ 1..Len(<<>>) = {}
      OBVIOUS
    <3>2. console \in Seq(Nat) /\ clearing \in BOOLEAN
          /\ {mailbox, written, looked} \subseteq Nat
          /\ byteLost \in BOOLEAN
      BY DEF MailInv, MailTypes
    <3> QED
      BY <2>1, <3>1, <3>2
  <2>2. \/ hookPc = "putc" /\ mailbox' \in {mailbox, Head(text)} /\ written' = Head(text)
           /\ byteLost' = TRUE
        \/ hookPc = "look" /\ byteLost' = TRUE /\ UNCHANGED <<mailbox, written>>
        \/ hookPc = "inject" /\ UNCHANGED <<mailbox, written, byteLost>>
    BY <1>7 DEF GdbTimeout
  <2>3. CASE hookPc = "putc" /\ mailbox' \in {mailbox, Head(text)} /\ written' = Head(text)
             /\ byteLost' = TRUE
    <3>1. written' = written + 1 /\ MailNewest' /\ ConsoleInOrder' /\ MailKept'
      BY <1>3, <2>1, <2>3
    <3>2. mailbox' \in Nat
      BY <1>2, <2>3 DEF MailInv, MailTypes
    <3>3. written' \in Nat
      BY <3>1 DEF MailInv, MailTypes
    <3>4. MailTypes'
      BY <2>0, <2>1, <2>3, <3>2, <3>3 DEF MailTypes
    <3> QED
      BY <3>1, <3>4 DEF MailInv
  <2>4. CASE hookPc = "look" /\ byteLost' = TRUE /\ UNCHANGED <<mailbox, written>>
    <3>1. MailTypes'
      BY <2>0, <2>1, <2>4 DEF MailTypes
    <3> QED
      BY <2>1, <2>4, <3>1 DEF MailInv, MailNewest, MailKept, ConsoleInOrder
  <2>5. CASE hookPc = "inject" /\ UNCHANGED <<mailbox, written, byteLost>>
    <3>1. MailTypes'
      BY <2>0, <2>1, <2>5 DEF MailTypes
    <3> QED
      BY <2>1, <2>5, <3>1 DEF MailInv, MailNewest, MailKept, Waiting, ConsoleInOrder
  <2> QED
    BY <2>2, <2>3, <2>4, <2>5
<1>8. CASE HookEmits
  <2>1. /\ mailbox # 0 /\ ~clearing /\ console' = Append(console, mailbox) /\ clearing' = TRUE
        /\ UNCHANGED <<hookPc, text, looked, mailbox, written, byteLost>>
    BY <1>8 DEF HookEmits
  <2>2. console \in Seq(Nat) /\ mailbox \in Nat /\ written \in Nat
    BY DEF MailInv, MailTypes
  <2>3. /\ console' \in Seq(Nat) /\ Len(console') = Len(console) + 1 /\ Len(console) \in Nat
        /\ \A i \in 1..Len(console) : console'[i] = console[i] /\ console[i] \in Nat
        /\ console'[Len(console) + 1] = mailbox
    BY <2>1, <2>2
  <2>4. \A i \in 1..Len(console) : console[i] < mailbox /\ console[i] <= written
    BY <2>1 DEF MailInv, MailNewest
  <2>5. MailTypes'
    BY <2>1, <2>3 DEF MailInv, MailTypes
  <2>6. MailNewest'
    <3>1. mailbox <= written
      BY DEF MailInv, MailNewest
    <3>2. \A i \in 1..Len(console') : console'[i] <= written
      <4> SUFFICES ASSUME NEW i \in 1..Len(console') PROVE console'[i] <= written
        OBVIOUS
      <4>1. i \in 1..Len(console) \/ i = Len(console) + 1
        BY <2>3
      <4> QED
        BY <2>3, <2>4, <3>1, <4>1
    <3> QED
      BY <2>1, <3>1, <3>2 DEF MailNewest
  <2>7. MailKept'
    BY <2>1, <2>2, <2>3 DEF MailInv, MailKept, Waiting
  <2>8. DOMAIN console = 1..Len(console) /\ DOMAIN console' = 1..Len(console')
    BY <2>2, <2>3
  <2>9. ConsoleInOrder'
    <3> SUFFICES ASSUME NEW i \in 1..Len(console'), NEW j \in 1..Len(console'), i < j
                 PROVE  console'[i] < console'[j]
      BY <2>8 DEF ConsoleInOrder
    <3>1. i \in 1..Len(console) /\ (j \in 1..Len(console) \/ j = Len(console) + 1)
      <4>1. Len(console') = Len(console) + 1 /\ Len(console) \in Nat
        BY <2>3
      <4> HIDE <2>3
      <4> QED
        BY <4>1
    <3>2. j \in 1..Len(console) => console[i] < console[j]
      BY <2>8, <3>1 DEF MailInv, ConsoleInOrder
    <3> QED
      BY <2>3, <2>4, <3>1, <3>2
  <2> QED
    BY <2>5, <2>6, <2>7, <2>9 DEF MailInv
<1>9. CASE HookClears
  <2>1. /\ clearing /\ mailbox' = 0 /\ clearing' = FALSE
        /\ UNCHANGED <<hookPc, text, looked, console, written, byteLost>>
    BY <1>9 DEF HookClears
  <2>2. written \in Nat
    BY DEF MailInv, MailTypes
  <2>3. MailTypes'
    <3>1. \A i \in 1..Len(text') : text'[i] = written' + i - IF hookPc' = "look" THEN 1 ELSE 0
      BY <2>1 DEF MailInv, MailTypes
    <3>2. mailbox' \in Nat
      BY <2>1
    <3> QED
      BY <2>1, <3>1, <3>2 DEF MailInv, MailTypes
  <2>4. MailNewest' /\ ConsoleInOrder'
    BY <2>1, <2>2 DEF MailInv, MailNewest, ConsoleInOrder
  <2>5. MailKept'
    BY <2>1 DEF MailInv, MailKept, Waiting
  <2> QED
    BY <2>3, <2>4, <2>5 DEF MailInv
<1>10. CASE \/ \E kind \in {"text", "file"}, length \in FileLengths : Push(kind, length)
            \/ Inject \/ GuestReads \/ UNCHANGED hookVars
  <2>1. UNCHANGED <<text, looked, mailbox, clearing, console, written, byteLost>>
    BY <1>10 DEF Push, Inject, GuestReads, hookVars, mailVars
  <2>2. \/ hookPc' = hookPc
        \/ hookPc = "idle" /\ hookPc' = "inject"
        \/ hookPc = "inject" /\ hookPc' \in {"idle", "inject"}
    BY <1>10 DEF Push, Inject, GuestReads, hookVars
  <2>3. MailTypes'
    BY <2>1, <2>2 DEF MailInv, MailTypes
  <2>4. MailKept'
    BY <2>1, <2>2 DEF MailInv, MailKept, Waiting
  <2> QED
    BY <2>1, <2>3, <2>4 DEF MailInv, MailNewest, ConsoleInOrder
<1> QED
  BY <1>1, <1>4, <1>6, <1>7, <1>8, <1>9, <1>10 DEF HookNext

-----------------------------------------------------------------------------
(* HookConsole: the keys.  No dd asks for anything but a length of a file, *)
(* whatever is lost, and no line but its own is run.                       *)
FitKeys == {k \in [what : {"dd", "data", "uudecode", "enter"}, of : Nat, at : Nat] :
              k.what = "dd" => k.at \in FileLengths}
Paths == {"text", "tmp"}

KeyTypes ==
  /\ fifo \in Seq(FitKeys) /\ toInject \in Seq(Seq(FitKeys)) /\ shellLine \in Seq(FitKeys)
  /\ (hookPc = "inject" <=> toInject # <<>>)
  /\ ddLeft \in Nat /\ ddFile \in Paths /\ ttyFiles \in [Paths -> Seq(FitKeys)]
  /\ pushed \in Seq([kind : {"text", "file"}, length : FileLengths])
  /\ keyLost \in BOOLEAN

(* What dd has still to read makes its file as long as some file.          *)
DdFits ==
  /\ ddLeft > 0 => Len(ttyFiles[ddFile]) + ddLeft \in FileLengths
  /\ \A p \in Paths : ~(ddLeft > 0 /\ p = ddFile)
       => ttyFiles[p] = <<>> \/ Len(ttyFiles[p]) \in FileLengths
  /\ NotWhileWriting

LEMMA FileLengthsFit ==
  /\ FileLengths \subseteq Nat /\ \A l \in FileLengths : l > 0
  /\ ChunkSize \in Nat /\ ChunkSize > 0 /\ FifoSize \in Nat /\ FifoSize > 0
  BY HookConstants

LEMMA KeysFit ==
  /\ Enter \in FitKeys
  /\ \A n \in Nat, l \in FileLengths :
       Key("dd", n, l) \in FitKeys /\ Key("uudecode", n, 0) \in FitKeys
  /\ \A n \in Nat, i \in Nat : Key("data", n, i) \in FitKeys
  BY FileLengthsFit DEF FitKeys, Key, Enter

LEMMA PathsOf == \A n : PathOf(n) \in Paths
  BY DEF PathOf, Paths

(* Keys that have come, those that came first.                             *)
LEMMA AcceptedFit ==
  ASSUME NEW keys \in Seq(FitKeys), fifo \in Seq(FitKeys)
  PROVE  /\ Accepted(keys) \in Seq(FitKeys)
         /\ Len(fifo) + Len(keys) <= FifoSize => Accepted(keys) = fifo \o keys
<1> DEFINE all == fifo \o keys
<1>1. all \in Seq(FitKeys) /\ Len(all) = Len(fifo) + Len(keys)
  BY ConcatProperties
<1> HIDE DEF all
<1> DEFINE m == IF Len(all) < FifoSize THEN Len(all) ELSE FifoSize
<1>2. m \in 0..Len(all) /\ Len(all) \in Nat /\ \A i \in 1..Len(all) : all[i] \in FitKeys
  BY <1>1, FileLengthsFit
<1>3. Accepted(keys) = SubSeq(all, 1, m)
  BY DEF Accepted, all
<1> HIDE DEF m
<1>4. \A i \in 1..m : all[i] \in FitKeys
  BY <1>2
<1>5. SubSeq(all, 1, m) \in Seq(FitKeys)
  BY <1>2, <1>4, SubSeqProperties
<1>6. ASSUME Len(all) <= FifoSize
      PROVE  SubSeq(all, 1, m) = all
  <2>1. m = Len(all)
    BY <1>2, <1>6, FileLengthsFit DEF m
  <2>2. Len(SubSeq(all, 1, m)) = Len(all)
        /\ \A i \in 1..Len(all) : SubSeq(all, 1, m)[i] = all[i]
    BY <1>2, <1>4, <2>1, SubSeqProperties
  <2> QED
    BY <1>1, <1>5, <2>2, SeqEqual
<1> QED
  BY <1>1, <1>3, <1>5, <1>6 DEF all

(* How much of l the first j sequences have.                               *)
Upto(l, j) == IF j * ChunkSize < l THEN j * ChunkSize ELSE l

(* Each sequence begins where the one before it ends.                      *)
LEMMA ChunksLaid ==
  ASSUME NEW s \in Seq(FitKeys)
  PROVE  LET q == (Len(s) + ChunkSize - 1) \div ChunkSize
         IN  /\ q \in Nat /\ Chunks(s) \in Seq(Seq(FitKeys)) /\ Len(Chunks(s)) = q
             /\ Upto(Len(s), 0) = 0 /\ Upto(Len(s), q) = Len(s)
             /\ \A j \in 0..q : Upto(Len(s), j) \in 0..Len(s)
             /\ \A j \in 1..q :
                  /\ Upto(Len(s), j) = Upto(Len(s), j - 1) + Len(Chunks(s)[j])
                  /\ \A i \in 1..Len(Chunks(s)[j]) : Chunks(s)[j][i] = s[Upto(Len(s), j - 1) + i]
<1> DEFINE l == Len(s)
           q == (l + ChunkSize - 1) \div ChunkSize
           F(j) == SubSeq(s, (j - 1) * ChunkSize + 1, Upto(l, j))
           cs == [j \in 1..q |-> F(j)]
<1>1. l \in Nat /\ ChunkSize \in Nat /\ ChunkSize > 0 /\ \A i \in 1..l : s[i] \in FitKeys
  BY FileLengthsFit
<1> HIDE DEF l
<1>2. q \in Nat /\ l <= q * ChunkSize /\ \A j \in 1..q : (j - 1) * ChunkSize < l
  BY <1>1, ChunkCount
<1>3. Chunks(s) = cs
  BY DEF Chunks, Upto, l
<1> HIDE DEF q
<1>4. ASSUME NEW j \in 0..q
      PROVE  /\ Upto(l, j) \in 0..l /\ j * ChunkSize \in Nat /\ Upto(l, 0) = 0 /\ Upto(l, q) = l
             /\ j > 0 => Upto(l, j - 1) = (j - 1) * ChunkSize /\ (j - 1) * ChunkSize \in Nat
                         /\ Upto(l, j - 1) <= Upto(l, j)
  <2>1. j * ChunkSize \in Nat /\ q * ChunkSize \in Nat /\ 0 * ChunkSize = 0
    BY <1>1, <1>2
  <2>2. Upto(l, 0) = 0 /\ Upto(l, q) = l /\ Upto(l, j) \in 0..l
    BY <1>1, <1>2, <2>1 DEF Upto
  <2>3. ASSUME j > 0
        PROVE  Upto(l, j - 1) = (j - 1) * ChunkSize /\ (j - 1) * ChunkSize \in Nat
               /\ Upto(l, j - 1) <= Upto(l, j)
    <3>1. (j - 1) * ChunkSize < l /\ (j - 1) * ChunkSize \in Nat
          /\ j * ChunkSize = (j - 1) * ChunkSize + ChunkSize
      BY <1>1, <1>2, <2>3
    <3> QED
      BY <1>1, <2>1, <3>1 DEF Upto
  <2> QED
    BY <2>1, <2>2, <2>3
<1>5. ASSUME NEW j \in 1..q
      PROVE  /\ F(j) \in Seq(FitKeys) /\ Upto(l, j) = Upto(l, j - 1) + Len(F(j))
             /\ \A i \in 1..Len(F(j)) : F(j)[i] = s[Upto(l, j - 1) + i]
  <2> DEFINE a == Upto(l, j - 1)
             b == Upto(l, j)
  <2>1. a \in Nat /\ b \in 0..l /\ a <= b /\ F(j) = SubSeq(s, a + 1, b)
    <3>1. j \in 0..q /\ j > 0
      BY <1>2
    <3>2. /\ Upto(l, j) \in 0..l
          /\ Upto(l, j - 1) = (j - 1) * ChunkSize /\ (j - 1) * ChunkSize \in Nat
          /\ Upto(l, j - 1) <= Upto(l, j)
      BY <1>4, <3>1
    <3>3. F(j) = SubSeq(s, (j - 1) * ChunkSize + 1, Upto(l, j))
      OBVIOUS
    <3> QED
      BY <3>2, <3>3
  <2> HIDE DEF a, b, F
  <2>2. a + 1 \in 1..(b + 1) /\ b \in Nat /\ \A i \in (a + 1)..b : s[i] \in FitKeys
    BY <1>1, <2>1
  <2>3. /\ SubSeq(s, a + 1, b) \in Seq(FitKeys)
        /\ Len(SubSeq(s, a + 1, b)) = b - a
        /\ \A i \in 1..(b - a) : SubSeq(s, a + 1, b)[i] = s[a + i]
    <3>1. /\ SubSeq(s, a + 1, b) \in Seq(FitKeys)
          /\ Len(SubSeq(s, a + 1, b)) = IF a + 1 <= b THEN b - (a + 1) + 1 ELSE 0
          /\ \A i \in 1..b - (a + 1) + 1 : SubSeq(s, a + 1, b)[i] = s[a + 1 + i - 1]
      BY <2>2, SubSeqProperties
    <3> HIDE <1>3
    <3> QED
      BY <2>1, <3>1
  <2> QED
    BY <2>1, <2>3, SMTT(30) DEF a, b
<1>6. cs \in Seq(Seq(FitKeys)) /\ Len(cs) = q /\ \A j \in 1..q : cs[j] = F(j)
  <2>1. cs \in [1..q -> Seq(FitKeys)]
    BY <1>5
  <2> HIDE DEF F
  <2> QED
    BY <1>2, <2>1, IsASeq
<1> HIDE DEF cs, F
<1>7. Upto(l, 0) = 0 /\ Upto(l, q) = l /\ \A j \in 0..q : Upto(l, j) \in 0..l
  BY <1>2, <1>4
<1> QED
  BY <1>2, <1>3, <1>5, <1>6, <1>7 DEF l, q

(* What is typed for a file, key by key, and in the sequences it is cut    *)
(* into.                                                                   *)
ScriptKey(n, l, p) ==
  IF p = 1 THEN Key("dd", n, l)
  ELSE IF p = 2 THEN Enter
  ELSE IF p <= l + 2 THEN Key("data", n, p - 2)
  ELSE IF p = l + 3 THEN Key("uudecode", n, 0) ELSE Enter
ScriptLength(kind, l) == l + 2 + IF kind = "file" THEN 2 ELSE 0

Typescript(kind, n, l) ==
  <<<<Key("dd", n, l), Enter>>>>
  \o Chunks([i \in 1..l |-> Key("data", n, i)])
  \o (IF kind = "file" THEN <<<<Key("uudecode", n, 0), Enter>>>> ELSE <<>>)

LEMMA ScriptLaid ==
  ASSUME NEW n \in Nat, NEW l \in FileLengths, NEW kind \in {"text", "file"}
  PROVE  LET ss == Typescript(kind, n, l)
         IN  /\ ss \in Seq(Seq(FitKeys)) /\ ss # <<>>
             /\ \E c \in [0..Len(ss) -> Nat] :
                  /\ c[0] = 0 /\ c[Len(ss)] = ScriptLength(kind, l)
                  /\ \A j \in 0..Len(ss) : c[j] <= ScriptLength(kind, l)
                  /\ \A j \in 1..Len(ss) :
                       /\ c[j] = c[j - 1] + Len(ss[j])
                       /\ \A i \in 1..Len(ss[j]) : ss[j][i] = ScriptKey(n, l, c[j - 1] + i)
<1> DEFINE s == [i \in 1..l |-> Key("data", n, i)]
           cs == Chunks(s)
           q == (Len(s) + ChunkSize - 1) \div ChunkSize
           hd == <<Key("dd", n, l), Enter>>
           tl == <<Key("uudecode", n, 0), Enter>>
           t == IF kind = "file" THEN 1 ELSE 0
           last == IF kind = "file" THEN <<tl>> ELSE <<>>
           one == <<hd>> \o cs
           ss == one \o last
<1>1. l \in Nat /\ l > 0
  BY FileLengthsFit
<1>2. /\ s \in Seq(FitKeys) /\ Len(s) = l /\ \A i \in 1..l : s[i] = Key("data", n, i)
  <2>1. \A i \in 1..l : Key("data", n, i) \in FitKeys
    BY <1>1, KeysFit
  <2> QED
    BY <1>1, <2>1
<1> HIDE DEF s
<1>3. /\ q \in Nat /\ cs \in Seq(Seq(FitKeys)) /\ Len(cs) = q
      /\ Upto(l, 0) = 0 /\ Upto(l, q) = l
      /\ \A j \in 0..q : Upto(l, j) \in 0..l
      /\ \A j \in 1..q :
           /\ Upto(l, j) = Upto(l, j - 1) + Len(cs[j])
           /\ \A i \in 1..Len(cs[j]) : cs[j][i] = s[Upto(l, j - 1) + i]
  BY <1>2, ChunksLaid
<1> HIDE DEF cs, q
<1>4. /\ hd \in Seq(FitKeys) /\ Len(hd) = 2 /\ hd[1] = Key("dd", n, l) /\ hd[2] = Enter
      /\ tl \in Seq(FitKeys) /\ Len(tl) = 2 /\ tl[1] = Key("uudecode", n, 0) /\ tl[2] = Enter
  <2>1. Key("dd", n, l) \in FitKeys /\ Enter \in FitKeys /\ Key("uudecode", n, 0) \in FitKeys
    BY KeysFit
  <2> QED
    BY <2>1
<1> HIDE DEF hd, tl
<1>5. /\ <<hd>> \in Seq(Seq(FitKeys)) /\ Len(<<hd>>) = 1 /\ <<hd>>[1] = hd
      /\ last \in Seq(Seq(FitKeys)) /\ Len(last) = t /\ (t = 1 => last[1] = tl) /\ t \in {0, 1}
  BY <1>4
<1> HIDE DEF last, t
<1>6. /\ one \in Seq(Seq(FitKeys)) /\ Len(one) = 1 + q /\ one[1] = hd
      /\ \A j \in 1..q : one[j + 1] = cs[j]
  <2>1. /\ one \in Seq(Seq(FitKeys)) /\ Len(one) = Len(<<hd>>) + Len(cs)
        /\ \A i \in 1..Len(<<hd>>) + Len(cs) :
             one[i] = IF i <= Len(<<hd>>) THEN <<hd>>[i] ELSE cs[i - Len(<<hd>>)]
    BY <1>3, <1>5, ConcatProperties
  <2> HIDE DEF one
  <2>2. \A i \in 1..(1 + q) : one[i] = IF i <= 1 THEN <<hd>>[i] ELSE cs[i - 1]
    BY <1>3, <1>5, <2>1
  <2> QED
    BY <1>3, <1>5, <2>1, <2>2
<1> HIDE DEF one
<1>7. /\ ss \in Seq(Seq(FitKeys)) /\ Len(ss) = 1 + q + t /\ ss[1] = hd
      /\ (\A j \in 1..q : ss[j + 1] = cs[j]) /\ (t = 1 => ss[q + 2] = tl)
  <2>1. /\ ss \in Seq(Seq(FitKeys)) /\ Len(ss) = Len(one) + Len(last)
        /\ \A i \in 1..Len(one) + Len(last) : ss[i] = IF i <= Len(one) THEN one[i] ELSE last[i - Len(one)]
    BY <1>5, <1>6, ConcatProperties
  <2> HIDE DEF ss
  <2>2. \A i \in 1..(1 + q + t) : ss[i] = IF i <= 1 + q THEN one[i] ELSE last[i - (1 + q)]
    BY <1>3, <1>5, <1>6, <2>1
  <2>3. t = 1 => q + 2 \in 1..(1 + q + t) /\ ~(q + 2 <= 1 + q) /\ q + 2 - (1 + q) = 1
    BY <1>3, <1>5
  <2>4. ASSUME NEW j \in 1..q PROVE ss[j + 1] = cs[j]
    <3>1. j + 1 \in 1..(1 + q + t) /\ j + 1 <= 1 + q
      BY <1>3, <1>5
    <3>2. ss[j + 1] = one[j + 1]
      BY <2>2, <3>1, Zenon
    <3> QED
      BY <1>6, <3>2
  <2>5. ss[1] = hd
    <3>1. 1 \in 1..(1 + q + t) /\ 1 <= 1 + q
      BY <1>3, <1>5
    <3>2. ss[1] = one[1]
      BY <2>2, <3>1
    <3> QED
      BY <1>6, <3>2
  <2> QED
    BY <1>5, <1>6, <2>1, <2>2, <2>3, <2>4, <2>5, SMTT(30)
<1> HIDE DEF ss
<1> DEFINE c == [j \in 0..Len(ss) |-> IF j = 0 THEN 0 ELSE IF j <= 1 + q THEN 2 + Upto(l, j - 1) ELSE l + 4]
<1>8. ScriptLength(kind, l) = l + 2 + 2 * t /\ Typescript(kind, n, l) = ss
  BY DEF ScriptLength, Typescript, ss, one, last, hd, tl, cs, s, t
<1>9. /\ c \in [0..Len(ss) -> Nat] /\ c[0] = 0 /\ c[Len(ss)] = l + 2 + 2 * t
      /\ (\A j \in 0..Len(ss) : c[j] <= l + 2 + 2 * t)
      /\ c[1] = 2 /\ (\A j \in 1..q : c[j + 1] = 2 + Upto(l, j)) /\ (t = 1 => c[q + 2] = l + 4)
  <2>1. \A j \in 0..q : Upto(l, j) \in Nat /\ Upto(l, j) <= l
    BY <1>1, <1>3
  <2>2. \A j \in 0..Len(ss) : j > 0 /\ j <= 1 + q => j - 1 \in 0..q
    BY <1>3, <1>5, <1>7
  <2>3. ASSUME NEW j \in 0..Len(ss)
        PROVE  c[j] \in Nat /\ c[j] <= l + 2 + 2 * t
    <3>1. CASE j = 0
      BY <1>1, <1>5, <3>1
    <3>2. CASE j > 0 /\ j <= 1 + q
      <4>1. c[j] = 2 + Upto(l, j - 1) /\ Upto(l, j - 1) \in Nat /\ Upto(l, j - 1) <= l
        BY <2>1, <2>2, <3>2
      <4> QED
        BY <1>1, <1>5, <4>1
    <3>3. CASE j > 1 + q
      <4>1. t = 1 /\ c[j] = l + 4
        BY <1>3, <1>5, <1>7, <3>3
      <4> QED
        BY <1>1, <4>1
    <3> QED
      BY <1>3, <3>1, <3>2, <3>3
  <2>4. c \in [0..Len(ss) -> Nat] /\ \A j \in 0..Len(ss) : c[j] <= l + 2 + 2 * t
    BY <2>3
  <2>5. c[0] = 0 /\ c[1] = 2
    BY <1>3, <1>5, <1>7
  <2>6. ASSUME NEW j \in 1..q
        PROVE  c[j + 1] = 2 + Upto(l, j)
    <3>1. j + 1 \in 0..Len(ss) /\ j + 1 # 0 /\ j + 1 <= 1 + q /\ j + 1 - 1 = j
      BY <1>3, <1>5, <1>7
    <3> QED
      BY <3>1
  <2>7. t = 1 => c[q + 2] = l + 4
    BY <1>3, <1>7
  <2>8. c[Len(ss)] = l + 2 + 2 * t
    <3>1. CASE t = 1
      BY <1>1, <1>3, <1>7, <2>7, <3>1
    <3>2. CASE t = 0
      <4>1. Len(ss) = q + 1 /\ (q = 0 \/ q \in 1..q)
        BY <1>3, <1>7, <3>2
      <4>2. c[q + 1] = 2 + Upto(l, q)
        BY <1>3, <2>5, <2>6, <4>1
      <4> QED
        BY <1>1, <1>3, <3>2, <4>1, <4>2
    <3> QED
      BY <1>5, <3>1, <3>2
  <2> QED
    BY <2>4, <2>5, <2>6, <2>7, <2>8
<1> HIDE DEF c
<1>10. ASSUME NEW j \in 1..Len(ss)
       PROVE  /\ c[j] = c[j - 1] + Len(ss[j])
              /\ \A i \in 1..Len(ss[j]) : ss[j][i] = ScriptKey(n, l, c[j - 1] + i)
  <2>1. CASE j = 1
    <3>1. c[1] = c[0] + Len(hd) /\ ss[1] = hd /\ Len(hd) = 2 /\ c[0] = 0
      BY <1>4, <1>7, <1>9
    <3>2. hd[1] = ScriptKey(n, l, 1) /\ hd[2] = ScriptKey(n, l, 2)
      BY <1>4 DEF ScriptKey
    <3> QED
      BY <2>1, <3>1, <3>2
  <2>2. CASE j \in 2..(1 + q)
    <3>1. PICK k \in 1..q : j = k + 1
      <4>1. j - 1 \in 1..q /\ j = (j - 1) + 1
        BY <1>3, <2>2
      <4> QED
        BY <4>1
    <3>2. /\ Upto(l, k) = Upto(l, k - 1) + Len(cs[k]) /\ ss[j] = cs[k]
          /\ (\A i \in 1..Len(cs[k]) : cs[k][i] = s[Upto(l, k - 1) + i])
          /\ Upto(l, k - 1) \in 0..l /\ Upto(l, k) \in 0..l
      BY <1>3, <1>7, <3>1, SMTT(30)
    <3>3. c[j] = 2 + Upto(l, k)
      BY <1>9, <3>1
    <3>4. c[k] = 2 + Upto(l, k - 1)
      <4>1. k = 1 \/ (k - 1 \in 1..q /\ k - 1 + 1 = k)
        BY <1>3
      <4>2. k = 1 => k - 1 = 0
        OBVIOUS
      <4> QED
        BY <1>3, <1>9, <4>1, <4>2, SMTT(30)
    <3>5. Len(cs[k]) \in Nat /\ j - 1 = k
      BY <1>3, <3>1
    <3> DEFINE a == Upto(l, k - 1)
               b == Upto(l, k)
               m == Len(cs[k])
    <3>6. c[j] = 2 + b /\ c[k] = 2 + a /\ b = a + m /\ a \in 0..l /\ b \in 0..l /\ m \in Nat
      BY <3>2, <3>3, <3>4, <3>5
    <3>7. \A i \in 1..m : cs[k][i] = s[a + i]
      BY <3>2
    <3> HIDE DEF a, b, m
    <3>8. ASSUME NEW i \in 1..m
          PROVE  cs[k][i] = ScriptKey(n, l, c[k] + i)
      <4>1. a + i \in 1..l /\ c[k] + i = a + i + 2 /\ a + i + 2 # 1 /\ a + i + 2 # 2
            /\ a + i + 2 <= l + 2
            /\ a + i + 2 - 2 = a + i
        BY <1>1, <3>6
      <4>2. cs[k][i] = Key("data", n, a + i)
        BY <1>2, <3>7, <4>1
      <4>3. ScriptKey(n, l, a + i + 2) = Key("data", n, a + i)
        BY <4>1 DEF ScriptKey
      <4> QED
        BY <4>1, <4>2, <4>3
    <3>9. c[j] = c[k] + m
      BY <3>6
    <3> QED
      BY <3>2, <3>5, <3>8, <3>9 DEF m
  <2>3. CASE j > 1 + q
    <3>1. j = q + 2 /\ t = 1 /\ j - 1 = q + 1
      BY <1>3, <1>5, <1>7, <2>3
    <3>2. c[q + 1] = l + 2
      <4>1. q = 0 \/ q \in 1..q
        BY <1>3
      <4> QED
        BY <1>1, <1>3, <1>9, <4>1
    <3>3. ss[j] = tl /\ Len(tl) = 2 /\ c[j] = l + 4
      BY <1>4, <1>7, <1>9, <3>1
    <3>4. tl[1] = ScriptKey(n, l, l + 2 + 1) /\ tl[2] = ScriptKey(n, l, l + 2 + 2)
      BY <1>1, <1>4 DEF ScriptKey
    <3> QED
      BY <1>1, <3>1, <3>2, <3>3, <3>4
  <2> QED
    BY <1>3, <2>1, <2>2, <2>3
<1>11. ss # <<>>
  BY <1>3, <1>5, <1>7
<1> QED
  BY <1>7, <1>8, <1>9, <1>10, <1>11

(* A line that is run.                                                     *)
LEMMA RunsFit ==
  ASSUME KeyTypes, DdFits, ddLeft = 0, Runs(shellLine)
  PROVE  /\ ddLeft' \in Nat /\ ddFile' \in Paths /\ ttyFiles' \in [Paths -> Seq(FitKeys)]
         /\ DdFits'
<1>0. ddFile \in Paths /\ ttyFiles \in [Paths -> Seq(FitKeys)] /\ shellLine \in Seq(FitKeys)
  BY DEF KeyTypes
<1> DEFINE key == shellLine[1]
<1>1. CASE shellLine # <<>> /\ Len(shellLine) = 1 /\ key.what = "dd"
  <2>1. /\ ddLeft' = key.at /\ ddFile' = PathOf(key.of) /\ decoded' = decoded
        /\ ttyFiles' = [ttyFiles EXCEPT ![PathOf(key.of)] = <<>>]
    BY <1>1 DEF Runs
  <2>2. key \in FitKeys
    BY <1>0, <1>1
  <2>3. key.at \in FileLengths /\ FileLengths \subseteq Nat
    BY <1>1, <2>2, FileLengthsFit DEF FitKeys
  <2>4. PathOf(key.of) \in Paths
    BY PathsOf
  <2> HIDE DEF key
  <2>5. ttyFiles' \in [Paths -> Seq(FitKeys)] /\ ttyFiles'[ddFile'] = <<>>
        /\ \A p \in Paths : p # ddFile' => ttyFiles'[p] = ttyFiles[p]
    BY <1>0, <2>1, <2>4
  <2>6. Len(<<>>) + ddLeft' = ddLeft' /\ ddLeft' \in FileLengths
    <3>1. ddLeft' \in FileLengths /\ ddLeft' \in Nat
      BY <2>1, <2>3
    <3>2. Len(<<>>) = 0
      OBVIOUS
    <3>3. \A n \in Nat : 0 + n = n
      OBVIOUS
    <3> QED
      BY <3>1, <3>2, <3>3, Zenon
  <2>7. DdFits'
    BY <2>1, <2>4, <2>5, <2>6 DEF DdFits, NotWhileWriting
  <2> QED
    BY <2>1, <2>3, <2>4, <2>5, <2>7
<1>2. CASE shellLine # <<>> /\ Len(shellLine) = 1 /\ key.what = "uudecode"
  <2>1. /\ decoded' = decoded \union {[of |-> key.of, file |-> ttyFiles["tmp"]]}
        /\ UNCHANGED <<ddLeft, ddFile, ttyFiles>>
    BY <1>2 DEF Runs
  <2>2. "tmp" \in Paths
    BY DEF Paths
  <2>3. NotWhileWriting'
    BY <2>1, <2>2 DEF DdFits, NotWhileWriting
  <2> QED
    BY <1>0, <2>1, <2>3 DEF DdFits, KeyTypes
<1>3. CASE UNCHANGED <<ddLeft, ddFile, ttyFiles, decoded>>
  BY <1>0, <1>3 DEF DdFits, NotWhileWriting, KeyTypes
<1> QED
  BY <1>1, <1>2, <1>3 DEF Runs

KeyInv == KeyTypes /\ DdFits

(* A key that is read.                                                     *)
LEMMA ReadsFit ==
  ASSUME KeyInv, GuestReads
  PROVE  KeyInv'
<1> DEFINE key == Head(fifo)
<1>1. /\ fifo \in Seq(FitKeys) /\ fifo # <<>> /\ fifo' = Tail(fifo)
      /\ UNCHANGED <<hookPc, toInject, pushed, keyLost>>
  BY DEF GuestReads, KeyInv, KeyTypes
<1>2. key \in FitKeys /\ fifo' \in Seq(FitKeys)
  BY <1>1
<1>3. /\ ddLeft \in Nat /\ ddFile \in Paths /\ ttyFiles \in [Paths -> Seq(FitKeys)]
      /\ shellLine \in Seq(FitKeys)
  BY DEF KeyInv, KeyTypes
<1>4. \/ /\ ddLeft > 0 /\ ddLeft' = ddLeft - 1
         /\ ttyFiles' = [ttyFiles EXCEPT ![ddFile] = Append(@, key)]
         /\ UNCHANGED <<shellLine, ddFile, decoded>>
      \/ ddLeft = 0 /\ Runs(shellLine) /\ shellLine' = <<>>
      \/ /\ ddLeft = 0
            /\ shellLine' = IF key.what = "data" THEN <<>> ELSE Append(shellLine, key)
         /\ UNCHANGED <<ddLeft, ddFile, ttyFiles, decoded>>
  BY DEF GuestReads
<1> HIDE DEF key
<1>5. CASE /\ ddLeft > 0 /\ ddLeft' = ddLeft - 1
           /\ ttyFiles' = [ttyFiles EXCEPT ![ddFile] = Append(@, key)]
           /\ UNCHANGED <<shellLine, ddFile, decoded>>
  <2>1. ttyFiles[ddFile] \in Seq(FitKeys)
    BY <1>3
  <2>2. /\ Append(ttyFiles[ddFile], key) \in Seq(FitKeys)
        /\ Len(Append(ttyFiles[ddFile], key)) = Len(ttyFiles[ddFile]) + 1
        /\ Len(ttyFiles[ddFile]) \in Nat
    BY <1>2, <2>1, AppendProperties
  <2>3. /\ ttyFiles' \in [Paths -> Seq(FitKeys)]
        /\ Len(ttyFiles'[ddFile]) = Len(ttyFiles[ddFile]) + 1
        /\ \A p \in Paths : p # ddFile => ttyFiles'[p] = ttyFiles[p]
    BY <1>3, <1>5, <2>2
  <2>4. Len(ttyFiles[ddFile]) + ddLeft \in FileLengths
    BY <1>5 DEF KeyInv, DdFits
  <2>5. ddLeft' \in Nat /\ Len(ttyFiles'[ddFile']) + ddLeft' \in FileLengths
    BY <1>3, <1>5, <2>2, <2>3, <2>4
  <2>6. DdFits'
    <3>1. ddLeft' = 0 => Len(ttyFiles'[ddFile']) \in FileLengths
      BY <1>5, <2>2, <2>3, <2>5
    <3>2. NotWhileWriting'
      BY <1>5 DEF KeyInv, DdFits, NotWhileWriting
    <3>3. \A p \in Paths : p # ddFile => ttyFiles[p] = <<>> \/ Len(ttyFiles[p]) \in FileLengths
      BY DEF KeyInv, DdFits
    <3>4. \A p \in Paths : ~(ddLeft' > 0 /\ p = ddFile')
            => ttyFiles'[p] = <<>> \/ Len(ttyFiles'[p]) \in FileLengths
      BY <1>5, <2>3, <2>5, <3>1, <3>3
    <3> QED
      BY <2>5, <3>2, <3>4 DEF DdFits
  <2> QED
    BY <1>1, <1>2, <1>3, <1>5, <2>3, <2>5, <2>6 DEF KeyInv, KeyTypes
<1>6. CASE ddLeft = 0 /\ Runs(shellLine) /\ shellLine' = <<>>
  <2>1. /\ ddLeft' \in Nat /\ ddFile' \in Paths /\ ttyFiles' \in [Paths -> Seq(FitKeys)]
           /\ DdFits'
    BY <1>6, RunsFit DEF KeyInv
  <2> QED
    BY <1>1, <1>2, <1>6, <2>1 DEF KeyInv, KeyTypes
<1>7. CASE /\ ddLeft = 0
              /\ shellLine' = IF key.what = "data" THEN <<>> ELSE Append(shellLine, key)
           /\ UNCHANGED <<ddLeft, ddFile, ttyFiles, decoded>>
  <2>1. shellLine' \in Seq(FitKeys)
    BY <1>2, <1>3, <1>7
  <2>2. DdFits'
    BY <1>7 DEF KeyInv, DdFits, NotWhileWriting
  <2> QED
    BY <1>1, <1>2, <1>7, <2>1, <2>2 DEF KeyInv, KeyTypes
<1> QED
  BY <1>4, <1>5, <1>6, <1>7

(* Whatever is lost on the way.                                            *)
LEMMA KeysKeep ==
  ASSUME KeyInv, [HookNext]_hookVars
  PROVE  KeyInv'
<1>1. ASSUME UNCHANGED <<guestTty, pushed, keyLost>>, fifo' \in Seq(FitKeys),
             toInject' \in Seq(Seq(FitKeys)), hookPc' = "inject" <=> toInject' # <<>>
      PROVE  KeyInv'
  BY <1>1 DEF KeyInv, KeyTypes, DdFits, NotWhileWriting, guestTty
<1>2. fifo \in Seq(FitKeys) /\ toInject \in Seq(Seq(FitKeys))
      /\ (hookPc = "inject" <=> toInject # <<>>)
      /\ keyLost \in BOOLEAN
  BY DEF KeyInv, KeyTypes
<1>3. ASSUME NEW kind \in {"text", "file"}, NEW l \in FileLengths, Push(kind, l)
      PROVE  KeyInv'
  <2>1. /\ toInject' = Typescript(kind, Len(pushed'), l) /\ hookPc' = "inject"
        /\ pushed' = Append(pushed, [kind |-> kind, length |-> l])
        /\ UNCHANGED <<fifo, guestTty, keyLost>>
    BY <1>3 DEF Push, Typescript, DdCount
  <2>2. pushed' \in Seq([kind : {"text", "file"}, length : FileLengths]) /\ Len(pushed') \in Nat
    BY <2>1 DEF KeyInv, KeyTypes
  <2>3. toInject' \in Seq(Seq(FitKeys)) /\ toInject' # <<>>
    BY <2>1, <2>2, ScriptLaid
  <2> QED
    BY <1>2, <2>1, <2>2, <2>3 DEF KeyInv, KeyTypes, DdFits, NotWhileWriting, guestTty
<1>4. CASE hookPc = "inject"
  <2>1. Head(toInject) \in Seq(FitKeys) /\ Tail(toInject) \in Seq(Seq(FitKeys))
    BY <1>2, <1>4, HeadTailProperties
  <2>2. ASSUME Inject
        PROVE  KeyInv'
    <3>1. /\ toInject' = Tail(toInject)
             /\ hookPc' = IF Tail(toInject) = <<>> THEN "idle" ELSE "inject"
          /\ fifo' \in {fifo, Accepted(Head(toInject))} /\ UNCHANGED <<guestTty, pushed>>
      BY <2>2 DEF Inject
    <3>2. keyLost' \in BOOLEAN
      BY <1>2, <2>2 DEF Inject
    <3>3. fifo' \in Seq(FitKeys)
      BY <1>2, <2>1, <3>1, AcceptedFit
    <3> HIDE DEF Inject
    <3> QED
      BY <2>1, <3>1, <3>2, <3>3 DEF KeyInv, KeyTypes, DdFits, NotWhileWriting, guestTty
  <2>3. ASSUME GdbTimeout
        PROVE  KeyInv'
    <3>1. /\ toInject' = <<>> /\ hookPc' = "idle" /\ UNCHANGED <<guestTty, pushed>>
             /\ keyLost' = TRUE
          /\ \E n \in 0..Len(Head(toInject)) : fifo' = Accepted(SubSeq(Head(toInject), 1, n))
      BY <1>4, <2>3 DEF GdbTimeout
    <3>2. PICK n \in 0..Len(Head(toInject)) : fifo' = Accepted(SubSeq(Head(toInject), 1, n))
      BY <3>1
    <3>3. SubSeq(Head(toInject), 1, n) \in Seq(FitKeys)
      <4>1. \A i \in 1..n : Head(toInject)[i] \in FitKeys
        BY <2>1
      <4>2. 1 \in Int /\ n \in Int
        BY <2>1
      <4> QED
        BY <4>1, <4>2, SubSeqProperties
    <3>4. fifo' \in Seq(FitKeys)
      BY <1>2, <3>2, <3>3, AcceptedFit
    <3>5. <<>> \in Seq(Seq(FitKeys))
      OBVIOUS
    <3> QED
      BY <3>1, <3>4, <3>5 DEF KeyInv, KeyTypes, DdFits, NotWhileWriting, guestTty
  <2>4. CASE HookEmits \/ HookClears \/ UNCHANGED hookVars
    BY <1>1, <1>2, <2>4 DEF HookEmits, HookClears, hookVars, typeVars
  <2> QED
    BY <1>3, <1>4, <2>2, <2>3, <2>4, ReadsFit DEF HookNext, HookPuts, Putc, Look
<1>5. CASE hookPc # "inject"
  <2>0. toInject = <<>>
    BY <1>2, <1>5
  <2>1. ASSUME GdbTimeout
        PROVE  KeyInv'
    <3>1. /\ toInject' = <<>> /\ hookPc' = "idle"
             /\ UNCHANGED <<guestTty, pushed, fifo, keyLost>>
      BY <1>5, <2>1 DEF GdbTimeout
    <3> QED
      BY <1>1, <1>2, <2>0, <3>1
  <2>2. CASE HookPuts \/ Putc \/ Look \/ HookEmits \/ HookClears \/ UNCHANGED hookVars
    <3>1. UNCHANGED typeVars /\ hookPc' # "inject"
      BY <1>5, <2>2 DEF HookPuts, Putc, Look, NextByte, HookEmits, HookClears, hookVars
    <3> QED
      BY <1>1, <1>2, <2>0, <3>1 DEF typeVars
  <2> QED
    BY <1>3, <1>5, <2>1, <2>2, ReadsFit DEF HookNext, Inject
<1> QED
  BY <1>4, <1>5

-----------------------------------------------------------------------------
(* HookConsole: as long as no key is lost the keys of the files, one file  *)
(* after the other, are what the guest has read, what is in the FIFO and   *)
(* what is still to be injected.  T is all those keys and B says where     *)
(* each file's begin; the guest comes next to the (p + 1)-th of the n-th   *)
(* file's; c says how far the sequences to inject reach.                   *)
Part(n, k) == [i \in 1..k |-> Key("data", n, i)]
Long(n) == pushed[n].length
Size(n) == ScriptLength(pushed[n].kind, pushed[n].length)

Streamed(T, B) ==
  /\ B \in [1..(Len(pushed) + 1) -> Nat]
  /\ \A n \in 1..Len(pushed) :
       /\ B[n + 1] = B[n] + Size(n)
       /\ \A p \in 1..Size(n) : T[B[n] + p] = ScriptKey(n, Long(n), p)
  /\ \A n \in 1..(Len(pushed) + 1) : B[n] <= B[Len(pushed) + 1]

Fed(T, x) == \A i \in 1..Len(fifo) : fifo[i] = T[x + i]

ToFeed(T, end, c, y) ==
  /\ c \in [0..Len(toInject) -> Nat] /\ c[0] = y /\ c[Len(toInject)] = end
  /\ \A j \in 0..Len(toInject) : c[j] <= end
  /\ \A j \in 1..Len(toInject) :
       /\ c[j] = c[j - 1] + Len(toInject[j])
       /\ \A i \in 1..Len(toInject[j]) : toInject[j][i] = T[c[j - 1] + i]

Place(n, p) ==
  /\ n \in 1..(Len(pushed) + 1) /\ p \in Nat
  /\ IF n <= Len(pushed) THEN p < Size(n) ELSE p = 0

GuestAt(n, p) ==
  /\ p = 0 => shellLine = <<>> /\ ddLeft = 0
  /\ p = 1 => shellLine = <<Key("dd", n, Long(n))>> /\ ddLeft = 0
  /\ p >= 2 /\ p <= Long(n) + 2 => shellLine = <<>> /\ ddLeft = Long(n) + 2 - p
     /\ ddFile = PathOf(n)
  /\ p >= 2 /\ p = Long(n) + 3 => shellLine = <<Key("uudecode", n, 0)>> /\ ddLeft = 0

(* The files that dd has begun, the last on each path as far as it is      *)
(* written.                                                                *)
Begun(n, p, m) == m < n \/ (m = n /\ p >= 2)
Got(n, p, m) == IF m < n \/ p - 2 > Long(m) THEN Long(m) ELSE p - 2
Newest(n, p, m) ==
  Begun(n, p, m) /\ \A k \in 1..Len(pushed) : k > m /\ Begun(n, p, k) => PathOf(k) # PathOf(m)

FilesAt(n, p) ==
  \A m \in 1..Len(pushed) : Newest(n, p, m) => ttyFiles[PathOf(m)] = Part(m, Got(n, p, m))

DecodedWhole == \A d \in decoded : d.of \in 1..Len(pushed) /\ d.file = Content(d.of)

Stands(T, B, c, n, p) ==
  /\ Streamed(T, B) /\ Place(n, p)
  /\ Fed(T, B[n] + p) /\ ToFeed(T, B[Len(pushed) + 1], c, B[n] + p + Len(fifo))
  /\ GuestAt(n, p) /\ FilesAt(n, p)

PushedInv ==
  /\ KeyInv
  /\ ~keyLost => DecodedWhole /\ \E T, B, c, n, p : Stands(T, B, c, n, p)

(* What the lengths in pushed make of a file's keys.                       *)
LEMMA SizeIs ==
  ASSUME KeyTypes, NEW n \in 1..Len(pushed)
  PROVE  /\ Long(n) \in FileLengths /\ Long(n) \in Nat /\ Long(n) > 0
         /\ Size(n) = Long(n) + 2 + IF pushed[n].kind = "file" THEN 2 ELSE 0
         /\ Size(n) \in Nat
         /\ PathOf(n) = IF pushed[n].kind = "file" THEN "tmp" ELSE "text"
<1>1. pushed[n] \in [kind : {"text", "file"}, length : FileLengths]
  <2>1. pushed \in Seq([kind : {"text", "file"}, length : FileLengths])
    BY DEF KeyTypes
  <2> QED
    BY <2>1, ElementOfSeq
<1>2. Long(n) \in FileLengths
  BY <1>1 DEF Long
<1>3. Long(n) \in Nat /\ Long(n) > 0
  BY <1>2, FileLengthsFit
<1>4. Size(n) = Long(n) + 2 + IF pushed[n].kind = "file" THEN 2 ELSE 0
  BY DEF Size, ScriptLength, Long
<1> QED
  BY <1>2, <1>3, <1>4 DEF PathOf

(* The next key.                                                           *)
LEMMA GuestStep ==
  ASSUME KeyInv, DecodedWhole, NEW n \in 1..Len(pushed), NEW p \in Nat, p < Size(n),
         GuestAt(n, p), FilesAt(n, p), GuestReads, Head(fifo) = ScriptKey(n, Long(n), p + 1),
         NEW n2, NEW p2,
         IF p + 1 < Size(n) THEN n2 = n /\ p2 = p + 1 ELSE n2 = n + 1 /\ p2 = 0
  PROVE  GuestAt(n2, p2)' /\ FilesAt(n2, p2)' /\ DecodedWhole'
<1> DEFINE key == Head(fifo)
           l == Long(n)
           file == PathOf(n)
<1>1. /\ l \in Nat /\ l > 0 /\ Size(n) = l + 2 + (IF pushed[n].kind = "file" THEN 2 ELSE 0)
      /\ file = (IF pushed[n].kind = "file" THEN "tmp" ELSE "text")
  BY SizeIs DEF KeyInv
<1>2. /\ ttyFiles \in [Paths -> Seq(FitKeys)] /\ file \in Paths
      /\ UNCHANGED pushed
  BY PathsOf DEF KeyInv, KeyTypes, GuestReads
<1>3. \/ /\ ddLeft > 0 /\ ddLeft' = ddLeft - 1
         /\ ttyFiles' = [ttyFiles EXCEPT ![ddFile] = Append(@, key)]
         /\ UNCHANGED <<shellLine, ddFile, decoded>>
      \/ ddLeft = 0 /\ key = Enter /\ Runs(shellLine) /\ shellLine' = <<>>
      \/ /\ ddLeft = 0 /\ key # Enter
         /\ shellLine' = IF key.what = "data" THEN <<>> ELSE Append(shellLine, key)
         /\ UNCHANGED <<ddLeft, ddFile, ttyFiles, decoded>>
  BY DEF GuestReads
<1>4. key = ScriptKey(n, l, p + 1) /\ n \in Nat
  OBVIOUS
<1>5. \A m : Long(m)' = Long(m) /\ PathOf(m)' = PathOf(m) /\ Content(m)' = Content(m)
  BY <1>2 DEF Long, PathOf, Content
<1>6. \A m \in 1..Len(pushed) : Newest(n, p, m) => ttyFiles[PathOf(m)] = Part(m, Got(n, p, m))
  BY DEF FilesAt
<1> HIDE DEF key, l, file
<1>7. ASSUME UNCHANGED decoded
      PROVE  DecodedWhole'
  BY <1>2, <1>5, <1>7 DEF DecodedWhole
<1>8. ASSUME UNCHANGED ttyFiles,
             \A m \in 1..Len(pushed) : (Begun(n2, p2, m) <=> Begun(n, p, m))
                                       /\ (Begun(n, p, m) => Got(n2, p2, m) = Got(n, p, m))
      PROVE  FilesAt(n2, p2)'
  <2> SUFFICES ASSUME NEW m \in 1..Len(pushed), Newest(n2, p2, m)'
               PROVE  ttyFiles[PathOf(m)] = Part(m, Got(n2, p2, m)')
    BY <1>2, <1>5, <1>8 DEF FilesAt, Part
  <2>1. Newest(n, p, m)
    BY <1>2, <1>5, <1>8 DEF Newest, Begun
  <2>2. Got(n2, p2, m)' = Got(n, p, m)
    BY <1>5, <1>8, <2>1 DEF Newest, Got
  <2> QED
    BY <1>6, <2>1, <2>2
<1>9. CASE p = 0
  <2>1. shellLine = <<>> /\ ddLeft = 0 /\ key = Key("dd", n, l) /\ n2 = n /\ p2 = 1
    BY <1>1, <1>4, <1>9 DEF GuestAt, ScriptKey
  <2>2. key # Enter /\ key.what # "data"
    BY <2>1 DEF Key, Enter
  <2>3. shellLine' = <<Key("dd", n, l)>> /\ UNCHANGED <<ddLeft, ddFile, ttyFiles, decoded>>
    BY <1>3, <2>1, <2>2
  <2>4. GuestAt(n2, p2)'
    BY <1>5, <2>1, <2>3 DEF GuestAt, l
  <2>5. \A m \in 1..Len(pushed) : (Begun(n2, p2, m) <=> Begun(n, p, m))
                                  /\ (Begun(n, p, m) => Got(n2, p2, m) = Got(n, p, m))
    BY <1>9, <2>1 DEF Begun, Got
  <2> QED
    BY <1>7, <1>8, <2>3, <2>4, <2>5
<1>10. CASE p = 1
  <2>1. shellLine = <<Key("dd", n, l)>> /\ ddLeft = 0 /\ key = Enter /\ n2 = n /\ p2 = 2
    BY <1>1, <1>4, <1>10 DEF GuestAt, ScriptKey, l
  <2>2. Runs(shellLine) /\ shellLine' = <<>>
    BY <1>3, <2>1
  <2>3. /\ shellLine # <<>> /\ Len(shellLine) = 1 /\ shellLine[1].what = "dd"
        /\ shellLine[1].at = l /\ shellLine[1].of = n
    BY <2>1 DEF Key
  <2>4. /\ ddLeft' = l /\ ddFile' = file /\ ttyFiles' = [ttyFiles EXCEPT ![file] = <<>>]
        /\ UNCHANGED decoded
    BY <2>2, <2>3 DEF Runs, file
  <2>5. GuestAt(n2, p2)'
    <3>1. Long(n)' = l /\ PathOf(n)' = file
      BY <1>5 DEF l, file
    <3> QED
      BY <1>1, <2>1, <2>2, <2>4, <3>1 DEF GuestAt
  <2>6. FilesAt(n2, p2)'
    <3> SUFFICES ASSUME NEW m \in 1..Len(pushed), Newest(n2, p2, m)'
                 PROVE  ttyFiles'[PathOf(m)] = Part(m, Got(n2, p2, m)')
      BY <1>2, <1>5 DEF FilesAt, Part
    <3>1. CASE m = n
      <4>1. Got(n2, p2, m)' = 0
        BY <1>1, <1>5, <2>1, <3>1 DEF Got, l
      <4>2. Part(m, 0) = <<>>
        BY DEF Part
      <4>3. ttyFiles'[file] = <<>>
        BY <1>2, <2>4
      <4> QED
        BY <3>1, <4>1, <4>2, <4>3 DEF file
    <3>2. CASE m # n
      <4>1. m < n
        BY <2>1, <3>2 DEF Newest, Begun
      <4>2. PathOf(m) # file
        <5>1. n \in 1..Len(pushed') /\ n > m /\ Begun(n2, p2, n)'
          BY <1>2, <2>1, <4>1 DEF Begun
        <5>2. PathOf(n)' # PathOf(m)'
          BY <5>1 DEF Newest
        <5> QED
          BY <1>5, <5>2 DEF file
      <4>3. ttyFiles'[PathOf(m)] = ttyFiles[PathOf(m)]
        BY <1>2, <2>4, <4>2, PathsOf
      <4>4. Newest(n, p, m)
        BY <1>2, <1>5, <1>10, <2>1, <4>1 DEF Newest, Begun
      <4>5. Got(n2, p2, m)' = Got(n, p, m)
        BY <1>5, <2>1, <4>1 DEF Got
      <4> QED
        BY <1>6, <4>3, <4>4, <4>5
    <3> QED
      BY <3>1, <3>2
  <2> QED
    BY <1>7, <2>4, <2>5, <2>6
<1>11. CASE p >= 2 /\ p < l + 2
  <2>1. /\ shellLine = <<>> /\ ddLeft = l + 2 - p /\ ddLeft > 0 /\ ddFile = file
        /\ key = Key("data", n, p - 1)
    BY <1>1, <1>4, <1>11 DEF GuestAt, ScriptKey, l, file
  <2>2. /\ ddLeft' = l + 2 - (p + 1)
        /\ ttyFiles' = [ttyFiles EXCEPT ![file] = Append(@, key)]
        /\ UNCHANGED <<shellLine, ddFile, decoded>>
    BY <1>1, <1>3, <2>1
  <2>3. \/ n2 = n /\ p2 = p + 1
        \/ n2 = n + 1 /\ p2 = 0 /\ p + 1 = l + 2
    BY <1>1, <1>11
  <2>4. GuestAt(n2, p2)'
    <3>1. Long(n)' = l /\ PathOf(n)' = file
      BY <1>5 DEF l, file
    <3>2. CASE n2 = n /\ p2 = p + 1
      BY <1>1, <1>11, <2>1, <2>2, <3>1, <3>2 DEF GuestAt
    <3>3. CASE n2 = n + 1 /\ p2 = 0 /\ p + 1 = l + 2
      BY <1>1, <1>11, <2>1, <2>2, <3>3 DEF GuestAt
    <3> QED
      BY <2>3, <3>2, <3>3
  <2>5. FilesAt(n2, p2)'
    <3>1. \A m \in 1..Len(pushed) : Begun(n2, p2, m) <=> m <= n
      BY <1>11, <2>3 DEF Begun
    <3>2. \A m \in 1..Len(pushed) : Begun(n, p, m) <=> m <= n
      BY <1>11 DEF Begun
    <3> SUFFICES ASSUME NEW m \in 1..Len(pushed), Newest(n2, p2, m)'
                 PROVE  ttyFiles'[PathOf(m)] = Part(m, Got(n2, p2, m)')
      BY <1>2, <1>5 DEF FilesAt, Part
    <3>3. Newest(n, p, m) /\ m <= n
      BY <1>2, <1>5, <3>1, <3>2 DEF Newest, Begun
    <3>4. CASE m = n
      <4>1. Got(n, p, m) = p - 2 /\ Got(n2, p2, m)' = p - 1
        BY <1>1, <1>5, <1>11, <2>3, <3>4 DEF Got, l
      <4>2. ttyFiles[file] = Part(n, p - 2)
        BY <1>6, <3>3, <3>4, <4>1 DEF file
      <4>3. ttyFiles'[file] = Append(Part(n, p - 2), key)
        BY <1>2, <2>2, <4>2
      <4>4. Append(Part(n, p - 2), key) = Part(n, p - 1)
        <5> DEFINE k == p - 2
        <5>1. k \in Nat /\ p - 1 = k + 1 /\ key = Key("data", n, k + 1)
          BY <1>11, <2>1
        <5> HIDE DEF k
        <5>2. \A j \in Nat : Key("data", n, j) \in FitKeys
          BY <1>4, KeysFit
        <5>3. /\ Part(n, k) \in Seq(FitKeys) /\ Len(Part(n, k)) = k
              /\ \A i \in 1..k : Part(n, k)[i] = Key("data", n, i)
          BY <5>1, <5>2 DEF Part
        <5>4. /\ Part(n, k + 1) \in Seq(FitKeys) /\ Len(Part(n, k + 1)) = k + 1
              /\ \A i \in 1..(k + 1) : Part(n, k + 1)[i] = Key("data", n, i)
          BY <5>1, <5>2 DEF Part
        <5> DEFINE a == Append(Part(n, k), Key("data", n, k + 1))
        <5>5. /\ a \in Seq(FitKeys) /\ Len(a) = k + 1 /\ a[k + 1] = Key("data", n, k + 1)
              /\ \A i \in 1..k : a[i] = Key("data", n, i)
          BY <5>1, <5>2, <5>3, AppendProperties
        <5> HIDE DEF a
        <5>6. \A i \in 1..(k + 1) : a[i] = Part(n, k + 1)[i]
          BY <5>1, <5>4, <5>5
        <5>7. a = Part(n, k + 1)
          BY <5>4, <5>5, <5>6, SeqEqual
        <5> QED
          BY <5>1, <5>7 DEF a, k
      <4> QED
        BY <3>4, <4>1, <4>3, <4>4 DEF file
    <3>5. CASE m < n
      <4>1. PathOf(m) # file
        BY <3>2, <3>3, <3>5 DEF Newest, file
      <4>2. ttyFiles'[PathOf(m)] = ttyFiles[PathOf(m)]
        BY <1>2, <2>2, <4>1, PathsOf
      <4>3. Got(n2, p2, m)' = Got(n, p, m)
        BY <1>5, <2>3, <3>5 DEF Got
      <4> QED
        BY <1>6, <3>3, <4>2, <4>3
    <3> QED
      BY <3>3, <3>4, <3>5
  <2> QED
    BY <1>7, <2>2, <2>4, <2>5
<1>12. CASE p >= l + 2
  <2>1. pushed[n].kind = "file" /\ p \in {l + 2, l + 3} /\ Size(n) = l + 4 /\ file = "tmp"
    BY <1>1, <1>12
  <2>2. \A m \in 1..Len(pushed) : (Begun(n2, p2, m) <=> Begun(n, p, m))
                                  /\ (Begun(n, p, m) => Got(n2, p2, m) = Got(n, p, m))
    <3> SUFFICES ASSUME NEW m \in 1..Len(pushed)
                 PROVE  (Begun(n2, p2, m) <=> Begun(n, p, m))
                        /\ (Begun(n, p, m) => Got(n2, p2, m) = Got(n, p, m))
      OBVIOUS
    <3>1. Begun(n, p, m) <=> m <= n
      BY <1>1, <2>1 DEF Begun
    <3>2. Begun(n2, p2, m) <=> m <= n
      BY <1>1, <2>1 DEF Begun
    <3>3. m = n => Got(n, p, m) = l /\ Got(n2, p2, m) = l
      BY <1>1, <2>1 DEF Got, l
    <3>4. m < n => Got(n, p, m) = Long(m) /\ Got(n2, p2, m) = Long(m)
      BY <1>1, <2>1 DEF Got
    <3> QED
      BY <3>1, <3>2, <3>3, <3>4
  <2>3. CASE p = l + 2
    <3>1. shellLine = <<>> /\ ddLeft = 0 /\ key = Key("uudecode", n, 0) /\ n2 = n /\ p2 = l + 3
      BY <1>1, <1>4, <2>1, <2>3 DEF GuestAt, ScriptKey, l
    <3>2. key # Enter /\ key.what # "data"
      BY <3>1 DEF Key, Enter
    <3>3. shellLine' = <<Key("uudecode", n, 0)>>
          /\ UNCHANGED <<ddLeft, ddFile, ttyFiles, decoded>>
      BY <1>3, <3>1, <3>2
    <3>4. GuestAt(n2, p2)'
      <4>1. Long(n)' = l
        BY <1>5 DEF l
      <4> QED
        BY <1>1, <3>1, <3>3, <4>1 DEF GuestAt
    <3> QED
      BY <1>7, <1>8, <2>2, <3>3, <3>4
  <2>4. CASE p = l + 3
    <3>1. shellLine = <<Key("uudecode", n, 0)>> /\ ddLeft = 0 /\ key = Enter /\ n2 = n + 1
          /\ p2 = 0
      BY <1>1, <1>4, <2>1, <2>4 DEF GuestAt, ScriptKey, l
    <3>2. Runs(shellLine) /\ shellLine' = <<>>
      BY <1>3, <3>1
    <3>3. shellLine # <<>> /\ Len(shellLine) = 1 /\ shellLine[1].what = "uudecode"
          /\ shellLine[1].of = n
      BY <3>1 DEF Key
    <3>4. /\ decoded' = decoded \union {[of |-> n, file |-> ttyFiles["tmp"]]}
          /\ UNCHANGED <<ddLeft, ddFile, ttyFiles>>
      BY <3>2, <3>3 DEF Runs
    <3>5. ttyFiles["tmp"] = Content(n)
      <4>1. Newest(n, p, n)
        BY <1>1, <2>1 DEF Newest, Begun
      <4>2. Got(n, p, n) = l
        BY <1>1, <2>4 DEF Got, l
      <4> QED
        BY <1>6, <2>1, <4>1, <4>2 DEF Part, Content, l, Long, file
    <3>6. DecodedWhole'
      BY <1>2, <1>5, <3>4, <3>5 DEF DecodedWhole
    <3>7. GuestAt(n2, p2)'
      BY <3>1, <3>2, <3>4 DEF GuestAt
    <3>8. FilesAt(n2, p2)'
      BY <1>8, <2>2, <3>4
    <3> QED
      BY <3>6, <3>7, <3>8
  <2> QED
    BY <2>1, <2>3, <2>4
<1> QED
  BY <1>1, <1>9, <1>10, <1>11, <1>12

(* The guest goes one key on in the stream.                                *)
LEMMA ReadsStand ==
  ASSUME KeyInv, DecodedWhole, NEW T, NEW B, NEW c, NEW n, NEW p, Stands(T, B, c, n,
     p), GuestReads
  PROVE  DecodedWhole' /\ \E n2, p2 : Stands(T, B, c, n2, p2)'
<1> DEFINE count == Len(pushed)
           end == B[count + 1]
           m == Len(fifo)
<1>1. /\ fifo \in Seq(FitKeys) /\ fifo # <<>> /\ fifo' = Tail(fifo)
         /\ UNCHANGED <<toInject, pushed>>
      /\ count \in Nat /\ toInject \in Seq(Seq(FitKeys))
  BY DEF GuestReads, KeyInv, KeyTypes
<1>2. /\ m \in Nat /\ m > 0 /\ Head(fifo) = fifo[1] /\ Len(fifo') = m - 1
      /\ \A i \in 1..(m - 1) : fifo'[i] = fifo[i + 1]
  BY <1>1, HeadTailProperties
<1>3. /\ Streamed(T, B) /\ Place(n, p) /\ Fed(T, B[n] + p) /\ GuestAt(n, p) /\ FilesAt(n, p)
      /\ ToFeed(T, end, c, B[n] + p + m)
  BY DEF Stands
<1> HIDE DEF count, end, m
<1>4. n \in 1..(count + 1) /\ p \in Nat /\ B[n] \in Nat /\ end \in Nat
  <2>1. n \in 1..(count + 1) /\ p \in Nat
    BY <1>3 DEF Place, count
  <2>2. B \in [1..(count + 1) -> Nat]
    BY <1>3 DEF Streamed, count
  <2> QED
    BY <1>1, <2>1, <2>2 DEF end
<1>5. B[n] + p + m <= end
  <2>1. Len(toInject) \in Nat /\ c[0] = B[n] + p + m /\ \A j \in 0..Len(toInject) : c[j] <= end
    BY <1>1, <1>3 DEF ToFeed
  <2> QED
    BY <2>1
<1>6. n \in 1..count /\ p < Size(n)
  <2>1. CASE n = count + 1
    <3>1. B[n] = end
      BY <2>1 DEF end
    <3> QED
      BY <1>2, <1>4, <1>5, <3>1
  <2>2. n <= count /\ n \in 1..count
    <3>1. count \in Nat
      BY <1>1
    <3> QED
      BY <1>4, <2>1, <3>1
  <2>3. p < Size(n)
    BY <1>3, <2>2 DEF Place, count
  <2> QED
    BY <2>2, <2>3
<1>7. Size(n) \in Nat /\ Size(n) > 0
  BY <1>6, SizeIs, SMTT(30) DEF KeyInv, count
<1>8. B[n + 1] = B[n] + Size(n) /\ \A q \in 1..Size(n) : T[B[n] + q] = ScriptKey(n, Long(n), q)
  BY <1>3, <1>6 DEF Streamed, count
<1>9. Head(fifo) = ScriptKey(n, Long(n), p + 1)
  <2>1. fifo[1] = T[B[n] + p + 1]
    <3>1. 1 \in 1..Len(fifo)
      BY <1>2 DEF m
    <3> QED
      BY <1>3, <3>1 DEF Fed
  <2>2. p + 1 \in 1..Size(n) /\ B[n] + p + 1 = B[n] + (p + 1)
    BY <1>4, <1>6, <1>7
  <2> QED
    BY <1>2, <1>8, <2>1, <2>2
<1>10. PICK n2, p2 : IF p + 1 < Size(n) THEN n2 = n /\ p2 = p + 1 ELSE n2 = n + 1 /\ p2 = 0
  <2>1. CASE p + 1 < Size(n)
    BY <2>1
  <2>2. CASE ~(p + 1 < Size(n))
    BY <2>2
  <2> QED
    BY <2>1, <2>2
<1>11. GuestAt(n2, p2)' /\ FilesAt(n2, p2)' /\ DecodedWhole'
  BY <1>3, <1>4, <1>6, <1>9, <1>10, GuestStep DEF count
<1>12. B[n2] + p2 = B[n] + p + 1
  BY <1>4, <1>6, <1>7, <1>8, <1>10
<1>13. Place(n2, p2)
  <2>1. n2 \in 1..(count + 1) /\ p2 \in Nat
    BY <1>1, <1>4, <1>6, <1>10
  <2>2. ASSUME n2 <= count
        PROVE  p2 < Size(n2)
    <3>1. CASE n2 = n /\ p2 = p + 1 /\ p + 1 < Size(n)
      BY <3>1
    <3>2. CASE n2 = n + 1 /\ p2 = 0
      <4>1. Size(n2) > 0
        <5>1. n2 \in 1..count
          BY <2>1, <2>2
        <5> QED
          BY <5>1, SizeIs, SMTT(30) DEF KeyInv, count
      <4> QED
        BY <3>2, <4>1
    <3> QED
      BY <1>10, <3>1, <3>2
  <2>3. ASSUME ~(n2 <= count)
        PROVE  p2 = 0
    BY <1>1, <1>4, <1>6, <1>10, <2>3
  <2> QED
    BY <2>1, <2>2, <2>3 DEF Place, count
<1>14. Place(n2, p2)'
  BY <1>1, <1>13 DEF Place, Size
<1>15. Streamed(T, B)'
  BY <1>1, <1>3 DEF Streamed, Size, Long
<1>16. Fed(T, B[n2] + p2)'
  <2> SUFFICES ASSUME NEW i \in 1..Len(fifo')
               PROVE  fifo'[i] = T[B[n2] + p2 + i]
    BY DEF Fed
  <2>1. i \in 1..(m - 1) /\ i + 1 \in 1..m /\ B[n2] + p2 + i = B[n] + p + (i + 1)
    <3> DEFINE a == B[n2] + p2
               b == B[n] + p
    <3>1. a = b + 1 /\ b \in Nat /\ m \in Nat /\ Len(fifo') = m - 1
      BY <1>2, <1>4, <1>12
    <3> HIDE DEF a, b
    <3>2. i \in 1..(m - 1) /\ i + 1 \in 1..m /\ a + i = b + (i + 1)
      BY <3>1
    <3> QED
      BY <3>2 DEF a, b
  <2>2. fifo[i + 1] = T[B[n] + p + (i + 1)]
    BY <1>3, <2>1 DEF Fed, m
  <2> QED
    BY <1>2, <2>1, <2>2
<1>17. B[n2] + p2 + Len(fifo') = B[n] + p + m
  BY <1>2, <1>4, <1>12
<1>18. ToFeed(T, B[Len(pushed) + 1], c, B[n2] + p2 + Len(fifo))'
  BY <1>1, <1>3, <1>17 DEF ToFeed, end, count
<1>19. Stands(T, B, c, n2, p2)'
  BY <1>11, <1>14, <1>15, <1>16, <1>18 DEF Stands
<1> QED
  BY <1>11, <1>19

(* The first sequence goes from those to come into the FIFO.               *)
LEMMA InjectStands ==
  ASSUME KeyInv, NEW T, NEW B, NEW c, NEW n, NEW p, Stands(T, B, c, n, p), Inject,
     ~keyLost'
  PROVE  \E c2 : Stands(T, B, c2, n, p)'
<1> DEFINE keys == Head(toInject)
           end == B[Len(pushed) + 1]
           m == Len(fifo)
           k == Len(toInject)
           x == B[n] + p
<1>1. /\ fifo \in Seq(FitKeys) /\ toInject \in Seq(Seq(FitKeys)) /\ toInject # <<>>
      /\ toInject' = Tail(toInject) /\ UNCHANGED <<guestTty, pushed>>
      /\ Len(pushed) \in Nat
  BY DEF Inject, KeyInv, KeyTypes
<1>2. /\ keys \in Seq(FitKeys) /\ keys = toInject[1] /\ Len(toInject') = k - 1 /\ k \in Nat
         /\ k > 0
      /\ \A j \in 1..(k - 1) : toInject'[j] = toInject[j + 1]
  BY <1>1, HeadTailProperties
<1>3. fifo' = Accepted(keys) /\ ~(m + Len(keys) > FifoSize)
  <2>1. CASE fifo' = Accepted(keys) /\ keyLost' = (keyLost \/ m + Len(keys) > FifoSize)
    BY <2>1
  <2>2. CASE keyLost' = TRUE
    BY <2>2
  <2> QED
    BY <2>1, <2>2 DEF Inject
<1>4. fifo' = fifo \o keys
  <2>1. m \in Nat /\ Len(keys) \in Nat /\ FifoSize \in Nat
    BY <1>1, <1>2, FileLengthsFit
  <2>2. m + Len(keys) <= FifoSize
    BY <1>3, <2>1
  <2> QED
    BY <1>1, <1>2, <1>3, <2>2, AcceptedFit
<1>5. /\ Len(fifo') = m + Len(keys) /\ m \in Nat /\ Len(keys) \in Nat
      /\ \A i \in 1..m + Len(keys) : fifo'[i] = IF i <= m THEN fifo[i] ELSE keys[i - m]
  <2>1. /\ Len(fifo \o keys) = m + Len(keys)
        /\ \A i \in 1..m + Len(keys) : (fifo \o keys)[i] = IF i <= m THEN fifo[i] ELSE keys[i - m]
    BY <1>1, <1>2, ConcatProperties
  <2> QED
    BY <1>1, <1>2, <1>4, <2>1
<1>6. /\ Streamed(T, B) /\ Place(n, p) /\ Fed(T, x) /\ GuestAt(n, p) /\ FilesAt(n, p)
      /\ ToFeed(T, end, c, x + m)
  BY DEF Stands
<1>7. /\ c \in [0..k -> Nat] /\ c[0] = x + m /\ c[k] = end /\ (\A j \in 0..k : c[j] <= end)
      /\ \A j \in 1..k : /\ c[j] = c[j - 1] + Len(toInject[j])
                         /\ \A i \in 1..Len(toInject[j]) : toInject[j][i] = T[c[j - 1] + i]
  BY <1>6 DEF ToFeed
<1>8. x \in Nat
  <2>1. n \in 1..(Len(pushed) + 1) /\ p \in Nat /\ B \in [1..(Len(pushed) + 1) -> Nat]
    BY <1>6 DEF Place, Streamed
  <2> QED
    BY <2>1
<1> HIDE DEF keys, m, k, x, end
<1>9. Fed(T, x)'
  <2> SUFFICES ASSUME NEW i \in 1..Len(fifo')
               PROVE  fifo'[i] = T[x + i]
    BY DEF Fed, x
  <2>1. CASE i <= m
    <3>1. i \in 1..Len(fifo) /\ fifo'[i] = fifo[i]
      BY <1>5, <2>1 DEF m
    <3> QED
      BY <1>6, <3>1 DEF Fed
  <2>2. CASE i > m
    <3>1. i - m \in 1..Len(keys) /\ x + m + (i - m) = x + i /\ fifo'[i] = keys[i - m]
      BY <1>5, <1>8, <2>2
    <3>2. keys[i - m] = T[x + m + (i - m)]
      <4>1. 1 \in 1..k /\ 1 - 1 = 0
        BY <1>2
      <4>2. \A h \in 1..Len(toInject[1]) : toInject[1][h] = T[c[0] + h]
        BY <1>7, <4>1
      <4> QED
        BY <1>2, <1>7, <3>1, <4>2
    <3> QED
      BY <3>1, <3>2
  <2> QED
    BY <1>5, <2>1, <2>2
<1>c. PICK c2 : c2 = [j \in 0..(k - 1) |-> c[j + 1]]
  OBVIOUS
<1>10. ToFeed(T, end, c2, x + Len(fifo))'
  <2>1. c2 \in [0..(k - 1) -> Nat] /\ \A j \in 0..(k - 1) : c2[j] = c[j + 1] /\ c2[j] <= end
    BY <1>2, <1>7, <1>c
  <2>2. c2[0] = x + Len(fifo')
    <3>1. 0 \in 0..(k - 1) /\ 1 \in 1..k /\ 1 - 1 = 0 /\ 0 + 1 = 1
      BY <1>2
    <3>2. c2[0] = c[1] /\ c[1] = c[0] + Len(keys) /\ c[0] = x + m
      BY <1>2, <1>7, <2>1, <3>1
    <3> QED
      BY <1>5, <1>8, <3>2
  <2>3. c2[k - 1] = end
    BY <1>2, <1>7, <2>1
  <2>4. ASSUME NEW j \in 1..(k - 1)
        PROVE  /\ c2[j] = c2[j - 1] + Len(toInject'[j])
               /\ \A i \in 1..Len(toInject'[j]) : toInject'[j][i] = T[c2[j - 1] + i]
    <3>1. j + 1 \in 1..k /\ j + 1 - 1 = j /\ j \in 0..(k - 1) /\ j - 1 \in 0..(k - 1)
          /\ j - 1 + 1 = j
      BY <1>2
    <3>2. toInject'[j] = toInject[j + 1] /\ c2[j] = c[j + 1] /\ c2[j - 1] = c[j]
      BY <1>2, <2>1, <3>1
    <3>3. /\ c[j + 1] = c[j] + Len(toInject[j + 1])
          /\ \A i \in 1..Len(toInject[j + 1]) : toInject[j + 1][i] = T[c[j] + i]
      BY <1>7, <3>1
    <3> QED
      BY <3>2, <3>3
  <2> QED
    <3>1. Len(toInject') = k - 1 /\ end' = end /\ x' = x
      BY <1>1, <1>2 DEF end, x
    <3> QED
      BY <2>1, <2>2, <2>3, <2>4, <3>1 DEF ToFeed
<1>11. Streamed(T, B)' /\ Place(n, p)'
  BY <1>1, <1>6 DEF Streamed, Place, Size, Long
<1>12. GuestAt(n, p)' /\ FilesAt(n, p)'
  BY <1>1, <1>6 DEF GuestAt, FilesAt, guestTty, Long, PathOf, Newest, Begun, Got, Part
<1>13. Stands(T, B, c2, n, p)'
  BY <1>1, <1>9, <1>10, <1>11, <1>12 DEF Stands, x, end
<1> QED
  BY <1>13

(* Another file's keys come after all the others.                          *)
LEMMA PushStands ==
  ASSUME KeyInv, NEW T, NEW B, NEW c, NEW n, NEW p, Stands(T, B, c, n, p),
         NEW kind \in {"text", "file"}, NEW l \in FileLengths, Push(kind, l)
  PROVE  \E T2, B2, c2 : Stands(T2, B2, c2, n, p)'
<1> DEFINE size == ScriptLength(kind, l)
<1>0. PICK count, end : count = Len(pushed) /\ end = B[count + 1]
  OBVIOUS
<1>1. /\ hookPc = "idle" /\ toInject' = Typescript(kind, count + 1, l) /\ count \in Nat
      /\ pushed' = Append(pushed, [kind |-> kind, length |-> l]) /\ UNCHANGED <<fifo, guestTty>>
      /\ toInject = <<>> /\ fifo \in Seq(FitKeys)
  <2>1. pushed \in Seq([kind : {"text", "file"}, length : FileLengths]) /\ fifo \in Seq(FitKeys)
        /\ (hookPc = "inject" <=> toInject # <<>>)
    BY DEF KeyInv, KeyTypes
  <2>2. pushed' = Append(pushed, [kind |-> kind, length |-> l]) /\ hookPc = "idle"
        /\ UNCHANGED <<fifo, guestTty>> /\ toInject' = Typescript(kind, Len(pushed'), l)
    BY DEF Push, Typescript, DdCount
  <2>3. Len(pushed') = count + 1 /\ count \in Nat
    BY <1>0, <2>1, <2>2
  <2> QED
    BY <1>0, <2>1, <2>2, <2>3
<1>2. /\ Len(pushed') = count + 1 /\ pushed'[count + 1] = [kind |-> kind, length |-> l]
      /\ \A k \in 1..count : pushed'[k] = pushed[k]
  <2>1. pushed \in Seq([kind : {"text", "file"}, length : FileLengths])
    BY DEF KeyInv, KeyTypes
  <2> QED
    BY <1>0, <1>1, <2>1
<1>3. /\ \A k \in 1..count : Size(k)' = Size(k) /\ Long(k)' = Long(k) /\ PathOf(k)' = PathOf(k)
                             /\ Size(k) \in Nat
      /\ Size(count + 1)' = size /\ Long(count + 1)' = l /\ size \in Nat /\ size > 0
  <2>1. \A k \in 1..count : Size(k)' = Size(k) /\ Long(k)' = Long(k) /\ PathOf(k)' = PathOf(k)
    BY <1>2 DEF Size, Long, PathOf
  <2>2. \A k \in 1..count : Size(k) \in Nat
    BY <1>0, SizeIs DEF KeyInv
  <2>3. Size(count + 1)' = size /\ Long(count + 1)' = l
    BY <1>2 DEF Size, Long
  <2>4. size \in Nat /\ size > 0
    BY FileLengthsFit DEF ScriptLength
  <2> QED
    BY <2>1, <2>2, <2>3, <2>4
<1>4. /\ Streamed(T, B) /\ Place(n, p) /\ Fed(T, B[n] + p) /\ GuestAt(n, p) /\ FilesAt(n, p)
      /\ ToFeed(T, end, c, B[n] + p + Len(fifo))
  BY <1>0 DEF Stands
<1>5. /\ B \in [1..(count + 1) -> Nat] /\ end \in Nat
      /\ \A k \in 1..count : /\ B[k + 1] = B[k] + Size(k)
                             /\ \A q \in 1..Size(k) : T[B[k] + q] = ScriptKey(k, Long(k), q)
      /\ \A k \in 1..(count + 1) : B[k] <= end
  BY <1>0, <1>1, <1>4 DEF Streamed
<1>6. B[n] + p + Len(fifo) = end
  <2>1. Len(toInject) = 0
    BY <1>1
  <2> QED
    BY <1>4, <2>1 DEF ToFeed
<1>l. count + 1 \in Nat /\ toInject' = Typescript(kind, count + 1, l)
  BY <1>1
<1>7. PICK c0 \in [0..Len(toInject') -> Nat] :
        /\ c0[0] = 0 /\ c0[Len(toInject')] = size
        /\ \A j \in 0..Len(toInject') : c0[j] <= size
        /\ \A j \in 1..Len(toInject') :
             /\ c0[j] = c0[j - 1] + Len(toInject'[j])
             /\ \A i \in 1..Len(toInject'[j]) : toInject'[j][i] = ScriptKey(count + 1, l, c0[j - 1] + i)
  BY <1>l, ScriptLaid
<1>8. toInject' \in Seq(Seq(FitKeys))
  BY <1>l, ScriptLaid
<1> HIDE DEF size
<1>10. PICK T2 : T2 = [g \in Nat |-> IF g <= end THEN T[g] ELSE ScriptKey(count + 1, l, g - end)]
  OBVIOUS
<1>11. PICK B2 : B2 = [k \in 1..(count + 2) |-> IF k <= count + 1 THEN B[k] ELSE end + size]
  OBVIOUS
<1>12. PICK c2 : c2 = [j \in 0..Len(toInject') |-> end + c0[j]]
  OBVIOUS
<1>13. /\ \A g \in Nat : g <= end => T2[g] = T[g]
       /\ \A q \in 1..size : T2[end + q] = ScriptKey(count + 1, l, q)
  <2>1. ASSUME NEW q \in 1..size
        PROVE  T2[end + q] = ScriptKey(count + 1, l, q)
    <3>1. PICK g : g = end + q
      OBVIOUS
    <3>2. g \in Nat /\ ~(g <= end) /\ g - end = q
      BY <1>3, <1>5, <3>1
    <3>3. T2[g] = IF g <= end THEN T[g] ELSE ScriptKey(count + 1, l, g - end)
      BY <1>10, <3>2
    <3>4. T2[g] = ScriptKey(count + 1, l, q)
      BY <3>2, <3>3, Zenon
    <3> QED
      BY <3>1, <3>4, Zenon
  <2> QED
    BY <1>10, <2>1
<1>14. /\ B2 \in [1..(count + 2) -> Nat] /\ B2[count + 2] = end + size /\ B2[count + 1] = end
       /\ \A k \in 1..(count + 1) : B2[k] = B[k]
       /\ \A k \in 1..(count + 2) : B2[k] <= end + size
  <2>0. end + size \in Nat /\ count \in Nat
    BY <1>0, <1>1, <1>3, <1>5
  <2>1. \A k \in 1..(count + 2) : k <= count + 1 => B[k] \in Nat /\ B[k] <= end + size
    BY <1>3, <1>5, <2>0
  <2>2. B2 = [k \in 1..(count + 2) |-> IF k <= count + 1 THEN B[k] ELSE end + size]
    BY <1>11
  <2>3. B2 \in [1..(count + 2) -> Nat]
    BY <2>0, <2>1, <2>2
  <2>4. \A k \in 1..(count + 1) : B2[k] = B[k]
    BY <2>0, <2>2
  <2>5. B2[count + 2] = end + size
    BY <2>0, <2>2
  <2>6. B2[count + 1] = end
    BY <1>0, <2>0, <2>4
  <2>7. \A k \in 1..(count + 2) : B2[k] <= end + size
    BY <2>0, <2>1, <2>2
  <2> QED
    BY <2>3, <2>4, <2>5, <2>6, <2>7
<1>15. Streamed(T2, B2)'
  <2>1. ASSUME NEW k \in 1..count
        PROVE  /\ B2[k + 1] = B2[k] + Size(k)'
               /\ \A q \in 1..Size(k)' : T2[B2[k] + q] = ScriptKey(k, Long(k)', q)
    <3>1. k \in 1..(count + 1) /\ k + 1 \in 1..(count + 1) /\ B[k] \in Nat
      <4>1. count \in Nat
        BY <1>1
      <4>2. k \in 1..(count + 1) /\ k + 1 \in 1..(count + 1)
        BY <4>1
      <4>3. B \in [1..(count + 1) -> Nat]
        BY <1>5
      <4> QED
        BY <4>2, <4>3
    <3>2. /\ B[k + 1] = B[k] + Size(k) /\ B[k + 1] <= end
          /\ \A q \in 1..Size(k) : T[B[k] + q] = ScriptKey(k, Long(k), q)
      BY <1>5, <3>1
    <3>3. ASSUME NEW q \in 1..Size(k)
          PROVE  T2[B[k] + q] = T[B[k] + q]
      <4>1. B[k] + q \in Nat /\ B[k] + q <= end
        BY <1>3, <1>5, <3>1, <3>2
      <4> QED
        BY <1>13, <4>1
    <3>4. B2[k] = B[k] /\ B2[k + 1] = B[k + 1] /\ Size(k)' = Size(k) /\ Long(k)' = Long(k)
      BY <1>3, <1>14, <3>1
    <3> QED
      BY <3>2, <3>3, <3>4
  <2>2. B2[count + 1 + 1] = B2[count + 1] + size
    BY <1>0, <1>1, <1>14
  <2>3. \A q \in 1..size : T2[B2[count + 1] + q] = ScriptKey(count + 1, l, q)
    BY <1>13, <1>14
  <2>4. \A k \in 1..(count + 1) :
          /\ B2[k + 1] = B2[k] + Size(k)'
          /\ \A q \in 1..Size(k)' : T2[B2[k] + q] = ScriptKey(k, Long(k)', q)
    <3> SUFFICES ASSUME NEW k \in 1..(count + 1)
                 PROVE  /\ B2[k + 1] = B2[k] + Size(k)'
                        /\ \A q \in 1..Size(k)' : T2[B2[k] + q] = ScriptKey(k, Long(k)', q)
      OBVIOUS
    <3>1. k \in 1..count \/ k = count + 1
      BY <1>0, <1>1
    <3> QED
      BY <1>3, <2>1, <2>2, <2>3, <3>1
  <2>5. Len(pushed') = count + 1 /\ count + 1 + 1 = count + 2
    BY <1>0, <1>1, <1>2
  <2>6. /\ B2 \in [1..(Len(pushed') + 1) -> Nat]
        /\ \A k \in 1..(Len(pushed') + 1) : B2[k] <= B2[Len(pushed') + 1]
    BY <1>14, <2>5
  <2> QED
    BY <2>4, <2>5, <2>6 DEF Streamed
<1>16. Place(n, p)' /\ B2[n] = B[n] /\ n \in 1..(count + 1) /\ p \in Nat
  <2>1. n \in 1..(count + 1) /\ p \in Nat /\ (IF n <= count THEN p < Size(n) ELSE p = 0)
        /\ count \in Nat
    BY <1>0, <1>1, <1>4 DEF Place
  <2>2. n \in 1..count \/ n = count + 1
    BY <2>1
  <2>3. n \in 1..(Len(pushed') + 1) /\ n <= Len(pushed')
    BY <1>0, <1>2, <2>1
  <2>4. p < Size(n)'
    BY <1>3, <2>1, <2>2
  <2> QED
    BY <1>14, <2>1, <2>3, <2>4 DEF Place
<1>17. Fed(T2, B2[n] + p)'
  <2> SUFFICES ASSUME NEW i \in 1..Len(fifo)
               PROVE  fifo[i] = T2[B2[n] + p + i]
    BY <1>1 DEF Fed
  <2>1. fifo[i] = T[B[n] + p + i]
    BY <1>4 DEF Fed
  <2>2. B[n] + p + i \in Nat /\ B[n] + p + i <= end
    <3>1. B[n] \in Nat /\ p \in Nat /\ Len(fifo) \in Nat
      BY <1>1, <1>5, <1>16
    <3> QED
      BY <1>6, <3>1
  <2> QED
    BY <1>13, <1>16, <2>1, <2>2
<1>18. ToFeed(T2, end + size, c2, end)'
  <2>1. Len(toInject') \in Nat /\ size \in Nat
    BY <1>3, <1>8
  <2>2. /\ c2 \in [0..Len(toInject') -> Nat] /\ c2[0] = end /\ c2[Len(toInject')] = end + size
        /\ \A j \in 0..Len(toInject') : c2[j] = end + c0[j] /\ c2[j] <= end + size
           /\ c0[j] \in Nat
    <3>1. \A j \in 0..Len(toInject') : c2[j] = end + c0[j]
      BY <1>12
    <3>2. \A j \in 0..Len(toInject') : c0[j] \in Nat /\ c0[j] <= size
      BY <1>7
    <3>3. end \in Nat
      BY <1>5
    <3>4. \A j \in 0..Len(toInject') : end + c0[j] \in Nat /\ end + c0[j] <= end + size
      BY <2>1, <3>2, <3>3
    <3>5. c2 \in [0..Len(toInject') -> Nat]
      BY <1>12, <3>4
    <3>6. c2[0] = end /\ c2[Len(toInject')] = end + size
      BY <1>7, <2>1, <3>1, <3>3
    <3> QED
      BY <3>1, <3>2, <3>4, <3>5, <3>6
  <2>3. ASSUME NEW j \in 1..Len(toInject')
        PROVE  /\ c2[j] = c2[j - 1] + Len(toInject'[j])
               /\ \A i \in 1..Len(toInject'[j]) : toInject'[j][i] = T2[c2[j - 1] + i]
    <3>1. j \in 0..Len(toInject') /\ j - 1 \in 0..Len(toInject') /\ Len(toInject'[j]) \in Nat
      BY <1>8, <2>1
    <3>2. /\ c0[j] = c0[j - 1] + Len(toInject'[j])
          /\ \A i \in 1..Len(toInject'[j]) : toInject'[j][i] = ScriptKey(count + 1, l, c0[j - 1] + i)
      BY <1>7
    <3>3. /\ c2[j] = end + c0[j] /\ c2[j - 1] = end + c0[j - 1] /\ c0[j] \in Nat
             /\ c0[j - 1] \in Nat
          /\ c0[j] <= size
      BY <1>7, <2>2, <3>1
    <3> DEFINE a == c0[j - 1]
               b == c0[j]
               h == Len(toInject'[j])
    <3>4. a \in Nat /\ b \in Nat /\ h \in Nat /\ b = a + h /\ b <= size /\ c2[j] = end + b
          /\ c2[j - 1] = end + a
      BY <3>1, <3>2, <3>3
    <3>5. \A i \in 1..h : toInject'[j][i] = ScriptKey(count + 1, l, a + i)
      BY <3>2
    <3> HIDE DEF a, b, h
    <3>6. ASSUME NEW i \in 1..h
          PROVE  toInject'[j][i] = T2[c2[j - 1] + i]
      <4>1. a + i \in 1..size /\ end + a + i = end + (a + i)
        BY <1>5, <2>1, <3>4
      <4>2. T2[end + (a + i)] = ScriptKey(count + 1, l, a + i)
        BY <1>13, <4>1
      <4> QED
        BY <3>4, <3>5, <4>1, <4>2
    <3>7. c2[j] = c2[j - 1] + h
      BY <1>5, <3>4
    <3> QED
      BY <3>6, <3>7 DEF h
  <2> QED
    BY <2>1, <2>2, <2>3 DEF ToFeed
<1>19. ToFeed(T2, B2[Len(pushed) + 1], c2, B2[n] + p + Len(fifo))'
  <2>1. Len(pushed') + 1 = count + 2
    BY <1>0, <1>1, <1>2
  <2>2. B2[Len(pushed') + 1] = end + size
    BY <1>14, <2>1
  <2>3. B2[n] + p + Len(fifo') = end
    BY <1>1, <1>6, <1>16
  <2> QED
    BY <1>18, <2>2, <2>3
<1>20. GuestAt(n, p)'
  <2>1. CASE n \in 1..count
    BY <1>1, <1>3, <1>4, <2>1 DEF GuestAt, guestTty
  <2>2. CASE n = count + 1
    <3>1. p = 0
      BY <1>0, <1>1, <1>4, <2>2 DEF Place
    <3> QED
      BY <1>1, <1>4, <3>1 DEF GuestAt, guestTty
  <2> QED
    BY <1>0, <1>1, <1>16, <2>1, <2>2
<1>21. FilesAt(n, p)'
  <2>0. count \in Nat /\ Len(pushed') = count + 1 /\ count = Len(pushed) /\ UNCHANGED ttyFiles
    BY <1>0, <1>1, <1>2 DEF guestTty
  <2> SUFFICES ASSUME NEW m \in 1..(count + 1), Newest(n, p, m)'
               PROVE  ttyFiles[PathOf(m)'] = Part(m, Got(n, p, m)')
    BY <2>0 DEF FilesAt, Part
  <2>1. m < n \/ (m = n /\ p >= 2)
    BY DEF Newest, Begun
  <2>2. m \in 1..count
    <3>1. CASE m = count + 1
      <4>1. n = count + 1 /\ p >= 2
        BY <1>16, <2>0, <2>1, <3>1
      <4>2. p = 0
        BY <1>4, <2>0, <4>1 DEF Place
      <4> QED
        BY <4>1, <4>2
    <3> QED
      BY <2>0, <3>1
  <2>3. Newest(n, p, m)
    <3>1. Begun(n, p, m)
      BY <2>1 DEF Begun
    <3>2. ASSUME NEW k \in 1..count, k > m, Begun(n, p, k)
          PROVE  PathOf(k) # PathOf(m)
      <4>1. k \in 1..Len(pushed') /\ Begun(n, p, k)'
        BY <2>0, <3>2 DEF Begun
      <4>2. PathOf(k)' # PathOf(m)'
        BY <3>2, <4>1 DEF Newest
      <4> QED
        BY <1>3, <2>2, <4>2
    <3> QED
      BY <2>0, <3>1, <3>2 DEF Newest
  <2>4. Got(n, p, m)' = Got(n, p, m) /\ PathOf(m)' = PathOf(m)
    BY <1>3, <2>2 DEF Got
  <2> QED
    BY <1>4, <2>0, <2>2, <2>3, <2>4 DEF FilesAt
<1>22. Stands(T2, B2, c2, n, p)'
  BY <1>15, <1>16, <1>17, <1>19, <1>20, <1>21 DEF Stands
<1> QED
  BY <1>22

(* So every step keeps the invariant of the keys.                          *)
LEMMA PushedKeeps ==
  ASSUME PushedInv, [HookNext]_hookVars
  PROVE  PushedInv'
<1>1. KeyInv /\ KeyInv'
  BY KeysKeep DEF PushedInv
<1> SUFFICES ASSUME ~keyLost'
             PROVE  DecodedWhole' /\ \E T, B, c, n, p : Stands(T, B, c, n, p)'
  BY <1>1 DEF PushedInv
<1>2. ASSUME ~keyLost
      PROVE  DecodedWhole /\ \E T, B, c, n, p : Stands(T, B, c, n, p)
  BY <1>2 DEF PushedInv
<1>3. CASE UNCHANGED typeVars
  <2>1. ~keyLost
    BY <1>3 DEF typeVars
  <2>2. PICK T, B, c, n, p : Stands(T, B, c, n, p)
    BY <1>2, <2>1
  <2>3. UNCHANGED <<toInject, fifo, shellLine, ddLeft, ddFile, ttyFiles, decoded, pushed>>
    BY <1>3 DEF typeVars, guestTty
  <2>4. DecodedWhole'
    BY <1>2, <2>1, <2>3 DEF DecodedWhole, Content
  <2>5. Streamed(T, B)' /\ Place(n, p)' /\ Fed(T, B[n] + p)'
        /\ ToFeed(T, B[Len(pushed) + 1], c, B[n] + p + Len(fifo))'
    BY <2>2, <2>3 DEF Stands, Streamed, Place, Fed, ToFeed, Size, Long
  <2>6. GuestAt(n, p)' /\ FilesAt(n, p)'
    BY <2>2, <2>3 DEF Stands, GuestAt, FilesAt, Long, PathOf, Newest, Begun, Got, Part
  <2>7. Stands(T, B, c, n, p)'
    BY <2>5, <2>6 DEF Stands
  <2> QED
    BY <2>4, <2>7
<1>4. ASSUME NEW kind \in {"text", "file"}, NEW l \in FileLengths, Push(kind, l)
      PROVE  DecodedWhole' /\ \E T, B, c, n, p : Stands(T, B, c, n, p)'
  <2>1. ~keyLost
    BY <1>4 DEF Push
  <2>2. PICK T, B, c, n, p : Stands(T, B, c, n, p)
    BY <1>2, <2>1
  <2>3. \E T2, B2, c2 : Stands(T2, B2, c2, n, p)'
    BY <1>1, <1>4, <2>2, PushStands
  <2>4. DecodedWhole'
    <3>1. pushed' = Append(pushed, [kind |-> kind, length |-> l]) /\ UNCHANGED decoded
          /\ pushed \in Seq([kind : {"text", "file"}, length : FileLengths])
      BY <1>1, <1>4 DEF Push, guestTty, KeyInv, KeyTypes
    <3>2. /\ Len(pushed') = Len(pushed) + 1 /\ Len(pushed) \in Nat
          /\ \A k \in 1..Len(pushed) : pushed'[k] = pushed[k]
      BY <3>1
    <3>3. \A k \in 1..Len(pushed) : k \in 1..Len(pushed') /\ Content(k)' = Content(k)
      BY <3>2 DEF Content
    <3>4. DecodedWhole
      BY <1>2, <2>1
    <3> QED
      BY <3>1, <3>3, <3>4 DEF DecodedWhole
  <2> QED
    BY <2>3, <2>4
<1>5. CASE Inject
  <2>1. ~keyLost
    <3>1. keyLost \in BOOLEAN
      BY <1>1 DEF KeyInv, KeyTypes
    <3>2. keyLost' = (keyLost \/ Len(fifo) + Len(Head(toInject)) > FifoSize) \/ keyLost' = TRUE
      BY <1>5 DEF Inject
    <3> QED
      BY <3>1, <3>2
  <2>2. PICK T, B, c, n, p : Stands(T, B, c, n, p)
    BY <1>2, <2>1
  <2>3. \E c2 : Stands(T, B, c2, n, p)'
    BY <1>1, <1>5, <2>2, InjectStands
  <2>4. DecodedWhole'
    BY <1>2, <1>5, <2>1 DEF Inject, guestTty, DecodedWhole, Content
  <2> QED
    BY <2>3, <2>4
<1>6. CASE GuestReads
  <2>1. ~keyLost
    BY <1>6 DEF GuestReads
  <2>2. PICK T, B, c, n, p : Stands(T, B, c, n, p)
    BY <1>2, <2>1
  <2>3. DecodedWhole' /\ \E n2, p2 : Stands(T, B, c, n2, p2)'
    BY <1>1, <1>2, <1>6, <2>1, <2>2, ReadsStand
  <2> QED
    BY <2>3
<1>7. CASE GdbTimeout
  <2>1. hookPc # "inject"
    BY <1>7 DEF GdbTimeout
  <2>2. UNCHANGED <<fifo, guestTty, pushed, keyLost>> /\ toInject' = <<>>
    BY <1>7, <2>1 DEF GdbTimeout
  <2>3. toInject = <<>>
    BY <1>1, <2>1 DEF KeyInv, KeyTypes
  <2> QED
    BY <1>3, <2>2, <2>3 DEF typeVars
<1>8. CASE HookPuts \/ Putc \/ Look \/ HookEmits \/ HookClears \/ UNCHANGED hookVars
  BY <1>3, <1>8 DEF HookPuts, Putc, Look, HookEmits, HookClears, hookVars
<1> QED
  BY <1>4, <1>5, <1>6, <1>7, <1>8 DEF HookNext

(* When all is read, the guest has come to the end of the stream.          *)
LEMMA PushedIsWhole ==
  ASSUME PushedInv
  PROVE  PushedWhole
<1> SUFFICES ASSUME ~keyLost
             PROVE  /\ \A d \in decoded : d.file = Content(d.of)
                    /\ hookPc = "idle" /\ fifo = <<>> =>
                         /\ ddLeft = 0 /\ shellLine = <<>>
                         /\ \A n \in DOMAIN pushed :
                              (\A m \in DOMAIN pushed : m > n => PathOf(m) # PathOf(n))
                              => ttyFiles[PathOf(n)] = Content(n)
  BY DEF PushedWhole
<1>1. DecodedWhole
  BY DEF PushedInv
<1>2. PICK T, B, c, n, p : Stands(T, B, c, n, p)
  BY DEF PushedInv
<1>3. ASSUME hookPc = "idle", fifo = <<>>
      PROVE  n = Len(pushed) + 1 /\ p = 0
  <2>1. toInject = <<>> /\ Len(toInject) = 0 /\ Len(fifo) = 0
    BY <1>3 DEF PushedInv, KeyInv, KeyTypes
  <2>2. PICK count, end : count = Len(pushed) /\ end = B[count + 1]
    OBVIOUS
  <2>3. /\ B \in [1..(count + 1) -> Nat] /\ \A k \in 1..(count + 1) : B[k] <= end
        /\ \A k \in 1..count : B[k + 1] = B[k] + Size(k)
    BY <1>2, <2>2 DEF Stands, Streamed
  <2>4. /\ n \in 1..(count + 1) /\ p \in Nat
        /\ IF n <= count THEN p < Size(n) ELSE p = 0
    BY <1>2, <2>2 DEF Stands, Place
  <2>5. B[n] + p + 0 = end
    BY <1>2, <2>1, <2>2 DEF Stands, ToFeed
  <2>6. count \in Nat
    BY <2>2 DEF PushedInv, KeyInv, KeyTypes
  <2>7. ASSUME n <= count
        PROVE  FALSE
    <3>1. n \in 1..count /\ n + 1 \in 1..(count + 1)
      BY <2>4, <2>6, <2>7
    <3>2. B[n + 1] = B[n] + Size(n) /\ B[n + 1] <= end /\ B[n] \in Nat /\ p < Size(n)
      BY <2>3, <2>4, <2>7, <3>1
    <3>3. Size(n) \in Nat
      BY <2>2, <3>1, SizeIs DEF PushedInv, KeyInv
    <3> QED
      BY <2>4, <2>5, <3>2, <3>3
  <2> QED
    BY <2>2, <2>4, <2>6, <2>7
<1>4. ASSUME hookPc = "idle", fifo = <<>>
      PROVE  /\ ddLeft = 0 /\ shellLine = <<>>
             /\ \A m \in DOMAIN pushed :
                  (\A k \in DOMAIN pushed : k > m => PathOf(k) # PathOf(m))
                  => ttyFiles[PathOf(m)] = Content(m)
  <2>1. n = Len(pushed) + 1 /\ p = 0 /\ GuestAt(n, p) /\ FilesAt(n, p)
    BY <1>2, <1>3, <1>4 DEF Stands
  <2>2. DOMAIN pushed = 1..Len(pushed) /\ Len(pushed) \in Nat
    BY DEF PushedInv, KeyInv, KeyTypes
  <2>3. ASSUME NEW m \in 1..Len(pushed),
               \A k \in 1..Len(pushed) : k > m => PathOf(k) # PathOf(m)
        PROVE  ttyFiles[PathOf(m)] = Content(m)
    <3>1. m < n
      BY <2>1, <2>2
    <3>2. Newest(n, p, m)
      BY <2>3, <3>1 DEF Newest, Begun
    <3>3. Got(n, p, m) = Long(m)
      BY <3>1 DEF Got
    <3> QED
      BY <2>1, <3>2, <3>3 DEF FilesAt, Part, Content, Long
  <2> QED
    BY <2>1, <2>2, <2>3 DEF GuestAt
<1> QED
  BY <1>1, <1>4 DEF DecodedWhole

(* Nothing is pushed yet: the streams are empty.                           *)
LEMMA HookStarted == HookInit => MailInv /\ PushedInv
<1> SUFFICES ASSUME HookInit PROVE MailInv /\ PushedInv
  OBVIOUS
<1>1. MailInv
  <2>1. /\ hookPc = "idle" /\ text = <<>> /\ Len(text) = 0 /\ looked = 0 /\ mailbox = 0
           /\ clearing = FALSE
        /\ console = <<>> /\ Len(console) = 0 /\ DOMAIN console = {} /\ written = 0
           /\ byteLost = FALSE
    BY DEF HookInit
  <2>2. MailTypes
    <3>1. <<>> \in Seq(Nat) /\ 0 \in Nat /\ 1..0 = {}
      OBVIOUS
    <3>2. {mailbox, written, looked} \subseteq Nat /\ text \in Seq(Nat) /\ console \in Seq(Nat)
          /\ clearing \in BOOLEAN /\ byteLost \in BOOLEAN
      BY <2>1, <3>1
    <3>3. 1..Len(text) = {}
      BY <2>1, <3>1
    <3> QED
      BY <2>1, <3>2, <3>3 DEF MailTypes
  <2>3. MailNewest /\ ConsoleInOrder
    BY <2>1 DEF MailNewest, ConsoleInOrder
  <2>4. MailKept
    BY <2>1 DEF MailKept, Waiting
  <2> QED
    BY <2>2, <2>3, <2>4 DEF MailInv
<1>2. KeyInv
  <2>1. /\ hookPc = "idle" /\ toInject = <<>> /\ fifo = <<>> /\ shellLine = <<>> /\ ddLeft = 0
        /\ ddFile = "text" /\ ttyFiles = [q \in {"text", "tmp"} |-> <<>>] /\ pushed = <<>>
        /\ decoded = {} /\ keyLost = FALSE
    BY DEF HookInit
  <2>2. \A S : <<>> \in Seq(S)
    OBVIOUS
  <2>3. ddFile \in Paths /\ ttyFiles \in [Paths -> Seq(FitKeys)]
        /\ \A q \in Paths : ttyFiles[q] = <<>>
    BY <2>1, <2>2 DEF Paths
  <2>4. KeyTypes
    BY <2>1, <2>2, <2>3 DEF KeyTypes
  <2>5. DdFits
    BY <2>1, <2>3 DEF DdFits, NotWhileWriting
  <2> QED
    BY <2>4, <2>5 DEF KeyInv
<1>3. PICK B, c : B = [k \in 1..1 |-> 0] /\ c = [j \in 0..0 |-> 0]
  OBVIOUS
<1>4. Stands(<<>>, B, c, 1, 0)
  <2>1. pushed = <<>> /\ Len(pushed) = 0 /\ fifo = <<>> /\ Len(fifo) = 0 /\ toInject = <<>>
        /\ Len(toInject) = 0
        /\ shellLine = <<>> /\ ddLeft = 0
    BY DEF HookInit
  <2>2. Streamed(<<>>, B) /\ Place(1, 0)
    BY <1>3, <2>1 DEF Streamed, Place
  <2>3. Fed(<<>>, B[1] + 0) /\ ToFeed(<<>>, B[Len(pushed) + 1], c, B[1] + 0 + Len(fifo))
    BY <1>3, <2>1 DEF Fed, ToFeed
  <2>4. GuestAt(1, 0) /\ FilesAt(1, 0)
    BY <2>1 DEF GuestAt, FilesAt
  <2> QED
    BY <2>2, <2>3, <2>4 DEF Stands
<1>5. DecodedWhole
  BY DEF HookInit, DecodedWhole
<1> QED
  BY <1>1, <1>2, <1>4, <1>5 DEF PushedInv

(* What was shown and what waits are all the numbers up to the last.       *)
LEMMA MailIsWhole ==
  ASSUME MailInv
  PROVE  ConsoleInOrder /\ ConsoleWhole
<1> DEFINE s == IF Waiting THEN <<mailbox>> ELSE <<>>
           all == [i \in 1..written |-> i]
<1> SUFFICES ASSUME ~byteLost
             PROVE  console \o s = all
  BY DEF MailInv, ConsoleWhole, Waiting
<1>1. /\ console \in Seq(Nat) /\ mailbox \in Nat /\ written \in Nat
      /\ Len(console) + (IF Waiting THEN 1 ELSE 0) = written
      /\ \A i \in 1..Len(console) : console[i] = i
      /\ Waiting => mailbox = written
  BY DEF MailInv, MailTypes, MailKept
<1>2. s \in Seq(Nat) /\ Len(s) = (IF Waiting THEN 1 ELSE 0) /\ (Waiting => s[1] = mailbox)
  BY <1>1
<1> HIDE DEF s
<1>3. /\ console \o s \in Seq(Nat) /\ Len(console \o s) = Len(console) + Len(s)
      /\ \A i \in 1..Len(console) + Len(s) :
           (console \o s)[i] = IF i <= Len(console) THEN console[i] ELSE s[i - Len(console)]
  BY <1>1, <1>2, ConcatProperties
<1>4. Len(console) \in Nat /\ Len(console) + Len(s) = written /\ Len(s) \in {0, 1}
      /\ (Len(s) = 1 <=> Waiting)
  BY <1>1, <1>2
<1>5. all \in Seq(Nat) /\ Len(all) = written /\ \A i \in 1..written : all[i] = i
  BY <1>1
<1> HIDE DEF all
<1>6. ASSUME NEW i \in 1..written
      PROVE  (console \o s)[i] = all[i]
  <2>1. CASE i <= Len(console)
    <3>1. i \in 1..Len(console)
      BY <1>4, <2>1
    <3>2. (console \o s)[i] = console[i] /\ console[i] = i
      BY <1>1, <1>3, <1>4, <2>1, <3>1
    <3> QED
      BY <1>5, <3>2
  <2>2. CASE i > Len(console)
    <3>1. Len(s) = 1 /\ i = written /\ i - Len(console) = 1
      <4>1. Len(console) \in Nat /\ Len(console) + Len(s) = written /\ Len(s) \in {0, 1}
        BY <1>4
      <4> DEFINE a == Len(console)
                 b == Len(s)
      <4>2. a \in Nat /\ b \in {0, 1} /\ i \in 1..(a + b) /\ i > a
        BY <2>2, <4>1
      <4> HIDE DEF a, b
      <4>3. b = 1 /\ i = a + b /\ i - a = 1
        BY <4>2
      <4> QED
        BY <4>1, <4>3 DEF a, b
    <3>3. Waiting
      BY <1>4, <3>1
    <3>2. (console \o s)[i] = s[1]
      BY <1>3, <1>4, <2>2, <3>1
    <3> QED
      BY <1>1, <1>2, <1>5, <3>1, <3>2, <3>3
  <2> QED
    BY <1>4, <2>1, <2>2
<1> QED
  BY <1>1, <1>3, <1>4, <1>5, <1>6, SeqEqual

(* The console shows the bytes of the texts in order, each once, and all   *)
(* of them as long as none was given up; what dd and uudecode make of the  *)
(* keys is what was pushed, as long as none was lost; and uudecode never   *)
(* runs on a file that dd is still writing (HookSound): for any lengths,   *)
(* and however the host, its gdb sessions and the guest take turns.        *)
THEOREM HookStaysSound == HookSpec => []HookSound
<1>1. HookInit => MailInv /\ PushedInv
  BY HookStarted
<1>2. MailInv /\ PushedInv /\ [HookNext]_hookVars => (MailInv /\ PushedInv)'
  BY MailKeeps, PushedKeeps
<1>3. MailInv /\ PushedInv => HookSound
  BY MailIsWhole, PushedIsWhole DEF HookSound, PushedInv, KeyInv, DdFits
<1> QED
  BY <1>1, <1>2, <1>3, PTL DEF HookSpec

-----------------------------------------------------------------------------
(* BootHarness: the lines of a text that is read in parts.                 *)

LEMMA Enders ==
  ASSUME NEW s, NEW n \in Int
  PROVE  /\ IsFiniteSet({j \in 1..n : EndsLine(s[j])})
         /\ Cardinality({j \in 1..n : EndsLine(s[j])}) \in Nat
<1> DEFINE D == {j \in 1..n : EndsLine(s[j])}
<1>1. IsFiniteSet(1..n) /\ D \in SUBSET (1..n)
  BY FS_Interval
<1> HIDE DEF D
<1>2. IsFiniteSet(D)
  BY <1>1, FS_Subset
<1> QED
  BY <1>2, FS_CardinalityType DEF D

LEMMA LineGrows ==
  ASSUME NEW s, NEW i \in Int, NEW k \in Int, i <= k
  PROVE  LineAt(s, i) \in Nat \ {0} /\ LineAt(s, i) <= LineAt(s, k)
<1> DEFINE D == {j \in 1..(i - 1) : EndsLine(s[j])}
           G == {j \in 1..(k - 1) : EndsLine(s[j])}
<1>1. IsFiniteSet(D) /\ Cardinality(D) \in Nat /\ IsFiniteSet(G) /\ Cardinality(G) \in Nat
  BY Enders
<1>2. D \in SUBSET G
  OBVIOUS
<1>3. LineAt(s, i) = 1 + Cardinality(D) /\ LineAt(s, k) = 1 + Cardinality(G)
  BY DEF LineAt
<1> HIDE DEF D, G
<1>4. Cardinality(D) <= Cardinality(G)
  BY <1>1, <1>2, FS_Subset
<1> QED
  BY <1>1, <1>3, <1>4

LEMMA NextLine ==
  ASSUME NEW s, NEW i \in Nat \ {0}
  PROVE  LineAt(s, i + 1) = IF EndsLine(s[i]) THEN LineAt(s, i) + 1 ELSE LineAt(s, i)
<1> DEFINE D == {j \in 1..(i - 1) : EndsLine(s[j])}
           G == {j \in 1..i : EndsLine(s[j])}
<1>1. IsFiniteSet(D) /\ Cardinality(D) \in Nat
  <2>1. i - 1 \in Int
    OBVIOUS
  <2> QED
    BY <2>1, Enders
<1>2. G = IF EndsLine(s[i]) THEN D \cup {i} ELSE D
  <2>1. 1..i = (1..(i - 1)) \cup {i}
    <3>1. \A j : j \in 1..i <=> j \in 1..(i - 1) \/ j = i
      OBVIOUS
    <3> QED
      BY <3>1, Zenon
  <2> QED
    BY <2>1
<1>3. i \notin D
  OBVIOUS
<1>4. LineAt(s, i) = 1 + Cardinality(D) /\ LineAt(s, i + 1) = 1 + Cardinality(G)
  <2>1. (i + 1) - 1 = i
    OBVIOUS
  <2> QED
    BY <2>1 DEF LineAt
<1> HIDE DEF D, G
<1>5. Cardinality(D \cup {i}) = Cardinality(D) + 1
  BY <1>1, <1>3, FS_AddElement
<1> QED
  BY <1>1, <1>2, <1>4, <1>5

LEMMA FirstLine ==
  ASSUME NEW s
  PROVE  LineAt(s, 1) = 1
<1>1. {j \in 1..(1 - 1) : EndsLine(s[j])} = {}
  OBVIOUS
<1>2. Cardinality({}) = 0
  BY FS_EmptySet
<1> QED
  BY <1>1, <1>2 DEF LineAt

(* The lines that a text ends.                                             *)
Ended(s) == LineAt(s, Len(s) + 1) - 1

LEMMA LineOfPart ==
  ASSUME NEW s \in Seq(Bits), NEW t \in Seq(Bits)
  PROVE  /\ \A i \in 1..(Len(s) + 1) : LineAt(s \o t, i) = LineAt(s, i)
         /\ \A m \in 1..(Len(t) + 1) : LineAt(s \o t, Len(s) + m) = Ended(s) + LineAt(t, m)
<1> DEFINE u == s \o t
<1>1. /\ Len(s) \in Nat /\ Len(t) \in Nat
      /\ \A j \in 1..Len(s) : u[j] = s[j]
      /\ \A j \in 1..Len(t) : u[Len(s) + j] = t[j]
  <2>1. /\ u \in Seq(Bits) /\ Len(u) = Len(s) + Len(t) /\ Len(s) \in Nat /\ Len(t) \in Nat
        /\ \A j \in 1..(Len(s) + Len(t)) : u[j] = IF j <= Len(s) THEN s[j] ELSE t[j - Len(s)]
    BY ConcatProperties, LenProperties
  <2> HIDE DEF u
  <2>2. ASSUME NEW j \in 1..Len(t)
        PROVE  u[Len(s) + j] = t[j]
    <3>1. Len(s) + j \in 1..(Len(s) + Len(t)) /\ ~(Len(s) + j <= Len(s))
          /\ (Len(s) + j) - Len(s) = j
      BY <2>1
    <3> QED
      BY <2>1, <3>1
  <2> QED
    BY <2>1, <2>2
<1> HIDE DEF u
<1>2. ASSUME NEW i \in 1..(Len(s) + 1)
      PROVE  LineAt(u, i) = LineAt(s, i)
  <2>1. {j \in 1..(i - 1) : EndsLine(u[j])} = {j \in 1..(i - 1) : EndsLine(s[j])}
    <3>1. \A j \in 1..(i - 1) : u[j] = s[j]
      BY <1>1
    <3> QED
      BY <3>1
  <2> QED
    BY <2>1 DEF LineAt
<1>3. ASSUME NEW m \in 1..(Len(t) + 1)
      PROVE  LineAt(u, Len(s) + m) = Ended(s) + LineAt(t, m)
  <2> DEFINE A == {j \in 1..Len(s) : EndsLine(s[j])}
             B == {j \in (Len(s) + 1)..(Len(s) + m - 1) : EndsLine(u[j])}
             T == {j \in 1..(m - 1) : EndsLine(t[j])}
             f == [j \in T |-> Len(s) + j]
  <2>1. /\ IsFiniteSet(A) /\ Cardinality(A) \in Nat
        /\ IsFiniteSet(T) /\ Cardinality(T) \in Nat
    <3>1. Len(s) \in Int /\ m - 1 \in Int
      BY <1>1
    <3> QED
      BY <3>1, Enders
  <2>2. {j \in 1..(Len(s) + m - 1) : EndsLine(u[j])} = A \cup B
    <3>1. 1..(Len(s) + m - 1) = (1..Len(s)) \cup ((Len(s) + 1)..(Len(s) + m - 1))
      BY <1>1
    <3> QED
      BY <1>1, <3>1
  <2>3. A \cap B = {}
    BY <1>1
  <2>4. f \in Bijection(T, B)
    <3>1. \A j \in T : Len(s) + j \in B
      BY <1>1
    <3>2. \A k \in B : k - Len(s) \in T /\ Len(s) + (k - Len(s)) = k
      BY <1>1
    <3>3. \A j, k \in T : Len(s) + j = Len(s) + k => j = k
      BY <1>1
    <3> HIDE DEF T, B
    <3>4. \A k \in B : \E j \in T : f[j] = k
      BY <3>2
    <3> QED
      BY <3>1, <3>3, <3>4, Zenon DEF Bijection, Injection, Surjection, IsInjective
  <2>5. /\ LineAt(t, m) = 1 + Cardinality(T) /\ LineAt(u, Len(s) + m) = 1 + Cardinality(A \cup B)
        /\ LineAt(s, Len(s) + 1) = 1 + Cardinality(A)
    <3>1. (Len(s) + 1) - 1 = Len(s)
      BY <1>1
    <3>2. LineAt(t, m) = 1 + Cardinality(T)
      BY DEF LineAt
    <3>3. LineAt(u, Len(s) + m) = 1 + Cardinality({j \in 1..(Len(s) + m - 1) : EndsLine(u[j])})
      BY DEF LineAt
    <3>4. LineAt(s, Len(s) + 1) = 1 + Cardinality(A)
      BY <3>1 DEF LineAt
    <3> QED
      BY <2>2, <3>2, <3>3, <3>4, Zenon
  <2> HIDE DEF A, B, T, f
  <2>6. IsFiniteSet(B) /\ Cardinality(B) = Cardinality(T)
    BY <2>1, <2>4, FS_Bijection DEF ExistsBijection
  <2>7. Cardinality(A \cup B) = Cardinality(A) + Cardinality(B)
    <3>1. Cardinality(A \cup B) = Cardinality(A) + Cardinality(B) - Cardinality(A \cap B)
      BY <2>1, <2>6, FS_Union
    <3>2. Cardinality(A \cap B) = 0
      BY <2>3, FS_EmptySet
    <3> QED
      BY <2>1, <2>6, <3>1, <3>2
  <2> QED
    BY <2>1, <2>5, <2>6, <2>7 DEF Ended
<1> QED
  BY <1>2, <1>3 DEF u

LEMMA EndedIs ==
  ASSUME NEW s \in Seq(Bits)
  PROVE  /\ Ended(s) \in Nat /\ Len(s) \in Nat
         /\ s = <<>> => Ended(s) = 0
         /\ s # <<>> => Ended(s) = IF EndsLine(s[Len(s)]) THEN LineAt(s, Len(s))
                                   ELSE LineAt(s, Len(s)) - 1
<1>1. Len(s) \in Nat /\ (s # <<>> => Len(s) \in Nat \ {0})
  BY LenProperties, EmptySeq
<1>2. LineAt(s, Len(s) + 1) \in Nat \ {0} /\ LineAt(s, Len(s)) \in Nat \ {0}
  BY <1>1, LineGrows
<1>3. s = <<>> => Ended(s) = 0
  <2>1. Len(<<>>) + 1 = 1
    OBVIOUS
  <2>2. LineAt(<<>>, 1) = 1
    BY FirstLine
  <2> QED
    BY <2>1, <2>2 DEF Ended
<1>4. ASSUME s # <<>>
      PROVE  LineAt(s, Len(s) + 1)
                = IF EndsLine(s[Len(s)]) THEN LineAt(s, Len(s)) + 1 ELSE LineAt(s, Len(s))
  BY <1>1, <1>4, NextLine
<1> QED
  BY <1>1, <1>2, <1>3, <1>4 DEF Ended

LEMMA LastOfProps ==
  ASSUME NEW s \in Seq(Bits), NEW n \in Int
  PROVE  /\ LastOf(s, n) \in 0..Len(s)
         /\ \A i \in 1..Len(s) : i <= LastOf(s, n) <=> LineAt(s, i) <= n
<1> DEFINE P == {i \in DOMAIN s : LineAt(s, i) <= n}
           c == Cardinality(P)
<1>1. Len(s) \in Nat /\ DOMAIN s = 1..Len(s)
  BY LenProperties
<1>2. IsFiniteSet(1..Len(s)) /\ Cardinality(1..Len(s)) = Len(s)
  BY <1>1, FS_Interval
<1>3. P \in SUBSET (1..Len(s))
  BY <1>1
<1>4. \A i, k \in 1..Len(s) : i <= k /\ k \in P => i \in P
  <2>1. ASSUME NEW i \in 1..Len(s), NEW k \in 1..Len(s), i <= k, k \in P
        PROVE  i \in P
    <3>1. LineAt(s, i) \in Nat /\ LineAt(s, k) \in Nat /\ LineAt(s, i) <= LineAt(s, k)
      BY <1>1, <2>1, LineGrows
    <3> QED
      BY <1>1, <2>1, <3>1
  <2> QED
    BY <2>1
<1>5. LastOf(s, n) = c /\ \A i \in 1..Len(s) : i \in P <=> LineAt(s, i) <= n
  BY <1>1 DEF LastOf
<1> HIDE DEF P
<1>6. IsFiniteSet(P) /\ c \in Nat /\ c <= Len(s)
  BY <1>2, <1>3, FS_Subset, FS_CardinalityType
<1>7. ASSUME NEW i \in 1..Len(s), i \in P
      PROVE  i <= c
  <2>1. 1..i \in SUBSET P
    BY <1>1, <1>4, <1>7
  <2>2. Cardinality(1..i) = i
    <3>1. i \in Int /\ 1 \in Int /\ ~(1 > i) /\ i - 1 + 1 = i
      BY <1>1
    <3> QED
      BY <3>1, FS_Interval
  <2> QED
    BY <1>6, <2>1, <2>2, FS_Subset
<1>8. ASSUME NEW i \in 1..Len(s), i \notin P
      PROVE  c < i
  <2>1. P \in SUBSET (1..(i - 1))
    BY <1>1, <1>3, <1>4, <1>8
  <2>2. IsFiniteSet(1..(i - 1)) /\ Cardinality(1..(i - 1)) = i - 1
    <3>1. i - 1 \in Int /\ 1 \in Int /\ (1 > i - 1 => i - 1 = 0) /\ i - 1 - 1 + 1 = i - 1
      BY <1>1
    <3> QED
      BY <3>1, FS_Interval
  <2>3. c <= i - 1
    BY <2>1, <2>2, FS_Subset
  <2> QED
    BY <1>1, <1>6, <2>3
<1> QED
  BY <1>1, <1>5, <1>6, <1>7, <1>8

LEMMA LastOfIs ==
  ASSUME NEW s \in Seq(Bits), NEW n \in Int, NEW c \in 0..Len(s),
         \A i \in 1..Len(s) : i <= c <=> LineAt(s, i) <= n
  PROVE  LastOf(s, n) = c
<1>1. /\ LastOf(s, n) \in 0..Len(s)
      /\ \A i \in 1..Len(s) : i <= LastOf(s, n) <=> LineAt(s, i) <= n
  BY LastOfProps
<1>2. Len(s) \in Nat
  BY LenProperties
<1>3. \A i \in 1..Len(s) : i <= c <=> i <= LastOf(s, n)
  BY <1>1
<1> QED
  BY <1>1, <1>2, <1>3

LEMMA LastOfJoined ==
  ASSUME NEW s \in Seq(Bits), NEW t \in Seq(Bits), NEW n \in Int
  PROVE  LastOf(s \o t, n) = IF n <= Ended(s) THEN LastOf(s, n)
                             ELSE Len(s) + LastOf(t, n - Ended(s))
<1> DEFINE u == s \o t
           e == Ended(s)
           c == IF n <= e THEN LastOf(s, n) ELSE Len(s) + LastOf(t, n - e)
<1>1. /\ u \in Seq(Bits) /\ Len(u) = Len(s) + Len(t) /\ Len(s) \in Nat /\ Len(t) \in Nat
      /\ e \in Nat
  BY ConcatProperties, LenProperties, EndedIs
<1>2. /\ \A i \in 1..Len(s) : LineAt(u, i) = LineAt(s, i)
      /\ \A m \in 1..Len(t) : LineAt(u, Len(s) + m) = e + LineAt(t, m)
  BY <1>1, LineOfPart
<1>3. /\ LastOf(s, n) \in 0..Len(s)
      /\ \A i \in 1..Len(s) : i <= LastOf(s, n) <=> LineAt(s, i) <= n
      /\ LastOf(t, n - e) \in 0..Len(t)
      /\ \A m \in 1..Len(t) : m <= LastOf(t, n - e) <=> LineAt(t, m) <= n - e
  <2>1. n - e \in Int
    BY <1>1
  <2> QED
    BY <2>1, LastOfProps
<1>4. \A i \in 1..Len(s) : LineAt(s, i) \in Nat /\ LineAt(s, i) <= e + 1
  <2>1. LineAt(s, Len(s) + 1) = e + 1
    BY <1>1, LineGrows DEF Ended
  <2> QED
    BY <1>1, <2>1, LineGrows
<1>5. \A m \in 1..Len(t) : LineAt(t, m) \in Nat \ {0}
  BY <1>1, LineGrows
<1> HIDE DEF u, e
<1>6. c \in 0..Len(u)
  BY <1>1, <1>3
<1>7. ASSUME NEW i \in 1..Len(u)
      PROVE  i <= c <=> LineAt(u, i) <= n
  <2>1. CASE i <= Len(s)
    <3>1. i \in 1..Len(s)
      BY <1>1, <2>1
    <3>2. LineAt(u, i) = LineAt(s, i) /\ LineAt(s, i) \in Nat /\ LineAt(s, i) <= e + 1
          /\ (i <= LastOf(s, n) <=> LineAt(s, i) <= n)
      BY <1>2, <1>3, <1>4, <3>1
    <3> QED
      BY <1>1, <1>3, <3>1, <3>2
  <2>2. CASE ~(i <= Len(s))
    <3> DEFINE m == i - Len(s)
    <3>1. m \in 1..Len(t) /\ Len(s) + m = i
      BY <1>1, <2>2
    <3> HIDE DEF m
    <3>2. LineAt(u, i) = e + LineAt(t, m) /\ LineAt(t, m) \in Nat \ {0}
          /\ (m <= LastOf(t, n - e) <=> LineAt(t, m) <= n - e)
      BY <1>2, <1>3, <1>5, <3>1
    <3> QED
      BY <1>1, <1>3, <3>1, <3>2
  <2> QED
    BY <2>1, <2>2
<1> HIDE DEF c
<1>8. LastOf(u, n) = c
  BY <1>1, <1>6, <1>7, LastOfIs
<1> QED
  BY <1>8 DEF c, u, e

LEMMA PieceKept ==
  ASSUME NEW p \in Bits
  PROVE  Words(p) \in Bits
BY DEF Words, Bit, Bits

LEMMA LineOfProps ==
  ASSUME NEW s \in Seq(Bits), NEW n \in Int
  PROVE  /\ LineOf(s, n) \in Seq(Bits)
         /\ LastOf(s, n - 1) \in 0..Len(s) /\ LastOf(s, n) \in 0..Len(s)
         /\ LastOf(s, n - 1) <= LastOf(s, n) /\ Len(s) \in Nat
         /\ Len(LineOf(s, n)) = LastOf(s, n) - LastOf(s, n - 1)
         /\ \A m \in 1..Len(LineOf(s, n)) : LineOf(s, n)[m] = Words(s[LastOf(s, n - 1) + m])
<1> DEFINE a == LastOf(s, n - 1)
           b == LastOf(s, n)
<1>1. n - 1 \in Int /\ Len(s) \in Nat /\ \A i \in 1..Len(s) : s[i] \in Bits
  BY LenProperties, ElementOfSeq
<1>2. /\ a \in 0..Len(s) /\ \A i \in 1..Len(s) : i <= a <=> LineAt(s, i) <= n - 1
      /\ b \in 0..Len(s) /\ \A i \in 1..Len(s) : i <= b <=> LineAt(s, i) <= n
  BY <1>1, LastOfProps
<1>3. \A i \in 1..Len(s) : LineAt(s, i) \in Nat
  BY <1>1, LineGrows
<1>4. LineOf(s, n) = [m \in 1..(b - a) |-> Words(s[a + m])]
  BY DEF LineOf
<1> HIDE DEF a, b
<1>5. a <= b
  <2>1. CASE a = 0
    BY <1>1, <1>2, <2>1
  <2>2. CASE a # 0
    <3>1. a \in 1..Len(s)
      BY <1>1, <1>2, <2>2
    <3>2. LineAt(s, a) <= n - 1
      BY <1>1, <1>2, <3>1
    <3> QED
      BY <1>1, <1>2, <1>3, <3>1, <3>2
  <2> QED
    BY <2>1, <2>2
<1>6. \A m \in 1..(b - a) : Words(s[a + m]) \in Bits
  <2>1. \A m \in 1..(b - a) : a + m \in 1..Len(s)
    BY <1>1, <1>2
  <2> QED
    BY <1>1, <2>1, PieceKept
<1>7. b - a \in Nat
  BY <1>1, <1>2, <1>5
<1>8. LineOf(s, n) \in Seq(Bits) /\ Len(LineOf(s, n)) = b - a
  <2>1. LineOf(s, n) \in [1..(b - a) -> Bits]
    BY <1>4, <1>6
  <2> QED
    BY <1>7, <2>1, IsASeq, LenProperties
<1>9. \A m \in 1..Len(LineOf(s, n)) : LineOf(s, n)[m] = Words(s[a + m])
  BY <1>4, <1>8
<1> QED
  BY <1>1, <1>2, <1>5, <1>8, <1>9 DEF a, b

(* The first of a line, and what comes before a line that the text has not *)
(* got to.                                                                 *)
LEMMA LastOfEnds ==
  ASSUME NEW s \in Seq(Bits)
  PROVE  LastOf(s, 0) = 0 /\ LastOf(s, Ended(s) + 1) = Len(s)
<1>1. Len(s) \in Nat /\ Ended(s) \in Nat /\ Ended(s) + 1 = LineAt(s, Len(s) + 1)
  BY EndedIs, LineGrows DEF Ended
<1>2. \A i \in 1..Len(s) : LineAt(s, i) \in Nat \ {0} /\ LineAt(s, i) <= Ended(s) + 1
  BY <1>1, LineGrows
<1>3. \A i \in 1..Len(s) : i <= 0 <=> LineAt(s, i) <= 0
  BY <1>1, <1>2
<1>4. \A i \in 1..Len(s) : i <= Len(s) <=> LineAt(s, i) <= Ended(s) + 1
  BY <1>1, <1>2
<1>5. 0 \in 0..Len(s) /\ Len(s) \in 0..Len(s) /\ 0 \in Int /\ Ended(s) + 1 \in Int
  BY <1>1
<1> QED
  BY <1>3, <1>4, <1>5, LastOfIs

LEMMA LineOfJoined ==
  ASSUME NEW s \in Seq(Bits), NEW t \in Seq(Bits), NEW n \in Nat \ {0}
  PROVE  LineOf(s \o t, n) = IF n <= Ended(s) THEN LineOf(s, n)
                             ELSE IF n = Ended(s) + 1 THEN LineOf(s, n) \o LineOf(t, 1)
                             ELSE LineOf(t, n - Ended(s))
<1> DEFINE u == s \o t
           e == Ended(s)
<1>1. /\ u \in Seq(Bits) /\ Len(u) = Len(s) + Len(t) /\ Len(s) \in Nat /\ Len(t) \in Nat
      /\ \A i \in 1..(Len(s) + Len(t)) : u[i] = IF i <= Len(s) THEN s[i] ELSE t[i - Len(s)]
      /\ e \in Nat
  BY ConcatProperties, LenProperties, EndedIs
<1>2. n \in Int /\ n - 1 \in Int /\ n - e \in Int /\ (n - e) - 1 = (n - 1) - e
  BY <1>1
<1>3. /\ LastOf(u, n) = IF n <= e THEN LastOf(s, n) ELSE Len(s) + LastOf(t, n - e)
      /\ LastOf(u, n - 1) = IF n - 1 <= e THEN LastOf(s, n - 1)
                            ELSE Len(s) + LastOf(t, (n - e) - 1)
  BY <1>2, LastOfJoined
<1> DEFINE a == LastOf(u, n - 1)
           b == LastOf(u, n)
<1>4. /\ LineOf(u, n) \in Seq(Bits) /\ a \in 0..Len(u) /\ b \in 0..Len(u) /\ a <= b
      /\ Len(LineOf(u, n)) = b - a
      /\ \A m \in 1..Len(LineOf(u, n)) : LineOf(u, n)[m] = Words(u[a + m])
  BY <1>1, <1>2, LineOfProps
<1>5. /\ LineOf(s, n) \in Seq(Bits)
      /\ LastOf(s, n - 1) \in 0..Len(s) /\ LastOf(s, n) \in 0..Len(s)
      /\ LastOf(s, n - 1) <= LastOf(s, n)
      /\ Len(LineOf(s, n)) = LastOf(s, n) - LastOf(s, n - 1)
      /\ \A m \in 1..Len(LineOf(s, n)) : LineOf(s, n)[m] = Words(s[LastOf(s, n - 1) + m])
  BY <1>2, LineOfProps
<1> HIDE DEF a, b, u, e
<1>6. CASE n <= e
  <2>1. a = LastOf(s, n - 1) /\ b = LastOf(s, n)
    BY <1>1, <1>2, <1>3, <1>6 DEF a, b
  <2>2. \A m \in 1..(b - a) : u[a + m] = s[a + m]
    BY <1>1, <1>4, <1>5, <2>1, SMTT(30)
  <2>3. Len(LineOf(u, n)) = Len(LineOf(s, n))
        /\ \A m \in 1..Len(LineOf(u, n)) : LineOf(u, n)[m] = LineOf(s, n)[m]
    BY <1>4, <1>5, <2>1, <2>2
  <2> QED
    BY <1>4, <1>5, <1>6, <2>3, SeqEqual DEF u, e
<1>7. CASE n = e + 1
  <2>1. LastOf(s, n) = Len(s) /\ LastOf(t, 0) = 0
    BY <1>7, LastOfEnds DEF e
  <2>2. n - e = 1 /\ n - 1 = e
    BY <1>1, <1>7
  <2>3. a = LastOf(s, n - 1) /\ b = Len(s) + LastOf(t, 1)
    BY <1>1, <1>2, <1>3, <2>2 DEF a, b
  <2>4. /\ LineOf(t, 1) \in Seq(Bits) /\ LastOf(t, 1) \in 0..Len(t)
        /\ Len(LineOf(t, 1)) = LastOf(t, 1)
        /\ \A m \in 1..Len(LineOf(t, 1)) : LineOf(t, 1)[m] = Words(t[m])
    <3>1. 1 \in Int /\ 1 - 1 = 0
      OBVIOUS
    <3>2. /\ LineOf(t, 1) \in Seq(Bits) /\ LastOf(t, 1) \in 0..Len(t)
          /\ Len(LineOf(t, 1)) = LastOf(t, 1) - LastOf(t, 1 - 1)
          /\ \A m \in 1..Len(LineOf(t, 1)) : LineOf(t, 1)[m] = Words(t[LastOf(t, 1 - 1) + m])
      BY <3>1, LineOfProps
    <3> QED
      BY <1>1, <2>1, <3>1, <3>2
  <2> DEFINE l == LineOf(s, n)
             k == LineOf(t, 1)
  <2>5. /\ l \o k \in Seq(Bits) /\ Len(l \o k) = Len(l) + Len(k)
        /\ \A m \in 1..(Len(l) + Len(k)) : (l \o k)[m] = IF m <= Len(l) THEN l[m] ELSE k[m - Len(l)]
    BY <1>5, <2>4, ConcatProperties
  <2>6. Len(LineOf(u, n)) = Len(l) + Len(k) /\ Len(l) = Len(s) - a /\ Len(l) \in Nat
        /\ Len(k) \in Nat
    <3>1. Len(LineOf(u, n)) = b - a /\ Len(l) = Len(s) - a /\ Len(k) = LastOf(t, 1)
      BY <1>4, <1>5, <2>1, <2>3, <2>4
    <3>2. a \in Nat /\ a <= Len(s) /\ LastOf(t, 1) \in Nat /\ b = Len(s) + LastOf(t, 1)
      BY <1>1, <1>4, <1>5, <2>1, <2>3, <2>4
    <3> HIDE DEF l, k
    <3> QED
      BY <1>1, <3>1, <3>2
  <2>7. ASSUME NEW m \in 1..(Len(l) + Len(k))
        PROVE  LineOf(u, n)[m] = (l \o k)[m]
    <3>1. LineOf(u, n)[m] = Words(u[a + m])
      BY <1>4, <2>6
    <3>2. CASE m <= Len(l)
      <4>1. u[a + m] = s[a + m]
        BY <1>1, <1>4, <2>6, <3>2
      <4>2. l[m] = Words(s[a + m])
        BY <1>5, <2>3, <2>6, <3>2
      <4> QED
        BY <2>5, <3>1, <3>2, <4>1, <4>2
    <3>3. CASE ~(m <= Len(l))
      <4> DEFINE i == m - Len(l)
      <4>1. i \in 1..Len(k) /\ a + m = Len(s) + i
        BY <1>1, <1>4, <2>6, <3>3
      <4> HIDE DEF i
      <4>2. u[Len(s) + i] = t[i]
        <5>1. Len(s) + i \in 1..(Len(s) + Len(t)) /\ ~(Len(s) + i <= Len(s))
              /\ (Len(s) + i) - Len(s) = i
          BY <1>1, <2>4, <4>1
        <5> QED
          BY <1>1, <5>1
      <4>3. k[i] = Words(t[i])
        BY <2>4, <4>1
      <4> QED
        BY <2>5, <3>1, <3>3, <4>1, <4>2, <4>3 DEF i
    <3> QED
      BY <3>2, <3>3
  <2> HIDE DEF l, k
  <2>8. LineOf(u, n) = l \o k
    BY <1>4, <2>5, <2>6, <2>7, SeqEqual
  <2>9. ~(n <= e) /\ n = e + 1
    BY <1>1, <1>7
  <2> QED
    BY <2>8, <2>9, Zenon DEF l, k, u, e
<1>8. CASE n > e + 1
  <2> DEFINE j == n - e
  <2>1. a = Len(s) + LastOf(t, j - 1) /\ b = Len(s) + LastOf(t, j) /\ j \in Int
    BY <1>1, <1>2, <1>3, <1>8 DEF a, b
  <2> HIDE DEF j
  <2>2. /\ LineOf(t, j) \in Seq(Bits)
        /\ LastOf(t, j - 1) \in 0..Len(t) /\ LastOf(t, j) \in 0..Len(t)
        /\ Len(LineOf(t, j)) = LastOf(t, j) - LastOf(t, j - 1)
        /\ \A m \in 1..Len(LineOf(t, j)) : LineOf(t, j)[m] = Words(t[LastOf(t, j - 1) + m])
    BY <2>1, LineOfProps
  <2>3. Len(LineOf(u, n)) = Len(LineOf(t, j))
    <3>1. Len(LineOf(u, n)) = b - a /\ Len(LineOf(t, j)) = LastOf(t, j) - LastOf(t, j - 1)
      BY <1>4, <2>2
    <3>2. LastOf(t, j) \in Nat /\ LastOf(t, j - 1) \in Nat
      BY <1>1, <2>2
    <3> QED
      BY <1>1, <2>1, <3>1, <3>2
  <2>4. ASSUME NEW m \in 1..Len(LineOf(t, j))
        PROVE  LineOf(u, n)[m] = LineOf(t, j)[m]
    <3> DEFINE i == LastOf(t, j - 1) + m
    <3>1. i \in 1..Len(t) /\ a + m = Len(s) + i
      BY <1>1, <2>1, <2>2, SMTT(30)
    <3>2. LineOf(t, j)[m] = Words(t[i])
      BY <2>2
    <3> HIDE DEF i
    <3>3. u[Len(s) + i] = t[i]
      <4>1. Len(s) + i \in 1..(Len(s) + Len(t)) /\ ~(Len(s) + i <= Len(s))
            /\ (Len(s) + i) - Len(s) = i
        BY <1>1, <3>1
      <4> QED
        BY <1>1, <4>1
    <3>4. LineOf(u, n)[m] = Words(u[a + m])
      BY <1>4, <2>3
    <3> QED
      BY <3>1, <3>2, <3>3, <3>4
  <2>5. LineOf(u, n) = LineOf(t, j)
    BY <1>4, <2>2, <2>3, <2>4, SeqEqual
  <2> QED
    BY <1>1, <1>8, <2>5 DEF j, u, e
<1> QED
  BY <1>1, <1>6, <1>7, <1>8

(* What split("\n") yields of a text is what it yields of its parts, the   *)
(* line that goes over from one to the other put together.                 *)
LEMMA LinesProps ==
  ASSUME NEW s \in Seq(Bits)
  PROVE  /\ Lines(s) \in Seq(Seq(Bits))
         /\ Len(Lines(s)) = (IF s = <<>> THEN 0 ELSE LineAt(s, Len(s))) /\ Len(Lines(s)) \in Nat
         /\ \A n \in 1..Len(Lines(s)) : Lines(s)[n] = LineOf(s, n)
         /\ Lines(s) = <<>> <=> s = <<>>
<1> DEFINE c == IF s = <<>> THEN 0 ELSE LineAt(s, Len(s))
           ls == Lines(s)
<1>1. c \in Nat /\ (c = 0 <=> s = <<>>)
  <2>1. Len(s) \in Nat
    BY LenProperties
  <2>2. LineAt(s, Len(s)) \in Nat \ {0}
    BY <2>1, LineGrows
  <2> QED
    BY <2>2
<1>2. ls = [n \in 1..c |-> LineOf(s, n)]
  BY DEF Lines
<1> HIDE DEF c, ls
<1>3. \A n \in 1..c : LineOf(s, n) \in Seq(Bits)
  BY <1>1, LineOfProps
<1>4. ls \in Seq(Seq(Bits)) /\ Len(ls) = c
  <2>1. ls \in [1..c -> Seq(Bits)]
    BY <1>2, <1>3
  <2> QED
    BY <1>1, <2>1, IsASeq, LenProperties
<1>5. ls = <<>> <=> s = <<>>
  BY <1>1, <1>4, EmptySeq
<1> QED
  BY <1>1, <1>2, <1>4, <1>5 DEF c, ls

LEMMA LinesJoined ==
  ASSUME NEW s \in Seq(Bits), NEW t \in Seq(Bits), t # <<>>
  PROVE  Lines(s \o t) =
           IF s # <<>> /\ ~EndsLine(s[Len(s)])
           THEN [Lines(s) EXCEPT ![Len(Lines(s))] = @ \o Head(Lines(t))] \o Tail(Lines(t))
           ELSE Lines(s) \o Lines(t)
<1> DEFINE u == s \o t
           e == Ended(s)
           ls == Lines(s)
           lt == Lines(t)
           lu == Lines(u)
<1>1. /\ u \in Seq(Bits) /\ Len(u) = Len(s) + Len(t) /\ u # <<>>
      /\ Len(s) \in Nat /\ Len(t) \in Nat \ {0} /\ e \in Nat
  <2>1. u \in Seq(Bits) /\ Len(u) = Len(s) + Len(t) /\ Len(s) \in Nat /\ Len(t) \in Nat
    BY ConcatProperties, LenProperties
  <2>2. Len(t) # 0
    BY EmptySeq
  <2>3. Len(u) # 0
    BY <2>1, <2>2
  <2> HIDE DEF u
  <2>4. u # <<>>
    BY <2>1, <2>3, EmptySeq
  <2> QED
    BY <2>1, <2>2, <2>4, EndedIs
<1>2. /\ ls \in Seq(Seq(Bits)) /\ Len(ls) = (IF s = <<>> THEN 0 ELSE LineAt(s, Len(s)))
      /\ Len(ls) \in Nat /\ \A n \in 1..Len(ls) : ls[n] = LineOf(s, n)
      /\ (ls = <<>> <=> s = <<>>)
  BY LinesProps
<1>3. /\ lt \in Seq(Seq(Bits)) /\ lt # <<>> /\ Len(lt) \in Nat \ {0}
      /\ \A n \in 1..Len(lt) : lt[n] = LineOf(t, n)
  <2>1. /\ lt \in Seq(Seq(Bits)) /\ Len(lt) \in Nat /\ \A n \in 1..Len(lt) : lt[n] = LineOf(t, n)
        /\ lt # <<>>
    BY LinesProps
  <2> HIDE DEF lt
  <2> QED
    BY <2>1, EmptySeq
<1>4. /\ lu \in Seq(Seq(Bits)) /\ Len(lu) = e + Len(lt)
      /\ \A n \in 1..Len(lu) : lu[n] = LineOf(u, n)
  <2>1. lu \in Seq(Seq(Bits)) /\ Len(lu) = LineAt(u, Len(u))
        /\ \A n \in 1..Len(lu) : lu[n] = LineOf(u, n)
    BY <1>1, LinesProps
  <2>2. Len(lt) = LineAt(t, Len(t))
    BY LinesProps
  <2>3. LineAt(u, Len(s) + Len(t)) = e + LineAt(t, Len(t))
    <3>1. Len(t) \in 1..(Len(t) + 1)
      BY <1>1
    <3> QED
      BY <3>1, LineOfPart
  <2> QED
    BY <1>1, <2>1, <2>2, <2>3
<1>5. \A n \in 1..Len(lu) :
        LineOf(u, n) = IF n <= e THEN LineOf(s, n)
                       ELSE IF n = e + 1 THEN LineOf(s, n) \o LineOf(t, 1)
                       ELSE LineOf(t, n - e)
  <2>1. \A n \in 1..Len(lu) : n \in Nat \ {0}
    BY <1>1, <1>3, <1>4
  <2> QED
    BY <2>1, LineOfJoined
<1> HIDE DEF u, e, ls, lt, lu
<1>6. CASE s # <<>> /\ ~EndsLine(s[Len(s)])
  <2> DEFINE c == Len(ls)
             hd == [ls EXCEPT ![c] = @ \o Head(lt)]
             tl == Tail(lt)
  <2>1. c = e + 1 /\ c \in 1..Len(ls)
    <3>1. e = LineAt(s, Len(s)) - 1
      BY <1>6, EndedIs DEF e
    <3> QED
      BY <1>1, <1>2, <1>6, <3>1
  <2>2. Head(lt) = LineOf(t, 1) /\ Head(lt) \in Seq(Bits)
        /\ tl \in Seq(Seq(Bits)) /\ Len(tl) = Len(lt) - 1
        /\ \A n \in 1..Len(tl) : tl[n] = lt[n + 1]
    BY <1>3, HeadTailProperties
  <2>3. ls[c] = LineOf(s, c) /\ ls[c] \in Seq(Bits)
    BY <1>2, <2>1, ElementOfSeq
  <2>4. ls[c] \o Head(lt) \in Seq(Bits)
    BY <2>2, <2>3, ConcatProperties
  <2>5. hd \in Seq(Seq(Bits)) /\ Len(hd) = c
        /\ \A n \in 1..c : hd[n] = IF n = c THEN ls[c] \o Head(lt) ELSE ls[n]
    <3>1. DOMAIN ls = 1..c
      BY <1>2, LenProperties
    <3>2. hd \in Seq(Seq(Bits)) /\ Len(hd) = c
      BY <1>2, <2>1, <2>4, ExceptSeq
    <3> QED
      BY <3>1, <3>2
  <2> HIDE DEF hd, tl
  <2>6. /\ hd \o tl \in Seq(Seq(Bits)) /\ Len(hd \o tl) = Len(hd) + Len(tl)
        /\ \A n \in 1..(Len(hd) + Len(tl)) : (hd \o tl)[n]
                = IF n <= Len(hd) THEN hd[n] ELSE tl[n - Len(hd)]
    <3>1. hd \in Seq(Seq(Bits)) /\ tl \in Seq(Seq(Bits))
      BY <2>2, <2>5
    <3> QED
      BY <3>1, ConcatProperties, Zenon
  <2>7. Len(lu) = Len(hd \o tl) /\ Len(lu) = Len(hd) + Len(tl) /\ Len(hd) = e + 1
    BY <1>1, <1>3, <1>4, <2>1, <2>2, <2>5, <2>6
  <2>8. ASSUME NEW n \in 1..Len(lu)
        PROVE  lu[n] = (hd \o tl)[n]
    <3>1. lu[n] = LineOf(u, n)
      BY <1>4
    <3>2. CASE n <= e
      <4>1. LineOf(u, n) = LineOf(s, n) /\ n \in 1..Len(ls) /\ n # c /\ n <= Len(hd)
        BY <1>1, <1>3, <1>4, <1>5, <2>1, <2>5, <3>2
      <4> QED
        BY <1>2, <2>5, <2>6, <2>7, <3>1, <4>1
    <3>3. CASE n = e + 1
      <4>1. LineOf(u, n) = LineOf(s, n) \o LineOf(t, 1) /\ n = c /\ n \in 1..c /\ n <= Len(hd)
        <5>1. ~(n <= e) /\ n = c /\ n \in 1..c /\ n <= c
          BY <1>1, <1>2, <2>1, <3>3
        <5>2. LineOf(u, n) = LineOf(s, n) \o LineOf(t, 1)
          BY <1>5, <3>3, <5>1, Zenon
        <5> QED
          BY <2>5, <5>1, <5>2
      <4> QED
        BY <2>2, <2>3, <2>5, <2>6, <2>7, <3>1, <4>1
    <3>4. CASE n > e + 1
      <4> DEFINE j == n - e
      <4>1. /\ j \in 1..Len(lt) /\ j - 1 \in 1..Len(tl) /\ n - Len(hd) = j - 1 /\ (j - 1) + 1 = j
            /\ ~(n <= Len(hd)) /\ ~(n <= e) /\ n # e + 1
        BY <1>1, <1>3, <1>4, <2>1, <2>2, <2>5, <3>4
      <4>2. LineOf(u, n) = LineOf(t, j)
        BY <1>5, <4>1
      <4> HIDE DEF j
      <4>3. tl[j - 1] = lt[j] /\ lt[j] = LineOf(t, j)
        BY <1>3, <2>2, <4>1
      <4> QED
        BY <2>6, <2>7, <3>1, <4>1, <4>2, <4>3
    <3>5. n <= e \/ n = e + 1 \/ n > e + 1
      BY <1>1, <1>3, <1>4
    <3> QED
      BY <3>2, <3>3, <3>4, <3>5
  <2>9. lu = hd \o tl
    BY <1>4, <2>6, <2>7, <2>8, SeqEqual
  <2> QED
    BY <1>6, <2>9, Zenon DEF hd, tl, ls, lt, lu, u
<1>7. CASE ~(s # <<>> /\ ~EndsLine(s[Len(s)]))
  <2>1. Len(ls) = e
    BY <1>1, <1>2, <1>7, EndedIs DEF e
  <2>2. LineOf(s, e + 1) = <<>>
    <3>1. LastOf(s, e + 1) = Len(s)
      BY LastOfEnds DEF e
    <3>2. LastOf(s, e) = Len(s)
      <4>1. \A i \in 1..Len(s) : i <= Len(s) <=> LineAt(s, i) <= e
        <5>1. ASSUME NEW i \in 1..Len(s)
              PROVE  LineAt(s, i) <= e
          <6>1. s # <<>> /\ e = LineAt(s, Len(s))
            BY <1>1, <1>2, <1>7, <2>1
          <6> QED
            BY <1>1, <6>1, LineGrows
        <5> QED
          BY <1>1, <5>1
      <4>2. Len(s) \in 0..Len(s) /\ e \in Int
        BY <1>1
      <4> QED
        BY <4>1, <4>2, LastOfIs
    <3>3. e + 1 \in Int /\ (e + 1) - 1 = e
      BY <1>1
    <3>4. LineOf(s, e + 1) \in Seq(Bits) /\ Len(LineOf(s, e + 1)) = Len(s) - Len(s)
      <4>1. /\ LineOf(s, e + 1) \in Seq(Bits)
            /\ Len(LineOf(s, e + 1)) = LastOf(s, e + 1) - LastOf(s, (e + 1) - 1)
        BY <3>3, LineOfProps
      <4> QED
        BY <3>1, <3>2, <3>3, <4>1
    <3> QED
      BY <1>1, <3>4, EmptySeq
  <2>3. /\ ls \o lt \in Seq(Seq(Bits)) /\ Len(ls \o lt) = Len(ls) + Len(lt)
        /\ \A n \in 1..(Len(ls) + Len(lt)) : (ls \o lt)[n]
                = IF n <= Len(ls) THEN ls[n] ELSE lt[n - Len(ls)]
    <3>1. ls \in Seq(Seq(Bits)) /\ lt \in Seq(Seq(Bits))
      BY <1>2, <1>3
    <3> QED
      BY <3>1, ConcatProperties, Zenon
  <2>4. ASSUME NEW n \in 1..Len(lu)
        PROVE  lu[n] = (ls \o lt)[n]
    <3>1. lu[n] = LineOf(u, n) /\ n \in 1..(Len(ls) + Len(lt))
      BY <1>4, <2>1
    <3>2. CASE n <= e
      BY <1>1, <1>2, <1>5, <2>1, <2>3, <3>1, <3>2
    <3>3. CASE ~(n <= e)
      <4> DEFINE j == n - e
      <4>1. j \in 1..Len(lt) /\ n - Len(ls) = j /\ (n = e + 1 => j = 1)
        BY <1>1, <1>3, <1>4, <2>1, <3>3
      <4>2. LineOf(u, n) = LineOf(t, j)
        <5>1. CASE n = e + 1
          <6>1. LineOf(u, n) = LineOf(s, n) \o LineOf(t, 1)
            BY <1>5, <3>3, <5>1
          <6>2. LineOf(t, 1) \in Seq(Bits)
            BY LineOfProps
          <6>3. <<>> \o LineOf(t, 1) = LineOf(t, 1)
            BY <6>2, ConcatEmptySeq
          <6> QED
            BY <2>2, <4>1, <5>1, <6>1, <6>3
        <5>2. CASE n # e + 1
          BY <1>5, <3>3, <5>2
        <5> QED
          BY <5>1, <5>2
      <4> HIDE DEF j
      <4>3. lt[j] = LineOf(t, j)
        BY <1>3, <4>1
      <4> QED
        BY <2>1, <2>3, <3>1, <3>3, <4>1, <4>2, <4>3
    <3> QED
      BY <3>2, <3>3
  <2>5. lu = ls \o lt
    BY <1>4, <2>1, <2>3, <2>4, SeqEqual
  <2> QED
    BY <1>7, <2>5, Zenon DEF ls, lt, lu, u
<1> QED
  BY <1>6, <1>7

(* What strip() leaves.                                                    *)
LEMMA StripTypes ==
  ASSUME NEW line \in Seq(Bits)
  PROVE  Strip(line) \in Seq(Bits)
<1> DEFINE F == {i \in DOMAIN line : IsBlank(SubSeq(line, 1, i))}
           B == {i \in DOMAIN line : IsBlank(SubSeq(line, i, Len(line)))}
           a == Cardinality(F)
           b == Cardinality(B)
<1>1. Len(line) \in Nat /\ DOMAIN line = 1..Len(line) /\ \A i \in 1..Len(line) : line[i] \in Bits
  BY LenProperties, ElementOfSeq
<1>2. IsFiniteSet(1..Len(line))
  BY <1>1, FS_Interval
<1>3. F \in SUBSET (1..Len(line)) /\ B \in SUBSET (1..Len(line))
  BY <1>1
<1>4. Strip(line) = SubSeq(line, a + 1, Len(line) - b)
  BY DEF Strip
<1> HIDE DEF F, B
<1>5. a \in Nat /\ b \in Nat
  BY <1>2, <1>3, FS_Subset, FS_CardinalityType
<1> HIDE DEF a, b
<1>6. a + 1 \in Int /\ Len(line) - b \in Int /\ \A i \in (a + 1)..(Len(line) - b) : line[i] \in Bits
  BY <1>1, <1>5
<1> QED
  BY <1>4, <1>6, SubSeqProperties

LEMMA StrippedProps ==
  ASSUME NEW ls \in Seq(Seq(Bits))
  PROVE  /\ Stripped(ls) \in Seq(Seq(Bits))
         /\ Len(Stripped(ls)) = (IF EndsBlank(ls) THEN Len(ls) - 1 ELSE Len(ls))
         /\ Len(ls) \in Nat /\ (EndsBlank(ls) => Len(ls) \in Nat \ {0})
         /\ DOMAIN Stripped(ls) = 1..Len(Stripped(ls))
         /\ \A n \in 1..Len(Stripped(ls)) : Stripped(ls)[n] = Strip(ls[n])
<1> DEFINE c == IF EndsBlank(ls) THEN Len(ls) - 1 ELSE Len(ls)
           ks == Stripped(ls)
<1>1. Len(ls) \in Nat /\ (EndsBlank(ls) => Len(ls) \in Nat \ {0})
  BY LenProperties, EmptySeq DEF EndsBlank
<1>2. c \in Nat /\ c <= Len(ls)
  BY <1>1
<1>3. ks = [n \in 1..c |-> Strip(ls[n])]
  BY DEF Stripped
<1> HIDE DEF c, ks
<1>4. \A n \in 1..c : Strip(ls[n]) \in Seq(Bits)
  <2>1. \A n \in 1..c : n \in 1..Len(ls)
    BY <1>1, <1>2
  <2> QED
    BY <2>1, ElementOfSeq, StripTypes
<1>5. ks \in Seq(Seq(Bits)) /\ Len(ks) = c /\ DOMAIN ks = 1..c
  <2>1. ks \in [1..c -> Seq(Bits)]
    BY <1>3, <1>4
  <2> QED
    BY <1>2, <1>3, <2>1, IsASeq, LenProperties
<1> QED
  BY <1>1, <1>3, <1>5 DEF c, ks

LEMMA UnstrippedTypes ==
  ASSUME NEW t \in Seq(Bits), t # <<>>
  PROVE  Unstripped(t) \in Seq(Bits)
<1>1. Head(Lines(t)) \in Seq(Bits)
  <2>1. Lines(t) \in Seq(Seq(Bits)) /\ Lines(t) # <<>>
    BY LinesProps
  <2> QED
    BY <2>1, HeadTailProperties
<1>2. <<>> \in Seq(Bits) /\ <<Bit("cr", 0)>> \in Seq(Bits)
  BY EmptySeq DEF Bit, Bits
<1> QED
  BY <1>1, <1>2, ConcatProperties DEF Unstripped

(* A text of which the last line is blank does not end a line.             *)
LEMMA BlankEnd ==
  ASSUME NEW s \in Seq(Bits), s # <<>>, EndsBlank(Lines(s))
  PROVE  ~EndsLine(s[Len(s)])
<1> DEFINE c == Len(Lines(s))
           a == LastOf(s, c - 1)
           p == s[Len(s)]
<1>1. Len(s) \in Nat \ {0} /\ Len(s) \in 1..Len(s)
  <2>1. Len(s) \in Nat \ {0}
    BY EmptySeq
  <2> QED
    BY <2>1
<1>2. c = LineAt(s, Len(s)) /\ c \in Nat \ {0} /\ c \in 1..c /\ Lines(s)[c] = LineOf(s, c)
  <2>1. c = LineAt(s, Len(s)) /\ \A n \in 1..c : Lines(s)[n] = LineOf(s, n)
    BY LinesProps
  <2>2. LineAt(s, Len(s)) \in Nat \ {0}
    BY <1>1, LineGrows
  <2> HIDE DEF c
  <2>3. c \in Nat \ {0} /\ c \in 1..c
    BY <2>1, <2>2
  <2> QED
    BY <2>1, <2>3
<1> HIDE DEF c
<1>3. LastOf(s, c) = Len(s)
  <2>1. \A i \in 1..Len(s) : LineAt(s, i) <= c
    BY <1>1, <1>2, LineGrows
  <2>2. \A i \in 1..Len(s) : i <= Len(s) <=> LineAt(s, i) <= c
    BY <1>1, <2>1
  <2>3. c \in Int /\ Len(s) \in 0..Len(s)
    BY <1>1, <1>2
  <2> QED
    BY <2>2, <2>3, LastOfIs
<1>4. a \in Nat /\ a < Len(s)
  <2>1. a \in 0..Len(s) /\ (Len(s) <= a <=> LineAt(s, Len(s)) <= c - 1)
    BY <1>1, <1>2, LastOfProps
  <2> QED
    BY <1>1, <1>2, <2>1
<1>5. LineOf(s, c) \in Seq(Bits) /\ Len(LineOf(s, c)) = Len(s) - a
      /\ \A m \in 1..Len(LineOf(s, c)) : LineOf(s, c)[m] = Words(s[a + m])
  <2>1. c \in Int
    BY <1>2
  <2>2. /\ LineOf(s, c) \in Seq(Bits) /\ Len(LineOf(s, c)) = LastOf(s, c) - LastOf(s, c - 1)
        /\ \A m \in 1..Len(LineOf(s, c)) : LineOf(s, c)[m] = Words(s[LastOf(s, c - 1) + m])
    BY <2>1, LineOfProps
  <2> QED
    BY <1>3, <2>2
<1> HIDE DEF a
<1>6. Len(s) - a \in 1..Len(LineOf(s, c)) /\ a + (Len(s) - a) = Len(s)
  BY <1>1, <1>4, <1>5
<1>7. LineOf(s, c)[Len(s) - a] = Words(p) /\ Len(s) - a \in DOMAIN LineOf(s, c)
  BY <1>5, <1>6, LenProperties
<1>8. Words(p).kind = "blank"
  <2>1. IsBlank(LineOf(s, c))
    BY <1>2 DEF EndsBlank, c
  <2> QED
    BY <1>7, <2>1 DEF IsBlank
<1> QED
  BY <1>8 DEF Words, Bit, EndsLine, p

LEMMA BlankJoined ==
  ASSUME NEW l \in Seq(Bits), NEW m \in Seq(Bits)
  PROVE  IsBlank(l \o m) <=> IsBlank(l) /\ IsBlank(m)
<1> DEFINE lm == l \o m
<1>1. /\ Len(lm) = Len(l) + Len(m)
      /\ \A i \in 1..(Len(l) + Len(m)) : lm[i] = IF i <= Len(l) THEN l[i] ELSE m[i - Len(l)]
      /\ DOMAIN lm = 1..Len(lm) /\ DOMAIN l = 1..Len(l) /\ DOMAIN m = 1..Len(m)
      /\ Len(l) \in Nat /\ Len(m) \in Nat
  <2>1. lm \in Seq(Bits)
    BY ConcatProperties
  <2> QED
    BY <2>1, ConcatProperties, LenProperties
<1> HIDE DEF lm
<1>2. \A i \in 1..Len(l) : i \in 1..Len(lm) /\ lm[i] = l[i]
  BY <1>1
<1>3. \A i \in 1..Len(m) : Len(l) + i \in 1..Len(lm) /\ lm[Len(l) + i] = m[i]
  BY <1>1
<1>4. \A i \in 1..Len(lm) : i \in 1..Len(l) \/ \E j \in 1..Len(m) : i = Len(l) + j
  <2>1. ASSUME NEW i \in 1..Len(lm), i \notin 1..Len(l)
        PROVE  \E j \in 1..Len(m) : i = Len(l) + j
    <3>1. i - Len(l) \in 1..Len(m) /\ i = Len(l) + (i - Len(l))
      BY <1>1, <2>1
    <3> QED
      BY <3>1
  <2> QED
    BY <2>1
<1>5. IsBlank(lm) <=> \A i \in 1..Len(lm) : lm[i].kind = "blank"
  BY <1>1 DEF IsBlank
<1>6. /\ IsBlank(l) <=> \A i \in 1..Len(l) : l[i].kind = "blank"
      /\ IsBlank(m) <=> \A i \in 1..Len(m) : m[i].kind = "blank"
  BY <1>1 DEF IsBlank
<1>7. IsBlank(lm) => IsBlank(l) /\ IsBlank(m)
  BY <1>2, <1>3, <1>5, <1>6
<1>8. ASSUME IsBlank(l), IsBlank(m), NEW i \in 1..Len(lm)
      PROVE  lm[i].kind = "blank"
  <2>1. CASE i \in 1..Len(l)
    BY <1>2, <1>6, <1>8, <2>1
  <2>2. CASE i \notin 1..Len(l)
    <3>1. PICK j \in 1..Len(m) : i = Len(l) + j
      BY <1>4, <1>8, <2>2
    <3>2. lm[i] = m[j] /\ m[j].kind = "blank"
      BY <1>3, <1>6, <1>8, <3>1
    <3> QED
      BY <3>2
  <2> QED
    BY <2>1, <2>2
<1> QED
  BY <1>5, <1>7, <1>8 DEF lm

(* The lines kept of a text and of what the next read adds to it.          *)
LinesKept(s, lines, odd) ==
  LET kept == Stripped(Lines(s))
  IN  Len(lines) = Len(kept) /\ \A n \in (DOMAIN kept) \ odd : lines[n] = kept[n]
Half(s) == s # <<>> /\ ~EndsLine(s[Len(s)])

LEMMA RecentJoined ==
  ASSUME NEW s \in Seq(Bits), NEW t \in Seq(Bits), t # <<>>, recentLines \in Seq(Seq(Bits)),
         NEW odd, NEW even, odd \subseteq even, Half(s) => Len(Lines(s)) \in even,
         LinesKept(s, recentLines, odd), ~(Continues(s) /\ EndsBlank(Lines(s)))
  PROVE  LinesKept(s \o t, Recent(s, t), even)
<1> DEFINE ls == Lines(s)
           lt == Lines(t)
           u  == s \o t
           lu == Lines(u)
           k  == Len(ls)
           ss == Stripped(ls)
           su == Stripped(lu)
           r  == Recent(s, t)
<1>1. /\ u \in Seq(Bits) /\ ls \in Seq(Seq(Bits)) /\ lt \in Seq(Seq(Bits)) /\ lu \in Seq(Seq(Bits))
      /\ lt # <<>> /\ (ls = <<>> <=> s = <<>>)
  BY ConcatProperties, LinesProps
<1>2. k \in Nat /\ Len(lt) \in Nat \ {0} /\ (s # <<>> => k \in Nat \ {0})
  <2> HIDE DEF ls, lt
  <2> QED
    BY <1>1, LenProperties, EmptySeq
<1>3. lu = IF Half(s) THEN [ls EXCEPT ![k] = @ \o Head(lt)] \o Tail(lt) ELSE ls \o lt
  BY LinesJoined DEF Half
<1>4. /\ ss \in Seq(Seq(Bits)) /\ Len(ss) = (IF EndsBlank(ls) THEN k - 1 ELSE k)
      /\ \A n \in 1..Len(ss) : ss[n] = Strip(ls[n])
      /\ Len(recentLines) = Len(ss) /\ \A n \in (1..Len(ss)) \ odd : recentLines[n] = ss[n]
  <2>1. ss \in Seq(Seq(Bits)) /\ Len(ss) = (IF EndsBlank(ls) THEN k - 1 ELSE k)
        /\ DOMAIN ss = 1..Len(ss) /\ \A n \in 1..Len(ss) : ss[n] = Strip(ls[n])
    BY <1>1, StrippedProps
  <2>2. Len(recentLines) = Len(ss) /\ \A n \in (DOMAIN ss) \ odd : recentLines[n] = ss[n]
    BY DEF LinesKept
  <2> QED
    BY <2>1, <2>2
<1>5. /\ su \in Seq(Seq(Bits)) /\ Len(su) = (IF EndsBlank(lu) THEN Len(lu) - 1 ELSE Len(lu))
      /\ DOMAIN su = 1..Len(su) /\ \A n \in 1..Len(su) : su[n] = Strip(lu[n])
      /\ Len(lu) \in Nat
  BY <1>1, StrippedProps
<1>6. SUFFICES Len(r) = Len(su) /\ \A n \in (1..Len(su)) \ even : r[n] = su[n]
  BY <1>5 DEF LinesKept
<1>7. \A x : EndsBlank(x) \in BOOLEAN /\ (x # <<>> => EndsBlank(x) = IsBlank(x[Len(x)]))
  BY DEF EndsBlank, IsBlank
<1>8. recentLines = <<>> <=> Len(ss) = 0
  BY <1>4, EmptySeq
<1>9. CASE ~Half(s)
  <2> DEFINE st == Stripped(lt)
  <2>1. lu = ls \o lt
    BY <1>3, <1>9
  <2>2. ~EndsBlank(ls) /\ Len(ss) = k
    <3>1. ~EndsBlank(ls)
      BY <1>1, <1>9, BlankEnd DEF Half, EndsBlank
    <3> QED
      BY <1>4, <3>1
  <2>3. r = recentLines \o st
    <3>1. ~Continues(s)
      <4>1. recentLines # <<>> => s # <<>>
        BY <1>1, <1>8, <2>2
      <4> QED
        BY <1>9, <4>1 DEF Continues, Half
    <3> QED
      BY <3>1 DEF Recent
  <2>4. /\ Len(lu) = k + Len(lt)
        /\ \A n \in 1..(k + Len(lt)) : lu[n] = IF n <= k THEN ls[n] ELSE lt[n - k]
    <3> HIDE DEF ls, lt
    <3> QED
      BY <1>1, <2>1, ConcatProperties
  <2>5. /\ st \in Seq(Seq(Bits)) /\ Len(st) = (IF EndsBlank(lt) THEN Len(lt) - 1 ELSE Len(lt))
        /\ \A n \in 1..Len(st) : st[n] = Strip(lt[n])
    BY <1>1, StrippedProps
  <2>6. /\ Len(r) = Len(recentLines) + Len(st)
        /\ \A n \in 1..(Len(recentLines) + Len(st)) :
             r[n] = IF n <= Len(recentLines) THEN recentLines[n] ELSE st[n - Len(recentLines)]
    <3> HIDE DEF r, st
    <3>1. recentLines \in Seq(Seq(Bits)) /\ st \in Seq(Seq(Bits))
      BY <2>5
    <3>2. /\ Len(recentLines \o st) = Len(recentLines) + Len(st)
         /\ \A n \in 1..(Len(recentLines) + Len(st)) :
              (recentLines \o st)[n] = IF n <= Len(recentLines) THEN recentLines[n] ELSE st[n - Len(recentLines)]
      BY <3>1, ConcatProperties, Zenon
    <3> QED
      BY <2>3, <3>2
  <2> HIDE DEF ls, lt, lu, k, ss, su, r, st
  <2>7. EndsBlank(lu) = EndsBlank(lt)
    <3>1. lu # <<>> /\ Len(lu) \in 1..(k + Len(lt)) /\ ~(Len(lu) <= k) /\ Len(lu) - k = Len(lt)
      <4>1. Len(lu) \in 1..(k + Len(lt)) /\ ~(Len(lu) <= k) /\ Len(lu) - k = Len(lt) /\ Len(lu) # 0
        BY <1>2, <2>4
      <4> QED
        BY <1>1, <4>1, EmptySeq
    <3>2. lu[Len(lu)] = lt[Len(lt)]
      BY <2>4, <3>1
    <3> QED
      BY <1>1, <1>7, <3>1, <3>2
  <2>8. Len(r) = Len(su) /\ Len(su) = k + Len(st) /\ Len(recentLines) = k /\ Len(st) \in Nat
        /\ Len(st) <= Len(lt)
    BY <1>2, <1>4, <1>5, <2>2, <2>4, <2>5, <2>6, <2>7
  <2>9. ASSUME NEW n \in (1..Len(su)) \ even
        PROVE  r[n] = su[n]
    <3>1. su[n] = Strip(lu[n]) /\ n \in 1..(k + Len(st)) /\ n \notin odd
      BY <1>5, <2>8
    <3>2. CASE n <= k
      <4>1. n \in 1..k /\ n \in 1..(k + Len(lt))
        BY <1>2, <2>8, <3>1, <3>2
      <4>2. r[n] = recentLines[n] /\ recentLines[n] = ss[n] /\ ss[n] = Strip(ls[n])
        BY <1>4, <2>2, <2>6, <2>8, <3>1, <3>2, <4>1
      <4> QED
        BY <2>4, <3>1, <3>2, <4>1, <4>2
    <3>3. CASE ~(n <= k)
      <4>1. n - k \in 1..Len(st) /\ n \in 1..(k + Len(lt))
        BY <1>2, <2>8, <3>1, <3>3
      <4>2. r[n] = st[n - k] /\ st[n - k] = Strip(lt[n - k])
        BY <2>5, <2>6, <2>8, <3>1, <3>3, <4>1
      <4> QED
        BY <2>4, <3>1, <3>3, <4>1, <4>2
    <3> QED
      BY <3>2, <3>3
  <2> QED
    BY <2>8, <2>9
<1>10. CASE Half(s)
  <2> DEFINE hd == [ls EXCEPT ![k] = @ \o Head(lt)]
             tl == Tail(lt)
             st == Stripped(tl)
  <2>1. s # <<>> /\ k \in Nat \ {0} /\ k \in 1..k /\ k \in even
    BY <1>2, <1>10 DEF Half
  <2>2. /\ Head(lt) = lt[1] /\ Head(lt) \in Seq(Bits) /\ tl \in Seq(Seq(Bits))
        /\ Len(tl) = Len(lt) - 1 /\ \A n \in 1..Len(tl) : tl[n] = lt[n + 1]
    <3> HIDE DEF lt
    <3> QED
      BY <1>1, HeadTailProperties
  <2>3. ls[k] \in Seq(Bits) /\ ls[k] \o Head(lt) \in Seq(Bits)
    BY <1>1, <2>1, <2>2, ElementOfSeq, ConcatProperties
  <2>4. hd \in Seq(Seq(Bits)) /\ Len(hd) = k
        /\ \A n \in 1..k : hd[n] = IF n = k THEN ls[k] \o Head(lt) ELSE ls[n]
    <3>1. DOMAIN ls = 1..k
      BY <1>1, LenProperties
    <3>2. hd \in Seq(Seq(Bits)) /\ Len(hd) = k
      BY <1>1, <2>1, <2>3, ExceptSeq
    <3> QED
      BY <3>1, <3>2
  <2>5. /\ Len(lu) = k + Len(tl)
        /\ \A n \in 1..(k + Len(tl)) : lu[n] = IF n <= k THEN hd[n] ELSE tl[n - k]
    <3>3. lu = hd \o tl
      BY <1>3, <1>10
    <3> HIDE DEF hd, tl
    <3>1. hd \in Seq(Seq(Bits)) /\ tl \in Seq(Seq(Bits))
      BY <2>2, <2>4
    <3>2. /\ Len(hd \o tl) = Len(hd) + Len(tl)
         /\ \A n \in 1..(Len(hd) + Len(tl)) :
              (hd \o tl)[n] = IF n <= Len(hd) THEN hd[n] ELSE tl[n - Len(hd)]
      BY <3>1, ConcatProperties, Zenon
    <3> QED
      BY <2>4, <3>2, <3>3
  <2>6. CASE Continues(s)
    <3> DEFINE m == Unstripped(t)
               hr == [recentLines EXCEPT ![Len(recentLines)] = @ \o m]
    <3>1. ~EndsBlank(ls) /\ Len(ss) = k /\ Len(recentLines) = k
      BY <1>4, <2>6
    <3>2. r = hr \o st
      BY <2>6 DEF Recent
    <3>3. recentLines[k] \o m \in Seq(Bits)
      <4>1. recentLines[k] \in Seq(Bits) /\ m \in Seq(Bits)
        BY <2>1, <3>1, ElementOfSeq, UnstrippedTypes
      <4> QED
        BY <4>1, ConcatProperties
    <3>4. hr \in Seq(Seq(Bits)) /\ Len(hr) = k
          /\ \A n \in (1..k) \ {k} : hr[n] = recentLines[n]
      <4>1. hr = [recentLines EXCEPT ![k] = recentLines[k] \o m]
        BY <2>1, <3>1, LenProperties
      <4> HIDE DEF hr, m
      <4> QED
        BY <2>1, <3>1, <3>3, <4>1, ExceptSeq
    <3>5. /\ st \in Seq(Seq(Bits)) /\ Len(st) = (IF EndsBlank(tl) THEN Len(tl) - 1 ELSE Len(tl))
          /\ \A n \in 1..Len(st) : st[n] = Strip(tl[n])
          /\ (EndsBlank(tl) => Len(tl) \in Nat \ {0}) /\ Len(tl) \in Nat
      BY <2>2, StrippedProps
    <3>6. /\ Len(r) = k + Len(st)
          /\ \A n \in 1..(k + Len(st)) : r[n] = IF n <= k THEN hr[n] ELSE st[n - k]
      <4> HIDE DEF r, hr, st
      <4>1. hr \in Seq(Seq(Bits)) /\ st \in Seq(Seq(Bits))
        BY <3>4, <3>5
      <4>2. /\ Len(hr \o st) = Len(hr) + Len(st)
           /\ \A n \in 1..(Len(hr) + Len(st)) :
                (hr \o st)[n] = IF n <= Len(hr) THEN hr[n] ELSE st[n - Len(hr)]
        BY <4>1, ConcatProperties, Zenon
      <4> QED
        BY <3>2, <3>4, <4>2
    <3> HIDE DEF ls, lt, lu, k, ss, su, r, st, hd, tl, hr, m
    <3>7. lu # <<>>
      <4>1. Len(lu) # 0
        BY <2>1, <2>5, <3>5
      <4> QED
        BY <1>1, <4>1, EmptySeq
    <3>8. EndsBlank(lu) = EndsBlank(tl)
      <4>1. CASE Len(tl) = 0
        <5>1. tl = <<>> /\ ~EndsBlank(tl)
          BY <2>2, <3>5, <4>1, EmptySeq
        <5>2. Len(lu) = k /\ lu[k] = ls[k] \o Head(lt)
          <6>1. k \in 1..(k + Len(tl)) /\ k <= k /\ k + Len(tl) = k
            BY <2>1, <4>1
          <6> QED
            BY <2>1, <2>4, <2>5, <6>1
        <5>3. ~IsBlank(ls[k])
          BY <1>1, <2>1, <3>1 DEF EndsBlank, k
        <5>4. ~IsBlank(lu[k])
          BY <2>2, <2>3, <5>2, <5>3, BlankJoined
        <5> QED
          BY <1>7, <5>1, <5>2, <5>4 DEF EndsBlank
      <4>2. CASE Len(tl) # 0
        <5>1. tl # <<>> /\ Len(lu) \in 1..(k + Len(tl)) /\ ~(Len(lu) <= k) /\ Len(lu) - k = Len(tl)
          <6>1. Len(lu) \in 1..(k + Len(tl)) /\ ~(Len(lu) <= k) /\ Len(lu) - k = Len(tl)
            BY <2>1, <2>5, <3>5, <4>2
          <6> QED
            BY <2>2, <4>2, <6>1, EmptySeq
        <5>2. lu[Len(lu)] = tl[Len(tl)]
          BY <2>5, <5>1
        <5> QED
          BY <1>1, <1>7, <2>2, <3>7, <5>1, <5>2
      <4> QED
        BY <4>1, <4>2
    <3>9. Len(r) = Len(su) /\ Len(su) = k + Len(st) /\ Len(st) \in Nat /\ Len(st) <= Len(tl)
      BY <1>5, <2>1, <2>5, <3>5, <3>6, <3>8
    <3>10. ASSUME NEW n \in (1..Len(su)) \ even
           PROVE  r[n] = su[n]
      <4>1. su[n] = Strip(lu[n]) /\ n \in 1..(k + Len(st)) /\ n \notin odd /\ n # k
        BY <1>5, <2>1, <3>9
      <4>2. CASE n <= k
        <5>1. n \in (1..k) \ {k} /\ n \in 1..(k + Len(tl))
          BY <2>1, <3>5, <3>9, <4>1, <4>2
        <5>2. r[n] = recentLines[n] /\ recentLines[n] = ss[n] /\ ss[n] = Strip(ls[n])
          BY <1>4, <3>1, <3>4, <3>6, <4>1, <4>2, <5>1
        <5>3. lu[n] = ls[n]
          BY <2>4, <2>5, <4>2, <5>1
        <5> QED
          BY <4>1, <5>2, <5>3
      <4>3. CASE ~(n <= k)
        <5>1. n - k \in 1..Len(st) /\ n \in 1..(k + Len(tl))
          BY <2>1, <3>5, <3>9, <4>1, <4>3
        <5>2. r[n] = st[n - k] /\ st[n - k] = Strip(tl[n - k])
          BY <3>5, <3>6, <4>1, <4>3, <5>1
        <5> QED
          BY <2>5, <4>1, <4>3, <5>1, <5>2
      <4> QED
        BY <4>2, <4>3
    <3> QED
      BY <3>9, <3>10
  <2>7. CASE ~Continues(s)
    <3> DEFINE sl == Stripped(lt)
    <3>1. recentLines = <<>> /\ Len(ss) = 0 /\ EndsBlank(ls) /\ k = 1
      <4>1. recentLines = <<>>
        BY <1>10, <2>7 DEF Continues, Half
      <4>2. Len(ss) = 0
        BY <1>8, <4>1
      <4> HIDE DEF k, ss
      <4> QED
        BY <1>4, <2>1, <4>1, <4>2
    <3>2. sl \in Seq(Seq(Bits)) /\ Len(sl) = (IF EndsBlank(lt) THEN Len(lt) - 1 ELSE Len(lt))
          /\ \A n \in 1..Len(sl) : sl[n] = Strip(lt[n])
      BY <1>1, StrippedProps
    <3>3. r = sl
      <4>1. r = <<>> \o sl
        BY <2>7, <3>1 DEF Recent
      <4> HIDE DEF r, sl
      <4> QED
        BY <3>2, <4>1, ConcatEmptySeq
    <3> HIDE DEF ls, lt, lu, k, ss, su, r, sl, hd, tl
    <3>4. Len(lu) = Len(lt) /\ \A n \in 2..Len(lt) : lu[n] = lt[n]
      <4>1. Len(lu) = Len(lt)
        BY <1>2, <2>2, <2>5, <3>1
      <4>2. ASSUME NEW n \in 2..Len(lt)
            PROVE  lu[n] = lt[n]
        <5>1. n \in 1..(k + Len(tl)) /\ ~(n <= k) /\ n - k \in 1..Len(tl) /\ (n - k) + 1 = n
          BY <1>2, <2>2, <3>1
        <5> QED
          BY <2>2, <2>5, <5>1
      <4> QED
        BY <4>1, <4>2
    <3>5. EndsBlank(lu) = EndsBlank(lt)
      <4>1. lu # <<>>
        <5>1. Len(lu) # 0
          BY <1>2, <3>4
        <5> QED
          BY <1>1, <5>1, EmptySeq
      <4>2. IsBlank(lu[Len(lu)]) = IsBlank(lt[Len(lt)])
        <5>1. CASE Len(lt) = 1
          <6>1. lu[1] = ls[1] \o lt[1]
            BY <2>2, <2>4, <2>5, <3>1, <3>4, <5>1
          <6>2. IsBlank(ls[1])
            BY <3>1 DEF EndsBlank, k
          <6>3. ls[1] \in Seq(Bits) /\ lt[1] \in Seq(Bits)
            BY <2>2, <2>3, <3>1
          <6>4. IsBlank(lu[1]) <=> IsBlank(lt[1])
            BY <6>1, <6>2, <6>3, BlankJoined
          <6>5. IsBlank(lu[1]) \in BOOLEAN /\ IsBlank(lt[1]) \in BOOLEAN
            BY DEF IsBlank
          <6>6. IsBlank(lu[1]) = IsBlank(lt[1])
            BY <6>4, <6>5
          <6> QED
            BY <3>4, <5>1, <6>6
        <5>2. CASE Len(lt) # 1
          <6>1. Len(lt) \in 2..Len(lt)
            <7> DEFINE c == Len(lt)
            <7>1. c \in Nat \ {0} /\ c # 1
              BY <1>2, <5>2
            <7> HIDE DEF c
            <7>2. c \in 2..c
              BY <7>1
            <7> QED
              BY <7>2 DEF c
          <6> QED
            BY <3>4, <6>1
        <5> QED
          BY <5>1, <5>2
      <4> QED
        BY <1>1, <1>7, <4>1, <4>2
    <3>6. Len(r) = Len(su) /\ Len(su) \in Nat /\ Len(su) <= Len(lt)
      BY <1>2, <1>5, <3>2, <3>3, <3>4, <3>5
    <3>7. ASSUME NEW n \in (1..Len(su)) \ even
          PROVE  r[n] = su[n]
      <4>1. n \in 2..Len(lt) /\ n \in 1..Len(sl)
        <5>1. n # 1
          BY <2>1, <3>1
        <5> QED
          BY <1>2, <3>3, <3>6, <5>1
      <4> QED
        BY <1>5, <3>2, <3>3, <3>4, <4>1
    <3> QED
      BY <3>6, <3>7
  <2> QED
    BY <2>6, <2>7
<1> QED
  BY <1>9, <1>10

(* Whether the last lines repeat does not depend on lines before them.     *)
LEMMA LastLines ==
  ASSUME HarnessConstants, NEW s \in Seq(Bits), NEW lines, NEW odd, LinesKept(s, lines, odd),
         \A n \in odd : n <= Len(Stripped(Lines(s))) - Repeats
  PROVE  SameLines(lines) <=> SameLines(Stripped(Lines(s)))
<1> DEFINE kept == Stripped(Lines(s))
           c == Len(kept)
<1>1. Lines(s) \in Seq(Seq(Bits))
  BY LinesProps
<1>2. c \in Nat /\ DOMAIN kept = 1..c /\ Repeats \in Nat
  BY <1>1, StrippedProps, LenProperties DEF HarnessConstants
<1>3. Len(lines) = c /\ \A n \in (1..c) \ odd : lines[n] = kept[n]
  BY <1>2 DEF LinesKept
<1>4. \A n \in odd : n <= c - Repeats
  OBVIOUS
<1> HIDE DEF c
<1>5. CASE Repeats > 0 /\ c >= Repeats
  <2>1. ASSUME NEW i \in (c - Repeats + 1)..c
        PROVE  lines[i] = kept[i] /\ lines[c] = kept[c]
    <3>1. i \in 1..c /\ c \in 1..c /\ ~(i <= c - Repeats) /\ ~(c <= c - Repeats)
      BY <1>2, <1>5, <2>1
    <3> QED
      BY <1>3, <1>4, <3>1
  <2> HIDE DEF kept
  <2>2. (\A i \in (c - Repeats + 1)..c : lines[i] = lines[c])
         <=> (\A i \in (c - Repeats + 1)..c : kept[i] = kept[c])
    BY <2>1
  <2> QED
    BY <1>3, <1>5, <2>2 DEF SameLines, c, kept
<1>6. CASE ~(Repeats > 0 /\ c >= Repeats)
  BY <1>3, <1>6 DEF SameLines, c
<1> QED
  BY <1>5, <1>6

-----------------------------------------------------------------------------
(* BootHarness: the inductive invariant.                                   *)

(* Where the script is, and what the line has before it is connected.      *)
HarnessShape ==
  /\ HarnessTypeOK
  /\ bhPc \in {"out", "connect"} =>
       step = 0 /\ serialIn = <<>> /\ accumulated = <<>> /\ recentLines = <<>>
  /\ bhPc = "out" => bhQemu = "none"
  /\ bhPc = "ask" => step < Len(Script)
  /\ bhPc \notin {"close", "closed"} => tries < ListTries
  /\ TextWhole /\ VerdictRight

(* A listing is asked for only after savevm, and read only while QEMU runs. *)
SnapshotReal ==
  /\ saved => bhPc \in {"close", "closed"}
  /\ saved => savevm = "saved" \/ (savevm = "failed" /\ older /\ errorCut)
  /\ bhPc = "list" => savevm \in {"saved", "slow", "failed"}
  /\ bhPc = "list" /\ savevm = "failed" => errorCut \/ bhQemu = "dead"
  /\ NoQemuLeft

(* The guest says of no package that it is there before it has found it.   *)
RowsIn(s) == \A p \in PiecesIn(s) : p.kind = "row" => p.of \in done
RowsTrue ==
  /\ RowsIn(serialIn) /\ RowsIn(accumulated) /\ RowsIn(toPrint)
  /\ \A k \in Steps : Script[k] = "check" /\ claim[k] => k \in done

(* A prompt is the last that is printed of a command.                      *)
HasPrompt(s) == \E p \in PiecesIn(s) : IsPrompt(p)
HasRow(s, k) == \E p \in PiecesIn(s) : p.kind = "row" /\ p.of = k
PromptLast == \A i \in DOMAIN toPrint : IsPrompt(toPrint[i]) => i = Len(toPrint)
NothingTyped == typedAhead = <<>> /\ commandLines = <<>> /\ toPrint = <<>>

(* While every wait has ended at the prompt of its command, the guest has  *)
(* at most the command that the script is at, the prompt comes after all   *)
(* else of it, and what was found is on its way or was read.               *)
OneCommand ==
  /\ \A k \in PiecesIn(typedAhead) \cup PiecesIn(commandLines) : k = step
  /\ Len(typedAhead) + Len(commandLines) <= 1
  /\ typedAhead # <<>> \/ commandLines # <<>> => toPrint = <<>> /\ step \notin done
  /\ \A k \in done : k <= step
  /\ bhPc \in {"ask", "save"} => NothingTyped
  /\ bhPc = "ask" => ~HasPrompt(serialIn)
  /\ bhPc = "wait" /\ HasPrompt(serialIn) => NothingTyped
AnswerComes ==
  bhPc = "wait" /\ step \in done /\ Script[step] = "check"
  /\ (bhQemu = "run" \/ HasPrompt(serialIn)) =>
    HasRow(accumulated, step) \/ HasRow(serialIn, step) \/ HasRow(toPrint, step)
ClaimsRight ==
  \A k \in Steps :
    Script[k] = "check" /\ (k < step \/ (k = step /\ bhPc \in {"ask", "save"})) =>
      claim[k] = (k \in done)
OneByOne == inStep => OneCommand /\ AnswerComes /\ ClaimsRight

HarnessInv == HarnessShape /\ SnapshotReal /\ RowsTrue /\ PromptLast /\ OneByOne

-----------------------------------------------------------------------------
LEMMA PieceTypes ==
  /\ \A kind \in {"frag", "line", "blank", "pan", "ic", "prompt"} : Bit(kind, 0) \in Bits
  /\ \A kind \in {"echo", "row", "mark"}, k \in Steps : Bit(kind, k) \in Bits
  /\ \A kind, k : Bit(kind, k).kind = kind /\ Bit(kind, k).of = k
BY DEF Bit, Bits

LEMMA ScriptTypes ==
  ASSUME HarnessConstants
  PROVE  /\ Len(Script) \in Nat /\ Steps = 1..Len(Script)
         /\ \A k \in Steps : Script[k] \in {"check", "apply", "sync"}
         /\ Repeats \in Nat /\ MaxNoise \in Nat /\ MaxGiveUps \in Nat /\ ListTries \in Nat \ {0}
BY LenProperties, ElementOfSeq DEF HarnessConstants, Steps

-----------------------------------------------------------------------------
(* BootHarness: types.                                                     *)

LEMMA EndWaitTypes ==
  ASSUME HarnessConstants, HarnessTypeOK, NEW seen, NEW reason \in Reasons, EndWait(reason, seen)
  PROVE  /\ bail' = reason /\ claim' \in [Steps -> BOOLEAN] /\ inStep' \in BOOLEAN
         /\ bhPc' = "save" \/ (bhPc' = "ask" /\ step < Len(Script))
<1>1. Len(Script) \in Nat /\ Steps = 1..Len(Script)
  BY ScriptTypes
<1>2. Believes(step, seen) \in BOOLEAN
  BY DEF Believes, Holds, SaysMark
<1>3. claim' \in [Steps -> BOOLEAN]
  BY <1>2 DEF EndWait, HarnessTypeOK
<1>4. inStep' \in BOOLEAN
  BY DEF EndWait, Marked
<1>5. bhPc' = "save" \/ (bhPc' = "ask" /\ step < Len(Script))
  BY <1>1 DEF EndWait, HarnessTypeOK
<1> QED
  BY <1>3, <1>4, <1>5 DEF EndWait

LEMMA PrintsTypes ==
  ASSUME HarnessTypeOK, NEW p \in Bits, Prints(p)
  PROVE  /\ serialIn' \in Seq(Bits)
         /\ bhPc \in {"wait", "ask"} => PiecesIn(serialIn') = PiecesIn(serialIn) \cup {p}
         /\ bhPc \notin {"wait", "ask"} => serialIn' = <<>>
<1>1. serialIn \in Seq(Bits)
  BY DEF HarnessTypeOK
<1>2. Append(serialIn, p) \in Seq(Bits)
      /\ PiecesIn(Append(serialIn, p)) = PiecesIn(serialIn) \cup {p}
  BY <1>1, PiecesAppend
<1>3. <<>> \in Seq(Bits)
  BY EmptySeq
<1> QED
  BY <1>2, <1>3 DEF Prints

LEMMA RecentTypes ==
  ASSUME NEW before, NEW t \in Seq(Bits), t # <<>>, recentLines \in Seq(Seq(Bits))
  PROVE  Recent(before, t) \in Seq(Seq(Bits))
<1> DEFINE lt == Lines(t)
           k == Len(recentLines)
<1>1. lt \in Seq(Seq(Bits)) /\ lt # <<>>
  BY LinesProps
<1>2. Tail(lt) \in Seq(Seq(Bits))
  BY <1>1, HeadTailProperties
<1>3. Stripped(lt) \in Seq(Seq(Bits)) /\ Stripped(Tail(lt)) \in Seq(Seq(Bits))
  BY <1>1, <1>2, StrippedProps
<1>4. CASE Continues(before)
  <2> DEFINE hr == [recentLines EXCEPT ![k] = @ \o Unstripped(t)]
  <2>1. k \in 1..k /\ DOMAIN recentLines = 1..k
    <3>1. k \in Nat \ {0}
      BY <1>4, EmptySeq DEF Continues
    <3> QED
      BY <3>1, LenProperties
  <2>2. recentLines[k] \o Unstripped(t) \in Seq(Bits)
    <3>1. recentLines[k] \in Seq(Bits) /\ Unstripped(t) \in Seq(Bits)
      BY <2>1, ElementOfSeq, UnstrippedTypes
    <3> QED
      BY <3>1, ConcatProperties
  <2>3. hr \in Seq(Seq(Bits))
    BY <2>1, <2>2, ExceptSeq
  <2>4. Recent(before, t) = hr \o Stripped(Tail(lt))
    BY <1>4 DEF Recent
  <2> HIDE DEF hr, lt
  <2> QED
    BY <1>3, <2>3, <2>4, ConcatProperties
<1>5. CASE ~Continues(before)
  <2>1. Recent(before, t) = recentLines \o Stripped(lt)
    BY <1>5 DEF Recent
  <2> HIDE DEF lt
  <2> QED
    BY <1>3, <2>1, ConcatProperties
<1> QED
  BY <1>4, <1>5

(* What a read leaves: the wait goes on, or has its verdict.               *)
LEMMA RecvOutcome ==
  ASSUME HarnessConstants, HarnessShape, Recv
  PROVE  /\ accumulated' \in Seq(Bits) /\ serialIn' = <<>>
         /\ PiecesIn(accumulated') = PiecesIn(accumulated) \cup PiecesIn(serialIn)
         /\ recentLines' \in Seq(Seq(Bits)) /\ frayed' \subseteq Nat /\ merged' \in BOOLEAN
         /\ ~merged' => LinesKept(accumulated', recentLines', frayed')
         /\ \/ /\ \/ EndWait("matched", accumulated') /\ Pattern(accumulated', step)
               \/ /\ EndWait("bail", accumulated') /\ Fatal(accumulated')
                  /\ ~Pattern(accumulated', step)
               \/ /\ EndWait("repeat", accumulated') /\ SameLines(recentLines')
                  /\ ~Pattern(accumulated', step) /\ ~Fatal(accumulated')
            \/ /\ UNCHANGED <<bhPc, claim, bail, inStep>> /\ ~Pattern(accumulated', step)
               /\ ~Fatal(accumulated') /\ ~SameLines(recentLines')
<1>1. /\ accumulated \in Seq(Bits) /\ serialIn \in Seq(Bits) /\ serialIn # <<>>
      /\ accumulated' = accumulated \o serialIn /\ serialIn' = <<>>
      /\ recentLines \in Seq(Seq(Bits)) /\ frayed \subseteq Nat /\ merged \in BOOLEAN
      /\ bhPc = "wait" /\ recentLines' = Recent(accumulated, serialIn)
      /\ frayed' = IF Half(accumulated) THEN frayed \union {Len(Lines(accumulated))} ELSE frayed
      /\ merged' = (merged \/ (Continues(accumulated) /\ EndsBlank(Lines(accumulated))))
  BY DEF Recv, Searched, HarnessShape, HarnessTypeOK, Half
<1>2. accumulated' \in Seq(Bits)
      /\ PiecesIn(accumulated') = PiecesIn(accumulated) \cup PiecesIn(serialIn)
  BY <1>1, PiecesJoined
<1>3. /\ recentLines' \in Seq(Seq(Bits)) /\ frayed' \subseteq Nat /\ merged' \in BOOLEAN
      /\ ~merged' => LinesKept(accumulated', recentLines', frayed')
  <2>1. recentLines' \in Seq(Seq(Bits))
    BY <1>1, RecentTypes
  <2>2. Len(Lines(accumulated)) \in Nat
    BY <1>1, LinesProps
  <2>3. ASSUME ~merged'
        PROVE  LinesKept(accumulated', recentLines', frayed')
    <3>1. ~merged /\ ~(Continues(accumulated) /\ EndsBlank(Lines(accumulated)))
      BY <1>1, <2>3
    <3>2. LinesKept(accumulated, recentLines, frayed)
      BY <1>1, <3>1 DEF HarnessShape, TextWhole, LinesKept
    <3>3. frayed \subseteq frayed' /\ (Half(accumulated) => Len(Lines(accumulated)) \in frayed')
      BY <1>1
    <3>4. LinesKept(accumulated \o serialIn, Recent(accumulated, serialIn), frayed')
      BY <1>1, <3>1, <3>2, <3>3, RecentJoined
    <3> QED
      BY <1>1, <3>4
  <2> QED
    BY <1>1, <2>1, <2>2, <2>3
<1>4. CASE Pattern(accumulated', step)
  BY <1>1, <1>2, <1>3, <1>4 DEF Recv
<1>5. CASE ~Pattern(accumulated', step) /\ Fatal(accumulated')
  BY <1>1, <1>2, <1>3, <1>5 DEF Recv
<1>6. CASE ~Pattern(accumulated', step) /\ ~Fatal(accumulated')
  BY <1>1, <1>2, <1>3, <1>6 DEF Recv
<1> QED
  BY <1>4, <1>5, <1>6

LEMMA TypesStep ==
  ASSUME HarnessConstants, HarnessShape, [HarnessNext]_harnessVars
  PROVE  HarnessTypeOK'
<1>1. /\ Len(Script) \in Nat /\ Steps = 1..Len(Script) /\ MaxNoise \in Nat /\ MaxGiveUps \in Nat
      /\ ListTries \in Nat \ {0} /\ <<>> \in Seq(Bits) /\ <<>> \in Seq(Steps)
      /\ <<>> \in Seq(Seq(Bits))
  BY ScriptTypes, EmptySeq
<1>2. HarnessTypeOK
  BY DEF HarnessShape
<1>3. CASE Launch \/ ConnectLines \/ ListFails
  BY <1>2, <1>3 DEF HarnessTypeOK, Launch, ConnectLines, ListFails, waitVars, textVars, guestVars, shotVars
<1>4. CASE Recv
  <2>1. /\ accumulated' \in Seq(Bits) /\ serialIn' = <<>>
        /\ recentLines' \in Seq(Seq(Bits)) /\ frayed' \subseteq Nat /\ merged' \in BOOLEAN
        /\ \/ \E reason \in Reasons : EndWait(reason, accumulated')
           \/ UNCHANGED <<bhPc, claim, bail, inStep>>
    BY <1>4, RecvOutcome DEF Reasons
  <2>2. /\ bail' \in Reasons /\ claim' \in [Steps -> BOOLEAN] /\ inStep' \in BOOLEAN
        /\ bhPc' \in {"ask", "save", bhPc}
    BY <1>2, <2>1, EndWaitTypes DEF HarnessTypeOK
  <2> QED
    BY <1>1, <1>2, <1>4, <2>1, <2>2 DEF HarnessTypeOK, Recv, guestVars, shotVars
<1>5. CASE GivesUpWaiting
  <2>1. \E reason \in Reasons : EndWait(reason, accumulated)
    BY <1>5 DEF GivesUpWaiting, Reasons
  <2>2. /\ bail' \in Reasons /\ claim' \in [Steps -> BOOLEAN] /\ inStep' \in BOOLEAN
        /\ bhPc' \in {"ask", "save"}
    BY <1>2, <2>1, EndWaitTypes
  <2>3. gaveUp' \in 0..MaxGiveUps
    <3>1. gaveUp \in 0..MaxGiveUps
      BY <1>2 DEF HarnessTypeOK
    <3>2. (gaveUp < MaxGiveUps /\ gaveUp' = gaveUp + 1) \/ gaveUp' = gaveUp
      BY <1>5 DEF GivesUpWaiting
    <3> QED
      BY <1>1, <3>1, <3>2
  <2> QED
    BY <1>1, <1>2, <1>5, <2>2, <2>3 DEF HarnessTypeOK, GivesUpWaiting, textVars, guestVars, shotVars
<1>6. CASE Ask
  <2>1. CASE bhQemu = "run"
    <3>1. step + 1 \in Steps
      BY <1>1, <1>2, <1>6 DEF Ask, HarnessShape, HarnessTypeOK
    <3>2. typedAhead' \in Seq(Steps)
      <4>1. typedAhead \in Seq(Steps) /\ typedAhead' = Append(typedAhead, step + 1)
        BY <1>2, <1>6, <2>1 DEF Ask, HarnessTypeOK
      <4> QED
        BY <3>1, <4>1, PiecesAppend
    <3> QED
      BY <1>1, <1>2, <1>6, <2>1, <3>1, <3>2 DEF HarnessTypeOK, Ask, NoText, textVars, shotVars
  <2>2. CASE bhQemu # "run"
    BY <1>2, <1>6, <2>2 DEF HarnessTypeOK, Ask, NoText, textVars, shotVars
  <2> QED
    BY <2>1, <2>2
<1>7. CASE Collect
  BY <1>1, <1>2, <1>7 DEF HarnessTypeOK, Collect, waitVars, textVars, guestVars, shotVars
<1>8. CASE Savevm
  BY <1>1, <1>2, <1>8 DEF HarnessTypeOK, Savevm, NoText, guestVars
<1>9. CASE SlowSavevm
  BY <1>2, <1>9 DEF HarnessTypeOK, SlowSavevm, waitVars, textVars, guestVars
<1>10. CASE ListSnapshots
  <2>1. tries' \in 0..ListTries
    BY <1>1, <1>2, <1>10 DEF HarnessShape, HarnessTypeOK, ListSnapshots
  <2> QED
    BY <1>2, <1>10, <2>1 DEF HarnessTypeOK, ListSnapshots, waitVars, textVars, guestVars
<1>11. CASE CloseSession
  BY <1>2, <1>11 DEF HarnessTypeOK, CloseSession, waitVars, textVars, guestVars
<1>12. CASE TtyEchoes
  <2>1. /\ Head(typedAhead) \in Steps /\ Tail(typedAhead) \in Seq(Steps)
        /\ Append(commandLines, Head(typedAhead)) \in Seq(Steps)
    BY <1>2, <1>12, PiecesHead, PiecesAppend DEF TtyEchoes, HarnessTypeOK
  <2>2. serialIn' \in Seq(Bits)
    <3>1. Bit("echo", Head(typedAhead)) \in Bits
      BY <2>1, PieceTypes
    <3> QED
      BY <1>2, <1>12, <3>1, PrintsTypes DEF TtyEchoes
  <2> QED
    BY <1>2, <1>12, <2>1, <2>2 DEF HarnessTypeOK, TtyEchoes, waitVars, textVars, shotVars
<1>13. CASE ShellRuns
  <2> DEFINE k == Head(commandLines)
  <2>1. k \in Steps /\ Tail(commandLines) \in Seq(Steps)
    BY <1>2, <1>13, PiecesHead DEF ShellRuns, HarnessTypeOK
  <2>2. /\ Bit("prompt", 0) \in Bits
        /\ Bit(IF Script[k] = "check" THEN "row" ELSE "mark", k) \in Bits
    BY <2>1, PieceTypes
  <2>3. /\ <<Bit("prompt", 0)>> \in Seq(Bits)
        /\ <<Bit(IF Script[k] = "check" THEN "row" ELSE "mark", k), Bit("prompt", 0)>> \in Seq(Bits)
    BY <2>2
  <2>4. toPrint' \in Seq(Bits) /\ done' \in SUBSET Steps /\ done \subseteq done'
        /\ onDisk' \subseteq done'
    BY <1>2, <1>13, <2>1, <2>3 DEF ShellRuns, HarnessTypeOK
  <2> HIDE DEF k
  <2> QED
    BY <1>2, <1>13, <2>1, <2>4 DEF HarnessTypeOK, ShellRuns, waitVars, textVars, shotVars, k
<1>14. CASE ShellPrints
  <2>1. Head(toPrint) \in Bits /\ Tail(toPrint) \in Seq(Bits)
    BY <1>2, <1>14, PiecesHead DEF ShellPrints, HarnessTypeOK
  <2>2. serialIn' \in Seq(Bits)
    BY <1>2, <1>14, <2>1, PrintsTypes DEF ShellPrints
  <2> QED
    BY <1>2, <1>14, <2>1, <2>2 DEF HarnessTypeOK, ShellPrints, waitVars, textVars, shotVars
<1>15. CASE KernelPrints
  <2>1. serialIn' \in Seq(Bits)
    BY <1>2, <1>15, PieceTypes, PrintsTypes DEF KernelPrints
  <2>2. noise' \in 0..MaxNoise /\ panicked' \in {"no", "half", "whole"}
    BY <1>1, <1>2, <1>15 DEF KernelPrints, HarnessTypeOK
  <2> QED
    BY <1>2, <1>15, <2>1, <2>2 DEF HarnessTypeOK, KernelPrints, waitVars, textVars, shotVars
<1>16. CASE QemuDies
  BY <1>1, <1>2, <1>16 DEF HarnessTypeOK, QemuDies, waitVars, textVars
<1>17. CASE UNCHANGED harnessVars
  BY <1>2, <1>17 DEF HarnessTypeOK, harnessVars, waitVars, textVars, guestVars, shotVars
<1> QED
  BY <1>3, <1>4, <1>5, <1>6, <1>7, <1>8, <1>9, <1>10, <1>11, <1>12, <1>13, <1>14, <1>15, <1>16,
     <1>17
  DEF HarnessNext, HarnessHost, HarnessGuest

-----------------------------------------------------------------------------
(* BootHarness: the text of a wait, its verdict, and the snapshot.         *)

LEMMA NothingRead ==
  ASSUME HarnessConstants
  PROVE  /\ Stripped(Lines(<<>>)) = <<>> /\ Len(<<>>) = 0 /\ DOMAIN <<>> = {}
         /\ ~Pattern(<<>>, step) /\ ~Pattern(<<>>, step') /\ ~Fatal(<<>>) /\ ~SameLines(<<>>)
<1>1. Stripped(Lines(<<>>)) = <<>> /\ Len(<<>>) = 0 /\ DOMAIN <<>> = {}
  <2>1. <<>> \in Seq(Bits) /\ <<>> \in Seq(Seq(Bits)) /\ Len(<<>>) = 0 /\ DOMAIN <<>> = {}
    BY EmptySeq
  <2>2. Lines(<<>>) = <<>>
    BY <2>1, LinesProps
  <2>3. Stripped(<<>>) \in Seq(Seq(Bits)) /\ Len(Stripped(<<>>)) = 0
    BY <2>1, StrippedProps DEF EndsBlank
  <2>4. Stripped(<<>>) = <<>>
    BY <2>3, EmptySeq
  <2> QED
    BY <2>1, <2>2, <2>4
<1>2. ~Fatal(<<>>)
  BY DEF Fatal
<1>3. ~Pattern(<<>>, step) /\ ~Pattern(<<>>, step')
  BY DEF Pattern, SaysMark, Holds
<1>4. ~SameLines(<<>>)
  BY ScriptTypes DEF SameLines
<1> QED
  BY <1>1, <1>2, <1>3, <1>4

LEMMA ShapeStep ==
  ASSUME HarnessConstants, HarnessShape, [HarnessNext]_harnessVars
  PROVE  HarnessShape'
<1>1. HarnessTypeOK /\ HarnessTypeOK' /\ Len(Script) \in Nat /\ ListTries \in Nat \ {0}
  BY TypesStep, ScriptTypes DEF HarnessShape
<1>2. CASE Launch \/ ConnectLines
  <2>1. /\ Stripped(Lines(<<>>)) = <<>> /\ Len(<<>>) = 0 /\ DOMAIN <<>> = {}
        /\ ~Pattern(<<>>, step) /\ ~Fatal(<<>>) /\ ~SameLines(<<>>)
    BY NothingRead
  <2> QED
    BY <1>1, <1>2, <2>1 DEF HarnessShape, TextWhole, VerdictRight, Repeating, Launch, ConnectLines,
                            waitVars, textVars, shotVars
<1>3. CASE Recv
  <2>1. bhPc = "wait" /\ UNCHANGED <<bhQemu, step, tries>>
    BY <1>3 DEF Recv, shotVars
  <2>2. /\ ~merged' => LinesKept(accumulated', recentLines', frayed')
        /\ LastWhole' => (SameLines(recentLines') <=> Repeating')
    <3>1. ~merged' => LinesKept(accumulated', recentLines', frayed')
      BY <1>3, RecvOutcome
    <3>2. accumulated' \in Seq(Bits)
      BY <1>1 DEF HarnessTypeOK
    <3>3. ASSUME LastWhole'
          PROVE  SameLines(recentLines') <=> Repeating'
      <4>1. LinesKept(accumulated', recentLines', frayed')
            /\ \A n \in frayed' : n <= Len(Stripped(Lines(accumulated'))) - Repeats
        BY <3>1, <3>3 DEF LastWhole
      <4>2. SameLines(recentLines') <=> SameLines(Stripped(Lines(accumulated')))
        BY <3>2, <4>1, LastLines
      <4> QED
        BY <4>2 DEF Repeating
    <3> QED
      BY <3>1, <3>3
  <2>3. CASE \E reason \in Reasons \ {"none"} : EndWait(reason, accumulated')
    <3>1. PICK reason \in Reasons \ {"none"} : EndWait(reason, accumulated')
      BY <2>3
    <3>2. bail' = reason /\ (bhPc' = "save" \/ (bhPc' = "ask" /\ step < Len(Script)))
      BY <1>1, <3>1, EndWaitTypes
    <3>3. VerdictRight'
      <4>1. /\ bhPc' \in {"ask", "save"}
            /\ \/ bail' = "matched" /\ Pattern(accumulated', step)
               \/ bail' = "bail" /\ Fatal(accumulated')
               \/ bail' = "repeat" /\ (LastWhole' => Repeating')
        <5>1. bhPc' # bhPc
          BY <2>1, <3>2
        <5> QED
          BY <1>3, <2>2, <3>2, <5>1, RecvOutcome DEF EndWait
      <4> QED
        BY <2>1, <4>1 DEF VerdictRight
    <3> QED
      BY <1>1, <2>1, <3>2, <3>3 DEF HarnessShape, TextWhole
  <2>4. CASE /\ UNCHANGED <<bhPc, claim, bail, inStep>> /\ ~Pattern(accumulated', step)
             /\ ~Fatal(accumulated') /\ ~SameLines(recentLines')
    BY <1>1, <2>1, <2>2, <2>4 DEF HarnessShape, TextWhole, LinesKept, VerdictRight
  <2> QED
    BY <1>3, <2>3, <2>4, RecvOutcome DEF Reasons
<1>4. CASE GivesUpWaiting
  <2>1. bhPc = "wait" /\ UNCHANGED <<bhQemu, step, accumulated, tries>>
    BY <1>4 DEF GivesUpWaiting, textVars, shotVars
  <2>2. PICK reason \in {"timed out", "connection closed"} : EndWait(reason, accumulated)
    BY <1>4 DEF GivesUpWaiting
  <2>3. bail' = reason /\ (bhPc' = "save" \/ (bhPc' = "ask" /\ step < Len(Script)))
    BY <1>1, <2>2, EndWaitTypes DEF Reasons
  <2> QED
    BY <1>1, <2>1, <2>3 DEF HarnessShape, TextWhole, VerdictRight
<1>5. CASE Ask
  <2>1. /\ Stripped(Lines(<<>>)) = <<>> /\ Len(<<>>) = 0 /\ DOMAIN <<>> = {}
        /\ ~Pattern(<<>>, step') /\ ~Fatal(<<>>) /\ ~SameLines(<<>>)
    BY NothingRead
  <2>2. CASE bhQemu = "run"
    BY <1>1, <1>5, <2>1, <2>2 DEF HarnessShape, TextWhole, VerdictRight, Repeating, Ask, NoText,
                                  shotVars
  <2>3. CASE bhQemu # "run"
    BY <1>1, <1>5, <2>3 DEF HarnessShape, TextWhole, VerdictRight, Ask, shotVars
  <2> QED
    BY <2>2, <2>3
<1>6. CASE Savevm \/ ListFails \/ CloseSession
  BY <1>1, <1>6 DEF HarnessShape, TextWhole, VerdictRight, Savevm, ListFails, CloseSession, shotVars
<1>7. CASE ListSnapshots
  <2>1. tries \in Nat /\ tries < ListTries /\ bhPc = "list"
    BY <1>1, <1>7 DEF HarnessShape, HarnessTypeOK, ListSnapshots
  <2>2. bhPc' \in {"close", "list"} /\ (bhPc' = "list" => tries' = tries + 1 /\ tries' # ListTries)
    BY <1>7 DEF ListSnapshots
  <2>3. bhPc' = "list" => tries' < ListTries
    BY <1>1, <2>1, <2>2
  <2> QED
    BY <1>1, <2>2, <2>3 DEF HarnessShape, TextWhole, VerdictRight
<1>8. CASE HarnessGuest \/ Collect \/ UNCHANGED harnessVars
  <2>1. UNCHANGED <<bhPc, step, textVars, bail, tries>>
    BY <1>8 DEF HarnessGuest, TtyEchoes, ShellRuns, ShellPrints, KernelPrints, SlowSavevm, QemuDies,
                Collect, harnessVars, waitVars, textVars, guestVars, shotVars
  <2>2. bhPc = "out" => bhQemu' = "none"
    BY <1>8 DEF HarnessGuest, TtyEchoes, ShellRuns, ShellPrints, KernelPrints, SlowSavevm, QemuDies,
                Collect, Alive, HarnessShape, harnessVars
  <2>3. bhPc \in {"out", "connect"} => serialIn' = <<>>
    BY <1>8 DEF HarnessGuest, TtyEchoes, ShellRuns, ShellPrints, KernelPrints, SlowSavevm, QemuDies,
                Collect, Prints, HarnessShape, harnessVars
  <2> QED
    BY <1>1, <2>1, <2>2, <2>3 DEF HarnessShape, TextWhole, VerdictRight, LastWhole, Repeating,
                                  textVars
<1> QED
  BY <1>2, <1>3, <1>4, <1>5, <1>6, <1>7, <1>8 DEF HarnessNext, HarnessHost

LEMMA SnapshotStep ==
  ASSUME HarnessTypeOK, HarnessShape, SnapshotReal, [HarnessNext]_harnessVars
  PROVE  SnapshotReal'
<1> USE DEF SnapshotReal, NoQemuLeft
<1>1. CASE Launch \/ ConnectLines
  BY <1>1 DEF Launch, ConnectLines, HarnessShape, shotVars
<1>2. CASE Recv \/ GivesUpWaiting
  <2>1. bhPc = "wait" /\ bhPc' \in {"wait", "ask", "save"} /\ UNCHANGED <<bhQemu, shotVars>>
    BY <1>2 DEF Recv, GivesUpWaiting, EndWait
  <2> QED
    BY <2>1 DEF shotVars
<1>3. CASE Ask \/ Collect
  BY <1>3 DEF Ask, Collect, shotVars
<1>4. CASE Savevm
  BY <1>4 DEF Savevm
<1>5. CASE SlowSavevm
  BY <1>5 DEF SlowSavevm, HarnessTypeOK
<1>6. CASE ListSnapshots
  BY <1>6 DEF ListSnapshots, Listed, HarnessTypeOK
<1>7. CASE ListFails \/ CloseSession
  BY <1>7 DEF ListFails, CloseSession, shotVars
<1>8. CASE QemuDies
  BY <1>8 DEF QemuDies
<1>9. CASE TtyEchoes \/ ShellRuns \/ ShellPrints \/ KernelPrints \/ UNCHANGED harnessVars
  <2>1. UNCHANGED <<bhPc, bhQemu, shotVars>>
    BY <1>9 DEF TtyEchoes, ShellRuns, ShellPrints, KernelPrints, harnessVars
  <2> QED
    BY <2>1 DEF shotVars
<1> QED
  BY <1>1, <1>2, <1>3, <1>4, <1>5, <1>6, <1>7, <1>8, <1>9 DEF HarnessNext, HarnessHost, HarnessGuest

-----------------------------------------------------------------------------
(* BootHarness: what is said of packages.                                  *)

LEMMA BelievesRow ==
  ASSUME HarnessConstants, HarnessTypeOK, NEW k \in Steps, Script[k] = "check", NEW seen,
         RowsIn(seen)
  PROVE  Believes(k, seen) <=> HasRow(seen, k)
<1>1. 0 \notin done
  BY ScriptTypes DEF HarnessTypeOK
<1>2. Believes(k, seen) <=> \E i \in DOMAIN seen : seen[i].kind = "row" /\ seen[i].of \in {0, k}
  BY DEF Believes, Holds
<1>3. \A i \in DOMAIN seen : seen[i].kind = "row" => seen[i].of # 0
  BY <1>1 DEF RowsIn, PiecesIn
<1> QED
  BY <1>2, <1>3 DEF HasRow, PiecesIn

(* What a wait that has ended makes of the claims.                         *)
LEMMA EndWaitClaims ==
  ASSUME HarnessConstants, HarnessTypeOK, NEW seen, RowsIn(seen), NEW reason, EndWait(reason, seen)
  PROVE  \A k \in Steps : Script[k] = "check" =>
           claim'[k] = IF k = step THEN HasRow(seen, k) ELSE claim[k]
<1>1. ASSUME NEW k \in Steps, Script[k] = "check"
      PROVE  claim'[k] = IF k = step THEN HasRow(seen, k) ELSE claim[k]
  <2>1. 0 \notin Steps
    BY ScriptTypes
  <2>2. claim' = IF step = 0 THEN claim ELSE [claim EXCEPT ![step] = Believes(step, seen)]
    BY DEF EndWait
  <2>3. claim \in [Steps -> BOOLEAN]
    BY DEF HarnessTypeOK
  <2>4. Believes(k, seen) <=> HasRow(seen, k)
    BY <1>1, BelievesRow
  <2>5. Believes(k, seen) \in BOOLEAN /\ HasRow(seen, k) \in BOOLEAN
    BY <1>1 DEF Believes, Holds, SaysMark, HasRow
  <2>6. Believes(k, seen) = HasRow(seen, k)
    BY <2>4, <2>5
  <2>7. CASE k = step
    <3>1. claim'[k] = Believes(k, seen)
      BY <2>1, <2>2, <2>3, <2>7
    <3> QED
      BY <2>6, <2>7, <3>1
  <2>8. CASE k # step
    BY <2>2, <2>3, <2>8
  <2> QED
    BY <2>7, <2>8
<1> QED
  BY <1>1

LEMMA RowsStep ==
  ASSUME HarnessConstants, HarnessShape, RowsTrue, [HarnessNext]_harnessVars
  PROVE  RowsTrue'
<1>1. HarnessTypeOK /\ RowsIn(serialIn) /\ RowsIn(accumulated) /\ RowsIn(toPrint)
  BY DEF HarnessShape, RowsTrue
<1>2. PiecesIn(<<>>) = {}
  BY PiecesNone
<1>3. CASE Launch \/ ConnectLines \/ ListSnapshots \/ ListFails \/ CloseSession \/ SlowSavevm
           \/ UNCHANGED harnessVars
  <2>1. UNCHANGED <<serialIn, accumulated, toPrint, done, claim>>
    BY <1>3 DEF Launch, ConnectLines, ListSnapshots, ListFails, CloseSession, SlowSavevm,
                harnessVars,
                waitVars, textVars, guestVars
  <2> QED
    BY <2>1 DEF RowsTrue, RowsIn
<1>4. CASE Recv
  <2>1. /\ serialIn' = <<>>
        /\ PiecesIn(accumulated') = PiecesIn(accumulated) \cup PiecesIn(serialIn)
        /\ \/ \E reason \in Reasons : EndWait(reason, accumulated')
           \/ UNCHANGED claim
    BY <1>4, RecvOutcome DEF Reasons
  <2>2. UNCHANGED <<toPrint, done>>
    BY <1>4 DEF Recv, guestVars
  <2>3. RowsIn(accumulated')
    BY <1>1, <2>1 DEF RowsIn
  <2>4. \A k \in Steps : Script[k] = "check" /\ claim'[k] => k \in done
    <3>1. CASE UNCHANGED claim
      BY <3>1 DEF RowsTrue
    <3>2. CASE \E reason \in Reasons : EndWait(reason, accumulated')
      <4>1. \A k \in Steps : Script[k] = "check" =>
              claim'[k] = IF k = step THEN HasRow(accumulated', k) ELSE claim[k]
        BY <1>1, <2>3, <3>2, EndWaitClaims
      <4>2. \A k \in Steps : HasRow(accumulated', k) => k \in done
        BY <2>3 DEF HasRow, RowsIn
      <4> QED
        BY <4>1, <4>2 DEF RowsTrue
    <3> QED
      BY <2>1, <3>1, <3>2
  <2> QED
    BY <1>1, <1>2, <2>1, <2>2, <2>3, <2>4 DEF RowsTrue, RowsIn
<1>5. CASE GivesUpWaiting
  <2>1. UNCHANGED <<serialIn, accumulated, toPrint, done>>
        /\ \E reason \in Reasons : EndWait(reason, accumulated)
    BY <1>5 DEF GivesUpWaiting, textVars, guestVars, Reasons
  <2>2. \A k \in Steps : Script[k] = "check" =>
          claim'[k] = IF k = step THEN HasRow(accumulated, k) ELSE claim[k]
    BY <1>1, <2>1, EndWaitClaims
  <2>3. \A k \in Steps : HasRow(accumulated, k) => k \in done
    BY <1>1 DEF HasRow, RowsIn
  <2> QED
    BY <2>1, <2>2, <2>3 DEF RowsTrue, RowsIn
<1>6. CASE Ask
  <2>1. UNCHANGED <<serialIn, toPrint, done, claim>> /\ accumulated' \in {accumulated, <<>>}
    BY <1>6 DEF Ask, NoText, textVars
  <2> QED
    BY <1>2, <2>1 DEF RowsTrue, RowsIn
<1>7. CASE Collect \/ Savevm
  <2>1. serialIn' = <<>> /\ UNCHANGED <<toPrint, done, claim>>
        /\ accumulated' \in {accumulated, <<>>}
    BY <1>7 DEF Collect, Savevm, NoText, waitVars, textVars, guestVars
  <2> QED
    BY <1>2, <2>1 DEF RowsTrue, RowsIn
<1>8. CASE TtyEchoes \/ KernelPrints
  <2>1. UNCHANGED <<accumulated, toPrint, done, claim>>
    BY <1>8 DEF TtyEchoes, KernelPrints, waitVars, textVars
  <2>2. RowsIn(serialIn')
    <3>1. \E p \in Bits : Prints(p) /\ p.kind # "row"
      <4>1. CASE TtyEchoes
        <5>1. Head(typedAhead) \in Steps
          BY <1>1, <4>1, PiecesHead DEF TtyEchoes, HarnessTypeOK
        <5> QED
          BY <4>1, <5>1, PieceTypes DEF TtyEchoes
      <4>2. CASE KernelPrints
        BY <4>2, PieceTypes DEF KernelPrints
      <4> QED
        BY <1>8, <4>1, <4>2
    <3>2. PICK p \in Bits : Prints(p) /\ p.kind # "row"
      BY <3>1
    <3>3. PiecesIn(serialIn') \subseteq PiecesIn(serialIn) \cup {p}
      BY <1>1, <1>2, <3>2, PrintsTypes
    <3> QED
      BY <1>1, <3>2, <3>3 DEF RowsIn
  <2> QED
    BY <2>1, <2>2 DEF RowsTrue, RowsIn
<1>9. CASE ShellRuns
  <2> DEFINE k == Head(commandLines)
             r == Bit(IF Script[k] = "check" THEN "row" ELSE "mark", k)
             q == Bit("prompt", 0)
  <2>1. UNCHANGED <<serialIn, accumulated, claim>> /\ done \subseteq done'
    BY <1>9 DEF ShellRuns, waitVars, textVars
  <2>2. RowsIn(toPrint)'
    <3>1. r.of = k /\ q.kind = "prompt"
      BY PieceTypes
    <3>2. \/ k \in done' /\ toPrint' = <<r, q>>
          \/ toPrint' = <<q>>
      BY <1>9 DEF ShellRuns
    <3> HIDE DEF k, r, q
    <3>3. PiecesIn(<<r, q>>) = {r, q} /\ PiecesIn(<<q>>) = {q}
      BY DEF PiecesIn
    <3> QED
      BY <3>1, <3>2, <3>3 DEF RowsIn
  <2> QED
    BY <2>1, <2>2 DEF RowsTrue, RowsIn
<1>10. CASE ShellPrints
  <2>1. /\ Head(toPrint) \in Bits
        /\ PiecesIn(toPrint) = {Head(toPrint)} \cup PiecesIn(Tail(toPrint))
        /\ toPrint' = Tail(toPrint) /\ Prints(Head(toPrint))
        /\ UNCHANGED <<accumulated, done, claim>>
    BY <1>1, <1>10, PiecesHead DEF ShellPrints, HarnessTypeOK, waitVars, textVars
  <2>2. PiecesIn(serialIn') \subseteq PiecesIn(serialIn) \cup {Head(toPrint)}
    BY <1>1, <1>2, <2>1, PrintsTypes
  <2> QED
    BY <2>1, <2>2 DEF RowsTrue, RowsIn
<1>11. CASE QemuDies
  <2>1. UNCHANGED <<serialIn, accumulated, done, claim>> /\ toPrint' = <<>>
    BY <1>11 DEF QemuDies, waitVars, textVars
  <2> QED
    BY <1>2, <2>1 DEF RowsTrue, RowsIn
<1> QED
  BY <1>3, <1>4, <1>5, <1>6, <1>7, <1>8, <1>9, <1>10, <1>11 DEF HarnessNext, HarnessHost,
                                                                HarnessGuest

LEMMA PromptStep ==
  ASSUME HarnessTypeOK, PromptLast, [HarnessNext]_harnessVars
  PROVE  PromptLast'
<1>1. CASE ShellRuns
  <2> DEFINE k == Head(commandLines)
             r == Bit(IF Script[k] = "check" THEN "row" ELSE "mark", k)
             q == Bit("prompt", 0)
  <2>1. r.kind # "prompt"
    BY PieceTypes
  <2>2. toPrint' = <<r, q>> \/ toPrint' = <<q>>
    BY <1>1 DEF ShellRuns
  <2> HIDE DEF r, q
  <2>3. CASE toPrint' = <<r, q>>
    <3>1. Len(toPrint') = 2 /\ DOMAIN toPrint' = {1, 2} /\ toPrint'[1] = r
      BY <2>3
    <3> QED
      BY <2>1, <3>1 DEF PromptLast, IsPrompt
  <2>4. CASE toPrint' = <<q>>
    <3>1. Len(toPrint') = 1 /\ DOMAIN toPrint' = {1}
      BY <2>4
    <3> QED
      BY <3>1 DEF PromptLast, IsPrompt
  <2> QED
    BY <2>2, <2>3, <2>4
<1>2. CASE ShellPrints
  <2>1. toPrint \in Seq(Bits) /\ toPrint # <<>> /\ toPrint' = Tail(toPrint)
    BY <1>2 DEF ShellPrints, HarnessTypeOK
  <2>2. /\ Len(toPrint) \in Nat /\ Len(Tail(toPrint)) = Len(toPrint) - 1
        /\ Tail(toPrint) \in Seq(Bits)
        /\ \A i \in 1..Len(Tail(toPrint)) : Tail(toPrint)[i] = toPrint[i + 1]
    BY <2>1, HeadTailProperties, LenProperties
  <2>3. DOMAIN toPrint = 1..Len(toPrint) /\ DOMAIN Tail(toPrint) = 1..Len(Tail(toPrint))
    BY <2>1, <2>2, LenProperties
  <2>4. ASSUME NEW i \in DOMAIN Tail(toPrint), IsPrompt(Tail(toPrint)[i])
        PROVE  i = Len(Tail(toPrint))
    <3>1. i + 1 \in DOMAIN toPrint /\ IsPrompt(toPrint[i + 1])
      BY <2>2, <2>3, <2>4
    <3>2. i + 1 = Len(toPrint)
      BY <3>1 DEF PromptLast
    <3> QED
      BY <2>2, <2>3, <2>4, <3>2
  <2> QED
    BY <2>1, <2>4 DEF PromptLast
<1>3. CASE QemuDies
  BY <1>3 DEF QemuDies, PromptLast
<1>4. CASE HarnessHost \/ TtyEchoes \/ KernelPrints \/ SlowSavevm \/ UNCHANGED harnessVars
  <2>1. UNCHANGED toPrint
    BY <1>4 DEF HarnessHost, Launch, ConnectLines, Recv, GivesUpWaiting, Ask, Collect, Savevm,
                ListSnapshots, ListFails, CloseSession, TtyEchoes, KernelPrints, SlowSavevm,
                guestVars, harnessVars
  <2> QED
    BY <2>1 DEF PromptLast
<1> QED
  BY <1>1, <1>2, <1>3, <1>4 DEF HarnessNext, HarnessGuest

(* What is left of the order when a wait ends at a prompt.                 *)
LEMMA PatternUnmarked ==
  ASSUME NEW s, Pattern(s, step), ~Marked(step)
  PROVE  HasPrompt(s)
BY DEF Pattern, HasPrompt, PiecesIn

LEMMA PromptInPattern ==
  ASSUME NEW s, ~Pattern(s, step)
  PROVE  ~HasPrompt(s)
BY DEF Pattern, HasPrompt, PiecesIn

LEMMA PromptShown ==
  ASSUME HarnessTypeOK, PromptLast, toPrint # <<>>, IsPrompt(Head(toPrint))
  PROVE  Tail(toPrint) = <<>>
<1>1. /\ toPrint \in Seq(Bits) /\ Len(toPrint) \in Nat \ {0} /\ DOMAIN toPrint = 1..Len(toPrint)
      /\ Head(toPrint) = toPrint[1] /\ Tail(toPrint) \in Seq(Bits)
      /\ Len(Tail(toPrint)) = Len(toPrint) - 1
  BY PiecesHead, LenProperties DEF HarnessTypeOK
<1>2. Len(toPrint) = 1
  BY <1>1 DEF PromptLast
<1>3. Len(Tail(toPrint)) = 0
  BY <1>1, <1>2
<1> QED
  BY <1>1, <1>3, EmptySeq

LEMMA OneByOneHost ==
  ASSUME HarnessConstants, HarnessInv, HarnessHost
  PROVE  OneByOne'
<1>1. HarnessTypeOK /\ PiecesIn(<<>>) = {} /\ Len(Script) \in Nat /\ Steps = 1..Len(Script)
      /\ step \in Nat
  BY PiecesNone, ScriptTypes DEF HarnessInv, HarnessShape, HarnessTypeOK
<1>2. CASE Recv
  <2> SUFFICES ASSUME inStep'
               PROVE  OneCommand' /\ AnswerComes' /\ ClaimsRight'
    BY DEF OneByOne
  <2>1. /\ serialIn' = <<>>
        /\ PiecesIn(accumulated') = PiecesIn(accumulated) \cup PiecesIn(serialIn)
        /\ UNCHANGED <<bhQemu, step, guestVars>> /\ bhPc = "wait"
    BY <1>2, RecvOutcome DEF Recv, HarnessInv
  <2>2. ~HasPrompt(accumulated)
    BY <2>1, PromptInPattern DEF HarnessInv, HarnessShape, VerdictRight
  <2>3. RowsIn(accumulated')
    BY <2>1 DEF HarnessInv, RowsTrue, RowsIn
  <2>4. CASE EndWait("matched", accumulated') /\ Pattern(accumulated', step)
    <3>1. inStep /\ ~Marked(step) /\ bhPc' \in {"ask", "save"}
      BY <2>4 DEF EndWait
    <3>2. OneCommand /\ AnswerComes /\ ClaimsRight
      BY <3>1 DEF HarnessInv, OneByOne
    <3>3. HasPrompt(serialIn)
      <4>1. HasPrompt(accumulated')
        BY <2>4, <3>1, PatternUnmarked
      <4> QED
        BY <2>1, <2>2, <4>1 DEF HasPrompt
    <3>4. NothingTyped
      BY <2>1, <3>2, <3>3 DEF OneCommand
    <3>5. OneCommand'
      BY <1>1, <2>1, <3>1, <3>2, <3>4 DEF OneCommand, NothingTyped, HasPrompt, guestVars
    <3>6. step \in Steps /\ Script[step] = "check" => (HasRow(accumulated', step) <=> step \in done)
      <4>1. HasRow(accumulated', step) => step \in done
        BY <2>3 DEF HasRow, RowsIn
      <4>2. ASSUME step \in done, Script[step] = "check"
            PROVE  HasRow(accumulated', step)
        <5>1. HasRow(accumulated, step) \/ HasRow(serialIn, step) \/ HasRow(toPrint, step)
          BY <2>1, <3>2, <3>3, <4>2 DEF AnswerComes
        <5>2. ~HasRow(toPrint, step)
          BY <1>1, <3>4 DEF NothingTyped, HasRow
        <5> QED
          BY <2>1, <5>1, <5>2 DEF HasRow
      <4> QED
        BY <4>1, <4>2
    <3>7. \A k \in Steps : Script[k] = "check" =>
            claim'[k] = IF k = step THEN HasRow(accumulated', k) ELSE claim[k]
      BY <1>1, <2>3, <2>4, EndWaitClaims
    <3>8. ClaimsRight'
      <4>1. ASSUME NEW k \in Steps, Script[k] = "check", k < step \/ k = step
            PROVE  claim'[k] = (k \in done)
        <5>1. CASE k = step
          <6>1. HasRow(accumulated', k) = (k \in done)
            <7>1. HasRow(accumulated', k) <=> k \in done
              BY <3>6, <4>1, <5>1
            <7>2. HasRow(accumulated', k) \in BOOLEAN
              BY DEF HasRow
            <7> QED
              BY <7>1, <7>2
          <6> QED
            BY <3>7, <4>1, <5>1, <6>1
        <5>2. CASE k # step
          BY <3>2, <3>7, <4>1, <5>2 DEF ClaimsRight
        <5> QED
          BY <5>1, <5>2
      <4> QED
        BY <2>1, <4>1 DEF ClaimsRight, guestVars
    <3> QED
      BY <3>1, <3>5, <3>8 DEF AnswerComes
  <2>5. CASE UNCHANGED <<bhPc, claim, bail, inStep>>
    <3>1. OneCommand /\ AnswerComes /\ ClaimsRight /\ bhPc' = "wait"
      BY <2>1, <2>5 DEF HarnessInv, OneByOne
    <3>2. ~HasPrompt(serialIn')
      BY <1>1, <2>1 DEF HasPrompt
    <3>3. OneCommand'
      BY <2>1, <3>1, <3>2 DEF OneCommand, NothingTyped, guestVars
    <3>4. AnswerComes'
      BY <2>1, <3>1, <3>2 DEF AnswerComes, HasRow, guestVars
    <3>5. ClaimsRight'
      BY <2>1, <2>5, <3>1 DEF ClaimsRight, guestVars
    <3> QED
      BY <3>3, <3>4, <3>5
  <2>6. CASE EndWait("bail", accumulated') \/ EndWait("repeat", accumulated')
    BY <2>6 DEF EndWait
  <2> QED
    BY <1>2, <2>4, <2>5, <2>6, RecvOutcome DEF HarnessInv
<1>3. CASE GivesUpWaiting
  <2>1. EndWait("timed out", accumulated) \/ EndWait("connection closed", accumulated)
    BY <1>3 DEF GivesUpWaiting
  <2> QED
    BY <2>1 DEF EndWait, OneByOne
<1>4. CASE Ask /\ bhQemu = "run"
  <2> SUFFICES ASSUME inStep'
               PROVE  OneCommand' /\ AnswerComes' /\ ClaimsRight'
    BY DEF OneByOne
  <2>1. /\ inStep /\ bhPc = "ask" /\ bhPc' = "wait" /\ step' = step + 1
        /\ typedAhead' = Append(typedAhead, step + 1)
        /\ UNCHANGED <<serialIn, claim, commandLines, toPrint, done>>
    BY <1>4 DEF Ask
  <2>2. OneCommand /\ ClaimsRight
    BY <2>1 DEF HarnessInv, OneByOne
  <2>3. typedAhead = <<>> /\ commandLines = <<>> /\ toPrint = <<>> /\ ~HasPrompt(serialIn)
    BY <2>1, <2>2 DEF OneCommand, NothingTyped
  <2>4. step' \notin done /\ \A k \in done : k <= step'
    <3>1. \A k \in done : k \in Nat /\ k <= step
      BY <1>1, <2>2 DEF OneCommand, HarnessTypeOK
    <3> QED
      BY <1>1, <2>1, <3>1
  <2>5. typedAhead' = <<step'>> /\ PiecesIn(typedAhead') = {step'} /\ Len(typedAhead') = 1
    BY <2>1, <2>3 DEF PiecesIn
  <2>6. OneCommand'
    BY <1>1, <2>1, <2>3, <2>4, <2>5 DEF OneCommand
  <2>7. AnswerComes'
    BY <2>1, <2>4 DEF AnswerComes
  <2>8. ClaimsRight'
    BY <1>1, <2>1, <2>2 DEF ClaimsRight
  <2> QED
    BY <2>6, <2>7, <2>8
<1>5. CASE ConnectLines /\ bhPc' = "wait"
  <2>1. /\ UNCHANGED <<step, serialIn, accumulated, claim, inStep, typedAhead, commandLines,
                       toPrint, done>>
        /\ step = 0 /\ serialIn = <<>>
    BY <1>5 DEF ConnectLines, HarnessInv, HarnessShape, waitVars, textVars, guestVars
  <2>2. ~HasPrompt(serialIn) /\ step \notin done
    BY <1>1, <2>1 DEF HasPrompt, HarnessTypeOK
  <2> QED
    BY <1>5, <2>1, <2>2 DEF HarnessInv, OneByOne, OneCommand, AnswerComes, ClaimsRight
<1>6. CASE Collect
  <2>1. /\ UNCHANGED <<bhPc, step, accumulated, claim, inStep, typedAhead, commandLines, toPrint,
                       done>>
        /\ bhPc = "ask" /\ serialIn' = <<>>
    BY <1>6 DEF Collect, waitVars, textVars, guestVars
  <2>2. ~HasPrompt(serialIn')
    BY <1>1, <2>1 DEF HasPrompt
  <2> QED
    BY <2>1, <2>2 DEF HarnessInv, OneByOne, OneCommand, NothingTyped, AnswerComes, ClaimsRight
<1>7. CASE /\ Launch \/ ListSnapshots \/ ListFails \/ CloseSession \/ Savevm
              \/ (Ask /\ bhQemu # "run") \/ (ConnectLines /\ bhPc' # "wait")
  <2>1. /\ UNCHANGED <<step, claim, inStep, typedAhead, commandLines, toPrint, done>>
        /\ bhPc' \notin {"wait", "ask", "save"}
    BY <1>7 DEF Launch, ListSnapshots, ListFails, CloseSession, Savevm, Ask, ConnectLines,
                waitVars, textVars, guestVars
  <2> QED
    BY <2>1 DEF HarnessInv, OneByOne, OneCommand, AnswerComes, ClaimsRight
<1> QED
  BY <1>2, <1>3, <1>4, <1>5, <1>6, <1>7 DEF HarnessHost

LEMMA OneByOneGuest ==
  ASSUME HarnessConstants, HarnessInv, HarnessGuest
  PROVE  OneByOne'
<1>1. HarnessTypeOK /\ PiecesIn(<<>>) = {} /\ Len(Script) \in Nat /\ Steps = 1..Len(Script)
      /\ step \in Nat
  BY PiecesNone, ScriptTypes DEF HarnessInv, HarnessShape, HarnessTypeOK
<1> SUFFICES ASSUME inStep'
             PROVE  OneCommand' /\ AnswerComes' /\ ClaimsRight'
  BY DEF OneByOne
<1>2. UNCHANGED <<bhPc, step, accumulated, claim, inStep>>
  BY DEF HarnessGuest, TtyEchoes, ShellRuns, ShellPrints, KernelPrints, SlowSavevm, QemuDies,
         waitVars, textVars
<1>3. OneCommand /\ AnswerComes /\ ClaimsRight
  BY <1>2 DEF HarnessInv, OneByOne
<1>4. RowsIn(serialIn) /\ RowsIn(accumulated) /\ RowsIn(toPrint)
  BY DEF HarnessInv, RowsTrue
<1>5. CASE TtyEchoes
  <2> DEFINE k == Head(typedAhead)
  <2>1. /\ typedAhead \in Seq(Steps) /\ typedAhead # <<>> /\ commandLines \in Seq(Steps)
        /\ typedAhead' = Tail(typedAhead) /\ commandLines' = Append(commandLines, k)
        /\ Prints(Bit("echo", k)) /\ UNCHANGED <<bhQemu, toPrint, done>>
    BY <1>1, <1>5 DEF TtyEchoes, HarnessTypeOK, Alive
  <2>2. /\ k \in Steps /\ typedAhead' \in Seq(Steps) /\ Len(typedAhead) \in Nat \ {0}
        /\ Len(typedAhead') = Len(typedAhead) - 1
        /\ PiecesIn(typedAhead) = {k} \cup PiecesIn(typedAhead')
    BY <2>1, PiecesHead
  <2>3. /\ Len(commandLines') = Len(commandLines) + 1 /\ Len(commandLines) \in Nat
        /\ PiecesIn(commandLines') = PiecesIn(commandLines) \cup {k}
    BY <2>1, <2>2, PiecesAppend, LenProperties
  <2>4. Bit("echo", k) \in Bits /\ Bit("echo", k).kind = "echo"
    BY <2>2, PieceTypes
  <2> HIDE DEF k
  <2>5. PiecesIn(serialIn') \subseteq PiecesIn(serialIn) \cup {Bit("echo", k)}
        /\ (bhPc = "wait" => PiecesIn(serialIn) \subseteq PiecesIn(serialIn'))
    BY <1>1, <2>1, <2>4, PrintsTypes
  <2>6. HasPrompt(serialIn') => HasPrompt(serialIn)
    BY <2>4, <2>5 DEF HasPrompt, IsPrompt
  <2>7. OneCommand'
    <3>1. ~NothingTyped
      BY <2>1 DEF NothingTyped
    <3>2. bhPc \notin {"ask", "save"} /\ ~(bhPc = "wait" /\ HasPrompt(serialIn))
      BY <1>3, <3>1 DEF OneCommand
    <3>3. \A x \in PiecesIn(typedAhead') \cup PiecesIn(commandLines') : x = step
      BY <1>3, <2>2, <2>3 DEF OneCommand
    <3>4. Len(typedAhead') + Len(commandLines') <= 1
      BY <1>3, <2>2, <2>3 DEF OneCommand
    <3>5. toPrint = <<>> /\ step \notin done
      BY <1>3, <2>1 DEF OneCommand
    <3> QED
      BY <1>2, <1>3, <2>1, <2>6, <3>2, <3>3, <3>4, <3>5 DEF OneCommand
  <2>8. AnswerComes'
    BY <1>2, <1>3, <2>1, <2>5, <2>6 DEF AnswerComes, HasRow
  <2> QED
    BY <1>2, <1>3, <2>1, <2>7, <2>8 DEF ClaimsRight
<1>6. CASE ShellRuns
  <2> DEFINE k == Head(commandLines)
             r == Bit(IF Script[k] = "check" THEN "row" ELSE "mark", k)
             q == Bit("prompt", 0)
  <2>1. /\ commandLines \in Seq(Steps) /\ commandLines # <<>> /\ typedAhead \in Seq(Steps)
        /\ commandLines' = Tail(commandLines) /\ UNCHANGED <<bhQemu, serialIn, typedAhead>>
        /\ \/ done' = done \cup {k} /\ toPrint' = <<r, q>>
           \/ done' = done /\ toPrint' = <<q>>
    BY <1>1, <1>6 DEF ShellRuns, HarnessTypeOK, Alive
  <2>2. /\ k \in Steps /\ commandLines' \in Seq(Steps) /\ Len(commandLines) \in Nat \ {0}
        /\ Len(commandLines') = Len(commandLines) - 1
        /\ PiecesIn(commandLines) = {k} \cup PiecesIn(commandLines')
        /\ Len(typedAhead) \in Nat
    BY <2>1, PiecesHead, LenProperties
  <2>3. k = step /\ step \notin done
    BY <1>3, <2>1, <2>2 DEF OneCommand
  <2>4. Len(typedAhead) = 0 /\ Len(commandLines') = 0
    BY <1>3, <2>2 DEF OneCommand
  <2>5. typedAhead' = <<>> /\ commandLines' = <<>>
    BY <2>1, <2>2, <2>4, EmptySeq
  <2>6. bhPc \notin {"ask", "save"} /\ ~(bhPc = "wait" /\ HasPrompt(serialIn))
    BY <1>3, <2>1 DEF OneCommand, NothingTyped
  <2>7. r.of = k /\ (Script[k] = "check" => r.kind = "row")
    BY PieceTypes
  <2> HIDE DEF k, r, q
  <2>8. OneCommand'
    <3>1. \A x \in done' : x <= step
      <4>1. step <= step
        BY <1>1
      <4> QED
        BY <1>3, <2>1, <2>3, <4>1 DEF OneCommand
    <3>2. Len(typedAhead') + Len(commandLines') <= 1
      BY <2>5
    <3>3. PiecesIn(typedAhead') \cup PiecesIn(commandLines') = {}
      BY <1>1, <2>5
    <3>4. bhPc' \notin {"ask", "save"} /\ ~(bhPc' = "wait" /\ HasPrompt(serialIn'))
      BY <1>2, <2>1, <2>6
    <3> QED
      BY <1>2, <2>5, <3>1, <3>2, <3>3, <3>4 DEF OneCommand
  <2>9. AnswerComes'
    <3>1. CASE done' = done
      BY <1>2, <2>3, <3>1 DEF AnswerComes
    <3>2. CASE toPrint' = <<r, q>>
      <4>1. r \in PiecesIn(<<r, q>>)
        BY DEF PiecesIn
      <4> QED
        BY <1>2, <2>3, <2>7, <3>2, <4>1 DEF AnswerComes, HasRow
    <3> QED
      BY <2>1, <3>1, <3>2
  <2>10. ClaimsRight'
    <3>1. \A x \in Steps : (x < step \/ (x = step /\ bhPc \in {"ask", "save"})) =>
            (x \in done' <=> x \in done)
      BY <1>1, <2>1, <2>3, <2>6
    <3> QED
      BY <1>2, <1>3, <3>1 DEF ClaimsRight
  <2> QED
    BY <2>8, <2>9, <2>10
<1>7. CASE ShellPrints
  <2> DEFINE h == Head(toPrint)
  <2>1. /\ toPrint \in Seq(Bits) /\ toPrint # <<>> /\ toPrint' = Tail(toPrint) /\ Prints(h)
        /\ UNCHANGED <<bhQemu, typedAhead, commandLines, done>>
    BY <1>1, <1>7 DEF ShellPrints, HarnessTypeOK, Alive
  <2>2. h \in Bits /\ PiecesIn(toPrint) = {h} \cup PiecesIn(toPrint')
    BY <2>1, PiecesHead
  <2>3. PiecesIn(serialIn') \subseteq PiecesIn(serialIn) \cup {h}
        /\ (bhPc = "wait" => PiecesIn(serialIn') = PiecesIn(serialIn) \cup {h})
    BY <1>1, <2>1, <2>2, PiecesNone, PrintsTypes
  <2>4. typedAhead = <<>> /\ commandLines = <<>> /\ ~NothingTyped
    BY <1>3, <2>1 DEF OneCommand, NothingTyped
  <2>5. IsPrompt(h) => toPrint' = <<>>
    BY <1>1, <2>1, PromptShown DEF HarnessInv
  <2> HIDE DEF h
  <2>6. bhPc \notin {"ask", "save"} /\ ~(bhPc = "wait" /\ HasPrompt(serialIn))
    BY <1>3, <2>4 DEF OneCommand
  <2>7. bhPc = "wait" /\ HasPrompt(serialIn') => IsPrompt(h)
    BY <2>3, <2>6 DEF HasPrompt
  <2>8. OneCommand'
    BY <1>2, <1>3, <2>1, <2>4, <2>5, <2>6, <2>7 DEF OneCommand, NothingTyped
  <2>9. AnswerComes'
    <3>1. ASSUME bhPc = "wait", step \in done, Script[step] = "check",
                 bhQemu = "run" \/ HasPrompt(serialIn')
          PROVE  HasRow(accumulated, step) \/ HasRow(serialIn', step) \/ HasRow(toPrint', step)
      <4>1. bhQemu = "run"
        BY <1>7 DEF ShellPrints, Alive
      <4>2. HasRow(accumulated, step) \/ HasRow(serialIn, step) \/ HasRow(toPrint, step)
        BY <1>3, <3>1, <4>1 DEF AnswerComes
      <4> QED
        BY <2>2, <2>3, <3>1, <4>2 DEF HasRow
    <3> QED
      BY <1>2, <2>1, <3>1 DEF AnswerComes
  <2> QED
    BY <1>2, <1>3, <2>1, <2>8, <2>9 DEF ClaimsRight
<1>8. CASE KernelPrints
  <2>1. UNCHANGED <<bhQemu, typedAhead, commandLines, toPrint, done>>
    BY <1>8 DEF KernelPrints, Alive
  <2>2. PICK p \in Bits : Prints(p) /\ ~IsPrompt(p)
    BY <1>8, PieceTypes DEF KernelPrints, IsPrompt
  <2>3. PiecesIn(serialIn') \subseteq PiecesIn(serialIn) \cup {p}
        /\ (bhPc = "wait" => PiecesIn(serialIn) \subseteq PiecesIn(serialIn'))
    BY <1>1, <2>2, PrintsTypes
  <2>4. HasPrompt(serialIn') => HasPrompt(serialIn)
    BY <2>2, <2>3 DEF HasPrompt
  <2>5. OneCommand'
    BY <1>2, <1>3, <2>1, <2>4 DEF OneCommand, NothingTyped
  <2>6. AnswerComes'
    BY <1>2, <1>3, <2>1, <2>3, <2>4 DEF AnswerComes, HasRow
  <2> QED
    BY <1>2, <1>3, <2>1, <2>5, <2>6 DEF ClaimsRight
<1>9. CASE SlowSavevm
  <2>1. UNCHANGED <<bhQemu, serialIn, typedAhead, commandLines, toPrint, done>>
    BY <1>9 DEF SlowSavevm, guestVars
  <2> QED
    BY <1>2, <1>3, <2>1 DEF OneCommand, NothingTyped, AnswerComes, ClaimsRight
<1>10. CASE QemuDies
  <2>1. /\ typedAhead' = <<>> /\ commandLines' = <<>> /\ toPrint' = <<>> /\ bhQemu' = "dead"
        /\ UNCHANGED <<serialIn, done>>
    BY <1>10 DEF QemuDies
  <2>2. OneCommand'
    BY <1>1, <1>2, <1>3, <2>1 DEF OneCommand, NothingTyped
  <2>3. AnswerComes'
    <3>1. ASSUME bhPc = "wait", step \in done, Script[step] = "check", HasPrompt(serialIn)
          PROVE  HasRow(accumulated, step) \/ HasRow(serialIn, step)
      <4>1. toPrint = <<>>
        BY <1>3, <3>1 DEF OneCommand, NothingTyped
      <4>2. ~HasRow(toPrint, step)
        BY <1>1, <4>1 DEF HasRow
      <4> QED
        BY <1>3, <3>1, <4>2 DEF AnswerComes
    <3> QED
      BY <1>2, <2>1, <3>1 DEF AnswerComes
  <2> QED
    BY <1>2, <1>3, <2>1, <2>2, <2>3 DEF ClaimsRight
<1> QED
  BY <1>5, <1>6, <1>7, <1>8, <1>9, <1>10 DEF HarnessGuest

-----------------------------------------------------------------------------
(* BootHarness: the theorem.                                               *)

LEMMA HarnessStarts ==
  ASSUME HarnessConstants, HarnessInit
  PROVE  HarnessInv
<1>1. /\ Len(Script) \in Nat /\ Steps = 1..Len(Script) /\ ListTries \in Nat \ {0}
      /\ MaxNoise \in Nat
      /\ MaxGiveUps \in Nat /\ PiecesIn(<<>>) = {} /\ <<>> \in Seq(Bits) /\ <<>> \in Seq(Steps)
      /\ <<>> \in Seq(Seq(Bits))
  BY ScriptTypes, PiecesNone, EmptySeq
<1>2. Bit("prompt", 0) \in Bits /\ Bit("prompt", 0).kind = "prompt"
  BY PieceTypes
<1>3. /\ toPrint \in Seq(Bits) /\ PiecesIn(toPrint) = {Bit("prompt", 0)} /\ DOMAIN toPrint = {1}
      /\ Len(toPrint) = 1
  BY <1>2 DEF HarnessInit, PiecesIn
<1>4. HarnessTypeOK
  <2>1. claim \in [Steps -> BOOLEAN]
    BY DEF HarnessInit
  <2>2. \A s \in {serialIn, accumulated, toPrint} : s \in Seq(Bits)
    BY <1>1, <1>3 DEF HarnessInit
  <2>3. \A s \in {typedAhead, commandLines} : s \in Seq(Steps)
    BY <1>1 DEF HarnessInit
  <2>4. gaveUp \in 0..MaxGiveUps /\ noise \in 0..MaxNoise /\ tries \in 0..ListTries
    BY <1>1 DEF HarnessInit
  <2> QED
    BY <1>1, <2>1, <2>2, <2>3, <2>4 DEF HarnessInit, HarnessTypeOK, Reasons
<1>5. HarnessShape
  BY <1>1, <1>4 DEF HarnessInit, HarnessShape, TextWhole, VerdictRight
<1>6. SnapshotReal /\ PromptLast
  BY <1>3 DEF HarnessInit, SnapshotReal, NoQemuLeft, PromptLast
<1>7. RowsTrue
  BY <1>1, <1>2, <1>3 DEF HarnessInit, RowsTrue, RowsIn
<1>8. OneByOne
  <2>1. OneCommand
    <3>1. Len(typedAhead) + Len(commandLines) <= 1
      BY DEF HarnessInit
    <3>2. PiecesIn(typedAhead) \cup PiecesIn(commandLines) = {}
      BY <1>1 DEF HarnessInit
    <3> QED
      BY <3>1, <3>2 DEF HarnessInit, OneCommand
  <2>2. ClaimsRight
    BY <1>1 DEF HarnessInit, ClaimsRight
  <2> QED
    BY <2>1, <2>2 DEF HarnessInit, OneByOne, AnswerComes
<1> QED
  BY <1>5, <1>6, <1>7, <1>8 DEF HarnessInv

LEMMA HarnessSteps ==
  ASSUME HarnessConstants, HarnessInv, [HarnessNext]_harnessVars
  PROVE  HarnessInv'
<1>1. HarnessShape /\ SnapshotReal /\ RowsTrue /\ PromptLast /\ HarnessTypeOK
  BY DEF HarnessInv, HarnessShape
<1>2. HarnessShape' /\ SnapshotReal' /\ RowsTrue' /\ PromptLast'
  BY <1>1, ShapeStep, SnapshotStep, RowsStep, PromptStep
<1>3. OneByOne'
  <2>1. CASE HarnessNext
    BY <2>1, OneByOneHost, OneByOneGuest DEF HarnessNext
  <2>2. CASE UNCHANGED harnessVars
    BY <2>2 DEF HarnessInv, OneByOne, OneCommand, NothingTyped, HasPrompt, AnswerComes, HasRow,
                ClaimsRight, PiecesIn, harnessVars, waitVars, textVars, guestVars
  <2> QED
    BY <2>1, <2>2
<1> QED
  BY <1>2, <1>3 DEF HarnessInv

(* The invariant that the three statements below follow from: nothing that *)
(* the session, the script or the guest does breaks it.                    *)
THEOREM HarnessKept == HarnessSpec => []HarnessInv
<1>1. HarnessInit => HarnessInv
  BY HarnessConstants, HarnessStarts
<1>2. HarnessInv /\ [HarnessNext]_harnessVars => HarnessInv'
  BY HarnessConstants, HarnessSteps
<1> QED
  BY <1>1, <1>2, PTL DEF HarnessSpec

(* Everything the session, the script and the guest keep has its type, and *)
(* save_snapshot() asks for no more listings than it may.                  *)
THEOREM HarnessTypes == HarnessSpec => []HarnessTypeOK
<1>1. HarnessInv => HarnessTypeOK
  BY DEF HarnessInv, HarnessShape
<1> QED
  BY <1>1, HarnessKept, PTL

(* However reads cut the text: wait_for() keeps as many lines as it has,   *)
(* those that no read has cut as they are, until a read ends in the blanks *)
(* a line begins with; its verdict is of what it read; what the script     *)
(* believes of a package, and save_snapshot() of a snapshot, is so; and no *)
(* QEMU outlives its session.                                              *)
THEOREM HarnessIsSound == HarnessSpec => []HarnessSound
<1>1. HarnessInv => HarnessSound
  <2> SUFFICES ASSUME HarnessInv
               PROVE  HarnessSound
    OBVIOUS
  <2>1. TextWhole /\ VerdictRight /\ NoQemuLeft
    BY DEF HarnessInv, HarnessShape, SnapshotReal
  <2>2. SavedIsThere
    BY DEF HarnessInv, SnapshotReal, SavedIsThere
  <2>3. ChecksTrue
    BY DEF HarnessInv, RowsTrue, OneByOne, ClaimsRight, ChecksTrue
  <2> QED
    BY <2>1, <2>2, <2>3 DEF HarnessSound
<1> QED
  BY <1>1, HarnessKept, PTL

=============================================================================
