----------------------------- MODULE InstPasses -----------------------------
(***************************************************************************)
(* The legacy installer, pyirix_qemu/install/irix.py: how it drives IRIX's *)
(* inst through the distributions of an installation, what it selects,     *)
(* how it settles the conflicts inst reports, when it sends "go", and what *)
(* it says of the result.                                                  *)
(*                                                                         *)
(* inst is external: packages need others and clash, "go" is refused while *)
(* there are conflicts and installs the selection otherwise, conflicts     *)
(* are numbered from 1 in an order of inst's and again after each command  *)
(* that changes them.  The prompts a command has to get past (pagers,      *)
(* questions) are not steps of their own: a command is one step.           *)
(***************************************************************************)
EXTENDS Integers, Sequences, FiniteSets, SequencesExt

CONSTANTS
  Packages,          \* numbers, in the order of inst's lists
  Needs, Clash,      \* prerequisites of each; incompatible pairs
  Discs, OnDisc,     \* the distributions in order; the packages of each
  Combined,          \* the one distribution of a "single" image
  EarlyDiscs,        \* "foundation" and "june" distributions
  Wanted,            \* what install_level selects
  Essential, Critical, Core,
  Required,          \* what inst insists on
  Base,              \* what is on a disk that an addon goes to
  Decisions,         \* what a file of decisions may leave out
  RoundsMax,         \* max_rounds
  AlsoRounds,        \* also_install_max_rounds
  Batch,             \* choices sent at once by _resolve_conflicts()
  ApplyBatch,        \* and by _apply_conflict_resolutions()
  GoTries, LiveTries, \* times "go" is sent again after conflicts
  QuitTries,         \* and "quit", in the turns of phase_quit_and_build()
  MaxIdle            \* bound: rounds in which inst asks by itself, in vain

ASSUME InstConstants ==
  /\ Packages \subseteq Nat /\ IsFiniteSet(Packages)
  /\ Needs \in [Packages -> SUBSET Packages]
  /\ \A pair \in Clash : pair \subseteq Packages /\ Cardinality(pair) = 2
  /\ OnDisc \in [ToSet(Discs) \cup {Combined} -> SUBSET Packages]
  /\ Discs \in Seq(ToSet(Discs)) \ {<<>>} /\ EarlyDiscs \subseteq ToSet(Discs)
  /\ Wanted \cup Essential \cup Critical \cup Core \cup Required \cup Base \subseteq Packages
  /\ Decisions \subseteq SUBSET Packages
  /\ {RoundsMax, AlsoRounds, GoTries, LiveTries, QuitTries, MaxIdle} \subseteq Nat
  /\ {Batch, ApplyBatch} \subseteq Nat \ {0}

VARIABLES
  stage,      \* where the driver is
  flow,       \* "percd", "single": combined image; "cds"; "addon"; "live"
  mode,       \* conflict_mode
  decided,    \* conflict_resolutions: packages to leave out
  visit,      \* the number of the visit
  queue,      \* distributions this visit has yet to open
  count,      \* distributions it takes to be open
  opened,     \* distributions that inst has open
  sel, leaving, installed,  \* inst's selection, removals and what is on disk
  round, resolved,          \* _resolve_conflicts(): round, and its answer
  idle,       \* rounds of it that settled nothing
  after,      \* the stage that follows it
  tries,      \* conflicts met by "go" or "quit" in this visit
  labels,     \* labels_to_send
  anew,      \* _unselected: critical packages selected anew, in the last visit
  marred,     \* conflicts were left in the last visit, or its "go" broken off
  seen,       \* _incompatible_pkgs_seen
  missing     \* critical_missing, as recorded

flowVars == <<flow, mode, decided>>
openVars == <<visit, queue, count, opened>>
pkgVars  == <<sel, leaving, installed>>
roundVars == <<round, idle, resolved, after>>
sendVars  == <<tries, labels>>
visitVars == <<anew, marred>>
noteVars  == <<seen, missing>>
instVars == <<stage, flowVars, openVars, pkgVars, roundVars, sendVars, visitVars, noteVars>>

-----------------------------------------------------------------------------
(* The visits of a flow: a list of distributions with one "go".            *)

Visit(discs, first, also, check) ==
  [discs |-> discs, first |-> first, also |-> also, check |-> check]

IsEarly(d) == d \in EarlyDiscs
IsLate(d)  == d \notin EarlyDiscs

SecondByFrom == "from"                                    \* a mistake
SecondByOpen == "open"

(* The distributions at these positions, in their order.                   *)
InOrder(S) == [n \in 1..Cardinality(S) |-> CHOOSE k \in S : Cardinality({j \in S : j <= k}) = n]
Those(at)  == [n \in 1..Cardinality(at) |-> Discs[InOrder(at)[n]]]
Early == Those({k \in DOMAIN Discs : IsEarly(Discs[k])})
Late  == Those({k \in DOMAIN Discs : IsLate(Discs[k])})

PerCdVisits ==
  << Visit(Early, "from", FALSE, "none"), Visit(Late, SecondByOpen, FALSE, "fail") >>
CdVisits ==
  LET installs == [k \in DOMAIN Discs |-> Visit(<<Discs[k]>>, "from", TRUE, "none")]
      again   == Late
  IN  installs \o [k \in DOMAIN again |-> Visit(<<again[k]>>, "from", FALSE, "none")]

Visits(f, m) ==
  CASE f = "percd" /\ m = "auto"  -> PerCdVisits
    [] f = "percd" /\ m # "auto"  -> << Visit(Discs, "from", TRUE, "reselect") >>
    [] f = "single" -> << Visit(<<Combined>>, "from", TRUE, "reselect") >>
    [] f = "cds"    -> CdVisits
    [] f = "addon"  -> << Visit(Discs, "from", FALSE, "none") >>
    [] f = "live"   -> << Visit(<<Discs[1]>>, "from", FALSE, "none") >>
    [] OTHER        -> << >>

Now == Visits(flow, mode)[visit]
Reconciling == flow = "cds" /\ visit > Len(Discs)
OnSystem == {"addon", "live"}      \* flows on a system that runs

-----------------------------------------------------------------------------
(* inst's conflicts.                                                       *)

There == sel \cup (installed \ leaving)
Available == UNION {OnDisc[d] : d \in opened}

Conflict(type, subject, other) == [type |-> type, subject |-> subject, other |-> other]
Lacking == {l \in There \X Packages : l[2] \in Needs[l[1]] \ There}
Clashing ==
  {l \in sel \X There : {l[1], l[2]} \in Clash /\ (l[2] \in sel => l[1] < l[2])}
Conflicts ==
  {Conflict(IF l[1] \in sel THEN "missing_prereq" ELSE "cannot_remove", l[1], l[2]) :
     l \in Lacking}
  \cup {Conflict("incompatible", l[1], l[2]) : l \in Clashing}
  \cup {Conflict("required", p, p) : p \in Required \ There}

Before(c, d) ==
  c.subject < d.subject \/ (c.subject = d.subject /\ c.other < d.other)
Number(c) == 1 + Cardinality({d \in Conflicts : Before(d, c)})
Numbered(numbers) == {c \in Conflicts : Number(c) \in numbers}

(* _select_conflict_option(): the option taken, as what it does to which   *)
(* package.  What inst insists on may only be installed, or sought in      *)
(* another distribution, which comes to nothing: the first option is taken *)
(* then, whatever it is.                                                   *)
Choice(action, package) == [action |-> action, package |-> package]
Option(c, also) ==
  CASE c.type = "missing_prereq" /\ also /\ c.other \in Available -> Choice("install", c.other)
    [] c.type = "required" ->
         Choice(IF c.subject \in Available THEN "install" ELSE "open", c.subject)
    [] c.type = "cannot_remove" -> Choice("remove", c.subject)
    [] c.type = "incompatible" /\ c.other \in sel /\ c.subject \in Core /\ c.other \notin Core
                                -> Choice("keep", c.other)
    [] OTHER                    -> Choice("keep", c.subject)

Chosen(choices, action) == {c.package : c \in {d \in choices : d.action = action}}

(* What inst does with a "conflicts" command: a package to install that it *)
(* was to remove stays.                                                    *)
NotYet(ps) == ps \ installed
Applied(choices) ==
  /\ sel' = (sel \ Chosen(choices, "keep")) \cup NotYet(Chosen(choices, "install"))
  /\ leaving' = (leaving \ Chosen(choices, "install")) \cup Chosen(choices, "remove")

-----------------------------------------------------------------------------
(* Types and initial state.                                                *)

(* Packages that need or exclude others, and the rounds there are beyond   *)
(* one for each of them and of those inst insists on.                      *)
Troubled == {p \in Packages : Needs[p] # {} \/ \E pair \in Clash : p \in pair}
Spare    == RoundsMax - (AlsoRounds + Cardinality(Troubled \cup Required))

Stages == {"idle", "mount", "open", "select", "resolve", "match", "apply", "check", "recheck", "go",
           "quit", "verify", "done", "failed"}

InstTypeOK ==
  /\ stage \in Stages /\ after \in Stages
  /\ flow \in {"none", "percd", "single", "cds", "addon", "live"}
  /\ mode \in {"auto", "collect", "apply"} /\ decided \subseteq Packages
  /\ visit \in 0..(Len(Visits(flow, mode)) + 1)
  /\ queue \in Seq(DOMAIN OnDisc) /\ opened \subseteq DOMAIN OnDisc /\ count \in 0..Len(Discs)
  /\ sel \cup leaving \cup installed \cup missing \cup anew \cup seen \subseteq Packages
  /\ sel \cap installed = {} /\ leaving \subseteq installed
  /\ round \in 0..RoundsMax /\ idle \in 0..RoundsMax /\ {resolved, marred} \subseteq BOOLEAN
  /\ tries \in UNION {0..GoTries, 0..LiveTries, 0..QuitTries}
  /\ labels \subseteq Nat \ {0}

InstInit ==
  /\ stage = "idle" /\ after = "idle" /\ flow = "none" /\ mode = "auto" /\ decided = {}
  /\ visit = 0 /\ queue = <<>> /\ count = 0 /\ opened = {}
  /\ sel = {} /\ leaving = {} /\ installed = {} /\ missing = {}
  /\ round = 0 /\ idle = 0 /\ resolved = TRUE /\ tries = 0 /\ labels = {}
  /\ anew = {} /\ marred = FALSE /\ seen = {}

-----------------------------------------------------------------------------
(* Moving between visits.                                                  *)

GoTo(s) == stage' = s
BeginVisit(f, k) ==
  /\ flow' = f /\ visit' = k /\ count' = 0 /\ tries' = 0
  /\ IF k > Len(Visits(f, mode))
       THEN /\ queue' = <<>> /\ UNCHANGED anew
            /\ GoTo(IF f \in OnSystem \/ mode = "collect" THEN "done" ELSE "quit")
       ELSE /\ queue' = Visits(f, mode)[k].discs /\ anew' = {}
            /\ GoTo(IF k = 1 \/ f = "cds" THEN "mount" ELSE "open")
(* mars: something went wrong at the end of this one.                      *)
NextVisit(mars) ==
  /\ BeginVisit(flow, visit + 1) /\ UNCHANGED decided
  /\ marred' = (visit >= Len(Visits(flow, mode)) /\ (marred \/ mars))
CdByCd == BeginVisit("cds", 1) /\ marred' = FALSE /\ decided' = {}

(* phase_install() takes the combined image if there is one, or the CDs;   *)
(* install_addon() and _run_live_inst() start on a system that runs.       *)
StartInstall ==
  /\ stage = "idle"
  /\ \E f \in {"percd", "single", "cds"} \cup OnSystem, m \in {"auto", "collect", "apply"},
        some \in Decisions \cup {{}} :
       /\ m # "auto" => f \in {"percd", "single"}
       /\ m = "apply" <=> some # {}
       /\ mode' = m /\ decided' = some
       /\ installed' = IF f \in OnSystem THEN Base ELSE {}
       /\ flow' = f /\ visit' = 1 /\ queue' = Visits(f, m)[1].discs
  /\ GoTo("mount")
  /\ UNCHANGED <<count, opened, sel, leaving, roundVars, sendVars, visitVars, noteVars>>

(* Mounting the image, or the CD of the visit.                             *)
Mounted ==
  /\ stage = "mount" /\ GoTo("open")
  /\ UNCHANGED <<flowVars, openVars, pkgVars, roundVars, sendVars, visitVars, noteVars>>
MountFails ==
  /\ stage = "mount"
  /\ CASE flow \in {"percd", "single"} -> CdByCd
       [] Reconciling                  -> NextVisit(FALSE)
       [] OTHER -> /\ GoTo(IF flow = "live" THEN "done" ELSE "failed")
                   /\ UNCHANGED <<flow, decided, visit, queue, count, tries, visitVars>>
  /\ UNCHANGED <<mode, opened, pkgVars, roundVars, labels, noteVars>>

(* "from" closes what is open and "open" does not.  A distribution that    *)
(* inst cannot read is not counted; one that it answered with its menu of  *)
(* sources, twice, is.                                                     *)
OpenDisc ==
  /\ stage = "open" /\ queue # <<>>
  /\ LET disc   == Head(queue)
         starts == count = 0 /\ Now.first = "from"
     IN  \/ /\ opened' = (IF starts THEN {} ELSE opened) \cup {disc}
            /\ count' = count + 1
         \/ UNCHANGED <<opened, count>>
         \/ UNCHANGED opened /\ count' = count + 1
  /\ queue' = Tail(queue)
  /\ UNCHANGED <<stage, flowVars, visit, pkgVars, roundVars, sendVars, visitVars, noteVars>>
OpenEnds ==
  /\ stage = "open" /\ queue = <<>>
  /\ IF count > 0 \/ flow \in OnSystem
       THEN GoTo("select") /\ UNCHANGED <<flow, decided, visit, queue, count, tries, visitVars>>
       ELSE IF Now.check = "reselect" THEN CdByCd ELSE NextVisit(FALSE)
  /\ UNCHANGED <<mode, opened, pkgVars, roundVars, labels, noteVars>>

Resolve(next) == GoTo("resolve") /\ after' = next /\ round' = 0 /\ idle' = 0
NoResolve == UNCHANGED <<after, round, idle>>

(* "keep *", the essential packages, the level, "install prereqs".         *)
Select ==
  /\ stage = "select"
  /\ LET essential == IF flow = "percd" /\ mode = "auto" /\ visit = 1 THEN Essential ELSE {}
         asked     == NotYet((Wanted \cup essential) \cap Available)
     IN  sel' = asked \cup NotYet(UNION {Needs[p] : p \in asked} \cap Available)
  /\ leaving' = {}
  /\ CASE mode = "collect" /\ flow # "cds" -> GoTo("done") /\ NoResolve
       [] mode = "apply" /\ flow # "cds" -> GoTo("match") /\ NoResolve
       [] flow = "live"    -> GoTo("go") /\ NoResolve
       [] OTHER            -> Resolve("check")
  /\ UNCHANGED <<flowVars, openVars, installed, resolved, sendVars, visitVars, noteVars>>

-----------------------------------------------------------------------------
(* _resolve_conflicts(): a round collects the conflicts and settles the    *)
(* first Batch of them.                                                    *)
NextRound ==
  /\ round' = round + 1
  /\ idle' = IF UNCHANGED <<sel, leaving>> THEN idle + 1 ELSE idle

AlsoForever == after = "check" /\ Now.also               \* a mistake
AlsoNow == after = "check" /\ Now.also /\ round < AlsoRounds

ResolveRound ==
  /\ stage = "resolve" /\ round < RoundsMax /\ Conflicts # {}
  /\ Applied({Option(c, AlsoNow) : c \in Numbered(1..Batch)})
  /\ NextRound
  /\ UNCHANGED <<stage, flowVars, openVars, installed, resolved, after, sendVars, visitVars,
                 noteVars>>

(* inst may ask about incompatibilities by itself: they are postponed, and *)
(* the packages named as being in the way are removed, whatever they are.  *)
(* What is not on the disk cannot be, and the text may name none.          *)
ResolveInline ==
  /\ stage = "resolve" /\ round < RoundsMax /\ Clashing # {}
  /\ \E blockers \in SUBSET ({l[2] : l \in Clashing} \cap installed) :
       (blockers \subseteq leaving => idle < MaxIdle) /\ leaving' = leaving \cup blockers
  /\ UNCHANGED sel /\ NextRound
  /\ UNCHANGED <<stage, flowVars, openVars, installed, resolved, after, sendVars, visitVars,
                 noteVars>>

(* A listing that comes empty, or that cannot be parsed, is taken for no   *)
(* conflicts.                                                              *)
ResolveEnds ==
  /\ stage = "resolve" /\ GoTo(after)
  /\ resolved' = (round < RoundsMax) /\ round' = 0
  /\ marred' = (marred \/ (after # "quit" /\ (~resolved' \/ Conflicts # {})))
  /\ UNCHANGED <<flowVars, openVars, pkgVars, idle, after, sendVars, anew, noteVars>>

(* _apply_conflict_resolutions(): decisions are matched with the conflicts *)
(* by subject, which the parser does not set for the others; the first     *)
(* option is taken when there is none to leave the package out.  The       *)
(* labels of one listing are sent ApplyBatch at a time.                    *)
HasSubject == {"incompatible", "required"}
ForDecided == {c \in Conflicts : c.type \in HasSubject /\ c.subject \in decided}
LeaveOut(c) == IF c.type = "required" THEN Option(c, FALSE) ELSE Choice("keep", c.subject)
FirstLabels == {n \in labels : Cardinality({m \in labels : m < n}) < ApplyBatch}

Match ==
  /\ stage = "match" /\ GoTo("apply") /\ labels' = {Number(c) : c \in ForDecided}
  /\ UNCHANGED <<flowVars, openVars, pkgVars, roundVars, tries, visitVars, noteVars>>
ApplyLabels ==
  /\ stage = "apply" /\ labels # {}
  /\ Applied({LeaveOut(c) : c \in Numbered(FirstLabels)})
  /\ labels' = labels \ FirstLabels
  /\ UNCHANGED <<stage, flowVars, openVars, installed, roundVars, tries, visitVars, noteVars>>
ApplyEnds ==
  /\ stage = "apply" /\ labels = {} /\ GoTo("check")
  /\ resolved' = (\A c \in Conflicts : c.type = "cannot_remove")
  /\ UNCHANGED <<flowVars, openVars, pkgVars, round, idle, after, sendVars, visitVars, noteVars>>

-----------------------------------------------------------------------------
Mentioned == Critical \cap Available                      \* a mistake
Marked    == Critical \cap There

(* Before "go", "list" is asked: which critical packages are not there?    *)
(* Those are selected anew, once, and only they are looked at again.       *)
LookedAt == IF anew = {} THEN Critical ELSE anew
CheckTargets ==
  /\ stage \in {"check", "recheck"}
  /\ IF Now.check = "none" \/ LookedAt \subseteq Marked
       THEN GoTo("go") /\ NoResolve /\ UNCHANGED <<sel, leaving, anew>>
     ELSE IF Now.check = "fail" \/ stage = "recheck"
       THEN GoTo("failed") /\ NoResolve /\ UNCHANGED <<sel, leaving, anew>>
     ELSE /\ anew' = Critical \ Marked
          /\ sel' = sel \cup NotYet(anew' \cap Available)
          /\ leaving' = leaving \ (anew' \cap Available)
          /\ Resolve("recheck")
  /\ UNCHANGED <<flowVars, openVars, installed, resolved, sendVars, marred, noteVars>>

(* "go" as inst refuses it, as it completes, as it asks for another CD and *)
(* is interrupted, and as it says nothing more.                            *)
GoRefused ==
  /\ stage = "go" /\ Conflicts # {}
  /\ CASE flow = "live" /\ tries < LiveTries
            -> /\ Applied({LeaveOut(c) : c \in Numbered({1})}) /\ tries' = tries + 1
               /\ NoResolve /\ UNCHANGED <<stage, flow, decided, visit, queue, count, visitVars>>
       [] flow # "live" /\ tries < GoTries
            -> /\ Resolve("go") /\ tries' = tries + 1
               /\ UNCHANGED <<flow, decided, visit, queue, count, sel, leaving, visitVars>>
       [] OTHER -> NextVisit(FALSE) /\ NoResolve /\ UNCHANGED <<sel, leaving>>
  /\ UNCHANGED <<mode, opened, installed, resolved, labels, noteVars>>
GoDone ==
  /\ stage = "go" /\ Conflicts = {}
  /\ installed' = (installed \ leaving) \cup sel /\ sel' = {} /\ leaving' = {}
  /\ NextVisit(FALSE)
  /\ UNCHANGED <<mode, opened, roundVars, labels, noteVars>>
GoElsewhere ==
  /\ stage = "go" /\ Conflicts = {} /\ flow # "live"
  /\ \E got \in (SUBSET sel) \ {sel} :
       /\ \A p \in got : Needs[p] \subseteq got \cup (installed \ leaving)
       /\ installed' = (installed \ leaving) \cup got /\ sel' = sel \ got /\ leaving' = {}
  /\ NextVisit(TRUE)
  /\ UNCHANGED <<mode, opened, roundVars, labels, noteVars>>
GoStalls ==
  /\ stage = "go" /\ GoTo(IF flow = "live" THEN "done" ELSE "failed")
  /\ UNCHANGED <<flowVars, openVars, pkgVars, roundVars, sendVars, visitVars, noteVars>>

(* phase_quit_and_build(): conflicts are settled before "quit" is sent     *)
(* again; those that have been seen at the prompt before are given up with *)
(* "keep".                                                                 *)
QuitResolves ==
  /\ stage = "quit" /\ Conflicts # {} /\ tries < QuitTries /\ tries' = tries + 1
  /\ LET subjects == {c.subject : c \in {d \in Conflicts : d.type \in HasSubject}}
     IN  \/ Resolve("quit") /\ UNCHANGED <<sel, seen>>
         \/ /\ ~(subjects \subseteq seen) /\ seen' = seen \cup subjects
            /\ Resolve("quit") /\ UNCHANGED sel
         \/ subjects \subseteq seen /\ sel' = sel \ seen /\ NoResolve /\ UNCHANGED <<stage, seen>>
  /\ UNCHANGED <<flowVars, openVars, leaving, installed, resolved, labels, visitVars, missing>>

(* inst is told to go, with conflicts that were not parsed if there are    *)
(* any; or it does not, no kernel is built, or no bootloader is found.     *)
Quit ==
  /\ stage = "quit" /\ stage' \in {"verify", "failed"}
  /\ UNCHANGED <<flowVars, openVars, pkgVars, roundVars, sendVars, visitVars, noteVars>>

(* phase_verify_boot(): a login prompt that does not come in time ends it  *)
(* with nothing missing, and so does a kernel that does not load.          *)
VerifyBoot ==
  /\ stage = "verify"
  /\ \/ GoTo("done") /\ missing' = Critical \ installed
     \/ stage' \in {"done", "failed"} /\ UNCHANGED missing
  /\ UNCHANGED <<flowVars, openVars, pkgVars, roundVars, sendVars, visitVars, seen>>

InstStep ==
  \/ Mounted \/ MountFails \/ OpenDisc \/ OpenEnds \/ Select
  \/ ResolveRound \/ ResolveInline \/ ResolveEnds \/ Match \/ ApplyLabels \/ ApplyEnds
  \/ CheckTargets \/ GoRefused \/ GoDone \/ GoElsewhere \/ GoStalls
  \/ QuitResolves \/ Quit \/ VerifyBoot
InstNext == StartInstall \/ InstStep
InstSpec == InstInit /\ [][InstNext]_instVars /\ WF_instVars(InstStep)

-----------------------------------------------------------------------------
(* Correctness.                                                            *)

(* The rounds that _resolve_conflicts() has are enough, although settling  *)
(* one conflict can make others and the first rounds may add packages: it  *)
(* does not run out of them unless as many as there are to spare settled   *)
(* nothing, because inst asked by itself or offered nothing that helps.    *)
RoundsSuffice ==
  stage \in {"check", "recheck", "go", "quit"} /\ mode = "auto" => resolved \/ idle >= Spare

(* The check before "go" is the last word: after the passes over the image *)
(* every critical package that it looked at is on the disk, whatever was   *)
(* in conflict and whatever had to be selected anew, unless the pass that  *)
(* checks was skipped for want of a distribution to open, left conflicts   *)
(* that it had not seen or not settled, or had its "go" broken off.        *)
CriticalCommitted ==
  /\ mode = "auto" /\ flow \in {"percd", "single"}
  /\ stage \in {"quit", "verify"} /\ visit > Len(Visits(flow, mode))
  => opened \ EarlyDiscs = {} \/ marred \/ LookedAt \subseteq installed

(* What the installer means to install is: its rounds suffice, and what is *)
(* critical is committed.                                                  *)
SelectionSound == RoundsSuffice /\ CriticalCommitted

(* The foundation distributions stay open in the second pass, or the       *)
(* overlays would lose their prerequisites.                                *)
FoundationStaysOpen ==
  [][flow = "percd" /\ mode = "auto" /\ visit = 2 => opened \subseteq opened']_instVars

(* In "apply" mode nothing is left out but what was decided (the docstring *)
(* of _apply_conflict_resolutions()).                                      *)
AppliedAsDecided ==
  [][stage = "apply" => sel \ sel' \subseteq decided]_instVars

(* An installation ends, one way or another.                               *)
InstallEnds == stage # "idle" ~> stage \in {"done", "failed"}

(* What a pass has selected, the next steps do not take from under it.     *)
SelectionKept == FoundationStaysOpen /\ AppliedAsDecided
=============================================================================
