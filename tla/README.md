# Formal models of the qemu-sgi project

TLA+ modules, TLC configurations and TLAPS proofs for the parts of this
repository in which several actors share state, a long sequence of steps can
fail in the middle, or a stream arrives in parts: kernel patches for IRIX, a
mailbox in guest memory, installers, a server of QEMU processes, the shell and
console channels to a guest, file systems written without IRIX, and the
tracking of a window of the guest's desktop. All paths below are relative to
the repository; `src/` stands for its root.

1. [The system](#1-the-system)
2. [Modules, runs and theorems at a glance](#2-modules-runs-and-theorems-at-a-glance)
3. The modules in which threads, processes or machines interleave:
   [PollSelect](#31-pollselect), [Gateway](#32-gateway), [Orchestrator](#33-orchestrator),
   [McpSessions](#34-mcpsessions), [ProxyWindows](#35-proxywindows), [VmInstances](#36-vminstances),
   [ContainerBoot](#37-containerboot), [RtSleep](#38-rtsleep)
4. The modules of channels and long sequences:
   [ShellChannel](#41-shellchannel), [BootHarness](#42-bootharness), [HookConsole](#43-hookconsole),
   [DglStream](#44-dglstream), [InstPasses](#45-instpasses), [EfsImage](#46-efsimage),
   [LibraryScan](#47-libraryscan), [SessionSerial](#48-sessionserial), [OneShot](#49-oneshot)
5. [Disagreements met](#5-disagreements-met)
6. [What is not modelled](#6-what-is-not-modelled)
7. [Plan](#7-plan)

## 1. The system

The repository runs SGI IRIX in a patched QEMU and automates it: it installs
IRIX, builds and boots patched kernels, moves files into and out of the guest,
shows the guest's GL windows on the host, and offers all of this as tools of an
MCP server. Most of its lines are file-format decoders, one-off scripts, notes
and vendored build files; the program's own concurrent and failure-prone logic
is in the components below.

| Component | State | Operations | Talks to | What is hard | What makes it correct |
|---|---|---|---|---|---|
| **Kernel poll/select** `patches/phase2/select_patch.c` | pollheads with lock, list and generation; per thread `ut_pollrotor`, polldats, callout | `dopoll`, `polladd`, `polldel`, `pollwakeup`, `polltime` | drivers, callout queue, signals | interleaving of scan and wakeup, unlocked reset of the rotor, a 32-bit clock | no wakeup is lost, no polldat outlives its call, no timeout is early, calls return |
| **Kernel sleeps** `patches/phase2/{clock,ptimers}_patch.c` | the real-time counter, one sleeping thread | `nano_delay`, `nanosleep_common`, `sginap` | callout queue, signals | one-tick sleeps in a loop, remaining time after a signal | sleeps as long as asked, reports what is left |
| **Host-channel gateway** `pyirix_qemu/host_channel.py`, `gwagent.c` | one page in guest memory; the agent's open file | `ping`, `run`, `push_file`, `pull_file`; the agent's commands | gdb stub of QEMU, guest scheduler | each access is a separate attach; a timeout races the late answer; agent restarts | a success means the file is the content |
| **Kernel-hook console** same `host_channel.py`, lines 100-236 | one mailbox byte, the UART's 8192-byte receive FIFO | `hook_puts`, `inject_input`, `push_text_file`, `push_file` | gdb stub, the clock hook, the shell on the console | nothing tells whether a byte was read or dropped | what is shown and filed is what was sent |
| **Install orchestrator** `pyirix_qemu/install_v2` | disk images, `state.json`, context | the phases, resume, promotion | legacy installer, completeness check | killed anywhere, resumed, phases skipped | only a complete disk becomes the gold image |
| **inst dialogue** `install_v2/inst_session.py`, `phases/{conflicts,select,...}.py` | prompt state, output buffer | `cmd`, `shell`, `page_through`, `select_conflict_option` | serial console | prompts are recognised in a stream that arrives in parts | the state is the prompt the guest is at |
| **Completeness check** `install_v2/completeness/check.py` | none | checks of files and sizes on an image | sgi_fs | many kinds of entries | every required entry is looked at |
| **Legacy installer** `pyirix_qemu/install/irix.py` | what inst has open, selected, in conflict, installed | `install_irix`, `install_addon`, the live installation; visits of distributions, conflict rounds, `go`, `quit` | boot harness, inst | settling a conflict makes others; `go` is refused; numbers of a listing go stale | what is critical is committed |
| **Boot harness** `boot_harness.py`, `session_lib.py`, `disk_manager.py` | a QEMU process, a byte stream, a monitor | `wait_for`, `send`, `collect`, `save_snapshot`, `close` | QEMU, its console and monitor | timeouts, matches across reads, echoes | a wait's verdict is of the text it read; a snapshot that is reported is there |
| **Telnet shell** `irix_telnet.py` | a socket and its buffer | `login`, `run`, `get_file` | guest's telnetd | a late answer after a timeout | exit code and output are the command's own |
| **MCP session registry** `sgi_mcp/server.py` | `_qemu_sessions`; per session a process, a socket, a reader thread, a directory | tools start, stop, send, snapshot, monitor, cleanup | QEMU processes | handlers run in threads, nothing is locked | no QEMU is lost, the limit holds |
| **Serial console tools** `sgi_mcp/server.py` (1225-1434, 6656-7342, 8326-8478, 9380-9513) | a session's output buffer; what a dialogue has read and not yet looked at | send, write a file, upload, copy; interact, save and restore a snapshot | reader thread, guest's terminal and shell, monitor | the line is echoed before it is run; text comes cut anywhere; QEMU ends | output is handed out once, what is confirmed is so, no QEMU outlives its call |
| **VM instances** `sgi_mcp/vm_instances.py`, the `vm_*` tools of `server.py` | per instance a directory with a disk, its base, `manifest.json` | create, migrate, fork, reset, update, snapshot, delete; a QEMU starts and stops | the same handler threads, qemu-img, QEMU | lost updates, torn files, disks replaced under forks and machines | a manifest is true of its disk |
| **GL window tracking** `ip54_tftp_staging/dgld_proxy.c`, `sgi_glremote/proxy_renderer.py` | an X window, visible pieces, registry of windows | polling, PVSH and PVWN connections | X server, window manager, renderer | X state changes between requests; two connections in either order | the overlay shows what is visible of the window |
| **DGL protocol** `sgi_glremote/{dgl_framed,dgl,server}.py` | reassembly buffers, window numbers | `feed` of framed and of bare commands, dispatch | libgl in the guest | messages cut anywhere, commands of unknown length; the client waits for replies | one right reply per wait |
| **Remote GL servers, relays, back ends** other files of `sgi_glremote/` | sockets, one overlay | relaying, drawing | QEMU's frame channel | several proxies, one overlay | frame and clip belong together |
| **Container** `sgi-docker/docker/{entrypoint,dispatcher}.sh` | `boot_state` file | boot milestones, `wait`, command execution | QEMU, docker | readiness is guessed from ports and words | ready means that commands work |
| **EFS volumes** `analysis_tools/tar2efs.py`, `sgi_mcp/sgi_fs.py` | a volume: cylinder groups, inodes, bitmap, two superblocks | build, verify, read, inject (read all, rebuild) | none | a full volume, files of many extents, rebuilding | blocks have one owner; the tree is kept |
| **Library** `pyirix_qemu/catalog/library.py`, the `library_*` tools | SQLite index, staged copies | scan, remove what is gone, stage | a network mount | the mount changes during a walk; copies cut short | the index is of the root; a staged copy is whole |
| **NVRAM, PROM, trace and format tools** | files | readers and writers | none | byte layouts | round trips, tested |

How they meet: the MCP server's handlers start QEMU and drive it by serial
console, monitor and the gateway; the orchestrator calls the legacy installer,
which uses the boot harness; the proxy in the guest speaks DGL and the window
protocol to the renderer on the host, which sends frames to QEMU; the kernel
patches are what lets all of the guest's daemons wait for the right time. The
components share no state with each other while they work, so each has a module
of its own; what composes are the sides inside a component (host and agent,
threads and wakers, handlers and processes, proxy, X server and renderer,
script and terminal and shell). Where one component relies on another, it has
the other by its outcomes: the orchestrator's installer and check, the
installer's inst, the container's guest.

## 2. Modules, runs and theorems at a glance

| Module | Models | Proved in |
|---|---|---|
| `PollSelect` | poll/select threads, pollwakeup, callouts, the real-time gate | `PollSelectProofs` |
| `RemoteFiles` | what the gateway promises (abstract) | |
| `Gateway` | host driver, shared page, guest agent; implements `RemoteFiles` | `GatewayProofs` |
| `HookConsole` | texts and files through the mailbox byte and the UART | `ConsoleProofs` |
| `Orchestrator` | phases, `state.json`, resume, promotion, kills | `InstallProofs` |
| `McpSessions` | the session registry and its handlers | `McpSessionsProofs` |
| `VmInstances` | directories, manifests, disks and their bases, machines | `ImageProofs` |
| `ClipPieces` | rectangles and `rect_subtract` | in `ProxyWindowsProofs` |
| `ProxyWindows` | X server, proxy, two connections, the renderer's registry | `ProxyWindowsProofs` |
| `ContainerBoot` | entrypoint, `boot_state`, dispatcher, docker stop | `GuestProofs` |
| `RtSleep` | gated sleeps over the wrapping counter | `GuestProofs` |
| `ShellChannel` | telnet shell: drain, run, get_file | `GuestProofs` |
| `BootHarness` | waits over the serial line, a script, a snapshot | `ConsoleProofs` |
| `DglStream` | both DGL servers and libgl | `GuestProofs` |
| `InstPasses` | the installer's passes, conflicts, go, quit, verdict | `InstallProofs` |
| `EfsImage` | builder, reader, verifier and injection | `ImageProofs` |
| `LibraryScan` | index, scan, staging, a mount that changes | `ImageProofs` |
| `SessionSerial` | a session's reader and buffer, the tools that type files into the guest | `ConsoleProofs` |
| `OneShot` | expect and send with a QEMU of the call's own, its snapshot and its end | `ConsoleProofs` |

`MC<module>` extends a module for TLC and only defines values of constants.
`MCHost` (seven components) and `MCComponents` (eight) extend several modules:
the state is that of all of them, `part` says which component the behaviour is
one of, and the others stay as they are. Components of such a run share nothing,
so their behaviours are those they have alone; one run explores the sum of their
states, not the product, and a property about one of them is checked in its part
(fairness is stated per part as well).

| Run | Expectation | Question |
|---|---|---|
| `poll_race` | holds | does any interleaving of scan, sleep and wakeup lose a wakeup or leave a polldat behind? |
| `poll_timed` | holds | are reports and timeouts right, and do calls return? |
| `poll_wrap` | violated | is a timeout beyond 2^32 microseconds early? |
| `gateway_exact` | holds | with an agent that is current except for the child of a RUN: are transfers exact, does the gateway implement its promise, do calls return? |
| `gateway_timeout` | violated | is a push exact after another call has timed out? |
| `host` | holds | sessions: can handlers together lose a QEMU? gateway: does a push that finds the page idle stay exact through a timeout and a restart? hook console: does what is shown and filed equal what was sent? boot harness: are verdicts and snapshots what the script is told? library: is the index of the root, and a staged copy whole? serial console: is all output handed out once, and what is confirmed of a file, or reported of a snapshot, so? |
| `components` | holds | EFS, instances, installer, container, shell, DGL, sleeps, orchestrator: are the properties of sections 3 and 4 kept, and does what must end do so? |
| `orch_stale` | violated | is a disk promoted that a second fresh run has blanked? |
| `orch_disk` | violated | is the installed disk the verified one when only `--disk` is given? |
| `boot_sync` | violated | is the snapshot of a finished installation taken after the sync? |
| `proxy_tracks` | holds | is the registry right once the desktop is quiet? |
| `proxy_eof` | violated | does a proxy end for no other reason than its connections? |

A *violated* run checks one sentence of the repository's own comments and finds
a behaviour of the code that contradicts it; section by section below.

A property of a run may be a conjunction of parts, each named and commented in
its module (`ShellAnswers` is `OwnAnswer` and `FileExact`). Operators that are
wrong forms of one the model uses stand beside it, or in a section "plausible
mistakes", and are marked as mistakes: nothing uses them; each is what a
mutation of `PROJECT.json` puts in place of the right one, and the property
named there then fails.

All passing runs are exhaustive for their bounds. Deadlock is not checked
anywhere: in every component the outside world (callers, drivers, other X
clients, users) may simply stop, and the bounds stop it too. Waits that never
end are what the liveness properties are for.

## 3. Interleaving components

### 3.1 PollSelect

**State and actions.** One record of variables per thread follows `dopoll()`
(`cur`, `visited` for its cursor and loop count; `rwonce`, `mayblock`, `vcnt`,
`revents`; `dat` for the polldats in use; `rotor`, `rotorMode` for
`ut_pollrotor`), one set per object follows `struct pollhead` (`phlist`,
`phgen`, `phlock`), and one per waker follows `pollwakeup()` on its walk. The
critical sections of `ut_pollrotorlock` contain no wait and are one step each.
`ph_lock` is held over the whole walk of `pollwakeup()` and is a variable. A
driver's poll routine is two steps, because what the protocol guards against
happens between them: it snapshots the generation (`ScanEntry`), then looks at
the device (`ProbeReady`, `ProbeNothing`). A callout of one virtual tick may go
off at any time; whether it ends the call is decided by the real-time gate,
`TimeIsUp`, in microseconds modulo 2^32 (`RtWrap`).

**Runs.** `poll_race`: two threads of two entries each, one of which asks one
object twice, once for hangups only; one waker, two kinds of events. Two
threads are needed for a walk that visits polldats of different threads, two
entries for the cursor and for a hint that is not zero, the second event for
`POLLHUP`, which is delivered unasked. One waker posts to both objects one
after the other, so a thread meets wakeups in every state; that two walks on
different pollheads at the same time are as harmless is proved, not run.
Requests are empty (no timeout). `poll_timed`: one thread with an ordinary and
a headless object, timeouts 0, 2 and 3 or none, 4 microseconds of real time
with the wrap at 8; the callout, a wakeup and a signal all meet the end of one
wait. `poll_wrap` sets the wrap to 4 and asks for 3 and 5.

**Fairness** (`Fairness`): threads that can run do run, callouts go off and
time passes (weak). The two places that wait for `ph_lock` need strong
fairness: the lock is a spinlock held for a bounded walk and is free again and
again while others contend for it. Nobody is obliged to call, to post, to
consume or to send signals; `MaxGen` bounds wakeups, so the quick retry that
every completed wakeup causes cannot go on for ever. In the code it can: a
driver that posts faster than a thread can probe keeps it in `quicktry`.

**Properties.** `NoLostWakeup`: a thread sleeps beside an event it asked for
only while the `pollwakeup()` for it is on its way. `Detached`: when
`ut_pollrotor` is reset without its lock, and when the call has returned,
nothing refers to the thread. `SleepsUnhinted`, `ReportExact`, `NoEarlyTimeout`,
`ReadyReturns`, `TimedReturns` as commented in the module.

**Proved**, for any number of threads, entries, objects, events and wakers, any
generation bound and any timeouts: `TypeOK` (for the rotor this is the
assertion `rotor <= nfds` of `dopoll()`), `NoLostWakeup`, `Detached`,
`SleepsUnhinted` and `ReportExact`; and `NoEarlyTimeout`, provided every timeout
asked for is below `RtWrap`, the width of the microsecond counter: `poll_wrap`
shows that it is needed. Assumption `RotorFits`: an index plus one fits the 14
bits of the rotor's fd field. The code does not check it; a process with more
than 16383 polled descriptors is outside the theorems. `NoTimeout` is assumed not
to be a number.

*The inductive invariant.* `NoLostWakeup` speaks of sleeping threads only and
says nothing of how they came there. `CoverInv` extends it back over the scan:
while the scan may still end in a sleep, every entry it has passed hangs on its
pollhead, and each event of it has left a hint or has its wakeup on the way.
An entry is passed by `PollAdd`, so one must know then that the event which
became true after the probe is not already announced: `GenInv` says that with
an unchanged generation the wakeup is still pending. That the pending walk will
come past the new polldat needs `LockInv` (the list is frozen while a walk
lasts, and the walk's rest is on it); that a polldat is where `dat` says needs
`DatInv`; where callouts may be armed, `PcInv`. The proof has one step per
action and conjunct.

Reports need an invariant of their own, `ReportInv`: a loop's entries are those
it has passed (`RoundInv`), an entry with something to report was visited in this
loop and a thread that is about to sleep or to try again has none (`HitInv`), so
the counter is their number. For timeouts `TimeInv` says that a callout is armed
only while its call sleeps or wakes, and that a scan which may not block has
found something or was asked not to wait.

**Only model-checked**: both liveness properties.

### 3.2 Gateway

**State and actions.** The page (`cmd`, `arg`, `status`, `path`, `data`), the
agent (`apc`, the command in hand, its open file), the guest's files, and the
host's program counter inside `_exec()` and its callers. Every access of the
host is a gdb attach of its own, so every access is a step; a write while
another address space is current is lost (`Poke`), and a read then returns
nothing or a foreign word (`Peek`). The agent takes a command, works and stores
the status, and then clears the command: three separate steps. `RUN` starts a
child which needs the processor: the agent is not current for a while.

**Promise.** `RemoteFiles` has six variables and says what a caller may rely
on: a push empties the file and then extends it by the content, a pull reads
on, and a success means equality. `KeepsPromise` is the refinement: the
gateway's `files`, `target`, `content`, `got`, `reply` are the abstract ones,
its `request` is their `op`, and every other step is a stutter.

**Runs.** Contents of zero, one and two blobs on two paths cover the loop of
`push_file()` not entered, entered once and repeated. `gateway_exact` is
the relation without timeouts and restarts (`GwSteady`): three
calls, one context switch, one failing system call (`popen()` too; `READ` excluded, see
section 5). Three calls, so that a read follows a write and a failure lies
before both. The gateway's part of `host` adds one timeout and one restart
anywhere to two calls, one to be given up and a push that meets what it left.
`Preempted` and `Mapped` are FALSE in all runs: another process runs only while
the agent waits for the child of a `RUN`. With other processes about
(`Preempted = TRUE`, the multi-user case of `gwagent.c:13-15`) one switch is
enough to break `PushExact`, see section 5; no run repeats that.

**Fairness**: the guest runs and its scheduler is fair (`SF(Agent)`, since the
agent is current again and again), the host goes on polling, and does so at
moments when the agent is current.

**Properties.** `PushExact`, `PullExact`, `RunExact` (a success is about this
call's own bytes), `OneOwner` (while the agent has a command the host only
polls), `AnswerReady`, `CallReturns`; with restarts and timeouts
`PushFromIdle`. The violated run: `_exec()` gives up without withdrawing its
command, and a later push returns True for a file that was never opened.
`Exact` and `Handshake` put these together for the run.

**Proved** (`GatewayProofs`), for any paths, contents, commands and outputs, any
number of calls and any failing opens and writes: `Handshake`, `Exact`, and
`KeepsPromise`, the refinement of `RemoteFiles`. These are about `SteadySpec`, the
steps of the runs' specification without its fairness, and assume `SingleUser`:
no other process runs while the agent does not wait (`~Preempted`), none has
memory at the agent's address (`~Mapped`), and `read()` does not fail. Section 5
says what happens without each of these. Timeouts and restarts are outside
`SteadySpec`; `gateway_timeout` shows why. For the whole specification, with any
number of timeouts, restarts and failures: the types, without a hypothesis, and
`PushFromIdle`, with `~Preempted` alone, so foreign memory at the agent's address
and failing reads included. The constants are assumed to be distinct from the
model's placeholders (`"none"` and `"nopath"` are no paths).

*The inductive invariant.* `HandOver` says whose the command word is: it is the
host's command from `Issue` until the agent clears it, the agent's address space
is the current one unless a child runs, and a word that is cleared, or about to
be, has its answer in the status. With it the page's contents can be followed
through a call. `PushOnTheWay` knows the file as a prefix of the content, one
blob behind what the host has put into the buffer until the agent has written
it (`Before`), level with it afterwards (`After`, if the status is 1).
`PullOnTheWay` knows what was read as the file up to the agent's place in it, or
up to one blob less while that blob is in the buffer. `RunOnTheWay` knows the
buffer as the command, then as its output. For the refinement each step is then
a `Write`, a `Read`, a `Begin`, a `Return` or a stutter of `RemoteFiles`.

`PushInv` is the invariant where calls may be given up and agents restart.
`BlankWhileAway`: an agent that was started while its address space is away has a
blank page until it is current. `LiveInv`: while a push that found the page idle
has not failed, the command word is idle or its own (`LiveOwner`), and the file
is the content up to the blob on its way, or a restart has closed it, and then
the commands that are left fail (`LiveFile`). Nothing is said of other calls,
since what they left may be taken at any time.

**Only model-checked**: `CallReturns`.

### 3.3 Orchestrator

**State and actions.** A disk image is the set of its defects: manifest entries
it lacks, or "broken" (blank, torn), or "absent". The process is `install()`
with the context it saves; `state.json` is `sfile` and `saved`. Each phase that
touches a disk has a beginning and an end, since a kill between them leaves a
half-written disk. `Kill` stops the process in any state; one that is writing
`state.json` tears it, as `SaveFails`, a write that raises, does. A promotion is
cut short by a kill or by what raises in it (`PromoteFails`: nothing catches
`mkdir`, `move` or `copy2`, `orchestrator.py:128-137`), and the copy leaves no
gold image, the beginning of one or the whole of it; `torn` counts the copies cut
short since the last that came to its end. The outcomes of the installer and of
the check are nondeterministic as the code allows.

**Runs.** Its part of `components`: two manifest entries (the addon may close
one gap and leave the other), one fresh run, two resumes, one kill, phases
`verify` or `addon` skipped by request, any of the writes and copies failing, and
a complete disk of somebody else's at the default place. Two resumes suffice to
load a state saved after a resume, and for a promotion after two in a row that
were cut short, which `BackupKept` excepts. It excludes a second fresh run, which is `orch_stale`, and
a disk without an instance, which is `orch_disk`. No fairness: everything is
safety.

**Properties.** `PromotesComplete` (only a disk without a gap becomes gold),
`SavedVerdictHolds` (a saved *passed* is true of the disk as it is),
`ReportedIsThere`, `BackupKept`, `InstalledIsVerified`, `VerdictAtTheEnd`; all
but the first are conjuncts of `InstallSound`.
The violated runs: a second fresh run killed before its first save leaves the
first run's `state.json`, and a resume promotes the blank disk; with `--disk`
alone the system is installed on one disk and another is verified.

**Proved** (`InstallProofs`), for any manifest, any number of runs and any
outcomes of installer and check: `TypeOK` in every mode; and for one
installation (`OneInstallation`: `--instance` is given, one run is fresh, neither
`prepare` nor `install` is skipped by request) `PromotesComplete`, `VerdictHolds`,
`ReportedIsThere` and `BackupKept`, that is `InstallSound`, under any number of kills, failures and resumes. Each part of the assumption is needed: `orch_stale`
and `orch_disk` break it, and section 5 has the phase that was skipped and the
two promotions cut short.

*The inductive invariant.* `OnePath`: from `prepare` on all paths, saved ones
too, are the instance's disk. `LoopOrder`: where the loop is, the phases before
it are done, or `verify` is skipped. `VerdictMade`: a context, saved or not, has
a verdict exactly while `verify` counts as done, and then the disk was made.
`PassedIsTrue`: a saved *passed* is true of the disk, and while a run lasts the
run has it too. That last conjunct is the argument: a run that has *passed* has
no phase left that writes the disk, so none can make the saved verdict stale,
and a run is killed with the file as it was or torn. `FreshOnce`: before the one
fresh run there is nothing to resume. `GoldOrBackup` carries `BackupKept`: before
the first copy that is cut short the gold image is complete except while it is
copied, when the backup is; after it one of them is, until the next promotion, whose source is
complete, has come to its end.

### 3.4 McpSessions

**State and actions.** `_qemu_sessions` is `registry`; a session's process,
`proc`, `alive` flag, socket, reader thread and directory are functions of the
session. `call_tool()` runs each handler in a thread; a step ends where the
handler gives up the interpreter. `QemuSession.stop()` is six steps and is used
by start, stop and send. QEMU closes its sockets and exits on its own.
Dictionary iteration that fails because another thread changes the registry is
`Scan`'s second disjunct.

**Run.** Its part of `host`: two handlers, two sessions, a limit of one: with
one session allowed, two starts race for it, and every pair of handlers meets
over one session and over two. Threads and sessions are interchangeable
(symmetry; no liveness is checked).

`pgrep` may fail, and a `kill` may (`Pgrep`, `Reap`); the start may raise between
the launch and the entry in the registry (`LaunchRaises`). The sessions given up
so are remembered in `adrift`, a history variable.

**Properties.** `NoOrphan`: a QEMU that runs is in the registry or in the hands
of a handler that will kill it, or was set adrift by one of these failures; no
interleaving of handlers alone loses one. `NoHandleNoProcess`,
`RemovesTheDead`, `SessionBound` (the limit may be exceeded, but by less than
the number of threads).

**Proved**, for any number of threads and sessions and any limit: all four, and
`TypeOK` (in the run a conjunct of `HostTypeOK`).

*The inductive invariant.* `NoOrphan` alone does not survive a handler that
deletes an entry because `is_running()` said no: `OpenInv` says that the answer
is wrong about a running process only while someone has the process in hand,
or when nobody can ask any more: it was set adrift and is not in the registry. That in turn needs to know that a launched session is known to its launcher
alone (`LaunchInv`) and that `proc` is dropped only after the exit
(`NoHandleNoProcess`). `SessionBound` rests on `SidInv` only and on counting:
the check that lets a thread pass leaves room for all threads, and a session
inserted was on its way.

### 3.5 ProxyWindows

**State and actions.** The X server: where each window is, which are children
of the root, their stacking order, which are mapped. The proxy: its polling
loop one X request at a time (`Walk` up the tree, `Tree` the children of the
root, `Visit` or `SkipHidden` each window above, `SendRecord`, `Poll`). The
wire: the PVSH header and the records of the PVWN connection, which arrive
independently. The renderer: the registry's entry for the window. The size and
the position of one window, of which two requests tell (80-81, 169-172), are one
step, so no rectangle has the size from before a move and the position from
after it; the next poll would replace one that has. Between any two other
requests other clients move, raise, unmap, map or destroy windows, and the
window manager reparents the proxy's. `ClipPieces` has `rect_subtract` as a
function of two rectangles, and the array of pieces as a set with a cap.

**Runs.** `proxy_tracks`: two foreign windows that cover the middle, a corner
or all of ours, so that a subtraction yields one to four bands and a second one
cuts bands again; a cap of three pieces instead of 16, so that it is met; two
changes of the desktop anywhere in a poll; two proxies in a row that get the
same window id. `MaxInFlight` is one record on the wire, which with the
header gives both orders of arrival.

**Fairness**: the proxy polls by its own clock (`select()` with a 200 ms
timeout) and the renderer's threads read what is there. Applications and users
owe nothing.

**Properties.** `PiecesExact`: at each point of a poll the pieces are exactly
what the windows looked at leave of the window. `RecordOutlastsSeed`: a
startup position never replaces a polled one. `Tracks`: once changes cease the
registry is right, pixel by pixel, however half-read the last poll was, or
shows less if pieces were dropped. Its premises are real limits of the code,
see section 5. The violated run `proxy_eof`: a window destroyed between two
requests is an X error, and Xlib's handler ends the proxy.

**Proved**, for windows of any size at any places, any border and any cap of at
least one piece: `TypeOK`, `PiecesExact` and `RecordOutlastsSeed`.

*The inductive invariant* is `PiecesExact` over every point of the plane
(`ExactInv`), with the types of what it mentions and the fact that only polled
entries are on the PVWN connection. Its heart is the lemma `BandsExact`: the
bands of a rectangle do not overlap, lie in it, and cover exactly what the
other does not. Whatever the cap drops then, what stays is visible.

**Only model-checked**: `Tracks`.

### 3.6 VmInstances

**State and actions.** Per instance the file at its disk's path, the disk's
base, the manifest as it is on disk (missing, whole, not JSON), and the images,
with file numbers, so that a running QEMU keeps the file it has opened. A tool
call is `VmBegin` or `VmCall`, then the steps of its handler: `MakeDisk`
or `Thin`, each with its failures (`MakeDiskFails`, `ThinFails`: an exception in a
fork leaves its directory, one in `create` a new disk under the old manifest),
`Load`, `Truncate` (opening a manifest for writing empties it), `Write`. A
snapshot is taken by a session of any instance and told to the manifest of any
instance, or of none (`SaveVm`). `migrate` takes a new disk or another instance's,
overlay or not (`Move`); what it finds on it has no hardware metadata (`bare`) and
is not loaded. `SessionStart` and `Stop` are the machines, `Delete` is `rmtree`.
`doubtful` and `adopted` are history: what the properties except.

**Run.** Two instances, one snapshot name, three image files, four calls: a
fork of a fork, a name deleted and used again, a snapshot before and after each
of them. There is one handler in the run: two that overlap do lose updates
(section 5).

**Properties.** `InstancesSound`: between calls the disk has every snapshot that
is listed, unless the manifest was told of one taken on another disk, a savevm was
not seen to end, or a call failed after it had made a disk (`ListedIsThere`); with
the last exception, a manifest names the instance that its disk is based on
(`BackingKnown`); what was recorded stays until the manifest is made anew
(`RecordedStays`); no chain of bases closes but through an overlay that was
migrated (`ChainsEnd`).

**Proved** (`ImageProofs`), for any instances, snapshots and number of calls and
image files: `InstancesSound`, for one handler (`OneHandler`); section 5 says what
two do. *The inductive invariant* `VmInv`: file numbers are given once
(`FilesFit`); a manifest of a disk that is not in doubt lists what the disk holds
and names what is under it, unless it is just being written (`AllTrue`); so does what a handler is going to
write, which forgets no recorded snapshot, and the name that a fork makes an
overlay for is free, so that no chain closes (`InHand`). `Openable`, the
disks that QEMU can open, is the least set closed under "has no base, or the
file at its base's path is one of them".

### 3.7 ContainerBoot

**State and actions.** Where `entrypoint.sh` is, `boot_state` and whether
`error_detail` follows it, the milestones the console log shows, QEMU, a
pending signal, and what each caller of `dispatcher.sh` was told. `Look` is one
round of the milestone loop, `SerialSend` one write into the console's FIFO,
which blocks while QEMU is gone; a shell acts on a signal between commands
only (`Trap`). QEMU is started and its pid noted in two steps, between which
`cleanup()` knows of none. `docker stop` is a signal, and later a kill of a
process 1 that does not act on it, because it has become a `sleep` or is blocked
(`DockerKill`); it is assumed that the grace period of ten seconds is enough for
a shell that does, none of whose commands takes longer, and for QEMU to end.
busybox's `sh -c` is taken to replace itself by the one command it runs, so that
the pid is QEMU's.

**Run.** One caller, two configuration lines, both boots (cold and from a
snapshot), QEMU dying and `docker stop` anywhere. The callers do not see each
other.

**Fairness.** The script goes on (`WF(Entrypoint)`). The deadline is compared
with the clock in every round of a loop that other steps keep leaving and
entering: it is enabled again and again, and once the time is over the next
look ends the loop, hence `SF(Deadline)`.

**Properties.** `BootSafe`: who was told ready was told so of a boot that stays
ready until the container ends; a boot is configured, and a cold one is called
ready, after a login prompt only; the container ends under a running QEMU only
where it was stopped before the pid was noted, or killed after a boot it had
reported as failed. `BootSettles`: ready, an
error, or the end, unless the script is blocked on the FIFO of a dead QEMU.

**Proved** (`GuestProofs`), for any number of callers and configuration lines:
the types and `BootSafe`. The invariant `PlaceInv` says what being at a place of
the script implies (past the milestone loop a cold boot has seen a login prompt;
"ready" is written at the end only; the pid is noted wherever QEMU runs but
between two lines), without which neither part is inductive.

### 3.8 RtSleep

**State and actions.** Real time, and per thread the kind of sleep, the time
asked for and the reading of the counter at its start. The guest's clock runs
ahead of real time by any amount, so a tick may end at any moment (`Tick`);
what decides is the difference of two readings of a counter that wraps. A
request above `Cap` is left to the kernel's own sleep, without the gate.

**Run.** One sleeper (they share nothing but the counter), a counter of five
values and eleven units of real time, so that it wraps twice in one sleep.
**Property.** `NeverShort`. **Proved** (`GuestProofs`) for any range of the
counter, any cap below it and any durations; the invariant `SleepInv` ties the
reading to the time it was taken at, and `WrappedDifference` says that the
wrapped difference never exceeds the true one: the gate can only be late.

## 4. Channels and long sequences

### 4.1 ShellChannel

**State and actions.** The host's call, its buffer, the bytes that have
arrived, the command lines the guest has not read and what it has still to
write; the pieces of text are an echo, the first line of an output (kind `named`
where it holds the command's first word), an end marker with the exit status or
with the first digit of a longer one, its further digits, a file's frame and
halves. `Bodies` is the line that `run()` drops, `ExitCode` the digits that have
been read (`CutStatus` when some had not come). `DrainEnds` is 0.2 s of silence,
`Receives` the first match with the rest kept, `GivesUp` a deadline or a lost
connection.

**Run.** Three calls and one failure: a call that times out, one that meets its
late answer, and one after that. **Properties.** `ShellAnswers`: `OwnAnswer`
(`run()` returns its own command's status and output unless the guest was still
busy with an earlier one when the silence ended; a status of several digits may
be cut, and a first line of output with the command's first word is lost on a
terminal that does not echo: no other status, no other output) and `FileExact`. `DrainResyncs`
states what `irix_telnet.py:151` says and is *not* so: a late answer is taken
for the next command's. It is checked by no run.

**Proved** (`GuestProofs`), for any number of calls and failures: `ShellAnswers`.
*The inductive invariant* `ShellInv` takes the text that the call may still see
as one stream: what was received, what has arrived and what the guest has yet to
write. `OwnStream`: if the guest had nothing else to do when the drain ended, the
command is still to be read and the stream is empty, or the stream is a first
part of what answers it, perhaps behind its echo. `QuietStream`: while nothing
has failed on a terminal without echo, the stream is at most the further digits
of the last call's exit status between calls, and behind these the whole answer
within one.

### 4.2 BootHarness

**State and actions.** The session's launch, the text a wait has accumulated
and its recent lines, the script at the end of `phase_verify_boot()`, the
terminal that echoes ahead of the shell, the shell, the kernel's own messages,
the monitor and QEMU. A read returns all that has arrived, so the order of the
guest's and the host's steps cuts the text in every place (a line, and a fatal
message, in two; "blank" is white space at the start, in the middle or at the
end of a line). `Recent` is the code's list: the lines that begin in a read are
stripped and blank ones dropped (`Strip`, `Stripped`), and what continues a line
is added to the last line there is as it came, with its blanks and its `\r`
(`Unstripped`). Two history variables say what that does: `frayed` are the
numbers of the lines two reads share, and `merged` says that a read ended in the
blanks that begin a line, of which the rest was then added to the line before.
`Savevm` is what `send_monitor()` returns: done, still at
work when it gave up, failed with or without its error in the answer.

**Run.** Its part of `host`: a check and the sync, repeats of two lines, two
messages of the kernel, one wait that gives up, two listings of the snapshots.
**Properties.** `HarnessSound`: however the text was cut, as many lines are
searched for repeats as the whole text has, and those that were not cut are as
`strip()` leaves them of the whole text, until a read ends in the blanks that
begin a line (`TextWhole`); a wait goes on exactly while neither its pattern nor
a fatal message was read, and has not returned for nothing, and what it finds of
repeats is right where the last lines were not cut (`VerdictRight`); a package is never believed installed that is not, and while
every wait has ended at a prompt none is believed missing that is there
(`ChecksTrue`); a snapshot that `save_snapshot()` reports is there, and is this
call's unless an error was cut off and an older one has its name
(`SavedIsThere`); no QEMU outlives its session (`NoQemuLeft`). The violated run
`boot_sync` is `SyncedBeforeSnapshot`.

**Proved** (`ConsoleProofs`): `HarnessSound`, for any script, threshold of
repeats, noise, tries and number of waits that give up. *The text.* `LinesJoined`:
the lines of a text are those of its parts, with the line that goes over the cut
put together. `RecentJoined` is what a read makes of the lines kept: three
cases, a text that follows a line's end, one that finishes a line, and one that
follows nothing but blanks, with `BlankEnd` and `BlankJoined` for the count;
`LastLines` takes the search for repeats from the lines kept to the whole text.
*The inductive invariant* `HarnessInv`: the
prompt is the last a command prints (`PromptLast`); a row is printed for a
package only that was there when it was listed (`RowsTrue`); and `OneByOne` carries the negative answers. While every wait has
ended at a prompt, the guest has at most the command the script is at, so a
prompt that is read is that command's, and its row, if there is one, was read
before or with it (`AnswerComes`, `ClaimsRight`). A wait that gave up ends this
for the rest of the session: the prompt the next wait finds is the earlier one's,
which is why `ChecksTrue` says less from then on. `SnapshotReal` follows the
monitor: what is reported is there unless an error was cut off.

### 4.3 HookConsole

**State and actions.** `hook_puts()` one gdb session at a time (`Putc`,
`Look`), the mailbox byte and the clock hook, which emits and then clears it in
two steps; the keys that `push_text_file()` and `push_file()` have still to
inject, the UART's FIFO with its limit, the guest's shell, `dd` with its count
and `uudecode`. Sessions may fail or time out with a part of their writes done.

**Run.** Texts of two bytes, two looks, files of one and of three keys in
chunks of two, a FIFO of four keys, two calls, one failure: the FIFO overflows,
a chunk meets the rest of the one before, a call meets what a failed one left.
**Property.** `HookSound`: the console shows bytes in order and none twice,
and all of them unless one was given up (`ConsoleInOrder`, `ConsoleWhole`);
unless a key was lost, files are what was pushed (`PushedWhole`); whatever was
lost, `uudecode` never reads a file in the middle (`NotWhileWriting`: `dd`
makes up for lost keys from those that follow).

**Proved** (`ConsoleProofs`): `HookSound`, for texts and files of any lengths,
chunks, FIFO, looks, calls and failures. *The inductive invariants* are two, for
the two ways into the guest. `MailInv`: bytes are numbered as they are written,
the mailbox has the newest or none, and while none was given up it is empty
when the next is written (`MailKept`). `PushedInv`, for keys: `dd`'s file and the
keys it has still to take make up a length that was asked for, whatever was lost
(`DdFits`). While none was lost there is one key stream `T`, all files that were
pushed in a row with their bases `B`; the guest stands at one place of it, key
`p` of file `n`; its FIFO is the stretch of `T` from there (`Fed`), what is still
to be injected the stretch after that (`ToFeed`), and each file in the guest is
what that place makes of it (`GuestAt`, `FilesAt`).

### 4.4 DglStream

**State and actions.** The client's commands on the wire, in two parts each (or
frames of several), the buffer and what the server has decoded and drawn. Both
servers are there: `HandlePayload` for frames, `TryOne`, `LosesSync` (a command of
unknown length), `Spins` (one to which the table gives length 0) and `Dispatch`,
which replies to some queries only (`Returns`), for bare commands. The client
waits for a reply after a query.

**Run.** Four commands of any kinds, frames of up to three.
**Fairness.** The client reads its reply and the server's thread goes on.
**Properties.** `StreamSound`: every command of known length is drawn once and
in order however the stream is cut (`NothingLost`: what is drawn and decoded is
at each moment a prefix of what was sent, and all of it when buffer and wire are
empty), and there is one reply, the right one (`RightReply`); `Answered`: a client that
waits is answered, by the server of frames always, by that of bare commands
unless it has lost sync, spins, or has no reply to the command (section 5).
`StopsCleanly` states `dgl.py:16` and is not so (section 5); no run checks it.

**Proved** (`GuestProofs`), for any number of commands and frames of any length:
`StreamSound`. *The inductive invariant* `StreamInv`: commands drawn and decoded,
then those on the way, are the commands sent, in order, where a function of the
messages says at which command each begins (`InOrder`), so that a frame may be
taken whole or a command may wait for its second half; and a query is the last
command on the way, answered at most once (`OneAsks`).

**Only model-checked**: `Answered`.

### 4.5 InstPasses

**State and actions.** A visit to a distribution: mounting, `open` or `from`,
selection, conflict rounds, the check for critical packages, `go`, `quit`, the
boot's verdict; for the combined image, CD by CD, an addon and a live system,
with conflicts settled by the installer, collected, or decided by a caller.
A round of `_resolve_conflicts()` may settle nothing: inst asks by itself and the
text names nothing that is on the disk, or what it insists on is in no open
distribution, and the first option offered leads nowhere (`idle` counts these).
Any listing may come empty or unreadable and is taken for no conflicts
(`ResolveEnds`); `go` may ask for another CD and is broken off in every flow that
waits for CDs (`GoElsewhere`); both mark the visit as `marred`. At `quit`,
conflicts seen twice are given up with "keep" (`QuitResolves`), and then a kernel
is built or not. `inst` is external: packages need others and clash, numbers of conflicts are
given anew after every command. A command with its pagers and questions is one
step.

**Run.** Seven packages on three distributions; a conflict whose solution makes
another, a critical package that needs a foundation package and clashes with
others, a second critical one that is in conflict too, one essential, two core
packages and one inst insists on. Ten rounds, one conflict a round, two tries of
`go` and of `quit`, at most one idle question of inst's (`MaxIdle`): with seven
packages in trouble and two rounds that may add, one round is to spare, so that
the rounds do run out in the run. Decisions fit one batch; with more, section 5.
**Fairness.** The installer goes on (`WF(InstStep)`): every wait of its has a
deadline. **Properties.** `SelectionSound` (`RoundsSuffice`,
`CriticalCommitted`), `SelectionKept` (`FoundationStaysOpen`,
`AppliedAsDecided`), `InstallEnds`.

**Proved** (`InstallProofs`), for any packages, needs, clashes, distributions and
modes: the types and that a selection makes sense (`SelectionMakesSense`);
`CriticalCommitted`, without a further hypothesis; `SelectionSound` and
`SelectionKept`, each under one that says which disks it is about.
*`RequiredApart`*: what inst insists on needs and excludes nothing, so that
installing it makes no new conflict. After the rounds that may add packages each
round settles at least one conflict for good, or it is idle; what is left to
settle and the rounds made less the idle ones are bounded together (`RoundsLeft`),
so the rounds end, or as many of them were idle as there are to spare
(`AutoResolved`). `CriticalCommitted` rests on the pass that checks: nothing is in
conflict when its check is made, unless it is marred (`ResolvedIsTrue`), so its
`go` has all that was looked at and is not refused (`GoIsClear`).
*`FewDecided`*: a file of decisions is about no more
clashes than one command takes (`APPLY_BATCH`, 10); the numbers of a listing are
distinct and all are used before inst numbers anew. With more, section 5 has
what goes wrong.

**Only model-checked**: `InstallEnds`.

### 4.6 EfsImage

**State and actions.** A tree of files, folders, links and devices with sizes;
the geometry computed from it; inodes numbered in the builder's order; the
allocation loop one round a step (`Extend`, `Full`), since where extents end is
what is hard; the inode table, bitmap and both superblocks (`Finish`). The
reader looks inodes up by its own formula and follows extents. `Inject` reads a
volume, adds a file and starts a build of what was read. It does so on the host,
which follows links: where a link leads is not part of the model, so at each
injection any set of links may lead to directories of the host, and a file whose
path goes through a link is written at any path of the tree that the host can
write, or out of it, or the host raises (a link that leads nowhere, a loop).

**Run.** Three paths besides the root, blocks of two units, groups small enough
that files cross them, partitions of which the smallest has no room, two
injections. **Properties.** `VolumeSound`: blocks have one owner, lie inside the
volume, outside inode tables, and are marked used (`BlocksExclusive`),
`verify_efs()` has nothing to report of a volume of the builder, unless the
second superblock overwrote the last block of a folder, or of what was a link to
one before a file was injected (`VerifyClean`), and a volume holds what it was
given through any number of injections, except what the code is known to lose,
listed in the property (`HoldsTheRest`): what is lost is a set of paths, those
injected through links and the files these overwrite among them. `BuildEnds`. `HoldsAll`, the same
without exceptions, is not so (section 5).

**Proved** (`ImageProofs`), for any paths, files, sizes, sizes of blocks, groups
and extents, and any number of injections: `BuildKept`, `EfsTypesKept` and
`VolumeIsSound` (`VolumeSound`). They have one hypothesis, `RoomForData`: after
the groups are cut down to the limit they are longer than their inodes.
`Geometry()` does not see to that, and on a partition of a few blocks its groups
would have no data blocks or a negative size; the runs check the hypothesis with
`EfsTypeOK`. It says nothing of being full: that `_allocate_blocks()` runs out of
blocks is part of what is proved.

The inductive invariant `EfsKept` has two halves. Of a build under way
(`Underway`): extents lie in data blocks, below `next_data_block`, apart from
each other, and are marked (`Laid`); the blocks of an object are in the image in
their order (`HoldsBlocks`), for an object that is being written as many as were
taken from `remain` (`Begun`); the tree that is written and the tree that is
wanted agree at every path that neither is, nor lies below, one in `losing`
(`Agree`). The layout is consistent whatever `Geometry()` rounds (`Layout`): the
inode table has room for every object, and no group begins inside another. Of a
finished volume (`VolumeGood`): its parts are those of `VolumeSound`, and what
its reader finds is a tree again, which an injection needs to start from. The
step from one to the other, `Finish`, is the long part: that the reader's formula
for a slot is the inverse of the order in which the builder fills the table, that
a directory's blocks put together name every child with its number, so that each
path is resolved from the root down, and that the contents of an object's extents
put together are its blocks. Reading through extents is `FlattenSeq`, a fold; the
induction over it is done on the set of lengths for which the claim holds
(`AllNumbers`, from the well-foundedness of `<`).

### 4.7 LibraryScan

**State and actions.** Files on the mount with size, time and version, folders
that cannot be listed; a scan folder by folder and file by file (`ListFolder`,
`LookAt`), its one transaction (`Upsert`) and the removal of all it has not
seen; `StageFile` with copies cut short. Others change the mount between any
two steps, and a scan may die in any.

**Run.** Two files of one name in two folders, two roots, two changes, two
calls, a tolerance of one. **Properties.** `LibrarySound`: a scan during which
nothing changed leaves an index of its root and of nothing else, up to the
tolerance (`IndexTrue`), and a copy given for the version it was made of is
whole (`StagedWhole`). `KeepsSteady`: whatever else changes, a scan does not
drop a file that was there and readable throughout.

**Proved** (`ImageProofs`), for any files, folders, roots, sizes and
tolerance and any number of scans, stagings, changes and deaths: the types,
`LibrarySound` and `KeepsSteady`, from `LibraryConstants` alone. *The inductive
invariant*: a version is one content, so what index or scan has of a version
still on the mount is what is there (`Versions`); a steady file is in a folder
still to be listed, among the files still to be looked at, or seen
(`SteadySeen`); and until the first change steady files are all there are to see
and all the entries are theirs (`SettledScan`, `SettledEntries`).

### 4.8 SessionSerial

**State and actions.** The text the guest has printed as pieces (the echo of a
line, what it prints when it has run, an error), on the wire (`wire`), in
`output_buffer`, or handed to a caller. `Reads` is the session's thread. A tool
is a script of turns (`TurnsOf`): it types some lines (`Types`), looks at a copy
of the buffer (`Finds`) and, in a second step, takes all that is there by then
(`Takes`), or gives up (`GivesUp`). The guest echoes a line when it arrives
(`Echoes`; echoes of a file's lines match nothing and are left out) and runs it
when its shell has come to it (`RunsNext`): printf into a file, `uuencode`,
`uudecode`, `wc`, `cat`. The count of `wc` is looked for without the end of its
line (7183), so a read may cut it: it may come as its first digits and the whole
(`Heads`, `Reported`). A call of `qemu_copy_file` may give the copy another name
(`renamed`): then `uudecode` writes the file of the source's name, and the copy's
path stays as it was. A command may fail, and QEMU may end anywhere. Calls on
a session follow one another, nothing is typed by others, and no byte is lost
between host and guest, which `send()` has its pace for.

**Run.** Its part of `host`: two calls of one tool, or a send and any tool, on
files of one line and of two in batches of one, and one failing command. The
second call meets what is left of the first in the buffer, on the wire, in the
shell's queue and in the temporary file. Numbers have the base 2 (`Radix`), so
that the count of two lines has two digits.

**Properties.** `SerialSound`: no output is lost or handed out twice
(`HandedOutOnce`, which an append between the look and the taking would break if
the buffer was cleared of the copy); a number "confirmed" by a call that found
the guest with nothing to do is the file's, or the first digits of it, and what
is captured is the source (`ConfirmedTrue`); and though a reply may come before
the guest has run a line, the file is the content once it has run them all,
except at the path of a copy that has another name (`SettlesWhole`).

**Proved** (`ConsoleProofs`): the types and `SerialSound`, for files of any sizes,
any batch and any number of calls and faults, from `SerialConstants` alone.
`CountInv` counts the pieces: the ones handed out, in the buffer and on the wire
are all that were printed, whatever is read between a look and the taking, which
is `HandedOutOnce`. *The inductive invariant* of the rest (`SerialInv`) gives each
command of a script its place: the guest's queue holds those of the latest call
from the k-th to the last that was typed, after those of earlier calls
(`QueueProper`); while nothing has failed, the files are what the first k of them
make (`Progress`), and a number is printed by the last command of a script only
and is that of the file it then finds, or first digits of it (`NumberOf`). A call that began while the guest had
nothing to do meets its own pieces only, once its first turn has cleared the
buffer (`OwnOnly`, `GlimpseFirst`): so what it takes for its count is its count.
What `cat` prints arrives whole (`CaptureWhole`). The scripts are of any length, so
the place of a command is found by counting lines (`ChunkCount`), and what a
number of commands make of a file by the least place where it would not hold.

### 4.9 OneShot

**State and actions.** A QEMU started by the call, the words it has printed, the
ones a dialogue has pending, and the transcript. `NextPair` looks at what is
pending, `Receives` adds a read of any length to it, `Matched` and `Unmatched`
end the wait. `AsksSavevm` and `ReadsList` are the snapshot, `Cleans` the
`finally`. QEMU may die, savevm may be slow or fail, and a call may raise.

**Run.** Its part of `host`: four pairs, two of which wait for the same word and
one only sends, and four words, in reads cut in all ways. **Properties.**
`OneShotSound`: a transcript has every word once though a wait's text begins
with what was pending (`ShownWhole`); no word answers two pairs
(`AnsweredInOrder`); a snapshot is reported after the whole dialogue and is
there, be it an older one (`RecordedShotThere`); no QEMU, directory or savevm
outlives the call (`NothingOutlives`).

**Proved** (`ConsoleProofs`): `OneShotSound`, for any vocabulary, any dialogue
and any number of words. *The inductive invariant* `OneShotInv`: the transcript
lacks of what was read just what the wait under way has, without what was
pending before it (`Transcript`); every answer lies behind the one before and
before what is pending (`HitsBehind`, `HitsCounted`); the snapshot is asked for
at the end of the dialogue only (`ShotThere`).

## 5. Disagreements met

Runs show the first of each group; the rest follows from the same models or
was met while reading, and has no run of its own.

*Poll/select.* (`poll_wrap`) A timeout of 4295 s or more returns early. The
first wakeup overwrites `ROTORMULTI` (`select_patch.c:848`), which lines 508-510
set to ask for a full rescan; what is then reported is right but not all.

*Gateway.* (`gateway_timeout`) A timed-out command is neither withdrawn nor
waited for. A field written while another process is current goes nowhere and
nobody notices (`host_channel.py:318`): with `Preempted` set, a call that opens
its file during one switch takes the last call's status for its own, and
returns True. Magic and command are read by separate attaches (321, 323), so
with `Mapped` set a foreign zero may be taken for "done". Lines 13-15 of
`gwagent.c` say that the host retries until magic reads back correctly; it does
so for one of its reads and none of its writes. A failed `READ` is
taken for the end of the file (371-372).

*Orchestrator.* (`orch_stale`, `orch_disk`) A resume reads the profile anew but
keeps the verdict reached under the old manifest (`orchestrator.py:64-65`).
Without instance and disk, `prepare` deletes the gold image it is about to
replace (`prepare.py:61`). Two promotions in a row that are cut short lose gold
image and backup: the second moves the torn image over the backup
(`orchestrator.py:133`). It takes no kill, only a `copy2` that raises twice, on a
full disk for one, since a resume goes straight to the promotion again. A phase that was skipped by request is not
marked as completed (84-89): after `--skip-phase prepare` and a verdict of
*passed*, a `--resume` without it runs `prepare`, which blanks the disk, leaves
out `verify` as completed, and promotes the blank disk. `install_v2/README.md`
promises a VM snapshot per phase; the code saves `state.json` only.

*Session registry.* "Enforce max 2 concurrent sessions" (`server.py:6795`) is a
check long before the insertion; `SessionBound` is what holds. The cleanup tool
empties the registry first, so that a session registered meanwhile is killed
although line 276 says that tracked processes are skipped; it removes the
directories of all sessions. Two handlers that stop one session: the second
replies with an error after doing its work. `snapshot` and `monitor` delete a
dead session without `stop()`, leaving socket and directory. A session that
never connects leaves its directory. An exception between the launch and the
entry in the registry removes the directory and leaves the QEMU running, unknown
to every tool but the cleanup (6931-6937); that one passes over a `pgrep` that
fails or takes five seconds, and over processes it cannot look at (280-317), and
says nothing of them. `except RuntimeError` in `call_tool()`
(4990) runs a handler a second time if the handler itself raised it.

*Other tools of the MCP server.* The calibration of `irix_ps` is said to be
"keyed by kernel version string" (`server.py:672`) and is keyed `"default"`
(12937, 13080): after another kernel is booted the offsets of the first are
used. A fourth SCSI disk gets unit 4, which the first CD-ROM has too; only
numbers above 7 are refused (888, 1078).

*Serial console tools.* "A sentinel echo confirms each batch"
(`server.py:2832`): the wait for `__WF_0__` looks for a text that is in the line
just typed, so the terminal's echo satisfies it, before the guest has run
anything. The marks are the same in every call: the count of an earlier call
that comes late is taken for this one's and "confirmed". For the same reason an
upload whose `uudecode` fails later than its echo goes on to the size, and
`qemu_copy_file` reports "Copied" before anything ran, or finds the end mark in
the echo and no start. The models have all of this, and the properties say what
holds in spite of it. `qemu_copy_file` has its file decoded under the name of the
source (9442) and then moves the name of the copy (9503): under another name
"Copied" is returned, from the echo, and the copy's path is never written; under
the same name `mv` complains of moving a file to itself, which nobody looks at.
The count that confirms a file is whatever digits had come (7183): a file of
12 lines can be reported as one, or, should the call have sent one, confirmed.
Text that arrives in one read with a match is not looked at
by the next pair (1415). A snapshot's name is looked for anywhere in the
monitor's text (8440), its headings and "There is no snapshot available"
included: the model has names that are in none of these.

*Window tracking.* (`proxy_eof`) A proxy with the process id of an earlier one
is drawn at the dead one's place, or not at all if that was obscured, until its
first record (`proxy_renderer.py:175`). An occluder is placed by its inner
origin and sized by its outer size (`dgld_proxy.c:172-175`); the run has
borders of width 0, for which both agree. The proxy's own map state is never
looked at, so the overlay of an iconified window stays: `Tracks` assumes the
window is mapped. `framechannel.clear()` is never called. Without an X server
the first record says "obscured". `mac_renderer.py`'s server has no `windows`,
which the handler it shares with `proxy_renderer.py` reads.

*Container.* The snapshot path takes a TCP connect for readiness
(`entrypoint.sh:219`), which lines 337-338 say it is not; after 60 s it is
"ready anyway". From a snapshot that falls back to a cold boot the state goes
from booting to prom, against the order of line 4. A QEMU that dies while the
console is written to leaves the script on the FIFO for good. `die()` replaces
the shell by `sleep`, and with it the trap that would end QEMU: docker's kill
then ends the container under a running machine, whose disk is open. A signal
between lines 187 and 188 finds `QEMU_PID` empty, to the same effect. The error state
is visible before `error_detail`.

*Instances.* Two handlers that overlap between load and save lose one's
snapshot entry, or leave a manifest that is not JSON (`vm_instances.py:86`,
`96`): with two handlers `RecordedStays` fails. An instance is deleted under a
running QEMU; a reset deletes the disk before it tries to make another; a
monitor without a prompt for five seconds counts as a savevm that is done. The
snapshot tool records a snapshot with the instance it is told, whatever disk the
session has (`server.py:7398`). `vm_instance_migrate` takes an overlay without a
look at its base: a fork's disk that is moved to the name of its base, once that
was deleted, is its own base (`vm_instances.py:217`). The snapshots it finds are
listed and then refused for want of hardware metadata (`server.py:6770`); the
message says they are from an older version. A fork that ends in an exception
leaves its directory, and with it "already exists" (9324). `create` or `migrate`
of a name whose disk was moved away, when it fails after the disk is made, leaves
the new disk under the old manifest.

*Telnet shell.* `irix_telnet.py:151-152` says that the drain keeps a prior
timed-out command from corrupting the next one's output. A command that ends
later than 0.2 s of silence does corrupt it (`DrainResyncs`). `get_file()` on a
timeout returns the part it has as the whole, returns nothing on a terminal
that echoes, and nothing for a file that is not there. An exit status is cut
where a read cuts its digits (`irix_telnet.py:172`). Where the terminal does not
echo, `run()` drops the first line of the output if it holds the command's first
word (176-179): both are excepted in `OwnAnswer`. `login()` does not look whether READY came.
`_drain()` has no deadline.

*Boot harness.* (`boot_sync`) Marks such as `SYNC_OK` are in the echo of the
command that is to print them; the patterns also match the prompt, so the
success is logged either way, no warning is ever printed, and the script runs
ahead of the guest. (`session_lib.py:23` quotes its mark for this reason.) What
follows a match in the same read is lost to the next wait; a `#` that a marked
command left ends the next wait at once, and one late answer makes every later
package look missing. A repeat may be found in a line that was read to its half.
A line that two reads share keeps the `\r` of its end (317-327), so it is not
equal to one that came whole, and a repeat of such lines is missed; its blanks
at the cut are lost. A read that ends in the blanks of a line's beginning stores
nothing of it, and the next read adds the rest of that line to the line before.
`self.lines` loses the rest of a line that a read has cut. An error of savevm
can be cut off by an early `(qemu)`, and then an older snapshot of that name is
accepted; the name is looked for as a part of the listing's text. `close()`
leaves `stderr.log`, so that its `rmdir` fails; an exception in `__enter__()`
leaves the directory.

*Kernel-hook console.* A read that fails counts as "consumed", and after 20
looks the next byte overwrites the last. After a lost key a later `push_file()`
can run `uudecode` on an earlier or garbled `/tmp/_xfer.uu`.

*DGL.* `dgl.py:16-17` says that an unknown opcode stops the capture cleanly at
the first gap; the commands decoded before it in the same feed are lost
(`StopsCleanly`). In a frame, a command of unknown length takes the rest of the
frame and is answered with one zero word. Four bytes without the frame marker
stop the parsing for good (`dgl_framed.py:239`). The server of bare commands
replies to `winopen`, `swinopen`, `dglversion` and the names of `VALUE_RETURNING`
only (`server.py:116-126`): a client that asks for `getbutton`, `getmatrix` or
`qread` waits for ever. To 13 commands (`loadmatrix`, `multmatrix`, `defcursor`)
the table gives length 0, which is not `None`: `feed()` takes nothing from the
buffer and never returns (`dgl.py:124-139`); `dgl_framed.py` sizes the first two
and takes 0 for unknown. `mac_renderer.py:72` serves one
connection at a time.

*Sleeps.* An interrupted `nanosleep` reports what was left of one tick, not of
the time asked for (`ptimers_patch.c:111`). Sleeps of more than 2000 s have no
gate.

*Installer.* Labels of one listing are sent ten at a time, while inst numbers
anew after each command: from the second batch on they hit other conflicts
(`irix.py:1139`; `AppliedAsDecided` fails with a small batch). Incompatibilities and
required packages only are given a subject: a decision on a missing prerequisite matches
nothing (961-976). Without a listing the "collect" mode falls back to CD by CD,
where its docstring says it returns without installing. After five refused `go`
the pass counts as complete. A boot that fails to reach a login records nothing
as missing. Packages that inst itself asks about are removed even if they are
core. A visit that opened no distribution is skipped with its check. A `go` that
asks for another CD, or that cannot read its source, is aborted and counted as
one that is done, in every flow, with critical packages not installed
(2571-2580, 2606-2612). A listing that comes empty or that the parser does not
know is taken for no conflicts (1271-1278; 1329-1333 warns of it), and the check
may then be followed by a refused `go`. When critical packages had to be selected
anew, the second look is at those only (2336-2358): another one that settling
the conflicts takes away is not missed. What inst insists on is "resolved" by
the first option (717), which may be "also install" in any round, or may open
another distribution, to no effect. Comments
speak of four passes; two are run. `inst_session.py:162` acts on a conflict list
before it is complete, in phases that `PHASE_ORDER` does not run.

*EFS.* `tar2efs.py:470` says that file content is kept: a file of more than
twelve extents gets no indirect ones and its reader finds the first twelve
(`HoldsAll`). Hard links get no data (about line 1007), the root's link count is
one short, the second superblock overwrites whatever is in the last block.
`fs_inject()` turns links to directories into empty directories and drops
devices and modes. It writes through links (`sgi_fs.py:1583-1588`): at a link to a
file it changes that file, of the volume or of the host it runs on; below a link
to a directory the file is at the link's end, if that is inside, and
"Injected" in any case. An extraction's errors are counted (1438-1439) and looked
at by nobody. `verify_efs()` divides the inode blocks by the inodes of a
block and so looks at a quarter of them. "exceeds partition" is reported for
partitions below a megabyte only. The comment on inode N-2 describes the first
pass over the inodes (718-739), not the second (803-816), whose result stays.

*Library.* A scan of another root, of an unmounted one or over an unreadable
folder removes all other entries (`library.py:743`). The tolerance of a second
hides a change, and so does a file's shrinking below 1 KB; a deep scan skips
what is unchanged. A namesake of the same size, or a new version of it, is taken
for staged. The scanner's default database is
`pyirix_qemu/software_library/external_library.db`, where its docstring says
`<project_root>`; the search tool of `server.py` opens the one in the project's
root, and so finds nothing of what was scanned.

## 6. What is not modelled

Within the modelled components: poll's argument copying and `POLLNVAL`; more
than 16383 descriptors; commands longer than the gateway's buffer and
`max_bytes`; a manifest edited between runs; two calls at once on one session's
console; `qemu_run_sgi`; GL frames; several proxies at the same time;
`split_tar2efs()`; descriptions and hardware metadata of instances; the wording
of inst's prompts; a deep probe of library files.

Left to TLC because the prover cannot do it: liveness (`ReadyReturns`,
`TimedReturns`, `CallReturns`, `Tracks`, `PartsEnd`), which needs fairness and
ENABLED. `HostTypeOK` and `PartTypeOK` put together the types of the parts of a
run; the types that a proof needs are part of its inductive invariant, and stated
as a theorem for the components of section 3 but `VmInstances`, and for
`BootHarness`, `InstPasses`, `EfsImage`, `LibraryScan` and `SessionSerial`. What
`EfsImage` makes of a partition without room for data blocks (not `RoomForData`)
is neither proved nor in the runs' partitions.

Whole components are listed with reasons in `PROJECT.json`. Most of the
repository's lines are of that kind: decoders of PROM images, traces and
formats, disassembly, NVRAM and file-system byte layouts, drawing, dialogue
texts and the text of tool descriptions and replies. They are functions of
their input without a state that two steps share, their hazards are those of
byte offsets, which round-trip tests reach, and a model of them would repeat
them. `sgi_mcp/server.py` alone is a quarter of the implementation and
mostly such text; its registry, instances and library tools are modelled. What
is under `analysis_tools/src` and `minimaws` is another project's build system.

## 7. Plan

Done: all modules of section 2, with proofs of their safety properties.

Next modules:

1. `InstDialogue`: prompts in a stream that arrives in parts
   (`inst_session.py`), once its phases are run.
2. `ProxyWindows` with two proxies on the one overlay.
3. `SessionSerial` with two handlers on one session, which take each other's
   output.
4. `ContainerBoot` with the callers' commands over `rsh`.
