# A TLA+ model of keepalived

keepalived runs a parent process and up to three children: **vrrp** (who owns the
virtual addresses), **checkers** (which real servers the IPVS tables hold) and
**bfd** (whether the path to a neighbour is alive). Every process is one thread
around `lib/scheduler.c`: timers, sockets, child exits and pipes call handlers, and
a handler runs to its end before the next one starts. That makes most of the code
sequential; what is hard is what happens *between* handlers, between several
*routers*, between the *processes*, in the *kernel* whose tables the processes
believe they know, and at the one place where a handler runs other handlers in its
middle (`kernel_netlink_poll()` in `vrrp_state_become_master()`).

The modules are written from the code; a definition has the name of the function it
translates where TLA+ allows it, and `PROJECT.json` maps every definition to its
lines. A definition `X_something` in front of `X`, with a comment that calls it a
mutant, is a way of breaking `X` that a property is tried against; nothing uses it.

## Modules

| module | models | code | run |
|---|---|---|---|
| `VrrpSyncGroup` | the VRRP instances of one process, their sync group, weight 0 tracking | `vrrp_sync.c`, `vrrp_track.c`, `vrrp_scheduler.c` | syncgroup* |
| `VrrpSyncGroupCalls`, `...Proofs`, `...Agree` | proofs about `VrrpSyncGroup` | | |
| `VrrpElection` | the election of a master by several routers | `vrrp.c`, `vrrp_scheduler.c` | election |
| `VrrpElectionProofs` | proofs about `VrrpElection` | | |
| `VrrpPacket`, `PacketCases` | the adverts two routers build, patch, send and check | `vrrp.c`, `vrrp_ipsecah.c`, `utils.h` | child |
| `VrrpKernel` | addresses, routes and rules of an instance, in memory and in the kernel | `vrrp_ipaddress.c`, `vrrp_iproute.c`, `vrrp_iprule.c`, `keepalived_netlink.c`, `vrrp_daemon.c` | child |
| `VrrpLinks` | interfaces and VMACs that come, go and are renamed | `vrrp_if.c`, `vrrp_vmac.c`, `keepalived_netlink.c` | child |
| `VrrpConfig` | how two `vrrp_instance` blocks are read and completed | `vrrp_parser.c`, `vrrp.c` | child |
| `BfdSession` | a BFD session between two neighbours | `bfd_scheduler.c`, `bfd.c`, `bfd_event.c` | bfd |
| `BfdSessionProofs` | proofs about `BfdSession` | | |
| `BfdConfig` | the `bfd_instance` blocks as three processes read them | `bfd_parser.c`, `bfd_data.c` | child |
| `IpvsPool` | one virtual server, its real servers and its sorry server, in memory and in the kernel | `ipwrapper.c`, `ipvswrapper.c` | checker |
| `CheckerPool` | the checker process: start, results of checks, reload, stop, death | `check_daemon.c`, `check_*.c`, `ipwrapper.c` | checker |
| `CheckerHealth` | the same with servers that are healthy or not, for liveness | | checker |
| `CheckConversation` | the threads of a check and its server | `check_tcp.c` ... `check_ssl.c`, `layer4.c` | child |
| `CheckConfig`, `CheckConfigCases` | how a virtual server is read and validated | `check_parser.c`, `check_data.c`, `check_api.c`, `check_*.c` | child |
| `Supervisor`, `SupervisorProofs` | the parent, its children, reloads and validations; the proofs | `main.c`, `config_notify.c`, `*_daemon.c` | parent |
| `PidFile`, `DaemonLock`, `PidFileProofs` | several daemons and one pid file; the lock it stands for; the proofs | `pidfile.c` | parent |
| `ReloadMonitor`, `ReloadMonitorProofs` | the timer for reloads and its file; the proofs | `reload_monitor.c` | parent |
| `GlobalConfig`, `GlobalConfigCases` | the global settings in the parent and in its children, over reloads | `global_parser.c`, `global_data.c`, `main.c` | child |
| `ConfParser`, `ConfParserCases` | reading a configuration, and the copy for the children | `lib/parser.c` | child |
| `Scheduler` | threads, events, timers and children of a process | `lib/scheduler.c` | child |
| `RbTree` | red-black trees with a cached first node | `lib/rbtree.c`, `rbtree_augmented.h`, `rbtree_ka.h` | child |
| `ProcessTrack` | the processes that are counted for `track_process` | `track_process.c` | child |
| `VrrpTrack` | the priority and the faults of an instance from its weighted scripts, BFD sessions, processes, interfaces and files | `vrrp_track.c`, `track_file.c`, `vrrp_scheduler.c` | child |
| `VrrpGarp` | gratuitous ARP and unsolicited neighbour adverts: repeats, the delayed block, refreshes, rate limits | `vrrp_arp.c`, `vrrp_ndisc.c`, `vrrp_scheduler.c`, `vrrp.c` | child |
| `TrackCases` | the setups of these two | | child |
| `SmtpAlert` | an alert and its mail server | `smtp.c` | child |

`MC*` modules are the instances for TLC. `MCParent` and `MCChild` hold several
components that share no state: a behaviour picks one of them (`part`) and is about
that one only, and a property says which component it is about.

### How state and actions correspond to the code

A handler that runs to its end is one action, with everything it calls. Where it
cannot be one step (`kernel_netlink_poll()` reads link messages in the middle of
`vrrp_sync_master()` and of `try_up_instance()`) `VrrpSyncGroup` keeps an explicit
`stack` of frames, and each loop over instances or members is one step per turn.

*Sync groups.* `inst[v]` has `state`, `wantstate`, `flags_if_fault`, `num_track_fault`,
`num_script_init` and whether the addresses are set; `group` has its state and the
two counters of members. Links, scripts, BFD sessions and files are objects with a
status the environment changes; who tracks them is a constant.

*Election.* Every router has a state, a timer, its master's priority and interval;
adverts are in `net` for at most `MaxDelay` ticks, may be lost, and keep their order.
Time passes in ticks when nothing is due. *BFD* is built the same way, with the three
timers, the poll sequence and the sockets of a session on each side.

*Pool.* Handlers are operators from a world to the world they leave (`IpvsPool`), so
that a reload is one action that runs all its passes in the code's order; the
kernel may refuse the n-th command of a handler.

*Kernel.* What the process believes (`set` flags) and what the kernel holds are two
variables; the kernel's own rules (a link that goes down takes the routes with it, a
deleted primary address takes the secondary ones and the routes that prefer it) are
marked external. Messages about changes wait in a queue and are read later.

*Configurations.* A text is a sequence of statements; every handler of a keyword is an
operator on the structure it fills in, applied in the order of the text, followed by
the validation with its corrections in the code's order. Numbers keep the limits and
wraps of the types they are stored in where a limit can be met.

*Everything else* has one record `s` and one action per callback; the comments at the
head of each module say what is left out.

## Runs

| run | states | what it shows |
|---|---|---|
| `syncgroup` | two members and an address owner, three links, two scripts, a reversed tracker; netlink polled inside handlers | counters are exact, a fault holds the group in FAULT, only masters have addresses, no instance is up with something down, none is in FAULT with all up |
| `syncgroup_agree` | three members, a script that had failed before a reload, a BFD session; no messages inside handlers | the inductive invariant of the proofs; members agree with their group between events |
| `syncgroup_live` | two members, a script; netlink polled inside handlers | a group that is not held down and hears nothing becomes master as a whole |
| `election` | two or three routers in seven setups | two masters, and none, last only as long as the timers say; nobody takes over early; in the end there is the right master |
| `bfd` | two neighbours in eight setups | timers fit the state, the reported status is the true one, deaths are noticed, reloads take nothing down, both come up |
| `checker` | two or three servers in eleven setups | the table follows the checks, counters and quorum agree with them, the last notification is true, weights are exact, in the end traffic goes to healthy servers or to the sorry server |
| `parent` | five setups of children; three daemons; the reload timer | answers are counted exactly, a kind has one child, every reload ends with all children on the accepted configuration, the pid file is a lock (`ImplementsLock` is a refinement), the timer follows the file |
| `child` | fifteen components, see below | |
| `syncgroup_leak`, `checker_remove_check`, `child_rule`, `child_checksum` | | violations: see Findings |

The parts of `child`, and the invariant each is about:

- **kernel** (`KernelAsState`): between handlers, once all messages are read, the kernel
  holds the addresses, routes, rules and drop rules a master wants and none of a
  backup, over link flaps, deletions by an administrator, reloads that change any of
  them, stops and crashes.
- **config**, **servers**, **bfd**, **global** (`AcceptedIsSound`): what is left after
  validation is what the rest of the process relies on. All combinations of two more
  statements, in any order, on top of a few basic texts; two `vrrp_instance` blocks of a
  sync group or of none, with and without interface. Only a unicast instance without
  interface may end the process (see Deviations).
- **check**, **mail** (`ConversationSound`): on every path of every kind of check, over
  answers of the kernel that come at once, later or never, exactly one thread that can run
  is left, and exactly its descriptor is open; the message follows
  what the server has agreed to. `VerdictEarned`: a checker comes up only if all its
  URLs did well, and goes down only after more than `retry` failures in a row.
- **loop** (`SchedulerSound`): every thread is in exactly the list, tree or event it
  says it is in, and none that is waited for is lost, over callbacks that delete,
  close and add, timeouts, reloads and shutdown.
- **links** (`LinksSettle`): when all messages are read and delayed changes are over, fault
  flags, sockets and VMACs are those of the interfaces there are. Interfaces and VMACs are
  set up and down, deleted, created and renamed, five times in all, with and without
  debounce times. Where a delayed change or a renamed VMAC has given an entry the state of
  an interface that is no longer its own (`late`), only sockets and VMACs are asked for.
- **text** (`ReadAsWritten`): the lines that come out of the list of sequences, the
  stack of definitions and the stack of files are those that replacing one after the
  other gives (`Stands`), handlers are called as the tree of blocks says (`Expected`),
  and the reader of the copy gets the same.
- **packet** (`AcceptedAsAgreed`): a packet that was patched by any sequence of changes
  is the one that would be built afresh, and is accepted by the router it is meant for
  and only if it should be.
- **tree** (`TreeSound`): order, colours, black height, parents, first node.
- **garp** (`ConversationSound`): every message that a master owes its neighbours is in
  exactly one queue or sent, the queues are served as long as something is in them, and
  none is sent earlier than the rate limit allows, or by a router that is not master.
- **process**, **track** (`TrackedExactly`): once messages and delays are over, the status
  of a tracked process is the one of the processes that run; and the priority and the
  count of faults of an instance, which the code keeps by adding differences, are at
  any time those that its trackers' present states give when computed afresh.

### Bounds

Every run is finite because faults, reloads, deaths, restarts, losses and edits come
out of budgets of the setup (`may`, `left`, `setup`, `Max...`), and everything else
returns to states seen before. The bounds are as large as needed for two things to go
wrong at once: two crashes around one reload, a lost packet and a death, two refused
commands, two changes while a message is still in the queue. Three routers and three
members are the least for which a decision about one can be wrong about another; nine
nodes make every case of the rebalancing of a red-black tree happen, as its coverage
shows. Counters (`UINT_MAX`, `MaxTrackFault`, `Word`) are as wide as no counter should
ever get, so a wrap is seen as a wrap. `MaxTurns` in `ConfParser` bounds the lines that
are read; `ReadAlike` says it was never met.

`CHECK_DEADLOCK FALSE` is set where the program may stop (a configuration that has
been read, a daemon that has ended, budgets that are used up).

### Fairness

A process whose timer is due, whose child has exited or whose socket is readable gets
its turn: that is what `process_threads()` does, which handles all that is ready before
it sleeps again. `VrrpSyncGroup` says so with weak fairness of the frames and strong
fairness of each instance's timeout, which a message may disable for a moment.
`VrrpElection`, `BfdSession` and `Supervisor` say `<>[]Still \/ []<><<Next>>_vars`: the
system only stops where nothing is due (`Still`); time is an action too, so it passes
only when all that is due has run. `CheckerHealth` has every check run again and again
(the `tick` changes with each run), which is what each check's timer is for. Losses
and deaths are never forced to happen or to end other than by their budgets.

## Proofs

TLAPS proves, for every value of the constants:

| theorem | module | says | run |
|---|---|---|---|
| `IndInvHolds` | `VrrpSyncGroupProofs` | the inductive invariant `IndInv` | syncgroup_agree |
| `TypeCorrect` | | types; the unsigned counters never wrap | |
| `GroupCountersExact` | | `CountersExact` | syncgroup |
| `FaultHoldsGroup` | | `FaultHolds` | syncgroup |
| `VipsOnlyOnMasters` | | `VipOnlyOnMaster` | syncgroup |
| `DownMeansFault` | | `UpOnlyIfAllUp`: no event is lost | syncgroup |
| `FaultFlagsConsistent` | | the checks under `_FAULT_FLAGS_CHECK_` never report a BUG | |
| `MastersWantMaster` | | a master's wantstate is MASTER, the open question in `vrrp_state_master_rx()` | |
| `GroupMovesTogether` | `VrrpSyncGroupAgree` | `MembersAgree` | syncgroup_agree |
| `FaultsEnd` | | `FaultOnlyIfDown`: a fault ends with its reason | syncgroup |
| `ElectionInvHolds` | `VrrpElectionProofs` | the inductive invariant `ElectionInv` | |
| `TakeoverInTime` | | `TakesOverInTime`: a backup that is needed takes over in time | election |
| `SilenceBeforeTakeover` | | `TakesOverAfterSilence`: and not before (an action property) | election |
| `DelayBeforePreempting` | | `PreemptsAfterDelay` (an action property) | election |
| `BfdInvHolds` | `BfdSessionProofs` | the inductive invariant `BfdInv` | |
| `TimersMatchState` | | `ThreadsMatchState`: the asserts of the handlers hold | bfd |
| `ReportsAreTrue` | | `StatusReported` | bfd |
| `DeathIsNoticed` | | `NoticesDeath`, the first conjunct of `DetectsDeath` | bfd |
| `OneDaemonRuns` | `PidFileProofs` | `OneDaemon`: at most one daemon is past the pid file, and the file has its pid | parent |
| `PidFileImplementsLock` | | `ImplementsLock`: `PidFile` implements `DaemonLock` | parent |
| `MonitorInvHolds` | `ReloadMonitorProofs` | the inductive invariant `MonitorInv` | |
| `TimerFollowsFile` | | `ScheduledAsWritten`: the timer is set for what the file says | parent |
| `ParentInvHolds` | `SupervisorProofs` | the inductive invariant `ParentInv` | |
| `AnswersCounted` | | `CountExact`: `num_reloading` is the number of answers to come | parent |
| `NoSecondChild` | | `OneChildPerKind`: no kind is started twice unless it was asked for twice | parent |

**Sync groups.** The assumptions are those of `ConfigAssumption` (sets of instances,
links, scripts and trackers, `Rise` and `Fall` positive, and so on), `Owners = {}` (an
address owner leaves FAULT for MASTER at once, which takes the frames through orders the
invariant does not describe; groups beside owners are left to the run `syncgroup`) and
`OneLinkPerFlag` (no two interfaces of an instance share a fault flag; the code has one
bit for both, so what it knows of the second is lost). None of the invariants is
inductive as it stands, because handlers are interrupted in the middle:

    IndInv == Safe(inst, group) /\ StackInv /\ TrackInv /\ KnownInv /\ EnvInv

`Safe` has the counters, the FAULT states and who has addresses; it holds between any
two turns of a loop, which is why `down_instance()` has to count before it changes a
state. `StackInv` says which frames can be on top of which and what each has still to
do, `TrackInv` what a loop over tracking instances has already told, `KnownInv` that
the flags and `num_track_fault` of an instance are those of what it has been told, and
`EnvInv` the types of the rest. `VrrpSyncGroupCalls` has the lemmas about one call of
`down_instance()` or `try_up_instance()` and about one turn of a loop, `...Proofs` one lemma
per action and the theorems. The leaf lemmas about `Cardinality`
of a set with one element more or less come from the library.

Two theorems need more of the configuration, and say so as hypotheses. `MembersAgree` is
only true if no link message interrupts `vrrp_sync_master()` and no member has
`timer_expired_backup` (`Undisturbed`): the poll may take a member to FAULT while the
loop over the others goes on. `AgreeInv` says how far each frame has got: which members
are already masters, and that the others follow only if all of them want to.
`FaultOnlyIfDown` needs `NoLostResult`, which excludes exactly what the finding at
`vrrp_track.c:658` is about; `ExactInv` has the converse of `KnownInv`, that nothing is
counted and no flag is set that no tracked object is the reason of.

**Election.** Setups are arbitrary (`ElectionAssumption`: any set of sets of routers,
intervals, priorities, delays, budgets; the longest interval exists). `ElectionInv` is about
one backup at a time, and adds the rest of its timer (`sands`) to the age of what it heard
last. The sum is at least the time the timer was set to (`Runs`), which is the master down
time of its priority now unless it has refused a master of lower priority or was told to
hurry (`Silence`); the rest of a preempt delay and the time the lower master has been heard
make up the delay (`Counting`, `Delay`). The sum is at most the skew time after priority 0
(`Told`). `vrrp_set_effective_priority()` moves the timer by the difference of two down
times, so the invariant has to name the one it was set with. For the gap without a master,
`Gaps` adds the time gone by to the time left, and an advert that was on its way when the
last master died accounts for `MaxDelay`. Both directions follow: a timer that ran out
means a whole down time of silence, and one that has not bounds the gap.
Trying to prove this showed two places where the model had to be closer to the code: the
priority an advert is compared with is the one `vrrp_state_backup()` has just restored
(`Restored`), and timers of a router that is down are not due.

**BFD.** For every pair of configurations and every budget of losses, crashes, reloads
and failing sockets (`BfdAssumption`). `SesInv` has, for each session, which timers run in
which state with which sockets (`Good`), what was reported (`Told`), and that no interval
exceeds what the configurations allow or idle_tx, whichever is longer; `NetInv` the same of the packets on their way, and
that one from a dead neighbour has no longer to go than the delay less the time since its
death; `DeadInv` that the time since the death and the rest of the expiry timer are
together at most the slowest detection time and the delay. The bound is inductive
because every packet that still restarts the timer is older than the death.

**Pid file.** `LockInv` says that who has locked a file still has it open, that the
inode under the name is that of the daemon that has passed the comparison, and that
its text is that daemon's pid. It is needed because the lock is on an inode while the
name may be given to another one between `open()` and `flock()`. The refinement maps
the owner of `DaemonLock` to the set of daemons that have passed the comparison and
not yet removed the file; every step is an `Acquire`, a `Release` or a stutter.

**Reload timer.** For any times of day and moments, any number of changes of the file, its
directory and the configuration, and any number of reloads, accepted or not
(`MonitorAssumption`). What the property says holds only once the queue of notices is empty,
so `MonitorInv` says what each notice that is still to be read will lead to: unless a
create, move or delete is in the queue the file is watched under its present inode, and
unless a write to that inode is in the queue too the timer has the time in the file, or
that time has passed. The watch descriptor is needed because a notice may be about a file
that has been replaced since. The last notice about the name tells whether there is a file,
a directory that is gone has its notice in the queue, and `reload_time` is the timer's time
or one that has passed, which is why comparing the file with it never keeps a timer from
being set.

**Parent.** For any configurations, any finite set of processes, and any number of
reloads, edits, deaths and stops (`ParentAssumption`; the counter has to be wide enough for
an answer from each of the three kinds of children). Neither property is inductive. How many children a
kind has depends on the starts that are still due, from `delayed_restart_vrrp_child_thread()`
or from the startup script, so `Fits` counts those with the children, and says that a kind
whose pid is 0 and whose start is not due has no child beyond the early ones: this is what
lets `propagate_signal()` start one. `CountExact` holds because each child is known to the
parent by exactly one pid, has no undelivered SIGTERM, and answers once for each request it
owes; that is `Known` and `Counted`, under the conditions the property names (`Smooth`, no
death and no overlap of reloads, and `NoConfig`). `Blank` says the same of the time before the
startup script has ended, which is when `start_keepalived()` has nothing to count yet. Every
function of the parent that the actions are made of has a lemma of its own, as in the code.

**Only model-checked.**

- Liveness and everything under fairness (`GroupBecomesMaster`, both `Converges`,
  `ConvergesToHealth`, `ChildrenSettle`): `ENABLED` and fairness are out of the prover's reach.
- `DualBounded`, `NoFalseDown` and the second conjunct of `DetectsDeath`: they relate the
  timers of *two* routers and the packets between them, and the invariant would have to
  say of every pair which packets can still meet which timers.
- `IpvsPool`, `CheckerPool` and `VrrpKernel`: a handler is a fold over the servers or
  addresses of a configuration, and what a fold computes needs induction over sequences.
- Everything in modules with recursive operators (`ConfParser`, `ProcessTrack`, `RbTree`,
  `Scheduler`, `VrrpLinks`, `VrrpPacket`), which the prover cannot load.
- The readers of configurations, whose properties are about all the
  short texts a run enumerates.
- Groups with address owners.

## Findings

1. `syncgroup_leak`, `vrrp_track.c:658`: a script that fails and recovers while another
   one has not reported yet leaves `num_track_fault` too high; the instance stays in
   FAULT for good, though the manual says it leaves it.
2. `checker_remove_check`, `ipwrapper.c:1010`: a reload that removes the failed check of
   a server puts the server into service *next to* the sorry server, since real servers
   are compared before the state of the sorry server has been copied.
3. `child_rule`, `keepalived_netlink.c:2458`: a deleted rule takes an instance out of
   FAULT, since the filter for rules does not look at the state as those for addresses
   and routes do.
4. `child_checksum`, `vrrp.c:1093`: a router that learns that its unicast peer computes
   checksums the old way does not answer in that way, since the mode is set after the
   function that would patch the buffer has looked at it.

The passing runs leave out what these are about, by a setup of its own
(`RemovingACheck`, `RuleSetups`, `OldPairs`) or one script less. What else they leave out,
or name as an exception in a property, is in the next section.

## Deviations met while modelling

These were met in reading the code for the models. The models follow the code in
them; the properties exclude them or are true in spite of them. They are listed for a
reader who wonders why a property is not stronger.

*Global settings.* The checks that two FIFOs are not the same (`global_data.c:377`) only
run in a child after a reload of its own, not at the start. `rx_bufs_policy` looks at the
first word for each word (`global_parser.c:1885`). Invalid values of
`vrrp_garp_master_refresh`, `*_rlimit` and the process priorities set 0 where the message
says they are ignored. `min_garp` overwrites an explicit value that is the default.
`nftables` resets a priority given before it. `script_security`, `child_wait_time`,
`use_pid_dir`, `config_save_dir` and `umask` belong to the process and not to its data: no
reload resets them, and a refused one leaves them changed. After a refused reload the
parent's local name is lost. `email_from` may stay NULL if the local name is not known.

*Parser.* A comment inside a definition of several lines is an empty line in the copy,
which ends the definition for the children (`parser.c:2807`). A line that begins with `@`,
`~SEQ` or `~LST` only after a substitution is not looked at again, so the manual's
`$IF_MAIN=@main` does not work (`parser.c:2941`). `${_HASH}` is taken for a comment
afterwards. An `include` behind a condition is written to the copy both as a line and as
the file. A sequence over the name of a definition of several lines leaves it marked as
one (`set_definition()`, `parser.c:2133`), and its use then reads on behind the value. The
texts of `ConfParserCases` have none of these.

*VRRP.* Weights that a sync group does not allow are cleared after they have been copied
(`vrrp.c:3829`, `4157`). `skip_check_adv_addr false` sets the flag. `unicast_ttl` without
peers is 0. With `dont_track_primary` a lost interface still faults the instance and
nothing takes that back (`vrrp_if.c:1500`). A VMAC that cannot be created is not tried
again. A unicast instance needs no interface, but `down_timer_adverts 1` (`vrrp.c:3606`),
an IPv6 multicast address, a VIP with a VMAC of its own or with `dont_track_primary`
(`vrrp.c:4082`), and a second instance of the same VRID (`vrrp.c:4656`) all read
`vrrp->ifp` and end the process; `AcceptedIsSound` allows the end for such an instance
only.

*Interfaces.* Two renames before the first message is read leave two entries with one
index, and a VMAC that gets its name back while the new one exists is not looked at; neither
is in the model (`Rename`). A change that is delayed is applied although the interface has
been renamed or deleted since ("what if interface has been deleted, name changed, etc?",
`keepalived_netlink.c:1668`), an entry that is filled again loses its debounce times and the
timer that runs (`keepalived_netlink.c:2300`), and the state of a VMAC that was renamed is
taken for that of the one that replaces it (`keepalived_netlink.c:2238`), which the kernel
does not set up as long as the renamed one has its MAC address. While the VMAC is missing,
the loss of its base interface does not fault the instance (`vrrp_if.c:1472`). `late` notes
the entries that this has happened to, until their next change.

*Routes.* A route whose echo is read after it was deleted is thought to be set and not
added again (`late` in `VrrpKernel`). nftables drop rules of a crashed process stay
(`Inherited`). With AH, a change of the interface's address does not reach the SPI.

*BFD.* A poll sequence is given up when its packet is lost, and when a packet with the
final bit is built before the answer (`bfd_build_packet()`): with an idle interval shorter
than the configured one the two ends may then keep different intervals. A session in Init
does not restart its expiry timer, so one whose detection time is shorter than the handshake
may go down just after it came up. The setups of the run leave room for a handshake, which
is what `NoFalseDown` and `Converges` are about; the theorems do not need it. A child that
is started again is not told the status (`bfd_event.c:53`); a block that the BFD process
refuses is still known to the others.

*Reload timer.* A reload that the check of the configuration refuses leaves the monitor as
it was; when the timer was what asked for it, the monitor is off for good, though the manual
says that keepalived keeps reloading at that time every day until the file is removed or
modified. When the directory disappears, the descriptor is closed and the thread freed but
`inotify_thread` keeps its value, and the next stop cancels and closes both again
(`reload_monitor.c:374`, `458`). A start without the directory leaves the inotify descriptor
open (`reload_monitor.c:427`). An overflow of the inotify queue is not in the model.

*Checks.* A DNS check whose first send fails leaves its socket open. When a connection is
still in progress at the time its thread runs, `socket_state()` registers the thread again,
with a timeout it has negated as an unsigned number (`layer4.c:193`), which is past any time
to wait for; the SMTP check then also takes the state for an error and ends
(`check_smtp.c:743`), which leaves a thread of a closed descriptor behind. A DNS query that
cannot be sent at once registers a write thread whose event `dns_check_thread()` frees
(`check_dns.c:373`). Both kinds are `stale` in `CheckConversation`; what touches such a
thread, its timeout or a reload, reads freed memory and is taken to end the process
(`Crash`). A dynamic MISC_CHECK that is killed leaves its weight behind
(`check_misc.c:480`), though the manual has the weight follow the exit status, and a
FILE_CHECK that fails at the start or whose weight does not fit is counted wrong at the
first change (`check_file.c:222`, `track_file.c:756`); both end with the next reload (`slip`
in `CheckerPool`). The ping check does not look at `enabled`; `ha_suspend` that a reload turns on copies the old count 0
(`ipwrapper.c:1155`), so the check stays suspended while the address is there; the `host`
blocks of SMTP_CHECK set the main checker. If all weights are 0 the quorum becomes 0 and
the hysteresis wraps (`check_data.c:1263`). `perform_quorum_state()` does not look at the
kernel's answer.

*Weighted tracking.* A file that is created between `realpath()` and
`inotify_add_watch()` is not read before its next event (`raced` in `VrrpTrack`), and an
overflow of the inotify queue is only logged (`lost`). The previous status of a file is cut
to an `int` while the new one is limited to the range of weights (`track_file.c:696`).
After a reload the states of scripts are taken over without `reverse`
(`vrrp_track.c:725`). What both an instance and its group track is counted twice at the
start and updated once. A weight out of range is used after the message that refuses it
(`vrrp_parser.c:1601`). Several tracked interfaces of weight 0 share one flag
(`vrrp_track.c:789`). The setups of `TrackCases` have none of these. `init_fail`, which one
of them has, has no effect: `vrrp_track.c:279` overwrites the state that the parser has set.

*Gratuitous ARP.* The refresh timers are not cancelled when an instance stops being
master, and each time it becomes master adds one (`vrrp.c:1804`), so refreshes may come
more often than `garp_master_refresh`. A reload drops queued messages, a pending second
block and the time the rate limit has reached. With a `garp_group` a queued message is
sent with the header of the interface the timer belongs to.

*Process tracking.* An exec of a process that is already counted counts it twice, and
messages that were in the socket when `/proc` was read are applied again (`mixed` in
`ProcessTrack`); a reload may drop a pending delay; lost messages are only noticed by
ENOBUFS. Reading everything again after that tells the instances without noting it in
`have_quorum` (`track_process.c:888`, `899`), so that the next change may be told twice or not
at all; the property is about the time up to the first loss (`lost`). A reload while that
is still to come leaves `reload_thread` set to a thread that is gone, and another loss
cancels it again (`track_process.c:969`); the model forgets it, as if it were NULL.

*Others.* A mail server that answers QUIT with anything but 221 and does not close is
sent QUIT again and again. The parent may have two children of a kind if a reload is
asked for while a start is only due (excluded by `odd` in `Supervisor`).
`restore_priority()` compares the wrong priority (`process.c:268`), and raising the
priority sets the minimal delay to 0, so it is raised once at most.

## Not modelled

- SNMP, DBus, JSON and printing format the state for others; logging is left out.
- The firewall back ends, `libipvs.c`, the netlink encoders and the layout of GARP/ND
  packets are encodings; what they are asked to do is in `VrrpKernel` and `IpvsPool`.
- Notification scripts and FIFOs are started or written and looked at no more; only
  what a quorum notification says is modelled.
- `lib/process.c`, name spaces, `/proc` settings and the command line: a
  few system calls in a row with no decisions that depend on what came before.
- The options of routes and rules: long independent lists copied into structures.
- Virtual server groups in the pool (they are read in `CheckConfig`), changes of the
  forwarding method at a reload, regular expressions in HTTP checks, quotes and escapes
  in the parser, VRRPv2 rounding, IPVLAN and VRF.
- `lib/vector.c`, `list_head.c`, `memory.c`: sequences and sets of TLA+ stand for them.
