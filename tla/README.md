# RDK WAN Manager in TLA+

The WAN Manager (`src/source`) runs on a home gateway. It decides which WAN
interface (DSL, Ethernet, ...) carries the traffic, brings that interface up,
follows its DHCP leases or PPP session, tells the rest of the box through
sysevents, and takes everything down again when the link, the configuration or
the policy says so. The modules here model that machinery, TLC checks small
instances, and TLAPS proves the main safety properties for every instance.

There are three groups of modules: the interface state machines with what they
promise, the four policies over those promises, and the objects of the data
model with what they store. The first two are tied together by a refinement;
the objects of the third share no state with one another.

## The system

| Part | Source | State | Operations | Talks to |
|---|---|---|---|---|
| Interface table | `wanmgr_data.c`, `wanmgr_dml.h` | one `DML_WAN_IFACE` per interface, the WAN configuration, the marking table; one recursive mutex for all interfaces, one for the configuration | get-and-lock by index or by `Wan.Name`, release | everybody |
| Interface state machines | `wanmgr_interface_sm.c` | one thread each, with its `eWanState_t` | ten states, a tick every 50 ms; set up and tear down IPv4 and IPv6 | DHCP clients, PPP manager, VLAN manager, sysevents |
| Policies | `wanmgr_policy_{pp,ppob,fm,fmob}_impl.c`, `wanmgr_controller.c` | one thread, chosen at boot: policy state, active index | select by type and priority every 500 ms, start a state machine, set and clear `ActiveLink` | interface table |
| DHCP events | `wanmgr_dhcpv4_apis.c`, `wanmgr_dhcpv6_apis.c` | leases (`Ipv4Data`, `Ipv6Data`), their status and changed flags, one message slot per family | handle a message; IPCP/IPV6CP handler threads; dhcp6c FIFO thread | state machines |
| IPC server | `wanmgr_ipc.c` | nanomsg socket | put a message into the slot of the interface it names, 5 tries 30 ms apart | udhcpc and dibbler handlers |
| Network utilities | `wanmgr_net_utils.c`, `wanmgr_utils.c` | processes, addresses, routes | start and stop clients; PPP session by an asynchronous thread | kernel, PPP manager |
| Sysevents | `wanmgr_sysevents.c` | LAN/WAN ready latch | post; listen on a thread | the other daemons |
| TR-181 interface objects | `wanmgr_dml_iface_apis.c`, `wanmgr_dml_apis.c` | the interface table | getters, setters, validate, commit | VLAN, PHY, DS-Lite managers, the operator |
| TR-181 DHCP objects | `wanmgr_dml_dhcpv{4,6}.c`, `wanmgr_dhcpv{4,6}_internal.c` | client and option tables | add, delete, commit, rollback | persistence |
| Bus and persistence | `wanmgr_rdkbus_{apis,utils}.c` | PSM records | load and store; upstream flag; link refresh thread | VLAN, PSM |
| Start-up and glue | `wanmgr_main.c`, `wanmgr_ssp_*.c`, `wanmgr_plugin_main*.c`, `wanmgr_platform_events.c` | none of their own | registration | CCSP libraries |

Hard behaviours, each listed with its line under `hazards` in `PROJECT.json`:

- every thread of the process writes the interface record between two ticks of
  its state machine, so a tick meets any combination of link, policy and lease
  changes at once;
- `Wan.Status` is what the policies read to decide that an interface is free,
  and it is written before the state machine is done;
- leases of two families come, change and expire in any order, and set-up and
  tear-down look at the lease status of the *other* family, not at what is
  configured;
- messages are dropped when their slot is taken, the name is not set, or the
  mutex is held for long;
- clients are started and stopped by name, without a look at what runs;
- releasing an interface needs another process to bring the link down.

- the data model's setters check and write in two critical sections, or leave
  with the mutex locked, and the agent has several threads;
- what is committed goes to two persistent stores record by record, the process
  may end in between, and a start merges what it finds;
- a rollback and a restart give entries other numbers than they had.

What makes each part correct:

- *state machines*: the box agrees with the lease that is followed, nothing is
  left behind for the next session, a release ends;
- *policies*: one session at a time, on the best interface, and none that
  should run is missing for ever;
- *messages*: none is invented, and none outlives its session;
- *tables*: numbers are unique, a transaction is applied as a whole or leaves
  no trace, and a restart gives back what was committed;
- *getters*: what is shown belongs together and is not older than promised.

## Modules

- `WanIface`: the record of an interface, the state of the box, and the C
  functions on them as operators from old to new values. They all run with the
  interface mutex held, several in a row, so a caller composes them into one
  atomic step.
- `InterfaceSM` extends it with the threads. `sm[<<n, k>>]` is the state of the
  thread in slot `k` of interface `n` (`NONE`: there is none, `START`: created
  but `wan_transition_start` not run). One operator per `wan_transition_*`, one
  per `wan_state_*`; `Tick` is one round of the loop of
  `WanMgr_InterfaceSMThread`: handle the waiting messages, process one state.
  The other threads are one action per setter, message or event. It also has
  the properties, the inductive invariant and the refinement mapping.
- `WanService`: what the state machines promise: sessions, one at a time, IPv4
  up only in a validated one, the next one only after IPv4 is down. The
  policies see it as `Wan.Status`, the other daemons as
  `ipv4_connection_state`. `InterfaceSM` implements it (`ServesInSessions`,
  checked and proved).
- `WanSession`: the threads as the policies know them, and all that a policy
  may do: create threads, write `ActiveLink`. `InterfaceSM` implements it
  (`KeepsSessions`, checked and proved), so a policy can be studied over these
  five states of a thread instead of over the leases.
- `PolicyPP` extends `WanSession` with the primary-priority policy
  (`wanmgr_policy_pp_impl.c`). `pp` holds the state and the local variables of
  the policy thread; `pp.pc` says where it is in its round, because without an
  active interface it releases the interface mutex between any two interfaces
  of its two scans (`CheckIface`, `SelectIface`). With one, a round is atomic
  (`PrimaryWanActive`, `SecondaryWanActive`), as in the code.
- `PolicyFixed` extends `WanSession` with the three other policies, which share
  their shape: fixed mode, fixed mode on bootup and primary priority on bootup.
  `ctl` is the controller's record and the position in the round. The fixed
  modes scan with the mutex held, so that `Selected` is one recursive function
  of the table; primary priority on bootup scans like `PolicyPP`.
- `WanConfig`: the object `Device.X_RDK_WanManager`, the choice of the policy at
  start and the reboot by which a new policy takes effect
  (`wanmgr_dml_apis.c`, `wanmgr_controller.c`).
- `WanIfTable`: the parameters of the interface table, the check for an equal
  pair of Type and Priority one interface at a time, commit record by record,
  restart, and crashes inside a commit (`wanmgr_dml_iface_apis.c`,
  `wanmgr_rdkbus_apis.c`). A getter or setter is the set of parameters it knows.
- `Marking`: the marks of an interface, from the agent's call to the list and
  the records of the store and back, renumbered, at the next start.
- `DmlTable`: what the DHCP tables share: entries by instance number and the
  agent's transaction (set, validate, commit or roll back).
- `Dhcpv6Table`: clients and sent options of DHCPv6, the back end with syscfg,
  the registry, the client process and the file of its options.
- `Dhcpv4Table`: the same for DHCPv4, with sent and requested options, whose
  back end knows the one client eRouter and stores nothing.
- `Learned`: what the objects show of leases, servers and received options:
  getters that trust what an earlier getter fetched, and tables read from files
  that a client is rewriting.
- `Places`: what a loop that goes through a list once and keeps some of its
  elements returns; the modules of the tables and of the files use it for the
  list loops of the code.
- `*_proofs`: the proofs about the module of that name; `Objects_proofs` is
  about `WanConfig` and `Learned`, `DhcpTables_proofs` about `Dhcpv6Table` and
  `Dhcpv4Table`. `LoopTheorems`: what a loop over a table or a list computes,
  for any table or list.
- `MC*`: the TLC instances, with the symmetry of leases and thread slots where
  only safety is checked. `MCObjects` and `MCDhcpTables` take turns between
  objects that share no state, so each is explored alone.

### From the code to the state

| Model | Code |
|---|---|
| `iface[n].phy` | `Phy.Status`, `INITIALIZING` and `UP` together (the state machines ask only for `DOWN`) |
| `iface[n].link`, `.status`, `.activeLink`, `.refresh` | `Wan.LinkStatus`, `.Status`, `.ActiveLink`, `.Refresh` |
| `iface[n].named` | `Wan.Name` is not empty |
| `iface[n].dslite` | `EnableDSLite` and `DSLite.Status` |
| `ipv4Status`, `ipv4Changed`, `ipv4Data`, `ipc4` and the same for v6 | `IP.Ipv4Status`, `Ipv4Changed`, `Ipv4Data`, `pIpcIpv4Data` |
| `host.conn4`, `.conn6`, `.wanStatus` | sysevents `ipv4_connection_state`, `ipv6_connection_state`, `wan-status` |
| `host.address4` | the address on the WAN device |
| `host.dhcp4`, `.dhcp6`, `.ppp` | udhcpc processes, dibbler-client, PPP sessions asked for |
| `upstream[n]` | `X_RDK_Upstream` of the base interface |
| `wanEnable` | `Enable` of the WAN configuration |
| `wanif[i][p]`, `psm[i][p]`, `call[t]` | the parameters of `WanIfTable`, their PSM records, the local variables of a setter between its two critical sections |
| `marks`, `nextMark`, `list`, `records` | `Marking.MarkingList`, `ulNextInstanceNumber`, the PSM list and the four PSM records of each alias |
| `clients`, `maxClient`, `aliasOfClient` | `ClientList`, `maxInstanceOfClient`, `AliasOfClient` of a DHCP object |
| `own`, `sent`, `syscfg`, `registry`, `dhcp` | `g_dhcpv6_client.Cfg`, `g_sent_options`, the two stores, the dibbler client and its option file |
| `info`, `table`, `sincePrevious` | `pDhcpc->Info`, the cached tables and the time since they were read |
| `config`, `stored`, `policyRuns`, `waiting` | the configuration object, its records, the policy whose loop runs, who sleeps before asking for the reboot |

History variables, which no action reads, serve the properties: `changed`
(fixed mode has given up an interface), `kept` (what a commit wrote or was
writing), `call[t].met` (the calls of two threads overlapped), `misused`
(aliases shared or with a hyphen, or a commit cut off), `stale`, `disturbed`.

### Choices a reader may question

- *Atomicity.* A tick holds the interface mutex from the first message to the
  end of the state function, and every other writer takes the same mutex. The
  configuration is read just before, under its own mutex. A change of `Enable`
  in between has the same effect as one just after the tick: the only other
  reader is the policy, and what it does to an interface is `Deselect`, which
  the tick sees.
- *Leases.* The code compares addresses field by field; the model compares
  configurations. A "bad" configuration is one for which
  `WanManager_GetBCastFromIpSubnetMask` fails, on which `wan_setUpIPv4` returns
  half-way while its caller goes on.
- *`checkIpv6AddressAssignedToBridge`* asks the kernel, and may wait for it up
  to 15 s with the mutex held. It is a nondeterministic answer in an atomic
  step.
- *Undefined values.* On IPCP down `IPCPStateChangeHandler` hands
  `wanmgr_handle_dchpv4_event_data` a message whose `isExpired` nobody wrote:
  it may or may not expire the lease. When a query to the PPP manager fails,
  the half-written message stays in the slot.
- *External processes.* The VLAN manager raises a link and names it only while
  the base interface is marked upstream, and takes the link down once the mark
  is cleared. That is how the code uses it; it is not in this repository.
- *`Events`* lists the kinds of outside events an instance has, so that a run
  explores some of them completely instead of all of them partly. Lost links,
  lease messages, `Enable` and the policy are always on.
- *The policy* of `InterfaceSM` starts a thread only when none is alive. That
  is what the policies are meant to do, not quite what they do: `PolicyPP`
  waits for `Wan.Status` DISABLED only, as the code does (known divergences).
  The properties of `InterfaceSM` therefore say nothing of the 50 ms in which
  an old thread has still to run `wan_state_exit` beside a new one.
- *`PromptStart`* says that a created thread runs its first step before the
  policy's next round. The code does not synchronise the two; a round comes
  500 ms after the creation and the first step at once. Only `OneWorker`,
  `OneWorkerUntilChanged` and the theorems about them need it.
- *`ActiveLink` and `LinkStatus`* are writable parameters of the data model.
  `ActiveLink` is taken to be written by the policy and the threads only,
  `LinkStatus` by the VLAN manager as below.
- *The number of slots* bounds the threads of one interface that exist at the
  same time; without a free one the policy waits. Two allow the overlap above.
- *The data model agent* is outside the repository. It is taken to do what the
  functions it calls provide for: add and delete outside a transaction; in one,
  set, validate every object, then commit or roll back every one. Only the
  interface table is called by several threads at once, since only its
  functions lock; `Learned` and the DHCP tables take no lock, and their calls
  follow one another. Visits of two threads would use freed arrays.
- *Marks*: the record of the list is taken to exist and to fit its 63
  characters. Without it add, commit and delete store nothing and report
  success.
- *Values.* A parameter of `WanIfTable` that is not part of a pair has two
  values, 0 for what a fresh interface has; strings that several functions
  generate (`SentOption2`) are pairs of a word and a number, since an alias the
  agent writes may be equal to one.
- Without `FEATURE_MAPT` and `FEATURE_IPOE_HEALTH_CHECK`, so the softwire is
  DS-Lite; `IPV4_OVER_IPV6_ACTIVE` is left out because nothing enters it.

## Runs

| Run | Question | Instance |
|---|---|---|
| `sm_leases` | do lease changes, lost links, refreshes, prefix clears and IPv6 keep the box consistent with the state machine, and are `WanService` and `WanSession` implemented? | one DHCP interface, two IPv4 leases (so that a renewal may change the address), one prefix, up to two udhcpc |
| `sm_ppp` | does the invariant of the proofs also hold with PPP and DS-Lite? | one PPP interface, a good and a bad lease |
| `sm_two` | and for sessions of two interfaces that follow one another? | a DHCP and a PPP interface |
| `sm_live` | does a release end, does disabling end every thread, does IPv4 come up? | one DHCP interface, two leases, `FairSpec` |
| `pp_pair` | is one interface at a time marked active and one thread at a time at work, and does the policy end up on the preferred interface with a thread that runs? | a primary and a secondary interface, two slots, `PpFairSpec` |
| `pp_choice` | does the selection find the interface that comes first while the table changes under it? | two interfaces switched on and off, of changing type, priority 254 against -1, 0, 254, 255; one slot |
| `policies` | do the three other policies start one thread at a time, and stay on the interface of the boot? | two interfaces whose priorities may be exchanged, two slots, all three policies |
| `dhcp_tables` | are the tables, the two stores, the running client and its option file kept together? | three numbers per table, one alias (one the code itself generates), one tag that is cut to eight bits, three settings of which one is invalid, one restart |
| `objects` | the same question for the other objects: pairs set by two threads, commits cut off, a policy change and its reboot, marks renumbered, what is shown of leases and files | see below |

The state machines' and policies' runs explore every reachable state: the only
counter, udhcpc processes, saturates at `MaxClients`. Two leases are enough for
a change, since the code only compares; two interfaces are enough for "another
interface", since the model never looks at three together; a prefix can be
assigned, withdrawn, expire and change to or from none. In `dhcp_tables` a
transaction touches up to two objects (two options with one tag, an option and
its client), three numbers give a table an entry of each origin: back end,
committed and uncommitted. Its constraint `Small` keeps one family still while
the other changes, and transactions of two objects before the restart. In
`objects` there are

- two interfaces with two types and two priorities and two threads. `Small`
  has the sets of two threads overlap on different interfaces while nothing
  else has been set or committed, and follows commits and restarts for one
  interface and one thread; one restart, or crash after any record;
- three policies, one of them without a state machine, all contents of the
  store, one loss of power besides any number of reboots asked for;
- up to two marks at a time (the limit is 2), aliases `A`, `B` and `A-B`, the
  last of which the list cannot tell from the first two; one start or crash;
- two leases, two answers of servers, an interval of three ticks, in all orders
  of getters, ticks and lines written.

What the properties say, by the hazard they are aimed at:

- `Ipv4OnlyWhileLeased`, `AddressMatchesState` and `LeaseApplied` tie the device
  and the sysevent to the lease; `ClientsRun` to the processes;
  `NothingLeftBehind` is about what the next session finds; `StoppedAfterIpv4`
  about what the other daemons are told. `sm_ppp` and `sm_two` check `IndInv`,
  from which these follow.
- `SingleActiveLink`, `OneWorker` and `OneWorkerUntilChanged` are about two
  threads that write the same flags; `ChoosesBest` compares the selection loop
  with a definition by quantifiers; `StaysOnBootInterface` is what "on bootup"
  means; `SettlesOnPreferred` and `SessionFollows` are the policy's liveness.
- `SetsKeepApart`: check and write in two critical sections; `SetsEnd`: nobody
  leaves with the mutex; `CommittedComesBack`: stores record by record.
- `RunsShownPolicy`, `PolicyTakesEffect`: a policy is shown at once, stored, and
  takes effect after a reboot half a minute later.
- `PortsMatchNumbers`, `RecordsAgree`: the numbers of marks change at a start.
- `FreshV6Numbers`, `OptionsAgree`, `RestartKeeps`: two stores merged by number;
  `ShowsWhatIsKept`, `ErouterStands`: rollback; `RunsAsCommitted`: the process
  and its file; `TagsDistinct`: tags compared before and after they are cut.
- `WholeObjectAgrees`, `ShowsOneAnswer`, `ShowsNothingOlder`: caches.

The runs show that all of them hold. Three runs expect a violation. Each takes
a comment of the code at its word:

| Run | Comment | What happens |
|---|---|---|
| `doc_status_noticed` | "Check interface config/status changes" (`wanmgr_policy_pp_impl.c:546`) | the link is lost, the state machine ends by itself, and the policy stays in PRIMARY_WAN_ACTIVE with nothing running until PHY, type or configuration changes |
| `doc_starts_marked` | the transitions start a thread "to begin configuring the WAN link" (`wanmgr_policy_ppob_impl.c:177`) | after a loss of the link the modes on bootup restart one without marking the interface active, which the old thread had cleared: it goes straight to its tear-down |
| `doc_add_rejected` | "If record found when add then reject that process" (`wanmgr_rdkbus_apis.c:923`) | a second mark with a committed alias is refused by the store, reported as a success and no longer new: its next commit overwrites the first one's records |

### Fairness

`FairSpec` says that a thread keeps ticking (its loop is a `select` with a
timeout and a mutex that every holder releases) and that the VLAN manager takes
a link down that is no longer marked upstream. Nothing is assumed of the
servers, the operator or the policy of that module. `PpFairSpec` adds the
rounds of the policy, whose loop is of the same kind. `ObjectsSpec` has that a
thread of the agent that is inside a call goes on with it as long as it gets the
mutex, that the main thread and the one that waits for the reboot run, and that
the reboot script does reboot the box. `SessionFollows` has in
its premise that what ends a session lasts until the policy sees it (`Lasting`):
`doc_status_noticed` is what happens otherwise. `Ipv4ComesUp` has its environment in its
premise: a link that stays up and a server that keeps assigning.

## Proofs

`InterfaceSM_proofs` proves, for any set of interfaces, thread slots, leases
and events, under the assumptions named in `WanIface`:

| Theorem | Property |
|---|---|
| `Invariance` | `Spec => []IndInv` |
| `TypeCorrect`, `UpOnlyWhileLeased`, `AddressFollowsState`, `LeaseIsApplied`, `ClientsAlwaysRun`, `NothingSurvives` | the invariants of the runs |
| `NeverStoppedWhileUp` | the action property `StoppedAfterIpv4` |
| `ServiceImplemented` | `Spec => Service!ServiceSpec` |
| `SessionsKept` | `KeepsSessions`, which is `Spec => Session!SessionSpec` |

`IndInv` is needed because none of the properties is inductive. That IPv4 is up
only in a leased state says nothing of which thread is in it, so another thread
could leave; that the address follows the sysevent needs the name to be there
whenever IPv4 is up, hence a name only while a thread is there to clear it, and
no message without a name; that the recorded lease is the one on the device
needs the ways it can lag behind. `OneThread` is what ties them together: since
at most one thread is alive, the whole invariant is a statement about that
thread, its interface and the box (`Local` in the proof module). Each
transition has a lemma saying that it keeps that statement, `BecomeKeeps` lifts
it to the invariant, and the writes of the other threads go through
`WriteKeeps`. The refinement of `WanService` reuses the same lemmas:
`TickServes` shows that every tick is one of its steps or stutters. For
`WanSession` each step of a thread is mapped by what it does to the state and to
the few fields the policies see (`TickKeepsSession`): what it does to leases,
clients and softwires is not seen, which needs of `IndInv` the `Wan.Status` that
goes with each state, so that none of these steps reports or ends a DISABLED.

`PolicyPP_proofs` proves, for any number of interfaces, any configurations of
them and any number of thread slots, under the assumptions named in `PolicyPP`:

| Theorem | Property |
|---|---|
| `PpInvariance` | `PpSpec => []PpInv` |
| `OnlySelectedActive` | `SingleActiveLink` |
| `OneThreadAtWork` | `OneWorker`, when `PromptStart` |
| `AlwaysChoosesBest` | `ChoosesBest` |
| `PolicyKeepsSessions` | `PpSpec => SessionSpec` |

`PpInv` follows the round of the policy. That at most one thread is at work
does not follow from itself: the policy creates one because each interface was
DISABLED when the scan passed it, so the invariant has to say that an interface
that was passed stays so (`Scanned`), which in turn needs that only a thread in
START can change that, that there is none outside `pc = "config"`, and that
every thread past START shows in `Wan.Status` (`Reported`). The last holds
because the only thread that sets DISABLED is the only one at work.
`PolicyKeepsSessions` says that the policy does nothing `WanSession` does not
allow one: it marks an interface, unmarks it, or creates a thread on it.

`PolicyFixed_proofs`, for any table, any of the three policies and any number of
slots:

| Theorem | Property |
|---|---|
| `FixedInvariance` | `FixedSpec => []FixedInv` |
| `OneThreadUntilChanged` | `OneWorkerUntilChanged`, when `PromptStart` |
| `AllOnBootInterface` | `StaysOnBootInterface` |
| `BootModesKeepSessions` | `FixedSpec => SessionSpec`, when fixed mode is not among the policies |
| `SelectsFirst` | what the scan of the locked table returns: the enabled PRIMARY interface with the least priority, the first of equals, or nothing if there is none |

`FixedInv` needs no count of threads. Those that are left are on the active
interface (`OnActive`), one at work keeps that interface from reporting DISABLED
(`Reported`), and each state that starts a thread has read the report with the
table locked. In fixed mode all this ends when the interface is given up while
its thread still runs, which `changed` records. It is also why
`BootModesKeepSessions` leaves fixed mode out: giving up its interface it writes
DISABLED on behalf of the thread, which `WanSession` lets only the thread do.

`AlwaysChoosesBest` and `SelectsFirst` are about loops over a table. The library
states induction for formulas, which the provers cannot instantiate;
`LoopTheorems` states it for a set of indices (a set that has an index whenever
it has the one before has them all), proves it from the well-foundedness of the
naturals, and derives that a function defined by recursion on the index has the
results of the loop. With it an invariant of the loop body (`FirstUpTo`) gives
the result for a table of any size.

The same module has what is known of the list loops: `ElementsAt` has the
elements kept and no others, has none twice if the list has none twice, gets an
element that is kept appended, and does not change when one that is not is
appended or cut out. The last is why the option file of the DHCPv6 client need
not be written again when a disabled option is added or deleted.

About the data model, for any instance:

| Theorem | Module | Property |
|---|---|---|
| `ShownPolicyRuns` | `Objects_proofs` | `RunsShownPolicy` |
| `ObjectShowsOneLease` | `Objects_proofs` | `WholeObjectAgrees` |
| `EntriesOfOneAnswer` | `Objects_proofs` | `ShowsOneAnswer` |
| `NothingOlderIsShown` | `Objects_proofs` | the action property `ShowsNothingOlder` |
| `PortsAlwaysMatch` | `Marking_proofs` | `PortsMatchNumbers` |
| `StoreAlwaysAgrees` | `Marking_proofs` | `RecordsAgree` |
| `IfTableInvariance` | `WanIfTable_proofs` | `WanIfSpec => []WanIfInv` |
| `PairsStayApart` | `WanIfTable_proofs` | `SetsKeepApart` |
| `LoadsWhatWasCommitted` | `WanIfTable_proofs` | `CommittedComesBack` |
| `ErouterAlwaysStands` | `DhcpTables_proofs` | `ErouterStands` |
| `NumbersAlwaysFresh` | `DhcpTables_proofs` | `FreshV6Numbers` |
| `OptionsAlwaysAgree` | `DhcpTables_proofs` | `OptionsAgree` |
| `AlwaysShowsWhatIsKept` | `DhcpTables_proofs` | `ShowsWhatIsKept` |
| `AlwaysRunsAsCommitted` | `DhcpTables_proofs` | `RunsAsCommitted` |
| `TagsAlwaysDistinct` | `DhcpTables_proofs` | `TagsDistinct` |
| `RestartsKeep` | `DhcpTables_proofs` | the action property `RestartKeeps` |

*The interface table.* `WanIfInv` has two parts besides types. `SeenAlone`: a
call that has met no other is the only one, and what it has seen of the
interfaces it has passed is still so; hence its write cannot make two pairs
equal. `RecordsKept`: for each parameter that a start loads, the record is one of
the values a commit wrote or was writing; it holds record by record, so a crash
between two records keeps it. That a loaded value is the record needs that no
record is blank, which is why the two parameters whose records a commit empties
are excepted.

*Marks.* `RecordsAgree` counts: the list is as long as the set of marks in use.
It follows from a one-to-one correspondence of the two (`StoreInv`): each mark in
use is listed with records of its number, each part of the list is the alias of
one of them, and neither list nor aliases have anything twice. All of it is
under `~misused`, and a start has to give it back for numbers that have changed.

*What is shown.* `LeaseInv`: while an agent reads the object and the lease stays,
what an earlier getter has fetched is what the client reports, so it makes no
difference which getters trust it. `FilesInv`: the lines of a file are of the
answer being written, since the client empties the file before it writes another,
and hence so are the entries one reading gives, at whatever line the client is.

*The DHCPv6 tables.* `V6Inv` is one invariant for the six properties:

- `ClientsOK`: numbers are at most the counters; client 1 is never new, and no
  other client has a committed option;
- `RegistryOK`: the same for the numbers of the registry, which a restart merges;
- `KeptOK`: the back end's list in memory is that of syscfg entry by entry, and no
  number occurs twice, so that deleting by number deletes one;
- `RunsOK`: the process runs with the settings in memory, its file holds the
  enabled options in their order;
- `FirstOK`: client 1 shows what the back end has, except for the objects of the
  current transaction; and tags are distinct.

Hardly one of them is inductive by itself, `TagsDistinct` least: a transaction commits
its objects one after the other, and between two of them the tags that are sent may
well clash. What holds then is that all the tags in play are distinct, those of the
objects still to be committed as in the transaction and the others as sent
(`ValidTags`); validation establishes it, with the tags already cut to eight bits,
and the last commit turns it into `SentTags`. `RestartKeeps` needs `KeptOK` for
what is loaded, and `NumbersOnce` for where each option is put.

*Assumptions.* They are the named `ASSUME`s of the modules, which TLC evaluates in
the runs. They say what kind of thing a constant is (tags, priorities and the
leases that are shown are numbers, an alias of a mark is the sequence of its
parts, the default of the DHCPv6 settings is one of them), that a lease is not
`NoLease`, that a missing record is not a value, and that the table's indices are
consecutive.

*Only model-checked*: the liveness properties `ReleaseEnds`, `DisableEnds`,
`Ipv4ComesUp`, `SettlesOnPreferred`, `SessionFollows`, `SetsEnd` and
`PolicyTakesEffect`, since the prover does not reason about fairness. Every
invariant and every action property of the passing runs has a theorem. What the
theorems do not say: the policies are proved over `WanSession` and the state
machines to implement it with one policy that starts a thread only when none is
alive; that a policy of `PolicyPP` or `PolicyFixed` meets this too is what
`OneThreadAtWork` and `OneThreadUntilChanged` say under `PromptStart`, but for the
thread that has still to run `wan_state_exit`.

## Known divergences

Found while modelling. The models follow the code in all of them; the first
three groups name what no property says for that reason.

State machines and leases:

- The link falls back to CONFIGURING while addresses are obtained:
  REFRESHING_WAN starts a second udhcpc, and "Stops DHCPv4 client"
  (`wanmgr_interface_sm.c:970`) signals one. `TypeOK` bounds the processes,
  no property says there is at most one.
- A DHCPv6 lease is known but not yet configured when IPv4 goes down for good:
  `wan-status` stays `started` (`:766`).
- Both leases expire in one tick: only IPv4 is torn down and
  `ipv6_connection_state` stays up (`:858`).
- Both leases are known before either is configured: each set-up leaves
  `wan-status` to the other and it is never posted
  (`wanmgr_dhcpv6_apis.c:577`).
- `Wan.Status` is DISABLED one tick before the old thread clears the interface,
  so a policy may create the next one in between, against "Waiting to tear down
  all in active wan connection" (`wanmgr_policy_pp_impl.c:491`).
- In fixed mode, an interface that is given up keeps its thread while the next
  interface starts one (`Transition_FixedInterfaceChanged`).

Interface table, configuration and marks:

- A commit writes SelectionTimeout and DynamicTrigger.Delay before it has
  formatted them, so that their records are blank and a start loads the
  defaults. Rollback does nothing; commits of the name, of Phy, of the dynamic
  trigger, of IP and of DS-Lite write nothing.
- The setter of the three PPP flags returns with the mutex locked: every other
  thread waits for ever. `SetsEnd` excepts it by `pppFlagSet`.
- Two overlapping sets may give two interfaces one pair; `SetsKeepApart` says so.
- The setter of Policy sleeps half a minute with the configuration locked. With
  MULTIWAN_MODE or an unknown policy stored the box reboots again and again.
  Enable and IdleTimeout are never stored; without a record a start reads an
  uninitialised variable.
- Numbers of deleted marks are not used again before a restart, so that after
  fifteen additions none is possible. Deleting an entry that was not committed
  fails and makes it count as committed. A crash between the list and the
  records leaves a mark with an alias and nothing else. `RecordsAgree` excepts
  shared and hyphenated aliases and such crashes.

DHCP tables:

- DHCPv4: the registry folder is never opened, so nothing is stored; an added
  client's output number is not returned; the rollback of a client gives it the
  number of eRouter, the only client its back end knows.
- DHCPv6: the tag of a sent option is read back from the key of its number
  (`wanmgr_dhcpv6_apis.c:1046`); a committed client other than the first is not
  stored unless it has options; client 1 comes back after a restart if deleted;
  committing an enabled option restarts the client even if it is disabled; the
  rollback of a committed client other than 1 takes back its alias only, and one
  saved alias serves the whole table; a sent option of another client is always
  refused by the back end; `WanMgr_DmlDhcpv6cSetSentOptionValues` is given the
  client's index for the option's.
- A DHCPv6 answer half written is cached as "no server" for a minute.
  DHCPServer and DNSServers of DHCPv4, read alone, may be of an earlier lease.

## Not modelled

- DNS, routes, logging, LEDs and platform notifications have no influence on
  the control modelled here; the LAN/WAN ready latch and the ULA notifications
  of the sysevent listener only call scripts.
- The builds with `FEATURE_MAPT`, `FEATURE_IPOE_HEALTH_CHECK`,
  `WAN_ENABLE_STANDBY` and the HUB4 MAP-T getters. The models are of the build
  without them.
- The thread that serves the dhcp6c FIFO, fed only by the DHCPv6 client of
  other platforms, and the IPv6 prefix utilities it calls; the detached thread
  that creates a PPP session and talks only to the PPP manager.
- The socket loop of the IPC server and its message kinds for the health check.
  What it does to an interface, deliver a lease or lose it, is in `InterfaceSM`.
- Start-up and bus glue (`wanmgr_main.c`, `wanmgr_ssp_*.c`,
  `wanmgr_plugin_main*.c`) and the utilities call libraries outside the
  repository. The failure of `popen` in `WanController_Policy_Change` and of the
  bus calls is left out where the code ignores it.
- The text of parameters, the registry's path names and the memory of list
  entries: what two functions tell apart is kept, the rest is not.

## What could come next

The health check build of the state machine, whose messages come through the
IPC server; the PPP creation thread against the deletion of its session, with a
model of the PPP manager; and a `WanSession` in which a policy may also report
DISABLED, as fixed mode does, with a proof that fixed mode keeps to it.
