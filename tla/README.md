# Formal models of OpenSync

TLA+ models of five parts of OpenSync, the TLC runs that check them on small
instances, and TLAPS proofs of every safety property these runs pass. The
models are translated from the C sources; `PROJECT.json` lists, for every
definition that stands for code, the file and the lines it stands for, and the
hazards of the code with the properties that would show them.

Contents: [the system](#the-system-and-its-parts) ·
[modules and code](#modules-and-code) · [runs](#runs) · [bounds](#bounds) ·
[fairness](#fairness) · [proofs](#proofs) ·
[what does not hold](#what-does-not-hold) ·
[observations](#further-observations) · [not modelled](#not-modelled)

## The system and its parts

OpenSync is the management software of a home access point. It is a set of
processes ("managers"), each a single libev loop, that share an OVSDB database
and are controlled from a cloud. The parts modelled here are the ones a device
cannot do without:

| part | code | what it does |
|---|---|---|
| **psfs** | `src/src/lib/psfs` | the persistent key/value store: a journal file used by several processes, with locks, appends and pruning |
| **WANO pipeline** | `src/src/wano` | provisions a WAN interface: tries WAN plug-ins (DHCP, PPPoE, VLAN, ...) in order and publishes the uplink |
| **CM** | `src/src/cm2` | picks an uplink, resolves the redirector and the manager, and makes ovsdb-server connect to them |
| **QM** | `src/src/qm`, `src/src/lib/mosqev` | queues the reports of the other managers and publishes them to an MQTT broker |
| **confsync** | `src/src/lib/osw` | compares the intended Wi-Fi configuration with the reported state and commands the drivers until they agree |

They interact through OVSDB and files: WANO writes the rows of
Connection_Manager_Uplink that CM reads; the session CM establishes brings the
AWLAN_Node settings that QM acts on and the Wi-Fi configuration that confsync
carries out; psfs is below the persistent tables of all of them. Each module
takes what the other parts write as an environment that may do it at any
moment, so a property of one part does not depend on the model of another.

## Modules and code

Within one manager a callback runs to completion, so a callback is one action,
except where a step inside it matters: in psfs an action is one system call
(another process, a kill or a power loss may come between two), in WANO it is
one call of a state handler, in CM one pass of `cm2_update_state()`; nothing
else happens between the steps of one call there (`entering`, `pass`).

### Psfs

`Psfs` models one store. `pc[p]` says where process `p` is in the library:
`OpenFile`, `LockFile`, `CheckInode` are the loop of `psfs_open`, then load,
set, erase, the append and the prune mode of `psfs_sync`, close and wipe. The
file system is external, modelled from how psfs.c uses it: names refer to
inodes, data reach the medium at an fsync of the file, names at an fsync of the
directory, and a power loss leaves anything younger undetermined
(`CrashContents`, `storeDur`). A record is a key and a value; magic, sizes and
CRC are the difference between a record and `Torn`. `Faults` names the calls
that may fail; `HandledFaults` are the failures after which the code keeps its
promises. `legal[k]` is a history variable: the values the interface allows
for a key after a power loss.

### WanoPipeline

The pipeline of one interface and the state machine of each of its plug-ins.
`Entry` actions are the handlers of the states in `wano_ppline.c`; the rest are
the events: inet state, plug-in statuses (one loop iteration after they were
reported, `status`), plug-in timeouts, the retry timer, bridge events, restart
of all pipelines, disposal of a VLAN's pipeline. The plug-ins, the network
manager and the DNS probe are environment: `Says` tells what a plug-in may
report. `wano_ppline_schedule` is the greedy walk `Walk` over the masks.

### Cm2

`Tick`, `Begin` and one action per state are `cm2_update_state()`; `lists` are
the two address lists of each destination with their index and the state of
their c-ares query. ovsdb-server is external: it owns `row` and `session`, and
CM learns of both from `inbox`, in order and late. `Reset` is a restart of the
managers. The model is of a build with WAN link selection. Left out: counters
that only report, `is_con_stable`, the fast backoff, the gateway-offline mode
and the restore method (CONFIG_CM2_CLOUD_FATAL_THRESHOLD is 0). How CM computes
the used link (priorities, GRE, blocked links) is the environment's choice.

### Qm and ReportQueue

`Qm` models the queue with its counters (`length`, `bytes`, kept beside the
list as in the code), the log buffer, publishing, the settings and the
reconnect timer. `link` is the mosqev session: its flag is set by the broker's
CONNACK and cleared by the disconnect callback only, hence the states
"handshake", "silent" and "closing". Reports are numbered in the order they are
handed over; `item` and `sent` are history. `dead` is reached when the loop
that makes room would not end or when the log's terminator would be written to
a buffer that is not there.

`ReportQueue` is what QM promises its clients, without counters, connection or
configuration: a report is held until it is published or makes room, only as
many of the oldest make room as must, nothing held is published and kept, and
only statistics are lost when publishing fails. `Qm!QueueSpec` states that `Qm`
implements it, with `given <- item`, `held <- queue`.

### OswConfsync

The four states of `osw_confsync.c`, its timers (retry, grace periods of
bring-up, MBSS, cached tree, channel availability check) and the construction
of a command set (`Work`), for the access points of one radio. A driver that
applies a command late, or loses it, is external. The MC modules (`MCPsfs`,
`MCWanoPipeline`, `MCCm2`, `MCQm`, `MCOswConfsync`) only give values to
constants, and `MCPsfs` a symmetry and a view.

## Runs

`tlc -config <cfg> <module>`; every run finishes within minutes. For every
property of a passing run `PROJECT.json` names a mutant: a definition changed
as a plausible bug would change it, with which TLC finds the property violated.

| run | checks | shows |
|---|---|---|
| `psfs_shared` | TypeOK, CrashSafe, LockExcludes, OneStore, CacheCoherent | two processes on one store, with kills, power losses and the failures psfs.c recovers from: no synced value is lost, a writer is alone, no handle outlives its file's name, caches agree with the journal |
| `psfs_keys` | CrashSafe, CacheCoherent | the same with two keys, so that a prune stops half-way through its records |
| `psfs_faults` | LockExcludes, ReaderSnapshot | every failure and an unlocked wipe: locks still exclude, and a reader's cache is its file |
| `psfs_tmp_fsync` | CrashSafe (violated) | a failing fsync in a prune, see findings |
| `wano_default` | TypeOK, Exclusive, NoStaleCallback, NeverStuck, UplinkTruth | the default plug-in list with every event: at most one plug-in per address family, no callback of a cancelled plug-in, every resting place has a wake-up, the uplink row tells the truth |
| `wano_live` | Provisioned, ChainEnds | on a calm link the interface gets its uplink; every callback returns |
| `wano_mixed` | Exclusive (violated) | a list whose masks are not in order |
| `wano_starved` | Provisioned (violated) | a plug-in whose init fails keeps others from running |
| `cm2_safe` | TypeOK, IndexInList, FreshManager | a disturbance of any of ten kinds at any moment: no index runs off a list, no address of an earlier manager is written |
| `cm2_live` | ConnectedTruth, Recovers, CallsEnd | after a lost session, a failing DNS answer or a deleted row CM finds the manager again, knows whom it is connected to, and each call returns |
| `qm_queue` | TypeOK, NeverDead, LogBounded, AckTruth, PublishedOnce, QueueSpec, Drains | the queue implements ReportQueue, its loops end, the log is bounded, acknowledgements are true, nothing is published twice, and the queue empties |
| `confsync_plain` | TypeOK, SettledTruth, NoInterrupt, Settles | confsync rests only when the radio is as configured, does not interrupt a bring-up within its grace period, and always settles |

The three violated runs state what a comment or header of the code says; the
quotations are in the findings of `PROJECT.json`:

- **psfs_tmp_fsync** (psfs.c:1361): `psfs_sync_prune` marks records clean before
  the new file is the store. When the fsync fails, sync returns false, a second
  sync finds nothing dirty and returns true, and a power loss loses the data.
- **wano_mixed** (wano_ppline.c:409): the run mask starts from ACTIVE plug-ins
  only, and RUNNING ones are added in list order, so a pending plug-in in front
  of a running one is scheduled although their masks overlap.
- **wano_starved** (wano_ppline.c:439): the plug-in state is read before
  scheduling fails, so a failed plug-in still occupies its mask.

## Bounds

- **psfs**: two processes are enough for every lock conflict (a third would only
  wait as the second does); one or two keys; a journal of at most `MaxLen`
  records before appends stop, enough for a record, a tombstone and a torn
  record; up to two mishaps, so that a failure can be followed by a power loss.
  Inode numbers are reused; the view identifies states that differ in them only.
- **wano**: the plug-in lists are those of the default and of two other
  configurations; nothing else needs a bound.
- **cm2**: answers of up to two addresses (so that a list has a middle and an
  end), thresholds of 1 and 2 instead of 10, one disturbance per behaviour in
  addition to all orders of healthy events.
- **qm**: a queue of two reports and three bytes, sizes 1, 3 and 4 so that it
  fills by number and by bytes and one report does not fit; three reports; two
  settings; one fault. The log holds 5 bytes; lines of 4 and 5 are on both
  sides of its limit.
- **confsync**: two interfaces, one new configuration, one fault. The same
  properties were also checked with two configurations (2.2 million states) and
  with two faults (0.6 million); the smaller instance is kept because it runs
  in a minute.

`CHECK_DEADLOCK FALSE` is given where the system may stop: a disposed pipeline,
a queue manager that has been handed everything, confsync at rest.

## Fairness

- **wano** `FairSpec`: a due state handler or callback runs, timers expire
  (libev). Strong fairness for the network manager and for a plug-in that only
  ever says OK: each may be interrupted, but not for ever. `Provisioned` is
  about a calm link.
- **cm2** `FairSpec`: the passes of a call go on (weak), the loop dispatches what
  is waiting (strong, since each event is disabled while a call runs), and
  ovsdb-server and the redirector act. `Prompt` says that timeouts are longer
  than a healthy network needs; with shorter ones CM gives every attempt up.
- **qm** `Fairness`: the publish timer is periodic, time passes, a broker that is
  not silent answers, and a disconnect that was asked for ends. Nothing is
  assumed of the log timer or of the settings.
- **confsync** `FairSpec`: libev runs the work, timers expire, and a driver
  carries out what it has not lost. The grace and MBSS periods (10 s) end before
  a retry (30 s) that was armed with or after them, as the constants say; this
  is a guard of `Retry`, and the only order of timers that is assumed.

## Proofs

TLAPS checks `PsfsProofs`, `PsfsDataProofs`, `WanoPipelineProofs`, `Cm2Proofs`,
`QmProofs`, `QmQueueProofs` (with `SizeSums`) and `OswConfsyncProofs`, for every
value of the constants allowed by the ASSUMEs of the module proved about. Every
invariant, action property and refinement of a passing run is a theorem. Each
is proved from an inductive invariant; the last column says what that adds and
why the property needs it.

| theorem | states | needs |
|---|---|---|
| PsfsProofs!TypeCorrect | `[]TypeOK` | `HandleOK`: descriptors and program counter agree |
| PsfsProofs!LockingCorrect | `[]LockExcludes`, whatever fails | `LockInv`: locks exclude from the moment they are granted, also before the inode was compared, and a temporary file is nobody else's |
| PsfsProofs!RetryCorrect | `[]OneStore` if Faults are handled ones | `StoreInv`: during a prune the temporary name is the pruner's file |
| PsfsDataProofs!SnapshotCorrect | `[]ReaderSnapshot`, whatever fails | `LockInv`: nobody writes the file of a reader that is ready |
| PsfsDataProofs!CacheCorrect | `[]CacheCoherent` if Faults are handled ones | `CacheInv`: during a prune the new file holds exactly the keys the loop has visited, so when it takes the name the cache agrees with it |
| PsfsDataProofs!CrashCorrect | `[]CrashSafe` if Faults are handled ones and `FsyncSavesName` | `MediumInv`: what a writer has cached is legal, and the copy of a prune is on the medium before a saved name can refer to it |
| WanoPipelineProofs!TypeCorrect | `[]TypeOK` | |
| WanoPipelineProofs!CallbacksCorrect | `[]NoStaleCallback` | `StatusInv`: a pending status is one its plug-in may say, and OK of an ACTIVE plug-in comes only from one that asked for a restart |
| WanoPipelineProofs!WakeUpCorrect | `[]NeverStuck` | inductive as it stands |
| WanoPipelineProofs!ExclusionCorrect | `[]Exclusive` if `MaskOrder` | `Order`: a pending plug-in in front of an overlapping running one waits for an ACTIVE one |
| WanoPipelineProofs!UplinkCorrect | `[]UplinkTruth` if `RestartsPlain` | `L3Inv`, `L2Inv`, `ChildInv`: what holds while a chain of handlers is under way |
| Cm2Proofs!TypeCorrect | `[]TypeOK` | the same invariant as the next, since a target is an address of a list |
| Cm2Proofs!IndexCorrect | `[]IndexInList` | `ListInv`: while a target is being tried, the entry under the index of its list is an address, so the index can move on by one; a list whose query runs is empty |
| Cm2Proofs!FreshCorrect | `FreshManager` | `FreshInv`: the lists and running queries of a manager address that was taken up are for that name, and one that is new while the redirector is looked up has no list yet; a pass looks for a new address before it writes |
| Cm2Proofs!ConnectedCorrect | `[]ConnectedTruth` if `NoWifiSwitch` | `TruthInv`: names are those of their destination, also in updates still queued; the last queued update of the row tells the row, and with none queued CM knows it; while CM tries or is CONNECTED the row has a target of `dest` or none; it rests in CONNECTED only when `connected` |
| QmProofs!AcksCorrect | `[]AckTruth` if compressing never fails | inductive; what publishing does not refuse it has sent |
| QmProofs!LogCorrect | `[]LogBounded` | the type of the log; a line is stored with a size below the limit |
| QmProofs!LogThere | `[](dead # "null")` | the same invariant: a line that does not fit an empty log does not exist |
| QmProofs!OnceCorrect | `[]PublishedOnce` | `Numbered`: queue and sent hold numbers of reports handed over, so a new number is in neither |
| QmQueueProofs!TypeCorrect | `[]TypeOK` | `Settled` and `QueueInv`: the counters are never negative |
| QmQueueProofs!NeverDeadCorrect | `[]NeverDead`, whatever fails | `QueueInv`, with `Counted`: `length` and `bytes` are the number and the sizes of the queued items, so the loop that makes room stops at the latest when the queue is empty |
| QmQueueProofs!QueueCorrect | `QueueSpec` if compressing never fails | `QueueInv`: initial states map to initial states and every step to a step of ReportQueue or a stutter, one lemma per action |
| OswConfsyncProofs!TypeCorrect | `[]TypeOK` | `Types` and `AtRest`; no grace period ends in IDLE since none runs |
| OswConfsyncProofs!GraceCorrect | `NoInterrupt` | `RiseInv`: a bring-up in its grace period has its timer armed and is not up, so work neither commands it nor comes to rest |
| OswConfsyncProofs!SettledCorrect | `[]SettledTruth` | `UpInv`: no interface is up on a channel to be checked; so the first interface that differs cannot be kept waiting by one before it |

`MaskOrder` and `RestartsPlain` are conditions on the plug-in list, found by
asking when the properties hold; `wano_mixed` shows that the first is needed,
and an ASSUME of `MCWanoPipeline` that the default list meets both.
SettledCorrect rests on `BootAssumption` of `OswConfsync` (no interface is up
at first on a channel still to be checked) and on the external driver, which
brings an interface up only after the check. The other conditions are on what
may go wrong, and the property fails without them ("What does not hold" and
"Further observations"): `HandledFaults` are the failures psfs.c recovers from,
`FsyncSavesName` is what file systems in use do for a new file, a failing
`compress()` is taken for a success, and `NoWifiSwitch` says that no uplink is
Wi-Fi or that no better one outbids the one in use. `ConstantsAssumption` of
`Cm2` asks that the empty target be nobody's address.

`Cm2Proofs` takes the disturbances in any number: `MaxFaults` is any natural
number, as are the lengths of the lists. `TruthInv` needs `ListInv`, and
`ConnectedTruth` alone is far from inductive: whom CM is connected to was decided
when the target was written, an update and several states earlier.

`bytes` is compared with `MapThenSumSet`, a recursive function that takes the
elements in an order CHOOSE fixes. `SizeSums` shows that the sum does not depend
on it: removing any element subtracts its size. The prover cannot instantiate an
induction rule whose parameter is an operator, so the induction is over a *set*
of natural numbers (those up to which the claim holds), by its least
counterexample.

The invariants were checked with TLC as well: `QueueInv` and
`Settled` on the instance of `qm_queue`, `ListInv`, `FreshInv` and `TruthInv` on
instances like `cm2_safe` with two disturbances that meet `NoWifiSwitch`.

Only model-checked: the liveness properties (Provisioned, ChainEnds, Recovers,
CallsEnd, Drains, Settles), since the prover has neither fairness nor ENABLED.

## What does not hold

These properties are defined in the modules and fail for the code as it is. No
run is kept for them. Each can be reproduced from the cfg named, with the
changes given.

- **ConnectedTruth with Wi-Fi uplinks** (`Cm2_live.cfg` with `Spec`,
  `Stack = {"v4"}`, `LinkWifi = {TRUE}`, `Faults = {"priority"}`). While CM
  resolves the manager, the Wi-Fi parent changes; LINK_SEL decides to keep the
  session (cm2_event.c:508), which is still the redirector's, and CM rests in
  CONNECTED with the manager as its destination. cm2_event.c:49 says: "In any
  state except if connected to manager: if manager_addr is updated then try to
  connect to manager."; believing it is connected to the manager, CM does not.
- **FreshRedirector** (`Cm2_live.cfg` with `Spec`, `RedirHosts = {"r1", "r2"}`,
  `Faults = {"redirector", "dns"}`, `MaxFaults = 2`). A new redirector_addr
  arrives while the old name is being looked up: `updated` is cleared
  (cm2_event.c:710), `cm2_resolve` refuses because a query is in progress, and
  the answer for the old name is then used. The comment at cm2_event.c:962 says
  "handle anyway: go back to resolve new address".
- **BrokerFollowed** (`Qm_queue.cfg` with `Reports <- FewReports`, `Faults = {}`,
  `MaxItems = 0`). The broker changes during the MQTT handshake: the connected
  flag is not set, so there is no disconnect, and the reconnect time is ahead,
  so there is no connect (qm_mqtt.c:159). The old broker answers and QM stays
  with it. The comment at qm_mqtt.c:156 says "reconnect if broker changed".
- **AckTruth and QueueSpec where compress() fails** (`Qm_queue.cfg` with
  `Faults = {"compress"}`). The error code of `compress()` is returned as a
  truth value (qm_mqtt.c:231-251): a queued report is removed and a direct one
  acknowledged without having been sent.
- **IdleTruth with MBSS changes** (`OswConfsync_plain.cfg` with `Spec`,
  `Confs <- MbssConfs`, `Boots <- MbssBoots`, `Dfs = {"none"}`, `Faults = {}`).
  An MBSS mode change is commanded and its timer armed; a new configuration
  comes; the work skips every interface while the timer is armed
  (osw_confsync.c:2076), takes this for having nothing to do, and IDLE disarms
  the timer (2403). If the driver's report came before or while REQUESTING
  nothing is left to wake confsync and the new configuration is not applied:
  `<>[]InSync` fails under `FairSpec` of the same instance. osw_confsync.h:31
  and the "settled" message (2404) say the opposite.
- **Settling after a lost MBSS command** (the same with `Faults = {"lose"}`,
  `MaxChanges = 0` and `<>[](state = "IDLE")`). Verifying re-arms the 10 s MBSS
  timer (2109); each expiry verifies again and restarts the 30 s retry, which
  never fires. In the product the confsync watchdog ends this by aborting the
  process after three minutes.

`SettledTruth` and `Settles` are therefore stated of behaviours without MBSS
changes (the history variable `mbssUsed`).

## Further observations

Met while translating; not stated as properties.

- psfs: with "append_fsync" (psfs.c:1277), "prune_write" (1351) or "dir_fsync"
  (1375) among the faults CrashSafe fails too, and with `FsyncSavesName = FALSE`
  (a file system on which fsync of a new file does not save its name) the first
  sync of a new store is not durable. `psfs_erase` truncates at once (480),
  while its comment (457-459) speaks of the next sync. A wipe during an open or
  a prune can bring contents back (1527). `psfs_open` leaks a locked descriptor
  when fstatat fails (193). A failed encryption in `psfs_set` drops the cached
  record of a key that is still in the file (568).
- WANO: a restart leaves FREEZE while the interface is bridged
  (wano_ppline.c:1374, compare 694); `wano_ppline_fini` leaves the retry timer
  (166).
- CM: the header comment (cm2_event.c:57-66) and the code differ on limits and on
  counting disconnects. A withdrawn manager address is still written if it was
  being resolved. A new redirector while CM is connected to the manager leads to
  FAST_RECONNECT to the same manager. The is_used echo is not compared with the
  link in use. An IPv4 refusal while the IPv6 query runs leads to QUIESCE_OVS.
- QM: disabling the remote log does not reset its interval, so enabling it again
  with the same value is ignored (qm_mqtt.c:508-526). `qm_enqueue_and_reply`
  reads the request's flags after the item may have been freed
  (qm_event.c:113). With all 20 contexts in use an accepted descriptor is not
  closed (qm_event.c:245). Merged statistics are lost when publishing fails
  (qm_mqtt.c:380-399): ReportQueue allows it. A failed log publish counts as
  one dropped line (501). `mosqev_connect` returns true when reinit fails
  (mosqev.c:313).
- confsync: a grace period that expires while REQUESTING is not flushed, so the
  command goes out without a new one, and a further change within 10 s
  interrupts that bring-up; `NoInterrupt` is about bring-ups that started a
  grace period. Skipped interfaces are commanded only after the cached tree
  times out (60 s).

## Not modelled

OpenSync is more than half a million lines of C in some thirty managers and a
hundred libraries; the models cover a small part of it by lines. They were
chosen for control that tests hardly reach: shared files, retries, timers,
connections and asynchronous answers. The rest, listed by component in
`PROJECT.json`:

- **Within the parts modelled**: psfs, all operations of one store, without the
  bytes of a record; WANO, not the plug-ins; CM, not the computation of the used
  link, GRE and bridges, telemetry or gateway-offline mode; QM, not the framing
  of its socket and its client library, nor message contents; confsync, not the
  comparison of each attribute, station interfaces, MLO, interfaces that appear
  and vanish, nor the watchdog, which measures real time.
- **Parsers and DPI plug-ins** (DNS, HTTP, mDNS, UPnP, DHCP, ...): sequential
  code over bytes; a model would be a transliteration.
- **Statistics and flow collection** (sm, fcm and their libraries): sampling,
  arithmetic and encoding, with little control.
- **Translators of OVSDB rows** into kernel state (nfm, om, most of nm2, osn, osp,
  target): their state is in the kernel, and a row is one command.
- **Generated and library code** (schema, protobuf, ovsdb client, ds, log, ...).
- **Managers within reach but not translated**: dm, um, psm, cellm, vpnm, tpsm,
  gatekeeper caches, and the steering and DFS modules of osw and ow. They have
  state machines of the kind modelled here and are the next to take.
