# A TLA+ model of sync-client

sync-client keeps an OpenXT machine in the state a central server asks for: which virtual machines exist,
which disk images they have, which release of the platform is installed. This directory holds TLA+ modules
that model it, TLC configurations that check them on small instances, and proofs for all values of the
constants, checked by TLAPS. Line numbers refer to `src/sync_client/client.py` and `src/sync_client/launcher.py`, and where a
file of `src/pysynchronizer/` is named, to that file.

## 1. The system

```
 domstore ──config──► sync-client-daemon (launcher.py) ── Popen / SIGTERM / SIGKILL ──► sync-client (client.py)
   pid file ◄──flock──┘      ▲  SIGCHLD, SIGTERM, clock                                    │
                                                                                           │ curl: target state, images, reports
 server ◄──────────────────────────────────────────────────────────────────────────────────┤
 icbinn storage: disks/, repo-download/, repo/, key files ◄────────────────────────────────┤
 xenmgr (D-Bus): VM and disk objects, start/stop by users ◄────────────────────────────────┤
 updatemgr: locks, installs and removes repo/*.tar ◄── shared directory ───────────────────┘
 sync-cmd (pysynchronizer): an administrator's shell on the same storage and xenmgr
```

| component | state it keeps | operations | what is hard | what makes it correct |
|---|---|---|---|---|
| daemon loop, `run`, `do_select`, `Sync` (launcher.py 46-248) | per Sync: child, start time, time of the SIGTERM, two flags; a pipe | poll the child, start, SIGTERM, SIGKILL, sleep until the next of these | children, signals and clock move between any two calls; one pipe byte per pass | only deserving children are signalled; never oversleeps, never spins; `run` returns only with its children reaped; a hung child goes |
| pid file, `PidFile` (303-328) | a name, an inode, a lock, a pid | open, flock, truncate, write; close, remove | open/flock and close/remove are not atomic; kills | one daemon; the pid in the file is its pid |
| disk files, `arrange_disk_backing_files` and below (407-448, 715-748, 832-845, 1201-1237) | `disks/*`, `.partial` files, snapshots, key files | delete unused, download with resume, rename, place key | a run may be cut short between any two | nothing incomplete under the final name; nothing listed is lost; listed disks arrive although runs are aborted for ever |
| virtual machines, `work_toward_state`, `arrange_vms`, `arrange_vm` (860-1199, 1281-1314) | xenmgr's VM objects; per run: `have`, `uuid_map`, `already_disks` | create and label, configure, attach disks, snapshot and key, ready, retire, destroy | two passes over a machine in use; cut short anywhere; another synchronizer's VMs next door | one VM per listed VM; a startable VM is configured; users' running VMs survive; convergence |
| platform upgrade, `arrange_xc_version` (642-713) | `repo-download/`, `repo/`, locks | prune, sweep the handover directory, fetch, hand over | updatemgr takes and removes the same files | nothing is offered next to what the run has seen; an upgrade in progress is not touched; the target is installed in the end |
| configuration, roles, progress reports, status reports (1316-1337, 1239-1279, 1343-1393, 1494-1543) | — | `censor_vm_config`, `set_config`, uuid mapping, percentages | values that refer to VMs that come and go | nothing a configuration says can relabel a VM; references resolve |
| sync-cmd, `pysynchronizer` (`XenMgr.upgrade`, `Storage`, `HttpFetcher`) | the same directories; per command: an open file and its offset | stage: resume the `.partial` file, unlink, rename; apply: rename into `repo/` | sync-client prunes beneath it and updatemgr works on what it replaces; a stream that ends early looks complete | downloads resume without a gap (unless pruned between stat and open); the server's target wins; a repeated command gets through |

The server speaks JSON over HTTPS through curl; xenmgr and domstore speak D-Bus; icbinn is a file server
in dom0. All three are outside this repository and appear as the steps the code can observe of them.

`client.py` is half-way from Python 2 to Python 3 (`file()`, `.decode('hex')`, `data == ''`). The models
give these calls the meaning the control flow around them needs, that is Python 2's.

## 2. The modules

| module | models | checked by | proved in |
|---|---|---|---|
| `Launcher` | the daemon's loop and `Sync`, with children, signals and clock | `LauncherSafe`, `LauncherLive` | `LauncherProofs` |
| `PidFile` (`MCPidFile`) | `PidFile.__enter__`/`__exit__` over names, inodes and locks | `PidFileSafe`, `PidFileRace` | `PidFileProofs` |
| `DiskFiles` | the disk files, step by step | `DiskFilesSafe`, `DiskFilesLive`, `DiskFilesKeys` | `DiskFilesProofs` |
| `DiskCatalog` | abstract: what the disk files promise the rest | refined by `DiskFiles` | `DiskFilesProofs` |
| `SyncClient` (`MCSyncClient`) | a run of sync-client over the VMs, with users and server | `SyncClientRuns`, `SyncClientRemoved`, `SyncClientSnapshot` | `SyncClientProofs`, `SyncClientPassProofs`, `SyncClientRankProofs` |
| `ChildLife` | abstract: the life of the sync-client processes of one Sync | refined by `Launcher` | `LauncherProofs` |
| `RepoUpgrade` | `arrange_xc_version` next to updatemgr | `RepoUpgrade` | `RepoUpgradeProofs` |
| `Handover` | abstract: what client and updatemgr rely on when a repository changes hands | refined by `RepoUpgrade`; by `SyncCmd` in the proof | `RepoUpgradeProofs`, `SyncCmdProofs` |
| `SyncCmd` | `RepoUpgrade` composed with sync-cmd's `upgrade` command | `SyncCmd` | `SyncCmdProofs` |

Definitions whose comment begins with "Faulty" are variants of the definition after them with a plausible
bug. No specification uses them; they exist to show that each property can fail: substituted for the
definition, the property is violated in its run. `DiskCatalog`, `Handover` and `ChildLife` say what is promised and
not how, so "map" in PROJECT.json names no lines for them: those belong to the modules that refine them.

### Launcher and ChildLife

`tnow`, `todo`, `cur`, `wakeAt` and `woke` are the locals of `run` and `do_select`; `child`, `startTime`,
`sentSigterm`, `terminating`, `succeeded` the fields of `Sync`. A pass is `Select` (76-86: compute the
timeout and sleep), `WakeOnByte` or `WakeOnTimeout` (87-99), and for every Sync `Poll` followed by exactly
one of `StartChild`, `StartFails`, `SendSigterm`, `SendSigkill`, `NothingDue`, then `EndPass`. Poll and
action are two steps because the child may end between them. A pass takes up to `Lag` ticks after it read the time
(`tnow`). The daemon may also stop with a child running: `Popen` raises (`StartFails`), select raises
(`SelectFails`), or it is `Killed`, which also stands for a handler whose `os.write` finds the pipe full. `NextAction` is `_get_next_action` as a pure
operator, with the daemon's `Due` test on top. `pipe` holds the handlers' bytes: a daemon SIGTERM adds
`"TERM"`, the end of a child `"CHLD"`. `proc` is a history variable: when the real process started and was
signalled by the clock, which may be later than the pass's `tnow` that the daemon remembers, against which the fields
of `Sync` are judged. `Punctual` judges the moments by it: under `PromptSpec`, where
the loop keeps up with the clock, a process is signalled when the code says it is due and not a tick later.

`ChildLife` is what the processes of one Sync and the administrator may count on: one process at a time, no two
starts less than `Interval` apart, with `--once` none after a success, a SIGTERM once and only after `Timeout` or when
told to terminate, a SIGKILL only `GracePeriod` after it. `ChildLives` says that each Sync implements it (`Life(s)`), with the
times of `proc`, not with those the daemon remembers, and with `Interval`, `Timeout` and `GracePeriod` shorter by `Lag`:
the code promises no more, since what a slow pass does late is remembered as done when the pass began. A zombie is "over", a child that `SendSigkill` reaped is
"killed", so that a SIGKILL cannot pass for a process that ended by itself.

### PidFile

A file system of names and inodes: `link` is the inode the name means, `fd` what a process has open,
`holder` the flock, `content` the pid in it. One action per system call of `__enter__` and `__exit__`, and
`Crash` at any point.

### DiskFiles and DiskCatalog

A file is its length, `Absent` for none. `Unlink`/`EndPrune` are `delete_unused_disks`, `Have`/`Missing`/
`StartDownload` the three branches of `ensure_disk_downloaded`, `Receive`/`StreamEnds`/`Rename`
`HTTPServer.download`, `OpenKey`/`WriteKey` `place_vhd_key` through `Icbinn.write_file`, which creates the
key file before it fills it. `Snapshot` stands for the VMs' use of the images. `Abort` is every way a run
ends early: SIGTERM or SIGKILL of the daemon, curl's exit status, an exception. A power failure is not among them (section 6).
`DiskCatalog` says what the callers rely on: images come and go as wholes, go only when unlisted, and after
the second call are exactly the listed ones. `CatalogSpec` checks that `DiskFiles` implements it. `Drop` and `Fetch` of
`SyncClient` are written from `DiskCatalog`, which is why it has whole images only.

### SyncClient

`vm` is xenmgr's table: dbus path to `[sync, realm, up, ready, disks, runs]`. A run follows
`work_toward_state`: `pc` `disks → ensure → arrange`, twice, then `retire → delete`.
`Create`/`Label` are `ensure_vm_exists`, `Configure` the `set_config` call of `arrange_vm`, `NoDataYet`,
`SkipRunning` and `BeginDiskConfig` its three ways on, `UseDisk … DestroyExcess` the steps of
`arrange_disk_in_toolstack` for one slot, `EndDiskConfig` sets the VM ready. `AddDisk` (1067) makes a disk object without a
path, which `Attach` (1072-1084) gives it, unless the run is cut short in between. `slot` and `objects` are the indices of
`zip_longest`: the list of disk objects is read once, so the position of a later object moves when an
earlier one is deleted. `Raise` ends a run where the code is certain to raise (`Raises`), `Abort` anywhere.
Of the configuration the model keeps what the properties tell apart: a `run-*` property, which may name
another VM, is mapped by `uuid_map` and set in `SetConfig`; and items for `realm` and `ready`, which
`Censor` drops. `Encrypted` is `are_snapshots_encrypted`. Users start ready VMs and stop running ones at any
time; the server publishes another target state at most `MaxPublish` times.

### RepoUpgrade and Handover

`download` and `handover` are the two directories, `lock` the record locks on handed-over files. `ListDownload`
and `ListHandover` are the two listings; what follows works from them, and a pruned file that is gone by then ends
the run (`UnlinkFails`; `Icbinn.unlink` raises). The sweep is modelled call by call (`Open` or `OpenFails`,
`GetWriteLock`, `LockedByUpdatemgr` or `LockFails`, `Unlink`), because updatemgr runs
between these; opening a file that is gone creates it again, empty (`O_CREAT`). An open that fails is logged as "removed by
updatemgr" and does not set `upgrade_in_progress` (671-674), so the target may be handed over next to a file that is
still there. The listing of `repo` is a window, from `ListHandover` to `EndListing`: `Icbinn.listdir` asks for one entry
after the other by position, and while updatemgr removes one it may miss another that moves up (`Shift`).
`overlooked` is a history variable: the files this run passed over, in one of these two ways. updatemgr (`Take`,
`Upgrade`, `Reject`) is modelled from the comments in `arrange_xc_version`: it locks a file before it works
on it and removes it afterwards. The listing of `repo-download` is one step: nobody but the client changes that
directory here.

`Handover` is the contract between the two: whole repositories are offered by the run that wants them, next to nothing
but what that run passed over (`Overlook`, `Listing`); withdrawn only if unwanted and not taken; installed only if offered
and taken. `HandoverSpec` says that
`RepoUpgrade` implements it and that each side keeps to its own steps: what is no step of updatemgr in
`RepoUpgrade` is none in `Handover` (without this, the client's unlink of a file in use could pass for updatemgr's
rejection of it).

### SyncCmd

Extends `RepoUpgrade` by the command `upgrade URL` of sync-cmd. The administrator's URL is always the same, so
its file is `Url` in either directory and `Partial` in `repo-download`; the server names other repositories
(`Servers`: the names come from different uuids). `cmd` says which call of `fetch_using_partial` and
`apply_oxt_repo` comes next: `Stat` (storage.py 37-43), `OpenPartial` (45-49 and the request, which fails for an
offset at the end), `Receive` per block, `StreamEnds`, at any length if `EarlyEnd`, `UnlinkOld`, `Rename`,
`ApplyExists`, `Move`. `Stops` is an exception or an interrupt at any of them. `blocks` and `length` describe
the `.partial` file opened last; if it is pruned under its writer, the handle goes on taking blocks and only
the name is gone. If it is pruned between `Stat` and `OpenPartial` it comes back with a hole (`gap`).

Every action of `RepoUpgrade` runs beside the command (`ClientBeside`, `UpdatemgrBeside`, `ServerBeside`,
`FailureBeside`). `Move` may replace a file that the client or updatemgr has open, and the client may unlink by name
one that replaced what updatemgr locked: `stale` says who holds a file without a name, and `LockStale` and
`FinishStale` are their next steps. A listing of `repo` sees a file that `Move` puts there meanwhile or not, and what
updatemgr removes shifts it as before. `ServersHandedOver` says that as far as the server's repositories go, `Handover` is
still implemented, by the same two sides; it is proved (`ServersImplementHandover`).

## 3. The runs

| run | instance | states | shows |
|---|---|---|---|
| `LauncherSafe` | one Sync, `--once`, interval 3, timeout 2, grace 2, a lag of 1, 9 ticks, 2 signals | 738,614 | `ChildLife` implemented, no oversleeping, no spinning, clean exit |
| `LauncherLive` | without `--once`, grace 1, prompt loop (no lag), 9 ticks | 17,584 | nothing comes late, hung children go, SIGTERM ends the daemon, polling goes on |
| `DiskFilesSafe` | two disks, one with a key, images of 2 blocks, 2 changes of the target | 24,025 | whole images, truthful results, keys, nothing lost, `DiskCatalog` |
| `DiskFilesLive` | one disk | 1,063 | listed disks arrive, unlisted ones go, aborts for ever |
| `DiskFilesKeys` | one disk, no changes | violation | finding 1 |
| `SyncClientRuns` | two VMs that share a disk, one disk read-only, three target states, one change | 180,196 | the properties of section 1 for VMs, runs advance, unneeded disks go, and convergence |
| `SyncClientRemoved` | a VM listed as removed and not here | violation | finding 2 |
| `SyncClientSnapshot` | snapshots configured clear | violation | finding 3 |
| `PidFileSafe` | three daemons, four inodes, symmetric | 7,426 | the pid is right; daemons that are killed exclude each other |
| `PidFileRace` | three daemons, two inodes | violation | finding 4 |
| `RepoUpgrade` | three repositories, two changes of the target | 142,073 | upgrades in progress undisturbed, `Handover` implemented, downloads kept, target installed |
| `SyncCmd` | one repository of the server and one of a command, of 2 blocks; streams may end early; one change of the target | 683,055 | no gap in a resumed download, the target wins over commands, a repeated command succeeds |

Why these bounds are enough for the cases that matter:

* Launcher: 9 ticks hold a start, a timeout, a grace period and a second start with a time-out of its own,
  so that a time left over from the first child can do harm; two signals put bytes behind one another.
  With a lag of 1 the real moment of a start or signal differs from the one the daemon remembers, and interval, timeout and
  grace period, less the lag, are still different from none. `LauncherLive` has none: its bounds in time are those of a loop that keeps up.
* DiskFiles: two blocks distinguish absent, begun, half done and complete; two changes let a disk be listed,
  unlisted and listed again while a run still works on the older state. With two disks the liveness
  properties take TLC too long, so they are checked with one: no fairness condition relates disks.
* SyncClient: two VMs are the least that share a disk and refer to each other; the three target states drop
  a VM, remove one, reorder disk lists and change a reference. Disk lists of length two make `zip_longest`
  run short on either side. Two paths are enough for `OnePerSync` to fail.
* PidFile: the race needs three daemons (one leaving, one starting on its file, one on the new file); four
  inodes let each have its own and the name a further one.
* RepoUpgrade: two obsolete repositories, one to be removed while the client lists and one that it then misses, and the
  target; two changes of the target bring three repositories into the directory.
* SyncCmd: what a command leaves is obsolete to sync-client whatever the target is, so one repository of the
  server is enough, asked for from some time on (`MaxPublish = 1`). Two blocks distinguish begun, half done and
  complete, and an offset behind a hole. Commands follow each other without bound, one at a time. For what two repositories of
  the server may do to each other one is too few: `ServersHandedOver` is therefore not a property of this run but a theorem.

### Fairness

* `LauncherLive` uses `PromptSpec`: the loop takes its steps before the clock moves on, which is what a
  daemon that does nothing but sleep can expect of a scheduler; children and signals are not fair.
* `DiskFilesLive` has strong fairness on the steps and aborts for ever: a step that is reached in infinitely
  many runs succeeds in one. Nothing is assumed of how long a run lives, hence the need for resuming. This includes that
  `arrange_vms` of the first pass does not raise in every run (`EndVms`); where it does, as after finding 3 or an
  unmappable `run-*` property (section 4), no download is ever begun, and `ListedDisksArrive` says nothing.
* `SyncClientRuns` has weak fairness on the client and assumes that runs are eventually no longer cut short
  from outside. Runs that end in an exception of their own making remain, and `Converges` excludes only
  behaviours in which these recur for ever. Users are not fair: a VM may run for ever, and `Converges`
  says so. `ExcessGoes` also excludes that xenmgr fails to delete disk objects for ever: `destroy_disk` (967) goes on after
  such a failure, and the VM is made ready, so only a later run can remove the disk.
* `RepoUpgrade`: as before for the client, whose opens and locks eventually fail only for what updatemgr does; updatemgr handles what it finds and does not reject the same
  whole repository for ever. `TargetInstalled` excludes behaviours in which updatemgr removes, in run after
  run, a file between its listing and its opening, since `O_CREAT` then brings it back each time.
* `SyncCmd`: the same for client and updatemgr, each next to the command, and weak fairness of the steps of a
  running command. Nobody has to start one: `TargetWins` needs that commands stop, `RetriesSucceed` that they go on
  for ever. Streams may end early for ever. As before, from some time on nobody is interrupted; until then
  commands and runs stop anywhere. What `RetriesSucceed` promises is that a whole repository is handed over, not that
  `upgrade` returns True, which it also does when nothing was. It excludes behaviours in which, again and again, the
  connection ends early, sync-client is at pruning the command's files while it runs, or `O_CREAT` brings a file back; the code
  defends against none of these.

## 4. What the checks found

1. `DiskFilesKeys`: a run cut short between the rename of an image (447) and its key file (1232) leaves an
   image whose key no later run writes, since `just_created` is about the call, not the file.
2. `SyncClientRemoved`: `VmProgress.finish` (1279) sets a property of a VM that does not exist when a listed VM
   is removed and not here; the run ends before its deletions, every time.
3. `SyncClientSnapshot`: `arrange_snapshot` (994) verifies the key of an existing snapshot that was made
   without one; the VM is never configured again.
4. `PidFileRace`: `PidFile.__exit__` (326) unlocks before it removes the name.

Weaknesses without a plain statement in the repository to contradict are listed as hazards in PROJECT.json,
each with the properties that cover it or the reason why none does. Those that modelling brought up:

* `map_vm_run_property` (523) fails on a current value that names a VM which no target state owns any more, so every
  run that configures that VM ends there. It is in `SyncClient` (`MapFails`, `Raises`).
* `XenMgr.upgrade` (objects.py 79) ignores that `apply_oxt_repo` returned False, and reports a truncated repository as
  a success. A complete `.partial` file left by an interrupted command makes every repetition fail with 416
  until sync-client removes the file. Both are in `SyncCmd`; `RetriesSucceed` and `TargetWins` hold in spite of them.
* An `open` that fails in the sweep (671-674), and a listing shifted by a removal, leave an obsolete repository behind
  without `upgrade_in_progress`, and the target is handed over next to it. The comments leave open whether updatemgr minds;
  `HandoverSpec` says that nothing else leads to two offers, `TargetInstalled` that a later run clears it up.
* sync-cmd takes no lock: the undisturbed upgrade of any file holds of sync-client and updatemgr alone. With
  sync-cmd beside them what remains is `ServersHandedOver`: the server's repositories are not disturbed.
* A daemon that is killed, or whose select or `Popen` raises, leaves its child running, and a second daemon starts another.

## 5. The proofs

TLAPS checks, for all values of the constants that satisfy each module's ASSUME, the safety properties of
the runs. Each proof module has the same plan: one lemma per part of an inductive invariant, with a case
for each action, a theorem that puts the parts together with the type invariant, and the properties as
consequences.

* `LauncherProofs`: `Shape` ties the loop's locals to each other (which Syncs a pass has still to visit, that
  `tnow` is not ahead of the clock), `SignalInv` ties `sentSigterm` and `startTime` to the history of the
  real process, `ToldTogether` says that in one pass all Syncs learn of the termination, `SleepInv` that the
  timeout computed by `Select` is still right whatever happened since. `LifeStep` maps each step of the loop, a child or
  the environment to a step of `ChildLife` or a stutter of it, for one Sync while the others go on; `EachChildLives` is the
  refinement for any Sync, `ChildrenLive` the same as the one formula that TLC checks. It rests on `RecordsAreTrue`, the
  part of `SignalInv` that says that what the daemon remembers of its child is what happened to it. `SigtermEarned` and
  `SigkillLate` state two consequences by themselves.
  `NothingIsLate` is about `PromptSpec` and proves `Punctual` for any `Timeout` that is not negative (a negative one is due
  before the child has started). `PunctualInv` is: the time-out or grace period of a child has not passed
  (`DeadlineInv`), a pass leaves no start behind that was due (`PollInv`), and a SIGTERM of the daemon is acted on or its byte still
  in the pipe (`HeardInv`). That the clock cannot pass a deadline while the loop sleeps is `SleepInv`. This is the part of
  the three liveness properties of `LauncherLive` that is about moments; that the clock and the loop go on is left to TLC. A slow loop is the business of
  `EachChildLives`, whose times are those of the clock: it holds with every period shorter by `Lag`, for any `Lag`.
* `PidFileProofs`: a lock's holder is the process that has the inode open, the contents of a locked inode are
  its holder's, and while nobody left in an orderly way every open file is the named one.
* `DiskFilesProofs`: `DiskInv` adds to the properties what is known inside a download (`DownloadInv`: the partial
  file is at most `Size` long and complete before the rename), after a prune (`PrunedInv`), and of the results
  (`InfoInv`, `KeyInv`). `ImplementsCatalog` shows `Init => Catalog!Init` and, step by step,
  `[Next]_vars => [Catalog!Next]_Catalog!vars`.
* `RepoUpgradeProofs`: `UpgradeInv` is the type invariant, what an open file is (`OpenInv`), that what the sweep works on is
  obsolete (`ListInv`), what it has already seen (`SweepInv`: an obsolete file in the directory is still listed, or open, or in
  `overlooked`, or `busy` is set), what a fetch may assume (`FetchInv`: no target in `repo`, and nothing but what was passed over
  unless `busy`), what a run is about to prune (`PruneInv`: it was obsolete by that run's own facts, on which `DownloadKept`
  rests), and that nothing is passed over before the listing (`FreshInv`). `MailboxStep` shows
  that every step of the client is a step of `Handover!Client` or a stutter, and every other one a step of
  `Handover!Updatemgr` or a stutter: `Unlink` is a `Withdraw` by `OpenInv` and `ListInv`, `HandOver` an `Offer` by `FetchInv`,
  which is where `SweepInv` is needed. From it `ImplementsHandover` follows; `UndisturbedUpgrade` says what the client leaves
  alone of broken files too, which `Handover` does not see.
* `SyncCmdProofs`: `CmdInv` is the type invariant, `ClientInv` (sync-client never lists, opens or hands over the name
  `Partial` in `repo`), `OffsetInv` (where a command will write is where the file ends, unless it
  vanished before it was opened) and `NoGap`. `CommandsResume` holds for every length and any connections, with every
  interleaving, except that a file pruned between the stat and the open of one command begins with a gap.
  `ServerInv` is what is left of the invariants of `RepoUpgrade` when commands replace files and lengthen listings: who holds
  the lock of a server's file that is being removed (`HoldInv`), and `ListInv`, `SweepInv`, `FetchInv` and `FreshInv` for the
  server's repositories. `CommandElsewhere` shows that commands, and the end of work on a replaced file, get at none of this but
  by moving part of a listing to `overlooked`. `ServerMailboxStep` then maps the steps of
  all four programs to those of the two sides of `Handover`: `ServersImplementHandover`.
* `SyncClientProofs`: `RunInv` is the type invariant and six parts. `RealmInv`: the other synchronizer's VM is
  where it was, all others bear our realm. `LoopInv`: where the loops of `arrange_vms` stand; by the time
  `arrange_vm` runs, every wanted VM has a path. `HaveInv`: `have` and xenmgr's table agree, both ways, until the
  deletions have passed a VM; that a VM missing from `have` is missing from the table is what makes `OnePerSync`
  inductive. `SlotInv`: how many disk objects there are while the list read before shrinks, so that the slot a
  deletion names exists. `RetireInv`: what is to be removed is not ready any more, and what was found stopped
  stays stopped. `ChangeKeeps` covers at once the ten actions that replace one of our VM objects by another
  for the same VM; `VmStepKinds` shows that besides these a step leaves the table alone, creates or destroys.
  `OneVmPerSync`, `ForeignVmsUntouched` and `RemovalIsGraceful` follow, for any number of VMs, disks, paths and
  target states, of either role. `RemovalIsGraceful` needs `RetireInv`: users start VMs between `Check` and `Destroy`.
* `SyncClientPassProofs`, on top of `RunInv`: what a pass achieves. `Over` is the set of wanted VMs it has got over,
  `PassInv` says of them what will hold of all wanted VMs at its end. `FilesInv`: the images are those the run has found,
  in the second pass exactly the listed ones. `SnapsInv`: a keyed snapshot is one that is to be keyed.
  `StandingInv`: a VM in `Over` has its object (in the deletions `HaveInv` no longer says so). `ItemsInv`: its run-*
  property is mapped. `DisksInv`: in `arrange_vm` the wanted disks before `slot` are in front, their snapshots done,
  and what `DestroyExcess` deletes lies behind them although the list moved up under it. `ReadyInv`: a VM in `Over` that
  was not running and is ready is configured. The lemmas show which step writes to which VM's object
  (`WantedKept`) and how `Over` grows (`OverGrows`); `ReadyStep` is then about `NoDataYet` and
  `EndDiskConfig` alone. In the second pass `NoDataYet` cannot happen, by `FilesInv`. `GoneInv` says of the VMs
  the deletions are through with what `OkayMeansReached` says of all. `ReadyIsConfigured`, `RunPropertiesHold` and
  `OkayIsTrue` follow.
* `SyncClientRankProofs`, on top of `RunInv`: that a run advances, for finite `VMs` and `Disks` (what a server lists and a
  storage holds). `Rank` counts the loops to come (`Stage`), what the present one has still to visit (`Items`), how far a
  visit is (`Turn`) and, in `arrange_vm`, the slots of `zip_longest` left (`Slots`); it is defined in `SyncClient`, where TLC
  checks `RunAdvances`. `RunsAdvance`: all four stay natural
  numbers, every step of a run but its first lowers them lexicographically, and users and the server leave them alone.
  `Slots` is where `SlotInv` is needed, since disk objects are deleted under the loop. It is the part of `Converges` that is about
  steps; that a run that is not cut short goes on at all is the fairness TLC checks it under.

Model-checked only: all liveness properties (`HungChildIsRemoved`, `TerminationEndsDaemon`, `PollingGoesOn`,
`ListedDisksArrive`, `UnlistedDisksGo`, `ExcessGoes`, `Converges`, `TargetInstalled`, `TargetWins`, `RetriesSucceed`), which need fairness and so ENABLED.
The findings are counterexamples TLC found.

## 6. Assumptions about what is outside the repository

* xenmgr creates a VM not ready and with the properties of the template, starts only ready VMs, and gives
  a new VM a uuid that no property still names.
* `vmc.destroy()` and the deletion after it are one step; so is dropping all files of a disk in
  `SyncClient` (file by file in `DiskFiles`).
* The server lists the disks of every VM it lists, one `vm_uuid` per `vm_instance_uuid`, the `removed` key for
  every VM, and images of positive size; it supports ranges. curl exits with 0 only when it passed on the whole range.
* `vhd-util key` fails on a key file that is missing.
* updatemgr locks a file before it works on it, one at a time, and removes what it took.
* A listing of a directory other than `repo` is one step. `repo-download` can change under it only by sync-cmd, and what it
  misses is removed a run later. rename replaces its target, and an unlinked file
  lives on for those who have it open, as POSIX says and icbinn passes on.
* `Icbinn.exists` sees what is there. It answers False to any stat that fails (203-211): a failure that is not the file's
  absence would make a run fetch again what it has, or replace in `repo` what updatemgr works on.
* The storage survives. The image is not synced to the disk before its rename (433-447), so what a power failure leaves
  of it is not covered: runs are cut short, machines are not.
* One administrator runs one command at a time and uses one URL; its server supports ranges, answers 416 to an
  empty one and always serves the same content.
* The clock does not step back.

## 7. Not modelled

* Shared snapshots (`shared` in the target state): one snapshot for several VMs.
* Progress percentages (1247-1275): they are computed from facts that `SyncClient` has, but promise nothing that is
  written down, and the state they add makes the instances too large to check for what they show. Licence, device and nic settings, the conversion of values in
  `set_config`: assignments without interleaving. The hazard of the percentages is listed.
* `main`'s hello and its exit codes: to the machine's state a run either completes or is cut short.
* Argument parsing, logging, domstore reading, D-Bus proxies.
* Of `pysynchronizer` all commands but `upgrade`: one D-Bus call each. `disk … replace`, and with it
  `download_disk`, cannot be reached: `cmd.py:250` uses `self.disk`, which nothing sets. `HttpFetcher`'s
  certificate files and the switch of `INET_IS_ARGO`, which an exception leaves unset for the next D-Bus call.

## 8. Plan

Done, in this order because each rests on the one before: the daemon (`Launcher`, `PidFile`), the disk
files with their abstraction (`DiskFiles`, `DiskCatalog`), the VMs on top of that abstraction (`SyncClient`),
the upgrade (`RepoUpgrade`), the proofs of the safety properties, sync-cmd on top of the upgrade (`SyncCmd`).

Next:

1. sync-cmd with several administrators and URLs, whose `.partial` files two commands may write at once.
2. `main` and the daemon together: exit codes, `STATUS_FAILED` and what the server knows after a kill, with the
   percentages that `VmProgress` leaves.
3. Two clients at once (a daemon started in the race of finding 4) and shared snapshots.
