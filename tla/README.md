# A TLA+ model of platform-configure

`platform-configure` is the repository behind the configure image of the
Experimental Platform: a container whose script `prep.sh` turns a CoreOS box
into a given release of the platform, together with the systemd units, shell
scripts and five small Go tools that it installs on the box.  This directory
holds TLA+ modules for the parts of it that keep state and have to survive
failures, the TLC configurations that check them, and proofs checked by TLAPS.

## 1. Inventory

| Component | State it keeps | Operations | Talks to |
|---|---|---|---|
| Configure run, `prep.sh` | unit files and links in `/etc/systemd/system`, the scripts directory, images in docker's store, channel file, three release files, status file | one linear run with loops over images and units; modes templates-only, reload, legacy | quay.io and the release server, docker, systemd over D-Bus, the update trigger (shared file) |
| Channel file and update trigger, `services/trigger-update-protonet.*` | the channel file, whether the path unit is active, an outstanding start job | a write by the user (through the key-value store), a write by `prep.sh`, stop and start of the path unit | starts a configure run, then a reboot |
| Snapshot tool, `go/zfs-snapshots` | zfs snapshots; `.snap.tmp` and `.snap` files | `create` (snapshot, dump, rename, rotate, or roll back), `delete`, `list` | `zfs`; the upload container reads the files |
| Nightly backup, `scripts/create-backup.sh`, `services/cloudbackup*` | none of its own | runs the snapshot tool for two datasets, tars the configuration | snapshot tool, upload container |
| Broker accounts, `go/rabbitmq-manager` | user, vhost and permissions at the broker; url in the key-value store | `-create`, `-delete`, `-list` | broker (HTTP), key-value store (HTTP), docker |
| Network configuration, `go/netconf` | `/etc/systemd/network/*.network` | `-mode dhcp`, `-mode static`, `-reset`, `-show` | networkd (its view of the files is only refreshed by a restart) |
| Self destruct, `self_destruct` | the whole box, across a reboot | stage 1 (arm), stage 2 (wipe) | systemd, zfs |
| Account password and lock, `scripts/platform-passwd*.sh`, `masterpassword` | password and lock request files, success and error files | set, lock | path units, `chpasswd`, `passwd` |
| Feedback archive, `go/platform-feedback` | a work directory and an archive | collect, pack, clean up on Ctrl-C | some twenty commands, collectd's files |
| System update, `scripts/update_os.sh` | none | drives the update engine | update engine |
| Key-value client, `go/skvs_cli` | none | get, set, delete | key-value store |
| Container units, `services/*.service` | containers | start, stop, order | docker, systemd |
| Restart path units, `services/*-restart-*` | start jobs | a write to a watched file restarts a service | systemd |
| Everything else: front button, wireless, image clean-up timer, set-up scripts for optional applications, reports and hardware tests, maintenance units, static configuration | none to speak of | one external command each, or output only | – |

What is hard in this code is hardly concurrency inside a process (only
`platform-feedback` has a second goroutine): it is that everything is a script or a short-lived tool which may be cut off between any
two commands, finds out what to do next from what its predecessors left
behind, and shares files with services that watch them.

Where the components can go wrong, and what makes each correct:

* **Configure run.**  A run is cut off and the next is for another release.
  Units on the disk must have their images; a failed download must leave the
  old installation alone; the recorded release must be the deployed one; exit
  status 0 must mean deployed; the loops must end.
* **Update trigger.**  The run's own write of the channel file must not start
  another update (which would end in a reboot).
* **Snapshot tool.**  An incremental dump must have a published base; a dump
  must hold what its name says; a failed run must leave no snapshot; rotation
  must bound the number of snapshots and keep the newest.
* **Broker accounts.**  The url that applications read must have a password
  that the broker accepted; `-create` must repair what earlier runs left in
  pieces; the tool must not report success for what the broker refused.
* **Network configuration.**  What the tool reports must be what holds after
  the reboot it asks for; a failing step must not leave an interface without
  its configuration.
* **Self destruct.**  A box that is armed must get wiped or stay armed.
* **Password and lock.**  A lock request must be served and must not stay on
  the disk; the result files must describe the last operation.
* **Feedback archive.**  The archive the user is asked to send must be complete,
  though its end is written by deferred calls whose errors nobody sees; an
  interrupt must end the program and leave no archive, wherever main is.

## 2. The modules and the code

| Module | Models | Extends |
|---|---|---|
| `TriggerUpdate` | the channel file, `trigger-update-protonet.path` and `.service` | – |
| `Prep` | `prep.sh`, composed with the trigger: both write the channel file, and the trigger starts runs | `TriggerUpdate` |
| `Deployment` | what a box may show of its releases: the abstract specification that `Prep` implements | – |
| `PrepProofs` | the theorems about `Prep` | `Prep`, `TLAPS` |
| `ZfsSnapshots` | `go/zfs-snapshots`, as `create-backup.sh` uses it | – |
| `ZfsProofs` | its theorems, and what `Rank`, `Least`, `Last` and `Oldest` pick | `ZfsSnapshots`, `FiniteSetTheorems`, `TLAPS` |
| `RabbitmqManager` | `go/rabbitmq-manager`, with the broker's container and the key-value store | – |
| `RabbitProofs` | its theorems | `RabbitmqManager`, `TLAPS` |
| `Netconf` | `go/netconf`, with networkd and files edited by hand | – |
| `NetconfProofs` | its theorems, and that networkd's choice of a file is one | `Netconf`, `WellFoundedInduction`, `TLAPS` |
| `SelfDestruct` | `self_destruct`, both stages, with the page cache | – |
| `SelfDestructProofs` | its theorems | `SelfDestruct`, `TLAPS` |
| `AccountPassword` | `platform-passwd.sh`, `platform-passwd-lock.sh`, their services and requests | – |
| `PasswordProofs` | its theorems | `AccountPassword`, `TLAPS` |
| `Feedback` | `go/platform-feedback`, with collectd and Ctrl-C | – |
| `FeedbackProofs` | its theorems | `Feedback`, `TLAPS` |
| `MCPrep`, `MCZfsSnapshots`, `MCNetconf` | values of constants for TLC | the module named |

**Prep.**  One action is one command of the script that changes something
outside it, or one round of a loop; `pc` is the next command.  A run takes its
channel, its mode (reboot or `PLATFORM_INSTALL_RELOAD`, `TEMPLATES_ONLY`, the
legacy hand-over) and its payload (the units in the container's `/services`)
from small sets when it begins.  The manifest is a constant: which images a
release lists, with which tags.  docker's store is a set of references, of
which some may be `broken` (a pull that ended well with layers missing).  On
the overlay driver `VerifyImage` looks every layer up and ends the run if one
is missing, unless `docker info` (line 184, in a `local` assignment) or
`docker history` (line 188, in the word list of a `for`) fails: `set -e` sees
neither, and the image passes without having been looked at.  The history
variable `unverified` keeps these references, and "complete" (`Complete`)
means: all layers there, or accepted in this way.  `installed` maps a unit
file to the release its `{{tag}}` was rendered from; `enabled` stands for the
links in the `.wants` directories. `CommandFails` is `set -e`, for each
command that is not guarded by `|| true` or part of a condition.  `Kill` and
`Reboot` may come between any two commands, also within the legacy hand-over,
which wipes and fills the scripts directory as any run does before it exits.
Left out: the texts of templates, the udev rule, `system.conf`, the button,
the image ids below `IMAGE_STATE_DIR` (nothing reads them; their failing
writes end the run) and the network files that lines 109 and 132 remove and
copy.

**Deployment.**  Images arrive and are removed, but never one that an installed
unit runs; a unit file changes to a release (or goes) while all images of that
release are there; a release file changes to a release that the box shows
completely.  In the refinement mapping at the end of `Prep`, `images` are the
references of which docker has every layer, `shown` is `installed` and
`recorded` the release files.  An image that was accepted unseen counts as one
of which every layer is there.  Everything else of `Prep` (scripts, links,
channel, trigger, retries, exit status) stutters.

**TriggerUpdate.**  systemd sees a write to the channel file while the path
unit is active and the service is not running, and remembers nothing else.
`pending` records who caused the start that is outstanding, so that a start
caused by the run itself can be told from one caused by the user.

**ZfsSnapshots.**  One action is one call of `zfs` or one file operation.
Names (dataset, label, time with whole seconds) are triples of numbers ordered
as `sort.Strings` orders the strings.  `newest` selects by the prefix
`name@label-`, so it also takes the snapshots of a label that begins with this
one and a dash (`Longer`); a label of which there is none is `Alone`.  Two
snapshots of one second have the same name and the second cannot be created.
A run reads the clock once, so the clock ticks, or is set back, between runs.
`born` is the run a snapshot was made in, which zfs knows as its transaction
group and the program does not look at; properties use it to tell what is
really older.

**RabbitmqManager.**  One action is one HTTP request.  `RequestFails` is an
answer that does not come: the request may have been carried out.  The broker
is `absent`, `listening` (its management interface answers, with error
statuses) or `running`.  `con` is `rec.con # nil`; `GiveUp` sets it and reports
no error, as `connect` does.  `Refuse` is an error status, which a broker
that is not running answers and the tool does not look at: it goes on as if
the request had been carried out.  `-list` connects, asks once and changes
nothing.  `overlap`, `accepted` and `refused` are history variables.

**Netconf.**  networkd's view (`loaded`) is separate from the `disk`.  The
tool reads `loaded` and changes `disk`.  `Stat` and `Remove` are steps of their
own, as are all calls between which a file may be edited by hand.  `StatErrs`
is any error of `Stat`, which passes for "not there".  `RestartFails` may leave
networkd restarted or not, and a write that fails or is killed may leave an
empty or a partial file (`Torn`).  `NETWORK_FILE` may be `Other`, a file that
is neither the default nor below `/etc`: `-show` says STATIC, the other
commands refuse.  History variables: `fresh`, networkd knew the disk when the
command began and nobody has edited it since; `others`, the files that applied
to an interface then beside the one in use; `fault`, the system refused a call,
or named a file that the program has no idea of; `raced`, a file was deleted by
hand between `Stat` and `Remove`.
`-show` collects its reports (`report`) interface by interface and prints all
of them or none.

**SelfDestruct.**  `mem` is what programs see, `disk` what a power cut leaves.
`Sync` copies `mem` to `disk`; `Lose` keeps any subset of what was not synced.
Stage 2 runs at every boot at which its unit and its link are there.  The left
side of an `&&` list may fail without consequences, other commands end the
stage (`CommandFails`).  The whole of `unlabel_drives` is such a left side:
when `lsblk` or `blkid` fails at line 84, the boot device is not found and so
not spared (`FindRootDev`), and a box whose boot device's table was overwritten
is not certain to boot.  `announced`, `damaged` and `destroyed` are history
variables.

**AccountPassword.**  One action is one command of either script; the commands
that report the result are the same in both and appear once.  The path units
are external: a write made while the service is not running queues its start,
one made during a run is noticed or missed.  `Printed` is what `awk '{printf
$1}'` makes of the request: the request itself if it is `Plain`, else its
first words with `%` read as a format (`Garbled`); an awk that fails, which
the `echo` around it hides, prints nothing, `Garbled` as well.  `Break` is
`set -e`: a logger, an `rm` without `|| true`, or an `echo` into a result file
that fails ends the script there.  No script calls `sync`, so a power cut may
leave each file as it was at any time since the boot (`versions`).  History
variables: `alone`, no run has overlapped this one; `settled`, the outcome of
the last run if none has begun since; `kept`, that run could not remove the
result file which contradicts it; `broke`, `set -e` ended the last lock run.
Requests are written in one step; the moment in which `masterpassword` has
emptied the file and not filled it is left out.

**Feedback.**  `pc` is main, `handler` the goroutine of `rmOutOnCtrlC`, and
`CollectdWrites` changes files under the packer's feet.  A file is its size.
`WriteHeader` fails when the file before it came out shorter than its header
said; `CopyFile` fails when the file has grown; the deferred calls run in their
order and only for a return or a panic, not for `log.Fatal` or `os.Exit`.
`ReadNames` is the reading of a directory: if that fails, `walkFn` is called
with an error that it shadows, and the files of the directory are missing
without a word.
`fault` is a history variable: a call has failed whose error is not looked at.

Definitions with the comment "A wrong variant" are not part of a
specification.  Each is an action as a plausible mistake would have it; put in
the place of the right one it violates one property, which shows that the
property depends on that line of the code.

## 3. What the runs check

| Run | Result | What it shows |
|---|---|---|
| `prep_safety` | holds, 519 k states | two runs for any of two releases and two payloads: `UnitsHaveImages`, `DownloadsComeFirst`, `ReleaseIsDeployed`, `SuccessMeansDeployed`, `NoSelfTrigger`, `RetryIsPossible`, `RunEnds`, and `ImplementsDeployment` |
| `prep_paths_restarted` | violated | "RESTARTing all .path files" restarts nothing: on a box that was never configured, whose user has already set the run's channel, the path unit is installed and enabled but never started (`KeepChannel`) |
| `zfs_backup` | holds, 2.6 M states | three backups of two datasets: `BasesArePublished`, `DumpsMatchTheirNames`, `FailureLeavesNoSnapshot`, `RotationBounds` |
| `zfs_clock` | holds, 2.1 M states | `DumpsMatchTheirNames`, `FailureLeavesNoSnapshot`, `RotationBounds` with two labels of which one begins with the other, keep 1, and a clock that is set back |
| `zfs_keep` | violated | with two datasets versions of the first are destroyed before keep of them are left |
| `rabbit_overlap` | holds, 1.7 M states | two overlapping processes and a broker that refuses requests while it starts: `UrlWasAccepted`, `CreateLeavesUsableAccount` |
| `rabbit_status` | violated | "GIVING UP", then "New Password was set", at a broker that never ran |
| `netconf_safety` | holds, 782 k states | three commands, two edits by hand between any two calls: `SuccessHolds`, `ShowsWhatHolds`, `MissingFileIsOkay` |
| `self_destruct_safety` | holds, 1.0 M states | two drives, a boot device that may not be found, and a power cut: `DisarmedAfterWipe`, `SuccessMeansZeroed`, `ArmedBoxIsWiped` |
| `self_destruct_pool` | violated | the configuration goes although the pool was not destroyed and its labels are all there |
| `feedback_safety` | holds, 430 k states | two outputs, two files of collectd: `SuccessMeansComplete`, `InterruptLeavesNoArchive`, `InterruptEnds` |
| `password` | holds, 256 k states | three requests, one power cut: `ResultIsHonest`, `LockRequestEnds`, `LockIsServed` |

The violated runs check a statement of the code about itself (a message or a
comment, quoted at the property).  Reading and modelling
showed more differences, which have no run of their own:

* `prep.sh` gives up with "Failed to retrieve" although the pull after the last
  retry has succeeded (`PullSucceeds` with `retries = MaxRetries`; line 179
  looks at the counter only);
* a damaged image passes `verify_image` when `docker info` or `docker history`
  fails (prep.sh:184 and 188; `VerifyImage`), and so gets installed;
* "remove all newlines from passwd" (platform-passwd.sh:15) is awk printing the
  first word of each line, and reading `%` in it as a format (`Printed`);
* a logger that fails in one of the password scripts ends it, and the result
  files go on telling of an earlier run (`Break`);
* `newest` takes the snapshots of label `a-b` for those of label `a`
  (`Filtered`; the labels of `create-backup.sh` cannot extend one another);
* `netconf -mode dhcp` says "Already using DHCP" by what networkd has loaded,
  while a static file on the disk takes hold at the reboot (`AlreadyDhcp`
  without `fresh`), and of several files for an interface it removes the one in
  use only, so that "the systems default takes hold" (netconf.go:150) is true
  only when there is no other (`others` in `Achieved`);
* `netconf -mode static` fails when the file networkd has read is gone
  (`RemoveMissing`; netconf.go:154 calls that okay for a dhcp command), and fails after writing its
  file when networkd does not restart (`RestartFails`; netconf.go:274 has a
  success message for the case);
* `self_destruct` overwrites the boot device when it does not find out which
  one it is (`FindRootDev`; line 90 announces that it is skipped);
* `self_destruct` says "Destruction successful" when `find -delete` or `userdel`
  has failed (`ClearMountpoints`, `RemoveUser`);
* `getFailedUnits` of `platform-feedback` returns after the first line, so that
  the status of one failed unit is collected (below the level of `Feedback`,
  where outputs are files with a size);
* a request to lock that comes while a lock script runs is taken away by that
  script; with a password set since its `passwd -l` the account stays unlocked
  (the premise of `LockIsServed` leaves these requests out).

### Bounds, and why they are enough

* `Prep`: two releases that share one image and differ in the tag of the
  other; three units (marked, unmarked, the path unit), one of which a second
  payload no longer ships; two runs.  A run sees of its predecessors only what
  is on the box, so two runs (one cut off anywhere, one for another release)
  show every interaction of a leftover with a later step; `MaxRetries` 1 lets
  the loop go round, fail and run out.  The theorems need no bound.
* `ZfsSnapshots`: a chain needs a base, a dump on it, and one after a failure,
  hence three runs; two datasets, because the failures of interest are between
  the first and the second.  `zfs_clock` trades the second dataset for a second
  label, which begins with the first, and one step back of the clock.
* `RabbitmqManager`: one application (runs for different ones share nothing but
  the broker's state), two processes, three creates and a delete, two changes
  of the broker, enough for it to listen before it runs.  Both properties are
  about requests that the broker has not refused; what becomes of the refused
  ones is what `rabbit_status` shows.
* `Netconf`: two wired interfaces, a wireless one, a custom file for both wired
  ones that sorts between their own, so that it may stand before or behind the
  file of an interface; three commands, two edits by hand.
* `Feedback`: two outputs and two files of collectd (a short file matters only
  to the one after it), sizes up to 2 (as long as the header says, shorter,
  longer, gone).
* `AccountPassword`: three requests of either kind in any order: a lock beside a
  password, and one more of either that comes too late; two passwords, one of
  which awk prints as it is; one power cut, after which nothing needs to be
  remembered of earlier contents (`Age`).
* `SelfDestruct`: two drives (so that one may fail and the other not), the boot
  device, a spared device, one power cut at any point beside the hard reboot of stage 1.

`CHECK_DEADLOCK FALSE` stands where all bounded commands may be used up and
the system then rests (`ZfsSnapshots`, `RabbitmqManager`, `Netconf`,
`AccountPassword`) or the process has ended (`Feedback`).  `Prep`
and `SelfDestruct` are checked for deadlock.

### Fairness

`Prep`: weak fairness of `Script`.  A shell that has not been killed runs its
next command; every command of the model is enabled until it is taken.  There
is no fairness for the user, the trigger, kills or reboots, and none that makes
a pull succeed: `RunEnds` holds because the retries are counted.
`SelfDestruct`: weak fairness of `Stage`, for the same reason, and of `Boot`
while the table of the boot device is there: a box that is off is switched on
again, but is not certain to boot without it.
`Feedback`: weak fairness of `Handler` alone.  The runtime schedules a goroutine
that can go on; main may hang in any of its commands, and `InterruptEnds` must
hold then, too.  `AccountPassword`: weak fairness of `Start`, since systemd
starts what is queued, and of each script.  Power cuts are bounded: if the power
failed for ever within minutes, nothing could be promised.

### Assumptions about the surroundings

* One configure run, one `zfs-snapshots` command and one `netconf` command at
  a time.  Nothing in this repository serialises configure runs (the script
  that starts them is not part of it), and `KillMode=none` lets a backup live
  on; the models do not cover such overlaps.  `rabbitmq-manager` processes do
  overlap in the model.
* `rabbit-hole` returns no error for an HTTP error status (the code looks at
  err only); a running broker carries out what it is asked.
* A unit whose image the manifest does not list is rendered with an empty tag;
  the properties of `Prep` say nothing of its image.  `find`, which lists the
  units that are to be enabled (prep.sh:138, 141), works.
* What follows the dash of a longer label does not look like a year, so that
  the snapshots of two labels do not mix in the order of names.  What a dump has
  written when it is renamed survives a power cut (the error of `Sync` is not
  looked at by the code, nor is there one in the model).
* networkd passes over an empty file, and a partial one has its `[Match]`
  section.
* `SelfDestruct` leaves out what `gdisk` does with an overwritten table, and the
  units and scripts of the platform, which go with the configuration.
* The two password scripts may overlap each other; each runs once at a time,
  as its service does.
* networkd uses the first matching file by name, and reads files at its start.
* `sync` writes out everything that was written before it.

## 4. What is proved

`PrepProofs` proves, for any set of units, images, releases and manifests, any
payloads, any number of retries and runs, from `PrepAssumption` alone:

| Theorem | Statement |
|---|---|
| `TypeCorrect` | `Spec => []TypeOK` |
| `InstalledUnitsHaveImages` | `Spec => []UnitsHaveImages` |
| `RunsDoNotTriggerThemselves` | `Spec => []NoSelfTrigger` |
| `DownloadsBeforeUnits` | `Spec => DownloadsComeFirst` |
| `RecordedReleaseIsDeployed` | `Spec => ReleaseIsDeployed` |
| `SuccessfulRunsDeploy` | `Spec => SuccessMeansDeployed` |
| `PrepImplementsDeployment` | `Spec => ImplementsDeployment` |
| `FailedDownloadsCanBeRetried` | `Spec => []RetryIsPossible` |

The inductive invariant is
`IInv == TypeOK /\ Stages /\ UnitsHaveImages /\ NoSelfTrigger`.  None of the
parts is inductive alone.  `UnitsHaveImages` survives `InstallUnit` only because
all images of the release have arrived (`Arrived`), and survives
`RemoveOldImages` only because by then every tracked unit is of this release or
gone (`Installed`).  `Stages` says for each group of commands what the ones
before have achieved: a release is known, its images are there, the old marked
units are gone and the new ones written, they are enabled, the release files
are written one by one; and the path unit sleeps while the channel is written.
It speaks of the run in progress only, so a kill or a reboot makes it trivially
true, while `UnitsHaveImages` is what survives from one run to the next.  The
action properties follow from `IInv` and the guard of the actions that can
disturb them.  The lemma `HostStep` sorts the steps of `Prep` by what they do to
images, units and release files; with it each step is a step of `Deployment`
or a stutter: `RemoveOldImages` because of `InUseImages` (what installed units
need is what the run's manifest lists, by `UnitsHaveImages` and `Installed`),
unit changes and records because of `Stages`.  `RetryIsPossible` has an
inductive invariant of its own, `ScriptsInPlace`: the scripts are there, or a
run is about to empty or fill their directory, or the last one ended in a
failing command or a kill.

`SelfDestructProofs` proves, for any set of devices and any number of power
cuts, from `SelfDestructAssumption` (the boot device is one of the devices):

| Theorem | Statement |
|---|---|
| `TypeCorrect` | `Spec => []TypeOK` |
| `ArmedUntilWiped` | `Spec => []DisarmedAfterWipe` |
| `SuccessIsNotPartial` | `Spec => SuccessMeansZeroed` |

The inductive invariant is
`UnitInPlace /\ DrivesDoneSoFar /\ ErrorsAreKnown /\ ArmedOrWiped`: what stage 1
has put in place so far; which drives stage 2 has overwritten so far, in memory
and after its last `sync` on the disk; that `$ERROR` records every drive that
still has its table; and that after the announcement either the unit is in
memory and on the disk or both have the tables gone.  That both copies are in
it is what makes a power cut harmless: `LoseMixes` shows that a mix of two
copies that agree on something agrees with them.

`FeedbackProofs` proves, for any number of commands, any files of collectd and
any sizes, from `FeedbackAssumption`:

| Theorem | Statement |
|---|---|
| `TypeCorrect` | `Spec => []TypeOK` |
| `InterruptRemovesArchive` | `Spec => []InterruptLeavesNoArchive` |
| `ArchiveIsComplete` | `Spec => []SuccessMeansComplete` |

The inductive invariant is `TypeOK /\ Order`.  `Order` says what main has
achieved at each command: nobody waits for an interrupt before the archive is
made (`ArchiveBeforeHandler`, which is what keeps main from making a new one
after it was removed); each output is packed, still to come, or being copied
(`OutputsAreCovered`); and the deferred calls run in their order
(`EndsAreWritten`: the compressor is open while the tar writer closes).
`TypeOK` needs `CopiesAFile`, since a file is packed under the name that
`WriteHeader` left.  `SuccessMeansComplete`, and so `ArchiveIsComplete`, is about
runs that were not interrupted, in which no call failed whose error is ignored
(`fault`) and whose last file did not come out shorter than its header says
(`short`); files of collectd may change, grow and vanish otherwise.

`ZfsProofs` proves, for any sequence of datasets (the same one twice included),
any labels, any `-keep`, and any number of runs, seconds and steps back of the
clock, from `ZfsAssumption`:

| Theorem | Statement |
|---|---|
| `TypeCorrect` | `Spec => []TypeOK` |
| `FailedRunsLeaveNothing` | `Spec => []FailureLeavesNoSnapshot` |
| `DumpsHoldWhatTheyAreNamedFor` | `Spec => []DumpsMatchTheirNames` |
| `ChainsHaveNoHoles` | `Spec => []BasesArePublished` |
| `RotationLeavesKeep` | `Spec => RotationBounds` |

The first part is about sorting: on a finite set of snapshots with unique names
the ranks are a bijection to `0..n-1` (`RankIsBijective`), so there is a least
name and a last one, every other name comes before the last
(`LastIsGreatest`), and the first k names are k names (`OldestCount`).  The
inductive invariant has two halves.  `Runs` follows one run: until it creates
its snapshots none is of this run (`OwnSnapshots`) and their names are free
(`NamesAreFree`, thanks to the look at the list in `List`); all others are those
of the beginning (`OldSnapshots`); cleanup and rollback come through what they
have to destroy (`Rotates`, `RollsBack`).  `Dumps` follows the published files
across runs: every snapshot that no run is at work on is covered, by a dump
that was published or by the record of an orphan (`BasesAreCovered`); that is
what `BasesArePublished`, which only looks at files, needs to be inductive.
`DumpsAreReady` carries the fact from `Send` to `Rename`: under the temporary
name of each dataset done so far lies a whole dump, of this run's snapshot and
with a covered base, if the label is alone and no clock was set back.  It rests on
`NewestIsNew`: with no snapshot younger than `now` (`Clock`), `newest` picks the
new snapshot first and one of an earlier run second.  `TypeOK` needs most of
this as well: `Last`, `Least` and the file that `Rename` takes are CHOOSEn, and
have a type only where there is something to choose.

`NetconfProofs` proves, for any interfaces, any files (custom ones included,
for any sets of interfaces), settings, commands and edits, from
`NetconfAssumption`:

| Theorem | Statement |
|---|---|
| `TypeCorrect` | `Spec => []TypeOK` |
| `MissingFilesAreOkay` | `Spec => MissingFileIsOkay` |
| `ReportedSuccessHolds` | `Spec => SuccessHolds` |
| `ShownModesHold` | `Spec => ShowsWhatHolds` |

`BestApplies` shows that a first file exists whenever one applies (the order is
that of the naturals, which is well-founded).  All theorems hold for any number
of files per interface: `Tight` says that what applies to an interface is the
file in use or one of the `others` of the beginning, `Right` that the file in
use is the one networkd would take if it is still there.  The invariant is `TypeOK /\ Progress`: a command has a
result exactly when it has ended, it goes through the interfaces in order, and
for each kind of command what it has achieved for the interfaces behind it
(`DhcpProgress`, `StaticProgress`, `ShowProgress`), and that a dhcp command which
comes to `Remove` without the file has been raced (`MissingIsRaced`).

`RabbitProofs` proves, for any applications, processes, runs and attempts to
connect, from `RabbitAssumption`:

| Theorem | Statement |
|---|---|
| `TypeCorrect` | `Spec => []TypeOK` |
| `StoredUrlWasAccepted` | `Spec => []UrlWasAccepted` |
| `CreateRepairs` | `Spec => CreateLeavesUsableAccount` |

Both cover brokers that answer with error statuses; the properties themselves
name the requests that were refused, since the tool does not notice, and
`rabbit_status` is the counterexample to saying more.  The invariant is
`Basics /\ Progress`.  `Basics`: types, a password drawn before the first
request, and that of two runs on one application each knows of the other
(`OverlapIsNoticed`).  `Progress` says what the answers received so far mean: the
password was accepted, unless that request was refused (`WasAccepted`), and, if
nobody interferes and nothing was refused, user, vhost and permissions are there
one after the other (`AccountGrows`).

`PasswordProofs` proves, for any passwords, requests and power cuts, from
`PasswordAssumption`:

| Theorem | Statement |
|---|---|
| `TypeCorrect` | `Spec => []TypeOK` |
| `LoneRunsReportTruly` | `Spec => []ResultIsHonest` |

Its invariant says that a run marked `alone` is (`AloneIsAlone`), that an
outcome is remembered only while nobody runs (`SettledMeansIdle`), and what a
lone run has brought about when it comes to each of its last commands
(`AloneProgress`): that the account is as asked before the error file goes, and
the result file that contradicts the outcome is dealt with.  "As asked" is the
word that awk has printed, which is the request only if that is `Plain`; a run
that `set -e` ends has no outcome and the theorem says nothing of what it left.
After a power cut nothing is alone or settled, so that `versions` matters for
the types only.

Each inductive invariant has been checked by TLC on the instances of the runs
before it was proved.  The proofs assume nothing but what the modules' ASSUMEs
say; the bounds of the runs (`MaxRuns` and the like) are any numbers in them.
`MaxTime` is not 0, since the clock starts at 1.

What stays with TLC: the liveness properties (`RunEnds`, `ArmedBoxIsWiped`,
`InterruptEnds`, `LockRequestEnds`, `LockIsServed`), since fairness and ENABLED
are beyond the provers used, and the properties of the four violated runs,
which are false.  Every invariant and every action property that a passing run
checks is a theorem.

## 5. What is not modelled

* Container units and restart path units: one `docker run` or `systemctl
  restart` each, with systemd and docker as the only keepers of state.  Their
  common scheme (a write that is noticed only while the service is not running)
  is that of `TriggerUpdate`.
* `skvs_cli` hands one call on to the client library; its effect that matters,
  a write to the channel file, is `UserSetsChannel` of `Prep`.
* Reports, hardware tests, the button, set-up scripts, wireless, maintenance
  units: they read, print, or run one command.
* `update_os.sh`: drives CoreOS' update engine, of which nothing is here.
* The `platform-configure` script that starts the container and reboots, the
  SKVS server, the broker, docker, zfs, networkd: external; where a model needs
  them, they are as the code uses them.

## 6. Plan

Done: all modules of section 2, with a theorem for every safety property and
action property of the passing runs, and the refinement of `Deployment`.

Next, in this order:

1. `ZfsSnapshots`: an abstract specification of what the uploader is promised
   (an archive that grows by whole dumps whose bases it has), `ZfsSnapshots`
   shown to implement it when the clock is not set back.
2. `RabbitmqManager`: the abstract account (none, in pieces, usable with a
   password), and the create run as its refinement without overlap.
3. `AccountPassword`: the safety part of `LockIsServed`, that a lock request
   which is queued is not dropped by the other script.
