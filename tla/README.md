# A verification of chr-install

`chr-install` replaces a running Debian or Ubuntu server with MikroTik CHR. It
finds the disk below the root filesystem, derives a network plan from the host,
downloads an image and puts the first-boot script into it, lets the operator
confirm, stages a *RAM writer* (an initramfs that contains the installer itself,
the image and a manifest), and makes the machine boot it, by kexec or by a
one-shot GRUB entry. The writer finds the disk again, writes it, reads it back
and reboots. A mistake costs the operator a server or the way to reach it, most
of the hard cases need a crash, a lost write or a second disk, and unit tests
hardly reach them. This directory models the program in TLA+, checks it with
TLC and proves every safety property of the passing runs with TLAPS.

Paths below are relative to `src/internal/` unless they begin with `src/`.

## Inventory

| Component | State it keeps | Operations | Hard behaviour | What makes it correct | Here |
|---|---|---|---|---|---|
| Session (`app/app.go`) | preflight report, review, work directory | detect, review, download, confirm, detect again, compare, stage | the machine changes while the operator reads | the disk erased is the one `/` rests on, as last looked at | `Session`, `System` |
| Disk detection (`disk/detect.go`) | block-device graph of one lsblk run; which staging methods work | parseGraph, backingDisks, hasMountedDescendant, configureStaging | layered and shared devices, name clashes | all devices below `/` are found, or it refuses | `Session`; methods as hosts of `Staging` |
| Disk identity (`disk/fingerprint.go`) | none | fingerprint, list, select, match | disks without identity, identities that vanish | exactly the authorized disk, or none | `Writer`; VPD parsing not modelled |
| Network plan (`network/detect.go`, `validate.go`) | the plan and its evidence | seven commands, files, DNS, grading, Validate | the network changes between two commands | the plan gives RouterOS what the host had, or is refused | `Network`, `FirstBoot` |
| DHCP probe (`network/dhcp_linux.go`) | a packet socket, a deadline | one DISCOVER, receive until an offer | the socket sees all traffic | only its own offer counts; it ends | `Network` |
| RouterOS script (`network/routeros.go`) | none | format the commands | it runs again after a power cut | any number of partial runs converge | `FirstBoot` |
| Release client (`mikrotik/client.go`) | `.partial` file, archive | metadata with retries, resumed download, checksum | interrupted and mixed responses | every byte at its own offset, none missing, compared with the published checksum | `Release` |
| CHR image (`mikrotik/image.go`) | loop mount, image | Inspect, InjectAutorun | a failing or cancelled umount, write-back | the checksum is of the final image | `Image` |
| Staging (`install/stage.go`, `initramfs.go`, `resources.go`) | files in `/var/lib/chr-install`, `/boot/chr-install`, `/etc/grub.d`, `grub.cfg`, `grubenv`, pending kexec image | PrepareStage, executeKexec, executeGRUB, two cleanups, the kexec-to-GRUB fallback | failure of any step, late failures, Ctrl-C, kill, power cut, rerun | success boots the writer, failure leaves nothing unreported | `Staging` |
| Command runner (`command/runner.go`) | none | run a command under a context | a killed command may have taken effect | - | outcomes of the steps of `Staging` |
| Manifest (`install/manifest.go`) | one JSON file in the initramfs | NewManifest, Validate | the RTC differs from the system clock | fresh accepted, stale refused | `WriterClock`, `System` |
| RAM writer (`install/writer_linux.go`, `write.go`) | target path, device, hashes | RunWriter | devices appear late, in any order; lost writes; page cache | writes only the target and nothing it sees in use, reboots only a verified disk, always ends | `Writer`, `System` |
| User interface (`ui/ui.go`) | the edited plan | review, acknowledgement, two confirmations | an edited plan has another grade | unverified plans are acknowledged | `Network`; gates of `Session` |
| Preflight, platform, model, report | the report | collect, format | none that interleaves | - | inputs of `Session` and `Network` |
| Bootstrap (`src/installer.sh`) | temporary files | download, compare, run | - | - | not modelled: sequential shell |
| Integration tests | - | - | - | - | not modelled: read as a reference |

The components interact in one direction. The session calls detection of disk
and network, the client and staging; staging hands the writer a fingerprint, a
checksum and a timestamp through the manifest; GRUB, or kexec, decides whether
the writer runs; the plan reaches RouterOS as a script in the image. What is
shared is outside the program: the root disk, grubenv, the kernel's kexec slot
and page cache, the clock, the network, the operator's signals.

## Modules

| Module | Models | Checked by |
|---|---|---|
| `Staging` | StageAndBoot with all it calls, the machine around it, GRUB | `MCStaging`, five configurations |
| `Writer` | RunWriter, the choice of the target, the disks | `MCWriter` |
| `WriterClock` | manifest timestamps and the RTC | `MCWriterClock` |
| `Session` | app.Run around two calls of the disk detection | `MCSession`, two configurations |
| `Release` | metadata and download | `MCRelease`, through `Image` |
| `Image` | extends `Release`: extraction, Inspect, InjectAutorun | `MCRelease` |
| `FirstBoot` | Validate, the script, RouterOS executing it | `MCNetwork`, through `Network` |
| `Network` | extends `FirstBoot`: network detection, DHCP probe, review | `MCNetwork` |
| `SafeInstall` | abstract: what the owner of the server is promised | implemented by `System` |
| `System` | `Staging`, `Writer` and `WriterClock` composed | `MCSystem` |
| `StagingProofs`, `StagingCrashProofs`, `WriterProofs`, `WriterClockProofs`, `SessionProofs`, `ImageProofs`, `NetworkProofs`, `SystemProofs` | theorems and proofs | TLAPS |

Operators whose name ends in a suffix after an underscore (`Sync_NotWaited`)
are mutants: plausible bugs, each of which breaks the property it is kept for.
No specification uses them.

### Staging

`step` is the program counter over the Go calls. PrepareStage is one action
(`PrepareStep`) over eleven steps with tables for what a step leaves on the disk
(`Prepared`), what it registers for the deferred cleanup (`Registered`) and what
follows (`AfterPrepare`). Each command of executeKexec and executeGRUB is an
action with three outcomes: works, fails without effect, takes effect and is
reported as failed. `cleanup` and `partialCleanup` remove one artifact per step,
in the order of the code, and go on after an error.

Ctrl-C has two effects. The first press cancels the context, after which no
command of the caller's context is started. Each press, the later ones too, is a
SIGINT to everything in the terminal's foreground process group, and the commands
are in it because OSRunner.Run sets no Setpgid (`command/runner.go:19`). So
although the cleanups run under a context of their own, a second press may hit
their `grub-editenv`, `update-grub` or `kexec -u` (`CleanupFails`); what the
operator then finds is an entry that is still armed, a menu entry or a pending
image, and an error that says so. An entry that stays armed without its initramfs
stops GRUB once.

`disk` is what the running system sees of each artifact, `durable` what a power
cut would leave of those that GRUB reads, `armed` is `next_entry` in grubenv,
`loaded` the kernel's kexec slot. `known` is executeKexec's local variable
`loaded`, which may differ from the kernel's. `reported`, `before` and `struck` are
history: what the returned error says, what the attempt found, and which commands
of the cleanup a Ctrl-C hit.

Abstractions. Temporary files of the atomic copies are left out: nothing reads
them. A directory survives a power cut if the file in it does. grub-editenv and
grub-reboot rewrite grubenv in place and are taken to be durable at once.
The output of update-grub is volatile until written back. Space and memory
checks pass or fail. The method `rescue-direct` only calls RunWriter, so
it is `Writer` and not `Staging`.

### Writer

Disks have a `look` (size, identity, driver) and a `place` (a kernel name, which
stands for its major:minor too). They appear in any order under any free name,
and may vanish. RunWriter finds its target by fingerprint, but opens it by name,
twice. `cache` and `dirty` are the page cache of the device that is written,
`media` what is on each disk; with `Lossy` a write-back may store something
else. `source` is the image in RAM, which may be damaged until it is copied.
`swapped` records that a disk was unplugged after the target was found: the code
does not look again at what it has opened, and the properties say so.

`use` is how others use each disk. It may change (`ChangeUse`) before, between and
after the two looks of ensureUnmounted, at mountinfo (`EnsureUnmounted`) and at
/proc/swaps (`EnsureNoSwap`). These compare the device numbers of the disk and of
its partitions, so a use by LVM, dm-crypt, md or btrfs ("layered") shows in neither.
`inUse` is history: the disks that were mounted, or used for swap, when the writer
looked for that.

### WriterClock

One number line: the system clock shows `now`, the RTC `now - lag`, at the same
rate; only Linux sets the RTC (`SetRTC`). The manifest holds `created` and
`offset`, as NewManifest writes them.

### Session

`under` is the true relation "lies on", `parents` the graph that parseGraph
makes of lsblk's tree and PKNAME columns. The traversal of backingDisks is one
action per visited device. What Detect looks at is the state at its lsblk call;
changes during a detection show only to the next one, so the machine changes at
the step `review`, in any way and any number of times. `Misnamed` devices are
mappings whose name is the kernel name of another device.

### Release and Image

`partial` is the `.partial` file as a sequence of bytes, each with the object
and offset it comes from, so that a mixture of responses shows. A response is
the whole object or any range of it, with or without a length.

`Image` goes on where the checksum has been compared. `Accepted` is Inspect on a
table of entries with a type, a boot flag in order or not, a start and a length;
`Follows` is its test of neighbours in the order of their starts; `Orders` is a
set because sort.Slice may leave entries with equal starts in either order. `image` is
what the file holds of each partition, `cache` what the kernel sees of it while
it is mounted, `mounts` what is mounted; the kernel may write back at any time.
mount, the write of the script, sync, close and umount fail each in their own
way, and Ctrl-C may come before or during any of them. `kept` is history: the
partitions whose umount did not succeed. The contents of the file systems are
what matters to the script: as shipped, changed by mounting, with a part of
autorun.scr, with all of it.

### Network and FirstBoot

Every command of Detect is an action, so that the host's network may change
between any two (`HostChanges`, once); every blocker, the fallback of DNS and
the grades of evidence are there. Addresses, gateways and servers are names;
`NetOf` and `Wide` say which share a subnet, `LinkLocal` which are link-local,
and the class of an address where Linux has it from. The probe receives any
packet at any time, its own offer, the offer to another client or noise, and
`left` counts the receive timeouts to its deadline. The review submits the plan,
edited or not, in the way the form does (`Submitted`).

`FirstBoot` has the script as a sequence of abstract commands that `RouterOS`
executes one after the other on `config`; the power may be cut and the script
begun again after any of them. An add of what is there fails and with it the
script, a remove takes all it finds: that much of RouterOS the script relies on.
The addresses of a plan are lists, as in the code, and the operator may repeat one:
neither the form nor Validate nor the script removes duplicates.

### SafeInstall and System

`SafeInstall` says what the owner of a server sees: which system runs, what is on
the disks, when the operator authorized an installation. One disk changes, the
authorized one, only while a writer that was authorized at most `Limit` ago runs
or has just halted, and only from old to torn to new; the old Linux runs only from an
untouched disk; the writer finishes only with the whole image on the disk.

`System` composes the instances `S` of `Staging`, `W` of `Writer` and `C` of
`WriterClock` over shared variables. It adds what none of them has: the attempt
each copy of the initramfs belongs to (in the build directory, in `/boot`,
durable there, in the kexec slot, running), the manifest's stamps of each
attempt, the passing of time while the machine waits, a power cut while the disk
is written, a writer that dies so that the initramfs goes on to mount the root,
and what a disk in each state boots. The refinement mapping is at the end of the
module: `RunningNow` for `running`, `Content` for `content` (a disk is `torn` if
it is neither all old nor all image), the stamps for `authorized`. Waiting at a
GRUB prompt and a writer that has not yet read its manifest count as `off`.

## Runs

| Run | Question | Bounds | Result |
|---|---|---|---|
| `faults` | which residue can a returned error hide, what does success promise | every kind of host, every step and removal may fail, every command late; any number of attempts | holds, 2.4 M states |
| `crashes` | what does GRUB find after a kill or power cut | hosts with a sound GRUB, kills and cuts everywhere, one failure of each kind | holds, 350 k states |
| `cancel` | what does Ctrl-C leave behind, do attempts end | every host, Ctrl-C at any moment and any number of times, during the cleanups too, no other failure | holds, 4.5 k states |
| `unload_interrupted` | README.md:80, pending kexec image | Ctrl-C only | violated, see Findings |
| `rerun` | README.md:80, armed entry | kill, then a failing copy | violated |
| `writer` | which disk is written, when is it rebooted, does it end | 2 disks, 2 names, 4 looks, 2 chunks, every kind of use by others, every call may fail | holds, 1.1 M states |
| `clock` | who is refused | age 4, leeway 1, offset 3, RTC off by up to 5 both ways, 12 ticks | holds, 5 k states |
| `session` | which disk is staged | 2 disks, a partition and two layered devices of every kind, all stacks of them | holds, 240 k states |
| `session_misnamed` | README.md:64 | the same with one misnamed mapping | violated |
| `release` | what is in the archive, what is the checksum of, what stays mounted, does it end | 3 objects of size 3, 3 and 5, limit 3, the real numbers of attempts; every table of 3 entries in 5 sectors | holds, 180 k states |
| `system` | does the whole keep what SafeInstall promises; which attempt's writer runs; does the machine go round between host and writer | 2 attempts, 2 disks, 2 chunks, age 0, RTC offset 1, time up to 2; kills, power cuts and dying writers everywhere | holds, 810 k states |
| `network` | does RouterOS get the host's network | 543 host networks, 3 others to change to, 6 edits, one with a repeated address, every command may fail, Ctrl-C at any time | holds, 2.6 M states |

Why the bounds are enough. `Staging` has no counters: its state space is finite
and covered for the given hosts and faults; the faults of `crashes` are fewer
because `faults` covers the rest without crashes. In `Writer` the second disk is
what makes identities ambiguous and the second chunk what makes a copy partial;
a third of either adds no new kind of situation, and the proofs hold for any
number. In `WriterClock` the three durations are different and small, their
order is that of the real ones up to the equality of the maximum age and offset,
and the theorems hold for all values. In `Session` two layers over a partition
and a second disk give shared, stacked and unsafe devices; here, too, the
theorems are general. In `Release` three bytes are enough for a prefix, a
suffix and a gap, and five exceed the limit by more than the one byte that
io.LimitReader lets through; three partitions are enough for one that is neither
first nor last, and five sectors for gaps, touching neighbours, overlaps by one
and an end beyond the image; their safety is proved in general.

In `System` the second attempt is what makes a copy stale, two chunks make a
torn disk, and with age 0 one tick of the clock, two with the worst RTC, make a
manifest old. The faults of the parts are reduced to the two that reach the
fallback and repeat an attempt, because the parts have runs of their own with
all of them. In `Network` there is one host for every combination of an IPv4
route set, address set and set of files, and likewise for IPv6, rather than the
product of the two families, which meet only in the choice of the uplink, in
Validate and in the judgement; hosts with both are among them. `Patience = 1`
is the shortest wait with a moment before and after the deadline. The theorems
hold for any hosts, edits and waits.

Bounds that cut an unbounded quantity: `Horizon` (clock, system), `Attempts`
(system), `Maximum` and `Size` (release), `Patience` (network), and one change
of the host during one Detect (network). The others are the program's own.

Deadlock is checked for `Staging`. The writer, the clock, the session, the
preparation of the image, RouterOS and, at the horizon, the system really stop.

### Fairness

- `Staging`: `WF(Installer)`, as every system call and command returns (a
  command that hangs is cancelled by the operator, which is an interruption, or
  by the cleanup's own timeout); `WF(Shutdown)`, as a requested reboot completes;
  `WF(Boot)`, as a machine that is switched on boots. Nothing is assumed of the
  operator, of write-back or of crashes.
- `Writer`: `WF(RunWriter)` and `WF(Deadline)`, as its loop polls and its clock
  runs; `WF(WriteBack)`, as fsync waits for it.
- `Image`: `WF(Client)` and `WF(Injector)`, as requests have timeouts or are
  cancelled and commands return. The archive's request itself has no deadline of
  its own besides those of the HTTP transport: `PrepareEnds` is about the loops.
- `Network`: `WF(Detect)`, as commands return, and `WF(ProbeClock)`, as the
  receive timeout lets the probe look at its clock. No packet has to come and
  none of the failures has to happen. The code ignores an error of
  SetsockoptTimeval, without which a silent wire would block the probe.
- `System`: the writer's steps, its reboot, and that a machine that is switched
  on boots. Nothing is assumed of the operator, the power or the clock.

## What is proved

For every value of the constants, under the assumptions named in the modules:

| Theorem | Property | Argument |
|---|---|---|
| `TypeCorrect` | `Staging!TypeOK` | inductive as it stands |
| `HandOver` | `HandOverBootable` | `Established` |
| `ResidueAccounted` | `ResidueReported` | `Covered` |
| `CleanFallback` | `FallbackStartsClean` | `Covered` |
| `InterruptsLeaveOnlyStruck` | `CancelledLeavesOnlyStruck`, if `Faults` and `LateFaults` are empty | `ResidueAccounted` and `OnlyStruckFailed` |
| `ImageUnloaded` | `KnownImageUnloaded` | `ImageTracked` |
| `ArmedKeepsInitrd`, `ArmedIsDurable` | `ArmedIsBootable`, `ArmedSurvivesPowerCut`, if all hosts have the handler | `CrashProof` |
| `BootedOnce` | `OneShot`, if all hosts have the handler | `CrashProof` |
| `WriterTypeCorrect` | `Writer!TypeOK` | with `CopyInRange` |
| `Verified` | `RebootVerified` | `MediumRead` |
| `TargetOnly` | `OnlyTargetWritten` | `FoundTrusted` |
| `BusyLeftAlone` | `BusyNotWritten` | `LookedClean` with `FoundTrusted` |
| `FallbackIsAlone` | `FallbackNeedsAbsence` | `FoundByFallback` |
| `FreshIsAccepted`, `StaleIsRefused` | `FreshAccepted`, `StaleRefused` | `ClockInv` and arithmetic |
| `SessionTypeCorrect` | `Session!TypeOK` | with `Grounded` |
| `TargetIsRoot` | `TargetBacksRoot` | `Explored` |
| `RescueIsUnused` | `RescueTargetUnused` | `Explored` |
| `FallbackStagedAlone` | `FallbackAlone` | `Visible` |
| `PrepareTypeCorrect`, `PartialAligned`, `ArchiveIsComplete`, `PartialIsBounded` | `ImageTypeOK`, `Aligned`, `ArchiveComplete`, `PartialBounded` | `Downloading` |
| `HashIsFinal`, `OnlyKeptMounted` | `HashedIsFinal`, `NothingElseMounted` | `Injecting` |
| `LayoutIsDisjoint` | `LayoutDisjoint` | `AcceptedDisjoint` |
| `AcknowledgedOrSeen` | `Acknowledged` | `Reviewed` |
| `ScriptIsIdempotent` | `Idempotent` | `Running`, `Final` |
| `GatewaysAreReachable` | `GatewayReachable` | `Derived` with `Final` |
| `HostIsPreserved` | `Preserved` | `Grounded` with `Derived` and `Final` |
| `Refinement` | `InstallsSafely`, i.e. `System` implements `SafeInstall` | `Staged`, `Numbered`, `Stamped`, `Writing` |
| `LatestRuns` | `LatestWriter` | `Latest` with `Staged` and `Numbered` |

| Theorem | Ranking of | What lowers it |
|---|---|---|
| `AttemptShrinks` | an attempt of StageAndBoot | every step of the installer |
| `WriterShrinks` | a run of the writer | every step of RunWriter and its deadline |
| `PrepareShrinks` | download and injection | every step of the client and of InjectAutorun |
| `DetectShrinks` | the network detection | every step of Detect and every receive timeout of the probe |

The second table is about progress: the ranking is a natural number, the steps
named lower it, and no other step raises it, except that the operator may begin
another attempt of StageAndBoot. So none of the four can go round in circles,
for any numbers of retries, chunks and partitions. For `AttemptShrinks` the proof
needs that the fallback does not fall back again and that no cleanup tries a
removal twice.

What the constants have to satisfy is named in the modules and is what the code
gives: a host that boots the writer by GRUB has GRUB, a table has at least one
entry and entries have the types of the MBR fields, numbers of attempts and
limits are positive, addresses are finitely many (a plan lists
them), hosts, edits and uses of a disk are of their types, and RouterOS comes without host
routes.

The two theorems about `System` rest on `SystemAssumption`: every disk has a stable
identity and none is unplugged, the writer may refuse a manifest, update-grub
carries the handler into grub.cfg, and the RTC is no further off than a manifest
records. The exceptions without them are those of the parts: `FallbackNeedsAbsence`,
`~swapped`, and the last item of "What the properties except". Lossy disks and a
damaged image are not excluded.

The inductive invariants, and why the properties alone do not do:

- `Established` follows the evidence that HandOverBootable rests on. The
  initramfs is whole from the step that copies it, the menu from
  validateGRUBConfiguration, the arming from verifyGRUBNextEntry, and nothing
  that runs between one of these and the last command undoes it.
- `Covered` says of every step what is left of the attempt and who will remove
  it: PrepareStage has registered it, the stage's cleanup is called for it, or
  the cleanup under way has still to do it or has reported it. Two facts that
  look unrelated are needed: a file is in its directory (a directory that cannot
  be removed is then explained by its file), and the script is gone or reported
  when update-grub runs again, or the menu would come back unnoticed.
- `ImageTracked` says which steps an image that executeKexec knows of can be at,
  and that a fallback belongs to kexec.
- `CrashProof` relates the two states of the files, visible and durable: where
  an attempt's own entry may be found armed, its initramfs is there, on the disk
  too unless this is the fallback. That removals come after disarming
  (`DisarmFirst`) keeps it during a cleanup; at the other steps `Covered` says
  that the entry is one the attempt found.
- `OnlyStruckFailed` says that, without faults, every removal that is reported as
  failed is one a Ctrl-C hit. `ResidueReported`, which is proved for any faults,
  then leaves nothing else.
- `MediumRead` says that after the flush nothing of the disk that is read is
  cached, unless it was lost, so the hash is that of the medium. RebootVerified
  alone says nothing before the reboot.
- `FoundTrusted` carries what was found through the steps that only know a name:
  as long as no disk is unplugged, the name still leads to the disk that matched,
  and two disks never have the same name. `LookedClean` adds to it that the disk of
  that name was in neither of the two lists. `FoundByFallback` does the same for a
  target without identity, from the moment it was the only visible disk.
- `Explored` is the usual one of a graph traversal. Since "below" is defined as
  membership in all closed sets, no induction along paths is needed: when nothing
  is left to visit, the visited devices are such a set.
- `Visible` says that a traversal comes only by disks that are plugged in: those
  in use cannot be removed, and a disk goes by its own name.
- `Downloading` adds where a response that is being copied starts, which is what
  keeps the bytes of several attempts aligned, and that only a complete file is
  renamed. `Injecting` follows the partition under consideration: it
  is mounted while it is visited, the others are clean, and what has not been
  unmounted is accounted for in `kept`.
- `AcceptedDisjoint` needs no induction along the table: an order of the entries
  has their starts ascending for all pairs, and with it the test of neighbours
  gives by arithmetic what holds of any two.
- `Running` says what any part of the script has done. The proof first turns the
  sequence of commands into a set (`ScriptLists`): the script is the removals and
  what the plan wants, each once unless an address is repeated. Then, at any point, what a removal that has run
  would still find was added after it, and what an add that has run has added is
  there, and all host routes are the script's own. So no add finds what it adds:
  everything the script can add is found by one of the removals, which all come
  first, and no add comes twice. It does not matter what an earlier run has left.
  Where an address is repeated its second add may fail, which changes nothing, and
  the rest of the invariant holds all the same.
  `Final` is the same at the end; `AskedKinds` spells it out for each kind of
  entry.
- `Derived` says that the plan is what Detect makes of the addresses and routes it
  saw, until the operator edits it. That suffices for `GatewayReachable`, whatever
  became of the host in the meantime: a gateway is in a subnet that was seen, or
  it was flagged.
- `Grounded` says what has been compared with the host by which step of Detect, as
  long as nothing blocks and the host is as it was; `Preserved` itself speaks
  only of the end.
- `Reviewed` follows the evidence of DHCP from the judgement through the review to
  the installation. The proof needs that an edit which the form drops again is
  not an edit.
- `Refinement` has one part of its invariant for each thing that SafeInstall
  relies on. `Staged` says which files are whole at which step of the installer,
  in particular that kexec loads the initramfs that was just built; with it,
  `Numbered` says that every whole copy of an initramfs is that of some attempt,
  so the writer that is booted has a stamp to be judged by. `Stamped` relates the
  stamps to the clocks: an RTC is off as it was at the attempt or has been set
  since, so whichever clock accepts a manifest, it is no older than the limit.
  `Writing` carries FoundTrusted into the composition, together with which chunks
  are still as they were, because content may go from old to torn to new only,
  and with what the disk holds whenever Linux runs.
- `Latest` follows the initramfs of the latest attempt from the build directory to
  `/boot`, to the durable copy and to the kernel's slot. What was armed in this
  attempt finds its own initramfs there; the two exceptions of `LatestWriter` are
  the two ways in which this breaks.

Only model-checked: liveness (`AttemptEnds`, `HandOverHappens`, `WriterEnds`,
`PrepareEnds`, `DetectEnds`, `NoLimbo`), because the prover has no rules for
fairness and ENABLED. For four of them the rankings above are the part of the
argument that is about the code; what is missing is that a fair action is
enabled until the end is reached.

## Findings

Three statements of src/README.md that the code does not keep in full, each with
a run that shows the shortest way there.

1. *README.md:80, "Returned staging errors automatically unload a pending kexec
   image".* executeKexec believes the exit status of `kexec -l`. If Ctrl-C kills
   the command after the kernel has taken the image, the deferred unload is
   skipped (`install/stage.go:91`; run `unload_interrupted`). The image stays as
   well when an unload fails and the GRUB fallback then fails in executeGRUB:
   StageAndBoot returns only the latter error (`install/stage.go:70`), which is
   the exception in `KnownImageUnloaded`.
2. *The same line, "clear an armed GRUB entry".* An attempt that follows a killed
   one and fails in PrepareStage removes the staged initramfs but does not clear
   the entry that is still armed (`install/stage.go:387`; run `rerun`). The
   recovery commands of README.md:83 do clear it.
3. *README.md:64, "The target disk is derived from the filesystem backing `/`".*
   parseGraph keeps kernel names and mapper names in one map, so a mapping that
   was given the kernel name of the root partition is taken for it
   (`disk/detect.go:173`; run `session_misnamed`). The operator sees the wrong
   path in both confirmations.

### What the properties except

The exceptions are part of what the code does, and a reader of the properties
should know them.

- `LatestWriter` excepts an attempt that began with the entry armed, which
  PrepareStage does not clear, and one whose fallback lost power, because that
  path has no sync between the initramfs and the arming. Such a writer is that of
  an older attempt, and has its target and image; the manifest's age is what
  limits it, and `InstallsSafely` holds without exception.
- `ArmedSurvivesPowerCut` leaves the fallback out for the same reason.
- `CancelledLeavesOnlyStruck` excepts what a Ctrl-C during the cleanup's own
  grub-editenv or update-grub kept it from undoing; the error names it. An image
  that `kexec -u` did not unload is the subject of `KnownImageUnloaded`.
- `BusyNotWritten` speaks of what the writer can see when it looks. It does not
  cover a disk that is used through LVM, dm-crypt, md or btrfs, a use that begins
  after the look (the open has no O_EXCL, `install/writer_linux.go:53`), or a disk
  that takes the place of one that was unplugged.
- `RescueTargetUnused` on a live system is about what lies above the disk itself:
  a live root is no block device, parseGraph has nothing to look up, and a mapping
  that goes by the name of the root's source (`overlay`, say) is not in the model,
  whose misnamed mappings have kernel names.
- `NoLimbo` says that a machine does not stay for ever between the host and a
  writer that has not halted. A GRUB prompt, a disk that does not boot after a power
  cut and a halted writer are ends it admits; they wait for the operator.
- `Preserved` excepts default routes without a gateway (a point-to-point or
  VPN uplink) and the routes of a family in which the uplink has no global
  address: Detect drops them without a word. So does the script with an IPv4
  default route that is not the DHCP server's, and the host route to its gateway,
  if the uplink has a DHCP address (`network/routeros.go:39`): the gateway is in
  the plan the operator sees, but RouterOS gets only that of the lease (`Displaced`).
  Nothing blocks or asks for an acknowledgement. It says nothing of a network that
  changes while Detect looks, and nothing looks at the network again after
  the review.
- `Idempotent` excepts a plan that repeats an address, or has one IPv6 address in two
  spellings: Validate accepts it and the script adds it twice
  (`network/routeros.go:42`). The second add fails, and the script ends before it
  has set the routes and the servers, in every run. Only an edit
  repeats an address: those of a host differ in the model.
- `GatewayReachable` excepts an IPv4 gateway from 169.254.0.0/16. gatewayOutside
  takes a link-local gateway for reachable in both families
  (`network/detect.go:523`), so the plan is not flagged as off-link; the script
  binds an IPv6 one to the interface, an IPv4 one not (`network/routeros.go:49`).
  RouterOS can then look it up only if an address of the uplink is in that
  subnet. The proof asked for this exception; `link4` of `MCNetwork` shows it.
- `Acknowledged` accepts a lease file as proof of DHCP, however old it is; a stale
  one going wrong is a hazard that no property covers.
- `HashedIsFinal` excepts partitions that are still mounted because the umount of
  one that was passed over failed, which InjectAutorun ignores.
- `NothingElseMounted` excepts what Ctrl-C keeps from being unmounted: the umount
  runs under the context that Ctrl-C has just ended. That leftover is thus a hazard the
  property does not catch.
- Both clock properties except an RTC that is further off than a manifest can
  record: such a writer may be refused while fresh or accepted at any age.

Two details of the review are in the model and harmless: the form drops the IPv6
gateway of a plan without an IPv6 mode, and, because it turns a missing list of
IPv4 addresses into an empty one, an unedited IPv6-only plan is graded as edited
and must be acknowledged. Outside the model: Validate trims a gateway before it
parses it while the script prints it untrimmed; a link-local IPv4 DNS server can
carry no zone, so that Validate always refuses it; and the DHCP client that
RouterOS comes with stays where it is if the uplink is another interface.

## What is not modelled

- Parsing and formatting: VPD pages, `ip` and `lsblk` output, netplan and
  interfaces files, DHCP packets, the report. The models take their results as
  inputs of a few kinds.
- The other checks of Manifest.Validate and the blockers of the disk detection
  that compare one value with a constant; they can only refuse more.
- The arithmetic of space and memory (`resources.go`): sums of file sizes,
  far below the width of their integers.
- Temporary files left by a kill. They are never read.
- A 416 response to a download whose partial file is complete already. The
  attempt that gets it fails, which the model has; that all later ones get it
  as well is a matter of progress, which nothing promises.
- Preflight, the platform checks, installer.sh and the test programs: one pass
  without state that others share.
- The connection between `Network` or `Image` and `System`: they share nothing
  but that each must have succeeded before staging begins.

## What is left

Every safety property of a passing run is a theorem. What could still be said in
general are the steps by which `Network` and `Image` precede
`System`, and, with a prover for fairness, the liveness that the rankings
prepare. VPD parsing and the 416 response would need models of their own.
