-------------------------------- MODULE Writer --------------------------------
(***************************************************************************)
(* The RAM writer: RunWriter in src/internal/install/writer_linux.go with  *)
(* CopyImage and HashPrefix (write.go) and the choice of the target disk   *)
(* (FingerprintsMatch and SelectAuthorizedFingerprint in                   *)
(* src/internal/disk/fingerprint.go).                                      *)
(*                                                                         *)
(* The writer runs while the initramfs is still discovering devices: disks *)
(* appear in any order under any free kernel name and may vanish again.    *)
(* It finds its target by fingerprint but opens it by name, once to write  *)
(* and once to read back.  Other processes may mount a disk or take it out *)
(* of use at any time, also after the writer has looked for that.  Disks   *)
(* may lose or corrupt a write without an error, and the image in RAM may  *)
(* be damaged at any time.                                                 *)
(***************************************************************************)
EXTENDS Naturals, FiniteSets

CONSTANTS
    Disks,    \* the physical disks
    Target,   \* the one the operator authorized
    Names,    \* kernel names, each with its major:minor
    HostName, \* the name Target had on the host
    Looks,    \* what sysfs may say of a disk, see LookType
    Uses,     \* how others may come to use a disk, see UseType
    Chunks,   \* the number of chunks of the image
    Faults,   \* the steps whose system calls may fail
    Unplugs,  \* may disks vanish?
    Lossy,    \* may a disk lose or corrupt a write silently?
    Corrupts  \* may the image in RAM change?

None == "none"

\* A disk that reports no logical-unit identity has id None.
\* FingerprintFromSysfs fills either the WWN or the serial, never both.
LookType == [size: Nat \ {0}, id: STRING, driver: STRING]

\* A filesystem or swap on the disk itself or on a partition of it, or a use that
\* the kernel knows by another device number: a logical volume, dm-crypt, md, btrfs.
UseType == {"mount", "swap", "layered"}

Blocks   == 1 .. Chunks
Contents == {"old", "image", "bad"}

ASSUME DisksAssumption == Target \in Disks /\ None \notin Disks
ASSUME FiniteAssumption == IsFiniteSet(Disks)
ASSUME NamesAssumption == HostName \in Names /\ None \notin Names
ASSUME LooksAssumption == Looks # {} /\ \A l \in Looks : l \in LookType
ASSUME UsesAssumption == Uses \subseteq UseType
ASSUME ChunksAssumption == Chunks \in Nat \ {0}
ASSUME WriterFlagsAssumption == {Unplugs, Lossy, Corrupts} \subseteq BOOLEAN

Working == {"manifest", "hash", "wait", "unmounted", "swaps", "open", "copy",
            "sync", "close", "reopen", "flush", "verify", "reboot"}

VARIABLES
    expected, \* manifest.Disk: what sysfs said of Target on the host
    look,     \* what sysfs says of each disk in the writer
    place,    \* the kernel name of each disk, None while it is not there
    use,      \* how each disk is used, None if it is not
    inUse,    \* the disks mounted, or used for swap, when the writer looked (history)
    media,    \* what is on each disk, per chunk of the image
    step,     \* where RunWriter is
    expired,  \* has the deadline of waitForFingerprint passed?
    path,     \* targetPath
    swapped,  \* was a disk unplugged between waitForFingerprint and open?
    alone,    \* was Target absent when targetPath was found?
    target,   \* the disk that was opened for writing, None once it is lost
    chunk,    \* the next chunk to copy
    hashed,   \* is everything CopyImage has hashed as authorized?
    cache,    \* the page cache of target, None for what is not cached
    dirty,    \* the cached chunks still to be written to target
    readback, \* the disk that was opened for reading
    source    \* the image in RAM

world   == <<expected, look>>
finding == <<expired, path, swapped, alone>>
others  == <<use, inUse>>
copying == <<target, chunk, hashed, cache, dirty>>
vars    == <<world, place, others, media, step, finding, copying, readback, source>>

TypeOK ==
    /\ expected \in Looks
    /\ look \in [Disks -> Looks]
    /\ place \in [Disks -> Names \cup {None}]
    /\ use \in [Disks -> Uses \cup {None}]
    /\ inUse \subseteq Disks
    /\ media \in [Disks -> [Blocks -> Contents]]
    /\ step \in Working \cup {"halted", "rebooted"}
    /\ expired \in BOOLEAN
    /\ path \in Names \cup {None}
    /\ swapped \in BOOLEAN
    /\ alone \in BOOLEAN
    /\ target \in Disks \cup {None}
    /\ chunk \in 1 .. Chunks + 1
    /\ hashed \in BOOLEAN
    /\ cache \in [Blocks -> Contents \cup {None}]
    /\ dirty \subseteq Blocks
    /\ readback \in Disks \cup {None}
    /\ source \in [Blocks -> {"image", "bad"}]

NotCached == [b \in Blocks |-> None]

\* An identity belongs to one disk; Target may have lost or changed its own
\* since the manifest was written.
UniqueIds ==
    /\ \A d, e \in Disks : look[d].id = look[e].id => d = e \/ look[d].id = None
    /\ \A d \in Disks \ {Target} : look[d].id = expected.id => look[d].id = None

Init ==
    /\ expected \in Looks
    /\ look \in [Disks -> Looks]
    /\ UniqueIds
    /\ place = [d \in Disks |-> None]
    /\ use = [d \in Disks |-> None]
    /\ inUse = {}
    /\ media = [d \in Disks |-> [b \in Blocks |-> "old"]]
    /\ step = "manifest"
    /\ expired = FALSE
    /\ path = None
    /\ swapped = FALSE
    /\ alone = FALSE
    /\ target = None
    /\ chunk = 1
    /\ hashed = TRUE
    /\ cache = NotCached
    /\ dirty = {}
    /\ readback = None
    /\ source = [b \in Blocks |-> "image"]

-----------------------------------------------------------------------------
(* Choosing the target.                                                    *)

Stable == expected.id # None

\* Mutant: a recorded identity that the candidate lacks is not held against it.
FingerprintsMatch_Degrades(d) ==
    /\ look[d].size = expected.size
    /\ IF Stable /\ look[d].id # None
       THEN look[d].id = expected.id
       ELSE place[d] = HostName
    /\ expected.driver # None => look[d].driver = expected.driver

\* Without an identity the manifest's driver must be known as well.
FingerprintsMatch(d) ==
    /\ look[d].size = expected.size
    /\ IF Stable
       THEN look[d].id = expected.id
       ELSE place[d] = HostName /\ expected.driver # None
    /\ expected.driver # None => look[d].driver = expected.driver

\* SysfsDisks: the disks visible at this moment.
Candidates == {d \in Disks : place[d] # None}

\* Mutant: the fallback does not insist on a single disk.
Authorized_AnyNumber ==
    LET matches == {d \in Candidates : FingerprintsMatch(d)}
    IN  IF Cardinality(matches) = 1 THEN matches ELSE {}

\* SelectAuthorizedFingerprint: the authorized disk, if there is exactly one.
Authorized ==
    LET matches == {d \in Candidates : FingerprintsMatch(d)}
    IN  IF Cardinality(matches) = 1 /\ (Stable \/ Cardinality(Candidates) = 1)
        THEN matches
        ELSE {}

\* The disk a device path leads to, if any.
At(name) == {d \in Disks : place[d] = name}

-----------------------------------------------------------------------------
(* RunWriter, step by step.  Every error ends in HaltWriter, for good.     *)

Halt == step' = "halted"

\* The step may fail in one of its system calls.
MayFail == step \in Faults /\ Halt

\* ReadManifest, which also validates what it reads.
ReadManifest ==
    /\ step = "manifest"
    /\ step' = "hash" \/ MayFail
    /\ UNCHANGED <<world, place, others, media, finding, copying, readback, source>>

HashImage ==
    /\ step = "hash"
    /\ \/ step' = "wait" /\ \A b \in Blocks : source[b] = "image"
       \/ Halt /\ \E b \in Blocks : source[b] # "image"
       \/ MayFail
    /\ UNCHANGED <<world, place, others, media, finding, copying, readback, source>>

Deadline ==
    /\ step = "wait"
    /\ ~expired
    /\ expired' = TRUE
    /\ UNCHANGED <<world, place, others, media, step, path, swapped, alone, copying, readback, source>>

\* Mutants: waitForFingerprint returns the identity instead of the path, ...
WaitForFingerprint_Identity ==
    /\ step = "wait"
    /\ \E d \in Authorized : path' = look[d].id
    /\ alone' = (place[Target] = None)
    /\ step' = "unmounted"
    /\ UNCHANGED <<world, place, others, media, expired, swapped, copying, readback, source>>

\* ... or has no deadline.
WaitForFingerprint_Forever ==
    /\ step = "wait"
    /\ \E d \in Authorized : path' = place[d]
    /\ alone' = (place[Target] = None)
    /\ step' = "unmounted"
    /\ UNCHANGED <<world, place, others, media, expired, swapped, copying, readback, source>>

\* waitForFingerprint gives up after the first failed attempt past its deadline.
WaitForFingerprint ==
    /\ step = "wait"
    /\ \/ /\ \E d \in Authorized : path' = place[d]
          /\ alone' = (place[Target] = None)
          /\ step' = "unmounted"
       \/ /\ expired
          /\ Authorized = {} \/ step \in Faults
          /\ Halt
          /\ UNCHANGED <<path, alone>>
    /\ UNCHANGED <<world, place, others, media, expired, swapped, copying, readback, source>>

\* The disks that others use in this way, as the writer looks.
Used(how) == {d \in Disks : use[d] = how}

\* Mutant: mounted filesystems are not looked for.
EnsureUnmounted_Skipped ==
    /\ step = "unmounted"
    /\ inUse' = Used("mount")
    /\ step' = "swaps" \/ MayFail
    /\ UNCHANGED <<world, place, use, media, finding, copying, readback, source>>

\* ensureUnmounted first reads mountinfo for the device numbers of the disk and its
\* partitions.  It finds nothing on a device that is not there any more.
EnsureUnmounted ==
    /\ step = "unmounted"
    /\ inUse' = Used("mount")
    /\ \/ step' = "swaps" /\ At(path) \cap Used("mount") = {}
       \/ Halt /\ At(path) \cap Used("mount") # {}
       \/ MayFail
    /\ UNCHANGED <<world, place, use, media, finding, copying, readback, source>>

\* Then it reads /proc/swaps for the same numbers.
EnsureNoSwap ==
    /\ step = "swaps"
    /\ inUse' = inUse \cup Used("swap")
    /\ \/ step' = "open" /\ At(path) \cap Used("swap") = {}
       \/ Halt /\ At(path) \cap Used("swap") # {}
       \/ MayFail
    /\ UNCHANGED <<world, place, use, media, finding, copying, readback, source>>

\* Stat and OpenFile, by name.
OpenTarget ==
    /\ step = "open"
    /\ \/ \E d \in At(path) : target' = d /\ step' = "copy"
       \/ At(path) = {} /\ Halt /\ UNCHANGED target
       \/ MayFail /\ UNCHANGED target
    /\ UNCHANGED <<world, place, others, media, finding, chunk, hashed, cache, dirty, readback, source>>

\* One round of CopyImage: read a chunk, hash it and write it.  A failed write
\* may have written part of the chunk.
CopyChunk ==
    /\ step = "copy"
    /\ \/ /\ target # None
          /\ hashed' = (hashed /\ source[chunk] = "image")
          /\ cache' = [cache EXCEPT ![chunk] = source[chunk]]
          /\ dirty' = dirty \cup {chunk}
          /\ chunk' = chunk + 1
          /\ step' = IF chunk = Chunks THEN "sync" ELSE "copy"
       \/ /\ target # None /\ MayFail
          /\ cache' = [cache EXCEPT ![chunk] = "bad"]
          /\ dirty' = dirty \cup {chunk}
          /\ UNCHANGED <<chunk, hashed>>
       \/ /\ (target = None /\ Halt) \/ MayFail
          /\ UNCHANGED <<chunk, hashed, cache, dirty>>
    /\ UNCHANGED <<world, place, others, media, finding, target, readback, source>>

\* target.Sync returns nil when everything has been written, as far as the
\* disk says.
SyncTarget ==
    /\ step = "sync"
    /\ \/ step' = "close" /\ target # None /\ dirty = {}
       \/ Halt /\ target = None
       \/ MayFail
    /\ UNCHANGED <<world, place, others, media, finding, copying, readback, source>>

\* target.Close and the comparison of what CopyImage has hashed.  The kernel
\* drops its cache with the last user of the device, which may be somebody else.
CloseTarget ==
    /\ step = "close"
    /\ \/ step' = "reopen" /\ hashed
       \/ Halt /\ ~hashed
       \/ MayFail
    /\ cache' \in {cache, NotCached}
    /\ UNCHANGED <<world, place, others, media, finding, target, chunk, hashed, dirty, readback, source>>

\* os.Open, by name again.
Reopen ==
    /\ step = "reopen"
    /\ \/ \E d \in At(path) : readback' = d /\ step' = "flush"
       \/ At(path) = {} /\ Halt /\ UNCHANGED readback
       \/ MayFail /\ UNCHANGED readback
    /\ UNCHANGED <<world, place, others, media, finding, copying, source>>

\* Mutant: BLKFLSBUF is not called.
Flush_Skipped ==
    /\ step = "flush"
    /\ step' = "verify"
    /\ UNCHANGED <<world, place, others, media, finding, copying, readback, source>>

\* The BLKFLSBUF call drops what is cached of the device.
Flush ==
    /\ step = "flush"
    /\ \/ /\ readback # None
          /\ step' = "verify"
          /\ cache' = IF readback = target THEN NotCached ELSE cache
       \/ /\ (readback = None /\ Halt) \/ MayFail
          /\ UNCHANGED cache
    /\ UNCHANGED <<world, place, others, media, finding, target, chunk, hashed, dirty, readback, source>>

\* What a read of the device returns.
ReadBlock(b) ==
    IF readback = target /\ cache[b] # None THEN cache[b] ELSE media[readback][b]

\* HashPrefix and the comparison with the manifest.
Verify ==
    /\ step = "verify"
    /\ \/ readback # None /\ step' = "reboot" /\ \A b \in Blocks : ReadBlock(b) = "image"
       \/ readback # None /\ Halt /\ \E b \in Blocks : ReadBlock(b) # "image"
       \/ readback = None /\ Halt
       \/ MayFail
    /\ UNCHANGED <<world, place, others, media, finding, copying, readback, source>>

Reboot ==
    /\ step = "reboot"
    /\ step' = "rebooted" \/ MayFail
    /\ UNCHANGED <<world, place, others, media, finding, copying, readback, source>>

RunWriter ==
    \/ ReadManifest \/ HashImage \/ WaitForFingerprint \/ EnsureUnmounted
    \/ EnsureNoSwap \/ OpenTarget \/ CopyChunk \/ SyncTarget \/ CloseTarget
    \/ Reopen \/ Flush \/ Verify \/ Reboot

-----------------------------------------------------------------------------
(* The kernel and the hardware.                                            *)

\* A dirty chunk is written.  A lossy disk may keep what it had or something
\* else, and does not say so.
WriteBack ==
    /\ \E b \in dirty :
          /\ dirty' = dirty \ {b}
          /\ \E c \in {cache[b]} \cup (IF Lossy THEN {"bad", media[target][b]} ELSE {}) :
                media' = [media EXCEPT ![target][b] = c]
    /\ UNCHANGED <<world, place, others, step, finding, target, chunk, hashed, cache, readback, source>>

\* A disk is discovered under some free name.
Appear ==
    /\ step \in Working
    /\ \E d \in Disks, n \in Names :
          /\ place[d] = None
          /\ At(n) = {}
          /\ place' = [place EXCEPT ![d] = n]
    /\ UNCHANGED <<world, others, media, step, finding, copying, readback, source>>

\* A disk vanishes: what is open of it is dead, what is cached is lost.
Unplug ==
    /\ Unplugs
    /\ step \in Working
    /\ \E d \in Disks :
          /\ place[d] # None
          /\ place' = [place EXCEPT ![d] = None]
          /\ IF target = d
             THEN target' = None /\ cache' = NotCached /\ dirty' = {}
             ELSE UNCHANGED <<target, cache, dirty>>
          /\ readback' = IF readback = d THEN None ELSE readback
          /\ use' = [use EXCEPT ![d] = None]
    /\ swapped' = (swapped \/ step \in {"unmounted", "swaps", "open"})
    /\ UNCHANGED <<world, inUse, media, step, expired, path, alone, chunk, hashed, source>>

\* Another process begins to use the disk at targetPath in some way or gives it up,
\* before the writer looks or after.  Uses that begin once it is open are left out:
\* nothing keeps them out and the writer does not look again.
ChangeUse ==
    /\ step \in {"unmounted", "swaps", "open"}
    /\ \E d \in At(path), how \in Uses \cup {None} :
          /\ how # use[d]
          /\ use' = [use EXCEPT ![d] = how]
    /\ UNCHANGED <<world, place, inUse, media, step, finding, copying, readback, source>>

\* The image in RAM is damaged, while it matters.
Corrupt ==
    /\ Corrupts
    /\ step \in {"manifest", "hash", "wait", "unmounted", "swaps", "open", "copy"}
    /\ \E b \in Blocks :
          /\ source[b] = "image"
          /\ source' = [source EXCEPT ![b] = "bad"]
    /\ UNCHANGED <<world, place, others, media, step, finding, copying, readback>>

Next == RunWriter \/ Deadline \/ WriteBack \/ Appear \/ Unplug \/ ChangeUse \/ Corrupt

Spec == Init /\ [][Next]_vars

\* The writer's calls return, its clock runs and the kernel writes what is dirty.
FairSpec == Spec /\ WF_vars(RunWriter) /\ WF_vars(Deadline) /\ WF_vars(WriteBack)

-----------------------------------------------------------------------------
(* Properties.                                                             *)

\* Has the writer written to this disk?
Written(d) ==
    \/ \E b \in Blocks : media[d][b] # "old"
    \/ d = target /\ dirty # {}

\* README: a stable identity recorded before the reboot never degrades to the
\* single-disk fallback.  A disk is written only if it is the authorized one and
\* still shows the recorded identity, however many disks appear in whatever
\* order.  The one gap is a disk that is unplugged after it was found.
OnlyTargetWritten ==
    Stable /\ ~swapped =>
        \A d \in Disks : Written(d) => d = Target /\ look[d].id = expected.id

\* Without a stable identity the writer may take another disk for its target
\* only if the target was not there when it looked.
FallbackNeedsAbsence ==
    ~Stable /\ ~swapped =>
        \A d \in Disks : Written(d) => d = Target \/ alone

\* A disk that was mounted when the writer read mountinfo, or used for swap when
\* it read /proc/swaps, is never written.  The exceptions are a use that shows
\* another device number (UseType), which the code does not see, one that begins
\* after the look, and a disk that is unplugged between finding and opening.
BusyNotWritten == ~swapped => \A d \in inUse : ~Written(d)

\* README: a failed read-back halts the writer instead of rebooting.  When the
\* machine is rebooted, some disk holds the whole image, on its medium and not
\* just in the page cache, whatever the disks lost, whichever disk answered to
\* the name and whenever the image in RAM was damaged.
RebootVerified ==
    step = "rebooted" => \E d \in Disks : \A b \in Blocks : media[d][b] = "image"

\* The writer always ends, in a reboot or halted; it does not wait forever for
\* a disk that does not come.
WriterEnds == <>(step \in {"halted", "rebooted"})

=============================================================================
