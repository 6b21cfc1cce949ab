--------------------------------- MODULE Image ---------------------------------
(***************************************************************************)
(* Preparing the image: extractImage, Inspect and InjectAutorun            *)
(* (src/internal/mikrotik/client.go and image.go), after the download of   *)
(* Release.                                                                *)
(*                                                                         *)
(* The image is a file; its Linux partitions are mounted through it, one   *)
(* after the other, until one has the directory for autorun.scr.  What is  *)
(* written to a mounted partition reaches the file when the kernel likes   *)
(* to, and at the latest when it is unmounted.  mount and umount run under *)
(* the context of the session, which Ctrl-C ends.                          *)
(***************************************************************************)
EXTENDS Release, SequencesExt

CONSTANTS
    Slots,   \* the number of entries of the partition table
    Entries, \* the entries it may have, see Partition
    Sectors  \* the size of the image

ASSUME SlotsAssumption == {Slots, Sectors} \subseteq Nat \ {0}

Index     == 1 .. Slots
Partition == [type: {"none", "linux", "other"}, flag: BOOLEAN, start: Nat, sectors: Nat]

ASSUME EntriesAssumption == Entries \subseteq Partition

VARIABLES
    stage,   \* where Prepare is after the download
    table,   \* the partition table of the image
    current, \* the partition under consideration
    image,   \* what is in each partition of the file
    cache,   \* what is in it as the kernel sees it while it is mounted
    mounts,  \* the partitions that are mounted
    kept,    \* those whose umount has not run to its end
    hashed   \* what was in the file when its checksum was taken

imageVars == <<stage, table, current, image, cache, mounts, kept, hashed>>
allVars   == <<vars, imageVars>>

\* "touched" by mounting it, with a "part" of the script, or the whole of it.
Contents == {"shipped", "touched", "part", "script"}

ImageTypeOK ==
    /\ TypeOK
    /\ stage \in {"extract", "mount", "look", "skip", "abandon", "close", "hash",
                  "prepared", "refused"}
    /\ table \in [Index -> Partition]
    /\ current \in 0 .. Slots
    /\ {image, cache, hashed} \subseteq [Index -> Contents]
    /\ mounts \subseteq Index /\ kept \subseteq Index

Unused == [type |-> "none", flag |-> TRUE, start |-> 0, sectors |-> 0]

ImageInit ==
    /\ stage = "extract"
    /\ table = [i \in Index |-> Unused]
    /\ current = 0
    /\ image = [i \in Index |-> "shipped"]
    /\ cache = image /\ hashed = image
    /\ mounts = {} /\ kept = {}

-----------------------------------------------------------------------------
(* Inspect.                                                                *)

Used(t) == {i \in Index : t[i].type # "none" /\ t[i].sectors > 0}
End(e)  == e.start + e.sectors

\* The partitions in the order of their starts.  sort.Slice may leave those that
\* start together in either order.
Orders(t) ==
    {order \in SetToSeqs(Used(t)) :
        \A m, n \in DOMAIN order : m < n => t[order[m]].start <= t[order[n]].start}

\* Mutant: the last sector of a partition may be the first of the next.
Follows_OffByOne(e, f) == f.start + 1 >= End(e)

Follows(e, f) == f.start >= End(e)

\* Partitions lie behind the first sector and inside the image, and in the order
\* of their starts none begins before its predecessor ends.
Accepted(t) ==
    /\ Used(t) # {}
    /\ \A i \in Used(t) : t[i].flag /\ t[i].start >= 1 /\ End(t[i]) <= Sectors
    /\ \E order \in Orders(t) :
          \A n \in 2 .. Len(order) : Follows(t[order[n - 1]], t[order[n]])

\* extractImage, Inspect and RouterOSScript, any of which may fail.
Extract ==
    /\ step = "verified" /\ stage = "extract"
    /\ \/ stage' = "refused" /\ UNCHANGED table
       \/ \E t \in [Index -> Entries] :
             /\ Accepted(t)
             /\ table' = t /\ stage' = "mount"
    /\ UNCHANGED <<vars, current, image, cache, mounts, kept, hashed>>

-----------------------------------------------------------------------------
(* InjectAutorun.                                                          *)

Remaining == {i \in Used(table) : table[i].type = "linux" /\ i > current}
Upcoming  == {i \in Remaining : \A j \in Remaining : i <= j}

\* No Linux partition is left, or the directory for the mount cannot be made.
GiveUp ==
    /\ stage = "mount"
    /\ stage' = "refused"
    /\ UNCHANGED <<vars, table, current, image, cache, mounts, kept, hashed>>

\* mount fails and the next partition has its turn, or it succeeds.  If Ctrl-C
\* kills it after it has mounted, nothing will be unmounted.
Mount ==
    /\ stage = "mount"
    /\ current' \in Upcoming
    /\ \/ UNCHANGED <<stage, cancelled, mounts, kept, cache>>
       \/ /\ ~cancelled
          /\ mounts' = mounts \cup {current'}
          /\ cache' = [cache EXCEPT ![current'] = "touched"]
          /\ \/ stage' = "look" /\ UNCHANGED <<cancelled, kept>>
             \/ cancelled' = TRUE /\ kept' = kept \cup {current'} /\ UNCHANGED stage
    /\ UNCHANGED <<step, attempt, partial, answer, archive, table, image, hashed>>

\* Mutant: nothing is unmounted when autorun.scr is a symbolic link.
Look_LinkStays ==
    /\ stage = "look"
    /\ \/ stage' \in {"skip", "refused"} /\ UNCHANGED cache
       \/ stage' = "abandon" /\ cache' \in {cache, [cache EXCEPT ![current] = "part"]}
       \/ stage' = "close" /\ cache' = [cache EXCEPT ![current] = "script"]
    /\ UNCHANGED <<vars, table, current, image, mounts, kept, hashed>>

\* There is no directory /rw; autorun.scr is a symbolic link or cannot be written
\* to its end; or it is written, synced and closed.
Look ==
    /\ stage = "look"
    /\ \/ stage' = "skip" /\ UNCHANGED cache
       \/ stage' = "abandon" /\ cache' \in {cache, [cache EXCEPT ![current] = "part"]}
       \/ stage' = "close" /\ cache' = [cache EXCEPT ![current] = "script"]
    /\ UNCHANGED <<vars, table, current, image, mounts, kept, hashed>>

\* Mutant: the failure of umount is not looked at.
AfterFailure_Ignored == IF stage = "close" THEN "hash" ELSE "refused"

\* A failed umount ends the injection, unless the partition is passed over.
AfterFailure == IF stage = "skip" THEN "mount" ELSE "refused"

\* umount, which Ctrl-C keeps from running or kills before or after its work.
Unmount ==
    /\ stage \in {"skip", "abandon", "close"}
    /\ \/ /\ ~cancelled
          /\ stage' = CASE stage = "skip" -> "mount" [] stage = "abandon" -> "refused"
                        [] stage = "close" -> "hash"
          /\ mounts' = mounts \ {current}
       \/ /\ stage' = AfterFailure
          /\ mounts' \in {mounts, mounts \ {current}}
    /\ image' = IF current \in mounts' THEN image ELSE [image EXCEPT ![current] = cache[current]]
    /\ kept' = IF current \in mounts' THEN kept \cup {current} ELSE kept
    /\ UNCHANGED <<vars, table, current, cache, hashed>>

\* HashFile, whose checksum goes into the manifest.
Hash ==
    /\ stage = "hash"
    /\ \/ stage' = "prepared" /\ hashed' = image
       \/ stage' = "refused" /\ UNCHANGED hashed
    /\ UNCHANGED <<vars, table, current, image, cache, mounts, kept>>

\* The kernel writes back what is mounted, at any time.
WriteBack ==
    /\ \E i \in mounts : image' = [image EXCEPT ![i] = cache[i]]
    /\ UNCHANGED <<vars, stage, table, current, cache, mounts, kept, hashed>>

Injector == Extract \/ GiveUp \/ Mount \/ Look \/ Unmount \/ Hash

PrepareNext ==
    \/ Next /\ UNCHANGED imageVars
    \/ Injector \/ WriteBack

PrepareInit == Init /\ ImageInit

\* Requests and commands come back.
PrepareSpec ==
    /\ PrepareInit
    /\ [][PrepareNext]_allVars
    /\ WF_allVars(Client /\ UNCHANGED imageVars) /\ WF_allVars(Injector)

-----------------------------------------------------------------------------
(* Properties.                                                             *)

\* That neighbours do not overlap is enough for all: whatever order the table
\* lists them in, no two partitions that may be mounted share a sector, and none
\* has the sector of the table itself.
LayoutDisjoint ==
    \A i, j \in Used(table) :
        /\ 1 <= table[i].start /\ End(table[i]) <= Sectors
        /\ i # j => End(table[i]) <= table[j].start \/ End(table[j]) <= table[i].start

\* The checksum in the manifest is of what gets staged: when the image has been
\* prepared then the whole script is in just one partition of the file, which is
\* not mounted any more, and the file can only change where the umount of a
\* partition that was passed over failed.
HashedIsFinal ==
    stage = "prepared" =>
        /\ image[current] = "script" /\ current \notin mounts
        /\ \A i \in Index \ {current} : image[i] \in {"shipped", "touched"}
        /\ \A i \in Index \ mounts : hashed[i] = image[i]

\* However Prepare ends, what it leaves mounted is what a failed or cancelled
\* umount, or a killed mount, left.
NothingElseMounted == stage \in {"prepared", "refused"} => mounts \subseteq kept

\* The download and the injection come to an end.
PrepareEnds == <>(step = "failed" \/ stage \in {"prepared", "refused"})

=============================================================================
