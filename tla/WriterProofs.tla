----------------------------- MODULE WriterProofs -----------------------------
(***************************************************************************)
(* Theorems about Writer, for every set of disks, names and looks, every   *)
(* number of chunks and every choice of failing steps.                     *)
(***************************************************************************)
EXTENDS Writer, FiniteSetTheorems, TLAPS

(* TypeOK is not inductive: that the chunk to copy is one of the image, and  *)
(* that what is dirty is cached and belongs to a disk that is there, keeps   *)
(* the types.                                                                *)
CopyInRange ==
    /\ step \in {"manifest", "hash", "wait", "unmounted", "swaps", "open", "copy"} => chunk \in Blocks
    /\ dirty # {} => target # None
    /\ \A b \in dirty : cache[b] # None
    /\ step \in {"close", "reopen", "flush", "verify", "reboot", "rebooted"} => dirty = {}

Typed == TypeOK /\ CopyInRange

LEMMA TypeInit == Init => Typed
<1> SUFFICES ASSUME Init PROVE Typed
  OBVIOUS
<1> USE ChunksAssumption, NamesAssumption, DisksAssumption, UsesAssumption
    DEF Init, Blocks, Contents
<1>1. media \in [Disks -> [Blocks -> Contents]]
  OBVIOUS
<1>2. cache \in [Blocks -> Contents \cup {None}] /\ source \in [Blocks -> {"image", "bad"}]
  BY DEF NotCached
<1>3. chunk \in Blocks /\ chunk \in 1 .. Chunks + 1
  OBVIOUS
<1> QED
  BY <1>1, <1>2, <1>3 DEF Typed, TypeOK, CopyInRange, Working

LEMMA TypeNext == Typed /\ [Next]_vars => Typed'
<1> SUFFICES ASSUME Typed, [Next]_vars PROVE Typed'
  OBVIOUS
<1> USE ChunksAssumption, NamesAssumption, DisksAssumption
    DEF Typed, TypeOK, CopyInRange, Working, world, others, finding, copying, Halt, MayFail
<1>1. CASE ReadManifest
  BY <1>1 DEF ReadManifest
<1>2. CASE HashImage
  BY <1>2 DEF HashImage
<1>3. CASE Deadline
  BY <1>3 DEF Deadline
<1>4. CASE WaitForFingerprint
  BY <1>4 DEF WaitForFingerprint, Authorized, Candidates
<1>5. CASE EnsureUnmounted \/ EnsureNoSwap
  BY <1>5 DEF EnsureUnmounted, EnsureNoSwap, Used
<1>6. CASE OpenTarget
  BY <1>6 DEF OpenTarget, At
<1>7. CASE CopyChunk
  <2>1. chunk \in Blocks /\ step = "copy"
    BY <1>7 DEF CopyChunk
  <2>2. cache' \in [Blocks -> Contents \cup {None}] /\ dirty' \subseteq Blocks
    BY <1>7, <2>1 DEF CopyChunk, Contents
  <2>3. chunk' \in 1 .. Chunks + 1 /\ (step' = "copy" => chunk' \in Blocks)
    BY <1>7, <2>1 DEF CopyChunk, Blocks
  <2>4. (dirty' # {} => target' # None) /\ \A b \in dirty' : cache'[b] # None
    <3>1. dirty' # {} => target' # None
      BY <1>7 DEF CopyChunk
    <3>2. /\ \A b \in Blocks : b # chunk => cache'[b] = cache[b]
          /\ cache'[chunk] # None \/ dirty' = dirty
          /\ dirty' \subseteq dirty \cup {chunk}
      BY <1>7, <2>1 DEF CopyChunk, None
    <3>3. dirty' = dirty => cache' = cache \/ cache'[chunk] # None
      BY <1>7, <2>1 DEF CopyChunk, None
    <3> QED
      BY <2>1, <3>1, <3>2, <3>3
  <2> QED
    BY <1>7, <2>2, <2>3, <2>4 DEF CopyChunk
<1>8. CASE SyncTarget
  BY <1>8 DEF SyncTarget
<1>9. CASE CloseTarget
  BY <1>9 DEF CloseTarget, NotCached
<1>10. CASE Reopen
  BY <1>10 DEF Reopen, At
<1>11. CASE Flush
  BY <1>11 DEF Flush, NotCached
<1>12. CASE Verify
  BY <1>12 DEF Verify
<1>13. CASE Reboot
  BY <1>13 DEF Reboot
<1>14. CASE WriteBack
  <2>1. PICK b \in dirty : 
           /\ dirty' = dirty \ {b}
           /\ \E c \in {cache[b], "bad", media[target][b]} :
                 media' = [media EXCEPT ![target][b] = c]
    BY <1>14 DEF WriteBack
  <2>2. PICK c \in {cache[b], "bad", media[target][b]} : media' = [media EXCEPT ![target][b] = c]
    BY <2>1
  <2>3. target \in Disks /\ c \in Contents
    BY <2>1, <2>2 DEF Contents
  <2>4. media' \in [Disks -> [Blocks -> Contents]]
    BY <2>2, <2>3
  <2> QED
    BY <1>14, <2>1, <2>4 DEF WriteBack
<1>15. CASE Appear
  BY <1>15 DEF Appear
<1>16. CASE Unplug
  BY <1>16 DEF Unplug, NotCached
<1>17. CASE Corrupt
  BY <1>17 DEF Corrupt
<1>18. CASE UNCHANGED vars
  BY <1>18 DEF vars
<1>19. CASE ChangeUse
  BY <1>19 DEF ChangeUse, At
<1> QED
  BY <1>1, <1>2, <1>3, <1>4, <1>5, <1>6, <1>7, <1>8, <1>9, <1>10, <1>11, <1>12, <1>13, <1>14,
     <1>15, <1>16, <1>17, <1>18, <1>19 DEF Next, RunWriter

(* Every reachable state of the writer has the expected types.             *)
THEOREM WriterTypeCorrect == Spec => []TypeOK
<1>1. Spec => []Typed
  BY TypeInit, TypeNext, PTL DEF Spec
<1> QED
  BY <1>1, PTL DEF Typed

-----------------------------------------------------------------------------
(* The read-back reads the medium: nothing of the disk is cached by then.    *)
MediumRead ==
    /\ step \in {"verify", "reboot"} /\ readback = target /\ target # None
          => cache = NotCached
    /\ step \in {"reboot", "rebooted"} => \E d \in Disks : \A b \in Blocks : media[d][b] = "image"

LEMMA MediumReadNext == Typed /\ MediumRead /\ [Next]_vars => MediumRead'
<1> SUFFICES ASSUME Typed, MediumRead, [Next]_vars PROVE MediumRead'
  OBVIOUS
<1> USE DEF Typed, TypeOK, CopyInRange, MediumRead, world, others, finding, copying, Halt, MayFail
<1>1. CASE ReadManifest \/ HashImage \/ Deadline \/ WaitForFingerprint \/ EnsureUnmounted
           \/ EnsureNoSwap \/ ChangeUse \/ OpenTarget \/ CopyChunk \/ SyncTarget \/ CloseTarget \/ Reopen
  <2>1. step' \notin {"verify", "reboot", "rebooted"}
    BY <1>1 DEF ReadManifest, HashImage, Deadline, WaitForFingerprint, EnsureUnmounted,
                EnsureNoSwap, ChangeUse, OpenTarget, CopyChunk, SyncTarget, CloseTarget, Reopen
  <2> QED
    BY <2>1
<1>2. CASE Flush
  BY <1>2 DEF Flush
<1>3. CASE Verify
  <2>1. UNCHANGED <<media, cache, target, readback>>
    BY <1>3 DEF Verify
  <2>2. ASSUME step' = "reboot" PROVE \A b \in Blocks : media[readback][b] = "image"
    BY <1>3, <2>2 DEF Verify, ReadBlock, NotCached
  <2>3. step' = "reboot" => readback \in Disks
    BY <1>3 DEF Verify
  <2> QED
    BY <1>3, <2>1, <2>2, <2>3 DEF Verify
<1>4. CASE Reboot
  BY <1>4 DEF Reboot
<1>5. CASE WriteBack
  BY <1>5 DEF WriteBack
<1>6. CASE Appear
  BY <1>6 DEF Appear
<1>7. CASE Unplug
  BY <1>7 DEF Unplug
<1>8. CASE Corrupt
  BY <1>8 DEF Corrupt
<1>9. CASE UNCHANGED vars
  BY <1>9 DEF vars
<1> QED
  BY <1>1, <1>2, <1>3, <1>4, <1>5, <1>6, <1>7, <1>8, <1>9 DEF Next, RunWriter

(* The writer reboots the machine only when the medium of some disk holds    *)
(* the whole image, whatever was lost, damaged or unplugged on the way.      *)
THEOREM Verified == Spec => []RebootVerified
<1>1. Init => MediumRead
  BY DEF Init, MediumRead
<1>2. Spec => []Typed
  BY TypeInit, TypeNext, PTL DEF Spec
<1>3. Spec => []MediumRead
  BY <1>1, <1>2, MediumReadNext, PTL DEF Spec
<1>4. MediumRead => RebootVerified
  BY DEF MediumRead, RebootVerified
<1> QED
  BY <1>3, <1>4, PTL

-----------------------------------------------------------------------------
(* What the writer knows of the disk it found, opened or has written to, as  *)
(* long as no disk was unplugged between finding and opening it.             *)
Identified(d) == Stable => d = Target /\ look[d].id = expected.id

OneName == \A d, e \in Disks : place[d] = place[e] /\ place[d] # None => d = e

FoundTrusted ==
    /\ UniqueIds /\ OneName
    /\ ~swapped =>
          /\ step \in {"unmounted", "swaps", "open"} =>
                \E d \in Disks : place[d] = path /\ path # None /\ Identified(d)
          /\ target # None => Identified(target)
          /\ \A d \in Disks : Written(d) => Identified(d)

LEMMA FoundTrustedInit == Init => FoundTrusted
BY DEF Init, FoundTrusted, OneName, Written

\* What a step that opens and writes nothing leaves as it was.
LEMMA NothingWritten ==
    ASSUME Typed, FoundTrusted, UNCHANGED <<world, place, media, target, swapped>>,
           dirty' = dirty \/ dirty' = {}, step' \notin {"unmounted", "swaps", "open"}
    PROVE  FoundTrusted'
BY DEF FoundTrusted, UniqueIds, OneName, Written, Identified, Stable, world

LEMMA FoundTrustedNext == Typed /\ FoundTrusted /\ [Next]_vars => FoundTrusted'
<1> SUFFICES ASSUME Typed, FoundTrusted, [Next]_vars PROVE FoundTrusted'
  OBVIOUS
<1> USE DisksAssumption DEF world, others, finding, copying, Halt, MayFail
<1>1. CASE ReadManifest \/ HashImage \/ Deadline \/ SyncTarget \/ CloseTarget
           \/ Reopen \/ Flush \/ Verify \/ Reboot \/ Corrupt
  <2>1. CASE Corrupt
    BY <2>1 DEF Corrupt, FoundTrusted, UniqueIds, OneName, Written, Identified, Stable
  <2>2. CASE ~Corrupt
    BY <1>1, <2>2, NothingWritten DEF ReadManifest, HashImage, Deadline, SyncTarget,
       CloseTarget, Reopen, Flush, Verify, Reboot
  <2> QED
    BY <2>1, <2>2
<1>2. CASE WaitForFingerprint
  <2>1. CASE step' = "unmounted"
    <3>1. PICK d \in Authorized : path' = place[d]
      BY <1>2, <2>1 DEF WaitForFingerprint
    <3>2. d \in Disks /\ place[d] # None /\ FingerprintsMatch(d)
      BY <3>1 DEF Authorized, Candidates
    <3>3. Identified(d)
      BY <3>2 DEF Identified, FingerprintsMatch, Stable, FoundTrusted, UniqueIds
    <3> QED
      BY <1>2, <2>1, <3>1, <3>2, <3>3
         DEF WaitForFingerprint, FoundTrusted, UniqueIds, OneName, Written, Identified, Stable
  <2>2. CASE step' # "unmounted"
    BY <1>2, <2>2, NothingWritten DEF WaitForFingerprint
  <2> QED
    BY <2>1, <2>2
<1>3. CASE EnsureUnmounted \/ EnsureNoSwap \/ ChangeUse
  BY <1>3 DEF EnsureUnmounted, EnsureNoSwap, ChangeUse, FoundTrusted, UniqueIds, OneName, Written,
              Identified, Stable
<1>4. CASE OpenTarget
  <2>1. CASE step' = "copy"
    <3>1. PICK d \in Disks : place[d] = path /\ target' = d
      BY <1>4, <2>1 DEF OpenTarget, At
    <3>2. ~swapped => Identified(d)
      <4> SUFFICES ASSUME ~swapped PROVE Identified(d)
        OBVIOUS
      <4>1. PICK e \in Disks : place[e] = path /\ path # None /\ Identified(e)
        BY <1>4 DEF OpenTarget, FoundTrusted
      <4>2. d = e
        BY <3>1, <4>1 DEF FoundTrusted, OneName
      <4> QED
        BY <4>1, <4>2
    <3>3. ~swapped => \A e \in Disks : Written(e) => Identified(e)
      BY DEF FoundTrusted
    <3> QED
      BY <1>4, <2>1, <3>1, <3>2, <3>3
         DEF OpenTarget, FoundTrusted, UniqueIds, OneName, Written, Identified, Stable
  <2>2. CASE step' # "copy"
    BY <1>4, <2>2, NothingWritten DEF OpenTarget
  <2> QED
    BY <2>1, <2>2
<1>5. CASE CopyChunk
  BY <1>5 DEF CopyChunk, FoundTrusted, UniqueIds, OneName, Written, Identified, Stable,
              Typed, CopyInRange
<1>6. CASE WriteBack
  <2>1. /\ target \in Disks
        /\ \A d \in Disks : d # target => media'[d] = media[d]
    BY <1>6 DEF WriteBack, Typed, TypeOK, CopyInRange
  <2> QED
    BY <1>6, <2>1 DEF WriteBack, FoundTrusted, UniqueIds, OneName, Written, Identified, Stable
<1>7. CASE Appear
  <2>1. PICK x \in Disks, n \in Names :
           place[x] = None /\ At(n) = {} /\ place' = [place EXCEPT ![x] = n]
    BY <1>7 DEF Appear
  <2>2. UNCHANGED <<step, path, target, media, dirty, swapped, expected, look>>
    BY <1>7 DEF Appear
  <2>3. UniqueIds' /\ OneName'
    BY <2>1, <2>2 DEF At, FoundTrusted, UniqueIds, OneName, Typed, TypeOK
  <2>4. \A d \in Disks : place[d] # None => place'[d] = place[d]
    BY <2>1 DEF Typed, TypeOK
  <2>5. \A d \in Disks : (Identified(d) => Identified(d)') /\ Written(d)' = Written(d)
    BY <2>2 DEF Identified, Stable, Written
  <2>6. Identified(target) => Identified(target)'
    BY <2>2 DEF Identified, Stable
  <2>7. ASSUME ~swapped, step \in {"unmounted", "swaps", "open"}
        PROVE  \E d \in Disks : place'[d] = path /\ path # None /\ Identified(d)'
    <3>1. PICK d \in Disks : place[d] = path /\ path # None /\ Identified(d)
      BY <2>7 DEF FoundTrusted
    <3> QED
      BY <2>2, <2>4, <3>1 DEF Identified, Stable
  <2>8. \A d \in Disks : Identified(d) => Identified(d)'
    BY <2>2, <2>5
  <2> QED
    BY <2>2, <2>3, <2>5, <2>6, <2>7, <2>8 DEF FoundTrusted
<1>8. CASE Unplug
  <2>1. PICK x \in Disks : /\ place' = [place EXCEPT ![x] = None]
                          /\ IF target = x
                             THEN target' = None /\ cache' = NotCached /\ dirty' = {}
                             ELSE UNCHANGED <<target, cache, dirty>>
    BY <1>8 DEF Unplug
  <2>2. UNCHANGED <<step, media, expected, look>>
        /\ swapped' = (swapped \/ step \in {"unmounted", "swaps", "open"})
    BY <1>8 DEF Unplug
  <2>3. UniqueIds' /\ OneName'
    BY <2>1, <2>2 DEF FoundTrusted, UniqueIds, OneName, Typed, TypeOK
  <2>4. target' = target \/ target' = None
    BY <2>1
  <2>5. \A d \in Disks : Written(d)' => Written(d)
    BY <2>1, <2>2 DEF Written
  <2>6. \A d : Identified(d) => Identified(d)'
    BY <2>2 DEF Identified, Stable
  <2> QED
    BY <2>2, <2>3, <2>4, <2>5, <2>6 DEF FoundTrusted, Written, Identified, Stable
<1>9. CASE UNCHANGED vars
  BY <1>9 DEF vars, FoundTrusted, UniqueIds, OneName, Written, Identified, Stable
<1> QED
  BY <1>1, <1>2, <1>3, <1>4, <1>5, <1>6, <1>7, <1>8, <1>9 DEF Next, RunWriter

(* Only the authorized disk is ever written, and only while it shows the     *)
(* recorded identity, in whatever order disks appear under whatever names.   *)
THEOREM TargetOnly == Spec => []OnlyTargetWritten
<1>1. Spec => []Typed
  BY TypeInit, TypeNext, PTL DEF Spec
<1>2. Spec => []FoundTrusted
  BY <1>1, FoundTrustedInit, FoundTrustedNext, PTL DEF Spec
<1>3. FoundTrusted => OnlyTargetWritten
  BY DEF FoundTrusted, OnlyTargetWritten, Identified
<1> QED
  BY <1>2, <1>3, PTL

(* What the writer looked at is what it opens: nothing is written before it   *)
(* has looked, and the name it looked at still leads to the same disk.        *)
LookedClean ==
    /\ step \in {"manifest", "hash", "wait", "unmounted", "swaps", "open"} =>
          target = None /\ \A d \in Disks : ~Written(d)
    /\ ~swapped =>
          /\ step \in {"swaps", "open"} => At(path) \cap inUse = {}
          /\ target \notin inUse
          /\ \A d \in inUse : ~Written(d)

LEMMA LookedCleanInit == Init => LookedClean
BY DisksAssumption DEF Init, LookedClean, Written

LEMMA LookedCleanNext == Typed /\ FoundTrusted /\ LookedClean /\ [Next]_vars => LookedClean'
<1> SUFFICES ASSUME Typed, FoundTrusted, LookedClean, [Next]_vars PROVE LookedClean'
  OBVIOUS
<1> USE DisksAssumption DEF Typed, TypeOK, world, others, finding, copying, Halt, MayFail
<1>1. CASE ReadManifest \/ HashImage \/ WaitForFingerprint \/ Deadline \/ Corrupt \/ ChangeUse
           \/ SyncTarget \/ CloseTarget \/ Reopen \/ Flush \/ Verify \/ Reboot
  BY <1>1 DEF ReadManifest, HashImage, WaitForFingerprint, Deadline, Corrupt, ChangeUse, SyncTarget,
              CloseTarget, Reopen, Flush, Verify, Reboot, LookedClean, Written, At
<1>2. CASE EnsureUnmounted
  BY <1>2 DEF EnsureUnmounted, Used, LookedClean, Written, At
<1>3. CASE EnsureNoSwap
  BY <1>3 DEF EnsureNoSwap, Used, LookedClean, Written, At
<1>4. CASE OpenTarget
  BY <1>4 DEF OpenTarget, LookedClean, Written, At
<1>5. CASE CopyChunk
  BY <1>5 DEF CopyChunk, LookedClean, Written
<1>6. CASE WriteBack
  <2>1. /\ target \in Disks /\ dirty # {}
        /\ \A d \in Disks : d # target => media'[d] = media[d]
    BY <1>6 DEF WriteBack, CopyInRange
  <2> QED
    BY <1>6, <2>1 DEF WriteBack, LookedClean, Written, At
<1>7. CASE Appear
  <2>1. PICK x \in Disks, n \in Names :
           place[x] = None /\ At(n) = {} /\ place' = [place EXCEPT ![x] = n]
    BY <1>7 DEF Appear
  <2>2. UNCHANGED <<step, path, target, media, dirty, swapped, inUse>>
    BY <1>7 DEF Appear
  <2>3. ASSUME ~swapped, step \in {"swaps", "open"} PROVE At(path)' \subseteq At(path)
    <3>1. PICK d \in Disks : place[d] = path /\ path # None
      BY <2>3 DEF FoundTrusted
    <3> QED
      BY <2>1, <2>2, <3>1 DEF At
  <2> QED
    BY <2>2, <2>3 DEF LookedClean, Written
<1>8. CASE Unplug
  <2>1. PICK x \in Disks : /\ place' = [place EXCEPT ![x] = None]
                          /\ IF target = x
                             THEN target' = None /\ cache' = NotCached /\ dirty' = {}
                             ELSE UNCHANGED <<target, cache, dirty>>
    BY <1>8 DEF Unplug
  <2>2. UNCHANGED <<step, media, inUse>>
        /\ swapped' = (swapped \/ step \in {"unmounted", "swaps", "open"})
    BY <1>8 DEF Unplug
  <2>3. target' = target \/ target' = None
    BY <2>1
  <2>4. \A d \in Disks : Written(d)' => Written(d)
    BY <2>1, <2>2 DEF Written
  <2> QED
    BY <2>2, <2>3, <2>4 DEF LookedClean
<1>9. CASE UNCHANGED vars
  BY <1>9 DEF vars, LookedClean, Written, At
<1> QED
  BY <1>1, <1>2, <1>3, <1>4, <1>5, <1>6, <1>7, <1>8, <1>9 DEF Next, RunWriter

(* No disk that ensureUnmounted could see in use when it looked is ever      *)
(* written, whatever begins to use disks and whatever appears meanwhile.     *)
THEOREM BusyLeftAlone == Spec => []BusyNotWritten
<1>1. Spec => []Typed
  BY TypeInit, TypeNext, PTL DEF Spec
<1>2. Spec => []FoundTrusted
  BY <1>1, FoundTrustedInit, FoundTrustedNext, PTL DEF Spec
<1>3. Spec => []LookedClean
  BY <1>1, <1>2, LookedCleanInit, LookedCleanNext, PTL DEF Spec
<1>4. LookedClean => BusyNotWritten
  BY DEF LookedClean, BusyNotWritten
<1> QED
  BY <1>3, <1>4, PTL

-----------------------------------------------------------------------------
(* What the fallback may take for its target, and that it has touched nothing *)
(* before it has found something.                                             *)
Fallback(d) == d = Target \/ alone

Untouched ==
    step \in {"manifest", "hash", "wait"} => target = None /\ \A d \in Disks : ~Written(d)

FoundByFallback ==
    /\ OneName /\ Untouched
    /\ ~Stable /\ ~swapped =>
          /\ step \in {"unmounted", "swaps", "open"} =>
                \E d \in Disks : place[d] = path /\ path # None /\ Fallback(d)
          /\ target # None => Fallback(target)
          /\ \A d \in Disks : Written(d) => Fallback(d)

LEMMA FoundByFallbackInit == Init => FoundByFallback
BY DEF Init, FoundByFallback, OneName, Untouched, Written

\* The only disk that is visible is Target, or else Target is not visible.
LEMMA OnlyCandidate ==
    ASSUME Typed, ~Stable, NEW d \in Authorized
    PROVE  d = Target \/ place[Target] = None
<1>1. d \in Candidates /\ Cardinality(Candidates) = 1
  BY DEF Authorized
<1>2. IsFiniteSet(Candidates)
  BY FiniteAssumption, FS_Subset DEF Candidates
<1>3. PICK x : Candidates = {x}
  BY <1>1, <1>2, FS_Singleton
<1> QED
  BY <1>1, <1>3, DisksAssumption DEF Candidates

\* A step that finds, opens and writes nothing.
LEMMA NothingChosen ==
    ASSUME Typed, FoundByFallback, UNCHANGED <<world, place, media, target, swapped, alone>>,
           dirty' = dirty \/ dirty' = {},
           step' \notin {"manifest", "hash", "wait", "unmounted", "swaps", "open"}
              \/ (step \in {"manifest", "hash", "wait"} /\ step' \in {"hash", "wait"})
              \/ (step' = step /\ path' = path)
              \/ (step = "unmounted" /\ step' = "swaps" /\ path' = path)
              \/ (step = "swaps" /\ step' = "open" /\ path' = path)
    PROVE  FoundByFallback'
BY DEF FoundByFallback, OneName, Untouched, Written, Fallback, Stable, world

LEMMA FoundByFallbackNext == Typed /\ FoundByFallback /\ [Next]_vars => FoundByFallback'
<1> SUFFICES ASSUME Typed, FoundByFallback, [Next]_vars PROVE FoundByFallback'
  OBVIOUS
<1> USE DisksAssumption DEF world, others, finding, copying, Halt, MayFail
<1>1. CASE ReadManifest \/ HashImage \/ Deadline \/ EnsureUnmounted \/ EnsureNoSwap
           \/ ChangeUse \/ SyncTarget
           \/ CloseTarget \/ Reopen \/ Flush \/ Verify \/ Reboot \/ Corrupt
  BY <1>1, NothingChosen DEF ReadManifest, HashImage, Deadline, EnsureUnmounted, EnsureNoSwap,
     ChangeUse, SyncTarget, CloseTarget, Reopen, Flush, Verify, Reboot, Corrupt
<1>2. CASE WaitForFingerprint
  <2>1. CASE step' = "unmounted"
    <3>1. PICK d \in Authorized : path' = place[d]
      BY <1>2, <2>1 DEF WaitForFingerprint
    <3>2. d \in Disks /\ place[d] # None
      BY <3>1 DEF Authorized, Candidates
    <3>3. alone' = (place[Target] = None) /\ UNCHANGED <<world, place, media, target, dirty>>
      BY <1>2, <2>1 DEF WaitForFingerprint
    <3>4. target = None /\ \A e \in Disks : ~Written(e)
      BY <1>2 DEF WaitForFingerprint, FoundByFallback, Untouched
    <3>5. ~Stable => Fallback(d)'
      BY <3>1, <3>3, OnlyCandidate DEF Fallback
    <3> QED
      BY <2>1, <3>1, <3>2, <3>3, <3>4, <3>5 DEF FoundByFallback, OneName, Untouched, Written, Stable
  <2>2. CASE step' # "unmounted"
    BY <1>2, <2>2, NothingChosen DEF WaitForFingerprint
  <2> QED
    BY <2>1, <2>2
<1>3. CASE OpenTarget
  <2>1. CASE step' = "copy"
    <3>1. PICK d \in Disks : place[d] = path /\ target' = d
      BY <1>3, <2>1 DEF OpenTarget, At
    <3>2. ~Stable /\ ~swapped => Fallback(d)
      <4> SUFFICES ASSUME ~Stable, ~swapped PROVE Fallback(d)
        OBVIOUS
      <4>1. PICK e \in Disks : place[e] = path /\ path # None /\ Fallback(e)
        BY <1>3 DEF OpenTarget, FoundByFallback
      <4> QED
        BY <3>1, <4>1 DEF FoundByFallback, OneName
    <3> QED
      BY <1>3, <2>1, <3>1, <3>2
         DEF OpenTarget, FoundByFallback, OneName, Untouched, Written, Fallback, Stable
  <2>2. CASE step' # "copy"
    BY <1>3, <2>2, NothingChosen DEF OpenTarget
  <2> QED
    BY <2>1, <2>2
<1>4. CASE CopyChunk
  BY <1>4 DEF CopyChunk, FoundByFallback, OneName, Untouched, Written, Fallback, Stable,
              Typed, CopyInRange
<1>5. CASE WriteBack
  <2>1. /\ target \in Disks
        /\ \A d \in Disks : d # target => media'[d] = media[d]
    BY <1>5 DEF WriteBack, Typed, TypeOK, CopyInRange
  <2> QED
    BY <1>5, <2>1 DEF WriteBack, FoundByFallback, OneName, Untouched, Written, Fallback, Stable
<1>6. CASE Appear
  <2>1. PICK x \in Disks, n \in Names :
           place[x] = None /\ At(n) = {} /\ place' = [place EXCEPT ![x] = n]
    BY <1>6 DEF Appear
  <2>2. UNCHANGED <<step, path, target, media, dirty, swapped, alone, expected>>
    BY <1>6 DEF Appear
  <2>3. OneName'
    BY <2>1, <2>2 DEF At, FoundByFallback, OneName, Typed, TypeOK
  <2>4. \A d \in Disks : place[d] # None => place'[d] = place[d]
    BY <2>1 DEF Typed, TypeOK
  <2>5. \A d \in Disks : Written(d)' = Written(d) /\ Fallback(d)' = Fallback(d)
    BY <2>2 DEF Written, Fallback
  <2>6. Untouched' /\ Stable' = Stable
    BY <2>2, <2>5 DEF FoundByFallback, Untouched, Stable
  <2> QED
    BY <2>2, <2>3, <2>4, <2>5, <2>6 DEF FoundByFallback, Fallback
<1>7. CASE Unplug
  <2>1. PICK x \in Disks : /\ place' = [place EXCEPT ![x] = None]
                          /\ IF target = x
                             THEN target' = None /\ cache' = NotCached /\ dirty' = {}
                             ELSE UNCHANGED <<target, cache, dirty>>
    BY <1>7 DEF Unplug
  <2>2. UNCHANGED <<step, media, expected, alone, path>>
        /\ swapped' = (swapped \/ step \in {"unmounted", "swaps", "open"})
    BY <1>7 DEF Unplug
  <2>3. OneName'
    BY <2>1, <2>2 DEF FoundByFallback, OneName, Typed, TypeOK
  <2>4. target' = target \/ target' = None
    BY <2>1
  <2>5. \A d \in Disks : Written(d)' => Written(d)
    BY <2>1, <2>2 DEF Written
  <2> QED
    BY <2>2, <2>3, <2>4, <2>5 DEF FoundByFallback, Untouched, Fallback, Stable
<1>8. CASE UNCHANGED vars
  BY <1>8, NothingChosen DEF vars
<1> QED
  BY <1>1, <1>2, <1>3, <1>4, <1>5, <1>6, <1>7, <1>8 DEF Next, RunWriter

(* The single-disk fallback takes another disk for the target only when the  *)
(* target was not visible at the moment it looked.                           *)
THEOREM FallbackIsAlone == Spec => []FallbackNeedsAbsence
<1>1. Spec => []Typed
  BY TypeInit, TypeNext, PTL DEF Spec
<1>2. Spec => []FoundByFallback
  BY <1>1, FoundByFallbackInit, FoundByFallbackNext, PTL DEF Spec
<1>3. FoundByFallback => FallbackNeedsAbsence
  BY DEF FoundByFallback, FallbackNeedsAbsence, Fallback
<1> QED
  BY <1>2, <1>3, PTL

-----------------------------------------------------------------------------
(* RunWriter makes progress.                                                 *)

\* How many steps of RunWriter may follow, not counting the chunks to copy.
Ahead ==
    CASE step = "manifest" -> 13 [] step = "hash" -> 12 [] step = "wait" -> 11
      [] step = "unmounted" -> 10 [] step = "swaps" -> 9 [] step = "open" -> 8
      [] step = "copy" -> 7
      [] step = "sync" -> 6 [] step = "close" -> 5 [] step = "reopen" -> 4
      [] step = "flush" -> 3 [] step = "verify" -> 2 [] step = "reboot" -> 1
      [] OTHER -> 0
WriterRank == Ahead + (Chunks + 1 - chunk) + (IF expired THEN 0 ELSE 1)

\* Each step of RunWriter and its deadline come closer to the end; what disks, the
\* kernel and the RAM do takes nothing back.
WriterAdvances ==
    /\ RunWriter \/ Deadline => WriterRank' < WriterRank
    /\ WriterRank' <= WriterRank

(* A step either follows another one in the order of the code or halts; only *)
(* the copy is repeated, and it counts the chunks.                           *)
LEMMA WriterStep == ASSUME Typed, [Next]_vars PROVE WriterAdvances
<1> USE DEF world, others, finding, copying, Halt, MayFail
<1>1. Chunks \in Nat /\ chunk \in 1 .. Chunks + 1 /\ expired \in BOOLEAN
  BY ChunksAssumption DEF Typed, TypeOK
<1>2. CASE ReadManifest \/ HashImage \/ WaitForFingerprint \/ EnsureUnmounted
           \/ EnsureNoSwap \/ OpenTarget
  <2>1. /\ UNCHANGED <<chunk, expired>>
        /\ \/ step = "manifest" /\ step' \in {"hash", "halted"}
           \/ step = "hash" /\ step' \in {"wait", "halted"}
           \/ step = "wait" /\ step' \in {"unmounted", "halted"}
           \/ step = "unmounted" /\ step' \in {"swaps", "halted"}
           \/ step = "swaps" /\ step' \in {"open", "halted"}
           \/ step = "open" /\ step' \in {"copy", "halted"}
    BY <1>2 DEF ReadManifest, HashImage, WaitForFingerprint, EnsureUnmounted, EnsureNoSwap, OpenTarget
  <2> QED
    BY <1>1, <2>1 DEF WriterAdvances, WriterRank, Ahead
<1>3. CASE CopyChunk
  <2>1. /\ step = "copy" /\ UNCHANGED expired
        /\ \/ step' \in {"copy", "sync"} /\ chunk' = chunk + 1
           \/ step' = "halted" /\ UNCHANGED chunk
    BY <1>3 DEF CopyChunk
  <2>2. chunk \in 1 .. Chunks
    BY <2>1 DEF Typed, CopyInRange, Blocks
  <2> QED
    BY <1>1, <2>1, <2>2 DEF WriterAdvances, WriterRank, Ahead
<1>4. CASE SyncTarget \/ CloseTarget \/ Reopen \/ Flush \/ Verify \/ Reboot
  <2>1. /\ UNCHANGED <<chunk, expired>>
        /\ \/ step = "sync" /\ step' \in {"close", "halted"}
           \/ step = "close" /\ step' \in {"reopen", "halted"}
           \/ step = "reopen" /\ step' \in {"flush", "halted"}
           \/ step = "flush" /\ step' \in {"verify", "halted"}
           \/ step = "verify" /\ step' \in {"reboot", "halted"}
           \/ step = "reboot" /\ step' \in {"rebooted", "halted"}
    BY <1>4 DEF SyncTarget, CloseTarget, Reopen, Flush, Verify, Reboot
  <2> QED
    BY <1>1, <2>1 DEF WriterAdvances, WriterRank, Ahead
<1>5. CASE Deadline
  <2>1. UNCHANGED <<step, chunk>> /\ ~expired /\ expired'
    BY <1>5 DEF Deadline
  <2> QED
    BY <1>1, <2>1 DEF WriterAdvances, WriterRank, Ahead
<1>6. CASE ~RunWriter /\ ~Deadline /\ UNCHANGED <<step, chunk, expired>>
  BY <1>1, <1>6 DEF WriterAdvances, WriterRank, Ahead
<1>7. CASE WriteBack \/ Appear \/ Unplug \/ ChangeUse \/ Corrupt \/ UNCHANGED vars
  <2>1. UNCHANGED <<step, chunk, expired>>
    BY <1>7 DEF WriteBack, Appear, Unplug, ChangeUse, Corrupt, vars
  <2> QED
    BY <1>2, <1>3, <1>4, <1>5, <1>6, <2>1 DEF RunWriter
<1> QED
  BY <1>2, <1>3, <1>4, <1>5, <1>7 DEF Next, RunWriter

(* RunWriter: for any number of disks and chunks, and whatever fails, appears *)
(* or is unplugged, each step of the writer takes it closer to the reboot or  *)
(* the halt, a natural number of them: no loop of it can go on for ever, that *)
(* of the copy or that of waiting for the disk.                               *)
THEOREM WriterShrinks == Spec => [](WriterRank \in Nat) /\ [][WriterAdvances]_vars
<1>1. Spec => []Typed
  BY TypeInit, TypeNext, PTL DEF Spec
<1>2. Typed => WriterRank \in Nat
  BY ChunksAssumption DEF Typed, TypeOK, WriterRank, Ahead
<1>3. Typed /\ [Next]_vars => WriterAdvances
  BY WriterStep
<1> QED
  BY <1>1, <1>2, <1>3, PTL DEF Spec

=============================================================================
