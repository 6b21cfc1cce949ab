------------------------------ MODULE ImageProofs ------------------------------
(***************************************************************************)
(* Theorems about Release and Image, for every set of objects the server   *)
(* may send, every limit and every number of attempts, and for every       *)
(* partition table.                                                        *)
(***************************************************************************)
EXTENDS Image, SequenceTheorems, FiniteSetTheorems, TLAPS

USE ObjectsAssumption, LimitsAssumption DEF Unknown

-----------------------------------------------------------------------------
(* Sequences of bytes.                                                     *)

LEMMA BytesType ==
    ASSUME NEW o \in Objects, NEW a \in Nat, NEW b \in Nat, a <= b
    PROVE  /\ Bytes(o, a, b) \in Seq(Byte)
           /\ Len(Bytes(o, a, b)) = b - a
           /\ \A i \in 1 .. b - a : Bytes(o, a, b)[i] = [of |-> o, at |-> a + i]
<1> DEFINE n == b - a
<1>1. n \in Nat
  OBVIOUS
<1>2. \A i \in 1 .. n : [of |-> o, at |-> a + i] \in Byte
  BY DEF Byte
<1>3. Bytes(o, a, b) \in [1 .. n -> Byte]
  BY <1>2 DEF Bytes
<1> QED
  BY <1>1, <1>3 DEF Bytes

\* What the partial file has to be like for each byte to be at its offset.
LEMMA Appended ==
    ASSUME NEW s \in Seq(Byte), \A i \in DOMAIN s : s[i].at = i,
           NEW o \in Objects, NEW n \in Nat
    PROVE  /\ s \o Bytes(o, Len(s), Len(s) + n) \in Seq(Byte)
           /\ Len(s \o Bytes(o, Len(s), Len(s) + n)) = Len(s) + n
           /\ \A i \in DOMAIN (s \o Bytes(o, Len(s), Len(s) + n)) :
                 (s \o Bytes(o, Len(s), Len(s) + n))[i].at = i
<1> DEFINE t == Bytes(o, Len(s), Len(s) + n)
<1>1. Len(s) \in Nat /\ Len(s) + n \in Nat /\ Len(s) <= Len(s) + n /\ (Len(s) + n) - Len(s) = n
  OBVIOUS
<1>2. /\ t \in Seq(Byte) /\ Len(t) = (Len(s) + n) - Len(s)
      /\ \A i \in 1 .. (Len(s) + n) - Len(s) : t[i] = [of |-> o, at |-> Len(s) + i]
  BY <1>1, BytesType
<1> HIDE DEF t
<1>3. Len(t) = n /\ \A i \in 1 .. n : t[i].at = Len(s) + i
  BY <1>1, <1>2
<1>4. /\ s \o t \in Seq(Byte) /\ Len(s \o t) = Len(s) + Len(t)
      /\ \A i \in 1 .. Len(s) + Len(t) : (s \o t)[i] = IF i <= Len(s) THEN s[i] ELSE t[i - Len(s)]
  BY <1>2, ConcatProperties
<1>5. DOMAIN (s \o t) = 1 .. Len(s) + n
  BY <1>3, <1>4
<1>6. ASSUME NEW i \in 1 .. Len(s) + n PROVE (s \o t)[i].at = i
  <2>1. CASE i <= Len(s)
    BY <1>3, <1>4, <2>1
  <2>2. CASE i > Len(s)
    <3>1. i - Len(s) \in 1 .. n /\ Len(s) + (i - Len(s)) = i
      BY <1>1, <2>2
    <3> QED
      BY <1>3, <1>4, <2>2, <3>1
  <2>3. i <= Len(s) \/ i > Len(s)
    BY <1>1
  <2> QED
    BY <2>1, <2>2, <2>3, Zenon
<1> QED
  BY <1>3, <1>4, <1>5, <1>6 DEF t

-----------------------------------------------------------------------------
(* The download.                                                           *)

\* A response that is being copied starts where the partial file ends, or at the
\* beginning; a failed attempt leaves another one; and a file that has been
\* compared is the published object.
Resumable ==
    /\ step = "copy" => answer.from = IF answer.status = 200 THEN 0 ELSE Len(partial)
    /\ step = "backoff" => attempt < Attempts
    /\ step = "verified" => archive = Bytes(Published, 0, Size[Published])

Downloading == TypeOK /\ Aligned /\ PartialBounded /\ ArchiveComplete /\ Resumable

LEMMA NoAnswerType == NoAnswer \in Answer
  BY DEF NoAnswer, Answer

LEMMA DownloadInit == Init => Downloading
<1> SUFFICES ASSUME Init PROVE Downloading
  OBVIOUS
<1>1. 1 <= MetadataAttempts /\ Maximum \in Nat /\ <<>> \in Seq(Byte)
  OBVIOUS
<1>2. partial = <<>> /\ archive = <<>> /\ answer = NoAnswer /\ step = "version" /\ attempt = 1 /\ cancelled = FALSE
  BY DEF Init
<1>3. TypeOK
  <2>1. partial \in Seq(Byte) /\ archive \in Seq(Byte) /\ answer \in Answer
    BY <1>1, <1>2, NoAnswerType
  <2>2. MetadataAttempts \in Nat \ {0}
    BY Zenon
  <2>3. attempt \in Nat \ {0} /\ attempt <= MetadataAttempts
    BY <1>2, <2>2
  <2> QED
    BY <1>2, <2>1, <2>3 DEF TypeOK
<1>4. Aligned /\ PartialBounded
  BY <1>1, <1>2 DEF Aligned, PartialBounded
<1> QED
  BY <1>2, <1>3, <1>4 DEF Downloading, ArchiveComplete, Resumable

\* A response has a type, and a whole object begins at its beginning.
LEMMA ResponseType == \A a \in Responses : a \in Answer /\ (a.status = 200 => a.from = 0)
<1> SUFFICES ASSUME NEW a \in Responses PROVE a \in Answer /\ (a.status = 200 => a.from = 0)
  OBVIOUS
<1>1. PICK o \in Objects : a \in Whole(o) \/ a \in Ranges(o)
  BY DEF Responses
<1>2. Size[o] \in Nat \ {0}
  OBVIOUS
<1>3. CASE a \in Whole(o)
  BY <1>2, <1>3 DEF Whole, Answer
<1>4. CASE a \in Ranges(o)
  <2>1. PICK s \in 0 .. Size[o] - 1, e \in 1 .. Size[o] :
           \E n \in {Unknown, e - s} :
              a = [status |-> 206, of |-> o, from |-> s, upto |-> e, total |-> Size[o], length |-> n]
    BY <1>4 DEF Ranges
  <2>2. PICK n \in {Unknown, e - s} :
           a = [status |-> 206, of |-> o, from |-> s, upto |-> e, total |-> Size[o], length |-> n]
    BY <2>1
  <2>3. a.from = s /\ a.upto = e
    BY <2>2
  <2>4. s < e
    BY <2>3 DEF Responses
  <2>5. n \in Nat
    BY <1>2, <2>4
  <2> QED
    BY <1>2, <2>2, <2>5 DEF Answer
<1> QED
  BY <1>1, <1>3, <1>4

\* What an attempt leaves in the file when it has received n bytes.
LEMMA ReceivedAligned ==
    ASSUME Downloading, step = "copy", NEW n \in Copied
    PROVE  /\ Received(n) \in Seq(Byte)
           /\ Len(Received(n)) = answer.from + n /\ answer.from + n <= Maximum + 1
           /\ \A i \in DOMAIN Received(n) : Received(n)[i].at = i
<1> DEFINE whole == IF answer.status = 200 THEN <<>> ELSE partial
<1>1. answer \in Answer /\ partial \in Seq(Byte) /\ \A i \in DOMAIN partial : partial[i].at = i
  BY DEF Downloading, TypeOK, Aligned
<1>2. whole \in Seq(Byte) /\ answer.from = Len(whole) /\ \A i \in DOMAIN whole : whole[i].at = i
  BY <1>1 DEF Downloading, Resumable
<1>3. answer.of \in Objects /\ n \in Nat /\ answer.from + n <= Maximum + 1
  BY <1>1 DEF Copied, Answer
<1>4. Received(n) = whole \o Bytes(answer.of, Len(whole), Len(whole) + n)
  BY <1>2 DEF Received
<1> HIDE DEF whole
<1> QED
  BY <1>2, <1>3, <1>4, Appended

LEMMA DownloadNext == Downloading /\ [Next]_vars => Downloading'
<1> SUFFICES ASSUME Downloading, [Next]_vars PROVE Downloading'
  OBVIOUS
<1> USE DEF Downloading, TypeOK, Aligned, PartialBounded, ArchiveComplete, Resumable
<1>1. CASE Metadata
  BY <1>1 DEF Metadata
<1>2. CASE Request
  <2>1. CASE FailAttempt /\ UNCHANGED <<attempt, cancelled, partial, answer, archive>>
    BY <2>1, <1>2 DEF Request, FailAttempt
  <2>2. CASE \E a \in Responses : Acceptable(a) /\ step' = "copy" /\ answer' = a
    <3>1. PICK a \in Responses : Acceptable(a) /\ step' = "copy" /\ answer' = a
      BY <2>2
    <3>2. a \in Answer /\ a.from = IF a.status = 200 THEN 0 ELSE Len(partial)
      BY <3>1, ResponseType DEF Acceptable, Answer
    <3> QED
      BY <1>2, <3>1, <3>2 DEF Request
  <2> QED
    BY <1>2, <2>1, <2>2 DEF Request
<1>3. CASE Copy
  <2>1. step = "copy"
    BY <1>3 DEF Copy
  <2>2. PICK n \in Copied :
           \/ FailAttempt /\ partial' = Received(n) /\ UNCHANGED archive
           \/ SizeAsAnnounced(n)
              /\ step' = "verify" /\ archive' = Received(n) /\ partial' = <<>>
    BY <1>3 DEF Copy
  <2>3. /\ Received(n) \in Seq(Byte)
        /\ Len(Received(n)) = answer.from + n /\ answer.from + n <= Maximum + 1
        /\ \A i \in DOMAIN Received(n) : Received(n)[i].at = i
    BY <2>1, ReceivedAligned
  <2>4. UNCHANGED <<attempt, cancelled, answer>>
    BY <1>3 DEF Copy
  <2>5. CASE FailAttempt /\ partial' = Received(n) /\ UNCHANGED archive
    BY <2>1, <2>3, <2>4, <2>5 DEF FailAttempt
  <2>6. CASE SizeAsAnnounced(n) /\ step' = "verify" /\ archive' = Received(n) /\ partial' = <<>>
    BY <2>1, <2>3, <2>4, <2>6 DEF SizeAsAnnounced
  <2> QED
    BY <2>2, <2>5, <2>6
<1>4. CASE Backoff
  BY <1>4 DEF Backoff
<1>5. CASE Verify
  BY <1>5, NoAnswerType DEF Verify
<1>6. CASE Cancel
  BY <1>6 DEF Cancel
<1>7. CASE UNCHANGED vars
  BY <1>7 DEF vars
<1> QED
  BY <1>1, <1>2, <1>3, <1>4, <1>5, <1>6, <1>7 DEF Next, Client

-----------------------------------------------------------------------------
(* The injection.                                                          *)

\* The injection leaves the download alone, apart from Ctrl-C during a mount.
LEMMA PrepareDownload == Downloading /\ [PrepareNext]_allVars => Downloading'
<1> SUFFICES ASSUME Downloading, [PrepareNext]_allVars PROVE Downloading'
  OBVIOUS
<1>1. CASE [Next]_vars
  BY <1>1, DownloadNext
<1>2. CASE Mount
  <2>1. cancelled' \in BOOLEAN
    BY <1>2 DEF Mount, Downloading, TypeOK
  <2>2. UNCHANGED <<step, attempt, partial, answer, archive>>
    BY <1>2 DEF Mount
  <2> QED
    BY <2>1, <2>2 DEF Downloading, TypeOK, Aligned, PartialBounded, ArchiveComplete, Resumable
<1>3. Next \/ Mount \/ UNCHANGED vars
  BY DEF PrepareNext, Injector, Extract, GiveUp, Look, Unmount, Hash, WriteBack, allVars, vars
<1> QED
  BY <1>1, <1>2, <1>3

\* The partitions before the current one, and those after it, hold no script, in
\* the file or in the cache of a mount that is left; the current one has the
\* script by the time it is unmounted for good.
Clean(i) ==
    /\ image[i] \in {"shipped", "touched"}
    /\ i \in mounts => cache[i] \in {"shipped", "touched"}

Visiting == {"look", "skip", "abandon", "close"}

Injecting ==
    /\ stage \notin {"extract", "mount", "refused"} => current \in Index
    /\ stage # "refused" => \A i \in Index \ {current} : Clean(i)
    /\ stage \in {"extract", "mount", "look", "skip"} =>
          \A i \in Index : Clean(i)
    /\ stage = "close" => cache[current] = "script"
    /\ stage \in {"hash", "prepared"} => image[current] = "script" /\ current \notin mounts
    /\ stage = "prepared" => \A i \in Index \ mounts : hashed[i] = image[i]
    /\ stage \in Visiting => current \in mounts
    /\ mounts \subseteq kept \cup (IF stage \in Visiting THEN {current} ELSE {})

ImageTypes ==
    /\ stage \in {"extract", "mount", "look", "skip", "abandon", "close", "hash",
                  "prepared", "refused"}
    /\ table \in [Index -> Partition]
    /\ current \in 0 .. Slots
    /\ image \in [Index -> Contents] /\ cache \in [Index -> Contents]
    /\ hashed \in [Index -> Contents]
    /\ mounts \subseteq Index /\ kept \subseteq Index

Preparing == Downloading /\ ImageTypes /\ Injecting

LEMMA PreparedInit == PrepareInit => Preparing
<1> SUFFICES ASSUME Init, ImageInit PROVE Preparing
  BY DEF PrepareInit
<1>1. Downloading
  BY DownloadInit
<1>2. Unused \in Partition /\ 0 \in 0 .. Slots
  BY SlotsAssumption DEF Unused, Partition
<1>3. ImageTypes
  BY <1>2 DEF ImageInit, ImageTypes, Contents
<1>4. Injecting
  BY DEF ImageInit, Injecting, Clean, Visiting
<1> QED
  BY <1>1, <1>3, <1>4 DEF Preparing

LEMMA PreparedNext == Preparing /\ [PrepareNext]_allVars => Preparing'
<1> SUFFICES ASSUME Preparing, [PrepareNext]_allVars PROVE Preparing'
  OBVIOUS
<1>1. Downloading'
  BY PrepareDownload DEF Preparing
<1>2. ImageTypes /\ Injecting
  BY DEF Preparing
<1>3. CASE Extract
  <2>1. ImageTypes'
    <3>1. table' \in [Index -> Partition]
      BY <1>2, <1>3, EntriesAssumption DEF Extract, ImageTypes
    <3> QED
      BY <1>2, <1>3, <3>1 DEF Extract, ImageTypes
  <2>2. Injecting'
    BY <1>2, <1>3 DEF Extract, Injecting, Clean, Visiting
  <2> QED
    BY <1>1, <2>1, <2>2 DEF Preparing
<1>4. CASE GiveUp
  <2>1. ImageTypes'
    BY <1>2, <1>4 DEF GiveUp, ImageTypes
  <2>2. Injecting'
    BY <1>2, <1>4 DEF GiveUp, Injecting, Clean, Visiting
  <2> QED
    BY <1>1, <2>1, <2>2 DEF Preparing
<1>5. CASE Mount
  <2>1. current' \in Index
    BY <1>5 DEF Mount, Upcoming, Remaining, Used
  <2>2. ImageTypes'
    <3>1. cache' \in [Index -> Contents]
      BY <1>2, <1>5, <2>1 DEF Mount, ImageTypes, Contents
    <3>2. mounts' \subseteq Index /\ kept' \subseteq Index
      BY <1>2, <1>5, <2>1 DEF Mount, ImageTypes
    <3> QED
      BY <1>2, <1>5, <2>1, <3>1, <3>2 DEF Mount, ImageTypes, Index
  <2>3. \A i \in Index : Clean(i)'
    BY <1>2, <1>5, <2>1 DEF Mount, Injecting, Clean, ImageTypes
  <2>4. mounts' \subseteq kept' \cup (IF stage' \in Visiting THEN {current'} ELSE {})
    BY <1>2, <1>5 DEF Mount, Injecting, Visiting
  <2>5. stage' \in {"mount", "look"} /\ (stage' = "look" => current' \in mounts')
    BY <1>5 DEF Mount
  <2>6. Injecting'
    BY <2>1, <2>3, <2>4, <2>5 DEF Injecting, Visiting
  <2> QED
    BY <1>1, <2>2, <2>6 DEF Preparing
<1>6. CASE Look
  <2>1. stage = "look" /\ UNCHANGED <<current, image, mounts, kept, hashed>>
    BY <1>6 DEF Look
  <2>2. ImageTypes'
    BY <1>2, <1>6 DEF Look, ImageTypes, Contents
  <2>3. current \in Index /\ mounts \subseteq kept \cup {current} /\ \A i \in Index : Clean(i)
    BY <1>2, <2>1 DEF Injecting, Visiting
  <2>4. \A i \in Index \ {current} : Clean(i)'
    BY <1>2, <1>6, <2>1, <2>3 DEF Look, Clean, ImageTypes
  <2>5. CASE stage' = "skip"
    <3>1. \A i \in Index : Clean(i)'
      BY <1>6, <2>1, <2>3, <2>5 DEF Look, Clean
    <3> QED
      BY <1>1, <2>1, <2>2, <2>3, <2>5, <3>1 DEF Preparing, Injecting, Visiting
  <2>6. CASE stage' = "abandon"
    BY <1>1, <2>1, <2>2, <2>3, <2>4, <2>6 DEF Preparing, Injecting, Visiting
  <2>7. CASE stage' = "close"
    <3>1. cache'[current] = "script"
      BY <1>2, <1>6, <2>3, <2>7 DEF Look, ImageTypes
    <3> QED
      BY <1>1, <2>1, <2>2, <2>3, <2>4, <2>7, <3>1 DEF Preparing, Injecting, Visiting
  <2> QED
    BY <1>6, <2>5, <2>6, <2>7 DEF Look
<1>7. CASE Unmount
  <2>1. current \in Index
    BY <1>2, <1>7 DEF Unmount, Injecting
  <2>2. mounts' \subseteq mounts /\ mounts \subseteq mounts' \cup {current}
    BY <1>7 DEF Unmount
  <2>3. ImageTypes'
    <3>1. image' \in [Index -> Contents]
      BY <1>2, <1>7, <2>1 DEF Unmount, ImageTypes
    <3>2. kept' \subseteq Index /\ mounts' \subseteq Index
      BY <1>2, <1>7, <2>1, <2>2 DEF Unmount, ImageTypes
    <3>3. stage' \in {"mount", "hash", "refused"}
      BY <1>7 DEF Unmount, AfterFailure
    <3> QED
      BY <1>2, <1>7, <3>1, <3>2, <3>3 DEF Unmount, ImageTypes
  <2>4. UNCHANGED <<current, cache, hashed>> /\ stage' \in {"mount", "hash", "refused"}
    BY <1>7 DEF Unmount, AfterFailure
  <2>5. \A i \in Index \ {current} : Clean(i)'
    BY <1>2, <1>7, <2>1, <2>2 DEF Unmount, Injecting, Clean, ImageTypes
  <2>6. mounts' \subseteq kept'
    BY <1>2, <1>7, <2>2 DEF Unmount, Injecting, Visiting
  <2>7. CASE stage' = "refused"
    BY <1>1, <2>3, <2>4, <2>6, <2>7 DEF Preparing, Injecting, Visiting
  <2>8. CASE stage' = "mount"
    <3>1. stage = "skip"
      BY <1>7, <2>8 DEF Unmount, AfterFailure
    <3>2. Clean(current)
      BY <1>2, <2>1, <3>1 DEF Injecting
    <3>3. image'[current] \in {image[current], cache[current]} /\ current \in mounts
      BY <1>2, <1>7, <2>1, <3>1 DEF Unmount, Injecting, Visiting, ImageTypes
    <3>4. \A i \in Index : i = current => Clean(i)'
      BY <2>2, <2>4, <3>2, <3>3 DEF Clean
    <3>5. \A i \in Index : Clean(i)'
      BY <2>5, <3>4
    <3> QED
      BY <1>1, <2>3, <2>4, <2>6, <2>8, <3>5 DEF Preparing, Injecting, Visiting
  <2>9. CASE stage' = "hash"
    <3>1. stage = "close" /\ current \notin mounts'
      BY <1>7, <2>9 DEF Unmount, AfterFailure
    <3>2. cache[current] = "script"
      BY <1>2, <3>1 DEF Injecting
    <3>3. image'[current] = "script"
      BY <1>2, <1>7, <2>1, <3>1, <3>2 DEF Unmount, ImageTypes
    <3> QED
      BY <1>1, <2>1, <2>3, <2>4, <2>5, <2>6, <2>9, <3>1, <3>3 DEF Preparing, Injecting, Visiting
  <2> QED
    BY <2>4, <2>7, <2>8, <2>9
<1>8. CASE Hash
  <2>1. ImageTypes'
    BY <1>2, <1>8 DEF Hash, ImageTypes
  <2>2. Injecting'
    BY <1>2, <1>8 DEF Hash, Injecting, Clean, Visiting
  <2> QED
    BY <1>1, <2>1, <2>2 DEF Preparing
<1>9. CASE WriteBack
  <2>1. PICK i \in mounts : image' = [image EXCEPT ![i] = cache[i]]
    BY <1>9 DEF WriteBack
  <2>2. i \in Index
    BY <1>2 DEF ImageTypes
  <2>3. ImageTypes'
    BY <1>2, <1>9, <2>1, <2>2 DEF WriteBack, ImageTypes
  <2>4. ASSUME NEW j \in Index, Clean(j) PROVE Clean(j)'
    BY <1>2, <1>9, <2>1, <2>2, <2>4 DEF WriteBack, Clean, ImageTypes
  <2>5. \A j \in Index \ mounts : image'[j] = image[j]
    BY <1>2, <2>1, <2>2 DEF ImageTypes
  <2>6. UNCHANGED <<stage, current, cache, mounts, kept, hashed>>
    BY <1>9 DEF WriteBack
  <2>7. Injecting'
    BY <1>2, <2>4, <2>5, <2>6 DEF Injecting, Visiting
  <2> QED
    BY <1>1, <2>3, <2>7 DEF Preparing
<1>10. CASE UNCHANGED imageVars
  BY <1>1, <1>2, <1>10 DEF imageVars, Preparing, ImageTypes, Injecting, Clean
<1> QED
  BY <1>3, <1>4, <1>5, <1>6, <1>7, <1>8, <1>9, <1>10 DEF PrepareNext, Injector, allVars

-----------------------------------------------------------------------------
(* The theorems.                                                           *)

LEMMA PrepareSafe == PrepareSpec => []Preparing
<1>1. PrepareInit => Preparing
  BY PreparedInit
<1>2. Preparing /\ [PrepareNext]_allVars => Preparing'
  BY PreparedNext
<1> QED
  BY <1>1, <1>2, PTL DEF PrepareSpec

\* Every reachable state is well typed, for every set of objects, every limit and
\* every number of attempts, partitions and sectors.
THEOREM PrepareTypeCorrect == PrepareSpec => []ImageTypeOK
<1>1. Preparing => ImageTypeOK
  BY DEF Preparing, Downloading, ImageTypes, ImageTypeOK
<1> QED
  BY <1>1, PrepareSafe, PTL

\* downloadOnce: whatever mixture of 200 and 206 responses of whatever objects an
\* attempt gets, and wherever they break off, a byte is never at another offset of
\* the partial file than it had in its object.
THEOREM PartialAligned == PrepareSpec => []Aligned
<1>1. Preparing => Aligned
  BY DEF Preparing, Downloading
<1> QED
  BY <1>1, PrepareSafe, PTL

\* downloadOnce: an archive of another length than the server announced is never
\* renamed to its final name.
THEOREM ArchiveIsComplete == PrepareSpec => []ArchiveComplete
<1>1. Preparing => ArchiveComplete
  BY DEF Preparing, Downloading
<1> QED
  BY <1>1, PrepareSafe, PTL

\* downloadOnce: no response makes the partial file longer than the limit and the
\* one byte that shows that it was exceeded.
THEOREM PartialIsBounded == PrepareSpec => []PartialBounded
<1>1. Preparing => PartialBounded
  BY DEF Preparing, Downloading
<1> QED
  BY <1>1, PrepareSafe, PTL

\* InjectAutorun and HashFile: whichever mount, write or umount fails and whenever
\* the kernel writes back, a prepared image has the whole script in one partition,
\* and its checksum is of everything that is not mounted any more.
THEOREM HashIsFinal == PrepareSpec => []HashedIsFinal
<1>1. Preparing => HashedIsFinal
  BY DEF Preparing, Injecting, Clean, HashedIsFinal
<1> QED
  BY <1>1, PrepareSafe, PTL

\* InjectAutorun: what is still mounted at the end is what a failed or cancelled
\* umount, or a killed mount, has left.
THEOREM OnlyKeptMounted == PrepareSpec => []NothingElseMounted
<1>1. Preparing => NothingElseMounted
  BY DEF Preparing, Injecting, Visiting, NothingElseMounted
<1> QED
  BY <1>1, PrepareSafe, PTL

-----------------------------------------------------------------------------
(* The partition table.                                                    *)

\* Every partition has a place in every order.
LEMMA OrdersComplete ==
    ASSUME NEW t, NEW order \in Orders(t)
    PROVE  /\ order \in [1 .. Len(order) -> Used(t)]
           /\ Len(order) \in Nat
           /\ \A i \in Used(t) : \E n \in 1 .. Len(order) : order[n] = i
<1> DEFINE U == Used(t)
           k == Cardinality(U)
<1>1. IsFiniteSet(U)
  <2>1. Slots \in Nat
    BY SlotsAssumption
  <2>2. IsFiniteSet(1 .. Slots)
    BY <2>1, FS_Interval
  <2> QED
    BY <2>2, FS_Subset, U \subseteq 1 .. Slots DEF Used, Index
<1>2. k \in Nat
  BY <1>1, FS_CardinalityType
<1>3. order \in Injection(1 .. k, U)
  BY DEF Orders, SetToSeqs, Injection, IsInjective
<1>4. IsFiniteSet(1 .. k) /\ Cardinality(1 .. k) = k
  BY <1>2, FS_Interval
<1>5. order \in Surjection(1 .. k, U)
  BY <1>1, <1>3, <1>4, FS_Injection
<1>6. order \in Seq(U) /\ Len(order) = k
  BY <1>2, <1>5 DEF Surjection
<1> QED
  BY <1>2, <1>5, <1>6 DEF Surjection

\* What Inspect accepts has no overlap.  The successor of a partition starts at its
\* end or later, and whatever comes after that starts no earlier.
LEMMA AcceptedDisjoint ==
    ASSUME NEW t \in [Index -> Partition], Accepted(t),
           NEW i \in Used(t), NEW j \in Used(t)
    PROVE  /\ 1 <= t[i].start /\ End(t[i]) <= Sectors
           /\ i # j => End(t[i]) <= t[j].start \/ End(t[j]) <= t[i].start
<1>1. \A k \in Used(t) : t[k].start \in Nat /\ End(t[k]) \in Nat
  <2>1. \A k \in Used(t) : t[k].start \in Nat /\ t[k].sectors \in Nat
    BY DEF Used, Partition
  <2> QED
    BY <2>1 DEF End
<1>2. PICK order \in Orders(t) :
        \A n \in 2 .. Len(order) : Follows(t[order[n - 1]], t[order[n]])
  BY DEF Accepted
<1>3. /\ order \in [1 .. Len(order) -> Used(t)]
      /\ Len(order) \in Nat
      /\ \A k \in Used(t) : \E n \in 1 .. Len(order) : order[n] = k
  BY OrdersComplete
<1>4. \A m, n \in 1 .. Len(order) : m < n => t[order[m]].start <= t[order[n]].start
  BY <1>3 DEF Orders
<1>5. ASSUME NEW m \in 1 .. Len(order), NEW n \in 1 .. Len(order), m < n
      PROVE  End(t[order[m]]) <= t[order[n]].start
  <2>1. m + 1 \in 2 .. Len(order) /\ (m + 1) - 1 = m
    BY <1>3, <1>5
  <2>2. End(t[order[m]]) <= t[order[m + 1]].start
    BY <1>2, <2>1 DEF Follows
  <2>3. m + 1 = n \/ t[order[m + 1]].start <= t[order[n]].start
    BY <1>3, <1>4, <1>5, <2>1
  <2>4. order[m] \in Used(t) /\ order[m + 1] \in Used(t) /\ order[n] \in Used(t)
    BY <1>3, <1>5, <2>1
  <2>5. /\ End(t[order[m]]) \in Nat
        /\ t[order[m + 1]].start \in Nat /\ t[order[n]].start \in Nat
    BY <1>1, <2>4
  <2> QED
    BY <2>2, <2>3, <2>5
<1>6. PICK m \in 1 .. Len(order), n \in 1 .. Len(order) : order[m] = i /\ order[n] = j
  BY <1>3
<1>7. i # j => m < n \/ n < m
  BY <1>3, <1>6
<1> QED
  BY <1>5, <1>6, <1>7 DEF Accepted

\* Inspect: although it compares only neighbours, no two of the partitions that may
\* be mounted overlap, however many the table has and in whatever order.
THEOREM LayoutIsDisjoint == PrepareSpec => []LayoutDisjoint
<1> DEFINE Inspected == table \in [Index -> Partition] /\ LayoutDisjoint
<1>1. PrepareInit => Inspected
  <2> SUFFICES ASSUME PrepareInit PROVE Inspected
    OBVIOUS
  <2>1. table = [i \in Index |-> Unused]
    BY DEF PrepareInit, ImageInit
  <2>2. table \in [Index -> Partition] /\ Used(table) = {}
    BY <2>1 DEF Unused, Partition, Used
  <2> QED
    BY <2>2 DEF LayoutDisjoint
<1>2. Inspected /\ [PrepareNext]_allVars => Inspected'
  <2> SUFFICES ASSUME Inspected, [PrepareNext]_allVars PROVE Inspected'
    OBVIOUS
  <2>1. CASE UNCHANGED table
    BY <2>1 DEF LayoutDisjoint, Used
  <2>2. CASE \E t \in [Index -> Entries] : Accepted(t) /\ table' = t
    <3>1. PICK t \in [Index -> Entries] : Accepted(t) /\ table' = t
      BY <2>2
    <3>2. t \in [Index -> Partition]
      BY EntriesAssumption
    <3> QED
      BY <3>1, <3>2, AcceptedDisjoint DEF LayoutDisjoint, Used
  <2> QED
    BY <2>1, <2>2 DEF PrepareNext, Injector, Extract, GiveUp, Mount, Look, Unmount, Hash, WriteBack,
                      imageVars, allVars
<1>3. Inspected => LayoutDisjoint
  OBVIOUS
<1> QED
  BY <1>1, <1>2, <1>3, PTL DEF PrepareSpec

-----------------------------------------------------------------------------
(* Prepare makes progress.                                                 *)

\* How many steps of the two loops over attempts may follow: each attempt of the
\* download has a request, a copy and a pause.
ClientRank ==
    LET archived == 3 * Attempts + 2
    IN  CASE step = "version"  -> archived + 2 * MetadataAttempts - attempt
          [] step = "checksum" -> archived + MetadataAttempts - attempt
          [] step = "request"  -> 3 * (Attempts - attempt) + 4
          [] step = "copy"     -> 3 * (Attempts - attempt) + 3
          [] step = "backoff"  -> 3 * (Attempts - attempt) + 2
          [] step = "verify"   -> 1
          [] OTHER             -> 0

\* And of the loop over partitions, each of which is mounted, looked at and
\* unmounted.
InjectorRank ==
    CASE stage = "extract"                    -> 3 * (Slots - current) + 3
      [] stage = "mount"                      -> 3 * (Slots - current) + 2
      [] stage = "look"                       -> 3 * (Slots - current) + 4
      [] stage \in {"skip", "abandon", "close"} -> 3 * (Slots - current) + 3
      [] stage = "hash"                       -> 1
      [] OTHER                                -> 0

PrepareRank == ClientRank + InjectorRank

\* Each request, pause, mount and umount comes closer to the end of Prepare; Ctrl-C
\* and write-back take nothing back.
PrepareAdvances ==
    /\ (Client /\ UNCHANGED imageVars) \/ Injector => PrepareRank' < PrepareRank
    /\ PrepareRank' <= PrepareRank

\* Where the two loops can be.
LoopTypes ==
    /\ step \in {"version", "checksum", "request", "copy", "backoff", "verify",
                 "verified", "failed"}
    /\ attempt \in Nat \ {0}
    /\ step \in {"version", "checksum"} => attempt <= MetadataAttempts
    /\ step \in {"request", "copy", "backoff", "verify"} => attempt <= Attempts
    /\ stage \in {"extract", "mount", "look", "skip", "abandon", "close", "hash",
                  "prepared", "refused"}
    /\ current \in 0 .. Slots

LEMMA PrepareStep == ASSUME LoopTypes, [PrepareNext]_allVars PROVE PrepareAdvances
<1> USE LimitsAssumption, SlotsAssumption
    DEF LoopTypes, PrepareAdvances, PrepareRank, ClientRank, InjectorRank
<1>1. CASE Client /\ UNCHANGED imageVars
  <2>1. UNCHANGED <<stage, current>>
    BY <1>1 DEF imageVars
  <2>2. CASE Metadata
    <3>1. \/ step = "version" /\ step' = "checksum" /\ attempt' = 1
          \/ step = "checksum" /\ step' = "request" /\ attempt' = 1
          \/ step \in {"version", "checksum"} /\ step' = "failed"
          \/ step \in {"version", "checksum"} /\ step' = step /\ attempt' = attempt + 1
      BY <2>2 DEF Metadata
    <3> QED
      BY <2>1, <3>1
  <2>3. CASE Request \/ Copy
    <3>1. /\ UNCHANGED attempt
          /\ \/ step = "request" /\ step' \in {"copy", "backoff", "failed"}
             \/ step = "copy" /\ step' \in {"verify", "backoff", "failed"}
      BY <2>3 DEF Request, Copy, FailAttempt
    <3> QED
      BY <2>1, <3>1
  <2>4. CASE Backoff \/ Verify
    <3>1. \/ step = "backoff" /\ step' = "failed"
          \/ step = "backoff" /\ step' = "request" /\ attempt' = attempt + 1
          \/ step = "verify" /\ step' \in {"verified", "failed"}
      BY <2>4 DEF Backoff, Verify
    <3> QED
      BY <2>1, <3>1
  <2> QED
    BY <1>1, <2>2, <2>3, <2>4 DEF Client
<1>2. CASE Injector
  <2>1. UNCHANGED <<step, attempt>>
    BY <1>2 DEF Injector, Extract, GiveUp, Mount, Look, Unmount, Hash, vars
  <2>2. CASE Extract \/ GiveUp \/ Look \/ Unmount \/ Hash
    <3>1. /\ UNCHANGED current
          /\ \/ stage = "extract" /\ stage' \in {"refused", "mount"}
             \/ stage = "mount" /\ stage' = "refused"
             \/ stage = "look" /\ stage' \in {"skip", "abandon", "close"}
             \/ stage \in {"skip", "abandon", "close"} /\ stage' \in {"mount", "hash", "refused"}
             \/ stage = "hash" /\ stage' \in {"prepared", "refused"}
      BY <2>2 DEF Extract, GiveUp, Look, Unmount, AfterFailure, Hash
    <3> QED
      BY <2>1, <3>1
  <2>3. CASE Mount
    <3>1. current' \in Remaining /\ stage = "mount" /\ stage' \in {"mount", "look"}
      BY <2>3 DEF Mount, Upcoming
    <3>2. current' \in 1 .. Slots /\ current' > current
      BY <3>1 DEF Remaining, Used, Index
    <3> QED
      BY <2>1, <3>1, <3>2
  <2> QED
    BY <1>2, <2>2, <2>3 DEF Injector
<1>3. CASE /\ ~((Client /\ UNCHANGED imageVars) \/ Injector)
           /\ UNCHANGED <<step, attempt, stage, current>>
  BY <1>3
<1>4. CASE (Cancel /\ UNCHANGED imageVars) \/ WriteBack \/ UNCHANGED allVars
  <2>1. UNCHANGED <<step, attempt, stage, current>>
    BY <1>4 DEF Cancel, WriteBack, allVars, vars, imageVars
  <2> QED
    BY <1>1, <1>2, <1>3, <2>1
<1> QED
  BY <1>1, <1>2, <1>4 DEF PrepareNext, Next

\* ResolveLatest, Prepare and InjectAutorun: for any number of attempts, responses
\* and partitions, whatever breaks off, fails or is cancelled, each step of theirs
\* takes them closer to the end, a natural number of them: none of the three loops,
\* over metadata attempts, download attempts and partitions, can go on for ever.
THEOREM PrepareShrinks == PrepareSpec => [](PrepareRank \in Nat) /\ [][PrepareAdvances]_allVars
<1>1. Preparing => LoopTypes
  BY DEF Preparing, Downloading, TypeOK, ImageTypes, LoopTypes
<1>2. LoopTypes => PrepareRank \in Nat
  BY LimitsAssumption, SlotsAssumption DEF LoopTypes, PrepareRank, ClientRank, InjectorRank
<1>3. LoopTypes /\ [PrepareNext]_allVars => PrepareAdvances
  BY PrepareStep
<1> QED
  BY <1>1, <1>2, <1>3, PrepareSafe, PTL DEF PrepareSpec

=============================================================================
