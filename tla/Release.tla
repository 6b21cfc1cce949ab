-------------------------------- MODULE Release --------------------------------
(***************************************************************************)
(* Finding and downloading the RouterOS release: ResolveLatest, Prepare    *)
(* and the requests below them in src/internal/mikrotik/client.go.         *)
(*                                                                         *)
(* The metadata requests are retried when that may help; the archive is    *)
(* downloaded into a partial file that later attempts resume.  The server  *)
(* may break off anywhere, ignore the Range header, answer with another    *)
(* range, announce no length, or serve another object than the one whose   *)
(* checksum was published, in any response.                                *)
(***************************************************************************)
EXTENDS Naturals, Sequences

CONSTANTS
    Objects,          \* what the server may send as the archive
    Published,        \* the object that the checksum is of
    Size,             \* the size of each object
    Maximum,          \* maxArchiveBytes
    MetadataAttempts, \* metadataAttempts
    Attempts          \* the attempts of download

ASSUME ObjectsAssumption == Published \in Objects /\ Size \in [Objects -> Nat \ {0}]
ASSUME LimitsAssumption == {Maximum, MetadataAttempts, Attempts} \subseteq Nat \ {0}

Unknown == 0

VARIABLES
    step,      \* "version", "checksum", "request", "copy", "backoff", "verify",
               \* "verified" or "failed"
    attempt,   \* the attempt under way, of the loop under way
    cancelled, \* has the context been cancelled?
    partial,   \* the .partial file, as a sequence of the bytes received
    answer,    \* the response that is being copied
    archive    \* the archive, once the partial file is renamed

vars == <<step, attempt, cancelled, partial, answer, archive>>

\* Byte number "at" of an object.
Byte == [of: Objects, at: Nat]

\* A response: 200 or 206, the bytes after "from" up to "upto", the total size
\* and the Content-Length if they are known.
Answer == [status: {200, 206}, of: Objects, from: Nat, upto: Nat, total: Nat, length: Nat]

NoAnswer == [status |-> 200, of |-> Published, from |-> 0, upto |-> 0,
             total |-> Unknown, length |-> Unknown]

TypeOK ==
    /\ step \in {"version", "checksum", "request", "copy", "backoff", "verify",
                 "verified", "failed"}
    /\ attempt \in Nat \ {0}
    /\ step \in {"version", "checksum"} => attempt <= MetadataAttempts
    /\ step \in {"request", "copy", "backoff", "verify"} => attempt <= Attempts
    /\ cancelled \in BOOLEAN
    /\ partial \in Seq(Byte)
    /\ answer \in Answer
    /\ archive \in Seq(Byte)

Init ==
    /\ step = "version"
    /\ attempt = 1
    /\ cancelled = FALSE
    /\ partial = <<>>
    /\ answer = NoAnswer
    /\ archive = <<>>

\* Bytes a + 1 to b of an object.
Bytes(o, a, b) == [i \in 1 .. b - a |-> [of |-> o, at |-> a + i]]

-----------------------------------------------------------------------------
(* The metadata: the version, then the checksum of its archive.            *)

\* getSmall: an answer, an error for good, or one that is tried again.
Metadata ==
    /\ step \in {"version", "checksum"}
    /\ \/ /\ ~cancelled
          /\ step' = IF step = "version" THEN "checksum" ELSE "request"
          /\ attempt' = 1
       \/ step' = "failed" /\ UNCHANGED attempt
       \/ /\ ~cancelled
          /\ attempt < MetadataAttempts
          /\ attempt' = attempt + 1
          /\ UNCHANGED step
    /\ UNCHANGED <<cancelled, partial, answer, archive>>

-----------------------------------------------------------------------------
(* The archive.                                                            *)

\* Mutant: one attempt more.
FailAttempt_OneMore == step' = (IF attempt <= Attempts THEN "backoff" ELSE "failed")

\* An attempt fails; the partial file stays for the next one.
FailAttempt == step' = (IF attempt < Attempts THEN "backoff" ELSE "failed")

\* A response with the whole object, whether its size is announced or not, ...
Whole(o) ==
    {[status |-> 200, of |-> o, from |-> 0, upto |-> Size[o], total |-> n, length |-> n] :
        n \in {Unknown, Size[o]}}

\* ... or with a range of it, which need be neither the one asked for nor all
\* of the rest.
Ranges(o) ==
    UNION {{[status |-> 206, of |-> o, from |-> s, upto |-> e, total |-> Size[o], length |-> n] :
               n \in {Unknown, e - s}} : s \in 0 .. Size[o] - 1, e \in 1 .. Size[o]}

Responses == {a \in UNION {Whole(o) \cup Ranges(o) : o \in Objects} : a.from < a.upto}

\* Mutant: the start of the range is not compared.
Acceptable_AnyStart(a) ==
    /\ a.total <= Maximum
    /\ a.length <= Maximum - a.from

\* What downloadOnce goes on with: everything or the range it asked for, and no
\* more than the limit as far as the response says.
Acceptable(a) ==
    /\ a.status = 206 => a.from = Len(partial)
    /\ a.total <= Maximum
    /\ a.length <= Maximum - a.from

Request ==
    /\ step = "request"
    /\ \/ FailAttempt /\ UNCHANGED answer
       \/ /\ ~cancelled
          /\ Len(partial) <= Maximum
          /\ \E a \in Responses :
                IF Acceptable(a)
                THEN step' = "copy" /\ answer' = a
                ELSE FailAttempt /\ UNCHANGED answer
    /\ UNCHANGED <<attempt, cancelled, partial, archive>>

\* Mutant: the file is not truncated when the server starts again.
Received_NoTruncate(n) ==
    Bytes(answer.of, answer.from, answer.from + n)
    \o SubSeq(partial, answer.from + n + 1, Len(partial))

\* The partial file after n more bytes: opened with O_TRUNC for a response that
\* is the whole object, else positioned at its end.
Received(n) ==
    (IF answer.status = 200 THEN <<>> ELSE partial)
    \o Bytes(answer.of, answer.from, answer.from + n)

\* Mutant: there is no limit to what is copied.
Copied_Unlimited == 0 .. answer.upto - answer.from

\* How much of the body may be copied: io.LimitReader stops one byte over.
Copied == {n \in 0 .. answer.upto - answer.from : answer.from + n <= Maximum + 1}

\* Nothing is amiss with the size, as far as the response announced it.
SizeAsAnnounced(n) ==
    /\ answer.from + n <= Maximum
    /\ answer.length # Unknown => n = answer.length
    /\ answer.total # Unknown => answer.from + n = answer.total

\* The body arrives.  That it breaks off shows, unless no length was announced.
Copy ==
    /\ step = "copy"
    /\ \E n \in Copied :
          \/ FailAttempt /\ partial' = Received(n) /\ UNCHANGED archive
          \/ SizeAsAnnounced(n)
             /\ step' = "verify" /\ archive' = Received(n) /\ partial' = <<>>
    /\ UNCHANGED <<attempt, cancelled, answer>>

\* Mutant: the attempt is not counted.
Backoff_NotCounted ==
    /\ step = "backoff"
    /\ \/ cancelled /\ step' = "failed"
       \/ ~cancelled /\ step' = "request"
    /\ UNCHANGED <<attempt, cancelled, partial, answer, archive>>

\* The pause between two attempts, which the context ends.
Backoff ==
    /\ step = "backoff"
    /\ \/ cancelled /\ step' = "failed" /\ UNCHANGED attempt
       \/ ~cancelled /\ step' = "request" /\ attempt' = attempt + 1
    /\ UNCHANGED <<cancelled, partial, answer, archive>>

\* Prepare compares the checksum of the archive; the requests are over.
Verify ==
    /\ step = "verify"
    /\ \/ /\ archive = Bytes(Published, 0, Size[Published])
          /\ step' = "verified" /\ attempt' = 1 /\ answer' = NoAnswer
       \/ step' = "failed" /\ UNCHANGED <<attempt, answer>>
    /\ UNCHANGED <<cancelled, partial, archive>>

Cancel ==
    /\ ~cancelled
    /\ cancelled' = TRUE
    /\ UNCHANGED <<step, attempt, partial, answer, archive>>

Client == Metadata \/ Request \/ Copy \/ Backoff \/ Verify

Next == Client \/ Cancel

Spec == Init /\ [][Next]_vars

-----------------------------------------------------------------------------
\* Whatever mixture of responses the partial file is made of, each byte is at
\* its own offset: attempts neither overlap, leave gaps nor leave a stale tail.
Aligned == \A i \in DOMAIN partial : partial[i].at = i

\* An archive is renamed only when it is as long as the last response said the
\* object is, and then its bytes are at their offsets as well.
ArchiveComplete ==
    step = "verify" =>
        /\ answer.total # Unknown => Len(archive) = answer.total
        /\ \A i \in DOMAIN archive : archive[i].at = i

\* The partial file never grows more than one byte over the limit.
PartialBounded == Len(partial) <= Maximum + 1

=============================================================================
