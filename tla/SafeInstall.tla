------------------------------ MODULE SafeInstall ------------------------------
(***************************************************************************)
(* What chr-install promises to the owner of a server, without saying how: *)
(* one disk changes, the one that was authorized, only while a recently    *)
(* authorized writer runs, and only forwards; the old system runs only     *)
(* from a disk that nobody has touched; the writer declares itself         *)
(* finished only when the whole image is on the disk.  Power cuts are      *)
(* allowed at any time, and nothing is promised of a disk that one leaves  *)
(* half written.                                                           *)
(***************************************************************************)
EXTENDS Naturals

CONSTANTS
    Disks,  \* the disks of the machine
    Target, \* the one of them the operator authorizes
    Limit   \* for how long an authorization lasts

VARIABLES
    running,    \* "linux", "off", "writer", "finished", "halted", "chr" or "dead"
    content,    \* of each disk: "old", "torn" or "new"
    now,        \* the time
    authorized  \* when the operator has authorized an installation

vars == <<running, content, now, authorized>>

Init ==
    /\ running = "linux"
    /\ content = [d \in Disks |-> "old"]
    /\ now = 0
    /\ authorized = {}

\* Time passes; a run of the writer is short.
Tick ==
    /\ running # "writer"
    /\ now' = now + 1
    /\ UNCHANGED <<running, content, authorized>>

Authorize ==
    /\ running = "linux"
    /\ authorized' = authorized \cup {now}
    /\ UNCHANGED <<running, content, now>>

\* The machine is turned off, loses power or leaves one system for the next.
TurnOff ==
    /\ running' = "off"
    /\ UNCHANGED <<content, now, authorized>>

\* The writer goes to work, if it was authorized lately.
Admit ==
    /\ running = "off"
    /\ \E t \in authorized : now <= t + Limit
    /\ running' = "writer"
    /\ UNCHANGED <<content, now, authorized>>

\* What a halted writer has written may still be on its way to the disk.
Write ==
    /\ running \in {"writer", "halted"}
    /\ \E c \in {"torn", "new"} :
          /\ content[Target] # "new"
          /\ content' = [content EXCEPT ![Target] = c]
    /\ UNCHANGED <<running, now, authorized>>

Finish ==
    /\ running = "writer"
    /\ content[Target] = "new"
    /\ running' = "finished"
    /\ UNCHANGED <<content, now, authorized>>

\* The writer refuses to begin or to go on.
Halt ==
    /\ running \in {"off", "writer"}
    /\ running' = "halted"
    /\ UNCHANGED <<content, now, authorized>>

\* The machine is turned on, or its writer dies and the boot goes on without it.
Boot ==
    /\ \/ running = "off"    /\ content[Target] = "new"  /\ running' = "chr"
       \/ running = "off"    /\ content[Target] = "torn" /\ running' = "dead"
       \/ running \in {"off", "writer"} /\ content[Target] = "old" /\ running' = "linux"
    /\ UNCHANGED <<content, now, authorized>>

Next == Tick \/ Authorize \/ TurnOff \/ Admit \/ Write \/ Finish \/ Halt \/ Boot

Spec == Init /\ [][Next]_vars

=============================================================================
