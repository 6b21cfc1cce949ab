------------------------------- MODULE MCRelease -------------------------------
(* The instance of Release and Image that TLC checks: the published archive, *)
(* another one of the same size, and one that is over the limit; every way   *)
(* to lay out three partitions in five sectors.                              *)
EXTENDS Image

MCObjects == {"published", "replaced", "large"}
MCSize    == [o \in MCObjects |-> IF o = "large" THEN 5 ELSE 3]
MCEntries ==
    {Unused, [Unused EXCEPT !.type = "linux"]}
    \cup [type: {"linux", "other"}, flag: {TRUE}, start: 0 .. 4, sectors: 1 .. 2]
    \cup {[type |-> "other", flag |-> FALSE, start |-> 1, sectors |-> 1]}
=============================================================================
