------------------------------- MODULE MCWriter -------------------------------
(* The instance of Writer that TLC checks: the authorized disk and another   *)
(* one that may look just like it, but for an identity if it has one.        *)
EXTENDS Writer

MCDisks  == {"authorized", "other"}
MCTarget == "authorized"
MCNames  == {"sda", "sdb"}
MCLooks  ==
    [size: {1}, id: {None, "wwn-1", "wwn-2"}, driver: {"virtio"}]
    \cup [size: {2}, id: {"wwn-1"}, driver: {"ahci"}]
MCUses   == {"mount", "swap", "layered"}
MCFaults == Working
=============================================================================
