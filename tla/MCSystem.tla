------------------------------- MODULE MCSystem -------------------------------
(* The instance of System that TLC checks: a host with both ways to boot the *)
(* writer, two attempts, the authorized disk and one that differs only in    *)
(* its identity.                                                             *)
EXTENDS System

MCHosts       == [method: {"kexec", "grub"}, grub: {TRUE}, handler: {TRUE}, env: {TRUE}]
MCFaults      == {"kexecLoad", "copyInitrd"}
MCLateFaults  == {}
MCDisks       == {"authorized", "other"}
MCTarget      == "authorized"
MCNames       == {"sda", "sdb"}
MCLooks       == [size: {1}, id: {"wwn-1", "wwn-2"}, driver: {"virtio"}]
MCUses        == {}
MCWriterFaults == {"manifest", "copy"}
MCLags        == {0, 1}
=============================================================================
