----------------------------- MODULE MCWriterClock -----------------------------
(* The instance of WriterClock that TLC checks; RTCs that are right, off     *)
(* within what a manifest may record, and further off, both ways.            *)
EXTENDS WriterClock

MCLags == -5 .. 5
=============================================================================
