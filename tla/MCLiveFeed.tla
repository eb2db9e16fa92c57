------------------------------ MODULE MCLiveFeed ------------------------------
(* Instances of LiveFeed for TLC.                                            *)
EXTENDS LiveFeed

\* a sample with more events than the feed keeps, and a call that is none
MCPrograms ==
  { << OpenCall("openat", "/etc/ld.so", FALSE), Execve("touch"), OpenCall("open", "/etc/x", TRUE) >> }
===============================================================================
