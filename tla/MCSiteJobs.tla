----------------------------- MODULE MCSiteJobs -----------------------------
(* Constants of the TLC runs of SiteJobs.                                  *)
EXTENDS SiteJobs

CONSTANTS j1, j2, w1, w2

OneTenant  == [j \in Jobs |-> "t1"]
Equal      == [j \in Jobs |-> 100]
=============================================================================
