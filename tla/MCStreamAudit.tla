---------------------------- MODULE MCStreamAudit ----------------------------
(* Instances of StreamAudit for TLC.                                        *)
EXTENDS StreamAudit

CONSTANTS r1, r2
=============================================================================
