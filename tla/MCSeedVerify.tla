---------------------------- MODULE MCSeedVerify ----------------------------
(* Small instances of SeedVerify.                                           *)
EXTENDS SeedVerify, TLC

CONSTANTS a1, a2, w1, w2, r1

OneAddr == {a1}
OneBatch == {{a1}}
TwoWorkers == {w1, w2}
TwoAddr == {a1, a2}
OneWorker == {w1}
OneReceiver == {r1}
=============================================================================
