----------------------------- MODULE MCSeedLife -----------------------------
(* A home that may get either of two identities, and any number of starts. *)
EXTENDS SeedLife

CONSTANTS i1, i2

TwoIds == {i1, i2}
=============================================================================
