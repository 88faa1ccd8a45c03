--------------------------- MODULE SeedBookDurable ---------------------------
(* SeedBook implements DurableBook: what a saver that has not renamed its   *)
(* file yet has read is the image on its way, and dirty is what is owed.    *)
EXTENDS SeedBook, Sequences

Writers == {s \in Savers : saver[s].pc = "writing"}

OnItsWay ==
    IF Writers = {} THEN <<>> ELSE << saver[CHOOSE s \in Writers : TRUE].entries >>

Durable == INSTANCE DurableBook WITH pending <- OnItsWay, owes <- dirty

\* Two savers, a map that moves while they write, writes that fail, crashes and
\* restarts: seen from the file, saves happen one at a time, each puts there
\* what the map was at one instant, and none is forgotten while it is owed.
ImplementsDurable == Durable!Spec
=============================================================================
