----------------------------- MODULE MCSeedBook -----------------------------
(* Small instances of SeedBook: addresses that can be reached, one the rule *)
(* refuses and this node's own, in a book that holds fewer than there are.  *)
EXTENDS SeedBookDurable, TLC

CONSTANTS a1, a2, a3, bad, self

\* For the operations on the map: every kind of address, no saver.
MCAddr == {a1, a2, a3, bad, self}
MCAdmissible == {a1, a2, a3, self}
MCSameAsSelf == {self}
NoSavers == {}

\* The addresses that are not special: no file and no step tells them apart.
MCSymmetry == Permutations({a1, a2, a3})

\* A file a core node wrote: no verification state, entries dated or not, an
\* address the rule refuses, this node's own, and more entries than MaxPeers.
CoreFile(addrs, date) == [a \in addrs |-> Mentioned(date)]

MCInitialFiles == {Missing, Corrupt, CoreFile(MCAddr, 0), CoreFile(MCAddr, Second)}

\* For the two savers: two addresses and this node's own.
SaveAddr == {a1, a2, self}
SaveFiles == {Missing, CoreFile(SaveAddr, 0)}
RoomyAddr == {a1, a2}
RoomyFiles == {Missing, CoreFile(RoomyAddr, 0)}
SaveSymmetry == Permutations({a1, a2})
BothSavers == {"persist", "flush"}
=============================================================================
