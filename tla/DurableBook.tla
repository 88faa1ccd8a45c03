----------------------------- MODULE DurableBook -----------------------------
(***************************************************************************)
(* What Save promises of the book of a TM2 seed, without its locks, its    *)
(* generation counter or its two callers: the file is only ever replaced   *)
(* whole, by an image the map had at one instant of this same process; one *)
(* image at a time is on its way there; and the book stops owing a save    *)
(* only when every record it holds would come back from the file.          *)
(*                                                                         *)
(* SeedBookDurable shows that SeedBook does this.                          *)
(***************************************************************************)
EXTENDS BookRecords, Sequences

CONSTANTS InitialFiles, Missing, Corrupt

VARIABLES
    up,       \* the process runs
    peers,    \* the map
    disk,     \* the file
    pending,  \* the image on its way to the file: none or one
    owes      \* a save is owed

vars == <<up, peers, disk, pending, owes>>

\* A restart from this file would give back the record the map has, to the
\* second: only a mention the file leaves undated may be dated anew.
ComesBack(file, book, a) ==
    /\ file \in Books /\ file[a] # NoRecord
    /\ [file[a] EXCEPT !.lastSeen = 0] = [OnFile(book[a]) EXCEPT !.lastSeen = 0]
    /\ file[a].lastSeen \in {0, ToSecond(book[a].lastSeen)}

AllComeBack(file, book) == \A a \in Held(book) : ComesBack(file, book, a)

Init ==
    /\ up = FALSE
    /\ peers = EmptyBook
    /\ disk \in InitialFiles
    /\ pending = <<>>
    /\ owes = FALSE

\* Whatever it was, a change is owed to the file.
Change ==
    /\ up
    /\ peers' \in Books
    /\ owes' = TRUE
    /\ UNCHANGED <<up, disk, pending>>

Begin ==
    /\ up
    /\ owes
    /\ pending = <<>>
    /\ pending' = <<Image(peers)>>
    /\ UNCHANGED <<up, peers, disk, owes>>

Commit ==
    /\ up
    /\ pending # <<>>
    /\ disk' = Head(pending)
    /\ pending' = <<>>
    /\ UNCHANGED <<up, peers, owes>>

\* A write that fails leaves the file alone, and the save still owed.
Abandon ==
    /\ up
    /\ pending # <<>>
    /\ pending' = <<>>
    /\ UNCHANGED <<up, peers, disk, owes>>

Settle ==
    /\ up
    /\ owes
    /\ pending = <<>>
    /\ AllComeBack(disk, peers)
    /\ owes' = FALSE
    /\ UNCHANGED <<up, peers, disk, pending>>

Crash ==
    /\ up
    /\ up' = FALSE
    /\ peers' = EmptyBook
    /\ pending' = <<>>
    /\ owes' = FALSE
    /\ UNCHANGED disk

Recover ==
    /\ ~up
    /\ up' = TRUE
    /\ IF disk \in Books
       THEN /\ Held(peers') = Held(disk) \cap Taken(Addr)
            /\ AllComeBack(disk, peers')
       ELSE peers' = EmptyBook
    /\ UNCHANGED <<disk, pending, owes>>

Next == Change \/ Begin \/ Commit \/ Abandon \/ Settle \/ Crash \/ Recover

Spec == Init /\ [][Next]_vars
=============================================================================
