------------------------------ MODULE SeedBook ------------------------------
(***************************************************************************)
(* The address book of a TM2 seed (seedbook.go): the map under mtx, the    *)
(* file it is saved to, and the two callers of Save - the persist loop of  *)
(* the reactor and the Flush of its OnStop - which snapshot the map under  *)
(* mtx, write without it, and take it again to clear dirty.                *)
(*                                                                         *)
(* Every operation that holds mtx from its first line to its last is one   *)
(* action.  A save is three, because the map moves between them.           *)
(*                                                                         *)
(* The counter `generation` is only ever compared with the value a saver   *)
(* read at its snapshot, so it is kept as that comparison: saver[s].moved  *)
(* says that generation has gone up since s read it.                       *)
(***************************************************************************)
EXTENDS BookRecords

CONSTANTS
    Savers,        \* the callers of Save: "persist", "flush", or both
    InitialFiles,  \* what the file may be before this seed's first start
    Missing,       \* no file
    Corrupt,       \* a file json.Unmarshal refuses
    MaxLearned,    \* the most addresses one call to AddPeers brings
    MaxTime,       \* bound on the clock
    MaxFails       \* bound on the consecutive failures counted

ASSUME FilesAssumption ==
    /\ InitialFiles \subseteq Books \cup {Missing, Corrupt}
    /\ Missing \notin Books /\ Corrupt \notin Books
    /\ \A f \in InitialFiles \cap Books : Whole(f)
ASSUME SaversAssumption == Savers \subseteq {"persist", "flush"}
ASSUME BoundsAssumption == MaxLearned \in Nat /\ MaxTime \in Nat /\ MaxFails \in Nat

VARIABLES
    up,      \* the process runs
    now,     \* the wall clock
    peers,   \* the map
    dirty,   \* it has changed since the last save that succeeded
    saver,   \* what each caller of Save is doing
    disk,    \* the file
    aside    \* a copy of a corrupt file has been kept beside it

vars == <<up, now, peers, dirty, saver, disk, aside>>

\* idle: not in Save.  waiting: Flush has set dirty and waits for saveMtx.
\* writing: snapshot taken.  written: the file is renamed into place.
\* done: OnStop has run, which it does once in a process.
SaverStates == [pc : {"idle", "waiting", "writing", "written", "done"},
                moved : BOOLEAN, entries : Books]

TypeOK ==
    /\ up \in BOOLEAN
    /\ now \in Nat
    /\ peers \in Books
    /\ dirty \in BOOLEAN
    /\ saver \in [Savers -> SaverStates]
    /\ disk \in Books \cup {Missing, Corrupt}
    /\ aside \in BOOLEAN

Resting == [pc |-> "idle", moved |-> FALSE, entries |-> EmptyBook]
AllResting == [s \in Savers |-> Resting]

Init ==
    /\ up = FALSE
    /\ now = Second
    /\ peers = EmptyBook
    /\ dirty = FALSE
    /\ saver = AllResting
    /\ disk \in InitialFiles
    /\ aside = FALSE

-----------------------------------------------------------------------------
(* Coming up, going down, and the clock.                                   *)

\* NewSeedBook: a missing or corrupt file is an empty book.  The copy of a
\* corrupt file may fail, which is logged and nothing else.
Start ==
    /\ ~up
    /\ up' = TRUE
    /\ peers' = IF disk \in {Missing, Corrupt} THEN EmptyBook ELSE Loaded(disk, now)
    /\ aside' \in IF disk = Corrupt THEN {aside, TRUE} ELSE {aside}
    /\ UNCHANGED <<now, dirty, saver, disk>>

\* The process ends, in order or not: what is not on disk is gone.  The file
\* is replaced by a rename, so it is never half written.
Exit ==
    /\ up
    /\ up' = FALSE
    /\ peers' = EmptyBook
    /\ dirty' = FALSE
    /\ saver' = AllResting
    /\ UNCHANGED <<now, disk, aside>>

Tick ==
    /\ now < MaxTime
    /\ now' = now + 1
    /\ UNCHANGED <<up, peers, dirty, saver, disk, aside>>

-----------------------------------------------------------------------------
(* The operations on the map.                                              *)

\* The saver has read the map and generation, and is not back from Save yet:
\* it holds saveMtx.
Busy(s) == saver[s].pc \in {"writing", "written"}

\* generation++, as seen by a saver that has read it and not compared it yet.
Moved == [s \in Savers |-> [saver[s] EXCEPT !.moved = @ \/ Busy(s)]]

Changed ==
    /\ dirty' = TRUE
    /\ saver' = Moved

\* learn() returns early on nothing kept, and keeps maxAddressesLearned.
Answers == {S \in SUBSET Addr : Cardinality(S) \in 1..MaxLearned}

\* Eviction sets dirty and leaves generation alone.
AddPeers(S) ==
    /\ up
    /\ LET grown == Added(peers, S, now)
       IN  \E D \in Evictable(grown) :
            /\ peers' = Without(grown, D)
            /\ dirty' = (dirty \/ Taken(S) # {} \/ D # {})
    /\ saver' = IF Taken(S) # {} THEN Moved ELSE saver
    /\ UNCHANGED <<up, now, disk, aside>>

\* The switch never connects a node to itself, so a success is never on one
\* of this node's own addresses; what is inadmissible is not stored.
MarkSuccess(a) ==
    /\ up
    /\ a \notin SameAsSelf
    /\ admissible(a)
    /\ peers' = Succeeded(peers, a, now)
    /\ Changed
    /\ UNCHANGED <<up, now, disk, aside>>

\* An attempt is on an address some sweep read from the book, which may have
\* left it since: the entry is then made again.
MarkAttempt(a) ==
    /\ up
    /\ a \notin SameAsSelf
    /\ admissible(a)
    /\ Entry(peers, a, now).fails < MaxFails
    /\ peers' = Attempted(peers, a, now)
    /\ Changed
    /\ UNCHANGED <<up, now, disk, aside>>

\* Mutant of DropFailing: what was dropped is not a change to save.
DropUnsaved(limit) ==
    /\ up
    /\ Failing(peers, limit) # {}
    /\ peers' = Without(peers, Failing(peers, limit))
    /\ UNCHANGED <<up, now, dirty, saver, disk, aside>>

DropFailing(limit) ==
    /\ up
    /\ Failing(peers, limit) # {}
    /\ peers' = Without(peers, Failing(peers, limit))
    /\ Changed
    /\ UNCHANGED <<up, now, disk, aside>>

-----------------------------------------------------------------------------
(* Saving.                                                                 *)

\* Mutant of SaveMtxFree: no saveMtx.
NoSaveMtx == TRUE

\* No saver holds saveMtx.
SaveMtxFree == \A s \in Savers : ~Busy(s)

\* Where a saver goes when Save returns.
Returned(s) == [Resting EXCEPT !.pc = IF s = "flush" THEN "done" ELSE "idle"]

\* Flush, up to its call to Save.
FlushMark(s) ==
    /\ up
    /\ s = "flush"
    /\ saver[s].pc = "idle"
    /\ dirty' = TRUE
    /\ saver' = [saver EXCEPT ![s].pc = "waiting"]
    /\ UNCHANGED <<up, now, peers, disk, aside>>

EntersSave(s) ==
    /\ up
    /\ saver[s].pc = IF s = "flush" THEN "waiting" ELSE "idle"
    /\ SaveMtxFree

\* Nothing to save: only a flush that waited goes on from there.
SaveNothing(s) ==
    /\ EntersSave(s)
    /\ s = "flush"
    /\ ~dirty
    /\ saver' = [saver EXCEPT ![s] = Returned(s)]
    /\ UNCHANGED <<up, now, peers, dirty, disk, aside>>

Snapshot(s) ==
    /\ EntersSave(s)
    /\ dirty
    /\ saver' = [saver EXCEPT ![s] =
                    [pc |-> "writing", moved |-> FALSE, entries |-> Image(peers)]]
    /\ UNCHANGED <<up, now, peers, dirty, disk, aside>>

WriteOK(s) ==
    /\ up
    /\ saver[s].pc = "writing"
    /\ disk' = saver[s].entries
    /\ saver' = [saver EXCEPT ![s].pc = "written", ![s].entries = EmptyBook]
    /\ UNCHANGED <<up, now, peers, dirty, aside>>

\* Mutant of WriteFails: dirty is cleared all the same.
WriteFailsClean(s) ==
    /\ up
    /\ saver[s].pc = "writing"
    /\ saver' = [saver EXCEPT ![s] = Returned(s)]
    /\ dirty' = FALSE
    /\ UNCHANGED <<up, now, peers, disk, aside>>

\* WriteFileAtomic returns an error: the file stays what it was, and dirty too.
WriteFails(s) ==
    /\ up
    /\ saver[s].pc = "writing"
    /\ saver' = [saver EXCEPT ![s] = Returned(s)]
    /\ UNCHANGED <<up, now, peers, dirty, disk, aside>>

\* Mutant of SaveEnd: generation is not compared.
SaveEndBlind(s) ==
    /\ up
    /\ saver[s].pc = "written"
    /\ dirty' = FALSE
    /\ saver' = [saver EXCEPT ![s] = Returned(s)]
    /\ UNCHANGED <<up, now, peers, disk, aside>>

SaveEnd(s) ==
    /\ up
    /\ saver[s].pc = "written"
    /\ dirty' = (dirty /\ saver[s].moved)
    /\ saver' = [saver EXCEPT ![s] = Returned(s)]
    /\ UNCHANGED <<up, now, peers, disk, aside>>

SaveStep(s) ==
    \/ FlushMark(s) \/ SaveNothing(s) \/ Snapshot(s)
    \/ WriteOK(s) \/ WriteFails(s) \/ SaveEnd(s)

Stopping == "flush" \in Savers /\ saver["flush"].pc # "idle"

-----------------------------------------------------------------------------
Next ==
    \/ Start \/ Exit \/ Tick
    \/ \E S \in Answers : AddPeers(S)
    \/ \E a \in Addr : MarkSuccess(a) \/ MarkAttempt(a)
    \/ \E limit \in 1..MaxFails : DropFailing(limit)
    \/ \E s \in Savers : SaveStep(s)

\* The persist loop comes round every bookSaveInterval until OnStop, and a
\* save that has begun goes on to its end.  A disk that is asked again and
\* again accepts a write in the end: an assumption on the disk, not the code.
Fairness ==
    /\ WF_vars(~Stopping /\ Snapshot("persist"))
    /\ SF_vars(WriteOK("persist"))
    /\ \A s \in Savers : WF_vars(WriteOK(s) \/ WriteFails(s)) /\ WF_vars(SaveEnd(s))

Spec == Init /\ [][Next]_vars
FairSpec == Spec /\ Fairness

-----------------------------------------------------------------------------
(* Properties.                                                             *)

\* A restart now would give back the record the map has, to the second.  An
\* entry a core node wrote without a mention keeps its zero on file.
ComesBack(a) ==
    /\ disk \in Books /\ disk[a] # NoRecord
    /\ [disk[a] EXCEPT !.lastSeen = 0] = [OnFile(peers[a]) EXCEPT !.lastSeen = 0]
    /\ disk[a].lastSeen \in {0, ToSecond(peers[a].lastSeen)}

\* Save's `dirty`: when the map is clean, a restart gives back every record it
\* holds.  Two savers, a map that moves while they write and writes that fail
\* must not lead to a clean map whose file is older.
CleanIsSaved == up /\ ~dirty => \A a \in Held(peers) : ComesBack(a)

\* saveMtx lets one saver at a time past its snapshot.
OneWriter == \A s, t \in Savers : Busy(s) /\ Busy(t) => s = t

\* dirty stays set until that saver is back.
WritersAreDirty == \A s \in Savers : Busy(s) => dirty

\* As long as generation has not moved, what the saver read, then what it
\* wrote, has every record the map still holds: eviction only takes some away.
SnapshotsHold ==
    \A s \in Savers : ~saver[s].moved =>
        \A a \in Held(peers) :
            /\ saver[s].pc = "writing" => saver[s].entries[a] = OnFile(peers[a])
            /\ saver[s].pc = "written" => disk \in Books /\ disk[a] = OnFile(peers[a])

RestWhenDown == ~up => saver = AllResting

FilesAreWhole ==
    /\ disk \in Books => Whole(disk)
    /\ \A s \in Savers : Whole(saver[s].entries)

\* What makes CleanIsSaved inductive: the protocol of Save between its two
\* critical sections, for both savers at once.
SaveInvariant ==
    CleanIsSaved /\ RestWhenDown /\ OneWriter /\ WritersAreDirty
        /\ SnapshotsHold /\ FilesAreWhole

\* The other direction, for a book that never reaches its ceiling: when the map
\* is clean, a restart brings back nothing that was dropped from it.
DroppedStayDropped ==
    up /\ ~dirty /\ Cardinality(Addr) <= MaxPeers /\ disk \in Books
        => \A a \in Taken(Addr) \ Held(peers) : disk[a] = NoRecord

\* admissible(): nothing the rule refuses is ever held, whether it came as
\* hearsay, as a success, as an attempt or from the file; and this node's own
\* addresses are not held either.
OnlyAdmissible == \A a \in Held(peers) : a \in Admissible \ SameAsSelf

\* evict(): a reached address leaves the book of a running seed for its own
\* failures, or because the book is full of addresses reached more recently.
\* Hearsay alone never pushes it out.
ReachedLeaveLast ==
    [][ up /\ up' => \A a \in Held(peers) \ Held(peers') :
            Reached(peers[a]) =>
                \/ peers[a].fails > 0
                \/ /\ Cardinality(Held(peers')) = MaxPeers
                   /\ \A k \in Held(peers') :
                        Reached(peers'[k]) /\ peers[a].lastOK <= peers'[k].lastOK
      ]_vars

\* AddPeers ends with evict(): however far over its ceiling successes,
\* attempts and the file have taken the book, an address only mentioned is
\* never taken in without the book being back under it.
HearsayKeepsCeiling ==
    [][ up /\ up' /\ Cardinality(Held(peers')) > MaxPeers
          => \A a \in Held(peers') \ Held(peers) : peers'[a].lastTry # Never ]_vars

\* persist(): the success of an address still held reaches the disk, whatever
\* else goes on, unless the seed stops first.
SuccessReachesDisk ==
    \A a \in Addr, t \in Second..MaxTime :
        (up /\ a \in Held(peers) /\ peers[a].lastOK = t)
            ~> \/ ~up \/ Stopping \/ a \notin Held(peers)
               \/ disk \in Books /\ disk[a] # NoRecord /\ disk[a].lastOK >= ToSecond(t)
=============================================================================
