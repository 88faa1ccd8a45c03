--------------------------- MODULE SeedBookProofs ---------------------------
(* Theorems about the address book, for any addresses, any ceiling, any     *)
(* clock and any number of operations.                                      *)
EXTENDS SeedBook, BookRecordsProofs, FiniteSetTheorems

-----------------------------------------------------------------------------
(* Types.                                                                  *)

LEMMA MovedType ==
    ASSUME saver \in [Savers -> SaverStates]
    PROVE  Moved \in [Savers -> SaverStates]
  BY DEF Moved, SaverStates, Busy

\* Every variable keeps its type, whatever the operations and the saves do.
THEOREM TypeCorrect == Spec => []TypeOK
<1>1. Init => TypeOK
  <2>1. EmptyBook \in Books
    BY DEF EmptyBook, Books
  <2>2. AllResting \in [Savers -> SaverStates]
    BY <2>1 DEF AllResting, Resting, SaverStates
  <2> QED
    BY <2>1, <2>2, SecondAssumption, FilesAssumption DEF Init, TypeOK
<1>2. TypeOK /\ [Next]_vars => TypeOK'
  <2> SUFFICES ASSUME TypeOK, [Next]_vars PROVE TypeOK'
    OBVIOUS
  <2> USE DEF TypeOK
  <2>0. EmptyBook \in Books /\ AllResting \in [Savers -> SaverStates]
    BY BookTypes DEF AllResting, Resting, SaverStates
  <2>1. CASE Start
    BY <2>1, BookTypes DEF Start
  <2>2. CASE Exit
    BY <2>2, <2>0 DEF Exit
  <2>3. CASE Tick
    BY <2>3 DEF Tick
  <2>4. ASSUME NEW S \in Answers, AddPeers(S) PROVE TypeOK'
    <3>1. Added(peers, S, now) \in Books
      BY BookTypes DEF Answers
    <3>2. PICK D \in Evictable(Added(peers, S, now)) : peers' = Without(Added(peers, S, now), D)
      BY <2>4 DEF AddPeers
    <3>3. D \in SUBSET Addr
      BY <3>2 DEF Evictable, Held
    <3>4. peers' \in Books
      BY <3>1, <3>2, <3>3, BookTypes
    <3>5. dirty' \in BOOLEAN /\ saver' \in [Savers -> SaverStates]
      BY <2>4, MovedType DEF AddPeers
    <3> QED
      BY <2>4, <3>4, <3>5 DEF AddPeers
  <2>5. ASSUME NEW a \in Addr, MarkSuccess(a) PROVE TypeOK'
    BY <2>5, BookTypes, MovedType DEF MarkSuccess, Changed
  <2>6. ASSUME NEW a \in Addr, MarkAttempt(a) PROVE TypeOK'
    BY <2>6, BookTypes, MovedType DEF MarkAttempt, Changed
  <2>7. ASSUME NEW limit \in 1..MaxFails, DropFailing(limit) PROVE TypeOK'
    <3>1. Failing(peers, limit) \in SUBSET Addr
      BY DEF Failing, Held
    <3> QED
      BY <2>7, <3>1, BookTypes, MovedType DEF DropFailing, Changed
  <2>8. ASSUME NEW s \in Savers, SaveStep(s) PROVE TypeOK'
    <3>0. Returned(s) \in SaverStates
      BY <2>0 DEF Returned, Resting, SaverStates
    <3>1. CASE FlushMark(s)
      BY <3>1 DEF FlushMark, SaverStates
    <3>2. CASE SaveNothing(s)
      BY <3>0, <3>2 DEF SaveNothing
    <3>3. CASE Snapshot(s)
      BY <3>3, BookTypes DEF Snapshot, SaverStates
    <3>4. CASE WriteOK(s)
      BY <2>0, <3>4 DEF WriteOK, SaverStates
    <3>5. CASE WriteFails(s)
      BY <3>0, <3>5 DEF WriteFails
    <3>6. CASE SaveEnd(s)
      BY <3>0, <3>6 DEF SaveEnd
    <3> QED
      BY <2>8, <3>1, <3>2, <3>3, <3>4, <3>5, <3>6 DEF SaveStep
  <2>9. CASE UNCHANGED vars
    BY <2>9 DEF vars
  <2> QED
    BY <2>1, <2>2, <2>3, <2>4, <2>5, <2>6, <2>7, <2>8, <2>9 DEF Next
<1> QED
  BY <1>1, <1>2, PTL DEF Spec

-----------------------------------------------------------------------------
(* What may be held.                                                       *)

\* An address the rule refuses, or this node's own, is never in the book,
\* whichever of the four ways it came by.
THEOREM AdmissibleOnly == Spec => []OnlyAdmissible
<1>1. Init => OnlyAdmissible
  BY DEF Init, OnlyAdmissible, Held, EmptyBook
<1>2. TypeOK /\ OnlyAdmissible /\ [Next]_vars => OnlyAdmissible'
  <2> SUFFICES ASSUME TypeOK, OnlyAdmissible, [Next]_vars PROVE OnlyAdmissible'
    OBVIOUS
  <2> USE DEF OnlyAdmissible, Held
  <2>1. CASE Start
    BY <2>1 DEF Start, Loaded, Taken, admissible, EmptyBook
  <2>2. CASE Exit
    BY <2>2 DEF Exit, EmptyBook
  <2>3. CASE Tick
    BY <2>3 DEF Tick
  <2>4. ASSUME NEW S \in Answers, AddPeers(S) PROVE OnlyAdmissible'
    <3>1. PICK D \in Evictable(Added(peers, S, now)) : peers' = Without(Added(peers, S, now), D)
      BY <2>4 DEF AddPeers
    <3> QED
      BY <3>1 DEF Without, Added, Taken, admissible
  <2>5. ASSUME NEW a \in Addr, MarkSuccess(a) PROVE OnlyAdmissible'
    BY <2>5 DEF MarkSuccess, Succeeded, admissible, TypeOK, Books
  <2>6. ASSUME NEW a \in Addr, MarkAttempt(a) PROVE OnlyAdmissible'
    BY <2>6 DEF MarkAttempt, Attempted, admissible, TypeOK, Books
  <2>7. ASSUME NEW limit \in 1..MaxFails, DropFailing(limit) PROVE OnlyAdmissible'
    BY <2>7 DEF DropFailing, Without
  <2>8. ASSUME NEW s \in Savers, SaveStep(s) PROVE OnlyAdmissible'
    BY <2>8 DEF SaveStep, FlushMark, SaveNothing, Snapshot, WriteOK, WriteFails, SaveEnd
  <2>9. CASE UNCHANGED vars
    BY <2>9 DEF vars
  <2> QED
    BY <2>1, <2>2, <2>3, <2>4, <2>5, <2>6, <2>7, <2>8, <2>9 DEF Next
<1> QED
  BY <1>1, <1>2, TypeCorrect, PTL DEF Spec

-----------------------------------------------------------------------------
(* What is saved.                                                          *)

LEMMA ToSecondTwice ==
    ASSUME NEW t \in Nat
    PROVE  ToSecond(ToSecond(t)) = ToSecond(t)
  BY SecondAssumption, SMT DEF ToSecond

LEMMA OnFileTwice ==
    ASSUME NEW r \in Record
    PROVE  OnFile(OnFile(r)) = OnFile(r)
  BY ToSecondType, ToSecondTwice DEF Record, OnFile

LEMMA ImageWhole ==
    ASSUME NEW b \in Books
    PROVE  Whole(Image(b))
  BY OnFileTwice DEF Books, Whole, Image

\* A saver that has not come to its snapshot makes no claim on the file.
LEMMA RestingClaimsNothing ==
    ASSUME NEW s \in Savers
    PROVE  /\ Returned(s).pc \notin {"writing", "written"}
           /\ Whole(Returned(s).entries)
           /\ Resting.pc \notin {"writing", "written"}
           /\ Whole(Resting.entries)
  BY DEF Returned, Resting, Whole, EmptyBook

\* An operation that sets dirty and moves generation disturbs nothing,
\* whatever it does to the map: no saver may clear dirty for it.
LEMMA ChangePreserves ==
    ASSUME TypeOK, SaveInvariant, up, Changed, UNCHANGED <<up, disk>>
    PROVE  SaveInvariant'
<1>1. \A s \in Savers : /\ saver'[s].pc = saver[s].pc
                        /\ saver'[s].entries = saver[s].entries
                        /\ Busy(s) => saver'[s].moved
  BY DEF Changed, Moved, TypeOK, SaverStates
<1>2. dirty' /\ up'
  BY DEF Changed
<1>3. CleanIsSaved' /\ RestWhenDown' /\ WritersAreDirty'
  BY <1>2 DEF CleanIsSaved, RestWhenDown, WritersAreDirty
<1>4. OneWriter' /\ FilesAreWhole' /\ SnapshotsHold'
  BY <1>1 DEF SaveInvariant, OneWriter, FilesAreWhole, SnapshotsHold, Busy, Whole
<1> QED
  BY <1>3, <1>4 DEF SaveInvariant

\* An eviction that moves no generation disturbs nothing either: it may set
\* dirty or find it set, and every record left is one that was there.
LEMMA EvictionPreserves ==
    ASSUME TypeOK, SaveInvariant, NEW D \in SUBSET Addr,
           peers' = Without(peers, D), dirty' \in BOOLEAN, dirty => dirty',
           UNCHANGED <<up, saver, disk>>
    PROVE  SaveInvariant'
<1>1. \A a \in Held(peers)' : a \in Held(peers) /\ peers'[a] = peers[a]
  BY DEF Held, Without
<1>2. CleanIsSaved'
  BY <1>1 DEF SaveInvariant, CleanIsSaved, ComesBack, TypeOK
<1>3. SnapshotsHold'
  BY <1>1 DEF SaveInvariant, SnapshotsHold
<1>4. OneWriter' /\ FilesAreWhole' /\ RestWhenDown' /\ WritersAreDirty'
  BY DEF SaveInvariant, OneWriter, FilesAreWhole, RestWhenDown, WritersAreDirty, Busy, Whole
<1> QED
  BY <1>2, <1>3, <1>4 DEF SaveInvariant

\* A restart reads back what is on file.
LEMMA StartReads ==
    ASSUME TypeOK, SaveInvariant, Start, NEW a \in Held(peers)'
    PROVE  ComesBack(a)'
<1> USE DEF Start
<1>1. disk \in Books /\ peers' = Loaded(disk, now)
  BY DEF TypeOK, Held, EmptyBook
<1>2. disk[a] \in Record /\ disk[a] # NoRecord /\ OnFile(disk[a]) = disk[a]
  BY <1>1, NoRecordAssumption DEF Held, Loaded, SaveInvariant, FilesAreWhole, Whole, Books
<1>3. peers'[a] = [disk[a] EXCEPT !.lastSeen = IF disk[a].lastSeen = 0 THEN now ELSE disk[a].lastSeen]
  BY <1>1 DEF Held, Loaded
<1>4. OnFile(peers'[a]) = [OnFile(disk[a]) EXCEPT !.lastSeen = ToSecond(peers'[a].lastSeen)]
  BY <1>2, <1>3 DEF OnFile, Record
<1>5. [disk[a] EXCEPT !.lastSeen = 0] = [OnFile(peers'[a]) EXCEPT !.lastSeen = 0]
  BY <1>2, <1>4 DEF Record
<1>6. disk[a].lastSeen # 0 => disk[a].lastSeen = ToSecond(peers'[a].lastSeen)
  BY <1>2, <1>3 DEF OnFile, Record
<1> QED
  BY <1>1, <1>2, <1>5, <1>6 DEF ComesBack

\* So the new map is saved from the start.
LEMMA StartPreserves ==
    ASSUME TypeOK, SaveInvariant, Start
    PROVE  SaveInvariant'
<1>1. saver = AllResting /\ saver' = saver
  BY DEF Start, SaveInvariant, RestWhenDown
<1>2. \A s \in Savers : ~Busy(s)' /\ saver[s].pc = "idle"
  BY <1>1 DEF Busy, AllResting, Resting
<1>3. CleanIsSaved'
  BY StartReads DEF CleanIsSaved
<1>4. OneWriter' /\ WritersAreDirty' /\ SnapshotsHold' /\ FilesAreWhole' /\ RestWhenDown'
  BY <1>1, <1>2 DEF Start, OneWriter, WritersAreDirty, SnapshotsHold, FilesAreWhole,
                    RestWhenDown, SaveInvariant, Busy, Whole
<1> QED
  BY <1>3, <1>4 DEF SaveInvariant

LEMMA ExitPreserves ==
    ASSUME TypeOK, SaveInvariant, Exit
    PROVE  SaveInvariant'
<1>1. \A s \in Savers : saver'[s] = Resting
  BY DEF Exit, AllResting
<1>2. \A s \in Savers : ~Busy(s)' /\ Whole(saver'[s].entries)
  BY <1>1, RestingClaimsNothing DEF Busy
<1>3. Held(peers)' = {}
  BY DEF Exit, Held, EmptyBook
<1> QED
  BY <1>1, <1>2, <1>3
     DEF Exit, SaveInvariant, CleanIsSaved, RestWhenDown, OneWriter, WritersAreDirty,
         SnapshotsHold, FilesAreWhole, Whole

\* A save takes its snapshot, writes it and clears dirty in three steps; the
\* two that end in an error or with nothing to do leave no trace.
LEMMA SaveStepPreserves ==
    ASSUME TypeOK, SaveInvariant, NEW s \in Savers, SaveStep(s)
    PROVE  SaveInvariant'
<1> USE DEF SaveInvariant
<1>0. up /\ up' /\ RestWhenDown' /\ peers' = peers /\ Held(peers)' = Held(peers)
  BY DEF SaveStep, FlushMark, SaveNothing, Snapshot, WriteOK, WriteFails, SaveEnd,
         EntersSave, RestWhenDown
<1>1. \A t \in Savers : t # s => saver'[t] = saver[t]
  BY DEF SaveStep, FlushMark, SaveNothing, Snapshot, WriteOK, WriteFails, SaveEnd, TypeOK
<1>2. \A t \in Savers : Busy(s) /\ t # s => ~Busy(t)
  BY DEF OneWriter
<1>3. CASE FlushMark(s)
  <2>1. saver'[s] = [saver[s] EXCEPT !.pc = "waiting"] /\ dirty' /\ disk' = disk
    BY <1>3 DEF FlushMark, TypeOK
  <2>2. saver'[s].entries = saver[s].entries /\ saver'[s].pc = "waiting"
    BY <2>1 DEF TypeOK, SaverStates
  <2>3. \A t \in Savers : Busy(t)' => Busy(t) /\ t # s
    BY <1>1, <2>2 DEF Busy
  <2>4. CleanIsSaved' /\ OneWriter' /\ WritersAreDirty'
    BY <2>1, <2>3 DEF CleanIsSaved, OneWriter, WritersAreDirty
  <2>5. SnapshotsHold'
    <3> SUFFICES ASSUME NEW t \in Savers, ~saver'[t].moved, NEW a \in Held(peers)
                 PROVE  /\ saver'[t].pc = "writing" => saver'[t].entries[a] = OnFile(peers[a])
                        /\ saver'[t].pc = "written" => disk \in Books /\ disk[a] = OnFile(peers[a])
      BY <1>0, <2>1 DEF SnapshotsHold
    <3>1. CASE t = s
      BY <2>2, <3>1
    <3>2. CASE t # s
      BY <1>1, <3>2 DEF SnapshotsHold
    <3> QED
      BY <3>1, <3>2
  <2>6. FilesAreWhole'
    <3>1. \A t \in Savers : saver'[t].entries = saver[t].entries
      BY <1>1, <2>2
    <3> QED
      BY <2>1, <3>1 DEF FilesAreWhole, Whole
  <2> QED
    BY <1>0, <2>4, <2>5, <2>6
<1>4. CASE SaveNothing(s) \/ WriteFails(s)
  <2>1. saver'[s] = Returned(s) /\ UNCHANGED <<dirty, disk>>
    BY <1>4 DEF SaveNothing, WriteFails, TypeOK
  <2>2. ~Busy(s)' /\ Whole(saver'[s].entries)
    BY <2>1, RestingClaimsNothing DEF Busy
  <2>3. CleanIsSaved'
    BY <1>0, <2>1 DEF CleanIsSaved, ComesBack
  <2> QED
    BY <1>0, <1>1, <2>1, <2>2, <2>3
       DEF OneWriter, WritersAreDirty, SnapshotsHold, FilesAreWhole, Busy, Whole
<1>5. CASE Snapshot(s)
  <2>1. saver'[s] = [pc |-> "writing", moved |-> FALSE, entries |-> Image(peers)]
        /\ dirty' /\ disk' = disk
    BY <1>5 DEF Snapshot, TypeOK
  <2>2. \A t \in Savers : ~Busy(t)
    BY <1>5 DEF Snapshot, EntersSave, SaveMtxFree
  <2>3. Whole(Image(peers)) /\ \A a \in Held(peers) : Image(peers)[a] = OnFile(peers[a])
    BY ImageWhole DEF TypeOK, Held, Image
  <2> QED
    BY <1>0, <1>1, <2>1, <2>2, <2>3
       DEF CleanIsSaved, OneWriter, WritersAreDirty, SnapshotsHold, FilesAreWhole, Busy, Whole
<1>6. CASE WriteOK(s)
  <2>1. /\ saver'[s] = [saver[s] EXCEPT !.pc = "written", !.entries = EmptyBook]
        /\ saver[s].pc = "writing" /\ dirty' = dirty /\ disk' = saver[s].entries
    BY <1>6 DEF WriteOK, TypeOK
  <2>2. saver'[s].pc = "written" /\ saver'[s].moved = saver[s].moved
        /\ saver'[s].entries = EmptyBook
    BY <2>1 DEF TypeOK, SaverStates
  <2>3. dirty /\ \A t \in Savers : t # s => ~Busy(t)
    BY <1>2, <2>1 DEF WritersAreDirty, Busy
  <2>4. disk' \in Books /\ Whole(disk)'
    BY <2>1 DEF TypeOK, SaverStates, FilesAreWhole, Whole
  <2>5. SnapshotsHold'
    BY <1>0, <1>1, <2>1, <2>2, <2>3, <2>4 DEF SnapshotsHold, Busy
  <2>6. FilesAreWhole'
    BY <1>1, <2>2, <2>4 DEF FilesAreWhole, Whole, EmptyBook
  <2> QED
    BY <1>0, <1>1, <2>1, <2>2, <2>3, <2>5, <2>6
       DEF CleanIsSaved, OneWriter, WritersAreDirty, Busy
<1>7. CASE SaveEnd(s)
  <2>1. /\ saver'[s] = Returned(s) /\ disk' = disk /\ saver[s].pc = "written"
        /\ dirty' = (dirty /\ saver[s].moved)
    BY <1>7 DEF SaveEnd, TypeOK
  <2>2. ~Busy(s)' /\ Whole(saver'[s].entries)
    BY <2>1, RestingClaimsNothing DEF Busy
  <2>3. \A t \in Savers : ~Busy(t)'
    BY <1>1, <1>2, <2>1, <2>2 DEF Busy
  <2>4. CleanIsSaved'
    <3>1. CASE saver[s].moved
      BY <1>0, <2>1, <3>1 DEF CleanIsSaved, ComesBack, WritersAreDirty, Busy, TypeOK
    <3>2. CASE ~saver[s].moved
      <4>1. ASSUME NEW a \in Held(peers) PROVE ComesBack(a)
        <5>1. disk \in Books /\ disk[a] = OnFile(peers[a])
          BY <2>1, <3>2, <4>1 DEF SnapshotsHold
        <5>2. peers[a] \in Record
          BY <4>1 DEF TypeOK, Books, Held
        <5>3. OnFile(peers[a]) \in Record /\ OnFile(peers[a]).lastSeen = ToSecond(peers[a].lastSeen)
          BY <5>2, OnFileType DEF OnFile, Record
        <5> QED
          BY <5>1, <5>3, NoRecordAssumption DEF ComesBack
      <4> QED
        BY <1>0, <2>1, <4>1 DEF CleanIsSaved, ComesBack
    <3> QED
      BY <3>1, <3>2
  <2> QED
    BY <1>0, <1>1, <2>1, <2>2, <2>3, <2>4
       DEF OneWriter, WritersAreDirty, SnapshotsHold, FilesAreWhole, Busy, Whole
<1> QED
  BY <1>3, <1>4, <1>5, <1>6, <1>7 DEF SaveStep

LEMMA NextPreserves ==
    ASSUME TypeOK, SaveInvariant, [Next]_vars
    PROVE  SaveInvariant'
<1>1. CASE Start
  BY <1>1, StartPreserves
<1>2. CASE Exit
  BY <1>2, ExitPreserves
<1>3. CASE Tick \/ UNCHANGED vars
  BY <1>3
     DEF Tick, vars, SaveInvariant, CleanIsSaved, ComesBack, RestWhenDown, OneWriter,
         WritersAreDirty, SnapshotsHold, FilesAreWhole, Busy, Whole
<1>4. ASSUME NEW S \in Answers, AddPeers(S) PROVE SaveInvariant'
  <2>1. CASE Taken(S) # {}
    BY <1>4, <2>1, ChangePreserves DEF AddPeers, Changed
  <2>2. CASE Taken(S) = {}
    <3>1. Added(peers, S, now) = peers
      BY <2>2 DEF Added, TypeOK, Books
    <3>2. PICK D \in Evictable(peers) :
            /\ peers' = Without(peers, D)
            /\ dirty' = (dirty \/ Taken(S) # {} \/ D # {})
      BY <1>4, <3>1 DEF AddPeers
    <3>3. D \in SUBSET Addr
      BY <3>2 DEF Evictable, Held
    <3>4. dirty' \in BOOLEAN /\ (dirty => dirty') /\ UNCHANGED <<up, saver, disk>>
      BY <1>4, <2>2, <3>2 DEF AddPeers
    <3> QED
      BY <3>2, <3>3, <3>4, EvictionPreserves
  <2> QED
    BY <2>1, <2>2
<1>5. ASSUME NEW a \in Addr, MarkSuccess(a) \/ MarkAttempt(a) PROVE SaveInvariant'
  BY <1>5, ChangePreserves DEF MarkSuccess, MarkAttempt
<1>6. ASSUME NEW limit \in 1..MaxFails, DropFailing(limit) PROVE SaveInvariant'
  BY <1>6, ChangePreserves DEF DropFailing
<1>7. ASSUME NEW s \in Savers, SaveStep(s) PROVE SaveInvariant'
  BY <1>7, SaveStepPreserves
<1> QED
  BY <1>1, <1>2, <1>3, <1>4, <1>5, <1>6, <1>7 DEF Next

\* The protocol of Save, for both savers and any number of changes, failed
\* writes, exits and restarts.
THEOREM SaveInvariantHolds == Spec => []SaveInvariant
<1>1. Init => SaveInvariant
  <2> SUFFICES ASSUME Init PROVE SaveInvariant
    OBVIOUS
  <2>1. \A s \in Savers : saver[s] = Resting
    BY DEF Init, AllResting
  <2>2. \A s \in Savers : ~Busy(s) /\ Whole(saver[s].entries)
    BY <2>1, RestingClaimsNothing DEF Busy
  <2>3. disk \in Books => Whole(disk)
    BY FilesAssumption DEF Init
  <2>4. Held(peers) = {} /\ ~up /\ saver = AllResting
    BY DEF Init, Held, EmptyBook
  <2> QED
    BY <2>2, <2>3, <2>4
       DEF SaveInvariant, CleanIsSaved, RestWhenDown, OneWriter, WritersAreDirty,
           SnapshotsHold, FilesAreWhole
<1> QED
  BY <1>1, NextPreserves, TypeCorrect, PTL DEF Spec

\* When the map is clean, a restart gives back every record it holds.
THEOREM CleanSaved == Spec => []CleanIsSaved
<1>1. SaveInvariant => CleanIsSaved
  BY DEF SaveInvariant
<1> QED
  BY <1>1, SaveInvariantHolds, PTL

-----------------------------------------------------------------------------
(* What leaves the map.                                                    *)

\* Whatever eviction takes from a book over its ceiling, it leaves it full.
LEMMA EvictionFits ==
    ASSUME NEW b \in Books, NEW D \in Evictable(b)
    PROVE  /\ Held(Without(b, D)) = Held(b) \ D
           /\ Cardinality(Held(b) \ D) \in Nat
           /\ Cardinality(Held(b) \ D) <= MaxPeers
           /\ D # {} => Cardinality(Held(b) \ D) = MaxPeers
<1>1. D \in SUBSET Held(b) /\ Cardinality(D) = Excess(Cardinality(Held(b)))
  BY DEF Evictable
<1>2. IsFiniteSet(Held(b)) /\ IsFiniteSet(D)
  BY <1>1, AddrAssumption, FS_Subset DEF Held
<1>3. Held(b) \cap D = D
  BY <1>1
<1>4. Cardinality(Held(b)) \in Nat /\ Cardinality(D) \in Nat
  BY <1>2, FS_CardinalityType
<1>5. Cardinality(Held(b) \ D) = Cardinality(Held(b)) - Cardinality(D)
  BY <1>2, <1>3, FS_Difference
<1>6. D # {} => Cardinality(D) # 0
  BY <1>2, FS_EmptySet
<1>7. IsFiniteSet(Held(b) \ D) /\ Cardinality(Held(b) \ D) \in Nat
  BY <1>2, FS_Difference, FS_CardinalityType
<1>8. Held(Without(b, D)) = Held(b) \ D
  BY DEF Held, Without
<1> QED
  BY <1>1, <1>4, <1>5, <1>6, <1>7, <1>8, MaxPeersAssumption DEF Excess

\* A mark takes nothing out of the map.
LEMMA MarkHolds ==
    ASSUME NEW b \in Books, NEW a \in Addr, NEW t \in Nat
    PROVE  /\ Held(Succeeded(b, a, t)) = Held(b) \cup {a}
           /\ Held(Attempted(b, a, t)) = Held(b) \cup {a}
<1> DEFINE r == Entry(b, a, t)
           n == IF r.lastTry # Never /\ r.lastTry > r.lastOK THEN r.fails + 1 ELSE r.fails
           s == [r EXCEPT !.lastTry = t, !.lastOK = t, !.fails = 0]
           f == [r EXCEPT !.fails = n, !.lastTry = t]
<1>1. r \in Record
  BY EntryType
<1>2. s \in Record /\ f \in Record
  <2>1. n \in Nat
    BY <1>1 DEF Record
  <2> QED
    BY <1>1, <2>1, UpdateType
<1>3. Succeeded(b, a, t) = [b EXCEPT ![a] = s] /\ Attempted(b, a, t) = [b EXCEPT ![a] = f]
  BY DEF Succeeded, Attempted
<1>4. ASSUME NEW v \in Record PROVE Held([b EXCEPT ![a] = v]) = Held(b) \cup {a}
  BY NoRecordAssumption DEF Held, Books
<1> QED
  BY <1>2, <1>3, <1>4

\* A reached address leaves a running book for its failures, or because the
\* book is full of addresses reached more recently: never for hearsay.
THEOREM ReachedLeave == Spec => ReachedLeaveLast
<1> DEFINE Fair(a) ==
        \/ peers[a].fails > 0
        \/ /\ Cardinality(Held(peers')) = MaxPeers
           /\ \A k \in Held(peers') :
                Reached(peers'[k]) /\ peers[a].lastOK <= peers'[k].lastOK
<1>1. ASSUME TypeOK, Next, up, up', NEW a \in Held(peers) \ Held(peers'), Reached(peers[a])
      PROVE  Fair(a)
  <2>0. a \in Addr /\ peers[a] \in Record /\ peers[a] # NoRecord
    BY <1>1 DEF TypeOK, Books, Held
  <2>1. ASSUME NEW S \in Answers, AddPeers(S) PROVE Fair(a)
    <3> DEFINE grown == Added(peers, S, now)
    <3>1. grown \in Books /\ S \in SUBSET Addr
      BY <1>1, BookTypes DEF Answers, TypeOK
    <3>2. PICK D \in Evictable(grown) : peers' = Without(grown, D)
      BY <2>1 DEF AddPeers
    <3>3. grown[a] # NoRecord /\ grown[a].lastOK = peers[a].lastOK
      <4>1. grown[a] = IF a \in Taken(S) THEN [peers[a] EXCEPT !.lastSeen = now] ELSE peers[a]
        BY <2>0 DEF Added, Entry
      <4>2. [peers[a] EXCEPT !.lastSeen = now] \in Record
            /\ [peers[a] EXCEPT !.lastSeen = now].lastOK = peers[a].lastOK
        BY <1>1, <2>0 DEF Record, TypeOK
      <4> QED
        BY <2>0, <4>1, <4>2, NoRecordAssumption
    <3>4. a \in D
      BY <1>1, <2>0, <3>2, <3>3 DEF Held, Without
    <3>5. Cardinality(Held(peers')) = MaxPeers /\ Held(peers') = Held(grown) \ D
      BY <3>1, <3>2, <3>4, EvictionFits
    <3>6. ASSUME NEW k \in Held(peers')
          PROVE  Reached(peers'[k]) /\ peers[a].lastOK <= peers'[k].lastOK
      <4>1. k \in Held(grown) \ D /\ peers'[k] = grown[k]
        BY <3>2, <3>5, <3>6 DEF Held, Without
      <4>2. ~GoesBefore(grown[k], grown[a])
        BY <3>2, <3>4, <4>1 DEF Evictable
      <4>3. grown[k] \in Record /\ grown[a] \in Record
        BY <2>0, <3>1, <3>3, <4>1 DEF Books, Held
      <4> QED
        BY <1>1, <3>3, <4>1, <4>2, <4>3 DEF GoesBefore, Reached, Record
    <3> QED
      BY <3>5, <3>6
  <2>2. ASSUME NEW b \in Addr, MarkSuccess(b) \/ MarkAttempt(b) PROVE FALSE
    <3>1. Held(peers) \subseteq Held(peers')
      BY <1>1, <2>2, MarkHolds DEF MarkSuccess, MarkAttempt, TypeOK
    <3> QED
      BY <1>1, <3>1
  <2>3. ASSUME NEW limit \in 1..MaxFails, DropFailing(limit) PROVE Fair(a)
    BY <1>1, <2>0, <2>3 DEF DropFailing, Without, Failing, Held, Record
  <2>4. ASSUME NEW s \in Savers, SaveStep(s) PROVE FALSE
    BY <1>1, <2>4
       DEF SaveStep, FlushMark, SaveNothing, Snapshot, WriteOK, WriteFails, SaveEnd
  <2>5. ~Start /\ ~Exit /\ ~Tick
    BY <1>1 DEF Start, Exit, Tick
  <2> QED
    BY <1>1, <2>1, <2>2, <2>3, <2>4, <2>5 DEF Next
<1>2. TypeOK /\ [Next]_vars =>
        [up /\ up' => \A a \in Held(peers) \ Held(peers') : Reached(peers[a]) => Fair(a)]_vars
  BY <1>1
<1> QED
  BY <1>2, TypeCorrect, PTL DEF Spec, ReachedLeaveLast

-----------------------------------------------------------------------------
(* What comes in.                                                          *)

\* A mark dates the attempt, whether the address was held or not.
LEMMA MarkDates ==
    ASSUME NEW b \in Books, NEW a \in Addr, NEW t \in Nat
    PROVE  Succeeded(b, a, t)[a].lastTry = t /\ Attempted(b, a, t)[a].lastTry = t
<1>1. Entry(b, a, t) \in Record
  BY EntryType
<1> QED
  BY <1>1 DEF Succeeded, Attempted, Books, Record

\* Hearsay leaves the book at its ceiling or under it: above it, what is new
\* was reached or at least tried.  The clock must have started, since a date of
\* zero is none.
THEOREM CeilingKept == Spec => HearsayKeepsCeiling
<1> DEFINE Started == now \in Nat /\ now # Never
<1>1. Init => Started
  BY SecondAssumption DEF Init, Never
<1>2. Started /\ [Next]_vars => Started'
  <2>1. Tick \/ now' = now \/ ~[Next]_vars
    BY DEF Next, vars, Start, Exit, AddPeers, MarkSuccess, MarkAttempt, DropFailing,
           SaveStep, FlushMark, SaveNothing, Snapshot, WriteOK, WriteFails, SaveEnd
  <2>2. Started /\ Tick => Started'
    BY DEF Tick, Never
  <2> QED
    BY <2>1, <2>2
<1>3. ASSUME TypeOK, Started, Next, up, up', Cardinality(Held(peers')) > MaxPeers,
             NEW a \in Held(peers') \ Held(peers)
      PROVE  peers'[a].lastTry # Never
  <2>1. ASSUME NEW S \in Answers, AddPeers(S) PROVE FALSE
    <3> DEFINE grown == Added(peers, S, now)
    <3>1. grown \in Books
      BY <1>3, BookTypes DEF Answers, TypeOK
    <3>2. PICK D \in Evictable(grown) : peers' = Without(grown, D)
      BY <2>1 DEF AddPeers
    <3>3. Cardinality(Held(peers')) \in Nat /\ Cardinality(Held(peers')) <= MaxPeers
      BY <3>1, <3>2, EvictionFits
    <3> QED
      BY <1>3, <3>3, MaxPeersAssumption
  <2>2. ASSUME NEW b \in Addr, MarkSuccess(b) \/ MarkAttempt(b) PROVE peers'[a].lastTry # Never
    <3>1. peers' \in {Succeeded(peers, b, now), Attempted(peers, b, now)}
      BY <2>2 DEF MarkSuccess, MarkAttempt
    <3>2. a = b
      BY <1>3, <3>1, MarkHolds DEF TypeOK
    <3>3. peers'[a].lastTry = now
      BY <1>3, <3>1, <3>2, MarkDates DEF TypeOK
    <3> QED
      BY <1>3, <3>3
  <2>3. ASSUME NEW limit \in 1..MaxFails, DropFailing(limit) PROVE FALSE
    BY <1>3, <2>3 DEF DropFailing, Without, Held
  <2>4. ASSUME NEW s \in Savers, SaveStep(s) PROVE FALSE
    BY <1>3, <2>4
       DEF SaveStep, FlushMark, SaveNothing, Snapshot, WriteOK, WriteFails, SaveEnd
  <2>5. ~Start /\ ~Exit /\ ~Tick
    BY <1>3 DEF Start, Exit, Tick
  <2> QED
    BY <1>3, <2>1, <2>2, <2>3, <2>4, <2>5 DEF Next
<1>4. TypeOK /\ Started /\ [Next]_vars =>
        [up /\ up' /\ Cardinality(Held(peers')) > MaxPeers
            => \A a \in Held(peers') \ Held(peers) : peers'[a].lastTry # Never]_vars
  BY <1>3
<1> QED
  BY <1>1, <1>2, <1>4, TypeCorrect, PTL DEF Spec, HearsayKeepsCeiling

-----------------------------------------------------------------------------
(* What was dropped.                                                       *)

Roomy == Cardinality(Addr) <= MaxPeers

CleanHasNoMore ==
    up /\ ~dirty /\ disk \in Books => \A a \in Taken(Addr) \ Held(peers) : disk[a] = NoRecord

\* The other direction of SnapshotsHold: as long as generation has not moved, a
\* saver has read, then written, nothing the map does not hold.
SnapshotsHaveNoMore ==
    \A s \in Savers : ~saver[s].moved =>
        \A a \in Addr \ Held(peers) :
            /\ saver[s].pc = "writing" => saver[s].entries[a] = NoRecord
            /\ saver[s].pc = "written" => disk \in Books /\ disk[a] = NoRecord

NoMore == CleanHasNoMore /\ SnapshotsHaveNoMore

\* A change that moves generation leaves no claim to keep.
LEMMA ChangeAddsNoClaim ==
    ASSUME TypeOK, Changed PROVE NoMore'
<1>1. \A s \in Savers : saver'[s].pc = saver[s].pc /\ (Busy(s) => saver'[s].moved)
  BY DEF Changed, Moved, TypeOK, SaverStates
<1> QED
  BY <1>1 DEF Changed, NoMore, CleanHasNoMore, SnapshotsHaveNoMore, Busy

\* There is nothing to evict from a book that has room for every address.
LEMMA RoomyEvictsNothing ==
    ASSUME Roomy, NEW b \in Books, NEW D \in Evictable(b)
    PROVE  Without(b, D) = b
<1>1. IsFiniteSet(Held(b)) /\ Held(b) \subseteq Addr
  BY AddrAssumption, FS_Subset DEF Held
<1>2. Cardinality(Held(b)) <= Cardinality(Addr) /\ Cardinality(Held(b)) \in Nat
      /\ Cardinality(Addr) \in Nat
  BY <1>1, AddrAssumption, FS_Subset, FS_CardinalityType
<1>3. D \in SUBSET Held(b) /\ Cardinality(D) = 0
  BY <1>2, MaxPeersAssumption DEF Roomy, Evictable, Excess
<1>4. D = {}
  BY <1>1, <1>3, FS_Subset, FS_EmptySet
<1> QED
  BY <1>4 DEF Without, Books

\* The three steps of a save, and the two that end it early.
LEMMA SaveStepAddsNothing ==
    ASSUME TypeOK, SaveInvariant, NoMore, NEW s \in Savers, SaveStep(s)
    PROVE  NoMore'
<1> USE DEF NoMore
<1>0. peers' = peers /\ Held(peers)' = Held(peers) /\ up' = up
  BY DEF SaveStep, FlushMark, SaveNothing, Snapshot, WriteOK, WriteFails, SaveEnd, EntersSave
<1>1. \A t \in Savers : t # s => saver'[t] = saver[t]
  BY DEF SaveStep, FlushMark, SaveNothing, Snapshot, WriteOK, WriteFails, SaveEnd, TypeOK
<1>2. \A t \in Savers : Busy(s) /\ t # s => ~Busy(t)
  BY DEF SaveInvariant, OneWriter
<1>3. CASE FlushMark(s) \/ SaveNothing(s) \/ WriteFails(s)
  <2>1. disk' = disk /\ (dirty => dirty')
    BY <1>3 DEF FlushMark, SaveNothing, WriteFails
  <2>2. saver'[s].pc \notin {"writing", "written"}
    <3>1. CASE FlushMark(s)
      BY <3>1 DEF FlushMark, TypeOK, SaverStates
    <3>2. CASE SaveNothing(s) \/ WriteFails(s)
      <4>1. saver'[s] = Returned(s)
        BY <3>2 DEF SaveNothing, WriteFails, TypeOK
      <4> QED
        BY <4>1, RestingClaimsNothing
    <3> QED
      BY <1>3, <3>1, <3>2
  <2>3. CleanHasNoMore'
    BY <1>0, <2>1 DEF CleanHasNoMore, TypeOK
  <2>4. SnapshotsHaveNoMore'
    BY <1>0, <1>1, <2>1, <2>2 DEF SnapshotsHaveNoMore
  <2> QED
    BY <2>3, <2>4
<1>4. CASE Snapshot(s)
  <2>1. saver'[s] = [pc |-> "writing", moved |-> FALSE, entries |-> Image(peers)]
        /\ dirty' /\ disk' = disk
    BY <1>4 DEF Snapshot, TypeOK
  <2>2. \A t \in Savers : ~Busy(t)
    BY <1>4 DEF Snapshot, EntersSave, SaveMtxFree
  <2>3. \A a \in Addr \ Held(peers) : Image(peers)[a] = NoRecord
    BY DEF Held, Image
  <2> QED
    BY <1>0, <1>1, <2>1, <2>2, <2>3 DEF CleanHasNoMore, SnapshotsHaveNoMore, Busy
<1>5. CASE WriteOK(s)
  <2>1. /\ saver'[s] = [saver[s] EXCEPT !.pc = "written", !.entries = EmptyBook]
        /\ saver[s].pc = "writing" /\ dirty' = dirty /\ disk' = saver[s].entries
    BY <1>5 DEF WriteOK, TypeOK
  <2>2. saver'[s].pc = "written" /\ saver'[s].moved = saver[s].moved /\ disk' \in Books
    BY <2>1 DEF TypeOK, SaverStates
  <2>3. dirty /\ \A t \in Savers : t # s => ~Busy(t)
    BY <1>2, <2>1 DEF SaveInvariant, WritersAreDirty, Busy
  <2> QED
    BY <1>0, <1>1, <2>1, <2>2, <2>3 DEF CleanHasNoMore, SnapshotsHaveNoMore, Busy
<1>6. CASE SaveEnd(s)
  <2>1. /\ saver'[s] = Returned(s) /\ disk' = disk /\ saver[s].pc = "written"
        /\ dirty' = (dirty /\ saver[s].moved) /\ dirty
    BY <1>6 DEF SaveEnd, TypeOK, SaveInvariant, WritersAreDirty, Busy
  <2>2. \A t \in Savers : saver'[t].pc \notin {"writing", "written"}
    BY <1>1, <1>2, <2>1, RestingClaimsNothing DEF Busy
  <2>3. ~dirty' => \A a \in Addr \ Held(peers) : disk[a] = NoRecord
    BY <2>1 DEF SnapshotsHaveNoMore
  <2>4. Taken(Addr) \subseteq Addr
    BY DEF Taken
  <2> QED
    BY <1>0, <2>1, <2>2, <2>3, <2>4 DEF CleanHasNoMore, SnapshotsHaveNoMore
<1> QED
  BY <1>3, <1>4, <1>5, <1>6 DEF SaveStep

LEMMA NextAddsNothing ==
    ASSUME Roomy, TypeOK, SaveInvariant, NoMore, [Next]_vars
    PROVE  NoMore'
<1>1. CASE Start
  <2>1. saver' = AllResting /\ disk' = disk
    BY <1>1 DEF Start, SaveInvariant, RestWhenDown
  <2>2. \A s \in Savers : saver'[s].pc = "idle"
    BY <2>1 DEF AllResting, Resting
  <2>3. ASSUME disk \in Books, NEW a \in Taken(Addr) \ Held(peers)' PROVE disk[a] = NoRecord
    <3>1. a \in Addr /\ peers' = Loaded(disk, now)
      BY <1>1, <2>3, FilesAssumption DEF Start, Taken
    <3>2. disk[a] # NoRecord =>
              peers'[a] = [disk[a] EXCEPT !.lastSeen = IF disk[a].lastSeen = 0 THEN now ELSE @]
      BY <2>3, <3>1 DEF Loaded
    <3>3. disk[a] # NoRecord => peers'[a] \in Record
      BY <2>3, <3>1, <3>2 DEF Books, Record, TypeOK
    <3> QED
      BY <2>3, <3>1, <3>3, NoRecordAssumption DEF Held
  <2> QED
    BY <2>1, <2>2, <2>3 DEF NoMore, CleanHasNoMore, SnapshotsHaveNoMore
<1>2. CASE Exit
  <2>1. \A s \in Savers : saver'[s].pc = "idle"
    BY <1>2 DEF Exit, AllResting, Resting
  <2> QED
    BY <1>2, <2>1 DEF Exit, NoMore, CleanHasNoMore, SnapshotsHaveNoMore
<1>3. CASE Tick \/ UNCHANGED vars
  BY <1>3 DEF Tick, vars, NoMore, CleanHasNoMore, SnapshotsHaveNoMore
<1>4. ASSUME NEW S \in Answers, AddPeers(S) PROVE NoMore'
  <2>1. CASE Taken(S) # {}
    BY <1>4, <2>1, ChangeAddsNoClaim DEF AddPeers, Changed
  <2>2. CASE Taken(S) = {}
    <3>1. Added(peers, S, now) = peers
      BY <2>2 DEF Added, TypeOK, Books
    <3>2. PICK D \in Evictable(peers) :
            /\ peers' = Without(peers, D)
            /\ dirty' = (dirty \/ Taken(S) # {} \/ D # {})
      BY <1>4, <3>1 DEF AddPeers
    <3>3. peers' = peers
      BY <3>2, RoomyEvictsNothing DEF TypeOK
    <3> QED
      BY <1>4, <2>2, <3>2, <3>3
         DEF AddPeers, NoMore, CleanHasNoMore, SnapshotsHaveNoMore, TypeOK
  <2> QED
    BY <2>1, <2>2
<1>5. ASSUME NEW a \in Addr, MarkSuccess(a) \/ MarkAttempt(a) PROVE NoMore'
  BY <1>5, ChangeAddsNoClaim DEF MarkSuccess, MarkAttempt
<1>6. ASSUME NEW limit \in 1..MaxFails, DropFailing(limit) PROVE NoMore'
  BY <1>6, ChangeAddsNoClaim DEF DropFailing
<1>7. ASSUME NEW s \in Savers, SaveStep(s) PROVE NoMore'
  BY <1>7, SaveStepAddsNothing
<1> QED
  BY <1>1, <1>2, <1>3, <1>4, <1>5, <1>6, <1>7 DEF Next

\* What a sweep has dropped does not come back from the file of a clean map:
\* with CleanSaved, the file then holds the map, no more and no less.  It is
\* said of a book that never evicts, since an eviction moves no generation.
THEOREM DroppedGone == Spec => []DroppedStayDropped
<1>1. CASE Roomy
  <2>1. Init => NoMore
    BY DEF Init, AllResting, Resting, NoMore, CleanHasNoMore, SnapshotsHaveNoMore
  <2>2. NoMore => DroppedStayDropped
    BY DEF NoMore, CleanHasNoMore, DroppedStayDropped
  <2>3. TypeOK /\ SaveInvariant /\ NoMore /\ [Next]_vars => NoMore'
    BY <1>1, NextAddsNothing
  <2> QED
    BY <2>1, <2>2, <2>3, TypeCorrect, SaveInvariantHolds, PTL DEF Spec
<1>2. CASE ~Roomy
  <2>1. DroppedStayDropped
    BY <1>2 DEF Roomy, DroppedStayDropped
  <2> QED
    BY <2>1, PTL
<1> QED
  BY <1>1, <1>2
=============================================================================
