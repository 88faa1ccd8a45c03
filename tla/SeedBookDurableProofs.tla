------------------------ MODULE SeedBookDurableProofs ------------------------
(* The address book implements DurableBook: each of its steps is one of the *)
(* abstract book or none, for any addresses, ceiling, clock and files.      *)
EXTENDS SeedBookDurable, SeedBookProofs

-----------------------------------------------------------------------------
(* The two modules mean the same by the operators they share.              *)

LEMMA SharedRecords ==
    /\ Durable!Books = Books
    /\ Durable!EmptyBook = EmptyBook
    /\ Durable!Taken(Addr) = Taken(Addr)
    /\ \A b \in Books : Durable!Held(b) = Held(b) /\ Durable!Image(b) = Image(b)
  BY DEF Durable!Books, Books, Durable!Record, Record, Durable!EmptyBook, EmptyBook,
         Durable!Taken, Taken, Durable!admissible, admissible, Durable!Held, Held,
         Durable!Image, Image, Durable!OnFile, OnFile, Durable!ToSecond, ToSecond

LEMMA SharedReturn ==
    ASSUME NEW a \in Addr
    PROVE  Durable!ComesBack(disk, peers, a) = ComesBack(a)
  BY SharedRecords
     DEF Durable!ComesBack, ComesBack, Durable!OnFile, OnFile, Durable!ToSecond, ToSecond

LEMMA AllReturn ==
    ASSUME TypeOK
    PROVE  Durable!AllComeBack(disk, peers) = \A a \in Held(peers) : ComesBack(a)
  BY SharedRecords, SharedReturn DEF Durable!AllComeBack, TypeOK, Held

-----------------------------------------------------------------------------
(* What is on its way to the file.                                         *)

LEMMA NothingOnItsWay ==
    ASSUME \A s \in Savers : saver[s].pc # "writing"
    PROVE  OnItsWay = <<>>
  BY DEF OnItsWay, Writers

LEMMA OneOnItsWay ==
    ASSUME OneWriter, NEW s \in Savers, saver[s].pc = "writing"
    PROVE  OnItsWay = <<saver[s].entries>>
<1>1. Writers = {s}
  BY DEF Writers, OneWriter, Busy
<1> QED
  BY <1>1 DEF OnItsWay

\* It is the saver's doing alone: nothing that leaves what each saver is at and
\* what it read can change it.
LEMMA WayUnchanged ==
    ASSUME \A s \in Savers : /\ saver'[s].pc = "writing" <=> saver[s].pc = "writing"
                             /\ saver[s].pc = "writing" => saver'[s].entries = saver[s].entries
    PROVE  OnItsWay' = OnItsWay
<1>1. Writers' = Writers
  BY DEF Writers
<1>2. CASE Writers = {}
  BY <1>1, <1>2 DEF OnItsWay
<1>3. CASE Writers # {}
  <2>1. PICK w \in Savers : w = (CHOOSE s \in Writers : TRUE) /\ saver[w].pc = "writing"
    BY <1>3 DEF Writers
  <2>2. OnItsWay = <<saver[w].entries>>
    BY <1>3, <2>1 DEF OnItsWay
  <2>3. OnItsWay' = <<saver'[w].entries>>
    BY <1>1, <1>3, <2>1 DEF OnItsWay
  <2> QED
    BY <2>1, <2>2, <2>3
<1> QED
  BY <1>2, <1>3

-----------------------------------------------------------------------------
(* Each step of the book is one of the abstract book, or none.             *)

\* A change of the map, or of dirty alone, is a change owed.
LEMMA ChangeRefines ==
    ASSUME TypeOK, TypeOK', up, Changed, UNCHANGED <<up, disk>>
    PROVE  Durable!Change
<1>1. \A s \in Savers : saver'[s].pc = saver[s].pc /\ saver'[s].entries = saver[s].entries
  BY DEF Changed, Moved, TypeOK, SaverStates
<1>2. OnItsWay' = OnItsWay
  BY <1>1, WayUnchanged
<1>3. peers' \in Durable!Books
  BY SharedRecords DEF TypeOK
<1> QED
  BY <1>2, <1>3 DEF Durable!Change, Changed

LEMMA StartRefines ==
    ASSUME TypeOK, TypeOK', SaveInvariant, Start
    PROVE  Durable!Recover
<1>1. OnItsWay' = OnItsWay
  BY WayUnchanged DEF Start
<1>2. CASE disk \in Books
  <2>1. Held(peers)' = Held(disk) \cap Taken(Addr)
    <3>1. peers' = Loaded(disk, now)
      BY <1>2, FilesAssumption DEF Start
    <3>2. \A a \in Held(disk) : [disk[a] EXCEPT !.lastSeen = IF @ = 0 THEN now ELSE @] # NoRecord
      BY <1>2, NoRecordAssumption DEF Held, Books, TypeOK, Record
    <3> QED
      BY <3>1, <3>2 DEF Held, Loaded, Taken
  <2>2. \A a \in Held(peers)' : ComesBack(a)'
    BY StartReads
  <2>3. \A a \in Addr : Durable!ComesBack(disk, peers', a) = ComesBack(a)'
    BY SharedRecords
       DEF Start, Durable!ComesBack, ComesBack, Durable!OnFile, OnFile,
           Durable!ToSecond, ToSecond
  <2>4. Durable!AllComeBack(disk, peers')
    BY <2>2, <2>3, SharedRecords DEF Durable!AllComeBack, TypeOK, Held, Durable!Held
  <2>5. Durable!Held(peers') = Durable!Held(disk) \cap Durable!Taken(Addr)
    BY <1>2, <2>1, SharedRecords DEF TypeOK
  <2> QED
    BY <1>1, <1>2, <2>4, <2>5, SharedRecords DEF Durable!Recover, Start
<1>3. CASE disk \notin Books
  <2>1. disk \in {Missing, Corrupt}
    BY <1>3 DEF TypeOK
  <2> QED
    BY <1>1, <1>3, <2>1, SharedRecords DEF Durable!Recover, Start
<1> QED
  BY <1>2, <1>3

LEMMA ExitRefines ==
    ASSUME Exit
    PROVE  Durable!Crash
<1>1. \A s \in Savers : saver'[s].pc # "writing"
  BY DEF Exit, AllResting, Resting
<1>2. OnItsWay' = <<>>
  BY <1>1 DEF OnItsWay, Writers
<1> QED
  BY <1>2, SharedRecords DEF Durable!Crash, Exit

\* Setting dirty for a flush is a change of nothing; a snapshot begins, a
\* rename commits, an error abandons, and clearing dirty settles.
LEMMA SaveRefines ==
    ASSUME TypeOK, TypeOK', SaveInvariant, NEW s \in Savers, SaveStep(s)
    PROVE  \/ Durable!Change \/ Durable!Begin \/ Durable!Commit
           \/ Durable!Abandon \/ Durable!Settle
           \/ UNCHANGED <<up, peers, disk, OnItsWay, dirty>>
<1> USE DEF SaveInvariant
<1>1. \A t \in Savers : t # s => saver'[t] = saver[t]
  BY DEF SaveStep, FlushMark, SaveNothing, Snapshot, WriteOK, WriteFails, SaveEnd, TypeOK
<1>2. Returned(s).pc # "writing"
  BY RestingClaimsNothing
<1>3. CASE FlushMark(s)
  <2>1. saver[s].pc = "idle" /\ saver'[s].pc = "waiting"
    BY <1>3 DEF FlushMark, TypeOK, SaverStates
  <2>2. OnItsWay' = OnItsWay
    BY <1>1, <2>1, WayUnchanged
  <2>3. peers' \in Durable!Books
    BY SharedRecords DEF TypeOK
  <2> QED
    BY <1>3, <2>2, <2>3 DEF Durable!Change, FlushMark
<1>4. CASE SaveNothing(s)
  <2>1. saver[s].pc # "writing" /\ saver'[s].pc # "writing"
    BY <1>2, <1>4 DEF SaveNothing, EntersSave, TypeOK
  <2>2. OnItsWay' = OnItsWay
    BY <1>1, <2>1, WayUnchanged
  <2> QED
    BY <1>4, <2>2 DEF SaveNothing
<1>5. CASE Snapshot(s)
  <2>1. \A t \in Savers : saver[t].pc # "writing"
    BY <1>5 DEF Snapshot, EntersSave, SaveMtxFree, Busy
  <2>2. saver'[s].pc = "writing" /\ saver'[s].entries = Image(peers)
    BY <1>5 DEF Snapshot, TypeOK
  <2>3. Writers' = {s}
    BY <1>1, <2>1, <2>2 DEF Writers
  <2>4. OnItsWay = <<>> /\ OnItsWay' = <<Image(peers)>>
    BY <2>1, <2>2, <2>3, NothingOnItsWay DEF OnItsWay
  <2> QED
    BY <1>5, <2>4, SharedRecords DEF Durable!Begin, Snapshot, EntersSave, TypeOK
<1>6. ASSUME WriteOK(s) \/ WriteFails(s)
      PROVE  OnItsWay = <<saver[s].entries>> /\ OnItsWay' = <<>>
  <2>1. saver[s].pc = "writing" /\ saver'[s].pc # "writing"
    BY <1>2, <1>6 DEF WriteOK, WriteFails, TypeOK, SaverStates
  <2>2. \A t \in Savers : saver'[t].pc # "writing"
    BY <1>1, <2>1 DEF OneWriter, Busy
  <2>3. OnItsWay' = <<>>
    BY <2>2 DEF OnItsWay, Writers
  <2> QED
    BY <2>1, <2>3, OneOnItsWay
<1>7. CASE WriteOK(s)
  BY <1>6, <1>7 DEF Durable!Commit, WriteOK
<1>8. CASE WriteFails(s)
  BY <1>6, <1>8 DEF Durable!Abandon, WriteFails
<1>9. CASE SaveEnd(s)
  <2>1. saver[s].pc = "written" /\ saver'[s].pc # "writing"
    BY <1>2, <1>9 DEF SaveEnd, TypeOK
  <2>2. \A t \in Savers : saver[t].pc # "writing"
    BY <2>1 DEF OneWriter, Busy
  <2>3. OnItsWay = <<>> /\ OnItsWay' = OnItsWay
    BY <1>1, <2>1, <2>2, NothingOnItsWay, WayUnchanged
  <2>4. dirty
    BY <2>1 DEF WritersAreDirty, Busy
  <2>5. CASE saver[s].moved
    BY <1>9, <2>3, <2>4, <2>5 DEF SaveEnd
  <2>6. CASE ~saver[s].moved
    <3>1. ~dirty' /\ up' /\ UNCHANGED <<peers, disk>> /\ SaveInvariant'
      BY <1>9, <2>6, SaveStepPreserves DEF SaveEnd
    <3>2. \A a \in Held(peers) : ComesBack(a)
      BY <3>1 DEF CleanIsSaved, ComesBack, Held
    <3> QED
      BY <1>9, <2>3, <2>4, <3>1, <3>2, AllReturn DEF Durable!Settle, SaveEnd
  <2> QED
    BY <2>5, <2>6
<1> QED
  BY <1>3, <1>4, <1>5, <1>7, <1>8, <1>9 DEF SaveStep

LEMMA NextRefines ==
    ASSUME TypeOK, TypeOK', SaveInvariant, [Next]_vars
    PROVE  [Durable!Next]_(Durable!vars)
<1> USE DEF Durable!Next
<1>1. CASE Start
  BY <1>1, StartRefines
<1>2. CASE Exit
  BY <1>2, ExitRefines
<1>3. CASE Tick \/ UNCHANGED vars
  BY <1>3, WayUnchanged DEF Tick, vars, Durable!vars
<1>4. ASSUME NEW S \in Answers, AddPeers(S) PROVE [Durable!Next]_(Durable!vars)
  <2>1. CASE Taken(S) # {}
    BY <1>4, <2>1, ChangeRefines DEF AddPeers, Changed
  <2>2. CASE Taken(S) = {}
    <3>1. Added(peers, S, now) = peers
      BY <2>2 DEF Added, TypeOK, Books
    <3>2. PICK D \in Evictable(peers) :
            /\ peers' = Without(peers, D)
            /\ dirty' = (dirty \/ Taken(S) # {} \/ D # {})
      BY <1>4, <3>1 DEF AddPeers
    <3>3. UNCHANGED <<up, saver, disk>>
      BY <1>4, <2>2 DEF AddPeers
    <3>4. OnItsWay' = OnItsWay
      BY <3>3, WayUnchanged
    <3>5. CASE D = {}
      <4>1. peers' = peers /\ dirty' = dirty
        BY <2>2, <3>2, <3>5 DEF Without, TypeOK, Books
      <4> QED
        BY <3>3, <3>4, <4>1 DEF Durable!vars
    <3>6. CASE D # {}
      BY <1>4, <3>2, <3>3, <3>4, <3>6, SharedRecords DEF AddPeers, Durable!Change, TypeOK
    <3> QED
      BY <3>5, <3>6
  <2> QED
    BY <2>1, <2>2
<1>5. ASSUME NEW a \in Addr, MarkSuccess(a) \/ MarkAttempt(a) PROVE Durable!Change
  BY <1>5, ChangeRefines DEF MarkSuccess, MarkAttempt
<1>6. ASSUME NEW limit \in 1..MaxFails, DropFailing(limit) PROVE Durable!Change
  BY <1>6, ChangeRefines DEF DropFailing
<1>7. ASSUME NEW s \in Savers, SaveStep(s) PROVE [Durable!Next]_(Durable!vars)
  BY <1>7, SaveRefines DEF Durable!vars
<1> QED
  BY <1>1, <1>2, <1>3, <1>4, <1>5, <1>6, <1>7 DEF Next

\* Two savers, changes while they write, failed writes, crashes and restarts:
\* the file always holds what the map was at one instant, one save after the
\* other, and no save is forgotten while it is owed.
THEOREM DurableImplemented == Spec => ImplementsDurable
<1>1. Init => Durable!Init
  <2> SUFFICES ASSUME Init PROVE Durable!Init
    OBVIOUS
  <2>1. \A s \in Savers : saver[s].pc # "writing"
    BY DEF Init, AllResting, Resting
  <2> QED
    BY <2>1, NothingOnItsWay, SharedRecords DEF Init, Durable!Init
<1>2. TypeOK /\ TypeOK' /\ SaveInvariant /\ [Next]_vars => [Durable!Next]_(Durable!vars)
  BY NextRefines
<1> QED
  BY <1>1, <1>2, TypeCorrect, SaveInvariantHolds, PTL DEF Spec, ImplementsDurable, Durable!Spec
=============================================================================
