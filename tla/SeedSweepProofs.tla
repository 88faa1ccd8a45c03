--------------------------- MODULE SeedSweepProofs ---------------------------
(* Theorems about the sweep, for any addresses, identities, periods, limits *)
(* and disturbances.  None of them needs to know what the dial queue holds: *)
(* what does is in SeedSweepPaceProofs.                                     *)
EXTENDS SeedSweep, BookRecordsProofs, FiniteSetTheorems, FunctionTheorems, SequenceTheorems

-----------------------------------------------------------------------------
(* What the operators return.                                              *)

LEMMA BudgetType == sweepBudget \in Nat
<1>1. NumOutbound \in Nat
  <2>1. {i \in Id : conn[i].kind = "out"} \subseteq Id
    OBVIOUS
  <2> QED
    BY <2>1, AnswersAssumption, FS_Subset, FS_CardinalityType DEF NumOutbound
<1>2. MaxOutbound \in Nat /\ Period \in Nat /\ DialCost \in Nat \ {0}
  BY SweepAssumption
<1>3. Period \div DialCost \in Nat
  BY <1>2, SMT
<1>4. AtLeast(MaxOutbound - NumOutbound, 0) \in Nat
  BY <1>1, <1>2 DEF AtLeast
<1> QED
  BY <1>3, <1>4 DEF sweepBudget, AtMost

LEMMA IntervalType == cycleInterval \in Nat \ {0}
<1>1. /\ Wait \in Nat /\ CycleFloor \in Nat \ {0} /\ CycleCeiling \in Nat
      /\ CycleFloor <= CycleCeiling
  BY SweepAssumption
<1> QED
  BY <1>1 DEF cycleInterval, AtLeast, AtMost

LEMMA TickedType ==
    ASSUME NEW due \in Nat, NEW interval \in Nat \ {0}, now \in Nat, now >= due
    PROVE  /\ Ticked(due, interval) \in Nat
           /\ now = due => Ticked(due, interval) = now + interval
<1>1. now - due \in Nat
  OBVIOUS
<1>2. (now - due) % interval \in Int
  BY <1>1, SMT
<1>3. now = due => (now - due) % interval = 0
  BY SMT
<1> QED
  BY <1>2, <1>3 DEF Ticked, AtLeast

\* No address twice.
Distinct(s) == \A i, j \in 1..Len(s) : i # j => s[i] # s[j]

LEMMA SortedDistinct ==
    ASSUME NEW S \in SUBSET Addr, NEW key, NEW s \in Sorted(S, key), NEW n \in Nat
    PROVE  /\ First(s, n) \in Seq(Addr) /\ Distinct(First(s, n))
           /\ \A k \in 1..Len(First(s, n)) : First(s, n)[k] \in S
           /\ Len(First(s, n)) \in Nat /\ Len(First(s, n)) <= n
<1>1. Cardinality(S) \in Nat
  BY AddrAssumption, FS_Subset, FS_CardinalityType
<1>2. s \in [1..Cardinality(S) -> S]
  BY DEF Sorted
<1>3. s \in Seq(S) /\ s \in Seq(Addr) /\ Len(s) = Cardinality(S)
  BY <1>1, <1>2
<1>4. \A i, j \in 1..Len(s) : i < j => s[i] # s[j]
  BY <1>2, <1>3 DEF Sorted
<1>5. \A i, j \in 1..Len(s) : i # j => s[i] # s[j]
  BY <1>3, <1>4
<1> DEFINE m == AtMost(Len(s), n)
<1>6. m \in Nat /\ m <= Len(s) /\ m <= n
  BY <1>3 DEF AtMost
<1>7. First(s, n) = SubSeq(s, 1, m)
  BY DEF First
<1> HIDE DEF m
<1>8. /\ SubSeq(s, 1, m) \in Seq(Addr) /\ SubSeq(s, 1, m) \in Seq(S)
      /\ Len(SubSeq(s, 1, m)) = m /\ \A k \in 1..m : SubSeq(s, 1, m)[k] = s[k]
  BY <1>3, <1>6, SMT
<1>9. Distinct(SubSeq(s, 1, m))
  BY <1>5, <1>6, <1>8 DEF Distinct
<1> QED
  BY <1>6, <1>7, <1>8, <1>9

\* Two batches that share no address, one after the other.
LEMMA ConcatDistinct ==
    ASSUME NEW P \in SUBSET Addr, NEW Q \in SUBSET Addr, P \cap Q = {},
           NEW x \in Seq(Addr), Distinct(x), \A k \in 1..Len(x) : x[k] \in P,
           NEW y \in Seq(Addr), Distinct(y), \A k \in 1..Len(y) : y[k] \in Q
    PROVE  /\ x \o y \in Seq(Addr) /\ Distinct(x \o y)
           /\ \A k \in 1..Len(x \o y) : (x \o y)[k] \in P \cup Q
<1> DEFINE batch == x \o y
<1>1. /\ batch \in Seq(Addr) /\ Len(batch) = Len(x) + Len(y)
      /\ \A k \in 1..Len(x) + Len(y) : batch[k] = IF k <= Len(x) THEN x[k] ELSE y[k - Len(x)]
  BY ConcatProperties
<1> HIDE DEF batch
<1>2. ASSUME NEW k \in 1..Len(batch)
      PROVE  /\ k <= Len(x) => batch[k] = x[k] /\ batch[k] \in P
             /\ ~(k <= Len(x)) => batch[k] = y[k - Len(x)] /\ batch[k] \in Q
  <2>1. Len(x) \in Nat /\ Len(y) \in Nat
    OBVIOUS
  <2>2. CASE k <= Len(x)
    BY <1>1, <2>1, <2>2
  <2>3. CASE ~(k <= Len(x))
    BY <1>1, <2>1, <2>3
  <2> QED
    BY <2>2, <2>3
<1>3. ASSUME NEW i \in 1..Len(batch), NEW j \in 1..Len(batch), i # j PROVE batch[i] # batch[j]
  <2>1. CASE i <= Len(x) /\ j <= Len(x)
    BY <1>2, <1>3, <2>1 DEF Distinct
  <2>2. CASE ~(i <= Len(x)) /\ ~(j <= Len(x))
    <3>1. i - Len(x) \in 1..Len(y) /\ j - Len(x) \in 1..Len(y) /\ i - Len(x) # j - Len(x)
      BY <1>1, <1>3, <2>2
    <3>2. y[i - Len(x)] # y[j - Len(x)]
      BY <3>1 DEF Distinct
    <3> QED
      BY <1>2, <2>2, <3>2
  <2>3. CASE (i <= Len(x)) # (j <= Len(x))
    BY <1>2, <2>3
  <2> QED
    BY <2>1, <2>2, <2>3
<1> QED
  BY <1>1, <1>2, <1>3 DEF Distinct, batch

-----------------------------------------------------------------------------
(* Types of all but the dial queue and what comes off it.                  *)

SweepTypes ==
    /\ now \in Nat /\ nextCycle \in Nat
    /\ peers \in Books
    /\ conn \in [Id -> Conns]
    /\ sweep \in SweepStates

LEMMA IdleType == SweepIdle \in SweepStates /\ [SweepIdle EXCEPT !.pc = "dropping"] \in SweepStates
<1>1. <<>> \in Seq(Addr)
  OBVIOUS
<1> QED
  BY <1>1 DEF SweepIdle, SweepStates

LEMMA RenewedType ==
    ASSUME SweepTypes, NEW S \in SUBSET Addr
    PROVE  Renewed(S) \in Books
<1>1. ASSUME NEW a \in Addr PROVE Succeeded(peers, a, now)[a] \in Record \cup {NoRecord}
  <2>1. Succeeded(peers, a, now) \in Books
    BY BookTypes DEF SweepTypes
  <2> QED
    BY <2>1 DEF Books
<1> QED
  BY <1>1 DEF Renewed, SweepTypes, Books

\* The plan of a pass, as the invariants need it.
LEMMA PlanTyped ==
    ASSUME SweepTypes, SweepPlan
    PROVE  /\ sweep' \in SweepStates /\ Distinct(sweep'.left)
           /\ sweep'.pc = "marking" /\ sweep'.batch = sweep'.left /\ Len(sweep'.batch) <= sweepBudget
           /\ \A k \in 1..Len(sweep'.left) : ~Connected(sweep'.left[k]) /\ sweep'.left[k] \in Held(peers)
           /\ \E S \in SUBSET Held(peers) : peers' = Renewed(S)
<1> DEFINE proven == StaleProven(peers, now, renewalWindow)
           unproven == StaleUnproven(peers)
<1>1. /\ proven \in SUBSET Addr /\ unproven \in SUBSET Addr /\ proven \cap unproven = {}
      /\ proven \cup unproven \subseteq Held(peers)
  BY DEF StaleProven, StaleUnproven, Held
<1>2. PICK r \in Sorted(NotConnected(proven), News), e \in Sorted(NotConnected(unproven), News) :
          LET renewed == First(r, sweepBudget)
              batch == renewed \o First(e, sweepBudget - Len(renewed))
          IN  sweep' = [pc |-> "marking", left |-> batch, batch |-> batch]
  BY DEF SweepPlan
<1> DEFINE x == First(r, sweepBudget)
           y == First(e, sweepBudget - Len(x))
           batch == x \o y
<1>3. sweep' = [pc |-> "marking", left |-> batch, batch |-> batch]
  BY <1>2
<1>4. peers' = Renewed(proven \cup unproven)
  BY DEF SweepPlan
<1>5. /\ NotConnected(proven) \in SUBSET Addr /\ NotConnected(unproven) \in SUBSET Addr
      /\ NotConnected(proven) \cap NotConnected(unproven) = {}
      /\ \A a \in NotConnected(proven) \cup NotConnected(unproven) : ~Connected(a) /\ a \in Held(peers)
  BY <1>1 DEF NotConnected
<1>6. r \in Sorted(NotConnected(proven), News) /\ e \in Sorted(NotConnected(unproven), News)
  BY <1>2
<1> HIDE DEF proven, unproven
<1>7. /\ x \in Seq(Addr) /\ Distinct(x) /\ \A k \in 1..Len(x) : x[k] \in NotConnected(proven)
      /\ Len(x) \in Nat /\ sweepBudget - Len(x) \in Nat
  <2>1. /\ x \in Seq(Addr) /\ Distinct(x) /\ (\A k \in 1..Len(x) : x[k] \in NotConnected(proven))
        /\ Len(x) \in Nat /\ Len(x) <= sweepBudget
    BY <1>5, <1>6, BudgetType, SortedDistinct
  <2> HIDE DEF x
  <2> QED
    BY <2>1, BudgetType
<1>8. /\ y \in Seq(Addr) /\ Distinct(y) /\ (\A k \in 1..Len(y) : y[k] \in NotConnected(unproven))
      /\ Len(y) \in Nat /\ Len(y) <= sweepBudget - Len(x)
  BY <1>5, <1>6, <1>7, SortedDistinct
<1> HIDE DEF x, y
<1>9. /\ batch \in Seq(Addr) /\ Distinct(batch)
      /\ \A k \in 1..Len(batch) : batch[k] \in NotConnected(proven) \cup NotConnected(unproven)
  BY <1>5, <1>7, <1>8, ConcatDistinct
<1>10. Len(batch) <= sweepBudget
  <2>1. Len(batch) = Len(x) + Len(y)
    BY <1>7, <1>8, ConcatProperties
  <2> QED
    BY <1>7, <1>8, <2>1, BudgetType
<1> HIDE DEF batch
<1> QED
  BY <1>1, <1>3, <1>4, <1>5, <1>9, <1>10 DEF SweepStates

\* The next address to mark, and what is left after it.
LEMMA MarkTyped ==
    ASSUME SweepTypes, Distinct(sweep.left), SweepMark
    PROVE  /\ Head(sweep.left) = sweep.left[1] /\ Head(sweep.left) \in Addr
           /\ sweep' = [sweep EXCEPT !.left = Tail(sweep.left)] /\ sweep' \in SweepStates
           /\ Distinct(sweep'.left)
           /\ \A k \in 1..Len(sweep'.left) :
                sweep'.left[k] # Head(sweep.left) /\ \E j \in 1..Len(sweep.left) : sweep'.left[k] = sweep.left[j]
<1> DEFINE left == sweep.left
<1>1. sweep \in SweepStates /\ left \in Seq(Addr) /\ left # <<>>
  BY DEF SweepTypes, SweepStates, SweepMark
<1>2. sweep' = [sweep EXCEPT !.left = Tail(left)]
  BY DEF SweepMark
<1>3. /\ Head(left) \in Addr /\ Tail(left) \in Seq(Addr) /\ Len(Tail(left)) = Len(left) - 1
      /\ \A k \in 1..Len(Tail(left)) : Tail(left)[k] = left[k + 1]
  BY <1>1, HeadTailProperties
<1> HIDE DEF left
<1>4. Head(left) = left[1] /\ Len(left) \in Nat
  BY <1>1
<1>5. sweep' \in SweepStates /\ sweep'.left = Tail(left)
  BY <1>1, <1>2, <1>3 DEF SweepStates, left
<1>6. \A i, j \in 1..Len(left) : i # j => left[i] # left[j]
  BY DEF Distinct, left
<1>7. ASSUME NEW k \in 1..Len(Tail(left))
      PROVE  k + 1 \in 1..Len(left) /\ 1 \in 1..Len(left) /\ k + 1 # 1 /\ Tail(left)[k] = left[k + 1]
  BY <1>3, <1>4
<1>8. ASSUME NEW k \in 1..Len(Tail(left)) PROVE Tail(left)[k] # Head(left)
  BY <1>4, <1>6, <1>7
<1>9. Distinct(Tail(left))
  <2> SUFFICES ASSUME NEW i \in 1..Len(Tail(left)), NEW j \in 1..Len(Tail(left)), i # j
               PROVE  Tail(left)[i] # Tail(left)[j]
    BY DEF Distinct
  <2>1. i + 1 \in 1..Len(left) /\ j + 1 \in 1..Len(left) /\ i + 1 # j + 1
    BY <1>7
  <2> QED
    BY <1>6, <1>7, <2>1
<1> QED
  BY <1>2, <1>3, <1>4, <1>5, <1>7, <1>8, <1>9 DEF left

LEMMA TypesInit == Init => SweepTypes
<1> SUFFICES ASSUME Init PROVE SweepTypes
  OBVIOUS
<1>1. now \in Nat /\ nextCycle \in Nat
  BY SweepAssumption DEF Init
<1>2. peers \in Books
  BY SweepAssumption DEF Init
<1>3. conn \in [Id -> Conns]
  BY DEF Init, Conns, NoConn
<1> QED
  BY <1>1, <1>2, <1>3, IdleType DEF Init, SweepTypes

LEMMA TypesPreserved == SweepTypes /\ Distinct(sweep.left) /\ [Next]_vars => SweepTypes'
<1> SUFFICES ASSUME SweepTypes, Distinct(sweep.left), [Next]_vars PROVE SweepTypes'
  OBVIOUS
<1>0. now \in Nat /\ nextCycle \in Nat /\ peers \in Books /\ conn \in [Id -> Conns] /\ sweep \in SweepStates
  BY DEF SweepTypes
<1>1. CASE Start
  BY <1>0, <1>1, IntervalType DEF Start, SweepTypes
<1>2. CASE Stop
  BY <1>0, <1>2, IdleType DEF Stop, SweepTypes, Conns, NoConn
<1>3. CASE DialPop \/ DialFails
  BY <1>0, <1>3 DEF DialPop, DialFails, SweepTypes
<1>4. CASE DialReaches
  <2>1. dial.addr \in Addr
    BY <1>4, SweepAssumption DEF DialReaches
  <2>2. [kind |-> "out", addr |-> dial.addr, since |-> now] \in Conns
    BY <1>0, <2>1 DEF Conns
  <2> QED
    BY <1>0, <1>4, <2>2 DEF DialReaches, SweepTypes
<1>5. CASE AddPeer
  <2>1. peers' \in Books
    <3>1. CASE admissible(dial.addr)
      <4>1. dial.addr \in Addr
        BY <3>1, AddrAssumption DEF admissible
      <4> QED
        BY <1>0, <1>5, <3>1, <4>1, BookTypes DEF AddPeer
    <3> QED
      BY <1>0, <1>5, <3>1 DEF AddPeer
  <2> QED
    BY <1>0, <1>5, <2>1 DEF AddPeer, SweepTypes
<1>6. ASSUME NEW i \in Id, Visit(i) \/ Leave(i) \/ HangUp(i) PROVE SweepTypes'
  <2>1. NoConn \in Conns /\ [NoConn EXCEPT !.kind = "in", !.since = now] \in Conns
    BY <1>0 DEF NoConn, Conns
  <2>2. UNCHANGED <<now, nextCycle, peers, sweep>>
    BY <1>6 DEF Visit, Leave, HangUp
  <2>3. conn' \in [Id -> Conns]
    BY <1>0, <1>6, <2>1 DEF Visit, Leave, HangUp
  <2> QED
    BY <1>0, <2>2, <2>3 DEF SweepTypes
<1>7. CASE SweepPlan
  <2>1. sweep' \in SweepStates /\ \E S \in SUBSET Held(peers) : peers' = Renewed(S)
    BY <1>7, PlanTyped
  <2>2. peers' \in Books
    BY <2>1, RenewedType DEF Held
  <2> QED
    BY <1>0, <1>7, <2>1, <2>2 DEF SweepPlan, SweepTypes
<1>8. CASE SweepMark
  <2>1. Head(sweep.left) \in Addr /\ sweep' \in SweepStates
    BY <1>8, MarkTyped
  <2>2. peers' \in Books
    BY <1>0, <1>8, <2>1, BookTypes DEF SweepMark
  <2> QED
    BY <1>0, <1>8, <2>1, <2>2 DEF SweepMark, SweepTypes
<1>9. CASE SweepHandOver
  BY <1>0, <1>9, IdleType DEF SweepHandOver, SweepTypes
<1>10. CASE SweepDrop
  <2>1. Failing(peers, FailLimit) \in SUBSET Addr
    BY DEF Failing, Held
  <2> QED
    BY <1>0, <1>10, <2>1, IdleType, BookTypes DEF SweepDrop, SweepTypes
<1>11. ASSUME NEW j \in Id, NEW S \in Heard, Learn(j, S) PROVE SweepTypes'
  <2>1. S \in SUBSET Addr
    BY SweepAssumption
  <2>2. PICK D \in Evictable(Added(peers, S, now)) : peers' = Without(Added(peers, S, now), D)
    BY <1>11 DEF Learn
  <2>3. D \in SUBSET Addr /\ Added(peers, S, now) \in Books
    BY <1>0, <2>1, <2>2, BookTypes DEF Evictable, Held
  <2>4. peers' \in Books
    BY <1>0, <2>2, <2>3, BookTypes
  <2> QED
    BY <1>0, <1>11, <2>4 DEF Learn, SweepTypes
<1>12. CASE Cycle
  <2>1. nextCycle' \in Nat
    BY <1>0, <1>12, IntervalType, TickedType DEF Cycle
  <2>2. conn' \in [Id -> Conns]
    BY <1>0, <1>12 DEF Cycle, NoConn, Conns
  <2> QED
    BY <1>0, <1>12, <2>1, <2>2 DEF Cycle, SweepTypes
<1>13. CASE Tick
  BY <1>0, <1>13 DEF Tick, SweepTypes
<1>14. CASE UNCHANGED vars
  BY <1>0, <1>14 DEF vars, SweepTypes
<1>15. ASSUME NEW j \in Id, LearnDials(j) PROVE SweepTypes'
  BY <1>0, <1>15 DEF LearnDials, SweepTypes
<1> QED
  BY <1>1, <1>2, <1>3, <1>4, <1>5, <1>6, <1>7, <1>8, <1>9, <1>10, <1>11, <1>12, <1>13, <1>14,
     <1>15 DEF Next

\* A batch names an address once.
LEMMA LeftDistinct ==
    SweepTypes /\ Distinct(sweep.left) /\ [Next]_vars => Distinct(sweep'.left)
<1> SUFFICES ASSUME SweepTypes, Distinct(sweep.left), [Next]_vars PROVE Distinct(sweep'.left)
  OBVIOUS
<1>1. CASE SweepPlan
  BY <1>1, PlanTyped
<1>2. CASE SweepMark
  BY <1>2, MarkTyped
<1>3. SweepIdle.left = <<>> /\ [SweepIdle EXCEPT !.pc = "dropping"].left = <<>> /\ Distinct(<<>>)
  BY DEF SweepIdle, Distinct
<1>4. CASE SweepHandOver \/ SweepDrop \/ Stop
  BY <1>3, <1>4 DEF SweepHandOver, SweepDrop, Stop
<1>5. CASE UNCHANGED sweep
  BY <1>5
<1> QED
  BY <1>1, <1>2, <1>4, <1>5
     DEF Next, Start, DialPop, DialReaches, DialFails, AddPeer, Visit, Leave, HangUp, Learn, LearnDials,
         Cycle, Tick, vars

-----------------------------------------------------------------------------
(* No failure of an address this seed is connected to.                     *)

HeldAdmissible == Held(peers) \subseteq Admissible

\* The address of a connection the reactor has been told of.
Told(a) == \E i \in Id : conn[i].kind = "out" /\ conn[i].addr = a
Telling(a) == dial.pc = "adding" /\ dial.addr = a

\* The mark a batch still owes a connected address deduces no failure either.
Clean(a) ==
    /\ peers[a].fails = 0
    /\ (\E k \in 1..Len(sweep.left) : sweep.left[k] = a) => peers[a].lastTry <= peers[a].lastOK

ToldAreClean == \A a \in Held(peers) : Told(a) /\ ~Telling(a) => Clean(a)

\* A connection is under the identity its address names.
NamesFit == \A i \in Id : conn[i].kind = "out" => conn[i].addr \in Addr /\ IdOf[conn[i].addr] = i

\* The dial is a record, whatever address the switch's queue has given it.
DialShape == dial = [pc |-> dial.pc, addr |-> dial.addr, since |-> dial.since]

BlameInv ==
    /\ SweepTypes /\ Distinct(sweep.left) /\ DialShape
    /\ NamesFit /\ HeldAdmissible /\ ToldAreClean

\* What a step may do to one address that leaves the claim standing.
LEMMA StillClean ==
    ASSUME ToldAreClean, NEW a \in Held(peers)', Told(a)' /\ ~Telling(a)',
           \/ a \in Held(peers) /\ Told(a) /\ ~Telling(a) /\ peers'[a].fails = peers[a].fails
              /\ peers'[a].lastTry = peers[a].lastTry /\ peers'[a].lastOK = peers[a].lastOK
           \/ peers'[a].fails = 0 /\ peers'[a].lastTry = peers'[a].lastOK,
           peers'[a] \in Record,
           \A k \in 1..Len(sweep'.left) : \E j \in 1..Len(sweep.left) : sweep'.left[k] = sweep.left[j]
    PROVE  Clean(a)'
<1>1. CASE peers'[a].fails = 0 /\ peers'[a].lastTry = peers'[a].lastOK
  BY <1>1 DEF Clean, Record
<1>2. CASE /\ a \in Held(peers) /\ Told(a) /\ ~Telling(a) /\ peers'[a].fails = peers[a].fails
           /\ peers'[a].lastTry = peers[a].lastTry /\ peers'[a].lastOK = peers[a].lastOK
  <2>1. Clean(a)
    BY <1>2 DEF ToldAreClean
  <2> QED
    BY <1>2, <2>1 DEF Clean
<1> QED
  BY <1>1, <1>2

LEMMA HeldRecords ==
    ASSUME NEW b \in Books, NEW a \in Held(b)
    PROVE  a \in Addr /\ b[a] \in Record
  BY DEF Books, Held

\* What each operation on the book leaves of a record.
LEMMA RecordsAfter ==
    ASSUME NEW b \in Books, NEW t \in Nat, NEW a \in Addr
    PROVE  /\ \A c \in Addr : c # a => Succeeded(b, a, t)[c] = b[c] /\ Attempted(b, a, t)[c] = b[c]
           /\ Succeeded(b, a, t)[a].fails = 0
           /\ Succeeded(b, a, t)[a].lastTry = t /\ Succeeded(b, a, t)[a].lastOK = t
           /\ b[a] = NoRecord => Attempted(b, a, t)[a].fails = 0 /\ Attempted(b, a, t)[a].lastOK = Never
           /\ b[a] # NoRecord =>
                /\ Attempted(b, a, t)[a].lastOK = b[a].lastOK
                /\ b[a].lastTry <= b[a].lastOK => Attempted(b, a, t)[a].fails = b[a].fails
<1> DEFINE r == Entry(b, a, t)
<1>1. r \in Record
  BY EntryType
<1>2. /\ b[a] = NoRecord => r.fails = 0 /\ r.lastTry = Never /\ r.lastOK = Never
      /\ b[a] # NoRecord => r = b[a]
  BY DEF Entry, Mentioned
<1>3. r.fails \in Nat /\ r.lastTry \in Nat /\ r.lastOK \in Nat
  BY <1>1 DEF Record
<1>4. Succeeded(b, a, t) = [b EXCEPT ![a] = [r EXCEPT !.lastTry = t, !.lastOK = t, !.fails = 0]]
  BY DEF Succeeded
<1>5. Attempted(b, a, t) =
        [b EXCEPT ![a] = [r EXCEPT !.fails = IF r.lastTry # Never /\ r.lastTry > r.lastOK
                                             THEN @ + 1 ELSE @,
                                   !.lastTry = t]]
  BY DEF Attempted
<1> HIDE DEF r
<1>6. b \in [Addr -> Record \cup {NoRecord}]
  BY DEF Books
<1>7. Succeeded(b, a, t)[a] = [r EXCEPT !.lastTry = t, !.lastOK = t, !.fails = 0]
  BY <1>4, <1>6
<1>8. Attempted(b, a, t)[a] = [r EXCEPT !.fails = IF r.lastTry # Never /\ r.lastTry > r.lastOK
                                                  THEN @ + 1 ELSE @,
                                        !.lastTry = t]
  BY <1>5, <1>6
<1>9. \A c \in Addr : c # a => Succeeded(b, a, t)[c] = b[c] /\ Attempted(b, a, t)[c] = b[c]
  BY <1>4, <1>5, <1>6
<1>10. /\ Succeeded(b, a, t)[a].fails = 0
       /\ Succeeded(b, a, t)[a].lastTry = t /\ Succeeded(b, a, t)[a].lastOK = t
  BY <1>1, <1>7 DEF Record
<1>11. /\ Attempted(b, a, t)[a].lastOK = r.lastOK
       /\ r.lastTry <= r.lastOK \/ r.lastTry = Never => Attempted(b, a, t)[a].fails = r.fails
  BY <1>1, <1>3, <1>8 DEF Record
<1> QED
  BY <1>2, <1>9, <1>10, <1>11

\* Connections go, and come from a dial alone.
LEMMA ConnectionsAfter ==
    ASSUME SweepTypes, [Next]_vars
    PROVE  /\ NamesFit => NamesFit'
           /\ ~DialReaches =>
                \A i \in Id : conn'[i].kind = "out" => conn'[i] = conn[i]
           /\ DialReaches =>
                \A i \in Id : conn'[i].kind = "out" => conn'[i] = conn[i] \/ conn'[i].addr = dial.addr
<1>0. conn \in [Id -> Conns] /\ NoConn.kind # "out" /\ [NoConn EXCEPT !.kind = "in", !.since = now].kind # "out"
  BY DEF SweepTypes, NoConn
<1>1. CASE DialReaches
  <2>1. dial.addr \in Addr /\ IdOf[dial.addr] \in Id
    BY <1>1, SweepAssumption, AnswersAssumption DEF DialReaches
  <2>2. conn' = [conn EXCEPT ![IdOf[dial.addr]] = [kind |-> "out", addr |-> dial.addr, since |-> now]]
    BY <1>1 DEF DialReaches
  <2>3. \A i \in Id : conn'[i] = IF i = IdOf[dial.addr]
                                 THEN [kind |-> "out", addr |-> dial.addr, since |-> now] ELSE conn[i]
    BY <1>0, <2>1, <2>2
  <2> QED
    BY <1>1, <2>1, <2>3 DEF NamesFit
<1>2. CASE Stop \/ Cycle
  <2>1. \A i \in Id : conn'[i] = NoConn \/ conn'[i] = conn[i]
    BY <1>2 DEF Stop, Cycle
  <2> QED
    BY <1>0, <1>1, <2>1 DEF NamesFit
<1>3. ASSUME NEW i \in Id, Visit(i) \/ Leave(i) \/ HangUp(i)
      PROVE  \A j \in Id : conn'[j].kind = "out" => conn'[j] = conn[j]
  BY <1>0, <1>3 DEF Visit, Leave, HangUp
<1>4. CASE UNCHANGED conn
  BY <1>4, <1>1 DEF NamesFit
<1> QED
  BY <1>1, <1>2, <1>3, <1>4
     DEF Next, Start, DialPop, DialFails, AddPeer, SweepPlan, SweepMark, SweepHandOver,
         SweepDrop, Learn, LearnDials, Tick, vars, NamesFit

LEMMA ShapePreserved == DialShape /\ [Next]_vars => DialShape'
<1> SUFFICES ASSUME DialShape, [Next]_vars PROVE DialShape'
  OBVIOUS
<1>1. CASE DialPop
  BY <1>1 DEF DialPop, DialShape
<1>2. CASE DialReaches
  BY <1>2 DEF DialReaches, DialShape
<1>3. CASE DialFails \/ AddPeer \/ Stop
  BY <1>3 DEF DialFails, AddPeer, Stop, DialIdle, DialShape
<1>4. CASE UNCHANGED dial
  BY <1>4 DEF DialShape
<1> QED
  BY <1>1, <1>2, <1>3, <1>4
     DEF Next, Start, Visit, Leave, HangUp, SweepPlan, SweepMark, SweepHandOver, SweepDrop, Learn, LearnDials,
         Cycle, Tick, vars

LEMMA BlameInit == Init => BlameInv
<1> SUFFICES ASSUME Init PROVE BlameInv
  OBVIOUS
<1>1. Distinct(sweep.left)
  BY DEF Init, SweepIdle, Distinct
<1>2. HeldAdmissible
  BY SweepAssumption DEF Init, HeldAdmissible, Taken, admissible
<1>3. \A i \in Id : conn[i].kind # "out"
  BY DEF Init, NoConn
<1>4. DialShape
  BY DEF Init, DialIdle, DialShape
<1> QED
  BY <1>1, <1>2, <1>3, <1>4, TypesInit DEF BlameInv, NamesFit, ToldAreClean, Told

\* Nothing inadmissible comes in, whatever writes the book.
LEMMA AdmissiblePreserved == BlameInv /\ [Next]_vars => HeldAdmissible'
<1> SUFFICES ASSUME BlameInv, [Next]_vars PROVE HeldAdmissible'
  OBVIOUS
<1>0. peers \in Books /\ now \in Nat /\ SweepTypes /\ HeldAdmissible /\ Distinct(sweep.left)
  BY DEF BlameInv, SweepTypes
<1> SUFFICES ASSUME NEW c \in Addr, peers'[c] # NoRecord, peers[c] = NoRecord PROVE c \in Admissible
  BY <1>0 DEF HeldAdmissible, Held
<1>1. CASE AddPeer
  <2>1. admissible(dial.addr) /\ peers' = Succeeded(peers, dial.addr, now)
    BY <1>1 DEF AddPeer
  <2>2. dial.addr \in Addr
    BY <2>1, AddrAssumption DEF admissible
  <2>3. c = dial.addr
    BY <1>0, <2>1, <2>2, RecordsAfter
  <2> QED
    BY <2>1, <2>3 DEF admissible
<1>2. CASE SweepPlan
  <2>1. PICK S \in SUBSET Held(peers) : peers' = Renewed(S)
    BY <1>0, <1>2, PlanTyped
  <2> QED
    BY <2>1 DEF Renewed, Held
<1>3. CASE SweepMark
  <2>1. Head(sweep.left) \in Addr
    BY <1>0, <1>3, MarkTyped
  <2>2. admissible(Head(sweep.left)) /\ peers' = Attempted(peers, Head(sweep.left), now)
    BY <1>3 DEF SweepMark
  <2>3. c = Head(sweep.left)
    BY <1>0, <2>1, <2>2, RecordsAfter
  <2> QED
    BY <2>2, <2>3 DEF admissible
<1>4. CASE SweepDrop
  BY <1>4 DEF SweepDrop, Without
<1>5. ASSUME NEW j \in Id, NEW S \in Heard, Learn(j, S) PROVE c \in Admissible
  <2>1. PICK D \in Evictable(Added(peers, S, now)) : peers' = Without(Added(peers, S, now), D)
    BY <1>5 DEF Learn
  <2>2. Added(peers, S, now)[c] # NoRecord
    BY <2>1 DEF Without
  <2>3. c \in Taken(S)
    BY <2>2 DEF Added
  <2> QED
    BY <2>3 DEF Taken, admissible
<1>6. CASE UNCHANGED peers
  BY <1>6
<1> QED
  BY <1>1, <1>2, <1>3, <1>4, <1>5, <1>6
     DEF Next, Start, Stop, DialPop, DialReaches, DialFails, Visit, Leave, HangUp, SweepHandOver,
         LearnDials, Cycle, Tick, vars

LEMMA LeftShrinks ==
    ASSUME SweepTypes, Distinct(sweep.left), [Next]_vars, ~SweepPlan
    PROVE  \A k \in 1..Len(sweep'.left) : \E j \in 1..Len(sweep.left) : sweep'.left[k] = sweep.left[j]
<1>1. CASE SweepMark
  BY <1>1, MarkTyped
<1>2. CASE SweepHandOver \/ SweepDrop \/ Stop
  <2>1. sweep'.left = <<>>
    BY <1>2 DEF SweepHandOver, SweepDrop, Stop, SweepIdle
  <2> QED
    BY <2>1
<1>3. CASE UNCHANGED sweep
  BY <1>3
<1> QED
  BY <1>1, <1>2, <1>3
     DEF Next, Start, DialPop, DialReaches, DialFails, AddPeer, Visit, Leave, HangUp, Learn, LearnDials,
         Cycle, Tick, vars

\* The batch in hand does not grow.
Shrinks == \A k \in 1..Len(sweep'.left) : \E j \in 1..Len(sweep.left) : sweep'.left[k] = sweep.left[j]

\* The steps that leave the records and the dial's report alone.
LEMMA QuietStep ==
    ASSUME SweepTypes,
           \/ Start \/ DialPop \/ DialFails \/ SweepHandOver \/ Cycle \/ Tick \/ UNCHANGED vars
           \/ \E i \in Id : Visit(i) \/ Leave(i) \/ HangUp(i) \/ LearnDials(i)
    PROVE  /\ UNCHANGED peers /\ Shrinks
           /\ \A i \in Id : conn'[i].kind = "out" => conn'[i] = conn[i]
           /\ dial.pc = "adding" => UNCHANGED dial
<1>0. conn \in [Id -> Conns] /\ NoConn.kind # "out" /\ [NoConn EXCEPT !.kind = "in", !.since = now].kind # "out"
  BY DEF SweepTypes, NoConn
<1>1. UNCHANGED peers
  BY DEF Start, DialPop, DialFails, SweepHandOver, Cycle, Tick, vars, Visit, Leave, HangUp, LearnDials
<1>2. UNCHANGED sweep \/ sweep'.left = <<>>
  BY DEF Start, DialPop, DialFails, SweepHandOver, Cycle, Tick, vars, Visit, Leave, HangUp, LearnDials, SweepIdle
<1>3. Shrinks
  BY <1>2 DEF Shrinks
<1>5. ASSUME Cycle PROVE \A j \in Id : conn'[j].kind = "out" => conn'[j] = conn[j]
  BY <1>0, <1>5 DEF Cycle
<1>6. ASSUME NEW i \in Id, Visit(i) \/ Leave(i) \/ HangUp(i) \/ LearnDials(i)
      PROVE  \A j \in Id : conn'[j].kind = "out" => conn'[j] = conn[j]
  BY <1>0, <1>6 DEF Visit, Leave, HangUp, LearnDials
<1>7. \A i \in Id : conn'[i].kind = "out" => conn'[i] = conn[i]
  <2>1. CASE Start \/ DialPop \/ DialFails \/ SweepHandOver \/ Tick \/ UNCHANGED vars
    <3>1. UNCHANGED conn
      BY <2>1 DEF Start, DialPop, DialFails, SweepHandOver, Tick, vars
    <3> QED
      BY <3>1
  <2> QED
    BY <1>5, <1>6, <2>1
<1>8. dial.pc = "adding" => UNCHANGED dial
  BY DEF Start, DialPop, DialFails, SweepHandOver, Cycle, Tick, vars, Visit, Leave, HangUp, LearnDials
<1> QED
  BY <1>1, <1>3, <1>7, <1>8

LEMMA CleanPreserved == BlameInv /\ SweepTypes' /\ [Next]_vars => ToldAreClean'
<1> SUFFICES ASSUME BlameInv, SweepTypes', [Next]_vars,
                    NEW a \in Held(peers)', Told(a)', ~Telling(a)'
             PROVE  Clean(a)'
  BY DEF ToldAreClean
<1>0. /\ SweepTypes /\ Distinct(sweep.left) /\ NamesFit /\ HeldAdmissible /\ ToldAreClean
      /\ peers \in Books /\ now \in Nat /\ conn \in [Id -> Conns]
  BY DEF BlameInv, SweepTypes
<1>1. peers'[a] \in Record /\ a \in Addr
  BY HeldRecords DEF SweepTypes, Held
<1>2. PICK i \in Id : conn'[i].kind = "out" /\ conn'[i].addr = a
  BY DEF Told
<1>3. a \in Held(peers) <=> peers[a] # NoRecord
  BY <1>1 DEF Held
\* The steps that touch neither the record of the address nor the claim on it.
<1>5. ASSUME Shrinks, Told(a), ~Telling(a), a \in Held(peers), peers'[a] = peers[a]
      PROVE  Clean(a)'
  BY <1>0, <1>1, <1>5, StillClean DEF Shrinks
\* Those that make a record anew.
<1>6. ASSUME Shrinks, peers'[a].fails = 0, peers'[a].lastTry = peers'[a].lastOK
      PROVE  Clean(a)'
  BY <1>0, <1>1, <1>6, StillClean DEF Shrinks
<1>7. CASE \/ Start \/ DialPop \/ DialFails \/ SweepHandOver \/ Cycle \/ Tick \/ UNCHANGED vars
           \/ \E j \in Id : Visit(j) \/ Leave(j) \/ HangUp(j) \/ LearnDials(j)
  <2>1. /\ UNCHANGED peers /\ Shrinks /\ conn'[i] = conn[i]
        /\ dial.pc = "adding" => UNCHANGED dial
    BY <1>0, <1>2, <1>7, QuietStep
  <2>2. Told(a) /\ a \in Held(peers)
    BY <1>2, <1>3, <2>1 DEF Told, Held
  <2>3. ~Telling(a)
    BY <2>1 DEF Telling
  <2> QED
    BY <1>5, <2>1, <2>2, <2>3
<1>8. CASE DialReaches
  <2>1. UNCHANGED <<peers, sweep>> /\ dial.pc = "dialing"
    BY <1>8 DEF DialReaches
  <2>2. Shrinks /\ ~Telling(a) /\ a \in Held(peers)
    BY <1>3, <2>1 DEF Shrinks, Telling, Held
  <2>3. CASE conn'[i] = conn[i]
    BY <1>2, <1>5, <2>1, <2>2, <2>3 DEF Told
  <2>4. CASE conn'[i] # conn[i]
    <3>1. a = dial.addr
      BY <1>0, <1>2, <1>8, <2>4, ConnectionsAfter
    <3>2. dial'.pc = "adding" /\ dial'.addr = dial.addr
      BY <1>0, <1>8 DEF DialReaches, DialShape
    <3> QED
      BY <3>1, <3>2 DEF Telling
  <2> QED
    BY <2>3, <2>4
<1>9. ASSUME ~DialReaches PROVE Told(a) /\ conn'[i] = conn[i] /\ conn[i].kind = "out"
  BY <1>0, <1>2, <1>9, ConnectionsAfter DEF Told
<1>10. CASE AddPeer
  <2>1. UNCHANGED <<conn, sweep>> /\ dial.pc = "adding"
    BY <1>10 DEF AddPeer
  <2>2. Shrinks /\ Told(a)
    BY <1>2, <2>1 DEF Shrinks, Told
  <2>3. CASE admissible(dial.addr)
    <3>1. dial.addr \in Addr /\ peers' = Succeeded(peers, dial.addr, now)
      BY <1>10, <2>3, AddrAssumption DEF admissible, AddPeer
    <3>2. CASE a = dial.addr
      BY <1>0, <1>6, <2>2, <3>1, <3>2, RecordsAfter
    <3>3. CASE a # dial.addr
      <4>1. peers'[a] = peers[a]
        BY <1>0, <1>1, <3>1, <3>3, RecordsAfter
      <4> QED
        BY <1>1, <1>3, <1>5, <2>2, <3>3, <4>1 DEF Held, Telling
    <3> QED
      BY <3>2, <3>3
  <2>4. CASE ~admissible(dial.addr)
    <3>1. UNCHANGED peers
      BY <1>10, <2>4 DEF AddPeer
    <3>2. a \in Held(peers) /\ a \in Admissible
      BY <1>0, <3>1 DEF Held, HeldAdmissible
    <3> QED
      BY <1>5, <2>2, <2>4, <3>1, <3>2 DEF admissible, Telling
  <2> QED
    BY <2>3, <2>4
<1>11. CASE SweepPlan
  <2>1. UNCHANGED <<conn, dial>>
    BY <1>11 DEF SweepPlan
  <2>2. Told(a) /\ ~Telling(a) /\ Connected(a)
    BY <1>0, <1>2, <2>1 DEF Told, Telling, Connected, NamesFit
  <2>3. \A k \in 1..Len(sweep'.left) : sweep'.left[k] # a
    BY <1>0, <1>11, <2>2, PlanTyped
  <2>4. PICK S \in SUBSET Held(peers) : peers' = Renewed(S)
    BY <1>0, <1>11, PlanTyped
  <2>5. peers'[a] = Succeeded(peers, a, now)[a] \/ peers'[a] = peers[a]
    BY <1>1, <2>4 DEF Renewed
  <2>6. CASE peers'[a] = Succeeded(peers, a, now)[a]
    BY <1>0, <1>1, <2>3, <2>6, RecordsAfter DEF Clean
  <2>7. CASE peers'[a] = peers[a]
    <3>1. peers[a].fails = 0
      BY <1>0, <1>1, <1>3, <2>2, <2>7 DEF ToldAreClean, Clean, Held
    <3> QED
      BY <2>3, <2>7, <3>1 DEF Clean
  <2> QED
    BY <2>5, <2>6, <2>7
<1>12. CASE SweepMark
  <2> DEFINE h == Head(sweep.left)
  <2>1. UNCHANGED <<conn, dial>>
    BY <1>12 DEF SweepMark
  <2>2. Told(a) /\ ~Telling(a)
    BY <1>2, <2>1 DEF Told, Telling
  <2>3. /\ h = sweep.left[1] /\ h \in Addr
        /\ \A k \in 1..Len(sweep'.left) :
             sweep'.left[k] # h /\ \E j \in 1..Len(sweep.left) : sweep'.left[k] = sweep.left[j]
    BY <1>0, <1>12, MarkTyped
  <2>4. 1 \in 1..Len(sweep.left)
    <3>1. sweep.left \in Seq(Addr) /\ sweep.left # <<>>
      BY <1>0, <1>12 DEF SweepTypes, SweepStates, SweepMark
    <3> QED
      BY <3>1
  <2>5. peers' = (IF admissible(h) THEN Attempted(peers, h, now) ELSE peers)
    BY <1>12 DEF SweepMark
  <2>6. Shrinks
    BY <2>3 DEF Shrinks
  <2> HIDE DEF h
  <2>7. CASE ~admissible(h) \/ a # h
    <3>1. peers'[a] = peers[a]
      BY <1>0, <1>1, <2>3, <2>5, <2>7, RecordsAfter
    <3> QED
      BY <1>1, <1>3, <1>5, <2>2, <2>6, <3>1 DEF Held
  <2>8. CASE admissible(h) /\ a = h /\ peers[a] = NoRecord
    <3>1. peers'[a].fails = 0
      BY <1>0, <1>1, <2>3, <2>5, <2>8, RecordsAfter
    <3> QED
      BY <2>3, <2>8, <3>1 DEF Clean
  <2>9. CASE admissible(h) /\ a = h /\ peers[a] # NoRecord
    <3>1. Clean(a)
      BY <1>0, <1>3, <2>2, <2>9 DEF ToldAreClean
    <3>2. peers[a].fails = 0 /\ peers[a].lastTry <= peers[a].lastOK
      BY <2>3, <2>4, <2>9, <3>1 DEF Clean
    <3>3. peers'[a].fails = 0
      BY <1>0, <1>1, <2>3, <2>5, <2>9, <3>2, RecordsAfter
    <3> QED
      BY <2>3, <2>9, <3>3 DEF Clean
  <2> QED
    BY <2>7, <2>8, <2>9
<1>13. CASE SweepDrop
  <2>1. UNCHANGED <<conn, dial>> /\ sweep'.left = <<>>
    BY <1>13 DEF SweepDrop, SweepIdle
  <2>2. Told(a) /\ ~Telling(a) /\ Shrinks
    BY <1>2, <2>1 DEF Told, Telling, Shrinks
  <2>3. peers'[a] # NoRecord
    BY DEF Held
  <2>4. peers'[a] = peers[a]
    BY <1>1, <1>13, <2>3 DEF SweepDrop, Without
  <2> QED
    BY <1>3, <1>5, <2>2, <2>3, <2>4
<1>14. ASSUME NEW j \in Id, NEW S \in Heard, Learn(j, S) PROVE Clean(a)'
  <2>1. UNCHANGED <<conn, dial, sweep>>
    BY <1>14 DEF Learn
  <2>2. Told(a) /\ ~Telling(a) /\ Shrinks
    BY <1>2, <2>1 DEF Told, Telling, Shrinks
  <2>3. PICK D \in Evictable(Added(peers, S, now)) : peers' = Without(Added(peers, S, now), D)
    BY <1>14 DEF Learn
  <2>4. peers'[a] = Added(peers, S, now)[a]
    BY <1>1, <2>3 DEF Without, Held
  <2>5. CASE a \in Taken(S)
    <3>1. peers'[a] = [Entry(peers, a, now) EXCEPT !.lastSeen = now]
      BY <1>1, <2>4, <2>5 DEF Added
    <3>2. CASE a \in Held(peers)
      <4>1. peers'[a] = [peers[a] EXCEPT !.lastSeen = now] /\ peers[a] \in Record
        BY <1>0, <3>1, <3>2, HeldRecords DEF Entry, Held
      <4>2. /\ peers'[a].fails = peers[a].fails /\ peers'[a].lastTry = peers[a].lastTry
            /\ peers'[a].lastOK = peers[a].lastOK
        BY <4>1 DEF Record
      <4> QED
        BY <1>0, <1>1, <2>2, <3>2, <4>2, StillClean DEF Shrinks
    <3>3. CASE a \notin Held(peers)
      <4>1. peers'[a] = [Mentioned(now) EXCEPT !.lastSeen = now]
        BY <1>3, <3>1, <3>3 DEF Entry
      <4>2. peers'[a].fails = 0 /\ peers'[a].lastTry = peers'[a].lastOK
        BY <4>1 DEF Mentioned
      <4> QED
        BY <1>6, <2>2, <4>2
    <3> QED
      BY <3>2, <3>3
  <2>6. CASE a \notin Taken(S)
    <3>1. peers'[a] = peers[a]
      BY <1>1, <2>4, <2>6 DEF Added
    <3> QED
      BY <1>1, <1>3, <1>5, <2>2, <3>1 DEF Held
  <2> QED
    BY <2>5, <2>6
<1>15. CASE Stop
  BY <1>0, <1>2, <1>15 DEF Stop, NoConn
<1> QED
  BY <1>7, <1>8, <1>10, <1>11, <1>12, <1>13, <1>14, <1>15 DEF Next

LEMMA BlameKept == BlameInv /\ [Next]_vars => BlameInv'
<1> SUFFICES ASSUME BlameInv, [Next]_vars PROVE BlameInv'
  OBVIOUS
<1>1. SweepTypes /\ Distinct(sweep.left) /\ DialShape /\ NamesFit
  BY DEF BlameInv
<1>2. SweepTypes' /\ Distinct(sweep.left)'
  BY <1>1, TypesPreserved, LeftDistinct
<1>3. DialShape' /\ NamesFit' /\ HeldAdmissible'
  BY <1>1, ShapePreserved, ConnectionsAfter, AdmissiblePreserved
<1>4. ToldAreClean'
  BY <1>2, CleanPreserved
<1> QED
  BY <1>2, <1>3, <1>4 DEF BlameInv

\* ConnectedUnblamed: whatever the switch, the visitors and the clock do, an
\* address this seed is connected to, and has been told of, has no failure on
\* record, so no sweep drops it.
THEOREM ConnectedStayUnblamed == Spec => []ConnectedUnblamed
<1>1. BlameInv => ConnectedUnblamed
  BY DEF BlameInv, ToldAreClean, Told, Telling, Clean, ConnectedUnblamed
<1> QED
  BY <1>1, BlameInit, BlameKept, PTL DEF Spec

-----------------------------------------------------------------------------
(* What is served was reached.                                             *)

\* No two addresses name the same node.
OwnIdentities == \A a, b \in Addr : IdOf[a] = IdOf[b] => a = b

RecordsReached == \A a \in Held(peers) : Reached(peers[a]) => a \in reached
LinksReached == \A i \in Id : conn[i].kind = "out" => conn[i].addr \in reached
DialReached == dial.pc = "adding" => dial.addr \in reached

ReachInv ==
    /\ SweepTypes /\ Distinct(sweep.left) /\ DialShape /\ NamesFit
    /\ RecordsReached /\ LinksReached /\ DialReached

LEMMA ReachInit == Init => ReachInv
<1> SUFFICES ASSUME Init PROVE ReachInv
  OBVIOUS
<1>1. SweepTypes /\ Distinct(sweep.left) /\ DialShape /\ NamesFit
  BY BlameInit DEF BlameInv
<1>2. \A i \in Id : conn[i].kind # "out"
  BY DEF Init, NoConn
<1>3. dial.pc # "adding"
  BY DEF Init, DialIdle
<1>4. RecordsReached
  BY DEF Init, RecordsReached
<1> QED
  BY <1>1, <1>2, <1>3, <1>4 DEF ReachInv, LinksReached, DialReached

LEMMA ReachedGrows == [Next]_vars => reached \subseteq reached'
  BY DEF Next, Start, Stop, DialPop, DialReaches, DialFails, AddPeer, Visit, Leave, HangUp,
         SweepPlan, SweepMark, SweepHandOver, SweepDrop, Learn, LearnDials, Cycle, Tick, vars

LEMMA LinksPreserved == ReachInv /\ [Next]_vars => LinksReached' /\ DialReached'
<1> SUFFICES ASSUME ReachInv, [Next]_vars PROVE LinksReached' /\ DialReached'
  OBVIOUS
<1>0. SweepTypes /\ DialShape /\ LinksReached /\ DialReached /\ reached \subseteq reached'
  BY ReachedGrows DEF ReachInv
<1>1. CASE DialReaches
  <2>1. dial.addr \in reached' /\ dial'.addr = dial.addr
    BY <1>0, <1>1 DEF DialReaches, DialShape
  <2>2. \A i \in Id : conn'[i].kind = "out" => conn'[i] = conn[i] \/ conn'[i].addr = dial.addr
    BY <1>0, <1>1, ConnectionsAfter
  <2> QED
    BY <1>0, <2>1, <2>2 DEF LinksReached, DialReached
<1>2. ASSUME ~DialReaches PROVE LinksReached'
  <2>1. \A i \in Id : conn'[i].kind = "out" => conn'[i] = conn[i]
    BY <1>0, <1>2, ConnectionsAfter
  <2> QED
    BY <1>0, <2>1 DEF LinksReached
<1>3. ASSUME DialPop PROVE DialReached'
  BY <1>0, <1>3 DEF DialPop, DialReached
<1>4. ASSUME DialFails \/ AddPeer \/ Stop PROVE DialReached'
  BY <1>4 DEF DialFails, AddPeer, Stop, DialIdle, DialReached
<1>5. ASSUME UNCHANGED dial PROVE DialReached'
  BY <1>0, <1>5 DEF DialReached
<1>6. DialReached'
  BY <1>1, <1>3, <1>4, <1>5
     DEF Next, Start, Visit, Leave, HangUp, SweepPlan, SweepMark, SweepHandOver, SweepDrop, Learn, LearnDials,
         Cycle, Tick, vars
<1> QED
  BY <1>1, <1>2, <1>6

LEMMA RecordsPreserved ==
    ASSUME OwnIdentities, ReachInv, SweepTypes', [Next]_vars
    PROVE  RecordsReached'
<1> SUFFICES ASSUME NEW a \in Held(peers)', Reached(peers'[a]) PROVE a \in reached'
  BY DEF RecordsReached
<1>0. /\ SweepTypes /\ Distinct(sweep.left) /\ NamesFit /\ RecordsReached /\ LinksReached
      /\ DialReached /\ peers \in Books /\ now \in Nat
  BY DEF ReachInv, SweepTypes
<1>1. peers'[a] \in Record /\ a \in Addr /\ (a \in Held(peers) <=> peers[a] # NoRecord)
      /\ peers'[a] # NoRecord
  BY HeldRecords DEF SweepTypes, Held
\* A success the book already had.
<1>2. ASSUME a \in Held(peers), peers'[a].lastOK = peers[a].lastOK PROVE a \in reached'
  <2>1. Reached(peers[a])
    BY <1>2 DEF Reached
  <2> QED
    BY <1>0, <1>2, <2>1, ReachedGrows DEF RecordsReached
<1>3. CASE UNCHANGED peers
  BY <1>2, <1>3 DEF Held
<1>4. CASE AddPeer
  <2>1. dial.pc = "adding"
    BY <1>4 DEF AddPeer
  <2>2. CASE a = dial.addr
    BY <1>0, <2>1, <2>2, ReachedGrows DEF DialReached
  <2>3. CASE a # dial.addr
    <3>1. peers'[a] = peers[a]
      <4>1. CASE admissible(dial.addr)
        <5>1. dial.addr \in Addr /\ peers' = Succeeded(peers, dial.addr, now)
          BY <1>4, <4>1, AddrAssumption DEF admissible, AddPeer
        <5> QED
          BY <1>0, <1>1, <2>3, <5>1, RecordsAfter
      <4> QED
        BY <1>4, <4>1 DEF AddPeer
    <3> QED
      BY <1>1, <1>2, <3>1
  <2> QED
    BY <2>2, <2>3
<1>5. CASE SweepPlan
  <2>1. PICK S \in SUBSET Held(peers) : peers' = Renewed(S)
    BY <1>0, <1>5, PlanTyped
  <2>2. CASE a \in S /\ ProvenByConnection(a)
    <3>1. conn[IdOf[a]].kind = "out" /\ IdOf[a] \in Id
      BY <1>1, <2>2, AnswersAssumption DEF ProvenByConnection
    <3>2. conn[IdOf[a]].addr \in Addr /\ IdOf[conn[IdOf[a]].addr] = IdOf[a]
      BY <1>0, <3>1 DEF NamesFit
    <3>3. conn[IdOf[a]].addr = a
      BY <1>1, <3>2 DEF OwnIdentities
    <3> QED
      BY <1>0, <3>1, <3>3, ReachedGrows DEF LinksReached
  <2>3. CASE ~(a \in S /\ ProvenByConnection(a))
    <3>1. peers'[a] = peers[a]
      BY <1>1, <2>1, <2>3 DEF Renewed
    <3> QED
      BY <1>1, <1>2, <3>1
  <2> QED
    BY <2>2, <2>3
<1>6. CASE SweepMark
  <2> DEFINE h == Head(sweep.left)
  <2>1. h \in Addr
    BY <1>0, <1>6, MarkTyped
  <2>2. peers' = (IF admissible(h) THEN Attempted(peers, h, now) ELSE peers)
    BY <1>6 DEF SweepMark
  <2> HIDE DEF h
  <2>3. CASE ~admissible(h)
    BY <1>3, <2>2, <2>3
  <2>4. CASE admissible(h) /\ peers[a] # NoRecord
    <3>1. peers'[a].lastOK = peers[a].lastOK
      BY <1>0, <1>1, <2>1, <2>2, <2>4, RecordsAfter
    <3> QED
      BY <1>1, <1>2, <2>4, <3>1
  <2>5. CASE admissible(h) /\ peers[a] = NoRecord
    <3>1. a = h
      BY <1>0, <1>1, <2>1, <2>2, <2>5, RecordsAfter
    <3>2. peers'[a].lastOK = Never
      BY <1>0, <1>1, <2>2, <2>5, <3>1, RecordsAfter
    <3> QED
      BY <3>2 DEF Reached
  <2> QED
    BY <2>3, <2>4, <2>5
<1>7. CASE SweepDrop
  <2>1. peers'[a] = peers[a]
    BY <1>1, <1>7 DEF SweepDrop, Without
  <2> QED
    BY <1>1, <1>2, <2>1
<1>8. ASSUME NEW j \in Id, NEW S \in Heard, Learn(j, S) PROVE a \in reached'
  <2>1. PICK D \in Evictable(Added(peers, S, now)) : peers' = Without(Added(peers, S, now), D)
    BY <1>8 DEF Learn
  <2>2. peers'[a] = Added(peers, S, now)[a]
    BY <1>1, <2>1 DEF Without
  <2>3. CASE a \notin Taken(S)
    <3>1. peers'[a] = peers[a]
      BY <1>1, <2>2, <2>3 DEF Added
    <3> QED
      BY <1>1, <1>2, <3>1
  <2>4. CASE a \in Taken(S)
    <3>1. peers'[a] = [Entry(peers, a, now) EXCEPT !.lastSeen = now]
      BY <1>1, <2>2, <2>4 DEF Added
    <3>2. CASE a \in Held(peers)
      <4>1. peers'[a] = [peers[a] EXCEPT !.lastSeen = now] /\ peers[a] \in Record
        BY <1>0, <1>1, <3>1, <3>2, HeldRecords DEF Entry
      <4>2. peers'[a].lastOK = peers[a].lastOK
        BY <4>1 DEF Record
      <4> QED
        BY <1>2, <3>2, <4>2
    <3>3. CASE a \notin Held(peers)
      <4>1. peers'[a] = [Mentioned(now) EXCEPT !.lastSeen = now]
        BY <1>1, <3>1, <3>3 DEF Entry
      <4>2. peers'[a].lastOK = Never
        BY <4>1 DEF Mentioned
      <4> QED
        BY <4>2 DEF Reached
    <3> QED
      BY <3>2, <3>3
  <2> QED
    BY <2>3, <2>4
<1> QED
  BY <1>3, <1>4, <1>5, <1>6, <1>7, <1>8
     DEF Next, Start, Stop, DialPop, DialReaches, DialFails, Visit, Leave, HangUp, SweepHandOver,
         LearnDials, Cycle, Tick, vars

LEMMA ReachKept ==
    ASSUME OwnIdentities
    PROVE  ReachInv /\ [Next]_vars => ReachInv'
<1> SUFFICES ASSUME ReachInv, [Next]_vars PROVE ReachInv'
  OBVIOUS
<1>1. SweepTypes /\ Distinct(sweep.left) /\ DialShape /\ NamesFit
  BY DEF ReachInv
<1>2. SweepTypes' /\ Distinct(sweep.left)' /\ DialShape' /\ NamesFit'
  BY <1>1, TypesPreserved, LeftDistinct, ShapePreserved, ConnectionsAfter
<1>3. LinksReached' /\ DialReached'
  BY LinksPreserved
<1>4. RecordsReached'
  BY <1>2, RecordsPreserved
<1> QED
  BY <1>2, <1>3, <1>4 DEF ReachInv

\* ServedWereReached: as long as no two addresses name the same node, nothing
\* is served that no dial of this seed has reached, whatever peers announce,
\* connect, leave or answer.  sweep_shared shows that the condition is needed.
THEOREM ServedAreReached ==
    ASSUME OwnIdentities
    PROVE  Spec => []ServedWereReached
<1>1. ReachInv => ServedWereReached
  BY DEF ReachInv, RecordsReached, Served, FreshSet, Held, ServedWereReached
<1> QED
  BY <1>1, ReachInit, ReachKept, PTL DEF Spec

-----------------------------------------------------------------------------
(* No connection overstays.                                                *)

DownIsAlone == ~up => \A i \in Id : conn[i].kind = "none"
NextTickIsNear == up => now <= nextCycle /\ nextCycle <= now + cycleInterval
ClosedInTime ==
    \A i \in Id : conn[i].kind # "none" => nextCycle <= conn[i].since + Wait + cycleInterval

StayInv ==
    /\ SweepTypes /\ Distinct(sweep.left)
    /\ DownIsAlone /\ NextTickIsNear /\ ClosedInTime

\* What a step does to one connection.
LEMMA ConnectionStep ==
    ASSUME SweepTypes, [Next]_vars, NEW i \in Id, conn'[i].kind # "none"
    PROVE  \/ conn'[i] = conn[i]
           \/ up /\ up' /\ conn'[i].since = now /\ UNCHANGED <<now, nextCycle>>
<1>0. conn \in [Id -> Conns] /\ NoConn.kind = "none" /\ [NoConn EXCEPT !.kind = "in", !.since = now].since = now
  BY DEF SweepTypes, NoConn
<1>1. CASE DialReaches
  <2>1. conn' = [conn EXCEPT ![IdOf[dial.addr]] = [kind |-> "out", addr |-> dial.addr, since |-> now]]
        /\ up /\ UNCHANGED <<up, now, nextCycle>>
    BY <1>1 DEF DialReaches
  <2>2. conn'[i] = conn[i] \/ conn'[i] = [kind |-> "out", addr |-> dial.addr, since |-> now]
    BY <1>0, <2>1
  <2> QED
    BY <2>1, <2>2
<1>2. ASSUME NEW j \in Id, Visit(j)
      PROVE  \/ conn'[i] = conn[i]
             \/ up /\ up' /\ conn'[i].since = now /\ UNCHANGED <<now, nextCycle>>
  BY <1>0, <1>2 DEF Visit
<1>3. ASSUME NEW j \in Id, Leave(j) \/ HangUp(j) PROVE conn'[i] = conn[i]
  BY <1>0, <1>3 DEF Leave, HangUp
<1>4. CASE Stop \/ Cycle
  BY <1>0, <1>4 DEF Stop, Cycle
<1>5. CASE UNCHANGED conn
  BY <1>5
<1> QED
  BY <1>1, <1>2, <1>3, <1>4, <1>5
     DEF Next, Start, DialPop, DialFails, AddPeer, SweepPlan, SweepMark, SweepHandOver, SweepDrop,
         Learn, LearnDials, Tick, vars

\* NoneOverstays: where the cycle runs and its ticks are taken when due, a
\* connection is closed within the wait and one interval, whatever peers
\* connect and however the wait and the interval compare.
THEOREM NoneOverstay ==
    ASSUME "late" \notin Faults, Wait > 0
    PROVE  Spec => []NoneOverstays
<1>1. Init => StayInv
  <2> SUFFICES ASSUME Init PROVE StayInv
    OBVIOUS
  <2>1. SweepTypes /\ Distinct(sweep.left)
    BY BlameInit DEF BlameInv
  <2>2. \A i \in Id : conn[i].kind = "none"
    BY DEF Init, NoConn
  <2>3. up = FALSE
    BY DEF Init
  <2> QED
    BY <2>1, <2>2, <2>3 DEF StayInv, DownIsAlone, NextTickIsNear, ClosedInTime
<1>2. StayInv /\ [Next]_vars => StayInv'
  <2> SUFFICES ASSUME StayInv, [Next]_vars PROVE StayInv'
    OBVIOUS
  <2>0. /\ SweepTypes /\ now \in Nat /\ nextCycle \in Nat /\ conn \in [Id -> Conns]
        /\ cycleInterval \in Nat \ {0} /\ Wait \in Nat \ {0} /\ cycleInterval' = cycleInterval
        /\ DownIsAlone /\ NextTickIsNear /\ ClosedInTime
    BY IntervalType, SweepAssumption DEF StayInv, SweepTypes, cycleInterval
  <2>1. SweepTypes' /\ Distinct(sweep.left)'
    BY TypesPreserved, LeftDistinct DEF StayInv
  <2>2. \A i \in Id : conn[i] \in Conns /\ conn[i].since \in Nat
    BY <2>0 DEF Conns
  <2>3. CASE Start
    <3>1. /\ \A i \in Id : conn'[i].kind = "none"
          /\ now' = now /\ nextCycle' = now + cycleInterval /\ up'
      BY <2>0, <2>3 DEF Start, DownIsAlone
    <3> QED
      BY <2>0, <2>1, <3>1 DEF StayInv, DownIsAlone, NextTickIsNear, ClosedInTime
  <2>4. CASE Stop
    <3>1. (\A i \in Id : conn'[i].kind = "none") /\ up' = FALSE
      BY <2>4 DEF Stop, NoConn
    <3> QED
      BY <2>1, <3>1 DEF StayInv, DownIsAlone, NextTickIsNear, ClosedInTime
  <2>5. CASE Cycle
    <3>1. up /\ up' /\ now' = now /\ now = nextCycle
      BY <2>0, <2>5 DEF Cycle, NextTickIsNear
    <3>2. nextCycle' = now + cycleInterval
      BY <2>0, <2>5, <3>1, TickedType DEF Cycle
    <3>3. ASSUME NEW i \in Id, conn'[i].kind # "none"
          PROVE  conn'[i] = conn[i] /\ now - conn[i].since < Wait
      BY <2>0, <2>2, <2>5, <3>3 DEF Cycle, Overdue, NoConn
    <3>4. ASSUME NEW i \in Id, conn'[i].kind # "none"
          PROVE  nextCycle' <= conn'[i].since + Wait + cycleInterval
      BY <2>0, <2>2, <3>2, <3>3, <3>4
    <3>5. ClosedInTime'
      BY <2>0, <3>4 DEF ClosedInTime
    <3>6. DownIsAlone' /\ NextTickIsNear'
      BY <2>0, <3>1, <3>2 DEF DownIsAlone, NextTickIsNear
    <3> QED
      BY <2>1, <3>5, <3>6 DEF StayInv
  <2>6. CASE Tick
    <3>1. up /\ now < nextCycle
      BY <2>6, <2>0 DEF Tick, Late, NothingDue
    <3>2. now' = now + 1 /\ UNCHANGED <<up, conn, nextCycle>>
      BY <2>6 DEF Tick
    <3>3. DownIsAlone' /\ NextTickIsNear' /\ ClosedInTime'
      BY <2>0, <3>1, <3>2 DEF DownIsAlone, NextTickIsNear, ClosedInTime
    <3> QED
      BY <2>1, <3>3 DEF StayInv
  <2>7. CASE UNCHANGED <<up, now, nextCycle>>
    <3>1. ASSUME NEW i \in Id, conn'[i].kind # "none"
          PROVE  up /\ nextCycle <= conn'[i].since + Wait + cycleInterval
      <4>1. CASE conn'[i] = conn[i]
        BY <2>0, <3>1, <4>1 DEF DownIsAlone, ClosedInTime
      <4>2. CASE up /\ conn'[i].since = now
        BY <2>0, <4>2 DEF NextTickIsNear
      <4> QED
        BY <2>0, <3>1, <4>1, <4>2, ConnectionStep
    <3>2. DownIsAlone' /\ NextTickIsNear' /\ ClosedInTime'
      BY <2>0, <2>7, <3>1 DEF DownIsAlone, NextTickIsNear, ClosedInTime
    <3> QED
      BY <2>1, <3>2 DEF StayInv
  <2> QED
    BY <2>3, <2>4, <2>5, <2>6, <2>7
       DEF Next, DialPop, DialReaches, DialFails, AddPeer, Visit, Leave, HangUp, SweepPlan,
           SweepMark, SweepHandOver, SweepDrop, Learn, LearnDials, vars
<1>3. StayInv => NoneOverstays
  <2> SUFFICES ASSUME StayInv, NEW i \in Id, conn[i].kind # "none"
               PROVE  now - conn[i].since <= Wait + cycleInterval
    BY DEF NoneOverstays
  <2>1. now \in Nat /\ nextCycle \in Nat /\ conn[i].since \in Nat /\ Wait \in Nat /\ cycleInterval \in Nat
    BY IntervalType, SweepAssumption DEF StayInv, SweepTypes, Conns
  <2>2. now <= nextCycle /\ nextCycle <= conn[i].since + Wait + cycleInterval
    BY DEF StayInv, DownIsAlone, NextTickIsNear, ClosedInTime
  <2> QED
    BY <2>1, <2>2
<1> QED
  BY <1>1, <1>2, <1>3, PTL DEF Spec

-----------------------------------------------------------------------------
(* What an answer carries: from the order in which spreadByGroup gives the  *)
(* addresses of a draw to what whoever asks is promised.                    *)

-----------------------------------------------------------------------------
(* What an answer carries.                                                  *)

LEMMA SmallestOf ==
    ASSUME NEW S \in SUBSET Nat, S # {}
    PROVE  \E m \in S : \A x \in S : m <= x
<1> DEFINE less == {p \in Nat \X Nat : p[1] < p[2]}
<1>1. IsWellFoundedOn(less, Nat)
  BY NatLessThanWellFounded DEF OpToRel
<1>2. PICK m \in S : \A x \in S : ~(<<x, m>> \in less)
  BY <1>1, WFMin, Zenon
<1>3. ASSUME NEW x \in S PROVE m <= x
  <2>1. x \in Nat /\ m \in Nat /\ ~(<<x, m>> \in less)
    BY <1>2
  <2>2. <<x, m>> \in Nat \X Nat /\ <<x, m>>[1] = x /\ <<x, m>>[2] = m
    BY <2>1
  <2>3. ~(x < m)
    BY <2>1, <2>2
  <2> QED
    BY <2>1, <2>3
<1> QED
  BY <1>3

LEMMA GreatestOf ==
    ASSUME NEW n \in Nat, NEW S \in SUBSET (1..n), S # {}
    PROVE  \E m \in S : \A x \in S : x <= m
<1> DEFINE T == {n - x : x \in S}
<1>1. T \in SUBSET Nat /\ T # {}
  <2>1. ASSUME NEW x \in S PROVE x \in 1..n /\ n - x \in Nat
    <3>1. x \in 1..n
      OBVIOUS
    <3> QED
      BY <3>1
  <2> QED
    BY <2>1
<1>2. PICK m \in T : \A x \in T : m <= x
  BY <1>1, SmallestOf, Zenon
<1>3. PICK k \in S : m = n - k
  BY <1>2
<1>4. ASSUME NEW x \in S PROVE x <= k
  <2>1. x \in 1..n /\ k \in 1..n
    OBVIOUS
  <2>2. n - k <= n - x
    BY <1>2, <1>3
  <2> QED
    BY <2>1, <2>2
<1> QED
  BY <1>4

\* The places of a strict order of 1..n: counting, from one, those in front.
StrictOrder(n, front) ==
    /\ \A k \in 1..n : front[k] \in SUBSET (1..n) /\ k \notin front[k]
    /\ \A i, j \in 1..n : i # j => i \in front[j] \/ j \in front[i]
    /\ \A i, j \in 1..n : i \in front[j] => front[i] \subseteq front[j]
PlacesIn(n, front, place) == place = [k \in 1..n |-> 1 + Cardinality(front[k])]
Placing(n, front, place) ==
    /\ place \in [1..n -> 1..n]
    /\ \A k \in 1..n : place[k] = 1 + Cardinality(front[k])
    /\ \A i, j \in 1..n : i \in front[j] => place[i] < place[j]
    /\ \A i, j \in 1..n : i # j => place[i] # place[j]
    /\ \A p \in 1..n : \E k \in 1..n : place[k] = p

LEMMA PlacesOf ==
    ASSUME NEW n \in Nat, NEW front, StrictOrder(n, front),
           NEW place, PlacesIn(n, front, place)
    PROVE  Placing(n, front, place)
<1>1. IsFiniteSet(1..n) /\ Cardinality(1..n) = n
  BY FS_Interval
<1>2. ASSUME NEW k \in 1..n
      PROVE  IsFiniteSet(front[k]) /\ Cardinality(front[k]) \in Nat /\ Cardinality(front[k]) < n
  <2>1. front[k] \in SUBSET (1..n) /\ k \notin front[k]
    BY DEF StrictOrder
  <2>2. /\ IsFiniteSet(front[k]) /\ Cardinality(front[k]) \in Nat /\ Cardinality(front[k]) <= n
        /\ (n = Cardinality(front[k]) => 1..n = front[k])
    BY <1>1, <2>1, FS_Subset, FS_CardinalityType
  <2> QED
    BY <2>1, <2>2
<1>3. place \in [1..n -> 1..n] /\ \A k \in 1..n : place[k] \in Int /\ place[k] = 1 + Cardinality(front[k])
  <2>1. \A k \in 1..n : 1 + Cardinality(front[k]) \in 1..n
    BY <1>2
  <2>2. place \in [1..n -> 1..n]
    BY <2>1 DEF PlacesIn
  <2>3. \A k \in 1..n : place[k] = 1 + Cardinality(front[k])
    BY DEF PlacesIn
  <2> QED
    BY <2>1, <2>2, <2>3
<1>4. ASSUME NEW i \in 1..n, NEW j \in 1..n, i \in front[j]
      PROVE  place[i] < place[j]
  <2>1. front[i] \in SUBSET front[j] /\ i \notin front[i]
    BY <1>4 DEF StrictOrder
  <2>2. /\ IsFiniteSet(front[j]) /\ Cardinality(front[i]) \in Nat /\ Cardinality(front[j]) \in Nat
        /\ front[i] # front[j]
    BY <1>2, <1>4, <2>1
  <2>3. Cardinality(front[i]) <= Cardinality(front[j]) /\ Cardinality(front[i]) # Cardinality(front[j])
    BY <2>1, <2>2, FS_Subset
  <2> QED
    BY <1>3, <2>2, <2>3
<1>5. \A i, j \in 1..n : i # j => place[i] # place[j]
  <2> SUFFICES ASSUME NEW i \in 1..n, NEW j \in 1..n, i # j PROVE place[i] # place[j]
    OBVIOUS
  <2>1. place[i] < place[j] \/ place[j] < place[i]
    BY <1>4 DEF StrictOrder
  <2>2. place[i] \in Int /\ place[j] \in Int
    BY <1>3
  <2> QED
    BY <2>1, <2>2
<1>6. place \in Injection(1..n, 1..n)
  <2>1. DOMAIN place = 1..n
    BY <1>3
  <2> QED
    BY <1>3, <1>5, <2>1 DEF Injection, IsInjective
<1>7. place \in Surjection(1..n, 1..n)
  BY <1>1, <1>6, FS_Injection
<1> QED
  BY <1>3, <1>4, <1>5, <1>7 DEF Surjection, Placing

\* Rounds that rise along each bucket; where each bucket is opened; and what is
\* given before each, when the rounds are gone through one after the other, and
\* in each the buckets as they were opened.
RoundsIn(n, color, round) ==
    round = [k \in 1..n |-> Cardinality({j \in 1..n : color[j] = color[k] /\ j < k})]
Rising(n, color, round) ==
    \A j, k \in 1..n : color[j] = color[k] /\ j < k => round[j] < round[k]
Opening(n, color, round) ==
    \A k \in 1..n : \E j \in 1..n : color[j] = color[k] /\ round[j] = 0
OpenedAt(n, color, round, opened) ==
    \A k \in 1..n : color[opened[k]] = color[k] /\ round[opened[k]] = 0
GivenBefore(n, round, opened, front) ==
    \A j, k \in 1..n : j \in front[k] <=> \/ round[j] < round[k]
                                          \/ round[j] = round[k] /\ opened[j] < opened[k]

\* The round an address is given in rises along its bucket, which has a first.
LEMMA RoundsRise ==
    ASSUME NEW n \in Nat, NEW color, NEW round, RoundsIn(n, color, round)
    PROVE  /\ round \in [1..n -> Nat]
           /\ Rising(n, color, round) /\ Opening(n, color, round)
<1> DEFINE mates == [k \in 1..n |-> {j \in 1..n : color[j] = color[k] /\ j < k}]
<1>1. round = [k \in 1..n |-> Cardinality(mates[k])]
  BY DEF RoundsIn
<1>2. \A j, k \in 1..n : j \in mates[k] <=> color[j] = color[k] /\ j < k
  OBVIOUS
<1>3. \A k \in 1..n : mates[k] \in SUBSET (1..n)
  OBVIOUS
<1> HIDE DEF mates
<1>4. ASSUME NEW k \in 1..n PROVE IsFiniteSet(mates[k]) /\ Cardinality(mates[k]) \in Nat
  <2>1. IsFiniteSet(1..n)
    BY FS_Interval
  <2> QED
    BY <1>3, <2>1, FS_Subset, FS_CardinalityType
<1>5. round \in [1..n -> Nat]
  BY <1>1, <1>4
<1>6. ASSUME NEW j \in 1..n, NEW k \in 1..n, color[j] = color[k], j < k
      PROVE  round[j] < round[k]
  <2>1. j \in mates[k] /\ j \notin mates[j]
    BY <1>2, <1>6
  <2>2. mates[j] \in SUBSET mates[k]
    <3> SUFFICES ASSUME NEW i \in mates[j] PROVE i \in mates[k]
      OBVIOUS
    <3>1. i \in 1..n
      BY <1>3
    <3> QED
      BY <1>2, <1>6, <3>1
  <2>3. Cardinality(mates[j]) <= Cardinality(mates[k]) /\ Cardinality(mates[j]) # Cardinality(mates[k])
    BY <1>4, <2>1, <2>2, FS_Subset
  <2> QED
    BY <1>1, <1>4, <2>3
<1>7. ASSUME NEW k \in 1..n
      PROVE  \E j \in 1..n : color[j] = color[k] /\ round[j] = 0
  <2> DEFINE bucket == {j \in 1..n : color[j] = color[k]}
  <2>1. bucket \in SUBSET Nat /\ bucket # {}
    OBVIOUS
  <2>2. PICK j \in bucket : \A i \in bucket : j <= i
    BY <2>1, SmallestOf, Zenon
  <2>3. mates[j] = {}
    <3> SUFFICES ASSUME NEW i \in mates[j] PROVE FALSE
      OBVIOUS
    <3>1. i \in 1..n /\ i < j /\ color[i] = color[j]
      BY <1>2, <1>3, <2>2
    <3>2. i \in bucket
      BY <2>2, <3>1
    <3> QED
      BY <2>2, <3>1, <3>2
  <2>4. Cardinality(mates[j]) = 0
    BY <2>3, FS_EmptySet
  <2> QED
    BY <1>1, <2>2, <2>4
<1> QED
  BY <1>5, <1>6, <1>7 DEF Rising, Opening

LEMMA OneARound ==
    ASSUME NEW n \in Nat, NEW color, NEW round \in [1..n -> Nat], Rising(n, color, round)
    PROVE  \A j, k \in 1..n : color[j] = color[k] /\ round[j] = round[k] => j = k
<1> SUFFICES ASSUME NEW j \in 1..n, NEW k \in 1..n, color[j] = color[k], round[j] = round[k]
             PROVE  j = k
  OBVIOUS
<1>1. round[j] \in Nat /\ round[k] \in Nat
  OBVIOUS
<1>2. ~(j < k) /\ ~(k < j)
  BY <1>1 DEF Rising
<1> QED
  BY <1>2

LEMMA GivenInOrder ==
    ASSUME NEW n \in Nat, NEW round \in [1..n -> Int], NEW opened \in [1..n -> Int],
           NEW front, \A k \in 1..n : front[k] \subseteq 1..n, GivenBefore(n, round, opened, front)
    PROVE  /\ \A k \in 1..n : k \notin front[k]
           /\ \A i, j \in 1..n :
                i \in front[j] \/ j \in front[i] \/ (round[i] = round[j] /\ opened[i] = opened[j])
           /\ \A i, j \in 1..n : i \in front[j] => front[i] \subseteq front[j]
<1>1. ASSUME NEW k \in 1..n PROVE k \notin front[k]
  BY DEF GivenBefore
<1>2. ASSUME NEW i \in 1..n, NEW j \in 1..n
      PROVE  i \in front[j] \/ j \in front[i] \/ (round[i] = round[j] /\ opened[i] = opened[j])
  BY DEF GivenBefore
<1>3. ASSUME NEW i \in 1..n, NEW j \in 1..n, i \in front[j], NEW k \in front[i] PROVE k \in front[j]
  <2>1. k \in 1..n
    <3>1. front[i] \subseteq 1..n
      OBVIOUS
    <3> QED
      BY <1>3, <3>1
  <2>2. \A y \in 1..n : k \in front[y] <=> \/ round[k] < round[y]
                                           \/ round[k] = round[y] /\ opened[k] < opened[y]
    BY <2>1, Zenon DEF GivenBefore
  <2>3. \/ round[i] < round[j]
        \/ round[i] = round[j] /\ opened[i] < opened[j]
    BY <1>3, Zenon DEF GivenBefore
  <2>4. \/ round[k] < round[i]
        \/ round[k] = round[i] /\ opened[k] < opened[i]
    BY <1>3, <2>2, Zenon
  <2>5. {round[i], round[j], round[k], opened[i], opened[j], opened[k]} \subseteq Int
    BY <2>1
  <2>6. \/ round[k] < round[j]
        \/ round[k] = round[j] /\ opened[k] < opened[j]
    BY <2>3, <2>4, <2>5
  <2> QED
    BY <2>2, <2>6, Zenon
<1> QED
  BY <1>1, <1>2, <1>3

\* The places then taken.
LEMMA TurnsTaken ==
    ASSUME NEW n \in Nat, NEW color, NEW round \in [1..n -> Nat],
           NEW opened \in [1..n -> 1..n], NEW front \in [1..n -> SUBSET (1..n)],
           Rising(n, color, round), OpenedAt(n, color, round, opened),
           GivenBefore(n, round, opened, front),
           NEW place, PlacesIn(n, front, place)
    PROVE  Placing(n, front, place) /\ (n > 0 => place[1] = 1)
<1>0. /\ round \in [1..n -> Int] /\ opened \in [1..n -> Int]
      /\ \A k \in 1..n : front[k] \subseteq 1..n
  OBVIOUS
<1>1. /\ \A k \in 1..n : k \notin front[k]
      /\ \A i, j \in 1..n :
           i \in front[j] \/ j \in front[i] \/ (round[i] = round[j] /\ opened[i] = opened[j])
      /\ \A i, j \in 1..n : i \in front[j] => front[i] \subseteq front[j]
  BY <1>0, GivenInOrder
<1>2. \A j, k \in 1..n : color[j] = color[k] /\ round[j] = round[k] => j = k
  BY OneARound
<1>3. ASSUME NEW i \in 1..n, NEW j \in 1..n, round[i] = round[j], opened[i] = opened[j] PROVE i = j
  <2>1. color[opened[i]] = color[i] /\ color[opened[j]] = color[j]
    BY DEF OpenedAt
  <2>2. color[i] = color[j]
    BY <1>3, <2>1
  <2> QED
    BY <1>2, <1>3, <2>2
<1>4. StrictOrder(n, front)
  BY <1>0, <1>1, <1>3 DEF StrictOrder
<1>5. Placing(n, front, place)
  BY <1>4, PlacesOf
<1>6. ASSUME n > 0 PROVE place[1] = 1
  <2>1. 1 \in 1..n
    BY <1>6
  <2>2. round[1] = 0 /\ opened[1] = 1
    <3>1. opened[1] \in 1..n /\ color[opened[1]] = color[1] /\ round[opened[1]] = 0 /\ round[1] \in Nat
      BY <2>1 DEF OpenedAt
    <3>2. 1 < opened[1] => round[1] < round[opened[1]]
      BY <2>1, <3>1 DEF Rising
    <3> QED
      BY <2>1, <3>1, <3>2
  <2>3. front[1] = {}
    <3> SUFFICES ASSUME NEW k \in front[1] PROVE FALSE
      OBVIOUS
    <3>1. k \in 1..n /\ round[k] \in Nat /\ opened[k] \in 1..n
      BY <2>1
    <3> QED
      BY <2>1, <2>2, <3>1 DEF GivenBefore
  <2>4. Cardinality(front[1]) = 0
    BY <2>3, FS_EmptySet
  <2> QED
    BY <1>5, <2>1, <2>4 DEF Placing
<1> QED
  BY <1>5, <1>6

\* The group of each address of a draw.
Colors(s, group) == [k \in DOMAIN s |-> group[s[k]]]

LEMMA RoundsOfDraw ==
    ASSUME NEW n \in Nat, NEW S, NEW s \in [1..n -> S], NEW group
    PROVE  /\ Rounds(s, group) \in [1..n -> Nat] /\ RoundsIn(n, Colors(s, group), Rounds(s, group))
           /\ Rising(n, Colors(s, group), Rounds(s, group))
           /\ Opening(n, Colors(s, group), Rounds(s, group))
<1> DEFINE color == Colors(s, group)
           round == Rounds(s, group)
           mates == [k \in 1..n |-> {j \in 1..n : color[j] = color[k] /\ j < k}]
<1>1. DOMAIN s = 1..n
  OBVIOUS
<1>2. \A k \in 1..n : color[k] = group[s[k]]
  BY <1>1 DEF Colors
<1>3. \A k \in 1..n : mates[k] = {j \in DOMAIN s : group[s[j]] = group[s[k]] /\ j < k}
  <2> HIDE DEF color
  <2> QED
    BY <1>1, <1>2
<1>4. round = [k \in 1..n |-> Cardinality(mates[k])]
  <2>1. round = [k \in DOMAIN s |-> Cardinality({j \in DOMAIN s : group[s[j]] = group[s[k]] /\ j < k})]
    BY DEF Rounds
  <2> HIDE DEF mates, round
  <2> QED
    BY <1>1, <1>3, <2>1
<1>5. RoundsIn(n, color, round)
  <2> HIDE DEF color, round
  <2> QED
    BY <1>4 DEF RoundsIn
<1> HIDE DEF color, round, mates
<1>6. round \in [1..n -> Nat] /\ Rising(n, color, round) /\ Opening(n, color, round)
  BY <1>5, RoundsRise
<1> QED
  BY <1>5, <1>6 DEF color, round

\* An order of the places of a draw in which nothing is given before what an
\* earlier round gives, and the first drawn is given first.
Spreading(n, round, at) ==
    /\ at \in [1..n -> 1..n]
    /\ \A i, j \in 1..n : i # j => at[i] # at[j]
    /\ \A k \in 1..n : \E i \in 1..n : at[i] = k
    /\ \A i, k \in 1..n : round[k] < round[at[i]] => \E j \in 1..i : at[j] = k
    /\ n > 0 => at[1] = 1

Reordered(n, s, at) == [i \in 1..n |-> s[at[i]]]

\* What spreadByGroup returns.
LEMMA SpreadOrder ==
    ASSUME NEW n \in Nat, NEW S, NEW s \in [1..n -> S], NEW group
    PROVE  \E at : /\ Spreading(n, Rounds(s, group), at)
                   /\ spreadByGroup(s, group) = Reordered(n, s, at)
<1> DEFINE color == Colors(s, group)
           round == Rounds(s, group)
           opened == [k \in DOMAIN s |->
                         CHOOSE j \in DOMAIN s : group[s[j]] = group[s[k]] /\ round[j] = 0]
           front == [k \in 1..n |-> {j \in DOMAIN s : \/ round[j] < round[k]
                                                      \/ round[j] = round[k] /\ opened[j] < opened[k]}]
           place == [k \in DOMAIN s |-> 1 + Cardinality({j \in DOMAIN s :
                        \/ round[j] < round[k]
                        \/ round[j] = round[k] /\ opened[j] < opened[k]})]
           at == [i \in 1..n |-> CHOOSE k \in DOMAIN s : place[k] = i]
<1>0. DOMAIN s = 1..n
  OBVIOUS
<1>1. spreadByGroup(s, group) = [i \in 1..n |-> s[at[i]]]
  <2>1. spreadByGroup(s, group) = [i \in DOMAIN s |-> s[CHOOSE k \in DOMAIN s : place[k] = i]]
    BY Zenon DEF spreadByGroup
  <2>2. \A i \in 1..n : at[i] = CHOOSE k \in DOMAIN s : place[k] = i
    OBVIOUS
  <2> HIDE DEF place, at
  <2> QED
    BY <1>0, <2>1, <2>2
<1>2. round \in [1..n -> Nat] /\ Rising(n, color, round) /\ Opening(n, color, round)
  BY RoundsOfDraw
<1>c. \A k \in 1..n : color[k] = group[s[k]]
  BY <1>0 DEF Colors
<1> HIDE DEF color, round
<1>3. opened \in [1..n -> 1..n] /\ OpenedAt(n, color, round, opened)
  <2>1. ASSUME NEW k \in 1..n
        PROVE  opened[k] \in 1..n /\ color[opened[k]] = color[k] /\ round[opened[k]] = 0
    <3>1. PICK j \in 1..n : group[s[j]] = group[s[k]] /\ round[j] = 0
      <4>1. PICK j \in 1..n : color[j] = color[k] /\ round[j] = 0
        BY <1>2 DEF Opening
      <4> QED
        BY <1>c, <4>1
    <3>2. opened[k] \in 1..n /\ group[s[opened[k]]] = group[s[k]] /\ round[opened[k]] = 0
      BY <1>0, <3>1
    <3> QED
      BY <1>c, <3>2
  <2>2. opened \in [1..n -> 1..n]
    BY <1>0, <2>1
  <2> QED
    BY <2>1, <2>2 DEF OpenedAt
<1> HIDE DEF opened
<1>4. front \in [1..n -> SUBSET (1..n)] /\ GivenBefore(n, round, opened, front)
  BY <1>0 DEF GivenBefore
<1>5. PlacesIn(n, front, place)
  BY <1>0 DEF PlacesIn
<1> HIDE DEF front, place
<1>6. Placing(n, front, place) /\ (n > 0 => place[1] = 1)
  BY <1>2, <1>3, <1>4, <1>5, TurnsTaken
<1>7. \A i \in 1..n : at[i] \in 1..n /\ place[at[i]] = i
  BY <1>0, <1>6 DEF Placing
<1>8. at \in [1..n -> 1..n]
  BY <1>7
<1> HIDE DEF at
<1>9. \A k \in 1..n : place[k] \in 1..n /\ at[place[k]] = k
  BY <1>6, <1>7 DEF Placing
<1>10. ASSUME NEW i \in 1..n, NEW k \in 1..n, round[k] < round[at[i]]
       PROVE  \E j \in 1..i : at[j] = k
  <2>1. k \in front[at[i]]
    BY <1>4, <1>7, <1>10 DEF GivenBefore
  <2>2. place[k] < place[at[i]]
    BY <1>6, <1>7, <2>1 DEF Placing
  <2>3. place[k] \in 1..i
    BY <1>7, <1>9, <2>2
  <2> QED
    BY <1>9, <2>3
<1>11. n > 0 => at[1] = 1
  BY <1>6, <1>9
<1>12. Spreading(n, round, at)
  BY <1>7, <1>8, <1>9, <1>10, <1>11 DEF Spreading
<1> QED
  BY <1>1, <1>12 DEF round, Reordered

\* Those of the first m given that are of one group.
Given(m, at, color, g) == {i \in 1..m : color[at[i]] = g}

LEMMA GivenFinite ==
    ASSUME NEW m \in Nat, NEW at, NEW color, NEW g
    PROVE  IsFiniteSet(Given(m, at, color, g)) /\ Cardinality(Given(m, at, color, g)) \in Nat
<1>1. IsFiniteSet(1..m) /\ Given(m, at, color, g) \in SUBSET (1..m)
  BY FS_Interval DEF Given
<1> QED
  BY <1>1, FS_Subset, FS_CardinalityType

\* How many of its bucket are before each, as a set of places.
Mates(n, color, k) == {j \in 1..n : color[j] = color[k] /\ j < k}

LEMMA RoundIsMates ==
    ASSUME NEW n \in Nat, NEW color, NEW round, RoundsIn(n, color, round), NEW k \in 1..n
    PROVE  /\ IsFiniteSet(Mates(n, color, k)) /\ round[k] = Cardinality(Mates(n, color, k))
           /\ round[k] \in Nat
<1>1. IsFiniteSet(1..n) /\ Mates(n, color, k) \in SUBSET (1..n)
  BY FS_Interval DEF Mates
<1>2. IsFiniteSet(Mates(n, color, k)) /\ Cardinality(Mates(n, color, k)) \in Nat
  BY <1>1, FS_Subset, FS_CardinalityType
<1>3. round[k] = Cardinality(Mates(n, color, k))
  BY DEF RoundsIn, Mates
<1> QED
  BY <1>2, <1>3

LEMMA WithinDraw ==
    ASSUME NEW n \in Nat, NEW round, NEW at, Spreading(n, round, at), NEW m \in 0..n
    PROVE  m \in Nat /\ \A i \in 1..m : i \in 1..n /\ at[i] \in 1..n
<1>1. at \in [1..n -> 1..n]
  BY DEF Spreading
<1>2. m \in Nat /\ m <= n
  OBVIOUS
<1>3. \A i \in 1..m : i \in 1..n
  BY <1>2
<1> QED
  BY <1>1, <1>2, <1>3

\* Of the group that has been given most, the last in the draw is of a late
\* round: all the others given are before it in its bucket.
LEMMA LateRound ==
    ASSUME NEW n \in Nat, NEW color, NEW round, RoundsIn(n, color, round),
           NEW at, Spreading(n, round, at), NEW m \in 0..n, NEW g, Given(m, at, color, g) # {}
    PROVE  \E i \in 1..m : Cardinality(Given(m, at, color, g)) <= round[at[i]] + 1
<1> DEFINE given == Given(m, at, color, g)
           places == {at[i] : i \in given}
<1>0. m \in Nat /\ \A i \in 1..m : i \in 1..n /\ at[i] \in 1..n
  BY WithinDraw
<1>1. places \in SUBSET (1..n) /\ places # {}
  BY <1>0 DEF Given
<1>2. PICK last \in places : \A k \in places : k <= last
  BY <1>1, GreatestOf, Zenon
<1>3. PICK i \in given : at[i] = last
  BY <1>2
<1>4. i \in 1..m /\ last \in 1..n /\ color[last] = g
  BY <1>0, <1>3 DEF Given
<1> DEFINE others == given \ {i}
           f == [j \in others |-> at[j]]
<1>5. \A j \in others : at[j] \in Mates(n, color, last)
  <2> SUFFICES ASSUME NEW j \in others PROVE at[j] \in Mates(n, color, last)
    OBVIOUS
  <2>1. j \in 1..m /\ color[at[j]] = g /\ j # i
    BY DEF Given
  <2>2. at[j] \in 1..n /\ at[j] # last
    BY <1>0, <1>3, <1>4, <2>1 DEF Spreading
  <2>3. at[j] <= last
    BY <1>2
  <2> QED
    BY <1>4, <2>1, <2>2, <2>3 DEF Mates
<1>6. f \in Injection(others, Mates(n, color, last))
  <2>1. f \in [others -> Mates(n, color, last)]
    BY <1>5
  <2>2. \A j, k \in others : f[j] = f[k] => j = k
    BY <1>0 DEF Given, Spreading
  <2>3. DOMAIN f = others
    OBVIOUS
  <2> HIDE DEF f, others
  <2> QED
    BY <2>1, <2>2, <2>3 DEF Injection, IsInjective
<1>7. IsFiniteSet(Mates(n, color, last)) /\ round[last] = Cardinality(Mates(n, color, last)) /\ round[last] \in Nat
  BY <1>4, RoundIsMates
<1>8. Cardinality(others) <= Cardinality(Mates(n, color, last))
  <2> HIDE DEF f, others
  <2> QED
    BY <1>6, <1>7, FS_Injection
<1>9. IsFiniteSet(given) /\ Cardinality(given) \in Nat
  BY <1>0, GivenFinite
<1>10. Cardinality(others) = Cardinality(given) - 1
  BY <1>3, <1>9, FS_RemoveElement
<1>11. Cardinality(given) <= round[at[i]] + 1
  BY <1>3, <1>7, <1>8, <1>9, <1>10
<1> QED
  BY <1>4, <1>11

\* Of a group that has some left to give, the first of them is of an early
\* round: all those before it in its bucket are given.
LEMMA EarlyRound ==
    ASSUME NEW n \in Nat, NEW color, NEW round, RoundsIn(n, color, round),
           NEW at, Spreading(n, round, at), NEW m \in 0..n, NEW h,
           NEW left \in 1..n, color[left] = h, \A i \in 1..m : at[i] # left
    PROVE  \E k \in 1..n : /\ round[k] <= Cardinality(Given(m, at, color, h))
                           /\ \A i \in 1..m : at[i] # k
<1> DEFINE waiting == {k \in 1..n : color[k] = h /\ \A i \in 1..m : at[i] # k}
<1>0. m \in Nat /\ \A i \in 1..m : i \in 1..n /\ at[i] \in 1..n
  BY WithinDraw
<1>1. waiting \in SUBSET Nat /\ left \in waiting
  OBVIOUS
<1>2. PICK first \in waiting : \A k \in waiting : first <= k
  BY <1>1, SmallestOf, Zenon
<1>3. first \in 1..n /\ color[first] = h /\ \A i \in 1..m : at[i] # first
  BY <1>2
<1>4. ASSUME NEW j \in Mates(n, color, first) PROVE \E i \in Given(m, at, color, h) : at[i] = j
  <2>1. j \in 1..n /\ color[j] = h /\ j < first
    BY <1>3 DEF Mates
  <2>2. j \notin waiting
    BY <1>2, <1>3, <2>1
  <2>3. PICK i \in 1..m : at[i] = j
    BY <2>1, <2>2
  <2> QED
    BY <2>1, <2>3 DEF Given
<1> DEFINE f == [j \in Mates(n, color, first) |-> CHOOSE i \in Given(m, at, color, h) : at[i] = j]
<1>5. \A j \in Mates(n, color, first) : f[j] \in Given(m, at, color, h) /\ at[f[j]] = j
  BY <1>4
<1>6. f \in Injection(Mates(n, color, first), Given(m, at, color, h))
  <2>1. f \in [Mates(n, color, first) -> Given(m, at, color, h)]
    BY <1>5
  <2>2. DOMAIN f = Mates(n, color, first)
    OBVIOUS
  <2> HIDE DEF f
  <2>3. \A j, k \in Mates(n, color, first) : f[j] = f[k] => j = k
    BY <1>5
  <2> QED
    BY <2>1, <2>2, <2>3 DEF Injection, IsInjective
<1>7. IsFiniteSet(Given(m, at, color, h))
  BY <1>0, GivenFinite
<1>8. Cardinality(Mates(n, color, first)) <= Cardinality(Given(m, at, color, h))
  <2> HIDE DEF f
  <2> QED
    BY <1>6, <1>7, FS_Injection
<1>9. round[first] = Cardinality(Mates(n, color, first))
  BY <1>3, RoundIsMates
<1> QED
  BY <1>3, <1>8, <1>9

\* So no group is given two more than another that has some left.
LEMMA NoneAhead ==
    ASSUME NEW n \in Nat, NEW color, NEW round, RoundsIn(n, color, round),
           NEW at, Spreading(n, round, at), NEW m \in 0..n, NEW g, NEW h,
           Cardinality(Given(m, at, color, g)) > Cardinality(Given(m, at, color, h)) + 1,
           NEW left \in 1..n, color[left] = h
    PROVE  \E i \in 1..m : at[i] = left
<1> SUFFICES ASSUME \A i \in 1..m : at[i] # left PROVE FALSE
  OBVIOUS
<1>0. m \in Nat /\ \A i \in 1..m : i \in 1..n /\ at[i] \in 1..n
  BY WithinDraw
<1>1. Cardinality(Given(m, at, color, g)) \in Nat /\ Cardinality(Given(m, at, color, h)) \in Nat
  BY <1>0, GivenFinite
<1>2. Given(m, at, color, g) # {}
  BY <1>1, FS_EmptySet
<1>3. PICK i \in 1..m : Cardinality(Given(m, at, color, g)) <= round[at[i]] + 1
  BY <1>2, LateRound
<1>4. PICK k \in 1..n : round[k] <= Cardinality(Given(m, at, color, h)) /\ \A j \in 1..m : at[j] # k
  BY EarlyRound
<1>5. round[k] < round[at[i]]
  <2>1. round[k] \in Nat /\ round[at[i]] \in Nat
    BY <1>0, RoundIsMates
  <2> QED
    BY <1>1, <1>3, <1>4, <2>1
<1>6. \E j \in 1..i : at[j] = k
  BY <1>0, <1>5 DEF Spreading
<1> QED
  BY <1>0, <1>4, <1>6

\* A draw is an order of all there is to draw from.
LEMMA DrawOf ==
    ASSUME NEW T, IsFiniteSet(T), NEW d \in Shuffles(T)
    PROVE  /\ Cardinality(T) \in Nat /\ d \in [1..Cardinality(T) -> T]
           /\ \A i, j \in 1..Cardinality(T) : d[i] = d[j] => i = j
           /\ \A a \in T : \E k \in 1..Cardinality(T) : d[k] = a
<1> DEFINE n == Cardinality(T)
<1>1. n \in Nat /\ IsFiniteSet(1..n) /\ Cardinality(1..n) = n
  BY FS_CardinalityType, FS_Interval
<1>2. d \in [1..n -> T] /\ \A i, j \in 1..n : d[i] = d[j] => i = j
  BY DEF Shuffles
<1>3. d \in Injection(1..n, T)
  <2>1. DOMAIN d = 1..n
    BY <1>2
  <2> QED
    BY <1>2, <2>1 DEF Injection, IsInjective
<1>4. d \in Surjection(1..n, T)
  BY <1>1, <1>3, FS_Injection
<1> QED
  BY <1>1, <1>2, <1>4 DEF Surjection

\* Any member can be drawn first.
LEMMA AnyFirst ==
    ASSUME NEW T, IsFiniteSet(T), NEW a \in T
    PROVE  \E d \in Shuffles(T) : 1 \in 1..Cardinality(T) /\ d[1] = a
<1> DEFINE n == Cardinality(T)
<1>1. n \in Nat /\ ExistsBijection(1..n, T)
  BY FS_CardinalityType
<1>2. PICK b : b \in Bijection(1..n, T)
  BY <1>1 DEF ExistsBijection
<1>3. /\ b \in [1..n -> T] /\ \A i, j \in 1..n : b[i] = b[j] => i = j
      /\ \A x \in T : \E i \in 1..n : b[i] = x
  BY <1>2 DEF Bijection, Injection, Surjection, IsInjective
<1>4. PICK k \in 1..n : b[k] = a
  BY <1>3
<1> DEFINE d == [i \in 1..n |-> IF i = 1 THEN a ELSE IF i = k THEN b[1] ELSE b[i]]
<1>5. 1 \in 1..n
  BY <1>1, <1>4
<1>6. d \in [1..n -> T] /\ d[1] = a
  BY <1>3, <1>5
<1>7. ASSUME NEW i \in 1..n, NEW j \in 1..n, d[i] = d[j] PROVE i = j
  BY <1>3, <1>4, <1>5, <1>7
<1>8. d \in Shuffles(T)
  <2>1. DOMAIN d = 1..n
    OBVIOUS
  <2> HIDE DEF d
  <2> QED
    BY <1>6, <1>7, <2>1 DEF Shuffles
<1> QED
  BY <1>5, <1>6, <1>8

\* What limit() keeps of a sequence.
Cut(n) == IF n > MaxAnswer THEN MaxAnswer ELSE n
CutOf(spread) == SubSeq(spread, 1, Cut(Len(spread)))

LEMMA CutSize ==
    ASSUME NEW n \in Nat
    PROVE  /\ Cut(n) \in 0..n /\ Cut(n) \in Nat /\ Cut(n) <= MaxAnswer
           /\ n > 0 => 1 \in 1..Cut(n)
           /\ \A k \in 1..Cut(n) : k \in 1..n
<1>1. MaxAnswer \in Nat \ {0}
  BY AnswersAssumption
<1> QED
  BY <1>1 DEF Cut

LEMMA CutKeeps ==
    ASSUME NEW n \in Nat, NEW T, NEW q \in [1..n -> T]
    PROVE  /\ Len(CutOf(q)) = Cut(n) /\ DOMAIN CutOf(q) = 1..Cut(n)
           /\ \A k \in 1..Cut(n) : CutOf(q)[k] = q[k]
<1>1. q \in Seq(T) /\ Len(q) = n
  OBVIOUS
<1>2. Cut(n) \in Nat /\ \A k \in 1..Cut(n) : k \in 1..n
  BY CutSize
<1>3. CutOf(q) = SubSeq(q, 1, Cut(n))
  BY <1>1 DEF CutOf
<1> DEFINE c == Cut(n)
<1>4. \A k \in 1..c : q[k] \in T
  BY <1>2
<1>5. c \in Nat
  BY <1>2
<1> HIDE DEF c
<1>6. /\ SubSeq(q, 1, c) \in Seq(T) /\ Len(SubSeq(q, 1, c)) = IF 1 <= c THEN c - 1 + 1 ELSE 0
      /\ \A k \in 1..c - 1 + 1 : SubSeq(q, 1, c)[k] = q[1 + k - 1]
  BY <1>4, <1>5, SubSeqProperties
<1>7. Len(SubSeq(q, 1, c)) = c
  BY <1>5, <1>6
<1>8. \A k \in 1..c : SubSeq(q, 1, c)[k] = q[k]
  BY <1>5, <1>6
<1>9. DOMAIN SubSeq(q, 1, c) = 1..c
  BY <1>6, <1>7
<1> QED
  BY <1>3, <1>7, <1>8, <1>9 DEF c

\* One answer: where each of its addresses was in the draw.
Drawn(n, d, s, at) ==
    /\ Spreading(n, Rounds(d, GroupOf), at)
    /\ DOMAIN s = 1..Cut(n) /\ Len(s) = Cut(n)
    /\ \A k \in 1..Cut(n) : at[k] \in 1..n /\ s[k] = d[at[k]]

LEMMA AnswerOf ==
    ASSUME NEW n \in Nat, NEW T, NEW d \in [1..n -> T]
    PROVE  \E at : Drawn(n, d, CutOf(spreadByGroup(d, GroupOf)), at)
<1>1. \E at : /\ Spreading(n, Rounds(d, GroupOf), at)
              /\ spreadByGroup(d, GroupOf) = Reordered(n, d, at)
  BY SpreadOrder
<1>2. PICK at : /\ Spreading(n, Rounds(d, GroupOf), at)
                /\ spreadByGroup(d, GroupOf) = Reordered(n, d, at)
  BY <1>1
<1>3. at \in [1..n -> 1..n]
  BY <1>2 DEF Spreading
<1> DEFINE spread == spreadByGroup(d, GroupOf)
<1>4. spread \in [1..n -> T] /\ \A i \in 1..n : spread[i] = d[at[i]]
  BY <1>2, <1>3 DEF Reordered
<1> HIDE DEF spread
<1>5. /\ Len(CutOf(spread)) = Cut(n) /\ DOMAIN CutOf(spread) = 1..Cut(n)
      /\ \A k \in 1..Cut(n) : CutOf(spread)[k] = spread[k]
  BY <1>4, CutKeeps
<1>6. \A k \in 1..Cut(n) : k \in 1..n
  BY CutSize
<1>7. Drawn(n, d, CutOf(spread), at)
  BY <1>2, <1>3, <1>4, <1>5, <1>6 DEF Drawn
<1> QED
  BY <1>7 DEF spread

\* It names each address once, no more than a message holds, and of those drawn.
LEMMA EachOnce ==
    ASSUME NEW n \in Nat, NEW T, NEW d \in [1..n -> T], \A i, j \in 1..n : d[i] = d[j] => i = j,
           NEW s, NEW at, Drawn(n, d, s, at)
    PROVE  Members(s) \subseteq T /\ Cardinality(Members(s)) = Len(s) /\ Len(s) <= MaxAnswer
<1>1. Cut(n) \in Nat /\ Cut(n) <= MaxAnswer /\ \A k \in 1..Cut(n) : k \in 1..n
  BY CutSize
<1>2. /\ DOMAIN s = 1..Cut(n) /\ Len(s) = Cut(n)
      /\ \A k \in 1..Cut(n) : at[k] \in 1..n /\ s[k] = d[at[k]]
      /\ \A i, j \in 1..n : i # j => at[i] # at[j]
  BY DEF Drawn, Spreading
<1>3. Members(s) = {s[k] : k \in 1..Cut(n)}
  BY <1>2 DEF Members
<1>4. Members(s) \subseteq T
  BY <1>2, <1>3
<1> DEFINE f == [k \in 1..Cut(n) |-> s[k]]
<1>5. f \in [1..Cut(n) -> Members(s)]
  BY <1>3
<1>6. \A i, j \in 1..Cut(n) : f[i] = f[j] => i = j
  BY <1>1, <1>2
<1>7. \A x \in Members(s) : \E k \in 1..Cut(n) : f[k] = x
  BY <1>3
<1>8. DOMAIN f = 1..Cut(n)
  OBVIOUS
<1>9. f \in Bijection(1..Cut(n), Members(s))
  <2> HIDE DEF f
  <2> QED
    BY <1>5, <1>6, <1>7, <1>8 DEF Bijection, Injection, Surjection, IsInjective
<1>10. IsFiniteSet(1..Cut(n)) /\ Cardinality(1..Cut(n)) = Cut(n)
  BY <1>1, FS_Interval
<1>11. Cardinality(1..Cut(n)) = Cardinality(Members(s))
  <2> HIDE DEF f
  <2> QED
    BY <1>9, <1>10, FS_Bijection DEF ExistsBijection
<1> QED
  BY <1>1, <1>2, <1>4, <1>10, <1>11

\* And no group is ahead of another that still has an address to give.
LEMMA AnswerIsBalanced ==
    ASSUME NEW n \in Nat, NEW T, NEW d \in [1..n -> T], \A a \in T : \E k \in 1..n : d[k] = a,
           NEW s, NEW at, Drawn(n, d, s, at)
    PROVE  Balanced(s, GroupOf, T)
<1> DEFINE color == Colors(d, GroupOf)
           round == Rounds(d, GroupOf)
<1>1. /\ \A k \in 1..Cut(n) : k \in 1..n
      /\ DOMAIN s = 1..Cut(n) /\ \A k \in 1..Cut(n) : at[k] \in 1..n /\ s[k] = d[at[k]]
      /\ Cut(n) \in Nat
  BY CutSize DEF Drawn
<1>2. Spreading(n, round, at) /\ RoundsIn(n, color, round)
  BY RoundsOfDraw DEF Drawn
<1>3. \A k \in 1..n : color[k] = GroupOf[d[k]]
  BY DEF Colors
<1> HIDE DEF color, round
<1>4. ASSUME NEW m \in 1..Cut(n), NEW g PROVE Share(s, GroupOf, g, m) = Cardinality(Given(m, at, color, g))
  <2>1. \A k \in 1..m : k \in 1..Cut(n)
    BY <1>1
  <2>2. \A k \in 1..m : GroupOf[s[k]] = color[at[k]]
    BY <1>1, <1>3, <2>1
  <2>3. {k \in 1..m : GroupOf[s[k]] = g} = Given(m, at, color, g)
    BY <2>2 DEF Given
  <2> QED
    BY <2>3 DEF Share
<1>5. ASSUME NEW m \in 1..Cut(n), NEW x \in T, NEW y \in T,
             Share(s, GroupOf, GroupOf[x], m) > Share(s, GroupOf, GroupOf[y], m) + 1,
             NEW a \in T, GroupOf[a] = GroupOf[y]
      PROVE  \E k \in 1..m : s[k] = a
  <2>1. PICK p \in 1..n : d[p] = a
    OBVIOUS
  <2>2. color[p] = GroupOf[y]
    BY <1>3, <1>5, <2>1
  <2>3. Cardinality(Given(m, at, color, GroupOf[x])) > Cardinality(Given(m, at, color, GroupOf[y])) + 1
    BY <1>4, <1>5
  <2>4. m \in 0..n /\ \A k \in 1..m : k \in 1..Cut(n)
    BY <1>1
  <2>5. PICK k \in 1..m : at[k] = p
    BY <1>2, <2>2, <2>3, <2>4, NoneAhead
  <2> QED
    BY <1>1, <2>1, <2>4, <2>5
<1>6. DOMAIN s = 1..Cut(n)
  BY <1>1
<1> QED
  BY <1>5, <1>6 DEF Balanced

\* Selection's answers to one requester.
LEMMA AnswersAre ==
    ASSUME NEW S \in SUBSET Addr, NEW requester \in Id
    PROVE  /\ IsFiniteSet(Servable(S, requester))
           /\ Servable(S, requester) = {a \in S : IdOf[a] # requester /\ a \in Admissible}
           /\ AnswersFrom(S, requester) =
                {CutOf(spreadByGroup(d, GroupOf)) : d \in Shuffles(Servable(S, requester))}
<1>1. Servable(S, requester) = {a \in S : IdOf[a] # requester /\ a \in Admissible}
  BY DEF Servable, admissible
<1>2. Servable(S, requester) \subseteq Addr
  BY <1>1
<1>3. IsFiniteSet(Servable(S, requester))
  BY <1>2, AddrAssumption, FS_Subset
<1> QED
  BY <1>1, <1>3 DEF AnswersFrom, CutOf, Cut

LEMMA AnyBatchIsFair ==
    ASSUME NEW S \in SUBSET Addr
    PROVE  FairlyAnswered(S)
<1> SUFFICES ASSUME NEW requester \in Id
             PROVE  LET others == {a \in S : IdOf[a] # requester /\ a \in Admissible}
                        answers == AnswersFrom(S, requester)
                    IN  /\ \A s \in answers :
                             /\ Members(s) \subseteq others
                             /\ Cardinality(Members(s)) = Len(s) /\ Len(s) <= MaxAnswer
                             /\ Balanced(s, GroupOf, others)
                        /\ \A a \in others : \E s \in answers : a \in Members(s)
  BY DEF FairlyAnswered
<1> DEFINE others == {a \in S : IdOf[a] # requester /\ a \in Admissible}
           n == Cardinality(others)
<1>1. IsFiniteSet(others) /\ Servable(S, requester) = others
  BY AnswersAre
<1>2. AnswersFrom(S, requester) = {CutOf(spreadByGroup(d, GroupOf)) : d \in Shuffles(others)}
  BY <1>1, AnswersAre
<1> HIDE DEF others
<1>3. ASSUME NEW d \in Shuffles(others)
      PROVE  /\ n \in Nat /\ d \in [1..n -> others] /\ \A i, j \in 1..n : d[i] = d[j] => i = j
             /\ \A a \in others : \E k \in 1..n : d[k] = a
  BY <1>1, DrawOf
<1> HIDE DEF n
<1>4. ASSUME NEW d \in Shuffles(others), NEW s, s = CutOf(spreadByGroup(d, GroupOf))
      PROVE  /\ Members(s) \subseteq others
             /\ Cardinality(Members(s)) = Len(s) /\ Len(s) <= MaxAnswer
             /\ Balanced(s, GroupOf, others)
  <2>1. PICK at : Drawn(n, d, s, at)
    BY <1>3, <1>4, AnswerOf
  <2> QED
    BY <1>3, <2>1, EachOnce, AnswerIsBalanced
<1>5. ASSUME NEW a \in others
      PROVE  \E d \in Shuffles(others) : a \in Members(CutOf(spreadByGroup(d, GroupOf)))
  <2>1. PICK d \in Shuffles(others) : 1 \in 1..n /\ d[1] = a
    BY <1>1, AnyFirst DEF n
  <2> DEFINE s == CutOf(spreadByGroup(d, GroupOf))
  <2>2. PICK at : Drawn(n, d, s, at)
    BY <1>3, AnswerOf
  <2>3. n \in Nat /\ n > 0 /\ 1 \in 1..Cut(n)
    BY <1>3, <2>1, CutSize
  <2>4. at[1] = 1
    BY <2>2, <2>3 DEF Drawn, Spreading
  <2>5. 1 \in DOMAIN s /\ s[1] = a
    BY <2>1, <2>2, <2>3, <2>4 DEF Drawn
  <2> HIDE DEF s
  <2>6. a \in Members(s)
    BY <2>5 DEF Members
  <2> QED
    BY <2>6 DEF s
<1> QED
  BY <1>2, <1>4, <1>5 DEF others

\* Whatever the book has proven, and whoever asks, every answer is fair: other
\* nodes than who asks, each once, no group two ahead of one with an address
\* left, and nothing that may be served is kept from every answer.
THEOREM AnswersAreFair == Spec => []AnswersAreSpread
<1>1. Batches \subseteq SUBSET Addr
  <2>1. FreshSet(peers, now, freshness) \subseteq Addr
    BY DEF FreshSet, Held
  <2> QED
    BY <2>1 DEF Batches, FreshBatches
<1>2. AnswersAreSpread
  BY <1>1, AnyBatchIsFair DEF AnswersAreSpread, FairBatches
<1> QED
  BY <1>2, PTL
=============================================================================
