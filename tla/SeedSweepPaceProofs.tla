------------------------- MODULE SeedSweepPaceProofs -------------------------
(* Theorems about what the dial queue holds: its type, that it is dialled   *)
(* within a period and within the outbound limit, that a mark in the book is *)
(* followed by a dial, and that without a sweep nothing known is forgotten. *)
EXTENDS SeedSweepProofs

-----------------------------------------------------------------------------
(* What is handed to the switch.                                            *)

LEMMA OutboundType == NumOutbound \in Nat
<1>1. {i \in Id : conn[i].kind = "out"} \subseteq Id
  OBVIOUS
<1> QED
  BY <1>1, AnswersAssumption, FS_Subset, FS_CardinalityType DEF NumOutbound

\* Every order of a finite set names each of its members, and names it once.
LEMMA SortedOrders ==
    ASSUME NEW S, IsFiniteSet(S), NEW key, NEW s \in Sorted(S, key)
    PROVE  /\ s \in Seq(S) /\ Len(s) = Cardinality(S) /\ DOMAIN s = 1..Cardinality(S)
           /\ \A i, j \in 1..Len(s) : i # j => s[i] # s[j]
           /\ \A x \in S : \E k \in 1..Len(s) : s[k] = x
<1> DEFINE n == Cardinality(S)
<1>1. n \in Nat
  BY FS_CardinalityType
<1>2. s \in [1..n -> S] /\ \A i, j \in DOMAIN s : i < j => s[i] # s[j]
  BY DEF Sorted
<1> HIDE DEF n
<1>3. DOMAIN s = 1..n /\ s \in Seq(S) /\ Len(s) = n
  BY <1>1, <1>2
<1>4. \A i, j \in 1..n : i # j => s[i] # s[j]
  <2> SUFFICES ASSUME NEW i \in 1..n, NEW j \in 1..n, i # j PROVE s[i] # s[j]
    OBVIOUS
  <2>1. i < j \/ j < i
    OBVIOUS
  <2> QED
    BY <1>2, <1>3, <2>1
<1>5. s \in Injection(1..n, S)
  BY <1>2, <1>3, <1>4 DEF Injection, IsInjective
<1>6. Cardinality(1..n) = n /\ IsFiniteSet(1..n)
  BY <1>1, FS_Interval
<1>7. s \in Surjection(1..n, S)
  BY <1>5, <1>6, FS_Injection DEF n
<1>8. \A x \in S : \E k \in 1..n : s[k] = x
  BY <1>7 DEF Surjection
<1> QED
  BY <1>3, <1>4, <1>8 DEF n

\* Leaving this node out keeps the others, each as often as before, in order.
LEMMA OthersKept ==
    ASSUME NEW s \in Seq(Addr), NEW t \in OthersIn(s)
    PROVE  /\ t \in Seq(Addr) /\ Len(t) \in Nat /\ Len(t) <= Len(s)
           /\ \A i \in 1..Len(t) : t[i] \notin SameAsSelf /\ \E k \in 1..Len(s) : t[i] = s[k]
           /\ \A k \in 1..Len(s) : s[k] \notin SameAsSelf => \E i \in 1..Len(t) : t[i] = s[k]
           /\ Distinct(s) => Distinct(t)
<1> DEFINE others == {k \in 1..Len(s) : s[k] \notin SameAsSelf}
<1>1. DOMAIN s = 1..Len(s) /\ Len(s) \in Nat
  OBVIOUS
<1>2. IsFiniteSet(others) /\ Cardinality(others) \in Nat /\ Cardinality(others) <= Len(s)
  <2>1. IsFiniteSet(1..Len(s)) /\ Cardinality(1..Len(s)) = Len(s)
    BY <1>1, FS_Interval
  <2>2. others \in SUBSET (1..Len(s))
    OBVIOUS
  <2> HIDE DEF others
  <2>3. IsFiniteSet(others) /\ Cardinality(others) <= Cardinality(1..Len(s))
    BY <2>1, <2>2, FS_Subset
  <2> QED
    BY <2>1, <2>3, FS_CardinalityType
<1>3. PICK at \in Sorted(others, [k \in others |-> k]) : t = [i \in DOMAIN at |-> s[at[i]]]
  BY <1>1 DEF OthersIn
<1> HIDE DEF others
<1>4. /\ DOMAIN at = 1..Cardinality(others) /\ at \in Seq(others) /\ Len(at) = Cardinality(others)
      /\ \A i, j \in 1..Len(at) : i # j => at[i] # at[j]
      /\ \A x \in others : \E k \in 1..Len(at) : at[k] = x
  BY <1>2, SortedOrders
<1> DEFINE n == Cardinality(others)
<1>5. \A i \in 1..n : at[i] \in others /\ at[i] \in 1..Len(s) /\ s[at[i]] \notin SameAsSelf /\ s[at[i]] \in Addr
  <2>1. \A i \in 1..n : at[i] \in others
    BY <1>2, <1>4
  <2> QED
    BY <2>1 DEF others
<1>6. t = [i \in 1..n |-> s[at[i]]]
  BY <1>3, <1>4
<1>7. n \in Nat /\ n <= Len(s) /\ Len(at) = n
  BY <1>2, <1>4
<1> HIDE DEF n
<1>8. t \in Seq(Addr) /\ Len(t) = n /\ \A i \in 1..n : t[i] = s[at[i]]
  BY <1>5, <1>6, <1>7
<1>9. ASSUME NEW k \in 1..Len(s), s[k] \notin SameAsSelf PROVE \E i \in 1..Len(t) : t[i] = s[k]
  <2>1. k \in others
    BY <1>9 DEF others
  <2>2. PICK i \in 1..n : at[i] = k
    BY <1>4, <1>7, <2>1
  <2> QED
    BY <1>8, <2>2
<1>10. Distinct(s) => Distinct(t)
  BY <1>4, <1>5, <1>7, <1>8 DEF Distinct
<1> QED
  BY <1>5, <1>7, <1>8, <1>9, <1>10

\* A queue of which everything in one sequence has been queued behind another.
LEMMA QueuedBehind ==
    ASSUME NEW q \in Seq(Addr), NEW t \in Seq(Addr)
    PROVE  /\ q \o t \in Seq(Addr) /\ Len(q \o t) = Len(q) + Len(t)
           /\ \A k \in 1..Len(q) : (q \o t)[k] = q[k]
           /\ \A k \in 1..Len(t) : (q \o t)[Len(q) + k] = t[k] /\ Len(q) + k \in 1..Len(q \o t)
           /\ q = <<>> => q \o t = t
<1>1. /\ q \o t \in Seq(Addr) /\ Len(q \o t) = Len(q) + Len(t)
      /\ \A k \in 1..Len(q) + Len(t) : (q \o t)[k] = IF k <= Len(q) THEN q[k] ELSE t[k - Len(q)]
  BY ConcatProperties
<1>2. Len(q) \in Nat /\ Len(t) \in Nat
  OBVIOUS
<1>3. ASSUME NEW k \in 1..Len(q) PROVE (q \o t)[k] = q[k]
  BY <1>1, <1>2
<1>4. ASSUME NEW k \in 1..Len(t) PROVE (q \o t)[Len(q) + k] = t[k] /\ Len(q) + k \in 1..Len(q \o t)
  <2>1. Len(q) + k \in 1..Len(q) + Len(t) /\ ~(Len(q) + k <= Len(q)) /\ (Len(q) + k) - Len(q) = k
    BY <1>2
  <2> QED
    BY <1>1, <2>1
<1>5. q = <<>> => q \o t = t
  OBVIOUS
<1> QED
  BY <1>1, <1>3, <1>4, <1>5

\* What the start hands over is a part of the book, in some order.
LEMMA StartTyped ==
    ASSUME SweepTypes, NEW s \in AtStart
    PROVE  /\ s \in Seq(Addr)
           /\ \A k \in 1..Len(s) : s[k] \in Held(peers)
           /\ Period = 0 => \A a \in Held(peers) : \E k \in 1..Len(s) : s[k] = a
           /\ (\A a \in Held(peers) : ~Reached(peers[a])) /\ Period > 0 => s = <<>>
<1>1. CASE Period > 0
  <2> DEFINE fresh == FreshSet(peers, now, renewalWindow)
             limit == IF sweepBudget > 0 THEN sweepBudget ELSE Cardinality(Addr)
  <2>1. PICK r \in Sorted(fresh, Oldness) : s = First(r, limit)
    BY <1>1 DEF AtStart
  <2>2. fresh \in SUBSET Addr /\ fresh \subseteq Held(peers)
        /\ ((\A a \in Held(peers) : ~Reached(peers[a])) => fresh = {})
    BY DEF FreshSet, Held
  <2>3. limit \in Nat
    BY BudgetType, AddrAssumption, FS_CardinalityType
  <2> HIDE DEF fresh, limit
  <2>4. /\ s \in Seq(Addr) /\ (\A k \in 1..Len(s) : s[k] \in fresh) /\ Len(s) \in Nat
    BY <2>1, <2>2, <2>3, SortedDistinct
  <2>5. fresh = {} => s = <<>>
    <3>1. fresh = {} => Len(s) = 0
      BY <2>4
    <3> QED
      BY <2>4, <3>1, EmptySeq
  <2> QED
    BY <1>1, <2>2, <2>4, <2>5
<1>2. CASE ~(Period > 0)
  <2>1. s \in Sorted(Held(peers), [a \in Held(peers) |-> 0])
    BY <1>2 DEF AtStart
  <2>2. IsFiniteSet(Held(peers)) /\ Held(peers) \subseteq Addr
    BY AddrAssumption, FS_Subset DEF Held
  <2>3. s \in Seq(Held(peers)) /\ \A a \in Held(peers) : \E k \in 1..Len(s) : s[k] = a
    BY <2>1, <2>2, SortedOrders
  <2>4. s \in Seq(Addr) /\ \A k \in 1..Len(s) : s[k] \in Held(peers)
    BY <2>2, <2>3
  <2> QED
    BY <1>2, <2>3, <2>4
<1> QED
  BY <1>1, <1>2

\* The queue is left alone, or what is handed over goes behind it.
LEMMA HandOver ==
    ASSUME NEW s \in Seq(Addr), queue' \in HandedTo(s)
    PROVE  \/ UNCHANGED queue /\ NumOutbound >= MaxOutbound
           \/ NumOutbound < MaxOutbound /\ \E t \in OthersIn(s) : queue' = queue \o t
<1>1. NumOutbound \in Nat /\ MaxOutbound \in Nat
  BY OutboundType, SweepAssumption
<1> QED
  BY <1>1 DEF HandedTo

-----------------------------------------------------------------------------
(* Types.                                                                   *)

\* A batch in any order is a sequence of addresses, all of them in it.
LEMMA BatchOrders ==
    ASSUME NEW S \in SUBSET Addr, NEW s \in Sorted(S, [x \in S |-> 0])
    PROVE  s \in Seq(Addr) /\ \A a \in S : \E k \in 1..Len(s) : s[k] = a
<1>1. IsFiniteSet(S)
  BY AddrAssumption, FS_Subset
<1>2. s \in Seq(S) /\ \A a \in S : \E k \in 1..Len(s) : s[k] = a
  BY <1>1, SortedOrders
<1> QED
  BY <1>2

\* The dial queue holds addresses, whoever hands them over, and so does what
\* the switch has declined.
LEMMA QueueTyped ==
    ASSUME TypeOK, SweepTypes, [Next]_vars
    PROVE  queue' \in Seq(Addr) /\ declined' \subseteq Addr
<1>0. queue \in Seq(Addr) /\ sweep.batch \in Seq(Addr) /\ declined \subseteq Addr /\ learnt \in [Id -> SUBSET Addr]
  BY DEF TypeOK, SweepStates
<1>1. ASSUME NEW s \in Seq(Addr), DialPeers(s) PROVE queue' \in Seq(Addr) /\ declined' \subseteq Addr
  <2>0. queue' \in HandedTo(s) /\ declined' \subseteq declined \cup Members(s)
    BY <1>1 DEF DialPeers
  <2>1. ASSUME UNCHANGED queue PROVE queue' \in Seq(Addr)
    BY <1>0, <2>1
  <2>2. ASSUME NEW t \in OthersIn(s), queue' = queue \o t PROVE queue' \in Seq(Addr)
    BY <1>0, <2>2, OthersKept, QueuedBehind
  <2>3. Members(s) \subseteq Addr
    BY <1>1 DEF Members
  <2> QED
    BY <1>0, <2>0, <2>1, <2>2, <2>3, HandOver
<1>2. CASE Start
  BY <1>1, <1>2, StartTyped DEF Start
<1>3. CASE SweepHandOver
  BY <1>0, <1>1, <1>3 DEF SweepHandOver
<1>4. ASSUME NEW j \in Id, LearnDials(j) PROVE queue' \in Seq(Addr) /\ declined' \subseteq Addr
  <2>1. learnt[j] \in SUBSET Addr
    BY <1>0
  <2>2. PICK s \in Sorted(learnt[j], [x \in learnt[j] |-> 0]) : DialPeers(s)
    BY <1>4 DEF LearnDials
  <2> QED
    BY <1>1, <2>1, <2>2, BatchOrders
<1>5. CASE DialPop \/ Stop
  <2>1. queue' = <<>> \/ (queue # <<>> /\ queue' = Tail(queue))
    BY <1>5 DEF DialPop, Stop
  <2>2. queue # <<>> => Tail(queue) \in Seq(Addr) /\ Head(queue) \in Addr
    BY <1>0, HeadTailProperties
  <2>3. <<>> \in Seq(Addr)
    OBVIOUS
  <2>4. declined' \subseteq Addr
    BY <1>0, <1>5, <2>2 DEF DialPop, Stop
  <2> QED
    BY <2>1, <2>2, <2>3, <2>4
<1>6. CASE UNCHANGED <<queue, declined>>
  BY <1>0, <1>6
<1> QED
  BY <1>2, <1>3, <1>4, <1>5, <1>6
     DEF Next, DialReaches, DialFails, AddPeer, Visit, Leave, HangUp, SweepPlan, SweepMark, SweepDrop,
         Learn, Cycle, Tick, vars

\* What is learnt and what has been dialled are addresses.
LEMMA LearntTyped ==
    ASSUME TypeOK, [Next]_vars
    PROVE  learnt' \in [Id -> SUBSET Addr] /\ dialled' \subseteq Addr
<1>0. learnt \in [Id -> SUBSET Addr] /\ dialled \subseteq Addr /\ queue \in Seq(Addr) /\ NothingLearnt \in [Id -> SUBSET Addr]
  BY DEF TypeOK, NothingLearnt
<1>1. ASSUME NEW j \in Id, NEW S \in Heard, Learn(j, S) PROVE learnt' \in [Id -> SUBSET Addr] /\ UNCHANGED dialled
  <2>1. S \in SUBSET Addr
    BY SweepAssumption
  <2> QED
    BY <1>0, <1>1, <2>1 DEF Learn
<1>2. ASSUME NEW j \in Id, LearnDials(j) PROVE learnt' \in [Id -> SUBSET Addr] /\ UNCHANGED dialled
  BY <1>0, <1>2 DEF LearnDials
<1>3. CASE DialPop
  <2>1. Head(queue) \in Addr
    BY <1>0, <1>3, HeadTailProperties DEF DialPop
  <2> QED
    BY <1>0, <1>3, <2>1 DEF DialPop
<1>4. CASE Stop
  BY <1>0, <1>4 DEF Stop
<1>5. CASE UNCHANGED <<learnt, dialled>>
  BY <1>0, <1>5
<1> QED
  BY <1>0, <1>1, <1>2, <1>3, <1>4, <1>5
     DEF Next, Start, DialReaches, DialFails, AddPeer, Visit, Leave, HangUp, SweepPlan, SweepMark, SweepHandOver,
         SweepDrop, Cycle, Tick, vars

LEMMA DialTyped ==
    ASSUME TypeOK, [Next]_vars
    PROVE  dial' \in DialStates /\ reached' \subseteq Addr /\ lost' \in [Addr -> Nat]
<1>0. dial \in DialStates /\ reached \subseteq Addr /\ lost \in [Addr -> Nat] /\ now \in Nat /\ queue \in Seq(Addr)
      /\ DialIdle \in DialStates
  BY DEF TypeOK, DialIdle, DialStates
<1>1. CASE DialPop
  <2>1. Head(queue) \in Addr
    BY <1>0, <1>1 DEF DialPop
  <2> QED
    BY <1>0, <1>1, <2>1 DEF DialPop, DialStates
<1>2. CASE DialReaches
  BY <1>0, <1>2, SweepAssumption DEF DialReaches, DialStates
<1>3. CASE DialFails
  <2>1. \A a \in Addr : AtMost(lost[a] + 1, FailLimit) \in Nat
    BY <1>0, SweepAssumption DEF AtMost
  <2> QED
    BY <1>0, <1>3, <2>1 DEF DialFails
<1>4. CASE AddPeer
  BY <1>0, <1>4 DEF AddPeer
<1>5. CASE Stop
  BY <1>0, <1>5 DEF Stop
<1>6. CASE UNCHANGED <<dial, reached, lost>>
  BY <1>0, <1>6
<1> QED
  BY <1>1, <1>2, <1>3, <1>4, <1>5, <1>6
     DEF Next, Start, Visit, Leave, HangUp, SweepPlan, SweepMark, SweepHandOver, SweepDrop, Learn, LearnDials,
         Cycle, Tick, vars

LEMMA ClockTyped ==
    ASSUME TypeOK, [Next]_vars
    PROVE  up' \in BOOLEAN /\ nextPass' \in Nat
<1>1. CASE SweepPlan
  <2>1. /\ now \in Nat /\ nextPass \in Nat /\ now >= nextPass /\ Period \in Nat \ {0}
        /\ nextPass' = Ticked(nextPass, Period) /\ up' = up
    BY <1>1, SweepAssumption DEF TypeOK, SweepPlan
  <2> QED
    BY <2>1, TickedType DEF TypeOK
<1>2. CASE UNCHANGED <<up, nextPass>> \/ Start \/ Stop
  BY <1>2 DEF TypeOK, Start, Stop
<1>3. ASSUME NEW i \in Id, Visit(i) \/ Leave(i) \/ HangUp(i) PROVE UNCHANGED <<up, nextPass>>
  BY <1>3 DEF Visit, Leave, HangUp
<1> QED
  BY <1>1, <1>2, <1>3
     DEF Next, DialPop, DialReaches, DialFails, AddPeer, SweepMark, SweepHandOver, SweepDrop, Learn, LearnDials,
         Cycle, Tick, vars

TypeInv == TypeOK /\ SweepTypes /\ Distinct(sweep.left)

LEMMA TypeInvKept == TypeInv /\ [Next]_vars => TypeInv'
<1> SUFFICES ASSUME TypeInv, [Next]_vars PROVE TypeInv'
  OBVIOUS
<1>1. SweepTypes' /\ Distinct(sweep'.left)
  BY TypesPreserved, LeftDistinct DEF TypeInv
<1>2. queue' \in Seq(Addr) /\ dial' \in DialStates /\ reached' \subseteq Addr /\ lost' \in [Addr -> Nat]
      /\ up' \in BOOLEAN /\ nextPass' \in Nat
      /\ learnt' \in [Id -> SUBSET Addr] /\ dialled' \subseteq Addr /\ declined' \subseteq Addr
  BY QueueTyped, LearntTyped, DialTyped, ClockTyped DEF TypeInv
<1> QED
  BY <1>1, <1>2 DEF TypeInv, TypeOK, SweepTypes

LEMMA TypeInvInit == Init => TypeInv
<1> SUFFICES ASSUME Init PROVE TypeInv
  OBVIOUS
<1>1. SweepTypes /\ Distinct(sweep.left)
  BY TypesInit, BlameInit DEF BlameInv
<1>2. lost \in [Addr -> Nat]
  <2>1. \A a \in Held(peers) : peers[a].fails \in Nat
    BY <1>1, HeldRecords DEF SweepTypes, Record
  <2> QED
    BY <2>1 DEF Init
<1>3. up \in BOOLEAN /\ nextPass \in Nat /\ dial \in DialStates
  BY DEF Init, DialIdle, DialStates
<1>4. reached \subseteq Addr /\ dialled \subseteq Addr /\ declined \subseteq Addr /\ learnt \in [Id -> SUBSET Addr]
  BY DEF Init, Held, NothingLearnt
<1>5. queue \in Seq(Addr)
  <2>1. queue = <<>>
    BY DEF Init
  <2> QED
    BY <2>1
<1> QED
  BY <1>1, <1>2, <1>3, <1>4, <1>5 DEF TypeInv, TypeOK, SweepTypes

LEMMA TypeInvHolds == Spec => []TypeInv
  BY TypeInvInit, TypeInvKept, PTL DEF Spec

\* Every variable keeps its type, the unbounded dial queue among them: whatever
\* the start, a sweep and the answers hand over are addresses.
THEOREM SweepTypeCorrect == Spec => []TypeOK
<1>1. TypeInv => TypeOK
  BY DEF TypeInv
<1> QED
  BY <1>1, TypeInvHolds, PTL

-----------------------------------------------------------------------------
(* The pace.  A pass finds the queue of the last one dialled, so that what  *)
(* it hands over is all the switch has to dial until the next.              *)

\* No loop is late, and the one hand-over beside the passes is empty: nothing
\* is proven yet when the process starts, and it starts once.
OnPace ==
    /\ Period > 0 /\ {"late", "restart"} \cap Faults = {}
    /\ \A b \in InitialBooks : \A a \in Held(b) : ~Reached(b[a])

\* What so many dials cost; the dials still to end; and what they still cost.
Cost(n) == n * DialCost
Ahead == IF dial.pc = "dialing" THEN Len(queue) + 1 ELSE Len(queue)
ToPay == Cost(Len(queue)) + (IF dial.pc = "dialing" THEN dial.since + DialCost - now ELSE 0)

BeforeStart ==
    ~up => /\ queue = <<>> /\ dial.pc = "idle" /\ sweep.pc = "idle"
           /\ \A a \in Held(peers) : ~Reached(peers[a])
WithinLimit == NumOutbound + Ahead <= MaxOutbound
WithinPeriod == Cost(Ahead) <= Period
DialOnTime == dial.pc = "dialing" => dial.since <= now /\ now <= dial.since + DialCost
MarkingAlone ==
    sweep.pc = "marking" =>
        /\ queue = <<>> /\ dial.pc = "idle" /\ nextPass = now + Period
        /\ NumOutbound + Len(sweep.batch) <= MaxOutbound /\ Cost(Len(sweep.batch)) <= Period
PaidByPass == up => now + ToPay <= nextPass

PaceInv == BeforeStart /\ WithinLimit /\ WithinPeriod /\ DialOnTime /\ MarkingAlone /\ PaidByPass

LEMMA CostTypes ==
    /\ DialCost \in Nat \ {0} /\ Period \in Nat /\ MaxOutbound \in Nat \ {0}
    /\ Cost(0) = 0 /\ Period \div DialCost \in Nat
    /\ \A n \in Nat : Cost(n) \in Nat /\ Cost(n + 1) = Cost(n) + DialCost
    /\ \A m, n \in Nat : m <= n => Cost(m) <= Cost(n)
    /\ Cost(Period \div DialCost) <= Period
<1>1. DialCost \in Nat \ {0} /\ Period \in Nat /\ MaxOutbound \in Nat \ {0}
  BY SweepAssumption
<1>2. ASSUME NEW n \in Nat
      PROVE  n * DialCost \in Nat /\ (n + 1) * DialCost = n * DialCost + DialCost
  <2>1. \A d \in Nat : n * d \in Nat /\ (n + 1) * d = n * d + d
    OBVIOUS
  <2> QED
    BY <1>1, <2>1
<1>3. ASSUME NEW m \in Nat, NEW n \in Nat, m <= n PROVE m * DialCost <= n * DialCost
  <2>1. PICK d \in Nat : n = m + d
    BY <1>3
  <2>2. n * DialCost = m * DialCost + d * DialCost
    BY <1>1, <2>1, SMT
  <2>3. d * DialCost \in Nat /\ m * DialCost \in Nat
    BY <1>2
  <2> QED
    BY <2>2, <2>3
<1>4. Period \div DialCost \in Nat /\ (Period \div DialCost) * DialCost <= Period
  BY <1>1, SMT
<1> QED
  BY <1>1, <1>2, <1>3, <1>4 DEF Cost

LEMMA NoMoreThan ==
    ASSUME NEW most \in Nat, NEW x \in Nat, NEW y \in Nat, NEW n \in Nat, y <= x, x + n <= most
    PROVE  y + n <= most
  OBVIOUS

LEMMA NoCost == Cost(0) = 0 /\ 0 <= Period /\ MaxOutbound \in Nat /\ Period \in Nat
  BY CostTypes

\* A dial makes one connection, and nothing else makes any.
LEMMA OutboundAfter ==
    ASSUME SweepTypes, [Next]_vars
    PROVE  /\ NumOutbound \in Nat /\ NumOutbound' \in Nat
           /\ ~DialReaches => NumOutbound' <= NumOutbound
           /\ DialReaches => NumOutbound' <= NumOutbound + 1
<1> DEFINE out == {i \in Id : conn[i].kind = "out"}
           after == {i \in Id : conn'[i].kind = "out"}
<1>1. IsFiniteSet(out) /\ IsFiniteSet(after) /\ IsFiniteSet(Id)
  BY AnswersAssumption, FS_Subset
<1>2. NumOutbound = Cardinality(out) /\ NumOutbound' = Cardinality(after)
  BY DEF NumOutbound
<1>3. Cardinality(out) \in Nat /\ Cardinality(after) \in Nat
  BY <1>1, FS_CardinalityType
<1>4. ASSUME ~DialReaches PROVE Cardinality(after) <= Cardinality(out)
  <2>1. after \subseteq out
    BY <1>4, ConnectionsAfter
  <2> HIDE DEF out, after
  <2> QED
    BY <1>1, <2>1, FS_Subset
<1>5. ASSUME DialReaches PROVE Cardinality(after) <= Cardinality(out) + 1
  <2>1. after \subseteq out \cup {IdOf[dial.addr]}
    <3>1. conn' = [conn EXCEPT ![IdOf[dial.addr]] = [kind |-> "out", addr |-> dial.addr, since |-> now]]
      BY <1>5 DEF DialReaches
    <3>2. \A i \in Id : i # IdOf[dial.addr] => conn'[i] = conn[i]
      BY <3>1 DEF SweepTypes
    <3> QED
      BY <3>2
  <2> HIDE DEF out, after
  <2>0. /\ IsFiniteSet(out \cup {IdOf[dial.addr]})
        /\ Cardinality(out \cup {IdOf[dial.addr]}) =
             IF IdOf[dial.addr] \in out THEN Cardinality(out) ELSE Cardinality(out) + 1
    BY <1>1, FS_AddElement
  <2>2. IsFiniteSet(out \cup {IdOf[dial.addr]}) /\ Cardinality(out \cup {IdOf[dial.addr]}) <= Cardinality(out) + 1
    BY <1>3, <2>0
  <2>3. Cardinality(after) <= Cardinality(out \cup {IdOf[dial.addr]})
    BY <2>1, <2>2, FS_Subset
  <2>4. Cardinality(out \cup {IdOf[dial.addr]}) \in Nat
    BY <2>2, FS_CardinalityType
  <2> QED
    BY <1>3, <2>2, <2>3, <2>4
<1> QED
  BY <1>2, <1>3, <1>4, <1>5

\* What a bounded set of steps leaves alone it leaves on pace.
LEMMA PaceUndisturbed ==
    ASSUME OnPace, TypeInv, PaceInv, [Next]_vars, ~DialReaches,
           UNCHANGED <<up, now, queue, dial, sweep, nextPass>>, up \/ UNCHANGED peers
    PROVE  PaceInv'
<1>1. NumOutbound \in Nat /\ NumOutbound' \in Nat /\ NumOutbound' <= NumOutbound
  BY OutboundAfter DEF TypeInv
<1>2. Len(queue) \in Nat /\ Len(sweep.batch) \in Nat /\ MaxOutbound \in Nat
  <2>1. queue \in Seq(Addr) /\ sweep.batch \in Seq(Addr)
    BY DEF TypeInv, TypeOK, SweepStates
  <2> QED
    BY <2>1, SweepAssumption
<1>3. Ahead \in Nat /\ Ahead' = Ahead /\ ToPay' = ToPay
  BY <1>2 DEF Ahead, ToPay, Cost
<1>4. BeforeStart'
  BY DEF PaceInv, BeforeStart
<1>5. WithinLimit'
  <2>1. NumOutbound + Ahead <= MaxOutbound
    BY DEF PaceInv, WithinLimit
  <2>2. NumOutbound' + Ahead' <= MaxOutbound
    BY <1>1, <1>2, <1>3, <2>1, NoMoreThan
  <2> QED
    BY <2>2 DEF WithinLimit
<1>6. WithinPeriod' /\ PaidByPass'
  BY <1>3 DEF PaceInv, WithinPeriod, PaidByPass, Cost
<1>7. DialOnTime'
  BY DEF PaceInv, DialOnTime
<1>8. MarkingAlone'
  BY <1>1, <1>2 DEF PaceInv, MarkingAlone, Cost
<1> QED
  BY <1>4, <1>5, <1>6, <1>7, <1>8 DEF PaceInv

\* With nothing proven yet, the start hands over nothing.
LEMMA StartHandsNothing ==
    ASSUME OnPace, TypeInv, PaceInv, Start
    PROVE  queue = <<>> /\ queue' = <<>> /\ dial.pc = "idle" /\ sweep.pc = "idle"
<1>1. queue = <<>> /\ dial.pc = "idle" /\ sweep.pc = "idle" /\ \A a \in Held(peers) : ~Reached(peers[a])
  BY DEF PaceInv, BeforeStart, Start
<1>2. PICK s \in AtStart : queue' \in HandedTo(s)
  BY DEF Start, DialPeers
<1>3. s = <<>>
  BY <1>1, <1>2, StartTyped DEF OnPace, TypeInv
<1>4. <<>> \in Seq(Addr) /\ Len(<<>>) = 0
  OBVIOUS
<1>5. ASSUME NEW t \in OthersIn(<<>>) PROVE t = <<>>
  <2>1. t \in Seq(Addr) /\ Len(t) \in Nat /\ Len(t) <= 0
    BY <1>4, <1>5, OthersKept
  <2> QED
    BY <2>1, EmptySeq
<1>6. queue' = queue \/ \E t \in OthersIn(<<>>) : queue' = queue \o t
  BY <1>2, <1>3, <1>4, HandOver
<1> QED
  BY <1>1, <1>5, <1>6

LEMMA PaceStart == ASSUME OnPace, TypeInv, PaceInv, Start PROVE PaceInv'
<1>1. queue = <<>> /\ queue' = <<>> /\ dial.pc = "idle" /\ sweep.pc = "idle"
  BY StartHandsNothing
<1>5. /\ up' /\ UNCHANGED <<now, conn, dial, sweep>> /\ nextPass' = now /\ now \in Nat
  BY DEF Start, TypeInv, TypeOK
<1>6. NumOutbound' = NumOutbound /\ NumOutbound \in Nat
  BY <1>5, OutboundType DEF NumOutbound
<1>7. Ahead = 0 /\ Ahead' = 0 /\ ToPay' = 0
  BY <1>1, <1>5, CostTypes DEF Ahead, ToPay, Cost
<1>8. BeforeStart' /\ DialOnTime' /\ MarkingAlone'
  BY <1>1, <1>5 DEF BeforeStart, DialOnTime, MarkingAlone
<1>9. WithinLimit' /\ WithinPeriod' /\ PaidByPass'
  BY <1>5, <1>6, <1>7, CostTypes DEF PaceInv, WithinLimit, WithinPeriod, PaidByPass, Cost
<1> QED
  BY <1>8, <1>9 DEF PaceInv

LEMMA PacePop == ASSUME OnPace, TypeInv, PaceInv, DialPop PROVE PaceInv'
<1>0. up /\ dial.pc = "idle" /\ queue # <<>> /\ queue' = Tail(queue) /\ queue \in Seq(Addr)
      /\ UNCHANGED <<up, now, peers, conn, sweep, nextPass>> /\ now \in Nat /\ nextPass \in Nat
  BY DEF DialPop, TypeInv, TypeOK
<1>1. Len(queue) \in Nat \ {0} /\ Len(queue') = Len(queue) - 1
  BY <1>0, HeadTailProperties, EmptySeq
<1> DEFINE n == Len(queue')
<1>2. n \in Nat /\ Len(queue) = n + 1 /\ Cost(n) \in Nat /\ Cost(n + 1) = Cost(n) + DialCost /\ DialCost \in Nat \ {0}
  <2>1. n \in Nat /\ Len(queue) = n + 1
    BY <1>1
  <2> HIDE DEF n
  <2>2. Cost(n) \in Nat /\ Cost(n + 1) = Cost(n) + DialCost /\ DialCost \in Nat \ {0}
    BY <2>1, CostTypes
  <2> QED
    BY <2>1, <2>2
<1>3. Ahead = n + 1 /\ ToPay = Cost(n) + DialCost
  BY <1>0, <1>2 DEF Ahead, ToPay
<1>4. NumOutbound' = NumOutbound /\ NumOutbound \in Nat
  BY <1>0, OutboundType DEF NumOutbound
<1>5. BeforeStart' /\ MarkingAlone'
  BY <1>0 DEF PaceInv, BeforeStart, MarkingAlone
<1> HIDE DEF n
<1>6. NumOutbound + (n + 1) <= MaxOutbound /\ Cost(n + 1) <= Period /\ now + (Cost(n) + DialCost) <= nextPass
      /\ MaxOutbound \in Nat /\ Period \in Nat
  BY <1>0, <1>3, CostTypes DEF PaceInv, WithinLimit, WithinPeriod, PaidByPass
<1>7. CASE dial' = dial
  <2>1. Ahead' = n /\ ToPay' = Cost(n)
    <3>1. dial'.pc # "dialing"
      BY <1>0, <1>7
    <3>2. Ahead' = Len(queue') /\ ToPay' = Cost(Len(queue')) + 0
      BY <3>1 DEF Ahead, ToPay, Cost
    <3> QED
      BY <1>2, <3>2 DEF n
  <2>2. DialOnTime'
    BY <1>0, <1>7 DEF DialOnTime
  <2>3. WithinLimit'
    BY <1>2, <1>4, <1>6, <2>1 DEF WithinLimit
  <2>4. WithinPeriod'
    BY <1>2, <1>6, <2>1 DEF WithinPeriod, Cost
  <2>5. PaidByPass'
    BY <1>0, <1>2, <1>6, <2>1 DEF PaidByPass
  <2> QED
    BY <1>5, <2>2, <2>3, <2>4, <2>5 DEF PaceInv
<1>8. CASE dial' = [pc |-> "dialing", addr |-> Head(queue), since |-> now]
  <2>1. Ahead' = n + 1 /\ ToPay' = Cost(n) + (now + DialCost - now)
    BY <1>0, <1>2, <1>8 DEF Ahead, ToPay, Cost, n
  <2>2. DialOnTime'
    BY <1>0, <1>2, <1>8 DEF DialOnTime
  <2>3. WithinLimit'
    BY <1>2, <1>4, <1>6, <2>1 DEF WithinLimit
  <2>4. WithinPeriod'
    BY <1>6, <2>1 DEF WithinPeriod, Cost
  <2>5. PaidByPass'
    BY <1>0, <1>2, <1>6, <2>1 DEF PaidByPass
  <2> QED
    BY <1>5, <2>2, <2>3, <2>4, <2>5 DEF PaceInv
<1> QED
  BY <1>7, <1>8 DEF DialPop

\* A dial ends: with a connection, or without; and the reactor is told.
LEMMA PaceDialEnds ==
    ASSUME OnPace, TypeInv, PaceInv, [Next]_vars, DialReaches \/ DialFails \/ AddPeer
    PROVE  PaceInv'
<1>0. /\ up /\ UNCHANGED <<up, now, queue, sweep, nextPass>> /\ now \in Nat /\ nextPass \in Nat
      /\ dial.pc \in {"dialing", "adding"} /\ dial'.pc \in {"idle", "adding"} /\ dial \in DialStates
  BY DEF DialReaches, DialFails, AddPeer, TypeInv, TypeOK, DialIdle, DialStates
<1> DEFINE n == Len(queue)
<1>1. n \in Nat /\ Cost(n) \in Nat /\ Cost(n + 1) = Cost(n) + DialCost /\ DialCost \in Nat /\ MaxOutbound \in Nat
      /\ Period \in Nat
  BY CostTypes DEF TypeInv, TypeOK
<1>2. Ahead' = n /\ ToPay' = Cost(n)
  BY <1>0, <1>1 DEF Ahead, ToPay, Cost
<1>3. NumOutbound \in Nat /\ NumOutbound' \in Nat
  BY OutboundAfter DEF TypeInv
<1>4. BeforeStart' /\ DialOnTime' /\ MarkingAlone'
  BY <1>0 DEF PaceInv, BeforeStart, DialOnTime, MarkingAlone
<1> HIDE DEF n
<1>5. CASE dial.pc = "dialing"
  <2>1. Ahead = n + 1 /\ ToPay = Cost(n) + (dial.since + DialCost - now)
    BY <1>5 DEF Ahead, ToPay, n
  <2>2. dial.since \in Nat /\ dial.since <= now /\ now <= dial.since + DialCost
    BY <1>0, <1>5 DEF PaceInv, DialOnTime, DialStates
  <2>3. NumOutbound' <= NumOutbound + 1
    BY <1>3, OutboundAfter DEF TypeInv
  <2>4. NumOutbound + (n + 1) <= MaxOutbound /\ Cost(n + 1) <= Period /\ now + ToPay <= nextPass
    BY <1>0, <2>1 DEF PaceInv, WithinLimit, WithinPeriod, PaidByPass
  <2>5. WithinLimit'
    <3>1. NumOutbound + 1 \in Nat /\ (NumOutbound + 1) + n <= MaxOutbound
      BY <1>1, <1>3, <2>4
    <3>2. NumOutbound' + n <= MaxOutbound
      BY <1>1, <1>3, <2>3, <3>1, NoMoreThan
    <3> QED
      BY <1>2, <3>2 DEF WithinLimit
  <2>6. WithinPeriod'
    BY <1>1, <1>2, <2>4 DEF WithinPeriod, Cost
  <2>7. PaidByPass'
    BY <1>0, <1>1, <1>2, <2>1, <2>2, <2>4 DEF PaidByPass
  <2> QED
    BY <1>4, <2>5, <2>6, <2>7 DEF PaceInv
<1>6. CASE dial.pc = "adding"
  <2>1. Ahead = n /\ ToPay = Cost(n) + 0
    BY <1>6 DEF Ahead, ToPay, n
  <2>2. NumOutbound' <= NumOutbound
    BY <1>6, OutboundAfter DEF TypeInv, DialReaches
  <2>3. WithinLimit'
    <3>1. NumOutbound + n <= MaxOutbound
      BY <2>1 DEF PaceInv, WithinLimit
    <3>2. NumOutbound' + n <= MaxOutbound
      BY <1>1, <1>3, <2>2, <3>1, NoMoreThan
    <3> QED
      BY <1>2, <3>2 DEF WithinLimit
  <2>4. WithinPeriod'
    BY <1>1, <1>2, <2>1 DEF PaceInv, WithinPeriod, Cost
  <2>5. PaidByPass'
    BY <1>0, <1>1, <1>2, <2>1 DEF PaceInv, PaidByPass
  <2> QED
    BY <1>4, <2>3, <2>4, <2>5 DEF PaceInv
<1> QED
  BY <1>0, <1>5, <1>6

\* What a pass may plan fits the free slots and the period.
LEMMA BudgetFits ==
    /\ sweepBudget \in Nat /\ Cost(sweepBudget) <= Period
    /\ NumOutbound <= MaxOutbound => NumOutbound + sweepBudget <= MaxOutbound
<1> DEFINE free == AtLeast(MaxOutbound - NumOutbound, 0)
           most == Period \div DialCost
<1>1. /\ NumOutbound \in Nat /\ MaxOutbound \in Nat /\ Period \in Nat /\ most \in Nat /\ Cost(most) <= Period
      /\ sweepBudget \in Nat /\ Cost(sweepBudget) \in Nat /\ Cost(most) \in Nat
  BY OutboundType, BudgetType, CostTypes
<1>2. sweepBudget = AtMost(free, most)
  BY DEF sweepBudget
<1>3. free \in Nat /\ (NumOutbound <= MaxOutbound => free = MaxOutbound - NumOutbound)
  BY <1>1 DEF AtLeast
<1> HIDE DEF free, most
<1>4. sweepBudget <= free /\ sweepBudget <= most
  BY <1>1, <1>2, <1>3 DEF AtMost
<1>5. Cost(sweepBudget) <= Cost(most)
  BY <1>1, <1>4, CostTypes
<1>6. Cost(sweepBudget) <= Period
  BY <1>1, <1>5
<1>7. NumOutbound <= MaxOutbound => NumOutbound + sweepBudget <= MaxOutbound
  BY <1>1, <1>3, <1>4
<1> QED
  BY <1>1, <1>6, <1>7

\* Nothing is left of what the last pass handed over when the next is due.
LEMMA DueAlone ==
    ASSUME TypeInv, PaceInv, up, ~DialDue, now >= nextPass
    PROVE  now = nextPass /\ queue = <<>> /\ dial.pc = "idle"
<1>1. /\ now \in Nat /\ nextPass \in Nat /\ queue \in Seq(Addr) /\ dial \in DialStates
      /\ dial.since \in Nat /\ dial.pc \in {"idle", "dialing", "adding"} /\ now + ToPay <= nextPass
  BY DEF TypeInv, TypeOK, DialStates, PaceInv, PaidByPass
<1> DEFINE n == Len(queue)
           rest == IF dial.pc = "dialing" THEN dial.since + DialCost - now ELSE 0
<1>2. n \in Nat /\ Cost(n) \in Nat /\ DialCost \in Nat \ {0} /\ (n # 0 => Cost(n) >= DialCost)
  <2>1. n \in Nat
    BY <1>1
  <2> HIDE DEF n
  <2>2. Cost(n) \in Nat /\ DialCost \in Nat \ {0}
    BY <2>1, CostTypes
  <2>3. ASSUME n # 0 PROVE Cost(n) >= DialCost
    <3>1. PICK m \in Nat : n = m + 1
      BY <2>1, <2>3
    <3>2. Cost(m) \in Nat /\ Cost(m + 1) = Cost(m) + DialCost
      BY CostTypes
    <3> QED
      BY <2>2, <3>1, <3>2
  <2> QED
    BY <2>1, <2>2, <2>3
<1>3. rest \in Nat
  BY <1>1, <1>2 DEF PaceInv, DialOnTime
<1>4. ToPay = Cost(n) + rest
  BY DEF ToPay
<1>5. n = 0 => queue = <<>>
  BY <1>1, EmptySeq
<1> HIDE DEF n
<1>6. Cost(n) = 0 /\ rest = 0 /\ now = nextPass
  <2> HIDE DEF rest
  <2> QED
    BY <1>1, <1>2, <1>3, <1>4
<1>7. n = 0
  BY <1>2, <1>6
<1>8. dial.pc # "dialing"
  BY <1>1, <1>2, <1>6 DEF DialDue
<1>9. dial.pc # "adding"
  BY DEF DialDue
<1> QED
  BY <1>1, <1>5, <1>6, <1>7, <1>8, <1>9

LEMMA PacePlan == ASSUME OnPace, TypeInv, PaceInv, SweepPlan PROVE PaceInv'
<1>1. /\ up /\ ~DialDue /\ now >= nextPass /\ nextPass' = Ticked(nextPass, Period)
      /\ UNCHANGED <<up, now, conn, queue, dial>> /\ now \in Nat /\ nextPass \in Nat /\ Period \in Nat \ {0}
  <2>1. ~Late /\ Period \in Nat \ {0}
    BY NoCost DEF OnPace, Late
  <2> QED
    BY <2>1 DEF SweepPlan, TypeInv, TypeOK
<1>2. now = nextPass /\ queue = <<>> /\ dial.pc = "idle"
  BY <1>1, DueAlone
<1>3. nextPass' = now + Period
  BY <1>1, <1>2, TickedType
<1>4. Ahead = 0 /\ Ahead' = 0 /\ ToPay' = 0
  BY <1>1, <1>2, CostTypes DEF Ahead, ToPay, Cost
<1>5. NumOutbound' = NumOutbound /\ NumOutbound \in Nat
  BY <1>1, OutboundType DEF NumOutbound
<1>6. NumOutbound <= MaxOutbound /\ Cost(0) <= Period
  BY <1>4, <1>5, CostTypes DEF PaceInv, WithinLimit
<1> DEFINE n == Len(sweep'.batch)
<1>7. n \in Nat /\ n <= sweepBudget
  <2>1. sweep' \in SweepStates /\ n <= sweepBudget
    BY PlanTyped DEF TypeInv
  <2>2. sweep'.batch \in Seq(Addr)
    BY <2>1 DEF SweepStates
  <2> QED
    BY <2>1, <2>2
<1> HIDE DEF n
<1>8. NumOutbound + n <= MaxOutbound /\ Cost(n) <= Period
  <2>1. sweepBudget \in Nat /\ Cost(sweepBudget) <= Period /\ NumOutbound + sweepBudget <= MaxOutbound
    BY <1>6, BudgetFits
  <2>2. Cost(n) <= Cost(sweepBudget) /\ Cost(n) \in Nat /\ Cost(sweepBudget) \in Nat /\ MaxOutbound \in Nat
    BY <1>7, <2>1, CostTypes
  <2> QED
    BY <1>1, <1>5, <1>7, <2>1, <2>2
<1>9. MarkingAlone'
  BY <1>1, <1>2, <1>3, <1>5, <1>8 DEF MarkingAlone, Cost, n
<1>10. BeforeStart' /\ DialOnTime'
  BY <1>1, <1>2 DEF BeforeStart, DialOnTime
<1>11. WithinLimit'
  BY <1>4, <1>5, <1>6 DEF WithinLimit
<1>12. WithinPeriod' /\ PaidByPass'
  BY <1>1, <1>3, <1>4, <1>6 DEF WithinPeriod, PaidByPass, Cost
<1> QED
  BY <1>9, <1>10, <1>11, <1>12 DEF PaceInv

LEMMA PaceMark == ASSUME OnPace, TypeInv, PaceInv, SweepMark PROVE PaceInv'
<1>1. /\ up /\ UNCHANGED <<up, now, conn, queue, dial, nextPass>> /\ sweep.pc = "marking"
      /\ sweep'.pc = "marking" /\ sweep'.batch = sweep.batch
  BY MarkTyped DEF SweepMark, TypeInv, SweepTypes, SweepStates
<1>2. NumOutbound' = NumOutbound /\ Ahead' = Ahead /\ ToPay' = ToPay
  BY <1>1 DEF NumOutbound, Ahead, ToPay, Cost
<1>3. BeforeStart' /\ DialOnTime'
  BY <1>1 DEF PaceInv, BeforeStart, DialOnTime
<1>4. MarkingAlone'
  BY <1>1, <1>2 DEF PaceInv, MarkingAlone, Cost
<1>5. WithinLimit' /\ WithinPeriod' /\ PaidByPass'
  BY <1>1, <1>2 DEF PaceInv, WithinLimit, WithinPeriod, PaidByPass, Cost
<1> QED
  BY <1>3, <1>4, <1>5 DEF PaceInv

\* What a pass hands over, while the limit has room: all but this node, and
\* nothing else is to dial.
LEMMA PassHandsOver ==
    ASSUME TypeInv, MarkingAlone, SweepHandOver
    PROVE  /\ queue = <<>> /\ dial.pc = "idle" /\ nextPass = now + Period /\ sweep'.pc = "dropping"
           /\ queue' \in Seq(Addr) /\ Len(queue') \in Nat /\ Len(queue') <= Len(sweep.batch)
           /\ NumOutbound + Len(queue') <= MaxOutbound /\ Cost(Len(queue')) <= Period
           /\ sweep.batch \in Seq(Addr) /\ (sweep.batch = <<>> => queue' = <<>>)
           /\ sweep.batch # <<>> => queue' \in OthersIn(sweep.batch)
<1>1. /\ queue = <<>> /\ dial.pc = "idle" /\ nextPass = now + Period /\ sweep'.pc = "dropping"
      /\ NumOutbound + Len(sweep.batch) <= MaxOutbound /\ Cost(Len(sweep.batch)) <= Period
      /\ queue' \in HandedTo(sweep.batch) /\ sweep.batch \in Seq(Addr) /\ Len(sweep.batch) \in Nat
  <2>1. sweep.batch \in Seq(Addr)
    BY DEF TypeInv, TypeOK, SweepStates
  <2> QED
    BY <2>1 DEF MarkingAlone, SweepHandOver, DialPeers, SweepIdle
<1>2. NumOutbound \in Nat /\ MaxOutbound \in Nat
  BY OutboundType, CostTypes
<1>3. CASE queue' = queue
  <2>1. queue' \in Seq(Addr) /\ Len(queue') = 0
    BY <1>1, <1>3
  <2>2. NumOutbound >= MaxOutbound \/ \E t \in OthersIn(sweep.batch) : queue' = queue \o t
    BY <1>1, HandOver
  <2>3. ASSUME NEW t \in OthersIn(sweep.batch), queue' = queue \o t PROVE queue' = t
    BY <1>1, <2>3, OthersKept, QueuedBehind
  <2>4. ASSUME NumOutbound >= MaxOutbound PROVE sweep.batch = <<>>
    <3>1. Len(sweep.batch) = 0
      BY <1>1, <1>2, <2>4
    <3> QED
      BY <1>1, <3>1, EmptySeq
  <2>5. Cost(0) <= Period /\ NumOutbound + 0 <= MaxOutbound
    BY <1>1, <1>2, <2>1, NoCost
  <2>6. sweep.batch # <<>> => queue' \in OthersIn(sweep.batch)
    BY <2>2, <2>3, <2>4
  <2> QED
    BY <1>1, <1>3, <2>1, <2>5, <2>6
<1>4. CASE \E t \in OthersIn(sweep.batch) : queue' = queue \o t
  <2>1. PICK t \in OthersIn(sweep.batch) : queue' = queue \o t
    BY <1>4
  <2>2. t \in Seq(Addr) /\ Len(t) \in Nat /\ Len(t) <= Len(sweep.batch)
    BY <1>1, OthersKept
  <2>3. queue' = t
    BY <1>1, <2>1, <2>2, QueuedBehind
  <2>4. NumOutbound + Len(t) <= MaxOutbound
    BY <1>1, <1>2, <2>2
  <2>5. Cost(Len(t)) <= Cost(Len(sweep.batch)) /\ Cost(Len(t)) \in Nat /\ Cost(Len(sweep.batch)) \in Nat /\ Period \in Nat
    BY <1>1, <2>2, CostTypes
  <2>6. Cost(Len(t)) <= Period
    BY <1>1, <2>5
  <2>7. sweep.batch = <<>> => t = <<>>
    <3>1. Len(<<>>) = 0
      OBVIOUS
    <3>2. sweep.batch = <<>> => Len(t) = 0
      BY <2>2, <3>1
    <3> QED
      BY <2>2, <3>2, EmptySeq
  <2> QED
    BY <1>1, <2>2, <2>3, <2>4, <2>6, <2>7
<1> QED
  BY <1>1, <1>3, <1>4, HandOver

LEMMA PaceHandOver == ASSUME OnPace, TypeInv, PaceInv, SweepHandOver PROVE PaceInv'
<1>1. up /\ UNCHANGED <<up, now, peers, conn, dial, nextPass>> /\ now \in Nat /\ nextPass \in Nat
  BY DEF SweepHandOver, TypeInv, TypeOK
<1>2. /\ dial.pc = "idle" /\ nextPass = now + Period /\ sweep'.pc = "dropping"
      /\ NumOutbound + Len(queue') <= MaxOutbound /\ Cost(Len(queue')) <= Period
  BY PassHandsOver DEF PaceInv
<1>3. NumOutbound' = NumOutbound
  BY <1>1 DEF NumOutbound
<1> DEFINE n == Len(queue')
<1>4. n \in Nat /\ Cost(n) \in Nat
  <2>1. n \in Nat
    BY PassHandsOver DEF PaceInv
  <2> HIDE DEF n
  <2> QED
    BY <2>1, CostTypes
<1>5. dial'.pc = "idle"
  BY <1>1, <1>2
<1>6. Ahead' = n /\ ToPay' = Cost(n) + 0
  BY <1>5 DEF Ahead, ToPay, Cost
<1>7. BeforeStart' /\ DialOnTime' /\ MarkingAlone'
  BY <1>1, <1>2 DEF BeforeStart, DialOnTime, MarkingAlone
<1> HIDE DEF n
<1>8. NumOutbound + n <= MaxOutbound /\ Cost(n) <= Period
  BY <1>2 DEF n
<1>9. WithinLimit' /\ WithinPeriod'
  BY <1>3, <1>6, <1>8 DEF WithinLimit, WithinPeriod, Cost
<1>10. now + ToPay' <= nextPass
  <2>1. ToPay' = Cost(n) /\ Period \in Nat
    BY <1>4, <1>6, NoCost
  <2> QED
    BY <1>1, <1>2, <1>4, <1>8, <2>1
<1>11. PaidByPass'
  BY <1>1, <1>10 DEF PaidByPass
<1> QED
  BY <1>7, <1>9, <1>11 DEF PaceInv

LEMMA PaceDrop == ASSUME OnPace, TypeInv, PaceInv, SweepDrop PROVE PaceInv'
<1>1. up /\ UNCHANGED <<up, now, conn, queue, dial, nextPass>> /\ sweep'.pc = "idle"
  BY DEF SweepDrop, SweepIdle
<1>2. NumOutbound' = NumOutbound /\ Ahead' = Ahead /\ ToPay' = ToPay
  BY <1>1 DEF NumOutbound, Ahead, ToPay, Cost
<1>3. BeforeStart' /\ DialOnTime' /\ MarkingAlone'
  BY <1>1 DEF PaceInv, BeforeStart, DialOnTime, MarkingAlone
<1>4. WithinLimit' /\ WithinPeriod' /\ PaidByPass'
  BY <1>1, <1>2 DEF PaceInv, WithinLimit, WithinPeriod, PaidByPass, Cost
<1> QED
  BY <1>3, <1>4 DEF PaceInv

\* While the clock runs, nothing due is left waiting: no dial outlasts its
\* cost, and nothing is queued behind an idle loop.
LEMMA PaceTick == ASSUME OnPace, TypeInv, PaceInv, Tick PROVE PaceInv'
<1>1. /\ NothingDue /\ now' = now + 1 /\ UNCHANGED <<up, peers, conn, queue, dial, sweep, nextPass>>
      /\ now \in Nat /\ nextPass \in Nat
  BY DEF OnPace, Late, Tick, TypeInv, TypeOK
<1>2. up /\ ~DialDue /\ now < nextPass /\ sweep.pc = "idle"
  BY <1>1 DEF OnPace, NothingDue
<1>3. NumOutbound' = NumOutbound /\ Ahead' = Ahead
  BY <1>1 DEF NumOutbound, Ahead
<1>4. DialOnTime'
  <2>1. dial.pc = "dialing" => dial.since \in Nat /\ dial.since <= now /\ ~(now >= dial.since + DialCost)
    BY <1>2 DEF TypeInv, TypeOK, DialStates, DialDue, PaceInv, DialOnTime
  <2>2. DialCost \in Nat
    BY CostTypes
  <2>3. dial.pc = "dialing" => dial.since <= now + 1 /\ now + 1 <= dial.since + DialCost
    BY <1>1, <2>1, <2>2
  <2> QED
    BY <1>1, <2>3 DEF DialOnTime
<1>5. now' + ToPay' <= nextPass
  <2>1. CASE dial.pc = "dialing"
    <3>1. /\ ToPay = Cost(Len(queue)) + (dial.since + DialCost - now) /\ now + ToPay <= nextPass
          /\ ToPay' = Cost(Len(queue)) + (dial.since + DialCost - (now + 1))
      BY <1>1, <1>2, <2>1 DEF ToPay, PaceInv, PaidByPass, Cost
    <3>2. Cost(Len(queue)) \in Nat /\ dial.since \in Nat /\ DialCost \in Nat
      <4>1. Len(queue) \in Nat /\ dial.since \in Nat
        BY DEF TypeInv, TypeOK, DialStates
      <4> QED
        BY <4>1, CostTypes
    <3> QED
      BY <1>1, <3>1, <3>2
  <2>2. CASE dial.pc # "dialing"
    <3>1. queue = <<>>
      BY <1>2, <2>2 DEF DialDue, TypeInv, TypeOK, DialStates
    <3>2. dial' = dial /\ queue' = queue /\ Len(<<>>) = 0
      BY <1>1
    <3>3. ToPay' = 0
      BY <2>2, <3>1, <3>2, CostTypes DEF ToPay, Cost
    <3> QED
      BY <1>1, <1>2, <3>3
  <2> QED
    BY <2>1, <2>2
<1>6. BeforeStart' /\ MarkingAlone'
  BY <1>1, <1>2 DEF BeforeStart, MarkingAlone
<1>7. WithinLimit' /\ WithinPeriod' /\ PaidByPass'
  BY <1>1, <1>3, <1>5 DEF PaceInv, WithinLimit, WithinPeriod, PaidByPass, Cost
<1> QED
  BY <1>4, <1>6, <1>7 DEF PaceInv

LEMMA NotDialled == ASSUME TypeOK, UNCHANGED dial PROVE ~DialReaches
  BY DEF TypeOK, DialStates, DialReaches

LEMMA PaceKept ==
    ASSUME OnPace, TypeInv, PaceInv, [Next]_vars
    PROVE  PaceInv'
\* The steps that neither the switch nor the sweep takes.
<1>1. ASSUME UNCHANGED <<up, now, queue, dial, sweep, nextPass>>, up \/ UNCHANGED peers PROVE PaceInv'
  <2>1. ~DialReaches
    BY <1>1, NotDialled DEF TypeInv
  <2> QED
    BY <1>1, <2>1, PaceUndisturbed
<1>2. ASSUME NEW i \in Id, Visit(i) \/ Leave(i) \/ HangUp(i) PROVE PaceInv'
  <2>1. UNCHANGED <<up, now, queue, dial, sweep, nextPass, peers>>
    BY <1>2 DEF Visit, Leave, HangUp
  <2> QED
    BY <1>1, <2>1
<1>3. ASSUME NEW j \in Id, NEW S \in Heard, Learn(j, S) PROVE PaceInv'
  <2>1. up /\ UNCHANGED <<up, now, queue, dial, sweep, nextPass>>
    BY <1>3 DEF Learn, OnPace
  <2> QED
    BY <1>1, <2>1
<1>4. CASE Cycle \/ UNCHANGED vars
  <2>1. UNCHANGED <<up, now, queue, dial, sweep, nextPass, peers>>
    BY <1>4 DEF Cycle, vars
  <2> QED
    BY <1>1, <2>1
<1>5. ~Stop /\ \A j \in Id : ~LearnDials(j)
  BY DEF OnPace, Stop, LearnDials
<1> QED
  BY <1>2, <1>3, <1>4, <1>5, PaceStart, PacePop, PaceDialEnds, PacePlan, PaceMark, PaceHandOver, PaceDrop,
     PaceTick DEF Next

LEMMA PaceInit == ASSUME OnPace, Init PROVE PaceInv
<1>1. /\ up = FALSE /\ queue = <<>> /\ dial.pc = "idle" /\ sweep.pc = "idle" /\ peers \in InitialBooks
      /\ \A i \in Id : conn[i].kind = "none"
  BY DEF Init, DialIdle, SweepIdle, NoConn
<1>2. \A a \in Held(peers) : ~Reached(peers[a])
  BY <1>1 DEF OnPace
<1>3. NumOutbound = 0
  <2>1. {i \in Id : conn[i].kind = "out"} = {}
    BY <1>1
  <2> QED
    BY <2>1, FS_EmptySet DEF NumOutbound
<1>4. Ahead = 0
  BY <1>1 DEF Ahead
<1>5. WithinLimit /\ WithinPeriod
  BY <1>3, <1>4, NoCost DEF WithinLimit, WithinPeriod
<1> QED
  BY <1>1, <1>2, <1>5 DEF PaceInv, BeforeStart, DialOnTime, MarkingAlone, PaidByPass

LEMMA PaceHolds == ASSUME OnPace PROVE Spec => [](TypeInv /\ PaceInv)
<1>1. Init => TypeInv /\ PaceInv
  BY TypeInvInit, PaceInit
<1>2. (TypeInv /\ PaceInv) /\ [Next]_vars => (TypeInv /\ PaceInv)'
  BY TypeInvKept, PaceKept
<1> QED
  BY <1>1, <1>2, PTL DEF Spec

\* OutboundWithinLimit: as long as the loops keep their time, and the process
\* starts once on a book without proofs, no hand-over makes this seed open
\* more connections than max_num_outbound_peers, though the switch checks the
\* limit only when it is handed a batch and dials long after.
THEOREM LimitHolds ==
    ASSUME OnPace
    PROVE  Spec => []OutboundWithinLimit
<1>1. TypeInv /\ PaceInv => OutboundWithinLimit
  <2> SUFFICES ASSUME TypeInv, PaceInv PROVE NumOutbound <= MaxOutbound
    BY DEF OutboundWithinLimit
  <2>1. NumOutbound \in Nat /\ MaxOutbound \in Nat /\ NumOutbound + Ahead <= MaxOutbound
    BY OutboundType, NoCost DEF PaceInv, WithinLimit
  <2>2. Ahead \in Nat
    <3>1. Len(queue) \in Nat
      BY DEF TypeInv, TypeOK
    <3> QED
      BY <3>1 DEF Ahead
  <2> QED
    BY <2>1, <2>2
<1> QED
  BY <1>1, PaceHolds, PTL

\* QueueWithinPeriod: under the same conditions what waits to be dialled, the
\* dial in hand included, is never more than a period can dial at its worst,
\* so that a pass never queues behind the last.
THEOREM QueueIsDialledInTime ==
    ASSUME OnPace
    PROVE  Spec => []QueueWithinPeriod
<1>1. TypeInv /\ PaceInv => QueueWithinPeriod
  <2> SUFFICES ASSUME TypeInv, PaceInv PROVE QueueWithinPeriod
    OBVIOUS
  <2> DEFINE waiting == IF dial.pc = "dialing" THEN <<dial.addr>> \o queue ELSE queue
  <2>1. Len(waiting) = Ahead
    <3>1. queue \in Seq(Addr) /\ <<dial.addr>> \in Seq(Addr \cup {NoRecord}) /\ queue \in Seq(Addr \cup {NoRecord})
      BY DEF TypeInv, TypeOK, DialStates
    <3>2. Len(<<dial.addr>> \o queue) = 1 + Len(queue)
      BY <3>1, ConcatProperties
    <3> QED
      BY <3>1, <3>2 DEF Ahead
  <2>2. Cost(Ahead) <= Period
    BY DEF PaceInv, WithinPeriod
  <2> QED
    BY <2>1, <2>2 DEF QueueWithinPeriod, Cost
<1> QED
  BY <1>1, PaceHolds, PTL

-----------------------------------------------------------------------------
(* Without a sweep.  The whole book is handed over at the start, and what   *)
(* is learned goes to the switch in a step of its own.                      *)

Waiting(a) == \E k \in 1..Len(queue) : queue[k] = a
Tried(a) == a \in dialled \cup declined \/ Waiting(a) \/ \E i \in Id : a \in learnt[i]
AllTried == up => \A a \in Held(peers) \ SameAsSelf : Tried(a)

\* What the dial loop has in hand it dials, and there is no pass.
HandIsDialled == dial.pc # "idle" => dial.addr \in dialled
Unswept == sweep.pc = "idle"

TriedInv == TypeInv /\ DownIsAlone /\ Unswept /\ HandIsDialled /\ AllTried

LEMMA DownStaysAlone == SweepTypes /\ DownIsAlone /\ [Next]_vars => DownIsAlone'
<1> SUFFICES ASSUME SweepTypes, DownIsAlone, [Next]_vars, ~up', NEW i \in Id, conn'[i].kind # "none" PROVE FALSE
  BY DEF DownIsAlone
<1>1. conn'[i] = conn[i]
  BY ConnectionStep
<1>2. up
  BY <1>1 DEF DownIsAlone
<1>3. Stop
  BY <1>2 DEF Next, Start, DialPop, DialReaches, DialFails, AddPeer, Visit, Leave, HangUp, SweepPlan, SweepMark,
                 SweepHandOver, SweepDrop, Learn, LearnDials, Cycle, Tick, vars
<1> QED
  BY <1>3 DEF Stop, NoConn

LEMMA StaysUnswept == ASSUME Period = 0 PROVE Unswept /\ [Next]_vars => Unswept'
<1> SUFFICES ASSUME Unswept, [Next]_vars PROVE Unswept'
  OBVIOUS
<1>1. ~SweepPlan /\ ~SweepMark /\ ~SweepHandOver /\ ~SweepDrop
  BY DEF Unswept, SweepPlan, SweepMark, SweepHandOver, SweepDrop
<1>2. UNCHANGED sweep \/ Stop
  BY <1>1 DEF Next, Start, DialPop, DialReaches, DialFails, AddPeer, Visit, Leave, HangUp, Learn, LearnDials, Cycle, Tick, vars
<1> QED
  BY <1>2 DEF Unswept, Stop, SweepIdle

LEMMA HandStaysDialled == HandIsDialled /\ [Next]_vars => HandIsDialled'
<1> SUFFICES ASSUME HandIsDialled, [Next]_vars PROVE HandIsDialled'
  OBVIOUS
<1>1. CASE DialPop
  BY <1>1 DEF DialPop, HandIsDialled
<1>2. CASE DialReaches
  BY <1>2 DEF DialReaches, HandIsDialled
<1>3. CASE DialFails \/ AddPeer \/ Stop
  BY <1>3 DEF DialFails, AddPeer, Stop, DialIdle, HandIsDialled
<1>4. CASE UNCHANGED <<dial, dialled>>
  BY <1>4 DEF HandIsDialled
<1> QED
  BY <1>1, <1>2, <1>3, <1>4
     DEF Next, Start, Visit, Leave, HangUp, SweepPlan, SweepMark, SweepHandOver, SweepDrop, Learn, LearnDials,
         Cycle, Tick, vars

\* What is handed over waits or is declined, but for this node itself.
LEMMA HandedAreTried ==
    ASSUME NEW s \in Seq(Addr), queue \in Seq(Addr), DialPeers(s)
    PROVE  /\ declined \subseteq declined' /\ \A a : Waiting(a) => Waiting(a)'
           /\ \A k \in 1..Len(s) : s[k] \notin SameAsSelf => Waiting(s[k])' \/ s[k] \in declined'
           /\ NumOutbound < MaxOutbound => \A k \in 1..Len(s) : s[k] \notin SameAsSelf => Waiting(s[k])'
<1>0. /\ queue' \in HandedTo(s) /\ NumOutbound \in Nat /\ MaxOutbound \in Nat
      /\ declined' = IF NumOutbound >= MaxOutbound THEN declined \cup Members(s) ELSE declined
  BY OutboundType, NoCost DEF DialPeers
<1>1. CASE NumOutbound >= MaxOutbound
  <2>1. UNCHANGED queue /\ declined' = declined \cup Members(s)
    BY <1>0, <1>1 DEF HandedTo
  <2>2. \A k \in 1..Len(s) : s[k] \in Members(s)
    BY DEF Members
  <2> QED
    BY <1>0, <1>1, <2>1, <2>2 DEF Waiting
<1>2. CASE NumOutbound < MaxOutbound
  <2>1. UNCHANGED declined /\ \E t \in OthersIn(s) : queue' = queue \o t
    BY <1>0, <1>2 DEF HandedTo
  <2>2. PICK t \in OthersIn(s) : queue' = queue \o t
    BY <2>1
  <2>3. t \in Seq(Addr) /\ \A k \in 1..Len(s) : s[k] \notin SameAsSelf => \E i \in 1..Len(t) : t[i] = s[k]
    BY <2>2, OthersKept
  <2>4. /\ Len(queue') = Len(queue) + Len(t) /\ Len(queue) \in Nat /\ Len(t) \in Nat
        /\ \A k \in 1..Len(queue) : queue'[k] = queue[k]
        /\ \A k \in 1..Len(t) : queue'[Len(queue) + k] = t[k] /\ Len(queue) + k \in 1..Len(queue')
    BY <2>2, <2>3, QueuedBehind
  <2>5. \A k \in 1..Len(queue) : k \in 1..Len(queue')
    BY <2>4
  <2> QED
    BY <2>1, <2>3, <2>4, <2>5 DEF Waiting
<1> QED
  BY <1>0, <1>1, <1>2

\* Whoever has an address in hand does not let go of it undialled.
LEMMA TriedKept ==
    ASSUME TriedInv, [Next]_vars, up, up', NEW a \in Addr \ SameAsSelf, Tried(a)
    PROVE  Tried(a)'
<1>0. queue \in Seq(Addr) /\ learnt \in [Id -> SUBSET Addr]
  BY DEF TriedInv, TypeInv, TypeOK
<1>1. CASE DialPop
  <2>1. UNCHANGED learnt /\ queue # <<>> /\ queue' = Tail(queue)
    BY <1>1 DEF DialPop
  <2>2. dialled \cup declined \subseteq (dialled \cup declined)' /\ Head(queue) \in (dialled \cup declined)'
    BY <1>1 DEF DialPop
  <2>3. /\ Len(queue') = Len(queue) - 1 /\ Len(queue) \in Nat /\ Head(queue) = queue[1]
        /\ \A j \in 1..Len(queue') : queue'[j] = queue[j + 1]
    BY <1>0, <2>1, HeadTailProperties
  <2>4. ASSUME NEW k \in 1..Len(queue), queue[k] = a, k # 1 PROVE Waiting(a)'
    <3>1. k - 1 \in 1..Len(queue') /\ (k - 1) + 1 = k
      BY <2>3, <2>4
    <3> QED
      BY <2>3, <2>4, <3>1 DEF Waiting
  <2>5. queue[1] = a => Tried(a)'
    BY <2>2, <2>3 DEF Tried
  <2> QED
    BY <2>1, <2>2, <2>4, <2>5 DEF Tried, Waiting
<1>2. ASSUME NEW j \in Id, NEW S \in Heard, Learn(j, S) PROVE Tried(a)'
  <2>1. UNCHANGED <<queue, dialled, declined>>
    BY <1>2 DEF Learn
  <2>2. learnt[j] = {} /\ (learnt' = learnt \/ learnt' = [learnt EXCEPT ![j] = S])
    BY <1>2 DEF Learn
  <2>3. \A i \in Id : learnt[i] \subseteq learnt'[i]
    BY <1>0, <2>2
  <2> QED
    BY <2>1, <2>3 DEF Tried, Waiting
<1>3. ASSUME NEW j \in Id, LearnDials(j) PROVE Tried(a)'
  <2>1. learnt[j] \in SUBSET Addr /\ learnt' = [learnt EXCEPT ![j] = {}] /\ UNCHANGED dialled
    BY <1>0, <1>3 DEF LearnDials
  <2>2. PICK s \in Sorted(learnt[j], [x \in learnt[j] |-> 0]) : DialPeers(s)
    BY <1>3 DEF LearnDials
  <2>3. s \in Seq(Addr) /\ \A x \in learnt[j] : \E k \in 1..Len(s) : s[k] = x
    BY <2>1, <2>2, BatchOrders
  <2>4. /\ declined \subseteq declined' /\ (Waiting(a) => Waiting(a)')
        /\ a \in learnt[j] => Waiting(a)' \/ a \in declined'
    BY <1>0, <2>2, <2>3, HandedAreTried
  <2>5. \A i \in Id \ {j} : learnt'[i] = learnt[i]
    BY <1>0, <2>1
  <2> QED
    BY <2>1, <2>4, <2>5 DEF Tried
<1>4. CASE UNCHANGED <<queue, dialled, declined, learnt>>
  BY <1>4 DEF Tried, Waiting
<1>5. ~Start /\ ~Stop /\ ~SweepHandOver
  BY DEF Start, Stop, SweepHandOver, TriedInv, Unswept
<1> QED
  BY <1>1, <1>2, <1>3, <1>4, <1>5
     DEF Next, DialReaches, DialFails, AddPeer, Visit, Leave, HangUp, SweepPlan, SweepMark, SweepDrop, Cycle, Tick, vars

\* What comes into the book has been dialled, or is in the hands of a handler.
LEMMA NewTried ==
    ASSUME Period = 0, TriedInv, [Next]_vars, up, up',
           NEW a \in Addr \ SameAsSelf, a \notin Held(peers), a \in Held(peers)'
    PROVE  Tried(a)'
<1>0. /\ peers \in Books /\ now \in Nat /\ peers[a] = NoRecord /\ peers'[a] # NoRecord
      /\ learnt \in [Id -> SUBSET Addr]
  BY DEF TriedInv, TypeInv, TypeOK, Held
<1>1. CASE AddPeer
  <2>1. /\ admissible(dial.addr) /\ peers' = Succeeded(peers, dial.addr, now)
        /\ dial.addr \in dialled /\ UNCHANGED dialled
    BY <1>0, <1>1 DEF AddPeer, TriedInv, HandIsDialled
  <2>2. dial.addr \in Addr
    BY <2>1, AddrAssumption DEF admissible
  <2>3. a = dial.addr
    BY <1>0, <2>1, <2>2, RecordsAfter
  <2> QED
    BY <2>1, <2>3 DEF Tried
<1>2. ASSUME NEW j \in Id, NEW S \in Heard, Learn(j, S) PROVE Tried(a)'
  <2>1. PICK D \in Evictable(Added(peers, S, now)) : peers' = Without(Added(peers, S, now), D)
    BY <1>2 DEF Learn
  <2>2. a \in S
    BY <1>0, <2>1 DEF Without, Added, Taken
  <2>3. learnt' = [learnt EXCEPT ![j] = S]
    BY <1>2 DEF Learn
  <2>4. a \in learnt'[j]
    BY <1>0, <2>2, <2>3
  <2> QED
    BY <2>4 DEF Tried
<1>3. ~SweepPlan /\ ~SweepMark /\ ~SweepDrop
  BY DEF SweepPlan, SweepMark, SweepDrop, TriedInv, Unswept
<1>4. ~UNCHANGED peers
  BY <1>0
<1> QED
  BY <1>1, <1>2, <1>3, <1>4
     DEF Next, Start, Stop, DialPop, DialReaches, DialFails, Visit, Leave, HangUp, SweepHandOver, LearnDials,
         Cycle, Tick, vars

\* Nothing is connected yet when the book is handed over, so all of it waits.
LEMMA StartTries ==
    ASSUME Period = 0, TriedInv, Start, NEW a \in Held(peers) \ SameAsSelf
    PROVE  Waiting(a)'
<1>1. PICK s \in AtStart : DialPeers(s)
  BY DEF Start
<1>2. s \in Seq(Addr) /\ (\E k \in 1..Len(s) : s[k] = a) /\ queue \in Seq(Addr)
  BY <1>1, StartTyped DEF TriedInv, TypeInv, TypeOK
<1>3. {i \in Id : conn[i].kind = "out"} = {}
  BY DEF TriedInv, DownIsAlone, Start
<1>4. NumOutbound = 0 /\ MaxOutbound \in Nat \ {0}
  BY <1>3, FS_EmptySet, CostTypes DEF NumOutbound
<1> QED
  BY <1>1, <1>2, <1>4, HandedAreTried

LEMMA TriedInvKept == ASSUME Period = 0 PROVE TriedInv /\ [Next]_vars => TriedInv'
<1> SUFFICES ASSUME TriedInv, [Next]_vars PROVE TriedInv'
  OBVIOUS
<1>1. TypeInv' /\ DownIsAlone' /\ Unswept' /\ HandIsDialled'
  BY TypeInvKept, DownStaysAlone, StaysUnswept, HandStaysDialled DEF TriedInv, TypeInv
<1>2. ASSUME up', NEW a \in Held(peers)' \ SameAsSelf PROVE Tried(a)'
  <2>1. a \in Addr
    BY DEF Held
  <2>2. CASE ~up
    <3>1. Start
      BY <1>2, <2>2 DEF Next, Stop, DialPop, DialReaches, DialFails, AddPeer, Visit, Leave, HangUp, SweepPlan, SweepMark,
                 SweepHandOver, SweepDrop, Learn, LearnDials, Cycle, Tick, vars
    <3>2. a \in Held(peers)
      BY <3>1 DEF Start, Held
    <3> QED
      BY <3>1, <3>2, StartTries DEF Tried
  <2>3. CASE up /\ a \in Held(peers)
    <3>1. Tried(a)
      BY <2>3 DEF TriedInv, AllTried
    <3> QED
      BY <1>2, <2>1, <2>3, <3>1, TriedKept
  <2>4. CASE up /\ a \notin Held(peers)
    BY <1>2, <2>1, <2>4, NewTried
  <2> QED
    BY <2>2, <2>3, <2>4
<1>3. AllTried'
  BY <1>2 DEF AllTried
<1> QED
  BY <1>1, <1>3 DEF TriedInv

\* KnownAreTried: without a sweep, whatever the limit, the visitors, the answers
\* and the restarts, every address the book holds has been dialled since the
\* process last started, or is in the hands of the switch or of the handler
\* that learnt it, or was declined by the switch, its node being connected or
\* the limit reached.
THEOREM KnownAreAllTried ==
    ASSUME Period = 0
    PROVE  Spec => []KnownAreTried
<1>1. Init => TriedInv
  <2> SUFFICES ASSUME Init PROVE TriedInv
    OBVIOUS
  <2>1. TypeInv
    BY TypeInvInit
  <2>2. up = FALSE /\ sweep.pc = "idle" /\ dial.pc = "idle" /\ \A i \in Id : conn[i].kind = "none"
    BY DEF Init, SweepIdle, DialIdle, NoConn
  <2> QED
    BY <2>1, <2>2 DEF TriedInv, DownIsAlone, HandIsDialled, Unswept, AllTried
<1>2. TriedInv => KnownAreTried
  <2> SUFFICES ASSUME TriedInv, up, NEW a \in Held(peers) \ SameAsSelf
               PROVE  \/ a \in dialled \cup declined
                      \/ \E k \in DOMAIN queue : queue[k] = a
                      \/ \E i \in Id : a \in learnt[i]
    BY DEF KnownAreTried
  <2>1. Tried(a) /\ DOMAIN queue = 1..Len(queue)
    BY DEF TriedInv, AllTried, TypeInv, TypeOK
  <2> QED
    BY <2>1 DEF Tried, Waiting
<1> QED
  BY <1>1, <1>2, TriedInvKept, PTL DEF Spec

-----------------------------------------------------------------------------
(* Marks and dials.  What a pass marks it hands over, and what it hands     *)
(* over is dialled: the failure the next mark deduces is one that happened. *)

\* The identities the addresses name.
Named == {IdOf[a] : a \in Addr}

\* A first start, on what has only been mentioned, with nobody connecting in
\* under an identity some address names.
FirstStart ==
    /\ OnPace /\ OwnIdentities /\ Visitors \cap Named = {}
    /\ \A b \in InitialBooks : \A a \in Held(b) : b[a].fails = 0 /\ b[a].lastTry = Never

Planned(a) == \E k \in 1..Len(sweep.batch) : sweep.batch[k] = a
ToMark(a) == \E k \in 1..Len(sweep.left) : sweep.left[k] = a
InHand(a) == dial.pc # "idle" /\ dial.addr = a

\* The dial the mark of an address stands for is still to come.
Pending(a) == (sweep.pc = "marking" /\ Planned(a) /\ ~ToMark(a)) \/ Waiting(a) \/ InHand(a)

\* What the next mark would make of the failures on record.
Owed(a) ==
    IF ~Pending(a) /\ peers[a].lastTry > peers[a].lastOK THEN peers[a].fails + 1 ELSE peers[a].fails
Blamed == \A a \in Held(peers) : Owed(a) <= lost[a] \/ lost[a] >= FailLimit

\* A pass begins with nothing to drop, and marks nothing twice.
FailsFit ==
    \A a \in Held(peers) :
        /\ peers[a].fails <= FailLimit
        /\ sweep.pc = "idle" \/ ToMark(a) => peers[a].fails < FailLimit

\* This node's own address is nowhere.
OthersOnly ==
    /\ Held(peers) \cap SameAsSelf = {}
    /\ \A a \in Addr : Planned(a) \/ Waiting(a) \/ InHand(a) => a \notin SameAsSelf

\* What is handed over is dialled: it names each address once, and none that
\* is connected by the time its turn comes.
HandsClean ==
    /\ Distinct(queue) /\ Distinct(sweep.batch)
    /\ \A a \in Addr : ToMark(a) => Planned(a)
    /\ \A a \in Addr : Waiting(a) => ~Connected(a) /\ ~InHand(a)
    /\ sweep.pc = "marking" => \A a \in Addr : Planned(a) => ~Connected(a)

DutyInv == TypeInv /\ PaceInv /\ BlameInv /\ OthersOnly /\ HandsClean /\ FailsFit /\ Blamed

\* The first of a sequence, and the others.
LEMMA TailOf ==
    ASSUME NEW q \in Seq(Addr), q # <<>>
    PROVE  /\ Tail(q) \in Seq(Addr) /\ Head(q) = q[1] /\ Head(q) \in Addr /\ 1 \in 1..Len(q)
           /\ \A k \in 1..Len(Tail(q)) : k + 1 \in 1..Len(q) /\ Tail(q)[k] = q[k + 1]
           /\ \A k \in 1..Len(q) : k # 1 => k - 1 \in 1..Len(Tail(q)) /\ Tail(q)[k - 1] = q[k]
           /\ Distinct(q) => Distinct(Tail(q)) /\ \A k \in 1..Len(Tail(q)) : Tail(q)[k] # Head(q)
<1>1. /\ Head(q) \in Addr /\ Tail(q) \in Seq(Addr) /\ Len(Tail(q)) = Len(q) - 1
      /\ \A k \in 1..Len(Tail(q)) : Tail(q)[k] = q[k + 1]
  BY HeadTailProperties
<1>2. Head(q) = q[1] /\ Len(q) \in Nat /\ 1 \in 1..Len(q)
  OBVIOUS
<1>3. \A k \in 1..Len(Tail(q)) : k + 1 \in 1..Len(q) /\ k + 1 # 1 /\ Tail(q)[k] = q[k + 1]
  BY <1>1, <1>2
<1>4. ASSUME NEW k \in 1..Len(q), k # 1 PROVE k - 1 \in 1..Len(Tail(q)) /\ Tail(q)[k - 1] = q[k]
  <2>1. k - 1 \in 1..Len(Tail(q)) /\ (k - 1) + 1 = k
    BY <1>1, <1>2, <1>4
  <2> QED
    BY <1>1, <2>1
<1>5. ASSUME Distinct(q) PROVE Distinct(Tail(q)) /\ \A k \in 1..Len(Tail(q)) : Tail(q)[k] # Head(q)
  <2>1. ASSUME NEW i \in 1..Len(Tail(q)), NEW j \in 1..Len(Tail(q)), i # j PROVE Tail(q)[i] # Tail(q)[j]
    <3>1. i + 1 \in 1..Len(q) /\ j + 1 \in 1..Len(q) /\ i + 1 # j + 1
      BY <1>3, <2>1
    <3> QED
      BY <1>3, <1>5, <3>1 DEF Distinct
  <2>2. \A k \in 1..Len(Tail(q)) : Tail(q)[k] # Head(q)
    BY <1>2, <1>3, <1>5 DEF Distinct
  <2> QED
    BY <2>1, <2>2 DEF Distinct
<1> QED
  BY <1>1, <1>2, <1>3, <1>4, <1>5

\* The queue loses its head to the dial loop, and gains what a pass hands over
\* when it is empty.
LEMMA QueueStep ==
    ASSUME OnPace, TypeInv, PaceInv, [Next]_vars
    PROVE  \/ UNCHANGED queue
           \/ DialPop /\ queue' = Tail(queue) /\ queue # <<>> /\ queue \in Seq(Addr)
           \/ /\ SweepHandOver /\ queue = <<>> /\ dial.pc = "idle" /\ sweep.batch \in Seq(Addr)
              /\ queue' \in OthersIn(sweep.batch)
<1>1. CASE Start
  <2>1. queue = <<>> /\ queue' = <<>>
    BY <1>1, StartHandsNothing
  <2> QED
    BY <2>1
<1>2. CASE SweepHandOver
  BY <1>2, PassHandsOver DEF PaceInv
<1>3. CASE DialPop
  BY <1>3 DEF DialPop, TypeInv, TypeOK
<1>4. ASSUME NEW j \in Id, NEW S \in Heard, Learn(j, S) PROVE UNCHANGED queue
  BY <1>4 DEF Learn
<1>5. ~Stop /\ \A j \in Id : ~LearnDials(j)
  BY DEF OnPace, Stop, LearnDials
<1> QED
  BY <1>1, <1>2, <1>3, <1>4, <1>5
     DEF Next, DialReaches, DialFails, AddPeer, Visit, Leave, HangUp, SweepPlan, SweepMark, SweepDrop,
         Cycle, Tick, vars

\* How the sweep moves, and that it moves alone.
LEMMA SweepStep ==
    ASSUME OnPace, TypeInv, [Next]_vars
    PROVE  \/ UNCHANGED sweep /\ ~SweepPlan /\ ~SweepMark
           \/ SweepPlan
           \/ SweepMark /\ sweep.pc = "marking" /\ sweep'.pc = "marking" /\ sweep'.batch = sweep.batch
              /\ sweep.left # <<>> /\ sweep.left \in Seq(Addr) /\ sweep'.left = Tail(sweep.left)
           \/ SweepHandOver /\ sweep.pc = "marking" /\ sweep.left = <<>> /\ sweep' = [SweepIdle EXCEPT !.pc = "dropping"]
           \/ SweepDrop /\ sweep.pc = "dropping" /\ sweep' = SweepIdle
<1>1. sweep \in SweepStates
  BY DEF TypeInv, TypeOK
<1>2. CASE SweepMark
  BY <1>1, <1>2 DEF SweepMark, SweepStates
<1>3. CASE SweepHandOver \/ SweepDrop
  BY <1>3 DEF SweepHandOver, SweepDrop
<1>4. ~Stop /\ \A j \in Id : ~LearnDials(j)
  BY DEF OnPace, Stop, LearnDials
<1>5. ASSUME NEW j \in Id, NEW S \in Heard, Learn(j, S) PROVE UNCHANGED sweep
  BY <1>5 DEF Learn
<1>6. ASSUME NEW i \in Id, Visit(i) \/ Leave(i) \/ HangUp(i) PROVE UNCHANGED sweep
  BY <1>6 DEF Visit, Leave, HangUp
<1> QED
  BY <1>2, <1>3, <1>4, <1>5, <1>6
     DEF Next, Start, DialPop, DialReaches, DialFails, AddPeer, Cycle, Tick, vars

\* A node is only newly connected by the dial of its address.
LEMMA NewLinks ==
    ASSUME OwnIdentities, Visitors \cap Named = {}, TypeOK, [Next]_vars, NEW a \in Addr, Connected(a)', ~Connected(a)
    PROVE  DialReaches /\ InHand(a)
<1>0. conn \in [Id -> Conns] /\ NoConn.kind = "none" /\ IdOf[a] \in Id /\ IdOf[a] \in Named /\ IdOf[a] \notin Visitors
  BY AnswersAssumption DEF TypeOK, NoConn, Named
<1>1. conn'[IdOf[a]] # conn[IdOf[a]] /\ conn'[IdOf[a]] # NoConn
  BY <1>0 DEF Connected
<1>2. CASE DialReaches
  <2>1. /\ conn' = [conn EXCEPT ![IdOf[dial.addr]] = [kind |-> "out", addr |-> dial.addr, since |-> now]]
        /\ dial.pc = "dialing" /\ dial.addr \in Addr
    BY <1>2, SweepAssumption DEF DialReaches
  <2>2. IdOf[a] = IdOf[dial.addr]
    BY <1>0, <1>1, <2>1
  <2>3. a = dial.addr
    BY <2>1, <2>2 DEF OwnIdentities
  <2> QED
    BY <1>2, <2>1, <2>3 DEF InHand
<1>3. ASSUME NEW i \in Id, Visit(i) PROVE FALSE
  BY <1>0, <1>1, <1>3 DEF Visit
<1>4. ASSUME NEW i \in Id, Leave(i) \/ HangUp(i) PROVE FALSE
  BY <1>0, <1>1, <1>4 DEF Leave, HangUp
<1>5. ~Stop /\ ~Cycle
  BY <1>0, <1>1 DEF Stop, Cycle
<1>6. conn' # conn
  BY <1>1
<1> QED
  BY <1>2, <1>3, <1>4, <1>5, <1>6
     DEF Next, Start, DialPop, DialFails, AddPeer, SweepPlan, SweepMark, SweepHandOver, SweepDrop,
         Learn, LearnDials, Tick, vars

LEMMA DialStep ==
    ASSUME OnPace, TypeOK, [Next]_vars
    PROVE  \/ UNCHANGED dial
           \/ DialPop /\ dial.pc = "idle" /\ dial'.addr = Head(queue) /\ dial'.pc = "dialing"
           \/ DialReaches /\ dial.pc = "dialing" /\ dial'.pc = "adding" /\ dial'.addr = dial.addr
           \/ (DialFails \/ AddPeer) /\ dial.pc # "idle" /\ dial'.pc = "idle"
<1>1. CASE DialPop
  BY <1>1 DEF DialPop
<1>2. CASE DialReaches
  BY <1>2 DEF DialReaches, TypeOK, DialStates
<1>3. CASE DialFails \/ AddPeer
  BY <1>3 DEF DialFails, AddPeer, DialIdle
<1>4. ~Stop
  BY DEF OnPace, Stop
<1> QED
  BY <1>1, <1>2, <1>3, <1>4
     DEF Next, Start, Visit, Leave, HangUp, SweepPlan, SweepMark, SweepHandOver, SweepDrop, Learn, LearnDials,
         Cycle, Tick, vars

\* Where what waits after a step was before it.
LEMMA WaitingStep ==
    ASSUME OnPace, TypeInv, PaceInv, HandsClean, [Next]_vars, NEW a \in Addr, Waiting(a)'
    PROVE  \/ Waiting(a) /\ (DialPop => a # Head(queue))
           \/ /\ SweepHandOver /\ sweep.pc = "marking" /\ dial.pc = "idle" /\ Planned(a)
              /\ a \notin SameAsSelf
<1>1. CASE UNCHANGED queue
  <2>1. Waiting(a)
    BY <1>1 DEF Waiting
  <2>2. ASSUME DialPop PROVE FALSE
    <3>1. queue' = Tail(queue) /\ queue # <<>> /\ queue \in Seq(Addr)
      BY <2>2 DEF DialPop, TypeInv, TypeOK
    <3>2. Len(Tail(queue)) = Len(queue) - 1 /\ Len(queue) \in Nat
      BY <3>1, HeadTailProperties
    <3> QED
      BY <1>1, <3>1, <3>2
  <2> QED
    BY <2>1, <2>2
<1>2. CASE DialPop /\ queue' = Tail(queue) /\ queue # <<>> /\ queue \in Seq(Addr)
  <2>1. /\ \A k \in 1..Len(Tail(queue)) : k + 1 \in 1..Len(queue) /\ Tail(queue)[k] = queue[k + 1]
        /\ \A k \in 1..Len(Tail(queue)) : Tail(queue)[k] # Head(queue)
    BY <1>2, TailOf DEF HandsClean
  <2> QED
    BY <1>2, <2>1 DEF Waiting
<1>3. CASE /\ SweepHandOver /\ queue = <<>> /\ dial.pc = "idle" /\ sweep.batch \in Seq(Addr)
           /\ queue' \in OthersIn(sweep.batch)
  <2>1. \A i \in 1..Len(queue') : queue'[i] \notin SameAsSelf /\ \E k \in 1..Len(sweep.batch) : queue'[i] = sweep.batch[k]
    BY <1>3, OthersKept
  <2> QED
    BY <1>3, <2>1 DEF Waiting, Planned, SweepHandOver
<1> QED
  BY <1>1, <1>2, <1>3, QueueStep

\* A dial that is still to come is still to come, unless it just ended.
LEMMA PendingKept ==
    ASSUME OnPace, TypeInv, PaceInv, HandsClean, [Next]_vars,
           NEW a \in Addr \ SameAsSelf, Pending(a), ~((DialFails \/ AddPeer) /\ dial.addr = a)
    PROVE  Pending(a)'
<1>1. CASE sweep.pc = "marking" /\ Planned(a) /\ ~ToMark(a)
  <2>1. CASE UNCHANGED sweep
    BY <1>1, <2>1 DEF Pending, Planned, ToMark
  <2>2. CASE SweepMark /\ sweep.left # <<>> /\ sweep'.pc = "marking" /\ sweep'.batch = sweep.batch
             /\ sweep.left \in Seq(Addr) /\ sweep'.left = Tail(sweep.left)
    <3>1. \A k \in 1..Len(sweep'.left) : k + 1 \in 1..Len(sweep.left) /\ sweep'.left[k] = sweep.left[k + 1]
      BY <2>2, TailOf
    <3>2. ~ToMark(a)'
      BY <1>1, <3>1 DEF ToMark
    <3> QED
      BY <1>1, <2>2, <3>2 DEF Pending, Planned
  <2>3. CASE SweepHandOver
    <3>1. sweep.batch \in Seq(Addr) /\ (sweep.batch # <<>> => queue' \in OthersIn(sweep.batch))
      BY <2>3, PassHandsOver DEF PaceInv
    <3>2. PICK k \in 1..Len(sweep.batch) : sweep.batch[k] = a
      BY <1>1 DEF Planned
    <3>3. sweep.batch # <<>>
      BY <3>2
    <3>4. \E i \in 1..Len(queue') : queue'[i] = a
      BY <3>1, <3>2, <3>3, OthersKept
    <3> QED
      BY <3>4 DEF Pending, Waiting
  <2>4. ~SweepPlan /\ ~(SweepDrop /\ sweep.pc = "dropping")
    BY <1>1 DEF SweepPlan
  <2> QED
    BY <2>1, <2>2, <2>3, <2>4, SweepStep
<1>2. CASE Waiting(a)
  <2>1. CASE UNCHANGED queue
    BY <1>2, <2>1 DEF Pending, Waiting
  <2>2. CASE DialPop /\ queue' = Tail(queue) /\ queue # <<>> /\ queue \in Seq(Addr)
    <3>1. PICK k \in 1..Len(queue) : queue[k] = a
      BY <1>2 DEF Waiting
    <3>2. CASE k = 1
      <4>1. Head(queue) = a
        BY <2>2, <3>1, <3>2, TailOf
      <4>2. ~Connected(a)
        BY <1>2 DEF HandsClean
      <4>3. dial' = [pc |-> "dialing", addr |-> a, since |-> now]
        BY <2>2, <4>1, <4>2 DEF DialPop
      <4> QED
        BY <4>3 DEF Pending, InHand
    <3>3. CASE k # 1
      <4>1. k - 1 \in 1..Len(Tail(queue)) /\ Tail(queue)[k - 1] = queue[k]
        BY <2>2, <3>1, <3>3, TailOf
      <4> QED
        BY <2>2, <3>1, <4>1 DEF Pending, Waiting
    <3> QED
      BY <3>2, <3>3
  <2>3. CASE queue = <<>>
    BY <1>2, <2>3 DEF Waiting
  <2> QED
    BY <2>1, <2>2, <2>3, QueueStep
<1>3. CASE InHand(a)
  <2>1. InHand(a)'
    BY <1>3, DialStep DEF InHand, TypeInv
  <2> QED
    BY <2>1 DEF Pending
<1> QED
  BY <1>1, <1>2, <1>3 DEF Pending

LEMMA HandsCleanKept ==
    ASSUME FirstStart, TypeInv, PaceInv, HandsClean, [Next]_vars
    PROVE  HandsClean'
<1>0. /\ OnPace /\ OwnIdentities /\ Visitors \cap Named = {} /\ TypeOK /\ SweepTypes /\ Distinct(sweep.left)
      /\ (sweep.pc = "marking" => dial.pc = "idle")
  BY DEF FirstStart, TypeInv, PaceInv, MarkingAlone
\* A pass as it is planned, and as it ends.
<1>1. ASSUME SweepPlan
      PROVE  /\ sweep'.batch = sweep'.left /\ Distinct(sweep'.left)
             /\ \A k \in 1..Len(sweep'.left) : ~Connected(sweep'.left[k])
             /\ UNCHANGED conn
  BY <1>0, <1>1, PlanTyped DEF SweepPlan
<1>2. ASSUME sweep' = SweepIdle \/ sweep' = [SweepIdle EXCEPT !.pc = "dropping"]
      PROVE  sweep'.batch = <<>> /\ sweep'.left = <<>> /\ sweep'.pc # "marking" /\ Distinct(<<>>)
  BY <1>2 DEF SweepIdle, Distinct
<1>3. Distinct(queue')
  <2>1. CASE UNCHANGED queue
    BY <2>1 DEF HandsClean
  <2>2. CASE queue' = Tail(queue) /\ queue # <<>> /\ queue \in Seq(Addr)
    BY <2>2, TailOf DEF HandsClean
  <2>3. CASE sweep.batch \in Seq(Addr) /\ queue' \in OthersIn(sweep.batch)
    BY <2>3, OthersKept DEF HandsClean
  <2> QED
    BY <1>0, <2>1, <2>2, <2>3, QueueStep
<1>4. Distinct(sweep'.batch)
  BY <1>0, <1>1, <1>2, SweepStep DEF HandsClean
<1>5. ASSUME NEW a \in Addr, ToMark(a)' PROVE Planned(a)'
  <2>1. CASE UNCHANGED sweep
    BY <1>5, <2>1 DEF HandsClean, ToMark, Planned
  <2>2. CASE SweepMark /\ sweep.left # <<>> /\ sweep'.batch = sweep.batch
             /\ sweep.left \in Seq(Addr) /\ sweep'.left = Tail(sweep.left)
    <3>1. \A k \in 1..Len(sweep'.left) : k + 1 \in 1..Len(sweep.left) /\ sweep'.left[k] = sweep.left[k + 1]
      BY <2>2, TailOf
    <3>2. ToMark(a)
      BY <1>5, <3>1 DEF ToMark
    <3> QED
      BY <2>2, <3>2 DEF HandsClean, Planned
  <2>3. CASE SweepPlan
    BY <1>1, <1>5, <2>3 DEF ToMark, Planned
  <2>4. CASE sweep'.left = <<>>
    BY <1>5, <2>4 DEF ToMark
  <2> QED
    BY <1>0, <1>2, <2>1, <2>2, <2>3, <2>4, SweepStep
<1>6. ASSUME NEW a \in Addr, Waiting(a)' PROVE ~Connected(a)' /\ ~InHand(a)'
  <2>1. CASE Waiting(a) /\ (DialPop => a # Head(queue))
    <3>1. ~Connected(a) /\ ~InHand(a)
      BY <2>1 DEF HandsClean
    <3>2. ~Connected(a)'
      BY <1>0, <3>1, NewLinks
    <3>3. ~InHand(a)'
      BY <1>0, <2>1, <3>1, DialStep DEF InHand
    <3> QED
      BY <3>2, <3>3
  <2>2. CASE SweepHandOver /\ sweep.pc = "marking" /\ dial.pc = "idle" /\ Planned(a)
    <3>1. ~Connected(a) /\ UNCHANGED <<conn, dial>>
      BY <2>2 DEF HandsClean, SweepHandOver
    <3> QED
      BY <2>2, <3>1 DEF Connected, InHand
  <2> QED
    BY <1>0, <1>6, <2>1, <2>2, WaitingStep
<1>7. ASSUME sweep'.pc = "marking", NEW a \in Addr, Planned(a)' PROVE ~Connected(a)'
  <2>1. CASE SweepPlan
    BY <1>1, <1>7, <2>1 DEF Planned, Connected
  <2>2. ASSUME sweep.pc = "marking", sweep'.batch = sweep.batch PROVE ~Connected(a)'
    <3>1. ~Connected(a) /\ ~InHand(a)
      BY <1>0, <1>7, <2>2 DEF HandsClean, Planned, InHand
    <3> QED
      BY <1>0, <3>1, NewLinks
  <2> QED
    BY <1>0, <1>2, <1>7, <2>1, <2>2, SweepStep
<1> QED
  BY <1>3, <1>4, <1>5, <1>6, <1>7 DEF HandsClean

\* The step that marks an address, at the head of what is left to mark.
Marks(a) == SweepMark /\ admissible(a) /\ a = Head(sweep.left)
KeptRecord(a) ==
    /\ a \in Held(peers) /\ peers'[a].fails = peers[a].fails
    /\ peers'[a].lastTry = peers[a].lastTry /\ peers'[a].lastOK = peers[a].lastOK
WipedRecord(a) == peers'[a].fails = 0 /\ peers'[a].lastTry <= peers'[a].lastOK

\* Any other step leaves what bears on failures alone, or wipes it out.
LEMMA RecordStep ==
    ASSUME TypeInv, [Next]_vars, NEW a \in Held(peers)', ~Marks(a)
    PROVE  KeptRecord(a) \/ WipedRecord(a)
<1>0. /\ peers \in Books /\ now \in Nat /\ SweepTypes /\ Distinct(sweep.left) /\ a \in Addr
      /\ peers'[a] # NoRecord /\ (a \in Held(peers) <=> peers[a] # NoRecord)
  BY DEF TypeInv, SweepTypes, Held
<1>1. ASSUME peers'[a] = peers[a] PROVE KeptRecord(a)
  BY <1>0, <1>1 DEF KeptRecord
<1>2. CASE SweepMark
  <2> DEFINE h == Head(sweep.left)
  <2>1. h \in Addr /\ peers' = (IF admissible(h) THEN Attempted(peers, h, now) ELSE peers)
    BY <1>0, <1>2, MarkTyped DEF SweepMark
  <2>2. peers'[a] = peers[a]
    BY <1>0, <1>2, <2>1, RecordsAfter DEF Marks
  <2> QED
    BY <1>1, <2>2
<1>3. CASE AddPeer
  <2>1. CASE admissible(dial.addr)
    <3>1. dial.addr \in Addr /\ peers' = Succeeded(peers, dial.addr, now)
      BY <1>3, <2>1, AddrAssumption DEF admissible, AddPeer
    <3>2. CASE a = dial.addr
      BY <1>0, <3>1, <3>2, RecordsAfter DEF WipedRecord
    <3>3. CASE a # dial.addr
      <4>1. peers'[a] = peers[a]
        BY <1>0, <3>1, <3>3, RecordsAfter
      <4> QED
        BY <1>1, <4>1
    <3> QED
      BY <3>2, <3>3
  <2>2. CASE ~admissible(dial.addr)
    BY <1>1, <1>3, <2>2 DEF AddPeer
  <2> QED
    BY <2>1, <2>2
<1>4. CASE SweepPlan
  <2>1. PICK S \in SUBSET Held(peers) : peers' = Renewed(S)
    BY <1>0, <1>4, PlanTyped
  <2>2. peers'[a] = peers[a] \/ peers'[a] = Succeeded(peers, a, now)[a]
    BY <1>0, <2>1 DEF Renewed
  <2>3. CASE peers'[a] = Succeeded(peers, a, now)[a]
    BY <1>0, <2>3, RecordsAfter DEF WipedRecord
  <2> QED
    BY <1>1, <2>2, <2>3
<1>5. CASE SweepDrop
  BY <1>0, <1>1, <1>5 DEF SweepDrop, Without
<1>6. ASSUME NEW j \in Id, NEW S \in Heard, Learn(j, S) PROVE KeptRecord(a) \/ WipedRecord(a)
  <2>1. PICK D \in Evictable(Added(peers, S, now)) : peers' = Without(Added(peers, S, now), D)
    BY <1>6 DEF Learn
  <2>2. peers'[a] = Added(peers, S, now)[a]
    BY <1>0, <2>1 DEF Without
  <2>3. peers'[a] = peers[a] \/ peers'[a] = [Entry(peers, a, now) EXCEPT !.lastSeen = now]
    BY <1>0, <2>2 DEF Added
  <2>4. CASE a \in Held(peers) /\ peers'[a] = [Entry(peers, a, now) EXCEPT !.lastSeen = now]
    <3>1. peers'[a] = [peers[a] EXCEPT !.lastSeen = now] /\ peers[a] \in Record
      BY <1>0, <2>4, HeldRecords DEF Entry
    <3> QED
      BY <2>4, <3>1 DEF Record, KeptRecord
  <2>5. CASE a \notin Held(peers) /\ peers'[a] = [Entry(peers, a, now) EXCEPT !.lastSeen = now]
    BY <1>0, <2>5 DEF Entry, Mentioned, Never, WipedRecord
  <2> QED
    BY <1>1, <2>3, <2>4, <2>5
<1>7. CASE UNCHANGED peers
  BY <1>1, <1>7
<1> QED
  BY <1>2, <1>3, <1>4, <1>5, <1>6, <1>7
     DEF Next, Start, Stop, DialPop, DialReaches, DialFails, Visit, Leave, HangUp, SweepHandOver,
         LearnDials, Cycle, Tick, vars

\* A mark: of an address on the batch, with nothing to dial, that it takes off
\* what is left to mark; and what it deduces.
LEMMA MarkStep ==
    ASSUME TypeInv, PaceInv, HandsClean, NEW a \in Held(peers)', Marks(a)
    PROVE  /\ ~Pending(a) /\ ToMark(a) /\ Pending(a)' /\ ~ToMark(a)' /\ sweep'.pc = "marking" /\ UNCHANGED lost
           /\ a \in Held(peers) =>
                /\ peers[a].lastTry > peers[a].lastOK => peers'[a].fails <= peers[a].fails + 1
                /\ ~(peers[a].lastTry > peers[a].lastOK) => peers'[a].fails = peers[a].fails
           /\ a \notin Held(peers) => peers'[a].fails = 0
<1>0. /\ peers \in Books /\ now \in Nat /\ SweepTypes /\ Distinct(sweep.left) /\ a \in Addr
      /\ sweep \in SweepStates /\ sweep.left \in Seq(Addr) /\ (a \in Held(peers) <=> peers[a] # NoRecord)
  BY DEF TypeInv, TypeOK, SweepTypes, SweepStates, Held
<1>1. /\ sweep.pc = "marking" /\ sweep.left # <<>> /\ sweep' = [sweep EXCEPT !.left = Tail(sweep.left)]
      /\ a = Head(sweep.left) /\ peers' = Attempted(peers, a, now) /\ UNCHANGED <<queue, dial, lost>>
  BY DEF Marks, SweepMark
<1>2. sweep'.pc = "marking" /\ sweep'.batch = sweep.batch /\ sweep'.left = Tail(sweep.left)
  BY <1>0, <1>1 DEF SweepStates
<1>3. ToMark(a) /\ ~ToMark(a)'
  <2>1. /\ a = sweep.left[1] /\ 1 \in 1..Len(sweep.left)
        /\ \A k \in 1..Len(Tail(sweep.left)) : Tail(sweep.left)[k] # a
    BY <1>0, <1>1, TailOf
  <2> QED
    BY <1>2, <2>1 DEF ToMark
<1>4. Planned(a) /\ Planned(a)'
  BY <1>0, <1>2, <1>3 DEF HandsClean, Planned
<1>5. ~Pending(a)
  <2>1. queue = <<>> /\ dial.pc = "idle"
    BY <1>1 DEF PaceInv, MarkingAlone
  <2>2. ~Waiting(a) /\ ~InHand(a)
    BY <2>1 DEF Waiting, InHand
  <2> QED
    BY <1>3, <2>2 DEF Pending
<1>6. Pending(a)'
  BY <1>2, <1>3, <1>4 DEF Pending
<1>7. ASSUME a \in Held(peers)
      PROVE  /\ peers[a].lastTry > peers[a].lastOK => peers'[a].fails <= peers[a].fails + 1
             /\ ~(peers[a].lastTry > peers[a].lastOK) => peers'[a].fails = peers[a].fails
  <2>1. peers[a] \in Record /\ peers[a] # NoRecord
    BY <1>0, <1>7, HeldRecords
  <2>2. peers'[a].fails = peers[a].fails \/ peers'[a].fails = peers[a].fails + 1
    <3> DEFINE r == peers[a]
    <3>1. peers' = [peers EXCEPT ![a] = [r EXCEPT !.fails = IF r.lastTry # Never /\ r.lastTry > r.lastOK
                                                           THEN @ + 1 ELSE @, !.lastTry = now]]
      BY <1>1, <2>1 DEF Attempted, Entry
    <3>2. peers \in [Addr -> Record \cup {NoRecord}]
      BY <1>0 DEF Books
    <3>3. peers'[a] = [r EXCEPT !.fails = IF r.lastTry # Never /\ r.lastTry > r.lastOK
                                          THEN @ + 1 ELSE @, !.lastTry = now]
      BY <1>0, <3>1, <3>2
    <3> QED
      BY <2>1, <3>3 DEF Record
  <2>3. peers[a].fails \in Nat /\ peers[a].lastTry \in Nat /\ peers[a].lastOK \in Nat
    BY <2>1 DEF Record
  <2>4. ASSUME ~(peers[a].lastTry > peers[a].lastOK) PROVE peers'[a].fails = peers[a].fails
    <3>1. peers[a].lastTry <= peers[a].lastOK
      BY <2>3, <2>4
    <3> QED
      BY <1>0, <1>1, <2>1, <3>1, RecordsAfter
  <2> QED
    BY <2>2, <2>3, <2>4
<1>8. ASSUME a \notin Held(peers) PROVE peers'[a].fails = 0
  BY <1>0, <1>1, <1>8, RecordsAfter
<1> QED
  BY <1>1, <1>2, <1>3, <1>5, <1>6, <1>7, <1>8

LEMMA OthersOnlyKept ==
    ASSUME OnPace, TypeInv, PaceInv, HandsClean, OthersOnly, [Next]_vars
    PROVE  OthersOnly'
<1>0. TypeOK /\ SweepTypes /\ Distinct(sweep.left) /\ peers \in Books /\ now \in Nat
  BY DEF TypeInv, TypeOK
<1>1. ASSUME NEW a \in Held(peers)' PROVE a \notin SameAsSelf
  <2>0. a \in Addr /\ peers'[a] # NoRecord
    BY <1>1 DEF Held
  <2>1. CASE a \in Held(peers)
    BY <2>1 DEF OthersOnly
  <2>2. CASE peers[a] = NoRecord
    <3>1. CASE AddPeer
      <4>1. admissible(dial.addr) /\ peers' = Succeeded(peers, dial.addr, now) /\ dial.pc # "idle"
        BY <2>0, <2>2, <3>1 DEF AddPeer
      <4>2. dial.addr \in Addr
        BY <4>1, AddrAssumption DEF admissible
      <4>3. a = dial.addr
        BY <1>0, <2>0, <2>2, <4>1, <4>2, RecordsAfter
      <4> QED
        BY <2>0, <4>1, <4>3 DEF OthersOnly, InHand
    <3>2. CASE Marks(a)
      <4>1. ToMark(a)
        BY <1>1, <3>2, MarkStep
      <4> QED
        BY <2>0, <4>1 DEF HandsClean, OthersOnly
    <3>3. CASE SweepMark /\ ~Marks(a)
      <4>1. KeptRecord(a) \/ peers'[a] = peers[a]
        <5> DEFINE h == Head(sweep.left)
        <5>1. h \in Addr /\ peers' = (IF admissible(h) THEN Attempted(peers, h, now) ELSE peers)
          BY <1>0, <3>3, MarkTyped DEF SweepMark
        <5> QED
          BY <1>0, <2>0, <3>3, <5>1, RecordsAfter DEF Marks
      <4> QED
        BY <2>0, <2>2, <4>1 DEF KeptRecord, Held
    <3>4. CASE SweepPlan
      <4>1. PICK S \in SUBSET Held(peers) : peers' = Renewed(S)
        BY <1>0, <3>4, PlanTyped
      <4> QED
        BY <2>0, <2>2, <4>1 DEF Renewed, Held
    <3>5. CASE SweepDrop
      BY <2>0, <2>2, <3>5 DEF SweepDrop, Without
    <3>6. ASSUME NEW j \in Id, NEW S \in Heard, Learn(j, S) PROVE a \notin SameAsSelf
      <4>1. PICK D \in Evictable(Added(peers, S, now)) : peers' = Without(Added(peers, S, now), D)
        BY <3>6 DEF Learn
      <4>2. a \in Taken(S)
        BY <2>0, <2>2, <4>1 DEF Without, Added
      <4> QED
        BY <4>2 DEF Taken
    <3>7. ~UNCHANGED peers
      BY <2>0, <2>2
    <3> QED
      BY <3>1, <3>2, <3>3, <3>4, <3>5, <3>6, <3>7
         DEF Next, Start, Stop, DialPop, DialReaches, DialFails, Visit, Leave, HangUp, SweepHandOver,
             LearnDials, Cycle, Tick, vars
  <2> QED
    BY <2>0, <2>1, <2>2 DEF Held
<1>2. ASSUME NEW a \in Addr, Planned(a)' PROVE a \notin SameAsSelf
  <2>1. CASE sweep'.batch = sweep.batch
    BY <1>2, <2>1 DEF OthersOnly, Planned
  <2>2. CASE SweepPlan
    <3>1. sweep'.batch = sweep'.left /\ \A k \in 1..Len(sweep'.left) : sweep'.left[k] \in Held(peers)
      BY <1>0, <2>2, PlanTyped
    <3> QED
      BY <1>2, <3>1 DEF OthersOnly, Planned
  <2>3. CASE sweep'.batch = <<>>
    BY <1>2, <2>3 DEF Planned
  <2>4. SweepIdle.batch = <<>> /\ [SweepIdle EXCEPT !.pc = "dropping"].batch = <<>>
    BY DEF SweepIdle
  <2> QED
    BY <2>1, <2>2, <2>3, <2>4, SweepStep
<1>3. ASSUME NEW a \in Addr, Waiting(a)' PROVE a \notin SameAsSelf
  BY <1>3, WaitingStep DEF OthersOnly
<1>4. ASSUME NEW a \in Addr, InHand(a)' PROVE a \notin SameAsSelf
  <2>1. CASE InHand(a)
    BY <2>1 DEF OthersOnly
  <2>2. CASE DialPop /\ a = Head(queue)
    <3>1. a = queue[1] /\ 1 \in 1..Len(queue)
      BY <1>0, <2>2, TailOf DEF DialPop, TypeOK
    <3> QED
      BY <3>1 DEF OthersOnly, Waiting
  <2> QED
    BY <1>0, <1>4, <2>1, <2>2, DialStep DEF InHand
<1> QED
  BY <1>1, <1>2, <1>3, <1>4 DEF OthersOnly

LEMMA FailsFitKept ==
    ASSUME OnPace, TypeInv, PaceInv, HandsClean, FailsFit, [Next]_vars, NEW a \in Held(peers)'
    PROVE  /\ peers'[a].fails <= FailLimit
           /\ sweep'.pc = "idle" \/ ToMark(a)' => peers'[a].fails < FailLimit
<1>0. /\ FailLimit \in Nat \ {0} /\ a \in Addr /\ peers'[a] # NoRecord
      /\ (a \in Held(peers) => peers[a].fails \in Nat)
  <2>1. peers \in Books
    BY DEF TypeInv, TypeOK
  <2> QED
    BY <2>1, SweepAssumption, HeldRecords DEF Held, Record
<1>1. CASE Marks(a)
  <2>1. CASE a \in Held(peers)
    <3>1. ToMark(a) /\ ~ToMark(a)' /\ sweep'.pc = "marking"
          /\ (peers'[a].fails <= peers[a].fails + 1 \/ peers'[a].fails = peers[a].fails)
      BY <1>1, <2>1, MarkStep
    <3>2. peers[a].fails < FailLimit
      BY <2>1, <3>1 DEF FailsFit
    <3>3. peers'[a].fails \in Nat
      <4>1. peers' \in Books
        BY TypeInvKept DEF TypeInv, TypeOK
      <4> QED
        BY <4>1, HeldRecords DEF Record
    <3>4. peers'[a].fails <= FailLimit
      BY <1>0, <2>1, <3>1, <3>2, <3>3
    <3> QED
      BY <3>1, <3>4
  <2>2. CASE a \notin Held(peers)
    <3>1. peers'[a].fails = 0
      BY <1>1, <2>2, MarkStep
    <3> QED
      BY <1>0, <3>1
  <2> QED
    BY <2>1, <2>2
<1>2. CASE ~Marks(a) /\ WipedRecord(a)
  BY <1>0, <1>2 DEF WipedRecord
<1>3. CASE ~Marks(a) /\ KeptRecord(a)
  <2>1. /\ a \in Held(peers) /\ peers'[a].fails = peers[a].fails /\ peers[a].fails <= FailLimit
        /\ (sweep.pc = "idle" \/ ToMark(a) => peers[a].fails < FailLimit)
    BY <1>3 DEF KeptRecord, FailsFit
  <2>2. CASE UNCHANGED sweep
    BY <2>1, <2>2 DEF ToMark
  <2>3. CASE SweepPlan
    BY <2>1, <2>3 DEF SweepPlan
  <2>4. CASE sweep'.pc = "marking" /\ sweep.left # <<>> /\ sweep.left \in Seq(Addr) /\ sweep'.left = Tail(sweep.left)
    <3>1. \A k \in 1..Len(sweep'.left) : k + 1 \in 1..Len(sweep.left) /\ sweep'.left[k] = sweep.left[k + 1]
      BY <2>4, TailOf
    <3>2. ToMark(a)' => ToMark(a)
      BY <3>1 DEF ToMark
    <3> QED
      BY <2>1, <2>4, <3>2
  <2>5. CASE sweep' = [SweepIdle EXCEPT !.pc = "dropping"]
    <3>1. sweep'.pc = "dropping" /\ sweep'.left = <<>>
      BY <2>5 DEF SweepIdle
    <3>2. ~ToMark(a)'
      BY <3>1 DEF ToMark
    <3> QED
      BY <2>1, <3>1, <3>2
  <2>6. CASE SweepDrop
    <3>1. a \notin Failing(peers, FailLimit)
      BY <1>0, <2>6 DEF SweepDrop, Without
    <3>2. ~(peers[a].fails >= FailLimit)
      BY <1>0, <2>1, <3>1 DEF Failing
    <3> QED
      BY <1>0, <2>1, <3>2
  <2> QED
    BY <2>2, <2>3, <2>4, <2>5, <2>6, SweepStep
<1> QED
  BY <1>1, <1>2, <1>3, RecordStep

\* Failed dials are only counted, and only forgiven, at the address in hand.
LEMMA LostStep ==
    ASSUME TypeOK, [Next]_vars, NEW a \in Addr, ~((DialFails \/ AddPeer) /\ dial.addr = a)
    PROVE  lost'[a] = lost[a]
<1>0. lost \in [Addr -> Nat]
  BY DEF TypeOK
<1>1. CASE DialFails \/ AddPeer
  <2>1. dial.addr # a /\ (\/ lost' = [lost EXCEPT ![dial.addr] = AtMost(@ + 1, FailLimit)]
                          \/ lost' = [lost EXCEPT ![dial.addr] = 0])
    BY <1>1 DEF DialFails, AddPeer
  <2> QED
    BY <1>0, <2>1
<1>2. CASE UNCHANGED lost
  BY <1>2
<1> QED
  BY <1>1, <1>2
     DEF Next, Start, Stop, DialPop, DialReaches, Visit, Leave, HangUp, SweepPlan, SweepMark,
         SweepHandOver, SweepDrop, Learn, LearnDials, Cycle, Tick, vars

\* A failure on record, or about to be deduced, is one that happened.
LEMMA BlamedKept ==
    ASSUME OnPace, TypeInv, PaceInv, HandsClean, OthersOnly, OthersOnly', HeldAdmissible', Blamed, [Next]_vars,
           NEW a \in Held(peers)'
    PROVE  Owed(a)' <= lost'[a] \/ lost'[a] >= FailLimit
<1>0. /\ FailLimit \in Nat \ {0} /\ a \in Addr \ SameAsSelf /\ lost \in [Addr -> Nat] /\ lost' \in [Addr -> Nat]
      /\ lost[a] \in Nat /\ lost'[a] \in Nat /\ peers'[a] \in Record /\ admissible(a)
      /\ (a \in Held(peers) => peers[a] \in Record)
  <2>1. peers \in Books /\ peers' \in Books /\ lost \in [Addr -> Nat] /\ lost' \in [Addr -> Nat]
    BY TypeInvKept DEF TypeInv, TypeOK
  <2>2. peers'[a] \in Record /\ a \in Addr /\ (a \in Held(peers) => peers[a] \in Record)
    BY <2>1, HeldRecords
  <2> QED
    BY <2>1, <2>2, SweepAssumption DEF OthersOnly, HeldAdmissible, admissible
<1>1. peers'[a].fails \in Nat /\ (a \in Held(peers) => peers[a].fails \in Nat)
  BY <1>0 DEF Record
<1>2. CASE Marks(a)
  <2>1. /\ ~Pending(a) /\ Pending(a)' /\ lost' = lost
        /\ a \in Held(peers) =>
             /\ peers[a].lastTry > peers[a].lastOK => peers'[a].fails <= peers[a].fails + 1
             /\ ~(peers[a].lastTry > peers[a].lastOK) => peers'[a].fails = peers[a].fails
        /\ a \notin Held(peers) => peers'[a].fails = 0
    BY <1>2, MarkStep
  <2>2. Owed(a)' = peers'[a].fails
    BY <2>1 DEF Owed
  <2>3. CASE a \in Held(peers)
    <3>1. Owed(a) <= lost[a] \/ lost[a] >= FailLimit
      BY <2>3 DEF Blamed
    <3>2. Owed(a) \in Nat /\ Owed(a)' <= Owed(a)
      BY <1>1, <2>1, <2>2, <2>3 DEF Owed
    <3> QED
      BY <1>0, <1>1, <2>1, <2>2, <3>1, <3>2
  <2>4. CASE a \notin Held(peers)
    BY <1>0, <2>1, <2>2, <2>4
  <2> QED
    BY <2>3, <2>4
<1>3. CASE WipedRecord(a)
  <2>1. peers'[a].fails = 0 /\ ~(peers'[a].lastTry > peers'[a].lastOK)
    BY <1>0, <1>3 DEF WipedRecord, Record
  <2>2. Owed(a)' = 0
    BY <2>1 DEF Owed
  <2> QED
    BY <1>0, <2>2
<1>4. CASE KeptRecord(a) /\ ~WipedRecord(a)
  <2>1. /\ a \in Held(peers) /\ peers'[a].fails = peers[a].fails
        /\ peers'[a].lastTry = peers[a].lastTry /\ peers'[a].lastOK = peers[a].lastOK
    BY <1>4 DEF KeptRecord
  <2>2. Owed(a) <= lost[a] \/ lost[a] >= FailLimit
    BY <2>1 DEF Blamed
  <2>3. CASE AddPeer /\ dial.addr = a
    <3>1. peers' = Succeeded(peers, a, now) /\ peers \in Books /\ now \in Nat
      BY <1>0, <2>3 DEF AddPeer, TypeInv, TypeOK
    <3>2. WipedRecord(a)
      BY <1>0, <3>1, RecordsAfter DEF WipedRecord
    <3> QED
      BY <1>4, <3>2
  <2>4. CASE DialFails /\ dial.addr = a
    <3>1. Pending(a)
      BY <2>4 DEF DialFails, Pending, InHand
    <3>2. Owed(a) = peers[a].fails
      BY <3>1 DEF Owed
    <3>3. Owed(a)' \in Nat /\ Owed(a)' <= peers[a].fails + 1
      BY <1>1, <2>1 DEF Owed
    <3>4. lost'[a] = AtMost(lost[a] + 1, FailLimit)
      BY <1>0, <2>4 DEF DialFails
    <3>5. lost'[a] >= FailLimit \/ (lost'[a] = lost[a] + 1 /\ ~(lost[a] >= FailLimit))
      BY <1>0, <3>4 DEF AtMost
    <3> QED
      BY <1>0, <1>1, <2>1, <2>2, <3>2, <3>3, <3>5
  <2>5. CASE ~((DialFails \/ AddPeer) /\ dial.addr = a)
    <3>1. Pending(a) => Pending(a)'
      BY <1>0, <2>5, PendingKept
    <3>2. Owed(a)' \in Nat /\ Owed(a) \in Nat /\ Owed(a)' <= Owed(a)
      BY <1>1, <2>1, <3>1 DEF Owed
    <3>3. lost'[a] = lost[a]
      BY <1>0, <2>5, LostStep DEF TypeInv
    <3> QED
      BY <1>0, <2>2, <3>2, <3>3
  <2> QED
    BY <2>3, <2>4, <2>5
<1> QED
  BY <1>2, <1>3, <1>4, RecordStep

LEMMA DutyInvKept == ASSUME FirstStart PROVE DutyInv /\ [Next]_vars => DutyInv'
<1> SUFFICES ASSUME DutyInv, [Next]_vars PROVE DutyInv'
  OBVIOUS
<1>0. OnPace /\ TypeInv /\ PaceInv /\ BlameInv /\ OthersOnly /\ HandsClean /\ FailsFit /\ Blamed
  BY DEF DutyInv, FirstStart
<1>1. TypeInv' /\ PaceInv'
  BY <1>0, TypeInvKept, PaceKept
<1>2. BlameInv' /\ HeldAdmissible'
  BY <1>0, BlameKept DEF BlameInv
<1>3. OthersOnly' /\ HandsClean'
  BY <1>0, OthersOnlyKept, HandsCleanKept
<1>4. FailsFit'
  BY <1>0, FailsFitKept DEF FailsFit
<1>5. Blamed'
  BY <1>0, <1>2, <1>3, BlamedKept DEF Blamed
<1> QED
  BY <1>1, <1>2, <1>3, <1>4, <1>5 DEF DutyInv

LEMMA DutyInit == ASSUME FirstStart, Init PROVE DutyInv
<1>1. TypeInv /\ PaceInv /\ BlameInv
  BY TypeInvInit, PaceInit, BlameInit DEF FirstStart
<1>2. /\ queue = <<>> /\ dial.pc = "idle" /\ sweep.batch = <<>> /\ sweep.left = <<>> /\ sweep.pc = "idle"
      /\ Distinct(<<>>) /\ peers \in InitialBooks
  BY DEF Init, DialIdle, SweepIdle, Distinct
<1>3. \A a \in Addr : ~Planned(a) /\ ~ToMark(a) /\ ~Waiting(a) /\ ~InHand(a)
  BY <1>2 DEF Planned, ToMark, Waiting, InHand
<1>4. OthersOnly
  BY <1>2, <1>3, SweepAssumption DEF OthersOnly, Taken
<1>5. HandsClean
  BY <1>2, <1>3 DEF HandsClean
<1>6. \A a \in Held(peers) : a \in Addr /\ peers[a].fails = 0 /\ peers[a].lastTry = Never /\ peers[a].lastOK = Never
  BY <1>2 DEF FirstStart, OnPace, Reached, Held
<1>7. FailsFit
  BY <1>6, SweepAssumption DEF FailsFit
<1>8. Blamed
  <2>1. ASSUME NEW a \in Held(peers) PROVE Owed(a) = 0 /\ lost[a] = 0
    BY <1>6 DEF Owed, Init, Never
  <2> QED
    BY <2>1 DEF Blamed
<1> QED
  BY <1>1, <1>4, <1>5, <1>7, <1>8 DEF DutyInv

\* FailuresWereDialled: on a first start that keeps its pace, where every
\* address names a node of its own and those nodes do not connect in, no more
\* failures of an address are on record than its dials have failed since its
\* last success, though each is deduced from a mark made before the dial: no
\* batch is marked and then discarded, or queued where its turn never comes.
THEOREM FailuresAreDialled ==
    ASSUME FirstStart
    PROVE  Spec => []FailuresWereDialled
<1>1. Init => DutyInv
  BY DutyInit
<1>2. DutyInv => FailuresWereDialled
  <2> SUFFICES ASSUME DutyInv, NEW a \in Held(peers) PROVE peers[a].fails <= lost[a]
    BY DEF FailuresWereDialled
  <2>1. peers[a].fails \in Nat /\ lost[a] \in Nat /\ FailLimit \in Nat
    <3>1. peers \in Books /\ lost \in [Addr -> Nat]
      BY DEF DutyInv, TypeInv, TypeOK
    <3> QED
      BY <3>1, HeldRecords, SweepAssumption DEF Record
  <2>2. peers[a].fails <= FailLimit /\ (Owed(a) <= lost[a] \/ lost[a] >= FailLimit)
    BY DEF DutyInv, FailsFit, Blamed
  <2>3. Owed(a) \in Nat /\ peers[a].fails <= Owed(a)
    BY <2>1 DEF Owed
  <2> QED
    BY <2>1, <2>2, <2>3
<1> QED
  BY <1>1, <1>2, DutyInvKept, PTL DEF Spec
=============================================================================
