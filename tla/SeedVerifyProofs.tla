--------------------------- MODULE SeedVerifyProofs ---------------------------
(* What holds of the verification of a TM1 seed for any number of workers,  *)
(* receivers and addresses, and any windows: types, waits that survive the  *)
(* purge, verdicts that are about the address, and the freshness window.    *)
EXTENDS SeedVerify, FiniteSetTheorems, TLAPS

LEMMA ConstantTypes ==
    /\ Capacity \in Nat /\ VerdictTTL \in Nat
    /\ Period \in Nat /\ BackoffCap \in Nat /\ BackoffMaxShift \in Nat /\ Margin \in Nat \ {0}
<1>1. Cardinality(Worker) \in Nat
  BY VerifyAssumption, FS_CardinalityType
<1> QED
  BY <1>1, VerifyAssumption DEF Capacity, VerdictTTL

LEMMA RestingTypes == Resting \in Workers /\ Gone \in Workers
    BY DEF Resting, Gone, Workers, Stages, Via

LEMMA VerdictTypes ==
    /\ NoVerdict \notin Verdicts
    /\ \A v \in Verdicts : v # NoVerdict
<1>1. \A v \in Verdicts : v \in [age : Nat, fails : Nat, via : {"arrival", "sweep"}]
  BY ConstantTypes DEF Verdicts, Via
<1> QED
  BY <1>1, VerifyAssumption

\* freshWindow stays strictly below the period, and below it by the margin
\* whenever it is not zero (freshWindow's comment).
THEOREM FreshWindowFits ==
    ASSUME NEW period \in Nat
    PROVE  /\ freshWindow(period) \in Nat
           /\ freshWindow(period) > 0 => freshWindow(period) + Margin <= period
           /\ 2 * freshWindow(period) <= period
    BY ConstantTypes DEF freshWindow, Lesser

LEMMA WaitType == ASSUME NEW fails \in 0..BackoffMaxShift PROVE waitFor(fails) \in Nat
<1>1. 2^fails \in Nat
  BY ShiftAssumption
<1>2. backoffFor(fails) \in Nat
  BY <1>1, ConstantTypes DEF backoffFor, Lesser
<1> QED
  BY <1>2, FreshWindowFits, ConstantTypes DEF waitFor

\* backoffFor never exceeds its cap, however many failures.
LEMMA BackoffWithinCap ==
    ASSUME NEW fails \in 0..BackoffMaxShift PROVE backoffFor(fails) <= BackoffCap
<1>1. 2^fails \in Nat
  BY ShiftAssumption
<1> QED
  BY <1>1, ConstantTypes DEF backoffFor, Lesser

LEMMA FailsType ==
    ASSUME NEW v \in Verdicts \cup {NoVerdict} PROVE FailsAfter(v) \in 0..BackoffMaxShift
    BY ConstantTypes, VerdictTypes DEF FailsAfter, Fails, Lesser, Verdicts

\* A worker that goes on to a stage, or comes to rest, is still a worker.
LEMMA WorkerMoves ==
    ASSUME TypeOK, NEW w \in Worker, worker[w].pc \in Stages,
           NEW stage \in Stages, Goes(w, stage) \/ Rests(w)
    PROVE  worker' \in [Worker -> Workers]
<1>1. worker[w] \in Workers
  BY DEF TypeOK
<1>2. worker[w] \in [pc : Stages, addr : Addr, via : Via, since : Nat]
  BY <1>1 DEF Workers, Stages
<1>3. [worker[w] EXCEPT !.pc = stage] \in Workers
  BY <1>2 DEF Workers
<1>4. PICK r \in Workers : worker' = [worker EXCEPT ![w] = r]
  BY <1>3, RestingTypes DEF Goes, Rests
<1> QED
  BY <1>4 DEF TypeOK

\* What a worker in a stage holds.
LEMMA Working ==
    ASSUME TypeOK, NEW w \in Worker, worker[w].pc \in Stages
    PROVE  worker[w].addr \in Addr /\ worker[w].via \in Via /\ worker[w].since \in Nat
<1>1. worker[w] \in Workers
  BY DEF TypeOK
<1> QED
  BY <1>1 DEF Workers, Stages

\* A verdict, recorded.
LEMMA JudgedTypes ==
    ASSUME TypeOK, NEW a, NEW fails \in 0..BackoffMaxShift, NEW via \in Via, Judged(a, fails, via)
    PROVE  state' \in [Addr -> Verdicts \cup {NoVerdict}] /\ owed' \in [Addr -> Nat]
<1>1. [age |-> 0, fails |-> fails, via |-> via] \in Verdicts
  BY ConstantTypes DEF Verdicts
<1>2. PICK v \in Verdicts : state' = [state EXCEPT ![a] = v]
  BY <1>1 DEF Judged
<1>3. state' \in [Addr -> Verdicts \cup {NoVerdict}]
  BY <1>2 DEF TypeOK
<1>4. PICK n \in Nat : owed' = [owed EXCEPT ![a] = n]
  BY WaitType DEF Judged
<1>5. owed' \in [Addr -> Nat]
  BY <1>4 DEF TypeOK
<1> QED
  BY <1>3, <1>5

LEMMA OfferTyped ==
    ASSUME TypeOK, NEW e \in Offerers, OfferStep(e)
    PROVE  /\ queue' \in Seq(Offers) /\ Len(queue') <= Capacity
           /\ batch' \in [Offerers -> SUBSET Addr]
           /\ UNCHANGED <<phase, book, linked, state, worker, sweep, ticker, owed, silent>>
<1>1. CASE Abandon(e)
  BY <1>1 DEF TypeOK, Abandon
<1>2. ASSUME NEW a \in Addr, PassOver(e, a) \/ DropFull(e, a)
      PROVE  batch' \in [Offerers -> SUBSET Addr] /\ UNCHANGED queue
             /\ UNCHANGED <<phase, book, linked, state, worker, sweep, ticker, owed, silent>>
  BY <1>2 DEF TypeOK, PassOver, DropFull, Left
<1>3. ASSUME NEW a \in Addr, Enqueue(e, a)
      PROVE  /\ queue' \in Seq(Offers) /\ Len(queue') <= Capacity
             /\ batch' \in [Offerers -> SUBSET Addr]
             /\ UNCHANGED <<phase, book, linked, state, worker, sweep, ticker, owed, silent>>
  <2>1. Offer(e, a) \in Offers
    BY DEF Offer, Offers, Via
  <2>2. batch' \in [Offerers -> SUBSET Addr]
    BY <1>3 DEF TypeOK, Enqueue, Left
  <2>3. queue' \in Seq(Offers) /\ Len(queue') = Len(queue) + 1
    BY <1>3, <2>1 DEF TypeOK, Enqueue
  <2>4. Len(queue) \in Nat /\ Len(queue) < Capacity
    BY <1>3 DEF TypeOK, Enqueue
  <2> QED
    BY <1>3, <2>2, <2>3, <2>4, ConstantTypes DEF Enqueue
<1>4. queue \in Seq(Offers) /\ Len(queue) <= Capacity
  BY DEF TypeOK
<1> QED
  BY <1>1, <1>2, <1>3, <1>4 DEF OfferStep

\* Every variable keeps its type: one step per action.
LEMMA TypePreserved == TypeOK /\ [Next]_vars => TypeOK'
<1> SUFFICES ASSUME TypeOK, [Next]_vars PROVE TypeOK'
  OBVIOUS
<1> USE ConstantTypes
<1>1. CASE Start
  <2>1. worker' \in [Worker -> Workers]
    BY <1>1, RestingTypes DEF TypeOK, Start
  <2> QED
    BY <1>1, <2>1 DEF TypeOK, Start
<1>2. CASE StopBegins \/ StopEnds
  BY <1>2 DEF TypeOK, StopBegins, StopEnds
<1>3. CASE Tick
  <2>1. ASSUME NEW a \in Addr PROVE state'[a] \in Verdicts \cup {NoVerdict}
    <3>1. CASE state[a] = NoVerdict
      BY <1>3, <3>1 DEF Tick
    <3>2. CASE state[a] # NoVerdict
      <4>1. state[a] \in Verdicts
        BY <3>2 DEF TypeOK
      <4>2. Lesser(state[a].age + 1, VerdictTTL + 1) \in 0..VerdictTTL + 1
        BY <4>1 DEF Lesser, Verdicts
      <4>3. [state[a] EXCEPT !.age = Lesser(@ + 1, VerdictTTL + 1)] \in Verdicts
        BY <4>1, <4>2 DEF Verdicts
      <4> QED
        BY <1>3, <3>2, <4>3 DEF Tick
    <3> QED
      BY <3>1, <3>2
  <2>2. state' \in [Addr -> Verdicts \cup {NoVerdict}]
    BY <1>3, <2>1 DEF Tick
  <2>3. ASSUME NEW w \in Worker PROVE worker'[w] \in Workers
    <3>1. CASE At(w, "dialing")
      <4>1. worker[w] \in Workers /\ worker[w].pc = "dialing"
        BY <3>1 DEF TypeOK, At
      <4>2. worker[w] \in [pc : Stages, addr : Addr, via : Via, since : Nat]
        BY <4>1 DEF Workers
      <4>3. [worker[w] EXCEPT !.since = @ + 1] \in Workers
        BY <4>2 DEF Workers
      <4> QED
        BY <1>3, <3>1, <4>3 DEF Tick
    <3>2. CASE ~At(w, "dialing")
      BY <1>3, <3>2 DEF TypeOK, Tick
    <3> QED
      BY <3>1, <3>2
  <2>4. worker' \in [Worker -> Workers]
    BY <1>3, <2>3 DEF Tick
  <2>5. ticker' \in 0..Period
    BY <1>3 DEF TypeOK, Tick, NothingDue
  <2>6. owed' \in [Addr -> Nat]
    BY <1>3 DEF TypeOK, Tick
  <2> QED
    BY <1>3, <2>2, <2>4, <2>5, <2>6 DEF TypeOK, Tick
<1>4. ASSUME NEW r \in Receiver, NEW S \in Batches, Receive(r, S) PROVE TypeOK'
  <2>1. S \in SUBSET Addr /\ r \in Offerers
    BY VerifyAssumption DEF Offerers
  <2>2. batch' \in [Offerers -> SUBSET Addr]
    BY <1>4, <2>1 DEF TypeOK, Receive
  <2>3. book' \in [Addr -> {"absent", "held", "banned"}]
    BY <1>4 DEF TypeOK, Receive
  <2> QED
    BY <1>4, <2>2, <2>3 DEF TypeOK, Receive
<1>5. ASSUME NEW e \in Offerers, OfferStep(e) PROVE TypeOK'
  BY <1>5, OfferTyped DEF TypeOK
<1>6. CASE SweepBegins
  <2>1. state' \in [Addr -> Verdicts \cup {NoVerdict}]
    BY <1>6 DEF TypeOK, SweepBegins
  <2>2. batch' \in [Offerers -> SUBSET Addr]
    BY <1>6 DEF TypeOK, SweepBegins, Offerers
  <2> QED
    BY <1>6, <2>1, <2>2 DEF TypeOK, SweepBegins
<1>7. CASE SweepEnds \/ SweepQuits
  BY <1>7 DEF TypeOK, SweepEnds, SweepQuits
<1>8. ASSUME NEW w \in Worker, VerifyStep(w) \/ WorkerQuits(w) PROVE TypeOK'
  <2>1. CASE Take(w)
    <3>1. queue \in Seq(Offers) /\ queue # <<>>
      BY <2>1 DEF TypeOK, Take
    <3>2. Head(queue) \in Offers /\ Tail(queue) \in Seq(Offers) /\ Len(Tail(queue)) <= Len(queue)
      BY <3>1
    <3>3. PICK r \in Workers : worker' = [worker EXCEPT ![w] = r]
      BY <2>1, <3>2 DEF Take, Offers, Workers, Stages
    <3>4. worker' \in [Worker -> Workers]
      BY <3>3 DEF TypeOK
    <3>5. queue' \in Seq(Offers) /\ Len(queue') <= Capacity
      BY <2>1, <3>1, <3>2 DEF TypeOK, Take
    <3> QED
      BY <2>1, <3>4, <3>5 DEF TypeOK, Take
  <2>2. CASE WorkerQuits(w)
    <3>1. worker[w] \in Workers /\ worker[w].pc = "idle"
      BY <2>2 DEF TypeOK, WorkerQuits, At
    <3>2. [worker[w] EXCEPT !.pc = "gone"] \in Workers
      BY <3>1 DEF Workers, Stages
    <3>3. worker' \in [Worker -> Workers]
      BY <2>2, <3>2 DEF TypeOK, WorkerQuits, Goes
    <3> QED
      BY <2>2, <3>3 DEF TypeOK, WorkerQuits
  <2>3. CASE Consider(w) \/ Call(w) \/ DialAnswers(w)
    <3>1. worker' \in [Worker -> Workers]
      BY <2>3, WorkerMoves DEF Consider, Call, DialAnswers, Stages, At
    <3> QED
      BY <2>3, <3>1 DEF TypeOK, Consider, Call, DialAnswers
  <2>4. CASE DialErrs(w)
    <3>1. worker[w].pc \in Stages
      BY <2>4 DEF DialErrs, At, Stages
    <3>2. worker' \in [Worker -> Workers]
      BY <2>4, <3>1, WorkerMoves DEF DialErrs, Stages
    <3>3. silent' \subseteq Addr
      BY <2>4, <3>1, Working DEF TypeOK, DialErrs
    <3> QED
      BY <2>4, <3>2, <3>3 DEF TypeOK, DialErrs
  <2>5. CASE RecordFailure(w) \/ RecordSuccess(w)
    <3>1. worker[w].pc \in Stages
      BY <2>5 DEF RecordFailure, RecordSuccess, At, Stages
    <3>2. worker' \in [Worker -> Workers]
      BY <2>5, <3>1, WorkerMoves DEF RecordFailure, RecordSuccess
    <3>3. state[worker[w].addr] \in Verdicts \cup {NoVerdict}
      BY <3>1, Working DEF TypeOK
    <3>4. FailsAfter(state[worker[w].addr]) \in 0..BackoffMaxShift /\ 0 \in 0..BackoffMaxShift
      BY <3>3, FailsType
    <3>5. state' \in [Addr -> Verdicts \cup {NoVerdict}] /\ owed' \in [Addr -> Nat]
      BY <2>5, <3>1, <3>4, Working, JudgedTypes DEF RecordFailure, RecordSuccess
    <3> QED
      BY <2>5, <3>2, <3>5 DEF TypeOK, RecordFailure, RecordSuccess
  <2>6. CASE List(w)
    <3>1. worker' \in [Worker -> Workers]
      BY <2>6, WorkerMoves DEF List, Stages, At
    <3>2. book' \in [Addr -> {"absent", "held", "banned"}]
      BY <2>6 DEF TypeOK, List
    <3> QED
      BY <2>6, <3>1, <3>2 DEF TypeOK, List
  <2> QED
    BY <1>8, <2>1, <2>2, <2>3, <2>4, <2>5, <2>6 DEF VerifyStep
<1>9. ASSUME NEW a \in Addr, BookMoves(a) \/ Connects(a) \/ Leaves(a) PROVE TypeOK'
  <2>1. CASE BookMoves(a)
    BY <2>1 DEF TypeOK, BookMoves
  <2>2. CASE Connects(a) \/ Leaves(a)
    BY <2>2, VerifyAssumption DEF TypeOK, Connects, Leaves
  <2> QED
    BY <1>9, <2>1, <2>2
<1>10. CASE UNCHANGED vars
  BY <1>10 DEF TypeOK, vars
<1> QED
  BY <1>1, <1>2, <1>3, <1>4, <1>5, <1>6, <1>7, <1>8, <1>9, <1>10
     DEF Next, SweepStep, Offerers

LEMMA TypeInit == Init => TypeOK
<1> SUFFICES ASSUME Init PROVE TypeOK
  OBVIOUS
<1>1. queue \in Seq(Offers) /\ Len(queue) = 0
  BY DEF Init
<1> QED
  BY <1>1, ConstantTypes, RestingTypes DEF Init, TypeOK

\* TypeOK: the queue never holds more than its capacity, and a verdict's count
\* of failures never passes verifyBackoffMaxShift.
THEOREM VerifyTypeCorrect == Spec => []TypeOK
  BY TypeInit, TypePreserved, PTL DEF Spec

-----------------------------------------------------------------------------
(* Waits.                                                                  *)

\* What makes WaitOutlivesPurge inductive: as long as a wait is owed its
\* verdict is held, and is younger than that wait by what is owed.
OwedIsHeld ==
    \A a \in Addr : owed[a] > 0 =>
        state[a] # NoVerdict /\ state[a].age + owed[a] <= waitFor(state[a].fails)

\* No wait is longer than the age at which purge drops whatever it holds.
TTLCoversWaits == freshWindow(Period) <= VerdictTTL

LEMMA WaitsWithinTTL ==
    ASSUME TTLCoversWaits, NEW fails \in 0..BackoffMaxShift
    PROVE  waitFor(fails) <= VerdictTTL
    BY BackoffWithinCap, WaitType, ConstantTypes, VerifyAssumption
       DEF TTLCoversWaits, waitFor, VerdictTTL, backoffFor, Lesser

\* The steps that touch neither verdicts nor what is owed.
LEMMA ElsewhereUnchanged ==
    ASSUME TypeOK, [Next]_vars, ~SweepBegins, ~Tick,
           \A w \in Worker : ~RecordFailure(w) /\ ~RecordSuccess(w)
    PROVE  UNCHANGED <<state, owed>>
<1>1. ASSUME NEW e \in Offerers, OfferStep(e) PROVE UNCHANGED <<state, owed>>
  BY <1>1, OfferTyped
<1>2. ASSUME NEW w \in Worker, VerifyStep(w) PROVE UNCHANGED <<state, owed>>
  BY <1>2 DEF VerifyStep, Take, Consider, Call, DialErrs, DialAnswers, List
<1> QED
  BY <1>1, <1>2 DEF Next, SweepStep, Offerers, Start, StopBegins, StopEnds, Receive, SweepEnds,
     SweepQuits, WorkerQuits, BookMoves, Connects, Leaves, vars

LEMMA OwedPreserved ==
    TypeOK /\ OwedIsHeld /\ TTLCoversWaits /\ [Next]_vars => OwedIsHeld'
<1> SUFFICES ASSUME TypeOK, OwedIsHeld, TTLCoversWaits, [Next]_vars PROVE OwedIsHeld'
  OBVIOUS
<1> USE ConstantTypes
<1>1. \A a \in Addr : state[a] # NoVerdict =>
          state[a].age \in 0..VerdictTTL + 1 /\ waitFor(state[a].fails) \in Nat
          /\ waitFor(state[a].fails) <= VerdictTTL
  <2>1. \A a \in Addr : state[a] # NoVerdict =>
          state[a].age \in 0..VerdictTTL + 1 /\ state[a].fails \in 0..BackoffMaxShift
    BY DEF TypeOK, Verdicts
  <2> QED
    BY <2>1, WaitType, WaitsWithinTTL
<1>2. \A a \in Addr : owed[a] \in Nat
  BY DEF TypeOK
<1>3. CASE SweepBegins
  <2>1. ASSUME NEW a \in Addr, owed[a] > 0 PROVE a \notin Purgeable
    BY <1>1, <1>2, <2>1 DEF OwedIsHeld, Purgeable
  <2> QED
    BY <1>3, <2>1 DEF SweepBegins, OwedIsHeld
<1>4. CASE Tick
  <2>1. SUFFICES ASSUME NEW a \in Addr, owed'[a] > 0
                 PROVE  state'[a] # NoVerdict /\ state'[a].age + owed'[a] <= waitFor(state'[a].fails)
    BY DEF OwedIsHeld
  <2>2. owed[a] > 0 /\ owed'[a] = owed[a] - 1
    BY <1>2, <1>4, <2>1 DEF Tick
  <2>3. state[a] # NoVerdict /\ state[a].age + owed[a] <= waitFor(state[a].fails)
    BY <2>2 DEF OwedIsHeld
  <2>4. state[a] \in Verdicts
    BY <2>3 DEF TypeOK
  <2>5. /\ state'[a] = [state[a] EXCEPT !.age = Lesser(@ + 1, VerdictTTL + 1)]
        /\ state'[a].age = Lesser(state[a].age + 1, VerdictTTL + 1)
        /\ state'[a].fails = state[a].fails
    BY <1>4, <2>3, <2>4 DEF Tick, Verdicts
  <2>6. state'[a].age <= state[a].age + 1 /\ state'[a].age \in Nat
    BY <1>1, <2>3, <2>5 DEF Lesser
  <2>7. state'[a] \in Verdicts
    BY <2>4, <2>5, <2>6, <1>1, <2>3 DEF Verdicts, Lesser
  <2>8. state'[a].age + owed'[a] <= waitFor(state'[a].fails)
    BY <1>1, <1>2, <2>2, <2>3, <2>5, <2>6
  <2> QED
    BY <2>7, <2>8, VerdictTypes
<1>5. ASSUME NEW w \in Worker, RecordFailure(w) \/ RecordSuccess(w) PROVE OwedIsHeld'
  <2>1. worker[w].pc \in Stages
    BY <1>5 DEF RecordFailure, RecordSuccess, At, Stages
  <2>2. worker[w].addr \in Addr /\ worker[w].via \in Via
    BY <2>1, Working
  <2>3. FailsAfter(state[worker[w].addr]) \in 0..BackoffMaxShift /\ 0 \in 0..BackoffMaxShift
    BY <2>2, FailsType DEF TypeOK
  <2>4. PICK fails \in 0..BackoffMaxShift : Judged(worker[w].addr, fails, worker[w].via)
    BY <1>5, <2>3 DEF RecordFailure, RecordSuccess
  <2>5. [age |-> 0, fails |-> fails, via |-> worker[w].via] \in Verdicts
    BY <2>2 DEF Verdicts
  <2>6. waitFor(fails) \in Nat
    BY WaitType
  <2>7. ASSUME NEW a \in Addr, a # worker[w].addr
        PROVE  state'[a] = state[a] /\ owed'[a] = owed[a]
    BY <2>4, <2>7 DEF Judged, TypeOK
  <2>8. /\ state'[worker[w].addr] = [age |-> 0, fails |-> fails, via |-> worker[w].via]
        /\ owed'[worker[w].addr] = waitFor(fails)
    BY <2>2, <2>4 DEF Judged, TypeOK
  <2> QED
    BY <2>2, <2>5, <2>6, <2>7, <2>8, VerdictTypes DEF OwedIsHeld
<1>6. CASE ~SweepBegins /\ ~Tick /\ \A w \in Worker : ~RecordFailure(w) /\ ~RecordSuccess(w)
  <2>1. UNCHANGED <<state, owed>>
    BY <1>6, ElsewhereUnchanged
  <2> QED
    BY <2>1 DEF OwedIsHeld
<1> QED
  BY <1>3, <1>4, <1>5, <1>6

\* purge: whatever is dropped, no address is eligible before the wait its last
\* verdict imposed is over - as long as no proof is trusted for longer than
\* verifyStateTTL, which a peer_check_period above sixteen hours breaks.
THEOREM WaitsSurvive == ASSUME TTLCoversWaits PROVE Spec => []WaitOutlivesPurge
<1>1. Init => OwedIsHeld
  BY DEF Init, OwedIsHeld
<1>2. TypeOK /\ OwedIsHeld => WaitOutlivesPurge
  <2> SUFFICES ASSUME TypeOK, OwedIsHeld, NEW a \in Addr, owed[a] > 0 PROVE ~eligible(a)
    BY DEF WaitOutlivesPurge
  <2>1. state[a] # NoVerdict /\ state[a].age + owed[a] <= waitFor(state[a].fails)
    BY DEF OwedIsHeld
  <2>2. state[a].age \in Nat /\ state[a].fails \in 0..BackoffMaxShift /\ owed[a] \in Nat
    BY <2>1, ConstantTypes DEF TypeOK, Verdicts
  <2>3. waitFor(state[a].fails) \in Nat
    BY <2>2, WaitType
  <2> QED
    BY <2>1, <2>2, <2>3 DEF eligible
<1>3. TypeOK /\ OwedIsHeld /\ [Next]_vars => OwedIsHeld'
  BY OwedPreserved
<1> QED
  BY <1>1, <1>2, <1>3, VerifyTypeCorrect, PTL DEF Spec

-----------------------------------------------------------------------------
(* Verdicts.                                                               *)

\* What makes OnlySilentBlamed inductive: a worker about to record a failure
\* has had a dial that went unanswered.
FailedWereSilent == \A w \in Worker : worker[w].pc = "failed" => worker[w].addr \in silent
VerdictInv == OnlySilentBlamed /\ FailedWereSilent

LEMMA VerdictPreserved == TypeOK /\ VerdictInv /\ [Next]_vars => VerdictInv'
<1> SUFFICES ASSUME TypeOK, VerdictInv, [Next]_vars PROVE VerdictInv'
  OBVIOUS
<1> USE DEF VerdictInv
<1>1. ASSUME NEW e \in Offerers, OfferStep(e) PROVE VerdictInv'
  <2>1. UNCHANGED <<state, worker, silent>>
    BY <1>1, OfferTyped
  <2> QED
    BY <2>1 DEF OnlySilentBlamed, FailedWereSilent
<1>2. CASE SweepBegins
  BY <1>2 DEF SweepBegins, OnlySilentBlamed, FailedWereSilent
<1>3. CASE Tick
  <2>1. ASSUME NEW a \in Addr, state'[a] # NoVerdict
        PROVE  state[a] # NoVerdict /\ state'[a].fails = state[a].fails
    BY <1>3, <2>1 DEF Tick, TypeOK, Verdicts
  <2>2. \A w \in Worker : worker'[w].pc = worker[w].pc /\ worker'[w].addr = worker[w].addr
    BY <1>3 DEF Tick, TypeOK, Workers
  <2> QED
    BY <1>3, <2>1, <2>2 DEF Tick, OnlySilentBlamed, FailedWereSilent
<1>4. ASSUME NEW w \in Worker, RecordFailure(w) \/ RecordSuccess(w) PROVE VerdictInv'
  <2>1. worker[w].pc \in Stages
    BY <1>4 DEF RecordFailure, RecordSuccess, At, Stages
  <2>2. worker[w].addr \in Addr
    BY <2>1, Working
  <2>3. PICK fails : /\ Judged(worker[w].addr, fails, worker[w].via)
                     /\ fails = 0 \/ worker[w].addr \in silent
    BY <1>4 DEF RecordFailure, RecordSuccess, At, FailedWereSilent
  <2>4. ASSUME NEW a \in Addr, a # worker[w].addr PROVE state'[a] = state[a]
    BY <2>3, <2>4 DEF Judged, TypeOK
  <2>5. state'[worker[w].addr].fails = fails
    BY <2>2, <2>3 DEF Judged, TypeOK
  <2>6. UNCHANGED silent
    BY <1>4 DEF RecordFailure, RecordSuccess
  <2>7. FailedWereSilent'
    BY <1>4, <2>6 DEF FailedWereSilent, RecordFailure, RecordSuccess, Rests, Resting, TypeOK
  <2> QED
    BY <2>2, <2>3, <2>4, <2>5, <2>6, <2>7 DEF OnlySilentBlamed
<1>5. ASSUME NEW w \in Worker, DialErrs(w) PROVE VerdictInv'
  <2>1. UNCHANGED state /\ silent \subseteq silent'
    BY <1>5 DEF DialErrs
  <2>2. PICK error \in Errors :
            /\ IF conclusive(error) THEN Goes(w, "failed") ELSE Rests(w)
            /\ silent' = IF error = "unanswered" THEN silent \cup {worker[w].addr} ELSE silent
    BY <1>5 DEF DialErrs
  <2>3. ASSUME NEW v \in Worker, worker'[v].pc = "failed" PROVE worker'[v].addr \in silent'
    <3>1. CASE conclusive(error)
      <4>1. error = "unanswered"
        BY <2>2, <3>1 DEF Errors, conclusive
      <4> QED
        BY <2>1, <2>2, <2>3, <3>1, <4>1 DEF Goes, FailedWereSilent, TypeOK, Workers
    <3>2. CASE ~conclusive(error)
      BY <2>1, <2>2, <2>3, <3>2 DEF Rests, Resting, FailedWereSilent, TypeOK
    <3> QED
      BY <3>1, <3>2
  <2> QED
    BY <2>1, <2>3 DEF OnlySilentBlamed, FailedWereSilent
<1>6. ASSUME NEW w \in Worker,
             WorkerQuits(w) \/ Take(w) \/ Consider(w) \/ Call(w) \/ DialAnswers(w) \/ List(w)
      PROVE  VerdictInv'
  <2>1. UNCHANGED <<state, silent>>
    BY <1>6 DEF WorkerQuits, Take, Consider, Call, DialAnswers, List
  <2>2. PICK r : worker' = [worker EXCEPT ![w] = r] /\ r.pc # "failed"
    BY <1>6 DEF WorkerQuits, Take, Consider, Call, DialAnswers, List, Goes, Rests, Resting, TypeOK, Workers
  <2>3. FailedWereSilent'
    BY <2>1, <2>2 DEF FailedWereSilent, TypeOK
  <2> QED
    BY <2>1, <2>3 DEF OnlySilentBlamed
<1>7. CASE Start
  BY <1>7 DEF Start, OnlySilentBlamed, FailedWereSilent, Resting
<1>8. CASE StopBegins \/ StopEnds \/ SweepEnds \/ SweepQuits \/ UNCHANGED vars
  BY <1>8 DEF StopBegins, StopEnds, SweepEnds, SweepQuits, vars, OnlySilentBlamed, FailedWereSilent
<1>9. ASSUME NEW r \in Receiver, NEW S \in Batches, Receive(r, S) PROVE VerdictInv'
  BY <1>9 DEF Receive, OnlySilentBlamed, FailedWereSilent
<1>10. ASSUME NEW a \in Addr, BookMoves(a) \/ Connects(a) \/ Leaves(a) PROVE VerdictInv'
  BY <1>10 DEF BookMoves, Connects, Leaves, OnlySilentBlamed, FailedWereSilent
<1> QED
  BY <1>1, <1>2, <1>3, <1>4, <1>5, <1>6, <1>7, <1>8, <1>9, <1>10
     DEF Next, SweepStep, VerifyStep, Offerers

\* dialOutcome: an address that has answered every dial is never held to have
\* failed, however many workers, crawlers and connections collide on it.
THEOREM OnlySilentAreBlamed == Spec => []OnlySilentBlamed
<1>1. Init => VerdictInv
  BY DEF Init, VerdictInv, OnlySilentBlamed, FailedWereSilent, Gone, Resting
<1>2. VerdictInv => OnlySilentBlamed
  BY DEF VerdictInv
<1> QED
  BY <1>1, <1>2, VerdictPreserved, VerifyTypeCorrect, PTL DEF Spec

-----------------------------------------------------------------------------
(* The queue.  What a sweep queues is judged within the time that           *)
(* verifySweepMargin is an allowance for.                                   *)

\* What so many dials, one after the other, may take; and for how long a
\* worker may still be busy with the address it has.
Turns(n) == n * DialCost
Until(w) == IF worker[w].pc \in {"judging", "calling", "dialing"}
            THEN DialCost - worker[w].since ELSE 0

Elapsed == Period - ticker

\* The dials the pool is sure to begin before the last of QueuePerWorker turns
\* is over, counted from the last tick of the sweep: <<w, n>> is in it when
\* worker w, done with what it has, can make n dials and begin another.
Openings ==
    {s \in Worker \X (0..QueuePerWorker) : Until(s[1]) + Turns(s[2]) <= Turns(QueuePerWorker) - Elapsed}

\* The reactor has not been told to stop.
Active == phase \in {"new", "running"}

PoolWorks ==
    /\ phase = "new" => sweep = "gone"
    /\ phase = "running" /\ sweep # "gone" => \A w \in Worker : worker[w].pc # "gone"
SweepShape ==
    /\ sweep # "waiting" => ticker = Period
    /\ batch["sweep"] # {} => sweep = "offering"
SinceFits ==
    \A w \in Worker : worker[w].pc \in Stages =>
        worker[w].since <= DialCost /\ (worker[w].pc \in {"judging", "calling"} => worker[w].since = 0)

\* There is an opening for each address a sweep has queued, and for all those
\* before it; and one that has been taken is dialled before the turn after.
QueuedInTime ==
    Active => \A k \in 1..Len(queue) : queue[k].via = "sweep" => k <= Cardinality(Openings)
TakenInTime ==
    Active => \A w \in Worker : worker[w].pc \in Stages /\ worker[w].via = "sweep"
                => Elapsed + Until(w) <= Turns(QueuePerWorker + 1)

DrainInv == PoolWorks /\ SweepShape /\ SinceFits /\ QueuedInTime /\ TakenInTime

LEMMA TurnTypes ==
    /\ Turns(0) = 0 /\ DialCost \in Nat \ {0} /\ QueuePerWorker \in Nat \ {0}
    /\ \A n \in Nat : Turns(n) \in Nat /\ Turns(n + 1) = Turns(n) + DialCost
    /\ \A m, n \in Nat : m <= n => Turns(m) <= Turns(n)
<1>1. DialCost \in Nat \ {0} /\ QueuePerWorker \in Nat \ {0}
  BY VerifyAssumption
<1>2. ASSUME NEW n \in Nat
      PROVE  n * DialCost \in Nat /\ (n + 1) * DialCost = n * DialCost + DialCost
  <2>1. \A d \in Nat : n * d \in Nat /\ (n + 1) * d = n * d + d
    OBVIOUS
  <2> QED
    BY <1>1, <2>1
<1>3. ASSUME NEW m \in Nat, NEW n \in Nat, m <= n PROVE m * DialCost <= n * DialCost
  <2>1. PICK d \in Nat : n = m + d
    BY <1>3
  <2>2. n * DialCost = m * DialCost + d * DialCost
    BY <1>1, <2>1, SMT
  <2>3. d * DialCost \in Nat /\ m * DialCost \in Nat
    BY <1>2
  <2> QED
    BY <2>2, <2>3
<1> QED
  BY <1>1, <1>2, <1>3 DEF Turns

LEMMA UntilType ==
    ASSUME TypeOK, SinceFits, NEW w \in Worker
    PROVE  Until(w) \in 0..DialCost
<1>1. CASE worker[w].pc \in {"judging", "calling", "dialing"}
  <2>1. worker[w].pc \in Stages
    BY <1>1 DEF Stages
  <2>2. worker[w].since \in Nat /\ worker[w].since <= DialCost
    BY <2>1, Working DEF SinceFits
  <2>3. DialCost \in Nat
    BY TurnTypes
  <2>4. DialCost - worker[w].since \in 0..DialCost
    BY <2>2, <2>3
  <2> QED
    BY <1>1, <2>4 DEF Until
<1>2. CASE worker[w].pc \notin {"judging", "calling", "dialing"}
  BY <1>2, TurnTypes DEF Until
<1> QED
  BY <1>1, <1>2

LEMMA UntilNat == TypeOK /\ DrainInv => \A w \in Worker : Until(w) \in Nat
<1> SUFFICES ASSUME TypeOK, DrainInv, NEW w \in Worker PROVE Until(w) \in Nat
  OBVIOUS
<1>1. Until(w) \in 0..DialCost
  BY UntilType DEF DrainInv
<1> QED
  BY <1>1, TurnTypes

\* The last turn, and the one after it.
LEMMA LastTurns ==
    /\ QueuePerWorker \in Nat /\ DialCost \in Nat /\ Period \in Nat
    /\ Turns(QueuePerWorker) \in Nat /\ Turns(QueuePerWorker + 1) \in Nat
    /\ Turns(QueuePerWorker + 1) = Turns(QueuePerWorker) + DialCost
<1>1. QueuePerWorker \in Nat /\ DialCost \in Nat /\ Period \in Nat
  BY VerifyAssumption
<1>2. Turns(QueuePerWorker) \in Nat /\ Turns(QueuePerWorker + 1) = Turns(QueuePerWorker) + DialCost
  BY <1>1, TurnTypes
<1> QED
  BY <1>1, <1>2

LEMMA ElapsedType == TypeOK => Elapsed \in 0..Period
  BY ConstantTypes DEF TypeOK, Elapsed

LEMMA OpeningsFinite ==
    /\ IsFiniteSet(Openings) /\ Cardinality(Openings) \in Nat
    /\ \A S \in SUBSET Openings : IsFiniteSet(S) /\ Cardinality(S) <= Cardinality(Openings)
<1>1. IsFiniteSet(Worker) /\ IsFiniteSet(0..QueuePerWorker)
  BY VerifyAssumption, FS_Interval
<1>2. IsFiniteSet(Worker \X (0..QueuePerWorker))
  BY <1>1, FS_Product
<1>3. Openings \in SUBSET (Worker \X (0..QueuePerWorker))
  BY DEF Openings
<1>4. IsFiniteSet(Openings)
  BY <1>2, <1>3, FS_Subset
<1> QED
  BY <1>4, FS_Subset, FS_CardinalityType

\* An opening, by its two parts.
LEMMA OpeningParts ==
    /\ \A s \in Openings : s[1] \in Worker /\ s[2] \in 0..QueuePerWorker /\ s = <<s[1], s[2]>>
    /\ \A w \in Worker, n \in 0..QueuePerWorker :
         <<w, n>> \in Openings <=> Until(w) + Turns(n) <= Turns(QueuePerWorker) - Elapsed
<1>1. ASSUME NEW s \in Openings
      PROVE  s[1] \in Worker /\ s[2] \in 0..QueuePerWorker /\ s = <<s[1], s[2]>>
  <2>1. s \in Worker \X (0..QueuePerWorker)
    BY DEF Openings
  <2> QED
    BY <2>1
<1>2. ASSUME NEW w \in Worker, NEW n \in 0..QueuePerWorker
      PROVE  <<w, n>> \in Openings <=> Until(w) + Turns(n) <= Turns(QueuePerWorker) - Elapsed
  <2> DEFINE s == <<w, n>>
  <2>1. s \in Worker \X (0..QueuePerWorker) /\ s[1] = w /\ s[2] = n
    OBVIOUS
  <2> HIDE DEF s
  <2>2. s \in Openings <=> Until(s[1]) + Turns(s[2]) <= Turns(QueuePerWorker) - Elapsed
    BY <2>1 DEF Openings
  <2>3. s \in Openings <=> Until(w) + Turns(n) <= Turns(QueuePerWorker) - Elapsed
    BY <2>1, <2>2
  <2> QED
    BY <2>3 DEF s
<1> QED
  BY <1>1, <1>2

\* The same after a step.
LEMMA NextUntilType == TypeOK' /\ SinceFits' => (\A w \in Worker : Until(w) \in 0..DialCost)'
<1>1. TypeOK /\ SinceFits => (\A w \in Worker : Until(w) \in 0..DialCost)
  BY UntilType
<1> QED
  BY <1>1, PTL

LEMMA NextElapsedType == TypeOK' => (Elapsed \in 0..Period)'
  BY ElapsedType, PTL

LEMMA NextOpeningsFinite ==
    /\ IsFiniteSet(Openings)' /\ (Cardinality(Openings) \in Nat)'
    /\ (\A S \in SUBSET Openings : IsFiniteSet(S) /\ Cardinality(S) <= Cardinality(Openings))'
  BY OpeningsFinite, PTL

\* When the sweep begins, there is an opening for every place of the queue.
LEMMA RoomForAll ==
    ASSUME TypeOK, SinceFits, Elapsed = 0
    PROVE  Capacity <= Cardinality(Openings)
<1> DEFINE places == Worker \X (0..QueuePerWorker - 1)
<1>1. IsFiniteSet(Worker) /\ IsFiniteSet(0..QueuePerWorker - 1)
      /\ Cardinality(0..QueuePerWorker - 1) = QueuePerWorker
  <2>1. QueuePerWorker \in Nat \ {0}
    BY TurnTypes
  <2>2. 0 \in Int /\ QueuePerWorker - 1 \in Int /\ ~(0 > QueuePerWorker - 1)
        /\ (QueuePerWorker - 1) - 0 + 1 = QueuePerWorker
    BY <2>1
  <2> QED
    BY <2>2, VerifyAssumption, FS_Interval
<1>2. Cardinality(places) = Capacity
  BY <1>1, FS_Product DEF Capacity
<1>3. ASSUME NEW w \in Worker, NEW n \in 0..QueuePerWorker - 1 PROVE <<w, n>> \in Openings
  <2>1. n \in Nat /\ n + 1 <= QueuePerWorker /\ n \in 0..QueuePerWorker /\ n + 1 \in Nat
        /\ QueuePerWorker \in Nat
    BY TurnTypes
  <2>2. Turns(n) + DialCost <= Turns(QueuePerWorker) /\ Turns(n) \in Nat /\ Turns(QueuePerWorker) \in Nat
    BY <2>1, TurnTypes
  <2>3. Until(w) \in 0..DialCost /\ DialCost \in Nat
    BY UntilType, TurnTypes
  <2>4. Until(w) + Turns(n) <= Turns(QueuePerWorker) - Elapsed
    BY <2>2, <2>3
  <2> QED
    BY <2>1, <2>4, OpeningParts
<1>4. places \in SUBSET Openings
  <2> SUFFICES ASSUME NEW s \in places PROVE s \in Openings
    OBVIOUS
  <2>1. s[1] \in Worker /\ s[2] \in 0..QueuePerWorker - 1 /\ s = <<s[1], s[2]>>
    OBVIOUS
  <2> QED
    BY <1>3, <2>1
<1> QED
  BY <1>2, <1>4, OpeningsFinite

\* Past the last turn there is none, and nobody is busy with what it queued.
LEMMA DrainedAfterAll ==
    ASSUME TypeOK, DrainInv, Active, Elapsed > Turns(QueuePerWorker + 1)
    PROVE  /\ \A k \in 1..Len(queue) : queue[k].via # "sweep"
           /\ \A w \in Worker : worker[w].pc \in Stages => worker[w].via # "sweep"
<1>0. Elapsed \in Nat /\ Turns(QueuePerWorker + 1) \in Nat /\ Turns(QueuePerWorker) \in Nat
      /\ Turns(QueuePerWorker + 1) = Turns(QueuePerWorker) + DialCost /\ DialCost \in Nat
  BY LastTurns, ElapsedType
<1>1. Openings = {}
  <2> SUFFICES ASSUME NEW s \in Openings PROVE FALSE
    OBVIOUS
  <2>1. Until(s[1]) \in Nat /\ Turns(s[2]) \in Nat
    BY OpeningParts, UntilType, TurnTypes DEF DrainInv
  <2>2. Until(s[1]) + Turns(s[2]) <= Turns(QueuePerWorker) - Elapsed
    BY DEF Openings
  <2> QED
    BY <1>0, <2>1, <2>2
<1>2. Cardinality(Openings) = 0
  BY <1>1, FS_EmptySet
<1>3. \A k \in 1..Len(queue) : queue[k].via # "sweep"
  BY <1>2 DEF DrainInv, QueuedInTime
<1>4. ASSUME NEW w \in Worker, worker[w].pc \in Stages, worker[w].via = "sweep" PROVE FALSE
  <2>1. Until(w) \in Nat
    BY UntilType, TurnTypes DEF DrainInv
  <2>2. Elapsed + Until(w) <= Turns(QueuePerWorker + 1)
    BY <1>4 DEF DrainInv, TakenInTime
  <2> QED
    BY <1>0, <2>1, <2>2
<1> QED
  BY <1>3, <1>4

\* What any step but a Take or a Tick does to a worker: it is done with its
\* address, or goes on with it, and never back to an earlier stage.
GoesOn(w) ==
    \/ worker'[w].pc \notin Stages
    \/ /\ worker[w].pc \in Stages /\ worker'[w].addr = worker[w].addr
       /\ worker'[w].via = worker[w].via /\ worker'[w].since = worker[w].since
       /\ worker'[w].pc \in {"judging", "calling"} => worker[w].pc \in {"judging", "calling"}
       /\ worker'[w].pc = "dialing" => worker[w].pc \in {"calling", "dialing"}

LEMMA WorkersGoOn ==
    ASSUME TypeOK, [Next]_vars, ~Tick, \A w \in Worker : ~Take(w)
    PROVE  \A v \in Worker : GoesOn(v)
<1> SUFFICES ASSUME NEW v \in Worker PROVE GoesOn(v)
  OBVIOUS
<1>1. CASE UNCHANGED worker
  BY <1>1 DEF GoesOn
<1>2. CASE Start
  BY <1>2 DEF Start, GoesOn, Resting, Stages
<1>3. ASSUME NEW w \in Worker, WorkerQuits(w) PROVE GoesOn(v)
  BY <1>1, <1>3 DEF WorkerQuits, Goes, GoesOn, TypeOK, Stages
<1>4. ASSUME NEW w \in Worker, VerifyStep(w) PROVE GoesOn(v)
  <2>1. CASE v # w
    <3>1. worker'[v] = worker[v]
      BY <1>4, <2>1 DEF VerifyStep, Take, Consider, Call, DialErrs, DialAnswers, RecordFailure, List,
         RecordSuccess, Goes, Rests, TypeOK
    <3> QED
      BY <3>1 DEF GoesOn
  <2>2. CASE v = w /\ Rests(w)
    BY <2>2 DEF Rests, Resting, GoesOn, Stages, TypeOK
  <2>3. ASSUME v = w, NEW stage \in Stages, Goes(w, stage), worker[w].pc \in Stages,
               stage # "judging",
               stage = "calling" => worker[w].pc = "judging",
               stage = "dialing" => worker[w].pc = "calling"
        PROVE  GoesOn(v)
    <3>1. worker'[w] = [worker[w] EXCEPT !.pc = stage] /\ worker[w] \in Workers
      BY <2>3 DEF Goes, TypeOK
    <3>2. worker[w] \in [pc : Stages, addr : Addr, via : Via, since : Nat]
      BY <2>3, <3>1 DEF Workers, Stages
    <3>3. /\ worker'[w].pc = stage /\ worker'[w].addr = worker[w].addr
          /\ worker'[w].via = worker[w].via /\ worker'[w].since = worker[w].since
      BY <3>1, <3>2
    <3> QED
      BY <2>3, <3>3 DEF GoesOn
  <2>4. CASE v = w /\ Consider(w)
    BY <2>2, <2>3, <2>4 DEF Consider, At, Stages
  <2>5. CASE v = w /\ Call(w)
    BY <2>2, <2>3, <2>5 DEF Call, At, Stages
  <2>6. CASE v = w /\ DialErrs(w)
    BY <2>2, <2>3, <2>6 DEF DialErrs, At, Stages
  <2>7. CASE v = w /\ DialAnswers(w)
    BY <2>2, <2>3, <2>7 DEF DialAnswers, At, Stages
  <2>8. CASE v = w /\ List(w)
    BY <2>2, <2>3, <2>8 DEF List, At, Stages
  <2>9. CASE v = w /\ (RecordFailure(w) \/ RecordSuccess(w))
    BY <2>2, <2>9 DEF RecordFailure, RecordSuccess
  <2> QED
    BY <1>4, <2>1, <2>4, <2>5, <2>6, <2>7, <2>8, <2>9 DEF VerifyStep
<1>5. ASSUME NEW e \in Offerers, OfferStep(e) PROVE GoesOn(v)
  BY <1>1, <1>5, OfferTyped
<1> QED
  BY <1>1, <1>2, <1>3, <1>4, <1>5
     DEF Next, SweepStep, Offerers, StopBegins, StopEnds, Receive, SweepBegins, SweepEnds, SweepQuits,
         BookMoves, Connects, Leaves, vars

\* None is then busy for longer than it was.
LEMMA NoLonger ==
    ASSUME TypeOK, TypeOK', SinceFits, \A v \in Worker : GoesOn(v)
    PROVE  SinceFits' /\ \A v \in Worker : Until(v)' <= Until(v)
<1>1. ASSUME NEW v \in Worker, worker'[v].pc \in Stages
      PROVE  /\ worker'[v].since <= DialCost
             /\ worker'[v].pc \in {"judging", "calling"} => worker'[v].since = 0
  BY <1>1 DEF GoesOn, SinceFits
<1>2. SinceFits'
  BY <1>1 DEF SinceFits
<1>3. ASSUME NEW v \in Worker PROVE Until(v)' <= Until(v)
  <2>1. Until(v) \in Nat /\ Until(v)' \in 0..DialCost
    BY <1>2, UntilType, NextUntilType
  <2>2. CASE worker'[v].pc \in {"judging", "calling", "dialing"}
    <3>1. worker[v].pc \in {"judging", "calling", "dialing"} /\ worker'[v].since = worker[v].since
      BY <2>2 DEF GoesOn, Stages
    <3>2. Until(v)' = Until(v)
      BY <2>2, <3>1 DEF Until
    <3> QED
      BY <2>1, <3>2
  <2>3. CASE worker'[v].pc \notin {"judging", "calling", "dialing"}
    BY <2>1, <2>3 DEF Until
  <2> QED
    BY <2>2, <2>3
<1> QED
  BY <1>2, <1>3

\* So the openings stay, unless the sweep's clock has moved on.
LEMMA OpeningsStay ==
    ASSUME TypeOK, TypeOK', SinceFits, SinceFits', Elapsed' <= Elapsed,
           \A v \in Worker : Until(v)' <= Until(v)
    PROVE  Cardinality(Openings) <= Cardinality(Openings)'
<1>1. ASSUME NEW s \in Openings PROVE s \in Openings'
  <2>1. s[1] \in Worker /\ s[2] \in 0..QueuePerWorker /\ s \in Worker \X (0..QueuePerWorker)
    BY OpeningParts DEF Openings
  <2>2. Until(s[1]) + Turns(s[2]) <= Turns(QueuePerWorker) - Elapsed
    BY DEF Openings
  <2>3. /\ Until(s[1]) \in Nat /\ Until(s[1])' \in Nat /\ Until(s[1])' <= Until(s[1])
        /\ Elapsed \in Nat /\ Elapsed' \in Nat
    BY <2>1, UntilType, NextUntilType, ElapsedType, NextElapsedType
  <2>4. Turns(s[2]) \in Nat /\ Turns(QueuePerWorker) \in Nat
    BY <2>1, TurnTypes
  <2>5. Until(s[1])' + Turns(s[2]) <= Turns(QueuePerWorker) - Elapsed'
    BY <2>2, <2>3, <2>4
  <2> QED
    BY <2>1, <2>5 DEF Openings, Turns
<1>2. Openings \in SUBSET (Openings')
  BY <1>1
<1> QED
  BY <1>2, OpeningsFinite, NextOpeningsFinite

\* An idle worker that takes an address uses one opening.
LEMMA TakeUsesOne ==
    ASSUME TypeOK, TypeOK', SinceFits, NEW w \in Worker, Take(w)
    PROVE  /\ SinceFits' /\ Elapsed' = Elapsed /\ Until(w)' = DialCost
           /\ \A v \in Worker : v # w => worker'[v] = worker[v]
           /\ Cardinality(Openings) - 1 <= Cardinality(Openings)'
<1>1. /\ worker'[w].pc = "judging" /\ worker'[w].since = 0 /\ worker[w].pc = "idle"
      /\ UNCHANGED ticker
  BY DEF Take, At, TypeOK
<1>2. ASSUME NEW v \in Worker, v # w PROVE worker'[v] = worker[v]
  BY <1>2 DEF Take, TypeOK
<1>3. SinceFits'
  BY <1>1, <1>2, TurnTypes DEF SinceFits
<1>4. Until(w) = 0 /\ Until(w)' = DialCost
  BY <1>1, TurnTypes DEF Until
<1>5. Elapsed' = Elapsed /\ \A v \in Worker : v # w => Until(v)' = Until(v)
  BY <1>1, <1>2 DEF Elapsed, Until
<1> DEFINE rest == Openings \ {<<w, 0>>}
           sooner == [s \in rest |-> IF s[1] = w THEN <<w, s[2] - 1>> ELSE s]
<1>6. ASSUME NEW s \in rest
      PROVE  /\ s[1] \in Worker /\ s[2] \in 0..QueuePerWorker /\ s = <<s[1], s[2]>>
             /\ s[1] = w => s[2] - 1 \in 0..QueuePerWorker
  <2>1. s[1] \in Worker /\ s[2] \in 0..QueuePerWorker /\ s = <<s[1], s[2]>>
    BY OpeningParts
  <2>2. s[1] = w => s[2] # 0
    BY <2>1
  <2> QED
    BY <2>1, <2>2, VerifyAssumption
<1>7. ASSUME NEW s \in rest PROVE sooner[s] \in Openings'
  <2>1. Until(s[1]) + Turns(s[2]) <= Turns(QueuePerWorker) - Elapsed
    BY DEF Openings
  <2>2. CASE s[1] = w
    <3>1. s[2] - 1 \in Nat /\ (s[2] - 1) + 1 = s[2] /\ QueuePerWorker \in Nat /\ Period \in Nat
      BY <1>6, <2>2, VerifyAssumption
    <3>2. Turns(s[2]) = Turns(s[2] - 1) + DialCost /\ Turns(s[2] - 1) \in Nat /\ DialCost \in Nat
          /\ Turns(QueuePerWorker) \in Nat
      <4>1. Turns((s[2] - 1) + 1) = Turns(s[2] - 1) + DialCost
        BY <3>1, TurnTypes
      <4> QED
        BY <3>1, <4>1, TurnTypes
    <3>5. Elapsed \in Nat
      BY <3>1, ElapsedType
    <3>3. Until(w)' + Turns(s[2] - 1) <= Turns(QueuePerWorker) - Elapsed'
      BY <1>4, <1>5, <2>1, <2>2, <3>2, <3>5
    <3>4. <<w, s[2] - 1>> \in Openings'
      <4> DEFINE t == <<w, s[2] - 1>>
      <4>1. t \in Worker \X (0..QueuePerWorker) /\ t[1] = w /\ t[2] = s[2] - 1
        BY <1>6, <2>2
      <4> HIDE DEF t
      <4>2. Until(t[1])' + Turns(t[2]) <= Turns(QueuePerWorker) - Elapsed'
        BY <3>3, <4>1 DEF Turns
      <4>3. t \in Openings'
        BY <4>1, <4>2 DEF Openings, Turns
      <4> QED
        BY <4>3 DEF t
    <3> QED
      BY <2>2, <3>4
  <2>3. CASE s[1] # w
    <3>1. Until(s[1])' = Until(s[1])
      BY <1>5, <1>6, <2>3
    <3>2. s \in Openings'
      BY <1>5, <1>6, <2>1, <3>1 DEF Openings, Turns
    <3> QED
      BY <2>3, <3>2
  <2> QED
    BY <2>2, <2>3
<1>8. ASSUME NEW s \in rest, NEW t \in rest, sooner[s] = sooner[t] PROVE s = t
  <2>1. /\ sooner[s] = IF s[1] = w THEN <<w, s[2] - 1>> ELSE s
        /\ sooner[t] = IF t[1] = w THEN <<w, t[2] - 1>> ELSE t
    OBVIOUS
  <2> HIDE DEF sooner, rest
  <2>2. CASE s[1] = w /\ t[1] = w
    <3>1. <<w, s[2] - 1>> = <<w, t[2] - 1>>
      BY <1>8, <2>1, <2>2
    <3>2. s[2] - 1 = t[2] - 1
      BY <3>1
    <3>3. s[2] \in Int /\ t[2] \in Int
      BY <1>6
    <3>4. s[2] = t[2]
      BY <3>2, <3>3
    <3> QED
      BY <1>6, <2>2, <3>4
  <2>3. CASE s[1] = w /\ t[1] # w
    <3>1. t = <<w, s[2] - 1>>
      BY <1>8, <2>1, <2>3
    <3> QED
      BY <2>3, <3>1
  <2>4. CASE s[1] # w /\ t[1] = w
    <3>1. s = <<w, t[2] - 1>>
      BY <1>8, <2>1, <2>4
    <3> QED
      BY <2>4, <3>1
  <2>5. CASE s[1] # w /\ t[1] # w
    BY <1>8, <2>1, <2>5
  <2> QED
    BY <2>2, <2>3, <2>4, <2>5
<1>9. sooner \in Injection(rest, Openings')
  BY <1>7, <1>8 DEF Injection, IsInjective
<1>10. IsFiniteSet(Openings)' /\ Cardinality(rest) <= Cardinality(Openings)'
  <2>1. IsFiniteSet(Openings)'
    BY NextOpeningsFinite
  <2> HIDE DEF rest, sooner
  <2>2. IsFiniteSet(rest) /\ Cardinality(rest) <= Cardinality(Openings')
    BY <1>9, <2>1, FS_Injection
  <2> QED
    BY <2>1, <2>2
<1>11. IsFiniteSet(Openings) /\ Cardinality(Openings) \in Nat
  BY OpeningsFinite
<1>12. Cardinality(Openings) - 1 <= Cardinality(rest) /\ Cardinality(rest) \in Nat
  <2>1. Cardinality(rest) = IF <<w, 0>> \in Openings THEN Cardinality(Openings) - 1 ELSE Cardinality(Openings)
    BY <1>11, FS_RemoveElement
  <2>2. IsFiniteSet(rest)
    BY <1>11, FS_RemoveElement
  <2>3. Cardinality(rest) \in Nat
    BY <2>2, FS_CardinalityType
  <2> HIDE DEF rest
  <2> QED
    BY <1>11, <2>1, <2>3
<1>13. Cardinality(Openings)' \in Nat
  BY NextOpeningsFinite
<1> HIDE DEF rest
<1> QED
  BY <1>2, <1>3, <1>4, <1>5, <1>10, <1>11, <1>12, <1>13

LEMMA ShapeKept ==
    ASSUME TypeOK, PoolWorks, SweepShape, [Next]_vars
    PROVE  PoolWorks' /\ SweepShape'
<1> USE DEF PoolWorks, SweepShape
<1>1. CASE Start
  BY <1>1 DEF Start, Resting, TypeOK
<1>2. CASE UNCHANGED vars
  BY <1>2 DEF vars
<1>3. CASE StopBegins \/ StopEnds
  BY <1>3 DEF StopBegins, StopEnds
<1>4. CASE Tick
  <2>1. \A w \in Worker : worker'[w].pc = worker[w].pc
    <3>1. \A w \in Worker : worker[w] \in Workers
      BY DEF TypeOK
    <3>2. \A w \in Worker : worker'[w] = IF At(w, "dialing") THEN [worker[w] EXCEPT !.since = @ + 1] ELSE worker[w]
      BY <1>4 DEF Tick
    <3> QED
      BY <3>1, <3>2 DEF Workers
  <2> QED
    BY <1>4, <2>1 DEF Tick, NothingDue
<1>5. ASSUME NEW r \in Receiver, NEW S \in Batches, Receive(r, S) PROVE PoolWorks' /\ SweepShape'
  <2>1. batch' \in {batch, [batch EXCEPT ![r] = S]} /\ UNCHANGED <<phase, worker, sweep, ticker>>
    BY <1>5 DEF Receive
  <2>2. r # "sweep"
    BY VerifyAssumption
  <2> QED
    BY <2>1, <2>2 DEF TypeOK, Offerers
<1>6. ASSUME NEW e \in Offerers, OfferStep(e) PROVE PoolWorks' /\ SweepShape'
  <2>1. UNCHANGED <<phase, worker, sweep, ticker>> /\ batch'["sweep"] \subseteq batch["sweep"]
    <3>1. batch' = [batch EXCEPT ![e] = {}] \/ \E a \in Addr : batch' = [batch EXCEPT ![e] = @ \ {a}]
      BY <1>6 DEF OfferStep, Abandon, PassOver, Enqueue, DropFull, Left
    <3>2. batch'["sweep"] \subseteq batch["sweep"]
      <4>1. batch \in [Offerers -> SUBSET Addr] /\ "sweep" \in Offerers
        BY DEF TypeOK, Offerers
      <4>2. CASE batch' = [batch EXCEPT ![e] = {}]
        BY <4>1, <4>2
      <4>3. ASSUME NEW a \in Addr, batch' = [batch EXCEPT ![e] = @ \ {a}]
            PROVE  batch'["sweep"] \subseteq batch["sweep"]
        <5>1. batch'["sweep"] \in {batch["sweep"], batch["sweep"] \ {a}}
          BY <4>1, <4>3
        <5> QED
          BY <5>1
      <4> QED
        BY <3>1, <4>2, <4>3
    <3> QED
      BY <1>6, <3>2 DEF OfferStep, Abandon, PassOver, Enqueue, DropFull
  <2> QED
    BY <2>1
<1>7. CASE SweepBegins \/ SweepEnds
  BY <1>7 DEF SweepBegins, SweepEnds, TypeOK, Offerers
<1>8. CASE SweepQuits
  BY <1>8 DEF SweepQuits
<1>9. ASSUME NEW w \in Worker, VerifyStep(w) PROVE PoolWorks' /\ SweepShape'
  <2>1. UNCHANGED <<phase, batch, sweep, ticker>> /\ worker[w].pc # "gone"
    BY <1>9 DEF VerifyStep, Take, Consider, Call, DialErrs, DialAnswers, RecordFailure, List, RecordSuccess,
       Judged, Goes, Rests, At
  <2>2. \A v \in Worker : worker'[v].pc = "gone" => worker[v].pc = "gone"
    <3>1. \/ \E stage \in Stages : worker' = [worker EXCEPT ![w].pc = stage]
          \/ worker' = [worker EXCEPT ![w] = Resting]
          \/ worker' = [worker EXCEPT ![w] = [pc |-> "judging", addr |-> Head(queue).addr,
                                              via |-> Head(queue).via, since |-> 0]]
      BY <1>9 DEF VerifyStep, Take, Consider, Call, DialErrs, DialAnswers, RecordFailure, List,
         RecordSuccess, Goes, Rests, Stages
    <3>2. \A v \in Worker : v # w => worker'[v] = worker[v]
      BY <3>1 DEF TypeOK
    <3>3. worker[w] \in Workers /\ \A stage \in Stages : stage # "gone"
      BY DEF TypeOK, Stages
    <3>4. worker'[w].pc \in Stages \cup {"idle", "judging"}
      BY <3>1, <3>3 DEF TypeOK, Workers, Resting
    <3> QED
      BY <3>2, <3>3, <3>4 DEF Stages
  <2> QED
    BY <2>1, <2>2
<1>10. ASSUME NEW w \in Worker, WorkerQuits(w) PROVE PoolWorks' /\ SweepShape'
  BY <1>10 DEF WorkerQuits
<1>11. ASSUME NEW a \in Addr, BookMoves(a) \/ Connects(a) \/ Leaves(a) PROVE PoolWorks' /\ SweepShape'
  BY <1>11 DEF BookMoves, Connects, Leaves
<1> QED
  BY <1>1, <1>2, <1>3, <1>4, <1>5, <1>6, <1>7, <1>8, <1>9, <1>10, <1>11 DEF Next, SweepStep, Offerers

\* What else a step that is neither a Take nor a Tick may do.
LEMMA RestStays ==
    ASSUME TypeOK, SweepShape, [Next]_vars, ~Tick, \A w \in Worker : ~Take(w)
    PROVE  /\ ticker' \in {ticker, Period} /\ (Active' => Active)
           /\ \/ UNCHANGED queue
              \/ \E a \in Addr, via \in Via :
                    /\ queue' = Append(queue, [addr |-> a, via |-> via]) /\ Len(queue) < Capacity
                    /\ ticker' = ticker
                    /\ via = "sweep" => ticker = Period /\ a \notin batch'["sweep"]
<1> DEFINE Grows ==
             \/ UNCHANGED queue
             \/ \E a \in Addr, via \in Via :
                   /\ queue' = Append(queue, [addr |-> a, via |-> via]) /\ Len(queue) < Capacity
                   /\ ticker' = ticker
                   /\ via = "sweep" => ticker = Period /\ a \notin batch'["sweep"]
<1>0. UNCHANGED queue => Grows
  OBVIOUS
<1>1. ASSUME Start \/ StopBegins \/ StopEnds \/ SweepBegins \/ SweepEnds \/ SweepQuits \/ UNCHANGED vars
      PROVE  ticker' \in {ticker, Period} /\ (Active' => Active) /\ UNCHANGED queue
  BY <1>1 DEF Start, StopBegins, StopEnds, SweepBegins, SweepEnds, SweepQuits, Active, vars
<1>2. ASSUME NEW e \in Offerers, OfferStep(e) PROVE UNCHANGED <<ticker, phase>> /\ Grows
  <2>1. UNCHANGED <<ticker, phase>>
    BY <1>2 DEF OfferStep, Abandon, PassOver, Enqueue, DropFull
  <2>2. CASE \E a \in Addr : Enqueue(e, a)
    <3>1. PICK a \in Addr : Enqueue(e, a)
      BY <2>2
    <3> DEFINE via == IF e = "sweep" THEN "sweep" ELSE "arrival"
    <3>2. via \in Via /\ queue' = Append(queue, [addr |-> a, via |-> via]) /\ Len(queue) < Capacity
      BY <3>1 DEF Enqueue, Offer, Via
    <3>3. via = "sweep" => ticker = Period /\ a \notin batch'["sweep"]
      BY <3>1 DEF Enqueue, Left, SweepShape, TypeOK, Offerers
    <3> HIDE DEF via
    <3> QED
      BY <2>1, <3>2, <3>3
  <2>3. CASE ~\E a \in Addr : Enqueue(e, a)
    BY <1>2, <2>3 DEF OfferStep, Abandon, PassOver, DropFull
  <2> QED
    BY <2>1, <2>2, <2>3
<1>3. ASSUME NEW r \in Receiver, NEW S \in Batches, Receive(r, S) PROVE UNCHANGED <<ticker, phase, queue>>
  BY <1>3 DEF Receive
<1>4. ASSUME NEW w \in Worker, VerifyStep(w) \/ WorkerQuits(w) PROVE UNCHANGED <<ticker, phase, queue>>
  BY <1>4 DEF VerifyStep, WorkerQuits, Consider, Call, DialErrs, DialAnswers, RecordFailure, List,
     RecordSuccess, Judged
<1>5. ASSUME NEW a \in Addr, BookMoves(a) \/ Connects(a) \/ Leaves(a) PROVE UNCHANGED <<ticker, phase, queue>>
  BY <1>5 DEF BookMoves, Connects, Leaves
<1> HIDE DEF Grows
<1>6. ticker' \in {ticker, Period} /\ (Active' => Active) /\ Grows
  BY <1>0, <1>1, <1>2, <1>3, <1>4, <1>5 DEF Next, SweepStep, Offerers, Active
<1> QED
  BY <1>6 DEF Grows

\* Such a step leaves everybody in time.
LEMMA InTimeKept ==
    ASSUME TypeOK, TypeOK', DrainInv, [Next]_vars, ~Tick, \A w \in Worker : ~Take(w)
    PROVE  SinceFits' /\ QueuedInTime' /\ TakenInTime'
<1>1. SinceFits' /\ \A v \in Worker : GoesOn(v) /\ Until(v)' <= Until(v)
  BY WorkersGoOn, NoLonger DEF DrainInv
<1>2. /\ ticker' \in {ticker, Period} /\ (Active' => Active)
      /\ \/ UNCHANGED queue
         \/ \E a \in Addr, via \in Via :
               /\ queue' = Append(queue, [addr |-> a, via |-> via]) /\ Len(queue) < Capacity
               /\ ticker' = ticker /\ (via = "sweep" => ticker = Period)
  BY RestStays DEF DrainInv
<1>3. Elapsed \in Nat /\ Elapsed' \in Nat /\ Elapsed' <= Elapsed /\ (ticker' = Period => Elapsed' = 0)
  <2>1. ticker \in 0..Period /\ Period \in Nat
    BY ConstantTypes DEF TypeOK
  <2>2. ticker' \in {ticker, Period}
    BY <1>2
  <2>3. ticker' \in 0..Period
    BY <2>1, <2>2
  <2>4. Elapsed = Period - ticker /\ Elapsed' = Period - ticker'
    BY DEF Elapsed
  <2>5. CASE ticker' = ticker
    BY <2>1, <2>4, <2>5
  <2>6. CASE ticker' = Period
    BY <2>1, <2>4, <2>6
  <2> QED
    BY <2>2, <2>5, <2>6
<1>4. Cardinality(Openings) <= Cardinality(Openings)' /\ Cardinality(Openings) \in Nat
      /\ Cardinality(Openings)' \in Nat
  BY <1>1, <1>3, OpeningsStay, OpeningsFinite, NextOpeningsFinite DEF DrainInv
<1>5. ASSUME Active', NEW k \in 1..Len(queue'), queue'[k].via = "sweep" PROVE k <= Cardinality(Openings)'
  <2>1. Active /\ queue \in Seq(Offers) /\ Len(queue) \in Nat
    BY <1>2, <1>5 DEF TypeOK
  <2>2. CASE k \in 1..Len(queue) /\ queue'[k] = queue[k]
    <3>1. k <= Cardinality(Openings)
      BY <1>5, <2>1, <2>2 DEF DrainInv, QueuedInTime
    <3> QED
      BY <1>4, <2>2, <3>1
  <2>3. CASE UNCHANGED queue
    BY <1>5, <2>2, <2>3
  <2>4. ASSUME NEW a \in Addr, NEW via \in Via, queue' = Append(queue, [addr |-> a, via |-> via]),
               Len(queue) < Capacity, ticker' = ticker, via = "sweep" => ticker = Period
        PROVE  k <= Cardinality(Openings)'
    <3>1. Len(queue') = Len(queue) + 1 /\ queue'[Len(queue) + 1] = [addr |-> a, via |-> via]
          /\ \A i \in 1..Len(queue) : queue'[i] = queue[i]
      BY <2>1, <2>4
    <3>2. CASE k = Len(queue) + 1
      <4>1. via = "sweep"
        BY <1>5, <3>1, <3>2
      <4>2. Elapsed = 0
        BY <1>3, <2>4, <4>1 DEF Elapsed
      <4>3. Capacity <= Cardinality(Openings)
        BY <4>2, RoomForAll DEF DrainInv
      <4> QED
        BY <1>4, <2>1, <2>4, <3>2, <4>3, ConstantTypes
    <3>3. CASE k # Len(queue) + 1
      BY <2>1, <2>2, <3>1, <3>3
    <3> QED
      BY <3>2, <3>3
  <2> QED
    BY <1>2, <2>3, <2>4
<1>6. ASSUME Active', NEW w \in Worker, worker'[w].pc \in Stages, worker'[w].via = "sweep"
      PROVE  Elapsed' + Until(w)' <= Turns(QueuePerWorker + 1)
  <2>1. worker[w].pc \in Stages /\ worker[w].via = "sweep" /\ Active
    BY <1>1, <1>2, <1>6 DEF GoesOn
  <2>2. Elapsed + Until(w) <= Turns(QueuePerWorker + 1)
    BY <2>1 DEF DrainInv, TakenInTime
  <2>3. Until(w) \in Nat /\ Until(w)' \in Nat /\ Until(w)' <= Until(w)
    BY <1>1, UntilType, NextUntilType, TurnTypes DEF DrainInv
  <2>4. Turns(QueuePerWorker + 1) \in Nat
    BY LastTurns
  <2> QED
    BY <1>3, <2>2, <2>3, <2>4
<1>7. QueuedInTime'
  BY <1>5 DEF QueuedInTime
<1>8. TakenInTime'
  BY <1>6 DEF TakenInTime, Turns
<1> QED
  BY <1>1, <1>7, <1>8

\* A worker that takes what a sweep has queued has until the end of the turn
\* after the last: those behind it move up by one, and one opening is used.
LEMMA TakenInItsTurn ==
    ASSUME TypeOK, TypeOK', DrainInv, NEW w \in Worker, Take(w)
    PROVE  SinceFits' /\ QueuedInTime' /\ TakenInTime'
<1>1. /\ SinceFits' /\ Elapsed' = Elapsed /\ Until(w)' = DialCost
      /\ \A v \in Worker : v # w => worker'[v] = worker[v]
      /\ Cardinality(Openings) - 1 <= Cardinality(Openings)'
  BY TakeUsesOne DEF DrainInv
<1>2. /\ queue \in Seq(Offers) /\ queue # <<>> /\ queue' = Tail(queue) /\ (Active' <=> Active)
      /\ worker'[w].via = Head(queue).via
  BY DEF Take, TypeOK, Active
<1>3. /\ Len(queue) \in Nat \ {0} /\ Len(queue') = Len(queue) - 1 /\ Head(queue) = queue[1]
      /\ \A k \in 1..Len(queue') : queue'[k] = queue[k + 1]
  BY <1>2
<1>4. Cardinality(Openings) \in Nat /\ Cardinality(Openings)' \in Nat
  BY OpeningsFinite, NextOpeningsFinite
<1>5. ASSUME Active', NEW k \in 1..Len(queue'), queue'[k].via = "sweep" PROVE k <= Cardinality(Openings)'
  <2>1. k + 1 \in 1..Len(queue) /\ queue[k + 1].via = "sweep" /\ k \in Nat
    BY <1>3, <1>5
  <2>2. k + 1 <= Cardinality(Openings)
    BY <1>2, <1>5, <2>1 DEF DrainInv, QueuedInTime
  <2> QED
    BY <1>1, <1>4, <2>1, <2>2
<1>6. QueuedInTime'
  BY <1>5 DEF QueuedInTime
<1>7. ASSUME Active', NEW v \in Worker, worker'[v].pc \in Stages, worker'[v].via = "sweep"
      PROVE  Elapsed' + Until(v)' <= Turns(QueuePerWorker + 1)
  <2>1. CASE v # w
    <3>1. worker[v].pc \in Stages /\ worker[v].via = "sweep" /\ Until(v)' = Until(v)
      BY <1>1, <1>7, <2>1 DEF Until
    <3> QED
      BY <1>1, <1>2, <1>7, <3>1 DEF DrainInv, TakenInTime
  <2>2. CASE v = w
    <3>1. 1 \in 1..Len(queue) /\ queue[1].via = "sweep"
      BY <1>2, <1>3, <1>7, <2>2
    <3>2. 1 <= Cardinality(Openings)
      BY <1>2, <1>7, <3>1 DEF DrainInv, QueuedInTime
    <3>3. PICK s \in Openings : TRUE
      BY <3>2, FS_EmptySet
    <3>4. Until(s[1]) + Turns(s[2]) <= Turns(QueuePerWorker) - Elapsed
      BY DEF Openings
    <3>5. s[1] \in Worker /\ s[2] \in Nat
      BY OpeningParts
    <3>6. Until(s[1]) \in Nat /\ Turns(s[2]) \in Nat
      BY <3>5, UntilNat, TurnTypes
    <3>7. /\ Elapsed \in Nat /\ DialCost \in Nat /\ Turns(QueuePerWorker) \in Nat
          /\ Turns(QueuePerWorker + 1) = Turns(QueuePerWorker) + DialCost
      BY LastTurns, ElapsedType
    <3> QED
      BY <1>1, <2>2, <3>4, <3>6, <3>7
  <2> QED
    BY <2>1, <2>2
<1>8. TakenInTime'
  BY <1>7 DEF TakenInTime, Turns
<1> QED
  BY <1>1, <1>6, <1>8

\* Time passes only while every worker is dialling or has nothing to take: each
\* dial is nearer to its end by what has passed.
LEMMA InTimeAfterTick ==
    ASSUME TypeOK, TypeOK', DrainInv, Tick
    PROVE  SinceFits' /\ QueuedInTime' /\ TakenInTime'
<1>0. DialCost \in Nat /\ QueuePerWorker \in Nat /\ Period \in Nat
  BY VerifyAssumption
<1>1. ASSUME NEW v \in Worker, worker[v].pc \in Stages
      PROVE  /\ worker[v].pc = "dialing" /\ worker[v].since \in Nat /\ worker[v].since < DialCost
             /\ worker'[v].since = worker[v].since + 1
             /\ worker'[v].pc = "dialing" /\ worker'[v].via = worker[v].via
             /\ Until(v) = DialCost - worker[v].since /\ Until(v)' = Until(v) - 1
  <2>1. worker[v].pc = "dialing" /\ worker[v].since < DialCost
    BY <1>1 DEF Tick, NothingDue, At, Stages
  <2>2. worker[v] \in [pc : Stages, addr : Addr, via : Via, since : Nat]
    BY <1>1 DEF TypeOK, Workers, Stages
  <2>3. worker'[v] = [worker[v] EXCEPT !.since = @ + 1]
    BY <2>1 DEF Tick, At
  <2>4. /\ worker'[v].since = worker[v].since + 1 /\ worker'[v].pc = "dialing"
        /\ worker'[v].via = worker[v].via /\ worker[v].since \in Nat
    BY <2>1, <2>2, <2>3
  <2>5. Until(v) = DialCost - worker[v].since /\ Until(v)' = DialCost - (worker[v].since + 1)
    BY <2>1, <2>4 DEF Until
  <2> QED
    BY <1>0, <2>1, <2>4, <2>5
<1>2. ASSUME NEW v \in Worker, worker[v].pc \notin Stages PROVE worker'[v] = worker[v]
  BY <1>2 DEF Tick, At, Stages
<1>3. SinceFits'
  BY <1>0, <1>1, <1>2 DEF SinceFits
<1>4. /\ UNCHANGED <<phase, queue, sweep>> /\ (Active' <=> Active)
      /\ sweep # "offering"
      /\ IF sweep = "waiting" THEN Elapsed' = Elapsed + 1 ELSE Elapsed' = Elapsed
      /\ Elapsed \in Nat /\ Elapsed' \in Nat
  <2>1. UNCHANGED <<phase, queue, sweep>> /\ sweep # "offering"
        /\ ticker' = IF sweep = "waiting" THEN ticker - 1 ELSE ticker
    BY DEF Tick, NothingDue
  <2>2. ticker \in 0..Period /\ ticker' \in 0..Period
    BY DEF TypeOK
  <2> QED
    BY <1>0, <2>1, <2>2 DEF Elapsed, Active
<1>5. Cardinality(Openings) \in Nat /\ Cardinality(Openings)' \in Nat
  BY OpeningsFinite, NextOpeningsFinite
<1>6. ASSUME Active, queue # <<>> PROVE Cardinality(Openings) <= Cardinality(Openings)'
  <2>1. CASE sweep = "waiting"
    <3>1. phase = "running"
      BY <1>6, <2>1 DEF DrainInv, PoolWorks, Active
    <3>2. ASSUME NEW v \in Worker PROVE worker[v].pc \in Stages
      <4>1. worker[v].pc # "gone"
        BY <2>1, <3>1 DEF DrainInv, PoolWorks
      <4> QED
        BY <1>6, <4>1 DEF Tick, NothingDue, At, Stages
    <3>3. ASSUME NEW s \in Openings PROVE s \in Openings'
      <4>1. s \in Worker \X (0..QueuePerWorker) /\ s[1] \in Worker /\ s[2] \in 0..QueuePerWorker
        BY OpeningParts DEF Openings
      <4>2. Until(s[1]) + Turns(s[2]) <= Turns(QueuePerWorker) - Elapsed
        BY DEF Openings
      <4>3. Until(s[1])' = Until(s[1]) - 1 /\ Elapsed' = Elapsed + 1
        BY <1>1, <1>4, <2>1, <3>2, <4>1
      <4>4. Until(s[1]) \in Nat /\ Turns(s[2]) \in Nat /\ Turns(QueuePerWorker) \in Nat
        BY <1>0, <4>1, UntilType, TurnTypes DEF DrainInv
      <4>5. Until(s[1])' + Turns(s[2]) <= Turns(QueuePerWorker) - Elapsed'
        BY <1>4, <4>2, <4>3, <4>4
      <4> QED
        BY <4>1, <4>5 DEF Openings, Turns
    <3>4. Openings \in SUBSET (Openings')
      BY <3>3
    <3> QED
      BY <3>4, NextOpeningsFinite
  <2>2. CASE sweep # "waiting"
    <3>1. Elapsed' <= Elapsed
      BY <1>4, <2>2
    <3>2. ASSUME NEW v \in Worker PROVE Until(v)' <= Until(v)
      <4>1. CASE worker[v].pc \in Stages
        <5>1. Until(v) \in Nat /\ Until(v)' = Until(v) - 1
          BY <1>1, <4>1, UntilNat
        <5> QED
          BY <5>1
      <4>2. CASE worker[v].pc \notin Stages
        <5>1. Until(v)' = Until(v) /\ Until(v) \in Nat
          BY <1>2, <4>2, UntilNat DEF Until
        <5> QED
          BY <5>1
      <4> QED
        BY <4>1, <4>2
    <3> QED
      BY <1>3, <3>1, <3>2, OpeningsStay DEF DrainInv
  <2> QED
    BY <2>1, <2>2
<1>7. ASSUME Active', NEW k \in 1..Len(queue'), queue'[k].via = "sweep" PROVE k <= Cardinality(Openings)'
  <2>1. queue \in Seq(Offers) /\ queue' = queue /\ Active
    BY <1>4, <1>7 DEF TypeOK
  <2>2. queue # <<>>
    BY <1>7, <2>1
  <2>3. k <= Cardinality(Openings)
    BY <1>7, <2>1 DEF DrainInv, QueuedInTime
  <2> QED
    BY <1>5, <1>6, <2>1, <2>2, <2>3
<1>8. QueuedInTime'
  BY <1>7 DEF QueuedInTime
<1>9. ASSUME Active', NEW v \in Worker, worker'[v].pc \in Stages, worker'[v].via = "sweep"
      PROVE  Elapsed' + Until(v)' <= Turns(QueuePerWorker + 1)
  <2>1. worker[v].pc \in Stages
    BY <1>2, <1>9
  <2>2. Elapsed + Until(v) <= Turns(QueuePerWorker + 1)
    BY <1>1, <1>4, <1>9, <2>1 DEF DrainInv, TakenInTime
  <2>3. Turns(QueuePerWorker + 1) \in Nat /\ Until(v) \in Nat /\ Until(v)' = Until(v) - 1
    BY <1>1, <2>1, LastTurns, UntilNat
  <2> QED
    BY <1>4, <2>2, <2>3
<1>10. TakenInTime'
  BY <1>9 DEF TakenInTime, Turns
<1> QED
  BY <1>3, <1>8, <1>10

LEMMA DrainKept == TypeOK /\ TypeOK' /\ DrainInv /\ [Next]_vars => DrainInv'
<1> SUFFICES ASSUME TypeOK, TypeOK', DrainInv, [Next]_vars PROVE DrainInv'
  OBVIOUS
<1>1. PoolWorks' /\ SweepShape'
  BY ShapeKept DEF DrainInv
<1>2. SinceFits' /\ QueuedInTime' /\ TakenInTime'
  BY InTimeKept, TakenInItsTurn, InTimeAfterTick
<1> QED
  BY <1>1, <1>2 DEF DrainInv

LEMMA DrainInit == Init => DrainInv
  BY DEF Init, DrainInv, PoolWorks, SweepShape, SinceFits, QueuedInTime, TakenInTime, Gone, Resting,
     Stages, Offerers

LEMMA DrainHolds == Spec => []DrainInv
  BY DrainInit, DrainKept, VerifyTypeCorrect, PTL DEF Spec

\* verifySweepMargin: whatever the number of workers, and whatever arrives beside
\* the sweep, QueuePerWorker + 1 dials after it has begun nothing it has queued
\* is left in the queue or with a worker.
THEOREM SweepDrains == Spec => []SweepIsDrained
<1>1. TypeOK /\ DrainInv => SweepIsDrained
  <2> SUFFICES ASSUME TypeOK, DrainInv, phase = "running",
                      Period - ticker > (QueuePerWorker + 1) * DialCost
               PROVE  /\ \A k \in DOMAIN queue : queue[k].via # "sweep"
                      /\ \A w \in Worker : worker[w].pc \in Stages => worker[w].via # "sweep"
    BY DEF SweepIsDrained
  <2>1. Active /\ Elapsed > Turns(QueuePerWorker + 1)
    BY DEF Active, Elapsed, Turns
  <2>2. DOMAIN queue = 1..Len(queue)
    BY DEF TypeOK
  <2> QED
    BY <2>1, <2>2, DrainedAfterAll
<1> QED
  BY <1>1, DrainHolds, VerifyTypeCorrect, PTL

-----------------------------------------------------------------------------
(* The freshness window.                                                    *)

\* verifySweepMargin covers the time an address may spend in the queue and in
\* the dial after it: 33 dials of 7 seconds, and 5 minutes (its comment).
MarginCovers == (QueuePerWorker + 1) * DialCost <= Margin

\* a is held proven, and a sweep asked for that.
ByTheSweep(a) == state[a] # NoVerdict /\ state[a].fails = 0 /\ state[a].via = "sweep"

\* A proof made for a sweep came within its turns, and has aged since.
ProofsAreOld ==
    Active => \A a \in Addr : ByTheSweep(a) =>
        state[a].age > VerdictTTL \/ state[a].age + Turns(QueuePerWorker + 1) >= Elapsed

\* What a sweep has still to offer nobody is judging on its behalf, and what the
\* one before proved of it is no longer fresh.
OfferedAnew ==
    Active /\ Period > Margin => \A a \in batch["sweep"] :
        /\ \A k \in 1..Len(queue) : queue[k] # [addr |-> a, via |-> "sweep"]
        /\ \A w \in Worker : worker[w].pc \in Stages => worker[w].addr # a \/ worker[w].via # "sweep"
        /\ ByTheSweep(a) => eligible(a)

\* Who changes a verdict.
LEMMA VerdictMoves ==
    ASSUME TypeOK, [Next]_vars, ~Tick, ~SweepBegins
    PROVE  \/ UNCHANGED state
           \/ \E w \in Worker, fails \in 0..BackoffMaxShift :
                worker[w].pc \in Stages /\ Judged(worker[w].addr, fails, worker[w].via)
                /\ UNCHANGED <<phase, ticker, queue, batch>>
<1>1. ASSUME NEW w \in Worker, RecordFailure(w)
      PROVE  \E fails \in 0..BackoffMaxShift :
                worker[w].pc \in Stages /\ Judged(worker[w].addr, fails, worker[w].via)
                /\ UNCHANGED <<phase, ticker, queue, batch>>
  <2>1. worker[w].pc \in Stages
    BY <1>1 DEF RecordFailure, At, Stages
  <2>2. worker[w].addr \in Addr
    BY <2>1, Working
  <2>3. FailsAfter(state[worker[w].addr]) \in 0..BackoffMaxShift
    BY <2>2, FailsType DEF TypeOK
  <2> QED
    BY <1>1, <2>1, <2>3 DEF RecordFailure
<1>2. ASSUME NEW w \in Worker, RecordSuccess(w)
      PROVE  \E fails \in 0..BackoffMaxShift :
                worker[w].pc \in Stages /\ Judged(worker[w].addr, fails, worker[w].via)
                /\ UNCHANGED <<phase, ticker, queue, batch>>
  <2>1. worker[w].pc \in Stages /\ 0 \in 0..BackoffMaxShift
    BY <1>2, ConstantTypes DEF RecordSuccess, At, Stages
  <2> QED
    BY <1>2, <2>1 DEF RecordSuccess
<1>3. ASSUME NEW w \in Worker, VerifyStep(w), ~RecordFailure(w), ~RecordSuccess(w) PROVE UNCHANGED state
  BY <1>3 DEF VerifyStep, Take, Consider, Call, DialErrs, DialAnswers, List
<1>4. ASSUME NEW e \in Offerers, OfferStep(e) PROVE UNCHANGED state
  BY <1>4 DEF OfferStep, Abandon, PassOver, Enqueue, DropFull
<1> QED
  BY <1>1, <1>2, <1>3, <1>4
     DEF Next, SweepStep, Offerers, Start, StopBegins, StopEnds, Receive, SweepEnds, SweepQuits, WorkerQuits,
         BookMoves, Connects, Leaves, vars

\* A verdict as it is recorded.
LEMMA JudgedNow ==
    ASSUME TypeOK, NEW a \in Addr, NEW fails \in 0..BackoffMaxShift, NEW via \in Via, Judged(a, fails, via)
    PROVE  /\ state'[a] = [age |-> 0, fails |-> fails, via |-> via]
           /\ \A b \in Addr : b # a => state'[b] = state[b]
    BY DEF Judged, TypeOK

LEMMA AgeType ==
    ASSUME TypeOK, NEW a \in Addr, state[a] # NoVerdict
    PROVE  state[a] \in Verdicts /\ state[a].age \in Nat /\ state[a].fails \in Nat
<1>1. state[a] \in Verdicts /\ VerdictTTL \in Nat /\ BackoffMaxShift \in Nat
  BY ConstantTypes DEF TypeOK
<1> QED
  BY <1>1 DEF Verdicts

LEMMA OldKept ==
    ASSUME TypeOK, TypeOK', DrainInv, ProofsAreOld, [Next]_vars
    PROVE  ProofsAreOld'
<1> DEFINE last == Turns(QueuePerWorker + 1)
<1>0. last \in Nat /\ Elapsed \in Nat /\ Elapsed' \in Nat /\ Period \in Nat
  BY LastTurns, ElapsedType, NextElapsedType
<1> HIDE DEF last
<1>1. CASE Tick
  <2>1. Elapsed' <= Elapsed + 1 /\ (Active' <=> Active)
    <3>1. (Active' <=> Active) /\ ticker' \in {ticker, ticker - 1} /\ ticker \in 0..Period
      BY <1>1 DEF Tick, Active, TypeOK
    <3>2. CASE ticker' = ticker
      BY <1>0, <3>1, <3>2 DEF Elapsed
    <3>3. CASE ticker' = ticker - 1
      BY <1>0, <3>1, <3>3 DEF Elapsed
    <3> QED
      BY <3>1, <3>2, <3>3
  <2>2. ASSUME Active', NEW a \in Addr, ByTheSweep(a)'
        PROVE  state'[a].age > VerdictTTL \/ state'[a].age + last >= Elapsed'
    <3>1. state[a] # NoVerdict /\ state'[a] = [state[a] EXCEPT !.age = Lesser(@ + 1, VerdictTTL + 1)]
      BY <1>1, <2>2 DEF Tick, ByTheSweep
    <3>2. state[a] \in Verdicts /\ state[a].age \in Nat /\ VerdictTTL \in Nat
      BY <3>1, AgeType, ConstantTypes
    <3>3. /\ state'[a].age = Lesser(state[a].age + 1, VerdictTTL + 1)
          /\ state'[a].fails = state[a].fails /\ state'[a].via = state[a].via
      BY <3>1, <3>2 DEF Verdicts
    <3>4. state[a].age > VerdictTTL \/ state[a].age + last >= Elapsed
      BY <2>1, <2>2, <3>1, <3>3 DEF ProofsAreOld, ByTheSweep, last
    <3> QED
      BY <1>0, <2>1, <3>2, <3>3, <3>4 DEF Lesser
  <2> QED
    BY <2>2 DEF ProofsAreOld, last, Turns
<1>2. CASE SweepBegins
  <2>1. Elapsed' = 0 /\ \A a \in Addr : state'[a] \in {state[a], NoVerdict}
    BY <1>0, <1>2 DEF SweepBegins, Elapsed, TypeOK
  <2>2. ASSUME NEW a \in Addr, ByTheSweep(a)' PROVE state'[a].age + last >= Elapsed'
    <3>1. state[a] # NoVerdict /\ state'[a] = state[a]
      BY <2>1, <2>2 DEF ByTheSweep
    <3>2. state'[a].age \in Nat
      BY <3>1, AgeType
    <3> QED
      BY <1>0, <2>1, <3>2
  <2> QED
    BY <2>2 DEF ProofsAreOld, last, Turns
<1>3. CASE ~Tick /\ ~SweepBegins
  <2>1. Elapsed' <= Elapsed /\ (Active' => Active)
    <3>1. ticker' \in {ticker, Period} /\ (Active' => Active)
      <4>1. CASE \E w \in Worker : Take(w)
        BY <4>1 DEF Take, Active
      <4>2. CASE ~\E w \in Worker : Take(w)
        BY <1>3, <4>2, RestStays DEF DrainInv
      <4> QED
        BY <4>1, <4>2
    <3>2. ticker \in 0..Period
      BY DEF TypeOK
    <3>3. CASE ticker' = ticker
      BY <1>0, <3>1, <3>2, <3>3 DEF Elapsed
    <3>4. CASE ticker' = Period
      BY <1>0, <3>1, <3>2, <3>4 DEF Elapsed
    <3> QED
      BY <3>1, <3>3, <3>4
  <2>2. CASE UNCHANGED state
    <3>1. ASSUME Active', NEW a \in Addr, ByTheSweep(a)'
          PROVE  state'[a].age > VerdictTTL \/ state'[a].age + last >= Elapsed'
      <4>1. state[a].age > VerdictTTL \/ state[a].age + last >= Elapsed
        BY <2>1, <2>2, <3>1 DEF ProofsAreOld, ByTheSweep, last
      <4>2. state[a].age \in Nat
        BY <2>2, <3>1, AgeType DEF ByTheSweep
      <4> QED
        BY <1>0, <2>1, <2>2, <4>1, <4>2
    <3> QED
      BY <3>1 DEF ProofsAreOld, last, Turns
  <2>3. ASSUME NEW w \in Worker, NEW fails \in 0..BackoffMaxShift, worker[w].pc \in Stages,
               Judged(worker[w].addr, fails, worker[w].via)
        PROVE  ProofsAreOld'
    <3>1. ASSUME Active', NEW a \in Addr, ByTheSweep(a)'
          PROVE  state'[a].age > VerdictTTL \/ state'[a].age + last >= Elapsed'
      <4>0. worker[w].addr \in Addr /\ worker[w].via \in Via
        BY <2>3, Working
      <4>1. CASE a = worker[w].addr
        <5>1. state'[a] = [age |-> 0, fails |-> fails, via |-> worker[w].via]
          BY <2>3, <4>0, <4>1, JudgedNow
        <5>2. Elapsed + Until(w) <= last
          BY <2>1, <2>3, <3>1, <5>1 DEF DrainInv, TakenInTime, ByTheSweep, last
        <5>3. Until(w) \in Nat
          BY UntilNat
        <5> QED
          BY <1>0, <2>1, <5>1, <5>2, <5>3
      <4>2. CASE a # worker[w].addr
        <5>1. state'[a] = state[a]
          BY <2>3, <4>0, <4>2, JudgedNow
        <5>2. state[a].age > VerdictTTL \/ state[a].age + last >= Elapsed
          BY <2>1, <3>1, <5>1 DEF ProofsAreOld, ByTheSweep, last
        <5>3. state[a].age \in Nat
          BY <3>1, <5>1, AgeType DEF ByTheSweep
        <5> QED
          BY <1>0, <2>1, <5>1, <5>2, <5>3
      <4> QED
        BY <4>1, <4>2
    <3> QED
      BY <3>1 DEF ProofsAreOld, last, Turns
  <2> QED
    BY <1>3, <2>2, <2>3, VerdictMoves
<1> QED
  BY <1>1, <1>2, <1>3

\* The sweep begins with nothing of the last one about, and with proofs that
\* have aged for more than the window.
LEMMA BeginsAnew ==
    ASSUME TypeOK, DrainInv, ProofsAreOld, MarginCovers, SweepBegins
    PROVE  OfferedAnew'
<1>0. Margin \in Nat /\ Period \in Nat /\ Turns(QueuePerWorker + 1) \in Nat
      /\ Turns(QueuePerWorker + 1) <= Margin
  BY LastTurns, ConstantTypes DEF MarginCovers, Turns
<1>1. Elapsed = Period /\ UNCHANGED <<phase, queue, worker>> /\ (Active' <=> Active)
      /\ \A a \in Addr : state'[a] = IF a \in Purgeable THEN NoVerdict ELSE state[a]
  BY <1>0 DEF SweepBegins, Elapsed, Active
<1>2. batch'["sweep"] \subseteq Addr
  BY DEF SweepBegins, TypeOK, Offerers
<1>3. ASSUME Active, NEW a \in Addr, ByTheSweep(a)' PROVE eligible(a)'
  <2>1. /\ state'[a] = state[a] /\ state[a] # NoVerdict /\ state[a].fails = 0
        /\ state[a].age \in Nat /\ ByTheSweep(a)
        /\ ~(state[a].age > VerdictTTL)
    BY <1>1, <1>3, AgeType DEF ByTheSweep, Purgeable
  <2>2. state[a].age + Turns(QueuePerWorker + 1) >= Period
    BY <1>1, <1>3, <2>1 DEF ProofsAreOld
  <2>3. state[a].age >= freshWindow(Period)
    BY <1>0, <2>1, <2>2, FreshWindowFits
  <2> QED
    BY <2>1, <2>3 DEF eligible, waitFor
<1>4. ASSUME Active, Period > Margin
      PROVE  /\ \A k \in 1..Len(queue) : queue[k].via # "sweep"
             /\ \A w \in Worker : worker[w].pc \in Stages => worker[w].via # "sweep"
  <2>1. Elapsed > Turns(QueuePerWorker + 1)
    BY <1>0, <1>1, <1>4
  <2> QED
    BY <1>4, <2>1, DrainedAfterAll
<1>5. ASSUME Active', Period > Margin, NEW a \in batch'["sweep"]
      PROVE  /\ \A k \in 1..Len(queue') : queue'[k] # [addr |-> a, via |-> "sweep"]
             /\ \A w \in Worker : worker'[w].pc \in Stages => worker'[w].addr # a \/ worker'[w].via # "sweep"
             /\ ByTheSweep(a)' => eligible(a)'
  BY <1>1, <1>2, <1>3, <1>4, <1>5
<1> QED
  BY <1>5 DEF OfferedAnew

LEMMA AnewKept ==
    ASSUME TypeOK, TypeOK', DrainInv, OfferedAnew, [Next]_vars, ~SweepBegins
    PROVE  OfferedAnew'
<1>0. batch["sweep"] \subseteq Addr /\ batch'["sweep"] \subseteq Addr
  BY DEF TypeOK, Offerers
<1>1. CASE Tick
  <2>1. batch'["sweep"] = {}
    BY <1>1 DEF Tick, NothingDue, Offerers
  <2> QED
    BY <2>1 DEF OfferedAnew
<1>2. ASSUME ~Tick PROVE batch'["sweep"] \subseteq batch["sweep"]
  <2>1. ASSUME NEW e \in Offerers, OfferStep(e) PROVE batch'["sweep"] \subseteq batch["sweep"]
    <3>1. batch' = [batch EXCEPT ![e] = {}] \/ \E a \in Addr : batch' = [batch EXCEPT ![e] = @ \ {a}]
      BY <2>1 DEF OfferStep, Abandon, PassOver, Enqueue, DropFull, Left
    <3> QED
      BY <3>1 DEF TypeOK, Offerers
  <2>2. ASSUME NEW r \in Receiver, NEW S \in Batches, Receive(r, S) PROVE batch'["sweep"] \subseteq batch["sweep"]
    <3>1. batch' \in {batch, [batch EXCEPT ![r] = S]} /\ r # "sweep"
      BY <2>2, VerifyAssumption DEF Receive
    <3> QED
      BY <3>1 DEF TypeOK, Offerers
  <2>3. ASSUME NEW w \in Worker, VerifyStep(w) \/ WorkerQuits(w) PROVE UNCHANGED batch
    BY <2>3 DEF VerifyStep, WorkerQuits, Take, Consider, Call, DialErrs, DialAnswers, RecordFailure, List,
       RecordSuccess, Judged
  <2> QED
    BY <1>2, <2>1, <2>2, <2>3
       DEF Next, SweepStep, Offerers, Start, StopBegins, StopEnds, SweepEnds, SweepQuits,
           BookMoves, Connects, Leaves, vars
<1>3. ASSUME ~Tick, Active', Period > Margin, NEW a \in batch'["sweep"]
      PROVE  /\ Active /\ a \in Addr
             /\ \A k \in 1..Len(queue) : queue[k] # [addr |-> a, via |-> "sweep"]
             /\ \A w \in Worker : worker[w].pc \in Stages => worker[w].addr # a \/ worker[w].via # "sweep"
             /\ ByTheSweep(a) => eligible(a)
  <2>1. Active
    <3>1. CASE \E w \in Worker : Take(w)
      BY <1>3, <3>1 DEF Take, Active
    <3>2. CASE ~\E w \in Worker : Take(w)
      BY <1>3, <3>2, RestStays DEF DrainInv
    <3> QED
      BY <3>1, <3>2
  <2>2. a \in batch["sweep"]
    BY <1>2, <1>3
  <2> QED
    BY <1>0, <1>3, <2>1, <2>2 DEF OfferedAnew
<1>4. ASSUME ~Tick, Active', Period > Margin, NEW a \in batch'["sweep"], ByTheSweep(a)'
      PROVE  eligible(a)'
  <2>1. CASE UNCHANGED state
    <3>1. ByTheSweep(a)
      BY <1>4, <2>1 DEF ByTheSweep
    <3>2. eligible(a)
      BY <1>3, <1>4, <3>1
    <3> QED
      BY <2>1, <3>2 DEF eligible
  <2>2. ASSUME NEW w \in Worker, NEW fails \in 0..BackoffMaxShift, worker[w].pc \in Stages,
               Judged(worker[w].addr, fails, worker[w].via)
        PROVE  eligible(a)'
    <3>1. worker[w].addr \in Addr /\ worker[w].via \in Via
      BY <2>2, Working
    <3>2. CASE a = worker[w].addr
      <4>1. worker[w].via = "sweep"
        <5>1. state'[a] = [age |-> 0, fails |-> fails, via |-> worker[w].via]
          BY <2>2, <3>1, <3>2, JudgedNow
        <5>2. state'[a].via = "sweep"
          BY <1>4 DEF ByTheSweep
        <5> QED
          BY <5>1, <5>2
      <4> QED
        BY <1>3, <1>4, <2>2, <3>2, <4>1
    <3>3. CASE a # worker[w].addr
      <4>1. state'[a] = state[a]
        BY <1>3, <1>4, <2>2, <3>1, <3>3, JudgedNow
      <4>2. ByTheSweep(a)
        BY <1>4, <4>1 DEF ByTheSweep
      <4>3. eligible(a)
        BY <1>3, <1>4, <4>2
      <4> QED
        BY <4>1, <4>3 DEF eligible
    <3> QED
      BY <3>2, <3>3
  <2> QED
    BY <1>4, <2>1, <2>2, VerdictMoves
<1>5. ASSUME ~Tick, Active', Period > Margin, NEW a \in batch'["sweep"], NEW k \in 1..Len(queue'),
             queue'[k] = [addr |-> a, via |-> "sweep"]
      PROVE  FALSE
  <2>0. queue \in Seq(Offers) /\ Len(queue) \in Nat
    BY DEF TypeOK
  <2>1. CASE \E w \in Worker : Take(w)
    <3>1. queue # <<>> /\ queue' = Tail(queue)
      BY <2>1 DEF Take
    <3>2. k + 1 \in 1..Len(queue) /\ queue[k + 1] = queue'[k]
      BY <1>5, <2>0, <3>1
    <3> QED
      BY <1>3, <1>5, <3>2
  <2>2. CASE UNCHANGED queue
    BY <1>3, <1>5, <2>2
  <2>3. ASSUME NEW b \in Addr, NEW via \in Via, queue' = Append(queue, [addr |-> b, via |-> via]),
               via = "sweep" => b \notin batch'["sweep"]
        PROVE  FALSE
    <3>1. Len(queue') = Len(queue) + 1 /\ queue'[Len(queue) + 1] = [addr |-> b, via |-> via]
          /\ \A i \in 1..Len(queue) : queue'[i] = queue[i]
      BY <2>0, <2>3
    <3>2. CASE k = Len(queue) + 1
      BY <1>5, <2>3, <3>1, <3>2
    <3>3. CASE k # Len(queue) + 1
      <4>1. k \in 1..Len(queue)
        BY <1>5, <2>0, <3>1, <3>3
      <4> QED
        BY <1>3, <1>5, <3>1, <4>1
    <3> QED
      BY <3>2, <3>3
  <2> QED
    BY <1>5, <2>1, <2>2, <2>3, RestStays DEF DrainInv
<1>6. ASSUME ~Tick, Active', Period > Margin, NEW a \in batch'["sweep"], NEW w \in Worker,
             worker'[w].pc \in Stages, worker'[w].addr = a, worker'[w].via = "sweep"
      PROVE  FALSE
  <2>1. ASSUME NEW v \in Worker, Take(v) PROVE FALSE
    <3>1. CASE v = w
      <4>1. queue \in Seq(Offers) /\ queue # <<>> /\ Head(queue) \in Offers
            /\ worker'[w].addr = Head(queue).addr /\ worker'[w].via = Head(queue).via
        BY <2>1, <3>1 DEF Take, TypeOK
      <4>2. 1 \in 1..Len(queue) /\ queue[1] = [addr |-> a, via |-> "sweep"]
        BY <1>6, <4>1 DEF Offers
      <4> QED
        BY <1>3, <1>6, <4>2
    <3>2. CASE v # w
      <4>1. worker'[w] = worker[w]
        BY <2>1, <3>2 DEF Take, TypeOK
      <4> QED
        BY <1>3, <1>6, <4>1
    <3> QED
      BY <3>1, <3>2
  <2>2. CASE \A v \in Worker : ~Take(v)
    <3>1. GoesOn(w)
      BY <1>6, <2>2, WorkersGoOn
    <3>2. worker[w].pc \in Stages /\ worker[w].addr = a /\ worker[w].via = "sweep"
      BY <1>6, <3>1 DEF GoesOn
    <3> QED
      BY <1>3, <1>6, <3>2
  <2> QED
    BY <2>1, <2>2
<1>7. CASE ~Tick
  BY <1>4, <1>5, <1>6, <1>7 DEF OfferedAnew
<1> QED
  BY <1>1, <1>7

\* freshWindow: what a sweep proves the next one judges again.  The induction
\* needs to know where every address the sweep has queued is: in the queue it
\* has an opening, with a worker its turn has a bound, and both are over before
\* the next sweep begins, as MarginCovers says of the code's constants.
THEOREM ServedAreRejudged == ASSUME MarginCovers PROVE Spec => []ServedIsRejudged
<1> DEFINE Inv == ProofsAreOld /\ OfferedAnew
<1>1. Init => Inv
  BY DEF Init, Inv, ProofsAreOld, OfferedAnew, ByTheSweep, Offerers
<1>2. TypeOK /\ TypeOK' /\ DrainInv /\ Inv /\ [Next]_vars => Inv'
  <2> SUFFICES ASSUME TypeOK, TypeOK', DrainInv, Inv, [Next]_vars PROVE Inv'
    OBVIOUS
  <2>1. ProofsAreOld'
    BY OldKept
  <2>2. OfferedAnew'
    BY BeginsAnew, AnewKept
  <2> QED
    BY <2>1, <2>2
<1>3. TypeOK /\ Inv => ServedIsRejudged
  <2> SUFFICES ASSUME TypeOK, Inv, phase = "running", NEW a \in batch["sweep"], ByTheSweep(a)
               PROVE  eligible(a)
    BY DEF ServedIsRejudged, ByTheSweep
  <2>1. CASE Period > Margin
    BY <2>1 DEF OfferedAnew, Active
  <2>2. CASE ~(Period > Margin)
    <3>1. freshWindow(Period) = 0
      BY <2>2, ConstantTypes DEF freshWindow
    <3>2. a \in Addr /\ state[a] # NoVerdict /\ state[a].fails = 0
      BY DEF TypeOK, Offerers, ByTheSweep
    <3>3. state[a].age \in Nat
      BY <3>2, AgeType
    <3> QED
      BY <3>1, <3>2, <3>3 DEF eligible, waitFor
  <2> QED
    BY <2>1, <2>2
<1> HIDE DEF Inv
<1> QED
  BY <1>1, <1>2, <1>3, DrainHolds, VerifyTypeCorrect, PTL DEF Spec
=============================================================================
