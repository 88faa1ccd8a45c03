------------------------------ MODULE SeedSweep ------------------------------
(***************************************************************************)
(* How a TM2 seed keeps what it serves proven (seedreactortm2.go): the     *)
(* hand-over at start-up, the sweep on peer_check_period, the cycle that   *)
(* closes connections, and the book they read and mark.                    *)
(*                                                                         *)
(* The switch they talk to is not this repository's code.  It is modelled  *)
(* from what the reactor relies on: a set of peers by node identity, a     *)
(* queue of addresses to dial that checks the outbound limit only when an  *)
(* address is handed over, and one loop that dials them in turn.           *)
(***************************************************************************)
EXTENDS Answers

CONSTANTS
    Answering,     \* the addresses where the node named answers
    Visitors,      \* the identities that may connect to this seed
    Heard,         \* the sets of addresses an answer may bring
    InitialBooks,  \* what the book may hold when the process starts
    Period,        \* peer_check_period; 0 disables the sweep
    DialCost,      \* what one address costs the switch at worst
    MaxOutbound,   \* max_num_outbound_peers
    MaxServed,     \* maxAddressesServed
    Wait,          \* seed_disconnect_wait_period; 0 disables the cycle
    CycleFloor, CycleCeiling,  \* cycleIntervalFloor and cycleIntervalCeiling
    FreshFactor,   \* freshnessFactor
    FailLimit,     \* maxConsecutiveFailures
    Origin,        \* the clock when the process first starts
    MaxTime,       \* bound on the clock
    MaxQueue,      \* bound on the dial queue, which has none
    MaxFails,      \* bound on the failures on record, when a restart comes
                   \* before each drop
    Faults         \* what may go wrong: see Disturbances

\* "late": loops run after they are due and dials outlast DialCost; "dial": a
\* node that answers may fail once; "leave": a peer this seed dialled leaves;
\* "restart": the process stops and starts again.
Disturbances == {"late", "dial", "leave", "restart"}

ASSUME SweepAssumption ==
    /\ Answering \subseteq Addr /\ Visitors \subseteq Id
    /\ Heard \subseteq SUBSET Addr /\ InitialBooks \subseteq Books
    /\ \A b \in InitialBooks : Held(b) \subseteq Taken(Addr)
    /\ {Period, Wait, CycleCeiling, MaxTime, MaxQueue, MaxFails} \subseteq Nat
    /\ CycleFloor <= CycleCeiling
    /\ {CycleFloor, DialCost, MaxOutbound, MaxServed, FreshFactor, FailLimit, Origin} \subseteq Nat \ {0}
    /\ Faults \subseteq Disturbances

VARIABLES
    up,         \* the reactor runs
    now,        \* the clock
    peers,      \* the book
    conn,       \* the switch's peers: what connection each identity has
    queue,      \* the switch's dial queue
    dial,       \* the switch's dial loop
    sweep,      \* the sweep: where it stands in a pass, and with what
    nextPass,   \* the next tick of the sweep
    nextCycle,  \* the next tick of the cycle
    learnt,     \* what the handler of each peer has put in the book and has yet
                \* to hand to the switch
    reached,    \* history: the addresses some dial of this seed has reached
    lost,       \* history: dials of an address that failed since its success
    dialled,    \* history: the addresses the switch has dialled in this process
    declined    \* history: those it was handed and would not dial in this process

vars == <<up, now, peers, conn, queue, dial, sweep, nextPass, nextCycle, learnt,
          reached, lost, dialled, declined>>

NothingLearnt == [i \in Id |-> {}]

NoConn == [kind |-> "none", addr |-> NoRecord, since |-> 0]
Conns == [kind : {"none", "in", "out"}, addr : Addr \cup {NoRecord}, since : Nat]
DialStates == [pc : {"idle", "dialing", "adding"}, addr : Addr \cup {NoRecord}, since : Nat]
DialIdle == [pc |-> "idle", addr |-> NoRecord, since |-> 0]

\* A pass: what is left to mark, and what is handed over once all is marked.
SweepStates == [pc : {"idle", "marking", "dropping"}, left : Seq(Addr), batch : Seq(Addr)]
SweepIdle == [pc |-> "idle", left |-> <<>>, batch |-> <<>>]

TypeOK ==
    /\ up \in BOOLEAN /\ now \in Nat /\ nextPass \in Nat /\ nextCycle \in Nat
    /\ peers \in Books
    /\ conn \in [Id -> Conns]
    /\ queue \in Seq(Addr)
    /\ dial \in DialStates
    /\ sweep \in SweepStates
    /\ learnt \in [Id -> SUBSET Addr]
    /\ reached \subseteq Addr /\ dialled \subseteq Addr /\ declined \subseteq Addr
    /\ lost \in [Addr -> Nat]

-----------------------------------------------------------------------------
(* Windows and budgets.                                                    *)

AtLeast(x, floor) == IF x < floor THEN floor ELSE x
AtMost(x, ceiling) == IF x > ceiling THEN ceiling ELSE x

freshness == Period * FreshFactor
renewalWindow == IF freshness > Period THEN freshness - Period ELSE Period

cycleInterval == AtMost(AtLeast(Wait, CycleFloor), CycleCeiling)

NumOutbound == Cardinality({i \in Id : conn[i].kind = "out"})
\* Mutant of sweepBudget: the configured limit, not the free slots.
LimitBudget == AtMost(MaxOutbound, Period \div DialCost)

sweepBudget == AtMost(AtLeast(MaxOutbound - NumOutbound, 0), Period \div DialCost)

\* How many addresses may be called fresh: what can be proven again in time.
provableBatch == AtLeast(AtMost(MaxOutbound, Period \div DialCost), 1)

servableCeiling ==
    IF Period = 0 THEN MaxServed ELSE AtMost(provableBatch * FreshFactor, MaxServed)

\* selection: every batch an answer may be drawn from now.
Batches == FreshBatches(peers, now, freshness, servableCeiling)

\* What the switch's loop owes at once: to take the next address, to tell the
\* reactor of a peer, to give up a dial that has cost all it may.
Late == "late" \in Faults
DialDue ==
    \/ dial.pc = "idle" /\ queue # <<>>
    \/ dial.pc = "adding"
    \/ dial.pc = "dialing" /\ now >= dial.since + DialCost

\* The next tick of a ticker whose tick `due` is taken now: the ticks missed
\* meanwhile are dropped, but for one.
Ticked(due, interval) == AtLeast(due + interval, now - ((now - due) % interval))

\* Has(addr.ID), and what a held connection of ours to that identity proves.
Connected(a) == conn[IdOf[a]].kind # "none"

\* Mutant of ProvenByConnection: an inbound connection is a proof too.
ProvenByAny(a) == Connected(a)

ProvenByConnection(a) == conn[IdOf[a]].kind = "out"

NotConnected(S) == {a \in S : ~Connected(a)}

\* The sequences in which a slice of the set S, sorted by a key, may come.
Sorted(S, key) ==
    {s \in [1..Cardinality(S) -> S] :
        \A i, j \in DOMAIN s : i < j => s[i] # s[j] /\ key[s[i]] <= key[s[j]]}

News == [a \in Held(peers) |-> LastNews(peers[a])]
Oldness == [a \in Held(peers) |-> now - peers[a].lastOK]
First(s, n) == SubSeq(s, 1, AtMost(Len(s), n))

-----------------------------------------------------------------------------
(* The switch.                                                             *)

\* The members of s other than this node, in their order: the one sequence there
\* is, in a set because it is told by where in s each of them stands.
OthersIn(s) ==
    LET others == {k \in DOMAIN s : s[k] \notin SameAsSelf}
    IN  {[i \in DOMAIN at |-> s[at[i]]] : at \in Sorted(others, [k \in others |-> k])}

\* Over its outbound limit the switch discards what it is handed; otherwise it
\* queues it, whatever the queue holds, leaving this node out.
HandedTo(s) ==
    IF NumOutbound >= MaxOutbound THEN {queue} ELSE {queue \o t : t \in OthersIn(s)}

DialPeers(s) ==
    /\ queue' \in HandedTo(s)
    /\ declined' = IF NumOutbound >= MaxOutbound THEN declined \cup Members(s) ELSE declined

\* The loop takes the next address, unless that identity is connected.
DialPop ==
    /\ up /\ dial.pc = "idle" /\ queue # <<>>
    /\ queue' = Tail(queue)
    /\ IF Connected(Head(queue))
       THEN /\ declined' = declined \cup {Head(queue)}
            /\ UNCHANGED <<dial, dialled>>
       ELSE /\ dial' = [pc |-> "dialing", addr |-> Head(queue), since |-> now]
            /\ dialled' = dialled \cup {Head(queue)}
            /\ UNCHANGED declined
    /\ UNCHANGED <<up, now, peers, conn, sweep, nextPass, nextCycle, learnt, reached, lost>>

\* The handshake is done: the peer is in the switch's set.
DialReaches ==
    /\ up /\ dial.pc = "dialing" /\ dial.addr \in Answering /\ ~Connected(dial.addr)
    /\ conn' = [conn EXCEPT ![IdOf[dial.addr]] = [kind |-> "out", addr |-> dial.addr, since |-> now]]
    /\ dial' = [dial EXCEPT !.pc = "adding"]
    /\ reached' = reached \cup {dial.addr}
    /\ UNCHANGED <<up, now, peers, queue, sweep, nextPass, nextCycle, learnt, lost, dialled, declined>>

\* Nobody there, no handshake, or an identity that has connected meanwhile.
\* The switch reports nothing.
DialFails ==
    /\ up /\ dial.pc = "dialing"
    /\ (dial.addr \notin Answering \/ "dial" \in Faults \/ Connected(dial.addr))
    /\ dial' = DialIdle
    /\ lost' = [lost EXCEPT ![dial.addr] = AtMost(@ + 1, FailLimit)]
    /\ UNCHANGED <<up, now, peers, conn, queue, sweep, nextPass, nextCycle, learnt, reached, dialled, declined>>

\* AddPeer of an outbound peer: its address is a success.
AddPeer ==
    /\ up /\ dial.pc = "adding"
    /\ peers' = IF admissible(dial.addr) THEN Succeeded(peers, dial.addr, now) ELSE peers
    /\ lost' = [lost EXCEPT ![dial.addr] = 0]
    /\ dial' = DialIdle
    /\ UNCHANGED <<up, now, conn, queue, sweep, nextPass, nextCycle, learnt, reached, dialled, declined>>

\* A peer connects to this seed: AddPeer does nothing of it.
Visit(i) ==
    /\ up /\ i \in Visitors /\ conn[i].kind = "none"
    /\ conn' = [conn EXCEPT ![i] = [NoConn EXCEPT !.kind = "in", !.since = now]]
    /\ UNCHANGED <<up, now, peers, queue, dial, sweep, nextPass, nextCycle, learnt, reached, lost, dialled, declined>>

Leave(i) ==
    /\ up /\ conn[i].kind # "none" /\ (conn[i].kind = "out" => "leave" \in Faults)
    /\ conn' = [conn EXCEPT ![i] = NoConn]
    /\ UNCHANGED <<up, now, peers, queue, dial, sweep, nextPass, nextCycle, learnt, reached, lost, dialled, declined>>

-----------------------------------------------------------------------------
(* The reactor.                                                            *)

\* Mutant of AtStart: the whole book, the sweep running or not.
WholeBook == Sorted(Held(peers), [a \in Held(peers) |-> 0])

\* Mutant of AtStart: a budget whether there is a sweep or not.
WithinBudget ==
    {First(s, sweepBudget) : s \in Sorted(FreshSet(peers, now, renewalWindow), Oldness)}

\* What OnStart hands over: with a sweep, what is still proven, within one
\* budget (a limit of zero is no limit); without, the whole book.
AtStart ==
    IF Period > 0
    THEN LET limit == IF sweepBudget > 0 THEN sweepBudget ELSE Cardinality(Addr)
         IN  {First(s, limit) : s \in Sorted(FreshSet(peers, now, renewalWindow), Oldness)}
    ELSE Sorted(Held(peers), [a \in Held(peers) |-> 0])

\* OnStart; the first pass of the sweep is due at once.
Start ==
    /\ ~up
    /\ up' = TRUE
    /\ \E s \in AtStart : DialPeers(s)
    /\ nextPass' = now
    /\ nextCycle' = now + cycleInterval
    /\ UNCHANGED <<now, peers, conn, dial, sweep, learnt, reached, lost, dialled>>

\* OnStop, its flush having saved the book, and the end of the process.
Stop ==
    /\ up /\ "restart" \in Faults
    /\ \A a \in Held(peers) : peers[a].fails < MaxFails
    /\ up' = FALSE
    /\ conn' = [i \in Id |-> NoConn]
    /\ queue' = <<>>
    /\ dial' = DialIdle
    /\ sweep' = SweepIdle
    /\ learnt' = NothingLearnt
    /\ dialled' = {} /\ declined' = {}
    /\ UNCHANGED <<now, peers, nextPass, nextCycle, reached, lost>>

\* dialable(): what is connected is not to dial, and is proven if we dialled it.
Renewed(S) ==
    [a \in Addr |-> IF a \in S /\ Connected(a) /\ ProvenByConnection(a)
                    THEN Succeeded(peers, a, now)[a] ELSE peers[a]]

\* The first half of sweepOnce: the batches are read and cut.
SweepPlan ==
    /\ up /\ Period > 0 /\ sweep.pc = "idle" /\ now >= nextPass
    /\ (~Late => ~DialDue)
    /\ LET proven == StaleProven(peers, now, renewalWindow)
           unproven == StaleUnproven(peers)
       IN  /\ \E r \in Sorted(NotConnected(proven), News),
                 e \in Sorted(NotConnected(unproven), News) :
                LET renewed == First(r, sweepBudget)
                    batch == renewed \o First(e, sweepBudget - Len(renewed))
                IN  sweep' = [pc |-> "marking", left |-> batch, batch |-> batch]
           /\ peers' = Renewed(proven \cup unproven)
    /\ nextPass' = Ticked(nextPass, Period)
    /\ UNCHANGED <<up, now, conn, queue, dial, nextCycle, learnt, reached, lost, dialled, declined>>

SweepMark ==
    /\ up /\ sweep.pc = "marking" /\ sweep.left # <<>>
    /\ peers' = IF admissible(Head(sweep.left)) THEN Attempted(peers, Head(sweep.left), now) ELSE peers
    /\ sweep' = [sweep EXCEPT !.left = Tail(@)]
    /\ UNCHANGED <<up, now, conn, queue, dial, nextPass, nextCycle, learnt, reached, lost, dialled, declined>>

SweepHandOver ==
    /\ up /\ sweep.pc = "marking" /\ sweep.left = <<>>
    /\ DialPeers(sweep.batch)
    /\ sweep' = [SweepIdle EXCEPT !.pc = "dropping"]
    /\ UNCHANGED <<up, now, peers, conn, dial, nextPass, nextCycle, learnt, reached, lost, dialled>>

SweepDrop ==
    /\ up /\ sweep.pc = "dropping"
    /\ peers' = Without(peers, Failing(peers, FailLimit))
    /\ sweep' = SweepIdle
    /\ UNCHANGED <<up, now, conn, queue, dial, nextPass, nextCycle, learnt, reached, lost, dialled, declined>>

\* learn: only a peer this seed dialled is asked.  What it announces goes into
\* the book; without a sweep it is to go to the switch as well, in a call of its
\* own.  One answer of a peer is learnt at a time.
Learn(i, S) ==
    /\ up /\ conn[i].kind = "out" /\ S # {} /\ learnt[i] = {}
    /\ (Period = 0 => Len(queue) < MaxQueue)
    /\ \E D \in Evictable(Added(peers, S, now)) : peers' = Without(Added(peers, S, now), D)
    /\ learnt' = IF Period > 0 THEN learnt ELSE [learnt EXCEPT ![i] = S]
    /\ UNCHANGED <<up, now, conn, queue, dial, sweep, nextPass, nextCycle, reached, lost, dialled, declined>>

\* The same handler goes on, whatever has become of its peer meanwhile.
LearnDials(i) ==
    /\ up /\ Period = 0 /\ learnt[i] # {}
    /\ \E s \in Sorted(learnt[i], [a \in learnt[i] |-> 0]) : DialPeers(s)
    /\ learnt' = [learnt EXCEPT ![i] = {}]
    /\ UNCHANGED <<up, now, peers, conn, dial, sweep, nextPass, nextCycle, reached, lost, dialled>>

\* Mutant of Overdue: only the peers this seed dialled.
OverdueDialled == {i \in Id : conn[i].kind = "out" /\ now - conn[i].since >= Wait}

\* cycleOnce: every connection that has lasted the wait.
Overdue == {i \in Id : conn[i].kind # "none" /\ now - conn[i].since >= Wait}

Cycle ==
    /\ up /\ Wait > 0 /\ now >= nextCycle
    /\ conn' = [i \in Id |-> IF i \in Overdue THEN NoConn ELSE conn[i]]
    /\ nextCycle' = Ticked(nextCycle, cycleInterval)
    /\ UNCHANGED <<up, now, peers, queue, dial, sweep, nextPass, learnt, reached, lost, dialled, declined>>

\* hangUp, with no wait: a peer that has asked and was answered is closed.
HangUp(i) ==
    /\ up /\ Wait = 0 /\ conn[i].kind # "none"
    /\ conn' = [conn EXCEPT ![i] = NoConn]
    /\ UNCHANGED <<up, now, peers, queue, dial, sweep, nextPass, nextCycle, learnt, reached, lost, dialled, declined>>

-----------------------------------------------------------------------------
\* Nothing that is due is left waiting: the switch dials, the sweep passes, a
\* handler goes on.
NothingDue ==
    /\ up
    /\ ~DialDue
    /\ learnt = NothingLearnt
    /\ sweep.pc = "idle" /\ (Period > 0 => now < nextPass)
    /\ (Wait > 0 => now < nextCycle)

Tick ==
    /\ now < MaxTime
    /\ (~Late => NothingDue)
    /\ now' = now + 1
    /\ UNCHANGED <<up, peers, conn, queue, dial, sweep, nextPass, nextCycle, learnt, reached, lost, dialled, declined>>

Init ==
    /\ up = FALSE
    /\ now = Origin
    /\ peers \in InitialBooks
    /\ conn = [i \in Id |-> NoConn]
    /\ queue = <<>>
    /\ dial = DialIdle
    /\ sweep = SweepIdle
    /\ nextPass = 0
    /\ nextCycle = 0
    /\ learnt = NothingLearnt
    /\ dialled = {} /\ declined = {}
    /\ reached = {a \in Held(peers) : Reached(peers[a])}
    /\ lost = [a \in Addr |-> IF a \in Held(peers) THEN peers[a].fails ELSE 0]

Next ==
    \/ Start \/ Stop
    \/ DialPop \/ DialReaches \/ DialFails \/ AddPeer
    \/ \E i \in Id : Visit(i) \/ Leave(i) \/ HangUp(i)
    \/ SweepPlan \/ SweepMark \/ SweepHandOver \/ SweepDrop
    \/ \E i \in Id : LearnDials(i) \/ \E S \in Heard : Learn(i, S)
    \/ Cycle \/ Tick

Spec == Init /\ [][Next]_vars

-----------------------------------------------------------------------------
(* Properties.                                                             *)

\* What an answer may be drawn from.
Served == FreshSet(peers, now, freshness)

\* selection() promises that only reached addresses are served: whatever the
\* sweep, the switch, the visitors and the answers do, an address is only
\* fresh if a dial of this seed has reached that very address.
ServedWereReached == Served \subseteq reached

\* selection(): whoever asks is handed other nodes only, each once, and never a
\* second address of a network group while a group that has one to give has
\* been given less; and whatever may be served is in some answer, so that no
\* address this seed has proven is kept from every requester by the cut.
AnswersAreSpread == Batches \subseteq FairBatches

\* A failure is deduced from an attempt no success followed.  An address this
\* seed is connected to, and has been told of, has none on record, so that a
\* sweep cannot drop it, even when the mark of an older batch lands after the
\* connection.
ConnectedUnblamed ==
    \A i \in Id :
        LET a == conn[i].addr
        IN  conn[i].kind = "out" /\ ~(dial.pc = "adding" /\ dial.addr = a) /\ a \in Held(peers)
                => peers[a].fails = 0

\* An attempt is marked only for an address really dialled: no more failures
\* are on record than dials of the address have failed since it was reached.
FailuresWereDialled == \A a \in Held(peers) : peers[a].fails <= lost[a]

\* max_num_outbound_peers is the maximum number of outbound connections, and
\* neither the start nor a sweep hands over what would exceed it.
OutboundWithinLimit == NumOutbound <= MaxOutbound

\* The dial queue has no bound of its own and is not deduplicated; the budget
\* of a pass keeps it within what a period can dial.
QueueWithinPeriod ==
    LET waiting == IF dial.pc = "dialing" THEN <<dial.addr>> \o queue ELSE queue
    IN  Len(waiting) * DialCost <= Period

\* Every connection, whoever opened it and whatever it asks, is closed within
\* the wait and one interval of the cycle.
NoneOverstays ==
    \A i \in Id : conn[i].kind # "none" => now - conn[i].since <= Wait + cycleInterval

\* Without a sweep nothing is ever forgotten: since the process last started the
\* switch has dialled every address the book holds, or has it waiting, or is
\* about to be handed it by whoever learnt it; or has declined it, its node being
\* connected or the outbound limit reached.
KnownAreTried ==
    up => \A a \in Held(peers) \ SameAsSelf :
              \/ a \in dialled \cup declined
              \/ \E k \in DOMAIN queue : queue[k] = a
              \/ \E i \in Id : a \in learnt[i]
=============================================================================
