------------------------------ MODULE SeedVerify ------------------------------
(***************************************************************************)
(* The verification of a TM1 seed (seedreactor.go): the bounded queue that *)
(* arriving answers and the periodic sweep offer addresses to, the workers *)
(* that dial them, the verdicts they leave behind, and Stop.               *)
(*                                                                         *)
(* Everything this code keys is keyed by node identity - the verdicts, the *)
(* core's book, the switch's peers and dials - so an address is its        *)
(* identity here.  The book, the switch and its dials belong to the core.  *)
(* They are modelled from what verify, purge and dialOutcome rely on.      *)
(*                                                                         *)
(* No clock is needed: the code only ever asks how old a verdict is, and   *)
(* forgets it past verifyStateTTL.  Ages and the ticker are counted.       *)
(***************************************************************************)
EXTENDS Integers, Sequences, FiniteSets

CONSTANTS
    Addr,             \* addresses, each one an identity
    Own,              \* this seed's own, if some peer announces it
    Callers,          \* those whose node connects by itself, or that the
                      \* core's crawler dials
    Doubtful,         \* those the core's crawler may evict or ban
    Worker, Receiver, \* the pool, and the goroutines that read a peer
    Batches,          \* what one message may bring
    Period,           \* peer_check_period; 0 disables verification
    Margin,           \* verifySweepMargin
    BackoffCap, BackoffMaxShift,
    QueuePerWorker,
    DialCost,         \* the longest a dial may take
    NoVerdict

VerdictTTL == 2 * BackoffCap
\* Mutant of Capacity: room for what the workers have in hand as well.
CapacityAndHand == Cardinality(Worker) * (QueuePerWorker + 1)

Capacity == Cardinality(Worker) * QueuePerWorker

ASSUME VerifyAssumption ==
    /\ {Own, Callers, Doubtful} \subseteq SUBSET Addr
    /\ Batches \subseteq SUBSET Addr
    /\ IsFiniteSet(Worker) /\ Worker # {} /\ "sweep" \notin Receiver
    /\ {Period, BackoffMaxShift} \subseteq Nat
    /\ {Margin, BackoffCap, QueuePerWorker, DialCost} \subseteq Nat \ {0}
    /\ NoVerdict \notin [age : Nat, fails : Nat, via : {"arrival", "sweep"}]
\* 1<<fails stays a number of seconds as far as it is computed.
ASSUME ShiftAssumption == \A n \in 0..BackoffMaxShift : 2^n \in Nat

VARIABLES
    phase,   \* of the reactor: new, running, stopping (quit closed), stopped
    book,    \* the core's book: what it holds and what it has banned
    linked,  \* the identities connected to this seed, its own dials apart
    state,   \* the verdict map
    queue,   \* the channel the workers read
    worker,  \* what each worker is doing, to which address
    batch,   \* what each caller of enqueue has still to offer
    sweep,   \* the sweep goroutine
    ticker,  \* what is left of the sweep's period
    owed,    \* history: what is left of the wait the last verdict imposed
    silent   \* history: addresses a dial has found not to answer

vars == <<phase, book, linked, state, queue, worker, batch, sweep, ticker, owed, silent>>

Via == {"arrival", "sweep"}
Verdicts == [age : 0..VerdictTTL + 1, fails : 0..BackoffMaxShift, via : Via]
Offers == [addr : Addr, via : Via]
Offerers == Receiver \cup {"sweep"}

\* gone: not started, or returned.  judging: taken off the queue.  calling:
\* found eligible.  dialing.  failed: the dial was a verdict against it.
\* listing, proving: the peer answered and is connected.
Stages == {"judging", "calling", "dialing", "failed", "listing", "proving"}
Workers ==
    [pc : {"gone", "idle"}, addr : {NoVerdict}, via : {"arrival"}, since : {0}]
    \cup [pc : Stages, addr : Addr, via : Via, since : Nat]
Resting == [pc |-> "idle", addr |-> NoVerdict, via |-> "arrival", since |-> 0]
Gone == [Resting EXCEPT !.pc = "gone"]

TypeOK ==
    /\ phase \in {"new", "running", "stopping", "stopped"}
    /\ book \in [Addr -> {"absent", "held", "banned"}]
    /\ linked \subseteq Addr
    /\ state \in [Addr -> Verdicts \cup {NoVerdict}]
    /\ queue \in Seq(Offers) /\ Len(queue) <= Capacity
    /\ worker \in [Worker -> Workers]
    /\ batch \in [Offerers -> SUBSET Addr]
    /\ sweep \in {"gone", "waiting", "offering"}
    /\ ticker \in 0..Period
    /\ owed \in [Addr -> Nat]
    /\ silent \subseteq Addr

-----------------------------------------------------------------------------
(* Waits.                                                                  *)

Lesser(x, y) == IF x < y THEN x ELSE y

\* Mutant of freshWindow: a verdict is trusted until the next sweep.
wholePeriod(period) == period

freshWindow(period) ==
    IF period <= Margin THEN 0 ELSE Lesser(period \div 2, period - Margin)

backoffFor(fails) ==
    IF fails >= BackoffMaxShift THEN BackoffCap ELSE Lesser(2^fails, BackoffCap)

waitFor(fails) == IF fails = 0 THEN freshWindow(Period) ELSE backoffFor(fails)

\* No verdict, or its wait is over.
eligible(a) == state[a] # NoVerdict => state[a].age >= waitFor(state[a].fails)

-----------------------------------------------------------------------------
(* Queueing.                                                               *)

\* The core's part of the reactor runs: Stop ends it last.
Live == phase \in {"running", "stopping"}

Start ==
    /\ phase = "new"
    /\ phase' = "running"
    /\ IF Period > 0
       THEN /\ worker' = [w \in Worker |-> Resting]
            /\ sweep' = "waiting"
       ELSE UNCHANGED <<worker, sweep>>
    /\ UNCHANGED <<book, linked, state, queue, batch, ticker, owed, silent>>

\* A zero period has no worker to drain the queue; a sender the core has just
\* stopped sent a list nobody asked for.
shouldQueue(running) == Period > 0 /\ running

\* The core handles the message first: what it accepts may enter the book.
Receive(r, S) ==
    /\ Live /\ batch[r] = {}
    /\ \E running, taken \in BOOLEAN :
        /\ book' = [a \in Addr |-> IF running /\ taken /\ a \in S /\ book[a] = "absent"
                                   THEN "held" ELSE book[a]]
        /\ batch' = IF shouldQueue(running) THEN [batch EXCEPT ![r] = S] ELSE batch
    /\ UNCHANGED <<phase, linked, state, queue, worker, sweep, ticker, owed, silent>>

Left(e, a) == [batch EXCEPT ![e] = @ \ {a}]
Offer(e, a) == [addr |-> a, via |-> IF e = "sweep" THEN "sweep" ELSE "arrival"]

\* enqueue passes over what is not eligible,
PassOver(e, a) ==
    /\ a \in batch[e] /\ ~eligible(a)
    /\ batch' = Left(e, a)
    /\ UNCHANGED <<phase, book, linked, state, queue, worker, sweep, ticker, owed, silent>>

\* sends while there is room,
Enqueue(e, a) ==
    /\ a \in batch[e] /\ eligible(a)
    /\ Len(queue) < Capacity
    /\ queue' = Append(queue, Offer(e, a))
    /\ batch' = Left(e, a)
    /\ UNCHANGED <<phase, book, linked, state, worker, sweep, ticker, owed, silent>>

\* gives the rest up once quit is closed, which select may choose before or
\* after sending what there is room for,
Abandon(e) ==
    /\ phase \in {"stopping", "stopped"} /\ \E a \in batch[e] : eligible(a)
    /\ batch' = [batch EXCEPT ![e] = {}]
    /\ UNCHANGED <<phase, book, linked, state, queue, worker, sweep, ticker, owed, silent>>

\* and drops it otherwise.
DropFull(e, a) ==
    /\ a \in batch[e] /\ eligible(a)
    /\ Len(queue) = Capacity /\ phase = "running"
    /\ batch' = Left(e, a)
    /\ UNCHANGED <<phase, book, linked, state, queue, worker, sweep, ticker, owed, silent>>

\* Mutant of Purgeable: an entry the book has lost goes, its wait over or not.
PurgeableEarly ==
    {a \in Addr : state[a] # NoVerdict /\ (state[a].age > VerdictTTL \/ book[a] # "held")}

Purgeable ==
    {a \in Addr :
        /\ state[a] # NoVerdict
        /\ \/ state[a].age > VerdictTTL
           \/ state[a].age >= waitFor(state[a].fails) /\ book[a] # "held"}

\* The ticker fires: purge, then the selection an answer would be drawn from.
SweepBegins ==
    /\ sweep = "waiting" /\ ticker = 0
    /\ state' = [a \in Addr |-> IF a \in Purgeable THEN NoVerdict ELSE state[a]]
    /\ \E S \in SUBSET {a \in Addr : book[a] = "held"} : batch' = [batch EXCEPT !["sweep"] = S]
    /\ sweep' = "offering"
    /\ ticker' = Period
    /\ UNCHANGED <<phase, book, linked, queue, worker, owed, silent>>

SweepEnds ==
    /\ sweep = "offering" /\ batch["sweep"] = {}
    /\ sweep' = "waiting"
    /\ UNCHANGED <<phase, book, linked, state, queue, worker, batch, ticker, owed, silent>>

SweepQuits ==
    /\ sweep = "waiting" /\ phase = "stopping"
    /\ sweep' = "gone"
    /\ ticker' = Period
    /\ UNCHANGED <<phase, book, linked, state, queue, worker, batch, owed, silent>>

-----------------------------------------------------------------------------
(* Verifying.                                                              *)

Goes(w, stage) == worker' = [worker EXCEPT ![w].pc = stage]
Rests(w) == worker' = [worker EXCEPT ![w] = Resting]
At(w, stage) == worker[w].pc = stage

Take(w) ==
    /\ At(w, "idle") /\ queue # <<>>
    /\ worker' = [worker EXCEPT ![w] = [pc |-> "judging", addr |-> Head(queue).addr,
                                        via |-> Head(queue).via, since |-> 0]]
    /\ queue' = Tail(queue)
    /\ UNCHANGED <<phase, book, linked, state, batch, sweep, ticker, owed, silent>>

WorkerQuits(w) ==
    /\ At(w, "idle") /\ phase = "stopping"
    /\ Goes(w, "gone")
    /\ UNCHANGED <<phase, book, linked, state, queue, batch, sweep, ticker, owed, silent>>

\* verify's first tests: itself, banned, not out of its wait.
Consider(w) ==
    /\ At(w, "judging")
    /\ IF worker[w].addr \in Own \/ book[worker[w].addr] = "banned" \/ ~eligible(worker[w].addr)
       THEN Rests(w) ELSE Goes(w, "calling")
    /\ UNCHANGED <<phase, book, linked, state, queue, batch, sweep, ticker, owed, silent>>

\* IsDialingOrExistingAddress: some other connection to that identity is open
\* or under way.
Busy(a) == a \in linked \/ \E w \in Worker :
               worker[w].addr = a /\ worker[w].pc \in {"dialing", "listing", "proving"}

\* DialPeerWithAddress asks the same again, and says so before it dials.
Call(w) ==
    /\ At(w, "calling")
    /\ IF Busy(worker[w].addr) THEN Rests(w) ELSE Goes(w, "dialing")
    /\ UNCHANGED <<phase, book, linked, state, queue, batch, sweep, ticker, owed, silent>>

\* The errors of a dial that was made: a duplicate, when the identity or its
\* host has connected meanwhile; or the address did not answer.
Errors == (IF linked # {} THEN {"duplicate"} ELSE {}) \cup {"unanswered"}

\* Mutant of conclusive: every error is a verdict.
anyError(error) == TRUE

\* dialOutcome: a rejection as a duplicate is about this node.
conclusive(error) == error # "duplicate"

DialErrs(w) ==
    /\ At(w, "dialing")
    /\ \E error \in Errors :
        /\ IF conclusive(error) THEN Goes(w, "failed") ELSE Rests(w)
        /\ silent' = IF error = "unanswered" THEN silent \cup {worker[w].addr} ELSE silent
    /\ UNCHANGED <<phase, book, linked, state, queue, batch, sweep, ticker, owed>>

DialAnswers(w) ==
    /\ At(w, "dialing") /\ worker[w].addr \notin linked
    /\ Goes(w, "listing")
    /\ UNCHANGED <<phase, book, linked, state, queue, batch, sweep, ticker, owed, silent>>

Fails(v) == IF v = NoVerdict THEN 0 ELSE v.fails

\* Mutant of FailsAfter: the count has no bound.
FailsUnbounded(v) == Fails(v) + 1

FailsAfter(v) == Lesser(Fails(v) + 1, BackoffMaxShift)

\* The last verdict, and how long it holds the address back.
Judged(a, fails, via) ==
    /\ state' = [state EXCEPT ![a] = [age |-> 0, fails |-> fails, via |-> via]]
    /\ owed' = [owed EXCEPT ![a] = waitFor(fails)]

\* recordFailure, then the book's MarkAttempt, which nothing here reads.
RecordFailure(w) ==
    /\ At(w, "failed")
    /\ Judged(worker[w].addr, FailsAfter(state[worker[w].addr]), worker[w].via)
    /\ Rests(w)
    /\ UNCHANGED <<phase, book, linked, queue, batch, sweep, ticker, silent>>

\* AddAddress, which the book may refuse, and MarkGood.
List(w) ==
    /\ At(w, "listing")
    /\ book' \in IF book[worker[w].addr] = "absent"
                 THEN {book, [book EXCEPT ![worker[w].addr] = "held"]} ELSE {book}
    /\ Goes(w, "proving")
    /\ UNCHANGED <<phase, linked, state, queue, batch, sweep, ticker, owed, silent>>

\* recordSuccess, then the connection is closed.
RecordSuccess(w) ==
    /\ At(w, "proving")
    /\ Judged(worker[w].addr, 0, worker[w].via)
    /\ Rests(w)
    /\ UNCHANGED <<phase, book, linked, queue, batch, sweep, ticker, silent>>

-----------------------------------------------------------------------------
(* Stop, and the world.                                                    *)

\* quit is closed; Stop waits for the pool and the sweep.
StopBegins ==
    /\ phase = "running"
    /\ phase' = "stopping"
    /\ UNCHANGED <<book, linked, state, queue, worker, batch, sweep, ticker, owed, silent>>

StopEnds ==
    /\ phase = "stopping"
    /\ sweep = "gone" /\ \A w \in Worker : At(w, "gone")
    /\ phase' = "stopped"
    /\ UNCHANGED <<book, linked, state, queue, worker, batch, sweep, ticker, owed, silent>>

\* The core's crawler evicts, bans and reinstates.
BookMoves(a) ==
    /\ Live /\ a \in Doubtful
    /\ \/ book[a] = "held" /\ \E s \in {"absent", "banned"} : book' = [book EXCEPT ![a] = s]
       \/ book[a] = "banned" /\ book' = [book EXCEPT ![a] = "held"]
    /\ UNCHANGED <<phase, linked, state, queue, worker, batch, sweep, ticker, owed, silent>>

\* A node connects, also while a worker is dialling it; and leaves.
Connects(a) ==
    /\ Live /\ a \in Callers \ linked
    /\ \A w \in Worker : worker[w].addr = a => worker[w].pc \notin {"listing", "proving"}
    /\ linked' = linked \cup {a}
    /\ UNCHANGED <<phase, book, state, queue, worker, batch, sweep, ticker, owed, silent>>

Leaves(a) ==
    /\ Live /\ a \in linked
    /\ linked' = linked \ {a}
    /\ UNCHANGED <<phase, book, state, queue, worker, batch, sweep, ticker, owed, silent>>

\* Time passes when only dials take any: a worker that is free takes what is
\* queued, a dial lasts DialCost at most, the sweep is on time.
NothingDue ==
    /\ \A e \in Offerers : batch[e] = {}
    /\ sweep # "offering" /\ (sweep = "waiting" => ticker > 0)
    /\ \A w \in Worker :
        \/ At(w, "gone")
        \/ At(w, "idle") /\ queue = <<>>
        \/ At(w, "dialing") /\ worker[w].since < DialCost

Tick ==
    /\ Live /\ NothingDue
    /\ state' = [a \in Addr |->
                    IF state[a] = NoVerdict THEN NoVerdict
                    ELSE [state[a] EXCEPT !.age = Lesser(@ + 1, VerdictTTL + 1)]]
    /\ worker' = [w \in Worker |->
                    IF At(w, "dialing") THEN [worker[w] EXCEPT !.since = @ + 1] ELSE worker[w]]
    /\ ticker' = IF sweep = "waiting" THEN ticker - 1 ELSE ticker
    /\ owed' = [a \in Addr |-> IF owed[a] > 0 THEN owed[a] - 1 ELSE 0]
    /\ UNCHANGED <<phase, book, linked, queue, batch, sweep, silent>>

-----------------------------------------------------------------------------
Init ==
    /\ phase = "new"
    /\ book \in [Addr -> {"absent", "held"}]
    /\ linked = {}
    /\ state = [a \in Addr |-> NoVerdict]
    /\ queue = <<>>
    /\ worker = [w \in Worker |-> Gone]
    /\ batch = [e \in Offerers |-> {}]
    /\ sweep = "gone"
    /\ ticker = Period
    /\ owed = [a \in Addr |-> 0]
    /\ silent = {}

\* Mutant of OfferStep: neither quit nor default, enqueue waits for room.
OfferWaits(e) == \E a \in Addr : PassOver(e, a) \/ Enqueue(e, a)

OfferStep(e) ==
    \/ Abandon(e)
    \/ \E a \in Addr : PassOver(e, a) \/ Enqueue(e, a) \/ DropFull(e, a)

VerifyStep(w) ==
    \/ Take(w) \/ Consider(w) \/ Call(w) \/ DialErrs(w) \/ DialAnswers(w)
    \/ RecordFailure(w) \/ List(w) \/ RecordSuccess(w)

SweepStep == SweepBegins \/ SweepEnds \/ OfferStep("sweep")

Next ==
    \/ Start \/ StopBegins \/ StopEnds \/ Tick
    \/ \E r \in Receiver : OfferStep(r) \/ \E S \in Batches : Receive(r, S)
    \/ SweepStep \/ SweepQuits
    \/ \E w \in Worker : VerifyStep(w) \/ WorkerQuits(w)
    \/ \E a \in Addr : BookMoves(a) \/ Connects(a) \/ Leaves(a)

\* Goroutines run, dials end, and a select that finds quit closed time and
\* again among its ready cases takes it: Go chooses among them at random.
\* Messages, nodes and the book's changes are the world's.
Fairness ==
    /\ WF_vars(SweepStep) /\ SF_vars(SweepQuits)
    /\ \A w \in Worker : WF_vars(VerifyStep(w)) /\ SF_vars(WorkerQuits(w))
    /\ WF_vars(StopEnds)

Spec == Init /\ [][Next]_vars
FairSpec == Spec /\ Fairness

-----------------------------------------------------------------------------
(* Properties.                                                             *)

\* purge: forgetting a verdict never hands back a free dial.  Whatever is
\* dropped, an address is not eligible before the wait its last verdict
\* imposed is over - even once it has left the book, and come back.
WaitOutlivesPurge == \A a \in Addr : owed[a] > 0 => ~eligible(a)

\* dialOutcome: a dial that says something about this node leaves no mark on
\* the address.  One that has answered every dial is never held to have failed,
\* however workers, the crawler and the node's own connections collide.
OnlySilentBlamed == \A a \in Addr : state[a] # NoVerdict /\ state[a].fails > 0 => a \in silent

\* verifySweepMargin: the queue is QueuePerWorker dials deep whatever the number
\* of workers, so that QueuePerWorker + 1 dials after a sweep has begun, all it
\* has queued is dialled and judged, whatever arrives beside it.
SweepIsDrained ==
    phase = "running" /\ Period - ticker > (QueuePerWorker + 1) * DialCost =>
        /\ \A k \in DOMAIN queue : queue[k].via # "sweep"
        /\ \A w \in Worker : worker[w].pc \in Stages => worker[w].via # "sweep"

\* freshWindow: what a sweep proves, the next one judges again.  The window
\* stays below the period by more than an address spends in the queue, so no
\* proof made on behalf of the previous sweep is found fresh by this one.
ServedIsRejudged ==
    phase = "running" =>
        \A a \in batch["sweep"] :
            state[a] # NoVerdict /\ state[a].fails = 0 /\ state[a].via = "sweep" => eligible(a)

\* Stop waits for workers that may be dialling and for a sweep that may be
\* offering to a queue nobody reads any more: it returns.
StopReturns == phase = "stopping" ~> phase = "stopped"
=============================================================================
