# tenderseed, specified in TLA+

`tenderseed` is a seed node: it learns the addresses of a peer-to-peer network,
checks which of them answer, and hands those out to nodes that join. One binary
serves two protocol stacks, chosen by configuration: Cosmos (TM1), where a core
library keeps the address book and this code adds verification, and gno.land
(TM2), where this code keeps the book, decides what is dialled and answers.

This directory holds the models of that program, the TLC runs that check them
on small instances, and the theorems TLAPS proves about them.

## The system

| component | code | state | operations | interacts with |
|---|---|---|---|---|
| address book | `seedbook.go` | map of records, `dirty`, `generation`, the file | AddPeers, MarkSuccess, MarkAttempt, DropFailing, queries, Save, Flush, load | called by every goroutine of the TM2 reactor |
| sweep, dialling, cycling | `seedreactortm2.go` | none of its own: the book, the switch's peers | OnStart, sweepOnce, AddPeer, learn, cycleOnce, hangUp, OnStop | book; the switch's dial queue |
| requests and notes | `seedreactortm2.go` | per-peer notes: asked, served, learned, since | crawl, request, Receive, mayServe, answersOurRequest, RemovePeer | the switch's per-peer goroutines |
| answer selection | `seedreactortm2.go` | none | selection, spreadByGroup | book |
| TM1 verification | `seedreactor.go` | queue, verdict map, quit channel | Receive, enqueue, verify, sweepRoutine, purge, Start, Stop | core's PEX reactor, book and switch |
| lifecycles, commands | `seed.go`, `seedtm2.go`, `main.go` | listening socket, metrics server, switch, signal handler | New, Start, Wait, Stop, TrapSignal | core's switch and transport |
| configuration, node identity | `config.go`, `node.go` | the configuration, key and book files of a home | LoadOrGenConfig, CheckStackFlag, NewNode, NodeID | the commands |
| wire, log filter, metrics | other files | none, or write-only counters | parsing, filtering, counting | - |

What is hard in it: a book written by two savers while four goroutines change
it and the process may end at any step; failures that are *deduced* (the switch
reports no failed dial) from a mark made before a dial that may never happen; a
dial queue without bound that belongs to somebody else; windows, periods and
tickers that must fit each other; requests, answers and departures of one peer
handled on different goroutines; a bounded queue and a pool of workers that
must stop; a signal handler on a goroutine of its own while main ends the
process; a home that two stacks could both write to.

What makes each part correct:

* book - never more than its maximum after hearsay, never an inadmissible
  entry, never a reached address pushed out by hearsay, and what is clean is on
  disk;
* sweep - only addresses this seed has reached are served, failures are dials
  that failed, the outbound limit and the period bound what is handed over,
  every connection is closed in time, and without a sweep everything known is
  dialled;
* notes - one request buys one answer, one peer is served once a second and
  takes in no more than its share;
* answers - other nodes than who asks, each once, balanced over the network
  groups, and whatever can be named is in some answer;
* TM1 verification - no wait is cut short, no address that answers is held to
  have failed, what one sweep proved the next judges again, Stop returns;
* lifecycles - a path that fails releases what it opened, the transport is open
  while the switch runs, a trapped signal ends the process and loses nothing it
  found unsaved, and a home belongs to one stack.

## Modules

| module | models | of |
|---|---|---|
| `BookRecords` | the records and what each operation computes on them, as pure operators | `seedbook.go` |
| `SeedBook` | the book: its map, its locks, its two savers, its file, restarts | `seedbook.go` |
| `DurableBook` | what a save promises, without locks, generations or savers | |
| `SeedBookDurable` | the refinement mapping from `SeedBook` to `DurableBook` | |
| `SeedSweep` | the TM2 reactor around the book: start, sweep, switch, cycle, learning | `seedreactortm2.go` |
| `Answers` | which addresses an answer carries, as pure operators | `seedreactortm2.go`, `seedbook.go` |
| `PeerNotes` | what the reactor remembers of each peer, requests and answers | `seedreactortm2.go` |
| `SeedVerify` | the TM1 reactor: queue, workers, verdicts, purge, sweep, stop | `seedreactor.go` |
| `SeedLife` | a process of either stack, from its configuration to its end, and its home | `main.go`, `config.go`, `node.go`, `seed.go`, `seedtm2.go` |
| `BookRecordsProofs`, `SeedBookProofs`, `SeedBookDurableProofs`, `SeedSweepProofs`, `SeedSweepPaceProofs`, `PeerNotesProofs`, `SeedVerifyProofs`, `SeedLifeProofs` | the theorems about each | |
| `MCSeedBook`, `MCSeedSweep`, `MCPeerNotes`, `MCSeedVerify`, `MCSeedLife` | the values of the constants for TLC | |

`SeedBook` and `SeedSweep` both use the operators of `BookRecords`: the first
under every interleaving of savers, crashes and disk, the second as the book the
reactor drives. `SeedSweep` extends `Answers`, so that the batches an answer is
drawn from are those its book can give. `PeerNotes` meets `SeedSweep` in `learn` alone: the notes say
how many unknown addresses an answer may bring, the sweep what becomes of them.
`SeedVerify` and `SeedLife` stand alone: the first is the other stack, and the
second sees of either reactor only that it changes a book and saves it.

### BookRecords and SeedBook

A book is a total function from addresses to records or `NoRecord`. An address
is the whole dial string, as the map's key is, so one node may have several.
The operators (`Added`, `Succeeded`, `Attempted`, `Failing`, `Evictable`,
`FreshSet`, `Loaded`...) are what the methods compute. Go's map order and its
unstable sort make eviction nondeterministic among equals: `Evictable` is every
set eviction may take.

`SeedBook` adds the state. `peers` and `dirty` are the fields; `generation` is
represented, per saver, by whether it has moved since that saver read it
(`saver[s].moved`), which is all the code compares. `disk` is the file, written
by an atomic replacement; `aside` is where an unreadable one is put. A save is
three steps because the code lets the lock go between them: `Snapshot`
(read under the lock), `WriteOK` or `WriteFails` (no lock on the map), `SaveEnd`
(lock again, clear `dirty` if nothing moved). `saveMtx` serialises the savers
(`SaveMtxFree`). `Exit` ends the process at any step; `Start` loads the file.
Flush is `FlushMark` then a save. One observation about it: a save of the
persist loop under way when Flush sets `dirty` may clear it again, since Flush
moves no generation, and Flush's own save then writes nothing; nothing is lost,
because that save has just written the very same map.

### DurableBook and SeedBookDurable

The abstract book has the map, the file, the image on its way to the file (none
or one) and whether a save is owed. Its steps are `Change`, `Begin`, `Commit`,
`Abandon` (a write that fails), `Settle`, `Crash` and `Recover`. It says what a
caller of `Save` relies on: the file is replaced whole, by an image the map had
at one instant of this process; there is one such image at a time; and a save
stops being owed only when every record the map holds would come back from the
file (`AllComeBack`, to the second, which is what the file keeps).

`SeedBookDurable` maps the image to what the saver that is writing has read
(`OnItsWay`) and what is owed to `dirty`. The promise stops short of equality for
a reason found in the code: `evict` sets `dirty` and moves no generation, so a
save under way may clear `dirty` over an eviction. The clean map still comes back
whole; an entry evicted meanwhile may come back beside it. `ReachedLeaveLast`
decides which entries those may be.

### SeedSweep

The state is the book, the switch's peers (by identity), its dial queue and dial
loop, the sweep's place in a pass, and the two tickers. A pass is four steps -
`SweepPlan` (budget, batches, `dialable`), one `SweepMark` per address,
`SweepHandOver`, `SweepDrop` - since each call locks the book or the switch by
itself and others run between them. Reading and filtering the batches is one
step: what may happen between them (a connection made or lost) may as well
happen just before or after. `learn` is two steps for the same reason: `Learn`
puts what a peer announces in the book, and without a sweep `LearnDials` then
hands it to the switch, with whatever other loops did in between; `learnt` is what
the handler of each peer has between the two calls.

Four histories are kept for the properties: over all processes of the node,
`reached` (which addresses a dial of this seed has reached) and `lost` (how many
dials of each have failed since); of the present process only, and empty again
after a `Stop`, `dialled` (what the dial loop of the switch has dialled) and
`declined` (what it was handed and would not dial, its node being connected or the
outbound limit reached). The switch is not this repository's code. It is modelled from what
the comments and calls here rely on: it checks its outbound limit when a batch
is handed over and not when an address is taken off the queue, leaves this node
itself out of a batch (`OthersIn`, told by the places the others have in it),
neither bounds nor deduplicates the queue, skips an address whose identity is connected, and
reports no failure. It also dials the configured `seeds` by itself, which is
left out, and it saves nothing. `Stop` is a graceful stop, whose flush has saved
the book; crashes and failing writes are `SeedBook`'s.

`Faults` names the disturbances an instance allows: loops that run late and
dials that outlast their cost, answering nodes that fail a dial, peers that
leave, restarts.

### Answers

`FreshBatches` is what `FreshBatch` may return: the most recently proven, any of
them among equals. `Servable` drops the requester's own addresses and the
inadmissible, `Shuffles` is every order, `spreadByGroup` takes one address of
each group a round, and `AnswersFrom` cuts to one message. The two loops of
`spreadByGroup` are stated by what they come to, a form that can be reasoned about
without recursion: the *round* in which its bucket gives an address is how many of
its group were drawn before it, and its *place* is after those of earlier rounds
and those of its own round whose groups were opened before. `networkGroup` is the
constant `GroupOf`: how a host is mapped to a group is not modelled, what is done
with groups is.

The reference definition has neither rounds nor buckets. `Balanced`: among the
first n, no group is ahead of another by more than one while that other has an
address left. `SameDraw`: the same addresses, in each group the order of the
draw. `FairlyAnswered`: an answer names other nodes, each address once, balanced
before the cut and after it; and every address that can be named is in some
answer. `MCSeedSweep` has TLC check, on every draw of up to six addresses over up
to three groups (`SpreadIsBalanced`), that `spreadByGroup` is the two loops as the
code has them (`SpreadByLoops`) and that the first two hold of it, and `sweep_pace`
checks the third for every batch its book comes to offer
(`AnswersAreSpread`).

### PeerNotes

The state is the table of notes, the goroutines that send a request
(`request`), the goroutine of each connection that reads its messages
(`reader`), and, of the switch, which connection each peer has. A function that
takes `notesMtx` is one action; between `noteRequest`, `TrySend` and
`forgetRequest`, and between `answersOurRequest`, `explorationAllowance` and
`noteExploration`, others run. A connection that is gone may still have a handler
under way, so readers are numbered by visit. A note that is not in the table is
one with `held = FALSE` and zero values, which is how the code reads a zero
`time.Time`: longer ago than any window. `history` is what the properties
compare the notes with: answers taken since a request was noted, the last
service and the visit it went to, and what was new since the peer's window began.
That window begins where the code begins one, in `explorationAllowance` or in
`noteExploration` on a note purged while its answer was being recorded, and never
before the one it follows is over.

The code forgets here on purpose, and three consequences are worth knowing. They
are how it works, not what it promises, and no run states them:

* a peer that reconnects is served at once, since `RemovePeer` forgets when it
  was last served: `GapWithinVisit` is about one connection. It has a new
  allowance as well, and an answer of the old connection still in its handler
  shares it: `LearnedWithinShare` is about the first connection;
* two requests to one peer share one note, so the second answer, honest too, is
  refused as unsolicited;
* a failed send takes back whatever request is noted, which may be another one's.

### SeedVerify

All that `seedreactor.go` keeps is keyed by node identity, so an address is its
identity here. The state is the verdict map, the channel, the workers, what each
caller of `enqueue` has still to offer, and the sweep. `verify` is cut where it
lets other goroutines run: taken off the queue, found eligible (`Consider`), the
dial begun (`Call`, after the duplicate test), its end (`DialErrs`,
`DialAnswers`), the verdict (`RecordFailure`; `List`, then `RecordSuccess`). No
clock is needed: the code asks how old a verdict is and forgets it past
`verifyStateTTL`, so ages are counted and saturate one unit above it. `owed` and
`silent` are history: what is left of the wait the last verdict imposed, and the
addresses some dial has found not to answer.

Core's book, switch, crawler and PEX reactor are external, and modelled from what
the comments and calls here rely on: the book may accept, evict, ban and
reinstate; a dial to a connected identity is refused before it is made, or
rejected as a duplicate after it.

What two workers on one address do was the first question. Both may pass
`eligible` before either records, so one may dial inside a back-off the other has
just recorded, and a failure may be recorded after a success that came later. So
"a failure spaces the next attempt" (`seedreactor.go:122`) is true of what is queued
after the failure, and not of what another worker has found eligible before it. No
run states it. What must hold all the same is checked: `WaitOutlivesPurge` and
`OnlySilentBlamed`.

`ServedIsRejudged` is about a reactor that runs (one that stops may leave its last
sweep half offered) and about verdicts a *sweep* asked for: an arriving answer may
have an address proven just before a sweep, which then rightly leaves it alone.
It rests on an assumption of urgency, `NothingDue`: time passes only when dials
alone take any. On a machine so loaded that an address waits for the queue longer
than the margin, the window would be too long.

### SeedLife

One process at a time in one home. `config`, `key` and `book` are the files,
`touched` what an operator has changed by hand; the rest is the process: where
main is, how many steps of construction are behind it, the socket, the metrics
server, the switch, the signal handler. Both stacks are here because they share
the home and go through the same life; `Steps` and `Releases` are where they differ, with what
`Stop` does: the Cosmos one saves the book itself, the TM2 one leaves it to the
reactor, which the switch stops.

`LoadOrGenConfig` reads the file, or writes a default one that records `-stack`;
`StackServed` is the check that the flag may confirm the file and never
contradict it; an unknown `-stack` is refused before anything is read, so `Flags`
has none. A first write that fails may leave an empty file, which the next
command reads as `unset`, that is Cosmos. `NodeID` (show-node-id) makes the key
file as `NewNode` does. Any step of construction may fail, and whether its path
closes the transport is a matter of that path alone: `CosmosReleases` and
`TM2Releases` list the steps whose failing path has a `closeTransport` call, one by
one as the code has them, and those before the listener have none. That every step
past the listener is in them, on either stack, is what `FailureReleases` is about.
A switch that refuses to start is left in the steps of its error path: refused, the
metrics server shut down (its goroutine may come up before or after), the transport
closed. The handler, once a signal is trapped, runs `Stop` on its own
goroutine while `main` returns from `Wait` as soon as the switch has stopped, and
ends the process wherever the handler is. That the library's handler calls
`os.Exit` after `Stop` is allowed (`HandlerExits`) and not relied upon.

`dirty` and `owed` stand for the book file: whether something has changed since
the last save, and whether such a change from before the signal is still to be
offered to the disk. What a save does in detail is `SeedBook`'s. For the Cosmos
stack the book is core's; only that it is saved is here. A process killed by
`SIGKILL` is `SeedBook`'s `Exit`.

## Runs

| run | question | result |
|---|---|---|
| `book_map` | any order of operations on a book of two, restarts from every kind of file: what may be held, what is evicted | holds |
| `book_save` | two savers, failing writes, exits at every step: is a clean map on disk, and is all this `DurableBook` | holds |
| `book_roomy` | what the sweep dropped does not come back from a clean file, and a success reaches the disk under the fairness below | holds |
| `sweep_safe` | only reached addresses are fresh; a live connection collects no failure | holds when each identity has one address |
| `sweep_pace` | failures are failed dials, outbound limit, queue within a period; answers are fair | holds without visitors, restarts and proofs at start |
| `sweep_off` | without a sweep everything known is tried by each process anew; every connection is closed in time | holds with a wait |
| `peer_notes` | one request, one answer; the gap between services; what one visit makes the book learn | holds |
| `verify_race` | two workers, a sweep, answers, the crawler and the node itself on one address: is a wait cut short, is an address that answers blamed | holds |
| `verify_pace` | what a sweep proved the next one judges again; what it queued is judged within the margin; Stop returns from any state | holds |
| `life` | failing paths, signals at any moment, two stacks in one home | holds |
| `sweep_shared` | only reached addresses are fresh, when two of them share an identity | violated: see findings |
| `verify_ttl` | no wait is cut short, when the period is strictly above four caps | violated: see findings |

Bounds. `MaxTime` bounds the clock, `MaxLearned` what one answer brings,
`MaxFails` the count of failures, `MaxQueue` the dial queue where nothing else
does. Books hold one to three entries with two to five addresses: enough for an
eviction to choose, for a batch to be cut, and for a ceiling to be exceeded.
Periods are one to four clock units, so that a clock of up to twenty sees three
to five passes and a proof grow older than every window. `CHECK_DEADLOCK` is off
because a bounded clock stops: a process that does nothing more until its next
tick has no next tick.

`sweep_pace` allows neither late loops nor visitors nor a proof in the first
book: each of these alone breaks one of its properties (see the findings). Its
answers are of two addresses at most, drawn from three in two groups. Each address
is of a node of its own, and a fourth node, which no address names, may be handed
all three: for it the cut drops one, and two of one group before the other's only
one would be an imbalance. The throughput term of `sweepBudget` is never the
smaller one at these constants; that the queue fits a period when it is, is left
to the proof (`BudgetFits`).

`sweep_off` restarts, starts over hearsay or proofs, and has two handlers learn while
visitors come. One outbound slot is enough for a hand-over to be declined, a queue of
one for one to wait, and a wait of one with a clock of four for connections to
be overdue twice. Loops are on time in it, as `NoneOverstays` asks.

The mutants of the passing runs are, several of them, faults the comments of the code
say it once had (the whole book handed over at start, a zero budget without a sweep)
or paths that forget what the others do (a malformed seed whose path leaves
the socket open, an answer cut before it is spread).

`peer_notes` has one peer, since notes of different peers meet only in the purge
(which a request to the peer itself runs as well) and in the number of outbound
peers that divides the share. What one peer leaves out is a note purged while an
answer of its own peer is being counted, since only a request to another peer can
do that: it takes two peers and about five units of time, and the proof of
`LearnedStaysWithinShare` covers it. The instance connects twice, to have a handler outlive its
connection, and two requests are under way at once. Its clock of three units
sees every window end once: an answer window of one, a serving interval and an
exploration window of two. Its `Talkative` peer sends answers nobody asked for.

`verify_race` has one address, on which everything collides: two workers, so that
a second verdict may replace a first; a period of four and a cap of three, so that
verdicts are forgotten after six units, past two sweeps and longer than any wait.
`verify_pace` has one worker, a queue of one and two addresses, so that the queue
is full while a sweep offers, and an address waits for as long as the margin of
two allows. `verify_ttl` has a period of eight and a cap of one: the fresh window
of four exceeds the two units a verdict is kept. Nothing bounds these models but
the ages, which saturate.

`life` has two identities a key can hold, so that a key replaced is told from the
one before, and any number of processes one after the other. Nothing in it is
bounded, and it is the one model where deadlock is checked.

Fairness. In `book_roomy` the persist loop's steps are weakly fair (a goroutine on
a ticker, which nothing blocks for ever), and a write that is retried for ever
succeeds at some time (strong fairness of the write). In `verify_pace` goroutines
run and dials end (weak fairness), and a worker, or the sweep, that time and again
finds `quit` closed beside another ready case takes it at some time: Go's select
chooses at random among ready cases (strong fairness of `WorkerQuits` and
`SweepQuits`). In `life` goroutines that can run do; the shutdown of the metrics
server gives up after five seconds (`seed.go`), so `StopMetrics` ends; the switch
comes back from stopping its reactors. The operations on the map, messages,
signals, exits, restarts and whatever peers do are the environment's and have
none.

## Findings

Each violating run checks one sentence of the code.

* `sweep_shared` - a connection to one address proves another of its identity:
  `dialable` asks the switch by identity (`seedreactortm2.go:423`) and the book is
  keyed by the whole dial string. "Only reached addresses are served"
  (`seedreactortm2.go:887-888`) then fails for a node that has moved.
* `verify_ttl` - `purge` drops any verdict older than `verifyStateTTL`, eight
  hours, and a success is trusted for half of `peer_check_period`, which nothing
  bounds from above. Strictly above sixteen hours, four caps, an entry is dropped
  before it is eligible again, where `seedreactor.go:44-48` says it never is. The effect is
  an address dialled more often than its period asks.

Others were met while modelling and have no run of their own:

* `evict` sets `dirty` and moves no generation (`seedbook.go:607`): a save under way
  may clear `dirty` over an eviction. See DurableBook above for what still holds;
* the start and the first pass each spend a budget, since neither sees the dials
  of the other connected yet (`seedreactortm2.go:277`): over a book of proofs the
  outbound limit may be exceeded, which `docs/release-notes/v3.0.0.md:150-156` describes
  as fixed by handing over only the addresses still proven at start;
* an address whose node connects between its mark and its dial is skipped by the
  switch and blamed by the next mark (`seedreactortm2.go:371`), where
  `docs/release-notes/v3.0.0.md:62-66` says a failure is a dial that failed. The
  same goes for a mark on record across a restart (`seedbook.go:306`);
* a proof made just after a pass is renewed only at the third pass after it, and
  expires while that dial is under way (`seedreactortm2.go:544`), where `:536-537` says a
  period of margin is "exactly what it takes for the next pass to catch a proof before
  it dies";
* `record` makes an entry for a success or an attempt, and `load` one for every
  line of the file, and neither evicts: the book may exceed its maximum until
  hearsay comes in (`HearsayKeepsCeiling` is what holds). In the same way the
  mark of a batch makes again an entry that was evicted since the batch was read,
  where `seedbook.go:207-208` says an attempt only revisits what is held;
* the comment at `seed.go:292-294` ("A signal can arrive between the trap and
  Switch.Start") describes an order the program no longer has: `start.go:50-55` calls
  `Start` and then `TrapSignal`, as `seed.go:271-274` asks. The branch it explains
  is taken by no trapped signal (`HandlerAndSwitch`), and is harmless;
* a `seed_disconnect_wait_period` of zero starts no cycle, so only a peer that
  asks is closed (`NoneOverstays` is checked with a wait).

## Proofs

`SeedBookProofs` proves, for every value of the constants that satisfies the
assumptions of `BookRecords` and `SeedBook`:

* `TypeCorrect` - `Spec => []TypeOK`;
* `AdmissibleOnly` - no inadmissible address is ever held: each of the four ways
  in filters, and the file is filtered again when it is read;
* `SaveInvariantHolds` and `CleanSaved` - the save protocol. `CleanIsSaved` is
  not inductive: a clean map that is on disk stays so only if no writer holds an
  older snapshot. `SaveInvariant` says so: at most one saver is past the mutex
  (`OneWriter`), while it writes the map is dirty (`WritersAreDirty`), its
  snapshot is the map unless it has moved since (`SnapshotsHold`), a process
  that is down has no saver (`RestWhenDown`), and files hold whole seconds
  (`FilesAreWhole`), which is what makes loading what was saved idempotent;
* `CeilingKept` - the action property `HearsayKeepsCeiling`, from the size of
  what eviction leaves (`EvictionFits`) and the fact that a mark dates itself;
* `ReachedLeave` - the action property `ReachedLeaveLast`, from the shape of
  `Evictable` and typing;
* `DroppedGone` - `DroppedStayDropped`, the other direction of `CleanSaved`: the file of
  a clean map holds nothing a sweep dropped. `NoMore` adds to `SaveInvariant` that as
  long as the generation has not moved, a saver has read and written nothing the map
  does not hold. It is said of a book that never evicts, since an eviction moves
  no generation, and a book with room for every address evicts nothing
  (`RoomyEvictsNothing`).

It rests on `BookRecordsProofs`, which has what each operation on records returns,
for any addresses and any clock.

`SeedBookDurableProofs` proves `DurableImplemented`: `Spec => ImplementsDurable`. The
steps of a saver map to `Begin`, `Commit`, `Abandon` and `Settle`, every operation to
`Change` or a stutter, and the mapping needs `SaveInvariant`: that at most one saver
writes makes `OnItsWay` a function, and that a saver whose generation has not moved
holds a snapshot the map still agrees with is what lets `SaveEnd` be a `Settle`.

`PeerNotesProofs` proves, for any number of peers, visits and requests:

* `NotesTypeCorrect` - `Spec => []TypeOK`;
* `PendingStayUnanswered` and `OneAnswer` - one request buys one answer.
  `OneAnswerPerRequest` speaks of the history alone; `PendingIsUnanswered` ties it to the table (while a request is
  noted nothing has been taken since), and the two together are inductive: only
  `NoteRequest` makes a pending note, and it resets the count; only
  `AnswersOurRequest` counts, and it removes the note. Every other action, the
  purge and a late `forgetRequest` among them, can only forget one;
* `GapKept` - `Spec => GapWithinVisit`. The invariant `GapInv` says of each peer
  that the last service of a connection still open is noted, or a later one is,
  or it is already `MinServeInterval` old. The third case is what the purge
  needs, and it holds because `AnswerWindow` (a minute) is no shorter than
  `MinServeInterval` (a second): the last conjunct of `NotesAssumption`;
* `LearnedStaysWithinShare` - what one visit makes the book learn in a window stays
  within its share. `ShareInv` is about the first connection of a peer: the window
  of its note is the one that was heard, and what was heard is booked, or the
  note has lost a window that is over (`WindowsAgree`); a handler that is counting has
  room for all it may still count (`RoomToCount`); a note not held has no window, and
  only a handler of a connection made so far is under way.

`SeedSweepProofs` proves, for any addresses, books, periods and faults:

* `ConnectedStayUnblamed` - `Spec => []ConnectedUnblamed`. The hazard is a mark of an
  older batch that lands after the connection it was to cause. `BlameInv` says that
  the record of an address this seed is connected to, and has been told of, has no
  failure, and that a mark the sweep still owes it finds `lastTry <= lastOK`: a mark
  counts a failure only over an attempt later than the last success, so this one counts
  none. A second one would, and there is none while the connection lasts: an address is
  at most once in a pass (`Distinct`), and the plan of the next leaves out the connected;
* `ServedAreReached` - `ServedWereReached`, when no two addresses share an identity
  (`OwnIdentities`). `ReachInv` adds that links and dials that came back are to
  reached addresses. `sweep_shared` shows that the condition is needed;
* `NoneOverstay` - `NoneOverstays`, with a wait and a cycle on time. `StayInv`: the
  next tick of the cycle is within one interval of now, and within the wait and one
  interval of when each connection was made.

* `AnswersAreFair` - `AnswersAreSpread`: any batch at all is answered fairly, whoever
  asks, for any groups and any size of a message. The places of a draw are a
  permutation of it that begins with the first drawn (`TurnsTaken`, `SpreadOrder`),
  so each address is named once and any that may be served can come first. Were a
  group given two more than another that has some left, then the last given of the
  one is of a round no earlier than their number allows (`LateRound`), the first
  waiting of the other of a round no later than its number allows (`EarlyRound`), and
  nothing of a round is given before all of the earlier ones (`NoneAhead`). All of
  this is about the first n for any n, so the cut takes nothing from it.

`SeedSweepPaceProofs` is about the dial queue, which the switch does not bound. Its
theorems have hypotheses, and each of those is there because one of the findings, or
a run, shows what happens without it:

* `SweepTypeCorrect` - `Spec => []TypeOK`, the queue among it, without hypothesis;
* `LimitHolds` and `QueueIsDialledInTime` - `OutboundWithinLimit` and
  `QueueWithinPeriod`, under `OnPace`: there is a sweep, no loop is late, the process
  starts once, and the first book holds no proof (the start and the first pass each
  spend a budget, so that a book of proofs exceeds the limit). Visitors, leaving peers
  and failing nodes are allowed. Neither property is inductive: `PaceInv` adds that
  what is still to be paid for in dials is over when the next pass is due
  (`PaidByPass`), that while a pass marks there is nothing else to dial, and its batch
  fits the limit and the period (`MarkingAlone`), and that connections, the dial in
  hand and the queue together stay within the limit (`WithinLimit`). The step that
  matters is the one before a pass: when it is due, the queue of the last is empty
  and its dials have ended (`DueAlone`), so that the budget counts every one of them;
* `KnownAreAllTried` - `KnownAreTried`, for a period of zero and with no other
  hypothesis: any network, outbound limit, faults, visitors and restarts. Of a process
  that runs, `TriedInv` says that what the book holds was dialled or declined since
  it started, waits in the queue, or is in the hands of a handler that learnt it. The
  start hands over the whole book, since nothing is connected yet (`StartTries`);
  what comes in later comes from `Learn`, which holds it until `LearnDials`, or from a
  dial the process made (`NewTried`); and whoever has an address in hand lets go of
  it only by dialling it, handing it on or being declined (`TriedKept`);
* `FailuresAreDialled` - `FailuresWereDialled`, under `FirstStart`: `OnPace`, with own
  identities, no visitor that is named, and no mark on record at the start (findings:
  a node that connects between mark and dial, and a mark across a restart, are each
  blamed without a dial). `DutyInv` gives every mark a dial to come or to show for
  itself: what the next mark would deduce (`Owed`) never exceeds the dials that failed
  unless the address is dropped anyway, an address is marked only if its dial is
  `Pending`, and what is handed over is dialled since it names each address once and
  none that is connected (`HandsClean`).

`SeedVerifyProofs` proves, for any number of addresses, workers and receivers:

* `VerifyTypeCorrect` - `Spec => []TypeOK`, the capacity of the queue and the bound of
  the failure count among it;
* `FreshWindowFits` - for every period, the fresh window leaves the margin below the
  period wherever it is not zero, and is at most half of it;
* `WaitsSurvive` - `WaitOutlivesPurge`, given `TTLCoversWaits`: the fresh window is no
  longer than a verdict is kept, the very condition `verify_ttl` shows the code does
  not enforce. The inductive invariant is `OwedIsHeld`: as long as a wait is owed its
  verdict is held, and its age and what is owed add up to no more than the wait. A
  purge can then only take what is owed nothing;
* `OnlySilentAreBlamed` - `OnlySilentBlamed`, together with `FailedWereSilent`: a worker
  about to record a failure has seen its address not answer;
* `SweepDrains` - `SweepIsDrained`: `QueuePerWorker + 1` dials after a sweep has begun, all
  it queued is judged. The queue is first in, first out but has other callers too, and
  what bounds the wait is how many dials the pool is *sure* to begin in time: each
  worker's own dial has an end, and from there on it begins one every `DialCost`
  (`Openings`). `DrainInv` says that what the sweep queued stands no further back than
  there are openings (`QueuedInTime`), and that what a worker has of it is within its
  turn (`TakenInTime`);
* `ServedAreRejudged` - `ServedIsRejudged`, given `MarginCovers`: the margin is at least
  `QueuePerWorker + 1` dials. The code has 33 dials of 7 seconds, 231 seconds, and five
  minutes (`seedreactor.go:49-54`). A proof made for a sweep is then older than the
  window when the next begins (`ProofsAreOld`), and what that one has still to offer
  is not fresh (`OfferedAnew`).

`SeedLifeProofs` proves `LifeInvariantHolds`, of which the parts say where main, the
switch and the handler can be at once (`MainAndSwitch`, `HandlerAndSwitch`), what each
step of construction has behind it (`Construction`), that a process serves the stack
of the file it read (`ConfigIsServed`) and who still owes a save (`OwedUntilSaved`).
From it follow `FailuresRelease`, `ServingIsListening`, `OneStackHome` and the action
property `ShutdownHasSaved`. For the first, `StepsKnown` compares the two tables: every
step past the one that opens the socket has a failing path that closes it, and with
`Construction`, which says that the socket is open from that step on and not before,
no step that fails leaves it open. For the last, both steps that may end a process whose handler has begun
need the switch stopped, and before it stops the handler has saved (Cosmos) or the
reactor has flushed (TM2).

Assumptions for the book are that addresses are finitely many, the files at
start are books with whole seconds, and `NoRecord` is not a record.

Each proof module assumes what the module it proves about does, and no more but
where a theorem says `ASSUME`.

Left to TLC:

* liveness, which is out of the prover's reach: `SuccessReachesDisk`, `StopReturns`
  of `SeedVerify`, `SignalEnds`;
* that `spreadByGroup` is the loops as the code has them, which are a fold: an
  induction over data, checked on every draw of up to six addresses;
* the two violated properties.

## Not modelled

* `seedwire.go`, a parser of literal addresses, and `seedquiet.go`, a stateless filter
  of log records: neither has a state, and their tests reach them as well as a model
  would;
* the counters and gauges of the metrics, which nothing in the program reads. Whether
  their server is shut down is in `SeedLife`;
* the ranges of the configuration and its text: the ranges are the assumptions on
  the constants, and the stack is all of the text that settles what runs;
* `help` and `version`, which open no home, and `-chain-id` and `-seeds`, which are
  values no property is about;
* a configuration file elsewhere: `-config` (`main.go:24`, `38-41`) may name a file outside
  the home, so that one home may be opened with two configuration files, of different
  stacks. `SeedLife` has one file for one home, and `HomeIsOneStack` is about that;
* two processes in one home at once. The commands take no lock on it; a first start
  beside a first show-node-id could make two keys.

Wording, logging and counters are left out everywhere.

## Plan

Everything this program adds to the core libraries is modelled, and every safety
property the passing runs check is a theorem. What is left, in this order:

1. Where `FailuresAreDialled` and `LimitHolds` ask for a single start, a theorem of what
   a restart costs: how far over the limit two budgets can go, and that a mark kept
   across a restart blames an address once at most.
2. A composition of `PeerNotes` and `SeedSweep` in which the allowance of one is what
   `Learn` of the other takes in, to bound the growth of the book over a period.
3. Two commands at once in one home.
