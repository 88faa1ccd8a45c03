------------------------------ MODULE SeedLife ------------------------------
(***************************************************************************)
(* The life of a seed process of either stack (main.go, config.go, node.go, *)
(* seed.go, seedtm2.go): the configuration that settles its stack,          *)
(* construction step by step, start, the signal handler that stops it from  *)
(* a goroutine of its own while main waits, and what a home directory keeps *)
(* from one process to the next.                                            *)
(*                                                                         *)
(* The order of the steps and what each failing one releases is the code's; *)
(* which of them fails, when the signal comes and how the switch of the     *)
(* library interleaves with both is left open.                              *)
(***************************************************************************)
EXTENDS Integers, Sequences

CONSTANTS
    Ids,   \* the identities a key file can hold
    None   \* no file, no identity

Stacks == {"cosmos", "tm2"}
Keys == [stack : Stacks, id : Ids]

\* What a configuration file can say of the stack: one of them, nothing, as an
\* older file or one left empty does, or something nobody knows.
Configs == Stacks \cup {"unset", "unknown"}

\* The values of -stack; any other is refused before anything is read.
Flags == Stacks \cup {""}

ASSUME NoneAssumption == None \notin Ids \cup Configs \cup Keys

VARIABLES
    config,     \* the stack in the configuration file of the home
    touched,    \* what of it an operator has changed by hand: "stack", "key"
    key,        \* the node key file of the home
    book,       \* which stack wrote the address book file of the home
    stack,      \* the stack of this process
    endpoint,   \* whether metrics_listen_addr is set
    main,       \* where the start command is
    built,      \* how many steps of NewSeed or NewSeedTM2 are behind it
    id,         \* the identity the process announces
    transport,  \* the listening socket
    metrics,    \* the metrics server
    switch,     \* the p2p switch
    handler,    \* the signal handler
    dirty,      \* the book has changed since it was last saved
    owed        \* a change from before the signal has not been offered to disk

home == <<config, touched, key, book>>
process == <<stack, endpoint, main, built, id, transport, metrics, switch, handler, dirty, owed>>
vars == <<config, touched, key, book, stack, endpoint, main, built, id, transport, metrics, switch,
          handler, dirty, owed>>

\* The steps of construction that can fail, in the order of the code.
CosmosSteps == <<"config", "key", "level", "address", "listen", "namespace", "counters">>
TM2Steps == <<"config", "key", "address", "listen", "book", "wait", "period", "dialcost",
              "namespace", "counters", "seeds">>
Steps == [cosmos |-> CosmosSteps, tm2 |-> TM2Steps]

\* Mutant of TM2Releases: the path of a malformed seed forgets its call.
SeedsForgotten == {"book", "wait", "period", "dialcost", "namespace", "counters"}

\* The steps whose failing path calls closeTransport: each path has a call of its
\* own, and those not named here have none.
CosmosReleases == {"namespace", "counters"}
TM2Releases == {"book", "wait", "period", "dialcost", "namespace", "counters", "seeds"}

Releases == [cosmos |-> CosmosReleases, tm2 |-> TM2Releases]

TypeOK ==
    /\ config \in Configs \cup {None}
    /\ touched \subseteq {"stack", "key"}
    /\ key \in Keys \cup {None}
    /\ book \in Stacks \cup {None}
    /\ stack \in Stacks
    /\ endpoint \in BOOLEAN
    /\ main \in {"down", "loaded", "building", "built", "starting", "started",
                "waiting", "refused", "quieted", "failed"}
    /\ built \in 0..Len(TM2Steps)
    /\ id \in Ids \cup {None}
    /\ transport \in {"none", "open", "closed"}
    /\ metrics \in {"none", "starting", "listening", "over"}
    /\ switch \in {"idle", "starting", "running", "stopping", "flushed", "stopped"}
    /\ handler \in {"none", "armed", "begun", "saved", "quiet", "halting", "done"}
    /\ dirty \in BOOLEAN
    /\ owed \in BOOLEAN

Fresh ==
    /\ built = 0
    /\ id = None
    /\ transport = "none"
    /\ metrics = "none"
    /\ switch = "idle"
    /\ handler = "none"
    /\ dirty = FALSE
    /\ owed = FALSE

Init ==
    /\ config \in Configs \cup {None}
    /\ touched = {}
    /\ key = None
    /\ book = None
    /\ stack \in Stacks
    /\ endpoint = FALSE
    /\ main = "down"
    /\ Fresh

-----------------------------------------------------------------------------
(* The configuration, which every command that opens a home loads first.   *)

SeedStack(c) == IF c = "unset" THEN "cosmos" ELSE c

\* Mutant of StackServed: the flag overrides the file, as the other flags do.
FlagOverrides(flag) == {s \in Stacks : s = IF flag = "" THEN SeedStack(config') ELSE flag}

\* The stack the file names, if any; CheckStackFlag: the flag may confirm it and
\* never contradicts it.
StackServed(flag) == {s \in Stacks : s = SeedStack(config') /\ flag \in {"", s}}

\* The file, or a default one that records the flag; a file is never rewritten.
LoadOrGenConfig(flag) ==
    /\ main = "down"
    /\ config' = IF config # None THEN config ELSE IF flag = "" THEN "cosmos" ELSE flag
    /\ stack' \in StackServed(flag)
    /\ main' = "loaded"
    /\ endpoint' \in BOOLEAN
    /\ UNCHANGED <<touched, key, book, built, id, transport, metrics, switch, handler, dirty, owed>>

\* A write that fails may leave an empty file, which the next command reads.
WriteConfigFails ==
    /\ main = "down"
    /\ config = None
    /\ config' = "unset"
    /\ UNCHANGED <<touched, key, book, process>>

\* What an operator does by hand: edit the stack of the file, which a process
\* that runs has read already, or remove the key to have another identity.
EditStack ==
    /\ config # None
    /\ config' \in Configs
    /\ touched' = touched \cup {"stack"}
    /\ UNCHANGED <<key, book, process>>

RotateKey ==
    /\ main = "down"
    /\ key # None
    /\ key' = None
    /\ touched' = touched \cup {"key"}
    /\ UNCHANGED <<config, book, process>>

-----------------------------------------------------------------------------
(* The node key, which start and show-node-id read or make.                *)

\* A key of the other stack cannot be read.
KeyFits(s) == key # None => key.stack = s

\* LoadOrGen: the key on file, or a new one written there.
LoadKey(s) ==
    /\ KeyFits(s)
    /\ key' \in IF key = None THEN [stack : {s}, id : Ids] ELSE {key}

\* show-node-id makes the file too, and shows what it holds.
NodeID ==
    /\ main = "loaded"
    /\ LoadKey(stack)
    /\ main' = "down"
    /\ UNCHANGED <<config, touched, book, stack, endpoint, built, id, transport, metrics,
                   switch, handler, dirty, owed>>

\* nodeKeyError: the file is of the other stack, or cannot be read or written.
NodeIDFails ==
    /\ main = "loaded"
    /\ main' = "failed"
    /\ UNCHANGED <<home, stack, endpoint, built, id, transport, metrics, switch, handler,
                   dirty, owed>>

-----------------------------------------------------------------------------
(* Construction.                                                           *)

NewNode ==
    /\ main = "loaded"
    /\ main' = "building"
    /\ UNCHANGED <<home, stack, endpoint, built, id, transport, metrics, switch, handler,
                   dirty, owed>>

Step == Steps[stack][built + 1]

BuildStep ==
    /\ main = "building"
    /\ built < Len(Steps[stack])
    /\ built' = built + 1
    /\ IF Step = "key" THEN LoadKey(stack) /\ id' = key'.id ELSE UNCHANGED <<key, id>>
    /\ transport' = IF Step = "listen" THEN "open" ELSE transport
    /\ UNCHANGED <<config, touched, book, stack, endpoint, main, metrics, switch, handler, dirty,
                   owed>>

Built ==
    /\ main = "building"
    /\ built = Len(Steps[stack])
    /\ main' = "built"
    /\ UNCHANGED <<home, stack, endpoint, built, id, transport, metrics, switch,
                   handler, dirty, owed>>

closeTransport == IF transport = "open" THEN "closed" ELSE transport

\* Any step may fail, what counts is only looked at for an endpoint, and the path
\* of a step that fails closes the transport if it has the call.
BuildFails ==
    /\ main = "building"
    /\ built < Len(Steps[stack])
    /\ Step \in {"namespace", "counters"} => endpoint
    /\ main' = "failed"
    /\ transport' = IF Step \in Releases[stack] THEN closeTransport ELSE transport
    /\ UNCHANGED <<home, stack, endpoint, built, id, metrics, switch, handler, dirty, owed>>

-----------------------------------------------------------------------------
(* Start.                                                                  *)

Start ==
    /\ main = "built"
    /\ main' = "starting"
    /\ metrics' = IF endpoint THEN "starting" ELSE "none"
    /\ switch' = "starting"
    /\ UNCHANGED <<home, stack, endpoint, built, id, transport, handler, dirty, owed>>

\* The goroutine of the metrics server: a port already taken is logged.
MetricsServe ==
    /\ metrics = "starting"
    /\ metrics' \in {"listening", "over"}
    /\ UNCHANGED <<home, stack, endpoint, main, built, id, transport, switch,
                   handler, dirty, owed>>

\* Shutdown ends a server that listens, and one that has yet to.
stopMetrics == IF metrics = "none" THEN "none" ELSE "over"

SwitchStarts ==
    /\ main = "starting"
    /\ main' = "started"
    /\ switch' = "running"
    /\ UNCHANGED <<home, stack, endpoint, built, id, transport, metrics, handler,
                   dirty, owed>>

\* The switch does not start.  The path of that error releases the metrics server,
\* whose goroutine may come in between, then the socket.
SwitchRefuses ==
    /\ main = "starting"
    /\ main' = "refused"
    /\ switch' = "idle"
    /\ UNCHANGED <<home, stack, endpoint, built, id, transport, metrics, handler, dirty, owed>>

RefusalQuiets ==
    /\ main = "refused"
    /\ main' = "quieted"
    /\ metrics' = stopMetrics
    /\ UNCHANGED <<home, stack, endpoint, built, id, transport, switch, handler, dirty, owed>>

RefusalCloses ==
    /\ main = "quieted"
    /\ main' = "failed"
    /\ transport' = closeTransport
    /\ UNCHANGED <<home, stack, endpoint, built, id, metrics, switch, handler, dirty, owed>>

\* Mutant of TrapPoint: before Start has returned.
TrapAnyTime == main \in {"built", "starting", "started"}

TrapPoint == main = "started"

TrapSignal ==
    /\ TrapPoint
    /\ handler = "none"
    /\ handler' = "armed"
    /\ UNCHANGED <<home, stack, endpoint, main, built, id, transport, metrics, switch,
                   dirty, owed>>

Wait ==
    /\ main = "started"
    /\ handler # "none"
    /\ main' = "waiting"
    /\ UNCHANGED <<home, stack, endpoint, built, id, transport, metrics, switch,
                   handler, dirty, owed>>

-----------------------------------------------------------------------------
(* While it runs.                                                          *)

\* A peer, a dial or a sweep changes the book, as long as the reactors run.
Learn ==
    /\ switch \in {"running", "stopping"}
    /\ dirty' = TRUE
    /\ UNCHANGED <<home, stack, endpoint, main, built, id, transport, metrics, switch,
                   handler, owed>>

\* The book is offered to the disk, which may refuse it.
Save ==
    /\ \/ book' = stack /\ dirty' = FALSE
       \/ UNCHANGED <<book, dirty>>
    /\ owed' = FALSE

\* Every so often a loop saves what has changed.
Persist ==
    /\ switch \in {"running", "stopping"}
    /\ dirty
    /\ Save
    /\ UNCHANGED <<config, touched, key, stack, endpoint, main, built, id, transport, metrics,
                   switch, handler>>

-----------------------------------------------------------------------------
(* Stop, on the goroutine of the handler.                                  *)

Gone ==
    /\ main' = "down"
    /\ built' = 0
    /\ id' = None
    /\ transport' = "none"
    /\ metrics' = "none"
    /\ switch' = "idle"
    /\ handler' = "none"
    /\ dirty' = FALSE
    /\ owed' = FALSE
    /\ UNCHANGED <<home, stack, endpoint>>

\* The default disposition, as long as nothing is trapped.
Killed ==
    /\ main # "down"
    /\ handler = "none"
    /\ Gone

\* An error on the standard error, and the status of a failure.
ExitFailure ==
    /\ main = "failed"
    /\ Gone

Signal ==
    /\ handler = "armed"
    /\ handler' = "begun"
    /\ owed' = dirty
    /\ UNCHANGED <<home, stack, endpoint, main, built, id, transport, metrics, switch, dirty>>

\* Mutant of IsRunning: asked of a switch about to run.
IsStarting == switch = "starting"

IsRunning == switch = "running"

\* Only the Cosmos stack saves here.
StopSaves ==
    /\ handler = "begun"
    /\ stack = "cosmos"
    /\ handler' = "saved"
    /\ IF IsRunning THEN Save ELSE UNCHANGED <<book, dirty, owed>>
    /\ UNCHANGED <<config, touched, key, stack, endpoint, main, built, id, transport, metrics,
                   switch>>

StopMetrics ==
    /\ handler = IF stack = "cosmos" THEN "saved" ELSE "begun"
    /\ handler' = "quiet"
    /\ metrics' = stopMetrics
    /\ UNCHANGED <<home, stack, endpoint, main, built, id, transport, switch, dirty, owed>>

\* A switch that does not run is left alone: only the sockets are released.
StopSwitch ==
    /\ handler = "quiet"
    /\ IF IsRunning
       THEN handler' = "halting" /\ switch' = "stopping" /\ UNCHANGED transport
       ELSE handler' = "done" /\ transport' = closeTransport /\ UNCHANGED switch
    /\ UNCHANGED <<home, stack, endpoint, main, built, id, metrics, dirty, owed>>

\* The switch stops its reactors, and the one of TM2 flushes its book.
ReactorsStop ==
    /\ switch = "stopping"
    /\ switch' = "flushed"
    /\ IF stack = "tm2" THEN Save ELSE UNCHANGED <<book, dirty, owed>>
    /\ UNCHANGED <<config, touched, key, stack, endpoint, main, built, id, transport, metrics,
                   handler>>

\* Mutant of ReactorsStopped: the switch is over while a reactor still stops.
NotAwaited == switch \in {"stopping", "flushed"}

ReactorsStopped == switch = "flushed"

SwitchStops ==
    /\ ReactorsStopped
    /\ switch' = "stopped"
    /\ UNCHANGED <<home, stack, endpoint, main, built, id, transport, metrics, handler,
                   dirty, owed>>

StopReturns ==
    /\ handler = "halting"
    /\ switch = "stopped"
    /\ handler' = "done"
    /\ transport' = closeTransport
    /\ UNCHANGED <<home, stack, endpoint, main, built, id, metrics, switch, dirty, owed>>

\* Wait returns to main, and the process ends wherever the handler is; the
\* handler of the libraries may end it too, once Stop has returned.
WaitReturns ==
    /\ main = "waiting"
    /\ switch = "stopped"
    /\ Gone

HandlerExits ==
    /\ handler = "done"
    /\ Gone

-----------------------------------------------------------------------------
Next ==
    \/ \E flag \in Flags : LoadOrGenConfig(flag)
    \/ WriteConfigFails \/ EditStack \/ RotateKey \/ NodeID \/ NodeIDFails
    \/ NewNode \/ BuildStep \/ Built \/ BuildFails
    \/ Start \/ MetricsServe \/ SwitchStarts \/ TrapSignal \/ Wait
    \/ SwitchRefuses \/ RefusalQuiets \/ RefusalCloses
    \/ Learn \/ Persist
    \/ Killed \/ ExitFailure \/ Signal
    \/ StopSaves \/ StopMetrics \/ StopSwitch \/ ReactorsStop \/ SwitchStops \/ StopReturns
    \/ WaitReturns \/ HandlerExits

\* Goroutines that can run do; Shutdown of the metrics server gives up after
\* five seconds, and the switch comes back from stopping what it runs.  That
\* the handler of a library ends the process is not relied upon.
Fairness ==
    /\ WF_vars(Wait)
    /\ WF_vars(StopSaves) /\ WF_vars(StopMetrics) /\ WF_vars(StopSwitch)
    /\ WF_vars(ReactorsStop) /\ WF_vars(SwitchStops)
    /\ WF_vars(WaitReturns)

Spec == Init /\ [][Next]_vars
FairSpec == Spec /\ Fairness

-----------------------------------------------------------------------------
(* Properties.                                                             *)

\* The transport listens from Listen on, so that every failing path past it
\* releases the socket, by a call of its own, and those before it need none: the
\* order of the steps and the paths that have the call agree on both stacks.
\* Neither they, nor a refused start, nor Stop leave the socket or a metrics
\* server behind, whenever that server comes up.
FailureReleases ==
    main = "failed" \/ handler = "done" =>
        transport # "open" /\ metrics \notin {"starting", "listening"}

\* "Trap after Start, not before": the handler never closes the transport under
\* a switch that runs or is about to.
ServingListens == switch \in {"starting", "running", "stopping"} => transport = "open"

\* A home belongs to one stack.  What a process announces is on file; the
\* configuration, the key and the book agree whatever -stack is given to which
\* command and whatever fails, as long as nobody edits the stack; and an edit
\* cannot leave a book beside a key of the other stack, unless the key has been
\* removed as well.
HomeIsOneStack ==
    /\ id # None => key # None /\ key.stack = stack /\ key.id = id
    /\ "stack" \notin touched =>
         /\ key # None => config # None /\ key.stack = SeedStack(config)
         /\ book # None => config # None /\ book = SeedStack(config)
    /\ "key" \notin touched /\ book # None => key # None /\ key.stack = book

\* Stop: a process a trapped signal ends has offered to the disk every change
\* made before that signal, though main may end it in the middle of the handler.
ShutdownSaves ==
    [][handler \notin {"none", "armed"} /\ main' = "down" => ~owed]_vars

\* A trapped signal ends the process, without any help of the library's handler.
SignalEnds == handler = "begun" ~> main = "down"

-----------------------------------------------------------------------------
(* What makes them inductive.                                              *)

Up == main \in {"started", "waiting"}

\* main and the switch go together, and no handler runs before Start is back.
MainAndSwitch ==
    /\ main \in {"down", "loaded", "building", "built", "refused", "quieted", "failed"} => switch = "idle"
    /\ main = "starting" => switch = "starting"
    /\ Up => switch \in {"running", "stopping", "flushed", "stopped"}
    /\ ~Up => handler = "none"
    /\ main \in {"down", "loaded", "building", "built"} => metrics = "none"
    /\ main = "quieted" => metrics \in {"none", "over"}

\* The switch runs until the handler stops it.
HandlerAndSwitch ==
    /\ Up /\ handler \in {"none", "armed", "begun", "saved", "quiet"} => switch = "running"
    /\ handler = "halting" => switch \in {"stopping", "flushed", "stopped"}
    /\ handler = "done" => switch = "stopped"
    /\ handler \in {"quiet", "halting", "done"} => metrics \in {"none", "over"}

\* The step that opens the socket.
Socket == [cosmos |-> 5, tm2 |-> 4]

\* The key is loaded before the socket is opened, and both before the rest.
Construction ==
    /\ main \in {"down", "loaded"} => built = 0 /\ id = None /\ transport = "none"
    /\ main = "building" => built <= Len(Steps[stack])
    /\ main = "building" /\ built >= 2 => id # None
    /\ main = "building" => transport = IF built >= Socket[stack] THEN "open" ELSE "none"
    /\ main = "built" \/ main = "starting" => transport = "open"
    /\ main = "built" \/ main = "starting" \/ Up => id # None

\* A process serves the stack of the file it has read.
ConfigIsServed ==
    main # "down" /\ "stack" \notin touched => config # None /\ stack = SeedStack(config)

\* A save is owed until the Cosmos handler has saved or the TM2 reactor flushed.
OwedUntilSaved ==
    owed => \/ handler = "begun"
            \/ /\ stack = "tm2"
               /\ handler \in {"quiet", "halting"}
               /\ switch \in {"running", "stopping"}

LifeInvariant ==
    /\ TypeOK /\ ConfigIsServed /\ MainAndSwitch /\ HandlerAndSwitch /\ Construction /\ OwedUntilSaved
    /\ FailureReleases /\ ServingListens /\ HomeIsOneStack
=============================================================================
