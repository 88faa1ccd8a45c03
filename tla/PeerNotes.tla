------------------------------ MODULE PeerNotes ------------------------------
(***************************************************************************)
(* What a TM2 seed remembers of each peer (seedreactortm2.go: peerNotes),  *)
(* and the two exchanges it bounds: an answer is taken only when it was    *)
(* asked for and brings only so much that is new, and a request is served  *)
(* only so often.                                                          *)
(*                                                                         *)
(* The notes are under notesMtx, and each function that takes it is one    *)
(* step.  The goroutines between the steps are those of the code: one per  *)
(* request sent, and one per connection that reads its messages, which may *)
(* still be in a handler when the connection is gone and even when its     *)
(* peer has come back.                                                     *)
(***************************************************************************)
EXTENDS Integers, FiniteSets

CONSTANTS
    Id,                 \* the peers
    Talkative,          \* those that may send addresses nobody asked for
    Requests,           \* the goroutines that may be sending a request
    AnswerWindow,       \* answerWindow
    MinServeInterval,   \* minServeInterval
    ExplorationWindow,  \* explorationWindow()
    ProvableBatch,      \* provableBatch()
    MaxVisits,          \* bound on the connections of one peer
    MaxOwed,            \* bound on the requests a peer has not answered
    MaxTime             \* bound on the clock

ASSUME NotesAssumption ==
    /\ Talkative \subseteq Id /\ IsFiniteSet(Id) /\ Id # {}
    /\ {AnswerWindow, MinServeInterval, ExplorationWindow, MaxOwed, MaxTime} \subseteq Nat
    /\ {ProvableBatch, MaxVisits} \subseteq Nat \ {0}
    /\ MinServeInterval <= AnswerWindow + 1    \* a second, against a minute

VARIABLES
    now,      \* the clock
    conn,     \* the connection each peer has, and how many it has had
    notes,    \* the table
    request,  \* the goroutines of request()
    reader,   \* the goroutine that reads each connection
    owed,     \* the requests a peer was sent and has not answered
    history   \* what the properties compare the notes with

vars == <<now, conn, notes, request, reader, owed, history>>

Never == 0
Visits == 1..MaxVisits

NoNotes == [asked |-> Never, served |-> Never, learned |-> 0, since |-> Never, held |-> FALSE]
Fresh == [NoNotes EXCEPT !.held = TRUE]
Notes == [asked : Nat, served : Nat, learned : Nat, since : Nat, held : BOOLEAN]

RequestIdle == [pc |-> "idle", peer |-> CHOOSE p \in Id : TRUE, visit |-> 1]
RequestStates == [pc : {"idle", "spawned", "noted", "refused"}, peer : Id, visit : 0..MaxVisits]

ReaderIdle == [pc |-> "idle", allowance |-> 0]
ReaderStates == [pc : {"idle", "request", "answer", "learning", "counting"}, allowance : Nat]

\* taken: answers taken since a request was last noted, 1 before the first one.
\* served: the last service.
\* heard: what was new, by an open connection, since its window began.
NoHistory == [taken |-> 1,
              served |-> [visit |-> 0, at |-> Never], heard |-> [since |-> Never, count |-> 0]]
Histories == [taken : Nat, served : [visit : Nat, at : Nat], heard : [since : Nat, count : Nat]]

TypeOK ==
    /\ now \in Nat
    /\ conn \in [Id -> [kind : {"none", "in", "out"}, visit : 0..MaxVisits]]
    /\ notes \in [Id -> Notes]
    /\ request \in [Requests -> RequestStates]
    /\ reader \in [Id -> [Visits -> ReaderStates]]
    /\ owed \in [Id -> 0..MaxOwed]
    /\ history \in [Id -> Histories]

\* time.Time's zero is longer ago than any window.
Elapsed(t, window) == t = Never \/ now - t > window
Open(p, v) == conn[p].kind # "none" /\ conn[p].visit = v

NotesOf(p) == IF notes[p].held THEN notes[p] ELSE Fresh

-----------------------------------------------------------------------------
(* The switch.                                                             *)

Connect(p, kind) ==
    /\ conn[p].kind = "none" /\ conn[p].visit < MaxVisits
    /\ conn' = [conn EXCEPT ![p] = [kind |-> kind, visit |-> @.visit + 1]]
    /\ owed' = [owed EXCEPT ![p] = 0]
    /\ UNCHANGED <<now, notes, reader, history>>

Accept(p) == Connect(p, "in") /\ UNCHANGED request

\* A request starts for a peer this seed is connected to.
Spawned(r, p, v) == [request EXCEPT ![r] = [pc |-> "spawned", peer |-> p, visit |-> v]]

\* AddPeer of a peer this seed dialled.
AddPeer(p, r) ==
    /\ request[r].pc = "idle"
    /\ Connect(p, "out")
    /\ request' = Spawned(r, p, conn[p].visit + 1)

\* RemovePeer.
Removed(p) == [notes EXCEPT ![p] = NoNotes]

RemovePeer(p) ==
    /\ conn[p].kind # "none"
    /\ conn' = [conn EXCEPT ![p].kind = "none"]
    /\ notes' = Removed(p)
    /\ owed' = [owed EXCEPT ![p] = 0]
    /\ UNCHANGED <<now, request, reader, history>>

-----------------------------------------------------------------------------
(* Asking.                                                                 *)

\* crawl: one peer this seed dialled, at random.
Crawl(p, r) ==
    /\ conn[p].kind = "out" /\ request[r].pc = "idle"
    /\ request' = Spawned(r, p, conn[p].visit)
    /\ UNCHANGED <<now, conn, notes, reader, owed, history>>

\* Mutant of Forgettable: the two dates of exchange alone.
ForgettableUnasked(n) == Elapsed(n.asked, AnswerWindow)

\* Mutant of Forgettable: the exchanges, not what the peer was allowed.
ForgettableQuiet(n) ==
    Elapsed(n.asked, AnswerWindow) /\ Elapsed(n.served, AnswerWindow)

\* What noteRequest forgets in passing.
Forgettable(n) ==
    /\ Elapsed(n.asked, AnswerWindow) /\ Elapsed(n.served, AnswerWindow)
    /\ Elapsed(n.since, ExplorationWindow)

NoteRequest(r) ==
    LET p == request[r].peer
        Kept(q) == IF Forgettable(notes[q]) THEN NoNotes ELSE notes[q]
    IN  /\ request[r].pc = "spawned"
        /\ request' = [request EXCEPT ![r].pc = "noted"]
        /\ notes' = [q \in Id |->
                        IF q # p THEN Kept(q)
                        ELSE [Kept(q) EXCEPT !.held = TRUE, !.asked = now]]
        /\ history' = [history EXCEPT ![p].taken = 0]
        /\ UNCHANGED <<now, conn, reader, owed>>

\* TrySend: a full queue refuses it, and so does a connection that is closed.
Send(r) ==
    LET p == request[r].peer
    IN  /\ request[r].pc = "noted"
        /\ \/ /\ Open(p, request[r].visit) /\ owed[p] < MaxOwed
              /\ owed' = [owed EXCEPT ![p] = @ + 1]
              /\ request' = [request EXCEPT ![r] = RequestIdle]
           \/ /\ request' = [request EXCEPT ![r].pc = "refused"]
              /\ UNCHANGED owed
        /\ UNCHANGED <<now, conn, notes, reader, history>>

ForgetRequest(r) ==
    LET p == request[r].peer
    IN  /\ request[r].pc = "refused"
        /\ notes' = [notes EXCEPT ![p].asked = Never]
        /\ request' = [request EXCEPT ![r] = RequestIdle]
        /\ UNCHANGED <<now, conn, reader, owed, history>>

-----------------------------------------------------------------------------
(* Receive, on the goroutine of the connection the message came by.        *)

Reads(p, v, what) ==
    /\ Open(p, v) /\ reader[p][v].pc = "idle"
    /\ reader' = [reader EXCEPT ![p][v].pc = what]

RequestArrives(p, v) ==
    /\ Reads(p, v, "request")
    /\ UNCHANGED <<now, conn, notes, request, owed, history>>

AnswerArrives(p, v) ==
    /\ Reads(p, v, "answer")
    /\ owed[p] > 0 \/ p \in Talkative
    /\ owed' = [owed EXCEPT ![p] = IF @ > 0 THEN @ - 1 ELSE 0]
    /\ UNCHANGED <<now, conn, notes, request, history>>

Returns(p, v) == [reader EXCEPT ![p][v] = ReaderIdle]

\* mayServe, then serve.  A peer that does not take its answer is closed; one
\* that has left meanwhile is sent nothing, but is noted all the same.
Serve(p, v) ==
    LET n == NotesOf(p)
        may == n.served = Never \/ now - n.served >= MinServeInterval
    IN  /\ reader[p][v].pc = "request"
        /\ reader' = Returns(p, v)
        /\ \/ /\ ~(may /\ Open(p, v))
              /\ notes' = [notes EXCEPT ![p] = [n EXCEPT !.served = IF may THEN now ELSE @]]
              /\ UNCHANGED <<conn, owed, history>>
           \/ /\ may /\ Open(p, v)
              /\ notes' = [notes EXCEPT ![p] = [n EXCEPT !.served = now]]
              /\ history' = [history EXCEPT ![p].served = [visit |-> v, at |-> now]]
              /\ UNCHANGED <<conn, owed>>
           \/ /\ may /\ Open(p, v)
              /\ notes' = Removed(p)
              /\ conn' = [conn EXCEPT ![p].kind = "none"]
              /\ owed' = [owed EXCEPT ![p] = 0]
              /\ UNCHANGED history
        /\ UNCHANGED <<now, request>>

\* Mutant of Consumed: one request buys any number of answers.
StillAsked(n) == n

\* answersOurRequest takes the request back, whether the answer is in time.
Consumed(n) == [n EXCEPT !.asked = Never]

AnswersOurRequest(p, v) ==
    LET asked == notes[p].asked
        inTime == asked # Never /\ now - asked <= AnswerWindow
    IN  /\ reader[p][v].pc = "answer"
        /\ notes' = [notes EXCEPT ![p] = Consumed(@)]
        /\ reader' = [reader EXCEPT ![p][v].pc = IF inTime THEN "learning" ELSE "idle"]
        /\ history' = [history EXCEPT ![p].taken = IF inTime THEN @ + 1 ELSE @]
        /\ UNCHANGED <<now, conn, request, owed>>

\* explorationShare.
NumOutbound == Cardinality({p \in Id : conn[p].kind = "out"})
AtLeastOne(n) == IF n < 1 THEN 1 ELSE n
ExplorationShare == AtLeastOne(ProvableBatch \div AtLeastOne(NumOutbound))

\* explorationAllowance.
WindowOver(since) == since = Never \/ now - since >= ExplorationWindow

\* Mutant of Remaining: a share already exceeded leaves less than nothing.
Unfloored(n) == ExplorationShare - n.learned

Remaining(n) == IF n.learned < ExplorationShare THEN ExplorationShare - n.learned ELSE 0

ExplorationAllowance(p, v) ==
    LET n == IF WindowOver(NotesOf(p).since)
             THEN [NotesOf(p) EXCEPT !.since = now, !.learned = 0]
             ELSE NotesOf(p)
    IN  /\ reader[p][v].pc = "learning"
        /\ notes' = [notes EXCEPT ![p] = n]
        /\ reader' = [reader EXCEPT ![p][v] = [pc |-> "counting", allowance |-> Remaining(n)]]
        /\ history' = [history EXCEPT ![p].heard =
                        IF Open(p, v) /\ WindowOver(@.since) THEN [since |-> now, count |-> 0] ELSE @]
        /\ UNCHANGED <<now, conn, request, owed>>

\* learn: of what the answer brings, `discovered` is new to the book; then
\* noteExploration books it, in a window of its own if the note has gone
\* meanwhile.  What goes on in the book is SeedSweep's.
Learn(p, v, discovered) ==
    LET n == IF notes[p].held THEN notes[p] ELSE [Fresh EXCEPT !.since = now]
        heard == history[p].heard
        anew == ~notes[p].held /\ WindowOver(heard.since) /\ discovered > 0
    IN  /\ reader[p][v].pc = "counting" /\ discovered <= reader[p][v].allowance
        /\ notes' = IF discovered = 0 THEN notes
                    ELSE [notes EXCEPT ![p] = [n EXCEPT !.learned = @ + discovered]]
        /\ reader' = Returns(p, v)
        /\ history' = [history EXCEPT ![p].heard =
                        IF ~Open(p, v) THEN heard
                        ELSE IF anew THEN [since |-> now, count |-> discovered]
                        ELSE [since |-> heard.since, count |-> heard.count + discovered]]
        /\ UNCHANGED <<now, conn, request, owed>>

-----------------------------------------------------------------------------
Tick ==
    /\ now < MaxTime
    /\ now' = now + 1
    /\ UNCHANGED <<conn, notes, request, reader, owed, history>>

Init ==
    /\ now = 1
    /\ conn = [p \in Id |-> [kind |-> "none", visit |-> 0]]
    /\ notes = [p \in Id |-> NoNotes]
    /\ request = [r \in Requests |-> RequestIdle]
    /\ reader = [p \in Id |-> [v \in Visits |-> ReaderIdle]]
    /\ owed = [p \in Id |-> 0]
    /\ history = [p \in Id |-> NoHistory]

Reader(p, v) ==
    \/ RequestArrives(p, v) \/ AnswerArrives(p, v)
    \/ Serve(p, v) \/ AnswersOurRequest(p, v) \/ ExplorationAllowance(p, v)
    \/ \E discovered \in 0..ProvableBatch : Learn(p, v, discovered)

Next ==
    \/ \E p \in Id : Accept(p) \/ RemovePeer(p)
    \/ \E p \in Id, r \in Requests : AddPeer(p, r) \/ Crawl(p, r)
    \/ \E r \in Requests : NoteRequest(r) \/ Send(r) \/ ForgetRequest(r)
    \/ \E p \in Id, v \in Visits : Reader(p, v)
    \/ Tick

Spec == Init /\ [][Next]_vars

-----------------------------------------------------------------------------
(* Properties.                                                             *)

\* One request buys one answer (answersOurRequest), however requests, failed
\* sends, departures, purges and answers interleave: between two requests
\* noted at most one answer is taken, and none before the first.
OneAnswerPerRequest == \A p \in Id : history[p].taken <= 1

\* Why it holds: while a request is pending no answer has been taken since.
PendingIsUnanswered == \A p \in Id : notes[p].asked # Never => history[p].taken = 0

ServedApart ==
    \A p \in Id :
        LET last == history[p].served
            next == history'[p].served
        IN  next # last /\ last.visit = next.visit => next.at - last.at >= MinServeInterval

\* Two answers to one connection are minServeInterval apart, although what
\* remembers the first may be forgotten by any request in between.
GapWithinVisit == [][ServedApart]_vars

\* explorationAllowance: while a peer stays, what it makes the book take in
\* during one window is within what a period can prove, although the table is
\* purged by requests to anybody.  This is about its first connection: a later
\* one may share its entry, and its window, with a handler of the earlier.
LearnedWithinShare ==
    \A p \in Id : conn[p].visit = 1 => history[p].heard.count <= ProvableBatch
=============================================================================
