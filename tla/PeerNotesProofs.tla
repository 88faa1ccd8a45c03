--------------------------- MODULE PeerNotesProofs ---------------------------
(* That one request buys one answer, for any number of peers, connections   *)
(* and requests at once.                                                   *)
EXTENDS PeerNotes, FiniteSetTheorems, TLAPS

LEMMA RequestIdleType == RequestIdle \in RequestStates
<1>1. PICK q : q \in Id
  BY NotesAssumption
<1>2. (CHOOSE p \in Id : TRUE) \in Id
  BY <1>1
<1>3. 1 \in 0..MaxVisits
  BY NotesAssumption
<1> QED
  BY <1>2, <1>3 DEF RequestIdle, RequestStates

LEMMA NotesTypes ==
    /\ NoNotes \in Notes /\ ReaderIdle \in ReaderStates /\ NoHistory \in Histories
    /\ NoNotes.asked = Never /\ Fresh \in Notes /\ Fresh.asked = Never
    BY DEF NoNotes, Notes, Fresh, ReaderIdle, ReaderStates, NoHistory, Histories, Never

\* What the property rests on, of what is in the notes and the history alone.
Unanswered == PendingIsUnanswered /\ OneAnswerPerRequest

\* The part of TypeOK it needs.
NotesTyped == notes \in [Id -> Notes] /\ history \in [Id -> Histories]

\* A step that asks nobody and takes no answer.
LEMMA NothingTaken ==
    ASSUME NotesTyped, Unanswered,
           NotesTyped',
           \A p \in Id : notes'[p].asked \in {Never, notes[p].asked},
           \A p \in Id : history'[p].taken = history[p].taken
    PROVE  Unanswered'
    BY DEF Unanswered, PendingIsUnanswered, OneAnswerPerRequest, NotesTyped, Never

\* explorationShare is a number, and never more than what a period can prove,
\* whatever the switch counts.
LEMMA ShareType ==
    ASSUME TypeOK PROVE ExplorationShare \in Nat /\ ExplorationShare <= ProvableBatch
<1>1. IsFiniteSet({p \in Id : conn[p].kind = "out"})
  BY NotesAssumption, FS_Subset
<1>2. NumOutbound \in Nat
  BY <1>1, FS_CardinalityType DEF NumOutbound
<1>3. AtLeastOne(NumOutbound) \in Nat \ {0}
  BY <1>2 DEF AtLeastOne
<1>4. \A k \in Nat \ {0} : ProvableBatch \div k \in Nat /\ ProvableBatch \div k <= ProvableBatch
  BY NotesAssumption
<1> QED
  BY <1>3, <1>4, NotesAssumption DEF ExplorationShare, AtLeastOne

LEMMA ConstantTypes ==
    /\ MaxOwed \in Nat /\ MaxVisits \in Nat /\ 1 \in Visits
    /\ ProvableBatch \in Nat /\ Visits \subseteq 0..MaxVisits /\ Visits \subseteq Nat
    BY NotesAssumption DEF Visits

\* What is noted of a peer, or a new note, typed.
LEMMA NotesOfType == ASSUME TypeOK, NEW p \in Id PROVE NotesOf(p) \in Notes
    BY NotesTypes DEF TypeOK, NotesOf

\* Every variable keeps its type: one step per group of actions that change
\* the same variables.
LEMMA TypePreserved == TypeOK /\ [Next]_vars => TypeOK'
<1> SUFFICES ASSUME TypeOK, [Next]_vars PROVE TypeOK'
  OBVIOUS
<1> USE ConstantTypes, RequestIdleType, NotesTypes
<1>1. ASSUME NEW p \in Id, Accept(p) PROVE TypeOK'
  BY <1>1 DEF TypeOK, Accept, Connect, Visits
<1>2. ASSUME NEW p \in Id, RemovePeer(p) PROVE TypeOK'
  BY <1>2 DEF TypeOK, RemovePeer, Removed
<1>3. ASSUME NEW p \in Id, NEW r \in Requests, AddPeer(p, r) PROVE TypeOK'
  <2>1. conn[p].visit + 1 \in 0..MaxVisits
    BY <1>3 DEF TypeOK, AddPeer, Connect
  <2> QED
    BY <1>3, <2>1 DEF TypeOK, AddPeer, Connect, Spawned, RequestStates
<1>4. ASSUME NEW p \in Id, NEW r \in Requests, Crawl(p, r) PROVE TypeOK'
  <2>1. conn[p].visit \in 0..MaxVisits
    BY DEF TypeOK
  <2> QED
    BY <1>4, <2>1 DEF TypeOK, Crawl, Spawned, RequestStates
<1>5. ASSUME NEW r \in Requests, NoteRequest(r) PROVE TypeOK'
  <2>1. notes' \in [Id -> Notes]
    BY <1>5 DEF TypeOK, NoteRequest, Notes
  <2>2. request' \in [Requests -> RequestStates]
    BY <1>5 DEF TypeOK, NoteRequest, RequestStates
  <2>3. history' \in [Id -> Histories]
    BY <1>5 DEF TypeOK, NoteRequest, Histories
  <2> QED
    BY <1>5, <2>1, <2>2, <2>3 DEF TypeOK, NoteRequest
<1>6. ASSUME NEW r \in Requests, Send(r) PROVE TypeOK'
  <2>1. request' \in [Requests -> RequestStates]
    <3>1. [request[r] EXCEPT !.pc = "refused"] \in RequestStates
      BY DEF TypeOK, RequestStates
    <3>2. PICK q \in RequestStates : request' = [request EXCEPT ![r] = q]
      BY <1>6, <3>1 DEF Send
    <3> QED
      BY <3>2 DEF TypeOK
  <2>2. owed' \in [Id -> 0..MaxOwed]
    BY <1>6 DEF TypeOK, Send
  <2> QED
    BY <1>6, <2>1, <2>2 DEF TypeOK, Send
<1>7. ASSUME NEW r \in Requests, ForgetRequest(r) PROVE TypeOK'
  BY <1>7 DEF TypeOK, ForgetRequest, RequestStates, Notes, Never
<1>8. ASSUME NEW p \in Id, NEW v \in Visits, RequestArrives(p, v) PROVE TypeOK'
  BY <1>8 DEF TypeOK, RequestArrives, Reads, ReaderStates
<1>9. ASSUME NEW p \in Id, NEW v \in Visits, AnswerArrives(p, v) PROVE TypeOK'
  <2>1. reader' \in [Id -> [Visits -> ReaderStates]]
    BY <1>9 DEF TypeOK, AnswerArrives, Reads, ReaderStates
  <2>2. owed' \in [Id -> 0..MaxOwed]
    BY <1>9 DEF TypeOK, AnswerArrives
  <2> QED
    BY <1>9, <2>1, <2>2 DEF TypeOK, AnswerArrives
<1>10. ASSUME NEW p \in Id, NEW v \in Visits, Serve(p, v) PROVE TypeOK'
  <2>1. reader' \in [Id -> [Visits -> ReaderStates]]
    BY <1>10 DEF TypeOK, Serve, Returns
  <2>2. notes' \in [Id -> Notes]
    <3>1. \A at \in Nat : [NotesOf(p) EXCEPT !.served = at] \in Notes
      BY NotesOfType DEF Notes
    <3>2. now \in Nat /\ NotesOf(p).served \in Nat
      BY NotesOfType DEF TypeOK, Notes
    <3>3. PICK n \in Notes : notes' = [notes EXCEPT ![p] = n]
      BY <1>10, <3>1, <3>2 DEF Serve, Removed
    <3> QED
      BY <3>3 DEF TypeOK
  <2>3. history' \in [Id -> Histories]
    <3>1. [history[p] EXCEPT !.served = [visit |-> v, at |-> now]] \in Histories
      BY DEF TypeOK, Histories
    <3> QED
      BY <1>10, <3>1 DEF TypeOK, Serve
  <2>4. conn' \in [Id -> [kind : {"none", "in", "out"}, visit : 0..MaxVisits]]
    BY <1>10 DEF TypeOK, Serve
  <2>5. owed' \in [Id -> 0..MaxOwed]
    <3>1. owed' = owed \/ owed' = [owed EXCEPT ![p] = 0]
      BY <1>10 DEF Serve
    <3>2. owed \in [Id -> 0..MaxOwed]
      BY DEF TypeOK
    <3> QED
      BY <3>1, <3>2
  <2> QED
    BY <1>10, <2>1, <2>2, <2>3, <2>4, <2>5 DEF TypeOK, Serve
<1>11. ASSUME NEW p \in Id, NEW v \in Visits, AnswersOurRequest(p, v) PROVE TypeOK'
  <2>1. reader' \in [Id -> [Visits -> ReaderStates]]
    <3>0. reader[p][v] \in ReaderStates
      BY DEF TypeOK
    <3>1. \A pc \in {"learning", "idle"} : [reader[p][v] EXCEPT !.pc = pc] \in ReaderStates
      BY <3>0 DEF ReaderStates
    <3>2. PICK pc \in {"learning", "idle"} : reader' = [reader EXCEPT ![p][v].pc = pc]
      BY <1>11 DEF AnswersOurRequest
    <3> QED
      BY <3>1, <3>2 DEF TypeOK
  <2>2. notes' \in [Id -> Notes]
    BY <1>11 DEF TypeOK, AnswersOurRequest, Consumed, Notes, Never
  <2>3. history' \in [Id -> Histories]
    <3>0. history[p] \in Histories
      BY DEF TypeOK
    <3>1. /\ [history[p] EXCEPT !.taken = @ + 1] \in Histories
          /\ [history[p] EXCEPT !.taken = @] \in Histories
      BY <3>0 DEF Histories
    <3>2. PICK h \in Histories : history' = [history EXCEPT ![p] = h]
      BY <1>11, <3>1 DEF AnswersOurRequest
    <3> QED
      BY <3>2 DEF TypeOK
  <2> QED
    BY <1>11, <2>1, <2>2, <2>3 DEF TypeOK, AnswersOurRequest
<1>12. ASSUME NEW p \in Id, NEW v \in Visits, ExplorationAllowance(p, v) PROVE TypeOK'
  <2> DEFINE n == IF WindowOver(NotesOf(p).since)
                  THEN [NotesOf(p) EXCEPT !.since = now, !.learned = 0] ELSE NotesOf(p)
  <2>1. n \in Notes
    BY NotesOfType DEF TypeOK, Notes
  <2>2. Remaining(n) \in Nat
    BY <2>1, ShareType DEF Remaining, Notes
  <2>3. reader' = [reader EXCEPT ![p][v] = [pc |-> "counting", allowance |-> Remaining(n)]]
    BY <1>12 DEF ExplorationAllowance
  <2>4. reader' \in [Id -> [Visits -> ReaderStates]]
    <3> HIDE DEF n
    <3> QED BY <2>2, <2>3 DEF TypeOK, ReaderStates
  <2>5. notes' \in [Id -> Notes]
    <3>1. notes' = [notes EXCEPT ![p] = n]
      BY <1>12 DEF ExplorationAllowance
    <3> HIDE DEF n
    <3> QED BY <3>1, <2>1 DEF TypeOK
  <2>6. history' \in [Id -> Histories]
    BY <1>12 DEF TypeOK, ExplorationAllowance, Histories
  <2> QED
    BY <1>12, <2>4, <2>5, <2>6 DEF TypeOK, ExplorationAllowance
<1>13. ASSUME NEW p \in Id, NEW v \in Visits, NEW d \in 0..ProvableBatch, Learn(p, v, d) PROVE TypeOK'
  <2>1. reader' \in [Id -> [Visits -> ReaderStates]]
    BY <1>13 DEF TypeOK, Learn, Returns
  <2>2. notes' \in [Id -> Notes]
    <3> DEFINE n == IF notes[p].held THEN notes[p] ELSE [Fresh EXCEPT !.since = now]
    <3>1. n \in Notes
      BY DEF TypeOK, Notes
    <3>2. [n EXCEPT !.learned = @ + d] \in Notes
      BY <3>1 DEF Notes
    <3>3. notes' = notes \/ notes' = [notes EXCEPT ![p] = [n EXCEPT !.learned = @ + d]]
      BY <1>13 DEF Learn
    <3> HIDE DEF n
    <3> QED
      BY <3>2, <3>3 DEF TypeOK
  <2>3. history' \in [Id -> Histories]
    <3> DEFINE heard == history[p].heard
               windows == [since : Nat, count : Nat]
               next == IF ~Open(p, v) THEN heard
                       ELSE IF ~notes[p].held /\ WindowOver(heard.since) /\ d > 0
                       THEN [since |-> now, count |-> d]
                       ELSE [since |-> heard.since, count |-> heard.count + d]
    <3>1. history[p] \in Histories /\ heard \in windows /\ now \in Nat /\ d \in Nat
      BY DEF TypeOK, Histories
    <3>2. next \in windows
      BY <3>1
    <3>3. history' = [history EXCEPT ![p].heard = next]
      BY <1>13 DEF Learn
    <3> HIDE DEF next, heard
    <3>4. [history[p] EXCEPT !.heard = next] \in Histories
      BY <3>1, <3>2 DEF Histories
    <3> QED
      BY <3>3, <3>4 DEF TypeOK
  <2> QED
    BY <1>13, <2>1, <2>2, <2>3 DEF TypeOK, Learn
<1>14. CASE Tick
  BY <1>14 DEF TypeOK, Tick
<1>15. CASE UNCHANGED vars
  BY <1>15 DEF TypeOK, vars
<1> QED
  BY <1>1, <1>2, <1>3, <1>4, <1>5, <1>6, <1>7, <1>8, <1>9, <1>10, <1>11, <1>12, <1>13, <1>14, <1>15
     DEF Next, Reader

\* A request noted has had no answer.
LEMMA NotedUnanswered ==
    ASSUME TypeOK, TypeOK', Unanswered, NEW r \in Requests, NoteRequest(r)
    PROVE  Unanswered'
<1> DEFINE p == request[r].peer
<1>1. p \in Id
  BY DEF TypeOK, RequestStates
<1>2. history' = [history EXCEPT ![p].taken = 0]
  BY DEF NoteRequest
<1>3. \A q \in Id \ {p} : notes'[q].asked \in {Never, notes[q].asked}
  BY NotesTypes DEF NoteRequest, TypeOK
<1> HIDE DEF p
<1>4. history'[p].taken = 0
  BY <1>1, <1>2 DEF TypeOK, Histories
<1>5. \A q \in Id \ {p} : history'[q].taken = history[q].taken
  BY <1>2 DEF TypeOK
<1> QED
  BY <1>3, <1>4, <1>5 DEF Unanswered, PendingIsUnanswered, OneAnswerPerRequest, Never

\* An answer taken takes the request with it.
LEMMA AnswerConsumes ==
    ASSUME TypeOK, TypeOK', Unanswered, NEW p \in Id, NEW v \in Visits, AnswersOurRequest(p, v)
    PROVE  Unanswered'
<1> DEFINE inTime == notes[p].asked # Never /\ now - notes[p].asked <= AnswerWindow
<1>1. history' = [history EXCEPT ![p].taken = IF inTime THEN @ + 1 ELSE @]
  BY DEF AnswersOurRequest
<1>2. inTime => history[p].taken = 0
  BY DEF Unanswered, PendingIsUnanswered
<1>3. notes'[p].asked = Never
  BY DEF AnswersOurRequest, Consumed, TypeOK, Notes
<1>4. \A q \in Id \ {p} : notes'[q] = notes[q] /\ history'[q] = history[q]
  BY DEF AnswersOurRequest, TypeOK
<1> HIDE DEF inTime
<1>5. history'[p].taken = IF inTime THEN history[p].taken + 1 ELSE history[p].taken
  BY <1>1 DEF TypeOK, Histories
<1>6. history'[p].taken <= 1
  BY <1>2, <1>5 DEF Unanswered, OneAnswerPerRequest, TypeOK, Histories
<1> QED
  BY <1>3, <1>4, <1>6 DEF Unanswered, PendingIsUnanswered, OneAnswerPerRequest

LEMMA UnansweredPreserved ==
    ASSUME TypeOK, TypeOK', Unanswered, [Next]_vars PROVE Unanswered'
<1> USE NotesTypes
<1>0. NotesTyped /\ NotesTyped'
  BY DEF NotesTyped, TypeOK
<1>1. ASSUME UNCHANGED <<notes, history>> PROVE Unanswered'
  BY <1>1 DEF Unanswered, PendingIsUnanswered, OneAnswerPerRequest
<1>2. ASSUME NEW p \in Id, RemovePeer(p) PROVE Unanswered'
  <2>1. \A q \in Id : notes'[q].asked \in {Never, notes[q].asked}
    BY <1>2 DEF RemovePeer, Removed, TypeOK
  <2> QED
    BY <1>0, <1>2, <2>1, NothingTaken DEF RemovePeer
<1>3. ASSUME NEW r \in Requests, NoteRequest(r) PROVE Unanswered'
  BY <1>3, NotedUnanswered
<1>4. ASSUME NEW r \in Requests, ForgetRequest(r) PROVE Unanswered'
  <2>1. \A q \in Id : notes'[q].asked \in {Never, notes[q].asked}
    BY <1>4 DEF ForgetRequest, TypeOK, Notes, RequestStates
  <2> QED
    BY <1>0, <1>4, <2>1, NothingTaken DEF ForgetRequest
<1>5. ASSUME NEW p \in Id, NEW v \in Visits, Serve(p, v) PROVE Unanswered'
  <2>1. NotesOf(p).asked \in {Never, notes[p].asked}
    BY DEF NotesOf
  <2>2. \A q \in Id : notes'[q].asked \in {Never, notes[q].asked}
    BY <1>5, <2>1, NotesOfType DEF Serve, Removed, TypeOK, Notes
  <2>3. \A q \in Id : history'[q].taken = history[q].taken
    BY <1>5 DEF Serve, TypeOK, Histories
  <2> QED
    BY <1>0, <2>2, <2>3, NothingTaken
<1>6. ASSUME NEW p \in Id, NEW v \in Visits, AnswersOurRequest(p, v) PROVE Unanswered'
  BY <1>6, AnswerConsumes
<1>7. ASSUME NEW p \in Id, NEW v \in Visits, ExplorationAllowance(p, v) PROVE Unanswered'
  <2> DEFINE n == IF WindowOver(NotesOf(p).since)
                  THEN [NotesOf(p) EXCEPT !.since = now, !.learned = 0] ELSE NotesOf(p)
  <2>1. NotesOf(p).asked \in {Never, notes[p].asked}
    BY DEF NotesOf
  <2>2. n.asked \in {Never, notes[p].asked}
    BY <2>1, NotesOfType DEF Notes
  <2>3. notes' = [notes EXCEPT ![p] = n]
    BY <1>7 DEF ExplorationAllowance
  <2>4. \A q \in Id : history'[q].taken = history[q].taken
    BY <1>7 DEF ExplorationAllowance, TypeOK, Histories
  <2> HIDE DEF n
  <2>5. \A q \in Id : notes'[q].asked \in {Never, notes[q].asked}
    BY <2>2, <2>3 DEF TypeOK
  <2> QED
    BY <1>0, <2>4, <2>5, NothingTaken
<1>8. ASSUME NEW p \in Id, NEW v \in Visits, NEW d \in 0..ProvableBatch, Learn(p, v, d)
      PROVE Unanswered'
  <2>1. \A q \in Id : notes'[q].asked \in {Never, notes[q].asked}
    BY <1>8 DEF Learn, TypeOK, Notes
  <2>2. \A q \in Id : history'[q].taken = history[q].taken
    BY <1>8 DEF Learn, TypeOK, Histories
  <2> QED
    BY <1>0, <2>1, <2>2, NothingTaken
<1> QED
  BY <1>1, <1>2, <1>3, <1>4, <1>5, <1>6, <1>7, <1>8
     DEF Next, Reader, Accept, AddPeer, Connect, Crawl, Send, RequestArrives, AnswerArrives, Tick, vars

\* Everything the notes are made of keeps its type, whatever the two
\* exchanges, the purge and the switch do.
THEOREM NotesTypeCorrect == Spec => []TypeOK
<1>1. Init => TypeOK
  BY NotesTypes, RequestIdleType, ConstantTypes DEF Init, TypeOK
<1> QED
  BY <1>1, TypePreserved, PTL DEF Spec

LEMMA UnansweredHolds == Spec => []Unanswered
<1>1. Init => Unanswered
  BY NotesTypes DEF Init, Unanswered, PendingIsUnanswered, OneAnswerPerRequest, NoHistory, Never
<1>2. TypeOK /\ TypeOK' /\ Unanswered /\ [Next]_vars => Unanswered'
  BY UnansweredPreserved
<1> QED
  BY <1>1, <1>2, NotesTypeCorrect, PTL DEF Spec

\* While a request is noted nothing has been taken since: whoever takes an
\* answer takes the note with it, and a new note starts the count again.
THEOREM PendingStayUnanswered == Spec => []PendingIsUnanswered
<1>1. Unanswered => PendingIsUnanswered
  BY DEF Unanswered
<1> QED
  BY <1>1, UnansweredHolds, PTL

\* So one request buys one answer, however many are sent, fail, or are
\* forgotten, and however late a handler is.
THEOREM OneAnswer == Spec => []OneAnswerPerRequest
<1>1. Unanswered => OneAnswerPerRequest
  BY DEF Unanswered
<1> QED
  BY <1>1, UnansweredHolds, PTL

\* What the gap rests on, for one peer: a note of service is held and not of
\* the future; and the last service of a connection still open is remembered,
\* or a later one is, or it is so long ago that it need not be.
ServiceNoted(p) ==
    /\ notes[p].served <= now
    /\ notes[p].served # Never => notes[p].held
    /\ history[p].served.visit <= conn[p].visit

Remembered(p) ==
    LET last == history[p].served
    IN  Open(p, last.visit) /\ last.visit # 0 =>
            \/ last.at >= 1 /\ notes[p].served >= last.at
            \/ now - last.at >= MinServeInterval

GapInv == now >= 1 /\ \A p \in Id : ServiceNoted(p) /\ Remembered(p)

\* A step that serves p nothing: p leaves or is new, or its note of service
\* is no older than before, or too old to matter.
Unserved(p) ==
    /\ history'[p].served = history[p].served
    /\ \/ conn'[p].kind = "none" /\ conn'[p].visit = conn[p].visit
       \/ conn'[p].visit > conn[p].visit
       \/ /\ conn'[p] = conn[p]
          /\ \/ notes'[p].served >= notes[p].served
             \/ now - notes[p].served > AnswerWindow
    /\ notes'[p].served <= now'
    /\ notes'[p].served # Never => notes'[p].held

LEMMA StillRemembered ==
    ASSUME TypeOK, TypeOK', GapInv, NEW p \in Id, Unserved(p), now' >= now
    PROVE  ServiceNoted(p)' /\ Remembered(p)'
<1> DEFINE last == history[p].served
<1>1. /\ now \in Nat /\ now' \in Nat /\ MinServeInterval \in Nat /\ AnswerWindow \in Nat
      /\ last.visit \in Nat /\ last.at \in Nat
      /\ notes[p].served \in Nat /\ notes'[p].served \in Nat
      /\ conn[p].visit \in 0..MaxVisits /\ conn'[p].visit \in 0..MaxVisits /\ MaxVisits \in Nat
  BY NotesAssumption DEF TypeOK, Histories, Notes
<1>2. history'[p].served = last /\ ServiceNoted(p) /\ Remembered(p)
  BY DEF Unserved, GapInv
<1>3. ServiceNoted(p)'
  BY <1>1, <1>2 DEF Unserved, ServiceNoted
<1>4. ASSUME Open(p, last.visit)', last.visit # 0
      PROVE \/ last.at >= 1 /\ notes'[p].served >= last.at
            \/ now' - last.at >= MinServeInterval
  <2>1. conn'[p].kind # "none" /\ conn'[p].visit = last.visit
    BY <1>4, <1>2 DEF Open
  <2>2. conn'[p] = conn[p]
    BY <2>1, <1>1, <1>2 DEF Unserved, ServiceNoted
  <2>3. \/ last.at >= 1 /\ notes[p].served >= last.at
        \/ now - last.at >= MinServeInterval
    BY <2>1, <2>2, <1>2, <1>4 DEF Remembered, Open
  <2>4. notes'[p].served >= notes[p].served \/ now - notes[p].served > AnswerWindow
    BY <2>1, <2>2, <1>1 DEF Unserved
  <2> QED
    BY <2>3, <2>4, <1>1, NotesAssumption
<1> QED
  BY <1>2, <1>3, <1>4 DEF Remembered

\* Every step but a service.
LEMMA OthersServeNobody ==
    ASSUME TypeOK, TypeOK', GapInv, [Next]_vars,
           \A p \in Id, v \in Visits : ~Serve(p, v)
    PROVE  now' >= now /\ \A q \in Id : Unserved(q)
<1>0. /\ now \in Nat /\ \A q \in Id : notes[q] \in Notes /\ conn[q].visit \in 0..MaxVisits
      /\ MaxVisits \in Nat
      /\ \A q \in Id : notes[q].served \in Nat /\ notes[q].served <= now
      /\ \A q \in Id : notes[q].served # Never => notes[q].held
  BY NotesAssumption DEF TypeOK, Notes, GapInv, ServiceNoted
<1>1. ASSUME now' >= now, UNCHANGED <<conn, notes, history>>
      PROVE  now' >= now /\ \A q \in Id : Unserved(q)
  <2>1. now' \in Nat
    BY DEF TypeOK
  <2> QED
    BY <1>0, <1>1, <2>1 DEF Unserved
<1>2. ASSUME NEW p \in Id, NEW kind \in {"in", "out"}, Connect(p, kind)
      PROVE  now' >= now /\ \A q \in Id : Unserved(q)
  <2>1. now' = now /\ notes' = notes /\ history' = history
    BY <1>2 DEF Connect
  <2>2. conn'[p].visit > conn[p].visit /\ \A q \in Id \ {p} : conn'[q] = conn[q]
    BY <1>0, <1>2 DEF Connect, TypeOK
  <2> QED
    BY <1>0, <2>1, <2>2 DEF Unserved
<1>3. ASSUME NEW p \in Id, RemovePeer(p)
      PROVE  now' >= now /\ \A q \in Id : Unserved(q)
  <2>1. now' = now /\ history' = history
    BY <1>3 DEF RemovePeer
  <2>2. /\ conn'[p].kind = "none" /\ conn'[p].visit = conn[p].visit /\ notes'[p] = NoNotes
        /\ \A q \in Id \ {p} : conn'[q] = conn[q] /\ notes'[q] = notes[q]
    BY <1>3 DEF RemovePeer, Removed, TypeOK
  <2> QED
    BY <1>0, <2>1, <2>2 DEF Unserved, NoNotes, Never
<1>4. ASSUME NEW r \in Requests, NoteRequest(r)
      PROVE  now' >= now /\ \A q \in Id : Unserved(q)
  <2> DEFINE p == request[r].peer
             Kept(q) == IF Forgettable(notes[q]) THEN NoNotes ELSE notes[q]
  <2>1. /\ now' = now /\ conn' = conn
        /\ \A q \in Id : history'[q].served = history[q].served
    BY <1>4 DEF NoteRequest, TypeOK, Histories
  <2>2. \A q \in Id : notes'[q] = IF q # p THEN Kept(q) ELSE [Kept(q) EXCEPT !.held = TRUE, !.asked = now]
    BY <1>4 DEF NoteRequest
  <2>3. \A q \in Id : Kept(q) \in Notes
    BY <1>0, NotesTypes
  <2>4. \A q \in Id : /\ notes'[q].served = Kept(q).served
                      /\ Kept(q).held => notes'[q].held
    <3> HIDE DEF Kept
    <3> QED BY <2>2, <2>3 DEF Notes
  <2>5. \A q \in Id : Kept(q) = notes[q] \/ (Kept(q) = NoNotes /\ Forgettable(notes[q]))
    OBVIOUS
  <2> HIDE DEF Kept
  <2>6. ASSUME NEW q \in Id PROVE Unserved(q)
    <3>1. CASE Kept(q) = notes[q]
      BY <1>0, <2>1, <2>4, <3>1 DEF Unserved
    <3>2. CASE Kept(q) = NoNotes /\ Forgettable(notes[q])
      <4>1. notes'[q].served = Never
        BY <2>4, <3>2 DEF NoNotes
      <4>2. notes[q].served = Never \/ now - notes[q].served > AnswerWindow
        BY <3>2 DEF Forgettable, Elapsed
      <4> QED
        BY <1>0, <2>1, <4>1, <4>2 DEF Unserved, Never
    <3> QED
      BY <2>5, <3>1, <3>2
  <2> QED
    BY <1>0, <2>1, <2>6
<1>5. ASSUME now' = now, conn' = conn,
             \A q \in Id : history'[q].served = history[q].served,
             NEW p \in Id, \A q \in Id \ {p} : notes'[q] = notes[q],
             notes'[p].served = notes[p].served, notes[p].held => notes'[p].held
      PROVE  now' >= now /\ \A q \in Id : Unserved(q)
  BY <1>0, <1>5 DEF Unserved
<1>6. ASSUME NEW r \in Requests, ForgetRequest(r)
      PROVE  now' >= now /\ \A q \in Id : Unserved(q)
  <2> DEFINE p == request[r].peer
  <2>1. p \in Id
    BY DEF TypeOK, RequestStates
  <2>2. notes' = [notes EXCEPT ![p].asked = Never] /\ now' = now /\ conn' = conn /\ history' = history
    BY <1>6 DEF ForgetRequest
  <2> HIDE DEF p
  <2>3. /\ \A q \in Id \ {p} : notes'[q] = notes[q]
        /\ notes'[p].served = notes[p].served /\ notes'[p].held = notes[p].held
    BY <1>0, <2>1, <2>2 DEF TypeOK, Notes
  <2> QED
    BY <1>5, <2>1, <2>2, <2>3
<1>7. ASSUME NEW p \in Id PROVE NotesOf(p).served = notes[p].served /\ NotesOf(p).held
  BY <1>0 DEF NotesOf, Fresh, NoNotes, Never
<1>8. ASSUME NEW p \in Id, NEW v \in Visits, AnswersOurRequest(p, v)
      PROVE  now' >= now /\ \A q \in Id : Unserved(q)
  <2>1. \A q \in Id : history'[q].served = history[q].served
    BY <1>8 DEF AnswersOurRequest, TypeOK, Histories
  <2>2. /\ \A q \in Id \ {p} : notes'[q] = notes[q]
        /\ notes'[p].served = notes[p].served /\ notes'[p].held = notes[p].held
    BY <1>0, <1>8 DEF AnswersOurRequest, Consumed, TypeOK, Notes
  <2> QED
    BY <1>5, <1>8, <2>1, <2>2 DEF AnswersOurRequest
<1>9. ASSUME NEW p \in Id, NEW v \in Visits, ExplorationAllowance(p, v)
      PROVE  now' >= now /\ \A q \in Id : Unserved(q)
  <2> DEFINE n == IF WindowOver(NotesOf(p).since)
                  THEN [NotesOf(p) EXCEPT !.since = now, !.learned = 0] ELSE NotesOf(p)
  <2>1. \A q \in Id : history'[q].served = history[q].served
    BY <1>9 DEF ExplorationAllowance, TypeOK, Histories
  <2>2. n.served = notes[p].served /\ n.held
    BY <1>7, NotesOfType DEF Notes
  <2>3. notes' = [notes EXCEPT ![p] = n] /\ now' = now /\ conn' = conn
    BY <1>9 DEF ExplorationAllowance
  <2> HIDE DEF n
  <2>4. /\ \A q \in Id \ {p} : notes'[q] = notes[q]
        /\ notes'[p].served = notes[p].served /\ notes'[p].held
    BY <2>2, <2>3 DEF TypeOK
  <2> QED
    BY <1>5, <2>1, <2>3, <2>4
<1>10. ASSUME NEW p \in Id, NEW v \in Visits, NEW d \in 0..ProvableBatch, Learn(p, v, d)
      PROVE  now' >= now /\ \A q \in Id : Unserved(q)
  <2> DEFINE n == IF notes[p].held THEN notes[p] ELSE [Fresh EXCEPT !.since = now]
  <2>1. \A q \in Id : history'[q].served = history[q].served
    BY <1>10 DEF Learn, TypeOK, Histories
  <2>2. n.served = notes[p].served /\ n.held /\ n \in Notes
    BY <1>0, NotesTypes DEF TypeOK, Notes, Fresh, NoNotes, Never
  <2>3. /\ notes' = notes \/ notes' = [notes EXCEPT ![p] = [n EXCEPT !.learned = @ + d]]
        /\ now' = now /\ conn' = conn
    BY <1>10 DEF Learn
  <2> HIDE DEF n
  <2>4. /\ \A q \in Id \ {p} : notes'[q] = notes[q]
        /\ notes'[p].served = notes[p].served /\ (notes[p].held => notes'[p].held)
    BY <2>2, <2>3 DEF TypeOK, Notes
  <2> QED
    BY <1>5, <2>1, <2>3, <2>4
<1>11. ASSUME now' = now, UNCHANGED <<conn, notes, history>>
      PROVE  now' >= now /\ \A q \in Id : Unserved(q)
  BY <1>0, <1>1, <1>11
<1>12. CASE Tick
  BY <1>0, <1>1, <1>12 DEF Tick
<1> QED
  BY <1>2, <1>3, <1>4, <1>6, <1>8, <1>9, <1>10, <1>11, <1>12
     DEF Next, Reader, Accept, AddPeer, Crawl, Send, RequestArrives, AnswerArrives, vars

\* A service keeps the invariant, and its distance from the one before.
LEMMA ServiceKeepsGap ==
    ASSUME TypeOK, TypeOK', GapInv, NEW p \in Id, NEW v \in Visits, Serve(p, v)
    PROVE  GapInv' /\ ServedApart
<1> DEFINE n == NotesOf(p)
           may == n.served = Never \/ now - n.served >= MinServeInterval
<1>0. /\ now \in Nat /\ now >= 1 /\ now' = now
      /\ \A q \in Id : notes[q] \in Notes /\ notes[q].served \in Nat /\ notes[q].served <= now
      /\ \A q \in Id : notes[q].served # Never => notes[q].held
  BY DEF TypeOK, Notes, GapInv, ServiceNoted, Serve
<1>1. n \in Notes /\ n.served = notes[p].served /\ n.held
  BY <1>0, NotesOfType DEF NotesOf, Fresh, NoNotes, Never
<1>2. \A q \in Id \ {p} : history'[q] = history[q] /\ conn'[q] = conn[q] /\ notes'[q] = notes[q]
  BY DEF Serve, Removed, TypeOK
<1>3. \A q \in Id \ {p} : Unserved(q)
  BY <1>0, <1>2 DEF Unserved
<1>4. (\A q \in Id : Unserved(q)) => GapInv' /\ ServedApart
  BY <1>0, StillRemembered DEF GapInv, ServedApart, Unserved
<1>5. ASSUME ~(may /\ Open(p, v)), UNCHANGED <<conn, history>>,
             notes' = [notes EXCEPT ![p] = [n EXCEPT !.served = IF may THEN now ELSE @]]
      PROVE  GapInv' /\ ServedApart
  <2>1. notes'[p].served \in {now, notes[p].served} /\ notes'[p].held
    <3> HIDE DEF n, may
    <3> QED BY <1>1, <1>5 DEF TypeOK, Notes
  <2>2. Unserved(p)
    BY <1>0, <1>5, <2>1 DEF Unserved
  <2> QED
    BY <1>3, <1>4, <2>2
<1>6. ASSUME may, Open(p, v), notes' = Removed(p), UNCHANGED history,
             conn' = [conn EXCEPT ![p].kind = "none"]
      PROVE  GapInv' /\ ServedApart
  <2>1. notes'[p] = NoNotes /\ conn'[p].kind = "none" /\ conn'[p].visit = conn[p].visit
    BY <1>6 DEF TypeOK, Removed
  <2>2. Unserved(p)
    BY <1>0, <1>6, <2>1 DEF Unserved, NoNotes, Never
  <2> QED
    BY <1>3, <1>4, <2>2
<1>7. ASSUME may, Open(p, v), conn' = conn,
             notes' = [notes EXCEPT ![p] = [n EXCEPT !.served = now]],
             history' = [history EXCEPT ![p].served = [visit |-> v, at |-> now]]
      PROVE  GapInv' /\ ServedApart
  <2> DEFINE last == history[p].served
  <2>1. notes'[p].served = now /\ notes'[p].held
    <3> HIDE DEF n
    <3> QED BY <1>1, <1>7 DEF TypeOK, Notes
  <2>2. history'[p].served = [visit |-> v, at |-> now] /\ conn'[p] = conn[p] /\ conn[p].visit = v
    BY <1>7 DEF TypeOK, Histories, Open
  <2>3. v \in Nat /\ v # 0 /\ last.at \in Nat /\ last.visit \in Nat /\ MinServeInterval \in Nat
    <3>1. last \in [visit : Nat, at : Nat]
      BY DEF TypeOK, Histories
    <3> QED
      BY <3>1, NotesAssumption DEF Visits
  <2>4. ServiceNoted(p)' /\ Remembered(p)'
    BY <1>0, <2>1, <2>2, <2>3 DEF ServiceNoted, Remembered
  <2>5. \A q \in Id \ {p} : ServiceNoted(q)' /\ Remembered(q)'
    BY <1>0, <1>3, StillRemembered
  <2>6. ASSUME last.visit = v PROVE now - last.at >= MinServeInterval
    <3>1. Remembered(p) /\ Open(p, last.visit)
      BY <1>7, <2>6 DEF GapInv
    <3>2. \/ last.at >= 1 /\ notes[p].served >= last.at
          \/ now - last.at >= MinServeInterval
      BY <2>3, <2>6, <3>1 DEF Remembered
    <3>3. notes[p].served = Never \/ now - notes[p].served >= MinServeInterval
      BY <1>1, <1>7
    <3> QED
      BY <1>0, <2>3, <3>2, <3>3 DEF Never
  <2>7. GapInv'
    BY <1>0, <2>4, <2>5 DEF GapInv
  <2>8. ServedApart
    BY <1>2, <2>2, <2>6 DEF ServedApart
  <2> QED
    BY <2>7, <2>8
<1> QED
  BY <1>5, <1>6, <1>7 DEF Serve

\* Two answers to one connection are minServeInterval apart.  What remembers
\* the first is only forgotten when it is older than answerWindow, and that is
\* no shorter.
THEOREM GapKept == Spec => GapWithinVisit
<1>1. Init /\ TypeOK => GapInv
  BY DEF Init, TypeOK, GapInv, ServiceNoted, Remembered, NoNotes, NoHistory, Never
<1>2. ASSUME TypeOK, TypeOK', GapInv, [Next]_vars
      PROVE  GapInv' /\ [ServedApart]_vars
  <2>1. CASE \E p \in Id, v \in Visits : Serve(p, v)
    BY <1>2, <2>1, ServiceKeepsGap
  <2>2. CASE \A p \in Id, v \in Visits : ~Serve(p, v)
    <3>1. now' >= now /\ \A q \in Id : Unserved(q)
      BY <1>2, <2>2, OthersServeNobody
    <3>2. now' >= 1
      BY <1>2, <3>1 DEF GapInv, TypeOK
    <3>3. GapInv'
      BY <1>2, <3>1, <3>2, StillRemembered DEF GapInv
    <3>4. ServedApart
      BY <3>1 DEF ServedApart, Unserved
    <3> QED
      BY <3>3, <3>4
  <2> QED
    BY <2>1, <2>2
<1> QED
  BY <1>1, <1>2, NotesTypeCorrect, PTL DEF Spec, GapWithinVisit

-----------------------------------------------------------------------------
(* What one visit makes the book learn.                                    *)

\* A note that is not held has no window, and neither has that of a peer which
\* has never connected.
UnheldHasNoWindow == \A p \in Id : ~notes[p].held => notes[p].since = Never
StrangersAreUnheard ==
    \A p \in Id : conn[p].visit = 0 => notes[p].since = Never /\ history[p].heard.since = Never
                                       /\ history[p].heard.count = 0

\* A handler belongs to a connection that is, or has been.
HandlersHadConnection ==
    \A p \in Id, v \in Visits : reader[p][v].pc # "idle" => v <= conn[p].visit

\* During the first connection the window of the note is the one heard, and
\* what was heard is booked; or the note has lost a window that is over.
Aligned(p) ==
    \/ notes[p].since = history[p].heard.since /\ history[p].heard.count <= notes[p].learned
    \/ notes[p].since = Never /\ WindowOver(history[p].heard.since)
WindowsAgree == \A p \in Id : Open(p, 1) => Aligned(p)

\* A handler that is counting has room for all it may still count.
RoomToCount ==
    \A p \in Id : Open(p, 1) /\ reader[p][1].pc = "counting"
        => history[p].heard.count + reader[p][1].allowance <= ProvableBatch

ShareInv ==
    /\ UnheldHasNoWindow /\ StrangersAreUnheard /\ HandlersHadConnection
    /\ WindowsAgree /\ RoomToCount /\ LearnedWithinShare

\* What a step may do to the note of a peer without counting anything: leave
\* its window alone, or forget one that is over or whose peer is gone.
NoteUntouched(p) ==
    \/ /\ notes'[p].since = notes[p].since /\ notes'[p].learned = notes[p].learned
       /\ notes[p].held => notes'[p].held
    \/ /\ notes'[p].since = Never
       /\ notes[p].since = Never \/ WindowOver(notes[p].since) \/ conn'[p].kind = "none"

ConnectionMoves(p) ==
    \/ conn'[p] = conn[p]
    \/ conn'[p].kind = "none" /\ conn'[p].visit = conn[p].visit
    \/ conn[p].kind = "none" /\ conn'[p].visit = conn[p].visit + 1

HandlerMoves(p, v) ==
    \/ reader'[p][v] = reader[p][v]
    \/ reader'[p][v].pc # "counting" /\ v <= conn[p].visit

Uncounted(p) ==
    /\ history'[p].heard = history[p].heard
    /\ NoteUntouched(p) /\ ConnectionMoves(p)
    /\ \A v \in Visits : HandlerMoves(p, v)

\* The types, peer by peer.
LEMMA PeerTypes ==
    ASSUME TypeOK, NEW p \in Id
    PROVE  /\ now \in Nat /\ ExplorationWindow \in Nat /\ ProvableBatch \in Nat /\ 1 \in Visits
           /\ Visits \subseteq Nat \ {0}
           /\ conn[p].visit \in Nat
           /\ notes[p].since \in Nat /\ notes[p].learned \in Nat
           /\ history[p].heard.since \in Nat /\ history[p].heard.count \in Nat
           /\ \A v \in Visits : reader[p][v].allowance \in Nat
<1>1. MaxVisits \in Nat \ {0} /\ 1 \in Visits /\ Visits \subseteq Nat \ {0}
  BY NotesAssumption DEF Visits
<1>2. conn[p].visit \in 0..MaxVisits /\ notes[p] \in Notes /\ history[p] \in Histories
      /\ \A v \in Visits : reader[p][v] \in ReaderStates
  BY DEF TypeOK
<1> QED
  BY <1>1, <1>2, NotesAssumption DEF TypeOK, Notes, Histories, ReaderStates

\* The claim on one peer.
ShareOf(p) ==
    /\ ~notes[p].held => notes[p].since = Never
    /\ conn[p].visit = 0 => notes[p].since = Never /\ history[p].heard.since = Never
                            /\ history[p].heard.count = 0
    /\ \A v \in Visits : reader[p][v].pc # "idle" => v <= conn[p].visit
    /\ Open(p, 1) => Aligned(p)
    /\ Open(p, 1) /\ reader[p][1].pc = "counting"
         => history[p].heard.count + reader[p][1].allowance <= ProvableBatch
    /\ conn[p].visit = 1 => history[p].heard.count <= ProvableBatch

LEMMA ShareByPeer == ShareInv <=> \A p \in Id : ShareOf(p)
  BY DEF ShareInv, UnheldHasNoWindow, StrangersAreUnheard, HandlersHadConnection, WindowsAgree,
         RoomToCount, LearnedWithinShare, ShareOf

\* A step that counts nothing from a peer keeps the claim on it.
LEMMA UncountedKeepsShare ==
    ASSUME TypeOK, TypeOK', now' >= now, NEW p \in Id, ShareOf(p), Uncounted(p)
    PROVE  ShareOf(p)'
<1> USE DEF Uncounted
<1>0. /\ conn[p].visit \in Nat /\ conn'[p].visit \in Nat /\ 1 \in Visits /\ Visits \subseteq Nat \ {0}
      /\ notes[p].since \in Nat /\ history[p].heard.since \in Nat
      /\ history[p].heard.count \in Nat /\ ProvableBatch \in Nat
  <2>1. conn'[p].visit \in 0..MaxVisits
    BY DEF TypeOK
  <2> QED
    BY <2>1, PeerTypes
<1>1. ~notes'[p].held => notes'[p].since = Never
  BY DEF ShareOf, NoteUntouched
<1>2. conn'[p].visit >= conn[p].visit
  BY <1>0 DEF ConnectionMoves
<1>3. conn'[p].visit = 0 => notes'[p].since = Never /\ history'[p].heard.since = Never
                            /\ history'[p].heard.count = 0
  BY <1>0, <1>2 DEF ShareOf, NoteUntouched
<1>4. \A v \in Visits : reader'[p][v].pc # "idle" => v <= conn'[p].visit
  BY <1>0, <1>2 DEF ShareOf, HandlerMoves
<1>5. CASE Open(p, 1)' /\ ~Open(p, 1)
  <2>1. conn[p].visit = 0 /\ conn'[p].visit = 1
    BY <1>0, <1>5 DEF Open, ConnectionMoves
  <2>2. notes'[p].since = Never /\ history'[p].heard.since = Never /\ history'[p].heard.count = 0
    BY <2>1 DEF ShareOf, NoteUntouched
  <2>3. reader'[p][1].pc # "counting"
    BY <1>0, <2>1 DEF ShareOf, HandlerMoves
  <2>4. Aligned(p)'
    BY <2>2 DEF Aligned, WindowOver
  <2> QED
    BY <1>0, <1>1, <1>4, <2>1, <2>2, <2>3, <2>4 DEF ShareOf
<1>6. CASE Open(p, 1)' /\ Open(p, 1)
  <2>1. conn'[p].kind # "none" /\ conn'[p].visit = 1 /\ conn[p].visit = 1 /\ Aligned(p)
    BY <1>6 DEF Open, ShareOf
  <2>2. Aligned(p)'
    <3>1. WindowOver(history[p].heard.since) => WindowOver(history[p].heard.since)'
      <4>1. history[p].heard.since = history'[p].heard.since
        OBVIOUS
      <4>2. now \in Nat /\ now' \in Nat /\ ExplorationWindow \in Nat
        BY NotesAssumption DEF TypeOK
      <4> QED
        BY <1>0, <4>1, <4>2 DEF WindowOver
    <3> QED
      BY <2>1, <3>1 DEF Aligned, NoteUntouched, WindowOver
  <2>3. reader'[p][1].pc = "counting" => reader'[p][1] = reader[p][1]
    BY <1>0 DEF HandlerMoves
  <2> QED
    BY <1>0, <1>1, <1>4, <1>6, <2>1, <2>2, <2>3 DEF ShareOf
<1>7. CASE ~Open(p, 1)'
  <2>1. conn'[p].visit = 1 => history[p].heard.count <= ProvableBatch
    BY <1>0 DEF ConnectionMoves, ShareOf
  <2> QED
    BY <1>1, <1>3, <1>4, <1>7, <2>1 DEF ShareOf
<1> QED
  BY <1>5, <1>6, <1>7

\* explorationAllowance starts a window when the last is over, for the note and
\* for what is heard alike, and hands out what is left of a share.
LEMMA AllowanceKeepsShare ==
    ASSUME TypeOK, NEW p \in Id, NEW v \in Visits, ShareOf(p), ExplorationAllowance(p, v)
    PROVE  ShareOf(p)'
<1> DEFINE n == IF WindowOver(NotesOf(p).since)
                THEN [NotesOf(p) EXCEPT !.since = now, !.learned = 0] ELSE NotesOf(p)
           heard == history[p].heard
<1>0. /\ now \in Nat /\ conn[p].visit \in Nat /\ 1 \in Visits /\ v \in Nat \ {0}
      /\ heard.since \in Nat /\ heard.count \in Nat /\ ProvableBatch \in Nat
      /\ ExplorationShare \in Nat /\ ExplorationShare <= ProvableBatch
      /\ NotesOf(p) \in Notes
  BY PeerTypes, ShareType, NotesOfType
<1>1. /\ notes' = [notes EXCEPT ![p] = n] /\ UNCHANGED <<now, conn>>
      /\ reader' = [reader EXCEPT ![p][v] = [pc |-> "counting", allowance |-> Remaining(n)]]
      /\ history' = [history EXCEPT ![p].heard =
                        IF Open(p, v) /\ WindowOver(heard.since) THEN [since |-> now, count |-> 0]
                        ELSE heard]
      /\ v <= conn[p].visit
  BY DEF ExplorationAllowance, ShareOf
<1>2. NotesOf(p).held /\ NotesOf(p).since = notes[p].since
      /\ (notes[p].held => NotesOf(p).learned = notes[p].learned)
      /\ (~notes[p].held => notes[p].since = Never)
  BY DEF NotesOf, Fresh, NoNotes, ShareOf
<1>3. notes'[p] = n /\ n.held
  <2>1. n.held
    BY <1>0, <1>2 DEF Notes
  <2> QED
    BY <1>1, <2>1 DEF TypeOK
<1>4. /\ WindowOver(notes[p].since) => n.since = now /\ n.learned = 0
      /\ ~WindowOver(notes[p].since) => n.since = notes[p].since /\ n.learned = NotesOf(p).learned
      /\ n.learned \in Nat
  BY <1>0, <1>2 DEF Notes
<1> HIDE DEF n
<1>5. reader'[p][v] = [pc |-> "counting", allowance |-> Remaining(n)]
      /\ \A w \in Visits : w # v => reader'[p][w] = reader[p][w]
  BY <1>1 DEF TypeOK
<1>6. history'[p].heard = IF Open(p, v) /\ WindowOver(heard.since)
                          THEN [since |-> now, count |-> 0] ELSE heard
  BY <1>1 DEF TypeOK, Histories
<1>7. \A w \in Visits : reader'[p][w].pc # "idle" => w <= conn'[p].visit
  BY <1>1, <1>5 DEF ShareOf
<1>8. CASE Open(p, 1)
  <2>1. v = 1 /\ conn[p].visit = 1 /\ Open(p, v) /\ Aligned(p)
    BY <1>0, <1>1, <1>8 DEF Open, ShareOf
  <2>2. heard.count <= ProvableBatch
    BY <2>1 DEF ShareOf
  <2>3. CASE WindowOver(heard.since)
    <3>1. WindowOver(notes[p].since)
      BY <2>1, <2>3 DEF Aligned, WindowOver
    <3>2. history'[p].heard.since = now /\ history'[p].heard.count = 0
      BY <1>6, <2>1, <2>3
    <3>3. Remaining(n) \in Nat /\ Remaining(n) <= ProvableBatch
      BY <1>0, <1>4, <3>1 DEF Remaining
    <3> QED
      BY <1>0, <1>1, <1>3, <1>4, <1>5, <1>7, <2>1, <3>1, <3>2, <3>3 DEF ShareOf, Aligned, Open
  <2>4. CASE ~WindowOver(heard.since)
    <3>1. /\ notes[p].since = heard.since /\ heard.count <= notes[p].learned
          /\ ~WindowOver(notes[p].since) /\ notes[p].held
      BY <1>2, <2>1, <2>4 DEF Aligned, WindowOver
    <3>2. history'[p].heard = heard /\ n.since = heard.since /\ heard.count <= n.learned
      BY <1>2, <1>4, <1>6, <2>4, <3>1
    <3>3. heard.count + Remaining(n) <= ProvableBatch
      BY <1>0, <1>4, <2>2, <3>2 DEF Remaining
    <3> QED
      BY <1>0, <1>1, <1>3, <1>5, <1>7, <2>1, <2>2, <3>2, <3>3 DEF ShareOf, Aligned, Open
  <2> QED
    BY <2>3, <2>4
<1>9. CASE ~Open(p, 1)
  <2>1. ~Open(p, 1)' /\ conn'[p].visit # 0
    BY <1>0, <1>1, <1>9 DEF Open
  <2>2. conn'[p].visit = 1 => history'[p].heard.count <= ProvableBatch
    <3> SUFFICES ASSUME conn'[p].visit = 1 PROVE history'[p].heard.count <= ProvableBatch
      OBVIOUS
    <3>1. heard.count <= ProvableBatch
      BY <1>1 DEF ShareOf
    <3> QED
      BY <1>0, <1>6, <3>1
  <2> QED
    BY <1>3, <1>7, <2>1, <2>2 DEF ShareOf
<1> QED
  BY <1>8, <1>9

\* noteExploration books what was counted, in a window that the note and what
\* is heard share, or both begin.
LEMMA LearnKeepsShare ==
    ASSUME TypeOK, NEW p \in Id, NEW v \in Visits, NEW d \in 0..ProvableBatch,
           ShareOf(p), Learn(p, v, d)
    PROVE  ShareOf(p)'
<1> DEFINE n == IF notes[p].held THEN notes[p] ELSE [Fresh EXCEPT !.since = now]
           heard == history[p].heard
           anew == ~notes[p].held /\ WindowOver(heard.since) /\ d > 0
<1>0. /\ now \in Nat /\ conn[p].visit \in Nat /\ 1 \in Visits /\ v \in Nat \ {0}
      /\ notes[p].learned \in Nat
      /\ heard.since \in Nat /\ heard.count \in Nat /\ ProvableBatch \in Nat /\ d \in Nat
      /\ reader[p][v].allowance \in Nat
  BY PeerTypes
<1>1. /\ reader[p][v].pc = "counting" /\ d <= reader[p][v].allowance
      /\ notes' = IF d = 0 THEN notes ELSE [notes EXCEPT ![p] = [n EXCEPT !.learned = @ + d]]
      /\ reader' = [reader EXCEPT ![p][v] = ReaderIdle] /\ UNCHANGED <<now, conn>>
      /\ history' = [history EXCEPT ![p].heard =
                        IF ~Open(p, v) THEN heard
                        ELSE IF anew THEN [since |-> now, count |-> d]
                        ELSE [since |-> heard.since, count |-> heard.count + d]]
      /\ v <= conn[p].visit
  BY DEF Learn, Returns, ShareOf
<1>2. n \in Notes /\ n.held /\ (notes[p].held => n = notes[p])
      /\ (~notes[p].held => n.since = now /\ n.learned = 0 /\ notes[p].since = Never)
  BY <1>0 DEF TypeOK, Notes, Fresh, NoNotes, ShareOf
<1>3. /\ d = 0 => notes'[p] = notes[p]
      /\ d # 0 => notes'[p].held /\ notes'[p].since = n.since /\ notes'[p].learned = n.learned + d
  BY <1>1, <1>2 DEF TypeOK, Notes
<1> HIDE DEF n
<1>4. reader'[p][v].pc = "idle" /\ \A w \in Visits : w # v => reader'[p][w] = reader[p][w]
  BY <1>1 DEF TypeOK, ReaderIdle
<1>5. history'[p].heard = IF ~Open(p, v) THEN heard
                          ELSE IF anew THEN [since |-> now, count |-> d]
                          ELSE [since |-> heard.since, count |-> heard.count + d]
  BY <1>1 DEF TypeOK, Histories
<1>6. \A w \in Visits : reader'[p][w].pc # "idle" => w <= conn'[p].visit
  BY <1>1, <1>4 DEF ShareOf
<1>7. ~notes'[p].held => notes'[p].since = Never
  BY <1>3 DEF ShareOf
<1>8. CASE Open(p, 1)
  <2>1. v = 1 /\ conn[p].visit = 1 /\ Open(p, v) /\ Aligned(p)
        /\ heard.count + reader[p][v].allowance <= ProvableBatch
    BY <1>0, <1>1, <1>8 DEF Open, ShareOf
  <2>2. history'[p].heard.count <= ProvableBatch
    BY <1>0, <1>1, <1>5, <2>1
  <2>3. Aligned(p)'
    <3>1. CASE d = 0
      <4>1. notes'[p] = notes[p] /\ history'[p].heard.since = heard.since
            /\ history'[p].heard.count = heard.count
        BY <1>0, <1>3, <1>5, <3>1
      <4> QED
        BY <1>1, <2>1, <4>1 DEF Aligned, WindowOver
    <3>2. CASE d # 0 /\ notes[p].held
      <4>1. /\ notes'[p].since = notes[p].since /\ notes'[p].learned = notes[p].learned + d
            /\ history'[p].heard.since = heard.since /\ history'[p].heard.count = heard.count + d
        BY <1>2, <1>3, <1>5, <2>1, <3>2
      <4> QED
        BY <1>0, <1>1, <2>1, <4>1 DEF Aligned, WindowOver
    <3>3. CASE d # 0 /\ ~notes[p].held
      <4>1. WindowOver(heard.since)
        BY <1>2, <2>1, <3>3 DEF Aligned, WindowOver
      <4>2. /\ notes'[p].since = now /\ notes'[p].learned = d
            /\ history'[p].heard.since = now /\ history'[p].heard.count = d
        BY <1>0, <1>2, <1>3, <1>5, <2>1, <3>3, <4>1
      <4> QED
        BY <1>0, <4>2 DEF Aligned
    <3> QED
      BY <3>1, <3>2, <3>3
  <2> QED
    BY <1>1, <1>4, <1>6, <1>7, <2>1, <2>2, <2>3 DEF ShareOf
<1>9. CASE ~Open(p, 1)
  <2>1. ~Open(p, 1)' /\ conn'[p].visit # 0
    BY <1>0, <1>1, <1>9 DEF Open
  <2>2. conn'[p].visit = 1 => history'[p].heard.count <= ProvableBatch
    <3> SUFFICES ASSUME conn'[p].visit = 1 PROVE history'[p].heard.count <= ProvableBatch
      OBVIOUS
    <3>1. v = 1 /\ heard.count <= ProvableBatch
      BY <1>0, <1>1 DEF ShareOf
    <3> QED
      BY <1>5, <1>9, <3>1
  <2> QED
    BY <1>6, <1>7, <2>1, <2>2 DEF ShareOf
<1> QED
  BY <1>8, <1>9

Counts(p) == \E v \in Visits : \/ ExplorationAllowance(p, v)
                              \/ \E d \in 0..ProvableBatch : Learn(p, v, d)

\* Nobody else's window is touched while a peer is counted, and nothing else
\* that happens counts anything.
LEMMA StepsCountOrNot ==
    ASSUME TypeOK, TypeOK', ShareInv, [Next]_vars
    PROVE  now' >= now /\ \A q \in Id : Uncounted(q) \/ Counts(q)
<1>0. /\ \A q \in Id : ShareOf(q)
      /\ now \in Nat /\ \A q \in Id : conn[q].visit \in Nat
  BY ShareByPeer, PeerTypes DEF TypeOK
<1> DEFINE Still == now' = now /\ \A q \in Id : Uncounted(q)
<1>1. ASSUME NEW p \in Id, Accept(p) \/ \E r \in Requests : AddPeer(p, r) PROVE Still
  <2>1. PICK k \in {"in", "out"} : conn' = [conn EXCEPT ![p] = [kind |-> k, visit |-> conn[p].visit + 1]]
        /\ conn[p].kind = "none" /\ UNCHANGED <<now, notes, reader, history>>
    BY <1>1 DEF Accept, AddPeer, Connect
  <2>2. \A q \in Id : ConnectionMoves(q)
    BY <2>1 DEF ConnectionMoves, TypeOK
  <2> QED
    BY <2>1, <2>2 DEF Uncounted, NoteUntouched, HandlerMoves
<1>2. ASSUME NEW p \in Id, RemovePeer(p) PROVE Still
  <2>1. \A q \in Id : ConnectionMoves(q) /\ (q = p => conn'[q].kind = "none")
    BY <1>2 DEF RemovePeer, ConnectionMoves, TypeOK
  <2>2. \A q \in Id : NoteUntouched(q)
    BY <1>2, <2>1 DEF RemovePeer, Removed, NoteUntouched, NoNotes, TypeOK
  <2> QED
    BY <1>2, <2>1, <2>2 DEF RemovePeer, Uncounted, HandlerMoves
<1>3. ASSUME NEW r \in Requests, Send(r) \/ \E p \in Id : Crawl(p, r) PROVE Still
  BY <1>3 DEF Send, Crawl, Uncounted, NoteUntouched, ConnectionMoves, HandlerMoves
<1>4. ASSUME NEW r \in Requests, NoteRequest(r) PROVE Still
  <2> DEFINE p == request[r].peer
             Kept(q) == IF Forgettable(notes[q]) THEN NoNotes ELSE notes[q]
  <2>1. /\ notes' = [q \in Id |-> IF q # p THEN Kept(q)
                                  ELSE [Kept(q) EXCEPT !.held = TRUE, !.asked = now]]
        /\ history' = [history EXCEPT ![p].taken = 0] /\ UNCHANGED <<now, conn, reader>>
    BY <1>4 DEF NoteRequest
  <2>2. ASSUME NEW q \in Id PROVE NoteUntouched(q)
    <3>1. notes[q] \in Notes /\ NoNotes \in Notes
      BY NotesTypes DEF TypeOK
    <3>2. CASE Forgettable(notes[q])
      <4>1. notes'[q].since = Never
        BY <2>1, <3>1, <3>2 DEF Notes, NoNotes
      <4>2. notes[q].since = Never \/ WindowOver(notes[q].since)
        <5>1. now \in Nat /\ notes[q].since \in Nat /\ ExplorationWindow \in Nat
          BY <3>1, NotesAssumption DEF TypeOK, Notes
        <5> QED
          BY <3>2, <5>1 DEF Forgettable, Elapsed, WindowOver
      <4> QED
        BY <4>1, <4>2 DEF NoteUntouched
    <3>3. CASE ~Forgettable(notes[q])
      BY <2>1, <3>1, <3>3 DEF NoteUntouched, Notes
    <3> QED
      BY <3>2, <3>3
  <2>3. \A q \in Id : history'[q].heard = history[q].heard
    BY <2>1 DEF TypeOK, Histories
  <2> QED
    BY <2>1, <2>2, <2>3 DEF Uncounted, ConnectionMoves, HandlerMoves
<1>5. ASSUME NEW r \in Requests, ForgetRequest(r) PROVE Still
  <2>1. \A q \in Id : NoteUntouched(q)
    BY <1>5 DEF ForgetRequest, NoteUntouched, TypeOK, Notes
  <2> QED
    BY <1>5, <2>1 DEF ForgetRequest, Uncounted, ConnectionMoves, HandlerMoves
<1>6. ASSUME NEW p \in Id, NEW v \in Visits, RequestArrives(p, v) \/ AnswerArrives(p, v) PROVE Still
  <2>1. PICK what \in {"request", "answer"} : Reads(p, v, what)
    BY <1>6 DEF RequestArrives, AnswerArrives
  <2>2. \A q \in Id, w \in Visits : HandlerMoves(q, w)
    <3>1. v <= conn[p].visit
      BY <1>0, <2>1 DEF Reads, Open
    <3>2. \A q \in Id, w \in Visits : (q # p \/ w # v) => reader'[q][w] = reader[q][w]
      BY <2>1 DEF Reads, TypeOK
    <3>3. reader'[p][v].pc = what
      <4>1. reader' = [reader EXCEPT ![p][v].pc = what] /\ reader[p][v] \in ReaderStates
        BY <2>1 DEF Reads, TypeOK
      <4> QED
        BY <4>1 DEF TypeOK, ReaderStates
    <3> QED
      BY <3>1, <3>2, <3>3 DEF HandlerMoves
  <2> QED
    BY <1>6, <2>2 DEF RequestArrives, AnswerArrives, Uncounted, NoteUntouched, ConnectionMoves
<1>7. ASSUME NEW p \in Id, NEW v \in Visits, Serve(p, v) PROVE Still
  <2> DEFINE n == NotesOf(p)
  <2>0. n \in Notes /\ n.held /\ n.since = notes[p].since
        /\ (notes[p].held => n = notes[p])
        /\ (~notes[p].held => notes[p].since = Never)
    BY <1>0, NotesOfType DEF NotesOf, Fresh, NoNotes, ShareOf, Notes
  <2>1. reader' = [reader EXCEPT ![p][v] = ReaderIdle] /\ reader[p][v].pc = "request" /\ now' = now
    BY <1>7 DEF Serve, Returns
  <2>2. \A q \in Id, w \in Visits : HandlerMoves(q, w)
    BY <1>0, <2>1 DEF TypeOK, HandlerMoves, ReaderIdle, ShareOf
  <2>3. \A q \in Id : history'[q].heard = history[q].heard
    BY <1>7 DEF Serve, TypeOK, Histories
  <2>4. \/ notes' = Removed(p) /\ conn' = [conn EXCEPT ![p].kind = "none"]
        \/ /\ conn' = conn
           /\ \E at \in Nat : notes' = [notes EXCEPT ![p] = [n EXCEPT !.served = at]]
    <3>1. now \in Nat /\ n.served \in Nat
      BY <1>0, <2>0 DEF Notes
    <3> HIDE DEF n
    <3> QED
      BY <1>7, <3>1 DEF Serve, n
  <2>5. \A q \in Id : ConnectionMoves(q) /\ NoteUntouched(q)
    <3>1. CASE notes' = Removed(p) /\ conn' = [conn EXCEPT ![p].kind = "none"]
      BY <3>1 DEF TypeOK, Removed, NoNotes, ConnectionMoves, NoteUntouched
    <3>2. ASSUME conn' = conn, NEW at \in Nat, notes' = [notes EXCEPT ![p] = [n EXCEPT !.served = at]]
          PROVE  \A q \in Id : ConnectionMoves(q) /\ NoteUntouched(q)
      <4>1. \A q \in Id : q # p => notes'[q] = notes[q]
        BY <3>2 DEF TypeOK
      <4>2. notes'[p].since = n.since /\ notes'[p].learned = n.learned /\ notes'[p].held
        BY <2>0, <3>2 DEF TypeOK, Notes
      <4>3. NoteUntouched(p)
        BY <2>0, <4>2 DEF NoteUntouched
      <4> QED
        BY <3>2, <4>1, <4>3 DEF ConnectionMoves, NoteUntouched
    <3> QED
      BY <2>4, <3>1, <3>2
  <2> QED
    BY <2>1, <2>2, <2>3, <2>5 DEF Uncounted
<1>8. ASSUME NEW p \in Id, NEW v \in Visits, AnswersOurRequest(p, v) PROVE Still
  <2>1. \A q \in Id : NoteUntouched(q)
    BY <1>8 DEF AnswersOurRequest, Consumed, NoteUntouched, TypeOK, Notes
  <2>2. \A q \in Id : history'[q].heard = history[q].heard
    BY <1>8 DEF AnswersOurRequest, TypeOK, Histories
  <2>3. \A q \in Id, w \in Visits : HandlerMoves(q, w)
    <3>1. \A q \in Id, w \in Visits : (q # p \/ w # v) => reader'[q][w] = reader[q][w]
      BY <1>8 DEF AnswersOurRequest, TypeOK
    <3>2. reader[p][v].pc = "answer" /\ v <= conn[p].visit
      BY <1>0, <1>8 DEF AnswersOurRequest, ShareOf
    <3>3. reader'[p][v].pc \in {"learning", "idle"}
      <4>1. PICK what \in {"learning", "idle"} : reader' = [reader EXCEPT ![p][v].pc = what]
        BY <1>8 DEF AnswersOurRequest
      <4>2. reader[p][v] \in ReaderStates
        BY DEF TypeOK
      <4> QED
        BY <4>1, <4>2 DEF TypeOK, ReaderStates
    <3> QED
      BY <3>1, <3>2, <3>3 DEF HandlerMoves
  <2> QED
    BY <1>8, <2>1, <2>2, <2>3 DEF AnswersOurRequest, Uncounted, ConnectionMoves
<1>9. ASSUME NEW p \in Id, NEW v \in Visits, ExplorationAllowance(p, v)
      PROVE  now' = now /\ \A q \in Id : q # p => Uncounted(q)
  BY <1>9 DEF ExplorationAllowance, Uncounted, NoteUntouched, ConnectionMoves, HandlerMoves, TypeOK
<1>10. ASSUME NEW p \in Id, NEW v \in Visits, NEW d \in 0..ProvableBatch, Learn(p, v, d)
       PROVE  now' = now /\ \A q \in Id : q # p => Uncounted(q)
  BY <1>10 DEF Learn, Returns, Uncounted, NoteUntouched, ConnectionMoves, HandlerMoves, TypeOK
<1>11. ASSUME Tick \/ UNCHANGED vars PROVE now' >= now /\ \A q \in Id : Uncounted(q)
  BY <1>0, <1>11 DEF Tick, vars, Uncounted, NoteUntouched, ConnectionMoves, HandlerMoves
<1>12. ASSUME Still PROVE now' >= now /\ \A q \in Id : Uncounted(q)
  BY <1>0, <1>12
<1> HIDE DEF Still
<1>13. CASE \E p \in Id, v \in Visits : Reader(p, v)
  <2>1. PICK p \in Id, v \in Visits : Reader(p, v)
    BY <1>13
  <2>2. CASE RequestArrives(p, v) \/ AnswerArrives(p, v) \/ Serve(p, v) \/ AnswersOurRequest(p, v)
    BY <1>6, <1>7, <1>8, <1>12, <2>2
  <2>3. CASE Counts(p)
    <3>1. now' = now /\ \A q \in Id : q # p => Uncounted(q)
      BY <1>9, <1>10, <2>3 DEF Counts
    <3> QED
      BY <1>0, <2>3, <3>1
  <2>4. Counts(p) \/ RequestArrives(p, v) \/ AnswerArrives(p, v) \/ Serve(p, v) \/ AnswersOurRequest(p, v)
    BY <2>1 DEF Reader, Counts
  <2> QED
    BY <2>2, <2>3, <2>4
<1> QED
  BY <1>1, <1>2, <1>3, <1>4, <1>5, <1>11, <1>12, <1>13 DEF Next

\* During its first connection a peer makes the book take in, in one window,
\* no more than a period can prove: whoever else is asked meanwhile, whatever
\* the table forgets, and although the allowance is read and booked apart.
THEOREM LearnedStaysWithinShare == Spec => []LearnedWithinShare
<1>1. Init => ShareInv
  <2> SUFFICES ASSUME Init PROVE ShareInv
    OBVIOUS
  <2>1. ProvableBatch \in Nat
    BY NotesAssumption
  <2>2. \A p \in Id : ShareOf(p)
    BY <2>1 DEF Init, ShareOf, NoNotes, NoHistory, ReaderIdle, Open, Never
  <2> QED
    BY <2>2, ShareByPeer
<1>2. TypeOK /\ TypeOK' /\ ShareInv /\ [Next]_vars => ShareInv'
  <2> SUFFICES ASSUME TypeOK, TypeOK', ShareInv, [Next]_vars PROVE ShareInv'
    OBVIOUS
  <2>1. now' >= now /\ \A p \in Id : ShareOf(p) /\ (Uncounted(p) \/ Counts(p))
    BY ShareByPeer, StepsCountOrNot
  <2>2. ASSUME NEW p \in Id PROVE ShareOf(p)'
    <3>1. CASE Uncounted(p)
      BY <2>1, <3>1, UncountedKeepsShare
    <3>2. CASE Counts(p)
      BY <2>1, <3>2, AllowanceKeepsShare, LearnKeepsShare DEF Counts
    <3> QED
      BY <2>1, <3>1, <3>2
  <2>3. (\A p \in Id : ShareOf(p)') => ShareInv'
    BY DEF ShareInv, UnheldHasNoWindow, StrangersAreUnheard, HandlersHadConnection, WindowsAgree,
           RoomToCount, LearnedWithinShare, ShareOf
  <2> QED
    BY <2>2, <2>3
<1>3. ShareInv => LearnedWithinShare
  BY DEF ShareInv
<1> QED
  BY <1>1, <1>2, <1>3, NotesTypeCorrect, PTL DEF Spec
=============================================================================
