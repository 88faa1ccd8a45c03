----------------------------- MODULE BookRecords -----------------------------
(***************************************************************************)
(* The records of the TM2 address book and what each operation of SeedBook *)
(* computes on them: pure operators, without state.  The modules that hold *)
(* a book (SeedBook, SeedSweep) use them under their own locks and clock.  *)
(*                                                                         *)
(* A book is a total function from addresses to records: an address the    *)
(* map of the code has no key for is mapped to NoRecord.  The key of the   *)
(* code is the whole dial string (identifier, host, port), so two values   *)
(* of Addr are two keys even when they name one node.                      *)
(***************************************************************************)
EXTENDS Integers, FiniteSets

CONSTANTS
    Addr,          \* the addresses that can be named to this seed
    Admissible,    \* those admissible() accepts: valid, and routable if strict
    SameAsSelf,    \* those addr.Same(self) holds of: this node's own
    MaxPeers,      \* SeedBook.maxPeers
    Second,        \* clock units in one second: what the file can tell apart
    NoRecord       \* "the map has no such key"

ASSUME AddrAssumption ==
    IsFiniteSet(Addr) /\ Admissible \subseteq Addr /\ SameAsSelf \subseteq Addr
ASSUME MaxPeersAssumption == MaxPeers \in Nat
ASSUME SecondAssumption == Second \in Nat \ {0}

\* The zero time.Time: no attempt, or no success, on record.
Never == 0

Record == [lastSeen : Nat, fails : Nat, lastTry : Nat, lastOK : Nat]
ASSUME NoRecordAssumption == NoRecord \notin Record

Books == [Addr -> Record \cup {NoRecord}]
EmptyBook == [a \in Addr |-> NoRecord]
Held(b) == {a \in Addr : b[a] # NoRecord}
Reached(r) == r.lastOK # Never

\* A record nothing but a mention is known of.
Mentioned(t) == [lastSeen |-> t, fails |-> 0, lastTry |-> Never, lastOK |-> Never]

LatestOf(s, t) == IF t > s THEN t ELSE s
LastNews(r) == LatestOf(LatestOf(r.lastSeen, r.lastTry), r.lastOK)

-----------------------------------------------------------------------------
(* The order of eviction, and every outcome the unstable sort can have:    *)
(* a set of the right size that no kept entry should have gone before.     *)

\* Mutant of GoesBefore: the last mention alone decides.
OldestMention(l, r) == l.lastSeen < r.lastSeen

GoesBefore(l, r) ==
    \/ ~Reached(l) /\ Reached(r)
    \/ Reached(l) /\ Reached(r) /\ l.lastOK < r.lastOK
    \/ ~Reached(l) /\ ~Reached(r) /\ l.lastSeen < r.lastSeen

\* Mutant of Excess: one too few.
ExcessLessOne(n) == IF n > MaxPeers THEN n - MaxPeers - 1 ELSE 0

Excess(n) == IF n > MaxPeers THEN n - MaxPeers ELSE 0

Evictable(b) ==
    LET held == Held(b)
        excess == Excess(Cardinality(held))
    IN  {D \in SUBSET held :
            /\ Cardinality(D) = excess
            /\ \A d \in D, k \in held \ D : ~GoesBefore(b[k], b[d])}

Without(b, D) == [a \in Addr |-> IF a \in D THEN NoRecord ELSE b[a]]

-----------------------------------------------------------------------------
(* What an operation leaves in the map.                                    *)

\* record(): the entry of an address, made on the spot when there is none.
Entry(b, a, t) == IF b[a] = NoRecord THEN Mentioned(t) ELSE b[a]

\* Mutant of admissible: the rule is forgotten.
AdmitAll(a) == TRUE

\* Whether an address may enter the book, by whichever of its four ways in.
admissible(a) == a \in Admissible

\* The addresses hearsay and the file are not refused.
Taken(S) == {a \in S : admissible(a) /\ a \notin SameAsSelf}

Added(b, S, t) ==
    [a \in Addr |-> IF a \in Taken(S)
                    THEN [Entry(b, a, t) EXCEPT !.lastSeen = t] ELSE b[a]]

\* Mutant of Succeeded: a success forgives one failure.
ForgivenOnce(b, a, t) ==
    [b EXCEPT ![a] = [Entry(b, a, t) EXCEPT !.lastTry = t, !.lastOK = t, !.fails = @ - 1]]

Succeeded(b, a, t) ==
    [b EXCEPT ![a] = [Entry(b, a, t) EXCEPT !.lastTry = t, !.lastOK = t, !.fails = 0]]

\* Mutant of Attempted: a success of the same instant does not count.
BlamedAnyway(b, a, t) ==
    LET r == Entry(b, a, t)
        failed == r.lastTry # Never /\ r.lastTry >= r.lastOK
    IN  [b EXCEPT ![a] = [r EXCEPT !.fails = IF failed THEN @ + 1 ELSE @,
                                   !.lastTry = t]]

Attempted(b, a, t) ==
    LET r == Entry(b, a, t)
        failed == r.lastTry # Never /\ r.lastTry > r.lastOK
    IN  [b EXCEPT ![a] = [r EXCEPT !.fails = IF failed THEN @ + 1 ELSE @,
                                   !.lastTry = t]]

Failing(b, limit) == {a \in Held(b) : limit > 0 /\ b[a].fails >= limit}

-----------------------------------------------------------------------------
(* What the queries return, as sets: the order of a returned slice matters *)
(* only where a caller cuts it, and Oldest is then every cut it can make.  *)

FreshSet(b, now, window) ==
    {a \in Held(b) : Reached(b[a]) /\ (window > 0 => b[a].lastOK > now - window)}
StaleProven(b, now, window) ==
    {a \in Held(b) : Reached(b[a]) /\ b[a].lastOK < now - window}
StaleUnproven(b) == {a \in Held(b) : ~Reached(b[a])}

-----------------------------------------------------------------------------
(* The file.  It dates in whole seconds.                                   *)

ToSecond(t) == t - (t % Second)

OnFile(r) == [r EXCEPT !.lastSeen = ToSecond(@), !.lastTry = ToSecond(@),
                       !.lastOK = ToSecond(@)]

Image(b) == [a \in Addr |-> IF b[a] = NoRecord THEN NoRecord ELSE OnFile(b[a])]

\* load(): what is inadmissible or this node's own is left out, and an entry
\* without a date of mention is mentioned now.
Loaded(file, t) ==
    [a \in Addr |->
        IF file[a] = NoRecord \/ a \notin Taken(Addr) THEN NoRecord
        ELSE [file[a] EXCEPT !.lastSeen = IF @ = 0 THEN t ELSE @]]

\* The dates of a file are whole seconds, whoever wrote it.
Whole(file) == \A a \in Addr : file[a] # NoRecord => OnFile(file[a]) = file[a]
=============================================================================
