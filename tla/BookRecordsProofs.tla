------------------------- MODULE BookRecordsProofs -------------------------
(* What the operations on records return, for any addresses and any clock.  *)
(* The book and the sweep both rest on it.                                  *)
EXTENDS BookRecords, TLAPS

LEMMA ToSecondType ==
    ASSUME NEW t \in Nat
    PROVE  ToSecond(t) \in Nat /\ ToSecond(t) <= t
  BY SecondAssumption, SMT DEF ToSecond

LEMMA OnFileType ==
    ASSUME NEW r \in Record
    PROVE  OnFile(r) \in Record
  BY ToSecondType DEF Record, OnFile

LEMMA EntryType ==
    ASSUME NEW b \in Books, NEW a \in Addr, NEW t \in Nat
    PROVE  Entry(b, a, t) \in Record
  BY DEF Books, Record, Entry, Mentioned, Never

LEMMA UpdateType ==
    ASSUME NEW r \in Record, NEW t \in Nat, NEW n \in Nat
    PROVE  /\ [r EXCEPT !.lastSeen = t] \in Record
           /\ [r EXCEPT !.fails = n, !.lastTry = t] \in Record
           /\ [r EXCEPT !.lastTry = t, !.lastOK = t, !.fails = n] \in Record
  BY DEF Record

LEMMA BookTypes ==
    ASSUME NEW b \in Books, NEW t \in Nat
    PROVE  /\ EmptyBook \in Books
           /\ Image(b) \in Books
           /\ Loaded(b, t) \in Books
           /\ \A D \in SUBSET Addr : Without(b, D) \in Books
           /\ \A S \in SUBSET Addr : Added(b, S, t) \in Books
           /\ \A a \in Addr : Succeeded(b, a, t) \in Books /\ Attempted(b, a, t) \in Books
<1>1. EmptyBook \in Books
  BY DEF Books, EmptyBook
<1>2. Image(b) \in Books
  BY OnFileType DEF Books, Image
<1>3. Loaded(b, t) \in Books
  BY DEF Books, Loaded, Record
<1>4. ASSUME NEW D \in SUBSET Addr PROVE Without(b, D) \in Books
  BY DEF Books, Without
<1>5. ASSUME NEW S \in SUBSET Addr PROVE Added(b, S, t) \in Books
  <2>1. ASSUME NEW a \in Addr
        PROVE  [Entry(b, a, t) EXCEPT !.lastSeen = t] \in Record
    BY EntryType, UpdateType
  <2> QED
    BY <2>1 DEF Books, Added
<1>6. ASSUME NEW a \in Addr PROVE Succeeded(b, a, t) \in Books
  <2>1. [Entry(b, a, t) EXCEPT !.lastTry = t, !.lastOK = t, !.fails = 0] \in Record
    BY EntryType, UpdateType
  <2> QED
    BY <2>1 DEF Books, Succeeded
<1>7. ASSUME NEW a \in Addr PROVE Attempted(b, a, t) \in Books
  <2> DEFINE r == Entry(b, a, t)
             n == IF r.lastTry # Never /\ r.lastTry > r.lastOK THEN r.fails + 1 ELSE r.fails
  <2>1. r \in Record
    BY EntryType
  <2>2. n \in Nat
    BY <2>1 DEF Record
  <2>3. [r EXCEPT !.fails = n, !.lastTry = t] \in Record
    BY <2>1, <2>2, UpdateType
  <2>4. Attempted(b, a, t) = [b EXCEPT ![a] = [r EXCEPT !.fails = n, !.lastTry = t]]
    BY DEF Attempted
  <2> QED
    BY <2>3, <2>4 DEF Books
<1> QED
  BY <1>1, <1>2, <1>3, <1>4, <1>5, <1>6, <1>7
=============================================================================
