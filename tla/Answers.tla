------------------------------- MODULE Answers -------------------------------
(***************************************************************************)
(* What a TM2 seed answers with, once it knows what it may serve: pure     *)
(* operators, without state.  An answer is drawn (shuffleAddresses), spread *)
(* over network groups (spreadByGroup) and cut to one message.             *)
(***************************************************************************)
EXTENDS BookRecords, Sequences

CONSTANTS
    Id, IdOf,     \* node identities, and the one each address names
    GroupOf,      \* networkGroup of the host of each address
    MaxAnswer     \* maxAddressesPerAnswer

ASSUME AnswersAssumption ==
    /\ IsFiniteSet(Id) /\ IdOf \in [Addr -> Id] /\ DOMAIN GroupOf = Addr
    /\ MaxAnswer \in Nat \ {0}

\* FreshBatch: the most recently proven, when there are more than the limit.
\* Which of those proven at one instant are cut is the sort's choice.
FreshBatches(b, now, window, limit) ==
    LET fresh == FreshSet(b, now, window)
        size == IF Cardinality(fresh) > limit THEN limit ELSE Cardinality(fresh)
    IN  {S \in SUBSET fresh :
            /\ Cardinality(S) = size
            /\ \A s \in S, c \in fresh \ S : b[s].lastOK >= b[c].lastOK}

\* shuffleAddresses: any order at all.
Shuffles(S) ==
    {s \in [1..Cardinality(S) -> S] : \A i, j \in DOMAIN s : s[i] = s[j] => i = j}

-----------------------------------------------------------------------------
\* The round in which its group's bucket gives each address of a draw, from zero.
Rounds(s, group) ==
    [k \in DOMAIN s |-> Cardinality({j \in DOMAIN s : group[s[j]] = group[s[k]] /\ j < k})]

\* One address of each group a round, the groups in the order of the draw: the
\* place of an address is after all those of earlier rounds, and those of its
\* own round whose groups the draw has opened before.
spreadByGroup(s, group) ==
    LET round == Rounds(s, group)
        opened == [k \in DOMAIN s |->
                      CHOOSE j \in DOMAIN s : group[s[j]] = group[s[k]] /\ round[j] = 0]
        place == [k \in DOMAIN s |-> 1 + Cardinality({j \in DOMAIN s :
                      \/ round[j] < round[k]
                      \/ round[j] = round[k] /\ opened[j] < opened[k]})]
    IN  [i \in DOMAIN s |-> s[CHOOSE k \in DOMAIN s : place[k] = i]]

\* What selection keeps of a batch for one requester.
Servable(S, requester) == {a \in S : IdOf[a] # requester /\ admissible(a)}

\* Mutant of AnswersFrom: cut to one message before it is spread.
CutFirst(S, requester) ==
    {spreadByGroup(SubSeq(s, 1, IF Len(s) > MaxAnswer THEN MaxAnswer ELSE Len(s)), GroupOf) :
        s \in Shuffles(Servable(S, requester))}

\* Every answer selection can draw from a batch for one requester.
AnswersFrom(S, requester) ==
    {LET spread == spreadByGroup(s, GroupOf)
     IN  SubSeq(spread, 1, IF Len(spread) > MaxAnswer THEN MaxAnswer ELSE Len(spread)) :
        s \in Shuffles(Servable(S, requester))}

-----------------------------------------------------------------------------
(* What it promises, stated without rounds or buckets.                     *)

Members(s) == {s[k] : k \in DOMAIN s}

\* How many of a group there are among the first n.
Share(s, group, g, n) == Cardinality({k \in 1..n : group[s[k]] = g})

\* Among the first n of an answer drawn from S, no group is ahead of another
\* by more than one while that other still has an address to give.
Balanced(s, group, S) ==
    \A n \in DOMAIN s, x, y \in S :
        Share(s, group, group[x], n) > Share(s, group, group[y], n) + 1
            => {a \in S : group[a] = group[y]} \subseteq {s[k] : k \in 1..n}

\* The same addresses, each once, every group in the order it was drawn.
SameDraw(s, drawn, group) ==
    /\ Members(s) = Members(drawn) /\ Len(s) = Len(drawn)
    /\ \A g \in {group[a] : a \in Members(s)} :
         SelectSeq(s, LAMBDA a : group[a] = g) = SelectSeq(drawn, LAMBDA a : group[a] = g)

\* A batch every requester is answered fairly from: an answer names other
\* nodes than who asks, each address once, balanced over what else could be
\* named; and whatever can be named is in some answer.
FairlyAnswered(S) ==
    \A requester \in Id :
        LET others == {a \in S : IdOf[a] # requester /\ a \in Admissible}
            answers == AnswersFrom(S, requester)
        IN  /\ \A s \in answers :
                 /\ Members(s) \subseteq others
                 /\ Cardinality(Members(s)) = Len(s) /\ Len(s) <= MaxAnswer
                 /\ Balanced(s, GroupOf, others)
            /\ \A a \in others : \E s \in answers : a \in Members(s)

\* All of them; in the form of a mapped set, TLC computes it once.
FairBatches == {S : S \in {T \in SUBSET Addr : FairlyAnswered(T)}}
=============================================================================
