---------------------------- MODULE MCSeedSweep ----------------------------
(* Small instances of SeedSweep: two or three addresses, each with a node  *)
(* of its own but where a run says otherwise.                              *)
EXTENDS SeedSweep, TLC

CONSTANTS a1, a2, a3, n1, n2, n3, n4

\* Two addresses, of which one answers, in a book that holds one of them.
TwoAddr == {a1, a2}
TwoIds == {n1, n2}
OwnIds == a1 :> n1 @@ a2 :> n2
OneAnswers == {a1}
OtherVisits == {n2}
AnyHeard == {{a1}, {a2}, {a1, a2}}
BothHeard == {{a1, a2}}
NoHeard == {}
NoSelf == {}
NoVisits == {}
NoLeaving == {"late", "dial", "restart"}
NodeFaults == {"dial", "leave"}
PunctualFaults == {"dial", "leave", "restart"}
NoFaults == {}

\* A third node visits, which no address names.
StrangerVisits == {n3}

Mention(S, t) == [a \in Addr |-> IF a \in S THEN Mentioned(t) ELSE NoRecord]
Proven(S, t) == [a \in Addr |-> IF a \in S
                                THEN [Mentioned(t) EXCEPT !.lastTry = t, !.lastOK = t]
                                ELSE NoRecord]

\* A first start that knows one address by hearsay, or a restart on a proof.
HearsayOrProof == {Mention({a1}, Origin), Proven({a1}, Origin)}
AllHearsay == {Mention(Addr, Origin)}

\* Three nodes that all answer when they are dialled.
ThreeAddr == {a1, a2, a3}
ThreeIds == {n1, n2, n3}

\* Beside them one that no address names: it may be handed all three.
FourIds == {n1, n2, n3, n4}
ThreeOwnIds == a1 :> n1 @@ a2 :> n2 @@ a3 :> n3
ThreeHeard == {{a1}, {a2, a3}}

\* Two of them share a network group.
OneGroupEach == [a \in Addr |-> a]
TwoGroups == [a \in Addr |-> IF a = a3 THEN n2 ELSE n1]

\* The two loops of spreadByGroup as they are written: the buckets in the order
\* they are opened, then one address of each that is not empty, round by round.
Seqs == INSTANCE SequencesExt
SpreadByLoops(s, group) ==
    LET order == Seqs!FoldLeft(LAMBDA o, a : IF \E k \in DOMAIN o : o[k] = group[a]
                                        THEN o ELSE Append(o, group[a]), <<>>, s)
        bucket == [k \in DOMAIN order |-> SelectSeq(s, LAMBDA a : group[a] = order[k])]
        turn(r) == Seqs!FlattenSeq([k \in DOMAIN order |->
                        IF r <= Len(bucket[k]) THEN <<bucket[k][r]>> ELSE <<>>])
    IN  Seqs!FlattenSeq([r \in DOMAIN s |-> turn(r)])

\* spreadByGroup is those loops, and keeps its promise, on every draw of up to
\* six addresses, of which the position is all that tells them apart, over up
\* to three groups.
Draw(n) == [k \in 1..n |-> k]
ASSUME SpreadIsBalanced ==
    \A n \in 0..6 : \A group \in [1..n -> 1..3] :
        LET s == spreadByGroup(Draw(n), group)
        IN  /\ s = SpreadByLoops(Draw(n), group)
            /\ SameDraw(s, Draw(n), group) /\ Balanced(s, group, 1..n)

\* Two addresses under one identity, as when a node moves to another host.
OneId == {n1}
SharedId == a1 :> n1 @@ a2 :> n1
=============================================================================
