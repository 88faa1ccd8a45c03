---------------------------- MODULE MCPeerNotes ----------------------------
(* A small instance of PeerNotes: one peer, which also sends addresses     *)
(* nobody asked for, connects twice and may be asked twice at once.        *)
EXTENDS PeerNotes, TLC

CONSTANTS p1, r1, r2

MCPeers == {p1}
MCRequests == {r1, r2}

\* Which goroutine sends a request makes no difference.
Symmetry == Permutations(MCRequests)
=============================================================================
