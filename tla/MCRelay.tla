------------------------------ MODULE MCRelay -------------------------------
(***************************************************************************)
(* ServerRelay with two clients that both view and report, on the same     *)
(* device: a source in its own audience, ACKs, broadcasts and a METRICS    *)
(* report in one queue that overflows, lines merged in one recv().         *)
(***************************************************************************)
EXTENDS ServerRelay, TLC

CONSTANTS peer1, peer2, d1, f1, f2, f3

MCSays == (peer1 :> {"HELLO", "STATUS", "BAD"}) @@ (peer2 :> {"HELLO", "STATUS_ACK"})
MCLineLimit == (peer1 :> 2) @@ (peer2 :> 1)
MCDeviceOf == (peer1 :> d1) @@ (peer2 :> d1)
FdSymmetry == Permutations(Fds)
=============================================================================
