------------------------------ MODULE MCSystem ------------------------------
(***************************************************************************)
(* System with two connections, one or two reports, and descriptors for    *)
(* all.  The connections are alike but for their place in the load         *)
(* generator's map: the safety run takes them as symmetric, the liveness   *)
(* run starts from one of the two orders.  There the descriptors are       *)
(* numbers, and accept() hands out the lowest, as POSIX wants it.          *)
(***************************************************************************)
EXTENDS System, TLC

CONSTANTS device, c1, c2

MCDeviceOf == [c \in Conns |-> device]
MCSays == [c \in Conns |-> {"STATUS_ACK"}]
MCLineLimit == [c \in Conns |-> Quota]
MCSymmetry == Permutations(Conns) \cup Permutations(Fds)
MCInit == SysInit /\ order = <<c1, c2>>
LowestFirst == \A f, g \in Fds : g < f /\ fd_table[g] = NoConn => fd_table'[f] \in {fd_table[f], NoConn}
MCFairSpec == MCInit /\ [][SysNext /\ LowestFirst]_sysVars /\ SysFairness
=============================================================================
