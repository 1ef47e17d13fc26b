------------------------------ MODULE MCServer ------------------------------
(***************************************************************************)
(* Server with the three programs of the repository as its clients: a      *)
(* viewer that says HELLO, a load generator that asks for an ACK each      *)
(* time, and a simulator that does not; in its place may be a program that *)
(* writes a line the server rejects, or a HELLO of another role.  There    *)
(* are three descriptors, and accept() fails when it finds none left; the  *)
(* two reporters report on different devices.                              *)
(***************************************************************************)
EXTENDS Server, TLC

CONSTANTS viewer, loadgen, simulator, d1, d2, f1, f2, f3

MCClients == (viewer :> {"HELLO"}) @@ (loadgen :> {"STATUS_ACK"})
          @@ (simulator :> {"STATUS", "BAD", "HELLO_OTHER"})
MCLimits == (viewer :> 1) @@ (loadgen :> 2) @@ (simulator :> 1)
MCReports == (viewer :> d2) @@ (loadgen :> d1) @@ (simulator :> d2)
MCSays == [c \in Conns |-> MCClients[c]]
MCLineLimit == [c \in Conns |-> MCLimits[c]]
MCDeviceOf == [c \in Conns |-> MCReports[c]]
FdSymmetry == Permutations(Fds)
=============================================================================
