-------------------------- MODULE MCWorkloadAccess --------------------------
(***************************************************************************)
(* A workload with both resolvers, or without one, or with another key,    *)
(* whose clock is right, fast or slow by more than the tolerance.          *)
(***************************************************************************)
EXTENDS WorkloadAccess, TLC

Workload(resolvers, sameKey, drift) ==
    [resolvers |-> resolvers, sameKey |-> sameKey, drift |-> drift]

MCWorkloads ==
    {Workload({"header", "grpc"}, TRUE, d) : d \in {-2, 0, 1}}
        \cup {Workload({"header"}, TRUE, 0), Workload({"grpc"}, TRUE, 0),
              Workload({"header", "grpc"}, FALSE, 0)}

Symmetry == Permutations(Tokens) \cup Permutations(Requests)
=============================================================================
