--------------------------- MODULE PolicyRegister ---------------------------
(***************************************************************************)
(* What the policy API promises an administrator who talks to one process: *)
(* the served catalog is a register that changes in one atomic step, by    *)
(* applying one operation to the very catalog that is being served, and    *)
(* only for a client that presents the register's current revision.        *)
(* Locks, lookups, the database and dropped requests do not show.          *)
(***************************************************************************)
EXTENDS PolicyData, Naturals

CONSTANTS Replicas, Clients, Operations

VARIABLES
    live,       \* the processes that serve
    cell,       \* what each serves: [revision, policy]
    snapshot    \* what each client last received: [revision, policy]

registerVars == <<live, cell, snapshot>>

OnlyCell(r) == \A s \in Replicas \ {r} : cell'[s] = cell[s]

RegisterInit == live = {}

(* A process starts with some catalog that compiles.                       *)
Start(r) ==
    /\ r \notin live
    /\ live' = live \cup {r}
    /\ OnlyCell(r)
    /\ Compiles(cell'[r].policy)
    /\ UNCHANGED snapshot

Stop(r) ==
    /\ r \in live
    /\ live' = live \ {r}
    /\ OnlyCell(r)
    /\ UNCHANGED snapshot

Fetch(c, r) ==
    /\ r \in live
    /\ snapshot' = [snapshot EXCEPT ![c] = cell[r]]
    /\ UNCHANGED <<live, cell>>

CompareAndSwap(c, r, o) ==
    LET next == [revision |-> cell[r].revision + 1,
                 policy |-> Apply(o, cell[r].policy)] IN
    /\ r \in live
    /\ snapshot[c].revision = cell[r].revision
    /\ Accepts(o, cell[r].policy)
    /\ Compiles(next.policy)
    /\ cell' = [cell EXCEPT ![r] = next]
    /\ snapshot' = [snapshot EXCEPT ![c] = next]
    /\ UNCHANGED live

RegisterNext ==
    \E r \in Replicas :
        \/ Start(r)
        \/ Stop(r)
        \/ \E c \in Clients :
            Fetch(c, r) \/ \E o \in Operations : CompareAndSwap(c, r, o)

RegisterSpec == RegisterInit /\ [][RegisterNext]_registerVars
=============================================================================
