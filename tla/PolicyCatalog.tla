---------------------------- MODULE PolicyCatalog ----------------------------
(***************************************************************************)
(* The AuthZ policy administration point: every AuthZ process serves an    *)
(* immutable compiled catalog from memory (PolicyRuntime) in front of one  *)
(* durable copy (PolicyRepository), and administrators change it with      *)
(* If-Match requests.                                                      *)
(*                                                                         *)
(* A request is a future that yields at each await.  Its steps are the     *)
(* stretches between two awaits, and at an await it may be dropped for     *)
(* good: the API plane runs under a TimeoutLayer, and a lost connection    *)
(* ends the future too.  The revision lives in memory only: load() always  *)
(* answers 1, so a restarted process counts again from 1.                  *)
(*                                                                         *)
(* Principals are rows of the same database which other handlers create,   *)
(* disable and delete while a policy request is on its way.                *)
(***************************************************************************)
EXTENDS PolicyData, Naturals

CONSTANTS
    Replicas,           \* AuthZ processes over one database
    Clients,            \* administrators, one request each at a time
    Operations,         \* the operations they may send
    BootstrapPolicy,    \* storage.bootstrap_policy, EmptyPolicy for none
    BootstrapRevision,  \* the revision field of that policy
    MaxRevision,        \* the largest revision (u64::MAX in the code)
    MaxEpoch,           \* bound: process starts per replica
    Nobody

ASSUME PolicyAssumption ==
    /\ Operations \subseteq Operation
    /\ BootstrapPolicy \in IamPolicyInfo
    /\ BootstrapRevision \in Nat
    /\ MaxRevision \in Nat \ {0}
    /\ BootstrapRevision <= MaxRevision
    /\ MaxEpoch \in Nat
    /\ Nobody \notin Replicas \cup Clients

VARIABLES
    principals,     \* iam_principal: the status of every principal id
    durable,        \* iam_action, iam_role, iam_role_action, iam_role_binding
    phase,          \* life of a process
    epoch,          \* which start of the process this is
    runtime,        \* the catalog the process serves, with its revision
    lock,           \* holder of the process's write_lock
    pc,             \* where a client's request stands
    at,             \* the process that serves the request
    operation,      \* what it asks for
    prepared,       \* the compiled replacement it is about to store
    unverified,     \* replace: principals not looked up yet
    view,           \* the ETag and catalog the client last received
    dropped         \* history: the process lost a request past its commit

requestVars == <<pc, at, operation, prepared, unverified>>
processVars == <<phase, epoch, runtime, dropped>>
vars == <<principals, durable, processVars, lock, requestVars, view>>

Catalog == [revision : 0 .. MaxRevision, policy : IamPolicyInfo]
NoCatalog == [revision |-> 0, policy |-> EmptyPolicy]
NoOperation == [kind |-> "none"]

View ==
    [replica : Replicas \cup {Nobody}, epoch : 0 .. MaxEpoch,
     revision : 0 .. MaxRevision, policy : IamPolicyInfo]
NoView ==
    [replica |-> Nobody, epoch |-> 0, revision |-> 0, policy |-> EmptyPolicy]

Present == {p \in PrincipalIds : principals[p] # "absent"}

Init ==
    /\ principals \in [PrincipalIds -> {"absent", "active"}]
    /\ durable = EmptyPolicy
    /\ phase = [r \in Replicas |-> "down"]
    /\ epoch = [r \in Replicas |-> 0]
    /\ runtime = [r \in Replicas |-> NoCatalog]
    /\ dropped = [r \in Replicas |-> FALSE]
    /\ lock = [r \in Replicas |-> Nobody]
    /\ pc = [c \in Clients |-> "idle"]
    /\ at = [c \in Clients |-> Nobody]
    /\ operation = [c \in Clients |-> NoOperation]
    /\ prepared = [c \in Clients |-> EmptyPolicy]
    /\ unverified = [c \in Clients |-> {}]
    /\ view = [c \in Clients |-> NoView]

-----------------------------------------------------------------------------
(* Process life: PolicyHandler::open, and the death of a process.          *)

Serve(r, revision, policy) ==
    /\ epoch[r] < MaxEpoch
    /\ phase' = [phase EXCEPT ![r] = "up"]
    /\ epoch' = [epoch EXCEPT ![r] = @ + 1]
    /\ runtime' = [runtime EXCEPT ![r] = [revision |-> revision, policy |-> policy]]
    /\ dropped' = [dropped EXCEPT ![r] = FALSE]

NeedsBootstrap == durable = EmptyPolicy /\ BootstrapPolicy # EmptyPolicy

(* open() with a catalog in the database, or nothing to seed it with.      *)
OpenStored(r) ==
    /\ phase[r] = "down"
    /\ ~NeedsBootstrap
    /\ Compiles(durable)
    /\ Serve(r, 1, durable)
    /\ UNCHANGED <<principals, durable, lock, requestVars, view>>

(* open() found an empty database: it compiles the configured policy ...   *)
OpenBootstrap(r) ==
    /\ phase[r] = "down"
    /\ epoch[r] < MaxEpoch
    /\ NeedsBootstrap
    /\ Compiles(BootstrapPolicy)
    /\ phase' = [phase EXCEPT ![r] = "seeding"]
    /\ UNCHANGED <<principals, durable, epoch, runtime, dropped, lock, requestVars,
                   view>>

BootstrapServed == IF BootstrapRevision = 0 THEN 1 ELSE BootstrapRevision

(* ... and stores it, whatever the database holds by then ...              *)
SeedDurable(r) ==
    /\ phase[r] = "seeding"
    /\ Storable(BootstrapPolicy, Present)
    /\ durable' = BootstrapPolicy
    /\ Serve(r, BootstrapServed, BootstrapPolicy)
    /\ UNCHANGED <<principals, lock, requestVars, view>>

(* ... or the process exits because the transaction failed.                *)
SeedFails(r) ==
    /\ phase[r] = "seeding"
    /\ phase' = [phase EXCEPT ![r] = "down"]
    /\ UNCHANGED <<principals, durable, epoch, runtime, dropped, lock, requestVars,
                   view>>

(* Requests of a dead process vanish with its memory and its lock.         *)
Crash(r) ==
    /\ phase[r] = "up"
    /\ phase' = [phase EXCEPT ![r] = "down"]
    /\ runtime' = [runtime EXCEPT ![r] = NoCatalog]
    /\ dropped' = [dropped EXCEPT ![r] = FALSE]
    /\ lock' = [lock EXCEPT ![r] = Nobody]
    /\ LET lost == {c \in Clients : at[c] = r} IN
       /\ pc' = [c \in Clients |-> IF c \in lost THEN "idle" ELSE pc[c]]
       /\ at' = [c \in Clients |-> IF c \in lost THEN Nobody ELSE at[c]]
       /\ operation' =
            [c \in Clients |-> IF c \in lost THEN NoOperation ELSE operation[c]]
       /\ prepared' =
            [c \in Clients |-> IF c \in lost THEN EmptyPolicy ELSE prepared[c]]
       /\ unverified' =
            [c \in Clients |-> IF c \in lost THEN {} ELSE unverified[c]]
    /\ UNCHANGED <<principals, durable, epoch, view>>

-----------------------------------------------------------------------------
(* The administrator's side.                                               *)

(* GET /api/v1/policy (and the item and list reads): body and ETag come    *)
(* from one snapshot of the runtime.                                       *)
GetPolicy(c, r) ==
    /\ pc[c] = "idle"
    /\ phase[r] = "up"
    /\ view' = [view EXCEPT ![c] =
            [replica |-> r, epoch |-> epoch[r],
             revision |-> runtime[r].revision, policy |-> runtime[r].policy]]
    /\ UNCHANGED <<principals, durable, processVars, lock, requestVars>>

ChecksPrincipalFirst(o) == o \in BindingWrite

(* A write with If-Match = the revision of the client's view reaches r.    *)
(* r need not be the process the view came from.  A request that disagrees *)
(* with itself (replace: the revision in the body is not that of If-Match; *)
(* ensure_matching_id: path and body name different entries) is refused    *)
(* before anything is read or locked: a step that leaves all of this       *)
(* unchanged, so operations are the requests that agree with themselves.   *)
Submit(c, r, o) ==
    /\ pc[c] = "idle"
    /\ phase[r] = "up"
    /\ view[c] # NoView
    /\ pc' = [pc EXCEPT ![c] = IF ChecksPrincipalFirst(o) THEN "check" ELSE "lock"]
    /\ at' = [at EXCEPT ![c] = r]
    /\ operation' = [operation EXCEPT ![c] = o]
    /\ UNCHANGED <<principals, durable, processVars, lock, prepared, unverified, view>>

-----------------------------------------------------------------------------
(* The handler's side: the stretches of a request between its awaits.      *)

EndRequest(c) ==
    /\ pc' = [pc EXCEPT ![c] = "idle"]
    /\ at' = [at EXCEPT ![c] = Nobody]
    /\ operation' = [operation EXCEPT ![c] = NoOperation]
    /\ prepared' = [prepared EXCEPT ![c] = EmptyPolicy]
    /\ unverified' = [unverified EXCEPT ![c] = {}]

(* require_active_principal, before the lock is taken.                     *)
CheckPrincipal(c) ==
    /\ pc[c] = "check"
    /\ principals[operation[c].item.principal] = "active"
    /\ pc' = [pc EXCEPT ![c] = "lock"]
    /\ UNCHANGED <<principals, durable, processVars, lock, at, operation, prepared,
                   unverified, view>>

RejectPrincipal(c) ==
    /\ pc[c] = "check"
    /\ principals[operation[c].item.principal] # "active"
    /\ EndRequest(c)
    /\ UNCHANGED <<principals, durable, processVars, lock, view>>

(* mutant: the write lock is not awaited.                                  *)
LockIsFree_NoMutex(r) == TRUE
LockIsFree(r) == lock[r] = Nobody

(* The If-Match header of the request.                                     *)
Expected(c) == view[c].revision

(* mutant: an older revision passes.                                       *)
RequireRevision_Older(c) == Expected(c) <= runtime[at[c]].revision
RequireRevision(c) == Expected(c) = runtime[at[c]].revision

(* mutant: the revision is not advanced.                                   *)
NextRevision_Same(c) == Expected(c)
NextRevision(c) == Expected(c) + 1

(* mutant: checked_add never overflows.                                    *)
RevisionLeft_Unchecked(c) == TRUE
RevisionLeft(c) == Expected(c) < MaxRevision

Replacement(c) == Apply(operation[c], runtime[at[c]].policy)

(* Revision check, mutation and, unless principals remain to be verified,  *)
(* compilation pass without an await under the freshly taken lock.         *)
Admissible(c) ==
    /\ RequireRevision(c)
    /\ Accepts(operation[c], runtime[at[c]].policy)
    /\ operation[c].kind # "replace" =>
        /\ RevisionLeft(c)
        /\ Compiles(Replacement(c))

AcquireLock(c) ==
    /\ pc[c] = "lock"
    /\ LockIsFree(at[c])
    /\ Admissible(c)
    /\ lock' = [lock EXCEPT ![at[c]] = c]
    /\ prepared' = [prepared EXCEPT ![c] = Replacement(c)]
    /\ IF operation[c].kind = "replace"
       THEN /\ pc' = [pc EXCEPT ![c] = "verify"]
            /\ unverified' = [unverified EXCEPT
                    ![c] = {b.principal : b \in operation[c].policy.bindings}]
       ELSE /\ pc' = [pc EXCEPT ![c] = "persist"]
            /\ UNCHANGED unverified
    /\ UNCHANGED <<principals, durable, processVars, at, operation, view>>

(* Stale revision, refused mutation or invalid policy: the guard is        *)
(* released in the stretch that took it.                                   *)
RejectUnderLock(c) ==
    /\ pc[c] = "lock"
    /\ LockIsFree(at[c])
    /\ ~Admissible(c)
    /\ EndRequest(c)
    /\ UNCHANGED <<principals, durable, processVars, lock, view>>

(* mutant: an early return forgets the lock guard.                         *)
Release_Leaked(c) == UNCHANGED lock
Release(c) == lock' = [lock EXCEPT ![at[c]] = Nobody]

(* require_active_binding_principals: one lookup per await, lock held.     *)
VerifyPrincipal(c, p) ==
    /\ pc[c] = "verify"
    /\ p \in unverified[c]
    /\ principals[p] = "active"
    /\ unverified' = [unverified EXCEPT ![c] = @ \ {p}]
    /\ UNCHANGED <<principals, durable, processVars, lock, pc, at, operation, prepared,
                   view>>

RejectVerify(c, p) ==
    /\ pc[c] = "verify"
    /\ p \in unverified[c]
    /\ principals[p] # "active"
    /\ EndRequest(c)
    /\ Release(c)
    /\ UNCHANGED <<principals, durable, processVars, view>>

PreparedIsPublishable(c) ==
    RevisionLeft(c) /\ Compiles(prepared[c])

(* The tail of replace(): next revision and compilation of the body.       *)
PrepareReplacement(c) ==
    /\ pc[c] = "verify"
    /\ unverified[c] = {}
    /\ IF PreparedIsPublishable(c)
       THEN /\ pc' = [pc EXCEPT ![c] = "persist"]
            /\ UNCHANGED <<lock, at, operation, prepared, unverified>>
       ELSE EndRequest(c) /\ Release(c)
    /\ UNCHANGED <<principals, durable, processVars, view>>

(* mutant: a failed insert is not reported.                                *)
Persist_ErrorIgnored(c) ==
    /\ pc[c] = "persist"
    /\ durable' = IF Storable(prepared[c], Present) THEN prepared[c] ELSE durable
    /\ pc' = [pc EXCEPT ![c] = "install"]
    /\ UNCHANGED <<principals, processVars, lock, at, operation, prepared, unverified,
                   view>>

(* PolicyRepository::replace: one transaction that deletes and inserts all *)
(* rows of four tables.  BEGIN IMMEDIATE serialises it in SQLite.          *)
Persist(c) ==
    /\ pc[c] = "persist"
    /\ Storable(prepared[c], Present)
    /\ durable' = prepared[c]
    /\ pc' = [pc EXCEPT ![c] = "install"]
    /\ UNCHANGED <<principals, processVars, lock, at, operation, prepared, unverified,
                   view>>

(* The transaction broke a constraint or the database failed: rollback.    *)
PersistFails(c) ==
    /\ pc[c] = "persist"
    /\ EndRequest(c)
    /\ Release(c)
    /\ UNCHANGED <<principals, durable, processVars, view>>

(* PolicyRuntime::install; the response carries the new ETag.              *)
Install(c) ==
    LET r == at[c]
        next == [revision |-> NextRevision(c), policy |-> prepared[c]] IN
    /\ pc[c] = "install"
    /\ runtime' = [runtime EXCEPT ![r] = next]
    /\ dropped' = [dropped EXCEPT ![r] = FALSE]
    /\ view' = [view EXCEPT ![c] =
            [replica |-> r, epoch |-> epoch[r],
             revision |-> next.revision, policy |-> next.policy]]
    /\ EndRequest(c)
    /\ Release(c)
    /\ UNCHANGED <<principals, durable, phase, epoch>>

(* The request ends at an await: the TimeoutLayer fired, the client hung   *)
(* up, a lookup failed or the answer to COMMIT was lost.  The lock guard   *)
(* goes with it and so does an open transaction, but not a committed one.  *)
Abandon(c) ==
    /\ pc[c] # "idle"
    /\ lock' = [r \in Replicas |-> IF lock[r] = c THEN Nobody ELSE lock[r]]
    /\ dropped' = [r \in Replicas |->
            dropped[r] \/ (r = at[c] /\ pc[c] = "install")]
    /\ EndRequest(c)
    /\ UNCHANGED <<principals, durable, phase, epoch, runtime, view>>

-----------------------------------------------------------------------------
(* Principal rows, written by the other handlers.                          *)

(* AuthN first login or SCIM provisioning.                                 *)
CreatePrincipal(p) ==
    /\ principals[p] = "absent"
    /\ principals' = [principals EXCEPT ![p] = "active"]
    /\ UNCHANGED <<durable, processVars, lock, requestVars, view>>

(* PrincipalHandler::update_status.                                        *)
UpdateStatus(p, status) ==
    /\ principals[p] \notin {"absent", status}
    /\ principals' = [principals EXCEPT ![p] = status]
    /\ UNCHANGED <<durable, processVars, lock, requestVars, view>>

(* mutant: no foreign key.                                                 *)
Unreferenced_NoForeignKey(p) == TRUE
(* iam_role_binding.principal_id ... ON DELETE RESTRICT                    *)
Unreferenced(p) == \A b \in durable.bindings : b.principal # p

(* PrincipalHandler::delete.                                               *)
DeletePrincipal(p) ==
    /\ principals[p] # "absent"
    /\ Unreferenced(p)
    /\ principals' = [principals EXCEPT ![p] = "absent"]
    /\ UNCHANGED <<durable, processVars, lock, requestVars, view>>

-----------------------------------------------------------------------------
ProcessNext(r) ==
    \/ OpenStored(r)
    \/ OpenBootstrap(r)
    \/ SeedDurable(r)
    \/ SeedFails(r)
    \/ Crash(r)

HandlerNext(c) ==
    \/ CheckPrincipal(c)
    \/ RejectPrincipal(c)
    \/ AcquireLock(c)
    \/ RejectUnderLock(c)
    \/ \E p \in PrincipalIds : VerifyPrincipal(c, p) \/ RejectVerify(c, p)
    \/ PrepareReplacement(c)
    \/ Persist(c)
    \/ PersistFails(c)
    \/ Install(c)

ClientNext(c) ==
    \E r \in Replicas : GetPolicy(c, r) \/ \E o \in Operations : Submit(c, r, o)

PrincipalNext(p) ==
    \/ CreatePrincipal(p)
    \/ \E status \in {"active", "disabled"} : UpdateStatus(p, status)
    \/ DeletePrincipal(p)

Next ==
    \/ \E r \in Replicas : ProcessNext(r)
    \/ \E c \in Clients : ClientNext(c) \/ HandlerNext(c) \/ Abandon(c)
    \/ \E p \in PrincipalIds : PrincipalNext(p)

Spec == Init /\ [][Next]_vars

(***************************************************************************)
(* A request's own steps are polled until they finish (tokio), and         *)
(* write_lock is a tokio mutex, which serves its waiters in order: a       *)
(* request that finds the lock free again and again gets it.  Clients,     *)
(* crashes, timeouts and principal changes owe nobody a step.              *)
(***************************************************************************)
Fairness ==
    \A c \in Clients :
        /\ WF_vars(HandlerNext(c) /\ pc[c] # "lock")
        /\ SF_vars(HandlerNext(c) /\ pc[c] = "lock")

FairSpec == Spec /\ Fairness
-----------------------------------------------------------------------------
(* Properties.                                                             *)

RequestPhase == {"idle", "check", "lock", "verify", "persist", "install"}
InCriticalSection(c) == pc[c] \in {"verify", "persist", "install"}

(* Every variable has the shape the comments above give it.                *)
TypeOK ==
    /\ principals \in [PrincipalIds -> {"absent", "active", "disabled"}]
    /\ durable \in IamPolicyInfo
    /\ phase \in [Replicas -> {"down", "seeding", "up"}]
    /\ epoch \in [Replicas -> 0 .. MaxEpoch]
    /\ runtime \in [Replicas -> Catalog]
    /\ dropped \in [Replicas -> BOOLEAN]
    /\ lock \in [Replicas -> Clients \cup {Nobody}]
    /\ pc \in [Clients -> RequestPhase]
    /\ at \in [Clients -> Replicas \cup {Nobody}]
    /\ operation \in [Clients -> Operations \cup {NoOperation}]
    /\ prepared \in [Clients -> IamPolicyInfo]
    /\ unverified \in [Clients -> SUBSET PrincipalIds]
    /\ view \in [Clients -> View]

(* The database can always be served again: what PolicyRepository::replace *)
(* left behind compiles (open() would otherwise refuse to start), and no   *)
(* role binding outlives its principal, whatever order principal deletions *)
(* and policy commits take.                                                *)
DurableIsServable == Compiles(durable) /\ Storable(durable, Present)

(* A request past require_revision computed its replacement from the       *)
(* catalog its process still serves: between the check and the install     *)
(* nobody else publishes, so persist_and_publish never overwrites an       *)
(* update it did not see.                                                  *)
HolderIsCurrent ==
    \A c \in Clients : InCriticalSection(c) =>
        /\ lock[at[c]] = c
        /\ phase[at[c]] = "up"
        /\ RequireRevision(c)
        /\ prepared[c] = Apply(operation[c], runtime[at[c]].policy)

(* Within one life of a process a revision names one catalog: a client     *)
(* whose ETag equals the served revision has seen the served catalog.      *)
EtagIdentifiesCatalog ==
    \A c \in Clients, r \in Replicas :
        (/\ view[c].replica = r
         /\ view[c].epoch = epoch[r]
         /\ phase[r] = "up"
         /\ view[c].revision = runtime[r].revision)
            => view[c].policy = runtime[r].policy

(* With one process, the catalog in memory and the one in the database     *)
(* differ only between a commit and its install, or after a request was    *)
(* dropped in exactly that window.                                         *)
ServedIsDurable ==
    \A r \in Replicas :
        (Replicas = {r} /\ phase[r] = "up" /\ ~dropped[r]) =>
            \/ runtime[r].policy = durable
            \/ \E c \in Clients : at[c] = r /\ pc[c] = "install"

(* The parts that make the invariants above inductive.                     *)
RequestsAreServed ==
    \A c \in Clients : pc[c] # "idle" =>
        /\ at[c] \in Replicas
        /\ phase[at[c]] = "up"
        /\ operation[c] \in Operations

PreparedIsSound ==
    \A c \in Clients :
        /\ InCriticalSection(c) => Accepts(operation[c], runtime[at[c]].policy)
        /\ pc[c] \in {"persist", "install"} => Compiles(prepared[c]) /\ RevisionLeft(c)

ViewsAreOld ==
    \A c \in Clients, r \in Replicas : view[c].replica = r =>
        /\ view[c].epoch <= epoch[r]
        /\ (view[c].epoch = epoch[r] /\ phase[r] = "up") =>
                view[c].revision <= runtime[r].revision

CommitIsDurable ==
    \A c \in Clients :
        (pc[c] = "install" /\ Replicas = {at[c]}) => prepared[c] = durable

SeedCompiles ==
    \A r \in Replicas : phase[r] = "seeding" => Compiles(BootstrapPolicy)

IInv ==
    /\ TypeOK
    /\ SeedCompiles
    /\ RequestsAreServed
    /\ HolderIsCurrent
    /\ PreparedIsSound
    /\ ViewsAreOld
    /\ EtagIdentifiesCatalog
    /\ DurableIsServable
    /\ CommitIsDurable
    /\ ServedIsDurable

(* While a process lives, what it serves changes only to the next revision:*)
(* no publication is skipped, repeated or undone.                          *)
RevisionAdvances ==
    [][\A r \in Replicas :
        (phase[r] = "up" /\ phase'[r] = "up" /\ runtime'[r] # runtime[r]) =>
            runtime'[r].revision = runtime[r].revision + 1]_vars

(* Every administrative request ends: no error path, timeout or crash      *)
(* leaves write_lock behind for the others to wait on.                     *)
RequestsEnd == \A c \in Clients : (pc[c] # "idle") ~> (pc[c] = "idle")

(* The lock, the lookups, the transaction and the install together are one *)
(* compare-and-swap on the served catalog, whatever is dropped or crashes  *)
(* on the way.                                                             *)
Register == INSTANCE PolicyRegister WITH
    live <- {r \in Replicas : phase[r] = "up"},
    cell <- runtime,
    snapshot <- [c \in Clients |->
        [revision |-> view[c].revision, policy |-> view[c].policy]]

ImplementsRegister == Register!RegisterSpec
=============================================================================
