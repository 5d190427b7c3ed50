------------------------- MODULE PolicyCatalogProofs -------------------------
(***************************************************************************)
(* What PolicyCatalog promises for every set of replicas, clients and      *)
(* operations.  The invariant IInv is inductive: one lemma per conjunct    *)
(* shows that every step keeps it, InductiveInvariant collects them, and   *)
(* the theorems at the end are its consequences.                           *)
(***************************************************************************)
EXTENDS PolicyCatalog, TLAPS

(* Every operation of the API turns a catalog into a catalog.              *)
LEMMA ApplyType ==
    ASSUME NEW o \in Operation, NEW p \in IamPolicyInfo
    PROVE  Apply(o, p) \in IamPolicyInfo
  <1>1. CASE o \in ActionWrite
    BY <1>1 DEF ActionWrite, Apply, Rewritten, Updated, RemoveById, IamPolicyInfo
  <1>2. CASE o \in RoleWrite
    BY <1>2 DEF RoleWrite, Apply, Rewritten, Updated, RemoveById, IamPolicyInfo
  <1>3. CASE o \in BindingWrite
    BY <1>3 DEF BindingWrite, Apply, Rewritten, Updated, RemoveById, IamPolicyInfo
  <1>4. CASE o \in ActionDelete
    BY <1>4 DEF ActionDelete, Apply, Rewritten, Updated, RemoveById, IamPolicyInfo
  <1>5. CASE o \in RoleDelete
    BY <1>5 DEF RoleDelete, Apply, Rewritten, Updated, RemoveById, IamPolicyInfo
  <1>6. CASE o \in BindingDelete
    BY <1>6 DEF BindingDelete, Apply, Rewritten, Updated, RemoveById, IamPolicyInfo
  <1>7. CASE o \in Reset
    BY <1>7 DEF Reset, Apply, EmptyPolicy, IamPolicyInfo
  <1>8. CASE o \in Replace
    BY <1>8 DEF Replace, Apply
  <1>9. QED
    BY <1>1, <1>2, <1>3, <1>4, <1>5, <1>6, <1>7, <1>8 DEF Operation

(* There is always a catalog to fall back on.                              *)
LEMMA EmptyPolicyType == EmptyPolicy \in IamPolicyInfo
  BY DEF EmptyPolicy, IamPolicyInfo

(* The body of a replacement names principals.                             *)
LEMMA ReplaceBodyType ==
    ASSUME NEW o \in Operation, o.kind = "replace"
    PROVE  {b.principal : b \in o.policy.bindings} \subseteq PrincipalIds
  <1>1. o \in Replace
    BY DEF Operation, ActionWrite, RoleWrite, BindingWrite, ActionDelete, RoleDelete,
       BindingDelete, Reset
  <1>2. o.policy.bindings \subseteq IamRoleBindingInfo
    BY <1>1 DEF Replace, IamPolicyInfo
  <1>3. QED
    BY <1>2 DEF IamRoleBindingInfo

(* The operation under way turns the served catalog into a catalog.        *)
LEMMA ReplacementType ==
    ASSUME TypeOK, RequestsAreServed, NEW c \in Clients, pc[c] # "idle"
    PROVE  Replacement(c) \in IamPolicyInfo
  BY ApplyType, PolicyAssumption DEF TypeOK, RequestsAreServed, Replacement, Catalog

(* Every step keeps the type invariant.  The next revision stays in range  *)
(* because checked_add was tested before the commit.                       *)
LEMMA TypeStep ==
    ASSUME TypeOK, RequestsAreServed, PreparedIsSound, [Next]_vars
    PROVE  TypeOK'
  <1> USE DEF TypeOK, RequestPhase, requestVars, processVars
  <1>1. ASSUME NEW r \in Replicas, OpenStored(r)
        PROVE  TypeOK'
    BY <1>1, PolicyAssumption DEF OpenStored, Serve, Catalog
  <1>2. ASSUME NEW r \in Replicas, OpenBootstrap(r)
        PROVE  TypeOK'
    BY <1>2 DEF OpenBootstrap
  <1>3. ASSUME NEW r \in Replicas, SeedDurable(r)
        PROVE  TypeOK'
    BY <1>3, PolicyAssumption DEF SeedDurable, Serve, BootstrapServed, Catalog
  <1>4. ASSUME NEW r \in Replicas, SeedFails(r)
        PROVE  TypeOK'
    BY <1>4 DEF SeedFails
  <1>5. ASSUME NEW r \in Replicas, Crash(r)
        PROVE  TypeOK'
    BY <1>5, PolicyAssumption, EmptyPolicyType DEF Crash, NoCatalog, Catalog
  <1>6. ASSUME NEW c \in Clients, NEW r \in Replicas, GetPolicy(c, r)
        PROVE  TypeOK'
    BY <1>6 DEF GetPolicy, Catalog, View
  <1>7. ASSUME NEW c \in Clients, NEW r \in Replicas, NEW o \in Operations,
               Submit(c, r, o)
        PROVE  TypeOK'
    BY <1>7 DEF Submit
  <1>8. ASSUME NEW c \in Clients, CheckPrincipal(c)
        PROVE  TypeOK'
    BY <1>8 DEF CheckPrincipal
  <1>9. ASSUME NEW c \in Clients, RejectPrincipal(c)
        PROVE  TypeOK'
    BY <1>9, EmptyPolicyType DEF RejectPrincipal, EndRequest
  <1>10. ASSUME NEW c \in Clients, AcquireLock(c)
        PROVE  TypeOK'
    <2>1. prepared' \in [Clients -> IamPolicyInfo]
      BY <1>10, ReplacementType DEF AcquireLock
    <2>2. pc' \in [Clients -> RequestPhase]
      BY <1>10 DEF AcquireLock
    <2>3. unverified' \in [Clients -> SUBSET PrincipalIds]
      <3>1. operation[c] \in Operation
        BY <1>10, PolicyAssumption DEF AcquireLock, RequestsAreServed
      <3>2. QED
        BY <1>10, <3>1, ReplaceBodyType DEF AcquireLock
    <2>4. QED
      BY <1>10, <2>1, <2>2, <2>3 DEF AcquireLock
  <1>11. ASSUME NEW c \in Clients, RejectUnderLock(c)
        PROVE  TypeOK'
    BY <1>11, EmptyPolicyType DEF RejectUnderLock, EndRequest
  <1>12. ASSUME NEW c \in Clients, NEW p \in PrincipalIds, VerifyPrincipal(c, p)
        PROVE  TypeOK'
    BY <1>12 DEF VerifyPrincipal
  <1>13. ASSUME NEW c \in Clients, NEW p \in PrincipalIds, RejectVerify(c, p)
        PROVE  TypeOK'
    BY <1>13, EmptyPolicyType DEF RejectVerify, EndRequest, Release
  <1>14. ASSUME NEW c \in Clients, PrepareReplacement(c)
        PROVE  TypeOK'
    <2>1. CASE PreparedIsPublishable(c)
      BY <1>14, <2>1, EmptyPolicyType DEF PrepareReplacement
    <2>2. CASE ~(PreparedIsPublishable(c))
      BY <1>14, <2>2, EmptyPolicyType DEF PrepareReplacement, EndRequest, Release
    <2>3. QED
      BY <2>1, <2>2
  <1>15. ASSUME NEW c \in Clients, Persist(c)
        PROVE  TypeOK'
    BY <1>15 DEF Persist
  <1>16. ASSUME NEW c \in Clients, PersistFails(c)
        PROVE  TypeOK'
    BY <1>16, EmptyPolicyType DEF PersistFails, EndRequest, Release
  <1>17. ASSUME NEW c \in Clients, Install(c)
        PROVE  TypeOK'
    BY <1>17, PolicyAssumption, EmptyPolicyType
    DEF Install, EndRequest, Release, NextRevision, Expected, Catalog, View,
        RevisionLeft, PreparedIsSound, RequestsAreServed
  <1>18. ASSUME NEW c \in Clients, Abandon(c)
        PROVE  TypeOK'
    BY <1>18, EmptyPolicyType DEF Abandon, EndRequest
  <1>19. ASSUME NEW p \in PrincipalIds, PrincipalNext(p)
        PROVE  TypeOK'
    BY <1>19 DEF PrincipalNext, CreatePrincipal, UpdateStatus, DeletePrincipal
  <1>20. CASE UNCHANGED vars
    BY <1>20 DEF vars
  <1>21. QED
    BY <1>1, <1>2, <1>3, <1>4, <1>5, <1>6, <1>7, <1>8, <1>9, <1>10, <1>11,
       <1>12, <1>13, <1>14, <1>15, <1>16, <1>17, <1>18, <1>19, <1>20
    DEF Next, ProcessNext, ClientNext, HandlerNext

(* A request is served by a process that is up: a crash takes its requests *)
(* with it.                                                                *)
LEMMA ServedStep ==
    ASSUME TypeOK, RequestsAreServed, [Next]_vars
    PROVE  RequestsAreServed'
  <1> USE PolicyAssumption DEF TypeOK, RequestsAreServed, requestVars,
        processVars
  <1>1. ASSUME NEW r \in Replicas, OpenStored(r)
        PROVE  RequestsAreServed'
    BY <1>1 DEF OpenStored, Serve
  <1>2. ASSUME NEW r \in Replicas, OpenBootstrap(r)
        PROVE  RequestsAreServed'
    BY <1>2 DEF OpenBootstrap
  <1>3. ASSUME NEW r \in Replicas, SeedDurable(r)
        PROVE  RequestsAreServed'
    BY <1>3 DEF SeedDurable, Serve, BootstrapServed
  <1>4. ASSUME NEW r \in Replicas, SeedFails(r)
        PROVE  RequestsAreServed'
    BY <1>4 DEF SeedFails
  <1>5. ASSUME NEW r \in Replicas, Crash(r)
        PROVE  RequestsAreServed'
    BY <1>5 DEF Crash, NoCatalog
  <1>6. ASSUME NEW c \in Clients, NEW r \in Replicas, GetPolicy(c, r)
        PROVE  RequestsAreServed'
    BY <1>6 DEF GetPolicy
  <1>7. ASSUME NEW c \in Clients, NEW r \in Replicas, NEW o \in Operations,
               Submit(c, r, o)
        PROVE  RequestsAreServed'
    BY <1>7 DEF Submit
  <1>8. ASSUME NEW c \in Clients, CheckPrincipal(c)
        PROVE  RequestsAreServed'
    BY <1>8 DEF CheckPrincipal
  <1>9. ASSUME NEW c \in Clients, RejectPrincipal(c)
        PROVE  RequestsAreServed'
    BY <1>9 DEF RejectPrincipal, EndRequest
  <1>10. ASSUME NEW c \in Clients, AcquireLock(c)
        PROVE  RequestsAreServed'
    BY <1>10 DEF AcquireLock, LockIsFree
  <1>11. ASSUME NEW c \in Clients, RejectUnderLock(c)
        PROVE  RequestsAreServed'
    BY <1>11 DEF RejectUnderLock, EndRequest
  <1>12. ASSUME NEW c \in Clients, NEW p \in PrincipalIds, VerifyPrincipal(c, p)
        PROVE  RequestsAreServed'
    BY <1>12 DEF VerifyPrincipal
  <1>13. ASSUME NEW c \in Clients, NEW p \in PrincipalIds, RejectVerify(c, p)
        PROVE  RequestsAreServed'
    BY <1>13 DEF RejectVerify, EndRequest, Release
  <1>14. ASSUME NEW c \in Clients, PrepareReplacement(c)
        PROVE  RequestsAreServed'
    <2>1. CASE PreparedIsPublishable(c)
      BY <1>14, <2>1 DEF PrepareReplacement
    <2>2. CASE ~(PreparedIsPublishable(c))
      BY <1>14, <2>2 DEF PrepareReplacement, EndRequest, Release
    <2>3. QED
      BY <2>1, <2>2
  <1>15. ASSUME NEW c \in Clients, Persist(c)
        PROVE  RequestsAreServed'
    BY <1>15 DEF Persist
  <1>16. ASSUME NEW c \in Clients, PersistFails(c)
        PROVE  RequestsAreServed'
    BY <1>16 DEF PersistFails, EndRequest, Release
  <1>17. ASSUME NEW c \in Clients, Install(c)
        PROVE  RequestsAreServed'
    BY <1>17 DEF Install, EndRequest, Release, NextRevision, Expected
  <1>18. ASSUME NEW c \in Clients, Abandon(c)
        PROVE  RequestsAreServed'
    BY <1>18 DEF Abandon, EndRequest
  <1>19. ASSUME NEW p \in PrincipalIds, PrincipalNext(p)
        PROVE  RequestsAreServed'
    BY <1>19 DEF PrincipalNext, CreatePrincipal, UpdateStatus, DeletePrincipal
  <1>20. CASE UNCHANGED vars
    BY <1>20 DEF vars
  <1>21. QED
    BY <1>1, <1>2, <1>3, <1>4, <1>5, <1>6, <1>7, <1>8, <1>9, <1>10, <1>11,
       <1>12, <1>13, <1>14, <1>15, <1>16, <1>17, <1>18, <1>19, <1>20
    DEF Next, ProcessNext, ClientNext, HandlerNext

(* The lock keeps a request's replacement current: while c holds it nobody *)
(* else at that process is past its own revision check, so no Install but  *)
(* that of c can move the catalog under it.                                *)
LEMMA HolderStep ==
    ASSUME TypeOK, RequestsAreServed, HolderIsCurrent, [Next]_vars
    PROVE  HolderIsCurrent'
  <1> USE PolicyAssumption DEF TypeOK, RequestsAreServed, HolderIsCurrent,
        InCriticalSection, RequireRevision, Expected, requestVars, processVars
  <1>1. ASSUME NEW r \in Replicas, OpenStored(r)
        PROVE  HolderIsCurrent'
    BY <1>1 DEF OpenStored, Serve
  <1>2. ASSUME NEW r \in Replicas, OpenBootstrap(r)
        PROVE  HolderIsCurrent'
    BY <1>2 DEF OpenBootstrap
  <1>3. ASSUME NEW r \in Replicas, SeedDurable(r)
        PROVE  HolderIsCurrent'
    BY <1>3 DEF SeedDurable, Serve, BootstrapServed
  <1>4. ASSUME NEW r \in Replicas, SeedFails(r)
        PROVE  HolderIsCurrent'
    BY <1>4 DEF SeedFails
  <1>5. ASSUME NEW r \in Replicas, Crash(r)
        PROVE  HolderIsCurrent'
    BY <1>5 DEF Crash, NoCatalog
  <1>6. ASSUME NEW c \in Clients, NEW r \in Replicas, GetPolicy(c, r)
        PROVE  HolderIsCurrent'
    BY <1>6 DEF GetPolicy
  <1>7. ASSUME NEW c \in Clients, NEW r \in Replicas, NEW o \in Operations,
               Submit(c, r, o)
        PROVE  HolderIsCurrent'
    BY <1>7 DEF Submit
  <1>8. ASSUME NEW c \in Clients, CheckPrincipal(c)
        PROVE  HolderIsCurrent'
    BY <1>8 DEF CheckPrincipal
  <1>9. ASSUME NEW c \in Clients, RejectPrincipal(c)
        PROVE  HolderIsCurrent'
    BY <1>9 DEF RejectPrincipal, EndRequest
  <1>10. ASSUME NEW c \in Clients, AcquireLock(c)
        PROVE  HolderIsCurrent'
    <2>1. CASE operation[c].kind = "replace"
      BY <1>10, <2>1 DEF AcquireLock, Admissible, LockIsFree, Replacement
    <2>2. CASE ~(operation[c].kind = "replace")
      BY <1>10, <2>2 DEF AcquireLock, Admissible, LockIsFree, Replacement
    <2>3. QED
      BY <2>1, <2>2
  <1>11. ASSUME NEW c \in Clients, RejectUnderLock(c)
        PROVE  HolderIsCurrent'
    BY <1>11 DEF RejectUnderLock, EndRequest
  <1>12. ASSUME NEW c \in Clients, NEW p \in PrincipalIds, VerifyPrincipal(c, p)
        PROVE  HolderIsCurrent'
    BY <1>12 DEF VerifyPrincipal
  <1>13. ASSUME NEW c \in Clients, NEW p \in PrincipalIds, RejectVerify(c, p)
        PROVE  HolderIsCurrent'
    BY <1>13 DEF RejectVerify, EndRequest, Release
  <1>14. ASSUME NEW c \in Clients, PrepareReplacement(c)
        PROVE  HolderIsCurrent'
    <2>1. CASE PreparedIsPublishable(c)
      BY <1>14, <2>1 DEF PrepareReplacement
    <2>2. CASE ~(PreparedIsPublishable(c))
      BY <1>14, <2>2 DEF PrepareReplacement, EndRequest, Release
    <2>3. QED
      BY <2>1, <2>2
  <1>15. ASSUME NEW c \in Clients, Persist(c)
        PROVE  HolderIsCurrent'
    BY <1>15 DEF Persist
  <1>16. ASSUME NEW c \in Clients, PersistFails(c)
        PROVE  HolderIsCurrent'
    BY <1>16 DEF PersistFails, EndRequest, Release
  <1>17. ASSUME NEW c \in Clients, Install(c)
        PROVE  HolderIsCurrent'
    BY <1>17 DEF Install, EndRequest, Release, NextRevision, Expected
  <1>18. ASSUME NEW c \in Clients, Abandon(c)
        PROVE  HolderIsCurrent'
    BY <1>18 DEF Abandon, EndRequest
  <1>19. ASSUME NEW p \in PrincipalIds, PrincipalNext(p)
        PROVE  HolderIsCurrent'
    BY <1>19 DEF PrincipalNext, CreatePrincipal, UpdateStatus, DeletePrincipal
  <1>20. CASE UNCHANGED vars
    BY <1>20 DEF vars
  <1>21. QED
    BY <1>1, <1>2, <1>3, <1>4, <1>5, <1>6, <1>7, <1>8, <1>9, <1>10, <1>11,
       <1>12, <1>13, <1>14, <1>15, <1>16, <1>17, <1>18, <1>19, <1>20
    DEF Next, ProcessNext, ClientNext, HandlerNext

(* What is about to be stored was accepted, compiled and has a revision.   *)
LEMMA PreparedStep ==
    ASSUME TypeOK, RequestsAreServed, HolderIsCurrent, PreparedIsSound, [Next]_vars
    PROVE  PreparedIsSound'
  <1> USE PolicyAssumption DEF TypeOK, RequestsAreServed, HolderIsCurrent,
        PreparedIsSound, InCriticalSection, RevisionLeft, Expected, requestVars,
        processVars
  <1>1. ASSUME NEW r \in Replicas, OpenStored(r)
        PROVE  PreparedIsSound'
    BY <1>1 DEF OpenStored, Serve
  <1>2. ASSUME NEW r \in Replicas, OpenBootstrap(r)
        PROVE  PreparedIsSound'
    BY <1>2 DEF OpenBootstrap
  <1>3. ASSUME NEW r \in Replicas, SeedDurable(r)
        PROVE  PreparedIsSound'
    BY <1>3 DEF SeedDurable, Serve, BootstrapServed
  <1>4. ASSUME NEW r \in Replicas, SeedFails(r)
        PROVE  PreparedIsSound'
    BY <1>4 DEF SeedFails
  <1>5. ASSUME NEW r \in Replicas, Crash(r)
        PROVE  PreparedIsSound'
    BY <1>5 DEF Crash, NoCatalog
  <1>6. ASSUME NEW c \in Clients, NEW r \in Replicas, GetPolicy(c, r)
        PROVE  PreparedIsSound'
    BY <1>6 DEF GetPolicy
  <1>7. ASSUME NEW c \in Clients, NEW r \in Replicas, NEW o \in Operations,
               Submit(c, r, o)
        PROVE  PreparedIsSound'
    BY <1>7 DEF Submit
  <1>8. ASSUME NEW c \in Clients, CheckPrincipal(c)
        PROVE  PreparedIsSound'
    BY <1>8 DEF CheckPrincipal
  <1>9. ASSUME NEW c \in Clients, RejectPrincipal(c)
        PROVE  PreparedIsSound'
    BY <1>9 DEF RejectPrincipal, EndRequest
  <1>10. ASSUME NEW c \in Clients, AcquireLock(c)
        PROVE  PreparedIsSound'
    <2>1. CASE operation[c].kind = "replace"
      BY <1>10, <2>1 DEF AcquireLock, Admissible, LockIsFree, Replacement
    <2>2. CASE ~(operation[c].kind = "replace")
      BY <1>10, <2>2 DEF AcquireLock, Admissible, LockIsFree, Replacement
    <2>3. QED
      BY <2>1, <2>2
  <1>11. ASSUME NEW c \in Clients, RejectUnderLock(c)
        PROVE  PreparedIsSound'
    BY <1>11 DEF RejectUnderLock, EndRequest
  <1>12. ASSUME NEW c \in Clients, NEW p \in PrincipalIds, VerifyPrincipal(c, p)
        PROVE  PreparedIsSound'
    BY <1>12 DEF VerifyPrincipal
  <1>13. ASSUME NEW c \in Clients, NEW p \in PrincipalIds, RejectVerify(c, p)
        PROVE  PreparedIsSound'
    BY <1>13 DEF RejectVerify, EndRequest, Release
  <1>14. ASSUME NEW c \in Clients, PrepareReplacement(c)
        PROVE  PreparedIsSound'
    <2>1. CASE PreparedIsPublishable(c)
      BY <1>14, <2>1 DEF PrepareReplacement, PreparedIsPublishable
    <2>2. CASE ~(PreparedIsPublishable(c))
      BY <1>14, <2>2
      DEF PrepareReplacement, PreparedIsPublishable, EndRequest, Release
    <2>3. QED
      BY <2>1, <2>2
  <1>15. ASSUME NEW c \in Clients, Persist(c)
        PROVE  PreparedIsSound'
    BY <1>15 DEF Persist
  <1>16. ASSUME NEW c \in Clients, PersistFails(c)
        PROVE  PreparedIsSound'
    BY <1>16 DEF PersistFails, EndRequest, Release
  <1>17. ASSUME NEW c \in Clients, Install(c)
        PROVE  PreparedIsSound'
    BY <1>17 DEF Install, EndRequest, Release, NextRevision, Expected
  <1>18. ASSUME NEW c \in Clients, Abandon(c)
        PROVE  PreparedIsSound'
    BY <1>18 DEF Abandon, EndRequest
  <1>19. ASSUME NEW p \in PrincipalIds, PrincipalNext(p)
        PROVE  PreparedIsSound'
    BY <1>19 DEF PrincipalNext, CreatePrincipal, UpdateStatus, DeletePrincipal
  <1>20. CASE UNCHANGED vars
    BY <1>20 DEF vars
  <1>21. QED
    BY <1>1, <1>2, <1>3, <1>4, <1>5, <1>6, <1>7, <1>8, <1>9, <1>10, <1>11,
       <1>12, <1>13, <1>14, <1>15, <1>16, <1>17, <1>18, <1>19, <1>20
    DEF Next, ProcessNext, ClientNext, HandlerNext

(* Between its start and its end a process changes what it serves in       *)
(* Install alone, and a client's ETag moves there and in GetPolicy alone.  *)
LEMMA ServiceFrame ==
    ASSUME NEW c \in Clients, HandlerNext(c) \/ Abandon(c), ~Install(c)
    PROVE  UNCHANGED <<principals, phase, epoch, runtime, view>>
  BY DEF HandlerNext, CheckPrincipal, RejectPrincipal, AcquireLock, RejectUnderLock,
     VerifyPrincipal, RejectVerify, PrepareReplacement, Persist, PersistFails,
     Abandon, processVars

(* Only a bootstrap policy that compiles is ever on its way to storage.    *)
LEMMA SeedStep ==
    ASSUME TypeOK, SeedCompiles, [Next]_vars
    PROVE  SeedCompiles'
  <1> USE DEF TypeOK, SeedCompiles, processVars
  <1>1. ASSUME NEW r \in Replicas, ProcessNext(r)
        PROVE  SeedCompiles'
    BY <1>1 DEF ProcessNext, OpenStored, OpenBootstrap, SeedDurable, SeedFails, Crash,
       Serve
  <1>2. ASSUME NEW c \in Clients, ClientNext(c) \/ Install(c)
        PROVE  SeedCompiles'
    BY <1>2 DEF ClientNext, GetPolicy, Submit, Install
  <1>3. ASSUME NEW c \in Clients, HandlerNext(c) \/ Abandon(c), ~Install(c)
        PROVE  SeedCompiles'
    BY <1>3, ServiceFrame
  <1>4. ASSUME NEW p \in PrincipalIds, PrincipalNext(p)
        PROVE  SeedCompiles'
    BY <1>4 DEF PrincipalNext, CreatePrincipal, UpdateStatus, DeletePrincipal
  <1>5. CASE UNCHANGED vars
    BY <1>5 DEF vars
  <1>6. QED
    BY <1>1, <1>2, <1>3, <1>4, <1>5 DEF Next

(* No client is ahead of the process its ETag came from.                   *)
LEMMA ViewStep ==
    ASSUME TypeOK, RequestsAreServed, HolderIsCurrent, ViewsAreOld, [Next]_vars
    PROVE  ViewsAreOld'
  <1> USE PolicyAssumption DEF TypeOK, ViewsAreOld, processVars
  <1>1. ASSUME NEW r \in Replicas, OpenStored(r) \/ SeedDurable(r)
        PROVE  ViewsAreOld'
    <2>1. /\ epoch' = [epoch EXCEPT ![r] = @ + 1]
          /\ \A s \in Replicas \ {r} : phase'[s] = phase[s] /\ runtime'[s] = runtime[s]
          /\ UNCHANGED view
      BY <1>1 DEF OpenStored, SeedDurable, Serve
    <2>2. QED
      BY <2>1 DEF View
  <1>2. ASSUME NEW r \in Replicas, OpenBootstrap(r) \/ SeedFails(r) \/ Crash(r)
        PROVE  ViewsAreOld'
    BY <1>2 DEF OpenBootstrap, SeedFails, Crash
  <1>3. ASSUME NEW c \in Clients, NEW r \in Replicas, GetPolicy(c, r)
        PROVE  ViewsAreOld'
    BY <1>3 DEF GetPolicy, View, Catalog
  <1>4. ASSUME NEW c \in Clients, NEW r \in Replicas, NEW o \in Operations,
               Submit(c, r, o)
        PROVE  ViewsAreOld'
    BY <1>4 DEF Submit
  <1>5. ASSUME NEW c \in Clients, Install(c)
        PROVE  ViewsAreOld'
    <2>1. at[c] \in Replicas /\ view[c].revision = runtime[at[c]].revision
      BY <1>5 DEF Install, RequestsAreServed, HolderIsCurrent, InCriticalSection,
         RequireRevision, Expected
    <2>2. /\ runtime'[at[c]].revision = runtime[at[c]].revision + 1
          /\ \A s \in Replicas \ {at[c]} : runtime'[s] = runtime[s]
          /\ UNCHANGED <<phase, epoch>>
      BY <1>5, <2>1 DEF Install, NextRevision, Expected
    <2>3. /\ \A d \in Clients \ {c} : view'[d] = view[d]
          /\ view'[c].replica = at[c] /\ view'[c].epoch = epoch[at[c]]
          /\ view'[c].revision = runtime'[at[c]].revision
      BY <1>5, <2>1 DEF Install, NextRevision, Expected
    <2>4. SUFFICES ASSUME NEW d \in Clients, NEW s \in Replicas, view'[d].replica = s
                   PROVE  /\ view'[d].epoch <= epoch[s]
                          /\ (view'[d].epoch = epoch[s] /\ phase[s] = "up") =>
                                view'[d].revision <= runtime'[s].revision
      BY <2>2
    <2>5. CASE d = c
      BY <2>1, <2>2, <2>3, <2>4, <2>5 DEF Catalog
    <2>6. CASE d # c
      <3>1. runtime[s].revision <= runtime'[s].revision
        BY <2>1, <2>2 DEF Catalog
      <3>2. view'[d] = view[d] /\ view[d].revision \in Nat
        BY <2>3, <2>6 DEF View
      <3>3. runtime[s].revision \in Nat /\ runtime'[s].revision \in Nat
        BY <2>1, <2>2 DEF Catalog
      <3>4. QED
        BY <2>4, <3>1, <3>2, <3>3
    <2>7. QED
      BY <2>5, <2>6
  <1>6. ASSUME NEW c \in Clients, HandlerNext(c) \/ Abandon(c), ~Install(c)
        PROVE  ViewsAreOld'
    BY <1>6, ServiceFrame
  <1>7. ASSUME NEW p \in PrincipalIds, PrincipalNext(p)
        PROVE  ViewsAreOld'
    BY <1>7 DEF PrincipalNext, CreatePrincipal, UpdateStatus, DeletePrincipal
  <1>8. CASE UNCHANGED vars
    BY <1>8 DEF vars
  <1>9. QED
    BY <1>1, <1>2, <1>3, <1>4, <1>5, <1>6, <1>7, <1>8
    DEF Next, ProcessNext, ClientNext

(* A revision names one catalog for as long as the process lives: Install  *)
(* serves a revision above every ETag that was handed out, and a restart   *)
(* begins an epoch no ETag carries yet.                                    *)
LEMMA EtagStep ==
    ASSUME TypeOK, RequestsAreServed, HolderIsCurrent, ViewsAreOld,
           EtagIdentifiesCatalog, [Next]_vars
    PROVE  EtagIdentifiesCatalog'
  <1> USE PolicyAssumption DEF TypeOK, EtagIdentifiesCatalog, processVars
  <1>1. ASSUME NEW r \in Replicas, OpenStored(r) \/ SeedDurable(r)
        PROVE  EtagIdentifiesCatalog'
    <2>1. /\ epoch' = [epoch EXCEPT ![r] = @ + 1]
          /\ \A s \in Replicas \ {r} : phase'[s] = phase[s] /\ runtime'[s] = runtime[s]
          /\ UNCHANGED view
      BY <1>1 DEF OpenStored, SeedDurable, Serve
    <2>2. QED
      BY <2>1 DEF ViewsAreOld, View
  <1>2. ASSUME NEW r \in Replicas, OpenBootstrap(r) \/ SeedFails(r) \/ Crash(r)
        PROVE  EtagIdentifiesCatalog'
    <2>1. /\ phase'[r] # "up"
          /\ \A s \in Replicas \ {r} : phase'[s] = phase[s] /\ runtime'[s] = runtime[s]
          /\ UNCHANGED <<view, epoch>>
      BY <1>2 DEF OpenBootstrap, SeedFails, Crash
    <2>2. QED
      BY <2>1
  <1>3. ASSUME NEW c \in Clients, NEW r \in Replicas, GetPolicy(c, r)
        PROVE  EtagIdentifiesCatalog'
    BY <1>3 DEF GetPolicy
  <1>4. ASSUME NEW c \in Clients, NEW r \in Replicas, NEW o \in Operations,
               Submit(c, r, o)
        PROVE  EtagIdentifiesCatalog'
    BY <1>4 DEF Submit
  <1>5. ASSUME NEW c \in Clients, Install(c)
        PROVE  EtagIdentifiesCatalog'
    <2>1. at[c] \in Replicas /\ phase[at[c]] = "up"
          /\ view[c].revision = runtime[at[c]].revision
      BY <1>5 DEF Install, RequestsAreServed, HolderIsCurrent, InCriticalSection,
         RequireRevision, Expected
    <2>2. SUFFICES ASSUME NEW d \in Clients, NEW s \in Replicas,
                          view'[d].replica = s, view'[d].epoch = epoch'[s],
                          phase'[s] = "up",
                          view'[d].revision = runtime'[s].revision
                   PROVE  view'[d].policy = runtime'[s].policy
      OBVIOUS
    <2>3. CASE d = c
      BY <1>5, <2>1, <2>2, <2>3 DEF Install
    <2>4. CASE d # c /\ s # at[c]
      BY <1>5, <2>1, <2>2, <2>4 DEF Install
    <2>5. CASE d # c /\ s = at[c]
      <3>1. view[d].revision <= runtime[s].revision
        BY <1>5, <2>1, <2>2, <2>5 DEF Install, ViewsAreOld
      <3>2. view[d].revision = runtime[s].revision + 1
        BY <1>5, <2>1, <2>2, <2>5 DEF Install, NextRevision, Expected
      <3>3. QED
        BY <3>1, <3>2 DEF View, Catalog
    <2>6. QED
      BY <2>3, <2>4, <2>5
  <1>6. ASSUME NEW c \in Clients, HandlerNext(c) \/ Abandon(c), ~Install(c)
        PROVE  EtagIdentifiesCatalog'
    BY <1>6, ServiceFrame
  <1>7. ASSUME NEW p \in PrincipalIds, PrincipalNext(p)
        PROVE  EtagIdentifiesCatalog'
    BY <1>7 DEF PrincipalNext, CreatePrincipal, UpdateStatus, DeletePrincipal
  <1>8. CASE UNCHANGED vars
    BY <1>8 DEF vars
  <1>9. QED
    BY <1>1, <1>2, <1>3, <1>4, <1>5, <1>6, <1>7, <1>8
    DEF Next, ProcessNext, ClientNext

(* The database stays servable: a commit stores what compiled, and the     *)
(* foreign key holds a principal that a stored binding names.              *)
LEMMA DurableStep ==
    ASSUME TypeOK, PreparedIsSound, SeedCompiles, DurableIsServable, [Next]_vars
    PROVE  DurableIsServable'
  <1> USE DEF DurableIsServable
  <1>1. ASSUME NEW r \in Replicas, SeedDurable(r)
        PROVE  DurableIsServable'
    BY <1>1 DEF SeedDurable, SeedCompiles, Present
  <1>2. ASSUME NEW r \in Replicas, ProcessNext(r), ~SeedDurable(r)
        PROVE  DurableIsServable'
    <2>1. UNCHANGED <<durable, principals>>
      BY <1>2 DEF ProcessNext, OpenStored, OpenBootstrap, SeedFails, Crash
    <2>2. QED
      BY <2>1 DEF Present
  <1>3. ASSUME NEW c \in Clients, Persist(c)
        PROVE  DurableIsServable'
    BY <1>3 DEF Persist, PreparedIsSound, Present
  <1>4. ASSUME NEW c \in Clients, ClientNext(c) \/ HandlerNext(c) \/ Abandon(c),
               ~Persist(c)
        PROVE  DurableIsServable'
    <2>1. UNCHANGED <<durable, principals>>
      BY <1>4 DEF ClientNext, GetPolicy, Submit, HandlerNext, CheckPrincipal,
         RejectPrincipal, AcquireLock, RejectUnderLock, VerifyPrincipal, RejectVerify,
         PrepareReplacement, PersistFails, Install, Abandon
    <2>2. QED
      BY <2>1 DEF Present
  <1>5. ASSUME NEW p \in PrincipalIds, PrincipalNext(p)
        PROVE  DurableIsServable'
    <2>1. UNCHANGED durable /\ \A b \in durable.bindings : b.principal \in Present'
      BY <1>5 DEF PrincipalNext, CreatePrincipal, UpdateStatus, DeletePrincipal,
         Unreferenced, Storable, Present, TypeOK
    <2>2. QED
      BY <2>1 DEF Storable
  <1>6. CASE UNCHANGED vars
    BY <1>6 DEF vars, Present
  <1>7. QED
    BY <1>1, <1>2, <1>3, <1>4, <1>5, <1>6 DEF Next

(* With one process nobody else commits between a commit and its install.  *)
LEMMA CommitStep ==
    ASSUME TypeOK, RequestsAreServed, HolderIsCurrent, CommitIsDurable, [Next]_vars
    PROVE  CommitIsDurable'
  <1> USE PolicyAssumption DEF TypeOK, CommitIsDurable, requestVars, processVars
  <1>1. ASSUME NEW r \in Replicas, OpenStored(r)
        PROVE  CommitIsDurable'
    BY <1>1 DEF OpenStored, Serve
  <1>2. ASSUME NEW r \in Replicas, OpenBootstrap(r)
        PROVE  CommitIsDurable'
    BY <1>2 DEF OpenBootstrap
  <1>3. ASSUME NEW r \in Replicas, SeedDurable(r)
        PROVE  CommitIsDurable'
    BY <1>3 DEF SeedDurable, Serve, BootstrapServed, RequestsAreServed
  <1>4. ASSUME NEW r \in Replicas, SeedFails(r)
        PROVE  CommitIsDurable'
    BY <1>4 DEF SeedFails
  <1>5. ASSUME NEW r \in Replicas, Crash(r)
        PROVE  CommitIsDurable'
    BY <1>5 DEF Crash, NoCatalog
  <1>6. ASSUME NEW c \in Clients, NEW r \in Replicas, GetPolicy(c, r)
        PROVE  CommitIsDurable'
    BY <1>6 DEF GetPolicy
  <1>7. ASSUME NEW c \in Clients, NEW r \in Replicas, NEW o \in Operations,
               Submit(c, r, o)
        PROVE  CommitIsDurable'
    BY <1>7 DEF Submit
  <1>8. ASSUME NEW c \in Clients, CheckPrincipal(c)
        PROVE  CommitIsDurable'
    BY <1>8 DEF CheckPrincipal
  <1>9. ASSUME NEW c \in Clients, RejectPrincipal(c)
        PROVE  CommitIsDurable'
    BY <1>9 DEF RejectPrincipal, EndRequest
  <1>10. ASSUME NEW c \in Clients, AcquireLock(c)
        PROVE  CommitIsDurable'
    <2>1. CASE operation[c].kind = "replace"
      BY <1>10, <2>1 DEF AcquireLock
    <2>2. CASE ~(operation[c].kind = "replace")
      BY <1>10, <2>2 DEF AcquireLock
    <2>3. QED
      BY <2>1, <2>2
  <1>11. ASSUME NEW c \in Clients, RejectUnderLock(c)
        PROVE  CommitIsDurable'
    BY <1>11 DEF RejectUnderLock, EndRequest
  <1>12. ASSUME NEW c \in Clients, NEW p \in PrincipalIds, VerifyPrincipal(c, p)
        PROVE  CommitIsDurable'
    BY <1>12 DEF VerifyPrincipal
  <1>13. ASSUME NEW c \in Clients, NEW p \in PrincipalIds, RejectVerify(c, p)
        PROVE  CommitIsDurable'
    BY <1>13 DEF RejectVerify, EndRequest, Release
  <1>14. ASSUME NEW c \in Clients, PrepareReplacement(c)
        PROVE  CommitIsDurable'
    <2>1. CASE PreparedIsPublishable(c)
      BY <1>14, <2>1 DEF PrepareReplacement
    <2>2. CASE ~(PreparedIsPublishable(c))
      BY <1>14, <2>2 DEF PrepareReplacement, EndRequest
    <2>3. QED
      BY <2>1, <2>2
  <1>15. ASSUME NEW c \in Clients, Persist(c)
        PROVE  CommitIsDurable'
    BY <1>15 DEF Persist, HolderIsCurrent, InCriticalSection, RequestsAreServed
  <1>16. ASSUME NEW c \in Clients, PersistFails(c)
        PROVE  CommitIsDurable'
    BY <1>16 DEF PersistFails, EndRequest, Release
  <1>17. ASSUME NEW c \in Clients, Install(c)
        PROVE  CommitIsDurable'
    BY <1>17 DEF Install, EndRequest, Release, NextRevision, Expected
  <1>18. ASSUME NEW c \in Clients, Abandon(c)
        PROVE  CommitIsDurable'
    BY <1>18 DEF Abandon, EndRequest
  <1>19. ASSUME NEW p \in PrincipalIds, PrincipalNext(p)
        PROVE  CommitIsDurable'
    BY <1>19 DEF PrincipalNext, CreatePrincipal, UpdateStatus, DeletePrincipal
  <1>20. CASE UNCHANGED vars
    BY <1>20 DEF vars
  <1>21. QED
    BY <1>1, <1>2, <1>3, <1>4, <1>5, <1>6, <1>7, <1>8, <1>9, <1>10, <1>11,
       <1>12, <1>13, <1>14, <1>15, <1>16, <1>17, <1>18, <1>19, <1>20
    DEF Next, ProcessNext, ClientNext, HandlerNext

(* With one process, memory follows the database unless a request was lost *)
(* past its commit.                                                        *)
LEMMA ServedDurableStep ==
    ASSUME TypeOK, RequestsAreServed, CommitIsDurable, ServedIsDurable, [Next]_vars
    PROVE  ServedIsDurable'
  <1> USE PolicyAssumption DEF TypeOK, ServedIsDurable, requestVars, processVars
  <1>1. ASSUME NEW r \in Replicas, OpenStored(r)
        PROVE  ServedIsDurable'
    BY <1>1 DEF OpenStored, Serve
  <1>2. ASSUME NEW r \in Replicas, OpenBootstrap(r)
        PROVE  ServedIsDurable'
    BY <1>2 DEF OpenBootstrap
  <1>3. ASSUME NEW r \in Replicas, SeedDurable(r)
        PROVE  ServedIsDurable'
    BY <1>3 DEF SeedDurable, Serve, BootstrapServed
  <1>4. ASSUME NEW r \in Replicas, SeedFails(r)
        PROVE  ServedIsDurable'
    BY <1>4 DEF SeedFails
  <1>5. ASSUME NEW r \in Replicas, Crash(r)
        PROVE  ServedIsDurable'
    BY <1>5 DEF Crash, NoCatalog
  <1>6. ASSUME NEW c \in Clients, NEW r \in Replicas, GetPolicy(c, r)
        PROVE  ServedIsDurable'
    BY <1>6 DEF GetPolicy
  <1>7. ASSUME NEW c \in Clients, NEW r \in Replicas, NEW o \in Operations,
               Submit(c, r, o)
        PROVE  ServedIsDurable'
    BY <1>7 DEF Submit
  <1>8. ASSUME NEW c \in Clients, CheckPrincipal(c)
        PROVE  ServedIsDurable'
    BY <1>8 DEF CheckPrincipal
  <1>9. ASSUME NEW c \in Clients, RejectPrincipal(c)
        PROVE  ServedIsDurable'
    BY <1>9 DEF RejectPrincipal, EndRequest
  <1>10. ASSUME NEW c \in Clients, AcquireLock(c)
        PROVE  ServedIsDurable'
    <2>1. CASE operation[c].kind = "replace"
      BY <1>10, <2>1 DEF AcquireLock
    <2>2. CASE ~(operation[c].kind = "replace")
      BY <1>10, <2>2 DEF AcquireLock
    <2>3. QED
      BY <2>1, <2>2
  <1>11. ASSUME NEW c \in Clients, RejectUnderLock(c)
        PROVE  ServedIsDurable'
    BY <1>11 DEF RejectUnderLock, EndRequest
  <1>12. ASSUME NEW c \in Clients, NEW p \in PrincipalIds, VerifyPrincipal(c, p)
        PROVE  ServedIsDurable'
    BY <1>12 DEF VerifyPrincipal
  <1>13. ASSUME NEW c \in Clients, NEW p \in PrincipalIds, RejectVerify(c, p)
        PROVE  ServedIsDurable'
    BY <1>13 DEF RejectVerify, EndRequest, Release
  <1>14. ASSUME NEW c \in Clients, PrepareReplacement(c)
        PROVE  ServedIsDurable'
    <2>1. CASE PreparedIsPublishable(c)
      BY <1>14, <2>1 DEF PrepareReplacement
    <2>2. CASE ~(PreparedIsPublishable(c))
      BY <1>14, <2>2 DEF PrepareReplacement, EndRequest
    <2>3. QED
      BY <2>1, <2>2
  <1>15. ASSUME NEW c \in Clients, Persist(c)
        PROVE  ServedIsDurable'
    BY <1>15 DEF Persist, RequestsAreServed
  <1>16. ASSUME NEW c \in Clients, PersistFails(c)
        PROVE  ServedIsDurable'
    BY <1>16 DEF PersistFails, EndRequest, Release
  <1>17. ASSUME NEW c \in Clients, Install(c)
        PROVE  ServedIsDurable'
    BY <1>17
    DEF Install, EndRequest, Release, NextRevision, Expected, CommitIsDurable,
        RequestsAreServed
  <1>18. ASSUME NEW c \in Clients, Abandon(c)
        PROVE  ServedIsDurable'
    <2>1. SUFFICES ASSUME NEW r \in Replicas, Replicas = {r}, phase'[r] = "up", ~dropped'[r]
                   PROVE  \/ runtime'[r].policy = durable'
                          \/ \E d \in Clients : at'[d] = r /\ pc'[d] = "install"
      OBVIOUS
    <2>2. ~dropped[r] /\ ~(at[c] = r /\ pc[c] = "install")
      BY <1>18, <2>1 DEF Abandon
    <2>3. \A d \in Clients \ {c} : at'[d] = at[d] /\ pc'[d] = pc[d]
      BY <1>18 DEF Abandon, EndRequest
    <2>4. UNCHANGED <<phase, runtime, durable>>
      BY <1>18 DEF Abandon
    <2>5. QED
      BY <2>1, <2>2, <2>3, <2>4
  <1>19. ASSUME NEW p \in PrincipalIds, PrincipalNext(p)
        PROVE  ServedIsDurable'
    BY <1>19 DEF PrincipalNext, CreatePrincipal, UpdateStatus, DeletePrincipal
  <1>20. CASE UNCHANGED vars
    BY <1>20 DEF vars
  <1>21. QED
    BY <1>1, <1>2, <1>3, <1>4, <1>5, <1>6, <1>7, <1>8, <1>9, <1>10, <1>11,
       <1>12, <1>13, <1>14, <1>15, <1>16, <1>17, <1>18, <1>19, <1>20
    DEF Next, ProcessNext, ClientNext, HandlerNext

(* The whole invariant holds initially ...                                 *)
LEMMA InitIInv == Init => IInv
  <1> SUFFICES ASSUME Init
               PROVE  IInv
    OBVIOUS
  <1> USE PolicyAssumption DEF Init
  <1>1. TypeOK
    BY EmptyPolicyType DEF TypeOK, RequestPhase, Catalog, NoCatalog, View, NoView
  <1>2. DurableIsServable
    BY DEF DurableIsServable, EmptyPolicy, Compiles, ValidateUnique,
       UniqueRouteMatchers, RolesReferToActions, Storable
  <1>3. SeedCompiles /\ RequestsAreServed /\ HolderIsCurrent /\ PreparedIsSound
    BY DEF SeedCompiles, RequestsAreServed, HolderIsCurrent, PreparedIsSound,
       InCriticalSection
  <1>4. ViewsAreOld /\ EtagIdentifiesCatalog /\ CommitIsDurable /\ ServedIsDurable
    BY DEF ViewsAreOld, EtagIdentifiesCatalog, CommitIsDurable, ServedIsDurable, NoView
  <1>5. QED
    BY <1>1, <1>2, <1>3, <1>4 DEF IInv

(* ... and every step of every process, client and principal keeps it.     *)
LEMMA NextIInv == IInv /\ [Next]_vars => IInv'
  <1> SUFFICES ASSUME IInv, [Next]_vars
               PROVE  IInv'
    OBVIOUS
  <1>1. TypeOK' /\ RequestsAreServed' /\ SeedCompiles'
    BY TypeStep, ServedStep, SeedStep DEF IInv
  <1>2. HolderIsCurrent' /\ PreparedIsSound' /\ ViewsAreOld'
    BY HolderStep, PreparedStep, ViewStep DEF IInv
  <1>3. EtagIdentifiesCatalog' /\ DurableIsServable'
    BY EtagStep, DurableStep DEF IInv
  <1>4. CommitIsDurable' /\ ServedIsDurable'
    BY CommitStep, ServedDurableStep DEF IInv
  <1>5. QED
    BY <1>1, <1>2, <1>3, <1>4 DEF IInv

(* IInv holds of every behaviour of the policy service.                    *)
THEOREM InductiveInvariant == Spec => []IInv
  BY InitIInv, NextIInv, PTL DEF Spec

(* Type correctness, the range of the revision included: for any number of *)
(* processes and clients no publication ever passes u64::MAX.              *)
THEOREM TypeCorrect == Spec => []TypeOK
  <1>1. IInv => TypeOK
    BY DEF IInv
  <1>2. QED
    BY <1>1, InductiveInvariant, PTL

(* The write lock of PolicyHandler suffices: from its revision check to    *)
(* its install a request works on the catalog that is being served.        *)
THEOREM LockProtectsReplacement == Spec => []HolderIsCurrent
  <1>1. IInv => HolderIsCurrent
    BY DEF IInv
  <1>2. QED
    BY <1>1, InductiveInvariant, PTL

(* Between two restarts equal ETags mean equal catalogs.                   *)
THEOREM EtagsAreFaithful == Spec => []EtagIdentifiesCatalog
  <1>1. IInv => EtagIdentifiesCatalog
    BY DEF IInv
  <1>2. QED
    BY <1>1, InductiveInvariant, PTL

(* Whatever PolicyRepository::replace left in the database compiles and    *)
(* names only principals that exist, so PolicyHandler::open can serve it.  *)
THEOREM DurableServable == Spec => []DurableIsServable
  <1>1. IInv => DurableIsServable
    BY DEF IInv
  <1>2. QED
    BY <1>1, InductiveInvariant, PTL

(* A single process serves what the database holds, except between commit  *)
(* and install and after a request was dropped there.                      *)
THEOREM ServedDurable == Spec => []ServedIsDurable
  <1>1. IInv => ServedIsDurable
    BY DEF IInv
  <1>2. QED
    BY <1>1, InductiveInvariant, PTL

(* A living process only ever moves to the revision after the one it       *)
(* serves.                                                                 *)
THEOREM RevisionsAdvance == Spec => RevisionAdvances
  <1>1. IInv /\ [Next]_vars =>
            [\A r \in Replicas :
                (phase[r] = "up" /\ phase'[r] = "up" /\ runtime'[r] # runtime[r]) =>
                    runtime'[r].revision = runtime[r].revision + 1]_vars
    <2> SUFFICES ASSUME IInv, Next, NEW r \in Replicas, phase[r] = "up",
                        phase'[r] = "up", runtime'[r] # runtime[r]
                 PROVE  runtime'[r].revision = runtime[r].revision + 1
      OBVIOUS
    <2>1. ASSUME NEW s \in Replicas, ProcessNext(s)
          PROVE  FALSE
      BY <2>1 DEF IInv, TypeOK, ProcessNext, OpenStored, OpenBootstrap, SeedDurable,
         SeedFails, Crash, Serve
    <2>2. ASSUME NEW c \in Clients, Install(c)
          PROVE  runtime'[r].revision = runtime[r].revision + 1
      <3>1. at[c] \in Replicas /\ view[c].revision = runtime[at[c]].revision
        BY <2>2 DEF Install, IInv, RequestsAreServed, HolderIsCurrent,
           InCriticalSection, RequireRevision, Expected
      <3>2. QED
        BY <2>2, <3>1 DEF Install, NextRevision, Expected, IInv, TypeOK
    <2>3. ASSUME NEW c \in Clients, HandlerNext(c) \/ Abandon(c), ~Install(c)
          PROVE  FALSE
      BY <2>3, ServiceFrame
    <2>4. ASSUME NEW c \in Clients, ClientNext(c)
          PROVE  FALSE
      BY <2>4 DEF ClientNext, GetPolicy, Submit, processVars
    <2>5. ASSUME NEW p \in PrincipalIds, PrincipalNext(p)
          PROVE  FALSE
      BY <2>5 DEF PrincipalNext, CreatePrincipal, UpdateStatus, DeletePrincipal,
         processVars
    <2>6. QED
      BY <2>1, <2>2, <2>3, <2>4, <2>5 DEF Next
  <1>2. QED
    BY <1>1, InductiveInvariant, PTL DEF Spec, RevisionAdvances

(* The instance's compiler and operations are the module's own.            *)
LEMMA SameData ==
    ASSUME NEW o, NEW p
    PROVE  /\ Register!Apply(o, p) = Apply(o, p)
           /\ Register!Accepts(o, p) <=> Accepts(o, p)
           /\ Register!Compiles(p) <=> Compiles(p)
  <1>1. Register!Apply(o, p) = Apply(o, p)
    BY DEF Apply, Rewritten, Updated, RemoveById, EmptyPolicy, Register!Apply,
       Register!Rewritten, Register!Updated, Register!RemoveById, Register!EmptyPolicy
  <1>2. Register!Accepts(o, p) <=> Accepts(o, p)
    BY DEF Accepts, EnsureAbsent, FindItem, Dereferenced, TableOf, Ids,
       Register!Accepts, Register!EnsureAbsent, Register!FindItem,
       Register!Dereferenced, Register!TableOf, Register!Ids
  <1>3. Register!Compiles(p) <=> Compiles(p)
    BY DEF Compiles, ValidateUnique, UniqueRouteMatchers, RolesReferToActions,
       CompileRoleBinding, Ids, Register!Compiles, Register!ValidateUnique,
       Register!UniqueRouteMatchers, Register!RolesReferToActions,
       Register!CompileRoleBinding, Register!Ids
  <1>4. QED
    BY <1>1, <1>2, <1>3

(* The policy service implements a compare-and-swap register: every step   *)
(* is a start, a stop, a fetch, a compare-and-swap on the served catalog   *)
(* (Install) or invisible.  HolderIsCurrent makes Install a swap on the    *)
(* catalog the request started from, PreparedIsSound a legal one.          *)
THEOREM CatalogIsRegister == Spec => ImplementsRegister
  <1> DEFINE Live == {r \in Replicas : phase[r] = "up"}
             Snapshot == [c \in Clients |->
                [revision |-> view[c].revision, policy |-> view[c].policy]]
  <1>1. Init => Register!RegisterInit
    BY DEF Init, Register!RegisterInit
  <1>2. IInv /\ [Next]_vars => [Register!RegisterNext]_(Register!registerVars)
    <2> SUFFICES ASSUME IInv, [Next]_vars
                 PROVE  Register!RegisterNext \/ UNCHANGED <<Live, runtime, Snapshot>>
      BY DEF Register!registerVars
    <2> USE DEF processVars
    <2>1. ASSUME NEW r \in Replicas, OpenStored(r) \/ SeedDurable(r)
          PROVE  Register!Start(r)
      <3>1. r \notin Live /\ Live' = Live \cup {r}
        BY <2>1 DEF OpenStored, SeedDurable, Serve, IInv, TypeOK
      <3>2. \A s \in Replicas \ {r} : runtime'[s] = runtime[s]
        BY <2>1 DEF OpenStored, SeedDurable, Serve, IInv, TypeOK
      <3>3. Compiles(runtime'[r].policy)
        BY <2>1 DEF OpenStored, SeedDurable, Serve, IInv, TypeOK, SeedCompiles
      <3>4. UNCHANGED Snapshot
        BY <2>1 DEF OpenStored, SeedDurable
      <3>5. QED
        BY <3>1, <3>2, <3>3, <3>4, SameData DEF Register!Start, Register!OnlyCell
    <2>2. ASSUME NEW r \in Replicas, OpenBootstrap(r) \/ SeedFails(r)
          PROVE  UNCHANGED <<Live, runtime, Snapshot>>
      BY <2>2 DEF OpenBootstrap, SeedFails, IInv, TypeOK
    <2>3. ASSUME NEW r \in Replicas, Crash(r)
          PROVE  Register!Stop(r)
      <3>1. r \in Live /\ Live' = Live \ {r}
        BY <2>3 DEF Crash, IInv, TypeOK
      <3>2. \A s \in Replicas \ {r} : runtime'[s] = runtime[s]
        BY <2>3 DEF Crash, IInv, TypeOK
      <3>3. UNCHANGED Snapshot
        BY <2>3 DEF Crash
      <3>4. QED
        BY <3>1, <3>2, <3>3 DEF Register!Stop, Register!OnlyCell
    <2>4. ASSUME NEW c \in Clients, NEW r \in Replicas, GetPolicy(c, r)
          PROVE  Register!Fetch(c, r)
      <3>1. r \in Live /\ UNCHANGED <<Live, runtime>>
        BY <2>4 DEF GetPolicy
      <3>2. runtime[r] = [revision |-> runtime[r].revision,
                          policy |-> runtime[r].policy]
        BY DEF IInv, TypeOK, Catalog
      <3>3. Snapshot' = [Snapshot EXCEPT ![c] = runtime[r]]
        BY <2>4, <3>2 DEF GetPolicy, IInv, TypeOK
      <3>4. QED
        BY <3>1, <3>3 DEF Register!Fetch
    <2>5. ASSUME NEW c \in Clients, Install(c)
          PROVE  \E r \in Replicas, o \in Operations : Register!CompareAndSwap(c, r, o)
      <3>1. PICK r \in Replicas, o \in Operations : r = at[c] /\ o = operation[c]
        BY <2>5 DEF Install, IInv, RequestsAreServed
      <3> DEFINE next == [revision |-> runtime[r].revision + 1,
                          policy |-> Apply(o, runtime[r].policy)]
      <3>2. /\ r \in Live
            /\ Snapshot[c].revision = runtime[r].revision
            /\ Accepts(o, runtime[r].policy)
            /\ Compiles(next.policy)
        BY <2>5, <3>1 DEF Install, IInv, RequestsAreServed, HolderIsCurrent,
           PreparedIsSound, InCriticalSection, RequireRevision, Expected
      <3>3. runtime' = [runtime EXCEPT ![r] = next]
        BY <2>5, <3>1 DEF Install, NextRevision, Expected, IInv, HolderIsCurrent,
           InCriticalSection, RequireRevision
      <3>4. Snapshot' = [Snapshot EXCEPT ![c] = next]
        BY <2>5, <3>1 DEF Install, NextRevision, Expected, IInv, TypeOK,
           HolderIsCurrent, InCriticalSection, RequireRevision
      <3>5. UNCHANGED Live
        BY <2>5 DEF Install
      <3>6. Register!CompareAndSwap(c, r, o)
        BY <3>2, <3>3, <3>4, <3>5, SameData DEF Register!CompareAndSwap
      <3>7. QED
        BY <3>6
    <2>6. ASSUME NEW c \in Clients, HandlerNext(c) \/ Abandon(c), ~Install(c)
          PROVE  UNCHANGED <<Live, runtime, Snapshot>>
      BY <2>6, ServiceFrame
    <2>7. ASSUME NEW c \in Clients, NEW r \in Replicas, NEW o \in Operations,
                 Submit(c, r, o)
          PROVE  UNCHANGED <<Live, runtime, Snapshot>>
      BY <2>7 DEF Submit
    <2>8. ASSUME NEW p \in PrincipalIds, PrincipalNext(p)
          PROVE  UNCHANGED <<Live, runtime, Snapshot>>
      BY <2>8 DEF PrincipalNext, CreatePrincipal, UpdateStatus, DeletePrincipal
    <2>9. CASE UNCHANGED vars
      BY <2>9 DEF vars
    <2>10. \A r \in Replicas :
            /\ Register!Start(r) \/ Register!Stop(r) => Register!RegisterNext
            /\ \A c \in Clients :
                /\ Register!Fetch(c, r) => Register!RegisterNext
                /\ \A o \in Operations :
                    Register!CompareAndSwap(c, r, o) => Register!RegisterNext
      BY DEF Register!RegisterNext
    <2> HIDE DEF Live, Snapshot
    <2>11. CASE \E r \in Replicas : ProcessNext(r)
      BY <2>1, <2>2, <2>3, <2>10, <2>11 DEF ProcessNext
    <2>12. CASE \E c \in Clients : ClientNext(c)
      BY <2>4, <2>7, <2>10, <2>12 DEF ClientNext
    <2>13. CASE \E c \in Clients : HandlerNext(c) \/ Abandon(c)
      <3>1. PICK c \in Clients : HandlerNext(c) \/ Abandon(c)
        BY <2>13
      <3>2. CASE Install(c)
        BY <2>5, <2>10, <3>2
      <3>3. CASE ~Install(c)
        BY <2>6, <3>1, <3>3
      <3>4. QED
        BY <3>2, <3>3
    <2>14. QED
      BY <2>8, <2>9, <2>11, <2>12, <2>13 DEF Next
  <1>3. QED
    BY <1>1, <1>2, InductiveInvariant, PTL
    DEF Spec, ImplementsRegister, Register!RegisterSpec
=============================================================================
