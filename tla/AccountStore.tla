---------------------------- MODULE AccountStore -----------------------------
(***************************************************************************)
(* The tables AuthN writes: iam_principal, iam_principal_identity and      *)
(* iam_standalone_credential, and the statements of                        *)
(* IdentityBindingRepository, StandaloneCredentialRepository and           *)
(* PrincipalRepository on them.  One repository call is one transaction.   *)
(*                                                                         *)
(* A row's `via' and `by' are history: how an identity got its owner, and  *)
(* for which principal a credential was written.                           *)
(***************************************************************************)
EXTENDS Integers, Functions

CONSTANTS
    PrincipalIds,   \* random P_ identifiers
    Subjects,       \* standalone identities, random local_ subjects
    Accounts,       \* identities of every other provider
    AccountProvider,\* the provider of each account
    CredentialIds,
    Logins,         \* normalised login names
    MaxCount,       \* bound: largest signature counter
    None

VARIABLES principal, identity, credential

store == <<principal, identity, credential>>

Identities == Subjects \cup Accounts
Provider(i) == IF i \in Subjects THEN "standalone" ELSE AccountProvider[i]

ASSUME StoreAssumption ==
    /\ Subjects \cap Accounts = {}
    /\ MaxCount \in Nat
    /\ None \notin PrincipalIds \cup Identities \cup CredentialIds \cup Logins

IdentityRow ==
    [owner : PrincipalIds, via : {"created", "linked", "provisioned"}]

(* count is lastCounter of a TOTP credential and the signature counter of  *)
(* a passkey; key is the login of a password.                              *)
CredentialRow ==
    [identity : Subjects, kind : {"password", "totp", "webauthn"},
     key : Logins \cup {None}, count : 0 .. MaxCount, by : PrincipalIds \cup {None}]

StoreTypeOK ==
    /\ DOMAIN principal \subseteq PrincipalIds
    /\ \A p \in DOMAIN principal : principal[p] \in {"active", "disabled"}
    /\ DOMAIN identity \subseteq Identities
    /\ \A i \in DOMAIN identity : identity[i] \in IdentityRow
    /\ DOMAIN credential \subseteq CredentialIds
    /\ \A c \in DOMAIN credential : credential[c] \in CredentialRow

With(f, k, v) == [x \in DOMAIN f \cup {k} |-> IF x = k THEN v ELSE f[x]]

-----------------------------------------------------------------------------
(* Reads.                                                                  *)

Owner(i) == IF i \in DOMAIN identity THEN identity[i].owner ELSE None
IdentitiesOf(p) == {i \in DOMAIN identity : identity[i].owner = p}
HasProvider(p, pr) == \E i \in IdentitiesOf(p) : Provider(i) = pr
Active == {p \in DOMAIN principal : principal[p] = "active"}

(* The partial unique index leaves at most one live password per login.    *)
ByKey(l) ==
    {c \in DOMAIN credential :
        credential[c].kind = "password" /\ credential[c].key = l}
ByIdentity(i, kind) ==
    {c \in DOMAIN credential :
        credential[c].identity = i /\ credential[c].kind = kind}

-----------------------------------------------------------------------------
(* Writes.                                                                 *)

CreatePrincipalAndBind(p, i) ==
    /\ i \notin DOMAIN identity
    /\ principal' = With(principal, p, "active")
    /\ identity' = With(identity, i, [owner |-> p, via |-> "created"])
    /\ UNCHANGED credential

BindIdentity(p, i) ==
    /\ p \in DOMAIN principal
    /\ i \notin DOMAIN identity
    /\ identity' = With(identity, i, [owner |-> p, via |-> "linked"])
    /\ UNCHANGED <<principal, credential>>

(* ON DELETE CASCADE from principals to identities to credentials.         *)
KeepOnly(P, I) ==
    /\ principal' = Restrict(principal, P)
    /\ identity' = Restrict(identity, I)
    /\ credential' =
        Restrict(credential,
                 {c \in DOMAIN credential : credential[c].identity \in I})

DeletePrincipal(p) ==
    /\ p \in DOMAIN principal
    /\ KeepOnly(DOMAIN principal \ {p}, DOMAIN identity \ IdentitiesOf(p))

RollbackIdentityBinding_AlwaysDeletes(p, i) ==
    KeepOnly(DOMAIN principal \ {p}, DOMAIN identity \ IdentitiesOf(p))

RollbackIdentityBinding_KeepsPrincipal(p, i) ==
    KeepOnly(DOMAIN principal,
             DOMAIN identity \ (IF Owner(i) = p THEN {i} ELSE {}))

(* The binding goes, and the principal with it if that was its last one.   *)
RollbackIdentityBinding(p, i) ==
    LET gone == IF Owner(i) = p THEN {i} ELSE {}
        last == IdentitiesOf(p) \subseteq gone
    IN  KeepOnly(IF last THEN DOMAIN principal \ {p} ELSE DOMAIN principal,
                 DOMAIN identity \ gone)

UpdateStatus(p, s) ==
    /\ p \in DOMAIN principal
    /\ principal' = [principal EXCEPT ![p] = s]
    /\ UNCHANGED <<identity, credential>>

(* An identity that belongs to somebody else aborts the transaction.       *)
UpsertWithIdentity(p, s, i) ==
    /\ Owner(i) \in {p, None}
    /\ principal' = With(principal, p, s)
    /\ identity' =
        IF i \in DOMAIN identity THEN identity
        ELSE With(identity, i, [owner |-> p, via |-> "provisioned"])
    /\ UNCHANGED credential

(* The foreign key and the unique login index.                             *)
Insertable(row) ==
    /\ row.identity \in DOMAIN identity
    /\ row.key = None \/ ByKey(row.key) = {}

CreateCredential(c, row) ==
    /\ Insertable(row)
    /\ credential' = With(credential, c, row)
    /\ UNCHANGED <<principal, identity>>

(* One UPDATE whose WHERE clause compares the stored counter.              *)
CanAdvance(c, n) == c \in DOMAIN credential /\ credential[c].count < n

CanSwap_Unconditional(c, old) == c \in DOMAIN credential
CanSwap(c, old) == c \in DOMAIN credential /\ credential[c].count = old

SetCount(c, n) ==
    /\ credential' = [credential EXCEPT ![c].count = n]
    /\ UNCHANGED <<principal, identity>>
=============================================================================
