--------------------------- MODULE Authentication ----------------------------
(***************************************************************************)
(* The AuthN handlers: registration, password and TOTP login, passkeys,    *)
(* OAuth/OIDC, token exchange and wallets, all of which end in the account *)
(* linking of AuthenticationPipeline.                                      *)
(*                                                                         *)
(* A request is a future; a step is the stretch up to its next await, with *)
(* at most one repository or cache call in it.  Requests run in any number *)
(* of processes: nothing is locked between two calls, and what a request   *)
(* read may be stale when it writes.  Tokens are JWTs, checked without the *)
(* database, so a holder keeps using one after the principal is disabled   *)
(* or gone.  At any await a request may end: the proof it was given fails, *)
(* the backend fails, the client leaves or the process stops.              *)
(***************************************************************************)
EXTENDS AccountStore, Sequences

CONSTANTS
    Requests,
    Profiles,       \* deployments: their settings, tables and clients
    ChallengeIds,   \* random challenge and state identifiers
    Skew,           \* totp.skew, in steps
    MaxStep         \* bound: largest TOTP step

Handlers ==
    {"register", "login", "totp_enrollment_challenge",
     "totp_enrollment_verify", "webauthn_registration_challenge",
     "webauthn_registration_verify", "webauthn_authentication_challenge",
     "webauthn_authentication_verify", "oauth_authorize", "oauth_callback",
     "token_exchange", "wallet_challenge", "wallet_verify", "wallet_link"}

ASSUME AuthenticationAssumption ==
    /\ \A f \in Profiles :
          /\ f.operations \subseteq Handlers
          /\ f.administration \subseteq {"status", "delete", "provision"}
          /\ f.firstLogin \in BOOLEAN
          /\ f.accounts \subseteq Accounts
          /\ f.named \subseteq PrincipalIds
    /\ Skew \in Nat
    /\ MaxStep \in 0 .. MaxCount
    /\ None \notin ChallengeIds

(* What a deployment starts on.  Every principal in its tables holds a     *)
(* session, so it once logged in with an identity; links were made under   *)
(* the policy in force.                                                    *)
ASSUME TablesAssumption ==
    \A f \in Profiles :
        /\ f.lastStep \in 0 .. MaxStep
        /\ DOMAIN f.principals \subseteq PrincipalIds
        /\ \A p \in DOMAIN f.principals :
              /\ f.principals[p] \in {"active", "disabled"}
              /\ \E i \in DOMAIN f.identities : f.identities[i].owner = p
        /\ DOMAIN f.identities \subseteq Identities
        /\ \A i \in DOMAIN f.identities :
              /\ f.identities[i] \in IdentityRow
              /\ f.identities[i].owner \in DOMAIN f.principals
              /\ f.identities[i].via = "linked" =>
                    \E j \in DOMAIN f.identities \ {i} :
                       /\ f.identities[j].owner = f.identities[i].owner
                       /\ Provider(j) \in DOMAIN f.allowLink
                       /\ Provider(i) \in f.allowLink[Provider(j)]
        /\ DOMAIN f.credentials \subseteq CredentialIds
        /\ \A c \in DOMAIN f.credentials :
              /\ f.credentials[c] \in CredentialRow
              /\ f.credentials[c].identity \in DOMAIN f.identities

VARIABLES
    profile,    \* the deployment; it never changes
    req,        \* the state of each request
    challenge,  \* ICache: the unconsumed challenges
    tokens,     \* principals for which a client holds a JWT
    clock,      \* the current TOTP step
    minted,     \* identifiers the random generator has returned
    log,        \* history: counters accepted as proof, in order
    live,       \* history: principals seen active since a request began
    gone,       \* history: its principals that were deleted meanwhile
    guarded,    \* history: owners that had a TOTP credential at that time
    orphaned    \* history: links whose permission went away afterwards

history == <<log, live, gone, guarded, orphaned>>
vars == <<store, profile, req, challenge, tokens, clock, minted, history>>

(* A profile is the configuration of accountLinking (firstLogin,           *)
(* authoritative, allowLink), the tables the service starts on             *)
(* (principals, identities, credentials), and what goes on in it: the      *)
(* handlers called (operations), the administration done, the principals   *)
(* an administrator names, the accounts outside providers vouch for, the   *)
(* identifiers still to be drawn, and the TOTP step at which the clock     *)
(* stops.                                                                  *)
FirstLogin == profile.firstLogin
Authoritative == profile.authoritative
AllowLink == profile.allowLink
Fresh(ids) == (ids \cap profile.fresh) \ minted

Idle ==
    [op |-> "none", pc |-> "idle", login |-> None, id |-> None, who |-> None,
     got |-> None, made |-> FALSE, amr |-> {}, cred |-> None, count |-> 0,
     todo |-> {}, provider |-> None, chal |-> None, state |-> <<>>]

Ended == {"idle", "answered", "undone"}

(* What a client is told, with the proof the answer rests on.              *)
Answer(q, p) ==
    [Idle EXCEPT !.op = q.op, !.pc = "answered", !.id = q.id, !.got = p,
                 !.amr = q.amr, !.chal = q.chal]

(* A token reaches the client with the answer.                             *)
Set(r, q) ==
    /\ req' = [req EXCEPT ![r] = q]
    /\ tokens' = IF q.pc = "answered" THEN (tokens \cup {q.got}) \ {None}
                 ELSE tokens

Refuse(r) == Set(r, Idle)
At(r, pc) == req[r].pc = pc

Init ==
    /\ profile \in Profiles
    /\ principal = profile.principals
    /\ identity = profile.identities
    /\ credential = profile.credentials
    /\ req = [r \in Requests |-> Idle]
    /\ challenge = <<>>
    /\ tokens = DOMAIN principal
    /\ clock = 0
    /\ minted = DOMAIN principal \cup DOMAIN identity \cup DOMAIN credential
    /\ log = <<>>
    /\ live = [r \in Requests |-> {}]
    /\ gone = [r \in Requests |-> {}]
    /\ guarded = [r \in Requests |-> {}]
    /\ orphaned = {}

(* What the history variables remember of each request.                    *)
Guarded ==
    {<<i, identity[i].owner>> :
        i \in {j \in DOMAIN identity : ByIdentity(j, "totp") # {}}}

(* accountLinking.allowLink lets an identity admit another one to its      *)
(* principal.                                                              *)
Permits(j, i) == Provider(j) \in DOMAIN AllowLink /\ Provider(i) \in AllowLink[Provider(j)]

(* The links that are made or about to be: who, and which identity.        *)
Decided ==
    {<<req[r].who, req[r].id>> : r \in {s \in Requests : At(s, "bind")}}
        \cup {<<identity[i].owner, i>> : i \in {j \in DOMAIN identity : identity[j].via = "linked"}}

Withdrawn(x) ==
    \E j \in IdentitiesOf(x[1]) : Permits(j, x[2]) /\ j \notin DOMAIN identity'

Observe ==
    /\ UNCHANGED profile
    /\ live' = [r \in Requests |->
          IF req'[r] = Idle THEN {}
          ELSE IF req[r].pc \in Ended /\ req'[r] # req[r] THEN Active
          ELSE IF req[r].pc \in Ended THEN live[r]
          ELSE live[r] \cup Active \cup Active']
    /\ gone' = [r \in Requests |->
          IF req'[r] = Idle \/ (req[r].pc \in Ended /\ req'[r] # req[r]) THEN {}
          ELSE gone[r] \cup ({req[r].who, req[r].got} \cap (DOMAIN principal \ DOMAIN principal'))]
    /\ guarded' = [r \in Requests |->
          IF req'[r] = Idle THEN {}
          ELSE IF req[r].pc \in Ended /\ req'[r] # req[r] THEN Guarded
          ELSE guarded[r]]
    /\ orphaned' = {x \in Decided \cap Decided' : x \in orphaned \/ Withdrawn(x)}

-----------------------------------------------------------------------------
(* Requests arrive.  A handler that takes a session reads the principal    *)
(* out of the token and asks the database nothing.                         *)

Begin(r, q) ==
    /\ req[r].pc \in Ended
    /\ q.op \in profile.operations
    /\ Set(r, q)
    /\ UNCHANGED <<store, challenge, clock, minted, log>>
    /\ Observe

Session == tokens \cup {None}
OAuthProviders ==
    {Provider(a) : a \in profile.accounts} \ {"wallet"}

Register(r) ==
    \E l \in Logins, w \in Session :
        Begin(r, [Idle EXCEPT !.op = "register", !.pc = "find_key",
                              !.login = l, !.who = w])

Login(r) ==
    \E l \in Logins, op \in {"login", "totp_enrollment_challenge"} :
        Begin(r, [Idle EXCEPT !.op = op, !.pc = "find_key", !.login = l])

WebauthnRegistrationChallenge(r) ==
    \E l \in Logins, w \in tokens :
        Begin(r, [Idle EXCEPT !.op = "webauthn_registration_challenge",
                              !.pc = "find_key", !.login = l, !.who = w])

WebauthnAuthenticationChallenge(r) ==
    \E l \in Logins :
        Begin(r, [Idle EXCEPT !.op = "webauthn_authentication_challenge",
                              !.pc = "find_key", !.login = l])

OAuthAuthorize(r) ==
    \E pr \in OAuthProviders, w \in Session :
        Begin(r, [Idle EXCEPT !.op = "oauth_authorize", !.pc = "put",
                              !.provider = pr, !.who = w])

WalletChallenge(r) ==
    \E a \in {b \in profile.accounts : Provider(b) = "wallet"} :
        Begin(r, [Idle EXCEPT !.op = "wallet_challenge", !.pc = "put",
                              !.id = a])

TokenExchange(r) ==
    \E pr \in OAuthProviders :
        Begin(r, [Idle EXCEPT !.op = "token_exchange", !.pc = "authenticate",
                              !.provider = pr])

(* The handlers that answer a challenge.                                   *)
Verify(r) ==
    \E k \in DOMAIN challenge :
        \/ \E op \in {"totp_enrollment_verify", "wallet_verify",
                      "webauthn_authentication_verify"} :
              Begin(r, [Idle EXCEPT !.op = op, !.pc = "take", !.chal = k])
        \/ \E w \in tokens, op \in {"webauthn_registration_verify",
                                    "wallet_link"} :
              Begin(r, [Idle EXCEPT !.op = op, !.pc = "take", !.chal = k,
                                    !.who = w])
        \/ \E pr \in OAuthProviders :
              Begin(r, [Idle EXCEPT !.op = "oauth_callback", !.pc = "take",
                                    !.chal = k, !.provider = pr])

-----------------------------------------------------------------------------
(* Password and TOTP.                                                      *)

LinkOrLogin(q) ==
    IF q.who = None THEN [q EXCEPT !.pc = "find"]
    ELSE [q EXCEPT !.pc = "permit", !.todo = DOMAIN AllowLink]

RegisterFindsKey(r) ==
    /\ At(r, "find_key")
    /\ req[r].op = "register"
    /\ IF ByKey(req[r].login) # {} THEN Refuse(r) /\ UNCHANGED minted
       ELSE \E s \in Fresh(Subjects) :
                /\ minted' = minted \cup {s}
                /\ Set(r, LinkOrLogin([req[r] EXCEPT !.id = s,
                                                     !.amr = {"pwd"}]))
    /\ UNCHANGED <<store, challenge, clock, log>>
    /\ Observe

FindByKey(r) ==
    /\ At(r, "find_key")
    /\ req[r].op # "register"
    /\ IF ByKey(req[r].login) = {} THEN Refuse(r)
       ELSE \E c \in ByKey(req[r].login) :
                Set(r, [req[r] EXCEPT
                    !.id = credential[c].identity,
                    !.pc = IF req[r].op = "webauthn_authentication_challenge"
                           THEN "list_passkeys" ELSE "list_totp"])
    /\ UNCHANGED <<store, challenge, clock, minted, log>>
    /\ Observe

(* authenticate_credentials has succeeded.                                 *)
Authenticated(q, amr) ==
    [q EXCEPT !.amr = amr, !.cred = None, !.count = 0, !.login = None,
              !.pc = IF q.op = "totp_enrollment_challenge" THEN "put"
                     ELSE "find"]

Window_Underflow == (clock - Skew) .. (clock + Skew)

(* A code proves one credential's secret and one step near the current.    *)
Window == {n \in 0 .. MaxStep : n <= clock + Skew /\ clock <= n + Skew}

ListTotp_Optional(r) ==
    /\ At(r, "list_totp")
    /\ LET totp == ByIdentity(req[r].id, "totp")
       IN  \/ Set(r, Authenticated(req[r], {"pwd"}))
           \/ \E c \in totp, n \in Window :
                 Set(r, [req[r] EXCEPT !.pc = "advance", !.cred = c,
                                       !.count = n])
    /\ UNCHANGED <<store, challenge, clock, minted, log>>
    /\ Observe

ListTotp(r) ==
    /\ At(r, "list_totp")
    /\ LET totp == ByIdentity(req[r].id, "totp")
       IN  \/ /\ totp = {}
              /\ Set(r, Authenticated(req[r], {"pwd"}))
           \/ \E c \in totp, n \in Window :
                 Set(r, [req[r] EXCEPT !.pc = "advance", !.cred = c,
                                       !.count = n])
    /\ UNCHANGED <<store, challenge, clock, minted, log>>
    /\ Observe

AdvanceTotpCounter(r) ==
    LET q == req[r]
    IN  /\ At(r, "advance")
        /\ IF CanAdvance(q.cred, q.count)
           THEN /\ SetCount(q.cred, q.count)
                /\ log' = Append(log, <<q.cred, q.count>>)
                /\ Set(r, Authenticated(q, {"pwd", "otp"}))
           ELSE Refuse(r) /\ UNCHANGED <<store, log>>
        /\ UNCHANGED <<challenge, clock, minted>>
        /\ Observe

-----------------------------------------------------------------------------
(* Account linking.                                                        *)

(* resolve_login answered with an active principal.  A step-up must have   *)
(* resolved to the session's principal.                                    *)
Resolved(q, p) ==
    CASE q.op = "register" ->
            [q EXCEPT !.pc = "write", !.got = p]
      [] q.op = "webauthn_registration_challenge" ->
            IF p = q.who THEN [q EXCEPT !.pc = "list_passkeys"] ELSE Idle
      [] q.op = "webauthn_registration_verify" ->
            IF p = q.who THEN [q EXCEPT !.pc = "write", !.got = p] ELSE Idle
      [] OTHER -> Answer(q, p)

MayCreate(i) == FirstLogin \/ Provider(i) \in Authoritative

FindPrincipalByIdentity_AnyStatus(r) ==
    LET q == req[r]
        p == Owner(q.id)
    IN  /\ At(r, "find")
        /\ Set(r, CASE p # None -> Resolved(q, p)
                    [] p = None /\ MayCreate(q.id) ->
                          [q EXCEPT !.pc = "create"]
                    [] OTHER -> Idle)
        /\ UNCHANGED <<store, challenge, clock, minted, log>>
        /\ Observe

FindPrincipalByIdentity(r) ==
    LET q == req[r]
        p == Owner(q.id)
    IN  /\ At(r, "find")
        /\ Set(r, CASE p # None /\ p \in Active -> Resolved(q, p)
                    [] p = None /\ MayCreate(q.id) ->
                          [q EXCEPT !.pc = "create"]
                    [] OTHER -> Idle)
        /\ UNCHANGED <<store, challenge, clock, minted, log>>
        /\ Observe

CreatePrincipal_Rebinds(r) ==
    LET q == req[r]
    IN  /\ At(r, "create")
        /\ \E p \in Fresh(PrincipalIds) :
              /\ minted' = minted \cup {p}
              /\ principal' = With(principal, p, "active")
              /\ identity' = With(identity, q.id,
                                  [owner |-> p, via |-> "created"])
              /\ Set(r, Resolved([q EXCEPT !.made = TRUE], p))
        /\ UNCHANGED <<credential, challenge, clock, log>>
        /\ Observe

(* The unique index on identities decides between two first logins; the    *)
(* loser's transaction leaves no principal behind.                         *)
CreatePrincipal(r) ==
    LET q == req[r]
    IN  /\ At(r, "create")
        /\ IF q.id \in DOMAIN identity
           THEN Refuse(r) /\ UNCHANGED <<store, minted>>
           ELSE \E p \in Fresh(PrincipalIds) :
                  /\ minted' = minted \cup {p}
                  /\ CreatePrincipalAndBind(p, q.id)
                  /\ Set(r, Resolved([q EXCEPT !.made = TRUE], p))
        /\ UNCHANGED <<challenge, clock, log>>
        /\ Observe

PrincipalHasProvider_Any(r) ==
    LET q == req[r]
    IN  /\ At(r, "permit")
        /\ Set(r, [q EXCEPT !.pc = "bind", !.todo = {}])
        /\ UNCHANGED <<store, challenge, clock, minted, log>>
        /\ Observe

(* One read per authoritative provider that may link this one.             *)
PrincipalHasProvider(r) ==
    LET q == req[r]
        candidates == {a \in q.todo : Provider(q.id) \in AllowLink[a]}
    IN  /\ At(r, "permit")
        /\ \/ candidates = {} /\ Refuse(r)
           \/ \E a \in candidates :
                 Set(r, IF HasProvider(q.who, a)
                        THEN [q EXCEPT !.pc = "bind", !.todo = {}]
                        ELSE [q EXCEPT !.todo = @ \ {a}])
        /\ UNCHANGED <<store, challenge, clock, minted, log>>
        /\ Observe

(* The status is checked after the binding has been committed.             *)
BindExternalIdentity(r) ==
    LET q == req[r]
        bound == IF q.op = "register"
                 THEN [q EXCEPT !.pc = "write", !.got = q.who]
                 ELSE Answer(q, q.who)
    IN  /\ At(r, "bind")
        /\ IF q.who \in DOMAIN principal /\ q.id \notin DOMAIN identity
           THEN /\ BindIdentity(q.who, q.id)
                /\ IF q.who \in Active THEN Set(r, bound) ELSE Refuse(r)
           ELSE Refuse(r) /\ UNCHANGED store
        /\ UNCHANGED <<challenge, clock, minted, log>>
        /\ Observe

-----------------------------------------------------------------------------
(* Credentials.                                                            *)

NewCredential(q) ==
    CASE q.op = "register" ->
            [identity |-> q.id, kind |-> "password", key |-> q.login,
             count |-> 0, by |-> q.got]
      [] q.op = "totp_enrollment_verify" ->
            [identity |-> q.id, kind |-> "totp", key |-> None,
             count |-> q.count, by |-> None]
      [] OTHER ->
            [identity |-> q.id, kind |-> "webauthn", key |-> None,
             count |-> 0, by |-> q.got]

(* After the insert: an enrolled TOTP logs in, the others answer.          *)
Written(q) ==
    IF q.op = "totp_enrollment_verify"
    THEN [q EXCEPT !.pc = "find", !.cred = None, !.count = 0]
    ELSE Answer(q, q.got)

WriteCredential(r) ==
    LET q == req[r]
        row == NewCredential(q)
        fresh == IF q.cred = None THEN Fresh(CredentialIds) ELSE {q.cred}
    IN  /\ At(r, "write")
        /\ Insertable(row)
        /\ \E c \in fresh :
              /\ CreateCredential(c, row)
              /\ minted' = minted \cup {c}
              /\ log' = IF row.kind = "totp" THEN Append(log, <<c, row.count>>)
                        ELSE log
        /\ Set(r, Written(q))
        /\ UNCHANGED <<challenge, clock>>
        /\ Observe

(* The insert fails, on a constraint or otherwise: only a registration has *)
(* something to undo.                                                      *)
WriteFails(r) ==
    /\ At(r, "write")
    /\ IF req[r].op = "register" THEN Set(r, [req[r] EXCEPT !.pc = "rollback"])
       ELSE Refuse(r)
    /\ UNCHANGED <<store, challenge, clock, minted, log>>
    /\ Observe

Rollback(r) ==
    LET q == req[r]
    IN  /\ At(r, "rollback")
        /\ RollbackIdentityBinding(q.got, q.id)
        /\ Set(r, [Idle EXCEPT !.op = q.op, !.pc = "undone", !.id = q.id,
                               !.got = q.got, !.made = q.made])
        /\ UNCHANGED <<challenge, clock, minted, log>>
        /\ Observe

(* start_registration only excludes the passkeys it finds;                 *)
(* start_authentication keeps a copy of them in the challenge.             *)
ListPasskeys(r) ==
    LET q == req[r]
        found == ByIdentity(q.id, "webauthn")
        state == [c \in found |-> credential[c].count]
    IN  /\ At(r, "list_passkeys")
        /\ q.op # "webauthn_authentication_verify"
        /\ IF q.op = "webauthn_registration_challenge"
           THEN Set(r, [q EXCEPT !.pc = "put"])
           ELSE IF found = {} THEN Refuse(r)
           ELSE Set(r, [q EXCEPT !.pc = "put", !.login = None, !.state = state])
        /\ UNCHANGED <<store, challenge, clock, minted, log>>
        /\ Observe

(* The ceremony compares the signature counter v with the copy in the      *)
(* challenge, update_credential with the rows just read; an authenticator  *)
(* without a counter always signs 0 and changes nothing.  Of what a        *)
(* passkey holds only the counter is modelled, not the backup flags.       *)
FinishAuthentication(r) ==
    LET q == req[r]
        found == ByIdentity(q.id, "webauthn")
    IN  /\ At(r, "list_passkeys")
        /\ q.op = "webauthn_authentication_verify"
        /\ \E c \in DOMAIN q.state, v \in 0 .. MaxCount :
              /\ (v = 0 /\ q.state[c] = 0) \/ v > q.state[c]
              /\ Set(r, CASE c \notin found -> Idle
                          [] c \in found /\ v = 0 ->
                                [q EXCEPT !.pc = "find", !.state = <<>>]
                          [] c \in found /\ v > credential[c].count ->
                                [q EXCEPT !.pc = "swap", !.cred = c,
                                    !.count = v,
                                    !.state = [x \in {c} |->
                                                 credential[c].count]]
                          [] OTHER -> Idle)
        /\ UNCHANGED <<store, challenge, clock, minted, log>>
        /\ Observe

CompareAndSwap(r) ==
    LET q == req[r]
    IN  /\ At(r, "swap")
        /\ IF CanSwap(q.cred, q.state[q.cred])
           THEN /\ SetCount(q.cred, q.count)
                /\ log' = Append(log, <<q.cred, q.count>>)
                /\ Set(r, [q EXCEPT !.pc = "find", !.cred = None,
                                    !.count = 0, !.state = <<>>])
           ELSE Refuse(r) /\ UNCHANGED <<store, log>>
        /\ UNCHANGED <<challenge, clock, minted>>
        /\ Observe

-----------------------------------------------------------------------------
(* Challenges.                                                             *)

Purpose(op) ==
    CASE op \in {"oauth_authorize", "oauth_callback"} -> "oauth"
      [] op \in {"wallet_challenge", "wallet_verify", "wallet_link"} ->
            "wallet"
      [] op \in {"totp_enrollment_challenge", "totp_enrollment_verify"} ->
            "totp"
      [] op \in {"webauthn_registration_challenge",
                 "webauthn_registration_verify"} -> "registration"
      [] OTHER -> "authentication"

(* The id of the future TOTP credential is drawn with the challenge: its   *)
(* secret is encrypted under it.                                           *)
PutChallenge(r) ==
    LET q == req[r]
        ids == IF Purpose(q.op) = "totp" THEN Fresh(CredentialIds)
               ELSE {None}
    IN  /\ At(r, "put")
        /\ \E k \in Fresh(ChallengeIds), c \in ids :
              /\ minted' = (minted \cup {k, c}) \ {None}
              /\ challenge' = With(challenge, k,
                    [purpose |-> Purpose(q.op), id |-> q.id, who |-> q.who,
                     provider |-> q.provider, amr |-> q.amr, cred |-> c,
                     state |-> q.state])
        /\ Set(r, Answer([q EXCEPT !.id = None, !.amr = {}], None))
        /\ UNCHANGED <<store, clock, log>>
        /\ Observe

Without(k) == challenge' = Restrict(challenge, DOMAIN challenge \ {k})

(* Each verify handler's checks on the challenge it consumed.              *)
Taken(q, ch, n) ==
    CASE q.op = "oauth_callback" ->
            IF ch.provider = q.provider
            THEN [q EXCEPT !.pc = "authenticate", !.who = ch.who] ELSE Idle
      [] q.op \in {"wallet_verify", "wallet_link"} ->
            LinkOrLogin([q EXCEPT !.id = ch.id])
      [] q.op = "totp_enrollment_verify" ->
            [q EXCEPT !.pc = "write", !.id = ch.id, !.cred = ch.cred,
                      !.count = n, !.amr = {"pwd", "otp"}]
      [] q.op = "webauthn_registration_verify" ->
            IF ch.who = q.who
            THEN [q EXCEPT !.pc = "find", !.id = ch.id,
                           !.amr = ch.amr \cup {"webauthn"}]
            ELSE Idle
      [] OTHER ->
            [q EXCEPT !.pc = "list_passkeys", !.id = ch.id,
                      !.state = ch.state, !.amr = {"webauthn"}]

TakeChallenge_Peek(r) ==
    LET q == req[r]
    IN  /\ At(r, "take")
        /\ q.chal \in DOMAIN challenge
        /\ challenge[q.chal].purpose = Purpose(q.op)
        /\ \E n \in Window : Set(r, Taken(q, challenge[q.chal], n))
        /\ UNCHANGED <<store, challenge, clock, minted, log>>
        /\ Observe

(* ICache::take removes what it returns, whatever the handler makes of it. *)
TakeChallenge(r) ==
    LET q == req[r]
    IN  /\ At(r, "take")
        /\ q.chal \in DOMAIN challenge
        /\ challenge[q.chal].purpose = Purpose(q.op)
        /\ Without(q.chal)
        /\ \E n \in Window : Set(r, Taken(q, challenge[q.chal], n))
        /\ UNCHANGED <<store, clock, minted, log>>
        /\ Observe

(* The provider's adapter vouches for one of its accounts.                 *)
AuthenticateAccount(r) ==
    /\ At(r, "authenticate")
    /\ \E a \in profile.accounts :
          /\ Provider(a) = req[r].provider
          /\ Set(r, LinkOrLogin([req[r] EXCEPT !.id = a, !.provider = None]))
    /\ UNCHANGED <<store, challenge, clock, minted, log>>
    /\ Observe

-----------------------------------------------------------------------------
(* A failed proof, a backend error, a lost connection, a stopped process.  *)
Abandon(r) ==
    /\ req[r].pc \notin Ended
    /\ Refuse(r)
    /\ UNCHANGED <<store, challenge, clock, minted, log>>
    /\ Observe

Expire ==
    /\ \E k \in DOMAIN challenge : Without(k)
    /\ UNCHANGED <<store, req, tokens, clock, minted, log>>
    /\ Observe

Tick ==
    /\ clock < profile.lastStep
    /\ clock' = clock + 1
    /\ UNCHANGED <<store, req, challenge, tokens, minted, log>>
    /\ Observe

(* Principal administration in AuthZ, on the same tables.                  *)
SetStatus ==
    /\ "status" \in profile.administration
    /\ \E p \in PrincipalIds, s \in {"active", "disabled"} : UpdateStatus(p, s)
    /\ UNCHANGED <<req, challenge, tokens, clock, minted, log>>
    /\ Observe

Delete ==
    /\ "delete" \in profile.administration
    /\ \E p \in PrincipalIds : DeletePrincipal(p)
    /\ UNCHANGED <<req, challenge, tokens, clock, minted, log>>
    /\ Observe

(* The administrator names the principal, one that was deleted maybe.      *)
Provision ==
    /\ "provision" \in profile.administration
    /\ \E p \in profile.named, s \in {"active", "disabled"}, a \in profile.accounts :
            /\ UpsertWithIdentity(p, s, a)
            /\ minted' = minted \cup {p}
    /\ UNCHANGED <<req, challenge, tokens, clock, log>>
    /\ Observe

Arrive(r) ==
    \/ Register(r) \/ Login(r) \/ TokenExchange(r) \/ Verify(r)
    \/ OAuthAuthorize(r) \/ WalletChallenge(r)
    \/ WebauthnRegistrationChallenge(r) \/ WebauthnAuthenticationChallenge(r)

Proceed(r) ==
    \/ RegisterFindsKey(r) \/ FindByKey(r) \/ ListTotp(r)
    \/ AdvanceTotpCounter(r) \/ FindPrincipalByIdentity(r)
    \/ CreatePrincipal(r) \/ PrincipalHasProvider(r)
    \/ BindExternalIdentity(r) \/ WriteCredential(r) \/ WriteFails(r)
    \/ Rollback(r) \/ ListPasskeys(r) \/ FinishAuthentication(r)
    \/ CompareAndSwap(r) \/ PutChallenge(r) \/ TakeChallenge(r)
    \/ AuthenticateAccount(r)

Next ==
    \/ \E r \in Requests : Arrive(r) \/ Proceed(r) \/ Abandon(r)
    \/ Expire \/ Tick \/ SetStatus \/ Delete \/ Provision

Spec == Init /\ [][Next]_vars

-----------------------------------------------------------------------------
(* Every table, request and challenge keeps its shape.                     *)
TypeOK ==
    /\ StoreTypeOK
    /\ \A r \in Requests :
          /\ req[r].op \in profile.operations \cup {"none"}
          /\ req[r].id \in Identities \cup {None}
          /\ req[r].who \in PrincipalIds \cup {None}
          /\ req[r].got \in PrincipalIds \cup {None}
          /\ req[r].count \in 0 .. MaxCount
          /\ DOMAIN req[r].state \subseteq CredentialIds
    /\ DOMAIN challenge \subseteq ChallengeIds
    /\ tokens \subseteq PrincipalIds
    /\ clock \in 0 .. MaxStep
    /\ minted \subseteq PrincipalIds \cup Subjects \cup Accounts
                          \cup CredentialIds \cup ChallengeIds

(* One-time proofs: of one credential, every accepted TOTP step and every  *)
(* accepted signature counter is larger than all accepted before it, the   *)
(* step that enrolled a TOTP credential included.  So no code and no       *)
(* assertion is accepted twice, in whichever processes the two requests    *)
(* run (advance_totp_counter, compare_and_swap_credential_data).           *)
ProofsAdvance ==
    \A m, n \in DOMAIN log :
        m < n /\ log[m][1] = log[n][1] => log[m][2] < log[n][2]

(* A request is never answered with a token for a principal that was       *)
(* disabled or absent all the while the request ran: whichever handler it  *)
(* is, the status is read from the database after the request arrived.     *)
TokensNeedAnActivePrincipal ==
    \A r \in Requests :
        req[r].pc = "answered" => req[r].got \in live[r] \cup {None}

(* Password alone never opens an account that had a second factor when the *)
(* login began, although the TOTP credentials are listed in a later query  *)
(* than the password and the principal resolved in a later one still.      *)
SecondFactorGuardsOwner ==
    \A r \in Requests :
        /\ req[r].pc = "answered"
        /\ req[r].op = "login"
        /\ <<req[r].id, req[r].got>> \in guarded[r]
        => "otp" \in req[r].amr

(* Repeated logins with one identity agree: what a client was told of an   *)
(* identity stays true until that principal is deleted, also for the       *)
(* requests that raced to be the first login, linked it or registered it.  *)
AnswersStayTrue ==
    \A r \in Requests :
        /\ req[r].pc = "answered"
        /\ req[r].id # None
        /\ req[r].got \notin gone[r] \cup {None}
        => Owner(req[r].id) = req[r].got

(* A registration that was rolled back leaves no binding of the subject it *)
(* drew, and no principal of its own unless something else is bound to it. *)
UndoneLeavesNothing ==
    \A r \in Requests :
        req[r].pc = "undone" =>
            /\ req[r].id \notin DOMAIN identity
            /\ req[r].made /\ req[r].got \in DOMAIN principal
                  => IdentitiesOf(req[r].got) # {}

(* rollback_identity_binding never deletes a principal the registration    *)
(* did not create, such as the one whose session asked for the link.       *)
RollbackSparesOthers ==
    [][\A r \in Requests :
          At(r, "rollback") /\ req'[r].pc = "undone" /\ ~ req[r].made
             => DOMAIN principal' = DOMAIN principal]_vars

(* Whatever is linked to a principal is allowed by another identity that   *)
(* the principal has, or was when link_identity asked and that identity    *)
(* has gone since: with a registration that was rolled back, or with the   *)
(* principal, when its id was given out again before the insert.           *)
LinksFollowPolicy ==
    \A i \in DOMAIN identity :
        identity[i].via = "linked" =>
            \/ \E j \in IdentitiesOf(Owner(i)) \ {i} : Permits(j, i)
            \/ <<Owner(i), i>> \in orphaned

(* No two requests go on from the same challenge, even when they ask for   *)
(* it at the same time.                                                    *)
ChallengesAreSingleUse ==
    \A r, s \in Requests :
        /\ r # s
        /\ req[r].chal # None
        /\ req[r].chal = req[s].chal
        => At(r, "take") \/ At(s, "take")

(* A passkey belongs to the principal whose step-up enrolled it.           *)
PasskeysFollowStepUp ==
    \A c \in DOMAIN credential :
        credential[c].kind = "webauthn" =>
            Owner(credential[c].identity) = credential[c].by
=============================================================================
