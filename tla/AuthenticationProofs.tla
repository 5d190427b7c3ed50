------------------------ MODULE AuthenticationProofs ------------------------
(***************************************************************************)
(* What the AuthN handlers promise for any number of concurrent requests,  *)
(* for every deployment and for every set of identifiers.                  *)
(***************************************************************************)
EXTENDS Authentication, TLAPS

-----------------------------------------------------------------------------
(* The inductive invariant.                                                *)

(* Handlers of the standalone provider work on subjects, the others on the *)
(* accounts of outside providers.                                          *)
StandaloneOps ==
    {"register", "login", "totp_enrollment_challenge", "totp_enrollment_verify",
     "webauthn_registration_challenge", "webauthn_registration_verify",
     "webauthn_authentication_challenge", "webauthn_authentication_verify"}
AccountOps == Handlers \ StandaloneOps

Phases ==
    {"idle", "find_key", "put", "authenticate", "take", "find", "create", "permit",
     "bind", "list_totp", "advance", "list_passkeys", "swap", "write", "rollback",
     "undone", "answered"}

(* The phases that only some handlers pass through.                        *)
PhaseOfOp(op, pc) ==
    /\ pc = "put" => op \in {"oauth_authorize", "wallet_challenge", "totp_enrollment_challenge",
                             "webauthn_registration_challenge",
                             "webauthn_authentication_challenge"}
    /\ pc = "find_key" => op \in {"register", "login", "totp_enrollment_challenge",
                                  "webauthn_registration_challenge",
                                  "webauthn_authentication_challenge"}
    /\ pc = "take" => op \in {"totp_enrollment_verify", "webauthn_registration_verify",
                              "webauthn_authentication_verify", "oauth_callback",
                              "wallet_verify", "wallet_link"}
    /\ pc = "authenticate" => op \in {"token_exchange", "oauth_callback"}
    /\ pc \in {"list_totp", "advance"} =>
          op \in {"login", "totp_enrollment_challenge", "webauthn_registration_challenge"}
    /\ pc = "list_passkeys" => op \in {"webauthn_registration_challenge",
                                       "webauthn_authentication_challenge",
                                       "webauthn_authentication_verify"}
    /\ pc = "swap" => op = "webauthn_authentication_verify"
    /\ pc = "write" => op \in {"register", "totp_enrollment_verify",
                               "webauthn_registration_verify"}
    /\ pc \in {"rollback", "undone"} => op = "register"
    /\ pc \in {"permit", "bind"} => op \in {"register"} \cup AccountOps

Providers ==
    {Provider(a) : a \in Identities} \cup UNION {DOMAIN f.allowLink : f \in Profiles}
States == UNION {[S -> 0 .. MaxCount] : S \in SUBSET CredentialIds}
Amr == {"pwd", "otp", "webauthn"}

RequestRow ==
    [op : Handlers \cup {"none"}, pc : Phases, login : Logins \cup {None},
     id : Identities \cup {None}, who : PrincipalIds \cup {None},
     got : PrincipalIds \cup {None}, made : BOOLEAN, amr : SUBSET Amr,
     cred : CredentialIds \cup {None}, count : 0 .. MaxCount, todo : SUBSET Providers,
     provider : Providers \cup {None}, chal : ChallengeIds \cup {None}, state : States]

ChallengeRow ==
    [purpose : {"oauth", "wallet", "totp", "registration", "authentication"},
     id : Identities \cup {None}, who : PrincipalIds \cup {None},
     provider : Providers \cup {None}, amr : SUBSET Amr,
     cred : CredentialIds \cup {None}, state : States]

(* The phases that have an identity in hand, of the handler's own kind.    *)
IdKnown == {"find", "create", "permit", "bind", "list_totp", "advance", "list_passkeys",
            "swap", "write", "rollback", "undone"}

RequestOK(q) ==
    /\ q \in RequestRow
    /\ PhaseOfOp(q.op, q.pc)
    /\ q.op \in StandaloneOps => q.id \in Subjects \cup {None}
    /\ q.op \in AccountOps => q.id \in Accounts \cup {None}
    /\ q.pc \in IdKnown => q.id # None
    /\ q.pc = "put" /\ q.op # "oauth_authorize" => q.id # None
    /\ q.pc \in {"permit", "bind"} => q.who # None
    /\ q.got # None => /\ q.pc \in {"write", "rollback", "undone", "answered"}
                       /\ q.op # "totp_enrollment_verify" \/ q.pc # "write"
    /\ q.pc \in {"write", "rollback"} /\ q.op = "register" => q.got # None
    /\ q.cred # None <=> \/ q.pc \in {"advance", "swap"}
                         \/ q.pc = "write" /\ q.op = "totp_enrollment_verify"
    /\ q.pc = "swap" => q.state[q.cred] \in Nat /\ q.state[q.cred] < q.count
    /\ q.pc = "take" => q.chal # None

ChallengeOK(ch) ==
    /\ ch \in ChallengeRow
    /\ ch.purpose = "wallet" => ch.id \in Accounts
    /\ ch.purpose \in {"totp", "registration", "authentication"} => ch.id \in Subjects
    /\ ch.cred # None <=> ch.purpose = "totp"

Shape ==
    /\ StoreTypeOK
    /\ profile \in Profiles
    /\ req \in [Requests -> RequestRow]
    /\ \A r \in Requests : RequestOK(req[r]) /\ req[r].op \in profile.operations \cup {"none"}
    /\ DOMAIN challenge \subseteq ChallengeIds
    /\ \A k \in DOMAIN challenge : ChallengeOK(challenge[k])
    /\ tokens \subseteq PrincipalIds
    /\ clock \in 0 .. MaxStep
    /\ minted \subseteq PrincipalIds \cup Subjects \cup Accounts
                          \cup CredentialIds \cup ChallengeIds
    /\ log \in Seq(CredentialIds \X (0 .. MaxCount))
    /\ live \in [Requests -> SUBSET PrincipalIds]
    /\ guarded \in [Requests -> SUBSET (Subjects \X PrincipalIds)]

(* The foreign keys.                                                       *)
References ==
    /\ \A i \in DOMAIN identity : identity[i].owner \in DOMAIN principal
    /\ \A c \in DOMAIN credential : credential[c].identity \in DOMAIN identity

(* Whatever identifier is in use was drawn or there from the start, so it  *)
(* is never drawn again.                                                   *)
InUseIsMinted ==
    /\ DOMAIN principal \cup tokens \cup DOMAIN credential \cup DOMAIN challenge
          \subseteq minted
    /\ DOMAIN identity \cap Subjects \subseteq minted
    /\ \A r \in Requests :
          /\ {req[r].who, req[r].got, req[r].chal, req[r].cred} \subseteq minted \cup {None}
          /\ req[r].id \in Subjects => req[r].id \in minted
          /\ \A g \in guarded[r] : g[1] \in minted /\ g[2] \in minted
    /\ \A k \in DOMAIN challenge :
          /\ {challenge[k].who, challenge[k].cred} \subseteq minted \cup {None}
          /\ challenge[k].id \in Subjects => challenge[k].id \in minted
    /\ \A n \in DOMAIN log : log[n][1] \in minted

(* Sessions come from tokens.                                              *)
SessionsHoldTokens ==
    /\ \A r \in Requests : req[r].who \in tokens \cup {None}
    /\ \A k \in DOMAIN challenge : challenge[k].who \in tokens \cup {None}

(* Until a registration is answered nobody else knows the subject it drew: *)
(* no request, challenge, credential or history.                           *)
Sole(r) == req[r].op = "register" /\ req[r].id # None /\ req[r].pc # "answered"

SubjectsAreSole ==
    \A r \in Requests : Sole(r) =>
        /\ \A s \in Requests \ {r} : req[s].id # req[r].id
        /\ \A k \in DOMAIN challenge : challenge[k].id # req[r].id
        /\ \A c \in DOMAIN credential : credential[c].identity # req[r].id
        /\ \A s \in Requests : \A g \in guarded[s] : g[1] # req[r].id

(* Such a subject is unbound, or bound to the principal of the request.    *)
SoleIsUnbound ==
    \A r \in Requests : Sole(r) =>
        /\ req[r].pc \in {"find", "create", "permit", "bind", "undone"} =>
              req[r].id \notin DOMAIN identity
        /\ req[r].pc \in {"write", "rollback"} /\ req[r].id \in DOMAIN identity =>
              identity[req[r].id].owner = req[r].got

(* Who is about to write a credential, or take it back, for a principal    *)
(* that it did not create has the principal from a session.                *)
MadeOrLinked ==
    \A r \in Requests :
        /\ req[r].pc \in {"write", "rollback"}
        /\ req[r].got # None
        /\ req[r].op = "register" => ~ req[r].made
        => req[r].got = req[r].who

(* Who holds a token has an identity that no rollback can take away.       *)
Settled(p) == {i \in IdentitiesOf(p) : \A r \in Requests : Sole(r) => req[r].id # i}
TokensAreSettled == \A p \in tokens \cap DOMAIN principal : Settled(p) # {}

(* AnswersStayTrue before the answer is given.                             *)
ResolvedStaysTrue ==
    \A r \in Requests :
        /\ req[r].pc # "undone"
        /\ req[r].id # None
        /\ req[r].got \notin gone[r] \cup {None}
        => Owner(req[r].id) = req[r].got

(* The credential whose id was drawn with a challenge: nobody else has the *)
(* id until the enrolment writes it.                                       *)
Enrols(r) == req[r].pc = "write" /\ req[r].op = "totp_enrollment_verify"
Reserves(k) == challenge[k].purpose = "totp"
Unused(c) == c \notin DOMAIN credential /\ \A n \in DOMAIN log : log[n][1] # c
ReservedIsUnused ==
    /\ \A r \in Requests : Enrols(r) =>
          /\ Unused(req[r].cred)
          /\ \A s \in Requests \ {r} : Enrols(s) => req[s].cred # req[r].cred
          /\ \A k \in DOMAIN challenge : Reserves(k) => challenge[k].cred # req[r].cred
    /\ \A k \in DOMAIN challenge : Reserves(k) =>
          /\ Unused(challenge[k].cred)
          /\ \A l \in DOMAIN challenge \ {k} :
                Reserves(l) => challenge[l].cred # challenge[k].cred

(* A stored counter is never behind what was accepted as proof.            *)
CountersCoverLog ==
    \A n \in DOMAIN log :
        log[n][1] \in DOMAIN credential => log[n][2] <= credential[log[n][1]].count

(* ChallengesAreSingleUse: a challenge somebody goes on from is gone.      *)
TakenIsGone ==
    \A r \in Requests :
        req[r].chal # None /\ req[r].pc # "take" => req[r].chal \notin DOMAIN challenge

(* TokensNeedAnActivePrincipal before the answer is given.                 *)
GotWasLive == \A r \in Requests : req[r].got \in live[r] \cup {None}

(* SecondFactorGuardsOwner: while an identity keeps the owner it had when  *)
(* the login began, it keeps its second factor.                            *)
GuardedKeepsFactor ==
    \A r \in Requests : \A g \in guarded[r] :
        Owner(g[1]) = g[2] => ByIdentity(g[1], "totp") # {}
PasswordAloneIsUnguarded ==
    \A r \in Requests :
        /\ req[r].op = "login"
        /\ "otp" \notin req[r].amr
        => /\ req[r].pc \in {"find", "create"} =>
                 \A g \in guarded[r] : g[1] = req[r].id => Owner(g[1]) # g[2]
           /\ req[r].pc = "answered" => <<req[r].id, req[r].got>> \notin guarded[r]

IInv ==
    /\ Shape
    /\ References
    /\ InUseIsMinted
    /\ SessionsHoldTokens
    /\ SubjectsAreSole
    /\ SoleIsUnbound
    /\ MadeOrLinked
    /\ TokensAreSettled
    /\ ResolvedStaysTrue
    /\ UndoneLeavesNothing
    /\ ReservedIsUnused
    /\ CountersCoverLog
    /\ ProofsAdvance
    /\ TakenIsGone
    /\ ChallengesAreSingleUse
    /\ GotWasLive
    /\ GuardedKeepsFactor
    /\ PasswordAloneIsUnguarded

(* LinksFollowPolicy while the permission is on its way.                   *)
BindIsPermitted ==
    \A r \in Requests :
        req[r].pc = "bind" =>
            \/ \E j \in IdentitiesOf(req[r].who) : Permits(j, req[r].id)
            \/ <<req[r].who, req[r].id>> \in orphaned

-----------------------------------------------------------------------------
(* Facts about the data.                                                   *)

(* No state is a state.                                                    *)
LEMMA EmptyState == <<>> \in States
  <1>1. <<>> \in [{} -> 0 .. MaxCount]
    OBVIOUS
  <1>2. QED
    BY <1>1 DEF States

(* The copy of the counters of some credentials is a state.                *)
LEMMA CopyIsState ==
    ASSUME StoreTypeOK, NEW S \in SUBSET DOMAIN credential
    PROVE  [c \in S |-> credential[c].count] \in States
  <1>1. S \in SUBSET CredentialIds
    BY DEF StoreTypeOK
  <1>2. [c \in S |-> credential[c].count] \in [S -> 0 .. MaxCount]
    BY DEF StoreTypeOK, CredentialRow
  <1>3. QED
    BY <1>1, <1>2 DEF States

(* A state has the counters of some credentials.                           *)
LEMMA StateDomain ==
    ASSUME NEW st \in States
    PROVE  DOMAIN st \subseteq CredentialIds /\ \A c \in DOMAIN st : st[c] \in 0 .. MaxCount
  BY DEF States

(* A request keeps its shape when one field is replaced.                   *)
LEMMA RowExcept ==
    ASSUME NEW q \in RequestRow
    PROVE  /\ \A v \in Handlers \cup {"none"} : [q EXCEPT !.op = v] \in RequestRow
           /\ \A v \in Phases : [q EXCEPT !.pc = v] \in RequestRow
           /\ \A v \in Logins \cup {None} : [q EXCEPT !.login = v] \in RequestRow
           /\ \A v \in Identities \cup {None} : [q EXCEPT !.id = v] \in RequestRow
           /\ \A v \in PrincipalIds \cup {None} : [q EXCEPT !.who = v] \in RequestRow
           /\ \A v \in PrincipalIds \cup {None} : [q EXCEPT !.got = v] \in RequestRow
           /\ \A v \in BOOLEAN : [q EXCEPT !.made = v] \in RequestRow
           /\ \A v \in SUBSET Amr : [q EXCEPT !.amr = v] \in RequestRow
           /\ \A v \in CredentialIds \cup {None} : [q EXCEPT !.cred = v] \in RequestRow
           /\ \A v \in 0 .. MaxCount : [q EXCEPT !.count = v] \in RequestRow
           /\ \A v \in SUBSET Providers : [q EXCEPT !.todo = v] \in RequestRow
           /\ \A v \in Providers \cup {None} : [q EXCEPT !.provider = v] \in RequestRow
           /\ \A v \in ChallengeIds \cup {None} : [q EXCEPT !.chal = v] \in RequestRow
           /\ \A v \in States : [q EXCEPT !.state = v] \in RequestRow
  BY DEF RequestRow

(* The request that waits for nothing.                                     *)
LEMMA IdleOK == RequestOK(Idle)
  <1>1. Idle \in RequestRow
    BY EmptyState, StoreAssumption DEF Idle, RequestRow, Phases
  <1>2. QED
    BY <1>1 DEF Idle, RequestOK, PhaseOfOp, StandaloneOps, AccountOps, Handlers, IdKnown

-----------------------------------------------------------------------------
(* What the steps do to a request.                                         *)

(* A request as it arrives.                                                *)
Arrival(q) ==
    /\ q.pc \in {"find_key", "put", "authenticate", "take"}
    /\ q.got = None /\ q.cred = None /\ ~ q.made /\ q.amr = {}
    /\ q.id \in Accounts \cup {None}
    /\ q.op = "register" => q.id = None
    /\ q.who \in tokens \cup {None}
    /\ q.chal \in DOMAIN challenge \cup {None}
    /\ q.chal # None <=> q.pc = "take"

(* Every request arrives in a proper shape, knowing nothing but its        *)
(* session, its challenge or the account it asks a wallet challenge for.   *)
LEMMA ArriveIsBegin ==
    ASSUME Shape, NEW r \in Requests, Arrive(r)
    PROVE  \E q : Begin(r, q) /\ RequestOK(q) /\ Arrival(q)
  <1>1. OAuthProviders \subseteq Providers /\ profile.accounts \subseteq Accounts
    BY AuthenticationAssumption DEF Shape, OAuthProviders, Providers, Identities
  <1>2. /\ None \notin ChallengeIds /\ None \notin Accounts
        /\ DOMAIN challenge \subseteq ChallengeIds
        /\ tokens \subseteq PrincipalIds
        /\ 0 \in 0 .. MaxCount
    BY AuthenticationAssumption, StoreAssumption DEF Shape, Identities
  <1> USE <1>1, <1>2, EmptyState DEF RequestOK, RequestRow, Arrival, PhaseOfOp, StandaloneOps,
      AccountOps, Handlers, IdKnown, Phases, Identities, Session, Idle
  <1>3. CASE Register(r)
    <2> DEFINE q(l, w) ==
                 [Idle EXCEPT !.op = "register", !.pc = "find_key", !.login = l, !.who = w]
    <2>1. PICK l \in Logins, w \in Session :
             Begin(r, q(l, w))
      BY <1>3, Zenon DEF Register
    <2>2. RequestOK(q(l, w))
      OBVIOUS
    <2>3. Arrival(q(l, w))
      OBVIOUS
    <2>4. QED
      BY <2>1, <2>2, <2>3, Zenon
  <1>4. CASE Login(r)
    <2> DEFINE q(l, op) ==
                 [Idle EXCEPT !.op = op, !.pc = "find_key", !.login = l]
    <2>1. PICK l \in Logins, op \in {"login", "totp_enrollment_challenge"} :
             Begin(r, q(l, op))
      BY <1>4, Zenon DEF Login
    <2>2. RequestOK(q(l, op))
      OBVIOUS
    <2>3. Arrival(q(l, op))
      OBVIOUS
    <2>4. QED
      BY <2>1, <2>2, <2>3, Zenon
  <1>5. CASE WebauthnRegistrationChallenge(r)
    <2> DEFINE q(l, w) ==
                 [Idle EXCEPT !.op = "webauthn_registration_challenge", !.pc = "find_key",
                              !.login = l, !.who = w]
    <2>1. PICK l \in Logins, w \in tokens :
             Begin(r, q(l, w))
      BY <1>5, Zenon DEF WebauthnRegistrationChallenge
    <2>2. RequestOK(q(l, w))
      OBVIOUS
    <2>3. Arrival(q(l, w))
      OBVIOUS
    <2>4. QED
      BY <2>1, <2>2, <2>3, Zenon
  <1>6. CASE WebauthnAuthenticationChallenge(r)
    <2> DEFINE q(l) ==
                 [Idle EXCEPT !.op = "webauthn_authentication_challenge", !.pc = "find_key",
                              !.login = l]
    <2>1. PICK l \in Logins :
             Begin(r, q(l))
      BY <1>6, Zenon DEF WebauthnAuthenticationChallenge
    <2>2. RequestOK(q(l))
      OBVIOUS
    <2>3. Arrival(q(l))
      OBVIOUS
    <2>4. QED
      BY <2>1, <2>2, <2>3, Zenon
  <1>7. CASE OAuthAuthorize(r)
    <2> DEFINE q(pr, w) ==
                 [Idle EXCEPT !.op = "oauth_authorize", !.pc = "put", !.provider = pr, !.who = w]
    <2>1. PICK pr \in OAuthProviders, w \in Session :
             Begin(r, q(pr, w))
      BY <1>7, Zenon DEF OAuthAuthorize
    <2>2. RequestOK(q(pr, w))
      OBVIOUS
    <2>3. Arrival(q(pr, w))
      OBVIOUS
    <2>4. QED
      BY <2>1, <2>2, <2>3, Zenon
  <1>8. CASE WalletChallenge(r)
    <2> DEFINE q(a) ==
                 [Idle EXCEPT !.op = "wallet_challenge", !.pc = "put", !.id = a]
    <2>1. PICK a \in profile.accounts :
             Begin(r, q(a))
      BY <1>8, Zenon DEF WalletChallenge
    <2>2. RequestOK(q(a))
      OBVIOUS
    <2>3. Arrival(q(a))
      OBVIOUS
    <2>4. QED
      BY <2>1, <2>2, <2>3, Zenon
  <1>9. CASE TokenExchange(r)
    <2> DEFINE q(pr) ==
                 [Idle EXCEPT !.op = "token_exchange", !.pc = "authenticate", !.provider = pr]
    <2>1. PICK pr \in OAuthProviders :
             Begin(r, q(pr))
      BY <1>9, Zenon DEF TokenExchange
    <2>2. RequestOK(q(pr))
      OBVIOUS
    <2>3. Arrival(q(pr))
      OBVIOUS
    <2>4. QED
      BY <2>1, <2>2, <2>3, Zenon
  <1>10. CASE \E k \in DOMAIN challenge, op \in {"totp_enrollment_verify", "wallet_verify",
                                            "webauthn_authentication_verify"} :
                Begin(r, [Idle EXCEPT !.op = op, !.pc = "take", !.chal = k])
    <2> DEFINE q(k, op) ==
                 [Idle EXCEPT !.op = op, !.pc = "take", !.chal = k]
    <2>1. PICK k \in DOMAIN challenge, op \in {"totp_enrollment_verify", "wallet_verify",
                                            "webauthn_authentication_verify"} :
             Begin(r, q(k, op))
      BY <1>10, Zenon
    <2>2. RequestOK(q(k, op))
      OBVIOUS
    <2>3. Arrival(q(k, op))
      OBVIOUS
    <2>4. QED
      BY <2>1, <2>2, <2>3, Zenon
  <1>11. CASE \E k \in DOMAIN challenge, w \in tokens,
                 op \in {"webauthn_registration_verify", "wallet_link"} :
                Begin(r, [Idle EXCEPT !.op = op, !.pc = "take", !.chal = k, !.who = w])
    <2> DEFINE q(k, w, op) ==
                 [Idle EXCEPT !.op = op, !.pc = "take", !.chal = k, !.who = w]
    <2>1. PICK k \in DOMAIN challenge, w \in tokens,
               op \in {"webauthn_registration_verify", "wallet_link"} :
             Begin(r, q(k, w, op))
      BY <1>11, Zenon
    <2>2. RequestOK(q(k, w, op))
      OBVIOUS
    <2>3. Arrival(q(k, w, op))
      OBVIOUS
    <2>4. QED
      BY <2>1, <2>2, <2>3, Zenon
  <1>12. CASE \E k \in DOMAIN challenge, pr \in OAuthProviders :
                Begin(r, [Idle EXCEPT !.op = "oauth_callback", !.pc = "take", !.chal = k,
                                      !.provider = pr])
    <2> DEFINE q(k, pr) ==
                 [Idle EXCEPT !.op = "oauth_callback", !.pc = "take", !.chal = k, !.provider = pr]
    <2>1. PICK k \in DOMAIN challenge, pr \in OAuthProviders :
             Begin(r, q(k, pr))
      BY <1>12, Zenon
    <2>2. RequestOK(q(k, pr))
      OBVIOUS
    <2>3. Arrival(q(k, pr))
      OBVIOUS
    <2>4. QED
      BY <2>1, <2>2, <2>3, Zenon
  <1>13. QED
    BY <1>3, <1>4, <1>5, <1>6, <1>7, <1>8, <1>9, <1>10, <1>11, <1>12, Zenon
       DEF Arrive, Verify

(* An answer is a request in proper shape.                                 *)
LEMMA AnswerOK ==
    ASSUME NEW q, RequestOK(q), NEW p \in PrincipalIds \cup {None}
    PROVE  RequestOK(Answer(q, p))
  <1> DEFINE a == Answer(q, p)
  <1>1. a \in RequestRow
    <2>1. /\ q.op \in Handlers \cup {"none"}
          /\ q.id \in Identities \cup {None}
          /\ q.amr \in SUBSET Amr
          /\ q.chal \in ChallengeIds \cup {None}
      BY DEF RequestOK, RequestRow
    <2>2. 0 \in 0 .. MaxCount
      BY StoreAssumption
    <2>3. QED
      BY <2>1, <2>2, EmptyState DEF Answer, RequestRow, Idle, Phases
  <1>2. a.op = q.op /\ a.pc = "answered" /\ a.id = q.id /\ a.cred = None
    BY DEF Answer, Idle
  <1> HIDE DEF a
  <1>3. QED
    BY <1>1, <1>2 DEF a, RequestOK, PhaseOfOp, IdKnown

(* So is the request that goes on with an identity, to link or to log in.  *)
LEMMA LinkOrLoginOK ==
    ASSUME Shape, NEW q \in RequestRow, NEW i \in Identities,
           q.op \in StandaloneOps => i \in Subjects,
           q.op \in AccountOps => i \in Accounts,
           q.op \in {"register"} \cup AccountOps,
           q.got = None, q.cred = None, NEW q1 \in RequestRow,
           q1.op = q.op, q1.who = q.who, q1.id = i, q1.got = None, q1.cred = None
    PROVE  RequestOK(LinkOrLogin(q1))
  <1>1. DOMAIN AllowLink \subseteq Providers
    BY DEF Shape, Providers, AllowLink
  <1>2. i # None
    BY StoreAssumption
  <1>3. LinkOrLogin(q1) \in RequestRow
    BY <1>1, RowExcept DEF LinkOrLogin, Phases
  <1> DEFINE y == LinkOrLogin(q1)
  <1>4. /\ y.op = q.op /\ y.who = q.who /\ y.id = i /\ y.got = None /\ y.cred = None
        /\ IF q.who = None THEN y.pc = "find" ELSE y.pc = "permit"
    BY DEF LinkOrLogin, RequestRow
  <1> HIDE DEF y
  <1>5. QED
    BY <1>2, <1>3, <1>4 DEF y, RequestOK, PhaseOfOp, IdKnown

(* And the one that knows its principal.                                   *)
LEMMA ResolvedOK ==
    ASSUME NEW q, RequestOK(q), q.pc \in {"find", "create"}, NEW p \in PrincipalIds
    PROVE  RequestOK(Resolved(q, p))
  <1>1. CASE \/ q.op = "register"
             \/ q.op = "webauthn_registration_verify" /\ p = q.who
    <2>1. Resolved(q, p) = [q EXCEPT !.pc = "write", !.got = p]
      BY <1>1 DEF Resolved
    <2> DEFINE y == Resolved(q, p)
    <2>2. q \in RequestRow /\ "write" \in Phases
      BY DEF RequestOK, Phases
    <2>3. y \in RequestRow
      <3>1. [q EXCEPT !.pc = "write"] \in RequestRow
        BY <2>2, RowExcept
      <3>2. QED
        BY <2>1, <3>1, RowExcept
    <2>4. y.op = q.op /\ y.pc = "write" /\ y.id = q.id /\ y.got = p /\ y.cred = q.cred
      BY <2>1, <2>2 DEF RequestRow
    <2> HIDE DEF y
    <2>5. QED
      BY <1>1, <2>3, <2>4, StoreAssumption DEF y, RequestOK, PhaseOfOp, IdKnown
  <1>2. CASE q.op = "webauthn_registration_challenge" /\ p = q.who
    <2>1. Resolved(q, p) = [q EXCEPT !.pc = "list_passkeys"]
      BY <1>2 DEF Resolved
    <2>2. QED
      BY <1>2, <2>1, StoreAssumption DEF RequestOK, RequestRow, PhaseOfOp, IdKnown, Phases,
         StandaloneOps, AccountOps
  <1>3. CASE q.op \in {"webauthn_registration_challenge", "webauthn_registration_verify"}
             /\ p # q.who
    BY <1>3, IdleOK DEF Resolved
  <1>4. CASE q.op \notin {"register", "webauthn_registration_challenge",
                          "webauthn_registration_verify"}
    <2>1. Resolved(q, p) = Answer(q, p)
      BY <1>4 DEF Resolved
    <2>2. QED
      BY <2>1, AnswerOK
  <1>5. QED
    BY <1>1, <1>2, <1>3, <1>4

(* Authentication by password or by password and TOTP.                     *)
LEMMA AuthenticatedOK ==
    ASSUME NEW q, RequestOK(q), q.pc \in {"list_totp", "advance"}, NEW amr \in SUBSET Amr
    PROVE  RequestOK(Authenticated(q, amr))
  <1> DEFINE y == Authenticated(q, amr)
  <1>1. y \in RequestRow
    <2>1. q \in RequestRow /\ 0 \in 0 .. MaxCount
      BY StoreAssumption DEF RequestOK
    <2>2. QED
      BY <2>1, RowExcept DEF Authenticated, Phases
  <1>2. /\ y.op = q.op /\ y.who = q.who /\ y.id = q.id /\ y.got = q.got /\ y.cred = None
        /\ y.pc = IF q.op = "totp_enrollment_challenge" THEN "put" ELSE "find"
    BY DEF Authenticated, RequestOK, RequestRow
  <1> HIDE DEF y
  <1>3. QED
    BY <1>1, <1>2 DEF y, RequestOK, PhaseOfOp, IdKnown

(* What a verify handler makes of a challenge of its own purpose.          *)
LEMMA TakenOK ==
    ASSUME Shape, NEW q, RequestOK(q), q.pc = "take", NEW ch, ChallengeOK(ch),
           ch.purpose = Purpose(q.op), NEW n \in 0 .. MaxCount
    PROVE  RequestOK(Taken(q, ch, n))
  <1>1. q.op \in {"totp_enrollment_verify", "webauthn_registration_verify",
                  "webauthn_authentication_verify", "oauth_callback", "wallet_verify",
                  "wallet_link"}
    BY DEF RequestOK, PhaseOfOp
  <1>2. CASE q.op = "oauth_callback"
    <2>1. CASE ch.provider = q.provider
      <3>1. Taken(q, ch, n) = [q EXCEPT !.pc = "authenticate", !.who = ch.who]
        BY <1>2, <2>1 DEF Taken
      <3>2. QED
        BY <1>2, <3>1 DEF RequestOK, RequestRow, PhaseOfOp, IdKnown, Phases, StandaloneOps,
           AccountOps, ChallengeOK, ChallengeRow
    <2>2. CASE ch.provider # q.provider
      BY <1>2, <2>2, IdleOK DEF Taken
    <2>3. QED
      BY <2>1, <2>2
  <1>3. CASE q.op \in {"wallet_verify", "wallet_link"}
    <2>1. Taken(q, ch, n) = LinkOrLogin([q EXCEPT !.id = ch.id])
      BY <1>3 DEF Taken
    <2>2. ch.id \in Accounts
      BY <1>3 DEF Purpose, ChallengeOK
    <2>3. /\ q \in RequestRow /\ [q EXCEPT !.id = ch.id] \in RequestRow
          /\ q.got = None /\ q.cred = None
          /\ q.op \in AccountOps /\ q.op \notin StandaloneOps
      BY <1>3, <2>2 DEF RequestOK, RequestRow, AccountOps, Handlers, StandaloneOps, Identities
    <2>4. QED
      BY <2>1, <2>2, <2>3, LinkOrLoginOK DEF RequestRow, Identities
  <1>4. CASE q.op = "totp_enrollment_verify"
    <2>1. Taken(q, ch, n) = [q EXCEPT !.pc = "write", !.id = ch.id, !.cred = ch.cred,
                                      !.count = n, !.amr = {"pwd", "otp"}]
      BY <1>4 DEF Taken
    <2>2. ch.id \in Subjects /\ ch.cred \in CredentialIds /\ ch.cred # None
      BY <1>4, StoreAssumption DEF Purpose, ChallengeOK, ChallengeRow
    <2> DEFINE y == Taken(q, ch, n)
    <2>3. y \in RequestRow
      <3>1. q \in RequestRow
        BY DEF RequestOK
      <3>2. /\ "write" \in Phases
            /\ ch.id \in Identities \cup {None}
            /\ ch.cred \in CredentialIds \cup {None}
            /\ {"pwd", "otp"} \in SUBSET Amr
        BY <2>2 DEF Phases, Identities, Amr
      <3> DEFINE y1 == [q EXCEPT !.pc = "write"]
                 y2 == [y1 EXCEPT !.id = ch.id]
                 y3 == [y2 EXCEPT !.cred = ch.cred]
                 y4 == [y3 EXCEPT !.count = n]
                 y5 == [y4 EXCEPT !.amr = {"pwd", "otp"}]
      <3>3. y1 \in RequestRow
        BY <3>1, <3>2, RowExcept
      <3>4. y2 \in RequestRow
        BY <3>3, <3>2, RowExcept
      <3>5. y3 \in RequestRow
        BY <3>4, <3>2, RowExcept
      <3>6. y4 \in RequestRow
        BY <3>5, <3>2, RowExcept
      <3>7. y5 \in RequestRow
        BY <3>6, <3>2, RowExcept
      <3>8. QED
        BY <2>1, <3>7
    <2>4. y.op = q.op /\ y.pc = "write" /\ y.id = ch.id /\ y.got = q.got /\ y.cred = ch.cred
      BY <2>1 DEF RequestOK, RequestRow
    <2> HIDE DEF y
    <2>5. QED
      BY <1>4, <2>2, <2>3, <2>4, StoreAssumption DEF y, RequestOK, PhaseOfOp, IdKnown,
         StandaloneOps, AccountOps, Identities
  <1>5. CASE q.op = "webauthn_registration_verify"
    <2>1. CASE ch.who = q.who
      <3>1. Taken(q, ch, n) = [q EXCEPT !.pc = "find", !.id = ch.id,
                                        !.amr = ch.amr \cup {"webauthn"}]
        BY <1>5, <2>1 DEF Taken
      <3>2. ch.id \in Subjects /\ ch.amr \in SUBSET Amr
        BY <1>5 DEF Purpose, ChallengeOK, ChallengeRow
      <3> DEFINE y == Taken(q, ch, n)
      <3>3. y \in RequestRow
        <4>1. q \in RequestRow
          BY DEF RequestOK
        <4>2. /\ "find" \in Phases
              /\ ch.id \in Identities \cup {None}
              /\ ch.amr \cup {"webauthn"} \in SUBSET Amr
          BY <3>2 DEF Phases, Identities, Amr
        <4> DEFINE y1 == [q EXCEPT !.pc = "find"]
                   y2 == [y1 EXCEPT !.id = ch.id]
                   y3 == [y2 EXCEPT !.amr = ch.amr \cup {"webauthn"}]
        <4>3. y1 \in RequestRow
          BY <4>1, <4>2, RowExcept
        <4>4. y2 \in RequestRow
          BY <4>3, <4>2, RowExcept
        <4>5. y3 \in RequestRow
          BY <4>4, <4>2, RowExcept
        <4>6. QED
          BY <3>1, <4>5
      <3>4. y.op = q.op /\ y.pc = "find" /\ y.id = ch.id /\ y.got = q.got /\ y.cred = q.cred
        BY <3>1 DEF RequestOK, RequestRow
      <3> HIDE DEF y
      <3>5. QED
        BY <1>5, <3>2, <3>3, <3>4, StoreAssumption DEF y, RequestOK, PhaseOfOp, IdKnown,
           StandaloneOps, AccountOps, Identities
    <2>2. CASE ch.who # q.who
      BY <1>5, <2>2, IdleOK DEF Taken
    <2>3. QED
      BY <2>1, <2>2
  <1>6. CASE q.op = "webauthn_authentication_verify"
    <2>1. Taken(q, ch, n) = [q EXCEPT !.pc = "list_passkeys", !.id = ch.id,
                                      !.state = ch.state, !.amr = {"webauthn"}]
      BY <1>6 DEF Taken
    <2>2. ch.id \in Subjects /\ ch.state \in States
      BY <1>6 DEF Purpose, ChallengeOK, ChallengeRow
    <2> DEFINE y == Taken(q, ch, n)
    <2>3. y \in RequestRow
      <3>1. q \in RequestRow
        BY DEF RequestOK
      <3>2. /\ "list_passkeys" \in Phases
            /\ ch.id \in Identities \cup {None}
            /\ {"webauthn"} \in SUBSET Amr
        BY <2>2 DEF Phases, Identities, Amr
      <3> DEFINE y1 == [q EXCEPT !.pc = "list_passkeys"]
                 y2 == [y1 EXCEPT !.id = ch.id]
                 y3 == [y2 EXCEPT !.state = ch.state]
                 y4 == [y3 EXCEPT !.amr = {"webauthn"}]
      <3>3. y1 \in RequestRow
        BY <3>1, <2>2, <3>2, RowExcept
      <3>4. y2 \in RequestRow
        BY <3>3, <2>2, <3>2, RowExcept
      <3>5. y3 \in RequestRow
        BY <3>4, <2>2, <3>2, RowExcept
      <3>6. y4 \in RequestRow
        BY <3>5, <2>2, <3>2, RowExcept
      <3>7. QED
        BY <2>1, <3>6
    <2>4. /\ y.op = q.op /\ y.pc = "list_passkeys" /\ y.id = ch.id
          /\ y.got = q.got /\ y.cred = q.cred
      BY <2>1 DEF RequestOK, RequestRow
    <2> HIDE DEF y
    <2>5. QED
      BY <1>6, <2>2, <2>3, <2>4, StoreAssumption DEF y, RequestOK, PhaseOfOp, IdKnown,
         StandaloneOps, AccountOps, Identities
  <1>7. QED
    BY <1>1, <1>2, <1>3, <1>4, <1>5, <1>6

-----------------------------------------------------------------------------
(* The kinds of step a request takes, by what they read and write.         *)

Step(r, q) ==
    /\ Set(r, q)
    /\ Observe
    /\ RequestOK(q)
    /\ q.op \in profile.operations \cup {"none"}

Continues(p, q) ==
    /\ p.pc \notin Ended \cup {"take"}
    /\ q.pc \notin {"idle", "take"}
    /\ q.op = p.op
    /\ q.chal = p.chal

(* The request ends without an answer.                                     *)
Quits(r) ==
    /\ Step(r, Idle)
    /\ UNCHANGED <<store, challenge, clock, minted, log>>

(* It arrives.                                                             *)
Arrives(r, q) ==
    /\ Step(r, q)
    /\ req[r].pc \in Ended
    /\ Arrival(q)
    /\ UNCHANGED <<store, challenge, clock, minted, log>>

(* A registration draws its subject.                                       *)
Draws(r, q) ==
    /\ Step(r, q)
    /\ Continues(req[r], q)
    /\ req[r].pc = "find_key" /\ q.op = "register"
    /\ q.pc \in {"find", "permit"}
    /\ q.id \in Fresh(Subjects)
    /\ q.who = req[r].who /\ q.got = None
    /\ q.pc = "permit" => q.todo \subseteq DOMAIN AllowLink
    /\ minted' = minted \cup {q.id}
    /\ UNCHANGED <<store, challenge, clock, log>>

(* It reads, and goes on without knowing more of its principal.            *)
Reads(r, q) ==
    LET p == req[r] IN
    /\ Step(r, q)
    /\ Continues(p, q)
    /\ q.who = p.who /\ q.got = p.got /\ q.made = p.made
    /\ q.pc \notin {"answered", "undone", "write"}
    /\ \/ q.id = p.id
       \/ \E c \in DOMAIN credential : q.id = credential[c].identity
       \/ q.id \in Accounts
    /\ q.cred \in DOMAIN credential \cup {None}
    /\ q.op = "register" =>
          /\ q.id = p.id
          /\ <<p.pc, q.pc>> \in {<<"find", "create">>, <<"permit", "permit">>,
                                 <<"permit", "bind">>, <<"write", "rollback">>}
    /\ q.op = "login" /\ q.pc \in {"find", "create"} =>
          \/ ByIdentity(q.id, "totp") = {}
          \/ p.pc = "find" /\ q.id = p.id /\ q.amr = p.amr
    /\ q.pc = "permit" => q.todo \subseteq IF p.pc = "permit" THEN p.todo ELSE DOMAIN AllowLink
    /\ q.pc = "bind" =>
          /\ p.pc = "permit" /\ q.id = p.id
          /\ \E a \in p.todo : HasProvider(q.who, a) /\ Provider(q.id) \in AllowLink[a]
    /\ UNCHANGED <<store, challenge, clock, minted, log>>

(* What Resolved makes of a request that knows its principal.              *)
Knows(p, q, who) ==
    \/ q = Idle
    \/ /\ Continues(p, q)
       /\ q.id = p.id
       /\ \/ q.pc = "list_passkeys" /\ q.got = None /\ q.who = p.who /\ q.op # "register"
          \/ q.pc = "write" /\ q.got = who /\ q.who = p.who /\ q.op # "totp_enrollment_verify"
             /\ (q.op # "register" => who = q.who)
          \/ q.pc = "answered" /\ q.got = who /\ q.who = None /\ q.amr = p.amr
             /\ q.op # "register"

(* It finds its principal.                                                 *)
Resolves(r, q) ==
    /\ Step(r, q)
    /\ req[r].pc = "find"
    /\ Owner(req[r].id) \in Active
    /\ Knows(req[r], q, Owner(req[r].id))
    /\ UNCHANGED <<store, challenge, clock, minted, log>>

(* It advances a counter.                                                  *)
Counts(r, q) ==
    LET p == req[r] IN
    /\ Step(r, q)
    /\ Continues(p, q)
    /\ q.pc \in {"find", "put"} /\ q.op # "register"
    /\ q.id = p.id /\ q.who = p.who /\ q.got = None
    /\ q.op = "login" => "otp" \in q.amr
    /\ p.cred \in DOMAIN credential
    /\ credential[p.cred].count < p.count
    /\ SetCount(p.cred, p.count)
    /\ log' = Append(log, <<p.cred, p.count>>)
    /\ UNCHANGED <<challenge, clock, minted>>

(* It creates its principal.                                               *)
Creates(r, q) ==
    LET p == req[r] IN
    /\ Step(r, q)
    /\ p.pc = "create"
    /\ p.id \notin DOMAIN identity
    /\ \E new \in Fresh(PrincipalIds) :
          /\ minted' = minted \cup {new}
          /\ CreatePrincipalAndBind(new, p.id)
          /\ Knows(p, q, new)
    /\ q.pc = "write" => q.made
    /\ UNCHANGED <<challenge, clock, log>>

(* It binds an identity to the principal of its session.                   *)
Binds(r, q) ==
    LET p == req[r] IN
    /\ Step(r, q)
    /\ p.pc = "bind"
    /\ BindIdentity(p.who, p.id)
    /\ \/ q = Idle
       \/ /\ p.who \in Active
          /\ Continues(p, q)
          /\ q.id = p.id /\ q.got = p.who
          /\ \/ q.pc = "write" /\ q.op = "register" /\ q.who = p.who
             \/ q.pc = "answered" /\ q.op # "register" /\ q.who = None
    /\ UNCHANGED <<challenge, clock, minted, log>>

(* It writes a credential.                                                 *)
Writes(r, q) ==
    LET p == req[r] IN
    /\ Step(r, q)
    /\ p.pc = "write"
    /\ Continues(p, q)
    /\ q.id = p.id
    /\ IF p.op = "totp_enrollment_verify" THEN q.pc = "find" /\ q.got = None /\ q.who = p.who
       ELSE q.pc = "answered" /\ q.got = p.got /\ q.who = None
    /\ Insertable(NewCredential(p))
    /\ \E c \in IF p.op = "totp_enrollment_verify" THEN {p.cred} ELSE Fresh(CredentialIds) :
          /\ credential' = With(credential, c, NewCredential(p))
          /\ minted' = minted \cup {c}
          /\ log' = IF p.op = "totp_enrollment_verify" THEN Append(log, <<c, p.count>>) ELSE log
    /\ UNCHANGED <<principal, identity, challenge, clock>>

(* A registration undoes what it has written.                              *)
RollsBack(r, q) ==
    LET p == req[r] IN
    /\ Step(r, q)
    /\ p.pc = "rollback" /\ q.pc = "undone" /\ q.op = p.op
    /\ q.id = p.id /\ q.got = p.got /\ q.made = p.made
    /\ q.who = None /\ q.chal = None
    /\ RollbackIdentityBinding(p.got, p.id)
    /\ UNCHANGED <<challenge, clock, minted, log>>

(* It stores a challenge.                                                  *)
Puts(r, q) ==
    LET p == req[r] IN
    /\ Step(r, q)
    /\ p.pc = "put"
    /\ Continues(p, q)
    /\ q.pc = "answered" /\ q.id = None /\ q.got = None /\ q.who = None
    /\ \E k \in Fresh(ChallengeIds),
          c \in IF p.op = "totp_enrollment_challenge" THEN Fresh(CredentialIds) ELSE {None} :
          /\ minted' = (minted \cup {k, c}) \ {None}
          /\ \E ch : /\ challenge' = With(challenge, k, ch)
                     /\ ChallengeOK(ch)
                     /\ ch.id = p.id /\ ch.who = p.who /\ ch.cred = c
    /\ UNCHANGED <<store, clock, log>>

(* It takes a challenge.                                                   *)
Takes(r, q) ==
    LET p == req[r]
        ch == challenge[p.chal]
    IN  /\ Step(r, q)
        /\ p.pc = "take"
        /\ p.chal \in DOMAIN challenge
        /\ challenge' = Restrict(challenge, DOMAIN challenge \ {p.chal})
        /\ \/ q = Idle
           \/ /\ q.op = p.op /\ q.chal = p.chal
              /\ q.pc \in {"authenticate", "find", "permit", "write", "list_passkeys"}
              /\ q.op \notin {"register", "login"}
              /\ q.got = None
              /\ q.who \in {p.who, ch.who}
              /\ q.id \in {p.id, ch.id}
              /\ q.pc = "write" => /\ q.op = "totp_enrollment_verify"
                                   /\ ch.purpose = "totp" /\ q.cred = ch.cred
              /\ q.pc = "permit" => q.todo \subseteq DOMAIN AllowLink
        /\ UNCHANGED <<store, clock, minted, log>>

RequestStep(r) ==
    \/ Quits(r)
    \/ \E q : \/ Arrives(r, q) \/ Draws(r, q) \/ Reads(r, q) \/ Resolves(r, q)
              \/ Counts(r, q) \/ Creates(r, q) \/ Binds(r, q) \/ Writes(r, q)
              \/ RollsBack(r, q) \/ Puts(r, q) \/ Takes(r, q)

(* A refusal ends the request.                                             *)
LEMMA RefusalQuits ==
    ASSUME NEW r \in Requests, Refuse(r), Observe,
           UNCHANGED <<store, challenge, clock, minted, log>>
    PROVE  RequestStep(r)
  BY IdleOK DEF Refuse, RequestStep, Quits, Step, Idle

(* A request that goes on under its own name takes a proper step.          *)
LEMMA ProperStep ==
    ASSUME Shape, NEW r \in Requests, NEW q, Set(r, q), Observe, RequestOK(q),
           q.op = req[r].op
    PROVE  Step(r, q)
  BY DEF Step, Shape

(* What linking or logging in keeps of a request.                          *)
LEMMA LinkOrLoginKeeps ==
    ASSUME NEW q \in RequestRow
    PROVE  /\ LinkOrLogin(q).op = q.op /\ LinkOrLogin(q).id = q.id
           /\ LinkOrLogin(q).who = q.who /\ LinkOrLogin(q).got = q.got
           /\ LinkOrLogin(q).made = q.made /\ LinkOrLogin(q).cred = q.cred
           /\ LinkOrLogin(q).chal = q.chal
           /\ LinkOrLogin(q).pc \in {"find", "permit"}
           /\ LinkOrLogin(q).pc = "permit" => LinkOrLogin(q).todo = DOMAIN AllowLink
  BY DEF LinkOrLogin, RequestRow

(* A registration draws its subject if the login is free.                  *)
LEMMA RegisterFindsKeyStep ==
    ASSUME Shape, NEW r \in Requests, RegisterFindsKey(r)
    PROVE  RequestStep(r)
  <1>1. RequestOK(req[r]) /\ req[r] \in RequestRow
    BY DEF Shape
  <1>2. CASE ByKey(req[r].login) # {}
    BY <1>2, RefusalQuits DEF RegisterFindsKey
  <1>3. CASE ByKey(req[r].login) = {}
    <2>1. PICK s \in Fresh(Subjects) :
             /\ minted' = minted \cup {s}
             /\ Set(r, LinkOrLogin([req[r] EXCEPT !.id = s, !.amr = {"pwd"}]))
      BY <1>3 DEF RegisterFindsKey
    <2> DEFINE y1 == [req[r] EXCEPT !.id = s]
               y2 == [y1 EXCEPT !.amr = {"pwd"}]
               q == LinkOrLogin(y2)
    <2>2. s \in Subjects /\ s \in Identities /\ {"pwd"} \in SUBSET Amr
      BY DEF Fresh, Identities, Amr
    <2>3. y1 \in RequestRow
      BY <1>1, <2>2, RowExcept
    <2>4. y2 \in RequestRow
      BY <2>2, <2>3, RowExcept
    <2>5. req[r].pc = "find_key" /\ req[r].op = "register"
      BY DEF RegisterFindsKey, At
    <2>6. req[r].got = None /\ req[r].cred = None
      BY <1>1, <2>5 DEF RequestOK
    <2>7. /\ y2.op = req[r].op /\ y2.who = req[r].who /\ y2.id = s /\ y2.chal = req[r].chal
          /\ y2.got = None /\ y2.cred = None
      BY <1>1, <2>6 DEF RequestRow
    <2>8. Set(r, q)
      BY <2>1
    <2> HIDE DEF y1, y2
    <2>9. RequestOK(q)
      BY <1>1, <2>2, <2>4, <2>5, <2>6, <2>7, LinkOrLoginOK DEF AccountOps, StandaloneOps
    <2>10. Step(r, q)
      BY <2>4, <2>7, <2>8, <2>9, ProperStep, LinkOrLoginKeeps DEF RegisterFindsKey
    <2>11. Draws(r, q)
      BY <2>1, <2>2, <2>4, <2>5, <2>7, <2>10, LinkOrLoginKeeps
         DEF Draws, Continues, Ended, RegisterFindsKey
    <2>12. QED
      BY <2>11 DEF RequestStep
  <1>4. QED
    BY <1>2, <1>3

(* The other handlers look up whose login it is.                           *)
LEMMA FindByKeyStep ==
    ASSUME Shape, NEW r \in Requests, FindByKey(r)
    PROVE  RequestStep(r)
  <1>1. RequestOK(req[r]) /\ req[r] \in RequestRow
    BY DEF Shape
  <1>2. CASE ByKey(req[r].login) = {}
    BY <1>2, RefusalQuits DEF FindByKey
  <1>3. CASE ByKey(req[r].login) # {}
    <2> DEFINE pc == IF req[r].op = "webauthn_authentication_challenge"
                     THEN "list_passkeys" ELSE "list_totp"
    <2>1. PICK c \in ByKey(req[r].login) :
             Set(r, [req[r] EXCEPT !.id = credential[c].identity, !.pc = pc])
      BY <1>3 DEF FindByKey
    <2> DEFINE y1 == [req[r] EXCEPT !.id = credential[c].identity]
               q == [y1 EXCEPT !.pc = pc]
    <2>2. /\ c \in DOMAIN credential /\ credential[c].identity \in Subjects
          /\ credential[c].identity \in Identities
      BY DEF ByKey, Shape, StoreTypeOK, CredentialRow, Identities
    <2>3. pc \in Phases
      BY DEF Phases
    <2>4. y1 \in RequestRow
      BY <1>1, <2>2, RowExcept
    <2>5. q \in RequestRow
      BY <2>3, <2>4, RowExcept
    <2>6. req[r].pc = "find_key" /\ req[r].op # "register"
      BY DEF FindByKey, At
    <2>7. req[r].got = None /\ req[r].cred = None
      BY <1>1, <2>6 DEF RequestOK
    <2>8. /\ q.op = req[r].op /\ q.who = req[r].who /\ q.id = credential[c].identity
          /\ q.chal = req[r].chal /\ q.got = None /\ q.cred = None /\ q.made = req[r].made
          /\ q.pc = pc
      BY <1>1, <2>7 DEF RequestRow
    <2>9. Set(r, q)
      BY <2>1
    <2> HIDE DEF q, y1
    <2>10. RequestOK(q)
      BY <1>1, <2>2, <2>5, <2>6, <2>8, StoreAssumption
         DEF RequestOK, PhaseOfOp, IdKnown, StandaloneOps, AccountOps, Identities
    <2>11. Step(r, q)
      BY <2>8, <2>9, <2>10, ProperStep DEF FindByKey
    <2>12. Reads(r, q)
      BY <2>2, <2>6, <2>7, <2>8, <2>11 DEF Reads, Continues, Ended, FindByKey
    <2>13. QED
      BY <2>12 DEF RequestStep
  <1>4. QED
    BY <1>2, <1>3

(* What authentication keeps of a request.                                 *)
LEMMA AuthenticatedKeeps ==
    ASSUME NEW q \in RequestRow, NEW amr
    PROVE  /\ Authenticated(q, amr).op = q.op /\ Authenticated(q, amr).id = q.id
           /\ Authenticated(q, amr).who = q.who /\ Authenticated(q, amr).got = q.got
           /\ Authenticated(q, amr).made = q.made /\ Authenticated(q, amr).cred = None
           /\ Authenticated(q, amr).chal = q.chal /\ Authenticated(q, amr).amr = amr
           /\ Authenticated(q, amr).pc = IF q.op = "totp_enrollment_challenge" THEN "put"
                                         ELSE "find"
  BY DEF Authenticated, RequestRow

(* The second factor is asked for, or there is none.                       *)
LEMMA ListTotpStep ==
    ASSUME Shape, NEW r \in Requests, ListTotp(r)
    PROVE  RequestStep(r)
  <1>1. RequestOK(req[r]) /\ req[r] \in RequestRow /\ req[r].pc = "list_totp"
    BY DEF Shape, ListTotp, At
  <1>2. /\ req[r].op \in {"login", "totp_enrollment_challenge", "webauthn_registration_challenge"}
        /\ req[r].got = None /\ req[r].cred = None /\ req[r].id # None
    BY <1>1 DEF RequestOK, PhaseOfOp, IdKnown
  <1>3. CASE /\ ByIdentity(req[r].id, "totp") = {}
             /\ Set(r, Authenticated(req[r], {"pwd"}))
    <2> DEFINE q == Authenticated(req[r], {"pwd"})
    <2>1. RequestOK(q)
      BY <1>1, AuthenticatedOK DEF Amr
    <2>2. Observe /\ UNCHANGED <<store, challenge, clock, minted, log>>
      BY DEF ListTotp
    <2>3. /\ Set(r, q) /\ q.op = req[r].op /\ q.id = req[r].id /\ q.who = req[r].who
          /\ q.got = None /\ q.made = req[r].made /\ q.cred = None /\ q.chal = req[r].chal
          /\ q.pc \in {"put", "find"}
      BY <1>1, <1>2, <1>3, AuthenticatedKeeps
    <2> HIDE DEF q
    <2>4. Step(r, q)
      BY <2>1, <2>2, <2>3, ProperStep
    <2>5. Reads(r, q)
      BY <1>1, <1>2, <1>3, <2>2, <2>3, <2>4 DEF Reads, Continues, Ended
    <2>6. QED
      BY <2>5 DEF RequestStep
  <1>4. CASE \E c \in ByIdentity(req[r].id, "totp"), n \in Window :
                Set(r, [req[r] EXCEPT !.pc = "advance", !.cred = c, !.count = n])
    <2>1. PICK c \in ByIdentity(req[r].id, "totp"), n \in Window :
             Set(r, [req[r] EXCEPT !.pc = "advance", !.cred = c, !.count = n])
      BY <1>4
    <2> DEFINE y1 == [req[r] EXCEPT !.pc = "advance"]
               y2 == [y1 EXCEPT !.cred = c]
               q == [y2 EXCEPT !.count = n]
    <2>2. /\ c \in DOMAIN credential /\ c \in CredentialIds /\ c # None
          /\ n \in 0 .. MaxCount /\ "advance" \in Phases
      BY AuthenticationAssumption, StoreAssumption
         DEF ByIdentity, Shape, StoreTypeOK, Window, Phases
    <2>3. y1 \in RequestRow
      BY <1>1, <2>2, RowExcept
    <2>4. y2 \in RequestRow
      BY <2>2, <2>3, RowExcept
    <2>5. q \in RequestRow
      BY <2>2, <2>4, RowExcept
    <2>6. /\ q.op = req[r].op /\ q.who = req[r].who /\ q.id = req[r].id
          /\ q.chal = req[r].chal /\ q.got = None /\ q.cred = c /\ q.made = req[r].made
          /\ q.pc = "advance"
      BY <1>1, <1>2 DEF RequestRow
    <2>7. Set(r, q)
      BY <2>1
    <2> HIDE DEF q, y1, y2
    <2>8. RequestOK(q)
      BY <1>1, <1>2, <2>2, <2>5, <2>6 DEF RequestOK, PhaseOfOp, IdKnown
    <2>9. Step(r, q)
      BY <2>6, <2>7, <2>8, ProperStep DEF ListTotp
    <2>10. Reads(r, q)
      BY <1>1, <1>2, <2>2, <2>6, <2>9 DEF Reads, Continues, Ended, ListTotp
    <2>11. QED
      BY <2>10 DEF RequestStep
  <1>5. QED
    BY <1>3, <1>4 DEF ListTotp

(* A TOTP code is accepted by moving the counter.                          *)
LEMMA AdvanceTotpCounterStep ==
    ASSUME Shape, NEW r \in Requests, AdvanceTotpCounter(r)
    PROVE  RequestStep(r)
  <1>1. RequestOK(req[r]) /\ req[r] \in RequestRow /\ req[r].pc = "advance"
    BY DEF Shape, AdvanceTotpCounter, At
  <1>2. /\ req[r].op \in {"login", "totp_enrollment_challenge", "webauthn_registration_challenge"}
        /\ req[r].got = None
    BY <1>1 DEF RequestOK, PhaseOfOp, IdKnown
  <1>3. CASE CanAdvance(req[r].cred, req[r].count)
    <2> DEFINE q == Authenticated(req[r], {"pwd", "otp"})
    <2>1. RequestOK(q)
      BY <1>1, AuthenticatedOK DEF Amr
    <2>2. Step(r, q)
      BY <1>1, <1>3, <2>1, ProperStep, AuthenticatedKeeps DEF AdvanceTotpCounter
    <2>3. Counts(r, q)
      BY <1>1, <1>2, <1>3, <2>2, AuthenticatedKeeps
         DEF Counts, Continues, Ended, AdvanceTotpCounter, CanAdvance
    <2>4. QED
      BY <2>3 DEF RequestStep
  <1>4. CASE ~ CanAdvance(req[r].cred, req[r].count)
    BY <1>4, RefusalQuits DEF AdvanceTotpCounter
  <1>5. QED
    BY <1>3, <1>4

(* A request that has resolved its identity knows its principal.           *)
LEMMA ResolvedKnows ==
    ASSUME NEW p, RequestOK(p), p.pc \in {"find", "create"}, NEW who
    PROVE  /\ Knows(p, Resolved(p, who), who)
           /\ Resolved(p, who).op \in {p.op, "none"}
           /\ Resolved(p, who).pc = "write" => Resolved(p, who).made = p.made
  <1>1. p \in RequestRow
    BY DEF RequestOK
  <1>2. CASE \/ p.op = "register"
             \/ p.op = "webauthn_registration_verify" /\ who = p.who
    <2>1. Resolved(p, who) = [p EXCEPT !.pc = "write", !.got = who]
      BY <1>2 DEF Resolved
    <2> DEFINE q == Resolved(p, who)
    <2>2. /\ q.op = p.op /\ q.id = p.id /\ q.who = p.who /\ q.got = who /\ q.chal = p.chal
          /\ q.pc = "write" /\ q.made = p.made
      BY <1>1, <2>1 DEF RequestRow
    <2> HIDE DEF q
    <2>3. QED
      BY <1>2, <2>2 DEF q, Knows, Continues, Ended
  <1>3. CASE p.op = "webauthn_registration_challenge" /\ who = p.who
    <2>1. Resolved(p, who) = [p EXCEPT !.pc = "list_passkeys"]
      BY <1>3 DEF Resolved
    <2> DEFINE q == Resolved(p, who)
    <2>2. /\ q.op = p.op /\ q.id = p.id /\ q.who = p.who /\ q.got = p.got /\ q.chal = p.chal
          /\ q.pc = "list_passkeys"
      BY <1>1, <2>1 DEF RequestRow
    <2> HIDE DEF q
    <2>3. QED
      BY <1>3, <2>2 DEF q, Knows, Continues, Ended, RequestOK
  <1>4. CASE p.op \in {"webauthn_registration_challenge", "webauthn_registration_verify"}
             /\ who # p.who
    BY <1>4 DEF Resolved, Knows, Idle
  <1>5. CASE p.op \notin {"register", "webauthn_registration_challenge",
                          "webauthn_registration_verify"}
    <2>1. Resolved(p, who) = Answer(p, who)
      BY <1>5 DEF Resolved
    <2> DEFINE q == Resolved(p, who)
    <2>2. /\ q.op = p.op /\ q.id = p.id /\ q.who = None /\ q.got = who /\ q.chal = p.chal
          /\ q.pc = "answered" /\ q.amr = p.amr
      BY <1>1, <2>1 DEF Answer, Idle
    <2> HIDE DEF q
    <2>3. QED
      BY <1>5, <2>2 DEF q, Knows, Continues, Ended
  <1>6. QED
    BY <1>2, <1>3, <1>4, <1>5

(* The login finds an active principal, may create one, or ends.           *)
LEMMA FindPrincipalStep ==
    ASSUME Shape, NEW r \in Requests, FindPrincipalByIdentity(r)
    PROVE  RequestStep(r)
  <1> DEFINE p == Owner(req[r].id)
  <1>1. RequestOK(req[r]) /\ req[r] \in RequestRow /\ req[r].pc = "find"
    BY DEF Shape, FindPrincipalByIdentity, At
  <1>2. req[r].got = None /\ req[r].cred = None /\ req[r].id # None
    BY <1>1 DEF RequestOK, IdKnown
  <1>3. CASE p # None /\ p \in Active
    <2> DEFINE q == Resolved(req[r], p)
    <2>1. Set(r, q)
      BY <1>3 DEF FindPrincipalByIdentity
    <2>2. p \in PrincipalIds
      BY <1>3 DEF Active, Shape, StoreTypeOK
    <2>3. RequestOK(q) /\ Knows(req[r], q, p) /\ q.op \in {req[r].op, "none"}
      BY <1>1, <2>2, ResolvedOK, ResolvedKnows
    <2> HIDE DEF q
    <2>4. Step(r, q)
      BY <2>1, <2>3 DEF Step, Shape, FindPrincipalByIdentity
    <2>5. Resolves(r, q)
      BY <1>1, <1>3, <2>3, <2>4 DEF Resolves, FindPrincipalByIdentity
    <2>6. QED
      BY <2>5 DEF RequestStep
  <1>4. CASE p = None /\ MayCreate(req[r].id)
    <2> DEFINE q == [req[r] EXCEPT !.pc = "create"]
    <2>1. Set(r, q)
      BY <1>4 DEF FindPrincipalByIdentity
    <2>2. q \in RequestRow
      BY <1>1, RowExcept DEF Phases
    <2>3. /\ q.op = req[r].op /\ q.who = req[r].who /\ q.id = req[r].id
          /\ q.chal = req[r].chal /\ q.got = None /\ q.cred = None /\ q.made = req[r].made
          /\ q.pc = "create" /\ q.amr = req[r].amr
      BY <1>1, <1>2 DEF RequestRow
    <2> HIDE DEF q
    <2>4. RequestOK(q)
      BY <1>1, <1>2, <2>2, <2>3 DEF RequestOK, PhaseOfOp, IdKnown
    <2>5. Step(r, q)
      BY <2>1, <2>3, <2>4, ProperStep DEF FindPrincipalByIdentity
    <2>6. Reads(r, q)
      BY <1>1, <1>2, <2>3, <2>5 DEF Reads, Continues, Ended, FindPrincipalByIdentity
    <2>7. QED
      BY <2>6 DEF RequestStep
  <1>5. CASE ~ (p # None /\ p \in Active) /\ ~ (p = None /\ MayCreate(req[r].id))
    <2>1. Refuse(r)
      BY <1>5 DEF FindPrincipalByIdentity, Refuse
    <2>2. QED
      BY <2>1, RefusalQuits DEF FindPrincipalByIdentity
  <1>6. QED
    BY <1>3, <1>4, <1>5

(* The first login makes a principal.                                      *)
LEMMA CreatePrincipalStep ==
    ASSUME Shape, NEW r \in Requests, CreatePrincipal(r)
    PROVE  RequestStep(r)
  <1>1. RequestOK(req[r]) /\ req[r] \in RequestRow /\ req[r].pc = "create"
    BY DEF Shape, CreatePrincipal, At
  <1>2. req[r].got = None /\ req[r].cred = None /\ req[r].id # None
    BY <1>1 DEF RequestOK, IdKnown
  <1>3. CASE req[r].id \in DOMAIN identity
    BY <1>3, RefusalQuits DEF CreatePrincipal
  <1>4. CASE req[r].id \notin DOMAIN identity
    <2> DEFINE p1 == [req[r] EXCEPT !.made = TRUE]
    <2>1. PICK p \in Fresh(PrincipalIds) :
             /\ minted' = minted \cup {p}
             /\ CreatePrincipalAndBind(p, req[r].id)
             /\ Set(r, Resolved(p1, p))
      BY <1>4 DEF CreatePrincipal
    <2>2. p1 \in RequestRow
      BY <1>1, RowExcept
    <2>3. /\ p1.op = req[r].op /\ p1.who = req[r].who /\ p1.id = req[r].id
          /\ p1.chal = req[r].chal /\ p1.got = None /\ p1.cred = None /\ p1.made
          /\ p1.pc = "create" /\ p1.amr = req[r].amr
      BY <1>1, <1>2 DEF RequestRow
    <2> DEFINE q == Resolved(p1, p)
    <2> HIDE DEF p1
    <2>4. RequestOK(p1)
      BY <1>1, <1>2, <2>2, <2>3 DEF RequestOK, PhaseOfOp, IdKnown
    <2>5. p \in PrincipalIds
      BY DEF Fresh
    <2>6. /\ RequestOK(q) /\ Knows(p1, q, p) /\ q.op \in {req[r].op, "none"}
          /\ q.pc = "write" => q.made
      BY <2>3, <2>4, <2>5, ResolvedOK, ResolvedKnows
    <2>7. Set(r, q)
      BY <2>1
    <2> HIDE DEF q
    <2>8. Step(r, q)
      BY <2>6, <2>7 DEF Step, Shape, CreatePrincipal
    <2>9. Knows(req[r], q, p)
      BY <1>1, <2>3, <2>6 DEF Knows, Continues
    <2>10. Creates(r, q)
      BY <1>1, <1>4, <2>1, <2>6, <2>8, <2>9 DEF Creates, CreatePrincipal
    <2>11. QED
      BY <2>10 DEF RequestStep
  <1>5. QED
    BY <1>3, <1>4

(* One provider of the session's principal is asked for permission.        *)
LEMMA PrincipalHasProviderStep ==
    ASSUME Shape, NEW r \in Requests, PrincipalHasProvider(r)
    PROVE  RequestStep(r)
  <1>1. RequestOK(req[r]) /\ req[r] \in RequestRow /\ req[r].pc = "permit"
    BY DEF Shape, PrincipalHasProvider, At
  <1>2. /\ req[r].got = None /\ req[r].cred = None /\ req[r].id # None /\ req[r].who # None
        /\ req[r].op \in {"register"} \cup AccountOps
    BY <1>1 DEF RequestOK, IdKnown, PhaseOfOp
  <1>3. Observe /\ UNCHANGED <<store, challenge, clock, minted, log>>
    BY DEF PrincipalHasProvider
  <1>4. CASE Refuse(r)
    BY <1>3, <1>4, RefusalQuits
  <1>5. CASE ~ Refuse(r)
    <2>1. PICK a \in req[r].todo :
             /\ Provider(req[r].id) \in AllowLink[a]
             /\ Set(r, IF HasProvider(req[r].who, a)
                       THEN [req[r] EXCEPT !.pc = "bind", !.todo = {}]
                       ELSE [req[r] EXCEPT !.todo = req[r].todo \ {a}])
      BY <1>5 DEF PrincipalHasProvider
    <2>2. CASE HasProvider(req[r].who, a)
      <3> DEFINE y1 == [req[r] EXCEPT !.pc = "bind"]
                 q == [y1 EXCEPT !.todo = {}]
      <3>1. y1 \in RequestRow
        BY <1>1, RowExcept DEF Phases
      <3>2. q \in RequestRow
        BY <3>1, RowExcept
      <3>3. /\ q.op = req[r].op /\ q.who = req[r].who /\ q.id = req[r].id
            /\ q.chal = req[r].chal /\ q.got = None /\ q.cred = None /\ q.made = req[r].made
            /\ q.pc = "bind"
        BY <1>1, <1>2 DEF RequestRow
      <3>4. Set(r, q)
        BY <2>1, <2>2
      <3> HIDE DEF y1, q
      <3>5. RequestOK(q)
        BY <1>1, <1>2, <3>2, <3>3 DEF RequestOK, PhaseOfOp, IdKnown
      <3>6. Step(r, q)
        BY <1>3, <3>3, <3>4, <3>5, ProperStep
      <3>7. Reads(r, q)
        BY <1>1, <1>2, <1>3, <2>1, <2>2, <3>3, <3>6
           DEF Reads, Continues, Ended, AccountOps, StandaloneOps
      <3>8. QED
        BY <3>7 DEF RequestStep
    <2>3. CASE ~ HasProvider(req[r].who, a)
      <3> DEFINE q == [req[r] EXCEPT !.todo = req[r].todo \ {a}]
      <3>1. req[r].todo \ {a} \in SUBSET Providers
        BY <1>1 DEF RequestRow
      <3>2. q \in RequestRow
        BY <1>1, <3>1, RowExcept
      <3>3. /\ q.op = req[r].op /\ q.who = req[r].who /\ q.id = req[r].id
            /\ q.chal = req[r].chal /\ q.got = None /\ q.cred = None /\ q.made = req[r].made
            /\ q.pc = "permit" /\ q.todo = req[r].todo \ {a}
        BY <1>1, <1>2 DEF RequestRow
      <3>4. Set(r, q)
        BY <2>1, <2>3
      <3> HIDE DEF q
      <3>5. RequestOK(q)
        BY <1>1, <1>2, <3>2, <3>3 DEF RequestOK, PhaseOfOp, IdKnown
      <3>6. Step(r, q)
        BY <1>3, <3>3, <3>4, <3>5, ProperStep
      <3>7. Reads(r, q)
        BY <1>1, <1>2, <1>3, <3>3, <3>6 DEF Reads, Continues, Ended
      <3>8. QED
        BY <3>7 DEF RequestStep
    <2>4. QED
      BY <2>2, <2>3
  <1>6. QED
    BY <1>4, <1>5

(* The identity is bound to the session's principal.                       *)
LEMMA BindExternalIdentityStep ==
    ASSUME Shape, NEW r \in Requests, BindExternalIdentity(r)
    PROVE  RequestStep(r)
  <1>1. RequestOK(req[r]) /\ req[r] \in RequestRow /\ req[r].pc = "bind"
    BY DEF Shape, BindExternalIdentity, At
  <1>2. /\ req[r].got = None /\ req[r].cred = None /\ req[r].id # None /\ req[r].who # None
        /\ req[r].op \in {"register"} \cup AccountOps
    BY <1>1 DEF RequestOK, IdKnown, PhaseOfOp
  <1>3. Observe /\ UNCHANGED <<challenge, clock, minted, log>>
    BY DEF BindExternalIdentity
  <1>4. CASE req[r].who \in DOMAIN principal /\ req[r].id \notin DOMAIN identity
    <2>1. BindIdentity(req[r].who, req[r].id)
      BY <1>4 DEF BindExternalIdentity
    <2>2. CASE req[r].who \in Active /\ req[r].op = "register"
      <3> DEFINE y1 == [req[r] EXCEPT !.pc = "write"]
                 q == [y1 EXCEPT !.got = req[r].who]
      <3>1. Set(r, q)
        BY <1>4, <2>2 DEF BindExternalIdentity
      <3>2. y1 \in RequestRow
        BY <1>1, RowExcept DEF Phases
      <3>3. req[r].who \in PrincipalIds
        BY <1>4 DEF Shape, StoreTypeOK
      <3>4. q \in RequestRow
        BY <3>2, <3>3, RowExcept
      <3>5. /\ q.op = req[r].op /\ q.who = req[r].who /\ q.id = req[r].id
            /\ q.chal = req[r].chal /\ q.got = req[r].who /\ q.cred = None
            /\ q.pc = "write"
        BY <1>1, <1>2 DEF RequestRow
      <3> HIDE DEF q, y1
      <3>6. RequestOK(q)
        BY <1>1, <1>2, <2>2, <3>4, <3>5 DEF RequestOK, PhaseOfOp, IdKnown
      <3>7. Step(r, q)
        BY <1>3, <3>1, <3>5, <3>6, ProperStep
      <3>8. Binds(r, q)
        BY <1>1, <1>3, <2>1, <2>2, <3>5, <3>7 DEF Binds, Continues, Ended
      <3>9. QED
        BY <3>8 DEF RequestStep
    <2>3. CASE req[r].who \in Active /\ req[r].op # "register"
      <3> DEFINE q == Answer(req[r], req[r].who)
      <3>1. Set(r, q)
        BY <1>4, <2>3 DEF BindExternalIdentity
      <3>2. req[r].who \in PrincipalIds
        BY <1>4 DEF Shape, StoreTypeOK
      <3>3. RequestOK(q)
        BY <1>1, <3>2, AnswerOK
      <3>4. /\ q.op = req[r].op /\ q.who = None /\ q.id = req[r].id
            /\ q.chal = req[r].chal /\ q.got = req[r].who /\ q.pc = "answered"
        BY DEF Answer, Idle
      <3> HIDE DEF q
      <3>5. Step(r, q)
        BY <1>3, <3>1, <3>3, <3>4, ProperStep
      <3>6. Binds(r, q)
        BY <1>1, <1>3, <2>1, <2>3, <3>4, <3>5 DEF Binds, Continues, Ended
      <3>7. QED
        BY <3>6 DEF RequestStep
    <2>4. CASE req[r].who \notin Active
      <3>1. Set(r, Idle)
        BY <1>4, <2>4 DEF BindExternalIdentity, Refuse
      <3>2. Binds(r, Idle)
        BY <1>1, <1>3, <2>1, <3>1, IdleOK DEF Binds, Step, Idle
      <3>3. QED
        BY <3>2 DEF RequestStep
    <2>5. QED
      BY <2>2, <2>3, <2>4
  <1>5. CASE ~ (req[r].who \in DOMAIN principal /\ req[r].id \notin DOMAIN identity)
    BY <1>5, RefusalQuits DEF BindExternalIdentity
  <1>6. QED
    BY <1>4, <1>5

(* A credential is written.                                                *)
LEMMA WriteCredentialStep ==
    ASSUME Shape, NEW r \in Requests, WriteCredential(r)
    PROVE  RequestStep(r)
  <1>1. RequestOK(req[r]) /\ req[r] \in RequestRow /\ req[r].pc = "write"
    BY DEF Shape, WriteCredential, At
  <1>2. /\ req[r].op \in {"register", "totp_enrollment_verify", "webauthn_registration_verify"}
        /\ req[r].id # None
        /\ req[r].cred # None <=> req[r].op = "totp_enrollment_verify"
    BY <1>1 DEF RequestOK, PhaseOfOp, IdKnown
  <1>3. Observe /\ UNCHANGED <<challenge, clock>> /\ Set(r, Written(req[r]))
    BY DEF WriteCredential
  <1>4. NewCredential(req[r]).kind = "totp" <=> req[r].op = "totp_enrollment_verify"
    BY <1>2 DEF NewCredential
  <1>5. req[r].op = "totp_enrollment_verify" => NewCredential(req[r]).count = req[r].count
    BY DEF NewCredential
  <1>6. /\ Insertable(NewCredential(req[r]))
        /\ UNCHANGED <<principal, identity>>
        /\ \E c \in IF req[r].op = "totp_enrollment_verify" THEN {req[r].cred}
                    ELSE Fresh(CredentialIds) :
              /\ credential' = With(credential, c, NewCredential(req[r]))
              /\ minted' = minted \cup {c}
              /\ log' = IF req[r].op = "totp_enrollment_verify"
                        THEN Append(log, <<c, req[r].count>>) ELSE log
    BY <1>2, <1>4, <1>5 DEF WriteCredential, CreateCredential
  <1>7. CASE req[r].op = "totp_enrollment_verify"
    <2> DEFINE y1 == [req[r] EXCEPT !.pc = "find"]
               y2 == [y1 EXCEPT !.cred = None]
               q == [y2 EXCEPT !.count = 0]
    <2>1. Set(r, q)
      BY <1>3, <1>7 DEF Written
    <2>2. y1 \in RequestRow
      BY <1>1, RowExcept DEF Phases
    <2>3. y2 \in RequestRow
      BY <2>2, RowExcept
    <2>4. 0 \in 0 .. MaxCount
      BY StoreAssumption
    <2>5. q \in RequestRow
      BY <2>3, <2>4, RowExcept
    <2>6. q.got = req[r].got
      BY <1>1 DEF RequestRow
    <2>7. /\ q.op = req[r].op /\ q.who = req[r].who /\ q.id = req[r].id
          /\ q.chal = req[r].chal /\ q.cred = None /\ q.pc = "find"
      BY <1>1 DEF RequestRow
    <2> HIDE DEF q, y1, y2
    <2>8. req[r].got = None
      BY <1>1, <1>7 DEF RequestOK
    <2>9. RequestOK(q)
      BY <1>1, <1>2, <1>7, <2>5, <2>6, <2>7, <2>8 DEF RequestOK, PhaseOfOp, IdKnown
    <2>10. Step(r, q)
      BY <1>3, <2>1, <2>7, <2>9, ProperStep
    <2>11. Continues(req[r], q)
      BY <1>1, <2>7 DEF Continues, Ended
    <2>12. Writes(r, q)
      BY <1>1, <1>3, <1>6, <1>7, <2>6, <2>7, <2>8, <2>10, <2>11 DEF Writes
    <2>13. QED
      BY <2>12 DEF RequestStep
  <1>8. CASE req[r].op # "totp_enrollment_verify"
    <2> DEFINE q == Answer(req[r], req[r].got)
    <2>1. Set(r, q)
      BY <1>3, <1>8 DEF Written
    <2>2. RequestOK(q)
      BY <1>1, AnswerOK DEF RequestRow
    <2>3. /\ q.op = req[r].op /\ q.who = None /\ q.id = req[r].id
          /\ q.chal = req[r].chal /\ q.got = req[r].got /\ q.pc = "answered"
      BY DEF Answer, Idle
    <2> HIDE DEF q
    <2>4. Step(r, q)
      BY <1>3, <2>1, <2>2, <2>3, ProperStep
    <2>5. Continues(req[r], q)
      BY <1>1, <2>3 DEF Continues, Ended
    <2>6. Writes(r, q)
      BY <1>1, <1>3, <1>6, <1>8, <2>3, <2>4, <2>5 DEF Writes
    <2>7. QED
      BY <2>6 DEF RequestStep
  <1>9. QED
    BY <1>7, <1>8

(* The write fails: a registration turns to undoing its binding.           *)
LEMMA WriteFailsStep ==
    ASSUME Shape, NEW r \in Requests, WriteFails(r)
    PROVE  RequestStep(r)
  <1>1. RequestOK(req[r]) /\ req[r] \in RequestRow /\ req[r].pc = "write"
    BY DEF Shape, WriteFails, At
  <1>2. Observe /\ UNCHANGED <<store, challenge, clock, minted, log>>
    BY DEF WriteFails
  <1>3. CASE req[r].op = "register"
    <2> DEFINE q == [req[r] EXCEPT !.pc = "rollback"]
    <2>1. Set(r, q)
      BY <1>3 DEF WriteFails
    <2>2. q \in RequestRow
      BY <1>1, RowExcept DEF Phases
    <2>3. /\ q.op = req[r].op /\ q.who = req[r].who /\ q.id = req[r].id
          /\ q.chal = req[r].chal /\ q.got = req[r].got /\ q.cred = req[r].cred
          /\ q.made = req[r].made /\ q.pc = "rollback"
      BY <1>1 DEF RequestRow
    <2> HIDE DEF q
    <2>4. RequestOK(q)
      BY <1>1, <1>3, <2>2, <2>3 DEF RequestOK, PhaseOfOp, IdKnown
    <2>5. Step(r, q)
      BY <1>2, <2>1, <2>3, <2>4, ProperStep
    <2>6. req[r].cred = None
      BY <1>1, <1>3 DEF RequestOK
    <2>7. Reads(r, q)
      BY <1>1, <1>2, <1>3, <2>3, <2>5, <2>6 DEF Reads, Continues, Ended
    <2>8. QED
      BY <2>7 DEF RequestStep
  <1>4. CASE req[r].op # "register"
    BY <1>2, <1>4, RefusalQuits DEF WriteFails
  <1>5. QED
    BY <1>3, <1>4

(* The registration takes its binding back.                                *)
LEMMA RollbackStep ==
    ASSUME Shape, NEW r \in Requests, Rollback(r)
    PROVE  RequestStep(r)
  <1>1. RequestOK(req[r]) /\ req[r] \in RequestRow /\ req[r].pc = "rollback"
    BY DEF Shape, Rollback, At
  <1>2. req[r].op = "register" /\ req[r].id # None
    BY <1>1 DEF RequestOK, PhaseOfOp, IdKnown
  <1> DEFINE q == [Idle EXCEPT !.op = req[r].op, !.pc = "undone", !.id = req[r].id,
                               !.got = req[r].got, !.made = req[r].made]
  <1>3. /\ req[r].id \in Identities \cup {None}
        /\ req[r].got \in PrincipalIds \cup {None}
        /\ req[r].made \in BOOLEAN
        /\ 0 \in 0 .. MaxCount
    BY <1>1, StoreAssumption DEF RequestRow
  <1>4. /\ q.op = req[r].op /\ q.who = None /\ q.id = req[r].id
        /\ q.chal = None /\ q.got = req[r].got /\ q.cred = None
        /\ q.made = req[r].made /\ q.pc = "undone"
    BY DEF Idle
  <1>5. q \in RequestRow
    BY <1>2, <1>3, EmptyState DEF RequestRow, Idle, Phases, Handlers
  <1>6. /\ Set(r, q) /\ Observe /\ RollbackIdentityBinding(req[r].got, req[r].id)
        /\ UNCHANGED <<challenge, clock, minted, log>>
    BY DEF Rollback
  <1> HIDE DEF q
  <1>7. RequestOK(q)
    BY <1>1, <1>2, <1>4, <1>5 DEF RequestOK, PhaseOfOp, IdKnown
  <1>8. Step(r, q)
    BY <1>4, <1>6, <1>7, ProperStep
  <1>9. RollsBack(r, q)
    BY <1>1, <1>4, <1>6, <1>8 DEF RollsBack
  <1>10. QED
    BY <1>9 DEF RequestStep

(* A challenge is prepared from the passkeys found.                        *)
LEMMA ListPasskeysStep ==
    ASSUME Shape, NEW r \in Requests, ListPasskeys(r)
    PROVE  RequestStep(r)
  <1> DEFINE found == ByIdentity(req[r].id, "webauthn")
             state == [c \in found |-> credential[c].count]
  <1>1. RequestOK(req[r]) /\ req[r] \in RequestRow /\ req[r].pc = "list_passkeys"
    BY DEF Shape, ListPasskeys, At
  <1>2. /\ req[r].op \in {"webauthn_registration_challenge", "webauthn_authentication_challenge"}
        /\ req[r].got = None /\ req[r].cred = None /\ req[r].id # None
    BY <1>1 DEF RequestOK, PhaseOfOp, IdKnown, ListPasskeys
  <1>3. Observe /\ UNCHANGED <<store, challenge, clock, minted, log>>
    BY DEF ListPasskeys
  <1>4. ASSUME NEW q \in RequestRow, Set(r, q),
               q.op = req[r].op, q.who = req[r].who, q.id = req[r].id,
               q.chal = req[r].chal, q.got = None, q.cred = None,
               q.made = req[r].made, q.pc = "put"
        PROVE  RequestStep(r)
    <2>1. RequestOK(q)
      BY <1>1, <1>2, <1>4 DEF RequestOK, PhaseOfOp, IdKnown
    <2>2. Step(r, q)
      BY <1>3, <1>4, <2>1, ProperStep
    <2>3. Reads(r, q)
      BY <1>1, <1>2, <1>3, <1>4, <2>2 DEF Reads, Continues, Ended
    <2>4. QED
      BY <2>3 DEF RequestStep
  <1>5. CASE req[r].op = "webauthn_registration_challenge"
    <2> DEFINE q == [req[r] EXCEPT !.pc = "put"]
    <2>1. Set(r, q)
      BY <1>5 DEF ListPasskeys
    <2>2. q \in RequestRow
      BY <1>1, RowExcept DEF Phases
    <2>3. /\ q.op = req[r].op /\ q.who = req[r].who /\ q.id = req[r].id
          /\ q.chal = req[r].chal /\ q.got = None /\ q.cred = None
          /\ q.made = req[r].made /\ q.pc = "put"
      BY <1>1, <1>2 DEF RequestRow
    <2> HIDE DEF q
    <2>4. QED
      BY <1>4, <2>1, <2>2, <2>3
  <1>6. CASE req[r].op # "webauthn_registration_challenge" /\ found = {}
    BY <1>3, <1>6, RefusalQuits DEF ListPasskeys
  <1>7. CASE req[r].op # "webauthn_registration_challenge" /\ found # {}
    <2> DEFINE y1 == [req[r] EXCEPT !.pc = "put"]
               y2 == [y1 EXCEPT !.login = None]
               q == [y2 EXCEPT !.state = state]
    <2>1. Set(r, q)
      BY <1>7 DEF ListPasskeys
    <2>2. state \in States
      BY CopyIsState DEF Shape, ByIdentity
    <2> HIDE DEF state
    <2>3. y1 \in RequestRow
      BY <1>1, RowExcept DEF Phases
    <2>4. y2 \in RequestRow
      BY <2>3, RowExcept
    <2>5. q \in RequestRow
      BY <2>2, <2>4, RowExcept
    <2>6. /\ q.op = req[r].op /\ q.who = req[r].who /\ q.id = req[r].id
          /\ q.chal = req[r].chal /\ q.got = None /\ q.cred = None
          /\ q.made = req[r].made /\ q.pc = "put"
      BY <1>1, <1>2 DEF RequestRow
    <2> HIDE DEF q
    <2>7. QED
      BY <1>4, <2>1, <2>5, <2>6
  <1>8. QED
    BY <1>5, <1>6, <1>7

(* The assertion is checked against the challenge and the stored passkey.  *)
LEMMA FinishAuthenticationStep ==
    ASSUME Shape, NEW r \in Requests, FinishAuthentication(r)
    PROVE  RequestStep(r)
  <1> DEFINE found == ByIdentity(req[r].id, "webauthn")
  <1>1. RequestOK(req[r]) /\ req[r] \in RequestRow /\ req[r].pc = "list_passkeys"
    BY DEF Shape, FinishAuthentication, At
  <1>2. /\ req[r].op = "webauthn_authentication_verify"
        /\ req[r].got = None /\ req[r].cred = None /\ req[r].id # None
    BY <1>1 DEF RequestOK, IdKnown, FinishAuthentication
  <1>3. Observe /\ UNCHANGED <<store, challenge, clock, minted, log>>
    BY DEF FinishAuthentication
  <1>4. PICK c \in DOMAIN req[r].state, v \in 0 .. MaxCount :
           Set(r, CASE c \notin found -> Idle
                    [] c \in found /\ v = 0 ->
                          [req[r] EXCEPT !.pc = "find", !.state = <<>>]
                    [] c \in found /\ v > credential[c].count ->
                          [req[r] EXCEPT !.pc = "swap", !.cred = c, !.count = v,
                              !.state = [x \in {c} |-> credential[c].count]]
                    [] OTHER -> Idle)
    BY DEF FinishAuthentication
  <1>5. c \in CredentialIds
    BY <1>1, StateDomain DEF RequestRow
  <1>6. c \in found => c \in DOMAIN credential /\ credential[c].count \in 0 .. MaxCount
    BY DEF ByIdentity, Shape, StoreTypeOK, CredentialRow
  <1>7. CASE c \in found /\ v = 0
    <2> DEFINE y1 == [req[r] EXCEPT !.pc = "find"]
               q == [y1 EXCEPT !.state = <<>>]
    <2>1. (CASE c \notin found -> Idle
             [] c \in found /\ v = 0 -> q
             [] c \in found /\ v > credential[c].count ->
                   [req[r] EXCEPT !.pc = "swap", !.cred = c, !.count = v,
                       !.state = [x \in {c} |-> credential[c].count]]
             [] OTHER -> Idle) = q
      BY <1>6, <1>7
    <2>2. Set(r, q)
      BY <1>4, <2>1
    <2>3. y1 \in RequestRow
      BY <1>1, RowExcept DEF Phases
    <2>4. q \in RequestRow
      BY <2>3, EmptyState, RowExcept
    <2>5. /\ q.op = req[r].op /\ q.who = req[r].who /\ q.id = req[r].id
          /\ q.chal = req[r].chal /\ q.got = None /\ q.cred = None
          /\ q.made = req[r].made /\ q.pc = "find"
      BY <1>1, <1>2 DEF RequestRow
    <2> HIDE DEF q
    <2>6. RequestOK(q)
      BY <1>1, <1>2, <2>4, <2>5 DEF RequestOK, PhaseOfOp, IdKnown
    <2>7. Step(r, q)
      BY <1>3, <2>2, <2>5, <2>6, ProperStep
    <2>8. Reads(r, q)
      BY <1>1, <1>2, <1>3, <2>5, <2>7 DEF Reads, Continues, Ended
    <2>9. QED
      BY <2>8 DEF RequestStep
  <1>8. CASE c \in found /\ v # 0 /\ v > credential[c].count
    <2> DEFINE state == [x \in {c} |-> credential[c].count]
               y1 == [req[r] EXCEPT !.pc = "swap"]
               y2 == [y1 EXCEPT !.cred = c]
               y3 == [y2 EXCEPT !.count = v]
               q == [y3 EXCEPT !.state = state]
    <2>1. Set(r, q)
      BY <1>4, <1>8
    <2>2. /\ state[c] = credential[c].count
          /\ state = [x \in {c} |-> credential[x].count]
      OBVIOUS
    <2>3. state \in States
      BY <1>6, <1>8, <2>2, CopyIsState DEF Shape
    <2> HIDE DEF state
    <2>4. y1 \in RequestRow
      BY <1>1, RowExcept DEF Phases
    <2>5. y2 \in RequestRow
      BY <1>5, <2>4, RowExcept
    <2>6. y3 \in RequestRow
      BY <2>5, RowExcept
    <2>7. q \in RequestRow
      BY <2>3, <2>6, RowExcept
    <2>8. /\ q.op = req[r].op /\ q.who = req[r].who /\ q.id = req[r].id
          /\ q.chal = req[r].chal /\ q.got = None /\ q.cred = c
          /\ q.made = req[r].made /\ q.pc = "swap" /\ q.state = state /\ q.count = v
      BY <1>1, <1>2 DEF RequestRow
    <2> HIDE DEF q
    <2>9. q.state[q.cred] \in Nat /\ q.state[q.cred] < q.count
      BY <1>6, <1>8, <2>2, <2>8
    <2>10. c # None
      BY <1>5, StoreAssumption
    <2>11. RequestOK(q)
      BY <1>1, <1>2, <2>7, <2>8, <2>9, <2>10 DEF RequestOK, PhaseOfOp, IdKnown
    <2>12. Step(r, q)
      BY <1>3, <2>1, <2>8, <2>11, ProperStep
    <2>13. Reads(r, q)
      BY <1>1, <1>2, <1>3, <1>6, <1>8, <2>8, <2>12 DEF Reads, Continues, Ended
    <2>14. QED
      BY <2>13 DEF RequestStep
  <1>9. CASE ~ (c \in found /\ v = 0) /\ ~ (c \in found /\ v # 0 /\ v > credential[c].count)
    <2>1. Refuse(r)
      BY <1>4, <1>9 DEF Refuse
    <2>2. QED
      BY <1>3, <2>1, RefusalQuits
  <1>10. QED
    BY <1>7, <1>8, <1>9

(* A signature counter is accepted by moving the stored one.               *)
LEMMA CompareAndSwapStep ==
    ASSUME Shape, NEW r \in Requests, CompareAndSwap(r)
    PROVE  RequestStep(r)
  <1>1. RequestOK(req[r]) /\ req[r] \in RequestRow /\ req[r].pc = "swap"
    BY DEF Shape, CompareAndSwap, At
  <1>2. /\ req[r].op = "webauthn_authentication_verify"
        /\ req[r].got = None /\ req[r].id # None
        /\ req[r].state[req[r].cred] < req[r].count
    BY <1>1 DEF RequestOK, IdKnown, PhaseOfOp
  <1>3. Observe /\ UNCHANGED <<challenge, clock, minted>>
    BY DEF CompareAndSwap
  <1>4. CASE CanSwap(req[r].cred, req[r].state[req[r].cred])
    <2> DEFINE y1 == [req[r] EXCEPT !.pc = "find"]
               y2 == [y1 EXCEPT !.cred = None]
               y3 == [y2 EXCEPT !.count = 0]
               q == [y3 EXCEPT !.state = <<>>]
    <2>1. /\ Set(r, q) /\ SetCount(req[r].cred, req[r].count)
          /\ log' = Append(log, <<req[r].cred, req[r].count>>)
      BY <1>4 DEF CompareAndSwap
    <2>2. y1 \in RequestRow
      BY <1>1, RowExcept DEF Phases
    <2>3. y2 \in RequestRow
      BY <2>2, RowExcept
    <2>4. 0 \in 0 .. MaxCount
      BY StoreAssumption
    <2>5. y3 \in RequestRow
      BY <2>3, <2>4, RowExcept
    <2>6. q \in RequestRow
      BY <2>5, EmptyState, RowExcept
    <2>7. /\ q.op = req[r].op /\ q.who = req[r].who /\ q.id = req[r].id
          /\ q.chal = req[r].chal /\ q.got = None /\ q.cred = None /\ q.pc = "find"
      BY <1>1, <1>2 DEF RequestRow
    <2> HIDE DEF q
    <2>8. RequestOK(q)
      BY <1>1, <1>2, <2>6, <2>7 DEF RequestOK, PhaseOfOp, IdKnown
    <2>9. Step(r, q)
      BY <1>3, <2>1, <2>7, <2>8, ProperStep
    <2>10. Counts(r, q)
      BY <1>1, <1>2, <1>3, <1>4, <2>1, <2>7, <2>9 DEF Counts, Continues, Ended, CanSwap
    <2>11. QED
      BY <2>10 DEF RequestStep
  <1>5. CASE ~ CanSwap(req[r].cred, req[r].state[req[r].cred])
    BY <1>5, RefusalQuits DEF CompareAndSwap
  <1>6. QED
    BY <1>4, <1>5

(* A challenge is stored for the client.                                   *)
LEMMA PutChallengeStep ==
    ASSUME Shape, NEW r \in Requests, PutChallenge(r)
    PROVE  RequestStep(r)
  <1>1. RequestOK(req[r]) /\ req[r] \in RequestRow /\ req[r].pc = "put"
    BY DEF Shape, PutChallenge, At
  <1>2. /\ req[r].op \in {"oauth_authorize", "wallet_challenge", "totp_enrollment_challenge",
                          "webauthn_registration_challenge",
                          "webauthn_authentication_challenge"}
        /\ req[r].got = None
    BY <1>1 DEF RequestOK, PhaseOfOp
  <1>3. Purpose(req[r].op) = "totp" <=> req[r].op = "totp_enrollment_challenge"
    BY <1>2 DEF Purpose
  <1>4. Purpose(req[r].op) = "wallet" <=> req[r].op = "wallet_challenge"
    BY <1>2 DEF Purpose
  <1>5. Purpose(req[r].op) \in {"oauth", "wallet", "totp", "registration", "authentication"}
    BY DEF Purpose
  <1>6. Purpose(req[r].op) = "oauth" <=> req[r].op = "oauth_authorize"
    BY <1>2 DEF Purpose
  <1> DEFINE ch(c) ==
               [purpose |-> Purpose(req[r].op), id |-> req[r].id, who |-> req[r].who,
                provider |-> req[r].provider, amr |-> req[r].amr, cred |-> c,
                state |-> req[r].state]
             y1 == [req[r] EXCEPT !.id = None]
             y2 == [y1 EXCEPT !.amr = {}]
             q == Answer(y2, None)
  <1>7. PICK k \in Fresh(ChallengeIds),
             c \in IF req[r].op = "totp_enrollment_challenge" THEN Fresh(CredentialIds)
                   ELSE {None} :
          /\ minted' = (minted \cup {k, c}) \ {None}
          /\ challenge' = With(challenge, k, ch(c))
    BY <1>3 DEF PutChallenge
  <1>8. Set(r, q) /\ Observe /\ UNCHANGED <<store, clock, log>>
    BY DEF PutChallenge
  <1>9. y1 \in RequestRow
    BY <1>1, RowExcept
  <1>10. y2 \in RequestRow
    BY <1>9, RowExcept
  <1>11. y2.op = req[r].op /\ y2.pc = "put" /\ y2.chal = req[r].chal /\ y2.id = None
    BY <1>1 DEF RequestRow
  <1>12. /\ q.op = req[r].op /\ q.who = None /\ q.id = None /\ q.chal = req[r].chal
         /\ q.got = None /\ q.cred = None /\ q.pc = "answered"
    BY <1>11 DEF Answer, Idle
  <1>13. q \in RequestRow
    <2>1. /\ y2.op \in Handlers \cup {"none"}
          /\ y2.amr \in SUBSET Amr
          /\ y2.chal \in ChallengeIds \cup {None}
      BY <1>10 DEF RequestRow
    <2>2. 0 \in 0 .. MaxCount
      BY StoreAssumption
    <2> HIDE DEF y2
    <2>3. QED
      BY <1>11, <2>1, <2>2, EmptyState DEF Answer, RequestRow, Idle, Phases
  <1> HIDE DEF q, y1, y2
  <1>14. RequestOK(q)
    BY <1>12, <1>13 DEF RequestOK, PhaseOfOp, IdKnown
  <1>15. Step(r, q)
    BY <1>8, <1>12, <1>14, ProperStep
  <1>16. c \in CredentialIds \cup {None} /\ (c # None <=> req[r].op = "totp_enrollment_challenge")
    BY StoreAssumption DEF Fresh
  <1>17. ch(c) \in ChallengeRow
    BY <1>1, <1>5, <1>16 DEF ChallengeRow, RequestRow
  <1>18. req[r].op # "oauth_authorize" => req[r].id # None
    BY <1>1 DEF RequestOK
  <1>19. /\ req[r].op = "wallet_challenge" => req[r].id \in Accounts
         /\ req[r].op \notin {"wallet_challenge", "oauth_authorize"} => req[r].id \in Subjects
    BY <1>1, <1>2, <1>18 DEF RequestOK, StandaloneOps, AccountOps, Handlers
  <1>20. ChallengeOK(ch(c))
    BY <1>3, <1>4, <1>6, <1>16, <1>17, <1>19 DEF ChallengeOK
  <1>21. Continues(req[r], q)
    BY <1>1, <1>12 DEF Continues, Ended
  <1>22. ch(c).id = req[r].id /\ ch(c).who = req[r].who /\ ch(c).cred = c
    OBVIOUS
  <1>23. Puts(r, q)
    <2> HIDE DEF ch
    <2>1. QED
      BY <1>1, <1>7, <1>8, <1>12, <1>15, <1>20, <1>21, <1>22 DEF Puts
  <1>24. QED
    BY <1>23 DEF RequestStep

(* A challenge is taken out of the cache.                                  *)
LEMMA TakeChallengeStep ==
    ASSUME Shape, NEW r \in Requests, TakeChallenge(r)
    PROVE  RequestStep(r)
  <1> DEFINE ch == challenge[req[r].chal]
  <1>1. RequestOK(req[r]) /\ req[r] \in RequestRow /\ req[r].pc = "take"
    BY DEF Shape, TakeChallenge, At
  <1>2. /\ req[r].op \in {"totp_enrollment_verify", "webauthn_registration_verify",
                          "webauthn_authentication_verify", "oauth_callback",
                          "wallet_verify", "wallet_link"}
        /\ req[r].got = None /\ req[r].cred = None /\ req[r].chal # None
    BY <1>1 DEF RequestOK, PhaseOfOp
  <1>3. /\ req[r].chal \in DOMAIN challenge /\ ch.purpose = Purpose(req[r].op)
        /\ challenge' = Restrict(challenge, DOMAIN challenge \ {req[r].chal})
        /\ Observe /\ UNCHANGED <<store, clock, minted, log>>
    BY DEF TakeChallenge, Without
  <1>4. PICK n \in Window : Set(r, Taken(req[r], ch, n))
    BY DEF TakeChallenge
  <1>5. n \in 0 .. MaxCount
    BY AuthenticationAssumption, StoreAssumption DEF Window
  <1>6. ChallengeOK(ch)
    BY <1>3 DEF Shape
  <1> DEFINE q == Taken(req[r], ch, n)
  <1> HIDE DEF ch
  <1>7. RequestOK(q)
    BY <1>1, <1>3, <1>5, <1>6, TakenOK
  <1>8. \/ q = Idle
        \/ /\ q.op = req[r].op /\ q.chal = req[r].chal
           /\ q.pc \in {"authenticate", "find", "permit", "write", "list_passkeys"}
           /\ q.op \notin {"register", "login"}
           /\ q.got = None
           /\ q.who \in {req[r].who, ch.who}
           /\ q.id \in {req[r].id, ch.id}
           /\ q.pc = "write" => /\ q.op = "totp_enrollment_verify"
                                /\ ch.purpose = "totp" /\ q.cred = ch.cred
           /\ q.pc = "permit" => q.todo \subseteq DOMAIN AllowLink
    <2>1. CASE req[r].op = "oauth_callback"
      <3>1. CASE ch.provider = req[r].provider
        <4>1. q = [req[r] EXCEPT !.pc = "authenticate", !.who = ch.who]
          BY <2>1, <3>1 DEF Taken
        <4>2. /\ q.op = req[r].op /\ q.chal = req[r].chal /\ q.pc = "authenticate"
              /\ q.got = req[r].got /\ q.who = ch.who /\ q.id = req[r].id
          BY <1>1, <4>1 DEF RequestRow
        <4> HIDE DEF q
        <4>3. QED
          BY <1>2, <2>1, <4>2
      <3>2. CASE ch.provider # req[r].provider
        BY <2>1, <3>2 DEF Taken
      <3>3. QED
        BY <3>1, <3>2
    <2>2. CASE req[r].op \in {"wallet_verify", "wallet_link"}
      <3> DEFINE y == [req[r] EXCEPT !.id = ch.id]
      <3>1. q = LinkOrLogin(y)
        BY <2>2 DEF Taken
      <3>2. ch.id \in Identities \cup {None}
        BY <1>6 DEF ChallengeOK, ChallengeRow
      <3>3. y \in RequestRow
        BY <1>1, <3>2, RowExcept
      <3>4. /\ y.op = req[r].op /\ y.who = req[r].who /\ y.id = ch.id
            /\ y.chal = req[r].chal /\ y.got = None
        BY <1>1, <1>2 DEF RequestRow
      <3> HIDE DEF q, y
      <3>5. QED
        BY <1>2, <2>2, <3>1, <3>3, <3>4, LinkOrLoginKeeps
    <2>3. CASE req[r].op = "totp_enrollment_verify"
      <3>1. q = [req[r] EXCEPT !.pc = "write", !.id = ch.id, !.cred = ch.cred,
                               !.count = n, !.amr = {"pwd", "otp"}]
        BY <2>3 DEF Taken
      <3>2. /\ q.op = req[r].op /\ q.chal = req[r].chal /\ q.pc = "write"
            /\ q.got = req[r].got /\ q.who = req[r].who /\ q.id = ch.id /\ q.cred = ch.cred
        BY <1>1, <3>1 DEF RequestRow
      <3>3. ch.purpose = "totp"
        BY <1>3, <2>3 DEF Purpose
      <3> HIDE DEF q
      <3>4. QED
        BY <1>2, <2>3, <3>2, <3>3
    <2>4. CASE req[r].op = "webauthn_registration_verify"
      <3>1. CASE ch.who = req[r].who
        <4>1. q = [req[r] EXCEPT !.pc = "find", !.id = ch.id,
                                 !.amr = ch.amr \cup {"webauthn"}]
          BY <2>4, <3>1 DEF Taken
        <4>2. /\ q.op = req[r].op /\ q.chal = req[r].chal /\ q.pc = "find"
              /\ q.got = req[r].got /\ q.who = req[r].who /\ q.id = ch.id
          BY <1>1, <4>1 DEF RequestRow
        <4> HIDE DEF q
        <4>3. QED
          BY <1>2, <2>4, <4>2
      <3>2. CASE ch.who # req[r].who
        BY <2>4, <3>2 DEF Taken
      <3>3. QED
        BY <3>1, <3>2
    <2>5. CASE req[r].op = "webauthn_authentication_verify"
      <3>1. q = [req[r] EXCEPT !.pc = "list_passkeys", !.id = ch.id,
                               !.state = ch.state, !.amr = {"webauthn"}]
        BY <2>5 DEF Taken
      <3>2. /\ q.op = req[r].op /\ q.chal = req[r].chal /\ q.pc = "list_passkeys"
            /\ q.got = req[r].got /\ q.who = req[r].who /\ q.id = ch.id
        BY <1>1, <3>1 DEF RequestRow
      <3> HIDE DEF q
      <3>3. QED
        BY <1>2, <2>5, <3>2
    <2>6. QED
      BY <1>2, <2>1, <2>2, <2>3, <2>4, <2>5
  <1> HIDE DEF q
  <1>9. q.op \in {req[r].op, "none"}
    BY <1>8 DEF Idle
  <1>10. Step(r, q)
    BY <1>3, <1>4, <1>7, <1>9 DEF q, Step, Shape
  <1>11. Takes(r, q)
    BY <1>1, <1>3, <1>8, <1>10 DEF Takes, ch
  <1>12. QED
    BY <1>11 DEF RequestStep

(* An outside provider has vouched for an account.                         *)
LEMMA AuthenticateAccountStep ==
    ASSUME Shape, NEW r \in Requests, AuthenticateAccount(r)
    PROVE  RequestStep(r)
  <1>1. RequestOK(req[r]) /\ req[r] \in RequestRow /\ req[r].pc = "authenticate"
    BY DEF Shape, AuthenticateAccount, At
  <1>2. /\ req[r].op \in {"token_exchange", "oauth_callback"}
        /\ req[r].got = None /\ req[r].cred = None
    BY <1>1 DEF RequestOK, PhaseOfOp
  <1>3. Observe /\ UNCHANGED <<store, challenge, clock, minted, log>>
    BY DEF AuthenticateAccount
  <1>4. PICK a \in profile.accounts :
           Set(r, LinkOrLogin([req[r] EXCEPT !.id = a, !.provider = None]))
    BY DEF AuthenticateAccount
  <1>5. a \in Accounts /\ a \in Identities
    BY AuthenticationAssumption DEF Shape, Identities
  <1> DEFINE y1 == [req[r] EXCEPT !.id = a]
             y2 == [y1 EXCEPT !.provider = None]
             q == LinkOrLogin(y2)
  <1>6. Set(r, q)
    BY <1>4
  <1>7. y1 \in RequestRow
    BY <1>1, <1>5, RowExcept
  <1>8. y2 \in RequestRow
    BY <1>7, RowExcept
  <1>9. /\ y2.op = req[r].op /\ y2.who = req[r].who /\ y2.id = a /\ y2.chal = req[r].chal
        /\ y2.got = None /\ y2.cred = None /\ y2.made = req[r].made
    BY <1>1, <1>2 DEF RequestRow
  <1> HIDE DEF y1, y2
  <1>10. RequestOK(q)
    BY <1>1, <1>2, <1>5, <1>8, <1>9, LinkOrLoginOK DEF AccountOps, StandaloneOps, Handlers
  <1>11. /\ q.op = req[r].op /\ q.who = req[r].who /\ q.id = a /\ q.chal = req[r].chal
         /\ q.got = None /\ q.cred = None /\ q.made = req[r].made
         /\ q.pc \in {"find", "permit"}
         /\ q.pc = "permit" => q.todo = DOMAIN AllowLink
    BY <1>8, <1>9, LinkOrLoginKeeps
  <1> HIDE DEF q
  <1>12. Step(r, q)
    BY <1>3, <1>6, <1>10, <1>11, ProperStep
  <1>13. Reads(r, q)
    BY <1>1, <1>2, <1>3, <1>5, <1>11, <1>12 DEF Reads, Continues, Ended
  <1>14. QED
    BY <1>13 DEF RequestStep

(* So every step of a request is of one of the kinds.                      *)
LEMMA RequestSteps ==
    ASSUME Shape, NEW r \in Requests, Arrive(r) \/ Proceed(r) \/ Abandon(r)
    PROVE  RequestStep(r)
  <1>1. CASE Arrive(r)
    <2>1. PICK q : Begin(r, q) /\ RequestOK(q) /\ Arrival(q)
      BY <1>1, ArriveIsBegin
    <2>2. Arrives(r, q)
      BY <2>1 DEF Begin, Arrives, Step
    <2>3. QED
      BY <2>2 DEF RequestStep
  <1>2. CASE Proceed(r)
    BY <1>2, RegisterFindsKeyStep, FindByKeyStep, ListTotpStep, AdvanceTotpCounterStep,
       FindPrincipalStep, CreatePrincipalStep, PrincipalHasProviderStep,
       BindExternalIdentityStep, WriteCredentialStep, WriteFailsStep, RollbackStep,
       ListPasskeysStep, FinishAuthenticationStep, CompareAndSwapStep, PutChallengeStep,
       TakeChallengeStep, AuthenticateAccountStep, Zenon DEF Proceed
  <1>3. CASE Abandon(r)
    BY <1>3, RefusalQuits DEF Abandon
  <1>4. QED
    BY <1>1, <1>2, <1>3

-----------------------------------------------------------------------------
(* What a step does to the tables.                                         *)

Effects ==
    /\ \A i \in DOMAIN identity : i \in DOMAIN identity' => identity'[i] = identity[i]
    /\ \A i \in DOMAIN identity : i \notin DOMAIN identity' =>
          \/ identity[i].owner \notin DOMAIN principal'
          \/ \E r \in Requests : /\ Sole(r) /\ req[r].id = i
                                /\ req[r].pc = "rollback" /\ req'[r].pc = "undone"
    /\ \A i \in DOMAIN identity' : i \notin DOMAIN identity =>
          \/ i \in Accounts
          \/ \E r \in Requests :
                /\ req[r].id = i
                /\ req[r].pc \in {"create", "bind"}
                /\ req'[r].pc \notin {"find", "create", "permit", "bind", "undone"}
                /\ Sole(r) \/ identity'[i].owner \notin minted
    /\ \A p \in DOMAIN principal' : p \notin DOMAIN principal =>
          /\ p \in minted'
          /\ p \notin minted \/ \E a \in Accounts \cap DOMAIN identity' : identity'[a].owner = p
    /\ \A p \in DOMAIN principal' :
          p \in DOMAIN principal /\ IdentitiesOf(p) # {} => IdentitiesOf(p)' # {}
    /\ \A c \in DOMAIN credential : c \in DOMAIN credential' =>
          /\ credential'[c].identity = credential[c].identity
          /\ credential'[c].kind = credential[c].kind
          /\ credential[c].count <= credential'[c].count
    /\ \A c \in DOMAIN credential : c \notin DOMAIN credential' =>
          credential[c].identity \notin DOMAIN identity'
    /\ \A c \in DOMAIN credential' : c \notin DOMAIN credential =>
          /\ c \in minted'
          /\ \E r \in Requests :
                /\ req[r].pc = "write" /\ req'[r].pc # "write"
                /\ credential'[c].identity = req[r].id
                /\ c \notin minted \/ (Enrols(r) /\ c = req[r].cred)
    /\ minted \subseteq minted'

(* The tables keep their types and their foreign keys.                     *)
Stored == StoreTypeOK /\ References

(* No identifier is None.                                                  *)
LEMMA NoneIsNoId ==
    ASSUME Shape
    PROVE  /\ None \notin minted /\ None \notin tokens /\ None \notin DOMAIN principal
           /\ None \notin DOMAIN identity /\ None \notin DOMAIN credential
           /\ None \notin DOMAIN challenge
  BY StoreAssumption, AuthenticationAssumption DEF Shape, StoreTypeOK, Identities

(* What a step leaves of the other requests.                               *)
LEMMA StepFrame ==
    ASSUME Shape, NEW r \in Requests, NEW q, Step(r, q)
    PROVE  /\ req'[r] = q
           /\ \A s \in Requests : s # r => req'[s] = req[s]
           /\ req' \in [Requests -> RequestRow]
           /\ tokens \subseteq tokens'
           /\ tokens' \subseteq tokens \cup {q.got}
           /\ None \notin tokens'
           /\ q.pc = "answered" /\ q.got # None => q.got \in tokens'
           /\ q.pc # "answered" => tokens' = tokens
           /\ profile' = profile
  BY NoneIsNoId DEF Shape, Step, Set, Observe, RequestOK

(* What a step leaves of the history: only a request that arrives forgets. *)
LEMMA StepHistory ==
    ASSUME Shape, NEW r \in Requests, NEW q, Step(r, q)
    PROVE  /\ \A s \in Requests : s # r => guarded'[s] \subseteq guarded[s]
           /\ req[r].pc \notin Ended => guarded'[r] \subseteq guarded[r]
           /\ guarded'[r] \subseteq guarded[r] \cup Guarded
           /\ \A s \in Requests : s # r /\ req[s] # Idle => live[s] \subseteq live'[s]
           /\ req[r].pc \notin Ended /\ q # Idle => live'[r] = live[r] \cup Active \cup Active'
  <1>1. /\ req'[r] = q
        /\ \A s \in Requests : s # r => req'[s] = req[s]
    BY StepFrame
  <1>2. Observe
    BY DEF Step
  <1> HIDE DEF Guarded, Active, Idle, Ended
  <1>3. QED
    BY <1>1, <1>2 DEF Observe

(* A request remembers that its principal was deleted.                     *)
Remembers ==
    \A s \in Requests :
        req'[s] # Idle /\ (req'[s] = req[s] \/ req[s].pc \notin Ended) =>
            \A p \in {req[s].who, req[s].got} :
                p \in gone[s] \/ (p \in DOMAIN principal /\ p \notin DOMAIN principal')
                    => p \in gone'[s]

(* The history variable is kept so.                                        *)
LEMMA ObserveRemembers == Observe => Remembers
  <1> HIDE DEF Guarded, Active, Idle, Ended
  <1>1. QED
    BY DEF Observe, Remembers

(* Nothing written, nothing changed.                                       *)
LEMMA QuietEffects ==
    ASSUME Shape, References, UNCHANGED store, minted \subseteq minted'
    PROVE  Effects /\ Stored'
  <1>1. \A c \in DOMAIN credential : credential[c].count \in Int
    BY StoreAssumption DEF Shape, StoreTypeOK, CredentialRow
  <1>2. Effects
    BY <1>1 DEF Effects, store, IdentitiesOf
  <1>3. Stored'
    BY DEF Stored, Shape, References, StoreTypeOK, store
  <1>4. QED
    BY <1>2, <1>3

(* A counter moves forward.                                                *)
LEMMA CountsEffects ==
    ASSUME Shape, References, NEW r \in Requests, NEW q, Counts(r, q)
    PROVE  Effects /\ Stored'
  <1> DEFINE c0 == req[r].cred
             n0 == req[r].count
  <1>1. /\ c0 \in DOMAIN credential /\ credential[c0].count < n0
        /\ credential' = [credential EXCEPT ![c0].count = n0]
        /\ UNCHANGED <<principal, identity, minted>>
    BY DEF Counts, SetCount
  <1>2. n0 \in 0 .. MaxCount
    BY DEF Shape, RequestRow
  <1>3. \A c \in DOMAIN credential : credential[c] \in CredentialRow /\ credential[c].count \in Int
    BY StoreAssumption DEF Shape, StoreTypeOK, CredentialRow
  <1>4. DOMAIN credential' = DOMAIN credential
    BY <1>1
  <1>5. \A c \in DOMAIN credential :
           /\ c # c0 => credential'[c] = credential[c]
           /\ c = c0 => credential'[c] = [credential[c0] EXCEPT !.count = n0]
    BY <1>1
  <1>6. /\ [credential[c0] EXCEPT !.count = n0].identity = credential[c0].identity
        /\ [credential[c0] EXCEPT !.count = n0].kind = credential[c0].kind
        /\ [credential[c0] EXCEPT !.count = n0].count = n0
        /\ [credential[c0] EXCEPT !.count = n0] \in CredentialRow
    BY <1>1, <1>2, <1>3 DEF CredentialRow
  <1> HIDE DEF c0, n0
  <1>7. n0 \in Int
    BY <1>2, StoreAssumption
  <1>8. Effects
    BY <1>1, <1>3, <1>4, <1>5, <1>6, <1>7 DEF Effects, IdentitiesOf
  <1>9. StoreTypeOK'
    BY <1>1, <1>3, <1>4, <1>5, <1>6 DEF Shape, StoreTypeOK
  <1>10. References'
    BY <1>1, <1>4, <1>5, <1>6 DEF References
  <1>11. QED
    BY <1>8, <1>9, <1>10 DEF Stored

(* A function on fewer arguments.                                          *)
LEMMA RestrictIs ==
    ASSUME NEW f, NEW S
    PROVE  /\ DOMAIN Restrict(f, S) = S
           /\ \A x \in S : Restrict(f, S)[x] = f[x]
  BY DEF Restrict

(* A principal is created with its first identity.                         *)
LEMMA CreatesEffects ==
    ASSUME Shape, References, InUseIsMinted, NEW r \in Requests, NEW q, Creates(r, q)
    PROVE  Effects /\ Stored'
  <1> DEFINE i0 == req[r].id
  <1>1. PICK new \in Fresh(PrincipalIds) :
           /\ minted' = minted \cup {new}
           /\ CreatePrincipalAndBind(new, i0)
           /\ Knows(req[r], q, new)
    BY DEF Creates
  <1> DEFINE row == [owner |-> new, via |-> "created"]
  <1>2. /\ i0 \notin DOMAIN identity
        /\ principal' = With(principal, new, "active")
        /\ identity' = With(identity, i0, row)
        /\ credential' = credential
    BY <1>1 DEF CreatePrincipalAndBind
  <1>3. new \in PrincipalIds /\ new \notin minted /\ new \notin DOMAIN principal
    BY DEF Fresh, InUseIsMinted
  <1>4. /\ DOMAIN principal' = DOMAIN principal \cup {new} /\ principal'[new] = "active"
        /\ \A p \in DOMAIN principal : principal'[p] = principal[p]
    BY <1>2, <1>3 DEF With
  <1>5. /\ DOMAIN identity' = DOMAIN identity \cup {i0} /\ identity'[i0] = row
        /\ \A i \in DOMAIN identity : identity'[i] = identity[i]
    BY <1>2 DEF With
  <1>6. req[r].pc = "create" /\ RequestOK(req[r]) /\ req'[r] = q
    BY StepFrame DEF Creates, Shape
  <1>7. i0 \in Identities
    BY <1>6, StoreAssumption DEF RequestOK, RequestRow, IdKnown
  <1>8. q.pc \notin {"find", "create", "permit", "bind", "undone"}
    BY <1>1 DEF Knows, Idle
  <1>9. row \in IdentityRow /\ row.owner = new
    BY <1>3 DEF IdentityRow
  <1>10. \A c \in DOMAIN credential : credential[c].count \in Int
    BY StoreAssumption DEF Shape, StoreTypeOK, CredentialRow
  <1> HIDE DEF i0, row
  <1>11. Effects
    <2>1. \A p \in DOMAIN principal' :
             p \in DOMAIN principal /\ IdentitiesOf(p) # {} => IdentitiesOf(p)' # {}
      BY <1>5 DEF IdentitiesOf
    <2>2. QED
      BY <1>1, <1>2, <1>3, <1>4, <1>5, <1>6, <1>8, <1>9, <1>10, <2>1 DEF Effects, i0
  <1>12. StoreTypeOK'
    BY <1>2, <1>3, <1>4, <1>5, <1>7, <1>9 DEF Shape, StoreTypeOK
  <1>13. References'
    BY <1>2, <1>4, <1>5, <1>9 DEF References
  <1>14. QED
    BY <1>11, <1>12, <1>13 DEF Stored

(* An identity is bound to the principal of a session.                     *)
LEMMA BindsEffects ==
    ASSUME Shape, References, NEW r \in Requests, NEW q, Binds(r, q)
    PROVE  Effects /\ Stored'
  <1> DEFINE i0 == req[r].id
             p0 == req[r].who
             row == [owner |-> p0, via |-> "linked"]
  <1>1. /\ p0 \in DOMAIN principal /\ i0 \notin DOMAIN identity
        /\ identity' = With(identity, i0, row)
        /\ principal' = principal /\ credential' = credential /\ minted' = minted
    BY DEF Binds, BindIdentity
  <1>2. /\ DOMAIN identity' = DOMAIN identity \cup {i0} /\ identity'[i0] = row
        /\ \A i \in DOMAIN identity : identity'[i] = identity[i]
    BY <1>1 DEF With
  <1>3. req[r].pc = "bind" /\ RequestOK(req[r]) /\ req'[r] = q
    BY StepFrame DEF Binds, Shape
  <1>4. q.pc \notin {"find", "create", "permit", "bind", "undone"}
    BY DEF Binds, Idle
  <1>5. i0 \in Identities /\ i0 # None
    BY <1>3, StoreAssumption DEF RequestOK, RequestRow, IdKnown
  <1>6. i0 \in Accounts \/ Sole(r)
    BY <1>3, <1>5 DEF RequestOK, PhaseOfOp, Sole
  <1>7. row \in IdentityRow /\ row.owner = p0
    BY <1>1 DEF IdentityRow, Shape, StoreTypeOK
  <1>8. \A c \in DOMAIN credential : credential[c].count \in Int
    BY StoreAssumption DEF Shape, StoreTypeOK, CredentialRow
  <1> HIDE DEF i0, row, p0
  <1>9. Effects
    <2>1. \A p \in DOMAIN principal' :
             p \in DOMAIN principal /\ IdentitiesOf(p) # {} => IdentitiesOf(p)' # {}
      BY <1>2 DEF IdentitiesOf
    <2>2. QED
      BY <1>1, <1>2, <1>3, <1>4, <1>6, <1>8, <2>1 DEF Effects, i0
  <1>10. StoreTypeOK'
    BY <1>1, <1>2, <1>5, <1>7 DEF Shape, StoreTypeOK
  <1>11. References'
    BY <1>1, <1>2, <1>7 DEF References
  <1>12. QED
    BY <1>9, <1>10, <1>11 DEF Stored

(* The row a request writes.                                               *)
LEMMA NewCredentialIs ==
    ASSUME NEW p, RequestOK(p), p.pc = "write"
    PROVE  /\ NewCredential(p) \in CredentialRow
           /\ NewCredential(p).identity = p.id
           /\ p.op = "totp_enrollment_verify" => NewCredential(p).count = p.count
  <1>1. /\ p.op \in {"register", "totp_enrollment_verify", "webauthn_registration_verify"}
        /\ p.id \in Subjects
        /\ p.login \in Logins \cup {None} /\ p.got \in PrincipalIds \cup {None}
        /\ p.count \in 0 .. MaxCount /\ 0 \in 0 .. MaxCount
    BY StoreAssumption DEF RequestOK, RequestRow, PhaseOfOp, StandaloneOps, IdKnown
  <1>2. QED
    BY <1>1 DEF NewCredential, CredentialRow

(* A credential is written under an id that nobody has used.               *)
LEMMA WritesEffects ==
    ASSUME Shape, References, InUseIsMinted, ReservedIsUnused,
           NEW r \in Requests, NEW q, Writes(r, q)
    PROVE  Effects /\ Stored'
  <1> DEFINE row == NewCredential(req[r])
  <1>1. req[r].pc = "write" /\ RequestOK(req[r]) /\ req'[r] = q /\ q.pc # "write"
    BY StepFrame DEF Writes, Shape
  <1>2. PICK c0 \in IF req[r].op = "totp_enrollment_verify" THEN {req[r].cred}
                    ELSE Fresh(CredentialIds) :
           /\ credential' = With(credential, c0, row)
           /\ minted' = minted \cup {c0}
    BY DEF Writes
  <1>3. row \in CredentialRow /\ row.identity = req[r].id
    BY <1>1, NewCredentialIs
  <1>4. row.identity \in DOMAIN identity /\ principal' = principal /\ identity' = identity
    BY DEF Writes, Insertable
  <1>5. /\ c0 \in CredentialIds /\ c0 \notin DOMAIN credential
        /\ c0 \notin minted \/ (Enrols(r) /\ c0 = req[r].cred)
    <2>1. CASE req[r].op = "totp_enrollment_verify"
      <3>1. Enrols(r) /\ c0 = req[r].cred /\ req[r].cred # None
        BY <1>1, <1>2, <2>1 DEF Enrols, RequestOK
      <3>2. QED
        BY <1>1, <3>1 DEF ReservedIsUnused, Unused, RequestOK, RequestRow
    <2>2. CASE req[r].op # "totp_enrollment_verify"
      BY <1>2, <2>2 DEF Fresh, InUseIsMinted
    <2>3. QED
      BY <2>1, <2>2
  <1> HIDE DEF row
  <1>6. /\ DOMAIN credential' = DOMAIN credential \cup {c0} /\ credential'[c0] = row
        /\ \A c \in DOMAIN credential : credential'[c] = credential[c]
    BY <1>2, <1>5 DEF With
  <1>7. \A c \in DOMAIN credential : credential[c].count \in Int
    BY StoreAssumption DEF Shape, StoreTypeOK, CredentialRow
  <1>8. Effects
    BY <1>1, <1>2, <1>3, <1>4, <1>5, <1>6, <1>7 DEF Effects, IdentitiesOf
  <1>9. StoreTypeOK'
    BY <1>3, <1>4, <1>5, <1>6 DEF Shape, StoreTypeOK
  <1>10. References'
    BY <1>4, <1>6 DEF References
  <1>11. QED
    BY <1>8, <1>9, <1>10 DEF Stored

(* Deleting keeps the types, and the foreign keys if it cascades.          *)
LEMMA KeepOnlyStored ==
    ASSUME StoreTypeOK, NEW P \in SUBSET DOMAIN principal, NEW I \in SUBSET DOMAIN identity,
           KeepOnly(P, I), \A i \in I : identity[i].owner \in P
    PROVE  /\ Stored'
           /\ DOMAIN principal' = P /\ DOMAIN identity' = I
           /\ \A p \in P : principal'[p] = principal[p]
           /\ \A i \in I : identity'[i] = identity[i]
           /\ DOMAIN credential' \subseteq DOMAIN credential
           /\ \A c \in DOMAIN credential' : credential'[c] = credential[c]
           /\ \A c \in DOMAIN credential :
                 c \in DOMAIN credential' <=> credential[c].identity \in I
  <1> DEFINE C == {c \in DOMAIN credential : credential[c].identity \in I}
  <1>1. /\ principal' = Restrict(principal, P) /\ identity' = Restrict(identity, I)
        /\ credential' = Restrict(credential, C)
    BY DEF KeepOnly
  <1>2. /\ DOMAIN principal' = P /\ DOMAIN identity' = I /\ DOMAIN credential' = C
        /\ \A p \in P : principal'[p] = principal[p]
        /\ \A i \in I : identity'[i] = identity[i]
        /\ \A c \in C : credential'[c] = credential[c]
    BY <1>1, RestrictIs
  <1>3. StoreTypeOK'
    BY <1>2 DEF StoreTypeOK
  <1>4. References'
    BY <1>2 DEF References
  <1>5. QED
    BY <1>2, <1>3, <1>4 DEF Stored

(* A rollback takes one identity, and the principal that has no other.     *)
LEMMA RollsBackEffects ==
    ASSUME Shape, References, NEW r \in Requests, NEW q, RollsBack(r, q)
    PROVE  /\ Effects /\ Stored'
           /\ Owner(req[r].id) = req[r].got => req[r].id \notin DOMAIN identity'
           /\ req[r].got \in DOMAIN principal' => IdentitiesOf(req[r].got)' # {}
           /\ \A p \in DOMAIN principal : p # req[r].got => p \in DOMAIN principal'
           /\ (\E i \in IdentitiesOf(req[r].got) : i # req[r].id) =>
                 DOMAIN principal' = DOMAIN principal
  <1> DEFINE i0 == req[r].id
             p0 == req[r].got
             lost == IF Owner(i0) = p0 THEN {i0} ELSE {}
             P == IF IdentitiesOf(p0) \subseteq lost THEN DOMAIN principal \ {p0}
                  ELSE DOMAIN principal
             I == DOMAIN identity \ lost
  <1>1. req[r].pc = "rollback" /\ RequestOK(req[r]) /\ req'[r] = q /\ q.pc = "undone"
    BY StepFrame DEF RollsBack, Shape
  <1>2. KeepOnly(P, I) /\ minted' = minted
    BY DEF RollsBack, RollbackIdentityBinding
  <1>3. \A i \in I : identity[i].owner \in P
    BY DEF References, IdentitiesOf
  <1>4. Sole(r)
    BY <1>1 DEF RequestOK, PhaseOfOp, IdKnown, Sole
  <1>5. StoreTypeOK
    BY DEF Shape
  <1>6. /\ P \in SUBSET DOMAIN principal /\ I \in SUBSET DOMAIN identity
        /\ \A i \in DOMAIN identity \ I : i = i0
        /\ \A p \in P : p \in DOMAIN principal
        /\ p0 \in P => \E i \in I : identity[i].owner = p0
        /\ \A p \in DOMAIN principal : p # p0 => p \in P
        /\ Owner(i0) = p0 => i0 \notin I
        /\ (\E i \in IdentitiesOf(p0) : i # i0) => P = DOMAIN principal
        /\ \A i \in DOMAIN identity : i \notin I => identity[i].owner = p0
    BY DEF IdentitiesOf, Owner
  <1> HIDE DEF P, I, lost
  <1>7. /\ Stored'
        /\ DOMAIN principal' = P /\ DOMAIN identity' = I
        /\ \A i \in I : identity'[i] = identity[i]
        /\ DOMAIN credential' \subseteq DOMAIN credential
        /\ \A c \in DOMAIN credential' : credential'[c] = credential[c]
        /\ \A c \in DOMAIN credential :
              c \in DOMAIN credential' <=> credential[c].identity \in I
    BY <1>2, <1>3, <1>5, <1>6, KeepOnlyStored
  <1>8. \A p \in P : IdentitiesOf(p) # {} => IdentitiesOf(p)' # {}
    BY <1>6, <1>7 DEF IdentitiesOf
  <1>9. \A c \in DOMAIN credential : credential[c].count \in Int
    BY <1>5, StoreAssumption DEF StoreTypeOK, CredentialRow
  <1>10. Effects
    BY <1>1, <1>2, <1>4, <1>6, <1>7, <1>8, <1>9 DEF Effects
  <1>11. p0 \in P => IdentitiesOf(p0)' # {}
    <2>1. req'[r].got = p0
      BY <1>1 DEF RollsBack
    <2>2. QED
      BY <1>6, <1>7, <2>1 DEF IdentitiesOf
  <1>12. QED
    BY <1>6, <1>7, <1>10, <1>11

(* A deletion takes a principal with all that refers to it.                *)
LEMMA DeleteEffects ==
    ASSUME Shape, References, Delete
    PROVE  Effects /\ Stored'
  <1>1. PICK p0 \in PrincipalIds : DeletePrincipal(p0)
    BY DEF Delete
  <1> DEFINE P == DOMAIN principal \ {p0}
             I == DOMAIN identity \ IdentitiesOf(p0)
  <1>2. KeepOnly(P, I) /\ minted' = minted /\ StoreTypeOK
    BY <1>1 DEF DeletePrincipal, Delete, Shape
  <1>3. /\ \A i \in I : identity[i].owner \in P
        /\ \A i \in DOMAIN identity : i \notin I => identity[i].owner = p0
        /\ \A i \in DOMAIN identity : identity[i].owner # p0 => i \in I
        /\ P \in SUBSET DOMAIN principal /\ I \in SUBSET DOMAIN identity
        /\ p0 \notin P
    BY DEF References, IdentitiesOf
  <1> HIDE DEF P, I
  <1>4. /\ Stored'
        /\ DOMAIN principal' = P /\ DOMAIN identity' = I
        /\ \A i \in I : identity'[i] = identity[i]
        /\ DOMAIN credential' \subseteq DOMAIN credential
        /\ \A c \in DOMAIN credential' : credential'[c] = credential[c]
        /\ \A c \in DOMAIN credential :
              c \in DOMAIN credential' <=> credential[c].identity \in I
    BY <1>2, <1>3, KeepOnlyStored
  <1>5. \A p \in P : IdentitiesOf(p) # {} => IdentitiesOf(p)' # {}
    BY <1>3, <1>4 DEF IdentitiesOf
  <1>6. \A c \in DOMAIN credential : credential[c].count \in Int
    BY <1>2, StoreAssumption DEF StoreTypeOK, CredentialRow
  <1>7. QED
    BY <1>2, <1>3, <1>4, <1>5, <1>6 DEF Effects

(* A change of status takes and adds nothing.                              *)
LEMMA SetStatusEffects ==
    ASSUME Shape, References, SetStatus
    PROVE  Effects /\ Stored'
  <1>1. PICK p0 \in PrincipalIds, s \in {"active", "disabled"} : UpdateStatus(p0, s)
    BY DEF SetStatus
  <1>2. /\ p0 \in DOMAIN principal /\ principal' = [principal EXCEPT ![p0] = s]
        /\ identity' = identity /\ credential' = credential /\ minted' = minted
    BY <1>1 DEF UpdateStatus, SetStatus
  <1>3. DOMAIN principal' = DOMAIN principal
    BY <1>2
  <1>4. \A p \in DOMAIN principal' : principal'[p] \in {"active", "disabled"}
    BY <1>2 DEF Shape, StoreTypeOK
  <1>5. \A c \in DOMAIN credential : credential[c].count \in Int
    BY StoreAssumption DEF Shape, StoreTypeOK, CredentialRow
  <1>6. Effects
    BY <1>2, <1>3, <1>5 DEF Effects, IdentitiesOf
  <1>7. Stored'
    BY <1>2, <1>3, <1>4 DEF Stored, Shape, StoreTypeOK, References
  <1>8. QED
    BY <1>6, <1>7

(* Provisioning adds a principal, an account of it, or both.               *)
LEMMA ProvisionEffects ==
    ASSUME Shape, References, InUseIsMinted, Provision
    PROVE  Effects /\ Stored'
  <1>1. PICK p0 \in profile.named, s \in {"active", "disabled"}, a \in profile.accounts :
               /\ UpsertWithIdentity(p0, s, a)
               /\ minted' = minted \cup {p0}
    BY DEF Provision
  <1> DEFINE row == [owner |-> p0, via |-> "provisioned"]
  <1>2. p0 \in PrincipalIds /\ a \in Accounts /\ a \in Identities
    BY AuthenticationAssumption DEF Shape, Identities
  <1>3. /\ principal' = With(principal, p0, s)
        /\ identity' = IF a \in DOMAIN identity THEN identity ELSE With(identity, a, row)
        /\ credential' = credential
    BY <1>1 DEF UpsertWithIdentity
  <1>4. row \in IdentityRow /\ row.owner = p0
    BY <1>2 DEF IdentityRow
  <1> HIDE DEF row
  <1>5. /\ DOMAIN principal' = DOMAIN principal \cup {p0}
        /\ \A p \in DOMAIN principal' : principal'[p] = principal[p] \/ principal'[p] = s
        /\ \A p \in DOMAIN principal' : p \notin DOMAIN principal => principal'[p] = s
    BY <1>3 DEF With
  <1>6. /\ DOMAIN identity' = DOMAIN identity \cup {a}
        /\ \A i \in DOMAIN identity : identity'[i] = identity[i]
        /\ a \notin DOMAIN identity => identity'[a] = row
        /\ identity'[a].owner = p0
    <2>1. /\ DOMAIN identity' = DOMAIN identity \cup {a}
          /\ \A i \in DOMAIN identity : identity'[i] = identity[i]
          /\ a \notin DOMAIN identity => identity'[a] = row
      BY <1>3 DEF With
    <2>2. a \in DOMAIN identity => identity[a].owner = p0
      <3>1. a \in DOMAIN identity => identity[a].owner \in {p0, None} /\ identity[a].owner # None
        BY <1>1, StoreAssumption DEF UpsertWithIdentity, Owner, Shape, StoreTypeOK, IdentityRow
      <3>2. QED
        BY <3>1
    <2>3. QED
      BY <1>4, <2>1, <2>2
  <1>7. \A c \in DOMAIN credential : credential[c].count \in Int
    BY StoreAssumption DEF Shape, StoreTypeOK, CredentialRow
  <1>8. \A p \in DOMAIN principal' :
           p \in DOMAIN principal /\ IdentitiesOf(p) # {} => IdentitiesOf(p)' # {}
    BY <1>6 DEF IdentitiesOf
  <1>9. Effects
    BY <1>1, <1>2, <1>3, <1>5, <1>6, <1>7, <1>8 DEF Effects
  <1>10. StoreTypeOK'
    BY <1>2, <1>3, <1>4, <1>5, <1>6 DEF Shape, StoreTypeOK
  <1>11. References'
    BY <1>3, <1>4, <1>5, <1>6 DEF References
  <1>12. QED
    BY <1>9, <1>10, <1>11 DEF Stored

(* The effects of a request's step.                                        *)
LEMMA RequestEffects ==
    ASSUME Shape, References, InUseIsMinted, ReservedIsUnused,
           NEW r \in Requests, RequestStep(r)
    PROVE  Effects /\ Stored'
  <1>1. CASE Quits(r)
    BY <1>1, QuietEffects DEF Quits
  <1>2. CASE ~ Quits(r)
    <2>1. PICK q : \/ Arrives(r, q) \/ Draws(r, q) \/ Reads(r, q) \/ Resolves(r, q)
                   \/ Counts(r, q) \/ Creates(r, q) \/ Binds(r, q) \/ Writes(r, q)
                   \/ RollsBack(r, q) \/ Puts(r, q) \/ Takes(r, q)
      BY <1>2 DEF RequestStep
    <2>2. CASE Arrives(r, q)
      BY <2>2, QuietEffects DEF Arrives
    <2>3. CASE Draws(r, q)
      BY <2>3, QuietEffects DEF Draws
    <2>4. CASE Reads(r, q)
      BY <2>4, QuietEffects DEF Reads
    <2>5. CASE Resolves(r, q)
      BY <2>5, QuietEffects DEF Resolves
    <2>6. CASE Puts(r, q)
      <3>1. minted \subseteq minted' /\ UNCHANGED store
        BY <2>6, NoneIsNoId DEF Puts
      <3>2. QED
        BY <3>1, QuietEffects
    <2>7. CASE Takes(r, q)
      BY <2>7, QuietEffects DEF Takes
    <2>8. QED
      BY <2>1, <2>2, <2>3, <2>4, <2>5, <2>6, <2>7, CountsEffects, CreatesEffects,
         BindsEffects, WritesEffects, RollsBackEffects, Zenon
  <1>3. QED
    BY <1>1, <1>2

(* Who has a second factor is a subject and its owner.                     *)
LEMMA GuardedIs ==
    ASSUME StoreTypeOK, NEW g \in Guarded
    PROVE  /\ g = <<g[1], g[2]>> /\ g[1] \in DOMAIN identity
           /\ g[2] = identity[g[1]].owner
           /\ ByIdentity(g[1], "totp") # {}
           /\ \E c \in DOMAIN credential : credential[c].identity = g[1]
           /\ g \in Subjects \X PrincipalIds
  <1>1. PICK i \in DOMAIN identity :
           ByIdentity(i, "totp") # {} /\ g = <<i, identity[i].owner>>
    BY DEF Guarded
  <1>2. PICK c \in DOMAIN credential : credential[c].identity = i
    BY <1>1 DEF ByIdentity
  <1>3. i \in Subjects /\ identity[i].owner \in PrincipalIds
    BY <1>2 DEF StoreTypeOK, CredentialRow, IdentityRow
  <1>4. QED
    BY <1>1, <1>2, <1>3

(* The history stays in shape.                                             *)
LEMMA ObserveShape ==
    ASSUME Shape, Observe, StoreTypeOK'
    PROVE  /\ live' \in [Requests -> SUBSET PrincipalIds]
           /\ guarded' \in [Requests -> SUBSET (Subjects \X PrincipalIds)]
  <1>1. StoreTypeOK
    BY DEF Shape
  <1>2. Guarded \in SUBSET (Subjects \X PrincipalIds)
    BY <1>1, GuardedIs
  <1>3. Active \in SUBSET PrincipalIds /\ Active' \in SUBSET PrincipalIds
    BY <1>1 DEF Active, StoreTypeOK
  <1> HIDE DEF Guarded, Active, Idle, Ended
  <1>4. QED
    BY <1>2, <1>3 DEF Observe, Shape

(* The steps that no request takes.                                        *)
Aside ==
    /\ UNCHANGED <<profile, req, tokens, log>>
    /\ clock' \in 0 .. MaxStep
    /\ minted' \subseteq PrincipalIds \cup Subjects \cup Accounts \cup CredentialIds
                            \cup ChallengeIds
    /\ \A k \in DOMAIN challenge' : k \in DOMAIN challenge /\ challenge'[k] = challenge[k]
    /\ live' \in [Requests -> SUBSET PrincipalIds]
    /\ guarded' \in [Requests -> SUBSET (Subjects \X PrincipalIds)]
    /\ \A s \in Requests :
          /\ guarded'[s] \subseteq guarded[s]
          /\ req[s] # Idle => live[s] \subseteq live'[s]
    /\ Remembers
    /\ Effects
    /\ Stored'

(* Time, expiry, administration and the steps that change nothing.         *)
LEMMA AsideSteps ==
    ASSUME Shape, References, InUseIsMinted,
           \/ Expire \/ Tick \/ SetStatus \/ Delete \/ Provision \/ UNCHANGED vars
    PROVE  Aside
  <1>1. ASSUME Observe, UNCHANGED <<req, tokens, log>>, clock' \in 0 .. MaxStep,
               minted' \subseteq PrincipalIds \cup Subjects \cup Accounts \cup CredentialIds
                                    \cup ChallengeIds,
               \A k \in DOMAIN challenge' : k \in DOMAIN challenge /\ challenge'[k] = challenge[k],
               Effects, Stored'
        PROVE  Aside
    <2>1. /\ live' \in [Requests -> SUBSET PrincipalIds]
          /\ guarded' \in [Requests -> SUBSET (Subjects \X PrincipalIds)]
      BY <1>1, ObserveShape DEF Stored
    <2>2. \A s \in Requests :
            /\ guarded'[s] \subseteq guarded[s]
            /\ req[s] # Idle => live[s] \subseteq live'[s]
      <3> HIDE DEF Guarded, Active, Idle, Ended
      <3>1. QED
        BY <1>1 DEF Observe
    <2>3. profile' = profile
      BY <1>1 DEF Observe
    <2>4. QED
      BY <1>1, <2>1, <2>2, <2>3, ObserveRemembers DEF Aside
  <1>2. CASE Expire
    <2>1. PICK k \in DOMAIN challenge :
            challenge' = Restrict(challenge, DOMAIN challenge \ {k})
      BY <1>2 DEF Expire, Without
    <2>2. \A l \in DOMAIN challenge' : l \in DOMAIN challenge /\ challenge'[l] = challenge[l]
      BY <2>1, RestrictIs
    <2>3. Effects /\ Stored'
      BY <1>2, QuietEffects DEF Expire
    <2>4. QED
      BY <1>1, <1>2, <2>2, <2>3 DEF Expire, Shape
  <1>3. CASE Tick
    <2>1. clock' \in 0 .. MaxStep
      <3>1. profile.lastStep \in 0 .. MaxStep /\ MaxStep \in Int
        BY TablesAssumption, AuthenticationAssumption, StoreAssumption DEF Shape
      <3>2. clock \in Int /\ clock >= 0 /\ clock < profile.lastStep /\ clock' = clock + 1
        BY <1>3, <3>1 DEF Tick, Shape
      <3>3. QED
        BY <3>1, <3>2
    <2>2. Effects /\ Stored'
      BY <1>3, QuietEffects DEF Tick
    <2>3. QED
      BY <1>1, <1>3, <2>1, <2>2 DEF Tick, Shape
  <1>4. CASE SetStatus
    BY <1>1, <1>4, SetStatusEffects DEF SetStatus, Shape
  <1>5. CASE Delete
    BY <1>1, <1>5, DeleteEffects DEF Delete, Shape
  <1>6. CASE Provision
    <2>1. minted' \subseteq PrincipalIds \cup Subjects \cup Accounts \cup CredentialIds
                               \cup ChallengeIds
      BY <1>6, AuthenticationAssumption DEF Provision, Shape
    <2>2. QED
      BY <1>1, <1>6, <2>1, ProvisionEffects DEF Provision, Shape
  <1>7. CASE UNCHANGED vars
    <2>1. /\ UNCHANGED <<profile, req, challenge, tokens, clock, minted, log, live, gone, guarded>>
          /\ UNCHANGED store
      BY <1>7 DEF vars, history
    <2>2. Effects /\ Stored'
      BY <2>1, QuietEffects
    <2>3. Remembers
      BY <2>1 DEF Remembers, store
    <2>4. QED
      BY <2>1, <2>2, <2>3 DEF Aside, Shape
  <1>8. QED
    BY <1>2, <1>3, <1>4, <1>5, <1>6, <1>7

(* Shape is preserved.                                                     *)
LEMMA ShapeHolds ==
    ASSUME Shape, References, InUseIsMinted, ReservedIsUnused,
           (\E r \in Requests : RequestStep(r)) \/ Aside
    PROVE  Shape'
  <1>1. CASE Aside
    BY <1>1 DEF Aside, Stored, Shape
  <1>2. CASE \E r \in Requests : RequestStep(r)
    <2>1. PICK r \in Requests : RequestStep(r)
      BY <1>2
    <2>2. StoreTypeOK'
      BY <2>1, RequestEffects DEF Stored
    <2>3. ASSUME NEW q, Step(r, q), clock' = clock,
                 minted' \subseteq PrincipalIds \cup Subjects \cup Accounts \cup CredentialIds
                                      \cup ChallengeIds,
                 \A k \in DOMAIN challenge' : k \in ChallengeIds /\ ChallengeOK(challenge'[k]),
                 log' \in Seq(CredentialIds \X (0 .. MaxCount))
          PROVE  Shape'
      <3>1. /\ req'[r] = q /\ \A s \in Requests : s # r => req'[s] = req[s]
            /\ req' \in [Requests -> RequestRow]
            /\ tokens' \subseteq tokens \cup {q.got} /\ None \notin tokens'
            /\ profile' = profile
        BY <2>3, StepFrame
      <3>2. Observe /\ RequestOK(q) /\ q.op \in profile.operations \cup {"none"}
        BY <2>3 DEF Step
      <3>3. q.got \in PrincipalIds \cup {None}
        BY <3>2 DEF RequestOK, RequestRow
      <3>4. /\ live' \in [Requests -> SUBSET PrincipalIds]
            /\ guarded' \in [Requests -> SUBSET (Subjects \X PrincipalIds)]
        BY <2>2, <3>2, ObserveShape
      <3>5. \A s \in Requests :
               RequestOK(req'[s]) /\ req'[s].op \in profile'.operations \cup {"none"}
        BY <3>1, <3>2 DEF Shape
      <3> HIDE DEF RequestOK, ChallengeOK
      <3>6. QED
        BY <2>2, <2>3, <3>1, <3>3, <3>4, <3>5 DEF Shape
    <2>4. CASE UNCHANGED <<challenge, minted, log, clock>>
      BY <2>1, <2>3, <2>4 DEF Shape, RequestStep, Quits, Arrives, Draws, Reads, Resolves,
         Counts, Creates, Binds, Writes, RollsBack, Puts, Takes
    <2>5. ASSUME NEW q, Draws(r, q) PROVE Shape'
      BY <2>3, <2>5 DEF Draws, Shape, Fresh
    <2>6. ASSUME NEW q, Counts(r, q) PROVE Shape'
      <3>1. req[r].cred \in CredentialIds /\ req[r].count \in 0 .. MaxCount
        BY <2>6 DEF Counts, Shape, StoreTypeOK, RequestRow
      <3>2. log' \in Seq(CredentialIds \X (0 .. MaxCount))
        BY <2>6, <3>1 DEF Counts, Shape
      <3>3. QED
        BY <2>3, <2>6, <3>2 DEF Counts, Shape
    <2>7. ASSUME NEW q, Creates(r, q) PROVE Shape'
      BY <2>3, <2>7 DEF Creates, Shape, Fresh
    <2>8. ASSUME NEW q, Writes(r, q) PROVE Shape'
      <3>1. PICK c \in IF req[r].op = "totp_enrollment_verify" THEN {req[r].cred}
                       ELSE Fresh(CredentialIds) :
              /\ minted' = minted \cup {c}
              /\ log' = IF req[r].op = "totp_enrollment_verify"
                        THEN Append(log, <<c, req[r].count>>) ELSE log
        BY <2>8 DEF Writes
      <3>2. req[r] \in RequestRow /\ RequestOK(req[r]) /\ req[r].pc = "write"
        BY <2>8 DEF Writes, Shape
      <3>3. c \in CredentialIds
        BY <3>1, <3>2 DEF RequestOK, RequestRow, Fresh
      <3>4. log' \in Seq(CredentialIds \X (0 .. MaxCount))
        BY <3>1, <3>2, <3>3 DEF Shape, RequestRow
      <3>5. QED
        BY <2>3, <2>8, <3>1, <3>3, <3>4 DEF Writes, Shape
    <2>9. ASSUME NEW q, Puts(r, q) PROVE Shape'
      <3>1. PICK k \in Fresh(ChallengeIds),
                 c \in IF req[r].op = "totp_enrollment_challenge" THEN Fresh(CredentialIds)
                       ELSE {None} :
              /\ minted' = (minted \cup {k, c}) \ {None}
              /\ \E ch : challenge' = With(challenge, k, ch) /\ ChallengeOK(ch)
        BY <2>9, Zenon DEF Puts
      <3> PICK ch : challenge' = With(challenge, k, ch) /\ ChallengeOK(ch)
        BY <3>1
      <3>2. k \in ChallengeIds /\ c \in CredentialIds \cup {None}
        BY DEF Fresh
      <3>3. \A l \in DOMAIN challenge' : l \in ChallengeIds /\ ChallengeOK(challenge'[l])
        <4>1. \A l \in DOMAIN challenge' :
                 \/ l = k /\ challenge'[l] = ch
                 \/ l \in DOMAIN challenge /\ challenge'[l] = challenge[l]
          BY <3>1 DEF With
        <4>2. QED
          BY <3>1, <3>2, <4>1 DEF Shape
      <3>4. QED
        BY <2>3, <2>9, <3>1, <3>2, <3>3 DEF Puts, Shape
    <2>10. ASSUME NEW q, Takes(r, q) PROVE Shape'
      <3>1. \A l \in DOMAIN challenge' :
               l \in DOMAIN challenge /\ challenge'[l] = challenge[l]
        BY <2>10, RestrictIs DEF Takes
      <3>2. QED
        BY <2>3, <2>10, <3>1 DEF Takes, Shape
    <2>11. QED
      BY <2>1, <2>3, <2>4, <2>5, <2>6, <2>7, <2>8, <2>9, <2>10
         DEF RequestStep, Quits, Arrives, Reads, Resolves, Binds, RollsBack
  <1>3. QED
    BY <1>1, <1>2

(* The challenges a request's step leaves: old ones and the one it stores. *)
LEMMA ChallengeFacts ==
    ASSUME Shape, NEW r \in Requests, RequestStep(r), NEW k \in DOMAIN challenge'
    PROVE  \/ k \in DOMAIN challenge /\ challenge'[k] = challenge[k]
           \/ /\ k \notin minted /\ k \in minted'
              /\ req[r].pc = "put" /\ req'[r].pc = "answered"
              /\ challenge'[k].id = req[r].id /\ challenge'[k].who = req[r].who
              /\ \A l \in DOMAIN challenge' : l # k =>
                    l \in DOMAIN challenge /\ challenge'[l] = challenge[l]
              /\ challenge'[k].cred = None \/ (/\ challenge'[k].cred \notin minted
                                               /\ challenge'[k].cred \in minted')
  <1>1. ASSUME NEW q, Puts(r, q) PROVE
           \/ k \in DOMAIN challenge /\ challenge'[k] = challenge[k]
           \/ /\ k \notin minted /\ k \in minted'
              /\ req[r].pc = "put" /\ req'[r].pc = "answered"
              /\ challenge'[k].id = req[r].id /\ challenge'[k].who = req[r].who
              /\ \A l \in DOMAIN challenge' : l # k =>
                    l \in DOMAIN challenge /\ challenge'[l] = challenge[l]
              /\ challenge'[k].cred = None \/ (/\ challenge'[k].cred \notin minted
                                               /\ challenge'[k].cred \in minted')
    <2>0. PICK k0 \in Fresh(ChallengeIds),
               c \in IF req[r].op = "totp_enrollment_challenge" THEN Fresh(CredentialIds)
                     ELSE {None} :
            /\ minted' = (minted \cup {k0, c}) \ {None}
            /\ \E ch : /\ challenge' = With(challenge, k0, ch)
                       /\ ch.id = req[r].id /\ ch.who = req[r].who /\ ch.cred = c
      BY <1>1 DEF Puts
    <2>1. PICK ch : /\ challenge' = With(challenge, k0, ch)
                    /\ ch.id = req[r].id /\ ch.who = req[r].who /\ ch.cred = c
      BY <2>0
    <2>2. /\ k0 \notin minted /\ k0 # None
          /\ c = None \/ c \notin minted
      BY <2>0, AuthenticationAssumption DEF Fresh
    <2>3. \A l \in DOMAIN challenge' : \/ l = k0 /\ challenge'[l] = ch
                                       \/ l \in DOMAIN challenge /\ challenge'[l] = challenge[l]
      BY <2>1 DEF With
    <2>4. req[r].pc = "put" /\ req'[r].pc = "answered"
      BY <1>1, StepFrame DEF Puts
    <2>5. QED
      BY <2>0, <2>1, <2>2, <2>3, <2>4
  <1>2. ASSUME NEW q, Takes(r, q) PROVE k \in DOMAIN challenge /\ challenge'[k] = challenge[k]
    BY <1>2, RestrictIs DEF Takes
  <1>3. QED
    BY <1>1, <1>2 DEF RequestStep, Quits, Arrives, Draws, Reads, Resolves, Counts, Creates,
       Binds, Writes, RollsBack

(* The proofs accepted: one more at most, ahead of the counter, or the     *)
(* first of its credential.                                                *)
LogFacts ==
    \/ log' = log
    \/ \E c \in minted, n \in 0 .. MaxCount :
          /\ log' = Append(log, <<c, n>>)
          /\ c \in DOMAIN credential' /\ credential'[c].count = n
          /\ \/ c \in DOMAIN credential /\ credential[c].count < n
             \/ Unused(c) /\ \E r \in Requests : /\ req[r].cred = c /\ Enrols(r)
                                                 /\ req'[r].pc # "write"

(* So is what a request's step does to the log.                            *)
LEMMA RequestLogs ==
    ASSUME Shape, InUseIsMinted, ReservedIsUnused, NEW r \in Requests, RequestStep(r)
    PROVE  LogFacts
  <1>1. ASSUME NEW q, Counts(r, q) PROVE LogFacts
    <2> DEFINE c == req[r].cred
               n == req[r].count
    <2>1. /\ log' = Append(log, <<c, n>>) /\ c \in DOMAIN credential
          /\ credential[c].count < n /\ credential' = [credential EXCEPT ![c].count = n]
      BY <1>1 DEF Counts, SetCount
    <2>2. n \in 0 .. MaxCount /\ c \in minted /\ credential[c] \in CredentialRow
      BY <2>1 DEF Shape, RequestRow, InUseIsMinted, StoreTypeOK
    <2>3. c \in DOMAIN credential' /\ credential'[c].count = n
      BY <2>1, <2>2 DEF CredentialRow
    <2> HIDE DEF c, n
    <2>4. QED
      BY <2>1, <2>2, <2>3 DEF LogFacts
  <1>2. ASSUME NEW q, Writes(r, q) PROVE LogFacts
    <2>1. CASE req[r].op = "totp_enrollment_verify"
      <3> DEFINE c == req[r].cred
                 n == req[r].count
      <3>1. /\ log' = Append(log, <<c, n>>)
            /\ credential' = With(credential, c, NewCredential(req[r]))
        BY <1>2, <2>1 DEF Writes
      <3>2. RequestOK(req[r]) /\ req[r].pc = "write" /\ Enrols(r) /\ req'[r].pc # "write"
        BY <1>2, <2>1, StepFrame DEF Writes, Shape, Enrols
      <3>3. NewCredential(req[r]).count = n
        BY <2>1, <3>2, NewCredentialIs
      <3>4. n \in 0 .. MaxCount /\ c \in minted /\ Unused(c)
        BY <2>1, <3>2 DEF Shape, RequestOK, RequestRow, InUseIsMinted, ReservedIsUnused
      <3>5. c \in DOMAIN credential' /\ credential'[c] = NewCredential(req[r])
        BY <3>1 DEF With
      <3>6. QED
        BY <3>1, <3>2, <3>3, <3>4, <3>5 DEF LogFacts
    <2>2. CASE req[r].op # "totp_enrollment_verify"
      BY <1>2, <2>2 DEF Writes, LogFacts
    <2>3. QED
      BY <2>1, <2>2
  <1>3. QED
    BY <1>1, <1>2 DEF RequestStep, Quits, Arrives, Draws, Reads, Resolves, Creates,
       Binds, RollsBack, Puts, Takes, LogFacts

(* What a request learns was drawn before, or is drawn now.                *)
LEMMA LearnsMinted ==
    ASSUME Shape, References, InUseIsMinted, ReservedIsUnused,
           NEW r \in Requests, RequestStep(r)
    PROVE  /\ {req'[r].who, req'[r].got, req'[r].chal, req'[r].cred} \subseteq minted' \cup {None}
           /\ req'[r].id \in Subjects => req'[r].id \in minted'
  <1> DEFINE Fine(q) == /\ {q.who, q.got, q.chal, q.cred} \subseteq minted' \cup {None}
                        /\ q.id \in Subjects => q.id \in minted'
  <1>1. minted \subseteq minted' /\ None \notin Subjects
    BY RequestEffects, StoreAssumption DEF Effects, Identities
  <1>2. Fine(req[r])
    BY <1>1 DEF InUseIsMinted
  <1>3. Fine(Idle)
    BY <1>1 DEF Idle
  <1>4. \A q : Step(r, q) => req'[r] = q /\ RequestOK(q)
    BY StepFrame DEF Step
  <1> DEFINE Cred(q) == \/ q.pc \in {"advance", "swap"}
                        \/ q.pc = "write" /\ q.op = "totp_enrollment_verify"
  <1>5. \A q : RequestOK(q) /\ ~ Cred(q) => q.cred = None
    BY DEF RequestOK
  <1>6. ASSUME NEW q, Arrives(r, q) PROVE Fine(q)
    BY <1>1, <1>6, StoreAssumption DEF Arrives, Arrival, InUseIsMinted
  <1>7. ASSUME NEW q, Draws(r, q) PROVE Fine(q)
    BY <1>1, <1>2, <1>4, <1>5, <1>7 DEF Draws, Continues
  <1>8. ASSUME NEW q, Reads(r, q) PROVE Fine(q)
    <2>1. \A c \in DOMAIN credential :
             c \in minted /\ credential[c].identity \in minted
      BY DEF References, InUseIsMinted, Shape, StoreTypeOK, CredentialRow
    <2>2. q.id = req[r].id \/ (\E c \in DOMAIN credential : q.id = credential[c].identity)
             \/ q.id \in Accounts
      BY <1>8 DEF Reads
    <2>3. q.id \in Subjects => q.id \in minted'
      BY <1>1, <1>2, <2>1, <2>2, StoreAssumption
    <2>4. q.cred \in minted' \cup {None}
      BY <1>1, <1>8, <2>1 DEF Reads
    <2>5. q.who = req[r].who /\ q.got = req[r].got /\ q.chal = req[r].chal
      BY <1>8 DEF Reads, Continues
    <2>6. QED
      BY <1>2, <2>3, <2>4, <2>5
  <1>9. ASSUME NEW q, NEW who \in minted', Step(r, q), Knows(req[r], q, who) PROVE Fine(q)
    <2>1. RequestOK(q)
      BY <1>4, <1>9
    <2>2. CASE q = Idle
      BY <1>3, <2>2
    <2>3. CASE q # Idle
      <3>1. /\ q.who \in {req[r].who, None} /\ q.got \in {who, None}
            /\ q.chal = req[r].chal /\ q.id = req[r].id
            /\ ~ Cred(q)
        BY <1>9, <2>3 DEF Knows, Continues
      <3>2. QED
        BY <1>2, <1>5, <2>1, <3>1
    <2>4. QED
      BY <2>2, <2>3
  <1>10. ASSUME NEW q, Resolves(r, q) PROVE Fine(q)
    BY <1>1, <1>9, <1>10 DEF Resolves, Active, InUseIsMinted
  <1>11. ASSUME NEW q, Creates(r, q) PROVE Fine(q)
    BY <1>9, <1>11 DEF Creates
  <1>12. ASSUME NEW q, Counts(r, q) PROVE Fine(q)
    <2>1. RequestOK(q) /\ ~ Cred(q)
      BY <1>4, <1>12 DEF Counts
    <2>2. QED
      BY <1>2, <1>5, <1>12, <2>1 DEF Counts, Continues
  <1>13. ASSUME NEW q, Binds(r, q) PROVE Fine(q)
    <2>1. CASE q = Idle
      BY <1>3, <2>1
    <2>2. CASE q # Idle
      <3>1. /\ q.who \in {req[r].who, None} /\ q.got = req[r].who
            /\ q.chal = req[r].chal /\ q.id = req[r].id
            /\ ~ Cred(q) /\ RequestOK(q)
        BY <1>4, <1>13, <2>2 DEF Binds, Continues
      <3>2. QED
        BY <1>2, <1>5, <3>1
    <2>3. QED
      BY <2>1, <2>2
  <1>14. ASSUME NEW q, Writes(r, q) PROVE Fine(q)
    <2>1. /\ RequestOK(q) /\ ~ Cred(q) /\ q.who \in {req[r].who, None}
          /\ q.got \in {req[r].got, None} /\ q.chal = req[r].chal /\ q.id = req[r].id
      BY <1>4, <1>14 DEF Writes, Continues
    <2>2. QED
      BY <1>2, <1>5, <2>1
  <1>15. ASSUME NEW q, RollsBack(r, q) PROVE Fine(q)
    <2>1. /\ RequestOK(q) /\ ~ Cred(q) /\ q.who = None
          /\ q.got = req[r].got /\ q.chal = None /\ q.id = req[r].id
      BY <1>4, <1>15 DEF RollsBack
    <2>2. QED
      BY <1>2, <1>5, <2>1
  <1>16. ASSUME NEW q, Puts(r, q) PROVE Fine(q)
    <2>1. /\ RequestOK(q) /\ ~ Cred(q) /\ q.who = None
          /\ q.got = None /\ q.chal = req[r].chal /\ q.id = None
      BY <1>4, <1>16 DEF Puts, Continues
    <2>2. QED
      BY <1>1, <1>2, <1>5, <2>1
  <1>17. ASSUME NEW q, Takes(r, q) PROVE Fine(q)
    <2>1. CASE q = Idle
      BY <1>3, <2>1
    <2>2. CASE q # Idle
      <3> DEFINE ch == challenge[req[r].chal]
      <3>1. /\ req[r].chal \in DOMAIN challenge
            /\ q.who \in {req[r].who, ch.who} /\ q.got = None
            /\ q.chal = req[r].chal /\ q.id \in {req[r].id, ch.id}
            /\ q.pc = "write" => q.cred = ch.cred
            /\ q.pc \in {"authenticate", "find", "permit", "write", "list_passkeys"}
            /\ RequestOK(q)
        BY <1>4, <1>17, <2>2 DEF Takes
      <3>2. /\ {ch.who, ch.cred} \subseteq minted' \cup {None}
            /\ ch.id \in Subjects => ch.id \in minted'
        BY <1>1, <3>1 DEF InUseIsMinted
      <3>3. q.cred \in {None, ch.cred}
        BY <1>5, <3>1
      <3> HIDE DEF ch
      <3>4. QED
        BY <1>2, <3>1, <3>2, <3>3
    <2>3. QED
      BY <2>1, <2>2
  <1> HIDE DEF Fine
  <1>18. ASSUME NEW q, Step(r, q), Fine(q) PROVE Fine(req'[r])
    BY <1>4, <1>18
  <1>19. Fine(req'[r])
    BY <1>3, <1>6, <1>7, <1>8, <1>10, <1>11, <1>12, <1>13, <1>14, <1>15, <1>16, <1>17, <1>18
       DEF RequestStep, Quits, Arrives, Draws, Reads, Resolves, Counts, Creates, Binds,
       Writes, RollsBack, Puts, Takes
  <1>20. QED
    BY <1>19 DEF Fine

-----------------------------------------------------------------------------
(* The conjuncts of the inductive invariant, one by one.                   *)

(* The step that is taken moves one request or none.                       *)
LEMMA OneMoves ==
    ASSUME Shape, NEW r \in Requests, RequestStep(r)
    PROVE  /\ Step(r, req'[r])
           /\ \A s \in Requests : s # r => req'[s] = req[s]
           /\ tokens \subseteq tokens' /\ tokens' \subseteq tokens \cup {req'[r].got}
           /\ None \notin tokens'
           /\ \A s \in Requests : s # r => guarded'[s] \subseteq guarded[s]
           /\ req[r].pc \notin Ended => guarded'[r] \subseteq guarded[r]
           /\ guarded'[r] \subseteq guarded[r] \cup Guarded
           /\ \A s \in Requests : s # r /\ req[s] # Idle => live[s] \subseteq live'[s]
           /\ req[r].pc \notin Ended /\ req'[r] # Idle =>
                 live'[r] = live[r] \cup Active \cup Active'
  <1>1. PICK q : Step(r, q)
    BY DEF RequestStep, Quits, Arrives, Draws, Reads, Resolves, Counts, Creates, Binds,
       Writes, RollsBack, Puts, Takes
  <1>2. QED
    BY <1>1, StepFrame, StepHistory

(* InUseIsMinted is preserved.                                             *)
LEMMA InUseIsMintedHolds ==
    ASSUME Shape, References, InUseIsMinted, ReservedIsUnused,
           (\E r \in Requests : RequestStep(r)) \/ Aside
    PROVE  InUseIsMinted'
  <1>1. ASSUME Effects PROVE
           /\ DOMAIN principal' \cup DOMAIN credential' \subseteq minted'
           /\ DOMAIN identity' \cap Subjects \subseteq minted'
           /\ minted \subseteq minted'
    <2>1. \A i \in DOMAIN identity' \cap Subjects : i \in minted
      BY <1>1, StoreAssumption DEF Effects, InUseIsMinted
    <2>2. QED
      BY <1>1, <2>1 DEF Effects, InUseIsMinted
  <1>2. CASE Aside
    <2>1. Effects /\ minted \subseteq minted'
      BY <1>1, <1>2 DEF Aside
    <2>2. DOMAIN challenge' \subseteq minted' /\ tokens' \subseteq minted'
      BY <1>2, <2>1 DEF Aside, InUseIsMinted
    <2>3. \A r \in Requests :
            /\ {req'[r].who, req'[r].got, req'[r].chal, req'[r].cred} \subseteq minted' \cup {None}
            /\ req'[r].id \in Subjects => req'[r].id \in minted'
            /\ \A g \in guarded'[r] : g[1] \in minted' /\ g[2] \in minted'
      BY <1>2, <2>1 DEF Aside, InUseIsMinted
    <2>4. /\ \A k \in DOMAIN challenge' :
               /\ {challenge'[k].who, challenge'[k].cred} \subseteq minted' \cup {None}
               /\ challenge'[k].id \in Subjects => challenge'[k].id \in minted'
          /\ \A n \in DOMAIN log' : log'[n][1] \in minted'
      BY <1>2, <2>1 DEF Aside, InUseIsMinted
    <2>5. QED
      BY <1>1, <2>1, <2>2, <2>3, <2>4 DEF InUseIsMinted
  <1>3. CASE \E r \in Requests : RequestStep(r)
    <2>1. PICK r \in Requests : RequestStep(r)
      BY <1>3
    <2>2. Effects /\ minted \subseteq minted'
      BY <1>1, <2>1, RequestEffects
    <2>3. /\ \A s \in Requests : s # r => req'[s] = req[s]
          /\ tokens' \subseteq tokens \cup {req'[r].got} /\ None \notin tokens'
          /\ \A s \in Requests : guarded'[s] \subseteq guarded[s] \cup Guarded
      BY <2>1, OneMoves
    <2>4. /\ {req'[r].who, req'[r].got, req'[r].chal, req'[r].cred} \subseteq minted' \cup {None}
          /\ req'[r].id \in Subjects => req'[r].id \in minted'
      BY <2>1, LearnsMinted
    <2>5. \A s \in Requests :
            /\ {req'[s].who, req'[s].got, req'[s].chal, req'[s].cred} \subseteq minted' \cup {None}
            /\ req'[s].id \in Subjects => req'[s].id \in minted'
      BY <2>2, <2>3, <2>4 DEF InUseIsMinted
    <2>6. \A s \in Requests : \A g \in guarded'[s] : g[1] \in minted' /\ g[2] \in minted'
      <3>1. \A g \in Guarded : g[1] \in minted /\ g[2] \in minted
        <4> SUFFICES ASSUME NEW g \in Guarded PROVE g[1] \in minted /\ g[2] \in minted
          OBVIOUS
        <4>1. /\ g[1] \in DOMAIN identity /\ g[2] = identity[g[1]].owner
              /\ g \in Subjects \X PrincipalIds
          BY GuardedIs DEF Shape
        <4>2. g[1] \in Subjects /\ g[2] \in DOMAIN principal
          BY <4>1 DEF References
        <4>3. QED
          BY <4>1, <4>2 DEF InUseIsMinted
      <3>2. \A s \in Requests : \A g \in guarded[s] : g[1] \in minted /\ g[2] \in minted
        BY DEF InUseIsMinted
      <3> HIDE DEF Guarded
      <3>3. QED
        BY <2>2, <2>3, <3>1, <3>2
    <2>7. \A k \in DOMAIN challenge' :
             /\ k \in minted'
             /\ {challenge'[k].who, challenge'[k].cred} \subseteq minted' \cup {None}
             /\ challenge'[k].id \in Subjects => challenge'[k].id \in minted'
      <3> SUFFICES ASSUME NEW k \in DOMAIN challenge'
                   PROVE  /\ k \in minted'
                          /\ {challenge'[k].who, challenge'[k].cred} \subseteq minted' \cup {None}
                          /\ challenge'[k].id \in Subjects => challenge'[k].id \in minted'
        OBVIOUS
      <3>1. CASE k \in DOMAIN challenge /\ challenge'[k] = challenge[k]
        BY <2>2, <3>1 DEF InUseIsMinted
      <3>2. CASE ~ (k \in DOMAIN challenge /\ challenge'[k] = challenge[k])
        <4>1. /\ k \in minted'
              /\ challenge'[k].id = req[r].id /\ challenge'[k].who = req[r].who
              /\ challenge'[k].cred \in minted' \cup {None}
          BY <2>1, <3>2, ChallengeFacts
        <4>2. QED
          BY <2>2, <4>1 DEF InUseIsMinted
      <3>3. QED
        BY <3>1, <3>2
    <2>8. \A n \in DOMAIN log' : log'[n][1] \in minted'
      <3>1. LogFacts
        BY <2>1, RequestLogs
      <3>2. CASE log' = log
        BY <2>2, <3>2 DEF InUseIsMinted
      <3>3. CASE log' # log
        <4>1. PICK c \in minted, n \in 0 .. MaxCount : log' = Append(log, <<c, n>>)
          BY <3>1, <3>3 DEF LogFacts
        <4>2. log \in Seq(CredentialIds \X (0 .. MaxCount))
          BY DEF Shape
        <4>3. \A m \in DOMAIN log' : (m \in DOMAIN log /\ log'[m] = log[m]) \/ log'[m] = <<c, n>>
          BY <4>1, <4>2
        <4>4. QED
          BY <2>2, <4>3 DEF InUseIsMinted
      <3>4. QED
        BY <3>2, <3>3
    <2>9. tokens' \subseteq minted'
      BY <2>2, <2>3, <2>4 DEF InUseIsMinted
    <2>10. QED
      BY <1>1, <2>2, <2>5, <2>6, <2>7, <2>8, <2>9 DEF InUseIsMinted
  <1>4. QED
    BY <1>2, <1>3

(* SessionsHoldTokens is preserved.                                        *)
LEMMA SessionsHoldTokensHolds ==
    ASSUME Shape, SessionsHoldTokens, (\E r \in Requests : RequestStep(r)) \/ Aside
    PROVE  SessionsHoldTokens'
  <1>1. CASE Aside
    BY <1>1 DEF Aside, SessionsHoldTokens
  <1>2. CASE \E r \in Requests : RequestStep(r)
    <2>1. PICK r \in Requests : RequestStep(r)
      BY <1>2
    <2>2. /\ \A s \in Requests : s # r => req'[s] = req[s]
          /\ tokens \subseteq tokens' /\ Step(r, req'[r])
      BY <2>1, OneMoves
    <2>3. req'[r].who \in tokens \cup {None}
      <3>1. \A q : Step(r, q) => req'[r] = q
        BY StepFrame
      <3>2. ASSUME NEW q, Takes(r, q) PROVE q.who \in tokens \cup {None}
        BY <3>2 DEF Takes, Idle, SessionsHoldTokens
      <3>3. ASSUME NEW q, Creates(r, q) \/ Resolves(r, q) PROVE q.who \in tokens \cup {None}
        <4>1. PICK p : Knows(req[r], q, p)
          BY <3>3 DEF Creates, Resolves
        <4>2. QED
          BY <4>1 DEF Knows, Idle, SessionsHoldTokens
      <3>4. ASSUME NEW q, \/ Draws(r, q) \/ Reads(r, q) \/ Counts(r, q) \/ Binds(r, q)
                          \/ Writes(r, q)
            PROVE  q.who \in tokens \cup {None}
        <4>1. q.who \in {req[r].who, None}
          BY <3>4 DEF Draws, Reads, Counts, Binds, Writes, Idle
        <4>2. QED
          BY <4>1 DEF SessionsHoldTokens
      <3>5. ASSUME NEW q, \/ Arrives(r, q) \/ RollsBack(r, q) \/ Puts(r, q)
            PROVE  q.who \in tokens \cup {None}
        BY <3>5 DEF Arrives, Arrival, RollsBack, Puts
      <3>6. Idle.who = None
        BY DEF Idle
      <3>7. CASE Quits(r)
        BY <3>1, <3>6, <3>7 DEF Quits
      <3>8. CASE ~ Quits(r)
        <4>1. PICK q : \/ Arrives(r, q) \/ Draws(r, q) \/ Reads(r, q) \/ Resolves(r, q)
                       \/ Counts(r, q) \/ Creates(r, q) \/ Binds(r, q) \/ Writes(r, q)
                       \/ RollsBack(r, q) \/ Puts(r, q) \/ Takes(r, q)
          BY <2>1, <3>8 DEF RequestStep
        <4>2. Step(r, q)
          BY <4>1 DEF Arrives, Draws, Reads, Resolves, Counts, Creates, Binds, Writes,
             RollsBack, Puts, Takes
        <4>3. q.who \in tokens \cup {None}
          BY <3>2, <3>3, <3>4, <3>5, <4>1
        <4>4. QED
          BY <3>1, <4>2, <4>3
      <3>9. QED
        BY <3>7, <3>8
    <2>4. \A k \in DOMAIN challenge' : challenge'[k].who \in tokens \cup {None}
      BY <2>1, ChallengeFacts DEF SessionsHoldTokens
    <2>5. QED
      BY <2>2, <2>3, <2>4 DEF SessionsHoldTokens
  <1>3. QED
    BY <1>1, <1>2

(* The kinds again, by the request after the step.                         *)
LEMMA Kinds ==
    ASSUME Shape, NEW r \in Requests, RequestStep(r)
    PROVE  \/ Quits(r) /\ req'[r] = Idle
           \/ Arrives(r, req'[r]) \/ Draws(r, req'[r]) \/ Reads(r, req'[r])
           \/ Resolves(r, req'[r]) \/ Counts(r, req'[r]) \/ Creates(r, req'[r])
           \/ Binds(r, req'[r]) \/ Writes(r, req'[r]) \/ RollsBack(r, req'[r])
           \/ Puts(r, req'[r]) \/ Takes(r, req'[r])
  <1>1. \A q : Step(r, q) => req'[r] = q
    BY StepFrame
  <1>2. CASE Quits(r)
    BY <1>1, <1>2 DEF Quits
  <1>3. CASE ~ Quits(r)
    <2>1. PICK q : \/ Arrives(r, q) \/ Draws(r, q) \/ Reads(r, q) \/ Resolves(r, q)
                   \/ Counts(r, q) \/ Creates(r, q) \/ Binds(r, q) \/ Writes(r, q)
                   \/ RollsBack(r, q) \/ Puts(r, q) \/ Takes(r, q)
      BY <1>3 DEF RequestStep
    <2>2. Step(r, q)
      BY <2>1 DEF Arrives, Draws, Reads, Resolves, Counts, Creates, Binds, Writes,
         RollsBack, Puts, Takes
    <2>3. req'[r] = q
      BY <1>1, <2>2
    <2>4. QED
      BY <2>1, <2>3
  <1>4. QED
    BY <1>2, <1>3

(* A registration is alone with the subject it had, or the one it draws.   *)
LEMMA SoleStays ==
    ASSUME Shape, NEW r \in Requests, RequestStep(r), NEW s \in Requests, Sole(s)'
    PROVE  \/ Sole(s) /\ req'[s].id = req[s].id
           \/ s = r /\ Draws(r, req'[r])
  <1>1. CASE s # r
    BY <1>1, OneMoves DEF Sole
  <1>2. CASE s = r
    <2> DEFINE q == req'[r]
    <2>1. q.op = "register" /\ q.id # None /\ q.pc # "answered"
      BY <1>2 DEF Sole
    <2>2. ASSUME NEW who, Knows(req[r], q, who)
          PROVE  Sole(s) /\ req'[s].id = req[s].id
      BY <1>2, <2>1, <2>2 DEF Knows, Idle, Continues, Ended, Sole
    <2>3. CASE Reads(r, q)
      BY <1>2, <2>1, <2>3 DEF Reads, Continues, Ended, Sole
    <2>4. CASE Resolves(r, q) \/ Creates(r, q)
      BY <2>2, <2>4 DEF Resolves, Creates
    <2>5. CASE Binds(r, q)
      BY <1>2, <2>1, <2>5 DEF Binds, Idle, Continues, Ended, Sole
    <2>6. CASE RollsBack(r, q)
      BY <1>2, <2>1, <2>6 DEF RollsBack, Sole
    <2>7. CASE Writes(r, q)
      BY <2>1, <2>7 DEF Writes, Continues
    <2>8. CASE Quits(r) /\ q = Idle
      BY <2>1, <2>8 DEF Idle
    <2>9. CASE Arrives(r, q) \/ Counts(r, q) \/ Puts(r, q) \/ Takes(r, q)
      BY <2>1, <2>9 DEF Arrives, Arrival, Counts, Puts, Takes, Idle
    <2> HIDE DEF q
    <2>10. CASE Draws(r, q)
      BY <1>2, <2>10 DEF q
    <2>11. QED
      BY <2>3, <2>4, <2>5, <2>6, <2>7, <2>8, <2>9, <2>10, Kinds DEF q
  <1>3. QED
    BY <1>1, <1>2

(* A request that is not a registration never gets to know its subject.    *)
LEMMA SoleUnknown ==
    ASSUME Shape, SubjectsAreSole, InUseIsMinted, NEW r \in Requests, RequestStep(r),
           NEW s \in Requests, Sole(s), s # r
    PROVE  req'[r].id # req[s].id
  <1> DEFINE q == req'[r]
             i == req[s].id
  <1>1. i \in Subjects /\ i # None /\ i \in minted /\ i \notin Accounts
    <2>1. RequestOK(req[s])
      BY DEF Shape
    <2>2. i \in Subjects
      BY <2>1 DEF Sole, RequestOK, StandaloneOps
    <2>3. QED
      BY <2>2, StoreAssumption DEF Sole, InUseIsMinted
  <1>2. /\ req[r].id # i
        /\ \A k \in DOMAIN challenge : challenge[k].id # i
        /\ \A c \in DOMAIN credential : credential[c].identity # i
    BY DEF SubjectsAreSole
  <1>3. q.id \in Accounts \cup {None, req[r].id}
           \cup {credential[c].identity : c \in DOMAIN credential}
           \cup {challenge[k].id : k \in DOMAIN challenge}
           \cup Fresh(Subjects)
    <2>1. CASE Quits(r) /\ q = Idle
      BY <2>1 DEF Idle
    <2>2. CASE Arrives(r, q)
      BY <2>2 DEF Arrives, Arrival
    <2>3. CASE Draws(r, q)
      BY <2>3 DEF Draws
    <2>4. CASE Reads(r, q)
      BY <2>4 DEF Reads
    <2>5. CASE Resolves(r, q) \/ Creates(r, q)
      <3>1. PICK who : Knows(req[r], q, who)
        BY <2>5 DEF Resolves, Creates
      <3>2. q.id \in {None, req[r].id}
        BY <3>1 DEF Knows, Idle
      <3>3. QED
        BY <3>2
    <2>6. CASE Counts(r, q) \/ Binds(r, q) \/ Writes(r, q) \/ RollsBack(r, q) \/ Puts(r, q)
      <3>1. q.id \in {None, req[r].id}
        BY <2>6 DEF Counts, Binds, Writes, RollsBack, Puts, Idle
      <3>2. QED
        BY <3>1
    <2>7. CASE Takes(r, q)
      BY <2>7 DEF Takes, Idle
    <2> HIDE DEF q
    <2>8. QED
      BY <2>1, <2>2, <2>3, <2>4, <2>5, <2>6, <2>7, Kinds DEF q
  <1>4. QED
    BY <1>1, <1>2, <1>3 DEF Fresh

(* SubjectsAreSole is preserved.                                           *)
LEMMA SubjectsAreSoleHolds ==
    ASSUME Shape, References, InUseIsMinted, ReservedIsUnused, SubjectsAreSole,
           (\E r \in Requests : RequestStep(r)) \/ Aside
    PROVE  SubjectsAreSole'
  <1>1. ASSUME NEW s \in Requests, Sole(s), Effects,
               \A c \in DOMAIN credential' : c \notin DOMAIN credential =>
                  credential'[c].identity # req[s].id
        PROVE  \A c \in DOMAIN credential' : credential'[c].identity # req[s].id
    BY <1>1 DEF Effects, SubjectsAreSole
  <1>2. CASE Aside
    <2> SUFFICES ASSUME NEW s \in Requests, Sole(s)'
                 PROVE  /\ \A r \in Requests \ {s} : req'[r].id # req'[s].id
                        /\ \A k \in DOMAIN challenge' : challenge'[k].id # req'[s].id
                        /\ \A c \in DOMAIN credential' : credential'[c].identity # req'[s].id
                        /\ \A r \in Requests : \A g \in guarded'[r] : g[1] # req'[s].id
      BY DEF SubjectsAreSole
    <2>1. Sole(s) /\ req' = req /\ Effects
      BY <1>2 DEF Aside, Sole
    <2>2. \A c \in DOMAIN credential' : c \in DOMAIN credential
      BY <1>2, <2>1 DEF Effects, Aside
    <2>3. \A c \in DOMAIN credential' : credential'[c].identity # req[s].id
      BY <1>1, <2>1, <2>2
    <2>4. QED
      BY <1>2, <2>1, <2>3 DEF Aside, SubjectsAreSole
  <1>3. CASE \E r \in Requests : RequestStep(r)
    <2>1. PICK r \in Requests : RequestStep(r)
      BY <1>3
    <2> SUFFICES ASSUME NEW s \in Requests, Sole(s)'
                 PROVE  /\ \A t \in Requests \ {s} : req'[t].id # req'[s].id
                        /\ \A k \in DOMAIN challenge' : challenge'[k].id # req'[s].id
                        /\ \A c \in DOMAIN credential' : credential'[c].identity # req'[s].id
                        /\ \A t \in Requests : \A g \in guarded'[t] : g[1] # req'[s].id
      BY DEF SubjectsAreSole
    <2>2. /\ \A t \in Requests : t # r => req'[t] = req[t]
          /\ \A t \in Requests : guarded'[t] \subseteq guarded[t] \cup Guarded
      BY <2>1, OneMoves
    <2>3. Effects
      BY <2>1, RequestEffects
    <2>4. \A g \in Guarded : /\ \E c \in DOMAIN credential : credential[c].identity = g[1]
                             /\ g[1] \in DOMAIN identity /\ g[1] \in Subjects
      <3> SUFFICES ASSUME NEW g \in Guarded
                   PROVE  /\ \E c \in DOMAIN credential : credential[c].identity = g[1]
                          /\ g[1] \in DOMAIN identity /\ g[1] \in Subjects
        OBVIOUS
      <3>1. /\ \E c \in DOMAIN credential : credential[c].identity = g[1]
            /\ g[1] \in DOMAIN identity /\ g \in Subjects \X PrincipalIds
        BY GuardedIs DEF Shape
      <3>2. QED
        BY <3>1
    <2>5. CASE Sole(s) /\ req'[s].id = req[s].id
      <3>1. \A t \in Requests \ {s} : req'[t].id # req[s].id
        BY <2>1, <2>2, <2>5, SoleUnknown DEF SubjectsAreSole
      <3>2. \A k \in DOMAIN challenge' : challenge'[k].id # req[s].id
        <4> SUFFICES ASSUME NEW k \in DOMAIN challenge' PROVE challenge'[k].id # req[s].id
          OBVIOUS
        <4>1. CASE k \in DOMAIN challenge /\ challenge'[k] = challenge[k]
          BY <2>5, <4>1 DEF SubjectsAreSole
        <4>2. CASE ~ (k \in DOMAIN challenge /\ challenge'[k] = challenge[k])
          <5>1. challenge'[k].id = req[r].id /\ req[r].pc = "put"
            BY <2>1, <4>2, ChallengeFacts
          <5>2. r # s
            BY <2>5, <5>1 DEF Sole, Shape, RequestOK, PhaseOfOp
          <5>3. QED
            BY <2>5, <5>1, <5>2 DEF SubjectsAreSole
        <4>3. QED
          BY <4>1, <4>2
      <3>3. \A c \in DOMAIN credential' : c \notin DOMAIN credential =>
               credential'[c].identity # req[s].id
        <4> SUFFICES ASSUME NEW c \in DOMAIN credential', c \notin DOMAIN credential
                     PROVE  credential'[c].identity # req[s].id
          OBVIOUS
        <4>1. PICK t \in Requests : /\ req[t].pc = "write" /\ req'[t].pc # "write"
                                    /\ credential'[c].identity = req[t].id
          BY <2>3 DEF Effects
        <4>2. t = r
          BY <2>2, <4>1
        <4>3. CASE r = s
          <5>1. req[r].op = "register" /\ req[r].pc = "write"
                /\ req'[r].pc # "write" /\ req'[r].pc # "answered"
                /\ credential' # credential /\ req'[r].op = "register"
            BY <2>5, <4>1, <4>2, <4>3 DEF Sole
          <5>2. ~ Quits(r) /\ ~ Reads(r, req'[r]) /\ ~ Resolves(r, req'[r])
                /\ ~ Counts(r, req'[r]) /\ ~ Creates(r, req'[r]) /\ ~ Binds(r, req'[r])
                /\ ~ RollsBack(r, req'[r]) /\ ~ Puts(r, req'[r]) /\ ~ Takes(r, req'[r])
                /\ ~ Arrives(r, req'[r]) /\ ~ Draws(r, req'[r])
            BY <5>1 DEF Quits, Reads, Resolves, Counts, Creates, Binds, RollsBack, Puts,
               Takes, Arrives, Draws, store
          <5>3. Writes(r, req'[r])
            BY <2>1, <5>2, Kinds
          <5>4. QED
            BY <5>1, <5>3 DEF Writes
        <4>4. CASE r # s
          BY <2>5, <4>1, <4>2, <4>4 DEF SubjectsAreSole
        <4>5. QED
          BY <4>3, <4>4
      <3>4. \A t \in Requests : \A g \in guarded'[t] : g[1] # req[s].id
        <4> HIDE DEF Guarded
        <4>1. \A g \in Guarded : g[1] # req[s].id
          BY <2>4, <2>5 DEF SubjectsAreSole
        <4>2. QED
          BY <2>2, <2>5, <4>1 DEF SubjectsAreSole
      <3>5. \A c \in DOMAIN credential' : credential'[c].identity # req[s].id
        BY <1>1, <2>3, <2>5, <3>3
      <3>6. QED
        BY <2>5, <3>1, <3>2, <3>4, <3>5
    <2>6. CASE s = r /\ Draws(r, req'[r])
      <3> DEFINE i == req'[r].id
      <3>1. i \in Subjects /\ i \notin minted /\ UNCHANGED <<store, challenge>>
        BY <2>6 DEF Draws, Fresh
      <3>2. \A t \in Requests \ {r} : req'[t].id # i
        BY <2>2, <3>1 DEF InUseIsMinted
      <3>3. \A k \in DOMAIN challenge' : challenge'[k].id # i
        BY <3>1 DEF InUseIsMinted
      <3>4. \A c \in DOMAIN credential : credential[c].identity # i
        BY <3>1 DEF InUseIsMinted, References
      <3>5. \A t \in Requests : \A g \in guarded'[t] : g[1] # i
        <4> HIDE DEF Guarded
        <4>1. \A g \in Guarded : g[1] # i
          BY <2>4, <3>4
        <4>2. \A t \in Requests : \A g \in guarded[t] : g[1] # i
          BY <3>1 DEF InUseIsMinted
        <4>3. QED
          BY <2>2, <4>1, <4>2
      <3>6. \A c \in DOMAIN credential' : credential'[c].identity # i
        BY <3>1, <3>4 DEF store
      <3> HIDE DEF i
      <3>7. QED
        BY <2>6, <3>2, <3>3, <3>5, <3>6 DEF i
    <2>7. QED
      BY <2>1, <2>5, <2>6, SoleStays
  <1>4. QED
    BY <1>2, <1>3

(* Only the registration itself binds its subject, and only it unbinds it. *)
LEMMA SoleBinding ==
    ASSUME Shape, SubjectsAreSole, Effects, NEW s \in Requests, Sole(s)
    PROVE  /\ req[s].id \in Subjects /\ req[s].id \notin Accounts
           /\ req[s].id \in DOMAIN identity' /\ req[s].id \notin DOMAIN identity =>
                 /\ req[s].pc \in {"create", "bind"}
                 /\ req'[s].pc \notin {"find", "create", "permit", "bind", "undone"}
  <1>1. req[s].id \in Subjects /\ req[s].id \notin Accounts
    BY StoreAssumption DEF Shape, Sole, RequestOK, StandaloneOps
  <1>2. QED
    BY <1>1 DEF Effects, SubjectsAreSole

(* SoleIsUnbound is preserved.                                             *)
LEMMA SoleIsUnboundHolds ==
    ASSUME Shape, References, InUseIsMinted, ReservedIsUnused, SubjectsAreSole, SoleIsUnbound,
           (\E r \in Requests : RequestStep(r)) \/ Aside
    PROVE  SoleIsUnbound'
  <1>1. ASSUME NEW s \in Requests, Sole(s), req'[s] = req[s], Effects
        PROVE  /\ req'[s].pc \in {"find", "create", "permit", "bind", "undone"} =>
                     req'[s].id \notin DOMAIN identity'
               /\ req'[s].pc \in {"write", "rollback"} /\ req'[s].id \in DOMAIN identity' =>
                     identity'[req'[s].id].owner = req'[s].got
    BY <1>1, SoleBinding DEF Effects, SoleIsUnbound
  <1>2. CASE Aside
    BY <1>1, <1>2 DEF Aside, SoleIsUnbound, Sole
  <1>3. CASE \E r \in Requests : RequestStep(r)
    <2>1. PICK r \in Requests : RequestStep(r)
      BY <1>3
    <2>2. Effects /\ \A s \in Requests : s # r => req'[s] = req[s]
      BY <2>1, RequestEffects, OneMoves
    <2> DEFINE q == req'[r]
    <2>3. ASSUME Sole(r)'
          PROVE  /\ q.pc \in {"find", "create", "permit", "bind", "undone"} =>
                       q.id \notin DOMAIN identity'
                 /\ q.pc \in {"write", "rollback"} /\ q.id \in DOMAIN identity' =>
                       identity'[q.id].owner = q.got
      <3>1. q.op = "register" /\ q.id # None /\ q.pc # "answered"
        BY <2>3 DEF Sole
      <3>2. CASE Draws(r, q)
        <4>1. q.id \in Subjects /\ q.id \notin minted /\ identity' = identity
              /\ q.pc \in {"find", "permit"}
          BY <3>2 DEF Draws, Fresh, store
        <4>2. QED
          BY <4>1 DEF InUseIsMinted
      <3>3. CASE ~ Draws(r, q)
        <4>1. Sole(r) /\ q.id = req[r].id
          BY <2>1, <2>3, <3>3, SoleStays
        <4>2. CASE Reads(r, q)
          <5>1. /\ identity' = identity /\ q.got = req[r].got
                /\ <<req[r].pc, q.pc>> \in {<<"find", "create">>, <<"permit", "permit">>,
                                            <<"permit", "bind">>, <<"write", "rollback">>}
            BY <3>1, <4>2 DEF Reads, store
          <5>2. QED
            BY <4>1, <5>1 DEF SoleIsUnbound
        <4>3. CASE Resolves(r, q)
          <5>1. req[r].pc = "find" /\ Owner(req[r].id) \in DOMAIN principal
            BY <4>3 DEF Resolves, Active
          <5>2. req[r].id \notin DOMAIN identity
            BY <4>1, <5>1 DEF SoleIsUnbound
          <5>3. QED
            BY <5>1, <5>2, NoneIsNoId DEF Owner
        <4>4. CASE Creates(r, q)
          <5>1. PICK new : CreatePrincipalAndBind(new, req[r].id) /\ Knows(req[r], q, new)
            BY <4>4 DEF Creates
          <5>2. q.pc = "write" /\ q.got = new
            BY <3>1, <5>1 DEF Knows, Idle
          <5>3. identity'[req[r].id].owner = new
            BY <5>1 DEF CreatePrincipalAndBind, With
          <5>4. QED
            BY <4>1, <5>2, <5>3
        <4>5. CASE Binds(r, q)
          <5>1. q.pc = "write" /\ q.got = req[r].who /\ BindIdentity(req[r].who, req[r].id)
            BY <3>1, <4>5 DEF Binds, Idle
          <5>2. identity'[req[r].id].owner = req[r].who
            BY <5>1 DEF BindIdentity, With
          <5>3. QED
            BY <4>1, <5>1, <5>2
        <4>6. CASE RollsBack(r, q)
          <5>1. q.pc = "undone" /\ req[r].pc = "rollback"
            BY <4>6 DEF RollsBack
          <5>2. req[r].id \in DOMAIN identity => Owner(req[r].id) = req[r].got
            BY <4>1, <5>1 DEF SoleIsUnbound, Owner
          <5>3. req[r].id \notin DOMAIN identity'
            BY <2>2, <4>1, <4>6, <5>1, <5>2, RollsBackEffects, SoleBinding
          <5>4. QED
            BY <4>1, <5>1, <5>3
        <4>7. CASE Writes(r, q)
          BY <3>1, <4>7 DEF Writes, Continues
        <4>8. CASE (Quits(r) /\ q = Idle) \/ Arrives(r, q) \/ Counts(r, q) \/ Puts(r, q)
                     \/ Takes(r, q)
          BY <3>1, <4>8 DEF Idle, Arrives, Arrival, Counts, Puts, Takes
        <4> HIDE DEF q
        <4>9. QED
          BY <2>1, <3>3, <4>2, <4>3, <4>4, <4>5, <4>6, <4>7, <4>8, Kinds DEF q
      <3>4. QED
        BY <3>2, <3>3
    <2>4. ASSUME NEW s \in Requests, Sole(s)'
          PROVE  /\ req'[s].pc \in {"find", "create", "permit", "bind", "undone"} =>
                       req'[s].id \notin DOMAIN identity'
                 /\ req'[s].pc \in {"write", "rollback"} /\ req'[s].id \in DOMAIN identity' =>
                       identity'[req'[s].id].owner = req'[s].got
      <3>1. CASE s = r
        BY <2>3, <2>4, <3>1
      <3>2. CASE s # r
        <4>1. Sole(s) /\ req'[s] = req[s]
          BY <2>2, <2>4, <3>2 DEF Sole
        <4>2. QED
          BY <1>1, <2>2, <4>1
      <3>3. QED
        BY <3>1, <3>2
    <2>5. QED
      BY <2>4 DEF SoleIsUnbound
  <1>4. QED
    BY <1>2, <1>3

(* MadeOrLinked is preserved.                                              *)
LEMMA MadeOrLinkedHolds ==
    ASSUME Shape, SoleIsUnbound, MadeOrLinked, (\E r \in Requests : RequestStep(r)) \/ Aside
    PROVE  MadeOrLinked'
  <1>1. CASE Aside
    BY <1>1 DEF Aside, MadeOrLinked
  <1>2. CASE \E r \in Requests : RequestStep(r)
    <2>1. PICK r \in Requests : RequestStep(r)
      BY <1>2
    <2>2. \A s \in Requests : s # r => req'[s] = req[s]
      BY <2>1, OneMoves
    <2> DEFINE q == req'[r]
    <2>3. ASSUME q.pc \in {"write", "rollback"}, q.got # None, q.op = "register" => ~ q.made
          PROVE  q.got = q.who
      <3>1. CASE Reads(r, q)
        <4>1. /\ RequestOK(q) /\ req[r].op = q.op /\ q.pc # "write"
              /\ q.got = req[r].got /\ q.who = req[r].who /\ q.made = req[r].made
          BY <3>1 DEF Reads, Step, Continues
        <4>2. q.op = "register"
          BY <2>3, <4>1 DEF RequestOK, PhaseOfOp
        <4>3. req[r].pc = "write"
          BY <2>3, <3>1, <4>1, <4>2 DEF Reads
        <4>4. QED
          BY <2>3, <4>1, <4>2, <4>3 DEF MadeOrLinked
      <3>2. CASE Resolves(r, q) /\ q.op # "register"
        BY <2>3, <3>2 DEF Resolves, Knows, Idle
      <3>3. CASE Resolves(r, q) /\ q.op = "register"
        <4>1. req[r].op = "register" /\ req[r].pc = "find"
          BY <2>3, <3>3 DEF Resolves, Knows, Idle, Continues
        <4>2. req[r].id # None
          BY <4>1 DEF Shape, RequestOK, IdKnown
        <4>3. req[r].id \notin DOMAIN identity
          BY <4>1, <4>2 DEF SoleIsUnbound, Sole
        <4>4. Owner(req[r].id) = None /\ Owner(req[r].id) \in DOMAIN principal
          BY <3>3, <4>3 DEF Resolves, Active, Owner
        <4>5. QED
          BY <4>4, NoneIsNoId
      <3>4. CASE Creates(r, q)
        <4>1. PICK new : Knows(req[r], q, new)
          BY <3>4 DEF Creates
        <4>2. q.pc = "write" /\ q.got = new /\ (q.op # "register" => new = q.who)
          BY <2>3, <4>1 DEF Knows, Idle
        <4>3. QED
          BY <2>3, <3>4, <4>2 DEF Creates
      <3>5. CASE Binds(r, q)
        BY <2>3, <3>5 DEF Binds, Idle
      <3>6. CASE \/ Quits(r) /\ q = Idle
                 \/ Arrives(r, q) \/ Draws(r, q) \/ Counts(r, q) \/ Writes(r, q)
                 \/ RollsBack(r, q) \/ Puts(r, q) \/ Takes(r, q)
        BY <2>3, <3>6 DEF Idle, Arrives, Arrival, Draws, Counts, Writes, RollsBack, Puts,
           Takes, Continues
      <3> HIDE DEF q
      <3>7. QED
        BY <2>1, <3>1, <3>2, <3>3, <3>4, <3>5, <3>6, Kinds DEF q
    <2>4. QED
      BY <2>2, <2>3 DEF MadeOrLinked
  <1>3. QED
    BY <1>1, <1>2

(* A settled identity stays, and stays settled, while its principal does.  *)
LEMMA SettledStays ==
    ASSUME Shape, InUseIsMinted, Effects, NEW p \in DOMAIN principal',
           NEW i \in Settled(p),
           \A s \in Requests : Sole(s)' =>
               \/ Sole(s) /\ req'[s].id = req[s].id
               \/ req'[s].id \in Fresh(Subjects)
    PROVE  i \in Settled(p)'
  <1>1. i \in DOMAIN identity /\ identity[i].owner = p /\ \A r \in Requests : Sole(r) => req[r].id # i
    BY DEF Settled, IdentitiesOf
  <1>2. i \in DOMAIN identity' /\ identity'[i] = identity[i]
    BY <1>1 DEF Effects
  <1>3. \A s \in Requests : Sole(s)' => req'[s].id # i
    BY <1>1 DEF Fresh, InUseIsMinted
  <1>4. QED
    BY <1>1, <1>2, <1>3 DEF Settled, IdentitiesOf

(* TokensAreSettled is preserved.                                          *)
LEMMA TokensAreSettledHolds ==
    ASSUME Shape, References, InUseIsMinted, ReservedIsUnused, SubjectsAreSole,
           SoleIsUnbound, SessionsHoldTokens, MadeOrLinked, TokensAreSettled,
           (\E r \in Requests : RequestStep(r)) \/ Aside
    PROVE  TokensAreSettled'
  <1>1. ASSUME Effects, NEW p \in tokens, p \in DOMAIN principal',
               \A s \in Requests : Sole(s)' =>
                   \/ Sole(s) /\ req'[s].id = req[s].id
                   \/ req'[s].id \in Fresh(Subjects)
        PROVE  Settled(p)' # {}
    <2>1. CASE p \in DOMAIN principal
      <3>1. PICK i : i \in Settled(p)
        BY <2>1 DEF TokensAreSettled
      <3>2. i \in Settled(p)'
        BY <1>1, <3>1, SettledStays
      <3>3. QED
        BY <3>2
    <2>2. CASE p \notin DOMAIN principal
      <3>1. PICK a \in Accounts \cap DOMAIN identity' : identity'[a].owner = p
        BY <1>1, <2>2 DEF Effects, InUseIsMinted
      <3>2. \A s \in Requests : Sole(s)' => req'[s].id \in Subjects
        BY <1>1, <3>1 DEF Sole, Shape, RequestOK, StandaloneOps, Fresh
      <3>3. a \notin Subjects
        BY <3>1, StoreAssumption
      <3>4. a \in Settled(p)'
        BY <3>1, <3>2, <3>3 DEF Settled, IdentitiesOf
      <3>5. QED
        BY <3>4
    <2>3. QED
      BY <2>1, <2>2
  <1>2. CASE Aside
    <2>1. Effects /\ tokens' = tokens /\ req' = req
      BY <1>2 DEF Aside
    <2>2. \A s \in Requests : Sole(s)' => Sole(s) /\ req'[s].id = req[s].id
      BY <2>1 DEF Sole
    <2>3. QED
      BY <1>1, <2>1, <2>2 DEF TokensAreSettled
  <1>3. CASE \E r \in Requests : RequestStep(r)
    <2>1. PICK r \in Requests : RequestStep(r)
      BY <1>3
    <2> DEFINE q == req'[r]
    <2>2. /\ Effects /\ \A s \in Requests : s # r => req'[s] = req[s]
      BY <2>1, RequestEffects, OneMoves
    <2>3. \A s \in Requests : Sole(s)' => \/ Sole(s) /\ req'[s].id = req[s].id
                                          \/ req'[s].id \in Fresh(Subjects)
      BY <2>1, SoleStays DEF Draws
    <2>4. ASSUME q.pc = "answered", NEW p \in DOMAIN principal', p = q.got, p \notin tokens
          PROVE  Settled(p)' # {}
      <3>1. p # None
        <4>1. StoreTypeOK'
          BY <2>1, RequestEffects DEF Stored
        <4>2. QED
          BY <4>1, StoreAssumption DEF StoreTypeOK
      <3>2. /\ q.id = req[r].id /\ q.id \in DOMAIN identity' /\ identity'[q.id].owner = p
        <4>1. CASE Resolves(r, q)
          <5>1. p = Owner(req[r].id) /\ q.id = req[r].id /\ identity' = identity
            BY <2>4, <4>1 DEF Resolves, Knows, Idle, store
          <5>2. QED
            BY <3>1, <5>1 DEF Owner
        <4>2. CASE Creates(r, q)
          <5>1. PICK new : CreatePrincipalAndBind(new, req[r].id) /\ Knows(req[r], q, new)
            BY <4>2 DEF Creates
          <5>2. q.got = new /\ q.id = req[r].id
            BY <2>4, <5>1 DEF Knows, Idle
          <5>3. req[r].id \in DOMAIN identity' /\ identity'[req[r].id].owner = new
            BY <5>1 DEF CreatePrincipalAndBind, With
          <5>4. QED
            BY <2>4, <5>2, <5>3
        <4>3. CASE Binds(r, q)
          <5>1. q.got = req[r].who /\ q.id = req[r].id /\ BindIdentity(req[r].who, req[r].id)
            BY <2>4, <4>3 DEF Binds, Idle
          <5>2. req[r].id \in DOMAIN identity' /\ identity'[req[r].id].owner = req[r].who
            BY <5>1 DEF BindIdentity, With
          <5>3. QED
            BY <2>4, <5>1, <5>2
        <4>4. CASE Writes(r, q)
          <5>1. /\ req[r].pc = "write" /\ q.got = req[r].got /\ q.id = req[r].id
                /\ principal' = principal /\ identity' = identity
            BY <2>4, <4>4 DEF Writes
          <5>2. req[r].id # None /\ req[r].got = p
            BY <2>4, <5>1 DEF Shape, RequestOK, IdKnown
          <5>3. req[r].op = "register"
            BY <2>4, <3>1, <5>1, <5>2 DEF MadeOrLinked, SessionsHoldTokens
          <5>4. req[r].id \in DOMAIN identity
            <6>1. Insertable(NewCredential(req[r]))
              BY <4>4 DEF Writes
            <6>2. QED
              BY <5>3, <6>1 DEF Insertable, NewCredential
          <5>5. identity[req[r].id].owner = p
            BY <5>1, <5>2, <5>3, <5>4 DEF SoleIsUnbound, Sole
          <5>6. QED
            BY <5>1, <5>4, <5>5
        <4>5. CASE \/ Quits(r) /\ q = Idle
                   \/ Arrives(r, q) \/ Draws(r, q) \/ Reads(r, q) \/ Counts(r, q)
                   \/ RollsBack(r, q) \/ Puts(r, q) \/ Takes(r, q)
          BY <2>4, <3>1, <4>5 DEF Idle, Arrives, Arrival, Draws, Reads, Counts, RollsBack,
             Puts, Takes
        <4> HIDE DEF q
        <4>6. QED
          BY <2>1, <4>1, <4>2, <4>3, <4>4, <4>5, Kinds DEF q
      <3>3. \A s \in Requests : Sole(s)' => req'[s].id # q.id
        <4> SUFFICES ASSUME NEW s \in Requests, Sole(s)' PROVE req'[s].id # q.id
          OBVIOUS
        <4>1. s # r /\ Sole(s)
          BY <2>2, <2>4 DEF Sole
        <4>2. QED
          BY <2>2, <3>2, <4>1 DEF SubjectsAreSole
      <3> HIDE DEF q
      <3>4. q.id \in Settled(p)'
        BY <3>2, <3>3 DEF Settled, IdentitiesOf
      <3>5. QED
        BY <3>4
    <2>5. \A p \in tokens' : p \in tokens \/ (q.pc = "answered" /\ p = q.got)
      <3>1. Step(r, q)
        BY <2>1, OneMoves
      <3>2. QED
        BY <3>1, StepFrame
    <2> HIDE DEF q
    <2>6. QED
      BY <1>1, <2>2, <2>3, <2>4, <2>5 DEF TokensAreSettled
  <1>4. QED
    BY <1>2, <1>3

(* ResolvedStaysTrue is preserved.                                         *)
LEMMA ResolvedStaysTrueHolds ==
    ASSUME Shape, References, InUseIsMinted, ReservedIsUnused, SubjectsAreSole,
           ResolvedStaysTrue, (\E r \in Requests : RequestStep(r)) \/ Aside
    PROVE  ResolvedStaysTrue'
  <1>1. ASSUME NEW s \in Requests, req'[s] = req[s], Effects, Remembers,
               req'[s].pc # "undone", req'[s].id # None,
               req'[s].got \notin gone'[s] \cup {None}
        PROVE  Owner(req[s].id)' = req'[s].got
    <2>1. /\ req[s].got \notin gone[s] \cup {None}
          /\ req[s].got \in DOMAIN principal => req[s].got \in DOMAIN principal'
      <3>1. req'[s] # Idle
        BY <1>1 DEF Idle
      <3>2. QED
        BY <1>1, <3>1 DEF Remembers
    <2>2. Owner(req[s].id) = req[s].got
      BY <1>1, <2>1 DEF ResolvedStaysTrue
    <2>3. req[s].id \in DOMAIN identity /\ identity[req[s].id].owner = req[s].got
      BY <2>1, <2>2 DEF Owner
    <2>4. req[s].got \in DOMAIN principal'
      BY <2>1, <2>3 DEF References
    <2>5. req[s].id \in DOMAIN identity'
      BY <1>1, <2>3, <2>4 DEF Effects, SubjectsAreSole
    <2>6. identity'[req[s].id].owner = req[s].got
      BY <1>1, <2>3, <2>5 DEF Effects
    <2>7. QED
      BY <1>1, <2>5, <2>6 DEF Owner
  <1>2. CASE Aside
    BY <1>1, <1>2 DEF Aside, ResolvedStaysTrue
  <1>3. CASE \E r \in Requests : RequestStep(r)
    <2>1. PICK r \in Requests : RequestStep(r)
      BY <1>3
    <2> DEFINE q == req'[r]
    <2>2. Effects /\ \A s \in Requests : s # r => req'[s] = req[s]
      BY <2>1, RequestEffects, OneMoves
    <2>3. Remembers
      BY <2>1, OneMoves, ObserveRemembers DEF Step
    <2>4. ASSUME q.pc # "undone", q.id # None, q.got \notin gone'[r] \cup {None}
          PROVE  q.id \in DOMAIN identity' /\ identity'[q.id].owner = q.got
      <3>1. CASE Reads(r, q)
        <4>1. q.got = req[r].got /\ UNCHANGED store /\ RequestOK(q) /\ q.op = req[r].op
              /\ q.pc \notin {"answered", "undone", "write"} /\ req[r].pc \notin Ended
          BY <3>1 DEF Reads, Step, Continues
        <4>2. q.pc = "rollback"
          BY <2>4, <4>1 DEF RequestOK
        <4>3. q.op = "register"
          BY <4>1, <4>2 DEF RequestOK, PhaseOfOp
        <4>4. q.id = req[r].id
          BY <3>1, <4>3 DEF Reads
        <4>5. q # Idle
          BY <2>4 DEF Idle
        <4>6. req[r].got \notin gone[r] \cup {None}
          BY <2>3, <2>4, <4>1, <4>5 DEF Remembers
        <4>7. Owner(req[r].id) = req[r].got
          BY <2>4, <4>1, <4>4, <4>6 DEF ResolvedStaysTrue, Ended
        <4>8. QED
          BY <2>4, <4>1, <4>4, <4>7 DEF Owner, store
      <3>2. CASE Resolves(r, q)
        <4>1. q.got \in {None, Owner(req[r].id)} /\ q.id = req[r].id /\ UNCHANGED store
          BY <2>4, <3>2 DEF Resolves, Knows, Idle
        <4>2. QED
          BY <2>4, <4>1 DEF Owner, store
      <3>3. CASE Creates(r, q)
        <4>1. PICK new : CreatePrincipalAndBind(new, req[r].id) /\ Knows(req[r], q, new)
          BY <3>3 DEF Creates
        <4>2. q.got \in {None, new} /\ q.id = req[r].id
          BY <2>4, <4>1 DEF Knows, Idle
        <4>3. req[r].id \in DOMAIN identity' /\ identity'[req[r].id].owner = new
          BY <4>1 DEF CreatePrincipalAndBind, With
        <4>4. QED
          BY <2>4, <4>2, <4>3
      <3>4. CASE Binds(r, q)
        <4>1. q.got = req[r].who /\ q.id = req[r].id /\ BindIdentity(req[r].who, req[r].id)
          BY <2>4, <3>4 DEF Binds, Idle
        <4>2. req[r].id \in DOMAIN identity' /\ identity'[req[r].id].owner = req[r].who
          BY <4>1 DEF BindIdentity, With
        <4>3. QED
          BY <4>1, <4>2
      <3>5. CASE Writes(r, q)
        <4>1. /\ req[r].pc = "write" /\ q.got \in {None, req[r].got} /\ q.id = req[r].id
              /\ principal' = principal /\ identity' = identity
          BY <3>5 DEF Writes
        <4>2. q # Idle /\ q.got = req[r].got /\ req[r].pc \notin Ended
          BY <2>4, <4>1 DEF Idle, Ended
        <4>3. req[r].got \notin gone[r] \cup {None}
          BY <2>3, <2>4, <4>2 DEF Remembers
        <4>4. Owner(req[r].id) = q.got
          BY <2>4, <4>1, <4>2, <4>3 DEF ResolvedStaysTrue
        <4>5. QED
          BY <2>4, <4>1, <4>4 DEF Owner
      <3>6. CASE \/ Quits(r) /\ q = Idle
                 \/ Arrives(r, q) \/ Draws(r, q) \/ Counts(r, q)
                 \/ RollsBack(r, q) \/ Puts(r, q) \/ Takes(r, q)
        BY <2>4, <3>6 DEF Idle, Arrives, Arrival, Draws, Counts, RollsBack,
           Puts, Takes
      <3> HIDE DEF q
      <3>7. QED
        BY <2>1, <3>1, <3>2, <3>3, <3>4, <3>5, <3>6, Kinds DEF q
    <2>5. ASSUME NEW s \in Requests, req'[s].pc # "undone", req'[s].id # None,
                 req'[s].got \notin gone'[s] \cup {None}
          PROVE  Owner(req[s].id)' = req'[s].got
      <3>1. CASE s = r
        BY <2>4, <2>5, <3>1 DEF Owner
      <3>2. CASE s # r
        BY <1>1, <2>2, <2>3, <2>5, <3>2
      <3>3. QED
        BY <3>1, <3>2
    <2>6. QED
      BY <2>5 DEF ResolvedStaysTrue
  <1>4. QED
    BY <1>2, <1>3

(* UndoneLeavesNothing is preserved.                                       *)
LEMMA UndoneLeavesNothingHolds ==
    ASSUME Shape, References, InUseIsMinted, ReservedIsUnused, SubjectsAreSole, SoleIsUnbound,
           UndoneLeavesNothing, (\E r \in Requests : RequestStep(r)) \/ Aside
    PROVE  UndoneLeavesNothing'
  <1>1. Shape' /\ SoleIsUnbound'
    BY ShapeHolds, SoleIsUnboundHolds
  <1>2. \A s \in Requests : req'[s].pc = "undone" => req'[s].id \notin DOMAIN identity'
    <2> SUFFICES ASSUME NEW s \in Requests, req'[s].pc = "undone"
                 PROVE  req'[s].id \notin DOMAIN identity'
      OBVIOUS
    <2>1. req'[s].op = "register" /\ req'[s].id # None
      BY <1>1 DEF Shape, RequestOK, PhaseOfOp, IdKnown
    <2>2. QED
      BY <1>1, <2>1 DEF SoleIsUnbound, Sole
  <1>3. ASSUME NEW s \in Requests, req'[s] = req[s], Effects,
               req'[s].pc = "undone", req'[s].made, req'[s].got \in DOMAIN principal'
        PROVE  IdentitiesOf(req[s].got)' # {}
    <2>1. req[s].got \in minted /\ req[s].got # None
      BY <1>1, <1>3, StoreAssumption DEF InUseIsMinted, Shape, StoreTypeOK
    <2> DEFINE p == req[s].got
    <2>2. p \in DOMAIN principal' /\ req'[s].got = p /\ p \in minted
      BY <1>3, <2>1
    <2>3. CASE p \in DOMAIN principal
      <3>1. IdentitiesOf(p) # {}
        BY <1>3, <2>3 DEF UndoneLeavesNothing
      <3> HIDE DEF p
      <3>2. \E i \in DOMAIN identity' : identity'[i].owner = p
        BY <1>3, <2>2, <2>3, <3>1 DEF Effects, IdentitiesOf
      <3>3. QED
        BY <2>2, <3>2 DEF p, IdentitiesOf
    <2>4. CASE p \notin DOMAIN principal
      <3> HIDE DEF p
      <3>1. \E a \in Accounts \cap DOMAIN identity' : identity'[a].owner = p
        BY <1>3, <2>2, <2>4 DEF Effects
      <3>2. QED
        BY <2>2, <3>1 DEF p, IdentitiesOf
    <2>5. QED
      BY <2>3, <2>4
  <1>4. CASE Aside
    BY <1>2, <1>3, <1>4 DEF Aside, UndoneLeavesNothing
  <1>5. CASE \E r \in Requests : RequestStep(r)
    <2>1. PICK r \in Requests : RequestStep(r)
      BY <1>5
    <2>2. Effects /\ \A s \in Requests : s # r => req'[s] = req[s]
      BY <2>1, RequestEffects, OneMoves
    <2> DEFINE q == req'[r]
    <2>3. ASSUME q.pc = "undone", q.got \in DOMAIN principal'
          PROVE  IdentitiesOf(req[r].got)' # {}
      <3>1. CASE RollsBack(r, q)
        <4>1. q.got = req[r].got
          BY <3>1 DEF RollsBack
        <4>2. QED
          BY <2>3, <3>1, <4>1, RollsBackEffects
      <3>2. CASE Resolves(r, q) \/ Creates(r, q)
        <4>1. PICK who : Knows(req[r], q, who)
          BY <3>2 DEF Resolves, Creates
        <4>2. QED
          BY <2>3, <4>1 DEF Knows, Idle
      <3>3. CASE \/ Quits(r) /\ q = Idle
                 \/ Arrives(r, q) \/ Draws(r, q) \/ Reads(r, q) \/ Counts(r, q)
                 \/ Binds(r, q) \/ Writes(r, q) \/ Puts(r, q) \/ Takes(r, q)
        BY <2>3, <3>3 DEF Idle, Arrives, Arrival, Draws, Reads, Counts, Binds, Writes,
           Puts, Takes
      <3> HIDE DEF q
      <3>4. QED
        BY <2>1, <3>1, <3>2, <3>3, Kinds DEF q
    <2>4. ASSUME NEW s \in Requests, req'[s].pc = "undone", req'[s].made,
                 req'[s].got \in DOMAIN principal'
          PROVE  IdentitiesOf(req[s].got)' # {}
      <3>1. CASE s = r
        BY <2>3, <2>4, <3>1
      <3>2. CASE s # r
        BY <1>3, <2>2, <2>4, <3>2
      <3>3. QED
        BY <3>1, <3>2
    <2>5. QED
      BY <1>2, <2>4 DEF UndoneLeavesNothing
  <1>6. QED
    BY <1>4, <1>5

(* An unused credential stays unused until its enrolment writes it.        *)
LEMMA UnusedStays ==
    ASSUME Shape, Effects, LogFacts, NEW c \in minted, Unused(c),
           \A r \in Requests : Enrols(r) /\ req[r].cred = c => req'[r].pc = "write"
    PROVE  Unused(c)'
  <1>1. c \notin DOMAIN credential'
    BY DEF Unused, Effects
  <1>2. \A n \in DOMAIN log' : log'[n][1] # c
    <2>1. CASE log' = log
      BY <2>1 DEF Unused
    <2>2. CASE log' # log
      <3>1. PICK d \in minted, m \in 0 .. MaxCount :
              /\ log' = Append(log, <<d, m>>)
              /\ d \in DOMAIN credential'
        BY <2>2 DEF LogFacts
      <3>2. log \in Seq(CredentialIds \X (0 .. MaxCount)) /\ d # c
        BY <1>1, <3>1 DEF Shape
      <3>3. \A n \in DOMAIN log' : (n \in DOMAIN log /\ log'[n] = log[n]) \/ log'[n] = <<d, m>>
        BY <3>1, <3>2
      <3>4. QED
        BY <3>2, <3>3 DEF Unused
    <2>3. QED
      BY <2>1, <2>2
  <1>3. QED
    BY <1>1, <1>2 DEF Unused

(* An enrolment starts by taking a challenge.                              *)
LEMMA EnrolsTakes ==
    ASSUME Shape, NEW r \in Requests, RequestStep(r), Enrols(r)'
    PROVE  /\ req[r].chal \in DOMAIN challenge /\ Reserves(req[r].chal)
           /\ req'[r].cred = challenge[req[r].chal].cred
           /\ challenge' = Restrict(challenge, DOMAIN challenge \ {req[r].chal})
           /\ req[r].pc = "take"
  <1> DEFINE q == req'[r]
  <1>1. q.pc = "write" /\ q.op = "totp_enrollment_verify"
    BY DEF Enrols
  <1>2. CASE Takes(r, q)
    BY <1>1, <1>2 DEF Takes, Reserves, Idle
  <1>3. CASE Resolves(r, q) \/ Creates(r, q)
    <2>1. PICK who : Knows(req[r], q, who)
      BY <1>3 DEF Resolves, Creates
    <2>2. QED
      BY <1>1, <2>1 DEF Knows, Idle
  <1>4. CASE \/ Quits(r) /\ q = Idle
             \/ Arrives(r, q) \/ Draws(r, q) \/ Reads(r, q) \/ Counts(r, q) \/ Binds(r, q)
             \/ Writes(r, q) \/ RollsBack(r, q) \/ Puts(r, q)
    BY <1>1, <1>4 DEF Idle, Arrives, Arrival, Draws, Reads, Counts, Binds, Writes, RollsBack,
       Puts, Continues
  <1> HIDE DEF q
  <1>5. QED
    BY <1>2, <1>3, <1>4, Kinds DEF q

(* ReservedIsUnused is preserved.                                          *)
LEMMA ReservedIsUnusedHolds ==
    ASSUME Shape, References, InUseIsMinted, ReservedIsUnused,
           (\E r \in Requests : RequestStep(r)) \/ Aside
    PROVE  ReservedIsUnused'
  <1>1. /\ \A s \in Requests : Enrols(s) => req[s].cred \in minted
        /\ \A k \in DOMAIN challenge : Reserves(k) => challenge[k].cred \in minted
    <2>1. \A s \in Requests : Enrols(s) => req[s].cred # None
      BY DEF Shape, RequestOK, Enrols
    <2>2. \A k \in DOMAIN challenge : Reserves(k) => challenge[k].cred # None
      BY DEF Shape, ChallengeOK, Reserves
    <2>3. QED
      BY <2>1, <2>2 DEF InUseIsMinted
  <1>2. CASE Aside
    <2>1. /\ Effects /\ LogFacts /\ req' = req
          /\ \A k \in DOMAIN challenge' : k \in DOMAIN challenge /\ challenge'[k] = challenge[k]
      BY <1>2 DEF Aside, LogFacts
    <2>2. \A c \in minted : Unused(c) => Unused(c)'
      <3> SUFFICES ASSUME NEW c \in minted, Unused(c) PROVE Unused(c)'
        OBVIOUS
      <3>1. \A r \in Requests : Enrols(r) /\ req[r].cred = c => req'[r].pc = "write"
        BY <2>1 DEF Enrols
      <3>2. QED
        BY <2>1, <3>1, UnusedStays
    <2>3. \A s \in Requests : (Enrols(s)' <=> Enrols(s)) /\ req'[s].cred = req[s].cred
      BY <2>1 DEF Enrols
    <2>4. \A k \in DOMAIN challenge' : Reserves(k)' <=> Reserves(k)
      BY <2>1 DEF Reserves
    <2>5. \A r \in Requests : Enrols(r) => Unused(req[r].cred)'
      <3> SUFFICES ASSUME NEW r \in Requests, Enrols(r) PROVE Unused(req[r].cred)'
        OBVIOUS
      <3>1. PICK c \in minted : c = req[r].cred /\ Unused(c)
        BY <1>1 DEF ReservedIsUnused
      <3>2. Unused(c)'
        BY <2>2, <3>1
      <3>3. QED
        BY <2>3, <3>1, <3>2 DEF Unused
    <2>6. \A k \in DOMAIN challenge' : Reserves(k) => Unused(challenge[k].cred)'
      <3> SUFFICES ASSUME NEW k \in DOMAIN challenge', Reserves(k)
                   PROVE  Unused(challenge[k].cred)'
        OBVIOUS
      <3>1. PICK c \in minted : c = challenge[k].cred /\ Unused(c)
        BY <1>1, <2>1 DEF ReservedIsUnused
      <3>2. Unused(c)'
        BY <2>2, <3>1
      <3>3. QED
        BY <2>1, <3>1, <3>2 DEF Unused
    <2>7. QED
      BY <2>1, <2>3, <2>4, <2>5, <2>6 DEF ReservedIsUnused
  <1>3. CASE \E r \in Requests : RequestStep(r)
    <2>1. PICK r \in Requests : RequestStep(r)
      BY <1>3
    <2> DEFINE q == req'[r]
    <2>2. Effects /\ LogFacts /\ \A s \in Requests : s # r => req'[s] = req[s]
      BY <2>1, RequestEffects, RequestLogs, OneMoves
    <2>3. \A c \in minted : Unused(c) /\ ~ (Enrols(r) /\ req[r].cred = c) => Unused(c)'
      <3> SUFFICES ASSUME NEW c \in minted, Unused(c), ~ (Enrols(r) /\ req[r].cred = c)
                   PROVE  Unused(c)'
        OBVIOUS
      <3>1. \A s \in Requests : Enrols(s) /\ req[s].cred = c => req'[s].pc = "write"
        BY <2>2 DEF Enrols
      <3>2. QED
        BY <2>2, <3>1, UnusedStays
    <2>4. ASSUME NEW s \in Requests, s # r, Enrols(s)
          PROVE  /\ \E c \in minted : c = req'[s].cred /\ Unused(c)'
                 /\ \A t \in Requests \ {s} : Enrols(t)' => req'[t].cred # req'[s].cred
                 /\ \A k \in DOMAIN challenge' : Reserves(k)' => challenge'[k].cred # req'[s].cred
      <3>1. /\ req'[s] = req[s] /\ req[s].cred \in minted /\ Unused(req[s].cred)
            /\ Enrols(r) => req[r].cred # req[s].cred
        BY <1>1, <2>2, <2>4 DEF ReservedIsUnused
      <3>2. \E c \in minted : c = req'[s].cred /\ Unused(c)'
        BY <2>3, <3>1
      <3>3. ASSUME NEW t \in Requests \ {s}, Enrols(t)' PROVE req'[t].cred # req[s].cred
        <4>1. CASE t = r
          <5>1. Enrols(r)'
            BY <3>3, <4>1
          <5>2. /\ req[r].chal \in DOMAIN challenge /\ Reserves(req[r].chal)
                /\ req'[r].cred = challenge[req[r].chal].cred
            BY <2>1, <5>1, EnrolsTakes
          <5>3. QED
            BY <2>4, <4>1, <5>2 DEF ReservedIsUnused
        <4>2. CASE t # r
          <5>1. req'[t] = req[t] /\ Enrols(t)
            BY <2>2, <3>3, <4>2 DEF Enrols
          <5>2. QED
            BY <2>4, <5>1 DEF ReservedIsUnused
        <4>3. QED
          BY <4>1, <4>2
      <3>4. ASSUME NEW k \in DOMAIN challenge', Reserves(k)'
            PROVE  challenge'[k].cred # req[s].cred
        <4>1. CASE k \in DOMAIN challenge /\ challenge'[k] = challenge[k]
          BY <2>4, <3>4, <4>1 DEF ReservedIsUnused, Reserves
        <4>2. CASE ~ (k \in DOMAIN challenge /\ challenge'[k] = challenge[k])
          <5>1. challenge'[k].cred = None \/ challenge'[k].cred \notin minted
            BY <2>1, <4>2, ChallengeFacts
          <5>2. QED
            BY <3>1, <5>1, NoneIsNoId
        <4>3. QED
          BY <4>1, <4>2
      <3>5. QED
        BY <3>1, <3>2, <3>3, <3>4
    <2>5. ASSUME Enrols(r)'
          PROVE  /\ \E c \in minted : c = q.cred /\ Unused(c)'
                 /\ \A t \in Requests \ {r} : Enrols(t)' => req'[t].cred # q.cred
                 /\ \A k \in DOMAIN challenge' : Reserves(k)' => challenge'[k].cred # q.cred
      <3> DEFINE k0 == req[r].chal
      <3>1. /\ k0 \in DOMAIN challenge /\ Reserves(k0) /\ q.cred = challenge[k0].cred
            /\ challenge' = Restrict(challenge, DOMAIN challenge \ {k0})
            /\ req[r].pc = "take"
        BY <2>1, <2>5, EnrolsTakes
      <3> HIDE DEF k0, q
      <3>2. q.cred \in minted /\ Unused(q.cred) /\ ~ Enrols(r)
        BY <1>1, <3>1 DEF ReservedIsUnused, Enrols
      <3>3. \E c \in minted : c = q.cred /\ Unused(c)'
        BY <2>3, <3>2
      <3>4. \A t \in Requests \ {r} : Enrols(t)' => req'[t].cred # q.cred
        BY <2>2, <3>1 DEF ReservedIsUnused, Enrols
      <3>5. \A k \in DOMAIN challenge' :
               k \in DOMAIN challenge /\ k # k0 /\ challenge'[k] = challenge[k]
        BY <3>1, RestrictIs
      <3>6. \A k \in DOMAIN challenge' : Reserves(k)' => challenge'[k].cred # q.cred
        BY <3>1, <3>5 DEF ReservedIsUnused, Reserves
      <3>7. QED
        BY <3>3, <3>4, <3>6
    <2>6. ASSUME NEW k \in DOMAIN challenge', Reserves(k)'
          PROVE  /\ \E c : c = challenge'[k].cred /\ Unused(c)'
                 /\ \A l \in DOMAIN challenge' \ {k} :
                       Reserves(l)' => challenge'[l].cred # challenge'[k].cred
      <3>1. CASE k \in DOMAIN challenge /\ challenge'[k] = challenge[k]
        <4>1. Reserves(k) /\ challenge[k].cred \in minted /\ Unused(challenge[k].cred)
              /\ ~ (Enrols(r) /\ req[r].cred = challenge[k].cred)
          BY <1>1, <2>6, <3>1 DEF ReservedIsUnused, Reserves
        <4>2. \E c : c = challenge'[k].cred /\ Unused(c)'
          BY <2>3, <3>1, <4>1
        <4>3. ASSUME NEW l \in DOMAIN challenge' \ {k}, Reserves(l)'
              PROVE  challenge'[l].cred # challenge'[k].cred
          <5>1. CASE l \in DOMAIN challenge /\ challenge'[l] = challenge[l]
            BY <3>1, <4>1, <4>3, <5>1 DEF ReservedIsUnused, Reserves
          <5>2. CASE ~ (l \in DOMAIN challenge /\ challenge'[l] = challenge[l])
            <6>1. challenge'[l].cred = None \/ challenge'[l].cred \notin minted
              BY <2>1, <5>2, ChallengeFacts
            <6>2. QED
              BY <3>1, <4>1, <6>1, NoneIsNoId
          <5>3. QED
            BY <5>1, <5>2
        <4>4. QED
          BY <4>2, <4>3
      <3>2. CASE ~ (k \in DOMAIN challenge /\ challenge'[k] = challenge[k])
        <4>1. /\ challenge'[k].cred = None \/ challenge'[k].cred \notin minted
              /\ req[r].pc = "put"
              /\ \A l \in DOMAIN challenge' : l # k =>
                    l \in DOMAIN challenge /\ challenge'[l] = challenge[l]
          BY <2>1, <3>2, ChallengeFacts
        <4>2. challenge'[k].cred # None
          BY <2>6, ShapeHolds DEF Shape, ChallengeOK, Reserves
        <4>3. challenge'[k].cred \notin minted
          BY <4>1, <4>2
        <4>4. Puts(r, q)
          <5>1. ~ Takes(r, q) /\ challenge' # challenge
            BY <3>2, <4>1 DEF Takes
          <5> HIDE DEF q
          <5>2. ~ (Quits(r) /\ q = Idle) /\ ~ Arrives(r, q) /\ ~ Draws(r, q)
                /\ ~ Reads(r, q) /\ ~ Resolves(r, q) /\ ~ Counts(r, q) /\ ~ Creates(r, q)
                /\ ~ Binds(r, q) /\ ~ Writes(r, q) /\ ~ RollsBack(r, q)
            BY <5>1 DEF Quits, Arrives, Draws, Reads, Resolves, Counts, Creates, Binds,
               Writes, RollsBack
          <5>3. QED
            BY <2>1, <5>1, <5>2, Kinds DEF q
        <4>5. UNCHANGED <<store, log>>
          BY <4>4 DEF Puts
        <4>6. \E c : c = challenge'[k].cred /\ Unused(c)'
          BY <4>3, <4>5 DEF Unused, InUseIsMinted, store
        <4>7. \A l \in DOMAIN challenge' \ {k} :
                 Reserves(l)' => challenge'[l].cred # challenge'[k].cred
          BY <1>1, <4>1, <4>3 DEF Reserves
        <4>8. QED
          BY <4>6, <4>7
      <3>3. QED
        BY <3>1, <3>2
    <2>7. \A s \in Requests : Enrols(s)' =>
            /\ Unused(req[s].cred)'
            /\ \A t \in Requests \ {s} : Enrols(t)' => req'[t].cred # req'[s].cred
            /\ \A k \in DOMAIN challenge' : Reserves(k)' => challenge'[k].cred # req'[s].cred
      <3> SUFFICES ASSUME NEW s \in Requests, Enrols(s)'
                   PROVE  /\ Unused(req[s].cred)'
                          /\ \A t \in Requests \ {s} : Enrols(t)' => req'[t].cred # req'[s].cred
                          /\ \A k \in DOMAIN challenge' :
                                Reserves(k)' => challenge'[k].cred # req'[s].cred
        OBVIOUS
      <3>1. s # r => Enrols(s)
        BY <2>2 DEF Enrols
      <3>2. /\ \E c \in minted : c = req'[s].cred /\ Unused(c)'
            /\ \A t \in Requests \ {s} : Enrols(t)' => req'[t].cred # req'[s].cred
            /\ \A k \in DOMAIN challenge' : Reserves(k)' => challenge'[k].cred # req'[s].cred
        BY <2>4, <2>5, <3>1
      <3>3. Unused(req[s].cred)'
        BY <3>2 DEF Unused
      <3>4. QED
        BY <3>2, <3>3
    <2>8. \A k \in DOMAIN challenge' : Reserves(k)' => Unused(challenge[k].cred)'
      BY <2>6 DEF Unused
    <2>9. QED
      BY <2>6, <2>7, <2>8 DEF ReservedIsUnused
  <1>4. QED
    BY <1>2, <1>3

(* CountersCoverLog and ProofsAdvance are preserved: what is appended is   *)
(* ahead of every earlier proof of its credential.                         *)
LEMMA LogHolds ==
    ASSUME Shape, InUseIsMinted, ReservedIsUnused, CountersCoverLog, ProofsAdvance,
           Effects, Stored', LogFacts
    PROVE  CountersCoverLog' /\ ProofsAdvance'
  <1>1. /\ \A c \in DOMAIN credential : credential[c].count \in Int
        /\ \A c \in DOMAIN credential' : credential'[c].count \in Int
        /\ log \in Seq(CredentialIds \X (0 .. MaxCount))
        /\ \A n \in DOMAIN log : log[n][2] \in Int
    BY StoreAssumption DEF Shape, Stored, StoreTypeOK, CredentialRow
  <1>2. \A n \in DOMAIN log : log[n][1] \in DOMAIN credential' => log[n][1] \in DOMAIN credential
    BY DEF Effects, InUseIsMinted, ReservedIsUnused, Unused
  <1>3. \A n \in DOMAIN log :
           log[n][1] \in DOMAIN credential' => log[n][2] <= credential'[log[n][1]].count
    BY <1>1, <1>2 DEF Effects, CountersCoverLog
  <1>4. CASE log' = log
    BY <1>3, <1>4 DEF CountersCoverLog, ProofsAdvance
  <1>5. CASE log' # log
    <2>1. PICK c \in minted, v \in 0 .. MaxCount :
            /\ log' = Append(log, <<c, v>>)
            /\ c \in DOMAIN credential' /\ credential'[c].count = v
            /\ (c \in DOMAIN credential /\ credential[c].count < v) \/ Unused(c)
      BY <1>5 DEF LogFacts
    <2>2. v \in Int
      BY StoreAssumption
    <2>3. \A m \in DOMAIN log : log[m][1] = c => log[m][2] < v
      BY <1>1, <2>1, <2>2 DEF CountersCoverLog, Unused
    <2>4. /\ DOMAIN log' = 1 .. Len(log) + 1 /\ DOMAIN log = 1 .. Len(log) /\ Len(log) \in Nat
          /\ \A n \in DOMAIN log : log'[n] = log[n]
          /\ log'[Len(log) + 1] = <<c, v>>
      BY <1>1, <2>1
    <2>5. CountersCoverLog'
      <3> SUFFICES ASSUME NEW n \in DOMAIN log', log'[n][1] \in DOMAIN credential'
                   PROVE  log'[n][2] <= credential'[log'[n][1]].count
        BY DEF CountersCoverLog
      <3>1. CASE n \in DOMAIN log
        BY <1>3, <2>4, <3>1
      <3>2. CASE n \notin DOMAIN log
        <4>1. log'[n] = <<c, v>>
          BY <2>4, <3>2
        <4>2. QED
          BY <2>1, <2>2, <4>1
      <3>3. QED
        BY <3>1, <3>2
    <2>6. ProofsAdvance'
      <3> SUFFICES ASSUME NEW m \in DOMAIN log', NEW n \in DOMAIN log', m < n,
                          log'[m][1] = log'[n][1]
                   PROVE  log'[m][2] < log'[n][2]
        BY DEF ProofsAdvance
      <3>1. m \in DOMAIN log
        BY <2>4
      <3>2. CASE n \in DOMAIN log
        BY <2>4, <3>1, <3>2 DEF ProofsAdvance
      <3>3. CASE n \notin DOMAIN log
        <4>1. log'[n] = <<c, v>> /\ log'[m] = log[m]
          BY <2>4, <3>1, <3>3
        <4>2. QED
          BY <2>3, <3>1, <4>1
      <3>4. QED
        BY <3>2, <3>3
    <2>7. QED
      BY <2>5, <2>6
  <1>6. QED
    BY <1>4, <1>5

(* TakenIsGone and ChallengesAreSingleUse are preserved.                   *)
LEMMA ChallengesHold ==
    ASSUME Shape, InUseIsMinted, TakenIsGone, ChallengesAreSingleUse,
           (\E r \in Requests : RequestStep(r)) \/ Aside
    PROVE  TakenIsGone' /\ ChallengesAreSingleUse'
  <1>1. CASE Aside
    BY <1>1 DEF Aside, TakenIsGone, ChallengesAreSingleUse, At
  <1>2. CASE \E r \in Requests : RequestStep(r)
    <2>1. PICK r \in Requests : RequestStep(r)
      BY <1>2
    <2> DEFINE q == req'[r]
    <2>2. \A s \in Requests : s # r => req'[s] = req[s]
      BY <2>1, OneMoves
    <2>3. \A k \in DOMAIN challenge' : k \in DOMAIN challenge \/ k \notin minted
      BY <2>1, ChallengeFacts
    <2>4. \A s \in Requests : req[s].chal # None => req[s].chal \in minted
      BY DEF InUseIsMinted
    <2>5. \/ q.chal = None
          \/ q.pc = "take"
          \/ q.chal = req[r].chal /\ req[r].pc # "take"
          \/ /\ q.chal = req[r].chal /\ req[r].pc = "take" /\ q.chal \in DOMAIN challenge
             /\ q.chal \notin DOMAIN challenge'
      <3>1. CASE Takes(r, q)
        BY <3>1, RestrictIs DEF Takes, Idle
      <3>2. CASE Resolves(r, q) \/ Creates(r, q)
        <4>1. PICK who : Knows(req[r], q, who)
          BY <3>2 DEF Resolves, Creates
        <4>2. QED
          BY <4>1 DEF Knows, Idle, Continues
      <3>3. CASE \/ Quits(r) /\ q = Idle
                 \/ Arrives(r, q) \/ RollsBack(r, q)
        BY <3>3 DEF Idle, Arrives, Arrival, RollsBack
      <3>4. CASE \/ Draws(r, q) \/ Reads(r, q) \/ Counts(r, q) \/ Binds(r, q) \/ Writes(r, q)
                 \/ Puts(r, q)
        BY <3>4 DEF Draws, Reads, Counts, Binds, Writes, Puts, Continues, Idle
      <3> HIDE DEF q
      <3>5. QED
        BY <2>1, <3>1, <3>2, <3>3, <3>4, Kinds DEF q
    <2> HIDE DEF q
    <2>6. \A s \in Requests :
             req'[s].chal # None /\ req'[s].pc # "take" => req'[s].chal \notin DOMAIN challenge'
      <3> SUFFICES ASSUME NEW s \in Requests, req'[s].chal # None, req'[s].pc # "take"
                   PROVE  req'[s].chal \notin DOMAIN challenge'
        OBVIOUS
      <3>1. CASE s # r
        BY <2>2, <2>3, <2>4, <3>1 DEF TakenIsGone
      <3>2. CASE s = r
        BY <2>3, <2>4, <2>5, <3>2 DEF TakenIsGone, q
      <3>3. QED
        BY <3>1, <3>2
    <2>7. ASSUME NEW s \in Requests \ {r}, q.chal # None, q.chal = req[s].chal,
                 q.pc # "take", req[s].pc # "take"
          PROVE  FALSE
      <3>1. CASE q.chal = req[r].chal /\ req[r].pc # "take"
        BY <2>7, <3>1 DEF ChallengesAreSingleUse, At
      <3>2. CASE q.chal \in DOMAIN challenge
        BY <2>7, <3>2 DEF TakenIsGone
      <3>3. QED
        BY <2>5, <2>7, <3>1, <3>2
    <2>8. ChallengesAreSingleUse'
      <3> SUFFICES ASSUME NEW s \in Requests, NEW t \in Requests, s # t, req'[s].chal # None,
                          req'[s].chal = req'[t].chal, req'[s].pc # "take", req'[t].pc # "take"
                   PROVE  FALSE
        BY DEF ChallengesAreSingleUse, At
      <3>1. CASE s # r /\ t # r
        BY <2>2, <3>1 DEF ChallengesAreSingleUse, At
      <3>2. CASE s = r
        BY <2>2, <2>7, <3>2 DEF q
      <3>3. CASE t = r
        BY <2>2, <2>7, <3>3 DEF q
      <3>4. QED
        BY <3>1, <3>2, <3>3
    <2>9. QED
      BY <2>6, <2>8 DEF TakenIsGone
  <1>3. QED
    BY <1>1, <1>2

(* GotWasLive is preserved.                                                *)
LEMMA GotWasLiveHolds ==
    ASSUME Shape, GotWasLive, (\E r \in Requests : RequestStep(r)) \/ Aside
    PROVE  GotWasLive'
  <1>1. Idle.got = None
    BY DEF Idle
  <1>2. CASE Aside
    <2> SUFFICES ASSUME NEW s \in Requests PROVE req[s].got \in live'[s] \cup {None}
      BY <1>2 DEF Aside, GotWasLive
    <2> HIDE DEF Idle
    <2>1. QED
      BY <1>1, <1>2 DEF Aside, GotWasLive
  <1>3. CASE \E r \in Requests : RequestStep(r)
    <2>1. PICK r \in Requests : RequestStep(r)
      BY <1>3
    <2> DEFINE q == req'[r]
    <2>2. /\ \A s \in Requests : s # r => req'[s] = req[s]
          /\ \A s \in Requests : s # r /\ req[s] # Idle => live[s] \subseteq live'[s]
          /\ req[r].pc \notin Ended /\ q # Idle => live'[r] = live[r] \cup Active \cup Active'
      BY <2>1, OneMoves
    <2>3. q.got \in live'[r] \cup {None}
      <3>1. CASE Reads(r, q) \/ Writes(r, q)
        <4>1. q.got \in {req[r].got, None} /\ Continues(req[r], q)
          BY <3>1 DEF Reads, Writes
        <4>2. req[r].pc \notin Ended /\ q # Idle
          BY <4>1 DEF Continues, Idle
        <4> HIDE DEF q, Active, Ended, Idle
        <4>3. QED
          BY <2>2, <4>1, <4>2 DEF GotWasLive
      <3>2. CASE Resolves(r, q)
        <4>1. q = Idle \/ (Continues(req[r], q) /\ q.got \in {None, Owner(req[r].id)})
          BY <3>2 DEF Resolves, Knows
        <4>2. Owner(req[r].id) \in Active
          BY <3>2 DEF Resolves
        <4>3. Continues(req[r], q) => req[r].pc \notin Ended /\ q # Idle
          BY DEF Continues, Idle
        <4> HIDE DEF q, Active, Ended, Idle
        <4>4. QED
          BY <1>1, <2>2, <4>1, <4>2, <4>3
      <3>3. CASE Creates(r, q)
        <4>1. PICK new : CreatePrincipalAndBind(new, req[r].id) /\ Knows(req[r], q, new)
          BY <3>3 DEF Creates
        <4>2. q = Idle \/ (Continues(req[r], q) /\ q.got \in {None, new})
          BY <4>1 DEF Knows
        <4>3. new \in Active'
          BY <4>1 DEF CreatePrincipalAndBind, With, Active
        <4>4. Continues(req[r], q) => req[r].pc \notin Ended /\ q # Idle
          BY DEF Continues, Idle
        <4> HIDE DEF q, Active, Ended, Idle
        <4>5. QED
          BY <1>1, <2>2, <4>2, <4>3, <4>4
      <3>4. CASE Binds(r, q)
        <4>1. q = Idle \/ (/\ req[r].who \in Active
                           /\ Continues(req[r], q) /\ q.got = req[r].who)
          BY <3>4 DEF Binds
        <4>2. Continues(req[r], q) => req[r].pc \notin Ended /\ q # Idle
          BY DEF Continues, Idle
        <4> HIDE DEF q, Active, Ended, Idle
        <4>3. QED
          BY <1>1, <2>2, <4>1, <4>2
      <3>5. CASE RollsBack(r, q)
        <4>1. q.got = req[r].got /\ req[r].pc \notin Ended /\ q # Idle
          BY <3>5 DEF RollsBack, Idle, Ended
        <4> HIDE DEF q, Active, Ended, Idle
        <4>2. QED
          BY <2>2, <4>1 DEF GotWasLive
      <3>6. CASE \/ Quits(r) /\ q = Idle
                 \/ Arrives(r, q) \/ Draws(r, q) \/ Counts(r, q) \/ Puts(r, q) \/ Takes(r, q)
        BY <1>1, <3>6 DEF Arrives, Arrival, Draws, Counts, Puts, Takes
      <3> HIDE DEF q
      <3>7. QED
        BY <2>1, <3>1, <3>2, <3>3, <3>4, <3>5, <3>6, Kinds DEF q
    <2> HIDE DEF Idle, Active
    <2>4. QED
      BY <1>1, <2>2, <2>3 DEF GotWasLive
  <1>4. QED
    BY <1>2, <1>3

(* An identity that is with the owner it had when a login began was with   *)
(* that owner before the step too: nobody gets an old owner back.          *)
LEMMA OldOwners ==
    ASSUME Shape, InUseIsMinted, SubjectsAreSole, Effects,
           NEW s \in Requests, NEW g \in guarded[s], Owner(g[1])' = g[2]
    PROVE  g[1] \in DOMAIN identity /\ g[1] \in DOMAIN identity' /\ Owner(g[1]) = g[2]
  <1>1. /\ g[1] \in Subjects /\ g[2] \in PrincipalIds
        /\ g[1] \notin Accounts /\ g[2] # None /\ g[2] \in minted
    BY StoreAssumption DEF Shape, InUseIsMinted, Identities
  <1>2. g[1] \in DOMAIN identity' /\ identity'[g[1]].owner = g[2]
    BY <1>1 DEF Owner
  <1>3. ASSUME g[1] \notin DOMAIN identity
        PROVE  FALSE
    <2>1. PICK r \in Requests :
             req[r].id = g[1] /\ (Sole(r) \/ identity'[g[1]].owner \notin minted)
      BY <1>1, <1>2, <1>3 DEF Effects
    <2>2. Sole(r)
      BY <1>1, <1>2, <2>1
    <2>3. QED
      BY <2>1, <2>2 DEF SubjectsAreSole
  <1>4. QED
    BY <1>2, <1>3 DEF Effects, Owner

(* GuardedKeepsFactor is preserved.                                        *)
LEMMA GuardedKeepsFactorHolds ==
    ASSUME Shape, References, InUseIsMinted, SubjectsAreSole, ReservedIsUnused,
           GuardedKeepsFactor, (\E r \in Requests : RequestStep(r)) \/ Aside
    PROVE  GuardedKeepsFactor'
  <1>1. Effects
    BY RequestEffects DEF Aside
  <1>2. ASSUME NEW s \in Requests, NEW g \in guarded[s], Owner(g[1])' = g[2]
        PROVE  ByIdentity(g[1], "totp")' # {}
    <2>1. g[1] \in DOMAIN identity' /\ Owner(g[1]) = g[2]
      BY <1>1, <1>2, OldOwners
    <2>2. PICK c \in DOMAIN credential :
             credential[c].identity = g[1] /\ credential[c].kind = "totp"
      BY <2>1 DEF GuardedKeepsFactor, ByIdentity
    <2>3. /\ c \in DOMAIN credential'
          /\ credential'[c].identity = g[1] /\ credential'[c].kind = "totp"
      BY <1>1, <2>1, <2>2 DEF Effects
    <2>4. QED
      BY <2>3 DEF ByIdentity
  <1>3. \A s \in Requests : \A g \in guarded'[s] :
           \/ g \in guarded[s]
           \/ UNCHANGED store /\ g \in Guarded
    <2>1. CASE Aside
      BY <2>1 DEF Aside
    <2>2. CASE \E r \in Requests : RequestStep(r)
      <3>1. PICK r \in Requests : RequestStep(r)
        BY <2>2
      <3>2. /\ \A s \in Requests : s # r => guarded'[s] \subseteq guarded[s]
            /\ req[r].pc \notin Ended => guarded'[r] \subseteq guarded[r]
            /\ guarded'[r] \subseteq guarded[r] \cup Guarded
        BY <3>1, OneMoves
      <3>3. req[r].pc \notin Ended \/ UNCHANGED store
        <4> DEFINE q == req'[r]
        <4>1. CASE (Quits(r) /\ q = Idle) \/ Arrives(r, q)
          BY <4>1 DEF Quits, Arrives
        <4>2. CASE \/ Draws(r, q) \/ Reads(r, q) \/ Resolves(r, q) \/ Counts(r, q)
                   \/ Creates(r, q) \/ Binds(r, q) \/ Writes(r, q) \/ RollsBack(r, q)
                   \/ Puts(r, q) \/ Takes(r, q)
          BY <4>2 DEF Draws, Reads, Resolves, Counts, Creates, Binds, Writes, RollsBack, Puts,
             Takes, Ended, Continues
        <4> HIDE DEF q
        <4>3. QED
          BY <3>1, <4>1, <4>2, Kinds DEF q
      <3> HIDE DEF Guarded, Ended
      <3>4. QED
        BY <3>2, <3>3
    <2>3. QED
      BY <2>1, <2>2
  <1>4. ASSUME UNCHANGED store, NEW g \in Guarded
        PROVE  ByIdentity(g[1], "totp")' # {}
    <2>1. StoreTypeOK
      BY DEF Shape
    <2>2. ByIdentity(g[1], "totp") # {}
      BY <2>1, GuardedIs
    <2>3. QED
      BY <1>4, <2>2 DEF ByIdentity, store
  <1> HIDE DEF Guarded
  <1>5. QED
    BY <1>2, <1>3, <1>4 DEF GuardedKeepsFactor

(* PasswordAloneIsUnguarded is preserved.                                  *)
LEMMA PasswordAloneIsUnguardedHolds ==
    ASSUME Shape, References, InUseIsMinted, SubjectsAreSole, ReservedIsUnused,
           GuardedKeepsFactor, PasswordAloneIsUnguarded,
           (\E r \in Requests : RequestStep(r)) \/ Aside
    PROVE  PasswordAloneIsUnguarded'
  <1> DEFINE Alone(q) == q.op = "login" /\ "otp" \notin q.amr
  <1>1. Effects
    BY RequestEffects DEF Aside
  <1>2. ASSUME NEW s \in Requests, req'[s] = req[s], guarded'[s] \subseteq guarded[s],
               Alone(req[s])
        PROVE  /\ req'[s].pc \in {"find", "create"} =>
                     \A g \in guarded'[s] : g[1] = req'[s].id => Owner(g[1])' # g[2]
               /\ req'[s].pc = "answered" => <<req'[s].id, req'[s].got>> \notin guarded'[s]
    <2>1. ASSUME NEW g \in guarded'[s], Owner(g[1])' = g[2]
          PROVE  Owner(g[1]) = g[2]
      BY <1>1, <1>2, <2>1, OldOwners
    <2>2. QED
      BY <1>2, <2>1 DEF PasswordAloneIsUnguarded
  <1>3. CASE Aside
    BY <1>2, <1>3 DEF Aside, PasswordAloneIsUnguarded
  <1>4. CASE \E r \in Requests : RequestStep(r)
    <2>1. PICK r \in Requests : RequestStep(r)
      BY <1>4
    <2> DEFINE q == req'[r]
    <2>2. /\ \A s \in Requests : s # r => req'[s] = req[s]
          /\ \A s \in Requests : s # r => guarded'[s] \subseteq guarded[s]
          /\ req[r].pc \notin Ended => guarded'[r] \subseteq guarded[r]
      BY <2>1, OneMoves
    <2>3. ASSUME Alone(q)
          PROVE  /\ q.pc \in {"find", "create"} =>
                       \A g \in guarded'[r] : g[1] = q.id => Owner(g[1])' # g[2]
                 /\ q.pc = "answered" => <<q.id, q.got>> \notin guarded'[r]
      <3>1. CASE Reads(r, q)
        <4>1. /\ Continues(req[r], q) /\ UNCHANGED store /\ q.pc # "answered"
              /\ q.pc \in {"find", "create"} =>
                    \/ ByIdentity(q.id, "totp") = {}
                    \/ req[r].pc = "find" /\ q.id = req[r].id /\ q.amr = req[r].amr
          BY <2>3, <3>1 DEF Reads
        <4>2. req[r].pc \notin Ended /\ req[r].op = "login"
          BY <2>3, <4>1 DEF Continues
        <4>3. \A i : Owner(i)' = Owner(i)
          BY <4>1 DEF Owner, store
        <4> SUFFICES ASSUME q.pc \in {"find", "create"}, NEW g \in guarded[r], g[1] = q.id
                     PROVE  Owner(g[1]) # g[2]
          BY <2>2, <4>1, <4>2, <4>3
        <4>4. CASE ByIdentity(q.id, "totp") = {}
          BY <4>4 DEF GuardedKeepsFactor
        <4>5. CASE req[r].pc = "find" /\ q.id = req[r].id /\ q.amr = req[r].amr
          BY <2>3, <4>2, <4>5 DEF PasswordAloneIsUnguarded
        <4>6. QED
          BY <4>1, <4>4, <4>5
      <3>2. CASE Resolves(r, q)
        <4>1. /\ req[r].pc = "find"
              /\ \/ q = Idle
                 \/ /\ q.op = req[r].op /\ q.id = req[r].id
                    /\ q.pc \in {"list_passkeys", "write", "answered"}
                    /\ q.pc = "answered" => q.got = Owner(req[r].id) /\ q.amr = req[r].amr
          BY <3>2 DEF Resolves, Knows, Continues
        <4>2. guarded'[r] \subseteq guarded[r]
          BY <2>2, <4>1 DEF Ended
        <4>3. q.op = "login"
          BY <2>3
        <4>4. q # Idle
          BY <4>3 DEF Idle
        <4>5. ASSUME q.pc = "answered", <<q.id, q.got>> \in guarded[r]
              PROVE  FALSE
          <5>1. /\ req[r].op = "login" /\ "otp" \notin req[r].amr
                /\ q.id = req[r].id /\ q.got = Owner(q.id)
            BY <2>3, <4>1, <4>4, <4>5
          <5>2. \A g \in guarded[r] : g[1] = req[r].id => Owner(g[1]) # g[2]
            BY <4>1, <5>1 DEF PasswordAloneIsUnguarded
          <5>3. <<q.id, q.got>>[1] = q.id /\ <<q.id, q.got>>[2] = q.got
            OBVIOUS
          <5> HIDE DEF q
          <5>4. QED
            BY <4>5, <5>1, <5>2, <5>3
        <4> HIDE DEF q
        <4>6. QED
          BY <4>1, <4>2, <4>4, <4>5
      <3>3. CASE Creates(r, q)
        <4>1. PICK new : new \notin minted /\ Knows(req[r], q, new)
          BY <3>3 DEF Creates, Fresh
        <4>2. /\ req[r].pc = "create"
              /\ \/ q = Idle
                 \/ q.pc \in {"list_passkeys", "write", "answered"} /\ (q.pc = "answered" => q.got = new)
          BY <3>3, <4>1 DEF Creates, Knows
        <4>3. guarded'[r] \subseteq guarded[r]
          BY <2>2, <4>2 DEF Ended
        <4>4. q.op = "login"
          BY <2>3
        <4>5. q # Idle
          BY <4>4 DEF Idle
        <4>6. <<q.id, new>> \notin guarded[r]
          <5>1. <<q.id, new>>[2] = new
            OBVIOUS
          <5> HIDE DEF q
          <5>2. QED
            BY <4>1, <5>1 DEF InUseIsMinted
        <4> HIDE DEF q
        <4>7. QED
          BY <4>2, <4>3, <4>5, <4>6
      <3>4. CASE \/ Quits(r) /\ q = Idle
                 \/ Arrives(r, q) \/ Draws(r, q) \/ Counts(r, q) \/ RollsBack(r, q)
                 \/ Takes(r, q)
        BY <2>3, <3>4 DEF Idle, Arrives, Arrival, Draws, Counts, RollsBack, Takes
      <3>5. CASE Binds(r, q) \/ Writes(r, q) \/ Puts(r, q)
        <4>1. req[r].pc \in {"bind", "write", "put"} /\ (q = Idle \/ q.op = req[r].op)
          BY <3>5 DEF Binds, Writes, Puts, Continues
        <4>2. RequestOK(req[r])
          BY DEF Shape
        <4>3. req[r].op # "login"
          BY <4>1, <4>2 DEF RequestOK, PhaseOfOp, AccountOps, StandaloneOps
        <4>4. QED
          BY <2>3, <4>1, <4>3 DEF Idle
      <3> HIDE DEF q
      <3>6. QED
        BY <2>1, <3>1, <3>2, <3>3, <3>4, <3>5, Kinds DEF q
    <2>4. \A s \in Requests : Alone(req'[s]) =>
             /\ req'[s].pc \in {"find", "create"} =>
                   \A g \in guarded'[s] : g[1] = req'[s].id => Owner(g[1])' # g[2]
             /\ req'[s].pc = "answered" => <<req'[s].id, req'[s].got>> \notin guarded'[s]
      <3> SUFFICES ASSUME NEW s \in Requests, Alone(req'[s])
                   PROVE  /\ req'[s].pc \in {"find", "create"} =>
                                \A g \in guarded'[s] : g[1] = req'[s].id => Owner(g[1])' # g[2]
                          /\ req'[s].pc = "answered" =>
                                <<req'[s].id, req'[s].got>> \notin guarded'[s]
        OBVIOUS
      <3>1. CASE s # r
        <4>1. req'[s] = req[s] /\ guarded'[s] \subseteq guarded[s] /\ Alone(req[s])
          BY <2>2, <3>1
        <4>2. QED
          BY <1>2, <4>1
      <3>2. CASE s = r
        BY <2>3, <3>2 DEF q
      <3>3. QED
        BY <3>1, <3>2
    <2>5. QED
      BY <2>4 DEF PasswordAloneIsUnguarded
  <1>5. QED
    BY <1>3, <1>4

-----------------------------------------------------------------------------
(* The invariant holds initially and is preserved.                         *)

(* A deployment starts with tables in order and nothing going on.          *)
LEMMA InitIInv == Init => IInv
  <1> SUFFICES ASSUME Init PROVE IInv
    OBVIOUS
  <1>1. /\ profile \in Profiles /\ req = [r \in Requests |-> Idle] /\ log = <<>>
        /\ live = [r \in Requests |-> {}] /\ guarded = [r \in Requests |-> {}]
        /\ DOMAIN challenge = {} /\ tokens = DOMAIN principal /\ clock = 0
        /\ minted = DOMAIN principal \cup DOMAIN identity \cup DOMAIN credential
    BY DEF Init
  <1>2. /\ StoreTypeOK /\ References
        /\ \A p \in DOMAIN principal : IdentitiesOf(p) # {}
    <2>1. /\ principal = profile.principals /\ identity = profile.identities
          /\ credential = profile.credentials
      BY DEF Init
    <2>2. StoreTypeOK
      BY <1>1, <2>1, TablesAssumption DEF StoreTypeOK
    <2>3. References
      BY <1>1, <2>1, TablesAssumption DEF References
    <2>4. ASSUME NEW p \in DOMAIN principal
          PROVE  IdentitiesOf(p) # {}
      BY <1>1, <2>1, <2>4, TablesAssumption DEF IdentitiesOf
    <2>5. QED
      BY <2>2, <2>3, <2>4
  <1>3. \A r \in Requests :
           /\ req[r] = Idle /\ RequestOK(req[r]) /\ live[r] = {} /\ guarded[r] = {}
           /\ req[r].op = "none" /\ req[r].pc = "idle" /\ req[r].id = None
           /\ req[r].who = None /\ req[r].got = None /\ req[r].cred = None
           /\ req[r].chal = None
    BY <1>1, IdleOK DEF Idle
  <1>4. Shape
    <2>1. clock \in 0 .. MaxStep
      BY <1>1, AuthenticationAssumption, StoreAssumption
    <2>2. req \in [Requests -> RequestRow]
      BY <1>1, IdleOK DEF RequestOK
    <2>3. minted \subseteq PrincipalIds \cup Subjects \cup Accounts \cup CredentialIds
                              \cup ChallengeIds
      BY <1>1, <1>2 DEF StoreTypeOK, Identities
    <2>4. tokens \subseteq PrincipalIds
      BY <1>1, <1>2 DEF StoreTypeOK
    <2>5. /\ live \in [Requests -> SUBSET PrincipalIds]
          /\ guarded \in [Requests -> SUBSET (Subjects \X PrincipalIds)]
          /\ log \in Seq(CredentialIds \X (0 .. MaxCount))
      BY <1>1
    <2> HIDE DEF Idle
    <2>6. QED
      BY <1>1, <1>2, <1>3, <2>1, <2>2, <2>3, <2>4, <2>5 DEF Shape
  <1> HIDE DEF Idle
  <1>5. \A r \in Requests : ~ Sole(r) /\ ~ Enrols(r)
    BY <1>3 DEF Sole, Enrols
  <1>6. InUseIsMinted
    <2>1. DOMAIN log = {}
      BY <1>1
    <2>2. QED
      BY <1>1, <1>3, <2>1, StoreAssumption DEF InUseIsMinted, Identities
  <1>7. SessionsHoldTokens /\ SubjectsAreSole /\ SoleIsUnbound /\ MadeOrLinked
    BY <1>1, <1>3, <1>5 DEF SessionsHoldTokens, SubjectsAreSole, SoleIsUnbound, MadeOrLinked
  <1>8. TokensAreSettled
    BY <1>1, <1>2, <1>5 DEF TokensAreSettled, Settled
  <1>9. ResolvedStaysTrue /\ UndoneLeavesNothing /\ ReservedIsUnused
    BY <1>1, <1>3, <1>5 DEF ResolvedStaysTrue, UndoneLeavesNothing, ReservedIsUnused
  <1>10. CountersCoverLog /\ ProofsAdvance
    BY <1>1 DEF CountersCoverLog, ProofsAdvance
  <1>11. TakenIsGone /\ ChallengesAreSingleUse /\ GotWasLive
    BY <1>3 DEF TakenIsGone, ChallengesAreSingleUse, GotWasLive
  <1>12. GuardedKeepsFactor /\ PasswordAloneIsUnguarded
    BY <1>3 DEF GuardedKeepsFactor, PasswordAloneIsUnguarded
  <1>13. QED
    BY <1>2, <1>4, <1>6, <1>7, <1>8, <1>9, <1>10, <1>11, <1>12 DEF IInv

(* Every step is the step of one request or one that no request takes.     *)
LEMMA NextKinds ==
    ASSUME Shape, References, InUseIsMinted, [Next]_vars
    PROVE  (\E r \in Requests : RequestStep(r)) \/ Aside
  <1>1. CASE \E r \in Requests : Arrive(r) \/ Proceed(r) \/ Abandon(r)
    BY <1>1, RequestSteps
  <1>2. CASE Expire \/ Tick \/ SetStatus \/ Delete \/ Provision \/ UNCHANGED vars
    BY <1>2, AsideSteps
  <1>3. QED
    BY <1>1, <1>2 DEF Next

(* Every step preserves the invariant.                                     *)
LEMMA NextIInv == IInv /\ [Next]_vars => IInv'
  <1> SUFFICES ASSUME IInv, [Next]_vars PROVE IInv'
    OBVIOUS
  <1> USE DEF IInv
  <1>1. (\E r \in Requests : RequestStep(r)) \/ Aside
    BY NextKinds
  <1>2. Effects /\ Stored'
    BY <1>1, RequestEffects DEF Aside
  <1>3. Shape'
    BY <1>1, ShapeHolds
  <1>4. References'
    BY <1>2 DEF Stored
  <1>5. InUseIsMinted' /\ ReservedIsUnused'
    BY <1>1, InUseIsMintedHolds, ReservedIsUnusedHolds
  <1>6. SessionsHoldTokens' /\ MadeOrLinked' /\ GotWasLive'
    BY <1>1, SessionsHoldTokensHolds, MadeOrLinkedHolds, GotWasLiveHolds
  <1>7. SubjectsAreSole' /\ SoleIsUnbound' /\ UndoneLeavesNothing'
    BY <1>1, SubjectsAreSoleHolds, SoleIsUnboundHolds, UndoneLeavesNothingHolds
  <1>8. TokensAreSettled' /\ ResolvedStaysTrue'
    BY <1>1, TokensAreSettledHolds, ResolvedStaysTrueHolds
  <1>9. CountersCoverLog' /\ ProofsAdvance'
    <2>1. LogFacts
      BY <1>1, RequestLogs DEF Aside, LogFacts
    <2>2. QED
      BY <1>2, <2>1, LogHolds
  <1>10. TakenIsGone' /\ ChallengesAreSingleUse'
    BY <1>1, ChallengesHold
  <1>11. GuardedKeepsFactor' /\ PasswordAloneIsUnguarded'
    BY <1>1, GuardedKeepsFactorHolds, PasswordAloneIsUnguardedHolds
  <1>12. QED
    BY <1>3, <1>4, <1>5, <1>6, <1>7, <1>8, <1>9, <1>10, <1>11

-----------------------------------------------------------------------------
(* What the handlers promise.                                              *)

(* IInv is inductive.                                                      *)
THEOREM InductiveInvariant == Spec => []IInv
  BY InitIInv, NextIInv, PTL DEF Spec

(* Every table, request and challenge keeps its shape.                     *)
THEOREM TypeCorrect == Spec => []TypeOK
  <1>1. IInv => TypeOK
    <2> SUFFICES ASSUME IInv PROVE TypeOK
      OBVIOUS
    <2>1. Shape
      BY DEF IInv
    <2>2. ASSUME NEW r \in Requests
          PROVE  /\ req[r].op \in profile.operations \cup {"none"}
                 /\ req[r].id \in Identities \cup {None}
                 /\ req[r].who \in PrincipalIds \cup {None}
                 /\ req[r].got \in PrincipalIds \cup {None}
                 /\ req[r].count \in 0 .. MaxCount
                 /\ DOMAIN req[r].state \subseteq CredentialIds
      <3>1. req[r] \in RequestRow /\ req[r].op \in profile.operations \cup {"none"}
        BY <2>1 DEF Shape
      <3>2. req[r].state \in States
        BY <3>1 DEF RequestRow
      <3>3. QED
        BY <3>1, <3>2, StateDomain DEF RequestRow
    <2>3. QED
      BY <2>1, <2>2 DEF TypeOK, Shape
  <1>2. QED
    BY <1>1, InductiveInvariant, PTL

(* No code and no assertion is accepted twice: the compare-and-set of the  *)
(* counter in the database decides, whichever processes race.              *)
THEOREM ProofsAlwaysAdvance == Spec => []ProofsAdvance
  <1>1. IInv => ProofsAdvance
    BY DEF IInv
  <1>2. QED
    BY <1>1, InductiveInvariant, PTL

(* No token for a principal that was not active at some moment of the      *)
(* request.                                                                *)
THEOREM TokensAlwaysNeedAnActivePrincipal == Spec => []TokensNeedAnActivePrincipal
  <1>1. IInv => TokensNeedAnActivePrincipal
    BY DEF IInv, GotWasLive, TokensNeedAnActivePrincipal
  <1>2. QED
    BY <1>1, InductiveInvariant, PTL

(* Password alone never opens an account that had a second factor when the *)
(* login began.                                                            *)
THEOREM SecondFactorAlwaysGuardsOwner == Spec => []SecondFactorGuardsOwner
  <1>1. IInv => SecondFactorGuardsOwner
    BY DEF IInv, PasswordAloneIsUnguarded, SecondFactorGuardsOwner
  <1>2. QED
    BY <1>1, InductiveInvariant, PTL

(* What a client was told of an identity stays true while that principal   *)
(* exists.                                                                 *)
THEOREM AnswersAlwaysStayTrue == Spec => []AnswersStayTrue
  <1>1. IInv => AnswersStayTrue
    BY DEF IInv, ResolvedStaysTrue, AnswersStayTrue
  <1>2. QED
    BY <1>1, InductiveInvariant, PTL

(* A registration that was rolled back leaves nothing of its own behind.   *)
THEOREM UndoneAlwaysLeavesNothing == Spec => []UndoneLeavesNothing
  <1>1. IInv => UndoneLeavesNothing
    BY DEF IInv
  <1>2. QED
    BY <1>1, InductiveInvariant, PTL

(* No two requests go on from one challenge.                               *)
THEOREM ChallengesAreAlwaysSingleUse == Spec => []ChallengesAreSingleUse
  <1>1. IInv => ChallengesAreSingleUse
    BY DEF IInv
  <1>2. QED
    BY <1>1, InductiveInvariant, PTL

(* A rollback never deletes a principal its registration did not create:   *)
(* who asked for the link holds a token, hence an identity that no         *)
(* rollback takes.                                                         *)
THEOREM RollbackAlwaysSparesOthers == Spec => RollbackSparesOthers
  <1> DEFINE A == \A r \in Requests :
                     At(r, "rollback") /\ req'[r].pc = "undone" /\ ~ req[r].made
                        => DOMAIN principal' = DOMAIN principal
  <1>1. IInv /\ [Next]_vars => A
    <2> SUFFICES ASSUME IInv, [Next]_vars, NEW r \in Requests,
                        At(r, "rollback"), req'[r].pc = "undone", ~ req[r].made
                 PROVE  DOMAIN principal' = DOMAIN principal
      OBVIOUS
    <2>1. /\ Shape /\ References /\ InUseIsMinted /\ SessionsHoldTokens /\ MadeOrLinked
          /\ TokensAreSettled
      BY DEF IInv
    <2>2. req[r].pc = "rollback" /\ req'[r].pc # req[r].pc
      BY DEF At
    <2>3. (\E s \in Requests : RequestStep(s)) \/ Aside
      BY <2>1, NextKinds
    <2>4. RequestStep(r)
      BY <2>1, <2>2, <2>3, OneMoves DEF Aside
    <2>5. RollsBack(r, req'[r])
      <3> DEFINE q == req'[r]
      <3>1. q.pc = "undone" /\ req[r].pc = "rollback"
        BY <2>2
      <3>2. CASE \/ Quits(r) /\ q = Idle
                 \/ Arrives(r, q) \/ Draws(r, q) \/ Reads(r, q) \/ Resolves(r, q)
                 \/ Counts(r, q) \/ Creates(r, q) \/ Binds(r, q) \/ Writes(r, q)
                 \/ Puts(r, q) \/ Takes(r, q)
        BY <3>1, <3>2 DEF Arrives, Arrival, Draws, Reads, Resolves, Counts, Creates, Binds,
           Writes, Puts, Takes, Idle
      <3> HIDE DEF q
      <3>3. QED
        BY <2>1, <2>4, <3>2, Kinds DEF q
    <2>6. req[r].op = "register" /\ req[r].got # None /\ req[r].id # None
      BY <2>1, <2>2 DEF Shape, RequestOK, PhaseOfOp, IdKnown
    <2>7. req[r].got \in tokens
      BY <2>1, <2>2, <2>6 DEF MadeOrLinked, SessionsHoldTokens
    <2>8. CASE req[r].got \in DOMAIN principal
      <3>1. PICK i \in Settled(req[r].got) : TRUE
        BY <2>1, <2>7, <2>8 DEF TokensAreSettled
      <3>2. Sole(r)
        BY <2>2, <2>6 DEF Sole
      <3>3. i \in IdentitiesOf(req[r].got) /\ i # req[r].id
        BY <3>1, <3>2 DEF Settled
      <3>4. QED
        BY <2>1, <2>5, <3>3, RollsBackEffects
    <2>9. CASE req[r].got \notin DOMAIN principal
      <3>1. /\ Effects
            /\ \A p \in DOMAIN principal : p # req[r].got => p \in DOMAIN principal'
        BY <2>1, <2>5, RollsBackEffects
      <3>2. PICK P \in SUBSET DOMAIN principal : principal' = Restrict(principal, P)
        BY <2>5 DEF RollsBack, RollbackIdentityBinding, KeepOnly
      <3>3. \A p \in DOMAIN principal' : p \in DOMAIN principal
        BY <3>2, RestrictIs
      <3>4. \A p \in DOMAIN principal : p \in DOMAIN principal'
        BY <2>9, <3>1
      <3>5. QED
        BY <3>3, <3>4
    <2>10. QED
      BY <2>8, <2>9
  <1>2. QED
    <2>1. Spec => [][A]_vars
      BY <1>1, InductiveInvariant, PTL DEF Spec
    <2>2. QED
      BY <2>1 DEF RollbackSparesOthers

-----------------------------------------------------------------------------
(* LinksFollowPolicy.                                                      *)

TodoIsAllowed ==
    \A r \in Requests : req[r].pc = "permit" => req[r].todo \subseteq DOMAIN AllowLink
LInv == IInv /\ TodoIsAllowed /\ BindIsPermitted /\ LinksFollowPolicy

(* Only the bind of a request makes a link.                                *)
LEMMA LinksAreBound ==
    ASSUME IInv, [Next]_vars, NEW i \in DOMAIN identity', i \notin DOMAIN identity,
           identity'[i].via = "linked"
    PROVE  \E r \in Requests :
              /\ req[r].pc = "bind" /\ req[r].id = i
              /\ req[r].who \in DOMAIN principal /\ identity'[i].owner = req[r].who
  <1>1. Shape /\ References
    BY DEF IInv
  <1>2. CASE \E r \in Requests : Arrive(r) \/ Proceed(r) \/ Abandon(r)
    <2>1. PICK r \in Requests : RequestStep(r)
      BY <1>1, <1>2, RequestSteps
    <2> DEFINE q == req'[r]
    <2>2. CASE Binds(r, q)
      BY <2>2 DEF Binds, BindIdentity, With
    <2>3. CASE Creates(r, q)
      BY <2>3 DEF Creates, CreatePrincipalAndBind, With
    <2>4. CASE RollsBack(r, q)
      BY <2>4, RestrictIs DEF RollsBack, RollbackIdentityBinding, KeepOnly
    <2>5. CASE \/ Quits(r) /\ q = Idle
               \/ Arrives(r, q) \/ Draws(r, q) \/ Reads(r, q) \/ Resolves(r, q)
               \/ Puts(r, q) \/ Takes(r, q)
      BY <2>5 DEF Quits, Arrives, Draws, Reads, Resolves, Puts, Takes, store
    <2>6. CASE Counts(r, q) \/ Writes(r, q)
      BY <2>6 DEF Counts, SetCount, Writes
    <2> HIDE DEF q
    <2>7. QED
      BY <1>1, <2>1, <2>2, <2>3, <2>4, <2>5, <2>6, Kinds DEF q
  <1>3. CASE Delete
    BY <1>3, RestrictIs DEF Delete, DeletePrincipal, KeepOnly
  <1>4. CASE SetStatus
    BY <1>4 DEF SetStatus, UpdateStatus
  <1>5. CASE Provision
    BY <1>5 DEF Provision, UpsertWithIdentity, With
  <1>6. CASE Expire \/ Tick \/ UNCHANGED vars
    BY <1>6 DEF Expire, Tick, vars, store
  <1>7. QED
    BY <1>2, <1>3, <1>4, <1>5, <1>6 DEF Next

(* A permission lasts as long as the identity that gives it, and history   *)
(* remembers the links that have lost theirs.                              *)
LEMMA PermitStays ==
    ASSUME Observe \/ UNCHANGED vars, Effects, NEW x \in Decided, x \in Decided'
    PROVE  /\ x \in orphaned => x \in orphaned'
           /\ \A j \in IdentitiesOf(x[1]) : Permits(j, x[2]) =>
                 (j \in DOMAIN identity' /\ identity'[j].owner = x[1]) \/ x \in orphaned'
  <1>1. CASE UNCHANGED vars
    <2>1. orphaned' = orphaned /\ identity' = identity
      BY <1>1 DEF vars, history, store
    <2>2. QED
      BY <2>1 DEF IdentitiesOf
  <1>2. CASE Observe
    <2> HIDE DEF Decided
    <2>1. orphaned' = {y \in Decided \cap Decided' : y \in orphaned \/ Withdrawn(y)}
      BY <1>2 DEF Observe
    <2>2. x \in orphaned => x \in orphaned'
      BY <2>1
    <2>3. ASSUME NEW j \in IdentitiesOf(x[1]), Permits(j, x[2]), j \notin DOMAIN identity'
          PROVE  x \in orphaned'
      <3>1. Withdrawn(x)
        BY <2>3 DEF Withdrawn
      <3>2. QED
        BY <2>1, <3>1
    <2>4. \A j \in IdentitiesOf(x[1]) : j \in DOMAIN identity' => identity'[j].owner = x[1]
      BY DEF Effects, IdentitiesOf
    <2>5. QED
      BY <2>2, <2>3, <2>4
  <1>3. QED
    BY <1>1, <1>2

(* The links and the permissions under way are preserved.                  *)
LEMMA NextLInv == LInv /\ [Next]_vars => LInv'
  <1> SUFFICES ASSUME LInv, [Next]_vars PROVE LInv'
    OBVIOUS
  <1>1. IInv /\ IInv' /\ TodoIsAllowed /\ BindIsPermitted /\ LinksFollowPolicy
    BY NextIInv DEF LInv
  <1>2. Shape /\ References /\ InUseIsMinted /\ ReservedIsUnused
    BY <1>1 DEF IInv
  <1>3. (\E r \in Requests : RequestStep(r)) \/ Aside
    BY <1>2, NextKinds
  <1>4. Effects
    BY <1>2, <1>3, RequestEffects DEF Aside
  <1>5. profile' = profile
    BY <1>2, <1>3, OneMoves DEF Aside, Step, Observe
  <1>6. Observe \/ UNCHANGED vars
    <2>1. CASE \E r \in Requests : Arrive(r) \/ Proceed(r) \/ Abandon(r)
      <3>1. PICK r \in Requests : RequestStep(r)
        BY <1>2, <2>1, RequestSteps
      <3>2. QED
        BY <1>2, <3>1, OneMoves DEF Step
    <2>2. CASE Expire \/ Tick \/ SetStatus \/ Delete \/ Provision
      BY <2>2 DEF Expire, Tick, SetStatus, Delete, Provision
    <2>3. QED
      BY <2>1, <2>2 DEF Next
  <1>7. ASSUME NEW r \in Requests
        PROVE  \/ req'[r] = req[r]
               \/ Reads(r, req'[r])
               \/ req'[r].pc \notin {"permit", "bind"}
               \/ req'[r].pc = "permit" /\ req'[r].todo \subseteq DOMAIN AllowLink
    <2>1. CASE Aside
      BY <2>1 DEF Aside
    <2>2. CASE \E s \in Requests : RequestStep(s)
      <3>1. PICK s \in Requests : RequestStep(s)
        BY <2>2
      <3>2. CASE s # r
        BY <1>2, <3>1, <3>2, OneMoves
      <3>3. CASE s = r
        <4> DEFINE q == req'[r]
        <4>1. CASE Resolves(r, q) \/ Creates(r, q)
          <5>1. PICK who : Knows(req[r], q, who)
            BY <4>1 DEF Resolves, Creates
          <5>2. QED
            BY <5>1 DEF Knows, Idle
        <4>2. CASE \/ Quits(r) /\ q = Idle
                   \/ Arrives(r, q) \/ Draws(r, q) \/ Counts(r, q) \/ Binds(r, q)
                   \/ Writes(r, q) \/ RollsBack(r, q) \/ Puts(r, q) \/ Takes(r, q)
          BY <4>2 DEF Idle, Arrives, Arrival, Draws, Counts, Binds, Writes, RollsBack, Puts,
             Takes
        <4> HIDE DEF q
        <4>3. QED
          BY <1>2, <3>1, <3>3, <4>1, <4>2, Kinds DEF q
      <3>4. QED
        BY <3>2, <3>3
    <2>3. QED
      BY <1>3, <2>1, <2>2
  <1>8. TodoIsAllowed'
    <2> SUFFICES ASSUME NEW r \in Requests, req'[r].pc = "permit"
                 PROVE  req'[r].todo \subseteq DOMAIN AllowLink
      BY <1>5 DEF TodoIsAllowed, AllowLink
    <2>1. CASE Reads(r, req'[r])
      BY <1>1, <2>1 DEF Reads, TodoIsAllowed
    <2>2. QED
      BY <1>1, <1>7, <2>1 DEF TodoIsAllowed
  <1>9. BindIsPermitted'
    <2> SUFFICES ASSUME NEW r \in Requests, req'[r].pc = "bind"
                 PROVE  \/ \E j \in DOMAIN identity' : /\ identity'[j].owner = req'[r].who
                                                      /\ Permits(j, req'[r].id)
                        \/ <<req'[r].who, req'[r].id>> \in orphaned'
      BY <1>5 DEF BindIsPermitted, Permits, AllowLink, IdentitiesOf
    <2> DEFINE w == req'[r].who
               k == req'[r].id
    <2>1. CASE Reads(r, req'[r])
      <3>1. PICK a \in req[r].todo :
               req[r].pc = "permit" /\ HasProvider(w, a) /\ Provider(k) \in AllowLink[a]
        BY <2>1 DEF Reads
      <3>2. a \in DOMAIN AllowLink
        BY <1>1, <3>1 DEF TodoIsAllowed
      <3>3. PICK j \in IdentitiesOf(w) : Provider(j) = a
        BY <3>1 DEF HasProvider
      <3>4. Permits(j, k)
        BY <3>1, <3>2, <3>3 DEF Permits
      <3>5. identity' = identity
        BY <2>1 DEF Reads, store
      <3>6. QED
        BY <3>3, <3>4, <3>5 DEF IdentitiesOf
    <2>2. CASE req'[r] = req[r]
      <3>1. PICK x : x = <<w, k>>
        OBVIOUS
      <3>2. x[1] = w /\ x[2] = k /\ w = req[r].who /\ k = req[r].id /\ req[r].pc = "bind"
        BY <2>2, <3>1
      <3>3. x \in Decided /\ x \in Decided'
        BY <3>1, <3>2 DEF Decided, At
      <3>4. (\E j \in IdentitiesOf(w) : Permits(j, k)) \/ x \in orphaned
        BY <1>1, <3>1, <3>2 DEF BindIsPermitted
      <3> HIDE DEF w, k
      <3>5. /\ x \in orphaned => x \in orphaned'
            /\ \A j \in IdentitiesOf(x[1]) : Permits(j, x[2]) =>
                  (j \in DOMAIN identity' /\ identity'[j].owner = x[1]) \/ x \in orphaned'
        BY <1>4, <1>6, <3>3, PermitStays
      <3>6. QED
        BY <3>1, <3>2, <3>4, <3>5 DEF w, k
    <2>3. QED
      BY <1>7, <2>1, <2>2
  <1>10. LinksFollowPolicy'
    <2> SUFFICES ASSUME NEW i \in DOMAIN identity', identity'[i].via = "linked"
                 PROVE  \/ \E j \in DOMAIN identity' \ {i} :
                              identity'[j].owner = identity'[i].owner /\ Permits(j, i)
                        \/ <<identity'[i].owner, i>> \in orphaned'
      BY <1>5 DEF LinksFollowPolicy, Permits, AllowLink, IdentitiesOf, Owner
    <2> DEFINE p == identity'[i].owner
    <2>1. PICK x : x = <<p, i>>
      OBVIOUS
    <2>2. x[1] = p /\ x[2] = i
      BY <2>1
    <2>3. x \in Decided'
      BY <2>1 DEF Decided
    <2>4. /\ x \in Decided
          /\ (\E j \in IdentitiesOf(p) \ {i} : Permits(j, i)) \/ x \in orphaned
      <3>1. CASE i \in DOMAIN identity
        <4>1. identity'[i] = identity[i]
          BY <1>4, <3>1 DEF Effects
        <4>2. Owner(i) = p
          BY <3>1, <4>1 DEF Owner
        <4>3. QED
          BY <1>1, <2>1, <3>1, <4>1, <4>2 DEF LinksFollowPolicy, Decided
      <3>2. CASE i \notin DOMAIN identity
        <4>1. PICK r \in Requests : req[r].pc = "bind" /\ req[r].id = i /\ p = req[r].who
          BY <1>1, <3>2, LinksAreBound
        <4>2. x \in Decided
          BY <2>1, <4>1 DEF Decided, At
        <4>3. (\E j \in IdentitiesOf(p) : Permits(j, i)) \/ x \in orphaned
          BY <1>1, <2>1, <4>1 DEF BindIsPermitted
        <4>4. i \notin IdentitiesOf(p)
          BY <3>2 DEF IdentitiesOf
        <4>5. QED
          BY <4>2, <4>3, <4>4
      <3>3. QED
        BY <3>1, <3>2
    <2> HIDE DEF p
    <2>5. /\ x \in orphaned => x \in orphaned'
          /\ \A j \in IdentitiesOf(x[1]) : Permits(j, x[2]) =>
                (j \in DOMAIN identity' /\ identity'[j].owner = x[1]) \/ x \in orphaned'
      BY <1>4, <1>6, <2>3, <2>4, PermitStays
    <2>6. QED
      BY <2>1, <2>2, <2>4, <2>5 DEF p
  <1>11. QED
    BY <1>1, <1>8, <1>9, <1>10 DEF LInv

(* For every policy: whatever is linked to a principal is allowed by       *)
(* another identity that the principal still has, or was when it was asked *)
(* and the identity that allowed it has gone since, however permission     *)
(* reads, binds, rollbacks and administration interleave.                  *)
THEOREM LinksAlwaysFollowPolicy == Spec => []LinksFollowPolicy
  <1>1. Init => LInv
    <2> SUFFICES ASSUME Init PROVE LInv
      OBVIOUS
    <2>1. IInv
      BY InitIInv
    <2>2. \A r \in Requests : req[r].pc = "idle"
      BY DEF Init, Idle
    <2>3. LinksFollowPolicy
      <3>1. profile \in Profiles /\ identity = profile.identities
        BY DEF Init
      <3>2. QED
        BY <3>1, TablesAssumption DEF LinksFollowPolicy, Permits, IdentitiesOf, Owner, AllowLink
    <2>4. QED
      BY <2>1, <2>2, <2>3 DEF LInv, TodoIsAllowed, BindIsPermitted
  <1>2. LInv /\ [Next]_vars => LInv'
    BY NextLInv
  <1>3. LInv => LinksFollowPolicy
    BY DEF LInv
  <1>4. QED
    BY <1>1, <1>2, <1>3, PTL DEF Spec
=============================================================================
