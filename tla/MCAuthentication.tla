-------------------------- MODULE MCAuthentication ---------------------------
(***************************************************************************)
(* Six deployments.  For registration, provisioning, wallets and           *)
(* federation p1 is a corporate user whose account may be joined by a      *)
(* standalone identity, which may admit a wallet, or by a github identity  *)
(* and then, through that one, by a wallet; for the second factor and for  *)
(* passkeys p1 is a registered user with a password.                       *)
(***************************************************************************)
EXTENDS Authentication, TLC

CONSTANTS p1, p2, p3, s1, s2, l1, c1, c2, c3, k1, k2, corp, hub, purse

AccountProviders == (corp :> "corporate-dsp") @@ (hub :> "github") @@ (purse :> "wallet")

Nothing == <<>>
OneUser == p1 :> "active"
StandaloneIdentity == s1 :> [owner |-> p1, via |-> "created"]
CorporateIdentity == corp :> [owner |-> p1, via |-> "created"]
Password ==
    c1 :> [identity |-> s1, kind |-> "password", key |-> l1, count |-> 0, by |-> p1]
Passkey ==
    c2 :> [identity |-> s1, kind |-> "webauthn", key |-> None, count |-> 0, by |-> p1]

Registration ==
    [operations |-> {"register", "token_exchange"},
     administration |-> {"delete"},
     firstLogin |-> FALSE,
     authoritative |-> {"corporate-dsp", "standalone"},
     allowLink |-> "corporate-dsp" :> {"standalone"},
     lastStep |-> 0,
     accounts |-> {corp},
     named |-> {},
     fresh |-> {p2, p3, s1, s2, c1},
     principals |-> OneUser,
     identities |-> CorporateIdentity,
     credentials |-> Nothing]

Provisioning ==
    [Registration EXCEPT
        !.operations = {"register"},
        !.administration = {"delete", "provision"},
        !.named = {p2, p3}]

Federation ==
    [Registration EXCEPT
        !.operations = {"oauth_authorize", "oauth_callback",
                        "wallet_challenge", "wallet_verify", "wallet_link"},
        !.administration = {"status", "delete"},
        !.authoritative = {"corporate-dsp"},
        !.allowLink = ("corporate-dsp" :> {"github"}) @@ ("github" :> {"wallet"}),
        !.accounts = {corp, hub, purse},
        !.fresh = {p2, k1, k2}]

Wallets ==
    [Registration EXCEPT
        !.operations = {"register", "token_exchange", "wallet_challenge", "wallet_link"},
        !.administration = {"delete", "provision"},
        !.authoritative = {"corporate-dsp"},
        !.allowLink = ("corporate-dsp" :> {"standalone"}) @@ ("standalone" :> {"wallet"}),
        !.accounts = {corp, purse},
        !.named = {p1},
        !.fresh = {s1, c1, k1}]

SecondFactor ==
    [operations |-> {"login", "totp_enrollment_challenge", "totp_enrollment_verify"},
     administration |-> {"delete"},
     firstLogin |-> TRUE,
     authoritative |-> {},
     allowLink |-> Nothing,
     lastStep |-> 1,
     accounts |-> {},
     named |-> {},
     fresh |-> {p2, c2, c3, k1, k2},
     principals |-> OneUser,
     identities |-> StandaloneIdentity,
     credentials |-> Password]

Passkeys ==
    [SecondFactor EXCEPT
        !.operations = {"webauthn_registration_challenge",
                        "webauthn_registration_verify",
                        "webauthn_authentication_challenge",
                        "webauthn_authentication_verify"},
        !.administration = {"status", "delete"},
        !.lastStep = 0,
        !.fresh = {p2, c3, k1, k2},
        !.credentials = Password @@ Passkey]

StepUp ==
    [Passkeys EXCEPT
        !.operations = {"login", "webauthn_registration_challenge",
                        "webauthn_registration_verify"},
        !.administration = {"delete"},
        !.fresh = {p2, c2, k1},
        !.credentials = Password]

AllProfiles == {Registration, Provisioning, Wallets, Federation, SecondFactor, Passkeys}
StepUpProfiles == {StepUp}

(* The handlers treat identifiers alike; a permuted profile starts on      *)
(* permuted tables and allows as many fresh identifiers.                   *)
FreshSymmetry ==
    Permutations(Requests) \cup Permutations({p2, p3})
        \cup Permutations({k1, k2})
AccountSymmetry == FreshSymmetry \cup Permutations({s1, s2})
=============================================================================
