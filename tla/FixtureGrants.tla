---------------------------- MODULE FixtureGrants ----------------------------
(***************************************************************************)
(* The OAuth grants of the fixture merchant: authorization codes, refresh  *)
(* tokens and access tokens in three dictionaries that every thread reads  *)
(* and writes without a lock, and the gate in front of a user's orders.    *)
(*                                                                         *)
(* A request mints at most one code, one refresh token and one access      *)
(* token: each is named by the request that minted it.                     *)
(***************************************************************************)
EXTENDS Integers, Sequences

CONSTANTS
    Requests,   \* HTTP requests, each served by a thread of its own
    Clients,    \* OAUTH_CLIENTS: the registered platforms
    Tester,     \* the client that test tokens are minted for
    Stranger,   \* a client that is not registered
    AllScopes,  \* scopes a platform may ask for
    Vocabulary, \* oauth_scopes_supported(): those the merchant offers
    Verifiers,  \* PKCE code verifiers; a challenge stands for its verifier
    Aging,      \* bound: requests whose code or token may expire
    RequirePKCE,\* version 2026-04-08, where a verifier is required
    Menu,       \* Menu[p]: what request p may ask
    None

Party == Clients \cup {Stranger}
Kinds == {"valid", "expired", "revoked", "foreign_client"}

Request ==
    [op : {"authorize"}, client : Party, registered : BOOLEAN,
     scopes : SUBSET AllScopes, challenge : Verifiers \cup {None}]
    \cup [op : {"exchange"}, client : Party, authentic : BOOLEAN, of : Requests,
          same_uri : BOOLEAN, verifier : Verifiers \cup {None}]
    \cup [op : {"refresh"}, client : Party, authentic : BOOLEAN, of : Requests]
    \cup [op : {"revoke"}, client : Party, authentic : BOOLEAN, of : Requests,
          type : {"refresh_token", "access_token"}]
    \cup [op : {"use"}, of : Requests \cup {None}, scopes : SUBSET Vocabulary,
          other_profile : BOOLEAN]
    \cup [op : {"mint"}, kind : Kinds]

ASSUME GrantsAssumption ==
    /\ Tester \in Clients /\ Stranger \notin Clients
    /\ Vocabulary \subseteq AllScopes
    /\ RequirePKCE \in BOOLEAN /\ Aging \subseteq Requests
    /\ Menu \in [Requests -> SUBSET Request]

Code == [client : Clients, scopes : SUBSET Vocabulary,
         challenge : Verifiers \cup {None}, used : BOOLEAN, expired : BOOLEAN]
Refresh == [client : Clients, scopes : SUBSET Vocabulary, revoked : BOOLEAN,
            access_tokens : Seq(Requests)]
Token == [client : Party, scopes : SUBSET Vocabulary, revoked : BOOLEAN,
          expired : BOOLEAN]

ASSUME NoneAssumption ==
    None \notin Requests \cup Verifiers \cup Request \cup Code \cup Refresh \cup Token
                    \cup {"ok", "refused"}

VARIABLES
    codes,      \* OAUTH_CODES
    refresh,    \* OAUTH_REFRESH
    tokens,     \* OAUTH_TOKENS
    pc, req,    \* the thread and the request it serves
    next,       \* where a revocation is in the list of access tokens
    resp,       \* what it has answered
    heard       \* history: the requests that were answered when it arrived

grants == <<codes, refresh, tokens>>
vars == <<grants, pc, req, next, resp, heard>>

GrantsTypeOK ==
    /\ codes \in [Requests -> Code \cup {None}]
    /\ refresh \in [Requests -> Refresh \cup {None}]
    /\ tokens \in [Requests -> Token \cup {None}]
    /\ pc \in [Requests -> {"idle", "authorize", "exchange", "redeem", "refresh", "append",
                            "store", "revoke", "sweep", "use", "serve", "mint", "done"}]
    /\ req \in [Requests -> Request \cup {None}]
    /\ next \in [Requests -> Nat \ {0}]
    /\ resp \in [Requests -> {None, "ok", "refused"}]
    /\ heard \in [Requests -> SUBSET Requests]

At(p, label) == pc[p] = label
Go(p, label) == pc' = [pc EXCEPT ![p] = label]
Answer(p, code) == Go(p, "done") /\ resp' = [resp EXCEPT ![p] = code]

-----------------------------------------------------------------------------
(* The requests *)

Answered == {p \in Requests : resp[p] # None}

\* What a request names, its sender has been given in an earlier answer.
Arrive(p) ==
    /\ At(p, "idle")
    /\ \E r \in Menu[p] :
        /\ r.op \in {"exchange", "refresh", "revoke"} => r.of \in Answered
        /\ r.op = "use" => r.of \in Answered \cup {None}
        /\ req' = [req EXCEPT ![p] = r]
        /\ Go(p, r.op)
    /\ heard' = [heard EXCEPT ![p] = Answered]
    /\ UNCHANGED <<grants, next, resp>>

\* oauth_authorize.  A plain challenge or none is a failure where PKCE is required.
Authorize(p) ==
    LET r == req[p]
        granted == /\ r.client \in Clients /\ r.registered
                   /\ r.scopes \subseteq Vocabulary
                   /\ RequirePKCE => r.challenge # None
    IN
    /\ At(p, "authorize")
    /\ \/ /\ granted
          /\ codes' = [codes EXCEPT ![p] =
                [client |-> r.client, scopes |-> r.scopes, challenge |-> r.challenge,
                 used |-> FALSE, expired |-> FALSE]]
          /\ Answer(p, "ok")
       \/ ~granted /\ Answer(p, "refused") /\ UNCHANGED codes
    /\ UNCHANGED <<refresh, tokens, req, next, heard>>

\* _oauth_client_auth
Authentic(r) == r.client \in Clients /\ r.authentic

\* Defect: the verifier is not compared with the challenge.
RedeemableUnproved(r, code) ==
    /\ code # None /\ ~code.used /\ ~code.expired /\ code.client = r.client
    /\ r.same_uri

Redeemable(r, code) ==
    /\ code # None /\ ~code.used /\ ~code.expired /\ code.client = r.client
    /\ r.same_uri
    /\ RequirePKCE => r.verifier # None /\ r.verifier = code.challenge

\* oauth_token, authorization_code: the tests ...
CheckCode(p) ==
    LET r == req[p] IN
    /\ At(p, "exchange")
    /\ \/ Authentic(r) /\ Redeemable(r, codes[r.of]) /\ Go(p, "redeem") /\ UNCHANGED resp
       \/ ~(Authentic(r) /\ Redeemable(r, codes[r.of])) /\ Answer(p, "refused")
    /\ UNCHANGED <<grants, req, next, heard>>

\* ... and, in a later step, the mark and the tokens.  Nobody knows these
\* before the answer, so their three writes are one step.
RedeemCode(p) ==
    LET r == req[p]
        code == codes[r.of]
    IN
    /\ At(p, "redeem")
    /\ codes' = [codes EXCEPT ![r.of].used = TRUE]
    /\ refresh' = [refresh EXCEPT ![p] =
          [client |-> r.client, scopes |-> code.scopes, revoked |-> FALSE,
           access_tokens |-> <<p>>]]
    /\ tokens' = [tokens EXCEPT ![p] =
          [client |-> r.client, scopes |-> code.scopes, revoked |-> FALSE, expired |-> FALSE]]
    /\ Answer(p, "ok")
    /\ UNCHANGED <<req, next, heard>>

Renewable(r, family) == family # None /\ ~family.revoked /\ family.client = r.client

\* oauth_token, refresh_token: the test, the entry in the list that a
\* revocation goes through, and the token itself, in three steps.
CheckRefresh(p) ==
    LET r == req[p] IN
    /\ At(p, "refresh")
    /\ \/ Authentic(r) /\ Renewable(r, refresh[r.of]) /\ Go(p, "append") /\ UNCHANGED resp
       \/ ~(Authentic(r) /\ Renewable(r, refresh[r.of])) /\ Answer(p, "refused")
    /\ UNCHANGED <<grants, req, next, heard>>

\* Defect: the new token is not entered in the list.
AppendNothing(p) ==
    /\ At(p, "append") /\ Go(p, "store")
    /\ UNCHANGED <<grants, req, next, resp, heard>>

AppendToken(p) ==
    /\ At(p, "append") /\ Go(p, "store")
    /\ refresh' = [refresh EXCEPT ![req[p].of].access_tokens = Append(@, p)]
    /\ UNCHANGED <<codes, tokens, req, next, resp, heard>>

StoreToken(p) ==
    LET family == refresh[req[p].of] IN
    /\ At(p, "store")
    /\ tokens' = [tokens EXCEPT ![p] =
          [client |-> req[p].client, scopes |-> family.scopes, revoked |-> FALSE,
           expired |-> FALSE]]
    /\ Answer(p, "ok")
    /\ UNCHANGED <<codes, refresh, req, next, heard>>

\* oauth_revoke.  A token that is unknown or another client's is answered alike.
Revocable(r) ==
    LET found == IF r.type = "refresh_token" THEN refresh[r.of] ELSE tokens[r.of] IN
    found # None /\ found.client = r.client

RevokeToken(p) ==
    LET r == req[p] IN
    /\ At(p, "revoke")
    /\ \/ /\ Authentic(r) /\ Revocable(r) /\ r.type = "refresh_token"
          /\ refresh' = [refresh EXCEPT ![r.of].revoked = TRUE]
          /\ Go(p, "sweep")
          /\ UNCHANGED <<tokens, resp>>
       \/ /\ Authentic(r) /\ Revocable(r) /\ r.type = "access_token"
          /\ tokens' = [tokens EXCEPT ![r.of].revoked = TRUE]
          /\ Answer(p, "ok")
          /\ UNCHANGED refresh
       \/ /\ ~(Authentic(r) /\ Revocable(r))
          /\ Answer(p, IF Authentic(r) THEN "ok" ELSE "refused")
          /\ UNCHANGED <<refresh, tokens>>
    /\ UNCHANGED <<codes, req, next, heard>>

\* The access tokens of a revoked refresh token, one by one; the list may
\* grow meanwhile, and an entry need not have its token yet.
SweepToken(p) ==
    LET minted == refresh[req[p].of].access_tokens IN
    /\ At(p, "sweep")
    /\ \/ /\ next[p] <= Len(minted)
          /\ LET t == minted[next[p]] IN
             tokens' = IF tokens[t] = None THEN tokens
                       ELSE [tokens EXCEPT ![t].revoked = TRUE]
          /\ next' = [next EXCEPT ![p] = @ + 1]
          /\ UNCHANGED <<pc, resp>>
       \/ /\ next[p] > Len(minted)
          /\ Answer(p, "ok")
          /\ UNCHANGED <<tokens, next>>
    /\ UNCHANGED <<codes, refresh, req, heard>>

\* Defect: a revoked token is accepted until it expires.
ValidUntilExpiry(token) == token # None /\ ~token.expired /\ token.client \in Clients

Valid(token) ==
    token # None /\ ~token.revoked /\ ~token.expired /\ token.client \in Clients

\* require_identity: a bearer token that is valid, of the profile claimed, with
\* all the scopes of the operation.
Admitted(r) ==
    /\ r.of # None /\ Valid(tokens[r.of])
    /\ ~r.other_profile
    /\ r.scopes \subseteq tokens[r.of].scopes

CheckIdentity(p) ==
    /\ At(p, "use")
    /\ \/ Admitted(req[p]) /\ Go(p, "serve") /\ UNCHANGED resp
       \/ ~Admitted(req[p]) /\ Answer(p, "refused")
    /\ UNCHANGED <<grants, req, next, heard>>

\* list_orders, get_order, cancel_order: behind the gate, the token is not looked at again.
ServeOrders(p) ==
    /\ At(p, "serve") /\ Answer(p, "ok")
    /\ UNCHANGED <<grants, req, next, heard>>

\* mint_test_token
MintTestToken(p) ==
    LET kind == req[p].kind IN
    /\ At(p, "mint")
    /\ tokens' = [tokens EXCEPT ![p] =
          [client |-> IF kind = "foreign_client" THEN Stranger ELSE Tester,
           scopes |-> Vocabulary, revoked |-> kind = "revoked", expired |-> kind = "expired"]]
    /\ Answer(p, "ok")
    /\ UNCHANGED <<codes, refresh, req, next, heard>>

\* Time passes a code or a token by.
Expire(p) ==
    /\ p \in Aging
    /\ \/ /\ codes[p] # None /\ ~codes[p].expired
          /\ codes' = [codes EXCEPT ![p].expired = TRUE] /\ UNCHANGED tokens
       \/ /\ tokens[p] # None /\ ~tokens[p].expired
          /\ tokens' = [tokens EXCEPT ![p].expired = TRUE] /\ UNCHANGED codes
    /\ UNCHANGED <<refresh, pc, req, next, resp, heard>>

-----------------------------------------------------------------------------

Init ==
    /\ codes = [p \in Requests |-> None]
    /\ refresh = [p \in Requests |-> None]
    /\ tokens = [p \in Requests |-> None]
    /\ pc = [p \in Requests |-> "idle"]
    /\ req = [p \in Requests |-> None]
    /\ next = [p \in Requests |-> 1]
    /\ resp = [p \in Requests |-> None]
    /\ heard = [p \in Requests |-> {}]

Step(p) ==
    \/ Authorize(p) \/ CheckCode(p) \/ RedeemCode(p)
    \/ CheckRefresh(p) \/ AppendToken(p) \/ StoreToken(p)
    \/ RevokeToken(p) \/ SweepToken(p)
    \/ CheckIdentity(p) \/ ServeOrders(p) \/ MintTestToken(p)

AllAnswered == Answered = Requests /\ UNCHANGED vars

Next == (\E p \in Requests : Arrive(p) \/ Step(p) \/ Expire(p)) \/ AllAnswered

Spec == Init /\ [][Next]_vars

-----------------------------------------------------------------------------
(* Properties *)

Issues(p) == req[p] # None /\ req[p].op \in {"exchange", "refresh"} /\ resp[p] = "ok"

\* The refresh token that the access token of request t came with or from.
Family(t) == IF req[t].op = "exchange" THEN t ELSE req[t].of

\* The authorization that it all goes back to.
Consent(t) == codes[req[Family(t)].of]

\* Revocations of a refresh token by its client that have been answered.
Revocation(q) ==
    /\ req[q] # None /\ req[q].op = "revoke" /\ req[q].type = "refresh_token"
    /\ resp[q] = "ok" /\ refresh[req[q].of] # None
    /\ refresh[req[q].of].client = req[q].client

Live(t) == tokens[t] # None /\ ~tokens[t].revoked

\* Of an answered revocation, only access tokens that were being issued while
\* it ran survive: those handed out before it arrived are revoked, and nothing
\* is issued to a request that arrived after its answer.
RevocationHolds ==
    \A q, t \in Requests :
        Revocation(q) /\ Issues(t) /\ Family(t) = req[q].of /\ Live(t)
            => t \notin heard[q] /\ q \notin heard[t]

\* Every access token has the client and the scopes of the authorization it
\* goes back to, over any number of refreshes, and the code was redeemed with
\* the verifier of its challenge.
TokensKeepTheirConsent ==
    \A t \in Requests : Issues(t) =>
        /\ Consent(t) # None
        /\ tokens[t].client = Consent(t).client
        /\ tokens[t].scopes = Consent(t).scopes
        /\ RequirePKCE => req[Family(t)].verifier = Consent(t).challenge

\* Orders are served to a token with the scopes they need; and not to a request
\* that arrived after a revocation which itself followed the issue of the token.
ServedWithConsent ==
    \A p \in Requests : req[p] # None /\ req[p].op = "use" /\ resp[p] = "ok" =>
        LET t == req[p].of IN
        /\ t # None /\ tokens[t] # None
        /\ req[p].scopes \subseteq tokens[t].scopes
        /\ Issues(t) => \A q \in heard[p] :
                ~(Revocation(q) /\ Family(t) = req[q].of /\ t \in heard[q])
=============================================================================
