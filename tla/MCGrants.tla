------------------------------ MODULE MCGrants -------------------------------
(***************************************************************************)
(* An instance of FixtureGrants for TLC: one authorization, its code       *)
(* exchanged by two requests, its tokens refreshed, revoked and used.      *)
(***************************************************************************)
EXTENDS FixtureGrants, TLC

CONSTANTS p1, p2, p3, p4, p5, web, app, read, manage, admin, v1, v2

Ask(client, scopes, challenge) ==
    [op |-> "authorize", client |-> client, registered |-> TRUE, scopes |-> scopes,
     challenge |-> challenge]
Exchange(client, verifier) ==
    [op |-> "exchange", client |-> client, authentic |-> TRUE, of |-> p1,
     same_uri |-> TRUE, verifier |-> verifier]
Renew(client, of) == [op |-> "refresh", client |-> client, authentic |-> TRUE, of |-> of]
Revoke(client, of, type) ==
    [op |-> "revoke", client |-> client, authentic |-> TRUE, of |-> of, type |-> type]
Use(of, scopes) == [op |-> "use", of |-> of, scopes |-> scopes, other_profile |-> FALSE]

GrantMenu ==
    (p1 :> {Ask(app, {read}, v1), Ask(app, {admin}, v1), Ask(app, {read}, None)})
    @@ (p2 :> {Exchange(app, v1), Exchange(app, v2), Exchange(web, v1),
               [Exchange(app, v1) EXCEPT !.same_uri = FALSE]})
    @@ (p3 :> {Exchange(app, v1), Renew(app, p2), Renew(web, p2),
               [Renew(app, p2) EXCEPT !.authentic = FALSE]}
              \cup {[op |-> "mint", kind |-> k] : k \in Kinds})
    @@ (p4 :> {Revoke(app, p2, "refresh_token"), Revoke(web, p2, "refresh_token"),
               Revoke(app, p2, "access_token")})
    @@ (p5 :> {Use(None, {read}), Use(p2, {read}), Use(p3, {read}), Use(p3, {read, manage}),
               [Use(p2, {read}) EXCEPT !.other_profile = TRUE],
               Renew(app, p2), Revoke(app, p2, "refresh_token")})
=============================================================================
