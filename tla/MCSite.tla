------------------------------- MODULE MCSite -------------------------------
(***************************************************************************)
(* An instance of SiteStore for TLC: plans of four requests, one plan for  *)
(* each family of documents.                                               *)
(***************************************************************************)
EXTENDS SiteStore, TLC

CONSTANTS p1, p2, p3, p4, alice, bob, boss, shop

Plan(a, b, c, d) == (p1 :> a) @@ (p2 :> b) @@ (p3 :> c) @@ (p4 :> d)

SendOtp(user) == [op |-> "send_otp", user |-> user]
Login(user, code) == [op |-> "login", user |-> user, code |-> code]
Logout(token) == [op |-> "logout", token |-> token]
Save(token, domain) == [op |-> "save", token |-> token, domain |-> domain]
Delete(token, of) == [op |-> "delete", token |-> token, of |-> of]
NewKey(token) == [op |-> "new_key", token |-> token]
DropKey(token, of) == [op |-> "drop_key", token |-> token, of |-> of]
Grant(token, email) == [op |-> "grant", token |-> token, email |-> email]
Revoke(token, email) == [op |-> "revoke", token |-> token, email |-> email]
Beacon == [op |-> "beacon"]

SitePlans ==
    {\* reports of one user: a full index, a deletion, another user's deletion
     Plan(Save(alice, shop), Save(alice, None), Delete(alice, p1), Logout(alice)),
     Plan(Save(alice, shop), Delete(boss, p1), Delete(alice, p1), Save(boss, shop)),
     \* codes and logins: the first login twice, wrong codes, a later code
     Plan(SendOtp(bob), Login(bob, p1), Login(bob, p1), Save(p2, shop)),
     Plan(SendOtp(bob), Login(bob, None), Login(bob, p1), Logout(p3)),
     Plan(SendOtp(bob), SendOtp(bob), Login(bob, p1), Login(bob, p2)),
     \* keys, within a page and beyond one
     Plan(NewKey(alice), DropKey(alice, p1), Save(p1, None), DropKey(alice, p1)),
     Plan(NewKey(alice), NewKey(alice), DropKey(alice, p1), Save(p1, shop)),
     Plan(NewKey(alice), Logout(p1), Save(p1, None), DropKey(alice, p1)),
     \* admins
     Plan(Grant(boss, alice), Revoke(boss, alice), Grant(boss, bob), Revoke(boss, boss)),
     Plan(Grant(boss, alice), Grant(boss, alice), Grant(alice, bob), Revoke(boss, bob)),
     \* counters
     Plan(Beacon, Save(alice, shop), Save(boss, None), Beacon)}
=============================================================================
