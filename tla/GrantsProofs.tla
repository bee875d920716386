---------------------------- MODULE GrantsProofs -----------------------------
(***************************************************************************)
(* Proofs about FixtureGrants: types, what a token owes to its             *)
(* authorization, what a revocation ends, and what the gate lets through.  *)
(***************************************************************************)
EXTENDS FixtureGrants, TLAPS

-----------------------------------------------------------------------------
(* The inductive invariant *)

\* The place a thread has come to is one of its request's; what it names was
\* answered before; and nothing is in the tables under the name of a request
\* that has not been answered.
Orderly(p) ==
    /\ (pc[p] = "idle") <=> (req[p] = None)
    /\ (pc[p] = "done") <=> (resp[p] # None)
    /\ pc[p] = "authorize" => req[p].op = "authorize"
    /\ pc[p] \in {"exchange", "redeem"} => req[p].op = "exchange"
    /\ pc[p] \in {"refresh", "append", "store"} => req[p].op = "refresh"
    /\ pc[p] \in {"revoke", "sweep"} => req[p].op = "revoke"
    /\ pc[p] \in {"use", "serve"} => req[p].op = "use"
    /\ pc[p] = "mint" => req[p].op = "mint"
    /\ req[p] # None =>
        /\ req[p].op \in {"exchange", "refresh", "revoke"} => req[p].of \in heard[p]
        /\ req[p].op = "use" => req[p].of \in heard[p] \cup {None}
    /\ req[p] = None => heard[p] = {}
    /\ heard[p] \subseteq Answered
    /\ \A q \in heard[p] : p \notin heard[q]
    /\ resp[p] = None => codes[p] = None /\ refresh[p] = None /\ tokens[p] = None
    /\ pc[p] \notin {"sweep", "done"} => next[p] = 1

\* The code that request p redeems is its client's, and proved.
FromCode(p) ==
    LET code == codes[req[p].of] IN
    /\ code # None /\ code.client = req[p].client
    /\ RequirePKCE => req[p].verifier = code.challenge

FromFamily(p) ==
    LET family == refresh[req[p].of] IN
    family # None /\ family.client = req[p].client

Consented(p) ==
    /\ pc[p] = "redeem" => FromCode(p)
    /\ refresh[p] # None =>
        /\ req[p] # None /\ req[p].op = "exchange" /\ FromCode(p)
        /\ refresh[p].client = req[p].client
        /\ refresh[p].scopes = codes[req[p].of].scopes
    /\ pc[p] \in {"append", "store"} => FromFamily(p)
    /\ Issues(p) =>
        /\ tokens[p] # None /\ refresh[Family(p)] # None
        /\ tokens[p].client = refresh[Family(p)].client
        /\ tokens[p].scopes = refresh[Family(p)].scopes

ListedFrom(t, f, i) ==
    \E j \in 1..Len(refresh[f].access_tokens) : j >= i /\ refresh[f].access_tokens[j] = t

\* A token is in the list of its refresh token before it exists.
Listed(p) == pc[p] = "store" \/ Issues(p) => ListedFrom(p, Family(p), 1)

Descends(t, q) == Issues(t) /\ Family(t) = req[q].of

\* A sweep has all tokens that are still to be revoked before it.
Swept(q) ==
    /\ pc[q] = "sweep" =>
        /\ FromFamily(q) /\ refresh[req[q].of].revoked
        /\ req[q].type = "refresh_token"
        /\ \A t \in heard[q] : Descends(t, q) /\ Live(t) => ListedFrom(t, req[q].of, next[q])
    /\ Revocation(q) =>
        /\ refresh[req[q].of].revoked
        /\ \A t \in heard[q] : Descends(t, q) => ~Live(t)

\* A refresh that arrived after the answer to a revocation is refused.
Refused(t) ==
    req[t] # None /\ req[t].op = "refresh" /\ (pc[t] \in {"append", "store"} \/ resp[t] = "ok")
        => \A q \in heard[t] : Revocation(q) => req[q].of # req[t].of

\* Behind the gate, or through it.
Served(p) ==
    LET t == req[p].of IN
    req[p] # None /\ req[p].op = "use" /\ (pc[p] = "serve" \/ resp[p] = "ok") =>
        /\ t \in heard[p] /\ tokens[t] # None
        /\ req[p].scopes \subseteq tokens[t].scopes
        /\ Issues(t) => \A q \in heard[p] :
               ~(Revocation(q) /\ Family(t) = req[q].of /\ t \in heard[q])

Inv ==
    /\ GrantsTypeOK
    /\ \A p \in Requests : /\ Orderly(p) /\ Consented(p) /\ Listed(p)
                           /\ Swept(p) /\ Refused(p) /\ Served(p)

-----------------------------------------------------------------------------
(* Requests and entries *)

\* What a request has by its kind.
LEMMA RequestFields ==
    ASSUME NEW r \in Request
    PROVE  /\ r # None
           /\ r.op \in {"authorize", "exchange", "refresh", "revoke", "use", "mint"}
           /\ r.op = "authorize" => r.challenge \in Verifiers \cup {None}
           /\ r.op \in {"exchange", "refresh", "revoke"} => r.of \in Requests
           /\ r.op = "revoke" => r.type \in {"refresh_token", "access_token"}
           /\ r.op = "use" => r.of \in Requests \cup {None} /\ r.scopes \subseteq Vocabulary
           /\ r.op = "mint" => r.kind \in Kinds
  <1>1. r # None  BY NoneAssumption
  <1>2. QED  BY <1>1 DEF Request

\* None is no entry, and no answer.
LEMMA NoneIsNothing ==
    /\ None \notin Requests /\ None \notin Code /\ None \notin Refresh /\ None \notin Token
    /\ None # "ok" /\ None # "refused"
  BY NoneAssumption

-----------------------------------------------------------------------------
(* What a step keeps *)

\* What has been asked and answered stays, and an entry of a table only ages:
\* it is marked, revoked or lengthened.
KeepsRequest(p) ==
    /\ req[p] # None => req'[p] = req[p] /\ heard'[p] = heard[p]
    /\ resp[p] # None => resp'[p] = resp[p] /\ pc'[p] = pc[p]

KeepsCode(p) ==
    codes[p] # None =>
        /\ codes'[p] # None /\ codes'[p].client = codes[p].client
        /\ codes'[p].scopes = codes[p].scopes /\ codes'[p].challenge = codes[p].challenge

KeepsRefresh(p) ==
    refresh[p] # None =>
        /\ refresh'[p] # None /\ refresh'[p].client = refresh[p].client
        /\ refresh'[p].scopes = refresh[p].scopes
        /\ refresh[p].revoked => refresh'[p].revoked
        /\ Len(refresh[p].access_tokens) <= Len(refresh'[p].access_tokens)
        /\ \A j \in 1..Len(refresh[p].access_tokens) :
                refresh'[p].access_tokens[j] = refresh[p].access_tokens[j]

KeepsToken(p) ==
    tokens[p] # None =>
        /\ tokens'[p] # None /\ tokens'[p].client = tokens[p].client
        /\ tokens'[p].scopes = tokens[p].scopes
        /\ tokens[p].revoked => tokens'[p].revoked

Keeps(p) == KeepsRequest(p) /\ KeepsCode(p) /\ KeepsRefresh(p) /\ KeepsToken(p)

\* Nothing is asked, done, answered or given to p.
Rests(p) ==
    /\ pc'[p] = pc[p] /\ req'[p] = req[p] /\ resp'[p] = resp[p]
    /\ heard'[p] = heard[p] /\ next'[p] = next[p]
    /\ codes[p] = None => codes'[p] = None
    /\ refresh[p] = None => refresh'[p] = None
    /\ tokens[p] = None => tokens'[p] = None

\* A step of p keeps the types and all that is there, and lets the others rest.
Gentle(p) ==
    /\ GrantsTypeOK'
    /\ \A q \in Requests : Keeps(q)
    /\ \A q \in Requests \ {p} : Rests(q)

\* An entry that is not touched is kept.
LEMMA RefreshUntouched ==
    ASSUME Inv, NEW q \in Requests, refresh'[q] = refresh[q]
    PROVE  KeepsRefresh(q)
  <1>1. refresh[q] # None => Len(refresh[q].access_tokens) \in Nat
    BY DEF Inv, GrantsTypeOK, Refresh
  <1>2. QED  BY <1>1 DEF KeepsRefresh

LEMMA GentleArrive ==
    ASSUME Inv, NEW p \in Requests, Arrive(p)
    PROVE  Gentle(p)
  <1> USE NoneIsNothing
  <1>1. PICK r \in Menu[p] : req' = [req EXCEPT ![p] = r] /\ Go(p, r.op)
    BY DEF Arrive
  <1>2. r \in Request  BY GrantsAssumption
  <1>3. Orderly(p) /\ pc[p] = "idle"  BY DEF Inv, Arrive, At
  <1>4. GrantsTypeOK'
    BY <1>1, <1>2, RequestFields DEF Inv, GrantsTypeOK, Arrive, grants, Go, Answered
  <1>5. \A q \in Requests : Keeps(q)
    BY <1>1, <1>3, RefreshUntouched
    DEF Inv, GrantsTypeOK, Arrive, grants, Go, Keeps, KeepsRequest,
        KeepsCode, KeepsToken, Orderly
  <1>6. \A q \in Requests \ {p} : Rests(q)
    BY <1>1 DEF Inv, GrantsTypeOK, Arrive, grants, Go, Rests
  <1>7. QED  BY <1>4, <1>5, <1>6 DEF Gentle

LEMMA GentleCheckCode ==
    ASSUME Inv, NEW p \in Requests, CheckCode(p)
    PROVE  Gentle(p)
  <1>1. Orderly(p) /\ pc[p] = "exchange"  BY DEF Inv, CheckCode, At
  <1>2. GrantsTypeOK'
    BY DEF Inv, GrantsTypeOK, CheckCode, grants, Go, Answer
  <1>3. \A q \in Requests : Keeps(q)
    BY <1>1, RefreshUntouched
    DEF Inv, GrantsTypeOK, CheckCode, grants, Go, Answer, Keeps, KeepsRequest,
        KeepsCode, KeepsToken, Orderly
  <1>4. \A q \in Requests \ {p} : Rests(q)
    BY DEF Inv, GrantsTypeOK, CheckCode, grants, Go, Answer, Rests
  <1>5. QED  BY <1>2, <1>3, <1>4 DEF Gentle

LEMMA GentleCheckRefresh ==
    ASSUME Inv, NEW p \in Requests, CheckRefresh(p)
    PROVE  Gentle(p)
  <1>1. Orderly(p) /\ pc[p] = "refresh"  BY DEF Inv, CheckRefresh, At
  <1>2. GrantsTypeOK'
    BY DEF Inv, GrantsTypeOK, CheckRefresh, grants, Go, Answer
  <1>3. \A q \in Requests : Keeps(q)
    BY <1>1, RefreshUntouched
    DEF Inv, GrantsTypeOK, CheckRefresh, grants, Go, Answer, Keeps, KeepsRequest,
        KeepsCode, KeepsToken, Orderly
  <1>4. \A q \in Requests \ {p} : Rests(q)
    BY DEF Inv, GrantsTypeOK, CheckRefresh, grants, Go, Answer, Rests
  <1>5. QED  BY <1>2, <1>3, <1>4 DEF Gentle

LEMMA GentleCheckIdentity ==
    ASSUME Inv, NEW p \in Requests, CheckIdentity(p)
    PROVE  Gentle(p)
  <1>1. Orderly(p) /\ pc[p] = "use"  BY DEF Inv, CheckIdentity, At
  <1>2. GrantsTypeOK'
    BY DEF Inv, GrantsTypeOK, CheckIdentity, grants, Go, Answer
  <1>3. \A q \in Requests : Keeps(q)
    BY <1>1, RefreshUntouched
    DEF Inv, GrantsTypeOK, CheckIdentity, grants, Go, Answer, Keeps, KeepsRequest,
        KeepsCode, KeepsToken, Orderly
  <1>4. \A q \in Requests \ {p} : Rests(q)
    BY DEF Inv, GrantsTypeOK, CheckIdentity, grants, Go, Answer, Rests
  <1>5. QED  BY <1>2, <1>3, <1>4 DEF Gentle

LEMMA GentleServeOrders ==
    ASSUME Inv, NEW p \in Requests, ServeOrders(p)
    PROVE  Gentle(p)
  <1>1. Orderly(p) /\ pc[p] = "serve"  BY DEF Inv, ServeOrders, At
  <1>2. GrantsTypeOK'
    BY DEF Inv, GrantsTypeOK, ServeOrders, grants, Go, Answer
  <1>3. \A q \in Requests : Keeps(q)
    BY <1>1, RefreshUntouched
    DEF Inv, GrantsTypeOK, ServeOrders, grants, Go, Answer, Keeps, KeepsRequest,
        KeepsCode, KeepsToken, Orderly
  <1>4. \A q \in Requests \ {p} : Rests(q)
    BY DEF Inv, GrantsTypeOK, ServeOrders, grants, Go, Answer, Rests
  <1>5. QED  BY <1>2, <1>3, <1>4 DEF Gentle

LEMMA GentleAuthorize ==
    ASSUME Inv, NEW p \in Requests, Authorize(p)
    PROVE  Gentle(p)
  <1> USE NoneIsNothing
  <1>1. Orderly(p) /\ pc[p] = "authorize"  BY DEF Inv, Authorize, At
  <1>2. req[p] \in Request /\ req[p].op = "authorize"
    BY <1>1 DEF Orderly, Inv, GrantsTypeOK
  <1>3. codes[p] = None  BY <1>1 DEF Orderly
  <1>4. GrantsTypeOK'
    <2> DEFINE r == req[p]
               code == [client |-> r.client, scopes |-> r.scopes,
                        challenge |-> r.challenge, used |-> FALSE, expired |-> FALSE]
    <2>1. CASE r.client \in Clients /\ r.scopes \subseteq Vocabulary
               /\ codes' = [codes EXCEPT ![p] = code]
      <3>1. r.challenge \in Verifiers \cup {None}  BY <1>2, RequestFields
      <3>2. code \in Code  BY <2>1, <3>1 DEF Code
      <3>3. codes' \in [Requests -> Code \cup {None}]
        BY <2>1, <3>2 DEF Inv, GrantsTypeOK
      <3>4. QED
        BY <3>3 DEF Inv, GrantsTypeOK, Authorize, Go, Answer
    <2>2. CASE codes' = codes
      BY <2>2 DEF Inv, GrantsTypeOK, Authorize, Go, Answer
    <2>3. QED  BY <2>1, <2>2 DEF Authorize
  <1>5. \A q \in Requests : Keeps(q)
    BY <1>1, <1>3, RefreshUntouched
    DEF Inv, GrantsTypeOK, Authorize, Go, Answer, Keeps, KeepsRequest, KeepsCode,
        KeepsToken, Orderly
  <1>6. \A q \in Requests \ {p} : Rests(q)
    BY DEF Inv, GrantsTypeOK, Authorize, Go, Answer, Rests
  <1>7. QED  BY <1>4, <1>5, <1>6 DEF Gentle

LEMMA GentleRedeemCode ==
    ASSUME Inv, NEW p \in Requests, RedeemCode(p)
    PROVE  Gentle(p)
  <1> USE NoneIsNothing
  <1> DEFINE r == req[p]
             code == codes[r.of]
             marked == [code EXCEPT !.used = TRUE]
             family == [client |-> r.client, scopes |-> code.scopes, revoked |-> FALSE,
                        access_tokens |-> <<p>>]
             token == [client |-> r.client, scopes |-> code.scopes, revoked |-> FALSE,
                       expired |-> FALSE]
  <1>1. Orderly(p) /\ pc[p] = "redeem"  BY DEF Inv, RedeemCode, At
  <1>2. r \in Request /\ r.of \in Requests
    BY <1>1, RequestFields DEF Orderly, Inv, GrantsTypeOK
  <1>3. refresh[p] = None /\ tokens[p] = None  BY <1>1 DEF Orderly
  <1>4. code \in Code /\ code.client = r.client
    BY <1>1, <1>2 DEF Inv, Consented, FromCode, GrantsTypeOK
  <1>5. /\ code # None
        /\ marked \in Code /\ marked.client = code.client
        /\ marked.scopes = code.scopes /\ marked.challenge = code.challenge
    BY <1>4 DEF Code
  <1>6. family \in Refresh /\ token \in Token
    BY <1>4 DEF Code, Refresh, Token, Party
  <1>7. /\ codes' = [codes EXCEPT ![r.of] = marked]
        /\ refresh' = [refresh EXCEPT ![p] = family]
        /\ tokens' = [tokens EXCEPT ![p] = token]
    BY DEF RedeemCode
  <1> HIDE DEF marked, family, token
  <1>8. GrantsTypeOK'
    <2>1. codes' \in [Requests -> Code \cup {None}]
      BY <1>2, <1>5, <1>7 DEF Inv, GrantsTypeOK
    <2>2. refresh' \in [Requests -> Refresh \cup {None}]
      BY <1>6, <1>7 DEF Inv, GrantsTypeOK
    <2>3. tokens' \in [Requests -> Token \cup {None}]
      BY <1>6, <1>7 DEF Inv, GrantsTypeOK
    <2>4. QED
      BY <2>1, <2>2, <2>3 DEF Inv, GrantsTypeOK, RedeemCode, Go, Answer
  <1>9. \A q \in Requests : Keeps(q)
    <2> SUFFICES ASSUME NEW q \in Requests PROVE Keeps(q)  OBVIOUS
    <2>1. KeepsRequest(q)
      BY <1>1 DEF Inv, GrantsTypeOK, RedeemCode, Go, Answer, KeepsRequest, Orderly
    <2>2. KeepsCode(q)  BY <1>2, <1>5, <1>7 DEF Inv, GrantsTypeOK, KeepsCode
    <2>3. KeepsRefresh(q)
      BY <1>3, <1>7, RefreshUntouched DEF Inv, GrantsTypeOK, KeepsRefresh
    <2>4. KeepsToken(q)  BY <1>3, <1>7 DEF Inv, GrantsTypeOK, KeepsToken
    <2>5. QED  BY <2>1, <2>2, <2>3, <2>4 DEF Keeps
  <1>10. \A q \in Requests \ {p} : Rests(q)
    BY <1>2, <1>5, <1>7 DEF Inv, GrantsTypeOK, RedeemCode, Go, Answer, Rests
  <1>11. QED  BY <1>8, <1>9, <1>10 DEF Gentle

LEMMA GentleAppendToken ==
    ASSUME Inv, NEW p \in Requests, AppendToken(p)
    PROVE  Gentle(p)
  <1> USE NoneIsNothing
  <1> DEFINE f == req[p].of
             list == refresh[f].access_tokens
             longer == [refresh[f] EXCEPT !.access_tokens = Append(list, p)]
  <1>1. Orderly(p) /\ pc[p] = "append"  BY DEF Inv, AppendToken, At
  <1>2. req[p] \in Request /\ f \in Requests
    BY <1>1, RequestFields DEF Orderly, Inv, GrantsTypeOK
  <1>3. refresh[f] \in Refresh
    BY <1>1, <1>2 DEF Inv, Consented, FromFamily, GrantsTypeOK
  <1>4. list \in Seq(Requests)  BY <1>3 DEF Refresh
  <1>5. /\ longer \in Refresh /\ longer # None
        /\ longer.client = refresh[f].client /\ longer.scopes = refresh[f].scopes
        /\ longer.revoked = refresh[f].revoked
        /\ longer.access_tokens = Append(list, p)
    <2>1. Append(list, p) \in Seq(Requests)  BY <1>4
    <2> HIDE DEF list
    <2>2. QED  BY <1>3, <2>1 DEF Refresh
  <1>6. /\ Len(list) <= Len(Append(list, p))
        /\ \A j \in 1..Len(list) : Append(list, p)[j] = list[j]
    BY <1>4
  <1>7. refresh' = [refresh EXCEPT ![f] = longer]  BY DEF AppendToken
  <1>8. refresh[f] # None  BY <1>3
  <1> HIDE DEF longer
  <1>9. GrantsTypeOK'
    BY <1>2, <1>5, <1>7 DEF Inv, GrantsTypeOK, AppendToken, Go
  <1>10. \A q \in Requests : Keeps(q)
    <2> SUFFICES ASSUME NEW q \in Requests PROVE Keeps(q)  OBVIOUS
    <2>1. KeepsRequest(q)
      BY <1>1 DEF Inv, GrantsTypeOK, AppendToken, Go, KeepsRequest, Orderly
    <2>2. KeepsCode(q) /\ KeepsToken(q)  BY DEF AppendToken, KeepsCode, KeepsToken
    <2>3. KeepsRefresh(q)
      <3>1. CASE q = f
        <4>1. refresh'[q] = longer  BY <1>2, <1>7, <3>1 DEF Inv, GrantsTypeOK
        <4>2. QED  BY <1>5, <1>6, <3>1, <4>1 DEF KeepsRefresh
      <3>2. CASE q # f
        BY <1>2, <1>7, <3>2, RefreshUntouched DEF Inv, GrantsTypeOK
      <3>3. QED  BY <3>1, <3>2
    <2>4. QED  BY <2>1, <2>2, <2>3 DEF Keeps
  <1>11. \A q \in Requests \ {p} : Rests(q)
    BY <1>2, <1>5, <1>7, <1>8 DEF Inv, GrantsTypeOK, AppendToken, Go, Rests
  <1>12. QED  BY <1>9, <1>10, <1>11 DEF Gentle

LEMMA GentleStoreToken ==
    ASSUME Inv, NEW p \in Requests, StoreToken(p)
    PROVE  Gentle(p)
  <1> USE NoneIsNothing
  <1> DEFINE f == req[p].of
             token == [client |-> req[p].client, scopes |-> refresh[f].scopes,
                       revoked |-> FALSE, expired |-> FALSE]
  <1>1. Orderly(p) /\ pc[p] = "store"  BY DEF Inv, StoreToken, At
  <1>2. req[p] \in Request /\ f \in Requests
    BY <1>1, RequestFields DEF Orderly, Inv, GrantsTypeOK
  <1>3. refresh[f] \in Refresh /\ refresh[f].client = req[p].client
    BY <1>1, <1>2 DEF Inv, Consented, FromFamily, GrantsTypeOK
  <1>4. token \in Token  BY <1>3 DEF Refresh, Token, Party
  <1>5. tokens[p] = None  BY <1>1 DEF Orderly
  <1>6. tokens' = [tokens EXCEPT ![p] = token]  BY DEF StoreToken
  <1> HIDE DEF token
  <1>7. GrantsTypeOK'
    BY <1>4, <1>6 DEF Inv, GrantsTypeOK, StoreToken, Go, Answer
  <1>8. \A q \in Requests : Keeps(q)
    BY <1>1, <1>5, <1>6, RefreshUntouched
    DEF Inv, GrantsTypeOK, StoreToken, Go, Answer, Keeps, KeepsRequest, KeepsCode,
        KeepsToken, Orderly
  <1>9. \A q \in Requests \ {p} : Rests(q)
    BY <1>6 DEF Inv, GrantsTypeOK, StoreToken, Go, Answer, Rests
  <1>10. QED  BY <1>7, <1>8, <1>9 DEF Gentle

LEMMA GentleMintTestToken ==
    ASSUME Inv, NEW p \in Requests, MintTestToken(p)
    PROVE  Gentle(p)
  <1> USE NoneIsNothing
  <1> DEFINE kind == req[p].kind
             token == [client |-> IF kind = "foreign_client" THEN Stranger ELSE Tester,
                       scopes |-> Vocabulary, revoked |-> kind = "revoked",
                       expired |-> kind = "expired"]
  <1>1. Orderly(p) /\ pc[p] = "mint"  BY DEF Inv, MintTestToken, At
  <1>2. token \in Token  BY GrantsAssumption DEF Token, Party
  <1>3. tokens[p] = None  BY <1>1 DEF Orderly
  <1>4. tokens' = [tokens EXCEPT ![p] = token]  BY DEF MintTestToken
  <1> HIDE DEF token
  <1>5. GrantsTypeOK'
    BY <1>2, <1>4 DEF Inv, GrantsTypeOK, MintTestToken, Go, Answer
  <1>6. \A q \in Requests : Keeps(q)
    BY <1>1, <1>3, <1>4, RefreshUntouched
    DEF Inv, GrantsTypeOK, MintTestToken, Go, Answer, Keeps, KeepsRequest, KeepsCode,
        KeepsToken, Orderly
  <1>7. \A q \in Requests \ {p} : Rests(q)
    BY <1>4 DEF Inv, GrantsTypeOK, MintTestToken, Go, Answer, Rests
  <1>8. QED  BY <1>5, <1>6, <1>7 DEF Gentle

LEMMA GentleRevokeToken ==
    ASSUME Inv, NEW p \in Requests, RevokeToken(p)
    PROVE  Gentle(p)
  <1> USE NoneIsNothing
  <1> DEFINE f == req[p].of
             family == [refresh[f] EXCEPT !.revoked = TRUE]
             token == [tokens[f] EXCEPT !.revoked = TRUE]
  <1>1. Orderly(p) /\ pc[p] = "revoke"  BY DEF Inv, RevokeToken, At
  <1>2. req[p] \in Request /\ f \in Requests
    BY <1>1, RequestFields DEF Orderly, Inv, GrantsTypeOK
  <1>3. CASE refresh[f] # None /\ refresh' = [refresh EXCEPT ![f] = family]
             /\ Go(p, "sweep") /\ UNCHANGED <<tokens, resp>>
    <2>1. refresh[f] \in Refresh  BY <1>2, <1>3 DEF Inv, GrantsTypeOK
    <2>2. /\ family \in Refresh /\ family.client = refresh[f].client
          /\ family.scopes = refresh[f].scopes /\ family.revoked
          /\ family.access_tokens = refresh[f].access_tokens
      BY <2>1 DEF Refresh
    <2> HIDE DEF family
    <2>3. GrantsTypeOK'
      BY <1>2, <1>3, <2>2 DEF Inv, GrantsTypeOK, RevokeToken, Go
    <2>4. \A q \in Requests : Keeps(q)
      BY <1>1, <1>2, <1>3, <2>2, RefreshUntouched
      DEF Inv, GrantsTypeOK, RevokeToken, Go, Keeps, KeepsRequest, KeepsCode,
        KeepsRefresh, KeepsToken, Orderly
    <2>5. \A q \in Requests \ {p} : Rests(q)
      BY <1>2, <1>3, <2>2 DEF Inv, GrantsTypeOK, RevokeToken, Go, Rests
    <2>6. QED  BY <2>3, <2>4, <2>5 DEF Gentle
  <1>4. CASE tokens[f] # None /\ tokens' = [tokens EXCEPT ![f] = token]
             /\ Answer(p, "ok") /\ UNCHANGED refresh
    <2>1. tokens[f] \in Token  BY <1>2, <1>4 DEF Inv, GrantsTypeOK
    <2>2. /\ token \in Token /\ token.client = tokens[f].client
          /\ token.scopes = tokens[f].scopes /\ token.revoked
      BY <2>1 DEF Token
    <2> HIDE DEF token
    <2>3. GrantsTypeOK'
      BY <1>2, <1>4, <2>2 DEF Inv, GrantsTypeOK, RevokeToken, Go, Answer
    <2>4. \A q \in Requests : Keeps(q)
      BY <1>1, <1>2, <1>4, <2>2, RefreshUntouched
      DEF Inv, GrantsTypeOK, RevokeToken, Go, Answer, Keeps, KeepsRequest, KeepsCode,
        KeepsToken, Orderly
    <2>5. \A q \in Requests \ {p} : Rests(q)
      BY <1>2, <1>4, <2>2 DEF Inv, GrantsTypeOK, RevokeToken, Go, Answer, Rests
    <2>6. QED  BY <2>3, <2>4, <2>5 DEF Gentle
  <1>5. CASE \E c \in {"ok", "refused"} : Answer(p, c) /\ UNCHANGED <<refresh, tokens>>
    <2>1. GrantsTypeOK'
      BY <1>5 DEF Inv, GrantsTypeOK, RevokeToken, Go, Answer
    <2>2. \A q \in Requests : Keeps(q)
      BY <1>1, <1>5, RefreshUntouched
      DEF Inv, GrantsTypeOK, RevokeToken, Go, Answer, Keeps, KeepsRequest, KeepsCode,
        KeepsToken, Orderly
    <2>3. \A q \in Requests \ {p} : Rests(q)
      BY <1>5 DEF Inv, GrantsTypeOK, RevokeToken, Go, Answer, Rests
    <2>4. QED  BY <2>1, <2>2, <2>3 DEF Gentle
  <1>6. QED  BY <1>3, <1>4, <1>5 DEF RevokeToken, Revocable

LEMMA GentleSweepToken ==
    ASSUME Inv, NEW p \in Requests, SweepToken(p)
    PROVE  Gentle(p)
  <1> USE NoneIsNothing
  <1> DEFINE list == refresh[req[p].of].access_tokens
             t == list[next[p]]
             token == [tokens[t] EXCEPT !.revoked = TRUE]
  <1>1. Orderly(p) /\ pc[p] = "sweep"  BY DEF Inv, SweepToken, At
  <1>2. req[p] \in Request /\ req[p].of \in Requests
    BY <1>1, RequestFields DEF Orderly, Inv, GrantsTypeOK
  <1>3. list \in Seq(Requests)
    BY <1>1, <1>2 DEF Inv, Swept, FromFamily, GrantsTypeOK, Refresh
  <1>4. CASE next[p] <= Len(list) /\ tokens[t] # None
             /\ tokens' = [tokens EXCEPT ![t] = token]
             /\ next' = [next EXCEPT ![p] = next[p] + 1] /\ UNCHANGED <<pc, resp>>
    <2>1. t \in Requests  BY <1>3, <1>4 DEF Inv, GrantsTypeOK
    <2>2. tokens[t] \in Token  BY <1>4, <2>1 DEF Inv, GrantsTypeOK
    <2>3. /\ token \in Token /\ token.client = tokens[t].client
          /\ token.scopes = tokens[t].scopes /\ token.revoked
      BY <2>2 DEF Token
    <2> HIDE DEF token, t
    <2>4. GrantsTypeOK'
      BY <1>4, <2>1, <2>3 DEF Inv, GrantsTypeOK, SweepToken
    <2>5. \A q \in Requests : Keeps(q)
      BY <1>1, <1>4, <2>1, <2>3, RefreshUntouched
      DEF Inv, GrantsTypeOK, SweepToken, Keeps, KeepsRequest, KeepsCode,
        KeepsToken, Orderly
    <2>6. \A q \in Requests \ {p} : Rests(q)
      BY <1>4, <2>1, <2>3 DEF Inv, GrantsTypeOK, SweepToken, Rests
    <2>7. QED  BY <2>4, <2>5, <2>6 DEF Gentle
  <1>5. CASE UNCHANGED tokens
    <2>1. GrantsTypeOK'
      <3>1. CASE next' = [next EXCEPT ![p] = next[p] + 1] /\ UNCHANGED <<pc, resp>>
        <4>1. next[p] + 1 \in Nat \ {0}  BY DEF Inv, GrantsTypeOK
        <4>2. next' \in [Requests -> Nat \ {0}]  BY <3>1, <4>1 DEF Inv, GrantsTypeOK
        <4>3. QED  BY <1>5, <3>1, <4>2 DEF Inv, GrantsTypeOK, SweepToken
      <3>2. CASE Answer(p, "ok") /\ UNCHANGED next
        BY <1>5, <3>2 DEF Inv, GrantsTypeOK, SweepToken, Go, Answer
      <3>3. QED  BY <3>1, <3>2 DEF SweepToken
    <2>2. \A q \in Requests : Keeps(q)
      BY <1>1, <1>5, RefreshUntouched
      DEF Inv, GrantsTypeOK, SweepToken, Go, Answer, Keeps, KeepsRequest, KeepsCode,
        KeepsToken, Orderly
    <2>3. \A q \in Requests \ {p} : Rests(q)
      BY <1>5 DEF Inv, GrantsTypeOK, SweepToken, Go, Answer, Rests
    <2>4. QED  BY <2>1, <2>2, <2>3 DEF Gentle
  <1>6. QED  BY <1>4, <1>5 DEF SweepToken

LEMMA GentleExpire ==
    ASSUME Inv, NEW p \in Requests, Expire(p)
    PROVE  Gentle(p)
  <1> USE NoneIsNothing
  <1> DEFINE code == [codes[p] EXCEPT !.expired = TRUE]
             token == [tokens[p] EXCEPT !.expired = TRUE]
  <1>1. CASE codes[p] # None /\ codes' = [codes EXCEPT ![p] = code] /\ UNCHANGED tokens
    <2>1. codes[p] \in Code  BY <1>1 DEF Inv, GrantsTypeOK
    <2>2. /\ code \in Code /\ code.client = codes[p].client
          /\ code.scopes = codes[p].scopes /\ code.challenge = codes[p].challenge
      BY <2>1 DEF Code
    <2> HIDE DEF code
    <2>3. QED
      BY <1>1, <2>2, RefreshUntouched
      DEF Inv, GrantsTypeOK, Expire, Keeps, KeepsRequest, KeepsCode, KeepsToken,
          Rests, Gentle
  <1>2. CASE tokens[p] # None /\ tokens' = [tokens EXCEPT ![p] = token] /\ UNCHANGED codes
    <2>1. tokens[p] \in Token  BY <1>2 DEF Inv, GrantsTypeOK
    <2>2. /\ token \in Token /\ token.client = tokens[p].client
          /\ token.scopes = tokens[p].scopes /\ token.revoked = tokens[p].revoked
      BY <2>1 DEF Token
    <2> HIDE DEF token
    <2>3. QED
      BY <1>2, <2>2, RefreshUntouched
      DEF Inv, GrantsTypeOK, Expire, Keeps, KeepsRequest, KeepsCode, KeepsToken,
          Rests, Gentle
  <1>3. QED  BY <1>1, <1>2 DEF Expire

-----------------------------------------------------------------------------
(* One step *)

Act(p) == Arrive(p) \/ Step(p) \/ Expire(p)

LEMMA GentleStep ==
    ASSUME Inv, NEW p \in Requests, Act(p)
    PROVE  Gentle(p)
  BY GentleArrive, GentleAuthorize, GentleCheckCode, GentleRedeemCode, GentleCheckRefresh,
     GentleAppendToken, GentleStoreToken, GentleRevokeToken, GentleSweepToken,
     GentleCheckIdentity, GentleServeOrders, GentleMintTestToken, GentleExpire
  DEF Act, Step

\* The action by which a thread has come to where it is.
Cause(p) ==
    /\ pc'[p] = "redeem" => pc[p] = "redeem" \/ CheckCode(p)
    /\ pc'[p] = "append" => pc[p] = "append" \/ CheckRefresh(p)
    /\ pc'[p] = "store" => pc[p] = "store" \/ AppendToken(p)
    /\ pc'[p] = "sweep" => pc[p] = "sweep" \/ RevokeToken(p)
    /\ pc'[p] = "serve" => pc[p] = "serve" \/ CheckIdentity(p)
    /\ req[p] = None => Arrive(p)
    /\ req[p] # None => req'[p] = req[p]
    /\ refresh[p] = None => refresh'[p] = None \/ RedeemCode(p)
    /\ resp'[p] = "ok" /\ resp[p] # "ok" =>
        /\ req[p].op = "exchange" => RedeemCode(p)
        /\ req[p].op = "refresh" => StoreToken(p)
        /\ req[p].op = "revoke" => RevokeToken(p) \/ SweepToken(p)
        /\ req[p].op = "use" => ServeOrders(p)
    /\ next'[p] # next[p] => SweepToken(p)

LEMMA Causes ==
    ASSUME Inv, NEW p \in Requests, Act(p)
    PROVE  Cause(p)
  <1> USE NoneIsNothing
  <1>1. Orderly(p) /\ GrantsTypeOK  BY DEF Inv
  <1>2. CASE Arrive(p)
    <2>1. PICK r \in Menu[p] : req' = [req EXCEPT ![p] = r] /\ Go(p, r.op)
      BY <1>2 DEF Arrive
    <2>2. r \in Request  BY GrantsAssumption
    <2>3. pc'[p] \in {"authorize", "exchange", "refresh", "revoke", "use", "mint"}
      BY <1>1, <2>1, <2>2, RequestFields DEF Go, GrantsTypeOK
    <2>4. QED
      BY <1>1, <1>2, <2>3 DEF Arrive, At, Orderly, Cause, grants
  <1>3. CASE Authorize(p)
    BY <1>1, <1>3 DEF Authorize, At, Go, Answer, Orderly, Cause, GrantsTypeOK, grants
  <1>4. CASE CheckCode(p)
    BY <1>1, <1>4 DEF CheckCode, At, Go, Answer, Orderly, Cause, GrantsTypeOK, grants
  <1>5. CASE RedeemCode(p)
    BY <1>1, <1>5 DEF RedeemCode, At, Go, Answer, Orderly, Cause, GrantsTypeOK, grants
  <1>6. CASE CheckRefresh(p)
    BY <1>1, <1>6 DEF CheckRefresh, At, Go, Answer, Orderly, Cause, GrantsTypeOK, grants
  <1>7. CASE AppendToken(p)
    BY <1>1, <1>7 DEF AppendToken, At, Go, Answer, Orderly, Cause, GrantsTypeOK, grants
  <1>8. CASE StoreToken(p)
    BY <1>1, <1>8 DEF StoreToken, At, Go, Answer, Orderly, Cause, GrantsTypeOK, grants
  <1>9. CASE RevokeToken(p)
    BY <1>1, <1>9 DEF RevokeToken, At, Go, Answer, Revocable, Orderly, Cause, GrantsTypeOK, grants
  <1>10. CASE SweepToken(p)
    BY <1>1, <1>10 DEF SweepToken, At, Go, Answer, Orderly, Cause, GrantsTypeOK, grants
  <1>11. CASE CheckIdentity(p)
    BY <1>1, <1>11 DEF CheckIdentity, At, Go, Answer, Orderly, Cause, GrantsTypeOK, grants
  <1>12. CASE ServeOrders(p)
    BY <1>1, <1>12 DEF ServeOrders, At, Go, Answer, Orderly, Cause, GrantsTypeOK, grants
  <1>13. CASE MintTestToken(p)
    BY <1>1, <1>13 DEF MintTestToken, At, Go, Answer, Orderly, Cause, GrantsTypeOK, grants
  <1>14. CASE Expire(p)
    BY <1>1, <1>14 DEF Expire, Orderly, Cause, GrantsTypeOK, grants
  <1>15. QED
    BY <1>2, <1>3, <1>4, <1>5, <1>6, <1>7, <1>8, <1>9, <1>10, <1>11,
       <1>12, <1>13, <1>14
    DEF Act, Step

-----------------------------------------------------------------------------
(* What was answered is settled *)

\* An answered request is no longer touched.
LEMMA Settled ==
    ASSUME Inv, NEW p \in Requests, Act(p), NEW r \in Answered
    PROVE  /\ r \in Requests /\ req[r] # None /\ resp[r] # None
           /\ req'[r] = req[r] /\ heard'[r] = heard[r] /\ resp'[r] = resp[r]
           /\ pc'[r] = pc[r] /\ pc[r] = "done"
           /\ refresh[r] = None => refresh'[r] = None
  <1>1. r \in Requests /\ resp[r] # None  BY DEF Answered
  <1>2. Orderly(r) /\ GrantsTypeOK  BY <1>1 DEF Inv
  <1>3. pc[r] = "done" /\ req[r] # None  BY <1>1, <1>2 DEF Orderly
  <1>4. Keeps(r)  BY <1>1, GentleStep DEF Gentle
  <1>5. refresh[r] = None => refresh'[r] = None
    <2>1. CASE r = p
      BY <1>1, <1>3, <2>1, Causes DEF Cause, RedeemCode, At
    <2>2. CASE r # p
      BY <1>1, <2>2, GentleStep DEF Gentle, Rests
    <2>3. QED  BY <2>1, <2>2
  <1>6. QED  BY <1>1, <1>3, <1>4, <1>5 DEF Keeps, KeepsRequest

LEMMA AnsweredGrows ==
    ASSUME Inv, NEW p \in Requests, Act(p)
    PROVE  Answered \subseteq Answered'
  BY Settled DEF Answered

\* What a request is about has been answered.
LEMMA About ==
    ASSUME Inv, NEW r \in Requests, req[r] # None
    PROVE  /\ req[r] \in Request
           /\ heard[r] \subseteq Answered
           /\ req[r].op \in {"exchange", "refresh", "revoke"} =>
                  req[r].of \in heard[r] /\ req[r].of \in Answered /\ req[r].of \in Requests
  BY DEF Inv, Orderly, GrantsTypeOK, Answered

LEMMA IssuesSettled ==
    ASSUME Inv, NEW p \in Requests, Act(p), NEW r \in Answered
    PROVE  /\ Issues(r)' <=> Issues(r)
           /\ Family(r)' = Family(r)
           /\ Issues(r) => /\ Family(r) \in Requests /\ refresh[Family(r)] # None
                           /\ tokens[r] # None
           /\ Issues(r) /\ Live(r)' => Live(r)
  <1>1. /\ r \in Requests /\ req[r] # None /\ req'[r] = req[r] /\ resp'[r] = resp[r]
    BY Settled
  <1>2. Issues(r) =>
           Family(r) \in Requests /\ refresh[Family(r)] # None /\ tokens[r] # None
    BY <1>1, About DEF Inv, Consented, Issues, Family
  <1>3. KeepsToken(r)  BY <1>1, GentleStep DEF Gentle, Keeps
  <1>4. QED  BY <1>1, <1>2, <1>3 DEF Issues, Family, Live, KeepsToken

LEMMA RevocationSettled ==
    ASSUME Inv, NEW p \in Requests, Act(p), NEW r \in Answered, Revocation(r)'
    PROVE  /\ Revocation(r)
           /\ req[r].of \in Requests /\ refresh[req[r].of] # None
  <1>1. /\ r \in Requests /\ req[r] # None /\ req'[r] = req[r] /\ resp'[r] = resp[r]
    BY Settled
  <1>2. /\ req[r].op = "revoke" /\ req[r].type = "refresh_token" /\ resp[r] = "ok"
        /\ refresh'[req[r].of] # None /\ refresh'[req[r].of].client = req[r].client
    BY <1>1 DEF Revocation
  <1>3. req[r].of \in Answered /\ req[r].of \in Requests  BY <1>1, <1>2, About
  <1>4. refresh[req[r].of] # None  BY <1>2, <1>3, Settled
  <1>5. KeepsRefresh(req[r].of)  BY <1>3, GentleStep DEF Gentle, Keeps
  <1>6. QED  BY <1>1, <1>2, <1>3, <1>4, <1>5 DEF Revocation, KeepsRefresh

\* An entry of a list stays in its place.
LEMMA ListedStays ==
    ASSUME Inv, NEW p \in Requests, Act(p), NEW f \in Requests, refresh[f] # None,
           NEW t, NEW i \in Nat, ListedFrom(t, f, i)
    PROVE  \E j \in 1..Len(refresh'[f].access_tokens) :
               j >= i /\ refresh'[f].access_tokens[j] = t
  <1>1. PICK j \in 1..Len(refresh[f].access_tokens) :
           j >= i /\ refresh[f].access_tokens[j] = t
    BY DEF ListedFrom
  <1>2. KeepsRefresh(f) /\ GrantsTypeOK'  BY GentleStep DEF Gentle, Keeps
  <1>3. refresh'[f] \in Refresh  BY <1>2 DEF KeepsRefresh, GrantsTypeOK
  <1>4. Len(refresh[f].access_tokens) \in Nat /\ Len(refresh'[f].access_tokens) \in Nat
    BY <1>3 DEF Inv, GrantsTypeOK, Refresh
  <1>5. j \in 1..Len(refresh'[f].access_tokens) /\ refresh'[f].access_tokens[j] = t
    BY <1>1, <1>2, <1>4 DEF KeepsRefresh
  <1>6. QED  BY <1>1, <1>5

-----------------------------------------------------------------------------
(* Each part is kept *)

LEMMA OrderlyKept ==
    ASSUME Inv, NEW p \in Requests, Act(p), NEW q \in Requests
    PROVE  Orderly(q)'
  <1> USE NoneIsNothing
  <1>1. Orderly(q) /\ GrantsTypeOK  BY DEF Inv
  <1>2. Answered \subseteq Answered'  BY AnsweredGrows
  <1>3. CASE q # p
    <2>1. Rests(q)  BY <1>3, GentleStep DEF Gentle
    <2>2. \A r \in heard[q] : heard'[r] = heard[r]
      BY <1>1, Settled DEF Orderly
    <2>3. QED  BY <1>1, <1>2, <2>1, <2>2 DEF Rests, Orderly
  <1>4. CASE q = p /\ ~Arrive(p)
    <2>1. req[p] # None /\ req'[p] = req[p] /\ heard'[p] = heard[p]
      BY <1>4, Causes, GentleStep DEF Cause, Gentle, Keeps, KeepsRequest
    <2>2. \A r \in heard[p] : heard'[r] = heard[r]
      BY <1>1, <1>4, Settled DEF Orderly
    <2>3. /\ heard'[p] \subseteq Answered' /\ \A r \in heard'[p] : p \notin heard'[r]
      BY <1>1, <1>2, <1>4, <2>1, <2>2 DEF Orderly
    <2> DEFINE Place ==
          /\ pc'[p] # "idle" /\ ((pc'[p] = "done") <=> (resp'[p] # None))
          /\ pc'[p] = "authorize" => req[p].op = "authorize"
          /\ pc'[p] \in {"exchange", "redeem"} => req[p].op = "exchange"
          /\ pc'[p] \in {"refresh", "append", "store"} => req[p].op = "refresh"
          /\ pc'[p] \in {"revoke", "sweep"} => req[p].op = "revoke"
          /\ pc'[p] \in {"use", "serve"} => req[p].op = "use"
          /\ pc'[p] = "mint" => req[p].op = "mint"
          /\ pc'[p] \notin {"sweep", "done"} => next'[p] = 1
    <2>4. Place
      <3>1. CASE Authorize(p)
        BY <1>1, <1>4, <2>1, <3>1 DEF Authorize, At, Go, Answer, Orderly, GrantsTypeOK
      <3>2. CASE CheckCode(p)
        BY <1>1, <1>4, <2>1, <3>2 DEF CheckCode, At, Go, Answer, Orderly, GrantsTypeOK
      <3>3. CASE RedeemCode(p)
        BY <1>1, <1>4, <2>1, <3>3 DEF RedeemCode, At, Go, Answer, Orderly, GrantsTypeOK
      <3>4. CASE CheckRefresh(p)
        BY <1>1, <1>4, <2>1, <3>4 DEF CheckRefresh, At, Go, Answer, Orderly, GrantsTypeOK
      <3>5. CASE AppendToken(p)
        BY <1>1, <1>4, <2>1, <3>5 DEF AppendToken, At, Go, Answer, Orderly, GrantsTypeOK
      <3>6. CASE StoreToken(p)
        BY <1>1, <1>4, <2>1, <3>6 DEF StoreToken, At, Go, Answer, Orderly, GrantsTypeOK
      <3>7. CASE RevokeToken(p)
        BY <1>1, <1>4, <2>1, <3>7 DEF RevokeToken, At, Go, Answer, Orderly, GrantsTypeOK
      <3>8. CASE SweepToken(p)
        BY <1>1, <1>4, <2>1, <3>8 DEF SweepToken, At, Go, Answer, Orderly, GrantsTypeOK
      <3>9. CASE CheckIdentity(p)
        BY <1>1, <1>4, <2>1, <3>9 DEF CheckIdentity, At, Go, Answer, Orderly, GrantsTypeOK
      <3>10. CASE ServeOrders(p)
        BY <1>1, <1>4, <2>1, <3>10 DEF ServeOrders, At, Go, Answer, Orderly, GrantsTypeOK
      <3>11. CASE MintTestToken(p)
        BY <1>1, <1>4, <2>1, <3>11 DEF MintTestToken, At, Go, Answer, Orderly, GrantsTypeOK
      <3>12. CASE Expire(p)
        BY <1>1, <1>4, <2>1, <3>12 DEF Expire, Orderly, GrantsTypeOK
      <3>13. QED
        BY <1>4, <3>1, <3>2, <3>3, <3>4, <3>5, <3>6, <3>7, <3>8, <3>9, <3>10,
           <3>11, <3>12
        DEF Act, Step
    <2>5. resp'[p] = None => codes'[p] = None /\ refresh'[p] = None /\ tokens'[p] = None
      <3>1. CASE Authorize(p)
        BY <1>4, <3>1 DEF Authorize, Go, Answer, Inv, GrantsTypeOK
      <3>2. CASE CheckCode(p)
        BY <1>1, <1>4, <3>2 DEF CheckCode, At, Go, Answer, Orderly, GrantsTypeOK, grants
      <3>3. CASE RedeemCode(p)
        BY <1>4, <3>3 DEF RedeemCode, Go, Answer, Inv, GrantsTypeOK
      <3>4. CASE CheckRefresh(p)
        BY <1>1, <1>4, <3>4 DEF CheckRefresh, At, Go, Answer, Orderly, GrantsTypeOK, grants
      <3>5. CASE AppendToken(p)
        <4>1. refresh[req[p].of] # None /\ req[p].of \in Requests
          BY <1>4, <2>1, <3>5, About DEF AppendToken, At, Inv, Consented, FromFamily, Orderly
        <4>2. QED
          BY <1>1, <1>4, <3>5, <4>1 DEF AppendToken, At, Go, Orderly, GrantsTypeOK
      <3>6. CASE StoreToken(p)
        BY <1>4, <3>6 DEF StoreToken, Go, Answer, Inv, GrantsTypeOK
      <3>7. CASE RevokeToken(p)
        BY <1>1, <1>4, <3>7 DEF RevokeToken, Revocable, At, Go, Answer, Orderly, GrantsTypeOK
      <3>8. CASE SweepToken(p)
        BY <1>1, <1>4, <3>8 DEF SweepToken, At, Go, Answer, Orderly, GrantsTypeOK
      <3>9. CASE CheckIdentity(p)
        BY <1>1, <1>4, <3>9 DEF CheckIdentity, At, Go, Answer, Orderly, GrantsTypeOK, grants
      <3>10. CASE ServeOrders(p)
        BY <1>1, <1>4, <3>10 DEF ServeOrders, At, Go, Answer, Orderly, GrantsTypeOK, grants
      <3>11. CASE MintTestToken(p)
        BY <1>4, <3>11 DEF MintTestToken, Go, Answer, Inv, GrantsTypeOK
      <3>12. CASE Expire(p)
        BY <1>1, <1>4, <3>12 DEF Expire, Orderly, GrantsTypeOK
      <3>13. QED
        BY <1>4, <3>1, <3>2, <3>3, <3>4, <3>5, <3>6, <3>7, <3>8, <3>9, <3>10,
           <3>11, <3>12
        DEF Act, Step
    <2>6. QED  BY <1>1, <1>4, <2>1, <2>3, <2>4, <2>5 DEF Orderly
  <1>5. CASE q = p /\ Arrive(p)
    <2>1. PICK r \in Menu[p] :
             /\ r.op \in {"exchange", "refresh", "revoke"} => r.of \in Answered
             /\ r.op = "use" => r.of \in Answered \cup {None}
             /\ req' = [req EXCEPT ![p] = r] /\ Go(p, r.op)
      BY <1>5 DEF Arrive
    <2>2. r \in Request  BY GrantsAssumption
    <2>3. /\ r # None
          /\ r.op \in {"authorize", "exchange", "refresh", "revoke", "use", "mint"}
      BY <2>2, RequestFields
    <2>4. /\ pc[p] = "idle" /\ resp[p] = None /\ resp' = resp /\ next' = next
          /\ heard' = [heard EXCEPT ![p] = Answered]
          /\ codes' = codes /\ refresh' = refresh /\ tokens' = tokens
      BY <1>1, <1>5 DEF Arrive, At, Orderly, grants
    <2>5. req'[p] = r /\ pc'[p] = r.op /\ heard'[p] = Answered
      BY <1>1, <2>1, <2>4 DEF Go, GrantsTypeOK
    <2>6. p \notin Answered  BY <2>4 DEF Answered
    <2>7. \A x \in Answered : p \notin heard'[x]
      <3> SUFFICES ASSUME NEW x \in Answered PROVE p \notin heard'[x]  OBVIOUS
      <3>1. heard'[x] = heard[x] /\ x \in Requests  BY Settled
      <3>2. heard[x] \subseteq Answered  BY <3>1 DEF Inv, Orderly
      <3>3. QED  BY <2>6, <3>1, <3>2
    <2>8. Answered' = Answered  BY <2>4 DEF Answered
    <2> HIDE DEF Answered
    <2>9. QED
      BY <1>1, <1>5, <2>1, <2>3, <2>4, <2>5, <2>7, <2>8 DEF Orderly
  <1>6. QED  BY <1>3, <1>4, <1>5

\* A request that has arrived keeps what its code or its refresh token gives it.
LEMMA SourceKept ==
    ASSUME Inv, NEW p \in Requests, Act(p), NEW q \in Requests, req[q] # None,
           req[q].op \in {"exchange", "refresh", "revoke"}
    PROVE  /\ req'[q] = req[q]
           /\ FromCode(q) => /\ FromCode(q)' 
                             /\ codes'[req[q].of].scopes = codes[req[q].of].scopes
           /\ FromFamily(q) => FromFamily(q)'
  <1>1. req[q].of \in Requests  BY About
  <1>2. req'[q] = req[q] /\ KeepsCode(req[q].of) /\ KeepsRefresh(req[q].of)
    BY <1>1, GentleStep DEF Gentle, Keeps, KeepsRequest
  <1>3. QED  BY <1>2 DEF FromCode, FromFamily, KeepsCode, KeepsRefresh

\* A token that is newly issued was redeemed or stored in this step.
LEMMA NewlyIssued ==
    ASSUME Inv, NEW p \in Requests, Act(p), NEW q \in Requests, Issues(q)', ~Issues(q)
    PROVE  q = p /\ (RedeemCode(p) \/ StoreToken(p))
  <1>1. Orderly(q)  BY DEF Inv
  <1>2. req'[q].op \in {"exchange", "refresh"} /\ resp'[q] = "ok" /\ req'[q] # None
    BY DEF Issues
  <1>3. q = p
    <2>1. q # p => Rests(q)  BY GentleStep DEF Gentle
    <2>2. QED  BY <1>2, <2>1 DEF Rests, Issues
  <1>4. req[p] # None
    BY <1>1, <1>2, <1>3, NoneIsNothing, Causes DEF Cause, Arrive, At, Orderly
  <1>5. req'[p] = req[p]  BY <1>4, Causes DEF Cause
  <1>6. resp[p] # "ok"  BY <1>2, <1>3, <1>4, <1>5 DEF Issues
  <1>7. QED  BY <1>2, <1>3, <1>5, <1>6, Causes DEF Cause

LEMMA ConsentedKept ==
    ASSUME Inv, NEW p \in Requests, Act(p), NEW q \in Requests
    PROVE  Consented(q)'
  <1> USE NoneIsNothing
  <1>1. Consented(q) /\ Orderly(q) /\ GrantsTypeOK  BY DEF Inv
  <1>2. q # p => Rests(q)  BY GentleStep DEF Gentle
  <1>3. ASSUME pc'[q] = "redeem" PROVE FromCode(q)'
    <2>1. CASE pc[q] = "redeem"
      BY <1>1, <2>1, SourceKept DEF Consented, Orderly
    <2>2. CASE q = p /\ CheckCode(p)
      <3>1. Redeemable(req[p], codes[req[p].of])
        BY <1>1, <1>3, <2>2 DEF CheckCode, Go, Answer, GrantsTypeOK
      <3>2. req[p] # None /\ req[p].op = "exchange"
        BY <1>1, <2>2 DEF CheckCode, At, Orderly
      <3>3. FromCode(p)  BY <3>1 DEF Redeemable, FromCode
      <3>4. QED  BY <2>2, <3>2, <3>3, SourceKept
    <2>3. QED  BY <1>2, <1>3, <2>1, <2>2, Causes DEF Rests, Cause
  <1>4. ASSUME refresh'[q] # None
        PROVE  /\ req'[q] # None /\ req'[q].op = "exchange" /\ FromCode(q)'
               /\ refresh'[q].client = req'[q].client
               /\ refresh'[q].scopes = codes'[req'[q].of].scopes
    <2>1. CASE refresh[q] # None
      <3>1. KeepsRefresh(q)  BY GentleStep DEF Gentle, Keeps
      <3>2. QED  BY <1>1, <2>1, <3>1, SourceKept DEF Consented, KeepsRefresh
    <2>2. CASE q = p /\ RedeemCode(p)
      <3>1. req[p] # None /\ req[p].op = "exchange" /\ FromCode(p)
        BY <1>1, <2>2 DEF RedeemCode, At, Orderly, Consented
      <3>2. /\ refresh'[p].client = req[p].client
            /\ refresh'[p].scopes = codes[req[p].of].scopes
        BY <1>1, <2>2 DEF RedeemCode, GrantsTypeOK
      <3>3. QED  BY <2>2, <3>1, <3>2, SourceKept
    <2>3. QED  BY <1>2, <1>4, <2>1, <2>2, Causes DEF Rests, Cause
  <1>5. ASSUME pc'[q] \in {"append", "store"} PROVE FromFamily(q)'
    <2>1. CASE pc[q] \in {"append", "store"}
      BY <1>1, <2>1, SourceKept DEF Consented, Orderly
    <2>2. CASE q = p /\ CheckRefresh(p)
      <3>1. Renewable(req[p], refresh[req[p].of])
        BY <1>1, <1>5, <2>2 DEF CheckRefresh, Go, Answer, GrantsTypeOK
      <3>2. req[p] # None /\ req[p].op = "refresh"
        BY <1>1, <2>2 DEF CheckRefresh, At, Orderly
      <3>3. FromFamily(p)  BY <3>1 DEF Renewable, FromFamily
      <3>4. QED  BY <2>2, <3>2, <3>3, SourceKept
    <2>3. CASE q = p /\ AppendToken(p)
      BY <1>1, <2>1, <2>3 DEF AppendToken, At
    <2>4. QED  BY <1>2, <1>5, <2>1, <2>2, <2>3, Causes DEF Rests, Cause
  <1>6. ASSUME Issues(q)'
        PROVE  /\ tokens'[q] # None /\ refresh'[Family(q)'] # None
               /\ tokens'[q].client = refresh'[Family(q)'].client
               /\ tokens'[q].scopes = refresh'[Family(q)'].scopes
    <2>1. CASE Issues(q)
      <3>1. q \in Answered  BY <2>1 DEF Issues, Answered
      <3>2. /\ Family(q)' = Family(q) /\ Family(q) \in Requests
            /\ KeepsToken(q) /\ KeepsRefresh(Family(q))
        BY <2>1, <3>1, IssuesSettled, GentleStep DEF Gentle, Keeps
      <3>3. QED
        BY <1>1, <2>1, <3>2 DEF Consented, KeepsToken, KeepsRefresh
    <2>2. CASE q = p /\ RedeemCode(p)
      <3>1. req[p] # None /\ req[p].op = "exchange" /\ req'[p] = req[p]
        BY <1>1, <2>2 DEF RedeemCode, At, Orderly
      <3>2. Family(p)' = p  BY <3>1 DEF Family
      <3>3. /\ refresh'[p] = [client |-> req[p].client, scopes |-> codes[req[p].of].scopes,
                              revoked |-> FALSE, access_tokens |-> <<p>>]
            /\ tokens'[p] = [client |-> req[p].client, scopes |-> codes[req[p].of].scopes,
                             revoked |-> FALSE, expired |-> FALSE]
        BY <1>1, <2>2 DEF RedeemCode, GrantsTypeOK
      <3>4. refresh'[p] # None /\ tokens'[p] # None
        <4>1. GrantsTypeOK' /\ \A x \in Refresh \cup Token : x # None
          BY GentleStep DEF Gentle
        <4>2. FromCode(p) /\ req[p].of \in Requests
          BY <1>1, <2>2, <3>1, About DEF RedeemCode, At, Consented
        <4>3. codes[req[p].of] \in Code /\ codes[req[p].of].client = req[p].client
          BY <1>1, <4>2 DEF FromCode, GrantsTypeOK
        <4>4. refresh'[p] \in Refresh /\ tokens'[p] \in Token
          BY <3>3, <4>3 DEF Code, Refresh, Token, Party
        <4>5. QED  BY <4>1, <4>4
      <3>5. QED  BY <2>2, <3>2, <3>3, <3>4
    <2>3. CASE q = p /\ StoreToken(p)
      <3>1. /\ req[p] # None /\ req[p].op = "refresh" /\ req'[p] = req[p]
            /\ refresh' = refresh /\ FromFamily(p)
        BY <1>1, <2>3 DEF StoreToken, At, Orderly, Consented
      <3>2. Family(p)' = req[p].of /\ req[p].of \in Requests
        BY <3>1, About DEF Family
      <3>3. tokens'[p] = [client |-> req[p].client, scopes |-> refresh[req[p].of].scopes,
                          revoked |-> FALSE, expired |-> FALSE]
        BY <1>1, <2>3 DEF StoreToken, GrantsTypeOK
      <3>4. refresh[req[p].of] \in Refresh /\ refresh[req[p].of].client = req[p].client
        BY <1>1, <3>1, <3>2 DEF FromFamily, GrantsTypeOK
      <3>5. tokens'[p] \in Token  BY <3>3, <3>4 DEF Refresh, Token, Party
      <3>6. tokens'[p] # None  BY <3>5
      <3>7. QED  BY <2>3, <3>1, <3>2, <3>3, <3>4, <3>6 DEF FromFamily
    <2>4. QED  BY <1>6, <2>1, <2>2, <2>3, NewlyIssued
  <1>7. QED  BY <1>3, <1>4, <1>5, <1>6 DEF Consented

\* The entry in the list comes first.
LEMMA ListedKept ==
    ASSUME Inv, NEW p \in Requests, Act(p), NEW q \in Requests
    PROVE  Listed(q)'
  <1>1. Listed(q) /\ Consented(q) /\ Orderly(q) /\ GrantsTypeOK  BY DEF Inv
  <1>2. q # p => Rests(q)  BY GentleStep DEF Gentle
  <1> SUFFICES ASSUME pc'[q] = "store" \/ Issues(q)'
               PROVE  ListedFrom(q, Family(q), 1)'
    BY DEF Listed
  <1>3. CASE pc[q] = "store"
    <2>1. /\ req[q] # None /\ req[q].op = "refresh" /\ FromFamily(q)
          /\ ListedFrom(q, req[q].of, 1)
      BY <1>1, <1>3 DEF Orderly, Consented, Listed, Family
    <2>2. req'[q] = req[q] /\ req[q].of \in Requests  BY <2>1, SourceKept, About
    <2>3. \E j \in 1..Len(refresh'[req[q].of].access_tokens) :
             j >= 1 /\ refresh'[req[q].of].access_tokens[j] = q
      BY <2>1, <2>2, ListedStays DEF FromFamily
    <2>4. Family(q)' = req[q].of  BY <2>1, <2>2 DEF Family
    <2>5. QED  BY <2>3, <2>4 DEF ListedFrom
  <1>4. CASE Issues(q)
    <2>1. q \in Answered  BY <1>4, NoneIsNothing DEF Issues, Answered
    <2>2. /\ Family(q)' = Family(q) /\ Family(q) \in Requests /\ refresh[Family(q)] # None
      BY <1>4, <2>1, IssuesSettled
    <2>3. ListedFrom(q, Family(q), 1)  BY <1>1, <1>4 DEF Listed
    <2>4. \E j \in 1..Len(refresh'[Family(q)].access_tokens) :
             j >= 1 /\ refresh'[Family(q)].access_tokens[j] = q
      BY <2>2, <2>3, ListedStays
    <2>5. QED  BY <2>2, <2>4 DEF ListedFrom
  <1>5. CASE q = p /\ AppendToken(p)
    <2> DEFINE f == req[p].of
               list == refresh[f].access_tokens
    <2>1. /\ req[p] # None /\ req[p].op = "refresh" /\ req'[p] = req[p] /\ FromFamily(p)
      BY <1>1, <1>5 DEF AppendToken, At, Orderly, Consented
    <2>2. f \in Requests  BY <2>1, About
    <2>3. refresh[f] \in Refresh  BY <1>1, <2>1, <2>2 DEF FromFamily, GrantsTypeOK
    <2>4. list \in Seq(Requests)  BY <2>3 DEF Refresh
    <2>5. refresh'[f].access_tokens = Append(list, p)
      <3>1. refresh'[f] = [refresh[f] EXCEPT !.access_tokens = Append(list, p)]
        BY <1>1, <1>5, <2>2 DEF AppendToken, GrantsTypeOK
      <3> HIDE DEF list
      <3>2. QED  BY <2>3, <3>1 DEF Refresh
    <2>6. /\ Len(list) + 1 \in 1..Len(Append(list, p)) /\ Len(list) + 1 >= 1
          /\ Append(list, p)[Len(list) + 1] = p
      BY <2>4
    <2>7. Family(p)' = f  BY <2>1 DEF Family
    <2> HIDE DEF f, list
    <2>8. QED  BY <1>5, <2>5, <2>6, <2>7 DEF ListedFrom
  <1>6. CASE q = p /\ RedeemCode(p)
    <2>1. /\ req[p].op = "exchange" /\ req'[p] = req[p]
          /\ refresh'[p].access_tokens = <<p>>
      BY <1>1, <1>6 DEF RedeemCode, At, Orderly, GrantsTypeOK
    <2>2. Family(p)' = p  BY <2>1 DEF Family
    <2>3. 1 \in 1..Len(<<p>>) /\ 1 >= 1 /\ <<p>>[1] = p  OBVIOUS
    <2>4. QED  BY <1>6, <2>1, <2>2, <2>3 DEF ListedFrom
  <1>7. CASE q = p /\ StoreToken(p)
    BY <1>3, <1>7 DEF StoreToken, At
  <1>8. CASE pc'[q] = "store"
    BY <1>2, <1>3, <1>5, <1>8, Causes DEF Rests, Cause
  <1>9. CASE Issues(q)'
    BY <1>4, <1>6, <1>7, <1>9, NewlyIssued
  <1>10. QED  BY <1>8, <1>9

\* A sweep comes to every token that was there before it, and a revocation has
\* been by them all.
LEMMA SweptKept ==
    ASSUME Inv, NEW p \in Requests, Act(p), NEW q \in Requests
    PROVE  Swept(q)'
  <1> USE NoneIsNothing
  <1>1. Swept(q) /\ Orderly(q) /\ GrantsTypeOK  BY DEF Inv
  <1>2. q # p => Rests(q)  BY GentleStep DEF Gentle
  <1> DEFINE f == req[q].of
  <1>3. ASSUME pc'[q] = "sweep"
        PROVE  /\ FromFamily(q)' /\ refresh'[req'[q].of].revoked
               /\ req'[q].type = "refresh_token"
               /\ \A t \in heard'[q] : Descends(t, q)' /\ Live(t)' =>
                      ListedFrom(t, req[q].of, next[q])'
    <2>1. CASE pc[q] = "sweep"
      <3>1. /\ req[q] # None /\ req[q].op = "revoke" /\ f \in Requests
            /\ req'[q] = req[q] /\ heard'[q] = heard[q] /\ FromFamily(q)'
            /\ heard[q] \subseteq Answered
        <4>1. req[q] # None /\ req[q].op = "revoke"  BY <1>1, <2>1 DEF Orderly
        <4>2. KeepsRequest(q)  BY GentleStep DEF Gentle, Keeps
        <4>3. FromFamily(q)  BY <1>1, <2>1 DEF Swept
        <4>4. QED  BY <4>1, <4>2, <4>3, About, SourceKept DEF KeepsRequest
      <3>2. /\ refresh[f] # None /\ refresh'[f].revoked /\ req[q].type = "refresh_token"
        <4>1. KeepsRefresh(f)  BY <3>1, GentleStep DEF Gentle, Keeps
        <4>2. QED  BY <1>1, <2>1, <4>1 DEF Swept, FromFamily, KeepsRefresh
      <3>3. ASSUME NEW t \in heard[q], Descends(t, q)', Live(t)'
            PROVE  ListedFrom(t, req[q].of, next[q])'
        <4>1. t \in Answered  BY <3>1
        <4>2. Descends(t, q) /\ Live(t)
          BY <3>1, <3>3, <4>1, IssuesSettled DEF Descends
        <4>3. ListedFrom(t, f, next[q])  BY <1>1, <2>1, <4>2 DEF Swept
        <4>4. next[q] \in Nat /\ next'[q] \in Nat
          BY <1>1, GentleStep DEF Gentle, GrantsTypeOK
        <4>5. CASE next'[q] = next[q]
          <5>1. \E j \in 1..Len(refresh'[f].access_tokens) :
                   j >= next[q] /\ refresh'[f].access_tokens[j] = t
            BY <3>1, <3>2, <4>3, <4>4, ListedStays
          <5>2. QED  BY <3>1, <4>5, <5>1 DEF ListedFrom
        <4>6. CASE next'[q] # next[q]
          <5>1. q = p /\ SweepToken(p)  BY <1>2, <4>6, Causes DEF Rests, Cause
          <5>2. /\ next'[q] = next[q] + 1
                /\ LET x == refresh[f].access_tokens[next[q]] IN
                   tokens' = IF tokens[x] = None THEN tokens
                             ELSE [tokens EXCEPT ![x].revoked = TRUE]
            BY <1>1, <4>6, <5>1 DEF SweepToken, GrantsTypeOK
          <5>3. PICK j \in 1..Len(refresh[f].access_tokens) :
                   j >= next[q] /\ refresh[f].access_tokens[j] = t
            BY <4>3 DEF ListedFrom
          <5>4. j # next[q]
            <6> SUFFICES ASSUME j = next[q] PROVE FALSE  OBVIOUS
            <6>1. t \in Requests /\ tokens[t] # None
              BY <4>1, <4>2 DEF Answered, Live
            <6>2. tokens[t] \in Token  BY <1>1, <6>1 DEF GrantsTypeOK
            <6>3. tokens' = [tokens EXCEPT ![t] = [tokens[t] EXCEPT !.revoked = TRUE]]
              BY <5>2, <5>3, <6>1
            <6>4. tokens'[t].revoked  BY <1>1, <6>1, <6>2, <6>3 DEF GrantsTypeOK, Token
            <6>5. QED  BY <3>3, <6>4 DEF Live
          <5>5. j >= next[q] + 1  BY <4>4, <5>3, <5>4
          <5>6. next[q] + 1 \in Nat /\ ListedFrom(t, f, next[q] + 1)
            BY <4>4, <5>3, <5>5 DEF ListedFrom
          <5>7. \E i \in 1..Len(refresh'[f].access_tokens) :
                   i >= next[q] + 1 /\ refresh'[f].access_tokens[i] = t
            BY <3>1, <3>2, <5>6, ListedStays
          <5>8. QED  BY <3>1, <5>2, <5>7 DEF ListedFrom
        <4>7. QED  BY <4>5, <4>6
      <3>4. QED  BY <3>1, <3>2, <3>3
    <2>2. CASE q = p /\ RevokeToken(p)
      <3>1. /\ req[p] # None /\ req[p].op = "revoke" /\ next[p] = 1
        BY <1>1, <2>2 DEF RevokeToken, At, Orderly
      <3>2. /\ req' = req /\ heard' = heard /\ next' = next
            /\ Revocable(req[p]) /\ req[p].type = "refresh_token"
            /\ refresh' = [refresh EXCEPT ![req[p].of].revoked = TRUE]
        BY <1>1, <1>3, <2>2 DEF RevokeToken, Answer, Go, GrantsTypeOK
      <3>3. /\ f \in Requests /\ heard[q] \subseteq Answered /\ FromFamily(q)
        BY <2>2, <3>1, <3>2, About DEF Revocable, FromFamily
      <3>4. refresh[f] \in Refresh  BY <1>1, <3>3 DEF FromFamily, GrantsTypeOK
      <3>5. refresh'[f].revoked
        BY <1>1, <2>2, <3>2, <3>3, <3>4 DEF GrantsTypeOK, Refresh
      <3>6. ASSUME NEW t \in heard[q], Descends(t, q)'
            PROVE  ListedFrom(t, req[q].of, next[q])'
        <4>1. t \in Answered  BY <3>3
        <4>2. Issues(t) /\ Family(t) = f
          BY <3>2, <3>6, <4>1, IssuesSettled DEF Descends
        <4>3. Listed(t)  BY <4>1 DEF Inv, Answered
        <4>4. ListedFrom(t, f, 1)  BY <4>2, <4>3 DEF Listed
        <4>5. \E j \in 1..Len(refresh'[f].access_tokens) :
                 j >= 1 /\ refresh'[f].access_tokens[j] = t
          BY <3>3, <4>4, ListedStays DEF FromFamily
        <4>6. QED  BY <2>2, <3>1, <3>2, <4>5 DEF ListedFrom
      <3>7. FromFamily(q)'  BY <2>2, <3>1, <3>3, SourceKept
      <3>8. QED  BY <2>2, <3>2, <3>5, <3>6, <3>7
    <2>3. QED  BY <1>2, <1>3, <2>1, <2>2, Causes DEF Rests, Cause
  <1>4. ASSUME Revocation(q)'
        PROVE  /\ refresh'[req'[q].of].revoked
               /\ \A t \in heard'[q] : Descends(t, q)' => ~Live(t)'
    <2>1. req[q] # None /\ req'[q] = req[q] /\ heard'[q] = heard[q] /\ req[q].op = "revoke"
      <3>1. resp'[q] = "ok" /\ req'[q].op = "revoke"  BY <1>4 DEF Revocation
      <3>2. req[q] # None
        BY <1>1, <1>2, <1>4, <3>1, Causes
        DEF Revocation, Rests, Cause, Arrive, At, Orderly
      <3>3. QED  BY <3>1, <3>2, GentleStep DEF Gentle, Keeps, KeepsRequest
    <2>2. f \in Requests /\ heard[q] \subseteq Answered  BY <2>1, About
    <2>3. /\ refresh[f] # None /\ refresh[f].revoked
          /\ \A t \in heard[q] : Descends(t, q) => ~Live(t)
      <3>1. CASE q \in Answered
        BY <1>1, <1>4, <3>1, RevocationSettled DEF Swept
      <3>2. CASE q \notin Answered
        <4>1. resp[q] = None /\ resp'[q] = "ok"
          BY <1>4, <3>2 DEF Answered, Revocation
        <4>2. q = p  BY <1>2, <4>1 DEF Rests
        <4>3. CASE RevokeToken(p)
          <5>1. \/ ~(Authentic(req[p]) /\ Revocable(req[p])) /\ refresh' = refresh
                \/ req[p].type = "access_token"
            BY <1>1, <4>1, <4>2, <4>3 DEF RevokeToken, Answer, Go, GrantsTypeOK
          <5>2. req[p].type = "refresh_token" /\ refresh'[f] # None
                /\ refresh'[f].client = req[p].client
            BY <1>4, <2>1, <4>2 DEF Revocation
          <5>3. ~Revocable(req[p]) /\ refresh' = refresh
            <6>1. Authentic(req[p])
              BY <1>1, <4>1, <4>2, <4>3, <5>1, <5>2
              DEF RevokeToken, Answer, Go, GrantsTypeOK
            <6>2. QED  BY <5>1, <5>2, <6>1
          <5>4. QED  BY <4>2, <5>2, <5>3 DEF Revocable
        <4>4. CASE SweepToken(p)
          <5>1. pc[p] = "sweep" /\ next[p] > Len(refresh[f].access_tokens)
            BY <1>1, <4>1, <4>2, <4>4 DEF SweepToken, At, Answer, GrantsTypeOK
          <5>2. /\ FromFamily(q) /\ refresh[f].revoked
                /\ \A t \in heard[q] : Descends(t, q) /\ Live(t) => ListedFrom(t, f, next[q])
            BY <1>1, <4>2, <5>1 DEF Swept
          <5>3. refresh[f] # None  BY <5>2 DEF FromFamily
          <5>4. Len(refresh[f].access_tokens) \in Nat /\ next[q] \in Nat
            BY <1>1, <2>2, <5>3 DEF GrantsTypeOK, Refresh
          <5>5. \A t : ~ListedFrom(t, f, next[q])
            BY <4>2, <5>1, <5>4 DEF ListedFrom
          <5>6. QED  BY <5>2, <5>3, <5>5
        <4>5. QED  BY <2>1, <4>1, <4>2, <4>3, <4>4, Causes DEF Cause
      <3>3. QED  BY <3>1, <3>2
    <2>4. refresh'[f].revoked
      <3>1. KeepsRefresh(f)  BY <2>2, GentleStep DEF Gentle, Keeps
      <3>2. QED  BY <2>3, <3>1 DEF KeepsRefresh
    <2>5. ASSUME NEW t \in heard[q], Descends(t, q)' PROVE ~Live(t)'
      <3>1. t \in Answered  BY <2>2
      <3>2. Issues(t) /\ Descends(t, q)
        BY <2>1, <2>5, <3>1, IssuesSettled DEF Descends
      <3>3. QED  BY <2>3, <3>1, <3>2, IssuesSettled
    <2>6. QED  BY <2>1, <2>4, <2>5
  <1>5. QED  BY <1>3, <1>4 DEF Swept

LEMMA RefusedKept ==
    ASSUME Inv, NEW p \in Requests, Act(p), NEW t \in Requests
    PROVE  Refused(t)'
  <1> USE NoneIsNothing
  <1>1. Refused(t) /\ Orderly(t) /\ GrantsTypeOK  BY DEF Inv
  <1>2. t # p => Rests(t)  BY GentleStep DEF Gentle
  <1> SUFFICES ASSUME req'[t] # None, req'[t].op = "refresh",
                      pc'[t] \in {"append", "store"} \/ resp'[t] = "ok",
                      NEW q \in heard'[t], Revocation(q)', req'[q].of = req'[t].of
               PROVE  FALSE
    BY DEF Refused
  <1>3. req[t] # None
    BY <1>1, <1>2, GentleStep, Causes
    DEF Rests, Cause, Arrive, At, Orderly, Gentle, GrantsTypeOK, Go
  <1>4. req'[t] = req[t] /\ heard'[t] = heard[t] /\ heard[t] \subseteq Answered
    BY <1>3, About, GentleStep DEF Gentle, Keeps, KeepsRequest
  <1>5. Revocation(q) /\ req'[q] = req[q] /\ q \in Requests
    BY <1>4, Settled, RevocationSettled
  <1>6. ~(pc[t] \in {"append", "store"} \/ resp[t] = "ok")
    BY <1>1, <1>3, <1>4, <1>5 DEF Refused
  <1>7. t = p  BY <1>2, <1>6 DEF Rests
  <1>8. CheckRefresh(p)
    BY <1>4, <1>6, <1>7, Causes DEF Cause, AppendToken, StoreToken, At
  <1>9. refresh[req[t].of].revoked
    BY <1>4, <1>5 DEF Inv, Swept
  <1>10. Renewable(req[t], refresh[req[t].of])
    BY <1>1, <1>6, <1>7, <1>8 DEF CheckRefresh, Go, Answer, GrantsTypeOK
  <1>11. QED  BY <1>9, <1>10 DEF Renewable

\* The gate is passed with a token that no revocation before has revoked.
LEMMA ServedKept ==
    ASSUME Inv, NEW p \in Requests, Act(p), NEW u \in Requests
    PROVE  Served(u)'
  <1> USE NoneIsNothing
  <1>1. Served(u) /\ Orderly(u) /\ GrantsTypeOK  BY DEF Inv
  <1>2. u # p => Rests(u)  BY GentleStep DEF Gentle
  <1> SUFFICES ASSUME req'[u] # None, req'[u].op = "use", pc'[u] = "serve" \/ resp'[u] = "ok"
               PROVE  Served(u)'
    BY DEF Served
  <1>3. req[u] # None
    BY <1>1, <1>2, GentleStep, Causes
    DEF Rests, Cause, Arrive, At, Orderly, Gentle, GrantsTypeOK, Go
  <1>4. req'[u] = req[u] /\ heard'[u] = heard[u] /\ heard[u] \subseteq Answered
    BY <1>3, About, GentleStep DEF Gentle, Keeps, KeepsRequest
  <1> DEFINE of == req[u].of
  <1>5. PICK t \in heard[u] :
        /\ t = of /\ tokens[t] # None /\ req[u].scopes \subseteq tokens[t].scopes
        /\ Issues(t) => \A q \in heard[u] :
               ~(Revocation(q) /\ Family(t) = req[q].of /\ t \in heard[q])
    <2>1. CASE pc[u] = "serve" \/ resp[u] = "ok"
      BY <1>1, <1>3, <1>4, <2>1 DEF Served
    <2>2. CASE u = p /\ CheckIdentity(p) /\ pc'[u] = "serve"
      <3>1. Admitted(req[u])
        BY <1>1, <2>2 DEF CheckIdentity, Go, Answer, GrantsTypeOK
      <3>2. of \in heard[u]  BY <1>1, <1>3, <1>4, <3>1 DEF Orderly, Admitted
      <3>3. ASSUME Issues(of), NEW q \in heard[u], Revocation(q), Family(of) = req[q].of,
                   of \in heard[q]
            PROVE  FALSE
        <4>1. q \in Requests  BY <1>4 DEF Answered
        <4>2. ~Live(of)  BY <3>3, <4>1 DEF Inv, Swept, Descends
        <4>3. QED  BY <3>1, <4>2 DEF Admitted, Valid, Live
      <3>4. QED  BY <3>1, <3>2, <3>3 DEF Admitted, Valid
    <2>3. CASE u = p /\ CheckIdentity(p) /\ pc'[u] # "serve"
      <3>1. resp'[u] # "ok"
        BY <1>1, <2>3 DEF CheckIdentity, Go, Answer, At, Orderly, GrantsTypeOK
      <3>2. QED  BY <2>3, <3>1
    <2>4. QED
      BY <1>2, <1>4, <2>1, <2>2, <2>3, Causes DEF Rests, Cause, ServeOrders, At
  <1>6. t \in Answered /\ t \in Requests  BY <1>4, <1>5 DEF Answered
  <1>7. KeepsToken(t)  BY <1>6, GentleStep DEF Gentle, Keeps
  <1>8. ASSUME Issues(t)', NEW q \in heard[u], Revocation(q)', Family(t)' = req'[q].of,
               t \in heard'[q]
        PROVE  FALSE
    <2>1. q \in Answered  BY <1>4
    <2>2. Revocation(q) /\ req'[q] = req[q] /\ heard'[q] = heard[q]
      BY <1>8, <2>1, Settled, RevocationSettled
    <2>3. Issues(t) /\ Family(t) = req[q].of
      BY <1>6, <1>8, <2>2, IssuesSettled
    <2>4. QED  BY <1>5, <1>8, <2>2, <2>3
  <1>9. req'[u].of = t  BY <1>4, <1>5
  <1>10. QED  BY <1>4, <1>5, <1>7, <1>8, <1>9 DEF Served, KeepsToken, Issues, Family

-----------------------------------------------------------------------------
(* The invariant *)

LEMMA InvInit == Init => Inv
  <1> USE NoneIsNothing
  <1> SUFFICES ASSUME Init PROVE Inv  OBVIOUS
  <1>1. GrantsTypeOK  BY DEF Init, GrantsTypeOK
  <1>2. \A p \in Requests : /\ pc[p] = "idle" /\ req[p] = None /\ resp[p] = None
                            /\ heard[p] = {} /\ next[p] = 1 /\ codes[p] = None
                            /\ refresh[p] = None /\ tokens[p] = None
    BY DEF Init
  <1>3. \A p \in Requests : Orderly(p)  BY <1>2 DEF Orderly
  <1>4. \A p \in Requests : ~Issues(p) /\ ~Revocation(p)
    BY <1>2 DEF Issues, Revocation
  <1>5. \A p \in Requests :
           Consented(p) /\ Listed(p) /\ Swept(p) /\ Refused(p) /\ Served(p)
    BY <1>2, <1>4 DEF Consented, Listed, Swept, Refused, Served
  <1>6. QED  BY <1>1, <1>3, <1>5 DEF Inv

LEMMA InvNext == Inv /\ [Next]_vars => Inv'
  <1> SUFFICES ASSUME Inv, [Next]_vars PROVE Inv'  OBVIOUS
  <1>1. CASE UNCHANGED vars
    BY <1>1 DEF Inv, vars, grants, GrantsTypeOK, Orderly, Consented, Listed, Swept, Refused,
       Served, FromCode, FromFamily, ListedFrom, Descends, Live, Issues, Family, Revocation,
       Answered
  <1>2. ASSUME NEW p \in Requests, Act(p) PROVE Inv'
    <2>1. GrantsTypeOK'  BY <1>2, GentleStep DEF Gentle
    <2>2. \A q \in Requests : Orderly(q)' /\ Consented(q)'
      BY <1>2, OrderlyKept, ConsentedKept
    <2>3. \A q \in Requests : Listed(q)' /\ Swept(q)'  BY <1>2, ListedKept, SweptKept
    <2>4. \A q \in Requests : Refused(q)' /\ Served(q)'  BY <1>2, RefusedKept, ServedKept
    <2>5. QED  BY <2>1, <2>2, <2>3, <2>4 DEF Inv
  <1>3. QED  BY <1>1, <1>2 DEF Next, Act, AllAnswered

\* The inductive invariant, of which the properties below are consequences: it
\* says how the tables, the threads and the requests heard of each other relate.
THEOREM Invariance == Spec => []Inv
  BY InvInit, InvNext, PTL DEF Spec

-----------------------------------------------------------------------------
(* The properties *)

\* The tables of codes, refresh tokens and access tokens hold what their types
\* say, whatever threads write them.
THEOREM GrantsTypes == Spec => []GrantsTypeOK
  <1>1. Inv => GrantsTypeOK  BY DEF Inv
  <1>2. QED  BY <1>1, Invariance, PTL

\* An access token has the client, the scopes and the proof of the authorization
\* it goes back to, over any number of refreshes.
THEOREM Consents == Spec => []TokensKeepTheirConsent
  <1>1. Inv => TokensKeepTheirConsent
    <2> SUFFICES ASSUME Inv, NEW t \in Requests, Issues(t)
                 PROVE  /\ Consent(t) # None
                        /\ tokens[t].client = Consent(t).client
                        /\ tokens[t].scopes = Consent(t).scopes
                        /\ RequirePKCE => req[Family(t)].verifier = Consent(t).challenge
      BY DEF TokensKeepTheirConsent
    <2>1. Consented(t) /\ Family(t) \in Requests
      BY About DEF Inv, Issues, Family
    <2>2. Consented(Family(t))  BY <2>1 DEF Inv
    <2>3. QED  BY <2>1, <2>2 DEF Consented, FromCode, Consent
  <1>2. QED  BY <1>1, Invariance, PTL

\* Of an answered revocation only those access tokens survive that were being
\* issued while it ran.
THEOREM Revocations == Spec => []RevocationHolds
  <1>1. Inv => RevocationHolds
    <2> SUFFICES ASSUME Inv, NEW q \in Requests, NEW t \in Requests, Revocation(q), Issues(t),
                        Family(t) = req[q].of, Live(t)
                 PROVE  t \notin heard[q] /\ q \notin heard[t]
      BY DEF RevocationHolds
    <2>1. t \notin heard[q]  BY DEF Inv, Swept, Descends
    <2>2. q \notin heard[t]
      <3>1. CASE req[t].op = "refresh"
        BY <3>1 DEF Inv, Refused, Issues, Family
      <3>2. CASE req[t].op = "exchange"
        <4>1. req[q].of = t  BY <3>2 DEF Family
        <4>2. t \in heard[q]  BY <4>1, About DEF Revocation
        <4>3. QED  BY <2>1, <4>2
      <3>3. QED  BY <3>1, <3>2 DEF Issues
    <2>3. QED  BY <2>1, <2>2
  <1>2. QED  BY <1>1, Invariance, PTL

\* Orders are served with the scopes they need, and not under a token that was
\* revoked before the request arrived.
THEOREM Gate == Spec => []ServedWithConsent
  <1>1. Inv => ServedWithConsent
    <2> SUFFICES ASSUME Inv, NEW p \in Requests, req[p] # None, req[p].op = "use",
                        resp[p] = "ok"
                 PROVE  LET t == req[p].of IN
                        /\ t # None /\ tokens[t] # None
                        /\ req[p].scopes \subseteq tokens[t].scopes
                        /\ Issues(t) => \A q \in heard[p] :
                               ~(Revocation(q) /\ Family(t) = req[q].of /\ t \in heard[q])
      BY DEF ServedWithConsent
    <2>1. Served(p) /\ heard[p] \subseteq Requests
      BY About DEF Inv, GrantsTypeOK
    <2>2. req[p].of # None  BY <2>1, NoneIsNothing DEF Served
    <2>3. QED  BY <2>1, <2>2 DEF Served
  <1>2. QED  BY <1>1, Invariance, PTL
=============================================================================
