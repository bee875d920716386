---------------------------- MODULE FixtureCarts -----------------------------
(***************************************************************************)
(* The carts of the fixture merchant and their conversion: a key of a      *)
(* create is looked up and stored under two holds of the cart lock, lines, *)
(* codes and claims of a cart are written one after another under one hold *)
(* of it, and a conversion reads them in four steps, two without the lock. *)
(* The key of a conversion is the matter of FixtureMerchant.               *)
(***************************************************************************)
EXTENDS Naturals, FiniteSets, Sequences, FixtureThreads

CONSTANTS
    CartSeeds,      \* carts that exist at the start
    CheckoutSeeds,  \* checkouts that exist at the start
    SeedCart,       \* the cart each of these was made of, if any
    Keys,           \* Idempotency-Keys
    Bodies          \* what a cart may be: its lines, codes and claims

Carts == Threads \cup CartSeeds
Checkouts == Threads \cup CheckoutSeeds

CartRequest ==
    [op : {"create"}, body : Bodies, key : Keys \cup {None}]
    \cup [op : {"update"}, cart : Carts, body : Bodies]
    \cup [op : {"get_cart", "cancel", "convert"}, cart : Carts]

ASSUME CartsAssumption ==
    /\ Threads \cap (CartSeeds \cup CheckoutSeeds) = {}
    /\ None \notin Carts \cup Checkouts \cup Keys \cup Bodies
    /\ Bodies # {}
    /\ SeedCart \in [CheckoutSeeds -> CartSeeds \cup {None}]
    /\ \A k, m \in CheckoutSeeds : SeedCart[k] = SeedCart[m] => k = m \/ SeedCart[k] = None

\* What CART_IDEM keeps of a key, and SESSIONS of a checkout: which versions of
\* which cart it was made of.
KeyRecord == [body : Bodies, id : Threads]
Statuses == {"open", "completed", "canceled"}
Session == [cart : Carts \cup {None}, lines : Nat, codes : Nat, claims : Nat,
            status : Statuses]

ASSUME RecordsAssumption == None \notin KeyRecord \cup Session

VARIABLES
    live,           \* CARTS: the carts that are neither canceled nor yet to come
    versions,       \* history: what each cart has been, oldest first
    lines,          \* CARTS[c]["line_items"]: the version they are of
    codes,          \* CART_CODES: the version they are of
    claims,         \* CART_ELIG: the version they are of
    cartLock,       \* who holds _CART_LOCK over several steps
    idem,           \* CART_IDEM: what a key answers
    link,           \* CART_CHECKOUTS: the latest checkout made from a cart
    checkouts       \* SESSIONS: what each was made of, and its status

carts == <<live, versions, lines, codes, claims, cartLock>>
sessions == <<link, checkouts>>

\* The checkout that a cart was made into at the start.
SeedLink(c) ==
    IF \E k \in CheckoutSeeds : SeedCart[k] = c
    THEN CHOOSE k \in CheckoutSeeds : SeedCart[k] = c ELSE None

Opened(cart, line, code, claim) ==
    [cart |-> cart, lines |-> line, codes |-> code, claims |-> claim, status |-> "open"]

CartsInit ==
    /\ live = CartSeeds
    /\ versions = [c \in Carts |->
            IF c \in CartSeeds THEN <<CHOOSE b \in Bodies : TRUE>> ELSE << >>]
    /\ lines = [c \in Carts |-> Len(versions[c])]
    /\ codes = lines /\ claims = lines /\ cartLock = None
    /\ idem = [k \in Keys |-> None]
    /\ link = [c \in Carts |-> IF c \in CartSeeds THEN SeedLink(c) ELSE None]
    /\ checkouts = [k \in Checkouts |->
            IF k \notin CheckoutSeeds THEN None
            ELSE IF SeedCart[k] = None THEN Opened(None, 0, 0, 0)
            ELSE Opened(SeedCart[k], 1, 1, 1)]

-----------------------------------------------------------------------------
(* create_cart, update_cart, cancel_cart, get_cart *)

\* Defect: a key that was used with another body is free.
RecordOfBody(t) ==
    IF req[t].key = None \/ idem[req[t].key] = None THEN None
    ELSE IF idem[req[t].key].body = req[t].body THEN idem[req[t].key] ELSE None

Record(t) == IF req[t].key = None THEN None ELSE idem[req[t].key]

\* The first hold of the lock.
LookUp(t) ==
    /\ At(t, "create") /\ cartLock = None
    /\ \/ Record(t) = None /\ Go(t, "store")
       \/ /\ Record(t) # None /\ Record(t).body = req[t].body
          /\ Answer(t, "replayed", Record(t).id)
       \/ /\ Record(t) # None /\ Record(t).body # req[t].body
          /\ Answer(t, "conflict", None)
    /\ UNCHANGED <<carts, idem, sessions, local>>

\* The cart a request is about; a created one has the request's name.
Cart(t) == IF req[t].op = "create" THEN t ELSE req[t].cart

\* Defect: codes and claims are written without the lock.
ReplaceUnlocked(t) ==
    LET c == Cart(t) IN
    /\ versions' = [versions EXCEPT ![c] = Append(@, req[t].body)]
    /\ lines' = [lines EXCEPT ![c] = Len(versions[c]) + 1]
    /\ Go(t, "write_codes")
    /\ UNCHANGED <<codes, claims, cartLock>>

\* The lock is taken and the cart replaced; codes and claims follow.
Replace(t) ==
    LET c == Cart(t) IN
    /\ cartLock' = t
    /\ versions' = [versions EXCEPT ![c] = Append(@, req[t].body)]
    /\ lines' = [lines EXCEPT ![c] = Len(versions[c]) + 1]
    /\ Go(t, "write_codes")
    /\ UNCHANGED <<codes, claims>>

\* The second hold.
StoreCart(t) ==
    /\ At(t, "store") /\ cartLock = None
    /\ live' = live \cup {t} /\ Replace(t)
    /\ UNCHANGED <<idem, sessions, local>>

UpdateCart(t) ==
    /\ At(t, "update") /\ cartLock = None
    /\ \/ Cart(t) \in live /\ Replace(t)
       \/ /\ Cart(t) \notin live /\ Answer(t, "not_found", None)
          /\ UNCHANGED <<versions, lines, codes, claims, cartLock>>
    /\ UNCHANGED <<live, idem, sessions, local>>

WriteCodes(t) ==
    /\ At(t, "write_codes") /\ Go(t, "write_claims")
    /\ codes' = [codes EXCEPT ![Cart(t)] = lines[Cart(t)]]
    /\ UNCHANGED <<live, versions, lines, claims, cartLock, idem, sessions, local>>

\* The key a create has used.
KeyStored(t) ==
    IF req[t].op = "create" /\ req[t].key # None
    THEN [idem EXCEPT ![req[t].key] = [body |-> req[t].body, id |-> t]]
    ELSE idem

\* The claims; a create then records its key, and the lock is given up.
WriteClaims(t) ==
    /\ At(t, "write_claims") /\ cartLock' = None
    /\ claims' = [claims EXCEPT ![Cart(t)] = lines[Cart(t)]]
    /\ idem' = KeyStored(t)
    /\ Answer(t, IF req[t].op = "create" THEN "created" ELSE "ok", Cart(t))
    /\ UNCHANGED <<live, versions, lines, codes, sessions, local>>

\* Codes and claims stay behind.
CancelCart(t) ==
    /\ At(t, "cancel") /\ cartLock = None
    /\ \/ Cart(t) \in live /\ Answer(t, "ok", Cart(t))
       \/ Cart(t) \notin live /\ Answer(t, "not_found", None)
    /\ live' = live \ {Cart(t)}
    /\ UNCHANGED <<versions, lines, codes, claims, cartLock, idem, sessions, local>>

GetCart(t) ==
    /\ At(t, "get_cart") /\ cartLock = None
    /\ \/ Cart(t) \in live /\ Answer(t, "ok", Cart(t))
       \/ Cart(t) \notin live /\ Answer(t, "not_found", None)
    /\ UNCHANGED <<carts, idem, sessions, local>>

-----------------------------------------------------------------------------
(* create_checkout with a cart_id *)

\* Under the cart lock: the cart, which no update changes, but replaces.
ReadLines(t) ==
    /\ At(t, "convert") /\ cartLock = None
    /\ \/ /\ Cart(t) \notin live /\ Answer(t, "not_found", None)
          /\ UNCHANGED local
       \/ /\ Cart(t) \in live /\ Go(t, "prior")
          /\ Read(t, [lines |-> lines[Cart(t)]])
    /\ UNCHANGED <<carts, idem, sessions>>

HasOpen(c) == link[c] # None /\ checkouts[link[c]].status = "open"

\* Under the other lock: a checkout of the cart that is still open.
FindPrior(t) ==
    /\ At(t, "prior")
    /\ \/ HasOpen(Cart(t)) /\ Answer(t, "existing", link[Cart(t)])
       \/ ~HasOpen(Cart(t)) /\ Go(t, "codes")
    /\ UNCHANGED <<carts, idem, sessions, local>>

\* Without a lock: the codes, then the claims.
ReadCodes(t) ==
    /\ At(t, "codes") /\ Go(t, "claims")
    /\ Read(t, [lines |-> local[t].lines, codes |-> codes[Cart(t)]])
    /\ UNCHANGED <<carts, idem, sessions>>

ReadClaims(t) ==
    /\ At(t, "claims") /\ Go(t, "execute")
    /\ Read(t, [lines |-> local[t].lines, codes |-> local[t].codes,
                claims |-> claims[Cart(t)]])
    /\ UNCHANGED <<carts, idem, sessions>>

\* Nothing in stock, an unknown item, no capability in common.
RefuseConversion(t) ==
    /\ At(t, "execute") /\ Answer(t, "refused", None)
    /\ UNCHANGED <<carts, idem, sessions, local>>

\* Defect: the checkout is not linked to its cart.
NoLink(c, t) == UNCHANGED link

Link(c, t) == link' = [link EXCEPT ![c] = t]

Convert(t) ==
    /\ At(t, "execute")
    /\ checkouts' = [checkouts EXCEPT ![t] =
            Opened(Cart(t), local[t].lines, local[t].codes, local[t].claims)]
    /\ Link(Cart(t), t)
    /\ Answer(t, "converted", t)
    /\ UNCHANGED <<carts, idem, local>>

CartStep(t) ==
    \/ LookUp(t) \/ StoreCart(t) \/ UpdateCart(t) \/ WriteCodes(t) \/ WriteClaims(t)
    \/ CancelCart(t) \/ GetCart(t)
    \/ ReadLines(t) \/ FindPrior(t) \/ ReadCodes(t) \/ ReadClaims(t)
    \/ RefuseConversion(t) \/ Convert(t)

-----------------------------------------------------------------------------
(* Properties *)

Created(t, key) == resp[t].code = "created" /\ req[t].key = key

\* CART-026: who sends a key after one of its requests has been answered makes
\* no second cart; a replay tells of a cart that was made under the key from the
\* same body, and a conflict is with one that was made from another.
KeysAnswerOnce ==
    \A key \in Keys : \A t \in Threads :
        LET Others == {u \in Threads \ {t} : Created(u, key)} IN
        /\ Created(t, key) => Others \cap heard[t] = {}
        /\ resp[t].code = "replayed" /\ req[t].key = key =>
             resp[t].id \in Others /\ req[resp[t].id].body = req[t].body
        /\ resp[t].code = "conflict" /\ req[t].key = key =>
             \E u \in Others : req[u].body # req[t].body

Made(t) == checkouts[t] # None
SameCart(t, u) == checkouts[t].cart = checkouts[u].cart

\* The updates of a cart that have replaced it, or begun to.
Updates(c) ==
    {u \in Threads :
        /\ resp[u].code = "ok" \/ pc[u] \in {"write_codes", "write_claims"}
        /\ req[u].op = "update" /\ req[u].cart = c}

\* CART-001, DSC-009: a conversion that no update of its cart overlaps carries
\* forward all of the cart as the last update before has left it.  One that is
\* overlapped may mix it with newer codes and claims; its claims may be older
\* than its codes, but never by more than the one update that was under way.
ConversionsCarryTheCart ==
    \A t \in Threads :
        Made(t) =>
            LET made   == checkouts[t]
                before == Updates(made.cart) \cap heard[t]
                after  == {u \in Updates(made.cart) : t \in heard[u]}
                oldest == 1 + Cardinality(before)
            IN  /\ oldest <= made.lines
                /\ made.lines <= made.codes /\ made.lines <= made.claims
                /\ made.codes <= made.claims + 1
                /\ Updates(made.cart) = before \cup after =>
                     made.codes = oldest /\ made.claims = oldest
=============================================================================
