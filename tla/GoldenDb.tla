------------------------------ MODULE GoldenDb ------------------------------
(***************************************************************************)
(* The transactions database of the golden 2026-08-25 merchant and the     *)
(* life of one HTTP request against it (db.py, dependencies.py).           *)
(*                                                                         *)
(* Every request runs in a database session of its own.  A SELECT sees the *)
(* last committed state.  The first INSERT, UPDATE or DELETE of a session  *)
(* takes SQLite's only write lock, which is held until that session        *)
(* commits or rolls back; writes staged under the lock reach the tables    *)
(* below at the commit, all at once.  A request that waits for the lock    *)
(* for longer than the driver's busy timeout fails with a 500.             *)
(***************************************************************************)
EXTENDS Naturals

CONSTANTS
    Requests,       \* the HTTP requests that may arrive, each handled once
    Seeds,          \* ids of checkouts and carts that exist at the start
    Keys,           \* Idempotency-Key header values
    Items,          \* product ids of the catalog
    MaxQty,         \* bound: units of one item in a checkout or cart
    MaxCrashes,     \* bound: server crashes in a behaviour
    Menu,           \* Menu[p]: what request p may turn out to be
    InitStock,      \* inventory.quantity of each item at the start
    SeedCheckouts,  \* the checkout row of each seed id, or None
    SeedCarts,      \* the cart content of each seed id, or None
    None            \* an absent row, record, body or JSON member

VARIABLES
    checkouts,      \* table checkouts: id -> row
    carts,          \* table carts: id -> line items
    inventory,      \* table inventory: item -> quantity
    orders,         \* table orders: the order minted by request p is orders[p]
    idempotency,    \* table idempotency_records: key -> [hash, body]
    writer,         \* the request that holds the write lock, or None
    req,            \* req[p]: what request p asks for
    pc,             \* pc[p]: where the handler of request p is
    draft,          \* draft[p]: the row or cart content the handler works on
    resp,           \* resp[p]: what request p was answered
    placed,         \* placed[p]: order_placed notifications begun for order p
    crashes         \* server crashes so far

tables == <<checkouts, carts, inventory, orders, idempotency>>
handlers == <<req, pc, draft, resp>>
vars == <<tables, writer, handlers, placed, crashes>>

-----------------------------------------------------------------------------
(* Rows, requests and responses *)

\* A request that creates a session names it: the uuid4 of request p is p.
Ids == Requests \cup Seeds

\* Line items: the units of each item; with `split` an item's units are on two
\* lines of half each.
Lines == [qty : [Items -> 0..MaxQty], split : BOOLEAN]

Terminal == {"completed", "canceled"}
Status == Terminal \cup {"ready_for_complete"}

\* ship: some method has a destination (if it ships) and a selected option.
CheckoutRow ==
    [status : Status, lines : Lines, ship : BOOLEAN,
     cart_id : Ids \cup {None}, order : Requests \cup {None}]

OrderRow == [checkout_id : Ids, lines : Lines]

CheckoutOps ==
    {"create_checkout", "update_checkout", "complete_checkout", "cancel_checkout"}
CartOps == {"create_cart", "update_cart", "cancel_cart"}

\* ship: what the body's fulfillment member does to the row's `ship`.
\* pay: whether the first payment instrument is accepted by its handler.
RequestType ==
    [op : CheckoutOps \cup CartOps, id : Ids \cup {None}, key : Keys,
     cart_id : Ids \cup {None}, lines : Lines \cup {None},
     ship : {"keep", "set", "unset"}, pay : BOOLEAN]

\* Defect: the resource id is left out of the hash.
HashWithoutId(r) ==
    [op |-> r.op, id |-> None, cart_id |-> r.cart_id, lines |-> r.lines,
     ship |-> r.ship, pay |-> r.pay]

\* The identity of a request that its idempotency record keeps.  A checkout
\* operation hashes the operation, the resource id and the body; a cart
\* operation hashes its body alone, whose shape tells the three apart.
Hash(r) ==
    IF r.op \in CheckoutOps
    THEN [op |-> r.op, id |-> r.id, cart_id |-> r.cart_id, lines |-> r.lines,
          ship |-> r.ship, pay |-> r.pay]
    ELSE [op |-> r.op, lines |-> r.lines]

HashType ==
    [op : CheckoutOps, id : Ids \cup {None}, cart_id : Ids \cup {None},
     lines : Lines \cup {None}, ship : {"keep", "set", "unset"}, pay : BOOLEAN]
    \cup [op : CartOps, lines : Lines \cup {None}]

\* A response body: the session's id and its content.
Body == [id : Ids, content : CheckoutRow \cup Lines]
Record == [hash : HashType, body : Body]

Codes == {"ok", "key_conflict", "not_found", "not_modifiable", "out_of_stock",
          "payment_failed", "invalid", "server_error", "lost"}
Response == [code : Codes, body : Body \cup {None}]

ASSUME ConstantsAssumption ==
    /\ MaxQty \in Nat /\ MaxCrashes \in Nat
    /\ None \notin Ids /\ None \notin Lines /\ None \notin CheckoutRow
    /\ None \notin OrderRow /\ None \notin Record /\ None \notin RequestType
    /\ Requests \cap Seeds = {}
    /\ InitStock \in [Items -> Nat]
    /\ Menu \in [Requests -> SUBSET RequestType]
    /\ \A p \in Requests : \A r \in Menu[p] :
          /\ r.op \in {"create_checkout", "create_cart"} <=> r.id = None
          /\ r.op \in {"create_cart", "update_cart"} => r.lines # None
          /\ r.op = "create_checkout" => (r.lines # None <=> r.cart_id = None)
    /\ SeedCheckouts \in [Seeds -> CheckoutRow \cup {None}]
    /\ SeedCarts \in [Seeds -> Lines \cup {None}]
    /\ \A s \in Seeds : SeedCheckouts[s] # None =>
          /\ SeedCheckouts[s].status = "ready_for_complete"
          /\ SeedCheckouts[s].order = None

\* The id a request works on: a create names a new session after itself.
Target(p) == IF req[p].id = None THEN p ELSE req[p].id

-----------------------------------------------------------------------------
(* Steps every handler is made of *)

At(p, label) == pc[p] = label
Go(p, label) == pc' = [pc EXCEPT ![p] = label]

\* The handler returns or raises, and its session is closed.
Answer(p, code, body) ==
    /\ Go(p, "done")
    /\ resp' = [resp EXCEPT ![p] = [code |-> code, body |-> body]]
    /\ draft' = [draft EXCEPT ![p] = None]
    /\ UNCHANGED req

\* Defect: the write lock is shared.
AcquireAnyway(p) == writer' = p

LockFree == writer = None
Acquire(p) == writer = None /\ writer' = p
Release(p) == writer = p /\ writer' = None

KeyFree(p) == idempotency[req[p].key] = None

\* Defect: a replay is built from the checkout as it is now.
AnswerFromCurrentRow(p) ==
    LET record == idempotency[req[p].key] IN
    /\ record # None
    /\ \/ /\ record.hash = Hash(req[p])
          /\ Answer(p, "ok", [record.body EXCEPT !.content = checkouts[record.body.id]])
       \/ record.hash # Hash(req[p]) /\ Answer(p, "key_conflict", None)

\* The key is already stored: the same request gets the stored body, another
\* one a 409.
AnswerFromRecord(p) ==
    LET record == idempotency[req[p].key] IN
    /\ record # None
    /\ \/ record.hash = Hash(req[p]) /\ Answer(p, "ok", record.body)
       \/ record.hash # Hash(req[p]) /\ Answer(p, "key_conflict", None)

\* The idempotency record of request p is inserted with its response.
SaveRecord(p, body) ==
    idempotency' = [idempotency EXCEPT
        ![req[p].key] = [hash |-> Hash(req[p]), body |-> body]]

\* Request p arrives; its handler is about to look its key up.
Arrive(p) ==
    /\ At(p, "idle")
    /\ \E r \in Menu[p] : req' = [req EXCEPT ![p] = r]
    /\ Go(p, "lookup")
    /\ UNCHANGED <<tables, writer, draft, resp, placed, crashes>>

\* The handler's first await: the key has a record, and that answers.
LookupHit(p) ==
    /\ At(p, "lookup")
    /\ AnswerFromRecord(p)
    /\ UNCHANGED <<tables, writer, placed, crashes>>

\* Defect: the loser of a race announces as if it had won.
LoseRaceAnnounced(p) ==
    /\ AnswerFromRecord(p)
    /\ placed' = [placed EXCEPT ![p] = @ + 1]
    /\ UNCHANGED <<tables, crashes>>

\* commit_with_idempotency, lost: the insert of the key collides, the session
\* is rolled back and the winner's record answers.
LoseRace(p) ==
    /\ AnswerFromRecord(p)
    /\ UNCHANGED <<tables, placed, crashes>>

\* Handlers that need the write lock next, without holding it.
Waiting == {"begin", "insert", "insert_cart", "overwrite_cart", "delete_cart", "keep_cart"}

\* SQLite's busy timeout: another request has held the lock for too long.
LockTimeout(p) ==
    /\ pc[p] \in Waiting
    /\ writer \notin {None, p}
    /\ Answer(p, "server_error", None)
    /\ UNCHANGED <<tables, writer, placed, crashes>>

\* The process dies: every open transaction is rolled back, every request in
\* flight is lost, and the tables keep what was committed.
Crash ==
    /\ crashes < MaxCrashes
    /\ \E p \in Requests : pc[p] \notin {"idle", "done"}
    /\ LET InFlight == {p \in Requests : pc[p] \notin {"idle", "done"}} IN
       /\ pc' = [p \in Requests |-> IF p \in InFlight THEN "done" ELSE pc[p]]
       /\ resp' = [p \in Requests |->
            IF p \in InFlight THEN [code |-> "lost", body |-> None] ELSE resp[p]]
       /\ draft' = [p \in Requests |-> IF p \in InFlight THEN None ELSE draft[p]]
    /\ writer' = None
    /\ crashes' = crashes + 1
    /\ UNCHANGED <<tables, req, placed>>

Init ==
    /\ checkouts = [i \in Ids |-> IF i \in Seeds THEN SeedCheckouts[i] ELSE None]
    /\ carts = [i \in Ids |-> IF i \in Seeds THEN SeedCarts[i] ELSE None]
    /\ inventory = InitStock
    /\ orders = [p \in Requests |-> None]
    /\ idempotency = [k \in Keys |-> None]
    /\ writer = None
    /\ req = [p \in Requests |-> None]
    /\ pc = [p \in Requests |-> "idle"]
    /\ draft = [p \in Requests |-> None]
    /\ resp = [p \in Requests |-> None]
    /\ placed = [p \in Requests |-> 0]
    /\ crashes = 0
=============================================================================
