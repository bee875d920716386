---------------------------- MODULE GoldenServer ----------------------------
(***************************************************************************)
(* The golden 2026-08-25 merchant: checkout and cart operations of         *)
(* concurrent requests over one database, with lock timeouts and crashes.  *)
(***************************************************************************)
EXTENDS CheckoutService, CartService, FiniteSets

\* What the event loop and the database keep running.
Step(p) == LookupHit(p) \/ CheckoutStep(p) \/ CartStep(p)

\* Every request that may arrive has been handled.
Quiescent == (\A p \in Requests : At(p, "done")) /\ UNCHANGED vars

Next ==
    \/ \E p \in Requests : Arrive(p) \/ LockTimeout(p) \/ Step(p)
    \/ Crash
    \/ Quiescent

Spec == Init /\ [][Next]_vars

\* The server never stops on a request that could go on.  Nothing makes a
\* client send a request, the lock time out or the process crash.
FairSpec == Spec /\ \A p \in Requests : WF_vars(Step(p))

-----------------------------------------------------------------------------
(* Invariants *)

Labels == {"idle", "lookup", "find", "load_cart", "validate", "begin", "work",
           "notify", "read_cart", "stage_cart", "done"} \cup Waiting

\* What a handler carries from one await to the next, label by label.
CarriedOK(p) ==
    /\ pc[p] # "idle" => req[p] \in Menu[p]
    /\ pc[p] \in {"find", "load_cart"} =>
         req[p].op = "create_checkout" /\ req[p].cart_id # None
    /\ pc[p] \in {"validate", "insert"} =>
         /\ req[p].op = "create_checkout"
         /\ draft[p] \in CheckoutRow
         /\ draft[p].status = "ready_for_complete" /\ draft[p].order = None
    /\ pc[p] = "begin" => req[p].op \in LockedOps
    /\ pc[p] = "work" =>
         /\ req[p].op \in LockedOps
         /\ draft[p] \in CheckoutRow /\ draft[p].status \notin Terminal
    /\ pc[p] = "notify" => req[p].op \in LockedOps /\ draft[p] \in CheckoutRow
    /\ pc[p] = "read_cart" => req[p].op \in {"update_cart", "cancel_cart"}
    /\ pc[p] \in {"stage_cart"} \cup CartCommits =>
         req[p].op \in CartOps /\ draft[p] \in Lines

TablesOK ==
    /\ checkouts \in [Ids -> CheckoutRow \cup {None}]
    /\ carts \in [Ids -> Lines \cup {None}]
    /\ inventory \in [Items -> Nat]
    /\ orders \in [Requests -> OrderRow \cup {None}]
    /\ idempotency \in [Keys -> Record \cup {None}]

HandlersOK ==
    /\ req \in [Requests -> RequestType \cup {None}]
    /\ pc \in [Requests -> Labels]
    /\ draft \in [Requests -> CheckoutRow \cup Lines \cup {None}]
    /\ resp \in [Requests -> Response \cup {None}]
    /\ \A p \in Requests : CarriedOK(p)

\* Tables hold rows of their types, and what a handler carries has the type
\* of the operation it serves.
TypeOK ==
    /\ TablesOK
    /\ HandlersOK
    /\ writer \in Requests \cup {None}
    /\ placed \in [Requests -> Nat]
    /\ crashes \in Nat

\* A handler between its read of the checkout and its commit holds the lock,
\* and the row it works on is still the row in the table.
NoStaleWork ==
    \A p \in Requests : At(p, "work") =>
        writer = p /\ draft[p] = checkouts[req[p].id]

\* The units of item i that orders hold, each named by its order and a number.
SoldUnits(i) ==
    {u \in Requests \X (1..MaxQty) :
        orders[u[1]] # None /\ u[2] <= orders[u[1]].lines.qty[i]}

UnitsSold(i) == Cardinality(SoldUnits(i))

\* No unit of stock is sold twice, lost or taken without an order: what
\* reserve_stock took is what the committed orders hold.
StockConserved == \A i \in Items : InitStock[i] = inventory[i] + UnitsSold(i)

\* A checkout has an order exactly when it is completed; the order has the
\* checkout's lines, and no second order names the checkout.
OrderMatchesCheckout ==
    /\ \A c \in Ids : checkouts[c] # None =>
        /\ checkouts[c].status = "completed" <=> checkouts[c].order # None
        /\ checkouts[c].order # None =>
             orders[checkouts[c].order] =
                [checkout_id |-> c, lines |-> checkouts[c].lines]
    /\ \A o \in Requests : orders[o] # None =>
        /\ checkouts[orders[o].checkout_id] # None
        /\ checkouts[orders[o].checkout_id].order = o

\* Nothing of a request is in the tables before its own commit: its order is
\* minted on the way to "notify", its checkout with its answer.
NothingAhead ==
    \A p \in Requests :
        /\ pc[p] \notin {"notify", "done"} => orders[p] = None
        /\ pc[p] # "done" => checkouts[p] = None

\* An effect and the record of its key are committed together: whatever
\* request p created or sold, the record of p's key answers with it.  Two
\* requests with one key therefore never both create, or both sell.
EffectRecorded(p) ==
    /\ orders[p] # None =>
         /\ req[p] # None /\ ~KeyFree(p)
         /\ idempotency[req[p].key].body =
              [id |-> orders[p].checkout_id,
               content |-> checkouts[orders[p].checkout_id]]
    /\ checkouts[p] # None =>
         /\ req[p] # None /\ ~KeyFree(p)
         /\ idempotency[req[p].key].hash = Hash(req[p])
         /\ idempotency[req[p].key].body.id = p

EffectHasRecord == \A p \in Requests : EffectRecorded(p)

\* Of any interleaving of lookups, lock, commits and crashes: the tables hold
\* what they may, what the holder of the lock works on is not stale, an order and
\* its checkout name each other, and nothing is there before its commit.  It is
\* the inductive invariant of the proofs.
Consistent == TypeOK /\ NoStaleWork /\ OrderMatchesCheckout /\ NothingAhead

\* order_placed is announced only for an order that is in the table, and at
\* most once for an order however often its completion is repeated.
AnnouncedOnce ==
    \A p \in Requests :
        /\ placed[p] <= 1
        /\ placed[p] > 0 => orders[p] # None

Answered(p, code) == resp[p] # None /\ resp[p].code = code

\* Requests p and q are the same request under the same key.
Retry(p, q) == req[p] # None /\ req[p] = req[q]

FromCart(p) == req[p].op = "create_checkout" /\ req[p].cart_id # None

\* Whenever two requests with the same key and the same bytes are both
\* answered 2xx, they are answered with the same body (create from a cart
\* apart: returning an open checkout stores no record).
RetriesAgree ==
    \A p, q \in Requests :
        Retry(p, q) /\ Answered(p, "ok") /\ Answered(q, "ok") /\ ~FromCart(p)
            => resp[p].body = resp[q].body

\* What a 2xx says of a checkout is about that checkout, and what a 2xx to a
\* complete or a cancel says stays true, however late or often it is given.
FinalStatus(op) == IF op = "complete_checkout" THEN "completed" ELSE "canceled"
AnswersHold ==
    \A p \in Requests :
        Answered(p, "ok") /\ req[p].op \in LockedOps =>
            /\ resp[p].body.id = req[p].id
            /\ req[p].op # "update_checkout" =>
                 /\ checkouts[req[p].id] = resp[p].body.content
                 /\ checkouts[req[p].id].status = FinalStatus(req[p].op)

\* The same, of what the record of a key will answer.
RecordHolds(k) ==
    LET hash == idempotency[k].hash
        body == idempotency[k].body IN
    idempotency[k] # None /\ hash.op \in LockedOps =>
        /\ body.id = hash.id
        /\ hash.op # "update_checkout" =>
             /\ checkouts[hash.id] = body.content
             /\ checkouts[hash.id].status = FinalStatus(hash.op)

RecordsHold == \A k \in Keys : RecordHolds(k)

\* The record of p's key is p's and has this body.
RecordedAs(p, body) ==
    /\ req[p] # None /\ ~KeyFree(p)
    /\ idempotency[req[p].key].hash = Hash(req[p])
    /\ idempotency[req[p].key].body = body

\* An answer 2xx comes last, and is in the record of its key before.
AnswerRecorded(p) ==
    /\ Answered(p, "ok") => At(p, "done")
    /\ Answered(p, "ok") /\ ~FromCart(p) => RecordedAs(p, resp[p].body)
    /\ At(p, "notify") =>
         RecordedAs(p, [id |-> req[p].id, content |-> draft[p]])

AnswersRecorded == \A p \in Requests : AnswerRecorded(p)

\* The order of a handler that still has to announce it is there, and nobody
\* announces twice.
AnnouncedInTime ==
    \A p \in Requests :
        /\ At(p, "notify") => orders[p] # None
        /\ ~At(p, "done") => placed[p] = 0

\* A conversion answers with a checkout of the cart it names, whether it made
\* one, found one open, or is answered from a record.
ConversionNamesItsCart ==
    \A p \in Requests :
        Answered(p, "ok") /\ FromCart(p) =>
            /\ checkouts[resp[p].body.id] # None
            /\ checkouts[resp[p].body.id].cart_id = req[p].cart_id

-----------------------------------------------------------------------------
(* What steps may do, and what must happen *)

TheShop == INSTANCE Shop WITH
    OrderIds <- Requests,
    SeedRows <- [i \in Ids |-> IF i \in Seeds THEN SeedCheckouts[i] ELSE None]

\* The server implements the atomic shop: no interleaving, timeout or crash
\* shows in checkouts, stock and orders as anything but whole operations.
ImplementsShop == TheShop!ShopSpec

\* A completed or canceled checkout never changes again (I2 of
\* seq_invariants.py).
TerminalIsFinal ==
    [][\A c \in Ids : checkouts[c] # None /\ checkouts[c].status \in Terminal
          => checkouts'[c] = checkouts[c]]_vars

\* The tables of the shop change only together with a new key record, and a
\* record once stored is never replaced: every change can be replayed.
NoUnrecordedChange ==
    [][/\ <<checkouts, carts, inventory, orders>>'
             # <<checkouts, carts, inventory, orders>>
          => \E k \in Keys : idempotency[k] = None /\ idempotency'[k] # None
       /\ \A k \in Keys : idempotency[k] # None => idempotency'[k] = idempotency[k]]_vars

\* Every request that arrives is answered: no handler waits forever for the
\* lock or keeps it.
EveryRequestAnswered ==
    \A p \in Requests : At(p, "lookup") ~> At(p, "done")

\* Without a crash, every order sold is announced.
EveryOrderAnnounced ==
    \A p \in Requests : orders[p] # None ~> placed[p] = 1 \/ crashes > 0
=============================================================================
