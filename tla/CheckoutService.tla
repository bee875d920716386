--------------------------- MODULE CheckoutService ---------------------------
(***************************************************************************)
(* The checkout operations of the golden merchant                          *)
(* (services/checkout_service.py), await by await.                         *)
(*                                                                         *)
(* update, complete and cancel stage a request_logs row before they read   *)
(* the checkout; the read flushes it, so from that read on they hold the   *)
(* write lock.  create writes nothing before its commit.                   *)
(***************************************************************************)
EXTENDS GoldenDb

\* _validate_inventory looks at each line alone, against the current stock.
LargestLine(lines, i) ==
    IF lines.split THEN (lines.qty[i] + 1) \div 2 ELSE lines.qty[i]
EveryLineInStock(lines) == \A i \in Items : LargestLine(lines, i) <= inventory[i]

\* reserve_stock for line after line: the conditional UPDATEs add up.
Reservable(lines) == \A i \in Items : lines.qty[i] <= inventory[i]
\* Defect: nothing is taken from stock.
StockUntouched(lines) == inventory

StockAfter(lines) == [i \in Items |-> inventory[i] - lines.qty[i]]

Ship(body, before) == body = "set" \/ (body = "keep" /\ before)

NewCheckout(r, lines) ==
    [status |-> "ready_for_complete", lines |-> lines, ship |-> Ship(r.ship, FALSE),
     cart_id |-> r.cart_id, order |-> None]

UpdatedCheckout(r, row) ==
    [row EXCEPT !.lines = IF r.lines = None THEN @ ELSE r.lines,
                !.ship = Ship(r.ship, @)]

CompletedCheckout(row, o) == [row EXCEPT !.status = "completed", !.order = o]
CanceledCheckout(row) == [row EXCEPT !.status = "canceled"]

\* Defect: the row is committed and the record of the key is not.
StoreWithoutRecord(p, id, row) ==
    /\ checkouts' = [checkouts EXCEPT ![id] = row]
    /\ UNCHANGED idempotency

\* save_checkout and the record of the key, in the commit of request p.
Store(p, id, row) ==
    /\ checkouts' = [checkouts EXCEPT ![id] = row]
    /\ SaveRecord(p, [id |-> id, content |-> row])

-----------------------------------------------------------------------------
(* create_checkout *)

LookupCreate(p) ==
    /\ At(p, "lookup") /\ req[p].op = "create_checkout" /\ KeyFree(p)
    /\ IF req[p].cart_id = None
       THEN /\ draft' = [draft EXCEPT ![p] = NewCheckout(req[p], req[p].lines)]
            /\ Go(p, "validate")
       ELSE Go(p, "find") /\ UNCHANGED draft
    /\ UNCHANGED <<tables, writer, req, resp, placed, crashes>>

\* Defect: open checkouts of any cart.
OpenCheckoutsOfAny(cart) ==
    {c \in Ids : /\ checkouts[c] # None
                 /\ checkouts[c].cart_id # None
                 /\ checkouts[c].status \notin Terminal}

\* get_checkouts_by_cart_id, and the checkouts of the cart still open in it.
OpenCheckouts(cart) ==
    {c \in Ids : /\ checkouts[c] # None
                 /\ checkouts[c].cart_id = cart
                 /\ checkouts[c].status \notin Terminal}

\* An open checkout of the cart is returned, and the key is not recorded.
ReturnExisting(p) ==
    /\ At(p, "find")
    /\ \E c \in OpenCheckouts(req[p].cart_id) :
          Answer(p, "ok", [id |-> c, content |-> checkouts[c]])
    /\ UNCHANGED <<tables, writer, placed, crashes>>

FindNone(p) ==
    /\ At(p, "find")
    /\ OpenCheckouts(req[p].cart_id) = {}
    /\ Go(p, "load_cart")
    /\ UNCHANGED <<tables, writer, req, draft, resp, placed, crashes>>

LoadCart(p) ==
    /\ At(p, "load_cart")
    /\ LET lines == carts[req[p].cart_id] IN
       IF lines = None THEN Answer(p, "not_found", None)
       ELSE /\ draft' = [draft EXCEPT ![p] = NewCheckout(req[p], lines)]
            /\ Go(p, "validate")
            /\ UNCHANGED <<req, resp>>
    /\ UNCHANGED <<tables, writer, placed, crashes>>

ValidateCreate(p) ==
    /\ At(p, "validate")
    /\ IF EveryLineInStock(draft[p].lines)
       THEN Go(p, "insert") /\ UNCHANGED <<req, draft, resp>>
       ELSE Answer(p, "out_of_stock", None)
    /\ UNCHANGED <<tables, writer, placed, crashes>>

InsertCheckout(p) ==
    /\ At(p, "insert") /\ LockFree /\ KeyFree(p)
    /\ Store(p, p, draft[p])
    /\ Answer(p, "ok", [id |-> p, content |-> draft[p]])
    /\ UNCHANGED <<carts, inventory, orders, writer, placed, crashes>>

InsertCheckoutRaced(p) ==
    /\ At(p, "insert") /\ LockFree
    /\ LoseRace(p)
    /\ UNCHANGED writer

-----------------------------------------------------------------------------
(* The common prefix of update_checkout, complete_checkout, cancel_checkout *)

LockedOps == {"update_checkout", "complete_checkout", "cancel_checkout"}

LookupLocked(p) ==
    /\ At(p, "lookup") /\ req[p].op \in LockedOps /\ KeyFree(p)
    /\ Go(p, "begin")
    /\ UNCHANGED <<tables, writer, req, draft, resp, placed, crashes>>

\* The log row takes the lock; the checkout is read under it.
ReadOpenCheckout(p) ==
    /\ At(p, "begin")
    /\ LET row == checkouts[req[p].id] IN
       /\ row # None
       /\ row.status \notin Terminal
       /\ draft' = [draft EXCEPT ![p] = row]
    /\ Acquire(p)
    /\ Go(p, "work")
    /\ UNCHANGED <<tables, req, resp, placed, crashes>>

\* 404, or the guard _ensure_modifiable; the session closes, the lock with it.
RefuseCheckout(p) ==
    /\ At(p, "begin") /\ LockFree
    /\ LET row == checkouts[req[p].id] IN
       \/ row = None /\ Answer(p, "not_found", None)
       \/ /\ row # None
          /\ row.status \in Terminal
          /\ Answer(p, "not_modifiable", None)
    /\ UNCHANGED <<tables, writer, placed, crashes>>

Working(p, op) == At(p, "work") /\ req[p].op = op

-----------------------------------------------------------------------------
(* update_checkout and cancel_checkout under the lock *)

UpdateCheckout(p) ==
    LET row == UpdatedCheckout(req[p], draft[p]) IN
    /\ Working(p, "update_checkout")
    /\ EveryLineInStock(row.lines)
    /\ KeyFree(p)
    /\ Release(p)
    /\ Store(p, req[p].id, row)
    /\ Answer(p, "ok", [id |-> req[p].id, content |-> row])
    /\ UNCHANGED <<carts, inventory, orders, placed, crashes>>

UpdateOutOfStock(p) ==
    /\ Working(p, "update_checkout")
    /\ ~EveryLineInStock(UpdatedCheckout(req[p], draft[p]).lines)
    /\ Release(p)
    /\ Answer(p, "out_of_stock", None)
    /\ UNCHANGED <<tables, placed, crashes>>

CancelCheckout(p) ==
    LET row == CanceledCheckout(draft[p]) IN
    /\ Working(p, "cancel_checkout")
    /\ KeyFree(p)
    /\ Release(p)
    /\ Store(p, req[p].id, row)
    /\ Answer(p, "ok", [id |-> req[p].id, content |-> row])
    /\ UNCHANGED <<carts, inventory, orders, placed, crashes>>

-----------------------------------------------------------------------------
(* complete_checkout under the lock *)

Payable(p) == req[p].pay
Deliverable(p) == draft[p].ship

\* Defect: the refused transaction is left open.
RefuseCompletionLocked(p) ==
    /\ Working(p, "complete_checkout")
    /\ \/ ~Payable(p) /\ Answer(p, "payment_failed", None)
       \/ Payable(p) /\ ~Deliverable(p) /\ Answer(p, "invalid", None)
    /\ UNCHANGED <<tables, writer, placed, crashes>>

\* _process_payment and the fulfillment check come first, in this order.
RefuseCompletion(p) ==
    /\ Working(p, "complete_checkout")
    /\ Release(p)
    /\ \/ ~Payable(p) /\ Answer(p, "payment_failed", None)
       \/ Payable(p) /\ ~Deliverable(p) /\ Answer(p, "invalid", None)
    /\ UNCHANGED <<tables, placed, crashes>>

\* Defect: the lines reserved before the one that failed stay reserved.
ReservationFailsHalfway(p) ==
    /\ Working(p, "complete_checkout") /\ Payable(p) /\ Deliverable(p)
    /\ ~Reservable(draft[p].lines)
    /\ Release(p)
    /\ inventory' = [i \in Items |->
         inventory[i] - (IF draft[p].lines.qty[i] <= inventory[i]
                         THEN draft[p].lines.qty[i] ELSE 0)]
    /\ Answer(p, "out_of_stock", None)
    /\ UNCHANGED <<checkouts, carts, orders, idempotency, placed, crashes>>

\* A line could not be reserved: what earlier lines took is rolled back.
ReservationFails(p) ==
    /\ Working(p, "complete_checkout") /\ Payable(p) /\ Deliverable(p)
    /\ ~Reservable(draft[p].lines)
    /\ Release(p)
    /\ Answer(p, "out_of_stock", None)
    /\ UNCHANGED <<tables, placed, crashes>>

\* Stock, order, checkout, cart and key record in one commit; the order is
\* announced after it.
CompleteCheckout(p) ==
    LET row == CompletedCheckout(draft[p], p) IN
    /\ Working(p, "complete_checkout") /\ Payable(p) /\ Deliverable(p)
    /\ Reservable(draft[p].lines)
    /\ KeyFree(p)
    /\ Release(p)
    /\ inventory' = StockAfter(draft[p].lines)
    /\ orders' = [orders EXCEPT
         ![p] = [checkout_id |-> req[p].id, lines |-> draft[p].lines]]
    /\ Store(p, req[p].id, row)
    /\ carts' = IF row.cart_id = None THEN carts
                ELSE [carts EXCEPT ![row.cart_id] = None]
    /\ draft' = [draft EXCEPT ![p] = row]
    /\ Go(p, "notify")
    /\ UNCHANGED <<req, resp, placed, crashes>>

\* Defect: the order is sold and nobody is told.
NotifyNobody(p) ==
    /\ At(p, "notify")
    /\ Answer(p, "ok", [id |-> req[p].id, content |-> draft[p]])
    /\ UNCHANGED <<tables, writer, placed, crashes>>

\* _notify_webhook(checkout, "order_placed"), then the response.
NotifyPlaced(p) ==
    /\ At(p, "notify")
    /\ placed' = [placed EXCEPT ![p] = @ + 1]
    /\ Answer(p, "ok", [id |-> req[p].id, content |-> draft[p]])
    /\ UNCHANGED <<tables, writer, crashes>>

\* The key was recorded by another request since the lookup: the whole
\* transaction is undone.
WorkRaced(p) ==
    /\ At(p, "work")
    /\ \/ req[p].op = "cancel_checkout"
       \/ /\ req[p].op = "update_checkout"
          /\ EveryLineInStock(UpdatedCheckout(req[p], draft[p]).lines)
       \/ /\ req[p].op = "complete_checkout"
          /\ Payable(p) /\ Deliverable(p) /\ Reservable(draft[p].lines)
    /\ Release(p)
    /\ LoseRace(p)

CheckoutStep(p) ==
    \/ LookupCreate(p) \/ ReturnExisting(p) \/ FindNone(p) \/ LoadCart(p)
    \/ ValidateCreate(p) \/ InsertCheckout(p) \/ InsertCheckoutRaced(p)
    \/ LookupLocked(p) \/ ReadOpenCheckout(p) \/ RefuseCheckout(p)
    \/ UpdateCheckout(p) \/ UpdateOutOfStock(p) \/ CancelCheckout(p)
    \/ RefuseCompletion(p) \/ ReservationFails(p) \/ CompleteCheckout(p)
    \/ NotifyPlaced(p) \/ WorkRaced(p)
=============================================================================
