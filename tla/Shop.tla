-------------------------------- MODULE Shop --------------------------------
(***************************************************************************)
(* What the golden merchant promises about checkouts, stock and orders,    *)
(* with no requests, keys, locks or crashes: every operation is one step,  *)
(* a sale moves the units of one checkout into one order, and a checkout   *)
(* that was completed or canceled stays as it is.                          *)
(***************************************************************************)
EXTENDS Naturals

CONSTANTS Ids, OrderIds, Items, CheckoutRow, InitStock, SeedRows, None

VARIABLES checkouts, inventory, orders

shop == <<checkouts, inventory, orders>>

Open(row) == row # None /\ row.status = "ready_for_complete"

\* Checkout c gets some content in this step; no other checkout changes.
Rewrite(c) ==
    /\ checkouts'[c] \in CheckoutRow
    /\ Open(checkouts'[c]) /\ checkouts'[c].order = None
    /\ checkouts' = [checkouts EXCEPT ![c] = checkouts'[c]]

Create(c) ==
    /\ checkouts[c] = None
    /\ Rewrite(c)
    /\ UNCHANGED <<inventory, orders>>

\* An open checkout is changed and stays open, and keeps its cart.
Update(c) ==
    /\ Open(checkouts[c])
    /\ Rewrite(c)
    /\ checkouts'[c].cart_id = checkouts[c].cart_id
    /\ UNCHANGED <<inventory, orders>>

Cancel(c) ==
    /\ Open(checkouts[c])
    /\ checkouts' = [checkouts EXCEPT ![c].status = "canceled"]
    /\ UNCHANGED <<inventory, orders>>

\* The whole checkout is sold, out of stock that is there, as a new order.
Complete(c, o) ==
    /\ Open(checkouts[c]) /\ checkouts[c].ship
    /\ orders[o] = None
    /\ \A i \in Items : checkouts[c].lines.qty[i] <= inventory[i]
    /\ inventory' = [i \in Items |-> inventory[i] - checkouts[c].lines.qty[i]]
    /\ orders' = [orders EXCEPT
         ![o] = [checkout_id |-> c, lines |-> checkouts[c].lines]]
    /\ checkouts' = [checkouts EXCEPT ![c].status = "completed", ![c].order = o]

ShopInit ==
    /\ checkouts = SeedRows
    /\ inventory = InitStock
    /\ orders = [o \in OrderIds |-> None]

ShopNext ==
    \E c \in Ids :
        \/ Create(c) \/ Update(c) \/ Cancel(c)
        \/ \E o \in OrderIds : Complete(c, o)

ShopSpec == ShopInit /\ [][ShopNext]_shop
=============================================================================
