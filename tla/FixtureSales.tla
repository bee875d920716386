---------------------------- MODULE FixtureSales -----------------------------
(***************************************************************************)
(* Carts, their checkouts and their orders in one server: a completion     *)
(* closes a checkout and places an order.                                  *)
(***************************************************************************)
EXTENDS FixtureCarts, FixtureOrders

CONSTANT Menu       \* Menu[t]: the requests thread t may be sent

\* A completion whose payment needs an escalation has an operation of its own.
CheckoutRequest == [op : {"complete", "escalate", "abandon"}, checkout : Checkouts]

ASSUME SalesAssumption ==
    Menu \in [Threads -> SUBSET (CartRequest \cup OrderRequest \cup CheckoutRequest)]

cartState == <<carts, idem, sessions>>
vars == <<cartState, tables, delivery, pc, req, local, resp, heard>>

\* Ids are random: they are known from answers and events.  A thread's own name
\* stands for an id that nobody has.
Known(t) ==
    {t} \cup Answered \cup CartSeeds \cup CheckoutSeeds \cup OrderSeeds
        \cup {inbox[i].event : i \in DOMAIN inbox}

Named(r) ==
    CASE r.op = "create" -> {}
      [] r.op \in {"complete", "escalate", "abandon"} -> {r.checkout}
      [] r.op \in {"get_order", "adjust", "fulfill"} -> {r.order}
      [] OTHER -> {r.cart}

\* The older versions have no carts.
Served(r) ==
    r.op \in {"create", "update", "get_cart", "cancel", "convert"} => version = "04-08"

Arrive(t) ==
    /\ \E r \in Menu[t] : Named(r) \subseteq Known(t) /\ Served(r) /\ Begin(t, r)
    /\ UNCHANGED <<cartState, tables, delivery>>

Status(k) == IF checkouts[k] = None THEN None ELSE checkouts[k].status
SetStatus(k, status) == checkouts' = [checkouts EXCEPT ![k].status = status]

\* complete_checkout, cancel_checkout: the status is tested without the lock
\* (FixtureMerchant has the rest of both).  A canceled one may be canceled again.
Refused(op) ==
    {None, "completed"} \cup (IF op = "abandon" THEN {} ELSE {"canceled"})

TestStatus(t) ==
    LET refused == Status(req[t].checkout) \in Refused(req[t].op) IN
    /\ pc[t] \in {"complete", "escalate", "abandon"}
    /\ \/ refused /\ Answer(t, "refused", None)
       \/ ~refused /\ At(t, "complete") /\ Go(t, "place")
       \/ ~refused /\ At(t, "escalate") /\ Go(t, "reopen")
       \/ ~refused /\ At(t, "abandon") /\ Go(t, "close")
    /\ UNCHANGED <<cartState, tables, delivery, local>>

\* Under the lock: the order and the status.
Place(t) ==
    /\ At(t, "place") /\ lock = None
    /\ orders' = [orders EXCEPT ![t] = NewOrder]
    /\ SetStatus(req[t].checkout, "completed")
    /\ Announce(t)
    /\ UNCHANGED <<carts, idem, link, version, lock, delivery, local>>

\* Under the lock, but without another test: a checkout that was completed or
\* canceled meanwhile is open again.
Reopen(t) ==
    /\ At(t, "reopen") /\ lock = None
    /\ SetStatus(req[t].checkout, "open")
    /\ Answer(t, "ok", req[t].checkout)
    /\ UNCHANGED <<carts, idem, link, tables, delivery, local>>

Abandon(t) ==
    /\ At(t, "close") /\ SetStatus(req[t].checkout, "canceled")
    /\ Answer(t, "ok", req[t].checkout)
    /\ UNCHANGED <<carts, idem, link, tables, delivery, local>>

Step(t) ==
    \/ CartStep(t) /\ UNCHANGED <<tables, delivery>>
    \/ OrderStep(t) /\ UNCHANGED cartState
    \/ TestStatus(t) \/ Place(t) \/ Reopen(t) \/ Abandon(t)

Deliver(t) == Retry(t) /\ UNCHANGED cartState

Settled == Answered = Threads /\ retrying = {} /\ UNCHANGED vars

Init == ThreadsInit /\ CartsInit /\ OrdersInit

Next ==
    \/ \E t \in Threads : Arrive(t) \/ Step(t) \/ Deliver(t)
    \/ Settled

Spec == Init /\ [][Next]_vars

-----------------------------------------------------------------------------
(* Properties *)

\* The requests that have completed or canceled a checkout.
Closers(k) ==
    {v \in Threads :
        /\ pc[v] # "idle" /\ req[v].op \in {"complete", "abandon"} /\ req[v].checkout = k
        /\ orders[v] # None \/ resp[v].code = "ok"}

\* CART-002: who converts a cart of which a conversion was answered before makes
\* a second checkout only if a checkout of the cart has been closed, by a request
\* that did not wait for the second one - were it open again by now.
OpenConversionIsReused ==
    \A k \in Checkouts : \A u \in Threads \ {k} :
        Made(k) /\ Made(u) /\ SameCart(k, u) /\ k \in heard[u] \cup CheckoutSeeds =>
            \E x \in Checkouts \ {u} :
                Made(x) /\ SameCart(x, u) /\ \E v \in Closers(x) : u \notin heard[v]
=============================================================================
