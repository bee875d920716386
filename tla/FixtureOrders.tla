---------------------------- MODULE FixtureOrders ----------------------------
(***************************************************************************)
(* The orders of the fixture merchant after their sale, in the older and   *)
(* in the 2026-04-08 mode: adjustments, fulfillments, readers without the  *)
(* lock, and order events.  The first attempt to deliver an event is made  *)
(* by the thread of its request, the others by a thread in the background. *)
(***************************************************************************)
EXTENDS Integers, FiniteSets, Sequences, FixtureThreads

CONSTANTS
    OrderSeeds, \* orders that exist at the start
    Quantity,   \* units ordered of an order's line
    Subscribed, \* orders whose checkout has a webhook url
    Retries,    \* len(WEBHOOK_RETRY_DELAYS)
    Versions    \* protocol versions the server may run in

Orders == Threads \cup OrderSeeds

OrderRequest ==
    [op : {"get_order"}, order : Orders]
    \cup [op : {"adjust", "fulfill"}, order : Orders, qty : 1..Quantity]

ASSUME OrdersAssumption ==
    /\ Threads \cap OrderSeeds = {} /\ None \notin Orders
    /\ Quantity \in Nat \ {0} /\ Retries \in Nat
    /\ Subscribed \subseteq Orders
    /\ Versions \subseteq {"01-era", "04-08"}

\* A row of ORDERS: its one line, its status and its logs.  A log entry is named
\* after the request that appended it.
Order == [total : Int, fulfilled : Int,
          status : {"processing", "partial", "fulfilled", "removed"},
          adjustments : SUBSET Threads, events : SUBSET Threads]

ASSUME OrderAssumption == None \notin Order

VARIABLES
    version,        \* VERSION
    orders,         \* ORDERS
    lock,           \* who holds _LOCK over several steps
    tries,          \* attempts made to deliver a request's event
    retrying,       \* the requests whose event is retried in the background
    inbox           \* what has reached the platform, in this order

tables == <<version, orders, lock>>
delivery == <<tries, retrying, inbox>>

NewOrder ==
    [total |-> Quantity, fulfilled |-> 0, status |-> "processing",
     adjustments |-> {}, events |-> {}]

OrdersInit ==
    /\ version \in Versions
    /\ orders = [o \in Orders |-> IF o \in OrderSeeds THEN NewOrder ELSE None]
    /\ lock = None
    /\ tries = [t \in Threads |-> 0]
    /\ retrying = {} /\ inbox = << >>

Target(t) == req[t].order
\* The order a request's event is about; a placed one has the request's name.
Own(t) == IF req[t].op = "complete" THEN t ELSE Target(t)

-----------------------------------------------------------------------------
(* Operations *)

Announce(t) == Go(t, IF Own(t) \in Subscribed THEN "serialize" ELSE "answer")

\* The bound on the quantity is tested without the lock.
Bound(t) ==
    IF req[t].op = "adjust" THEN orders[Target(t)].total
    ELSE orders[Target(t)].total - orders[Target(t)].fulfilled

Routed(t) ==
    orders[Target(t)] # None /\ (req[t].op = "fulfill" => version # "04-08")

Check(t) ==
    /\ pc[t] \in {"adjust", "fulfill"}
    /\ \/ ~Routed(t) /\ Answer(t, "not_found", None) /\ UNCHANGED local
       \/ Routed(t) /\ req[t].qty > Bound(t)
          /\ Answer(t, "invalid", None) /\ UNCHANGED local
       \/ Routed(t) /\ req[t].qty <= Bound(t)
          /\ Go(t, IF req[t].op = "fulfill" THEN "log_event"
                   ELSE IF version = "04-08" THEN "reduce" ELSE "append")
          /\ Read(t, orders[Target(t)])
    /\ UNCHANGED <<tables, delivery>>

\* order.md Status Derivation; the older versions know no "removed".
StatusOf(total, fulfilled) ==
    CASE version = "04-08" /\ total = 0 -> "removed"
      [] version = "04-08" /\ total # 0 /\ fulfilled = total -> "fulfilled"
      [] version # "04-08" /\ fulfilled >= total -> "fulfilled"
      [] OTHER -> IF fulfilled > 0 THEN "partial" ELSE "processing"

\* Under the lock: the line first, then the log.  Readers do not take the lock.
Reduce(t) ==
    LET order == orders[Target(t)]
        left  == order.total - req[t].qty
    IN
    /\ At(t, "reduce") /\ lock = None /\ lock' = t
    /\ orders' = [orders EXCEPT
            ![Target(t)].total = left,
            ![Target(t)].status = StatusOf(left, order.fulfilled)]
    /\ Go(t, "log")
    /\ UNCHANGED <<version, delivery, local>>

LogAdjustment(t) ==
    /\ At(t, "log") /\ lock' = None
    /\ orders' = [orders EXCEPT ![Target(t)].adjustments = @ \cup {t}]
    /\ Announce(t)
    /\ UNCHANGED <<version, delivery, local>>

\* The older versions only append to the log, and announce nothing.
AppendAdjustment(t) ==
    /\ At(t, "append") /\ lock = None
    /\ orders' = [orders EXCEPT ![Target(t)].adjustments = @ \cup {t}]
    /\ Go(t, "answer")
    /\ UNCHANGED <<version, lock, delivery, local>>

\* A fulfillment, under the lock: the log first, then the line.
LogEvent(t) ==
    /\ At(t, "log_event") /\ lock = None /\ lock' = t
    /\ orders' = [orders EXCEPT ![Target(t)].events = @ \cup {t}]
    /\ Go(t, "count")
    /\ UNCHANGED <<version, delivery, local>>

\* The line, its status with it, after `before` units and these.
Fulfilled(t, before) ==
    LET now == before + req[t].qty IN
    [orders EXCEPT ![Target(t)].fulfilled = now,
                   ![Target(t)].status = StatusOf(orders[Target(t)].total, now)]

\* Defect: what is fulfilled follows from what the check has read.
CountFulfilledStale(t) ==
    /\ At(t, "count") /\ lock' = None
    /\ orders' = Fulfilled(t, local[t].fulfilled)
    /\ Go(t, "answer")
    /\ UNCHANGED <<version, delivery, local>>

CountFulfilled(t) ==
    /\ At(t, "count") /\ lock' = None
    /\ orders' = Fulfilled(t, orders[Target(t)].fulfilled)
    /\ Go(t, "answer")
    /\ UNCHANGED <<version, delivery, local>>

GetOrder(t) ==
    /\ At(t, "get_order")
    /\ \/ orders[Target(t)] = None /\ Answer(t, "not_found", None)
       \/ orders[Target(t)] # None /\ Answer(t, "ok", Target(t))
    /\ UNCHANGED <<tables, delivery, local>>

Respond(t) ==
    /\ At(t, "answer") /\ Answer(t, "ok", Own(t))
    /\ UNCHANGED <<tables, delivery, local>>

-----------------------------------------------------------------------------
(* Delivery of order events *)

\* Defect: the event is made of what the request has read, and its change.
SerializeDraft(t) ==
    /\ At(t, "serialize") /\ Go(t, "attempt")
    /\ Read(t, IF req[t].op = "complete" THEN orders[t]
               ELSE [local[t] EXCEPT !.total = @ - req[t].qty,
                                     !.adjustments = @ \cup {t}])
    /\ UNCHANGED <<tables, delivery>>

\* The bytes are made once, without the lock.
Serialize(t) ==
    /\ At(t, "serialize") /\ Go(t, "attempt")
    /\ Read(t, orders[Own(t)])
    /\ UNCHANGED <<tables, delivery>>

\* The bytes reach the platform, which answers with a 2xx in time; or the post
\* is lost, refused, or its answer is late.
Send(t, body, answered) ==
    /\ tries' = [tries EXCEPT ![t] = @ + 1]
    /\ \/ inbox' = Append(inbox, [event |-> t, attempt |-> tries[t] + 1, body |-> body])
       \/ ~answered /\ UNCHANGED inbox

RetryUnless(t, over) ==
    retrying' = IF over THEN retrying \ {t} ELSE retrying \cup {t}

\* One attempt; there is another one after it until the delays are used up.
Post(t, answered) ==
    Send(t, local[t], answered) /\ RetryUnless(t, answered \/ tries[t] = Retries)

\* Defect: the first attempt is left to the background as well.
AttemptInBackground(t) ==
    /\ At(t, "attempt") /\ Go(t, "answer")
    /\ retrying' = retrying \cup {t}
    /\ UNCHANGED <<tables, local, tries, inbox>>

Attempt(t) ==
    /\ At(t, "attempt") /\ Go(t, "answer")
    /\ Post(t, TRUE) \/ Post(t, FALSE)
    /\ UNCHANGED <<tables, local>>

\* The background thread: after a delay, the next attempt.
Retry(t) ==
    /\ t \in retrying
    /\ Post(t, TRUE) \/ Post(t, FALSE)
    /\ UNCHANGED <<tables, pc, req, local, resp, heard>>

OrderStep(t) ==
    \/ Check(t) \/ Reduce(t) \/ LogAdjustment(t) \/ AppendAdjustment(t)
    \/ LogEvent(t) \/ CountFulfilled(t) \/ GetOrder(t) \/ Respond(t)
    \/ Serialize(t) \/ Attempt(t)

-----------------------------------------------------------------------------
(* Properties *)

\* The units that log entries are about, each with its number in its entry.
UnitsOf(entries) == {u \in entries \X (1..Quantity) : u[2] <= req[u[1]].qty}
Units(entries) == Cardinality(UnitsOf(entries))

\* ORD-002, ORD-007: what the line of an order says is what its logs add up to,
\* and its status follows from it, though requests race and test their quantity
\* without the lock.  (While somebody holds the lock one of them may be ahead.)
LedgerAgrees ==
    \A o \in Orders :
        orders[o] # None /\ lock = None =>
            LET order == orders[o] IN
            /\ order.fulfilled = Units(order.events)
            /\ order.total = IF version = "04-08"
                             THEN Quantity - Units(order.adjustments) ELSE Quantity
            /\ order.status = StatusOf(order.total, order.fulfilled)

\* Every copy of an event is the same.  And, "First attempt is synchronous
\* (keeps event ordering deterministic ...)": an event whose request had been
\* answered before another request arrived reaches the platform after that
\* one's event only if it is a retry.
OrderedUnlessRetried ==
    \A i, j \in DOMAIN inbox :
        /\ inbox[i].event = inbox[j].event => inbox[i].body = inbox[j].body
        /\ i < j /\ inbox[j].event \in heard[inbox[i].event] => inbox[j].attempt > 1

\* "MUST send full order entity on updates": a platform that has got every event
\* of an order has got its final state, though events may have been made while
\* others changed the order.  (Older versions announce only the order's sale.)
FinalStateAnnounced ==
    \A o \in Subscribed :
        version = "04-08" /\ orders[o] # None /\ Answered = Threads =>
            LET changes == orders[o].adjustments \cup ({o} \cap Threads)
                got == {inbox[i].event : i \in DOMAIN inbox}
            IN  changes # {} /\ changes \subseteq got =>
                    \E i \in DOMAIN inbox : inbox[i].body = orders[o]
=============================================================================
