----------------------------- MODULE OrderEvents -----------------------------
(***************************************************************************)
(* Orders after their sale, and the order events delivered to the platform *)
(* (checkout_service.py: _notify_webhook, ship_order, update_order).       *)
(*                                                                         *)
(* A handler stores a whole order that it, or its client, has read before; *)
(* no lock is held between the read and the store.  A notification reads   *)
(* the order once more, serializes it once, and posts these bytes until    *)
(* the platform accepts or rejects them or the attempts are used up.       *)
(***************************************************************************)
EXTENDS Naturals

CONSTANTS
    Handlers,       \* requests: a completion, a simulated shipping, an update
    Seeds,          \* ids of orders that exist at the start
    Jobs,           \* Jobs[h]: the [op, order] request h may turn out to be
    Subscribed,     \* orders whose checkout has a webhook url
    MaxAttempts,    \* --webhook_delivery_attempts
    MaxCrashes,     \* bound: server crashes in a behaviour
    None            \* no order, job or outcome

VARIABLES
    orders,         \* table orders: id -> [events, edits]
    job,            \* job[h]: what request h asks for
    pc,             \* pc[h]: where its handler is
    draft,          \* draft[h]: the order content the handler or client has
    tries,          \* tries[h]: delivery attempts made
    outcome,        \* outcome[h]: how its notification ended
    inbox,          \* everything that reached the platform
    stored,         \* history: requests whose order was committed
    crashes         \* server crashes so far

vars == <<orders, job, pc, draft, tries, outcome, inbox, stored, crashes>>

\* A placed order is named after the completion that placed it.
OrderIds == Handlers \cup Seeds

\* events: fulfillment.events, one per shipping; edits: what updates changed.
Order == [events : SUBSET Handlers, edits : SUBSET Handlers]
NewOrder == [events |-> {}, edits |-> {}]

Job == [op : {"place", "ship", "update"}, order : OrderIds]
Labels == {"idle", "read", "verify", "save", "load", "attempt", "backoff", "done"}
Outcomes == {"failed", "unsubscribed", "acked", "rejected", "gave_up", "aborted"}

\* One post of an event as the platform got it, and what it replied: a 2xx, a
\* permanent rejection (3xx, 4xx), or anything the server takes for a failure
\* (a 5xx, or an answer that was lost).
Post == [event : Handlers, attempt : 1..MaxAttempts, body : Order,
         reply : {"ack", "reject", "fail"}]

ASSUME EventsAssumption ==
    /\ MaxAttempts \in Nat \ {0} /\ MaxCrashes \in Nat
    /\ Handlers \cap Seeds = {}
    /\ Jobs \in [Handlers -> SUBSET Job]
    /\ \A h \in Handlers : \A j \in Jobs[h] : j.op = "place" => j.order = h
    /\ None \notin Order /\ None \notin Job /\ None \notin Outcomes

Target(h) == job[h].order
At(h, label) == pc[h] = label
Go(h, label) == pc' = [pc EXCEPT ![h] = label]
Finish(h, result) ==
    Go(h, "done") /\ outcome' = [outcome EXCEPT ![h] = result]

-----------------------------------------------------------------------------
(* Storing orders *)

\* complete_checkout has committed its order (see CheckoutService).
PlaceOrder(h) ==
    /\ At(h, "idle")
    /\ \E j \in Jobs[h] : j.op = "place" /\ job' = [job EXCEPT ![h] = j]
    /\ orders' = [orders EXCEPT ![h] = NewOrder]
    /\ stored' = stored \cup {h}
    /\ Go(h, "load")
    /\ UNCHANGED <<draft, tries, outcome, inbox, crashes>>

\* A ship request arrives.  An update arrives with a whole order in its body:
\* what the platform got when it last read the order, with its own change.
ArriveShip(h) ==
    /\ At(h, "idle")
    /\ \E j \in Jobs[h] : j.op = "ship" /\ job' = [job EXCEPT ![h] = j]
    /\ Go(h, "read")
    /\ UNCHANGED <<orders, draft, tries, outcome, inbox, stored, crashes>>

SendUpdate(h) ==
    /\ At(h, "idle")
    /\ \E j \in Jobs[h] :
         /\ j.op = "update" /\ orders[j.order] # None
         /\ job' = [job EXCEPT ![h] = j]
         /\ draft' = [draft EXCEPT
              ![h] = [orders[j.order] EXCEPT !.edits = @ \cup {h}]]
    /\ Go(h, "verify")
    /\ UNCHANGED <<orders, tries, outcome, inbox, stored, crashes>>

\* Defect: the shipping is announced before it is stored.
ReadAndAnnounce(h) ==
    /\ At(h, "read")
    /\ LET order == orders[Target(h)] IN
       IF order = None THEN Finish(h, "failed") /\ UNCHANGED draft
       ELSE /\ draft' = [draft EXCEPT
                 ![h] = [order EXCEPT !.events = @ \cup {h}]]
            /\ Go(h, "attempt") /\ UNCHANGED outcome
    /\ UNCHANGED <<orders, job, tries, inbox, stored, crashes>>

\* ship_order reads the order and appends its event to what it has read.
ReadOrder(h) ==
    /\ At(h, "read")
    /\ LET order == orders[Target(h)] IN
       IF order = None THEN Finish(h, "failed") /\ UNCHANGED draft
       ELSE /\ draft' = [draft EXCEPT
                 ![h] = [order EXCEPT !.events = @ \cup {h}]]
            /\ Go(h, "save") /\ UNCHANGED outcome
    /\ UNCHANGED <<orders, job, tries, inbox, stored, crashes>>

\* update_order only looks whether the order exists.
VerifyOrder(h) ==
    /\ At(h, "verify")
    /\ orders[Target(h)] # None
    /\ Go(h, "save")
    /\ UNCHANGED <<orders, job, draft, tries, outcome, inbox, stored, crashes>>

\* save_order and its commit.  Only a shipping is announced.
SaveOrder(h) ==
    /\ At(h, "save")
    /\ orders' = [orders EXCEPT ![Target(h)] = draft[h]]
    /\ stored' = stored \cup {h}
    /\ Go(h, IF job[h].op = "ship" THEN "load" ELSE "done")
    /\ UNCHANGED <<job, draft, tries, outcome, inbox, crashes>>

\* Another transaction holds the write lock for longer than the busy timeout.
SaveTimesOut(h) ==
    /\ At(h, "save")
    /\ Finish(h, "failed")
    /\ UNCHANGED <<orders, job, draft, tries, inbox, stored, crashes>>

-----------------------------------------------------------------------------
(* Delivering an event *)

\* _notify_webhook reads the order after the commit, and serializes it.
LoadBody(h) ==
    /\ At(h, "load")
    /\ IF Target(h) \in Subscribed
       THEN /\ draft' = [draft EXCEPT ![h] = orders[Target(h)]]
            /\ Go(h, "attempt") /\ UNCHANGED outcome
       ELSE Finish(h, "unsubscribed") /\ UNCHANGED draft
    /\ UNCHANGED <<orders, job, tries, inbox, stored, crashes>>

\* The next post of h's event reaches the platform with this reply.
Received(h, reply) ==
    inbox' = inbox \cup
        {[event |-> h, attempt |-> tries[h] + 1, body |-> draft[h], reply |-> reply]}

\* Defect: each attempt serializes the order again.
AttemptReread(h) ==
    /\ At(h, "attempt")
    /\ tries' = [tries EXCEPT ![h] = @ + 1]
    /\ \E reply \in {"ack", "fail"} :
         /\ inbox' = inbox \cup
              {[event |-> h, attempt |-> tries[h] + 1, body |-> orders[Target(h)],
                reply |-> reply]}
         /\ IF reply = "ack" THEN Finish(h, "acked")
            ELSE IF tries[h] + 1 < MaxAttempts
            THEN Go(h, "backoff") /\ UNCHANGED outcome
            ELSE Finish(h, "gave_up")
    /\ UNCHANGED <<orders, job, draft, stored, crashes>>

\* Defect: a rejection is retried like a failure.
AttemptAfterReject(h) ==
    /\ At(h, "attempt")
    /\ tries' = [tries EXCEPT ![h] = @ + 1]
    /\ \/ Received(h, "ack") /\ Finish(h, "acked")
       \/ /\ Received(h, "reject") \/ Received(h, "fail") \/ UNCHANGED inbox
          /\ IF tries[h] + 1 < MaxAttempts
             THEN Go(h, "backoff") /\ UNCHANGED outcome
             ELSE Finish(h, "gave_up")
    /\ UNCHANGED <<orders, job, draft, stored, crashes>>

\* Defect: one attempt too few before giving up.
AttemptShort(h) ==
    /\ At(h, "attempt")
    /\ tries' = [tries EXCEPT ![h] = @ + 1]
    /\ \/ Received(h, "ack") /\ Finish(h, "acked")
       \/ Received(h, "reject") /\ Finish(h, "rejected")
       \/ /\ Received(h, "fail") \/ UNCHANGED inbox
          /\ IF tries[h] + 2 < MaxAttempts
             THEN Go(h, "backoff") /\ UNCHANGED outcome
             ELSE Finish(h, "gave_up")
    /\ UNCHANGED <<orders, job, draft, stored, crashes>>

\* Defect: attempts that fail in transport are not counted.
AttemptUncounted(h) ==
    /\ At(h, "attempt")
    /\ \/ /\ Received(h, "ack") /\ Finish(h, "acked")
          /\ tries' = [tries EXCEPT ![h] = @ + 1]
       \/ Go(h, "backoff") /\ UNCHANGED <<inbox, outcome, tries>>
    /\ UNCHANGED <<orders, job, draft, stored, crashes>>

Attempt(h) ==
    /\ At(h, "attempt")
    /\ tries' = [tries EXCEPT ![h] = @ + 1]
    /\ \/ Received(h, "ack") /\ Finish(h, "acked")
       \/ Received(h, "reject") /\ Finish(h, "rejected")
       \/ /\ Received(h, "fail") \/ UNCHANGED inbox
          /\ IF tries[h] + 1 < MaxAttempts
             THEN Go(h, "backoff") /\ UNCHANGED outcome
             ELSE Finish(h, "gave_up")
    /\ UNCHANGED <<orders, job, draft, stored, crashes>>

\* The backoff is over.
Retry(h) ==
    /\ At(h, "backoff")
    /\ Go(h, "attempt")
    /\ UNCHANGED <<orders, job, draft, tries, outcome, inbox, stored, crashes>>

\* No signing key, no usable url: logged, and never tried again.
Abort(h) ==
    /\ At(h, "attempt")
    /\ Finish(h, "aborted")
    /\ UNCHANGED <<orders, job, draft, tries, inbox, stored, crashes>>

\* The process dies: what was stored stays, what was to be announced is lost.
Crash ==
    /\ crashes < MaxCrashes
    /\ \E h \in Handlers : pc[h] \notin {"idle", "done"}
    /\ pc' = [h \in Handlers |-> IF At(h, "idle") THEN "idle" ELSE "done"]
    /\ crashes' = crashes + 1
    /\ UNCHANGED <<orders, job, draft, tries, outcome, inbox, stored>>

Init ==
    /\ orders = [i \in OrderIds |-> IF i \in Seeds THEN NewOrder ELSE None]
    /\ job = [h \in Handlers |-> None]
    /\ pc = [h \in Handlers |-> "idle"]
    /\ draft = [h \in Handlers |-> None]
    /\ tries = [h \in Handlers |-> 0]
    /\ outcome = [h \in Handlers |-> None]
    /\ inbox = {} /\ stored = {}
    /\ crashes = 0

Handle(h) ==
    \/ ReadOrder(h) \/ VerifyOrder(h) \/ SaveOrder(h)
    \/ LoadBody(h) \/ Attempt(h) \/ Retry(h) \/ Abort(h)

Quiescent == (\A h \in Handlers : At(h, "done")) /\ UNCHANGED vars

Next ==
    \/ \E h \in Handlers :
         PlaceOrder(h) \/ ArriveShip(h) \/ SendUpdate(h) \/ SaveTimesOut(h) \/ Handle(h)
    \/ Crash
    \/ Quiescent

Spec == Init /\ [][Next]_vars

\* The event loop resumes every handler: awaits, timeouts (5 s per post) and
\* sleeps all end.
FairSpec == Spec /\ \A h \in Handlers : WF_vars(Handle(h))

-----------------------------------------------------------------------------
(* Properties *)

EventsTypeOK ==
    /\ orders \in [OrderIds -> Order \cup {None}]
    /\ job \in [Handlers -> Job \cup {None}]
    /\ pc \in [Handlers -> Labels]
    /\ draft \in [Handlers -> Order \cup {None}]
    /\ tries \in [Handlers -> 0..MaxAttempts]
    /\ outcome \in [Handlers -> Outcomes \cup {None}]
    /\ inbox \subseteq Post
    /\ stored \subseteq Handlers
    /\ crashes \in Nat

Changes(order) == order.events \cup order.edits
Sending == {"attempt", "backoff"}

\* What the handler of h has in hand, label by label.
HandlerOK(h) ==
    /\ pc[h] # "idle" => job[h] \in Job
    /\ pc[h] \in {"verify", "save"} =>
         draft[h] \in Order /\ Changes(draft[h]) \subseteq stored \cup {h}
    /\ pc[h] \in {"load"} \cup Sending => h \in stored /\ outcome[h] = None
    /\ pc[h] = "load" => orders[Target(h)] # None
    /\ pc[h] \in Sending =>
         /\ draft[h] \in Order /\ Changes(draft[h]) \subseteq stored
         /\ tries[h] < MaxAttempts
    /\ pc[h] \notin Sending \cup {"done"} => tries[h] = 0 /\ outcome[h] = None

\* The posts of an event are its attempts so far, with the body of its handler.
PostOK(m) ==
    /\ pc[m.event] \in Sending \cup {"done"}
    /\ m.attempt <= tries[m.event]
    /\ m.body = draft[m.event]
    /\ outcome[m.event] \notin {"acked", "rejected"} => m.reply = "fail"

\* The inductive invariant that the four properties below rest on.
Delivering ==
    /\ EventsTypeOK
    /\ \A o \in OrderIds : orders[o] # None => Changes(orders[o]) \subseteq stored
    /\ \A h \in Handlers : HandlerOK(h)
    /\ \A m \in inbox : PostOK(m)

\* Every copy of an event has the same body: a platform that deduplicates by
\* Webhook-Id loses nothing.
CopiesAgree == \A m, n \in inbox : m.event = n.event => m.body = n.body

\* The platform's verdict on an event is the last it hears of it.
VerdictIsLast ==
    \A m, n \in inbox :
        m.event = n.event /\ m.attempt < n.attempt => m.reply = "fail"

\* The server gives an event up only after all attempts, and believes it
\* delivered or rejected exactly when the platform said so.
OutcomeIsTrue ==
    \A h \in Handlers :
        LET Replied(reply) == \E m \in inbox : m.event = h /\ m.reply = reply IN
        /\ outcome[h] = "acked" <=> Replied("ack")
        /\ outcome[h] = "rejected" <=> Replied("reject")
        /\ outcome[h] = "gave_up" => tries[h] = MaxAttempts

\* The platform never hears of a shipping or an update that is not stored.
NoPhantomChange ==
    \A m \in inbox : {m.event} \cup Changes(m.body) \subseteq stored

\* Every order placed or shipped has its notification ended, unless the
\* server crashes: a platform that keeps failing does not hold it for ever.
EveryEventEnds ==
    \A h \in Handlers : At(h, "load") ~> outcome[h] # None \/ crashes > 0
=============================================================================
