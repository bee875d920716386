--------------------------- MODULE FixtureMerchant ---------------------------
(***************************************************************************)
(* The fixture merchant in its 2026-04-08 mode: one thread per request,    *)
(* in-memory dictionaries, and a lock that most reads and some writes do   *)
(* not take.  A key of a create is claimed before the create is executed;  *)
(* requests that find it claimed wait for its owner and look again.  The   *)
(* rest of carts is in FixtureCarts, and of orders in FixtureOrders.       *)
(***************************************************************************)
EXTENDS Naturals, FiniteSets

CONSTANTS
    Threads,    \* requests, each served by a thread of its own
    Seeds,      \* checkouts that exist at the start
    Keys,       \* Idempotency-Keys
    Contents,   \* what line items may be
    BadContents,\* those among them that a create or update refuses
    Carts,      \* carts
    CartLines,  \* their line items at the start
    Menu,       \* Menu[t]: the requests thread t may be sent
    None

Ids == Threads \cup Seeds
Orders == Threads
Lines == Contents \cup BadContents

Request ==
    [op : {"create"}, lines : Lines, key : Keys \cup {None}, cart : Carts \cup {None}]
    \cup [op : {"update"}, id : Ids, lines : Lines]
    \cup [op : {"complete"}, id : Ids, token : {"good", "declined", "escalated"}]
    \cup [op : {"cancel"}, id : Ids]
    \cup [op : {"update_cart"}, cart : Carts, lines : Lines]
    \cup [op : {"cancel_cart"}, cart : Carts]
    \cup [op : {"age"}, key : Keys]
    \cup [op : {"outage"}, enabled : BOOLEAN]

ASSUME FixtureAssumption ==
    /\ Threads \cap Seeds = {} /\ None \notin Ids \cup Keys \cup Carts \cup Lines
    /\ IsFiniteSet(Threads) /\ Contents # {} /\ CartLines \in [Carts -> Lines]
    /\ Menu \in [Threads -> SUBSET Request]

Terminal == {"completed", "canceled"}

Session ==
    [status : {"ready_for_complete", "requires_escalation"} \cup Terminal,
     lines : Lines, order : Orders \cup {None}]
Order == [checkout_id : Ids, totals : Lines, lines : Lines]
Record == [lines : Lines, cart : Carts \cup {None}, id : Threads, old : BOOLEAN]

ASSUME NoneAssumption ==
    None \notin Request \cup Session \cup Order \cup Record
                \cup {"ready_for_complete", "requires_escalation", "ok"} \cup Terminal

VARIABLES
    sessions,       \* SESSIONS: by checkout id
    orders,         \* ORDERS: by the thread that completed the checkout
    carts,          \* CARTS: line items by cart id
    conversions,    \* CART_CHECKOUTS: the latest checkout made from a cart
    idem,           \* IDEM: what a key answers, by key
    pending,        \* IDEM_PENDING: the thread that owns a key's claim
    outage,         \* IDEM_OUTAGE
    expired,        \* history: how often a key went past its retention
    pc, req,        \* the thread and the request it serves
    local,          \* what it has read
    resp            \* what it has answered

store == <<sessions, orders, carts, conversions>>
keys == <<idem, pending, outage, expired>>
vars == <<store, keys, pc, req, local, resp>>

At(t, label) == pc[t] = label
Go(t, label) == pc' = [pc EXCEPT ![t] = label]
Read(t, value) == local' = [local EXCEPT ![t] = value]

Answer(t, code, id) ==
    /\ Go(t, "done")
    /\ resp' = [resp EXCEPT ![t] = [code |-> code, id |-> id]]
    /\ UNCHANGED <<req, local>>

\* do_POST, do_PUT: the body is read, and the operation begins.
Arrive(t) ==
    /\ At(t, "idle")
    /\ \E r \in Menu[t] :
        /\ req' = [req EXCEPT ![t] = r]
        /\ Go(t, IF r.op # "create" THEN r.op
                 ELSE IF r.cart # None THEN "cart" ELSE "keyed")
        /\ Read(t, IF r.op = "create" THEN r.lines ELSE None)
    /\ UNCHANGED <<store, keys, resp>>

-----------------------------------------------------------------------------
(* create_checkout *)

ReadCart(t) ==
    /\ At(t, "cart")
    /\ LET lines == carts[req[t].cart] IN
       \/ lines = None /\ Answer(t, "not_found", None)
       \/ lines # None /\ Go(t, "prior") /\ Read(t, lines) /\ UNCHANGED <<req, resp>>
    /\ UNCHANGED <<store, keys>>

OpenPrior(cart) ==
    conversions[cart] # None /\ sessions[conversions[cart]].status \notin Terminal

\* The open checkout of the cart is the answer, whatever the key says.
FindPrior(t) ==
    /\ At(t, "prior")
    /\ \/ OpenPrior(req[t].cart) /\ Answer(t, "ok", conversions[req[t].cart])
       \/ ~OpenPrior(req[t].cart) /\ Go(t, "keyed") /\ UNCHANGED <<req, local, resp>>
    /\ UNCHANGED <<store, keys>>

\* No key: nothing is claimed.  A key while its storage is down: fail closed.
EnterKey(t) ==
    /\ At(t, "keyed")
    /\ \/ /\ req[t].key # None /\ outage
          /\ Answer(t, "unavailable", None)
       \/ /\ req[t].key # None /\ ~outage
          /\ Go(t, "claim") /\ UNCHANGED <<req, local, resp>>
       \/ /\ req[t].key = None
          /\ Go(t, "execute") /\ UNCHANGED <<req, local, resp>>
    /\ UNCHANGED <<store, keys>>

\* The fingerprint is taken of the body after the cart has replaced its lines.
Fingerprint(t) == [lines |-> local[t], cart |-> req[t].cart]
FingerprintOf(record) == [lines |-> record.lines, cart |-> record.cart]

\* Defect: a stored key answers whatever body it is sent with.
ReplayAny(t, record) == Answer(t, "ok", record.id)

\* What a stored key answers: its result, or a conflict with another body.
Replay(t, record) ==
    Answer(t, IF FingerprintOf(record) = Fingerprint(t) THEN "ok" ELSE "conflict",
           IF FingerprintOf(record) = Fingerprint(t) THEN record.id ELSE None)

\* A record past its retention is evicted when it is looked up.
Stored(key) == idem[key] # None /\ ~idem[key].old
Evict(key) == idem' = [idem EXCEPT ![key] = IF Stored(key) THEN @ ELSE None]

\* Defect: a key that is claimed but not yet stored is free.
ClaimRegardless(t) ==
    LET key == req[t].key IN
    /\ At(t, "claim") /\ Evict(key)
    /\ \/ Stored(key) /\ Replay(t, idem[key]) /\ UNCHANGED pending
       \/ /\ ~Stored(key)
          /\ pending' = [pending EXCEPT ![key] = t]
          /\ Go(t, "execute") /\ UNCHANGED <<req, local, resp>>
    /\ UNCHANGED <<store, outage, expired>>

\* One turn of the claim loop, under the lock.
Claim(t) ==
    LET key == req[t].key IN
    /\ At(t, "claim") /\ Evict(key)
    /\ \/ Stored(key) /\ Replay(t, idem[key]) /\ UNCHANGED pending
       \/ /\ ~Stored(key) /\ pending[key] = None
          /\ pending' = [pending EXCEPT ![key] = t]
          /\ Go(t, "execute") /\ UNCHANGED <<req, local, resp>>
       \/ /\ ~Stored(key) /\ pending[key] # None
          /\ Go(t, "wait") /\ Read(t, [lines |-> local[t], event |-> pending[key]])
          /\ UNCHANGED <<pending, req, resp>>
    /\ UNCHANGED <<store, outage, expired>>

\* The owner has set its event; the waiter looks again.
Wake(t) ==
    /\ At(t, "wait") /\ At(local[t].event, "done")
    /\ Go(t, "claim") /\ Read(t, local[t].lines)
    /\ UNCHANGED <<store, keys, req, resp>>

\* Defect: who has waited long enough executes.
GiveUpWaiting(t) ==
    /\ At(t, "wait")
    /\ Go(t, "execute") /\ Read(t, local[t].lines)
    /\ UNCHANGED <<store, keys, req, resp>>

\* The owner takes longer than pending.wait is ready to wait.
WaitTimesOut(t) ==
    /\ At(t, "wait")
    /\ Go(t, "claim") /\ Read(t, local[t].lines)
    /\ UNCHANGED <<store, keys, req, resp>>

\* A create with a key ends by giving its claim up; the event wakes all who wait.
Finish(t, code, id) ==
    IF req[t].key = None
    THEN Answer(t, code, id)
    ELSE /\ Go(t, "release")
         /\ resp' = [resp EXCEPT ![t] = [code |-> code, id |-> id]]
         /\ UNCHANGED <<req, local>>

\* A refused create stores no result: the next one with its key executes.
Refuse(t) ==
    /\ At(t, "execute") /\ local[t] \in BadContents
    /\ Finish(t, "invalid", None)
    /\ UNCHANGED <<store, keys>>

NewSession(t) == [status |-> "ready_for_complete", lines |-> local[t], order |-> None]

Link(t) ==
    IF req[t].cart = None THEN UNCHANGED conversions
    ELSE conversions' = [conversions EXCEPT ![req[t].cart] = t]

Result(t) == [lines |-> local[t], cart |-> req[t].cart, id |-> t, old |-> FALSE]

StoreKey(t) ==
    IF req[t].key = None THEN UNCHANGED idem
    ELSE idem' = [idem EXCEPT ![req[t].key] = Result(t)]

\* Session, conversion and key are stored under one hold of the lock.
Create(t) ==
    /\ At(t, "execute") /\ local[t] \notin BadContents
    /\ sessions' = [sessions EXCEPT ![t] = NewSession(t)]
    /\ Link(t) /\ StoreKey(t)
    /\ Finish(t, "ok", t)
    /\ UNCHANGED <<orders, carts, pending, outage, expired>>

\* Defect: an owner whose create was refused keeps its claim.
ReleaseStored(t) ==
    /\ At(t, "release") /\ Go(t, "done")
    /\ pending' = [pending EXCEPT ![req[t].key] =
                    IF resp[t].code = "ok" THEN None ELSE @]
    /\ UNCHANGED <<store, idem, outage, expired, req, local, resp>>

Release(t) ==
    /\ At(t, "release") /\ Go(t, "done")
    /\ pending' = [pending EXCEPT ![req[t].key] = None]
    /\ UNCHANGED <<store, idem, outage, expired, req, local, resp>>

CreateStep(t) ==
    \/ ReadCart(t) \/ FindPrior(t) \/ EnterKey(t) \/ Claim(t) \/ Wake(t)
    \/ Refuse(t) \/ Create(t) \/ Release(t)

-----------------------------------------------------------------------------
(* complete_checkout, update_checkout, cancel_checkout: the status is read,   *)
(* without the lock, some time before it is written                         *)

Status(id) == IF sessions[id] = None THEN None ELSE sessions[id].status

\* The session's status, the token, and the totals of the order-to-be.
StartCompletion(t) ==
    LET id == req[t].id IN
    /\ At(t, "complete")
    /\ \/ Status(id) = None /\ Answer(t, "not_found", None)
       \/ Status(id) \in Terminal /\ Answer(t, "conflict", None)
       \/ /\ Status(id) \notin Terminal \cup {None}
          /\ \/ req[t].token = "declined" /\ Answer(t, "declined", None)
             \/ /\ req[t].token = "escalated"
                /\ Go(t, "escalate") /\ UNCHANGED <<req, local, resp>>
             \/ /\ req[t].token = "good"
                /\ Go(t, "draft") /\ Read(t, sessions[id].lines)
                /\ UNCHANGED <<req, resp>>
    /\ UNCHANGED <<store, keys>>

Escalate(t) ==
    /\ At(t, "escalate")
    /\ sessions' = [sessions EXCEPT ![req[t].id].status = "requires_escalation"]
    /\ Answer(t, "escalated", req[t].id)
    /\ UNCHANGED <<orders, carts, conversions, keys>>

\* The lines of the order-to-be are read of the session again.
DraftOrder(t) ==
    /\ At(t, "draft") /\ Go(t, "commit")
    /\ Read(t, [checkout_id |-> req[t].id, totals |-> local[t],
                lines |-> sessions[req[t].id].lines])
    /\ UNCHANGED <<store, keys, req, resp>>

\* Order and status are stored under one hold of the lock.
CommitOrder(t) ==
    /\ At(t, "commit")
    /\ orders' = [orders EXCEPT ![t] = local[t]]
    /\ sessions' = [sessions EXCEPT ![req[t].id].status = "completed",
                                    ![req[t].id].order = t]
    /\ Answer(t, "completed", req[t].id)
    /\ UNCHANGED <<carts, conversions, keys>>

StartUpdate(t) ==
    LET status == Status(req[t].id) IN
    /\ At(t, "update")
    /\ \/ status = None /\ Answer(t, "not_found", None)
       \/ status \in Terminal /\ Answer(t, "conflict", None)
       \/ /\ status \notin Terminal \cup {None}
          /\ \/ req[t].lines \in BadContents /\ Answer(t, "invalid", None)
             \/ /\ req[t].lines \notin BadContents
                /\ Go(t, "replace") /\ UNCHANGED <<req, local, resp>>
    /\ UNCHANGED <<store, keys>>

ReplaceLines(t) ==
    /\ At(t, "replace")
    /\ sessions' = [sessions EXCEPT ![req[t].id].lines = req[t].lines]
    /\ Answer(t, "updated", req[t].id)
    /\ UNCHANGED <<orders, carts, conversions, keys>>

\* A canceled session may be canceled again.
StartCancel(t) ==
    LET status == Status(req[t].id) IN
    /\ At(t, "cancel")
    /\ \/ status = None /\ Answer(t, "not_found", None)
       \/ status = "completed" /\ Answer(t, "conflict", None)
       \/ /\ status \notin {"completed", None}
          /\ Go(t, "x_write") /\ UNCHANGED <<req, local, resp>>
    /\ UNCHANGED <<store, keys>>

WriteCanceled(t) ==
    /\ At(t, "x_write")
    /\ sessions' = [sessions EXCEPT ![req[t].id].status = "canceled"]
    /\ Answer(t, "canceled", req[t].id)
    /\ UNCHANGED <<orders, carts, conversions, keys>>

SessionStep(t) ==
    \/ StartCompletion(t) \/ Escalate(t) \/ DraftOrder(t) \/ CommitOrder(t)
    \/ StartUpdate(t) \/ ReplaceLines(t) \/ StartCancel(t) \/ WriteCanceled(t)

-----------------------------------------------------------------------------
(* Carts; the test hooks of keys                                             *)

UpdateCart(t) ==
    /\ At(t, "update_cart")
    /\ \/ /\ carts[req[t].cart] = None /\ Answer(t, "not_found", None)
          /\ UNCHANGED carts
       \/ /\ carts[req[t].cart] # None /\ Answer(t, "cart", None)
          /\ carts' = [carts EXCEPT ![req[t].cart] = req[t].lines]
    /\ UNCHANGED <<sessions, orders, conversions, keys>>

CancelCart(t) ==
    /\ At(t, "cancel_cart")
    /\ carts' = [carts EXCEPT ![req[t].cart] = None]
    /\ Answer(t, IF carts[req[t].cart] = None THEN "not_found" ELSE "cart", None)
    /\ UNCHANGED <<sessions, orders, conversions, keys>>

\* simulate_idem_age: the key is past its retention from now on.
Age(t) ==
    LET key == req[t].key IN
    /\ At(t, "age")
    /\ \/ /\ idem[key] = None /\ Answer(t, "invalid", None)
          /\ UNCHANGED <<idem, expired>>
       \/ /\ idem[key] # None /\ Answer(t, "aged", None)
          /\ idem' = [idem EXCEPT ![key].old = TRUE]
          /\ expired' = [expired EXCEPT ![key] = @ + 1]
    /\ UNCHANGED <<store, pending, outage>>

SetOutage(t) ==
    /\ At(t, "outage") /\ outage' = req[t].enabled
    /\ Answer(t, "outage", None)
    /\ UNCHANGED <<store, idem, pending, expired>>

OtherStep(t) ==
    UpdateCart(t) \/ CancelCart(t) \/ Age(t) \/ SetOutage(t)

-----------------------------------------------------------------------------
NoAnswer == [code |-> None, id |-> None]

Init ==
    /\ sessions = [id \in Ids |->
            IF id \in Seeds THEN [status |-> "ready_for_complete", order |-> None,
                                  lines |-> CHOOSE l \in Contents : TRUE]
            ELSE None]
    /\ orders = [o \in Orders |-> None]
    /\ carts = CartLines
    /\ conversions = [c \in Carts |-> None]
    /\ idem = [k \in Keys |-> None] /\ pending = [k \in Keys |-> None]
    /\ outage = FALSE
    /\ expired = [k \in Keys |-> 0]
    /\ pc = [t \in Threads |-> "idle"] /\ req = [t \in Threads |-> None]
    /\ local = [t \in Threads |-> None]
    /\ resp = [t \in Threads |-> NoAnswer]

Step(t) == CreateStep(t) \/ SessionStep(t) \/ OtherStep(t)

AllAnswered == (\A t \in Threads : At(t, "done")) /\ UNCHANGED vars

Next ==
    \/ \E t \in Threads : Arrive(t) \/ WaitTimesOut(t) \/ Step(t)
    \/ AllAnswered

Spec == Init /\ [][Next]_vars
\* A thread that can go on does; nobody has to send a request, nor the owner
\* of a key to be slow.
FairSpec == Spec /\ \A t \in Threads : WF_vars(Step(t))

-----------------------------------------------------------------------------
(* Properties *)

Labels ==
    {"idle", "cart", "prior", "keyed", "claim", "wait", "execute", "release",
     "complete", "escalate", "draft", "commit", "update", "replace", "cancel",
     "x_write", "update_cart", "cancel_cart", "age", "outage",
     "done"}

\* The server's tables hold what their types say, and conversions and orders
\* name sessions that exist.
FixtureTypeOK ==
    /\ sessions \in [Ids -> Session \cup {None}]
    /\ orders \in [Orders -> Order \cup {None}]
    /\ carts \in [Carts -> Lines \cup {None}]
    /\ idem \in [Keys -> Record \cup {None}]
    /\ pending \in [Keys -> Threads \cup {None}]
    /\ pc \in [Threads -> Labels]
    /\ \A c \in Carts : conversions[c] # None => sessions[conversions[c]] # None
    /\ \A o \in Orders : orders[o] # None => sessions[orders[o].checkout_id] # None

Keyed(t, key) == req[t] # None /\ req[t].op = "create" /\ req[t].key = key

\* SIG-025: one key makes one checkout, however its requests interleave, wait
\* and are refused; a second one only after the key's retention has passed.
OneResultPerKey ==
    \A key \in Keys :
        Cardinality({t \in Threads : Keyed(t, key) /\ sessions[t] # None})
            <= 1 + expired[key]

\* At most one thread executes the create of a key, and the claim says which;
\* no claim outlives its owner, who would else be waited for in vain.
ClaimIsHeld ==
    \A key \in Keys :
        {t \in Threads : Keyed(t, key) /\ pc[t] \in {"execute", "release"}}
            = {pending[key]} \ {None}

\* The same, with what every table may hold; no step leaves either.
FixtureConsistent == FixtureTypeOK /\ ClaimIsHeld

\* Two requests with one key that were told "ok" had the same body, and were
\* told of the same checkout, while the key was retained.  Conversions are
\* left out: their cart is looked at before their key.
ReplaysAgree ==
    \A key \in Keys : \A t, u \in Threads :
        /\ Keyed(t, key) /\ Keyed(u, key) /\ expired[key] = 0
        /\ resp[t].code = "ok" /\ resp[u].code = "ok"
        /\ req[t].cart = None /\ req[u].cart = None
        => resp[t].id = resp[u].id /\ req[t].lines = req[u].lines

\* Every request is answered: who waits for a key is not left waiting by an
\* owner that was refused, timed out on, or has finished.
EveryThreadAnswered ==
    \A t \in Threads : (pc[t] # "idle") ~> At(t, "done")

-----------------------------------------------------------------------------
(* What the comments say, and the code does not do *)

\* "a completed checkout is immutable (CHK-012)".
CompletedIsImmutable ==
    [][\A id \in Ids :
        Status(id) = "completed" => sessions'[id] = sessions[id]]_sessions
=============================================================================
