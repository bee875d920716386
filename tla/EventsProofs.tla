---------------------------- MODULE EventsProofs -----------------------------
(***************************************************************************)
(* Theorems about OrderEvents, for every set of requests and orders, any   *)
(* number of attempts and of crashes.  Only Attempt posts anything; every  *)
(* other step of a handler is quiet, and what the platform has got stays   *)
(* true of it.                                                             *)
(***************************************************************************)
EXTENDS OrderEvents, TLAPS

Deliveries == Delivering /\ VerdictIsLast /\ OutcomeIsTrue /\ NoPhantomChange

\* A step of h's handler that posts nothing.
QuietStep(h) ==
    /\ UNCHANGED <<inbox, tries, crashes>>
    /\ \A g \in Handlers \ {h} :
         /\ job'[g] = job[g] /\ pc'[g] = pc[g] /\ draft'[g] = draft[g]
         /\ outcome'[g] = outcome[g]
    /\ stored \subseteq stored'
    /\ \A o \in OrderIds : orders[o] # None => orders'[o] # None
    /\ \/ outcome'[h] = outcome[h]
       \/ outcome[h] = None /\ outcome'[h] \in {"failed", "unsubscribed", "aborted"}
    /\ pc[h] # "done"
    /\ pc[h] \in Sending => draft'[h] = draft[h] /\ pc'[h] \in Sending \cup {"done"}

-----------------------------------------------------------------------------
(* Quiet steps keep what holds of the other handlers and of the inbox *)

LEMMA OtherHandlers ==
    ASSUME Delivering, NEW h \in Handlers, NEW g \in Handlers \ {h},
           job'[g] = job[g], pc'[g] = pc[g], draft'[g] = draft[g],
           outcome'[g] = outcome[g], tries'[g] = tries[g],
           stored \subseteq stored',
           \A o \in OrderIds : orders[o] # None => orders'[o] # None
    PROVE  HandlerOK(g)'
<1>1. HandlerOK(g)
  BY DEF Delivering
<1>2. pc[g] = "load" => Target(g) \in OrderIds
  BY <1>1 DEF HandlerOK, Target, Job
<1> QED BY <1>1, <1>2 DEF HandlerOK, Target, Sending

LEMMA QuietInbox ==
    ASSUME Deliveries, NEW h \in Handlers, QuietStep(h)
    PROVE  /\ \A g \in Handlers \ {h} : HandlerOK(g)'
           /\ \A m \in inbox' : PostOK(m)'
           /\ VerdictIsLast' /\ OutcomeIsTrue' /\ NoPhantomChange'
<1>1. \A g \in Handlers \ {h} : HandlerOK(g)'
  BY OtherHandlers DEF Deliveries, QuietStep
<1>2. ASSUME NEW m \in inbox' PROVE PostOK(m)'
  <2>1. m \in inbox /\ m.event \in Handlers /\ PostOK(m)
    BY DEF QuietStep, Deliveries, Delivering, EventsTypeOK, Post
  <2>2. CASE m.event = h
    <3>1. None \notin {"acked", "rejected"}
      BY EventsAssumption DEF Outcomes
    <3> QED BY <2>1, <2>2, <3>1 DEF PostOK, QuietStep
  <2>3. CASE m.event # h
    BY <2>1, <2>3 DEF PostOK, QuietStep
  <2> QED BY <2>2, <2>3
<1>3. VerdictIsLast' /\ NoPhantomChange'
  BY DEF Deliveries, VerdictIsLast, NoPhantomChange, QuietStep
<1>4. OutcomeIsTrue'
  <2> SUFFICES ASSUME NEW g \in Handlers
               PROVE  /\ outcome'[g] = "acked" <=>
                           \E m \in inbox : m.event = g /\ m.reply = "ack"
                      /\ outcome'[g] = "rejected" <=>
                           \E m \in inbox : m.event = g /\ m.reply = "reject"
                      /\ outcome'[g] = "gave_up" => tries[g] = MaxAttempts
    BY DEF OutcomeIsTrue, QuietStep
  <2>1. /\ outcome[g] = "acked" <=>
             \E m \in inbox : m.event = g /\ m.reply = "ack"
        /\ outcome[g] = "rejected" <=>
             \E m \in inbox : m.event = g /\ m.reply = "reject"
        /\ outcome[g] = "gave_up" => tries[g] = MaxAttempts
    BY DEF Deliveries, OutcomeIsTrue
  <2>2. \/ outcome'[g] = outcome[g]
        \/ outcome[g] = None /\ outcome'[g] \in {"failed", "unsubscribed", "aborted"}
    BY DEF QuietStep
  <2>3. None \notin {"acked", "rejected", "gave_up"}
    BY EventsAssumption DEF Outcomes
  <2> QED BY <2>1, <2>2, <2>3
<1> QED BY <1>1, <1>2, <1>3, <1>4

\* What is left to show of a quiet step.
LEMMA QuietDeliveries ==
    ASSUME Deliveries, NEW h \in Handlers, QuietStep(h), EventsTypeOK', HandlerOK(h)',
           \A o \in OrderIds : orders'[o] # None => Changes(orders'[o]) \subseteq stored'
    PROVE  Deliveries'
BY QuietInbox DEF Deliveries, Delivering, Changes

-----------------------------------------------------------------------------
(* The quiet steps *)

LEMMA PlaceDelivers ==
    ASSUME Deliveries, NEW h \in Handlers, PlaceOrder(h) PROVE Deliveries'
<1> USE DEF Deliveries, Delivering, At, Go
<1>1. PICK j \in Jobs[h] : j.op = "place" /\ job' = [job EXCEPT ![h] = j]
  BY DEF PlaceOrder
<1>2. j \in Job /\ j.order = h /\ h \in OrderIds
  BY <1>1, EventsAssumption DEF OrderIds
<1>3. NewOrder \in Order /\ NewOrder # None /\ Changes(NewOrder) = {}
  BY EventsAssumption DEF NewOrder, Order, Changes
<1>4. EventsTypeOK'
  BY <1>1, <1>2, <1>3 DEF EventsTypeOK, PlaceOrder, Labels
<1>5. orders' = [orders EXCEPT ![h] = NewOrder] /\ stored' = stored \cup {h}
  BY DEF PlaceOrder
<1>6. \A o \in OrderIds : orders'[o] # None => Changes(orders'[o]) \subseteq stored'
  BY <1>2, <1>3, <1>5 DEF EventsTypeOK
<1>7. HandlerOK(h)'
  BY <1>1, <1>2, <1>3 DEF EventsTypeOK, HandlerOK, PlaceOrder, Target, Sending
<1>8. QuietStep(h)
  BY <1>1, <1>3 DEF EventsTypeOK, QuietStep, PlaceOrder, Sending
<1> QED BY <1>4, <1>6, <1>7, <1>8, QuietDeliveries

LEMMA ArriveDelivers ==
    ASSUME Deliveries, NEW h \in Handlers, ArriveShip(h) PROVE Deliveries'
<1> USE DEF Deliveries, Delivering, At, Go
<1>1. PICK j \in Jobs[h] : j.op = "ship" /\ job' = [job EXCEPT ![h] = j]
  BY DEF ArriveShip
<1>2. j \in Job
  BY EventsAssumption
<1>3. EventsTypeOK'
  BY <1>1, <1>2 DEF EventsTypeOK, ArriveShip, Labels
<1>4. HandlerOK(h)'
  BY <1>1, <1>2 DEF EventsTypeOK, HandlerOK, ArriveShip, Sending
<1>5. QuietStep(h)
  BY <1>1 DEF EventsTypeOK, QuietStep, ArriveShip, Sending
<1>6. UNCHANGED <<orders, stored>>
  BY DEF ArriveShip
<1> QED BY <1>3, <1>4, <1>5, <1>6, QuietDeliveries

LEMMA UpdateDelivers ==
    ASSUME Deliveries, NEW h \in Handlers, SendUpdate(h) PROVE Deliveries'
<1> USE DEF Deliveries, Delivering, At, Go
<1>1. PICK j \in Jobs[h] :
        /\ j.op = "update" /\ orders[j.order] # None
        /\ job' = [job EXCEPT ![h] = j]
        /\ draft' = [draft EXCEPT
             ![h] = [orders[j.order] EXCEPT !.edits = @ \cup {h}]]
  BY DEF SendUpdate
<1>2. j \in Job /\ j.order \in OrderIds
  BY EventsAssumption DEF Job
<1>3. orders[j.order] \in Order /\ Changes(orders[j.order]) \subseteq stored
  BY <1>1, <1>2 DEF EventsTypeOK
<1> DEFINE body == [orders[j.order] EXCEPT !.edits = @ \cup {h}]
<1>4. body \in Order /\ Changes(body) \subseteq stored \cup {h}
  BY <1>3 DEF Order, Changes
<1> HIDE DEF body
<1>5. draft' = [draft EXCEPT ![h] = body]
  BY <1>1 DEF body
<1>6. /\ pc[h] = "idle" /\ job' = [job EXCEPT ![h] = j]
      /\ pc' = [pc EXCEPT ![h] = "verify"]
      /\ UNCHANGED <<orders, tries, outcome, inbox, stored, crashes>>
  BY <1>1 DEF SendUpdate
<1>7. EventsTypeOK'
  BY <1>2, <1>4, <1>5, <1>6 DEF EventsTypeOK, Labels
<1>8. HandlerOK(h)'
  BY <1>2, <1>4, <1>5, <1>6 DEF EventsTypeOK, HandlerOK, Sending
<1>9. QuietStep(h)
  BY <1>5, <1>6 DEF EventsTypeOK, QuietStep, Sending
<1> QED BY <1>6, <1>7, <1>8, <1>9, QuietDeliveries

LEMMA ReadDelivers ==
    ASSUME Deliveries, NEW h \in Handlers, ReadOrder(h) PROVE Deliveries'
<1> USE DEF Deliveries, Delivering, At, Go
<1>1. /\ HandlerOK(h) /\ pc[h] = "read" /\ Target(h) \in OrderIds
      /\ UNCHANGED <<orders, job, tries, inbox, stored, crashes>>
  BY DEF ReadOrder, HandlerOK, Target, Job
<1>2. CASE orders[Target(h)] = None
  <2>1. Finish(h, "failed") /\ UNCHANGED draft
    BY <1>2 DEF ReadOrder
  <2>2. EventsTypeOK'
    BY <1>1, <2>1 DEF EventsTypeOK, Finish, Labels, Outcomes
  <2>3. HandlerOK(h)'
    BY <1>1, <2>1 DEF EventsTypeOK, HandlerOK, Finish, Sending
  <2>4. QuietStep(h)
    BY <1>1, <2>1 DEF EventsTypeOK, QuietStep, HandlerOK, Finish, Sending
  <2> QED BY <1>1, <2>2, <2>3, <2>4, QuietDeliveries
<1>3. CASE orders[Target(h)] # None
  <2> DEFINE order == [orders[Target(h)] EXCEPT !.events = @ \cup {h}]
  <2>1. /\ draft' = [draft EXCEPT ![h] = order] /\ UNCHANGED outcome
        /\ pc' = [pc EXCEPT ![h] = "save"]
    BY <1>3 DEF ReadOrder
  <2>2. orders[Target(h)] \in Order /\ Changes(orders[Target(h)]) \subseteq stored
    BY <1>1, <1>3 DEF EventsTypeOK
  <2>3. order \in Order /\ Changes(order) \subseteq stored \cup {h}
    BY <2>2 DEF Order, Changes
  <2> HIDE DEF order
  <2>4. EventsTypeOK'
    BY <1>1, <2>1, <2>3 DEF EventsTypeOK, Labels
  <2>5. HandlerOK(h)'
    BY <1>1, <2>1, <2>3 DEF EventsTypeOK, HandlerOK, Sending
  <2>6. QuietStep(h)
    BY <1>1, <2>1 DEF EventsTypeOK, QuietStep, Sending
  <2> QED BY <1>1, <2>4, <2>5, <2>6, QuietDeliveries
<1> QED BY <1>2, <1>3

LEMMA SaveDelivers ==
    ASSUME Deliveries, NEW h \in Handlers, SaveOrder(h) PROVE Deliveries'
<1> USE DEF Deliveries, Delivering, At, Go
<1>1. /\ HandlerOK(h) /\ pc[h] = "save" /\ Target(h) \in OrderIds
      /\ draft[h] \in Order /\ Changes(draft[h]) \subseteq stored \cup {h}
      /\ draft[h] # None
      /\ orders' = [orders EXCEPT ![Target(h)] = draft[h]]
      /\ stored' = stored \cup {h}
      /\ pc' = [pc EXCEPT ![h] = IF job[h].op = "ship" THEN "load" ELSE "done"]
      /\ UNCHANGED <<job, draft, tries, outcome, inbox, crashes>>
  BY EventsAssumption DEF SaveOrder, HandlerOK, Target, Job
<1>2. EventsTypeOK'
  BY <1>1 DEF EventsTypeOK, Labels
<1>3. \A o \in OrderIds : orders'[o] # None => Changes(orders'[o]) \subseteq stored'
  BY <1>1 DEF EventsTypeOK
<1>4. HandlerOK(h)'
  BY <1>1 DEF EventsTypeOK, HandlerOK, Target, Sending
<1>5. QuietStep(h)
  BY <1>1 DEF EventsTypeOK, QuietStep, Sending
<1> QED BY <1>2, <1>3, <1>4, <1>5, QuietDeliveries

LEMMA LoadDelivers ==
    ASSUME Deliveries, NEW h \in Handlers, LoadBody(h) PROVE Deliveries'
<1> USE DEF Deliveries, Delivering, At, Go
<1>1. /\ HandlerOK(h) /\ pc[h] = "load" /\ Target(h) \in OrderIds
      /\ UNCHANGED <<orders, job, tries, inbox, stored, crashes>>
      /\ orders[Target(h)] \in Order /\ Changes(orders[Target(h)]) \subseteq stored
  BY DEF LoadBody, HandlerOK, Target, Job, EventsTypeOK
<1>2. CASE Target(h) \notin Subscribed
  <2>1. Finish(h, "unsubscribed") /\ UNCHANGED draft
    BY <1>2 DEF LoadBody
  <2>2. EventsTypeOK'
    BY <1>1, <2>1 DEF EventsTypeOK, Finish, Labels, Outcomes
  <2>3. HandlerOK(h)'
    BY <1>1, <2>1 DEF EventsTypeOK, HandlerOK, Finish, Sending
  <2>4. QuietStep(h)
    BY <1>1, <2>1 DEF EventsTypeOK, QuietStep, HandlerOK, Finish, Sending
  <2> QED BY <1>1, <2>2, <2>3, <2>4, QuietDeliveries
<1>3. CASE Target(h) \in Subscribed
  <2>1. /\ draft' = [draft EXCEPT ![h] = orders[Target(h)]] /\ UNCHANGED outcome
        /\ pc' = [pc EXCEPT ![h] = "attempt"]
    BY <1>3 DEF LoadBody
  <2>2. EventsTypeOK'
    BY <1>1, <2>1 DEF EventsTypeOK, Labels
  <2>3. HandlerOK(h)'
    BY <1>1, <2>1, EventsAssumption DEF EventsTypeOK, HandlerOK, Sending
  <2>4. QuietStep(h)
    BY <1>1, <2>1 DEF EventsTypeOK, QuietStep, Sending
  <2> QED BY <1>1, <2>2, <2>3, <2>4, QuietDeliveries
<1> QED BY <1>2, <1>3

\* The steps that move the handler on, or end it, and nothing else.
LEMMA MoveDelivers ==
    ASSUME Deliveries, NEW h \in Handlers,
           VerifyOrder(h) \/ SaveTimesOut(h) \/ Retry(h) \/ Abort(h)
    PROVE  Deliveries'
<1> USE DEF Deliveries, Delivering, At, Go
<1>1. /\ HandlerOK(h)
      /\ UNCHANGED <<orders, job, draft, tries, inbox, stored, crashes>>
  BY DEF VerifyOrder, SaveTimesOut, Retry, Abort
<1>2. CASE VerifyOrder(h) \/ Retry(h)
  <2>1. /\ UNCHANGED outcome
        /\ \/ pc[h] = "verify" /\ pc' = [pc EXCEPT ![h] = "save"]
           \/ pc[h] = "backoff" /\ pc' = [pc EXCEPT ![h] = "attempt"]
    BY <1>2 DEF VerifyOrder, Retry
  <2>2. EventsTypeOK'
    BY <1>1, <2>1 DEF EventsTypeOK, Labels
  <2>3. HandlerOK(h)'
    BY <1>1, <2>1 DEF EventsTypeOK, HandlerOK, Sending
  <2>4. QuietStep(h)
    BY <1>1, <2>1 DEF EventsTypeOK, QuietStep, Sending
  <2> QED BY <1>1, <2>2, <2>3, <2>4, QuietDeliveries
<1>3. CASE SaveTimesOut(h) \/ Abort(h)
  <2>1. /\ pc[h] \in {"save", "attempt"}
        /\ Finish(h, "failed") \/ Finish(h, "aborted")
    BY <1>3 DEF SaveTimesOut, Abort
  <2>2. EventsTypeOK'
    BY <1>1, <2>1 DEF EventsTypeOK, Finish, Labels, Outcomes
  <2>3. HandlerOK(h)'
    BY <1>1, <2>1 DEF EventsTypeOK, HandlerOK, Finish, Sending
  <2>4. QuietStep(h)
    BY <1>1, <2>1 DEF EventsTypeOK, QuietStep, HandlerOK, Finish, Sending
  <2> QED BY <1>1, <2>2, <2>3, <2>4, QuietDeliveries
<1> QED BY <1>2, <1>3

-----------------------------------------------------------------------------
(* Posting, crashing, starting *)

\* What an attempt does, whichever way it ends: it posts at most once, and
\* the handler believes the platform's verdict.
LEMMA AttemptStep ==
    ASSUME Deliveries, NEW h \in Handlers, Attempt(h)
    PROVE  \E P \in SUBSET Post, reply \in {"ack", "reject", "fail"} :
             /\ inbox' = inbox \cup P
             /\ \A m \in P : /\ m.event = h /\ m.attempt = tries[h] + 1
                             /\ m.body = draft[h] /\ m.reply = reply
             /\ reply # "fail" => P # {}
             /\ \/ /\ reply = "fail" /\ pc' = [pc EXCEPT ![h] = "backoff"]
                   /\ tries[h] + 1 < MaxAttempts /\ outcome' = outcome
                \/ /\ reply = "fail" /\ pc' = [pc EXCEPT ![h] = "done"]
                   /\ tries[h] + 1 = MaxAttempts
                   /\ outcome' = [outcome EXCEPT ![h] = "gave_up"]
                \/ /\ reply = "ack" /\ pc' = [pc EXCEPT ![h] = "done"]
                   /\ outcome' = [outcome EXCEPT ![h] = "acked"]
                \/ /\ reply = "reject" /\ pc' = [pc EXCEPT ![h] = "done"]
                   /\ outcome' = [outcome EXCEPT ![h] = "rejected"]
<1> DEFINE post(r) ==
      [event |-> h, attempt |-> tries[h] + 1, body |-> draft[h], reply |-> r]
<1>1. /\ draft[h] \in Order /\ tries[h] < MaxAttempts
      /\ tries[h] \in Nat /\ MaxAttempts \in Nat
  BY EventsAssumption
     DEF Deliveries, Delivering, EventsTypeOK, HandlerOK, Sending, Attempt, At
<1>2. \A r \in {"ack", "reject", "fail"} : {post(r)} \in SUBSET Post
  BY <1>1 DEF Post
<1>3. /\ \A r \in {"ack", "reject", "fail"} : \A m \in {post(r)} :
           /\ m.event = h /\ m.attempt = tries[h] + 1
           /\ m.body = draft[h] /\ m.reply = r
      /\ \A r \in {"ack", "reject", "fail"} : {post(r)} # {}
  OBVIOUS
<1>4. CASE Received(h, "ack") /\ Finish(h, "acked")
  <2>1. inbox' = inbox \cup {post("ack")}
    BY <1>4 DEF Received
  <2> HIDE DEF post
  <2> QED BY <1>2, <1>3, <1>4, <2>1 DEF Finish, Go
<1>5. CASE Received(h, "reject") /\ Finish(h, "rejected")
  <2>1. inbox' = inbox \cup {post("reject")}
    BY <1>5 DEF Received
  <2> HIDE DEF post
  <2> QED BY <1>2, <1>3, <1>5, <2>1 DEF Finish, Go
<1>6. CASE /\ Received(h, "fail") \/ UNCHANGED inbox
           /\ IF tries[h] + 1 < MaxAttempts
              THEN Go(h, "backoff") /\ UNCHANGED outcome
              ELSE Finish(h, "gave_up")
  <2>1. PICK P \in {{}, {post("fail")}} : inbox' = inbox \cup P
    BY <1>6 DEF Received
  <2>2. \/ /\ pc' = [pc EXCEPT ![h] = "backoff"]
           /\ tries[h] + 1 < MaxAttempts /\ outcome' = outcome
        \/ /\ pc' = [pc EXCEPT ![h] = "done"]
           /\ tries[h] + 1 = MaxAttempts
           /\ outcome' = [outcome EXCEPT ![h] = "gave_up"]
    BY <1>1, <1>6 DEF Finish, Go
  <2> HIDE DEF post
  <2>3. P \in SUBSET Post
    BY <1>2
  <2>4. \A m \in P : /\ m.event = h /\ m.attempt = tries[h] + 1
                     /\ m.body = draft[h] /\ m.reply = "fail"
    BY <1>3
  <2> QED BY <2>1, <2>2, <2>3, <2>4
<1> QED BY <1>4, <1>5, <1>6 DEF Attempt

\* The one step that posts: it is the next attempt of an event of which the
\* platform has only failed posts so far.
LEMMA AttemptDelivers ==
    ASSUME Deliveries, NEW h \in Handlers, Attempt(h) PROVE Deliveries'
<1>1. /\ HandlerOK(h) /\ pc[h] = "attempt" /\ EventsTypeOK
      /\ tries' = [tries EXCEPT ![h] = @ + 1]
      /\ UNCHANGED <<orders, job, draft, stored, crashes>>
  BY DEF Attempt, Deliveries, Delivering, At
<1>2. /\ draft[h] \in Order /\ Changes(draft[h]) \subseteq stored /\ h \in stored
      /\ outcome[h] = None /\ tries[h] \in Nat /\ tries[h] < MaxAttempts
      /\ MaxAttempts \in Nat /\ job[h] \in Job
  BY <1>1, EventsAssumption DEF HandlerOK, Sending, EventsTypeOK
<1>3. None \notin {"acked", "rejected", "gave_up"}
  BY EventsAssumption DEF Outcomes
<1>4. PICK P \in SUBSET Post, reply \in {"ack", "reject", "fail"} :
        /\ inbox' = inbox \cup P
        /\ \A m \in P : /\ m.event = h /\ m.attempt = tries[h] + 1
                        /\ m.body = draft[h] /\ m.reply = reply
        /\ reply # "fail" => P # {}
        /\ \/ /\ reply = "fail" /\ pc' = [pc EXCEPT ![h] = "backoff"]
              /\ tries[h] + 1 < MaxAttempts /\ outcome' = outcome
           \/ /\ reply = "fail" /\ pc' = [pc EXCEPT ![h] = "done"]
              /\ tries[h] + 1 = MaxAttempts
              /\ outcome' = [outcome EXCEPT ![h] = "gave_up"]
           \/ /\ reply = "ack" /\ pc' = [pc EXCEPT ![h] = "done"]
              /\ outcome' = [outcome EXCEPT ![h] = "acked"]
           \/ /\ reply = "reject" /\ pc' = [pc EXCEPT ![h] = "done"]
              /\ outcome' = [outcome EXCEPT ![h] = "rejected"]
  BY AttemptStep
<1>5. /\ tries'[h] = tries[h] + 1
      /\ \A g \in Handlers \ {h} :
           tries'[g] = tries[g] /\ pc'[g] = pc[g] /\ outcome'[g] = outcome[g]
  BY <1>1, <1>4 DEF EventsTypeOK
<1>6. \A m \in inbox :
        /\ m.event \in Handlers /\ m.attempt \in Nat
        /\ m.event = h => /\ m.reply = "fail" /\ m.attempt <= tries[h]
                          /\ m.body = draft[h]
  BY <1>1, <1>2, <1>3 DEF EventsTypeOK, Post, Deliveries, Delivering, PostOK
<1>7. EventsTypeOK'
  <2>1. tries' \in [Handlers -> 0..MaxAttempts]
    BY <1>1, <1>2 DEF EventsTypeOK
  <2>2. pc' \in [Handlers -> Labels]
    BY <1>1, <1>4 DEF EventsTypeOK, Labels
  <2>3. outcome' \in [Handlers -> Outcomes \cup {None}]
    BY <1>1, <1>4 DEF EventsTypeOK, Outcomes
  <2>4. inbox' \subseteq Post
    BY <1>1, <1>4 DEF EventsTypeOK
  <2> QED BY <1>1, <2>1, <2>2, <2>3, <2>4 DEF EventsTypeOK
<1>8. HandlerOK(h)'
  BY <1>1, <1>2, <1>4, <1>5 DEF EventsTypeOK, HandlerOK, Sending
<1>9. \A g \in Handlers \ {h} : HandlerOK(g)'
  BY <1>1, <1>5, OtherHandlers DEF Deliveries
<1>10. ASSUME NEW m \in inbox' PROVE PostOK(m)'
  <2>1. pc'[h] \in {"backoff", "done"}
    BY <1>1, <1>4 DEF EventsTypeOK
  <2>2. reply = "fail" \/ outcome'[h] \in {"acked", "rejected"}
    BY <1>1, <1>4 DEF EventsTypeOK
  <2>3. CASE m.event = h
    <3>1. m.attempt <= tries'[h] /\ m.body = draft[h] /\ m.reply \in {"fail", reply}
      BY <1>2, <1>4, <1>5, <1>6, <2>3
    <3> QED BY <1>1, <2>1, <2>2, <2>3, <3>1 DEF PostOK, Sending
  <2>4. CASE m.event # h
    <3>1. m \in inbox /\ m.event \in Handlers /\ PostOK(m)
      BY <1>4, <1>6, <2>4 DEF Deliveries, Delivering
    <3> QED BY <1>1, <1>5, <2>4, <3>1 DEF PostOK
  <2> QED BY <2>3, <2>4
<1>11. VerdictIsLast'
  <2> SUFFICES ASSUME NEW m \in inbox', NEW n \in inbox',
                      m.event = n.event, m.attempt < n.attempt
               PROVE  m.reply = "fail"
    BY DEF VerdictIsLast
  <2>1. CASE m.event = h
    <3>1. n.attempt <= tries[h] + 1 /\ n.attempt \in Nat
      <4>1. CASE n \in inbox
        <5>1. n.attempt \in Nat /\ n.attempt <= tries[h]
          BY <1>6, <2>1, <4>1
        <5> QED BY <1>2, <5>1
      <4>2. CASE n \in P
        <5>1. n.attempt = tries[h] + 1
          BY <1>4, <4>2
        <5> QED BY <1>2, <5>1
      <4> QED BY <1>4, <4>1, <4>2
    <3>2. m \notin P
      BY <1>2, <1>4, <2>1, <3>1
    <3> QED BY <1>4, <1>6, <2>1, <3>2
  <2>2. CASE m.event # h
    BY <1>4, <2>2 DEF Deliveries, VerdictIsLast
  <2> QED BY <2>1, <2>2
<1>12. OutcomeIsTrue'
  <2> SUFFICES ASSUME NEW g \in Handlers
               PROVE  /\ outcome'[g] = "acked" <=>
                           \E m \in inbox' : m.event = g /\ m.reply = "ack"
                      /\ outcome'[g] = "rejected" <=>
                           \E m \in inbox' : m.event = g /\ m.reply = "reject"
                      /\ outcome'[g] = "gave_up" => tries'[g] = MaxAttempts
    BY DEF OutcomeIsTrue
  <2>1. CASE g # h
    <3>1. \A r : (\E m \in inbox' : m.event = g /\ m.reply = r)
                   <=> (\E m \in inbox : m.event = g /\ m.reply = r)
      BY <1>4, <2>1
    <3> QED BY <1>5, <2>1, <3>1 DEF Deliveries, OutcomeIsTrue
  <2>2. CASE g = h
    <3>1. \A r \in {"ack", "reject"} :
            (\E m \in inbox' : m.event = h /\ m.reply = r) <=> reply = r
      <4>1. ASSUME NEW r \in {"ack", "reject"},
                   NEW m \in inbox', m.event = h, m.reply = r
            PROVE  reply = r
        BY <1>4, <1>6, <4>1
      <4>2. ASSUME NEW r \in {"ack", "reject"}, reply = r
            PROVE  \E m \in inbox' : m.event = h /\ m.reply = r
        BY <1>4, <4>2
      <4> QED BY <4>1, <4>2
    <3>2. /\ outcome'[h] = "acked" <=> reply = "ack"
          /\ outcome'[h] = "rejected" <=> reply = "reject"
          /\ outcome'[h] = "gave_up" => tries[h] + 1 = MaxAttempts
      BY <1>1, <1>2, <1>3, <1>4 DEF EventsTypeOK
    <3> QED BY <1>5, <2>2, <3>1, <3>2
  <2> QED BY <2>1, <2>2
<1>13. NoPhantomChange'
  <2> SUFFICES ASSUME NEW m \in inbox'
               PROVE  {m.event} \cup Changes(m.body) \subseteq stored
    BY <1>1 DEF NoPhantomChange
  <2> QED BY <1>2, <1>4 DEF Deliveries, NoPhantomChange
<1>14. \A o \in OrderIds : orders'[o] # None => Changes(orders'[o]) \subseteq stored'
  BY <1>1 DEF Deliveries, Delivering
<1> QED
  BY <1>7, <1>8, <1>9, <1>10, <1>11, <1>12, <1>13, <1>14 DEF Deliveries, Delivering, Changes

LEMMA CrashDelivers ==
    ASSUME Deliveries, Crash PROVE Deliveries'
<1>1. /\ EventsTypeOK
      /\ pc' = [h \in Handlers |-> IF pc[h] = "idle" THEN "idle" ELSE "done"]
      /\ crashes' = crashes + 1
      /\ UNCHANGED <<orders, job, draft, tries, outcome, inbox, stored>>
  BY DEF Deliveries, Delivering, Crash, At
<1>2. EventsTypeOK'
  BY <1>1 DEF EventsTypeOK, Labels
<1>3. \A h \in Handlers : HandlerOK(h)'
  BY <1>1 DEF Deliveries, Delivering, HandlerOK, Sending
<1>4. ASSUME NEW m \in inbox' PROVE PostOK(m)'
  <2>1. m.event \in Handlers /\ PostOK(m)
    BY <1>1 DEF Deliveries, Delivering, EventsTypeOK, Post
  <2> QED BY <1>1, <2>1 DEF PostOK, Sending
<1> QED
  BY <1>1, <1>2, <1>3, <1>4
     DEF Deliveries, Delivering, VerdictIsLast, OutcomeIsTrue, NoPhantomChange, Changes

LEMMA InitDelivers == Init => Deliveries
<1> SUFFICES ASSUME Init PROVE Deliveries
  OBVIOUS
<1>1. NewOrder \in Order /\ Changes(NewOrder) = {}
  BY DEF NewOrder, Order, Changes
<1>2. EventsTypeOK
  BY <1>1, EventsAssumption DEF Init, EventsTypeOK, Labels
<1>3. \A h \in Handlers : HandlerOK(h)
  BY DEF Init, HandlerOK, Sending
<1>4. OutcomeIsTrue
  BY EventsAssumption DEF Init, OutcomeIsTrue, Outcomes
<1>5. \A o \in OrderIds : orders[o] # None => Changes(orders[o]) \subseteq stored
  BY <1>1 DEF Init
<1> QED
  BY <1>2, <1>3, <1>4, <1>5 DEF Init, Deliveries, Delivering, VerdictIsLast, NoPhantomChange

LEMMA StutterDelivers ==
    ASSUME Deliveries, UNCHANGED vars PROVE Deliveries'
BY DEF Deliveries, Delivering, EventsTypeOK, HandlerOK, PostOK, VerdictIsLast,
       OutcomeIsTrue, NoPhantomChange, Target, Changes, vars

-----------------------------------------------------------------------------

\* The invariant of the whole delivery: each handler has in hand only what is
\* stored or its own change, each post is an attempt its handler has made with
\* the body it has, and the four properties that follow.
THEOREM Delivery == Spec => []Deliveries
<1>1. ASSUME Deliveries, [Next]_vars PROVE Deliveries'
  <2>1. ASSUME NEW h \in Handlers, PlaceOrder(h) PROVE Deliveries'
    BY <1>1, <2>1, PlaceDelivers
  <2>2. ASSUME NEW h \in Handlers, ArriveShip(h) PROVE Deliveries'
    BY <1>1, <2>2, ArriveDelivers
  <2>3. ASSUME NEW h \in Handlers, SendUpdate(h) PROVE Deliveries'
    BY <1>1, <2>3, UpdateDelivers
  <2>4. ASSUME NEW h \in Handlers, ReadOrder(h) PROVE Deliveries'
    BY <1>1, <2>4, ReadDelivers
  <2>5. ASSUME NEW h \in Handlers, SaveOrder(h) PROVE Deliveries'
    BY <1>1, <2>5, SaveDelivers
  <2>6. ASSUME NEW h \in Handlers, LoadBody(h) PROVE Deliveries'
    BY <1>1, <2>6, LoadDelivers
  <2>7. ASSUME NEW h \in Handlers,
               VerifyOrder(h) \/ SaveTimesOut(h) \/ Retry(h) \/ Abort(h)
        PROVE  Deliveries'
    BY <1>1, <2>7, MoveDelivers
  <2>8. ASSUME NEW h \in Handlers, Attempt(h) PROVE Deliveries'
    BY <1>1, <2>8, AttemptDelivers
  <2>9. CASE Crash
    BY <1>1, <2>9, CrashDelivers
  <2>10. CASE UNCHANGED vars
    BY <1>1, <2>10, StutterDelivers
  <2> QED
    BY <1>1, <2>1, <2>2, <2>3, <2>4, <2>5, <2>6, <2>7, <2>8, <2>9, <2>10
       DEF Next, Handle, Quiescent
<1> QED BY <1>1, InitDelivers, PTL DEF Spec

\* A platform that keeps one copy of each event (Webhook-Id) loses nothing:
\* all attempts of an event carry the body serialized once, before the first.
THEOREM SameBody == Spec => []CopiesAgree
<1>1. Deliveries => CopiesAgree
  BY DEF Deliveries, Delivering, PostOK, CopiesAgree
<1> QED BY <1>1, Delivery, PTL

\* After a 2xx or a permanent rejection, nothing more of that event is sent.
THEOREM LastWord == Spec => []VerdictIsLast
<1>1. Deliveries => VerdictIsLast
  BY DEF Deliveries
<1> QED BY <1>1, Delivery, PTL

\* What the server logs of an event is what the platform said of it, and it
\* gives up only after the configured number of attempts.
THEOREM HonestLog == Spec => []OutcomeIsTrue
<1>1. Deliveries => OutcomeIsTrue
  BY DEF Deliveries
<1> QED BY <1>1, Delivery, PTL

\* No notification announces a change the database does not hold.
THEOREM StoredFirst == Spec => []NoPhantomChange
<1>1. Deliveries => NoPhantomChange
  BY DEF Deliveries
<1> QED BY <1>1, Delivery, PTL

\* Every table, handler and post has the type the code gives it.
THEOREM EventsTypes == Spec => []EventsTypeOK
<1>1. Deliveries => EventsTypeOK
  BY DEF Deliveries, Delivering
<1> QED BY <1>1, Delivery, PTL
=============================================================================
