---------------------------- MODULE GoldenProofs ----------------------------
(***************************************************************************)
(* Proofs about GoldenServer, for every set of requests, keys, items and   *)
(* every menu, in five parts.                                              *)
(*   1. Types: what each await of a handler finds in the tables and in     *)
(*      what it has carried along.                                         *)
(*   2. Checkouts and orders, and the refinement of the shop.  Most steps  *)
(*      touch neither checkouts nor orders nor stock; they are quiet, and  *)
(*      one lemma serves them all.  What is left is the read under the     *)
(*      lock, the four commits of the checkout service, and the crash.     *)
(*   3. What the Idempotency-Key records guarantee: an effect has its      *)
(*      record, an answer is the record's, and what a record says of a     *)
(*      finished checkout stays true.  Every step keeps what holds of the  *)
(*      other requests and of the records already there (OthersKept); what *)
(*      is left is what the step does for its own request.                 *)
(*   4. What may change at all, and that conversions name their cart.      *)
(*   5. Stock: the units that inventory lost are the units of the orders.  *)
(***************************************************************************)
EXTENDS GoldenServer, FiniteSetTheorems, TLAPS

-----------------------------------------------------------------------------
(* Facts about single requests and rows *)

\* What the constants say of a request that has arrived.
LEMMA ArrivedRequest ==
    ASSUME NEW p \in Requests, CarriedOK(p), pc[p] # "idle"
    PROVE  /\ req[p] \in RequestType
           /\ req[p].key \in Keys
           /\ Target(p) \in Ids
           /\ req[p].op \in {"create_checkout", "create_cart"} <=> req[p].id = None
           /\ req[p].op \notin {"create_checkout", "create_cart"} => req[p].id \in Ids
           /\ req[p].op \in {"create_cart", "update_cart"} => req[p].lines \in Lines
           /\ req[p].op = "create_checkout" =>
                (req[p].lines # None <=> req[p].cart_id = None)
<1>1. req[p] \in Menu[p] /\ req[p] \in RequestType
  BY ConstantsAssumption DEF CarriedOK
<1>2. /\ req[p].op \in {"create_checkout", "create_cart"} <=> req[p].id = None
      /\ req[p].op \in {"create_cart", "update_cart"} => req[p].lines # None
      /\ req[p].op = "create_checkout" =>
           (req[p].lines # None <=> req[p].cart_id = None)
  BY <1>1, ConstantsAssumption
<1>3. /\ req[p].key \in Keys /\ req[p].id \in Ids \cup {None}
      /\ req[p].lines \in Lines \cup {None}
  BY <1>1 DEF RequestType
<1>4. Target(p) \in Ids
  BY <1>3 DEF Target, Ids
<1> QED
  BY <1>1, <1>2, <1>3, <1>4

LEMMA HashType_ ==
    ASSUME NEW r \in RequestType PROVE Hash(r) \in HashType
<1>1. CASE r.op \in CheckoutOps
  BY <1>1 DEF Hash, HashType, RequestType
<1>2. CASE r.op \notin CheckoutOps
  <2>1. r.op \in CartOps /\ r.lines \in Lines \cup {None}
    BY <1>2 DEF RequestType
  <2> QED BY <1>2, <2>1 DEF Hash, HashType
<1> QED BY <1>1, <1>2

\* The row a create makes of its request and its lines.
LEMMA NewRowType ==
    ASSUME NEW r \in RequestType, NEW lines \in Lines
    PROVE  /\ NewCheckout(r, lines) \in CheckoutRow
           /\ NewCheckout(r, lines).status = "ready_for_complete"
           /\ NewCheckout(r, lines).order = None
<1>1. Ship(r.ship, FALSE) \in BOOLEAN /\ r.cart_id \in Ids \cup {None}
  BY DEF Ship, RequestType
<1> QED BY <1>1 DEF NewCheckout, CheckoutRow, Status

\* The row an operation makes of the row it has read.
LEMMA ChangedRowTypes ==
    ASSUME NEW r \in RequestType, NEW row \in CheckoutRow, NEW o \in Requests
    PROVE  /\ UpdatedCheckout(r, row) \in CheckoutRow
           /\ CompletedCheckout(row, o) \in CheckoutRow
           /\ CanceledCheckout(row) \in CheckoutRow
<1>1. Ship(r.ship, row.ship) \in BOOLEAN /\ r.lines \in Lines \cup {None}
  BY DEF Ship, RequestType, CheckoutRow
<1>2. UpdatedCheckout(r, row) \in CheckoutRow
  BY <1>1 DEF UpdatedCheckout, CheckoutRow
<1>3. CompletedCheckout(row, o) \in CheckoutRow
  BY DEF CompletedCheckout, CheckoutRow, Status, Terminal
<1>4. CanceledCheckout(row) \in CheckoutRow
  BY DEF CanceledCheckout, CheckoutRow, Status, Terminal
<1> QED BY <1>2, <1>3, <1>4

-----------------------------------------------------------------------------
(* Facts about the steps handlers are made of *)

LEMMA GoTypes ==
    ASSUME HandlersOK, NEW p \in Requests, NEW l \in Labels, Go(p, l),
           UNCHANGED <<req, resp>>,
           \/ UNCHANGED draft
           \/ \E d \in CheckoutRow \cup Lines : draft' = [draft EXCEPT ![p] = d],
           CarriedOK(p)'
    PROVE  HandlersOK'
<1>1. ASSUME NEW q \in Requests, q # p PROVE CarriedOK(q)'
  <2>1. pc'[q] = pc[q] /\ draft'[q] = draft[q] /\ req'[q] = req[q]
    BY <1>1 DEF HandlersOK, Go
  <2> QED BY <2>1 DEF HandlersOK, CarriedOK
<1> QED BY <1>1 DEF HandlersOK, Go

LEMMA AnswerTypes ==
    ASSUME HandlersOK, NEW p \in Requests, NEW code \in Codes,
           NEW body \in Body \cup {None}, Answer(p, code, body), pc[p] # "idle"
    PROVE  HandlersOK'
<1>1. ASSUME NEW q \in Requests, q # p PROVE CarriedOK(q)'
  <2>1. pc'[q] = pc[q] /\ draft'[q] = draft[q] /\ req'[q] = req[q]
    BY <1>1 DEF HandlersOK, Answer, Go
  <2> QED BY <2>1 DEF HandlersOK, CarriedOK
<1>2. CarriedOK(p)'
  BY DEF HandlersOK, CarriedOK, Answer, Go, CartCommits
<1>3. "done" \in Labels
  BY DEF Labels
<1>4. [code |-> code, body |-> body] \in Response
  BY DEF Response
<1> QED BY <1>1, <1>2, <1>3, <1>4 DEF HandlersOK, Answer, Go

LEMMA RecordAnswerTypes ==
    ASSUME TypeOK, NEW p \in Requests, pc[p] # "idle", AnswerFromRecord(p)
    PROVE  HandlersOK'
<1>1. idempotency[req[p].key] \in Record
  BY ArrivedRequest DEF TypeOK, TablesOK, HandlersOK, AnswerFromRecord
<1>2. idempotency[req[p].key].body \in Body
  BY <1>1 DEF Record
<1>3. \/ Answer(p, "ok", idempotency[req[p].key].body)
      \/ Answer(p, "key_conflict", None)
  BY DEF AnswerFromRecord
<1>4. "ok" \in Codes /\ "key_conflict" \in Codes
  BY DEF Codes
<1> QED BY <1>2, <1>3, <1>4, AnswerTypes DEF TypeOK

LEMMA SaveRecordTypes ==
    ASSUME TypeOK, NEW p \in Requests, pc[p] # "idle", NEW body \in Body,
           SaveRecord(p, body)
    PROVE  idempotency' \in [Keys -> Record \cup {None}]
<1>1. Hash(req[p]) \in HashType /\ req[p].key \in Keys
  BY ArrivedRequest, HashType_ DEF TypeOK, HandlersOK
<1>2. [hash |-> Hash(req[p]), body |-> body] \in Record
  BY <1>1 DEF Record
<1> QED BY <1>1, <1>2 DEF SaveRecord, TypeOK, TablesOK

\* The commit of a checkout row with its key record and its answer.
LEMMA StoreTypes ==
    ASSUME TypeOK, NEW p \in Requests, pc[p] # "idle", NEW id \in Ids,
           NEW row \in CheckoutRow, Store(p, id, row)
    PROVE  /\ [id |-> id, content |-> row] \in Body
           /\ checkouts' \in [Ids -> CheckoutRow \cup {None}]
           /\ idempotency' \in [Keys -> Record \cup {None}]
<1>1. [id |-> id, content |-> row] \in Body
  BY DEF Body
<1>2. idempotency' \in [Keys -> Record \cup {None}]
  BY <1>1, SaveRecordTypes DEF Store
<1> QED BY <1>1, <1>2 DEF Store, TypeOK, TablesOK

-----------------------------------------------------------------------------
(* Type correctness *)

LEMMA InitTypeOK == Init => TypeOK
<1> SUFFICES ASSUME Init PROVE TypeOK
  OBVIOUS
<1> USE ConstantsAssumption DEF Init
<1>1. checkouts \in [Ids -> CheckoutRow \cup {None}]
  BY DEF Ids
<1>2. carts \in [Ids -> Lines \cup {None}]
  BY DEF Ids
<1>3. pc \in [Requests -> Labels]
  BY DEF Labels
<1>4. \A p \in Requests : CarriedOK(p)
  BY DEF CarriedOK, CartCommits
<1>5. TablesOK
  BY <1>1, <1>2 DEF TablesOK
<1>6. HandlersOK
  BY <1>3, <1>4 DEF HandlersOK
<1> QED
  BY <1>5, <1>6 DEF TypeOK

\* The steps of GoldenDb that any handler may take.
LEMMA ArriveTypes ==
    ASSUME TypeOK, NEW p \in Requests, Arrive(p) PROVE TypeOK'
<1>1. PICK r \in Menu[p] : req' = [req EXCEPT ![p] = r]
  BY DEF Arrive
<1>2. r \in RequestType
  BY ConstantsAssumption
<1>3. ASSUME NEW q \in Requests, q # p PROVE CarriedOK(q)'
  <2>1. pc'[q] = pc[q] /\ draft'[q] = draft[q] /\ req'[q] = req[q]
    BY <1>1, <1>3 DEF TypeOK, HandlersOK, Arrive, Go
  <2> QED BY <2>1 DEF TypeOK, HandlersOK, CarriedOK
<1>4. CarriedOK(p)'
  BY <1>1, <1>2 DEF TypeOK, HandlersOK, CarriedOK, Arrive, Go, CartCommits
<1>5. HandlersOK'
  BY <1>1, <1>2, <1>3, <1>4 DEF TypeOK, HandlersOK, Arrive, Go, Labels
<1>6. TablesOK'
  BY DEF TypeOK, TablesOK, Arrive, tables
<1> QED BY <1>5, <1>6 DEF TypeOK, Arrive

LEMMA LookupHitTypes ==
    ASSUME TypeOK, NEW p \in Requests, LookupHit(p) PROVE TypeOK'
<1>1. HandlersOK'
  BY RecordAnswerTypes DEF LookupHit, At
<1>2. TablesOK'
  BY DEF TypeOK, TablesOK, LookupHit, tables
<1> QED BY <1>1, <1>2 DEF TypeOK, LookupHit

LEMMA LockTimeoutTypes ==
    ASSUME TypeOK, NEW p \in Requests, LockTimeout(p) PROVE TypeOK'
<1>1. pc[p] # "idle" /\ "server_error" \in Codes
  BY DEF LockTimeout, Waiting, Codes
<1>2. HandlersOK'
  BY <1>1, AnswerTypes DEF TypeOK, LockTimeout
<1>3. TablesOK'
  BY DEF TypeOK, TablesOK, LockTimeout, tables
<1> QED BY <1>2, <1>3 DEF TypeOK, LockTimeout

LEMMA CrashTypes ==
    ASSUME TypeOK, Crash PROVE TypeOK'
<1> DEFINE InFlight == {p \in Requests : pc[p] \notin {"idle", "done"}}
<1>1. /\ pc' = [p \in Requests |-> IF p \in InFlight THEN "done" ELSE pc[p]]
      /\ resp' = [p \in Requests |->
           IF p \in InFlight THEN [code |-> "lost", body |-> None] ELSE resp[p]]
      /\ draft' = [p \in Requests |-> IF p \in InFlight THEN None ELSE draft[p]]
      /\ writer' = None /\ crashes' = crashes + 1
      /\ UNCHANGED <<tables, req, placed>>
  BY DEF Crash
<1>2. [code |-> "lost", body |-> None] \in Response
  BY DEF Response, Codes
<1>3. ASSUME NEW q \in Requests PROVE CarriedOK(q)'
  BY <1>1 DEF TypeOK, HandlersOK, CarriedOK, CartCommits
<1>4. pc' \in [Requests -> Labels]
  BY <1>1 DEF TypeOK, HandlersOK, Labels
<1>5. HandlersOK'
  BY <1>1, <1>2, <1>3, <1>4 DEF TypeOK, HandlersOK
<1>6. TablesOK'
  BY <1>1 DEF TypeOK, TablesOK, tables
<1> QED BY <1>1, <1>5, <1>6 DEF TypeOK

\* The steps of the checkout service.
LEMMA CreateTypes ==
    ASSUME TypeOK, NEW p \in Requests,
           \/ LookupCreate(p) \/ ReturnExisting(p) \/ FindNone(p) \/ LoadCart(p)
           \/ ValidateCreate(p) \/ InsertCheckout(p) \/ InsertCheckoutRaced(p)
    PROVE  TypeOK'
<1> USE DEF At
<1>0. HandlersOK /\ TablesOK /\ CarriedOK(p)
  BY DEF TypeOK, HandlersOK
<1>1. CASE LookupCreate(p)
  <2>1. req[p] \in RequestType /\ pc[p] = "lookup"
    BY <1>0, <1>1, ArrivedRequest DEF LookupCreate
  <2>2. CASE req[p].cart_id = None
    <3> DEFINE row == NewCheckout(req[p], req[p].lines)
    <3>1. req[p].lines \in Lines
      BY <1>0, <1>1, <2>1, <2>2, ArrivedRequest DEF LookupCreate, RequestType
    <3>2. /\ row \in CheckoutRow
          /\ row.status = "ready_for_complete" /\ row.order = None
      BY <2>1, <3>1, NewRowType
    <3>3. draft' = [draft EXCEPT ![p] = row] /\ Go(p, "validate") /\ UNCHANGED <<req, resp>>
      BY <1>1, <2>2 DEF LookupCreate
    <3> HIDE DEF row
    <3>4. CarriedOK(p)'
      BY <1>0, <1>1, <2>1, <3>2, <3>3
         DEF HandlersOK, CarriedOK, Go, LookupCreate, CartCommits
    <3>5. HandlersOK'
      BY <1>0, <3>2, <3>3, <3>4, GoTypes DEF Labels
    <3> QED BY <1>1, <3>5 DEF TypeOK, TablesOK, LookupCreate, tables
  <2>3. CASE req[p].cart_id # None
    <3>1. Go(p, "find") /\ UNCHANGED <<draft, req, resp>>
      BY <1>1, <2>3 DEF LookupCreate
    <3>2. CarriedOK(p)'
      BY <1>0, <1>1, <2>1, <2>3, <3>1
         DEF HandlersOK, CarriedOK, Go, LookupCreate, CartCommits
    <3>3. HandlersOK'
      BY <1>0, <3>1, <3>2, GoTypes DEF Labels
    <3> QED BY <1>1, <3>3 DEF TypeOK, TablesOK, LookupCreate, tables
  <2> QED BY <2>2, <2>3
<1>2. CASE ReturnExisting(p)
  <2>1. PICK c \in OpenCheckouts(req[p].cart_id) :
          Answer(p, "ok", [id |-> c, content |-> checkouts[c]])
    BY <1>2 DEF ReturnExisting
  <2>2. [id |-> c, content |-> checkouts[c]] \in Body
    BY <1>0 DEF OpenCheckouts, TablesOK, Body
  <2>3. HandlersOK'
    BY <1>0, <1>2, <2>1, <2>2, AnswerTypes DEF ReturnExisting, Codes
  <2> QED BY <1>2, <2>3 DEF TypeOK, TablesOK, ReturnExisting, tables
<1>3. CASE FindNone(p)
  <2>1. CarriedOK(p)'
    BY <1>0, <1>3 DEF HandlersOK, CarriedOK, Go, FindNone, CartCommits
  <2>2. HandlersOK'
    BY <1>0, <1>3, <2>1, GoTypes DEF FindNone, Labels
  <2> QED BY <1>3, <2>2 DEF TypeOK, TablesOK, FindNone, tables
<1>4. CASE LoadCart(p)
  <2> DEFINE lines == carts[req[p].cart_id]
             row == NewCheckout(req[p], lines)
  <2>1. req[p] \in RequestType /\ req[p].cart_id \in Ids /\ pc[p] = "load_cart"
    BY <1>0, <1>4, ArrivedRequest DEF LoadCart, CarriedOK, RequestType
  <2>2. CASE lines = None
    <3>1. Answer(p, "not_found", None)
      BY <1>4, <2>2 DEF LoadCart
    <3>2. HandlersOK'
      BY <1>0, <2>1, <3>1, AnswerTypes DEF Codes
    <3> QED BY <1>4, <3>2 DEF TypeOK, TablesOK, LoadCart, tables
  <2>3. CASE lines # None
    <3>1. lines \in Lines
      BY <1>0, <2>1, <2>3 DEF TablesOK
    <3>2. draft' = [draft EXCEPT ![p] = row] /\ Go(p, "validate") /\ UNCHANGED <<req, resp>>
      BY <1>4, <2>3 DEF LoadCart
    <3>3. /\ row \in CheckoutRow
          /\ row.status = "ready_for_complete" /\ row.order = None
      BY <2>1, <3>1, NewRowType
    <3> HIDE DEF row
    <3>4. CarriedOK(p)'
      BY <1>0, <1>4, <2>1, <3>2, <3>3
         DEF HandlersOK, CarriedOK, Go, CartCommits
    <3>5. HandlersOK'
      BY <1>0, <3>2, <3>3, <3>4, GoTypes DEF Labels
    <3> QED BY <1>4, <3>5 DEF TypeOK, TablesOK, LoadCart, tables
  <2> QED BY <2>2, <2>3
<1>5. CASE ValidateCreate(p)
  <2>1. CASE EveryLineInStock(draft[p].lines)
    <3>1. Go(p, "insert") /\ UNCHANGED <<req, draft, resp>>
      BY <1>5, <2>1 DEF ValidateCreate
    <3>2. CarriedOK(p)'
      BY <1>0, <1>5, <3>1 DEF HandlersOK, CarriedOK, Go, ValidateCreate, CartCommits
    <3>3. HandlersOK'
      BY <1>0, <3>1, <3>2, GoTypes DEF Labels, Waiting
    <3> QED BY <1>5, <3>3 DEF TypeOK, TablesOK, ValidateCreate, tables
  <2>2. CASE ~EveryLineInStock(draft[p].lines)
    <3>1. Answer(p, "out_of_stock", None)
      BY <1>5, <2>2 DEF ValidateCreate
    <3>2. HandlersOK'
      BY <1>0, <1>5, <3>1, AnswerTypes DEF ValidateCreate, Codes
    <3> QED BY <1>5, <3>2 DEF TypeOK, TablesOK, ValidateCreate, tables
  <2> QED BY <2>1, <2>2
<1>6. CASE InsertCheckout(p)
  <2>1. draft[p] \in CheckoutRow /\ p \in Ids /\ pc[p] = "insert"
    BY <1>0, <1>6 DEF CarriedOK, InsertCheckout, Ids
  <2>2. /\ [id |-> p, content |-> draft[p]] \in Body
        /\ checkouts' \in [Ids -> CheckoutRow \cup {None}]
        /\ idempotency' \in [Keys -> Record \cup {None}]
    BY <1>6, <2>1, StoreTypes DEF InsertCheckout
  <2>3. HandlersOK'
    BY <1>0, <1>6, <2>1, <2>2, AnswerTypes DEF InsertCheckout, Codes
  <2> QED BY <1>6, <2>2, <2>3 DEF TypeOK, TablesOK, InsertCheckout
<1>7. CASE InsertCheckoutRaced(p)
  <2>1. HandlersOK'
    BY <1>7, RecordAnswerTypes DEF InsertCheckoutRaced, LoseRace
  <2> QED BY <1>7, <2>1 DEF TypeOK, TablesOK, InsertCheckoutRaced, LoseRace, tables
<1> QED BY <1>1, <1>2, <1>3, <1>4, <1>5, <1>6, <1>7

\* The steps of update, complete and cancel that only move the handler on.
LEMMA LockedTypes ==
    ASSUME TypeOK, NEW p \in Requests,
           \/ LookupLocked(p) \/ ReadOpenCheckout(p) \/ RefuseCheckout(p)
           \/ UpdateOutOfStock(p) \/ RefuseCompletion(p) \/ ReservationFails(p)
           \/ WorkRaced(p)
    PROVE  TypeOK'
<1> USE DEF At, Working
<1>0. HandlersOK /\ TablesOK /\ CarriedOK(p)
  BY DEF TypeOK, HandlersOK
<1>1. CASE LookupLocked(p)
  <2>1. CarriedOK(p)'
    BY <1>0, <1>1 DEF HandlersOK, CarriedOK, Go, LookupLocked, CartCommits
  <2>2. HandlersOK'
    BY <1>0, <1>1, <2>1, GoTypes DEF LookupLocked, Labels, Waiting
  <2> QED BY <1>1, <2>2 DEF TypeOK, TablesOK, LookupLocked, tables
<1>2. CASE ReadOpenCheckout(p)
  <2>1. req[p].op \in LockedOps /\ req[p].id \in Ids
    BY <1>0, <1>2, ArrivedRequest DEF ReadOpenCheckout, CarriedOK, LockedOps
  <2>2. /\ checkouts[req[p].id] \in CheckoutRow
        /\ checkouts[req[p].id].status \notin Terminal
        /\ draft' = [draft EXCEPT ![p] = checkouts[req[p].id]]
    BY <1>0, <1>2, <2>1 DEF ReadOpenCheckout, TablesOK
  <2>3. CarriedOK(p)'
    BY <1>0, <1>2, <2>1, <2>2
       DEF HandlersOK, CarriedOK, Go, ReadOpenCheckout, CartCommits
  <2>4. HandlersOK'
    BY <1>0, <1>2, <2>2, <2>3, GoTypes DEF ReadOpenCheckout, Labels
  <2> QED BY <1>2, <2>4 DEF TypeOK, TablesOK, ReadOpenCheckout, Acquire, tables
<1>3. CASE RefuseCheckout(p)
  <2>1. HandlersOK'
    BY <1>0, <1>3, AnswerTypes DEF RefuseCheckout, Codes
  <2> QED BY <1>3, <2>1 DEF TypeOK, TablesOK, RefuseCheckout, tables
<1>4. CASE UpdateOutOfStock(p)
  <2>1. HandlersOK'
    BY <1>0, <1>4, AnswerTypes DEF UpdateOutOfStock, Codes
  <2> QED BY <1>4, <2>1 DEF TypeOK, TablesOK, UpdateOutOfStock, Release, tables
<1>5. CASE RefuseCompletion(p)
  <2>1. HandlersOK'
    BY <1>0, <1>5, AnswerTypes DEF RefuseCompletion, Codes
  <2> QED BY <1>5, <2>1 DEF TypeOK, TablesOK, RefuseCompletion, Release, tables
<1>6. CASE ReservationFails(p)
  <2>1. HandlersOK'
    BY <1>0, <1>6, AnswerTypes DEF ReservationFails, Codes
  <2> QED BY <1>6, <2>1 DEF TypeOK, TablesOK, ReservationFails, Release, tables
<1>7. CASE WorkRaced(p)
  <2>1. HandlersOK'
    BY <1>7, RecordAnswerTypes DEF WorkRaced, LoseRace
  <2> QED BY <1>7, <2>1 DEF TypeOK, TablesOK, WorkRaced, LoseRace, Release, tables
<1> QED BY <1>1, <1>2, <1>3, <1>4, <1>5, <1>6, <1>7

\* The commits of update, cancel and complete, and the announcement.
LEMMA CommitTypes ==
    ASSUME TypeOK, NEW p \in Requests,
           \/ UpdateCheckout(p) \/ CancelCheckout(p) \/ CompleteCheckout(p)
           \/ NotifyPlaced(p)
    PROVE  TypeOK'
<1> USE DEF At, Working
<1>0. HandlersOK /\ TablesOK /\ CarriedOK(p)
  BY DEF TypeOK, HandlersOK
<1>1. /\ pc[p] \in {"work", "notify"} /\ req[p].op \in LockedOps
      /\ draft[p] \in CheckoutRow
  BY <1>0 DEF CarriedOK, UpdateCheckout, CancelCheckout, CompleteCheckout, NotifyPlaced
<1>2. req[p] \in RequestType /\ req[p].id \in Ids /\ pc[p] # "idle"
  BY <1>0, <1>1, ArrivedRequest DEF LockedOps
<1>3. CASE UpdateCheckout(p)
  <2> DEFINE row == UpdatedCheckout(req[p], draft[p])
  <2>1. row \in CheckoutRow
    BY <1>1, <1>2, ChangedRowTypes
  <2>2. /\ Store(p, req[p].id, row)
        /\ Answer(p, "ok", [id |-> req[p].id, content |-> row])
        /\ Release(p)
        /\ UNCHANGED <<carts, inventory, orders, placed, crashes>>
    BY <1>3 DEF UpdateCheckout
  <2> HIDE DEF row
  <2>3. /\ [id |-> req[p].id, content |-> row] \in Body
        /\ checkouts' \in [Ids -> CheckoutRow \cup {None}]
        /\ idempotency' \in [Keys -> Record \cup {None}]
    BY <1>2, <2>1, <2>2, StoreTypes
  <2>4. HandlersOK'
    BY <1>0, <1>2, <2>2, <2>3, AnswerTypes DEF Codes
  <2> QED BY <1>0, <2>2, <2>3, <2>4 DEF TypeOK, TablesOK, Release
<1>4. CASE CancelCheckout(p)
  <2> DEFINE row == CanceledCheckout(draft[p])
  <2>1. row \in CheckoutRow
    BY <1>1, <1>2, ChangedRowTypes
  <2>2. /\ Store(p, req[p].id, row)
        /\ Answer(p, "ok", [id |-> req[p].id, content |-> row])
        /\ Release(p)
        /\ UNCHANGED <<carts, inventory, orders, placed, crashes>>
    BY <1>4 DEF CancelCheckout
  <2> HIDE DEF row
  <2>3. /\ [id |-> req[p].id, content |-> row] \in Body
        /\ checkouts' \in [Ids -> CheckoutRow \cup {None}]
        /\ idempotency' \in [Keys -> Record \cup {None}]
    BY <1>2, <2>1, <2>2, StoreTypes
  <2>4. HandlersOK'
    BY <1>0, <1>2, <2>2, <2>3, AnswerTypes DEF Codes
  <2> QED BY <1>0, <2>2, <2>3, <2>4 DEF TypeOK, TablesOK, Release
<1>5. CASE CompleteCheckout(p)
  <2> DEFINE row == CompletedCheckout(draft[p], p)
             order == [checkout_id |-> req[p].id, lines |-> draft[p].lines]
  <2>1. row \in CheckoutRow
    BY <1>1, <1>2, ChangedRowTypes
  <2>2. /\ Store(p, req[p].id, row) /\ Go(p, "notify") /\ Release(p)
        /\ draft' = [draft EXCEPT ![p] = row]
        /\ UNCHANGED <<req, resp, placed, crashes>>
        /\ orders' = [orders EXCEPT ![p] = order]
        /\ carts' = IF row.cart_id = None THEN carts
                    ELSE [carts EXCEPT ![row.cart_id] = None]
        /\ inventory' = StockAfter(draft[p].lines) /\ Reservable(draft[p].lines)
        /\ pc[p] = "work"
    BY <1>5 DEF CompleteCheckout
  <2>3. order \in OrderRow
    BY <1>1, <1>2 DEF OrderRow, CheckoutRow
  <2>4. inventory' \in [Items -> Nat]
    BY <1>0, <1>1, <2>2, ConstantsAssumption
       DEF TablesOK, StockAfter, Reservable, CheckoutRow, Lines
  <2> HIDE DEF row, order
  <2>5. carts' \in [Ids -> Lines \cup {None}]
    BY <1>0, <2>2 DEF TablesOK
  <2>6. orders' \in [Requests -> OrderRow \cup {None}]
    BY <1>0, <2>2, <2>3 DEF TablesOK
  <2>7. /\ checkouts' \in [Ids -> CheckoutRow \cup {None}]
        /\ idempotency' \in [Keys -> Record \cup {None}]
    BY <1>2, <2>1, <2>2, StoreTypes
  <2>8. CarriedOK(p)'
    BY <1>0, <1>1, <2>1, <2>2 DEF HandlersOK, CarriedOK, Go, CartCommits
  <2>9. HandlersOK'
    BY <1>0, <2>1, <2>2, <2>8, GoTypes DEF Labels
  <2> QED BY <2>2, <2>4, <2>5, <2>6, <2>7, <2>9 DEF TypeOK, TablesOK, Release
<1>6. CASE NotifyPlaced(p)
  <2>1. [id |-> req[p].id, content |-> draft[p]] \in Body
    BY <1>1, <1>2 DEF Body
  <2>2. HandlersOK'
    BY <1>0, <1>2, <1>6, <2>1, AnswerTypes DEF NotifyPlaced, Codes
  <2> QED BY <1>6, <2>2 DEF TypeOK, TablesOK, NotifyPlaced, tables
<1> QED BY <1>3, <1>4, <1>5, <1>6

\* The steps of the cart service.
LEMMA CartTypes ==
    ASSUME TypeOK, NEW p \in Requests, CartStep(p) PROVE TypeOK'
<1> USE DEF At
<1>0. HandlersOK /\ TablesOK /\ CarriedOK(p)
  BY DEF TypeOK, HandlersOK
<1>1. CASE LookupCart(p)
  <2>1. req[p].op \in CartOps /\ pc[p] = "lookup"
    BY <1>1 DEF LookupCart
  <2>2. CASE req[p].op = "create_cart"
    <3>1. req[p].lines \in Lines
      BY <1>0, <2>1, <2>2, ArrivedRequest
    <3>2. /\ Go(p, "insert_cart") /\ UNCHANGED <<req, resp>>
          /\ draft' = [draft EXCEPT ![p] = req[p].lines]
      BY <1>1, <2>2 DEF LookupCart
    <3>3. CarriedOK(p)'
      BY <1>0, <2>1, <3>1, <3>2 DEF HandlersOK, CarriedOK, Go, CartCommits
    <3>4. HandlersOK'
      BY <1>0, <3>1, <3>2, <3>3, GoTypes DEF Labels, Waiting
    <3> QED BY <1>1, <3>4 DEF TypeOK, TablesOK, LookupCart, tables
  <2>3. CASE req[p].op # "create_cart"
    <3>1. Go(p, "read_cart") /\ UNCHANGED <<draft, req, resp>>
      BY <1>1, <2>3 DEF LookupCart
    <3>2. CarriedOK(p)'
      BY <1>0, <2>1, <2>3, <3>1 DEF HandlersOK, CarriedOK, Go, CartCommits, CartOps
    <3>3. HandlersOK'
      BY <1>0, <3>1, <3>2, GoTypes DEF Labels
    <3> QED BY <1>1, <3>3 DEF TypeOK, TablesOK, LookupCart, tables
  <2> QED BY <2>2, <2>3
<1>2. CASE ReadCart(p)
  <2>1. /\ req[p].op \in {"update_cart", "cancel_cart"} /\ pc[p] = "read_cart"
        /\ req[p].op = "update_cart" => req[p].lines \in Lines
    BY <1>0, <1>2, ArrivedRequest DEF ReadCart, CarriedOK
  <2>2. CASE carts[req[p].id] = None
    <3>1. HandlersOK'
      BY <1>0, <1>2, <2>1, <2>2, AnswerTypes DEF ReadCart, Codes
    <3> QED BY <1>2, <3>1 DEF TypeOK, TablesOK, ReadCart, tables
  <2>3. CASE carts[req[p].id] # None
    <3> DEFINE d == IF req[p].op = "update_cart" THEN req[p].lines
                    ELSE carts[req[p].id]
    <3>1. /\ Go(p, "stage_cart") /\ UNCHANGED <<req, resp>>
          /\ draft' = [draft EXCEPT ![p] = d]
      BY <1>2, <2>3 DEF ReadCart
    <3>2. d \in Lines
      <4>1. req[p].id \in Ids
        BY <1>0, <2>1, ArrivedRequest
      <4> QED BY <4>1, <1>0, <2>1, <2>3 DEF TablesOK
    <3> HIDE DEF d
    <3>3. CarriedOK(p)'
      BY <1>0, <2>1, <3>1, <3>2 DEF HandlersOK, CarriedOK, Go, CartCommits, CartOps
    <3>4. HandlersOK'
      BY <1>0, <3>1, <3>2, <3>3, GoTypes DEF Labels
    <3> QED BY <1>2, <3>4 DEF TypeOK, TablesOK, ReadCart, tables
  <2> QED BY <2>2, <2>3
<1>3. CASE StageCart(p)
  <2>1. PICK l \in CartCommits : Go(p, l)
    BY <1>3 DEF StageCart, CartCommits
  <2>2. CarriedOK(p)'
    BY <1>0, <1>3, <2>1 DEF HandlersOK, CarriedOK, Go, StageCart, CartCommits
  <2>3. HandlersOK'
    BY <1>0, <1>3, <2>1, <2>2, GoTypes DEF StageCart, CartCommits, Labels, Waiting
  <2> QED BY <1>3, <2>3 DEF TypeOK, TablesOK, StageCart, tables
<1>4. CASE CommitCart(p)
  <2>1. Target(p) \in Ids /\ draft[p] \in Lines /\ pc[p] # "idle"
    BY <1>0, <1>4, ArrivedRequest DEF CommitCart, CartCommits, CarriedOK
  <2>2. [id |-> Target(p), content |-> draft[p]] \in Body
    BY <2>1 DEF Body
  <2>3. Flushed(p) \in Lines \cup {None}
    BY <1>0, <1>4, <2>1 DEF Flushed, TablesOK, CommitCart, CartCommits
  <2>4. idempotency' \in [Keys -> Record \cup {None}]
    BY <1>4, <2>1, <2>2, SaveRecordTypes DEF CommitCart
  <2>5. HandlersOK'
    BY <1>0, <1>4, <2>1, <2>2, AnswerTypes DEF CommitCart, Codes
  <2> QED BY <1>0, <1>4, <2>3, <2>4, <2>5 DEF TypeOK, TablesOK, CommitCart
<1>5. CASE CommitCartRaced(p)
  <2>1. HandlersOK'
    BY <1>5, RecordAnswerTypes DEF CommitCartRaced, LoseRace, CartCommits
  <2> QED BY <1>5, <2>1 DEF TypeOK, TablesOK, CommitCartRaced, LoseRace, tables
<1>6. CASE CommitCartFails(p)
  <2>1. HandlersOK'
    BY <1>0, <1>6, AnswerTypes DEF CommitCartFails, Codes, CartCommits
  <2> QED BY <1>6, <2>1 DEF TypeOK, TablesOK, CommitCartFails, tables
<1> QED BY <1>1, <1>2, <1>3, <1>4, <1>5, <1>6 DEF CartStep

LEMMA StutterTypes ==
    ASSUME TypeOK, UNCHANGED vars PROVE TypeOK'
<1>1. \A q \in Requests : CarriedOK(q) => CarriedOK(q)'
  BY DEF vars, tables, handlers, CarriedOK
<1> QED BY <1>1 DEF TypeOK, TablesOK, HandlersOK, vars, tables, handlers

LEMMA NextTypes ==
    ASSUME TypeOK, [Next]_vars PROVE TypeOK'
<1>1. ASSUME NEW p \in Requests, Arrive(p) \/ LockTimeout(p) \/ Step(p) PROVE TypeOK'
  BY <1>1, ArriveTypes, LockTimeoutTypes, LookupHitTypes, CreateTypes, LockedTypes,
     CommitTypes, CartTypes DEF Step, CheckoutStep
<1>2. CASE Crash
  BY <1>2, CrashTypes
<1>3. CASE UNCHANGED vars
  BY <1>3, StutterTypes
<1> QED BY <1>1, <1>2, <1>3 DEF Next, Quiescent

\* The tables always hold rows of their types, and every handler carries from
\* await to await what its operation needs.
THEOREM TypeCorrect == Spec => []TypeOK
<1>1. Init => TypeOK
  BY InitTypeOK
<1>2. TypeOK /\ [Next]_vars => TypeOK'
  BY NextTypes
<1> QED BY <1>1, <1>2, PTL DEF Spec

-----------------------------------------------------------------------------
(* Quiet steps *)

OthersStay(p) ==
    \A q \in Requests \ {p} :
        pc'[q] = pc[q] /\ draft'[q] = draft[q] /\ req'[q] = req[q]

\* A step of request p that leaves the shop alone and does not start work.
QuietStep(p) ==
    /\ UNCHANGED <<checkouts, orders, inventory>>
    /\ OthersStay(p)
    /\ pc[p] # "done" /\ pc'[p] \notin {"work", "notify"}
    /\ pc[p] = "notify" => pc'[p] = "done"
    /\ writer' = writer \/ writer = p

LEMMA QuietGo ==
    ASSUME TypeOK, NEW p \in Requests, NEW l \in Labels \ {"work", "notify"},
           UNCHANGED <<checkouts, orders, inventory, writer, req>>, Go(p, l),
           draft' = draft \/ \E d : draft' = [draft EXCEPT ![p] = d],
           pc[p] \notin {"done", "notify"}
    PROVE  QuietStep(p)
BY DEF TypeOK, HandlersOK, QuietStep, OthersStay, Go

LEMMA QuietAnswer ==
    ASSUME TypeOK, NEW p \in Requests, NEW code, NEW body,
           UNCHANGED <<checkouts, orders, inventory>>, Answer(p, code, body),
           pc[p] # "done", writer' = writer \/ writer = p
    PROVE  QuietStep(p)
BY DEF TypeOK, HandlersOK, QuietStep, OthersStay, Go, Answer

LEMMA QuietRecordAnswer ==
    ASSUME TypeOK, NEW p \in Requests,
           UNCHANGED <<checkouts, orders, inventory>>, AnswerFromRecord(p),
           pc[p] # "done", writer' = writer \/ writer = p
    PROVE  QuietStep(p)
BY QuietAnswer DEF AnswerFromRecord

\* Of the checkout service, these steps are quiet.
QuietCheckoutStep(p) ==
    \/ LookupCreate(p) \/ ReturnExisting(p) \/ FindNone(p) \/ LoadCart(p)
    \/ ValidateCreate(p) \/ InsertCheckoutRaced(p) \/ LookupLocked(p)
    \/ RefuseCheckout(p) \/ UpdateOutOfStock(p) \/ RefuseCompletion(p)
    \/ ReservationFails(p) \/ NotifyPlaced(p) \/ WorkRaced(p)

LEMMA QuietCheckoutSteps ==
    ASSUME TypeOK, NEW p \in Requests, QuietCheckoutStep(p)
    PROVE  QuietStep(p)
<1> USE DEF At, Working, tables
<1>1. CASE LookupCreate(p)
  BY <1>1, QuietGo DEF LookupCreate, Labels
<1>2. CASE ReturnExisting(p)
  BY <1>2, QuietAnswer DEF ReturnExisting
<1>3. CASE FindNone(p)
  BY <1>3, QuietGo DEF FindNone, Labels
<1>4. CASE LoadCart(p)
  <2>1. CASE carts[req[p].cart_id] = None
    BY <1>4, <2>1, QuietAnswer DEF LoadCart
  <2>2. CASE carts[req[p].cart_id] # None
    BY <1>4, <2>2, QuietGo DEF LoadCart, Labels
  <2> QED BY <2>1, <2>2
<1>5. CASE ValidateCreate(p)
  <2>1. CASE EveryLineInStock(draft[p].lines)
    BY <1>5, <2>1, QuietGo DEF ValidateCreate, Labels, Waiting
  <2>2. CASE ~EveryLineInStock(draft[p].lines)
    BY <1>5, <2>2, QuietAnswer DEF ValidateCreate
  <2> QED BY <2>1, <2>2
<1>6. CASE InsertCheckoutRaced(p)
  BY <1>6, QuietRecordAnswer DEF InsertCheckoutRaced, LoseRace
<1>7. CASE LookupLocked(p)
  BY <1>7, QuietGo DEF LookupLocked, Labels, Waiting
<1>8. CASE RefuseCheckout(p)
  BY <1>8, QuietAnswer DEF RefuseCheckout
<1>9. CASE UpdateOutOfStock(p)
  BY <1>9, QuietAnswer DEF UpdateOutOfStock, Release
<1>10. CASE RefuseCompletion(p)
  BY <1>10, QuietAnswer DEF RefuseCompletion, Release
<1>11. CASE ReservationFails(p)
  BY <1>11, QuietAnswer DEF ReservationFails, Release
<1>12. CASE NotifyPlaced(p)
  BY <1>12, QuietAnswer DEF NotifyPlaced
<1>13. CASE WorkRaced(p)
  BY <1>13, QuietRecordAnswer DEF WorkRaced, LoseRace, Release
<1> QED
  BY <1>1, <1>2, <1>3, <1>4, <1>5, <1>6, <1>7, <1>8, <1>9, <1>10, <1>11, <1>12,
     <1>13 DEF QuietCheckoutStep

LEMMA QuietOtherSteps ==
    ASSUME TypeOK, NEW p \in Requests,
           Arrive(p) \/ LockTimeout(p) \/ LookupHit(p) \/ CartStep(p)
    PROVE  QuietStep(p)
<1> USE DEF At, tables
<1>1. CASE Arrive(p)
  BY <1>1 DEF TypeOK, HandlersOK, Arrive, Go, QuietStep, OthersStay
<1>2. CASE LockTimeout(p)
  BY <1>2, QuietAnswer DEF LockTimeout, Waiting
<1>3. CASE LookupHit(p)
  BY <1>3, QuietRecordAnswer DEF LookupHit
<1>4. CASE LookupCart(p)
  BY <1>4, QuietGo DEF LookupCart, Labels, Waiting
<1>5. CASE ReadCart(p)
  <2>1. CASE carts[req[p].id] = None
    BY <1>5, <2>1, QuietAnswer DEF ReadCart
  <2>2. CASE carts[req[p].id] # None
    BY <1>5, <2>2, QuietGo DEF ReadCart, Labels
  <2> QED BY <2>1, <2>2
<1>6. CASE StageCart(p)
  BY <1>6, QuietGo DEF StageCart, Labels, Waiting
<1>7. CASE CommitCart(p)
  BY <1>7, QuietAnswer DEF CommitCart, CartCommits
<1>8. CASE CommitCartRaced(p)
  BY <1>8, QuietRecordAnswer DEF CommitCartRaced, LoseRace, CartCommits
<1>9. CASE CommitCartFails(p)
  BY <1>9, QuietAnswer DEF CommitCartFails, CartCommits
<1> QED
  BY <1>1, <1>2, <1>3, <1>4, <1>5, <1>6, <1>7, <1>8, <1>9 DEF CartStep

-----------------------------------------------------------------------------
(* The checkout under the lock, orders and checkouts *)

LEMMA QuietConsistent ==
    ASSUME Consistent, TypeOK', NEW p \in Requests, QuietStep(p)
    PROVE  Consistent'
<1>1. NoStaleWork'
  <2> SUFFICES ASSUME NEW q \in Requests, pc'[q] = "work"
               PROVE  writer' = q /\ draft'[q] = checkouts'[req'[q].id]
    BY DEF NoStaleWork, At
  <2>1. q # p /\ pc[q] = "work"
    BY DEF QuietStep, OthersStay
  <2>2. writer = q /\ draft[q] = checkouts[req[q].id]
    BY <2>1 DEF Consistent, NoStaleWork, At
  <2> QED BY <2>1, <2>2 DEF QuietStep, OthersStay
<1>2. OrderMatchesCheckout'
  BY DEF Consistent, OrderMatchesCheckout, QuietStep
<1>3. NothingAhead'
  BY DEF Consistent, NothingAhead, QuietStep, OthersStay
<1> QED BY <1>1, <1>2, <1>3 DEF Consistent

LEMMA ReadConsistent ==
    ASSUME Consistent, TypeOK', NEW p \in Requests, ReadOpenCheckout(p)
    PROVE  Consistent'
<1>1. /\ pc[p] = "begin" /\ pc' = [pc EXCEPT ![p] = "work"]
      /\ draft' = [draft EXCEPT ![p] = checkouts[req[p].id]]
      /\ writer = None /\ writer' = p
      /\ UNCHANGED <<checkouts, orders, req>>
  BY DEF ReadOpenCheckout, At, Go, Acquire, tables
<1>2. \A q \in Requests : pc[q] # "work"
  BY <1>1, ConstantsAssumption DEF Consistent, NoStaleWork, At, Ids
<1>3. NoStaleWork'
  BY <1>1, <1>2 DEF Consistent, TypeOK, HandlersOK, NoStaleWork, At
<1>4. OrderMatchesCheckout'
  BY <1>1 DEF Consistent, OrderMatchesCheckout
<1>5. NothingAhead'
  BY <1>1 DEF Consistent, TypeOK, HandlersOK, NothingAhead
<1> QED BY <1>3, <1>4, <1>5 DEF Consistent

LEMMA InsertConsistent ==
    ASSUME Consistent, TypeOK', NEW p \in Requests, InsertCheckout(p)
    PROVE  /\ Consistent'
           /\ checkouts[p] = None
           /\ draft[p] \in CheckoutRow
           /\ draft[p].status = "ready_for_complete" /\ draft[p].order = None
           /\ checkouts' = [checkouts EXCEPT ![p] = draft[p]]
           /\ UNCHANGED <<orders, inventory>>
<1>1. /\ pc[p] = "insert" /\ pc' = [pc EXCEPT ![p] = "done"]
      /\ checkouts' = [checkouts EXCEPT ![p] = draft[p]]
      /\ draft' = [draft EXCEPT ![p] = None]
      /\ writer = None
      /\ UNCHANGED <<orders, req, inventory>>
  BY DEF InsertCheckout, At, Answer, Go, Store, LockFree
<1>2. \A q \in Requests : pc[q] # "work"
  BY <1>1, ConstantsAssumption DEF Consistent, NoStaleWork, At, Ids
<1>3. /\ checkouts[p] = None
      /\ draft[p] \in CheckoutRow
      /\ draft[p].status = "ready_for_complete" /\ draft[p].order = None
  BY <1>1 DEF Consistent, NothingAhead, TypeOK, HandlersOK, CarriedOK
<1>4. NoStaleWork'
  BY <1>1, <1>2 DEF Consistent, TypeOK, HandlersOK, NoStaleWork, At
<1>5. OrderMatchesCheckout'
  <2>1. p \in Ids /\ checkouts \in [Ids -> CheckoutRow \cup {None}]
    BY DEF Consistent, TypeOK, TablesOK, Ids
  <2> QED
    BY <1>1, <1>3, <2>1 DEF Consistent, OrderMatchesCheckout
<1>6. NothingAhead'
  BY <1>1 DEF Consistent, TypeOK, TablesOK, HandlersOK, NothingAhead, Ids
<1> QED BY <1>1, <1>3, <1>4, <1>5, <1>6 DEF Consistent

\* What a handler at work may rely on.
LEMMA WorkFacts ==
    ASSUME Consistent, NEW p \in Requests, pc[p] = "work"
    PROVE  /\ req[p].id \in Ids
           /\ draft[p] = checkouts[req[p].id]
           /\ draft[p] \in CheckoutRow /\ draft[p] # None
           /\ draft[p].status = "ready_for_complete" /\ draft[p].order = None
           /\ writer = p
           /\ \A q \in Requests : q # p => pc[q] # "work"
           /\ \A q \in Requests : req[p].id = q => pc[q] = "done"
           /\ orders[p] = None
           /\ \A o \in Requests : orders[o] # None => orders[o].checkout_id # req[p].id
<1>1. /\ CarriedOK(p) /\ writer = p /\ draft[p] = checkouts[req[p].id]
      /\ \A q \in Requests : q # p => pc[q] # "work"
  BY DEF Consistent, TypeOK, HandlersOK, NoStaleWork, At
<1>2. /\ req[p].id \in Ids
      /\ draft[p] \in CheckoutRow /\ draft[p] # None
      /\ draft[p].status = "ready_for_complete"
  BY <1>1, ArrivedRequest, ConstantsAssumption
     DEF CarriedOK, LockedOps, CheckoutRow, Status
<1>3. draft[p].order = None
  BY <1>1, <1>2 DEF Consistent, OrderMatchesCheckout
<1>4. /\ orders[p] = None
      /\ \A q \in Requests : req[p].id = q => pc[q] = "done"
  BY <1>1, <1>2 DEF Consistent, NothingAhead
<1>5. \A o \in Requests : orders[o] # None => orders[o].checkout_id # req[p].id
  <2> SUFFICES ASSUME NEW o \in Requests, orders[o] # None,
                      orders[o].checkout_id = req[p].id
               PROVE  FALSE
    OBVIOUS
  <2>1. draft[p].order = o
    BY <1>1 DEF Consistent, OrderMatchesCheckout
  <2> QED BY <1>3, <2>1, ConstantsAssumption DEF Ids
<1> QED BY <1>1, <1>2, <1>3, <1>4, <1>5

\* The commit of a row that stays without an order: update and cancel.
LEMMA RewriteConsistent ==
    ASSUME Consistent, TypeOK', NEW p \in Requests, pc[p] = "work",
           NEW row \in CheckoutRow, row.order = None, row.status # "completed",
           checkouts' = [checkouts EXCEPT ![req[p].id] = row],
           pc' = [pc EXCEPT ![p] = "done"], draft' = [draft EXCEPT ![p] = None],
           UNCHANGED <<orders, req>>
    PROVE  Consistent'
<1>1. /\ req[p].id \in Ids
      /\ \A q \in Requests : q # p => pc[q] # "work"
      /\ \A q \in Requests : req[p].id = q => pc[q] = "done"
      /\ \A o \in Requests : orders[o] # None => orders[o].checkout_id # req[p].id
  BY WorkFacts
<1>2. NoStaleWork'
  BY <1>1 DEF Consistent, TypeOK, HandlersOK, NoStaleWork, At
<1>3. OrderMatchesCheckout'
  BY <1>1 DEF Consistent, TypeOK, TablesOK, OrderMatchesCheckout
<1>4. NothingAhead'
  BY <1>1 DEF Consistent, TypeOK, TablesOK, HandlersOK, NothingAhead, Ids
<1> QED BY <1>2, <1>3, <1>4 DEF Consistent

LEMMA UpdateConsistent ==
    ASSUME Consistent, TypeOK', NEW p \in Requests, UpdateCheckout(p)
    PROVE  Consistent'
<1> DEFINE row == UpdatedCheckout(req[p], draft[p])
<1>1. /\ pc[p] = "work"
      /\ checkouts' = [checkouts EXCEPT ![req[p].id] = row]
      /\ pc' = [pc EXCEPT ![p] = "done"] /\ draft' = [draft EXCEPT ![p] = None]
      /\ UNCHANGED <<orders, req>>
  BY DEF UpdateCheckout, Working, At, Answer, Go, Store
<1>2. req[p] \in RequestType
  BY <1>1, ArrivedRequest DEF Consistent, TypeOK, HandlersOK
<1>3. draft[p] \in CheckoutRow /\ draft[p].order = None
      /\ draft[p].status = "ready_for_complete"
  BY <1>1, WorkFacts
<1>4. row \in CheckoutRow
  BY <1>2, <1>3, ChangedRowTypes
<1>5. row.order = None /\ row.status # "completed"
  BY <1>3 DEF UpdatedCheckout, CheckoutRow
<1> HIDE DEF row
<1> QED BY <1>1, <1>4, <1>5, RewriteConsistent

LEMMA CancelConsistent ==
    ASSUME Consistent, TypeOK', NEW p \in Requests, CancelCheckout(p)
    PROVE  Consistent'
<1> DEFINE row == CanceledCheckout(draft[p])
<1>1. /\ pc[p] = "work"
      /\ checkouts' = [checkouts EXCEPT ![req[p].id] = row]
      /\ pc' = [pc EXCEPT ![p] = "done"] /\ draft' = [draft EXCEPT ![p] = None]
      /\ UNCHANGED <<orders, req>>
  BY DEF CancelCheckout, Working, At, Answer, Go, Store
<1>2. req[p] \in RequestType
  BY <1>1, ArrivedRequest DEF Consistent, TypeOK, HandlersOK
<1>3. draft[p] \in CheckoutRow /\ draft[p].order = None
  BY <1>1, WorkFacts
<1>4. row \in CheckoutRow
  BY <1>2, <1>3, ChangedRowTypes
<1>5. row.order = None /\ row.status # "completed"
  BY <1>3 DEF CanceledCheckout, CheckoutRow
<1> HIDE DEF row
<1> QED BY <1>1, <1>4, <1>5, RewriteConsistent

LEMMA CompleteConsistent ==
    ASSUME Consistent, TypeOK', NEW p \in Requests, CompleteCheckout(p)
    PROVE  Consistent'
<1> DEFINE id == req[p].id
           row == CompletedCheckout(draft[p], p)
           order == [checkout_id |-> id, lines |-> draft[p].lines]
<1>1. /\ pc[p] = "work" /\ pc' = [pc EXCEPT ![p] = "notify"]
      /\ checkouts' = [checkouts EXCEPT ![id] = row]
      /\ orders' = [orders EXCEPT ![p] = order]
      /\ draft' = [draft EXCEPT ![p] = row]
      /\ UNCHANGED req
  BY DEF CompleteCheckout, Working, At, Go, Store
<1>2. /\ id \in Ids /\ draft[p] \in CheckoutRow
      /\ \A q \in Requests : q # p => pc[q] # "work"
      /\ \A q \in Requests : id = q => pc[q] = "done"
      /\ orders[p] = None
      /\ \A o \in Requests : orders[o] # None => orders[o].checkout_id # id
  BY <1>1, WorkFacts
<1>3. /\ row.status = "completed" /\ row.order = p /\ row.lines = draft[p].lines
      /\ row \in CheckoutRow
      /\ order.checkout_id = id /\ order \in OrderRow
  BY <1>2 DEF CompletedCheckout, CheckoutRow, OrderRow, Status, Terminal
<1>4. p # None /\ order # None /\ row # None
  BY <1>3, ConstantsAssumption DEF Ids
<1>5. order = [checkout_id |-> id, lines |-> row.lines]
  BY <1>3
<1> HIDE DEF row, order, id
<1>6. NoStaleWork'
  BY <1>1, <1>2 DEF Consistent, TypeOK, HandlersOK, NoStaleWork, At
<1>7. OrderMatchesCheckout'
  <2>1. /\ checkouts'[id] = row /\ orders'[p] = order
        /\ \A c \in Ids : c # id => checkouts'[c] = checkouts[c]
        /\ \A o \in Requests : o # p => orders'[o] = orders[o]
    BY <1>1, <1>2 DEF Consistent, TypeOK, TablesOK
  <2>2. ASSUME NEW c \in Ids, checkouts'[c] # None
        PROVE  /\ checkouts'[c].status = "completed" <=> checkouts'[c].order # None
               /\ checkouts'[c].order # None =>
                    orders'[checkouts'[c].order] =
                       [checkout_id |-> c, lines |-> checkouts'[c].lines]
    <3>1. CASE c = id
      BY <3>1, <2>1, <1>3, <1>4, <1>5
    <3>2. CASE c # id
      <4>1. /\ checkouts'[c] = checkouts[c] /\ checkouts[c] \in CheckoutRow
            /\ checkouts[c].order \in Requests \cup {None}
        BY <2>1, <2>2, <3>2 DEF Consistent, TypeOK, TablesOK, CheckoutRow
      <4>2. checkouts[c].order # p
        <5>1. [checkout_id |-> c, lines |-> checkouts[c].lines] \in OrderRow
          BY <4>1 DEF OrderRow, CheckoutRow
        <5>2. [checkout_id |-> c, lines |-> checkouts[c].lines] # None
          BY <5>1, ConstantsAssumption
        <5>3. checkouts[c] # None
          BY <2>2, <4>1
        <5> QED
          BY <1>2, <1>4, <5>2, <5>3 DEF Consistent, OrderMatchesCheckout
      <4> QED BY <2>1, <2>2, <4>1, <4>2 DEF Consistent, OrderMatchesCheckout
    <3> QED BY <3>1, <3>2
  <2>3. ASSUME NEW o \in Requests, orders'[o] # None
        PROVE  /\ checkouts'[orders'[o].checkout_id] # None
               /\ checkouts'[orders'[o].checkout_id].order = o
    <3>1. CASE o = p
      BY <3>1, <2>1, <1>3, <1>4
    <3>2. CASE o # p
      <4>1. orders'[o] = orders[o] /\ orders[o].checkout_id \in Ids \ {id}
        BY <1>2, <2>1, <2>3, <3>2 DEF Consistent, TypeOK, TablesOK, OrderRow
      <4> QED BY <2>1, <2>3, <4>1 DEF Consistent, OrderMatchesCheckout
    <3> QED BY <3>1, <3>2
  <2> QED BY <2>2, <2>3 DEF OrderMatchesCheckout
<1>8. NothingAhead'
  BY <1>1, <1>2 DEF Consistent, TypeOK, TablesOK, HandlersOK, NothingAhead, Ids
<1> QED BY <1>6, <1>7, <1>8 DEF Consistent

LEMMA CrashConsistent ==
    ASSUME Consistent, TypeOK', Crash PROVE Consistent'
<1>1. /\ UNCHANGED <<checkouts, orders>>
      /\ \A q \in Requests : /\ pc'[q] \in {"idle", "done"}
                             /\ pc'[q] # "done" => pc[q] = "idle"
  BY DEF Crash, tables, Consistent, TypeOK, HandlersOK
<1>2. NoStaleWork'
  BY <1>1 DEF NoStaleWork, At
<1>3. OrderMatchesCheckout' /\ NothingAhead'
  BY <1>1 DEF Consistent, OrderMatchesCheckout, NothingAhead
<1> QED BY <1>2, <1>3 DEF Consistent

LEMMA InitConsistent == Init => Consistent
<1> SUFFICES ASSUME Init PROVE Consistent
  OBVIOUS
<1>1. TypeOK
  BY InitTypeOK
<1>2. NoStaleWork /\ NothingAhead
  BY ConstantsAssumption DEF Init, NoStaleWork, NothingAhead, At, Ids
<1>3. OrderMatchesCheckout
  BY ConstantsAssumption DEF Init, OrderMatchesCheckout, Ids
<1> QED BY <1>1, <1>2, <1>3 DEF Consistent

LEMMA NextConsistent ==
    ASSUME Consistent, [Next]_vars PROVE Consistent'
<1>1. TypeOK'
  BY NextTypes DEF Consistent
<1>2. ASSUME NEW p \in Requests, Arrive(p) \/ LockTimeout(p) \/ Step(p)
      PROVE  Consistent'
  <2>1. CASE QuietStep(p)
    BY <1>1, <2>1, QuietConsistent
  <2>2. CASE ~QuietStep(p)
    BY <1>1, <1>2, <2>2, QuietCheckoutSteps, QuietOtherSteps, ReadConsistent,
       InsertConsistent, UpdateConsistent, CancelConsistent, CompleteConsistent
       DEF Consistent, Step, CheckoutStep, QuietCheckoutStep
  <2> QED BY <2>1, <2>2
<1>3. CASE Crash
  BY <1>1, <1>3, CrashConsistent
<1>4. CASE UNCHANGED vars
  BY <1>1, <1>4 DEF Consistent, NoStaleWork, OrderMatchesCheckout, NothingAhead, At,
     vars, tables, handlers
<1> QED BY <1>2, <1>3, <1>4 DEF Next, Quiescent

\* A handler at work on a checkout holds the write lock and works on the row
\* that is in the table; orders and completed checkouts match one to one.
THEOREM Consistency == Spec => []Consistent
<1>1. Init => Consistent
  BY InitConsistent
<1>2. Consistent /\ [Next]_vars => Consistent'
  BY NextConsistent
<1> QED BY <1>1, <1>2, PTL DEF Spec

\* A handler that is about to write holds the write lock, and the row it has
\* read is still the row in the table: no update is lost between them.
THEOREM FreshWork == Spec => []NoStaleWork
<1>1. Consistent => NoStaleWork
  BY DEF Consistent
<1> QED BY <1>1, Consistency, PTL

\* An order and the completed checkout that it came from name each other, and
\* a checkout is completed exactly when there is such an order.
THEOREM OrdersMatch == Spec => []OrderMatchesCheckout
<1>1. Consistent => OrderMatchesCheckout
  BY DEF Consistent
<1> QED BY <1>1, Consistency, PTL

\* No row exists before the handler that writes it has finished: what a
\* handler has not committed, nobody sees.
THEOREM NothingEarly == Spec => []NothingAhead
<1>1. Consistent => NothingAhead
  BY DEF Consistent
<1> QED BY <1>1, Consistency, PTL

-----------------------------------------------------------------------------
(* The server implements the shop *)

ShopVars == <<checkouts, inventory, orders>>

LEMMA InsertCreates ==
    ASSUME Consistent, TypeOK', NEW p \in Requests, InsertCheckout(p)
    PROVE  TheShop!Create(p)
<1>1. /\ checkouts[p] = None
      /\ draft[p] \in CheckoutRow /\ draft[p] # None
      /\ draft[p].status = "ready_for_complete" /\ draft[p].order = None
      /\ checkouts' = [checkouts EXCEPT ![p] = draft[p]]
      /\ UNCHANGED <<orders, inventory>>
  BY InsertConsistent, ConstantsAssumption
<1>2. checkouts'[p] = draft[p]
  BY <1>1 DEF Consistent, TypeOK, TablesOK, Ids
<1> QED BY <1>1, <1>2 DEF TheShop!Create, TheShop!Rewrite, TheShop!Open

LEMMA UpdateUpdates ==
    ASSUME Consistent, NEW p \in Requests, UpdateCheckout(p)
    PROVE  req[p].id \in Ids /\ TheShop!Update(req[p].id)
<1> DEFINE id == req[p].id
           row == UpdatedCheckout(req[p], draft[p])
<1>1. /\ pc[p] = "work"
      /\ checkouts' = [checkouts EXCEPT ![id] = row]
      /\ UNCHANGED <<orders, inventory>>
  BY DEF UpdateCheckout, Working, At, Store
<1>2. /\ id \in Ids /\ draft[p] = checkouts[id]
      /\ draft[p] \in CheckoutRow /\ draft[p] # None
      /\ draft[p].status = "ready_for_complete" /\ draft[p].order = None
  BY <1>1, WorkFacts
<1>3. req[p] \in RequestType
  BY <1>1, ArrivedRequest DEF Consistent, TypeOK, HandlersOK
<1>4. /\ row \in CheckoutRow /\ row # None
      /\ row.status = "ready_for_complete" /\ row.order = None
      /\ row.cart_id = draft[p].cart_id
  <2>1. row \in CheckoutRow
    BY <1>2, <1>3, ChangedRowTypes
  <2>2. /\ row.status = "ready_for_complete" /\ row.order = None
        /\ row.cart_id = draft[p].cart_id
    BY <1>2 DEF UpdatedCheckout, CheckoutRow
  <2> HIDE DEF row
  <2> QED BY <2>1, <2>2, ConstantsAssumption
<1> HIDE DEF row, id
<1>5. checkouts'[id] = row
  BY <1>1, <1>2 DEF Consistent, TypeOK, TablesOK
<1> QED
  BY <1>1, <1>2, <1>4, <1>5
     DEF TheShop!Update, TheShop!Rewrite, TheShop!Open, id

LEMMA CancelCancels ==
    ASSUME Consistent, NEW p \in Requests, CancelCheckout(p)
    PROVE  req[p].id \in Ids /\ TheShop!Cancel(req[p].id)
<1>1. /\ pc[p] = "work"
      /\ checkouts' = [checkouts EXCEPT ![req[p].id] = CanceledCheckout(draft[p])]
      /\ UNCHANGED <<orders, inventory>>
  BY DEF CancelCheckout, Working, At, Store
<1>2. /\ req[p].id \in Ids /\ draft[p] = checkouts[req[p].id]
      /\ draft[p] # None /\ draft[p].status = "ready_for_complete"
  BY <1>1, WorkFacts
<1>3. checkouts' = [checkouts EXCEPT ![req[p].id].status = "canceled"]
  BY <1>1, <1>2 DEF CanceledCheckout
<1> QED BY <1>1, <1>2, <1>3 DEF TheShop!Cancel, TheShop!Open

LEMMA CompleteCompletes ==
    ASSUME Consistent, NEW p \in Requests, CompleteCheckout(p)
    PROVE  req[p].id \in Ids /\ TheShop!Complete(req[p].id, p)
<1> DEFINE id == req[p].id
<1>1. /\ pc[p] = "work" /\ Reservable(draft[p].lines) /\ Deliverable(p)
      /\ checkouts' = [checkouts EXCEPT ![id] = CompletedCheckout(draft[p], p)]
      /\ inventory' = StockAfter(draft[p].lines)
      /\ orders' = [orders EXCEPT
           ![p] = [checkout_id |-> id, lines |-> draft[p].lines]]
  BY DEF CompleteCheckout, Working, At, Store
<1>2. /\ id \in Ids /\ draft[p] = checkouts[id] /\ orders[p] = None
      /\ draft[p] # None /\ draft[p].status = "ready_for_complete"
  BY <1>1, WorkFacts
<1>3. checkouts' =
        [checkouts EXCEPT ![id].status = "completed", ![id].order = p]
  BY <1>1, <1>2 DEF CompletedCheckout, Consistent, TypeOK, TablesOK
<1> QED
  BY <1>1, <1>2, <1>3
     DEF TheShop!Complete, TheShop!Open, Reservable, StockAfter, Deliverable

LEMMA NextImplementsShop ==
    ASSUME Consistent, TypeOK', [Next]_vars
    PROVE  TheShop!ShopNext \/ UNCHANGED ShopVars
<1>1. ASSUME NEW p \in Requests, Arrive(p) \/ LockTimeout(p) \/ Step(p)
      PROVE  TheShop!ShopNext \/ UNCHANGED ShopVars
  <2>1. p \in Ids
    BY DEF Ids
  <2>2. CASE QuietStep(p) \/ ReadOpenCheckout(p)
    BY <2>2 DEF QuietStep, ReadOpenCheckout, tables, ShopVars
  <2>3. CASE InsertCheckout(p)
    BY <2>1, <2>3, InsertCreates DEF TheShop!ShopNext
  <2>4. CASE UpdateCheckout(p)
    BY <2>4, UpdateUpdates DEF TheShop!ShopNext
  <2>5. CASE CancelCheckout(p)
    BY <2>5, CancelCancels DEF TheShop!ShopNext
  <2>6. CASE CompleteCheckout(p)
    BY <2>6, CompleteCompletes DEF TheShop!ShopNext
  <2> QED
    BY <1>1, <2>2, <2>3, <2>4, <2>5, <2>6, QuietCheckoutSteps, QuietOtherSteps
       DEF Consistent, Step, CheckoutStep, QuietCheckoutStep
<1>2. CASE Crash
  BY <1>2 DEF Crash, tables, ShopVars
<1>3. CASE UNCHANGED vars
  BY <1>3 DEF vars, tables, ShopVars
<1> QED BY <1>1, <1>2, <1>3 DEF Next, Quiescent

\* However requests interleave, time out and crash, checkouts, stock and
\* orders change only by whole operations of the shop.
THEOREM Implementation == Spec => ImplementsShop
<1>1. Init => TheShop!ShopInit
  BY DEF Init, TheShop!ShopInit
<1>2. Consistent /\ TypeOK' /\ [Next]_vars => [TheShop!ShopNext]_(TheShop!shop)
  BY NextImplementsShop DEF ShopVars, TheShop!shop
<1>3. Consistent => TypeOK
  BY DEF Consistent
<1> QED
  BY <1>1, <1>2, <1>3, Consistency, PTL DEF Spec, ImplementsShop, TheShop!ShopSpec

LEMMA ShopKeepsTerminal ==
    ASSUME TypeOK, TheShop!ShopNext \/ UNCHANGED ShopVars, NEW c \in Ids,
           checkouts[c] # None, checkouts[c].status \in Terminal
    PROVE  checkouts'[c] = checkouts[c]
<1>1. CASE UNCHANGED ShopVars
  BY <1>1 DEF ShopVars
<1>2. CASE TheShop!ShopNext
  <2>1. PICK d \in Ids : \/ TheShop!Create(d) \/ TheShop!Update(d) \/ TheShop!Cancel(d)
                         \/ \E o \in Requests : TheShop!Complete(d, o)
    BY <1>2 DEF TheShop!ShopNext
  <2>2. d # c
    BY <2>1 DEF TheShop!Create, TheShop!Update, TheShop!Cancel, TheShop!Complete,
       TheShop!Open, Terminal
  <2> QED
    BY <2>1, <2>2 DEF TheShop!Create, TheShop!Update, TheShop!Cancel,
       TheShop!Complete, TheShop!Rewrite, TypeOK, TablesOK
<1> QED BY <1>1, <1>2

\* A completed or canceled checkout never changes again, in any interleaving.
THEOREM Finality == Spec => TerminalIsFinal
<1>1. Consistent /\ TypeOK' /\ [Next]_vars =>
        [\A c \in Ids : checkouts[c] # None /\ checkouts[c].status \in Terminal
            => checkouts'[c] = checkouts[c]]_vars
  BY NextImplementsShop, ShopKeepsTerminal DEF Consistent
<1>2. Consistent => TypeOK
  BY DEF Consistent
<1> QED BY <1>1, <1>2, Consistency, PTL DEF Spec, TerminalIsFinal

Recorded == RecordsHold /\ EffectHasRecord /\ AnswersRecorded

-----------------------------------------------------------------------------
(* What a step leaves as it was *)

TerminalStays ==
    \A c \in Ids : checkouts[c] # None /\ checkouts[c].status \in Terminal
        => checkouts'[c] = checkouts[c]

RecordsStay ==
    \A k \in Keys : idempotency[k] # None => idempotency'[k] = idempotency[k]

\* A step of request p changes no other handler and mints nothing for another.
OwnStep(p) ==
    /\ RecordsStay
    /\ \A q \in Requests \ {p} :
         /\ req'[q] = req[q] /\ pc'[q] = pc[q] /\ draft'[q] = draft[q]
         /\ resp'[q] = resp[q] /\ orders'[q] = orders[q]
         /\ checkouts[q] = None => checkouts'[q] = None

LEMMA RecordKept ==
    ASSUME TypeOK, TerminalStays, NEW k \in Keys, RecordHolds(k),
           idempotency[k] # None, idempotency'[k] = idempotency[k]
    PROVE  RecordHolds(k)'
<1> DEFINE hash == idempotency[k].hash
           body == idempotency[k].body
<1>1. SUFFICES ASSUME hash.op \in LockedOps
               PROVE  /\ body.id = hash.id
                      /\ hash.op # "update_checkout" =>
                           /\ checkouts'[hash.id] = body.content
                           /\ checkouts'[hash.id].status = FinalStatus(hash.op)
  BY DEF RecordHolds
<1>2. /\ body.id = hash.id
      /\ hash.op # "update_checkout" =>
           /\ checkouts[hash.id] = body.content
           /\ checkouts[hash.id].status = FinalStatus(hash.op)
  BY <1>1 DEF RecordHolds
<1>3. body \in Body
  BY DEF TypeOK, TablesOK, Record
<1>4. body.id \in Ids /\ body.content # None
  BY <1>3, ConstantsAssumption DEF Body
<1>5. FinalStatus(hash.op) \in Terminal
  BY DEF FinalStatus, Terminal
<1> QED BY <1>2, <1>4, <1>5 DEF TerminalStays

LEMMA RecordedAsKept ==
    ASSUME TypeOK, RecordsStay, NEW q \in Requests, NEW body,
           req'[q] = req[q], RecordedAs(q, body)
    PROVE  /\ req'[q] # None /\ idempotency'[req'[q].key] # None
           /\ idempotency'[req'[q].key].hash = Hash(req'[q])
           /\ idempotency'[req'[q].key].body = body
<1>1. req[q].key \in Keys
  BY DEF RecordedAs, TypeOK, HandlersOK, RequestType
<1> QED BY <1>1 DEF RecordedAs, RecordsStay, KeyFree

LEMMA EffectKept ==
    ASSUME Consistent, TerminalStays, RecordsStay, NEW q \in Requests,
           EffectRecorded(q), req'[q] = req[q], orders'[q] = orders[q],
           checkouts[q] = None => checkouts'[q] = None
    PROVE  EffectRecorded(q)'
<1>1. CASE orders[q] # None
  <2> DEFINE c == orders[q].checkout_id
  <2>1. /\ c \in Ids /\ checkouts[c] # None /\ checkouts[c].order = q
        /\ q # None
    BY <1>1, ConstantsAssumption
       DEF Consistent, TypeOK, TablesOK, OrderMatchesCheckout, OrderRow, Ids
  <2>2. checkouts'[c] = checkouts[c]
    BY <2>1 DEF Consistent, OrderMatchesCheckout, TerminalStays, Terminal
  <2>3. req[q] # None /\ req[q].key \in Keys
    BY <1>1 DEF EffectRecorded, Consistent, TypeOK, HandlersOK, RequestType
  <2> QED BY <1>1, <2>2, <2>3 DEF EffectRecorded, RecordsStay, KeyFree
<1>2. CASE orders[q] = None /\ checkouts[q] # None
  <2>1. req[q] # None /\ req[q].key \in Keys
    BY <1>2 DEF EffectRecorded, Consistent, TypeOK, HandlersOK, RequestType
  <2> QED BY <1>2, <2>1 DEF EffectRecorded, RecordsStay, KeyFree
<1>3. CASE orders[q] = None /\ checkouts[q] = None
  BY <1>3 DEF EffectRecorded
<1> QED BY <1>1, <1>2, <1>3

LEMMA AnswerKept ==
    ASSUME TypeOK, RecordsStay, NEW q \in Requests, AnswerRecorded(q),
           req'[q] = req[q], resp'[q] = resp[q], pc'[q] = pc[q], draft'[q] = draft[q]
    PROVE  AnswerRecorded(q)'
<1>1. \A body : RecordedAs(q, body) =>
        /\ req'[q] # None /\ idempotency'[req'[q].key] # None
        /\ idempotency'[req'[q].key].hash = Hash(req'[q])
        /\ idempotency'[req'[q].key].body = body
  BY RecordedAsKept
<1> QED BY <1>1 DEF AnswerRecorded, RecordedAs, KeyFree, Answered, FromCart, At

LEMMA OthersKept ==
    ASSUME Consistent, Recorded, TerminalStays, NEW p \in Requests, OwnStep(p)
    PROVE  /\ \A q \in Requests \ {p} : EffectRecorded(q)' /\ AnswerRecorded(q)'
           /\ \A k \in Keys : idempotency[k] # None => RecordHolds(k)'
<1>1. ASSUME NEW q \in Requests \ {p} PROVE EffectRecorded(q)' /\ AnswerRecorded(q)'
  BY EffectKept, AnswerKept
     DEF OwnStep, Recorded, EffectHasRecord, AnswersRecorded, Consistent
<1>2. ASSUME NEW k \in Keys, idempotency[k] # None PROVE RecordHolds(k)'
  BY <1>2, RecordKept DEF OwnStep, RecordsStay, Recorded, RecordsHold, Consistent
<1> QED BY <1>1, <1>2

-----------------------------------------------------------------------------
(* Every step is one request's own *)

LEMMA QuietOwn ==
    ASSUME TypeOK, NEW p \in Requests, QuietStep(p), UNCHANGED idempotency,
           \A q \in Requests \ {p} : resp'[q] = resp[q]
    PROVE  OwnStep(p)
BY DEF OwnStep, RecordsStay, QuietStep, OthersStay

LEMMA SaveKeepsRecords ==
    ASSUME TypeOK, NEW p \in Requests, NEW body \in Body, KeyFree(p), pc[p] # "idle",
           SaveRecord(p, body)
    PROVE  /\ RecordsStay
           /\ idempotency[req[p].key] = None
           /\ idempotency'[req[p].key] # None
           /\ idempotency'[req[p].key].hash = Hash(req[p])
           /\ idempotency'[req[p].key].body = body
           /\ \A k \in Keys : k # req[p].key => idempotency'[k] = idempotency[k]
<1>1. Hash(req[p]) \in HashType /\ req[p].key \in Keys
  BY ArrivedRequest, HashType_ DEF TypeOK, HandlersOK
<1> DEFINE record == [hash |-> Hash(req[p]), body |-> body]
<1>2. record \in Record /\ record.hash = Hash(req[p]) /\ record.body = body
  BY <1>1 DEF Record
<1>3. idempotency' = [idempotency EXCEPT ![req[p].key] = record]
  BY DEF SaveRecord
<1> HIDE DEF record
<1>4. idempotency'[req[p].key] = record
  BY <1>1, <1>3 DEF TypeOK, TablesOK
<1> QED
  BY <1>1, <1>2, <1>3, <1>4, ConstantsAssumption
     DEF RecordsStay, KeyFree, TypeOK, TablesOK

\* A step that stores nothing and answers no 2xx.
LEMMA SilentKeeps ==
    ASSUME Consistent, Recorded, NEW p \in Requests, pc[p] # "done",
           pc'[p] # "notify", UNCHANGED <<idempotency, checkouts, orders>>,
           resp'[p] = resp[p] \/ resp'[p].code # "ok",
           req'[p] = req[p] \/ pc[p] = "idle"
    PROVE  EffectRecorded(p)' /\ AnswerRecorded(p)'
<1>1. ~Answered(p, "ok")'
  BY DEF Recorded, AnswersRecorded, AnswerRecorded, At, Answered
<1>2. AnswerRecorded(p)'
  BY <1>1 DEF AnswerRecorded, At
<1>3. EffectRecorded(p)'
  <2>1. CASE pc[p] = "idle"
    BY <2>1 DEF Consistent, NothingAhead, EffectRecorded
  <2>2. CASE req'[p] = req[p]
    BY <2>2 DEF Recorded, EffectHasRecord, EffectRecorded, KeyFree
  <2> QED BY <2>1, <2>2
<1> QED BY <1>2, <1>3

\* An answer from the record of the key, or with a checkout of the cart.
LEMMA ReplayKeeps ==
    ASSUME Consistent, Recorded, NEW p \in Requests, pc[p] \notin {"idle", "done"},
           UNCHANGED <<idempotency, checkouts, orders>>, AnswerFromRecord(p)
    PROVE  EffectRecorded(p)' /\ AnswerRecorded(p)'
<1>1. /\ pc'[p] = "done" /\ req'[p] = req[p] /\ idempotency[req[p].key] # None
      /\ \/ resp'[p] = [code |-> "key_conflict", body |-> None]
         \/ /\ resp'[p] = [code |-> "ok", body |-> idempotency[req[p].key].body]
            /\ idempotency[req[p].key].hash = Hash(req[p])
  BY DEF AnswerFromRecord, Answer, Go, Consistent, TypeOK, HandlersOK
<1>2. EffectRecorded(p)'
  BY <1>1 DEF Recorded, EffectHasRecord, EffectRecorded, KeyFree
<1>3. req[p] # None
  BY ArrivedRequest, ConstantsAssumption DEF Consistent, TypeOK, HandlersOK
<1>4. AnswerRecorded(p)'
  BY <1>1, <1>3 DEF AnswerRecorded, RecordedAs, KeyFree, Answered, At
<1> QED BY <1>2, <1>4

LEMMA ReturnExistingKeeps ==
    ASSUME Consistent, Recorded, NEW p \in Requests, ReturnExisting(p)
    PROVE  EffectRecorded(p)' /\ AnswerRecorded(p)'
<1>1. /\ pc[p] = "find" /\ pc'[p] = "done" /\ req'[p] = req[p]
      /\ UNCHANGED <<idempotency, checkouts, orders>>
  BY DEF ReturnExisting, At, Answer, Go, tables, Consistent, TypeOK, HandlersOK
<1>2. FromCart(p)
  BY <1>1 DEF Consistent, TypeOK, HandlersOK, CarriedOK, FromCart
<1>3. EffectRecorded(p)'
  BY <1>1 DEF Recorded, EffectHasRecord, EffectRecorded, KeyFree
<1>4. AnswerRecorded(p)'
  BY <1>1, <1>2 DEF AnswerRecorded, FromCart, At
<1> QED BY <1>3, <1>4

LEMMA NotifyKeeps ==
    ASSUME Consistent, Recorded, NEW p \in Requests, NotifyPlaced(p)
    PROVE  EffectRecorded(p)' /\ AnswerRecorded(p)'
<1>1. /\ pc[p] = "notify" /\ pc'[p] = "done" /\ req'[p] = req[p]
      /\ resp'[p] =
           [code |-> "ok", body |-> [id |-> req[p].id, content |-> draft[p]]]
      /\ UNCHANGED <<idempotency, checkouts, orders>>
  BY DEF NotifyPlaced, At, Answer, Go, tables, Consistent, TypeOK, HandlersOK
<1>2. EffectRecorded(p)'
  BY <1>1 DEF Recorded, EffectHasRecord, EffectRecorded, KeyFree
<1>3. RecordedAs(p, [id |-> req[p].id, content |-> draft[p]])
  BY <1>1 DEF Recorded, AnswersRecorded, AnswerRecorded, At
<1>4. AnswerRecorded(p)'
  BY <1>1, <1>3 DEF AnswerRecorded, RecordedAs, KeyFree, At, Answered
<1> QED BY <1>2, <1>4

-----------------------------------------------------------------------------
(* The commits that write a record *)

\* What the commit of p shows of p, of its record, and of nobody else.
CommitKeeps(p) ==
    /\ OwnStep(p)
    /\ EffectRecorded(p)' /\ AnswerRecorded(p)'
    /\ \A k \in Keys : idempotency[k] = None => RecordHolds(k)'

LEMMA InsertKeeps ==
    ASSUME Consistent, Recorded, NEW p \in Requests, InsertCheckout(p)
    PROVE  CommitKeeps(p)
<1> DEFINE body == [id |-> p, content |-> draft[p]]
<1>1. /\ pc[p] = "insert" /\ pc' = [pc EXCEPT ![p] = "done"]
      /\ KeyFree(p) /\ SaveRecord(p, body)
      /\ checkouts' = [checkouts EXCEPT ![p] = draft[p]]
      /\ resp' = [resp EXCEPT ![p] = [code |-> "ok", body |-> body]]
      /\ draft' = [draft EXCEPT ![p] = None]
      /\ UNCHANGED <<orders, req>>
  BY DEF InsertCheckout, At, Answer, Go, Store
<1>2. /\ CarriedOK(p) /\ req[p] \in RequestType /\ req[p] # None
      /\ req[p].op = "create_checkout" /\ draft[p] \in CheckoutRow
  BY <1>1, ArrivedRequest, ConstantsAssumption
     DEF Consistent, TypeOK, HandlersOK, CarriedOK
<1>3. body \in Body /\ body.id = p /\ p \in Ids
  BY <1>2 DEF Body, Ids
<1> HIDE DEF body
<1>4. /\ RecordsStay
      /\ idempotency'[req[p].key] # None
      /\ idempotency'[req[p].key].hash = Hash(req[p])
      /\ idempotency'[req[p].key].body = body
      /\ \A k \in Keys : k # req[p].key => idempotency'[k] = idempotency[k]
  BY <1>1, <1>3, SaveKeepsRecords DEF Consistent
<1>5. OwnStep(p)
  BY <1>1, <1>4 DEF OwnStep, Consistent, TypeOK, TablesOK, HandlersOK, Ids
<1>6. EffectRecorded(p)'
  BY <1>1, <1>2, <1>3, <1>4 DEF EffectRecorded, KeyFree, Consistent, NothingAhead
<1>7. AnswerRecorded(p)'
  BY <1>1, <1>2, <1>4 DEF AnswerRecorded, RecordedAs, KeyFree, At, Answered,
     Consistent, TypeOK, HandlersOK
<1>8. ASSUME NEW k \in Keys, idempotency[k] = None PROVE RecordHolds(k)'
  <2>1. CASE k = req[p].key
    <3>1. Hash(req[p]).op = "create_checkout"
      BY <1>2 DEF Hash, CheckoutOps
    <3> QED BY <2>1, <3>1, <1>4 DEF RecordHolds, LockedOps
  <2>2. CASE k # req[p].key
    BY <1>8, <1>4, <2>2 DEF RecordHolds
  <2> QED BY <2>1, <2>2
<1> QED BY <1>5, <1>6, <1>7, <1>8 DEF CommitKeeps

LEMMA CommitCartKeeps ==
    ASSUME Consistent, Recorded, NEW p \in Requests, CommitCart(p)
    PROVE  CommitKeeps(p)
<1> DEFINE body == [id |-> Target(p), content |-> draft[p]]
<1>1. /\ pc[p] \in CartCommits /\ pc' = [pc EXCEPT ![p] = "done"]
      /\ KeyFree(p) /\ SaveRecord(p, body)
      /\ resp' = [resp EXCEPT ![p] = [code |-> "ok", body |-> body]]
      /\ draft' = [draft EXCEPT ![p] = None]
      /\ UNCHANGED <<checkouts, orders, req>>
  BY DEF CommitCart, Answer, Go
<1>2. /\ CarriedOK(p) /\ req[p] \in RequestType /\ req[p] # None
      /\ req[p].op \in CartOps /\ draft[p] \in Lines /\ Target(p) \in Ids
      /\ pc[p] \notin {"idle", "notify", "done"}
  BY <1>1, ArrivedRequest, ConstantsAssumption
     DEF Consistent, TypeOK, HandlersOK, CarriedOK, CartCommits
<1>3. body \in Body
  BY <1>2 DEF Body
<1> HIDE DEF body
<1>4. /\ RecordsStay
      /\ idempotency'[req[p].key] # None
      /\ idempotency'[req[p].key].hash = Hash(req[p])
      /\ idempotency'[req[p].key].body = body
      /\ \A k \in Keys : k # req[p].key => idempotency'[k] = idempotency[k]
  BY <1>1, <1>2, <1>3, SaveKeepsRecords DEF Consistent
<1>5. OwnStep(p)
  BY <1>1, <1>4 DEF OwnStep, Consistent, TypeOK, TablesOK, HandlersOK, Ids
<1>6. EffectRecorded(p)'
  BY <1>1, <1>2 DEF EffectRecorded, Consistent, NothingAhead
<1>7. AnswerRecorded(p)'
  BY <1>1, <1>2, <1>4 DEF AnswerRecorded, RecordedAs, KeyFree, At, Answered,
     Consistent, TypeOK, HandlersOK
<1>8. ASSUME NEW k \in Keys, idempotency[k] = None PROVE RecordHolds(k)'
  <2>1. CASE k = req[p].key
    <3>1. Hash(req[p]).op \in CartOps
      BY <1>2 DEF Hash, CheckoutOps, CartOps
    <3> QED BY <2>1, <3>1, <1>4 DEF RecordHolds, LockedOps, CartOps
  <2>2. CASE k # req[p].key
    BY <1>8, <1>4, <2>2 DEF RecordHolds
  <2> QED BY <2>1, <2>2
<1> QED BY <1>5, <1>6, <1>7, <1>8 DEF CommitKeeps

\* update, cancel and complete: the record answers with the row stored.
LEMMA LockedCommitKeeps ==
    ASSUME Consistent, Recorded, NEW p \in Requests, pc[p] = "work", KeyFree(p),
           NEW row \in CheckoutRow, Store(p, req[p].id, row),
           req[p].op # "update_checkout" => row.status = FinalStatus(req[p].op),
           UNCHANGED req, RecordsStay => OwnStep(p),
           \/ /\ UNCHANGED orders
              /\ pc'[p] = "done"
              /\ resp'[p] =
                   [code |-> "ok", body |-> [id |-> req[p].id, content |-> row]]
           \/ /\ orders'[p] = [checkout_id |-> req[p].id, lines |-> draft[p].lines]
              /\ pc'[p] = "notify" /\ draft'[p] = row /\ resp' = resp
    PROVE  CommitKeeps(p)
<1> DEFINE id == req[p].id
           body == [id |-> id, content |-> row]
<1>1. /\ id \in Ids /\ id # p /\ orders[p] = None /\ checkouts[p] = None
  BY WorkFacts DEF Consistent, NothingAhead
<1>2. req[p] \in RequestType /\ req[p] # None /\ req[p].op \in LockedOps
  BY ArrivedRequest, ConstantsAssumption DEF Consistent, TypeOK, HandlersOK, CarriedOK
<1>3. body \in Body /\ body.id = id /\ body.content = row
  BY <1>1 DEF Body
<1>4. checkouts'[id] = row /\ checkouts'[p] = None
  BY <1>1 DEF Store, Consistent, TypeOK, TablesOK, Ids
<1>5. SaveRecord(p, body)
  BY DEF Store
<1> HIDE DEF body
<1>6. /\ RecordsStay
      /\ idempotency'[req[p].key] # None
      /\ idempotency'[req[p].key].hash = Hash(req[p])
      /\ idempotency'[req[p].key].body = body
      /\ \A k \in Keys : k # req[p].key => idempotency'[k] = idempotency[k]
  BY <1>3, <1>5, SaveKeepsRecords DEF Consistent
<1>7. EffectRecorded(p)'
  <2>1. CASE orders' = orders
    BY <1>1, <1>4, <2>1 DEF EffectRecorded
  <2>2. CASE orders'[p] = [checkout_id |-> id, lines |-> draft[p].lines]
    BY <1>2, <1>4, <1>6, <2>2 DEF EffectRecorded, KeyFree, body
  <2> QED BY <2>1, <2>2
<1>8. AnswerRecorded(p)'
  <2>1. CASE pc'[p] = "done"
    BY <1>2, <1>6, <2>1 DEF AnswerRecorded, RecordedAs, KeyFree, At, Answered, body
  <2>2. CASE pc'[p] = "notify"
    <3>1. ~Answered(p, "ok")
      BY DEF Recorded, AnswersRecorded, AnswerRecorded, At
    <3> QED
      BY <1>2, <1>6, <2>2, <3>1
         DEF AnswerRecorded, RecordedAs, KeyFree, At, Answered, body
  <2> QED BY <2>1, <2>2
<1>9. ASSUME NEW k \in Keys, idempotency[k] = None PROVE RecordHolds(k)'
  <2>1. CASE k = req[p].key
    <3>1. Hash(req[p]).op = req[p].op /\ Hash(req[p]).id = id
      BY <1>2 DEF Hash, LockedOps, CheckoutOps
    <3> QED BY <2>1, <3>1, <1>3, <1>4, <1>6 DEF RecordHolds
  <2>2. CASE k # req[p].key
    BY <1>9, <1>6, <2>2 DEF RecordHolds
  <2> QED BY <2>1, <2>2
<1> QED BY <1>6, <1>7, <1>8, <1>9 DEF CommitKeeps

LEMMA LockedCommitsKeep ==
    ASSUME Consistent, Recorded, NEW p \in Requests,
           UpdateCheckout(p) \/ CancelCheckout(p) \/ CompleteCheckout(p)
    PROVE  CommitKeeps(p)
<1>1. pc[p] = "work" /\ KeyFree(p) /\ UNCHANGED req
  BY DEF UpdateCheckout, CancelCheckout, CompleteCheckout, Working, At, Answer
<1>2. /\ req[p] \in RequestType /\ draft[p] \in CheckoutRow /\ req[p].id \in Ids
      /\ \A q \in Requests : req[p].id = q => pc[q] = "done"
  BY <1>1, WorkFacts, ArrivedRequest DEF Consistent, TypeOK, HandlersOK
<1>3. checkouts[req[p].id] # None
  BY <1>1, WorkFacts
<1>4. CASE UpdateCheckout(p)
  <2> DEFINE row == UpdatedCheckout(req[p], draft[p])
  <2>1. /\ Store(p, req[p].id, row) /\ req[p].op = "update_checkout"
        /\ Answer(p, "ok", [id |-> req[p].id, content |-> row])
        /\ UNCHANGED orders
    BY <1>4 DEF UpdateCheckout, Working
  <2>2. row \in CheckoutRow
    BY <1>2, ChangedRowTypes
  <2> HIDE DEF row
  <2>3. RecordsStay => OwnStep(p)
    BY <1>1, <1>2, <1>3, <2>1
       DEF OwnStep, Store, Answer, Go, Consistent, TypeOK, TablesOK, HandlersOK
  <2>4. /\ pc'[p] = "done"
        /\ resp'[p] = [code |-> "ok", body |-> [id |-> req[p].id, content |-> row]]
    BY <2>1 DEF Answer, Go, Consistent, TypeOK, HandlersOK
  <2> QED BY <1>1, <2>1, <2>2, <2>3, <2>4, LockedCommitKeeps
<1>5. CASE CancelCheckout(p)
  <2> DEFINE row == CanceledCheckout(draft[p])
  <2>1. /\ Store(p, req[p].id, row) /\ req[p].op = "cancel_checkout"
        /\ Answer(p, "ok", [id |-> req[p].id, content |-> row])
        /\ UNCHANGED orders
    BY <1>5 DEF CancelCheckout, Working
  <2>2. row \in CheckoutRow
    BY <1>2, ChangedRowTypes
  <2>3. row.status = FinalStatus(req[p].op)
    BY <1>2, <2>1 DEF CanceledCheckout, FinalStatus, CheckoutRow
  <2> HIDE DEF row
  <2>4. RecordsStay => OwnStep(p)
    BY <1>1, <1>2, <1>3, <2>1
       DEF OwnStep, Store, Answer, Go, Consistent, TypeOK, TablesOK, HandlersOK
  <2>5. /\ pc'[p] = "done"
        /\ resp'[p] = [code |-> "ok", body |-> [id |-> req[p].id, content |-> row]]
    BY <2>1 DEF Answer, Go, Consistent, TypeOK, HandlersOK
  <2> QED BY <1>1, <2>1, <2>2, <2>3, <2>4, <2>5, LockedCommitKeeps
<1>6. CASE CompleteCheckout(p)
  <2> DEFINE row == CompletedCheckout(draft[p], p)
             order == [checkout_id |-> req[p].id, lines |-> draft[p].lines]
  <2>1. /\ Store(p, req[p].id, row) /\ req[p].op = "complete_checkout"
        /\ Go(p, "notify") /\ draft' = [draft EXCEPT ![p] = row]
        /\ orders' = [orders EXCEPT ![p] = order]
        /\ UNCHANGED resp
    BY <1>6 DEF CompleteCheckout, Working
  <2>2. row \in CheckoutRow
    BY <1>2, ChangedRowTypes
  <2>3. row.status = FinalStatus(req[p].op)
    BY <1>2, <2>1 DEF CompletedCheckout, FinalStatus, CheckoutRow
  <2> HIDE DEF row
  <2>4. RecordsStay => OwnStep(p)
    BY <1>1, <1>2, <1>3, <2>1
       DEF OwnStep, Store, Go, Consistent, TypeOK, TablesOK, HandlersOK
  <2>5. orders'[p] = order /\ pc'[p] = "notify" /\ draft'[p] = row
    BY <2>1 DEF Go, Consistent, TypeOK, TablesOK, HandlersOK
  <2> QED BY <1>1, <2>1, <2>2, <2>3, <2>4, <2>5, LockedCommitKeeps
<1> QED BY <1>4, <1>5, <1>6

-----------------------------------------------------------------------------
(* The steps that write no record *)

\* What a step of p without a record shows of p.
PlainKeeps(p) ==
    /\ UNCHANGED idempotency /\ OwnStep(p)
    /\ EffectRecorded(p)' /\ AnswerRecorded(p)'

LEMMA QuietKeeps ==
    ASSUME Consistent, Recorded, NEW p \in Requests, QuietStep(p),
           UNCHANGED idempotency,
           \/ UNCHANGED resp
           \/ \E code \in Codes \ {"ok"} : \E body : Answer(p, code, body),
           req'[p] = req[p] \/ pc[p] = "idle"
    PROVE  PlainKeeps(p)
<1>1. /\ resp'[p] = resp[p] \/ resp'[p].code # "ok"
      /\ \A q \in Requests \ {p} : resp'[q] = resp[q]
  BY DEF Answer, Consistent, TypeOK, HandlersOK
<1>2. OwnStep(p)
  BY <1>1, QuietOwn DEF Consistent
<1>3. /\ pc[p] # "done" /\ pc'[p] # "notify" /\ UNCHANGED <<checkouts, orders>>
  BY DEF QuietStep
<1> QED BY <1>1, <1>2, <1>3, SilentKeeps DEF PlainKeeps

LEMMA QuietReplayKeeps ==
    ASSUME Consistent, Recorded, NEW p \in Requests, QuietStep(p),
           UNCHANGED idempotency, AnswerFromRecord(p), pc[p] # "idle"
    PROVE  PlainKeeps(p)
<1>1. \A q \in Requests \ {p} : resp'[q] = resp[q]
  BY DEF AnswerFromRecord, Answer, Consistent, TypeOK, HandlersOK
<1>2. OwnStep(p)
  BY <1>1, QuietOwn DEF Consistent
<1> QED BY <1>2, ReplayKeeps DEF QuietStep, PlainKeeps

LEMMA PlainCheckoutSteps ==
    ASSUME Consistent, Recorded, NEW p \in Requests, QuietCheckoutStep(p)
    PROVE  PlainKeeps(p)
<1> USE DEF At, Working, tables
<1>0. QuietStep(p)
  BY QuietCheckoutSteps DEF Consistent
<1>1. CASE LookupCreate(p) \/ FindNone(p) \/ LookupLocked(p)
  BY <1>0, <1>1, QuietKeeps DEF LookupCreate, FindNone, LookupLocked
<1>2. CASE ReturnExisting(p)
  <2>1. UNCHANGED idempotency /\ \A q \in Requests \ {p} : resp'[q] = resp[q]
    BY <1>2 DEF ReturnExisting, Answer, Consistent, TypeOK, HandlersOK
  <2> QED BY <1>0, <1>2, <2>1, ReturnExistingKeeps, QuietOwn DEF PlainKeeps, Consistent
<1>3. CASE LoadCart(p) \/ ValidateCreate(p)
  BY <1>0, <1>3, QuietKeeps DEF LoadCart, ValidateCreate, Answer, Codes
<1>4. CASE InsertCheckoutRaced(p)
  BY <1>0, <1>4, QuietReplayKeeps DEF InsertCheckoutRaced, LoseRace
<1>5. CASE RefuseCheckout(p)
  BY <1>0, <1>5, QuietKeeps DEF RefuseCheckout, Answer, Codes
<1>6. CASE UpdateOutOfStock(p) \/ ReservationFails(p)
  BY <1>0, <1>6, QuietKeeps DEF UpdateOutOfStock, ReservationFails, Answer, Codes
<1>7. CASE RefuseCompletion(p)
  BY <1>0, <1>7, QuietKeeps DEF RefuseCompletion, Answer, Codes
<1>8. CASE NotifyPlaced(p)
  <2>1. UNCHANGED idempotency /\ \A q \in Requests \ {p} : resp'[q] = resp[q]
    BY <1>8 DEF NotifyPlaced, Answer, Consistent, TypeOK, HandlersOK
  <2> QED BY <1>0, <1>8, <2>1, NotifyKeeps, QuietOwn DEF PlainKeeps, Consistent
<1>9. CASE WorkRaced(p)
  BY <1>0, <1>9, QuietReplayKeeps DEF WorkRaced, LoseRace
<1> QED
  BY <1>1, <1>2, <1>3, <1>4, <1>5, <1>6, <1>7, <1>8, <1>9 DEF QuietCheckoutStep

LEMMA PlainOtherSteps ==
    ASSUME Consistent, Recorded, NEW p \in Requests,
           Arrive(p) \/ LockTimeout(p) \/ LookupHit(p) \/ CartStep(p), ~CommitCart(p)
    PROVE  PlainKeeps(p)
<1> USE DEF At, tables
<1>0. QuietStep(p)
  BY QuietOtherSteps DEF Consistent
<1>1. CASE Arrive(p)
  BY <1>0, <1>1, QuietKeeps DEF Arrive
<1>2. CASE LockTimeout(p)
  BY <1>0, <1>2, QuietKeeps DEF LockTimeout, Answer, Codes
<1>3. CASE LookupHit(p)
  BY <1>0, <1>3, QuietReplayKeeps DEF LookupHit
<1>4. CASE LookupCart(p) \/ StageCart(p)
  BY <1>0, <1>4, QuietKeeps DEF LookupCart, StageCart
<1>5. CASE ReadCart(p)
  BY <1>0, <1>5, QuietKeeps DEF ReadCart, Answer, Codes
<1>6. CASE CommitCartRaced(p)
  BY <1>0, <1>6, QuietReplayKeeps DEF CommitCartRaced, LoseRace, CartCommits
<1>7. CASE CommitCartFails(p)
  BY <1>0, <1>7, QuietKeeps DEF CommitCartFails, Answer, Codes
<1> QED BY <1>1, <1>2, <1>3, <1>4, <1>5, <1>6, <1>7 DEF CartStep

LEMMA ReadKeeps ==
    ASSUME Consistent, Recorded, NEW p \in Requests, ReadOpenCheckout(p)
    PROVE  PlainKeeps(p)
<1>1. /\ pc[p] = "begin" /\ pc' = [pc EXCEPT ![p] = "work"]
      /\ draft' = [draft EXCEPT ![p] = checkouts[req[p].id]]
      /\ UNCHANGED <<checkouts, orders, idempotency, req, resp>>
  BY DEF ReadOpenCheckout, At, Go, tables
<1>2. OwnStep(p)
  BY <1>1 DEF OwnStep, RecordsStay, Consistent, TypeOK, HandlersOK
<1>3. pc'[p] # "notify"
  BY <1>1 DEF Consistent, TypeOK, HandlersOK
<1> QED BY <1>1, <1>2, <1>3, SilentKeeps DEF PlainKeeps

-----------------------------------------------------------------------------
(* The invariant and its theorems *)

LEMMA InitRecorded == Init => Recorded
BY ConstantsAssumption
   DEF Init, Recorded, RecordsHold, RecordHolds, EffectHasRecord, EffectRecorded,
       AnswersRecorded, AnswerRecorded, Answered, At, Ids

LEMMA CrashRecorded ==
    ASSUME Consistent, Recorded, Crash PROVE Recorded'
<1>1. /\ UNCHANGED <<checkouts, orders, idempotency, req>>
      /\ \A q \in Requests :
           \/ (pc'[q] = pc[q] /\ pc[q] # "notify" /\ resp'[q] = resp[q])
           \/ /\ pc'[q] = "done"
              /\ resp'[q] = [code |-> "lost", body |-> None]
  BY DEF Crash, tables, Consistent, TypeOK, HandlersOK
<1>2. RecordsHold' /\ EffectHasRecord'
  BY <1>1 DEF Recorded, RecordsHold, RecordHolds, EffectHasRecord, EffectRecorded,
     KeyFree
<1>3. ASSUME NEW q \in Requests PROVE AnswerRecorded(q)'
  <2>1. CASE pc'[q] = pc[q] /\ pc[q] # "notify" /\ resp'[q] = resp[q]
    BY <1>1, <2>1 DEF Recorded, AnswersRecorded, AnswerRecorded, RecordedAs, KeyFree,
       Answered, FromCart, At
  <2>2. CASE pc'[q] = "done" /\ resp'[q] = [code |-> "lost", body |-> None]
    <3>1. ~Answered(q, "ok")'
      BY <2>2 DEF Answered
    <3> QED BY <2>2, <3>1 DEF AnswerRecorded, At
  <2> QED BY <1>1, <2>1, <2>2
<1> QED BY <1>2, <1>3 DEF Recorded, AnswersRecorded

LEMMA StepRecorded ==
    ASSUME Consistent, Recorded, TerminalStays, NEW p \in Requests,
           Arrive(p) \/ LockTimeout(p) \/ Step(p)
    PROVE  Recorded'
<1>1. PlainKeeps(p) \/ CommitKeeps(p)
  BY PlainCheckoutSteps, PlainOtherSteps, ReadKeeps, InsertKeeps, CommitCartKeeps,
     LockedCommitsKeep DEF Step, CheckoutStep, QuietCheckoutStep, CartStep
<1>2. OwnStep(p)
  BY <1>1 DEF PlainKeeps, CommitKeeps
<1>3. /\ \A q \in Requests \ {p} : EffectRecorded(q)' /\ AnswerRecorded(q)'
      /\ \A k \in Keys : idempotency[k] # None => RecordHolds(k)'
  BY <1>2, OthersKept
<1>4. EffectRecorded(p)' /\ AnswerRecorded(p)'
  BY <1>1 DEF PlainKeeps, CommitKeeps
<1>5. ASSUME NEW k \in Keys, idempotency[k] = None PROVE RecordHolds(k)'
  BY <1>1, <1>5 DEF PlainKeeps, CommitKeeps, RecordHolds
<1> QED
  BY <1>3, <1>4, <1>5 DEF Recorded, RecordsHold, EffectHasRecord, AnswersRecorded

LEMMA NextRecorded ==
    ASSUME Consistent, TypeOK', Recorded, [Next]_vars PROVE Recorded'
<1>1. TerminalStays
  BY NextImplementsShop, ShopKeepsTerminal DEF TerminalStays, Consistent
<1>2. ASSUME NEW p \in Requests, Arrive(p) \/ LockTimeout(p) \/ Step(p)
      PROVE  Recorded'
  BY <1>1, <1>2, StepRecorded
<1>3. CASE UNCHANGED vars
  BY <1>3 DEF vars, tables, handlers, Recorded, RecordsHold, RecordHolds,
     EffectHasRecord, EffectRecorded, AnswersRecorded, AnswerRecorded, RecordedAs,
     KeyFree, Answered, FromCart, At
<1> QED BY <1>2, <1>3, CrashRecorded DEF Next, Quiescent

\* In every state the effects, the answers and the records agree.
THEOREM Recording == Spec => []Recorded
<1>1. Init => Recorded
  BY InitRecorded
<1>2. Consistent /\ TypeOK' /\ Recorded /\ [Next]_vars => Recorded'
  BY NextRecorded
<1>3. Consistent => TypeOK
  BY DEF Consistent
<1> QED BY <1>1, <1>2, <1>3, Consistency, PTL DEF Spec

\* An effect is committed together with the record of its key.
THEOREM EffectsRecorded == Spec => []EffectHasRecord
<1>1. Recorded => EffectHasRecord
  BY DEF Recorded
<1> QED BY <1>1, Recording, PTL

\* Two identical requests under one key that both get a 2xx get the same one.
THEOREM Retries == Spec => []RetriesAgree
<1>1. Recorded => RetriesAgree
  BY DEF Recorded, AnswersRecorded, AnswerRecorded, RecordedAs, RetriesAgree, Retry,
     FromCart
<1> QED BY <1>1, Recording, PTL

\* A 2xx to a complete or a cancel, first or replayed, is true ever after.
THEOREM Answers == Spec => []AnswersHold
<1>1. ASSUME TypeOK, Recorded, NEW p \in Requests, Answered(p, "ok"),
             req[p].op \in LockedOps
      PROVE  /\ resp[p].body.id = req[p].id
             /\ req[p].op # "update_checkout" =>
                  /\ checkouts[req[p].id] = resp[p].body.content
                  /\ checkouts[req[p].id].status = FinalStatus(req[p].op)
  <2>1. ~FromCart(p)
    BY <1>1 DEF FromCart, LockedOps
  <2>2. RecordedAs(p, resp[p].body)
    BY <1>1, <2>1 DEF Recorded, AnswersRecorded, AnswerRecorded
  <2>3. req[p].key \in Keys /\ Hash(req[p]).op = req[p].op /\ Hash(req[p]).id = req[p].id
    BY <1>1, <2>2 DEF RecordedAs, TypeOK, HandlersOK, RequestType, Hash, LockedOps,
       CheckoutOps
  <2>4. RecordHolds(req[p].key)
    BY <1>1, <2>3 DEF Recorded, RecordsHold
  <2> QED BY <1>1, <2>2, <2>3, <2>4 DEF RecordHolds, RecordedAs, KeyFree
<1>2. TypeOK /\ Recorded => AnswersHold
  BY <1>1 DEF AnswersHold
<1> QED BY <1>2, Recording, TypeCorrect, PTL

-----------------------------------------------------------------------------
(* The announcement of an order *)

Announced == AnnouncedOnce /\ AnnouncedInTime

LEMMA StepPlaced ==
    ASSUME NEW p \in Requests, Arrive(p) \/ LockTimeout(p) \/ Step(p), ~NotifyPlaced(p)
    PROVE  UNCHANGED placed
BY DEF Arrive, LockTimeout, Step, LookupHit, CheckoutStep, CartStep, LookupCreate,
   ReturnExisting, FindNone, LoadCart, ValidateCreate, InsertCheckout,
   InsertCheckoutRaced, LoseRace, LookupLocked, ReadOpenCheckout, RefuseCheckout,
   UpdateCheckout, UpdateOutOfStock, CancelCheckout, RefuseCompletion,
   ReservationFails, CompleteCheckout, WorkRaced, LookupCart, ReadCart, StageCart,
   CommitCart, CommitCartRaced, CommitCartFails

LEMMA StepAnnounced ==
    ASSUME Consistent, Announced, NEW p \in Requests, OwnStep(p),
           Arrive(p) \/ LockTimeout(p) \/ Step(p)
    PROVE  Announced'
<1>1. ASSUME NEW q \in Requests \ {p}
      PROVE  pc'[q] = pc[q] /\ orders'[q] = orders[q] /\ placed'[q] = placed[q]
  <2>1. CASE NotifyPlaced(p)
    BY <2>1 DEF NotifyPlaced, OwnStep, Consistent, TypeOK
  <2>2. CASE ~NotifyPlaced(p)
    BY <2>2, StepPlaced DEF OwnStep
  <2> QED BY <2>1, <2>2
<1>2. /\ placed'[p] <= 1
      /\ placed'[p] > 0 => orders'[p] # None
      /\ pc'[p] = "notify" => orders'[p] # None
      /\ pc'[p] # "done" => placed'[p] = 0
  <2>1. CASE NotifyPlaced(p)
    BY <2>1 DEF NotifyPlaced, Answer, Go, At, tables, Announced, AnnouncedOnce,
       AnnouncedInTime, Consistent, TypeOK, HandlersOK
  <2>2. CASE CompleteCheckout(p)
    <3>1. /\ pc[p] = "work" /\ UNCHANGED placed
          /\ orders'[p] = [checkout_id |-> req[p].id, lines |-> draft[p].lines]
      BY <2>2 DEF CompleteCheckout, Working, At, Consistent, TypeOK, TablesOK
    <3>2. orders'[p] \in OrderRow
      BY <3>1, WorkFacts DEF OrderRow, CheckoutRow
    <3>3. orders'[p] # None
      BY <3>2, ConstantsAssumption
    <3> QED BY <3>1, <3>3 DEF Announced, AnnouncedOnce, AnnouncedInTime, At
  <2>3. CASE ~NotifyPlaced(p) /\ ~CompleteCheckout(p)
    <3>1. /\ pc[p] # "done" /\ pc'[p] # "notify"
          /\ orders'[p] = orders[p] /\ placed'[p] = placed[p]
      <4>1. CASE QuietStep(p) \/ ReadOpenCheckout(p)
        BY <2>3, <4>1, StepPlaced DEF QuietStep, ReadOpenCheckout, Go, At, tables,
           Consistent, TypeOK, HandlersOK
      <4>2. CASE InsertCheckout(p) \/ UpdateCheckout(p) \/ CancelCheckout(p)
        BY <2>3, <4>2, StepPlaced DEF InsertCheckout, UpdateCheckout, CancelCheckout,
           Working, Answer, Go, At, Consistent, TypeOK, HandlersOK
      <4> QED
        BY <2>3, <4>1, <4>2, QuietCheckoutSteps, QuietOtherSteps
           DEF Consistent, Step, CheckoutStep, QuietCheckoutStep
    <3> QED BY <3>1 DEF Announced, AnnouncedOnce, AnnouncedInTime, At
  <2> QED BY <2>1, <2>2, <2>3
<1> QED BY <1>1, <1>2 DEF Announced, AnnouncedOnce, AnnouncedInTime, At

LEMMA NextAnnounced ==
    ASSUME Consistent, Recorded, Announced, [Next]_vars PROVE Announced'
<1>1. ASSUME NEW p \in Requests, Arrive(p) \/ LockTimeout(p) \/ Step(p)
      PROVE  Announced'
  <2>1. OwnStep(p)
    BY <1>1, PlainCheckoutSteps, PlainOtherSteps, ReadKeeps, InsertKeeps,
       CommitCartKeeps, LockedCommitsKeep
       DEF Step, CheckoutStep, QuietCheckoutStep, CartStep, PlainKeeps, CommitKeeps
  <2> QED BY <1>1, <2>1, StepAnnounced
<1>2. CASE Crash
  <2>1. /\ UNCHANGED <<orders, placed>>
        /\ \A q \in Requests : pc'[q] = "done" \/ (pc'[q] = pc[q] /\ pc[q] = "idle")
    BY <1>2 DEF Crash, tables, Consistent, TypeOK, HandlersOK
  <2> QED BY <2>1 DEF Announced, AnnouncedOnce, AnnouncedInTime, At
<1>3. CASE UNCHANGED vars
  BY <1>3 DEF vars, tables, handlers, Announced, AnnouncedOnce, AnnouncedInTime, At
<1> QED BY <1>1, <1>2, <1>3 DEF Next, Quiescent

\* order_placed is announced at most once, and only for an order in the table.
THEOREM Announcements == Spec => []AnnouncedOnce
<1>1. Init => Announced
  BY DEF Init, Announced, AnnouncedOnce, AnnouncedInTime, At
<1>2. Consistent /\ Recorded /\ Announced /\ [Next]_vars => Announced'
  BY NextAnnounced
<1>3. Announced => AnnouncedOnce
  BY DEF Announced
<1> QED BY <1>1, <1>2, <1>3, Consistency, Recording, PTL DEF Spec

-----------------------------------------------------------------------------
(* What changes the tables, and how conversions name their cart *)

\* The steps of request p that commit with a record of its key.
Commit(p) ==
    \/ InsertCheckout(p) \/ UpdateCheckout(p) \/ CancelCheckout(p)
    \/ CompleteCheckout(p) \/ CommitCart(p)

LEMMA OnlyCommitsWrite ==
    ASSUME NEW p \in Requests, Arrive(p) \/ LockTimeout(p) \/ Step(p), ~Commit(p)
    PROVE  UNCHANGED tables
BY DEF Commit, Arrive, LockTimeout, Step, LookupHit, CheckoutStep, CartStep,
   LookupCreate, ReturnExisting, FindNone, LoadCart, ValidateCreate,
   InsertCheckoutRaced, LoseRace, LookupLocked, ReadOpenCheckout, RefuseCheckout,
   UpdateOutOfStock, RefuseCompletion, ReservationFails, NotifyPlaced, WorkRaced,
   LookupCart, ReadCart, StageCart, CommitCartRaced, CommitCartFails

\* A commit writes one record, under a key that had none.
LEMMA CommitSaves ==
    ASSUME TypeOK, NEW p \in Requests, Commit(p)
    PROVE  /\ RecordsStay
           /\ req[p].key \in Keys
           /\ idempotency[req[p].key] = None /\ idempotency'[req[p].key] # None
           /\ idempotency'[req[p].key].hash = Hash(req[p])
           /\ \A k \in Keys : k # req[p].key => idempotency'[k] = idempotency[k]
<1>1. pc[p] # "idle" /\ KeyFree(p) /\ CarriedOK(p)
  BY DEF Commit, InsertCheckout, UpdateCheckout, CancelCheckout, CompleteCheckout,
     CommitCart, CartCommits, Working, At, TypeOK, HandlersOK
<1>2. req[p] \in RequestType /\ req[p].key \in Keys /\ Target(p) \in Ids
  BY <1>1, ArrivedRequest
<1>3. PICK body \in Body : SaveRecord(p, body)
  <2>1. CASE InsertCheckout(p)
    <3>1. [id |-> p, content |-> draft[p]] \in Body
      BY <1>1, <2>1 DEF InsertCheckout, At, CarriedOK, Body, Ids
    <3> QED BY <2>1, <3>1 DEF InsertCheckout, Store
  <2>2. CASE CommitCart(p)
    <3>1. [id |-> Target(p), content |-> draft[p]] \in Body
      BY <1>1, <1>2, <2>2 DEF CommitCart, CarriedOK, Body
    <3> QED BY <2>2, <3>1 DEF CommitCart
  <2>3. CASE UpdateCheckout(p) \/ CancelCheckout(p) \/ CompleteCheckout(p)
    <3>1. /\ req[p].id \in Ids /\ draft[p] \in CheckoutRow
          /\ \E row \in {UpdatedCheckout(req[p], draft[p]), CanceledCheckout(draft[p]),
                         CompletedCheckout(draft[p], p)} : Store(p, req[p].id, row)
      BY <1>1, <2>3, ArrivedRequest
         DEF UpdateCheckout, CancelCheckout, CompleteCheckout, Working, At, CarriedOK,
             LockedOps
    <3>2. PICK row \in CheckoutRow : Store(p, req[p].id, row)
      BY <1>2, <3>1, ChangedRowTypes
    <3>3. [id |-> req[p].id, content |-> row] \in Body
      BY <3>1, <3>2 DEF Body
    <3> QED BY <3>2, <3>3 DEF Store
  <2> QED BY <2>1, <2>2, <2>3 DEF Commit
<1> QED BY <1>1, <1>2, <1>3, SaveKeepsRecords

\* What NoUnrecordedChange asks of one step.
RecordedChange ==
    /\ <<checkouts, carts, inventory, orders>>'
         # <<checkouts, carts, inventory, orders>>
       => \E k \in Keys : idempotency[k] = None /\ idempotency'[k] # None
    /\ \A k \in Keys : idempotency[k] # None => idempotency'[k] = idempotency[k]

LEMMA NextRecordsChange ==
    ASSUME TypeOK, [Next]_vars PROVE RecordedChange
<1>1. CASE UNCHANGED tables
  BY <1>1 DEF tables, RecordedChange
<1>2. ASSUME NEW p \in Requests, Commit(p) PROVE RecordedChange
  BY <1>2, CommitSaves DEF RecordedChange, RecordsStay
<1>3. UNCHANGED tables \/ \E p \in Requests : Commit(p)
  BY OnlyCommitsWrite DEF Next, Quiescent, Crash, vars
<1> QED BY <1>1, <1>2, <1>3

\* Checkouts, carts, stock and orders change only in a commit that also stores
\* a new key record, and no record is ever replaced.
THEOREM ChangesRecorded == Spec => NoUnrecordedChange
<1>1. TypeOK /\ [Next]_vars => [RecordedChange]_vars
  BY NextRecordsChange
<1> QED BY <1>1, TypeCorrect, PTL DEF Spec, NoUnrecordedChange, RecordedChange

\* The checkout that this body answers with is there, and of this cart.
OfCart(body, cart) ==
    /\ body \in Body
    /\ checkouts[body.id] # None
    /\ checkouts[body.id].cart_id = cart

\* The new checkout of a handler is of the cart that its request names, and so
\* is the checkout it has been answered with.
ConversionOK(p) ==
    /\ pc[p] \in {"validate", "insert"} => draft[p].cart_id = req[p].cart_id
    /\ Answered(p, "ok") /\ FromCart(p) => OfCart(resp[p].body, req[p].cart_id)

\* The record of a create answers with a checkout of the cart it hashes.
RecordNamesCart(k) ==
    idempotency[k] # None /\ idempotency[k].hash.op = "create_checkout" =>
        OfCart(idempotency[k].body, idempotency[k].hash.cart_id)

CartsNamed ==
    /\ \A p \in Requests : ConversionOK(p)
    /\ \A k \in Keys : RecordNamesCart(k)

\* A checkout once there stays, and stays of its cart.
RowsKeepCart ==
    \A c \in Ids : checkouts[c] # None =>
        checkouts'[c] # None /\ checkouts'[c].cart_id = checkouts[c].cart_id

LEMMA ShopKeepsCart ==
    ASSUME TypeOK, TypeOK', TheShop!ShopNext \/ UNCHANGED ShopVars
    PROVE  RowsKeepCart
<1> SUFFICES ASSUME NEW c \in Ids, checkouts[c] # None
             PROVE  checkouts'[c] # None /\ checkouts'[c].cart_id = checkouts[c].cart_id
  BY DEF RowsKeepCart
<1>1. CASE UNCHANGED ShopVars
  BY <1>1 DEF ShopVars
<1>2. CASE TheShop!ShopNext
  <2>1. PICK d \in Ids : \/ TheShop!Create(d) \/ TheShop!Update(d) \/ TheShop!Cancel(d)
                         \/ \E o \in Requests : TheShop!Complete(d, o)
    BY <1>2 DEF TheShop!ShopNext
  <2>2. CASE d # c
    BY <2>1, <2>2 DEF TheShop!Create, TheShop!Update, TheShop!Cancel,
       TheShop!Complete, TheShop!Rewrite, TypeOK, TablesOK
  <2>3. CASE d = c
    <3>1. checkouts[c] \in CheckoutRow
      BY DEF TypeOK, TablesOK
    <3>2. CASE TheShop!Create(c) \/ TheShop!Update(c)
      BY <3>2 DEF TheShop!Create, TheShop!Update, TheShop!Rewrite, TheShop!Open
    <3>3. CASE TheShop!Cancel(c)
      <4>1. checkouts'[c] = CanceledCheckout(checkouts[c])
        BY <3>3 DEF TheShop!Cancel, CanceledCheckout, TypeOK, TablesOK
      <4>2. checkouts'[c] \in CheckoutRow /\ checkouts'[c].cart_id = checkouts[c].cart_id
        BY <3>1, <4>1 DEF CanceledCheckout, CheckoutRow, Status, Terminal
      <4> QED BY <4>2, ConstantsAssumption
    <3>4. ASSUME NEW o \in Requests, TheShop!Complete(c, o)
          PROVE  checkouts'[c] # None /\ checkouts'[c].cart_id = checkouts[c].cart_id
      <4>1. checkouts'[c] = CompletedCheckout(checkouts[c], o)
        BY <3>4 DEF TheShop!Complete, CompletedCheckout, TypeOK, TablesOK
      <4>2. checkouts'[c] \in CheckoutRow /\ checkouts'[c].cart_id = checkouts[c].cart_id
        BY <3>1, <4>1 DEF CompletedCheckout, CheckoutRow, Status, Terminal
      <4> QED BY <4>2, ConstantsAssumption
    <3> QED BY <2>1, <2>3, <3>2, <3>3, <3>4
  <2> QED BY <2>2, <2>3
<1> QED BY <1>1, <1>2

LEMMA OfCartKept ==
    ASSUME RowsKeepCart, NEW body, NEW cart, OfCart(body, cart)
    PROVE  /\ body \in Body
           /\ checkouts'[body.id] # None /\ checkouts'[body.id].cart_id = cart
BY DEF OfCart, RowsKeepCart, Body

LEMMA OtherConversionsKept ==
    ASSUME CartsNamed, RowsKeepCart, NEW p \in Requests, OwnStep(p)
    PROVE  /\ \A q \in Requests \ {p} : ConversionOK(q)'
           /\ \A k \in Keys : idempotency[k] # None => RecordNamesCart(k)'
<1>1. ASSUME NEW q \in Requests \ {p} PROVE ConversionOK(q)'
  <2>1. /\ req'[q] = req[q] /\ pc'[q] = pc[q] /\ draft'[q] = draft[q]
        /\ resp'[q] = resp[q] /\ ConversionOK(q)
    BY DEF OwnStep, CartsNamed
  <2> QED BY <2>1, OfCartKept DEF ConversionOK, OfCart, Answered, FromCart
<1>2. ASSUME NEW k \in Keys, idempotency[k] # None PROVE RecordNamesCart(k)'
  <2>1. idempotency'[k] = idempotency[k] /\ RecordNamesCart(k)
    BY <1>2 DEF OwnStep, RecordsStay, CartsNamed
  <2> QED BY <1>2, <2>1, OfCartKept DEF RecordNamesCart, OfCart
<1> QED BY <1>1, <1>2

\* A step of p that answers no 2xx, and makes no checkout ready to insert.
LEMMA SilentConversion ==
    ASSUME Recorded, NEW p \in Requests, pc[p] # "done",
           pc'[p] \notin {"validate", "insert"},
           resp'[p] = resp[p] \/ resp'[p].code # "ok"
    PROVE  ConversionOK(p)'
<1>1. ~Answered(p, "ok")'
  BY DEF Recorded, AnswersRecorded, AnswerRecorded, At, Answered
<1> QED BY <1>1 DEF ConversionOK

\* A 2xx from the record of the key.
LEMMA ReplayedConversion ==
    ASSUME TypeOK, CartsNamed, NEW p \in Requests, pc[p] # "idle",
           UNCHANGED tables, AnswerFromRecord(p)
    PROVE  ConversionOK(p)'
<1>1. /\ pc'[p] = "done" /\ req'[p] = req[p] /\ idempotency[req[p].key] # None
      /\ \/ resp'[p] = [code |-> "key_conflict", body |-> None]
         \/ /\ resp'[p] = [code |-> "ok", body |-> idempotency[req[p].key].body]
            /\ idempotency[req[p].key].hash = Hash(req[p])
  BY DEF AnswerFromRecord, Answer, Go, TypeOK, HandlersOK
<1>2. req[p].key \in Keys /\ RecordNamesCart(req[p].key)
  BY ArrivedRequest DEF TypeOK, HandlersOK, CartsNamed
<1>3. FromCart(p) => Hash(req[p]).op = "create_checkout"
                     /\ Hash(req[p]).cart_id = req[p].cart_id
  BY DEF FromCart, Hash, CheckoutOps
<1> QED
  BY <1>1, <1>2, <1>3
     DEF ConversionOK, RecordNamesCart, OfCart, Answered, FromCart, tables

\* The other steps without a commit.
LEMMA PlainConversion ==
    ASSUME Consistent, Recorded, CartsNamed, NEW p \in Requests,
           Arrive(p) \/ LockTimeout(p) \/ Step(p), ~Commit(p)
    PROVE  ConversionOK(p)'
<1> USE DEF At, Working
<1>0. UNCHANGED tables /\ HandlersOK /\ TypeOK /\ ConversionOK(p) /\ CarriedOK(p)
  BY OnlyCommitsWrite DEF Consistent, TypeOK, HandlersOK, CartsNamed
<1>1. CASE Arrive(p) \/ FindNone(p) \/ LookupLocked(p) \/ ReadOpenCheckout(p)
           \/ LookupCart(p) \/ StageCart(p)
  <2>1. /\ pc[p] # "done" /\ pc'[p] \notin {"validate", "insert"}
        /\ resp'[p] = resp[p]
    BY <1>0, <1>1 DEF HandlersOK, Go, Arrive, FindNone, LookupLocked, ReadOpenCheckout,
       LookupCart, StageCart
  <2> QED BY <2>1, SilentConversion
<1>2. CASE LockTimeout(p) \/ RefuseCheckout(p) \/ UpdateOutOfStock(p)
           \/ RefuseCompletion(p) \/ ReservationFails(p) \/ CommitCartFails(p)
  <2>1. pc[p] # "done" /\ \E code \in Codes \ {"ok"} : Answer(p, code, None)
    BY <1>2 DEF LockTimeout, RefuseCheckout, UpdateOutOfStock, RefuseCompletion,
       ReservationFails, CommitCartFails, Codes, Waiting, CartCommits
  <2> QED BY <1>0, <2>1, SilentConversion DEF Answer, Go, HandlersOK
<1>3. CASE LookupHit(p) \/ InsertCheckoutRaced(p) \/ WorkRaced(p)
           \/ CommitCartRaced(p)
  <2>1. pc[p] # "idle" /\ AnswerFromRecord(p)
    BY <1>3 DEF LookupHit, InsertCheckoutRaced, WorkRaced, CommitCartRaced, LoseRace,
       CartCommits
  <2> QED BY <1>0, <2>1, ReplayedConversion
<1>4. CASE LookupCreate(p)
  <2>1. ~Answered(p, "ok") /\ UNCHANGED <<req, resp>> /\ pc[p] = "lookup"
    BY <1>4 DEF LookupCreate, Recorded, AnswersRecorded, AnswerRecorded
  <2>2. CASE req[p].cart_id = None
    <3>1. /\ draft' = [draft EXCEPT ![p] = NewCheckout(req[p], req[p].lines)]
          /\ pc' = [pc EXCEPT ![p] = "validate"]
      BY <1>4, <2>2 DEF LookupCreate, Go
    <3>2. draft'[p].cart_id = req[p].cart_id
      BY <1>0, <3>1 DEF HandlersOK, NewCheckout
    <3> QED BY <2>1, <3>2 DEF ConversionOK, Answered
  <2>3. CASE req[p].cart_id # None
    BY <1>0, <1>4, <2>1, <2>3, SilentConversion DEF LookupCreate, Go, HandlersOK
  <2> QED BY <2>2, <2>3
<1>5. CASE LoadCart(p)
  <2>1. ~Answered(p, "ok") /\ pc[p] = "load_cart"
    BY <1>5 DEF LoadCart, Recorded, AnswersRecorded, AnswerRecorded
  <2>2. CASE carts[req[p].cart_id] = None
    BY <1>0, <1>5, <2>1, <2>2, SilentConversion DEF LoadCart, Answer, Go, HandlersOK
  <2>3. CASE carts[req[p].cart_id] # None
    <3>1. /\ draft' = [draft EXCEPT
               ![p] = NewCheckout(req[p], carts[req[p].cart_id])]
          /\ UNCHANGED <<req, resp>>
      BY <1>5, <2>3 DEF LoadCart
    <3>2. draft'[p].cart_id = req[p].cart_id
      BY <1>0, <3>1 DEF HandlersOK, NewCheckout
    <3> QED BY <2>1, <3>1, <3>2 DEF ConversionOK, Answered
  <2> QED BY <2>2, <2>3
<1>6. CASE ValidateCreate(p)
  <2>1. ~Answered(p, "ok") /\ pc[p] = "validate"
    BY <1>6 DEF ValidateCreate, Recorded, AnswersRecorded, AnswerRecorded
  <2>2. CASE EveryLineInStock(draft[p].lines)
    BY <1>0, <1>6, <2>1, <2>2 DEF ValidateCreate, ConversionOK, Answered
  <2>3. CASE ~EveryLineInStock(draft[p].lines)
    BY <1>0, <1>6, <2>1, <2>3, SilentConversion
       DEF ValidateCreate, Answer, Go, HandlersOK
  <2> QED BY <2>2, <2>3
<1>7. CASE ReturnExisting(p)
  <2>1. PICK c \in OpenCheckouts(req[p].cart_id) :
          Answer(p, "ok", [id |-> c, content |-> checkouts[c]])
    BY <1>7 DEF ReturnExisting
  <2>2. /\ c \in Ids /\ checkouts[c] # None /\ checkouts[c].cart_id = req[p].cart_id
        /\ [id |-> c, content |-> checkouts[c]] \in Body
    BY <1>0, <2>1 DEF OpenCheckouts, Body, TypeOK, TablesOK
  <2>3. /\ pc'[p] = "done" /\ req' = req /\ UNCHANGED checkouts
        /\ resp'[p].body = [id |-> c, content |-> checkouts[c]]
    BY <1>0, <2>1 DEF Answer, Go, HandlersOK, tables
  <2> QED BY <2>2, <2>3 DEF ConversionOK, OfCart
<1>8. CASE NotifyPlaced(p)
  <2>1. ~FromCart(p) /\ pc'[p] = "done" /\ req' = req
    BY <1>0, <1>8 DEF NotifyPlaced, Answer, Go, CarriedOK, FromCart, LockedOps,
       HandlersOK
  <2> QED BY <2>1 DEF ConversionOK, FromCart
<1>9. CASE ReadCart(p)
  BY <1>0, <1>9, SilentConversion DEF ReadCart, Answer, Go, HandlersOK
<1> QED
  BY <1>1, <1>2, <1>3, <1>4, <1>5, <1>6, <1>7, <1>8, <1>9
     DEF Step, CheckoutStep, CartStep, Commit

LEMMA CommitConversion ==
    ASSUME Consistent, Recorded, CartsNamed, NEW p \in Requests, Commit(p)
    PROVE  /\ ConversionOK(p)'
           /\ \A k \in Keys : idempotency[k] = None => RecordNamesCart(k)'
<1>0. /\ HandlersOK /\ TypeOK /\ ConversionOK(p) /\ CarriedOK(p)
      /\ idempotency'[req[p].key].hash = Hash(req[p])
      /\ \A k \in Keys : k # req[p].key => idempotency'[k] = idempotency[k]
  BY CommitSaves DEF Consistent, TypeOK, HandlersOK, CartsNamed
<1>1. CASE InsertCheckout(p)
  <2>1. /\ pc[p] = "insert" /\ req' = req /\ pc'[p] = "done"
        /\ checkouts' = [checkouts EXCEPT ![p] = draft[p]]
        /\ idempotency' = [idempotency EXCEPT ![req[p].key] =
             [hash |-> Hash(req[p]), body |-> [id |-> p, content |-> draft[p]]]]
        /\ resp'[p].body = [id |-> p, content |-> draft[p]]
    BY <1>0, <1>1
       DEF InsertCheckout, At, Store, SaveRecord, Answer, Go, HandlersOK
  <2>2. /\ req[p].key \in Keys /\ req[p].op = "create_checkout"
        /\ draft[p] \in CheckoutRow /\ draft[p].cart_id = req[p].cart_id
    BY <1>0, <2>1, ArrivedRequest DEF CarriedOK, ConversionOK
  <2>3. p \in Ids /\ draft[p] # None /\ checkouts'[p] = draft[p]
    BY <1>0, <2>1, <2>2, ConstantsAssumption DEF TypeOK, TablesOK, Ids
  <2>4. /\ Hash(req[p]).cart_id = req[p].cart_id
        /\ idempotency'[req[p].key].body = [id |-> p, content |-> draft[p]]
        /\ [id |-> p, content |-> draft[p]] \in Body
    BY <1>0, <2>1, <2>2, <2>3 DEF Hash, CheckoutOps, Body, TypeOK, TablesOK
  <2>5. ConversionOK(p)'
    BY <2>1, <2>2, <2>3, <2>4 DEF ConversionOK, OfCart
  <2>6. ASSUME NEW k \in Keys, idempotency[k] = None PROVE RecordNamesCart(k)'
    BY <1>0, <2>2, <2>3, <2>4, <2>6 DEF RecordNamesCart, OfCart
  <2> QED BY <2>5, <2>6
<1>2. CASE ~InsertCheckout(p)
  <2>1. /\ req[p].op \notin {"create_checkout"} /\ req' = req
        /\ pc'[p] \notin {"validate", "insert"}
    BY <1>0, <1>2 DEF Commit, UpdateCheckout, CancelCheckout, CompleteCheckout,
       CommitCart, Working, At, Answer, Go, CarriedOK, CartOps, HandlersOK
  <2>2. ConversionOK(p)'
    BY <2>1 DEF ConversionOK, FromCart
  <2>3. Hash(req[p]).op # "create_checkout"
    BY <2>1 DEF Hash
  <2>4. ASSUME NEW k \in Keys, idempotency[k] = None PROVE RecordNamesCart(k)'
    BY <1>0, <2>3, <2>4 DEF RecordNamesCart
  <2> QED BY <2>2, <2>4
<1> QED BY <1>1, <1>2

LEMMA NextNamed ==
    ASSUME Consistent, TypeOK', Recorded, CartsNamed, [Next]_vars
    PROVE  CartsNamed'
<1>1. RowsKeepCart
  BY NextImplementsShop, ShopKeepsCart DEF Consistent
<1>2. ASSUME NEW p \in Requests, Arrive(p) \/ LockTimeout(p) \/ Step(p)
      PROVE  CartsNamed'
  <2>1. OwnStep(p)
    BY <1>2, PlainCheckoutSteps, PlainOtherSteps, ReadKeeps, InsertKeeps,
       CommitCartKeeps, LockedCommitsKeep
       DEF Step, CheckoutStep, QuietCheckoutStep, CartStep, PlainKeeps, CommitKeeps
  <2>2. /\ \A q \in Requests \ {p} : ConversionOK(q)'
        /\ \A k \in Keys : idempotency[k] # None => RecordNamesCart(k)'
    BY <1>1, <2>1, OtherConversionsKept
  <2>3. CASE Commit(p)
    BY <2>2, <2>3, CommitConversion DEF CartsNamed
  <2>4. CASE ~Commit(p)
    <3>1. ConversionOK(p)' /\ UNCHANGED tables
      BY <1>2, <2>4, PlainConversion, OnlyCommitsWrite
    <3>2. ASSUME NEW k \in Keys, idempotency[k] = None PROVE RecordNamesCart(k)'
      BY <3>1, <3>2 DEF tables, RecordNamesCart
    <3> QED BY <2>2, <3>1, <3>2 DEF CartsNamed
  <2> QED BY <2>3, <2>4
<1>3. CASE Crash
  <2>1. /\ UNCHANGED <<checkouts, idempotency, req>>
        /\ \A q \in Requests :
             \/ pc'[q] = pc[q] /\ draft'[q] = draft[q] /\ resp'[q] = resp[q]
             \/ pc'[q] = "done" /\ resp'[q] = [code |-> "lost", body |-> None]
    BY <1>3 DEF Crash, tables, Consistent, TypeOK, HandlersOK
  <2> QED
    BY <2>1 DEF CartsNamed, ConversionOK, RecordNamesCart, OfCart, Answered, FromCart
<1>4. CASE UNCHANGED vars
  BY <1>4 DEF vars, tables, handlers, CartsNamed, ConversionOK, RecordNamesCart,
     OfCart, Answered, FromCart
<1> QED BY <1>2, <1>3, <1>4 DEF Next, Quiescent

\* A conversion is answered with a checkout of the cart it names: the one it
\* made, one it found open, or the one that its key's record answers with.
THEOREM Conversions == Spec => []ConversionNamesItsCart
<1>1. Init => CartsNamed
  BY DEF Init, CartsNamed, ConversionOK, RecordNamesCart, Answered
<1>2. Consistent /\ TypeOK' /\ Recorded /\ CartsNamed /\ [Next]_vars => CartsNamed'
  BY NextNamed
<1>3. Consistent => TypeOK
  BY DEF Consistent
<1>4. CartsNamed => ConversionNamesItsCart
  BY DEF CartsNamed, ConversionOK, OfCart, ConversionNamesItsCart
<1> QED BY <1>1, <1>2, <1>3, <1>4, Consistency, Recording, PTL DEF Spec

-----------------------------------------------------------------------------
(* Stock: what inventory lost is what the orders hold *)

\* q more units under a name that had none.
LEMMA UnitsAdded ==
    ASSUME NEW S, IsFiniteSet(S), NEW o, NEW q \in Nat,
           \A n \in 1..q : <<o, n>> \notin S
    PROVE  /\ IsFiniteSet(S \cup ({o} \X (1..q)))
           /\ Cardinality(S \cup ({o} \X (1..q))) = Cardinality(S) + q
<1> DEFINE New == {o} \X (1..q)
<1>1. IsFiniteSet(1..q) /\ Cardinality(1..q) = q
  BY FS_Interval
<1>2. IsFiniteSet({o}) /\ Cardinality({o}) = 1
  BY FS_Singleton
<1>3. IsFiniteSet(New) /\ Cardinality(New) = 1 * q
  BY <1>1, <1>2, FS_Product
<1>4. S \cap New = {}
  OBVIOUS
<1>5. Cardinality(S \cap New) = 0
  BY <1>4, FS_EmptySet
<1>6. /\ IsFiniteSet(S \cup New)
      /\ Cardinality(S \cup New) = Cardinality(S) + Cardinality(New) - Cardinality(S \cap New)
  BY <1>3, FS_Union
<1>7. Cardinality(S) \in Nat
  BY FS_CardinalityType
<1> HIDE DEF New
<1>8. Cardinality(S \cup New) = Cardinality(S) + q
  BY <1>3, <1>5, <1>6, <1>7
<1> QED BY <1>6, <1>8 DEF New

\* There are finitely many units sold, and with the stock they are the
\* initial stock.
StockHeld ==
    \A i \in Items : IsFiniteSet(SoldUnits(i)) /\ InitStock[i] = inventory[i] + UnitsSold(i)

LEMMA InitStockHeld == Init => StockHeld
<1> SUFFICES ASSUME Init, NEW i \in Items
             PROVE  IsFiniteSet(SoldUnits(i)) /\ InitStock[i] = inventory[i] + UnitsSold(i)
  BY DEF StockHeld
<1>1. SoldUnits(i) = {}
  BY DEF Init, SoldUnits
<1>2. UnitsSold(i) = 0 /\ IsFiniteSet(SoldUnits(i))
  BY <1>1, FS_EmptySet DEF UnitsSold
<1>3. inventory[i] = InitStock[i] /\ InitStock[i] \in Nat
  BY ConstantsAssumption DEF Init
<1> QED BY <1>2, <1>3

LEMMA SaleKeepsStock ==
    ASSUME TypeOK, StockHeld, NEW c \in Ids, NEW o \in Requests, TheShop!Complete(c, o)
    PROVE  StockHeld'
<1> DEFINE order == [checkout_id |-> c, lines |-> checkouts[c].lines]
<1>1. /\ checkouts[c].lines \in Lines /\ order \in OrderRow
      /\ orders[o] = None /\ orders' = [orders EXCEPT ![o] = order]
      /\ inventory' = [i \in Items |-> inventory[i] - checkouts[c].lines.qty[i]]
  BY DEF TheShop!Complete, TheShop!Open, TypeOK, TablesOK, CheckoutRow, OrderRow
<1>2. order # None /\ order.lines = checkouts[c].lines
  BY <1>1, ConstantsAssumption
<1> HIDE DEF order
<1> SUFFICES ASSUME NEW i \in Items
             PROVE  /\ IsFiniteSet(SoldUnits(i)')
                    /\ InitStock[i] = inventory'[i] + UnitsSold(i)'
  BY DEF StockHeld
<1> DEFINE q == order.lines.qty[i]
<1>3. q \in 0..MaxQty /\ q \in Nat /\ q = checkouts[c].lines.qty[i]
  BY <1>1, <1>2, ConstantsAssumption DEF Lines
<1>4. /\ orders'[o] = order
      /\ \A p \in Requests : p # o => orders'[p] = orders[p]
  BY <1>1 DEF TypeOK, TablesOK
<1>5. SoldUnits(i)' = SoldUnits(i) \cup ({o} \X (1..q))
  <2>1. ASSUME NEW p \in Requests, NEW n \in 1..MaxQty
        PROVE  <<p, n>> \in SoldUnits(i)' <=>
                 <<p, n>> \in SoldUnits(i) \/ (p = o /\ n \in 1..q)
    BY <1>1, <1>2, <1>3, <1>4 DEF SoldUnits
  <2>2. \A u \in SoldUnits(i)' : u = <<u[1], u[2]>> /\ u[1] \in Requests /\ u[2] \in 1..MaxQty
    BY DEF SoldUnits
  <2>3. \A u \in SoldUnits(i) : u = <<u[1], u[2]>> /\ u[1] \in Requests /\ u[2] \in 1..MaxQty
    BY DEF SoldUnits
  <2>4. \A u \in {o} \X (1..q) : /\ u = <<u[1], u[2]>> /\ u[1] = o
                                /\ u[2] \in 1..q /\ u[2] \in 1..MaxQty
    BY <1>3, ConstantsAssumption
  <2> HIDE DEF q
  <2> QED BY <2>1, <2>2, <2>3, <2>4
<1>6. \A n \in 1..q : <<o, n>> \notin SoldUnits(i)
  BY <1>1 DEF SoldUnits
<1>7. IsFiniteSet(SoldUnits(i)) /\ InitStock[i] = inventory[i] + UnitsSold(i)
  BY DEF StockHeld
<1>8. /\ IsFiniteSet(SoldUnits(i)')
      /\ Cardinality(SoldUnits(i)') = Cardinality(SoldUnits(i)) + q
  <2> DEFINE S == SoldUnits(i)
             T == S \cup ({o} \X (1..q))
  <2>1. IsFiniteSet(S) /\ q \in Nat /\ \A n \in 1..q : <<o, n>> \notin S
    BY <1>3, <1>6, <1>7
  <2>2. SoldUnits(i)' = T
    BY <1>5
  <2> HIDE DEF S, q
  <2>3. IsFiniteSet(T) /\ Cardinality(T) = Cardinality(S) + q
    BY <2>1, UnitsAdded
  <2> HIDE DEF T
  <2>4. Cardinality(SoldUnits(i)') = Cardinality(S) + q
    BY <2>2, <2>3
  <2> QED BY <2>2, <2>3, <2>4 DEF S
<1>9. /\ inventory'[i] = inventory[i] - q /\ inventory[i] \in Nat
      /\ Cardinality(SoldUnits(i)) \in Nat
  BY <1>1, <1>3, <1>7, FS_CardinalityType DEF TypeOK, TablesOK
<1> HIDE DEF q
<1> QED BY <1>3, <1>7, <1>8, <1>9 DEF UnitsSold

\* Stock sold is stock ordered: no interleaving loses or doubles a unit.
THEOREM Stock == Spec => []StockConserved
<1>1. Init => StockHeld
  BY InitStockHeld
<1>2. Consistent /\ TypeOK' /\ StockHeld /\ [Next]_vars => StockHeld'
  <2> SUFFICES ASSUME Consistent, TypeOK', StockHeld, [Next]_vars PROVE StockHeld'
    OBVIOUS
  <2>1. CASE UNCHANGED <<inventory, orders>>
    BY <2>1 DEF StockHeld, UnitsSold, SoldUnits
  <2>2. \/ UNCHANGED <<inventory, orders>>
        \/ \E c \in Ids, o \in Requests : TheShop!Complete(c, o)
    BY NextImplementsShop DEF Consistent, ShopVars, TheShop!ShopNext, TheShop!Create, TheShop!Update,
       TheShop!Cancel
  <2> QED BY <2>1, <2>2, SaleKeepsStock DEF Consistent
<1>3. Consistent => TypeOK
  BY DEF Consistent
<1>4. StockHeld => StockConserved
  BY DEF StockHeld, StockConserved
<1> QED BY <1>1, <1>2, <1>3, <1>4, Consistency, PTL DEF Spec
=============================================================================
