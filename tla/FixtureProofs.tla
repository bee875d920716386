---------------------------- MODULE FixtureProofs ----------------------------
(***************************************************************************)
(* Proofs about FixtureMerchant: who executes the create of a key, how     *)
(* many checkouts a key makes, and what it answers.                        *)
(***************************************************************************)
EXTENDS FixtureMerchant, FiniteSetTheorems, TLAPS

-----------------------------------------------------------------------------
(* The inductive invariant *)

\* Places of a create, of those before it is executed, and of the others.
Creating == {"cart", "prior", "keyed", "claim", "wait", "execute", "release"}
Paying == {"complete", "escalate", "draft", "commit"}
Writing == {"escalate", "draft", "commit", "replace", "x_write"}

\* What a thread has read, by the place it has come to.
Locals ==
    Lines \cup {None} \cup [lines : Lines, event : Threads] \cup Order

\* The lines that a create goes by, once it has them.
Asked(t) == IF pc[t] = "wait" THEN local[t].lines ELSE local[t]

ThreadOK(t) ==
    /\ pc[t] = "idle" <=> req[t] = None
    /\ pc[t] \in Creating => req[t].op = "create"
    /\ pc[t] \in {"cart", "prior"} => req[t].cart \in Carts
    /\ pc[t] \in {"claim", "wait", "release"} => req[t].key \in Keys
    /\ pc[t] \in Paying => req[t].op = "complete"
    /\ pc[t] \in {"update", "replace"} => req[t].op = "update"
    /\ pc[t] \in {"cancel", "x_write"} => req[t].op = "cancel"
    /\ pc[t] \in {"update_cart", "cancel_cart", "age", "outage"} => req[t].op = pc[t]
    /\ pc[t] \in Writing => sessions[req[t].id] # None
    /\ pc[t] \in {"cart", "prior", "keyed", "claim", "execute", "draft"} => local[t] \in Lines
    /\ pc[t] = "wait" => local[t] \in [lines : Lines, event : Threads]
    /\ pc[t] = "commit" => local[t] \in Order /\ local[t].checkout_id = req[t].id
    /\ pc[t] \in Creating /\ req[t].cart = None => Asked(t) = req[t].lines
    /\ pc[t] \notin {"release", "done"} => sessions[t] = None /\ resp[t].code # "ok"

\* Everything the tables and the threads may hold.
Typed ==
    /\ FixtureTypeOK
    /\ conversions \in [Carts -> Ids \cup {None}]
    /\ expired \in [Keys -> Nat]
    /\ req \in [Threads -> Request \cup {None}]
    /\ local \in [Threads -> Locals]
    /\ DOMAIN resp = Threads
    /\ \A t \in Threads : ThreadOK(t)

Made(key) == {t \in Threads : Keyed(t, key) /\ sessions[t] # None}

\* A key answers for the checkout it has made last, and a thread executes only
\* while it answers for none.
KeyOK(key) ==
    /\ \A t \in Threads : Keyed(t, key) /\ pc[t] = "execute" => ~Stored(key)
    /\ Cardinality(Made(key)) <= expired[key] + (IF Stored(key) THEN 1 ELSE 0)
    /\ idem[key] # None /\ idem[key].old => expired[key] > 0
    /\ \A t \in Threads :
         Keyed(t, key) /\ expired[key] = 0 /\ resp[t].code = "ok" /\ req[t].cart = None =>
             /\ Stored(key) /\ idem[key].id = resp[t].id
             /\ idem[key].lines = req[t].lines

Inv == Typed /\ ClaimIsHeld /\ \A key \in Keys : KeyOK(key)

-----------------------------------------------------------------------------
(* Requests, records and None *)

LEMMA RequestFields ==
    ASSUME NEW r \in Request
    PROVE  /\ r # None
           /\ r.op \in {"create", "update", "complete", "cancel", "update_cart",
                        "cancel_cart", "age", "outage"}
           /\ r.op = "create" => /\ r.lines \in Lines /\ r.key \in Keys \cup {None}
                                 /\ r.cart \in Carts \cup {None}
           /\ r.op \in {"update", "complete", "cancel"} => r.id \in Ids
           /\ r.op \in {"update", "update_cart"} => r.lines \in Lines
           /\ r.op \in {"update_cart", "cancel_cart"} => r.cart \in Carts
           /\ r.op = "age" => r.key \in Keys
           /\ r.op = "outage" => r.enabled \in BOOLEAN
<1>1. r # None
  BY NoneAssumption
<1>2. QED
  BY <1>1 DEF Request

LEMMA NoneIsNothing ==
    /\ None \notin Session /\ None \notin Order /\ None \notin Record
    /\ None \notin Threads /\ None \notin Ids /\ None \notin Keys
    /\ None \notin Carts /\ None \notin Lines
    /\ None \notin Terminal /\ None # "ok"
    /\ None \notin {"ready_for_complete", "requires_escalation"}
  BY NoneAssumption, FixtureAssumption DEF Ids

\* A status is told from None, and says that there is a session.
LEMMA StatusFact ==
    ASSUME Typed, NEW id \in Ids
    PROVE  Status(id) = None <=> sessions[id] = None
<1>1. sessions[id] # None => sessions[id].status # None
  BY NoneIsNothing DEF Typed, FixtureTypeOK, Session
<1>2. QED
  BY <1>1 DEF Status

-----------------------------------------------------------------------------
(* What a step of one thread leaves alone *)

OthersStay(t) ==
    \A u \in Threads \ {t} :
        pc'[u] = pc[u] /\ req'[u] = req[u] /\ local'[u] = local[u] /\ resp'[u] = resp[u]

\* The thread's own variables keep their types.
Moves(t) ==
    /\ OthersStay(t)
    /\ pc' \in [Threads -> Labels] /\ req' \in [Threads -> Request \cup {None}]
    /\ local' \in [Threads -> Locals] /\ DOMAIN resp' = Threads

\* Nobody's checkout comes or goes, except that t may make its own.
SessionsStay(t) ==
    /\ \A id \in Ids \ {t} : sessions'[id] = None <=> sessions[id] = None
    /\ sessions[t] # None => sessions'[t] # None

LEMMA Moved ==
    ASSUME Typed, NEW t \in Threads, Moves(t), SessionsStay(t), ThreadOK(t)',
           FixtureTypeOK', (conversions \in [Carts -> Ids \cup {None}])',
           (expired \in [Keys -> Nat])'
    PROVE  Typed'
<1>1. ASSUME NEW u \in Threads \ {t} PROVE ThreadOK(u)'
  <2>1. pc'[u] = pc[u] /\ req'[u] = req[u] /\ local'[u] = local[u] /\ resp'[u] = resp[u]
    BY <1>1 DEF Moves, OthersStay
  <2>2. ThreadOK(u) /\ req[u] \in Request \cup {None}
    BY <1>1 DEF Typed
  <2>3. sessions'[u] = None <=> sessions[u] = None
    BY <1>1 DEF SessionsStay, Ids
  <2>4. pc[u] \in Writing => req[u].id \in Ids
    BY <2>2, RequestFields, NoneIsNothing DEF ThreadOK, Writing, Paying, Ids
  <2>5. pc[u] \in Writing => sessions'[req[u].id] # None
    BY <2>2, <2>4 DEF ThreadOK, SessionsStay
  <2>6. QED
    BY <2>1, <2>2, <2>3, <2>5 DEF ThreadOK, Asked
<1>2. QED
  BY <1>1 DEF Typed, Moves

\* An answer is always in order.
LEMMA AnswerMoves ==
    ASSUME Typed, NEW t \in Threads, pc[t] # "idle", NEW code, NEW id,
           Answer(t, code, id)
    PROVE  /\ Moves(t) /\ ThreadOK(t)'
           /\ pc'[t] = "done" /\ req'[t] = req[t]
           /\ resp'[t] = [code |-> code, id |-> id]
<1>1. /\ pc' = [pc EXCEPT ![t] = "done"] /\ req' = req /\ local' = local
      /\ resp' = [resp EXCEPT ![t] = [code |-> code, id |-> id]]
  BY DEF Answer, Go
<1>2. Moves(t)
  BY <1>1 DEF Typed, FixtureTypeOK, Moves, OthersStay, Labels
<1>3. ThreadOK(t)'
  BY <1>1 DEF Typed, FixtureTypeOK, ThreadOK, Creating, Paying, Writing
<1>4. QED
  BY <1>1, <1>2, <1>3 DEF Typed, FixtureTypeOK

-----------------------------------------------------------------------------
(* Types, action by action *)

\* Steps that leave the tables alone.
LEMMA TablesStay ==
    ASSUME Typed, NEW t \in Threads, Moves(t), ThreadOK(t)', UNCHANGED <<store, keys>>
    PROVE  Typed'
<1>1. FixtureTypeOK' /\ SessionsStay(t)
      /\ (conversions \in [Carts -> Ids \cup {None}])' /\ (expired \in [Keys -> Nat])'
  BY DEF Typed, FixtureTypeOK, Moves, SessionsStay, store, keys
<1>2. QED
  BY <1>1, Moved

LEMMA ArriveTyped ==
    ASSUME Typed, NEW t \in Threads, Arrive(t) PROVE Typed'
<1>1. PICK r \in Menu[t] :
        /\ req' = [req EXCEPT ![t] = r]
        /\ Go(t, IF r.op # "create" THEN r.op
                 ELSE IF r.cart # None THEN "cart" ELSE "keyed")
        /\ Read(t, IF r.op = "create" THEN r.lines ELSE None)
  BY DEF Arrive
<1>2. r \in Request /\ r # None
  BY FixtureAssumption, RequestFields
<1>3. Moves(t)
  BY <1>1, <1>2, RequestFields
     DEF Arrive, Typed, FixtureTypeOK, Moves, OthersStay, Go, Read, Labels, Locals
<1>4. /\ req'[t] = r /\ local'[t] = IF r.op = "create" THEN r.lines ELSE None
      /\ pc'[t] = IF r.op # "create" THEN r.op
                  ELSE IF r.cart # None THEN "cart" ELSE "keyed"
  BY <1>1 DEF Typed, FixtureTypeOK, Go, Read
<1>5. sessions[t] = None /\ resp[t].code # "ok"
  BY DEF Arrive, At, Typed, ThreadOK
<1>6. ThreadOK(t)'
  BY <1>2, <1>4, <1>5, RequestFields
     DEF Arrive, store, ThreadOK, Creating, Paying, Writing, Asked
<1>7. QED
  BY <1>3, <1>6, TablesStay DEF Arrive

\* What holds of a thread on its way through a create.
LEMMA CreatingFacts ==
    ASSUME Typed, NEW t \in Threads, pc[t] \in Creating
    PROVE  /\ req[t] \in Request /\ req[t].op = "create" /\ ThreadOK(t)
           /\ req[t].key \in Keys \cup {None} /\ req[t].cart \in Carts \cup {None}
  BY RequestFields DEF Typed, ThreadOK, Creating

LEMMA BeforeExecuteTyped ==
    ASSUME Typed, NEW t \in Threads,
           ReadCart(t) \/ FindPrior(t) \/ EnterKey(t) \/ Wake(t) \/ WaitTimesOut(t)
    PROVE  Typed'
<1>0. pc[t] \in {"cart", "prior", "keyed", "wait"} /\ pc[t] # "idle"
  BY DEF ReadCart, FindPrior, EnterKey, Wake, WaitTimesOut, At
<1>1. /\ req[t] \in Request /\ req[t].op = "create" /\ ThreadOK(t)
      /\ req[t].key \in Keys \cup {None} /\ req[t].cart \in Carts \cup {None}
  BY <1>0, CreatingFacts DEF Creating
<1>2. UNCHANGED <<store, keys>>
  BY DEF ReadCart, FindPrior, EnterKey, Wake, WaitTimesOut
<1>3. CASE \E code, id : Answer(t, code, id)
  BY <1>0, <1>2, <1>3, AnswerMoves, TablesStay
<1>4. CASE ReadCart(t) /\ ~ \E code, id : Answer(t, code, id)
  <2>1. /\ carts[req[t].cart] # None /\ Go(t, "prior") /\ Read(t, carts[req[t].cart])
        /\ UNCHANGED <<req, resp>>
    BY <1>4 DEF ReadCart
  <2>2. req[t].cart \in Carts /\ carts[req[t].cart] \in Lines
    BY <1>1, <1>4, <2>1 DEF ReadCart, At, ThreadOK, Typed, FixtureTypeOK
  <2>3. /\ Moves(t) /\ pc'[t] = "prior" /\ req'[t] = req[t] /\ resp'[t] = resp[t]
        /\ local'[t] \in Lines
    BY <2>1, <2>2 DEF Typed, FixtureTypeOK, Moves, OthersStay, Go, Read, Locals, Labels
  <2>4. ThreadOK(t)'
    BY <1>1, <1>2, <1>4, <2>2, <2>3, NoneIsNothing
       DEF ReadCart, At, ThreadOK, store, Creating, Paying, Writing, Asked
  <2>5. QED
    BY <1>2, <2>3, <2>4, TablesStay
<1>5. CASE (FindPrior(t) \/ EnterKey(t)) /\ ~ \E code, id : Answer(t, code, id)
  <2>1. PICK label \in {"keyed", "claim", "execute"} :
            /\ Go(t, label) /\ UNCHANGED <<req, local, resp>>
            /\ label = "claim" => req[t].key # None
    BY <1>5 DEF FindPrior, EnterKey
  <2>2. /\ Moves(t) /\ pc'[t] = label /\ req'[t] = req[t] /\ resp'[t] = resp[t]
        /\ local'[t] = local[t]
    BY <2>1 DEF Typed, FixtureTypeOK, Moves, OthersStay, Go, Labels
  <2>3. pc[t] \in {"prior", "keyed"}
    BY <1>5 DEF FindPrior, EnterKey, At
  <2>4. ThreadOK(t)'
    BY <1>1, <1>2, <2>1, <2>2, <2>3, NoneIsNothing
       DEF ThreadOK, store, Creating, Paying, Writing, Asked
  <2>5. QED
    BY <1>2, <2>2, <2>4, TablesStay
<1>6. CASE Wake(t) \/ WaitTimesOut(t)
  <2>1. /\ pc[t] = "wait" /\ Go(t, "claim") /\ Read(t, local[t].lines)
        /\ UNCHANGED <<req, resp>>
    BY <1>6 DEF Wake, WaitTimesOut, At
  <2>2. local[t].lines \in Lines
    BY <1>1, <2>1 DEF ThreadOK
  <2>3. /\ Moves(t) /\ pc'[t] = "claim" /\ req'[t] = req[t] /\ resp'[t] = resp[t]
        /\ local'[t] = local[t].lines
    BY <2>1, <2>2 DEF Typed, FixtureTypeOK, Moves, OthersStay, Go, Read, Locals, Labels
  <2>4. ThreadOK(t)'
    BY <1>1, <1>2, <2>1, <2>2, <2>3 DEF ThreadOK, store, Creating, Paying, Writing, Asked
  <2>5. QED
    BY <1>2, <2>3, <2>4, TablesStay
<1>7. QED
  BY <1>3, <1>4, <1>5, <1>6

LEMMA ClaimTyped ==
    ASSUME Typed, NEW t \in Threads, Claim(t) PROVE Typed'
<1> DEFINE key == req[t].key
<1>0. pc[t] = "claim"
  BY DEF Claim, At
<1>1. /\ req[t] \in Request /\ req[t].op = "create" /\ ThreadOK(t) /\ key \in Keys
      /\ req[t].cart \in Carts \cup {None} /\ local[t] \in Lines
  BY <1>0, CreatingFacts DEF Creating, ThreadOK
<1>2. /\ UNCHANGED <<store, expired>>
      /\ idem' \in [Keys -> Record \cup {None}]
      /\ pending' \in [Keys -> Threads \cup {None}]
  BY <1>1 DEF Claim, Evict, Typed, FixtureTypeOK
<1>3. Moves(t) /\ ThreadOK(t)'
  <2>1. CASE Stored(key)
    <3>1. \E code, id : Answer(t, code, id)
      BY <2>1 DEF Claim, Replay
    <3> QED
      BY <1>0, <3>1, AnswerMoves
  <2>2. CASE ~Stored(key) /\ pending[key] = None
    <3>1. Go(t, "execute") /\ UNCHANGED <<req, local, resp>>
      BY <2>2 DEF Claim
    <3>2. /\ Moves(t) /\ pc'[t] = "execute" /\ req'[t] = req[t] /\ resp'[t] = resp[t]
          /\ local'[t] = local[t]
      BY <3>1 DEF Typed, FixtureTypeOK, Moves, OthersStay, Go, Labels
    <3> QED
      BY <1>0, <1>1, <1>2, <3>2 DEF ThreadOK, store, Creating, Paying, Writing, Asked
  <2>3. CASE ~Stored(key) /\ pending[key] # None
    <3>1. /\ Go(t, "wait") /\ Read(t, [lines |-> local[t], event |-> pending[key]])
          /\ UNCHANGED <<req, resp>>
      BY <2>3 DEF Claim
    <3>2. [lines |-> local[t], event |-> pending[key]] \in [lines : Lines, event : Threads]
      BY <1>1, <2>3 DEF Typed, FixtureTypeOK
    <3>3. /\ Moves(t) /\ pc'[t] = "wait" /\ req'[t] = req[t] /\ resp'[t] = resp[t]
          /\ local'[t] = [lines |-> local[t], event |-> pending[key]]
      BY <3>1, <3>2 DEF Typed, FixtureTypeOK, Moves, OthersStay, Go, Read, Labels, Locals
    <3> QED
      BY <1>0, <1>1, <1>2, <3>2, <3>3 DEF ThreadOK, store, Creating, Paying, Writing, Asked
  <2>4. QED
    BY <2>1, <2>2, <2>3
<1>4. FixtureTypeOK' /\ SessionsStay(t)
      /\ (conversions \in [Carts -> Ids \cup {None}])' /\ (expired \in [Keys -> Nat])'
  BY <1>2, <1>3 DEF Typed, FixtureTypeOK, Moves, SessionsStay, store
<1>5. QED
  BY <1>3, <1>4, Moved

\* The end of a create, with a key or without.
LEMMA FinishMoves ==
    ASSUME Typed, NEW t \in Threads, pc[t] = "execute", NEW code, NEW id,
           Finish(t, code, id)
    PROVE  /\ Moves(t) /\ ThreadOK(t)' /\ req'[t] = req[t]
           /\ resp'[t] = [code |-> code, id |-> id]
           /\ pc'[t] = IF req[t].key = None THEN "done" ELSE "release"
<1>1. /\ req[t] \in Request /\ req[t].op = "create" /\ ThreadOK(t)
      /\ req[t].key \in Keys \cup {None} /\ req[t].cart \in Carts \cup {None}
  BY CreatingFacts DEF Creating
<1>2. CASE req[t].key = None
  BY <1>2, AnswerMoves DEF Finish
<1>3. CASE req[t].key # None
  <2>1. /\ Go(t, "release") /\ UNCHANGED <<req, local>>
        /\ resp' = [resp EXCEPT ![t] = [code |-> code, id |-> id]]
    BY <1>3 DEF Finish
  <2>2. /\ Moves(t) /\ pc'[t] = "release" /\ req'[t] = req[t] /\ local'[t] = local[t]
        /\ resp'[t] = [code |-> code, id |-> id]
    BY <2>1 DEF Typed, FixtureTypeOK, Moves, OthersStay, Go, Labels
  <2>3. ThreadOK(t)'
    BY <1>1, <1>3, <2>2 DEF ThreadOK, Creating, Paying, Writing, Asked
  <2>4. QED
    BY <1>3, <2>2, <2>3
<1>4. QED
  BY <1>2, <1>3

LEMMA RefuseTyped ==
    ASSUME Typed, NEW t \in Threads, Refuse(t) PROVE Typed'
  BY FinishMoves, TablesStay DEF Refuse, At

\* What Create does to the tables, and that it moves only its own thread.
LEMMA CreateFacts ==
    ASSUME Typed, NEW t \in Threads, Create(t)
    PROVE  /\ pc[t] = "execute" /\ req[t].op = "create" /\ req[t] \in Request
           /\ req[t].key \in Keys \cup {None} /\ ThreadOK(t)
           /\ Moves(t) /\ ThreadOK(t)' /\ req'[t] = req[t]
           /\ resp'[t] = [code |-> "ok", id |-> t]
           /\ pc'[t] = IF req[t].key = None THEN "done" ELSE "release"
           /\ sessions' = [sessions EXCEPT ![t] = NewSession(t)] /\ NewSession(t) # None
           /\ sessions[t] = None
           /\ Result(t) \in Record
           /\ StoreKey(t) /\ UNCHANGED <<pending, expired>>
<1>1. pc[t] = "execute"
  BY DEF Create, At
<1>2. /\ req[t] \in Request /\ req[t].op = "create" /\ ThreadOK(t)
      /\ req[t].key \in Keys \cup {None} /\ req[t].cart \in Carts \cup {None}
  BY <1>1, CreatingFacts DEF Creating
<1>3. local[t] \in Lines /\ sessions[t] = None
  BY <1>1, <1>2 DEF ThreadOK
<1>4. NewSession(t) \in Session /\ NewSession(t) # None /\ Result(t) \in Record
  BY <1>2, <1>3, NoneIsNothing DEF NewSession, Session, Result, Record
<1>5. QED
  BY <1>1, <1>2, <1>3, <1>4, FinishMoves DEF Create

LEMMA CreateTyped ==
    ASSUME Typed, NEW t \in Threads, Create(t) PROVE Typed'
<1>1. /\ Moves(t) /\ ThreadOK(t)' /\ sessions' = [sessions EXCEPT ![t] = NewSession(t)]
      /\ NewSession(t) # None /\ Result(t) \in Record /\ StoreKey(t)
      /\ req[t].op = "create" /\ req[t] \in Request /\ req[t].key \in Keys \cup {None}
      /\ UNCHANGED <<pending, expired>> /\ ThreadOK(t) /\ pc[t] = "execute"
  BY CreateFacts
<1>2. NewSession(t) \in Session
  BY <1>1 DEF NewSession, Session, ThreadOK
<1>3. /\ sessions' \in [Ids -> Session \cup {None}] /\ SessionsStay(t)
      /\ \A id \in Ids : sessions[id] # None => sessions'[id] # None
  BY <1>1, <1>2 DEF Typed, FixtureTypeOK, SessionsStay, Ids
<1>4. idem' \in [Keys -> Record \cup {None}]
  BY <1>1 DEF StoreKey, Typed, FixtureTypeOK
<1>5. /\ conversions' \in [Carts -> Ids \cup {None}]
      /\ \A c \in Carts : conversions'[c] # None => sessions'[conversions'[c]] # None
  <2>1. CASE req[t].cart = None
    BY <2>1, <1>3 DEF Create, Link, Typed, FixtureTypeOK
  <2>2. CASE req[t].cart # None
    <3>1. conversions' = [conversions EXCEPT ![req[t].cart] = t]
      BY <2>2 DEF Create, Link
    <3>2. sessions'[t] # None /\ t \in Ids
      BY <1>1 DEF Typed, FixtureTypeOK, Ids
    <3> QED
      BY <1>3, <3>1, <3>2 DEF Typed, FixtureTypeOK
  <2>3. QED
    BY <2>1, <2>2
<1>6. \A o \in Orders : orders'[o] # None => sessions'[orders'[o].checkout_id] # None
  BY <1>3 DEF Create, Typed, FixtureTypeOK, Order
<1>7. FixtureTypeOK'
  BY <1>1, <1>3, <1>4, <1>5, <1>6 DEF Create, Typed, FixtureTypeOK, Moves
<1>8. QED
  BY <1>1, <1>3, <1>5, <1>7, Moved DEF Typed

LEMMA ReleaseTyped ==
    ASSUME Typed, NEW t \in Threads, Release(t) PROVE Typed'
<1>1. /\ pc[t] = "release" /\ Go(t, "done") /\ UNCHANGED <<store, idem, expired, req, local, resp>>
      /\ pending' = [pending EXCEPT ![req[t].key] = None]
  BY DEF Release, At
<1>2. Moves(t) /\ pc'[t] = "done" /\ req'[t] = req[t]
  BY <1>1 DEF Typed, FixtureTypeOK, Moves, OthersStay, Go, Labels
<1>3. ThreadOK(t)'
  BY <1>1, <1>2 DEF Typed, ThreadOK, Creating, Paying, Writing
<1>4. FixtureTypeOK' /\ SessionsStay(t)
      /\ (conversions \in [Carts -> Ids \cup {None}])' /\ (expired \in [Keys -> Nat])'
  BY <1>1, <1>2 DEF Typed, FixtureTypeOK, Moves, SessionsStay, store
<1>5. QED
  BY <1>2, <1>3, <1>4, Moved

\* What holds of a thread on its way through another operation on a checkout.
LEMMA SessionFacts ==
    ASSUME Typed, NEW t \in Threads,
           pc[t] \in Paying \cup {"update", "replace", "cancel", "x_write"}
    PROVE  /\ req[t] \in Request /\ req[t].op \in {"complete", "update", "cancel"}
           /\ req[t].id \in Ids /\ ThreadOK(t) /\ pc[t] # "idle"
           /\ sessions[t] = None /\ resp[t].code # "ok"
  BY RequestFields DEF Typed, ThreadOK, Paying

\* A step from one place of an operation on a checkout to the next.
LEMMA SessionGo ==
    ASSUME Typed, NEW t \in Threads,
           pc[t] \in Paying \cup {"update", "replace", "cancel", "x_write"},
           NEW label \in Writing, Go(t, label), UNCHANGED <<store, keys, req, resp>>,
           local' = local \/ \E v \in Locals : Read(t, v),
           label \in {"escalate", "draft", "commit"} => req[t].op = "complete",
           label = "replace" => req[t].op = "update",
           label = "x_write" => req[t].op = "cancel",
           sessions[req[t].id] # None,
           label = "draft" => local'[t] \in Lines,
           label = "commit" => local'[t] \in Order /\ local'[t].checkout_id = req[t].id
    PROVE  Typed'
<1>1. Moves(t) /\ pc'[t] = label /\ req'[t] = req[t] /\ resp'[t] = resp[t]
  BY DEF Typed, FixtureTypeOK, Moves, OthersStay, Go, Read, Labels, Writing
<1>2. ThreadOK(t)'
  BY <1>1, SessionFacts, NoneIsNothing, RequestFields
     DEF ThreadOK, store, Creating, Paying, Writing
<1>3. QED
  BY <1>1, <1>2, TablesStay

LEMMA SessionReadTyped ==
    ASSUME Typed, NEW t \in Threads,
           StartCompletion(t) \/ StartUpdate(t) \/ StartCancel(t) \/ DraftOrder(t)
    PROVE  Typed'
<1>0. pc[t] \in {"complete", "update", "cancel", "draft"} /\ UNCHANGED <<store, keys>>
  BY DEF StartCompletion, StartUpdate, StartCancel, DraftOrder, At
<1>1. /\ req[t] \in Request /\ req[t].id \in Ids /\ ThreadOK(t) /\ pc[t] # "idle"
      /\ pc[t] \in Paying \cup {"update", "replace", "cancel", "x_write"}
  BY <1>0, SessionFacts DEF Paying
<1>2. CASE \E code, id : Answer(t, code, id)
  BY <1>0, <1>1, <1>2, AnswerMoves, TablesStay
<1>3. Status(req[t].id) # None =>
        sessions[req[t].id] # None /\ sessions[req[t].id].lines \in Lines
  BY <1>1, StatusFact DEF Typed, FixtureTypeOK, Session
<1>4. CASE StartCompletion(t) /\ ~ \E code, id : Answer(t, code, id)
  <2>1. /\ pc[t] = "complete" /\ UNCHANGED <<req, resp>> /\ Status(req[t].id) # None
        /\ \/ Go(t, "escalate") /\ UNCHANGED local
           \/ Go(t, "draft") /\ Read(t, sessions[req[t].id].lines)
    BY <1>4 DEF StartCompletion, At
  <2>2. Read(t, sessions[req[t].id].lines) => local'[t] \in Lines
    BY <1>3, <2>1 DEF Typed, Read
  <2>3. req[t].op = "complete"
    BY <1>1, <2>1 DEF ThreadOK, Paying
  <2>4. CASE Go(t, "escalate") /\ UNCHANGED local
    BY <1>0, <1>1, <1>3, <2>1, <2>3, <2>4, SessionGo DEF Writing
  <2>5. CASE Go(t, "draft") /\ Read(t, sessions[req[t].id].lines)
    BY <1>0, <1>1, <1>3, <2>1, <2>2, <2>3, <2>5, SessionGo DEF Writing, Locals
  <2>6. QED
    BY <2>1, <2>4, <2>5
<1>5. CASE (StartUpdate(t) \/ StartCancel(t)) /\ ~ \E code, id : Answer(t, code, id)
  <2>1. /\ UNCHANGED <<req, resp, local>> /\ Status(req[t].id) # None
        /\ \/ pc[t] = "update" /\ Go(t, "replace")
           \/ pc[t] = "cancel" /\ Go(t, "x_write")
    BY <1>5 DEF StartUpdate, StartCancel, At
  <2>2. /\ pc[t] = "update" => req[t].op = "update"
        /\ pc[t] = "cancel" => req[t].op = "cancel"
    BY <1>1 DEF ThreadOK
  <2>3. QED
    BY <1>0, <1>1, <1>3, <2>1, <2>2, SessionGo DEF Writing
<1>6. CASE DraftOrder(t)
  <2> DEFINE draft == [checkout_id |-> req[t].id, totals |-> local[t],
                       lines |-> sessions[req[t].id].lines]
  <2>1. pc[t] = "draft" /\ Go(t, "commit") /\ Read(t, draft) /\ UNCHANGED <<req, resp>>
    BY <1>6 DEF DraftOrder, At
  <2>2. /\ local[t] \in Lines /\ sessions[req[t].id] # None /\ req[t].op = "complete"
    BY <1>1, <2>1 DEF ThreadOK, Writing, Paying
  <2>3. sessions[req[t].id].lines \in Lines
    BY <1>1, <2>2 DEF Typed, FixtureTypeOK, Session
  <2>4. draft \in Order /\ draft.checkout_id = req[t].id
    BY <1>1, <2>2, <2>3 DEF Order
  <2>5. local'[t] = draft
    BY <2>1 DEF Typed, Read
  <2>6. QED
    BY <1>0, <1>1, <2>1, <2>2, <2>4, <2>5, SessionGo DEF Writing, Locals
<1>7. QED
  BY <1>2, <1>4, <1>5, <1>6

\* A checkout is written to: it is there, and stays a checkout.
LEMMA SessionWriteTyped ==
    ASSUME Typed, NEW t \in Threads,
           Escalate(t) \/ CommitOrder(t) \/ ReplaceLines(t) \/ WriteCanceled(t)
    PROVE  Typed' /\ \A id \in Ids : sessions'[id] = None <=> sessions[id] = None
<1> DEFINE k == req[t].id
<1>0. pc[t] \in Writing /\ pc[t] # "draft"
  BY DEF Escalate, CommitOrder, ReplaceLines, WriteCanceled, At, Writing
<1>1. /\ req[t] \in Request /\ k \in Ids /\ ThreadOK(t) /\ pc[t] # "idle"
      /\ req[t].op \in {"complete", "update", "cancel"}
      /\ sessions[k] # None /\ sessions[k] \in Session
  BY <1>0, SessionFacts DEF Writing, Paying, ThreadOK, Typed, FixtureTypeOK
<1>2. Moves(t) /\ ThreadOK(t)'
  <2>1. \E code, id : Answer(t, code, id)
    BY DEF Escalate, CommitOrder, ReplaceLines, WriteCanceled
  <2>2. QED
    BY <1>1, <2>1, AnswerMoves
<1>3. PICK row \in Session : sessions' = [sessions EXCEPT ![k] = row]
  <2>1. CASE Escalate(t)
    <3>1. sessions' = [sessions EXCEPT ![k] = [sessions[k] EXCEPT !.status = "requires_escalation"]]
      BY <2>1 DEF Escalate
    <3>2. [sessions[k] EXCEPT !.status = "requires_escalation"] \in Session
      BY <1>1 DEF Session
    <3> QED  BY <3>1, <3>2
  <2>2. CASE CommitOrder(t)
    <3>1. sessions' = [sessions EXCEPT ![k] =
                [sessions[k] EXCEPT !.status = "completed", !.order = t]]
      BY <1>1, <2>2 DEF CommitOrder, Typed, FixtureTypeOK, Session
    <3>2. [sessions[k] EXCEPT !.status = "completed", !.order = t] \in Session
      BY <1>1 DEF Session, Terminal, Orders
    <3> QED  BY <3>1, <3>2
  <2>3. CASE ReplaceLines(t)
    <3>1. sessions' = [sessions EXCEPT ![k] = [sessions[k] EXCEPT !.lines = req[t].lines]]
      BY <2>3 DEF ReplaceLines
    <3>2. req[t].lines \in Lines
      BY <1>1, <2>3, RequestFields DEF ReplaceLines, At, ThreadOK
    <3>3. [sessions[k] EXCEPT !.lines = req[t].lines] \in Session
      BY <1>1, <3>2 DEF Session
    <3> QED  BY <3>1, <3>3
  <2>4. CASE WriteCanceled(t)
    <3>1. sessions' = [sessions EXCEPT ![k] = [sessions[k] EXCEPT !.status = "canceled"]]
      BY <2>4 DEF WriteCanceled
    <3>2. [sessions[k] EXCEPT !.status = "canceled"] \in Session
      BY <1>1 DEF Session, Terminal
    <3> QED  BY <3>1, <3>2
  <2>5. QED
    BY <2>1, <2>2, <2>3, <2>4
<1>4. /\ sessions' \in [Ids -> Session \cup {None}]
      /\ \A id \in Ids : sessions'[id] = None <=> sessions[id] = None
  BY <1>1, <1>3, NoneIsNothing DEF Typed, FixtureTypeOK
<1>5. UNCHANGED <<carts, conversions, keys>>
  BY DEF Escalate, CommitOrder, ReplaceLines, WriteCanceled
<1>6. /\ orders' \in [Orders -> Order \cup {None}]
      /\ \A o \in Orders : orders'[o] # None => sessions'[orders'[o].checkout_id] # None
  <2>1. CASE orders' = orders
    BY <1>4, <2>1 DEF Typed, FixtureTypeOK, Order
  <2>2. CASE CommitOrder(t)
    <3>1. orders' = [orders EXCEPT ![t] = local[t]] /\ local[t] \in Order
          /\ local[t].checkout_id = k
      BY <1>1, <2>2 DEF CommitOrder, At, ThreadOK
    <3>2. \A o \in Orders \ {t} : orders'[o] = orders[o]
      BY <3>1 DEF Typed, FixtureTypeOK
    <3>3. orders'[t] = local[t]
      BY <3>1 DEF Typed, FixtureTypeOK, Orders
    <3>4. orders' \in [Orders -> Order \cup {None}]
      BY <3>1 DEF Typed, FixtureTypeOK, Orders
    <3>5. \A o \in Orders \ {t} :
            orders'[o] # None => sessions'[orders'[o].checkout_id] # None
      BY <1>4, <3>2 DEF Typed, FixtureTypeOK, Order
    <3> QED  BY <1>1, <1>4, <3>1, <3>3, <3>4, <3>5
  <2>3. QED
    BY <2>1, <2>2 DEF Escalate, ReplaceLines, WriteCanceled
<1>7. \A c \in Carts : conversions'[c] # None => sessions'[conversions'[c]] # None
  BY <1>4, <1>5 DEF Typed, FixtureTypeOK
<1>8. FixtureTypeOK' /\ SessionsStay(t)
      /\ (conversions \in [Carts -> Ids \cup {None}])' /\ (expired \in [Keys -> Nat])'
  BY <1>2, <1>4, <1>5, <1>6, <1>7
     DEF Typed, FixtureTypeOK, Moves, SessionsStay, keys, Ids
<1>9. QED
  BY <1>2, <1>4, <1>8, Moved

LEMMA OtherTyped ==
    ASSUME Typed, NEW t \in Threads, OtherStep(t) PROVE Typed'
<1>0. /\ pc[t] \in {"update_cart", "cancel_cart", "age", "outage"} /\ pc[t] # "idle"
      /\ UNCHANGED <<sessions, orders, conversions, pending>>
      /\ \E code, id : Answer(t, code, id)
  BY DEF OtherStep, UpdateCart, CancelCart, Age, SetOutage, At, store, keys
<1>1. Moves(t) /\ ThreadOK(t)'
  BY <1>0, AnswerMoves
<1>2. /\ req[t] \in Request /\ req[t].op = pc[t]
  BY <1>0, RequestFields DEF Typed, ThreadOK
<1>3. carts' \in [Carts -> Lines \cup {None}]
  BY <1>2, RequestFields
     DEF OtherStep, UpdateCart, CancelCart, Age, SetOutage, At, store, Typed, FixtureTypeOK
<1>4. /\ idem' \in [Keys -> Record \cup {None}] /\ expired' \in [Keys -> Nat]
  <2>1. CASE UNCHANGED <<idem, expired>>
    BY <2>1 DEF Typed, FixtureTypeOK
  <2>2. CASE Age(t) /\ idem[req[t].key] # None
    <3>1. req[t].key \in Keys /\ idem[req[t].key] \in Record
      BY <1>2, <2>2, RequestFields DEF Age, At, Typed, FixtureTypeOK
    <3>2. /\ idem' = [idem EXCEPT ![req[t].key] = [idem[req[t].key] EXCEPT !.old = TRUE]]
          /\ expired' = [expired EXCEPT ![req[t].key] = @ + 1]
      BY <2>2 DEF Age
    <3>3. [idem[req[t].key] EXCEPT !.old = TRUE] \in Record
      BY <3>1 DEF Record
    <3> QED  BY <3>1, <3>2, <3>3 DEF Typed, FixtureTypeOK
  <2>3. QED
    BY <2>1, <2>2 DEF OtherStep, UpdateCart, CancelCart, Age, SetOutage, keys
<1>5. FixtureTypeOK' /\ SessionsStay(t)
      /\ (conversions \in [Carts -> Ids \cup {None}])' /\ (expired \in [Keys -> Nat])'
  BY <1>0, <1>1, <1>3, <1>4 DEF Typed, FixtureTypeOK, Moves, SessionsStay
<1>6. QED
  BY <1>1, <1>5, Moved

LEMMA InitTyped == Init => Typed
<1> SUFFICES ASSUME Init PROVE Typed
  OBVIOUS
<1>1. (CHOOSE l \in Contents : TRUE) \in Lines
  BY FixtureAssumption DEF Lines
<1>2. sessions \in [Ids -> Session \cup {None}]
  BY <1>1 DEF Init, Session
<1>3. \A t \in Threads : sessions[t] = None
  BY FixtureAssumption DEF Init, Ids
<1>4. \A t \in Threads : ThreadOK(t)
  BY <1>3, NoneIsNothing DEF Init, ThreadOK, NoAnswer, Creating, Paying, Writing
<1>5. QED
  BY <1>2, <1>4, FixtureAssumption DEF Init, Typed, FixtureTypeOK, Labels, Locals, Orders

LEMMA NextTyped ==
    ASSUME Typed, [Next]_vars PROVE Typed'
<1>1. CASE UNCHANGED vars
  BY <1>1 DEF vars, store, keys, Typed, FixtureTypeOK, ThreadOK, Asked
<1>2. ASSUME NEW t \in Threads, Arrive(t) \/ WaitTimesOut(t) \/ Step(t)
      PROVE  Typed'
  BY <1>2, ArriveTyped, BeforeExecuteTyped, ClaimTyped, RefuseTyped, CreateTyped,
     ReleaseTyped, SessionReadTyped, SessionWriteTyped, OtherTyped
     DEF Step, CreateStep, SessionStep
<1>3. QED
  BY <1>1, <1>2 DEF Next, AllAnswered

-----------------------------------------------------------------------------
(* Claims and keys *)

Holding == {"execute", "release"}

\* A step that starts and ends no create of a key, and answers "ok" to none.
Calm(t) ==
    /\ OthersStay(t) /\ UNCHANGED <<idem, pending, expired>>
    /\ \A id \in Ids : sessions'[id] = None <=> sessions[id] = None
    /\ \A key \in Keys :
         /\ Keyed(t, key)' /\ pc'[t] \in Holding <=> Keyed(t, key) /\ pc[t] \in Holding
         /\ Keyed(t, key)' /\ pc'[t] = "execute" => Keyed(t, key) /\ pc[t] = "execute"
         /\ Keyed(t, key)' /\ sessions[t] # None => Keyed(t, key)
         /\ Keyed(t, key)' /\ resp'[t].code = "ok" /\ req'[t].cart = None =>
              Keyed(t, key) /\ resp'[t] = resp[t] /\ req'[t] = req[t]

\* The checkouts a key has made are finitely many.
LEMMA MadeFinite ==
    ASSUME NEW key
    PROVE  IsFiniteSet(Made(key)) /\ Cardinality(Made(key)) \in Nat
  BY FixtureAssumption, FS_Subset, FS_CardinalityType DEF Made

\* What Keyed says of a thread that a step does not move.
LEMMA KeyedStays ==
    ASSUME NEW t \in Threads, OthersStay(t), NEW u \in Threads \ {t}, NEW key
    PROVE  Keyed(u, key)' <=> Keyed(u, key)
  BY DEF OthersStay, Keyed

LEMMA CalmKeeps ==
    ASSUME Inv, Typed', NEW t \in Threads, Calm(t)
    PROVE  Inv'
<1>1. ASSUME NEW key \in Keys
      PROVE {u \in Threads : Keyed(u, key) /\ pc[u] \in Holding}'
                = {u \in Threads : Keyed(u, key) /\ pc[u] \in Holding}
  <2>1. ASSUME NEW u \in Threads
        PROVE (Keyed(u, key) /\ pc[u] \in Holding)' <=> (Keyed(u, key) /\ pc[u] \in Holding)
    <3>1. CASE u = t
      BY <3>1 DEF Calm
    <3>2. CASE u # t
      BY <3>2, KeyedStays DEF Calm, OthersStay
    <3>3. QED
      BY <3>1, <3>2
  <2>2. QED
    BY <2>1
<1>2. ClaimIsHeld'
  BY <1>1 DEF Inv, ClaimIsHeld, Calm, Holding
<1>3. ASSUME NEW key \in Keys PROVE KeyOK(key)'
  <2>0. KeyOK(key) /\ (Stored(key)' <=> Stored(key)) /\ expired' = expired /\ idem' = idem
    BY DEF Inv, Calm, Stored
  <2>1. ASSUME NEW u \in Threads, (Keyed(u, key) /\ pc[u] = "execute")'
        PROVE  ~Stored(key)'
    <3>1. Keyed(u, key) /\ pc[u] = "execute"
      BY <2>1, KeyedStays DEF Calm, OthersStay
    <3>2. QED
      BY <2>0, <3>1 DEF KeyOK
  <2>2. Made(key)' \subseteq Made(key)
    <3>1. ASSUME NEW u \in Threads, (Keyed(u, key) /\ sessions[u] # None)'
          PROVE  Keyed(u, key) /\ sessions[u] # None
      BY <3>1, KeyedStays DEF Calm, OthersStay, Ids
    <3>2. QED
      BY <3>1 DEF Made
  <2>3. (Cardinality(Made(key)) <= expired[key] + (IF Stored(key) THEN 1 ELSE 0))'
    <3>1. Cardinality(Made(key)') <= Cardinality(Made(key)) /\ Cardinality(Made(key)') \in Nat
      BY <2>2, MadeFinite, FS_Subset, FS_CardinalityType
    <3>2. expired[key] \in Nat
      BY DEF Inv, Typed
    <3>3. QED
      BY <2>0, <3>1, <3>2, MadeFinite DEF KeyOK
  <2>4. ASSUME NEW u \in Threads,
               (Keyed(u, key) /\ expired[key] = 0 /\ resp[u].code = "ok" /\ req[u].cart = None)'
        PROVE  (/\ Stored(key) /\ idem[key].id = resp[u].id
                /\ idem[key].lines = req[u].lines)'
    <3>1. Keyed(u, key) /\ resp'[u] = resp[u] /\ req'[u] = req[u]
      <4>1. CASE u = t
        BY <2>4, <4>1 DEF Calm
      <4>2. CASE u # t
        BY <2>4, <4>2, KeyedStays DEF Calm, OthersStay
      <4>3. QED
        BY <4>1, <4>2
    <3>2. QED
      BY <2>0, <2>4, <3>1 DEF KeyOK
  <2>5. QED
    BY <2>0, <2>1, <2>3, <2>4 DEF KeyOK
<1>4. QED
  BY <1>2, <1>3 DEF Inv

\* A thread that serves no create of a key is calm whatever it does.
LEMMA UnkeyedCalm ==
    ASSUME Typed, NEW t \in Threads, Moves(t), UNCHANGED <<idem, pending, expired>>,
           \A id \in Ids : sessions'[id] = None <=> sessions[id] = None,
           req'[t] = req[t], pc[t] # "idle",
           req[t].op # "create" \/ req[t].key = None
    PROVE  Calm(t)
  BY NoneIsNothing DEF Calm, Moves, Keyed

LEMMA ArriveCalm ==
    ASSUME Typed, Typed', NEW t \in Threads, Arrive(t) PROVE Calm(t)
<1>1. pc[t] = "idle" /\ req[t] = None /\ sessions[t] = None /\ resp[t].code # "ok"
  BY DEF Arrive, At, Typed, ThreadOK
<1>2. \A u \in Threads \ {t} : pc'[u] = pc[u] /\ req'[u] = req[u] /\ local'[u] = local[u]
  BY DEF Arrive, Go, Read, Typed, FixtureTypeOK
<1>3. pc'[t] \notin Holding
  <2>1. PICK r \in Menu[t] :
            Go(t, IF r.op # "create" THEN r.op
                  ELSE IF r.cart # None THEN "cart" ELSE "keyed")
    BY DEF Arrive
  <2>2. r \in Request
    BY FixtureAssumption
  <2>3. QED
    BY <2>1, <2>2, RequestFields DEF Go, Typed, FixtureTypeOK, Holding
<1>4. UNCHANGED <<sessions, idem, pending, expired, resp>>
  BY DEF Arrive, store, keys
<1>5. QED
  BY <1>1, <1>2, <1>3, <1>4 DEF Calm, OthersStay, Keyed, Holding

LEMMA BeforeExecuteCalm ==
    ASSUME Typed, NEW t \in Threads,
           ReadCart(t) \/ FindPrior(t) \/ EnterKey(t) \/ Wake(t) \/ WaitTimesOut(t)
    PROVE  Calm(t)
<1>0. /\ pc[t] \in {"cart", "prior", "keyed", "wait"} /\ pc[t] # "idle"
      /\ UNCHANGED <<sessions, idem, pending, expired>>
  BY DEF ReadCart, FindPrior, EnterKey, Wake, WaitTimesOut, At, store, keys
<1>1. /\ req[t] \in Request /\ req[t].op = "create" /\ ThreadOK(t)
      /\ resp[t].code # "ok" /\ sessions[t] = None
  BY <1>0, CreatingFacts DEF Creating, ThreadOK
<1>2. CASE \E code, id : Answer(t, code, id) /\ (code = "ok" => req[t].cart # None)
  <2>1. PICK code, id : Answer(t, code, id) /\ (code = "ok" => req[t].cart # None)
    BY <1>2
  <2>2. /\ Moves(t) /\ pc'[t] = "done" /\ req'[t] = req[t]
        /\ resp'[t] = [code |-> code, id |-> id]
    BY <1>0, <2>1, AnswerMoves
  <2>3. resp'[t].code = code
    BY <2>2
  <2>4. QED
    BY <1>0, <1>1, <2>1, <2>2, <2>3 DEF Calm, Moves, Keyed, Holding
<1>3. CASE UNCHANGED <<req, resp>> /\ \E label \in {"prior", "keyed", "claim"} :
                Go(t, label) /\ (UNCHANGED local \/ \E v : Read(t, v))
  BY <1>0, <1>1, <1>3
     DEF Go, Read, Calm, OthersStay, Keyed, Holding, Typed, FixtureTypeOK
<1>4. CASE EnterKey(t) /\ req[t].key = None
  BY <1>0, <1>1, <1>4, NoneIsNothing
     DEF EnterKey, Go, Calm, OthersStay, Keyed, Holding, Typed, FixtureTypeOK
<1>5. QED
  <2>1. CASE FindPrior(t)
    <3>1. req[t].cart # None
      BY <1>1, <2>1, NoneIsNothing DEF FindPrior, At, ThreadOK
    <3>2. QED
      BY <1>2, <1>3, <2>1, <3>1 DEF FindPrior
  <2>2. CASE EnterKey(t)
    BY <1>2, <1>3, <1>4, <2>2 DEF EnterKey
  <2>3. CASE ReadCart(t)
    BY <1>2, <1>3, <2>3 DEF ReadCart
  <2>4. CASE Wake(t) \/ WaitTimesOut(t)
    BY <1>3, <2>4 DEF Wake, WaitTimesOut
  <2>5. QED
    BY <2>1, <2>2, <2>3, <2>4

LEMMA RefuseCalm ==
    ASSUME Typed, NEW t \in Threads, Refuse(t) PROVE Calm(t)
<1>1. pc[t] = "execute" /\ Finish(t, "invalid", None) /\ UNCHANGED <<store, keys>>
  BY DEF Refuse, At
<1>2. /\ Moves(t) /\ req'[t] = req[t] /\ resp'[t] = [code |-> "invalid", id |-> None]
      /\ pc'[t] = IF req[t].key = None THEN "done" ELSE "release"
  BY <1>1, FinishMoves
<1>3. resp'[t].code = "invalid"
  BY <1>2
<1>4. QED
  BY <1>1, <1>2, <1>3, NoneIsNothing DEF Calm, Moves, Keyed, Holding, store, keys

\* Answers other than "ok", of threads that create nothing.
LEMMA SessionCalm ==
    ASSUME Typed, NEW t \in Threads, SessionStep(t) PROVE Calm(t)
<1>1. /\ pc[t] \in Paying \cup {"update", "replace", "cancel", "x_write"}
      /\ UNCHANGED keys
  BY DEF SessionStep, StartCompletion, Escalate, DraftOrder, CommitOrder, StartUpdate,
         ReplaceLines, StartCancel, WriteCanceled, At, Paying
<1>2. req[t].op # "create" /\ pc[t] # "idle"
  BY <1>1, SessionFacts
<1>3. \A id \in Ids : sessions'[id] = None <=> sessions[id] = None
  BY SessionWriteTyped
     DEF SessionStep, StartCompletion, DraftOrder, StartUpdate, StartCancel, store
<1>4. req'[t] = req[t] /\ OthersStay(t)
  <2>1. CASE \E code, id : Answer(t, code, id)
    BY <1>2, <2>1, AnswerMoves DEF Moves
  <2>2. CASE /\ \E label : Go(t, label)
             /\ UNCHANGED <<req, resp>> /\ (UNCHANGED local \/ \E v : Read(t, v))
    BY <2>2 DEF Go, Read, OthersStay, Typed, FixtureTypeOK
  <2>3. QED
    BY <2>1, <2>2
       DEF SessionStep, StartCompletion, Escalate, DraftOrder, CommitOrder, StartUpdate,
           ReplaceLines, StartCancel, WriteCanceled
<1>5. QED
  BY <1>1, <1>2, <1>3, <1>4 DEF Calm, Keyed, keys

LEMMA OtherCalm ==
    ASSUME Typed, NEW t \in Threads, UpdateCart(t) \/ CancelCart(t) \/ SetOutage(t)
    PROVE  Calm(t)
<1>1. /\ pc[t] \in {"update_cart", "cancel_cart", "outage"} /\ pc[t] # "idle"
      /\ UNCHANGED <<sessions, idem, pending, expired>>
      /\ \E code, id : Answer(t, code, id)
  BY DEF UpdateCart, CancelCart, SetOutage, At, store, keys
<1>2. req[t].op # "create"
  BY <1>1 DEF Typed, ThreadOK
<1>3. req'[t] = req[t] /\ OthersStay(t)
  BY <1>1, AnswerMoves DEF Moves
<1>4. QED
  BY <1>1, <1>2, <1>3 DEF Calm, Keyed

-----------------------------------------------------------------------------
(* The steps that are not calm *)

\* Nothing is claimed, made or aged of a key.
LEMMA OtherKeysKeep ==
    ASSUME Inv, Typed, NEW t \in Threads, OthersStay(t), NEW key \in Keys,
           ~Keyed(t, key), ~Keyed(t, key)',
           \A u \in Threads \ {t} : sessions'[u] = None <=> sessions[u] = None,
           idem'[key] = idem[key] \/ (~Stored(key) /\ idem'[key] = None),
           pending'[key] = pending[key], expired'[key] = expired[key]
    PROVE  KeyOK(key)'
           /\ {u \in Threads : Keyed(u, key) /\ pc[u] \in Holding}'
                = ({pending[key]} \ {None})'
<1>0. KeyOK(key) /\ (Stored(key)' <=> Stored(key)) /\ expired[key] \in Nat
  BY DEF Inv, Stored, Typed
<1>1. ASSUME NEW u \in Threads
      PROVE  /\ Keyed(u, key)' <=> Keyed(u, key)
             /\ Keyed(u, key) => /\ pc'[u] = pc[u] /\ req'[u] = req[u]
                                 /\ resp'[u] = resp[u]
                                 /\ sessions'[u] = None <=> sessions[u] = None
  <2>1. CASE u = t
    BY <2>1
  <2>2. CASE u # t
    BY <2>2, KeyedStays DEF OthersStay
  <2>3. QED
    BY <2>1, <2>2
<1>2. Made(key)' = Made(key)
  BY <1>1 DEF Made
<1>3. {u \in Threads : Keyed(u, key) /\ pc[u] \in Holding}'
        = {u \in Threads : Keyed(u, key) /\ pc[u] \in Holding}
  BY <1>1
<1>4. {u \in Threads : Keyed(u, key) /\ pc[u] \in Holding} = {pending[key]} \ {None}
  BY DEF Inv, ClaimIsHeld, Holding
<1>5. KeyOK(key)'
  <2>1. Stored(key) => idem'[key] = idem[key]
    BY <1>0
  <2>2. (Cardinality(Made(key)) <= expired[key] + (IF Stored(key) THEN 1 ELSE 0))'
    BY <1>0, <1>2 DEF KeyOK
  <2>3. QED
    BY <1>0, <1>1, <2>1, <2>2 DEF KeyOK
<1>6. QED
  BY <1>3, <1>4, <1>5

LEMMA ReleaseKeeps ==
    ASSUME Inv, Typed', NEW t \in Threads, Release(t) PROVE Inv'
<1>0. /\ Typed /\ pc[t] = "release" /\ Go(t, "done")
      /\ UNCHANGED <<sessions, idem, expired, req, local, resp>>
      /\ pending' = [pending EXCEPT ![req[t].key] = None]
  BY DEF Release, At, store, Inv
<1>1. PICK key \in Keys : req[t] \in Request /\ req[t].op = "create" /\ key = req[t].key
  BY <1>0, CreatingFacts DEF Creating, ThreadOK
<1>2. /\ pc'[t] = "done" /\ \A u \in Threads \ {t} : pc'[u] = pc[u]
      /\ pending'[key] = None /\ \A k \in Keys \ {key} : pending'[k] = pending[k]
  BY <1>0, <1>1 DEF Go, Typed, FixtureTypeOK
<1>3. OthersStay(t)
  BY <1>0, <1>2 DEF OthersStay
<1>4. ASSUME NEW k \in Keys \ {key}
      PROVE  KeyOK(k)' /\ {u \in Threads : Keyed(u, k) /\ pc[u] \in Holding}'
                = ({pending[k]} \ {None})'
  BY <1>0, <1>1, <1>2, <1>3, <1>4, OtherKeysKeep DEF Keyed
<1>5. {u \in Threads : Keyed(u, key) /\ pc[u] \in Holding} \subseteq {t}
  <2>1. Keyed(t, key) /\ pc[t] \in Holding
    BY <1>0, <1>1, RequestFields DEF Keyed, Holding
  <2>2. {u \in Threads : Keyed(u, key) /\ pc[u] \in Holding} = {pending[key]} \ {None}
    BY <1>1 DEF Inv, ClaimIsHeld, Holding
  <2>3. QED
    BY <2>1, <2>2
<1>6. {u \in Threads : Keyed(u, key) /\ pc[u] \in Holding}' = ({pending[key]} \ {None})'
  <2>1. ASSUME NEW u \in Threads PROVE ~(Keyed(u, key) /\ pc[u] \in Holding)'
    BY <1>0, <1>2, <1>5 DEF Keyed, Holding
  <2>2. QED
    BY <1>2, <2>1
<1>7. KeyOK(key)'
  <2>1. /\ \A u \in Threads : (Keyed(u, key) <=> Keyed(u, key)') /\ (pc'[u] = "execute" => pc[u] = "execute")
        /\ Made(key)' = Made(key) /\ (Stored(key)' <=> Stored(key))
    BY <1>0, <1>2 DEF Keyed, Made, Stored
  <2>2. KeyOK(key)
    BY <1>1 DEF Inv
  <2>3. (Cardinality(Made(key)) <= expired[key] + (IF Stored(key) THEN 1 ELSE 0))'
    BY <1>0, <2>1, <2>2 DEF KeyOK
  <2>4. QED
    BY <1>0, <2>1, <2>2, <2>3 DEF KeyOK
<1>8. ASSUME NEW k \in Keys
      PROVE KeyOK(k)' /\ {u \in Threads : Keyed(u, k) /\ pc[u] \in Holding}'
                = ({pending[k]} \ {None})'
  BY <1>0, <1>4, <1>6, <1>7
<1>9. QED
  BY <1>8 DEF Inv, ClaimIsHeld, Holding

LEMMA ClaimKeeps ==
    ASSUME Inv, Typed', NEW t \in Threads, Claim(t) PROVE Inv'
<1>0. /\ Typed /\ pc[t] = "claim" /\ pc[t] # "idle" /\ UNCHANGED <<sessions, expired>>
      /\ Evict(req[t].key)
  BY DEF Claim, At, store, Inv
<1>1. PICK key \in Keys :
        /\ key = req[t].key /\ req[t] \in Request /\ req[t].op = "create"
        /\ ThreadOK(t) /\ resp[t].code # "ok" /\ sessions[t] = None
  BY <1>0, CreatingFacts DEF Creating, ThreadOK
<1>2. /\ idem'[key] = IF Stored(key) THEN idem[key] ELSE None
      /\ \A k \in Keys \ {key} : idem'[k] = idem[k]
  BY <1>0, <1>1 DEF Evict, Typed, FixtureTypeOK
<1>3. /\ OthersStay(t) /\ req'[t] = req[t] /\ pc'[t] \in {"done", "execute", "wait"}
      /\ \A k \in Keys \ {key} : pending'[k] = pending[k]
      /\ pc'[t] = "execute" => /\ ~Stored(key) /\ pending[key] = None
                               /\ pending'[key] = t
      /\ pc'[t] # "execute" => pending'[key] = pending[key]
      /\ \/ resp'[t] = resp[t]
         \/ /\ Stored(key) /\ Replay(t, idem[key])
            /\ resp'[t] = [code |-> IF FingerprintOf(idem[key]) = Fingerprint(t)
                                    THEN "ok" ELSE "conflict",
                           id |-> IF FingerprintOf(idem[key]) = Fingerprint(t)
                                  THEN idem[key].id ELSE None]
  <2>1. CASE Stored(key)
    <3>1. Replay(t, idem[key]) /\ UNCHANGED pending
      BY <1>1, <2>1 DEF Claim
    <3>2. QED
      BY <1>0, <2>1, <3>1, AnswerMoves DEF Replay, Moves
  <2>2. CASE ~Stored(key) /\ pending[key] = None
    <3>1. /\ pending' = [pending EXCEPT ![key] = t] /\ Go(t, "execute")
          /\ UNCHANGED <<req, local, resp>>
      BY <1>1, <2>2 DEF Claim
    <3>2. QED
      BY <2>2, <3>1 DEF Go, OthersStay, Typed, FixtureTypeOK, Inv
  <2>3. CASE ~Stored(key) /\ pending[key] # None
    <3>1. /\ Go(t, "wait") /\ \E v : Read(t, v) /\ UNCHANGED <<pending, req, resp>>
      BY <1>1, <2>3 DEF Claim
    <3>2. QED
      BY <2>3, <3>1 DEF Go, Read, OthersStay, Typed, FixtureTypeOK, Inv
  <2>4. QED
    BY <2>1, <2>2, <2>3
<1>4. ASSUME NEW k \in Keys \ {key}
      PROVE  KeyOK(k)' /\ {u \in Threads : Keyed(u, k) /\ pc[u] \in Holding}'
                = ({pending[k]} \ {None})'
  BY <1>0, <1>1, <1>2, <1>3, <1>4, OtherKeysKeep DEF Keyed
<1>5. /\ \A u \in Threads : Keyed(u, key)' <=> Keyed(u, key)
      /\ Keyed(t, key)
      /\ \A u \in Threads \ {t} : pc'[u] = pc[u] /\ req'[u] = req[u] /\ resp'[u] = resp[u]
      /\ Stored(key)' <=> Stored(key)
  BY <1>1, <1>2, <1>3, RequestFields DEF Keyed, OthersStay, Stored
<1>6. {u \in Threads : Keyed(u, key) /\ pc[u] \in Holding} = {pending[key]} \ {None}
  BY DEF Inv, ClaimIsHeld, Holding
<1>7. {u \in Threads : Keyed(u, key) /\ pc[u] \in Holding}' = ({pending[key]} \ {None})'
  <2>1. CASE pc'[t] = "execute"
    BY <1>3, <1>5, <1>6, <2>1, NoneIsNothing DEF Holding
  <2>2. CASE pc'[t] # "execute"
    <3>1. pc'[t] \notin Holding /\ pc[t] \notin Holding
      BY <1>0, <1>3, <2>2 DEF Holding
    <3>2. ASSUME NEW u \in Threads
          PROVE (Keyed(u, key) /\ pc[u] \in Holding)' <=> (Keyed(u, key) /\ pc[u] \in Holding)
      BY <1>5, <3>1
    <3>3. QED
      BY <1>3, <1>6, <2>2, <3>2
  <2>3. QED
    BY <2>1, <2>2
<1>8. KeyOK(key)'
  <2>0. KeyOK(key)
    BY DEF Inv
  <2>1. ASSUME NEW u \in Threads, (Keyed(u, key) /\ pc[u] = "execute")'
        PROVE  ~Stored(key)'
    BY <1>3, <1>5, <2>0, <2>1 DEF KeyOK
  <2>2. Made(key)' = Made(key)
    BY <1>0, <1>5 DEF Made
  <2>3. (Cardinality(Made(key)) <= expired[key] + (IF Stored(key) THEN 1 ELSE 0))'
    BY <1>0, <1>5, <2>0, <2>2 DEF KeyOK
  <2>4. (idem[key] # None /\ idem[key].old => expired[key] > 0)'
    BY <1>0, <1>2, <2>0 DEF KeyOK
  <2>5. ASSUME NEW u \in Threads,
               (Keyed(u, key) /\ expired[key] = 0 /\ resp[u].code = "ok" /\ req[u].cart = None)'
        PROVE  (/\ Stored(key) /\ idem[key].id = resp[u].id
                /\ idem[key].lines = req[u].lines)'
    <3>1. CASE resp'[u] = resp[u]
      <4>1. u # t
        BY <1>1, <2>5, <3>1
      <4>2. QED
        BY <1>0, <1>2, <1>5, <2>0, <2>5, <3>1, <4>1 DEF KeyOK
    <3>2. CASE resp'[u] # resp[u]
      <4>1. u = t /\ Stored(key)
            /\ resp'[t] = [code |-> IF FingerprintOf(idem[key]) = Fingerprint(t)
                                    THEN "ok" ELSE "conflict",
                           id |-> IF FingerprintOf(idem[key]) = Fingerprint(t)
                                  THEN idem[key].id ELSE None]
        BY <1>3, <1>5, <3>2
      <4>2. FingerprintOf(idem[key]) = Fingerprint(t) /\ resp'[t].id = idem[key].id
        BY <2>5, <4>1
      <4>3. idem[key].lines = local[t]
        BY <4>2 DEF FingerprintOf, Fingerprint
      <4>4. local[t] = req[t].lines
        BY <1>0, <1>1, <1>3, <2>5, <4>1 DEF ThreadOK, Asked, Creating
      <4>5. QED
        BY <1>2, <1>3, <1>5, <4>1, <4>2, <4>3, <4>4
    <3>3. QED
      BY <3>1, <3>2
  <2>6. QED
    BY <2>1, <2>3, <2>4, <2>5 DEF KeyOK
<1>9. ASSUME NEW k \in Keys
      PROVE KeyOK(k)' /\ {u \in Threads : Keyed(u, k) /\ pc[u] \in Holding}'
                = ({pending[k]} \ {None})'
  BY <1>4, <1>7, <1>8
<1>10. QED
  BY <1>9 DEF Inv, ClaimIsHeld, Holding

LEMMA AgeKeeps ==
    ASSUME Inv, Typed', NEW t \in Threads, Age(t), idem[req[t].key] # None
    PROVE  Inv'
<1>0. /\ Typed /\ pc[t] = "age" /\ pc[t] # "idle" /\ UNCHANGED <<sessions, pending>>
      /\ \E code, id : Answer(t, code, id)
      /\ idem' = [idem EXCEPT ![req[t].key].old = TRUE]
      /\ expired' = [expired EXCEPT ![req[t].key] = @ + 1]
  BY DEF Age, At, store, Inv
<1>1. req[t].op = "age" /\ req'[t] = req[t] /\ OthersStay(t) /\ pc'[t] = "done"
  BY <1>0, AnswerMoves DEF Typed, ThreadOK, Moves
<1>2. PICK key \in Keys : key = req[t].key /\ idem[key] \in Record
  BY <1>0, <1>1, RequestFields DEF Typed, ThreadOK, FixtureTypeOK
<1>3. /\ idem'[key] = [idem[key] EXCEPT !.old = TRUE] /\ expired'[key] = expired[key] + 1
      /\ \A k \in Keys \ {key} : idem'[k] = idem[k] /\ expired'[k] = expired[k]
  BY <1>0, <1>2 DEF Typed, FixtureTypeOK
<1>4. idem'[key].old = TRUE /\ expired[key] \in Nat
  <2>1. idem'[key].old = TRUE
    BY <1>2, <1>3 DEF Record
  <2>2. QED
    BY <1>0, <2>1 DEF Typed
<1>5. ASSUME NEW k \in Keys PROVE ~Keyed(t, k) /\ ~Keyed(t, k)'
  BY <1>1 DEF Keyed
<1>6. ASSUME NEW k \in Keys \ {key}
      PROVE  KeyOK(k)' /\ {u \in Threads : Keyed(u, k) /\ pc[u] \in Holding}'
                = ({pending[k]} \ {None})'
  BY <1>0, <1>1, <1>3, <1>5, <1>6, OtherKeysKeep
<1>7. ASSUME NEW u \in Threads
      PROVE  (Keyed(u, key)' <=> Keyed(u, key)) /\ (Keyed(u, key) => pc'[u] = pc[u])
  BY <1>1, <1>5 DEF Keyed, OthersStay
<1>8. {u \in Threads : Keyed(u, key) /\ pc[u] \in Holding}' = ({pending[key]} \ {None})'
  <2>1. {u \in Threads : Keyed(u, key) /\ pc[u] \in Holding} = {pending[key]} \ {None}
    BY DEF Inv, ClaimIsHeld, Holding
  <2>2. QED
    BY <1>0, <1>7, <2>1
<1>9. KeyOK(key)'
  <2>1. ~Stored(key)'
    BY <1>4 DEF Stored
  <2>2. Made(key)' = Made(key) /\ Cardinality(Made(key)) \in Nat
    BY <1>0, <1>7, MadeFinite DEF Made
  <2>3. Cardinality(Made(key)) <= expired[key] + 1
    BY <1>4, <2>2 DEF Inv, KeyOK
  <2>4. (Cardinality(Made(key)) <= expired[key] + (IF Stored(key) THEN 1 ELSE 0))'
    BY <1>3, <1>4, <2>1, <2>2, <2>3
  <2>5. expired'[key] > 0
    BY <1>3, <1>4
  <2>6. QED
    BY <2>1, <2>4, <2>5 DEF KeyOK
<1>10. ASSUME NEW k \in Keys
       PROVE KeyOK(k)' /\ {u \in Threads : Keyed(u, k) /\ pc[u] \in Holding}'
                = ({pending[k]} \ {None})'
  BY <1>6, <1>8, <1>9
<1>11. QED
  BY <1>10 DEF Inv, ClaimIsHeld, Holding

LEMMA CreateKeeps ==
    ASSUME Inv, Typed', NEW t \in Threads, Create(t) PROVE Inv'
<1>0. /\ Typed /\ pc[t] = "execute" /\ UNCHANGED <<pending, expired>>
      /\ sessions' = [sessions EXCEPT ![t] = NewSession(t)] /\ NewSession(t) # None
      /\ StoreKey(t) /\ Result(t) \in Record
  BY CreateFacts DEF Inv
<1>1. /\ req[t] \in Request /\ req[t].op = "create" /\ ThreadOK(t)
      /\ req[t].key \in Keys \cup {None} /\ sessions[t] = None
  BY <1>0, CreateFacts
<1>2. /\ OthersStay(t) /\ req'[t] = req[t] /\ resp'[t] = [code |-> "ok", id |-> t]
      /\ pc'[t] = IF req[t].key = None THEN "done" ELSE "release"
  BY <1>0, CreateFacts DEF Moves
<1>3. \A u \in Threads \ {t} : sessions'[u] = sessions[u]
  BY <1>0 DEF Typed, FixtureTypeOK, Ids
<1>4. ASSUME NEW k \in Keys, k # req[t].key
      PROVE  KeyOK(k)' /\ {u \in Threads : Keyed(u, k) /\ pc[u] \in Holding}'
                = ({pending[k]} \ {None})'
  <2>1. idem'[k] = idem[k]
    BY <1>0, <1>1, <1>4 DEF StoreKey, Typed, FixtureTypeOK
  <2>2. ~Keyed(t, k) /\ ~Keyed(t, k)'
    BY <1>2, <1>4 DEF Keyed
  <2>3. QED
    BY <1>0, <1>2, <1>3, <2>1, <2>2, OtherKeysKeep
<1>5. ASSUME NEW key \in Keys, key = req[t].key
      PROVE  KeyOK(key)' /\ {u \in Threads : Keyed(u, key) /\ pc[u] \in Holding}'
                = ({pending[key]} \ {None})'
  <2>1. Keyed(t, key) /\ Keyed(t, key)' /\ pc'[t] = "release" /\ sessions'[t] # None
    <3>1. sessions'[t] # None
      BY <1>0 DEF Typed, FixtureTypeOK, Ids
    <3>2. QED
      BY <1>1, <1>2, <1>5, <3>1, RequestFields, NoneIsNothing DEF Keyed
  <2>2. {u \in Threads : Keyed(u, key) /\ pc[u] \in Holding} = {pending[key]} \ {None}
    BY DEF Inv, ClaimIsHeld, Holding
  <2>3. \A u \in Threads \ {t} : /\ Keyed(u, key)' <=> Keyed(u, key)
                                 /\ pc'[u] = pc[u] /\ req'[u] = req[u] /\ resp'[u] = resp[u]
    BY <1>2, KeyedStays DEF OthersStay
  <2>4. {u \in Threads : Keyed(u, key) /\ pc[u] \in Holding}' = ({pending[key]} \ {None})'
    <3>1. ASSUME NEW u \in Threads
          PROVE (Keyed(u, key) /\ pc[u] \in Holding)' <=> (Keyed(u, key) /\ pc[u] \in Holding)
      BY <1>0, <2>1, <2>3 DEF Holding
    <3>2. QED
      BY <1>0, <2>2, <3>1
  <2>5. ~Stored(key) /\ KeyOK(key)
    BY <1>0, <2>1 DEF Inv, KeyOK
  <2>6. /\ idem'[key] = Result(t) /\ Stored(key)'
        /\ idem'[key].id = t /\ idem'[key].lines = local[t] /\ ~idem'[key].old
    <3>1. idem'[key] = Result(t)
      BY <1>0, <1>5, NoneIsNothing DEF StoreKey, Typed, FixtureTypeOK
    <3>2. idem'[key] # None
      BY <1>0, <3>1, NoneIsNothing
    <3>3. /\ idem'[key].id = t /\ idem'[key].lines = local[t]
          /\ idem'[key].old = FALSE
      BY <3>1 DEF Result
    <3>4. QED
      BY <3>1, <3>2, <3>3 DEF Stored
  <2>7. ASSUME NEW u \in Threads, (Keyed(u, key) /\ pc[u] = "execute")'
        PROVE  ~Stored(key)'
    <3>1. u # t /\ Keyed(u, key) /\ pc[u] = "execute"
      BY <2>1, <2>3, <2>7
    <3>2. u \in {pending[key]} /\ t \in {pending[key]}
      BY <1>0, <2>1, <2>2, <3>1 DEF Holding
    <3>3. QED
      BY <3>1, <3>2
  <2>8. (Cardinality(Made(key)) <= expired[key] + (IF Stored(key) THEN 1 ELSE 0))'
    <3>1. Made(key)' = Made(key) \cup {t} /\ t \notin Made(key)
      BY <1>1, <1>3, <2>1, <2>3 DEF Made
    <3>2. Cardinality(Made(key)') = Cardinality(Made(key)) + 1
      BY <3>1, MadeFinite, FS_AddElement
    <3>3. expired[key] \in Nat
      BY <1>0 DEF Typed
    <3>4. QED
      BY <1>0, <2>5, <2>6, <3>2, <3>3, MadeFinite DEF KeyOK
  <2>9. ASSUME NEW u \in Threads,
               (Keyed(u, key) /\ expired[key] = 0 /\ resp[u].code = "ok" /\ req[u].cart = None)'
        PROVE  (/\ Stored(key) /\ idem[key].id = resp[u].id
                /\ idem[key].lines = req[u].lines)'
    <3>1. u = t
      BY <1>0, <2>3, <2>5, <2>9 DEF KeyOK
    <3>2. local[t] = req[t].lines
      BY <1>0, <1>1, <1>2, <2>9, <3>1 DEF ThreadOK, Asked, Creating
    <3>3. resp'[t].id = t
      BY <1>2
    <3>4. QED
      BY <1>2, <2>6, <3>1, <3>2, <3>3
  <2>10. KeyOK(key)'
    BY <2>6, <2>7, <2>8, <2>9 DEF KeyOK
  <2>11. QED
    BY <2>4, <2>10
<1>6. ASSUME NEW k \in Keys
      PROVE KeyOK(k)' /\ {u \in Threads : Keyed(u, k) /\ pc[u] \in Holding}'
                = ({pending[k]} \ {None})'
  BY <1>4, <1>5
<1>7. QED
  BY <1>6 DEF Inv, ClaimIsHeld, Holding

-----------------------------------------------------------------------------
(* The theorems *)

LEMMA InitInv == Init => Inv
<1> SUFFICES ASSUME Init PROVE Inv
  OBVIOUS
<1>1. Typed
  BY InitTyped
<1>2. \A t \in Threads, key \in Keys : ~Keyed(t, key)
  BY DEF Init, Keyed
<1>3. ClaimIsHeld
  BY <1>2 DEF Init, ClaimIsHeld
<1>4. ASSUME NEW key \in Keys PROVE KeyOK(key)
  <2>1. Made(key) = {}
    BY <1>2 DEF Made
  <2>2. Cardinality(Made(key)) = 0
    BY <2>1, FS_EmptySet
  <2>3. expired[key] = 0 /\ idem[key] = None /\ ~Stored(key)
    BY DEF Init, Stored
  <2>4. QED
    BY <1>2, <2>2, <2>3 DEF KeyOK
<1>5. QED
  BY <1>1, <1>3, <1>4 DEF Inv

LEMMA NextInv ==
    ASSUME Inv, [Next]_vars PROVE Inv'
<1>1. Typed /\ Typed'
  BY NextTyped DEF Inv
<1>2. CASE UNCHANGED vars
  BY <1>1, <1>2
     DEF vars, store, keys, Inv, ClaimIsHeld, KeyOK, Keyed, Stored, Made
<1>3. ASSUME NEW t \in Threads, Arrive(t) \/ WaitTimesOut(t) \/ Step(t)
      PROVE  Inv'
  <2>1. CASE Claim(t)
    BY <1>1, <2>1, ClaimKeeps
  <2>2. CASE Create(t)
    BY <1>1, <2>2, CreateKeeps
  <2>3. CASE Release(t)
    BY <1>1, <2>3, ReleaseKeeps
  <2>4. CASE Age(t) /\ idem[req[t].key] # None
    BY <1>1, <2>4, AgeKeeps
  <2>5. CASE Age(t) /\ idem[req[t].key] = None
    <3>1. /\ pc[t] = "age" /\ Answer(t, "invalid", None)
          /\ UNCHANGED <<sessions, idem, pending, expired>>
      BY <2>5 DEF Age, At, store
    <3>2. req[t].op = "age" /\ Moves(t) /\ req'[t] = req[t]
      BY <1>1, <3>1, AnswerMoves DEF Typed, ThreadOK
    <3>3. QED
      BY <1>1, <3>1, <3>2, UnkeyedCalm, CalmKeeps
  <2>6. CASE Arrive(t)
    BY <1>1, <2>6, ArriveCalm, CalmKeeps
  <2>7. CASE ReadCart(t) \/ FindPrior(t) \/ EnterKey(t) \/ Wake(t) \/ WaitTimesOut(t)
    BY <1>1, <2>7, BeforeExecuteCalm, CalmKeeps
  <2>8. CASE Refuse(t)
    BY <1>1, <2>8, RefuseCalm, CalmKeeps
  <2>9. CASE SessionStep(t)
    BY <1>1, <2>9, SessionCalm, CalmKeeps
  <2>10. CASE UpdateCart(t) \/ CancelCart(t) \/ SetOutage(t)
    BY <1>1, <2>10, OtherCalm, CalmKeeps
  <2>11. QED
    BY <1>3, <2>1, <2>2, <2>3, <2>4, <2>5, <2>6, <2>7, <2>8, <2>9, <2>10
       DEF Step, CreateStep, OtherStep
<1>4. QED
  BY <1>2, <1>3 DEF Next, AllAnswered

LEMMA SpecInv == Spec => []Inv
  BY InitInv, NextInv, PTL DEF Spec

\* The server's tables keep their types, and the claim of a key is held by the
\* thread that executes its create and by no other, so that no claim outlives
\* its owner: do_POST takes and gives up claims whatever its threads interleave.
THEOREM FixtureStaysConsistent == Spec => []FixtureConsistent
<1>1. Inv => FixtureConsistent
  BY DEF Inv, Typed, FixtureConsistent
<1>2. QED
  BY <1>1, SpecInv, PTL

\* SIG-025: a key makes no more checkouts than one for the present and one for
\* every time its retention passed, for any number of requests.
THEOREM OneResult == Spec => []OneResultPerKey
<1>1. ASSUME Inv PROVE OneResultPerKey
  <2>1. ASSUME NEW key \in Keys
        PROVE  Cardinality({t \in Threads : Keyed(t, key) /\ sessions[t] # None})
                    <= 1 + expired[key]
    <3>1. KeyOK(key) /\ expired[key] \in Nat
      BY <1>1 DEF Inv, Typed
    <3>2. Cardinality(Made(key)) <= 1 + expired[key]
      BY <3>1, MadeFinite DEF KeyOK
    <3>3. QED
      BY <3>2 DEF Made
  <2>2. QED
    BY <2>1 DEF OneResultPerKey
<1>2. QED
  BY <1>1, SpecInv, PTL

\* While its retention lasts, a key answers "ok" to one body only, and always
\* for one checkout: both are those of the record it is stored with.
THEOREM Replays == Spec => []ReplaysAgree
<1>1. ASSUME Inv PROVE ReplaysAgree
  <2>1. ASSUME NEW key \in Keys, NEW t \in Threads, NEW u \in Threads,
               Keyed(t, key) /\ Keyed(u, key) /\ expired[key] = 0,
               resp[t].code = "ok" /\ resp[u].code = "ok",
               req[t].cart = None /\ req[u].cart = None
        PROVE  resp[t].id = resp[u].id /\ req[t].lines = req[u].lines
    <3>1. KeyOK(key)
      BY <1>1 DEF Inv
    <3>2. QED
      BY <2>1, <3>1 DEF KeyOK
  <2>2. QED
    BY <2>1 DEF ReplaysAgree
<1>2. QED
  BY <1>1, SpecInv, PTL
=============================================================================
