---------------------------- MODULE SalesProofs ------------------------------
(***************************************************************************)
(* Proofs about FixtureSales: the carts, checkouts and orders of one       *)
(* server.  First what every step leaves alone, then one section for each  *)
(* invariant, with what has to be known on the way to it.                  *)
(***************************************************************************)
EXTENDS FixtureSales, FiniteSetTheorems, TLAPS

-----------------------------------------------------------------------------
(* Types *)

Creating == {"create", "store"}
Converting == {"convert", "prior", "codes", "claims", "execute"}
Adjusting == {"adjust", "reduce", "log", "append"}
Fulfilling == {"fulfill", "log_event", "count"}
Announcing == {"serialize", "attempt", "answer"}
Places ==
    {"idle", "done", "update", "get_cart", "cancel", "get_order", "complete", "place",
     "escalate", "reopen", "abandon", "close", "write_codes", "write_claims"}
    \cup Creating \cup Converting \cup Adjusting \cup Fulfilling \cup Announcing

Request == CartRequest \cup OrderRequest \cup CheckoutRequest

\* The parts of a cart that a conversion has read, by the place it has come to.
Parts == [prior   |-> [lines : Nat], codes |-> [lines : Nat],
          claims  |-> [lines : Nat, codes : Nat],
          execute |-> [lines : Nat, codes : Nat, claims : Nat]]

ThreadOK(t) ==
    /\ pc[t] # "idle" => req[t] \in Request
    /\ pc[t] # "done" => resp[t] = NoAnswer
    /\ pc[t] \in Creating => req[t].op = "create"
    /\ pc[t] \in Converting => req[t].op = "convert"
    /\ pc[t] \in Adjusting => req[t].op = "adjust"
    /\ pc[t] \in Fulfilling => req[t].op = "fulfill"
    /\ pc[t] \in Announcing => req[t].op \in {"adjust", "fulfill", "complete"}
    /\ pc[t] \in {"write_codes", "write_claims"} => req[t].op \in {"create", "update"}
    /\ pc[t] \in {"complete", "place"} => req[t].op = "complete"
    /\ pc[t] \in {"escalate", "reopen"} => req[t].op = "escalate"
    /\ pc[t] \in {"abandon", "close"} => req[t].op = "abandon"
    /\ pc[t] \in {"update", "get_cart", "cancel", "get_order"} => req[t].op = pc[t]
    /\ pc[t] \in DOMAIN Parts => local[t] \in Parts[pc[t]]
    /\ pc[t] \in {"reduce", "log", "append", "log_event", "count"} => orders[Target(t)] # None
    /\ pc[t] \in Announcing => orders[Own(t)] # None
    /\ pc[t] \in {"place", "reopen", "close"} => checkouts[req[t].checkout] # None
    /\ pc[t] \in {"reduce", "log"} => version = "04-08"
    /\ pc[t] \in {"append", "log_event", "count"} => version # "04-08"

ThreadTypes ==
    /\ pc \in [Threads -> Places] /\ req \in [Threads -> Request \cup {None}]
    /\ resp \in [Threads -> [code : Outcomes \cup {None},
                             id : Carts \cup Checkouts \cup Orders \cup {None}]]
    /\ heard \in [Threads -> SUBSET Threads] /\ DOMAIN local = Threads
    /\ local = [t \in Threads |-> local[t]]

CartTypes ==
    /\ live \subseteq Carts /\ versions \in [Carts -> Seq(Bodies)]
    /\ {lines, codes, claims} \subseteq [Carts -> Nat]
    /\ idem \in [Keys -> KeyRecord \cup {None}]
    /\ cartLock \in Threads \cup {None} /\ link \in [Carts -> Checkouts \cup {None}]
    /\ checkouts \in [Checkouts -> Session \cup {None}]

OrderTypes ==
    /\ version \in Versions /\ orders \in [Orders -> Order \cup {None}]
    /\ lock \in Threads \cup {None}

Typed == ThreadTypes /\ CartTypes /\ OrderTypes /\ \A t \in Threads : ThreadOK(t)

\* What nobody but t does, and t only between its arrival and its answer.
Moves(t) ==
    /\ UNCHANGED <<req, heard>> /\ pc[t] \notin {"idle", "done"} /\ pc'[t] # "idle"
    /\ \A u \in Threads \ {t} : pc'[u] = pc[u] /\ resp'[u] = resp[u] /\ local'[u] = local[u]

\* A row that is there stays there.
RowsStay ==
    /\ \A o \in Orders : orders[o] # None => orders'[o] # None
    /\ \A k \in Checkouts : checkouts[k] # None => checkouts'[k] # None
    /\ version' = version

LEMMA RequestFields ==
    ASSUME NEW r \in Request
    PROVE  /\ r.op \in {"create", "update", "get_cart", "cancel", "convert", "get_order",
                        "adjust", "fulfill", "complete", "escalate", "abandon"}
           /\ r.op = "create" => r.body \in Bodies /\ r.key \in Keys \cup {None}
           /\ r.op = "update" => r.cart \in Carts /\ r.body \in Bodies
           /\ r.op \in {"get_cart", "cancel", "convert"} => r.cart \in Carts
           /\ r.op \in {"get_order", "adjust", "fulfill"} => r.order \in Orders
           /\ r.op \in {"adjust", "fulfill"} => r.qty \in 1..Quantity
           /\ r.op \in {"complete", "escalate", "abandon"} => r.checkout \in Checkouts
<1>1. CASE r \in CartRequest
  BY <1>1 DEF CartRequest
<1>2. CASE r \in OrderRequest
  BY <1>2 DEF OrderRequest
<1>3. CASE r \in CheckoutRequest
  BY <1>3 DEF CheckoutRequest
<1> QED BY <1>1, <1>2, <1>3 DEF Request

LEMMA ThreadsKeep ==
    ASSUME Typed, NEW t \in Threads, Moves(t), RowsStay, ThreadOK(t)'
    PROVE  \A u \in Threads : ThreadOK(u)'
<1> SUFFICES ASSUME NEW u \in Threads, u # t PROVE ThreadOK(u)'
  OBVIOUS
<1>1. /\ pc'[u] = pc[u] /\ resp'[u] = resp[u] /\ local'[u] = local[u]
      /\ req'[u] = req[u] /\ ThreadOK(u)
  BY DEF Moves, Typed
<1>2. pc[u] # "idle" => req[u] \in Request
  BY <1>1 DEF ThreadOK
<1>3. /\ pc[u] \in Announcing \cup {"reduce", "log", "append", "log_event", "count"}
           => req[u].op \in {"adjust", "fulfill", "complete"}
      /\ pc[u] \in {"reduce", "log", "append", "log_event", "count"}
           => req[u].op \in {"adjust", "fulfill"}
      /\ pc[u] \in {"place", "reopen", "close"} =>
             req[u].op \in {"complete", "escalate", "abandon"}
  BY <1>1 DEF ThreadOK, Adjusting, Fulfilling
<1>4. /\ pc[u] \in Announcing => Own(u) \in Orders
      /\ pc[u] \in {"reduce", "log", "append", "log_event", "count"} => Target(u) \in Orders
      /\ pc[u] \in {"place", "reopen", "close"} => req[u].checkout \in Checkouts
  BY <1>2, <1>3, RequestFields DEF Announcing, Own, Target, Orders
<1>5. Own(u)' = Own(u) /\ Target(u)' = Target(u)
  BY <1>1 DEF Own, Target
<1> QED BY <1>1, <1>4, <1>5 DEF ThreadOK, RowsStay

\* What an action does with its thread.
LEMMA GoMoves ==
    ASSUME ThreadTypes, NEW t \in Threads, NEW l \in Places \ {"idle"}, Go(t, l),
           pc[t] \notin {"idle", "done"},
           UNCHANGED local \/ \E v : Read(t, v)
    PROVE  /\ Moves(t) /\ ThreadTypes'
           /\ pc'[t] = l /\ resp' = resp
  BY DEF ThreadTypes, Go, Read, Moves

Ids == Carts \cup Checkouts \cup Orders \cup {None}

LEMMA AnswerMoves ==
    ASSUME ThreadTypes, NEW t \in Threads, NEW code \in Outcomes, NEW id \in Ids,
           Answer(t, code, id), pc[t] \notin {"idle", "done"}, UNCHANGED local
    PROVE  /\ Moves(t) /\ ThreadTypes'
           /\ pc'[t] = "done" /\ resp'[t] = [code |-> code, id |-> id]
<1>1. Moves(t) /\ pc'[t] = "done" /\ resp'[t] = [code |-> code, id |-> id]
  BY DEF ThreadTypes, Answer, Moves
<1>2. [code |-> code, id |-> id]
        \in [code : Outcomes \cup {None}, id : Carts \cup Checkouts \cup Orders \cup {None}]
  BY DEF Ids
<1>3. "done" \in Places
  BY DEF Places
<1> HIDE DEF Ids
<1>4. ThreadTypes'
  BY <1>2, <1>3 DEF ThreadTypes, Answer
<1> QED BY <1>1, <1>4

\* The request of a thread that has answered is still a request, and nothing
\* else is asked of it.
LEMMA DoneOK ==
    ASSUME Typed, NEW t \in Threads, Moves(t), pc'[t] = "done"
    PROVE  ThreadOK(t)'
<1>1. req'[t] \in Request
  BY DEF Typed, ThreadOK, Moves
<1> QED BY <1>1 DEF ThreadOK, Creating, Converting, Adjusting, Fulfilling, Announcing, Parts

-----------------------------------------------------------------------------
(* Cart steps *)

CartKeeps(t) == Moves(t) /\ CartTypes' /\ ThreadTypes' /\ ThreadOK(t)' /\ RowsStay

LEMMA AnswerKeepsCarts ==
    ASSUME Typed, NEW t \in Threads, NEW code \in Outcomes, NEW id \in Ids,
           Answer(t, code, id), pc[t] \notin {"idle", "done"}, UNCHANGED local,
           CartTypes', RowsStay
    PROVE  CartKeeps(t)
<1>1. Moves(t) /\ ThreadTypes' /\ pc'[t] = "done"
  BY AnswerMoves DEF Typed
<1> QED BY <1>1, DoneOK DEF CartKeeps

\* A step that leaves the tables alone.
LEMMA SameTables ==
    ASSUME CartTypes, UNCHANGED <<cartState, tables>>
    PROVE  CartTypes' /\ RowsStay
  BY DEF CartTypes, RowsStay, cartState, carts, sessions, tables

LEMMA LookUpKeeps ==
    ASSUME Typed, NEW t \in Threads, LookUp(t), UNCHANGED tables PROVE CartKeeps(t)
<1>1. CartTypes' /\ RowsStay /\ UNCHANGED local /\ pc[t] = "create"
  BY SameTables DEF LookUp, Typed, cartState, At
<1>2. req[t] \in Request /\ req[t].op = "create" /\ resp[t] = NoAnswer
  BY <1>1 DEF Typed, ThreadOK, Creating
<1>3. CASE Record(t) = None /\ Go(t, "store")
  <2>1. Moves(t) /\ ThreadTypes' /\ pc'[t] = "store" /\ resp' = resp
    BY <1>1, <1>3, GoMoves DEF Typed, Places, Creating
  <2>2. ThreadOK(t)'
    BY <2>1, <1>2 DEF ThreadOK, Moves, Creating, Converting, Adjusting, Fulfilling, Announcing, Parts
  <2> QED BY <1>1, <2>1, <2>2 DEF CartKeeps
<1>4. CASE Record(t) # None /\ Answer(t, "replayed", Record(t).id)
  <2>1. req[t].key \in Keys
    BY <1>2, <1>4, RequestFields DEF Record
  <2>2. Record(t) \in KeyRecord
    BY <2>1, <1>4 DEF Record, Typed, CartTypes
  <2>3. Record(t).id \in Ids
    BY <2>2 DEF KeyRecord, Ids, Carts
  <2> QED BY <2>3, <1>1, <1>4, AnswerKeepsCarts DEF Outcomes
<1>5. CASE Answer(t, "conflict", None)
  BY <1>1, <1>5, AnswerKeepsCarts DEF Outcomes, Ids
<1> QED BY <1>3, <1>4, <1>5 DEF LookUp

\* A cart that is written, its requests, and the new version of it.
LEMMA WritingOK ==
    ASSUME Typed, NEW t \in Threads,
           pc[t] \in {"store", "update", "write_codes", "write_claims"}
    PROVE  /\ req[t] \in Request /\ resp[t] = NoAnswer /\ req[t].op \in {"create", "update"}
           /\ req[t].body \in Bodies /\ Cart(t) \in Carts
           /\ pc[t] = "store" => req[t].op = "create"
           /\ pc[t] = "update" => req[t].op = "update"
           /\ req[t].op = "create" => req[t].key \in Keys \cup {None} /\ Cart(t) = t
<1>1. /\ req[t] \in Request /\ resp[t] = NoAnswer /\ req[t].op \in {"create", "update"}
      /\ pc[t] = "store" => req[t].op = "create"
      /\ pc[t] = "update" => req[t].op = "update"
  BY DEF Typed, ThreadOK, Creating
<1> QED BY <1>1, RequestFields DEF Cart, Carts

LEMMA ReplaceTypes ==
    ASSUME CartTypes, NEW t \in Threads, Cart(t) \in Carts, req[t].body \in Bodies, Replace(t)
    PROVE  /\ versions' \in [Carts -> Seq(Bodies)] /\ lines' \in [Carts -> Nat]
           /\ \A d \in Carts : Len(versions'[d])
                = Len(versions[d]) + (IF d = Cart(t) THEN 1 ELSE 0)
           /\ \A d \in Carts : lines'[d] = IF d = Cart(t) THEN Len(versions[d]) + 1 ELSE lines[d]
<1> DEFINE c == Cart(t)
           body == req[t].body
<1>1. versions[c] \in Seq(Bodies) /\ \A d \in Carts : Len(versions[d]) \in Nat
  BY DEF CartTypes
<1>2. /\ Append(versions[c], body) \in Seq(Bodies)
      /\ Len(Append(versions[c], body)) = Len(versions[c]) + 1
  BY <1>1
<1>3. /\ versions' = [versions EXCEPT ![c] = Append(versions[c], body)]
      /\ lines' = [lines EXCEPT ![c] = Len(versions[c]) + 1]
  BY DEF Replace
<1> HIDE DEF c, body
<1>4. versions'[c] = Append(versions[c], body) /\ versions' \in [Carts -> Seq(Bodies)]
  BY <1>2, <1>3 DEF CartTypes, c
<1>5. /\ lines' \in [Carts -> Nat]
      /\ \A d \in Carts : lines'[d] = IF d = c THEN Len(versions[d]) + 1 ELSE lines[d]
  BY <1>1, <1>3 DEF CartTypes, c
<1>6. \A d \in Carts : Len(versions'[d]) = Len(versions[d]) + (IF d = c THEN 1 ELSE 0)
  BY <1>1, <1>2, <1>3, <1>4 DEF CartTypes
<1> QED BY <1>4, <1>5, <1>6 DEF c

\* A step of a cart's writer that goes on.
LEMMA WriterGoes ==
    ASSUME Typed, NEW t \in Threads, NEW l \in {"write_codes", "write_claims"}, Go(t, l),
           pc[t] \in {"store", "update", "write_codes"}, UNCHANGED <<tables, sessions, local>>,
           CartTypes'
    PROVE  CartKeeps(t)
<1>1. Moves(t) /\ ThreadTypes' /\ pc'[t] = l /\ resp' = resp
  BY GoMoves DEF Typed, Places
<1>2. req'[t] = req[t] /\ RowsStay
  BY <1>1 DEF Moves, RowsStay, sessions, tables
<1>3. ThreadOK(t)'
  BY <1>1, <1>2, WritingOK DEF ThreadOK, Creating, Converting, Adjusting, Fulfilling,
     Announcing, Parts
<1> QED BY <1>1, <1>2, <1>3 DEF CartKeeps

LEMMA ReplaceKeeps ==
    ASSUME Typed, NEW t \in Threads, Replace(t), pc[t] \in {"store", "update"},
           UNCHANGED <<tables, sessions, local, idem>>, live' \subseteq Carts
    PROVE  CartKeeps(t)
<1>1. Cart(t) \in Carts /\ req[t].body \in Bodies
  BY WritingOK
<1>2. versions' \in [Carts -> Seq(Bodies)] /\ lines' \in [Carts -> Nat]
  BY <1>1, ReplaceTypes DEF Typed
<1>3. CartTypes' /\ Go(t, "write_codes")
  BY <1>2 DEF Replace, Typed, CartTypes, sessions
<1> QED BY <1>3, WriterGoes

LEMMA StoreCartKeeps ==
    ASSUME Typed, NEW t \in Threads, StoreCart(t), UNCHANGED tables PROVE CartKeeps(t)
<1>1. live' \subseteq Carts
  BY DEF StoreCart, Typed, CartTypes, Carts
<1> QED BY <1>1, ReplaceKeeps DEF StoreCart, At

LEMMA UpdateCartKeeps ==
    ASSUME Typed, NEW t \in Threads, UpdateCart(t), UNCHANGED tables PROVE CartKeeps(t)
<1>1. pc[t] = "update" /\ UNCHANGED <<live, idem, sessions, local>>
  BY DEF UpdateCart, At
<1>2. CASE Replace(t)
  BY <1>1, <1>2, ReplaceKeeps DEF Typed, CartTypes
<1>3. CASE Answer(t, "not_found", None) /\ UNCHANGED <<versions, lines, codes, claims, cartLock>>
  <2>1. CartTypes' /\ RowsStay
    BY <1>1, <1>3, SameTables DEF Typed, cartState, carts
  <2> QED BY <2>1, <1>1, <1>3, AnswerKeepsCarts DEF Outcomes, Ids
<1> QED BY <1>2, <1>3 DEF UpdateCart

LEMMA WriteCodesKeeps ==
    ASSUME Typed, NEW t \in Threads, WriteCodes(t), UNCHANGED tables PROVE CartKeeps(t)
<1>1. pc[t] = "write_codes" /\ Go(t, "write_claims") /\ UNCHANGED <<sessions, local>>
  BY DEF WriteCodes, At
<1>2. CartTypes'
  <2>1. Cart(t) \in Carts
    BY <1>1, WritingOK
  <2> QED BY <2>1 DEF WriteCodes, Typed, CartTypes, sessions
<1> QED BY <1>1, <1>2, WriterGoes

LEMMA WriteClaimsKeeps ==
    ASSUME Typed, NEW t \in Threads, WriteClaims(t), UNCHANGED tables PROVE CartKeeps(t)
<1>1. pc[t] = "write_claims" /\ UNCHANGED <<sessions, local>>
  BY DEF WriteClaims, At
<1>2. /\ Cart(t) \in Carts /\ req[t].body \in Bodies
      /\ req[t].op = "create" => req[t].key \in Keys \cup {None}
  BY <1>1, WritingOK
<1>3. [body |-> req[t].body, id |-> t] \in KeyRecord
  BY <1>2 DEF KeyRecord
<1>4. idem' \in [Keys -> KeyRecord \cup {None}]
  BY <1>2, <1>3 DEF WriteClaims, KeyStored, Typed, CartTypes
<1>5. CartTypes' /\ RowsStay
  BY <1>2, <1>4 DEF WriteClaims, Typed, CartTypes, RowsStay, sessions, tables
<1>6. PICK code \in {"created", "ok"} : Answer(t, code, Cart(t))
  BY DEF WriteClaims
<1> QED BY <1>1, <1>2, <1>5, <1>6, AnswerKeepsCarts DEF Outcomes, Ids

LEMMA CancelCartKeeps ==
    ASSUME Typed, NEW t \in Threads, CancelCart(t), UNCHANGED tables PROVE CartKeeps(t)
<1>1. pc[t] = "cancel" /\ UNCHANGED local
  BY DEF CancelCart, At
<1>2. Cart(t) \in Ids
  BY <1>1, RequestFields DEF Typed, ThreadOK, Cart, Ids, Carts
<1>3. CartTypes' /\ RowsStay
  BY DEF CancelCart, Typed, CartTypes, RowsStay, sessions, tables
<1> QED BY <1>1, <1>2, <1>3, AnswerKeepsCarts DEF CancelCart, Outcomes, Ids

LEMMA GetCartKeeps ==
    ASSUME Typed, NEW t \in Threads, GetCart(t), UNCHANGED tables PROVE CartKeeps(t)
<1>1. pc[t] = "get_cart" /\ UNCHANGED local
  BY DEF GetCart, At
<1>2. Cart(t) \in Ids
  BY <1>1, RequestFields DEF Typed, ThreadOK, Cart, Ids, Carts
<1>3. CartTypes' /\ RowsStay
  BY SameTables DEF GetCart, Typed, cartState
<1> QED BY <1>1, <1>2, <1>3, AnswerKeepsCarts DEF GetCart, Outcomes, Ids

\* A conversion, its cart, and what it has read.
LEMMA ConvertingOK ==
    ASSUME Typed, NEW t \in Threads, pc[t] \in Converting
    PROVE  /\ req[t] \in Request /\ req[t].op = "convert" /\ Cart(t) \in Carts
           /\ resp[t] = NoAnswer
           /\ pc[t] \in {"prior", "codes"} => local[t] \in [lines : Nat]
           /\ pc[t] = "claims" => local[t] \in [lines : Nat, codes : Nat]
           /\ pc[t] = "execute" => local[t] \in [lines : Nat, codes : Nat, claims : Nat]
<1>1. /\ req[t] \in Request /\ req[t].op = "convert" /\ resp[t] = NoAnswer
  BY DEF Typed, ThreadOK, Converting
<1>2. Cart(t) \in Carts
  BY <1>1, RequestFields DEF Cart
<1>3. /\ DOMAIN Parts = {"prior", "codes", "claims", "execute"}
      /\ Parts["prior"] = [lines : Nat] /\ Parts["codes"] = [lines : Nat]
      /\ Parts["claims"] = [lines : Nat, codes : Nat]
      /\ Parts["execute"] = [lines : Nat, codes : Nat, claims : Nat]
  BY DEF Parts
<1>4. pc[t] \in DOMAIN Parts => local[t] \in Parts[pc[t]]
  BY DEF Typed, ThreadOK
<1> QED BY <1>1, <1>2, <1>3, <1>4

LEMMA ReadLinesKeeps ==
    ASSUME Typed, NEW t \in Threads, ReadLines(t), UNCHANGED tables PROVE CartKeeps(t)
<1>1. pc[t] = "convert" /\ CartTypes' /\ RowsStay
  BY SameTables DEF ReadLines, At, Typed, cartState
<1>2. req[t] \in Request /\ req[t].op = "convert" /\ Cart(t) \in Carts /\ resp[t] = NoAnswer
  BY <1>1, ConvertingOK DEF Converting
<1>3. CASE Answer(t, "not_found", None) /\ UNCHANGED local
  BY <1>1, <1>3, AnswerKeepsCarts DEF Outcomes, Ids
<1>4. CASE Go(t, "prior") /\ Read(t, [lines |-> lines[Cart(t)]])
  <2>1. Moves(t) /\ ThreadTypes' /\ pc'[t] = "prior" /\ resp' = resp
    BY <1>1, <1>4, GoMoves DEF Typed, Places, Converting
  <2>2. local'[t] \in [lines : Nat]
    BY <1>2, <1>4 DEF Read, Typed, ThreadTypes, CartTypes
  <2>3. ThreadOK(t)'
    BY <2>1, <2>2, <1>2 DEF ThreadOK, Moves, Creating, Converting, Adjusting, Fulfilling, Announcing, Parts
  <2> QED BY <1>1, <2>1, <2>3 DEF CartKeeps
<1> QED BY <1>3, <1>4 DEF ReadLines

LEMMA FindPriorKeeps ==
    ASSUME Typed, NEW t \in Threads, FindPrior(t), UNCHANGED tables PROVE CartKeeps(t)
<1>1. pc[t] = "prior" /\ CartTypes' /\ RowsStay /\ UNCHANGED local
  BY SameTables DEF FindPrior, At, Typed, cartState
<1>2. /\ req[t] \in Request /\ req[t].op = "convert" /\ Cart(t) \in Carts /\ resp[t] = NoAnswer
      /\ local[t] \in [lines : Nat]
  BY <1>1, ConvertingOK DEF Converting
<1>3. CASE HasOpen(Cart(t)) /\ Answer(t, "existing", link[Cart(t)])
  <2>1. link[Cart(t)] \in Ids
    BY <1>2 DEF Typed, CartTypes, Ids
  <2> QED BY <2>1, <1>1, <1>3, AnswerKeepsCarts DEF Outcomes
<1>4. CASE Go(t, "codes")
  <2>1. Moves(t) /\ ThreadTypes' /\ pc'[t] = "codes" /\ resp' = resp
    BY <1>1, <1>4, GoMoves DEF Typed, Places, Converting
  <2>2. ThreadOK(t)'
    BY <2>1, <1>1, <1>2 DEF ThreadOK, Moves, Creating, Converting, Adjusting, Fulfilling, Announcing, Parts
  <2> QED BY <1>1, <2>1, <2>2 DEF CartKeeps
<1> QED BY <1>3, <1>4 DEF FindPrior

LEMMA ReadCodesKeeps ==
    ASSUME Typed, NEW t \in Threads, ReadCodes(t), UNCHANGED tables PROVE CartKeeps(t)
<1>1. pc[t] = "codes" /\ CartTypes' /\ RowsStay
  BY SameTables DEF ReadCodes, At, Typed, cartState
<1>2. /\ req[t] \in Request /\ req[t].op = "convert" /\ Cart(t) \in Carts /\ resp[t] = NoAnswer
      /\ local[t] \in [lines : Nat]
  BY <1>1, ConvertingOK DEF Converting
<1>3. Moves(t) /\ ThreadTypes' /\ pc'[t] = "claims" /\ resp' = resp
  BY <1>1, GoMoves DEF Typed, Places, Converting, ReadCodes
<1>4. local'[t] \in [lines : Nat, codes : Nat]
  BY <1>2 DEF ReadCodes, Read, Typed, ThreadTypes, CartTypes
<1>5. ThreadOK(t)'
  BY <1>2, <1>3, <1>4 DEF ThreadOK, Moves, Creating, Converting, Adjusting, Fulfilling, Announcing, Parts
<1> QED BY <1>1, <1>3, <1>5 DEF CartKeeps

LEMMA ReadClaimsKeeps ==
    ASSUME Typed, NEW t \in Threads, ReadClaims(t), UNCHANGED tables PROVE CartKeeps(t)
<1>1. pc[t] = "claims" /\ CartTypes' /\ RowsStay
  BY SameTables DEF ReadClaims, At, Typed, cartState
<1>2. /\ req[t] \in Request /\ req[t].op = "convert" /\ Cart(t) \in Carts /\ resp[t] = NoAnswer
      /\ local[t] \in [lines : Nat, codes : Nat]
  BY <1>1, ConvertingOK DEF Converting
<1>3. Moves(t) /\ ThreadTypes' /\ pc'[t] = "execute" /\ resp' = resp
  BY <1>1, GoMoves DEF Typed, Places, Converting, ReadClaims
<1>4. local'[t] \in [lines : Nat, codes : Nat, claims : Nat]
  BY <1>2 DEF ReadClaims, Read, Typed, ThreadTypes, CartTypes
<1>5. ThreadOK(t)'
  BY <1>2, <1>3, <1>4 DEF ThreadOK, Moves, Creating, Converting, Adjusting, Fulfilling, Announcing, Parts
<1> QED BY <1>1, <1>3, <1>5 DEF CartKeeps

LEMMA RefuseConversionKeeps ==
    ASSUME Typed, NEW t \in Threads, RefuseConversion(t), UNCHANGED tables PROVE CartKeeps(t)
<1>1. pc[t] = "execute" /\ CartTypes' /\ RowsStay /\ UNCHANGED local
  BY SameTables DEF RefuseConversion, At, Typed, cartState
<1> QED BY <1>1, AnswerKeepsCarts DEF RefuseConversion, Outcomes, Ids

\* The row that a conversion makes.
Converted(t) == Opened(Cart(t), local[t].lines, local[t].codes, local[t].claims)

LEMMA OpenedOK ==
    ASSUME NEW c \in Carts \cup {None}, NEW l \in Nat, NEW m \in Nat, NEW n \in Nat
    PROVE  /\ Opened(c, l, m, n) \in Session /\ Opened(c, l, m, n) # None
           /\ Opened(c, l, m, n).cart = c /\ Opened(c, l, m, n).lines = l
           /\ Opened(c, l, m, n).codes = m /\ Opened(c, l, m, n).claims = n
           /\ Opened(c, l, m, n).status = "open"
<1>1. Opened(c, l, m, n) \in Session
  BY DEF Opened, Session, Statuses
<1> QED BY <1>1, RecordsAssumption DEF Opened

LEMMA ConvertKeeps ==
    ASSUME Typed, NEW t \in Threads, Convert(t), UNCHANGED tables
    PROVE  /\ CartKeeps(t)
           /\ Cart(t) \in Carts /\ Converted(t) \in Session /\ Converted(t) # None
           /\ checkouts' = [checkouts EXCEPT ![t] = Converted(t)]
<1>1. pc[t] = "execute" /\ UNCHANGED <<carts, idem, local>>
  BY DEF Convert, At
<1>2. /\ Cart(t) \in Carts
      /\ local[t] \in [lines : Nat, codes : Nat, claims : Nat]
  BY <1>1, ConvertingOK DEF Converting
<1>3. Converted(t) \in Session /\ Converted(t) # None
  <2>1. local[t].lines \in Nat /\ local[t].codes \in Nat /\ local[t].claims \in Nat
    BY <1>2
  <2> QED BY <1>2, <2>1, OpenedOK DEF Converted
<1>4. checkouts' = [checkouts EXCEPT ![t] = Converted(t)]
  BY DEF Convert, Converted
<1>5. t \in Checkouts /\ t \in Ids
  BY DEF Checkouts, Ids
<1>6. checkouts' \in [Checkouts -> Session \cup {None}]
  BY <1>3, <1>4, <1>5 DEF Typed, CartTypes
<1>7. link' \in [Carts -> Checkouts \cup {None}]
  <2>1. link' = [link EXCEPT ![Cart(t)] = t]
    BY DEF Convert, Link
  <2> QED BY <1>5, <2>1 DEF Typed, CartTypes
<1>8. CartTypes' /\ RowsStay
  BY <1>1, <1>3, <1>4, <1>6, <1>7 DEF Typed, CartTypes, RowsStay, carts, tables
<1>9. CartKeeps(t)
  BY <1>1, <1>5, <1>8, AnswerKeepsCarts DEF Convert, Outcomes
<1> QED BY <1>2, <1>3, <1>4, <1>9

LEMMA CartStepKeeps ==
    ASSUME Typed, NEW t \in Threads, CartStep(t), UNCHANGED tables PROVE CartKeeps(t)
  BY LookUpKeeps, StoreCartKeeps, UpdateCartKeeps, WriteCodesKeeps, WriteClaimsKeeps,
     CancelCartKeeps, GetCartKeeps,
     ReadLinesKeeps, FindPriorKeeps, ReadCodesKeeps, ReadClaimsKeeps,
     RefuseConversionKeeps, ConvertKeeps DEF CartStep

-----------------------------------------------------------------------------
(* Order steps *)

OrderKeeps(t) == Moves(t) /\ OrderTypes' /\ ThreadTypes' /\ ThreadOK(t)' /\ RowsStay

LEMMA SameOrders ==
    ASSUME OrderTypes, UNCHANGED <<tables, checkouts>>
    PROVE  OrderTypes' /\ RowsStay
  BY DEF OrderTypes, RowsStay, tables

LEMMA AnswerKeepsOrders ==
    ASSUME Typed, NEW t \in Threads, NEW code \in Outcomes, NEW id \in Ids,
           Answer(t, code, id), pc[t] \notin {"idle", "done"}, UNCHANGED local,
           OrderTypes', RowsStay
    PROVE  OrderKeeps(t)
<1>1. Moves(t) /\ ThreadTypes' /\ pc'[t] = "done"
  BY AnswerMoves DEF Typed
<1> QED BY <1>1, DoneOK DEF OrderKeeps

\* A change of an order: its place in a sale or of a log, and what it becomes.
LEMMA RowKeeps ==
    ASSUME Typed, NEW o \in Orders, NEW row \in Order, orders' = [orders EXCEPT ![o] = row],
           version' = version, checkouts' = checkouts, lock' \in Threads \cup {None}
    PROVE  OrderTypes' /\ RowsStay /\ orders'[o] = row /\ row # None
<1>1. row # None
  BY OrderAssumption
<1> QED BY <1>1 DEF Typed, OrderTypes, RowsStay

\* What becomes of an order: its line and its status change, or a log grows.
Reduced(order, total) ==
    [order EXCEPT !.total = total, !.status = StatusOf(total, order.fulfilled)]
Counted(order, now) ==
    [order EXCEPT !.fulfilled = now, !.status = StatusOf(order.total, now)]
Logged(order, t) == [order EXCEPT !.adjustments = @ \cup {t}]
Dispatched(order, t) == [order EXCEPT !.events = @ \cup {t}]

LEMMA RowTypes ==
    ASSUME NEW order \in Order, NEW n \in Int, NEW t \in Threads
    PROVE  /\ Reduced(order, n) \in Order /\ Counted(order, n) \in Order
           /\ Logged(order, t) \in Order /\ Dispatched(order, t) \in Order
<1>1. \A a, b : StatusOf(a, b) \in {"processing", "partial", "fulfilled", "removed"}
  BY DEF StatusOf
<1>2. ASSUME NEW s \in {"processing", "partial", "fulfilled", "removed"}
      PROVE  /\ [order EXCEPT !.total = n, !.status = s] \in Order
             /\ [order EXCEPT !.fulfilled = n, !.status = s] \in Order
  BY DEF Order
<1>3. Logged(order, t) \in Order /\ Dispatched(order, t) \in Order
  BY DEF Order, Logged, Dispatched
<1> QED BY <1>1, <1>2, <1>3 DEF Reduced, Counted

\* A request about an order, and the order.
LEMMA AboutOrder ==
    ASSUME Typed, NEW t \in Threads,
           pc[t] \in Adjusting \cup Fulfilling \cup {"get_order"}
    PROVE  /\ req[t] \in Request /\ resp[t] = NoAnswer /\ Target(t) \in Orders
           /\ pc[t] \in Adjusting => req[t].op = "adjust"
           /\ pc[t] \in Fulfilling => req[t].op = "fulfill"
           /\ pc[t] # "get_order" =>
                req[t].qty \in 1..Quantity /\ req[t].qty \in Nat /\ Own(t) = Target(t)
           /\ pc[t] \in {"reduce", "log", "append", "log_event", "count"} =>
                orders[Target(t)] \in Order
<1>1. /\ req[t] \in Request /\ resp[t] = NoAnswer
      /\ pc[t] \in Adjusting => req[t].op = "adjust"
      /\ pc[t] \in Fulfilling => req[t].op = "fulfill"
      /\ pc[t] = "get_order" => req[t].op = "get_order"
      /\ pc[t] \in {"reduce", "log", "append", "log_event", "count"} => orders[Target(t)] # None
  BY DEF Typed, ThreadOK, Adjusting, Fulfilling
<1>2. Target(t) \in Orders
  BY <1>1, RequestFields DEF Target
<1>3. pc[t] # "get_order" => req[t].qty \in 1..Quantity /\ Own(t) = Target(t)
  BY <1>1, RequestFields DEF Own
<1>4. Quantity \in Nat
  BY OrdersAssumption
<1> QED BY <1>1, <1>2, <1>3, <1>4 DEF Typed, OrderTypes

LEMMA CheckKeeps ==
    ASSUME Typed, NEW t \in Threads, Check(t), UNCHANGED cartState PROVE OrderKeeps(t)
<1>1. pc[t] \in {"adjust", "fulfill"} /\ OrderTypes' /\ RowsStay
  BY SameOrders DEF Check, Typed, cartState, sessions
<1>2. pc[t] \in Adjusting \cup Fulfilling
  BY <1>1 DEF Adjusting, Fulfilling
<1>3. /\ req[t] \in Request /\ resp[t] = NoAnswer /\ Target(t) \in Orders
      /\ pc[t] = "adjust" => req[t].op = "adjust"
      /\ pc[t] = "fulfill" => req[t].op = "fulfill"
  BY <1>2, AboutOrder DEF Adjusting, Fulfilling
<1>4. CASE Answer(t, "not_found", None) /\ UNCHANGED local
  BY <1>1, <1>4, AnswerKeepsOrders DEF Outcomes, Ids
<1>5. CASE Answer(t, "invalid", None) /\ UNCHANGED local
  BY <1>1, <1>5, AnswerKeepsOrders DEF Outcomes, Ids
<1>6. CASE /\ Routed(t)
           /\ Go(t, IF req[t].op = "fulfill" THEN "log_event"
                    ELSE IF version = "04-08" THEN "reduce" ELSE "append")
           /\ Read(t, orders[Target(t)])
  <2> DEFINE l == IF req[t].op = "fulfill" THEN "log_event"
                  ELSE IF version = "04-08" THEN "reduce" ELSE "append"
  <2>1. l \in Places
    BY DEF Places, Adjusting, Fulfilling
  <2>2. Moves(t) /\ ThreadTypes' /\ pc'[t] = l /\ resp' = resp
    BY <1>1, <1>6, <2>1, GoMoves DEF Typed
  <2>3. /\ orders'[Target(t)] # None /\ version' = version /\ Target(t)' = Target(t)
        /\ req'[t] = req[t]
    BY <1>3, <1>6, <1>1, <2>2 DEF Routed, RowsStay, Target, Moves
  <2>4. ThreadOK(t)'
    BY <1>1, <1>3, <1>6, <2>2, <2>3 DEF Routed, ThreadOK, Creating, Converting, Adjusting,
       Fulfilling, Announcing, Parts
  <2> QED BY <1>1, <2>2, <2>4 DEF OrderKeeps
<1> QED BY <1>4, <1>5, <1>6 DEF Check

LEMMA ReduceKeeps ==
    ASSUME Typed, NEW t \in Threads, Reduce(t), UNCHANGED cartState
    PROVE  /\ OrderKeeps(t)
           /\ orders' = [orders EXCEPT ![Target(t)] =
                  Reduced(orders[Target(t)], orders[Target(t)].total - req[t].qty)]
<1> DEFINE order == orders[Target(t)]
           left == order.total - req[t].qty
           row == Reduced(order, left)
<1>1. /\ pc[t] = "reduce" /\ lock' = t /\ version' = version /\ checkouts' = checkouts
      /\ UNCHANGED local
  BY DEF Reduce, At, cartState, sessions
<1>2. /\ req[t] \in Request /\ resp[t] = NoAnswer /\ Target(t) \in Orders
      /\ req[t].op = "adjust" /\ req[t].qty \in Nat /\ order \in Order
  BY <1>1, AboutOrder DEF Adjusting
<1>3. orders' = [orders EXCEPT ![Target(t)] = row]
  BY <1>2 DEF Reduce, Reduced, Order, Typed, OrderTypes
<1>4. row \in Order
  <2>1. left \in Int
    BY <1>2 DEF Order
  <2> QED BY <1>2, <2>1, RowTypes
<1> HIDE DEF row
<1>5. OrderTypes' /\ RowsStay /\ orders'[Target(t)] # None
  BY <1>1, <1>2, <1>3, <1>4, RowKeeps
<1>6. Moves(t) /\ ThreadTypes' /\ pc'[t] = "log" /\ resp' = resp
  BY <1>1, GoMoves DEF Typed, Places, Adjusting, Reduce
<1>7. Target(t)' = Target(t) /\ req'[t] = req[t]
  BY <1>6 DEF Moves, Target
<1>8. version = "04-08"
  BY <1>1 DEF Typed, ThreadOK
<1>9. ThreadOK(t)'
  BY <1>1, <1>2, <1>5, <1>6, <1>7, <1>8 DEF ThreadOK, Creating, Converting, Adjusting,
     Fulfilling, Announcing, Parts
<1> QED BY <1>3, <1>5, <1>6, <1>9 DEF OrderKeeps, row

\* Announcing: of a row that is there.
LEMMA AnnounceKeeps ==
    ASSUME Typed, NEW t \in Threads, pc[t] \notin {"idle", "done"},
           UNCHANGED local, resp[t] = NoAnswer, req[t] \in Request,
           req[t].op \in {"adjust", "fulfill", "complete"},
           \/ Announce(t)
           \/ Go(t, "answer"),
           orders'[Own(t)] # None
    PROVE  /\ Moves(t) /\ ThreadTypes' /\ ThreadOK(t)'
           /\ pc'[t] \in {"serialize", "answer"}
           /\ Announce(t) => (pc'[t] = "serialize" <=> Own(t) \in Subscribed)
<1>1. PICK l \in {"serialize", "answer"} :
          Go(t, l) /\ (Announce(t) => (l = "serialize" <=> Own(t) \in Subscribed))
  <2>1. CASE Announce(t)
    <3>1. CASE Own(t) \in Subscribed
      BY <2>1, <3>1 DEF Announce
    <3>2. CASE Own(t) \notin Subscribed
      BY <2>1, <3>2 DEF Announce
    <3> QED BY <3>1, <3>2
  <2>2. CASE ~Announce(t) /\ Go(t, "answer")
    BY <2>2
  <2> QED BY <2>1, <2>2
<1>2. Moves(t) /\ ThreadTypes' /\ pc'[t] = l /\ resp' = resp
  BY <1>1, GoMoves DEF Typed, Places, Announcing
<1>3. Own(t)' = Own(t) /\ req'[t] = req[t]
  BY <1>2 DEF Moves, Own, Target
<1>4. ThreadOK(t)'
  BY <1>1, <1>2, <1>3 DEF ThreadOK, Creating, Converting, Adjusting, Fulfilling, Announcing,
     Parts
<1> QED BY <1>1, <1>2, <1>4

LEMMA AdjustmentKeeps ==
    ASSUME Typed, NEW t \in Threads, LogAdjustment(t) \/ AppendAdjustment(t),
           UNCHANGED cartState
    PROVE  /\ OrderKeeps(t)
           /\ orders' = [orders EXCEPT ![Target(t)] = Logged(orders[Target(t)], t)]
<1> DEFINE row == Logged(orders[Target(t)], t)
<1>1. /\ pc[t] \in {"log", "append"} /\ version' = version /\ checkouts' = checkouts
      /\ UNCHANGED local /\ lock' \in Threads \cup {None}
      /\ Announce(t) \/ Go(t, "answer")
  BY DEF LogAdjustment, AppendAdjustment, At, cartState, sessions, Typed, OrderTypes
<1>2. /\ req[t] \in Request /\ resp[t] = NoAnswer /\ Target(t) \in Orders
      /\ req[t].op = "adjust" /\ orders[Target(t)] \in Order /\ Own(t) = Target(t)
  BY <1>1, AboutOrder DEF Adjusting
<1>3. orders' = [orders EXCEPT ![Target(t)] = row] /\ row \in Order
  BY <1>2, RowTypes DEF LogAdjustment, AppendAdjustment, Logged
<1> HIDE DEF row
<1>4. OrderTypes' /\ RowsStay /\ orders'[Target(t)] # None
  BY <1>1, <1>2, <1>3, RowKeeps
<1>5. Moves(t) /\ ThreadTypes' /\ ThreadOK(t)'
  BY <1>1, <1>2, <1>4, AnnounceKeeps
<1> QED BY <1>3, <1>4, <1>5 DEF OrderKeeps, row

LEMMA LogEventKeeps ==
    ASSUME Typed, NEW t \in Threads, LogEvent(t), UNCHANGED cartState
    PROVE  /\ OrderKeeps(t)
           /\ orders' = [orders EXCEPT ![Target(t)] = Dispatched(orders[Target(t)], t)]
<1> DEFINE row == Dispatched(orders[Target(t)], t)
<1>1. /\ pc[t] = "log_event" /\ version' = version /\ checkouts' = checkouts
      /\ UNCHANGED local /\ lock' \in Threads \cup {None} /\ Go(t, "count")
  BY DEF LogEvent, At, cartState, sessions
<1>2. /\ req[t] \in Request /\ resp[t] = NoAnswer /\ Target(t) \in Orders
      /\ req[t].op = "fulfill" /\ orders[Target(t)] \in Order
  BY <1>1, AboutOrder DEF Fulfilling
<1>3. orders' = [orders EXCEPT ![Target(t)] = row] /\ row \in Order
  BY <1>2, RowTypes DEF LogEvent, Dispatched
<1> HIDE DEF row
<1>4. OrderTypes' /\ RowsStay /\ orders'[Target(t)] # None
  BY <1>1, <1>2, <1>3, RowKeeps
<1>5. Moves(t) /\ ThreadTypes' /\ pc'[t] = "count" /\ resp' = resp
  BY <1>1, GoMoves DEF Typed, Places, Fulfilling
<1>6. Target(t)' = Target(t) /\ req'[t] = req[t] /\ version # "04-08"
  BY <1>1, <1>5 DEF Moves, Target, Typed, ThreadOK
<1>7. ThreadOK(t)'
  BY <1>1, <1>2, <1>4, <1>5, <1>6 DEF ThreadOK, Creating, Converting, Adjusting,
     Fulfilling, Announcing, Parts
<1> QED BY <1>3, <1>4, <1>5, <1>7 DEF OrderKeeps, row

LEMMA CountKeeps ==
    ASSUME Typed, NEW t \in Threads, CountFulfilled(t), UNCHANGED cartState
    PROVE  /\ OrderKeeps(t)
           /\ orders' = [orders EXCEPT ![Target(t)] =
                  Counted(orders[Target(t)], orders[Target(t)].fulfilled + req[t].qty)]
<1> DEFINE order == orders[Target(t)]
           now == order.fulfilled + req[t].qty
           row == Counted(order, now)
<1>1. /\ pc[t] = "count" /\ version' = version /\ checkouts' = checkouts
      /\ UNCHANGED local /\ lock' \in Threads \cup {None} /\ Go(t, "answer")
  BY DEF CountFulfilled, At, cartState, sessions
<1>2. /\ req[t] \in Request /\ resp[t] = NoAnswer /\ Target(t) \in Orders
      /\ req[t].op = "fulfill" /\ req[t].qty \in Nat /\ order \in Order /\ Own(t) = Target(t)
  BY <1>1, AboutOrder DEF Fulfilling
<1>3. orders' = [orders EXCEPT ![Target(t)] = row]
  BY <1>2 DEF CountFulfilled, Fulfilled, Counted, Order, Typed, OrderTypes
<1>4. row \in Order
  <2>1. now \in Int
    BY <1>2 DEF Order
  <2> QED BY <1>2, <2>1, RowTypes
<1> HIDE DEF row
<1>5. OrderTypes' /\ RowsStay /\ orders'[Target(t)] # None
  BY <1>1, <1>2, <1>3, <1>4, RowKeeps
<1>6. Moves(t) /\ ThreadTypes' /\ ThreadOK(t)'
  BY <1>1, <1>2, <1>5, AnnounceKeeps
<1> QED BY <1>3, <1>5, <1>6 DEF OrderKeeps, row

LEMMA GetOrderKeeps ==
    ASSUME Typed, NEW t \in Threads, GetOrder(t), UNCHANGED cartState PROVE OrderKeeps(t)
<1>1. pc[t] = "get_order" /\ UNCHANGED local /\ OrderTypes' /\ RowsStay
  BY SameOrders DEF GetOrder, At, Typed, cartState, sessions
<1>2. Target(t) \in Ids
  BY <1>1, AboutOrder DEF Ids
<1> QED BY <1>1, <1>2, AnswerKeepsOrders DEF GetOrder, Outcomes, Ids

\* A request whose change is made, and the order it is about.
LEMMA AnnouncingOK ==
    ASSUME Typed, NEW t \in Threads, pc[t] \in Announcing
    PROVE  /\ req[t] \in Request /\ resp[t] = NoAnswer
           /\ req[t].op \in {"adjust", "fulfill", "complete"}
           /\ Own(t) \in Orders /\ orders[Own(t)] \in Order /\ orders[Own(t)] # None
<1>1. /\ req[t] \in Request /\ resp[t] = NoAnswer
      /\ req[t].op \in {"adjust", "fulfill", "complete"} /\ orders[Own(t)] # None
  BY DEF Typed, ThreadOK, Announcing
<1>2. Own(t) \in Orders
  BY <1>1, RequestFields DEF Own, Target, Orders
<1> QED BY <1>1, <1>2 DEF Typed, OrderTypes

LEMMA RespondKeeps ==
    ASSUME Typed, NEW t \in Threads, Respond(t), UNCHANGED cartState PROVE OrderKeeps(t)
<1>1. pc[t] = "answer" /\ UNCHANGED local /\ OrderTypes' /\ RowsStay
  BY SameOrders DEF Respond, At, Typed, cartState, sessions
<1>2. Own(t) \in Ids
  BY <1>1, AnnouncingOK DEF Ids, Announcing
<1> QED BY <1>1, <1>2, AnswerKeepsOrders DEF Respond, Outcomes

LEMMA DeliveryKeeps ==
    ASSUME Typed, NEW t \in Threads, Serialize(t) \/ Attempt(t), UNCHANGED cartState
    PROVE  OrderKeeps(t)
<1>1. pc[t] \in Announcing /\ pc[t] \notin {"idle", "done"} /\ OrderTypes' /\ RowsStay
  BY SameOrders DEF Serialize, Attempt, At, Typed, cartState, sessions, Announcing
<1>2. /\ req[t] \in Request /\ resp[t] = NoAnswer /\ orders[Own(t)] # None
      /\ req[t].op \in {"adjust", "fulfill", "complete"} /\ Own(t) \in Orders
  BY <1>1, AnnouncingOK
<1>3. PICK l \in {"attempt", "answer"} : Go(t, l)
  BY DEF Serialize, Attempt
<1>4. UNCHANGED local \/ \E v : Read(t, v)
  BY DEF Serialize, Attempt
<1>5. Moves(t) /\ ThreadTypes' /\ pc'[t] = l /\ resp' = resp
  BY <1>1, <1>3, <1>4, GoMoves DEF Typed, Places, Announcing
<1>6. Own(t)' = Own(t) /\ req'[t] = req[t] /\ orders'[Own(t)] # None
  BY <1>1, <1>2, <1>5 DEF Moves, Own, Target, RowsStay
<1>7. ThreadOK(t)'
  BY <1>2, <1>3, <1>5, <1>6 DEF ThreadOK, Creating, Converting, Adjusting, Fulfilling,
     Announcing, Parts
<1> QED BY <1>1, <1>5, <1>7 DEF OrderKeeps

LEMMA OrderStepKeeps ==
    ASSUME Typed, NEW t \in Threads, OrderStep(t), UNCHANGED cartState PROVE OrderKeeps(t)
  BY CheckKeeps, ReduceKeeps, AdjustmentKeeps, LogEventKeeps, CountKeeps, GetOrderKeeps,
     RespondKeeps, DeliveryKeeps DEF OrderStep

-----------------------------------------------------------------------------
(* Checkouts: completing, escalating, abandoning; and the whole server *)

Keeps(t) == Moves(t) /\ RowsStay /\ Typed'

LEMMA CheckoutFields ==
    ASSUME Typed, NEW t \in Threads,
           pc[t] \in {"complete", "escalate", "abandon", "place", "reopen", "close"}
    PROVE  /\ req[t] \in Request /\ resp[t] = NoAnswer
           /\ pc[t] \in {"complete", "place"} => req[t].op = "complete"
           /\ pc[t] \in {"escalate", "reopen"} => req[t].op = "escalate"
           /\ pc[t] \in {"abandon", "close"} => req[t].op = "abandon"
           /\ req[t].checkout \in Checkouts
           /\ pc[t] \in {"place", "reopen", "close"} => checkouts[req[t].checkout] \in Session
<1>1. /\ req[t] \in Request /\ resp[t] = NoAnswer
      /\ pc[t] \in {"complete", "place"} => req[t].op = "complete"
      /\ pc[t] \in {"escalate", "reopen"} => req[t].op = "escalate"
      /\ pc[t] \in {"abandon", "close"} => req[t].op = "abandon"
      /\ pc[t] \in {"place", "reopen", "close"} => checkouts[req[t].checkout] # None
  BY DEF Typed, ThreadOK
<1>2. req[t].checkout \in Checkouts
  BY <1>1, RequestFields
<1> QED BY <1>1, <1>2 DEF Typed, CartTypes

\* A checkout that changes its status keeps all else.
With(row, status) == [row EXCEPT !.status = status]

LEMMA StatusTypes ==
    ASSUME Typed, NEW k \in Checkouts, checkouts[k] \in Session, NEW status \in Statuses,
           SetStatus(k, status), UNCHANGED <<carts, idem, link>>
    PROVE  /\ checkouts' = [checkouts EXCEPT ![k] = With(checkouts[k], status)]
           /\ With(checkouts[k], status) \in Session /\ With(checkouts[k], status) # None
           /\ CartTypes' /\ \A j \in Checkouts : checkouts[j] # None => checkouts'[j] # None
<1> DEFINE row == With(checkouts[k], status)
<1>1. checkouts' = [checkouts EXCEPT ![k] = row]
  BY DEF SetStatus, With
<1>2. row \in Session
  BY DEF With, Session
<1>3. row # None
  BY <1>2, RecordsAssumption
<1> HIDE DEF row
<1>4. CartTypes' /\ \A j \in Checkouts : checkouts[j] # None => checkouts'[j] # None
  BY <1>1, <1>2, <1>3 DEF Typed, CartTypes, carts
<1> QED BY <1>1, <1>2, <1>3, <1>4 DEF row

LEMMA TestStatusKeeps == ASSUME Typed, NEW t \in Threads, TestStatus(t) PROVE Keeps(t)
<1>1. /\ pc[t] \in {"complete", "escalate", "abandon"} /\ UNCHANGED local /\ CartTypes'
      /\ RowsStay /\ OrderTypes'
  BY SameTables, SameOrders DEF TestStatus, Typed, cartState, sessions
<1>2. /\ req[t] \in Request /\ resp[t] = NoAnswer /\ req[t].checkout \in Checkouts
      /\ pc[t] = "complete" => req[t].op = "complete"
      /\ pc[t] = "escalate" => req[t].op = "escalate"
      /\ pc[t] = "abandon" => req[t].op = "abandon"
  BY <1>1, CheckoutFields
<1>3. CASE Answer(t, "refused", None)
  <2>1. CartKeeps(t)
    BY <1>1, <1>3, AnswerKeepsCarts DEF Outcomes, Ids
  <2> QED BY <2>1, <1>1, ThreadsKeep DEF CartKeeps, Keeps, Typed
<1>4. CASE ~Answer(t, "refused", None)
  <2>1. PICK l \in {"place", "reopen", "close"} :
            /\ Go(t, l) /\ Status(req[t].checkout) \notin Refused(req[t].op)
            /\ l = "place" => pc[t] = "complete"
            /\ l = "reopen" => pc[t] = "escalate"
            /\ l = "close" => pc[t] = "abandon"
    BY <1>4 DEF TestStatus, At
  <2>2. Moves(t) /\ ThreadTypes' /\ pc'[t] = l /\ resp' = resp
    BY <1>1, <2>1, GoMoves DEF Typed, Places
  <2>3. req'[t] = req[t] /\ checkouts'[req[t].checkout] # None
    BY <1>1, <1>2, <2>1, <2>2 DEF Moves, Status, Refused, RowsStay
  <2>4. ThreadOK(t)'
    BY <1>2, <2>1, <2>2, <2>3 DEF ThreadOK, Creating, Converting, Adjusting, Fulfilling,
       Announcing, Parts
  <2> QED BY <1>1, <2>2, <2>4, ThreadsKeep DEF Keeps, Typed
<1> QED BY <1>3, <1>4

LEMMA NewOrderTypes == NewOrder \in Order /\ NewOrder # None
<1>1. NewOrder \in Order
  BY OrdersAssumption DEF NewOrder, Order
<1> QED BY <1>1, OrderAssumption

LEMMA PlaceKeeps == ASSUME Typed, NEW t \in Threads, Place(t) PROVE Keeps(t)
<1>1. /\ pc[t] = "place" /\ UNCHANGED local /\ SetStatus(req[t].checkout, "completed")
      /\ Announce(t)
      /\ orders' = [orders EXCEPT ![t] = NewOrder]
      /\ UNCHANGED <<carts, idem, link, version, lock>>
  BY DEF Place, At
<1>2. /\ req[t] \in Request /\ resp[t] = NoAnswer /\ req[t].checkout \in Checkouts
      /\ req[t].op = "complete" /\ checkouts[req[t].checkout] \in Session
  BY <1>1, CheckoutFields
<1>3. CartTypes' /\ \A j \in Checkouts : checkouts[j] # None => checkouts'[j] # None
  BY <1>1, <1>2, StatusTypes DEF Statuses
<1>4. t \in Orders /\ Own(t) = t
  BY <1>2 DEF Orders, Own
<1>5. OrderTypes' /\ orders'[t] # None /\ \A o \in Orders : orders[o] # None => orders'[o] # None
  BY <1>1, <1>4, NewOrderTypes DEF Typed, OrderTypes
<1>6. RowsStay
  BY <1>1, <1>3, <1>5 DEF RowsStay
<1>7. Moves(t) /\ ThreadTypes' /\ ThreadOK(t)'
  BY <1>1, <1>2, <1>4, <1>5, AnnounceKeeps
<1> QED BY <1>3, <1>5, <1>6, <1>7, ThreadsKeep DEF Keeps, Typed

LEMMA ReopenAbandonKeeps ==
    ASSUME Typed, NEW t \in Threads, Reopen(t) \/ Abandon(t) PROVE Keeps(t)
<1>1. PICK status \in Statuses :
          /\ pc[t] \in {"reopen", "close"} /\ UNCHANGED local
          /\ SetStatus(req[t].checkout, status)
          /\ UNCHANGED <<carts, idem, link, tables>> /\ Answer(t, "ok", req[t].checkout)
  BY DEF Reopen, Abandon, At, Statuses
<1>2. req[t].checkout \in Checkouts /\ checkouts[req[t].checkout] \in Session
  BY <1>1, CheckoutFields
<1>3. CartTypes' /\ \A j \in Checkouts : checkouts[j] # None => checkouts'[j] # None
  BY <1>1, <1>2, StatusTypes
<1>4. OrderTypes' /\ RowsStay
  BY <1>1, <1>3 DEF Typed, OrderTypes, RowsStay, tables
<1>5. CartKeeps(t)
  BY <1>1, <1>2, <1>3, <1>4, AnswerKeepsCarts DEF Outcomes, Ids
<1> QED BY <1>4, <1>5, ThreadsKeep DEF CartKeeps, Keeps, Typed

LEMMA StepKeeps == ASSUME Typed, NEW t \in Threads, Step(t) PROVE Keeps(t)
<1>1. CASE CartStep(t) /\ UNCHANGED <<tables, delivery>>
  <2>1. CartKeeps(t)
    BY <1>1, CartStepKeeps
  <2>2. OrderTypes'
    BY <1>1 DEF Typed, OrderTypes, tables
  <2> QED BY <2>1, <2>2, ThreadsKeep DEF CartKeeps, Keeps, Typed
<1>2. CASE OrderStep(t) /\ UNCHANGED cartState
  <2>1. OrderKeeps(t)
    BY <1>2, OrderStepKeeps
  <2>2. CartTypes'
    BY <1>2 DEF Typed, CartTypes, cartState, carts, sessions
  <2> QED BY <2>1, <2>2, ThreadsKeep DEF OrderKeeps, Keeps, Typed
<1> QED BY <1>1, <1>2, TestStatusKeeps, PlaceKeeps, ReopenAbandonKeeps DEF Step

\* A thread begins: the others, the tables and what has been answered stay.
Begins(t) ==
    /\ pc[t] = "idle" /\ req'[t] \in Request /\ pc'[t] = req'[t].op
    /\ heard' = [heard EXCEPT ![t] = Answered]
    /\ \A u \in Threads \ {t} : pc'[u] = pc[u] /\ req'[u] = req[u]
    /\ UNCHANGED <<cartState, tables, delivery, local, resp>>

LEMMA ArriveKeeps == ASSUME Typed, NEW t \in Threads, Arrive(t) PROVE Begins(t) /\ Typed'
<1>1. PICK r \in Menu[t] : Begin(t, r)
  BY DEF Arrive
<1>2. r \in Request
  BY SalesAssumption DEF Request
<1>3. Begins(t)
  BY <1>1, <1>2 DEF Begin, Arrive, Begins, Typed, ThreadTypes, At
<1>4. r.op \in Places
  BY <1>2, RequestFields DEF Places, Creating, Converting, Adjusting, Fulfilling
<1>5. ThreadTypes'
  BY <1>1, <1>2, <1>4 DEF Begin, Typed, ThreadTypes, Answered
<1>6. CartTypes' /\ RowsStay /\ OrderTypes'
  BY <1>3, SameTables, SameOrders DEF Begins, Typed, cartState, sessions
<1>7. ASSUME NEW u \in Threads \ {t} PROVE ThreadOK(u)'
  <2>1. /\ pc'[u] = pc[u] /\ req'[u] = req[u] /\ local' = local /\ resp' = resp
        /\ orders' = orders /\ checkouts' = checkouts /\ version' = version
    BY <1>3 DEF Begins, cartState, tables, sessions
  <2>2. Own(u)' = Own(u) /\ Target(u)' = Target(u)
    BY <2>1 DEF Own, Target
  <2> QED BY <2>1, <2>2 DEF Typed, ThreadOK
<1>8. ThreadOK(t)'
  <2>1. pc'[t] = r.op /\ req'[t] = r /\ resp'[t] = NoAnswer
    BY <1>1, <1>3 DEF Begin, Begins, Typed, ThreadTypes, ThreadOK
  <2> QED BY <1>2, <2>1, RequestFields DEF ThreadOK, Creating, Converting, Adjusting,
       Fulfilling, Announcing, Parts
<1> QED BY <1>3, <1>5, <1>6, <1>7, <1>8 DEF Typed

LEMMA IdleKeeps ==
    ASSUME Typed, UNCHANGED <<cartState, tables, pc, req, local, resp, heard>> PROVE Typed'
<1>1. ASSUME NEW u \in Threads PROVE ThreadOK(u)'
  BY DEF Typed, ThreadOK, Own, Target, cartState, sessions, tables
<1>2. CartTypes' /\ OrderTypes'
  BY DEF Typed, CartTypes, OrderTypes, cartState, carts, sessions, tables
<1>3. ThreadTypes'
  BY DEF Typed, ThreadTypes
<1> QED BY <1>1, <1>2, <1>3 DEF Typed

LEMMA InitTyped == Init => Typed
<1> SUFFICES ASSUME Init PROVE Typed
  OBVIOUS
<1>1. ThreadTypes
  BY DEF Init, ThreadsInit, ThreadTypes, Places, NoAnswer
<1>2. \A t \in Threads : ThreadOK(t)
  BY DEF Init, ThreadsInit, ThreadOK, Creating, Converting, Adjusting, Fulfilling, Announcing,
     Parts
<1>3. OrderTypes
  BY NewOrderTypes DEF Init, OrdersInit, OrderTypes
<1>4. (CHOOSE b \in Bodies : TRUE) \in Bodies
  BY CartsAssumption
<1>5. versions \in [Carts -> Seq(Bodies)]
  BY <1>4 DEF Init, CartsInit
<1>6. {lines, codes, claims} \subseteq [Carts -> Nat]
  BY <1>5 DEF Init, CartsInit
<1>7. \A k \in CheckoutSeeds :
          /\ Opened(None, 0, 0, 0) \in Session
          /\ SeedCart[k] # None => Opened(SeedCart[k], 1, 1, 1) \in Session
  BY OpenedOK, CartsAssumption DEF Carts
<1>8. checkouts \in [Checkouts -> Session \cup {None}]
  BY <1>7 DEF Init, CartsInit
<1>9. \A c \in Carts : SeedLink(c) \in Checkouts \cup {None}
  <2>1. \A c : (\E k \in CheckoutSeeds : SeedCart[k] = c) =>
            (CHOOSE k \in CheckoutSeeds : SeedCart[k] = c) \in CheckoutSeeds
    OBVIOUS
  <2> QED BY <2>1 DEF SeedLink, Checkouts
<1>10. CartTypes
  BY <1>5, <1>6, <1>8, <1>9 DEF Init, CartsInit, CartTypes, Carts
<1> QED BY <1>1, <1>2, <1>3, <1>10 DEF Typed

\* The steps that are somebody's, that begin a request, or that change neither
\* a thread nor a table.
LEMMA NextCases ==
    ASSUME [Next]_vars
    PROVE  \/ \E t \in Threads : Arrive(t) \/ Step(t) \/ Deliver(t)
           \/ UNCHANGED vars
  BY DEF Next, Settled

THEOREM SalesTypes == Spec => []Typed
<1>1. Typed /\ [Next]_vars => Typed'
  BY NextCases, ArriveKeeps, StepKeeps, IdleKeeps DEF Keeps, Deliver, Retry, vars
<1> QED BY <1>1, InitTyped, PTL DEF Spec

-----------------------------------------------------------------------------
(* What was heard *)

\* Only who has answered has been heard.
HeardOK == \A t \in Threads : heard[t] \subseteq Answered

\* Who has answered stays so, and a step is of one who has not.
LEMMA StepHears ==
    ASSUME HeardOK, NEW t \in Threads, Moves(t)
    PROVE  /\ HeardOK' /\ Answered \subseteq Answered' /\ heard' = heard /\ req' = req
           /\ \A u \in Threads : t \notin heard[u]
  BY DEF Moves, Answered, At, HeardOK

LEMMA ArrivalHears ==
    ASSUME Typed, HeardOK, NEW t \in Threads, Begins(t)
    PROVE  /\ HeardOK' /\ Answered' = Answered /\ t \notin Answered /\ heard'[t] = Answered
           /\ \A u \in Threads \ {t} : heard'[u] = heard[u]
           /\ \A u \in Threads : t \notin heard'[u]
<1>1. pc'[t] # "done" /\ pc[t] = "idle"
  BY RequestFields DEF Begins
<1>2. Answered' = Answered /\ t \notin Answered
  BY <1>1 DEF Begins, Answered, At
<1>3. heard'[t] = Answered /\ \A u \in Threads \ {t} : heard'[u] = heard[u]
  BY DEF Begins, Typed, ThreadTypes
<1> QED BY <1>2, <1>3 DEF HeardOK

LEMMA InitHears == Init => HeardOK
  BY DEF Init, ThreadsInit, HeardOK

-----------------------------------------------------------------------------
(* The keys of creates *)

\* A create that has found its key unused.
Storing(t) == pc[t] \in {"store", "write_codes", "write_claims"} /\ req[t].op = "create"

\* A key that answers is a cart's that was created under it, and a create that
\* goes on to store a cart has heard of none under its key.
KeysOK ==
    \A key \in Keys :
        /\ idem[key] # None =>
             Created(idem[key].id, key) /\ req[idem[key].id].body = idem[key].body
        /\ \A t \in Threads :
             /\ Created(t, key) => idem[key] # None
             /\ Storing(t) /\ req[t].key = key =>
                  \A u \in heard[t] : ~Created(u, key)

\* KeysAnswerOnce, thread by thread.
Once(t, key) ==
    /\ Created(t, key) => \A u \in heard[t] : u # t => ~Created(u, key)
    /\ resp[t].code = "replayed" /\ req[t].key = key =>
         /\ resp[t].id \in Threads \ {t} /\ Created(resp[t].id, key)
         /\ req[resp[t].id].body = req[t].body
    /\ resp[t].code = "conflict" /\ req[t].key = key =>
         \E u \in Threads \ {t} : Created(u, key) /\ req[u].body # req[t].body

KeyInv == HeardOK /\ KeysOK /\ \A t \in Threads, key \in Keys : Once(t, key)

\* What steps there are for keys.
LEMMA KeySteps ==
    ASSUME Typed, NEW t \in Threads, Step(t)
    PROVE  \/ LookUp(t)
           \/ WriteClaims(t) /\ req[t].op = "create"
           \/ /\ idem' = idem /\ (Storing(t)' => Storing(t))
              /\ resp'[t].code \notin {"created", "replayed", "conflict"}
<1> DEFINE Quiet == /\ Storing(t)' => Storing(t)
                    /\ resp'[t].code \notin {"created", "replayed", "conflict"}
<1>1. ASSUME NEW l, Go(t, l), l \notin {"store", "write_codes", "write_claims"} \/ Storing(t)
      PROVE  pc[t] # "done" => Quiet
  BY <1>1, OutcomesAssumption DEF Go, Typed, ThreadTypes, ThreadOK, NoAnswer, Outcomes, Storing
<1>2. ASSUME NEW code, NEW id, Answer(t, code, id),
             code \notin {"created", "replayed", "conflict"}
      PROVE  Quiet
  BY <1>2 DEF Answer, Typed, ThreadTypes, Storing
<1>3. Moves(t)
  BY StepKeeps DEF Keeps
<1>4. pc[t] # "done"
  BY <1>3 DEF Moves
<1>5. ASSUME CartStep(t), ~LookUp(t), ~(WriteClaims(t) /\ req[t].op = "create")
      PROVE  Quiet /\ idem' = idem
  <2>1. UpdateCart(t) => Quiet /\ idem' = idem
    <3>1. ASSUME UpdateCart(t), Replace(t) PROVE Quiet
      <4>1. pc[t] = "update" /\ Go(t, "write_codes")
        BY <3>1 DEF UpdateCart, Replace, At
      <4>2. req'[t].op = "update" /\ resp' = resp /\ resp[t] = NoAnswer
        BY <4>1, WritingOK DEF Go
      <4> QED BY <4>2, OutcomesAssumption DEF Storing, NoAnswer, Outcomes
    <3> HIDE DEF Quiet
    <3> QED BY <1>2, <3>1 DEF UpdateCart
  <2>2. StoreCart(t) \/ WriteCodes(t) => Quiet /\ idem' = idem
    <3>1. StoreCart(t) => Storing(t) /\ Go(t, "write_codes")
      BY WritingOK DEF StoreCart, Replace, Storing, At
    <3>2. WriteCodes(t) => Go(t, "write_claims") /\ (Storing(t) \/ ~Storing(t)')
      BY WritingOK DEF WriteCodes, Go, Storing, At
    <3>3. ASSUME WriteCodes(t), ~Storing(t) PROVE Quiet
      <4>1. resp' = resp /\ resp[t] = NoAnswer /\ ~Storing(t)'
        BY <3>2, <3>3, WritingOK DEF WriteCodes, Go, At
      <4> QED BY <4>1, OutcomesAssumption DEF NoAnswer, Outcomes
    <3> HIDE DEF Quiet
    <3> QED BY <1>1, <1>4, <3>1, <3>2, <3>3 DEF StoreCart, WriteCodes
  <2> HIDE DEF Quiet
  <2>3. CancelCart(t) \/ GetCart(t) => Quiet /\ idem' = idem
    BY <1>2 DEF CancelCart, GetCart
  <2>4. ReadLines(t) \/ FindPrior(t) \/ ReadCodes(t) \/ ReadClaims(t) => Quiet /\ idem' = idem
    BY <1>1, <1>2, <1>4 DEF ReadLines, FindPrior, ReadCodes, ReadClaims
  <2>5. RefuseConversion(t) \/ Convert(t) => Quiet /\ idem' = idem
    BY <1>2 DEF RefuseConversion, Convert
  <2>6. WriteClaims(t) => Quiet /\ idem' = idem
    BY <1>2, <1>5 DEF WriteClaims, KeyStored
  <2> QED BY <1>5, <2>1, <2>2, <2>3, <2>4, <2>5, <2>6 DEF CartStep
<1> HIDE DEF Quiet
<1>6. ASSUME OrderStep(t) PROVE Quiet
  <2>1. Announce(t) => Quiet
    BY <1>1, <1>4 DEF Announce
  <2>2. Check(t) => Quiet
    <3>1. Go(t, IF req[t].op = "fulfill" THEN "log_event"
                ELSE IF version = "04-08" THEN "reduce" ELSE "append") => Quiet
      BY <1>1, <1>4
    <3> QED BY <1>2, <3>1 DEF Check
  <2>3. Reduce(t) \/ LogAdjustment(t) \/ AppendAdjustment(t) => Quiet
    BY <1>1, <1>4, <2>1 DEF Reduce, LogAdjustment, AppendAdjustment
  <2>4. LogEvent(t) \/ CountFulfilled(t) \/ GetOrder(t) \/ Respond(t) => Quiet
    BY <1>1, <1>2, <1>4 DEF LogEvent, CountFulfilled, GetOrder, Respond
  <2>5. Serialize(t) \/ Attempt(t) => Quiet
    BY <1>1, <1>4 DEF Serialize, Attempt
  <2> QED BY <1>6, <2>2, <2>3, <2>4, <2>5 DEF OrderStep
<1>7. TestStatus(t) \/ Place(t) \/ Reopen(t) \/ Abandon(t) => Quiet /\ idem' = idem
  <2>1. Announce(t) => Quiet
    BY <1>1, <1>4 DEF Announce
  <2>2. TestStatus(t) => Quiet
    BY <1>1, <1>2, <1>4 DEF TestStatus
  <2> QED BY <1>2, <2>1, <2>2 DEF TestStatus, Place, Reopen, Abandon, cartState
<1> QED BY <1>5, <1>6, <1>7 DEF Step, cartState, Quiet

\* A cart that was created stays one, and no other step creates one.
LEMMA CreatedStays ==
    ASSUME Typed, NEW t \in Threads, Moves(t)
    PROVE  \A key \in Keys, u \in Threads :
               /\ u # t => (Created(u, key)' <=> Created(u, key))
               /\ ~Created(t, key)
<1>1. resp[t].code \notin Outcomes
  BY OutcomesAssumption DEF Typed, ThreadOK, Moves, NoAnswer
<1> QED BY <1>1 DEF Created, Moves, Outcomes

LEMMA QuietKeepsKeys ==
    ASSUME Typed, KeyInv, NEW t \in Threads, Moves(t), idem' = idem, Storing(t)' => Storing(t),
           resp'[t].code \notin {"created", "replayed", "conflict"}
    PROVE  KeyInv'
<1>1. HeardOK' /\ req' = req /\ heard' = heard
  BY StepHears DEF KeyInv
<1>2. \A key \in Keys, u \in Threads : Created(u, key)' <=> Created(u, key)
  BY CreatedStays DEF Created
<1>3. \A u \in Threads : heard[u] \subseteq Threads
  BY DEF Typed, ThreadTypes
<1>4. KeysOK'
  <2>1. \A key \in Keys : idem[key] # None => idem[key].id \in Threads
    BY DEF Typed, CartTypes, KeyRecord
  <2>2. \A u \in Threads : Storing(u)' => Storing(u)
    BY DEF Storing, Moves
  <2> QED BY <1>1, <1>2, <1>3, <2>1, <2>2 DEF KeyInv, KeysOK
<1>5. ASSUME NEW u \in Threads, NEW key \in Keys PROVE Once(u, key)'
  <2>1. \/ resp'[u] = resp[u]
        \/ resp'[u].code \notin {"created", "replayed", "conflict"}
    BY DEF Moves
  <2>2. Once(u, key)
    BY DEF KeyInv
  <2> QED BY <1>1, <1>2, <1>3, <2>1, <2>2 DEF Once, Created
<1> QED BY <1>1, <1>4, <1>5 DEF KeyInv

LEMMA CreateFields ==
    ASSUME Typed, NEW t \in Threads, pc[t] \in Creating \/ Storing(t)
    PROVE  /\ req[t].body \in Bodies /\ req[t].key \in Keys \cup {None}
           /\ req[t].key # None => idem[req[t].key] \in KeyRecord \cup {None}
<1>1. req[t].body \in Bodies /\ req[t].key \in Keys \cup {None}
  BY RequestFields DEF Typed, ThreadOK, Creating, Storing
<1> QED BY <1>1 DEF Typed, CartTypes

LEMMA LookUpKeepsKeys ==
    ASSUME Typed, KeyInv, NEW t \in Threads, Moves(t), LookUp(t) PROVE KeyInv'
<1>1. HeardOK' /\ req' = req /\ heard' = heard /\ idem' = idem
  BY StepHears DEF KeyInv, LookUp
<1>2. pc[t] = "create" /\ req[t].key \in Keys \cup {None}
  BY CreateFields DEF LookUp, At, Creating
<1>3. \A u \in Threads : heard[u] \subseteq Threads
  BY DEF Typed, ThreadTypes
<1>4. resp'[t].code # "created"
  BY OutcomesAssumption DEF LookUp, Go, Answer, Typed, ThreadTypes, ThreadOK, NoAnswer, At, Outcomes
<1>5. \A key \in Keys, u \in Threads : Created(u, key)' <=> Created(u, key)
  BY <1>4, CreatedStays DEF Created
<1>6. None \notin Keys
  BY CartsAssumption
<1>7. Storing(t)' => Record(t) = None
  BY DEF LookUp, Storing, Answer, Typed, ThreadTypes
<1>8. KeysOK'
  <2>1. \A key \in Keys : idem[key] # None => idem[key].id \in Threads
    BY DEF Typed, CartTypes, KeyRecord
  <2>2. \A u \in Threads \ {t} : Storing(u)' <=> Storing(u)
    BY DEF Storing, Moves
  <2>3. ASSUME NEW key \in Keys, Storing(t)', req[t].key = key
        PROVE  \A u \in heard[t] : ~Created(u, key)
    BY <1>3, <1>6, <1>7, <2>3 DEF KeyInv, KeysOK, Record
  <2> QED BY <1>1, <1>3, <1>5, <2>1, <2>2, <2>3 DEF KeyInv, KeysOK
<1>9. ASSUME NEW key \in Keys, req[t].key = key PROVE Once(t, key)'
  <2>1. ~Created(t, key)
    BY CreatedStays
  <2>2. idem[key] # None =>
          /\ idem[key].id \in Threads \ {t} /\ Created(idem[key].id, key)
          /\ req[idem[key].id].body = idem[key].body
    BY <2>1 DEF KeyInv, KeysOK, Typed, CartTypes, KeyRecord
  <2>3. Record(t) = idem[key]
    BY <1>6, <1>9 DEF Record
  <2>4. /\ resp'[t].code = "replayed" => /\ idem[key] # None /\ idem[key].body = req[t].body
                                         /\ resp'[t].id = idem[key].id
        /\ resp'[t].code = "conflict" => idem[key] # None /\ idem[key].body # req[t].body
    BY <2>3, OutcomesAssumption DEF LookUp, Go, Answer, Typed, ThreadTypes, ThreadOK, NoAnswer,
       At, Outcomes
  <2> QED BY <1>1, <1>3, <1>4, <1>5, <2>2, <2>4 DEF Once, Created
<1>10. ASSUME NEW u \in Threads, NEW key \in Keys PROVE Once(u, key)'
  <2>1. CASE u = t /\ req[t].key = key
    BY <2>1, <1>9
  <2>2. CASE u = t /\ req[t].key # key
    BY <2>2, <1>1 DEF Once, Created
  <2>3. CASE u # t
    <3>1. Once(u, key) /\ resp'[u] = resp[u]
      BY <2>3 DEF KeyInv, Moves
    <3> QED BY <1>1, <1>3, <1>5, <3>1 DEF Once
  <2> QED BY <2>1, <2>2, <2>3
<1> QED BY <1>1, <1>8, <1>10 DEF KeyInv

LEMMA ClaimsKeepKeys ==
    ASSUME Typed, KeyInv, NEW t \in Threads, Moves(t), WriteClaims(t),
           req[t].op = "create"
    PROVE  KeyInv'
<1>1. /\ HeardOK' /\ req' = req /\ heard' = heard /\ Storing(t) /\ pc'[t] = "done"
      /\ \A u \in Threads : t \notin heard[u]
  BY StepHears DEF KeyInv, WriteClaims, At, Storing, Answer, Typed, ThreadTypes
<1>2. req[t].body \in Bodies /\ req[t].key \in Keys \cup {None} /\ None \notin Keys
  BY <1>1, CreateFields, CartsAssumption
<1>3. \A u \in Threads : heard[u] \subseteq Threads
  BY DEF Typed, ThreadTypes
<1>4. resp'[t].code = "created"
  BY DEF WriteClaims, Answer, Typed, ThreadTypes
<1>5. \A key \in Keys, u \in Threads :
          Created(u, key)' <=> Created(u, key) \/ (u = t /\ req[t].key = key)
  BY <1>1, <1>4, CreatedStays DEF Created
<1>6. \A key \in Keys :
          idem'[key] = IF req[t].key = key THEN [body |-> req[t].body, id |-> t] ELSE idem[key]
  BY <1>2 DEF WriteClaims, KeyStored, Typed, CartTypes
<1>7. [body |-> req[t].body, id |-> t] # None
  BY <1>2, RecordsAssumption DEF KeyRecord
<1>8. ASSUME NEW key \in Keys, req[t].key = key PROVE \A u \in heard[t] : ~Created(u, key)
  BY <1>1, <1>8 DEF KeyInv, KeysOK
<1>9. KeysOK'
  <2>1. \A key \in Keys : idem[key] # None => idem[key].id \in Threads
    BY DEF Typed, CartTypes, KeyRecord
  <2>2. \A u \in Threads : Storing(u)' => Storing(u) /\ u # t
    BY <1>1 DEF Storing, Moves
  <2>3. ASSUME NEW key \in Keys
        PROVE  (idem[key] # None =>
                   Created(idem[key].id, key) /\ req[idem[key].id].body = idem[key].body)'
    <3>1. CASE req[t].key = key
      <4>1. idem'[key].id = t /\ idem'[key].body = req[t].body
        BY <1>6, <3>1
      <4> QED BY <1>1, <1>4, <3>1, <4>1 DEF Created
    <3>2. CASE req[t].key # key
      <4>1. idem'[key] = idem[key]
        BY <1>6, <3>2
      <4> QED BY <1>1, <1>5, <2>1, <4>1 DEF KeyInv, KeysOK, Created
    <3> QED BY <3>1, <3>2
  <2>4. ASSUME NEW key \in Keys, NEW u \in Threads
        PROVE  Created(u, key)' => idem'[key] # None
    BY <1>5, <1>6, <1>7 DEF KeyInv, KeysOK
  <2>5. ASSUME NEW key \in Keys, NEW u \in Threads, Storing(u)', req[u].key = key,
               NEW v \in heard[u]
        PROVE  ~Created(v, key)'
    BY <1>1, <1>3, <1>5, <2>2, <2>5 DEF KeyInv, KeysOK
  <2> QED BY <1>1, <2>3, <2>4, <2>5 DEF KeysOK
<1>10. ASSUME NEW u \in Threads, NEW key \in Keys PROVE Once(u, key)'
  <2>1. CASE u = t
    BY <2>1, <1>1, <1>3, <1>4, <1>5, <1>8 DEF Once, Created
  <2>2. CASE u # t
    <3>1. Once(u, key) /\ resp'[u] = resp[u]
      BY <2>2 DEF KeyInv, Moves
    <3>2. \A v \in heard[u] : Created(v, key)' => Created(v, key)
      BY <1>1, <1>3, <1>5
    <3>3. \A v \in Threads : Created(v, key) => Created(v, key)'
      BY <1>5
    <3>4. Created(u, key)' => Created(u, key)
      BY <1>5, <2>2
    <3> QED BY <1>1, <3>1, <3>2, <3>3, <3>4 DEF Once
  <2> QED BY <2>1, <2>2
<1> QED BY <1>1, <1>9, <1>10 DEF KeyInv

LEMMA ArrivalKeepsKeys ==
    ASSUME Typed, KeyInv, NEW t \in Threads, Begins(t) PROVE KeyInv'
<1>1. /\ HeardOK' /\ idem' = idem /\ resp' = resp
      /\ \A u \in Threads \ {t} : pc'[u] = pc[u] /\ req'[u] = req[u] /\ heard'[u] = heard[u]
      /\ \A u \in Threads : t \notin heard'[u] /\ heard'[u] \subseteq Threads
  BY ArrivalHears DEF KeyInv, Begins, cartState, Answered, Typed, ThreadTypes
<1>2. resp[t].code \notin Outcomes
  BY OutcomesAssumption DEF Begins, Typed, ThreadOK, NoAnswer
<1>3. \A key \in Keys, u \in Threads : (Created(u, key)' <=> Created(u, key)) /\ ~Created(t, key)
  BY <1>1, <1>2 DEF Created, Outcomes
<1>4. ~Storing(t)'
  BY RequestFields DEF Begins, Storing
<1>5. KeysOK'
  <2>1. \A key \in Keys : idem[key] # None => idem[key].id \in Threads
    BY DEF Typed, CartTypes, KeyRecord
  <2>2. \A u \in Threads : Storing(u)' => Storing(u) /\ u # t
    BY <1>1, <1>4 DEF Storing
  <2>3. ASSUME NEW key \in Keys, idem[key] # None
        PROVE  Created(idem[key].id, key) /\ req'[idem[key].id].body = idem[key].body
    BY <1>1, <1>3, <2>1, <2>3 DEF KeyInv, KeysOK
  <2> QED BY <1>1, <1>3, <2>1, <2>2, <2>3 DEF KeyInv, KeysOK
<1>6. ASSUME NEW u \in Threads, NEW key \in Keys PROVE Once(u, key)'
  <2>1. CASE u = t
    BY <2>1, <1>1, <1>2, <1>3 DEF Once, Outcomes
  <2>2. CASE u # t
    <3>1. Once(u, key) /\ resp'[u] = resp[u] /\ req'[u] = req[u] /\ heard'[u] = heard[u]
      BY <2>2, <1>1 DEF KeyInv
    <3>2. \A v \in Threads : Created(v, key) => req'[v] = req[v]
      BY <1>1, <1>3
    <3> QED BY <1>1, <1>3, <3>1, <3>2 DEF Once
  <2> QED BY <2>1, <2>2
<1> QED BY <1>1, <1>5, <1>6 DEF KeyInv

\* What changes neither a thread nor a table.
Bystander == UNCHANGED <<cartState, tables, pc, req, local, resp, heard>>

\* Keys of creates: one cart per key for those who wait for answers, and replays
\* and conflicts that are what they say.
THEOREM KeyedCreates == Spec => []KeysAnswerOnce
<1>1. Init => KeyInv
  <2> SUFFICES ASSUME Init PROVE KeyInv
    OBVIOUS
  <2>1. \A t \in Threads : resp[t].code \notin Outcomes /\ ~Storing(t)
    BY OutcomesAssumption DEF Init, ThreadsInit, NoAnswer, Storing
  <2>2. \A key \in Keys : idem[key] = None
    BY DEF Init, CartsInit
  <2> QED BY <2>1, <2>2, InitHears DEF KeyInv, KeysOK, Once, Created, Outcomes
<1>2. Typed /\ KeyInv /\ [Next]_vars => KeyInv'
  <2> SUFFICES ASSUME Typed, KeyInv, [Next]_vars PROVE KeyInv'
    OBVIOUS
  <2>1. ASSUME NEW t \in Threads, Arrive(t) PROVE KeyInv'
    BY <2>1, ArriveKeeps, ArrivalKeepsKeys
  <2>2. ASSUME NEW t \in Threads, Step(t) PROVE KeyInv'
    BY <2>2, StepKeeps, KeySteps, LookUpKeepsKeys, ClaimsKeepKeys, QuietKeepsKeys DEF Keeps
  <2>3. CASE Bystander
    BY <2>3 DEF Bystander, KeyInv, HeardOK, KeysOK, Once, Created, Storing, Answered, At, cartState
  <2> QED BY <2>1, <2>2, <2>3, NextCases DEF Bystander, Deliver, Retry, vars
<1>3. KeyInv => KeysAnswerOnce
  <2> SUFFICES ASSUME KeyInv, NEW key \in Keys, NEW t \in Threads
               PROVE  LET Others == {u \in Threads \ {t} : Created(u, key)} IN
                      /\ Created(t, key) => Others \cap heard[t] = {}
                      /\ resp[t].code = "replayed" /\ req[t].key = key =>
                           resp[t].id \in Others /\ req[resp[t].id].body = req[t].body
                      /\ resp[t].code = "conflict" /\ req[t].key = key =>
                           \E u \in Others : req[u].body # req[t].body
    BY DEF KeysAnswerOnce
  <2>1. Once(t, key)
    BY DEF KeyInv
  <2> QED BY <2>1 DEF Once
<1> QED BY <1>1, <1>2, <1>3, SalesTypes, PTL DEF Spec

-----------------------------------------------------------------------------
(* Conversions: their checkouts, and the one that is reused *)

\* Checkouts stay as they were made, and at most one's status changes; a status
\* is no longer "open" only by a request that closes it.
OnlyStatus(t) ==
    /\ link' = link
    /\ \A k \in Checkouts :
         /\ checkouts'[k] = None <=> checkouts[k] = None
         /\ checkouts'[k].cart = checkouts[k].cart
         /\ checkouts'[k].lines = checkouts[k].lines
         /\ checkouts'[k].codes = checkouts[k].codes
         /\ checkouts'[k].claims = checkouts[k].claims
         /\ checkouts[k] # None /\ checkouts'[k].status # "open" =>
              checkouts[k].status # "open" \/ t \in Closers(k)'

Past == {"codes", "claims", "execute"}

\* A conversion comes to its places by reading.
LEMMA ReadingSteps ==
    ASSUME Typed, NEW t \in Threads, Step(t), pc'[t] \in Past \cup {"prior"}
    PROVE  ReadLines(t) \/ FindPrior(t) \/ ReadCodes(t) \/ ReadClaims(t)
<1> DEFINE Reading == Past \cup {"prior"}
           Elsewhere == pc'[t] \notin Reading
<1>1. ASSUME NEW l, Go(t, l), l \notin Reading PROVE Elsewhere
  BY <1>1 DEF Go, Typed, ThreadTypes
<1>2. ASSUME NEW code, NEW id, Answer(t, code, id) PROVE Elsewhere
  BY <1>2 DEF Answer, Typed, ThreadTypes, Past
<1>3. Announce(t) => Elsewhere
  BY <1>1 DEF Announce, Past
<1> HIDE DEF Elsewhere
<1>4. /\ LookUp(t) \/ StoreCart(t) \/ UpdateCart(t) \/ CancelCart(t) \/ GetCart(t) => Elsewhere
      /\ WriteCodes(t) \/ WriteClaims(t) => Elsewhere
  BY <1>1, <1>2 DEF LookUp, StoreCart, UpdateCart, Replace, WriteCodes, WriteClaims,
     CancelCart, GetCart, Past
<1>5. RefuseConversion(t) \/ Convert(t) => Elsewhere
  BY <1>2 DEF RefuseConversion, Convert
<1>6. OrderStep(t) => Elsewhere
  <2>1. Check(t) => Elsewhere
    <3>1. Go(t, IF req[t].op = "fulfill" THEN "log_event"
                ELSE IF version = "04-08" THEN "reduce" ELSE "append") => Elsewhere
      BY <1>1 DEF Past
    <3> QED BY <1>2, <3>1 DEF Check
  <2>2. Reduce(t) \/ LogAdjustment(t) \/ AppendAdjustment(t) => Elsewhere
    BY <1>1, <1>3 DEF Reduce, LogAdjustment, AppendAdjustment, Past
  <2>3. LogEvent(t) \/ CountFulfilled(t) \/ GetOrder(t) \/ Respond(t) => Elsewhere
    BY <1>1, <1>2 DEF LogEvent, CountFulfilled, GetOrder, Respond, Past
  <2>4. Serialize(t) \/ Attempt(t) => Elsewhere
    BY <1>1 DEF Serialize, Attempt, Past
  <2> QED BY <2>1, <2>2, <2>3, <2>4 DEF OrderStep
<1>7. TestStatus(t) \/ Place(t) \/ Reopen(t) \/ Abandon(t) => Elsewhere
  BY <1>1, <1>2, <1>3 DEF TestStatus, Place, Reopen, Abandon, Past
<1> QED BY <1>4, <1>5, <1>6, <1>7 DEF Step, CartStep, Elsewhere

\* What steps there are for checkouts.
LEMMA ConversionSteps ==
    ASSUME Typed, NEW t \in Threads, Step(t)
    PROVE  \/ FindPrior(t)
           \/ Convert(t) /\ UNCHANGED tables
           \/ OnlyStatus(t) /\ (pc'[t] \in Past => pc[t] \in {"codes", "claims"})
<1> DEFINE Late == pc'[t] \in Past => FindPrior(t) \/ pc[t] \in {"codes", "claims"}
<1>1. Late
  <2>1. ReadLines(t) => pc'[t] \notin Past
    BY DEF ReadLines, Answer, Go, Typed, ThreadTypes, Past
  <2> QED BY <2>1, ReadingSteps DEF ReadCodes, ReadClaims, At
<1>2. UNCHANGED sessions => OnlyStatus(t)
  BY DEF OnlyStatus, sessions
<1>3. ASSUME NEW k \in Checkouts, checkouts[k] \in Session, NEW status \in Statuses,
             SetStatus(k, status), UNCHANGED <<carts, idem, link>>,
             status # "open" => t \in Closers(k)'
      PROVE  OnlyStatus(t)
  <2>1. /\ checkouts' = [checkouts EXCEPT ![k] = With(checkouts[k], status)]
        /\ With(checkouts[k], status) # None /\ checkouts[k] # None
    BY <1>3, StatusTypes, RecordsAssumption
  <2>2. /\ With(checkouts[k], status).cart = checkouts[k].cart
        /\ With(checkouts[k], status).lines = checkouts[k].lines
        /\ With(checkouts[k], status).codes = checkouts[k].codes
        /\ With(checkouts[k], status).claims = checkouts[k].claims
        /\ With(checkouts[k], status).status = status
    BY <1>3 DEF With, Session
  <2> QED BY <1>3, <2>1, <2>2 DEF OnlyStatus, Typed, CartTypes
<1>4. CartStep(t) => Convert(t) \/ UNCHANGED sessions
  BY DEF CartStep, LookUp, StoreCart, UpdateCart, WriteCodes, WriteClaims, CancelCart, GetCart,
     ReadLines, FindPrior, ReadCodes, ReadClaims, RefuseConversion
<1>5. UNCHANGED cartState => UNCHANGED sessions
  BY DEF cartState
<1>6. Place(t) => OnlyStatus(t)
  <2> SUFFICES ASSUME Place(t) PROVE OnlyStatus(t)
    OBVIOUS
  <2>1. PICK k \in Checkouts :
           /\ req[t].checkout = k /\ checkouts[k] \in Session /\ SetStatus(k, "completed")
           /\ UNCHANGED <<carts, idem, link>> /\ req[t].op = "complete" /\ req[t] \in Request
    BY CheckoutFields DEF Place, At
  <2>2. req' = req /\ orders'[t] # None /\ pc'[t] # "idle"
    <3>1. req' = req /\ pc'[t] # "idle"
      BY DEF Place, Announce, Go, Typed, ThreadTypes
    <3>2. orders'[t] = NewOrder
      BY DEF Place, Typed, OrderTypes, Orders
    <3> QED BY <3>1, <3>2, NewOrderTypes
  <2>3. t \in {v \in Threads :
                  /\ pc'[v] # "idle" /\ req'[v].op \in {"complete", "abandon"}
                  /\ req'[v].checkout = k
                  /\ orders'[v] # None \/ resp'[v].code = "ok"}
    BY <2>1, <2>2
  <2>4. t \in Closers(k)'
    BY <2>3 DEF Closers
  <2> QED BY <1>3, <2>1, <2>4 DEF Statuses
<1>7. Abandon(t) => OnlyStatus(t)
  <2> SUFFICES ASSUME Abandon(t) PROVE OnlyStatus(t)
    OBVIOUS
  <2>1. PICK k \in Checkouts :
           /\ req[t].checkout = k /\ checkouts[k] \in Session /\ SetStatus(k, "canceled")
           /\ UNCHANGED <<carts, idem, link>> /\ req[t].op = "abandon" /\ req[t] \in Request
    BY CheckoutFields DEF Abandon, At
  <2>2. req' = req /\ resp'[t].code = "ok" /\ pc'[t] # "idle"
    BY DEF Abandon, Answer, Typed, ThreadTypes
  <2>3. t \in {v \in Threads :
                  /\ pc'[v] # "idle" /\ req'[v].op \in {"complete", "abandon"}
                  /\ req'[v].checkout = k
                  /\ orders'[v] # None \/ resp'[v].code = "ok"}
    BY <2>1, <2>2
  <2>4. t \in Closers(k)'
    BY <2>3 DEF Closers
  <2> QED BY <1>3, <2>1, <2>4 DEF Statuses
<1>8. Reopen(t) => OnlyStatus(t)
  BY <1>3, CheckoutFields DEF Reopen, At, Statuses
<1> QED BY <1>1, <1>2, <1>4, <1>5, <1>6, <1>7, <1>8 DEF Step, TestStatus

Of(k, c) == Made(k) /\ checkouts[k].cart = c

\* A checkout of the cart, not u's own, has been closed by a request that did not
\* wait for u.
Replaced(u, c) ==
    \E x \in Checkouts \ {u} : Of(x, c) /\ \E v \in Closers(x) : u \notin heard[v]

\* A checkout is made of a cart by a thread that has answered since, and its cart
\* has a link to one of its checkouts.
LinksOK ==
    /\ \A t \in Threads : Made(t) => At(t, "done") /\ checkouts[t].cart \in Carts
    /\ \A k \in Checkouts :
         Made(k) /\ checkouts[k].cart # None =>
           checkouts[k].cart \in Carts /\ link[checkouts[k].cart] # None
    /\ \A c \in Carts : link[c] # None => Of(link[c], c)

\* What is not open has been closed by a request.
ClosedOK ==
    \A k \in Checkouts :
        Made(k) /\ checkouts[k].status # "open" => \E v \in Threads : v \in Closers(k)

\* Whoever found no open checkout of its cart to reuse, though it had heard of
\* one, found one that has been closed.
Excused(u) ==
    \A k \in heard[u] \cup CheckoutSeeds :
        /\ pc[u] \in Past /\ Of(k, Cart(u)) => Replaced(u, Cart(u))
        /\ Made(u) /\ Of(k, checkouts[u].cart) => Replaced(u, checkouts[u].cart)

ReuseInv == HeardOK /\ LinksOK /\ ClosedOK /\ \A u \in Threads : Excused(u)

\* Who has closed a checkout has done so for good, and was not told of whoever
\* has not answered by then.
LEMMA ClosersStay ==
    ASSUME Typed, NEW t \in Threads, Moves(t), RowsStay, NEW k, NEW v \in Closers(k)
    PROVE  v \in Closers(k)'
<1>1. v \in Threads /\ v \in Orders
  BY DEF Closers, Orders
<1>2. resp[v].code = "ok" => v # t
  BY <1>1, OutcomesAssumption DEF Closers, Moves, Typed, ThreadOK, NoAnswer, Outcomes
<1>3. pc'[v] # "idle"
  BY <1>1 DEF Moves, Closers
<1>4. v \in {w \in Threads :
              /\ pc'[w] # "idle" /\ req'[w].op \in {"complete", "abandon"}
              /\ req'[w].checkout = k
              /\ orders'[w] # None \/ resp'[w].code = "ok"}
  BY <1>1, <1>2, <1>3 DEF Closers, Moves, RowsStay
<1> QED BY <1>4 DEF Closers

LEMMA ReplacedStays ==
    ASSUME Typed, NEW t \in Threads, Moves(t), RowsStay, NEW u, NEW c, Replaced(u, c),
           \A k \in Checkouts : Of(k, c) => Of(k, c)'
    PROVE  Replaced(u, c)'
<1>1. PICK x \in Checkouts \ {u} : Of(x, c) /\ \E v \in Closers(x) : u \notin heard[v]
  BY DEF Replaced
<1>2. PICK v \in Closers(x) : u \notin heard[v]
  BY <1>1
<1>3. v \in Closers(x)' /\ heard' = heard /\ Of(x, c)'
  BY <1>1, <1>2, ClosersStay DEF Moves
<1> QED BY <1>1, <1>2, <1>3 DEF Replaced

\* An excuse, cart by cart.
LEMMA ExcusedStays ==
    ASSUME Typed, ReuseInv, NEW t \in Threads, Moves(t), RowsStay, NEW u \in Threads,
           pc'[u] \in Past => pc[u] \in Past,
           \A k \in Checkouts : \A c : Of(k, c) => Of(k, c)',
           \A k \in heard[u] \cup CheckoutSeeds : \A c : Of(k, c)' => Of(k, c),
           Made(u)' => Made(u) /\ checkouts'[u].cart = checkouts[u].cart
    PROVE  Excused(u)'
<1>1. heard' = heard /\ req' = req /\ Excused(u)
  BY DEF Moves, ReuseInv
<1>2. ASSUME NEW k \in heard[u] \cup CheckoutSeeds, pc'[u] \in Past, Of(k, Cart(u))'
      PROVE  Replaced(u, Cart(u))'
  <2>1. PICK c : c = Cart(u)
    OBVIOUS
  <2>2. Cart(u)' = c
    BY <1>1, <2>1 DEF Cart
  <2>3. Of(k, c)'
    BY <1>2, <2>2 DEF Of
  <2>4. Replaced(u, c)
    BY <1>1, <1>2, <2>1, <2>3 DEF Excused
  <2>5. Replaced(u, c)'
    BY <2>4, ReplacedStays
  <2> QED BY <2>2, <2>5 DEF Replaced, Of
<1>3. ASSUME NEW k \in heard[u] \cup CheckoutSeeds, Made(u)', Of(k, checkouts[u].cart)'
      PROVE  Replaced(u, checkouts[u].cart)'
  <2>1. PICK c : c = checkouts[u].cart
    OBVIOUS
  <2>2. checkouts'[u].cart = c /\ Made(u)
    BY <1>3, <2>1
  <2>3. Of(k, c)'
    BY <1>3, <2>2 DEF Of
  <2>4. Replaced(u, c)
    BY <1>1, <2>1, <2>2, <2>3 DEF Excused
  <2>5. Replaced(u, c)'
    BY <2>4, ReplacedStays
  <2> QED BY <2>2, <2>5 DEF Replaced, Of
<1> QED BY <1>1, <1>2, <1>3 DEF Excused

LEMMA StatusKeepsReuse ==
    ASSUME Typed, ReuseInv, NEW t \in Threads, Moves(t), RowsStay, OnlyStatus(t),
           pc'[t] \in Past => pc[t] \in {"codes", "claims"}
    PROVE  ReuseInv'
<1>1. HeardOK' /\ req' = req /\ heard' = heard /\ link' = link
  BY StepHears DEF ReuseInv, OnlyStatus
<1>2. /\ Threads \subseteq Checkouts /\ CheckoutSeeds \subseteq Checkouts
      /\ \A u \in Threads : heard[u] \subseteq Threads
  BY DEF Checkouts, Typed, ThreadTypes
<1>3. \A k \in Checkouts : \A c : (Of(k, c)' <=> Of(k, c)) /\ (Made(k)' <=> Made(k))
  BY DEF Of, Made, OnlyStatus
<1>4. LinksOK'
  <2>1. \A u \in Threads : At(u, "done") => At(u, "done")'
    BY DEF At, Moves
  <2>2. ASSUME NEW u \in Threads, Made(u)'
        PROVE  At(u, "done")' /\ checkouts'[u].cart \in Carts
    BY <1>2, <1>3, <2>1, <2>2 DEF ReuseInv, LinksOK, OnlyStatus
  <2>3. ASSUME NEW k \in Checkouts, Made(k)', checkouts'[k].cart # None
        PROVE  checkouts'[k].cart \in Carts /\ link'[checkouts'[k].cart] # None
    <3>1. Made(k) /\ checkouts'[k].cart = checkouts[k].cart
      BY <1>3, <2>3 DEF OnlyStatus
    <3> QED BY <1>1, <2>3, <3>1 DEF ReuseInv, LinksOK
  <2>4. ASSUME NEW c \in Carts, link[c] # None PROVE Of(link[c], c)'
    <3>1. PICK k \in Checkouts : k = link[c]
      BY <2>4 DEF Typed, CartTypes
    <3>2. Of(k, c)
      BY <2>4, <3>1 DEF ReuseInv, LinksOK
    <3>3. Of(k, c)'
      BY <1>3, <3>2
    <3> QED BY <1>1, <3>1, <3>3 DEF Of, Made
  <2> QED BY <1>1, <2>2, <2>3, <2>4 DEF LinksOK, Of, Made
<1>5. ClosedOK'
  <2> SUFFICES ASSUME NEW k \in Checkouts, Made(k)', checkouts'[k].status # "open"
               PROVE  \E v \in Threads : v \in Closers(k)'
    BY DEF ClosedOK
  <2>1. checkouts[k].status # "open" \/ t \in Closers(k)'
    BY <1>3 DEF OnlyStatus, Made
  <2>2. ASSUME checkouts[k].status # "open" PROVE \E v \in Threads : v \in Closers(k)'
    <3>1. PICK v \in Threads : v \in Closers(k)
      BY <1>3, <2>2 DEF ReuseInv, ClosedOK
    <3> QED BY <3>1, ClosersStay
  <2> QED BY <2>1, <2>2
<1>6. ASSUME NEW u \in Threads PROVE Excused(u)'
  <2>1. pc'[u] \in Past => pc[u] \in Past
    BY DEF Moves, Past
  <2>2. Made(u)' => Made(u) /\ checkouts'[u].cart = checkouts[u].cart
    BY <1>2, <1>3 DEF OnlyStatus
  <2>3. \A k \in heard[u] \cup CheckoutSeeds : \A c : Of(k, c)' => Of(k, c)
    BY <1>2, <1>3
  <2> QED BY <1>3, <2>1, <2>2, <2>3, ExcusedStays
<1> QED BY <1>1, <1>4, <1>5, <1>6 DEF ReuseInv

LEMMA FindPriorKeepsReuse ==
    ASSUME Typed, ReuseInv, NEW t \in Threads, Moves(t), RowsStay, FindPrior(t)
    PROVE  ReuseInv'
<1>1. HeardOK' /\ req' = req /\ heard' = heard /\ sessions' = sessions /\ pc[t] = "prior"
  BY StepHears DEF ReuseInv, FindPrior, At
<1>2. link' = link /\ checkouts' = checkouts
  BY <1>1 DEF sessions
<1>3. LinksOK' /\ ClosedOK'
  <2>1. \A u \in Threads : At(u, "done") => At(u, "done")'
    BY DEF At, Moves
  <2>2. LinksOK'
    BY <1>2, <2>1 DEF ReuseInv, LinksOK, Of, Made
  <2>3. ASSUME NEW k \in Checkouts, Made(k), checkouts[k].status # "open"
        PROVE  \E v \in Threads : v \in Closers(k)'
    BY <2>3, ClosersStay DEF ReuseInv, ClosedOK
  <2> QED BY <1>2, <2>2, <2>3 DEF ClosedOK, Made
<1>4. ~Made(t)
  BY <1>1 DEF ReuseInv, LinksOK, At
<1>5. Cart(t) \in Carts /\ heard[t] \subseteq Threads /\ Threads \subseteq Checkouts
  BY <1>1, ConvertingOK DEF Converting, Typed, ThreadTypes, Checkouts
<1>6. \A k \in Checkouts : \A c : Of(k, c)' <=> Of(k, c)
  BY <1>2 DEF Of, Made
<1>7. ASSUME pc'[t] \in Past PROVE ~HasOpen(Cart(t))
  BY <1>7 DEF FindPrior, Answer, Typed, ThreadTypes, Past
<1>8. ASSUME NEW k \in heard[t] \cup CheckoutSeeds, pc'[t] \in Past, Of(k, Cart(t))
      PROVE  Replaced(t, Cart(t))
  <2>1. k \in Checkouts /\ Made(k) /\ checkouts[k].cart = Cart(t) /\ Cart(t) # None
    BY <1>5, <1>8, CartsAssumption DEF Of, Checkouts
  <2>2. link[Cart(t)] # None
    BY <2>1 DEF ReuseInv, LinksOK
  <2>3. PICK x \in Checkouts : x = link[Cart(t)]
    BY <1>5, <2>2 DEF Typed, CartTypes
  <2>4. Of(x, Cart(t)) /\ checkouts[x].status # "open"
    BY <1>5, <1>7, <1>8, <2>2, <2>3 DEF ReuseInv, LinksOK, HasOpen
  <2>5. PICK v \in Threads : v \in Closers(x)
    BY <2>4 DEF ReuseInv, ClosedOK, Of
  <2>6. t \notin heard[v] /\ x # t
    BY <1>1, <1>4, <2>4 DEF ReuseInv, HeardOK, Answered, At, Of
  <2> QED BY <2>4, <2>5, <2>6 DEF Replaced
<1>9. ASSUME NEW u \in Threads PROVE Excused(u)'
  <2>1. CASE u = t
    <3>1. ~Made(t)'
      BY <1>2, <1>4 DEF Made
    <3>2. ASSUME NEW k \in heard[t] \cup CheckoutSeeds, pc'[t] \in Past, Of(k, Cart(t))'
          PROVE  Replaced(t, Cart(t))'
      <4>1. PICK c : c = Cart(t)
        OBVIOUS
      <4>2. Cart(t)' = c
        BY <1>1, <4>1 DEF Cart
      <4>3. Of(k, c)
        BY <1>2, <3>2, <4>2 DEF Of, Made
      <4>4. Replaced(t, c)
        BY <1>8, <3>2, <4>1, <4>3
      <4>5. Replaced(t, c)'
        BY <1>6, <4>4, ReplacedStays
      <4> QED BY <4>2, <4>5 DEF Replaced, Of
    <3> QED BY <2>1, <1>1, <3>1, <3>2 DEF Excused
  <2>2. CASE u # t
    <3>1. pc'[u] = pc[u] /\ (Made(u)' <=> Made(u)) /\ checkouts'[u].cart = checkouts[u].cart
      BY <1>2, <2>2 DEF Moves, Made
    <3>2. \A k \in heard[u] \cup CheckoutSeeds : \A c : Of(k, c)' => Of(k, c)
      BY <1>2 DEF Of, Made
    <3> QED BY <1>6, <3>1, <3>2, ExcusedStays
  <2> QED BY <2>1, <2>2
<1> QED BY <1>1, <1>3, <1>9 DEF ReuseInv

LEMMA ConvertKeepsReuse ==
    ASSUME Typed, ReuseInv, NEW t \in Threads, Moves(t), RowsStay, Convert(t), UNCHANGED tables
    PROVE  ReuseInv'
<1>1. /\ HeardOK' /\ req' = req /\ heard' = heard /\ pc[t] = "execute"
      /\ \A u \in Threads : t \notin heard[u] /\ heard[u] \subseteq Threads
  BY StepHears DEF ReuseInv, Convert, At, Typed, ThreadTypes
<1>2. PICK c \in Carts : c = Cart(t)
  BY ConvertKeeps
<1>3. /\ Converted(t) \in Session /\ Converted(t) # None /\ Cart(t)' = c
      /\ checkouts' = [checkouts EXCEPT ![t] = Converted(t)]
      /\ Converted(t).cart = c /\ Converted(t).status = "open"
  <2>1. Converted(t).cart = c /\ Converted(t).status = "open"
    BY <1>2 DEF Converted, Opened
  <2>2. Cart(t)' = c
    BY <1>1, <1>2 DEF Cart
  <2> QED BY <2>1, <2>2, ConvertKeeps
<1>4. /\ t \in Checkouts /\ Threads \subseteq Checkouts /\ CheckoutSeeds \subseteq Checkouts
      /\ t \notin CheckoutSeeds
  BY CartsAssumption DEF Checkouts
<1>5. /\ checkouts'[t] = Converted(t)
      /\ \A k \in Checkouts \ {t} : checkouts'[k] = checkouts[k]
      /\ link' = [link EXCEPT ![c] = t] /\ pc'[t] = "done"
  BY <1>2, <1>3, <1>4 DEF Convert, Link, Answer, Typed, CartTypes, ThreadTypes
<1>6. ~Made(t)
  BY <1>1 DEF ReuseInv, LinksOK, At
<1>7. /\ Made(t)' /\ \A d : Of(t, d)' <=> d = c
      /\ \A d : \A k \in Checkouts \ {t} : (Of(k, d)' <=> Of(k, d)) /\ (Made(k)' <=> Made(k))
  BY <1>3, <1>5 DEF Of, Made
<1>8. \A k \in Checkouts : \A d : Of(k, d) => Of(k, d)'
  BY <1>6, <1>7 DEF Of
<1>9. None \notin Checkouts /\ \A d \in Carts : link[d] # None => link[d] \in Checkouts
  BY CartsAssumption DEF Typed, CartTypes
<1>10. link'[c] = t /\ \A d \in Carts : d # c => link'[d] = link[d]
  BY <1>5 DEF Typed, CartTypes
<1>11. LinksOK'
  <2>1. \A u \in Threads : At(u, "done") => At(u, "done")'
    BY DEF At, Moves
  <2>2. ASSUME NEW u \in Threads, Made(u)'
        PROVE  At(u, "done")' /\ checkouts'[u].cart \in Carts
    BY <2>1, <2>2, <1>3, <1>4, <1>5, <1>7 DEF ReuseInv, LinksOK, At
  <2>3. ASSUME NEW k \in Checkouts, Made(k)', checkouts'[k].cart # None
        PROVE  checkouts'[k].cart \in Carts /\ link'[checkouts'[k].cart] # None
    <3>1. CASE k = t
      BY <3>1, <1>3, <1>4, <1>5, <1>9, <1>10
    <3>2. CASE k # t
      <4>1. /\ checkouts'[k] = checkouts[k] /\ checkouts[k].cart \in Carts
            /\ link[checkouts[k].cart] # None
        BY <3>2, <2>3, <1>5, <1>7 DEF ReuseInv, LinksOK
      <4> QED BY <4>1, <1>4, <1>9, <1>10
    <3> QED BY <3>1, <3>2
  <2>4. ASSUME NEW d \in Carts, link'[d] # None
        PROVE  checkouts'[link'[d]] # None /\ checkouts'[link'[d]].cart = d
    <3>1. CASE d = c
      BY <3>1, <1>3, <1>5, <1>10
    <3>2. CASE d # c
      <4>1. link'[d] = link[d] /\ link[d] \in Checkouts /\ Of(link[d], d)
        BY <3>2, <2>4, <1>9, <1>10 DEF ReuseInv, LinksOK
      <4>2. link[d] # t
        BY <4>1, <1>6 DEF Of
      <4> QED BY <4>1, <4>2, <1>5 DEF Of, Made
    <3> QED BY <3>1, <3>2
  <2> QED BY <2>2, <2>3, <2>4 DEF LinksOK, Of, Made
<1>12. ClosedOK'
  <2> SUFFICES ASSUME NEW k \in Checkouts, Made(k)', checkouts'[k].status # "open"
               PROVE  \E v \in Threads : v \in Closers(k)'
    BY DEF ClosedOK
  <2>1. k # t /\ Made(k) /\ checkouts[k].status # "open"
    BY <1>3, <1>5, <1>7
  <2>2. PICK v \in Threads : v \in Closers(k)
    BY <2>1 DEF ReuseInv, ClosedOK
  <2> QED BY <2>2, ClosersStay
<1>13. ASSUME NEW u \in Threads PROVE Excused(u)'
  <2>1. \A k \in heard[u] \cup CheckoutSeeds : \A d : Of(k, d)' => Of(k, d)
    BY <1>1, <1>4, <1>7
  <2>2. CASE u = t
    <3>1. pc'[t] \notin Past
      BY <1>5 DEF Past
    <3>2. ASSUME NEW k \in heard[t] \cup CheckoutSeeds, Of(k, checkouts[t].cart)'
          PROVE  Replaced(t, checkouts[t].cart)'
      <4>1. checkouts'[t].cart = c
        BY <1>3, <1>5
      <4>2. Of(k, c)'
        BY <3>2, <4>1 DEF Of
      <4>3. Of(k, c)
        BY <2>1, <2>2, <4>2
      <4>4. Replaced(t, c)
        BY <1>1, <1>2, <4>3 DEF ReuseInv, Excused, Past
      <4>5. Replaced(t, c)'
        BY <1>8, <4>4, ReplacedStays
      <4> QED BY <4>1, <4>5 DEF Replaced, Of
    <3> QED BY <2>2, <1>1, <3>1, <3>2 DEF Excused
  <2>3. CASE u # t
    <3>1. pc'[u] = pc[u] /\ (Made(u)' <=> Made(u)) /\ checkouts'[u].cart = checkouts[u].cart
      BY <1>4, <1>5, <1>7, <2>3 DEF Moves
    <3> QED BY <1>8, <2>1, <3>1, ExcusedStays
  <2> QED BY <2>2, <2>3
<1> QED BY <1>1, <1>11, <1>12, <1>13 DEF ReuseInv

LEMMA ArrivalKeepsReuse ==
    ASSUME Typed, ReuseInv, NEW t \in Threads, Begins(t) PROVE ReuseInv'
<1>1. /\ HeardOK' /\ pc[t] = "idle" /\ sessions' = sessions /\ resp' = resp /\ orders' = orders
      /\ \A u \in Threads \ {t} : pc'[u] = pc[u] /\ req'[u] = req[u] /\ heard'[u] = heard[u]
  BY ArrivalHears DEF ReuseInv, Begins, cartState, tables
<1>2. link' = link /\ checkouts' = checkouts
  BY <1>1 DEF sessions
<1>3. pc'[t] \notin Past /\ pc'[t] # "done"
  BY RequestFields DEF Begins, Past
<1>4. ~Made(t)
  BY <1>1 DEF ReuseInv, LinksOK, At
<1>5. LinksOK'
  BY <1>1, <1>2, <1>4 DEF ReuseInv, LinksOK, Of, Made, At
<1>6. \A k : \A v \in Closers(k) : v \in Closers(k)' /\ heard'[v] = heard[v]
  BY <1>1 DEF Closers
<1>7. ClosedOK'
  <2>1. ASSUME NEW k \in Checkouts, Made(k), checkouts[k].status # "open"
        PROVE  \E v \in Threads : v \in Closers(k)'
    BY <1>6, <2>1 DEF ReuseInv, ClosedOK
  <2> QED BY <1>2, <2>1 DEF ClosedOK, Made
<1>8. \A u, c : Replaced(u, c) => Replaced(u, c)'
  BY <1>2, <1>6 DEF Replaced, Of, Made
<1>9. ASSUME NEW u \in Threads PROVE Excused(u)'
  <2>1. CASE u = t
    BY <2>1, <1>2, <1>3, <1>4 DEF Excused, Made
  <2>2. CASE u # t
    <3>1. /\ Excused(u) /\ pc'[u] = pc[u] /\ Cart(u)' = Cart(u) /\ heard'[u] = heard[u]
      BY <2>2, <1>1 DEF ReuseInv, Cart
    <3>2. ASSUME NEW c, Replaced(u, c) PROVE Replaced(u, c)'
      BY <1>8, <3>2
    <3>3. Replaced(u, Cart(u)) => Replaced(u, Cart(u))'
      <4>1. PICK c : c = Cart(u)
        OBVIOUS
      <4> QED BY <3>1, <3>2, <4>1 DEF Replaced, Of
    <3>4. Replaced(u, checkouts[u].cart) => Replaced(u, checkouts[u].cart)'
      <4>1. PICK c : c = checkouts[u].cart
        OBVIOUS
      <4> QED BY <1>2, <3>2, <4>1 DEF Replaced, Of
    <3> QED BY <1>2, <3>1, <3>3, <3>4 DEF Excused, Of, Made
  <2> QED BY <2>1, <2>2
<1> QED BY <1>1, <1>5, <1>7, <1>9 DEF ReuseInv

LEMMA InitReuse == Init => ReuseInv
<1> SUFFICES ASSUME Init PROVE ReuseInv
  OBVIOUS
<1>1. \A t \in Threads : t \in Checkouts /\ t \notin CheckoutSeeds
  BY CartsAssumption DEF Checkouts
<1>2. \A t \in Threads : ~Made(t) /\ heard[t] = {} /\ pc[t] = "idle"
  BY <1>1 DEF Init, CartsInit, ThreadsInit, Made
<1>3. \A k \in Checkouts \ CheckoutSeeds : ~Made(k)
  BY DEF Init, CartsInit, Made
<1>4. ASSUME NEW k \in CheckoutSeeds
      PROVE  /\ k \in Checkouts /\ checkouts[k].cart = SeedCart[k] /\ checkouts[k].status = "open"
             /\ Made(k)
  <2>1. k \in Checkouts /\ SeedCart[k] \in CartSeeds \cup {None}
    BY <1>4, CartsAssumption DEF Checkouts
  <2>2. checkouts[k] = IF SeedCart[k] = None THEN Opened(None, 0, 0, 0)
                       ELSE Opened(SeedCart[k], 1, 1, 1)
    BY <2>1 DEF Init, CartsInit
  <2> QED BY <2>1, <2>2, OpenedOK DEF Made, Carts
<1>5. ASSUME NEW k \in CheckoutSeeds, SeedCart[k] # None
      PROVE  SeedCart[k] \in CartSeeds /\ SeedLink(SeedCart[k]) = k
  BY <1>5, CartsAssumption DEF SeedLink
<1>6. ASSUME NEW c \in CartSeeds, SeedLink(c) # None
      PROVE  SeedLink(c) \in CheckoutSeeds /\ SeedCart[SeedLink(c)] = c
  BY <1>6 DEF SeedLink
<1>7. /\ CartSeeds \subseteq Carts
      /\ \A c \in Carts : link[c] = IF c \in CartSeeds THEN SeedLink(c) ELSE None
  BY DEF Init, CartsInit, Carts
<1>8. LinksOK
  <2>1. ASSUME NEW k \in Checkouts, Made(k), checkouts[k].cart # None
        PROVE  checkouts[k].cart \in Carts /\ link[checkouts[k].cart] # None
    <3>1. k \in CheckoutSeeds
      BY <1>3, <2>1
    <3>2. checkouts[k].cart \in CartSeeds /\ SeedLink(checkouts[k].cart) = k
      BY <1>4, <1>5, <2>1, <3>1
    <3>3. k # None
      BY CartsAssumption
    <3> QED BY <1>7, <3>2, <3>3
  <2>2. ASSUME NEW c \in Carts, link[c] # None PROVE Of(link[c], c)
    BY <1>4, <1>6, <1>7, <2>2 DEF Of
  <2> QED BY <1>2, <2>1, <2>2 DEF LinksOK
<1>9. ClosedOK
  BY <1>3, <1>4 DEF ClosedOK
<1>10. \A u \in Threads : Excused(u)
  BY <1>2 DEF Excused, Past
<1> QED BY <1>8, <1>9, <1>10, InitHears DEF ReuseInv

\* Who converts a cart of which there was a conversion makes a second checkout
\* only if a checkout of the cart has been closed, by a request that did not wait
\* for the second one.
THEOREM Reuse == Spec => []OpenConversionIsReused
<1>1. Typed /\ ReuseInv /\ [Next]_vars => ReuseInv'
  <2> SUFFICES ASSUME Typed, ReuseInv, [Next]_vars PROVE ReuseInv'
    OBVIOUS
  <2>1. ASSUME NEW t \in Threads, Arrive(t) PROVE ReuseInv'
    BY <2>1, ArriveKeeps, ArrivalKeepsReuse
  <2>2. ASSUME NEW t \in Threads, Step(t) PROVE ReuseInv'
    <3>1. Moves(t) /\ RowsStay
      BY <2>2, StepKeeps DEF Keeps
    <3>2. CASE FindPrior(t)
      BY <3>1, <3>2, FindPriorKeepsReuse
    <3>3. CASE Convert(t) /\ UNCHANGED tables
      BY <3>1, <3>3, ConvertKeepsReuse
    <3>4. CASE OnlyStatus(t) /\ (pc'[t] \in Past => pc[t] \in {"codes", "claims"})
      BY <3>1, <3>4, StatusKeepsReuse
    <3> QED BY <2>2, <3>2, <3>3, <3>4, ConversionSteps
  <2>3. CASE Bystander
    <3>1. /\ pc' = pc /\ req' = req /\ heard' = heard /\ link' = link /\ checkouts' = checkouts
          /\ resp' = resp /\ orders' = orders
      BY <2>3 DEF Bystander, cartState, sessions, tables
    <3> QED BY <3>1 DEF ReuseInv, HeardOK, Answered, At, LinksOK, ClosedOK, Excused, Of,
         Replaced, Made, Cart, Closers
  <2> QED BY <2>1, <2>2, <2>3, NextCases DEF Bystander, Deliver, Retry, vars
<1>2. Typed /\ ReuseInv => OpenConversionIsReused
  <2> SUFFICES ASSUME ReuseInv, NEW k \in Checkouts, NEW u \in Threads \ {k},
                      Made(k), Made(u), SameCart(k, u), k \in heard[u] \cup CheckoutSeeds
               PROVE  \E x \in Checkouts \ {u} :
                          /\ Made(x) /\ SameCart(x, u)
                          /\ \E v \in Closers(x) : u \notin heard[v]
    BY DEF OpenConversionIsReused
  <2>1. Replaced(u, checkouts[u].cart)
    BY DEF ReuseInv, Excused, Of, SameCart
  <2> QED BY <2>1 DEF Replaced, Of, SameCart
<1> QED BY <1>1, <1>2, InitReuse, SalesTypes, PTL DEF Spec

-----------------------------------------------------------------------------
(* Conversions: what they carry forward *)

Writing(t) == pc[t] \in {"write_codes", "write_claims"}

\* The one who writes a cart holds the lock, and its claims come last.
WritersOK ==
    /\ \A t \in Threads : Writing(t) <=> cartLock = t
    /\ \A t \in Threads : pc[t] = "write_claims" => codes[Cart(t)] = lines[Cart(t)]

\* A cart's parts differ by one version while it is written, and not at all else;
\* its versions are as many as its updates and the first.
Dated(c) ==
    /\ claims[c] <= codes[c] /\ codes[c] <= lines[c] /\ lines[c] <= claims[c] + 1
    /\ (\A t \in Threads : Writing(t) => Cart(t) # c) => claims[c] = lines[c]
    /\ Len(versions[c]) = lines[c] /\ IsFiniteSet(Updates(c))
    /\ lines[c] = 0 => c \notin live /\ Updates(c) = {}
    /\ lines[c] # 0 => /\ lines[c] = 1 + Cardinality(Updates(c))
                       /\ c \in Threads => Writing(c) \/ At(c, "done")

Seen(t, c) == Updates(c) \cap heard[t]
Oldest(t, c) == 1 + Cardinality(Seen(t, c))

\* What a conversion has read is not older than what it had heard of, nor newer
\* than the cart is, and its claims are older than its codes by one at most.
Ordered(t) ==
    LET c == Cart(t) IN
    /\ pc[t] \in {"prior", "codes", "claims", "execute"} =>
         /\ lines[c] # 0 /\ Oldest(t, c) <= local[t].lines
         /\ local[t].lines <= codes[c] /\ local[t].lines <= claims[c]
    /\ pc[t] \in {"claims", "execute"} =>
         /\ local[t].lines <= local[t].codes /\ local[t].codes <= lines[c]
         /\ local[t].codes <= claims[c] + 1
    /\ pc[t] = "execute" =>
         /\ local[t].lines <= local[t].claims /\ local[t].claims <= lines[c]
         /\ local[t].codes <= local[t].claims + 1

Overlapped(t, c) == \E u \in Updates(c) : u \notin heard[t] /\ t \notin heard[u]

\* ConversionsCarryTheCart, checkout by checkout.
Carried(t) ==
    LET c == checkouts[t].cart IN
    Made(t) =>
        /\ At(t, "done") /\ c \in Carts
        /\ Oldest(t, c) <= checkouts[t].lines
        /\ checkouts[t].lines <= checkouts[t].codes /\ checkouts[t].lines <= checkouts[t].claims
        /\ checkouts[t].codes <= checkouts[t].claims + 1
        /\ ~Overlapped(t, c) =>
             checkouts[t].codes = Oldest(t, c) /\ checkouts[t].claims = Oldest(t, c)

CartsOK == HeardOK /\ WritersOK /\ \A c \in Carts : Dated(c)
CarryInv == CartsOK /\ \A t \in Threads : Ordered(t) /\ Carried(t)

\* The versions of carts and their updates only grow, and at most by t's.
Grows(t) ==
    \A c \in Carts :
        /\ lines[c] <= lines'[c] /\ codes[c] <= codes'[c] /\ claims[c] <= claims'[c]
        /\ Updates(c) \subseteq Updates(c)' /\ Updates(c)' \subseteq Updates(c) \cup {t}

\* What steps there are for carts.
LEMMA CartSteps ==
    ASSUME Typed, NEW t \in Threads, Step(t)
    PROVE  \/ (UpdateCart(t) \/ StoreCart(t)) /\ Replace(t) /\ cartLock = None
           \/ WriteCodes(t)
           \/ WriteClaims(t)
           \/ /\ UNCHANGED <<versions, lines, codes, claims, cartLock>> /\ live' \subseteq live
              /\ ~Writing(t) /\ ~Writing(t)' /\ (req[t].op = "update" => resp'[t].code # "ok")
<1> DEFINE Calm == ~Writing(t) /\ ~Writing(t)' /\ (req[t].op = "update" => resp'[t].code # "ok")
<1>1. Moves(t) /\ pc[t] \in Places /\ resp[t] = NoAnswer /\ resp[t].code # "ok"
  BY StepKeeps, OutcomesAssumption DEF Keeps, Moves, Typed, ThreadTypes, ThreadOK, NoAnswer,
     Outcomes
<1>2. ASSUME NEW l, Go(t, l), l \notin {"write_codes", "write_claims"}, ~Writing(t) PROVE Calm
  BY <1>1, <1>2 DEF Go, Writing, Typed, ThreadTypes
<1>3. ASSUME NEW code, NEW id, Answer(t, code, id), code # "ok" \/ req[t].op # "update",
             ~Writing(t)
      PROVE  Calm
  BY <1>3 DEF Answer, Writing, Typed, ThreadTypes
<1>4. /\ pc[t] \in Creating => req[t].op = "create"
      /\ pc[t] \in Converting => req[t].op = "convert"
      /\ pc[t] \in {"update", "get_cart", "cancel", "get_order"} => req[t].op = pc[t]
      /\ pc[t] \in Announcing => req[t].op \in {"adjust", "fulfill", "complete"}
      /\ pc[t] \in {"reopen", "close"} => req[t].op # "update"
  BY DEF Typed, ThreadOK
<1> HIDE DEF Calm
<1>5. Announce(t) /\ ~Writing(t) => Calm
  BY <1>2 DEF Announce
<1>6. UpdateCart(t) \/ StoreCart(t) =>
        \/ Replace(t) /\ cartLock = None
        \/ UNCHANGED <<versions, lines, codes, claims, cartLock>> /\ live' \subseteq live /\ Calm
  <2>1. UpdateCart(t) => ~Writing(t)
    BY DEF UpdateCart, At, Writing
  <2> QED BY <1>3, <2>1 DEF UpdateCart, StoreCart
<1>7. LookUp(t) \/ CancelCart(t) \/ GetCart(t) =>
        UNCHANGED <<versions, lines, codes, claims, cartLock>> /\ live' \subseteq live /\ Calm
  <2>1. LookUp(t) \/ CancelCart(t) \/ GetCart(t) => ~Writing(t) /\ req[t].op # "update"
    BY <1>4 DEF LookUp, CancelCart, GetCart, At, Writing, Creating
  <2> QED BY <1>2, <1>3, <2>1 DEF LookUp, CancelCart, GetCart, carts
<1>8. (\/ ReadLines(t) \/ FindPrior(t) \/ ReadCodes(t) \/ ReadClaims(t)
       \/ RefuseConversion(t) \/ Convert(t)) =>
        UNCHANGED <<versions, lines, codes, claims, cartLock>> /\ live' \subseteq live /\ Calm
  <2>1. (\/ ReadLines(t) \/ FindPrior(t) \/ ReadCodes(t) \/ ReadClaims(t)
         \/ RefuseConversion(t) \/ Convert(t)) => ~Writing(t) /\ req[t].op # "update"
    BY <1>4 DEF ReadLines, FindPrior, ReadCodes, ReadClaims, RefuseConversion, Convert, At,
       Writing, Converting
  <2> QED BY <1>2, <1>3, <2>1 DEF ReadLines, FindPrior, ReadCodes, ReadClaims,
       RefuseConversion, Convert, carts
<1>9. OrderStep(t) => Calm
  <2>1. OrderStep(t) => ~Writing(t)
    BY DEF OrderStep, Check, Reduce, LogAdjustment, AppendAdjustment, LogEvent, CountFulfilled,
       GetOrder, Respond, Serialize, Attempt, At, Writing
  <2>2. Check(t) => Calm
    <3>1. Check(t) /\ Go(t, IF req[t].op = "fulfill" THEN "log_event"
                            ELSE IF version = "04-08" THEN "reduce" ELSE "append") => Calm
      BY <1>2, <2>1 DEF OrderStep
    <3> QED BY <1>3, <2>1, <3>1 DEF Check, OrderStep
  <2>3. Reduce(t) \/ LogAdjustment(t) \/ AppendAdjustment(t) => Calm
    BY <1>2, <1>5, <2>1 DEF Reduce, LogAdjustment, AppendAdjustment, OrderStep
  <2>4. LogEvent(t) \/ CountFulfilled(t) \/ Serialize(t) \/ Attempt(t) => Calm
    BY <1>2, <2>1 DEF LogEvent, CountFulfilled, Serialize, Attempt, OrderStep
  <2>5. GetOrder(t) \/ Respond(t) => Calm
    BY <1>3, <1>4, <2>1 DEF GetOrder, Respond, OrderStep, At, Announcing
  <2> QED BY <2>2, <2>3, <2>4, <2>5 DEF OrderStep
<1>10. TestStatus(t) \/ Place(t) \/ Reopen(t) \/ Abandon(t) => Calm
  <2>1. TestStatus(t) \/ Place(t) \/ Reopen(t) \/ Abandon(t) => ~Writing(t)
    BY DEF TestStatus, Place, Reopen, Abandon, At, Writing
  <2>2. TestStatus(t) => Calm
    BY <1>2, <1>3, <2>1 DEF TestStatus
  <2> QED BY <1>3, <1>4, <1>5, <2>1, <2>2 DEF Place, Reopen, Abandon, At
<1>11. UNCHANGED carts =>
         UNCHANGED <<versions, lines, codes, claims, cartLock>> /\ live' \subseteq live
  BY DEF carts
<1>12. CASE CartStep(t)
  BY <1>6, <1>7, <1>8, <1>12 DEF CartStep, Calm
<1>13. CASE OrderStep(t) /\ UNCHANGED cartState
  BY <1>9, <1>11, <1>13 DEF cartState, Calm
<1>14. CASE TestStatus(t) \/ Place(t) \/ Reopen(t) \/ Abandon(t)
  BY <1>10, <1>11, <1>14 DEF TestStatus, Place, Reopen, Abandon, cartState, Calm
<1> QED BY <1>12, <1>13, <1>14 DEF Step

\* Who is in the set of updates is there to stay, and t joins it at most.
LEMMA UpdatesGrow ==
    ASSUME Typed, NEW t \in Threads, Moves(t),
           Writing(t) => Writing(t)' \/ req[t].op # "update" \/ resp'[t].code = "ok"
    PROVE  \A c : Updates(c) \subseteq Updates(c)' /\ Updates(c)' \subseteq Updates(c) \cup {t}
<1>1. resp[t].code # "ok"
  BY OutcomesAssumption DEF Typed, ThreadOK, Moves, NoAnswer, Outcomes
<1> QED BY <1>1 DEF Moves, Updates, Writing

LEMMA UpdatesStay ==
    ASSUME Typed, NEW t \in Threads, Moves(t),
           (req[t].op = "update" /\ (Writing(t)' \/ resp'[t].code = "ok"))
               <=> (req[t].op = "update" /\ Writing(t))
    PROVE  \A c : Updates(c)' = Updates(c)
<1>1. resp[t].code # "ok"
  BY OutcomesAssumption DEF Typed, ThreadOK, Moves, NoAnswer, Outcomes
<1> QED BY <1>1 DEF Moves, Updates, Writing

\* A cart that nobody writes, or one and the same as before.
LEMMA SameWriters ==
    ASSUME Typed, NEW t \in Threads, Moves(t), Writing(t)' <=> Writing(t)
    PROVE  /\ \A u \in Threads : (Writing(u)' <=> Writing(u)) /\ Cart(u)' = Cart(u)
           /\ \A u \in Threads : At(u, "done") => At(u, "done")'
  BY DEF Moves, Writing, Cart, At

\* The cart that is replaced: nobody writes it, and it is one update further, or
\* new.
LEMMA ReplaceKeepsDated ==
    ASSUME Typed, CartsOK, NEW t \in Threads, Moves(t), UpdateCart(t) \/ StoreCart(t),
           Replace(t), cartLock = None
    PROVE  Grows(t) /\ CartsOK'
<1>1. /\ req' = req /\ pc[t] \in {"store", "update"} /\ pc'[t] = "write_codes" /\ cartLock' = t
      /\ codes' = codes /\ claims' = claims
  BY DEF UpdateCart, StoreCart, At, Replace, Go, Typed, ThreadTypes
<1>2. PICK d \in Carts : d = Cart(t)
  BY <1>1, WritingOK
<1>3. /\ req[t].op \in {"create", "update"} /\ req[t].body \in Bodies /\ Cart(t)' = d
      /\ req[t].op = "create" => d = t /\ pc[t] = "store" /\ live' = live \cup {t}
      /\ req[t].op = "update" => d \in live /\ req[t].cart = d /\ live' = live
  <2>1. Cart(t)' = d
    BY <1>1, <1>2 DEF Cart
  <2>2. UpdateCart(t) => Cart(t) \in live /\ live' = live /\ pc[t] = "update"
    BY <1>1 DEF UpdateCart, At, Answer, Typed, ThreadTypes
  <2>3. StoreCart(t) => live' = live \cup {t} /\ pc[t] = "store"
    BY DEF StoreCart, At
  <2> QED BY <1>1, <1>2, <2>1, <2>2, <2>3, WritingOK DEF Cart
<1>4. /\ \A u \in Threads : ~Writing(u) /\ u # None
      /\ \A u \in Threads : Writing(u)' <=> u = t
      /\ \A u \in Threads : At(u, "done") => At(u, "done")' /\ u # t
  <2>1. \A u \in Threads : u # None
    BY CartsAssumption DEF Carts
  <2> QED BY <1>1, <2>1 DEF CartsOK, WritersOK, Writing, Moves, At
<1>5. \A c \in Carts : /\ lines[c] \in Nat /\ codes[c] \in Nat /\ claims[c] \in Nat
                       /\ claims[c] = lines[c] /\ codes[c] = lines[c]
                       /\ Len(versions[c]) = lines[c]
  BY <1>4 DEF CartsOK, Dated, Typed, CartTypes
<1>6. /\ \A c \in Carts : Len(versions'[c]) = Len(versions[c]) + (IF c = d THEN 1 ELSE 0)
      /\ \A c \in Carts : lines'[c] = IF c = d THEN Len(versions[c]) + 1 ELSE lines[c]
  BY <1>2, <1>3, ReplaceTypes DEF Typed
<1>7. \A c \in Carts : /\ t \notin Updates(c)
                       /\ Updates(c)' = IF c = d /\ req[t].op = "update"
                                        THEN Updates(c) \cup {t} ELSE Updates(c)
  <2>1. resp[t].code # "ok" /\ resp'[t].code # "ok"
    BY <1>1, WritingOK, OutcomesAssumption DEF Replace, Go, NoAnswer, Outcomes
  <2> QED BY <1>1, <1>2, <1>3, <2>1 DEF Updates, Moves
<1>8. WritersOK'
  BY <1>1, <1>4 DEF WritersOK, Writing
<1>9. ASSUME NEW c \in Carts, c # d PROVE Dated(c)'
  <2>1. /\ lines'[c] = lines[c] /\ Len(versions'[c]) = Len(versions[c])
        /\ Updates(c)' = Updates(c) /\ (c \in live' => c \in live)
    <3>1. lines'[c] = lines[c] /\ Len(versions'[c]) = Len(versions[c])
      <4>1. lines'[c] = lines[c]
        BY <1>6, <1>9
      <4>2. Len(versions[c]) \in Nat
        BY <1>5
      <4>3. Len(versions'[c]) = Len(versions[c]) + 0
        BY <1>6, <1>9
      <4> QED BY <4>1, <4>2, <4>3
    <3>2. Updates(c)' = Updates(c)
      BY <1>7, <1>9
    <3> QED BY <1>3, <1>9, <3>1, <3>2
  <2>2. Dated(c)
    BY DEF CartsOK
  <2> QED BY <1>1, <1>4, <1>5, <2>1, <2>2 DEF Dated
<1>10. Dated(d)'
  <2>1. /\ lines'[d] = lines[d] + 1 /\ Len(versions'[d]) = lines'[d] /\ Dated(d)
    BY <1>5, <1>6 DEF CartsOK
  <2>2. CASE req[t].op = "update"
    <3>1. /\ lines[d] # 0 /\ lines[d] = 1 + Cardinality(Updates(d)) /\ IsFiniteSet(Updates(d))
          /\ d \in Threads => At(d, "done")
      BY <1>3, <1>4, <2>1, <2>2 DEF Dated
    <3>2. /\ Cardinality(Updates(d)) \in Nat /\ IsFiniteSet(Updates(d) \cup {t})
          /\ Cardinality(Updates(d) \cup {t}) = Cardinality(Updates(d)) + 1
      BY <1>7, <3>1, FS_AddElement, FS_CardinalityType
    <3>3. Updates(d)' = Updates(d) \cup {t}
      BY <1>7, <2>2
    <3>4. IsFiniteSet(Updates(d)') /\ lines'[d] = 1 + Cardinality(Updates(d)') /\ lines'[d] # 0
      BY <1>5, <2>1, <3>1, <3>2, <3>3
    <3> QED BY <1>1, <1>3, <1>4, <1>5, <2>1, <3>1, <3>4 DEF Dated
  <2>3. CASE req[t].op = "create"
    <3>1. lines[d] = 0 /\ Updates(d) = {}
      BY <1>1, <1>3, <1>4, <2>1, <2>3 DEF Dated, At
    <3>2. IsFiniteSet(Updates(d)') /\ Cardinality(Updates(d)') = 0
      BY <1>7, <2>3, <3>1, FS_EmptySet
    <3> QED BY <1>1, <1>3, <1>4, <1>5, <2>1, <2>3, <3>1, <3>2 DEF Dated
  <2> QED BY <1>3, <2>2, <2>3
<1>11. Grows(t)
  BY <1>1, <1>5, <1>6, <1>7 DEF Grows
<1>12. HeardOK'
  BY StepHears DEF CartsOK
<1> QED BY <1>8, <1>9, <1>10, <1>11, <1>12 DEF CartsOK

LEMMA WriteCodesKeepsDated ==
    ASSUME Typed, CartsOK, NEW t \in Threads, Moves(t), WriteCodes(t)
    PROVE  Grows(t) /\ CartsOK'
<1>1. /\ Writing(t) /\ Writing(t)' /\ HeardOK' /\ pc[t] = "write_codes" /\ pc'[t] = "write_claims"
      /\ UNCHANGED <<live, versions, lines, claims, cartLock>>
      /\ codes' = [codes EXCEPT ![Cart(t)] = lines[Cart(t)]]
  BY StepHears DEF CartsOK, WriteCodes, At, Go, Writing, Typed, ThreadTypes
<1>2. PICK d \in Carts : d = Cart(t) /\ Cart(t)' = d
  BY <1>1, WritingOK DEF Cart, Moves
<1>3. /\ \A u \in Threads : (Writing(u)' <=> Writing(u)) /\ Cart(u)' = Cart(u)
      /\ \A u \in Threads : At(u, "done") => At(u, "done")'
  BY <1>1, SameWriters
<1>4. \A c : Updates(c)' = Updates(c)
  BY <1>1, UpdatesStay
<1>5. \A c \in Carts : /\ lines[c] \in Nat /\ codes[c] \in Nat /\ claims[c] \in Nat
                       /\ codes'[c] = IF c = d THEN lines[c] ELSE codes[c]
  BY <1>1, <1>2 DEF Typed, CartTypes
<1>6. \A u \in Threads : pc'[u] = "write_claims" => u = t
  BY <1>1, <1>3 DEF CartsOK, WritersOK, Writing
<1>7. WritersOK'
  BY <1>1, <1>2, <1>3, <1>5, <1>6 DEF CartsOK, WritersOK
<1>8. ASSUME NEW c \in Carts PROVE Dated(c)'
  <2>1. Dated(c)
    BY DEF CartsOK
  <2> QED BY <1>1, <1>3, <1>4, <1>5, <2>1 DEF Dated
<1>9. Grows(t)
  <2>1. \A c \in Carts : codes[c] <= lines[c]
    BY DEF CartsOK, Dated
  <2> QED BY <1>1, <1>4, <1>5, <2>1 DEF Grows
<1> QED BY <1>1, <1>7, <1>8, <1>9 DEF CartsOK

LEMMA WriteClaimsKeepsDated ==
    ASSUME Typed, CartsOK, NEW t \in Threads, Moves(t), WriteClaims(t)
    PROVE  Grows(t) /\ CartsOK'
<1>1. /\ Writing(t) /\ ~Writing(t)' /\ HeardOK' /\ pc[t] = "write_claims" /\ pc'[t] = "done"
      /\ UNCHANGED <<live, versions, lines, codes>> /\ cartLock' = None
      /\ claims' = [claims EXCEPT ![Cart(t)] = lines[Cart(t)]]
      /\ resp'[t].code = IF req[t].op = "create" THEN "created" ELSE "ok"
  BY StepHears DEF CartsOK, WriteClaims, At, Answer, Writing, Typed, ThreadTypes
<1>2. PICK d \in Carts : d = Cart(t)
  BY <1>1, WritingOK
<1>3. /\ \A u \in Threads : (Writing(u) => u = t) /\ ~Writing(u)' /\ u # None
      /\ \A u \in Threads : At(u, "done") => At(u, "done")'
      /\ At(t, "done")' /\ codes[d] = lines[d]
  <2>1. \A u \in Threads : u # None
    BY CartsAssumption DEF Carts
  <2> QED BY <1>1, <1>2, <2>1 DEF CartsOK, WritersOK, Writing, Moves, At
<1>4. \A c : Updates(c)' = Updates(c)
  BY <1>1, UpdatesStay
<1>5. \A c \in Carts : /\ lines[c] \in Nat /\ codes[c] \in Nat /\ claims[c] \in Nat
                       /\ claims'[c] = IF c = d THEN lines[c] ELSE claims[c]
  BY <1>1, <1>2 DEF Typed, CartTypes
<1>6. WritersOK'
  BY <1>1, <1>3 DEF WritersOK, Writing
<1>7. ASSUME NEW c \in Carts PROVE Dated(c)'
  <2>1. Dated(c) /\ (c # d => claims[c] = lines[c])
    BY <1>2, <1>3 DEF CartsOK, Dated
  <2> QED BY <1>1, <1>3, <1>4, <1>5, <2>1 DEF Dated
<1>8. Grows(t)
  <2>1. \A c \in Carts : claims[c] <= lines[c]
    BY <1>5 DEF CartsOK, Dated
  <2> QED BY <1>1, <1>4, <1>5, <2>1 DEF Grows
<1> QED BY <1>1, <1>6, <1>7, <1>8 DEF CartsOK

LEMMA QuietKeepsDated ==
    ASSUME Typed, CartsOK, NEW t \in Threads, Moves(t), ~Writing(t), ~Writing(t)',
           req[t].op = "update" => resp'[t].code # "ok",
           UNCHANGED <<versions, lines, codes, claims, cartLock>>, live' \subseteq live
    PROVE  Grows(t) /\ CartsOK'
<1>1. /\ \A u \in Threads : (Writing(u)' <=> Writing(u)) /\ Cart(u)' = Cart(u)
      /\ \A u \in Threads : At(u, "done") => At(u, "done")'
  BY SameWriters
<1>2. \A c : Updates(c)' = Updates(c)
  BY UpdatesStay
<1>3. HeardOK'
  BY StepHears DEF CartsOK
<1>4. \A u \in Threads : pc'[u] = "write_claims" => pc[u] = "write_claims"
  BY DEF Moves, Writing
<1>5. WritersOK'
  BY <1>1, <1>4 DEF CartsOK, WritersOK
<1>6. ASSUME NEW c \in Carts PROVE Dated(c)'
  <2>1. Dated(c)
    BY DEF CartsOK
  <2> QED BY <1>1, <1>2, <2>1 DEF Dated
<1>7. Grows(t)
  BY <1>2 DEF Grows, Typed, CartTypes
<1> QED BY <1>3, <1>5, <1>6, <1>7 DEF CartsOK

LEMMA StepKeepsDated ==
    ASSUME Typed, CartsOK, NEW t \in Threads, Moves(t), Step(t) PROVE Grows(t) /\ CartsOK'
  BY CartSteps, ReplaceKeepsDated, WriteCodesKeepsDated, WriteClaimsKeepsDated, QuietKeepsDated

\* Whoever has begun goes on to have heard of the same updates.
LEMMA SeenStays ==
    ASSUME HeardOK, NEW t \in Threads, Moves(t), Grows(t), NEW u \in Threads, NEW c \in Carts
    PROVE  Seen(u, c)' = Seen(u, c) /\ Oldest(u, c)' = Oldest(u, c)
<1>1. t \notin heard[u] /\ heard'[u] = heard[u]
  BY StepHears
<1>2. Seen(u, c)' = Seen(u, c)
  BY <1>1 DEF Seen, Grows
<1> QED BY <1>2 DEF Oldest

LEMMA OldestBound ==
    ASSUME Typed, NEW t \in Threads, NEW c \in Carts, Dated(c)
    PROVE  Oldest(t, c) \in Nat /\ (lines[c] # 0 => Oldest(t, c) <= lines[c])
<1>1. Seen(t, c) \in SUBSET Updates(c) /\ IsFiniteSet(Updates(c))
  BY DEF Seen, Dated
<1>2. /\ IsFiniteSet(Seen(t, c)) /\ Cardinality(Seen(t, c)) <= Cardinality(Updates(c))
      /\ Cardinality(Seen(t, c)) \in Nat /\ Cardinality(Updates(c)) \in Nat
  BY <1>1, FS_Subset, FS_CardinalityType
<1> QED BY <1>2 DEF Oldest, Dated

\* The others go on in order.
LEMMA OthersOrdered ==
    ASSUME Typed, Typed', CarryInv, NEW t \in Threads, Moves(t), Grows(t), NEW u \in Threads, u # t
    PROVE  Ordered(u)'
<1>1. /\ pc'[u] = pc[u] /\ local'[u] = local[u] /\ Cart(u)' = Cart(u) /\ Ordered(u)
  BY DEF Moves, CarryInv, Cart
<1> SUFFICES ASSUME pc[u] \in Past \cup {"prior"} PROVE Ordered(u)'
  BY <1>1 DEF Ordered, Past
<1> DEFINE c == Cart(u)
<1>2. c \in Carts /\ c' = c
  BY <1>1, ConvertingOK DEF Past, Converting
<1>3. /\ pc[u] \in {"prior", "codes"} => local[u] \in [lines : Nat]
      /\ pc[u] = "claims" => local[u] \in [lines : Nat, codes : Nat]
      /\ pc[u] = "execute" => local[u] \in [lines : Nat, codes : Nat, claims : Nat]
  BY ConvertingOK DEF Past, Converting
<1>4. /\ lines[c] \in Nat /\ lines'[c] \in Nat /\ lines[c] <= lines'[c] /\ Dated(c)
      /\ codes[c] \in Nat /\ codes'[c] \in Nat /\ codes[c] <= codes'[c]
      /\ claims[c] \in Nat /\ claims'[c] \in Nat /\ claims[c] <= claims'[c]
  BY <1>2 DEF Grows, Typed, CartTypes, CarryInv, CartsOK
<1>5. Oldest(u, c)' = Oldest(u, c) /\ Oldest(u, c) \in Nat
  BY <1>2, <1>4, SeenStays, OldestBound DEF CarryInv, CartsOK
<1> QED BY <1>1, <1>2, <1>3, <1>4, <1>5 DEF Ordered, Past

\* And so does the one who reads.
LEMMA ReaderOrdered ==
    ASSUME Typed, Typed', CarryInv, NEW t \in Threads, Moves(t), Grows(t), Step(t)
    PROVE  Ordered(t)'
<1> SUFFICES ASSUME pc'[t] \in Past \cup {"prior"} PROVE Ordered(t)'
  BY DEF Ordered, Past
<1> DEFINE c == Cart(t)
<1>1. ReadLines(t) \/ FindPrior(t) \/ ReadCodes(t) \/ ReadClaims(t)
  BY ReadingSteps
<1>2. /\ pc[t] \in Converting /\ carts' = carts /\ Cart(t)' = Cart(t)
  BY <1>1 DEF ReadLines, FindPrior, ReadCodes, ReadClaims, At, Converting, Moves, Cart
<1>3. /\ c \in Carts /\ c' = c /\ local' = [local EXCEPT ![t] = local'[t]]
      /\ pc[t] \in {"prior", "codes"} => local[t] \in [lines : Nat]
      /\ pc[t] = "claims" => local[t] \in [lines : Nat, codes : Nat]
  BY <1>1, <1>2, ConvertingOK DEF ReadLines, FindPrior, ReadCodes, ReadClaims, Read, Typed,
     ThreadTypes
<1>4. /\ lines' = lines /\ codes' = codes /\ claims' = claims /\ Dated(c) /\ Ordered(t)
      /\ lines[c] \in Nat /\ codes[c] \in Nat /\ claims[c] \in Nat
      /\ claims[c] <= codes[c] /\ codes[c] <= lines[c] /\ lines[c] <= claims[c] + 1
  BY <1>2, <1>3 DEF carts, CarryInv, CartsOK, Dated, Typed, CartTypes
<1>5. /\ Oldest(t, c)' = Oldest(t, c) /\ Oldest(t, c) \in Nat
      /\ lines[c] # 0 => Oldest(t, c) <= lines[c]
  BY <1>3, <1>4, SeenStays, OldestBound DEF CarryInv, CartsOK
<1>6. CASE ReadLines(t)
  <2>1. /\ pc'[t] = "prior" /\ local'[t] = [lines |-> lines[c]] /\ lines[c] # 0
    BY <1>3, <1>4, <1>6 DEF ReadLines, Answer, Go, Read, Typed, ThreadTypes, Past, Dated
  <2>2. local'[t].lines = lines[c]
    BY <2>1
  <2>3. claims[c] = lines[c] /\ codes[c] = lines[c]
    <3>1. \A u \in Threads : ~Writing(u)
      BY <1>6, CartsAssumption DEF ReadLines, CarryInv, CartsOK, WritersOK, Carts
    <3> QED BY <1>4, <3>1 DEF Dated
  <2> HIDE DEF c
  <2> QED BY <1>3, <1>4, <1>5, <2>1, <2>2, <2>3 DEF Ordered, c
<1>7. CASE FindPrior(t)
  <2>1. pc[t] = "prior" /\ pc'[t] = "codes" /\ local'[t] = local[t]
    BY <1>7 DEF FindPrior, At, Answer, Go, Typed, ThreadTypes, Past
  <2> QED BY <1>3, <1>4, <1>5, <2>1 DEF Ordered
<1>8. CASE ReadCodes(t)
  <2>1. /\ pc[t] = "codes" /\ pc'[t] = "claims"
        /\ local'[t] = [lines |-> local[t].lines, codes |-> codes[c]]
    BY <1>8 DEF ReadCodes, At, Go, Read, Typed, ThreadTypes
  <2>2. local'[t].lines = local[t].lines /\ local'[t].codes = codes[c]
    BY <2>1
  <2> QED BY <1>3, <1>4, <1>5, <2>1, <2>2 DEF Ordered
<1>9. CASE ReadClaims(t)
  <2>1. /\ pc[t] = "claims" /\ pc'[t] = "execute"
        /\ local'[t] = [lines |-> local[t].lines, codes |-> local[t].codes,
                        claims |-> claims[c]]
    BY <1>9 DEF ReadClaims, At, Go, Read, Typed, ThreadTypes
  <2>2. /\ local'[t].lines = local[t].lines /\ local'[t].codes = local[t].codes
        /\ local'[t].claims = claims[c]
    BY <2>1
  <2> QED BY <1>3, <1>4, <1>5, <2>1, <2>2 DEF Ordered
<1> QED BY <1>1, <1>6, <1>7, <1>8, <1>9

\* A checkout that is there goes on to carry what it has carried.
LEMMA OthersCarried ==
    ASSUME Typed, CarryInv, NEW t \in Threads, Moves(t), Grows(t), NEW u \in Threads,
           Made(u)', \/ OnlyStatus(t)
                     \/ u # t /\ checkouts'[u] = checkouts[u]
    PROVE  Carried(u)'
<1> DEFINE c == checkouts[u].cart
<1>1. u \in Checkouts
  BY DEF Checkouts
<1>2. /\ Made(u) /\ checkouts'[u].cart = c /\ checkouts'[u].lines = checkouts[u].lines
      /\ checkouts'[u].codes = checkouts[u].codes /\ checkouts'[u].claims = checkouts[u].claims
  BY <1>1 DEF OnlyStatus, Made
<1>3. Carried(u) /\ c \in Carts /\ At(u, "done")
  BY <1>2 DEF CarryInv, Carried
<1>4. At(u, "done")'
  BY <1>3 DEF At, Moves
<1>5. PICK d \in Carts : d = c
  BY <1>3
<1>6. checkouts[u].cart = d /\ checkouts'[u].cart = d
  BY <1>2, <1>5
<1>7. Oldest(u, d)' = Oldest(u, d)
  BY SeenStays DEF CarryInv, CartsOK
<1>8. heard' = heard /\ Updates(d) \subseteq Updates(d)'
  BY DEF Moves, Grows
<1>9. Overlapped(u, d) => Overlapped(u, d)'
  BY <1>8 DEF Overlapped
<1> HIDE DEF c
<1>10. /\ Oldest(u, checkouts[u].cart)' = Oldest(u, checkouts[u].cart)
       /\ Overlapped(u, checkouts[u].cart) => Overlapped(u, checkouts[u].cart)'
  BY <1>6, <1>7, <1>9
<1> QED BY <1>2, <1>3, <1>4, <1>6, <1>10 DEF Carried, c

LEMMA ConvertCarries ==
    ASSUME Typed, CarryInv, NEW t \in Threads, Moves(t), Grows(t), Convert(t), UNCHANGED tables
    PROVE  Carried(t)'
<1> DEFINE c == Cart(t)
<1>1. /\ pc[t] = "execute" /\ pc'[t] = "done" /\ heard' = heard
      /\ \A u \in Threads : t \notin heard[u] /\ heard[u] \subseteq Threads
  BY StepHears DEF CarryInv, CartsOK, Convert, At, Answer, Typed, ThreadTypes
<1>2. /\ c \in Carts /\ checkouts' = [checkouts EXCEPT ![t] = Converted(t)]
  BY ConvertKeeps
<1>3. checkouts'[t] = Converted(t)
  BY <1>2 DEF Typed, CartTypes, Checkouts
<1>4. /\ checkouts'[t].cart = c /\ checkouts'[t].lines = local[t].lines
      /\ checkouts'[t].codes = local[t].codes /\ checkouts'[t].claims = local[t].claims
  BY <1>3 DEF Converted, Opened
<1>5. local[t] \in [lines : Nat, codes : Nat, claims : Nat] /\ Dated(c) /\ Ordered(t)
  BY <1>1, <1>2, ConvertingOK DEF Converting, CarryInv, CartsOK
<1>6. /\ lines[c] # 0 /\ lines[c] \in Nat /\ Oldest(t, c) <= local[t].lines
      /\ local[t].lines <= local[t].codes /\ local[t].lines <= local[t].claims
      /\ local[t].codes <= lines[c] /\ local[t].claims <= lines[c]
      /\ local[t].codes <= local[t].claims + 1 /\ Oldest(t, c) \in Nat
  BY <1>1, <1>2, <1>5, OldestBound DEF Ordered, Typed, CartTypes
<1>7. ~Overlapped(t, c) =>
        local[t].codes = Oldest(t, c) /\ local[t].claims = Oldest(t, c)
  <2> SUFFICES ASSUME ~Overlapped(t, c)
               PROVE  local[t].codes = Oldest(t, c) /\ local[t].claims = Oldest(t, c)
    OBVIOUS
  <2>1. Updates(c) = Seen(t, c)
    BY <1>1 DEF Overlapped, Seen, Updates
  <2>2. Oldest(t, c) = lines[c]
    BY <1>5, <1>6, <2>1 DEF Oldest, Dated
  <2>3. local[t].lines \in Nat /\ local[t].codes \in Nat /\ local[t].claims \in Nat
    BY <1>5
  <2> QED BY <1>6, <2>2, <2>3
<1>8. /\ c' = c /\ Oldest(t, c)' = Oldest(t, c) /\ checkouts[t].cart' = c
      /\ Overlapped(t, c) => Overlapped(t, c)'
  <2>1. c' = c
    BY DEF Cart, Moves
  <2>2. Oldest(t, c)' = Oldest(t, c)
    BY <1>2, <2>1, SeenStays DEF CarryInv, CartsOK
  <2>3. PICK d \in Carts : d = c
    BY <1>2
  <2>4. Updates(d) \subseteq Updates(d)'
    BY DEF Grows
  <2>5. Overlapped(t, d) => Overlapped(t, d)'
    BY <1>1, <2>4 DEF Overlapped
  <2> HIDE DEF c
  <2> QED BY <1>4, <2>1, <2>2, <2>3, <2>5
<1>9. At(t, "done")'
  BY <1>1 DEF At
<1> HIDE DEF c
<1>10. /\ (Oldest(t, checkouts[t].cart))' = Oldest(t, c)
       /\ ~Overlapped(t, checkouts[t].cart)' => ~Overlapped(t, c)
  BY <1>4, <1>8
<1> QED BY <1>2, <1>4, <1>6, <1>7, <1>9, <1>10 DEF Carried

LEMMA StepKeepsCarry ==
    ASSUME Typed, CarryInv, NEW t \in Threads, Step(t) PROVE CarryInv'
<1>1. Moves(t) /\ Typed'
  BY StepKeeps DEF Keeps
<1>2. Grows(t) /\ CartsOK'
  BY <1>1, StepKeepsDated DEF CarryInv
<1>3. ASSUME NEW u \in Threads PROVE Ordered(u)'
  BY <1>1, <1>2, OthersOrdered, ReaderOrdered
<1>4. ASSUME NEW u \in Threads PROVE Carried(u)'
  <2> SUFFICES ASSUME Made(u)' PROVE Carried(u)'
    BY DEF Carried
  <2>1. CASE FindPrior(t)
    <3>1. OnlyStatus(t)
      BY <2>1 DEF FindPrior, sessions, OnlyStatus
    <3> QED BY <1>1, <1>2, <3>1, OthersCarried
  <2>2. CASE Convert(t) /\ UNCHANGED tables
    <3>1. u # t => checkouts'[u] = checkouts[u]
      <4>1. checkouts' = [checkouts EXCEPT ![t] = Converted(t)]
        BY <2>2, ConvertKeeps
      <4> QED BY <4>1, u \in Checkouts DEF Typed, CartTypes, Checkouts
    <3>2. u # t => Carried(u)'
      BY <1>1, <1>2, <3>1, OthersCarried
    <3>3. Carried(t)'
      BY <1>1, <1>2, <2>2, ConvertCarries
    <3> QED BY <3>2, <3>3
  <2>3. CASE OnlyStatus(t)
    BY <1>1, <1>2, <2>3, OthersCarried
  <2> QED BY <2>1, <2>2, <2>3, ConversionSteps
<1> QED BY <1>1, <1>2, <1>3, <1>4 DEF CarryInv

LEMMA ArrivalKeepsCarry ==
    ASSUME Typed, CarryInv, NEW t \in Threads, Begins(t) PROVE CarryInv'
<1>1. /\ HeardOK' /\ pc[t] = "idle" /\ cartState' = cartState /\ resp' = resp /\ local' = local
      /\ \A u \in Threads \ {t} : pc'[u] = pc[u] /\ req'[u] = req[u] /\ heard'[u] = heard[u]
      /\ \A u \in Threads : t \notin heard'[u]
  BY ArrivalHears DEF CarryInv, CartsOK, Begins
<1>2. /\ live' = live /\ versions' = versions /\ lines' = lines /\ codes' = codes
      /\ claims' = claims /\ cartLock' = cartLock /\ checkouts' = checkouts
  BY <1>1 DEF cartState, carts, sessions
<1>3. /\ pc'[t] \notin Past \cup {"prior", "done", "write_codes", "write_claims"}
      /\ resp[t].code # "ok" /\ ~Writing(t) /\ ~Writing(t)'
  BY RequestFields, OutcomesAssumption DEF Begins, Past, Typed, ThreadOK, NoAnswer, Outcomes,
     Writing
<1>4. \A c : Updates(c)' = Updates(c) /\ t \notin Updates(c)
  BY <1>1, <1>3 DEF Updates, Writing
<1>5. CartsOK'
  <2>1. \A u \in Threads : /\ Writing(u)' <=> Writing(u)
                           /\ Writing(u) => Cart(u)' = Cart(u) /\ pc'[u] = pc[u]
    BY <1>1, <1>3 DEF Writing, Cart
  <2>2. \A u \in Threads : pc'[u] = "write_claims" => pc[u] = "write_claims" /\ Writing(u)
    BY <2>1 DEF Writing
  <2>3. WritersOK'
    BY <1>2, <2>1, <2>2 DEF CarryInv, CartsOK, WritersOK
  <2>4. ASSUME NEW c \in Carts PROVE Dated(c)'
    BY <1>1, <1>2, <1>4, <2>1 DEF CarryInv, CartsOK, Dated, At
  <2> QED BY <1>1, <2>3, <2>4 DEF CartsOK
<1>6. \A c : \A u \in Threads \ {t} : /\ Oldest(u, c)' = Oldest(u, c)
                                      /\ Overlapped(u, c)' <=> Overlapped(u, c)
  <2>1. \A c : Updates(c) \subseteq Threads \ {t}
    BY <1>4 DEF Updates
  <2>2. \A c : \A u \in Threads \ {t} : Seen(u, c)' = Seen(u, c)
    BY <1>1, <1>4 DEF Seen
  <2>3. \A c : \A u \in Threads \ {t} : Overlapped(u, c)' <=> Overlapped(u, c)
    BY <1>1, <1>4, <2>1 DEF Overlapped
  <2> QED BY <2>2, <2>3 DEF Oldest
<1>7. Ordered(t)' /\ Carried(t)'
  <2>1. ~Made(t)
    BY <1>1 DEF CarryInv, Carried, At
  <2> QED BY <1>2, <1>3, <2>1 DEF Ordered, Carried, Made, Past
<1>8. ASSUME NEW u \in Threads \ {t} PROVE Ordered(u)' /\ Carried(u)'
  <2>1. /\ pc'[u] = pc[u] /\ local'[u] = local[u] /\ req'[u] = req[u] /\ Ordered(u)
        /\ Carried(u)
    BY <1>1 DEF CarryInv
  <2>2. Ordered(u)'
    <3>1. Cart(u)' = Cart(u)
      BY <2>1 DEF Cart
    <3>2. Oldest(u, Cart(u))' = Oldest(u, Cart(u))
      BY <1>6, <3>1
    <3> QED BY <1>2, <2>1, <3>1, <3>2 DEF Ordered
  <2>3. Carried(u)'
    <3>1. /\ Oldest(u, checkouts[u].cart)' = Oldest(u, checkouts[u].cart)
          /\ Overlapped(u, checkouts[u].cart)' <=> Overlapped(u, checkouts[u].cart)
      BY <1>2, <1>6
    <3> QED BY <1>2, <2>1, <3>1 DEF Carried, Made, At
  <2> QED BY <2>2, <2>3
<1> QED BY <1>1, <1>5, <1>7, <1>8 DEF CarryInv

LEMMA InitCarry == Init => CarryInv
<1> SUFFICES ASSUME Init PROVE CarryInv
  OBVIOUS
<1>1. \A t \in Threads : t \in Checkouts /\ t \notin CheckoutSeeds
  BY CartsAssumption DEF Checkouts
<1>2. \A t \in Threads : ~Made(t) /\ resp[t].code # "ok" /\ pc[t] = "idle" /\ heard[t] = {}
  BY <1>1, OutcomesAssumption DEF Init, CartsInit, ThreadsInit, Made, NoAnswer, Outcomes
<1>3. /\ \A c : Updates(c) = {}
      /\ WritersOK /\ \A t \in Threads : ~Writing(t)
  <2>1. \A t \in Threads : t # None
    BY CartsAssumption DEF Carts
  <2>2. cartLock = None
    BY DEF Init, CartsInit
  <2> QED BY <1>2, <2>1, <2>2 DEF Updates, WritersOK, Writing
<1>4. IsFiniteSet({}) /\ Cardinality({}) = 0
  BY FS_EmptySet
<1>5. ASSUME NEW c \in Carts PROVE Dated(c)
  <2>1. /\ lines[c] = Len(versions[c]) /\ codes[c] = lines[c] /\ claims[c] = lines[c]
        /\ versions[c] = IF c \in CartSeeds THEN <<CHOOSE b \in Bodies : TRUE>> ELSE << >>
        /\ live = CartSeeds
    BY DEF Init, CartsInit
  <2>2. CASE c \in CartSeeds
    <3>1. \A b : Len(<<b>>) = 1
      OBVIOUS
    <3>2. lines[c] = 1 /\ c \notin Threads
      BY <2>1, <2>2, <3>1, CartsAssumption
    <3>3. IsFiniteSet(Updates(c)) /\ Cardinality(Updates(c)) = 0
      BY <1>3, <1>4
    <3> QED BY <2>1, <3>2, <3>3 DEF Dated
  <2>3. CASE c \notin CartSeeds
    <3>1. lines[c] = 0
      BY <2>1, <2>3
    <3>2. IsFiniteSet(Updates(c)) /\ Updates(c) = {}
      BY <1>3, <1>4
    <3>3. codes[c] = 0 /\ claims[c] = 0 /\ Len(versions[c]) = 0 /\ c \notin live
      BY <2>1, <2>3, <3>1
    <3> QED BY <3>1, <3>2, <3>3 DEF Dated
  <2> QED BY <2>2, <2>3
<1>6. \A t \in Threads : Ordered(t) /\ Carried(t)
  BY <1>2 DEF Ordered, Carried
<1> QED BY <1>3, <1>5, <1>6, InitHears DEF CarryInv, CartsOK

\* A conversion carries forward all of its cart, unless an update overlaps it, and
\* then no part that is older than what it had heard of, nor claims that are older
\* than its codes by more than one update.
THEOREM Carrying == Spec => []ConversionsCarryTheCart
<1>1. Typed /\ CarryInv /\ [Next]_vars => CarryInv'
  <2> SUFFICES ASSUME Typed, CarryInv, [Next]_vars PROVE CarryInv'
    OBVIOUS
  <2>1. ASSUME NEW t \in Threads, Arrive(t) PROVE CarryInv'
    BY <2>1, ArriveKeeps, ArrivalKeepsCarry
  <2>2. ASSUME NEW t \in Threads, Step(t) PROVE CarryInv'
    BY <2>2, StepKeepsCarry
  <2>3. CASE Bystander
    <3>1. /\ pc' = pc /\ req' = req /\ resp' = resp /\ local' = local /\ heard' = heard
          /\ live' = live /\ versions' = versions /\ lines' = lines /\ codes' = codes
          /\ claims' = claims /\ cartLock' = cartLock /\ checkouts' = checkouts
      BY <2>3 DEF Bystander, cartState, carts, sessions
    <3>2. \A c : Updates(c)' = Updates(c)
      BY <3>1 DEF Updates
    <3>3. CartsOK'
      BY <3>1, <3>2 DEF CarryInv, CartsOK, HeardOK, WritersOK, Writing, Cart, Dated, Answered, At
    <3>4. \A t \in Threads : Ordered(t)' /\ Carried(t)'
      BY <3>1 DEF CarryInv, Ordered, Carried, Oldest, Seen, Overlapped, Updates, Cart, Made, At
    <3> QED BY <3>3, <3>4 DEF CarryInv
  <2> QED BY <2>1, <2>2, <2>3, NextCases DEF Bystander, Deliver, Retry, vars
<1>2. Typed /\ CarryInv => ConversionsCarryTheCart
  <2> SUFFICES ASSUME Typed, CarryInv, NEW t \in Threads, Made(t)
               PROVE  LET made   == checkouts[t]
                          before == Updates(made.cart) \cap heard[t]
                          after  == {u \in Updates(made.cart) : t \in heard[u]}
                          oldest == 1 + Cardinality(before)
                      IN  /\ oldest <= made.lines
                          /\ made.lines <= made.codes /\ made.lines <= made.claims
                          /\ made.codes <= made.claims + 1
                          /\ Updates(made.cart) = before \cup after =>
                               made.codes = oldest /\ made.claims = oldest
    BY DEF ConversionsCarryTheCart
  <2> DEFINE c == checkouts[t].cart
  <2>1. /\ Oldest(t, c) <= checkouts[t].lines
        /\ checkouts[t].lines <= checkouts[t].codes /\ checkouts[t].lines <= checkouts[t].claims
        /\ checkouts[t].codes <= checkouts[t].claims + 1
        /\ ~Overlapped(t, c) =>
             checkouts[t].codes = Oldest(t, c) /\ checkouts[t].claims = Oldest(t, c)
    BY DEF CarryInv, Carried
  <2>2. Updates(c) = (Updates(c) \cap heard[t]) \cup {u \in Updates(c) : t \in heard[u]}
          => ~Overlapped(t, c)
    BY DEF Overlapped
  <2> QED BY <2>1, <2>2 DEF Oldest, Seen
<1> QED BY <1>1, <1>2, InitCarry, SalesTypes, PTL DEF Spec

-----------------------------------------------------------------------------
(* Orders: their lines and their logs *)

\* One more entry of q units.
LEMMA EntryAdded ==
    ASSUME NEW E, IsFiniteSet(UnitsOf(E)), NEW t, t \notin E, req[t].qty \in 1..Quantity
    PROVE  /\ IsFiniteSet(UnitsOf(E \cup {t}))
           /\ Cardinality(UnitsOf(E \cup {t})) = Cardinality(UnitsOf(E)) + req[t].qty
<1>0. PICK q \in 1..Quantity : req[t].qty = q
  OBVIOUS
<1> DEFINE New == {t} \X (1..q)
<1>1. q \in Nat /\ Quantity \in Nat /\ q <= Quantity
  BY OrdersAssumption
<1>2. /\ IsFiniteSet(1..q) /\ Cardinality(1..q) = q
      /\ IsFiniteSet({t}) /\ Cardinality({t}) = 1
  <2>1. /\ IsFiniteSet(1..q)
        /\ Cardinality(1..q) = IF 1 > q THEN 0 ELSE q - 1 + 1
    BY <1>1, FS_Interval
  <2>2. q >= 1
    OBVIOUS
  <2>3. Cardinality(1..q) = q
    BY <1>1, <2>1, <2>2
  <2> QED BY <2>1, <2>3, FS_Singleton
<1>3. IsFiniteSet(New) /\ Cardinality(New) = 1 * q
  <2> DEFINE T == {t}
             N == 1..q
  <2>1. /\ IsFiniteSet(N) /\ Cardinality(N) = q
        /\ IsFiniteSet(T) /\ Cardinality(T) = 1 /\ New = T \X N
    BY <1>2
  <2> HIDE DEF T, N, New
  <2>2. IsFiniteSet(T \X N) /\ Cardinality(T \X N) = Cardinality(T) * Cardinality(N)
    BY <2>1, FS_Product
  <2> QED BY <2>1, <2>2
<1>4. ASSUME NEW F, NEW p, NEW n
      PROVE  <<p, n>> \in UnitsOf(F) <=> p \in F /\ n \in 1..Quantity /\ n <= req[p].qty
  BY DEF UnitsOf
<1>5. ASSUME NEW p, NEW n PROVE <<p, n>> \in New <=> p = t /\ n \in 1..Quantity /\ n <= q
  BY <1>1
<1>6. \A F : \A u \in UnitsOf(F) : u = <<u[1], u[2]>>
  BY DEF UnitsOf
<1>7. \A u \in New : u = <<u[1], u[2]>>
  OBVIOUS
<1>8. UnitsOf(E \cup {t}) \subseteq UnitsOf(E) \cup New
  <2> SUFFICES ASSUME NEW u \in UnitsOf(E \cup {t}) PROVE u \in UnitsOf(E) \cup New
    OBVIOUS
  <2> DEFINE p == u[1]
             n == u[2]
  <2>1. u = <<p, n>>
    BY <1>6
  <2> HIDE DEF p, n, New
  <2>2. p \in E \cup {t} /\ n \in 1..Quantity /\ n <= req[p].qty
    BY <2>1, <1>4
  <2>3. <<p, n>> \in UnitsOf(E) \/ <<p, n>> \in New
    BY <1>0, <2>2, <1>4, <1>5
  <2> QED BY <2>1, <2>3
<1>9. UnitsOf(E) \cup New \subseteq UnitsOf(E \cup {t}) /\ UnitsOf(E) \cap New = {}
  <2> HIDE DEF New
  <2>1. ASSUME NEW u \in UnitsOf(E)
        PROVE  u \in UnitsOf(E \cup {t}) /\ u \notin New
    <3>1. u = <<u[1], u[2]>>
      BY <1>6
    <3>2. u[1] \in E /\ u[2] \in 1..Quantity /\ u[2] <= req[u[1]].qty
      BY <3>1, <1>4
    <3>3. <<u[1], u[2]>> \in UnitsOf(E \cup {t}) /\ <<u[1], u[2]>> \notin New
      BY <3>2, <1>4, <1>5
    <3> QED BY <3>1, <3>3
  <2>2. ASSUME NEW u \in New PROVE u \in UnitsOf(E \cup {t})
    <3>1. u = <<u[1], u[2]>>
      BY <1>7
    <3>2. u[1] = t /\ u[2] \in 1..Quantity /\ u[2] <= req[u[1]].qty
      BY <1>0, <3>1, <1>5
    <3>3. <<u[1], u[2]>> \in UnitsOf(E \cup {t})
      BY <3>2, <1>4
    <3> QED BY <3>1, <3>3
  <2> QED BY <2>1, <2>2
<1> DEFINE S == UnitsOf(E)
<1>10. UnitsOf(E \cup {t}) = S \cup New /\ Cardinality(S \cap New) = 0
  BY <1>8, <1>9, FS_EmptySet
<1> HIDE DEF New, S
<1>11. IsFiniteSet(S)
  BY DEF S
<1>12. /\ IsFiniteSet(S \cup New) /\ Cardinality(S) \in Nat
       /\ Cardinality(S \cup New) = Cardinality(S) + Cardinality(New) - Cardinality(S \cap New)
  BY <1>3, <1>11, FS_Union, FS_CardinalityType
<1>13. Cardinality(S \cup New) = Cardinality(S) + q
  BY <1>1, <1>3, <1>10, <1>12
<1> QED BY <1>0, <1>10, <1>12, <1>13 DEF S

Held == {"log", "count"}

\* The lock is held between the two halves of a change.
LockOK == \A t \in Threads : pc[t] \in Held <=> lock = t

\* An entry is logged once, by a request that has come that far.
EntriesOK ==
    \A o \in Orders :
        orders[o] # None =>
            /\ \A t \in orders[o].adjustments : pc[t] \in Announcing \cup {"done"}
            /\ \A t \in orders[o].events : pc[t] \in Announcing \cup {"done", "count"}

\* The units of a change that the lock's holder has half made.
Half(o, place) ==
    IF lock # None /\ pc[lock] = place /\ Target(lock) = o THEN req[lock].qty ELSE 0

Adjusted(o) == UnitsOf(orders[o].adjustments)
Shipped(o) == UnitsOf(orders[o].events)

\* LedgerAgrees, and what it becomes while somebody holds the lock: an adjustment
\* changes the line first, a fulfillment the log.
Balanced(o) ==
    orders[o] # None =>
        /\ IsFiniteSet(Adjusted(o)) /\ IsFiniteSet(Shipped(o))
        /\ orders[o].fulfilled = Cardinality(Shipped(o)) - Half(o, "count")
        /\ orders[o].total = IF version = "04-08"
                             THEN Quantity - Cardinality(Adjusted(o)) - Half(o, "log")
                             ELSE Quantity
        /\ orders[o].status = StatusOf(orders[o].total, orders[o].fulfilled)

LedgerInv == LockOK /\ EntriesOK /\ \A o \in Orders : Balanced(o)

\* What steps there are for orders.
LEMMA LedgerSteps ==
    ASSUME Typed, NEW t \in Threads, Step(t)
    PROVE  \/ /\ \/ Reduce(t) \/ LogAdjustment(t) \/ AppendAdjustment(t) \/ LogEvent(t)
                 \/ CountFulfilled(t)
              /\ UNCHANGED cartState
           \/ Place(t)
           \/ /\ UNCHANGED <<orders, lock>> /\ pc[t] \notin Held /\ pc'[t] \notin Held
<1> DEFINE Free == pc[t] \notin Held /\ pc'[t] \notin Held
<1>1. ASSUME NEW l, Go(t, l), l \notin Held, pc[t] \notin Held PROVE Free
  BY <1>1 DEF Go, Typed, ThreadTypes
<1>2. ASSUME NEW code, NEW id, Answer(t, code, id), pc[t] \notin Held PROVE Free
  BY <1>2 DEF Answer, Typed, ThreadTypes, Held
<1> HIDE DEF Free
<1>3. ASSUME CartStep(t) PROVE Free
  <2>1. LookUp(t) \/ StoreCart(t) \/ UpdateCart(t) \/ CancelCart(t) \/ GetCart(t) => Free
    BY <1>1, <1>2 DEF LookUp, StoreCart, UpdateCart, Replace, CancelCart, GetCart, At, Held
  <2>2. ReadLines(t) \/ FindPrior(t) \/ ReadCodes(t) \/ ReadClaims(t) => Free
    BY <1>1, <1>2 DEF ReadLines, FindPrior, ReadCodes, ReadClaims, At, Held
  <2>3. RefuseConversion(t) \/ Convert(t) => Free
    BY <1>2 DEF RefuseConversion, Convert, At, Held
  <2>4. WriteCodes(t) \/ WriteClaims(t) => Free
    BY <1>1, <1>2 DEF WriteCodes, WriteClaims, At, Held
  <2> QED BY <1>3, <2>1, <2>2, <2>3, <2>4 DEF CartStep
<1>4. Check(t) => Free
  <2>1. Go(t, IF req[t].op = "fulfill" THEN "log_event"
              ELSE IF version = "04-08" THEN "reduce" ELSE "append") /\ pc[t] \notin Held
          => Free
    BY <1>1 DEF Held
  <2>2. Check(t) => pc[t] \notin Held
    BY DEF Check, Held
  <2> QED BY <1>2, <2>1, <2>2 DEF Check
<1>5. GetOrder(t) \/ Respond(t) \/ Serialize(t) \/ Attempt(t) => Free
  BY <1>1, <1>2 DEF GetOrder, Respond, Serialize, Attempt, At, Held
<1>6. TestStatus(t) => Free
  <2>1. TestStatus(t) => pc[t] \notin Held
    BY DEF TestStatus, Held
  <2>2. TestStatus(t) => \/ Answer(t, "refused", None)
                         \/ Go(t, "place") \/ Go(t, "reopen") \/ Go(t, "close")
    BY DEF TestStatus
  <2>3. {"place", "reopen", "close"} \cap Held = {}
    BY DEF Held
  <2> QED BY <1>1, <1>2, <2>1, <2>2, <2>3
<1>7. Reopen(t) \/ Abandon(t) => Free
  BY <1>2 DEF Reopen, Abandon, At, Held
<1>8. (\/ Check(t) \/ GetOrder(t) \/ Respond(t) \/ Serialize(t) \/ Attempt(t)
       \/ TestStatus(t) \/ Reopen(t) \/ Abandon(t)) => UNCHANGED <<orders, lock>>
  BY DEF Check, GetOrder, Respond, Serialize, Attempt, TestStatus, Reopen, Abandon, tables
<1>9. UNCHANGED tables => UNCHANGED <<orders, lock>>
  BY DEF tables
<1> QED BY <1>3, <1>4, <1>5, <1>6, <1>7, <1>8, <1>9 DEF Step, OrderStep, Free

\* An order that a step leaves alone, when it leaves the lock alone or takes or
\* gives it back for another order.
LEMMA OthersBalanced ==
    ASSUME NEW o \in Orders, Balanced(o), orders'[o] = orders[o], req' = req, version' = version,
           Half(o, "count")' = Half(o, "count"), Half(o, "log")' = Half(o, "log")
    PROVE  Balanced(o)'
<1>1. Adjusted(o)' = Adjusted(o) /\ Shipped(o)' = Shipped(o)
  BY DEF Adjusted, Shipped, UnitsOf
<1>2. /\ Cardinality(Adjusted(o))' = Cardinality(Adjusted(o))
      /\ Cardinality(Shipped(o))' = Cardinality(Shipped(o))
  BY <1>1
<1>3. StatusOf(orders[o].total, orders[o].fulfilled)'
        = StatusOf(orders[o].total, orders[o].fulfilled)
  BY DEF StatusOf
<1> QED BY <1>1, <1>2, <1>3 DEF Balanced

\* What Balanced says of a row, in which a units are half fulfilled and b half
\* adjusted.
BalancedRow(row, a, b) ==
    /\ IsFiniteSet(UnitsOf(row.adjustments)) /\ IsFiniteSet(UnitsOf(row.events))
    /\ row.fulfilled = Cardinality(UnitsOf(row.events)) - a
    /\ row.total = IF version = "04-08"
                   THEN Quantity - Cardinality(UnitsOf(row.adjustments)) - b
                   ELSE Quantity
    /\ row.status = StatusOf(row.total, row.fulfilled)

LEMMA Rebalanced ==
    ASSUME NEW o \in Orders, NEW row, NEW a, NEW b, orders'[o] = row, BalancedRow(row, a, b),
           req' = req, version' = version, Half(o, "count")' = a, Half(o, "log")' = b
    PROVE  Balanced(o)'
<1>1. Adjusted(o)' = UnitsOf(row.adjustments) /\ Shipped(o)' = UnitsOf(row.events)
  BY DEF Adjusted, Shipped, UnitsOf
<1>2. /\ Cardinality(Adjusted(o))' = Cardinality(UnitsOf(row.adjustments))
      /\ Cardinality(Shipped(o))' = Cardinality(UnitsOf(row.events))
  BY <1>1
<1>3. StatusOf(orders[o].total, orders[o].fulfilled)' = StatusOf(row.total, row.fulfilled)
  BY DEF StatusOf
<1> QED BY <1>1, <1>2, <1>3 DEF Balanced, BalancedRow

LEMMA RowFields ==
    ASSUME NEW order \in Order, NEW n, NEW t
    PROVE  /\ Reduced(order, n).adjustments = order.adjustments
           /\ Reduced(order, n).events = order.events
           /\ Reduced(order, n).fulfilled = order.fulfilled
           /\ Reduced(order, n).total = n
           /\ Reduced(order, n).status = StatusOf(n, order.fulfilled)
           /\ Counted(order, n).adjustments = order.adjustments
           /\ Counted(order, n).events = order.events
           /\ Counted(order, n).fulfilled = n
           /\ Counted(order, n).total = order.total
           /\ Counted(order, n).status = StatusOf(order.total, n)
           /\ Logged(order, t).adjustments = order.adjustments \cup {t}
           /\ Logged(order, t).events = order.events
           /\ Logged(order, t).fulfilled = order.fulfilled
           /\ Logged(order, t).total = order.total
           /\ Logged(order, t).status = order.status
           /\ Dispatched(order, t).adjustments = order.adjustments
           /\ Dispatched(order, t).events = order.events \cup {t}
           /\ Dispatched(order, t).fulfilled = order.fulfilled
           /\ Dispatched(order, t).total = order.total
           /\ Dispatched(order, t).status = order.status
<1>1. ASSUME NEW s
      PROVE  /\ [order EXCEPT !.total = n, !.status = s].adjustments = order.adjustments
             /\ [order EXCEPT !.total = n, !.status = s].events = order.events
             /\ [order EXCEPT !.total = n, !.status = s].fulfilled = order.fulfilled
             /\ [order EXCEPT !.total = n, !.status = s].total = n
             /\ [order EXCEPT !.total = n, !.status = s].status = s
  BY DEF Order
<1>2. ASSUME NEW s
      PROVE  /\ [order EXCEPT !.fulfilled = n, !.status = s].adjustments = order.adjustments
             /\ [order EXCEPT !.fulfilled = n, !.status = s].events = order.events
             /\ [order EXCEPT !.fulfilled = n, !.status = s].fulfilled = n
             /\ [order EXCEPT !.fulfilled = n, !.status = s].total = order.total
             /\ [order EXCEPT !.fulfilled = n, !.status = s].status = s
  BY DEF Order
<1>3. ASSUME NEW s
      PROVE  /\ [order EXCEPT !.adjustments = s].adjustments = s
             /\ [order EXCEPT !.adjustments = s].events = order.events
             /\ [order EXCEPT !.adjustments = s].fulfilled = order.fulfilled
             /\ [order EXCEPT !.adjustments = s].total = order.total
             /\ [order EXCEPT !.adjustments = s].status = order.status
             /\ [order EXCEPT !.events = s].adjustments = order.adjustments
             /\ [order EXCEPT !.events = s].events = s
             /\ [order EXCEPT !.events = s].fulfilled = order.fulfilled
             /\ [order EXCEPT !.events = s].total = order.total
             /\ [order EXCEPT !.events = s].status = order.status
  BY DEF Order
<1>4. /\ Logged(order, t) = [order EXCEPT !.adjustments = order.adjustments \cup {t}]
      /\ Dispatched(order, t) = [order EXCEPT !.events = order.events \cup {t}]
  BY DEF Logged, Dispatched
<1> QED BY <1>1, <1>2, <1>3, <1>4 DEF Reduced, Counted

LEMMA NewBalances == BalancedRow(NewOrder, 0, 0)
<1>1. UnitsOf({}) = {} /\ IsFiniteSet({}) /\ Cardinality({}) = 0
  BY FS_EmptySet DEF UnitsOf
<1>2. StatusOf(Quantity, 0) = "processing"
  BY OrdersAssumption DEF StatusOf
<1>3. Quantity = Quantity - 0 - 0 /\ 0 = 0 - 0
  BY OrdersAssumption
<1>4. /\ NewOrder.adjustments = {} /\ NewOrder.events = {} /\ NewOrder.fulfilled = 0
      /\ NewOrder.total = Quantity /\ NewOrder.status = "processing"
  BY DEF NewOrder
<1> QED BY <1>1, <1>2, <1>3, <1>4 DEF BalancedRow

LEMMA ReducedBalances ==
    ASSUME NEW row \in Order, NEW q \in Nat, BalancedRow(row, 0, 0), version = "04-08"
    PROVE  BalancedRow(Reduced(row, row.total - q), 0, q)
<1> DEFINE n == row.total - q
           c == Cardinality(UnitsOf(row.adjustments))
<1>1. /\ Reduced(row, n).adjustments = row.adjustments /\ Reduced(row, n).events = row.events
      /\ Reduced(row, n).fulfilled = row.fulfilled /\ Reduced(row, n).total = n
      /\ Reduced(row, n).status = StatusOf(n, row.fulfilled)
  BY RowFields
<1>2. row.total = Quantity - c - 0 /\ c \in Nat /\ Quantity \in Nat
  BY OrdersAssumption, FS_CardinalityType DEF BalancedRow
<1> HIDE DEF c
<1>3. n = Quantity - c - q
  BY <1>2
<1> HIDE DEF n
<1>4. BalancedRow(Reduced(row, n), 0, q)
  BY <1>1, <1>3 DEF BalancedRow, c
<1> QED BY <1>4 DEF n

LEMMA LoggedBalances ==
    ASSUME NEW row \in Order, NEW t \in Threads, NEW q \in 1..Quantity, req[t].qty = q,
           t \notin row.adjustments,
           BalancedRow(row, 0, IF version = "04-08" THEN q ELSE 0)
    PROVE  BalancedRow(Logged(row, t), 0, 0)
<1> DEFINE c == Cardinality(UnitsOf(row.adjustments))
           d == Cardinality(UnitsOf(row.adjustments \cup {t}))
<1>1. /\ Logged(row, t).adjustments = row.adjustments \cup {t}
      /\ Logged(row, t).events = row.events /\ Logged(row, t).fulfilled = row.fulfilled
      /\ Logged(row, t).total = row.total /\ Logged(row, t).status = row.status
  BY RowFields
<1>2. IsFiniteSet(UnitsOf(row.adjustments)) /\ c \in Nat /\ q \in Nat /\ Quantity \in Nat
  BY OrdersAssumption, FS_CardinalityType DEF BalancedRow
<1>3. IsFiniteSet(UnitsOf(row.adjustments \cup {t})) /\ d = c + q
  BY <1>2, EntryAdded
<1>4. row.total = IF version = "04-08" THEN Quantity - c - q ELSE Quantity
  BY DEF BalancedRow
<1> HIDE DEF c, d
<1>5. row.total = IF version = "04-08" THEN Quantity - d - 0 ELSE Quantity
  BY <1>2, <1>3, <1>4
<1> QED BY <1>1, <1>3, <1>5 DEF BalancedRow, d

LEMMA DispatchedBalances ==
    ASSUME NEW row \in Order, NEW t \in Threads, NEW q \in 1..Quantity, req[t].qty = q,
           t \notin row.events, BalancedRow(row, 0, 0)
    PROVE  BalancedRow(Dispatched(row, t), q, 0)
<1> DEFINE c == Cardinality(UnitsOf(row.events))
           d == Cardinality(UnitsOf(row.events \cup {t}))
<1>1. /\ Dispatched(row, t).adjustments = row.adjustments
      /\ Dispatched(row, t).events = row.events \cup {t}
      /\ Dispatched(row, t).fulfilled = row.fulfilled
      /\ Dispatched(row, t).total = row.total /\ Dispatched(row, t).status = row.status
  BY RowFields
<1>2. IsFiniteSet(UnitsOf(row.events)) /\ c \in Nat /\ q \in Nat
  BY OrdersAssumption, FS_CardinalityType DEF BalancedRow
<1>3. IsFiniteSet(UnitsOf(row.events \cup {t})) /\ d = c + q
  BY <1>2, EntryAdded
<1>4. row.fulfilled = c - 0
  BY DEF BalancedRow
<1> HIDE DEF c, d
<1>5. row.fulfilled = d - q
  BY <1>2, <1>3, <1>4
<1> QED BY <1>1, <1>3, <1>5 DEF BalancedRow, d

LEMMA CountedBalances ==
    ASSUME NEW row \in Order, NEW q \in Nat, BalancedRow(row, q, 0)
    PROVE  BalancedRow(Counted(row, row.fulfilled + q), 0, 0)
<1> DEFINE n == row.fulfilled + q
           c == Cardinality(UnitsOf(row.events))
<1>1. /\ Counted(row, n).adjustments = row.adjustments /\ Counted(row, n).events = row.events
      /\ Counted(row, n).fulfilled = n /\ Counted(row, n).total = row.total
      /\ Counted(row, n).status = StatusOf(row.total, n)
  BY RowFields
<1>2. row.fulfilled = c - q /\ c \in Nat
  BY FS_CardinalityType DEF BalancedRow
<1> HIDE DEF c
<1>3. n = c - 0
  BY <1>2
<1> HIDE DEF n
<1>4. BalancedRow(Counted(row, n), 0, 0)
  BY <1>1, <1>3 DEF BalancedRow, c
<1> QED BY <1>4 DEF n

\* A request whose change is made only announces it and answers.
LEMMA AnnouncingSteps ==
    ASSUME Typed, NEW t \in Threads, Step(t), pc[t] \in Announcing
    PROVE  /\ Respond(t) \/ Serialize(t) \/ Attempt(t)
           /\ pc'[t] \in Announcing \cup {"done"} /\ UNCHANGED <<tables, cartState>>
<1>1. pc[t] \in {"serialize", "attempt", "answer"}
  BY DEF Announcing
<1>2. ~CartStep(t)
  BY <1>1 DEF CartStep, LookUp, StoreCart, UpdateCart, WriteCodes, WriteClaims, CancelCart,
     GetCart, ReadLines, FindPrior, ReadCodes, ReadClaims, RefuseConversion, Convert, At
<1>3. ~TestStatus(t) /\ ~Place(t) /\ ~Reopen(t) /\ ~Abandon(t)
  BY <1>1 DEF TestStatus, Place, Reopen, Abandon, At
<1>4. /\ ~Check(t) /\ ~Reduce(t) /\ ~LogAdjustment(t) /\ ~AppendAdjustment(t)
      /\ ~LogEvent(t) /\ ~CountFulfilled(t) /\ ~GetOrder(t)
  BY <1>1 DEF Check, Reduce, LogAdjustment, AppendAdjustment, LogEvent, CountFulfilled,
     GetOrder, At
<1>5. (Respond(t) \/ Serialize(t) \/ Attempt(t)) /\ UNCHANGED cartState
  BY <1>2, <1>3, <1>4 DEF Step, OrderStep
<1>6. pc'[t] \in Announcing \cup {"done"} /\ UNCHANGED tables
  BY <1>5 DEF Respond, Serialize, Attempt, Answer, Go, Announcing, Typed, ThreadTypes, tables
<1> QED BY <1>5, <1>6

\* A step of t keeps the lock's rule and the logs', when t takes the lock for what
\* it holds it for, gives it back or has nothing to do with it, and only t's own
\* entry is new.
LEMMA LockKeeps ==
    ASSUME Typed, LockOK, NEW t \in Threads, Moves(t),
           \/ pc[t] \notin Held /\ pc'[t] \notin Held /\ lock' = lock
           \/ lock = None /\ pc'[t] \in Held /\ lock' = t
           \/ pc[t] \in Held /\ pc'[t] \notin Held /\ lock' = None
    PROVE  LockOK'
<1>1. None \notin Threads
  BY CartsAssumption DEF Carts
<1>2. \A u \in Threads \ {t} : pc'[u] = pc[u]
  BY DEF Moves
<1> QED BY <1>1, <1>2 DEF LockOK

LEMMA EntriesKeep ==
    ASSUME Typed, EntriesOK, NEW t \in Threads, Moves(t), Typed',
           NEW o \in Orders, NEW old \in Order, NEW new \in Order,
           orders[o] = old, \A p \in Orders : orders'[p] = IF p = o THEN new ELSE orders[p],
           pc[t] \notin Announcing, pc'[t] \in Announcing \/ pc[t] # "count",
           \A u \in new.adjustments : u \in old.adjustments \/ (u = t /\ pc'[t] \in Announcing),
           \A u \in new.events : u \in old.events \/ (u = t /\ pc'[t] = "count")
    PROVE  EntriesOK'
<1>1. old # None
  BY OrderAssumption
<1>2. \A u \in Threads \ {t} : pc'[u] = pc[u]
  BY DEF Moves
<1>3. /\ \A p \in Orders : orders[p] # None => orders[p] \in Order
  BY DEF Typed, OrderTypes
<1>4. \A p \in Orders : orders[p] # None =>
        orders[p].adjustments \subseteq Threads /\ orders[p].events \subseteq Threads
  BY <1>3 DEF Order
<1>5. pc[t] # "done"
  BY DEF Moves
<1>6. ASSUME NEW p \in Orders, orders'[p] # None
      PROVE  /\ \A u \in orders'[p].adjustments : pc'[u] \in Announcing \cup {"done"}
             /\ \A u \in orders'[p].events : pc'[u] \in Announcing \cup {"done", "count"}
  <2>1. CASE p = o
    <3>1. /\ \A u \in old.adjustments : u # t /\ pc'[u] \in Announcing \cup {"done"}
          /\ \A u \in old.events :
               pc'[u] \in Announcing \cup {"done", "count"}
      BY <1>1, <1>2, <1>4, <1>5 DEF EntriesOK
    <3>2. orders'[p] = new
      BY <2>1
    <3> QED BY <3>1, <3>2
  <2>2. CASE p # o
    <3>1. orders'[p] = orders[p]
      BY <2>2
    <3>2. /\ \A u \in orders[p].adjustments : u \in Threads /\ pc[u] \in Announcing \cup {"done"}
          /\ \A u \in orders[p].events :
               u \in Threads /\ pc[u] \in Announcing \cup {"done", "count"}
      BY <1>4, <1>6, <3>1 DEF EntriesOK
    <3> QED BY <1>2, <1>5, <3>1, <3>2
  <2> QED BY <2>1, <2>2
<1> QED BY <1>6 DEF EntriesOK

\* An order changes, its half made change begins or ends with it, and no other does.
LEMMA ChangeBalances ==
    ASSUME Typed, LedgerInv, LockOK', EntriesOK', req' = req, version' = version,
           NEW o \in Orders, NEW new \in Order,
           \A p \in Orders : orders'[p] = IF p = o THEN new ELSE orders[p],
           NEW a, NEW b, BalancedRow(new, a, b),
           Half(o, "count")' = a, Half(o, "log")' = b,
           \A p \in Orders \ {o} :
               Half(p, "count")' = Half(p, "count") /\ Half(p, "log")' = Half(p, "log")
    PROVE  LedgerInv'
<1>1. Balanced(o)'
  <2>1. orders'[o] = new
    OBVIOUS
  <2> QED BY <2>1, Rebalanced
<1>2. ASSUME NEW p \in Orders, p # o PROVE Balanced(p)'
  <2>1. orders'[p] = orders[p] /\ Balanced(p)
    BY <1>2 DEF LedgerInv
  <2> QED BY <1>2, <2>1, OthersBalanced
<1> QED BY <1>1, <1>2 DEF LedgerInv

\* What is half made by whom.
LEMMA HalfMade ==
    /\ lock = None => \A p, l : Half(p, l) = 0
    /\ LockOK => \A t \in Threads :
         pc[t] \in Held => \A p, l :
           Half(p, l) = IF pc[t] = l /\ Target(t) = p THEN req[t].qty ELSE 0
<1>1. None \notin Threads
  BY CartsAssumption DEF Carts
<1> QED BY <1>1 DEF Half, LockOK

\* A row that is there is balanced, but for what is half made.
LEMMA RowBalanced ==
    ASSUME LedgerInv, NEW o \in Orders, NEW row \in Order, orders[o] = row,
           NEW a, NEW b, Half(o, "count") = a, Half(o, "log") = b
    PROVE  BalancedRow(row, a, b)
<1>1. row # None
  BY OrderAssumption
<1> QED BY <1>1 DEF LedgerInv, Balanced, BalancedRow, Adjusted, Shipped

LEMMA ReduceBalances ==
    ASSUME Typed, LedgerInv, NEW t \in Threads, Reduce(t), UNCHANGED cartState, Typed'
    PROVE  LedgerInv'
<1>1. /\ pc[t] = "reduce" /\ lock = None /\ lock' = t /\ Go(t, "log")
      /\ version' = version
  BY DEF Reduce, At
<1>2. /\ Moves(t)
      /\ orders' = [orders EXCEPT ![Target(t)] =
             Reduced(orders[Target(t)], orders[Target(t)].total - req[t].qty)]
  BY ReduceKeeps DEF OrderKeeps
<1>3. /\ Target(t) \in Orders /\ orders[Target(t)] \in Order /\ req[t].qty \in Nat
      /\ version = "04-08"
  BY <1>1, AboutOrder DEF Adjusting, Typed, ThreadOK
<1>4. PICK o \in Orders, old \in Order, q \in Nat :
          o = Target(t) /\ old = orders[o] /\ q = req[t].qty
  BY <1>3
<1>5. old.total - q \in Int
  BY DEF Order
<1>6. PICK new \in Order : new = Reduced(old, old.total - q)
  BY <1>5, RowTypes
<1>7. \A p \in Orders : orders'[p] = IF p = o THEN new ELSE orders[p]
  BY <1>2, <1>4, <1>6 DEF Typed, OrderTypes
<1>8. pc'[t] = "log" /\ req' = req
  BY <1>1 DEF Go, Typed, ThreadTypes
<1>9. /\ \A u \in new.adjustments : u \in old.adjustments
      /\ \A u \in new.events : u \in old.events
  BY <1>6, RowFields
<1>10. LockOK'
  BY <1>1, <1>2, <1>8, LockKeeps DEF Held, LedgerInv
<1>11. EntriesOK'
  <2>1. EntriesOK /\ pc[t] \notin Announcing /\ pc[t] # "count"
    BY <1>1 DEF LedgerInv, Announcing
  <2> QED BY <1>2, <1>4, <1>6, <1>7, <1>9, <2>1, EntriesKeep
<1>12. BalancedRow(new, 0, q)
  <2>1. BalancedRow(old, 0, 0)
    BY <1>1, <1>4, HalfMade, RowBalanced
  <2> QED BY <1>3, <1>6, <2>1, ReducedBalances
<1>13. ASSUME NEW p \in Orders
       PROVE  /\ Half(p, "count") = 0 /\ Half(p, "log") = 0 /\ Half(p, "count")' = 0
              /\ Half(p, "log")' = IF p = o THEN q ELSE 0
  <2>1. None \notin Threads
    BY CartsAssumption DEF Carts
  <2> QED BY <1>1, <1>4, <1>8, <2>1 DEF Half, Target
<1> QED BY <1>1, <1>7, <1>8, <1>10, <1>11, <1>12, <1>13, ChangeBalances

LEMMA AdjustmentBalances ==
    ASSUME Typed, LedgerInv, NEW t \in Threads, LogAdjustment(t) \/ AppendAdjustment(t),
           UNCHANGED cartState, Typed'
    PROVE  LedgerInv'
<1>1. /\ pc[t] \in {"log", "append"} /\ version' = version /\ pc[t] \in Adjusting
      /\ pc[t] = "log" => LogAdjustment(t)
      /\ pc[t] = "append" => AppendAdjustment(t)
  BY DEF LogAdjustment, AppendAdjustment, At, Adjusting
<1>2. /\ Moves(t) /\ req' = req
      /\ orders' = [orders EXCEPT ![Target(t)] = Logged(orders[Target(t)], t)]
  BY AdjustmentKeeps DEF OrderKeeps, Moves
<1>3. /\ Target(t) \in Orders /\ orders[Target(t)] \in Order /\ req[t].qty \in 1..Quantity
      /\ pc[t] = "log" <=> version = "04-08"
  BY <1>1, AboutOrder DEF Typed, ThreadOK
<1>4. PICK o \in Orders, old \in Order, q \in 1..Quantity :
          o = Target(t) /\ old = orders[o] /\ req[t].qty = q
  BY <1>3
<1>5. PICK new \in Order : new = Logged(old, t)
  BY RowTypes
<1>6. \A p \in Orders : orders'[p] = IF p = o THEN new ELSE orders[p]
  BY <1>2, <1>4, <1>5 DEF Typed, OrderTypes
<1>7. pc'[t] \in {"serialize", "answer"}
  BY <1>1 DEF LogAdjustment, AppendAdjustment, Announce, Go, Typed, ThreadTypes
<1>8. pc[t] \notin Announcing /\ pc'[t] \in Announcing /\ pc[t] # "done" /\ pc'[t] \notin Held
  BY <1>1, <1>7 DEF Announcing, Held
<1>9. EntriesOK'
  <2>1. /\ \A u \in new.adjustments : u \in old.adjustments \/ (u = t /\ pc'[t] \in Announcing)
        /\ \A u \in new.events : u \in old.events \/ (u = t /\ pc'[t] = "count")
    BY <1>5, <1>8, RowFields
  <2>2. EntriesOK
    BY DEF LedgerInv
  <2> QED BY <1>2, <1>4, <1>5, <1>6, <1>8, <2>1, <2>2, EntriesKeep
<1>10. t \notin old.adjustments
  <2>1. old # None
    BY OrderAssumption
  <2> QED BY <1>4, <1>8, <2>1 DEF LedgerInv, EntriesOK
<1>11. LockOK /\ None \notin Threads
  BY CartsAssumption DEF Carts, LedgerInv
<1>12. lock' = None /\ LockOK'
  <2>1. pc[t] = "log" => pc[t] \in Held /\ lock' = None
    BY <1>1 DEF LogAdjustment, Held
  <2>2. pc[t] = "append" => pc[t] \notin Held /\ lock' = lock /\ lock' = None
    BY <1>1 DEF AppendAdjustment, Held
  <2> QED BY <1>1, <1>2, <1>8, <1>11, <2>1, <2>2, LockKeeps
<1>13. \A p, l : Half(p, l) = IF pc[t] = "log" /\ l = "log" /\ p = o THEN q ELSE 0
  <2>1. CASE pc[t] = "log"
    BY <1>4, <1>11, <2>1, HalfMade DEF Held
  <2>2. CASE pc[t] = "append"
    BY <1>1, <2>2, HalfMade DEF AppendAdjustment
  <2> QED BY <1>1, <2>1, <2>2
<1>14. BalancedRow(new, 0, 0)
  <2>1. BalancedRow(old, 0, IF version = "04-08" THEN q ELSE 0)
    <3>1. CASE version = "04-08"
      BY <1>3, <1>4, <1>13, <3>1, RowBalanced
    <3>2. CASE version # "04-08"
      BY <1>3, <1>4, <1>13, <3>2, RowBalanced
    <3> QED BY <3>1, <3>2
  <2> QED BY <1>4, <1>5, <1>10, <2>1, LoggedBalances
<1>15. \A p \in Orders : Half(p, "count")' = 0 /\ Half(p, "log")' = 0
  BY <1>12 DEF Half
<1> QED BY <1>1, <1>2, <1>6, <1>9, <1>12, <1>13, <1>14, <1>15, ChangeBalances

LEMMA LogEventBalances ==
    ASSUME Typed, LedgerInv, NEW t \in Threads, LogEvent(t), UNCHANGED cartState, Typed'
    PROVE  LedgerInv'
<1>1. /\ pc[t] = "log_event" /\ lock = None /\ lock' = t /\ Go(t, "count")
      /\ version' = version
  BY DEF LogEvent, At
<1>2. /\ Moves(t) /\ req' = req
      /\ orders' = [orders EXCEPT ![Target(t)] = Dispatched(orders[Target(t)], t)]
  BY LogEventKeeps DEF OrderKeeps, Moves
<1>3. Target(t) \in Orders /\ orders[Target(t)] \in Order /\ req[t].qty \in 1..Quantity
  BY <1>1, AboutOrder DEF Fulfilling
<1>4. PICK o \in Orders, old \in Order, q \in 1..Quantity :
          o = Target(t) /\ old = orders[o] /\ req[t].qty = q
  BY <1>3
<1>5. PICK new \in Order :
          /\ new = Dispatched(old, t)
          /\ new.adjustments = old.adjustments /\ new.events = old.events \cup {t}
  <2>1. Dispatched(old, t) \in Order
    BY RowTypes
  <2>2. /\ Dispatched(old, t).adjustments = old.adjustments
        /\ Dispatched(old, t).events = old.events \cup {t}
    BY RowFields
  <2> QED BY <2>1, <2>2
<1>6. \A p \in Orders : orders'[p] = IF p = o THEN new ELSE orders[p]
  BY <1>2, <1>4, <1>5 DEF Typed, OrderTypes
<1>7. pc'[t] = "count"
  BY <1>1 DEF Go, Typed, ThreadTypes
<1>8. pc[t] \notin Announcing /\ pc[t] # "count" /\ pc[t] # "done"
  BY <1>1 DEF Announcing
<1>9. EntriesOK'
  <2>1. /\ \A u \in new.adjustments : u \in old.adjustments \/ (u = t /\ pc'[t] \in Announcing)
        /\ \A u \in new.events : u \in old.events \/ (u = t /\ pc'[t] = "count")
    BY <1>5, <1>7
  <2>2. EntriesOK
    BY DEF LedgerInv
  <2> QED BY <1>2, <1>4, <1>5, <1>6, <1>8, <2>1, <2>2, EntriesKeep
<1>10. t \notin old.events
  <2>1. old # None
    BY OrderAssumption
  <2> QED BY <1>4, <1>8, <2>1 DEF LedgerInv, EntriesOK
<1>11. LockOK'
  BY <1>1, <1>2, <1>7, LockKeeps DEF Held, LedgerInv
<1>12. BalancedRow(new, q, 0)
  <2>1. BalancedRow(old, 0, 0)
    BY <1>1, <1>4, HalfMade, RowBalanced
  <2> QED BY <1>4, <1>5, <1>10, <2>1, DispatchedBalances
<1>13. ASSUME NEW p \in Orders
       PROVE  /\ Half(p, "count") = 0 /\ Half(p, "log") = 0 /\ Half(p, "log")' = 0
              /\ Half(p, "count")' = IF p = o THEN q ELSE 0
  <2>1. None \notin Threads
    BY CartsAssumption DEF Carts
  <2> QED BY <1>1, <1>2, <1>4, <1>7, <2>1 DEF Half, Target
<1> QED BY <1>1, <1>2, <1>6, <1>9, <1>11, <1>12, <1>13, ChangeBalances

LEMMA CountBalances ==
    ASSUME Typed, LedgerInv, NEW t \in Threads, CountFulfilled(t), UNCHANGED cartState, Typed'
    PROVE  LedgerInv'
<1>1. pc[t] = "count" /\ lock' = None /\ Go(t, "answer") /\ version' = version
  BY DEF CountFulfilled, At
<1>2. /\ Moves(t) /\ req' = req
      /\ orders' = [orders EXCEPT ![Target(t)] =
             Counted(orders[Target(t)], orders[Target(t)].fulfilled + req[t].qty)]
  BY CountKeeps DEF OrderKeeps, Moves
<1>3. Target(t) \in Orders /\ orders[Target(t)] \in Order /\ req[t].qty \in Nat
  BY <1>1, AboutOrder DEF Fulfilling
<1>4. PICK o \in Orders, old \in Order, q \in Nat :
          o = Target(t) /\ old = orders[o] /\ req[t].qty = q
  BY <1>3
<1>5. old.fulfilled + q \in Int
  BY DEF Order
<1>6. PICK new \in Order :
          /\ new = Counted(old, old.fulfilled + q)
          /\ new.adjustments = old.adjustments /\ new.events = old.events
  BY <1>5, RowTypes, RowFields
<1>7. \A p \in Orders : orders'[p] = IF p = o THEN new ELSE orders[p]
  BY <1>2, <1>4, <1>6 DEF Typed, OrderTypes
<1>8. pc'[t] = "answer"
  BY <1>1 DEF Go, Typed, ThreadTypes
<1>9. /\ pc[t] \notin Announcing /\ pc'[t] \in Announcing /\ pc[t] \in Held
      /\ pc'[t] \notin Held
  BY <1>1, <1>8 DEF Announcing, Held
<1>10. EntriesOK'
  <2>1. /\ \A u \in new.adjustments : u \in old.adjustments
        /\ \A u \in new.events : u \in old.events
    BY <1>6
  <2>2. EntriesOK
    BY DEF LedgerInv
  <2> QED BY <1>2, <1>4, <1>6, <1>7, <1>9, <2>1, <2>2, EntriesKeep
<1>11. LockOK'
  BY <1>1, <1>2, <1>9, LockKeeps DEF LedgerInv
<1>12. \A p, l : Half(p, l) = IF l = "count" /\ p = o THEN q ELSE 0
  BY <1>1, <1>4, <1>9, HalfMade DEF LedgerInv
<1>13. BalancedRow(new, 0, 0)
  <2>1. BalancedRow(old, q, 0)
    BY <1>4, <1>12, RowBalanced
  <2> QED BY <1>4, <1>6, <2>1, CountedBalances
<1>14. \A p \in Orders : Half(p, "count")' = 0 /\ Half(p, "log")' = 0
  BY <1>1 DEF Half
<1> QED BY <1>1, <1>2, <1>7, <1>10, <1>11, <1>12, <1>13, <1>14, ChangeBalances

LEMMA PlaceBalances ==
    ASSUME Typed, LedgerInv, NEW t \in Threads, Place(t), Typed' PROVE LedgerInv'
<1>1. /\ pc[t] = "place" /\ lock = None /\ lock' = lock /\ Announce(t) /\ version' = version
      /\ orders' = [orders EXCEPT ![t] = NewOrder]
  BY DEF Place, At
<1>2. Moves(t) /\ req' = req
  BY PlaceKeeps DEF Keeps, Moves
<1>3. t \in Orders /\ NewOrder \in Order
  BY NewOrderTypes DEF Orders
<1>4. \A p \in Orders : orders'[p] = IF p = t THEN NewOrder ELSE orders[p]
  BY <1>1 DEF Typed, OrderTypes
<1>5. pc'[t] \in {"serialize", "answer"}
  BY <1>1 DEF Announce, Go, Typed, ThreadTypes
<1>6. /\ pc[t] \notin Announcing \cup {"done", "count"} \cup Held
      /\ pc'[t] \notin Held
  BY <1>1, <1>5 DEF Announcing, Held
<1>7. LockOK'
  BY <1>1, <1>2, <1>6, LockKeeps DEF LedgerInv
<1>8. EntriesOK'
  <2>1. \A u \in Threads \ {t} : pc'[u] = pc[u]
    BY <1>2 DEF Moves
  <2>2. ASSUME NEW p \in Orders, orders'[p] # None
        PROVE  /\ \A u \in orders'[p].adjustments : pc'[u] \in Announcing \cup {"done"}
               /\ \A u \in orders'[p].events : pc'[u] \in Announcing \cup {"done", "count"}
    <3>1. CASE p = t
      BY <1>4, <3>1 DEF NewOrder
    <3>2. CASE p # t
      <4>1. orders'[p] = orders[p] /\ orders[p] \in Order
        BY <1>4, <2>2, <3>2 DEF Typed, OrderTypes
      <4>2. orders[p].adjustments \subseteq Threads /\ orders[p].events \subseteq Threads
        BY <4>1 DEF Order
      <4> QED BY <1>6, <2>1, <2>2, <4>1, <4>2 DEF LedgerInv, EntriesOK
    <3> QED BY <3>1, <3>2
  <2> QED BY <2>2 DEF EntriesOK
<1>9. \A p, l : Half(p, l) = 0
  BY <1>1, HalfMade
<1>10. \A p \in Orders : Half(p, "count")' = 0 /\ Half(p, "log")' = 0
  BY <1>1 DEF Half
<1> QED BY <1>1, <1>2, <1>3, <1>4, <1>7, <1>8, <1>9, <1>10, NewBalances, ChangeBalances

\* A step that changes no order and has nothing to do with the lock.
LEMMA QuietBalances ==
    ASSUME Typed, LedgerInv, NEW t \in Threads, Step(t), Moves(t),
           UNCHANGED <<orders, lock>>, pc[t] \notin Held, pc'[t] \notin Held,
           version' = version
    PROVE  LedgerInv'
<1>1. req' = req /\ \A u \in Threads \ {t} : pc'[u] = pc[u]
  BY DEF Moves
<1>2. LockOK'
  BY LockKeeps DEF LedgerInv
<1>3. pc[t] \in Announcing => pc'[t] \in Announcing \cup {"done"}
  BY AnnouncingSteps
<1>4. pc[t] \notin {"done", "count"}
  BY DEF Moves, Held
<1>5. EntriesOK'
  <2> SUFFICES ASSUME NEW p \in Orders, orders[p] # None
               PROVE  /\ \A u \in orders[p].adjustments : pc'[u] \in Announcing \cup {"done"}
                      /\ \A u \in orders[p].events :
                           pc'[u] \in Announcing \cup {"done", "count"}
    BY DEF EntriesOK
  <2>1. orders[p].adjustments \subseteq Threads /\ orders[p].events \subseteq Threads
    BY DEF Typed, OrderTypes, Order
  <2>2. /\ \A u \in orders[p].adjustments : pc[u] \in Announcing \cup {"done"}
        /\ \A u \in orders[p].events : pc[u] \in Announcing \cup {"done", "count"}
    BY DEF LedgerInv, EntriesOK
  <2> QED BY <1>1, <1>3, <1>4, <2>1, <2>2
<1>6. ASSUME NEW p \in Orders PROVE Balanced(p)'
  <2>1. None \notin Threads
    BY CartsAssumption DEF Carts
  <2>2. lock # None => lock # t /\ lock \in Threads
    BY DEF LedgerInv, LockOK, Typed, OrderTypes
  <2>3. /\ Half(p, "count")' = Half(p, "count") /\ Half(p, "log")' = Half(p, "log")
    BY <1>1, <2>2 DEF Half, Target
  <2> QED BY <1>1, <2>3, OthersBalanced DEF LedgerInv
<1> QED BY <1>2, <1>5, <1>6 DEF LedgerInv

LEMMA StepBalances ==
    ASSUME Typed, LedgerInv, NEW t \in Threads, Step(t) PROVE LedgerInv'
<1>1. Keeps(t)
  BY StepKeeps
<1>2. Moves(t) /\ Typed' /\ version' = version
  BY <1>1 DEF Keeps, RowsStay
<1> QED BY <1>2, LedgerSteps, ReduceBalances, AdjustmentBalances, LogEventBalances,
       CountBalances, PlaceBalances, QuietBalances

LEMMA ArrivalBalances ==
    ASSUME Typed, LedgerInv, NEW t \in Threads, Begins(t) PROVE LedgerInv'
<1>1. /\ pc[t] = "idle" /\ pc'[t] = req'[t].op /\ req'[t] \in Request
      /\ \A u \in Threads \ {t} : pc'[u] = pc[u] /\ req'[u] = req[u]
      /\ orders' = orders /\ lock' = lock /\ version' = version
  BY DEF Begins, tables
<1>2. pc[t] \notin Held /\ pc'[t] \notin Held
  BY <1>1, RequestFields DEF Held
<1>3. lock # t /\ LockOK'
  BY <1>1, <1>2 DEF LedgerInv, LockOK
<1>4. \A p \in Orders : orders[p] # None =>
        orders[p].adjustments \subseteq Threads \ {t} /\ orders[p].events \subseteq Threads \ {t}
  <2> SUFFICES ASSUME NEW p \in Orders, orders[p] # None
               PROVE  /\ orders[p].adjustments \subseteq Threads \ {t}
                      /\ orders[p].events \subseteq Threads \ {t}
    OBVIOUS
  <2>1. orders[p].adjustments \subseteq Threads /\ orders[p].events \subseteq Threads
    BY DEF Typed, OrderTypes, Order
  <2>2. t \notin orders[p].adjustments /\ t \notin orders[p].events
    BY <1>1 DEF LedgerInv, EntriesOK, Announcing
  <2> QED BY <2>1, <2>2
<1>5. EntriesOK'
  BY <1>1, <1>4 DEF LedgerInv, EntriesOK
<1>6. ASSUME NEW p \in Orders PROVE Balanced(p)'
  <2>1. lock # None => lock # t /\ lock \in Threads
    BY <1>3 DEF Typed, OrderTypes
  <2>2. Half(p, "count")' = Half(p, "count") /\ Half(p, "log")' = Half(p, "log")
    BY <1>1, <2>1 DEF Half, Target
  <2>3. ASSUME NEW S \in SUBSET (Threads \ {t}) PROVE UnitsOf(S)' = UnitsOf(S)
    BY <1>1, <2>3 DEF UnitsOf
  <2>4. CASE orders[p] = None
    BY <1>1, <2>4 DEF Balanced
  <2>5. CASE orders[p] # None
    <3>1. PICK row \in Order : row = orders[p]
      BY <2>5 DEF Typed, OrderTypes
    <3>2. /\ row.adjustments \subseteq Threads \ {t} /\ row.events \subseteq Threads \ {t}
      BY <1>4, <2>5, <3>1
    <3>3. /\ UnitsOf(row.adjustments)' = UnitsOf(row.adjustments)
          /\ UnitsOf(row.events)' = UnitsOf(row.events)
      BY <2>3, <3>2
    <3>4. Adjusted(p)' = Adjusted(p) /\ Shipped(p)' = Shipped(p)
      BY <1>1, <3>1, <3>3 DEF Adjusted, Shipped
    <3>5. /\ Cardinality(Adjusted(p))' = Cardinality(Adjusted(p))
          /\ Cardinality(Shipped(p))' = Cardinality(Shipped(p))
      BY <3>4
    <3>6. StatusOf(orders[p].total, orders[p].fulfilled)'
            = StatusOf(orders[p].total, orders[p].fulfilled)
      BY <1>1 DEF StatusOf
    <3> QED BY <1>1, <2>2, <3>4, <3>5, <3>6 DEF LedgerInv, Balanced
  <2> QED BY <2>4, <2>5
<1> QED BY <1>3, <1>5, <1>6 DEF LedgerInv

LEMMA InitLedger == Init => LedgerInv
<1> SUFFICES ASSUME Init PROVE LedgerInv
  OBVIOUS
<1>1. /\ lock = None /\ \A t \in Threads : pc[t] = "idle"
      /\ \A o \in Orders : orders[o] # None => orders[o] = NewOrder
  BY DEF Init, OrdersInit, ThreadsInit
<1>2. LockOK
  BY <1>1, CartsAssumption DEF LockOK, Held, Carts
<1>3. EntriesOK
  BY <1>1 DEF EntriesOK, NewOrder
<1>4. ASSUME NEW o \in Orders PROVE Balanced(o)
  <2>1. Half(o, "count") = 0 /\ Half(o, "log") = 0
    BY <1>1 DEF Half
  <2> QED BY <1>1, <2>1, NewBalances DEF Balanced, BalancedRow, Adjusted, Shipped
<1> QED BY <1>2, <1>3, <1>4 DEF LedgerInv

\* The line of an order says what its logs add up to, whoever changes it at once,
\* and its status follows from it.
THEOREM Ledger == Spec => []LedgerAgrees
<1>1. Typed /\ LedgerInv /\ [Next]_vars => LedgerInv'
  <2> SUFFICES ASSUME Typed, LedgerInv, [Next]_vars PROVE LedgerInv'
    OBVIOUS
  <2>1. ASSUME NEW t \in Threads, Arrive(t) PROVE LedgerInv'
    BY <2>1, ArriveKeeps, ArrivalBalances
  <2>2. ASSUME NEW t \in Threads, Step(t) PROVE LedgerInv'
    BY <2>2, StepBalances
  <2>3. CASE Bystander
    <3>1. /\ pc' = pc /\ req' = req /\ orders' = orders /\ lock' = lock /\ version' = version
      BY <2>3 DEF Bystander, tables
    <3>2. LockOK' /\ EntriesOK'
      BY <3>1 DEF LedgerInv, LockOK, EntriesOK
    <3>3. ASSUME NEW p \in Orders PROVE Balanced(p)'
      <4>1. Half(p, "count")' = Half(p, "count") /\ Half(p, "log")' = Half(p, "log")
        BY <3>1 DEF Half, Target
      <4> QED BY <3>1, <4>1, OthersBalanced DEF LedgerInv
    <3> QED BY <3>2, <3>3 DEF LedgerInv
  <2> QED BY <2>1, <2>2, <2>3, NextCases DEF Bystander, Deliver, Retry, vars
<1>2. LedgerInv => LedgerAgrees
  <2> SUFFICES ASSUME LedgerInv, NEW o \in Orders, orders[o] # None, lock = None
               PROVE  LET order == orders[o] IN
                      /\ order.fulfilled = Units(order.events)
                      /\ order.total = IF version = "04-08"
                                       THEN Quantity - Units(order.adjustments) ELSE Quantity
                      /\ order.status = StatusOf(order.total, order.fulfilled)
    BY DEF LedgerAgrees
  <2>1. Half(o, "count") = 0 /\ Half(o, "log") = 0
    BY DEF Half
  <2>2. /\ orders[o].fulfilled = Cardinality(Shipped(o)) - 0
        /\ orders[o].total = IF version = "04-08"
                             THEN Quantity - Cardinality(Adjusted(o)) - 0 ELSE Quantity
        /\ orders[o].status = StatusOf(orders[o].total, orders[o].fulfilled)
        /\ IsFiniteSet(Adjusted(o)) /\ IsFiniteSet(Shipped(o))
    BY <2>1 DEF LedgerInv, Balanced
  <2>3. /\ Cardinality(Shipped(o)) \in Nat /\ Cardinality(Adjusted(o)) \in Nat
        /\ Quantity \in Nat
    BY <2>2, FS_CardinalityType, OrdersAssumption
  <2>4. /\ Units(orders[o].events) = Cardinality(Shipped(o))
        /\ Units(orders[o].adjustments) = Cardinality(Adjusted(o))
    BY DEF Units, Shipped, Adjusted
  <2> QED BY <2>2, <2>3, <2>4
<1> QED BY <1>1, <1>2, InitLedger, SalesTypes, PTL DEF Spec

-----------------------------------------------------------------------------
(* Events: what is sent, and when *)

Message == [event : Threads, attempt : Nat, body : Order]

\* Where a request is whose event has been sent at least once.
Sent == {"answer", "done"}

DeliveryTypes ==
    tries \in [Threads -> Nat] /\ retrying \subseteq Threads /\ inbox \in Seq(Message)

\* The bytes of an event that is still to be sent are an order.
BytesOK == \A t \in Threads : pc[t] = "attempt" \/ t \in retrying => local[t] \in Order

\* What is sent in the background has been tried before.
BackgroundOK == \A t \in retrying : pc[t] \in Sent /\ tries[t] >= 1

\* What has arrived is what its request has made.
CopiesOK ==
    \A i \in DOMAIN inbox :
        pc[inbox[i].event] \in Sent /\ inbox[i].body = local[inbox[i].event]

InOrder ==
    \A i, j \in DOMAIN inbox :
        i < j /\ inbox[j].event \in heard[inbox[i].event] => inbox[j].attempt > 1

DeliveryInv ==
    HeardOK /\ DeliveryTypes /\ BytesOK /\ BackgroundOK /\ CopiesOK /\ InOrder

LEMMA Appended ==
    ASSUME NEW S, NEW s \in Seq(S), NEW m \in S
    PROVE  /\ Append(s, m) \in Seq(S) /\ Len(s) \in Nat /\ DOMAIN s = 1..Len(s)
           /\ DOMAIN Append(s, m) = 1..(Len(s) + 1)
           /\ \A i \in 1..Len(s) : Append(s, m)[i] = s[i]
           /\ Append(s, m)[Len(s) + 1] = m
  OBVIOUS

LEMMA Messages ==
    ASSUME DeliveryTypes
    PROVE  \A i \in DOMAIN inbox :
               inbox[i].event \in Threads /\ inbox[i].attempt \in Nat /\ inbox[i].body \in Order
<1>1. \A i \in DOMAIN inbox : inbox[i] \in Message
  BY DEF DeliveryTypes
<1>2. \A m \in Message : m.event \in Threads /\ m.attempt \in Nat /\ m.body \in Order
  BY DEF Message
<1> QED BY <1>1, <1>2

\* One attempt: at most one message more.
LEMMA Posted ==
    ASSUME DeliveryTypes, NEW t \in Threads, local[t] \in Order,
           Post(t, TRUE) \/ Post(t, FALSE)
    PROVE  /\ DeliveryTypes' /\ retrying' \subseteq retrying \cup {t}
           /\ tries'[t] = tries[t] + 1 /\ \A u \in Threads \ {t} : tries'[u] = tries[u]
           /\ \/ inbox' = inbox
              \/ inbox' = Append(inbox, [event |-> t, attempt |-> tries[t] + 1,
                                         body |-> local[t]])
<1> DEFINE m == [event |-> t, attempt |-> tries[t] + 1, body |-> local[t]]
<1>1. /\ tries' = [tries EXCEPT ![t] = @ + 1]
      /\ inbox' = inbox \/ inbox' = Append(inbox, m)
      /\ retrying' = retrying \ {t} \/ retrying' = retrying \cup {t}
  BY DEF Post, Send, RetryUnless
<1>2. tries[t] + 1 \in Nat /\ m \in Message
  BY DEF DeliveryTypes, Message
<1> HIDE DEF m
<1>3. inbox' \in Seq(Message)
  BY <1>1, <1>2, Appended DEF DeliveryTypes
<1>4. tries' \in [Threads -> Nat] /\ tries'[t] = tries[t] + 1
      /\ \A u \in Threads \ {t} : tries'[u] = tries[u]
  BY <1>1, <1>2 DEF DeliveryTypes
<1>5. retrying' \subseteq retrying \cup {t}
  BY <1>1
<1> QED BY <1>1, <1>3, <1>4, <1>5 DEF DeliveryTypes, m

\* What is sent is sent in order, when it is a retry or its request has not been
\* answered yet.
LEMMA PostKeepsOrder ==
    ASSUME DeliveryTypes, InOrder, CopiesOK, NEW t \in Threads, local[t] \in Order,
           heard' = heard, local' = local, pc'[t] \in Sent,
           \A u \in Threads \ {t} : pc'[u] = pc[u],
           tries[t] >= 1 \/ \A u \in Threads : t \notin heard[u],
           Post(t, TRUE) \/ Post(t, FALSE)
    PROVE  InOrder' /\ CopiesOK'
<1> DEFINE m == [event |-> t, attempt |-> tries[t] + 1, body |-> local[t]]
<1>1. CASE inbox' = inbox
  BY <1>1, Messages DEF InOrder, CopiesOK
<1>2. CASE inbox' = Append(inbox, m)
  <2>1. m \in Message /\ tries[t] \in Nat
    BY DEF DeliveryTypes, Message
  <2> HIDE DEF m
  <2>2. /\ Len(inbox) \in Nat /\ DOMAIN inbox = 1..Len(inbox)
        /\ DOMAIN inbox' = 1..(Len(inbox) + 1)
        /\ \A i \in 1..Len(inbox) : inbox'[i] = inbox[i]
        /\ inbox'[Len(inbox) + 1] = m
    BY <1>2, <2>1, Appended DEF DeliveryTypes
  <2>3. PICK n \in Nat : n = Len(inbox)
    BY <2>2
  <2>4. /\ \A i \in DOMAIN inbox' : i \in 1..n \/ i = n + 1
        /\ \A i \in 1..n : i \in DOMAIN inbox /\ inbox'[i] = inbox[i]
        /\ inbox'[n + 1] = m
    BY <2>2, <2>3
  <2>5. m.event = t /\ m.body = local[t] /\ m.attempt = tries[t] + 1
    BY DEF m
  <2>6. \A i \in 1..n : inbox[i].event \in Threads
    BY <2>4, Messages
  <2>7. CopiesOK'
    <3> SUFFICES ASSUME NEW i \in DOMAIN inbox'
                 PROVE  /\ pc'[inbox'[i].event] \in Sent
                        /\ inbox'[i].body = local'[inbox'[i].event]
      BY DEF CopiesOK
    <3>1. CASE i \in 1..n
      BY <2>4, <2>6, <3>1 DEF CopiesOK
    <3>2. CASE i = n + 1
      BY <2>4, <2>5, <3>2
    <3> QED BY <2>4, <3>1, <3>2
  <2>8. InOrder'
    <3> SUFFICES ASSUME NEW i \in DOMAIN inbox', NEW j \in DOMAIN inbox', i < j,
                        inbox'[j].event \in heard[inbox'[i].event]
                 PROVE  inbox'[j].attempt > 1
      BY DEF InOrder
    <3>1. CASE j \in 1..n
      <4>1. i \in 1..n
        BY <2>4, <3>1
      <4> QED BY <2>4, <3>1, <4>1 DEF InOrder
    <3>2. CASE j = n + 1
      <4>1. i \in 1..n
        BY <2>4, <3>2
      <4>2. t \in heard[inbox[i].event] /\ inbox[i].event \in Threads
        BY <2>4, <2>5, <2>6, <3>2, <4>1
      <4>3. tries[t] >= 1
        BY <4>2
      <4> QED BY <2>1, <2>4, <2>5, <3>2, <4>3
    <3> QED BY <2>4, <3>1, <3>2
  <2> QED BY <2>7, <2>8
<1> QED BY <1>1, <1>2, Posted

\* Only attempts send, and only what has been serialized is attempted.
LEMMA SendingSteps ==
    ASSUME Typed, NEW t \in Threads, Step(t)
    PROVE  /\ Attempt(t) \/ UNCHANGED delivery
           /\ pc'[t] = "attempt" => Serialize(t)
<1>1. \A l : Go(t, l) => pc'[t] = l
  BY DEF Go, Typed, ThreadTypes
<1>2. \A code, id : Answer(t, code, id) => pc'[t] = "done"
  BY DEF Answer, Typed, ThreadTypes
<1>3. CartStep(t) => pc'[t] # "attempt"
  <2>1. LookUp(t) \/ StoreCart(t) \/ UpdateCart(t) \/ CancelCart(t) \/ GetCart(t)
          => pc'[t] # "attempt"
    BY <1>1, <1>2 DEF LookUp, StoreCart, UpdateCart, Replace, CancelCart, GetCart
  <2>2. ReadLines(t) \/ FindPrior(t) \/ ReadCodes(t) \/ ReadClaims(t) => pc'[t] # "attempt"
    BY <1>1, <1>2 DEF ReadLines, FindPrior, ReadCodes, ReadClaims
  <2>3. RefuseConversion(t) \/ Convert(t) => pc'[t] # "attempt"
    BY <1>2 DEF RefuseConversion, Convert
  <2>4. WriteCodes(t) \/ WriteClaims(t) => pc'[t] # "attempt"
    BY <1>1, <1>2 DEF WriteCodes, WriteClaims
  <2> QED BY <2>1, <2>2, <2>3, <2>4 DEF CartStep
<1>4. Check(t) => pc'[t] # "attempt" /\ UNCHANGED delivery
  <2>1. Go(t, IF req[t].op = "fulfill" THEN "log_event"
              ELSE IF version = "04-08" THEN "reduce" ELSE "append") => pc'[t] # "attempt"
    BY <1>1
  <2> QED BY <1>2, <2>1 DEF Check
<1>5. Announce(t) => pc'[t] # "attempt"
  BY <1>1 DEF Announce
<1>6. Reduce(t) \/ LogAdjustment(t) \/ AppendAdjustment(t) \/ LogEvent(t) \/ CountFulfilled(t)
        => pc'[t] # "attempt" /\ UNCHANGED delivery
  BY <1>1, <1>5 DEF Reduce, LogAdjustment, AppendAdjustment, LogEvent, CountFulfilled
<1>7. GetOrder(t) \/ Respond(t) => pc'[t] # "attempt" /\ UNCHANGED delivery
  BY <1>2 DEF GetOrder, Respond
<1>8. /\ Attempt(t) => pc'[t] # "attempt"
      /\ Serialize(t) => UNCHANGED delivery
  BY <1>1 DEF Attempt, Serialize
<1>9. TestStatus(t) => pc'[t] # "attempt" /\ UNCHANGED delivery
  BY <1>1, <1>2 DEF TestStatus
<1>10. Place(t) \/ Reopen(t) \/ Abandon(t) => pc'[t] # "attempt" /\ UNCHANGED delivery
  BY <1>2, <1>5 DEF Place, Reopen, Abandon
<1> QED BY <1>3, <1>4, <1>6, <1>7, <1>8, <1>9, <1>10 DEF Step, OrderStep

\* Whoever has sent its event keeps its bytes.
LEMMA SentStays ==
    ASSUME Typed, NEW t \in Threads, Step(t), Moves(t), NEW u \in Threads, pc[u] \in Sent
    PROVE  pc'[u] \in Sent /\ local'[u] = local[u]
<1>1. CASE u # t
  BY <1>1 DEF Moves
<1>2. CASE u = t
  <2>1. pc[t] = "answer"
    BY <1>2 DEF Moves, Sent
  <2>2. Respond(t) \/ Serialize(t) \/ Attempt(t)
    BY <2>1, AnnouncingSteps DEF Announcing
  <2>3. Respond(t)
    BY <2>1, <2>2 DEF Serialize, Attempt, At
  <2> QED BY <1>2, <2>3 DEF Respond, Answer, Typed, ThreadTypes, Sent
<1> QED BY <1>1, <1>2

LEMMA AttemptDelivers ==
    ASSUME Typed, DeliveryInv, NEW t \in Threads, Attempt(t), Moves(t), HeardOK'
    PROVE  DeliveryInv'
<1>1. /\ pc[t] = "attempt" /\ pc'[t] = "answer" /\ local' = local /\ heard' = heard
      /\ Post(t, TRUE) \/ Post(t, FALSE)
      /\ \A u \in Threads \ {t} : pc'[u] = pc[u]
  BY DEF Attempt, At, Go, Typed, ThreadTypes, Moves
<1>2. local[t] \in Order /\ DeliveryTypes
  BY <1>1 DEF DeliveryInv, BytesOK
<1>3. \A u \in Threads : t \notin heard[u]
  BY <1>1 DEF DeliveryInv, HeardOK, Answered, At
<1>4. pc'[t] \in Sent
  BY <1>1 DEF Sent
<1>5. InOrder' /\ CopiesOK'
  BY <1>1, <1>2, <1>3, <1>4, PostKeepsOrder DEF DeliveryInv
<1>6. /\ DeliveryTypes' /\ retrying' \subseteq retrying \cup {t}
      /\ tries'[t] = tries[t] + 1 /\ \A u \in Threads \ {t} : tries'[u] = tries[u]
  BY <1>1, <1>2, Posted
<1>7. BytesOK'
  BY <1>1, <1>2, <1>6 DEF DeliveryInv, BytesOK
<1>8. BackgroundOK'
  <2>1. tries[t] \in Nat /\ retrying \subseteq Threads
    BY <1>2 DEF DeliveryTypes
  <2>2. tries'[t] >= 1
    BY <1>6, <2>1
  <2> QED BY <1>1, <1>4, <1>6, <2>1, <2>2 DEF DeliveryInv, BackgroundOK
<1> QED BY <1>5, <1>6, <1>7, <1>8 DEF DeliveryInv

LEMMA RetryDelivers ==
    ASSUME Typed, DeliveryInv, NEW t \in Threads, Deliver(t) PROVE DeliveryInv'
<1>1. /\ t \in retrying /\ pc' = pc /\ local' = local /\ heard' = heard
      /\ Post(t, TRUE) \/ Post(t, FALSE)
  BY DEF Deliver, Retry
<1>2. local[t] \in Order /\ DeliveryTypes /\ pc[t] \in Sent /\ tries[t] >= 1 /\ tries[t] \in Nat
  BY <1>1 DEF DeliveryInv, BytesOK, BackgroundOK, DeliveryTypes
<1>3. InOrder' /\ CopiesOK'
  BY <1>1, <1>2, PostKeepsOrder DEF DeliveryInv
<1>4. /\ DeliveryTypes' /\ retrying' \subseteq retrying \cup {t}
      /\ tries'[t] = tries[t] + 1 /\ \A u \in Threads \ {t} : tries'[u] = tries[u]
  BY <1>1, <1>2, Posted
<1>5. BytesOK'
  BY <1>1, <1>2, <1>4 DEF DeliveryInv, BytesOK
<1>6. BackgroundOK'
  <2>1. tries'[t] >= 1 /\ retrying \subseteq Threads
    BY <1>2, <1>4 DEF DeliveryTypes
  <2> QED BY <1>1, <1>4, <2>1 DEF DeliveryInv, BackgroundOK
<1>7. HeardOK'
  BY <1>1 DEF DeliveryInv, HeardOK, Answered, At
<1> QED BY <1>3, <1>4, <1>5, <1>6, <1>7 DEF DeliveryInv

LEMMA StepDelivers ==
    ASSUME Typed, DeliveryInv, NEW t \in Threads, Step(t) PROVE DeliveryInv'
<1>1. Moves(t)
  BY StepKeeps DEF Keeps
<1>2. HeardOK' /\ heard' = heard
  BY <1>1, StepHears DEF DeliveryInv
<1>3. CASE Attempt(t)
  BY <1>1, <1>2, <1>3, AttemptDelivers
<1>4. CASE ~Attempt(t)
  <2>1. UNCHANGED delivery /\ (pc'[t] = "attempt" => Serialize(t))
    BY <1>4, SendingSteps
  <2>2. /\ tries' = tries /\ retrying' = retrying /\ inbox' = inbox
    BY <2>1 DEF delivery
  <2>3. \A u \in Threads : pc[u] \in Sent => pc'[u] \in Sent /\ local'[u] = local[u]
    BY <1>1, SentStays
  <2>4. retrying \subseteq Threads /\ \A u \in retrying : pc[u] \in Sent
    BY DEF DeliveryInv, DeliveryTypes, BackgroundOK
  <2>5. \A i \in DOMAIN inbox : inbox[i].event \in Threads
    BY Messages DEF DeliveryInv
  <2>6. DeliveryTypes'
    BY <2>2 DEF DeliveryInv, DeliveryTypes
  <2>7. BackgroundOK' /\ CopiesOK' /\ InOrder'
    BY <1>2, <2>2, <2>3, <2>4, <2>5 DEF DeliveryInv, BackgroundOK, CopiesOK, InOrder
  <2>8. pc'[t] = "attempt" => local'[t] \in Order
    <3> SUFFICES ASSUME Serialize(t) PROVE local'[t] \in Order
      BY <2>1
    <3>1. pc[t] \in Announcing /\ Read(t, orders[Own(t)])
      BY DEF Serialize, At, Announcing
    <3>2. orders[Own(t)] \in Order
      BY <3>1, AnnouncingOK
    <3> QED BY <3>1, <3>2 DEF Read, Typed, ThreadTypes
  <2>9. BytesOK'
    <3> SUFFICES ASSUME NEW u \in Threads, pc'[u] = "attempt" \/ u \in retrying
                 PROVE  local'[u] \in Order
      BY <2>2 DEF BytesOK
    <3>1. CASE u \in retrying
      BY <2>3, <2>4, <3>1 DEF DeliveryInv, BytesOK
    <3>2. CASE pc'[u] = "attempt" /\ u # t
      BY <1>1, <3>2 DEF Moves, DeliveryInv, BytesOK
    <3> QED BY <2>8, <3>1, <3>2
  <2> QED BY <1>2, <2>6, <2>7, <2>9 DEF DeliveryInv
<1> QED BY <1>3, <1>4

LEMMA ArrivalDelivers ==
    ASSUME Typed, DeliveryInv, NEW t \in Threads, Begins(t) PROVE DeliveryInv'
<1>1. /\ pc[t] = "idle" /\ pc'[t] = req'[t].op /\ req'[t] \in Request
      /\ \A u \in Threads \ {t} : pc'[u] = pc[u]
      /\ tries' = tries /\ retrying' = retrying /\ inbox' = inbox /\ local' = local
  BY DEF Begins, delivery
<1>2. HeardOK' /\ \A u \in Threads \ {t} : heard'[u] = heard[u]
  BY ArrivalHears DEF DeliveryInv
<1>3. pc'[t] # "attempt"
  BY <1>1, RequestFields
<1>4. retrying \subseteq Threads \ {t}
  BY <1>1 DEF DeliveryInv, DeliveryTypes, BackgroundOK, Sent
<1>5. \A i \in DOMAIN inbox : inbox[i].event \in Threads \ {t}
  BY <1>1, Messages DEF DeliveryInv, CopiesOK, Sent
<1>6. DeliveryTypes'
  BY <1>1 DEF DeliveryInv, DeliveryTypes
<1>7. BytesOK' /\ BackgroundOK'
  BY <1>1, <1>3, <1>4 DEF DeliveryInv, BytesOK, BackgroundOK
<1>8. CopiesOK' /\ InOrder'
  BY <1>1, <1>2, <1>5 DEF DeliveryInv, CopiesOK, InOrder
<1> QED BY <1>2, <1>6, <1>7, <1>8 DEF DeliveryInv

LEMMA InitDelivers == Init => DeliveryInv
<1> SUFFICES ASSUME Init PROVE DeliveryInv
  OBVIOUS
<1>1. /\ \A t \in Threads : pc[t] = "idle"
      /\ tries = [t \in Threads |-> 0] /\ retrying = {} /\ inbox = << >>
  BY DEF Init, ThreadsInit, OrdersInit
<1>2. inbox \in Seq(Message) /\ DOMAIN inbox = {}
  BY <1>1
<1>3. DeliveryTypes
  BY <1>1, <1>2 DEF DeliveryTypes
<1> QED BY <1>1, <1>2, <1>3, InitHears DEF DeliveryInv, BytesOK, BackgroundOK, CopiesOK, InOrder

LEMMA DeliverySteps == Typed /\ DeliveryInv /\ [Next]_vars => DeliveryInv'
<1> SUFFICES ASSUME Typed, DeliveryInv, [Next]_vars PROVE DeliveryInv'
  OBVIOUS
<1>1. ASSUME NEW t \in Threads, Arrive(t) PROVE DeliveryInv'
  BY <1>1, ArriveKeeps, ArrivalDelivers
<1>2. CASE UNCHANGED vars
  <2>1. /\ pc' = pc /\ local' = local /\ heard' = heard /\ tries' = tries
        /\ retrying' = retrying /\ inbox' = inbox
    BY <1>2 DEF vars, delivery
  <2> QED BY <2>1 DEF DeliveryInv, HeardOK, Answered, At, DeliveryTypes, BytesOK, BackgroundOK,
         CopiesOK, InOrder
<1> QED BY <1>1, <1>2, StepDelivers, RetryDelivers, NextCases

\* Every copy of an event is the same, and only a retry comes after the event of a
\* request that arrived when its own had been answered.
THEOREM Deliveries == Spec => []OrderedUnlessRetried
<1>1. DeliveryInv => OrderedUnlessRetried
  BY DEF DeliveryInv, CopiesOK, InOrder, OrderedUnlessRetried
<1> QED BY <1>1, InitDelivers, DeliverySteps, SalesTypes, PTL DEF Spec

-----------------------------------------------------------------------------
(* Events: the last of an order's tells of the order as it is *)

\* What has made the order what it is, but for its fulfillments.
Changes(o) == orders[o].adjustments \cup ({o} \cap Threads)

\* A request that has changed order o, and has that to announce.
Changed(t, o) ==
    /\ pc[t] \in Announcing \cup {"done"}
    /\ req[t].op \in {"adjust", "complete"} /\ Own(t) = o

ChangesOK ==
    \A o \in Orders :
        orders[o] # None => \A t \in Changes(o) : t \in Threads /\ Changed(t, o)

\* Nobody has changed the order; somebody has half changed it; or somebody who
\* has changed it will make its event, or has made it of the order as it is.
Latest(o) ==
    \/ Changes(o) = {}
    \/ \E t \in Threads : Own(t) = o /\ pc[t] = "log"
    \/ \E t \in Changes(o) :
         \/ pc[t] = "serialize"
         \/ pc[t] \in {"attempt"} \cup Sent /\ local[t] = orders[o]

FinalInv ==
    /\ ChangesOK
    /\ version = "04-08" => \A o \in Subscribed : orders[o] # None => Latest(o)

LEMMA ChangesKeep ==
    ASSUME Typed, ChangesOK, NEW t \in Threads, Step(t), Moves(t),
           \A o \in Orders : orders'[o] # None =>
               \A u \in Changes(o)' :
                   \/ orders[o] # None /\ u \in Changes(o)
                   \/ u = t /\ Changed(t, o)'
    PROVE  ChangesOK'
<1>1. /\ req' = req /\ \A u \in Threads \ {t} : pc'[u] = pc[u]
      /\ pc[t] # "done"
  BY DEF Moves
<1>2. pc[t] \in Announcing => pc'[t] \in Announcing \cup {"done"}
  BY AnnouncingSteps
<1>3. ASSUME NEW o \in Orders, NEW u \in Threads, Changed(u, o) PROVE Changed(u, o)'
  <2>1. pc'[u] \in Announcing \cup {"done"}
    BY <1>1, <1>2, <1>3 DEF Changed
  <2>2. req'[u] = req[u] /\ Own(u)' = Own(u)
    BY <1>1 DEF Own, Target
  <2> QED BY <1>3, <2>1, <2>2 DEF Changed
<1>4. ASSUME NEW o \in Orders, orders'[o] # None, NEW u \in Changes(o)'
      PROVE  u \in Threads /\ Changed(u, o)'
  <2>1. CASE orders[o] # None /\ u \in Changes(o)
    BY <1>3, <2>1 DEF ChangesOK
  <2>2. CASE u = t /\ Changed(t, o)'
    BY <2>2
  <2> QED BY <1>4, <2>1, <2>2
<1> QED BY <1>4 DEF ChangesOK

\* An order that a step of t leaves alone, when t has no part in its last event.
LEMMA LatestStays ==
    ASSUME NEW o \in Orders, NEW t \in Threads, Moves(t), orders'[o] = orders[o], Latest(o),
           pc[t] \notin {"serialize", "attempt"} \cup Sent,
           pc[t] = "log" => Own(t) # o,
           Changes(o) \subseteq Threads
    PROVE  Latest(o)'
<1>1. /\ req' = req /\ \A u \in Threads \ {t} : pc'[u] = pc[u] /\ local'[u] = local[u]
  BY DEF Moves
<1>2. Changes(o)' = Changes(o) /\ \A u \in Threads : Own(u)' = Own(u)
  BY <1>1 DEF Changes, Own, Target
<1> QED BY <1>1, <1>2 DEF Latest

\* A change of an order, its adjustments, and the others.
LEMMA OrderChanges ==
    ASSUME Typed, NEW t \in Threads,
           \/ Reduce(t) \/ LogAdjustment(t) \/ AppendAdjustment(t) \/ LogEvent(t)
           \/ CountFulfilled(t),
           UNCHANGED cartState
    PROVE  \E o \in Orders, old \in Order, new \in Order :
             /\ o = Target(t) /\ Own(t) = o /\ orders[o] = old
             /\ \A p \in Orders : orders'[p] = IF p = o THEN new ELSE orders[p]
             /\ \/ LogAdjustment(t) \/ AppendAdjustment(t)
                \/ new.adjustments = old.adjustments
             /\ \A u \in new.adjustments : u = t \/ u \in old.adjustments
             /\ LogAdjustment(t) => t \in new.adjustments
<1>1. pc[t] \in {"reduce", "log", "append", "log_event", "count"}
  BY DEF Reduce, LogAdjustment, AppendAdjustment, LogEvent, CountFulfilled, At
<1>2. Target(t) \in Orders /\ orders[Target(t)] \in Order /\ Own(t) = Target(t)
      /\ req[t].qty \in Nat
  BY <1>1, AboutOrder DEF Adjusting, Fulfilling
<1>3. PICK o \in Orders, old \in Order, q \in Nat :
          o = Target(t) /\ old = orders[o] /\ q = req[t].qty
  BY <1>2
<1>4. old.total - q \in Int /\ old.fulfilled + q \in Int
  BY DEF Order
<1>5. PICK less \in Int, more \in Int : less = old.total - q /\ more = old.fulfilled + q
  BY <1>4
<1>6. ASSUME NEW new \in Order, orders' = [orders EXCEPT ![Target(t)] = new]
      PROVE  \A p \in Orders : orders'[p] = IF p = o THEN new ELSE orders[p]
  BY <1>3, <1>6 DEF Typed, OrderTypes
<1>7. ASSUME Reduce(t)
      PROVE  \E new \in Order :
               /\ \A p \in Orders : orders'[p] = IF p = o THEN new ELSE orders[p]
               /\ new.adjustments = old.adjustments
  <2>1. PICK new \in Order : new = Reduced(old, less)
    BY RowTypes
  <2>2. orders' = [orders EXCEPT ![Target(t)] = new]
    BY <1>3, <1>5, <1>7, <2>1, ReduceKeeps
  <2>3. new.adjustments = old.adjustments
    BY <2>1, RowFields
  <2> QED BY <1>6, <2>1, <2>2, <2>3
<1>8. ASSUME CountFulfilled(t)
      PROVE  \E new \in Order :
               /\ \A p \in Orders : orders'[p] = IF p = o THEN new ELSE orders[p]
               /\ new.adjustments = old.adjustments
  <2>1. PICK new \in Order : new = Counted(old, more)
    BY RowTypes
  <2>2. orders' = [orders EXCEPT ![Target(t)] = new]
    BY <1>3, <1>5, <1>8, <2>1, CountKeeps
  <2>3. new.adjustments = old.adjustments
    BY <2>1, RowFields
  <2> QED BY <1>6, <2>1, <2>2, <2>3
<1>9. ASSUME LogEvent(t)
      PROVE  \E new \in Order :
               /\ \A p \in Orders : orders'[p] = IF p = o THEN new ELSE orders[p]
               /\ new.adjustments = old.adjustments
  <2>1. PICK new \in Order : new = Dispatched(old, t)
    BY RowTypes
  <2>2. orders' = [orders EXCEPT ![Target(t)] = new]
    BY <1>3, <1>9, <2>1, LogEventKeeps
  <2>3. new.adjustments = old.adjustments
    BY <2>1, RowFields
  <2> QED BY <1>6, <2>1, <2>2, <2>3
<1>10. ASSUME LogAdjustment(t) \/ AppendAdjustment(t)
       PROVE  \E new \in Order :
                /\ \A p \in Orders : orders'[p] = IF p = o THEN new ELSE orders[p]
                /\ new.adjustments = old.adjustments \cup {t}
  <2>1. PICK new \in Order : new = Logged(old, t)
    BY RowTypes
  <2>2. orders' = [orders EXCEPT ![Target(t)] = new]
    BY <1>3, <1>10, <2>1, AdjustmentKeeps
  <2>3. new.adjustments = old.adjustments \cup {t}
    BY <2>1, RowFields
  <2> QED BY <1>6, <2>1, <2>2, <2>3
<1>11. CASE LogAdjustment(t) \/ AppendAdjustment(t)
  <2>1. PICK new \in Order :
           /\ \A p \in Orders : orders'[p] = IF p = o THEN new ELSE orders[p]
           /\ new.adjustments = old.adjustments \cup {t}
    BY <1>10, <1>11
  <2>2. /\ \A u \in new.adjustments : u = t \/ u \in old.adjustments
        /\ t \in new.adjustments
    BY <2>1
  <2> QED BY <1>2, <1>3, <1>11, <2>1, <2>2
<1>12. CASE ~(LogAdjustment(t) \/ AppendAdjustment(t))
  <2>1. PICK new \in Order :
           /\ \A p \in Orders : orders'[p] = IF p = o THEN new ELSE orders[p]
           /\ new.adjustments = old.adjustments
    BY <1>7, <1>8, <1>9, <1>12
  <2>2. \A u \in new.adjustments : u = t \/ u \in old.adjustments
    BY <2>1
  <2> QED BY <1>2, <1>3, <1>12, <2>1, <2>2
<1> QED BY <1>11, <1>12

LEMMA OrderChangeAnnounced ==
    ASSUME Typed, FinalInv, NEW t \in Threads, Step(t), Moves(t), Typed', version' = version,
           \/ Reduce(t) \/ LogAdjustment(t) \/ AppendAdjustment(t) \/ LogEvent(t)
           \/ CountFulfilled(t),
           UNCHANGED cartState
    PROVE  FinalInv'
<1>1. PICK o \in Orders, old \in Order, new \in Order :
          /\ o = Target(t) /\ Own(t) = o /\ orders[o] = old
          /\ \A p \in Orders : orders'[p] = IF p = o THEN new ELSE orders[p]
          /\ \/ LogAdjustment(t) \/ AppendAdjustment(t)
             \/ new.adjustments = old.adjustments
          /\ \A u \in new.adjustments : u = t \/ u \in old.adjustments
          /\ LogAdjustment(t) => t \in new.adjustments
  BY OrderChanges
<1>2. /\ old # None /\ new # None /\ orders'[o] = new
      /\ \A p \in Orders \ {o} : orders'[p] = orders[p]
  BY <1>1, OrderAssumption
<1>3. /\ pc[t] \in {"reduce", "log", "append", "log_event", "count"}
      /\ LogAdjustment(t) \/ AppendAdjustment(t) =>
           req[t].op = "adjust" /\ pc'[t] \in {"serialize", "answer"}
      /\ Reduce(t) => pc'[t] = "log"
      /\ LogAdjustment(t) /\ o \in Subscribed => pc'[t] = "serialize"
      /\ version = "04-08" => Reduce(t) \/ LogAdjustment(t)
      /\ LogAdjustment(t) => pc[t] = "log"
  <2>1. /\ Reduce(t) => pc[t] = "reduce" /\ Go(t, "log")
        /\ LogAdjustment(t) => pc[t] = "log" /\ Announce(t)
        /\ AppendAdjustment(t) => pc[t] = "append" /\ Go(t, "answer")
        /\ LogEvent(t) => pc[t] = "log_event"
        /\ CountFulfilled(t) => pc[t] = "count"
    BY DEF Reduce, LogAdjustment, AppendAdjustment, LogEvent, CountFulfilled, At
  <2>2. /\ \A l : Go(t, l) => pc'[t] = l
        /\ Announce(t) => pc'[t] \in {"serialize", "answer"}
        /\ Announce(t) /\ o \in Subscribed => pc'[t] = "serialize"
    BY <1>1 DEF Announce, Go, Typed, ThreadTypes
  <2>3. /\ pc[t] \in Adjusting => req[t].op = "adjust"
        /\ pc[t] \in {"append", "log_event", "count"} => version # "04-08"
    BY DEF Typed, ThreadOK
  <2> QED BY <2>1, <2>2, <2>3 DEF Adjusting
<1>4. /\ req' = req /\ Own(t)' = o /\ \A u \in Threads \ {t} : pc'[u] = pc[u]
      /\ \A u \in Threads : Own(u)' = Own(u)
  BY <1>1 DEF Moves, Own, Target
<1>5. ChangesOK'
  <2>1. ASSUME NEW p \in Orders, orders'[p] # None, NEW u \in Changes(p)'
        PROVE  \/ orders[p] # None /\ u \in Changes(p)
               \/ u = t /\ Changed(t, p)'
    <3>1. CASE p # o
      BY <1>2, <2>1, <3>1 DEF Changes
    <3>2. CASE p = o /\ u \in Changes(o)
      BY <1>1, <1>2, <3>2
    <3>3. CASE p = o /\ u \notin Changes(o)
      <4>1. u \in new.adjustments /\ u \notin old.adjustments
        BY <1>1, <1>2, <2>1, <3>3 DEF Changes
      <4>2. u = t /\ (LogAdjustment(t) \/ AppendAdjustment(t))
        BY <1>1, <4>1
      <4>3. Changed(t, o)'
        BY <1>3, <1>4, <4>2 DEF Changed, Announcing
      <4> QED BY <3>3, <4>2, <4>3
    <3> QED BY <3>1, <3>2, <3>3
  <2> QED BY <2>1, ChangesKeep DEF FinalInv
<1>6. ASSUME version = "04-08", NEW p \in Subscribed, orders'[p] # None PROVE Latest(p)'
  <2>1. p \in Orders
    BY OrdersAssumption
  <2>2. CASE p = o /\ Reduce(t)
    BY <1>3, <1>4, <2>2 DEF Latest
  <2>3. CASE p = o /\ LogAdjustment(t)
    <3>1. t \in Changes(p)' /\ pc'[t] = "serialize"
      BY <1>1, <1>2, <1>3, <2>3 DEF Changes
    <3> QED BY <3>1 DEF Latest
  <2>4. CASE p # o
    <3>1. orders'[p] = orders[p] /\ orders[p] # None
      BY <1>2, <1>6, <2>1, <2>4
    <3>2. Latest(p) /\ Changes(p) \subseteq Threads
      BY <1>6, <2>1, <3>1 DEF FinalInv, ChangesOK
    <3>3. pc[t] \notin {"serialize", "attempt"} \cup Sent
      BY <1>3 DEF Sent
    <3> QED BY <1>1, <2>1, <2>4, <3>1, <3>2, <3>3, LatestStays
  <2> QED BY <1>3, <1>6, <2>2, <2>3, <2>4
<1> QED BY <1>5, <1>6 DEF FinalInv

LEMMA SaleAnnounced ==
    ASSUME Typed, FinalInv, NEW t \in Threads, Step(t), Moves(t), Place(t), version' = version
    PROVE  FinalInv'
<1>1. /\ pc[t] = "place" /\ Announce(t) /\ orders' = [orders EXCEPT ![t] = NewOrder]
  BY DEF Place, At
<1>2. req[t].op = "complete" /\ Own(t) = t /\ t \in Orders
  BY <1>1, CheckoutFields DEF Own, Orders
<1>3. \A p \in Orders : orders'[p] = IF p = t THEN NewOrder ELSE orders[p]
  BY <1>1 DEF Typed, OrderTypes
<1>4. /\ pc'[t] \in {"serialize", "answer"}
      /\ t \in Subscribed => pc'[t] = "serialize"
  BY <1>1, <1>2 DEF Announce, Go, Typed, ThreadTypes
<1>5. req' = req /\ Own(t)' = t
  BY <1>2 DEF Moves, Own
<1>6. Changes(t)' = {t}
  BY <1>2, <1>3 DEF Changes, NewOrder
<1>7. ChangesOK'
  <2>1. Changed(t, t)'
    BY <1>2, <1>4, <1>5 DEF Changed, Announcing
  <2>2. ASSUME NEW p \in Orders, orders'[p] # None, NEW u \in Changes(p)'
        PROVE  \/ orders[p] # None /\ u \in Changes(p)
               \/ u = t /\ Changed(t, p)'
    <3>1. CASE p = t
      BY <1>6, <2>1, <2>2, <3>1
    <3>2. CASE p # t
      BY <1>3, <2>2, <3>2 DEF Changes
    <3> QED BY <3>1, <3>2
  <2> QED BY <2>2, ChangesKeep DEF FinalInv
<1>8. ASSUME version = "04-08", NEW p \in Subscribed, orders'[p] # None PROVE Latest(p)'
  <2>1. p \in Orders
    BY OrdersAssumption
  <2>2. CASE p = t
    BY <1>4, <1>6, <2>2 DEF Latest
  <2>3. CASE p # t
    <3>1. orders'[p] = orders[p] /\ orders[p] # None
      BY <1>3, <1>8, <2>1, <2>3
    <3>2. Latest(p) /\ Changes(p) \subseteq Threads
      BY <1>8, <2>1, <3>1 DEF FinalInv, ChangesOK
    <3>3. pc[t] \notin {"serialize", "attempt", "log"} \cup Sent
      BY <1>1 DEF Sent
    <3> QED BY <2>1, <3>1, <3>2, <3>3, LatestStays
  <2> QED BY <2>2, <2>3
<1> QED BY <1>7, <1>8 DEF FinalInv

\* Making and sending an event, and answering.
LEMMA AnnouncementAnnounced ==
    ASSUME Typed, FinalInv, NEW t \in Threads, Step(t), Moves(t), pc[t] \in Announcing
    PROVE  FinalInv'
<1>1. /\ Respond(t) \/ Serialize(t) \/ Attempt(t)
      /\ orders' = orders /\ version' = version
  BY AnnouncingSteps DEF tables
<1>2. /\ req' = req /\ \A u \in Threads : Own(u)' = Own(u)
      /\ \A u \in Threads \ {t} : pc'[u] = pc[u] /\ local'[u] = local[u]
  BY DEF Moves, Own, Target
<1>3. \A p : Changes(p)' = Changes(p)
  BY <1>1 DEF Changes
<1>4. ChangesOK'
  BY <1>1, <1>3, ChangesKeep DEF FinalInv
<1>5. /\ pc[t] # "log" /\ pc[t] # "done"
      /\ pc[t] = "serialize" => pc'[t] = "attempt" /\ local'[t] = orders[Own(t)]
      /\ pc[t] # "serialize" => pc'[t] \in Sent /\ local'[t] = local[t]
  BY <1>1 DEF Respond, Serialize, Attempt, At, Go, Read, Answer, Typed, ThreadTypes, Sent
<1>6. ASSUME version = "04-08", NEW p \in Subscribed, orders[p] # None PROVE Latest(p)'
  <2>1. p \in Orders /\ Latest(p) /\ \A u \in Changes(p) : u \in Threads /\ Own(u) = p
    BY <1>6, OrdersAssumption DEF FinalInv, ChangesOK, Changed
  <2>2. CASE Changes(p) = {}
    BY <1>3, <2>2 DEF Latest
  <2>3. ASSUME NEW u \in Threads, Own(u) = p, pc[u] = "log" PROVE Latest(p)'
    BY <1>2, <1>5, <2>3 DEF Latest
  <2>4. ASSUME NEW u \in Changes(p),
               \/ pc[u] = "serialize"
               \/ pc[u] \in {"attempt"} \cup Sent /\ local[u] = orders[p]
        PROVE  Latest(p)'
    <3>1. CASE u # t
      BY <1>1, <1>2, <1>3, <2>1, <2>4, <3>1 DEF Latest
    <3>2. CASE u = t
      <4>1. pc'[t] \in {"attempt"} \cup Sent /\ local'[t] = orders[p]
        BY <1>5, <2>1, <2>4, <3>2
      <4> QED BY <1>1, <1>3, <2>4, <3>2, <4>1 DEF Latest
    <3> QED BY <3>1, <3>2
  <2> QED BY <2>1, <2>2, <2>3, <2>4 DEF Latest
<1> QED BY <1>1, <1>4, <1>6 DEF FinalInv

LEMMA StepAnnounced ==
    ASSUME Typed, FinalInv, NEW t \in Threads, Step(t) PROVE FinalInv'
<1>1. Keeps(t)
  BY StepKeeps
<1>2. Moves(t) /\ Typed' /\ version' = version
  BY <1>1 DEF Keeps, RowsStay
<1>3. CASE UNCHANGED <<orders, lock>> /\ pc[t] \notin Held /\ pc[t] \notin Announcing
  <2>1. orders' = orders /\ \A p : Changes(p)' = Changes(p)
    BY <1>3 DEF Changes
  <2>2. ChangesOK'
    BY <1>2, <2>1, ChangesKeep DEF FinalInv
  <2>3. pc[t] \notin {"serialize", "attempt", "log"} \cup Sent
    BY <1>2, <1>3 DEF Moves, Held, Announcing, Sent
  <2>4. ASSUME version = "04-08", NEW p \in Subscribed, orders[p] # None PROVE Latest(p)'
    <3>1. p \in Orders /\ Latest(p) /\ Changes(p) \subseteq Threads
      BY <2>4, OrdersAssumption DEF FinalInv, ChangesOK
    <3> QED BY <1>2, <2>1, <2>3, <3>1, LatestStays
  <2> QED BY <1>2, <2>1, <2>2, <2>4 DEF FinalInv
<1> QED BY <1>2, <1>3, LedgerSteps, OrderChangeAnnounced, SaleAnnounced, AnnouncementAnnounced

LEMMA ArrivalAnnounced ==
    ASSUME Typed, FinalInv, NEW t \in Threads, Begins(t) PROVE FinalInv'
<1>1. /\ pc[t] = "idle" /\ orders' = orders /\ version' = version /\ local' = local
      /\ \A u \in Threads \ {t} : pc'[u] = pc[u] /\ req'[u] = req[u]
  BY DEF Begins, tables
<1>2. \A p : Changes(p)' = Changes(p)
  BY <1>1 DEF Changes
<1>3. \A p \in Orders : orders[p] # None => Changes(p) \subseteq Threads \ {t}
  BY <1>1 DEF FinalInv, ChangesOK, Changed, Announcing
<1>4. \A u \in Threads \ {t} : Own(u)' = Own(u)
  BY <1>1 DEF Own, Target
<1>5. ChangesOK'
  <2> SUFFICES ASSUME NEW p \in Orders, orders[p] # None, NEW u \in Changes(p)
               PROVE  u \in Threads /\ Changed(u, p)'
    BY <1>1, <1>2 DEF ChangesOK
  <2>1. u \in Threads \ {t} /\ Changed(u, p)
    BY <1>3 DEF FinalInv, ChangesOK
  <2> QED BY <1>1, <1>4, <2>1 DEF Changed
<1>6. ASSUME version = "04-08", NEW p \in Subscribed, orders[p] # None PROVE Latest(p)'
  <2>1. p \in Orders /\ Latest(p)
    BY <1>6, OrdersAssumption DEF FinalInv
  <2>2. Changes(p) \subseteq Threads \ {t}
    BY <1>3, <1>6, <2>1
  <2> QED BY <1>1, <1>2, <1>4, <2>1, <2>2 DEF Latest
<1> QED BY <1>1, <1>5, <1>6 DEF FinalInv

LEMMA InitAnnounced == Init => FinalInv
<1> SUFFICES ASSUME Init, NEW o \in Orders, orders[o] # None PROVE Changes(o) = {}
  BY OrdersAssumption DEF FinalInv, ChangesOK, Latest
<1>1. o \in OrderSeeds /\ orders[o] = NewOrder
  BY DEF Init, OrdersInit
<1> QED BY <1>1, OrdersAssumption DEF Changes, NewOrder

\* Whoever has got every event of an order has got one that tells of it as it is.
THEOREM FinalStates == Spec => []FinalStateAnnounced
<1>1. Typed /\ FinalInv /\ [Next]_vars => FinalInv'
  <2> SUFFICES ASSUME Typed, FinalInv, [Next]_vars PROVE FinalInv'
    OBVIOUS
  <2>1. ASSUME NEW t \in Threads, Arrive(t) PROVE FinalInv'
    BY <2>1, ArriveKeeps, ArrivalAnnounced
  <2>2. ASSUME NEW t \in Threads, Step(t) PROVE FinalInv'
    BY <2>2, StepAnnounced
  <2>3. CASE Bystander
    <3>1. pc' = pc /\ req' = req /\ orders' = orders /\ local' = local /\ version' = version
      BY <2>3 DEF Bystander, tables
    <3> QED BY <3>1 DEF FinalInv, ChangesOK, Changed, Latest, Changes, Own, Target
  <2> QED BY <2>1, <2>2, <2>3, NextCases DEF Bystander, Deliver, Retry, vars
<1>2. FinalInv /\ DeliveryInv => FinalStateAnnounced
  <2> SUFFICES ASSUME FinalInv, DeliveryInv, NEW o \in Subscribed,
                      version = "04-08", orders[o] # None, Answered = Threads,
                      orders[o].adjustments \cup ({o} \cap Threads) # {},
                      orders[o].adjustments \cup ({o} \cap Threads)
                        \subseteq {inbox[i].event : i \in DOMAIN inbox}
               PROVE  \E i \in DOMAIN inbox : inbox[i].body = orders[o]
    BY DEF FinalStateAnnounced
  <2>1. Latest(o) /\ Changes(o) # {} /\ o \in Orders
    BY OrdersAssumption DEF FinalInv, Changes
  <2>2. \A u \in Threads : pc[u] = "done"
    BY DEF Answered, At
  <2>3. Changes(o) \subseteq Threads
    BY <2>1 DEF FinalInv, ChangesOK
  <2>4. PICK t \in Changes(o) : local[t] = orders[o]
    BY <2>1, <2>2, <2>3 DEF Latest
  <2>5. PICK i \in DOMAIN inbox : inbox[i].event = t
    BY <2>4 DEF Changes
  <2> QED BY <2>4, <2>5 DEF DeliveryInv, CopiesOK
<1> QED BY <1>1, <1>2, InitAnnounced, InitDelivers, DeliverySteps, SalesTypes, PTL DEF Spec
=============================================================================
