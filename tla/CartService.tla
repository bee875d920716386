----------------------------- MODULE CartService -----------------------------
(***************************************************************************)
(* The cart operations of the golden merchant (services/cart_service.py).  *)
(*                                                                         *)
(* No cart operation writes before its commit, so none of its reads is     *)
(* under the write lock.  save_cart and delete_cart_session read the row   *)
(* once more and decide, by what they find, what the commit will do.       *)
(***************************************************************************)
EXTENDS GoldenDb

LookupCart(p) ==
    /\ At(p, "lookup") /\ req[p].op \in CartOps /\ KeyFree(p)
    /\ IF req[p].op = "create_cart"
       THEN Go(p, "insert_cart") /\ draft' = [draft EXCEPT ![p] = req[p].lines]
       ELSE Go(p, "read_cart") /\ UNCHANGED draft
    /\ UNCHANGED <<tables, writer, req, resp, placed, crashes>>

\* The existence check.  An update replaces the line items it has read, a
\* cancel answers with the cart it has read.
ReadCart(p) ==
    /\ At(p, "read_cart")
    /\ LET lines == carts[req[p].id] IN
       IF lines = None THEN Answer(p, "not_found", None)
       ELSE /\ draft' = [draft EXCEPT
                 ![p] = IF req[p].op = "update_cart" THEN req[p].lines ELSE lines]
            /\ Go(p, "stage_cart")
            /\ UNCHANGED <<req, resp>>
    /\ UNCHANGED <<tables, writer, placed, crashes>>

\* save_cart: a row found is overwritten, a row missing is inserted.
\* delete_cart_session: a row found is deleted, a row missing is let be.
StageCart(p) ==
    /\ At(p, "stage_cart")
    /\ LET found == carts[req[p].id] # None IN
       Go(p, IF req[p].op = "update_cart"
             THEN IF found THEN "overwrite_cart" ELSE "insert_cart"
             ELSE IF found THEN "delete_cart" ELSE "keep_cart")
    /\ UNCHANGED <<tables, writer, req, draft, resp, placed, crashes>>

CartCommits == {"insert_cart", "overwrite_cart", "delete_cart", "keep_cart"}

\* What the flush of the staged write does to the row it meets.
Flushed(p) ==
    CASE pc[p] \in {"insert_cart", "overwrite_cart"} -> draft[p]
      [] pc[p] = "delete_cart" -> None
      [] OTHER -> carts[Target(p)]

\* An INSERT over an existing primary key (IntegrityError), an UPDATE of a
\* deleted row (StaleDataError); a DELETE of a deleted row only warns.
FlushFails(p) ==
    \/ At(p, "insert_cart") /\ carts[Target(p)] # None
    \/ At(p, "overwrite_cart") /\ carts[Target(p)] = None

\* Defect: the cart is committed without a record.
CommitCartUnrecorded(p) ==
    /\ pc[p] \in CartCommits /\ LockFree /\ KeyFree(p) /\ ~FlushFails(p)
    /\ carts' = [carts EXCEPT ![Target(p)] = Flushed(p)]
    /\ Answer(p, "ok", [id |-> Target(p), content |-> draft[p]])
    /\ UNCHANGED <<checkouts, inventory, orders, idempotency, writer, placed, crashes>>

CommitCart(p) ==
    /\ pc[p] \in CartCommits /\ LockFree /\ KeyFree(p) /\ ~FlushFails(p)
    /\ carts' = [carts EXCEPT ![Target(p)] = Flushed(p)]
    /\ SaveRecord(p, [id |-> Target(p), content |-> draft[p]])
    /\ Answer(p, "ok", [id |-> Target(p), content |-> draft[p]])
    /\ UNCHANGED <<checkouts, inventory, orders, writer, placed, crashes>>

CommitCartRaced(p) ==
    /\ pc[p] \in CartCommits /\ LockFree
    /\ LoseRace(p)
    /\ UNCHANGED writer

\* No winner holds the key, or the error is not an IntegrityError: a 500.
CommitCartFails(p) ==
    /\ pc[p] \in CartCommits /\ LockFree /\ FlushFails(p)
    /\ KeyFree(p) \/ At(p, "overwrite_cart")
    /\ Answer(p, "server_error", None)
    /\ UNCHANGED <<tables, writer, placed, crashes>>

CartStep(p) ==
    \/ LookupCart(p) \/ ReadCart(p) \/ StageCart(p)
    \/ CommitCart(p) \/ CommitCartRaced(p) \/ CommitCartFails(p)
=============================================================================
