------------------------------ MODULE MCGolden ------------------------------
(***************************************************************************)
(* Instances of GoldenServer for TLC.  Request sets are written as menus:  *)
(* what each arriving request may ask for.                                 *)
(***************************************************************************)
EXTENDS GoldenServer, TLC

CONSTANTS p1, p2, p3, s1, s2, k1, k2, rose, lily

Qty(r, l) == [i \in Items |-> IF i = rose THEN r ELSE l]
Whole(r, l) == [qty |-> Qty(r, l), split |-> FALSE]
Split(r, l) == [qty |-> Qty(r, l), split |-> TRUE]

OpenRow(lines, cart) ==
    [status |-> "ready_for_complete", lines |-> lines, ship |-> TRUE,
     cart_id |-> cart, order |-> None]

Ask(op, id, key) ==
    [op |-> op, id |-> id, key |-> key, cart_id |-> None, lines |-> None,
     ship |-> "keep", pay |-> TRUE]

Create(key, lines) ==
    [Ask("create_checkout", None, key) EXCEPT !.lines = lines, !.ship = "set"]
Convert(key, cart) ==
    [Ask("create_checkout", None, key) EXCEPT !.cart_id = cart, !.ship = "set"]
Amend(id, key, lines, ship) ==
    [Ask("update_checkout", id, key) EXCEPT !.lines = lines, !.ship = ship]
Buy(id, key) == Ask("complete_checkout", id, key)
Declined(id, key) == [Buy(id, key) EXCEPT !.pay = FALSE]
Abandon(id, key) == Ask("cancel_checkout", id, key)
NewCart(key, lines) == [Ask("create_cart", None, key) EXCEPT !.lines = lines]
Refill(id, key, lines) == [Ask("update_cart", id, key) EXCEPT !.lines = lines]
Drop(id, key) == Ask("cancel_cart", id, key)

Stock == [i \in Items |-> 2]

Symmetry == Permutations(Requests)

(* Two open checkouts that compete for two roses, and their requests. *)
RaceCheckouts == (s1 :> OpenRow(Whole(1, 2), None)) @@ (s2 :> OpenRow(Split(2, 0), None))
NoCarts == [s \in Seeds |-> None]
RaceMenu ==
    [p \in Requests |->
        UNION {{Buy(s1, k), Buy(s2, k), Abandon(s1, k), Declined(s1, k),
                Amend(s1, k, None, "unset"), Amend(s2, k, Split(2, 2), "keep")}
               : k \in Keys}
        \cup {Create(k1, Split(2, 0)), Create(k2, Whole(2, 0))}]

(* Two carts, one of them with an open checkout.  The third request asks   *)
(* for less, to keep the instance in reach of the liveness check.          *)
CartCheckouts == (s1 :> OpenRow(Whole(1, 0), s1)) @@ (s2 :> None)
TwoCarts == (s1 :> Whole(1, 0)) @@ (s2 :> Whole(0, 1))
CartMenu ==
    LET late == {Convert(k1, s1), Convert(k1, p2), Buy(s1, k1), Buy(p1, k2), Drop(s1, k2)}
    IN  [p \in Requests |->
            IF p = p3 THEN late
            ELSE late \cup
                 {Convert(k2, s1), Convert(k1, s2), Refill(s1, k2, Whole(2, 0)),
                  NewCart(k1, Whole(2, 0)), NewCart(k1, Whole(1, 0)), Buy(s1, k2),
                  Declined(s1, k2), Abandon(s1, k1), Amend(s1, k1, None, "unset")}]
=============================================================================
