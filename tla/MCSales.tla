------------------------------- MODULE MCSales -------------------------------
(***************************************************************************)
(* An instance of FixtureSales for TLC: carts made under one key, a cart   *)
(* updated, converted and canceled, its checkout bought, another cart of   *)
(* which a checkout was made before, and an order sold before adjusted and *)
(* fulfilled.                                                              *)
(***************************************************************************)
EXTENDS FixtureSales, TLC

CONSTANTS t1, t2, t3, c1, c2, k1, o1, key, apple, plum

Create_(body) == [op |-> "create", body |-> body, key |-> key]
Update_(cart) == [op |-> "update", cart |-> cart, body |-> plum]
On(op, cart) == [op |-> op, cart |-> cart]
Pay_(checkout) == [op |-> "complete", checkout |-> checkout]
Escalate_(checkout) == [op |-> "escalate", checkout |-> checkout]
Abandon_(checkout) == [op |-> "abandon", checkout |-> checkout]
Get_(order) == [op |-> "get_order", order |-> order]
Some(op, order, qty) == [op |-> op, order |-> order, qty |-> qty]

SalesSeedCart == k1 :> c2

SalesMenu ==
    (t1 :> {Create_(apple), On("convert", c1), Pay_(k1), Escalate_(k1),
            Some("adjust", o1, 2), Some("fulfill", o1, 2)})
    @@ (t2 :> {Create_(apple), Create_(plum), On("convert", c1), Update_(c1),
               Abandon_(t1), Abandon_(k1), Pay_(t1), Some("adjust", o1, 1), Some("fulfill", o1, 1)})
    @@ (t3 :> {Create_(apple), [Create_(plum) EXCEPT !.key = None], On("convert", c1), On("convert", c2),
               Update_(c1), Update_(t1), On("cancel", c1), On("get_cart", c1),
               Some("adjust", t1, 3), Some("fulfill", o1, 2), Get_(o1), Get_(t3)})
=============================================================================
