------------------------------ MODULE MCFixture ------------------------------
(***************************************************************************)
(* Instances of FixtureMerchant for TLC: four requests that share a key, a *)
(* cart and a checkout.                                                    *)
(***************************************************************************)
EXTENDS FixtureMerchant, TLC

CONSTANTS t1, t2, t3, t4, s1, k1, c1, apple, plum, ghost

Create_(lines, key, cart) == [op |-> "create", lines |-> lines, key |-> key, cart |-> cart]
Complete_(id, token) == [op |-> "complete", id |-> id, token |-> token]
Cancel_(id) == [op |-> "cancel", id |-> id]
Update_(id, lines) == [op |-> "update", id |-> id, lines |-> lines]
Age_(key) == [op |-> "age", key |-> key]

AppleCart == [c \in {c1} |-> apple]

\* Creates under one key, refused ones among them, race for the claim while
\* the key ages, its storage fails, and the cart is filled anew or canceled.
KeyMenu ==
    (t1 :> {Create_(apple, k1, None), Create_(ghost, k1, None), Create_(apple, k1, c1)})
    @@ (t2 :> {Create_(apple, k1, None), Create_(plum, None, c1), Complete_(t1, "good")})
    @@ (t3 :> {Create_(plum, k1, None), Age_(k1), Cancel_(t1),
               [op |-> "update_cart", cart |-> c1, lines |-> plum]})
    @@ (t4 :> {Create_(apple, k1, None), [op |-> "cancel_cart", cart |-> c1],
               [op |-> "outage", enabled |-> TRUE]})

\* A checkout is bought twice, changed, escalated and canceled.
OrderMenu ==
    (t1 :> {Complete_(s1, "good"), Complete_(s1, "escalated")})
    @@ (t2 :> {Complete_(s1, "good"), Update_(s1, plum)})
    @@ (t3 :> {Cancel_(s1), Update_(s1, ghost)})
    @@ (t4 :> {Complete_(s1, "declined"), Update_(t1, apple),
               Cancel_(t4)})

EitherMenu == [t \in Threads |-> KeyMenu[t] \cup OrderMenu[t]]
=============================================================================
