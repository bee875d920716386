------------------------------ MODULE MCEvents ------------------------------
(***************************************************************************)
(* An instance of OrderEvents for TLC: one order sold before, one that may *)
(* be sold, and requests that ship and update them.                        *)
(***************************************************************************)
EXTENDS OrderEvents, TLC

CONSTANTS h1, h2, h3, s1

On(op, order) == [op |-> op, order |-> order]

EventJobs ==
    (h1 :> {On("place", h1), On("ship", s1)})
    @@ (h2 :> {On("ship", s1), On("update", s1), On("ship", h1)})
    @@ (h3 :> {On("place", h3), On("update", s1)})

\* Order h3, if it is sold, has no webhook url.
WithUrl == OrderIds \ {h3}
=============================================================================
