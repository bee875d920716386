------------------------------ MODULE MCVerdict ------------------------------
(* Four checks over two versions, a row that no check cites, and every kind   *)
(* of server.                                                               *)
EXTENDS Verdict

CONSTANTS discovery, totals, refunds, advice, old, new, core, cart, code, m1, m2

At(v, ids) == [w \in Versions |-> IF w = v THEN ids ELSE {}]
Everywhere(ids) == [w \in Versions |-> ids]

Plain ==
    [rids |-> Everywhere({discovery}), keyword |-> "MUST", versions |-> {},
     transport |-> Unscoped, capability |-> Unscoped, needs_product |-> FALSE,
     cfg_needs |-> {}, mutations |-> {m1}]

\* A core check; a second one of the same row and another, of one version; one
\* that a capability, a product and a configuration key unlock; an advisory one.
FourChecks == <<
    Plain,
    [Plain EXCEPT !.rids = At(new, {discovery, totals}), !.versions = {new},
                  !.keyword = "MUST NOT", !.transport = "rest", !.mutations = {m1, m2}],
    [Plain EXCEPT !.rids = Everywhere({totals}), !.versions = {old, new},
                  !.capability = cart, !.needs_product = TRUE, !.cfg_needs = {code}],
    [Plain EXCEPT !.rids = Everywhere({advice}), !.keyword = "SHOULD"]
>>

Row(id, keyword, capability, transport) ==
    [id |-> id, keyword |-> keyword, testable |-> TRUE,
     capability |-> capability, transports |-> {transport}]

TwoRegisters ==
    [v \in Versions |->
        {Row(discovery, "MUST", Unscoped, "any"), Row(advice, "SHOULD", Unscoped, "rest"),
         Row(totals, "MUST NOT", IF v = new THEN core ELSE cart, "rest")}
        \cup (IF v = old THEN {Row(refunds, "MUST", Unscoped, "rest")} ELSE {})]

AllServers ==
    [version : Versions, transports : SUBSET {"rest"}, capabilities : SUBSET {cart},
     product : BOOLEAN, config : SUBSET {code}]
=============================================================================
