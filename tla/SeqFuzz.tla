------------------------------ MODULE SeqFuzz -------------------------------
(***************************************************************************)
(* The sequence fuzzer and the stub that it is tested on.  The fuzzer      *)
(* creates a checkout, sends it a scripted or a random sequence of         *)
(* operations and replays, and grades every answer against what it         *)
(* remembers; the stub is a checkout service with a defect planted or      *)
(* none.  A request or its answer may be lost on the way.                  *)
(***************************************************************************)
EXTENDS Integers, Sequences

CONSTANTS
    MaxQty,        \* quantities are 1..MaxQty; a mismatched payload asks one more
    RandomLengths, \* lengths of a random sequence, 3 to 7 in the code
    MaxSequences,  \* bound: sequences of a run
    MaxDrops,      \* bound: requests whose answer does not arrive
    None

ASSUME FuzzAssumption ==
    /\ {MaxQty, MaxSequences, MaxDrops} \subseteq Nat
    /\ RandomLengths \subseteq Nat

Plants == {"in_progress_order", "terminal_left", "500_on_quantity", "reserialized_cached"}
TERMINAL == {"completed", "canceled"}
Status == {"incomplete", "ready_for_complete", "complete_in_progress"} \cup TERMINAL
Originals == {"create", "update", "complete", "cancel"}
Replays == {"replay_same", "replay_mismatch", "replay_reserialized"}
Ops == Originals \cup Replays \cup {"get"}
Forms == {"compact", "spaced"}

\* The bytes of a request: what it says and how that is written out.
Bytes == [op : Originals, qty : Nat, form : Forms]
Checkout == [status : Status, order : BOOLEAN]
\* An answer: its code, and the status and the order of the checkout it shows.
Response == [code : {0, 200, 201, 409, 500}, status : Status \cup {None}, order : BOOLEAN]
Modes == {"enforce", "report", "pending"}

ASSUME NoneAssumption == None \notin [raw : Bytes, resp : Response]

VARIABLES
    plant,      \* the defect of the stub
    ck,         \* its checkout of this sequence
    idem,       \* what it has stored under the key of the last original
    mode,       \* how the fuzzer takes I10
    plan,       \* the operations to come: a sequence of choices
    sequences,  \* sequences begun
    prev,       \* the status of the checkout, as the fuzzer believes
    last,       \* the original that a replay sends again
    flagged,    \* the invariants that the last step is said to violate
    violations, \* all that were
    dropped,    \* whether the answer to the last step was lost
    drops       \* how many were

stub == <<plant, ck, idem>>
vars == <<stub, mode, plan, sequences, prev, last, flagged, violations, dropped, drops>>

-----------------------------------------------------------------------------
(* The stub *)

Shown(code, c) == [code |-> code, status |-> c.status, order |-> c.order]
Error(code) == [code |-> code, status |-> None, order |-> FALSE]
Fails(code, c) == [resp |-> Error(code), ck |-> c]
Becomes(code, c) == [resp |-> Shown(code, c), ck |-> c]

\* _handle, on the checkout c.
Handle(raw, c) ==
    LET terminal == c.status \in TERMINAL IN
    CASE raw.op = "create" -> Becomes(201, [status |-> "ready_for_complete", order |-> FALSE])
      [] raw.op = "update" /\ terminal /\ plant = "terminal_left" ->
            Becomes(200, [status |-> "incomplete", order |-> FALSE])
      [] raw.op # "create" /\ terminal /\ ~(raw.op = "update" /\ plant = "terminal_left") ->
            Fails(409, c)
      [] raw.op = "update" /\ ~terminal /\ plant = "500_on_quantity" /\ raw.qty >= 2 ->
            Fails(500, c)
      [] raw.op = "update" /\ ~terminal /\ ~(plant = "500_on_quantity" /\ raw.qty >= 2) ->
            Becomes(200, [status |-> "ready_for_complete", order |-> FALSE])
      [] raw.op = "complete" /\ ~terminal ->
            Becomes(200, [status |-> IF plant = "in_progress_order" THEN "complete_in_progress"
                                     ELSE "completed", order |-> TRUE])
      [] raw.op = "cancel" /\ ~terminal ->
            Becomes(200, [c EXCEPT !.status = "canceled"])

\* _key_hash: of the bytes, or of what they say.
SameHash(raw1, raw2) ==
    /\ raw1.op = raw2.op /\ raw1.qty = raw2.qty
    /\ plant = "reserialized_cached" \/ raw1.form = raw2.form

\* request, under a key that stands for stored or for nothing yet.
Serve(raw, stored, c) ==
    IF stored = None
    THEN LET h == Handle(raw, c) IN
         [resp |-> h.resp, ck |-> h.ck, idem |-> [raw |-> raw, resp |-> h.resp]]
    ELSE [resp |-> IF SameHash(raw, stored.raw) THEN stored.resp ELSE Error(409),
          ck |-> c, idem |-> stored]

-----------------------------------------------------------------------------
(* The invariants, of one step: the operation, its answer, the status before *)
(* and the code of the original.  I1 and I5 to I7 are about the form of a    *)
(* body, which the stub always gets right.                                   *)

Ok(resp) == resp.code \in {200, 201}

I2(op, resp, before) ==
    /\ before \in TERMINAL /\ Ok(resp) /\ op \in {"update", "complete", "cancel", "get"}
    /\ resp.status # None /\ resp.status # before
I3(resp) == Ok(resp) /\ resp.status = "complete_in_progress" /\ resp.order
I4(resp) == Ok(resp) /\ resp.status = "completed" /\ ~resp.order
I8(resp) == resp.code >= 500 \/ resp.code = 0
I9(op, resp, before, orig) ==
    \/ op = "replay_same" /\ resp.code # orig
    \/ op = "replay_mismatch" /\ resp.code # 409
    \/ op \in {"update", "cancel"} /\ before \in TERMINAL /\ Ok(resp)
I10(op, resp) == op = "replay_reserialized" /\ resp.code # 409

\* A cached answer to a re-serialized replay is a violation in one mode only;
\* a report or a pending one is written down elsewhere.
Counted(op, resp) == mode = "enforce" \/ (mode = "report" /\ ~Ok(resp))

Failing(op, resp, before, orig) ==
    {i \in {"I2", "I3", "I4", "I8", "I9", "I10"} :
        \/ i = "I2" /\ I2(op, resp, before)
        \/ i = "I3" /\ I3(resp)
        \/ i = "I4" /\ I4(resp)
        \/ i = "I8" /\ I8(resp)
        \/ i = "I9" /\ I9(op, resp, before, orig)
        \/ i = "I10" /\ I10(op, resp) /\ Counted(op, resp)}

\* check: an answer that never came is a transport failure and nothing else.
CheckStep(op, resp, before, orig) ==
    IF resp.code = 0 THEN {"I8"} ELSE Failing(op, resp, before, orig)

-----------------------------------------------------------------------------
(* The fuzzer *)

\* Defect: a replay is remembered as the original of the next replay.
RememberAny(op, raw, resp) ==
    IF op = "get" THEN last ELSE [raw |-> raw, code |-> resp.code]

\* The original is never itself a replay: re-serialized bytes may come back.
Remember(op, raw, resp) ==
    IF op \in Originals THEN [raw |-> raw, code |-> resp.code] ELSE last

\* Defect: the status is remembered from the create only.
BelievedFromCreate(op, resp, before) == IF op = "create" /\ Ok(resp) THEN resp.status ELSE before

\* What the fuzzer believes of the checkout after an answer.
Believed(op, resp, before) ==
    IF Ok(resp) /\ op # "replay_mismatch" THEN resp.status ELSE before

Lost == Error(0)

\* _step and what sequence makes of the answer: the stub is served s, unless
\* the request is lost, and the fuzzer gets s.resp, unless a drop intervenes.
Step(op, raw, s, before, orig) ==
    \E sent, answered \in BOOLEAN :
        LET resp == IF sent /\ answered THEN s.resp ELSE Lost
            found == CheckStep(op, resp, before, orig)
        IN
        /\ answered => sent
        /\ dropped' = ~answered
        /\ ~answered => drops < MaxDrops
        /\ drops' = IF answered THEN drops ELSE drops + 1
        /\ ck' = IF sent THEN s.ck ELSE ck
        /\ idem' = IF op = "get" THEN idem ELSE IF sent THEN s.idem
                   ELSE IF op \in Originals THEN None ELSE idem
        /\ last' = Remember(op, raw, resp)
        /\ prev' = Believed(op, resp, before)
        /\ flagged' = found
        /\ violations' = violations \cup found
        /\ UNCHANGED <<plant, mode>>

Script(ops) == [i \in DOMAIN ops |-> {ops[i]}]
PROBE == <<"update", "replay_reserialized", "replay_same", "replay_mismatch", "get",
           "complete", "get", "update", "cancel">>
PROBE2 == <<"cancel", "update", "complete", "replay_same">>
PROBE3 == <<"update", "update", "complete", "replay_same", "replay_reserialized">>
Random(n) == [i \in 1..n |-> Ops \ {"create"}]

\* fuzz: the scripts, then random sequences.
Plan(n) ==
    CASE n = 1 -> {Script(PROBE)}
      [] n = 2 -> {Script(PROBE2)}
      [] n = 3 -> {Script(PROBE3)}
      [] OTHER -> {Random(l) : l \in RandomLengths}

\* A sequence begins with a create, and ends there if that is not answered 201.
Create ==
    /\ plan = <<>> /\ sequences < MaxSequences
    /\ sequences' = sequences + 1
    /\ \E qty \in 1..MaxQty :
        LET raw == [op |-> "create", qty |-> qty, form |-> "compact"] IN
        Step("create", raw, Serve(raw, None, ck), None, 0)
    /\ \E p \in Plan(sequences + 1) : plan' = IF dropped' THEN <<>> ELSE p

Take(op) == plan # <<>> /\ op \in Head(plan) /\ plan' = Tail(plan) /\ UNCHANGED sequences

Get ==
    /\ Take("get")
    /\ Step("get", None, [resp |-> Shown(200, ck), ck |-> ck, idem |-> idem], prev, 0)

\* update, complete or cancel, under a new key.
Send(op) ==
    /\ Take(op)
    /\ \E qty \in 1..MaxQty :
        LET raw == [op |-> op, qty |-> IF op = "update" THEN qty ELSE 1, form |-> "compact"] IN
        Step(op, raw, Serve(raw, None, ck), prev, 0)

Other(form) == CHOOSE f \in Forms : f # form
Mismatched(raw) == [raw EXCEPT !.qty = @ + 1]
Reserialized(raw) == [raw EXCEPT !.form = Other(@)]

\* The last original once more.  A cancel has no field to change.
Replay(op) ==
    LET raw == CASE op = "replay_same" -> last.raw
                 [] op = "replay_mismatch" -> Mismatched(last.raw)
                 [] op = "replay_reserialized" -> Reserialized(last.raw)
    IN
    /\ Take(op)
    /\ ~(op = "replay_mismatch" /\ last.raw.op = "cancel")
    /\ Step(op, raw, Serve(raw, idem, ck), prev, last.code)

SkipMismatch ==
    /\ Take("replay_mismatch") /\ last.raw.op = "cancel"
    /\ flagged' = {} /\ dropped' = FALSE
    /\ UNCHANGED <<stub, mode, prev, last, violations, drops>>

Init ==
    /\ plant \in Plants \cup {None} /\ mode \in Modes
    /\ ck = [status |-> "incomplete", order |-> FALSE]
    /\ idem = None /\ last = None /\ prev = None
    /\ plan = <<>> /\ sequences = 0
    /\ flagged = {} /\ violations = {} /\ dropped = FALSE /\ drops = 0

Finished == plan = <<>> /\ sequences = MaxSequences /\ UNCHANGED vars

Next ==
    \/ Create \/ Get \/ SkipMismatch
    \/ \E op \in {"update", "complete", "cancel"} : Send(op)
    \/ \E op \in Replays : Replay(op)
    \/ Finished

Spec == Init /\ [][Next]_vars

-----------------------------------------------------------------------------
(* Properties *)

\* The invariants that a planted defect breaks.
Broken ==
    CASE plant = "in_progress_order" -> {"I3"}
      [] plant = "terminal_left" -> {"I2", "I9"}
      [] plant = "500_on_quantity" -> {"I8"}
      [] plant = "reserialized_cached" -> {"I10"}
      [] OTHER -> {}

\* Whatever is sent in whatever order, the fuzzer blames the stub for nothing
\* but the defect planted in it, and one that is sound for nothing; and the
\* answer that never came is a transport failure and nothing else.
BlameIsFair ==
    /\ dropped => flagged = {"I8"}
    /\ drops = 0 => flagged \subseteq Broken

\* The three scripts find each defect, whatever was sent, with one exception:
\* the server error depends on a quantity that is drawn.
ScriptsFindDefects ==
    sequences >= 3 /\ plan = <<>> /\ drops = 0 /\ plant \notin {None, "500_on_quantity"}
        /\ mode = "enforce"
            => violations \cap Broken # {}
=============================================================================
