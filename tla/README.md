# A formal model of ucp-conformance

This directory holds TLA+ modules for the parts of this repository whose
correctness depends on interleaving, failure and order: the golden merchant
server of the 2026-08-25 test bed, the delivery of its order events, the
threaded fixture merchant, its carts, orders and OAuth grants, the machinery that turns the
results of checks into a verdict on a merchant, the sequence fuzzer, the back end
of the site, and the way a commit takes to the site and the package index. TLC
checks each of them on small instances, and TLAPS proves every invariant that the
runs pass for every value of the constants.

All paths below are relative to `src/`. `GS/` is
`conformance/testbed/golden-0825/server/`.

## 1. Inventory

| component | where | state it keeps | operations | what is hard |
|---|---|---|---|---|
| Golden checkout service | `GS/services/checkout_service.py` | tables `checkouts`, `inventory`, `orders`, `idempotency_records` | create (plain or from a cart), update, complete, cancel, get | concurrent requests on one checkout, one key, one item; a lock taken in the middle of a handler; commit and webhook in that order; crash between them |
| Golden cart service | `GS/services/cart_service.py` | table `carts`, `idempotency_records` | create, update, cancel, get | no lock between reading a cart and writing it; flush errors; a purchase deletes the cart |
| Golden database layer | `GS/db.py`, `GS/dependencies.py` | SQLite files, one session per request | `reserve_stock`, `commit_with_idempotency`, save and get of rows | SQLite's single writer, busy timeout, rollback |
| Order events | `checkout_service.py` (`_notify_webhook`, `ship_order`, `update_order`) | orders after the sale, attempts of a delivery | place, ship, update, deliver with retry | lost updates of a whole row; lost posts and lost answers; crash during delivery |
| MCP bridge, defects, signing | `GS/routes/mcp*.py`, `GS/defects.py`, `GS/ucp_signing.py` | none beyond the above | JSON-RPC mapping, injected defects, signatures | bytes rather than states |
| Merchant runner | `conformance/checks/merchant_checks.py`, `merchant.py` | results, the report | `run_merchant_checks`, discovery, report, JUnit, exit code | a check that is skipped, cannot tell or crashes must not count as passed |
| Verdict gate | `conformance/selfcheck/verdict_gate.py` | none | `aggregate` | one green out of many lists |
| Fixture merchant | `conformance/fixtures/merchant/server.py` | dictionaries `SESSIONS`, `ORDERS`, `CARTS`, `IDEM`, `IDEM_PENDING`, `OAUTH_CODES`, `OAUTH_REFRESH`, `OAUTH_TOKENS` | the UCP operations in four protocol versions, authorization and tokens, test hooks | one thread per request; reads, and some writes, without the lock; claims of keys; timeouts |
| Engine and checks | `conformance/checks/engine.py`, `area_*.py` | one run | scripted requests and predicates | pricing arithmetic, schemas |
| Registers and coverage | `conformance/requirements`, `conformance/coverage` | JSON files | gates over registers | consistency of data |
| Reference agent | `conformance/agent` | one run | scripted client, predicates over its traffic | |
| Sequence fuzzer | `conformance/ci/seqfuzz_gate.py`, `seq_invariants.py` | the sequence so far, the status believed, the original a replay repeats; the stub's checkout and cached answer | scripted and random sequences, one grading per step | a lost answer after which server and fuzzer believe different things; a check graded against the wrong original |
| Spec lint, CI, site generators | `conformance/speclint`, `conformance/ci`, `conformance/web` | none | text processing, subprocesses | |
| Site backend | `functions/api`, `api/worker.js` | key-value entries for codes, sessions, API keys, reports, their index, statistics, logs, admins | account, report, key and admin handlers, beacons | read-modify-write of whole documents without transactions; a call that fails half way; documents written by two parts of the code that expect different fields |
| Packaging and release | `packaging`, `.github/workflows` | commits, CI runs, tags, the owner's checkout | pull requests, merges, `deploy.sh` step by step, the guards of a tag | main moves and CI runs end between the steps; a run that tested nothing is as green as one that did |

How they interact: a platform (a check, the fuzzer or the agent) sends HTTP
requests to a merchant (golden, fixture or real). The golden's handlers share
one SQLite file per server; checkout and cart service meet in the tables
`carts`, `checkouts` and `idempotency_records`. A sale and a shipping call back
to the platform by webhook. The merchant runner is itself such a platform: its
probes feed predicates, whose grades feed the gate, the report and the exit code.

What makes the components correct, in a sentence each:
checkout service - concurrent operations look atomic, stock is neither sold twice
nor lost, an effect and the record of its key are one; cart service - every
change is recorded under its key; events - the platform learns only what is
stored, in equal copies, and the server knows how it ended; runner and gate -
"pass" is earned, "fail" is real, and all reports agree; fixture - one key makes
one checkout, whatever threads do, and no one waits for ever; grants - a token
never says more than the buyer agreed to, and a revocation holds; fuzzer - it
blames the server under test only for what that server did; site backend - only
overlapping writes lose anything, and what was ended is dead; release - what is
shipped has been tested, the site only moves forward, and evidence once there stays.

The list of hazards, each at its line and with the properties that cover it or
the reason none does, is in `PROJECT.json`.

## 2. Modules

| module | models | extends |
|---|---|---|
| `GoldenDb` | the tables, the write lock, sessions and idempotency records; arrival, answer, lock timeout, crash | |
| `CheckoutService` | the four checkout operations | `GoldenDb` |
| `CartService` | the three cart operations | `CheckoutService` |
| `Shop` | abstract specification: checkouts, stock and orders with atomic operations only | |
| `GoldenServer` | the composition, fairness, and every property of it; the refinement of `Shop` | `CheckoutService`, `CartService` |
| `MCGolden` | menus of requests for TLC | `GoldenServer` |
| `GoldenProofs` | proofs about `GoldenServer` | `GoldenServer` |
| `OrderEvents`, `MCEvents`, `EventsProofs` | orders after their sale and the delivery of their events | |
| `Verdict`, `MCVerdict` | runner, gate, report | |
| `FixtureMerchant`, `MCFixture`, `FixtureProofs` | the checkouts of the threaded fixture merchant and their keys, 2026-04-08 mode | |
| `FixtureThreads` | its threads: request, place, what was read, answer | |
| `FixtureCarts` | its carts, their keys, and what a conversion reads of them | `FixtureThreads` |
| `FixtureOrders` | its orders after their sale, in all modes, and the delivery of their events | `FixtureThreads` |
| `FixtureSales`, `MCSales`, `SalesProofs` | carts, checkouts and orders in one server | `FixtureCarts`, `FixtureOrders` |
| `FixtureGrants`, `MCGrants`, `GrantsProofs` | its authorization codes, refresh and access tokens, and the gate in front of orders | |
| `SeqFuzz`, `MCSeqFuzz` | the sequence fuzzer and the stub it is tested on | |
| `ToolProofs` | proofs about `Verdict` and `SeqFuzz`, which share nothing | `Verdict`, `SeqFuzz` |
| `SiteStore`, `MCSite`, `SiteProofs` | the site's accounts, reports, API keys, statistics and admins | |
| `Release`, `MCRelease`, `ReleaseProofs` | CI runs, merges, `deploy.sh`, `release.yml` | |

Each of these groups stands alone; only the golden modules extend one another, and
the four of the fixture's sales.

Operators marked "Defect:" are plausible bugs. No specification uses them; each
is the replacement for the definition below it under which a property must
fail, so that the property is known to depend on the code it is about.

### GoldenDb, CheckoutService, CartService, GoldenServer

A request `p` has a program counter `pc[p]`; every label is the place where its
handler awaits something, and every action runs from one such place to the next.
`draft[p]` is the row the handler holds across the await, `resp[p]` its answer.
The tables are the committed ones. `writer` is SQLite's write lock.

The lock is the subtle part. The sessions are SQLAlchemy sessions with
autoflush, on pysqlite's legacy transaction control: a SELECT runs outside a
transaction and sees the last commit; the first INSERT, UPDATE or DELETE begins
one and takes the only write lock; `session.get` first flushes pending rows.
`update_checkout`, `complete_checkout` and `cancel_checkout` add a
request-log row and then get the checkout, so they wait for the lock, and read
the checkout under it (`ReadOpenCheckout`); the lookup of the key comes before
(`LookupLocked`). The sessions do not expire on commit but hold rows weakly, so
a later read is a new SELECT; `GS/integration_test.py:490-530` relies on this.
`create_checkout` and the cart operations read without the lock and take it only
in their last step, where the flush of the row and the insertion of the record
and the commit are one critical section (`InsertCheckout`, `CommitCart`). An
INSERT that meets its key, or an UPDATE of a row that is gone, fails there.
`commit_with_idempotency` turns the failure on the record's primary key into the
winner's answer (`LoseRace`).

`LockTimeout` is the driver's busy timeout: any waiter may get a 500. `Crash`
ends all handlers; SQLite rolls their transactions back.

Abstracted: prices, discounts, messages and addresses; the fulfillment of a
checkout is one Boolean, whether it is deliverable; payment is whether the
instrument is accepted; `split` says whether an item's units are on two lines,
which is what distinguishes validation (per line) from reservation (adding up).
Left out: requests for unknown products (refused before anything is read),
`get_checkout` (appends to a log only), `save_customer_address` (runs within
an update, under its lock, and is undone with it).

### Shop

`Shop` has no requests, keys, locks or crashes: four kinds of step (create,
update, cancel, complete) on checkouts, stock and orders. `ImplementsShop` says
that `GoldenServer` with its variables of the same names implements it.

### OrderEvents

Handlers place, ship and update orders by whole-row stores, and deliver events in
attempts. An attempt reaches the platform or not, the answer comes back or not.
`inbox` is all that reached the platform. `stored` and `outcome` are history.
An update is stored without a webhook, as in the code.

### Verdict

One action per outcome of one turn of the loop in `run_merchant_checks`: skipped,
the probe raised, the predicate could not tell, judged. Any verdict and any set of
surviving mutations is possible. `Aggregate` is the gate and the report. The
results of one check are kept together: all ids a check cites share its status.
The state "blocked" of `aggregate` is left out, because a merchant run always
passes its conformance stamp. `KeywordsAgree` is an assumption the code needs and
does not state: a check cited for a mandatory row is mandatory itself. Otherwise
the result of an advisory check would explain a mandatory row nobody graded, and
the gate would let it through. The registers and checks in the repository satisfy
it for all versions.

Two remarks from building the model. With the shipped set of checks, the checks
scoped to other versions leave mandatory results that are not tested, so
"pass" is not in practice reached by any server; in the model it is, so
`PassIsEarned` is tested. Checks without mutations (the TLS ones) are `kill_safe`
for want of mutants.

### FixtureMerchant

A thread's `pc` is where it may be preempted: every hold of `_LOCK` or
`_CART_LOCK` is one action, and a test outside the lock is separate from the
write it allows. `pending` is `IDEM_PENDING`; its event is set in the step that
gives the claim up, because only waiters look at it, and they look again under
the lock. `WaitTimesOut` is `pending.wait(timeout=10.0)` returning early.
`idem[key].old` means that the key's retention has passed; the record is evicted
at the next lookup, as in `_idem_lookup`. `expired` is history. The good
completion reads the session twice, for totals and for lines, as the code does.
A declined completion stands for all refusals that change no state; a bad line
for all creates that make no checkout (400s, nothing in stock, no common
capability). Discount codes, eligibility and buyers are abstracted. A cart's lines are
its content here, and an order is what the sale has made it: the rest of both is in
`FixtureSales`.

### FixtureThreads, FixtureCarts, FixtureOrders, FixtureSales

The same server seen from the other side: what happens before a checkout is made and
after it is bought, where the keys of `FixtureMerchant` play no part. A cart, a
checkout and an order are named after the request that makes them. Ids are random,
so a request names only what answers or events have told (`Known`); a thread's own
name stands for an id nobody has. `heard[t]` is history: who had been answered when
request `t` arrived, which is what "later" means in the properties.

`FixtureCarts`. `versions[c]` is the history of a cart's contents and an index into it a
version. The code keeps a cart in three dictionaries - `CARTS` with the lines,
`CART_CODES`, `CART_ELIG` - and `lines`, `codes`, `claims` say of which version
each is. `create_cart` holds `_CART_LOCK` twice: to look up its key (`LookUp`) and to store the
cart (`StoreCart`). What it stores, and what `update_cart` replaces, is written one after
another under one hold (`cartLock`): the lines (`Replace`), the codes and the claims
(`WriteCodes`, `WriteClaims`, the two assignments of `_cart_side_state`). A conversion is
five actions: the cart under `_CART_LOCK`, the open checkout under `_LOCK`, the codes
and the claims without a lock, and the creation. It can therefore see new codes
beside old claims. `update_cart` replaces the cart's dictionary by a new one, so the lines
a conversion has taken hold of do not change under it.

`FixtureOrders`. One line per order; `total`, `fulfilled` and `status` are its members, and
`adjustments` and `events` the logs, in which an entry is named after its request.
`Check` tests the quantity without the lock; in the 2026-04-08 mode an adjustment then takes
the units (`Reduce`) and appends the entry (`LogAdjustment`) under one hold of the
lock, during which readers may look (`lock`); in the older modes it only
appends, and a fulfillment appends first and counts next. `version` is `VERSION`. Quantity
and status are written in one step, which is an abstraction: the code writes the status in the
statement after the quantity. `Serialize` makes the bytes of an event, once; `Attempt`
is the first attempt, which the request waits for, and `Retry` one on the background
thread, of which there are as many as `WEBHOOK_RETRY_DELAYS` has entries. A post may be lost, refused, or
arrive and its answer be late.

`FixtureSales`. `TestStatus` is the test of the status at the start of complete and cancel,
without the lock and never repeated; `Place`, `Reopen` and `Abandon` are what they write
later. A checkout that closes lets its cart be converted anew. A completion whose payment
needs an escalation (the operation `escalate`) writes `requires_escalation`, which is
"open" here: one that had read an open status opens a checkout again that was completed
or canceled meanwhile.

### FixtureGrants

The OAuth handlers take no lock at all, so a step ends wherever another thread could
see or change what the next one reads: between the tests of `oauth_token` and the
mark on the code (`CheckCode`, `RedeemCode`), between the entry of a new token in
its refresh token's list and the token itself (`AppendToken`, `StoreToken`), and
between the single steps of a revocation through that list (`RevokeToken`,
`SweepToken`). The writes that nobody can know of before the answer are one step.
A code, refresh token or access token is named by the request that minted it, so a
table is a function on requests. A PKCE challenge stands for its verifier. A
request names only what an earlier answer has given out (`Arrive`); `heard` is history
and holds what had been answered when a request arrived, which is what "after
the revocation" means in the properties. `RequirePKCE` is the version switch.

### SeqFuzz

The stub's `_handle` and its idempotency cache with one of four planted defects
(`Handle`, `Serve`), the three scripts and random sequences of any length, the
fuzzer's belief (`prev`, `last`) and the grading of one step (`CheckStep`). A request or
its answer may be lost; `dropped` says that the last one was. Bytes are what a
request says and one of two ways to write it down, which is what distinguishes the
plant that compares serializations. Invariants I1 and I5 to I7 look at the form of
a body and are not modelled; races and the stop after twenty failed creates are not either.

### SiteStore

A handler is a sequence of calls of the store (`Steps`); `pc` is the next of them.
`ReadDocument` takes a document, `WriteDocument` puts a changed copy of the whole of it, and any
call may fail (`Fail`), which ends the handler with what it has already written.
Documents hold what the code's objects hold: lists with their caps, counters, and of
a missing JavaScript property that `x++` on it gives NaN, which JSON writes as
null (`Incremented`). The statistics are written by `[[path]].js`
(`NewStats`) and by `conformance.js` (`BareStats`), which do not agree on the fields.
`deleteApiKey` finds a key only if it is in the first page of a listing. `logout` deletes
the session of the token it is sent: sent an API key, which opens everything a session
does, it answers "ok" and ends nothing, so that `EndedTokenIsDead` speaks of a logout
only where the token is a session. The settings,
routes that only read, the cache of the metrics, the preview checks and the older
`worker.js` are left out.

### Release

A SHA is an index into `commits`; `main` is the history of origin/main; `runs[s]`
are the runs of a commit, of every workflow, newest first, as the API lists them. `OpenPull`,
`Merge` (squash or merge commit), `FastForward`, `Dispatch`, `Schedule`, `PushTag` and `Rerun`
are what people and GitHub do. A run of the suite has a check, which is that of its job
`selftest` and alone is required (`EndCheck`), and a conclusion of all its jobs (`EndRun`):
`action-selftest`, which informs only, may make it red where the check is green. A run that is
run again loses what it had. A commit is `watched` if a push of it starts a run and
`relevant` if a pull request of it runs the suite; `action.yml` alone is the first and not
the second. A pull request that is not relevant is green without having run a gate
(`ShortCircuit`), and a push that is not watched starts no run.

`deploy.sh` is one action per step, step 4 being three of them, with `tree` the owner's checkout, which
the steps read and which someone may change meanwhile unless `HandsOff`. `CheckGreen` and
`SuiteRan` are the two questions `check_run_verdict.py` answers. The second looks at the
first page of the runs only (`RunsPage`, GitHub's default is 30); the page of 100 check-runs
of the first holds all jobs of more runs than that, and is not cut in the model. A call of
`gh` or a fetch that fails ends the deployment, as in the code, where it reads as
"absent". What the gates of steps 2 and 3 test is open: they may fail at any time, and a
refusal in steps 1 and 2 may leave the tree dirty. `Guards` are those of `release_guards.sh` on
a pushed tag. They only grep the changelog of the tree for a recorded acceptance, and
nothing keeps an acceptance from being recorded before its candidate is published, so no
property says that a final release follows a published candidate: neither the code
nor the model ensures it. `DEPLOY_NO_FETCH` and the dry run are left out.

## 3. Runs

| run | instance | asks | distinct states |
|---|---|---|---|
| `race` | 3 requests, 2 keys, 2 checkouts competing for 2 roses, crash; symmetry of requests | the inductive invariant `Consistent`, stock, records, announcements, retries, refinement of `Shop` | 119902 (up to symmetry) |
| `carts` | 3 requests on 2 carts and their checkouts, crash, fairness | records of cart changes, conversions; every request answered, every order announced | 187518 |
| `delivery` | 3 handlers, 2 attempts, crash | copies, verdicts, outcomes, phantom changes, end of deliveries | 121159 |
| `verdict` | 4 checks, 2 versions, 16 servers each | pass earned, red real, list honest | 14030 |
| `fixture` | 4 threads, 1 key, 1 cart, 1 checkout, quantity 3 | the inductive invariant `FixtureConsistent` (types and claims), one result per key, replays, all answered | 172098 |
| `sales` | 3 threads with 6, 9 and 12 requests to choose from; 1 key, 2 carts, of one of which there is a checkout, 1 order, quantity 3, both modes, 1 retry | keys of carts, open conversions, what they carry, order logs, order and content of events | 841611 |
| `grants` | 5 threads, 2 clients, 2 verifiers, ageing codes and tokens | revocations, consent, the gate | 581156 |
| `seqfuzz` | 3 scripts, 2 random sequences of 4 or 5 operations, 5 stubs, one lost answer | blame, what the scripts find | 32498 |
| `site` | 4 requests in eleven plans, caps of 1 and 2, pages of 1, one failed call | lost entries, counters, dead sessions and keys | 819422 |
| `release` | 6 agendas of up to 2 changes and 4 commits, pages of 2 runs | what is shipped, that the site moves forward along main, that evidence stays | 1925676 |

Runs that find a disagreement between the code and what the repository says of
it (each is a finding in `PROJECT.json`, with the quoted line):

| run | what TLC shows |
|---|---|
| `completed_immutable` | a completed checkout of the fixture is canceled, changed or completed again |
| `saves_blocked` | a beacon on an empty store leaves statistics on which every later save of a report answers 500 |

The models also reach the following, which no run states. Of the golden: two
conversions of one cart that overlap make two open checkouts, contrary to
`conformance/requirements/2026-08-25/cart.json:32`, in the fixture as well; of two identical
completions under one key the second is refused with a 409; a key used on one cart
answers for another with the same body; a concurrent shipping or update drops a fulfillment
event. Of the fixture: equal creates of a cart in parallel under one key make two
carts, contrary to `server.py:1545`; a conversion that an update overlaps has the lines
of one version of the cart and the codes or claims of another (DSC-009); two adjustments in
parallel take more than is left, and the total goes below zero, contrary to
`conformance/requirements/2026-04-08/order.json:112`, and two fulfillments fulfill
more than was ordered; a webhook made while the lock is held may show units taken
without their adjustment. Elsewhere: the report's counts of passed and violated rows may exceed the applicable
rows; two exchanges at one time both redeem a code; a grant or revocation of an
admin may leave no entry in the audit log; a replay that follows an original whose
answer was lost is flagged although the stub did nothing wrong by it; a merge
that touches no watched path gets no run, contrary to the comment in
`deploy.sh`; a commit on which the suite ran and passed is refused when a call of `gh`
fails, when its green run is beyond the first page of runs, or when only `action-selftest`
was red; a final version is published of which no candidate was; and step 6 of `deploy.sh` can stop with the message that nothing was
deployed when the preview was. The hazards in `PROJECT.json` name the lines.

### Bounds

Three requests: two that race and one that changes the state between their steps;
the checked properties speak of at most two requests and one row, and every
interference is one step of one other request. Two keys let a race be under one
key or under two. Two roses wanted by two checkouts, one of which has them on two
lines, make every reservation outcome occur. One crash suffices, because a
crash ends every handler and nothing but the tables survives. Two delivery
attempts reach both "again" and "give up". Four checks are one of each kind the
loop tells apart, and one row that no check cites. Four threads of the fixture are an
owner, two waiters of which one inherits the claim, and one that ages the key,
stops the storage or changes cart or checkout. Three threads of the sales are two that
race and one that comes later or interferes, the most any property speaks of; one retry
is enough to arrive after another event, and three units are too few for two of the
requests together. The menus (`Menu`) keep instances
small and name the requests that matter; the bounds `MaxQty`, `MaxCrashes`,
`MaxAttempts` and `Quantity` are constants.

Five threads of the grants are an authorization, two requests that redeem or refresh,
a revocation, and one that uses a token or revokes a second time; every property
speaks of at most three requests. `Aging` says whose code and token expire. The
fuzzer's sequences are short because its belief is of one checkout and one
original; the two random sequences reach every pair of operations in both. The
site's eleven plans have one family of documents each, since families share no
document but the statistics; caps of one and two and a page of one make "full" and
"beyond the page" happen with two entries. In `release` an agenda is what
a deployment or a release takes: the changes to come, whether runs are run again, and
the bounds on commits (`agenda.commits`) and on the runs started by hand or by the clock
(`agenda.runs`). A page of two runs is filled by a lane branch, which gets a run for its
push and one for its pull request before main does. `HandsOff` is TRUE there:
`deploy.sh` reads the working tree in several steps, and ships something else if somebody
changes it in between.

Coverage: between them the passing runs take every action and every disjunct of the
next-state relations. Every handler ends, so the last state of a behaviour is an
explicit stutter (`Quiescent`, `AllAnswered`, `Settled`, `Done`) and deadlock is checked. Only
`release` says `CHECK_DEADLOCK FALSE`: when its agenda is used up and all runs have
ended there is nothing left to do.

### Fairness

`FairSpec` is weak fairness of each handler's own steps: asyncio's event loop
(golden) and the operating system's threads (fixture) run what can run, and SQLite
grants a free lock to a waiter, which fails by itself after the busy timeout
otherwise. The golden model needs no strong fairness of the lock because each
request is handled once and so the lock is requested finitely often. Arrivals,
timeouts, lost messages and crashes are not fair: liveness does not depend on them.

## 4. Proofs

All theorems are about the specification of their module, without fairness, and hold for
all constants that satisfy the named assumptions, every one of which TLC evaluates:
`ConstantsAssumption` (golden), `EventsAssumption`, `VerdictAssumption` and `KeywordsAgree`,
`FixtureAssumption`, `GrantsAssumption`, `FuzzAssumption`, `ReleaseAssumption`, the three
`NoneAssumption`s, `OutcomesAssumption`, `RecordsAssumption`, `OrderAssumption`,
`CartsAssumption`, `OrdersAssumption` and `SalesAssumption` (the fixture's sales),
`SiteAssumption` and `MissingAssumption`. They say only that ids of different kinds differ,
that `None`, `Absent` and `Null` differ from what they are told apart from, that counters and
caps are naturals, that threads and requests are finitely many where they are counted, and
that menus and plans contain requests. Two say more: `KeywordsAgree` (above), and
`HandsOff`, a constant that two theorems, `Shipped` and `Forward`, take as their hypothesis.
The models make assumptions of their own, which no ASSUME states. Those of `Release` are:
there is one checkout and one `deploy.sh` at a time; main only grows, by a merge of a
branch that is up to date or by a fast-forward to one; what `deploy.sh` fetches is
origin/main until its next line; the gates of step 3 leave the tree alone; a run that
executes the suite is green only on a tree that passes it; and what no gate reads does not
change what the suite says.

**Golden server.** `GoldenProofs` proves `TypeOK`, action by action; that stock is a
natural number is a part of it and rests on the guard of `Reservable`. Then it
proves the inductive invariant (`Consistency`; the runs check it too)

    Consistent == TypeOK /\ NoStaleWork /\ OrderMatchesCheckout /\ NothingAhead

`OrderMatchesCheckout` alone is not inductive: a completion is only right if the
row it works on is the row in the table (`NoStaleWork`, which needs the lock), and
if its own order is not there yet (`NothingAhead`). From `Consistent` each step is a
step of `Shop` or leaves it alone (`Implementation`), and finality of checkouts
is derived from `Shop` (`Finality`). To this are added

    Recorded == RecordsHold /\ EffectHasRecord /\ AnswersRecorded

which says that records are true of the tables, effects have records, and answers
have been recorded. It is inductive relative to `Consistent`, and gives
`EffectHasRecord`, `RetriesAgree`, `AnswersHold` and, with one more invariant for
the time between commit and webhook, `AnnouncedOnce`. Most actions change nothing
an invariant speaks of; they are dealt with together ("Quiet..." lemmas), and
the commits one by one. That only a commit writes (`OnlyCommitsWrite`) and that a commit
saves its record (`CommitSaves`) give the action property `NoUnrecordedChange`.

`Conversions` proves `ConversionNamesItsCart` with `CartsNamed`: what a request has been
answered with, or is about to insert, is of the cart it names, and so is what a
record answers with; the record matters, because an answer may be a replay. It rests
on the refinement: no step of `Shop` takes a checkout from its cart. `Stock` proves
`StockConserved` with `StockHeld`. The units sold of an item are counted as the cardinality of a
set of units (an order, a line, a number each) and not as a sum, so that the
theorems about finite sets do what an induction over the orders would: an order
that is placed adds a disjoint set as large as what `reserve_stock` takes.

**Order events.** `Deliveries` strengthens the four properties with what a handler and
each post in the inbox satisfy (`HandlerOK`, `PostOK`): the posts of an event are
its attempts so far, all with the body of its handler.

**Verdict** (`ToolProofs`). `VerdictInv` says that every check below `next` is graded as its answer
demands and every check from `next` on has left nothing; the properties follow from
it by set reasoning on the gate's lists.

**Fixture merchant.** `Inv` of `FixtureProofs` is `Typed` (every table, and what each
thread has read, by the place it has come to), `ClaimIsHeld`, and for every key `KeyOK`:
a thread executes only while the key has no stored answer; the checkouts the key has
made are no more than its expiries, and one more while an answer is stored; who was
told "ok" within the retention was told the stored answer. `OneResultPerKey` alone is not
inductive: what matters in `Create` is that no answer is stored yet, which was seen
when the key was claimed, and is still true because the claim has one holder.
Most steps begin and end no create (`Calm`) and are dealt with together; `Claim`,
`Create`, `Release` and `Age` remain. The set of requests is finite
and otherwise any.

**Fixture sales** (`SalesProofs`). `SalesTypes` proves `Typed` for all actions of carts, checkouts
and orders, with `ThreadOK`, what a thread has read by the place it has come to. Six invariants
give six properties. None of these is inductive, each for a reason of its own:

- `KeysAnswerOnce` compares requests that have been answered. `KeyInv` adds what the
  key's record says, and that who goes on to store a cart under a key has heard of none.
  Two creates in parallel do make two carts, so "heard of" cannot be left out.
- `OpenConversionIsReused`: `ReuseInv` adds that the link of a cart leads to a checkout of that
  cart (`LinksOK`), and what a conversion on its way has seen: if it goes on although it
  has heard of another, one of the cart had been closed by then (`Excused`). That
  stays true when an escalation opens the checkout again, because it speaks of the request that
  closed it, and not of the status.
- `ConversionsCarryTheCart`: `CarryInv` bounds every version read, from the first read on, by
  the number of updates heard of below and the cart's latest version above
  (`Ordered`), and counts the versions of a cart by its updates (`Dated`). `WritersOK`
  says how far codes and claims are behind the lines: not at all while nobody holds the
  lock of the carts, and by one version while its holder writes. Without an overlap both
  bounds are one.
- `LedgerAgrees` speaks of states in which nobody holds the lock. `LedgerInv` says what
  the line is while somebody does: off by the half of the change that is made
  (`Half`). That an entry is logged once (`EntriesOK`) makes the sums cardinalities that grow.
- `OrderedUnlessRetried`: `DeliveryInv` adds that a retry is of an event tried before, that
  bytes are made once, and that what has arrived is what its request has made.
- `FinalStateAnnounced` speaks of the end. `FinalInv` follows the last change of a subscribed order
  on its way there (`Latest`): somebody has half made it, will make its event, or has made it of the
  order as it is.

**Grants.** `Inv` of `GrantsProofs` relates tables, threads and what requests had
heard of one another: `Orderly` (a thread is where its request may be; an
unanswered request has left nothing in the tables), `Consented` (an entry agrees with the
one it came from), `Listed` (a token is in its family's list before it exists),
`Swept` (a sweep has every live token of before its arrival still in front of it),
`Refused` and `Served`. `RevocationHolds` alone is not inductive, because it says
nothing until the revocation is answered; `Swept` carries it through the sweep while
the list grows. A step only ages what is there and touches one request
(`Gentle`, proved per action), which leaves each part with the one or two actions
that matter to it.

**Fuzzer** (`ToolProofs`). `Fair` proves `BlameIsFair` for any number and length of sequences
and any quantities. Its invariant has `Agreement`: while nothing is lost, the stub's
record, the fuzzer's belief and the original it would repeat agree, and the checkout is
in a state the planted defect explains. Once an answer is lost the fuzzer may believe
what is not so, and the property then speaks of the lost answers only. `ScriptsFind`
proves `ScriptsFindDefects` with `Hunt`: while nothing is lost and the planted defect is one that
the first script provokes, either it has been found or the first sequence is at a step of the
script, with what that step needs of the checkout (`AtProbe`, `Prepared`). The property itself
speaks of the end of the run only; that the later sequences cannot lose what was found is
`StepAdds`.

**Release.** `Shipped` of `ReleaseProofs` proves `ShippedIsProven` under the hypothesis
`HandsOff`. Its invariant is `Sound` - the types and `RunsAreHonest`, a green run of the
suite outside a pull request has executed the gates - with `ChecksStayTrue`: what one step
of `deploy.sh` has found is still so at the next, which is where an interleaving
could hurt, since main moves and runs are added, end and are run again between the
steps. A run that is run again takes back evidence but not history: that the suite
has passed on a commit (`Executed`) stays true. `Forward` proves the action property `SiteFollowsMain` from
the same invariant: the tip of main that step 4 has compared with HEAD is not older than
what was given to the site before, and is still an ancestor of main when step 6 uploads it. `Evident`
proves `EvidenceStays` from `Sound` alone, which is inductive without `HandsOff`.

**Site** (`SiteProofs`). `EndedTokens` proves `EndedTokenIsDead` with `TokensInv`: only a login makes a
session and only a request for a key makes a key, once (`TokensMade`); what has been
ended is in no table, and whoever had heard of it gets no further than the check of its token
(`TokensEnded`). For keys this needs the page of the listing to hold them all. The attempt to
prove the property in its first form, in which a logout ended any token, found the logout with
an API key described above; the run now has a plan with it.

`Counters` proves `NeverOvercounted` with `CountsInv`. A bound on the documents alone is not
inductive, since a handler puts back a whole document it read some steps ago: the copies that are about to
be written back are bounded too (`UsersBounded`, `StatisticsBounded`), by the number of
requests that have come far enough, which only grows. A copy may be older than the
document, so counts may fall; they never exceed. `ReportStored` ties the count of a run to a report. Failed
calls end a handler anywhere, which leaves counters behind but never ahead.

`Losses` proves `LostOnlyToOverlap` with `ListsInv`. Again the copies count as much as the
documents: a list, and each copy that a handler has read and not yet put back
(`Holds`, from the table `Turns` of who puts which list back where), repeats no entry, and the
capped ones stand newest first, in that no entry was heard of by one behind it. And they agree
(`Agrees`) with every request that has written the list and that nobody overlaps: the document
always, a copy if its reader arrived after that request was answered. An earlier reader's copy may
lack the entry, but that reader overlaps the request. The order is what makes the cap an excuse: whoever is cut off stands
behind as many entries as the cap, none of which it had heard of (`Behind`, `Pushed`). What
`Without` keeps of a list of any length takes an induction; it is a recursive function for that
reason, and `NumberInduction` comes from the well-foundedness of finite subsets
(`FS_StrictSubsetOrderingWellFounded`), which needs no operator as a parameter.

**Only model-checked.** The liveness properties `EveryRequestAnswered`,
`EveryOrderAnnounced`, `EveryEventEnds` and `EveryThreadAnswered`, since fairness and ENABLED
are out of the prover's reach. The properties of the two runs that expect a violation are false.

**Not stated.** A stale `update_cart` may bring the cart of a completed checkout
back; the model shows it and no property forbids it. `create_checkout` from a cart
does not record its key when it returns an existing checkout, so a retry may get a
later one; `RetriesAgree` therefore leaves conversions out.

## 5. What is left

In order of importance:

1. Pricing: totals, discounts and shipping of the golden as operators, checked
   against a reference definition over all small carts; lemmas on bounds.
2. `SiteStore`: settings, the preview checks of `conformance.js`, `worker.js`;
   a store whose reads may be stale.
3. `SeqFuzz`: the races and the stop of a run.

### Not modelled

Most of the lines of this repository are checks, registers, generators and
a packaged copy of the same code: sequential scripts over JSON, whose correctness is
in their data and wording rather than in their states. Not planned therefore:
schema validation, spec lint, register gates, coverage and site generators (pure
text and data), signatures and TLS (bytes), the bridge (a mapping onto handlers
that are modelled), the engine of the older suites (the same grading as the
runner), the reference agent (a sequential client), and the bundle under
`packaging`, which is a copy.
