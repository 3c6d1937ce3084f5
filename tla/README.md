# ChainLogistics in TLA+

ChainLogistics tracks products through a supply chain: a suite of Soroban smart contracts
(`smart-contract/contracts/src`), a Rust backend over PostgreSQL and Redis (`backend/src`), two
SDKs and a web frontend. This directory models the parts of it whose correctness depends on the
order of steps: the contracts, with what they decide, record and answer, and the services of the
backend whose calls are several statements on tables, caches and queues that they share.

- `*.tla` without a prefix: one module per component, and the modules that compose them.
- `MC*.tla`, `*.cfg`: the instances that TLC checks.
- `*Proofs.tla`: theorems, checked by TLAPS for every value of the constants.
- `PROJECT.json`: components, runs, the source lines each definition translates, hazards,
  findings, mutants and theorems.

Contents: [inventory](#inventory) · [modules](#modules) · [conventions](#conventions) ·
[runs](#runs) · [findings](#findings) · [other divergences](#other-divergences) ·
[fairness](#fairness) · [proofs](#proofs) · [what is not shown](#what-is-not-shown) ·
[not modelled](#not-modelled) · [plan](#plan)

## Inventory

### Contracts

A transaction on the ledger is atomic and transactions are totally ordered: a call that returns
`Err` or traps leaves no trace, and the host refuses re-entry. What is hard is therefore not
interleaving inside a call but the *sequences* of calls by different accounts, time passing between
them, and calls that cross from one contract into another.

| component | state | operations | interacts with | what makes it correct |
|---|---|---|---|---|
| multi-signature (`multisig.rs`) | signers, thresholds and time locks per kind; proposals with their votes | init, submit, approve, reject, execute | calls the main, the upgrade contract | decisions match votes exactly, execute once and after the lock, nothing hangs |
| timelock (`timelock.rs`) | configuration; operations with approvals and window | init, propose, approve, cancel, execute | `perform_action` on the main, upgrade and oracle contracts | quorum, minimum delay, window, veto; an executed action has had its effect |
| main contract (`contract.rs`) | admin, multisig, timelock, pause flag | init, pause, unpause, transfer, set addresses | everybody asks `is_paused` | only the three roles change it |
| admin contract (`admin.rs`) | an admin of its own | admin_init, pause, unpause, transfer | forwards to the main contract | the two admins move together |
| upgrade (`upgrade.rs`) | version, status, pending info, emergency flag | initiate, complete, fail, reset, emergency (un)pause | pauses the main contract | versions advance by the rules, status and info agree |
| circuit breaker (`circuit_breaker.rs`) | guardians, current state, pause records, proposals | (un)pause, guardians, propose, approve, execute, queries that clear an ended pause | queried by others | answers follow the log of pauses and the clock; the log is history |
| product registry, authorization, transfer (`product_registry.rs`, `authorization.rs`, `product_transfer.rs`) | products, counters, search index; owners and actors; links | register, (de)activate, transfer, batches in chunks | each writes part of the others' state | two contracts name the same owner; counters and index are exact; a resumed batch ends |
| tracking and its storage (`tracking.rs`, `storage_contract.rs`) | events, lists and type index | add event, paged reads | asks the main contract for the pause | pages match the log |
| state channels (`state_channel.rs`) | channels with the anchored state and deadline | open, checkpoint, close, dispute, finalize | asks the main contract for the pause (open, checkpoint, close) | the latest signed state settles, and every close settles |
| oracle (`oracle.rs`) | feed configuration, sources, reports, snapshot, fallback, flag | configure, register, report, fall back, read, clear | its timelock is a controller | a minority moves nothing, an agreeing reporter is not slashed, a failed round leaves nothing |
| event query, product query, statistics (`event_query.rs`, `product_query.rs`, `stats.rs`) | the address of the registry or tracking contract | init, four paged queries, delegated reads, counts | read the tracking log and the registry | a page is its stretch of the log; a client that pages skips and repeats nothing |
| audit trail and ring signatures (`ring_signature.rs`, the signer in `sdk/rust`) | recorded handovers per product | init, record_handover, sign, verify (contract and SDK) | the SDK signs what the contract verifies | signer and both verifiers agree; nothing recorded that no member of the ring signed |
| quality control (`quality_control.rs`) | administrators, sensors, certifications, readings, running figures | set admin, add and remove sensors, certify, record, read | shares the registry's products | the running figures are those of the readings |
| compliance verifier (`verifier.rs`) | none | verify a Groth16 proof | | pure cryptography; not modelled |

### Backend

Here the hard things are the usual ones: tasks interleave at every `await`, processes are
replicated and die, writes to PostgreSQL and Redis fail one by one, locks are held across awaits.

| component | state | operations | what makes it correct |
|---|---|---|---|
| saga manager (`saga_manager.rs`) | a row per saga, an instance per process, tasks | start, execute, retry, compensate, status, recover on boot | rows never claim more than was done; given-up sagas had every compensation called; sagas settle unless a handler never answers |
| worker pool (`redis_workers.rs`) | a sorted set, permits, results | start, stop, enqueue, pop, run, retry, heartbeat | a task is in one place at a time and is answered |
| WebSocket manager (`websocket/`) | connections and channels behind two locks | add, subscribe, unsubscribe, remove, broadcast | a broadcast ends |
| products, events, cache, sync (`product.rs`, `event.rs`, `sync.rs`) | rows in PostgreSQL, copies and figures in Redis | read through, write and drop, sync, delete; users and API keys added, keys disabled | what is read is what the tables say, but for the figures nobody refreshes |
| batches (`batch_service.rs`) | rows with a copy, genealogy, attributes, recalls, inventory | create, update, delete, link, record, read trees | as above |
| recalls (`recall.rs`, `handlers/event.rs`) | recalls, affected items, notices, effectiveness | open by hand or by a failed check, notify, update | a recall reaches what named its batch; figures are not overstated |
| lists of all services | none of their own | filter, order, limit, offset, count | who walks to the end misses nothing |
| carbon market (`carbon.rs`, `carbon_calculator.rs`) | footprints, credits, trades, verifications | calculate, issue, list, purchase, retire, summarise | title follows payment; the two tables agree |
| audit log (`audit_service.rs`, `middleware/audit.rs`) | a chain of hashed rows | log, verify, purge | what verifies was written, and an untouched log verifies |
| accounts, keys, tokens (`user.rs`, `api_key.rs`, `middleware/auth.rs`) | users, keys, tokens | register, log in, create, rotate, revoke, disable, check | no request runs on rights that were gone |
| predictive routing (`predictive_routing_service.rs`) | a graph with signals, shipments, scores, alerts, exports | report, score, alert, spread, export | signals go back to reports; a high score has an alert |
| sensors and twins (`iot_service.rs`, `digital_twin_service.rs`, `physics_model_service.rs`, `iot_twin_sync_service.rs`) | devices, readings, alerts; twins with state, health, history | record, alert, summarise, sync, simulate, compute health | a breach has its alert; synchronisation does not take a twin back in time; its history is what was computed |
| regulation (`regulatory_service.rs`, `compliance/`) | requirements, verdicts, trail, reports | change, check, report, check by the API | a verdict is of the data and the requirement it names |
| monitoring (`monitoring.rs`) | figures of errors, requests and the infrastructure, each behind a lock; the last alert | record, reset, update, check for alerts | no error is missed, alerts keep their cooldown |
| rule engine (`rule_engine.rs`) | rules by priority, handlers | add, remove, register, evaluate | every enabled rule judges, in order, whichever action fails |
| Mercury indexer, quality inspections, suppliers, analytics, collaboration, finance, rate limiting, cron, blockchain clients | | | not modelled, see [below](#not-modelled) |

The frontend, the other SDKs and the deployment files keep no protocol state; the deployment is read
for how many replicas there are and when they are started.

## Modules

```
Contracts                                                 checked in        proved in
  Ballot (abstract) <- MultiSig                           MCMultiSig        MultiSigProofs
  StateChannel, Timelock                                  MCWindows         WindowProofs
  Timelock + (MainControl <- Upgrade) <- Governance       MCGovernance      WindowProofs
  CircuitBreaker                                          (its own cfg)     CircuitBreakerProofs
  Oracle                                                  MCOracle          AttestationProofs
  ProductRegistry <- Tracking <- Queries                  MCProducts        ProductProofs
  RingSignature, QualityControl                           MCProducts        AttestationProofs
Backend
  Saga, WorkerPool                                        MCProcesses       ProcessProofs (also of Twins)
  ConnectionManager                                       (its own cfg)
  Catalog <- Recalls;  Batches;  Listings                 MCProducts        ProductProofs
  CarbonMarket, AuditTrail, Access, PredictiveRouting,
  SensorReadings <- Twins, Regulation, RuleEngine         MCBackend         ServicesProofs (CarbonMarket, Access,
                                                                            AuditTrail, PredictiveRouting,
                                                                            SensorReadings, Regulation,
                                                                            RuleEngine, Monitoring)
  Monitoring                                              MCWindows
```

`<-` is EXTENDS. Filtering holds one operator, `Kept`, for the code's loops that append what passes a test;
Queries, QualityControl, AuditTrail, Regulation,
RuleEngine and Monitoring use it. Recursion has no component: it holds the lemmas about recursive functions, sums,
remainders, filters and their order that the proofs share. `MCWindows`, `MCProducts`, `MCProcesses` and `MCBackend`
hold *parts*: a variable `part`, chosen in the initial state, says which modules take steps in a
behaviour; the variables of the others stand still at an initial state. A run with parts checks what separate runs would, in
one instance: every property speaks of the variables of one part. Where components really share state they
are composed instead: Governance composes the timelock with its targets; Tracking and Queries read
what ProductRegistry writes; Recalls reads the tables of Catalog; Twins synchronises from
SensorReadings.

**MultiSig** (`multisig.rs`). Variables are the storage entries (`config`, `next_proposal_id`,
`proposals`) plus the ledger clock and `invocations`, the number of target calls each proposal has
made. Every entry point that writes is an action; its early returns are the guards. `Executable`
are the six kinds that `execute_proposal` can run: executing another kind fails and so is no step.
**Ballot** is what the contract promises: numbered ballots that are approved when a yes completes
the quorum, rejected when a no makes it unreachable, and used at most once. `MultiSig!Ballots`
maps proposals to ballots; `ImplementsBallot` is checked by TLC and proved.

**Timelock** (`timelock.rs`): configuration check, proposals that may be queued at once, approvals,
one signer's veto, the execution window. **MainControl** has the administrative entry points of the
main contract and of the admin contract in front of it; **Upgrade** adds the upgrade contract. A
call runs in a *frame*, the set of addresses whose `require_auth` succeeds: the accounts that signed,
plus the contract making the call. **Governance** composes the three: `execute_action` and
`perform_action` are one step, while accounts and the multi-signature contract call the same
contracts directly in between. The two oracle actions of the timelock belong to Oracle, where the
timelock is one of the two controllers.

**CircuitBreaker** (`circuit_breaker.rs`): pauses, proposals with windows, lifting, and the query
that clears a pause past its end (`ExpireOnQuery`). `QueriedState` is what a query would answer.

**ProductRegistry** covers the three contracts that each keep part of a product. A transfer writes
two of them in one transaction; a client works through a batch chunk by chunk with the returned
cursor while other calls go on. **Tracking** adds events, the per-product list and the 0-based type
index with its pages. **Queries** has the three contracts that read them and the main contract's own
pages: each query is an operator with the code's validation and index arithmetic, and `reader` is a
client that asks for page after page until `has_more` tells it to stop, while events come in. That
the pages of two contracts agree is checked although they read different storage entries (the
list of ids, the type index, the events one by one).

**RingSignature** (`ring_signature.rs` of the contracts and of `sdk/rust`): the group of prime order
is the integers modulo `Q`, a hash is the constant function `Hash`, a point off the subgroup is a
number outside it. Signing is the code's loop around the ring as a recursive function. The
environment shows the contract signatures with the ring or statement they were made for, and with
others.

**QualityControl** (`quality_control.rs` over `storage.rs`): every entry point; the running count,
extremes and mean are updated with the code's integer arithmetic, which truncates toward zero.

**StateChannel** (`state_channel.rs`): a signature check is membership in `signed`, the set of states
both parties signed for the channel, which the environment adds to, one state per nonce. The pause
switch of the main contract and the clock are the environment too.

**Oracle** (`oracle.rs`): one feed. Every report recomputes the snapshot over all fresh reports
(`Recompute`): reference median, deviation in basis points with its cast to 32 bits, rewards and
slashes, median of the accepted values, or the fallback. Division truncates toward zero as `i128`
division does.

**Saga** (`saga_manager.rs`): processes that share a database. A task owns a copy of the instance,
changes it and writes the whole copy (`Write`); a write may be lost, a process may die between any
two stretches under the instance's mutex. Booting selects unfinished rows and compensates each in a
task of its own, or fails to select them, which is logged and not tried again. A compensation may
fail (only logged), may have no handler (passed over: `PassOver`, by `Undoable`), and a process outside
`registered` writes `Compensating` and leaves the saga there. `executed`, `undone` and `failedUndo`
are what happened in the world.

**WorkerPool** (`redis_workers.rs`): the processing loop of each pool (permit, pop, spawn), the tasks
it spawned, which answer, ask to be tried again or run over their time, and what a crash or a failed
Redis call loses. The sorted set is a set of members with `Score`.

**ConnectionManager** (`websocket/manager.rs`, `websocket/handler.rs`): each call that takes two
locks is two actions; between them the task holds the first.

**Catalog**, **Recalls**, **Batches** (`product.rs`, `event.rs`, `sync.rs`; `recall.rs`,
`handlers/event.rs`; `batch_service.rs`). A call of the backend is a sequence of statements on
PostgreSQL and Redis without a transaction around them, so each statement is an action and a record per client
holds the local variables across the `await`s: what it read and what it is about to do. Redis
calls may fail and be ignored, as the code ignores them, and a call may be dropped between two
statements, as happens when its client disconnects. Users and keys are two counters of `Catalog`, for
the figures. **Listings** has the WHERE, ORDER BY, LIMIT and OFFSET of the
lists of all services and the limits their handlers set, over one table whose rows come, change,
go and may share a time.

**CarbonMarket**, **AuditTrail**, **Access**, **PredictiveRouting**, **SensorReadings**, **Twins**,
**Regulation** are written in the same way; the comment at the head of each names its files and what it leaves
out. In AuditTrail an HMAC is an injective function of what it covers and rows may be altered from outside;
in Access users, keys and the date change between the statements of a request; in Twins a JSON state
keeps the *kind* of each value, because a `Decimal` is written as text, NULL as `null`, and neither is read back as a number,
and clients write any state that is an object, with times of readings of their own (`ClientStates`);
Regulation keeps the whole table of rules and the validator's regimes.

**Monitoring** (`monitoring.rs`): a check of the alerts reads the errors, then the infrastructure, then
looks at the cooldown under a read lock and marks it under a write lock; everything else is one
action under one lock. **RuleEngine** (`services/rule_engine.rs`): every operator of a condition,
the predefined rules, the stable order of priorities, and an evaluation in which actions may fail;
an evaluation holds the engine by reference and is one step, because nothing can change the rules
meanwhile.

### How state and actions correspond to the code

`PROJECT.json` maps every definition to the lines it translates. The rule throughout: an action is
a whole entry point with all it writes; a call that fails is no step, because the ledger undoes it
(contracts), or is a step with its partial effects (backend). Maps become functions, `Option` a
distinguished constant, addresses model values. A nullable column is a set of at most one value or a distinguished
constant. Left out: texts, reasons, metadata, event emission, time-to-live of entries, and the ids'
overflow at 2^64. SQL statements are taken to do what their text says.

The contracts are modelled as the tests of the repository deploy them: each its own instance,
linked through their `init` calls. (`lib.rs` compiles only some of the contracts into the wasm
artifact; the rest exist in host builds.)

## Conventions

Bounds are constants named `Max...` that appear in guards; nothing else limits behaviour. Mutants,
definitions whose comment starts with "Mutant:", stand just before the definition they could
replace, and are plausible mistakes in that code: for each property of a passing run there is one
under which TLC finds the property violated. They are used nowhere else. Clocks count in units of a window's length.
Runs that check liveness use no symmetry.

## Runs

| run | instance | what it shows | states |
|---|---|---|---|
| `multisig` | 3 accounts, any subset signers, any threshold, per-kind thresholds 0, 3 and 4 (above the number of signers), 2 proposals, one runnable and one unknown kind, 2 ticks | time locks and single execution; refinement of Ballot, which says when votes decide | 216 k |
| `windows` | channels: 2, of 2 parties, one watchful, nonces up to 2, window 1; timelock: 2-3 signers, 10 configurations of which 8 fail one check each, 2 operations, clock past every window; monitoring: 2 checks, 4 calls, 2 times and codes, a clock past cooldown and hour | no stale close settles against a watchful party, every close settles; an operation is performed once and in its window, a veto stands; figures miss nothing and alerts are a cooldown apart | 458 k |
| `governance_composed` | 2 accounts that may hold every role, one operation of every kind, direct calls and multi-signature calls in between | what the timelock executes has its effect; the two admins move together | 498 k |
| `governance_emergency` | same | *violation*: the emergency pause through the timelock | |
| `breaker_safety` | 2 accounts as admin and guardians, 2 pauses, 1 proposal, ends never, in time, too long | the lazily cleared state answers as the log says; a proposal takes effect once and with its quorum | 4.06 M |
| `products` | 7 parts: 2 products sharing a word, 2 accounts, a batch of 3 with a product named twice, chunks of 2; 3 events in 2 ledgers, pages of 0, 2 and 3, a walking client; rings of 2 and 3, with a repeated member, with a point off the subgroup; 2 readings of one sensor, below zero; 2 clients, 2 products, 1 recall; 2 clients, 2 batches; each of 13 lists with 3 rows | owners, counters, index; pages; signatures; figures; caches; recalls; walks | 1.21 M |
| `events_while_inactive` | same | *violation*: events for deactivated products | |
| `oracle` | 3 reporters, 3 values, 2 configurations, 4 reports, 2 ticks | minority influence, slashing | 468 k |
| `processes` | sagas: 2 processes, 1 saga of 2 steps, 2 attempts, 2 crashes, 1 lost write; tasks: 2 pools with one permit, a handled and an unhandled task, 2 retries, 1 outage | rows against the world, settling; one copy of each task, an answer for each | 419 k |
| `saga_replicas` | no crash, no loss | *violation*: recovery undoes a live saga | |
| `websocket_broadcast` | 2 connections, 1 channel, 1 publisher | *violation*: deadlock of two locks | |
| `backend` | 8 parts: 3 users, 1 credit, 2 trades, 1 cut; 2 writers, 3 rows, 1 alteration, a purge; 2 sessions, 2 users, 2 keys, 3 requests; 2 callers, 2 shipments, 2 places, 1 failure; 1 sensor with 2 thresholds and 2 readings out of order, 2 clients; 1 twin with its loop and clients that write states of their own; 2 clients, 2 requirements, 1 product that comes and goes; 2 rules of 5, 4 events | the services' statements in every order | 1.15 M |

Why the bounds are enough for what they are to show:

- *Votes*: with three signers every relation of threshold to signers occurs (below, equal, above,
  zero, one), both a blocking minority and a bare quorum; two proposals suffice to see one disturb
  the other. The proofs lift the bound.
- *Windows*: a window of one unit has its first and its last instant, and the clock runs beyond the
  end of a chain of disputes (`LastClose` plus one window per nonce), or beyond `execute_by`.
- *Governance*: one operation at a time, because two never touch each other's record (proved
  without bound in WindowProofs); what matters is what other callers do to the *targets* before
  execution, and there any number of calls may come between.
- *Breaker*: two pauses are needed for one to replace the other; a third only repeats the second.
- *Products*: two products sharing a word distinguish index entries; three items in chunks of two
  give one full and one partial chunk, and the repeated product is skipped the second time.
  Three events of which two share a ledger give pages that end before, at and past the end of the
  log, filters by every field that cut it at both sides, and an event that comes between two pages.
- *Oracle*: with three reporters a minority is one and an even count occurs (two fresh, one stale);
  values include a negative one, one near it and one far from both; basis points are tenths and 32
  bits are six, so that deviations beyond the width are reached.
- *Saga and pools*: two steps give the gap between execution and record, two processes the double
  recovery, two crashes a crash during recovery; two tasks on one permit each give a task that has
  to wait, two retries one that fails for good.
- *Statements*: two callers are what a race of a read and a write needs, and the histories `raced`,
  `crossed` and the like tell behaviours with a race from those without; one failure and one cut
  call at any place give each partial effect. Three calls let a third see what the first two left.
  In routing and with the twins failures count as calls, so that a third call meets no failure.
  Two trades of one credit let a second buyer meet it after it was sold.
- *Lists*: three rows make pages of one and two with a row on either side of the cursor; two times
  make ties and an order.

`CHECK_DEADLOCK FALSE` appears where bounded clocks and counters, or finished sagas, leave nothing
to do; each cfg says which.

## Findings

Four runs expect a violation; each checks one sentence of the repository's own text.

1. **Emergency pause through the timelock leaves the main contract running**
   (`EmergencyPausesMain`, `upgrade.rs:301`). `emergency_pause` ignores the result of `try_pause`.
   The timelock authorizes only the call it makes itself (`authorize_subcall`, empty
   `sub_invocations`), so the main contract refuses the nested call as unauthorized, while the
   emergency flag is set and the operation counts as executed. Comment: "Also pause the main
   contract if available".
2. **Events for deactivated products** (`NoEventsWhileInactive`, `tracking.rs:89`).
   `tracking_add_event` never asks the registry. Comment on `deactivate_product`: "Deactivation
   prevents new tracking events".
3. **Recovery undoes live sagas** (`CompletedNotUndone`, `saga_manager.rs:491`). Recovery selects by
   state alone. The deployment runs three replicas and starts new ones first
   (`docker/autoscaling.yml`), so a booting replica compensates a saga another one is running and
   goes on to complete.
4. **Lock-order deadlock** (`BroadcastDelivers`, `websocket/manager.rs:96`): `broadcast` locks
   channels, then connections; `subscribe`, `unsubscribe` and `remove_connection` the other way
   round.

## Other divergences

Noticed while reading and modelled as the code has them; no run is spent on them.

- *MultiSig.* A proposal whose quorum is one is not approved at submission although the proposer's
  approval is recorded: it needs a second approver, and with a single signer it can never be
  approved (`submit_proposal`; the doc of `init_multisig`, `multisig.rs:129`, calls the threshold
  "the number of approvals required to execute proposals"). `NoHungVote` is therefore stated for
  quorums from two up to the number of signers.
- *StateChannel.* The lifecycle comment (`state_channel.rs:17`) lets "anyone holding a
  strictly-higher-nonce signed state" dispute; `channel_dispute` requires a participant.
- *Upgrade.* The emergency flag is consulted by `initiate_upgrade` only: an upgrade in progress is
  completed during the pause.
- *CircuitBreaker.* A pause that another replaces keeps `lifted_at = 0`, documented as "0 if still
  active"; `is_paused`, documented as "at any level above Advisory", is true at Advisory; a guardian
  can replace an emergency by an advisory pause although lifting is "Admin only"; the duration given
  to `propose_pause` is validated and dropped, the executor chooses it. A pause is over when the time
  *reaches* `expires_at` (`is_expired`, `circuit_breaker.rs:186`), where the lifecycle comment has it that the
  time "exceeds" it (`:32-34`). `check_writes_allowed` and `check_mutations_allowed` return true when the
  call is allowed, as their names and callers have it; their docs say true when it "should be blocked"
  and "when all mutations are blocked" (`:591`, `:601`). `ChecksFollowLog` takes the code's side of both.
- *Queries.* `get_total_events` reads the event counter from the statistics contract's own storage,
  where nobody writes it: always 0. The main contract's `add_tracking_event` looks products up in its
  own storage, where nobody registers any.
- *QualityControl.* A reading is critical beyond the threshold by a fifth ("20% below threshold"),
  computed as `min - min / 5`: for a negative minimum that lies above it, and every reading out of
  bounds is critical. Readings of one sensor for one product in one ledger share their id.
- *Oracle.*
  - The deviation is cast to `u32`. With the reports 0, 1 and 429498 and a limit of 3000 basis
    points the reference is 1, the deviation of 429498 is 4,294,970,000, which is 2,704 modulo 2^32:
    it is accepted, and the snapshot becomes the median of 1 and 429498, 214749. `MinorityBounded` has
    the premise `NoWrap` for this reason; the scaled instance reaches states on both sides of it.
  - A feed that needs two sources and has no fallback value cannot start: the first report finds no
    consensus and nothing to fall back on, fails and is undone.
  - Every round judges all fresh reports: one outlying report is slashed once per later report.
  - A reporter's late, older observation replaces its newer one, and the snapshot's time can go back.
  - `get_feed_value` serves a fresh snapshot while the flag is up, with `circuit_broken` false, and
    one outside a range that was narrowed since; a fallback's time of observation is the caller's.
  - Stakes weigh nothing: `docs/SECURITY_IMPLEMENTATION.md:16` says outliers "reduce staked
    participation weight".
- *Saga.*
  - As committed the file does not compile (`step_result.error` and `definition` are used after
    they are moved, `async_trait` is not imported); the model is of what it says.
  - `main.rs` registers the action "noop" only, so the first step of the one registered definition
    has no handler; `start_saga` has no caller.
  - The failure path locks the instance again while its guard is alive. The task never returns; the
    next `get_saga_status` waits for the instance holding the read lock of `running_sagas`, and
    from then on no saga of that process can be inserted or removed.
  - `Settles` names every reason found for a saga to stay in progress or compensating: a handler that
    does not answer (`timeout_ms` of a step and of a definition is never read), a recovery that could
    not select the sagas (`main.rs` only logs it), a last write that failed, a process that does not
    know the definition (`compensate_saga` returns after it wrote `Compensating`), and the map of
    running sagas held for ever. With one saga the last of these does not occur; it needs a second
    one, started before the recovery. `main.rs` registers the one definition always, so processes
    that differ in `registered` are processes of different versions, as a rolling update runs them.
  - "Given up" does not mean undone: a compensation that returns an error is logged, one without a
    handler is not even that, and the row says `Aborted` or `Failed` all the same.
    `GivenUpMeansCompensated` claims no more than that every compensation there is was called.
  - A row left `Pending` by a crash is never recovered; a step executed but not yet recorded is not
    compensated; steps are compensated again after a crash during compensation; `Failed` overwrites
    `Aborted`; recovered sagas stay in `running_sagas`.
  - `current_step` is commented "ID of the currently executing step" in the migration and holds the
    step completed last.
- *WebSocket.* `main.rs` declares the module and mounts no route to it.
- *Worker pool.* Scores are the negated priorities ("negative for higher priority first") and the loop
  pops the greatest score, so the lowest priority is served first.
- *Products and batches.* Two calls that cross can leave a stale copy until it expires (a reader
  fills the cache after the writer dropped it). The copy of the global figures holds the numbers of
  users and of active API keys too (`event.rs:147-152`), and what writes those tables (`user.rs:46`,
  `api_key.rs:32`, `:51`, `:131`) never drops it: for up to five minutes (`:185`) these two are
  stale with no calls crossing at all. The model has these writes; `SerialReadsCurrent` claims that
  the copy's products and events are those of the tables and its users no more than there are, and
  nothing of its keys. Which products are active is not in the model, nor that figure. Deleting a product deletes its batches by cascade
  and leaves their copies. The handlers that create and update products build an empty request
  for the authentication and always answer 401, so rows come from the sync.
- *Recalls.* Nothing closes a recall. Two notifications at once may leave the number of notices too
  low, never too high.
- *Lists.* The search ignores the offset; its total, and that of events by type, is the length of the
  page. Batches have no highest limit. When a row before others goes, changes or is
  dated anew, later rows move up and a client passes over one of them; rows that share a time come in any order.
- *Carbon market.* A credit that is listed and then retired returns to circulation when the open trade
  is bought: `purchase_credit` checks the trade and overwrites the credit without a look at its
  status (`retire_credit`: "permanently remove from circulation"). Two buyers that read one open
  trade together both go on. The handlers of the lists ask for the nil user.
- *Audit log.* Two requests that log at once read the same newest hash and fork the chain, and
  `verify_chain` then calls an honest log broken ("tamper-evident HMAC hash-chain",
  `backend/API_DOCUMENTATION.md:76`); so does a purge, whose first remaining row names a predecessor
  that is gone. The HMAC does not cover the address and the user agent. Rows deleted at the end go
  unnoticed. Both queries of the chain pass over rows without a hash (`audit_service.rs:285`, `:324`:
  `WHERE row_hash IS NOT NULL`), such as those written before there was a chain: an alteration that sets
  a row's hash to NULL takes the row out of what is verified, and `VerifyTellsTruth` promises
  nothing of it. `purge_expired` and `verify_chain` have no callers.
- *Access.* Registration and login are behind the layer that asks for an administrator's token. The
  rate limiter is the outermost layer: it runs before the authentication it needs and refuses every
  request. `rotate` does not ask whether the key is active; a failure between revoking the old
  key and inserting the new one leaves none. `utils/crypto.rs` passes a nonce of 15 bytes to a
  cipher that takes 12.
- *Predictive routing.* Spreading writes what it computed from the graph it read before the shipments
  were scored, over signals merged since. Two scorers may raise one alert twice;
  acknowledging a resolved alert reopens it. No statement takes a shipment out of transit. A
  failing statement leaves the shipments after it unscored and an export pending. The doc of the
  deviation score divides by `max(planned_hops, 1)`, the code by 5. No alert is raised beside an open one of
  the last hour *of any type*: the comment says "skip if an open alert of the same type exists"
  (`predictive_routing_service.rs:589`), the query has no type (`:590-597`), so that a critical score stays
  silent beside an open alert of a delay. `HighScoreAlerted` asks for an open alert of the shipment, of whatever
  type, and asks for it anew after each time one of its alerts was closed or an hour went by.
- *Sensors and twins.* A `Decimal` is stored in a twin's state as text, which `as_f64` does not read: after
  a synchronisation of its temperature the decay of a twin uses the defaults, 20 and 50. `update_twin_state`
  stores any JSON (`digital_twin_service.rs:82-89`), so a client may move the `last_reading_at` of a twin
  back by itself: `SerialTwinMovesOn` compares what *synchronisation* wrote (`synced`) with what it wrote
  before. States that are JSON but no object, to which `||` appends, are left out. The schema's default of
  `decay_model_params` is `'{}'`, from which the model's parameters cannot be read: the health of such a
  twin fails to compute until they are set; the model has the parameters. A reading is anomalous below a quality score of 50
  while the column holds 0 to 1. The loop and a triggered synchronisation at once can write an older
  reading over a newer one, and two health computations lose an entry of the history.
  Thresholds have a column `duration_minutes`, "How long threshold must be breached to trigger alert"
  (`20240107000000_add_iot_sensors.sql:51`), which `create_threshold` stores and nothing reads: the first reading
  beyond a threshold raises the alert, and this is what `EveryBreachAlerted` says. An error while
  thresholds are checked is dropped after the reading was stored: the alerts still due are lost for good, and the
  property claims nothing of behaviours in which a statement failed.
  `run_simulation` ignores the status, and when it fails the simulation stays running.
  A sync type the code does not know is stamped as synchronised. `trigger_sync`, `start_sync_loop`
  and `generate_summary` have no callers.
- *Monitoring.* `AppState` holds a `MonitoringSystem`, but the handlers make a new one for each request,
  so the dashboard is empty and each check alerts: `InternalServerError`, about which `check_alerts`
  asks, is a critical code whatever the rate, and a new monitor takes Redis for lost. Alerts about the
  pool and Redis ignore the cooldown ("Alert cooldown period", `monitoring.rs:505`). Two checks that
  look before either marks both alert. The rate falls with the next error or a reset, not with time.
  `state.error_monitor` is no field of `AppState`.
- *Rule engine.* Values that are missing or of another type compare as equal, so a QUALITY_CHECK event
  without the field `passed` raises the alert for a failed check ("Alert when quality check fails",
  `rule_engine.rs:433`). An action without a handler counts as executed. Ids are not kept unique.
  `compare_values(..) == 0` compares an `Ordering` with an integer and does not compile; the model
  takes it as the sign. Nothing evaluates an event.
- *Regulation.* The stored data of a product never hold the fields that the five typed regimes ask for
  (`consent`, `digital_signature`, `origin`, ...), and unknown types count as GDPR: through the
  check only SOC2 and ISO27001 requirements can be met. Columns that are NULL count as given. The
  check only updates verdicts: one is told although no row was there to write. Reports divide by
  products what they count in rows, so a rate may exceed 100 %, and count nothing as pending. A
  requirement that changes during a check leaves the old verdict beside the new text. A product that is
  created during a check of it leaves a wrong one: read as missing it is `{}`, which lacks everything
  (`regulatory_service.rs:342-343`), and `non_compliant` is written (`:260`) once the product and its row
  are there. The model has both races; `VerdictsStand` claims nothing once one has happened. `tags` and
  `certifications` are columns of type `TEXT[]` and are read as JSON (`:338`, `:340`), on which `get`
  panics: as committed no check of a stored product comes past that read. The model reads what the
  statement says. No route reaches
  the service's handlers, and `compliance/mod.rs` does not declare the modules that it imports from.

## Fairness

- `windows`, channels: ledgers keep closing (`Tick`), a watchful party disputes when it holds a newer
  state, and some participant finalizes once the window has passed. These are assumptions about the
  users, written into the spec as `Watchful` and in `Fairness`; the code cannot make anybody call it.
  Weak fairness is enough because neither the pause nor another call disables a dispute within its
  window, except by being one. The safety property `LatestStateSettles` uses `Watchful` as well: the
  clock does not pass the deadline of a channel while a watchful party holds an unposted proof.
- `processes`, sagas: weak fairness of what a task does by itself (`OwnStep`), since the tokio runtime
  polls every ready task, and of coming up, since the compose files restart a process that died
  (`docker/autoscaling.yml`: on failure, up to three attempts, more than the run has crashes). A
  recovery is only tried: that it fails is as fair as that it succeeds. A handler's answer is not
  fair, of an action or of a compensation (`Answered`), since nothing bounds the time it takes. Tasks: weak fairness of the loop of every pool and of the end of every
  spawned task, which `tokio::time::timeout` bounds, and of the start that `main.rs` makes. Crashes,
  losses, outages, stops, starts of sagas and queries are not fair.
- `websocket_broadcast`: strong fairness of lock acquisition, which is what tokio's first-in
  first-out locks give. The counterexample is a real deadlock, not starvation.

Parts that stand still have no fair action enabled, so fairness of one part asks nothing of
another. All other runs check safety. The services of the backend promise nothing in time: a call that is
cut off is not taken up again by anybody.

## Proofs

TLAPS checks these modules from nothing; there is no assumption but the named `ASSUME`s of the
modules, which TLC evaluates in the runs. They say that sets of accounts, products and the like are
finite, that parameters have their types, and:

- AccessAssumption: `NoRow` is none of the ids and rows, and the administrator is a user.
- CarbonAssumption: the footprints asked for are of the request's type.
- CatalogAssumption: that a product has no owner is not the name of an owner.
- GovernanceAssumption: the version an upgrade action names is a version.
- IotAssumption: a reading names one product or none.
- RecallsAssumption: deltas of recovered items are integers.
- TwinAssumption: the synchronisation loop is one of the agents, and readings have times that can be
  compared.

Some of what is proved no longer needs a run and is stated in the
modules only for the proofs: `TypeOK` of three modules and `TimelockTypeOK`, `QuorumBacked`,
`RejectionExact`, `NoHungVote`, `AnchoredWasSigned`, `AnchorsAdvance`, `QueuedIffQuorum`,
`ClosedForAReason` and `HistoryStands`. They hold for every value of the constants.

A property of a run is seldom inductive. Each section names the invariant that is, and what it adds.

### Contracts

**MultiSigProofs.** `TypeCorrect`: `Spec => []TypeOK`. `Safety`: quorum backing, exact rejection,
single execution after the lock, no hung vote. The inductive invariant is `AllGood`: every proposal
satisfies `GoodProposal`, which adds two facts to the properties. `created_at <= now` is needed for
`approved_at >= created_at` to survive an approval; "an active proposal with a quorum of two or more
lacks it" is needed for `NoHungVote`, because the properties alone allow an active proposal that
already has its quorum and then collects the last vote. `BlockingMinority` carries the arithmetic:
n - t + 1 rejections, with the saturation, are reached exactly when the remaining signers are fewer
than t. `Refinement`: `Spec => ImplementsBallot`, by `StepRefines`: each step changes one ballot
(`VoteChangesOneBallot`) or opens one.

**WindowProofs, state channels.** `TypeCorrect`; `Settlement`: `LatestStateSettles` and `AnchoredWasSigned`;
`Anchors`: `AnchorsAdvance`. `LatestStateSettles` speaks of closed channels only; the inductive
invariant (`ChannelInv`) has `Settled` instead, which says the same from the instant the window has passed:
finalization then has nothing left to prove, and the burden falls on the clock's step and on the
disputes. `OneStatePerNonce` is needed because a higher or equal nonce must mean a newer or the same
state.

**WindowProofs, the timelock.** `TimelockTypeCorrect`; `TimelockSafety`: `QueuedIffQuorum` and
`PerformedOnceInWindow`; `VetoIsFinal`: `VetoStands`. The inductive invariant (`TimelockInv`) adds that a set
configuration passed `validate_config`, that there are no operations before it is set, and for each
operation that its window is the one its delay and the configuration give (`OperationOK`).
For the composition with the contracts the timelock governs: `GovernedTimelock`, the composition
implements the timelock alone, so that everything above holds in it; `TargetsSafety`, the targets keep
their types and an upgrade in progress is a valid one (`TargetsInv`; without that last fact completing
an upgrade could leave the versions); `ExecutedIsPerformed` and `AdminsAgree`, the two action properties
of `governance_composed`. `OnlyExecutionPerforms` is why one record tells the whole story: no other
step marks an operation as executed. For `AdminsAgree` one call remains that changes the admin contract's
admin, and it forwards the change in the same transaction, where the main contract accepts it or both fail.

**CircuitBreakerProofs.** `BreakerTypeCorrect`, `QueriesFollowTheLog`, `ClosingHasAReason`,
`ProposalsTakeEffectOnce` and `LogIsHistory`: both properties of the run, types, and that closed records
stay as they are, for any number of guardians, pauses and proposals. The inductive invariant `IInv` adds
`StateCopiesNewest` (the stored level and end are those of the newest record, which is open exactly while
the state says paused, and there are no guardians and no records before there is an admin): without it an
expiry, which reads the end from the state, could close a record whose own end has not come. It also adds
that the votes of a proposal are as many as its voters (`VotesDistinct`), which turns the code's
comparison of a vector's length into a quorum of different guardians, and that an open record names no
closer. `LiftCloses` and `ExpiryCloses` reduce the two ways out of a pause to one description, `Closes`.

**ProductProofs, the registry.** `RegistryInvariant`, `Bookkeeping`, `OneOwner`. `RegistryInv` adds to
the two properties that every indexed word lists a product once (`ListsOnce`), that the words of active
products and no others list it (`ListsActive`), and that both contracts name an owner for the same
products. A product's three fields may share a word and the code removes an entry by swapping; the
lemmas `Added`, `CutOut` and `Removed` say what that does to a list without repetitions, `Indexed` and
`Deindexed` what the three fields together do. `WithoutFirst` is the removal of the first occurrence
without a fold, which could not be reasoned about. The counters follow by the cardinality of a set
with one element more or less.

**ProductProofs, the reads.** `QueriesInvariant`, `WalksSeeAll`, `PagesAreRight`. A page is cut from the list
of ids of a product, from its index by type, or from what a loop over the ids let through, and
`PagesMatchLog` says that all are the same stretch of the log. `QueriesInv` adds to `RegistryInv` what
makes it so: the list is the log filtered by product (`ProductListed`), the 0-based index is that list
filtered by type (`TypesListed`), and the log is not longer than its bound; and of a walk in progress that
what was seen is the beginning of the filtered log as long as the offset (`WalkRight`). An event appended to the log
appends to its own lists and to no other (`AddKeepsLog`, `AddKeepsTypes`), and to a filtered log at its end
or not at all (`LogOfGrows`), which is why a walk with an offset stays right while it goes on.
`KeptTwice` makes filtering a filtered list one filter; `TwoAnswers` reduces each query of the two
contracts to one page (`PageIs`), whose `has_more` and length follow from the stretch.

**AttestationProofs, the oracle.** `OracleInvariant` gives types and valid configurations. `MinorityCannotMove` and
`MajorityKeepsItsStake` hold for any number of fresh reports. Their core is `MedianOfMajority`: if more
than half of the values lie in an interval, so does the median, also of an even count and with a
quotient that truncates toward zero (`HalfBetween`). `SortedValues` is the sorted sequence by what it
is, an element with as many below it as its rank says (`IsRanked`); that every rank is held
(`RankExists`) rests on the least and the greatest of a finite set of integers, which exist because
the strict subsets of a finite set are well founded (`WFMin`: no operator parameter is needed). Deviations are
cast to 32 bits, and `MinorityBounded` says nothing of reports so far apart that one wraps (`NoWrap`):
such a report may pass for a near one. `AcceptedWithin` turns the rounded quotient into the bound
`Within`, and `WithinConvex` carries it from the accepted values to their median.

**AttestationProofs, ring signatures.** `SignedIsAccepted`: what an auditor signs is accepted by the
contract and by the SDK, for every order of the group, every hash, every ring without repetitions, every
place of the signer in it, every nonce and every response drawn. The challenges go around the ring once,
from member 1 for the verifier and from the member after the signer for the signer, so both are functions
defined by recursion over positions. That such a function exists and is what its definition says is
`Iteration`, that two which go on alike are equal is `GoingOnAlike`, both in Recursion. The verifier's
are shown to be the signer's turned by its place (`SignersGoAround`, `PlaceIsAround`): from each position
to the next by definition, except over the signer, where the response undoes the secret
(`ResponseUndoesSecret`) and the challenge after it is the one the signer began with.
`VerifiersAgree` has the rest of the property: contract and SDK refuse a ring with repetitions and
never differ.

`HandoversAreAttested` needs more: that no hash of one ring and statement is a hash of another
(`HashSeparates`). The code hashes the number of members before the members, so that no two rings run
together, and then the statement; that SHA-256 does not collide on them is the assumption. It is about the rings
and statements in use, does not ask the hash to be injective in the point, which in a finite group it could
not be, and TLC evaluates it. From it: the challenge a signature carries is a hash of its own ring and
statement (`SignedChallenge`), what closes around a ring ends in a hash of that ring (`ClosingChallenge`),
so a signature is accepted for nothing else (`SignatureIsOfItsRing`). The inductive invariant `TrailInv`
keeps how each signature was made, that each record copies one, and the index of each product as a
filter of the ids.

**AttestationProofs, quality control.** `FiguresFollow`: `FiguresOf` says of each parameter's statistics
that they are those of its readings; one more reading is taken into them (`FiguresTaken`) or passes
them by (`FiguresPassed`). A sum is the value, at the set of the parameter's readings, of any function
that adds up the values over subsets (`SumsOf`); those sums do not depend on readings that come later
(`SumsStay`). That the mean, which the contract computes towards zero, lies between the extremes needs more: the sum lies
between as many times the least and the greatest, which each reading keeps (`QuotientBetween`).

**Recursion.** Induction needs no operator parameter when the property is a set: a set of natural numbers
has a least element (`LeastNatural`, by `WFMin` on the strict subsets of a finite set, ordered by
inclusion), so what holds at the beginning of an interval and of each next number fills it (`Climbing`).
The same by size for subsets of a finite set (`ByElements`) and along a sequence (`ByAppending`). A filter
is a loop, `KeptLoop` is what one more element does to it, and from it follow its type, that filtering twice
is filtering by both tests, and that only the elements' membership matters (`KeptAlike`). Sums as `MapThenSumSet` has them choose an
element and add up the others: the function they choose exists (`SumsExist`, by as many rounds of adding
as there are elements), whichever element is taken out first (`AnyElement`), and sums over disjoint sets
add up (`SumsOfParts`).

### Backend

The arguments have one shape. Every call in flight has a record of what it read; the invariant says
of each record, at each statement, how it relates to the tables *as they are by now*; a step of one call
preserves the others' relation because tables change in one direction only (`EffectsGrow`, `RowsStay`,
`RightsShrink`, `AlertsStay`, `Continues`), or because the property speaks only of behaviours without a
race.

**ProductProofs, the catalog.** `RecallsAreTrue`: `RecallInv` says that events have ids up to the last,
that a call's record is complete for the statement it has come to, and that the events a recall has
written down in `named` are its batch's (`NamedRight`). It follows a call from the statement that
identifies what is affected to the last write (`CallOnRecall`): before it nothing is claimed, after it
every product with a named event is among the items, and a count of notices that was read is
not above what there is. Every step `Continues` a recall or `Opens` one: items and notices only
grow. Deleting a product removes its events and its recalls; recall ids are not reused while a call
holds one (`FreshRecall`), as UUIDs are not.
`ReadsAreCurrent` and `BatchesAreCurrent`: as long as no two calls overlapped, none was dropped and
no Redis call failed, at most one call is in flight, what it has read is still so, and copies are those
of the tables except the copy it is about to drop (`ReadsRight`, `BatchesRight`). The first is proved on
top of `RecallInv`, because a call that continues as an automatic recall must be known to touch no copy.
`WalksMissNothing`: in `ListingsInv`, as long as nothing moved up, a kept and unseen row is tied or has at
least as many rows before it as the walk has passed (`Ahead`). In every order of the list it then stands
just behind those before it (`Placed`: an order is a permutation), hence on a later page or on the one being read,
and on that one if it is short (`PageTurns`); a write leaves the rows before it where they were or counts as
a move (`WriteStep`).

**ServicesProofs.** `CarbonTitle`: in `TitleInv` a call that is about to write still finds the credit
and the trade it read, the trade is of that credit, and one about to transfer the title has settled the
trade (`CallHolds`); rows stay (`RowsStay`). `SerialMarket`: in `MarketInv`, on top of `TitleInv`, no two
calls are in flight as long as none overlapped, what the one in flight read is still so (`CallStands`), and a
credit agrees with its trade but for the write that this call is still to make (`CreditStands`): a listable
credit has no trade, or it is about to be marked; a listed one is offered by its owner, or is about to be
transferred; a sold one was bought by its owner. That no more is listed and sold than is available, and that
a report's parts fit into its whole, is `TonnesOfParts`; the sums are finite because a step issues one credit at
most (`OneMore`). `AccessRights`: `RequestHolds` says of a request at each
statement that what its user may do now is part of the rights it has had since it came in, which key
and role it has proved, and, of a rotation, which key it will insert anew; rights only shrink
(`RightsShrink`) but for `update_user`, which the history records. `HighScoresWarned`: an
alert is changed only together with the list of the warned: closing one takes its shipment off it, an hour
that goes by everybody (`UpdateKeeps`), and whoever is put on it has an open alert or has just
been given one (`InsertAlertKeeps`). `SignalsAreReports`: `RoutingInv` says of the nodes and of every graph in a
caller's hands that a bound on what was reported bounds every signal (`Below`), and that as long as none
overlapped no signal is less than its report; what is reported only grows, so a graph read long ago stays right
(`SignalsStay`), and a mean is not above the greatest of its neighbours (`MeanBounded`, by `SumsBounded`). `BreachesHeard`: in `BreachInv` every threshold a stored reading breaches
has its one alert, or has none and is still owed one by the agent that stored the reading (`Outstanding`);
no two agents judge one reading (`OwnReadings`), so none is raised twice.
`VerificationIsTrue`: in `AuditInv` every hash, in the table or in a task's hands, is one of a row that
was inserted (`Hashes`), and each row was chained to one inserted before it (`WrittenChained`). A valid
row's hash, if it has one, covers its event and its predecessor's hash, so the inserted row with that hash has both
(`HashOfWritten`), and applied twice this gives the order. `Undisturbed` says the rest: one task at a time
has read the newest hash. `VerdictsAreRight`: `RegulationInv` says of a check at each statement, as long as no
requirement was changed and no product created under a check, that its
requirement is as it was read and its status right, or its product is gone (`Inspecting`), of a checked row that it is right unless it is
outdated (`RowHolds`), and that the trail's last word on it is the row's, or some check is about to write it
(`TrailHolds`); a deleted product takes its entries along and leaves the others' order (`KeptTwice`).
`RulesAreApplied`: in `EngineInv` the rules stand in the order they are judged by (`InOrder(rules, Earlier)`).
Those of no lower priority than a new one are therefore the first of the list (`FirstOnes`) and it is put behind
them; removing and filtering keep the order (`RemovedInOrder`, `KeptInOrder`). What the predefined rules match is
worked out from their conditions (`DescribedRight`), given what `RuleEngineAssumption` says of JSON: a value has
the type it says it has.
`MonitoringIsRight`: `MonitorInv` says of every instant from an hour ago on that as many of the recent errors are
younger as there ever were (`FaultsHold`); those a filter drops are older, and an hour that starts later asks for less
(`HourKept`, `FaultsStay`), so nothing is needed about the order of their times. A percentile, chosen by its rank,
exists because the times up to a bound only grow with the bound and take in all of them (`PercentileRanks`). As long
as no two checks met, one at a time is about to mark, and whatever it marks is a cooldown after the last alert about the
rate (`OneMarks`, `Spaced`).

**ProcessProofs.** `SagaInvariant`: every copy of an instance, in the database or in any task's
hands and of whatever age, claims as completed a prefix of the steps that was executed, and given up
means that all of it was `Treated`: compensated, tried to, or without a handler (`InstanceHolds`); a task adds where it stands in its loop (`TaskHolds`).
As the world's effects only grow (`EffectsGrow`), lost writes and rows written over by an older copy
are harmless for `RowsAreTrue`: whichever copy is written last was true. `GivenUpIsCompensated` follows from the
same invariant. `OneCopyOfATask`: in `PoolInv` a copy, queued or in a pool's hands, is the only one of
a task without an answer (`OneCopy`, `CopiesLive`), and its handler has run no oftener than the copy
was retried.
`TwinsInvariant`: `WorkInv` says what an agent may be at and that, as long as nobody crossed, one agent at most
is at a twin. `HistoryIsBacked`: the history of a twin holds its last scores (`Backed`) but while a computation is
between its two writes; then it does together with the score that is about to be inserted, and one that has read
the history and not written yet still has the right one (`HealthJob`). Cutting the list to its last entries keeps
this (`BothOneMore`). `TwinsMoveOn`: the time synchronisation last wrote into a twin is that of a reading of a sensor that feeds it
(`TimesOfTwins`; the time in the state itself may be a client's), so where that is one sensor the newest reading is not older; what was read is still not older
when it is merged, because nobody else has written meanwhile (`MergesMoveOn`). Most steps touch neither (`Calm`).

## What is not shown

- *Only model-checked*: `ClosingSettles`, `Settles` and `EveryTaskAnswered`, because liveness and
  ENABLED are out of the prover's reach. Every other property of the passing runs is proved. No module that
  a proof uses declares a `RECURSIVE` operator.
- *Properties with a premise*: where the code does not keep a promise when calls race, the property
  says what it does keep (`Serial...`, `SignalsTraceReports`, `VerdictsStand`, `WalkMissesNothing`) and
  the race is described above. The histories the premises name only grow when the race has really
  happened, and the runs reach states on both sides.
- *Abstractions that could hide something*: signatures, hashes and ciphers are perfect (but for
  the ring signatures, which are computed in a small group); ledger storage never expires; one feed
  per oracle; the definition of a saga is a list of equal steps, an action that reports an error
  did nothing; a Redis copy never expires (expiry only removes what a property could object to);
  PostgreSQL's statements are atomic and see what was committed before them.
- *No checked property*: the consistency of the upgrade contract's version, status and pending
  info is modelled, and tested only through what Governance checks of it.

### Not modelled

- *Mercury indexer* (`mercury_indexer.rs`): `fetch_events` returns an empty list as committed, so its
  cursor, store and retry queue never meet an event.
- *Quality inspections* (`quality_service.rs`): the statements that create and update them return no
  `updated_at`, which the row type needs: every such call answers with an error after the statement took
  effect. `execute_workflow` stops at its first inspection. No route reaches the service.
- *Suppliers, finance, collaboration*: one statement per call, without conditions between calls.
- *Analytics, blockchain clients, verifier*: functions of their arguments that keep nothing,
  floating-point formulas, constants, or cryptography.
- *HTTP layer, cron, backups, configuration*: parsing, timers around shell commands. The limiter is one
  atomic increment in Redis per window. Handlers whose checks decide what a service is asked are mapped
  with the service.
- *What the twins compute*: simulations and predictions store constants; the Monte Carlo run and the
  accuracy statistics write nothing.
- *The frontend, the Python and JavaScript SDKs, deployment*: no protocol state.

## Plan

All components in which the order of steps matters are modelled, and the safety properties that the runs check
are proved. What could follow:

1. A property of the upgrade contract by itself: its version, status and pending info agree.
2. The rows of simulations and predictions, whose two statements can be cut apart (a simulation that stays
   running), once something in the code reads them.

The inductive invariants are to be checked by TLC before they are proved.
