# Formal model of the DCC synthetic liquidity engine

TLA+ specifications of the DCC synthetic liquidity engine, the TLC
configurations that model-check them on small instances, and proofs, checked by
TLAPS, of the properties that matter most.  Every definition is translated from
the code under `src/`; `PROJECT.json` maps each one to the lines it stands for
and lists the runs, the mutations each property must catch, the hazards of the
code and the theorems.

## 1. The system

A user swaps an asset on DecentralChain for an asset or a synthetic that
another venue provides.  Funds are locked in an escrow, a relayer executes the
external leg from its own inventory, and the escrow delivers the output or
returns the input.  RIDE contracts hold the money; TypeScript services, which
share one PostgreSQL database and a BullMQ queue, drive the life of an
execution.

    client -> quote-engine / router -> execution-service -> execution-tracker
                    |                        |
              market-data            escrow-service -> escrow tables <- escrow-api
                                             |
       relayer-api -> relayer-service -> BullMQ -> execution-worker -> venue, hedge
       operator-api, protocol-control ---switches------^   |
                                      inventory-manager -> inventory tables
                                      reconciliation -> external executions
    synthetic-service -> AssetFactory, SyntheticVault, SyntheticAMM   (RIDE)
    oracle-daemon -> OracleAdapter, SyntheticVault    web panel -> SyntheticAMM

| Component | State | Operations | Hard behaviour | Correct when |
|---|---|---|---|---|
| ExecutionEscrow contract (`ride/ExecutionEscrow.ride`) | per execution: status, immutable intent, amounts; nonces, roles, allowlist, pause, counters; the account's balance | create, five leg callables, complete, partial fill, fail, expire, two refunds, administration | any caller in any order; a deadline; executions share one balance | finalize xor refund; refund within the deposit; the user is made whole; deposits come home without the relayer |
| Escrow service and write paths of escrow-api | `escrow_intents`, `relayer_confirmations`, `escrow_transitions`, `escrow_events` | 12 HTTP handlers, timeout monitor, auto-refund timer, bulk refund and expire | handlers interleave at every `await`; timers overlap requests; faults and restarts between statements | each record lives along the transition table; one audit path; refund fixed once; overdue records settle |
| Relayer jobs: intake, queue, execution-worker, retry and cancel | `relayer_jobs`, `inventory_reservations`, `relayer_inventory`, `hedge_records`; the queue; `currentStatus` and `reservationId` in the worker | intake, a pipeline of 11 transitions, fail and release paths, expiry of reservations, retry, cancel | redelivery after crash, stall or exception; duplicate intake; two workers on one job; partial failure of two-statement updates | one trade per execution; inventory row balanced; nothing left behind without faults |
| SyntheticVault contract | reserves, positions, per-asset supply, liability and mark price, totals | deposit and withdraw reserves, open, add collateral, close, mark price, record mint and burn | long sequences of calls; totals rounded otherwise than their parts | backing is reserves plus collateral; the total tracks the assets |
| SyntheticLiquidationEngine | cooldown, roles, its own balance | liquidate, administration | reads the vault's positions, pays from its own balance, never writes the vault | collateral is seized once |
| SyntheticAssetFactory | per-asset supply, cap, status, authorizations | create, configure, mint, burn | the supply is counted a second time by the vault | the two supplies agree |
| Synthetic service | assets and pools in memory | mint and burn: memory, factory call, vault call; pools: requests and hydration from the chain | one of two chain calls fails; overlapping hydrations with torn reads; restarts | supplies agree but for what is accounted for; the list of pools converges to the chain |
| SyntheticOracleAdapter, oracle daemon | sources, submitted prices, aggregate; cycles under way | submit, batch, aggregate, administration; fetch, submit, aggregate, read, push | stale and missing venues, weights that do not add up, overlapping cycles | the price is between those it was made of; the mark price follows the quotes |
| SyntheticAMM | reserves, LP tokens, fees, configurations | create, swap, add, remove, delete, fees | rounding over long sequences, virtual liquidity, pools created again | nobody's share is diluted |
| PairRegistry, RiskConfig contracts | pairs, links, limits, breakers, roles | register, configure, link, pause; set limits, breakers | calls of two roles in any order, checks made in some setters only | the list names each pair once; limits keep their floors |
| Inventory manager | `inventory_reservations`, `relayer_inventory` | reserve, release, consume, expire | three statements a request, none of which looks at what has changed | the books balance |
| Quotes, routing, market data | snapshots, quotes and plans cached with lifetimes | poll, quote, plan, score | quotes that age on their way; a market data service that is unreachable | plans within the limits, made of fresh quotes |
| Execution service and tracker | executions and nonces in memory | create, walk through the statuses, dispatch | failed calls and restarts between two of them | an answered execution has gone through all its statuses |
| Reconciliation | `external_executions`, `reconciliation_records` | runs by timer and by request, resolution by hand | runs overlap; rows change after they were read | a verdict is earned |
| Protocol control, operator API, worker's risk checks | switches of protocol and markets | pause, resume, breakers; five reads of a job's checks | a request of several statements, one of which always fails, races the reads | what was shut stops the jobs that come after |
| Swap panel | selection, wallet, balance, pool data, a swap under way | events, effects, late answers | answers for a wallet that has gone; reserves that have moved | the balance is the wallet's; the swap pays as shown |
| Monitors and alert engine | relayer rows, market scores, alerts; rounds and evaluations under way; the keys alerted | rounds of the monitors, heartbeats and reports of relayers, evaluations by timer and by request | rounds overlap and act on rows read before; statements that the tables refuse end what awaited them | relayers are judged for silence only |
| Hedging, redemption, rebalancer, the rest of the web front end | - | - | - | not modelled, section 11 |

`PROJECT.json` has the full list of components with their source files, and
under `hazards` what in this code a test would hardly reach, line by line.

## 2. Plan and state of the work

Ordered by what the system stands or falls with:

1. *Escrow contract*: `EscrowPromise`, `ExecutionEscrow`,
   `ExecutionEscrowProofs` - done.
2. *Escrow service*: `EscrowLifecycle`, `EscrowService`,
   `EscrowServiceProofs`, `EscrowRecordsProofs` - done.
3. *Relayer jobs*: `RelayerJobs`, `RelayerJobsProofs` - done.
4. *Synthetic assets*: `SyntheticVault`, `SyntheticAssetFactory`,
   `SyntheticLiquidationEngine`, composed by `SyntheticService`;
   `SyntheticsProofs` - done.
5. *Markets*: `SyntheticAMM` under `PoolService`, `SyntheticOracleAdapter`
   under `OracleDaemon`, composed by `Markets`; `MarketsProofs` - done.
6. *Back office*: eight parts composed by `BackOffice`, one proof module,
   `BackOfficeProofs` - done.
7. *Next*: an abstract specification of the vault (a reserve that covers what
   was issued) and of the job (one trade, one hedge) with proofs that the
   detailed ones implement them, as the escrow's two are; a second position in
   one instance of the synthetics; the escrow service with the execution
   service that is to call it (in this version it does not).

`Sums` gives the totals over sets that vault, factory, pools and inventory
keep; `SumTheorems` is the library of facts about it that their proofs share.

Conventions.  A component is one module, its properties at the end, its proofs
in a module `<Component>Proofs`, its instances for TLC in `MC<Component>`.  A
definition the properties are mutation-tested against is preceded by its
mutated form, named after it.  No module uses RECURSIVE operators.  All bounds
on counters are constants: names that begin with `Max`, `Deliveries`, and the
budgets of section 9.

## 3. The escrow contract

**`EscrowPromise`** is the abstract specification: a deposit is absent, held,
returnable, delivered or returned; it is delivered from "held" only and
returned from "returnable" only, once, with at most what was deposited.

**`ExecutionEscrow`** has one action per writing callable.  A RIDE invocation
is atomic, so an action is the whole callable; what throws is the negation of a
guard.  `status`, `owner`, `intent`, `nonceOf`, `actualOut`, `refundAmount`
are the entries `execution:{id}:*`; `nonces`, the role sets, `relayerAllowed`,
`paused` and `counters` the keys of the same names; `now` is
`lastBlock.timestamp`; `balance` is the account's native balance, moved by
payments, `ScriptTransfer` and by whoever tops the account up; `paidOut` and
`paidBack` are history variables of the transfers.  A transfer of more than the
balance makes the whole call fail.  Asset names, pair ids and proofs are left
out; a non-native payment only differs in not entering `balance`.

Grants of roles, the allowlist and the pause switch may change at any moment,
and every account may call everything.

## 4. The escrow service

**`EscrowLifecycle`** is the abstract specification: ESCROW_VALID_TRANSITIONS
as a state machine in which one record at a time moves along one entry.

**`EscrowService`** models the handlers of escrow-service, its two interval
timers, and the two bulk operations of escrow-api, which write the same tables
themselves.  A handler runs atomically from one `await` to the next:
`pc[h]` is the statement it waits to run, `task[h]` its local variables,
`from[h]` the status its conditional update will ask for, `todo[h]` the rows
of a batch not yet processed.

| Code | Actions |
|---|---|
| `POST /escrow/create` | CreateExecution, ValidateIntent (reads the last nonce), InsertIntent |
| other requests | LockRoute ... Expire: checks of the record as read; StoreConfirmation for a confirmation |
| `transitionEscrow` | LoadAndValidate, UpdateStatus (`WHERE status = $2`), RecordTransition, EmitEvent, Report |
| timers, bulk operations | CheckExpiredIntents, ProcessAutoRefunds, BulkRefund, BulkExpire, NextItem |
| failures | StatementFails (a request ends, a batch goes on), Restart |

A record is read more than once by most handlers (by the route, by
`transitionEscrow`, by a batch's query), and each read sees what was
committed by then: the model keeps all of these reads apart.

## 5. The relayer's jobs

**`RelayerJobs`** models a job from `POST /intake` to `inventory_released`:
`rowOf`/`status` are the row of `relayer_jobs` (unique per execution),
`payload`/`queue`/`lock`/`delivered` what BullMQ knows of a job id,
`pc`/`job`/`current`/`held` a worker's place in `executeJob`, its job, its
`currentStatus` and whether it has been given a `reservationId`.

| Code | Actions |
|---|---|
| intake | Intake (no row found), Create (`ON CONFLICT DO NOTHING`), Enqueue |
| `executeJob` | StoreRow, Gate, CheckRisk, CheckInventory, Reserve, Deduct, RefreshQuote, SubmitVenueExecution, WaitForConfirmation, RecordHedge, ConsumeInventory, MarkConsumed, Spend; each is followed by Advance, the `transitionJob` of the next status |
| failures | Fail, Reject, TimeOut, ReleaseInventory, MarkReleased, GiveBack, Settle |
| BullMQ | Deliver, JobCompleted, JobFailed, Stalled (also of a worker that is still at work), WorkerCrash |
| relayer-api | Retry, ReadForCancel, Cancel |
| others | ExpireStale, StatementFails, ClientFails |

A statement that fails may or may not have been carried out: `Goes` is "done
and answered, or done and the answer lost", `StatementFails` "not done".
`executeJob` takes its venue, quote and risk decisions from an interface
(`dependencies`), and the model lets any answer of that interface come.  A
refused transition inside `fail()` is modelled as one that may fail as a
statement does: one behaviour more than the code has.

## 6. Synthetic assets

**`SyntheticVault`**, **`SyntheticLiquidationEngine`** and
**`SyntheticAssetFactory`** have one action per callable; state variables are
the storage keys of the contracts (`vault:asset:{synth}:supply` is `supply`,
`position:{id}:*` are `owner`, `synthOf`, `collateral`, `debt`, `posStatus`).
`fraction` is the operator `Fraction` of `RideInt`.  The engine EXTENDS the
vault because it reads the vault's storage; it has no action that writes it.

**`SyntheticService`** composes the three with the service that calls them:

| Code | Actions |
|---|---|
| `index.ts`, mint and burn | RequestMint, RequestBurn: checks and change of the memory, before any `await` |
| `chain.ts`, mintOnChain, burnOnChain | FactoryConfirmed, FactoryUnconfirmed (sent, but the wait timed out), FactoryRefused; then VaultConfirmed, VaultRefused |
| admin routes, live price | AdminCreate, AdminUpdate, AdminStatus, UpdateLivePrice |
| start, `setup-chain.ts` | InitChain, SetUpChain (a list of calls, one a step), Restart |
| everybody else on the chain | CallVault, CallFactory, CallEngine, TimePasses |
| accounts that were granted a role | MintAlone (mint and burn at the factory), RecordAlone (`recordMint` and `recordBurn` in the vault, of any amount at any mark price, below zero too, since neither is compared with anything) |

`unrecorded` is a history variable: what the factory minted or burned in a
transaction whose counterpart at the vault never happened, be it that the
service's second call failed or that an account with the role never made one,
less what was recorded without having been minted.

## 7. Markets

**`SyntheticAMM`** has one action per callable; **`PoolService`** adds the
service's list of pools (`entries`), the requests that create one (`creating`)
and `hydratePoolsFromChain`, of which several run at a time (`reader`).  A
reading awaits every value of every pool by itself: ReadStatus, ReadReserve,
ReadRest are the three groups of awaits between which the chain may move.
ReadFails is one of these awaits that fails: `readData` answers null, as for an
entry that is not there, and the reading goes on, with a default in the place
of the value (`Defaulted`), which overwrites what the list had.

The contract's configurations are those `createPool` and `updatePoolConfig`
take: a share of the protocol of any size, virtual liquidity of any sign.  The
reserves are integers accordingly.

**`SyntheticOracleAdapter`** is the oracle contract for one asset;
**`OracleDaemon`** the feeds, the cycles of the script (Fetch, Submit,
Aggregate, Read, Push) that the interval starts on top of each other, failed
and late calls, and the mark price in the vault.

**`Markets`** composes the two.  They share no state, so that interleaving
them would only multiply their states: the variable `watched` picks, once and
for all, which of the two a behaviour shows.

## 8. Back office

**`BackOffice`** composes eight parts in the same way, with `watched`:

| Module | Code | State and actions |
|---|---|---|
| `RiskConfig`, `PairRegistry` (on `MarketPairs`) | the two RIDE contracts | one action per callable, roles included |
| `InventoryManager` | inventory-manager's requests | `desk[d]` is what a request awaits: CheckStock, CreateReservation, Deduct; FindReservation, Mark, Return or Spend; Expire is the timer; StatementFails.  The amount is a text nothing looks at: any integer, below zero too (a text that is no number is refused by the first statement that casts it; `NaN` is left out) |
| `Venues`, `Routing`, `MarketData`, `Quotes` | adapters, router-core, market-data-service, quote-engine, router-service, quote-refresher | the pure steps of the router are operators; Poll, Tick, AskQuotes, StartMarketData and StopMarketData move the snapshots and their ages; `plans` is the cache of routes |
| `Executions` | execution-service (tracker, quote engine and router as it calls them) | PostExecution, ReadMarket, PlanRoute, Create, TransitionExecution, Dispatch, Answer, CallFails, restarts |
| `Reconciliation` | reconciliation-service and its two repositories | StartRun, ScanRow, CreateRecord, ListPending, RecheckRecord, UpdateRecord, EndRun, StatementOfRunFails, ResolveRecord |
| `ProtocolControl` | protocol-control, operator-api, risk-monitor-service, risk checks of the worker | a request is the sequence of its statements (`switching[o]`, AwaitSwitch; AwaitFails when the database fails one), a job's checks are five reads (CheckNext).  relayer-api's pause is a sequence too, of one statement that the table refuses |
| `Monitors` | relayer-monitor, market-health-, venue-health-, synthetic-risk- and risk-monitor, alert-engine | StartRound, EvaluateRelayer (one relayer of the rows a round has read), Heartbeat, Report, EvaluateMarket; StartEvaluation, ReadRelayers, CreateAlertIfNew (one condition); Passes is the clock |
| `Tables` | the schema and the statements of all repositories | no state: which columns a statement names, which it must fill, and whether the table `Accepts` it |
| `SwapPanel` | `SwapPanel.tsx`, wallet store, signer, the AMM's swap | every event handler with the rendering and effects that follow it is one step; answers are steps of their own; amounts are integers, rounded down on the panel (`Floor`) and towards zero on the chain (`Div` of `RideInt`) |

A statement that its table refuses throws, and what awaited it ends there: a
round of a monitor, an evaluation of the alert engine, a request of an
operator.  `Monitors` and `ProtocolControl` ask `Tables` whether theirs go
through, so that a repaired schema would change what they do.

`Routing` finds the candidates of the router as a *set* of routes with the
place each was found at; the scores give every candidate a number, and the
choice takes the best one found first, as a stable sort would.

`MCBackOffice` and `MCMarkets` also check the pure parts over bounded inputs,
as assumptions TLC evaluates: that `ScoreCandidates` loses no acceptable
candidate and that the first is one of the best, and of those the one found
first (`ScoresSort`), that the preference for local
routes costs less than its margin (`PreferenceIsBounded`), that larger trades
never get better prices (`ImpactGrows`), that a quote the refresher lets pass is
fresh and good enough (`ValidIsGood`), which statements of all the
repositories the schema refuses (`SchemaDrift`) and that the services' words
are those of its enumerations (`SameWords`), what the monitors make of their
readings (`MonitorsDecide`), and that the contract's iteration for
the square root, started from its guess, ends in the floor of the root on the
ranges around the digits where the guess jumps (`IsqrtIsFloor`).

## 9. What the runs check

Each property is broken by at least one mutation of the code's definitions
(`mutants` in `PROJECT.json`), under the very configuration of its run.

| Run | Instance | Shows |
|---|---|---|
| `escrow_one` | two executions over one balance, which any of the accounts may create and which race for ids and nonces; one of them with outputs 0-3 and all legs, the other left to its owner and the clock; user, relayer, staff; input 3, expected 2, minimum 1 (so that fractions round); deadline within the clock; every grant, revocation, allowlist change and pause; fairness | RefundWithinDeposit, UserMadeWhole, NoncesDense, FinalizeXorRefund; that the contract implements EscrowPromise; DepositsComeHome |
| `escrow_double_payment` (violation) | as the first, one output | NoDoublePayment fails: a partial fill pays the output, then an expiry or `failExecution` overwrites the remaining refund with the full input, which is then returned as well |
| `svc_requests` | one record, two concurrent requests of any kind, two relayers, outputs below and at the minimum | FollowsLifecycle, AuditIsOnePath, StatusIsEarned, RefundFixed |
| `svc_live` | one client or operator, monitor and refund timer, one fault or restart, bulk operations; fairness | RefundReportedOnce, OverdueSettles, and AuditIsOnePath also when a statement of a transition fails or a bulk expiry races with one |
| `svc_bulk_partial` (violation) | bulk expiry whose list names `partially_completed` | FollowsLifecycle fails: escrow-api updates the tables without validating the transition and moves a partially filled record to `expired`, with the whole input as refund |
| `svc_nonces` (violation) | two creations of one user | NoncesUnique fails: both read the same last nonce before either inserts |
| `jobs` | two executions (one without a relayer leg), two job ids, two workers, two clients, two deliveries, one fault, inventory for one reservation | SubmittedOnce, OneAtTheInventory, InventoryBalanced, SettledHoldsNothing, CompletedIsHedged, FollowsTable, NothingLeftBehind |
| `jobs_cancel` (violation) | one worker, one cancellation | CancelHolds fails: the endpoint confirms a cancellation whose update hit no row, and the job is traded |
| `synthetics` | two assets (one deployed by the script, both mintable), one position, up to three requests, one fault; a user that may be granted the roles and then mints, burns or records 2 or -1 by itself, at a mark price of -30 among others; budgets below | TypeOK; BackingIsHeld (the vault's backing is what it holds), TotalTracksAssets (the total liability drifts from the assets' by at most one unit for each opening and closing), SuppliesAgree (the vault's supply is the factory's but for what is under way, was never recorded, was minted or recorded by an account alone, or is a position's debt, and the factory's is what the accounts hold) |
| `liquidation` (violation) | five calls, prices that fall | SeizedOnce fails: the engine pays for the collateral and the vault's position keeps it; it can be liquidated again a period later, or closed by its owner |
| `markets` | one pool created up to twice, without and with virtual liquidity (3/4 and -3/4), the latter with a protocol share of fifteen fees; two users, two hydrations, reads that fail; two venues, two cycles; fairness | TypeOK, NoDilution (no call lowers the product of reserves behind an LP token), NothingOverdrawn (no call takes a reserve below zero), HydratedOnce and Converges (the list shows each pool as it is, once the chain rests), PriceIsBetween, MarkFollowsQuotes |
| `backoffice` | two desks and reservations of 2, 1 or -1 over a stock of 3; two executions; two external rows of one job; two operators, whose statements may fail, and one job's checks; a panel of three tokens, three pools (one whose virtual liquidity is -195 and -170 over reserves of 100 and 70, whose fee is five percent and the protocol's share of it thirty times the fee), two wallets; two relayers, two overlapping rounds and an evaluation over six minutes | TypeOK, BooksBalance, PlansAreSound, AnsweredHasGoneThrough, VerdictsAreEarned, ShutIsShut, BalanceIsOfWallet, SwapsAsShown; JudgedForSilence (a relayer is called degraded or offline only after such a silence) |

The types of the escrow, its service and the jobs are left out of their runs:
they are proved (section 10).

**Why the bounds are enough.**

*Escrow.*  An execution's rules mention no other execution except through the
balance, the nonces and the counters.  The second execution of `escrow_one` is
there for these: two creations of a user want the same nonce, each of them may
come first, and a refund of either takes from the balance that is to cover the
other.  `Served` says which execution relayers and role holders work on; with
both of them in it the instance would be out of reach, and `NoncesDense` is
proved for any number of executions, all of them served (section
10).  `MaxBalance` leaves both a balance that covers a refund and one that does
not, `MaxNonce` one value beyond the acceptable one, and `MaxFailures` a
failure after a failure, which the contract allows.  Amounts are chosen so that
the floor in `fraction` differs from the exact quotient.  In the service a race
needs two handlers on one row; the timers race the requests in `svc_live`, two
refunders with a client in the bulk run.  `MaxTime` puts states before, at and
after each deadline.

*Jobs.*  Two job ids give a duplicate intake or a retry, two deliveries a
redelivery while the first worker is still at work, and one fault every single
failure between two statements; a second fault would only add behaviours in
which the same job fails twice.  The execution without a leg keeps the run
small; with two legs, two workers may overcommit the inventory, which
InventoryBalanced allows for and the theorems of section 10 cover.

*Budgets.*  The synthetics, the markets and the back office have initial states
with different *budgets*, sets of records such as `SomeBudgets`: so many calls
by other accounts, requests, and faults.  A behaviour spends what its initial
state grants.  Long histories of the contracts alone, several requests with
little else, and mixtures of the two are thereby covered without the product of
all of them.  In the synthetics a totals' error needs two or three roundings (a
mint, a price, a closing), within four calls; in the markets five calls create,
trade, delete and create again a pool; a torn hydration needs one request or
call between two reads of one reader and a second reader that started
before.  The collateral ratios, prices (30 and 60 at a scale of 20) and weights
are the smallest at which the divisions leave a remainder.  Of the recorded
amounts one is more than any request's and one below zero.  A share of fifteen
fees and a virtual reserve below zero are there because the contract takes
them: their states show that the types still hold, while NoDilution and
NothingOverdrawn name what they ask of a pool (section 10).  In the back office
two desks are a race for one reservation and for one stock that covers each
alone, a reservation of -1 what the request does not refuse, three runs one
that follows two overlapping ones, one late timer the difference between fresh
and stale, six actions at the panel a change of wallet, pair and amount around
one swap.  Six minutes are one more than the five after which a relayer is dead,
so that a round may begin before, at and after each of the two limits; of two
relayers the second shows what a round that ends at the first leaves undone; a
second round and a second heartbeat make a verdict on stale rows.

*Symmetry* is used over interchangeable ids, and only in runs without liveness
properties: requests in `svc_requests` and `synthetics`, job ids in `jobs`.

**Deadlock** is checked, except in `svc_nonces`, the `jobs` runs, `synthetics`,
`liquidation`, `markets` and `backoffice`, where the instance really comes to
rest when every id or budget is used and the clock stands still.

**Fairness.**  `ExecutionEscrow!FairSpec`: blocks keep being produced, and the
owner of an execution past its deadline eventually calls `expireExecution` and
`refundExecution`, which need no role and ignore the pause switch.  Nothing is
assumed of relayers and staff.  `DepositsComeHome` has the premise the code
cannot do without: that the shared balance in the end covers the refund.
`EscrowService!FairSpec`: the clock advances, `setInterval` keeps firing, and
a handler's statement is eventually answered unless a fault takes it; faults
are finitely many.  Nothing is assumed of clients and operators.  Weak fairness
suffices: a timer that finds work stays able to find it until it is done.
`Markets!Fairness`: each hydration and each cycle of the daemon goes on, since
interval timers keep firing and an awaited call ends, if only by its timeout.
`Converges` has the premise that the node was reached when the service started
(`chainReady`; otherwise the timer is never set), `MarkFollowsQuotes` that the
oracle is left on with an enabled source.  Nothing is assumed of requests,
admins and traders.  `RelayerJobs`, the synthetics and the back office are
checked for safety only: a BullMQ job may exhaust its attempts, and nobody
promises a supply that was not recorded to be recorded later.

## 10. What is proved

Theorems hold for every value of the constants that satisfies the module's
assumptions (the sets may be infinite, the bounds arbitrary).

**`ExecutionEscrowProofs`**: `TypeCorrect`, `RefundWithinDepositHolds`,
`UserMadeWholeHolds`, `ExpiredOnlyAfterDeadlineHolds`, `FinalizeXorRefundHolds`,
`NoncesDenseHolds` and `ContractKeepsPromise` (the refinement of
EscrowPromise).  The invariants are not inductive by themselves: that a refund
stays within the deposit depends on what `refundAmount` holds long before it is
paid, and that the user is made whole on nothing having been delivered while
the funds are held.  The inductive invariant is `TypeOK` with `Accounted(e)`
for each execution, which says just that.  `RemainderBounded` is the only
arithmetic: the floor of `in * out / expected` is a natural number, so the
remainder is at most the input.  `NoncesDense` is inductive given the types:
only `createExecution` gives out a nonce, the next one, to an execution that
had no owner (`CreateKeepsNonces`, `OthersKeepNonces`).  The refinement uses
the same invariant; every action maps to a step of one phase or a stutter.

**`EscrowServiceProofs`**: `TypeCorrect` and `LifecycleFollowed` (the service
implements EscrowLifecycle), both under the assumption `BulkStatusesMayExpire`
that operators list only statuses which may expire to `/escrow/bulk/expire`;
without it `svc_bulk_partial` is the counterexample.  The inductive invariant
says what a handler may rely on between two statements (`Sound(h)`): a handler
about to update holds a status *from which the table allows its target*, so
that the conditional update can only make a legal move however stale the read
was.

**`EscrowRecordsProofs`** builds on that invariant: `StatusIsEarnedHolds` and
`RefundFixedHolds`, under the same assumption.  A handler computes an amount or
checks a deadline of a record and uses it several statements later, when others
have written the row.  The invariant says that what it holds on to is still
true of the record then (`Held`, `Carries`), and that a record which may be
refunded has its refund (`RefundsKnown`).  `HandlersDo` sums up what a step can
do to one handler in seven cases, and `RowsChange` and `RowsKeep` what it can
do to a row, so that the rest of the proof never looks at an action again.

The module's second part proves `AuditIsOnePathHolds` and
`RefundReportedOnceHolds`,
under the same assumption.  The audit row is written one statement after the
row of the record, the refund volume three, so both invariants speak of the
handlers that have one *to come* (`Pending`, `Counting`) next to those written.
Statuses only go up (`Rank`); whoever moves a record finds every transition
logged or to come below the one it makes (`PastIsApart`), and a handler with a
refund to report is the only one that has refunded its record.  A restart of
the service in between loses the row or the count but never doubles it.

**`RelayerJobsProofs`**: `TypeCorrect`, `SubmittedOnceHolds`,
`OneAtTheInventoryHolds`, `InventoryBalancedHolds`, `SettledHoldsNothingHolds`,
`CompletedIsHedgedHolds`, `FollowsTableHolds` and `NothingLeftBehindHolds`, for
any number of executions with a relayer leg, job ids, workers, clients,
deliveries and faults.  One idea carries all of them: `received -> validated` is
a conditional update, so of all the workers that ever start on an execution
*one* wins it (`Won`, `OneWinner`), and only the winner gets as far as the
inventory and the venue.  The inductive invariant `IInv` consists of

- `Typed`: types, and what a worker's variables say of each other (`Sound(w)`:
  at "deduct" it is validated and has no reservation id yet, and so on);
- `Claims(w)`: what the winner may rely on (no trade made yet at "submit", the
  reservation no longer active at "give back").  It must survive every step of
  the others, cancellations and expiring reservations included; the row itself
  may be moved away under the worker's feet, but never backwards
  (`NoWayBack`);
- `Recorded(x)`: what the status of a row says of its trade, its hedge and its
  reservations;
- `BalanceOK`: at least `Amount` is reserved for each worker in `Owing`, those
  that have deducted and are still to return or spend.  Without it the clamp to
  zero of `reserved_amount` might bite, and `InventoryBalanced` alone is
  therefore not inductive.

Each group of actions has a lemma that leaves to be shown only what its steps
can disturb: `QuietWorkerStep`, `MovingWorkerStep`, `StayingWorkerStep` for a
worker's steps, `OtherStep` for everybody else's.

`NothingLeftBehind` speaks of behaviours without faults, and takes a second
invariant, `CalmInv`: as long as there was none, the queue, the workers and the
rows are in step (`Orderly`).  Every job of the queue is in the hands of the
worker that holds its lock (`Steady`), nothing is thrown and `fail()` runs once
(`AtWork`), an active reservation is known to that worker or about to be
(`Kept`), and every row is ended, or received with its job still in the queue
or about to be put there, or where the worker believes it to be (`Tended`).

**`SumTheorems`** proves what the other modules need of `Total`, the sum of a
function's values over a finite set: that it is a number (`TotalInt`,
`TotalNat`), that it does not depend on the order the definition's CHOOSE takes
the elements in (`TotalSplit`), and how it changes when one value does
(`TotalChanges`, `TotalExcept`), when all rise (`TotalRises`, `TotalMonotone`)
and when all are scaled and moved (`TotalAffine`).  The library's induction
theorems take an operator as a parameter; the induction is done by hand
instead, as a descent: among the sets for which a claim fails one would have
the least cardinality, and removing an element leads below it.

**`SyntheticsProofs`**: `ServiceTypes`, `BackingStaysHeld`, `DriftIsBounded`
and `SuppliesStayInAgreement`, for any assets, positions, accounts, prices and
requests.  The vault's part, `VaultInv`, adds to the two properties that a
position which is not open holds nothing (`PositionsSettled`) and that an
asset's liability is its supply at its mark price, rounded down
(`LiabilityIsValue`), without which a change of price could move the total by
anything.  That the total then drifts by at most a unit for each opening and
closing is arithmetic: the quotient of a sum is within one of the sum of the
quotients (`FractionDrops`).  The factory's part says that the tokens of all
accounts are its supply.  `AllSuppliesHold` relates the two contracts through
the requests under way: what is owed to the vault (`Owed`) moves when the
factory answers, and when the vault does.

**`MarketsProofs`**: `PriceIsBetweenHolds`, `HydratedOnceHolds`,
`PoolsAreSound`, `NothingOverdrawnHolds`, `NoDilutionHolds` and `TypeCorrect`,
for any venues, weights, pools, users, requests and readings.

- *Price*: the weighted sum rounded source by source lies between the least
  and the greatest price but for a unit a source (`WeightedPriceIsBounded`,
  `AggregationIsBetween`); it rests on `TotalAffine` and `TotalMonotone`.
- *List*: a hydration looks for the pool when it has read everything and adds
  in the same step, however long ago it began; `ListInv` adds to the property
  only that the list is one of entries.
- *Pools*: `AmmInv` says that the holders of a pool's LP tokens have what the
  pool has issued since it was created last (`Accounted`), and that nobody has
  tokens of a creation to come (`Unissued`).  Each call has a lemma for the
  inequality of NoDilution, whose two sides are products of four numbers; the
  solver is given the few facts about products it needs by name
  (`ProductGrows`, `FactorDrops`).  Reserves are integers in all of this.
  NoDilution and NothingOverdrawn speak of pools whose protocol share is at
  most the whole fee, as `createPool` sees to, and NoDilution of reserves that
  are not negative with the virtual ones; with a share of more than that, which
  `updatePoolConfig` takes, more may leave the pool than came in (section 12),
  and the theorems then say nothing but the types and whose tokens there are.
- *Types*: `ServiceTyped` joins these with the memory of the service and of its
  readers, `DaemonTypes` with the feeds and cycles.

None of them has a hypothesis about the configurations: any share, any virtual
liquidity, any amount.

**`BackOfficeProofs`**.  The eight parts share no variable, so that each has a
specification, an invariant and theorems of its own (`RiskSpec`,
`RegistrySpec`, `ControlSpec`, `PanelSpec`, `ReconciliationSpec`,
`InventorySpec`, `MonitorsSpec`, `ExecSpec`); the last sections put the parts
together (`PartsInv`) and prove of `BackOffice` itself `BackOfficeIsSafe`, the
conjunction of the invariants of the run, and `TypeCorrect`.

- *Configuration*: `RiskTypeCorrect`, `LimitsKeepFloors`,
  `RegistryTypeCorrect`, `PairsAreListedOnce`, for any accounts, pairs, limits
  and any number of calls.  The floors and the list are checked by no run; they
  were found to hold on its instance before they were proved.  A list without
  repetitions is inductive only with its converse, that a pair is on the list
  exactly when it is registered, since that is what `registerPair` asks for.
- *Control*: `ControlTypeCorrect`, `ShutIsShutHolds`.  What a request has still
  to do is a suffix of one of a few sequences, so that the invariant can say,
  statement by statement, what it will have done: a request for a pause whose
  switch is not yet set still has that statement to come (`PauseIsComing`), and
  a job whose checks began when something was shut is stopped by a check it has
  not made yet (`StoppedInTime`).  What a pause is, is said by two variables:
  `written`, what the switch's row was last set to, by whomever, and `wish`,
  what was last asked for, which becomes unclear when requests overlap or when
  the database fails the very statement that was to set the switch.  A request
  whose *other* statements fail, as the alert of every pause does, still counts.
- *Panel*: `BalanceIsOfWalletHolds`, `SwapsAsShownHolds`.  The first rests on
  the clean-up of the effect: every fetch not cancelled is of the wallet
  connected (`FetchesAreOfWallet`).  The second on the panel and the contract
  computing the same function of the same reserves, and on the minimum,
  computed from the reserves displayed, being what the contract compares with
  (`ShownIsComputed`).  It holds for any reserves and configurations: where the
  panel's floor and the contract's truncation part, the output is negative, and
  the property speaks of a positive one.
- *Inventory*: `BooksBalanceHolds`.  The row is one statement behind or ahead of
  the reservations while a request is under way, and the property says nothing
  of that.  The invariant asserts a function `held` that accounts for the
  reserved amount reservation by reservation (`Balanced`): each is what its row
  says, unless a desk has it in hand, and then what that desk has done so far.
  Adding and taking away are `TotalExcept`.  As the property does, it asks that
  no two requests for one reservation or for the stock have overlapped and no
  statement was lost; without that only the inequality holds.  Both ask that no
  negative amount was reserved so far (`negative`): the request does not refuse
  one, and the books do not survive it (section 12); only the types do.
- *Reconciliation*: `VerdictsAreEarnedHolds`.  A run works on rows and records
  it read several statements ago.  What is known of an external execution is
  never unlearned (`Outgrows`), so that what a run has in hand and what stands
  in the records still holds of the row as it is now.
- *Monitors*: `JudgedForSilenceHolds`.  A round judges rows
  it read before the heartbeats that came since; the invariant compares what it
  has in hand with the longest silence, which does not shrink.
- *Executions*: `AnsweredHasGoneThroughHolds`.  `InStep` says, for each place a
  request may be at, how far its execution has got on the one way through the
  statuses.
- *Plans*: `PlansAreSoundHolds`.  `MarketOK` says that every snapshot, however
  old, is one the adapters can answer, `AllAsk` that a request carries such a
  reading to the router; that a router makes only sound plans of it is a lemma
  of its own about candidates, scores and selection (`RouterIsSound`), and
  `PlansKept` that the cache only ever holds those.
- *Types*: `TypesInv` adds the executions' statuses and the panel's amounts,
  without a hypothesis either.

**Only model-checked**: the four liveness properties DepositsComeHome,
OverdueSettles, Converges and MarkFollowsQuotes, since fairness and ENABLED are
beyond the prover, and the assumptions of `MCBackOffice` and `MCMarkets` about
the pure parts.  Every invariant and every action property of a passing run is
stated by a theorem.

## 11. What is not modelled

`PROJECT.json` gives each component's reason.  In short: the redemption router
is an interface without code, and the redemption service and the rebalancer are
stubs; the hedging engine inserts single records that nothing reads back; of
the monitors the scores of venues and synthetics are operators only, since
their rows are refused by the tables (they name columns the schema lacks); the
shared packages hold types, configuration and connections; the rest of the web front
end displays what the services answer, and the deployment scripts are run once
by hand.  Inside the modelled components: wording, logs, proofs, asset ids
nobody compares, time stamps nobody compares, queue statistics, value locked
and volumes, and read-only routes.

## 12. Observations

Met while translating the code; the first three of the escrow, the cancellation
and the liquidation are also runs.

*Escrow.*
- The contract pays a partial fill and later the full input (`NoDoublePayment`).
- `/escrow/bulk/expire` moves `partially_completed` records to `expired`.
- Nonces of two concurrent creations may coincide.
- The bulk expiry computes a cutoff from `olderThanMinutes` and never uses it;
  the bulk operations emit no event; `/escrow/:id/force-refund` of escrow-api's
  header comment does not exist.
- A fault between the update and the audit insert loses the audit row
  ("All transitions logged", `state-machine.ts:11`); concurrent transitions may
  be logged in another order than they happened.
- ActualWithinExpected and PartialLeavesRefund, stated beside the types
  (`types/src/escrow.ts:75,78`), are enforced by no code path.
- `activeExecutions` drifts: `refundExecution` assumes a partial fill has
  lowered it (line 647), `partialFill` does not, `failExecution` may lower it
  several times, and the clamp at zero hides it.
- `failExecution` and `expireExecution` accept statuses the interface's
  transition table does not (a failed execution may expire and fail again).
- All executions share one balance, which may fail to cover a refund; the
  escrow service never calls the contract.

*Relayer.*
- `/jobs/:jobId/cancel` confirms cancellations that hit no row, and writes
  `rejected` from statuses the table gives no such transition.
- A retry draws a job id without a row, so its first transition always fails;
  nothing moves a job to `reconciled`.
- A redelivered job starts from `received` while its row is further on, so its
  first transition is refused and it ends without resuming the pipeline: after
  a crash the reservation stays active until it expires, and its inventory is
  never returned (`expireStale` changes the reservation only).
- A job without an external leg stays `validated`: `fail()` may not move it.
- Two workers that compare the available amount before either deducts
  overcommit the inventory: `available_amount` goes below zero, and spending
  more than the total leaves it clamped to zero, after which the three amounts
  no longer add up.  The documented deployment has a single worker
  (`docs/RELAYER_ENGINE.md:283`); InventoryBalanced says what holds in any
  case.
- Release and consume ignore whether their conditional update hit a row, so the
  inventory manager and the worker may both return one reservation.
- The dependencies wired up in this version insert `external_executions` with
  the venue's id as job id, against the foreign key; its confirmation always
  confirms; `deposit` names columns the inventory table lacks.

*Synthetics.*
- A liquidation leaves the vault's position as it was: it can be liquidated
  again, or closed by its owner for the whole collateral (`liquidation`).
- `depositReserves` does not compare the asset of the payment with the id it
  books it under, when both are issued assets; nothing checks that the debt of
  a position is burned when it is closed.
- `recordMint` and `recordBurn` compare neither the amount nor the mark price
  with zero: an account with the role may set a price below zero, at which the
  liability is negative.
- `recordBurn` lowers a supply without regard to the debts of open positions,
  so that closing one makes it negative.
- A mint or burn whose second transaction fails is only logged; nothing makes
  up for it (`unrecorded`).

*Markets.*
- Swaps and additions take no payment, `claimProtocolFees` pays nothing out,
  `updatePoolConfig` checks neither the protocol's share, which may then exceed
  the fee and even the input, so that a swap lowers both reserves, at last
  below zero (`NothingOverdrawn` asks for a share within the fee), nor the sign
  of the virtual liquidity; a deleted pool stays on
  the list.
- An outlier lowers the confidence only, and the daemon ignores it.
- A read of one value that fails during a hydration is taken for an entry that
  is absent: the pool's entry is overwritten with a default until the next
  hydration (`Converges` says that it then recovers).
- A pool requested through `/admin/pools` may be listed twice when a hydration
  has brought it in meanwhile; when the node is not reached at the start, the
  list is never hydrated at all.

*Quotes, executions, reconciliation.*
- The market data reads `DCC/SOL` and `DCC/ETH` at venues that have no price
  for them, so that pairs that need a teleport are quotable only when the
  market data service is *not* reached.  `DCC/USDC` is marked stale whenever
  the five-second timer is late.
- The router ignores the user's maximal slippage and the synthetic cap; a quote
  lives 30 seconds and the plan made of it 60; `minOutputAmount` is never
  compared; the quote engine asks neither PairRegistry nor RiskConfig.
- The service inserts the mode in upper case against a lower-case enumeration:
  no execution is ever stored, and the tracker knows none.  Nonces are in
  memory and start again at 1.  A failed dispatch counts as done, and a
  dispatched execution stays in `external_leg_pending`.
- "Every execution that reached confirmed" is reconciled, says
  `reconciliation-service/src/index.ts:6`; the query asks for `submitted` only,
  and nothing calls `updateResult`.  Unconfirmed rows get a new pending record
  in each run, records stored without a transaction are never looked at again,
  a late recheck overwrites a resolution, the second execution of one job and
  venue is passed over, and one failed lookup ends the whole run.

*Control.*
- The gauge of the protocol's pause is always 0: the repository compares a JSONB
  boolean with the text `'true'`; the worker's risk checks compare with `true`
  and do stop.  Setting any circuit breaker of the protocol fails (its level is
  no JSON), the pause request answers an error after the pause is set (its alert
  is refused).  The pause and resume of relayer-api name columns the table
  lacks, and the risk monitor's `hard_pause` sets its level, which is refused,
  before the pause: neither ever gets to the switch, so a job passes its checks
  afterwards.
- `riskAlertRepo`, the health and metrics repositories, `relayerRepo.upsert` and
  `upsertInventory` name missing columns as well: the monitors and the alert
  engine mostly end in errors.  The monitor of relayers would overwrite a pause
  and never sets a relayer active again.  Although it is there to "detect
  degraded/offline relayers and update status" (`relayer-monitor/src/index.ts:9`)
  each of its rounds ends at the first relayer, whose metrics throw; no later
  one is ever judged.  No alert is ever stored, against
  `docs/OPERATOR_BACKEND.md:39`, so that there is none to acknowledge or
  resolve: the first condition that holds ends the evaluation.
- The amount of a reservation is a text that nothing checks.  With a stock of 3,
  reserving -5 and 8 and releasing the 8 leaves 8 available and 0 reserved,
  without any two requests at once or a fault.
- The seeded inventory is that of `relayer-alpha` and `-beta`, while worker and
  inventory manager ask for `protocol-relayer`.  The inventory manager's expiry
  gives nothing back, as the worker's.

*Configuration contracts.*
- `src/pair-registry.ts:62-65` says that a base and a quote form one pair only
  and that native and synthetic pairs are linked before they are active: the
  contract enforces neither.  An operator may move a disabled pair to paused;
  `updatePairConfig` checks neither the volume nor the pause;
  `toggleExternalSource` truncates a venue's pair id that contains the
  separator.

*Swap panel.*
- The pools are fetched every ten seconds; whenever their data differ, the
  effect that selects the first pair (`SwapPanel.tsx:90`) overwrites the pair
  the user has chosen, while the amount stays.
- MAX puts the DCC balance into the field whatever the token; a confirmed swap
  clears an amount typed meanwhile; a lost answer shows an error although the
  swap was executed; the signer passes token symbols where the contract
  compares the stored ids, so that a pool stored under ids refuses every swap.

## 13. Running it

    tlc -workers 2 -config MCEscrowOne.cfg MCExecutionEscrow.tla
    tlapm ExecutionEscrowProofs.tla

The module of each configuration is in `PROJECT.json` under `runs`; `jobs` is
the longest (about two minutes, 3.9 million states).
