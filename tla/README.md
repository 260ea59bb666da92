# A verification of PyRobot

PyRobot (`pyrobot/`) turns market bars into orders at a broker, under a risk
manager, with an audit trail and a web console that starts and stops the
trading loop.  Around this core stand backtesters, a training pipeline with a
model registry, daily paper-trading scripts and an older single-thread API.
These modules are TLA+ models of the parts that decide whether money and
records stay correct: what happens to an order between its creation and its
last fill, when trading must stop, who runs the loop, what the trail proves,
whether books agree with accounts, and whether a backtest or a validation says
what the program would do.

Paths below are relative to `pyrobot/`, scripts to the repository.
`PROJECT.json` maps every definition to its source lines and lists components,
runs, hazards, findings and theorems.

## 1. The system

### Components, their state and their operations

| component | state | operations | modelled by |
|---|---|---|---|
| execution engine (`execution/engine.py`) | none of its own; drives the manager, the broker and the ledger | `submit`, `poll_status`, `cancel_order` | `ExecutionEngine` |
| order manager (`execution/order_manager.py`, `models/order.py`) | orders by client id, their `OrderState`, broker ids | `create`, `mark_*` through `_transition` | `OrderManager`, `OrderLifecycle` |
| account reconciler (`execution/reconciliation.py`) | none | `reconcile` | `TradingPipeline` |
| order reconciler (same file) | none | `reconcile_order` | status map only, see 6 |
| risk manager (`risk/manager.py`) | tracked positions, daily result, time of the last reset | `evaluate_order`, `record_fill`, `update_equity`, `status`, reset | `RiskGate`; the book in `TradingPipeline`; sizes, throttle in `Exposure` |
| circuit breaker, drawdown, kill switch (`risk/`) | breaker state, streak, test slot; peak and day start; active flag | state reads, results, opening and closing | `RiskGate` |
| exposure monitor, limits, sizer (`risk/`) | limits, sectors, volatility, correlations | `calculate_exposure`, `check_order`, `fixed_fraction_size` | `Exposure` |
| pipeline (`runtime/pipeline.py`) | bars processed, flags | `process_bar` | `TradingPipeline`, `Exposure` |
| loop (`runtime/loop.py`) | two `Event` objects | `run`, `stop`, `pause`, `resume` | `Supervisor`, `TradingPipeline` |
| supervisor (`console/supervisor.py`) | state, current loop and thread, configuration, lock | `start`, `stop`, `pause`, `resume`, `apply_config`, `update_risk_limits` | `Supervisor`, `Console` |
| console API, settings (`console/api.py`, `settings.py`) | settings and their file | handlers | `Console`; their effects on the loop and risk in the three modules above |
| audit ledger (`audit/ledger.py`) | events, last checksum, file | `record`, load, `verify_integrity` | `AuditLedger` |
| paper broker (`brokers/paper_broker.py`) | cash, positions, open orders | `place_order`, `update_prices`, `cancel_order`, save, load | `PaperBroker` |
| live adapters (`brokers/`) | client | place, status, cancel | constants of `ExecutionEngine` |
| backtest engine (`backtesting/engine.py`, `cost_model.py`) | cash, positions, pending orders | `run` | `Backtest` |
| honest runner (`backtesting/runner.py`, `us_strategy_backtest.py`) | the same, signed | `honest_backtest` | `HonestRunner` |
| strategies (`strategies/`) | per symbol: holding, entry, best close, stops | `on_bar`, `on_order_fill`, `sync_positions` | `SignalStrategy` |
| paper sessions (`us_paper_session.py`, `crypto_…`, `metals_…`) | an account or a state file between runs | `run_session` | `PaperSession` |
| model registry (`ai/registry.py`) | metadata in memory and on disk, artifacts | register, promote, load | `ModelRegistry` |
| training (`ai/training.py`, `ai/labels.py`, `backtesting/walk_forward.py`) | none between runs | labels, folds, refit, holdout, registration | `Training` |
| ensemble, economic gate (`ai/ensemble.py`, `ai/economic_gate.py`) | none; a position in the gate's loop | `generate_signal`, `evaluate_oos_economics` | `SignalReplay` |
| indicators, stock frame (`indicators.py`, `stock_frame.py`) | a frame, its columns, registered indicators, rules | each indicator, `refresh`, `check_signals` | `Indicators` |
| robot, portfolio (`robot.py`, `portfolio.py`) | positions, `orders.json` | `execute_signals`, `execute_orders`, `save_orders`, `add_position(s)` | `Robot` |
| trade, order status (`trades.py`, `order_status.py`) | an order template | `new_trade`, `instrument`, stops, targets, boxes, status questions | `Trade` |
| features, models, drift, data, quality, page, auth, monitoring | | | not modelled, see 6 |

### How they interact

One *loop thread*, started by the supervisor, calls `process_bar` for each bar.
The pipeline reads positions and equity from the broker, reports equity to the
risk manager, every 25 bars reconciles the account against the risk manager's
book, generates signals, and for each one asks the sizer and submits an order
through the execution engine.  The engine reads the kill switch, asks the risk
manager, records in the ledger, calls the broker with retries, and advances the
order in the order manager.  The pipeline polls the order once and gives a fill
to the risk manager.

*Console threads* call the supervisor (start and stop), the kill switch, the
limits, the settings and status readers.  They share with the loop thread the
kill switch, the breaker (through `status()`, without the manager's lock), the
order manager, the ledger file, and the loop's two events.  *The broker* fills,
cancels and expires orders between any two calls, and loses answers.

*A paper session* is a process per day that builds all of this anew: only the
account (or the state file of the paper broker) and orders still at work pass
from one to the next.  *Training* reads a table, writes to the registry, and
asks the gate, which runs the backtest engine.  *The older robot* calls a broker
and rewrites a file.

### What is hard

- a kill switch read once and used across retries and sleeps;
- several threads polling and cancelling one order, answers applied late;
- answers lost after the broker took the order, and retries after that;
- state of the circuit breaker that moves when it is *read*;
- a join with a time-out, then a start, with the old thread still running;
- a hash chain in memory and in a file, which part when an append fails;
- fills that arrive after the only poll, read by a reconciler in two steps;
- several orders judged by one snapshot, or filled over one cash balance;
- a strategy's belief, kept apart from the account and told of fills in parts;
- two files written for one promotion; a file rewritten in place;
- positions in a table that was cut differently from the table they index;
- two machines that should produce the same signals.

`PROJECT.json` has the full list under "hazards", each with the properties that
would catch it or the reason why none does.

### What makes each component correct

- orders only advance, each fill is reported once and is real, the local record
  says an order is dead only when it is, the number of active orders is bounded;
- a breached limit stops trading until a reset; a half-open breaker tests one
  order; orders of one bar pass the limits by a bounded amount;
- the supervisor's state never claims a loop that is over, a paused loop begins
  no bar, a stopped loop ends, every request returns; what an operator was told
  is in force stays in force at the pipeline it was told of;
- the trail verifies after every restart unless something happened to the
  file, and a trail that verifies lacks no acknowledged event;
- the paper account is never overdrawn and is exactly what its fills say; the
  trades of a backtest explain its balance; a stop protects what is held;
- the reconciler raises no false alarm and misses no divergence;
- strategy, risk book and account say the same of a position, and no repetition
  of a session holds more than one entry;
- one champion wherever the process dies, until a write has failed; no label of training in a test; the
  gate trades what the engine would.

## 2. Modules

    OrderManager ---- ExecutionEngine ---- OrderLifecycle (abstract)
         |                  |                     (refinement)
         |            ExecutionEngineProofs
         +----------- TradingPipeline -- TradingPipelineProofs -- SetProofs
    RiskGate -- RiskGateProofs        Supervisor -- SupervisorProofs
    AuditLedger -- AuditLedgerProofs  Console

    SignalStrategy ---- HonestRunner       PaperBroker  Backtest  Exposure
                   \--- PaperSession       ModelRegistry
    Training   SignalReplay                Trade  Robot  Indicators

    Books   = AuditLedger + PaperBroker + Backtest + HonestRunner + Exposure
    Books -- BooksProofs -- SetProofs      MCBooks = Books with small values
    Desk    = PaperSession + Console + ModelRegistry + Trade + Robot
              + Indicators + Training + SignalReplay
    Desk -- DeskProofs -- SetProofs        MCDesk = Desk with small values
    MCExecutionEngine, MCRiskGate, MCSupervisor, MCTradingPipeline,
    MCPaperSession, MCTraining, MCSignalReplay: one component each

`Books` and `Desk` put components that share nothing into one specification.  The
variable `part` names the component of a behaviour; it never changes, only that
component's actions are enabled, and all other variables are "off" (those of the module
each extends, `AuditLedger` and `Console`, stay in their initial state).  Their state
space is the sum of the parts, not the product, and a property of a part is
checked as `part = "..." => property`.

### ExecutionEngine, OrderManager, OrderLifecycle

`OrderManager` is the table of `_VALID_TRANSITIONS`, the predicates on states
and the registration guard.  `ExecutionEngine` has `status` (the manager's
state of each order), `book` (the orders the broker holds: its own status and
filled quantity), the kill switch, and `call`: where each thread is inside
`submit`, `poll_status` or `cancel_order`.  A call is split where it talks to the broker
or to the ledger, because another thread can run there; what happens under one lock is one
step.  `PassesTransient` says whether the adapter lets time-outs through to
the engine's retry: the interface permits it, the retry of `engine.py:610` is
written for it and the tests' mock brokers do it, but each adapter in the
repository wraps every exception (`schwab_broker.py:163`, `alpaca_broker.py:210`,
`ibkr_broker.py:190`), so with those an attempt is never repeated.  `CancelIsFinal`
says whether an accepted cancellation closes the order at once.  Broker statuses are those
the adapters pass on, pending cancellations, replacements and strings the platform does
not know included; `Canonical` is the map of `reconciliation.py:31`.

`OrderLifecycle` is the promise: an order registers within the limit, then only
moves to a later stage, ends once, and has its complete fill reported once.
`ExecutionEngine` implements it: property `Lifecycle` is the specification of
`INSTANCE OrderLifecycle WITH ...`, `status` mapped to itself and `fullFills` to
the count of fill events, checked by TLC and proved.

### RiskGate

The risk manager with its breaker, drawdown monitor and kill switch.  One
thread evaluates and settles orders; `Readers` are console threads in
`status()`, which is three steps, the test and two assignments, because the
read of `CircuitBreaker.state` is not under a lock they share.  Equities are
small integers; limits are whole percents, which the quotient rounded down
reaches exactly when the fraction does.  A cool-down is a counter that `Tick` lowers.  Exposure is a free
choice between approval and refusal.  `Resets` says which of the two resets
(through the manager, or straight on the switch as the console does,
`api.py:317`) the operator has.

`misread` is a history variable: a console reader that had found an OPEN breaker
past its cool-down wrote HALF_OPEN after another thread had closed it or opened it
anew, or freed the test slot after an order had claimed it.
`OneTestOrder` and the cool-down part of `BreakerSound` are stated for executions
without it, since the code does not keep them across it; the other properties
hold with it.

### Exposure

What `RiskGate` leaves free: `calculate_exposure`, the projection of an order,
the limits, the size of an entry and the throttle, over a bar in which every order
is sized by and checked against the same snapshot while the approved ones
fill.  `increases` counts the approved orders that add exposure, and bounds by how
much the sum of a bar passes a limit each order respects.

### Supervisor, Console

`Supervisor`: `state`, `_loop`, `_thread` as indices into the histories `loops` and
`threads`; each loop is its pair of events.  A request that releases the lock
(stop, and apply_config which stops and starts) is a `caller` at a step.  The
join of `stop` may end because the thread is done or because of the time-out,
so the step after it is always enabled.  Each thread walks through the phases
of `_run_loop_wrapper` and `TradingLoop.run`.  `Launch`, `LaunchFails` are the
outcomes of `start`; the audit record after `thread.start()` may raise.

`Console` takes from that the pipelines: every start builds one with a kill
switch and limits of its own, and the loop of an older one may run on.  Requests
act on the newest.  A kill switch request is two steps: `supervisor.pipeline` is read
under the supervisor's lock, and the switch it leads to is worked after the lock is
released (`api.py:291`), so a stop and a start may come between; the request then works
the old switch and answers "ok" all the same.  `crossed` remembers the requests to which
that happened, `halted` the pipelines whose activation was answered without it.  Edits of configuration and settings are split where a handler
reads, merges and writes, since handlers run in a pool of threads; `overlapped` remembers
that two did.

### TradingPipeline

One account, its broker, the pipeline, the reconciler and the operator.  `book` is
what `record_fill` told the risk manager, `orders` what happened at the broker,
`seen` what the reconciler has read.  The submission and the poll are
the *outcomes* that `ExecutionEngine` gives them.  A signal is any member of `Actions`
for any symbol.  A new pipeline starts with a flat book and the orders of the
previous one forgotten, as `build_alpaca_pipeline` does.  A bar on which the account
cannot be read, or a strategy raises, ends there, counted, and the loop goes on with the next
(`BarRaises`).  `working` and
`overlapped` are history variables; no action reads them but the properties.

### PaperBroker

Cash, long and short quantities, resting orders and the state file.  A fill is
one operator, `ApplyFill`, for the four sides; triggers and prices of the four
types are `Triggered` and `FillPrice`.  Prices are integers, slippage is zero,
commission is per fill.  An update has quotes for any set of symbols and evaluates the open orders one by one in the order they
were placed, over the account the previous one left.

### SignalStrategy, HonestRunner, PaperSession

`SignalStrategy` is the seven rule-based strategies as one: they differ in how they
protect a position (trailing percent, trailing ATR, fixed stop), whether they short,
have a time stop or an exit by indicators.  Indicators are a *view* the market takes.
A belief changes with fills, bars and a snapshot of the account.

`HonestRunner` runs them through the bar loop of `honest_backtest` (and of
the older script, with its differences): fills at the open in parts, borrow
of shorts, marking, decisions, orders for the next bar.  `PaperSession` runs them
once a day: seed the history, tell the strategy the positions, process one bar, poll,
settle, end; with a dry run, missing data, a crash before the state is saved, a
torn state file, and at Alpaca orders that fill when nobody looks.

### Backtest

One bar after another: the orders of earlier bars fill at the open in their
order (`Fill`), positions are tested against stop and target one by one
(`CheckExit`), the strategy sends buy, sell or nothing (`Decide`).  Spread,
slippage and impact are one number and the commission is flat; money is
integer.  A position carries what was paid for it instead of a price per share,
so no average is rounded.  The market is any row of `Markets` per symbol and bar.
`dropped` is a history variable: what was paid for shares that a sale deleted without
selling them.

### ModelRegistry, Training, SignalReplay

`ModelRegistry`: an operation queues its writes in `todo`; memory changes just
before each write, which may fail or tear the artifact; a crash loads what is on disk.  Keys that
map to one file name share it, as `_safe_filename` makes them.

`Training`: a row is a symbol and a day; labels look a horizon ahead; folds are
cut over the dates of the cleaned table and purged by the bars of each symbol.
`prices` are the rows whose prices the gate replays predictions against.

`SignalReplay`: the ensemble's decision over five levels of a probability, the
sequence the gate reconstructs from the same stream, and the backtester that the
gate then runs, side by side.  At an open the backtester fills each purchase whole, in part
(a tenth of the volume, `cost_model.py:72`) or not at all, as volume, cash and price have
it: these three outcomes are free, sizes and cash are not modelled, opens have a positive price, and
the gate sets no stop.  A remainder is an order again; behind a sale it reopens the
position that the sale deleted.  A purchase that comes to nothing is forgotten.
`cut` and `lost` are histories of the two.

### AuditLedger

Ledgers over one file.  `Hash` is a constant operator: the proofs hold for
every function, and TLC uses one without collisions.  A record is the
assignment in memory and then the append, which may fail, tear the line, or be
cut by a crash; a loss of power cuts the tail.  A ledger that opens the file
loads and verifies what it can parse.  `harmed` and `acked` are histories: whether an
append failed or writers overlapped, and the events whose `record` returned.

### Trade, Robot, Indicators

`Trade`: a template, its child orders with the price each was measured from
(`basis`), the order at a venue and a status object built before or after.  `altered`
remembers what was changed after the children were made.  `Robot`:
`execute_signals` order by order, then `save_orders`, which truncates before it dumps.
`Indicators`: a column is the revision of the frame its last row was computed from;
each indicator writes and reads the columns that its code names.

## 3. Runs

| run | what is asked | bounds |
|---|---|---|
| `ee_engine` | types, the budget of active orders, one placement and one id per order, fills once and real, ends as the broker said them and never lost, refinement of the lifecycle | 2 orders, 3 threads, quantity 2, 1 retry, `max_orders` 1, time-outs let through, cancellations not final; see below |
| `ee_kill` (violated) | no order passes after an activation | 2 orders, 1 thread, quantity 1, adapter wraps, cancellations final |
| `risk` | latch of a breach, a sound breaker, one test order, the breaker half-opens | equities 7 to 10, 2 symbols, streak of 2, cool-down of 2, one reader, both resets |
| `rg_wedge` (violated) | the test slot is released | the same, no reader, calm equities |
| `sup_requests` | running is live, paused is quiet, stop ends, requests end | 2 callers, 2 loops |
| `pipeline` | alarms have a cause, divergences are caught, shorts need an overlap; with bars that raise | 1 symbol, BUY and SELL, lot 2, interval 2, 3 orders |
| `books` | ledger: file and completeness; paper account, value of a fill; backtest: cash and stops; runner: balance and beliefs; exposure: projection, exits, overshoot | below |
| `desk` | sessions, console, registry, trade, robot, indicators, training, replay: ten properties | below |
| `session_stop` (violated) | a trailing stop works across sessions | 3 scripts, 3 days, 3 sessions |
| `session_breakout` (violated) | a breakout is bought | the same |
| `training_prices` (violated) | predictions meet the prices of their row | 2 symbols, 10 days |
| `gate_replay` (violated) | the replay is long where the sequence is | 2 symbols, 4 rows |

`ee_engine` explores with the constraint `Focus`: while one request has reached the
broker all threads are at work; a state with a second one is followed only while the
two console threads are idle, and none with a third.  Those two threads are alike
(`Operators`), as are the callers of `desk` (`CallersAlike`); both symmetries are over threads
that no constant and no property names, and no run with a symmetry checks liveness.

The parts of `books`: 2 ledgers, 3 events; 2 symbols, 2 prices, the kinds of order of `Menu`, 3
orders; 2 symbols, 5 kinds of bar, 4 bars; 7 strategies with their script, 1 symbol, 3
kinds of bar, 6 bars; 2 symbols, 2 prices, 2 monitors, 3 bars.  The parts of
`desk`: 3 scripts, 3 days, 3 sessions; 2 callers, 2 starts, 2 edits; 3 models on 2 files, 4
operations; 2 children, 3 calls; 2 symbols, 2 calls, 2 edits of the portfolio; 12 indicators of which 3
are added, 3 revisions; 4 calendars with gaps, 24 shapes of folds; 5 levels, 5 regimes, 4 rows.

What the properties of `books` and `desk` say, beside those named above:

- `AccountSound`: the paper account is never overdrawn, is what its orders filled
  since the file it restored, and no order rests whose condition is met;
  `FillsAreNeutral`: an update moves value only by commissions.
- `CashIsExplained`, `StopProtects`: the backtest's trades, positions and what a sale
  deleted explain its cash, which is short by one fee at most; nothing is held
  past a bar that touched its stop.
- `BalanceIsExplained`, `StrategyInStep`: the same of the runner with borrow and with
  fees charged twice on partial sales counted; the strategy knows what is held, and
  a position past its stop or its time is on its way out.
- `OrderChecked`, `OvershootBounded`: see Exposure.
- `OnePosition`: however sessions repeat, crash or run dry, no more than one entry is
  held or on order, unless a session began over a working order; `SessionKnows`: book
  and strategy differ from the account by exactly what was not told.
- `OperatorHeeded`: a pipeline whose activation was answered "ok", with no start between
  the request and its answer and no reset in the air, does not trade again, whatever is
  stopped and started, until a reset is asked for while it is the newest; and the newest trades
  within the limits last answered "ok".  It promises nothing of the *next* pipeline:
  a stop and a start clear switch and limits without a reset, which is what the code does.
  `EditsKept`: every edit that no other one overlapped is in force and in the file.
- `RegistrySound`: memory has one champion through crashes and failed writes, until the
  process dies after a write that failed; until one fails, so has the directory
  wherever the process dies, a promotion that was cut can be repeated, and directory and memory
  agree between operations.  After a failed write the directory may have two champions or
  none, which the property leaves out because the code does not prevent it.
- `TradeSound`: children close what the entry opens; a final status is answered
  right.  `RecordsKept`: a readable `orders.json` is complete and in order.
- `RefreshedColumns`: a refresh leaves no stale column but relative strength, one
  revision at most.
- `FoldsSound`: no label of training reaches a test row and nothing is predicted
  twice.  `ReplayMirrors`: gate and engine trade alike until a regime intervenes; while
  the sequence is never short, the backtester holds what the row before says unless a purchase
  was forgotten, and holds nothing elsewhere but what came of a purchase in part.
- `EndsAsTold`: an order with an id that ended on the platform ended so at the broker, or
  its cancellation was confirmed there; `NewsIsKept`: a poll that brings a fill or a
  cancellation leaves the order ended, whatever two other threads did to it since the
  broker was asked.  An expiry is no news to `poll_status` and neither property claims it.

Why these bounds are enough to make the cases happen.  A race on a fill needs
two threads past the status check with a third one acting in between; a partial
fill needs quantity 2; a second placement needs one retry; the budget
needs one more order than `max_orders`.  A breaker needs a streak of two to
tell one loss from a full streak, and a cool-down of two to be interrupted.
An old thread that outlives a new start needs two loops.
A divergence needs a partial fill (lot 2) and a reconciliation that is not at
every bar (interval 2); a short needs two exits over one entry, so three
orders.  A fork of the ledger needs two writers and three events.  A remainder
that fills before the sale needs four bars in the backtest and, with a strategy
that must first see its entry, six in the runner; an overdraft needs two symbols that
spend one cash balance.  A session over an order of an earlier session, or a
position restored twice, needs three sessions.  A lost edit needs two callers; a
loop that outlives its pipeline needs two starts.  A demotion needs two
champions and a shared file a third model.  A stale column needs two indicators where
one reads what the other writes, and a third around them.  A label that jumps a
gap needs a calendar with one; a cover needs an entry, an exit and the next
entry on the other side.  Each property also has a mutant in `PROJECT.json`, a plausible
bug in the code, that breaks it under the run's own configuration; so each run
reaches the case its properties are about.

Counters that only bound a model are named: `MaxPlaced`, `MaxLoops`,
`MaxEvents`, `MaxBars`, `MaxDays`, `MaxSessions`, `MaxStarts`, `MaxEdits`,
`MaxFits`, `MaxOps`, `MaxChildren`, `MaxCalls`, `MaxRevisions`, `MaxRules`,
`MaxIndicators`, `MaxRows`.  The systems really stop at these bounds, and a trading session
that has no more bars really stops, so most configurations switch the
deadlock check off; `pipeline` keeps it.

### Fairness

- `RiskGate!FairSpec`: time passes, the loop evaluates orders and settles the
  one it has.  An evaluation reads the breaker even while it refuses
  (`calculate_position_size` and `evaluate_order` read `position_scale`), so
  weak fairness of `Evaluate` is what a loop with signals gives.  Market and
  operator are not forced.
- `Supervisor!FairSpec`: each request and each loop thread that can take a step
  takes one: threads are scheduled, the lock is fair enough, `process_bar`
  returns.  No new request is forced.
- `TradingPipeline!FairSpec`: the loop thread keeps stepping, and a bar that would
  reconcile, when it comes up again and again, sometimes gets past its reads of the
  account.  The second is an assumption about the venue, not about the code: an account
  whose reads raise at every 25th bar is never reconciled and nothing halts
  (`loop.py:180`).  The broker's fills, the operator and restarts are not fair.

`ExecutionEngine` states safety only: the pipeline polls an order once
(`pipeline.py:443`) and nothing else must, so no fairness of polls is justified.  The
modules of `books` and `desk` are sequential programs or requests nobody must
make; they state safety only.

### What the violated runs show

- `ee_kill`: `kill_switch.py:16` says that once it is activated no orders may pass through the engine
  until it is reset.  `submit` looks at the switch once, before validation, the risk
  check and the request, so the one submission in flight still reaches the broker.
  `LeakBounded` proves how far: one request, or one per attempt with an adapter that
  lets time-outs through.
- `rg_wedge`: a half-open test order that does not fill at its only poll keeps
  the test slot, and the breaker is neither closed nor opened again.
- `session_stop`: `sync_positions` tells a new strategy that a symbol is held, not
  its best close; the trailing stop is then measured from the one close of the
  session and cannot sell.
- `session_breakout`: the crypto session seeds its history with the current day and
  then processes that day; the highest close before the bar includes its own.
- `training_prices`: positions of the out-of-sample predictions count the rows of
  the cleaned table and index the table before cleaning.
- `gate_replay`: the replay engine has no shorts: it ignores the sale that opens
  one and buys to cover it, which is a long position the sequence does not have, with
  every purchase filled whole.

### Seen while modelling, not a run

Orders and risk:

- With an adapter that wraps every exception in `OrderRejectedError`
  (`alpaca_broker.py:210`), an order whose answer is lost is recorded as rejected
  and works at the broker; nothing polls it any more.
- `poll_status` has no branch for EXPIRED (`engine.py:462`): an expired order
  stays active for ever and keeps its place in the budget of active orders.
- An order in UNKNOWN never has a broker id, so `OrderReconciler.reconcile_order`
  raises for each order the engine leaves there (`reconciliation.py:119`).
- A console reader of `status()` can half-open a breaker that has just been opened
  anew, which ends its cool-down at once, or free the test slot a second time
  (`circuit_breaker.py:65`, read from `manager.py:516` without the manager's lock).
- A switch may be two: `build_default_pipeline` with limits or a sector map and
  `build_alpaca_pipeline` give the risk manager a kill switch of its own
  (`risk/manager.py:72`); the console works the pipeline's.
- A start whose last audit record raises leaves a live thread behind state ERROR, and
  the next start makes it unreachable (`supervisor.py:342`).
- A kill switch request that a stop and a start cross works the switch of the old pipeline and
  answers "ok" (`api.py:291`, `api.py:316`); a stop and a start clear an activation.
- Limits patched before there is a pipeline are answered "ok" and forgotten.
- After a restart on an account with positions the book is flat, so the first
  reconciliation finds a mismatch and stops trading; only `us_paper_session.py`
  synchronises it.  `DivergenceIsCaught` holds because of that stop.
- `max_position_size_pct` is documented as the size of a position and is compared
  with one order; all orders of a bar are compared with one snapshot.
- Schwab's `filled_quantity` is the total quantity (`schwab_broker.py:206`).

Files, accounts and backtests:

- `ledger.py:16` speaks of truncation; a file cut at a line boundary verifies.
- `load_state` of the paper broker says it restores the order history and does not.
- The quantity of a backtest's sale is fixed when it is decided; the remainder of
  the entry fills before it, and the sale then deletes shares it did not sell
  (`backtesting/engine.py:420`).
- The runner takes the entry fees off every part of a sale (`runner.py:532`); its
  defensive path for a purchase that meets a short pays for shares it does not
  cover, and is never reached (`BalanceIsExplained`).
- `us_strategy_backtest.py` tells fills without their side, so a remainder that
  fills is told as an entry.

Learning and the older API:

- The model that is tried on the holdout was fitted on all rows, the holdout among them
  (`HoldoutUntouched` of `Training`, which TLC refutes).
- In the gate's replay a purchase over a tenth of the volume goes on at the next bar, after
  the sale decided meanwhile, and reopens the position (`backtesting/engine.py:422`).
- A failed write in a promotion leaves what memory has undone on disk; the next load may find two
  champions or none.
- The gate ignores regimes, carries its position from one symbol to the next, and its
  strategy closure is asked once per day while signals are counted per row.
- `OrderStatus` answers from the status it copied when it was built, and has no
  question for FILLED.  A box range measures its stop with the size of its profit.
- `rsi` drops `change_in_price` when it is done, so a refresh may compute it from
  the changes of the rows before; `macd`, `bollinger_bands`, `mass_index` and others
  write fixed columns whatever key they are registered under, so two of a kind are one.
- An indicator registered under a key in use replaces the earlier one in
  `_current_indicators` (`indicators.py:206`); a column that only the earlier one wrote keeps
  its old rows at every refresh.
- Of two rules about one indicator the last one holds, and its limits are not checked
  against each other.

## 4. Proofs

`ExecutionEngineProofs`, `RiskGateProofs`, `SupervisorProofs`, `TradingPipelineProofs`,
`BooksProofs`, `DeskProofs` and `AuditLedgerProofs` are checked by TLAPS for all values
of the constants that satisfy the named assumptions (any set of orders and threads, any
quantity, any number of retries; any limits, equities and cool-downs; any number of
requests and starts; any symbols, lot and interval; any data set, strategy, cost and
cash; any hash function, any number of ledgers and events; any fields and values of
configuration, settings and limits; any closes and number of sessions; any models and
the files their names share; any trades, prices and child orders; any catalogue of
indicators; any calendars and shapes of folds; any stream of signals).  `SetProofs`
holds what three of them share.

Every safety invariant and every action property that a passing run checks is stated
by a theorem.  What only TLC checks is liveness.

The assumptions on constants (`ConstantsOK`, `PipelineConstants`, `BacktestConstants`,
`RunnerConstants`, `PaperConstants`, `RiskConstants`, `SupervisorConstants`,
`SessionConstants`, `RobotConstants`, `IndicatorConstants`, `TradeConstants`,
`TrainingConstants`) say what kind of value each is.  Three say more.
`RunnerConstants` adds that the older script runs no strategy that sells short, as
`us_strategy_backtest.py` runs `USTrendStrategy` only; `SessionConstants` says the same
of the session at Alpaca.  `TrainingConstants` gives a training period a day, and
`TradeConstants` does not count the states of an order before it reaches the venue as
final.  Four theorems have a hypothesis besides, which is written in their statement:

| hypothesis | theorem | why it is needed |
|---|---|---|
| `SELL_SHORT` is no action | `ShortsAreOverlaps` | a strategy that sells short is short |
| `CommissionIsCovered` | `AccountIsSound` | a sale at a price under its commission pays more than it brings |
| `SalesPayTheFee` | `CashExplained` | a share sold at a stop must bring spread and fee, or sales lower the cash below one fee |
| `KeysDiffer` | `ColumnsAreRefreshed` | an indicator registered under the key of one of another kind replaces it in `_current_indicators`, and a column that only the replaced one wrote is never computed again |

The run `pipeline` has no short sale; `MCBooks` assumes the next two of its values and
`MCDesk` the last, so TLC evaluates them.

**ExecutionEngine.**  `TypeCorrect` is type correctness and is used by all the others.
`LeakBounded` bounds the requests that reach the broker after an activation:
its invariant says that the requests made and the attempts left of the one
submission in flight never sum to more than `MaxRetries + 1`, which a plain bound on the
counter does not carry through a retry.  `FillsReportedOnce` rests on
`FillInvariant`: for each order the number of fill events plus the number of
threads that still owe one is 1 if the order is FILLED and 0 otherwise.  The
bare property is not inductive because a thread may hold the event it has not
written; FILLED is terminal and the transition table, not the check before it,
keeps a second thread out.  `ImplementsLifecycle` shows that each action is a
step of `OrderLifecycle` or a stutter, one lemma per action.

`RealFills` must speak of answers on their way: `PastInv` says that an answer a thread
holds was true of the broker's order when it was given, and that such an order has only
moved on since (`HeldIsPast`).  `EndsAgree` adds that a thread which has seen its cancellation
accepted holds an order that was confirmed cancelled, and is over if confirmations are
final; it has no hypothesis, the two kinds of broker are two cases of it.  `NewsKept` is about
one step: the transition table takes a fill or a cancellation in every state that a polled order can
have reached meanwhile, or the order has ended already.  `PlacedAtMostOnce` counts: an order's entries at
the broker are at most the attempts spent on it (`Spent`, which is the number of the
attempt while the loop is placing it), and an id that came back belongs to the order
it was asked for.  `BudgetHolds` follows the cardinality of the active orders: only
a registration adds one, and it is refused at the limit; the rest of the proof is
that no other step brings an order back.

**TradingPipeline.**  `Typing`; then `BookIsRecorded`: for every symbol the risk book is
the sum of what was recorded of its orders, and while the reconciler compares, its
reads still equal the positions unless a fill has not been recorded.  `NoFalseAlarm`
follows step by step.  `ShortsAreOverlaps` needs a weaker sum than the position: of
orders that may still fill, sales count whole and purchases count what has filled.  `ShortInv`
says that this sum stays at or above zero in a symbol without overlap, and that what a
bar read of a symbol it may still trade is the position or nothing.

**Sets.**  Positions and cash are sums over sets of orders and symbols, which the
modules write with the fold of the community modules.  `SetProofs` shows what the proofs
need of it (the sum of no terms, of one more, of equal terms, of terms of which one
moves) by induction on finite sets, carried out by hand from the well-foundedness of
strict inclusion, because the induction theorems of the library take an operator.  Intervals get an
induction of their own, for what a fold over a sequence carries.  The rest is about finite
sets in an order: there is a last member, each rank is hit once, so a set sorted by
choosing the member of each rank is a sequence that has every member once and in
order; of numbers, the one `n` ranks later is at least `n` larger.

**Books: Backtest.**  `BackInv`: the cash is the initial balance plus the results of
recorded trades less what was paid, fees included, for what is held and for what a sale
dropped, and at each phase
the positions still to be tested are all that can be past their stop.  From it
`StopsAreHit`.  `CashExplained` adds `Funded`: the cash is at least minus one fee and
every position brings its fees when sold at its stop, which a fill keeps although it
mixes shares of several prices.

**Books: Exposure.**  `ProjectionExact` (what `check_order` projects is the exposure after
the order) is a lemma about sums over symbols and sectors.  `OrdersAreChecked` applies
it to every order of a bar, `OvershootIsBounded` carries the bound over the bar:
while a bar has approved no entry, gross exposure is at most that of its snapshot; after
that it is within the limit and one position limit for each entry but the first.

**Books: PaperBroker.**  An update evaluates resting orders one by one, as a recursive
function; `Stage` says what holds after the first n of them (the account is sound, it is
what the filled orders made of it, the value changed by one commission for each fill
at the last price, orders evaluated without filling are not triggered) and is carried along the function by induction on n.  `PaperInv`
says the same of the account and of the saved file, so a restore returns to a sound one.

**Books: HonestRunner.**  `RunnerInv` says what the orders of a bar are: an exit never asks for
more than is held, an exit and an entry or two exits of one symbol never wait together,
remainders leave shares.  With that no fill meets a position of the other direction and the balance
is explained (`Balanced`).  `InStep` adds what the strategy believes: `Match` relates
the belief of each symbol to the shares held, separately for the runner and for the
older script, which tells fills without their side.  `StrategyKnows` follows for all seven
strategies at once, since a profile is any record of their rules.

**AuditLedger.**  `LedgerInvariant` relates the file to memory: a file to which
nothing happened is a chain that the one open ledger holds, and a file without
torn lines contains what was acknowledged.  From it follow `MemoryAlwaysVerifies`,
`SurvivesRestarts` and `TrailIsComplete`.

**RiskGate.**  `BreachesLatch` rests on `HaltedIsActive`, a seen breach has
activated the switch: `update_equity` and `evaluate_order` test the same
expressions, which `ReportTestsLimits` shows.  `BreakerIsSound` and `OneOrderTests` rest
on `BreakerInv`, which joins the room of a closed breaker and the cool-down of
an open one, inductive with the types, with `SlotCounts`: the bare "at most one
test order" is not inductive, since a claim is safe only if a free slot means that
none has passed.

**Supervisor.**  `StateInv` is `RunningIsLive` and `PausedIsSet` (the pause
event of the current loop is set while the state says PAUSED), from which
`PausedLoopsAreQuiet` follows step by step.  Most of the work is in the types: a start
appends to two sequences that the types of threads and requests refer to.

**Desk: SignalReplay.**  The gate is asked once a row and cannot see what the engine
holds.  `StreamInv` relates each signal to the position before and after it; `DaysCount`
says that a sequence of a single symbol is asked once a day.  Then `EngineAgrees`: until a regime
intervenes, the gate's position is the engine's net.  `Mirrored` follows the backtester
bar by bar, one row behind: what it holds (`Carried`), and what waits for the next open
(`Orders`): a sale only where the row sells what is held, and then behind all purchases, and
otherwise only the purchase of the row or the remainder of one in part.
`GateIsMirrored` is the conjunction.

**Desk: Robot.**  `Records`: the broker numbers its orders, the responses in memory are the
last of them, and what was reported came before, in order; without trouble nothing is
missing between the two.  `OnFile` says that the file is what was reported or torn, and that it
is not torn while it is written.  `Owners` ties `owned` to the last order of a
symbol.  `RobotRecords` follows.

**Desk: Trade.**  `Fits` keeps every child in the set that suits the way, side and size of
the trade now, less what was changed after it was made; a changed side must therefore change the
set and its members together.  `FinalStays` says that a copied or answered status
is behind the venue except when it is final.  `ChildrenClose` rests on these.

**Desk: ModelRegistry.**  `Planned` lists the only queues of writes an operation can
have pending.  With it `OneEach` (one champion in memory and one on disk, which memory
knows unless it is being registered again), `Agreed` (what is not about to
be written is on disk as in memory) and `Backed` (the next champion could be
promoted from what is on disk) are inductive together, and none without the
others.  These hold until a write fails.  `MemoryInv` is what goes on through failed writes until
the process dies: whatever was cut off, the queue of an operation is still one of
`Planned`, and memory changes write by write in an order that demotes before it crowns.

**Desk: PaperSession.**  `OneEntry` bounds the account with what still works, on both
sides, and the saved file alone.  That a session adds no second entry rests on
`BeforeBar` (nothing works, and the strategy knows what is held) and `AfterBar` (only the
session's own order works, so late fills go one way); a crash loses the second and the
synchronisation of the next session restores the first.  `BookKept` is the equation that
`SessionKnows` states.  `OneEntryIsHeld` and `SessionIsInStep` follow.

**Desk: Indicators.**  A refresh is one step and folds all registered indicators over the
columns.  `Passed` and `InTime` say what holds after the first n: each column is either current or
as it was and not yet due, and a column of price changes that stands before its rsi is
current until the rsi has read it.  They are carried along the fold by induction on the
interval.  `Covered` is what needs `KeysDiffer`: a column that was ever written belongs to
an indicator of the list.

**Desk: Training.**  `TrainData` says that rows and days are the sorted sets they were
sorted from.  A label that looks `horizon` days ahead ends before any day
that lies `horizon` ranks later, and the embargo puts at least that many days between
train and test, counted by an injection from an interval (`RankedBefore`, `FoldIsClosed`).
The step from a fold to the next is at least a test period when there are days for all folds,
so tests are disjoint (`FoldsApart`); when there are too few days the code
shrinks the step and tests may overlap, which is why `Predicted` is conditional.  `FoldsAreSound` follows.

**Desk: Console.**  `OperatorIsHeeded`: the bare property speaks of loops that may trade; the
invariant (`InForce`) says that a halted pipeline is switched and nobody is on the way to reset it, and that a
request which no start has crossed holds the newest pipeline, without which the step that
switches could not be shown to reach it.  `EditsAreKept` rests on
`ConfigCarried` and `SettingsCarried`: without an overlap at most one request is between
its read and its write, and it carries exactly what all edits together want.  The bare
property says nothing while a request is on its way.  Both are theorems of
`Console` alone; `DeskHasConsole` shows that every behaviour of `Desk` is one of it.

**Only model-checked.**  Liveness (`BreakerHalfOpens`, `StopEndsLoop`,
`RequestsEnd`, `DivergenceIsCaught`), which is out of reach of the proof
system under fairness.  The properties of the violated runs are refuted by TLC
and hold for no theorem.  No module uses a RECURSIVE operator; the folds and recursive
functions that the proofs meet are unfolded by inductions written out by hand.

## 5. Plan

Done, in this order: ExecutionEngine with its abstract lifecycle; RiskGate;
Supervisor; PaperBroker; AuditLedger; TradingPipeline; Backtest; then Exposure;
SignalStrategy with HonestRunner and PaperSession; Console; ModelRegistry; Trade;
Robot; Indicators; Training; SignalReplay.

Proved, in this order: ExecutionEngine, AuditLedger, RiskGate, Supervisor, Console;
the remaining invariants of ExecutionEngine, TradingPipeline and `Books`; then the
other parts of `Desk`: SignalReplay, Robot, Trade, ModelRegistry, PaperSession,
Indicators, Training.

Next: for the hypotheses of section 4, theorems about what still holds without them
(the bound on an account when commissions are not covered, which columns can be stale when
keys are shared); the safety halves of the liveness properties, such as that a request which
has not returned has a step to take.

## 6. What is not modelled

- *OrderReconciler*: only tests construct it, and `reconcile_order` raises for any order
  the engine leaves in UNKNOWN, since it asks for a broker id.
- *Inside the live adapters*: requests and field names of four brokers.  What the
  engine sees of them, errors let through or wrapped, cancellations final or not,
  are constants.
- *Data quality, dataset store, feeds and providers*: rules over data frames and I/O;
  a bar that is dropped is a symbol without a bar, which the pipeline's and the
  runner's models have.
- *The rolling window of `WalkForwardValidator`*: training always expands, as
  `ai/training.py:262` asks.
- *Features, regime detection, models, calibration, drift, context*: floating point
  without shared state; they reach trading through signals and probabilities, which
  the models leave free.
- *Monte Carlo, metrics, reports, portfolio valuations*: statistics of finished runs.
- *Kelly, target-weight and volatility sizing*: nothing in the runtime calls them.
- *Console page, roles and tokens*: presentation, and checks before the handlers that
  share no state with trading; the guard of the live unlock is in `Console`.
- *Logging, metrics, notifications*: no state that trading reads.
- *Option and multi-leg orders* of the older API: built by dictionaries alike.

## Running

    tlc -workers 2 -config ee_engine.cfg MCExecutionEngine
    tlc -workers 2 -config desk.cfg MCDesk
    tlapm ExecutionEngineProofs.tla     (likewise the other *Proofs)
