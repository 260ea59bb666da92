-------------------------------- MODULE Books --------------------------------
(***************************************************************************)
(* The components that keep accounts: the audit ledger, the paper broker,  *)
(* the two backtesters and the exposure check.  They do not meet, so a     *)
(* behaviour is one of them, named by part, and the others stay off.       *)
(* Variables of the same name are one variable.                            *)
(***************************************************************************)
EXTENDS AuditLedger, Integers, FiniteSets

CONSTANTS
  Symbols,                                                  \* Backtest, Exposure
  Spread, Fee, InitialBalance,                              \* the two backtesters
  PaperSymbols, PaperPrices, Requests, PaperCash, Commission, MaxPlaced,  \* PaperBroker
  Markets, Fraction, Stop, Target, MaxBars,                 \* Backtest
  RunnerSymbols, Setups, Rows, RunnerFraction, Borrow, RunnerBars, \* HonestRunner
  Pct, MaxHold, Far,                                        \* SignalStrategy
  Prices, Monitors, Limits, RiskPct, StopPct, Confidences, Scales, RiskCash, RiskBars \* Exposure

VARIABLES
  part,                                              \* the component that runs
  cash, price, bar, phase, queue, pending, position, profit,  \* of several
  long, short, placed, known, saved,                 \* PaperBroker
  market, unchecked, dropped,                        \* Backtest
  setup, rows, undecided, close, belief, borrowed, stray, miscounted, \* HonestRunner
  monitor, held, snapshot, todo, lately, increases, verdict  \* Exposure

shared == <<cash, price, bar, phase, queue, pending, position, profit>>
paper == <<long, short, placed, known, saved>>
back == <<market, unchecked, dropped>>
runner == <<setup, rows, undecided, close, belief, borrowed, stray, miscounted>>
exposed == <<monitor, held, snapshot, todo, lately, increases, verdict>>
books == <<part, vars, shared, paper, back, runner, exposed>>

QueueOff == bar = "off" /\ phase = "off" /\ queue = "off" /\ pending = "off"
PaperOff == long = "off" /\ short = "off" /\ placed = "off" /\ known = "off" /\ saved = "off"
BackOff == market = "off" /\ unchecked = "off" /\ dropped = "off"
RunnerOff ==
  /\ setup = "off" /\ rows = "off" /\ undecided = "off" /\ close = "off"
  /\ belief = "off" /\ borrowed = "off" /\ stray = "off" /\ miscounted = "off"
RiskOff ==
  /\ monitor = "off" /\ held = "off" /\ snapshot = "off" /\ todo = "off"
  /\ lately = "off" /\ increases = "off" /\ verdict = "off"

-----------------------------------------------------------------------------
Paper == INSTANCE PaperBroker WITH Symbols <- PaperSymbols, Prices <- PaperPrices, InitialCash <- PaperCash

Back == INSTANCE Backtest

Runner == INSTANCE HonestRunner WITH
  Symbols <- RunnerSymbols, Fraction <- RunnerFraction, MaxBars <- RunnerBars

Risk == INSTANCE Exposure WITH InitialCash <- RiskCash, MaxBars <- RiskBars

-----------------------------------------------------------------------------
(* What the data and the parameters are.                                    *)

BacktestRow == [open : Nat \ {0}, low : Nat, high : Nat, cap : Nat]

Profile == [rule : {"trail", "peak", "ratchet", "fixed"}, width : Nat,
            shorts : BOOLEAN, clock : BOOLEAN, leaves : BOOLEAN]

ASSUME BacktestConstants ==
  /\ IsFiniteSet(Symbols)
  /\ Markets \subseteq [Symbols -> BacktestRow \cup {Back!NoRow}]
  /\ InitialBalance \in Nat /\ Fraction \in Nat /\ Spread \in Nat /\ Fee \in Nat
  /\ Stop \in 0..100 /\ Target \in Nat /\ MaxBars \in Nat

ASSUME RiskConstants ==
  /\ Prices \subseteq Nat \ {0}
  /\ Limits \in [gross : Nat, long : Nat, short : Nat, sector : Nat, position : Nat, count : Nat, order : Nat]
  /\ RiskPct \in Nat /\ StopPct \in Nat \ {0}
  /\ Confidences \subseteq 0..100 /\ Scales \subseteq 0..100
  /\ RiskCash \in Int /\ RiskBars \in Nat

ASSUME PaperConstants ==
  /\ IsFiniteSet(PaperSymbols)
  /\ PaperPrices \subseteq Nat \ {0}
  /\ Requests \subseteq Paper!Request
  /\ PaperCash \in Nat /\ Commission \in Nat /\ MaxPlaced \in Nat

ASSUME RunnerConstants ==
  /\ IsFiniteSet(RunnerSymbols)
  /\ Rows \subseteq [open : Nat \ {0}, close : Nat \ {0}, cap : Nat, atr : Nat]
  /\ Setups \subseteq [profile : Profile, multi : BOOLEAN]
  /\ \A z \in Setups : ~z.multi => ~z.profile.shorts   \* us_strategy_backtest runs USTrend
  /\ RunnerFraction \in Nat /\ Borrow \in Nat /\ RunnerBars \in Nat
  /\ Pct \in Nat /\ MaxHold \in Nat /\ Far \in Nat

(* A share sold at a price or at a limit brings the commission.             *)
CommissionIsCovered ==
  /\ \A p \in PaperPrices : Commission <= p
  /\ \A r \in Requests : r.limit # 0 => Commission <= r.limit

(* A share pays for its sale: at an open, and at the stop below an entry at *)
(* an open, it brings spread and fee.                                       *)
SalesPayTheFee ==
  \A m \in Markets, s \in Symbols : m[s] # Back!NoRow =>
    /\ m[s].open >= Spread + Fee
    /\ (m[s].open + Spread) * (100 - Stop) >= 100 * (Spread + Fee)

-----------------------------------------------------------------------------
BooksInit ==
  /\ Init
  /\ \/ /\ part = "ledger" /\ cash = "off" /\ price = "off" /\ position = "off" /\ profit = "off"
        /\ QueueOff /\ PaperOff /\ BackOff /\ RunnerOff /\ RiskOff
     \/ /\ part = "paper" /\ Paper!Init /\ position = "off" /\ profit = "off"
        /\ QueueOff /\ BackOff /\ RunnerOff /\ RiskOff
     \/ part = "backtest" /\ Back!Init /\ price = "off" /\ PaperOff /\ RunnerOff /\ RiskOff
     \/ part = "runner" /\ Runner!Init /\ price = "off" /\ PaperOff /\ BackOff /\ RiskOff
     \/ /\ part = "exposure" /\ Risk!Init
        /\ phase = "off" /\ queue = "off" /\ pending = "off" /\ position = "off" /\ profit = "off"
        /\ PaperOff /\ BackOff /\ RunnerOff

LedgerRuns == part = "ledger" /\ Next /\ UNCHANGED <<part, shared, paper, back, runner, exposed>>

PaperRuns ==
  /\ part = "paper" /\ Paper!Next
  /\ UNCHANGED <<part, vars, bar, phase, queue, pending, position, profit, back, runner, exposed>>

BacktestRuns == part = "backtest" /\ Back!Next /\ UNCHANGED <<part, vars, price, paper, runner, exposed>>

RunnerRuns == part = "runner" /\ Runner!Next /\ UNCHANGED <<part, vars, price, paper, back, exposed>>

ExposureRuns ==
  /\ part = "exposure" /\ Risk!Next
  /\ UNCHANGED <<part, vars, phase, queue, pending, position, profit, paper, back, runner>>

BooksNext == LedgerRuns \/ PaperRuns \/ BacktestRuns \/ RunnerRuns \/ ExposureRuns

BooksSpec == BooksInit /\ [][BooksNext]_books

-----------------------------------------------------------------------------
(* The properties of each component, of the behaviours that are its own. *)

\* PaperBroker: never overdrawn, positions are the filled orders, and no order
\* rests whose condition the last price meets.
AccountSound == part = "paper" => Paper!AccountSound

\* PaperBroker: a fill creates no value.
FillsAreNeutral == [][part = "paper" => Paper!Neutral]_books

\* Backtest: the report's trades explain the cash, and the cash pays for them.
CashIsExplained == part = "backtest" => Back!CashIsExplained

\* Backtest: nothing is held whose bar touched the stop.
StopProtects == part = "backtest" => Back!StopProtects

\* HonestRunner: trades, borrow and open positions account for the cash,
\* and no entry meets a position of the other direction.
BalanceIsExplained == part = "runner" => Runner!BalanceIsExplained

\* HonestRunner: the strategy knows what is held, and leaves on time.
StrategyInStep == part = "runner" => Runner!StrategyInStep

\* Exposure: an order is projected exactly, and refused for what it adds only.
OrderChecked == part = "exposure" => Risk!OrderChecked

\* Exposure: the orders of a bar pass the limits by no more than a position each.
OvershootBounded == part = "exposure" => Risk!OvershootBounded

=============================================================================
