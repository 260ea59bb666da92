-------------------------------- MODULE Desk ---------------------------------
(***************************************************************************)
(* What surrounds the trading core: the daily paper sessions, the          *)
(* operator's console, the model registry, the training of models and the  *)
(* replay of their signals, and the older robot with its trades and        *)
(* indicators.  They do not meet, so a behaviour is one of them, named by  *)
(* part, and the others stay off, the console as it starts.  Variables of  *)
(* the same name are one.                                                  *)
(***************************************************************************)
EXTENDS Console, Integers

CONSTANTS
  Markets, Closes, Atr, Lookback, Lot, Pct, MaxHold, Far, MaxDays, MaxSessions,  \* PaperSession
  Models, FileOf, MaxFits, MaxOps,                                   \* ModelRegistry
  Prices, Sizes, Quantities, Venue, Final, MaxChildren, MaxCalls,  \* Trade
  Tickers, RobotCalls,                                             \* Robot, SignalReplay
  Catalogue, Ruled, MaxRevisions, MaxRules, MaxIndicators,         \* Indicators
  Universe, Calendars, Geometries,                                 \* Training
  MaxRows                                                          \* SignalReplay

VARIABLES
  part,                                            \* the component that runs
  todo, calls, answer, status,                     \* of several
  market, feed, sessions, stage, dry, account, saved, working, belief, book,
  verdict, overlap, late, carried, best,           \* PaperSession
  models, disk, artifacts, fits, ops, failed, restarted,   \* ModelRegistry
  trade, order, size, triggered, children, quote, venue, view, altered, \* Trade
  positions, orderFile, changes, responses, saving, broker, reported, trouble, touched, \* Robot
  revision, columns, registered, rules, phase, checked, \* Indicators
  geometry, bars, priced, clean, dates, fold, folds, oos, prices, fitted, shadow, \* Training
  stream, position, net, gated, answers, bar, held, pending, cut, lost \* SignalReplay

shared == <<todo, calls, answer, status>>
session == <<market, feed, sessions, stage, dry, account, saved, working, belief, book,
             verdict, overlap, late, carried, best>>
registry == <<models, disk, artifacts, fits, ops, failed, restarted>>
template == <<trade, order, size, triggered, children, quote, venue, view, altered>>
robot == <<positions, orderFile, changes, responses, saving, broker, reported, trouble, touched>>
frame == <<revision, columns, registered, rules, phase, checked>>
training == <<geometry, bars, priced, clean, dates, fold, folds, oos, prices, fitted, shadow>>
replay == <<stream, position, net, gated, answers, bar, held, pending, cut, lost>>
desk == <<part, vars, shared, session, registry, template, robot, frame, training, replay>>

-----------------------------------------------------------------------------
(* A component that is off. *)

SessionOff ==
  /\ market = "off" /\ feed = "off" /\ sessions = "off" /\ stage = "off" /\ dry = "off"
  /\ account = "off" /\ saved = "off" /\ working = "off" /\ belief = "off" /\ book = "off"
  /\ verdict = "off" /\ overlap = "off" /\ late = "off" /\ carried = "off" /\ best = "off"
RegistryOff ==
  /\ models = "off" /\ disk = "off" /\ artifacts = "off" /\ fits = "off" /\ ops = "off" /\ failed = "off" /\ restarted = "off"
TemplateOff ==
  /\ trade = "off" /\ order = "off" /\ size = "off" /\ triggered = "off" /\ children = "off"
  /\ quote = "off" /\ venue = "off" /\ view = "off" /\ altered = "off"
RobotOff ==
  /\ positions = "off" /\ orderFile = "off" /\ changes = "off" /\ responses = "off" /\ saving = "off" /\ broker = "off"
  /\ reported = "off" /\ trouble = "off" /\ touched = "off"
FrameOff ==
  /\ revision = "off" /\ columns = "off" /\ registered = "off" /\ rules = "off" /\ phase = "off" /\ checked = "off"
TrainingOff ==
  /\ geometry = "off" /\ bars = "off" /\ priced = "off" /\ clean = "off" /\ dates = "off" /\ fold = "off"
  /\ folds = "off" /\ oos = "off" /\ prices = "off" /\ fitted = "off" /\ shadow = "off"
ReplayOff ==
  /\ stream = "off" /\ position = "off" /\ net = "off" /\ gated = "off" /\ answers = "off"
  /\ bar = "off" /\ held = "off" /\ pending = "off" /\ cut = "off" /\ lost = "off"

-----------------------------------------------------------------------------
(* The components. *)

Session == INSTANCE PaperSession

Registry == INSTANCE ModelRegistry WITH Keys <- Models

Template == INSTANCE Trade

OldRobot == INSTANCE Robot WITH Symbols <- Tickers, MaxCalls <- RobotCalls, file <- orderFile, edits <- changes

Frame == INSTANCE Indicators

Fitting == INSTANCE Training

Replay == INSTANCE SignalReplay WITH Symbols <- Tickers

-----------------------------------------------------------------------------
(* What the parameters are.                                                 *)

\* Closes and distances are numbers; the Alpaca account is traded long only.
ASSUME SessionConstants ==
  /\ Lot \in Nat /\ Far \in Int /\ Atr \in Int /\ Closes \subseteq Int
  /\ \A m \in Markets : m.profile.width \in Int /\ (m.alpaca => ~m.profile.shorts)

ASSUME RobotConstants == IsFiniteSet(Tickers)

\* An indicator is of a kind there is; rsi adds the price changes itself.
IndicatorKinds ==
  {"own", "bollinger_bands", "average_true_range", "stochastic_oscillator", "macd", "mass_index",
   "ease_of_movement", "kst_oscillator", "ichimoku_cloud", "change_in_price", "rsi"}
PriceChanges == [kind |-> "change_in_price", key |-> "change_in_price"]

ASSUME IndicatorConstants == \A i \in Catalogue : i.kind \in IndicatorKinds

\* Every indicator has a key of its own.
KeysDiffer == \A i, j \in Catalogue \cup {PriceChanges} : i.key = j.key => i = j

\* Prices and sizes are not negative; an order is not placed with a final answer.
ASSUME TradeConstants ==
  /\ Prices \subseteq Nat /\ Sizes \subseteq Nat /\ Quantities \subseteq Nat
  /\ Final \cap {"NOT_PLACED", "QUEUED", "none"} = {}

\* A training period has a day; bars are on finitely many days.
ASSUME TrainingConstants ==
  /\ Universe \in Seq(Fitting!Symbols)
  /\ \A c \in Calendars : IsFiniteSet(c) /\ c \subseteq Nat
  /\ \A g \in Geometries : {g.horizon, g.splits, g.test, g.embargo} \subseteq Nat /\ g.train \in Nat \ {0}

-----------------------------------------------------------------------------
OthersOff == todo = "off" /\ calls = "off"
AnswersOff == answer = "off" /\ status = "off"

PartInit ==
  \/ /\ part = "session" /\ Session!Init /\ OthersOff /\ AnswersOff
     /\ RegistryOff /\ TemplateOff /\ RobotOff /\ FrameOff /\ TrainingOff /\ ReplayOff
  \/ /\ part = "console" /\ OthersOff /\ AnswersOff
     /\ SessionOff /\ RegistryOff /\ TemplateOff /\ RobotOff /\ FrameOff /\ TrainingOff /\ ReplayOff
  \/ /\ part = "registry" /\ Registry!Init /\ calls = "off" /\ AnswersOff
     /\ SessionOff /\ TemplateOff /\ RobotOff /\ FrameOff /\ TrainingOff /\ ReplayOff
  \/ /\ part = "trade" /\ Template!Init /\ todo = "off"
     /\ SessionOff /\ RegistryOff /\ RobotOff /\ FrameOff /\ TrainingOff /\ ReplayOff
  \/ /\ part = "robot" /\ OldRobot!Init /\ AnswersOff
     /\ SessionOff /\ RegistryOff /\ TemplateOff /\ FrameOff /\ TrainingOff /\ ReplayOff
  \/ /\ part = "indicators" /\ Frame!Init /\ OthersOff /\ AnswersOff
     /\ SessionOff /\ RegistryOff /\ TemplateOff /\ RobotOff /\ TrainingOff /\ ReplayOff
  \/ /\ part = "training" /\ Fitting!Init /\ OthersOff /\ answer = "off"
     /\ SessionOff /\ RegistryOff /\ TemplateOff /\ RobotOff /\ FrameOff /\ ReplayOff
  \/ /\ part = "replay" /\ Replay!Init /\ OthersOff /\ AnswersOff
     /\ SessionOff /\ RegistryOff /\ TemplateOff /\ RobotOff /\ FrameOff /\ TrainingOff

DeskInit == Init /\ PartInit

SessionRuns ==
  /\ part = "session" /\ Session!Next
  /\ UNCHANGED <<part, vars, shared, registry, template, robot, frame, training, replay>>

ConsoleRuns ==
  /\ part = "console" /\ Next
  /\ UNCHANGED <<part, shared, session, registry, template, robot, frame, training, replay>>

RegistryRuns ==
  /\ part = "registry" /\ Registry!Next
  /\ UNCHANGED <<part, vars, calls, answer, status>>
  /\ UNCHANGED <<session, template, robot, frame, training, replay>>

TradeRuns ==
  /\ part = "trade" /\ Template!Next
  /\ UNCHANGED <<part, vars, todo>>
  /\ UNCHANGED <<session, registry, robot, frame, training, replay>>

RobotRuns ==
  /\ part = "robot" /\ OldRobot!Next
  /\ UNCHANGED <<part, vars, answer, status>>
  /\ UNCHANGED <<session, registry, template, frame, training, replay>>

IndicatorsRun ==
  /\ part = "indicators" /\ Frame!Next
  /\ UNCHANGED <<part, vars, shared, session, registry, template, robot, training, replay>>

TrainingRuns ==
  /\ part = "training" /\ Fitting!Next
  /\ UNCHANGED <<part, vars, todo, calls, answer>>
  /\ UNCHANGED <<session, registry, template, robot, frame, replay>>

ReplayRuns ==
  /\ part = "replay" /\ Replay!Next
  /\ UNCHANGED <<part, vars, shared, session, registry, template, robot, frame, training>>

DeskNext ==
  \/ SessionRuns \/ ConsoleRuns \/ RegistryRuns \/ TradeRuns
  \/ RobotRuns \/ IndicatorsRun \/ TrainingRuns \/ ReplayRuns

DeskSpec == DeskInit /\ [][DeskNext]_desk

-----------------------------------------------------------------------------
(* The properties of each component, of the behaviours that are its own. *)

\* PaperSession: the account never holds more than one entry.
OnePosition == part = "session" => Session!OnePosition

\* PaperSession: strategy and risk book know the account, but for late fills.
SessionKnows == part = "session" => Session!SessionKnows

\* ModelRegistry: one champion, a promotion that can be repeated, a directory
\* that agrees with the memory.
RegistrySound == part = "registry" => Registry!RegistrySound

\* Trade: children close what the order opens; final answers are right.
TradeSound == part = "trade" => Template!TradeSound

\* Robot: orders.json holds what was placed, and the portfolio says who owns it.
RecordsKept == part = "robot" => OldRobot!RecordsKept

\* Indicators: a refresh leaves no column more than one bar behind, and only rsi.
RefreshedColumns == part = "indicators" => Frame!RefreshedColumns

\* Training: no label reaches into a test, no row is counted twice.
FoldsSound == part = "training" => Fitting!FoldsSound

\* SignalReplay: the gate signals as the engine would, and the backtester holds it.
ReplayMirrors == part = "replay" => Replay!ReplayMirrors

=============================================================================
