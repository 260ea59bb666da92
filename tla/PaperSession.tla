---------------------------- MODULE PaperSession ----------------------------
(***************************************************************************)
(* The daily paper sessions: us_paper_session.py trades an Alpaca paper    *)
(* account, crypto_ and metals_paper_session.py a PaperBroker whose state  *)
(* is a file.  Every session builds a new strategy, risk book and engine,  *)
(* seeds the history, tells the strategy the positions, processes one      *)
(* daily bar and ends.  What one session leaves behind (an account, a      *)
(* file, an order still working) is all the next one knows.  One symbol.   *)
(***************************************************************************)
EXTENDS SignalStrategy, Sequences, SequencesExt, FiniteSetsExt

CONSTANTS
  Markets,      \* [alpaca, breakout, profile]: the three scripts
  Closes,       \* daily closes
  Atr,
  Lookback,     \* days a breakout looks back
  Lot,          \* quantity of an entry
  MaxDays, MaxSessions   \* bounds of the model

VARIABLES
  market,
  feed,       \* the closes the data source knows, the current day last
  sessions, stage, dry,   \* sessions begun; "off", "synced" or "processed"; dry_run
  account,    \* signed quantity in the account
  saved,      \* PaperBroker: the quantity in the state file
  working,    \* Alpaca: shares of BUY and of SELL orders not yet filled
  belief,     \* the strategy's
  book,       \* the risk manager's quantity
  verdict,    \* history: what the bar was and what the strategy answered
  overlap,    \* history: a session began while an order was working
  late,       \* history: shares filled that this session was not told of
  carried,    \* history: shares at the start that the risk book was not told of
  best        \* history: best close since shares are held

vars == <<market, feed, sessions, stage, dry, account, saved, working, belief, book, verdict, overlap, late, carried, best>>
session == <<sessions, stage, dry>>

-----------------------------------------------------------------------------
NoVerdict == [action |-> "none", held |-> 0, crossed |-> "none", broken |-> FALSE, partly |-> FALSE]
NoOrders == [BUY |-> 0, SELL |-> 0]
Abs(n) == IF n < 0 THEN -n ELSE n

Init ==
  /\ market \in Markets
  /\ feed = <<>> /\ sessions = 0 /\ stage = "off" /\ dry = FALSE
  /\ account = 0 /\ saved = 0 /\ working = NoOrders
  /\ belief = NoBelief /\ book = 0
  /\ verdict = NoVerdict /\ overlap = FALSE /\ late = 0 /\ carried = 0 /\ best = 0

\* A new day at the data source.
NewDay(close) ==
  /\ stage = "off" /\ Len(feed) < MaxDays
  /\ feed' = Append(feed, close)
  /\ best' = IF account > 0 THEN Higher(best, close) ELSE 0
  /\ UNCHANGED <<market, session, account, saved, working, belief, book, verdict, overlap, late, carried>>

-----------------------------------------------------------------------------
(* The venue fills and drops working orders whether or not a session runs. *)

Signed(side, n) == IF side \in {"BUY", "BUY_TO_COVER"} THEN n ELSE -n

VenueFill(side, n) ==
  /\ n \in 1..working[side]
  /\ working' = [working EXCEPT ![side] = @ - n]
  /\ account' = account + Signed(side, n)
  /\ late' = late + Signed(side, n)
  /\ best' = IF account + Signed(side, n) > 0 THEN Higher(best, Last(feed)) ELSE 0
  /\ UNCHANGED <<market, feed, session, saved, belief, book, verdict, overlap, carried>>

VenueDrops(side) ==
  /\ working[side] > 0
  /\ working' = [working EXCEPT ![side] = 0]
  /\ UNCHANGED <<market, feed, session, account, saved, belief, book, verdict, overlap, late, carried, best>>

-----------------------------------------------------------------------------
(* run_session *)

\* What a session starts from.  Mutant: the strategy is not told.
Told_Nothing(qty) == NoBelief
Told(qty) == Synced(market.profile, NoBelief, qty)

Begins(d) ==
  /\ stage = "off" /\ sessions < MaxSessions
  /\ sessions' = sessions + 1 /\ stage' = "synced" /\ dry' = d
  /\ belief' = Told(account)
  /\ carried' = account - book'
  /\ overlap' = (overlap \/ working # NoOrders)
  /\ late' = 0 /\ verdict' = NoVerdict
  /\ UNCHANGED <<market, feed, account, saved, working, best>>

\* The Alpaca session tells the risk book too, ...
BeginUS(d) == market.alpaca /\ book' = account /\ Begins(d)

\* ... and the PaperBroker's restored account is told to the strategy alone.
BeginRestored(d) == ~market.alpaca /\ book' = 0 /\ Begins(d)

Ends == stage' = "off" /\ UNCHANGED <<market, feed, sessions, dry, account, working, overlap, late, carried, best>>

\* "market_closed" ends the session before its bar, ...
NoBarToday ==
  /\ stage = "synced" /\ market.alpaca
  /\ Ends
  /\ UNCHANGED <<saved, belief, book, verdict>>

\* ... and so does a cache without a row; the account is not written.
NoData ==
  /\ stage = "synced" /\ ~market.alpaca /\ feed = <<>>
  /\ Ends
  /\ UNCHANGED <<saved, belief, book, verdict>>

\* The days a breakout compares the close with.
Window(days) == {days[i] : i \in {j \in DOMAIN days : j > Len(days) - Lookback}}

\* A busy day closes beyond them.
Crossing(days, close, busy) ==
  CASE ~busy \/ days = <<>>            -> "none"
    [] close > Max(Window(days)) + Atr -> "up"
    [] close < Min(Window(days)) - Atr -> "down"
    [] OTHER                           -> "none"

\* seed_history has put the current day's candle into the history, and
\* process_bar appends it again: it is among the days before itself.
Seen(view, busy) == IF market.breakout THEN Crossing(feed, Last(feed), busy) ELSE view

Quantity(action) ==
  CASE action \in {"BUY", "SELL_SHORT"}    -> Lot
    [] action \in {"SELL", "BUY_TO_COVER"} -> Abs(account)
    [] OTHER                               -> 0

\* filled shares are known from the one poll after the order.
Reported(b, action, filled) ==
  IF filled = 0 THEN b ELSE OnOrderFill(market.profile, b, action, Last(feed))

\* The order: refused by the gate or by the broker, or filled as far as the poll
\* sees.  The PaperBroker fills at once and whole; at Alpaca the rest may work on.
Placed(action, qty, filled, rest) ==
  /\ filled \in 0..qty /\ rest \in 0..(qty - filled)
  /\ qty = 0 \/ dry => filled = 0 /\ rest = 0
  /\ ~market.alpaca => filled \in {0, qty} /\ rest = 0
  /\ rest > 0 => filled + rest = qty
  /\ account' = account + Signed(action, filled)
  /\ working' = IF rest > 0 THEN [working EXCEPT ![action] = @ + rest] ELSE working
  /\ book' = book + Signed(action, filled)
  /\ best' = IF account' > 0 THEN Higher(best, Last(feed)) ELSE 0

\* process_bar with the one bar of the session.
Process(view, busy, filled, rest) ==
  /\ stage = "synced" /\ feed # <<>>
  /\ LET answer == OnBar(market.profile, belief, Last(feed), Atr, Seen(view, busy))
     IN /\ Placed(answer.action, Quantity(answer.action), filled, rest)
        /\ belief' = Reported(answer.belief, answer.action, filled)
        /\ verdict' = [action |-> answer.action, held |-> account,
                       crossed |-> Crossing(Front(feed), Last(feed), busy),
                       broken |-> Last(feed) * 100 < best * (100 - Pct),
                       partly |-> filled \in 1..(Quantity(answer.action) - 1)]
  /\ stage' = "processed"
  /\ UNCHANGED <<market, feed, sessions, dry, saved, overlap, late, carried>>

\* Polls of the orders still working, which tell neither strategy nor risk book
\* what they learn; a dry run does not poll.
SettleActiveOrders == UNCHANGED <<belief, book, verdict>>

FinishUS ==
  /\ stage = "processed" /\ market.alpaca
  /\ SettleActiveOrders
  /\ Ends
  /\ UNCHANGED saved

\* The PaperBroker's state is written, after a dry run too.
FinishRestored ==
  /\ stage = "processed" /\ ~market.alpaca
  /\ saved' = account
  /\ Ends
  /\ UNCHANGED <<belief, book, verdict>>

\* The process ends early: the PaperBroker's account is that of the file, and a
\* file torn by save_state is read as an empty account.
Crash(torn) ==
  /\ stage # "off" /\ (torn => stage = "processed" /\ ~market.alpaca)
  /\ stage' = "off"
  /\ saved' = IF torn THEN 0 ELSE saved
  /\ account' = IF market.alpaca THEN account ELSE saved'
  /\ best' = IF account' > 0 THEN best ELSE 0
  /\ UNCHANGED <<market, feed, sessions, dry, working, belief, book, verdict, overlap, late, carried>>

Next ==
  \/ \E c \in Closes : NewDay(c)
  \/ \E side \in {"BUY", "SELL"} : VenueDrops(side) \/ \E n \in 1..Lot : VenueFill(side, n)
  \/ \E d \in BOOLEAN : BeginUS(d) \/ BeginRestored(d)
  \/ NoBarToday \/ NoData
  \/ \E view \in Views, busy \in BOOLEAN, filled, rest \in 0..(MaxSessions * Lot) : Process(view, busy, filled, rest)
  \/ FinishUS \/ FinishRestored
  \/ \E torn \in BOOLEAN : Crash(torn)

Spec == Init /\ [][Next]_vars

-----------------------------------------------------------------------------
(* Properties *)

\* The account never holds more than one entry, long or, where the strategy
\* shorts, short, however sessions are repeated, crash or run dry, unless one
\* began while an order of an earlier one was working.
OnePosition ==
  ~overlap =>
    /\ account + working.BUY <= Lot
    /\ account - working.SELL >= IF market.profile.shorts THEN -Lot ELSE 0

\* A session knows its account: the risk book differs by what it was not told,
\* and the strategy believes what it holds, unless shares were filled after the
\* poll, an exit was filled in part, or an order of an earlier session worked.
SessionKnows ==
  stage # "off" =>
    /\ book = account - carried - late
    /\ ~overlap /\ late = 0 /\ ~(verdict.partly /\ verdict.action = "SELL") =>
         /\ belief.holding = (account # 0)
         /\ belief.holding => Long(market.profile, belief) = (account > 0)

\* "so cross-session stop and sell exits work correctly even when a position was
\* opened in an earlier session": a bar that closes below the trailing stop under
\* the best close since the shares are held sells them.
CrossSessionStop ==
  market.profile = USTrend /\ verdict.broken /\ verdict.held > 0 => verdict.action = "SELL"

\* "close > highest_close(lookback) + 1.5xATR": the crypto session buys a busy
\* day's close above the days before it.
BreakoutIsBought ==
  market.breakout /\ verdict.crossed = "up" /\ verdict.held = 0 => verdict.action = "BUY"

=============================================================================
