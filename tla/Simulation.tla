----------------------------- MODULE Simulation -----------------------------
(***************************************************************************)
(* src/simulation/Simulation.cpp: the single-threaded tick loop of         *)
(* Simulation::run, whose agents trade on the engine of MatchingEngine.    *)
(*   tick, stage      the tick and the place in it, an index of Program    *)
(*   outcome          whether run is under way, has returned or has failed *)
(*   true_price       true_price_, also fair_value_ and reference_price_   *)
(*   trader           stats_ of every agent                                *)
(*   order_owner      order_owner_                                         *)
(*   trade_log        trade_log_                                           *)
(*   active           the maker's active_bid_id_ and active_ask_id_        *)
(*   quote            the maker's bid_price and ask_price                  *)
(*   price_history, last_trade_tick   members of the momentum trader       *)
(* An agent's send_order is the engine's steps AcceptOrder, MatchStep, ... *)
(* up to Finish, with the stage standing still until the call returns.     *)
(***************************************************************************)
EXTENDS MatchingEngine, TradingAgents

CONSTANTS
    Symbol,         \* config_.symbol
    InitialPrice,   \* config_.initial_price
    NumTicks,       \* config_.num_ticks
    ProgressSteps,  \* progress lines per run, 10 in the code
    NoiseTraders,   \* noise_traders_, a sequence
    PriceMoves,     \* what one tick may add to the price
    MakerNoise,     \* random_double(-0.02, 0.02) of the maker
    Offsets,        \* random_double(-price_range_, price_range_) of a noise trader
    NoiseSizes      \* the quantities a noise trader may pick

ASSUME SimulationAssumption ==
    /\ NumTicks \in Nat
    /\ ProgressSteps \in Nat \ {0}
    /\ PriceMoves \cup MakerNoise \cup Offsets \cup {InitialPrice} \subseteq Int
    /\ NoiseSizes \subseteq Nat \ {0}

VARIABLES tick, stage, outcome, true_price, trader, order_owner, trade_log, active,
          quote, price_history, last_trade_tick

clock == << tick, stage, outcome, true_price >>
maker == << active, quote >>
taker == << price_history, last_trade_tick >>
routing == << order_owner, trade_log >>
simVars == << vars, clock, maker, taker, routing, trader >>

\* The calls of one tick, in order.
Program ==
    << "walk", "cancel_bid", "cancel_ask", "price", "bid", "ask", "momentum" >>
        \o NoiseTraders \o << "progress" >>

Agents == {"maker", "momentum"} \cup Range(NoiseTraders)

SimInit ==
    /\ Init
    /\ tick = 0 /\ stage = 1 /\ outcome = "running"
    /\ true_price = InitialPrice
    /\ trader = [agent \in Agents |-> NewTrader]
    /\ order_owner = [id \in {} |-> "maker"]
    /\ trade_log = << >>
    /\ active = [side \in Side |-> 0]
    /\ quote = [side \in Side |-> 0]
    /\ price_history = << >>
    /\ last_trade_tick = 0

\* The loop is at this call of its body and no engine call is in progress.
At(name) ==
    /\ outcome = "running" /\ tick < NumTicks /\ op = NoOp
    /\ Program[stage] = name

\* The agent whose on_tick is running.
Current == IF Program[stage] \in {"bid", "ask"} THEN "maker" ELSE Program[stage]

GoOn == stage' = stage + 1 /\ UNCHANGED << tick, outcome, true_price >>

-----------------------------------------------------------------------------

\* The random walk, and the reference price the momentum trader starts from.
Walk ==
    /\ At("walk")
    /\ \E move \in PriceMoves :
          true_price' = IF true_price + move > Cent THEN true_price + move ELSE Cent
    /\ price_history' = IF tick = 0 THEN update_price(price_history, true_price')
                                    ELSE price_history
    /\ stage' = stage + 1
    /\ UNCHANGED << vars, tick, outcome, maker, last_trade_tick, routing, trader >>

CancelStage(side) == IF side = "Buy" THEN "cancel_bid" ELSE "cancel_ask"

\* Mutant: the quote is forgotten without a cancel.
CancelQuote_Forgets(side) ==
    /\ At(CancelStage(side))
    /\ active' = [active EXCEPT ![side] = 0]
    /\ GoOn
    /\ UNCHANGED << vars, quote, taker, routing, trader >>

\* MarketMaker::on_tick, step 1.
CancelQuote(side) ==
    /\ At(CancelStage(side))
    /\ IF active[side] > 0
       THEN /\ CancelOrder(Symbol, active[side])
            /\ trader' = [trader EXCEPT !["maker"].cancels_sent = @ + 1]
            /\ active' = [active EXCEPT ![side] = 0]
       ELSE UNCHANGED << vars, trader, active >>
    /\ GoOn
    /\ UNCHANGED << quote, taker, routing >>

\* Steps 2 and 3.
PriceQuotes ==
    /\ At("price")
    /\ \E noise \in MakerNoise :
          quote' = Quotes(trader["maker"].position, true_price, noise)
    /\ GoOn
    /\ UNCHANGED << vars, active, taker, routing, trader >>

\* Trader::send_order up to the point where submit_order has put the order on
\* the book, or has rejected it and send_order returns 0.
send_order(agent, side, type, price, quantity) ==
    /\ trader' = [trader EXCEPT ![agent].orders_sent = @ + 1]
    /\ \/ AcceptOrder(Symbol, side, type, price, quantity) /\ UNCHANGED clock
       \/ RejectOrder(Symbol, type, price, quantity) /\ GoOn
    /\ UNCHANGED << maker, taker, routing >>

\* An agent lets its turn pass.
Pass == GoOn /\ UNCHANGED << vars, maker, taker, routing, trader >>

QuoteStage(side) == IF side = "Buy" THEN "bid" ELSE "ask"

\* Step 4.
SendQuote(side) ==
    /\ At(QuoteStage(side))
    /\ IF MayQuote(trader["maker"].position, side)
       THEN send_order("maker", side, "Limit", quote[side], QuoteSize)
       ELSE Pass

MomentumTick ==
    LET Wants(side) == Signals(price_history, last_trade_tick, tick,
                               trader["momentum"].position, side)
    IN  /\ At("momentum")
        /\ \/ \E side \in Side :
                 Wants(side) /\ send_order("momentum", side, "Market", 0, TradeSize)
           \/ (\A side \in Side : ~Wants(side)) /\ Pass

NoiseTick(agent) ==
    /\ At(agent)
    /\ \/ Pass
       \/ \E side \in Side, quantity \in NoiseSizes :
             \/ \E offset \in Offsets :
                   send_order(agent, side, "Limit", NoisePrice(true_price, offset), quantity)
             \/ send_order(agent, side, "Market", 0, quantity)

-----------------------------------------------------------------------------
(***************************************************************************)
(* The rest of send_order, and the end of a tick.                          *)
(***************************************************************************)

Matching == (MatchStep \/ MatchDone) /\ UNCHANGED << clock, maker, taker, routing, trader >>

\* One of the two lookups of the trade callback.
Routed(traders, id, side, trade) ==
    IF id \in DOMAIN order_owner
    THEN [traders EXCEPT ![order_owner[id]] = on_fill(@, side, trade.price, trade.quantity)]
    ELSE traders

\* submit_order delivers a trade to the callback of run.
TradeCallback ==
    /\ ReportTrade
    /\ LET trade == Head(op.trades)
       IN  /\ trade_log' = Append(trade_log, trade)
           /\ trader' = Routed(Routed(trader, trade.buy_order_id, "Buy", trade),
                               trade.sell_order_id, "Sell", trade)
           /\ price_history' = update_price(price_history, trade.price)
    /\ UNCHANGED << clock, maker, last_trade_tick, order_owner >>

\* Mutant: the maker does not keep the ID of its ask.
Returned_LosesAsk ==
    /\ Finish
    /\ LET id == Deref(books[op.symbol], op.order).id
       IN  /\ order_owner' = (id :> Current) @@ order_owner
           /\ active' = IF Program[stage] = "bid" THEN [active EXCEPT !["Buy"] = id] ELSE active
    /\ last_trade_tick' = IF Current = "momentum" THEN tick ELSE last_trade_tick
    /\ GoOn
    /\ UNCHANGED << quote, price_history, trade_log, trader >>

\* submit_order returns: send_order registers the owner, and the agent keeps
\* what it keeps of the order.
Returned ==
    /\ Finish
    /\ LET id == Deref(books[op.symbol], op.order).id
       IN  /\ order_owner' = (id :> Current) @@ order_owner
           /\ active' = [side \in Side |->
                             IF Program[stage] = QuoteStage(side) THEN id ELSE active[side]]
    /\ last_trade_tick' = IF Current = "momentum" THEN tick ELSE last_trade_tick
    /\ GoOn
    /\ UNCHANGED << quote, price_history, trade_log, trader >>

\* Mutant: the interval is taken from the number of the last tick.
EndTick_LastTick ==
    /\ At("progress")
    /\ IF tick > 0 /\ (NumTicks - 1) \div ProgressSteps = 0
       THEN outcome' = "crashed" /\ UNCHANGED << tick, stage >>
       ELSE tick' = tick + 1 /\ stage' = 1 /\ UNCHANGED outcome
    /\ UNCHANGED << vars, true_price, maker, taker, routing, trader >>

\* The progress line; num_ticks / 10 is an integer division, and % by zero
\* ends the process.
EndTick ==
    /\ At("progress")
    /\ IF tick > 0 /\ NumTicks \div ProgressSteps = 0
       THEN outcome' = "crashed" /\ UNCHANGED << tick, stage >>
       ELSE tick' = tick + 1 /\ stage' = 1 /\ UNCHANGED outcome
    /\ UNCHANGED << vars, true_price, maker, taker, routing, trader >>

\* The loop ends and the results are built.
Return ==
    /\ outcome = "running" /\ tick = NumTicks
    /\ outcome' = "returned"
    /\ UNCHANGED << vars, tick, stage, true_price, maker, taker, routing, trader >>

SimNext ==
    \/ Walk
    \/ \E side \in Side : CancelQuote(side)
    \/ PriceQuotes
    \/ \E side \in Side : SendQuote(side)
    \/ MomentumTick
    \/ \E i \in DOMAIN NoiseTraders : NoiseTick(NoiseTraders[i])
    \/ Matching \/ TradeCallback \/ Returned
    \/ EndTick
    \/ Return

\* run is a loop of a thread that is scheduled.
SimSpec == SimInit /\ [][SimNext]_simVars /\ WF_simVars(SimNext)

-----------------------------------------------------------------------------
(***************************************************************************)
(* Properties.                                                             *)
(***************************************************************************)

\* The types of the simulation's own state.
SimTypeOK ==
    /\ tick \in 0..NumTicks /\ stage \in 1..Len(Program)
    /\ outcome \in {"running", "returned", "crashed"}
    /\ true_price \in Int
    /\ trader \in [Agents -> TraderStats]
    /\ \A id \in DOMAIN order_owner : id \in Nat \ {0} /\ order_owner[id] \in Agents
    /\ trade_log \in Seq(Trade)
    /\ active \in [Side -> Nat] /\ quote \in [Side -> Int]
    /\ price_history \in Seq(Int) /\ Len(price_history) =< WindowSize
    /\ last_trade_tick \in 0..tick

\* The agent that sent an order: order_owner_, or the one whose send_order has
\* not returned yet.
SenderOf(id) == IF id \in DOMAIN order_owner THEN order_owner[id] ELSE Current

\* IDs rise, so of the two orders of a trade the lower one was resting.
IsResting(trade, id) == id = Min({trade.buy_order_id, trade.sell_order_id})

\* What the trades of the log add up to for an agent, purchases less sales,
\* over those of its orders for which Counts holds.
Net(agent, Value(_), Counts(_, _)) ==
    LET Leg(t, id) == IF SenderOf(id) = agent /\ Counts(t, id) THEN Value(t) ELSE 0
    IN  FoldLeft(LAMBDA sum, t : sum + Leg(t, t.buy_order_id) - Leg(t, t.sell_order_id),
                 0, trade_log)

AccountIs(agent, Counts(_, _)) ==
    /\ trader[agent].position = Net(agent, LAMBDA t : t.quantity, Counts)
    /\ trader[agent].cash = StartingCash - Net(agent, LAMBDA t : t.price * t.quantity, Counts)

\* Every fill of a resting order reaches the agent that sent it, exactly once
\* and with the right sign: at every delivery, position and cash are those of
\* the agent's resting fills in trade_log_.
RestingFillsBooked == \A agent \in Agents : AccountIs(agent, IsResting)

\* "route the fill to both counterparties" (Simulation.cpp:61): between calls
\* an agent's account is that of all its trades, aggressive ones included.
FillsReachBoth ==
    op = NoOp => \A agent \in Agents : AccountIs(agent, LAMBDA t, id : TRUE)

\* The maker's live orders are the quotes it remembers, so the two cancels at
\* the start of its turn leave none behind: no stale quote survives a tick.
NoStaleQuotes ==
    Symbol \in DOMAIN books => \A id \in LiveIds(books[Symbol]) \cap DOMAIN order_owner :
        order_owner[id] = "maker" => id \in Range(active)

\* The maker's position, which is checked before a quote is sent and not when
\* it fills, exceeds the cap by less than one quote.
MakerNearCap ==
    LET most == MakerMaxPosition + QuoteSize - 1
    IN  trader["maker"].position \in -most..most

\* The maker never trades with itself: its ask is above its bid, and the
\* quotes of the last tick are gone when it quotes anew.
MakerNoSelfTrade ==
    \A i \in DOMAIN trade_log : ~(/\ SenderOf(trade_log[i].buy_order_id) = "maker"
                                  /\ SenderOf(trade_log[i].sell_order_id) = "maker")

\* "Run the full simulation. Returns results when done." (Simulation.h:67)
RunReturns == <>(outcome = "returned")
=============================================================================
