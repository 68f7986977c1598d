--------------------------- MODULE TradingAgents ---------------------------
(***************************************************************************)
(* The agents of the simulation: what Trader.h, MarketMaker.cpp,           *)
(* MomentumTrader.cpp and NoiseTrader.cpp compute, as operators.  Money is *)
(* an integer number of a unit of which Cent make one cent, so that the    *)
(* agents' rounding to cents is visible.  The value of a random number is  *)
(* an argument.                                                            *)
(***************************************************************************)
EXTENDS Types, SequencesExt

CONSTANTS
    Cent,              \* units per cent
    StartingCash,
    QuoteSize,         \* MarketMaker::quote_size_
    MakerMaxPosition,  \* MarketMaker::max_position_
    HalfSpread,        \* MarketMaker::half_spread_
    SkewFactor,        \* MarketMaker::skew_factor_
    WindowSize,        \* MomentumTrader::window_size_
    Threshold,         \* MomentumTrader::threshold_
    TradeSize,         \* MomentumTrader::trade_size_
    TakerMaxPosition,  \* MomentumTrader::max_position_
    CooldownTicks      \* MomentumTrader::cooldown_ticks_

ASSUME AgentsAssumption ==
    /\ {Cent, QuoteSize, TradeSize, WindowSize} \subseteq Nat \ {0}
    /\ {HalfSpread, SkewFactor, Threshold, CooldownTicks} \subseteq Nat
    /\ {MakerMaxPosition, TakerMaxPosition} \subseteq Nat
    /\ StartingCash \in Int

TraderStats ==
    [position : Int, cash : Int, orders_sent : Nat, fills_received : Nat, cancels_sent : Nat]

NewTrader ==
    [position |-> 0, cash |-> StartingCash, orders_sent |-> 0, fills_received |-> 0,
     cancels_sent |-> 0]

\* Mutant: a sale is booked as a purchase.
on_fill_BuyOnly(trader, side, price, quantity) ==
    [trader EXCEPT !.fills_received = @ + 1,
                   !.position = @ + quantity,
                   !.cash = @ - price * quantity]

on_fill(trader, side, price, quantity) ==
    LET sign == IF side = "Buy" THEN 1 ELSE -1
    IN  [trader EXCEPT !.fills_received = @ + 1,
                       !.position = @ + sign * quantity,
                       !.cash = @ - sign * price * quantity]

\* std::round(x * 100.0) / 100.0, which rounds halves away from zero.
RoundToCent(x) ==
    IF x >= 0
    THEN Cent * ((2 * x + Cent) \div (2 * Cent))
    ELSE -Cent * ((Cent - 2 * x) \div (2 * Cent))

-----------------------------------------------------------------------------
(***************************************************************************)
(* MarketMaker                                                             *)
(***************************************************************************)

\* The bid and the ask around the fair value, skewed against the inventory.
\* An ask that would not be above the bid is put one cent above it.
Quotes(position, fair_value, noise) ==
    LET skew == -position * SkewFactor
        bid  == RoundToCent(fair_value - HalfSpread + skew + noise)
        ask  == RoundToCent(fair_value + HalfSpread + skew + noise)
    IN  [side \in Side |->
            CASE side = "Buy" -> bid
              [] side = "Sell" /\ ask > bid -> ask
              [] side = "Sell" /\ ask =< bid -> bid + Cent]

\* Mutant: the cap on the long side is not looked at.
MayQuote_LongUncapped(position, side) == side = "Buy" \/ position > -MakerMaxPosition

\* The maker quotes a side while it is short of its position cap there.
MayQuote(position, side) ==
    IF side = "Buy" THEN position < MakerMaxPosition ELSE position > -MakerMaxPosition

-----------------------------------------------------------------------------
(***************************************************************************)
(* MomentumTrader and NoiseTrader                                          *)
(***************************************************************************)

\* Mutant: the window is allowed one print too many.
update_price_OffByOne(price_history, price) ==
    LET pushed == Append(price_history, price)
    IN  IF Len(pushed) > WindowSize + 1 THEN Tail(pushed) ELSE pushed

\* push_back, and pop_front once the window is exceeded.
update_price(price_history, price) ==
    LET pushed == Append(price_history, price)
    IN  IF Len(pushed) > WindowSize THEN Tail(pushed) ELSE pushed

\* WindowSize times the deviation of the last price from the average.
Deviation(price_history) ==
    WindowSize * Last(price_history) - FoldSeq(LAMBDA p, sum : p + sum, 0, price_history)

\* on_tick reaches the market order on this side.
Signals(price_history, last_trade_tick, tick, position, side) ==
    /\ Len(price_history) >= WindowSize
    /\ tick - last_trade_tick >= CooldownTicks
    /\ CASE side = "Buy" -> /\ Deviation(price_history) > WindowSize * Threshold
                            /\ position < TakerMaxPosition
         [] side = "Sell" -> /\ Deviation(price_history) < -WindowSize * Threshold
                             /\ position > -TakerMaxPosition

\* The price of a noise trader's limit order.
NoisePrice(reference_price, offset) ==
    LET price == RoundToCent(reference_price + offset)
    IN  IF price =< 0 THEN Cent ELSE price
=============================================================================
