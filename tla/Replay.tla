------------------------------- MODULE Replay -------------------------------
(***************************************************************************)
(* src/replay/ReplayHarness.cpp: ReplayHarness::replay feeds the rows of a *)
(* tape to the engine, through the risk check when it was given one.       *)
(*   risk     the RiskChecker; gated tells whether the harness has one     *)
(*   unread   how many rows the tape may still have                        *)
(*   ev       the event last read                                          *)
(*   result   the counters of ReplayResult, with the running totals of the *)
(*            trade callback; others counts the events that are neither    *)
(*            new orders nor cancels                                       *)
(*   id_map   tape order ID -> engine order ID                             *)
(*   done     whether replay has returned                                  *)
(*   origin   history: the tape ID each order of a book was submitted with *)
(* A row is a record of cells.  A cell of a number is << >> when it is     *)
(* empty and << n >> otherwise; numeric tells whether the cells convert.   *)
(* Latencies are left out.                                                 *)
(***************************************************************************)
EXTENDS MatchingEngine, RiskChecker

CONSTANTS
    Rows,            \* the rows a tape may consist of
    MaxRows,         \* bound on the length of the tape
    Limits,          \* the RiskLimits of the checker
    QuantityModulus  \* 2^32: the range of Quantity

VARIABLES risk, gated, unread, ev, result, id_map, done, origin

replayVars == << vars, risk, gated, unread, ev, result, id_map, done, origin >>

-----------------------------------------------------------------------------
(***************************************************************************)
(* TapeReader                                                              *)
(***************************************************************************)

parse_side(cell) == IF cell \in {"S", "s"} THEN "Sell" ELSE "Buy"

parse_type(cell) ==
    CASE cell \in {"M", "m"} -> "Market"
      [] cell \in {"I", "i"} -> "IOC"
      [] cell \notin {"M", "m", "I", "i"} -> "Limit"

Number(cell) == IF cell = << >> THEN 0 ELSE cell[1]

\* next does not skip the row.  split_csv yields no cell after the last comma,
\* so a row without an order ID has seven cells and is skipped.
Readable(row) == row.numeric /\ row.order_id # << >>

\* The event of a row.  Quantities are cut to the width of Quantity.
Event(row) ==
    [symbol |-> row.symbol, side |-> parse_side(row.side), type |-> parse_type(row.type),
     price |-> Number(row.price), quantity |-> Number(row.quantity) % QuantityModulus,
     action |-> IF row.action = "" THEN "N" ELSE row.action,
     order_id |-> Number(row.order_id)]

Events == {Event(row) : row \in {r \in Rows : Readable(r)}}

ASSUME ReplayAssumption ==
    /\ MaxRows \in Nat
    /\ MaxRows =< MaxOrders
    /\ Limits \in RiskLimits
    /\ QuantityModulus \in Nat \ {0}
    /\ \A e \in Events : /\ e.symbol \in Symbols /\ e.price \in Prices
                         /\ e.quantity \in Quantities /\ e.order_id \in Nat

NoEvent == [action |-> "none"]

\* The reader is asked for the next event.
Reading == ~done /\ op = NoOp

-----------------------------------------------------------------------------
(***************************************************************************)
(* replay                                                                  *)
(***************************************************************************)

ReplayInit ==
    /\ Init
    /\ risk = NewChecker(Limits)
    /\ gated \in BOOLEAN
    /\ unread = MaxRows
    /\ ev = NoEvent
    /\ result = [events_processed |-> 0, new_orders |-> 0, cancels |-> 0, others |-> 0,
                 risk_rejections |-> 0, trades |-> 0, volume |-> 0, notional |-> 0]
    /\ id_map = [id \in {} |-> 0]
    /\ done = FALSE
    /\ origin = [key \in {} |-> 0]

\* The reader passes over a row it cannot use.
SkipRow ==
    /\ Reading /\ unread > 0
    /\ \E row \in Rows : ~Readable(row)
    /\ unread' = unread - 1
    /\ UNCHANGED << vars, risk, gated, ev, result, id_map, done, origin >>

\* The next row holds event e; counter is the one that counts its kind.
Read(e, counter) ==
    /\ Reading /\ unread > 0
    /\ unread' = unread - 1
    /\ ev' = e
    /\ result' = [result EXCEPT !.events_processed = @ + 1, ![counter] = @ + 1]
    /\ UNCHANGED << gated, done >>

\* map[key] = value
Assigned(map, key, value) ==
    [k \in DOMAIN map \cup {key} |-> IF k = key THEN value ELSE map[k]]

\* Mutant: ID 0 is mapped as well.
Mapped_Zero(map, tape_id, id) == Assigned(map, tape_id, id)

\* if (ev.order_id != 0) id_map[ev.order_id] = assigned_id
Mapped(map, tape_id, id) == IF tape_id # 0 THEN Assigned(map, tape_id, id) ELSE map

\* Mutant: the order type is not passed on to check.
Reason_AsMarket(e) ==
    IF gated THEN check(risk, [e EXCEPT !.type = "Market"]) ELSE "None"

Reason(e) == IF gated THEN check(risk, e) ELSE "None"

Checked(e) ==
    risk' = IF gated THEN [risk EXCEPT !.stats = Recorded(@, Reason(e))] ELSE risk

\* An order that fails the check is counted and goes no further.
RiskRejects(e) ==
    /\ Reading /\ unread > 0
    /\ e.action \in {"N", "n"} /\ Reason(e) # "None"
    /\ unread' = unread - 1
    /\ ev' = e
    /\ result' = [result EXCEPT !.events_processed = @ + 1, !.new_orders = @ + 1,
                                !.risk_rejections = @ + 1]
    /\ Checked(e)
    /\ UNCHANGED << vars, gated, id_map, done, origin >>

\* submit_order is entered; an order the engine rejects is mapped to ID 0.
Submits(e) ==
    /\ e.action \in {"N", "n"} /\ Reason(e) = "None"
    /\ Read(e, "new_orders")
    /\ Checked(e)
    /\ \/ /\ AcceptOrder(e.symbol, e.side, e.type, e.price, e.quantity)
          /\ origin' = Assigned(origin,
                 << e.symbol, books'[e.symbol].next_order_id - 1 >>, e.order_id)
          /\ UNCHANGED id_map
       \/ /\ RejectOrder(e.symbol, e.type, e.price, e.quantity)
          /\ id_map' = Mapped(id_map, e.order_id, 0)
          /\ UNCHANGED origin

\* Mutant: the tape's ID is always taken for the engine's.
Target_TapeId(tape_id) == tape_id

\* The ID a cancel row is sent with.
Target(tape_id) == IF tape_id \in DOMAIN id_map THEN id_map[tape_id] ELSE tape_id

Cancels(e) ==
    /\ e.action \in {"C", "c"}
    /\ Read(e, "cancels")
    /\ CancelOrder(e.symbol, Target(e.order_id))
    /\ UNCHANGED << risk, id_map, origin >>

Ignores(e) ==
    /\ e.action \notin {"N", "n", "C", "c"}
    /\ Read(e, "others")
    /\ UNCHANGED << vars, risk, id_map, origin >>

Matching ==
    /\ MatchStep \/ MatchDone
    /\ UNCHANGED << risk, gated, unread, ev, result, id_map, done, origin >>

\* Mutant: the callback counts shares instead of trades.
TradeCallback_Shares ==
    /\ ReportTrade
    /\ LET trade == Head(op.trades)
       IN  result' = [result EXCEPT
              !.trades = @ + trade.quantity,
              !.volume = (@ + trade.quantity) % QuantityModulus,
              !.notional = @ + trade.price * trade.quantity]
    /\ UNCHANGED << risk, gated, unread, ev, id_map, done, origin >>

\* The callback adds up a trade, the volume in a Quantity.  It leaves the
\* risk checker alone.
TradeCallback ==
    /\ ReportTrade
    /\ LET trade == Head(op.trades)
       IN  result' = [result EXCEPT
              !.trades = @ + 1,
              !.volume = (@ + trade.quantity) % QuantityModulus,
              !.notional = @ + trade.price * trade.quantity]
    /\ UNCHANGED << risk, gated, unread, ev, id_map, done, origin >>

\* submit_order returns the ID.
Submitted ==
    /\ Finish
    /\ id_map' = Mapped(id_map, ev.order_id, Deref(books[op.symbol], op.order).id)
    /\ UNCHANGED << risk, gated, unread, ev, result, done, origin >>

\* Mutant: the loop is left only after an event.
EndOfTape_AfterEvent ==
    /\ Reading
    /\ result.events_processed > 0
    /\ done' = TRUE
    /\ UNCHANGED << vars, risk, gated, unread, ev, result, id_map, origin >>

\* The tape ends and replay returns its result.
EndOfTape ==
    /\ Reading
    /\ done' = TRUE
    /\ UNCHANGED << vars, risk, gated, unread, ev, result, id_map, origin >>

ReplayNext ==
    \/ SkipRow
    \/ \E e \in Events : RiskRejects(e) \/ Submits(e) \/ Cancels(e) \/ Ignores(e)
    \/ Matching \/ TradeCallback \/ Submitted
    \/ EndOfTape

ReplaySpec == ReplayInit /\ [][ReplayNext]_replayVars /\ WF_replayVars(ReplayNext)

-----------------------------------------------------------------------------
(***************************************************************************)
(* Properties.                                                             *)
(***************************************************************************)

\* The counters of ReplayResult, and others.
ReplayResult ==
    [events_processed : Nat, new_orders : Nat, cancels : Nat, others : Nat,
     risk_rejections : Nat, trades : Nat, volume : Nat, notional : Int]

\* The types of the harness's state.
ReplayTypeOK ==
    /\ unread \in 0..MaxRows
    /\ ev \in Events \cup {NoEvent}
    /\ result \in ReplayResult
    /\ \A id \in DOMAIN id_map : id \in Nat \ {0} /\ id_map[id] \in Nat
    /\ \A key \in DOMAIN origin : key[1] \in Symbols /\ origin[key] \in Nat

\* What the harness counts agrees with what engine and risk checker count,
\* whatever the tape: every row read is in one count, every new order was
\* stopped by the check or reached the engine, a cancel that took effect had a
\* row, and trades, notional and (up to the width of Quantity) volume are the
\* engine's.
ResultsReconcile ==
    /\ result.events_processed = result.new_orders + result.cancels + result.others
    /\ result.new_orders = result.risk_rejections + stats.total_orders
    /\ result.risk_rejections = risk.stats.total_rejections
    /\ gated => result.new_orders = risk.stats.total_checks
    /\ stats.total_cancels =< result.cancels
    /\ result.trades = stats.total_trades
    /\ result.volume = stats.total_volume % QuantityModulus
    /\ result.notional = stats.total_notional

\* Behind the risk check the engine's own validation never fires: whatever
\* check() passes, submit_order accepts, so risk_rejections counts every order
\* of the tape that did not get an ID.
CheckImpliesAccept == gated => stats.total_rejects = 0

\* The symbols for which a tape ID was submitted.
UsedFor(tape_id) == {key[1] : key \in {k \in DOMAIN origin : origin[k] = tape_id}}

\* A cancel row hits its order: if the row's ID was submitted for the row's
\* symbol and for no other, the order the cancel takes off the book is one
\* that was submitted under this ID.  The engine's IDs and the tape's overlap
\* and only id_map tells them apart.
CancelHitsNamed ==
    [][\A key \in DOMAIN origin :
          LET removed == /\ key[2] \in LiveIds(books[key[1]])
                         /\ key[2] \notin LiveIds(books'[key[1]])
              cancel  == result'.cancels > result.cancels
          IN  removed /\ cancel /\ UsedFor(ev'.order_id) = {ev'.symbol} =>
                  key[1] = ev'.symbol /\ origin[key] = ev'.order_id]_replayVars

\* Every replay ends, whatever is on the tape.
ReplayEnds == <>done
=============================================================================
