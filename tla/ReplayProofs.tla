---------------------------- MODULE ReplayProofs ----------------------------
(***************************************************************************)
(* The replay of every tape: what the harness counts is what engine and    *)
(* risk checker count, behind the check the engine rejects nothing, and a  *)
(* cancel row hits the order it names.                                     *)
(***************************************************************************)
EXTENDS Replay, EngineLemmas

(***************************************************************************)
(* The inductive invariant.                                                *)
(***************************************************************************)

\* The checker of a replay: it is never told of a fill.
Checkers ==
    [limits : RiskLimits, kill_switch : BOOLEAN, positions : {[symbol \in {} |-> 0]},
     exposure : {0}, stats : RiskStats]

HarnessInv ==
    /\ unread \in 0..MaxRows
    /\ ev \in Events \cup {NoEvent}
    /\ op # NoOp => ev \in Events
    /\ result \in ReplayResult
    /\ gated \in BOOLEAN
    /\ risk \in Checkers

\* Every ID a book has handed out has an origin.
OriginInv ==
    /\ \A key \in DOMAIN origin :
          /\ origin[key] \in Nat
          /\ \E symbol \in DOMAIN books : \E id \in 1..(books[symbol].next_order_id - 1) :
                key = << symbol, id >>
    /\ \A symbol \in DOMAIN books : \A id \in LiveIds(books[symbol]) :
          << symbol, id >> \in DOMAIN origin

\* A tape ID is mapped to an order that was submitted under it or to 0, and an
\* ID that was submitted is mapped, at the latest when submit_order returns.
MapInv ==
    /\ \A tape_id \in DOMAIN id_map :
          /\ tape_id \in Nat \ {0}
          /\ id_map[tape_id] \in Nat
          /\ id_map[tape_id] # 0 =>
                \E symbol : LET key == << symbol, id_map[tape_id] >>
                            IN  key \in DOMAIN origin /\ origin[key] = tape_id
    /\ \A key \in DOMAIN origin :
          \/ origin[key] \in DOMAIN id_map \cup {0}
          \/ op # NoOp /\ origin[key] = ev.order_id

\* The order of the call in progress is the one of the last event.
CallInv ==
    op # NoOp =>
        \E id \in LiveIds(books[op.symbol]) :
           /\ PtrOf(books[op.symbol], id) = op.order
           /\ origin[<< op.symbol, id >>] = ev.order_id

NamesInv == OriginInv /\ MapInv /\ CallInv

ReplayInv == HarnessInv /\ NamesInv /\ ResultsReconcile /\ CheckImpliesAccept

-----------------------------------------------------------------------------

\* The types of an event's fields.
LEMMA EventFields ==
  ASSUME NEW e \in Events
  PROVE  /\ e.symbol \in Symbols /\ e.side \in Side /\ e.type \in OrderType
         /\ e.price \in Prices /\ e.quantity \in Quantities /\ e.order_id \in Nat
<1>1. e.side \in Side /\ e.type \in OrderType
  <2>1. PICK row \in Rows : e = Event(row)
    BY DEF Events
  <2>2. e.side = parse_side(row.side) /\ e.type = parse_type(row.type)
    BY Zenon, <2>1 DEF Event
  <2> QED BY <2>2 DEF parse_side, parse_type, Side, OrderType
<1> QED
  BY <1>1, ReplayAssumption

\* Whatever check passes, submit_order accepts.
LEMMA CheckedIsValid ==
  ASSUME NEW r, NEW order, check(r, order) = "None"
  PROVE  IsValid(order.type, order.price, order.quantity)
<1>1. ~Fails(r, order, "InvalidQuantity") /\ ~Fails(r, order, "InvalidPrice")
  BY CheckResult DEF RejectReason
<1>2. order.quantity # 0
  BY <1>1 DEF Fails
<1>3. ~(order.type = "Limit" /\ order.price =< 0)
  BY <1>1 DEF Fails
<1> QED
  BY <1>2, <1>3 DEF IsValid

\* Sums in a Quantity wrap the same way whether the parts are cut or not.
LEMMA CutSum ==
  ASSUME NEW m \in Nat \ {0}, NEW a \in Nat, NEW q \in Nat
  PROVE  ((a % m) + q) % m = (a + q) % m
<1>1. ASSUME NEW x \in Nat
      PROVE  x \div m \in Int /\ x % m \in 0..(m - 1) /\ x = m * (x \div m) + (x % m)
  OBVIOUS
<1>2. ASSUME NEW k \in Int, NEW r \in 0..(m - 1), NEW s \in 0..(m - 1), m * k = r - s
      PROVE  r = s
  <2>1. CASE k = 0
    BY <1>2, <2>1
  <2>2. CASE k >= 1
    <3>1. m * k >= m
      BY <2>2
    <3> QED BY <1>2, <3>1
  <2>3. CASE k =< -1
    <3>1. m * k =< -m
      BY <2>3
    <3> QED BY <1>2, <3>1
  <2> QED BY <2>1, <2>2, <2>3
<1> DEFINE b == a % m
           i == a \div m
           j == (b + q) \div m
           k == (a + q) \div m
<1>3. b \in Nat /\ b + q \in Nat /\ a + q \in Nat
  BY <1>1
<1>4. /\ i \in Int /\ j \in Int /\ k \in Int
      /\ a = m * i + b
      /\ b + q = m * j + ((b + q) % m)
      /\ a + q = m * k + ((a + q) % m)
      /\ (b + q) % m \in 0..(m - 1) /\ (a + q) % m \in 0..(m - 1)
  BY <1>1, <1>3
<1> HIDE DEF b, i, j, k
<1>5. m * (k - i - j) = ((b + q) % m) - ((a + q) % m)
  <2>1. m * (k - i - j) = m * k - m * i - m * j
    BY <1>4
  <2>2. m * k \in Int /\ m * i \in Int /\ m * j \in Int
    BY <1>4
  <2> QED BY <1>3, <1>4, <2>1, <2>2
<1>6. (b + q) % m = (a + q) % m
  <2>1. k - i - j \in Int
    BY <1>4
  <2> QED BY <1>2, <1>4, <1>5, <2>1, Zenon
<1> QED
  BY <1>6 DEF b

-----------------------------------------------------------------------------
(***************************************************************************)
(* The counters.                                                           *)
(***************************************************************************)

\* The state of the harness is typed and its counters are right.
CountInv == HarnessInv /\ ResultsReconcile /\ CheckImpliesAccept

\* A step that counts nothing.
LEMMA CountsSame ==
  ASSUME CountInv, unread' \in 0..MaxRows, UNCHANGED << risk, gated, ev, result >>,
         op' = NoOp \/ op # NoOp, stats' = stats
  PROVE  CountInv'
  BY DEF CountInv, HarnessInv, ResultsReconcile, CheckImpliesAccept

\* The row of an event is taken off the tape.
LEMMA RowRead ==
  ASSUME HarnessInv, unread > 0, unread' = unread - 1
  PROVE  unread' \in 0..MaxRows
  BY ReplayAssumption DEF HarnessInv

\* A row with another action is only counted.
LEMMA IgnoresCount ==
  ASSUME CountInv, NEW e \in Events, Ignores(e)
  PROVE  CountInv'
<1>1. /\ result' = [result EXCEPT !.events_processed = result.events_processed + 1,
                                  !.others = result.others + 1]
      /\ stats' = stats /\ risk' = risk /\ gated' = gated /\ ev' = e
      /\ unread > 0 /\ unread' = unread - 1
  BY Zenon DEF Ignores, Read, vars
<1>2. result \in ReplayResult
  BY DEF CountInv, HarnessInv
<1>3. /\ result' \in ReplayResult
      /\ result'.events_processed = result.events_processed + 1
      /\ result'.others = result.others + 1
      /\ result'.new_orders = result.new_orders /\ result'.cancels = result.cancels
      /\ result'.risk_rejections = result.risk_rejections /\ result'.trades = result.trades
      /\ result'.volume = result.volume /\ result'.notional = result.notional
  <2>1. result.events_processed + 1 \in Nat /\ result.others + 1 \in Nat
    BY <1>2 DEF ReplayResult
  <2>2. result' \in ReplayResult
    BY <1>1, <1>2, <2>1, Zenon DEF ReplayResult
  <2>3. /\ result'.events_processed = result.events_processed + 1
        /\ result'.others = result.others + 1
        /\ result'.new_orders = result.new_orders /\ result'.cancels = result.cancels
        /\ result'.risk_rejections = result.risk_rejections /\ result'.trades = result.trades
        /\ result'.volume = result.volume /\ result'.notional = result.notional
    BY <1>1, <1>2, Zenon DEF ReplayResult
  <2> QED BY <2>2, <2>3
<1>4. HarnessInv'
  BY <1>1, <1>3, RowRead DEF CountInv, HarnessInv
<1>5. ResultsReconcile' /\ CheckImpliesAccept'
  <2>1. /\ result.events_processed \in Nat /\ result.new_orders \in Nat
        /\ result.cancels \in Nat /\ result.others \in Nat
    BY <1>2 DEF ReplayResult
  <2> QED BY <1>1, <1>3, <2>1 DEF CountInv, ResultsReconcile, CheckImpliesAccept
<1> QED
  BY <1>4, <1>5 DEF CountInv

\* A cancel row is counted, and the engine counts no more cancels than rows.
LEMMA CancelsCount ==
  ASSUME EngineInv, CountInv, NEW e \in Events, Cancels(e)
  PROVE  CountInv'
<1>1. /\ result' = [result EXCEPT !.events_processed = result.events_processed + 1,
                                  !.cancels = result.cancels + 1]
      /\ risk' = risk /\ gated' = gated /\ ev' = e
      /\ unread > 0 /\ unread' = unread - 1
      /\ CancelOrder(e.symbol, Target(e.order_id))
  BY Zenon DEF Cancels, Read
<1>2. result \in ReplayResult /\ stats \in EngineStats
  BY DEF CountInv, HarnessInv, EngineInv, TypeOK
<1>3. /\ result' \in ReplayResult
      /\ result'.events_processed = result.events_processed + 1
      /\ result'.cancels = result.cancels + 1
      /\ result'.new_orders = result.new_orders /\ result'.others = result.others
      /\ result'.risk_rejections = result.risk_rejections /\ result'.trades = result.trades
      /\ result'.volume = result.volume /\ result'.notional = result.notional
  <2>1. result.events_processed + 1 \in Nat /\ result.cancels + 1 \in Nat
    BY <1>2 DEF ReplayResult
  <2>2. result' \in ReplayResult
    BY <1>1, <1>2, <2>1, Zenon DEF ReplayResult
  <2>3. /\ result'.events_processed = result.events_processed + 1
        /\ result'.cancels = result.cancels + 1
        /\ result'.new_orders = result.new_orders /\ result'.others = result.others
        /\ result'.risk_rejections = result.risk_rejections /\ result'.trades = result.trades
        /\ result'.volume = result.volume /\ result'.notional = result.notional
    BY <1>1, <1>2, Zenon DEF ReplayResult
  <2> QED BY <2>2, <2>3
<1>4. HarnessInv'
  BY <1>1, <1>3, RowRead DEF CountInv, HarnessInv
<1>5. /\ stats'.total_orders = stats.total_orders /\ stats'.total_rejects = stats.total_rejects
      /\ stats'.total_trades = stats.total_trades /\ stats'.total_volume = stats.total_volume
      /\ stats'.total_notional = stats.total_notional
      /\ stats'.total_cancels \in {stats.total_cancels, stats.total_cancels + 1}
  <2>1. stats' = stats \/ stats' = [stats EXCEPT !.total_cancels = stats.total_cancels + 1]
    BY <1>1 DEF CancelOrder
  <2> QED BY <1>2, <2>1, Zenon DEF EngineStats
<1>6. ResultsReconcile' /\ CheckImpliesAccept'
  <2>1. /\ result.events_processed \in Nat /\ result.new_orders \in Nat
        /\ result.cancels \in Nat /\ result.others \in Nat /\ stats.total_cancels \in Nat
    BY <1>2 DEF ReplayResult, EngineStats
  <2> QED BY <1>1, <1>3, <1>5, <2>1 DEF CountInv, ResultsReconcile, CheckImpliesAccept
<1> QED
  BY <1>4, <1>6 DEF CountInv

\* The checker after a check: one more check, and one more rejection if there
\* was a reason.
LEMMA CheckedCounts ==
  ASSUME HarnessInv, NEW e, Checked(e)
  PROVE  /\ Reason(e) \in RejectReason
         /\ risk' \in Checkers
         /\ gated => risk'.stats.total_checks = risk.stats.total_checks + 1
         /\ risk'.stats.total_rejections =
               risk.stats.total_rejections + (IF Reason(e) = "None" THEN 0 ELSE 1)
<1>1. Reason(e) \in RejectReason
  BY CheckResult DEF Reason, RejectReason
<1>2. risk \in Checkers /\ risk.stats \in RiskStats
  BY DEF HarnessInv, Checkers
<1>3. CASE ~gated
  <2>1. risk' = risk /\ Reason(e) = "None"
    BY <1>3 DEF Checked, Reason
  <2>2. risk.stats.total_rejections \in Nat
    BY <1>2 DEF RiskStats
  <2> QED BY <1>1, <1>2, <1>3, <2>1, <2>2
<1>4. CASE gated
  <2> DEFINE s == Recorded(risk.stats, Reason(e))
  <2>1. /\ s \in RiskStats /\ s.total_checks = risk.stats.total_checks + 1
        /\ s.total_rejections =
              risk.stats.total_rejections + (IF Reason(e) = "None" THEN 0 ELSE 1)
    BY <1>1, <1>2, RecordedType
  <2>2. risk' = [risk EXCEPT !.stats = s]
    BY <1>4 DEF Checked
  <2> HIDE DEF s
  <2>3. risk' \in Checkers /\ risk'.stats = s
    BY <1>2, <2>1, <2>2 DEF Checkers
  <2> QED BY <1>1, <2>1, <2>3
<1> QED
  BY <1>3, <1>4 DEF HarnessInv

\* An order that fails the check is counted as new and as rejected.
LEMMA RiskRejectsCount ==
  ASSUME EngineInv, CountInv, NEW e \in Events, RiskRejects(e)
  PROVE  CountInv'
<1>1. /\ result' = [result EXCEPT !.events_processed = result.events_processed + 1,
                                  !.new_orders = result.new_orders + 1,
                                  !.risk_rejections = result.risk_rejections + 1]
      /\ stats' = stats /\ gated' = gated /\ ev' = e
      /\ unread > 0 /\ unread' = unread - 1
      /\ Checked(e) /\ Reason(e) # "None"
  BY DEF RiskRejects, vars
<1>2. result \in ReplayResult /\ stats \in EngineStats
  BY DEF CountInv, HarnessInv, EngineInv, TypeOK
<1>3. /\ result' \in ReplayResult
      /\ result'.events_processed = result.events_processed + 1
      /\ result'.new_orders = result.new_orders + 1
      /\ result'.risk_rejections = result.risk_rejections + 1
      /\ result'.cancels = result.cancels /\ result'.others = result.others
      /\ result'.trades = result.trades
      /\ result'.volume = result.volume /\ result'.notional = result.notional
  <2>1. /\ result.events_processed + 1 \in Nat /\ result.new_orders + 1 \in Nat
        /\ result.risk_rejections + 1 \in Nat
    BY <1>2 DEF ReplayResult
  <2>2. result' \in ReplayResult
    BY <1>1, <1>2, <2>1, Zenon DEF ReplayResult
  <2>3. /\ result'.events_processed = result.events_processed + 1
        /\ result'.new_orders = result.new_orders + 1
        /\ result'.risk_rejections = result.risk_rejections + 1
        /\ result'.cancels = result.cancels /\ result'.others = result.others
        /\ result'.trades = result.trades
        /\ result'.volume = result.volume /\ result'.notional = result.notional
    BY <1>1, <1>2, Zenon DEF ReplayResult
  <2> QED BY <2>2, <2>3
<1>4. /\ risk' \in Checkers
      /\ gated => risk'.stats.total_checks = risk.stats.total_checks + 1
      /\ risk'.stats.total_rejections = risk.stats.total_rejections + 1
  BY <1>1, CheckedCounts DEF CountInv
<1>5. HarnessInv'
  <2>1. op' = op
    BY DEF RiskRejects, vars
  <2> QED BY <1>1, <1>3, <1>4, <2>1, RowRead DEF CountInv, HarnessInv
<1>6. ResultsReconcile' /\ CheckImpliesAccept'
  <2>1. /\ result.events_processed \in Nat /\ result.new_orders \in Nat
        /\ result.cancels \in Nat /\ result.others \in Nat /\ result.risk_rejections \in Nat
        /\ stats.total_orders \in Nat
    BY <1>2 DEF ReplayResult, EngineStats
  <2> QED BY <1>1, <1>3, <1>4, <2>1 DEF CountInv, ResultsReconcile, CheckImpliesAccept
<1> QED
  BY <1>5, <1>6 DEF CountInv

\* An order that passes the check is counted as new and by the engine, which
\* rejects it only if nothing was checked.
LEMMA SubmitsCount ==
  ASSUME EngineInv, CountInv, NEW e \in Events, Submits(e)
  PROVE  CountInv'
<1>1. /\ result' = [result EXCEPT !.events_processed = result.events_processed + 1,
                                  !.new_orders = result.new_orders + 1]
      /\ gated' = gated /\ ev' = e
      /\ unread > 0 /\ unread' = unread - 1
      /\ Checked(e) /\ Reason(e) = "None"
  BY Zenon DEF Submits, Read
<1>2. result \in ReplayResult /\ stats \in EngineStats
  BY DEF CountInv, HarnessInv, EngineInv, TypeOK
<1>3. /\ result' \in ReplayResult
      /\ result'.events_processed = result.events_processed + 1
      /\ result'.new_orders = result.new_orders + 1
      /\ result'.cancels = result.cancels /\ result'.others = result.others
      /\ result'.risk_rejections = result.risk_rejections /\ result'.trades = result.trades
      /\ result'.volume = result.volume /\ result'.notional = result.notional
  <2>1. result.events_processed + 1 \in Nat /\ result.new_orders + 1 \in Nat
    BY <1>2 DEF ReplayResult
  <2>2. result' \in ReplayResult
    BY <1>1, <1>2, <2>1, Zenon DEF ReplayResult
  <2>3. /\ result'.events_processed = result.events_processed + 1
        /\ result'.new_orders = result.new_orders + 1
        /\ result'.cancels = result.cancels /\ result'.others = result.others
        /\ result'.risk_rejections = result.risk_rejections /\ result'.trades = result.trades
        /\ result'.volume = result.volume /\ result'.notional = result.notional
    BY <1>1, <1>2, Zenon DEF ReplayResult
  <2> QED BY <2>2, <2>3
<1>4. /\ risk' \in Checkers
      /\ gated => risk'.stats.total_checks = risk.stats.total_checks + 1
      /\ risk'.stats.total_rejections = risk.stats.total_rejections
  <2>1. risk.stats.total_rejections \in Nat
    BY DEF CountInv, HarnessInv, Checkers, RiskStats
  <2> QED BY <1>1, <2>1, CheckedCounts DEF CountInv
<1>5. HarnessInv'
  BY <1>1, <1>3, <1>4, RowRead DEF CountInv, HarnessInv
<1>6. /\ stats'.total_orders = stats.total_orders + 1
      /\ gated => stats'.total_rejects = stats.total_rejects
      /\ stats'.total_cancels = stats.total_cancels
      /\ stats'.total_trades = stats.total_trades /\ stats'.total_volume = stats.total_volume
      /\ stats'.total_notional = stats.total_notional
  <2>1. CASE AcceptOrder(e.symbol, e.side, e.type, e.price, e.quantity)
    <3>1. stats' = [stats EXCEPT !.total_orders = stats.total_orders + 1]
      BY <2>1 DEF AcceptOrder
    <3> QED BY <1>2, <3>1, Zenon DEF EngineStats
  <2>2. CASE RejectOrder(e.symbol, e.type, e.price, e.quantity)
    <3>1. ~gated
      <4>1. gated => IsValid(e.type, e.price, e.quantity)
        BY <1>1, CheckedIsValid DEF Reason
      <4> QED BY <2>2, <4>1 DEF RejectOrder
    <3>2. stats' = [stats EXCEPT !.total_orders = stats.total_orders + 1,
                                 !.total_rejects = stats.total_rejects + 1]
      BY <2>2 DEF RejectOrder
    <3> QED BY <1>2, <3>1, <3>2, Zenon DEF EngineStats
  <2> QED BY <2>1, <2>2 DEF Submits
<1>7. ResultsReconcile' /\ CheckImpliesAccept'
  <2>1. /\ result.events_processed \in Nat /\ result.new_orders \in Nat
        /\ result.cancels \in Nat /\ result.others \in Nat /\ result.risk_rejections \in Nat
        /\ stats.total_orders \in Nat
    BY <1>2 DEF ReplayResult, EngineStats
  <2> QED BY <1>1, <1>3, <1>4, <1>6, <2>1 DEF CountInv, ResultsReconcile, CheckImpliesAccept
<1> QED
  BY <1>5, <1>7 DEF CountInv

\* The callback counts a trade when the engine does.
LEMMA CallbackCount ==
  ASSUME EngineInv, CountInv, TradeCallback
  PROVE  CountInv'
<1>t. PICK t : t = Head(op.trades)
  OBVIOUS
<1> DEFINE n == t.price * t.quantity
           v == (result.volume + t.quantity) % QuantityModulus
<1>1. /\ result' = [result EXCEPT !.trades = result.trades + 1, !.volume = v,
                                  !.notional = result.notional + n]
      /\ risk' = risk /\ gated' = gated /\ ev' = ev /\ unread' = unread /\ ReportTrade
  BY <1>t DEF TradeCallback
<1>2. result \in ReplayResult /\ stats \in EngineStats
  BY DEF CountInv, HarnessInv, EngineInv, TypeOK
<1>3. /\ t \in Trade
      /\ stats' = [stats EXCEPT !.total_trades = stats.total_trades + 1,
                                !.total_volume = stats.total_volume + t.quantity,
                                !.total_notional = stats.total_notional + n]
  BY <1>t, <1>1, ReportEffect
<1>4. t.quantity \in Nat /\ n \in Int
  <2>1. t.price \in Int /\ t.quantity \in Nat
    BY <1>3 DEF Trade
  <2> QED BY <2>1
<1>5. v \in Nat /\ v = (stats.total_volume + t.quantity) % QuantityModulus
  <2>1. /\ QuantityModulus \in Nat \ {0} /\ stats.total_volume \in Nat
        /\ result.volume = stats.total_volume % QuantityModulus
    BY <1>2, ReplayAssumption DEF EngineStats, CountInv, ResultsReconcile
  <2>2. v = (stats.total_volume + t.quantity) % QuantityModulus
    BY Zenon, <1>4, <2>1, CutSum
  <2>3. stats.total_volume + t.quantity \in Nat
    BY <1>4, <2>1
  <2> HIDE DEF v
  <2> QED BY <2>1, <2>2, <2>3
<1> HIDE DEF n, v
<1>6. /\ result' \in ReplayResult
      /\ result'.trades = result.trades + 1 /\ result'.volume = v
      /\ result'.notional = result.notional + n
      /\ result'.events_processed = result.events_processed
      /\ result'.new_orders = result.new_orders
      /\ result'.cancels = result.cancels /\ result'.others = result.others
      /\ result'.risk_rejections = result.risk_rejections
  <2>1. result.trades + 1 \in Nat /\ result.notional + n \in Int
    BY <1>2, <1>4 DEF ReplayResult
  <2>2. result' \in ReplayResult
    BY <1>1, <1>2, <1>5, <2>1, Zenon DEF ReplayResult
  <2>3. /\ result'.trades = result.trades + 1 /\ result'.volume = v
        /\ result'.notional = result.notional + n
        /\ result'.events_processed = result.events_processed
        /\ result'.new_orders = result.new_orders
        /\ result'.cancels = result.cancels /\ result'.others = result.others
        /\ result'.risk_rejections = result.risk_rejections
    BY <1>1, <1>2, Zenon DEF ReplayResult
  <2> QED BY <2>2, <2>3
<1>7. /\ stats'.total_trades = stats.total_trades + 1
      /\ stats'.total_volume = stats.total_volume + t.quantity
      /\ stats'.total_notional = stats.total_notional + n
      /\ stats'.total_orders = stats.total_orders /\ stats'.total_rejects = stats.total_rejects
      /\ stats'.total_cancels = stats.total_cancels
  BY <1>2, <1>3, Zenon DEF EngineStats
<1>8. HarnessInv'
  <2>1. op # NoOp
    BY <1>1 DEF ReportTrade, NoOp
  <2> QED BY <1>1, <1>6, <2>1 DEF CountInv, HarnessInv
<1>9. ResultsReconcile' /\ CheckImpliesAccept'
  <2>1. result'.volume = stats'.total_volume % QuantityModulus
    BY <1>5, <1>6, <1>7
  <2>2. result'.trades = stats'.total_trades /\ result'.notional = stats'.total_notional
    BY <1>6, <1>7 DEF CountInv, ResultsReconcile
  <2> QED BY <1>1, <1>6, <1>7, <2>1, <2>2 DEF CountInv, ResultsReconcile, CheckImpliesAccept
<1> QED
  BY <1>8, <1>9 DEF CountInv

\* Every step keeps the counters right.
LEMMA CountStep ==
  ASSUME EngineInv, CountInv, [ReplayNext]_replayVars
  PROVE  CountInv'
<1>1. CASE SkipRow
  <2>1. unread' \in 0..MaxRows
    BY <1>1, RowRead DEF SkipRow, CountInv
  <2> QED BY <1>1, <2>1, CountsSame DEF SkipRow, vars
<1>2. ASSUME NEW e \in Events, RiskRejects(e) \/ Submits(e) \/ Cancels(e) \/ Ignores(e)
      PROVE  CountInv'
  BY <1>2, RiskRejectsCount, SubmitsCount, CancelsCount, IgnoresCount
<1>3. unread \in 0..MaxRows
  BY DEF CountInv, HarnessInv
<1>4. CASE Matching \/ Submitted
  <2>1. stats' = stats /\ op # NoOp /\ UNCHANGED << risk, gated, unread, ev, result >>
    BY <1>4 DEF Matching, Submitted, MatchStep, MatchDone, Finish, NoOp
  <2> QED BY <1>3, <2>1, CountsSame
<1>5. CASE TradeCallback
  BY <1>5, CallbackCount
<1>6. CASE EndOfTape \/ UNCHANGED replayVars
  <2>1. stats' = stats /\ op' = op /\ UNCHANGED << risk, gated, unread, ev, result >>
    BY <1>6 DEF EndOfTape, replayVars, vars
  <2> QED BY <1>3, <2>1, CountsSame
<1> QED
  BY <1>1, <1>2, <1>4, <1>5, <1>6 DEF ReplayNext

-----------------------------------------------------------------------------
(***************************************************************************)
(* Which order a tape ID stands for.                                       *)
(***************************************************************************)

\* A step after which no book has handed out more IDs or holds other orders.
LEMMA OriginKept ==
  ASSUME OriginInv, origin' = origin, DOMAIN books \subseteq DOMAIN books',
         \A s \in DOMAIN books : /\ books'[s].next_order_id = books[s].next_order_id
                                 /\ LiveIds(books'[s]) \subseteq LiveIds(books[s]),
         \A s \in DOMAIN books' \ DOMAIN books : LiveIds(books'[s]) = {}
  PROVE  OriginInv'
<1>1. ASSUME NEW key \in DOMAIN origin
      PROVE  /\ origin[key] \in Nat
             /\ \E s \in DOMAIN books' : \E id \in 1..(books'[s].next_order_id - 1) :
                   key = << s, id >>
  <2>1. PICK s \in DOMAIN books : \E id \in 1..(books[s].next_order_id - 1) : key = << s, id >>
    BY <1>1 DEF OriginInv
  <2>2. s \in DOMAIN books' /\ books'[s].next_order_id = books[s].next_order_id
    BY <2>1
  <2>3. origin[key] \in Nat
    BY <1>1 DEF OriginInv
  <2> QED BY <2>1, <2>2, <2>3, Zenon
<1>2. ASSUME NEW s \in DOMAIN books', NEW id \in LiveIds(books'[s])
      PROVE  << s, id >> \in DOMAIN origin
  <2>1. s \in DOMAIN books /\ id \in LiveIds(books[s])
    BY <1>2
  <2> QED BY <2>1 DEF OriginInv
<1> QED
  BY <1>1, <1>2 DEF OriginInv

\* A step of the harness alone, or one that leaves both books and maps.
LEMMA NamesSame ==
  ASSUME NamesInv, UNCHANGED << books, op, id_map, origin >>, op = NoOp \/ ev' = ev
  PROVE  NamesInv'
<1>1. OriginInv'
  BY DEF NamesInv, OriginInv
<1>2. MapInv'
  BY Zenon DEF NamesInv, MapInv
<1>3. CallInv'
  BY DEF NamesInv, CallInv
<1> QED
  BY <1>1, <1>2, <1>3 DEF NamesInv

\* A step of the call in progress.
LEMMA NamesInCall ==
  ASSUME EngineInv, NamesInv, MatchStep \/ MatchDone \/ ReportTrade,
         UNCHANGED << ev, id_map, origin >>
  PROVE  NamesInv'
<1>1. SameIncoming
  BY MatchStepInv, MatchDoneInv, ReportTradeInv, Zenon
<1>2. DOMAIN books' = DOMAIN books /\ \A s \in DOMAIN books : Kept(books[s], books'[s])
  BY StepKeeps, Zenon DEF Proceed
<1>3. OriginInv'
  BY <1>2, OriginKept DEF NamesInv, Kept
<1>4. MapInv'
  BY Zenon, <1>1 DEF NamesInv, MapInv, SameIncoming
<1>5. CallInv'
  <2>1. PICK id \in LiveIds(books[op.symbol]) :
           PtrOf(books[op.symbol], id) = op.order /\ origin[<< op.symbol, id >>] = ev.order_id
    BY <1>1 DEF NamesInv, CallInv, SameIncoming
  <2>2. /\ op'.symbol = op.symbol /\ id \in LiveIds(books'[op.symbol])
        /\ PtrOf(books'[op.symbol], id) = op'.order
    BY <1>1, <2>1, Zenon DEF SameIncoming
  <2> QED BY <2>1, <2>2, Zenon DEF CallInv
<1> QED
  BY <1>3, <1>4, <1>5 DEF NamesInv

\* The call returns: its order's ID is what the tape's ID is mapped to.
LEMMA NamesSubmitted ==
  ASSUME EngineInv, NamesInv, HarnessInv, Submitted
  PROVE  NamesInv'
<1>1. /\ Finish /\ op # NoOp /\ ev' = ev /\ origin' = origin
      /\ id_map' = Mapped(id_map, ev.order_id, Deref(books[op.symbol], op.order).id)
  BY DEF Submitted, Finish, NoOp
<1>2. op' = NoOp /\ op.symbol \in DOMAIN books /\ BookInv(books[op.symbol])
  BY <1>1, FinishEffect, Zenon
<1>3. DOMAIN books' = DOMAIN books /\ \A s \in DOMAIN books : Kept(books[s], books'[s])
  BY <1>1, StepKeeps, Zenon DEF Proceed
<1>4. PICK id \in LiveIds(books[op.symbol]) :
         PtrOf(books[op.symbol], id) = op.order /\ origin[<< op.symbol, id >>] = ev.order_id
  BY <1>1 DEF NamesInv, CallInv
<1>5. Deref(books[op.symbol], op.order).id = id
  BY <1>2, <1>4, LiveSlots
<1>6. << op.symbol, id >> \in DOMAIN origin
  BY <1>2, <1>4 DEF NamesInv, OriginInv
<1>7. ev.order_id \in Nat
  BY <1>1, EventFields DEF HarnessInv
<1>8. id \in Nat
  <2>1. PICK s \in DOMAIN books : \E i \in 1..(books[s].next_order_id - 1) :
           << op.symbol, id >> = << s, i >>
    BY <1>6 DEF NamesInv, OriginInv
  <2> QED BY <2>1
<1>9. OriginInv'
  BY <1>1, <1>3, OriginKept DEF NamesInv, Kept
<1>10. /\ \A t \in DOMAIN id_map' : id_map'[t] = (IF t = ev.order_id THEN id ELSE id_map[t])
       /\ \A t \in DOMAIN id_map' : t \in DOMAIN id_map \/ (t = ev.order_id /\ t # 0)
       /\ DOMAIN id_map \subseteq DOMAIN id_map'
       /\ ev.order_id \in DOMAIN id_map' \cup {0}
  <2>1. CASE ev.order_id = 0
    <3>1. id_map' = id_map
      BY <1>1, <2>1 DEF Mapped
    <3>2. ev.order_id \notin DOMAIN id_map
      BY <2>1 DEF NamesInv, MapInv
    <3> QED BY <2>1, <3>1, <3>2
  <2>2. CASE ev.order_id # 0
    <3>1. id_map' = [t \in DOMAIN id_map \cup {ev.order_id} |->
                        IF t = ev.order_id THEN id ELSE id_map[t]]
      BY <1>1, <1>5, <2>2 DEF Mapped, Assigned
    <3> QED BY <2>2, <3>1
  <2> QED BY <2>1, <2>2
<1>11. MapInv'
  <2>1. ASSUME NEW t \in DOMAIN id_map'
        PROVE  /\ t \in Nat \ {0} /\ id_map'[t] \in Nat
               /\ id_map'[t] # 0 =>
                     \E s : << s, id_map'[t] >> \in DOMAIN origin
                            /\ origin[<< s, id_map'[t] >>] = t
    <3>1. CASE t = ev.order_id
      <4>1. id_map'[t] = id /\ t \in Nat \ {0}
        BY <1>7, <1>10, <2>1, <3>1 DEF NamesInv, MapInv
      <4> QED BY <1>4, <1>6, <1>8, <3>1, <4>1, Zenon
    <3>2. CASE t # ev.order_id
      <4>1. id_map'[t] = id_map[t] /\ t \in DOMAIN id_map
        BY <1>10, <2>1, <3>2
      <4> QED BY <4>1, Zenon DEF NamesInv, MapInv
    <3> QED BY Zenon, <3>1, <3>2
  <2>2. \A key \in DOMAIN origin : origin[key] \in DOMAIN id_map' \cup {0}
    BY <1>10 DEF NamesInv, MapInv
  <2> QED BY <1>1, <2>1, <2>2, Zenon DEF MapInv
<1>12. CallInv'
  BY <1>2 DEF CallInv
<1> QED
  BY <1>9, <1>11, <1>12 DEF NamesInv

\* An order the engine rejects leaves its tape ID mapped to 0.
LEMMA NamesRejected ==
  ASSUME NamesInv, NEW e \in Events, op = NoOp, op' = op, origin' = origin,
         books' = get_order_book(e.symbol), id_map' = Mapped(id_map, e.order_id, 0)
  PROVE  NamesInv'
<1>1. e.order_id \in Nat
  BY EventFields
<1>2. OriginInv'
  <2>1. /\ DOMAIN books' = DOMAIN books \cup {e.symbol}
        /\ \A s \in DOMAIN books : books'[s] = books[s]
        /\ e.symbol \notin DOMAIN books => LiveIds(books'[e.symbol]) = {}
    BY Zenon, OpenEffect
  <2> QED BY <2>1, OriginKept DEF NamesInv
<1>3. /\ \A t \in DOMAIN id_map' :
            \/ t \in Nat \ {0} /\ id_map'[t] = 0
            \/ t \in DOMAIN id_map /\ id_map'[t] = id_map[t]
      /\ DOMAIN id_map \subseteq DOMAIN id_map'
  <2>1. CASE e.order_id = 0
    BY <2>1 DEF Mapped
  <2>2. CASE e.order_id # 0
    <3>1. id_map' = [t \in DOMAIN id_map \cup {e.order_id} |->
                        IF t = e.order_id THEN 0 ELSE id_map[t]]
      BY <2>2 DEF Mapped, Assigned
    <3> QED BY <1>1, <2>2, <3>1
  <2> QED BY <2>1, <2>2
<1>4. MapInv'
  <2>1. ASSUME NEW t \in DOMAIN id_map'
        PROVE  /\ t \in Nat \ {0} /\ id_map'[t] \in Nat
               /\ id_map'[t] # 0 =>
                     \E s : << s, id_map'[t] >> \in DOMAIN origin
                            /\ origin[<< s, id_map'[t] >>] = t
    <3>1. CASE t \in Nat \ {0} /\ id_map'[t] = 0
      BY <3>1
    <3>2. CASE t \in DOMAIN id_map /\ id_map'[t] = id_map[t]
      BY <3>2, Zenon DEF NamesInv, MapInv
    <3> QED BY Zenon, <1>3, <2>1, <3>1, <3>2
  <2>2. \A key \in DOMAIN origin : origin[key] \in DOMAIN id_map' \cup {0}
    BY <1>3 DEF NamesInv, MapInv
  <2> QED BY <2>1, <2>2, Zenon DEF MapInv
<1>5. CallInv'
  BY DEF CallInv
<1> QED
  BY <1>2, <1>4, <1>5 DEF NamesInv

\* An order the engine accepts gets an ID that no order of its book had.
LEMMA NamesAccepted ==
  ASSUME EngineInv, NamesInv, NEW e \in Events, ev' = e, id_map' = id_map,
         AcceptOrder(e.symbol, e.side, e.type, e.price, e.quantity),
         origin' = Assigned(origin, << e.symbol, books'[e.symbol].next_order_id - 1 >>,
                            e.order_id)
  PROVE  NamesInv'
<1> DEFINE symbol == e.symbol
           b == get_order_book(symbol)[symbol]
           id == b.next_order_id
           new == << symbol, id >>
<1>1. /\ symbol \in Symbols /\ e.side \in Side /\ e.type \in OrderType
      /\ e.price \in Prices /\ e.quantity \in Quantities /\ e.order_id \in Nat
  BY EventFields
<1>2. Accepted(symbol, e.side, e.type, e.price, e.quantity)
  BY <1>1, AcceptEffect
<1>3. /\ op = NoOp /\ op' \in OpRecord /\ op'.symbol = symbol
      /\ op'.order = PtrOf(books'[symbol], id)
      /\ DOMAIN books' = DOMAIN books \cup {symbol}
      /\ \A s \in DOMAIN books : s # symbol => books'[s] = books[s]
      /\ id \in Nat \ {0} /\ books'[symbol].next_order_id = id + 1
      /\ LiveIds(books'[symbol]) = LiveIds(b) \cup {id}
  BY <1>2 DEF Accepted
<1>4. /\ symbol \in DOMAIN books => b = books[symbol]
      /\ symbol \notin DOMAIN books => LiveIds(b) = {}
  BY Zenon, OpenEffect
<1> HIDE DEF symbol, b, id
<1>5. /\ DOMAIN origin' = DOMAIN origin \cup {new} /\ origin'[new] = e.order_id
      /\ \A key \in DOMAIN origin : key # new => origin'[key] = origin[key]
  <2>1. books'[symbol].next_order_id - 1 = id
    BY <1>3
  <2>2. origin' = [key \in DOMAIN origin \cup {new} |->
                      IF key = new THEN e.order_id ELSE origin[key]]
    BY <2>1 DEF Assigned, symbol
  <2> HIDE DEF new
  <2> QED BY <2>2
<1>6. new \notin DOMAIN origin
  <2>1. ASSUME new \in DOMAIN origin
        PROVE  FALSE
    <3>1. PICK s \in DOMAIN books : \E i \in 1..(books[s].next_order_id - 1) : new = << s, i >>
      BY <2>1 DEF NamesInv, OriginInv
    <3>2. s = symbol /\ id \in 1..(books[s].next_order_id - 1)
      BY <3>1
    <3>3. books[s].next_order_id = id
      BY <1>4, <3>1, <3>2 DEF id
    <3> QED BY <1>3, <3>2, <3>3
  <2> QED BY <2>1
<1>7. OriginInv'
  <2>1. ASSUME NEW key \in DOMAIN origin'
        PROVE  /\ origin'[key] \in Nat
               /\ \E s \in DOMAIN books' : \E i \in 1..(books'[s].next_order_id - 1) :
                     key = << s, i >>
    <3>1. CASE key = new
      <4>1. id \in 1..(books'[symbol].next_order_id - 1) /\ symbol \in DOMAIN books'
        BY <1>3
      <4> QED BY <1>1, <1>5, <3>1, <4>1
    <3>2. CASE key # new
      <4>1. key \in DOMAIN origin /\ origin'[key] = origin[key] /\ origin[key] \in Nat
        BY <1>5, <2>1, <3>2 DEF NamesInv, OriginInv
      <4>2. PICK s \in DOMAIN books : \E i \in 1..(books[s].next_order_id - 1) :
               key = << s, i >>
        BY <4>1 DEF NamesInv, OriginInv
      <4>3. PICK i \in 1..(books[s].next_order_id - 1) : key = << s, i >>
        BY <4>2
      <4>4. i \in 1..(books'[s].next_order_id - 1)
        <5>1. CASE s = symbol
          <6>1. books[s].next_order_id = id
            BY <1>4, <4>2, <5>1 DEF id
          <6> QED BY <1>3, <4>3, <5>1, <6>1
        <5>2. CASE s # symbol
          BY <1>3, <4>2, <4>3, <5>2
        <5> QED BY <5>1, <5>2
      <4> QED BY <1>3, <4>1, <4>2, <4>3, <4>4
    <3> QED BY <3>1, <3>2
  <2>2. ASSUME NEW s \in DOMAIN books', NEW i \in LiveIds(books'[s])
        PROVE  << s, i >> \in DOMAIN origin'
    <3>1. \/ s = symbol /\ i = id
          \/ s \in DOMAIN books /\ i \in LiveIds(books[s])
      BY <1>3, <1>4, <2>2
    <3> QED BY <1>5, <3>1 DEF NamesInv, OriginInv
  <2> QED BY <2>1, <2>2 DEF OriginInv
<1>8. op' # NoOp
  BY <1>3, BusyOp
<1>9. MapInv'
  <2>1. ASSUME NEW t \in DOMAIN id_map, id_map[t] # 0
        PROVE  \E s : << s, id_map[t] >> \in DOMAIN origin'
                      /\ origin'[<< s, id_map[t] >>] = t
    <3>1. PICK s : << s, id_map[t] >> \in DOMAIN origin /\ origin[<< s, id_map[t] >>] = t
      BY Zenon, <2>1 DEF NamesInv, MapInv
    <3> HIDE DEF new
    <3> QED BY Zenon, <1>5, <1>6, <3>1
  <2>2. \A key \in DOMAIN origin' : \/ origin'[key] \in DOMAIN id_map \cup {0}
                                    \/ origin'[key] = e.order_id
    <3> HIDE DEF new
    <3> QED BY <1>3, <1>5 DEF NamesInv, MapInv
  <2>3. \A t \in DOMAIN id_map : t \in Nat \ {0} /\ id_map[t] \in Nat
    BY DEF NamesInv, MapInv
  <2> QED BY <1>8, <2>1, <2>2, <2>3, Zenon DEF MapInv
<1>10. CallInv'
  <2>1. id \in LiveIds(books'[op'.symbol]) /\ PtrOf(books'[op'.symbol], id) = op'.order
    BY <1>3
  <2>2. origin'[<< op'.symbol, id >>] = ev'.order_id
    BY <1>3, <1>5
  <2> QED BY <2>1, <2>2, Zenon DEF CallInv
<1> QED
  BY <1>7, <1>9, <1>10 DEF NamesInv

\* Every step keeps the books in order: the harness drives the engine by its
\* own actions.
LEMMA ReplayEngineStep ==
  ASSUME EngineInv, [ReplayNext]_replayVars
  PROVE  EngineInv'
<1>1. CASE UNCHANGED vars
  BY Zenon, <1>1 DEF vars, EngineInv, TypeOK, CallOK
<1>2. ASSUME NEW e \in Events, Submits(e)
      PROVE  EngineInv'
  <2>1. /\ e.symbol \in Symbols /\ e.side \in Side /\ e.type \in OrderType
        /\ e.price \in Prices /\ e.quantity \in Quantities
    BY EventFields
  <2>2. CASE AcceptOrder(e.symbol, e.side, e.type, e.price, e.quantity)
    BY <2>1, <2>2, AcceptOrderInv
  <2>3. CASE RejectOrder(e.symbol, e.type, e.price, e.quantity)
    <3>1. op = NoOp /\ op' = op /\ books' = get_order_book(e.symbol)
          /\ stats' = [stats EXCEPT !.total_orders = @ + 1, !.total_rejects = @ + 1]
      BY <2>3 DEF RejectOrder
    <3>2. stats \in EngineStats
      BY DEF EngineInv, TypeOK
    <3>3. stats' \in EngineStats
      BY <3>1, <3>2, CountersTyped
    <3> QED BY <2>1, <3>1, <3>3, OpenOnlyInv
  <2> QED BY <1>2, <2>2, <2>3 DEF Submits
<1>3. ASSUME NEW e \in Events, Cancels(e)
      PROVE  EngineInv'
  <2>1. e.symbol \in Symbols /\ CancelOrder(e.symbol, Target(e.order_id))
    BY <1>3, EventFields DEF Cancels
  <2> QED BY <2>1, CancelOrderStepInv
<1>4. CASE Matching \/ TradeCallback \/ Submitted
  <2>1. MatchStep \/ MatchDone \/ ReportTrade \/ Finish
    BY <1>4 DEF Matching, TradeCallback, Submitted
  <2> QED BY <2>1, MatchStepInv, MatchDoneInv, ReportTradeInv, FinishInv, Zenon
<1>5. CASE SkipRow \/ EndOfTape \/ UNCHANGED replayVars
           \/ \E e \in Events : RiskRejects(e) \/ Ignores(e)
  <2>1. UNCHANGED vars
    BY <1>5 DEF SkipRow, EndOfTape, replayVars, RiskRejects, Ignores
  <2> QED BY <1>1, <2>1
<1> QED
  BY <1>2, <1>3, <1>4, <1>5, Zenon DEF ReplayNext

\* Every step keeps track of the orders the tape's IDs stand for.
LEMMA NamesStep ==
  ASSUME EngineInv, HarnessInv, NamesInv, [ReplayNext]_replayVars
  PROVE  NamesInv'
<1>1. ASSUME NEW e \in Events, Submits(e)
      PROVE  NamesInv'
  <2>1. ev' = e
    BY <1>1 DEF Submits, Read
  <2>2. CASE /\ AcceptOrder(e.symbol, e.side, e.type, e.price, e.quantity)
             /\ origin' = Assigned(origin, << e.symbol, books'[e.symbol].next_order_id - 1 >>,
                                   e.order_id)
             /\ id_map' = id_map
    BY <2>1, <2>2, NamesAccepted
  <2>3. CASE /\ RejectOrder(e.symbol, e.type, e.price, e.quantity)
             /\ id_map' = Mapped(id_map, e.order_id, 0) /\ origin' = origin
    <3>1. op = NoOp /\ op' = op /\ books' = get_order_book(e.symbol)
      BY <2>3 DEF RejectOrder
    <3> QED BY <2>3, <3>1, NamesRejected
  <2> QED BY <1>1, <2>2, <2>3, Zenon DEF Submits
<1>2. ASSUME NEW e \in Events, Cancels(e)
      PROVE  NamesInv'
  <2>1. /\ e.symbol \in Symbols /\ CancelOrder(e.symbol, Target(e.order_id))
        /\ id_map' = id_map /\ origin' = origin
    BY <1>2, EventFields DEF Cancels
  <2>2. op = NoOp /\ op' = op
    BY <2>1 DEF CancelOrder
  <2>3. DOMAIN books' = DOMAIN books /\ \A s \in DOMAIN books : Kept(books[s], books'[s])
    BY <2>1, StepKeeps, Zenon
  <2>4. OriginInv'
    BY <2>1, <2>3, OriginKept DEF NamesInv, Kept
  <2>5. MapInv'
    BY Zenon, <2>1, <2>2 DEF NamesInv, MapInv
  <2>6. CallInv'
    BY <2>2 DEF CallInv
  <2> QED BY <2>4, <2>5, <2>6 DEF NamesInv
<1>3. CASE Matching \/ TradeCallback
  <2>1. (MatchStep \/ MatchDone \/ ReportTrade) /\ UNCHANGED << ev, id_map, origin >>
    BY <1>3 DEF Matching, TradeCallback
  <2> QED BY <2>1, NamesInCall
<1>4. CASE Submitted
  BY <1>4, NamesSubmitted
<1>5. CASE SkipRow \/ EndOfTape \/ UNCHANGED replayVars
           \/ \E e \in Events : RiskRejects(e) \/ Ignores(e)
  <2>1. UNCHANGED << books, op, id_map, origin >> /\ (op = NoOp \/ ev' = ev)
    BY <1>5 DEF SkipRow, EndOfTape, replayVars, vars, RiskRejects, Ignores, Read, Reading
  <2> QED BY <2>1, NamesSame
<1> QED
  BY <1>1, <1>2, <1>3, <1>4, <1>5, Zenon DEF ReplayNext

-----------------------------------------------------------------------------
(***************************************************************************)
(* The theorems.                                                           *)
(***************************************************************************)

\* replay starts with zero counters, an empty map and no book.
LEMMA ReplayStarts ==
  ASSUME ReplayInit
  PROVE  EngineInv /\ ReplayInv
<1>1. EngineInv /\ op = NoOp
  BY DEF ReplayInit, Init, EngineInv, TypeOK, EngineStats, NoOp
<1>2. risk \in Checkers /\ risk.stats.total_checks = 0 /\ risk.stats.total_rejections = 0
  <2>1. NoStats \in RiskStats /\ NoStats.total_checks = 0 /\ NoStats.total_rejections = 0
    BY DEF NoStats, RiskStats
  <2> QED BY <2>1, ReplayAssumption DEF ReplayInit, NewChecker, Checkers
<1>3. result \in ReplayResult
  BY DEF ReplayInit, ReplayResult
<1>4. HarnessInv
  BY <1>1, <1>2, <1>3, ReplayAssumption DEF ReplayInit, HarnessInv
<1>5. DOMAIN books = {}
  BY DEF ReplayInit, Init
<1>6. OriginInv /\ MapInv /\ CallInv
  BY <1>1, <1>5 DEF ReplayInit, OriginInv, MapInv, CallInv
<1>7. ResultsReconcile /\ CheckImpliesAccept
  <2>1. 0 % QuantityModulus = 0
    BY ReplayAssumption
  <2> QED BY <1>2, <2>1 DEF ReplayInit, Init, ResultsReconcile, CheckImpliesAccept
<1> QED
  BY <1>1, <1>4, <1>6, <1>7 DEF ReplayInv, NamesInv

\* ReplayHarness::replay keeps the engine in order and its own counters and ID
\* map in step with it, on every tape, with and without a risk checker.
THEOREM ReplayAlwaysSound == ReplaySpec => [](EngineInv /\ ReplayInv)
<1>1. ReplayInit => EngineInv /\ ReplayInv
  BY ReplayStarts
<1>2. EngineInv /\ ReplayInv /\ [ReplayNext]_replayVars => (EngineInv /\ ReplayInv)'
  <2> SUFFICES ASSUME EngineInv, ReplayInv, [ReplayNext]_replayVars
               PROVE  EngineInv' /\ ReplayInv'
    OBVIOUS
  <2>1. EngineInv'
    BY ReplayEngineStep
  <2>2. HarnessInv /\ NamesInv /\ CountInv
    BY DEF ReplayInv, CountInv
  <2>3. CountInv' /\ NamesInv'
    BY <2>2, CountStep, NamesStep, Zenon
  <2> QED BY <2>1, <2>3 DEF ReplayInv, CountInv
<1> QED
  BY <1>1, <1>2, PTL DEF ReplaySpec

\* The types of the harness's state, on every tape.
THEOREM ReplayTypeCorrect == ReplaySpec => []ReplayTypeOK
<1>1. EngineInv /\ ReplayInv => ReplayTypeOK
  <2> SUFFICES ASSUME EngineInv, ReplayInv
               PROVE  ReplayTypeOK
    OBVIOUS
  <2>1. unread \in 0..MaxRows /\ ev \in Events \cup {NoEvent} /\ result \in ReplayResult
    BY DEF ReplayInv, HarnessInv
  <2>2. \A id \in DOMAIN id_map : id \in Nat \ {0} /\ id_map[id] \in Nat
    BY DEF ReplayInv, NamesInv, MapInv
  <2>3. ASSUME NEW key \in DOMAIN origin
        PROVE  key[1] \in Symbols /\ origin[key] \in Nat
    <3>1. PICK s \in DOMAIN books : \E id \in 1..(books[s].next_order_id - 1) : key = << s, id >>
      BY <2>3 DEF ReplayInv, NamesInv, OriginInv
    <3>2. DOMAIN books \subseteq Symbols
      BY DEF EngineInv, TypeOK
    <3>3. key[1] = s
      BY <3>1
    <3>4. origin[key] \in Nat
      BY <2>3 DEF ReplayInv, NamesInv, OriginInv
    <3> QED BY <3>1, <3>2, <3>3, <3>4
  <2> QED BY <2>1, <2>2, <2>3 DEF ReplayTypeOK
<1> QED
  BY <1>1, ReplayAlwaysSound, PTL

\* The counters of ReplayResult reconcile with those of the engine and of the
\* risk checker, on every tape.
THEOREM ResultsAlwaysReconcile == ReplaySpec => []ResultsReconcile
<1>1. ReplayInv => ResultsReconcile
  BY DEF ReplayInv
<1> QED
  BY <1>1, ReplayAlwaysSound, PTL

\* Behind the risk check submit_order rejects nothing, whatever the limits and
\* the tape.
THEOREM CheckAlwaysImpliesAccept == ReplaySpec => []CheckImpliesAccept
<1>1. ReplayInv => CheckImpliesAccept
  BY DEF ReplayInv
<1> QED
  BY <1>1, ReplayAlwaysSound, PTL

\* Only a cancel row is counted as one.
LEMMA CancelsOnly ==
  ASSUME result \in ReplayResult, ReplayNext, result'.cancels > result.cancels
  PROVE  \E e \in Events : Cancels(e)
<1>0. ~(result.cancels > result.cancels)
  BY DEF ReplayResult
<1>1. CASE SkipRow \/ EndOfTape \/ Matching \/ Submitted
  BY <1>0, <1>1 DEF SkipRow, EndOfTape, Matching, Submitted
<1>2. CASE TradeCallback
  <2>1. result'.cancels = result.cancels
    BY <1>2 DEF TradeCallback, ReplayResult
  <2> QED BY <1>0, <2>1
<1>3. ASSUME NEW e \in Events, RiskRejects(e) \/ Submits(e) \/ Ignores(e)
      PROVE  FALSE
  <2>1. result'.cancels = result.cancels
    BY Zenon, <1>3 DEF RiskRejects, Submits, Ignores, Read, ReplayResult
  <2> QED BY <1>0, <2>1
<1> QED
  BY <1>1, <1>2, <1>3 DEF ReplayNext

\* The order a cancel row takes off the book was submitted under the row's ID.
LEMMA HitsNamed ==
  ASSUME EngineInv, HarnessInv, NamesInv, NEW e \in Events, Cancels(e), NEW key \in DOMAIN origin,
         key[2] \in LiveIds(books[key[1]]), key[2] \notin LiveIds(books'[key[1]]),
         UsedFor(e.order_id) = {e.symbol}
  PROVE  key[1] = e.symbol /\ origin[key] = e.order_id
<1> DEFINE target == Target(e.order_id)
<1>1. e.symbol \in Symbols /\ e.order_id \in Nat /\ CancelOrder(e.symbol, target) /\ op = NoOp
  BY EventFields DEF Cancels, CancelOrder
<1>2. PICK s \in DOMAIN books : \E i \in 1..(books[s].next_order_id - 1) : key = << s, i >>
  BY DEF NamesInv, OriginInv
<1>3. PICK i \in 1..(books[s].next_order_id - 1) : key = << s, i >>
  BY <1>2
<1>4. key[1] = s /\ key[2] = i
  BY <1>3
<1>5. s = e.symbol /\ i = target
  <2>1. CASE e.symbol \in DOMAIN books /\ target \in LiveIds(books[e.symbol])
    <3>1. OnlyBook(e.symbol)
          /\ LiveIds(books'[e.symbol]) = LiveIds(books[e.symbol]) \ {target}
      BY <1>1, <2>1, CancelEffect
    <3> QED BY <1>2, <1>4, <3>1 DEF OnlyBook
  <2>2. CASE ~(e.symbol \in DOMAIN books /\ target \in LiveIds(books[e.symbol]))
    <3>1. books' = books
      BY <1>1, <2>2, CancelEffect
    <3> QED BY <3>1
  <2> QED BY <2>1, <2>2
<1>6. i # 0
  BY <1>3
<1>7. CASE e.order_id \in DOMAIN id_map
  <2>1. target = id_map[e.order_id]
    BY <1>7 DEF Target
  <2>2. PICK t : /\ << t, target >> \in DOMAIN origin
                 /\ origin[<< t, target >>] = e.order_id
    BY Zenon, <1>5, <1>6, <1>7, <2>1 DEF NamesInv, MapInv
  <2>3. t \in UsedFor(e.order_id)
    <3>1. << t, target >>[1] = t
      OBVIOUS
    <3> QED BY <2>2, <3>1 DEF UsedFor
  <2>4. t = e.symbol
    BY <2>3
  <2> QED BY <1>3, <1>4, <1>5, <2>2, <2>4
<1>8. CASE e.order_id \notin DOMAIN id_map
  <2>1. target = e.order_id
    BY <1>8 DEF Target
  <2>2. PICK k \in DOMAIN origin : origin[k] = e.order_id
    BY DEF UsedFor
  <2>3. e.order_id = 0
    BY <1>1, <1>8, <2>2 DEF NamesInv, MapInv
  <2> QED BY <1>5, <1>6, <2>1, <2>3
<1> QED
  BY <1>7, <1>8

\* A cancel row whose ID was submitted for its symbol alone takes off the book
\* an order that was submitted under this ID: id_map never lets the engine's
\* numbering be taken for the tape's.
THEOREM CancelsAlwaysHitNamed == ReplaySpec => CancelHitsNamed
<1> DEFINE Hit ==
      \A key \in DOMAIN origin :
          LET removed == /\ key[2] \in LiveIds(books[key[1]])
                         /\ key[2] \notin LiveIds(books'[key[1]])
              cancel  == result'.cancels > result.cancels
          IN  removed /\ cancel /\ UsedFor(ev'.order_id) = {ev'.symbol} =>
                  key[1] = ev'.symbol /\ origin[key] = ev'.order_id
<1>1. EngineInv /\ ReplayInv /\ [ReplayNext]_replayVars => [Hit]_replayVars
  <2> SUFFICES ASSUME EngineInv, ReplayInv, ReplayNext, NEW key \in DOMAIN origin,
                      key[2] \in LiveIds(books[key[1]]), key[2] \notin LiveIds(books'[key[1]]),
                      result'.cancels > result.cancels, UsedFor(ev'.order_id) = {ev'.symbol}
               PROVE  key[1] = ev'.symbol /\ origin[key] = ev'.order_id
    BY Zenon
  <2>1. HarnessInv /\ NamesInv /\ result \in ReplayResult
    BY DEF ReplayInv, HarnessInv
  <2>2. PICK e \in Events : Cancels(e)
    BY <2>1, CancelsOnly, Zenon
  <2>3. ev' = e
    BY <2>2 DEF Cancels, Read
  <2> QED BY <2>1, <2>2, <2>3, HitsNamed
<1> QED
  BY <1>1, ReplayAlwaysSound, PTL DEF ReplaySpec, CancelHitsNamed
=============================================================================
