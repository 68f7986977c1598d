---------------------------- MODULE ServerProofs ----------------------------
(***************************************************************************)
(* The server with any number of connections: what its threads, the        *)
(* engine's mutex and the callback guarantee together.                     *)
(***************************************************************************)
EXTENDS ServerLemmas, EngineLemmas

-----------------------------------------------------------------------------
(***************************************************************************)
(* The threads.                                                            *)
(***************************************************************************)

\* accepted,
LEMMA SubmitConn ==
  ASSUME EngineInv, ConnInv, NEW c \in Connections, Submit(c)
  PROVE  ConnInv'
<1> DEFINE m  == conn[c].request
           id == get_order_book(m.symbol)[m.symbol].next_order_id
<1>1. /\ ThreadOK(conn[c]) /\ conn[c].pc = "submit" /\ answers' = answers
      /\ conn' = [conn EXCEPT ![c].pc = "engine", ![c].report = Report(m, id, "Accepted")]
      /\ AcceptOrder(m.symbol, m.side, m.type, m.price, m.quantity)
  BY DEF ConnInv, Submit
<1>2. m \in Requests /\ m \in OrderMessages /\ "Accepted" \in OrderStatus
  BY <1>1 DEF ThreadOK, OrderStatus
<1>3. m.symbol \in Symbols /\ m.side \in Side /\ m.type \in OrderType /\ m.price \in Prices
      /\ m.quantity \in Quantities
  BY <1>2 DEF OrderMessages
<1>4. Accepted(m.symbol, m.side, m.type, m.price, m.quantity)
  BY <1>1, <1>3, AcceptEffect
<1>5. id \in Nat
  BY Zenon, <1>4 DEF Accepted
<1> HIDE DEF id
<1> QED
  BY Zenon, <1>1, <1>2, <1>5, AnswerConn

\* Every step of the server keeps what its threads hold.
LEMMA ConnStep ==
  ASSUME EngineInv, ConnInv, [ServerNext]_serverVars
  PROVE  ConnInv'
<1>1. conn' = conn /\ answers' = answers => ConnInv'
  BY DEF ConnInv
<1>2. ASSUME NEW c \in Connections, ThreadStep(c)
      PROVE  ConnInv'
  <2>1. CASE Loop(c) \/ Hangup(c)
    BY <2>1, FreeThread DEF Loop, Hangup
  <2>2. CASE CheckOrder(c)
    BY <2>2, CheckConn DEF CheckOrder
  <2>3. CASE CheckPosition(c)
    BY <2>3, CheckConn DEF CheckPosition
  <2>4. CASE CheckExposure(c)
    BY <2>4, CheckConn DEF CheckExposure
  <2>5. CASE Match(c) \/ Deliver(c) \/ OnFill(c)
    BY <1>1, <2>5 DEF Match, Deliver, OnFill
  <2> QED
    BY <1>2, <2>1, <2>2, <2>3, <2>4, <2>5, RecordConn, RefusedConn, SubmitConn, CancelConn,
       ReturnConn, SendConn DEF ThreadStep
<1>3. ASSUME NEW c \in Connections, Accept(c) \/ PeerCloses(c) \/ Skip(c)
      PROVE  ConnInv'
  <2>1. CASE Accept(c) \/ Skip(c)
    BY <2>1, FreeThread DEF Accept, Skip
  <2>2. CASE PeerCloses(c)
    <3> DEFINE t == [conn[c] EXCEPT !.peer = "closed"]
    <3>1. conn[c] \in ConnRecord /\ ThreadOK(conn[c])
      BY DEF ConnInv
    <3>2. t \in ConnRecord /\ t.pc = conn[c].pc /\ t.request = conn[c].request
          /\ t.report = conn[c].report
      BY <3>1 DEF ConnRecord
    <3>3. conn' = [conn EXCEPT ![c] = t] /\ answers' = answers
      BY <2>2 DEF PeerCloses
    <3> HIDE DEF t
    <3>4. ThreadOK(t)
      BY <3>1, <3>2 DEF ThreadOK
    <3> QED BY Zenon, <3>2, <3>3, <3>4, OneThread
  <2> QED BY <1>3, <2>1, <2>2
<1>4. CASE EngageKillSwitch \/ DisengageKillSwitch \/ Stop \/ Stopped
  BY <1>1, <1>4 DEF EngageKillSwitch, DisengageKillSwitch, Stop, Stopped
<1>5. CASE UNCHANGED serverVars
  BY <1>1, <1>5 DEF serverVars
<1> QED
  BY <1>2, <1>3, <1>4, <1>5, ReceiveConn, Zenon DEF ServerNext

-----------------------------------------------------------------------------
(***************************************************************************)
(* The engine behind the threads.                                          *)
(***************************************************************************)

\* The engine's invariant holds behind the server.
LEMMA EngineStep ==
  ASSUME EngineInv, ConnInv, [ServerNext]_serverVars
  PROVE  EngineInv'
<1>1. CASE UNCHANGED vars
  BY Zenon, <1>1 DEF vars, EngineInv, TypeOK, CallOK
<1>2. CASE Proceed
  <2>1. CASE MatchStep
    BY <2>1, MatchStepInv
  <2>2. CASE MatchDone
    BY <2>2, MatchDoneInv
  <2>3. CASE ReportTrade
    BY <2>3, ReportTradeInv
  <2>4. CASE Finish
    BY <2>4, FinishInv
  <2> QED BY <1>2, <2>1, <2>2, <2>3, <2>4 DEF Proceed
<1>3. ASSUME NEW symbol \in Symbols, NEW id, CancelOrder(symbol, id)
      PROVE  EngineInv'
  BY <1>3, CancelOrderStepInv
<1>4. ASSUME NEW c \in Connections, SubmitRefused(c)
      PROVE  EngineInv'
  <2> DEFINE m == conn[c].request
  <2>1. m.symbol \in Symbols /\ stats \in EngineStats
    <3>1. m \in OrderMessages
      BY <1>4, SubmitMessage DEF SubmitRefused
    <3> QED BY <3>1, MessageFields DEF EngineInv, TypeOK
  <2>2. op = NoOp /\ op' = op /\ books' = get_order_book(m.symbol)
        /\ stats' = [stats EXCEPT !.total_orders = @ + 1, !.total_rejects = @ + 1]
    BY <1>4 DEF SubmitRefused, RejectOrder
  <2>3. stats' \in EngineStats
    BY <2>1, <2>2, CountersTyped
  <2> QED BY <2>1, <2>2, <2>3, OpenOnlyInv
<1>5. ASSUME NEW c \in Connections, Submit(c)
      PROVE  EngineInv'
  <2> DEFINE m == conn[c].request
  <2>1. m \in OrderMessages /\ AcceptOrder(m.symbol, m.side, m.type, m.price, m.quantity)
    BY <1>5, SubmitMessage DEF Submit
  <2>2. m.symbol \in Symbols /\ m.side \in Side /\ m.type \in OrderType /\ m.price \in Prices
        /\ m.quantity \in Quantities
    BY <2>1, MessageFields
  <2> QED BY <2>1, <2>2, AcceptOrderInv
<1> QED
  BY <1>1, <1>2, <1>3, <1>4, <1>5, EngineMoves

-----------------------------------------------------------------------------
(***************************************************************************)
(* The callback and the risk layer.                                        *)
(***************************************************************************)

\* A delivered trade puts four writes ahead of the risk layer.
LEMMA DeliverRisk ==
  ASSUME EngineInv, RiskInv, NEW c \in Connections, Deliver(c)
  PROVE  RiskInv'
<1>t. PICK t : t = Head(op.trades)
  OBVIOUS
<1>1. callback = << >> /\ risk' = risk /\ gated' = gated /\ ReportTrade
      /\ callback' = IF gated THEN LegWrites(t) ELSE << >>
  BY <1>t DEF Deliver
<1>2. /\ t \in Trade
      /\ stats' = [stats EXCEPT !.total_trades = @ + 1, !.total_volume = @ + t.quantity,
                                !.total_notional = @ + t.price * t.quantity]
  BY <1>t, <1>1, ReportEffect
<1>3. t.price \in Int /\ t.quantity \in Nat /\ t.price * t.quantity \in Int
  <2>1. t.price \in Int /\ t.quantity \in Nat
    BY <1>2 DEF Trade
  <2> QED BY <2>1
<1>4. /\ stats.total_notional \in Int
      /\ stats'.total_notional = stats.total_notional + t.price * t.quantity
  BY <1>2 DEF EngineInv, TypeOK, EngineStats
<1>5. CASE ~gated
  BY <1>1, <1>5 DEF RiskInv
<1>6. CASE gated
  <2> DEFINE w == LegWrites(t)
             n == t.price * t.quantity
  <2>1. /\ w \in Seq(Writes) /\ Len(w) = 4 /\ w # << >>
        /\ w[4].price = t.price /\ w[4].quantity = t.quantity
        /\ \A i \in 1..4 : w[i] \in Writes
    <3>1. \A i \in 1..4 : w[i] \in Writes
      BY <1>3 DEF LegWrites, Writes, Side
    <3>2. DOMAIN w = 1..4 /\ w[4].price = t.price /\ w[4].quantity = t.quantity
      BY DEF LegWrites
    <3>3. w \in [1..4 -> Writes]
      BY <3>1, <3>2 DEF LegWrites
    <3> HIDE DEF w
    <3>4. w \in Seq(Writes)
      BY Zenon, <3>3, SeqDef
    <3>5. DOMAIN w = 1..Len(w) /\ Len(w) \in Nat
      BY <3>4, LenProperties
    <3>6. Len(w) = 4
      BY <3>2, <3>5
    <3>7. w # << >>
      BY <3>6
    <3> QED BY <3>1, <3>2, <3>4, <3>6, <3>7, Zenon
  <2>2. LegWrites(w[4]) = w
    BY <2>1 DEF LegWrites
  <2> HIDE DEF w
  <2>3. /\ callback' = w /\ Len(callback') = 4 /\ callback' # << >>
        /\ callback'[Len(callback')] = w[4]
    BY Zenon, <1>1, <1>6, <2>1 DEF w
  <2>4. /\ risk.exposure = 2 * stats.total_notional
        /\ position(risk, "AAPL") = 0
    BY <1>1, <1>6 DEF RiskInv, CallbackInv
  <2>5. risk.exposure = 2 * stats'.total_notional - (n + n)
    BY <1>3, <1>4, <2>4
  <2>6. CallbackInv'
    <3>1. \A i \in 1..4 : callback'[i] = LegWrites(w[4])[0 + i]
      BY <2>2, <2>3
    <3>2. risk'.exposure = 2 * stats'.total_notional - (n + n)
      BY <1>1, <2>5
    <3>3. 4 - Len(callback') = 0 /\ Len(callback') =< 4 /\ 0 < 2 /\ 0 \notin {1, 2}
      BY <2>3
    <3>4. w[4].price * w[4].quantity = n
      BY <2>1
    <3>5. position(risk, "AAPL")' = 0
      BY <1>1, <2>4
    <3> HIDE DEF n
    <3> QED BY <2>3, <3>1, <3>2, <3>3, <3>4, <3>5, Zenon DEF CallbackInv
  <2> QED BY <1>1, <1>6, <2>1, <2>3, <2>6 DEF RiskInv
<1> QED
  BY <1>5, <1>6

\* Every step of the server keeps the risk layer in line with the counters.
LEMMA RiskStep ==
  ASSUME EngineInv, ConnInv, RiskInv, [ServerNext]_serverVars
  PROVE  RiskInv'
<1>0. risk \in Checkers /\ stats \in EngineStats
  BY DEF RiskInv, EngineInv, TypeOK
<1>1. ASSUME UNCHANGED << vars, risk, gated, callback >>
      PROVE  RiskInv'
  BY <1>0, <1>1, RiskSame DEF vars
<1>2. ASSUME UNCHANGED << risk, gated, callback >>, ~ReportTrade
      PROVE  RiskInv'
  BY <1>0, <1>2, NotionalSame, RiskSame
<1>3. op = NoOp => ~ReportTrade
  BY DEF NoOp, ReportTrade
<1>4. ASSUME NEW c \in Connections, ThreadStep(c)
      PROVE  RiskInv'
  <2>1. CASE Loop(c) \/ Hangup(c) \/ CheckOrder(c) \/ CheckPosition(c) \/ CheckExposure(c)
             \/ SendReport(c)
    <3>1. UNCHANGED << vars, risk, gated, callback >>
      BY <2>1 DEF Loop, Hangup, CheckOrder, CheckPosition, CheckExposure, CheckPart, SendReport
    <3> QED BY <1>1, <3>1
  <2>2. CASE SubmitRefused(c) \/ Submit(c) \/ Cancel(c)
    <3>1. UNCHANGED << risk, gated, callback >> /\ op = NoOp
      BY <2>2 DEF SubmitRefused, Submit, Cancel, RejectOrder, AcceptOrder, CancelOrder
    <3> QED BY <1>2, <1>3, <3>1
  <2>3. CASE Match(c) \/ Return(c)
    <3>1. UNCHANGED << risk, gated, callback >> /\ ~ReportTrade
      BY <2>3 DEF Match, Return, MatchStep, MatchDone, Finish, ReportTrade
    <3> QED BY <1>2, <3>1
  <2>4. CASE Deliver(c)
    BY <2>4, DeliverRisk
  <2>5. CASE OnFill(c)
    BY <1>0, <2>5, OnFillRisk
  <2>6. CASE Record(c)
    <3>1. UNCHANGED << vars, gated, callback >>
      BY <2>6 DEF Record
    <3>2. PICK lost : risk' = [risk EXCEPT !.stats =
             [field \in DOMAIN @ |->
                 IF field \in lost THEN @[field] ELSE Recorded(@, conn[c].reason)[field]]]
      BY Zenon, <2>6 DEF Record
    <3>3. conn[c].reason \in RejectReason /\ risk.stats \in RiskStats
      BY <1>0 DEF ConnInv, ConnRecord, Checkers
    <3>4. PICK new \in RiskStats : risk' = [risk EXCEPT !.stats = new]
      BY Zenon, <3>2, <3>3, RecordedStats
    <3>5. risk' \in Checkers /\ risk'.positions = risk.positions /\ risk'.exposure = risk.exposure
      BY <1>0, <3>4 DEF Checkers
    <3> QED BY <3>1, <3>5, RiskSame DEF vars
  <2> QED BY <1>4, <2>1, <2>2, <2>3, <2>4, <2>5, <2>6 DEF ThreadStep
<1>5. ASSUME NEW c \in Connections, Accept(c) \/ PeerCloses(c) \/ Skip(c)
      PROVE  UNCHANGED << vars, risk, gated, callback >>
  BY <1>5 DEF Accept, PeerCloses, Skip
<1>6. ASSUME NEW c \in Connections, NEW request \in Requests,
             Receive(c, request) \/ ReceivePart(c, request)
      PROVE  UNCHANGED << vars, risk, gated, callback >>
  BY <1>6 DEF Receive, ReceivePart
<1>7. CASE EngageKillSwitch \/ DisengageKillSwitch
  <2>1. /\ UNCHANGED << vars, gated, callback >>
        /\ \E on \in BOOLEAN : risk' = [risk EXCEPT !.kill_switch = on]
    BY Zenon, <1>7 DEF EngageKillSwitch, DisengageKillSwitch
  <2>2. risk' \in Checkers /\ risk'.positions = risk.positions /\ risk'.exposure = risk.exposure
    BY <1>0, <2>1 DEF Checkers
  <2> QED BY <2>1, <2>2, RiskSame DEF vars
<1>8. CASE Stop \/ Stopped
  BY <1>1, <1>8 DEF Stop, Stopped
<1>9. CASE UNCHANGED serverVars
  BY <1>1, <1>9 DEF serverVars
<1> QED
  BY <1>1, <1>4, <1>5, <1>6, <1>7, <1>8, <1>9, Zenon DEF ServerNext

-----------------------------------------------------------------------------
(***************************************************************************)
(* The limits on single orders.                                            *)
(***************************************************************************)

\* Only an order that has passed the tests gets on a book.
LEMMA BookedStep ==
  ASSUME EngineInv, ConnInv, BookedCaps, ClearedPassed, [ServerNext]_serverVars
  PROVE  BookedCaps'
<1>0. stats \in EngineStats
  BY DEF EngineInv, TypeOK
<1>1. CASE UNCHANGED vars
  BY <1>1 DEF vars, BookedCaps
<1>2. CASE Proceed \/ \E symbol \in Symbols : \E id : CancelOrder(symbol, id)
  <2>1. /\ DOMAIN books' = DOMAIN books
        /\ \A s \in DOMAIN books : Kept(books[s], books'[s])
        /\ stats'.total_rejects = stats.total_rejects
    BY <1>2, StepKeeps
  <2>2. ASSUME NEW s \in DOMAIN books, NEW id \in LiveIds(books'[s])
        PROVE  WithinCaps(OrderOf(books'[s], id))
    <3>1. Kept(books[s], books'[s])
      BY <2>1
    <3>2. /\ id \in LiveIds(books[s])
          /\ OrderOf(books'[s], id).type = OrderOf(books[s], id).type
          /\ OrderOf(books'[s], id).price = OrderOf(books[s], id).price
          /\ OrderOf(books'[s], id).quantity = OrderOf(books[s], id).quantity
      BY <2>2, <3>1, Zenon DEF Kept
    <3>3. WithinCaps(OrderOf(books[s], id))
      BY <3>2 DEF BookedCaps
    <3> QED BY <3>2, <3>3 DEF WithinCaps
  <2> QED BY <2>1, <2>2 DEF BookedCaps
<1>3. ASSUME NEW c \in Connections, SubmitRefused(c)
      PROVE  FALSE
  <2> DEFINE m == conn[c].request
  <2>1. conn[c].pc = "submit" /\ ~IsValid(m.type, m.price, m.quantity)
    BY <1>3 DEF SubmitRefused, RejectOrder
  <2>2. Passed(m)
    BY <2>1 DEF ClearedPassed, Cleared
  <2> QED BY <2>1, <2>2 DEF Passed
<1>4. ASSUME NEW c \in Connections, Submit(c)
      PROVE  BookedCaps'
  <2>m. PICK m : m = conn[c].request
    OBVIOUS
  <2>1. /\ conn[c].pc = "submit"
        /\ AcceptOrder(m.symbol, m.side, m.type, m.price, m.quantity)
    BY <1>4, <2>m DEF Submit
  <2>2. m \in OrderMessages
    BY <2>m, <2>1, SubmitMessage
  <2>3. m.symbol \in Symbols /\ m.side \in Side /\ m.type \in OrderType /\ m.price \in Prices
        /\ m.quantity \in Quantities
    BY <2>2, MessageFields
  <2>4. Accepted(m.symbol, m.side, m.type, m.price, m.quantity)
    BY <2>1, <2>3, AcceptEffect
  <2>5. WithinCaps(m)
    BY <2>m, <2>1 DEF ClearedPassed, Cleared, Passed
  <2> DEFINE b  == get_order_book(m.symbol)[m.symbol]
             id == b.next_order_id
             new == NewOrder(id, m.side, m.type, EffectivePrice(m.side, m.type, m.price),
                             m.quantity)
  <2>6. /\ stats' = [stats EXCEPT !.total_orders = @ + 1]
        /\ DOMAIN books' = DOMAIN books \cup {m.symbol}
        /\ \A s \in DOMAIN books : s # m.symbol => books'[s] = books[s]
        /\ LiveIds(books'[m.symbol]) = LiveIds(b) \cup {id}
        /\ OrderOf(books'[m.symbol], id) = new
        /\ \A i \in LiveIds(b) : OrderOf(books'[m.symbol], i) = OrderOf(b, i)
    BY <2>4 DEF Accepted
  <2>7. WithinCaps(new)
    <3>1. new.type = m.type /\ new.quantity = m.quantity
      BY DEF NewOrder
    <3>2. m.type # "Market" => new.price = m.price
      BY DEF NewOrder, EffectivePrice
    <3> HIDE DEF new
    <3> QED BY <2>5, <3>1, <3>2 DEF WithinCaps
  <2>8. \A i \in LiveIds(b) : m.symbol \in DOMAIN books /\ b = books[m.symbol]
    <3>1. /\ m.symbol \in DOMAIN books => b = books[m.symbol]
          /\ m.symbol \notin DOMAIN books => LiveIds(b) = {}
      BY OpenEffect, Zenon
    <3> HIDE DEF b
    <3> QED BY <3>1
  <2> HIDE DEF b, id, new
  <2>9. \A i \in LiveIds(books'[m.symbol]) : WithinCaps(OrderOf(books'[m.symbol], i))
    BY <2>6, <2>7, <2>8 DEF BookedCaps
  <2>10. stats'.total_rejects = 0
    BY <1>0, <2>6 DEF EngineStats, BookedCaps
  <2> QED BY <2>6, <2>9, <2>10 DEF BookedCaps
<1> QED
  BY <1>1, <1>2, <1>3, <1>4, EngineMoves, Zenon

\* CapsInv is kept by every step: whether the server has a risk checker does
\* not change.
LEMMA CapsStep ==
  ASSUME EngineInv, ConnInv, RiskInv, CapsInv, [ServerNext]_serverVars
  PROVE  CapsInv'
<1>1. gated' = gated
  BY Zenon DEF ServerNext, serverVars, ThreadStep, Loop, Hangup, CheckOrder, CheckPosition,
         CheckExposure, CheckPart, Record, SubmitRefused, Submit, Cancel, Match, Deliver,
         OnFill, Return, SendReport, Accept, PeerCloses, Skip, Receive, ReceivePart,
         EngageKillSwitch, DisengageKillSwitch, Stop, Stopped
<1> QED
  BY <1>1, BookedStep, ClearedStep DEF CapsInv, RiskInv

-----------------------------------------------------------------------------
(***************************************************************************)
(* What the connections are told.                                          *)
(***************************************************************************)

\* Claims stay true when books keep their orders and hand out no ID.
LEMMA ClaimsKept ==
  ASSUME DOMAIN books \subseteq DOMAIN books',
         \A s \in DOMAIN books : Kept(books[s], books'[s]),
         NEW a \in AnswerRecord, ClaimOK(books, a)
  PROVE  ClaimOK(books', a)
<1> DEFINE s == a.request.symbol
<1>1. s \in DOMAIN books => /\ books'[s].next_order_id = books[s].next_order_id
                            /\ LiveIds(books'[s]) \subseteq LiveIds(books[s])
  BY Zenon DEF Kept
<1> HIDE DEF s
<1>2. a.report.status \in {"Accepted", "Cancelled"} =>
         /\ s \in DOMAIN books /\ a.report.order_id < books[s].next_order_id
         /\ a.report.status = "Cancelled" => a.report.order_id \notin LiveIds(books[s])
  BY Zenon DEF ClaimOK, s
<1>3. a.report.status \in {"Accepted", "Cancelled"} =>
         /\ s \in DOMAIN books' /\ a.report.order_id < books'[s].next_order_id
         /\ a.report.status = "Cancelled" => a.report.order_id \notin LiveIds(books'[s])
  BY <1>1, <1>2
<1> QED
  BY <1>3, Zenon DEF ClaimOK, s

\* No two answers claim the same order, whatever step is taken.
LEMMA ClaimsStep ==
  ASSUME EngineInv, ConnInv, ClaimsInv, [ServerNext]_serverVars
  PROVE  ClaimsInv'
<1>0. \A b : Kept(b, b)
  BY DEF Kept
<1>t. \A s \in DOMAIN books : BookInv(books[s])
  BY DEF EngineInv, BookOK, CallOK
<1>1. books' = books => \A a \in AnswerRecord : ClaimOK(books, a) => ClaimOK(books', a)
  BY <1>0, ClaimsKept
<1>2. CASE (\A c \in Connections : ToldTo(c)' = ToldTo(c)) /\ (UNCHANGED vars \/ Proceed)
  <2>1. \A a \in AnswerRecord : ClaimOK(books, a) => ClaimOK(books', a)
    <3>1. CASE UNCHANGED vars
      BY <1>1, <3>1 DEF vars
    <3>2. CASE Proceed
      BY <3>2, StepKeeps, ClaimsKept
    <3> QED BY <1>2, <3>1, <3>2
  <2>2. \A d \in Connections : \A i \in 1..Len(ToldTo(d)) : ToldTo(d)[i] \in AnswerRecord
    BY ToldTyped, ElementOfSeq
  <2> QED BY <1>2, <2>1, <2>2, NothingTold, Zenon
<1>3. ASSUME NEW c \in Connections, Record(c), conn[c].reason # "None"
      PROVE  ClaimsInv'
  <2>m. PICK m : m = conn[c].request
    OBVIOUS
  <2>1. /\ conn[c].pc = "record" /\ answers' = answers /\ books' = books
        /\ conn' = [conn EXCEPT ![c].pc = "report", ![c].report = Report(m, 0, "Rejected")]
    BY <1>3, <2>m DEF Record, vars
  <2>2. m \in Requests /\ "Rejected" \in OrderStatus
    BY <2>m, <2>1 DEF ConnInv, ThreadOK, OrderStatus
  <2> QED BY Zenon, <1>1, <2>m, <2>1, <2>2, AnswerTold
<1>4. ASSUME NEW c \in Connections, SubmitRefused(c)
      PROVE  ClaimsInv'
  <2>m. PICK m : m = conn[c].request
    OBVIOUS
  <2>1. /\ conn[c].pc = "submit" /\ answers' = answers /\ books' = get_order_book(m.symbol)
        /\ conn' = [conn EXCEPT ![c].pc = "report", ![c].report = Report(m, 0, "Rejected")]
    BY <1>4, <2>m DEF SubmitRefused, RejectOrder
  <2>2. m \in Requests /\ "Rejected" \in OrderStatus
    BY <2>m, <2>1 DEF ConnInv, ThreadOK, OrderStatus
  <2>3. DOMAIN books \subseteq DOMAIN books' /\ \A s \in DOMAIN books : books'[s] = books[s]
    BY Zenon, <2>1, OpenEffect
  <2>4. \A a \in AnswerRecord : ClaimOK(books, a) => ClaimOK(books', a)
    BY <1>0, <2>3, ClaimsKept
  <2> QED BY Zenon, <2>m, <2>1, <2>2, <2>4, AnswerTold
<1>5. ASSUME NEW c \in Connections, Cancel(c)
      PROVE  ClaimsInv'
  <2>m. PICK m : m = conn[c].request
    OBVIOUS
  <2> DEFINE cancelled == m.symbol \in DOMAIN books /\ m.order_id \in LiveIds(books[m.symbol])
             status    == IF cancelled THEN "Cancelled" ELSE "Rejected"
  <2>1. /\ conn[c].pc = "cancel" /\ answers' = answers /\ CancelOrder(m.symbol, m.order_id)
        /\ conn' = [conn EXCEPT ![c].pc = "report",
                                ![c].report = Report(m, m.order_id, status)]
    BY <1>5, <2>m DEF Cancel
  <2>2. m \in Requests /\ m \in CancelMessages /\ status \in OrderStatus
    BY <2>m, <2>1 DEF ConnInv, ThreadOK, OrderStatus
  <2>3. m.order_id \in Nat /\ m.symbol \in Symbols
    BY <2>2 DEF CancelMessages
  <2>4. \A a \in AnswerRecord : ClaimOK(books, a) => ClaimOK(books', a)
    BY <2>1, <2>3, StepKeeps, ClaimsKept
  <2>5. ASSUME cancelled
        PROVE  /\ m.symbol \in DOMAIN books' /\ m.order_id < books'[m.symbol].next_order_id
               /\ m.order_id \notin LiveIds(books'[m.symbol])
    <3>1. /\ OnlyBook(m.symbol)
          /\ books'[m.symbol].next_order_id = books[m.symbol].next_order_id
          /\ LiveIds(books'[m.symbol]) = LiveIds(books[m.symbol]) \ {m.order_id}
      BY <2>1, <2>3, <2>5, CancelEffect
    <3>2. m.order_id < books[m.symbol].next_order_id
      BY <1>t, <2>5 DEF BookInv, IndexedIsQueued
    <3> QED BY <2>5, <3>1, <3>2 DEF OnlyBook
  <2>6. ASSUME cancelled, NEW a \in AnswerRecord, ClaimOK(books, a),
               a.request.symbol = m.symbol, a.report.status = "Cancelled"
        PROVE  a.report.order_id # m.order_id
    BY <2>6 DEF ClaimOK
  <2>7. status # "Accepted" /\ (status = "Cancelled" <=> cancelled)
    OBVIOUS
  <2> HIDE DEF status, cancelled
  <2> QED BY Zenon, <2>m, <2>1, <2>2, <2>3, <2>4, <2>5, <2>6, <2>7, AnswerTold

<1>6. ASSUME NEW c \in Connections, Submit(c)
      PROVE  ClaimsInv'
  <2>m. PICK m : m = conn[c].request
    OBVIOUS
  <2> DEFINE b  == get_order_book(m.symbol)[m.symbol]
             id == b.next_order_id
  <2>1. /\ conn[c].pc = "submit" /\ answers' = answers
        /\ AcceptOrder(m.symbol, m.side, m.type, m.price, m.quantity)
        /\ conn' = [conn EXCEPT ![c].pc = "engine", ![c].report = Report(m, id, "Accepted")]
    BY <1>6, <2>m DEF Submit
  <2>2. m \in OrderMessages /\ m \in Requests /\ "Accepted" \in OrderStatus
    BY <2>m, <2>1, SubmitMessage DEF OrderStatus
  <2>3. m.symbol \in Symbols /\ m.side \in Side /\ m.type \in OrderType /\ m.price \in Prices
        /\ m.quantity \in Quantities
    BY <2>2, MessageFields
  <2>4. Accepted(m.symbol, m.side, m.type, m.price, m.quantity)
    BY <2>1, <2>3, AcceptEffect
  <2>5. /\ DOMAIN books' = DOMAIN books \cup {m.symbol}
        /\ \A s \in DOMAIN books : s # m.symbol => books'[s] = books[s]
        /\ id \in Nat \ {0} /\ books'[m.symbol].next_order_id = id + 1
        /\ LiveIds(books'[m.symbol]) = LiveIds(b) \cup {id}
    BY <2>4 DEF Accepted
  <2>6. m.symbol \in DOMAIN books => b = books[m.symbol]
    BY OpenEffect, Zenon
  <2> HIDE DEF b, id
  <2>7. id = b.next_order_id
    BY DEF id
  <2>8. ASSUME NEW a \in AnswerRecord, ClaimOK(books, a),
               a.report.status \in {"Accepted", "Cancelled"}, a.request.symbol = m.symbol
        PROVE  /\ a.report.order_id \in Nat /\ a.report.order_id < id
               /\ a.report.status = "Cancelled" => a.report.order_id \notin LiveIds(b)
    <3>1. a.report.order_id \in Nat
      BY DEF AnswerRecord, Reports
    <3>2. /\ m.symbol \in DOMAIN books
          /\ a.report.order_id < books[m.symbol].next_order_id
          /\ a.report.status = "Cancelled" => a.report.order_id \notin LiveIds(books[m.symbol])
      BY <2>8, Zenon DEF ClaimOK
    <3> QED BY <2>6, <2>7, <3>1, <3>2
  <2>9. ASSUME NEW a \in AnswerRecord, ClaimOK(books, a)
        PROVE  ClaimOK(books', a)
    <3>1. CASE a.report.status \notin {"Accepted", "Cancelled"}
      BY <3>1, Zenon DEF ClaimOK
    <3>2. CASE a.report.status \in {"Accepted", "Cancelled"} /\ a.request.symbol = m.symbol
      <4>1. /\ m.symbol \in DOMAIN books'
            /\ a.report.order_id < books'[m.symbol].next_order_id
            /\ a.report.status = "Cancelled" =>
                  a.report.order_id \notin LiveIds(books'[m.symbol])
        BY <2>5, <2>8, <2>9, <3>2
      <4> QED BY <3>2, <4>1, Zenon DEF ClaimOK
    <3>3. CASE a.report.status \in {"Accepted", "Cancelled"} /\ a.request.symbol # m.symbol
      <4>1. a.request.symbol \in DOMAIN books
        BY <2>9, <3>3, Zenon DEF ClaimOK
      <4>2. a.request.symbol \in DOMAIN books' /\ books'[a.request.symbol] = books[a.request.symbol]
        BY <2>5, <3>3, <4>1
      <4> QED BY <2>9, <3>3, <4>2, Zenon DEF ClaimOK
    <3> QED BY <3>1, <3>2, <3>3
  <2>10. m.symbol \in DOMAIN books' /\ id < books'[m.symbol].next_order_id /\ id \in Nat
    BY <2>5
  <2>11. \A a \in AnswerRecord :
            ClaimOK(books, a) /\ a.request.symbol = m.symbol /\ a.report.status = "Accepted"
               => a.report.order_id # id
    BY <2>8, <2>10
  <2> QED BY Zenon, <2>m, <2>1, <2>2, <2>9, <2>10, <2>11, AnswerTold
<1> QED
  BY <1>2, <1>3, <1>4, <1>5, <1>6, ToldMoves, Zenon

-----------------------------------------------------------------------------
(***************************************************************************)
(* The theorems.                                                           *)
(***************************************************************************)

\* The server starts in a state of the invariant.
LEMMA ServerStarts ==
  ASSUME ServerInit
  PROVE  EngineInv /\ ServerInv
<1>1. EngineInv
  BY DEF ServerInit, Init, EngineInv, TypeOK, EngineStats, NoOp
<1>2. /\ conn = [c \in Connections |-> NewConnection]
      /\ answers = [c \in Connections |-> << >>]
      /\ callback = << >> /\ risk = NewChecker(Limits)
      /\ stats.total_notional = 0 /\ stats.total_rejects = 0 /\ DOMAIN books = {}
  BY DEF ServerInit, Init
<1>3. ConnInv
  <2>1. NewConnection \in ConnRecord
    BY DEF NewConnection, ConnRecord, PCs, RejectReason
  <2>2. ThreadOK(NewConnection)
    BY DEF NewConnection, ThreadOK
  <2>3. << >> \in Seq(AnswerRecord)
    OBVIOUS
  <2> HIDE DEF NewConnection
  <2> QED BY <1>2, <2>1, <2>2, <2>3 DEF ConnInv
<1>4. RiskInv
  <2>1. risk \in Checkers /\ risk.exposure = 0 /\ DOMAIN risk.positions = {}
    <3>1. NoStats \in RiskStats
      BY DEF NoStats, RiskStats
    <3> QED BY <1>2, <3>1 DEF NewChecker, Checkers
  <2>2. callback \in Seq(Writes)
    BY <1>2
  <2>3. CallbackInv
    BY <1>2, <2>1 DEF CallbackInv, position
  <2> QED BY <1>2, <2>1, <2>2, <2>3 DEF RiskInv
<1>5. CapsInv
  <2>1. \A c \in Connections : conn[c].pc = "none"
    BY <1>2 DEF NewConnection
  <2> QED BY <1>2, <2>1 DEF CapsInv, BookedCaps, ClearedPassed, Cleared
<1>6. ClaimsInv
  <2>1. \A c \in Connections : conn[c].pc = "none" /\ answers[c] = << >>
    BY <1>2 DEF NewConnection
  <2>2. \A c \in Connections : ToldTo(c) = << >>
    BY <2>1 DEF ToldTo, Told
  <2>3. \A c \in Connections : Len(ToldTo(c)) = 0
    BY <2>2
  <2> QED BY <2>3 DEF ClaimsInv
<1> QED
  BY <1>1, <1>3, <1>4, <1>5, <1>6 DEF ServerInv

\* EngineInv and ServerInv hold in every state of the server, for any number
\* of connections, messages, symbols and prices.
THEOREM ServerAlwaysSound == ServerSpec => [](EngineInv /\ ServerInv)
<1>1. ServerInit => EngineInv /\ ServerInv
  BY ServerStarts
<1>2. EngineInv /\ ServerInv /\ [ServerNext]_serverVars => (EngineInv /\ ServerInv)'
  <2> SUFFICES ASSUME EngineInv, ServerInv, [ServerNext]_serverVars
               PROVE  EngineInv' /\ ServerInv'
    OBVIOUS
  <2>1. ConnInv /\ RiskInv /\ CapsInv /\ ClaimsInv
    BY DEF ServerInv
  <2>2. EngineInv'
    BY <2>1, EngineStep
  <2>3. ConnInv' /\ RiskInv' /\ CapsInv' /\ ClaimsInv'
    BY <2>1, ConnStep, RiskStep, CapsStep, ClaimsStep
  <2> QED BY <2>2, <2>3 DEF ServerInv
<1> QED
  BY <1>1, <1>2, PTL DEF ServerSpec

\* The types of the server's state are those of ServerTypeOK.
THEOREM ServerTypeCorrect == ServerSpec => []ServerTypeOK
<1>1. ServerInv => ServerTypeOK
  <2> SUFFICES ASSUME ServerInv PROVE ServerTypeOK
    OBVIOUS
  <2>1. risk \in Checkers /\ conn \in [Connections -> ConnRecord]
    BY DEF ServerInv, RiskInv, ConnInv
  <2> QED BY <2>1 DEF ServerTypeOK, Checkers, ConnRecord, PCs
<1> QED
  BY <1>1, ServerAlwaysSound, PTL

\* Whenever no callback is running, the risk checker of main has booked both
\* legs of every trade the engine counted, however the threads interleave.
THEOREM RiskAlwaysTracksTrades == ServerSpec => []RiskTracksTrades
<1>1. ServerInv => RiskTracksTrades
  <2> SUFFICES ASSUME ServerInv, gated, callback = << >>
               PROVE  /\ risk.exposure = 2 * stats.total_notional
                      /\ \A symbol \in DOMAIN risk.positions : risk.positions[symbol] = 0
    BY DEF RiskTracksTrades
  <2>1. /\ risk \in Checkers /\ risk.exposure = 2 * stats.total_notional
        /\ position(risk, "AAPL") = 0
    BY DEF ServerInv, RiskInv, CallbackInv
  <2>2. DOMAIN risk.positions \subseteq {"AAPL"}
    BY <2>1 DEF Checkers
  <2> QED BY <2>1, <2>2 DEF position
<1> QED
  BY <1>1, ServerAlwaysSound, PTL

\* With a risk checker no order outside the limits on single orders is ever on
\* a book, and submit_order never refuses one.
THEOREM BookedAlwaysWithinLimits == ServerSpec => []BookedWithinLimits
<1>1. ServerInv => BookedWithinLimits
  BY Zenon DEF ServerInv, CapsInv, BookedCaps, WithinCaps, BookedWithinLimits
<1> QED
  BY <1>1, ServerAlwaysSound, PTL

\* No two answers accept the same order, and none is cancelled twice.
THEOREM AnswersAlwaysDistinct == ServerSpec => []AnswersDistinct
<1>1. ServerInv => AnswersDistinct
  <2> SUFFICES ASSUME ServerInv, NEW a \in AnswerSet, NEW b \in AnswerSet, a # b
               PROVE  Disjoint(Answer(a), Answer(b))
    BY DEF AnswersDistinct, Disjoint
  <2> DEFINE c == a[1]
             i == a[2]
             d == b[1]
             j == b[2]
  <2>1. /\ c \in Connections /\ d \in Connections /\ i \in Nat \ {0} /\ j \in Nat \ {0}
        /\ i \in DOMAIN answers[c] /\ j \in DOMAIN answers[d] /\ (c # d \/ i # j)
    <3>1. MaxMessages \in Nat
      BY ServerAssumption
    <3> QED BY <3>1 DEF AnswerSet
  <2>2. Answer(a) = answers[c][i] /\ Answer(b) = answers[d][j]
    BY DEF Answer
  <2> HIDE DEF c, d, i, j
  <2>3. ASSUME NEW e \in Connections, NEW k \in DOMAIN answers[e]
        PROVE  k \in 1..Len(ToldTo(e)) /\ ToldTo(e)[k] = answers[e][k]
    <3>1. answers[e] \in Seq(AnswerRecord) /\ ThreadOK(conn[e])
      BY DEF ServerInv, ConnInv
    <3>2. k \in 1..Len(answers[e]) /\ Len(answers[e]) \in Nat
      BY <2>3, <3>1, LenProperties
    <3>3. CASE conn[e].pc \in {"engine", "report"}
      <4> DEFINE new == [request |-> conn[e].request, report |-> conn[e].report]
      <4>1. new \in AnswerRecord
        BY <3>1, <3>3 DEF ThreadOK, AnswerRecord
      <4>2. ToldTo(e) = Append(answers[e], new)
        BY <3>3 DEF ToldTo, Told
      <4> HIDE DEF new
      <4> QED BY <3>1, <3>2, <4>1, <4>2, AppendProperties
    <3>4. CASE conn[e].pc \notin {"engine", "report"}
      BY <3>2, <3>4 DEF ToldTo, Told
    <3> QED BY <3>3, <3>4
  <2>4. /\ i \in 1..Len(ToldTo(c)) /\ ToldTo(c)[i] = answers[c][i]
        /\ j \in 1..Len(ToldTo(d)) /\ ToldTo(d)[j] = answers[d][j]
    BY <2>1, <2>3
  <2>5. Disjoint(ToldTo(c)[i], ToldTo(d)[j])
    BY <2>1, <2>4, Zenon DEF ServerInv, ClaimsInv
  <2> QED BY <2>2, <2>4, <2>5
<1> QED
  BY <1>1, ServerAlwaysSound, PTL
=============================================================================
