---------------------------- MODULE ServerLemmas ----------------------------
(***************************************************************************)
(* The inductive invariant of the server, and what its threads and the     *)
(* callback do to it whatever the engine does.                             *)
(***************************************************************************)
EXTENDS ExchangeServer, ComponentLemmas

(***************************************************************************)
(* The inductive invariant.                                                *)
(***************************************************************************)

\* What a thread holds at each point of handle_client.
PCs == {"none", "loop", "recv", "check", "position", "exposure", "record",
        "submit", "engine", "cancel", "report", "done"}

Reports ==
    [order_id : Nat, status : OrderStatus, price : Int, quantity : Nat, remaining_qty : Nat]

ConnRecord ==
    [pc : PCs, peer : {"open", "closed"}, request : Requests \cup {NoRequest},
     whole : BOOLEAN, reason : RejectReason, report : Reports \cup {<< >>}]

AnswerRecord == [request : Requests, report : Reports]

\* The message and the report a thread holds where it uses them.
ThreadOK(t) ==
    /\ t.pc \in {"check", "position", "exposure", "record", "submit"}
          => t.request \in Requests \cap OrderMessages
    /\ t.pc = "cancel" => t.request \in Requests \cap CancelMessages
    /\ t.pc \in {"engine", "report"} => t.request \in Requests /\ t.report \in Reports

ConnInv ==
    /\ conn \in [Connections -> ConnRecord]
    /\ answers \in [Connections -> Seq(AnswerRecord)]
    /\ \A c \in Connections : ThreadOK(conn[c])

\* The risk layer is behind the engine's counters by the writes that the
\* callback in progress has still to make.
Writes == [side : Side, field : {"position", "exposure"}, price : Int, quantity : Nat]

CallbackInv ==
    LET last == callback[Len(callback)]
        made == 4 - Len(callback)
        n    == last.price * last.quantity
    IN  IF callback = << >>
        THEN /\ risk.exposure = 2 * stats.total_notional
             /\ position(risk, "AAPL") = 0
        ELSE /\ Len(callback) =< 4
             /\ \A i \in 1..Len(callback) : callback[i] = LegWrites(last)[made + i]
             /\ risk.exposure = 2 * stats.total_notional - (IF made < 2 THEN n + n ELSE n)
             /\ position(risk, "AAPL") = IF made \in {1, 2} THEN last.quantity ELSE 0

\* main books every fill under one symbol.
Checkers ==
    [limits : {Limits}, kill_switch : BOOLEAN, positions : [{} -> Int] \cup [{"AAPL"} -> Int],
     exposure : Int, stats : RiskStats]

RiskInv ==
    /\ risk \in Checkers
    /\ callback \in Seq(Writes)
    /\ IF gated THEN CallbackInv ELSE callback = << >>

\* An order within the limits on single orders.
WithinCaps(order) ==
    /\ order.quantity =< Limits.max_order_quantity
    /\ order.type # "Market" => order.price * order.quantity =< Limits.max_order_notional

\* A message of which check has passed the tests on the order itself.
Passed(m) == WithinCaps(m) /\ IsValid(m.type, m.price, m.quantity)

\* The thread is past those tests.
Cleared(t) ==
    \/ t.pc \in {"position", "exposure", "submit"}
    \/ t.pc = "record" /\ t.reason = "None"

BookedCaps ==
    /\ stats.total_rejects = 0
    /\ \A symbol \in DOMAIN books : \A id \in LiveIds(books[symbol]) :
          WithinCaps(OrderOf(books[symbol], id))

ClearedPassed == \A c \in Connections : Cleared(conn[c]) => Passed(conn[c].request)

CapsInv == gated => BookedCaps /\ ClearedPassed

\* What connection c was told, the report that is about to be sent included.
Told(t, sent) ==
    IF t.pc \in {"engine", "report"}
    THEN Append(sent, [request |-> t.request, report |-> t.report])
    ELSE sent

ToldTo(c) == Told(conn[c], answers[c])

\* An answer that says Accepted is of an ID that was handed out, one that says
\* Cancelled is of an order that is no longer live.
ClaimOK(bs, a) ==
    LET symbol == a.request.symbol
        id     == a.report.order_id
    IN  a.report.status \in {"Accepted", "Cancelled"} =>
            /\ symbol \in DOMAIN bs
            /\ id < bs[symbol].next_order_id
            /\ a.report.status = "Cancelled" => id \notin LiveIds(bs[symbol])

\* Two answers do not make the same claim of an order.
Disjoint(a, b) ==
    /\ a.request.symbol = b.request.symbol
    /\ a.report.status = b.report.status
    /\ a.report.status \in {"Accepted", "Cancelled"}
    => a.report.order_id # b.report.order_id

ClaimsInv ==
    \A c \in Connections : \A i \in 1..Len(ToldTo(c)) :
        /\ ClaimOK(books, ToldTo(c)[i])
        /\ \A d \in Connections : \A j \in 1..Len(ToldTo(d)) :
              c # d \/ i # j => Disjoint(ToldTo(c)[i], ToldTo(d)[j])

ServerInv == ConnInv /\ RiskInv /\ CapsInv /\ ClaimsInv

-----------------------------------------------------------------------------
(***************************************************************************)
(* The risk checker.                                                       *)
(***************************************************************************)

-----------------------------------------------------------------------------
(***************************************************************************)
(* The threads.                                                            *)
(***************************************************************************)

\* A step of one thread that sends nothing.
LEMMA OneThread ==
  ASSUME ConnInv, NEW c \in Connections, NEW t \in ConnRecord, ThreadOK(t),
         conn' = [conn EXCEPT ![c] = t], answers' = answers
  PROVE  ConnInv'
  BY DEF ConnInv

\* A step of a thread that changes its pc to one where it holds nothing.
LEMMA FreeThread ==
  ASSUME ConnInv, NEW c \in Connections, NEW pc \in {"none", "loop", "recv", "done"},
         Goto(c, pc), answers' = answers
  PROVE  ConnInv'
<1> DEFINE t == [conn[c] EXCEPT !.pc = pc]
<1>1. conn[c] \in ConnRecord
  BY DEF ConnInv
<1>2. t \in ConnRecord /\ ThreadOK(t)
  BY <1>1 DEF ConnRecord, PCs, ThreadOK
<1>3. conn' = [conn EXCEPT ![c] = t]
  BY DEF Goto
<1> HIDE DEF t
<1> QED
  BY Zenon, <1>2, <1>3, OneThread

\* A request is an order or a cancel, and each has its handler.
LEMMA MessageKinds ==
  ASSUME NEW request \in Requests
  PROVE  \/ /\ request \in OrderMessages
            /\ request.msg_type = "NewOrder"
            /\ Handler(request) = IF gated THEN "check" ELSE "submit"
         \/ /\ request \in CancelMessages
            /\ request.msg_type = "Cancel"
            /\ Handler(request) = "cancel"
<1>1. request \in OrderMessages \/ request \in CancelMessages
  BY ServerAssumption
<1>2. CASE request \in OrderMessages
  <2>1. request.msg_type = "NewOrder"
    BY <1>2 DEF OrderMessages
  <2> QED BY <1>2, <2>1 DEF Handler
<1>3. CASE request \in CancelMessages
  <2>1. request.msg_type = "Cancel"
    BY <1>3 DEF CancelMessages
  <2> QED BY <1>3, <2>1 DEF Handler
<1> QED
  BY <1>1, <1>2, <1>3

\* A message that comes in is for the handler of its type.
LEMMA ReceiveConn ==
  ASSUME ConnInv, NEW c \in Connections, NEW request \in Requests,
         Receive(c, request) \/ ReceivePart(c, request)
  PROVE  ConnInv'
<1>1. conn[c] \in ConnRecord /\ conn \in [Connections -> ConnRecord]
  BY DEF ConnInv
<1>2. PICK peer \in {"open", "closed"}, whole \in BOOLEAN :
        conn' = [conn EXCEPT ![c] = [@ EXCEPT !.pc = Handler(request), !.request = request,
                                              !.whole = whole, !.reason = "None", !.peer = peer]]
  <2>1. CASE Receive(c, request)
    <3>1. conn' = [conn EXCEPT ![c] = [@ EXCEPT !.pc = Handler(request), !.request = request,
                                              !.whole = TRUE, !.reason = "None", !.peer = conn[c].peer]]
      BY Zenon, <1>1, <2>1 DEF Receive, ConnRecord
    <3> QED BY Zenon, <1>1, <3>1 DEF ConnRecord
  <2>2. CASE ReceivePart(c, request)
    <3>1. conn' = [conn EXCEPT ![c] = [@ EXCEPT !.pc = Handler(request), !.request = request,
                                              !.whole = FALSE, !.reason = "None", !.peer = "closed"]]
      BY <1>1, <2>2 DEF ReceivePart, ConnRecord
    <3> QED BY Zenon, <3>1
  <2> QED BY Zenon, <2>1, <2>2
<1> DEFINE t == [conn[c] EXCEPT !.pc = Handler(request), !.request = request,
                                !.whole = whole, !.reason = "None", !.peer = peer]
<1>3. t.pc = Handler(request) /\ t.request = request
  BY <1>1 DEF ConnRecord
<1>4. Handler(request) \in PCs /\ "None" \in RejectReason
  BY MessageKinds DEF PCs, RejectReason
<1>5. t \in ConnRecord
  BY Zenon, <1>1, <1>4 DEF ConnRecord
<1> HIDE DEF t
<1>6. ThreadOK(t)
  BY <1>3, MessageKinds DEF ThreadOK
<1>7. conn' = [conn EXCEPT ![c] = t]
  BY <1>2 DEF t
<1>8. answers' = answers
  BY DEF Receive, ReceivePart
<1> QED
  BY Zenon, <1>5, <1>6, <1>7, <1>8, OneThread

\* A part of check: the order stays in hand and has a reason.
LEMMA CheckConn ==
  ASSUME ConnInv, NEW c \in Connections, NEW at, NEW from \in 1..7, NEW to \in 1..7,
         NEW next \in {"position", "exposure", "record"},
         at \in {"check", "position", "exposure"}, CheckPart(c, at, from, to, next)
  PROVE  ConnInv'
<1> DEFINE reason == FirstFailure(risk, Checked(conn[c].request), from, to)
           pc == IF reason = "None" THEN next ELSE "record"
           t  == [conn[c] EXCEPT !.reason = reason, !.pc = pc]
<1>1. conn[c] \in ConnRecord /\ ThreadOK(conn[c])
  BY DEF ConnInv
<1>2. conn[c].pc = at /\ answers' = answers
      /\ conn' = [conn EXCEPT ![c].reason = reason, ![c].pc = pc]
  BY Zenon DEF CheckPart
<1>3. reason \in RejectReason
  BY FailureReason
<1>4. pc \in {"position", "exposure", "record"}
  OBVIOUS
<1> HIDE DEF reason, pc
<1>5. t \in ConnRecord /\ t.pc = pc /\ t.request = conn[c].request
  BY Zenon, <1>1, <1>3, <1>4 DEF ConnRecord, PCs
<1>6. conn' = [conn EXCEPT ![c] = t]
  BY Zenon, <1>1, <1>2 DEF ConnInv
<1> HIDE DEF t
<1>7. ThreadOK(t)
  BY <1>1, <1>2, <1>4, <1>5 DEF ThreadOK
<1> QED
  BY Zenon, <1>2, <1>5, <1>6, <1>7, OneThread

\* A thread gets the report it will send.
LEMMA AnswerConn ==
  ASSUME ConnInv, NEW c \in Connections, NEW pc \in {"engine", "report"}, NEW id \in Nat,
         NEW status \in OrderStatus, conn[c].request \in Requests, answers' = answers,
         conn' = [conn EXCEPT ![c].pc = pc, ![c].report = Report(conn[c].request, id, status)]
  PROVE  ConnInv' /\ Report(conn[c].request, id, status) \in Reports
<1> DEFINE r == Report(conn[c].request, id, status)
           t == [conn[c] EXCEPT !.pc = pc, !.report = r]
<1>1. conn[c] \in ConnRecord
  BY DEF ConnInv
<1>2. r \in Reports
  <2>1. CASE conn[c].request \in OrderMessages
    <3>1. conn[c].request.price \in Int /\ conn[c].request.quantity \in Nat
      BY <2>1, EngineAssumption DEF OrderMessages
    <3> QED BY <3>1 DEF Report, Reports
  <2>2. CASE conn[c].request \in CancelMessages
    <3>1. conn[c].request.msg_type = "Cancel"
      BY <2>2 DEF CancelMessages
    <3> QED BY <3>1 DEF Report, Reports
  <2> QED BY <2>1, <2>2, ServerAssumption
<1> HIDE DEF r
<1>3. t \in ConnRecord /\ t.request = conn[c].request /\ t.report = r
  BY Zenon, <1>1, <1>2 DEF ConnRecord, PCs
<1>4. conn' = [conn EXCEPT ![c] = t]
  BY Zenon, <1>1 DEF ConnInv, r
<1>5. t.pc = pc
  BY <1>1 DEF ConnRecord
<1> HIDE DEF t
<1>6. ThreadOK(t)
  BY <1>2, <1>3, <1>5 DEF ThreadOK
<1>7. ConnInv'
  BY Zenon, <1>3, <1>4, <1>6, OneThread
<1> QED BY <1>2, <1>7 DEF r

\* An answer is sent and the thread goes back to its loop.
LEMMA SendConn ==
  ASSUME ConnInv, NEW c \in Connections, SendReport(c)
  PROVE  ConnInv'
<1> DEFINE a == [request |-> conn[c].request, report |-> conn[c].report]
           t == [conn[c] EXCEPT !.pc = "loop", !.request = NoRequest, !.report = << >>,
                                !.reason = "None", !.whole = TRUE]
<1>1. conn[c] \in ConnRecord /\ ThreadOK(conn[c]) /\ conn[c].pc = "report"
      /\ answers \in [Connections -> Seq(AnswerRecord)] /\ conn \in [Connections -> ConnRecord]
  BY DEF ConnInv, SendReport
<1>2. conn[c].request \in Requests /\ conn[c].report \in Reports
  BY <1>1 DEF ThreadOK
<1>3. a \in AnswerRecord
  BY <1>2 DEF AnswerRecord
<1>4. t \in ConnRecord /\ t.pc = "loop"
  BY Zenon, <1>1 DEF ConnRecord, PCs, RejectReason
<1>5. conn' = [conn EXCEPT ![c] = t]
  BY Zenon, <1>1 DEF SendReport
<1> HIDE DEF a, t
<1>6. answers' = [answers EXCEPT ![c] = Append(@, a)]
  BY DEF SendReport, a
<1>7. answers' \in [Connections -> Seq(AnswerRecord)]
  BY <1>1, <1>3, <1>6
<1>8. ThreadOK(t)
  BY <1>4 DEF ThreadOK
<1> QED
  BY Zenon, <1>1, <1>4, <1>5, <1>7, <1>8 DEF ConnInv

\* check has returned.
LEMMA RecordConn ==
  ASSUME ConnInv, NEW c \in Connections, Record(c)
  PROVE  ConnInv'
<1>1. conn[c] \in ConnRecord /\ ThreadOK(conn[c]) /\ conn[c].pc = "record"
      /\ conn \in [Connections -> ConnRecord] /\ answers' = answers
  BY DEF ConnInv, Record
<1>2. conn[c].request \in Requests \cap OrderMessages
  BY <1>1 DEF ThreadOK
<1>3. CASE conn[c].reason = "None"
  <2> DEFINE t == [conn[c] EXCEPT !.pc = "submit"]
  <2>1. t \in ConnRecord /\ t.pc = "submit" /\ t.request = conn[c].request
    BY <1>1 DEF ConnRecord, PCs
  <2>2. conn' = [conn EXCEPT ![c] = t]
    BY Zenon, <1>1, <1>3 DEF Record, ConnRecord
  <2> HIDE DEF t
  <2>3. ThreadOK(t)
    BY <1>2, <2>1 DEF ThreadOK
  <2> QED BY Zenon, <1>1, <2>1, <2>2, <2>3, OneThread
<1>4. CASE conn[c].reason # "None"
  <2>1. conn' = [conn EXCEPT ![c].pc = "report",
                             ![c].report = Report(conn[c].request, 0, "Rejected")]
    BY <1>4 DEF Record
  <2>2. 0 \in Nat /\ "Rejected" \in OrderStatus
    BY DEF OrderStatus
  <2> QED BY Zenon, <1>1, <1>2, <2>1, <2>2, AnswerConn
<1> QED
  BY <1>3, <1>4

\* The engine's calls leave a report behind: refused,
LEMMA RefusedConn ==
  ASSUME ConnInv, NEW c \in Connections, SubmitRefused(c)
  PROVE  ConnInv'
<1>1. /\ ThreadOK(conn[c]) /\ conn[c].pc = "submit" /\ answers' = answers
      /\ conn' = [conn EXCEPT ![c].pc = "report",
                              ![c].report = Report(conn[c].request, 0, "Rejected")]
  BY DEF ConnInv, SubmitRefused
<1>2. conn[c].request \in Requests /\ 0 \in Nat /\ "Rejected" \in OrderStatus
  BY <1>1 DEF ThreadOK, OrderStatus
<1> QED
  BY Zenon, <1>1, <1>2, AnswerConn

\* or cancelled or not.
LEMMA CancelConn ==
  ASSUME ConnInv, NEW c \in Connections, Cancel(c)
  PROVE  ConnInv'
<1> DEFINE m == conn[c].request
           cancelled == m.symbol \in DOMAIN books /\ m.order_id \in LiveIds(books[m.symbol])
           status == IF cancelled THEN "Cancelled" ELSE "Rejected"
<1>1. /\ ThreadOK(conn[c]) /\ conn[c].pc = "cancel" /\ answers' = answers
      /\ conn' = [conn EXCEPT ![c].pc = "report", ![c].report = Report(m, m.order_id, status)]
  BY DEF ConnInv, Cancel
<1>2. m \in Requests /\ m \in CancelMessages /\ status \in OrderStatus
  BY <1>1 DEF ThreadOK, OrderStatus
<1>3. m.order_id \in Nat
  BY <1>2 DEF CancelMessages
<1> HIDE DEF status
<1> QED
  BY Zenon, <1>1, <1>2, <1>3, AnswerConn

\* The engine returns to the thread.
LEMMA ReturnConn ==
  ASSUME ConnInv, NEW c \in Connections, Return(c)
  PROVE  ConnInv'
<1> DEFINE t == [conn[c] EXCEPT !.pc = "report"]
<1>1. conn[c] \in ConnRecord /\ ThreadOK(conn[c]) /\ conn[c].pc = "engine"
      /\ conn \in [Connections -> ConnRecord] /\ answers' = answers
  BY DEF ConnInv, Return
<1>2. t \in ConnRecord /\ t.pc = "report" /\ t.request = conn[c].request
      /\ t.report = conn[c].report
  BY <1>1 DEF ConnRecord, PCs
<1>3. conn' = [conn EXCEPT ![c] = t]
  BY <1>1 DEF Return, Goto
<1> HIDE DEF t
<1>4. ThreadOK(t)
  BY <1>1, <1>2 DEF ThreadOK
<1> QED
  BY Zenon, <1>1, <1>2, <1>3, <1>4, OneThread

-----------------------------------------------------------------------------
(***************************************************************************)
(* The calls of the threads into the engine.                               *)
(***************************************************************************)

\* The fields of an order message are arguments of submit_order.
LEMMA MessageFields ==
  ASSUME NEW m \in OrderMessages
  PROVE  m.symbol \in Symbols /\ m.side \in Side /\ m.type \in OrderType /\ m.price \in Prices
         /\ m.quantity \in Quantities /\ m.price \in Int /\ m.quantity \in Nat
  BY Zenon, EngineAssumption DEF OrderMessages

\* What a step of the server does to the engine: nothing, or one call's step.
LEMMA EngineMoves ==
  ASSUME ConnInv, [ServerNext]_serverVars
  PROVE  \/ UNCHANGED vars
         \/ Proceed
         \/ \E symbol \in Symbols : \E id : CancelOrder(symbol, id)
         \/ \E c \in Connections : SubmitRefused(c)
         \/ \E c \in Connections : Submit(c)
<1> DEFINE Goal ==
         \/ UNCHANGED vars
         \/ Proceed
         \/ \E symbol \in Symbols : \E id : CancelOrder(symbol, id)
         \/ \E c \in Connections : SubmitRefused(c)
         \/ \E c \in Connections : Submit(c)
<1>1. ASSUME NEW c \in Connections, ThreadStep(c)
      PROVE  Goal
  <2>1. CASE Loop(c) \/ Hangup(c) \/ CheckOrder(c) \/ CheckPosition(c) \/ CheckExposure(c)
             \/ Record(c) \/ OnFill(c) \/ SendReport(c)
    <3>1. UNCHANGED vars
      BY <2>1 DEF Loop, Hangup, CheckOrder, CheckPosition, CheckExposure, CheckPart, Record,
                  OnFill, SendReport
    <3> QED BY <3>1
  <2>2. CASE SubmitRefused(c)
    BY <2>2
  <2>3. CASE Cancel(c)
    <3>1. conn[c].pc = "cancel" /\ ThreadOK(conn[c])
      BY <2>3 DEF Cancel, ConnInv
    <3>2. conn[c].request \in CancelMessages
      BY <3>1 DEF ThreadOK
    <3>3. conn[c].request.symbol \in Symbols
      BY <3>2 DEF CancelMessages
    <3> QED BY <2>3, <3>3, Zenon DEF Cancel
  <2>4. CASE Match(c) \/ Deliver(c) \/ Return(c)
    <3>1. Proceed
      BY <2>4 DEF Match, Deliver, Return, Proceed
    <3> QED BY <3>1
  <2>5. CASE Submit(c)
    BY <2>5
  <2> HIDE DEF Goal
  <2> QED BY <1>1, <2>1, <2>2, <2>3, <2>4, <2>5, Zenon DEF ThreadStep
<1>2. ASSUME NEW c \in Connections, Accept(c) \/ PeerCloses(c) \/ Skip(c)
      PROVE  UNCHANGED vars
  BY <1>2 DEF Accept, PeerCloses, Skip
<1>3. ASSUME NEW c \in Connections, NEW request \in Requests,
             Receive(c, request) \/ ReceivePart(c, request)
      PROVE  UNCHANGED vars
  BY <1>3 DEF Receive, ReceivePart
<1>4. CASE EngageKillSwitch \/ DisengageKillSwitch \/ Stop \/ Stopped
  <2>1. UNCHANGED vars
    BY <1>4 DEF EngageKillSwitch, DisengageKillSwitch, Stop, Stopped
  <2> QED BY <2>1
<1>5. CASE UNCHANGED serverVars
  <2>1. UNCHANGED vars
    BY <1>5 DEF serverVars
  <2> QED BY <2>1
<1>6. UNCHANGED vars => Goal
  OBVIOUS
<1>7. Goal
  <2> HIDE DEF Goal
  <2> QED BY <1>1, <1>2, <1>3, <1>4, <1>5, <1>6, Zenon DEF ServerNext, Goal
<1> QED
  BY <1>7

\* A thread that submits holds an order message.
LEMMA SubmitMessage ==
  ASSUME ConnInv, NEW c \in Connections, conn[c].pc = "submit"
  PROVE  conn[c].request \in OrderMessages /\ conn[c].request \in Requests
<1>1. ThreadOK(conn[c])
  BY DEF ConnInv
<1> QED
  BY <1>1 DEF ThreadOK

-----------------------------------------------------------------------------
(***************************************************************************)
(* The callback and the risk layer.                                        *)
(***************************************************************************)

\* A step that neither counts a trade nor books a fill.
LEMMA RiskSame ==
  ASSUME RiskInv, risk' \in Checkers, risk'.positions = risk.positions,
         risk'.exposure = risk.exposure, callback' = callback, gated' = gated,
         stats'.total_notional = stats.total_notional
  PROVE  RiskInv'
  BY Zenon DEF RiskInv, CallbackInv, position

\* Only delivering a trade changes total_notional.
LEMMA NotionalSame ==
  ASSUME stats \in EngineStats, ConnInv, [ServerNext]_serverVars, ~ReportTrade
  PROVE  stats'.total_notional = stats.total_notional
<1>1. CASE UNCHANGED vars \/ MatchStep \/ MatchDone \/ Finish
  BY <1>1 DEF vars, MatchStep, MatchDone, Finish
<1>2. ASSUME NEW symbol \in Symbols, NEW id, CancelOrder(symbol, id)
      PROVE  stats'.total_notional = stats.total_notional
  <2>1. stats' = stats \/ stats' = [stats EXCEPT !.total_cancels = @ + 1]
    BY <1>2 DEF CancelOrder
  <2> QED BY <2>1 DEF EngineStats
<1>3. ASSUME NEW c \in Connections, SubmitRefused(c)
      PROVE  stats'.total_notional = stats.total_notional
  <2>1. stats' = [stats EXCEPT !.total_orders = @ + 1, !.total_rejects = @ + 1]
    BY <1>3 DEF SubmitRefused, RejectOrder
  <2> QED BY <2>1 DEF EngineStats
<1>4. ASSUME NEW c \in Connections, Submit(c)
      PROVE  stats'.total_notional = stats.total_notional
  <2>1. stats' = [stats EXCEPT !.total_orders = @ + 1]
    BY <1>4 DEF Submit, AcceptOrder
  <2> QED BY <2>1 DEF EngineStats
<1> QED
  BY <1>1, <1>2, <1>3, <1>4, EngineMoves, Zenon DEF Proceed

\* The two writes of on_fill under the symbol of main.
LEMMA FillWrites ==
  ASSUME risk \in Checkers, NEW side \in Side, NEW price \in Int, NEW q \in Nat
  PROVE  LET r == FillPosition(risk, "AAPL", side, q)
             e == FillExposure(risk, price, q)
         IN  /\ r \in Checkers /\ r.exposure = risk.exposure
             /\ position(r, "AAPL") = position(risk, "AAPL") + Delta(side, q)
             /\ e \in Checkers /\ e.positions = risk.positions
             /\ e.exposure = risk.exposure + price * q
<1> DEFINE r == FillPosition(risk, "AAPL", side, q)
           e == FillExposure(risk, price, q)
           n == price * q
           new == [s \in DOMAIN risk.positions \cup {"AAPL"} |->
                     position(risk, s) + (IF s = "AAPL" THEN Delta(side, q) ELSE 0)]
<1>1. DOMAIN risk.positions \subseteq {"AAPL"}
      /\ \A s \in DOMAIN risk.positions : risk.positions[s] \in Int
  BY DEF Checkers
<1>2. position(risk, "AAPL") \in Int /\ Delta(side, q) \in Int /\ n \in Int
  BY <1>1 DEF position, Delta
<1>3. DOMAIN risk.positions \cup {"AAPL"} = {"AAPL"}
  BY <1>1
<1>4. new = [s \in {"AAPL"} |-> position(risk, "AAPL") + Delta(side, q)]
  BY <1>3
<1> HIDE DEF new, n
<1>5. new \in [{"AAPL"} -> Int] /\ DOMAIN new = {"AAPL"}
      /\ new["AAPL"] = position(risk, "AAPL") + Delta(side, q)
  BY <1>2, <1>4
<1>6. r = [risk EXCEPT !.positions = new]
  BY DEF FillPosition, new
<1>7. e = [risk EXCEPT !.exposure = @ + n]
  BY DEF FillExposure, n
<1> HIDE DEF r, e
<1>8. r \in Checkers /\ r.exposure = risk.exposure /\ r.positions = new
  BY <1>5, <1>6 DEF Checkers
<1>9. e \in Checkers /\ e.positions = risk.positions /\ e.exposure = risk.exposure + n
  BY <1>2, <1>7 DEF Checkers
<1>10. position(r, "AAPL") = position(risk, "AAPL") + Delta(side, q)
  <2>1. position(r, "AAPL") = new["AAPL"]
    BY <1>5, <1>8 DEF position
  <2> QED BY <1>5, <2>1
<1> QED
  BY <1>5, <1>8, <1>9, <1>10 DEF r, e, n

\* Each write of the callback brings the risk layer closer to the counters.
LEMMA OnFillRisk ==
  ASSUME stats \in EngineStats, RiskInv, NEW c \in Connections, OnFill(c)
  PROVE  RiskInv'
<1>0. PICK L : L = Len(callback)
  OBVIOUS
<1>t. PICK t : t = callback[L]
  OBVIOUS
<1> DEFINE write == Head(callback)
           N == stats.total_notional
           n == t.price * t.quantity
<1>1. /\ callback # << >> /\ callback' = Tail(callback) /\ stats' = stats /\ gated' = gated
      /\ risk' = IF write.field = "position"
                 THEN FillPosition(risk, "AAPL", write.side, write.quantity)
                 ELSE FillExposure(risk, write.price, write.quantity)
  BY DEF OnFill, vars
<1>2. gated /\ risk \in Checkers /\ callback \in Seq(Writes)
  BY <1>1 DEF RiskInv
<1>3. /\ L =< 4
      /\ \A i \in 1..L : callback[i] = LegWrites(t)[4 - L + i]
      /\ risk.exposure = 2 * N - (IF 4 - L < 2 THEN n + n ELSE n)
      /\ position(risk, "AAPL") = IF 4 - L \in {1, 2} THEN t.quantity ELSE 0
  BY <1>0, <1>t, <1>1, <1>2 DEF RiskInv, CallbackInv
<1>4. /\ L \in 1..4 /\ t \in Writes /\ write = callback[1]
      /\ callback' \in Seq(Writes) /\ Len(callback') = L - 1
      /\ \A i \in 1..(L - 1) : callback'[i] = callback[i + 1]
  <2>1. L \in Nat /\ L # 0
    BY <1>0, <1>1, <1>2
  <2>2. L \in 1..4 /\ t \in Writes
    BY <1>0, <1>t, <1>2, <1>3, <2>1
  <2> QED BY <1>0, <1>1, <1>2, <2>2, HeadTailProperties, SMTT(30)
<1>5. /\ t.price \in Int /\ t.quantity \in Nat /\ n \in Int /\ N \in Int
      /\ risk.exposure \in Int
  <2>1. t.price \in Int /\ t.quantity \in Nat
    BY <1>4 DEF Writes
  <2>2. n \in Int
    BY <2>1
  <2> QED BY <1>2, <2>1, <2>2 DEF EngineStats, Checkers
<1>6. write = LegWrites(t)[5 - L]
  <2>1. 1 \in 1..L /\ 4 - L + 1 = 5 - L
    BY <1>4
  <2> QED BY <1>3, <1>4, <2>1
<1>7. /\ write.price = t.price /\ write.quantity = t.quantity
      /\ L = 4 => write.field = "position" /\ write.side = "Buy"
      /\ L = 3 => write.field = "exposure"
      /\ L = 2 => write.field = "position" /\ write.side = "Sell"
      /\ L = 1 => write.field = "exposure"
  <2>1. 5 - L \in 1..4
    BY <1>4
  <2>2. write = [side  |-> IF 5 - L =< 2 THEN "Buy" ELSE "Sell",
                 field |-> IF (5 - L) % 2 = 1 THEN "position" ELSE "exposure",
                 price |-> t.price, quantity |-> t.quantity]
    BY <1>6, <2>1 DEF LegWrites
  <2> HIDE DEF write
  <2> QED BY <1>4, <2>2
<1> HIDE DEF write, n, N
<1>9. \A side \in Side :
        LET r == FillPosition(risk, "AAPL", side, t.quantity)
            e == FillExposure(risk, t.price, t.quantity)
        IN  /\ r \in Checkers /\ r.exposure = risk.exposure
            /\ position(r, "AAPL") = position(risk, "AAPL") + Delta(side, t.quantity)
            /\ e \in Checkers /\ e.positions = risk.positions
            /\ e.exposure = risk.exposure + n
  BY Zenon, <1>2, <1>5, FillWrites DEF n

<1>10. risk' \in Checkers
       /\ risk'.exposure = risk.exposure + (IF L \in {1, 3} THEN n ELSE 0)
       /\ position(risk', "AAPL") = IF L \in {4, 3} THEN t.quantity ELSE 0
  <2>1. CASE L = 4
    <3>1. risk' = FillPosition(risk, "AAPL", "Buy", t.quantity) /\ "Buy" \in Side
      BY <1>1, <1>7, <2>1 DEF Side
    <3>2. position(risk, "AAPL") = 0 /\ Delta("Buy", t.quantity) = t.quantity
      BY <1>3, <2>1 DEF Delta
    <3> QED BY <1>5, <1>9, <2>1, <3>1, <3>2
  <2>2. CASE L = 2
    <3>1. risk' = FillPosition(risk, "AAPL", "Sell", t.quantity) /\ "Sell" \in Side
      BY <1>1, <1>7, <2>2 DEF Side
    <3>2. Delta("Sell", t.quantity) = -t.quantity
      BY DEF Delta
    <3>3. position(risk, "AAPL") = t.quantity
      BY <1>3, <2>2
    <3> QED BY <1>5, <1>9, <2>2, <3>1, <3>2, <3>3
  <2>3. CASE L \in {1, 3}
    <3>1. risk' = FillExposure(risk, t.price, t.quantity)
      BY <1>1, <1>7, <2>3
    <3>2. "Buy" \in Side
      BY DEF Side
    <3>3. risk' \in Checkers /\ risk'.positions = risk.positions
          /\ risk'.exposure = risk.exposure + n
      BY <1>9, <3>1, <3>2
    <3>4. 4 - L \in {1, 2} <=> L = 3
      BY <2>3
    <3>5. position(risk', "AAPL") = position(risk, "AAPL")
      BY <3>3 DEF position
    <3> QED BY <1>3, <2>3, <3>3, <3>4, <3>5
  <2> QED BY <1>4, <2>1, <2>2, <2>3
<1>11. CallbackInv'
  <2>1. CASE L = 1
    <3>1. callback' = << >>
      BY <1>4, <2>1
    <3>2. risk'.exposure = 2 * stats'.total_notional
      BY <1>1, <1>3, <1>5, <1>10, <2>1 DEF N
    <3>3. position(risk', "AAPL") = 0
      BY <1>10, <2>1
    <3> QED BY <3>1, <3>2, <3>3 DEF CallbackInv
  <2>2. CASE L # 1
    <3>1. /\ Len(callback') = L - 1 /\ L - 1 =< 4 /\ callback' # << >>
          /\ L - 1 \in 1..(L - 1) /\ L - 1 + 1 = L
      BY <1>4, <2>2
    <3>2. callback'[Len(callback')] = t
      BY <1>4, <1>t, <3>1
    <3>3. 4 - Len(callback') = 5 - L
      BY <1>4
    <3>4. \A i \in 1..Len(callback') : callback'[i] = LegWrites(t)[5 - L + i]
      <4> TAKE i \in 1..Len(callback')
      <4>1. i \in 1..(L - 1) /\ i + 1 \in 1..L /\ 4 - L + (i + 1) = 5 - L + i
        BY <1>4
      <4> QED BY <1>3, <1>4, <4>1
    <3>5. risk'.exposure = 2 * stats'.total_notional - (IF 5 - L < 2 THEN n + n ELSE n)
      BY <1>1, <1>3, <1>4, <1>5, <1>10, <2>2 DEF N
    <3>6. position(risk', "AAPL") = IF 5 - L \in {1, 2} THEN t.quantity ELSE 0
      <4>1. 5 - L \in {1, 2} <=> L \in {4, 3}
        BY <1>4
      <4> QED BY <1>10, <4>1
    <3> QED BY <3>1, <3>2, <3>3, <3>4, <3>5, <3>6, Zenon DEF CallbackInv, n
  <2> QED BY <2>1, <2>2
<1> QED
  BY <1>1, <1>2, <1>4, <1>10, <1>11 DEF RiskInv

-----------------------------------------------------------------------------
(***************************************************************************)
(* The limits on single orders.                                            *)
(***************************************************************************)

\* The first five tests of check pass only an order within the limits that
\* submit_order accepts.
LEMMA TestsPassed ==
  ASSUME risk \in Checkers, NEW m \in OrderMessages,
         FirstFailure(risk, Checked(m), 1, 5) = "None"
  PROVE  Passed(m)
<1> DEFINE order == Checked(m)
<1>1. \A i \in 1..5 : ~Fails(risk, order, Tests[i])
  BY FailureReason
<1>2. /\ order.type = m.type /\ order.price = m.price /\ order.quantity = m.quantity
      /\ risk.limits = Limits
  BY DEF Checked, Checkers
<1>3. /\ ~Fails(risk, order, "InvalidQuantity") /\ ~Fails(risk, order, "InvalidPrice")
      /\ ~Fails(risk, order, "MaxOrderQuantityExceeded")
      /\ ~Fails(risk, order, "MaxOrderNotionalExceeded")
  BY <1>1 DEF Tests
<1> HIDE DEF order
<1>4. /\ m.quantity # 0 /\ ~(m.type = "Limit" /\ m.price =< 0)
      /\ ~(m.quantity > Limits.max_order_quantity)
      /\ ~(m.type # "Market" /\ m.price * m.quantity > Limits.max_order_notional)
  <2>1. m.quantity # 0
    BY <1>2, <1>3 DEF Fails
  <2>2. ~(m.type = "Limit" /\ m.price =< 0)
    BY <1>2, <1>3 DEF Fails
  <2>3. ~(m.quantity > Limits.max_order_quantity)
    BY <1>2, <1>3 DEF Fails
  <2>4. ~(m.type # "Market" /\ m.price * m.quantity > Limits.max_order_notional)
    BY <1>2, <1>3 DEF Fails
  <2> QED BY <2>1, <2>2, <2>3, <2>4
<1>5. /\ m.price \in Int /\ m.quantity \in Nat /\ m.price * m.quantity \in Int
      /\ Limits.max_order_quantity \in Nat /\ Limits.max_order_notional \in Int
  <2>1. m.price \in Int /\ m.quantity \in Nat
    BY MessageFields
  <2> QED BY <2>1, ServerAssumption DEF RiskLimits
<1> QED
  BY <1>4, <1>5 DEF Passed, WithinCaps, IsValid

\* A part of check has set the reason and the pc of its thread.
PartDone(c, reason, next) ==
    /\ conn'[c].request = conn[c].request
    /\ conn'[c].reason = reason
    /\ conn'[c].pc = IF reason = "None" THEN next ELSE "record"
    /\ \A d \in Connections \ {c} : conn'[d] = conn[d]

\* A part of check changes only the reason and the pc of its thread.
LEMMA CheckThread ==
  ASSUME ConnInv, NEW c \in Connections, NEW at, NEW from, NEW to,
         NEW next \in {"position", "exposure", "record"}, CheckPart(c, at, from, to, next)
  PROVE  PartDone(c, FirstFailure(risk, Checked(conn[c].request), from, to), next)
<1> DEFINE reason == FirstFailure(risk, Checked(conn[c].request), from, to)
<1>1. conn' = [conn EXCEPT ![c].reason = reason,
                           ![c].pc = IF reason = "None" THEN next ELSE "record"]
  BY Zenon DEF CheckPart
<1>2. conn[c] \in ConnRecord /\ conn \in [Connections -> ConnRecord]
  BY DEF ConnInv
<1> HIDE DEF reason
<1>3. /\ conn'[c].request = conn[c].request /\ conn'[c].reason = reason
      /\ conn'[c].pc = IF reason = "None" THEN next ELSE "record"
      /\ \A d \in Connections \ {c} : conn'[d] = conn[d]
  BY <1>1, <1>2 DEF ConnRecord
<1>4. PartDone(c, reason, next)
  BY <1>3, Zenon DEF PartDone
<1> QED
  BY <1>4 DEF reason

\* A thread gets past the tests on the order only with a message that passes
\* them, and keeps that message until it has submitted it.
LEMMA ClearedStep ==
  ASSUME ConnInv, risk \in Checkers, gated, ClearedPassed, [ServerNext]_serverVars
  PROVE  ClearedPassed'
<1>0. \A c \in Connections : conn[c] \in ConnRecord /\ ThreadOK(conn[c])
      /\ (Cleared(conn[c]) => Passed(conn[c].request))
  BY DEF ConnInv, ClearedPassed
<1>t. conn \in [Connections -> ConnRecord]
  BY DEF ConnInv
<1>1. conn' = conn => ClearedPassed'
  BY DEF ClearedPassed
<1>2. ASSUME NEW c \in Connections, NEW t, conn' = [conn EXCEPT ![c] = t],
             Cleared(t) => Passed(t.request)
      PROVE  ClearedPassed'
  BY <1>0, <1>t, <1>2 DEF ClearedPassed
<1>3. ASSUME NEW c \in Connections, NEW t, conn' = [conn EXCEPT ![c] = t],
             t.pc \notin {"position", "exposure", "submit", "record"}
      PROVE  ClearedPassed'
  BY Zenon, <1>2, <1>3 DEF Cleared
<1>4. ASSUME NEW c \in Connections, NEW at, NEW from, NEW to,
             NEW next \in {"position", "exposure", "record"}, CheckPart(c, at, from, to, next),
             FirstFailure(risk, Checked(conn[c].request), from, to) = "None"
                => Passed(conn[c].request)
      PROVE  ClearedPassed'
  <2> DEFINE reason == FirstFailure(risk, Checked(conn[c].request), from, to)
  <2>1. /\ conn'[c].request = conn[c].request /\ conn'[c].reason = reason
        /\ conn'[c].pc = IF reason = "None" THEN next ELSE "record"
        /\ \A d \in Connections \ {c} : conn'[d] = conn[d]
    <3>1. CheckPart(c, at, from, to, next) /\ next \in {"position", "exposure", "record"}
      BY <1>4
    <3>2. PartDone(c, reason, next)
      BY <3>1, CheckThread, Zenon
    <3> QED BY <3>2 DEF PartDone
  <2>2. Cleared(conn'[c]) => reason = "None"
    BY <2>1 DEF Cleared
  <2> QED BY <1>0, <1>4, <2>1, <2>2 DEF ClearedPassed
<1>5. ASSUME NEW c \in Connections, ThreadStep(c)
      PROVE  ClearedPassed'
  <2>0. ASSUME NEW pc \in {"engine", "report"}, NEW report,
               conn' = [conn EXCEPT ![c].pc = pc, ![c].report = report]
        PROVE  ClearedPassed'
    <3>1. [conn[c] EXCEPT !.pc = pc, !.report = report].pc = pc
      BY <1>0 DEF ConnRecord
    <3> QED BY Zenon, <1>3, <2>0, <3>1
  <2>1. CASE Loop(c) \/ Hangup(c) \/ Return(c)
    <3>1. PICK pc \in {"recv", "done", "report"} : conn' = [conn EXCEPT ![c].pc = pc]
      BY Zenon, <2>1 DEF Loop, Hangup, Return, Goto
    <3>2. [conn[c] EXCEPT !.pc = pc].pc = pc
      BY <1>0 DEF ConnRecord
    <3> QED BY Zenon, <1>3, <3>1, <3>2
  <2>2. CASE CheckOrder(c)
    <3>1. conn[c].pc = "check"
      BY <2>2 DEF CheckOrder, CheckPart
    <3>2. conn[c].request \in OrderMessages
      BY <1>0, <3>1 DEF ThreadOK
    <3> QED BY <1>4, <2>2, <3>2, TestsPassed DEF CheckOrder
  <2>3. CASE CheckPosition(c)
    <3>1. Passed(conn[c].request)
      BY <1>0, <2>3 DEF CheckPosition, CheckPart, Cleared
    <3> QED BY <1>4, <2>3, <3>1 DEF CheckPosition
  <2>4. CASE CheckExposure(c)
    <3>1. Passed(conn[c].request)
      BY <1>0, <2>4 DEF CheckExposure, CheckPart, Cleared
    <3> QED BY <1>4, <2>4, <3>1 DEF CheckExposure
  <2>5. CASE Record(c)
    <3>1. /\ conn[c].pc = "record"
          /\ conn' = [conn EXCEPT
                ![c].pc = IF conn[c].reason = "None" THEN "submit" ELSE "report",
                ![c].report = IF conn[c].reason = "None"
                              THEN @ ELSE Report(conn[c].request, 0, "Rejected")]
      BY <2>5 DEF Record
    <3> DEFINE t == conn'[c]
    <3>2. /\ conn' = [conn EXCEPT ![c] = t] /\ t.request = conn[c].request
          /\ t.pc = IF conn[c].reason = "None" THEN "submit" ELSE "report"
      BY Zenon, <1>0, <1>t, <3>1 DEF ConnRecord
    <3> HIDE DEF t
    <3>3. Cleared(t) => Cleared(conn[c])
      BY <3>1, <3>2 DEF Cleared
    <3> QED BY Zenon, <1>0, <1>2, <3>2, <3>3
  <2>6. CASE SubmitRefused(c) \/ Submit(c) \/ Cancel(c)
    <3> DEFINE m == conn[c].request
               id == get_order_book(m.symbol)[m.symbol].next_order_id
               cancelled == m.symbol \in DOMAIN books /\ m.order_id \in LiveIds(books[m.symbol])
    <3>1. CASE SubmitRefused(c)
      <4>1. conn' = [conn EXCEPT ![c].pc = "report", ![c].report = Report(m, 0, "Rejected")]
        BY <3>1 DEF SubmitRefused
      <4> QED BY Zenon, <2>0, <4>1
    <3>2. CASE Submit(c)
      <4>1. conn' = [conn EXCEPT ![c].pc = "engine", ![c].report = Report(m, id, "Accepted")]
        BY <3>2 DEF Submit
      <4> QED BY Zenon, <2>0, <4>1
    <3>3. CASE Cancel(c)
      <4>1. conn' = [conn EXCEPT ![c].pc = "report",
               ![c].report = Report(m, m.order_id, IF cancelled THEN "Cancelled" ELSE "Rejected")]
        BY <3>3 DEF Cancel
      <4> QED BY Zenon, <2>0, <4>1
    <3> QED BY <2>6, <3>1, <3>2, <3>3
  <2>7. CASE Match(c) \/ Deliver(c) \/ OnFill(c)
    BY Zenon, <1>1, <2>7 DEF Match, Deliver, OnFill
  <2>8. CASE SendReport(c)
    <3> DEFINE t == [conn[c] EXCEPT !.pc = "loop", !.request = NoRequest, !.report = << >>,
                                    !.reason = "None", !.whole = TRUE]
    <3>1. t.pc = "loop"
      BY <1>0 DEF ConnRecord
    <3>2. conn' = [conn EXCEPT ![c] = t]
      BY Zenon, <2>8 DEF SendReport
    <3> HIDE DEF t
    <3> QED BY Zenon, <1>3, <3>1, <3>2
  <2> QED BY <1>5, <2>1, <2>2, <2>3, <2>4, <2>5, <2>6, <2>7, <2>8 DEF ThreadStep
<1>6. ASSUME NEW c \in Connections, Accept(c) \/ PeerCloses(c) \/ Skip(c)
      PROVE  ClearedPassed'
  <2>1. CASE Accept(c) \/ Skip(c)
    <3>1. conn' = [conn EXCEPT ![c].pc = "loop"]
      BY Zenon, <2>1 DEF Accept, Skip, Goto
    <3>2. [conn[c] EXCEPT !.pc = "loop"].pc = "loop"
      BY <1>0 DEF ConnRecord
    <3> QED BY Zenon, <1>3, <3>1, <3>2
  <2>2. CASE PeerCloses(c)
    <3> DEFINE t == [conn[c] EXCEPT !.peer = "closed"]
    <3>1. t.pc = conn[c].pc /\ t.reason = conn[c].reason /\ t.request = conn[c].request
      BY <1>0 DEF ConnRecord
    <3>2. conn' = [conn EXCEPT ![c] = t]
      BY <2>2 DEF PeerCloses
    <3> HIDE DEF t
    <3>3. Cleared(t) => Cleared(conn[c])
      BY <3>1 DEF Cleared
    <3> QED BY Zenon, <1>0, <1>2, <3>1, <3>2, <3>3
  <2> QED BY <1>6, <2>1, <2>2
<1>7. ASSUME NEW c \in Connections, NEW request \in Requests,
             Receive(c, request) \/ ReceivePart(c, request)
      PROVE  ClearedPassed'
  <2>1. PICK peer \in {"open", "closed"}, whole \in BOOLEAN :
           conn' = [conn EXCEPT ![c] = [@ EXCEPT !.pc = Handler(request), !.request = request,
                                   !.whole = whole, !.reason = "None", !.peer = peer]]
    <3>1. CASE Receive(c, request)
      <4>1. conn' = [conn EXCEPT ![c].pc = Handler(request), ![c].request = request,
                                 ![c].whole = TRUE, ![c].reason = "None"]
            /\ conn[c].peer = "open"
        BY <3>1 DEF Receive
      <4>2. [conn[c] EXCEPT !.pc = Handler(request), !.request = request,
                            !.whole = TRUE, !.reason = "None"]
            = [conn[c] EXCEPT !.pc = Handler(request), !.request = request,
                              !.whole = TRUE, !.reason = "None", !.peer = "open"]
        BY Zenon, <1>0, <4>1 DEF ConnRecord
      <4> QED BY Zenon, <4>1, <4>2
    <3>2. CASE ReceivePart(c, request)
      BY Zenon, <3>2 DEF ReceivePart
    <3> QED BY Zenon, <1>7, <3>1, <3>2
  <2> DEFINE t == [conn[c] EXCEPT !.pc = Handler(request), !.request = request,
                                  !.whole = whole, !.reason = "None", !.peer = peer]
  <2>2. t.pc = Handler(request)
    BY <1>0 DEF ConnRecord
  <2>3. Handler(request) \in {"check", "cancel"}
    BY MessageKinds
  <2>4. conn' = [conn EXCEPT ![c] = t]
    BY <2>1
  <2> HIDE DEF t
  <2> QED BY Zenon, <1>3, <2>2, <2>3, <2>4
<1>8. CASE EngageKillSwitch \/ DisengageKillSwitch \/ Stop \/ Stopped
  BY Zenon, <1>1, <1>8 DEF EngageKillSwitch, DisengageKillSwitch, Stop, Stopped
<1>9. CASE UNCHANGED serverVars
  BY <1>1, <1>9 DEF serverVars
<1> QED
  BY <1>5, <1>6, <1>7, <1>8, <1>9, Zenon DEF ServerNext

-----------------------------------------------------------------------------
(***************************************************************************)
(* What the connections are told.                                          *)
(***************************************************************************)

\* What a connection was told is a sequence of answers.
LEMMA ToldTyped ==
  ASSUME ConnInv, NEW c \in Connections
  PROVE  ToldTo(c) \in Seq(AnswerRecord) /\ Len(ToldTo(c)) \in Nat
<1>1. answers[c] \in Seq(AnswerRecord) /\ ThreadOK(conn[c])
  BY DEF ConnInv
<1>2. conn[c].pc \in {"engine", "report"} =>
         [request |-> conn[c].request, report |-> conn[c].report] \in AnswerRecord
  BY <1>1 DEF ThreadOK, AnswerRecord
<1>3. ToldTo(c) \in Seq(AnswerRecord)
  BY <1>1, <1>2, AppendProperties DEF ToldTo, Told
<1> QED
  BY <1>3, LenProperties

\* Nothing is told, and what was told stays true.
LEMMA NothingTold ==
  ASSUME ClaimsInv, \A c \in Connections : ToldTo(c)' = ToldTo(c),
         \A c \in Connections : \A i \in 1..Len(ToldTo(c)) :
            ClaimOK(books, ToldTo(c)[i]) => ClaimOK(books', ToldTo(c)[i])
  PROVE  ClaimsInv'
  BY Zenon DEF ClaimsInv

\* One connection is told something new, which is true and is no one else's.
LEMMA OneTold ==
  ASSUME ConnInv, ClaimsInv, NEW c \in Connections, NEW new \in AnswerRecord,
         ToldTo(c)' = Append(ToldTo(c), new),
         \A d \in Connections \ {c} : ToldTo(d)' = ToldTo(d),
         \A d \in Connections : \A i \in 1..Len(ToldTo(d)) :
            /\ ClaimOK(books, ToldTo(d)[i]) => ClaimOK(books', ToldTo(d)[i])
            /\ ClaimOK(books, ToldTo(d)[i]) => Disjoint(ToldTo(d)[i], new),
         ClaimOK(books', new)
  PROVE  ClaimsInv'
<1> DEFINE n == Len(ToldTo(c)) + 1
           Old(d, i) == d \in Connections /\ i \in 1..Len(ToldTo(d))
<1>0. \A d \in Connections : ToldTo(d) \in Seq(AnswerRecord) /\ Len(ToldTo(d)) \in Nat
  BY ToldTyped
<1>1. /\ Len(ToldTo(c)') = n /\ ToldTo(c)'[n] = new
      /\ \A i \in 1..Len(ToldTo(c)) : ToldTo(c)'[i] = ToldTo(c)[i]
  BY <1>0, AppendProperties
<1>2. \A d \in Connections : \A i \in 1..Len(ToldTo(d)') :
         \/ Old(d, i) /\ ToldTo(d)'[i] = ToldTo(d)[i]
         \/ d = c /\ i = n /\ ToldTo(d)'[i] = new
  <2> TAKE d \in Connections
  <2>1. CASE d = c
    BY <1>0, <1>1, <2>1
  <2>2. CASE d # c
    BY <2>2
  <2> QED BY <2>1, <2>2
<1>3. \A d, i : Old(d, i) => ClaimOK(books, ToldTo(d)[i]) /\ ClaimOK(books', ToldTo(d)[i])
         /\ Disjoint(ToldTo(d)[i], new) /\ Disjoint(new, ToldTo(d)[i])
  <2>1. \A a, b : Disjoint(a, b) => Disjoint(b, a)
    BY DEF Disjoint
  <2> QED BY <2>1, Zenon DEF ClaimsInv
<1>4. \A d, i, e, j : Old(d, i) /\ Old(e, j) /\ (d # e \/ i # j)
         => Disjoint(ToldTo(d)[i], ToldTo(e)[j])
  BY Zenon DEF ClaimsInv
<1> HIDE DEF Old, n
<1>5. ASSUME NEW d \in Connections, NEW i \in 1..Len(ToldTo(d)')
      PROVE  ClaimOK(books', ToldTo(d)'[i])
  BY <1>2, <1>3, <1>5, Zenon
<1>6. ASSUME NEW d \in Connections, NEW i \in 1..Len(ToldTo(d)'),
             NEW e \in Connections, NEW j \in 1..Len(ToldTo(e)'), d # e \/ i # j
      PROVE  Disjoint(ToldTo(d)'[i], ToldTo(e)'[j])
  <2>1. \/ Old(d, i) /\ ToldTo(d)'[i] = ToldTo(d)[i]
        \/ d = c /\ i = n /\ ToldTo(d)'[i] = new
    BY <1>2, <1>6, Zenon
  <2>2. \/ Old(e, j) /\ ToldTo(e)'[j] = ToldTo(e)[j]
        \/ e = c /\ j = n /\ ToldTo(e)'[j] = new
    BY <1>2, <1>6, Zenon
  <2> QED BY <1>3, <1>4, <1>6, <2>1, <2>2, Zenon
<1> QED
  BY <1>5, <1>6, Zenon DEF ClaimsInv

\* One thread moves, and no answer is sent.
LEMMA ThreadTold ==
  ASSUME ConnInv, NEW c \in Connections, NEW t, conn' = [conn EXCEPT ![c] = t],
         answers' = answers
  PROVE  /\ ToldTo(c)' = Told(t, answers[c])
         /\ \A d \in Connections \ {c} : ToldTo(d)' = ToldTo(d)
<1>1. conn'[c] = t /\ \A d \in Connections \ {c} : conn'[d] = conn[d]
  BY DEF ConnInv
<1> QED
  BY <1>1, Zenon DEF ToldTo

\* A thread tells something when it fails the check or returns from the
\* engine's part of a call; sending the report tells nothing new.
LEMMA ToldMoves ==
  ASSUME ConnInv, [ServerNext]_serverVars
  PROVE  \/ /\ \A c \in Connections : ToldTo(c)' = ToldTo(c)
            /\ UNCHANGED vars \/ Proceed
         \/ \E c \in Connections :
               \/ Submit(c) \/ SubmitRefused(c) \/ Cancel(c)
               \/ Record(c) /\ conn[c].reason # "None"
<1> DEFINE Quiet == \A c \in Connections : ToldTo(c)' = ToldTo(c)
           Tells == \E c \in Connections :
                       \/ Submit(c) \/ SubmitRefused(c) \/ Cancel(c)
                       \/ Record(c) /\ conn[c].reason # "None"
<1>0. \A c \in Connections : conn[c] \in ConnRecord
  BY DEF ConnInv
<1>1. conn' = conn /\ answers' = answers => Quiet
  BY Zenon DEF ToldTo
<1>2. ASSUME NEW c \in Connections, NEW t, conn' = [conn EXCEPT ![c] = t], answers' = answers,
             \/ {t.pc, conn[c].pc} \cap {"engine", "report"} = {}
             \/ /\ t.request = conn[c].request /\ t.report = conn[c].report
                /\ t.pc \in {"engine", "report"} <=> conn[c].pc \in {"engine", "report"}
      PROVE  Quiet
  <2>1. Told(t, answers[c]) = Told(conn[c], answers[c])
    <3>1. CASE {t.pc, conn[c].pc} \cap {"engine", "report"} = {}
      <4>1. t.pc \notin {"engine", "report"} /\ conn[c].pc \notin {"engine", "report"}
        BY Zenon, <3>1
      <4> QED BY <4>1, Zenon DEF Told
    <3>2. CASE /\ t.request = conn[c].request /\ t.report = conn[c].report
               /\ t.pc \in {"engine", "report"} <=> conn[c].pc \in {"engine", "report"}
      BY <3>2, Zenon DEF Told
    <3> QED BY <1>2, <3>1, <3>2
  <2>2. /\ ToldTo(c)' = Told(t, answers[c])
        /\ \A d \in Connections \ {c} : ToldTo(d)' = ToldTo(d)
    BY <1>2, ThreadTold, Zenon
  <2>3. ToldTo(c)' = ToldTo(c)
    BY <2>1, <2>2, Zenon DEF ToldTo
  <2> QED BY <2>2, <2>3, Zenon
<1> HIDE DEF Quiet
<1>3. ASSUME NEW c \in Connections, ThreadStep(c)
      PROVE  (Quiet /\ (UNCHANGED vars \/ Proceed)) \/ Tells
  <2>1. CASE Loop(c) \/ Hangup(c)
    <3>1. PICK pc \in {"recv", "done"} : conn' = [conn EXCEPT ![c].pc = pc]
      BY <2>1 DEF Loop, Hangup, Goto
    <3>2. /\ conn[c].pc \in {"loop", "recv"} /\ answers' = answers /\ UNCHANGED vars
          /\ [conn[c] EXCEPT !.pc = pc].pc = pc
      BY <1>0, <2>1 DEF Loop, Hangup, ConnRecord
    <3> QED BY Zenon, <1>2, <3>1, <3>2
  <2>2. CASE CheckOrder(c) \/ CheckPosition(c) \/ CheckExposure(c)
    <3>1. PICK pc, reason :
             /\ pc \in {"position", "exposure", "record"}
             /\ conn' = [conn EXCEPT ![c].reason = reason, ![c].pc = pc]
      BY <2>2 DEF CheckOrder, CheckPosition, CheckExposure, CheckPart
    <3>2. /\ conn[c].pc \in {"check", "position", "exposure"}
          /\ answers' = answers /\ UNCHANGED vars
      BY <1>0, <2>2 DEF CheckOrder, CheckPosition, CheckExposure, CheckPart
    <3> DEFINE t == [conn[c] EXCEPT !.reason = reason, !.pc = pc]
    <3>3. conn' = [conn EXCEPT ![c] = t] /\ t.pc = pc
      BY Zenon, <1>0, <3>1 DEF ConnRecord
    <3> HIDE DEF t
    <3> QED BY Zenon, <1>2, <3>1, <3>2, <3>3
  <2>3. CASE Record(c) /\ conn[c].reason = "None"
    <3> DEFINE t == conn'[c]
    <3>1. /\ conn' = [conn EXCEPT ![c].pc = "submit", ![c].report = @]
          /\ conn[c].pc = "record" /\ answers' = answers /\ UNCHANGED vars
      BY <2>3 DEF Record
    <3>2. conn' = [conn EXCEPT ![c] = t] /\ t.pc = "submit"
      BY Zenon, <1>0, <3>1 DEF ConnRecord, ConnInv
    <3> HIDE DEF t
    <3> QED BY Zenon, <1>2, <3>1, <3>2
  <2>4. CASE Match(c) \/ Deliver(c) \/ OnFill(c)
    <3>1. conn' = conn /\ answers' = answers /\ (UNCHANGED vars \/ Proceed)
      BY <2>4 DEF Match, Deliver, OnFill, Proceed
    <3> QED BY <1>1, <3>1
  <2>5. CASE Return(c)
    <3> DEFINE t == [conn[c] EXCEPT !.pc = "report"]
    <3>1. /\ conn' = [conn EXCEPT ![c] = t]
          /\ conn[c].pc = "engine" /\ answers' = answers /\ Proceed
      BY <2>5 DEF Return, Goto, Proceed
    <3>2. t.pc = "report" /\ t.request = conn[c].request /\ t.report = conn[c].report
      BY <1>0 DEF ConnRecord
    <3> HIDE DEF t
    <3> QED BY Zenon, <1>2, <3>1, <3>2
  <2>6. CASE SendReport(c)
    <3> DEFINE t == [conn[c] EXCEPT !.pc = "loop", !.request = NoRequest, !.report = << >>,
                                    !.reason = "None", !.whole = TRUE]
               rec == [request |-> conn[c].request, report |-> conn[c].report]
    <3>1. /\ conn' = [conn EXCEPT ![c] = t] /\ conn[c].pc = "report" /\ UNCHANGED vars
          /\ answers' = [answers EXCEPT ![c] = Append(@, rec)]
      BY Zenon, <2>6 DEF SendReport
    <3>2. t.pc = "loop"
      BY <1>0 DEF ConnRecord
    <3> HIDE DEF t, rec
    <3>3. /\ conn'[c] = t /\ answers'[c] = Append(answers[c], rec)
          /\ \A d \in Connections \ {c} : conn'[d] = conn[d] /\ answers'[d] = answers[d]
      BY <3>1 DEF ConnInv
    <3>4. ToldTo(c)' = Append(answers[c], rec)
      <4>1. t.pc \notin {"engine", "report"}
        BY <3>2
      <4> QED BY <3>3, <4>1, Zenon DEF ToldTo, Told
    <3>5. ToldTo(c) = Append(answers[c], rec)
      BY <3>1 DEF ToldTo, Told, rec
    <3>6. \A d \in Connections \ {c} : ToldTo(d)' = ToldTo(d)
      BY <3>3, Zenon DEF ToldTo
    <3>7. Quiet
      BY <3>4, <3>5, <3>6, Zenon DEF Quiet
    <3> QED BY <3>1, <3>7
  <2>7. CASE \/ Submit(c) \/ SubmitRefused(c) \/ Cancel(c)
             \/ Record(c) /\ conn[c].reason # "None"
    BY <2>7, Zenon
  <2> HIDE DEF Tells
  <2> QED BY <1>3, <2>1, <2>2, <2>3, <2>4, <2>5, <2>6, <2>7, Zenon DEF ThreadStep
<1>4. ASSUME NEW c \in Connections, Accept(c) \/ PeerCloses(c) \/ Skip(c)
      PROVE  Quiet /\ UNCHANGED vars
  <2>1. CASE Accept(c) \/ Skip(c)
    <3>1. /\ conn' = [conn EXCEPT ![c].pc = "loop"] /\ conn[c].pc \in {"none", "recv"}
          /\ answers' = answers /\ UNCHANGED vars
      BY <2>1 DEF Accept, Skip, Goto
    <3>2. [conn[c] EXCEPT !.pc = "loop"].pc = "loop"
      BY <1>0 DEF ConnRecord
    <3> QED BY Zenon, <1>2, <3>1, <3>2
  <2>2. CASE PeerCloses(c)
    <3> DEFINE t == [conn[c] EXCEPT !.peer = "closed"]
    <3>1. t.pc = conn[c].pc /\ t.report = conn[c].report /\ t.request = conn[c].request
      BY <1>0 DEF ConnRecord
    <3>2. conn' = [conn EXCEPT ![c] = t] /\ answers' = answers /\ UNCHANGED vars
      BY <2>2 DEF PeerCloses
    <3> HIDE DEF t
    <3> QED BY Zenon, <1>2, <3>1, <3>2
  <2> QED BY <1>4, <2>1, <2>2

<1>5. ASSUME NEW c \in Connections, NEW request \in Requests,
             Receive(c, request) \/ ReceivePart(c, request)
      PROVE  Quiet /\ UNCHANGED vars
  <2>1. PICK t : conn' = [conn EXCEPT ![c] = t] /\ t.pc = Handler(request)
    <3>1. CASE Receive(c, request)
      <4> DEFINE t == [conn[c] EXCEPT !.pc = Handler(request), !.request = request,
                                      !.whole = TRUE, !.reason = "None"]
      <4>1. conn' = [conn EXCEPT ![c] = t] /\ t.pc = Handler(request)
        BY Zenon, <1>0, <3>1 DEF Receive, ConnRecord
      <4> QED BY Zenon, <4>1
    <3>2. CASE ReceivePart(c, request)
      <4> DEFINE t == [conn[c] EXCEPT !.pc = Handler(request), !.request = request,
                                      !.whole = FALSE, !.reason = "None", !.peer = "closed"]
      <4>1. conn' = [conn EXCEPT ![c] = t] /\ t.pc = Handler(request)
        BY Zenon, <1>0, <3>2 DEF ReceivePart, ConnRecord
      <4> QED BY Zenon, <4>1
    <3> QED BY <1>5, <3>1, <3>2
  <2>2. Handler(request) \in {"check", "submit", "cancel"}
    BY MessageKinds
  <2>3. conn[c].pc = "recv" /\ answers' = answers /\ UNCHANGED vars
    BY <1>5 DEF Receive, ReceivePart
  <2> QED BY Zenon, <1>2, <2>1, <2>2, <2>3
<1>6. ASSUME EngageKillSwitch \/ DisengageKillSwitch \/ Stop \/ Stopped
             \/ UNCHANGED serverVars
      PROVE  Quiet /\ UNCHANGED vars
  <2>1. conn' = conn /\ answers' = answers /\ UNCHANGED vars
    BY <1>6 DEF EngageKillSwitch, DisengageKillSwitch, Stop, Stopped, serverVars
  <2> QED BY <1>1, <2>1
<1>7. (Quiet /\ (UNCHANGED vars \/ Proceed)) \/ Tells
  <2> HIDE DEF Tells
  <2> QED BY <1>3, <1>4, <1>5, <1>6, Zenon DEF ServerNext
<1> QED
  BY <1>7 DEF Quiet

\* A thread fills in its report.
LEMMA AnswerTold ==
  ASSUME ConnInv, ClaimsInv, NEW c \in Connections, NEW m \in Requests,
         NEW pc \in {"engine", "report"}, NEW id \in Nat, NEW status \in OrderStatus,
         m = conn[c].request, conn[c].pc \notin {"engine", "report"}, answers' = answers,
         conn' = [conn EXCEPT ![c].pc = pc, ![c].report = Report(m, id, status)],
         \A a \in AnswerRecord : ClaimOK(books, a) => ClaimOK(books', a),
         status \in {"Accepted", "Cancelled"} =>
            /\ m.symbol \in DOMAIN books'
            /\ id < books'[m.symbol].next_order_id
            /\ status = "Cancelled" => id \notin LiveIds(books'[m.symbol])
            /\ \A a \in AnswerRecord :
                  ClaimOK(books, a) /\ a.request.symbol = m.symbol /\ a.report.status = status
                     => a.report.order_id # id
  PROVE  ClaimsInv'
<1> DEFINE r   == Report(m, id, status)
           t   == [conn[c] EXCEPT !.pc = pc, !.report = r]
           new == [request |-> m, report |-> r]
<1>1. r \in Reports
  BY Zenon, AnswerConn
<1>2. r.status = status /\ r.order_id = id
  BY DEF Report
<1>3. conn[c] \in ConnRecord
  BY DEF ConnInv
<1>4. conn' = [conn EXCEPT ![c] = t]
  OBVIOUS
<1> HIDE DEF r
<1>5. t.pc = pc /\ t.request = m /\ t.report = r
  BY <1>3 DEF ConnRecord
<1>6. new \in AnswerRecord /\ new.request = m /\ new.report = r
  BY <1>1 DEF AnswerRecord
<1> HIDE DEF t
<1>7. Told(t, answers[c]) = Append(answers[c], new)
  BY <1>5 DEF Told
<1> HIDE DEF new
<1>8. ToldTo(c) = answers[c]
  BY DEF ToldTo, Told
<1>9. /\ ToldTo(c)' = Append(ToldTo(c), new)
      /\ \A d \in Connections \ {c} : ToldTo(d)' = ToldTo(d)
  BY Zenon, <1>4, <1>7, <1>8, ThreadTold
<1>10. \A d \in Connections : \A i \in 1..Len(ToldTo(d)) : ToldTo(d)[i] \in AnswerRecord
  BY ToldTyped, ElementOfSeq
<1>11. ClaimOK(books', new)
  BY <1>2, <1>6, Zenon DEF ClaimOK
<1>12. \A a \in AnswerRecord : ClaimOK(books, a) => Disjoint(a, new)
  BY <1>2, <1>6, Zenon DEF Disjoint
<1> QED
  BY <1>6, <1>9, <1>10, <1>11, <1>12, OneTold, Zenon
=============================================================================
