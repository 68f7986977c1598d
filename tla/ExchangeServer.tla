--------------------------- MODULE ExchangeServer ---------------------------
(***************************************************************************)
(* src/network/TcpServer.cpp wired as in src/main.cpp: one thread per      *)
(* connection receives a message, runs the risk check without any lock,    *)
(* calls the engine under its mutex and answers with one report.  The      *)
(* trade callback of main feeds both legs of a trade to the risk checker   *)
(* on the thread that holds the mutex, while other threads run check.      *)
(*   risk      the RiskChecker                                             *)
(*   gated     whether the server was given one (risk_ # nullptr)          *)
(*   conn      the connections: pc of the thread, whether the peer is      *)
(*             open, the message in hand and whether it was read to its    *)
(*             end, the reason of the check, the report to send            *)
(*   answers   the reports sent on each connection, with the message each  *)
(*             answers                                                     *)
(*   callback  the writes the callback in progress has still to make       *)
(*   phase     of the server: "running" (running_), "stopping" (stop() is  *)
(*             joining the threads), "stopped"                             *)
(* A racing read of a position or of the exposure yields the value before  *)
(* or after the write; racing increments of stats_ can be lost.            *)
(***************************************************************************)
EXTENDS MatchingEngine, RiskChecker

CONSTANTS
    Connections, \* the connections of a behaviour
    Requests,    \* the messages clients send
    Limits,      \* the RiskLimits of main
    Gates,       \* whether a RiskChecker is passed to the server: TRUE, FALSE or both
    Events,      \* what may happen besides requests: "close", "part", "kill", "stop"
    MaxMessages  \* bound on the number of messages received

\* OrderMessage and CancelMessage of the protocol.
OrderMessages ==
    [msg_type : {"NewOrder"}, symbol : Symbols, side : Side, type : OrderType,
     price : Prices, quantity : Quantities]

CancelMessages == [msg_type : {"Cancel"}, symbol : Symbols, order_id : Nat]

ASSUME ServerAssumption ==
    /\ Requests \subseteq OrderMessages \cup CancelMessages
    /\ Limits \in RiskLimits
    /\ Gates \subseteq BOOLEAN
    /\ MaxMessages \in Nat
    /\ MaxMessages =< MaxOrders

VARIABLES risk, gated, conn, answers, callback, phase

serverVars == << vars, risk, gated, conn, answers, callback, phase >>

NoRequest == [msg_type |-> "none"]

NewConnection ==
    [pc |-> "none", peer |-> "open", request |-> NoRequest, whole |-> TRUE,
     reason |-> "None", report |-> << >>]

ServerInit ==
    /\ Init
    /\ risk = NewChecker(Limits)
    /\ gated \in Gates
    /\ conn = [c \in Connections |-> NewConnection]
    /\ answers = [c \in Connections |-> << >>]
    /\ callback = << >>
    /\ phase = "running"

Goto(c, pc) == conn' = [conn EXCEPT ![c].pc = pc]

-----------------------------------------------------------------------------
(***************************************************************************)
(* start, stop and the clients.                                            *)
(***************************************************************************)

\* The accept loop hands a connection to a thread of its own.
Accept(c) ==
    /\ phase = "running"
    /\ conn[c].pc = "none"
    /\ Goto(c, "loop")
    /\ UNCHANGED << vars, risk, gated, answers, callback, phase >>

\* The peer closes its end; the thread learns of it at its next recv.
PeerCloses(c) ==
    /\ "close" \in Events
    /\ conn[c].pc # "none"
    /\ conn[c].peer = "open"
    /\ conn' = [conn EXCEPT ![c].peer = "closed"]
    /\ UNCHANGED << vars, risk, gated, answers, callback, phase >>

Stop ==
    /\ "stop" \in Events
    /\ phase = "running"
    /\ phase' = "stopping"
    /\ UNCHANGED << vars, risk, gated, conn, answers, callback >>

\* stop() has joined every thread.
Stopped ==
    /\ phase = "stopping"
    /\ \A c \in Connections : conn[c].pc \in {"none", "done"}
    /\ phase' = "stopped"
    /\ UNCHANGED << vars, risk, gated, conn, answers, callback >>

EngageKillSwitch ==
    /\ "kill" \in Events
    /\ gated
    /\ risk' = [risk EXCEPT !.kill_switch = TRUE]
    /\ UNCHANGED << vars, gated, conn, answers, callback, phase >>

DisengageKillSwitch ==
    /\ "kill" \in Events
    /\ gated
    /\ risk' = [risk EXCEPT !.kill_switch = FALSE]
    /\ UNCHANGED << vars, gated, conn, answers, callback, phase >>

-----------------------------------------------------------------------------
(***************************************************************************)
(* handle_client.                                                          *)
(***************************************************************************)

\* while (running_)
Loop(c) ==
    /\ conn[c].pc = "loop"
    /\ Goto(c, IF phase = "running" THEN "recv" ELSE "done")
    /\ UNCHANGED << vars, risk, gated, answers, callback, phase >>

\* Where a message is handled; risk_ may be nullptr.
Handler(request) ==
    CASE request.msg_type = "NewOrder" -> IF gated THEN "check" ELSE "submit"
      [] request.msg_type = "Cancel" -> "cancel"

Received ==
    MapThenSumSet(LAMBDA c : Len(answers[c]) +
        (IF conn[c].pc \in {"none", "loop", "recv", "done"} THEN 0 ELSE 1), Connections)

\* Both reads return: the type byte and the rest of the message.
Receive(c, request) ==
    /\ conn[c].pc = "recv"
    /\ conn[c].peer = "open"
    /\ Received < MaxMessages
    /\ conn' = [conn EXCEPT ![c].pc = Handler(request), ![c].request = request,
                            ![c].whole = TRUE, ![c].reason = "None"]
    /\ UNCHANGED << vars, risk, gated, answers, callback, phase >>

\* The peer closes in the middle of a message.  The second read returns the
\* bytes that came, which is not n <= 0; the rest of msg is uninitialised.
ReceivePart(c, request) ==
    /\ "part" \in Events
    /\ conn[c].pc = "recv"
    /\ conn[c].peer = "open"
    /\ Received < MaxMessages
    /\ conn' = [conn EXCEPT ![c].pc = Handler(request), ![c].request = request,
                            ![c].whole = FALSE, ![c].reason = "None",
                            ![c].peer = "closed"]
    /\ UNCHANGED << vars, risk, gated, answers, callback, phase >>

\* A type byte that is neither NewOrder nor Cancel is dropped.
Skip(c) ==
    /\ conn[c].pc = "recv"
    /\ conn[c].peer = "open"
    /\ Goto(c, "loop")
    /\ UNCHANGED << vars, risk, gated, answers, callback, phase >>

\* Mutant: a read of 0 bytes is tried again.
Hangup_Retries(c) ==
    /\ conn[c].pc = "recv"
    /\ conn[c].peer = "closed"
    /\ UNCHANGED serverVars

\* recv returns 0: the loop ends and the connection is closed.
Hangup(c) ==
    /\ conn[c].pc = "recv"
    /\ conn[c].peer = "closed"
    /\ Goto(c, "done")
    /\ UNCHANGED << vars, risk, gated, answers, callback, phase >>

\* The order a NewOrder message asks for, as check takes it.
Checked(request) ==
    [symbol |-> request.symbol, side |-> request.side, type |-> request.type,
     price |-> request.price, quantity |-> request.quantity]

\* One part of check: the tests from..to, which read the checker's state at
\* one moment.
CheckPart(c, at, from, to, next) ==
    /\ conn[c].pc = at
    /\ LET reason == FirstFailure(risk, Checked(conn[c].request), from, to)
       IN  conn' = [conn EXCEPT ![c].reason = reason,
                                ![c].pc = IF reason = "None" THEN next ELSE "record"]
    /\ UNCHANGED << vars, risk, gated, answers, callback, phase >>

\* Mutant: the caps on single orders are not tested.
CheckOrder_SkipsCaps(c) == CheckPart(c, "check", 1, 2, "position")

CheckOrder(c) == CheckPart(c, "check", 1, 5, "position")

CheckPosition(c) == CheckPart(c, "position", 6, 6, "exposure")

CheckExposure(c) == CheckPart(c, "exposure", 7, 7, "record")

\* Another thread is also updating stats_.
Racing(c) == \E d \in Connections \ {c} : conn[d].pc = "record"

Report(request, id, status) ==
    [order_id |-> id, status |-> status,
     price |-> IF request.msg_type = "NewOrder" THEN request.price ELSE 0,
     quantity |-> IF request.msg_type = "NewOrder" THEN request.quantity ELSE 0,
     remaining_qty |-> IF request.msg_type = "NewOrder" THEN request.quantity ELSE 0]

\* check records its result and returns; a failing check is answered without
\* a call of the engine.
Record(c) ==
    /\ conn[c].pc = "record"
    /\ \E lost \in SUBSET DOMAIN risk.stats :
          /\ lost # {} => Racing(c)
          /\ risk' = [risk EXCEPT !.stats =
                [field \in DOMAIN @ |->
                    IF field \in lost THEN @[field] ELSE Recorded(@, conn[c].reason)[field]]]
    /\ conn' = [conn EXCEPT
          ![c].pc = IF conn[c].reason = "None" THEN "submit" ELSE "report",
          ![c].report = IF conn[c].reason = "None"
                        THEN @ ELSE Report(conn[c].request, 0, "Rejected")]
    /\ UNCHANGED << vars, gated, answers, callback, phase >>

\* submit_order refuses the order and returns 0.
SubmitRefused(c) ==
    /\ conn[c].pc = "submit"
    /\ LET request == conn[c].request
       IN  /\ RejectOrder(request.symbol, request.type, request.price, request.quantity)
           /\ conn' = [conn EXCEPT ![c].pc = "report",
                                   ![c].report = Report(request, 0, "Rejected")]
    /\ UNCHANGED << risk, gated, answers, callback, phase >>

\* submit_order takes the mutex; id is read from the order it adds.
Submit(c) ==
    /\ conn[c].pc = "submit"
    /\ LET request == conn[c].request
       IN  /\ AcceptOrder(request.symbol, request.side, request.type, request.price,
                          request.quantity)
           /\ conn' = [conn EXCEPT ![c].pc = "engine",
                  ![c].report = Report(request,
                      get_order_book(request.symbol)[request.symbol].next_order_id, "Accepted")]
    /\ UNCHANGED << risk, gated, answers, callback, phase >>

Cancel(c) ==
    /\ conn[c].pc = "cancel"
    /\ LET request   == conn[c].request
           cancelled == /\ request.symbol \in DOMAIN books
                        /\ request.order_id \in LiveIds(books[request.symbol])
       IN  /\ CancelOrder(request.symbol, request.order_id)
           /\ conn' = [conn EXCEPT ![c].pc = "report",
                  ![c].report = Report(request, request.order_id,
                                       IF cancelled THEN "Cancelled" ELSE "Rejected")]
    /\ UNCHANGED << risk, gated, answers, callback, phase >>

\* Mutant: the ID is read from the book again, without the lock.
SendReport_RereadsId(c) ==
    /\ conn[c].pc = "report"
    /\ LET request == conn[c].request
           id      == IF conn[c].report.status = "Accepted"
                      THEN books[request.symbol].next_order_id - 1
                      ELSE conn[c].report.order_id
       IN  answers' = [answers EXCEPT ![c] = Append(@,
              [request |-> request, report |-> [conn[c].report EXCEPT !.order_id = id]])]
    /\ conn' = [conn EXCEPT ![c].pc = "loop", ![c].request = NoRequest,
                            ![c].report = << >>, ![c].reason = "None", ![c].whole = TRUE]
    /\ UNCHANGED << vars, risk, gated, callback, phase >>

SendReport(c) ==
    /\ conn[c].pc = "report"
    /\ answers' = [answers EXCEPT ![c] =
          Append(@, [request |-> conn[c].request, report |-> conn[c].report])]
    /\ conn' = [conn EXCEPT ![c].pc = "loop", ![c].request = NoRequest,
                            ![c].report = << >>, ![c].reason = "None", ![c].whole = TRUE]
    /\ UNCHANGED << vars, risk, gated, callback, phase >>

-----------------------------------------------------------------------------
(***************************************************************************)
(* submit_order on the thread of connection c, which holds the mutex, and  *)
(* the callback of main.                                                   *)
(***************************************************************************)

\* Mutant: only the buyer's leg is fed to the risk checker.
LegWrites_BuyOnly(trade) ==
    [i \in 1..2 |->
        [side |-> "Buy", field |-> IF i = 1 THEN "position" ELSE "exposure",
         price |-> trade.price, quantity |-> trade.quantity]]

\* The writes of the two on_fill calls, in order; both legs are booked under
\* one symbol, whatever was traded.
LegWrites(trade) ==
    [i \in 1..4 |->
        [side  |-> IF i =< 2 THEN "Buy" ELSE "Sell",
         field |-> IF i % 2 = 1 THEN "position" ELSE "exposure",
         price |-> trade.price, quantity |-> trade.quantity]]

Match(c) ==
    /\ conn[c].pc = "engine"
    /\ MatchStep \/ MatchDone
    /\ UNCHANGED << risk, gated, conn, answers, callback, phase >>

\* A trade is counted and the callback is called with it.
Deliver(c) ==
    /\ conn[c].pc = "engine"
    /\ callback = << >>
    /\ ReportTrade
    /\ callback' = IF gated THEN LegWrites(Head(op.trades)) ELSE << >>
    /\ UNCHANGED << risk, gated, conn, answers, phase >>

OnFill(c) ==
    /\ conn[c].pc = "engine"
    /\ callback # << >>
    /\ LET write == Head(callback)
       IN  risk' = IF write.field = "position"
                   THEN FillPosition(risk, "AAPL", write.side, write.quantity)
                   ELSE FillExposure(risk, write.price, write.quantity)
    /\ callback' = Tail(callback)
    /\ UNCHANGED << vars, gated, conn, answers, phase >>

\* Mutant: the thread leaves submit_order without unlocking.
Return_KeepsLock(c) ==
    /\ conn[c].pc = "engine"
    /\ op.phase = "report" /\ op.trades = << >>
    /\ callback = << >>
    /\ Goto(c, "report")
    /\ UNCHANGED << vars, risk, gated, answers, callback, phase >>

Return(c) ==
    /\ conn[c].pc = "engine"
    /\ callback = << >>
    /\ Finish
    /\ Goto(c, "report")
    /\ UNCHANGED << risk, gated, answers, callback, phase >>

-----------------------------------------------------------------------------

\* A step of the thread of connection c.  It waits for nothing but the mutex.
ThreadStep(c) ==
    \/ Loop(c)
    \/ Hangup(c)
    \/ CheckOrder(c) \/ CheckPosition(c) \/ CheckExposure(c) \/ Record(c)
    \/ SubmitRefused(c) \/ Submit(c) \/ Cancel(c)
    \/ Match(c) \/ Deliver(c) \/ OnFill(c) \/ Return(c)
    \/ SendReport(c)

ServerNext ==
    \/ \E c \in Connections : ThreadStep(c)
    \/ \E c \in Connections : Accept(c) \/ PeerCloses(c) \/ Skip(c)
    \/ \E c \in Connections, request \in Requests :
            Receive(c, request) \/ ReceivePart(c, request)
    \/ EngageKillSwitch
    \/ DisengageKillSwitch
    \/ Stop
    \/ Stopped

ServerSpec == ServerInit /\ [][ServerNext]_serverVars

\* Runnable threads are scheduled, the one in stop() included.  Nothing is
\* assumed of the clients.
FairServerSpec ==
    /\ ServerSpec
    /\ \A c \in Connections : WF_serverVars(ThreadStep(c))
    /\ WF_serverVars(Stopped)

-----------------------------------------------------------------------------
(***************************************************************************)
(* Properties.                                                             *)
(***************************************************************************)

\* The types of the server's state.
ServerTypeOK ==
    /\ risk.limits = Limits
    /\ risk.kill_switch \in BOOLEAN
    /\ risk.exposure \in Int
    /\ risk.stats \in RiskStats
    /\ \A c \in Connections :
          /\ conn[c].pc \in {"none", "loop", "recv", "check", "position", "exposure", "record",
                             "submit", "engine", "cancel", "report", "done"}
          /\ conn[c].peer \in {"open", "closed"}
          /\ conn[c].reason \in RejectReason
          /\ conn[c].request \in Requests \cup {NoRequest}

\* With a risk checker, no order on a book is outside the limits on single
\* orders, and the engine has nothing left to refuse: an order that fails the
\* check never reaches the book.
BookedWithinLimits ==
    gated =>
        /\ stats.total_rejects = 0
        /\ \A symbol \in DOMAIN books : \A id \in LiveIds(books[symbol]) :
              LET order == OrderOf(books[symbol], id)
              IN  /\ order.quantity =< Limits.max_order_quantity
                  /\ order.type # "Market" =>
                        order.price * order.quantity =< Limits.max_order_notional

\* Both legs of every trade the engine counted are in the risk layer when no
\* callback is running: the exposure has every notional twice, and the
\* positions cancel out.  The writers are serialised by the engine's mutex.
RiskTracksTrades ==
    gated /\ callback = << >> =>
        /\ risk.exposure = 2 * stats.total_notional
        /\ \A symbol \in DOMAIN risk.positions : risk.positions[symbol] = 0

\* All answers given so far: << connection, position >>.
AnswerSet == {a \in Connections \X (1..MaxMessages) : a[2] \in DOMAIN answers[a[1]]}

Answer(a) == answers[a[1]][a[2]]

\* No two connections are told of the same order: an ID of a symbol is
\* accepted in one answer only, and at most one answer says it was cancelled,
\* however cancels and fills race.
AnswersDistinct ==
    \A a, b \in AnswerSet :
        /\ a # b
        /\ Answer(a).request.symbol = Answer(b).request.symbol
        /\ Answer(a).report.status = Answer(b).report.status
        /\ Answer(a).report.status \in {"Accepted", "Cancelled"}
        => Answer(a).report.order_id # Answer(b).report.order_id

\* A message that was received is answered, whatever the other connections do
\* (they send finitely many messages, so the mutex becomes free for good).
MessagesAnswered ==
    \A c \in Connections : conn[c].request # NoRequest ~> conn[c].request = NoRequest

\* stop() returns once every peer has closed its end.
StopReturns ==
    phase = "stopping" /\ (\A c \in Connections : conn[c].pc = "none" \/ conn[c].peer = "closed")
        ~> phase = "stopped"

-----------------------------------------------------------------------------
(***************************************************************************)
(* What the comments of the code say and the code does not do.             *)
(***************************************************************************)

\* "Firm-wide notional exposure cap" (RiskChecker.h:32).
ExposureCapped == gated => risk.exposure =< Limits.max_notional_exposure

\* "MSG_WAITALL blocks until the full request is read" (TcpServer.cpp:122): a
\* message that is acted on was read to its end.
WholeMessages == \A c \in Connections : conn[c].whole
=============================================================================
