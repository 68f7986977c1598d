----------------------------- MODULE AuditProofs ----------------------------
(***************************************************************************)
(* An observer of submits, trades and cancels finds the shares of every    *)
(* order accounted for, for every set of symbols, prices and quantities,   *)
(* every pool size and any number of calls.                                *)
(***************************************************************************)
EXTENDS TradeAudit, EngineLemmas

(***************************************************************************)
(* The inductive invariant.  A trade is made in the match loop and         *)
(* reported later, so the ledger lags behind the book by the shares of the *)
(* trades that are still to be reported.                                   *)
(***************************************************************************)

\* The shares of order id in a trade, and in a list of trades.
Share(trade, id) ==
    IF trade.buy_order_id = id \/ trade.sell_order_id = id THEN trade.quantity ELSE 0

Shares(trades, id) ==
    SumOver([i \in 1..Len(trades) |-> Share(trades[i], id)], 1..Len(trades))

\* The shares of an order that are traded and not yet reported.
Unreported(symbol, id) ==
    IF op # NoOp /\ op.symbol = symbol THEN Shares(op.trades, id) ELSE 0

Entry == [type : OrderType, quantity : Nat, filled : Nat, cancelled : BOOLEAN]

\* The ledger has a live order's terms and, with what is unreported, its fills.
LiveEntry(symbol, id) ==
    LET entry == ledger[<< symbol, id >>]
        order == OrderOf(books[symbol], id)
    IN  /\ << symbol, id >> \in DOMAIN ledger
        /\ ~entry.cancelled
        /\ entry.type = order.type
        /\ entry.quantity = order.quantity
        /\ entry.filled + Unreported(symbol, id) = order.quantity - order.remaining_qty

\* An order that left the book traded no more than its quantity, and a limit
\* order that was not cancelled traded all of it.
GoneEntry(symbol, id) ==
    LET entry == ledger[<< symbol, id >>]
    IN  /\ entry.filled + Unreported(symbol, id) =< entry.quantity
        /\ entry.type = "Limit" /\ ~entry.cancelled
              => entry.filled + Unreported(symbol, id) = entry.quantity

\* A trade is between two orders of the ledger that are not cancelled.
TradeInLedger(symbol, trade) ==
    /\ trade.buy_order_id # trade.sell_order_id
    /\ \A id \in {trade.buy_order_id, trade.sell_order_id} :
          << symbol, id >> \in DOMAIN ledger /\ ~ledger[<< symbol, id >>].cancelled

Filled == [key \in DOMAIN ledger |-> ledger[key].filled]

LedgerTyped ==
    /\ IsFiniteSet(DOMAIN ledger)
    /\ \A key \in DOMAIN ledger :
          /\ ledger[key] \in Entry
          /\ \E symbol \in DOMAIN books : \E id \in 1..(books[symbol].next_order_id - 1) :
                key = << symbol, id >>

LedgerMatchesBooks ==
    /\ \A symbol \in DOMAIN books : \A id \in LiveIds(books[symbol]) : LiveEntry(symbol, id)
    /\ \A key \in DOMAIN ledger :
          key[2] \notin LiveIds(books[key[1]]) => GoneEntry(key[1], key[2])

AuditInv ==
    /\ LedgerTyped
    /\ LedgerMatchesBooks
    /\ op # NoOp => \A i \in 1..Len(op.trades) : TradeInLedger(op.symbol, op.trades[i])
    /\ SumOver(Filled, DOMAIN ledger) = 2 * stats.total_volume

-----------------------------------------------------------------------------
(***************************************************************************)
(* The shares of an order in a list of trades.                             *)
(***************************************************************************)

\* Shares are counted in natural numbers.
LEMMA SharesNat ==
  ASSUME NEW s \in Seq(Trade), NEW id
  PROVE  /\ \A t \in Trade : Share(t, id) \in Nat
         /\ \A i \in 1..Len(s) : s[i] \in Trade /\ Share(s[i], id) \in Nat
         /\ Shares(s, id) \in Nat
<1> DEFINE f == [i \in 1..Len(s) |-> Share(s[i], id)]
           S == 1..Len(s)
<1>1. \A t \in Trade : Share(t, id) \in Nat
  BY DEF Share, Trade
<1>2. \A i \in 1..Len(s) : s[i] \in Trade
  OBVIOUS
<1>3. IsFiniteSet(S) /\ \A i \in S : f[i] \in Nat
  <2>1. IsFiniteSet(S)
    BY FS_Interval
  <2>2. \A i \in S : f[i] = Share(s[i], id) /\ s[i] \in Trade
    BY <1>2
  <2> QED BY <1>1, <2>1, <2>2, Zenon
<1>4. SumOver(f, S) \in Nat
  <2> HIDE DEF f, S
  <2> QED BY <1>3, SumType
<1> QED
  BY <1>1, <1>2, <1>4 DEF Shares

\* Nothing is traded in no trades.
LEMMA SharesNil ==
  ASSUME NEW id
  PROVE  Shares(<< >>, id) = 0
<1> DEFINE f == [i \in 1..Len(<< >>) |-> Share(<< >>[i], id)]
<1>1. 1..Len(<< >>) = {}
  OBVIOUS
<1>2. SumOver(f, {}) = 0
  BY FS_EmptySet, SumUnfolds
<1> QED
  BY <1>1, <1>2 DEF Shares

\* A trade appended to the list adds its share.
LEMMA SharesAppend ==
  ASSUME NEW s \in Seq(Trade), NEW t \in Trade, NEW id
  PROVE  Shares(Append(s, t), id) = Shares(s, id) + Share(t, id)
<1> DEFINE u == Append(s, t)
           n == Len(s)
           f == [i \in 1..n |-> Share(s[i], id)]
           g == [i \in 1..n+1 |-> Share(u[i], id)]
<1>1. u \in Seq(Trade) /\ Len(u) = n + 1 /\ n \in Nat /\ u[n + 1] = t
      /\ \A i \in 1..n : u[i] = s[i]
  OBVIOUS
<1>2. \A i \in 1..n+1 : g[i] \in Int
  <2>1. \A i \in 1..n+1 : u[i] \in Trade /\ g[i] = Share(u[i], id)
    BY <1>1
  <2>2. \A v \in Trade : Share(v, id) \in Nat
    BY SharesNat
  <2> QED BY <2>1, <2>2
<1>3. \A i \in 1..n : g[i] = f[i]
  BY <1>1
<1>4. g[n + 1] = Share(t, id)
  BY <1>1
<1>5. Shares(s, id) = SumOver(f, 1..n) /\ Shares(u, id) = SumOver(g, 1..n+1)
  BY <1>1 DEF Shares
<1> HIDE DEF f, g, u
<1>6. SumOver(g, 1..n+1) = SumOver(f, 1..n) + g[n+1]
  <2> HIDE DEF n
  <2> QED BY Zenon, <1>1, <1>2, <1>3, SumLast
<1> QED
  BY <1>4, <1>5, <1>6, Zenon DEF u

\* A trade taken off the front of the list takes its share.
LEMMA SharesTail ==
  ASSUME NEW s \in Seq(Trade), s # << >>, NEW id
  PROVE  Shares(s, id) = Share(Head(s), id) + Shares(Tail(s), id)
<1> DEFINE u == Tail(s)
           n == Len(u)
           f == [i \in 1..n+1 |-> Share(s[i], id)]
           g == [i \in 1..n |-> Share(u[i], id)]
<1>1. u \in Seq(Trade) /\ n \in Nat /\ Len(s) = n + 1 /\ s[1] = Head(s)
      /\ \A i \in 1..n : u[i] = s[i + 1]
  OBVIOUS
<1>2. \A i \in 1..n+1 : f[i] \in Int
  <2>1. \A i \in 1..n+1 : s[i] \in Trade /\ f[i] = Share(s[i], id)
    BY <1>1
  <2>2. \A t \in Trade : Share(t, id) \in Nat
    BY Zenon, SharesNat
  <2> QED BY <2>1, <2>2
<1>3. \A i \in 1..n : g[i] = f[i + 1]
  BY <1>1
<1>4. f[1] = Share(Head(s), id)
  BY <1>1
<1>5. Shares(s, id) = SumOver(f, 1..n+1) /\ Shares(u, id) = SumOver(g, 1..n)
  BY <1>1 DEF Shares
<1> HIDE DEF f, g, u
<1>6. SumOver(f, 1..n+1) = f[1] + SumOver(g, 1..n)
  <2> HIDE DEF n
  <2> QED BY <1>1, <1>2, <1>3, SumFirst
<1> QED
  BY <1>4, <1>5, <1>6, Zenon DEF u

-----------------------------------------------------------------------------
(***************************************************************************)
(* The ledger and the books, order by order.                               *)
(***************************************************************************)

\* The entry of an order agrees with its book, live or gone.
EntryOK(symbol, id) ==
    /\ id \in LiveIds(books[symbol]) => LiveEntry(symbol, id)
    /\ << symbol, id >> \in DOMAIN ledger /\ id \notin LiveIds(books[symbol])
          => GoneEntry(symbol, id)

\* What the invariant says of one order.
LEMMA EntriesOK ==
  ASSUME LedgerTyped, LedgerMatchesBooks
  PROVE  \A symbol \in DOMAIN books : \A id : EntryOK(symbol, id)
<1> SUFFICES ASSUME NEW symbol \in DOMAIN books, NEW id
             PROVE  EntryOK(symbol, id)
  OBVIOUS
<1> DEFINE key == << symbol, id >>
<1>1. key[1] = symbol /\ key[2] = id
  OBVIOUS
<1> HIDE DEF key
<1>2. key \in DOMAIN ledger /\ id \notin LiveIds(books[symbol]) => GoneEntry(symbol, id)
  BY <1>1, Zenon DEF LedgerMatchesBooks
<1> QED
  BY <1>2 DEF LedgerMatchesBooks, EntryOK, key

\* The converse, for the state a step leads to.
LEMMA EntriesSuffice ==
  ASSUME LedgerTyped', (\A symbol \in DOMAIN books : \A id : EntryOK(symbol, id))'
  PROVE  LedgerMatchesBooks'
<1>1. ASSUME NEW key \in DOMAIN ledger', key[2] \notin LiveIds(books'[key[1]])
      PROVE  GoneEntry(key[1], key[2])'
  <2>1. PICK symbol \in DOMAIN books' : \E id : key = << symbol, id >>
    BY DEF LedgerTyped
  <2>2. PICK id : key = << symbol, id >>
    BY <2>1
  <2>3. key[1] = symbol /\ key[2] = id
    BY <2>2
  <2>4. EntryOK(symbol, id)'
    OBVIOUS
  <2>5. GoneEntry(symbol, id)'
    BY <1>1, <2>2, <2>3, <2>4, Zenon DEF EntryOK
  <2> QED BY <2>3, <2>5, Zenon
<1>2. ASSUME NEW symbol \in DOMAIN books', NEW id \in LiveIds(books'[symbol])
      PROVE  LiveEntry(symbol, id)'
  BY Zenon DEF EntryOK
<1> QED
  BY <1>1, <1>2, Zenon DEF LedgerMatchesBooks

\* An order of the ledger has an ID its book has handed out.
LEMMA LedgerKey ==
  ASSUME LedgerTyped, NEW symbol, NEW id, << symbol, id >> \in DOMAIN ledger
  PROVE  /\ symbol \in DOMAIN books /\ id \in 1..(books[symbol].next_order_id - 1)
         /\ ledger[<< symbol, id >>] \in Entry
<1> DEFINE key == << symbol, id >>
<1>1. PICK s \in DOMAIN books : \E i \in 1..(books[s].next_order_id - 1) : key = << s, i >>
  BY DEF LedgerTyped
<1>2. PICK i \in 1..(books[s].next_order_id - 1) : key = << s, i >>
  BY <1>1
<1>3. s = symbol /\ i = id
  BY <1>2
<1> QED
  BY <1>3 DEF LedgerTyped

\* What a step that leaves the ledger alone keeps of the invariant.
LEMMA LedgerSame ==
  ASSUME LedgerTyped, ledger' = ledger, DOMAIN books \subseteq DOMAIN books',
         \A s \in DOMAIN books : books'[s].next_order_id = books[s].next_order_id
  PROVE  LedgerTyped' /\ Filled' = Filled
<1>1. Filled' = Filled
  BY DEF Filled
<1>2. ASSUME NEW key \in DOMAIN ledger
      PROVE  /\ ledger[key] \in Entry
             /\ \E s \in DOMAIN books' : \E i \in 1..(books'[s].next_order_id - 1) :
                   key = << s, i >>
  <2>1. PICK s \in DOMAIN books : \E i \in 1..(books[s].next_order_id - 1) : key = << s, i >>
    BY DEF LedgerTyped
  <2>2. PICK i \in 1..(books[s].next_order_id - 1) : key = << s, i >>
    BY <2>1
  <2>3. s \in DOMAIN books' /\ i \in 1..(books'[s].next_order_id - 1)
    BY Zenon
  <2> QED BY <2>2, <2>3, Zenon DEF LedgerTyped
<1> QED
  BY <1>1, <1>2, Zenon DEF LedgerTyped

\* Between calls nothing is unreported.
LEMMA IdleUnreported ==
  ASSUME op = NoOp, NEW symbol, NEW id
  PROVE  Unreported(symbol, id) = 0
  BY DEF Unreported

\* Opening a book leaves the ledger in agreement with the books.
LEMMA OpenAudit ==
  ASSUME AuditInv, NEW symbol, books' = get_order_book(symbol), op = NoOp, op' = op,
         stats'.total_volume = stats.total_volume, ledger' = ledger
  PROVE  AuditInv'
<1>1. /\ DOMAIN books' = DOMAIN books \cup {symbol}
      /\ \A s \in DOMAIN books : books'[s] = books[s]
      /\ symbol \notin DOMAIN books => LiveIds(books'[symbol]) = {}
  BY Zenon, OpenEffect
<1>2. LedgerTyped' /\ Filled' = Filled
  BY <1>1, LedgerSame DEF AuditInv
<1>3. ASSUME NEW s \in DOMAIN books', NEW id
      PROVE  EntryOK(s, id)'
  <2>1. CASE s \in DOMAIN books
    <3>1. EntryOK(s, id)
      BY <2>1, EntriesOK DEF AuditInv
    <3>2. books'[s] = books[s] /\ Unreported(s, id)' = Unreported(s, id)
      BY <1>1, <2>1 DEF Unreported
    <3> QED BY <3>1, <3>2 DEF EntryOK, LiveEntry, GoneEntry
  <2>2. CASE s \notin DOMAIN books
    <3>1. s = symbol /\ LiveIds(books'[s]) = {}
      BY <1>1, <2>2
    <3>2. << s, id >> \notin DOMAIN ledger
      BY <2>2, LedgerKey DEF AuditInv
    <3> QED BY <3>1, <3>2 DEF EntryOK
  <2> QED BY <2>1, <2>2
<1>4. LedgerMatchesBooks'
  BY <1>2, <1>3, EntriesSuffice
<1> QED
  BY <1>2, <1>4 DEF AuditInv

\* An accepted order enters the ledger with nothing filled.
LEMMA SubmittedAudit ==
  ASSUME EngineInv, AuditInv, NEW symbol \in Symbols, NEW side \in Side, NEW type \in OrderType,
         NEW price \in Prices, NEW quantity \in Quantities,
         Submitted(symbol, side, type, price, quantity)
  PROVE  /\ AuditInv'
         /\ \A key \in DOMAIN ledger : ledger'[key] = ledger[key]
<1> DEFINE b   == get_order_book(symbol)[symbol]
           c   == books'[symbol]
           id  == b.next_order_id
           key == << symbol, id >>
           e   == [type |-> type, quantity |-> quantity, filled |-> 0, cancelled |-> FALSE]
<1>0. AcceptOrder(symbol, side, type, price, quantity)
  BY DEF Submitted
<1>1. /\ op = NoOp /\ op' \in OpRecord /\ op'.symbol = symbol /\ op'.trades = << >>
      /\ stats' = [stats EXCEPT !.total_orders = @ + 1]
      /\ DOMAIN books' = DOMAIN books \cup {symbol}
      /\ \A s \in DOMAIN books : s # symbol => books'[s] = books[s]
      /\ id \in Nat \ {0} /\ c.next_order_id = id + 1
      /\ id \notin LiveIds(b) /\ LiveIds(c) = LiveIds(b) \cup {id}
      /\ OrderOf(c, id) = NewOrder(id, side, type, EffectivePrice(side, type, price), quantity)
      /\ \A i \in LiveIds(b) : OrderOf(c, i) = OrderOf(b, i)
  <2>1. Accepted(symbol, side, type, price, quantity)
    BY <1>0, AcceptEffect
  <2> QED BY <2>1 DEF Accepted
<1>2. IF symbol \in DOMAIN books THEN b = books[symbol] ELSE LiveIds(b) = {} /\ id = 1
  BY Zenon, OpenEffect
<1> HIDE DEF b
<1>3. ledger' = [k \in DOMAIN ledger \cup {key} |-> IF k = key THEN e ELSE ledger[k]]
  <2>1. books'[symbol].next_order_id - 1 = id
    BY <1>1
  <2> QED BY <2>1, Zenon DEF Submitted
<1>4. quantity \in Nat /\ e \in Entry
  BY EngineAssumption DEF Entry
<1> HIDE DEF e
<1>5. key \notin DOMAIN ledger
  <2>1. SUFFICES ASSUME key \in DOMAIN ledger PROVE FALSE
    OBVIOUS
  <2>2. symbol \in DOMAIN books /\ id \in 1..(books[symbol].next_order_id - 1)
    BY <2>1, LedgerKey DEF AuditInv
  <2>3. id = books[symbol].next_order_id
    BY <1>2, <2>2
  <2> QED BY <1>1, <2>2, <2>3
<1>6. /\ DOMAIN ledger' = DOMAIN ledger \cup {key} /\ ledger'[key] = e
      /\ \A k \in DOMAIN ledger : ledger'[k] = ledger[k]
  <2> HIDE DEF key
  <2> QED BY <1>3, <1>5
<1>7. \A s \in DOMAIN books : books[s].next_order_id \in Nat
                              /\ books'[s].next_order_id >= books[s].next_order_id
  <2>1. \A s \in DOMAIN books : books[s].next_order_id \in Nat
    BY DEF EngineInv, TypeOK, BookTypeOK
  <2>2. \A s \in DOMAIN books : s # symbol => books'[s].next_order_id = books[s].next_order_id
    BY <1>1
  <2> QED BY <1>1, <1>2, <2>1, <2>2
<1>8. LedgerTyped'
  <2>1. IsFiniteSet(DOMAIN ledger')
    BY <1>6, FS_AddElement DEF AuditInv, LedgerTyped
  <2>2. ASSUME NEW k \in DOMAIN ledger'
        PROVE  /\ ledger'[k] \in Entry
               /\ \E s \in DOMAIN books' : \E i \in 1..(books'[s].next_order_id - 1) : k = << s, i >>
    <3>1. CASE k = key
      <4>1. id \in 1..(books'[symbol].next_order_id - 1) /\ symbol \in DOMAIN books'
        BY <1>1
      <4> QED BY <1>4, <1>6, <3>1, <4>1, Zenon
    <3>2. CASE k \in DOMAIN ledger
      <4>1. PICK s \in DOMAIN books : \E i \in 1..(books[s].next_order_id - 1) : k = << s, i >>
        BY <3>2 DEF AuditInv, LedgerTyped
      <4>2. PICK i \in 1..(books[s].next_order_id - 1) : k = << s, i >>
        BY <4>1
      <4>3. s \in DOMAIN books' /\ i \in 1..(books'[s].next_order_id - 1)
        <5>1. s \in DOMAIN books'
          BY <1>1
        <5>2. books[s].next_order_id \in Nat /\ books'[s].next_order_id >= books[s].next_order_id
          BY <1>7
        <5>3. books'[s].next_order_id \in Nat
          BY <1>1, <5>2
        <5> QED BY <4>2, <5>1, <5>2, <5>3
      <4>4. ledger'[k] \in Entry
        BY <1>6, <3>2 DEF AuditInv, LedgerTyped
      <4> QED BY <4>2, <4>3, <4>4, Zenon
    <3> QED BY <1>6, <3>1, <3>2
  <2> QED BY <2>1, <2>2, Zenon DEF LedgerTyped
<1>9. \A s, i : Unreported(s, i) = 0 /\ Unreported(s, i)' = 0
  BY <1>1, SharesNil DEF Unreported
<1>10. ASSUME NEW s \in DOMAIN books', NEW i
       PROVE  EntryOK(s, i)'
  <2>1. CASE s # symbol
    <3>1. s \in DOMAIN books /\ books'[s] = books[s]
      BY <1>1, <2>1
    <3>2. EntryOK(s, i)
      BY <3>1, EntriesOK DEF AuditInv
    <3>3. << s, i >> # key
      BY <2>1
    <3>4. << s, i >> \in DOMAIN ledger' <=> << s, i >> \in DOMAIN ledger
      BY <1>6, <3>3
    <3> HIDE DEF key
    <3>5. << s, i >> \in DOMAIN ledger => ledger'[<< s, i >>] = ledger[<< s, i >>]
      BY <1>6
    <3> QED BY <1>9, <3>1, <3>2, <3>4, <3>5 DEF EntryOK, LiveEntry, GoneEntry
  <2>2. CASE s = symbol /\ i = id
    <3> DEFINE o == OrderOf(c, id)
    <3>1. o.type = type /\ o.quantity = quantity /\ o.remaining_qty = quantity
      BY <1>1 DEF NewOrder
    <3>2. ~e.cancelled /\ e.type = type /\ e.quantity = quantity /\ e.filled = 0
      BY DEF e
    <3>3. id \in LiveIds(c)
      BY <1>1
    <3>4. e.filled + Unreported(s, i)' = o.quantity - o.remaining_qty
      BY <1>4, <1>9, <3>1, <3>2
    <3> QED BY <1>6, <2>2, <3>1, <3>2, <3>3, <3>4 DEF EntryOK, LiveEntry
  <2>3. CASE s = symbol /\ i # id
    <3>1. << s, i >> # key
      BY <2>3
    <3>2. << s, i >> \in DOMAIN ledger' <=> << s, i >> \in DOMAIN ledger
      BY <1>6, <3>1
    <3>3. << s, i >> \in DOMAIN ledger => ledger'[<< s, i >>] = ledger[<< s, i >>]
      BY <1>6
    <3>4. CASE symbol \in DOMAIN books
      <4>1. EntryOK(symbol, i) /\ b = books[symbol]
        BY <1>2, <3>4, EntriesOK DEF AuditInv
      <4>2. i \in LiveIds(c) <=> i \in LiveIds(books[symbol])
        BY <1>1, <2>3, <4>1
      <4>3. i \in LiveIds(books[symbol]) => OrderOf(c, i) = OrderOf(books[symbol], i)
        BY <1>1, <4>1
      <4> HIDE DEF key
      <4> QED BY <1>9, <2>3, <3>2, <3>3, <4>1, <4>2, <4>3 DEF EntryOK, LiveEntry, GoneEntry
    <3>5. CASE symbol \notin DOMAIN books
      <4>1. << s, i >> \notin DOMAIN ledger
        BY <2>3, <3>5, LedgerKey DEF AuditInv
      <4>2. i \notin LiveIds(c)
        BY <1>1, <1>2, <2>3, <3>5
      <4> QED BY <2>3, <3>2, <4>1, <4>2 DEF EntryOK
    <3> QED BY <3>4, <3>5
  <2> QED BY <2>1, <2>2, <2>3
<1>11. LedgerMatchesBooks'
  BY <1>8, <1>10, EntriesSuffice
<1>12. SumOver(Filled', DOMAIN ledger') = SumOver(Filled, DOMAIN ledger)
  <2> DEFINE D == DOMAIN ledger
             f == Filled
             g == Filled'
  <2>1. IsFiniteSet(D) /\ \A k \in D : f[k] \in Int /\ g[k] = f[k]
    BY <1>6 DEF AuditInv, LedgerTyped, Filled, Entry
  <2>2. g[key] = 0
    BY <1>6 DEF Filled, e
  <2> HIDE DEF D, f, g, key
  <2>3. SumOver(g, D) = SumOver(f, D) /\ SumOver(g, D) \in Int
    BY <2>1, SumSame, SumType
  <2>4. SumOver(g, D \cup {key}) = g[key] + SumOver(g, D)
    BY <1>5, <2>1, <2>2, SumAdd DEF D
  <2>5. SumOver(g, D \cup {key}) = SumOver(f, D)
    BY <2>2, <2>3, <2>4
  <2> QED BY <1>6, <2>5, Zenon DEF D, f, g
<1>13. stats'.total_volume = stats.total_volume
  BY <1>1 DEF EngineInv, TypeOK, EngineStats
<1>14. \A i \in 1..Len(op'.trades) : TradeInLedger(op.symbol, op.trades[i])'
  BY <1>1
<1> QED
  BY <1>6, <1>8, <1>11, <1>12, <1>13, <1>14 DEF AuditInv

\* The orders of the other books when a step works on one book only and keeps
\* the ledger.
LEMMA OtherEntries ==
  ASSUME LedgerTyped, LedgerMatchesBooks, NEW symbol, OnlyBook(symbol), ledger' = ledger,
         op' # NoOp => op'.symbol = symbol, op # NoOp => op.symbol = symbol,
         NEW s \in DOMAIN books, s # symbol, NEW id
  PROVE  EntryOK(s, id)'
<1>1. EntryOK(s, id) /\ books'[s] = books[s]
  BY EntriesOK DEF OnlyBook
<1>2. Unreported(s, id) = 0 /\ Unreported(s, id)' = 0
  BY DEF Unreported
<1> QED
  BY <1>1, <1>2 DEF EntryOK, LiveEntry, GoneEntry

\* A trade takes from the remaining quantity of its orders what it adds to
\* their unreported shares.
LEMMA MatchAudit ==
  ASSUME EngineInv, AuditInv, MatchStep, ledger' = ledger
  PROVE  AuditInv'
<1>0. PICK sym : sym = op.symbol
  OBVIOUS
<1> DEFINE b == books[sym]
           c == books'[sym]
<1>1. PICK id \in LiveIds(b), r \in LiveIds(b) : Matched(id, r)
  BY <1>0, MatchEffect
<1> DEFINE x == OrderOf(b, id)
           y == OrderOf(b, r)
           t == TradeOf(x, y)
           q == FillQty(x, y)
<1>2. /\ id # r /\ op \in OpRecord /\ op.symbol \in DOMAIN books /\ BookInv(b)
      /\ op' \in OpRecord /\ op'.symbol = op.symbol
      /\ op'.trades = Append(op.trades, t) /\ t.quantity = q
      /\ stats' = stats /\ OnlyBook(op.symbol)
      /\ c.next_order_id = b.next_order_id
  BY <1>0, <1>1 DEF Matched
<1>3. /\ LiveIds(c) = IF y.remaining_qty - q = 0 THEN LiveIds(b) \ {r} ELSE LiveIds(b)
      /\ \A i \in LiveIds(c) : OrderOf(c, i) = IF i = id THEN Fill(x, q)
                                               ELSE IF i = r THEN Fill(y, q)
                                               ELSE OrderOf(b, i)
  BY <1>0, <1>1 DEF Matched
<1>4. \/ t.buy_order_id = id /\ t.sell_order_id = r
      \/ t.buy_order_id = r /\ t.sell_order_id = id
  BY <1>0, <1>1 DEF Matched
<1>5. op # NoOp /\ op' # NoOp /\ op.trades \in Seq(Trade) /\ op'.trades \in Seq(Trade)
  BY <1>2, BusyOp
<1> HIDE DEF t
<1>6. t \in Trade
  <2>1. Len(op.trades) + 1 \in 1..Len(op'.trades) /\ op'.trades[Len(op.trades) + 1] = t
    BY <1>2, <1>5
  <2> QED BY <1>5, <2>1
<1>7. /\ x \in Order /\ y \in Order /\ q \in Nat
      /\ Fill(x, q).remaining_qty = x.remaining_qty - q /\ Fill(x, q).quantity = x.quantity
      /\ Fill(x, q).type = x.type
      /\ Fill(y, q).remaining_qty = y.remaining_qty - q /\ Fill(y, q).quantity = y.quantity
      /\ Fill(y, q).type = y.type
  BY Zenon, <1>1, <1>2, LiveOrder, FillQtyBounds, FillOrder
<1>8. \A i \in LiveIds(b) : OrderOf(b, i) \in Order
  BY <1>2, LiveOrder
<1>9. \A i : /\ Unreported(sym, i) \in Nat
             /\ Unreported(sym, i)' = Unreported(sym, i) + (IF i \in {id, r} THEN q ELSE 0)
  <2> SUFFICES ASSUME NEW i
               PROVE  /\ Unreported(sym, i) \in Nat
                      /\ Unreported(sym, i)' =
                            Unreported(sym, i) + (IF i \in {id, r} THEN q ELSE 0)
    OBVIOUS
  <2>1. Unreported(sym, i) = Shares(op.trades, i) /\ Unreported(sym, i)' = Shares(op'.trades, i)
    BY <1>0, <1>2, <1>5 DEF Unreported
  <2>2. Shares(op'.trades, i) = Shares(op.trades, i) + Share(t, i)
    BY <1>2, <1>5, <1>6, SharesAppend
  <2>3. Share(t, i) = IF i \in {id, r} THEN q ELSE 0
    BY <1>2, <1>4 DEF Share
  <2>4. Shares(op.trades, i) \in Nat
    BY <1>5, SharesNat
  <2> QED BY <2>1, <2>2, <2>3, <2>4
<1>10. LedgerTyped' /\ Filled' = Filled
  <2>1. DOMAIN books' = DOMAIN books
        /\ \A s \in DOMAIN books : books'[s].next_order_id = books[s].next_order_id
    BY <1>0, <1>2 DEF OnlyBook
  <2> QED BY <2>1, LedgerSame DEF AuditInv
<1> HIDE DEF x, y, q, b, c
<1>11. ASSUME NEW i
       PROVE  EntryOK(sym, i)'
  <2> DEFINE e == ledger[<< sym, i >>]
             u == Unreported(sym, i)
             v == Unreported(sym, i)'
             o == OrderOf(b, i)
  <2>1. EntryOK(sym, i)
    BY <1>0, <1>2, EntriesOK DEF AuditInv
  <2>2. << sym, i >> \in DOMAIN ledger => e \in Entry
    BY LedgerKey DEF AuditInv
  <2>3. u \in Nat /\ v = u + (IF i \in {id, r} THEN q ELSE 0)
    BY <1>9
  <2>4. i \in LiveIds(b) => /\ << sym, i >> \in DOMAIN ledger /\ ~e.cancelled /\ e.type = o.type
                            /\ e.quantity = o.quantity
                            /\ e.filled + u = o.quantity - o.remaining_qty
    BY <2>1 DEF EntryOK, LiveEntry, b
  <2>5. << sym, i >> \in DOMAIN ledger /\ i \notin LiveIds(b) => GoneEntry(sym, i)
    BY <2>1 DEF EntryOK, b
  <2>e. /\ e \in Entry => e.filled \in Nat /\ e.quantity \in Nat
        /\ i \in LiveIds(b) => o.quantity \in Nat /\ o.remaining_qty \in Nat
    BY <1>8 DEF Entry, Order
  <2>6. ASSUME i \in LiveIds(c)
        PROVE  LiveEntry(sym, i)'
    <3>1. i \in LiveIds(b)
      BY <1>3, <2>6
    <3>2. /\ OrderOf(c, i).type = o.type /\ OrderOf(c, i).quantity = o.quantity
          /\ OrderOf(c, i).remaining_qty = o.remaining_qty - (IF i \in {id, r} THEN q ELSE 0)
      <4>1. CASE i = id
        BY <1>3, <1>7, <2>6, <4>1 DEF x
      <4>2. CASE i = r
        BY <1>2, <1>3, <1>7, <2>6, <4>2 DEF y
      <4>3. CASE i \notin {id, r}
        BY <1>3, <2>6, <2>e, <3>1, <4>3
      <4> QED BY <4>1, <4>2, <4>3
    <3>3. e.filled + v = OrderOf(c, i).quantity - OrderOf(c, i).remaining_qty
      <4> HIDE DEF e, u, v, o
      <4> QED BY <1>7, <2>2, <2>3, <2>4, <2>e, <3>1, <3>2
    <3> QED BY <2>4, <3>1, <3>2, <3>3 DEF LiveEntry, c
  <2>7. ASSUME << sym, i >> \in DOMAIN ledger, i \notin LiveIds(c)
        PROVE  GoneEntry(sym, i)'
    <3>1. CASE i = r
      <4>1. y.remaining_qty - q = 0
        BY <1>1, <1>3, <2>7, <3>1 DEF b
      <4>2. e.filled + v = e.quantity
        <5>1. o = y /\ i \in LiveIds(b)
          BY <1>1, <3>1 DEF y, b
        <5> HIDE DEF e, u, v, o
        <5> QED BY <1>7, <2>2, <2>3, <2>4, <2>7, <2>e, <3>1, <4>1, <5>1
      <4> HIDE DEF v
      <4> QED BY <2>2, <2>7, <2>e, <4>2 DEF GoneEntry, v
    <3>2. CASE i # r
      <4>1. i \notin LiveIds(b) /\ i # id
        BY <1>1, <1>3, <2>7, <3>2 DEF b
      <4>2. v = u
        BY <2>3, <3>2, <4>1
      <4> QED BY <2>5, <2>7, <4>1, <4>2 DEF GoneEntry
    <3> QED BY <3>1, <3>2
  <2> QED BY <2>6, <2>7 DEF EntryOK, c
<1>12. LedgerMatchesBooks'
  <2>1. ASSUME NEW s \in DOMAIN books', NEW i
        PROVE  EntryOK(s, i)'
    <3>1. CASE s = sym
      BY <1>11, <3>1
    <3>2. CASE s # sym
      <4>1. s \in DOMAIN books
        BY <1>2 DEF OnlyBook
      <4> QED BY <1>0, <1>2, <1>5, <3>2, <4>1, OtherEntries DEF AuditInv
    <3> QED BY <3>1, <3>2
  <2> QED BY <1>10, <2>1, EntriesSuffice
<1>13. ASSUME NEW i \in 1..Len(op'.trades)
       PROVE  TradeInLedger(op.symbol, op.trades[i])'
  <2>1. CASE i \in 1..Len(op.trades)
    <3>1. op'.trades[i] = op.trades[i]
      BY <1>2, <1>5, <1>6, <2>1
    <3> QED BY <1>2, <1>5, <2>1, <3>1 DEF AuditInv, TradeInLedger
  <2>2. CASE i \notin 1..Len(op.trades)
    <3>1. op'.trades[i] = t
      BY <1>2, <1>5, <1>6, <2>2
    <3>2. \A j \in {id, r} : << sym, j >> \in DOMAIN ledger /\ ~ledger[<< sym, j >>].cancelled
      BY <1>0, <1>1, <1>2 DEF AuditInv, LedgerMatchesBooks, LiveEntry, b
    <3> QED BY <1>0, <1>2, <1>4, <3>1, <3>2 DEF TradeInLedger
  <2> QED BY <2>1, <2>2
<1> QED
  BY <1>2, <1>10, <1>12, <1>13 DEF AuditInv

\* Writing the status of the incoming order moves no shares.
LEMMA DoneAudit ==
  ASSUME EngineInv, AuditInv, MatchDone, ledger' = ledger
  PROVE  AuditInv'
<1>0. PICK sym : sym = op.symbol
  OBVIOUS
<1> DEFINE b == books[sym]
           c == books'[sym]
<1>1. /\ op \in OpRecord /\ sym \in DOMAIN books /\ op' \in OpRecord
      /\ op'.symbol = sym /\ op'.trades = op.trades
      /\ stats' = stats /\ OnlyBook(sym)
      /\ c.next_order_id = b.next_order_id /\ LiveIds(c) = LiveIds(b)
  BY <1>0, DoneEffect
<1>2. \A i \in LiveIds(b) :
         /\ OrderOf(b, i) \in Order
         /\ \E status : OrderOf(c, i) = [OrderOf(b, i) EXCEPT !.status = status]
  BY <1>0, DoneEffect
<1>3. \A i \in LiveIds(b) : /\ OrderOf(c, i).type = OrderOf(b, i).type
                            /\ OrderOf(c, i).quantity = OrderOf(b, i).quantity
                            /\ OrderOf(c, i).remaining_qty = OrderOf(b, i).remaining_qty
  <2> HIDE DEF b, c
  <2> QED BY <1>2 DEF Order
<1>4. op # NoOp /\ op' # NoOp
  BY <1>1, BusyOp
<1>5. \A i : Unreported(sym, i)' = Unreported(sym, i)
  BY <1>0, <1>1, <1>4 DEF Unreported
<1>6. LedgerTyped' /\ Filled' = Filled
  <2>1. DOMAIN books' = DOMAIN books
        /\ \A s \in DOMAIN books : books'[s].next_order_id = books[s].next_order_id
    BY <1>1 DEF OnlyBook
  <2> QED BY <2>1, LedgerSame DEF AuditInv
<1>7. ASSUME NEW s \in DOMAIN books', NEW i
      PROVE  EntryOK(s, i)'
  <2>1. CASE s = sym
    <3>1. EntryOK(sym, i)
      BY <1>1, EntriesOK DEF AuditInv
    <3>2. Unreported(sym, i)' = Unreported(sym, i)
      BY <1>5
    <3> QED BY <1>1, <1>3, <2>1, <3>1, <3>2 DEF EntryOK, LiveEntry, GoneEntry
  <2>2. CASE s # sym
    <3>1. s \in DOMAIN books
      BY <1>1 DEF OnlyBook
    <3> QED BY <1>0, <1>1, <2>2, <3>1, OtherEntries DEF AuditInv
  <2> QED BY <2>1, <2>2
<1>8. LedgerMatchesBooks'
  BY <1>6, <1>7, EntriesSuffice
<1>9. \A i \in 1..Len(op'.trades) : TradeInLedger(op.symbol, op.trades[i])'
  BY <1>0, <1>1, <1>4 DEF AuditInv, TradeInLedger
<1> QED
  BY <1>1, <1>6, <1>8, <1>9 DEF AuditInv

\* When the call ends every trade is reported; the incoming order leaves the
\* book filled, or as a market or IOC remainder, or stays.
LEMMA FinishAudit ==
  ASSUME EngineInv, AuditInv, Finish, ledger' = ledger
  PROVE  AuditInv'
<1>0. PICK sym : sym = op.symbol
  OBVIOUS
<1> DEFINE b == books[sym]
           c == books'[sym]
<1>1. /\ op \in OpRecord /\ sym \in DOMAIN books /\ BookInv(b)
      /\ op.trades = << >> /\ op' = NoOp /\ stats' = stats /\ OnlyBook(sym)
      /\ c.next_order_id = b.next_order_id
      /\ \A i \in LiveIds(c) : OrderOf(c, i) = OrderOf(b, i)
  BY <1>0, FinishEffect
<1>2. PICK id \in LiveIds(b) :
        LiveIds(c) = IF OrderOf(b, id).remaining_qty # 0 /\ OrderOf(b, id).type = "Limit"
                     THEN LiveIds(b) ELSE LiveIds(b) \ {id}
  BY Zenon, <1>0, FinishEffect
<1>3. op # NoOp
  BY <1>1, BusyOp
<1>4. \A i : Unreported(sym, i) = 0 /\ Unreported(sym, i)' = 0
  BY <1>0, <1>1, <1>3, SharesNil DEF Unreported
<1>5. LedgerTyped' /\ Filled' = Filled
  <2>1. DOMAIN books' = DOMAIN books
        /\ \A s \in DOMAIN books : books'[s].next_order_id = books[s].next_order_id
    BY <1>1 DEF OnlyBook
  <2> QED BY <2>1, LedgerSame DEF AuditInv
<1>6. \A i \in LiveIds(b) : OrderOf(b, i) \in Order
  BY <1>1, LiveOrder
<1> HIDE DEF b, c
<1>7. ASSUME NEW i
      PROVE  EntryOK(sym, i)'
  <2> DEFINE e == ledger[<< sym, i >>]
             o == OrderOf(b, i)
  <2>1. EntryOK(sym, i) /\ Unreported(sym, i) = 0 /\ Unreported(sym, i)' = 0
    BY <1>1, <1>4, EntriesOK DEF AuditInv
  <2>2. << sym, i >> \in DOMAIN ledger => e.filled \in Nat /\ e.quantity \in Nat
    BY LedgerKey DEF AuditInv, Entry
  <2>3. ASSUME i \in LiveIds(c)
        PROVE  LiveEntry(sym, i)'
    <3>1. i \in LiveIds(b) /\ OrderOf(c, i) = o
      BY <1>1, <1>2, <2>3
    <3> QED BY <2>1, <3>1 DEF EntryOK, LiveEntry, b, c
  <2>4. ASSUME << sym, i >> \in DOMAIN ledger, i \notin LiveIds(c)
        PROVE  GoneEntry(sym, i)'
    <3>1. CASE i \in LiveIds(b)
      <4>1. i = id /\ (o.remaining_qty = 0 \/ o.type # "Limit")
        BY <1>2, <2>4, <3>1
      <4>2. o.quantity \in Nat /\ o.remaining_qty \in Nat
        BY <1>6, <3>1 DEF Order
      <4>3. e.type = o.type /\ e.quantity = o.quantity /\ e.filled + 0 = o.quantity - o.remaining_qty
        BY <2>1, <3>1 DEF EntryOK, LiveEntry, b
      <4>4. e.filled + 0 =< e.quantity /\ (e.type = "Limit" => e.filled + 0 = e.quantity)
        <5> HIDE DEF e, o
        <5> QED BY <2>2, <2>4, <4>1, <4>2, <4>3
      <4> QED BY <2>1, <4>4 DEF GoneEntry
    <3>2. CASE i \notin LiveIds(b)
      BY <2>1, <2>4, <3>2 DEF EntryOK, GoneEntry, b
    <3> QED BY <3>1, <3>2
  <2> QED BY <2>3, <2>4 DEF EntryOK, c
<1>8. ASSUME NEW s \in DOMAIN books', NEW i
      PROVE  EntryOK(s, i)'
  <2>1. CASE s = sym
    BY <1>7, <2>1
  <2>2. CASE s # sym
    <3>1. s \in DOMAIN books
      BY <1>1 DEF OnlyBook
    <3> QED BY <1>0, <1>1, <2>2, <3>1, OtherEntries DEF AuditInv
  <2> QED BY <2>1, <2>2
<1>9. LedgerMatchesBooks'
  BY <1>5, <1>8, EntriesSuffice
<1> QED
  BY <1>1, <1>5, <1>9 DEF AuditInv

\* A reported trade moves its shares from the unreported to the ledger, at two
\* orders, and total_volume counts them once.
LEMMA TradedAudit ==
  ASSUME EngineInv, AuditInv, Traded
  PROVE  /\ AuditInv'
         /\ \A key \in DOMAIN ledger : ledger[key].cancelled => ledger'[key] = ledger[key]
<1>0. PICK sym : sym = op.symbol
  OBVIOUS
<1>t. PICK t : t = Head(op.trades)
  OBVIOUS
<1> DEFINE q  == t.quantity
           k1 == << sym, t.buy_order_id >>
           k2 == << sym, t.sell_order_id >>
<1>1. /\ op \in OpRecord /\ sym \in DOMAIN books
      /\ op.trades \in Seq(Trade) /\ op.trades # << >> /\ t \in Trade
      /\ op' \in OpRecord /\ op'.symbol = sym /\ op'.trades = Tail(op.trades)
      /\ books' = books
  BY <1>0, <1>t, ReportEffect DEF Traded
<1>2. stats'.total_volume = stats.total_volume + q /\ stats.total_volume \in Nat
  <2>1. stats' = [stats EXCEPT !.total_trades = @ + 1,
                               !.total_volume = @ + t.quantity,
                               !.total_notional = @ + t.price * t.quantity]
    BY <1>t, Zenon DEF Traded, ReportTrade
  <2>2. stats \in EngineStats
    BY DEF EngineInv, TypeOK
  <2> QED BY <2>1, <2>2 DEF EngineStats
<1>3. op # NoOp /\ op' # NoOp /\ q \in Nat
  BY <1>1, BusyOp DEF Trade
<1>4. TradeInLedger(sym, t)
  <2>1. 1 \in 1..Len(op.trades) /\ op.trades[1] = t
    BY <1>1, <1>t
  <2> QED BY <1>0, <1>3, <2>1 DEF AuditInv
<1>5. k1 # k2 /\ k1 \in DOMAIN ledger /\ k2 \in DOMAIN ledger
      /\ ~ledger[k1].cancelled /\ ~ledger[k2].cancelled
  BY <1>4 DEF TradeInLedger
<1>6. \A k \in DOMAIN ledger : ledger[k] \in Entry
  BY DEF AuditInv, LedgerTyped
<1>7. ledger' = [ledger EXCEPT ![k1].filled = @ + q, ![k2].filled = @ + q]
  BY <1>0, <1>t, Zenon DEF Traded
<1> HIDE DEF k1, k2, q
<1>8. /\ DOMAIN ledger' = DOMAIN ledger
      /\ \A k \in DOMAIN ledger : ledger'[k] =
            IF k \in {k1, k2} THEN [ledger[k] EXCEPT !.filled = @ + q] ELSE ledger[k]
  BY <1>5, <1>7
<1>9. \A k \in DOMAIN ledger :
         /\ ledger'[k] \in Entry
         /\ ledger'[k].type = ledger[k].type /\ ledger'[k].quantity = ledger[k].quantity
         /\ ledger'[k].cancelled = ledger[k].cancelled
         /\ ledger'[k].filled = ledger[k].filled + (IF k \in {k1, k2} THEN q ELSE 0)
  BY <1>3, <1>6, <1>8 DEF Entry
<1>10. LedgerTyped'
  <2>1. ASSUME NEW k \in DOMAIN ledger
        PROVE  \E s \in DOMAIN books' : \E i \in 1..(books'[s].next_order_id - 1) : k = << s, i >>
    BY <1>1, Zenon DEF AuditInv, LedgerTyped
  <2>2. IsFiniteSet(DOMAIN ledger) /\ \A k \in DOMAIN ledger : ledger'[k] \in Entry
    BY <1>9 DEF AuditInv, LedgerTyped
  <2> QED BY <1>8, <2>1, <2>2, Zenon DEF LedgerTyped
<1>11. \A i : /\ Unreported(sym, i)' \in Nat
              /\ Unreported(sym, i) = Unreported(sym, i)' + Share(t, i)
  <2> SUFFICES ASSUME NEW i
               PROVE  /\ Unreported(sym, i)' \in Nat
                      /\ Unreported(sym, i) = Unreported(sym, i)' + Share(t, i)
    OBVIOUS
  <2>1. Unreported(sym, i) = Shares(op.trades, i) /\ Unreported(sym, i)' = Shares(op'.trades, i)
    BY <1>0, <1>1, <1>3 DEF Unreported
  <2>2. Shares(op.trades, i) = Share(t, i) + Shares(op'.trades, i)
    BY <1>1, <1>t, SharesTail
  <2>3. Shares(op'.trades, i) \in Nat /\ Share(t, i) \in Nat
    <3>1. op'.trades \in Seq(Trade)
      BY <1>1, BusyOp
    <3> QED BY Zenon, <1>1, <3>1, SharesNat
  <2> QED BY <2>1, <2>2, <2>3
<1>12. ASSUME NEW s \in DOMAIN books', NEW i
       PROVE  EntryOK(s, i)'
  <2> DEFINE k == << s, i >>
             u == Unreported(s, i)
             v == Unreported(s, i)'
  <2>1. EntryOK(s, i) /\ s \in DOMAIN books /\ books'[s] = books[s]
    BY <1>1, EntriesOK DEF AuditInv
  <2>2. k \in DOMAIN ledger => ledger'[k].filled + v = ledger[k].filled + u
    <3>1. CASE s = sym
      <4>1. k \in {k1, k2} <=> i = t.buy_order_id \/ i = t.sell_order_id
        BY <3>1 DEF k1, k2
      <4>2. Share(t, i) = IF k \in {k1, k2} THEN q ELSE 0
        BY <4>1 DEF Share, q
      <4>3. v \in Nat /\ u = v + Share(t, i)
        BY <1>11, <3>1
      <4>4. k \in DOMAIN ledger => /\ ledger[k].filled \in Nat
                                   /\ ledger'[k].filled = ledger[k].filled + Share(t, i)
        BY <1>6, <1>9, <4>2 DEF Entry
      <4> HIDE DEF k, u, v
      <4>5. Share(t, i) \in Nat
        BY <1>3, <4>2
      <4> QED BY <4>3, <4>4, <4>5
    <3>2. CASE s # sym
      <4>1. u = 0 /\ v = 0
        BY <1>0, <1>1, <3>2 DEF Unreported
      <4>2. k \notin {k1, k2}
        BY <3>2 DEF k1, k2
      <4>3. k \in DOMAIN ledger => ledger'[k] = ledger[k]
        BY <1>8, <4>2
      <4> QED BY <4>1, <4>3
    <3> QED BY <3>1, <3>2
  <2>3. k \in DOMAIN ledger' <=> k \in DOMAIN ledger
    BY <1>8
  <2>4. k \in DOMAIN ledger =>
           /\ ledger'[k].type = ledger[k].type /\ ledger'[k].quantity = ledger[k].quantity
           /\ ledger'[k].cancelled = ledger[k].cancelled
    BY <1>9
  <2> QED BY <2>1, <2>2, <2>3, <2>4 DEF EntryOK, LiveEntry, GoneEntry
<1>13. LedgerMatchesBooks'
  BY <1>10, <1>12, EntriesSuffice
<1>14. ASSUME NEW i \in 1..Len(op'.trades)
       PROVE  TradeInLedger(op.symbol, op.trades[i])'
  <2>1. i + 1 \in 1..Len(op.trades) /\ op'.trades[i] = op.trades[i + 1]
    BY <1>1
  <2>2. TradeInLedger(sym, op.trades[i + 1])
    BY <1>0, <1>3, <2>1 DEF AuditInv
  <2>3. \A k \in DOMAIN ledger : k \in DOMAIN ledger' /\ ledger'[k].cancelled = ledger[k].cancelled
    BY <1>8, <1>9
  <2> QED BY Zenon, <1>1, <2>1, <2>2, <2>3 DEF TradeInLedger
<1>15. SumOver(Filled', DOMAIN ledger') = SumOver(Filled, DOMAIN ledger) + q + q
       /\ SumOver(Filled, DOMAIN ledger) \in Int
  <2> DEFINE D == DOMAIN ledger
             f == Filled
             g == [f EXCEPT ![k1] = @ + q]
             h == Filled'
  <2>1. /\ IsFiniteSet(D) /\ DOMAIN f = D /\ k1 \in D /\ k2 \in D
        /\ \A k \in D : f[k] \in Int /\ h[k] = f[k] + (IF k \in {k1, k2} THEN q ELSE 0)
    BY <1>5, <1>6, <1>8, <1>9 DEF AuditInv, LedgerTyped, Filled, Entry
  <2> HIDE DEF D, f, h
  <2>2. /\ g[k1] = f[k1] + q /\ \A k \in D \ {k1} : g[k] = f[k]
        /\ \A k \in D : g[k] \in Int
    BY <1>3, <2>1
  <2> HIDE DEF g
  <2>3. h[k2] = g[k2] + q /\ h[k2] \in Int /\ \A k \in D \ {k2} : h[k] = g[k]
    BY <1>3, <1>5, <2>1, <2>2
  <2>4. SumOver(g, D) = SumOver(f, D) + (g[k1] - f[k1])
    BY <2>1, <2>2, SumChange
  <2>5. SumOver(h, D) = SumOver(g, D) + (h[k2] - g[k2])
    BY <2>1, <2>2, <2>3, SumChange
  <2>6. SumOver(f, D) \in Int /\ f[k1] \in Int /\ g[k2] \in Int
    BY <2>1, <2>2, SumType
  <2>7. SumOver(h, D) = SumOver(f, D) + q + q
    BY <1>3, <2>2, <2>3, <2>4, <2>5, <2>6
  <2> QED BY <1>8, <2>6, <2>7, Zenon DEF D, f, h
<1>16. SumOver(Filled', DOMAIN ledger') = 2 * stats'.total_volume
  <2>1. SumOver(Filled, DOMAIN ledger) = 2 * stats.total_volume
    BY DEF AuditInv
  <2> QED BY <1>2, <1>3, <1>15, <2>1
<1>17. AuditInv'
  BY <1>1, <1>10, <1>13, <1>14, <1>16 DEF AuditInv
<1>18. \A key \in DOMAIN ledger : ledger[key].cancelled => ledger'[key] = ledger[key]
  BY <1>5, <1>8
<1> QED
  BY <1>17, <1>18

\* A cancel marks the entry of an order that leaves its book, or does nothing.
LEMMA CancelledAudit ==
  ASSUME EngineInv, AuditInv, NEW symbol \in Symbols, NEW id, Cancelled(symbol, id)
  PROVE  /\ AuditInv'
         /\ \A key \in DOMAIN ledger : ledger[key].cancelled => ledger'[key] = ledger[key]
<1>0. CancelOrder(symbol, id) /\ stats \in EngineStats
  BY DEF Cancelled, EngineInv, TypeOK
<1>1. CASE ~(symbol \in DOMAIN books /\ id \in LiveIds(books[symbol]))
  <2>1. op' = op /\ books' = books /\ stats' = stats
    BY <1>0, <1>1, CancelEffect
  <2>2. ledger' = ledger
    BY <1>0, <2>1 DEF Cancelled, EngineStats
  <2>3. LedgerTyped' /\ LedgerMatchesBooks'
    BY <2>1, <2>2, Zenon DEF AuditInv, LedgerTyped, LedgerMatchesBooks, LiveEntry, GoneEntry,
                             Unreported
  <2>4. Filled' = Filled
    BY <2>2 DEF Filled
  <2>5. op' # NoOp => \A i \in 1..Len(op'.trades) : TradeInLedger(op.symbol, op.trades[i])'
    BY <2>1, <2>2, Zenon DEF AuditInv, TradeInLedger
  <2> QED BY <2>1, <2>2, <2>3, <2>4, <2>5, Zenon DEF AuditInv
<1>2. CASE symbol \in DOMAIN books /\ id \in LiveIds(books[symbol])
  <2> DEFINE b == books[symbol]
             c == books'[symbol]
             key == << symbol, id >>
  <2>1. /\ op = NoOp /\ op' = op
        /\ BookInv(b) /\ stats' = [stats EXCEPT !.total_cancels = @ + 1] /\ OnlyBook(symbol)
        /\ c.next_order_id = b.next_order_id /\ LiveIds(c) = LiveIds(b) \ {id}
        /\ \A i \in LiveIds(c) : OrderOf(c, i) = OrderOf(b, i)
    BY <1>0, <1>2, CancelEffect
  <2>2. ledger' = [ledger EXCEPT ![key].cancelled = TRUE]
    <3>1. stats'.total_cancels > stats.total_cancels
      BY <1>0, <2>1 DEF EngineStats
    <3> QED BY <3>1 DEF Cancelled
  <2>3. LiveEntry(symbol, id)
    BY <1>2 DEF AuditInv, LedgerMatchesBooks
  <2>4. key \in DOMAIN ledger /\ ~ledger[key].cancelled
    BY <2>3 DEF LiveEntry
  <2>5. \A k \in DOMAIN ledger : ledger[k] \in Entry
    BY DEF AuditInv, LedgerTyped
  <2> HIDE DEF key
  <2>6. /\ DOMAIN ledger' = DOMAIN ledger
        /\ \A k \in DOMAIN ledger : k # key => ledger'[k] = ledger[k]
        /\ ledger'[key] = [ledger[key] EXCEPT !.cancelled = TRUE]
    BY <2>2, <2>4
  <2>7. /\ ledger'[key] \in Entry /\ ledger'[key].cancelled
        /\ ledger'[key].type = ledger[key].type /\ ledger'[key].quantity = ledger[key].quantity
        /\ ledger'[key].filled = ledger[key].filled
    BY Zenon, <2>4, <2>5, <2>6 DEF Entry
  <2>8. LedgerTyped'
    <3>1. \A k \in DOMAIN ledger : ledger'[k] \in Entry
      BY <2>5, <2>6, <2>7
    <3>2. /\ DOMAIN books' = DOMAIN books
          /\ \A s \in DOMAIN books : books'[s].next_order_id = books[s].next_order_id
      BY <2>1 DEF OnlyBook
    <3>3. ASSUME NEW k \in DOMAIN ledger
          PROVE  \E s \in DOMAIN books' : \E i \in 1..(books'[s].next_order_id - 1) : k = << s, i >>
      BY <3>2, Zenon DEF AuditInv, LedgerTyped
    <3>4. IsFiniteSet(DOMAIN ledger)
      BY DEF AuditInv, LedgerTyped
    <3> QED BY <2>6, <3>1, <3>3, <3>4, Zenon DEF LedgerTyped
  <2>9. \A s, i : Unreported(s, i) = 0 /\ Unreported(s, i)' = 0
    BY <2>1 DEF Unreported
  <2>10. ASSUME NEW s \in DOMAIN books', NEW i
         PROVE  EntryOK(s, i)'
    <3>1. s \in DOMAIN books /\ EntryOK(s, i)
      BY <2>1, EntriesOK DEF AuditInv, OnlyBook
    <3>2. CASE << s, i >> = key
      <4>1. s = symbol /\ i = id
        BY <3>2 DEF key
      <4>2. i \notin LiveIds(c)
        BY <2>1, <4>1
      <4>3. ledger'[key].filled + 0 =< ledger'[key].quantity
        <5>1. OrderOf(b, id) \in Order
          BY <1>2, <2>1, LiveOrder
        <5> DEFINE o == OrderOf(b, id)
        <5>2. o.quantity \in Nat /\ o.remaining_qty \in Nat
          BY <5>1 DEF Order
        <5>3. ledger[key].quantity = o.quantity /\ ledger[key].filled + 0 = o.quantity - o.remaining_qty
          BY <2>3, <2>9 DEF LiveEntry, key
        <5> QED BY <2>7, <5>2, <5>3
      <4> QED BY <2>7, <2>9, <3>2, <4>1, <4>2, <4>3 DEF EntryOK, GoneEntry
    <3>3. CASE << s, i >> # key
      <4>1. << s, i >> \in DOMAIN ledger => ledger'[<< s, i >>] = ledger[<< s, i >>]
        BY <2>6, <3>3
      <4>2. s = symbol => i # id
        BY <3>3 DEF key
      <4>3. /\ i \in LiveIds(books'[s]) <=> i \in LiveIds(books[s])
            /\ i \in LiveIds(books[s]) => OrderOf(books'[s], i) = OrderOf(books[s], i)
        BY <2>1, <3>1, <4>2 DEF OnlyBook
      <4> QED BY <2>6, <2>9, <3>1, <4>1, <4>3 DEF EntryOK, LiveEntry, GoneEntry
    <3> QED BY <3>2, <3>3
  <2>11. LedgerMatchesBooks'
    BY <2>8, <2>10, EntriesSuffice
  <2>12. Filled' = Filled
    BY Zenon, <2>6, <2>7 DEF Filled
  <2>13. stats'.total_volume = stats.total_volume
    BY <1>0, <2>1 DEF EngineStats
  <2>14. AuditInv'
    BY <2>1, <2>6, <2>8, <2>11, <2>12, <2>13, Zenon DEF AuditInv
  <2>15. \A k \in DOMAIN ledger : ledger[k].cancelled => ledger'[k] = ledger[k]
    BY <2>4, <2>6
  <2> QED BY <2>14, <2>15
<1> QED
  BY <1>1, <1>2

-----------------------------------------------------------------------------
(***************************************************************************)
(* The theorems.                                                           *)
(***************************************************************************)

\* The observer only watches: with the ledger left out, the audited engine is
\* the engine.
THEOREM AuditedIsEngine == AuditSpec => Spec
<1>1. AuditInit => Init
  BY DEF AuditInit
<1>2. [AuditNext]_auditVars => [Next]_vars
  <2>1. ASSUME NEW symbol \in Symbols, NEW side \in Side, NEW type \in OrderType,
               NEW price \in Prices, NEW quantity \in Quantities,
               Submitted(symbol, side, type, price, quantity)
        PROVE  Next
    BY <2>1 DEF Submitted, Next
  <2>2. Traded => Next
    BY DEF Traded, Next, Proceed
  <2>3. ASSUME NEW symbol \in Symbols, NEW id \in 1..MaxOrders, Cancelled(symbol, id)
        PROVE  Next
    BY <2>3 DEF Cancelled, Next
  <2>4. UNCHANGED auditVars => UNCHANGED vars
    BY DEF auditVars
  <2> QED BY <2>1, <2>2, <2>3, <2>4, Zenon DEF AuditNext, Next, Proceed
<1> QED
  BY <1>1, <1>2, PTL DEF AuditSpec, Spec

\* What a step of the audited engine does to the ledger: it stays in agreement
\* with the books, and a cancelled order's entry stays as it is.
LEMMA AuditStep ==
  ASSUME EngineInv, AuditInv, [AuditNext]_auditVars
  PROVE  /\ AuditInv'
         /\ \A key \in DOMAIN ledger : ledger[key].cancelled => ledger'[key] = ledger[key]
<1> DEFINE Final == \A key \in DOMAIN ledger : ledger[key].cancelled => ledger'[key] = ledger[key]
<1>0. stats \in EngineStats
  BY DEF EngineInv, TypeOK
<1>1. ASSUME NEW symbol \in Symbols, NEW side \in Side, NEW type \in OrderType,
             NEW price \in Prices, NEW quantity \in Quantities,
             Submitted(symbol, side, type, price, quantity)
      PROVE  AuditInv' /\ Final
  BY <1>1, SubmittedAudit
<1>2. CASE Traded
  BY <1>2, TradedAudit
<1>3. ASSUME NEW symbol \in Symbols, NEW id \in 1..MaxOrders, Cancelled(symbol, id)
      PROVE  AuditInv' /\ Final
  BY <1>3, CancelledAudit
<1>4. ASSUME NEW symbol \in Symbols, NEW type \in OrderType, NEW price \in Prices,
             NEW quantity \in Quantities, RejectOrder(symbol, type, price, quantity),
             ledger' = ledger
      PROVE  AuditInv' /\ Final
  <2>1. op = NoOp /\ op' = op /\ books' = get_order_book(symbol)
    BY <1>4 DEF RejectOrder
  <2>2. stats'.total_volume = stats.total_volume
    BY <1>0, <1>4 DEF RejectOrder, EngineStats
  <2> QED BY <1>4, <2>1, <2>2, OpenAudit
<1>5. ASSUME NEW symbol \in Symbols, GetOrderBook(symbol), ledger' = ledger
      PROVE  AuditInv' /\ Final
  BY <1>5, OpenAudit DEF GetOrderBook
<1>6. CASE MatchStep /\ ledger' = ledger
  BY <1>6, MatchAudit
<1>7. CASE MatchDone /\ ledger' = ledger
  BY <1>7, DoneAudit
<1>8. CASE Finish /\ ledger' = ledger
  BY <1>8, FinishAudit
<1>9. CASE UNCHANGED auditVars
  <2>1. books' = books /\ stats' = stats /\ op' = op /\ ledger' = ledger
    BY <1>9 DEF auditVars, vars
  <2>2. LedgerTyped' /\ LedgerMatchesBooks'
    BY <2>1, Zenon DEF AuditInv, LedgerTyped, LedgerMatchesBooks, LiveEntry, GoneEntry,
                       Unreported
  <2>3. Filled' = Filled
    BY <2>1 DEF Filled
  <2>4. op' # NoOp => \A i \in 1..Len(op'.trades) : TradeInLedger(op.symbol, op.trades[i])'
    BY <2>1, Zenon DEF AuditInv, TradeInLedger
  <2> QED BY <2>1, <2>2, <2>3, <2>4, Zenon DEF AuditInv
<1> QED
  BY <1>1, <1>2, <1>3, <1>4, <1>5, <1>6, <1>7, <1>8, <1>9, Zenon DEF AuditNext

\* The ledger and the books agree at every step, the trades that are still to
\* be reported counted in.
THEOREM LedgerAlwaysAgrees == AuditSpec => []AuditInv
<1>1. AuditInit => AuditInv
  <2> SUFFICES ASSUME AuditInit PROVE AuditInv
    OBVIOUS
  <2>1. DOMAIN books = {} /\ DOMAIN ledger = {} /\ op = NoOp /\ stats.total_volume = 0
    BY DEF AuditInit, Init
  <2>2. IsFiniteSet({}) /\ SumOver(Filled, {}) = 0
    BY FS_EmptySet, SumUnfolds
  <2> QED BY <2>1, <2>2 DEF AuditInv, LedgerTyped, LedgerMatchesBooks
<1>2. EngineInv /\ AuditInv /\ [AuditNext]_auditVars => AuditInv'
  BY AuditStep
<1> QED
  BY <1>1, <1>2, AuditedIsEngine, EngineAlwaysSound, PTL DEF AuditSpec

\* Shares are conserved: between calls the trades reported for an order are
\* what its remaining_qty lacks of its quantity, a limit order that left the
\* book without a cancel was filled, and total_volume counts every share once.
THEOREM SharesAlwaysConserved == AuditSpec => []SharesConserved
<1>1. EngineInv /\ AuditInv => SharesConserved
  <2> SUFFICES ASSUME EngineInv, AuditInv, op = NoOp
               PROVE  /\ \A key \in DOMAIN ledger :
                            LET entry == ledger[key]
                            IN  IF IsLive(key)
                                THEN /\ ~entry.cancelled
                                     /\ entry.filled = filled_qty(OrderOf(books[key[1]], key[2]))
                                     /\ entry.quantity = OrderOf(books[key[1]], key[2]).quantity
                                ELSE /\ entry.filled =< entry.quantity
                                     /\ entry.type = "Limit" /\ ~entry.cancelled
                                           => entry.filled = entry.quantity
                      /\ SumOver(Filled, DOMAIN ledger) = 2 * stats.total_volume
    BY DEF SharesConserved, Filled
  <2>1. SumOver(Filled, DOMAIN ledger) = 2 * stats.total_volume
    BY DEF AuditInv
  <2>2. ASSUME NEW key \in DOMAIN ledger
        PROVE  IF IsLive(key)
               THEN /\ ~ledger[key].cancelled
                    /\ ledger[key].filled = filled_qty(OrderOf(books[key[1]], key[2]))
                    /\ ledger[key].quantity = OrderOf(books[key[1]], key[2]).quantity
               ELSE /\ ledger[key].filled =< ledger[key].quantity
                    /\ ledger[key].type = "Limit" /\ ~ledger[key].cancelled
                          => ledger[key].filled = ledger[key].quantity
    <3>1. PICK s \in DOMAIN books : \E i \in 1..(books[s].next_order_id - 1) : key = << s, i >>
      BY DEF AuditInv, LedgerTyped
    <3>2. PICK i \in 1..(books[s].next_order_id - 1) : key = << s, i >>
      BY <3>1
    <3>3. key[1] = s /\ key[2] = i
      BY <3>2
    <3>4. EntryOK(s, i) /\ Unreported(s, i) = 0 /\ ledger[key] \in Entry
      BY EntriesOK, IdleUnreported DEF AuditInv, LedgerTyped
    <3>5. ledger[key].filled \in Nat
      BY <3>4 DEF Entry
    <3>6. CASE i \in LiveIds(books[s])
      BY <3>2, <3>3, <3>4, <3>5, <3>6 DEF IsLive, EntryOK, LiveEntry, filled_qty
    <3>7. CASE i \notin LiveIds(books[s])
      BY <3>2, <3>3, <3>4, <3>5, <3>7 DEF IsLive, EntryOK, GoneEntry
    <3> QED BY <3>6, <3>7
  <2> QED BY <2>1, <2>2, Zenon
<1> QED
  BY <1>1, LedgerAlwaysAgrees, AuditedIsEngine, EngineAlwaysSound, PTL

\* A cancel is final: once cancel_order has returned true, no further trade is
\* reported for the order.
THEOREM CancelAlwaysFinal == AuditSpec => CancelIsFinal
<1> DEFINE Final == \A key \in DOMAIN ledger : ledger[key].cancelled => ledger'[key] = ledger[key]
<1>1. EngineInv /\ AuditInv /\ [AuditNext]_auditVars => [Final]_auditVars
  BY AuditStep
<1> QED
  BY <1>1, LedgerAlwaysAgrees, AuditedIsEngine, EngineAlwaysSound, PTL DEF AuditSpec, CancelIsFinal
=============================================================================
