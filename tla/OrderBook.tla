----------------------------- MODULE OrderBook ------------------------------
(***************************************************************************)
(* The order book of obr/src/full_order.cpp in the opening auction: orders *)
(* are inserted, none is cancelled, and after each one flushStatus finds   *)
(* the price at which most is dealt, matches the orders in price-time      *)
(* order and reports the levels that are left.                             *)
(*                                                                         *)
(* A side is a function from prices to levels: PriceLevel.  The prices with *)
(* orders, in the order of the map, are Levels; bp, bs, ap and as are       *)
(* sequences of levels, best first.  Prices are positive, so that the       *)
(* sentinel 0 stands for none.                                             *)
(***************************************************************************)
EXTENDS Integers, Sequences, FiniteSets

CONSTANTS
  Prices, Quantities,
  Shown,            \* levels reported for each side (5)
  Unit,             \* units of cto in a unit of price (10000)
  MaxOrders         \* bound: orders inserted

ASSUME OrderBookAssumption ==
  /\ Prices \subseteq Nat \ {0} /\ IsFiniteSet(Prices)
  /\ Quantities \subseteq Nat \ {0}
  /\ Shown \in Nat /\ Unit \in Nat \ {0} /\ MaxOrders \in Nat

VARIABLES
  book,             \* book[s][p]: bidPriceMaps, askPriceMaps
  status            \* what flushStatus returned last

Sides == {"bid", "ask"}
EmptyLevel == [quantity |-> 0, orders |-> <<>>]
NoStatus == [nts |-> 0, cvl |-> 0, cto |-> 0, lpr |-> 0, bid |-> <<>>, ask |-> <<>>]

Lesser(m, n) == IF m < n THEN m ELSE n

(* a comes before b on its side: ConfigurableComparator *)
Before(s, a, b) == IF s = "bid" THEN a > b ELSE a < b

(* the prices of a side; the place of a price among some; the prices in order *)
Priced(bk, s) == {p \in Prices : bk[s][p].orders # <<>>}
Rank(s, P, p) == Cardinality({l \in P : Before(s, l, p)})
Sorted(s, P) == [i \in 1..Cardinality(P) |-> CHOOSE p \in P : Rank(s, P, p) = i - 1]
Levels(bk, s) == Sorted(s, Priced(bk, s))

(* what the first n of some quantities add up to *)
Sums(qs) ==
  LET sum[n \in 0..Len(qs)] == IF n = 0 THEN 0 ELSE sum[n - 1] + qs[n]
  IN sum

(* bidPrefixSum, askPrefixSum *)
PrefixSum(bk, s) ==
  LET ls == Levels(bk, s) IN Sums([n \in 1..Len(ls) |-> bk[s][ls[n]].quantity])

(* the quantity before the level of p, and in it *)
Ahead(bk, s, p) == PrefixSum(bk, s)[Rank(s, Priced(bk, s), p)]
Within(bk, s, p) == bk[s][p].quantity

-----------------------------------------------------------------------------
(* The price.                                                              *)

(* Bug: a price is taken though orders better than it stay unfilled. *)
Possible_Always(bk, p) == TRUE

(* Whether all orders better than p can be filled at p. *)
Possible(bk, p) ==
  LET above == Ahead(bk, "bid", p)
      buy   == above + Within(bk, "bid", p)
      below == Ahead(bk, "ask", p)
      sell  == below + Within(bk, "ask", p)
  IN (buy > sell => above <= sell) /\ (buy < sell => below <= buy)

(* OptimPriceInfo of p *)
PriceInfo(bk, p) ==
  LET above == Ahead(bk, "bid", p)
      below == Ahead(bk, "ask", p)
      deal  == Lesser(above + Within(bk, "bid", p), below + Within(bk, "ask", p))
  IN [price |-> p, deal |-> deal, gap |-> IF above > below THEN above - below ELSE below - above,
      bid |-> above + Within(bk, "bid", p) - deal, ask |-> below + Within(bk, "ask", p) - deal]

(* OptimPriceInfo::operator> *)
Exceeds(i, j) == i.deal > j.deal \/ (i.deal = j.deal /\ i.gap < j.gap)

(* Bug: only prices of buy orders are tried. *)
Candidates_BidsOnly(bk) == Levels(bk, "bid")

(* the prices tried, those of buy orders first *)
Candidates(bk) == Levels(bk, "bid") \o Levels(bk, "ask")

(* where a loop over the candidates of one side ends: at the best order of   *)
(* the other                                                               *)
Meeting(bk, p) == Levels(bk, "ask")[1] <= p /\ p <= Levels(bk, "bid")[1]

Optimal(bk) ==
  LET cs == Candidates(bk)
      best[n \in 0..Len(cs)] ==
        IF n = 0 THEN [price |-> 0, deal |-> -1, gap |-> 0, bid |-> 0, ask |-> 0]
        ELSE LET current == PriceInfo(bk, cs[n])
             IN IF Meeting(bk, cs[n]) /\ Possible(bk, cs[n]) /\ Exceeds(current, best[n - 1])
                THEN current ELSE best[n - 1]
  IN best[Len(cs)]

-----------------------------------------------------------------------------
(* The trades.                                                             *)

(* the orders of a side as OrderIterator walks them *)
Orders(bk, s) ==
  LET ls == Levels(bk, s)
      walk[n \in 0..Len(ls)] ==
        IF n = 0 THEN <<>>
        ELSE walk[n - 1] \o [j \in 1..Len(bk[s][ls[n]].orders) |->
                              [price |-> ls[n], quantity |-> bk[s][ls[n]].orders[j]]]
  IN walk[Len(ls)]

(* v of the first order is traded; an order with nothing left is passed *)
Reduced(os, v) == IF os[1].quantity = v THEN Tail(os) ELSE [os EXCEPT ![1].quantity = @ - v]

(* Bug: orders at the same price are not matched. *)
Finished_AtEqualPrice(buys, sells) ==
  buys = <<>> \/ sells = <<>> \/ buys[1].price <= sells[1].price

(* one side is used up, or the best orders left no longer meet *)
Finished(buys, sells) ==
  buys = <<>> \/ sells = <<>> \/ buys[1].price < sells[1].price

(* The loop over both sides: what is left of each and the trades after n     *)
(* passes.  Each pass uses up an order, or the loop has ended.              *)
Matched(buys, sells) ==
  LET after[n \in 0..(Len(buys) + Len(sells))] ==
        IF n = 0 THEN [bid |-> buys, ask |-> sells, trades |-> 0]
        ELSE LET r == after[n - 1]
                 v == Lesser(r.bid[1].quantity, r.ask[1].quantity)
             IN IF Finished(r.bid, r.ask) THEN r
                ELSE [bid |-> Reduced(r.bid, v), ask |-> Reduced(r.ask, v),
                      trades |-> r.trades + 1]
  IN after[Len(buys) + Len(sells)]

(* The levels from that of the first order left on: whole, but for the one  *)
(* at the price of the deal.                                               *)
Left(bk, s, os, best) ==
  IF os = <<>> THEN <<>>
  ELSE LET all == Levels(bk, s)
           ls  == SubSeq(all, Rank(s, Priced(bk, s), os[1].price) + 1, Len(all))
       IN [i \in 1..Lesser(Shown, Len(ls)) |->
             <<ls[i], IF ls[i] = best.price THEN best[s] ELSE Within(bk, s, ls[i])>>]

Crossed(bk) ==
  /\ Levels(bk, "bid") # <<>> /\ Levels(bk, "ask") # <<>>
  /\ Levels(bk, "bid")[1] >= Levels(bk, "ask")[1]

flushStatus(bk) ==
  IF ~Crossed(bk) THEN NoStatus
  ELSE LET best == Optimal(bk)
           rest == Matched(Orders(bk, "bid"), Orders(bk, "ask"))
       IN [nts |-> rest.trades, cvl |-> best.deal, cto |-> (best.deal * best.price) \div Unit,
           lpr |-> best.price, bid |-> Left(bk, "bid", rest.bid, best),
           ask |-> Left(bk, "ask", rest.ask, best)]

-----------------------------------------------------------------------------
BookInit ==
  /\ book = [s \in Sides |-> [p \in Prices |-> EmptyLevel]]
  /\ status = NoStatus

insertOrder(s, p, q) ==
  /\ Len(Orders(book, "bid")) + Len(Orders(book, "ask")) < MaxOrders
  /\ book' = [book EXCEPT ![s][p] = [quantity |-> @.quantity + q, orders |-> Append(@.orders, q)]]
  /\ status' = flushStatus(book')

BookNext == \E s \in Sides, p \in Prices, q \in Quantities : insertOrder(s, p, q)

BookSpec == BookInit /\ [][BookNext]_<<book, status>>

-----------------------------------------------------------------------------
(* Properties.                                                             *)

(* what could be dealt at p *)
DealAt(p) == Lesser(Ahead(book, "bid", p) + Within(book, "bid", p),
                    Ahead(book, "ask", p) + Within(book, "ask", p))

(* The search over the prices of the book with its test `ok' finds a price   *)
(* whenever the book is crossed, and no price at all, of an order or        *)
(* between two, lets more be dealt: cvl is the largest volume.             *)
MaximalDeal ==
  Crossed(book) => /\ status.lpr \in Prices
                   /\ status.cvl = DealAt(status.lpr)
                   /\ \A p \in Prices : DealAt(p) <= status.cvl

(* what is left of a level when cvl is filled from the best order on *)
Unfilled(s, p) ==
  LET filled == status.cvl - Ahead(book, s, p)
  IN IF filled <= 0 THEN Within(book, s, p)
     ELSE IF filled >= Within(book, s, p) THEN 0 ELSE Within(book, s, p) - filled

(* The report takes the level at the price of the deal as the only one that  *)
(* may be filled in part, and the matching loop knows nothing of that       *)
(* price: the two agree, so the levels shown are the best ones with         *)
(* something left, with what is left, and they no longer cross.            *)
LeftoversShown ==
  Crossed(book) =>
    /\ \A s \in Sides :
         LET ls == Sorted(s, {p \in Priced(book, s) : Unfilled(s, p) > 0})
         IN status[s] = [i \in 1..Lesser(Shown, Len(ls)) |-> <<ls[i], Unfilled(s, ls[i])>>]
    /\ status.bid # <<>> /\ status.ask # <<>> => status.bid[1][1] < status.ask[1][1]

(* the volumes at which an order of the side is filled *)
Filled(os) == Sums([i \in 1..Len(os) |-> os[i].quantity])
Cuts(s) == LET os == Orders(book, s) IN {Filled(os)[i] : i \in 1..Len(os)}

(* The matching loop trades the volume of the deal, no more and no less:     *)
(* every trade ends where an order of either side is filled.               *)
TradesAddUp ==
  Crossed(book) =>
    status.nts = Cardinality({v \in Cuts("bid") \cup Cuts("ask") : v <= status.cvl})
=============================================================================
