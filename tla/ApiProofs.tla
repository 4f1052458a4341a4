----------------------------- MODULE ApiProofs -----------------------------
(***************************************************************************)
(* For every finite set of signals, their prices and times, and every page *)
(* size: the strike, the premium and the option of a trade; what a client  *)
(* sees of the trades page by page, and in the statements of a summary.    *)
(* For every number of samples: the percentile, and what a benchmark's     *)
(* verdict is worth.                                                       *)
(***************************************************************************)
EXTENDS Api, FiniteSetTheorems, SequenceTheorems, WellFoundedInduction, TLAPS

LEMMA Rounding ==
  ASSUME NEW p \in Nat
  PROVE  /\ AtmStrike(p) \in Nat
         /\ AtmStrike(p) % Interval = 0
         /\ 2 * (AtmStrike(p) - p) <= Interval
         /\ 2 * (p - AtmStrike(p)) < Interval
  BY DEF AtmStrike, Interval

\* The premium is the time value and a thousand times the intrinsic value.
LEMMA PremiumIsSum ==
  ASSUME NEW p \in Nat, NEW option \in {"CE", "PE"},
         NEW i, i = IF option = "CE" THEN Positive(p - AtmStrike(p))
                                     ELSE Positive(AtmStrike(p) - p)
  PROVE  /\ Premium(p, AtmStrike(p), option) = 1000 * i + 2 * p
         /\ i \in Int /\ 0 <= i /\ i <= 2500
<1> DEFINE s == AtmStrike(p)
<1>1. s \in Nat /\ 2 * (s - p) <= 5000 /\ 2 * (p - s) < 5000
  BY Rounding DEF Interval
<1>2. i \in Int /\ 0 <= i /\ i <= 2500
  <2> HIDE DEF s
  <2>1. i = IF option = "CE" THEN Positive(p - s) ELSE Positive(s - p)
    BY DEF s
  <2>2. QED
    BY <1>1, <2>1 DEF Positive
<1>3. Premium(p, s, option) = 1000 * i + 2 * p
  BY DEF Premium
<1>4. QED
  BY <1>2, <1>3

LEMMA PremiumBounds ==
  ASSUME NEW p \in Nat, NEW option \in {"CE", "PE"}
  PROVE  /\ Premium(p, AtmStrike(p), option) >= 2 * p
         /\ Premium(p, AtmStrike(p), option) <= 2 * p + 500 * Interval
<1>1. PICK i : /\ Premium(p, AtmStrike(p), option) = 1000 * i + 2 * p
               /\ i \in Int /\ 0 <= i /\ i <= 2500
  BY PremiumIsSum
<1>2. 1000 * i + 2 * p >= 2 * p /\ 1000 * i + 2 * p <= 2 * p + 500 * Interval
  BY <1>1 DEF Interval
<1>3. QED
  BY <1>1, <1>2

LEMMA InTheMoney ==
  ASSUME NEW p \in Nat, NEW side \in {"LONG", "SHORT"}
  PROVE  Premium(p, AtmStrike(p), OptionOf(side)) > 2 * p <=>
           \/ side = "LONG" /\ AtmStrike(p) < p
           \/ side = "SHORT" /\ AtmStrike(p) > p
<1> DEFINE s == AtmStrike(p)
           i == IF OptionOf(side) = "CE" THEN Positive(p - s) ELSE Positive(s - p)
<1>1. s \in Nat
  BY Rounding
<1>2. Premium(p, s, OptionOf(side)) = 1000 * i + 2 * p /\ i \in Int /\ 0 <= i
  BY PremiumIsSum DEF OptionOf
<1>3. i > 0 <=> (side = "LONG" /\ s < p) \/ (side = "SHORT" /\ s > p)
  <2> HIDE DEF s
  <2>1. CASE side = "LONG"
    BY <1>1, <2>1 DEF OptionOf, Positive
  <2>2. CASE side = "SHORT"
    BY <1>1, <2>2 DEF OptionOf, Positive
  <2>3. QED
    BY <2>1, <2>2
<1>4. 1000 * i + 2 * p > 2 * p <=> i > 0
  <2> HIDE DEF i
  <2> QED
    BY <1>2
<1>5. QED
  BY <1>2, <1>3, <1>4

-----------------------------------------------------------------------------
Priced == trades \subseteq {TradeOf(s) : s \in Signals}

LEMMA AlwaysPriced == Spec => []Priced
<1>1. Init => Priced
  BY DEF Init, TradingInit, Priced
<1>2. Priced /\ [Next]_vars => Priced'
  <2> SUFFICES ASSUME Priced, [Next]_vars
               PROVE  Priced'
    OBVIOUS
  <2>1. ASSUME NEW s \in Signals, Store(s)
        PROVE  Priced'
    BY <2>1 DEF Priced, Store
  <2>2. CASE trades' = trades
    BY <2>2 DEF Priced
  <2>3. Read => trades' = trades
    BY DEF Read, BeginListing, Count, Close, Select, BeginSummary, Aggregate, EndSummary
  <2>4. QED
    BY <2>1, <2>2, <2>3 DEF Next, TradingNext, vars
<1>3. QED
  BY <1>1, <1>2, PTL DEF Spec

LEMMA EveryTrade ==
  ASSUME Priced, NEW t \in trades
  PROVE  /\ t.signal \in Signals
         /\ t.signal.price \in Nat /\ t.signal.side \in {"LONG", "SHORT"}
         /\ t.strike = AtmStrike(t.signal.price)
         /\ t.entry = Premium(t.signal.price, t.strike, OptionOf(t.signal.side))
<1>1. PICK s \in Signals : t = TradeOf(s)
  BY DEF Priced
<1>2. s.price \in Nat /\ s.side \in {"LONG", "SHORT"}
  BY TradingAssumption
<1>3. QED
  BY <1>1, <1>2 DEF TradeOf

\* The strike of every trade is the nearest multiple of 50, the higher one at a
\* midpoint, whatever the price of the signal (calculate_atm_strike).
THEOREM StrikesAreNearest == Spec => []StrikeIsNearest
<1>1. Priced => StrikeIsNearest
  BY EveryTrade, Rounding DEF StrikeIsNearest
<1>2. QED
  BY <1>1, AlwaysPriced, PTL

\* The entry price lies between the time value and that plus half an interval,
\* whatever the price and side of the signal (simulate_premium).
THEOREM PremiumsAreBounded == Spec => []PremiumIsNearTimeValue
<1>1. ASSUME Priced, NEW t \in trades
      PROVE  /\ t.entry >= 2 * t.signal.price
             /\ t.entry <= 2 * t.signal.price + 500 * Interval
  BY <1>1, EveryTrade, PremiumBounds DEF OptionOf
<1>2. Priced => PremiumIsNearTimeValue
  BY <1>1 DEF PremiumIsNearTimeValue
<1>3. QED
  BY <1>2, AlwaysPriced, PTL

\* A trade has intrinsic value exactly when its side and the position of its
\* strike say so, whatever the price (handle_signal's choice of CE or PE).
THEOREM SidesDecide == Spec => []OneSideIsInTheMoney
<1>1. ASSUME Priced, NEW t \in trades
      PROVE  t.entry > 2 * t.signal.price <=>
               \/ t.signal.side = "LONG" /\ t.strike < t.signal.price
               \/ t.signal.side = "SHORT" /\ t.strike > t.signal.price
  BY <1>1, EveryTrade, InTheMoney
<1>2. Priced => OneSideIsInTheMoney
  BY <1>1 DEF OneSideIsInTheMoney
<1>3. QED
  BY <1>2, AlwaysPriced, PTL
-----------------------------------------------------------------------------
(* The table and its readers *)

\* There are finitely many trades, before and after a step.
LEMMA FiniteTrades == Priced => IsFiniteSet(trades) /\ Cardinality(trades) \in Nat
<1> SUFFICES ASSUME Priced PROVE IsFiniteSet(trades) /\ Cardinality(trades) \in Nat
  OBVIOUS
<1> DEFINE T == {TradeOf(s) : s \in Signals}
           f == [s \in Signals |-> TradeOf(s)]
<1>1. f \in Surjection(Signals, T)
  BY DEF Surjection
<1> HIDE DEF T, f
<1>2. IsFiniteSet(T)
  BY <1>1, TradingAssumption, FS_Surjection
<1>3. trades \subseteq T
  BY DEF Priced, T
<1>4. QED
  BY <1>2, <1>3, FS_Subset, FS_CardinalityType

\* What a step does to the table: nothing, or one trade more.
\* Sets of trades are counted as usual.
LEMMA PartsOfTrades ==
  ASSUME Priced, NEW S \in SUBSET trades
  PROVE  /\ IsFiniteSet(S) /\ Cardinality(S) \in Nat /\ Cardinality(S) <= Cardinality(trades)
         /\ Cardinality(trades \ S) = Cardinality(trades) - Cardinality(S)
         /\ Cardinality(S) = Cardinality(trades) => S = trades
<1>1. IsFiniteSet(trades) /\ Cardinality(trades) \in Nat
  BY FiniteTrades
<1>2. /\ IsFiniteSet(S) /\ Cardinality(S) <= Cardinality(trades)
      /\ Cardinality(S) = Cardinality(trades) => S = trades
  BY <1>1, FS_Subset
<1>3. Cardinality(S) \in Nat
  BY <1>2, FS_CardinalityType
<1>4. trades \cap S = S
  OBVIOUS
<1>5. QED
  BY <1>1, <1>2, <1>3, <1>4, FS_Difference

-----------------------------------------------------------------------------
(* The summary *)

HowMany(i) == Cardinality(Matching(Statements[i]))

\* The result of a statement, or what it would be now
Expected(i) == IF i <= Len(summary) THEN summary[i] ELSE HowMany(i)

\* The results so far fit together with those to come.
Consistent ==
  /\ summary \in Seq(Nat) /\ Len(summary) <= 5
  /\ reading = "summary" =>
       /\ \A i \in 1 .. 5 : Expected(i) <= HowMany(i)
       /\ Expected(1) <= Expected(2) + Expected(3)
       /\ Expected(2) <= Expected(4)
       /\ Expected(3) <= Expected(5)

\* Sides, and options, split the trades in the same two parts.
LEMMA Parts ==
  Priced =>
    /\ \A i \in 1 .. 5 : HowMany(i) \in Nat
    /\ HowMany(1) = Cardinality(trades)
    /\ HowMany(1) = HowMany(2) + HowMany(3)
    /\ HowMany(4) = HowMany(2) /\ HowMany(5) = HowMany(3)
<1> SUFFICES ASSUME Priced
             PROVE  /\ \A i \in 1 .. 5 : HowMany(i) \in Nat
                    /\ HowMany(1) = Cardinality(trades)
                    /\ HowMany(1) = HowMany(2) + HowMany(3)
                    /\ HowMany(4) = HowMany(2) /\ HowMany(5) = HowMany(3)
  OBVIOUS
<1> DEFINE long == {t \in trades : t.signal.side = "LONG"}
           short == {t \in trades : t.signal.side = "SHORT"}
<1>1. \A t \in trades : \/ t.signal.side = "LONG" /\ t.option = "CE"
                        \/ t.signal.side = "SHORT" /\ t.option = "PE"
  <2>1. ASSUME NEW t \in trades PROVE t.signal.side \in {"LONG", "SHORT"} /\ t.option = OptionOf(t.signal.side)
    <3>1. PICK s \in Signals : t = TradeOf(s)
      BY DEF Priced
    <3>2. QED
      BY <3>1, TradingAssumption DEF TradeOf
  <2>2. QED
    BY <2>1 DEF OptionOf
<1>2. /\ Matching("total") = trades
      /\ Matching("LONG") = long /\ Matching("CE") = long
      /\ Matching("SHORT") = short /\ Matching("PE") = short
  BY <1>1 DEF Matching
<1>3. /\ HowMany(1) = Cardinality(trades)
      /\ HowMany(2) = Cardinality(long) /\ HowMany(4) = Cardinality(long)
      /\ HowMany(3) = Cardinality(short) /\ HowMany(5) = Cardinality(short)
  BY <1>2 DEF HowMany, Statements
<1>4. long \subseteq trades /\ short = trades \ long
  BY <1>1
<1>5. QED
  BY <1>3, <1>4, PartsOfTrades, FiniteTrades

LEMMA StoreConsistent ==
  ASSUME Priced, Priced', Consistent, NEW s \in Signals, Store(s)
  PROVE  Consistent'
<1>1. UNCHANGED <<reading, summary>> /\ trades' = trades \cup {TradeOf(s)}
  BY DEF Store, reader
<1>2. \A i \in 1 .. 5 : HowMany(i) <= HowMany(i)'
  <2>1. ASSUME NEW i \in 1 .. 5 PROVE HowMany(i) <= HowMany(i)'
    <3>1. Matching(Statements[i]) \in SUBSET (Matching(Statements[i])')
      BY <1>1 DEF Matching
    <3>2. IsFiniteSet(Matching(Statements[i])')
      <4>1. (Priced => IsFiniteSet(trades))'
        BY FiniteTrades, PTL
      <4>2. Matching(Statements[i])' \in SUBSET trades'
        BY DEF Matching
      <4>3. QED
        BY <4>1, <4>2, FS_Subset
    <3>3. QED
      BY <3>1, <3>2, FS_Subset DEF HowMany
  <2>2. QED
    BY <2>1
<1>3. /\ \A i \in 1 .. 5 : HowMany(i) \in Nat /\ HowMany(i)' \in Nat
      /\ HowMany(1)' = HowMany(2)' + HowMany(3)'
      /\ HowMany(4)' = HowMany(2)' /\ HowMany(5)' = HowMany(3)'
  <2>1. (Priced => /\ \A i \in 1 .. 5 : HowMany(i) \in Nat
                   /\ HowMany(1) = Cardinality(trades)
                   /\ HowMany(1) = HowMany(2) + HowMany(3)
                   /\ HowMany(4) = HowMany(2) /\ HowMany(5) = HowMany(3))'
    BY Parts, PTL
  <2>2. QED
    BY <2>1, Parts
<1>4. /\ Len(summary) \in Nat
      /\ \A i \in 1 .. Len(summary) : summary[i] \in Nat
  BY LenProperties, ElementOfSeq DEF Consistent
<1>5. \A i \in 1 .. 5 : /\ i <= Len(summary) => Expected(i)' = Expected(i)
                        /\ i > Len(summary) => /\ Expected(i) = HowMany(i)
                                               /\ Expected(i)' = HowMany(i)'
                        /\ Expected(i) \in Nat /\ Expected(i)' \in Nat
  <2> SUFFICES ASSUME NEW i \in 1 .. 5
               PROVE  /\ i <= Len(summary) => Expected(i)' = Expected(i)
                      /\ i > Len(summary) => /\ Expected(i) = HowMany(i)
                                             /\ Expected(i)' = HowMany(i)'
                      /\ Expected(i) \in Nat /\ Expected(i)' \in Nat
    OBVIOUS
  <2>1. CASE i <= Len(summary)
    <3>1. Expected(i) = summary[i] /\ Expected(i)' = summary[i]
      BY <1>1, <2>1 DEF Expected
    <3>2. summary[i] \in Nat /\ ~(i > Len(summary))
      BY <1>4, <2>1
    <3>3. QED
      BY <3>1, <3>2
  <2>2. CASE ~(i <= Len(summary))
    <3>1. Expected(i) = HowMany(i) /\ Expected(i)' = HowMany(i)'
      BY <1>1, <2>2 DEF Expected
    <3>2. HowMany(i) \in Nat /\ HowMany(i)' \in Nat
      BY <1>3
    <3>3. QED
      BY <2>2, <3>1, <3>2
  <2>3. QED
    BY <2>1, <2>2
<1>6. CASE reading = "summary"
  <2>1. PICK n \in 0 .. 5 : n = Len(summary)
    <3>1. Len(summary) \in Nat /\ Len(summary) <= 5
      BY <1>4 DEF Consistent
    <3>2. \A m \in Nat : m <= 5 => m \in 0 .. 5
      OBVIOUS
    <3>3. QED
      BY <3>1, <3>2, Zenon
  <2>2. PICK e \in [1 .. 5 -> Nat], f \in [1 .. 5 -> Nat], h \in [1 .. 5 -> Nat], g \in [1 .. 5 -> Nat] :
          \A i \in 1 .. 5 : /\ e[i] = Expected(i) /\ f[i] = Expected(i)'
                            /\ h[i] = HowMany(i) /\ g[i] = HowMany(i)'
    <3>1. /\ [i \in 1 .. 5 |-> Expected(i)] \in [1 .. 5 -> Nat]
          /\ [i \in 1 .. 5 |-> Expected(i)'] \in [1 .. 5 -> Nat]
          /\ [i \in 1 .. 5 |-> HowMany(i)] \in [1 .. 5 -> Nat]
          /\ [i \in 1 .. 5 |-> HowMany(i)'] \in [1 .. 5 -> Nat]
      BY <1>3, <1>5
    <3>2. QED
      BY <3>1
  <2>3. /\ \A i \in 1 .. 5 : e[i] <= h[i] /\ h[i] <= g[i]
        /\ e[1] <= e[2] + e[3] /\ e[2] <= e[4] /\ e[3] <= e[5]
    BY <1>2, <1>6, <2>2 DEF Consistent
  <2>4. g[1] = g[2] + g[3] /\ g[4] = g[2] /\ g[5] = g[3]
    BY <1>3, <2>2
  <2>5. \A i \in 1 .. 5 : \/ i <= n /\ f[i] = e[i]
                          \/ i > n /\ e[i] = h[i] /\ f[i] = g[i]
    <3>1. ASSUME NEW i \in 1 .. 5, i <= n PROVE f[i] = e[i]
      BY <1>5, <2>1, <2>2, <3>1
    <3>2. ASSUME NEW i \in 1 .. 5, i > n PROVE e[i] = h[i] /\ f[i] = g[i]
      BY <1>5, <2>1, <2>2, <3>2
    <3>3. QED
      BY <3>1, <3>2
  <2>6. \A i \in 1 .. 5 : f[i] <= g[i] /\ e[i] <= f[i]
    BY <2>3, <2>5
  <2>7. f[1] <= f[2] + f[3] /\ f[2] <= f[4] /\ f[3] <= f[5]
    <3>1. f[1] <= f[2] + f[3]
      BY <2>3, <2>4, <2>5, <2>6
    <3>2. f[2] <= f[4]
      BY <2>3, <2>4, <2>5, <2>6
    <3>3. f[3] <= f[5]
      BY <2>3, <2>4, <2>5, <2>6
    <3>4. QED
      BY <3>1, <3>2, <3>3
  <2>8. QED
    BY <1>1, <2>2, <2>6, <2>7 DEF Consistent
<1>7. CASE reading # "summary"
  BY <1>1, <1>7 DEF Consistent
<1> QED
  BY <1>6, <1>7

LEMMA NextConsistent ==
  ASSUME Priced, Priced', Consistent, [Next]_vars
  PROVE  Consistent'
<1>1. CASE UNCHANGED <<trades, summary>> /\ (reading' = "summary" => reading = "summary")
  BY <1>1 DEF Consistent, Expected, HowMany, Matching
<1>2. CASE BeginSummary
  <2>1. UNCHANGED trades /\ summary' = <<>>
    BY <1>2 DEF BeginSummary
  <2>2. \A i \in 1 .. 5 : Expected(i)' = HowMany(i) /\ HowMany(i)' = HowMany(i)
    BY <2>1 DEF Expected, HowMany, Matching
  <2>3. summary' \in Seq(Nat) /\ Len(summary') = 0
    BY <2>1
  <2>4. QED
    BY <2>2, <2>3, Parts DEF Consistent
<1>3. CASE Aggregate
  <2>1. /\ reading = "summary" /\ UNCHANGED <<trades, reading>> /\ Len(summary) < 5
        /\ summary' = Append(summary, HowMany(Len(summary) + 1))
    BY <1>3 DEF Aggregate, HowMany, Statements
  <2>2. Len(summary) \in Nat /\ HowMany(Len(summary) + 1) \in Nat /\ summary \in Seq(Nat)
    BY <2>1, Parts, LenProperties DEF Consistent
  <2>3. /\ summary' \in Seq(Nat) /\ Len(summary') = Len(summary) + 1
        /\ \A i \in 1 .. Len(summary) : summary'[i] = summary[i]
        /\ summary'[Len(summary) + 1] = HowMany(Len(summary) + 1)
    BY <2>1, <2>2, AppendProperties
  <2>4. \A i \in 1 .. 5 : HowMany(i)' = HowMany(i)
    BY <2>1 DEF HowMany, Matching
  <2>5. \A i \in 1 .. 5 : Expected(i)' = Expected(i)
    BY <2>2, <2>3, <2>4 DEF Expected
  <2>6. QED
    BY <2>1, <2>2, <2>3, <2>4, <2>5 DEF Consistent
<1>4. CASE EndSummary
  BY <1>4 DEF EndSummary, Consistent
<1>5. CASE BeginListing \/ Count \/ Close \/ (\E P \in Pages : Select(P))
  BY <1>1, <1>5 DEF BeginListing, Count, Close, Select
<1>6. CASE UNCHANGED <<trades, reader>>
  BY <1>1, <1>6 DEF reader
<1> QED
  BY <1>2, <1>3, <1>4, <1>5, <1>6, StoreConsistent DEF Next, TradingNext, Read, vars

LEMMA AlwaysConsistent == Spec => []Consistent
<1>1. Init => Consistent
  BY DEF Init, TradingInit, Consistent
<1>2. Priced /\ Priced' /\ Consistent /\ [Next]_vars => Consistent'
  BY NextConsistent
<1>3. QED
  BY <1>1, <1>2, AlwaysPriced, PTL DEF Spec

\* What a summary says of the parts covers what it says of the whole, whatever is
\* committed between its statements (tool_get_pnl_summary).
THEOREM SummariesAddUp == Spec => []SummaryAddsUp
<1>1. ASSUME Priced, Consistent PROVE SummaryAddsUp
  <2> SUFFICES ASSUME reading = "summary", Len(summary) = 5
               PROVE  /\ Result("total") <= Result("LONG") + Result("SHORT")
                      /\ Result("LONG") <= Result("CE") /\ Result("SHORT") <= Result("PE")
                      /\ Result("CE") + Result("PE") <= Cardinality(trades)
    BY DEF SummaryAddsUp, Statements
  <2>1. /\ Result("total") = summary[1] /\ Result("LONG") = summary[2]
        /\ Result("SHORT") = summary[3] /\ Result("CE") = summary[4]
        /\ Result("PE") = summary[5]
    BY DEF Result, Statements
  <2>2. \A i \in 1 .. 5 : summary[i] \in Nat /\ Expected(i) = summary[i]
    <3>1. \A i \in 1 .. 5 : summary[i] \in Nat
      BY <1>1, ElementOfSeq DEF Consistent
    <3>2. QED
      BY <3>1 DEF Expected
  <2>3. /\ summary[1] <= summary[2] + summary[3]
        /\ summary[2] <= summary[4] /\ summary[3] <= summary[5]
        /\ summary[4] <= HowMany(4) /\ summary[5] <= HowMany(5)
    BY <1>1, <2>2 DEF Consistent
  <2>4. HowMany(4) + HowMany(5) = Cardinality(trades) /\ HowMany(4) \in Nat /\ HowMany(5) \in Nat
    BY <1>1, Parts
  <2>5. summary[4] + summary[5] <= Cardinality(trades)
    BY <2>2, <2>3, <2>4
  <2>6. QED
    BY <2>1, <2>3, <2>5
<1>2. Priced /\ Consistent => SummaryAddsUp
  BY <1>1
<1>3. QED
  BY <1>2, AlwaysPriced, AlwaysConsistent, PTL

-----------------------------------------------------------------------------
(* The listing *)

\* Of two beginnings of the same order without ties, one begins the other.
LEMMA NewestInclude ==
  ASSUME Priced, NoTies, NEW S \in SUBSET trades, NEW T \in SUBSET trades,
         Newest(S, trades), Newest(T, trades), Cardinality(S) <= Cardinality(T)
  PROVE  S \subseteq T
<1> SUFFICES ASSUME NEW t \in S, t \notin T PROVE FALSE
  OBVIOUS
<1>1. \A u \in trades : At(u) \in Nat
  BY EveryTrade, TradingAssumption DEF At
<1>2. ASSUME NEW u \in T, u \notin S PROVE FALSE
  <2>1. At(t) >= At(u) /\ At(u) >= At(t)
    BY <1>2 DEF Newest
  <2>2. At(t) = At(u)
    BY <1>1, <2>1
  <2>3. QED
    BY <1>2, <2>2 DEF NoTies
<1>3. T \in SUBSET S /\ T # S
  BY <1>2
<1>4. Cardinality(T) <= Cardinality(S) /\ Cardinality(S) # Cardinality(T)
  <2>1. IsFiniteSet(S)
    BY PartsOfTrades
  <2>2. QED
    BY <1>3, <2>1, FS_Subset
<1>5. Cardinality(S) \in Nat /\ Cardinality(T) \in Nat
  BY PartsOfTrades
<1>6. QED
  BY <1>4, <1>5

LEMMA Pagewise ==
  ASSUME NEW p \in Nat \ {0}
  PROVE  /\ PageSize \in Nat /\ PageSize > 0 /\ (p - 1) * PageSize \in Nat
         /\ p * PageSize = (p - 1) * PageSize + PageSize
  BY TradingAssumption

\* A page continues the trades before it, which the client has been through.
LEMMA PageFollows ==
  ASSUME Priced, page \in Nat \ {0}, rows = Offset, rows <= Cardinality(trades), NEW P \in Pages
  PROVE  \E before \in SUBSET (trades \ P) :
           /\ P \in SUBSET trades
           /\ Cardinality(before) = rows
           /\ Cardinality(before \cup P) = rows + Cardinality(P)
           /\ Cardinality(P) <= PageSize
           /\ Cardinality(P) < PageSize => before \cup P = trades
           /\ Newest(before, trades) /\ Newest(before \cup P, trades)
<1>1. PICK before \in SUBSET (trades \ P) :
        /\ P \in SUBSET trades
        /\ Cardinality(before) = Smaller(Offset, Cardinality(trades))
        /\ Cardinality(P) = Smaller(PageSize, Cardinality(trades \ before))
        /\ Newest(before, trades) /\ Newest(before \cup P, trades)
  BY DEF Pages
<1>2. rows \in Nat /\ Cardinality(trades) \in Nat /\ PageSize \in Nat
  BY Pagewise, FiniteTrades DEF Offset
<1>3. Cardinality(before) = rows
  BY <1>1, <1>2 DEF Smaller
<1>4. Cardinality(before \cup P) = rows + Cardinality(P)
  <2>1. IsFiniteSet(before) /\ IsFiniteSet(P) /\ before \cap P = {}
    BY <1>1, PartsOfTrades
  <2>2. Cardinality(before \cap P) = 0 /\ Cardinality(P) \in Nat
    BY <1>1, <2>1, FS_EmptySet, PartsOfTrades
  <2>3. Cardinality(before \cup P)
          = Cardinality(before) + Cardinality(P) - Cardinality(before \cap P)
    BY <2>1, FS_Union
  <2>4. QED
    BY <1>2, <1>3, <2>2, <2>3
<1>5. /\ Cardinality(trades \ before) \in Nat
      /\ Cardinality(P) <= PageSize
      /\ Cardinality(P) < PageSize => Cardinality(P) = Cardinality(trades \ before)
  <2>1. Cardinality(trades \ before) \in Nat
    BY PartsOfTrades
  <2>2. QED
    BY <1>1, <1>2, <2>1 DEF Smaller
<1>6. Cardinality(P) = Cardinality(trades \ before) => P = trades \ before
  BY <1>1, PartsOfTrades, FS_Subset
<1>7. Cardinality(P) < PageSize => before \cup P = trades
  BY <1>1, <1>5, <1>6
<1>8. QED
  BY <1>1, <1>3, <1>4, <1>5, <1>7

\* As many of the newest as the client has been through: of those it began with,
\* it has seen all.
Collected ==
  \A S \in SUBSET trades :
    Newest(S, trades) /\ Cardinality(S) <= rows => S \cap known \subseteq seen

Listing ==
  /\ page \in Nat \ {0} /\ {total, rows, late} \subseteq Nat
  /\ seen \cup known \subseteq trades
  /\ reading \in {"none", "count", "select", "stopped", "ended", "summary"}
  /\ rows <= Cardinality(trades)
  /\ reading \in {"count", "select"} => rows = Offset
  /\ reading = "select" => total <= Cardinality(trades)
  /\ reading \in {"none", "summary"} => NotListing
  /\ NoTies => Collected
  /\ NothingIsMissed
  /\ RepeatsHaveACause

LEMMA StoreLists ==
  ASSUME Priced, Listing, NEW s \in Signals, Store(s)
  PROVE  Listing'
<1> DEFINE t == TradeOf(s)
<1>1. /\ t \notin trades /\ trades' = trades \cup {t}
      /\ UNCHANGED <<reading, page, total, seen, rows, known, late>>
  BY DEF Store, reader, listing
<1> PICK u : u = t
  OBVIOUS
<1>2. u \notin trades /\ trades' = trades \cup {u}
  BY <1>1
<1> HIDE DEF t
<1>3. /\ Cardinality(trades') = Cardinality(trades) + 1
      /\ Cardinality(trades) \in Nat /\ IsFiniteSet(trades)
  BY <1>2, FiniteTrades, FS_AddElement
<1>4. NoTies' => NoTies
  BY <1>2 DEF NoTies, At
<1>5. u \notin known /\ known \subseteq trades /\ seen \subseteq trades
  BY <1>2 DEF Listing
<1>6. ASSUME NoTies' PROVE Collected'
  <2> SUFFICES ASSUME NEW S \in SUBSET trades', Newest(S, trades)', Cardinality(S) <= rows
               PROVE  S \cap known \subseteq seen
    BY <1>1 DEF Collected
  <2>1. S \ {u} \in SUBSET trades /\ Newest(S \ {u}, trades)
    BY <1>2 DEF Newest, At
  <2>2. Cardinality(S \ {u}) <= rows
    <3>1. IsFiniteSet(S)
      <4>1. IsFiniteSet(trades')
        BY <1>2, <1>3, FS_AddElement
      <4>2. QED
        BY <4>1, FS_Subset
    <3>2. Cardinality(S \ {u}) <= Cardinality(S) /\ IsFiniteSet(S \ {u})
      BY <3>1, FS_Subset
    <3>3. Cardinality(S \ {u}) \in Nat /\ Cardinality(S) \in Nat /\ rows \in Nat
      BY <3>1, <3>2, FS_CardinalityType DEF Listing
    <3>4. QED
      BY <3>2, <3>3
  <2>3. (S \ {u}) \cap known \subseteq seen
    BY <1>4, <1>6, <2>1, <2>2 DEF Listing, Collected
  <2>4. QED
    BY <1>5, <2>3
<1>7. NothingIsMissed'
  BY <1>1, <1>4 DEF Listing, NothingIsMissed
<1>8. RepeatsHaveACause'
  <2>1. trades' \ known = (trades \ known) \cup {u} /\ u \notin trades \ known
    BY <1>2, <1>5
  <2>2. /\ Cardinality(trades' \ known) = Cardinality(trades \ known) + 1
        /\ Cardinality(trades \ known) \in Nat
    BY <2>1, PartsOfTrades, FS_AddElement
  <2>3. Cardinality(seen) \in Nat /\ rows \in Nat
    BY <1>5, PartsOfTrades DEF Listing
  <2>4. QED
    BY <1>1, <1>4, <2>2, <2>3 DEF Listing, RepeatsHaveACause
<1>9. rows' <= Cardinality(trades') /\ (reading' = "select" => total' <= Cardinality(trades'))
  BY <1>1, <1>3 DEF Listing
<1>10. (reading' \in {"count", "select"} => rows' = Offset')
  BY <1>1 DEF Listing, Offset
<1>11. reading' \in {"none", "summary"} => NotListing'
  BY <1>1 DEF Listing, NotListing
<1>12. (seen \cup known \subseteq trades)'
  BY <1>1, <1>2, <1>5
<1>13. QED
  BY <1>1, <1>6, <1>7, <1>8, <1>9, <1>10, <1>11, <1>12 DEF Listing

LEMMA SelectLists ==
  ASSUME Priced, Listing, NEW P \in Pages, Select(P)
  PROVE  Listing'
<1>1. /\ reading = "select" /\ seen' = seen \cup P /\ rows' = rows + Cardinality(P)
      /\ late' = Cardinality(trades) - total
      /\ UNCHANGED <<trades, total, known>>
  BY DEF Select
<1>2. \/ Cardinality(P) < PageSize /\ reading' = "ended" /\ page' = page
      \/ ~(Cardinality(P) < PageSize) /\ reading' = "count" /\ page' = page + 1
      \/ /\ ~(Cardinality(P) < PageSize) /\ reading' = "stopped" /\ page' = page
         /\ page * PageSize >= total
  BY DEF Select
<1>3. /\ page \in Nat \ {0} /\ rows = Offset /\ rows <= Cardinality(trades)
      /\ rows \in Nat /\ total \in Nat /\ total <= Cardinality(trades)
      /\ known \subseteq trades /\ seen \subseteq trades
  BY <1>1 DEF Listing
<1>4. PICK before \in SUBSET (trades \ P) :
           /\ P \in SUBSET trades
           /\ Cardinality(before) = rows
           /\ Cardinality(before \cup P) = rows + Cardinality(P)
           /\ Cardinality(P) <= PageSize
           /\ Cardinality(P) < PageSize => before \cup P = trades
           /\ Newest(before, trades) /\ Newest(before \cup P, trades)
  BY <1>3, PageFollows
<1> PICK T \in SUBSET trades : T = before \cup P
  BY <1>4
<1>5. Cardinality(T) = rows' /\ Cardinality(P) \in Nat /\ Cardinality(trades) \in Nat
      /\ Cardinality(T) <= Cardinality(trades)
  BY <1>1, <1>4, PartsOfTrades, FiniteTrades
<1>6. rows' \in Nat /\ rows' <= Cardinality(trades') /\ late' \in Nat
  BY <1>1, <1>3, <1>5
<1>7. Cardinality(P) = PageSize => rows' = page * PageSize
  BY <1>1, <1>3, Pagewise DEF Offset
<1>8. ASSUME NoTies PROVE T \cap known \subseteq seen'
  <2>1. before \cap known \subseteq seen
    BY <1>3, <1>4, <1>8 DEF Listing, Collected
  <2>2. QED
    BY <1>1, <2>1
<1>9. ASSUME NoTies' PROVE Collected'
  <2> SUFFICES ASSUME NEW S \in SUBSET trades, Newest(S, trades), Cardinality(S) <= rows'
               PROVE  S \cap known \subseteq seen'
    BY <1>1 DEF Collected, Newest, At
  <2>1. NoTies
    BY <1>1, <1>9 DEF NoTies, At
  <2>2. S \subseteq T
    BY <1>4, <1>5, <2>1, NewestInclude
  <2>3. QED
    BY <1>8, <2>1, <2>2
<1>10. NothingIsMissed'
  <2> SUFFICES ASSUME NoTies
               PROVE  /\ reading' = "ended" => known \subseteq seen'
                      /\ reading' = "stopped" => Cardinality(known \ seen') <= late'
    BY <1>1 DEF NothingIsMissed, NoTies, At
  <2>1. ASSUME reading' = "ended" PROVE known \subseteq seen'
    BY <1>2, <1>3, <1>4, <1>8, <2>1
  <2>2. ASSUME reading' = "stopped" PROVE Cardinality(known \ seen') <= late'
    <3>1. rows' >= total
      <4>1. ~(Cardinality(P) < PageSize) /\ page * PageSize >= total
        BY <1>2, <2>2
      <4>2. Cardinality(P) = PageSize
        BY <1>4, <1>5, <4>1, Pagewise
      <4>3. QED
        BY <1>7, <4>1, <4>2
    <3>2. known \ seen' \in SUBSET (trades \ T)
      BY <1>3, <1>8
    <3>3. Cardinality(trades \ T) = Cardinality(trades) - rows'
      BY <1>5, PartsOfTrades
    <3>4. /\ Cardinality(known \ seen') <= Cardinality(trades \ T)
          /\ Cardinality(known \ seen') \in Nat
      <4>1. IsFiniteSet(trades \ T)
        BY PartsOfTrades
      <4>2. QED
        BY <3>2, <4>1, FS_Subset, FS_CardinalityType
    <3>5. QED
      BY <1>1, <1>3, <1>5, <1>6, <3>1, <3>3, <3>4
  <2>3. QED
    BY <2>1, <2>2
<1>11. RepeatsHaveACause'
  <2> SUFFICES ASSUME NoTies
               PROVE  rows' - Cardinality(seen') <= Cardinality(trades \ known)
    BY <1>1 DEF RepeatsHaveACause, NoTies, At
  <2>1. /\ T \cap known \in SUBSET trades /\ T \ known \in SUBSET trades
        /\ seen' \in SUBSET trades /\ trades \ known \in SUBSET trades
    BY <1>1, <1>3, <1>4
  <2>2. /\ Cardinality(T \cap known) <= Cardinality(seen')
        /\ Cardinality(T \ known) <= Cardinality(trades \ known)
    <3>1. IsFiniteSet(seen') /\ IsFiniteSet(trades \ known)
      BY <2>1, PartsOfTrades
    <3>2. T \cap known \in SUBSET seen' /\ T \ known \in SUBSET (trades \ known)
      BY <1>8
    <3>3. QED
      BY <3>1, <3>2, FS_Subset
  <2>3. Cardinality(T \ known) = Cardinality(T) - Cardinality(T \cap known)
    <3>1. IsFiniteSet(T)
      BY PartsOfTrades
    <3>2. QED
      BY <3>1, FS_Difference
  <2>4. /\ Cardinality(seen') \in Nat /\ Cardinality(trades \ known) \in Nat
        /\ Cardinality(T \cap known) \in Nat /\ Cardinality(T \ known) \in Nat
    BY <2>1, PartsOfTrades
  <2>5. QED
    BY <1>5, <1>6, <2>2, <2>3, <2>4
<1>12. reading' \in {"count", "select"} => rows' = Offset'
  <2> SUFFICES ASSUME reading' = "count" PROVE rows' = Offset'
    BY <1>2
  <2>1. page' = page + 1 /\ ~(Cardinality(P) < PageSize)
    BY <1>2
  <2>2. Cardinality(P) = PageSize
    BY <1>4, <1>5, <2>1, Pagewise
  <2>3. page' - 1 = page
    BY <1>3, <2>1
  <2>4. QED
    BY <1>7, <2>2, <2>3 DEF Offset
<1>13. page' \in Nat \ {0} /\ reading' \in {"count", "stopped", "ended"}
  BY <1>2, <1>3
<1>14. (seen \cup known \subseteq trades)' /\ total' \in Nat
  BY <1>1, <1>3, <1>4
<1>15. QED
  BY <1>6, <1>9, <1>10, <1>11, <1>12, <1>13, <1>14 DEF Listing

LEMMA NotListingLists ==
  ASSUME Priced, NotListing, reading \in {"none", "summary"}
  PROVE  Listing
<1>1. /\ page = 1 /\ total = 0 /\ seen = {} /\ rows = 0 /\ known = {} /\ late = 0
  BY DEF NotListing
<1>2. Cardinality(trades) \in Nat
  BY FiniteTrades
<1>3. QED
  BY <1>1, <1>2 DEF Listing, Collected, NothingIsMissed, RepeatsHaveACause, NotListing

LEMMA NextLists == Priced /\ Priced' /\ Listing /\ [Next]_vars => Listing'
<1> SUFFICES ASSUME Priced, Priced', Listing, [Next]_vars PROVE Listing'
  OBVIOUS
<1>1. CASE UNCHANGED <<trades, reading, listing>>
  BY <1>1 DEF listing, Listing, Collected, Newest, At, NotListing, Offset,
              NothingIsMissed, RepeatsHaveACause, NoTies
<1>2. ASSUME NotListing', reading' \in {"none", "summary"} PROVE Listing'
  <2>1. (Priced /\ NotListing /\ reading \in {"none", "summary"} => Listing)'
    BY NotListingLists, PTL
  <2>2. QED
    BY <1>2, <2>1
<1>3. CASE BeginListing
  <2>1. /\ reading' = "count" /\ known' = trades
        /\ UNCHANGED <<trades, page, total, seen, rows, late>>
        /\ page = 1 /\ total = 0 /\ seen = {} /\ rows = 0 /\ late = 0
    BY <1>3 DEF BeginListing, Listing, NotListing
  <2>2. Cardinality(trades) \in Nat /\ Cardinality(trades \ trades) = 0 /\ Cardinality({}) = 0
    BY FiniteTrades, PartsOfTrades, FS_EmptySet
  <2>3. Collected'
    <3> SUFFICES ASSUME NEW S \in SUBSET trades, Cardinality(S) <= 0 PROVE S = {}
      BY <2>1 DEF Collected
    <3>1. IsFiniteSet(S) /\ Cardinality(S) \in Nat
      BY PartsOfTrades
    <3>2. Cardinality(S) = 0
      BY <3>1
    <3>3. QED
      BY <3>1, <3>2, FS_EmptySet
  <2>4. NothingIsMissed' /\ RepeatsHaveACause'
    BY <2>1, <2>2 DEF NothingIsMissed, RepeatsHaveACause
  <2>5. rows' = Offset'
    BY <2>1, TradingAssumption DEF Offset
  <2>6. QED
    BY <2>1, <2>2, <2>3, <2>4, <2>5 DEF Listing
<1>4. CASE Count
  <2>1. /\ reading = "count" /\ reading' = "select" /\ total' = Cardinality(trades)
        /\ UNCHANGED <<trades, page, seen, rows, known, late>>
    BY <1>4 DEF Count
  <2>2. Cardinality(trades) \in Nat
    BY FiniteTrades
  <2>3. (NoTies => Collected)'
    BY <2>1 DEF Listing, Collected, Newest, At, NoTies
  <2>4. NothingIsMissed' /\ RepeatsHaveACause'
    BY <2>1 DEF Listing, NothingIsMissed, RepeatsHaveACause, NoTies, At
  <2>5. QED
    BY <2>1, <2>2, <2>3, <2>4 DEF Listing, Offset
<1>5. CASE Close
  BY <1>2, <1>5 DEF Close, NotListing
<1>6. CASE BeginSummary \/ Aggregate \/ EndSummary
  <2>1. /\ UNCHANGED <<trades, page, total, seen, rows, known, late>>
        /\ reading \in {"none", "summary"} /\ reading' \in {"none", "summary"}
    BY <1>6 DEF BeginSummary, Aggregate, EndSummary, listing
  <2>2. NotListing'
    BY <2>1 DEF Listing, NotListing
  <2>3. QED
    BY <1>2, <2>1, <2>2
<1>7. CASE UNCHANGED <<trades, reader>>
  BY <1>1, <1>7 DEF reader
<1> QED
  BY <1>3, <1>4, <1>5, <1>6, <1>7, StoreLists, SelectLists DEF Next, TradingNext, Read, vars

LEMMA AlwaysLists == Spec => [](Priced /\ Listing)
<1>1. Init => Priced /\ Listing
  <2> SUFFICES ASSUME Init PROVE Priced /\ Listing
    OBVIOUS
  <2>1. Priced
    BY DEF Init, TradingInit, Priced
  <2>2. QED
    BY <2>1, NotListingLists DEF Init, TradingInit
<1>2. QED
  BY <1>1, NextLists, AlwaysPriced, PTL DEF Spec

\* A listing that ends on a page that is not full has missed nothing; one that
\* stops at the total, at most what came between the two statements of its last
\* page (list_trades).
THEOREM ListingsAreComplete == Spec => []NothingIsMissed
<1>1. Listing => NothingIsMissed
  BY DEF Listing
<1>2. QED
  BY <1>1, AlwaysLists, PTL

\* A listing repeats at most as many trades as were committed since it began
\* (list_trades).
THEOREM RepeatsAreBounded == Spec => []RepeatsHaveACause
<1>1. Listing => RepeatsHaveACause
  BY DEF Listing
<1>2. QED
  BY <1>1, AlwaysLists, PTL

-----------------------------------------------------------------------------
(* Ranks and percentiles *)

\* A set of numbers has a least one; a bounded one, if it is not empty, a largest.
LEMMA Smallest ==
  ASSUME NEW T, T \subseteq Nat, T # {}
  PROVE  \E x \in T : \A y \in T : x <= y
<1> DEFINE R == {ss \in Nat \X Nat : ss[1] < ss[2]}
<1>1. IsWellFoundedOn(R, Nat)
  BY NatLessThanWellFounded DEF OpToRel
<1>2. \A x, y \in Nat : y < x => <<y, x>> \in R
  OBVIOUS
<1> HIDE DEF R
<1>3. PICK x \in T : \A y \in T : ~ (<<y, x>> \in R)
  BY <1>1, WFMin
<1>4. ASSUME NEW y \in T PROVE x <= y
  <2>1. x \in Nat /\ y \in Nat
    OBVIOUS
  <2>2. ~ (y < x)
    BY <1>2, <1>3, <2>1
  <2>3. QED
    BY <2>1, <2>2
<1>5. QED
  BY <1>4

LEMMA Largest ==
  ASSUME NEW n \in Nat, NEW S, S \subseteq 0 .. n, S # {}
  PROVE  \E x \in S : \A y \in S : y <= x
<1> DEFINE T == {m \in 0 .. n : n - m \in S}
<1>1. PICK s \in S : TRUE
  OBVIOUS
<1>2. n - s \in T
  <2>1. s \in 0 .. n /\ n - s \in 0 .. n /\ n - (n - s) = s
    OBVIOUS
  <2>2. QED
    BY <2>1
<1>3. PICK m \in T : \A y \in T : m <= y
  <2>1. T \subseteq Nat /\ T # {}
    BY <1>2
  <2> HIDE DEF T
  <2>2. QED
    BY <2>1, Smallest
<1>4. n - m \in S
  OBVIOUS
<1>5. ASSUME NEW y \in S PROVE y <= n - m
  <2>1. y \in 0 .. n /\ n - y \in 0 .. n /\ n - (n - y) = y
    OBVIOUS
  <2>2. m <= n - y /\ m \in 0 .. n
    BY <1>3, <2>1
  <2>3. QED
    BY <2>1, <2>2
<1>6. QED
  BY <1>4, <1>5

Below(s, v)  == {i \in DOMAIN s : s[i] < v}
UpTo(s, v)   == {i \in DOMAIN s : s[i] <= v}
Values(s)    == {s[i] : i \in DOMAIN s}

LEMMA Samples ==
  ASSUME NEW s \in Seq(Nat)
  PROVE  /\ Len(s) \in Nat /\ DOMAIN s = 1 .. Len(s)
         /\ IsFiniteSet(DOMAIN s) /\ Cardinality(DOMAIN s) = Len(s)
         /\ \A i \in DOMAIN s : s[i] \in Nat
<1>1. Len(s) \in Nat /\ DOMAIN s = 1 .. Len(s)
  BY LenProperties
<1>2. /\ IsFiniteSet(1 .. Len(s))
      /\ Cardinality(1 .. Len(s)) = IF 1 > Len(s) THEN 0 ELSE Len(s) - 1 + 1
  BY <1>1, FS_Interval
<1>3. Cardinality(1 .. Len(s)) = Len(s)
  BY <1>1, <1>2
<1>4. \A i \in DOMAIN s : s[i] \in Nat
  BY <1>1, ElementOfSeq
<1>5. QED
  BY <1>1, <1>2, <1>3, <1>4

\* Positions are counted as usual.
LEMMA PartsOfSamples ==
  ASSUME NEW s \in Seq(Nat), NEW A \in SUBSET DOMAIN s
  PROVE  /\ IsFiniteSet(A) /\ Cardinality(A) \in Nat
         /\ Cardinality(A) <= Len(s)
         /\ Cardinality(DOMAIN s \ A) = Len(s) - Cardinality(A)
         /\ \A B \in SUBSET A : Cardinality(B) <= Cardinality(A) /\ Cardinality(B) \in Nat
<1>1. IsFiniteSet(DOMAIN s) /\ Cardinality(DOMAIN s) = Len(s)
  BY Samples
<1>2. IsFiniteSet(A) /\ Cardinality(A) <= Len(s)
  BY <1>1, FS_Subset
<1>3. Cardinality(A) \in Nat
  BY <1>2, FS_CardinalityType
<1>4. DOMAIN s \cap A = A
  OBVIOUS
<1>5. Cardinality(DOMAIN s \ A) = Len(s) - Cardinality(A)
  <2> DEFINE D == DOMAIN s
  <2>1. IsFiniteSet(D) /\ Cardinality(D) = Len(s) /\ D \cap A = A
    BY <1>1, <1>4
  <2> HIDE DEF D
  <2>2. Cardinality(D \ A) = Cardinality(D) - Cardinality(D \cap A)
    BY <1>2, <2>1, FS_Difference
  <2>3. QED
    BY <2>1, <2>2 DEF D
<1>6. ASSUME NEW B \in SUBSET A PROVE Cardinality(B) <= Cardinality(A) /\ Cardinality(B) \in Nat
  <2>1. IsFiniteSet(B) /\ Cardinality(B) <= Cardinality(A)
    BY <1>2, FS_Subset
  <2>2. QED
    BY <2>1, FS_CardinalityType
<1>7. QED
  BY <1>2, <1>3, <1>5, <1>6

\* Some number bounds all samples.
LEMMA FinitelyManyAreBounded ==
  ASSUME NEW n \in Nat, NEW f \in [1 .. n -> Nat]
  PROVE  \E b \in Nat : \A i \in 1 .. n : f[i] <= b
<1> DEFINE T == {m \in 0 .. n : \A b \in Nat : \E i \in 1 .. m : ~ (f[i] <= b)}
<1>1. CASE T = {}
  <2>1. n \notin T
    <3> HIDE DEF T
    <3>1. QED
      BY <1>1
  <2>2. n \in 0 .. n
    OBVIOUS
  <2>3. QED
    BY <2>1, <2>2
<1>2. CASE T # {}
  <2>1. T \subseteq Nat
    OBVIOUS
  <2>2. PICK m \in T : \A k \in T : m <= k
    <3> HIDE DEF T
    <3>1. QED
      BY <1>2, <2>1, Smallest
  <2>3. m \in 0 .. n /\ \A b \in Nat : \E i \in 1 .. m : ~ (f[i] <= b)
    OBVIOUS
  <2>4. m # 0
    <3>1. PICK i \in 1 .. m : TRUE
      BY <2>3
    <3>2. QED
      BY <2>3, <3>1
  <2>5. m - 1 \in 0 .. n /\ ~ (m <= m - 1) /\ m \in 1 .. n
    BY <2>3, <2>4
  <2>6. m - 1 \notin T
    BY <2>2, <2>5
  <2>7. PICK b \in Nat : \A i \in 1 .. m - 1 : f[i] <= b
    BY <2>5, <2>6
  <2> HIDE DEF T
  <2>8. PICK c \in Nat : c = f[m]
    BY <2>5
  <2>9. b + c \in Nat
    BY <2>8
  <2>10. PICK i \in 1 .. m : ~ (f[i] <= b + c)
    BY <2>3, <2>9
  <2>11. PICK d \in Nat : d = f[i]
    BY <2>3, <2>10
  <2>12. CASE i = m
    <3>1. d = c
      BY <2>8, <2>11, <2>12
    <3>2. ~ (d <= b + c)
      BY <2>10, <2>11
    <3>3. QED
      BY <3>1, <3>2
  <2>13. CASE i \in 1 .. m - 1
    <3>1. d <= b
      BY <2>7, <2>11, <2>13
    <3>2. ~ (d <= b + c)
      BY <2>10, <2>11
    <3>3. QED
      BY <3>1, <3>2
  <2>14. i = m \/ i \in 1 .. m - 1
    BY <2>3
  <2>15. QED
    BY <2>12, <2>13, <2>14
<1>3. QED
  BY <1>1, <1>2

LEMMA SamplesAreBounded ==
  ASSUME NEW s \in Seq(Nat)
  PROVE  \E b \in Nat : \A i \in DOMAIN s : s[i] <= b
<1>1. Len(s) \in Nat /\ DOMAIN s = 1 .. Len(s) /\ s \in [1 .. Len(s) -> Nat]
  BY LenProperties
<1>2. QED
  BY <1>1, FinitelyManyAreBounded

\* There is a k-th smallest sample for every k there are samples for.
LEMMA RanksExist ==
  ASSUME NEW s \in Seq(Nat), NEW k \in 1 .. Len(s)
  PROVE  \E v \in Values(s) : Cardinality(Below(s, v)) < k /\ k <= Cardinality(UpTo(s, v))
<1>1. /\ Len(s) \in Nat /\ DOMAIN s = 1 .. Len(s) /\ Cardinality(DOMAIN s) = Len(s)
      /\ \A i \in DOMAIN s : s[i] \in Nat
  BY Samples
<1>2. PICK b \in Nat : \A i \in DOMAIN s : s[i] <= b
  BY SamplesAreBounded
<1>3. Values(s) \subseteq 0 .. b
  BY <1>1, <1>2 DEF Values
<1>4. Values(s) # {}
  BY <1>1 DEF Values
<1>5. PICK top \in Values(s) : \A v \in Values(s) : v <= top
  BY <1>3, <1>4, Largest
<1> DEFINE T == {v \in Values(s) : k <= Cardinality(UpTo(s, v))}
<1>6. top \in T
  <2>1. UpTo(s, top) = DOMAIN s
    BY <1>5 DEF UpTo, Values
  <2>2. QED
    BY <1>1, <2>1
<1>7. T \subseteq Nat
  BY <1>3
<1>8. PICK v \in T : \A w \in T : v <= w
  <2> HIDE DEF T
  <2>1. QED
    BY <1>6, <1>7, Smallest
<1>9. v \in Values(s) /\ k <= Cardinality(UpTo(s, v))
  OBVIOUS
<1>10. CASE Below(s, v) = {}
  <2>1. Cardinality(Below(s, v)) = 0
    BY <1>10, FS_EmptySet
  <2>2. QED
    BY <1>9, <2>1
<1>11. CASE Below(s, v) # {}
  <2> DEFINE W == {w \in Values(s) : w < v}
  <2>1. W # {} /\ W \subseteq 0 .. b
    BY <1>3, <1>11 DEF Below, Values
  <2>2. PICK w \in W : \A u \in W : u <= w
    <3> HIDE DEF W
    <3>1. QED
      BY <2>1, Largest
  <2>3. w \in Values(s) /\ w < v
    OBVIOUS
  <2>4. UpTo(s, w) = Below(s, v)
    <3>1. ASSUME NEW i \in DOMAIN s, s[i] <= w PROVE s[i] < v
      BY <1>1, <1>3, <1>9, <2>3, <3>1
    <3>2. ASSUME NEW i \in DOMAIN s, s[i] < v PROVE s[i] <= w
      <4>1. s[i] \in W
        BY <3>2 DEF Values
      <4>2. QED
        BY <2>2, <4>1
    <3>3. QED
      BY <3>1, <3>2 DEF UpTo, Below
  <2>5. w \notin T
    <3>1. ~ (v <= w)
      BY <1>3, <1>9, <2>3
    <3>2. QED
      BY <1>8, <3>1
  <2>6. Cardinality(Below(s, v)) \in Nat
    BY PartsOfSamples DEF Below
  <2>7. Cardinality(Below(s, v)) < k
    BY <2>3, <2>4, <2>5, <2>6
  <2>8. QED
    BY <1>9, <2>7
<1>12. QED
  BY <1>10, <1>11

LEMMA RankedIsARank ==
  ASSUME NEW s \in Seq(Nat), NEW k \in 1 .. Len(s)
  PROVE  /\ Ranked(s, k) \in Values(s) /\ Ranked(s, k) \in Nat
         /\ Cardinality(Below(s, Ranked(s, k))) < k
         /\ k <= Cardinality(UpTo(s, Ranked(s, k)))
<1> DEFINE R(v) == Cardinality(Below(s, v)) < k /\ k <= Cardinality(UpTo(s, v))
<1>1. \E v \in Values(s) : R(v)
  BY RanksExist
<1>2. Ranked(s, k) = CHOOSE v \in Values(s) : R(v)
  BY DEF Ranked, Values, Below, UpTo
<1>3. Ranked(s, k) \in Values(s) /\ R(Ranked(s, k))
  <2> HIDE DEF R
  <2>1. QED
    BY <1>1, <1>2
<1>4. Values(s) \subseteq Nat
  BY Samples DEF Values
<1>5. QED
  BY <1>3, <1>4

\* A higher rank is no smaller a sample.
LEMMA RanksAscend ==
  ASSUME NEW s \in Seq(Nat), NEW lo \in 1 .. Len(s), NEW up \in 1 .. Len(s), lo <= up
  PROVE  Ranked(s, lo) <= Ranked(s, up)
<1>1. PICK a \in Nat : a = Ranked(s, lo)
  BY RankedIsARank
<1>2. PICK b \in Nat : b = Ranked(s, up)
  BY RankedIsARank
<1>3. Cardinality(Below(s, a)) < lo /\ up <= Cardinality(UpTo(s, b))
  BY <1>1, <1>2, RankedIsARank
<1>4. ASSUME b < a PROVE FALSE
  <2>1. UpTo(s, b) \subseteq Below(s, a) /\ Below(s, a) \in SUBSET DOMAIN s
    <3>1. \A i \in DOMAIN s : s[i] \in Nat
      BY Samples
    <3>2. QED
      BY <1>4, <3>1 DEF UpTo, Below
  <2>2. /\ Cardinality(UpTo(s, b)) <= Cardinality(Below(s, a))
        /\ Cardinality(UpTo(s, b)) \in Nat /\ Cardinality(Below(s, a)) \in Nat
    BY <2>1, PartsOfSamples
  <2>3. Len(s) \in Nat
    BY Samples
  <2>4. QED
    BY <1>3, <2>2, <2>3
<1>5. QED
  BY <1>1, <1>2, <1>4

Slow(s) == {i \in DOMAIN s : s[i] > Target}

LEMMA Products ==
  ASSUME NEW x \in 0 .. 99, NEW y \in Nat
  PROVE  x * y \in Nat /\ x * y <= 100 * y
<1>1. x * y \in Nat
  OBVIOUS
<1>2. (100 - x) * y \in Nat /\ (100 - x) * y = 100 * y - x * y
  OBVIOUS
<1>3. QED
  BY <1>1, <1>2

\* The two ranks the 99th percentile lies between.
LEMMA TheTwoRanks ==
  ASSUME NEW n \in Nat \ {0}
  PROVE  LET at == 99 * (n - 1)
             lo == at \div 100 + 1
             up == IF lo < n THEN lo + 1 ELSE lo
         IN  /\ lo \in 1 .. n /\ up \in 1 .. n /\ lo <= up
             /\ n - lo <= (n + 98) \div 100
             /\ at % 100 \in 0 .. 99
<1>1. PICK q \in Nat, r \in 0 .. 99 : 99 * (n - 1) = 100 * q + r
  <2>1. 99 * (n - 1) \in Nat
    OBVIOUS
  <2>2. PICK at \in Nat : at = 99 * (n - 1)
    BY <2>1
  <2>3. at \div 100 \in Nat /\ at % 100 \in 0 .. 99
    OBVIOUS
  <2>4. at = 100 * (at \div 100) + (at % 100)
    OBVIOUS
  <2>5. QED
    BY <2>2, <2>3, <2>4
<1>2. (99 * (n - 1)) \div 100 = q /\ (99 * (n - 1)) % 100 = r
  BY <1>1
<1>3. q + 1 \in 1 .. n
  BY <1>1
<1>4. n - (q + 1) <= (n + 98) \div 100
  BY <1>1
<1>5. QED
  BY <1>2, <1>3, <1>4

\* The 99th percentile is between two ranks that are neighbours.
LEMMA PercentileIsBetween ==
  ASSUME NEW s \in Seq(Nat), s # <<>>
  PROVE  \E lo, up \in 1 .. Len(s) : \E a, b \in Nat :
           /\ a = Ranked(s, lo) /\ b = Ranked(s, up) /\ a <= b
           /\ Len(s) - lo <= (Len(s) + 98) \div 100
           /\ Percentile(s, 99) \in 100 * a .. 100 * b
<1> DEFINE at == 99 * (Len(s) - 1)
           lo == at \div 100 + 1
           up == IF lo < Len(s) THEN lo + 1 ELSE lo
<1>1. Len(s) \in Nat \ {0}
  <2>1. Len(s) \in Nat
    BY Samples
  <2>2. Len(s) # 0
    BY EmptySeq
  <2>3. QED
    BY <2>1, <2>2
<1>2. /\ lo \in 1 .. Len(s) /\ up \in 1 .. Len(s) /\ lo <= up
      /\ Len(s) - lo <= (Len(s) + 98) \div 100
      /\ at % 100 \in 0 .. 99
  BY <1>1, TheTwoRanks
<1>3. Percentile(s, 99) = 100 * Ranked(s, lo) + (at % 100) * (Ranked(s, up) - Ranked(s, lo))
  BY DEF Percentile
<1>4. PICK l \in 1 .. Len(s), u \in 1 .. Len(s), r \in 0 .. 99 : l = lo /\ u = up /\ r = at % 100
  BY <1>2
<1>5. PICK a \in Nat : a = Ranked(s, l)
  BY RankedIsARank
<1>6. PICK b \in Nat : b = Ranked(s, u)
  BY RankedIsARank
<1>7. l <= u /\ Len(s) - l <= (Len(s) + 98) \div 100
  BY <1>2, <1>4
<1>8. a <= b
  BY <1>5, <1>6, <1>7, RanksAscend
<1>9. Percentile(s, 99) = 100 * a + r * (b - a)
  BY <1>3, <1>4, <1>5, <1>6
<1> HIDE DEF at, lo, up
<1>10. b - a \in Nat
  BY <1>8
<1>11. r * (b - a) \in Nat /\ r * (b - a) <= 100 * (b - a)
  BY <1>10, Products
<1>12. PICK x \in Nat : x = r * (b - a)
  BY <1>11
<1>13. Percentile(s, 99) \in 100 * a .. 100 * b
  <2>1. x <= 100 * (b - a)
    BY <1>11, <1>12
  <2>2. 100 * a + x \in 100 * a .. 100 * b
    BY <1>12, <2>1
  <2>3. QED
    BY <1>9, <1>12, <2>2
<1>14. QED
  BY <1>5, <1>6, <1>7, <1>8, <1>13

\* If the collector passes, at most one of a hundred samples is slow.
LEMMA PassingIsFast ==
  ASSUME NEW s \in Seq(Nat), SlaMet(s)
  PROVE  Cardinality(Slow(s)) <= (Len(s) + 98) \div 100
<1>1. Len(s) \in Nat
  BY Samples
<1>2. CASE s = <<>>
  <2>1. Slow(s) = {} /\ Len(s) = 0
    BY <1>2 DEF Slow
  <2>2. QED
    BY <2>1, FS_EmptySet
<1>3. CASE s # <<>>
  <2>1. PICK lo \in 1 .. Len(s), a \in Nat :
          /\ a = Ranked(s, lo)
          /\ Len(s) - lo <= (Len(s) + 98) \div 100
          /\ \E b \in Nat : Percentile(s, 99) \in 100 * a .. 100 * b
    BY <1>3, PercentileIsBetween
  <2>2. Percentile(s, 99) \in Nat /\ 100 * a <= Percentile(s, 99)
    BY <2>1
  <2>3. a <= 50
    <3>1. Percentile(s, 99) <= 5000
      BY <1>3 DEF SlaMet, Target
    <3>2. QED
      BY <2>2, <3>1
  <2>4. lo <= Cardinality(UpTo(s, a))
    BY <2>1, RankedIsARank
  <2>5. Slow(s) \subseteq DOMAIN s \ UpTo(s, a)
    <3>1. \A i \in DOMAIN s : s[i] \in Nat
      BY Samples
    <3>2. QED
      BY <2>3, <3>1 DEF Slow, UpTo, Target
  <2>6. /\ Cardinality(DOMAIN s \ UpTo(s, a)) = Len(s) - Cardinality(UpTo(s, a))
        /\ Cardinality(UpTo(s, a)) \in Nat
    BY PartsOfSamples DEF UpTo
  <2>7. /\ Cardinality(Slow(s)) <= Cardinality(DOMAIN s \ UpTo(s, a))
        /\ Cardinality(Slow(s)) \in Nat
    BY <2>5, PartsOfSamples
  <2>8. Cardinality(Slow(s)) <= Len(s) - lo
    BY <1>1, <2>4, <2>6, <2>7
  <2>9. (Len(s) + 98) \div 100 \in Nat
    BY <1>1
  <2>10. QED
    BY <1>1, <2>1, <2>7, <2>8, <2>9
<1>4. QED
  BY <1>2, <1>3

\* If it does not, a sample is.
LEMMA FailingIsSlow ==
  ASSUME NEW s \in Seq(Nat), ~SlaMet(s)
  PROVE  Slow(s) # {}
<1>1. s # <<>> /\ ~ (Percentile(s, 99) <= 5000)
  BY DEF SlaMet, Target
<1>2. PICK up \in 1 .. Len(s), b \in Nat :
        b = Ranked(s, up) /\ \E a \in Nat : Percentile(s, 99) \in 100 * a .. 100 * b
  BY <1>1, PercentileIsBetween
<1>3. b \in Values(s)
  BY <1>2, RankedIsARank
<1>4. PICK i \in DOMAIN s : s[i] = b
  BY <1>3 DEF Values
<1>5. b > 50
  BY <1>1, <1>2
<1>6. QED
  BY <1>4, <1>5 DEF Slow, Target

-----------------------------------------------------------------------------
(* Collectors and verdicts *)

\* What a tick does to a collector.
LEMMA OneMore ==
  ASSUME BenchmarkTypeOK, NEW p \in Processes, NEW ms \in Latencies, Record(p, ms)
  PROVE  /\ samples' \in [Processes -> Seq(Latencies)]
         /\ \A q \in Processes : Len(samples'[q]) <= MaxSamples
         /\ \A q \in Processes \ {p} : samples'[q] = samples[q]
         /\ ~Full(p) => samples'[p] = Append(samples[p], ms)
<1> DEFINE s == samples[p]
           kept == IF Full(p) THEN Tail(s) ELSE s
<1>1. s \in Seq(Latencies) /\ Len(s) \in Nat /\ Len(s) <= MaxSamples
  BY LenProperties DEF BenchmarkTypeOK
<1>2. samples' = [samples EXCEPT ![p] = Append(kept, ms)]
  BY DEF Record
<1>3. kept \in Seq(Latencies) /\ Len(kept) < MaxSamples
  <2>1. CASE Full(p)
    <3>1. s # <<>>
      BY <1>1, <2>1, EmptySeq, BenchmarkAssumption DEF Full
    <3>2. Tail(s) \in Seq(Latencies) /\ Len(Tail(s)) = Len(s) - 1
      BY <1>1, <3>1, HeadTailProperties
    <3>3. Len(s) - 1 < MaxSamples /\ kept = Tail(s)
      BY <1>1, <2>1, BenchmarkAssumption
    <3>4. QED
      BY <3>2, <3>3
  <2>2. CASE ~Full(p)
    BY <1>1, <2>2, BenchmarkAssumption DEF Full
  <2>3. QED
    BY <2>1, <2>2
<1> HIDE DEF kept
<1>4. /\ Append(kept, ms) \in Seq(Latencies)
      /\ Len(Append(kept, ms)) = Len(kept) + 1
      /\ Len(kept) \in Nat
  BY <1>3, AppendProperties, LenProperties
<1>5. Len(Append(kept, ms)) <= MaxSamples
  BY <1>3, <1>4, BenchmarkAssumption
<1>6. samples \in [Processes -> Seq(Latencies)]
  BY DEF BenchmarkTypeOK
<1>7. samples' \in [Processes -> Seq(Latencies)]
  BY <1>2, <1>4, <1>6
<1>8. samples'[p] = Append(kept, ms) /\ \A q \in Processes \ {p} : samples'[q] = samples[q]
  BY <1>2, <1>6
<1>9. \A q \in Processes : Len(samples'[q]) <= MaxSamples
  BY <1>5, <1>8 DEF BenchmarkTypeOK
<1>10. QED
  BY <1>7, <1>8, <1>9 DEF kept

LEMMA BenchmarkTyped == BenchmarkTypeOK /\ BenchmarkNext => BenchmarkTypeOK'
<1> SUFFICES ASSUME BenchmarkTypeOK, BenchmarkNext PROVE BenchmarkTypeOK'
  OBVIOUS
<1>1. Len(File) \in Nat
  BY BenchmarkAssumption, LenProperties
<1>2. line \in Nat /\ processed \in Nat /\ errors \in Nat /\ slow \in Nat /\ stray \in Nat
  BY <1>1, BenchmarkAssumption DEF BenchmarkTypeOK
<1>3. CASE SkipBlank
  BY <1>1, <1>2, <1>3 DEF SkipBlank, Fed, NextLine, BenchmarkTypeOK, verdicts
<1>4. CASE Refuse
  BY <1>1, <1>2, <1>4 DEF Refuse, Fed, NextLine, BenchmarkTypeOK, verdicts
<1>5. CASE Answer
  BY <1>1, <1>2, <1>5 DEF Answer, SlaMet, BenchmarkTypeOK, counts
<1>6. CASE GetFails
  BY <1>6 DEF GetFails, BenchmarkTypeOK, counts
<1>7. CASE Exit
  <2>1. \A q \in Processes : samples'[q] = <<>> /\ <<>> \in Seq(Latencies) /\ Len(<<>>) = 0
    BY <1>7, EmptySeq DEF Exit, NoCollectors
  <2>2. samples' \in [Processes -> Seq(Latencies)]
    BY <1>7, EmptySeq DEF Exit, NoCollectors
  <2>3. \A q \in Processes : Len(samples'[q]) <= MaxSamples
    BY <2>1, BenchmarkAssumption
  <2>4. /\ phase' = "idle" /\ host' \in Processes /\ line' = 1 /\ processed' = 0
        /\ errors' = 0 /\ slow' = 0 /\ stray' = Strays
        /\ reply' = FALSE /\ verdict' = FALSE /\ unspoilt' = TRUE
    BY <1>7 DEF Exit, BenchmarkTypeOK
  <2>5. /\ line' \in 1 .. Len(File) + 1 /\ {processed, errors}' \subseteq Nat
        /\ processed' + errors' <= line' - 1 /\ slow' \in 0 .. processed'
        /\ stray' \in 0 .. Strays
    BY <1>1, <2>4, BenchmarkAssumption
  <2>6. QED
    BY <2>2, <2>3, <2>4, <2>5 DEF BenchmarkTypeOK
<1>8. ASSUME NEW ms \in Latencies, Feed(ms) PROVE BenchmarkTypeOK'
  <2>1. OneIf(ms > Target) \in 0 .. 1
    BY DEF OneIf
  <2>2. /\ samples' \in [Processes -> Seq(Latencies)]
        /\ \A q \in Processes : Len(samples'[q]) <= MaxSamples
    BY <1>8, OneMore DEF Feed, BenchmarkTypeOK
  <2>3. PICK o \in 0 .. 1 : slow' = slow + o
    BY <1>8, <2>1 DEF Feed
  <2>4. /\ line <= Len(File) /\ line' = line + 1 /\ processed' = processed + 1
        /\ UNCHANGED <<phase, host, errors, reply, verdict, stray>>
        /\ unspoilt' \in BOOLEAN
    BY <1>8 DEF Feed, Fed, NextLine, verdicts, BenchmarkTypeOK
  <2>5. /\ line' \in 1 .. Len(File) + 1 /\ {processed, errors}' \subseteq Nat
        /\ processed' + errors' <= line' - 1 /\ slow' \in 0 .. processed'
    BY <1>1, <1>2, <2>3, <2>4 DEF BenchmarkTypeOK
  <2>6. QED
    BY <2>2, <2>4, <2>5 DEF BenchmarkTypeOK
<1>9. ASSUME NEW p \in Processes, Post(p) PROVE BenchmarkTypeOK'
  <2>1. PICK earlier \in [Processes \ {p} -> Collectors] :
          samples' = [q \in Processes |-> IF q = p THEN <<>> ELSE earlier[q]]
    BY <1>9 DEF Post
  <2>2. ASSUME NEW q \in Processes
        PROVE  samples'[q] \in Seq(Latencies) /\ Len(samples'[q]) <= MaxSamples
    <3>1. CASE q = p
      <4>1. samples'[q] = <<>> /\ <<>> \in Seq(Latencies) /\ Len(<<>>) = 0
        BY <2>1, <3>1, EmptySeq
      <4>2. QED
        BY <4>1, BenchmarkAssumption
    <3>2. CASE q # p
      <4>1. earlier[q] \in Collectors /\ samples'[q] = earlier[q]
        BY <2>1, <3>2
      <4>2. PICK n \in 0 .. MaxSamples : samples'[q] \in [1 .. n -> Latencies]
        BY <4>1 DEF Collectors
      <4>3. samples'[q] \in Seq(Latencies) /\ Len(samples'[q]) = n
        BY <4>2, BenchmarkAssumption
      <4>4. QED
        BY <4>3, BenchmarkAssumption
    <3>3. QED
      BY <3>1, <3>2
  <2>3. samples' \in [Processes -> Seq(Latencies)]
    BY <2>1, <2>2
  <2>4. QED
    BY <1>9, <2>2, <2>3 DEF Post, BenchmarkTypeOK, counts, verdicts
<1>10. ASSUME NEW p \in Processes, Get(p) PROVE BenchmarkTypeOK'
  BY <1>10 DEF Get, SlaMet, BenchmarkTypeOK, counts
<1>11. ASSUME NEW p \in Processes, Reset(p) PROVE BenchmarkTypeOK'
  <2>1. \A q \in Processes : samples'[q] = IF q = p THEN <<>> ELSE samples[q]
    BY <1>11 DEF Reset, BenchmarkTypeOK
  <2>2. samples' \in [Processes -> Seq(Latencies)]
    BY <1>11, EmptySeq DEF Reset, BenchmarkTypeOK
  <2>3. \A q \in Processes : Len(samples'[q]) <= MaxSamples
    BY <2>1, EmptySeq, BenchmarkAssumption DEF BenchmarkTypeOK
  <2>4. stray' \in 0 .. Strays
    BY <1>2, <1>11, BenchmarkAssumption DEF Reset, Astray, BenchmarkTypeOK
  <2>5. unspoilt' \in BOOLEAN
    BY <1>11 DEF Reset
  <2>6. QED
    BY <1>11, <2>2, <2>3, <2>4, <2>5 DEF Reset, BenchmarkTypeOK, counts, verdicts
<1>12. ASSUME NEW p \in Processes, NEW ms \in Latencies, LiveTick(p, ms) PROVE BenchmarkTypeOK'
  <2>1. /\ samples' \in [Processes -> Seq(Latencies)]
        /\ \A q \in Processes : Len(samples'[q]) <= MaxSamples
    BY <1>12, OneMore DEF LiveTick
  <2>2. stray' \in 0 .. Strays
    BY <1>2, <1>12, BenchmarkAssumption DEF LiveTick, Astray, BenchmarkTypeOK
  <2>3. unspoilt' \in BOOLEAN
    BY <1>12 DEF LiveTick
  <2>4. QED
    BY <1>12, <2>1, <2>2, <2>3 DEF LiveTick, BenchmarkTypeOK, counts, verdicts
<1>13. QED
  BY <1>3, <1>4, <1>5, <1>6, <1>7, <1>8, <1>9, <1>10, <1>11, <1>12 DEF BenchmarkNext

\* What a verdict on samples s says of the slow ticks
Judges(v, s) == IF v THEN slow <= (Len(s) + 98) \div 100 ELSE Slow(s) # {}

\* Slow ticks are among the samples of the host until something spoils them.
Measured ==
  /\ phase = "idle" => slow = 0
  /\ phase # "idle" /\ unspoilt => slow <= Cardinality(Slow(samples[host]))
  /\ phase = "get" /\ unspoilt => Judges(reply, samples[host])
  /\ phase = "judged" /\ unspoilt => Judges(verdict, samples[host])

\* One sample more is one slow sample more, if it is slow.
LEMMA SlowGrows ==
  ASSUME NEW s \in Seq(Nat), NEW ms \in Nat
  PROVE  /\ Slow(s) \subseteq Slow(Append(s, ms))
         /\ Cardinality(Slow(Append(s, ms))) = Cardinality(Slow(s)) + OneIf(ms > Target)
         /\ Cardinality(Slow(s)) \in Nat /\ OneIf(ms > Target) \in Nat
<1> DEFINE n == Len(s) + 1
<1>1. Len(s) \in Nat /\ DOMAIN s = 1 .. Len(s)
  BY Samples
<1>2. /\ Append(s, ms) \in Seq(Nat) /\ Len(Append(s, ms)) = n
      /\ \A i \in 1 .. Len(s) : Append(s, ms)[i] = s[i]
      /\ Append(s, ms)[n] = ms
  BY AppendProperties
<1>3. DOMAIN Append(s, ms) = 1 .. n
  BY <1>2, LenProperties
<1>4. n \notin 1 .. Len(s) /\ \A i : i \in 1 .. n <=> i \in 1 .. Len(s) \/ i = n
  BY <1>1
<1>5. IsFiniteSet(Slow(s)) /\ Cardinality(Slow(s)) \in Nat
  BY PartsOfSamples DEF Slow
<1>6. n \notin Slow(s)
  BY <1>1, <1>4 DEF Slow
<1> HIDE DEF n
<1>7. CASE ms > Target
  <2>1. Slow(Append(s, ms)) = Slow(s) \cup {n}
    BY <1>1, <1>2, <1>3, <1>4, <1>7 DEF Slow
  <2>2. Cardinality(Slow(Append(s, ms))) = Cardinality(Slow(s)) + 1
    BY <1>5, <1>6, <2>1, FS_AddElement
  <2>3. QED
    BY <1>5, <1>7, <2>1, <2>2 DEF OneIf
<1>8. CASE ~ (ms > Target)
  <2>1. Slow(Append(s, ms)) = Slow(s)
    BY <1>1, <1>2, <1>3, <1>4, <1>8 DEF Slow
  <2>2. QED
    BY <1>5, <1>8, <2>1 DEF OneIf
<1>9. QED
  BY <1>7, <1>8

\* What a collector passes for, at most so many ticks being slow.
LEMMA Judged ==
  ASSUME NEW s \in Seq(Nat), slow \in Nat, slow <= Cardinality(Slow(s))
  PROVE  Judges(SlaMet(s), s)
<1>1. CASE SlaMet(s)
  <2>1. Cardinality(Slow(s)) <= (Len(s) + 98) \div 100
    BY <1>1, PassingIsFast
  <2>2. Cardinality(Slow(s)) \in Nat
    BY PartsOfSamples DEF Slow
  <2>3. (Len(s) + 98) \div 100 \in Nat
    <3>1. Len(s) \in Nat
      BY Samples
    <3>2. QED
      BY <3>1
  <2>4. slow <= (Len(s) + 98) \div 100
    BY <2>1, <2>2, <2>3
  <2>5. QED
    BY <1>1, <2>4 DEF Judges
<1>2. CASE ~SlaMet(s)
  BY <1>2, FailingIsSlow DEF Judges
<1>3. QED
  BY <1>1, <1>2

\* Further samples do not turn a verdict.
LEMMA VerdictsStand ==
  ASSUME NEW s \in Seq(Nat), NEW ms \in Nat, slow \in Nat, NEW v \in BOOLEAN, Judges(v, s)
  PROVE  Judges(v, Append(s, ms))
<1>1. CASE v
  <2>1. Len(s) \in Nat /\ Len(Append(s, ms)) = Len(s) + 1
    BY Samples, AppendProperties
  <2>2. slow <= (Len(s) + 98) \div 100
    BY <1>1 DEF Judges
  <2>3. slow <= (Len(Append(s, ms)) + 98) \div 100
    BY <2>1, <2>2
  <2>4. QED
    BY <1>1, <2>3 DEF Judges
<1>2. CASE ~v
  BY <1>2, SlowGrows DEF Judges
<1>3. QED
  BY <1>1, <1>2

LEMMA NextMeasured == BenchmarkTypeOK /\ Measured /\ BenchmarkNext => Measured'
<1> SUFFICES ASSUME BenchmarkTypeOK, Measured, BenchmarkNext PROVE Measured'
  OBVIOUS
<1>1. \A p \in Processes : samples[p] \in Seq(Nat)
  BY SeqMonotonic, BenchmarkAssumption DEF BenchmarkTypeOK
<1>2. host \in Processes /\ slow \in Nat /\ Latencies \subseteq Nat
  <2>1. slow \in 0 .. processed /\ processed \in Nat /\ host \in Processes
    BY DEF BenchmarkTypeOK
  <2>2. QED
    BY <2>1, BenchmarkAssumption
<1>3. samples[host] \in Seq(Nat)
  BY <1>1, <1>2
<1>4. CASE SkipBlank \/ Refuse
  <2>1. UNCHANGED <<samples, phase, host, reply, verdict, slow, unspoilt>>
    BY <1>4 DEF SkipBlank, Refuse, verdicts
  <2>2. QED
    BY <2>1 DEF Measured, Judges, Slow
<1>5. CASE Answer
  <2>1. /\ phase = "replay" /\ phase' = "get" /\ reply' = SlaMet(samples[host])
        /\ UNCHANGED <<samples, host, slow, unspoilt>>
    BY <1>5 DEF Answer
  <2>2. unspoilt => slow <= Cardinality(Slow(samples[host]))
    BY <2>1 DEF Measured
  <2>3. unspoilt => Judges(SlaMet(samples[host]), samples[host])
    BY <1>2, <1>3, <2>2, Judged
  <2>4. QED
    BY <2>1, <2>2, <2>3 DEF Measured, Judges, Slow
<1>6. CASE GetFails
  BY <1>6 DEF GetFails, Measured, Judges, Slow, counts
<1>7. CASE Exit
  BY <1>7 DEF Exit, Measured
<1>8. ASSUME NEW ms \in Latencies, Feed(ms) PROVE Measured'
  <2>1. /\ phase = "replay" /\ phase' = "replay" /\ UNCHANGED host
        /\ slow' = slow + OneIf(ms > Target)
        /\ unspoilt' => unspoilt /\ ~Full(host)
        /\ Record(host, ms)
    BY <1>8 DEF Feed, Fed
  <2>2. ASSUME unspoilt' PROVE slow' <= Cardinality(Slow(samples[host]))'
    <3>1. samples'[host] = Append(samples[host], ms)
      BY <1>2, <2>1, <2>2, OneMore
    <3>2. /\ Cardinality(Slow(Append(samples[host], ms)))
               = Cardinality(Slow(samples[host])) + OneIf(ms > Target)
          /\ Cardinality(Slow(samples[host])) \in Nat /\ OneIf(ms > Target) \in Nat
      BY <1>2, <1>3, SlowGrows
    <3>3. slow <= Cardinality(Slow(samples[host]))
      BY <2>1, <2>2 DEF Measured
    <3>4. slow' <= Cardinality(Slow(Append(samples[host], ms)))
      BY <1>2, <2>1, <3>2, <3>3
    <3>5. Slow(samples[host])' = Slow(Append(samples[host], ms))
      BY <2>1, <3>1 DEF Slow
    <3>6. QED
      BY <3>4, <3>5
  <2>3. QED
    BY <2>1, <2>2 DEF Measured
<1>9. ASSUME NEW p \in Processes, Post(p) PROVE Measured'
  <2>1. slow' = 0 /\ phase' = "replay"
    BY <1>9 DEF Post, Measured
  <2>2. samples'[host'] = <<>>
    BY <1>9 DEF Post
  <2>3. Slow(<<>>) = {} /\ Cardinality({}) = 0
    BY FS_EmptySet DEF Slow
  <2>4. Slow(samples[host])' = Slow(<<>>)
    BY <2>2 DEF Slow
  <2>5. Cardinality(Slow(samples[host]))' = 0
    BY <2>3, <2>4
  <2>6. (slow <= Cardinality(Slow(samples[host])))'
    BY <2>1, <2>5
  <2>7. QED
    BY <2>1, <2>6 DEF Measured
<1>10. ASSUME NEW p \in Processes, Get(p) PROVE Measured'
  <2>1. /\ phase = "get" /\ phase' = "judged" /\ verdict' = SlaMet(samples[p])
        /\ UNCHANGED <<samples, host, slow>>
        /\ unspoilt' => unspoilt /\ p = host
    BY <1>10 DEF Get, counts
  <2>2. unspoilt' => slow <= Cardinality(Slow(samples[host]))
    BY <2>1 DEF Measured
  <2>3. unspoilt' => Judges(SlaMet(samples[host]), samples[host])
    BY <1>2, <1>3, <2>2, Judged
  <2>4. QED
    BY <2>1, <2>2, <2>3 DEF Measured, Judges, Slow
<1>11. ASSUME NEW p \in Processes, Reset(p) PROVE Measured'
  <2>1. /\ phase # "idle" /\ UNCHANGED <<phase, host, reply, verdict, slow>>
        /\ samples' = [samples EXCEPT ![p] = <<>>]
        /\ unspoilt' => unspoilt /\ p # host
    BY <1>11 DEF Reset, Astray, counts, verdicts
  <2>2. unspoilt' => samples'[host] = samples[host]
    BY <1>2, <2>1 DEF BenchmarkTypeOK
  <2>3. QED
    BY <2>1, <2>2 DEF Measured, Judges, Slow
<1>12. ASSUME NEW p \in Processes, NEW ms \in Latencies, LiveTick(p, ms) PROVE Measured'
  <2>1. /\ phase \in {"replay", "get"} /\ UNCHANGED <<phase, host, reply, verdict, slow>>
        /\ Record(p, ms)
        /\ unspoilt' => unspoilt /\ ~ (p = host /\ Full(p))
    BY <1>12 DEF LiveTick, Astray, counts, verdicts
  <2>2. CASE p # host
    <3>1. samples'[host] = samples[host]
      BY <1>2, <2>1, <2>2, OneMore
    <3>2. QED
      BY <2>1, <3>1 DEF Measured, Judges, Slow
  <2>3. CASE p = host
    <3> SUFFICES ASSUME unspoilt' PROVE Measured'
      BY <2>1 DEF Measured
    <3>1. samples'[host] = Append(samples[host], ms)
      BY <2>1, <2>3, OneMore
    <3>2. slow <= Cardinality(Slow(samples[host]))
      BY <2>1 DEF Measured
    <3>3. slow <= Cardinality(Slow(Append(samples[host], ms)))
      <4>1. /\ Cardinality(Slow(Append(samples[host], ms)))
                 = Cardinality(Slow(samples[host])) + OneIf(ms > Target)
            /\ Cardinality(Slow(samples[host])) \in Nat /\ OneIf(ms > Target) \in Nat
        BY <1>2, <1>3, SlowGrows
      <4>2. slow <= Cardinality(Slow(samples[host])) + OneIf(ms > Target)
        BY <1>2, <3>2, <4>1
      <4>3. QED
        BY <4>1, <4>2
    <3>4. phase = "get" => Judges(reply, Append(samples[host], ms))
      <4>1. phase = "get" => Judges(reply, samples[host])
        BY <2>1 DEF Measured
      <4>2. reply \in BOOLEAN
        BY DEF BenchmarkTypeOK
      <4>3. QED
        BY <1>2, <1>3, <4>1, <4>2, VerdictsStand
    <3>5. QED
      BY <2>1, <3>1, <3>3, <3>4 DEF Measured, Judges, Slow
  <2>4. QED
    BY <2>2, <2>3
<1>13. QED
  BY <1>4, <1>5, <1>6, <1>7, <1>8, <1>9, <1>10, <1>11, <1>12 DEF BenchmarkNext

LEMMA AlwaysMeasured == Spec => [](BenchmarkTypeOK /\ Measured)
<1>1. Init => BenchmarkTypeOK /\ Measured
  <2> SUFFICES ASSUME BenchmarkInit PROVE BenchmarkTypeOK /\ Measured
    BY DEF Init
  <2>1. \A p \in Processes : samples[p] = <<>> /\ <<>> \in Seq(Latencies) /\ Len(<<>>) = 0
    BY EmptySeq DEF BenchmarkInit, NoCollectors
  <2>2. samples \in [Processes -> Seq(Latencies)]
    BY EmptySeq DEF BenchmarkInit, NoCollectors
  <2>3. \A p \in Processes : Len(samples[p]) <= MaxSamples
    BY <2>1, BenchmarkAssumption
  <2>4. Len(File) \in Nat
    BY BenchmarkAssumption, LenProperties
  <2>5. /\ phase = "idle" /\ host \in Processes /\ line = 1 /\ processed = 0
        /\ errors = 0 /\ slow = 0 /\ stray = Strays
        /\ reply = FALSE /\ verdict = FALSE /\ unspoilt = TRUE
    BY DEF BenchmarkInit, NoCounts
  <2>6. /\ line \in 1 .. Len(File) + 1 /\ {processed, errors} \subseteq Nat
        /\ processed + errors <= line - 1 /\ slow \in 0 .. processed
        /\ stray \in 0 .. Strays
    BY <2>4, <2>5, BenchmarkAssumption
  <2>7. QED
    BY <2>2, <2>3, <2>5, <2>6 DEF BenchmarkTypeOK, Measured
<1>2. UNCHANGED benchmark => (BenchmarkTypeOK /\ Measured => (BenchmarkTypeOK /\ Measured)')
  BY DEF benchmark, counts, verdicts, BenchmarkTypeOK, Measured, Judges, Slow
<1>3. BenchmarkTypeOK /\ Measured /\ [Next]_vars => (BenchmarkTypeOK /\ Measured)'
  BY <1>2, BenchmarkTyped, NextMeasured DEF Next, vars
<1>4. QED
  BY <1>1, <1>3, PTL DEF Spec

\* A passed benchmark had at most one slow tick in a hundred, and a failed one had
\* a slow sample (replay, LatencyCollector.stats, run_benchmark).
THEOREM VerdictsAreEarned == Spec => []VerdictIsEarned
<1>1. BenchmarkTypeOK /\ Measured => VerdictIsEarned
  BY DEF Measured, Judges, Slow, VerdictIsEarned
<1>2. QED
  BY <1>1, AlwaysMeasured, PTL

\* Listings and summaries show committed trades only, no line of a replay is counted
\* twice, and no collector outgrows its bound (list_trades, tool_get_pnl_summary,
\* replay, LatencyCollector.record).
THEOREM ApiTypeCorrect == Spec => []TypeOK
<1>1. Priced /\ Listing /\ Consistent /\ BenchmarkTypeOK => TypeOK
  BY DEF Priced, Listing, Consistent, TypeOK, TradingTypeOK
<1>2. QED
  BY <1>1, AlwaysLists, AlwaysConsistent, AlwaysMeasured, PTL

=============================================================================
