------------------------------ MODULE Trading ------------------------------
(***************************************************************************)
(* The trades table and two of its readers, each of which runs several     *)
(* statements while signals go on becoming trades:                         *)
(*                                                                         *)
(*   GET /trades        a client reads page after page, newest first; a    *)
(*                      page is a count and then a select                  *)
(*   get_pnl_summary    a tool of the assistant: five statements           *)
(*                                                                         *)
(* Postgres runs at READ COMMITTED, so each statement sees what is         *)
(* committed when it starts. created_at is the time of the tick: trades    *)
(* are not committed in its order, and two may have the same one, which    *)
(* leaves their order to each statement anew.                              *)
(***************************************************************************)
EXTENDS Strike, Sequences, FiniteSets

CONSTANTS
  Signals,    \* the signals that may be emitted
  PageSize    \* page_size

ASSUME TradingAssumption ==
  /\ Signals \subseteq [ts : Nat, price : Nat, side : {"LONG", "SHORT"}]
  /\ IsFiniteSet(Signals)
  /\ PageSize \in 1 .. 100

VARIABLES
  trades,    \* Postgres: the committed rows
  reading,   \* the client's next statement
  page,      \* the page it asks for
  total,     \* the count of that page's answer
  seen,      \* the trades on the pages so far
  rows,      \* how many rows these had
  known,     \* history: the trades when the client began
  late,      \* history: trades committed between the last count and its select
  summary    \* the results of the summary's statements so far

listing == <<page, total, seen, rows, known, late>>
reader == <<reading, listing, summary>>

TradingTypeOK ==
  /\ trades \subseteq {TradeOf(s) : s \in Signals}
  /\ reading \in {"none", "count", "select", "stopped", "ended", "summary"}
  /\ page \in Nat \ {0}
  /\ {total, rows, late} \subseteq Nat
  /\ seen \cup known \subseteq trades
  /\ summary \in Seq(Nat)

NotListing == page = 1 /\ total = 0 /\ seen = {} /\ rows = 0 /\ known = {} /\ late = 0

TradingInit == trades = {} /\ reading = "none" /\ NotListing /\ summary = <<>>

-----------------------------------------------------------------------------
\* handle_signal commits
Store(s) ==
  /\ TradeOf(s) \notin trades
  /\ trades' = trades \cup {TradeOf(s)}
  /\ UNCHANGED reader

At(t) == t.signal.ts

\* S may be the beginning of all in some order by created_at descending
Newest(S, all) == \A t \in S, u \in all \ S : At(t) >= At(u)

Smaller(m, n) == IF m < n THEN m ELSE n

\* faulty variants: pages are counted from zero, or one row of a page is shared
OffsetFromZero == page * PageSize
OffsetShared == (page - 1) * (PageSize - 1)

Offset == (page - 1) * PageSize

\* The rows ORDER BY created_at DESC OFFSET .. LIMIT .. may return
Pages ==
  { P \in SUBSET trades :
      \E before \in SUBSET (trades \ P) :
        /\ Cardinality(before) = Smaller(Offset, Cardinality(trades))
        /\ Cardinality(P) = Smaller(PageSize, Cardinality(trades \ before))
        /\ Newest(before, trades) /\ Newest(before \cup P, trades) }

BeginListing ==
  /\ reading = "none"
  /\ reading' = "count"
  /\ known' = trades
  /\ UNCHANGED <<trades, page, total, seen, rows, late, summary>>

Count ==
  /\ reading = "count"
  /\ total' = Cardinality(trades)
  /\ reading' = "select"
  /\ UNCHANGED <<trades, page, seen, rows, known, late, summary>>

\* The client goes on to the next page, stops at the total it was given, or
\* ends on a page that is not full.
Select(P) ==
  /\ reading = "select"
  /\ seen' = seen \cup P
  /\ rows' = rows + Cardinality(P)
  /\ late' = Cardinality(trades) - total
  /\ IF Cardinality(P) < PageSize
     THEN reading' = "ended" /\ UNCHANGED page
     ELSE \/ reading' = "count" /\ page' = page + 1
          \/ page * PageSize >= total /\ reading' = "stopped" /\ UNCHANGED page
  /\ UNCHANGED <<trades, total, known, summary>>

Close ==
  /\ reading \in {"stopped", "ended"}
  /\ reading' = "none"
  /\ page' = 1 /\ total' = 0 /\ seen' = {} /\ rows' = 0 /\ known' = {} /\ late' = 0
  /\ UNCHANGED <<trades, summary>>

\* faulty variant: the total is counted last
StatementsTotalLast == <<"LONG", "SHORT", "CE", "PE", "total">>

Statements == <<"total", "LONG", "SHORT", "CE", "PE">>

Matching(what) == {t \in trades : what \in {"total", t.signal.side, t.option}}

BeginSummary ==
  /\ reading = "none"
  /\ reading' = "summary" /\ summary' = <<>>
  /\ UNCHANGED <<trades, listing>>

Aggregate ==
  /\ reading = "summary" /\ Len(summary) < Len(Statements)
  /\ summary' = Append(summary, Cardinality(Matching(Statements[Len(summary) + 1])))
  /\ UNCHANGED <<trades, reading, listing>>

EndSummary ==
  /\ reading = "summary" /\ Len(summary) = Len(Statements)
  /\ reading' = "none" /\ summary' = <<>>
  /\ UNCHANGED <<trades, listing>>

Read == \/ BeginListing \/ Count \/ Close
        \/ \E P \in Pages : Select(P)
        \/ BeginSummary \/ Aggregate \/ EndSummary

TradingNext == Read \/ \E s \in Signals : Store(s)

-----------------------------------------------------------------------------
(* Properties *)

NoTies == \A t, u \in trades : t # u => At(t) # At(u)

\* A client that reads on to a page that is not full has seen every trade there
\* was when it began, whatever is committed meanwhile and however old its time.
\* One that stops at the total may miss as many as were committed between that
\* count and its select (list_trades).
NothingIsMissed ==
  NoTies => /\ reading = "ended" => known \subseteq seen
            /\ reading = "stopped" => Cardinality(known \ seen) <= late

\* A trade is repeated on a later page only because another was committed since
\* the client began: one repetition for each at the most (list_trades).
RepeatsHaveACause ==
  NoTies /\ reading \in {"count", "select", "stopped", "ended"} =>
    rows - Cardinality(seen) <= Cardinality(trades \ known)

Result(what) == summary[CHOOSE i \in DOMAIN Statements : Statements[i] = what]

\* The parts of a summary cover its whole, and options cover sides: what is
\* committed between two of its statements only ever adds to the later ones
\* (tool_get_pnl_summary).
SummaryAddsUp ==
  reading = "summary" /\ Len(summary) = Len(Statements) =>
    /\ Result("total") <= Result("LONG") + Result("SHORT")
    /\ Result("LONG") <= Result("CE") /\ Result("SHORT") <= Result("PE")
    /\ Result("CE") + Result("PE") <= Cardinality(trades)

\* The strike is a multiple of the interval, none is nearer to the price, and of
\* two that are equally near it is the higher one: 2 * (strike - price) lies in
\* (-interval, interval] (calculate_atm_strike).
StrikeIsNearest ==
  \A t \in trades :
    /\ t.strike % Interval = 0
    /\ 2 * (t.strike - t.signal.price) <= Interval
    /\ 2 * (t.signal.price - t.strike) < Interval

\* The premium of an at-the-money option lies between its time value and that
\* plus half an interval: the intrinsic value is never negative and never more
\* than the distance to the strike (simulate_premium at the strike of
\* calculate_atm_strike).
PremiumIsNearTimeValue ==
  \A t \in trades : /\ t.entry >= 2 * t.signal.price
                    /\ t.entry <= 2 * t.signal.price + 500 * Interval

\* Of a call and a put at the same price, at most one has intrinsic value, and
\* the side decides which: a LONG trade has it when the strike lies below.
OneSideIsInTheMoney ==
  \A t \in trades :
    t.entry > 2 * t.signal.price <=>
      \/ t.signal.side = "LONG" /\ t.strike < t.signal.price
      \/ t.signal.side = "SHORT" /\ t.strike > t.signal.price
=============================================================================
