------------------------------- MODULE Strike -------------------------------
(***************************************************************************)
(* The option a signal buys: calculate_atm_strike, simulate_premium and    *)
(* the choice of CE or PE in handle_signal.                                *)
(*                                                                         *)
(* Prices are in paise (the feed quotes two decimals), so the interval of  *)
(* 50 is 5000; premiums are in thousandths of a paisa, before the rounding *)
(* to two decimals, so that 0.2% of a price is exact.                      *)
(***************************************************************************)
EXTENDS Integers

Interval == 5000    \* STRIKE_INTERVAL

\* faulty variant: round(), which takes ties to the even multiple
NearestStrikeToEven(spot) ==
  LET q == spot \div Interval
      r == spot % Interval
  IN IF 2 * r > Interval \/ (2 * r = Interval /\ q % 2 = 1) THEN (q + 1) * Interval
                                                            ELSE q * Interval
\* floor(spot / interval + 0.5) * interval
AtmStrike(spot) == ((2 * spot + Interval) \div (2 * Interval)) * Interval

\* faulty variant: the intrinsic value is not floored at zero
SignedPremium(spot, strike, option) ==
  1000 * (IF option = "CE" THEN spot - strike ELSE strike - spot) + 2 * spot

Positive(n) == IF n > 0 THEN n ELSE 0

Premium(spot, strike, option) ==
  1000 * (IF option = "CE" THEN Positive(spot - strike) ELSE Positive(strike - spot))
    + 2 * spot

\* faulty variant: a LONG trade buys a put
OptionSwapped(side) == IF side = "LONG" THEN "PE" ELSE "CE"

OptionOf(side) == IF side = "LONG" THEN "CE" ELSE "PE"

\* the trade of a signal; its created_at is the signal's ts
TradeOf(s) ==
  LET strike == AtmStrike(s.price)
      option == OptionOf(s.side)
  IN [signal |-> s, option |-> option, strike |-> strike,
      entry |-> Premium(s.price, strike, option)]
=============================================================================
