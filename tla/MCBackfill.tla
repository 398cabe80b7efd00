----------------------------- MODULE MCBackfill -----------------------------
(***************************************************************************)
(* Ten instants, two months, a fixed and a calendar grid.  A bar of the    *)
(* calendar grid crosses the month boundary; windows hold three bars,      *)
(* pages two rows; one page loop of every kind, the bounded one with a     *)
(* span that ends pages early and with a venue that sends the end candle.  *)
(***************************************************************************)
EXTENDS Backfill

Route(kind, maxBars, maxSpan, acceptEnd) ==
  [kind |-> kind, maxBars |-> maxBars, maxSpan |-> maxSpan, acceptEnd |-> acceptEnd]

MCRoutes ==
  {Route("bounded", 2, 100, FALSE), Route("bounded", 3, 4, TRUE),
   Route("generic", 2, 100, FALSE), Route("reference", 2, 100, FALSE),
   Route("oi", 2, 100, FALSE), Route("funding", 2, 100, FALSE),
   Route("binanceFunding", 2, 100, FALSE)}

MCBars == {[step |-> 2, starts |-> {}],
           [step |-> 0, starts |-> {0, 3, 5, 8, 10, 13, 15, 18, 20, 23, 25}]}

MCMonths == {0, 7}
MCWorlds == {{}, {0, 8}, {3, 6}, {4, 5, 6, 8, 9, 10}, {0, 2, 3, 4, 5, 6, 8, 10}}
MCRequests == {<<0, 10>>, <<0, 4>>, <<4, 10>>, <<3, 8>>, <<5, 10>>, <<2, 6>>}
MCStrays == {4, 9}
=============================================================================
