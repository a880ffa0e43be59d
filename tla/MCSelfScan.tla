----------------------------- MODULE MCSelfScan -----------------------------
(* Feeds of a few events, read page by page: one owner whose reads fail, and *)
(* two who take turns on one page while passes are under way.                *)
EXTENDS SelfScan

CONSTANTS a, b

MCSettings ==
    { [owners |-> {a}, kinds |-> {"single", "batch"}, maxPages |-> 1,
       MaxFeed |-> 2, MaxSpends |-> 0, MaxFaults |-> 1, MaxMoves |-> 2],
      [owners |-> {a}, kinds |-> Kind, maxPages |-> 2,
       MaxFeed |-> 1, MaxSpends |-> 1, MaxFaults |-> 1, MaxMoves |-> 2],
      [owners |-> {a, b}, kinds |-> {"single"}, maxPages |-> 1,
       MaxFeed |-> 1, MaxSpends |-> 0, MaxFaults |-> 0, MaxMoves |-> 3] }
=============================================================================
