------------------------------- MODULE MCFeed -------------------------------
(* Feed with one option: its bid is shown and withdrawn, its ask and a     *)
(* size arrive, and the underlying trades.                                 *)
EXTENDS Feed

MCTicks == {<<"c1", "bid", 1>>, <<"c1", "bid", -1>>, <<"c1", "ask", 3>>,
            <<"c1", "ask_size", 1>>, <<"fut", "last", 4>>}
=============================================================================
