----------------------------- MODULE MCIexClient -----------------------------
(* One handler and the update thread; requests of up to two companies, the    *)
(* same one twice among them, and a request for none.                         *)
EXTENDS IexClient

CONSTANTS h1, aapl, fb

OneHandler == {h1}
TwoSymbols == {aapl, fb}
UpToTwo == {<<>>, <<aapl>>, <<aapl, fb>>, <<fb, fb>>}

=============================================================================
