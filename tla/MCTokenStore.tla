---------------------------- MODULE MCTokenStore ----------------------------
(* The goroutines that share the token: main, which goes on to scan, the   *)
(* ticker's scan, a request.                                               *)
EXTENDS TokenStore

Setup(us, rotating, ls, es, cs) ==
    [users |-> us, rotates |-> rotating, logins |-> ls, expiries |-> es, cuts |-> cs]

Alone  == Setup({"main"}, TRUE, 2, 3, 2)
Paired == Setup({"main", "ticker"}, TRUE, 1, 2, 0)
Two    == Setup({"main", "ticker"}, FALSE, 1, 3, 2)
Three  == Setup({"main", "ticker", "request"}, FALSE, 1, 2, 0)

AloneAndShared == {Alone, Two, Three}
JustPaired     == {Paired}
=============================================================================
