--------------------------- MODULE GatewayCommands ---------------------------
(***************************************************************************)
(* The limiter of the commands a connection may send to the gateway: one   *)
(* bet and one cashout per user and round.  A command that is let through  *)
(* has used its turn, whether the game then accepts it or not.             *)
(***************************************************************************)
EXTENDS RoundView

VARIABLE limiter      \* WsRateLimiter.state, a fresh one for a user without

Unused(r) == [round |-> r, bet |-> FALSE, cashout |-> FALSE]
LimiterInit == limiter = [u \in Users |-> Unused(0)]

\* updateRound: another round gives the turns back.
Turns(u, r) == IF limiter[u].round = r THEN limiter[u] ELSE Unused(r)

\* allowBet and allowCashout.
Allowed(u, r, command) == ~Turns(u, r)[command]
Takes(u, r, command) ==
    limiter' = [limiter EXCEPT ![u] = [Turns(u, r) EXCEPT ![command] = TRUE]]

\* The socket's `close' removes what is known of its user.
Forget(u) == limiter' = [limiter EXCEPT ![u] = Unused(0)]
=============================================================================
