------------------------------- MODULE Orders -------------------------------
(***************************************************************************)
(* What the screens of the Mini App share: each press of a button that     *)
(* moves money is an order, each order becomes a command, a sequence of    *)
(* requests to the server awaited one by one, and a request may get lost.  *)
(***************************************************************************)
EXTENDS Integers, Sequences

CONSTANTS
    MaxOrders,   \* bound: orders
    MaxFaults,   \* bound: lost requests and broken connections
    None

ASSUME OrdersAssumption == {MaxOrders, MaxFaults} \subseteq Nat

VARIABLES
    effects,     \* effects[n]: how often the server has carried out order n
    cmds,        \* the commands under way
    faults

ordersVars == <<effects, cmds, faults>>

OrdersInit == effects = <<>> /\ cmds = {} /\ faults = 0

\* A press: the new order's command begins with step.
Order(cmd) ==
    /\ Len(effects) < MaxOrders
    /\ effects' = Append(effects, 0)
    /\ cmds' = cmds \cup {cmd}
    /\ UNCHANGED faults
Next1 == Len(effects) + 1

Carried(n) == effects' = [effects EXCEPT ![n] = @ + 1]
Goes(c, d) == cmds' = (cmds \ {c}) \cup {d}
Ends(c) == cmds' = cmds \ {c}
Fault == faults < MaxFaults /\ faults' = faults + 1

\* One press is carried out at most once, whatever is retried, lost or left
\* behind by a screen that is gone (placeBetAmount's retries above all).
OneEffectPerOrder == \A n \in DOMAIN effects : effects[n] <= 1
=============================================================================
