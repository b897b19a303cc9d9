---------------------------- MODULE PaperAccount ----------------------------
(***************************************************************************)
(* What a paper portfolio promises to the runs that trade on it: an account *)
(* that is opened once and then changes by whole fills only, each of an      *)
(* intent of its own, paid from the cash or taken from the holdings there    *)
(* are at that moment.  Runs, snapshots, retries, leases and tables are not  *)
(* part of it.                                                              *)
(***************************************************************************)
EXTENDS Integers

CONSTANTS
    Assets,
    Deposit     \* the cash the account is opened with

VARIABLES
    opened,
    cash,
    held,       \* asset -> quantity
    fills       \* fills so far: intent, asset, side, quantity, cost and fee

accountVars == <<opened, cash, held, fills>>

Init ==
    /\ opened = FALSE
    /\ cash = 0
    /\ held = [a \in Assets |-> 0]
    /\ fills = {}

Open ==
    /\ ~opened
    /\ opened' = TRUE
    /\ cash' = Deposit
    /\ UNCHANGED <<held, fills>>

Buy(f) ==
    /\ f.cost + f.fee <= cash
    /\ cash' = cash - (f.cost + f.fee)
    /\ held' = [held EXCEPT ![f.asset] = @ + f.quantity]

Sell(f) ==
    /\ f.quantity <= held[f.asset]
    /\ cash' = cash + f.cost - f.fee
    /\ held' = [held EXCEPT ![f.asset] = @ - f.quantity]

Fill ==
    /\ opened
    /\ \E f \in fills' \ fills :
         /\ \A g \in fills : g.intent # f.intent
         /\ fills' = fills \cup {f}
         /\ IF f.side = "BUY" THEN Buy(f) ELSE Sell(f)
    /\ UNCHANGED opened

Spec == Init /\ [][Open \/ Fill]_accountVars
=============================================================================
