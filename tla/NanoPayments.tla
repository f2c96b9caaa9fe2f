---------------------------- MODULE NanoPayments ----------------------------
(***************************************************************************)
(* What a user of NanoSwift is promised, with no blocks, hashes, work,     *)
(* snapshots or requests: an order to pay (a call of sendBlock) is paid at *)
(* most once, whole, out of the balance of the account it names; a paid    *)
(* order is collected at most once, by the account it was addressed to;    *)
(* and nothing else changes a balance.                                     *)
(***************************************************************************)
EXTENDS Integers, Sequences

CONSTANTS Accounts, Opening, Orders

VARIABLES
    balance,    \* balance[a]: what account a holds
    orders,     \* the payments asked for, in the order they were asked
    paid,       \* the orders that have been paid, by their number
    collected   \* the paid orders their receiver has taken in

vars == <<balance, orders, paid, collected>>

Init ==
    /\ balance = Opening
    /\ orders = << >>
    /\ paid = {} /\ collected = {}

Ask(o) ==
    /\ orders' = Append(orders, o)
    /\ UNCHANGED <<balance, paid, collected>>

Pay(i) ==
    /\ i \in DOMAIN orders \ paid
    /\ orders[i].amount \in 1 .. balance[orders[i].account]
    /\ balance' = [balance EXCEPT ![orders[i].account] = @ - orders[i].amount]
    /\ paid' = paid \cup {i}
    /\ UNCHANGED <<orders, collected>>

Collect(i) ==
    /\ i \in paid \ collected
    /\ balance' = [balance EXCEPT ![orders[i].dest] = @ + orders[i].amount]
    /\ collected' = collected \cup {i}
    /\ UNCHANGED <<orders, paid>>

Next ==
    \/ \E o \in Orders : Ask(o)
    \/ \E i \in DOMAIN orders : Pay(i) \/ Collect(i)

Spec == Init /\ [][Next]_vars
=============================================================================
