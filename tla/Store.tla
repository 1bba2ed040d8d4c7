-------------------------------- MODULE Store --------------------------------
(***************************************************************************)
(* What the owner of a logger relies on, whoever talks to it and whatever  *)
(* fails: its records grow one by one and go all at once, together with    *)
(* the settings it keeps, and only on the order of someone who knew how    *)
(* many records there were.                                                *)
(*                                                                         *)
(* Module Logger implements it, for one caller.                            *)
(***************************************************************************)
EXTENDS Naturals

CONSTANTS
    Choices,        \* settings that may be ordered
    Factory         \* settings of a new logger

VARIABLES
    records,        \* how many the logger holds
    settings,       \* what it comes back with when it is plugged in
    orders          \* orders to change the settings that stand

vars == <<records, settings, orders>>

Orders == [set: Choices, confirmed: Nat]

Init == records \in Nat /\ settings = Factory /\ orders = {}

\* An order is given, or withdrawn, refused or found done.
Order ==
    /\ orders' \subseteq Orders
    /\ orders \subseteq orders' \/ orders' \subseteq orders
    /\ UNCHANGED <<records, settings>>

Record == records' = records + 1 /\ UNCHANGED <<settings, orders>>

\* An order is carried out, wholly.
Configure ==
    \E o \in orders :
        /\ records \in {0, o.confirmed}
        /\ records' = 0 /\ settings' = o.set
        /\ orders' \subseteq orders

Next == Order \/ Record \/ Configure

Spec == Init /\ [][Next]_vars
=============================================================================
