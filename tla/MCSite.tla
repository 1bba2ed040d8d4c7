------------------------------- MODULE MCSite -------------------------------
(***************************************************************************)
(* Values for Site's constants.                                            *)
(***************************************************************************)
EXTENDS Site, TLC

CONSTANTS u1, u2

FactorySettings ==
    [interval |-> 600, immediate |-> FALSE, button |-> TRUE, software |-> TRUE]

QuietFactory == [FactorySettings EXCEPT !.software = FALSE]

Form(minutes, seconds) ==
    [minutes |-> minutes, seconds |-> seconds, button |-> FALSE, software |-> FALSE]

\* The shortest interval, and one that is just too long.
EdgeForms == {Form(0, 10), Form(1440, 10)}
ShortForm == {Form(0, 10)}

UserSymmetry == Permutations(Users)
=============================================================================
