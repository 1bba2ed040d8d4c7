------------------------------ MODULE MCLogger ------------------------------
(***************************************************************************)
(* Values for Logger's constants.                                          *)
(***************************************************************************)
EXTENDS Logger, TLC

CONSTANTS c1, c2

Start(mode, button, software) ==
    [mode |-> mode, button |-> button, software |-> software]

\* The logger comes with manual start, ten minutes, both stops (fakeDevice).
FactorySettings == [interval |-> 600, start |-> Start(1, TRUE, TRUE)]

\* What the pages and the command line ask for: manual start with any stops,
\* or immediate start with software stop; and an interval that is refused.
SaveForm  == [interval |-> 10, start |-> Start(1, FALSE, FALSE)]
StartForm == [interval |-> 86400, start |-> Start(0, FALSE, TRUE)]
OddForm   == [interval |-> 15, start |-> Start(1, FALSE, TRUE)]
Forms     == {SaveForm, StartForm, OddForm}
TwoForms  == {SaveForm, OddForm}
SameForm  == {FactorySettings}

\* Shorter tables, for the runs with two clients.
TwoFields == SubSeq(InfoFields, 1, 2)
OneStatus == SubSeq(StatusParts, 1, 1)
OneField  == SubSeq(InfoFields, 1, 1)
OneBlock  == SubSeq(FactoryBlocks, 1, 1)
TwoBlocks == SubSeq(FactoryBlocks, 1, 2)

ClientSymmetry == Permutations(Clients)
=============================================================================
