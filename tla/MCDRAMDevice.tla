---------------------------- MODULE MCDRAMDevice ----------------------------
(* A channel of two ranks, with constraints of every kind the standards use:  *)
(* at each level, over a window, between siblings, and over a shared window.  *)
EXTENDS DRAMDevice

MCBanks == 1..3
MCTree == << {{1, 2, 3}}, {{1, 2}, {3}}, {{1}, {2}, {3}} >>
MCScopes == {{1}, {2}, {3}, {1, 2}}
MCCommands == {"ACT", "RD", "REF"}
MCCycles == [c \in MCCommands |-> IF c = "REF" THEN 2 ELSE 1]

Cons(level, prev, next, val, window, sibling, group) ==
    [level |-> level, prev |-> prev, next |-> next, val |-> val,
     window |-> window, sibling |-> sibling, group |-> group]

MCTimingCons ==
    { Cons(1, "RD", "RD", 1, 1, FALSE, 0),      \* data bus
      Cons(2, "RD", "RD", 2, 1, TRUE, 0),       \* rank switch
      Cons(2, "ACT", "ACT", 3, 2, FALSE, 0),    \* activation window
      Cons(2, "ACT", "ACT", 1, 1, FALSE, 0),
      Cons(2, "REF", "ACT", 2, 1, FALSE, 0),
      Cons(3, "ACT", "RD", 2, 1, FALSE, 0),
      Cons(2, "ACT", "REF", 2, 2, FALSE, 1),    \* window shared by ACT and REF
      Cons(2, "REF", "REF", 2, 2, FALSE, 1) }
=============================================================================
