-------------------------- MODULE MCDRAMController --------------------------
(* DDR4 with one bank group and the shortest timings that keep every kind of  *)
(* delay: nBL = nCL = nCWL = nRTP = nWR = nRP = nRRD = 1, nRCD = nWTR = 2,     *)
(* nRAS = 3, nRC = 4, nRFC = 2.  The four-activation window, which two banks   *)
(* cannot fill, is left to MCDRAMDevice.                                      *)
EXTENDS DRAMController

MCBanks == 1..2
MCTree == << {{1, 2}}, {{1, 2}}, {{1}, {2}} >>      \* one rank of two banks
MCTree2 == << {{1, 2}}, {{1}, {2}}, {{1}, {2}} >>   \* two ranks of one bank
MCRanks == << {1, 2} >>
MCRanks2 == << {1}, {2} >>

Reads == {"RD", "RDA"}
Writes == {"WR", "WRA"}
MCCommands == {"ACT", "PREpb", "PREab", "REFab"} \cup Reads \cup Writes
MCCycles == [c \in MCCommands |-> 1]

Cons(level, prevs, nexts, val, sibling) ==
    {[level |-> level, prev |-> p, next |-> n, val |-> val,
      window |-> 1, sibling |-> sibling, group |-> 0] : p \in prevs, n \in nexts}

MCTimingCons == UNION {
    Cons(1, Reads, Reads, 1, FALSE),             \* nBL
    Cons(1, Writes, Writes, 1, FALSE),
    Cons(2, Reads, Writes, 3, FALSE),            \* nCL + nBL + 2 - nCWL
    Cons(2, Writes, Reads, 4, FALSE),            \* nCWL + nBL + nWTRS
    Cons(2, Reads, Reads \cup Writes, 2, TRUE),  \* nBL + nCS
    Cons(2, Writes, Reads, 2, TRUE),             \* nCWL + nBL + nCS - nCL
    Cons(2, Reads, {"PREab"}, 1, FALSE),         \* nRTP
    Cons(2, Writes, {"PREab"}, 3, FALSE),        \* nCWL + nBL + nWR
    Cons(2, {"ACT"}, {"ACT"}, 1, FALSE),         \* nRRDS
    Cons(2, {"ACT"}, {"PREab"}, 3, FALSE),       \* nRAS
    Cons(2, {"PREab"}, {"ACT"}, 1, FALSE),       \* nRP
    Cons(2, {"ACT"}, {"REFab"}, 4, FALSE),       \* nRC
    Cons(2, {"PREpb", "PREab"}, {"REFab"}, 1, FALSE),
    Cons(2, {"RDA"}, {"REFab"}, 2, FALSE),       \* nRP + nRTP
    Cons(2, {"WRA"}, {"REFab"}, 4, FALSE),       \* nCWL + nBL + nWR + nRP
    Cons(2, {"REFab"}, {"ACT", "PREab"}, 2, FALSE),
    Cons(3, {"ACT"}, {"ACT"}, 4, FALSE),         \* nRC
    Cons(3, {"ACT"}, Reads \cup Writes, 2, FALSE),
    Cons(3, {"ACT"}, {"PREpb"}, 3, FALSE),
    Cons(3, {"PREpb"}, {"ACT"}, 1, FALSE),
    Cons(3, {"RD"}, {"PREpb"}, 1, FALSE),
    Cons(3, {"WR"}, {"PREpb"}, 3, FALSE),
    Cons(3, {"RDA"}, {"ACT"}, 2, FALSE),
    Cons(3, {"WRA"}, {"ACT"}, 4, FALSE) }

Addr(b, r, c) == [bank |-> b, row |-> r, col |-> c]
MCAddrs == {Addr(1, 1, 1), Addr(1, 2, 1), Addr(2, 1, 1)}
MCSameRow == {Addr(1, 1, 1), Addr(1, 1, 2), Addr(2, 1, 1)}
=============================================================================
