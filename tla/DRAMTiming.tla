----------------------------- MODULE DRAMTiming -----------------------------
(***************************************************************************)
(* The timing engine of the DRAM device (dram/node.cpp): for every node of  *)
(* the channel/rank/bank-group/bank tree, when each command may be issued.  *)
(*                                                                          *)
(* Clocks are kept relative to the current cycle: "wait" is                 *)
(* m_cmd_ready_clk - clk, never below 0, and an "age" is clk - stamp for a  *)
(* stamp of m_cmd_history, never above Horizon, where no constraint binds.  *)
(* An address vector is the set of the banks that it selects.               *)
(***************************************************************************)
EXTENDS Integers, Sequences, FiniteSets

CONSTANTS
    Banks,          \* flat bank ids
    Tree,           \* per level, the partition of Banks into its nodes
    Commands,       \* the commands of the DRAM standard
    CommandCycles,  \* cycles each command takes on the command bus
    TimingCons      \* the constraints of the standard, see Constraint

\* TimingConsEntry; group 0 stands for history_group -1.
Constraint == [level : 1..Len(Tree), prev : Commands, next : Commands, val : Nat,
               window : Nat \ {0}, sibling : BOOLEAN, group : Nat]

ASSUME TimingAssumption ==
    /\ \A l \in 1..Len(Tree) : UNION Tree[l] = Banks
    /\ CommandCycles \in [Commands -> Nat \ {0}]
    /\ TimingCons \subseteq Constraint

-----------------------------------------------------------------------------
(* The tree *)

Nodes == UNION {{[level |-> l, banks |-> B] : B \in Tree[l]} : l \in 1..Len(Tree)}

Groups == {k.group : k \in TimingCons} \ {0}

\* The node lies on the address's path, or under a wildcard of it.
Targets(n, scope) == n.banks \cap scope # {}

\* The node does not, but its parent does.
IsSibling(n, scope) ==
    /\ ~ Targets(n, scope)
    /\ \E p \in Nodes : p.level = n.level - 1 /\ n.banks \subseteq p.banks /\ Targets(p, scope)

MaxOf(S) == CHOOSE x \in S : \A y \in S : x >= y

\* A stamp of this age binds no constraint any more.
Horizon == MaxOf({0} \cup {k.val : k \in TimingCons})

-----------------------------------------------------------------------------
(* The state of the nodes *)

\* timing_cons[level][cmd]
TimingConsTable ==
    [l \in 1..Len(Tree) |-> [c \in Commands |-> {k \in TimingCons : k.level = l /\ k.prev = c}]]

ConsFrom(n, cmd) == TimingConsTable[n.level][cmd]

\* How long a history a node keeps of a command, and of a shared window: one
\* less than the window, because the oldest stamp is popped before it is read.
HistoryLength(n, cmd) == MaxOf({1} \cup {k.window : k \in ConsFrom(n, cmd)}) - 1

GroupLength(n, g) ==
    MaxOf({1} \cup {k.window : k \in {j \in TimingCons : j.level = n.level /\ j.group = g}}) - 1

TimingInit ==
    [wait |-> [n \in Nodes |-> [c \in Commands |-> 0]],
     age |-> [n \in Nodes |-> [c \in Commands |-> [i \in 1..HistoryLength(n, c) |-> Horizon]]],
     shared |-> [n \in Nodes |-> [g \in Groups |-> [i \in 1..GroupLength(n, g) |-> Horizon]]]]

Earlier(wait) == IF wait > 0 THEN wait - 1 ELSE 0
Older(age) == IF age < Horizon THEN age + 1 ELSE Horizon

\* One cycle passes.
TimingTick(t) ==
    [wait |-> [n \in Nodes |-> [c \in Commands |-> Earlier(t.wait[n][c])]],
     age |-> [n \in Nodes |-> [c \in Commands |->
                [i \in DOMAIN t.age[n][c] |-> Older(t.age[n][c][i])]]],
     shared |-> [n \in Nodes |-> [g \in Groups |->
                [i \in DOMAIN t.shared[n][g] |-> Older(t.shared[n][g][i])]]]]

\* Mutant: the stamp of an issue is not recorded.
PushNothing(history, age) == history

\* push_front, pop_back
Push(history, age) ==
    [i \in DOMAIN history |-> IF i = 1 THEN age ELSE history[i - 1]]

\* update_timing: histories first, then the ready clocks, node by node.
TimingIssue(t, cmd, scope) ==
    LET stamp == 1 - CommandCycles[cmd]
        Past(n, k) ==
            CASE k.group = 0 /\ k.window = 1 -> 0
              [] k.group = 0 /\ k.window > 1 -> t.age[n][cmd][k.window - 1]
              [] k.group # 0 /\ k.window = 1 -> stamp
              [] k.group # 0 /\ k.window > 1 -> t.shared[n][k.group][k.window - 1]
        \* The constraints between cmd and later commands that bind at node n.
        Binding(n) ==
            CASE Targets(n, scope) -> {k \in ConsFrom(n, cmd) : ~ k.sibling}
              [] IsSibling(n, scope) -> {k \in ConsFrom(n, cmd) : k.sibling}
              [] OTHER -> {}
        Wait(n, k) == IF k.sibling THEN k.val ELSE k.val - Past(n, k)
    IN  [wait |-> [n \in Nodes |->
            LET binding == Binding(n)
            IN  [c \in Commands |->
                    MaxOf({t.wait[n][c]} \cup {Wait(n, k) : k \in {j \in binding : j.next = c}})]],
         age |-> [n \in Nodes |->
            IF Targets(n, scope) THEN [t.age[n] EXCEPT ![cmd] = Push(@, 0)] ELSE t.age[n]],
         shared |-> [n \in Nodes |-> [g \in Groups |->
            IF Targets(n, scope) /\ \E k \in ConsFrom(n, cmd) : k.group = g
            THEN Push(t.shared[n][g], stamp)
            ELSE t.shared[n][g]]]]

\* check_timing: every node on the path, and every node under a wildcard.
TimingReady(t, cmd, scope) ==
    \A n \in Nodes : Targets(n, scope) => t.wait[n][cmd] = 0
=============================================================================
