----------------------------- MODULE DRAMDevice -----------------------------
(***************************************************************************)
(* The device's timing engine against what a timing constraint means.  A    *)
(* controller issues commands at its own pace; "log" remembers them all     *)
(* with their ages, which the engine does not.                              *)
(***************************************************************************)
EXTENDS DRAMTiming

CONSTANTS
    Scopes,     \* the sets of banks that an address vector can select
    MaxLog      \* model bound: commands within the last Horizon cycles

ASSUME DeviceAssumption == Scopes \subseteq SUBSET Banks /\ MaxLog \in Nat

VARIABLES
    timing,     \* the nodes
    log         \* commands issued, oldest first: [cmd, scope, age]

vars == <<timing, log>>

Init == timing = TimingInit /\ log = <<>>

\* DRAMDevice::issue_command does not look at the timing: its caller did, or not.
Issue(cmd, scope) ==
    /\ Len(log) < MaxLog
    /\ timing' = TimingIssue(timing, cmd, scope)
    /\ log' = Append(log, [cmd |-> cmd, scope |-> scope, age |-> 0])

\* A command older than every constraint and every window no longer matters.
Tick ==
    LET aged == [i \in DOMAIN log |-> [log[i] EXCEPT !.age = @ + 1]]
        Recent(e) == e.age < Horizon + CommandCycles[e.cmd]
    IN  /\ timing' = TimingTick(timing)
        /\ log' = SelectSeq(aged, Recent)

Next == Tick \/ \E cmd \in Commands, scope \in Scopes : Issue(cmd, scope)

Spec == Init /\ [][Next]_vars

-----------------------------------------------------------------------------
(* Reference: what the constraints mean *)

\* The log entries that count in the window of constraint k at node n.
Counted(n, k) ==
    {i \in DOMAIN log :
        /\ Targets(n, log[i].scope)
        /\ IF k.group = 0
           THEN log[i].cmd = k.prev
           ELSE \E j \in ConsFrom(n, log[i].cmd) : j.group = k.group}

\* A shared window counts from the end of a command on the bus.
StampAge(i, k) ==
    log[i].age - (IF k.group = 0 THEN 0 ELSE CommandCycles[log[i].cmd] - 1)

\* A command is allowed when every constraint that ends in it is met by every
\* command of the log: for a window w, by the w-th last of its kind and all before.
Allowed(cmd, scope) ==
    \A k \in {j \in TimingCons : j.next = cmd} :
    \A n \in {m \in Nodes : m.level = k.level /\ Targets(m, scope)} :
        IF k.sibling
        THEN \A i \in DOMAIN log :
                log[i].cmd = k.prev /\ IsSibling(n, log[i].scope) => log[i].age >= k.val
        ELSE \A i \in Counted(n, k) :
                Cardinality({j \in Counted(n, k) : j > i}) >= k.window - 1
                    => StampAge(i, k) >= k.val

-----------------------------------------------------------------------------
(* Properties *)

\* The engine's clocks and short histories (node.cpp, update_timing and
\* check_timing) admit a command exactly when every constraint between it and
\* every earlier command, however long ago and wherever in the tree, is met.
TimingIsExact ==
    \A cmd \in Commands, scope \in Scopes :
        TimingReady(timing, cmd, scope) <=> Allowed(cmd, scope)
=============================================================================
