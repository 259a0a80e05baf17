--------------------------- MODULE DRAMController ---------------------------
(***************************************************************************)
(* The cycle-level memory controller of one channel: ControllerBase with    *)
(* the GenericDDR tick, the FRFCFS scheduler, the Open or ClosedCAP row     *)
(* policy, the AllBank refresh manager (or none) and a DDR device.          *)
(*                                                                          *)
(* Frontends call send() between ticks, a tick runs to its end.  Request    *)
(* ids, "done" and "stamp" are bookkeeping of the model: "done" counts the  *)
(* completion callbacks of each accepted request, and "stamp" orders        *)
(* arrivals as m_clk does without growing in idle cycles.  Statistics, which *)
(* steer nothing, are left out.                                             *)
(***************************************************************************)
EXTENDS DRAMTiming

CONSTANTS
    Addrs,                  \* addresses: [bank, row, col]
    Ranks,                  \* sequence of the nodes to refresh, as sets of banks
    ReadBufferSize, WriteBufferSize, PriorityBufferSize,
    HighMark, LowMark,      \* watermark * write_buffer_size, rounded down and up
    ReadLatency,            \* read_latency of the device
    RowPolicy,              \* "Open" or "ClosedCAP"
    Cap,                    \* accesses to a row before ClosedCAP closes it
    HasAP,                  \* the standard has RDA and WRA
    RefreshInterval,        \* nREFI; 0 for the NoRefresh manager
    ScatterInterval,        \* scatter_interval; 0 refreshes all ranks at once
    MaxReqs                 \* model bound: requests that frontends send

Access == {"RD", "WR", "RDA", "WRA"}
Closing == {"PREpb", "PREab", "RDA", "WRA"}

ASSUME ControllerAssumption ==
    /\ Banks \subseteq Nat /\ IsFiniteSet(Banks) /\ Banks # {}
    /\ \A a \in Addrs : a.bank \in Banks
    /\ Ranks \in Seq(SUBSET Banks)
    /\ ReadBufferSize \in Nat \ {0} /\ WriteBufferSize \in Nat \ {0}
    /\ PriorityBufferSize \in Nat
    /\ HighMark \in 0..WriteBufferSize /\ LowMark \in 0..WriteBufferSize
    /\ ReadLatency \in Nat \ {0}
    /\ RowPolicy \in {"Open", "ClosedCAP"} /\ Cap \in Nat /\ HasAP \in BOOLEAN
    /\ RefreshInterval \in Nat /\ ScatterInterval \in Nat
    /\ ScatterInterval * Len(Ranks) <= RefreshInterval
    /\ MaxReqs \in Nat
    /\ {"ACT", "REFab"} \cup Access \cup Closing \subseteq Commands

VARIABLES
    buf,            \* m_read_, m_write_, m_priority_ and m_active_buffer
    wrAddrs,        \* m_buffered_write_addrs
    activePerBank,  \* m_active_per_bank
    pending,        \* m_pending in order of insertion: [id, left]
    writeMode,      \* m_is_write_mode
    rows,           \* per bank, the rows of m_row_state; closed when empty
    timing,         \* the timing state of the device's nodes
    colAccesses,    \* m_col_accesses of ClosedCAP
    prepbInjected,  \* m_prepb_injected of ClosedCAP
    refreshIn,      \* per rank, cycles until its next refresh is due
    failed,         \* the refresh manager threw: the simulation is over
    sent, stamp, done

policyVars == <<colAccesses, prepbInjected>>
modelVars == <<sent, stamp, done>>
vars == <<buf, wrAddrs, activePerBank, pending, writeMode, rows, timing, policyVars,
          refreshIn, failed, modelVars>>

-----------------------------------------------------------------------------
(* Requests and buffers *)

Buffers == {"read", "write", "priority", "active"}

Size(b) == CASE b = "read" -> ReadBufferSize
             [] b = "write" -> WriteBufferSize
             [] b = "priority" -> PriorityBufferSize
             [] b = "active" -> Cardinality(Banks)

\* A read or write of a frontend; scope is the set of banks of its addr_vec.
External(id, type, a) ==
    [id |-> id, type |-> type, addr |-> a, row |-> a.row, scope |-> {a.bank},
     final |-> IF type = "Read" THEN "RD" ELSE "WR", arrive |-> stamp]

\* A maintenance request, which no frontend waits for.
Maintenance(cmd, scope) ==
    [id |-> 0, type |-> "Cmd", addr |-> 0, row |-> 0, scope |-> scope,
     final |-> cmd, arrive |-> 0]

\* buffer.remove(it)
Remove(s, i) == [j \in 1..(Len(s) - 1) |-> IF j < i THEN s[j] ELSE s[j + 1]]

-----------------------------------------------------------------------------
(* The device *)

\* Mutant: a row conflict is taken for a closed bank.
PreqIgnoresConflict(r) ==
    IF \A b \in r.scope : r.row \in rows[b] THEN r.final ELSE "ACT"

\* ACT::preq, which RD, WR, RDA and WRA share.
AccessPreq(r) ==
    IF \A b \in r.scope : rows[b] = {} THEN "ACT"
    ELSE IF \A b \in r.scope : r.row \in rows[b] THEN r.final ELSE "PREpb"

\* REFab::preq
RefreshPreq(r) == IF \A b \in r.scope : rows[b] = {} THEN "REFab" ELSE "PREab"

\* get_preq_command: the command that brings a request closer to its final one.
Preq(r) ==
    CASE r.final \in Access -> AccessPreq(r)
      [] r.final = "REFab" -> RefreshPreq(r)
      [] OTHER -> r.final

\* apply_action on every target bank.
RowsAfter(cmd, r) ==
    [b \in Banks |->
        IF b \notin r.scope THEN rows[b]
        ELSE IF cmd = "ACT" THEN rows[b] \cup {r.row}
        ELSE IF cmd \in Closing THEN {}
        ELSE rows[b]]

\* Mutant: the active requests are not consulted.
NeverClosesActive(cmd, r, active) == FALSE

\* would_close_active
WouldCloseActive(cmd, r, active) ==
    /\ cmd \in Closing
    /\ active # <<>>
    /\ \E b \in r.scope : activePerBank[b] > 0

-----------------------------------------------------------------------------
(* send() *)

\* AllBankRefresh::init: all ranks together, or one every ScatterInterval cycles.
RefreshInit ==
    [k \in DOMAIN Ranks |->
        IF ScatterInterval = 0 THEN RefreshInterval ELSE k * ScatterInterval]

Init ==
    /\ buf = [b \in Buffers |-> <<>>]
    /\ wrAddrs = {}
    /\ activePerBank = [b \in Banks |-> 0]
    /\ pending = <<>>
    /\ writeMode = FALSE
    /\ rows = [b \in Banks |-> {}]
    /\ timing = TimingInit
    /\ colAccesses = [b \in Banks |-> 0]
    /\ prepbInjected = [b \in Banks |-> FALSE]
    /\ refreshIn = RefreshInit
    /\ failed = FALSE
    /\ sent = 0 /\ stamp = 1 /\ done = [i \in 1..MaxReqs |-> 0]

Admit ==
    /\ ~ failed
    /\ sent < MaxReqs
    /\ sent' = sent + 1
    /\ UNCHANGED <<activePerBank, writeMode, rows, timing, policyVars, refreshIn, failed, stamp>>

\* A read of a buffered write's address is answered from the buffer.
SendForwarded(a) ==
    /\ Admit
    /\ a \in wrAddrs
    /\ pending' = Append(pending, [id |-> sent + 1, left |-> 1])
    /\ UNCHANGED <<buf, wrAddrs, done>>

\* A write to a buffered write's address is absorbed by it.
SendCoalesced(a) ==
    /\ Admit
    /\ a \in wrAddrs
    /\ done' = [done EXCEPT ![sent + 1] = @ + 1]
    /\ UNCHANGED <<buf, wrAddrs, pending>>

\* Anything else takes a slot; when there is none, send() returns false and
\* changes nothing.
SendEnqueued(type, a) ==
    LET b == IF type = "Read" THEN "read" ELSE "write" IN
    /\ Admit
    /\ a \notin wrAddrs
    /\ Len(buf[b]) < Size(b)
    /\ buf' = [buf EXCEPT ![b] = Append(@, External(sent + 1, type, a))]
    /\ wrAddrs' = IF type = "Write" THEN wrAddrs \cup {a} ELSE wrAddrs
    /\ UNCHANGED <<pending, done>>

Send ==
    \E a \in Addrs :
        \/ SendForwarded(a)
        \/ SendCoalesced(a)
        \/ \E type \in {"Read", "Write"} : SendEnqueued(type, a)

-----------------------------------------------------------------------------
(* tick(): prologue and hooks *)

\* The elements of a finite set of numbers in ascending order.
Ascending(S) ==
    [k \in 1..Cardinality(S) |-> CHOOSE x \in S : Cardinality({y \in S : y < x}) = k - 1]

\* serve_completed_reads: what departs in this cycle, and what is still pending.
Departing == {i \in DOMAIN pending : pending[i].left = 1}

StillPending ==
    LET Stays(p) == p.left > 1
        kept == SelectSeq(pending, Stays)
    IN  [i \in DOMAIN kept |-> [kept[i] EXCEPT !.left = @ - 1]]

DoneAfterReads ==
    [id \in 1..MaxReqs |-> done[id] + Cardinality({i \in Departing : pending[i].id = id})]

\* AllBankRefresh::tick, scattered or not: one request per rank that is due.
RefreshRequests ==
    LET due == Ascending({k \in DOMAIN Ranks : refreshIn[k] = 1})
    IN  [j \in DOMAIN due |-> Maintenance("REFab", Ranks[due[j]])]

\* Mutant: the next refresh is due a cycle later, not an interval later.
RefreshInStuck ==
    [k \in DOMAIN Ranks |-> IF refreshIn[k] <= 1 THEN 1 ELSE refreshIn[k] - 1]

RefreshInAfter ==
    [k \in DOMAIN Ranks |-> IF refreshIn[k] <= 1 THEN RefreshInterval ELSE refreshIn[k] - 1]

\* Mutant: a bank that has its PREpb queued gets another.
InjectedAgain(t, room) ==
    LET wants == {b \in Banks : /\ RowPolicy = "ClosedCAP"
                                /\ colAccesses[b] >= Cap
                                /\ TimingReady(t, "PREpb", {b})}
        order == Ascending(wants)
    IN  SubSeq(order, 1, IF Len(order) <= room THEN Len(order) ELSE room)

\* ClosedCAPRowPolicy::pre_schedule: the banks that get a PREpb, as far as the
\* priority buffer has room.
Injected(t, room) ==
    LET wants == {b \in Banks : /\ RowPolicy = "ClosedCAP"
                                /\ colAccesses[b] >= Cap
                                /\ ~ prepbInjected[b]
                                /\ TimingReady(t, "PREpb", {b})}
        order == Ascending(wants)
    IN  SubSeq(order, 1, IF Len(order) <= room THEN Len(order) ELSE room)

-----------------------------------------------------------------------------
(* tick(): choosing a request *)

\* get_best_request and the timing check on its answer: the oldest request
\* whose command is ready, the first in the buffer among equals.
ReadyIn(t, s) == {i \in DOMAIN s : TimingReady(t, Preq(s[i]), s[i].scope)}

Oldest(s, C) ==
    CHOOSE i \in C : \A j \in C :
        s[i].arrive < s[j].arrive \/ (s[i].arrive = s[j].arrive /\ i <= j)

\* Mutant: the head of the priority buffer waits until no request is active and
\* its final command is ready at once.
PriorityNeedsFinal(t, B) ==
    /\ B["priority"] # <<>>
    /\ LET r == B["priority"][1]
       IN  /\ TimingReady(t, Preq(r), r.scope)
           /\ Preq(r) = r.final
           /\ ~ WouldCloseActive(Preq(r), r, B["active"])

\* pick_priority_if: the head of the priority buffer, or nothing.
PriorityReady(t, B) ==
    /\ B["priority"] # <<>>
    /\ LET r == B["priority"][1]
       IN  /\ TimingReady(t, Preq(r), r.scope)
           /\ ~ WouldCloseActive(Preq(r), r, B["active"])

\* Mutant: no explicit end of the episode at an empty write buffer.
WriteModeWithoutTerminal(B) ==
    IF ~ writeMode
    THEN Len(B["write"]) > HighMark \/ B["read"] = <<>>
    ELSE ~ (Len(B["write"]) < LowMark /\ B["read"] # <<>>)

\* set_write_mode
WriteModeAfter(B) ==
    IF ~ writeMode
    THEN Len(B["write"]) > HighMark \/ B["read"] = <<>>
    ELSE ~ ((B["write"] = <<>> \/ Len(B["write"]) < LowMark) /\ B["read"] # <<>>)

\* pick_rw_if
EligibleIn(t, s, active) ==
    {i \in ReadyIn(t, s) : ~ WouldCloseActive(Preq(s[i]), s[i], active)}

-----------------------------------------------------------------------------
(* tick(): issuing the request's command *)

\* ClosedCAPRowPolicy::try_upgrade_command
Upgraded(t, r, cmd) ==
    IF RowPolicy = "ClosedCAP" /\ HasAP /\ \A b \in r.scope : colAccesses[b] >= Cap
    THEN CASE cmd = "RD" /\ TimingReady(t, "RDA", r.scope) -> "RDA"
           [] cmd = "WR" /\ TimingReady(t, "WRA", r.scope) -> "WRA"
           [] OTHER -> cmd
    ELSE cmd

\* ClosedCAPRowPolicy::on_issue; injected is m_prepb_injected after pre_schedule.
OnIssue(cmd, r, injected) ==
    /\ colAccesses' = [b \in Banks |->
            IF RowPolicy # "ClosedCAP" \/ b \notin r.scope THEN colAccesses[b]
            ELSE IF cmd \in Closing THEN 0
            ELSE IF cmd \in Access THEN colAccesses[b] + 1
            ELSE colAccesses[b]]
    /\ prepbInjected' = [b \in Banks |->
            IF cmd \in Closing /\ b \in r.scope THEN FALSE ELSE injected[b]]

CountActive(r, d) ==
    [b \in Banks |-> IF b \in r.scope THEN activePerBank[b] + d ELSE activePerBank[b]]

\* Mutant: the count goes down whatever buffer the request leaves.
RetireAlwaysCounts(B, s, i) ==
    LET r == B[s][i] IN
    /\ buf' = [B EXCEPT ![s] = Remove(@, i)]
    /\ activePerBank' = CountActive(r, -1)
    /\ wrAddrs' = IF s = "write" THEN wrAddrs \ {r.addr} ELSE wrAddrs
    /\ pending' = IF r.type = "Read"
                  THEN Append(StillPending, [id |-> r.id, left |-> ReadLatency])
                  ELSE StillPending
    /\ done' = IF r.type = "Write" THEN [DoneAfterReads EXCEPT ![r.id] = @ + 1]
                                   ELSE DoneAfterReads

\* Mutant: the count of active requests never goes down.
RetireWithoutCount(B, s, i) ==
    LET r == B[s][i] IN
    /\ buf' = [B EXCEPT ![s] = Remove(@, i)]
    /\ activePerBank' = activePerBank
    /\ wrAddrs' = IF s = "write" THEN wrAddrs \ {r.addr} ELSE wrAddrs
    /\ pending' = IF r.type = "Read"
                  THEN Append(StillPending, [id |-> r.id, left |-> ReadLatency])
                  ELSE StillPending
    /\ done' = IF r.type = "Write" THEN [DoneAfterReads EXCEPT ![r.id] = @ + 1]
                                   ELSE DoneAfterReads

\* retire_request: reads depart after the read latency, writes are called back.
Retire(B, s, i) ==
    LET r == B[s][i] IN
    /\ buf' = [B EXCEPT ![s] = Remove(@, i)]
    /\ activePerBank' = IF s = "active" THEN CountActive(r, -1) ELSE activePerBank
    /\ wrAddrs' = IF s = "write" THEN wrAddrs \ {r.addr} ELSE wrAddrs
    /\ pending' = IF r.type = "Read"
                  THEN Append(StillPending, [id |-> r.id, left |-> ReadLatency])
                  ELSE StillPending
    /\ done' = IF r.type = "Write" THEN [DoneAfterReads EXCEPT ![r.id] = @ + 1]
                                   ELSE DoneAfterReads

\* Mutant: the promoted request also stays in the buffer that it came from.
PromoteCopies(B, s, i) ==
    LET r == B[s][i]
        room == Len(B["active"]) < Size("active")
    IN
    /\ buf' = IF room THEN [B EXCEPT !["active"] = Append(@, r)] ELSE B
    /\ activePerBank' = IF room THEN CountActive(r, 1) ELSE activePerBank
    /\ wrAddrs' = IF room /\ s = "write" THEN wrAddrs \ {r.addr} ELSE wrAddrs
    /\ pending' = StillPending
    /\ done' = DoneAfterReads

\* Mutant: a promoted write keeps its address in m_buffered_write_addrs.
PromoteKeepsAddr(B, s, i) ==
    LET r == B[s][i]
        room == Len(B["active"]) < Size("active")
    IN
    /\ buf' = IF room
              THEN [[B EXCEPT !["active"] = Append(@, r)] EXCEPT ![s] = Remove(@, i)]
              ELSE B
    /\ activePerBank' = IF room THEN CountActive(r, 1) ELSE activePerBank
    /\ wrAddrs' = wrAddrs
    /\ pending' = StillPending
    /\ done' = DoneAfterReads

\* promote_to_active, unless the active buffer is full.
Promote(B, s, i) ==
    LET r == B[s][i]
        room == Len(B["active"]) < Size("active")
    IN
    /\ buf' = IF room
              THEN [[B EXCEPT !["active"] = Append(@, r)] EXCEPT ![s] = Remove(@, i)]
              ELSE B
    /\ activePerBank' = IF room THEN CountActive(r, 1) ELSE activePerBank
    /\ wrAddrs' = IF room /\ s = "write" THEN wrAddrs \ {r.addr} ELSE wrAddrs
    /\ pending' = StillPending
    /\ done' = DoneAfterReads

\* A command on the way, such as a precharge: the request stays where it is.
Keep(B) ==
    /\ buf' = B
    /\ pending' = StillPending
    /\ done' = DoneAfterReads
    /\ UNCHANGED <<activePerBank, wrAddrs>>

Issue(t, B, s, i, injected) ==
    LET r == B[s][i]
        cmd == Upgraded(t, r, Preq(r))
        final == IF cmd \in {"RDA", "WRA"} THEN cmd ELSE r.final
    IN
    /\ timing' = TimingIssue(t, cmd, r.scope)
    /\ rows' = RowsAfter(cmd, r)
    /\ OnIssue(cmd, r, injected)
    /\ \/ cmd = final /\ Retire(B, s, i)
       \/ cmd # final /\ cmd = "ACT" /\ Promote(B, s, i)
       \/ cmd # final /\ cmd # "ACT" /\ Keep(B)

\* No candidate: the cycle only passes.
IssueNothing(t, B, injected) ==
    /\ timing' = t
    /\ prepbInjected' = injected
    /\ Keep(B)
    /\ UNCHANGED <<rows, colAccesses>>

-----------------------------------------------------------------------------
(* tick() *)

\* Active requests first, then the priority buffer, whose head blocks the reads
\* and writes behind it even while it cannot be issued.
Schedule(t, B, injected) ==
    LET ready == ReadyIn(t, B["active"])
        mode == WriteModeAfter(B)
        queue == IF mode THEN "write" ELSE "read"
        eligible == EligibleIn(t, B[queue], B["active"])
    IN
    \/ /\ ready # {}
       /\ Issue(t, B, "active", Oldest(B["active"], ready), injected)
       /\ UNCHANGED writeMode
    \/ /\ ready = {}
       /\ PriorityReady(t, B)
       /\ Issue(t, B, "priority", 1, injected)
       /\ UNCHANGED writeMode
    \/ /\ ready = {}
       /\ ~ PriorityReady(t, B)
       /\ B["priority"] # <<>>
       /\ IssueNothing(t, B, injected)
       /\ UNCHANGED writeMode
    \/ /\ ready = {}
       /\ B["priority"] = <<>>
       /\ writeMode' = mode
       /\ \/ eligible # {} /\ Issue(t, B, queue, Oldest(B[queue], eligible), injected)
          \/ eligible = {} /\ IssueNothing(t, B, injected)

\* priority_send refuses a refresh request: send_refresh throws, after the
\* prologue and the requests that still fitted.
TickThrows ==
    /\ ~ failed
    /\ Len(buf["priority"]) + Len(RefreshRequests) > PriorityBufferSize
    /\ failed' = TRUE
    /\ Keep([buf EXCEPT !["priority"] = SubSeq(@ \o RefreshRequests, 1, PriorityBufferSize)])
    /\ UNCHANGED <<writeMode, rows, timing, policyVars, refreshIn, sent, stamp>>

Tick ==
    LET t == TimingTick(timing)
        refreshed == buf["priority"] \o RefreshRequests
        inject == Injected(t, PriorityBufferSize - Len(refreshed))
        closes == [j \in DOMAIN inject |-> Maintenance("PREpb", {inject[j]})]
        injected == [b \in Banks |-> prepbInjected[b] \/ \E j \in DOMAIN inject : inject[j] = b]
    IN
    /\ ~ failed
    /\ Len(refreshed) <= PriorityBufferSize
    /\ Schedule(t, [buf EXCEPT !["priority"] = refreshed \o closes], injected)
    /\ refreshIn' = RefreshInAfter
    /\ stamp' = IF \E b \in {"read", "write"} : \E i \in DOMAIN buf[b] : buf[b][i].arrive = stamp
                THEN stamp + 1 ELSE stamp
    /\ UNCHANGED <<failed, sent>>

Next == Send \/ Tick \/ TickThrows

Spec == Init /\ [][Next]_vars

\* The memory system ticks its controllers for as long as the simulation runs,
\* and with a refresh manager every tick, and nothing else, moves refreshIn.
FairSpec == Spec /\ ([]<>failed \/ []<><<refreshIn' # refreshIn>>_vars)

-----------------------------------------------------------------------------
(* Properties *)

ExternalReq ==
    [id : 1..MaxReqs, type : {"Read", "Write"}, addr : Addrs, row : {a.row : a \in Addrs},
     scope : {{b} : b \in Banks}, final : {"RD", "WR"}, arrive : Nat]

MaintenanceReq ==
    [id : {0}, type : {"Cmd"}, addr : {0}, row : {0}, scope : SUBSET Banks,
     final : {"PREpb", "REFab"}, arrive : {0}]

\* The types of the state; no buffer outgrows its max_size and no count of active
\* requests drops below zero.
TypeOK ==
    /\ DOMAIN buf = Buffers
    /\ \A b \in {"read", "write", "active"} : buf[b] \in Seq(ExternalReq)
    /\ buf["priority"] \in Seq(MaintenanceReq)
    /\ \A b \in Buffers : Len(buf[b]) <= Size(b)
    /\ wrAddrs \subseteq Addrs
    /\ activePerBank \in [Banks -> Nat]
    /\ pending \in Seq([id : 1..MaxReqs, left : 1..ReadLatency])
    /\ writeMode \in BOOLEAN
    /\ rows \in [Banks -> SUBSET {a.row : a \in Addrs}]
    /\ colAccesses \in [Banks -> Nat] /\ prepbInjected \in [Banks -> BOOLEAN]
    /\ refreshIn \in [DOMAIN Ranks -> 0..RefreshInterval]
    /\ failed \in BOOLEAN
    /\ sent \in 0..MaxReqs /\ stamp \in Nat /\ done \in [1..MaxReqs -> Nat]

\* The places in which an accepted request can be.
Held(id) ==
    UNION {{<<b, i>> : i \in {j \in DOMAIN buf[b] : buf[b][j].id = id}} : b \in Buffers}
Pending(id) == {i \in DOMAIN pending : pending[i].id = id}

\* Every accepted request is in exactly one place, or was completed exactly once:
\* forwarding, coalescing, promotion and retirement neither lose nor repeat one.
NoRequestLost ==
    \A id \in 1..sent : Cardinality(Held(id)) + Cardinality(Pending(id)) + done[id] = 1

\* m_buffered_write_addrs is the set of addresses in the write buffer, and no two
\* buffered writes share one: erasing an address on retirement or promotion
\* cannot hide another write from forwarding.
WriteAddrsExact ==
    /\ wrAddrs = {buf["write"][i].addr : i \in DOMAIN buf["write"]}
    /\ \A i, j \in DOMAIN buf["write"] : buf["write"][i].addr = buf["write"][j].addr => i = j

ActiveIn(b) == {i \in DOMAIN buf["active"] : b \in buf["active"][i].scope}

\* "Per flat-bank count of requests in m_active_buffer" (controller_base.h): the
\* count that would_close_active trusts is the number of active requests.
ActiveCountExact ==
    \A b \in Banks : activePerBank[b] = Cardinality(ActiveIn(b))

\* "One request per bank at most" (controller_base.cpp, init_base).
OneActivePerBank ==
    \A b \in Banks : Cardinality(ActiveIn(b)) <= 1

\* An activation is never wasted: the row that a request had opened stays open
\* until that request is served, whatever refreshes, row closings and conflicting
\* requests compete for the bank.
ActiveRowOpen ==
    \A i \in DOMAIN buf["active"] :
        \A b \in buf["active"][i].scope : rows[b] = {buf["active"][i].row}

\* The refresh manager never finds the priority buffer full (send_refresh throws).
RefreshAccepted == ~ failed

\* ClosedCAP never has two precharges of a bank queued, although a refresh or an
\* auto-precharge clears m_prepb_injected while the injected PREpb still waits.
OnePrechargePerBank ==
    \A i, j \in DOMAIN buf["priority"] :
        /\ buf["priority"][i].final = "PREpb"
        /\ buf["priority"][j] = buf["priority"][i]
        => i = j

\* Every accepted request is answered, however the other requests, the refreshes
\* and the row conflicts interleave with it, and at a low watermark of 0 too.
EveryRequestCompletes ==
    \A id \in 1..MaxReqs : (sent >= id) ~> (done[id] = 1)

\* Maintenance is not starved: the priority buffer is empty again and again.
MaintenanceCompletes == []<>(buf["priority"] = <<>>)
=============================================================================
