# A TLA+ development of Ramulator and its research loop

The repository holds two programs. **Ramulator** (`src/ramulator/`, C++) is a
cycle-level DRAM simulator: frontends send reads and writes to a memory system,
whose controllers turn them into DRAM commands under the timing rules of a
standard. **chia-loop** (`src/chia-loop/`, Python) runs long research campaigns
that propose, build and measure controller models with the simulator; a campaign
survives crashes because every costly step goes through a durable journal.

This development models the part of each that carries the rest: the campaign
journal, the DRAM timing engine, and the cycle-level controller.

## Parts of the system

| Part | Source | State | Operations | What makes it hard | Module |
|---|---|---|---|---|---|
| Campaign journal | `framework/records.py` | tables `attempts`, `records` | `step`, `save`, three operator amendments | crashes between two SQL statements, retries, cooldowns, replies that the journal never saw | `CampaignState` |
| Campaign lease | `recovery.py` | `flock` | `exclusive_lock` | several processes, death releases the lock | `CampaignState` |
| Timing engine | `dram/node.cpp`, `dram_spec.*` | ready clocks and short command histories per node | `update_timing`, `check_timing` | windows, siblings, wildcards, shared windows | `DRAMTiming`, `DRAMDevice` |
| DRAM device | `dram/device.*`, `dram/commands/` | open rows per bank | `get_preq_command`, `issue_command` | commands with several target banks | `DRAMController` |
| Controller | `controller/controller_base.*`, `impl/generic_ddr_controller.cpp` | four buffers, write-address set, per-bank counts, pending reads, write mode | `send`, `priority_send`, `tick` | refresh, row conflicts, write episodes and active requests wait for each other; derived state beside the buffers | `DRAMController` |
| Scheduler, row policies, all-bank refresh | `scheduler/impl/frfcfs.cpp`, `rowpolicy/impl/`, `refresh/impl/all_bank.cpp` | access counters, precharge flags, refresh deadlines | hooks of `tick` | a command is changed after it was checked; a shared bounded buffer | `DRAMController` |
| Simulation loop, memory system | `base/simulation.cpp`, `memory_system/` | two clock counters | interleave, skip idle stretches | arithmetic on two periods | planned |
| SimpleO3 frontend | `frontend/impl/processor/simpleO3/` | cache sets, miss entries, latency queues, windows | `tick`, `send`, `receive` | evictions and merged misses between a miss and its answer | planned |
| Campaign workflow | `framework/campaign.py`, `review.py` | the journal | iterations, stages, selection | must recompute the same steps after a restart | planned |
| Archive, rate limit | `framework/archive.py`, `rate_limit.py` | files; deadlines | seal; retry | crash between link and receipt; server's cooldown | planned |

`PROJECT.json` lists these and the remaining parts with the reason when a part is
not modelled, and the hazards of the code line by line. A frontend calls `send`
between ticks; the controller asks its refresh manager and its row policy for
maintenance, the scheduler for a candidate, the device for the next command and
its timing. The workflow calls the journal; one journal step stands for a whole
model turn, build or measurement.

## The modules

### CampaignState

A *worker* is a process, either a driver or an operator's tool. `attempts` and
`records` are the SQLite tables; `lease` is the `flock`; `pc` and `call` are the
locals of the method that a worker is in, and are lost with the process. Every SQL
statement is a step: `Query*` is the `SELECT` and the decisions on it, `Insert`
the `'started'` row, `Action*` the outcome of the action (a reply, a
`TransientFailure`, any other exception), `Write*` the closing `UPDATE`.
`ReconcileSave`/`ReconcileUpdate`, `ContinuationSave`/`ContinuationUpdate` and
`RetryExtension` are the operator's amendments. `Crash` may happen anywhere.

`world` holds the replies that really were produced, which is what the journal
tries to know; `returned` what callers were given. Both are ghost state.
Wall-clock time is the `error` of a failed row passing from `"cooling"` to
`"retry"` (`CooldownEnds`). An operator reconciles only
with a reply that the attempt really produced: the code leaves that verification
to its caller ("The caller must hold the campaign lease and verify its evidence
first"). A continuation needs no such thing, and is the one way past a reply that
is not used.

### DRAMTiming and DRAMDevice

`DRAMTiming` is the engine as operators on a timing state: `TimingIssue`
(`update_timing`), `TimingReady` (`check_timing`), `TimingTick` (the clock). The
state is relative to the current cycle: `wait` is how far a ready clock lies
ahead, an `age` how long ago a stamp was taken, both cut off where no constraint
can tell a difference, which makes the state space finite without a bound on
time. An address vector, with its `-1` wildcards, is the set of banks it selects.
The initial stamps of `-1`, which the code skips, are ages of `Horizon`, which
give no wait. A history keeps one stamp less than its window since the oldest
is popped before any is read.

`DRAMDevice` adds a log of all commands and a reference definition (`Allowed`)
of what the constraints mean over that log.

### DRAMController

One module for a controller with its scheduler, row policy, refresh manager and
device, since a tick calls through all of them and is atomic. `Send*` are the
outcomes of `send` that change state: a read answered from the write buffer, a
write absorbed by a buffered one, a request enqueued. A refused send changes
nothing. `Tick` follows `GenericDDRController::tick`: pending reads depart, due
refreshes and row closings enter the priority buffer, then `Schedule` picks from
the active buffer, the priority buffer, or the read or write buffer, and `Issue`
upgrades the command, updates timing, rows and policy, and retires, promotes or
keeps the request. `TickThrows` is the exception of `send_refresh`.

Rows, columns and banks are small numbers. `arrive` is a counter that moves only
when a request took the current value, so it orders requests as `m_clk` does and
stays bounded. `refreshIn` counts down to `m_next_refresh_cycle`. Ghost state:
request ids, `sent`, and `done`, which counts the completion callbacks.
`RefreshInterval = 0` is the NoRefresh manager. Statistics and plugins are left
out.

## Model-checking runs

| Run | Configuration | Checks | Distinct states |
|---|---|---|---|
| `campaign_turn` | two processes, one step that must not be repeated, two inputs, results and pieces of evidence, 2 attempts and one extension | `TypeOK`, `NoSilentRepeat`, `ResultIsAuthentic`, `StableResult`, `AttemptBudget`, `CompletedIsFinal` | 696,120 |
| `campaign_measurement` | the same with a repeatable step and fairness | `StableResult`, `StepTerminates` | 63,489 |
| `dram_device` | three banks in two ranks, every kind of constraint, three commands within a horizon | `TimingIsExact` | 42,853 |
| `controller_open` | Open policy, refresh, one priority slot | `TypeOK`, `NoRequestLost`, `WriteAddrsExact`, `ActiveCountExact`, `OneActivePerBank`, `ActiveRowOpen`, `RefreshAccepted` | 133,569 |
| `controller_live` | as above, low watermark 0, fairness | `EveryRequestCompletes`, `MaintenanceCompletes` | 159,046 |
| `controller_reactivate` | ClosedCAP with auto-precharge, two columns of a row | `NoRequestLost`, `OnePrechargePerBank` | 106,118 |
| `controller_closed` | ClosedCAP, two ranks refreshed apart | `RefreshAccepted` | 113,218 |
| `controller_full` | the same with one priority slot, where the exception happens | `NoRequestLost` | 100,810 |
| `controller_upgrade` | as `controller_reactivate` | `ActiveCountExact`, violated | |

What they show:

- **Journal.** A reply that was produced is never followed by another attempt of
  a non-repeatable step unless an operator recorded a continuation; a completed
  row holds its own attempt's reply and is final; all callers get one result; the
  attempt limit holds across restarts; every call of `step` ends.
- **Timing.** The engine's clocks and bounded histories allow a command exactly
  when the whole history does: neither too early nor held back.
- **Controller.** No request is lost or completed twice. The forwarding set and
  the per-bank counts agree with the buffers they are derived from. A row that was
  opened for a request stays open until it is served. Requests and refreshes do
  not starve each other. A refresh finds room when the priority buffer has a slot
  per rank and per bank.
- **A disagreement** (`controller_upgrade`, in `findings`). `try_upgrade_command`
  replaces a checked `RD`/`WR` by one that also closes the bank, and does not ask
  `would_close_active`. An active request of that bank, for example a read that
  waits for the write-to-read turnaround while writes to its row are served, loses
  its row, is activated again and is counted again: `m_active_per_bank` is no
  longer the "count of requests in m_active_buffer". The request is still served
  once (`controller_reactivate`).

### Bounds

Two processes suffice for every race on a lease that one process holds, and
`RowBound = 3` is one attempt past the configured maximum, so that extensions
matter. `MaxLog = 3` commands within one horizon fill a window of two and leave
one outside it. `MaxReqs = 3` or `4` requests fill a buffer of two, leave one
active and one refused, and contain a row hit, a row conflict and a second bank;
two rows of one bank conflict, two columns of one row make an upgrade harmful.
Timings are the smallest that keep each kind of delay (`MCDRAMController`), and
the refresh interval lies just above the longest chain of delays, so a refresh
meets every stage of a request. `HighMark` and `LowMark` are the products of
watermark and buffer size, rounded so that the integer comparison is the code's.

### Fairness

`campaign_measurement`: weak fairness of the steps inside `step` (the process
runs, its action returns or raises) and of time. Nothing makes a process enter,
leave or crash. `controller_live`: the controller is ticked for ever, as the
memory system does while a simulation runs. It is stated on `refreshIn`, which
every tick changes and nothing else does. Frontends need not send.

Deadlock is checked in all runs but `controller_full`, where the exception ends
the simulation.

## Proofs

`CampaignState_proofs` proves, for any number of processes, steps, inputs,
results and attempts, all safety properties of the journal: `TypeCorrect`,
`NeverSilentlyRepeated`, `CompletedIsAuthentic`, `OneResultPerStep`,
`BudgetKept`, `CompletedForGood`. None is inductive alone. The invariant `IInv`
adds that a worker inside the campaign holds the lease, so what it read is still
so when it writes; that only the last row may be complete and earlier rows of a
non-repeatable step are failed; that a reply of a failed row has its continuation
on record; and what each worker knows between two of its statements (`CallInv`).

`DRAMController_proofs` proves, for all buffer sizes, addresses, timing tables,
refresh schedules and policies, `WriteAddrsAlwaysExact`; and, under `NoUpgrade`
(the row policy does not turn accesses into auto-precharges, which the finding
shows to be necessary), `ActiveCountAlwaysExact`, `AlwaysOneActivePerBank` and
`ActiveRowAlwaysOpen`. The three need each other: the count is exact, so
`would_close_active` protects the row; the row stays open, so an active request is
never activated again and no other request of its bank is; so a bank never has
two, and the count stays exact. `Holding` is that conjunction for one active
buffer, `Exact` the one for the write buffer; lemmas show what appending to and
removing from a buffer does to each, then `Issue`, `Schedule`, `Tick` and `Send`
are composed from them. Timing never enters: the result does not depend on it.

The assumptions are the named `ASSUME`s of the modules (sizes are positive,
addresses lie in banks, and the like), which TLC evaluates in every run.

Only model-checked: liveness; the controller's `TypeOK`, `NoRequestLost`,
`RefreshAccepted` and `OnePrechargePerBank`; and `TimingIsExact`.

## Mutants

The definitions commented *Mutant* are the code's with a plausible mistake, such
as a counter that is not decremented, a guard left out, or a state overwritten.
`PROJECT.json` says which definition each replaces and which property then fails.

## Not modelled

Statistics, logging and formatting; parsing of configurations; the tables of the
DRAM standards (DDR4's constraints appear with small values); controllers of
other standards; plugins; address mapping; model services and file trees inside a
journal step. Data values are not modelled, so the order of a read and a write to
one address is not stated. Frontends are arbitrary senders of a bounded number of
requests, so starvation under an endless load is not addressed.

## Plan

1. `SimulationLoop`: the interleaving of two clocks and the skipping of idle
   stretches (`base/simulation.cpp`) as a refinement of the loop that skips
   nothing, with the contract of `idle_ticks`/`fast_forward` as implemented by
   the fixed-latency and atomic controllers. A proof of the refinement's step.
2. `SimpleO3LLC`: sets, miss entries, latency queues, evictions, sub-requests;
   then its composition with an abstract memory that answers in any order.
   Runs: every logical request is answered once; a completion finds its miss.
3. `CampaignWorkflow` over an abstract journal (a step has one result), and
   `CampaignState` shown to implement that journal.
4. `CampaignArchive` (seal, crash, seal again) and the rate-limit loop.
5. Controller: per-bank refresh, the row-hit scheduler, a plugin that sends
   maintenance, and values per address for the order of reads and writes.
6. Proofs: `NoRequestLost` and `OnePrechargePerBank` of the controller, and
   the steps of the refinements in 1 and 3.
