---------------------------- MODULE CampaignState ----------------------------
(***************************************************************************)
(* The durable step journal of a research campaign                          *)
(* (chia-loop/src/ramulator_chia/framework/records.py) under the campaign   *)
(* lease (recovery.py, exclusive_lock).                                     *)
(*                                                                          *)
(* A worker is one process: a driver that runs steps, or an operator tool   *)
(* that amends them.  The SQLite tables survive a crash; a worker's locals  *)
(* (pc, call) and its flock do not.  Every SQL statement is one atomic      *)
(* step and a worker may crash between any two of them.                     *)
(*                                                                          *)
(* world is what the outside saw: the replies that the provider or a tool   *)
(* really produced, whether or not the journal learned of them.             *)
(***************************************************************************)
EXTENDS Naturals, Sequences, FiniteSets

CONSTANTS
    Workers,            \* processes that may take the campaign lease
    Keys,               \* step keys
    Repeatable,         \* keys whose step passes repeat_after_interruption=True
    Inputs,             \* digests of step inputs
    Results,            \* canonical results an action may return
    Evidence,           \* evidence an operator may attach to an amendment
    MaximumAttempts,    \* run.maximum_attempts
    RowBound,           \* model bound: no extension is granted past this attempt
    NoWorker, NoResult

ASSUME ConstantsAssumption ==
    /\ Workers # {} /\ Keys # {} /\ Inputs # {}
    /\ Repeatable \subseteq Keys
    /\ MaximumAttempts \in Nat \ {0}
    /\ RowBound \in Nat /\ MaximumAttempts <= RowBound
    /\ NoWorker \notin Workers
    /\ NoResult \notin Results

VARIABLES
    attempts,   \* table attempts: per step, its rows in order of "number"
    records,    \* table records, restricted to the operator amendments
    lease,      \* the holder of campaign.lock
    pc,         \* where each worker is inside CampaignState
    call,       \* the locals of each worker's current call
    world,      \* replies that really happened: [key, number, result]
    returned    \* <<key, result>> pairs that step() has handed to a caller

vars == <<attempts, records, lease, pc, call, world, returned>>

-----------------------------------------------------------------------------
(* Rows and records *)

Row == [input : Inputs,
        status : {"started", "complete", "failed"},
        result : Results \cup {NoResult},
        error : {"none", "traceback", "cooling", "retry"}]
\* error = "cooling": a retry_not_before in the future; "retry": one in the past.

Record == [kind : {"recovery", "continuation", "retry-extension"},
           key : Keys, number : Nat, value : Evidence]

Locals == [key : Keys, input : Inputs, maximum : Nat, number : Nat,
           result : Results \cup {NoResult}]

NoCall == [key |-> CHOOSE k \in Keys : TRUE, input |-> CHOOSE i \in Inputs : TRUE,
           maximum |-> 0, number |-> 0, result |-> NoResult]

Previous(k) == attempts[k][Len(attempts[k])]

Saved(kind, k, n) == \E r \in records : r.kind = kind /\ r.key = k /\ r.number = n

\* CampaignState.save: INSERT OR IGNORE, then compare with what is stored.
SaveConflicts(kind, k, n, value) ==
    \E r \in records : r.kind = kind /\ r.key = k /\ r.number = n /\ r.value # value

SaveRecord(kind, k, n, value) ==
    /\ ~ SaveConflicts(kind, k, n, value)
    /\ records' = records \cup {[kind |-> kind, key |-> k, number |-> n, value |-> value]}

\* UPDATE attempts SET ... WHERE step = k AND number = n
UpdateRow(k, n, row) == attempts' = [attempts EXCEPT ![k] = [@ EXCEPT ![n] = row]]

Max2(a, b) == IF a >= b THEN a ELSE b

-----------------------------------------------------------------------------
(* The campaign lease *)

Init ==
    /\ attempts = [k \in Keys |-> <<>>]
    /\ records = {}
    /\ lease = NoWorker
    /\ pc = [w \in Workers |-> "out"]
    /\ call = [w \in Workers |-> NoCall]
    /\ world = {}
    /\ returned = {}

\* Mutant: no lease, a second worker enters.
AcquireWithoutLease(w) ==
    /\ pc[w] = "out"
    /\ lease' = w
    /\ pc' = [pc EXCEPT ![w] = "idle"]
    /\ UNCHANGED <<attempts, records, call, world, returned>>

\* exclusive_lock: flock(LOCK_EX | LOCK_NB); a busy lease raises OperationalPause,
\* which leaves the worker outside.
Acquire(w) ==
    /\ pc[w] = "out"
    /\ lease = NoWorker
    /\ lease' = w
    /\ pc' = [pc EXCEPT ![w] = "idle"]
    /\ UNCHANGED <<attempts, records, call, world, returned>>

\* Leaving the "with" block, normally or by an exception that no caller handles.
Leave(w) ==
    /\ lease' = NoWorker
    /\ pc' = [pc EXCEPT ![w] = "out"]
    /\ call' = [call EXCEPT ![w] = NoCall]

Release(w) ==
    /\ pc[w] = "idle"
    /\ Leave(w)
    /\ UNCHANGED <<attempts, records, world, returned>>

\* The process dies: the kernel drops its flock, the tables stay.
Crash(w) ==
    /\ pc[w] # "out"
    /\ Leave(w)
    /\ UNCHANGED <<attempts, records, world, returned>>

\* Mutant: the deadline is counted from the time of each look, and never passes.
CooldownRestarts(k) ==
    /\ attempts[k] # <<>>
    /\ Previous(k).error = "cooling"
    /\ UNCHANGED vars

\* Wall-clock time passes a retry_not_before.
CooldownEnds(k) ==
    /\ attempts[k] # <<>>
    /\ Previous(k).error = "cooling"
    /\ UpdateRow(k, Len(attempts[k]), [Previous(k) EXCEPT !.error = "retry"])
    /\ UNCHANGED <<records, lease, pc, call, world, returned>>

-----------------------------------------------------------------------------
(* step(): one turn of its loop is Query*, Insert, the action, one Write *)

Step(w, k, input) ==
    /\ pc[w] = "idle"
    /\ pc' = [pc EXCEPT ![w] = "query"]
    /\ call' = [call EXCEPT ![w] = [NoCall EXCEPT !.key = k, !.input = input,
                                                  !.maximum = MaximumAttempts]]
    /\ UNCHANGED <<attempts, records, lease, world, returned>>

InputsChanged(w) ==
    \E n \in 1..Len(attempts[call[w].key]) :
        attempts[call[w].key][n].input # call[w].input

\* Mutant: an extension counts for every later attempt, not for the next one.
ExtendedForGood(w) ==
    LET k == call[w].key
        n == Len(attempts[k])
    IN  IF \E m \in 1..n : Saved("retry-extension", k, m)
        THEN Max2(call[w].maximum, n + 1)
        ELSE call[w].maximum

\* maximum_attempts after a retry extension for the previous attempt is applied;
\* the local keeps the raised value for the rest of the loop.
ExtendedMaximum(w) ==
    LET k == call[w].key
        n == Len(attempts[k])
    IN  IF n > 0 /\ Saved("retry-extension", k, n)
        THEN Max2(call[w].maximum, n + 1)
        ELSE call[w].maximum

Interrupted(k) ==
    attempts[k] # <<>> /\ Previous(k).status = "started" /\ k \notin Repeatable

\* Mutant: a complete row is not recognised.
NeverCompleted(k) == FALSE

Completed(k) == attempts[k] # <<>> /\ Previous(k).status = "complete"

\* RecordConflict, UnresolvedStep (interrupted), UnresolvedStep (attempt limit).
QueryRaises(w) ==
    /\ pc[w] = "query"
    /\ \/ InputsChanged(w)
       \/ ~ Completed(call[w].key) /\ Interrupted(call[w].key)
       \/ /\ ~ Completed(call[w].key)
          /\ Len(attempts[call[w].key]) >= ExtendedMaximum(w)
    /\ Leave(w)
    /\ UNCHANGED <<attempts, records, world, returned>>

QueryReuses(w) ==
    /\ pc[w] = "query"
    /\ ~ InputsChanged(w)
    /\ Completed(call[w].key)
    /\ returned' = returned \cup {<<call[w].key, Previous(call[w].key).result>>}
    /\ pc' = [pc EXCEPT ![w] = "idle"]
    /\ call' = [call EXCEPT ![w] = NoCall]
    /\ UNCHANGED <<attempts, records, lease, world>>

\* Mutant: the early return for a completed step is missing.
AdmitsCompleted(w) ==
    LET k == call[w].key IN
    /\ pc[w] = "query"
    /\ ~ InputsChanged(w)
    /\ ~ Interrupted(k)
    /\ Len(attempts[k]) < ExtendedMaximum(w)
    /\ attempts[k] # <<>> => Previous(k).error # "cooling"
    /\ pc' = [pc EXCEPT ![w] = "insert"]
    /\ call' = [call EXCEPT ![w].maximum = ExtendedMaximum(w),
                            ![w].number = Len(attempts[k]) + 1]
    /\ UNCHANGED <<attempts, records, lease, world, returned>>

\* The step may be attempted, once a recorded cooldown is over.
QueryAdmits(w) ==
    LET k == call[w].key IN
    /\ pc[w] = "query"
    /\ ~ InputsChanged(w)
    /\ ~ Completed(k)
    /\ ~ Interrupted(k)
    /\ Len(attempts[k]) < ExtendedMaximum(w)
    /\ attempts[k] # <<>> => Previous(k).error # "cooling"
    /\ pc' = [pc EXCEPT ![w] = "insert"]
    /\ call' = [call EXCEPT ![w].maximum = ExtendedMaximum(w),
                            ![w].number = Len(attempts[k]) + 1]
    /\ UNCHANGED <<attempts, records, lease, world, returned>>

\* INSERT a 'started' row; PRIMARY KEY(step, number) rejects a number in use.
Insert(w) ==
    LET k == call[w].key IN
    /\ pc[w] = "insert"
    /\ call[w].number = Len(attempts[k]) + 1
    /\ attempts' = [attempts EXCEPT ![k] =
            Append(@, [input |-> call[w].input, status |-> "started",
                       result |-> NoResult, error |-> "none"])]
    /\ pc' = [pc EXCEPT ![w] = "acting"]
    /\ UNCHANGED <<records, lease, call, world, returned>>

\* action() returns: its effect is in the world, the journal does not know yet.
ActionReplies(w, r) ==
    /\ pc[w] = "acting"
    /\ world' = world \cup {[key |-> call[w].key, number |-> call[w].number, result |-> r]}
    /\ pc' = [pc EXCEPT ![w] = "replied"]
    /\ call' = [call EXCEPT ![w].result = r]
    /\ UNCHANGED <<attempts, records, lease, returned>>

\* The adapter established that nothing was done and a retry is safe.
ActionTransientFailure(w) ==
    /\ pc[w] = "acting"
    /\ pc' = [pc EXCEPT ![w] = "transient"]
    /\ UNCHANGED <<attempts, records, lease, call, world, returned>>

\* Any other exception, raised before or after the effect took place.
ActionRaises(w) ==
    /\ pc[w] \in {"acting", "replied"}
    /\ pc' = [pc EXCEPT ![w] = "raising"]
    /\ UNCHANGED <<attempts, records, lease, call, world, returned>>

\* Mutant: the UPDATE lacks "AND number=?" and completes every row of the step.
WriteCompleteAll(w) ==
    LET k == call[w].key IN
    /\ pc[w] = "replied"
    /\ attempts' = [attempts EXCEPT ![k] = [n \in DOMAIN @ |->
            [@[n] EXCEPT !.status = "complete", !.result = call[w].result]]]
    /\ returned' = returned \cup {<<k, call[w].result>>}
    /\ pc' = [pc EXCEPT ![w] = "idle"]
    /\ call' = [call EXCEPT ![w] = NoCall]
    /\ UNCHANGED <<records, lease, world>>

WriteComplete(w) ==
    LET k == call[w].key
        n == call[w].number
    IN
    /\ pc[w] = "replied"
    /\ UpdateRow(k, n, [attempts[k][n] EXCEPT !.status = "complete",
                                              !.result = call[w].result])
    /\ returned' = returned \cup {<<k, call[w].result>>}
    /\ pc' = [pc EXCEPT ![w] = "idle"]
    /\ call' = [call EXCEPT ![w] = NoCall]
    /\ UNCHANGED <<records, lease, world>>

\* status 'failed' with a retry_not_before; then the loop goes on, or at the
\* limit the failure is raised.
WriteFailed(w) ==
    LET k == call[w].key
        n == call[w].number
    IN
    /\ pc[w] = "transient"
    /\ \E error \in {"cooling", "retry"} :
          UpdateRow(k, n, [attempts[k][n] EXCEPT !.status = "failed", !.error = error])
    /\ \/ /\ n >= call[w].maximum
          /\ Leave(w)
       \/ /\ n < call[w].maximum
          /\ pc' = [pc EXCEPT ![w] = "query"]
          /\ UNCHANGED <<lease, call>>
    /\ UNCHANGED <<records, world, returned>>

\* Mutant: every exception is treated as proof that nothing was done.
WriteTracebackFailed(w) ==
    LET k == call[w].key
        n == call[w].number
    IN
    /\ pc[w] = "raising"
    /\ UpdateRow(k, n, [attempts[k][n] EXCEPT !.status = "failed", !.error = "traceback"])
    /\ Leave(w)
    /\ UNCHANGED <<records, world, returned>>

\* Mutant: a status that the schema's CHECK does not list.
WriteTracebackStatus(w) ==
    LET k == call[w].key
        n == call[w].number
    IN
    /\ pc[w] = "raising"
    /\ UpdateRow(k, n, [attempts[k][n] EXCEPT !.status = "traceback"])
    /\ Leave(w)
    /\ UNCHANGED <<records, world, returned>>

\* The failure is kept but the row stays 'started'.
WriteTraceback(w) ==
    LET k == call[w].key
        n == call[w].number
    IN
    /\ pc[w] = "raising"
    /\ UpdateRow(k, n, [attempts[k][n] EXCEPT !.error = "traceback"])
    /\ Leave(w)
    /\ UNCHANGED <<records, world, returned>>

-----------------------------------------------------------------------------
(* Operator amendments, each under the lease *)

\* An amendment that the code refuses raises RecordConflict and changes nothing;
\* the tool then leaves, which is Release.
LastRowMatches(k, input) == attempts[k] # <<>> /\ Previous(k).input = input

\* reconcile_saved_result, up to its save.  The operator has verified the saved
\* response: it is the one the world produced for this attempt.
ReconcileSave(w, k, input, r, evidence) ==
    /\ pc[w] = "idle"
    /\ LastRowMatches(k, input)
    /\ Previous(k).status = "started"
    /\ [key |-> k, number |-> Len(attempts[k]), result |-> r] \in world
    /\ SaveRecord("recovery", k, Len(attempts[k]), evidence)
    /\ pc' = [pc EXCEPT ![w] = "reconcile"]
    /\ call' = [call EXCEPT ![w] = [NoCall EXCEPT !.key = k, !.input = input,
                    !.number = Len(attempts[k]), !.result = r]]
    /\ UNCHANGED <<attempts, lease, world, returned>>

\* UPDATE ... WHERE status = 'started'
ReconcileUpdate(w) ==
    LET k == call[w].key
        n == call[w].number
    IN
    /\ pc[w] = "reconcile"
    /\ IF attempts[k][n].status = "started"
       THEN UpdateRow(k, n, [attempts[k][n] EXCEPT !.status = "complete",
                                                   !.result = call[w].result])
       ELSE UNCHANGED attempts
    /\ pc' = [pc EXCEPT ![w] = "idle"]
    /\ call' = [call EXCEPT ![w] = NoCall]
    /\ UNCHANGED <<records, lease, world, returned>>

\* authorize_native_continuation, up to its save.
ContinuationSave(w, k, input, evidence) ==
    /\ pc[w] = "idle"
    /\ LastRowMatches(k, input)
    /\ Previous(k).status = "started"
    /\ SaveRecord("continuation", k, Len(attempts[k]), evidence)
    /\ pc' = [pc EXCEPT ![w] = "continue"]
    /\ call' = [call EXCEPT ![w] = [NoCall EXCEPT !.key = k, !.input = input,
                    !.number = Len(attempts[k])]]
    /\ UNCHANGED <<attempts, lease, world, returned>>

ContinuationUpdate(w) ==
    LET k == call[w].key
        n == call[w].number
    IN
    /\ pc[w] = "continue"
    /\ IF attempts[k][n].status = "started"
       THEN UpdateRow(k, n, [attempts[k][n] EXCEPT !.status = "failed", !.error = "retry"])
       ELSE UNCHANGED attempts
    /\ pc' = [pc EXCEPT ![w] = "idle"]
    /\ call' = [call EXCEPT ![w] = NoCall]
    /\ UNCHANGED <<records, lease, world, returned>>

\* authorize_retry_extension: only after a failure that carries a retry time.
RetryExtension(w, k, input, evidence) ==
    /\ pc[w] = "idle"
    /\ LastRowMatches(k, input)
    /\ Previous(k).status = "failed"
    /\ Previous(k).error \in {"cooling", "retry"}
    /\ Len(attempts[k]) < RowBound
    /\ SaveRecord("retry-extension", k, Len(attempts[k]), evidence)
    /\ UNCHANGED <<attempts, lease, pc, call, world, returned>>

-----------------------------------------------------------------------------
(* The specification *)

Attempt(w) ==
    \/ QueryRaises(w) \/ QueryReuses(w) \/ QueryAdmits(w) \/ Insert(w)
    \/ \E r \in Results : ActionReplies(w, r)
    \/ ActionTransientFailure(w) \/ ActionRaises(w)
    \/ WriteComplete(w) \/ WriteFailed(w) \/ WriteTraceback(w)

Amend(w) ==
    \/ \E k \in Keys, i \in Inputs, e \in Evidence :
          \/ \E r \in Results : ReconcileSave(w, k, i, r, e)
          \/ ContinuationSave(w, k, i, e)
          \/ RetryExtension(w, k, i, e)
    \/ ReconcileUpdate(w)
    \/ ContinuationUpdate(w)

Next ==
    \/ \E w \in Workers :
          \/ Acquire(w) \/ Release(w) \/ Crash(w)
          \/ \E k \in Keys, i \in Inputs : Step(w, k, i)
          \/ Attempt(w)
          \/ Amend(w)
    \/ \E k \in Keys : CooldownEnds(k)

Spec == Init /\ [][Next]_vars

\* A worker inside step() keeps running: its action returns or raises (the
\* adapters time out), and wall-clock time passes every retry_not_before.
Fairness ==
    /\ \A w \in Workers : WF_vars(Attempt(w))
    /\ \A k \in Keys : WF_vars(CooldownEnds(k))

FairSpec == Spec /\ Fairness

-----------------------------------------------------------------------------
(* Properties *)

\* Types of the tables and of the workers' locals.
TypeOK ==
    /\ attempts \in [Keys -> Seq(Row)]
    /\ records \subseteq Record
    /\ lease \in Workers \cup {NoWorker}
    /\ pc \in [Workers -> {"out", "idle", "query", "insert", "acting", "replied",
                           "transient", "raising", "reconcile", "continue"}]
    /\ call \in [Workers -> Locals]
    /\ world \subseteq [key : Keys, number : Nat, result : Results]
    /\ returned \subseteq Keys \X Results

\* "never silently repeat a lost model reply" (records.py, step): when an attempt
\* of a step that is not repeatable really produced a reply, a later attempt of
\* it exists only if an operator recorded a continuation for that attempt,
\* whatever crashes happened between the reply and the journal.
NoSilentRepeat ==
    \A e \in world :
        e.key \notin Repeatable /\ e.number < Len(attempts[e.key])
            => Saved("continuation", e.key, e.number)

\* A row that says 'complete' holds the reply that its own attempt produced,
\* also when an operator reconciled it after a crash.
ResultIsAuthentic ==
    \A k \in Keys : \A n \in 1..Len(attempts[k]) :
        attempts[k][n].status = "complete"
            => [key |-> k, number |-> n, result |-> attempts[k][n].result] \in world

\* Two callers of the same step, in whatever processes and after whatever
\* crashes, retries and amendments, were given the same result.
StableResult ==
    \A p, q \in returned : p[1] = q[1] => p[2] = q[2]

\* "Retries count across process restarts": every attempt past the configured
\* maximum was granted by a retry extension for the attempt just before it.
AttemptBudget ==
    \A k \in Keys : \A n \in 1..Len(attempts[k]) :
        n > MaximumAttempts => Saved("retry-extension", k, n - 1)

\* A completed attempt is never altered and no attempt follows it.
CompletedIsFinal ==
    [][\A k \in Keys : Completed(k) => attempts'[k] = attempts[k]]_vars

\* A call of step() returns, raises or dies: its retry loop cannot spin.
StepTerminates ==
    \A w \in Workers : pc[w] = "query" ~> pc[w] \in {"idle", "out"}
=============================================================================
