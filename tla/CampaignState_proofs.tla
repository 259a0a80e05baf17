------------------------ MODULE CampaignState_proofs ------------------------
(***************************************************************************)
(* Proofs about the campaign journal: its type invariant and, from one     *)
(* inductive invariant, the properties that CampaignState.tla states.       *)
(***************************************************************************)
EXTENDS CampaignState, TLAPS

-----------------------------------------------------------------------------
(* The inductive invariant *)

\* A worker that is inside the campaign holds the lease, so at most one is.
LeaseHeld == \A w \in Workers : pc[w] # "out" => lease = w

\* Only the last attempt of a step may be complete; a step that is not
\* repeatable gets a new attempt only after the last one is marked failed.
RowOrder ==
    \A k \in Keys : \A n \in 1..Len(attempts[k]) :
        n < Len(attempts[k]) =>
            /\ attempts[k][n].status # "complete"
            /\ k \notin Repeatable => attempts[k][n].status = "failed"

\* A cooldown is on record for failed attempts only.
CoolingFailed ==
    \A k \in Keys : \A n \in 1..Len(attempts[k]) :
        attempts[k][n].error = "cooling" => attempts[k][n].status = "failed"

\* Every reply belongs to a recorded attempt, and a reply of an attempt marked
\* failed was accounted for by an operator.
WorldRecorded ==
    \A e \in world :
        /\ e.number \in 1..Len(attempts[e.key])
        /\ attempts[e.key][e.number].status = "failed"
              => Saved("continuation", e.key, e.number)

\* What step() handed out is what the completed attempt holds.
ReturnedIsStored ==
    \A p \in returned : Completed(p[1]) /\ Previous(p[1]).result = p[2]

\* The next attempt number n is within the budget of step k.
Granted(k, n) == n > MaximumAttempts => Saved("retry-extension", k, n - 1)

\* A worker about to insert a row has looked at the rows that are there now.
InsertReady(w) ==
    LET k == call[w].key IN
    pc[w] = "insert" =>
        /\ call[w].number = Len(attempts[k]) + 1
        /\ ~ Completed(k)
        /\ ~ Interrupted(k)
        /\ Granted(k, call[w].number)

\* A worker between its INSERT, or its amendment's save, and the matching UPDATE
\* works on the last row, which is 'started'.
UpdateReady(w) ==
    LET k == call[w].key
        n == call[w].number
    IN
    pc[w] \in {"acting", "replied", "transient", "raising", "reconcile", "continue"} =>
        /\ n = Len(attempts[k])
        /\ n \in 1..Len(attempts[k])
        /\ attempts[k][n].status = "started"
        /\ pc[w] \in {"acting", "transient"} =>
              \A e \in world : e.key = k => e.number # n
        /\ pc[w] \in {"replied", "reconcile"} =>
              [key |-> k, number |-> n, result |-> call[w].result] \in world
        /\ pc[w] = "continue" => Saved("continuation", k, n)

\* The local maximum_attempts is the configured one, or was raised for exactly
\* the attempt that is being made.
MaximumKept(w) ==
    /\ pc[w] = "query" => call[w].maximum = MaximumAttempts
    /\ pc[w] \in {"insert", "acting", "replied", "transient", "raising"} =>
          call[w].maximum \in {MaximumAttempts, call[w].number}

CallInv == \A w \in Workers : InsertReady(w) /\ UpdateReady(w) /\ MaximumKept(w)

IInv ==
    /\ TypeOK /\ LeaseHeld /\ RowOrder /\ CoolingFailed /\ WorldRecorded
    /\ ResultIsAuthentic /\ ReturnedIsStored /\ AttemptBudget /\ CallInv

-----------------------------------------------------------------------------
(* Facts about sequences and the operators of the module *)

\* Replacing one element of a sequence keeps its length and the other elements.
LEMMA ReplaceElement ==
    ASSUME NEW S, NEW s \in Seq(S), NEW n \in 1..Len(s), NEW e \in S
    PROVE  /\ [s EXCEPT ![n] = e] \in Seq(S)
           /\ Len([s EXCEPT ![n] = e]) = Len(s)
           /\ [s EXCEPT ![n] = e][n] = e
           /\ \A m \in 1..Len(s) : m # n => [s EXCEPT ![n] = e][m] = s[m]
  OBVIOUS

\* A sequence that is not empty has a last element, of the right type.
LEMMA LastElement ==
    ASSUME NEW S, NEW s \in Seq(S), s # <<>>
    PROVE  Len(s) \in 1..Len(s) /\ s[Len(s)] \in S
  OBVIOUS

\* The locals of a worker outside any call are well typed.
LEMMA NoCallType == NoCall \in Locals
  BY ConstantsAssumption DEF NoCall, Locals

-----------------------------------------------------------------------------
(* Type correctness *)

\* Before any worker starts, the empty tables and locals are well typed.
LEMMA InitType == Init => TypeOK
  BY NoCallType DEF Init, TypeOK

-----------------------------------------------------------------------------
(* Steps that leave the tables alone *)

\* The parts of the invariant that speak of the tables, the replies and the
\* results only.
TablesInv ==
    /\ RowOrder /\ CoolingFailed /\ WorldRecorded
    /\ ResultIsAuthentic /\ ReturnedIsStored /\ AttemptBudget

\* They survive any step that leaves those four variables unchanged.
LEMMA TablesStutter ==
    TablesInv /\ UNCHANGED <<attempts, records, world, returned>> => TablesInv'
  BY DEF TablesInv, RowOrder, CoolingFailed, WorldRecorded, ResultIsAuthentic, ReturnedIsStored,
         AttemptBudget, Completed, Previous, Saved

\* Taking the lease.
LEMMA AcquireStep ==
    ASSUME IInv, NEW w \in Workers, Acquire(w)
    PROVE  IInv'
  <1>1. TypeOK' BY DEF IInv, TypeOK, Acquire
  <1>2. LeaseHeld'
    BY ConstantsAssumption DEF IInv, TypeOK, LeaseHeld, Acquire
  <1>3. TablesInv' BY TablesStutter DEF IInv, TablesInv, Acquire
  <1>4. CallInv'
    BY DEF IInv, TypeOK, CallInv, InsertReady, UpdateReady, MaximumKept, Acquire,
           Completed, Interrupted, Previous, Granted, Saved
  <1> QED BY <1>1, <1>2, <1>3, <1>4 DEF IInv, TablesInv

\* Giving the lease back, by returning, raising or dying.
LEMMA LeaveStep ==
    ASSUME IInv, NEW w \in Workers, pc[w] # "out", Leave(w),
           UNCHANGED <<attempts, records, world, returned>>
    PROVE  IInv'
  <1>1. TypeOK' BY NoCallType DEF IInv, TypeOK, Leave
  <1>2. LeaseHeld' BY DEF IInv, TypeOK, LeaseHeld, Leave
  <1>3. TablesInv' BY TablesStutter DEF IInv, TablesInv
  <1>4. CallInv'
    BY DEF IInv, TypeOK, CallInv, InsertReady, UpdateReady, MaximumKept, Leave,
           Completed, Interrupted, Previous, Granted, Saved
  <1> QED BY <1>1, <1>2, <1>3, <1>4 DEF IInv, TablesInv

\* A call of step() begins.
LEMMA StepStep ==
    ASSUME IInv, NEW w \in Workers, NEW k \in Keys, NEW i \in Inputs, Step(w, k, i)
    PROVE  IInv'
  <1>1. [NoCall EXCEPT !.key = k, !.input = i, !.maximum = MaximumAttempts] \in Locals
    BY Zenon, NoCallType, ConstantsAssumption DEF Locals
  <1>2. TypeOK' BY <1>1 DEF IInv, TypeOK, Step
  <1>3. LeaseHeld' BY DEF IInv, TypeOK, LeaseHeld, Step
  <1>4. TablesInv' BY TablesStutter DEF IInv, TablesInv, Step
  <1>5. call'[w].maximum = MaximumAttempts
    BY NoCallType DEF Step, IInv, TypeOK, Locals
  <1>6. CallInv'
    BY <1>5 DEF IInv, TypeOK, CallInv, InsertReady, UpdateReady, MaximumKept, Step,
           Completed, Interrupted, Previous, Granted, Saved
  <1> QED BY <1>2, <1>3, <1>4, <1>6 DEF IInv, TablesInv

\* step() finds a completed attempt and hands out its result.
LEMMA QueryReusesStep ==
    ASSUME IInv, NEW w \in Workers, QueryReuses(w)
    PROVE  IInv'
  <1> DEFINE k == call[w].key
  <1>0. k \in Keys BY DEF IInv, TypeOK, Locals
  <1>1. /\ Len(attempts[k]) \in 1..Len(attempts[k])
        /\ Previous(k).status = "complete"
    BY <1>0, LastElement DEF IInv, TypeOK, QueryReuses, Completed, Previous
  <1>2. Previous(k).result \in Results
    BY Zenon, <1>0, <1>1 DEF IInv, TypeOK, ResultIsAuthentic, Previous
  <1>3. TypeOK' BY <1>0, <1>2, NoCallType DEF IInv, TypeOK, QueryReuses
  <1>4. LeaseHeld' BY DEF IInv, TypeOK, LeaseHeld, QueryReuses
  <1>5. /\ RowOrder' /\ CoolingFailed' /\ WorldRecorded'
        /\ ResultIsAuthentic' /\ AttemptBudget'
    BY DEF IInv, QueryReuses, RowOrder, CoolingFailed, WorldRecorded, ResultIsAuthentic,
           AttemptBudget, Saved
  <1>6. ReturnedIsStored'
    BY <1>0, <1>1 DEF IInv, QueryReuses, ReturnedIsStored, Completed, Previous
  <1>7. CallInv'
    BY SMTT(30) DEF IInv, TypeOK, CallInv, InsertReady, UpdateReady, MaximumKept, QueryReuses,
           Completed, Interrupted, Previous, Granted, Saved
  <1> QED BY <1>3, <1>4, <1>5, <1>6, <1>7 DEF IInv

\* step() decides to make another attempt.
LEMMA QueryAdmitsStep ==
    ASSUME IInv, NEW w \in Workers, QueryAdmits(w)
    PROVE  IInv'
  <1> DEFINE k == call[w].key
             n == Len(attempts[k])
             m == ExtendedMaximum(w)
  <1>0. k \in Keys /\ n \in Nat /\ call[w].maximum = MaximumAttempts
    BY DEF IInv, TypeOK, Locals, CallInv, MaximumKept, QueryAdmits
  <1>1. m \in Nat /\ n < m
    BY <1>0, ConstantsAssumption DEF ExtendedMaximum, Max2, QueryAdmits
  <1>2. m \in {MaximumAttempts, n + 1} /\ Granted(k, n + 1)
    BY <1>0, <1>1, ConstantsAssumption DEF ExtendedMaximum, Max2, Granted
  <1>3. /\ call' = [call EXCEPT ![w] = [@ EXCEPT !.maximum = m, !.number = n + 1]]
        /\ pc' = [pc EXCEPT ![w] = "insert"]
        /\ ~ Completed(k) /\ ~ Interrupted(k)
        /\ UNCHANGED <<attempts, records, lease, world, returned>>
    BY Zenon DEF QueryAdmits
  <1> HIDE DEF n, m, k
  <1>4. /\ call'[w] \in Locals /\ call'[w].key = k
        /\ call'[w].number = n + 1 /\ call'[w].maximum = m
    <2>1. call \in [Workers -> Locals] BY DEF IInv, TypeOK
    <2>2. call'[w] = [call[w] EXCEPT !.maximum = m, !.number = n + 1] BY <1>3, <2>1
    <2>3. call[w] \in Locals BY <2>1
    <2>4. n + 1 \in Nat /\ m \in Nat BY <1>0, <1>1
    <2> DEFINE c == call[w]
    <2> HIDE DEF c
    <2>5. c \in Locals /\ k = c.key BY <2>3 DEF c, k
    <2>6. call'[w] = [c EXCEPT !.maximum = m, !.number = n + 1] BY <2>2 DEF c
    <2> QED BY Zenon, <2>4, <2>5, <2>6 DEF Locals
  <1>5. TypeOK' BY <1>3, <1>4 DEF IInv, TypeOK
  <1>6. LeaseHeld' BY <1>3 DEF IInv, TypeOK, LeaseHeld, QueryAdmits
  <1>7. TablesInv' BY <1>3, TablesStutter DEF IInv, TablesInv
  <1>8. CallInv'
    <2> SUFFICES ASSUME NEW v \in Workers
                 PROVE  (InsertReady(v) /\ UpdateReady(v) /\ MaximumKept(v))'
      BY DEF CallInv
    <2>1. CASE v = w
      BY <2>1, <1>0, <1>2, <1>3, <1>4 DEF IInv, TypeOK, InsertReady, UpdateReady,
         MaximumKept, Completed, Interrupted, Previous, Granted, Saved, n
    <2>2. CASE v # w
      BY <2>2, <1>3 DEF IInv, TypeOK, CallInv, InsertReady, UpdateReady,
         MaximumKept, Completed, Interrupted, Previous, Granted, Saved
    <2> QED BY <2>1, <2>2
  <1> QED BY <1>5, <1>6, <1>7, <1>8 DEF IInv, TablesInv

\* The action fails, safely or not; the journal has not recorded it yet.
LEMMA ActionFailsStep ==
    ASSUME IInv, NEW w \in Workers, ActionTransientFailure(w) \/ ActionRaises(w)
    PROVE  IInv'
  <1>1. TypeOK' BY DEF IInv, TypeOK, ActionTransientFailure, ActionRaises
  <1>2. LeaseHeld'
    BY DEF IInv, TypeOK, LeaseHeld, ActionTransientFailure, ActionRaises
  <1>3. TablesInv'
    BY TablesStutter DEF IInv, TablesInv, ActionTransientFailure, ActionRaises
  <1>4. CallInv'
    BY SMTT(30) DEF IInv, TypeOK, CallInv, InsertReady, UpdateReady, MaximumKept,
           ActionTransientFailure, ActionRaises,
           Completed, Interrupted, Previous, Granted, Saved
  <1> QED BY <1>1, <1>2, <1>3, <1>4 DEF IInv, TablesInv

-----------------------------------------------------------------------------
(* Steps that change the last row of one step *)

\* What an UPDATE of the last row leaves alone.
LEMMA LastRowUpdate ==
    ASSUME TypeOK, NEW k \in Keys, attempts[k] # <<>>, NEW row \in Row,
           UpdateRow(k, Len(attempts[k]), row)
    PROVE  /\ attempts' \in [Keys -> Seq(Row)]
           /\ \A j \in Keys : Len(attempts'[j]) = Len(attempts[j])
           /\ Len(attempts[k]) \in 1..Len(attempts[k])
           /\ attempts'[k][Len(attempts[k])] = row
           /\ \A j \in Keys : \A m \in 1..Len(attempts[j]) :
                 j # k \/ m # Len(attempts[k]) => attempts'[j][m] = attempts[j][m]
           /\ attempts'[k] # <<>>
  <1> DEFINE s == attempts[k]
             n == Len(s)
             t == [s EXCEPT ![n] = row]
  <1>1. s \in Seq(Row) /\ n \in 1..Len(s) BY LastElement DEF TypeOK
  <1>2. attempts' = [attempts EXCEPT ![k] = t] BY DEF UpdateRow
  <1>3. /\ t \in Seq(Row) /\ Len(t) = n /\ t[n] = row
        /\ \A m \in 1..n : m # n => t[m] = s[m]
    BY <1>1, ReplaceElement
  <1> HIDE DEF s, t
  <1>4. attempts'[k] = t /\ \A j \in Keys : j # k => attempts'[j] = attempts[j]
    BY <1>2 DEF TypeOK
  <1>5. attempts' \in [Keys -> Seq(Row)] BY <1>2, <1>3 DEF TypeOK
  <1>6. t # <<>> BY <1>1, <1>3
  <1> QED BY <1>1, <1>3, <1>4, <1>5, <1>6 DEF s

\* An UPDATE of a last row that is not complete keeps the table invariants, if a
\* row that becomes complete holds a reply of its own attempt, and a row that
\* becomes failed had no reply or an operator's continuation.
LEMMA RowUpdateTables ==
    ASSUME IInv, NEW k \in Keys, attempts[k] # <<>>, NEW row \in Row,
           UpdateRow(k, Len(attempts[k]), row),
           Previous(k).status # "complete",
           row.error = "cooling" => row.status = "failed",
           row.status = "complete" =>
               [key |-> k, number |-> Len(attempts[k]), result |-> row.result] \in world,
           row.status = "failed" =>
               \A e \in world : e.key = k /\ e.number = Len(attempts[k])
                                   => Saved("continuation", k, Len(attempts[k])),
           records' = records, world' = world,
           \/ returned' = returned
           \/ row.status = "complete" /\ returned' = returned \cup {<<k, row.result>>}
    PROVE  TablesInv'
  <1> DEFINE n == Len(attempts[k])
  <1>0. TypeOK BY DEF IInv
  <1>1. /\ attempts' \in [Keys -> Seq(Row)]
        /\ \A j \in Keys : Len(attempts'[j]) = Len(attempts[j])
        /\ n \in 1..n
        /\ attempts'[k][n] = row
        /\ \A j \in Keys : \A m \in 1..Len(attempts[j]) :
              j # k \/ m # n => attempts'[j][m] = attempts[j][m]
        /\ attempts'[k] # <<>>
    BY <1>0, LastRowUpdate
  <1>2. \A j \in Keys : Len(attempts[j]) \in Nat BY <1>0 DEF TypeOK
  <1>3. RowOrder' BY <1>1, <1>2 DEF IInv, RowOrder
  <1>8. CoolingFailed' BY <1>1, <1>2 DEF IInv, CoolingFailed
  <1>4. WorldRecorded'
    <2> SUFFICES ASSUME NEW e \in world
                 PROVE  /\ e.number \in 1..Len(attempts'[e.key])
                        /\ attempts'[e.key][e.number].status = "failed"
                              => Saved("continuation", e.key, e.number)
      BY DEF WorldRecorded, Saved
    <2>1. e.key \in Keys /\ e.number \in 1..Len(attempts[e.key])
      BY <1>0 DEF IInv, TypeOK, WorldRecorded
    <2>2. CASE e.key = k /\ e.number = n BY <1>1, <2>1, <2>2
    <2>3. CASE e.key # k \/ e.number # n
      BY <1>1, <2>1, <2>3 DEF IInv, WorldRecorded
    <2> QED BY <2>2, <2>3
  <1>5. ResultIsAuthentic'
    BY <1>1, <1>2 DEF IInv, ResultIsAuthentic
  <1>6. AttemptBudget' BY <1>1, <1>2 DEF IInv, AttemptBudget, Saved
  <1>7. ReturnedIsStored'
    <2>1. \A p \in returned : p[1] \in Keys /\ p[1] # k
      BY <1>0 DEF IInv, TypeOK, ReturnedIsStored, Completed
    <2>2. \A j \in Keys : j # k /\ Completed(j) =>
             /\ attempts'[j] # <<>>
             /\ attempts'[j][Len(attempts'[j])] = attempts[j][Len(attempts[j])]
      <3> SUFFICES ASSUME NEW j \in Keys, j # k, Completed(j)
                   PROVE  /\ attempts'[j] # <<>>
                          /\ attempts'[j][Len(attempts'[j])] = attempts[j][Len(attempts[j])]
        OBVIOUS
      <3>1. Len(attempts[j]) \in 1..Len(attempts[j])
        BY <1>0, LastElement DEF TypeOK, Completed
      <3> QED BY <1>1, <3>1, SMTT(30)
    <2>3. \A p \in returned : Completed(p[1])' /\ (Previous(p[1]).result = p[2])'
      BY <2>1, <2>2 DEF IInv, ReturnedIsStored, Completed, Previous
    <2>4. row.status = "complete" => Completed(k)' /\ (Previous(k).result)' = row.result
      BY <1>1 DEF Completed, Previous
    <2> QED BY <2>3, <2>4 DEF ReturnedIsStored
  <1> QED BY <1>3, <1>4, <1>5, <1>6, <1>7, <1>8 DEF TablesInv

\* The rows that the UPDATE statements write.
LEMMA CompleteRow ==
    ASSUME NEW r \in Row, NEW x \in Results
    PROVE  /\ [r EXCEPT !.status = "complete", !.result = x] \in Row
           /\ [r EXCEPT !.status = "complete", !.result = x].status = "complete"
           /\ [r EXCEPT !.status = "complete", !.result = x].result = x
           /\ [r EXCEPT !.status = "complete", !.result = x].error = r.error
  BY Zenon DEF Row

\* A row marked failed is well typed, with the status and error it was given.
LEMMA FailedRow ==
    ASSUME NEW r \in Row, NEW x \in {"cooling", "retry"}
    PROVE  /\ [r EXCEPT !.status = "failed", !.error = x] \in Row
           /\ [r EXCEPT !.status = "failed", !.error = x].status = "failed"
  BY Zenon DEF Row

\* A row whose error alone changes is well typed and keeps its status.
LEMMA ErrorRow ==
    ASSUME NEW r \in Row, NEW x \in {"traceback", "retry"}
    PROVE  /\ [r EXCEPT !.error = x] \in Row
           /\ [r EXCEPT !.error = x].status = r.status
           /\ [r EXCEPT !.error = x].error = x
  BY DEF Row

\* The lease admits one worker at a time.
LEMMA OthersOut ==
    ASSUME IInv, NEW w \in Workers, pc[w] # "out"
    PROVE  \A v \in Workers : v # w => pc[v] = "out"
  BY DEF IInv, LeaseHeld

\* A worker in the middle of an attempt or an amendment, and its row.
LEMMA CurrentRow ==
    ASSUME IInv, NEW w \in Workers,
           pc[w] \in {"acting", "replied", "transient", "raising", "reconcile", "continue"}
    PROVE  /\ call[w].key \in Keys
           /\ call[w].number = Len(attempts[call[w].key])
           /\ attempts[call[w].key] # <<>>
           /\ attempts[call[w].key][call[w].number] \in Row
           /\ Previous(call[w].key).status = "started"
           /\ attempts[call[w].key][call[w].number].error # "cooling"
  <1> DEFINE k == call[w].key
             n == call[w].number
  <1>1. k \in Keys /\ attempts[k] \in Seq(Row) BY DEF IInv, TypeOK, Locals
  <1>2. n = Len(attempts[k]) /\ n \in 1..Len(attempts[k]) /\ attempts[k][n].status = "started"
    BY Zenon DEF IInv, CallInv, UpdateReady
  <1> HIDE DEF k, n
  <1>3. attempts[k] # <<>> /\ attempts[k][n] \in Row BY <1>1, <1>2
  <1>4. attempts[k][n].error # "cooling" BY <1>1, <1>2 DEF IInv, CoolingFailed
  <1> QED BY <1>1, <1>2, <1>3, <1>4 DEF Previous, k, n

\* The reply is recorded and handed to the caller.
LEMMA WriteCompleteStep ==
    ASSUME IInv, NEW w \in Workers, WriteComplete(w)
    PROVE  IInv'
  <1> DEFINE k == call[w].key
             n == call[w].number
             r == call[w].result
             row == [attempts[k][n] EXCEPT !.status = "complete", !.result = r]
  <1>0. pc[w] = "replied" /\ TypeOK BY DEF WriteComplete, IInv
  <1>1. /\ k \in Keys /\ n = Len(attempts[k]) /\ attempts[k] # <<>>
        /\ attempts[k][n] \in Row /\ Previous(k).status = "started"
        /\ attempts[k][n].error # "cooling"
    BY <1>0, CurrentRow
  <1>2. [key |-> k, number |-> n, result |-> r] \in world
    BY <1>0 DEF IInv, CallInv, UpdateReady
  <1>3. r \in Results BY <1>0, <1>2 DEF TypeOK
  <1>4. row \in Row /\ row.status = "complete" /\ row.result = r /\ row.error # "cooling"
    BY <1>1, <1>3, CompleteRow
  <1>5. /\ UpdateRow(k, Len(attempts[k]), row)
        /\ returned' = returned \cup {<<k, row.result>>}
        /\ pc' = [pc EXCEPT ![w] = "idle"] /\ call' = [call EXCEPT ![w] = NoCall]
        /\ records' = records /\ lease' = lease /\ world' = world
    BY <1>1, <1>4 DEF WriteComplete
  <1>6. attempts' \in [Keys -> Seq(Row)]
    BY <1>0, <1>1, <1>4, <1>5, LastRowUpdate
  <1> HIDE DEF row, k, n, r
  <1>7. TablesInv' BY <1>1, <1>2, <1>4, <1>5, RowUpdateTables
  <1>8. TypeOK' BY <1>0, <1>1, <1>3, <1>4, <1>5, <1>6, NoCallType DEF TypeOK
  <1>9. LeaseHeld' BY <1>0, <1>5 DEF IInv, TypeOK, LeaseHeld
  <1>10. CallInv'
    <2>1. \A v \in Workers : pc'[v] \in {"out", "idle"}
      BY <1>0, <1>5, OthersOut DEF TypeOK
    <2> QED BY <2>1 DEF CallInv, InsertReady, UpdateReady, MaximumKept
  <1> QED BY <1>7, <1>8, <1>9, <1>10 DEF IInv, TablesInv

\* An unclassified failure is noted on a row that stays 'started'.
LEMMA WriteTracebackStep ==
    ASSUME IInv, NEW w \in Workers, WriteTraceback(w)
    PROVE  IInv'
  <1> DEFINE k == call[w].key
             n == call[w].number
             row == [attempts[k][n] EXCEPT !.error = "traceback"]
  <1>0. pc[w] = "raising" /\ TypeOK BY DEF WriteTraceback, IInv
  <1>1. /\ k \in Keys /\ n = Len(attempts[k]) /\ attempts[k] # <<>>
        /\ attempts[k][n] \in Row /\ Previous(k).status = "started"
        /\ attempts[k][n].error # "cooling"
    BY <1>0, CurrentRow
  <1>2. row \in Row /\ row.status = "started" /\ row.error = "traceback"
    BY Zenon, <1>1, ErrorRow DEF Previous
  <1>3. /\ UpdateRow(k, Len(attempts[k]), row) /\ returned' = returned
        /\ pc' = [pc EXCEPT ![w] = "out"] /\ call' = [call EXCEPT ![w] = NoCall]
        /\ records' = records /\ lease' = NoWorker /\ world' = world
    BY <1>1 DEF WriteTraceback, Leave
  <1>4. attempts' \in [Keys -> Seq(Row)]
    BY <1>0, <1>1, <1>2, <1>3, LastRowUpdate
  <1> HIDE DEF row, k, n
  <1>5. TablesInv' BY Zenon, <1>1, <1>2, <1>3, RowUpdateTables
  <1>6. TypeOK' BY <1>0, <1>3, <1>4, NoCallType DEF TypeOK
  <1>7. \A v \in Workers : pc'[v] = "out" BY <1>0, <1>3, OthersOut DEF TypeOK
  <1>8. LeaseHeld' BY <1>7 DEF LeaseHeld
  <1>9. CallInv' BY <1>7 DEF CallInv, InsertReady, UpdateReady, MaximumKept
  <1> QED BY <1>5, <1>6, <1>8, <1>9 DEF IInv, TablesInv

\* A transient failure is recorded; the loop goes on or the limit is raised.
LEMMA WriteFailedStep ==
    ASSUME IInv, NEW w \in Workers, WriteFailed(w)
    PROVE  IInv'
  <1> DEFINE k == call[w].key
             n == call[w].number
  <1>0. pc[w] = "transient" /\ TypeOK BY DEF WriteFailed, IInv
  <1>1. /\ k \in Keys /\ n = Len(attempts[k]) /\ attempts[k] # <<>>
        /\ attempts[k][n] \in Row /\ Previous(k).status = "started"
        /\ attempts[k][n].error # "cooling"
    BY <1>0, CurrentRow
  <1>2. PICK error \in {"cooling", "retry"} :
           UpdateRow(k, n, [attempts[k][n] EXCEPT !.status = "failed", !.error = error])
    BY Zenon DEF WriteFailed
  <1> DEFINE row == [attempts[k][n] EXCEPT !.status = "failed", !.error = error]
  <1>3. row \in Row /\ row.status = "failed" BY <1>1, <1>2, FailedRow
  <1>4. \A e \in world : e.key = k => e.number # n
    BY Zenon, <1>0 DEF IInv, CallInv, UpdateReady
  <1>5. attempts' \in [Keys -> Seq(Row)]
    BY <1>0, <1>1, <1>2, <1>3, LastRowUpdate
  <1>6. /\ UpdateRow(k, Len(attempts[k]), row)
        /\ records' = records /\ world' = world /\ returned' = returned
    BY <1>1, <1>2 DEF WriteFailed
  <1>7. \/ Leave(w)
        \/ /\ n < call[w].maximum
           /\ pc' = [pc EXCEPT ![w] = "query"] /\ UNCHANGED <<lease, call>>
    BY DEF WriteFailed
  <1>8. n < call[w].maximum => call[w].maximum = MaximumAttempts
    BY <1>0 DEF IInv, TypeOK, Locals, CallInv, MaximumKept
  <1> HIDE DEF row, k, n
  <1>9. TablesInv' BY Zenon, <1>1, <1>3, <1>4, <1>6, RowUpdateTables
  <1>10. TypeOK' BY Zenon, <1>0, <1>5, <1>6, <1>7, NoCallType DEF TypeOK, Leave
  <1>11. \A v \in Workers : v # w => pc'[v] = "out"
    BY <1>0, <1>7, OthersOut DEF TypeOK, Leave
  <1>12. LeaseHeld' BY <1>0, <1>7, <1>11 DEF IInv, TypeOK, LeaseHeld, Leave
  <1>13. \/ pc'[w] = "out"
         \/ pc'[w] = "query" /\ call'[w].maximum = MaximumAttempts
    <2>0. pc \in [Workers -> {"out", "idle", "query", "insert", "acting", "replied",
                             "transient", "raising", "reconcile", "continue"}]
      BY <1>0 DEF TypeOK
    <2>1. CASE Leave(w)
      <3>1. pc'[w] = "out" BY <2>0, <2>1 DEF Leave
      <3> QED BY <3>1
    <2>2. CASE ~ Leave(w)
      <3>1. pc' = [pc EXCEPT ![w] = "query"] /\ call' = call /\ n < call[w].maximum
        BY <1>7, <2>2
      <3> QED BY <2>0, <1>8, <3>1
    <2> QED BY <2>1, <2>2
  <1>14. CallInv'
    BY <1>11, <1>13 DEF CallInv, InsertReady, UpdateReady, MaximumKept
  <1> QED BY <1>9, <1>10, <1>12, <1>14 DEF IInv, TablesInv

\* Time passes the retry_not_before of a failed last row.
LEMMA CooldownEndsStep ==
    ASSUME IInv, NEW k \in Keys, CooldownEnds(k)
    PROVE  IInv'
  <1> DEFINE n == Len(attempts[k])
             row == [Previous(k) EXCEPT !.error = "retry"]
  <1>0. TypeOK /\ attempts[k] # <<>> BY DEF CooldownEnds, IInv
  <1>1. Previous(k) \in Row BY <1>0, LastElement DEF TypeOK, Previous
  <1>2. row \in Row /\ row.status = Previous(k).status /\ row.error = "retry"
    BY Zenon, <1>1, ErrorRow
  <1>3. UpdateRow(k, n, row) /\ UNCHANGED <<records, lease, pc, call, world, returned>>
    BY DEF CooldownEnds
  <1>4. n \in 1..Len(attempts[k]) /\ Previous(k).status = "failed"
    BY <1>0, LastElement DEF IInv, TypeOK, CooldownEnds, CoolingFailed, Previous
  <1>5. \A e \in world : e.key = k /\ e.number = n => Saved("continuation", k, n)
    BY <1>4 DEF IInv, WorldRecorded, Previous
  <1>6. /\ attempts' \in [Keys -> Seq(Row)]
        /\ \A j \in Keys : Len(attempts'[j]) = Len(attempts[j])
        /\ attempts'[k][n] = row
        /\ \A j \in Keys : \A m \in 1..Len(attempts[j]) :
              j # k \/ m # n => attempts'[j][m] = attempts[j][m]
        /\ attempts'[k] # <<>>
    BY <1>0, <1>2, <1>3, LastRowUpdate
  <1> HIDE DEF row
  <1>7. TablesInv' BY Zenon, <1>0, <1>2, <1>3, <1>4, <1>5, RowUpdateTables
  <1>8. TypeOK' BY <1>0, <1>3, <1>6 DEF TypeOK
  <1>9. LeaseHeld' BY <1>3 DEF IInv, LeaseHeld
  <1>10. \A j \in Keys : /\ Completed(j)' = Completed(j)
                         /\ Interrupted(j)' = Interrupted(j)
    <2> SUFFICES ASSUME NEW j \in Keys
                 PROVE  Completed(j)' = Completed(j) /\ Interrupted(j)' = Interrupted(j)
      OBVIOUS
    <2>1. CASE j = k BY <2>1, <1>0, <1>2, <1>4, <1>6 DEF Completed, Interrupted, Previous
    <2>2. CASE j # k
      <3>1. attempts'[j] = attempts[j] BY <2>2, <1>0, <1>3 DEF UpdateRow, TypeOK
      <3> QED BY <3>1 DEF Completed, Interrupted, Previous
    <2> QED BY <2>1, <2>2
  <1>11. CallInv'
    <2> SUFFICES ASSUME NEW v \in Workers
                 PROVE  (InsertReady(v) /\ UpdateReady(v) /\ MaximumKept(v))'
      BY DEF CallInv
    <2>0. call[v].key \in Keys BY <1>0 DEF TypeOK, Locals
    <2>1. InsertReady(v)'
      BY <2>0, <1>3, <1>6, <1>10 DEF IInv, CallInv, InsertReady, Granted, Saved
    <2>2. UpdateReady(v)'
      BY Zenon, <2>0, <1>3, <1>4, <1>6 DEF IInv, CallInv, UpdateReady, Saved, Previous
    <2>3. MaximumKept(v)' BY <1>3 DEF IInv, CallInv, MaximumKept
    <2> QED BY <2>1, <2>2, <2>3
  <1> QED BY <1>7, <1>8, <1>9, <1>11 DEF IInv, TablesInv

\* An operator's reconciliation completes the row.
LEMMA ReconcileUpdateStep ==
    ASSUME IInv, NEW w \in Workers, ReconcileUpdate(w)
    PROVE  IInv'
  <1> DEFINE k == call[w].key
             n == call[w].number
             r == call[w].result
             row == [attempts[k][n] EXCEPT !.status = "complete", !.result = r]
  <1>0. pc[w] = "reconcile" /\ TypeOK BY DEF ReconcileUpdate, IInv
  <1>1. /\ k \in Keys /\ n = Len(attempts[k]) /\ attempts[k] # <<>>
        /\ attempts[k][n] \in Row /\ Previous(k).status = "started"
        /\ attempts[k][n].error # "cooling"
    BY <1>0, CurrentRow
  <1>2. [key |-> k, number |-> n, result |-> r] \in world
    BY <1>0 DEF IInv, CallInv, UpdateReady
  <1>3. r \in Results BY <1>0, <1>2 DEF TypeOK
  <1>4. row \in Row /\ row.status = "complete" /\ row.result = r /\ row.error # "cooling"
    BY <1>1, <1>3, CompleteRow
  <1>5. /\ UpdateRow(k, Len(attempts[k]), row)
        /\ returned' = returned
        /\ pc' = [pc EXCEPT ![w] = "idle"] /\ call' = [call EXCEPT ![w] = NoCall]
        /\ records' = records /\ lease' = lease /\ world' = world
    BY <1>1 DEF ReconcileUpdate, Previous
  <1>6. attempts' \in [Keys -> Seq(Row)]
    BY <1>0, <1>1, <1>4, <1>5, LastRowUpdate
  <1> HIDE DEF row, k, n, r
  <1>7. TablesInv' BY <1>1, <1>2, <1>4, <1>5, RowUpdateTables
  <1>8. TypeOK' BY <1>0, <1>5, <1>6, NoCallType DEF TypeOK
  <1>9. LeaseHeld' BY <1>0, <1>5 DEF IInv, TypeOK, LeaseHeld
  <1>10. CallInv'
    <2>1. \A v \in Workers : pc'[v] \in {"out", "idle"}
      BY <1>0, <1>5, OthersOut DEF TypeOK
    <2> QED BY <2>1 DEF CallInv, InsertReady, UpdateReady, MaximumKept
  <1> QED BY <1>7, <1>8, <1>9, <1>10 DEF IInv, TablesInv

\* An operator's continuation marks the row failed.
LEMMA ContinuationUpdateStep ==
    ASSUME IInv, NEW w \in Workers, ContinuationUpdate(w)
    PROVE  IInv'
  <1> DEFINE k == call[w].key
             n == call[w].number
             row == [attempts[k][n] EXCEPT !.status = "failed", !.error = "retry"]
  <1>0. pc[w] = "continue" /\ TypeOK BY DEF ContinuationUpdate, IInv
  <1>1. /\ k \in Keys /\ n = Len(attempts[k]) /\ attempts[k] # <<>>
        /\ attempts[k][n] \in Row /\ Previous(k).status = "started"
        /\ attempts[k][n].error # "cooling"
    BY <1>0, CurrentRow
  <1>2. Saved("continuation", k, n) BY Zenon, <1>0 DEF IInv, CallInv, UpdateReady
  <1>3. row \in Row /\ row.status = "failed" BY <1>1, FailedRow
  <1>4. /\ UpdateRow(k, Len(attempts[k]), row)
        /\ returned' = returned
        /\ pc' = [pc EXCEPT ![w] = "idle"] /\ call' = [call EXCEPT ![w] = NoCall]
        /\ records' = records /\ lease' = lease /\ world' = world
    BY <1>1 DEF ContinuationUpdate, Previous
  <1>5. attempts' \in [Keys -> Seq(Row)]
    BY <1>0, <1>1, <1>3, <1>4, LastRowUpdate
  <1> HIDE DEF row, k, n
  <1>6. TablesInv' BY Zenon, <1>1, <1>2, <1>3, <1>4, RowUpdateTables
  <1>7. TypeOK' BY <1>0, <1>4, <1>5, NoCallType DEF TypeOK
  <1>8. LeaseHeld' BY <1>0, <1>4 DEF IInv, TypeOK, LeaseHeld
  <1>9. CallInv'
    <2>1. \A v \in Workers : pc'[v] \in {"out", "idle"}
      BY <1>0, <1>4, OthersOut DEF TypeOK
    <2> QED BY <2>1 DEF CallInv, InsertReady, UpdateReady, MaximumKept
  <1> QED BY <1>6, <1>7, <1>8, <1>9 DEF IInv, TablesInv

-----------------------------------------------------------------------------
(* A new row, a new reply, new operator records *)

\* The 'started' row is inserted.
LEMMA InsertStep ==
    ASSUME IInv, NEW w \in Workers, Insert(w)
    PROVE  IInv'
  <1> DEFINE k == call[w].key
             n == Len(attempts[k])
             row == [input |-> call[w].input, status |-> "started",
                     result |-> NoResult, error |-> "none"]
  <1>0. pc[w] = "insert" /\ TypeOK BY DEF Insert, IInv
  <1>1. k \in Keys /\ row \in Row /\ attempts[k] \in Seq(Row) /\ n \in Nat
    <2>1. call[w] \in Locals BY <1>0 DEF TypeOK
    <2>2. k \in Keys /\ call[w].input \in Inputs BY <2>1 DEF Locals
    <2>3. row \in Row BY <2>2 DEF Row
    <2>4. attempts[k] \in Seq(Row) BY <1>0, <2>2 DEF TypeOK
    <2> QED BY <2>2, <2>3, <2>4
  <1>2. /\ call[w].number = n + 1 /\ ~ Completed(k) /\ ~ Interrupted(k)
        /\ Granted(k, n + 1)
    BY <1>0 DEF IInv, CallInv, InsertReady
  <1>3. /\ attempts' = [attempts EXCEPT ![k] = Append(attempts[k], row)]
        /\ pc' = [pc EXCEPT ![w] = "acting"]
        /\ UNCHANGED <<records, lease, call, world, returned>>
    BY DEF Insert
  <1>a. row.status = "started" /\ row.error = "none" OBVIOUS
  <1> HIDE DEF row
  <1>4. /\ attempts' \in [Keys -> Seq(Row)]
        /\ Len(attempts'[k]) = n + 1
        /\ attempts'[k][n + 1] = row
        /\ \A m \in 1..n : attempts'[k][m] = attempts[k][m]
        /\ \A j \in Keys : j # k => attempts'[j] = attempts[j]
    BY <1>0, <1>1, <1>3 DEF TypeOK
  <1>5. TypeOK' BY <1>0, <1>3, <1>4 DEF TypeOK
  <1>6. LeaseHeld' BY <1>0, <1>3 DEF IInv, TypeOK, LeaseHeld
  <1>7. n # 0 => /\ n \in 1..n /\ attempts[k] # <<>>
                 /\ attempts[k][n].status # "complete"
                 /\ k \notin Repeatable => attempts[k][n].status = "failed"
    <2> SUFFICES ASSUME n # 0
                 PROVE  /\ n \in 1..n /\ attempts[k] # <<>>
                        /\ attempts[k][n].status # "complete"
                        /\ k \notin Repeatable => attempts[k][n].status = "failed"
      OBVIOUS
    <2>1. n \in 1..n /\ attempts[k] # <<>> /\ attempts[k][n] \in Row BY <1>1
    <2> QED BY <1>2, <2>1 DEF Completed, Interrupted, Previous, Row
  <1>b. \A j \in Keys : \A m \in 1..Len(attempts'[j]) :
          \/ m \in 1..Len(attempts[j]) /\ attempts'[j][m] = attempts[j][m]
          \/ j = k /\ m = n + 1 /\ attempts'[j][m] = row
    BY <1>1, <1>4
  <1>8. RowOrder'
    <2> SUFFICES ASSUME NEW j \in Keys, NEW m \in 1..Len(attempts'[j]), m < Len(attempts'[j])
                 PROVE  /\ attempts'[j][m].status # "complete"
                        /\ j \notin Repeatable => attempts'[j][m].status = "failed"
      BY DEF RowOrder
    <2>1. CASE j = k /\ m = n BY <2>1, <1>1, <1>4, <1>7
    <2>2. CASE j = k /\ m # n
      <3>1. m \in 1..n /\ m < n BY <2>2, <1>1, <1>4
      <3> QED BY <2>2, <3>1, <1>1, <1>4 DEF IInv, RowOrder
    <2>3. CASE j # k BY <2>3, <1>4 DEF IInv, RowOrder
    <2> QED BY <2>1, <2>2, <2>3
  <1>9. CoolingFailed' BY <1>a, <1>b DEF IInv, CoolingFailed
  <1>10. WorldRecorded' BY <1>0, <1>1, <1>3, <1>4 DEF IInv, TypeOK, WorldRecorded, Saved
  <1>11. ResultIsAuthentic' BY <1>3, <1>a, <1>b DEF IInv, ResultIsAuthentic
  <1>12. AttemptBudget' BY <1>2, <1>3, <1>b DEF IInv, AttemptBudget, Granted, Saved
  <1>13. ReturnedIsStored'
    BY <1>0, <1>2, <1>3, <1>4, SMTT(30) DEF IInv, TypeOK, ReturnedIsStored, Completed, Previous
  <1>14. CallInv'
    <2>1. \A e \in world : e.key = k => e.number # n + 1
      BY <1>1 DEF IInv, WorldRecorded
    <2>2. \A v \in Workers : v # w => pc'[v] = "out"
      BY <1>0, <1>3, OthersOut DEF TypeOK
    <2>3. pc'[w] = "acting" /\ call' = call /\ world' = world BY <1>0, <1>3 DEF TypeOK
    <2>4. UpdateReady(w)'
      <3>1. call'[w].key = k /\ call'[w].number = n + 1 BY <1>2, <2>3
      <3> HIDE DEF k, n
      <3>2. n + 1 \in 1..(n + 1) BY <1>1
      <3> QED BY <3>1, <3>2, <1>4, <1>a, <2>1, <2>3 DEF UpdateReady
    <2>5. InsertReady(w)' BY <2>3 DEF InsertReady
    <2>6. MaximumKept(w)' BY <1>0, <2>3 DEF IInv, CallInv, MaximumKept
    <2>7. \A v \in Workers : v # w => (InsertReady(v) /\ UpdateReady(v) /\ MaximumKept(v))'
      BY <2>2 DEF InsertReady, UpdateReady, MaximumKept
    <2> QED BY <2>4, <2>5, <2>6, <2>7 DEF CallInv
  <1> QED BY <1>5, <1>6, <1>8, <1>9, <1>10, <1>11, <1>12, <1>13, <1>14 DEF IInv

\* The action replies: the world has the effect, the journal does not know it.
LEMMA ActionRepliesStep ==
    ASSUME IInv, NEW w \in Workers, NEW r \in Results, ActionReplies(w, r)
    PROVE  IInv'
  <1> DEFINE k == call[w].key
             n == call[w].number
             e == [key |-> k, number |-> n, result |-> r]
  <1>0. pc[w] = "acting" /\ TypeOK BY DEF ActionReplies, IInv
  <1>1. /\ k \in Keys /\ n = Len(attempts[k]) /\ attempts[k] # <<>>
        /\ Previous(k).status = "started"
    BY <1>0, CurrentRow
  <1>2. n \in Nat /\ call[w] \in Locals BY <1>0 DEF TypeOK, Locals
  <1>3. n \in 1..Len(attempts[k]) /\ attempts[k][n].status = "started"
    BY Zenon, <1>0 DEF IInv, CallInv, UpdateReady
  <1>4. /\ world' = world \cup {e}
        /\ pc' = [pc EXCEPT ![w] = "replied"]
        /\ call' = [call EXCEPT ![w].result = r]
        /\ UNCHANGED <<attempts, records, lease, returned>>
    BY DEF ActionReplies
  <1>5. /\ call'[w] \in Locals /\ call'[w].key = k /\ call'[w].number = n
        /\ call'[w].result = r /\ call'[w].maximum = call[w].maximum
        /\ call' \in [Workers -> Locals]
    <2> DEFINE c == call[w]
    <2>1. call \in [Workers -> Locals] BY <1>0 DEF TypeOK
    <2>2. call' = [call EXCEPT ![w] = [c EXCEPT !.result = r]] BY <1>4
    <2>3. c \in Locals /\ c.key = k /\ c.number = n /\ c.maximum = call[w].maximum BY <1>2
    <2> HIDE DEF c, k, n
    <2>4. [c EXCEPT !.result = r] \in Locals BY <2>3 DEF Locals
    <2> QED BY <2>1, <2>2, <2>3, <2>4 DEF Locals
  <1>6. e.key = k /\ e.number = n /\ e.result = r OBVIOUS
  <1>7. TypeOK' BY <1>0, <1>1, <1>2, <1>4, <1>5 DEF TypeOK
  <1>8. LeaseHeld' BY <1>0, <1>4 DEF IInv, TypeOK, LeaseHeld
  <1>9. /\ RowOrder' /\ CoolingFailed' /\ ReturnedIsStored' /\ AttemptBudget'
    BY <1>4 DEF IInv, RowOrder, CoolingFailed, ReturnedIsStored, AttemptBudget,
                Completed, Previous, Saved
  <1>10. ResultIsAuthentic' BY <1>4 DEF IInv, ResultIsAuthentic
  <1>11. WorldRecorded' BY <1>3, <1>4, <1>6 DEF IInv, WorldRecorded, Saved
  <1>12. CallInv'
    <2>1. \A v \in Workers : v # w => pc'[v] = "out"
      BY <1>0, <1>4, OthersOut DEF TypeOK
    <2>2. pc'[w] = "replied" /\ attempts' = attempts /\ e \in world' BY <1>0, <1>4 DEF TypeOK
    <2>3. UpdateReady(w)'
      <3> HIDE DEF k, n
      <3> QED BY <1>1, <1>3, <1>5, <2>2 DEF UpdateReady
    <2>4. InsertReady(w)' BY <2>2 DEF InsertReady
    <2>5. MaximumKept(w)' BY <1>0, <1>5, <2>2 DEF IInv, CallInv, MaximumKept
    <2>6. \A v \in Workers : v # w => (InsertReady(v) /\ UpdateReady(v) /\ MaximumKept(v))'
      BY <2>1 DEF InsertReady, UpdateReady, MaximumKept
    <2> QED BY <2>3, <2>4, <2>5, <2>6 DEF CallInv
  <1> QED BY <1>7, <1>8, <1>9, <1>10, <1>11, <1>12 DEF IInv

\* Records are only ever added, which keeps the table invariants.
LEMMA RecordsGrow ==
    ASSUME TablesInv, records \subseteq records', UNCHANGED <<attempts, world, returned>>
    PROVE  TablesInv'
  BY SMTT(30) DEF TablesInv, RowOrder, CoolingFailed, WorldRecorded, ResultIsAuthentic,
         ReturnedIsStored, AttemptBudget, Completed, Previous, Saved

\* An operator saves the evidence of an amendment.
LEMMA AmendSaveStep ==
    ASSUME IInv, NEW w \in Workers, NEW k \in Keys, NEW i \in Inputs, NEW e \in Evidence,
           \/ \E r \in Results : ReconcileSave(w, k, i, r, e)
           \/ ContinuationSave(w, k, i, e)
           \/ RetryExtension(w, k, i, e)
    PROVE  IInv'
  <1>0. TypeOK /\ pc[w] = "idle" /\ attempts[k] # <<>>
    BY DEF IInv, ReconcileSave, ContinuationSave, RetryExtension, LastRowMatches
  <1>1. Len(attempts[k]) \in 1..Len(attempts[k]) /\ Len(attempts[k]) \in Nat
    BY <1>0, LastElement DEF TypeOK
  <1>2. /\ records \subseteq records' /\ records' \subseteq Record
        /\ UNCHANGED <<attempts, lease, world, returned>>
    <2> DEFINE n == Len(attempts[k])
    <2>1. n \in Nat BY <1>1
    <2>2. /\ UNCHANGED <<attempts, lease, world, returned>>
          /\ \E kind \in {"recovery", "continuation", "retry-extension"} :
                SaveRecord(kind, k, n, e)
      BY DEF ReconcileSave, ContinuationSave, RetryExtension
    <2> HIDE DEF n
    <2>3. PICK kind \in {"recovery", "continuation", "retry-extension"} :
             SaveRecord(kind, k, n, e)
      BY <2>2
    <2>4. [kind |-> kind, key |-> k, number |-> n, value |-> e] \in Record
      BY <2>1, <2>3 DEF Record
    <2> QED BY <1>0, <2>2, <2>3, <2>4 DEF TypeOK, SaveRecord
  <1>3. TablesInv' BY <1>2, RecordsGrow DEF IInv, TablesInv
  <1>4. \A v \in Workers : v # w => pc[v] = "out" BY <1>0, OthersOut
  <1>5. CASE \E r \in Results : ReconcileSave(w, k, i, r, e)
    <2>1. PICK r \in Results : ReconcileSave(w, k, i, r, e) BY <1>5
    <2> DEFINE c == [NoCall EXCEPT !.key = k, !.input = i,
                                   !.number = Len(attempts[k]), !.result = r]
    <2>2. c \in Locals /\ c.key = k /\ c.number = Len(attempts[k]) /\ c.result = r
      BY Zenon, <1>1, <2>1, NoCallType DEF Locals
    <2>3. /\ pc' = [pc EXCEPT ![w] = "reconcile"] /\ call' = [call EXCEPT ![w] = c]
          /\ Previous(k).status = "started"
          /\ [key |-> k, number |-> Len(attempts[k]), result |-> r] \in world
      BY <2>1 DEF ReconcileSave
    <2> HIDE DEF c
    <2>4. TypeOK' BY <1>0, <1>2, <2>2, <2>3 DEF TypeOK
    <2>5. LeaseHeld' BY <1>0, <1>2, <2>3 DEF IInv, TypeOK, LeaseHeld
    <2>6. pc'[w] = "reconcile" /\ call'[w] = c BY <1>0, <2>3 DEF TypeOK
    <2>7. UpdateReady(w)' BY <1>1, <1>2, <2>2, <2>3, <2>6, SMTT(30) DEF UpdateReady, Previous
    <2>8. CallInv'
      BY <1>0, <1>4, <2>3, <2>6, <2>7
         DEF TypeOK, CallInv, InsertReady, UpdateReady, MaximumKept
    <2> QED BY <1>3, <2>4, <2>5, <2>8 DEF IInv, TablesInv
  <1>6. CASE ContinuationSave(w, k, i, e)
    <2> DEFINE c == [NoCall EXCEPT !.key = k, !.input = i, !.number = Len(attempts[k])]
    <2>1. c \in Locals /\ c.key = k /\ c.number = Len(attempts[k])
      BY Zenon, <1>1, NoCallType DEF Locals
    <2>2. /\ pc' = [pc EXCEPT ![w] = "continue"] /\ call' = [call EXCEPT ![w] = c]
          /\ Previous(k).status = "started"
      BY <1>6 DEF ContinuationSave
    <2>8. Saved("continuation", k, Len(attempts[k]))'
      <3> DEFINE n == Len(attempts[k])
                 r == [kind |-> "continuation", key |-> k, number |-> n, value |-> e]
      <3>1. r \in records' /\ attempts' = attempts BY <1>6 DEF ContinuationSave, SaveRecord
      <3>2. r.kind = "continuation" /\ r.key = k /\ r.number = n OBVIOUS
      <3> HIDE DEF r
      <3> QED BY <3>1, <3>2 DEF Saved
    <2> HIDE DEF c
    <2>3. TypeOK' BY <1>0, <1>2, <2>1, <2>2 DEF TypeOK
    <2>4. LeaseHeld' BY <1>0, <1>2, <2>2 DEF IInv, TypeOK, LeaseHeld
    <2>5. pc'[w] = "continue" /\ call'[w] = c BY <1>0, <2>2 DEF TypeOK
    <2>6. UpdateReady(w)' BY <1>1, <1>2, <2>1, <2>2, <2>5, <2>8 DEF UpdateReady, Previous, Saved
    <2>7. CallInv'
      BY <1>0, <1>4, <2>2, <2>5, <2>6
         DEF TypeOK, CallInv, InsertReady, UpdateReady, MaximumKept
    <2> QED BY <1>3, <2>3, <2>4, <2>7 DEF IInv, TablesInv
  <1>7. CASE RetryExtension(w, k, i, e)
    <2>1. pc' = pc /\ call' = call BY <1>7 DEF RetryExtension
    <2>2. TypeOK' BY <1>0, <1>2, <2>1 DEF TypeOK
    <2>3. LeaseHeld' BY <1>2, <2>1 DEF IInv, LeaseHeld
    <2>4. CallInv'
      BY <1>0, <1>4, <2>1 DEF CallInv, InsertReady, UpdateReady, MaximumKept
    <2> QED BY <1>3, <2>2, <2>3, <2>4 DEF IInv, TablesInv
  <1> QED BY <1>5, <1>6, <1>7

-----------------------------------------------------------------------------
(* The theorems *)

\* Every step of a campaign keeps the inductive invariant.
LEMMA NextStep == IInv /\ [Next]_vars => IInv'
  <1> SUFFICES ASSUME IInv, [Next]_vars PROVE IInv' OBVIOUS
  <1>1. CASE UNCHANGED vars
    <2>1. TypeOK' /\ LeaseHeld' BY <1>1 DEF IInv, vars, TypeOK, LeaseHeld
    <2>2. TablesInv' BY <1>1, TablesStutter DEF IInv, vars, TablesInv
    <2>3. CallInv'
      BY <1>1 DEF IInv, vars, CallInv, InsertReady, UpdateReady, MaximumKept,
                  Completed, Interrupted, Previous, Granted, Saved
    <2> QED BY <2>1, <2>2, <2>3 DEF IInv, TablesInv
  <1>2. CASE \E k \in Keys : CooldownEnds(k) BY <1>2, CooldownEndsStep
  <1>3. ASSUME NEW w \in Workers,
               \/ Acquire(w) \/ Release(w) \/ Crash(w)
               \/ \E k \in Keys, i \in Inputs : Step(w, k, i)
        PROVE  IInv'
    <2>1. CASE Acquire(w) BY <2>1, AcquireStep
    <2>2. CASE Release(w) BY <2>2, LeaveStep DEF Release
    <2>3. CASE Crash(w) BY <2>3, LeaveStep DEF Crash
    <2>4. CASE \E k \in Keys, i \in Inputs : Step(w, k, i) BY <2>4, StepStep
    <2> QED BY <1>3, <2>1, <2>2, <2>3, <2>4
  <1>4. ASSUME NEW w \in Workers, Attempt(w) PROVE IInv'
    <2>1. CASE QueryRaises(w) BY <2>1, LeaveStep DEF QueryRaises
    <2>2. CASE QueryReuses(w) BY <2>2, QueryReusesStep
    <2>3. CASE QueryAdmits(w) BY <2>3, QueryAdmitsStep
    <2>4. CASE Insert(w) BY <2>4, InsertStep
    <2>5. CASE \E r \in Results : ActionReplies(w, r) BY <2>5, ActionRepliesStep
    <2>6. CASE ActionTransientFailure(w) \/ ActionRaises(w) BY <2>6, ActionFailsStep
    <2>7. CASE WriteComplete(w) BY <2>7, WriteCompleteStep
    <2>8. CASE WriteFailed(w) BY <2>8, WriteFailedStep
    <2>9. CASE WriteTraceback(w) BY <2>9, WriteTracebackStep
    <2> QED BY <1>4, <2>1, <2>2, <2>3, <2>4, <2>5, <2>6, <2>7, <2>8, <2>9 DEF Attempt
  <1>5. ASSUME NEW w \in Workers, Amend(w) PROVE IInv'
    <2>1. CASE ReconcileUpdate(w) BY <2>1, ReconcileUpdateStep
    <2>2. CASE ContinuationUpdate(w) BY <2>2, ContinuationUpdateStep
    <2>3. CASE \E k \in Keys, i \in Inputs, e \in Evidence :
                  \/ \E r \in Results : ReconcileSave(w, k, i, r, e)
                  \/ ContinuationSave(w, k, i, e)
                  \/ RetryExtension(w, k, i, e)
      BY <2>3, AmendSaveStep
    <2> QED BY <1>5, <2>1, <2>2, <2>3 DEF Amend
  <1> QED BY <1>1, <1>2, <1>3, <1>4, <1>5 DEF Next

\* The empty journal satisfies the inductive invariant.
LEMMA InitIInv == Init => IInv
  <1> SUFFICES ASSUME Init PROVE IInv OBVIOUS
  <1>1. TypeOK BY InitType
  <1>2. \A k \in Keys : attempts[k] = <<>> /\ Len(attempts[k]) = 0 BY DEF Init
  <1>3. RowOrder /\ CoolingFailed /\ ResultIsAuthentic /\ AttemptBudget
    BY <1>2 DEF RowOrder, CoolingFailed, ResultIsAuthentic, AttemptBudget
  <1>4. WorldRecorded /\ ReturnedIsStored BY DEF Init, WorldRecorded, ReturnedIsStored
  <1>5. LeaseHeld /\ CallInv
    BY DEF Init, LeaseHeld, CallInv, InsertReady, UpdateReady, MaximumKept
  <1> QED BY <1>1, <1>3, <1>4, <1>5 DEF IInv

\* The inductive invariant holds in every campaign.
THEOREM Invariance == Spec => []IInv
  BY InitIInv, NextStep, PTL DEF Spec

\* The tables and the workers' locals keep their types.
THEOREM TypeCorrect == Spec => []TypeOK
  <1>1. IInv => TypeOK BY DEF IInv
  <1> QED BY <1>1, Invariance, PTL

\* A reply that was produced is never silently asked for again, for any number
\* of processes, steps, crashes and retries.
THEOREM NeverSilentlyRepeated == Spec => []NoSilentRepeat
  <1>1. IInv => NoSilentRepeat
    <2> SUFFICES ASSUME IInv, NEW e \in world, e.key \notin Repeatable,
                        e.number < Len(attempts[e.key])
                 PROVE  Saved("continuation", e.key, e.number)
      BY DEF NoSilentRepeat
    <2>1. e.key \in Keys BY DEF IInv, TypeOK
    <2>2. e.number \in 1..Len(attempts[e.key]) BY DEF IInv, WorldRecorded
    <2>3. attempts[e.key][e.number].status = "failed"
      BY <2>1, <2>2 DEF IInv, RowOrder
    <2> QED BY <2>3 DEF IInv, WorldRecorded
  <1> QED BY <1>1, Invariance, PTL

\* A completed row holds a reply that its own attempt really produced.
THEOREM CompletedIsAuthentic == Spec => []ResultIsAuthentic
  <1>1. IInv => ResultIsAuthentic BY DEF IInv
  <1> QED BY <1>1, Invariance, PTL

\* All callers of a step, in all processes, are given one result.
THEOREM OneResultPerStep == Spec => []StableResult
  <1>1. IInv => StableResult BY DEF IInv, ReturnedIsStored, StableResult
  <1> QED BY <1>1, Invariance, PTL

\* Attempts past the configured maximum are granted one by one.
THEOREM BudgetKept == Spec => []AttemptBudget
  <1>1. IInv => AttemptBudget BY DEF IInv
  <1> QED BY <1>1, Invariance, PTL

\* No step alters a completed attempt or adds one after it: the row a worker is
\* about to write is 'started', and it looked before it inserts.
LEMMA CompletedKept ==
    ASSUME IInv, [Next]_vars, NEW k \in Keys, Completed(k)
    PROVE  attempts'[k] = attempts[k]
  <1>0. TypeOK BY DEF IInv
  <1>1. ASSUME NEW j \in Keys, NEW n, NEW row, UpdateRow(j, n, row), j # k
        PROVE  attempts'[k] = attempts[k]
    BY <1>0, <1>1 DEF TypeOK, UpdateRow
  <1>2. CASE \E j \in Keys : CooldownEnds(j)
    <2>1. PICK j \in Keys : CooldownEnds(j) BY <1>2
    <2>2. Previous(j).status = "failed"
      BY <1>0, <2>1, LastElement DEF IInv, TypeOK, CooldownEnds, CoolingFailed, Previous
    <2> QED BY <1>1, <2>1, <2>2 DEF CooldownEnds, Completed
  <1>3. ASSUME NEW w \in Workers, Insert(w) PROVE attempts'[k] = attempts[k]
    <2>1. call[w].key # k BY <1>3 DEF IInv, CallInv, InsertReady, Insert
    <2> QED BY <1>0, <1>3, <2>1 DEF TypeOK, Insert
  <1>4. ASSUME NEW w \in Workers,
               \/ WriteComplete(w) \/ WriteFailed(w) \/ WriteTraceback(w)
               \/ ReconcileUpdate(w) \/ ContinuationUpdate(w)
        PROVE  attempts'[k] = attempts[k]
    <2>1. pc[w] \in {"acting", "replied", "transient", "raising", "reconcile", "continue"}
      BY <1>4 DEF WriteComplete, WriteFailed, WriteTraceback, ReconcileUpdate,
                  ContinuationUpdate
    <2>2. call[w].key \in Keys /\ call[w].key # k
      BY Zenon, <1>0, <2>1 DEF TypeOK, Locals, IInv, CallInv, UpdateReady, Completed, Previous
    <2>3. \/ attempts' = attempts
          \/ \E row : UpdateRow(call[w].key, call[w].number, row)
      BY <1>4 DEF WriteComplete, WriteFailed, WriteTraceback, ReconcileUpdate,
                  ContinuationUpdate
    <2> QED BY <1>1, <2>2, <2>3
  <1>5. CASE UNCHANGED vars BY <1>5 DEF vars
  <1>6. ASSUME NEW w \in Workers, Attempt(w) PROVE attempts'[k] = attempts[k]
    <2>1. CASE \/ QueryRaises(w) \/ QueryReuses(w) \/ QueryAdmits(w)
               \/ \E r \in Results : ActionReplies(w, r)
               \/ ActionTransientFailure(w) \/ ActionRaises(w)
      BY <2>1 DEF QueryRaises, QueryReuses, QueryAdmits, ActionReplies,
                  ActionTransientFailure, ActionRaises
    <2> QED BY <1>3, <1>4, <1>6, <2>1 DEF Attempt
  <1>7. ASSUME NEW w \in Workers, Amend(w) PROVE attempts'[k] = attempts[k]
    <2>1. ASSUME NEW j \in Keys, NEW i \in Inputs, NEW e \in Evidence,
                 \/ \E r \in Results : ReconcileSave(w, j, i, r, e)
                 \/ ContinuationSave(w, j, i, e)
                 \/ RetryExtension(w, j, i, e)
          PROVE  attempts'[k] = attempts[k]
      BY <2>1 DEF ReconcileSave, ContinuationSave, RetryExtension
    <2> QED BY <1>4, <1>7, <2>1 DEF Amend
  <1>8. ASSUME NEW w \in Workers,
               \/ Acquire(w) \/ Release(w) \/ Crash(w)
               \/ \E j \in Keys, i \in Inputs : Step(w, j, i)
        PROVE  attempts'[k] = attempts[k]
    BY <1>8 DEF Acquire, Release, Crash, Step
  <1> QED BY <1>2, <1>5, <1>6, <1>7, <1>8 DEF Next

\* A completed step stays as it is, through every crash, retry and amendment.
THEOREM CompletedForGood == Spec => CompletedIsFinal
  <1>1. IInv /\ [Next]_vars =>
            [\A k \in Keys : Completed(k) => attempts'[k] = attempts[k]]_vars
    BY CompletedKept
  <1> QED BY <1>1, Invariance, PTL DEF Spec, CompletedIsFinal
=============================================================================
