----------------------- MODULE DRAMController_proofs -----------------------
(***************************************************************************)
(* Safety of the controller for every number of banks, every buffer size,   *)
(* every device timing and every refresh interval.                          *)
(***************************************************************************)
EXTENDS DRAMController, FiniteSetTheorems, SequenceTheorems, WellFoundedInduction, TLAPS

-----------------------------------------------------------------------------
(* Arithmetic and sequences *)

\* A set of naturals that is not empty has a least element.
LEMMA NatMin ==
    ASSUME NEW S \in SUBSET Nat, S # {}
    PROVE  \E x \in S : \A y \in S : x <= y
<1>1. PICK x \in S : \A y \in S : ~ (<<y, x>> \in OpToRel(<, Nat))
    BY NatLessThanWellFounded, WFMin
<1>2. \A y \in S : <<y, x>> \in OpToRel(<, Nat) <=> y < x
    BY DEF OpToRel
<1>3. \A y \in S : ~ (y < x)
    BY <1>1, <1>2, Zenon
<1> QED
    BY <1>3

\* What buffer.remove(it) leaves.
LEMMA RemoveProperties ==
    ASSUME NEW S, NEW s \in Seq(S), NEW i \in DOMAIN s
    PROVE  /\ Remove(s, i) \in Seq(S)
           /\ Len(Remove(s, i)) = Len(s) - 1
           /\ DOMAIN Remove(s, i) = 1..(Len(s) - 1)
           /\ \A j \in 1..(Len(s) - 1) :
                Remove(s, i)[j] = IF j < i THEN s[j] ELSE s[j + 1]
<1>1. Len(s) \in Nat /\ i \in 1..Len(s)
    OBVIOUS
<1>2. \A j \in 1..(Len(s) - 1) : (IF j < i THEN s[j] ELSE s[j + 1]) \in S
    BY <1>1
<1> QED
    BY <1>1, <1>2, IsASeq DEF Remove

\* The scheduler's choice is one of its candidates.
LEMMA OldestIsCandidate ==
    ASSUME NEW s \in Seq(ExternalReq), NEW C \in SUBSET (DOMAIN s), C # {}
    PROVE  Oldest(s, C) \in C
<1>1. ASSUME NEW i \in C PROVE i \in Nat /\ s[i].arrive \in Nat
  <2>1. i \in 1..Len(s) /\ Len(s) \in Nat
    OBVIOUS
  <2>2. s[i] \in ExternalReq
    BY <2>1, ElementOfSeq
  <2> QED
    BY <2>1, <2>2 DEF ExternalReq
<1> DEFINE A == {s[i].arrive : i \in C}
<1>2. PICK a \in A : \A b \in A : a <= b
  <2>1. A \in SUBSET Nat /\ A # {}
    BY <1>1
  <2> QED
    BY Zenon, <2>1, NatMin
<1> DEFINE First == {i \in C : s[i].arrive = a}
<1>3. PICK f \in First : \A j \in First : f <= j
  <2>1. First \in SUBSET Nat /\ First # {}
    BY <1>1, <1>2
  <2> QED
    BY Zenon, <2>1, NatMin
<1>4. ASSUME NEW j \in C
      PROVE  s[f].arrive < s[j].arrive \/ (s[f].arrive = s[j].arrive /\ f <= j)
  <2>1. f \in C /\ s[f].arrive = a /\ a <= s[j].arrive
    BY <1>2, <1>3
  <2>2. s[j].arrive = a => f <= j
    BY <1>3
  <2>3. s[j].arrive \in Nat /\ a \in Nat
    BY <1>1, <2>1
  <2> QED
    BY <2>1, <2>2, <2>3
<1> QED
    BY <1>3, <1>4 DEF Oldest

-----------------------------------------------------------------------------
(* The buffered write addresses *)

Exact(w, A) ==
    /\ A = {w[i].addr : i \in DOMAIN w}
    /\ \A i, j \in DOMAIN w : w[i].addr = w[j].addr => i = j

\* A write that leaves the buffer takes its address, and no other, with it.
LEMMA ExactRemove ==
    ASSUME NEW w \in Seq(ExternalReq), NEW A, Exact(w, A), NEW i \in DOMAIN w
    PROVE  Exact(Remove(w, i), A \ {w[i].addr})
<1> DEFINE v == Remove(w, i)
           n == Len(w)
           Old(j) == IF j < i THEN j ELSE j + 1
<1>1. n \in Nat /\ DOMAIN w = 1..n /\ i \in 1..n
    OBVIOUS
<1>2. DOMAIN v = 1..(n - 1) /\ \A j \in 1..(n - 1) : v[j] = w[Old(j)]
    BY Zenon, RemoveProperties, <1>1
<1>3. \A j \in 1..(n - 1) : Old(j) \in 1..n /\ Old(j) # i
    BY <1>1
<1>4. \A j, k \in 1..(n - 1) : Old(j) = Old(k) => j = k
    BY <1>1
<1>5. \A m \in 1..n : m # i => \E j \in 1..(n - 1) : Old(j) = m
  <2> SUFFICES ASSUME NEW m \in 1..n, m # i
               PROVE  \E j \in 1..(n - 1) : Old(j) = m
    OBVIOUS
  <2>1. CASE m < i
    <3>1. m \in 1..(n - 1) /\ Old(m) = m
      BY <1>1, <2>1
    <3> QED
      BY <3>1
  <2>2. CASE m > i
    <3>1. m - 1 \in 1..(n - 1) /\ Old(m - 1) = m
      BY <1>1, <2>2
    <3> QED
      BY <3>1
  <2> QED
    BY <1>1, <2>1, <2>2
<1> HIDE DEF v, Old
<1>6. A \ {w[i].addr} = {v[j].addr : j \in DOMAIN v}
  <2>1. ASSUME NEW x \in A, x # w[i].addr
        PROVE  \E j \in DOMAIN v : x = v[j].addr
    <3>1. PICK m \in 1..n : x = w[m].addr
      BY <1>1 DEF Exact
    <3>2. PICK j \in 1..(n - 1) : Old(j) = m
      BY <1>5, <2>1, <3>1
    <3> QED
      BY <1>2, <3>1, <3>2
  <2>2. ASSUME NEW j \in DOMAIN v
        PROVE  v[j].addr \in A /\ v[j].addr # w[i].addr
    BY <1>1, <1>2, <1>3 DEF Exact
  <2> QED
    BY <2>1, <2>2
<1>7. \A j, k \in DOMAIN v : v[j].addr = v[k].addr => j = k
    BY <1>1, <1>2, <1>3, <1>4 DEF Exact
<1> QED
    BY <1>6, <1>7 DEF Exact, v

\* A write whose address is not buffered yet adds it.
LEMMA ExactAppend ==
    ASSUME NEW w \in Seq(ExternalReq), NEW A, Exact(w, A), NEW r \in ExternalReq, r.addr \notin A
    PROVE  Exact(Append(w, r), A \cup {r.addr})
<1> DEFINE v == Append(w, r)
           n == Len(w)
<1>1. /\ n \in Nat /\ DOMAIN w = 1..n
      /\ DOMAIN v = 1..(n + 1) /\ v[n + 1] = r
      /\ \A j \in 1..n : v[j] = w[j]
    OBVIOUS
<1> HIDE DEF v
<1>2. A \cup {r.addr} = {v[j].addr : j \in DOMAIN v}
    BY <1>1 DEF Exact
<1>3. \A j \in 1..n : v[j].addr # v[n + 1].addr
    BY <1>1 DEF Exact
<1>4. \A j, k \in DOMAIN v : v[j].addr = v[k].addr => j = k
    BY <1>1, <1>3 DEF Exact
<1> QED
    BY Zenon, <1>2, <1>4 DEF Exact, v

-----------------------------------------------------------------------------
(* The active requests *)

\* For the active buffer a, the counts C and the open rows R: a bank has one
\* active request or none, its count says which, and the request's row is open.
Holding(a, C, R) ==
    /\ C \in [Banks -> Int]
    /\ \A b \in Banks : C[b] = IF \E i \in DOMAIN a : a[i].scope = {b} THEN 1 ELSE 0
    /\ \A i, j \in DOMAIN a : a[i].scope = a[j].scope => i = j
    /\ \A i \in DOMAIN a : \A b \in a[i].scope : R[b] = {a[i].row}

\* The request of a bank is served and leaves the active buffer.
LEMMA HoldingRemove ==
    ASSUME NEW a \in Seq(ExternalReq), NEW C, NEW R, Holding(a, C, R), NEW i \in DOMAIN a
    PROVE  Holding(Remove(a, i),
                   [b \in Banks |-> IF b \in a[i].scope THEN C[b] + (-1) ELSE C[b]], R)
<1> DEFINE v == Remove(a, i)
           n == Len(a)
           Old(j) == IF j < i THEN j ELSE j + 1
           D == [b \in Banks |-> IF b \in a[i].scope THEN C[b] + (-1) ELSE C[b]]
<1>1. n \in Nat /\ DOMAIN a = 1..n /\ i \in 1..n
    OBVIOUS
<1>2. DOMAIN v = 1..(n - 1) /\ \A j \in 1..(n - 1) : v[j] = a[Old(j)]
    BY Zenon, RemoveProperties, <1>1
<1>3. \A j \in 1..(n - 1) : Old(j) \in 1..n /\ Old(j) # i
    BY <1>1
<1>4. \A j, k \in 1..(n - 1) : Old(j) = Old(k) => j = k
    BY <1>1
<1>5. ASSUME NEW m \in 1..n, m # i PROVE \E j \in 1..(n - 1) : Old(j) = m
  <2>1. CASE m < i
    <3>1. m \in 1..(n - 1) /\ Old(m) = m
      BY <1>1, <2>1
    <3> QED
      BY <3>1
  <2>2. CASE m > i
    <3>1. m - 1 \in 1..(n - 1) /\ Old(m - 1) = m
      BY <1>1, <2>2
    <3> QED
      BY <3>1
  <2> QED
    BY <1>1, <1>5, <2>1, <2>2
<1>6. PICK c \in Banks : a[i].scope = {c}
  <2>1. a[i] \in ExternalReq
    BY <1>1, ElementOfSeq
  <2> QED
    BY <2>1 DEF ExternalReq
<1> HIDE DEF v, Old
<1>7. ASSUME NEW b \in Banks
      PROVE  D[b] = IF \E j \in DOMAIN v : v[j].scope = {b} THEN 1 ELSE 0
  <2>1. CASE b = c
    <3>1. ASSUME NEW j \in DOMAIN v PROVE v[j].scope # {b}
      <4>1. Old(j) \in DOMAIN a /\ Old(j) # i /\ v[j] = a[Old(j)]
        BY <1>1, <1>2, <1>3
      <4>2. a[Old(j)].scope # a[i].scope
        BY <4>1 DEF Holding
      <4> QED
        BY <1>6, <2>1, <4>1, <4>2
    <3>2. C[b] = 1
      BY <1>1, <1>6, <2>1 DEF Holding
    <3> QED
      BY <1>6, <2>1, <3>1, <3>2
  <2>2. CASE b # c
    <3>1. (\E m \in DOMAIN a : a[m].scope = {b}) <=> (\E j \in DOMAIN v : v[j].scope = {b})
      <4>1. ASSUME NEW m \in DOMAIN a, a[m].scope = {b} PROVE \E j \in DOMAIN v : v[j].scope = {b}
        <5>1. m # i
          BY Zenon, <1>6, <2>2, <4>1
        <5>2. PICK j \in 1..(n - 1) : Old(j) = m
          BY <1>1, <1>5, <5>1
        <5> QED
          BY <1>2, <4>1, <5>2
      <4>2. ASSUME NEW j \in DOMAIN v, v[j].scope = {b} PROVE \E m \in DOMAIN a : a[m].scope = {b}
        BY <1>1, <1>2, <1>3, <4>2
      <4> QED
        BY <4>1, <4>2
    <3>2. D[b] = C[b]
      BY <1>6, <2>2
    <3> QED
      BY Zenon, <3>1, <3>2 DEF Holding
  <2> QED
    BY <2>1, <2>2
<1>8. D \in [Banks -> Int]
    BY DEF Holding
<1>9. \A j, k \in DOMAIN v : v[j].scope = v[k].scope => j = k
    BY <1>1, <1>2, <1>3, <1>4 DEF Holding
<1>10. \A j \in DOMAIN v : \A b \in v[j].scope : R[b] = {v[j].row}
    BY <1>1, <1>2, <1>3 DEF Holding
<1> HIDE DEF D
<1>11. Holding(v, D, R)
    BY Zenon, <1>7, <1>8, <1>9, <1>10 DEF Holding
<1> QED
    BY <1>11 DEF v, D

\* Request r activates its row in a closed bank: the rows were R and become Q.
Opens(r, R, Q) ==
    /\ \A b \in r.scope : R[b] = {}
    /\ \A b \in Banks : Q[b] = IF b \in r.scope THEN {r.row} ELSE R[b]

OneMore(C, r) == [b \in Banks |-> IF b \in r.scope THEN C[b] + 1 ELSE C[b]]

\* A request whose bank is closed opens its row and becomes active.
LEMMA HoldingAppend ==
    ASSUME NEW a \in Seq(ExternalReq), NEW C, NEW R, Holding(a, C, R),
           NEW r \in ExternalReq, NEW Q, Opens(r, R, Q)
    PROVE  Holding(Append(a, r), OneMore(C, r), Q)
<1> USE DEF Opens
<1> DEFINE v == Append(a, r)
           n == Len(a)
           D == [b \in Banks |-> IF b \in r.scope THEN C[b] + 1 ELSE C[b]]
<1>1. /\ n \in Nat /\ DOMAIN a = 1..n
      /\ DOMAIN v = 1..(n + 1) /\ v[n + 1] = r
      /\ \A j \in 1..n : v[j] = a[j]
    OBVIOUS
<1>2. PICK c \in Banks : r.scope = {c}
    BY DEF ExternalReq
<1>3. ASSUME NEW j \in 1..n PROVE \E d \in Banks : a[j].scope = {d} /\ d # c
  <2>1. a[j] \in ExternalReq
    BY <1>1, ElementOfSeq
  <2>2. PICK d \in Banks : a[j].scope = {d}
    BY <2>1 DEF ExternalReq
  <2>3. R[d] = {a[j].row}
    BY <1>1, <2>2 DEF Holding
  <2> QED
    BY Zenon, <1>2, <2>2, <2>3
<1> HIDE DEF v
<1>4. ASSUME NEW b \in Banks
      PROVE  D[b] = IF \E j \in DOMAIN v : v[j].scope = {b} THEN 1 ELSE 0
  <2>1. CASE b = c
    <3>1. C[b] = 0
      <4>1. \A j \in DOMAIN a : a[j].scope # {b}
        BY Zenon, <1>1, <1>3, <2>1
      <4> QED
        BY Zenon, <4>1 DEF Holding
    <3>2. v[n + 1].scope = {b} /\ n + 1 \in DOMAIN v
      BY <1>1, <1>2, <2>1
    <3> QED
      BY <1>2, <2>1, <3>1, <3>2
  <2>2. CASE b # c
    <3>1. (\E m \in DOMAIN a : a[m].scope = {b}) <=> (\E j \in DOMAIN v : v[j].scope = {b})
      <4>1. ASSUME NEW m \in DOMAIN a, a[m].scope = {b}
            PROVE  m \in DOMAIN v /\ v[m].scope = {b}
        BY <1>1, <4>1
      <4>2. ASSUME NEW j \in DOMAIN v, v[j].scope = {b}
            PROVE  j \in DOMAIN a /\ a[j].scope = {b}
        <5>1. j # n + 1
          BY Zenon, <1>1, <1>2, <2>2, <4>2
        <5> QED
          BY <1>1, <4>2, <5>1
      <4> QED
        BY <4>1, <4>2
    <3>2. D[b] = C[b]
      BY <1>2, <2>2
    <3> QED
      BY Zenon, <3>1, <3>2 DEF Holding
  <2> QED
    BY <2>1, <2>2
<1>5. D \in [Banks -> Int]
    BY DEF Holding
<1>6. \A j, k \in DOMAIN v : v[j].scope = v[k].scope => j = k
  <2>1. \A j \in 1..n : v[j].scope # v[n + 1].scope
    BY <1>1, <1>2, <1>3
  <2> QED
    BY <1>1, <2>1 DEF Holding
<1>7. ASSUME NEW j \in DOMAIN v, NEW b \in v[j].scope PROVE Q[b] = {v[j].row}
  <2>1. CASE j = n + 1
    BY <1>1, <1>2, <2>1
  <2>2. CASE j \in 1..n
    <3>1. b \in Banks /\ b # c /\ R[b] = {a[j].row}
      BY <1>1, <1>3, <2>2 DEF Holding
    <3> QED
      BY <1>1, <1>2, <2>2, <3>1
  <2> QED
    BY <1>1, <2>1, <2>2
<1> HIDE DEF D
<1>8. Holding(v, D, Q)
    BY Zenon, <1>4, <1>5, <1>6, <1>7 DEF Holding
<1> QED
    BY <1>8 DEF v, D, OneMore

\* Rows may change in banks that have no active request.
LEMMA HoldingRows ==
    ASSUME NEW a, NEW C, NEW R, NEW Q, Holding(a, C, R),
           \A i \in DOMAIN a : \A b \in a[i].scope : Q[b] = R[b]
    PROVE  Holding(a, C, Q)
BY DEF Holding

-----------------------------------------------------------------------------
(* The shape of the buffers *)

\* A sequence of maintenance requests.
MaintenanceQueue(q) ==
    /\ \E S : q \in Seq(S)
    /\ \A i \in DOMAIN q : q[i].final \in {"PREpb", "REFab"}

Shaped(B) ==
    /\ B = [b \in Buffers |-> B[b]]
    /\ \A b \in {"read", "write", "active"} : B[b] \in Seq(ExternalReq)
    /\ MaintenanceQueue(B["priority"])

\* Queueing more maintenance.
LEMMA MaintenanceConcat ==
    ASSUME NEW p, MaintenanceQueue(p), NEW q, MaintenanceQueue(q)
    PROVE  MaintenanceQueue(p \o q)
<1>1. PICK S : p \in Seq(S)
    BY DEF MaintenanceQueue
<1>2. PICK T : q \in Seq(T)
    BY DEF MaintenanceQueue
<1>3. p \in Seq(S \cup T) /\ q \in Seq(S \cup T)
    BY <1>1, <1>2, SeqMonotonic
<1>4. /\ p \o q \in Seq(S \cup T) /\ Len(p \o q) = Len(p) + Len(q)
      /\ \A i \in 1..(Len(p) + Len(q)) :
            (p \o q)[i] = IF i <= Len(p) THEN p[i] ELSE q[i - Len(p)]
    BY <1>3, ConcatProperties
<1>5. /\ DOMAIN (p \o q) = 1..(Len(p) + Len(q))
      /\ DOMAIN p = 1..Len(p) /\ DOMAIN q = 1..Len(q)
      /\ Len(p) \in Nat /\ Len(q) \in Nat
    BY <1>3, <1>4
<1>6. ASSUME NEW i \in DOMAIN (p \o q)
      PROVE  (p \o q)[i].final \in {"PREpb", "REFab"}
  <2>1. CASE i <= Len(p)
    <3>1. i \in DOMAIN p /\ (p \o q)[i] = p[i]
      BY <1>4, <1>5, <2>1
    <3> QED
      BY <3>1 DEF MaintenanceQueue
  <2>2. CASE ~ (i <= Len(p))
    <3>1. i - Len(p) \in DOMAIN q /\ (p \o q)[i] = q[i - Len(p)]
      BY <1>4, <1>5, <2>2
    <3> QED
      BY <3>1 DEF MaintenanceQueue
  <2> QED
    BY <2>1, <2>2
<1>7. \E U : p \o q \in Seq(U)
    BY <1>4
<1> QED
    BY <1>6, <1>7 DEF MaintenanceQueue

\* Serving maintenance.
LEMMA MaintenanceRemove ==
    ASSUME NEW q, MaintenanceQueue(q), NEW i \in DOMAIN q
    PROVE  MaintenanceQueue(Remove(q, i))
<1>1. PICK S : q \in Seq(S)
    BY DEF MaintenanceQueue
<1>2. /\ Remove(q, i) \in Seq(S)
      /\ DOMAIN Remove(q, i) = 1..(Len(q) - 1)
      /\ \A j \in 1..(Len(q) - 1) : Remove(q, i)[j] = IF j < i THEN q[j] ELSE q[j + 1]
    BY <1>1, RemoveProperties
<1>3. Len(q) \in Nat /\ DOMAIN q = 1..Len(q)
    BY <1>1
<1>4. ASSUME NEW j \in DOMAIN Remove(q, i)
      PROVE  \E k \in DOMAIN q : Remove(q, i)[j] = q[k]
    BY <1>2, <1>3
<1> QED
    BY <1>2, <1>4 DEF MaintenanceQueue

\* What fits of the maintenance.
LEMMA MaintenancePrefix ==
    ASSUME NEW q, MaintenanceQueue(q), NEW n \in Nat, n <= Len(q)
    PROVE  MaintenanceQueue(SubSeq(q, 1, n))
<1>1. PICK S : q \in Seq(S)
    BY DEF MaintenanceQueue
<1>2. /\ SubSeq(q, 1, n) \in Seq(S)
      /\ DOMAIN SubSeq(q, 1, n) = 1..n
      /\ \A j \in 1..n : SubSeq(q, 1, n)[j] = q[j]
    BY <1>1
<1>3. DOMAIN q = 1..Len(q) /\ Len(q) \in Nat
    BY <1>1
<1>4. \A j \in 1..n : q[j].final \in {"PREpb", "REFab"}
    BY <1>3 DEF MaintenanceQueue
<1>5. \A j \in DOMAIN SubSeq(q, 1, n) : SubSeq(q, 1, n)[j].final \in {"PREpb", "REFab"}
    BY <1>2, <1>4
<1>6. \E T : SubSeq(q, 1, n) \in Seq(T)
    BY Zenon, <1>2
<1> QED
    BY Zenon, <1>5, <1>6 DEF MaintenanceQueue

\* An enumeration of a finite set is a sequence.
LEMMA AscendingSeq ==
    ASSUME NEW S, IsFiniteSet(S)
    PROVE  \E T : Ascending(S) \in Seq(T)
<1> DEFINE n == Cardinality(S)
           e(k) == CHOOSE x \in S : Cardinality({y \in S : y < x}) = k - 1
           T == {e(k) : k \in 1..n}
<1>1. n \in Nat
    BY FS_CardinalityType
<1>2. Ascending(S) = [k \in 1..n |-> e(k)]
    BY DEF Ascending
<1> HIDE DEF e, n
<1>3. [k \in 1..n |-> e(k)] \in Seq(T)
    BY <1>1, IsASeq
<1> QED
    BY Zenon, <1>2, <1>3

\* A refresh manager queues maintenance.
LEMMA RefreshIsMaintenance == MaintenanceQueue(RefreshRequests)
<1> DEFINE D == {k \in DOMAIN Ranks : refreshIn[k] = 1}
           due == Ascending(D)
           m(j) == Maintenance("REFab", Ranks[due[j]])
<1>1. IsFiniteSet(D)
  <2>1. Len(Ranks) \in Nat /\ DOMAIN Ranks = 1..Len(Ranks)
    BY ControllerAssumption
  <2>2. IsFiniteSet(1..Len(Ranks))
    BY <2>1, FS_Interval
  <2> QED
    BY <2>1, <2>2, FS_Subset
<1>2. PICK T : due \in Seq(T)
    BY Zenon, <1>1, AscendingSeq
<1>3. Len(due) \in Nat /\ DOMAIN due = 1..Len(due)
    BY <1>2
<1>4. RefreshRequests = [j \in DOMAIN due |-> m(j)]
    BY DEF RefreshRequests
<1>5. \A j : m(j).final = "REFab"
    BY DEF Maintenance
<1> HIDE DEF m, due, D
<1>6. [j \in 1..Len(due) |-> m(j)] \in Seq({m(j) : j \in 1..Len(due)})
    BY <1>3, IsASeq
<1> QED
    BY Zenon, <1>3, <1>4, <1>5, <1>6 DEF MaintenanceQueue

\* The ClosedCAP row policy queues maintenance.
LEMMA InjectedIsMaintenance ==
    ASSUME NEW t, NEW room \in Nat
    PROVE  MaintenanceQueue([j \in DOMAIN Injected(t, room) |->
                                Maintenance("PREpb", {Injected(t, room)[j]})])
<1> DEFINE wants == {b \in Banks : /\ RowPolicy = "ClosedCAP"
                                   /\ colAccesses[b] >= Cap
                                   /\ ~ prepbInjected[b]
                                   /\ TimingReady(t, "PREpb", {b})}
           order == Ascending(wants)
           inject == Injected(t, room)
           m(j) == Maintenance("PREpb", {inject[j]})
<1>1. IsFiniteSet(wants)
    BY Zenon, ControllerAssumption, FS_Subset
<1>2. PICK T : order \in Seq(T)
    BY Zenon, <1>1, AscendingSeq
<1>3. inject = SubSeq(order, 1, IF Len(order) <= room THEN Len(order) ELSE room)
    BY DEF Injected
<1> HIDE DEF order, inject, wants
<1>4. inject \in Seq(T)
    BY <1>2, <1>3
<1>5. Len(inject) \in Nat /\ DOMAIN inject = 1..Len(inject)
    BY <1>4
<1>6. \A j : m(j).final = "PREpb"
    BY DEF Maintenance
<1> HIDE DEF m
<1>7. [j \in 1..Len(inject) |-> m(j)] \in Seq({m(j) : j \in 1..Len(inject)})
    BY <1>5, IsASeq
<1>8. MaintenanceQueue([j \in DOMAIN inject |-> m(j)])
    BY Zenon, <1>5, <1>6, <1>7 DEF MaintenanceQueue
<1> QED
    BY <1>8 DEF inject, m

-----------------------------------------------------------------------------
(* Steps on the buffers *)

\* A request leaves a buffer.
LEMMA ShapedRemove ==
    ASSUME NEW B, Shaped(B), NEW s \in Buffers, NEW i \in DOMAIN B[s]
    PROVE  Shaped([B EXCEPT ![s] = Remove(@, i)])
<1> DEFINE A == [B EXCEPT ![s] = Remove(@, i)]
<1>1. A[s] = Remove(B[s], i) /\ (\A b \in Buffers : b # s => A[b] = B[b])
    BY DEF Shaped
<1>2. A = [b \in Buffers |-> A[b]]
    BY DEF Shaped
<1>3. s # "priority" => Remove(B[s], i) \in Seq(ExternalReq)
    BY RemoveProperties DEF Shaped, Buffers
<1>4. s = "priority" => MaintenanceQueue(Remove(B[s], i))
    BY MaintenanceRemove DEF Shaped
<1> HIDE DEF A
<1>5. \A b \in {"read", "write", "active"} : A[b] \in Seq(ExternalReq)
    BY <1>1, <1>3 DEF Shaped, Buffers
<1>6. MaintenanceQueue(A["priority"])
  <2>1. CASE s = "priority"
    BY <1>1, <1>4, <2>1
  <2>2. CASE s # "priority"
    BY <1>1, <2>2 DEF Shaped, Buffers
  <2> QED
    BY <2>1, <2>2
<1>7. Shaped(A)
    BY <1>2, <1>5, <1>6 DEF Shaped
<1> QED
    BY <1>7 DEF A

\* A read or write enters a buffer.
LEMMA ShapedAppend ==
    ASSUME NEW B, Shaped(B), NEW s \in {"read", "write", "active"}, NEW r \in ExternalReq
    PROVE  Shaped([B EXCEPT ![s] = Append(@, r)])
<1> DEFINE A == [B EXCEPT ![s] = Append(@, r)]
<1>1. A[s] = Append(B[s], r) /\ (\A b \in Buffers : b # s => A[b] = B[b])
    BY DEF Shaped, Buffers
<1>2. A = [b \in Buffers |-> A[b]]
    BY Zenon DEF Shaped
<1>3. Append(B[s], r) \in Seq(ExternalReq)
    BY AppendProperties DEF Shaped
<1> HIDE DEF A
<1>4. \A b \in {"read", "write", "active"} : A[b] \in Seq(ExternalReq)
    BY Zenon, <1>1, <1>3 DEF Shaped, Buffers
<1>5. A["priority"] = B["priority"]
    BY <1>1 DEF Buffers
<1>6. Shaped(A)
    BY <1>2, <1>4, <1>5 DEF Shaped
<1> QED
    BY <1>6 DEF A

\* The hooks of a tick change the priority buffer only.
LEMMA ShapedPriority ==
    ASSUME NEW B, Shaped(B), NEW q, MaintenanceQueue(q)
    PROVE  /\ Shaped([B EXCEPT !["priority"] = q])
           /\ \A b \in Buffers : b # "priority" => [B EXCEPT !["priority"] = q][b] = B[b]
           /\ [B EXCEPT !["priority"] = q]["priority"] = q
<1> DEFINE A == [B EXCEPT !["priority"] = q]
<1>1. A["priority"] = q /\ (\A b \in Buffers : b # "priority" => A[b] = B[b])
    BY DEF Shaped, Buffers
<1>2. A = [b \in Buffers |-> A[b]]
    BY DEF Shaped
<1> HIDE DEF A
<1>3. \A b \in {"read", "write", "active"} : A[b] \in Seq(ExternalReq)
    BY <1>1 DEF Shaped, Buffers
<1>4. Shaped(A)
    BY <1>1, <1>2, <1>3 DEF Shaped
<1> QED
    BY <1>1, <1>4 DEF A

-----------------------------------------------------------------------------
(* Issuing a command *)

\* No maintenance request activates a row, and none is upgraded.
LEMMA MaintenanceCommand ==
    ASSUME NEW t, NEW r, r.final \in {"PREpb", "REFab"}
    PROVE  /\ Preq(r) \in {"PREpb", "PREab", "REFab"}
           /\ Upgraded(t, r, Preq(r)) = Preq(r)
<1>1. Preq(r) \in {"PREpb", "PREab", "REFab"}
    BY DEF Preq, AccessPreq, RefreshPreq, Access
<1> QED
    BY <1>1 DEF Upgraded

\* The requests in the buffers.
LEMMA RequestTypes ==
    ASSUME NEW B, Shaped(B), NEW s \in Buffers, NEW i \in DOMAIN B[s]
    PROVE  /\ s # "priority" => B[s][i] \in ExternalReq
           /\ s = "priority" => B[s][i].final \in {"PREpb", "REFab"}
<1>1. CASE s # "priority"
  <2>1. B[s] \in Seq(ExternalReq)
    BY <1>1 DEF Shaped, Buffers
  <2>2. i \in 1..Len(B[s])
    BY <2>1
  <2>3. B[s][i] \in ExternalReq
    BY <2>1, <2>2, ElementOfSeq
  <2> QED
    BY <1>1, <2>3
<1>2. CASE s = "priority"
    BY <1>2 DEF Shaped, MaintenanceQueue
<1> QED
    BY <1>1, <1>2

\* Their final commands.
LEMMA RequestFinal ==
    ASSUME NEW B, Shaped(B), NEW s \in Buffers, NEW i \in DOMAIN B[s]
    PROVE  B[s][i].final \in {"RD", "WR", "PREpb", "REFab"}
<1>1. CASE s # "priority"
  <2>1. B[s][i] \in ExternalReq
    BY <1>1, RequestTypes
  <2> QED
    BY <2>1 DEF ExternalReq
<1>2. CASE s = "priority"
    BY <1>2, RequestTypes
<1> QED
    BY <1>1, <1>2

\* Whatever is issued, the buffers keep their shape and the buffered write
\* addresses stay exact.
LEMMA IssueKeepsWrites ==
    ASSUME NEW t, NEW B, Shaped(B), Exact(B["write"], wrAddrs),
           NEW s \in Buffers, NEW i \in DOMAIN B[s], NEW injected,
           Issue(t, B, s, i, injected)
    PROVE  Shaped(buf') /\ Exact(buf'["write"], wrAddrs')
<1> DEFINE r == B[s][i]
           cmd == Upgraded(t, r, Preq(r))
<1>1. \/ Retire(B, s, i)
      \/ cmd = "ACT" /\ Promote(B, s, i)
      \/ Keep(B)
    BY DEF Issue
<1>2. B["write"] \in Seq(ExternalReq)
    BY DEF Shaped
<1>3. CASE Keep(B)
    BY <1>3 DEF Keep
<1>4. CASE Retire(B, s, i)
  <2>1. buf' = [B EXCEPT ![s] = Remove(@, i)]
    BY <1>4 DEF Retire
  <2>2. Shaped(buf')
    BY Zenon, <2>1, ShapedRemove
  <2>3. CASE s = "write"
    <3>1. buf'["write"] = Remove(B["write"], i) /\ wrAddrs' = wrAddrs \ {B["write"][i].addr}
      BY <1>4, <2>1, <2>3 DEF Retire, Shaped, Buffers
    <3> QED
      BY <1>2, <2>2, <2>3, <3>1, ExactRemove
  <2>4. CASE s # "write"
    <3>1. buf'["write"] = B["write"] /\ wrAddrs' = wrAddrs
      BY <1>4, <2>1, <2>4 DEF Retire, Shaped, Buffers
    <3> QED
      BY <2>2, <3>1
  <2> QED
    BY <2>3, <2>4
<1>5. CASE cmd = "ACT" /\ Promote(B, s, i)
  <2>1. s # "priority" /\ r \in ExternalReq
    BY <1>5, RequestTypes, MaintenanceCommand
  <2>2. CASE ~ (Len(B["active"]) < Size("active"))
    <3>1. buf' = B /\ wrAddrs' = wrAddrs
      BY <1>5, <2>2 DEF Promote
    <3> QED
      BY <3>1
  <2>3. CASE Len(B["active"]) < Size("active")
    <3> DEFINE A == [B EXCEPT !["active"] = Append(@, r)]
    <3>1. buf' = [A EXCEPT ![s] = Remove(@, i)]
      BY <1>5, <2>3 DEF Promote
    <3>2. Shaped(A)
      BY <2>1, ShapedAppend
    <3>3. A["active"] = Append(B["active"], r) /\ (\A b \in Buffers : b # "active" => A[b] = B[b])
      BY DEF Shaped, Buffers
    <3> HIDE DEF A
    <3>4. i \in DOMAIN A[s]
      <4>1. CASE s = "active"
        <5>1. B["active"] \in Seq(ExternalReq)
          BY DEF Shaped
        <5>2. DOMAIN B["active"] \subseteq DOMAIN Append(B["active"], r)
          BY <2>1, <5>1
        <5> QED
          BY <3>3, <4>1, <5>2
      <4>2. CASE s # "active"
        BY <3>3, <4>2
      <4> QED
        BY <4>1, <4>2
    <3>5. Shaped(buf')
      BY Zenon, <3>1, <3>2, <3>4, ShapedRemove
    <3>6. CASE s = "write"
      <4>1. buf'["write"] = Remove(B["write"], i) /\ wrAddrs' = wrAddrs \ {B["write"][i].addr}
        BY <1>5, <2>3, <3>1, <3>2, <3>3, <3>6 DEF Promote, Shaped, Buffers
      <4> QED
        BY <1>2, <3>5, <3>6, <4>1, ExactRemove
    <3>7. CASE s # "write"
      <4>1. buf'["write"] = B["write"] /\ wrAddrs' = wrAddrs
        BY <1>5, <2>3, <3>1, <3>2, <3>3, <3>7 DEF Promote, Shaped, Buffers
      <4> QED
        BY <3>5, <4>1
    <3> QED
      BY <3>6, <3>7
  <2> QED
    BY <2>2, <2>3
<1> QED
    BY <1>1, <1>3, <1>4, <1>5

\* The row policy never turns an access into one that closes the bank.
NoUpgrade == ~ (RowPolicy = "ClosedCAP" /\ HasAP)

\* A closing command that would_close_active lets pass meets no active request.
LEMMA ClosesNoActive ==
    ASSUME NEW a \in Seq(ExternalReq), NEW R, Holding(a, activePerBank, R), NEW r, NEW cmd \in Closing,
           ~ WouldCloseActive(cmd, r, a)
    PROVE  \A i \in DOMAIN a : a[i].scope \cap r.scope = {}
<1> SUFFICES ASSUME NEW i \in DOMAIN a, NEW b \in a[i].scope, b \in r.scope
             PROVE  FALSE
    OBVIOUS
<1>1. i \in 1..Len(a) /\ a[i] \in ExternalReq
    BY ElementOfSeq
<1>2. b \in Banks /\ a[i].scope = {b}
    BY <1>1 DEF ExternalReq
<1>3. activePerBank[b] = 1
    BY <1>2 DEF Holding
<1>4. a # <<>>
    BY <1>1
<1> QED
    BY <1>3, <1>4 DEF WouldCloseActive

\* Without upgrades, whatever is issued, each active request keeps its bank, its
\* count and its open row.
LEMMA IssueKeepsActive ==
    ASSUME NoUpgrade,
           NEW t, NEW B, Shaped(B), Holding(B["active"], activePerBank, rows),
           NEW s \in Buffers, NEW i \in DOMAIN B[s], NEW injected,
           Issue(t, B, s, i, injected),
           s # "active" => ~ WouldCloseActive(Preq(B[s][i]), B[s][i], B["active"])
    PROVE  Holding(buf'["active"], activePerBank', rows')
<1> DEFINE r == B[s][i]
           cmd == Preq(r)
           a == B["active"]
<1>1. /\ rows' = RowsAfter(cmd, r)
      /\ \/ cmd = r.final /\ Retire(B, s, i)
         \/ cmd # r.final /\ cmd = "ACT" /\ Promote(B, s, i)
         \/ cmd # r.final /\ cmd # "ACT" /\ Keep(B)
  <2>1. Upgraded(t, r, cmd) = cmd
    BY DEF NoUpgrade, Upgraded
  <2>2. cmd \notin {"RDA", "WRA"}
    <3>1. r.final \in {"RD", "WR", "PREpb", "REFab"}
      BY RequestFinal
    <3> QED
      BY <3>1 DEF Preq, AccessPreq, RefreshPreq, Access
  <2> QED
    BY <2>1, <2>2 DEF Issue
<1>2. a \in Seq(ExternalReq) /\ \A j \in DOMAIN a : a[j] \in ExternalReq
  <2>1. a \in Seq(ExternalReq)
    BY DEF Shaped
  <2> HIDE DEF a
  <2> QED
    BY <2>1
<1>3. ASSUME \A j \in DOMAIN a : a[j].scope \cap r.scope = {}
      PROVE  Holding(a, activePerBank, rows')
  <2>1. ASSUME NEW j \in DOMAIN a, NEW b \in a[j].scope PROVE rows'[b] = rows[b]
    <3>1. a[j] \in ExternalReq
      BY <1>2
    <3>2. b \in Banks /\ b \notin r.scope
      BY <1>3, <3>1 DEF ExternalReq
    <3> QED
      BY <1>1, <3>2 DEF RowsAfter
  <2> QED
    BY <2>1, HoldingRows
<1>4. ASSUME cmd \notin Closing, cmd # "ACT"
      PROVE  Holding(a, activePerBank, rows')
  <2>1. ASSUME NEW j \in DOMAIN a, NEW b \in a[j].scope PROVE rows'[b] = rows[b]
    <3>1. a[j] \in ExternalReq
      BY <1>2
    <3>2. b \in Banks
      BY <3>1 DEF ExternalReq
    <3> QED
      BY <1>1, <1>4, <3>2 DEF RowsAfter
  <2> QED
    BY <2>1, HoldingRows
<1>5. CASE s = "active"
  <2>1. r \in ExternalReq
    BY <1>5, RequestTypes
  <2>2. cmd = r.final /\ cmd \in {"RD", "WR"}
    <3>1. PICK c \in Banks : r.scope = {c}
      BY <2>1 DEF ExternalReq
    <3>2. rows[c] = {r.row}
      BY <1>5, <3>1 DEF Holding
    <3>3. r.final \in {"RD", "WR"}
      BY <2>1 DEF ExternalReq
    <3> QED
      BY <3>1, <3>2, <3>3 DEF Preq, AccessPreq, RefreshPreq, Access
  <2>3. Retire(B, s, i)
    BY <1>1, <2>2
  <2>4. Holding(a, activePerBank, rows')
    BY <1>4, <2>2 DEF Closing
  <2>5. buf'["active"] = Remove(a, i)
    BY <1>5, <2>3 DEF Retire, Shaped, Buffers
  <2>6. activePerBank' =
            [b \in Banks |-> IF b \in a[i].scope THEN activePerBank[b] + (-1) ELSE activePerBank[b]]
    BY <1>5, <2>3 DEF Retire, CountActive
  <2> QED
    BY <1>2, <1>5, <2>4, <2>5, <2>6, HoldingRemove
<1>6. CASE s # "active" /\ cmd # "ACT"
  <2>1. Holding(a, activePerBank, rows')
    <3>1. CASE cmd \in Closing
      BY <1>2, <1>3, <1>6, <3>1, ClosesNoActive
    <3>2. CASE cmd \notin Closing
      BY <1>4, <1>6, <3>2
    <3> QED
      BY <3>1, <3>2
  <2>2. activePerBank' = activePerBank
    BY <1>1, <1>6 DEF Retire, Keep
  <2>3. buf'["active"] = a
    BY <1>1, <1>6 DEF Retire, Keep, Shaped, Buffers
  <2> QED
    BY <2>1, <2>2, <2>3
<1>7. CASE s # "active" /\ cmd = "ACT"
  <2>1. s # "priority" /\ r \in ExternalReq
    <3>1. ASSUME s = "priority" PROVE FALSE
      <4>1. r.final \in {"PREpb", "REFab"}
        BY <3>1, RequestTypes
      <4> HIDE DEF r
      <4>2. Preq(r) \in {"PREpb", "PREab", "REFab"}
        BY <4>1, MaintenanceCommand
      <4> QED
        BY <1>7, <4>2
    <3> QED
      BY <3>1, RequestTypes
  <2>2. r.final \in {"RD", "WR"} /\ Promote(B, s, i)
    BY <1>1, <1>7, <2>1 DEF ExternalReq
  <2>3. \A b \in r.scope : rows[b] = {}
    BY <1>7, <2>2 DEF Preq, AccessPreq, RefreshPreq, Access
  <2>4. \A b \in Banks : rows'[b] = IF b \in r.scope THEN {r.row} ELSE rows[b]
    BY <1>1, <1>7, <2>3 DEF RowsAfter
  <2>5. CASE ~ (Len(a) < Size("active"))
    <3>1. buf' = B /\ activePerBank' = activePerBank
      BY <2>2, <2>5 DEF Promote
    <3>2. ASSUME NEW j \in DOMAIN a PROVE a[j].scope \cap r.scope = {}
      <4>1. \A b \in a[j].scope : rows[b] = {a[j].row}
        BY DEF Holding
      <4>2. \A b \in a[j].scope : rows[b] # {}
        BY <4>1
      <4> QED
        BY <2>3, <4>2
    <3> QED
      BY <1>3, <3>1, <3>2
  <2>6. CASE Len(a) < Size("active")
    <3>1. buf'["active"] = Append(a, r)
      BY <1>7, <2>2, <2>6 DEF Promote, Shaped, Buffers
    <3>2. activePerBank' = OneMore(activePerBank, r)
      BY <2>2, <2>6 DEF Promote, CountActive, OneMore
    <3>3. Holding(a, activePerBank, rows)
      OBVIOUS
    <3>4. Opens(r, rows, rows')
      BY <2>3, <2>4 DEF Opens
    <3> HIDE DEF a, r, cmd
    <3>5. Holding(Append(a, r), OneMore(activePerBank, r), rows')
      BY <1>2, <2>1, <3>3, <3>4, HoldingAppend
    <3> QED
      BY <3>1, <3>2, <3>5
  <2> QED
    BY <2>5, <2>6
<1> QED
    BY <1>5, <1>6, <1>7

-----------------------------------------------------------------------------
(* The inductive invariant *)

Writes == Shaped(buf) /\ sent \in Nat /\ stamp \in Nat /\ Exact(buf["write"], wrAddrs)

Actives == Holding(buf["active"], activePerBank, rows)

IInv == Writes /\ (NoUpgrade => Actives)

\* The choice of a request and the issue of its command.
LEMMA ScheduleKeeps ==
    ASSUME NEW t, NEW B, Shaped(B), Exact(B["write"], wrAddrs),
           NoUpgrade => Holding(B["active"], activePerBank, rows),
           NEW injected, Schedule(t, B, injected)
    PROVE  /\ Shaped(buf') /\ Exact(buf'["write"], wrAddrs')
           /\ NoUpgrade => Actives'
<1> DEFINE a == B["active"]
           ready == ReadyIn(t, a)
           queue == IF WriteModeAfter(B) THEN "write" ELSE "read"
           eligible == EligibleIn(t, B[queue], a)
<1>1. ASSUME IssueNothing(t, B, injected)
      PROVE  /\ Shaped(buf') /\ Exact(buf'["write"], wrAddrs')
             /\ NoUpgrade => Actives'
    BY <1>1 DEF IssueNothing, Keep, Actives
<1>2. ASSUME NEW s \in Buffers, NEW i \in DOMAIN B[s], Issue(t, B, s, i, injected),
             s # "active" => ~ WouldCloseActive(Preq(B[s][i]), B[s][i], a)
      PROVE  /\ Shaped(buf') /\ Exact(buf'["write"], wrAddrs')
             /\ NoUpgrade => Actives'
  <2>1. Shaped(buf') /\ Exact(buf'["write"], wrAddrs')
    BY <1>2, IssueKeepsWrites
  <2>2. ASSUME NoUpgrade PROVE Actives'
    BY <1>2, <2>2, IssueKeepsActive DEF Actives
  <2> QED
    BY <2>1, <2>2
<1>3. a \in Seq(ExternalReq) /\ queue \in {"read", "write"} /\ B[queue] \in Seq(ExternalReq)
    BY DEF Shaped
<1>4. CASE ready # {} /\ Issue(t, B, "active", Oldest(a, ready), injected)
  <2>1. Oldest(a, ready) \in DOMAIN a
    BY Zenon, <1>3, <1>4, OldestIsCandidate DEF ReadyIn
  <2> QED
    BY <1>2, <1>4, <2>1 DEF Buffers
<1>5. CASE PriorityReady(t, B) /\ Issue(t, B, "priority", 1, injected)
  <2>1. 1 \in DOMAIN B["priority"]
    <3>1. B["priority"] # <<>>
      BY <1>5 DEF PriorityReady
    <3>2. PICK S : B["priority"] \in Seq(S)
      BY DEF Shaped, MaintenanceQueue
    <3> QED
      BY <3>1, <3>2
  <2>2. ~ WouldCloseActive(Preq(B["priority"][1]), B["priority"][1], a)
    BY <1>5 DEF PriorityReady
  <2> QED
    BY <1>2, <1>5, <2>1, <2>2 DEF Buffers
<1>6. CASE eligible # {} /\ Issue(t, B, queue, Oldest(B[queue], eligible), injected)
  <2> DEFINE i == Oldest(B[queue], eligible)
  <2>1. eligible \in SUBSET (DOMAIN B[queue])
    BY DEF EligibleIn, ReadyIn
  <2>2. i \in eligible
    BY <1>3, <1>6, <2>1, OldestIsCandidate
  <2>3. i \in DOMAIN B[queue] /\ ~ WouldCloseActive(Preq(B[queue][i]), B[queue][i], a)
    BY <2>2 DEF EligibleIn, ReadyIn
  <2>4. queue \in Buffers
    BY <1>3 DEF Buffers
  <2> HIDE DEF i, queue
  <2>5. Issue(t, B, queue, i, injected)
    BY <1>6 DEF i
  <2> QED
    BY <1>2, <2>3, <2>4, <2>5
<1> QED
    BY <1>1, <1>4, <1>5, <1>6 DEF Schedule

\* The whole tick.
LEMMA TickKeeps ==
    ASSUME IInv, Tick
    PROVE  IInv'
<1> DEFINE t == TimingTick(timing)
           refreshed == buf["priority"] \o RefreshRequests
           room == PriorityBufferSize - Len(refreshed)
           inject == Injected(t, room)
           closes == [j \in DOMAIN inject |-> Maintenance("PREpb", {inject[j]})]
           injected == [b \in Banks |-> prepbInjected[b] \/ \E j \in DOMAIN inject : inject[j] = b]
           B == [buf EXCEPT !["priority"] = refreshed \o closes]
<1>1. /\ Len(refreshed) <= PriorityBufferSize
      /\ Schedule(t, B, injected)
      /\ sent' = sent /\ stamp' \in {stamp, stamp + 1}
    BY DEF Tick
<1>2. MaintenanceQueue(refreshed)
    BY RefreshIsMaintenance, MaintenanceConcat DEF IInv, Writes, Shaped
<1>3. room \in Nat
  <2>1. PICK S : refreshed \in Seq(S)
    BY <1>2 DEF MaintenanceQueue
  <2>2. Len(refreshed) \in Nat
    BY <2>1
  <2> QED
    BY <1>1, <2>2, ControllerAssumption
<1> HIDE DEF refreshed, room, t
<1>4. MaintenanceQueue(closes)
    BY <1>3, InjectedIsMaintenance
<1> HIDE DEF closes, injected
<1>5. MaintenanceQueue(refreshed \o closes)
    BY <1>2, <1>4, MaintenanceConcat
<1>6. Shaped(B) /\ B["write"] = buf["write"] /\ B["active"] = buf["active"]
  <2>1. Shaped(buf)
    BY DEF IInv, Writes
  <2> QED
    BY Zenon, <1>5, <2>1, ShapedPriority DEF Buffers
<1> HIDE DEF B
<1>7. /\ Shaped(buf') /\ Exact(buf'["write"], wrAddrs')
      /\ NoUpgrade => Actives'
    BY <1>1, <1>6, ScheduleKeeps DEF IInv, Writes, Actives
<1>8. sent' \in Nat /\ stamp' \in Nat
    BY <1>1 DEF IInv, Writes
<1> QED
    BY <1>7, <1>8 DEF IInv, Writes, NoUpgrade

\* A tick that throws leaves the reads, the writes and the active requests alone.
LEMMA ThrowKeeps ==
    ASSUME IInv, TickThrows
    PROVE  IInv'
<1> DEFINE q == buf["priority"] \o RefreshRequests
           B == [buf EXCEPT !["priority"] = SubSeq(q, 1, PriorityBufferSize)]
<1>1. Keep(B) /\ UNCHANGED <<rows, sent, stamp>>
    BY DEF TickThrows
<1>2. MaintenanceQueue(buf["priority"]) /\ MaintenanceQueue(RefreshRequests)
    BY RefreshIsMaintenance DEF IInv, Writes, Shaped
<1>3. MaintenanceQueue(q)
    BY <1>2, MaintenanceConcat
<1>4. PriorityBufferSize \in Nat /\ PriorityBufferSize <= Len(q)
  <2>1. PICK S : buf["priority"] \in Seq(S)
    BY <1>2 DEF MaintenanceQueue
  <2>2. PICK T : RefreshRequests \in Seq(T)
    BY <1>2 DEF MaintenanceQueue
  <2>3. buf["priority"] \in Seq(S \cup T) /\ RefreshRequests \in Seq(S \cup T)
    BY <2>1, <2>2, SeqMonotonic
  <2>4. Len(q) = Len(buf["priority"]) + Len(RefreshRequests)
    BY <2>3, ConcatProperties
  <2>5. Len(buf["priority"]) \in Nat /\ Len(RefreshRequests) \in Nat
    BY <2>3
  <2> QED
    BY <2>4, <2>5, ControllerAssumption DEF TickThrows
<1> HIDE DEF q
<1>5. MaintenanceQueue(SubSeq(q, 1, PriorityBufferSize))
    BY <1>3, <1>4, MaintenancePrefix
<1>6. Shaped(B) /\ B["write"] = buf["write"] /\ B["active"] = buf["active"]
  <2>1. Shaped(buf)
    BY DEF IInv, Writes
  <2> QED
    BY Zenon, <1>5, <2>1, ShapedPriority DEF Buffers
<1> HIDE DEF B
<1>7. buf' = B /\ UNCHANGED <<wrAddrs, activePerBank, rows, sent, stamp>>
    BY <1>1 DEF Keep
<1> QED
    BY <1>6, <1>7 DEF IInv, Writes, Actives, NoUpgrade

\* send(): a buffered write's address is never buffered a second time.
LEMMA SendKeeps ==
    ASSUME IInv, Send
    PROVE  IInv'
<1>1. PICK a \in Addrs : \/ SendForwarded(a)
                         \/ SendCoalesced(a)
                         \/ \E type \in {"Read", "Write"} : SendEnqueued(type, a)
    BY DEF Send
<1>2. CASE SendForwarded(a) \/ SendCoalesced(a)
  <2>1. UNCHANGED <<buf, wrAddrs, activePerBank, rows, stamp>> /\ sent' = sent + 1
    BY <1>2 DEF SendForwarded, SendCoalesced, Admit
  <2> QED
    BY <2>1 DEF IInv, Writes, Actives, NoUpgrade
<1>3. ASSUME NEW type \in {"Read", "Write"}, SendEnqueued(type, a)
      PROVE  IInv'
  <2> DEFINE b == IF type = "Read" THEN "read" ELSE "write"
             r == External(sent + 1, type, a)
  <2>1. /\ sent < MaxReqs /\ sent' = sent + 1
        /\ UNCHANGED <<activePerBank, rows, stamp>>
        /\ a \notin wrAddrs
        /\ buf' = [buf EXCEPT ![b] = Append(@, r)]
        /\ wrAddrs' = IF type = "Write" THEN wrAddrs \cup {a} ELSE wrAddrs
    BY <1>3 DEF SendEnqueued, Admit
  <2>2. Shaped(buf) /\ sent \in Nat /\ stamp \in Nat /\ Exact(buf["write"], wrAddrs)
    BY DEF IInv, Writes
  <2>3. r \in ExternalReq /\ r.addr = a
    <3>1. sent + 1 \in 1..MaxReqs
      BY <2>1, <2>2, ControllerAssumption
    <3>2. a.bank \in Banks
      BY ControllerAssumption
    <3> QED
      BY <2>2, <3>1, <3>2 DEF External, ExternalReq
  <2>4. Shaped(buf')
    BY Zenon, <2>1, <2>2, <2>3, ShapedAppend
  <2>5. buf'["active"] = buf["active"]
    BY <2>1, <2>2 DEF Shaped, Buffers
  <2>6. Exact(buf'["write"], wrAddrs')
    <3>1. CASE type = "Write"
      <4>1. buf'["write"] = Append(buf["write"], r) /\ wrAddrs' = wrAddrs \cup {r.addr}
        BY <2>1, <2>2, <2>3, <3>1 DEF Shaped, Buffers
      <4>2. buf["write"] \in Seq(ExternalReq)
        BY <2>2 DEF Shaped
      <4> HIDE DEF r
      <4> QED
        BY <2>1, <2>2, <2>3, <4>1, <4>2, ExactAppend
    <3>2. CASE type = "Read"
      <4>1. buf'["write"] = buf["write"] /\ wrAddrs' = wrAddrs
        BY <2>1, <2>2, <3>2 DEF Shaped, Buffers
      <4> QED
        BY <2>2, <4>1
    <3> QED
      BY <3>1, <3>2
  <2> QED
    BY <2>1, <2>2, <2>4, <2>5, <2>6 DEF IInv, Writes, Actives, NoUpgrade
<1> QED
    BY <1>1, <1>2, <1>3

\* The initial state satisfies the invariant.
LEMMA InitEstablishes ==
    ASSUME Init
    PROVE  IInv
<1>1. buf = [b \in Buffers |-> <<>>] /\ wrAddrs = {} /\ sent = 0 /\ stamp = 1
    BY DEF Init
<1>2. /\ buf["read"] = <<>> /\ buf["write"] = <<>>
      /\ buf["active"] = <<>> /\ buf["priority"] = <<>>
    BY <1>1 DEF Buffers
<1>3. MaintenanceQueue(<<>>)
  <2>1. <<>> \in Seq({}) /\ DOMAIN <<>> = {}
    OBVIOUS
  <2> QED
    BY <2>1 DEF MaintenanceQueue
<1>4. Shaped(buf)
  <2>1. buf = [b \in Buffers |-> buf[b]]
    BY <1>1
  <2>2. \A b \in {"read", "write", "active"} : buf[b] \in Seq(ExternalReq)
    <3>1. <<>> \in Seq(ExternalReq)
      OBVIOUS
    <3> QED
      BY Zenon, <1>2, <3>1
  <2> QED
    BY <1>2, <1>3, <2>1, <2>2 DEF Shaped
<1>5. Exact(buf["write"], wrAddrs)
    BY <1>1, <1>2 DEF Exact
<1>6. Holding(buf["active"], activePerBank, rows)
    BY <1>2 DEF Holding, Init
<1> QED
    BY <1>1, <1>4, <1>5, <1>6 DEF IInv, Writes, Actives

\* The invariant is inductive.
THEOREM Invariance == Spec => []IInv
<1>1. Init => IInv
    BY InitEstablishes
<1>2. IInv /\ [Next]_vars => IInv'
  <2>1. ASSUME IInv, UNCHANGED vars PROVE IInv'
    BY <2>1 DEF vars, modelVars, IInv, Writes, Actives, NoUpgrade
  <2> QED
    BY <2>1, SendKeeps, TickKeeps, ThrowKeeps DEF Next
<1> QED
    BY <1>1, <1>2, PTL DEF Spec

\* The buffered write addresses are exact, whatever the policies and the device:
\* send() never misses a write that it should forward from or coalesce with.
THEOREM WriteAddrsAlwaysExact == Spec => []WriteAddrsExact
<1>1. IInv => WriteAddrsExact
    BY DEF IInv, Writes, Exact, WriteAddrsExact
<1> QED
    BY <1>1, Invariance, PTL

\* What the invariant says of the active requests of a bank.
LEMMA ActiveInBank ==
    ASSUME IInv, NoUpgrade, NEW b \in Banks
    PROVE  \/ activePerBank[b] = 0 /\ ActiveIn(b) = {}
           \/ activePerBank[b] = 1 /\ \E i : ActiveIn(b) = {i}
<1> DEFINE a == buf["active"]
<1>1. a \in Seq(ExternalReq) /\ Holding(a, activePerBank, rows)
    BY DEF IInv, Writes, Shaped, Actives
<1>2. ASSUME NEW i \in DOMAIN a PROVE b \in a[i].scope <=> a[i].scope = {b}
  <2>1. a[i] \in ExternalReq
    BY <1>1, ElementOfSeq
  <2> QED
    BY <2>1 DEF ExternalReq
<1>3. ActiveIn(b) = {i \in DOMAIN a : a[i].scope = {b}}
    BY <1>2 DEF ActiveIn
<1> HIDE DEF a
<1>4. CASE \E i \in DOMAIN a : a[i].scope = {b}
  <2>1. PICK i \in DOMAIN a : a[i].scope = {b}
    BY <1>4
  <2>2. ActiveIn(b) = {i}
    <3>1. ASSUME NEW j \in DOMAIN a, a[j].scope = {b} PROVE j = i
      BY Zenon, <1>1, <2>1, <3>1 DEF Holding
    <3> QED
      BY <1>3, <2>1, <3>1
  <2>3. activePerBank[b] = 1
    BY <1>1, <1>4 DEF Holding
  <2> QED
    BY Zenon, <2>2, <2>3
<1>5. CASE ~ \E i \in DOMAIN a : a[i].scope = {b}
    BY Zenon, <1>1, <1>3, <1>5 DEF Holding
<1> QED
    BY Zenon, <1>4, <1>5

\* Unless the row policy upgrades accesses, m_active_per_bank counts the active
\* requests.
THEOREM ActiveCountAlwaysExact ==
    ASSUME NoUpgrade
    PROVE  Spec => []ActiveCountExact
<1>1. IInv => ActiveCountExact
  <2> SUFFICES ASSUME IInv, NEW b \in Banks
               PROVE  activePerBank[b] = Cardinality(ActiveIn(b))
    BY DEF ActiveCountExact
  <2> QED
    BY Zenon, ActiveInBank, FS_EmptySet, FS_Singleton
<1> QED
    BY <1>1, Invariance, PTL

\* Unless the row policy upgrades accesses, no bank has two active requests, so
\* the active buffer is never full when a request is promoted.
THEOREM AlwaysOneActivePerBank ==
    ASSUME NoUpgrade
    PROVE  Spec => []OneActivePerBank
<1>1. IInv => OneActivePerBank
  <2> SUFFICES ASSUME IInv, NEW b \in Banks
               PROVE  Cardinality(ActiveIn(b)) <= 1
    BY DEF OneActivePerBank
  <2>1. CASE ActiveIn(b) = {}
    BY <2>1, FS_EmptySet
  <2>2. CASE \E i : ActiveIn(b) = {i}
    <3>1. PICK i : ActiveIn(b) = {i}
      BY <2>2
    <3>2. Cardinality({i}) = 1
      BY FS_Singleton
    <3> QED
      BY <3>1, <3>2
  <2> QED
    BY Zenon, <2>1, <2>2, ActiveInBank
<1> QED
    BY <1>1, Invariance, PTL

\* Unless the row policy upgrades accesses, an active request's row stays open
\* until the request is served.
THEOREM ActiveRowAlwaysOpen ==
    ASSUME NoUpgrade
    PROVE  Spec => []ActiveRowOpen
<1>1. IInv => ActiveRowOpen
    BY DEF IInv, Actives, Holding, ActiveRowOpen
<1> QED
    BY <1>1, Invariance, PTL
=============================================================================
